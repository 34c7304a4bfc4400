\* Two newer versions, a queue of two, two starts and one event of each kind.
CONSTANTS
    Base = 1
    Newer = {2, 3}
    QueueMax = 2
    Bound <- MCBound
SPECIFICATION FairSpec
INVARIANTS
    TypeOK
    JournalComplete
    StopHeard
    NoPhantomRunner
    VersionAhead
PROPERTY
    StopEnds
CHECK_DEADLOCK FALSE
