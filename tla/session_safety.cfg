\* The POST and two retries on two workers, one stream, one failing store call.
CONSTANTS
    Post = post
    Retries = {r1, r2}
    Workers = {w1, w2}
    Viewers = {v1}
    Nobody = nobody
    MaxTurns = 1
    FailureSeq = 9
    MaxFaults = 1
SPECIFICATION Spec
SYMMETRY Symmetry
CHECK_DEADLOCK FALSE
INVARIANTS
    TypeOK
    OneRetryToken
    OneDebateAtATime
    BilledOnce
    BilledForAnswer
    StreamsEndAlike
    FailureReachesStream
PROPERTIES
    PaidAnswerStays
