\* Two tokens, two days, one crash, one glitch, one rebuild.
CONSTANTS
    Tokens = {t1, t2}
    NoToken = NoToken
    NoFile = NoFile
    MaxConcurrent = 2
    MaxDaily = 2
    Budget = 2
    LossPause = 2
    MaxDays = 2
    MaxCrashes = 1
    MaxGlitches = 1
    MaxRebuilds = 1
SPECIFICATION Spec
SYMMETRY Symmetry
INVARIANTS
    TypeOK
    NoSilentOrphan
    BudgetBounded
    DailyCapBounded
PROPERTIES
    RebuildRecovers
