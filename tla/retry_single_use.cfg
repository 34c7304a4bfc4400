\* As session_safety, without faults.
CONSTANTS
    Post = post
    Retries = {r1, r2}
    Workers = {w1, w2}
    Viewers = {v1}
    Nobody = nobody
    MaxTurns = 1
    FailureSeq = 9
    MaxFaults = 0
SPECIFICATION Spec
SYMMETRY Symmetry
CHECK_DEADLOCK FALSE
INVARIANTS
    RetryTokenSingleUse
