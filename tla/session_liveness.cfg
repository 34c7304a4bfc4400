\* The POST and one retry on two workers, one failing store call.
CONSTANTS
    Post = post
    Retries = {r1}
    Workers = {w1, w2}
    Viewers = {v1}
    Nobody = nobody
    MaxTurns = 1
    FailureSeq = 9
    MaxFaults = 1
SPECIFICATION FairSpec
CHECK_DEADLOCK FALSE
PROPERTIES
    SessionSettles
