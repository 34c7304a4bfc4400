\* Two agents of one user with a cap of one, two threads, two processes,
\* one crash, one restart and one status write that raises.
CONSTANTS
    Agents = {a1, a2}
    user = user
    Owners <- MCOwners
    Owner <- MCOwner
    Handlers = {h1, h2}
    None = None
    MaxPerUser = 1
    MaxProcs = 2
    MaxCrashes = 1
    MaxRestarts = 1
    MaxRaises = 1
SPECIFICATION Spec
SYMMETRY Symmetry
INVARIANTS
    TypeOK
    NoLostProcess
    
    CapBounded
