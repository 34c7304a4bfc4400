\* As credit_pack, on a collection whose unique index was never created.
CONSTANTS
    Buyers = {b1, b2}
    cheap1 = cheap1
    cheap2 = cheap2
    dear1 = dear1
    Calls = {cheap1, cheap2, dear1}
    Cost <- MCCost
    Total = 3
    UniqueJti = FALSE
SPECIFICATION Spec
SYMMETRY Symmetry
CHECK_DEADLOCK FALSE
INVARIANTS
    NeverOverspent
