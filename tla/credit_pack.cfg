\* One purchase and a replay of it; calls of 1, 1 and 2 tokens on a pack of 3.
CONSTANTS
    Buyers = {b1, b2}
    cheap1 = cheap1
    cheap2 = cheap2
    dear1 = dear1
    Calls = {cheap1, cheap2, dear1}
    Cost <- MCCost
    Total = 3
    UniqueJti = TRUE
SPECIFICATION Spec
SYMMETRY Symmetry
CHECK_DEADLOCK FALSE
INVARIANTS
    TypeOK
    RefusalsTruthful
    NeverOverspent
PROPERTIES
    IsPurse
