\* Three calls of one process and one of another, a cap that one call reaches,
\* a failed lookup and a charge without a record.
CONSTANTS
    gate = gate
    manual1 = manual1
    manual2 = manual2
    other = other
    Callers = {gate, manual1, manual2, other}
    Wrapper <- MCWrapper
    Forced = {manual1, manual2, other}
    Limited = {manual1, manual2, other}
    Ideas = {i1}
    None = None
    Cap = 2
    Prices = {2}
    MaxPrice = 2
    MaxGlitches = 1
    MaxUnrecorded = 1
SPECIFICATION Spec
SYMMETRY Symmetry
INVARIANTS
    TypeOK
    SpendBounded
    PaidOnce
    CeilingHeld
