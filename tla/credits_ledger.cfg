\* Three requests in flight, two prices, at most three credits, floor -1.
CONSTANTS
    Clients = {c1, c2, c3}
    Prices <- MCPrices
    MaxPrice = 2
    Floor <- MCFloor
    Amounts <- MCAmounts
    MaxCredits = 3
SPECIFICATION Spec
SYMMETRY Symmetry
INVARIANTS
    TypeOK
    OverdraftBounded
    ServiceIsDebited
