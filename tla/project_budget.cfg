\* Three paid requests and a plan, a cap of two, a provider that may make
\* two wallets for the project, one fault of each kind.
CONSTANTS
    pro1 = pro1
    pro2 = pro2
    pro3 = pro3
    plan = plan
    creator = creator
    Paid = {pro1, pro2, pro3}
    Free = {plan}
    Price <- MCPrice
    MaxPrice = 2
    Cap = 2
    MaxWallets = 2
    MaxExtra = 1
    MaxGlitches = 1
    MaxMishaps = 1
    MaxCrashes = 1
SPECIFICATION Spec
SYMMETRY Symmetry
INVARIANTS
    TypeOK
    BudgetHeld
    AddressTruthful
    WalletFound
PROPERTY
    WalletKept
