SPECIFICATION Spec
CONSTANTS
    c1 = c1
    c2 = c2
    c3 = c3
    ann = ann
    stdio = stdio
    ark = ark
    Calls <- ThreeCalls
    Owners <- TwoOwners
    OwnerOf <- ThreeOwnerOf
    CostOf <- ThreeCosts
    DailyLimit = 2
    MaxDay = 0
    PruneAge = 0
    Providers <- MCProviders
    ProviderOf <- ThreeArk
    LocalOwners <- MCLocalOwners
    ProviderLimit = 2
    PrincipalLimit = 1
    MaxGen = 1
    MaxAttempts = 2
INVARIANTS
    ExecutedOnce
    ExecutedWithinLimit
    OwnedIsCommitted
CHECK_DEADLOCK FALSE
