SPECIFICATION Spec
CONSTANTS
    c1 = c1
    c2 = c2
    c3 = c3
    ann = ann
    stdio = stdio
    ark = ark
    Calls <- TwoCalls
    Owners <- TwoOwners
    OwnerOf <- AnnTwice
    CostOf <- TwoCosts
    DailyLimit = 2
    MaxDay = 0
    PruneAge = 0
    Providers <- MCProviders
    ProviderOf <- TwoArk
    LocalOwners <- MCLocalOwners
    ProviderLimit = 1
    PrincipalLimit = 1
    MaxGen = 1
    MaxAttempts = 2
INVARIANT
    RetriesAreSafe
CHECK_DEADLOCK FALSE
