SPECIFICATION LimitersFairSpec
CONSTANTS
    c1 = c1
    c2 = c2
    c3 = c3
    c4 = c4
    ann = ann
    bob = bob
    stdio = stdio
    ark = ark
    tos = tos
    Calls <- MCCalls
    Owners <- MCOwners
    OwnerOf <- MCOwnerOf
    Providers <- MCProviders
    ProviderOf <- MCProviderOf
    LocalOwners <- MCLocalOwners
    ProviderLimit = 2
    PrincipalLimit = 1
    MaxGen = 2
INVARIANTS
    PermitsConserved
    NobodyDeadlocked
PROPERTY
    EveryCallerServed
