SPECIFICATION Spec
CONSTANTS
    c1 = c1
    c2 = c2
    c3 = c3
    ann = ann
    bob = bob
    Free = Free
    Calls <- MCCalls
    Owners <- MCOwners
    OwnerOf <- MCOwnerOf
    CostOf <- MCCostOf
    DailyLimit <- MCDailyLimit
    MaxDay = 0
    PruneAge = 0
INVARIANT
    DailyLimitHolds
CHECK_DEADLOCK FALSE
