SPECIFICATION FairSpec
CONSTANTS
    c1 = c1
    c2 = c2
    c3 = c3
    ann = ann
    bob = bob
    Free = Free
    Calls <- MCCalls
    Owners <- MCOwners
    OwnerOf <- OneOwnerOf
    CostOf <- MCCostOf
    DailyLimit <- MCDailyLimit
    MaxDay = 1
    PruneAge = 0
INVARIANTS
    LimitWithoutAbandoned
    AnswerIsDurable
PROPERTIES
    ImplementsBudget
    AnswersArrive
CHECK_DEADLOCK FALSE
