SPECIFICATION BatchSpec
CONSTANTS
    Count = 3
    MaxConcurrent = 2
INVARIANT TimeoutsAreAmbiguous
CHECK_DEADLOCK FALSE
