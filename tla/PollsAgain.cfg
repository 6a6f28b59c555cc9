SPECIFICATION Spec
CONSTANTS
    p1 = p1  p2 = p2  p3 = p3
    enhance = enhance  seedance = seedance  audio = audio
    first = first  second = second
    Nobody = Nobody
    Pollers <- PollPollers
    Tasks <- PollTasks
    Entries = {1, 2}
    ProtocolOf <- PollProtocolOf
    OutputsOf <- PollOutputsOf
    CacheTTL = 1
    CacheSize = 1
    ArtifactTTL = 4
    Patience = 1
    MaxTime = 4
    MaxLate = 1
    MaxPolls = 3
INVARIANTS CopiesAreNeeded
SYMMETRY PollSymmetry
VIEW PollView
CHECK_DEADLOCK FALSE
