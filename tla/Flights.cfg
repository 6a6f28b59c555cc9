SPECIFICATION Spec
CONSTANTS
    p1 = p1  p2 = p2  p3 = p3
    enhance = enhance  seedance = seedance  audio = audio
    first = first  second = second
    Nobody = Nobody
    Pollers <- FlightPollers
    Tasks <- FlightTasks
    Entries = {1, 2}
    ProtocolOf <- FlightProtocolOf
    OutputsOf <- FlightOutputsOf
    CacheTTL = 1
    CacheSize = 1
    ArtifactTTL = 3
    Patience = 1
    MaxTime = 2
    MaxLate = 1
    MaxPolls = 6
INVARIANTS EntriesAreUsed RememberedIsStored OneFlight FlightCopiesAreNeeded
PROPERTIES PollsEnd
CHECK_DEADLOCK FALSE
