SPECIFICATION MCPollSpec
CONSTANTS
    Users = {u1}
    Tasks = {t1, t2}
    Slots = {s1, s2}
    NoSlot = NoSlot
    Null = Null
    ChunkSize = 2
    Budget = 1
    LockTtl = 1
    MaxTime = 1
    MaxCycles = 3
SYMMETRY MCSymmetry
CHECK_DEADLOCK FALSE
PROPERTIES
    RepeatsOnlyAfterFailure
    NothingIsSkipped
