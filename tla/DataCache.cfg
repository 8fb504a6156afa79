SPECIFICATION MCFairSpec
CONSTANTS
    Readers = {r1, r2}
    FreshTtl = 1
    StaleTtl = 1
    Backoff = 1
    MaxTime = 2
    MaxFlights = 3
INVARIANTS
    ReadsNeverGoBack
    DeadSessionIsForgotten
PROPERTIES
    BackoffIsKept
    WaitersAreWoken
