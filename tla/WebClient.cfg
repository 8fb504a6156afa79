SPECIFICATION MCSpec
CONSTANTS
    c1 = c1
    c2 = c2
    k1 = k1
    None = None
    Nothing = Nothing
    Requests = {c1, c2}
    Kinds = {"read", "serviceRead", "serviceWrite"}
    MaxLogouts = 1
    MaxMints = 2
    MaxAttempts = 2
    Readers = {c1, c2}
    Keys = {k1}
    NestedKeys = {k1}
    FreshTtl = 1
    StaleTtl = 2
    MaxSessions = 2
    MaxVersion = 2
    MaxTime = 3
    MaxFlights = 2
    RepoCalls = {c1, c2}
    LastLogin = 2
    LastLogout = 1
    LastRotation = 1
    Jobs = {1, 2}
    Nil = Nil
SYMMETRY Alike
INVARIANT RefreshIsFenced
INVARIANT RepeatsStayInTheirSession
INVARIANT CacheServesItsOwner
INVARIANT LogoutFencesMobile
PROPERTY NoLateToken
CHECK_DEADLOCK FALSE
