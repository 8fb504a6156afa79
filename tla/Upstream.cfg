SPECIFICATION MCSpec
CONSTANTS
    c1 = c1
    c2 = c2
    k1 = k1
    k2 = k2
    t1 = t1
    t2 = t2
    Calls = {c1, c2}
    MaxMints = 2
    MaxSessions = 2
    Callers = {c1, c2}
    CourseIds = {k1, k2}
    Methods = {"list", "all"}
    MaxLogins = 2
    MaxRenewals = 1
    MaxCalls = 1
    MaxAges = 1
    Clients = {c1, c2}
    Targets = {t1, t2}
    Cap = 1
SYMMETRY Alike
INVARIANT RetrySendsFreshToken
INVARIANT AnswersOwnData
INVARIANT SesskeyFitsCookie
 
INVARIANT WebCapHolds
CHECK_DEADLOCK FALSE
