SPECIFICATION MCSpec
CONSTANTS
    Subs = {s1, s2}
    Generations = {g1, g2}
    NoGeneration = NoGeneration
    Codes = {k1}
    NoCode = NoCode
    Requests = {r1, r2}
    PairTtl = 1
    Grace = 1
    UsedTtl = 2
    MaxTime = 3
SYMMETRY MCSymmetry
INVARIANTS
    CodeIsTakenOnce
    PairsWithTheIssuingSession
    OwnerLearnsOfPairing
