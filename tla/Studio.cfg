SPECIFICATION Spec
CONSTANTS
    NULL = NULL
    l1 = l1 w1 = w1 s1 = s1 t1 = t1 t2 = t2 t3 = t3
    Languages = {l1, l2}
    Words = {w1, w2}
    Speakers = {s1, s2}
    Pairs = {p1, p2}
    Takes = {t1, t2, t3}
    Exports = {x1}
    Results = {r1, r2}
    Users = {u1, u2}
    Admins = {u1}
    Glosses = {1}
    Groups = {"", "g"}
    Formats = {"wav", "webm"}
    Reps = {1, 2}
    Plots = {"heatmap", "layers"}
    Attempts = 2
    MaxSorts = 1
    Callers = {c1, c2}
    MinInstances = 2
    SamePerSide = 2
    DiffPerPair = 2
    RepsPerSide = 5
    Files <- MCFiles
    PairLists <- MCPairLists
INVARIANTS TakesAreToldApart ExportsAreWhole
PROPERTIES HeardTakesStay EveryExportEnds
CHECK_DEADLOCK FALSE
