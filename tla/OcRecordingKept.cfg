SPECIFICATION Spec
CONSTANTS
    g1 = g1
    g2 = g2
    s1 = s1
    s2 = s2
    NULL = NULL
    Genres = {g1}
    FirstGenre = g1
    Slots = {s1, s2}
    Attempts = 2
    Budgets <- OneUpload
INVARIANTS SafeMeansKept
CHECK_DEADLOCK FALSE
