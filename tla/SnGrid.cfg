SPECIFICATION FairGridSpec
CONSTANTS
    b1 = b1
    b2 = b2
    b3 = b3
    NULL = NULL
    Calls = {c1, c2, c3}
    Levels = {coarse, fine}
    Beads = {b1, b2, b3}
    Close <- MCClose
INVARIANTS OneGrid AnswersStand
PROPERTIES GridRefinement EveryCallAnswered
CHECK_DEADLOCK FALSE
