SPECIFICATION MCSpec
CONSTANTS
    a1 = a1
    c1 = c1
    NULL = NULL
    Answers = {a1, a2}
    Clients = {c1, c2}
    Attempts = 2
    MaxTakes = 2
    MaxStarts = 2
INVARIANTS DraftsAreOfTheirTakes
PROPERTIES QueuedWorkFinishes
CHECK_DEADLOCK FALSE
