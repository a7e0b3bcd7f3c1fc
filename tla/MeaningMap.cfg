SPECIFICATION Spec
CONSTANTS
    p1 = p1
    p2 = p2
    NULL = NULL
    Maps = {m1, m2}
    Pericopes = {p1, p2}
    Chapters <- MCChapters
    Users = {ana, bea}
    Analysts = {ana, bea}
    PlatformAdmins = {bea}
    Languages = {pt}
    FeedbackIds = {f1}
    Requests = {r1, r2}
    MaxRequests = 4
INVARIANTS MapsAreConsistent
PROPERTIES ApprovalStands AnalystIsTold
CHECK_DEADLOCK FALSE
