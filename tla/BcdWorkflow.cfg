SPECIFICATION Spec
CONSTANTS
    admin = admin
    exegete = exegete
    scholar = scholar
    NULL = NULL
    Docs = {d1, d2}
    FirstDoc = d1
    Users = {admin, exegete, scholar}
    RolesOf <- MCRolesOf
    PlatformAdmins = {admin}
    Requests = {r1, r2}
    Runs = {n1, n2}
    MaxRequests = 4
INVARIANTS ApprovedIsEarned VersionsAreSound
PROPERTIES ApprovedTextStands GenerationSettles
CHECK_DEADLOCK FALSE
