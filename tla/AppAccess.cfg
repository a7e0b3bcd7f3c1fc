SPECIFICATION Spec
CONSTANTS
    NULL = NULL
    RequestIds = {i1, i2}
    GrantIds = {g1, g2}
    default_role = default
    Roles = {default}
    Procs = {p1, p2}
    Calls = {c1, c2}
    TTL = 2
    MaxDelay = 1
SYMMETRY MCSymmetry
INVARIANTS ApprovedIsGranted OneGrantEach CacheIsRecent
CHECK_DEADLOCK FALSE
