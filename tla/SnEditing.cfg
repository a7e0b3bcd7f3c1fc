SPECIFICATION Spec
CONSTANTS
    alice = alice
    bob = bob
    t1 = t1
    t2 = t2
    NULL = NULL
    Users = {alice, bob}
    Creator = alice
    LOCK_TTL = 2
    Lag = 1
    MaxClock = 2
    Tabs = {t1, t2}
    TabUser <- MCTabUser
    Docs <- MCDocs
    Unconditional = FALSE
    MaxStored = 3
INVARIANTS StepFollowsState AuditTellsStatus
PROPERTIES StaleTabIsFenced NeverClobbersUnseenWork LifecycleIsFenced LeaseRefinement
