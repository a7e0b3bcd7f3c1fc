SPECIFICATION Spec
CONSTANTS
    NULL = NULL
    Users = {root, ana}
    Registered = {root}
    Admins = {root}
    Owners = {root}
    Tokens = {t1}
    Links = {k1, k2}
    Requests = {r1, r2}
    MaxRequests = 3
    Interviews = {i1}
    Domains = {d1, d2}
    Callers = {c1, c2}
    MinTeamTurns = 2
    MaxTeamTurns = 3
    MaxCalls = 5
    ChatIds = {h1}
    Senders = {s1, s2}
    MaxTalk = 4
    Edited = {"coverage_planner", "oral"}
    Editors = {e1, e2}
    Replicas = {p1, p2}
    MaxEdits = 2
    MaxStops = 1
    Texts = {t1, t2, t3}
    Listeners = {k1, k2}
    Lines <- MCLines
    MaxEntries = 2
    MaxSpoken = 5
INVARIANTS ResetsAreSound InterviewsAreReported ChatsAreInOrder PromptsAreWhole SpeechIsServed
PROPERTIES ReplicasComeUp DeactivationTakesHold
CHECK_DEADLOCK FALSE
