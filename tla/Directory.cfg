SPECIFICATION Spec
CONSTANTS
    NULL = NULL
    ana = ana
    ben = ben
    root = root
    o1 = o1
    p1 = p1
    p2 = p2
    x = x
    y = y
    k1 = k1
    i1 = i1
    r1 = r1
    r2 = r2
    t1 = t1
    t2 = t2
    g1 = g1
    g2 = g2
    a1 = a1
    title = title
    Users = {ana, ben, root}
    Admins = {root}
    Orgs = {o1, o2}
    Slugs = {x, y}
    Projects = {p1, p2}
    Languages = {k1, k2}
    Invites = {i1, i2}
    Requests = {q1, q2}
    Phase = {h1, h2, h3}
    PhaseProjects = {p1}
    Statuses = {"not_started", "done"}
    PhaseLists = {l1}
    Recordings = {r1, r2}
    Tellers = {t1, t2}
    Genres = {g1, g2}
    Registers = {a1}
    Titles = {title}
    People = {ana, ben}
    Managers = {ben}
    Updates = {u1, u2}
INVARIANTS PhasesAreListedWhole
PROPERTIES AccessIsAsDecided CatalogueIsTrue
SYMMETRY Symmetry
CHECK_DEADLOCK FALSE
