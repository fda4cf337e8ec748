CONSTANTS
    c1 = c1 c2 = c2 m1 = m1 m2 = m2 p1 = p1 p2 = p2
    Client = {c1, c2}
    Model = {m1, m2}
    Provider = {p1, p2}
    Handler = {h1}
    Request = {r1}
    Offers <- Lists
    Reasons = {"quota", "unauthorized"}
    Window = 1
    MaxLag = 1
SPECIFICATION Spec
SYMMETRY Alike
INVARIANTS TypeOK CountsAgree CacheIsCurrent ServedIsListed
CHECK_DEADLOCK FALSE
