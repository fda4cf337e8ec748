CONSTANTS
    c1 = c1 c2 = c2 m1 = m1 m2 = m2 p1 = p1 p2 = p2
    Client = {c1, c2}
    Model = {m1}
    Provider = {p1}
    Handler = {h1}
    Request = {r1}
    Offers <- ServedOrNot
    Reasons = {"quota", "unauthorized"}
    Window = 1
    MaxLag = 0
SPECIFICATION Spec
INVARIANT AllAvailableModelsListed
CHECK_DEADLOCK FALSE
