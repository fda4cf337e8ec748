CONSTANTS
    p1 = p1 p2 = p2 m1 = m1 m2 = m2
    Process = {p1, p2}
    Model = {m1, m2}
    Calls = {"modify", "remove", "toggle", "catalog", "refresh", "result", "pick"}
SPECIFICATION Spec
SYMMETRY Alike
INVARIANTS TypeOK SchedulerSettles RegistrationSettles MarksSettle UndisturbedPickFinds
CHECK_DEADLOCK FALSE
