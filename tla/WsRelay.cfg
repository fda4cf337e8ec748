CONSTANTS
    r1 = r1 r2 = r2 NoRequest = NoRequest
    Request = {r1, r2}
    Stream <- OneStream
    Capacity = 1
    Chunks <- TwoAndOne
SPECIFICATION Spec
INVARIANTS TypeOK OnlyAFullChannelLoses PanicNeedsARace SomeoneWillClose
CHECK_DEADLOCK FALSE
