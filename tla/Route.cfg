SPECIFICATION Spec
CONSTANTS
    a = a
    b = b
    c = c
    Node = {a, b, c}
    Handle <- Line
    Default = Default
    All = All
    Nobody = Nobody
    MaxRoute = 2
    SendTo <- Start
    RelayTo <- FromAll
    SendFlags = {"none"}
    RelayFlags = {"keep"}
    RecvFlags <- DyeAtB
    ShortBuffers = {c}
    Savers = {b}
    SetRoutes <- OnlyC
    MaxQueue = 1
INVARIANTS ComesHome Answerable 
CHECK_DEADLOCK FALSE
