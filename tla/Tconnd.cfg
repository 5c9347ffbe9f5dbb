SPECIFICATION Spec
CONSTANTS
    c1 = c1
    c2 = c2
    c3 = c3
    Client = {c1, c2, c3}
    Nobody = Nobody
    VIP <- NoVIP
    Cap = 4
    PlayerCap = 2
    MaxConn = 4
    Permit = 2
    Speed = 2
    BufPkgs = 1
    IdleClose = FALSE
    ChanCap = 1
    Chat <- Silent
    MaxReserve = 1
    MaxKick = 0
INVARIANTS TypeOK CountsMatch QueueLinked AdmissionBound FramesComeHome
PROPERTIES AdmittedInOrder
CHECK_DEADLOCK FALSE
SYMMETRY Symmetry
