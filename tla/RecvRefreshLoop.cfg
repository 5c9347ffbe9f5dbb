SPECIFICATION LoopSpec
CONSTANTS
    Chan <- MCChan
    Requests <- MCAnySource
    CtrlPeers <- MCNoPeer
    Configs <- MCShrunk
    MaxQueue = 1
    AnyAddr = AnyAddr
    a1 = a1
    a2 = a2
    p1 = p1
    p2 = p2
    p3 = p3
    MaxRecv = 2
PROPERTY Served
CHECK_DEADLOCK FALSE
