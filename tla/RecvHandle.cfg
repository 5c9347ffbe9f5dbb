SPECIFICATION Spec
CONSTANTS
    Chan <- MCTwoLocal
    Requests <- MCMixed
    CtrlPeers <- MCOnePeer
    Configs <- MCConfigs
    MaxQueue = 1
    AnyAddr = AnyAddr
    a1 = a1
    a2 = a2
    p1 = p1
    p2 = p2
    p3 = p3
    MaxRecv = 2
INVARIANTS BypassBound NoDuplicate InSync
CHECK_DEADLOCK FALSE
