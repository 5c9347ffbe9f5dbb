SPECIFICATION LibSpec
CONSTANTS
    Cap = 3
    MaxIdx = 5
    Keys = {"a", "b", "c"}
    Code <- MCCode
    Items = 3
    Buckets = 2
    Devices <- MCDevices
    Messages <- MCMessages
    MaxSecond = 2
    MaxMsg = 4
    Daemons = {1, 2, 3}
    Nobody = Nobody
    MaxEdit = 4
    BadEdits = {2}
    MaxCmd = 2
INVARIANTS LibTypeOK ListInv   Bounded Named ReloadTakes
PROPERTIES PoolSpec WalkComplete 
CHECK_DEADLOCK FALSE
