SPECIFICATION FairSpec
CONSTANTS
    c1 = c1
    c2 = c2
    c3 = c3
    Client = {c1, c2}
    Nobody = Nobody
    VIP <- OneVIP
    Cap = 3
    PlayerCap = 2
    MaxConn = 3
    Permit = 2
    Speed = 1
    BufPkgs = 2
    IdleClose = TRUE
    ChanCap = 2
    Chat <- OneTalks2
    MaxReserve = 0
    MaxKick = 1
CHECK_DEADLOCK FALSE
PROPERTIES SlotFreed SessionEnded
