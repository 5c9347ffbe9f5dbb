SPECIFICATION RetrySpec
CONSTANTS
    Size = 6
    MarkLen = 1
    PkgLens <- MCBigLens
    BareDelete = FALSE
    MaxMsg = 5
    MaxCrash = 1
INVARIANTS TypeOK RingInv SeenInv NoOverwrite SeqLag
PROPERTIES FifoSpec AllReceived FullClears
CHECK_DEADLOCK FALSE
