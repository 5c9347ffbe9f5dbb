SPECIFICATION Spec
CONSTANTS
    Size = 7
    MarkLen = 1
    PkgLens <- MCPkgLens
    BareDelete = TRUE
    MaxMsg = 4
    MaxCrash = 1
PROPERTY LossyFifoSpec
CHECK_DEADLOCK FALSE
