SPECIFICATION Spec
CONSTANTS
    p = p
    q = q
    ab = ab
    bc = bc
    Proc = {p, q}
    Chan = {ab, bc}
    Ends <- EndsOf
    Seg = {s1, s2, s3}
    NoSeg = NoSeg
    Align = {8}
    RawAlign = {}
    Gap = 2
    Configs <- Lists
    ByIndex = FALSE
INVARIANT SameSegment
SYMMETRY Interchange
CHECK_DEADLOCK FALSE
