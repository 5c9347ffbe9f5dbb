SPECIFICATION Spec
CONSTANTS
    p = p
    q = q
    ab = ab
    bc = bc
    Proc = {p, q}
    Chan = {ab, bc}
    Ends <- EndsOf
    Seg = {s1, s2, s3}
    NoSeg = NoSeg
    Align = {8, 64}
    RawAlign = {12}
    Gap = 1
    Configs <- Lists
    ByIndex = TRUE
INVARIANTS TypeOK SegmentsLive
PROPERTY GraceKept
SYMMETRY Interchange
CHECK_DEADLOCK FALSE
