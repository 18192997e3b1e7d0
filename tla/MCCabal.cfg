SPECIFICATION Spec

CONSTANTS
    Kols = {k1, k2, k3}
    Cabals = {c1, c2}
    Tags = {t1, t2}
    Sessions = {s1, s2}
    NoOne = NoOne
    NoCabal = NoCabal
    NoTag = NoTag
    MaxProofs = 3

SYMMETRY MCSymmetry

PROPERTIES
    NobodyIsMoved

CHECK_DEADLOCK FALSE
