SPECIFICATION Spec
CONSTANTS
    Procs = {p1, p2}
    Pages = {w1, w2}
    Tokens = {n1, n2, n3}
    None = None
    Broken = Broken
SYMMETRY Symmetry
PROPERTY SignsOutOnlyDead
CHECK_DEADLOCK FALSE
