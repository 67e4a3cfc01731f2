CONSTANTS
    m1 = m1
    m2 = m2
    b1 = b1
    Manifest = {m1, m2}
    Blob = {}
    Holds <- Bare
    Session = {s1, s2}
    Turn = {t1}
    Proc = {p1, p2}
    Nobody = Nobody
    MaxUndo = 2
    MaxLog = 4
    MaxOps = 2
SPECIFICATION SpecHandedOnce
SYMMETRY SymmetricBare
INVARIANTS
    UndoHasLog
PROPERTIES
    UndoIsKept
    HistoryIsKept
CHECK_DEADLOCK FALSE
