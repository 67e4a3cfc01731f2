CONSTANTS
    m1 = m1
    m2 = m2
    b1 = b1
    Manifest = {m1, m2}
    Blob = {b1}
    Holds <- OneBlob
    Session = {s1, s2}
    Turn = {t1}
    Proc = {p1, p2}
    Nobody = Nobody
    MaxUndo = 1
    MaxLog = 2
    MaxOps = 3
SPECIFICATION Spec
SYMMETRY Symmetric
INVARIANTS
    TypeOK
    TurnsResolve
    LogsResolve
    ContentIsKept
    OnePassReclaims
CHECK_DEADLOCK FALSE
