CONSTANTS
    Path = {p1}
    Content = {c1, c2}
    Mode = {m1, m2}
    NoMode = NoMode
    NoEntry = NoEntry
    Missing = Missing
    Opaque = Opaque
    Session = {s1}
    Turn = {t1}
    Proc = {r1}
    NoSession = NoSession
    Unstorable <- AnyUnstorable
    MaxUndo = 1
    MaxLog = 3
    MaxEdits = 2
    MaxImages = 0
SPECIFICATION Spec
SYMMETRY Symmetric
INVARIANTS
    RestoreReachesTarget
    
CHECK_DEADLOCK FALSE
