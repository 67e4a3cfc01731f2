CONSTANTS
    Path = {p1}
    Content = {c1}
    Mode = {m1}
    NoMode = NoMode
    NoEntry = NoEntry
    Missing = Missing
    Opaque = Opaque
    Session = {s1, s2}
    Turn = {t1}
    Proc = {r1}
    NoSession = NoSession
    Unstorable <- AnyUnstorable
    MaxUndo = 1
    MaxLog = 2
    MaxEdits = 1
    MaxImages = 0
SPECIFICATION Spec
SYMMETRY Symmetric
INVARIANTS
    RescueCovers
    UndoReturns
CHECK_DEADLOCK FALSE
