CONSTANTS
    Path = {p1}
    Content = {c1}
    Mode = {m1}
    NoMode = NoMode
    NoEntry = NoEntry
    Missing = Missing
    Opaque = Opaque
    Session = {s1}
    Turn = {t1}
    Proc = {r1}
    NoSession = NoSession
    Unstorable = {Opaque}
    MaxUndo = 1
    MaxLog = 2
    MaxEdits = 1
    MaxImages = 1
SPECIFICATION Spec
SYMMETRY Symmetric
INVARIANTS
    TombstonesWereAbsent
CHECK_DEADLOCK FALSE
