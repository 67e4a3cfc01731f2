CONSTANTS
    Path = {p1}
    Content = {c1}
    Mode = {m1}
    NoMode = NoMode
    NoEntry = NoEntry
    Missing = Missing
    Opaque = Opaque
    Session = {s1}
    Turn = {t1}
    Proc = {r1, r2}
    NoSession = NoSession
    Unstorable = {}
    MaxUndo = 2
    MaxLog = 4
    MaxEdits = 1
    MaxImages = 0
SPECIFICATION Spec
SYMMETRY Symmetric
PROPERTY UndoSpendsWhatItReverses
CHECK_DEADLOCK FALSE
