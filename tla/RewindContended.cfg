CONSTANTS
    Path = {p1}
    Content = {c1}
    Mode = {m1}
    NoMode = NoMode
    NoEntry = NoEntry
    Missing = Missing
    Opaque = Opaque
    Session = {s1}
    Turn = {t1}
    Proc = {r1, r2}
    NoSession = NoSession
    Unstorable = {}
    MaxUndo = 1
    MaxLog = 3
    MaxEdits = 1
    MaxImages = 1
SPECIFICATION Spec
SYMMETRY Symmetric
INVARIANTS
    TypeOK
    RecordsAreTrue
PROPERTY RemovesOnlyWhatWasAbsent
CHECK_DEADLOCK FALSE
