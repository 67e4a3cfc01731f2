SPECIFICATION Spec
CONSTANTS
    Proc = {p1, p2}
    Turn = {t1, t2, t3}
    Path = {f, g}
    Window = {1}
    Unlimited = Unlimited
    NoTurn = NoTurn
    Locking = {TRUE}
    MaxOps = 3
INVARIANTS
    TypeOK
    DeclarationsAreKept
PROPERTIES
    HistoryOnlyGrows
    WatchedForTheWindow
    OrphansAreCollected
CHECK_DEADLOCK FALSE
