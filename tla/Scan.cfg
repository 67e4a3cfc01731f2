SPECIFICATION Spec
CONSTANTS
    top = top
    deep = deep
    both = both
    vendored = vendored
    Path = {top, deep, both, vendored}
    Roots <- MCRoots
    Within <- MCWithin
    Walked <- MCWalked
    Stamps = {1, 2}
    MaxFiles = 1
    NoPath = NoPath
    Declared = {vendored}
    Excluded = {both}
    Trees <- MCTrees
    Listed = {both, vendored}
    MaxEdits = 1
INVARIANTS
    TypeOK
    NothingVanishes
    MissingIsAskedAbout
    ReportIsComplete
    IgnoredStaysOut
CHECK_DEADLOCK FALSE
