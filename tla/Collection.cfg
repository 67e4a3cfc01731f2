SPECIFICATION SpecOnceCaptured
CONSTANTS
    s1 = s1
    s2 = s2
    s3 = s3
    m1 = m1
    m2 = m2
    m3 = m3
    b1 = b1
    Session = {s1, s2, s3}
    Workspace = {"here", "there"}
    Home <- MCHome
    Manifest = {m1, m2, m3}
    Blob = {b1}
    Holds <- MCHolds
    Finds <- MCFinds
    Heirs <- MCHeirs
    Shared = "blobs"
    None = None
    Fragile <- MCFragile
    MaxOps = 2
    MaxFaults = 1
INVARIANTS
    TypeOK
    WhatLogsNameIsThere
    WhatUndosNeedIsThere
    WritersKeepTheirFiles
PROPERTIES
    RecordsAreReclaimed
    ResidueIsReclaimed
    ContentIsReclaimed
