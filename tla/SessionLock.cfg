SPECIFICATION Spec
CONSTANTS
    Proc = {p1, p2, p3}
    Nobody = Nobody
    Inode = {i1, i2, i3}
    NoFile = NoFile
    Budget = 2
INVARIANTS
    TypeOK
    Exclusive
    NeverSilentlyUnlocked
PROPERTIES
    ImplementsMutex
