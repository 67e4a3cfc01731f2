SPECIFICATION Spec
CONSTANTS
    Session = {s1}
    small = small
    other = other
    large = large
    Content = {small, other, large}
    SizeOf <- MCSizeOf
    Nothing = Nothing
    Lag = 2
    Window = 3
    LastWrite = 7
    MaxTime = 11
INVARIANTS
    TypeOK
    FingerprintIsProof
PROPERTIES
    ImplementsObservation
    DoubtEnds
CHECK_DEADLOCK FALSE
