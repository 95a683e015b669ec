SPECIFICATION Spec
CONSTANTS
    Calls = {c1, c2}
    MaxSessions = 2
    MaxBundles = 2
    MaxTime = 2
SYMMETRY CallSymmetry
INVARIANTS OneCurrentToken SessionKeepsToken RevokedStaysOut
PROPERTIES RotationImplemented
