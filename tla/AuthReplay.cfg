SPECIFICATION Spec
CONSTANTS
    Calls = {c1, c2}
    MaxSessions = 1
    MaxBundles = 2
    MaxTime = 1
INVARIANTS ReplayEndsSession
