SPECIFICATION ChatFairSpec
CONSTANTS
    Calls = {f1, f2}
    MaxSessions = 1
    MaxBundles = 5
    MaxTime = 1
INVARIANTS ChatTypeOK LatestIsCurrent DeniedForCause
PROPERTIES FetchEnds
