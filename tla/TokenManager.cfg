SPECIFICATION FairSpec
CONSTANTS
    Calls = {c1, c2, c3}
    MaxLogins = 2
    None = None
INVARIANTS TimerHasTokens OneRefreshAtATime WaitsForARequest
PROPERTIES CallersReturn
