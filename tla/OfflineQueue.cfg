SPECIFICATION FairSpec
CONSTANTS
    Msgs = {m1}
    Tasks = {t1, t2}
    Other = Other
    Window = 1
    MaxTries = 2
    MaxRetries = 1
    MaxLog = 2
    MaxReloads = 1
INVARIANTS OnceOnServer SentIsStored RestIsSettled
PROPERTIES GetsOutcome PromiseImplemented
