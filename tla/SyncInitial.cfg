SPECIFICATION Spec
CONSTANTS
    Tasks = {t1}
    Batch = 2
    MaxMessages = 4
    CreatedAt <- InTurn
INVARIANTS BackfillIsComplete
