SPECIFICATION Spec
CONSTANTS
    Tasks = {t1, t2}
    Batch = 1
    MaxMessages = 3
    CreatedAt <- Crossed
SYMMETRY TaskSymmetry
INVARIANTS SyncingIsOneCall HighWaterIsHonest SyncIsComplete
