SPECIFICATION FairSpec
CONSTANTS
    Tasks = {t1}
    Batch = 2
    MaxMessages = 4
    CreatedAt <- TwoByTwo
PROPERTIES SyncTerminates BackfillAdvances
