SPECIFICATION FairSpec
CONSTANTS
    Message = {m1}
    Request = {q1}
    Worker = {w1, w2}
    MaxRows = 3
    MaxVersion = 2
    Limit = 2
    MaxFaults = 1
INVARIANTS TypeOK IndexCovered HeldOnce
PROPERTIES CompletedStays IndexConverges
CHECK_DEADLOCK FALSE
