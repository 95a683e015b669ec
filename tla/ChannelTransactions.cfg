SPECIFICATION Spec
CONSTANTS
    User = {u1, u2}
    Tx = {t1, t2}
    MaxSeq = 2
    MaxNamed = 2
    Quiet = 1
    Absent = Absent
    InThread = InThread
    Free = Free
SYMMETRY Interchangeable
INVARIANTS SeqIsDense BadgeIsRight CountIsMembers DeadlocksAreKnown
PROPERTIES ChannelImplemented
