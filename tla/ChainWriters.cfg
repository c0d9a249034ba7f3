SPECIFICATION Spec
CONSTANTS
    Writers = {w1, w2}
    Quota = 2
INVARIANTS
    LoopChainVerifies
    EditsLocated
    NoEntryLost
CHECK_DEADLOCK FALSE
