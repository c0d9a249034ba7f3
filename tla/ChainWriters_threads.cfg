SPECIFICATION Spec
CONSTANTS
    Writers = {w1, w2}
    Quota = 2
INVARIANT ThreadsLeaveValidChain
CHECK_DEADLOCK FALSE
