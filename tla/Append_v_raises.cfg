CONSTANTS
    Writers = {w1, w2}
    Quota = 2
    MaxFaults = 1
    Wide = {w1}
    None = None
SPECIFICATION Spec
INVARIANT
    MalformedIsSkipped
CHECK_DEADLOCK FALSE
