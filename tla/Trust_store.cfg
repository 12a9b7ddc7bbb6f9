CONSTANTS
    Agents = {a}
    Keys = {k}
    Procs = {p, q}
    Threshold = 2
    MaxRecips = 2
SYMMETRY Symmetry
SPECIFICATION Spec
INVARIANTS
    TypeOK
    AcceptanceIsEarned
PROPERTY
    FreshSaveKeepsUpdates
CHECK_DEADLOCK FALSE
