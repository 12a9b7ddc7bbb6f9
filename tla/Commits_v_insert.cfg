CONSTANTS
    Keys = {new}
    None = None
    Me = me
    Hooks = {"schema"}
    Shapes <- ValidShapes
    Quota = 2
    MaxFaults = 1
SPECIFICATION Spec
PROPERTY
    OnlyAdditionsAtEnd
CHECK_DEADLOCK FALSE
