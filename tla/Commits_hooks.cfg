CONSTANTS
    Keys = {new}
    None = None
    Me = me
    Hooks = {"verify", "schema"}
    Shapes <- MixedShapes
    Quota = 2
    MaxFaults = 2
SPECIFICATION FairSpec
INVARIANTS
    TypeOK
    CommittedIsVerified
    OnlyTornLinesSlip
PROPERTIES
    HistoryOnlyGrows
    CommitsCatchUp
CHECK_DEADLOCK FALSE
