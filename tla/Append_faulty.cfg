CONSTANTS
    Writers = {w1, w2}
    Quota = 2
    MaxFaults = 2
    Wide = {w1}
    None = None
SPECIFICATION FairSpec
INVARIANTS
    TypeOK
    RecordsDoNotMix
    FaultCostsTwo
    ReadLastFindsRecent
PROPERTIES
    AppendEnds
    ImplementsAppendLog
CHECK_DEADLOCK FALSE
