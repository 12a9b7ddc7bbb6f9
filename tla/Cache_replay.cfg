SPECIFICATION FairSpec

CONSTANTS
    m1 = m1
    m2 = m2
    m3 = m3
    c1 = c1
    c2 = c2
    Messages = {m1, m2, m3}
    Ids = {c1, c2}
    IdOf <- Thread
    TTL = 1
    TornWrites = FALSE
    MaxDays = 3
    MaxFailures = 2

INVARIANTS
    TypeOK
    NoReplayWithinTTL
PROPERTIES
    EveryIdHandled

\* The reader may have nothing left to read.
CHECK_DEADLOCK FALSE
