SPECIFICATION Spec
CONSTANTS
    a1 = a1
    a2 = a2
    Agents <- Pair
    Inbound <- Peer
    Odd <- NoOdd
    Quota <- OneTwo
    MaxCrashes = 0
    MaxFaults = 0
    SplitWrites = FALSE
    ShareWrites = FALSE
INVARIANTS
    AppendIsDurable
