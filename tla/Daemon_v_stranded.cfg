SPECIFICATION FairSpec
CONSTANTS
    a1 = a1
    a2 = a2
    Agents <- Pair
    Inbound <- Peer
    Odd <- NoOdd
    Quota <- OnlyOne
    MaxCrashes = 0
    MaxFaults = 1
    SplitWrites = FALSE
    ShareWrites = FALSE
PROPERTIES
    QueuedCommitIsPushed
