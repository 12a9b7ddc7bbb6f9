SPECIFICATION FairSpec
CONSTANTS
    a1 = a1
    a2 = a2
    Agents <- Pair
    Inbound <- Peer
    Odd <- SecondOdd
    Quota <- OneTwo
    MaxCrashes = 1
    MaxFaults = 1
    SplitWrites = FALSE
    ShareWrites = FALSE
INVARIANTS
    NoMessageSkipped
    NoRepeatWithoutCause
    EveryChangeIsCounted
PROPERTIES
    WrittenIsCommitted
    CommittedIsPushed
    ImplementsDeadDrop
