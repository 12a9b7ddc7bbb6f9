SPECIFICATION Spec
CONSTANTS
    FastPoll = 2
    Backoff = 3
    Cadence = 5
    TickMax = 2
    MaxSkew = 2
    MaxLate <- TwoFailures
INVARIANTS
    NudgeNeverStopsLoop
