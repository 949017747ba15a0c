\* Two lanes over a document that comes twice, two launches.
SPECIFICATION FairSpec
CONSTANTS
    a = a
    NoDoc = NoDoc
    Doc = {a}
    Input <- MCInput
    Lane = {1, 2}
    MaxAttempts = 2
    MaxTotal = 3
    Threshold = 2
    Budget = 2
    MaxRuns = 2
INVARIANTS
    ChargesAreEarned
    CapHolds
    NothingLost
    BreakerSurvives
PROPERTIES
    ImplementsTable
    EveryRunEnds
CHECK_DEADLOCK FALSE
