SPECIFICATION FairSpec
CONSTANTS
    r1 = r1
    r2 = r2
    a = a
    b = b
    None = None
    Request = {r1, r2}
    Char = {a, b}
    Prefix <- TwoRequests
    MaxText = 2
    Before <- Texts
    StandsFor <- Wild
    AnyRun = b
    Newline = b
    Indent = a
    Capacity = 1
INVARIANTS
    AllTypesOK
    AnswerContinues
    NothingMissed
    OnlyCurrentRuns
    NoLostWakeup
    CacheGivesAgain
PROPERTIES
    SharesStreams
    AllSettle
CHECK_DEADLOCK FALSE
