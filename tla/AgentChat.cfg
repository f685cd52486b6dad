CONSTANTS
    l1 = l1
    l2 = l2
    Call <- TwoCalls
    Loop <- TwoLoops
    MaxLength = 4
    Messages = 2
    Refreshes = 2
    Restarts = 1
    ContinueAfterToolRejection = FALSE
    Races = {}
SPECIFICATION FairSpec
INVARIANTS
    TypeOK
    NoStrayToolMessage
    NeverStuck
    NoForgottenTurn
PROPERTIES
    DecidedForGood
    StopUnwinds
CHECK_DEADLOCK FALSE
