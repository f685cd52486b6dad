CONSTANTS
    l1 = l1
    l2 = l2
    Call <- TwoCalls
    Loop <- TwoLoops
    MaxLength = 4
    Messages = 2
    Refreshes = 2
    Restarts = 1
    ContinueAfterToolRejection = FALSE
    Races = {"shortcut"}
SPECIFICATION Spec
PROPERTIES
    DecidedForGood
CHECK_DEADLOCK FALSE
