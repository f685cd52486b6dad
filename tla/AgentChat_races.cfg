CONSTANTS
    l1 = l1
    l2 = l2
    Call <- OneCall
    Loop <- TwoLoops
    MaxLength = 3
    Messages = 2
    Refreshes = 2
    Restarts = 1
    ContinueAfterToolRejection = TRUE
    Races = {"resubmit", "shortcut"}
SPECIFICATION Spec
SYMMETRY LoopSymmetry
PROPERTIES
    OnlyPermittedRun
CHECK_DEADLOCK FALSE
