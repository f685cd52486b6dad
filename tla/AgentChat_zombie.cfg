CONSTANTS
    l1 = l1
    l2 = l2
    Call <- OneCall
    Loop <- TwoLoops
    MaxLength = 3
    Messages = 1
    Refreshes = 2
    Restarts = 1
    ContinueAfterToolRejection = TRUE
    Races = {"resubmit"}
SPECIFICATION Spec
INVARIANTS
    HaltedNeverWrites
CHECK_DEADLOCK FALSE
