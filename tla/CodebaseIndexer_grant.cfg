SPECIFICATION FairSpec
CONSTANTS
    w1 = w1
    w2 = w2
    r1 = r1
    r2 = r2
    r3 = r3
    f1 = f1
    NoCall = NoCall
    Tardy = {w1, w2}
    Window = {w1, w2}
    Full = {r1, r2}
    Files = {}
    Home <- HomeOfTwo
    Units = 2
    BeatEvery = 1
    StaleAge = 1
    Pausable = {w1}
    Closable = {w1, w2}
    Failing = {r1, r2}
PROPERTIES
    LockIsGranted
CHECK_DEADLOCK FALSE
