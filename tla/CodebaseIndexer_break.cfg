SPECIFICATION Spec
CONSTANTS
    w1 = w1
    w2 = w2
    r1 = r1
    r2 = r2
    r3 = r3
    f1 = f1
    NoCall = NoCall
    Tardy = {}
    Window = {w1, w2}
    Full = {r1, r2, r3}
    Files = {f1}
    Home <- HomeOfFour
    Units = 2
    BeatEvery = 1
    Pausable = {}
    Closable = {w2}
    Failing = {}
    StaleAge = 1
INVARIANTS
    BreaksOnlyDead
CHECK_DEADLOCK FALSE
