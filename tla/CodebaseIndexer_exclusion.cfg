SPECIFICATION Spec
CONSTANTS
    w1 = w1
    w2 = w2
    r1 = r1
    r2 = r2
    r3 = r3
    f1 = f1
    NoCall = NoCall
    Tardy = {}
    Window = {w1, w2}
    Full = {r1, r2}
    Files = {}
    Home <- HomeOfTwo
    Units = 2
    BeatEvery = 1
    Pausable = {}
    Closable = {}
    Failing = {}
    StaleAge = 2
INVARIANTS
    MutualExclusion
CHECK_DEADLOCK FALSE
