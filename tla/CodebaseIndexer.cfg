SPECIFICATION Spec
CONSTANTS
    w1 = w1
    w2 = w2
    r1 = r1
    r2 = r2
    r3 = r3
    f1 = f1
    NoCall = NoCall
    Tardy = {w2}
    Window = {w1, w2}
    Full = {r1, r2, r3}
    Files = {f1}
    Home <- HomeOfFour
    Units = 2
    BeatEvery = 1
    StaleAge = 1
    Pausable = {w1}
    Closable = {w2}
    Failing = {f1, r3}
SYMMETRY Symmetry
INVARIANTS
    TypeOK
    OnlyOwnerUnaborted
    NoOrphanRow
    StaleMeansSilent
    StopsWithinOneUnit
    NotWedged
CHECK_DEADLOCK FALSE
