SPECIFICATION Spec
CONSTANTS
    main = main
    dev = dev
    p = p
    q = q
    w = w
    x = x
    y = y
    z = z
    NoText = NoText
    Tag = {main, dev}
    Path = {p, q}
    Text <- OwnTexts
    Piece = {1}
    Worker = {1}
    BatchSize = 2
    Breaks = {"abort"}
    EndOfTime = 5
INVARIANTS
    TypeOK
    StoredWhenListed
    CacheAgrees
PROPERTIES
    OtherBranchesKept
CHECK_DEADLOCK FALSE
