SPECIFICATION Spec
CONSTANTS
    main = main
    dev = dev
    p = p
    q = q
    w = w
    x = x
    y = y
    z = z
    NoText = NoText
    Tag = {main}
    Path = {p, q}
    Text <- BothChange
    Piece = {1}
    Worker = {1}
    BatchSize = 1
    Breaks = {"abort"}
    EndOfTime = 9
INVARIANTS
    StoredWhenListed
CONSTRAINTS
    FullRefreshes
CHECK_DEADLOCK FALSE
