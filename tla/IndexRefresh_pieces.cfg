SPECIFICATION Spec
CONSTANTS
    main = main
    dev = dev
    p = p
    q = q
    w = w
    x = x
    y = y
    z = z
    NoText = NoText
    Tag = {main}
    Path = {p}
    Text <- OnePath
    Piece = {1, 2}
    Worker = {1}
    BatchSize = 2
    Breaks = {}
    EndOfTime = 6
INVARIANTS
    NothingLeftOver
CHECK_DEADLOCK FALSE
