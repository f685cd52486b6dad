SPECIFICATION Spec
CONSTANTS
    main = main
    dev = dev
    p = p
    q = q
    w = w
    x = x
    y = y
    z = z
    NoText = NoText
    Tag = {main}
    Path = {p, q}
    Text <- TwoVersions
    Piece = {1}
    Worker = {1, 2}
    BatchSize = 1
    Breaks = {"abort", "crash", "error", "edit"}
    EndOfTime = 5
INVARIANTS
    NoFalseProgress
CHECK_DEADLOCK FALSE
