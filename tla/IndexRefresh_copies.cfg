SPECIFICATION Spec
CONSTANTS
    main = main
    dev = dev
    p = p
    q = q
    w = w
    x = x
    y = y
    z = z
    NoText = NoText
    Tag = {main}
    Path = {p, q}
    Text <- SharedTexts
    Piece = {1}
    Worker = {1}
    BatchSize = 2
    Breaks = {}
    EndOfTime = 6
INVARIANTS
    StoredWhenListed
CHECK_DEADLOCK FALSE
