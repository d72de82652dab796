CONSTANTS
    N = 30
    FvHdr = 2
    BlockLen = 30
    MaxSmall = 31
    a = a
    b = b
    c = c
    x = x
    y = y
    z = z
    Pad = Pad
    Nil = Nil
    Names = {a, b, c}
    Data = {x, y, z}
    FvbOverwrites = TRUE
    Images <- PadImages
    Requests <- PadRequests
    Calls <- PadCalls
    Aligns <- MCAligns
    Budgets <- OneCall
SPECIFICATION Spec
INVARIANTS VolumeHeaderIntact
CHECK_DEADLOCK FALSE
