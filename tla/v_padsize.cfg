CONSTANTS
    N = 30
    FvHdr = 2
    BlockLen = 4
    MaxSmall = 31
    a = a
    b = b
    c = c
    x = x
    y = y
    z = z
    Pad = Pad
    Nil = Nil
    Names = {a, b, c}
    Data = {x, y, z}
    FvbOverwrites = FALSE
    Images <- PadImages
    Requests <- PadRequests
    Calls <- PadCalls
    Aligns <- MCAligns
    Budgets <- OneCall
SPECIFICATION Spec
INVARIANTS OldOrNew
CHECK_DEADLOCK FALSE
