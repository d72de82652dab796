CONSTANTS
    N = 24
    FvHdr = 2
    BlockLen = 4
    MaxSmall = 31
    a = a
    b = b
    c = c
    x = x
    y = y
    z = z
    Pad = Pad
    Nil = Nil
    Names = {a, b, c}
    Data = {x, y, z}
    FvbOverwrites = FALSE
    Images <- SingleImages
    Requests <- SingleRequests
    Calls <- SingleCalls
    Aligns <- MCAligns
    Budgets <- FailOrCrash
SPECIFICATION Spec
INVARIANTS OldOrNew CorruptOnlyIfTorn ValidMeansWritten CacheMatchesFlash CurrentFileListed
CHECK_DEADLOCK FALSE
