INIT MCInit
NEXT MCNext
CONSTANTS
    Units = {"BdsOptions"}
    KbdStrokes <- MCKbdStrokes
    AuxPackets <- MCAuxPackets
    Ps2Budgets <- MCPs2Budgets
    KbdScanMax = 4
    KbdKeyMax = 3
    BndDrivers <- MCBndDrivers
    BndBudgets <- MCBndBudgets
    SnpFifoMax = 3
    SnpMCastMax = 1
    SnpRequests <- MCSnpRequests
    SnpBudgets <- MCSnpBudgets
    AcpiTables <- MCAcpiTables
    AcpiRemovals <- MCAcpiRemovals
    AcpiPages <- MCAcpiPages
    AcpiMaxNumTables = 2
    AcpiBudgets <- MCAcpiBudgets
    SerFifoMax = 2
    SerUartMax = 2
    SerTimeout = 1
    SerControls <- MCSerControls
    SerRates <- MCSerRates
    SerBudgets <- MCSerBudgets
    FddDrives <- MCFddDrives
    FddDisks <- MCFddDisks
    FddProtected <- MCFddProtected
    FddCalls <- MCFddCalls
    FddBudgets <- MCFddBudgets
    BbsTypes <- MCBbsTypes
    BdsPlatforms <- MCBdsPlatforms
    BdsFiles <- MCBdsFiles
    BdsNumbers <- MCBdsNumbers
    IdeDevices <- MCIdeDevices
    IdeDisks <- MCIdeDisks
    IdeCalls <- MCIdeCalls
    IdeMaxSectors = 2
    IdeRetries = 2
    IdeBudgets <- MCIdeBudgets
    LbDevices <- MCLbDevices
    LbVga = "vga"
    LbCsm3 = TRUE
    LbMaxRom = 5
    LbMaxEntries = 3
    LbBbsMax = 8
    LbMaps <- MCLbMaps
    LbSmbios <- MCLbSmbios
    LbBudgets <- MCLbBudgets
    BdsBudgets <- MCBdsLosing
    UpdVolumes <- MCUpdVolumes
    UpdCapsules <- MCUpdCapsules
    UpdBudgets <- MCUpdBudgets
    IsaTop = 14
    IsaFeatures <- MCIsaFeatures
    IsaResources <- MCIsaResources
    IsaAccesses <- MCIsaAccesses
    IsaMaps <- MCIsaMaps
    IsaBudgets <- MCIsaBudgets
    SecStreams <- MCSecStreams
    SecExtracts <- MCSecExtracts
    SecSearches <- MCSecSearches
    SecBudgets <- MCSecBudgets
    ConLocals <- MCConLocals
    ConPorts = 2
    ConDefaults <- MCConDefaults
    ConPluggings <- MCConPluggings
    ConAttributes <- MCConAttributes
    ConBudgets <- MCConBudgets
    BkQueueMax = 2
    BkPatterns <- MCBkPatterns
    BkFunctions = {"quiet", "forgets", "reads"}
    BkFast = {FALSE, TRUE}
    BkBudgets <- MCBkBudgets
    VidMachines <- MCVidMachines
    VidVga <- MCVidVga
    VidByte = 4
    VidColours <- MCVidColours
    VidRects <- MCVidRects
    VidDeltas = {0, 3}
    VidBudgets <- MCVidBudgets
    I13Media <- MCI13Media
    I13Machines <- MCI13Machines
    I13Heads = 2
    I13Cylinders = 2
    I13Chunk = 2
    I13Garbage = 100
    I13Requests <- MCI13Requests
    I13Budgets <- MCI13Budgets
    BtOptions <- MCBtOptions
    BtOrder <- MCBtOrder
    BtTexts <- MCBtTexts
    BtInactive = {"off"}
    BtKeyOptions <- MCBtKeyOptions
    BtKeyboards = {"k1"}
    BtStrokes <- MCBtStrokes
    BtEnter <- MCBtEnter
    BtTimeouts <- MCBtTimeouts
    BtBudgets <- MCBtBudgets
    FpMachines <- MCFpMachines
    FpDisks = {"d1", "d2"}
    FpEndOfTrack = 2
    FpTracks = 2
    FpPage = 2
    FpSegment = 4
    FpIsaPages = 8
    FpFixed = 20
    FpRequests <- MCFpRequests
    FpBudgets <- MCFpBudgets
INVARIANT NothingLeftOut
CHECK_DEADLOCK FALSE
