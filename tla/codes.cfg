CONSTANTS
    stderr = stderr
    watcher = watcher
    log = log
    error = error
    progress = progress
    NoClass = NoClass
    Nil = Nil
    Classes = {error, progress}
    Events = {stderr, watcher, log}
    EventTpl <- MCEventTpl
    Filters = {stderr, watcher}
    ClassesOf <- MCClassesOf
    StatusOnly = {watcher}
    LogEvent = log
    Batch = 2
    MaxRecords = 2
    Reports <- MCReports
    Logs = {error}
    Budgets <- Mixed
SPECIFICATION FairSpec
INVARIANTS TypeOK LoggedAsReported BuffersOwned NothingStranded CountsAscend LockNeverHeld RingKeepsLast NoGaps NobodyMisses
PROPERTIES InOrderOnce ComesToRest
CHECK_DEADLOCK FALSE
