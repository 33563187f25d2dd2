\* One task, two processes for it, torn output, rate limits and a crash.
SPECIFICATION RunSpec
CONSTANTS
    MaxTasks = 1
    Devices = {d1}
    NoDevice = NoDevice
    Asked = {"cancel", "pause", "resume", "retry"}
    Calls = {c1, c2}
    NoCall = NoCall
    Events <- MCEvents
    MaxEvents = 2
    MaxProcesses = 2
    MaxFiles = 2
    Trees <- MCTrees
    Host = d1
    Resets = {0, 2, 9}
    Backoff = 2
    MaxTimeout = 3
    MaxTime = 2
    MaxCrashes = 1
    MaxOrders = 1
    MaxReports = 2
SYMMETRY Symmetry
CHECK_DEADLOCK FALSE
INVARIANTS
    RunTypeOK
    FilesAreListed
PROPERTIES
    UnderstoodUnlessTorn
    WaitsForReset
    SessionPreserved
    ImplementsAgent
