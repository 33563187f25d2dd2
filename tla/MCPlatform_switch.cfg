\* One removable task, two removable devices that take turns on one socket, one crash.
SPECIFICATION PlatformSpec
CONSTANTS
    MaxTasks = 1
    Devices = {d1, d2}
    NoDevice = NoDevice
    MaxLimit = 2
    Modes = {"API_KEY", "LOCAL_CLI"}
    Limits = {1, 2}
    Requests = {r1}
    Asked = {"cancel", "pause", "resume", "retry"}
    JobIds = {j1, j2}
    Answers = {"text", "error", "limited", "undated"}
    Deletable = {1}
    Saves = {w1, w2}
    MaxCrashes = 1
    MaxTurns = 3
    Removable = {d1, d2}
    Sessions = {s1}
    Received = {"COMPLETED"}
    MaxReports = 1
    Passes = {p1, p2}
    NoPass = NoPass
SYMMETRY Symmetry
CHECK_DEADLOCK FALSE
INVARIANTS
    PlatformTypeOK
    OneExecutor
    
    StrandedExplained
    WorkerFollowsLimit
PROPERTIES
    CancelExplained
    
    HandedOverOnlyWhenReleased
