\* Two tasks on one device that may be removed, no faults.
SPECIFICATION LocalSpec
CONSTANTS
    MaxTasks = 2
    Devices = {d1}
    NoDevice = NoDevice
    MaxLimit = 2
    Modes = {"LOCAL_CLI"}
    Limits = {2}
    Removable = {d1}
    Requests = {r1}
    Asked = {"cancel", "retry"}
    Sessions = {s1}
    Received = {"RUNNING", "PAUSED_RATE_LIMIT", "PAUSED", "COMPLETED", "FAILED"}
    MaxReports = 2
    Passes = {p1, p2}
    NoPass = NoPass
    Hosts = {d1}
    Jobs = {1, 2}
    Runs = {c1, c2}
    NoChild = NoChild
    NoLink = NoLink
    Ends = {"FAILED", "PAUSED_RATE_LIMIT"}
    Startable = {TRUE, FALSE}
    Deletable = {1}
    MaxMessages = 2
    Faults = {}
    MaxFaults = 0
    Orderly = TRUE
SYMMETRY Symmetry
CHECK_DEADLOCK FALSE
INVARIANTS
    LocalTypeOK
    NoLostTask
    ProcessOwnsItsRow
    OneRunPerTask
    AbortFindsItsRun
PROPERTIES
    CancelIsFinal
    FinalReportIsLast
