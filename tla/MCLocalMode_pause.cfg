\* The user pauses a task while its process runs into a rate limit.
SPECIFICATION LocalSpec
CONSTANTS
    MaxTasks = 1
    Devices = {d1}
    NoDevice = NoDevice
    MaxLimit = 2
    Modes = {"LOCAL_CLI"}
    Limits = {1}
    Removable = {}
    Requests = {r1}
    Asked = {"pause"}
    Sessions = {s1}
    Received = {"RUNNING", "PAUSED_RATE_LIMIT", "PAUSED", "COMPLETED", "FAILED"}
    MaxReports = 1
    Passes = {p1, p2}
    NoPass = NoPass
    Hosts = {d1}
    Jobs = {1}
    Runs = {c1}
    NoChild = NoChild
    NoLink = NoLink
    Ends = {"FAILED", "PAUSED_RATE_LIMIT"}
    Startable = {TRUE}
    Deletable = {}
    MaxMessages = 2
    Faults = {}
    MaxFaults = 0
    Orderly = TRUE
CHECK_DEADLOCK FALSE
INVARIANTS
    NoLostTask
