\* A device loses its connection while a pass is under way.
SPECIFICATION LocalSpec
CONSTANTS
    MaxTasks = 1
    Devices = {d1}
    NoDevice = NoDevice
    MaxLimit = 2
    Modes = {"LOCAL_CLI"}
    Limits = {1}
    Removable = {}
    Requests = {r1}
    Asked = {}
    Sessions = {s1, s2}
    Received = {"RUNNING", "PAUSED_RATE_LIMIT", "PAUSED", "COMPLETED", "FAILED"}
    MaxReports = 1
    Passes = {p1, p2}
    NoPass = NoPass
    Hosts = {d1}
    Jobs = {1}
    Runs = {c1, c2, c3}
    NoChild = NoChild
    NoLink = NoLink
    Ends = {"COMPLETED", "PAUSED_RATE_LIMIT"}
    Startable = {TRUE}
    Deletable = {}
    MaxMessages = 2
    Faults = {"lose"}
    MaxFaults = 1
    Orderly = FALSE
CHECK_DEADLOCK FALSE
INVARIANTS
    RequeuedWhenGone
