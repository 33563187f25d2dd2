\* Two tasks on one device that crashes or loses its connection, once.
SPECIFICATION FairLocalSpec
CONSTANTS
    MaxTasks = 2
    Devices = {d1}
    NoDevice = NoDevice
    MaxLimit = 2
    Modes = {"LOCAL_CLI"}
    Limits = {1}
    Removable = {}
    Requests = {r1}
    Asked = {}
    Sessions = {s1, s2}
    Received = {"RUNNING", "PAUSED_RATE_LIMIT", "PAUSED", "COMPLETED", "FAILED"}
    MaxReports = 1
    Passes = {p1, p2}
    NoPass = NoPass
    Hosts = {d1}
    Jobs = {1, 2}
    Runs = {c1, c2, c3}
    NoChild = NoChild
    NoLink = NoLink
    Ends = {"COMPLETED", "PAUSED_RATE_LIMIT"}
    Startable = {TRUE}
    Deletable = {}
    MaxMessages = 2
    Faults = {"crash", "lose"}
    MaxFaults = 1
    Orderly = TRUE
CHECK_DEADLOCK FALSE
INVARIANTS
    NoLostTask
    RequeuedWhenGone
    QueuedBelongsToNobody
    WorkConserving
PROPERTIES
    ClaimsRespectLimit
    QueueIsWorkedOff
