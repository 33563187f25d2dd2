\* One task is cancelled while the worker calls for it.
SPECIFICATION PlatformSpec
CONSTANTS
    MaxTasks = 1
    Devices = {}
    NoDevice = NoDevice
    MaxLimit = 2
    Modes = {"API_KEY"}
    Limits = {1}
    Requests = {r1}
    Asked = {"cancel"}
    JobIds = {j1}
    Answers = {"limited"}
    Deletable = {}
    Saves = {w1}
    MaxCrashes = 0
    MaxTurns = 1
    Removable = {}
    Sessions = {}
    Received = {}
    MaxReports = 0
    Passes = {p1}
    NoPass = NoPass
CHECK_DEADLOCK FALSE
PROPERTIES
    CancelIsFinal
