\* The limit is changed while a task is being enqueued.
SPECIFICATION ApiSpec
CONSTANTS
    MaxTasks = 1
    Devices = {}
    NoDevice = NoDevice
    MaxLimit = 2
    Modes = {"API_KEY"}
    Limits = {1}
    Requests = {r1}
    Asked = {}
    JobIds = {j1, j2}
    Answers = {"text"}
    Deletable = {}
    Saves = {w1}
    MaxCrashes = 0
CHECK_DEADLOCK FALSE
INVARIANTS
    LimitTakesEffect
