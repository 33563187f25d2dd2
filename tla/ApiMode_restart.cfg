\* The API is restarted while a task is queued.
SPECIFICATION FairApiSpec
CONSTANTS
    MaxTasks = 1
    Devices = {}
    NoDevice = NoDevice
    MaxLimit = 2
    Modes = {"API_KEY"}
    Limits = {1}
    Requests = {r1}
    Asked = {}
    JobIds = {j1, j2}
    Answers = {"text", "error", "limited"}
    Deletable = {}
    Saves = {w1}
    MaxCrashes = 1
CHECK_DEADLOCK FALSE
PROPERTIES
    ApiQueueIsWorkedOff
