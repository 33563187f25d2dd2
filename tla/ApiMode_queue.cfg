\* Two tasks, one request at a time, one crash.
SPECIFICATION FairApiSpec
CONSTANTS
    MaxTasks = 2
    Devices = {}
    NoDevice = NoDevice
    MaxLimit = 2
    Modes = {"API_KEY"}
    Limits = {1}
    Requests = {r1}
    Asked = {"cancel", "pause", "retry"}
    JobIds = {j1, j2}
    Answers = {"text", "error", "limited"}
    Deletable = {1}
    Saves = {w1}
    MaxCrashes = 1
CHECK_DEADLOCK FALSE
INVARIANTS
    NothingStranded
PROPERTIES
    
    JobsAreWorkedOff
