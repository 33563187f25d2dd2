\* One task, one request of the page and one other writer at a time.
SPECIFICATION DashSpec
CONSTANTS
    MaxTasks = 1
    Devices = {d1}
    NoDevice = NoDevice
    Requests = {r1}
    Asked = {"cancel", "pause", "resume", "retry"}
    Others = {w1}
    Received = {"RUNNING", "FAILED", "PAUSED"}
    Fetches = {f1, f2}
    FirstFetch = f1
    MaxWrites = 4
    MaxEvents = 2
CHECK_DEADLOCK FALSE
INVARIANTS
    DashTypeOK
    EveryChangeArrives
