\* One tab on its three pages, another tab, two machines to pair.
SPECIFICATION FairWebSpec
CONSTANTS
    Unknown = Unknown
    Refused = Refused
    MaxActs = 3
    MaxLimit = 2
    Modes = {"API_KEY", "LOCAL_CLI"}
    Limits = {1, 2}
    Machines = {m1, m2}
    MaxCodes = 1
    Slugs = {"a"}
    Slots = {p1, p2}
    Wanted = {2}
    MaxLines = 2
    MaxCrashes = 1
CHECK_DEADLOCK FALSE
INVARIANTS
    WebTypeOK
    ShownIsCurrent
    ConfiguredUnlessCrashed
    OneDevicePerCode
PROPERTIES
    SaveChangesOnlyEdits
    DevicesShownInTheEnd
