SPECIFICATION FairSpec
CONSTANTS
    Addons = {"gpu"}
    AddonID = "gpu"
    Lingering = {}
    Lagging = {}
    Contended = {}
    OtherPlugins = {}
    Versions <- NoVersions
    Histories <- On411
    PolicyKinds = {TRUE}
    Resyncs = FALSE
    MaxEdits = 0
    MaxFaults = 0
    MaxCrashes = 0
PROPERTIES
    EventuallyReported
CHECK_DEADLOCK FALSE
