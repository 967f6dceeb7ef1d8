SPECIFICATION FairSpec
CONSTANTS
    Addons = {"gpu"}
    AddonID = "gpu"
    Lingering = {}
    Lagging = {}
    Contended = {}
    OtherPlugins = {}
    Versions <- NoVersions
    Histories <- On409
    PolicyKinds = {TRUE}
    Resyncs = FALSE
    MaxEdits = 1
    MaxFaults = 0
    MaxCrashes = 0
PROPERTIES
    FinalizerReleased
CHECK_DEADLOCK FALSE
