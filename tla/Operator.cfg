SPECIFICATION FairOperatorSpec
CONSTANTS
    ConfigMaps = {"gpu", "proxy"}
    Addons = {"gpu"}
    AddonID = "gpu"
    Lingering = {}
    Lagging = {"gpu"}
    Contended = {}
    OtherPlugins = {}
    Versions <- NoVersions
    Histories <- NotReported
    PolicyKinds = {TRUE}
    Resyncs = FALSE
    MaxEdits = 2
    MaxFaults = 1
    MaxCrashes = 1
INVARIANTS
    CMTypeOK
PROPERTIES
    DeletedOnlyIfAsked
    ImplementsLifecycle
    RequestKept
    RequestHonoured
CHECK_DEADLOCK FALSE
