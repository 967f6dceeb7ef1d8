SPECIFICATION PatientSpec
CONSTANTS
    Addons = {"gpu"}
    AddonID = "gpu"
    Lingering = {}
    Lagging = {"Console"}
    Contended = {"ClusterPolicy", "ConsolePlugin"}
    OtherPlugins = {"monitoring"}
    Versions <- Newer
    Histories <- AnyHistory
    PolicyKinds = {FALSE}
    Resyncs = TRUE
    MaxEdits = 2
    MaxFaults = 0
    MaxCrashes = 0
INVARIANTS
    PluginNeedsVersion
    StatusAtRest
    RestInv
PROPERTIES
    EventuallyRestored
CHECK_DEADLOCK FALSE
