SPECIFICATION FairSpec
CONSTANTS
    Addons = {"gpu"}
    AddonID = "gpu"
    Lingering = {"ClusterPolicy"}
    Lagging = {"NFD"}
    Contended = {"NFD", "Subscription"}
    OtherPlugins = {}
    Versions <- NoVersions
    Histories <- On409
    PolicyKinds = {FALSE}
    Resyncs = FALSE
    MaxEdits = 1
    MaxFaults = 1
    MaxCrashes = 1
INVARIANTS
    OwnedOperandsRestored
    GaugeAtRest
    SteadyInv
PROPERTIES
    UninstallProgresses
    EventuallyReady
CHECK_DEADLOCK FALSE
