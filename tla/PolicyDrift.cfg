SPECIFICATION Spec
CONSTANTS
    Addons = {"gpu"}
    AddonID = "gpu"
    Lingering = {}
    Lagging = {}
    Contended = {"ClusterPolicy"}
    OtherPlugins = {}
    Versions <- NoVersions
    Histories <- On409
    PolicyKinds = {TRUE}
    Resyncs = FALSE
    MaxEdits = 1
    MaxFaults = 0
    MaxCrashes = 0
INVARIANTS
    ClusterPolicyRestored
CHECK_DEADLOCK FALSE
