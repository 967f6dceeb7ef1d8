SPECIFICATION Spec
CONSTANTS
    Addons = {"gpu", "other"}
    AddonID = "gpu"
    Lingering = {}
    Lagging = {"gpu", "NFD"}
    Contended = {}
    OtherPlugins = {}
    Versions <- NoVersions
    Histories <- On409
    PolicyKinds = {TRUE}
    Resyncs = FALSE
    MaxEdits = 2
    MaxFaults = 0
    MaxCrashes = 0
INVARIANTS
    RemovalJustified
    OwnersHold
    NoOrphans
PROPERTIES
    OwnerNotStolen
    ImplementsLifecycle
CHECK_DEADLOCK FALSE
