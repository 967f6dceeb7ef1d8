SPECIFICATION Spec
CONSTANTS
    Addons = {"gpu"}
    AddonID = "gpu"
    Lingering = {"Subscription", "NFD"}
    Lagging = {"gpu", "AddonCsv"}
    Contended = {}
    OtherPlugins = {}
    Versions <- NoVersions
    Histories <- On410
    PolicyKinds = {TRUE, FALSE}
    Resyncs = FALSE
    MaxEdits = 1
    MaxFaults = 1
    MaxCrashes = 1
INVARIANTS
    TypeOK
    NoOrphans
    OwnersHold
    PassIsProtected
    IInv
    StatusAtRest
PROPERTIES
    SelfCsvLast
    ImplementsLifecycle
CHECK_DEADLOCK FALSE
