SPECIFICATION Spec
CONSTANTS
    Addons = {"gpu"}
    AddonID = "gpu"
    Lingering = {}
    Lagging = {}
    Contended = {}
    OtherPlugins = {}
    Versions <- NoVersions
    Histories <- On410
    PolicyKinds = {TRUE}
    Resyncs = FALSE
    MaxEdits = 2
    MaxFaults = 0
    MaxCrashes = 0
PROPERTIES
    SpecChangedByEditsOnly
CHECK_DEADLOCK FALSE
