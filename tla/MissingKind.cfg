SPECIFICATION FairSpec
CONSTANTS
    Addons = {"gpu"}
    AddonID = "gpu"
    Lingering = {}
    Lagging = {}
    Contended = {}
    OtherPlugins = {}
    Versions <- NoVersions
    Histories <- On409
    PolicyKinds = {FALSE}
    Resyncs = FALSE
    MaxEdits = 1
    MaxFaults = 1
    MaxCrashes = 0
PROPERTIES
    CsvDeletedInTheEnd
CHECK_DEADLOCK FALSE
