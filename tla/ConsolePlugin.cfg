SPECIFICATION EntrySpec
CONSTANTS
    Addons = {"gpu"}
    AddonID = "gpu"
    Lingering = {}
    Lagging = {"Service", "Console"}
    Contended = {}
    OtherPlugins = {"monitoring"}
    Versions <- NoVersions
    Histories <- On410
    PolicyKinds = {TRUE}
    Resyncs = FALSE
    MaxEdits = 3
    MaxFaults = 0
    MaxCrashes = 1
INVARIANTS
    DisabledPluginGone
    PluginRegistered
    OwnedOperandsRestored
    SteadyInv
    EntryInv
PROPERTIES
    OnlyUnseenPluginsLost
CHECK_DEADLOCK FALSE
