SPECIFICATION FairSpec
CONSTANTS
    URLs = {"u1", "u2"}
    Contended = {"AlertmanagerConfig"}
    Lagging = {"AlertmanagerConfig", "Monitoring"}
    MaxEdits = 2
    MaxFaults = 1
    MaxCrashes = 1
INVARIANTS
    SnitchHasURL
    IInv
    StackRestored
    NothingLeft
PROPERTIES
    OwnerNeverGoesBack
    MetricsComeUp
    AlertsFollowSecrets
CHECK_DEADLOCK FALSE
