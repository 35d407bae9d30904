SPECIFICATION FairSpec
CONSTANTS
    NoSecret = NoSecret
    TransportSecrets = {t1}
    NotifSecrets = {}
    ACSecrets = {}
    InspectorACSecrets = {}
    Conductors <- OneConductor
    Inspector = FALSE
    Agent = FALSE
    Installed = TRUE
    RapidRotation = FALSE
    MaxRotations = 0
    MaxEdits = 0
    MaxRPCEdits = 1
    MaxFaults = 0
    MaxDisturbances = 4
PROPERTY Settles
CHECK_DEADLOCK FALSE
