SPECIFICATION FairSpecOnOneBus
CONSTANTS
    NoSecret = NoSecret
    TransportSecrets = {t1, t2}
    NotifSecrets = {n1}
    ACSecrets = {}
    InspectorACSecrets = {}
    Conductors <- NoConductors
    Inspector = FALSE
    Agent = FALSE
    Installed = TRUE
    RapidRotation = TRUE
    MaxRotations = 1
    MaxEdits = 2
    MaxRPCEdits = 0
    MaxFaults = 1
    MaxDisturbances = 3
PROPERTY Settles
CHECK_DEADLOCK FALSE
