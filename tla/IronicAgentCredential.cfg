SPECIFICATION Spec
CONSTANTS
    NoSecret = NoSecret
    TransportSecrets = {t1}
    NotifSecrets = {}
    ACSecrets = {a1,a2}
    InspectorACSecrets = {}
    Conductors <- NoConductors
    Inspector = FALSE
    Agent = TRUE
    Installed = TRUE
    RapidRotation = FALSE
    MaxRotations = 0
    MaxEdits = 1
    MaxRPCEdits = 0
    MaxFaults = 0
    MaxDisturbances = 4
INVARIANT AgentsProtected
CHECK_DEADLOCK FALSE
