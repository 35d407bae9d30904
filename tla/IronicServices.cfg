SPECIFICATION Spec
CONSTANTS
    NoSecret = NoSecret
    TransportSecrets = {t1, t2}
    NotifSecrets = {}
    ACSecrets = {}
    InspectorACSecrets = {}
    Conductors <- OneConductor
    Inspector = FALSE
    Agent = FALSE
    Installed = FALSE
    RapidRotation = FALSE
    MaxRotations = 1
    MaxEdits = 0
    MaxRPCEdits = 0
    MaxFaults = 1
    MaxDisturbances = 4
INVARIANTS TypeOK ServicesProtected ReadyIsCurrent
SYMMETRY SecretSymmetry
CHECK_DEADLOCK FALSE
