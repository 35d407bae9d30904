SPECIFICATION Spec
CONSTANTS
    NoSecret = NoSecret
    TransportSecrets = {t1, t2}
    NotifSecrets = {}
    ACSecrets = {a1, a2}
    InspectorACSecrets = {}
    Conductors <- NoConductors
    Inspector = FALSE
    Agent = FALSE
    Installed = TRUE
    RapidRotation = FALSE
    MaxRotations = 2
    MaxEdits = 1
    MaxRPCEdits = 0
    MaxFaults = 1
    MaxDisturbances = 4
INVARIANTS ServicesProtected AppliedMeansLoaded
PROPERTY TrackedUntilUnused
SYMMETRY SecretSymmetry
CHECK_DEADLOCK FALSE
