SPECIFICATION FairSpecFromA
CONSTANTS
    NoSecret = NoSecret
    None = None
    a1 = a1
    a2 = a2
    i1 = i1
    i2 = i2
    x1 = x1
    x2 = x2
    TransportSecrets = {t1}
    NotifSecrets = {n1}
    Accounts = {a1, a2}
    Images = {i1, i2}
    Topologies = {x1}
    Specs <- UpgradeSpecs
    RapidRotation = FALSE
    MaxRotations = 0
    MaxEdits = 2
    MaxFaults = 1
    MaxCrashes = 0
INVARIANTS RenderedProtected SchemaFirst TopologyReleased
PROPERTIES AccountReleasedLate 
CHECK_DEADLOCK FALSE
