SPECIFICATION FairSpec
CONSTANTS
    NoSecret = NoSecret
    None = None
    a1 = a1
    a2 = a2
    i1 = i1
    i2 = i2
    x1 = x1
    x2 = x2
    TransportSecrets = {t1, t2}
    NotifSecrets = {n1}
    Accounts = {a1}
    Images = {i1}
    Topologies = {}
    Specs <- BusSpecs
    RapidRotation = FALSE
    MaxRotations = 2
    MaxEdits = 1
    MaxFaults = 0
    MaxCrashes = 1
INVARIANTS TypeOK RenderedProtected DeletedReleasesAll
PROPERTIES ImplementsConsumption ReadyMeansApplied Settles
CHECK_DEADLOCK FALSE
