SPECIFICATION FairSpec
CONSTANTS
    NoSecret = NoSecret
    TransportSecrets = {t1, t2}
    NotifSecrets = {n1}
    RapidRotation = FALSE
    MaxRotations = 2
    MaxToggles = 1
    MaxFaults = 1
INVARIANT TypeOK
INVARIANT RenderedProtected
INVARIANT DeletedReleasesAll
PROPERTY ImplementsConsumption
PROPERTY ReadyMeansApplied
PROPERTY TrackedUntilUnused
PROPERTY Converges
CHECK_DEADLOCK FALSE
