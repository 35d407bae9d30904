SPECIFICATION Spec
CONSTANTS
    NoSecret = NoSecret
    TransportSecrets = {t1}
    NotifSecrets = {n1, n2}
    RapidRotation = FALSE
    MaxRotations = 1
    MaxToggles = 0
    MaxFaults = 0
INVARIANT ConsumedNotifProtected
CHECK_DEADLOCK FALSE
