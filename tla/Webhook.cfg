SPECIFICATION Spec
CONSTANTS
    V4 <- V4Addresses
    V6 <- V6Addresses
    Cidrs <- Nets
    Unparsable = Unparsable
    NoGateway = NoGateway
    Ranges <- SomeRanges
    Groups <- SomeGroups
    LowerCase <- SameCase
    TopologyRefs = {"api"}
    MaxConductors = 3
    MaxRanges = 2
INVARIANTS RangesDisjoint GatewayRangesUsable  
CHECK_DEADLOCK FALSE
