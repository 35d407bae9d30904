SPECIFICATION Spec
CONSTANTS
    V4 <- V4Addresses
    V6 <- V6Addresses
    Cidrs <- Nets
    Unparsable = Unparsable
    NoGateway = NoGateway
    Ranges <- GoodRanges
    Groups <- SomeGroups
    LowerCase <- SameCase
    TopologyRefs = {"api"}
    MaxConductors = 1
    MaxRanges = 3
INVARIANT RangesDisjoint
CHECK_DEADLOCK FALSE
