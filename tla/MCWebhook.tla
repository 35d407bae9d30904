----------------------------- MODULE MCWebhook ------------------------------
(* Small instances of Webhook: one IPv4 prefix 0..3 with an address outside *)
(* it, one IPv6 prefix 5..6, and ranges that are right and wrong in every   *)
(* way validateDHCPRange tells apart.                                       *)
EXTENDS Webhook

V4Addresses == 0..4
V6Addresses == 5..6
Net4 == [lo |-> 0, hi |-> 3]
Net6 == [lo |-> 5, hi |-> 6]
Nets == {Net4, Net6}

R(cidr, start, end, gateway) ==
    [cidr |-> cidr, start |-> start, end |-> end, gateway |-> gateway]
GoodRanges == {R(Net4, 0, 1, 0), R(Net4, 1, 2, 0), R(Net4, 2, 3, 0), R(Net4, 0, 3, NoGateway),
               R(Net6, 5, 6, NoGateway)}
WrongRanges == {R(Net4, 1, 1, 0), R(Net4, 3, 1, NoGateway), R(Net4, 1, 4, 0),
                R(Net4, 1, 5, 0), R(Net4, 0, 1, 5), R(Net6, 5, 6, 5),
                R(Unparsable, 0, 1, 0), R(Net4, Unparsable, 1, NoGateway),
                R(Net4, 0, 1, Unparsable)}
SomeRanges == GoodRanges \cup WrongRanges

SomeGroups == {"", "a", "null_conductor_group_null"}
SameCase == [g \in SomeGroups |-> g]
=============================================================================
