------------------------------ MODULE Webhook -------------------------------
(* Admission of Ironic CRs (api/v1beta1/ironic_webhook.go).  A user applies *)
(* a manifest; the webhook defaults it, validates it, and admits it or      *)
(* refuses it with a list of errors.  ValidateCreate and ValidateUpdate run *)
(* the same checks, none of which looks at the stored CR, apart from the    *)
(* warnings about deprecated fields, which are left out.                    *)
(*                                                                          *)
(* An address is a number: bytes.Compare orders the 16-byte forms, of which *)
(* the IPv4 addresses are one interval.                                     *)
EXTENDS Naturals, FiniteSets, SequencesExt

CONSTANTS
    V4,             \* IPv4 addresses
    V6,             \* IPv6 addresses
    Cidrs,          \* prefixes: [lo, hi] of one family
    Unparsable,     \* a string that is no address, or no prefix
    NoGateway,      \* the empty gateway
    Ranges,         \* DHCP ranges users write
    TopologyRefs,   \* the parts of a spec that can refer to a Topology
    Groups,         \* conductor groups users write
    LowerCase,      \* strings.ToLower on Groups
    MaxConductors,
    MaxRanges       \* DHCP ranges of one CR

(* A string field the user leaves empty.                                   *)
Unset == ""

Addresses == V4 \cup V6

(* A DHCP range: its prefix, first and last address, and gateway.          *)
DHCPRange == [cidr: Cidrs \cup {Unparsable}, start: Addresses \cup {Unparsable},
              end: Addresses \cup {Unparsable},
              gateway: Addresses \cup {Unparsable, NoGateway}]

ASSUME AddressAssumption ==
    /\ V4 \subseteq Nat /\ V6 \subseteq Nat /\ V4 \cap V6 = {}
    /\ Unparsable \notin Addresses /\ Unparsable \notin Cidrs
    /\ NoGateway \notin Addresses /\ Unparsable # NoGateway
ASSUME RangeAssumption ==
    /\ Cidrs \subseteq [lo: Addresses, hi: Addresses]
    /\ Ranges \subseteq DHCPRange
ASSUME GroupAssumption == Unset \in Groups /\ DOMAIN LowerCase = Groups

VARIABLES
    manifest,   \* the CR spec the user applies
    verdict     \* what the webhook said: "none", "admitted", "refused"
vars == <<manifest, verdict>>

-----------------------------------------------------------------------------
(* Conductor groups.                                                       *)

GroupKey(g) == IF g = Unset THEN "null_conductor_group_null" ELSE g

(* Mutant of DuplicateGroups: only neighbours are compared.                *)
DuplicateGroups_Adjacent(spec) ==
    {i \in DOMAIN spec.conductors :
        i > 1 /\ GroupKey(spec.conductors[i - 1].group) = GroupKey(spec.conductors[i].group)}

(* The conductors whose group another one before has (dupes).              *)
DuplicateGroups(spec) ==
    {i \in DOMAIN spec.conductors : \E j \in 1..(i - 1) :
        GroupKey(spec.conductors[j].group) = GroupKey(spec.conductors[i].group)}

-----------------------------------------------------------------------------
(* DHCP ranges.                                                            *)

(* What does not parse.                                                    *)
ParseErrors(r) == {f \in {"cidr", "start", "end", "gateway"} : r[f] = Unparsable}

InCidr(cidr, a) == cidr.lo <= a /\ a <= cidr.hi /\ (a \in V4 <=> cidr.lo \in V4)

FamilyErrors(r) ==
    LET mixed(a) == a # NoGateway /\ (a \in V4) # (r.cidr.lo \in V4) IN
    (IF mixed(r.start) \/ mixed(r.end) \/ (r.cidr.lo \in V4 /\ mixed(r.gateway))
     THEN {"family"} ELSE {})
    \cup (IF r.cidr.lo \in V6 /\ r.gateway # NoGateway THEN {"ipv6gateway"} ELSE {})

OutsideErrors(r) ==
    {f \in {"start", "end", "gateway"} :
        r[f] # NoGateway /\ ~InCidr(r.cidr, r[f])}

(* Mutant of OrderErrors: an empty interval is let through.                *)
OrderErrors_Equal(r) == IF r.end < r.start THEN {"order"} ELSE {}

(* The end must come after the start.                                      *)
OrderErrors(r) == IF r.end <= r.start THEN {"order"} ELSE {}

(* validateDHCPRange: a range of which something does not parse, or which  *)
(* has no gateway (gatewayAddr is nil), gets no further checks.            *)
RangeErrors(r) ==
    IF ParseErrors(r) # {} \/ r.gateway = NoGateway THEN ParseErrors(r)
    ELSE FamilyErrors(r) \cup OutsideErrors(r) \cup OrderErrors(r)

(* Mutant of StartEndOverlap: ranges that touch in one address pass.       *)
StartEndOverlap_Touching(a, b) ==
    \/ a.start < b.start /\ a.end > b.start
    \/ a.start = b.start
    \/ a.start > b.start /\ a.start < b.end

(* Mutant of StartEndOverlap: the bounds are compared the wrong way.       *)
StartEndOverlap_Always(a, b) ==
    \/ a.start < b.start
    \/ a.start = b.start
    \/ a.start > b.start /\ a.start <= b.end

(* validateStartEndOverlap: is the pair forbidden?                         *)
StartEndOverlap(a, b) ==
    \/ a.start < b.start /\ a.end >= b.start
    \/ a.start = b.start
    \/ a.start > b.start /\ a.start <= b.end

(* The ranges of a spec: the inspector's, then each conductor's.           *)
AllRanges(spec) ==
    spec.inspector \o FlattenSeq([i \in DOMAIN spec.conductors |-> spec.conductors[i].ranges])

(* validateDHCPRangesOverlap over the ranges whose ends parse.  Every pair *)
(* is visited, each result replaces the one before, so what is returned is *)
(* the result of the last pair visited.                                    *)
RangesOverlap(spec) ==
    LET rs == AllRanges(spec)
        parsed == {i \in DOMAIN rs : Unparsable \notin {rs[i].start, rs[i].end}}
    IN \E last, before \in parsed :
           /\ before < last /\ StartEndOverlap(rs[last], rs[before])
           /\ \A i \in parsed : i <= before \/ i = last

-----------------------------------------------------------------------------
(* The webhook.                                                            *)

RPCTransports == {"oslo", "json-rpc"}

(* Default.                                                                *)
Defaulted(spec) == [spec EXCEPT !.rpc = IF @ = Unset THEN "json-rpc" ELSE @]

(* ValidateIronicTopology: a Topology of another namespace is referred to, *)
(* by the spec or by one of its parts.                                     *)
ForeignTopology(spec) == spec.foreign # {}

(* The checks of the whole spec that fail.                                 *)
SpecErrors(spec) ==
    {e \in {"rpcTransport", "group", "conductors", "overlap", "standalone",
           "topology"} :
        \/ e = "rpcTransport" /\ spec.rpc \notin RPCTransports
        \/ e = "group" /\ DuplicateGroups(spec) # {}
        \/ e = "conductors" /\ spec.conductors = <<>>
        \/ e = "overlap" /\ RangesOverlap(spec)
        \/ e = "standalone" /\ spec.standalone /\ spec.agents > 0
        \/ e = "topology" /\ ForeignTopology(spec)}

(* ValidateCreate and ValidateUpdate.                                      *)
Errors(spec) ==
    SpecErrors(spec)
    \cup (UNION {RangeErrors(AllRanges(spec)[i]) : i \in DOMAIN AllRanges(spec)})

Init ==
    /\ manifest = [rpc |-> Unset, standalone |-> FALSE, agents |-> 1, foreign |-> {},
                   conductors |-> <<[group |-> Unset, ranges |-> <<>>]>>, inspector |-> <<>>]
    /\ verdict = "none"

(* The user changes one field before applying the manifest again.          *)
Edit ==
    /\ verdict' = "none"
    /\ \/ \E rpc \in RPCTransports \cup {Unset, "tcp"} : manifest' = [manifest EXCEPT !.rpc = rpc]
       \/ manifest' = [manifest EXCEPT !.standalone = ~@]
       \/ \E t \in SUBSET TopologyRefs : manifest' = [manifest EXCEPT !.foreign = t]
       \/ \E n \in {0, 1} : manifest' = [manifest EXCEPT !.agents = n]

AddConductor ==
    /\ Len(manifest.conductors) < MaxConductors
    /\ \E g \in Groups : manifest' = [manifest EXCEPT
           !.conductors = Append(@, [group |-> g, ranges |-> <<>>])]
    /\ verdict' = "none"

RemoveConductors ==
    /\ manifest' = [manifest EXCEPT !.conductors = <<>>]
    /\ verdict' = "none"

AddRange ==
    /\ Len(AllRanges(manifest)) < MaxRanges
    /\ \E r \in Ranges :
          \/ manifest' = [manifest EXCEPT !.inspector = Append(@, r)]
          \/ \E i \in DOMAIN manifest.conductors :
                manifest' = [manifest EXCEPT !.conductors[i].ranges = Append(@, r)]
    /\ verdict' = "none"

Admit ==
    /\ verdict = "none" /\ Errors(Defaulted(manifest)) = {}
    /\ manifest' = Defaulted(manifest) /\ verdict' = "admitted"

Refuse ==
    /\ verdict = "none" /\ Errors(Defaulted(manifest)) # {}
    /\ verdict' = "refused" /\ UNCHANGED manifest

Next == Edit \/ AddConductor \/ RemoveConductors \/ AddRange \/ Admit \/ Refuse

Spec == Init /\ [][Next]_vars

-----------------------------------------------------------------------------
(* What the controllers do with an admitted CR.                            *)

(* The name of a conductor's CR (conductorDeploymentCreateOrUpdate), up to *)
(* the common prefix; and its key in IronicConductorReadyCount.            *)
ConductorName(g) == LowerCase[g]
ReadyCountKey(g) == IF g = Unset THEN "null_conductor_group_null" ELSE g

(* PrefixOrNetmaskFromCIDR fails when a prefix does not parse.             *)
MasksKnown(ranges) == \A i \in DOMAIN ranges : ranges[i].cidr # Unparsable

-----------------------------------------------------------------------------
(* Properties.                                                             *)

(* The addresses a range hands out.                                        *)
Pool(r) == IF Unparsable \in {r.start, r.end} THEN {}
           ELSE {a \in Addresses : r.start <= a /\ a <= r.end}

Disjoint(rs) == \A i, j \in DOMAIN rs : i # j => Pool(rs[i]) \cap Pool(rs[j]) = {}

(* A range dnsmasq can serve: all of one family and inside its prefix, not *)
(* empty, and no gateway for IPv6.                                         *)
Usable(r) ==
    /\ r.cidr \in Cidrs /\ {r.start, r.end} \subseteq Addresses
    /\ r.gateway \in Addresses \cup {NoGateway}
    /\ \A a \in {r.start, r.end, r.gateway} \ {NoGateway} : InCidr(r.cidr, a)
    /\ r.start < r.end
    /\ r.cidr.lo \in V6 => r.gateway = NoGateway

(* No two DHCP ranges of an admitted CR, of the inspector or of any        *)
(* conductor, hand out the same address (validateDHCPRangesOverlap: "Check *)
(* for overlapping start->end in all DHCP ranges").                        *)
RangesDisjoint == verdict = "admitted" => Disjoint(AllRanges(manifest))

(* An admitted range with a gateway is usable, and the controllers can     *)
(* compute the mask of every admitted range (validateDHCPRange).           *)
GatewayRangesUsable ==
    verdict = "admitted" =>
        LET rs == AllRanges(manifest) IN
        /\ MasksKnown(rs)
        /\ \A i \in DOMAIN rs : rs[i].gateway # NoGateway => Usable(rs[i])

(* Two conductors of an admitted CR never share a sub-CR or an entry of    *)
(* the ready count (validateConductorGroupsUnique).                        *)
ConductorsDistinct ==
    verdict = "admitted" =>
        \A i, j \in DOMAIN manifest.conductors : i # j =>
            LET g == manifest.conductors[i].group
                h == manifest.conductors[j].group
            IN ConductorName(g) # ConductorName(h) /\ ReadyCountKey(g) # ReadyCountKey(h)

(* A refused manifest has a fault: the webhook turns no CR away that the   *)
(* operator could deploy.                                                  *)
Deployable(spec) ==
    /\ spec.rpc \in RPCTransports \cup {Unset}
    /\ spec.conductors # <<>> /\ spec.foreign = {}
    /\ \A i, j \in DOMAIN spec.conductors :
          i # j => GroupKey(spec.conductors[i].group) # GroupKey(spec.conductors[j].group)
    /\ \A i \in DOMAIN AllRanges(spec) : Usable(AllRanges(spec)[i])
    /\ Disjoint(AllRanges(spec))
    /\ ~(spec.standalone /\ spec.agents > 0)
RefusedForCause == verdict = "refused" => ~Deployable(manifest)
=============================================================================
