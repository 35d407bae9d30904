---------------------------- MODULE WebhookProofs ----------------------------
(* What the webhook's checks mean, for any addresses, prefixes, ranges and  *)
(* groups.                                                                  *)
EXTENDS Webhook, SequenceTheorems, WellFoundedInduction, TLAPS

(* A range whose ends parse and come in order.                             *)
Ordered(r) == /\ r.start \in Addresses /\ r.end \in Addresses
              /\ r.start <= r.end

(* validateStartEndOverlap is exact: for two ranges whose ends are in      *)
(* order, it forbids the pair just when some address is in both.           *)
THEOREM OverlapExact ==
    ASSUME NEW a, NEW b, Ordered(a), Ordered(b)
    PROVE  StartEndOverlap(a, b) <=> Pool(a) \cap Pool(b) # {}
<1>1. /\ a.start \in Nat /\ a.end \in Nat /\ b.start \in Nat /\ b.end \in Nat
      /\ Unparsable \notin {a.start, a.end} /\ Unparsable \notin {b.start, b.end}
  BY AddressAssumption DEF Ordered, Addresses
<1>2. ASSUME StartEndOverlap(a, b) PROVE Pool(a) \cap Pool(b) # {}
  <2>1. CASE a.start <= b.start
    <3>1. b.start \in Pool(a) /\ b.start \in Pool(b)
      BY <1>1, <1>2, <2>1 DEF StartEndOverlap, Pool, Ordered
    <3>2. QED BY <3>1
  <2>2. CASE b.start < a.start
    <3>1. a.start \in Pool(a) /\ a.start \in Pool(b)
      BY <1>1, <1>2, <2>2 DEF StartEndOverlap, Pool, Ordered
    <3>2. QED BY <3>1
  <2>3. QED BY <1>1, <2>1, <2>2
<1>3. ASSUME NEW x \in Pool(a) \cap Pool(b) PROVE StartEndOverlap(a, b)
  <2>1. x \in Nat /\ a.start <= x /\ x <= a.end /\ b.start <= x /\ x <= b.end
    BY <1>1, AddressAssumption DEF Pool, Addresses
  <2>2. QED BY <1>1, <2>1 DEF StartEndOverlap
<1>4. QED BY <1>2, <1>3

(* validateDHCPRange lets a range with a gateway through only if it is     *)
(* usable.                                                                 *)
THEOREM AdmittedRangeUsable ==
    ASSUME NEW r \in DHCPRange, r.gateway # NoGateway, RangeErrors(r) = {}
    PROVE  Usable(r)
<1>1. ParseErrors(r) = {}
  BY DEF RangeErrors
<1>2. FamilyErrors(r) = {} /\ OutsideErrors(r) = {} /\ OrderErrors(r) = {}
  BY <1>1 DEF RangeErrors
<1>3. /\ r.cidr \in Cidrs /\ r.start \in Addresses
      /\ r.end \in Addresses /\ r.gateway \in Addresses
  BY <1>1 DEF ParseErrors, DHCPRange
<1>4. InCidr(r.cidr, r.start) /\ InCidr(r.cidr, r.end) /\ InCidr(r.cidr, r.gateway)
  <2>1. r.start # NoGateway /\ r.end # NoGateway
    BY <1>3, AddressAssumption
  <2>2. QED BY <1>2, <2>1 DEF OutsideErrors
<1>5. r.start < r.end
  <2>1. r.start \in Nat /\ r.end \in Nat
    BY <1>3, AddressAssumption DEF Addresses
  <2>2. QED BY <1>2, <2>1 DEF OrderErrors
<1>6. ~(r.cidr.lo \in V6)
  BY <1>2 DEF FamilyErrors
<1>7. QED BY <1>3, <1>4, <1>5, <1>6 DEF Usable

-----------------------------------------------------------------------------
(* The ranges of a spec are a sequence of ranges: FlattenSeq by induction  *)
(* on the number of sequences, which is in terms of a least counterexample *)
(* since the induction theorems take operators.                            *)

(* A non-empty set of naturals has a least element.                        *)
LEMMA LeastElement ==
    ASSUME NEW T \in SUBSET Nat, T # {}
    PROVE  \E x \in T : \A y \in T : x <= y
  <1>1. IsWellFoundedOn({ss \in Nat \X Nat : ss[1] < ss[2]}, Nat)
    BY NatLessThanWellFounded DEF OpToRel
  <1>2. PICK x \in T : \A y \in T : ~ (<<y, x>> \in {ss \in Nat \X Nat : ss[1] < ss[2]})
    BY <1>1, WFMin
  <1>3. \A y \in T : ~ (y < x)
    BY <1>2
  <1> QED
    BY <1>3

(* Flattening sequences over T gives a sequence over T.                     *)
LEMMA FlattenType ==
    ASSUME NEW T, NEW ss \in Seq(Seq(T))
    PROVE  FlattenSeq(ss) \in Seq(T)
  <1> DEFINE N == Len(ss)
             Upto(f, i) == IF i = 1 THEN ss[i] ELSE f[i - 1] \o ss[i]
             Part(n, f) == f \in [1 .. n -> Seq(T)] /\ \A i \in 1 .. n : f[i] = Upto(f, i)
             Bad == {n \in 0 .. N : ~ \E f : Part(n, f)}
             flatten == CHOOSE f : f = [i \in 1 .. N |-> Upto(f, i)]
  <1>0. N \in Nat /\ \A i \in 1 .. N : ss[i] \in Seq(T)
    BY LenProperties, ElementOfSeq
  <1>1. Bad = {}
    <2> SUFFICES ASSUME Bad # {} PROVE FALSE
      OBVIOUS
    <2>1. PICK n \in Bad : \A m \in Bad : n <= m
      <3>1. Bad \in SUBSET Nat
        BY <1>0
      <3> HIDE DEF Bad
      <3> QED
        BY <3>1, LeastElement
    <2>2. n # 0
      <3>1. Part(0, [i \in 1 .. 0 |-> <<>>])
        OBVIOUS
      <3> QED
        BY <3>1
    <2>3. n \in 1 .. N /\ n - 1 \in 0 .. N /\ n - 1 \notin Bad
      <3>1. n \in 0 .. N
        OBVIOUS
      <3> HIDE DEF Bad
      <3> QED
        BY <1>0, <2>1, <2>2, <3>1
    <2>4. PICK f : Part(n - 1, f)
      BY <2>3
    <2> DEFINE g == [i \in 1 .. n |-> IF i < n THEN f[i] ELSE Upto(f, n)]
    <2>5. Upto(f, n) \in Seq(T)
      <3>1. CASE n = 1
        BY <1>0, <2>3, <3>1
      <3>2. CASE n # 1
        <4>1. f[n - 1] \in Seq(T) /\ ss[n] \in Seq(T)
          BY <1>0, <2>3, <2>4, <3>2
        <4> QED
          BY <3>2, <4>1, ConcatProperties
      <3> QED
        BY <3>1, <3>2
    <2>6. g \in [1 .. n -> Seq(T)]
      <3> HIDE DEF Upto
      <3>1. \A i \in 1 .. n : i < n => i \in 1 .. (n - 1)
        BY <2>3
      <3> QED
        BY <2>3, <2>4, <2>5, <3>1
    <2>7. \A i \in 1 .. n : g[i] = Upto(g, i)
      <3> SUFFICES ASSUME NEW i \in 1 .. n PROVE g[i] = Upto(g, i)
        OBVIOUS
      <3>1. Upto(g, i) = Upto(f, i)
        BY <2>3
      <3>2. g[i] = Upto(f, i)
        <4> HIDE DEF Upto
        <4>1. i < n => i \in 1 .. (n - 1)
          BY <2>3
        <4>2. ~ (i < n) => i = n
          BY <2>3
        <4> QED
          BY <2>4, <4>1, <4>2
      <3> QED
        BY <3>1, <3>2
    <2>8. Part(n, g)
      BY <2>6, <2>7
    <2> QED
      BY <2>1, <2>8
  <1>2. PICK f : Part(N, f)
    <2> HIDE DEF Part
    <2> QED
      BY <1>0, <1>1
  <1>3. f = [i \in 1 .. N |-> Upto(f, i)]
    BY <1>2
  <1>4. flatten = [i \in 1 .. N |-> Upto(flatten, i)]
    BY <1>3
  <1> HIDE DEF flatten
  <1>5. \A i \in 1 .. N : flatten[i] \in Seq(T)
    <2> DEFINE Wrong == {i \in 1 .. N : flatten[i] \notin Seq(T)}
    <2> SUFFICES ASSUME Wrong # {} PROVE FALSE
      OBVIOUS
    <2>1. PICK n \in Wrong : \A m \in Wrong : n <= m
      <3>1. Wrong \in SUBSET Nat
        BY <1>0
      <3> HIDE DEF Wrong
      <3> QED
        BY <3>1, LeastElement
    <2>2. CASE n = 1
      BY <1>0, <1>4, <2>1, <2>2
    <2>3. CASE n # 1
      <3>1. n - 1 \in 1 .. N /\ n - 1 \notin Wrong
        BY <1>0, <2>1, <2>3
      <3>2. flatten[n - 1] \in Seq(T) /\ ss[n] \in Seq(T)
        BY <1>0, <2>1, <3>1
      <3>3. flatten[n] = flatten[n - 1] \o ss[n]
        BY <1>4, <2>1, <2>3
      <3> QED
        BY <2>1, <3>2, <3>3, ConcatProperties
    <2> QED
      BY <2>2, <2>3
  <1>6. CASE N = 0
    <2>1. ss = <<>>
      BY <1>6, EmptySeq
    <2> QED
      BY <1>6, <2>1 DEF FlattenSeq
  <1>7. CASE N # 0
    <2>1. FlattenSeq(ss) = flatten[N]
      BY <1>7 DEF FlattenSeq, flatten
    <2> QED
      BY <1>0, <1>5, <1>7, <2>1
  <1> QED
    BY <1>6, <1>7

-----------------------------------------------------------------------------
(* What holds of the manifest in every state: it is a spec, and the verdict *)
(* on it is that of the validation.                                        *)

ConductorType == [group : Groups, ranges : Seq(Ranges)]
RPCType == RPCTransports \cup {Unset, "tcp"}
ConductorsType == Seq(ConductorType)
InspectorType == Seq(Ranges)
ManifestType == [rpc : RPCType, standalone : BOOLEAN, agents : {0, 1},
                 foreign : SUBSET TopologyRefs,
                 conductors : ConductorsType, inspector : InspectorType]

ValidatedInv ==
    /\ manifest \in ManifestType
    /\ verdict = "admitted" => Errors(manifest) = {}
    /\ verdict = "refused" => Errors(Defaulted(manifest)) # {}

LEMMA ValidatedInit == Init => ValidatedInv
<1> SUFFICES ASSUME Init PROVE ValidatedInv
  OBVIOUS
<1> DEFINE c == [group |-> Unset, ranges |-> <<>>]
<1>1. <<>> \in Seq(Ranges)
  OBVIOUS
<1>2. c \in ConductorType
  BY <1>1, GroupAssumption DEF ConductorType
<1>3. \A x \in ConductorType : <<x>> \in Seq(ConductorType)
  OBVIOUS
<1>4. <<c>> \in Seq(ConductorType)
  BY <1>2, <1>3, Zenon
<1> HIDE DEF c
<1>5. manifest = [rpc |-> Unset, standalone |-> FALSE, agents |-> 1, foreign |-> {},
                  conductors |-> <<c>>, inspector |-> <<>>] /\ verdict = "none"
  BY Zenon DEF Init, c
<1>6. manifest \in ManifestType
  BY <1>1, <1>4, <1>5 DEF ManifestType, RPCType, ConductorsType, InspectorType
<1>7. QED BY <1>5, <1>6 DEF ValidatedInv

(* A step that only changes the manifest, to another of its type.          *)
LEMMA Edited == ASSUME manifest' \in ManifestType, verdict' = "none"
                PROVE  ValidatedInv'
BY DEF ValidatedInv

LEMMA ValidatedStep == ValidatedInv /\ [Next]_vars => ValidatedInv'
<1> SUFFICES ASSUME ValidatedInv, [Next]_vars PROVE ValidatedInv'
  OBVIOUS
<1>0. /\ manifest \in ManifestType
      /\ manifest.conductors \in Seq(ConductorType) /\ manifest.inspector \in Seq(Ranges)
  BY DEF ValidatedInv, ManifestType, ConductorsType, InspectorType
<1>1. CASE Edit
  <2>1. /\ \A x \in RPCType : [manifest EXCEPT !.rpc = x] \in ManifestType
        /\ \A x \in BOOLEAN : [manifest EXCEPT !.standalone = x] \in ManifestType
        /\ \A x \in SUBSET TopologyRefs : [manifest EXCEPT !.foreign = x] \in ManifestType
        /\ \A x \in {0, 1} : [manifest EXCEPT !.agents = x] \in ManifestType
    BY <1>0 DEF ManifestType
  <2>2. (~manifest.standalone) \in BOOLEAN
    OBVIOUS
  <2>3. manifest' \in ManifestType
    BY <1>1, <2>1, <2>2 DEF Edit, RPCType
  <2>4. QED BY <1>1, <2>3, Edited DEF Edit
<1>2. CASE AddConductor
  <2>1. PICK g \in Groups : manifest' = [manifest EXCEPT
           !.conductors = Append(manifest.conductors, [group |-> g, ranges |-> <<>>])]
    BY <1>2 DEF AddConductor
  <2>2. [group |-> g, ranges |-> <<>>] \in ConductorType
    BY DEF ConductorType
  <2>3. \A x \in ConductorType : Append(manifest.conductors, x) \in Seq(ConductorType)
    BY <1>0
  <2>4. Append(manifest.conductors, [group |-> g, ranges |-> <<>>]) \in Seq(ConductorType)
    BY <2>2, <2>3, Zenon
  <2>5. manifest' \in ManifestType
    BY <1>0, <2>1, <2>4 DEF ManifestType, ConductorsType
  <2>6. QED BY <1>2, <2>5, Edited DEF AddConductor
<1>3. CASE RemoveConductors
  <2>1. <<>> \in Seq(ConductorType)
    OBVIOUS
  <2>2. manifest' \in ManifestType
    BY <1>0, <1>3, <2>1 DEF RemoveConductors, ManifestType, ConductorsType
  <2>3. QED BY <1>3, <2>2, Edited DEF RemoveConductors
<1>4. CASE AddRange
  <2>1. PICK r \in Ranges :
           \/ manifest' = [manifest EXCEPT !.inspector = Append(@, r)]
           \/ \E i \in DOMAIN manifest.conductors :
                 manifest' = [manifest EXCEPT !.conductors[i].ranges = Append(@, r)]
    BY <1>4 DEF AddRange
  <2>2. CASE manifest' = [manifest EXCEPT !.inspector = Append(@, r)]
    <3>1. Append(manifest.inspector, r) \in Seq(Ranges)
      BY <1>0
    <3>2. manifest' \in ManifestType
      BY <1>0, <2>2, <3>1 DEF ManifestType, InspectorType
    <3>3. QED BY <1>4, <3>2, Edited DEF AddRange
  <2>3. ASSUME NEW i \in DOMAIN manifest.conductors,
               manifest' = [manifest EXCEPT !.conductors[i].ranges = Append(@, r)]
        PROVE  ValidatedInv'
    <3> DEFINE c == manifest.conductors[i]
               d == [c EXCEPT !.ranges = Append(c.ranges, r)]
    <3>1. c \in ConductorType
      BY <1>0
    <3>2. Append(c.ranges, r) \in Seq(Ranges)
      BY <3>1 DEF ConductorType
    <3>3. d \in ConductorType
      BY <3>1, <3>2 DEF ConductorType
    <3>4. \A x \in ConductorType :
             [manifest.conductors EXCEPT ![i] = x] \in Seq(ConductorType)
      BY <1>0
    <3>5. [manifest.conductors EXCEPT ![i] = d] \in Seq(ConductorType)
      BY <3>3, <3>4, Zenon
    <3>6. manifest' = [manifest EXCEPT !.conductors =
                          [manifest.conductors EXCEPT ![i] = d]]
      BY <2>3
    <3> HIDE DEF d
    <3>7. manifest' \in ManifestType
      BY <1>0, <3>5, <3>6 DEF ManifestType, ConductorsType
    <3>8. QED BY <1>4, <3>7, Edited DEF AddRange
  <2>4. QED BY <2>1, <2>2, <2>3
<1>5. CASE Admit
  <2>1. manifest' = Defaulted(manifest) /\ Errors(Defaulted(manifest)) = {}
    BY <1>5 DEF Admit
  <2>2. Defaulted(manifest) \in ManifestType
    BY <1>0 DEF Defaulted, ManifestType, RPCType, RPCTransports
  <2>3. Errors(manifest)' = {}
    BY <2>1
  <2>4. verdict' = "admitted"
    BY <1>5 DEF Admit
  <2>5. QED BY <2>1, <2>2, <2>3, <2>4 DEF ValidatedInv
<1>6. CASE Refuse
  <2>1. manifest' = manifest /\ verdict' = "refused" /\ Errors(Defaulted(manifest)) # {}
    BY <1>6 DEF Refuse
  <2>2. QED BY <1>0, <2>1 DEF ValidatedInv
<1>7. CASE UNCHANGED vars
  <2>1. manifest' = manifest /\ verdict' = verdict
    BY <1>7 DEF vars
  <2>2. QED BY <2>1 DEF ValidatedInv
<1>8. QED BY <1>1, <1>2, <1>3, <1>4, <1>5, <1>6, <1>7 DEF Next

(* Where groups differ in more than case, the conductors of an admitted CR *)
(* have sub-CRs and ready counts of their own, however many there are.     *)
THEOREM AdmittedConductorsDistinct ==
    ASSUME \A g, h \in Groups : LowerCase[g] = LowerCase[h] => g = h
    PROVE  Spec => []ConductorsDistinct
<1>1. ValidatedInv => ConductorsDistinct
  <2> SUFFICES ASSUME ValidatedInv, verdict = "admitted",
                      NEW i \in DOMAIN manifest.conductors,
                      NEW j \in DOMAIN manifest.conductors, i # j
               PROVE  /\ ConductorName(manifest.conductors[i].group)
                           # ConductorName(manifest.conductors[j].group)
                      /\ ReadyCountKey(manifest.conductors[i].group)
                           # ReadyCountKey(manifest.conductors[j].group)
    BY DEF ConductorsDistinct
  <2>1. /\ i \in Nat /\ j \in Nat /\ 1 <= i /\ 1 <= j
        /\ manifest.conductors[i].group \in Groups
        /\ manifest.conductors[j].group \in Groups
    <3>1. manifest.conductors \in Seq(ConductorType)
      BY DEF ValidatedInv, ManifestType, ConductorsType
    <3>2. DOMAIN manifest.conductors \subseteq Nat \ {0}
      BY <3>1
    <3>3. manifest.conductors[i] \in ConductorType /\ manifest.conductors[j] \in ConductorType
      BY <3>1
    <3>4. QED BY <3>2, <3>3 DEF ConductorType
  <2>2. GroupKey(manifest.conductors[i].group) # GroupKey(manifest.conductors[j].group)
    <3>1. DuplicateGroups(manifest) = {}
      <4>1. "group" \notin SpecErrors(manifest)
        BY Zenon DEF ValidatedInv, Errors
      <4>2. QED BY <4>1 DEF SpecErrors
    <3>2. CASE i < j
      <4>1. i \in 1..(j - 1)
        BY <2>1, <3>2
      <4>2. QED BY <3>1, <4>1 DEF DuplicateGroups
    <3>3. CASE j < i
      <4>1. j \in 1..(i - 1)
        BY <2>1, <3>3
      <4>2. QED BY <3>1, <4>1 DEF DuplicateGroups
    <3>4. QED BY <2>1, <3>2, <3>3
  <2>3. QED BY <2>1, <2>2 DEF GroupKey, ReadyCountKey, ConductorName
<1>2. QED BY <1>1, ValidatedInit, ValidatedStep, PTL DEF Spec

-----------------------------------------------------------------------------
(* DHCP ranges of a spec.                                                  *)

(* The ranges of a spec are ranges users write.                            *)
LEMMA AllRangesType ==
    ASSUME NEW spec \in ManifestType
    PROVE  AllRanges(spec) \in Seq(Ranges)
<1>1. spec.inspector \in Seq(Ranges) /\ spec.conductors \in Seq(ConductorType)
  BY DEF ManifestType, ConductorsType, InspectorType
<1> DEFINE parts == [i \in DOMAIN spec.conductors |-> spec.conductors[i].ranges]
<1>2. parts \in Seq(Seq(Ranges))
  <2>1. /\ Len(spec.conductors) \in Nat
        /\ DOMAIN spec.conductors = 1 .. Len(spec.conductors)
        /\ \A i \in 1 .. Len(spec.conductors) : spec.conductors[i] \in ConductorType
    BY <1>1, LenProperties, ElementOfSeq
  <2>2. \A i \in 1 .. Len(spec.conductors) : spec.conductors[i].ranges \in Seq(Ranges)
    BY <2>1 DEF ConductorType
  <2>3. parts \in [1 .. Len(spec.conductors) -> Seq(Ranges)]
    BY <2>1, <2>2
  <2> HIDE DEF parts
  <2>4. QED BY <2>1, <2>3, SeqDef
<1> HIDE DEF parts
<1>3. FlattenSeq(parts) \in Seq(Ranges)
  BY <1>2, FlattenType
<1>4. spec.inspector \o FlattenSeq(parts) \in Seq(Ranges)
  BY <1>1, <1>3, ConcatProperties
<1>5. QED BY <1>4 DEF AllRanges, parts

(* So each of them is a DHCP range, at a positive index.                   *)
LEMMA EachRange ==
    ASSUME NEW spec \in ManifestType, NEW i \in DOMAIN AllRanges(spec)
    PROVE  /\ AllRanges(spec)[i] \in DHCPRange
           /\ i \in 1 .. Len(AllRanges(spec)) /\ Len(AllRanges(spec)) \in Nat
<1>1. AllRanges(spec) \in Seq(Ranges)
  BY AllRangesType
<1> DEFINE rs == AllRanges(spec)
<1> HIDE DEF rs
<1>2. rs \in Seq(Ranges) /\ i \in DOMAIN rs
  BY <1>1 DEF rs
<1>3. rs[i] \in Ranges /\ i \in 1 .. Len(rs) /\ Len(rs) \in Nat
  BY <1>2, LenProperties, ElementOfSeq
<1>4. QED BY <1>3, RangeAssumption DEF rs

(* A spec without errors has none of any kind.                             *)
LEMMA NoErrors ==
    ASSUME NEW spec
    PROVE  Errors(spec) = {} <=>
             SpecErrors(spec) = {} /\ \A i \in DOMAIN AllRanges(spec) :
                                         RangeErrors(AllRanges(spec)[i]) = {}
BY Zenon DEF Errors

(* Whatever a user writes, an admitted CR has only ranges whose prefix     *)
(* parses, and those that have a gateway dnsmasq can serve.                *)
THEOREM GatewayRangesAlwaysUsable == Spec => []GatewayRangesUsable
<1>1. ValidatedInv => GatewayRangesUsable
  <2> SUFFICES ASSUME ValidatedInv, verdict = "admitted",
                      NEW i \in DOMAIN AllRanges(manifest)
               PROVE  /\ AllRanges(manifest)[i].cidr # Unparsable
                      /\ AllRanges(manifest)[i].gateway # NoGateway
                            => Usable(AllRanges(manifest)[i])
    BY Zenon DEF GatewayRangesUsable, MasksKnown
  <2> DEFINE r == AllRanges(manifest)[i]
  <2>1. r \in DHCPRange
    BY EachRange DEF ValidatedInv
  <2>2. RangeErrors(r) = {}
    BY NoErrors, Zenon DEF ValidatedInv
  <2> HIDE DEF r
  <2>3. r.cidr # Unparsable
    BY <2>2 DEF RangeErrors, ParseErrors
  <2>4. r.gateway # NoGateway => Usable(r)
    BY <2>1, <2>2, AdmittedRangeUsable
  <2>5. QED BY <2>3, <2>4 DEF r
<1>2. QED BY <1>1, ValidatedInit, ValidatedStep, PTL DEF Spec

(* The converse of AdmittedRangeUsable: a usable range has no errors.      *)
LEMMA UsablePasses ==
    ASSUME NEW r \in DHCPRange, Usable(r)
    PROVE  RangeErrors(r) = {} /\ Ordered(r)
<1>1. /\ r.cidr \in Cidrs /\ r.start \in Addresses /\ r.end \in Addresses
      /\ r.gateway \in Addresses \cup {NoGateway} /\ r.start < r.end
  BY DEF Usable
<1>2. ParseErrors(r) = {}
  BY <1>1, AddressAssumption DEF ParseErrors
<1>3. r.start \in Nat /\ r.end \in Nat
  BY <1>1, AddressAssumption DEF Addresses
<1>4. CASE r.gateway = NoGateway
  BY <1>1, <1>2, <1>3, <1>4 DEF RangeErrors, Ordered
<1>5. CASE r.gateway # NoGateway
  <2>1. r.start # NoGateway /\ r.end # NoGateway
    BY <1>1, AddressAssumption
  <2>2. InCidr(r.cidr, r.start) /\ InCidr(r.cidr, r.end) /\ InCidr(r.cidr, r.gateway)
    BY <1>5, <2>1 DEF Usable
  <2>3. OutsideErrors(r) = {}
    BY <2>2 DEF OutsideErrors
  <2>4. r.cidr.lo \notin V6
    BY <1>5 DEF Usable
  <2>5. FamilyErrors(r) = {}
    BY <2>2, <2>4 DEF FamilyErrors, InCidr
  <2>6. OrderErrors(r) = {}
    BY <1>1, <1>3 DEF OrderErrors
  <2>7. QED BY <1>1, <1>2, <1>3, <2>3, <2>5, <2>6 DEF RangeErrors, Ordered
<1>6. QED BY <1>4, <1>5

(* A CR the operator can deploy has no error once it is defaulted.         *)
LEMMA DeployablePasses ==
    ASSUME NEW spec \in ManifestType, Deployable(spec)
    PROVE  Errors(Defaulted(spec)) = {}
<1> DEFINE d == Defaulted(spec)
<1>1. /\ d.rpc = (IF spec.rpc = Unset THEN "json-rpc" ELSE spec.rpc)
      /\ d.conductors = spec.conductors /\ d.inspector = spec.inspector
      /\ d.standalone = spec.standalone /\ d.agents = spec.agents
      /\ d.foreign = spec.foreign
  BY DEF Defaulted, ManifestType
<1>2. AllRanges(d) = AllRanges(spec)
  BY <1>1 DEF AllRanges
<1> HIDE DEF d
<1>3. \A i \in DOMAIN AllRanges(spec) :
         /\ RangeErrors(AllRanges(spec)[i]) = {} /\ Ordered(AllRanges(spec)[i])
  <2> SUFFICES ASSUME NEW i \in DOMAIN AllRanges(spec)
               PROVE  /\ RangeErrors(AllRanges(spec)[i]) = {}
                      /\ Ordered(AllRanges(spec)[i])
    OBVIOUS
  <2>1. AllRanges(spec)[i] \in DHCPRange
    BY EachRange
  <2>2. Usable(AllRanges(spec)[i])
    BY DEF Deployable
  <2>3. QED BY <2>1, <2>2, UsablePasses
<1>4. ~RangesOverlap(d)
  <2> SUFFICES ASSUME RangesOverlap(d) PROVE FALSE
    OBVIOUS
  <2> DEFINE rs == AllRanges(spec)
  <2>1. PICK last, before \in DOMAIN rs :
            before < last /\ StartEndOverlap(rs[last], rs[before])
    BY <1>2, Zenon DEF RangesOverlap
  <2>2. Pool(rs[last]) \cap Pool(rs[before]) # {}
    BY <1>3, <2>1, OverlapExact, Zenon
  <2>3. last # before
    BY <2>1, EachRange
  <2>4. QED BY <2>2, <2>3 DEF Deployable, Disjoint
<1>5. DuplicateGroups(d) = {}
  <2> SUFFICES ASSUME NEW i \in DOMAIN spec.conductors, NEW j \in 1 .. (i - 1),
                      GroupKey(spec.conductors[j].group)
                        = GroupKey(spec.conductors[i].group)
               PROVE  FALSE
    BY <1>1 DEF DuplicateGroups
  <2>1. DOMAIN spec.conductors = 1 .. Len(spec.conductors) /\ Len(spec.conductors) \in Nat
    BY LenProperties DEF ManifestType, ConductorsType
  <2>2. j \in DOMAIN spec.conductors /\ j # i
    BY <2>1
  <2>3. QED BY <2>2 DEF Deployable
<1>6. SpecErrors(d) = {}
  <2>1. d.rpc \in RPCTransports
    BY <1>1 DEF Deployable, RPCTransports
  <2>2. /\ d.conductors # <<>> /\ ~ForeignTopology(d)
        /\ ~(d.standalone /\ d.agents > 0)
    BY <1>1 DEF Deployable, ForeignTopology
  <2>3. QED BY <1>4, <1>5, <2>1, <2>2, Zenon DEF SpecErrors
<1>7. QED BY <1>2, <1>3, <1>6, NoErrors, Zenon DEF d

(* However many conductors and ranges a CR has, a refused one has a fault. *)
THEOREM AlwaysRefusedForCause == Spec => []RefusedForCause
<1>1. ValidatedInv => RefusedForCause
  BY DeployablePasses DEF ValidatedInv, RefusedForCause
<1>2. QED BY <1>1, ValidatedInit, ValidatedStep, PTL DEF Spec

(* The last pair is the only pair: the ranges of an admitted CR that has   *)
(* two at most hand out no address twice, with a gateway or without.  The  *)
(* run WebhookOverlap shows what three can do.                             *)
THEOREM TwoRangesDisjoint ==
    Spec => [](Len(AllRanges(manifest)) <= 2 => RangesDisjoint)
<1>1. ValidatedInv => (Len(AllRanges(manifest)) <= 2 => RangesDisjoint)
  <2> DEFINE rs == AllRanges(manifest)
             Parses(i) == Unparsable \notin {rs[i].start, rs[i].end}
  <2> SUFFICES ASSUME ValidatedInv, Len(rs) <= 2, verdict = "admitted",
                      NEW i \in DOMAIN rs, NEW j \in DOMAIN rs, i # j,
                      NEW x \in Pool(rs[i]), x \in Pool(rs[j])
               PROVE  FALSE
    BY Zenon DEF RangesDisjoint, Disjoint
  <2>1. /\ i \in 1 .. Len(rs) /\ j \in 1 .. Len(rs) /\ Len(rs) \in Nat
        /\ rs[i] \in DHCPRange /\ rs[j] \in DHCPRange
        /\ \A k \in DOMAIN rs : k \in 1 .. Len(rs)
    BY EachRange DEF ValidatedInv
  <2>2. Parses(i) /\ Parses(j)
    BY DEF Pool
  <2>3. Ordered(rs[i]) /\ Ordered(rs[j])
    <3> SUFFICES ASSUME NEW r \in DHCPRange, x \in Pool(r),
                        Unparsable \notin {r.start, r.end}
                 PROVE  Ordered(r)
      BY <2>1, <2>2
    <3>1. r.start \in Addresses /\ r.end \in Addresses
      BY DEF DHCPRange
    <3>2. x \in Addresses /\ r.start <= x /\ x <= r.end
      BY DEF Pool
    <3>3. r.start \in Nat /\ r.end \in Nat /\ x \in Nat
      BY <3>1, <3>2, AddressAssumption DEF Addresses
    <3>4. QED BY <3>1, <3>2, <3>3 DEF Ordered
  <2>4. StartEndOverlap(rs[i], rs[j]) /\ StartEndOverlap(rs[j], rs[i])
    BY <2>3, OverlapExact
  <2>5. RangesOverlap(manifest)
    <3> DEFINE parsed == {k \in DOMAIN rs : Parses(k)}
    <3>1. i \in parsed /\ j \in parsed
      BY <2>2
    <3>2. \A k \in parsed : k = i \/ k = j
      BY <2>1
    <3>3. CASE i < j
      BY <2>1, <2>4, <3>1, <3>2, <3>3 DEF RangesOverlap
    <3>4. CASE j < i
      BY <2>1, <2>4, <3>1, <3>2, <3>4 DEF RangesOverlap
    <3>5. QED BY <2>1, <3>3, <3>4
  <2>6. "overlap" \in Errors(manifest)
    BY <2>5, Zenon DEF Errors, SpecErrors
  <2>7. QED BY <2>6 DEF ValidatedInv
<1>2. QED BY <1>1, ValidatedInit, ValidatedStep, PTL DEF Spec
=============================================================================
