----------------------------- MODULE MCInspector -----------------------------
(* Small instances of Inspector for TLC.                                   *)
EXTENDS Inspector, TLC
CONSTANTS a1, a2, i1, i2, x1, x2

ASpec == [oslo |-> TRUE, bus |-> FALSE, standalone |-> FALSE,
          account |-> a1, image |-> i1, topo |-> None]

(* The notifications bus is switched on and off while Secrets rotate.      *)
BusSpecs == {[ASpec EXCEPT !.bus = b] : b \in BOOLEAN}

(* Another account with a notifications bus, another image, without        *)
(* Keystone, json-rpc, with a Topology; and from any of these to any other.*)
UpgradeSpecs ==
    {ASpec, [ASpec EXCEPT !.account = a2, !.bus = TRUE], [ASpec EXCEPT !.image = i2],
     [ASpec EXCEPT !.standalone = TRUE], [ASpec EXCEPT !.oslo = FALSE],
     [ASpec EXCEPT !.topo = x1]}

(* FairSpec from ASpec, the other specs being one edit away.               *)
InitFromA == Init /\ spec = ASpec
FairSpecFromA == InitFromA /\ [][Next]_vars /\ Fairness
=============================================================================
