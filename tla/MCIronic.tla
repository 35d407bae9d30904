------------------------------ MODULE MCIronic ------------------------------
(* Small instances of Ironic for TLC.                                      *)
EXTENDS Ironic, TLC

NoConductors == <<>>
OneConductor == <<"conductor-a">>

(* FairSpec from deployments without a notifications bus, on one of the    *)
(* transport Secrets, which are interchangeable (liveness takes no         *)
(* SYMMETRY).                                                              *)
InitOnOneBus ==
    /\ Init /\ ~spec.bus
    /\ tu["main"] \in {NoSecret, CHOOSE s \in TransportSecrets : TRUE}
FairSpecOnOneBus == InitOnOneBus /\ [][Next]_vars /\ Fairness

SecretSymmetry == UNION {Permutations(SecretsOf[k]) : k \in DOMAIN SecretsOf}
=============================================================================
