---------------------------- MODULE SecretConsumer ----------------------------
(***************************************************************************)
(* The consumer-finalizer helpers of lib-common's object package, modelled *)
(* from how the controllers under src/internal/controller use them.  A     *)
(* consumer finalizer on a Secret keeps the producer (infra-operator for   *)
(* transport URLs, keystone-operator for application credentials) from     *)
(* deleting the Secret and revoking the credential behind it.              *)
(*                                                                         *)
(* `fin' is the set of Secrets of the namespace that carry one particular  *)
(* finalizer.  NoSecret is the empty secret name (and the nil pointer of   *)
(* the optional status fields, which every caller reads as "").            *)
(***************************************************************************)
CONSTANT NoSecret

(* ManageSecretConsumerFinalizer: put the finalizer on the named Secret.   *)
Manage(fin, s) == fin \cup ({s} \ {NoSecret})

(* RemoveSecretConsumerFinalizer: take it off the named Secret, if there.  *)
Remove(fin, s) == fin \ {s}

(* FinalizeSecretRotation: there is nothing to finalize when no Secret was *)
(* tracked or the tracked one is still current; otherwise the tracked one  *)
(* is released, and the current one tracked instead, only when `ready'.    *)
Rotating(old, current) == old # NoSecret /\ old # current
TrackedAfter(old, current, ready) ==
    IF Rotating(old, current) /\ ~ready THEN old ELSE current
FinAfter(fin, old, current, ready) ==
    IF Rotating(old, current) /\ ready THEN Remove(fin, old) ELSE fin

(* Mutant of Prune: the keep list is written as it is, empty names too.    *)
Prune_KeepList(fin, keep) == keep

(* PruneSecretConsumerFinalizers: take the finalizer off every Secret of   *)
(* the namespace that is not in the keep list.                             *)
Prune(fin, keep) == fin \cap keep
=============================================================================
