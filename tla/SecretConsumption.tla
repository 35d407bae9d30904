--------------------------- MODULE SecretConsumption ---------------------------
(***************************************************************************)
(* What a controller promises about the Secrets of one bus, whichever      *)
(* steps it takes: a Secret is protected before it is rendered, and        *)
(* released only when it is neither rendered nor loaded by a pod.  Once    *)
(* the CR is being deleted nothing is promised.  NeutronAgent and          *)
(* Inspector implement it for the transport Secret.                        *)
(***************************************************************************)
CONSTANTS Secrets, NoSecret

VARIABLES
    held,       \* Secrets with the controller's consumer finalizer
    rendered,   \* the Secret config-data was rendered from
    used,       \* Secrets the running pods have loaded
    retired     \* has the CR been deleted?

vars == <<held, rendered, used, retired>>

Needed == ({rendered} \cup used) \ {NoSecret}

Init == held = {} /\ rendered = NoSecret /\ used = {} /\ retired = FALSE

Protect ==
    /\ ~retired
    /\ \E s \in Secrets : held' = held \cup {s}
    /\ UNCHANGED <<rendered, used, retired>>

Render ==
    /\ ~retired
    /\ rendered' \in held
    /\ UNCHANGED <<held, used, retired>>

(* Pods start, stop and restart: they load what is rendered by then.       *)
Load ==
    /\ ~retired
    /\ used' \in SUBSET (used \cup {rendered})
    /\ UNCHANGED <<held, rendered, retired>>

Release ==
    /\ ~retired
    /\ held' \in SUBSET held /\ held \ held' \subseteq Secrets \ Needed
    /\ UNCHANGED <<rendered, used, retired>>

Retire == ~retired /\ retired' = TRUE /\ UNCHANGED <<held, rendered, used>>
Retired ==
    /\ retired /\ UNCHANGED retired
    /\ held' \in SUBSET Secrets /\ rendered' \in Secrets \cup {NoSecret}
    /\ used' \in SUBSET (Secrets \cup {NoSecret})

Next == Protect \/ Render \/ Load \/ Release \/ Retire \/ Retired

Spec == Init /\ [][Next]_vars

(* Whatever a pod has loaded, or would load if it started now, is held.    *)
NeededHeld == ~retired => Needed \subseteq held
=============================================================================
