------------------------ MODULE SecretConsumptionProofs ------------------------
(***************************************************************************)
(* What the abstract promise amounts to: an invariant that every           *)
(* controller implementing SecretConsumption inherits.                     *)
(***************************************************************************)
EXTENDS SecretConsumption, TLAPS

(* No step takes a Secret away that a pod has loaded or would load: the    *)
(* releases leave out what is needed, and what comes to be needed is held. *)
LEMMA StepKeepsNeeded ==
    ASSUME NeededHeld, [Next]_vars
    PROVE  NeededHeld'
<1>1. CASE Protect
  BY <1>1 DEF Protect, NeededHeld, Needed
<1>2. CASE Render
  BY <1>2 DEF Render, NeededHeld, Needed
<1>3. CASE Load
  BY <1>3 DEF Load, NeededHeld, Needed
<1>4. CASE Release
  BY <1>4 DEF Release, NeededHeld, Needed
<1>5. CASE Retire
  BY <1>5 DEF Retire, NeededHeld
<1>6. CASE Retired
  BY <1>6 DEF Retired, NeededHeld
<1>7. CASE UNCHANGED vars
  BY <1>7 DEF vars, NeededHeld, Needed
<1> QED
  BY <1>1, <1>2, <1>3, <1>4, <1>5, <1>6, <1>7 DEF Next

(* A Secret that a pod has loaded, or that a pod starting now would load,  *)
(* carries the consumer finalizer for as long as the CR is not deleted.    *)
THEOREM NeededAlwaysHeld == Spec => []NeededHeld
<1>1. Init => NeededHeld
  BY DEF Init, NeededHeld, Needed
<1>2. NeededHeld /\ [Next]_vars => NeededHeld'
  BY StepKeepsNeeded
<1> QED
  BY <1>1, <1>2, PTL DEF Spec
=============================================================================
