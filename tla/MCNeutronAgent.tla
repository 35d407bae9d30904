----------------------------- MODULE MCNeutronAgent -----------------------------
(* Model values for NeutronAgent's Secrets. *)
EXTENDS NeutronAgent
=============================================================================
