---------------------------- MODULE MCPodServices ----------------------------
(* A small instance of PodServices for TLC.                                *)
EXTENDS PodServices
=============================================================================
