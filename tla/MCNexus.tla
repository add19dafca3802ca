------------------------------ MODULE MCNexus -------------------------------
(* Nexus on a small instance. *)
EXTENDS Nexus
=============================================================================
