-------------------------- MODULE MCSessionRatchet --------------------------
(* The ratchet on small instances: the constants are in the configurations. *)
EXTENDS SessionRatchet

=============================================================================
