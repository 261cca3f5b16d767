----------------------------- MODULE MCSpqrBraid -----------------------------
(* The braid on small instances: the constants are in the configurations.  *)
EXTENDS SpqrBraid

=============================================================================
