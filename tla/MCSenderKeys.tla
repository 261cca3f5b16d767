---------------------------- MODULE MCSenderKeys ----------------------------
(* The sender keys on small instances: the constants are in the            *)
(* configurations.                                                         *)
EXTENDS SenderKeys

=============================================================================
