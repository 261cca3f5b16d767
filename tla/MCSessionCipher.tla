--------------------------- MODULE MCSessionCipher ---------------------------
(* Session records on small instances: the constants are in the            *)
(* configurations.                                                         *)
EXTENDS SessionCipher

\* The two devices do the same.
Symmetry == Permutations(Parties)

=============================================================================
