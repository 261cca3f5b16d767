--------------------------- MODULE MCBoundedFanOut ---------------------------
(* Four calls over two slots; two calls share a stop signal, one has its    *)
(* own, one has none.                                                       *)
EXTENDS BoundedFanOut
CONSTANTS r1, r2, r3, r4, s1, s2
MCRequests == {r1, r2, r3, r4}
MCSignals == {s1, s2}
MCSignalOf == [r \in MCRequests |->
                 CASE r \in {r1, r2} -> s1 [] r = r3 -> s2 [] OTHER -> NoSignal]
=============================================================================
