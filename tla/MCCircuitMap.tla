---------------------------- MODULE MCCircuitMap ----------------------------
(* Instance of CircuitMap for TLC. *)
EXTENDS CircuitMap, TLC

CONSTANTS k1, k2, k3, h1, h2, p1, p2

MCInKeys == {k1, k2, k3}
MCOutChans == {1}
MCInChan == (k1 :> 2) @@ (k2 :> 0) @@ (k3 :> 2)
MCHashes == {h1, h2}
MCPaymentHash == (k1 :> h1) @@ (k2 :> h2) @@ (k3 :> h1)
MCCallers == {p1, p2}

\* The goroutines are interchangeable, and so are two HTLCs of one
\* hash and channel.
MCSymmetry == Permutations({p1, p2}) \cup Permutations({k1, k3})
=============================================================================
