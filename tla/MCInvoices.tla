----------------------------- MODULE MCInvoices -----------------------------
(***************************************************************************)
(* Instances of Invoices for TLC.                                           *)
(***************************************************************************)
EXTENDS Invoices

CONSTANTS h1, h2

Each(n) == [h \in Htlc |-> n]
Terms(kind, amt, total) ==
    [kind |-> kind, value |-> 2, amt |-> amt, total |-> total]

\* A set of two, two HTLCs that each pay in full, and one of each.
Sets == {Terms(k, Each(1), Each(2)) : k \in {"regular", "hodl"}}
Singles == {Terms(k, Each(2), Each(0)) : k \in {"regular", "hodl", "swap"}}
Mixed == {Terms("regular", [h \in Htlc |-> IF h = h1 THEN 1 ELSE 2],
                           [h \in Htlc |-> IF h = h1 THEN 2 ELSE 0]),
          Terms("hodl", [h \in Htlc |-> IF h = h1 THEN 1 ELSE 2], Each(2))}
MCScenarios == Sets \union Singles \union Mixed

SwapOnly == {Terms("swap", Each(2), Each(0))}
=============================================================================
