---------------------------- MODULE MCTxNotifier ----------------------------
(***************************************************************************)
(* Instances of TxNotifier for TLC.                                          *)
(***************************************************************************)
EXTENDS TxNotifier

CONSTANTS c1, c2

Watches(request, clients, confs, mined, reorgs, faults) ==
    [request |-> request, clients |-> clients, confs |-> (c1 :> 1) @@ (c2 :> confs),
     maxMined |-> mined, maxReorgs |-> reorgs, maxFaults |-> faults]

\* Two clients of one confirmation that ask for different depths and two of one spend,
\* with a reorganisation; one client with a restart or a rescan that fails as well.
MCScenarios ==
    {Watches("conf", {c1, c2}, 2, 3, 1, 0), Watches("spend", {c1, c2}, 1, 2, 1, 0),
     Watches("conf", {c2}, 2, 3, 2, 1), Watches("spend", {c2}, 1, 3, 1, 1)}
=============================================================================
