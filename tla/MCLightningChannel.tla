------------------------ MODULE MCLightningChannel ------------------------
(***************************************************************************)
(* Instances of LightningChannel for TLC.                                  *)
(***************************************************************************)
EXTENDS LightningChannel

CONSTANTS alice, bob

MCParty == {alice, bob}
MCBalance == (alice :> 2) @@ (bob :> 1)

Offer(fresh, ofAlice, ofBob, amounts, updates, fair) ==
    [fresh |-> fresh, fair |-> fair, amounts |-> amounts,
     maxHtlcs |-> (alice :> ofAlice) @@ (bob :> ofBob),
     feeRates |-> {2, 3}, maxFeeUpdates |-> updates]

\* Each party offers an HTLC and answers the other's.
OneEach == Offer(TRUE, 1, 1, {1}, 0, FALSE)
\* Two fee updates around an HTLC, in a channel that has been used before.
TwoFees == Offer(FALSE, 1, 0, {1}, 2, FALSE)
\* Two HTLCs that together may exceed the balance.
TwoOfAlice == Offer(TRUE, 2, 0, {1, 2}, 0, FALSE)
\* One HTLC and its answer, under fairness.
OneOfAlice == Offer(TRUE, 1, 0, {1}, 0, TRUE)
Overdraft == Offer(TRUE, 2, 0, {2}, 0, FALSE)

MCScenarios == {OneEach, TwoFees, TwoOfAlice, OneOfAlice}
StuckScenarios == {OneOfAlice}
AssetScenarios == {Overdraft}
=============================================================================
