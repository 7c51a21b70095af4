----------------------------- MODULE HtlcRelay -----------------------------
(***************************************************************************)
(* What a forwarding node promises about every HTLC it relays: it offers    *)
(* the HTLC on to the next node at most once and only while it holds the     *)
(* incoming one, it takes the incoming one only once it has been shown the    *)
(* preimage, it gives the incoming one back only when the next node can no    *)
(* longer take the outgoing one, and it does one of the two, once.            *)
(***************************************************************************)
CONSTANT Htlc

VARIABLES
    incoming,   \* incoming[h]: "absent", "held", "settled" or "failed"
    outgoing    \* outgoing[h]: "none", "offered", "settled" or "failed"

relayVars == <<incoming, outgoing>>

RelayInit ==
    /\ incoming = [h \in Htlc |-> "absent"]
    /\ outgoing = [h \in Htlc |-> "none"]

KeepIncoming(h) == incoming'[h] = incoming[h]
KeepOutgoing(h) == outgoing'[h] = outgoing[h]

\* The incoming HTLC is irrevocably committed.
Receive(h) ==
    incoming[h] = "absent" /\ incoming'[h] = "held" /\ KeepOutgoing(h)

\* The outgoing HTLC enters a commitment that the next node may publish.
Offer(h) ==
    /\ incoming[h] = "held" /\ KeepIncoming(h)
    /\ outgoing[h] = "none" /\ outgoing'[h] = "offered"

\* The next node reveals the preimage, or gives up the HTLC.
Resolve(h) ==
    /\ KeepIncoming(h)
    /\ outgoing[h] = "offered" /\ outgoing'[h] \in {"settled", "failed"}

SettleBack(h) ==
    /\ incoming[h] = "held" /\ incoming'[h] = "settled"
    /\ outgoing[h] = "settled" /\ KeepOutgoing(h)

FailBack(h) ==
    /\ incoming[h] = "held" /\ incoming'[h] = "failed"
    /\ outgoing[h] \in {"none", "failed"} /\ KeepOutgoing(h)

\* One signature covers several HTLCs, so a step may move each of them.
RelayNext ==
    \A h \in Htlc :
        \/ KeepIncoming(h) /\ KeepOutgoing(h)
        \/ Receive(h) \/ Offer(h) \/ Resolve(h) \/ SettleBack(h) \/ FailBack(h)

RelaySpec == RelayInit /\ [][RelayNext]_relayVars
=============================================================================
