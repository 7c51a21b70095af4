------------------------- MODULE MCChannelArbitrator -------------------------
(***************************************************************************)
(* Instances of ChannelArbitrator for TLC.                                  *)
(***************************************************************************)
EXTENDS ChannelArbitrator

CONSTANTS o1, i1

Terms(place, dust, expiry, own, self) ==
    [place |-> place, dust |-> dust, expiry |-> expiry, own |-> own, self |-> self]

\* How far an outgoing HTLC is: offered, then on the peer's commitment, then on both,
\* and removed in the same order.
Stages == {{"pending"}, {"remote", "pending"}, {"remote", "pending", "local"}, {"remote"}}
Everywhere == Commitment

\* One outgoing HTLC at every stage, and without an output on either side.
OneOutgoing ==
    {Terms([h \in Htlc |-> IF h = o1 THEN p ELSE {}], [h \in Htlc |-> d],
           [h \in Htlc |-> 2], {}, FALSE) :
        <<p, d>> \in (Stages \X {{}})
            \union {<<Everywhere, {"local"}>>, <<Everywhere, {"remote", "pending"}>>}}
\* One of each direction, one that expires first, a payment of our own, none at all.
Others ==
    {Terms([h \in Htlc |-> Everywhere], [h \in Htlc |-> {}],
           [h \in Htlc |-> 2], {}, FALSE),
     Terms([h \in Htlc |-> IF h = o1 THEN Everywhere ELSE {}], [h \in Htlc |-> {}],
           [h \in Htlc |-> 2], {o1}, TRUE),
     Terms([h \in Htlc |-> {}], [h \in Htlc |-> {}], [h \in Htlc |-> 2], {}, FALSE)}
MCScenarios == OneOutgoing \union Others
Plain == {Terms([h \in Htlc |-> IF h = o1 THEN Everywhere ELSE {}], [h \in Htlc |-> {}],
                [h \in Htlc |-> 2], {}, TRUE)}
=============================================================================
