--------------------------- MODULE HtlcForwarding ---------------------------
(***************************************************************************)
(* One node that forwards HTLCs from an incoming to an outgoing channel:    *)
(* htlcswitch/link.go at both ends, htlcswitch/mailbox.go between the switch  *)
(* and the links, and the forwarding half of htlcswitch/switch.go.            *)
(*                                                                           *)
(* What survives a restart is the forwarding packages, the circuits and the   *)
(* signed commitments; the mailboxes, the unsigned updates and every packet   *)
(* on its way to the switch do not.  A link that stops loses only its own     *)
(* unsigned updates and the packets it was handing over.  The circuit map      *)
(* is taken at its word (CircuitMap is its own module): each of its            *)
(* operations is one step here, on disk and in memory.                         *)
(***************************************************************************)
EXTENDS Integers, FiniteSets

CONSTANTS
    Htlc,           \* the HTLCs that arrive, each in a forwarding package
    MaxRestarts,    \* bound: restarts of the node
    MaxFlaps        \* bound: times either link stops

ASSUME ForwardingAssumption ==
    /\ IsFiniteSet(Htlc) /\ Htlc # {}
    /\ MaxRestarts \in Nat /\ MaxFlaps \in Nat

VARIABLES
    add,            \* add[h]: the Add in its forwarding package, on disk
    ans,            \* ans[h]: the signed answer to the incoming HTLC, on disk
    unsent,         \* HTLCs answered in a signed commitment not yet sent, on disk
    circuit,        \* circuit[h]: "none", "half" or "open", on disk
    keystone,       \* keystone[h]: the outgoing index an open circuit names
    out,            \* out[h]: the outgoing HTLC; "logged" only in memory
    idx,            \* idx[h]: its index in the outgoing channel
    refAcked,       \* SettleFailFilter: answers the outgoing package is rid of
    loaded,         \* circuits restored from disk by the last restart
    closed,         \* circuits an answer is on its way through
    inLog,          \* inLog[h]: the answer in the incoming link's update log
    cursor,         \* cursor[h]: what the incoming link is doing with the Add
    addBox,         \* addBox[h]: the Add in the outgoing link's mailbox
    replyBox,       \* replyBox[h]: the answer in the incoming link's mailbox
    plex,           \* answers waiting for the switch to take them
    pendingSettleFails, \* references the switch will acknowledge
    inUp, outUp,    \* whether each link runs
    revealed,       \* history: HTLCs whose preimage the next node has sent
    lost,           \* history: Adds routeAsync gave up since the last restart
    restarts, flaps

disk == <<add, ans, unsent, circuit, keystone, out, idx, refAcked>>
memory == <<loaded, closed, inLog, cursor, addBox, replyBox, plex,
            pendingSettleFails, inUp, outUp>>
history == <<revealed, lost, restarts, flaps>>
vars == <<disk, memory, history>>

Responses == {"settle", "fail"}

\* An answer on its way to the switch: of the outgoing HTLC "htlc", handed over
\* by the outgoing link, by reforwardResponses, or by the mailbox that failed
\* the Add (hasSource); ref says whether it names its forwarding package.
Packet == [htlc : Htlc, res : Responses, ref : BOOLEAN,
           from : {"link", "switch", "mailbox"}]
Pkt(h, res, ref, from) == [htlc |-> h, res |-> res, ref |-> ref, from |-> from]

NoReply == [res |-> "none", ref |-> FALSE, at |-> "none"]
Reply == [res : Responses, ref : BOOLEAN, at : {"queued", "delivered"}] \union {NoReply}

TypeOK ==
    /\ add \in [Htlc -> {"absent", "locked", "processed", "acked"}]
    /\ ans \in [Htlc -> {"none"} \union Responses]
    /\ unsent \subseteq Htlc
    /\ circuit \in [Htlc -> {"none", "half", "open"}]
    /\ keystone \in [Htlc -> 0..Cardinality(Htlc) - 1]
    /\ out \in [Htlc -> {"none", "logged", "signed", "fulfilling", "settled", "failed"}]
    /\ idx \in [Htlc -> 0..Cardinality(Htlc) - 1]
    /\ refAcked \subseteq Htlc /\ loaded \subseteq Htlc /\ closed \subseteq Htlc
    /\ inLog \in [Htlc -> {"none"} \union Responses]
    /\ cursor \in [Htlc -> {"none", "process", "commit", "route"}]
    /\ addBox \in [Htlc -> {"none", "queued", "delivered"}]
    /\ replyBox \in [Htlc -> Reply]
    /\ plex \subseteq Packet
    /\ pendingSettleFails \subseteq Htlc
    /\ inUp \in BOOLEAN /\ outUp \in BOOLEAN
    /\ revealed \subseteq Htlc /\ lost \subseteq Htlc
    /\ restarts \in 0..MaxRestarts /\ flaps \in 0..MaxFlaps

Init ==
    /\ add = [h \in Htlc |-> "absent"]
    /\ ans = [h \in Htlc |-> "none"]
    /\ unsent = {}
    /\ circuit = [h \in Htlc |-> "none"]
    /\ keystone = [h \in Htlc |-> 0]
    /\ out = [h \in Htlc |-> "none"]
    /\ idx = [h \in Htlc |-> 0]
    /\ refAcked = {} /\ loaded = {} /\ closed = {}
    /\ inLog = [h \in Htlc |-> "none"]
    /\ cursor = [h \in Htlc |-> "none"]
    /\ addBox = [h \in Htlc |-> "none"]
    /\ replyBox = [h \in Htlc |-> NoReply]
    /\ plex = {} /\ pendingSettleFails = {}
    /\ inUp = TRUE /\ outUp = TRUE
    /\ revealed = {} /\ lost = {}
    /\ restarts = 0 /\ flaps = 0

----------------------------------------------------------------------------
(* Mailboxes and the circuit map, as functions of their state. *)

\* AddPacket of the mailbox of the incoming link: refused while an answer to the
\* same HTLC is in the box, delivered or not.
AddReply(h, res, ref) ==
    replyBox' = [replyBox EXCEPT ![h] =
        IF @ = NoReply THEN [res |-> res, ref |-> ref, at |-> "queued"] ELSE @]

\* ResetPackets: what was delivered and not acknowledged is delivered again.
ResetAdds(box) == [h \in Htlc |-> IF box[h] = "delivered" THEN "queued" ELSE box[h]]
ResetReplies(box) ==
    [h \in Htlc |-> IF box[h].at = "delivered" THEN [box[h] EXCEPT !.at = "queued"]
                    ELSE box[h]]

\* The outgoing HTLCs in a signed commitment, and the unsigned ones in the log.
Signed == {h \in Htlc : out[h] \notin {"none", "logged"}}
Logged == {h \in Htlc : out[h] = "logged"}

\* The first index that no signed commitment of the outgoing channel uses.
NextLocalHtlcIndex == Cardinality(Signed)

\* TrimOpenCircuits: keystones of indexes that no commitment uses are removed.
Trimmed == [h \in Htlc |->
    IF circuit[h] = "open" /\ keystone[h] >= NextLocalHtlcIndex THEN "half"
    ELSE circuit[h]]

\* The open circuit with this outgoing index.
LookupOpenCircuit(k) == {h \in Htlc : circuit[h] = "open" /\ keystone[h] = k}

DeleteCircuits(H) ==
    /\ circuit' = [h \in Htlc |-> IF h \in H THEN "none" ELSE circuit[h]]
    /\ closed' = closed \ H
    /\ loaded' = loaded \ H

----------------------------------------------------------------------------
(* The incoming link takes Adds. *)

InIdle == inUp /\ unsent = {} /\ \A h \in Htlc : cursor[h] = "none"

\* A revocation locks the Add in: the forwarding package is stored.
LockIn(h) ==
    /\ InIdle /\ add[h] = "absent"
    /\ add' = [add EXCEPT ![h] = "locked"]
    /\ cursor' = [cursor EXCEPT ![h] = "process"]
    /\ UNCHANGED <<ans, unsent, circuit, keystone, out, idx, refAcked>>
    /\ UNCHANGED <<loaded, closed, inLog, addBox, replyBox, plex,
                   pendingSettleFails, inUp, outUp>>
    /\ UNCHANGED history

\* processRemoteAdds: the decision to forward is stored before the packet is
\* handed to the switch, unless its answer is already waiting for this link.
ProcessRemoteAdd(h) ==
    /\ inUp /\ unsent = {} /\ cursor[h] = "process"
    /\ \A g \in Htlc : cursor[g] \notin {"commit", "route"}
    /\ add' = [add EXCEPT ![h] = "processed"]
    /\ cursor' = [cursor EXCEPT ![h] = IF replyBox[h] = NoReply THEN "commit" ELSE "none"]
    /\ UNCHANGED <<ans, unsent, circuit, keystone, out, idx, refAcked>>
    /\ UNCHANGED <<loaded, closed, inLog, addBox, replyBox, plex,
                   pendingSettleFails, inUp, outUp>>
    /\ UNCHANGED history

\* What CommitCircuits does with the circuit of an Add.
CircuitAction(h) ==
    IF circuit[h] = "none" THEN "add"
    ELSE IF circuit[h] = "open" \/ h \notin loaded THEN "drop"
    ELSE "fail"

\* ForwardPackets: the circuit is stored, then the Add is routed, dropped or
\* failed.
CommitCircuits(h) ==
    /\ inUp /\ cursor[h] = "commit"
    /\ LET action == CircuitAction(h)
       IN /\ circuit' = [circuit EXCEPT ![h] = IF @ = "none" THEN "half" ELSE @]
          /\ cursor' = [cursor EXCEPT ![h] = IF action = "add" THEN "route" ELSE "none"]
          /\ IF action = "fail" THEN AddReply(h, "fail", FALSE) ELSE UNCHANGED replyBox
    /\ UNCHANGED <<add, ans, unsent, keystone, out, idx, refAcked>>
    /\ UNCHANGED <<loaded, closed, inLog, addBox, plex, pendingSettleFails, inUp, outUp>>
    /\ UNCHANGED history

\* The switch takes the Add: into the mailbox of the outgoing link, or, when the
\* link is gone or its policy refuses, back as a failure (failAddPacket).
HandlePacketForwardAdd(h) ==
    /\ cursor[h] = "route"
    /\ cursor' = [cursor EXCEPT ![h] = "none"]
    /\ \E accept \in BOOLEAN :
        IF accept /\ outUp
        THEN addBox' = [addBox EXCEPT ![h] = "queued"] /\ UNCHANGED replyBox
        ELSE AddReply(h, "fail", FALSE) /\ UNCHANGED addBox
    /\ UNCHANGED disk
    /\ UNCHANGED <<loaded, closed, inLog, plex, pendingSettleFails, inUp, outUp>>
    /\ UNCHANGED history

----------------------------------------------------------------------------
(* The outgoing link and its mailbox. *)

\* A bug: the expired packet stays in the box.
FailAddKept(h) ==
    /\ UNCHANGED addBox
    /\ plex' = plex \union {Pkt(h, "fail", FALSE, "mailbox")}

\* FailAdd: the packet leaves the box and a failure that knows its source goes
\* to the switch.
FailAdd(h) ==
    /\ addBox' = [addBox EXCEPT ![h] = "none"]
    /\ plex' = plex \union {Pkt(h, "fail", FALSE, "mailbox")}

\* handleDownstreamUpdateAdd: the HTLC takes the next index of the log, or the
\* channel refuses it.
HandleDownstreamAdd(h) ==
    /\ outUp /\ addBox[h] = "queued"
    /\ \/ /\ addBox' = [addBox EXCEPT ![h] = "delivered"]
          /\ out' = [out EXCEPT ![h] = "logged"]
          /\ idx' = [idx EXCEPT ![h] = NextLocalHtlcIndex + Cardinality(Logged)]
          /\ UNCHANGED plex
       \/ FailAdd(h) /\ UNCHANGED <<out, idx>>
    /\ UNCHANGED <<add, ans, unsent, circuit, keystone, refAcked>>
    /\ UNCHANGED <<loaded, closed, inLog, cursor, replyBox, pendingSettleFails, inUp, outUp>>
    /\ UNCHANGED history

\* mailCourier: the deadline of an Add that the link has not taken passes.
ExpireAdd(h) ==
    /\ addBox[h] = "queued"
    /\ FailAdd(h)
    /\ UNCHANGED disk
    /\ UNCHANGED <<loaded, closed, inLog, cursor, replyBox, pendingSettleFails, inUp, outUp>>
    /\ UNCHANGED history

\* updateCommitTx, first half: the keystones of the logged Adds are stored.
OpenCircuits ==
    /\ outUp
    /\ \E h \in Logged : circuit[h] = "half"
    /\ circuit' = [h \in Htlc |-> IF h \in Logged THEN "open" ELSE circuit[h]]
    /\ keystone' = [h \in Htlc |-> IF h \in Logged THEN idx[h] ELSE keystone[h]]
    /\ UNCHANGED <<add, ans, unsent, out, idx, refAcked, memory, history>>

\* A bug: the commitment is signed before the keystones are stored.
ReadyToSign == Logged # {}

\* The keystones of a batch are on disk before its commitment is signed.
KeystonesStored == Logged # {} /\ \A h \in Logged : circuit[h] = "open"

\* updateCommitTx, second half, when the revocation window is open: the signed
\* commitment is stored and the Adds leave the mailbox.
SignOutgoing ==
    /\ outUp /\ KeystonesStored
    /\ out' = [h \in Htlc |-> IF h \in Logged THEN "signed" ELSE out[h]]
    /\ addBox' = [h \in Htlc |-> IF h \in Logged THEN "none" ELSE addBox[h]]
    /\ UNCHANGED <<add, ans, unsent, circuit, keystone, idx, refAcked>>
    /\ UNCHANGED <<loaded, closed, inLog, cursor, replyBox, plex,
                   pendingSettleFails, inUp, outUp>>
    /\ UNCHANGED history

\* The next node sends update_fulfill_htlc: the settle goes to the switch before
\* it is locked in, without a reference to a forwarding package.
ReceiveFulfill(h) ==
    /\ outUp /\ out[h] = "signed"
    /\ out' = [out EXCEPT ![h] = "fulfilling"]
    /\ revealed' = revealed \union {h}
    /\ plex' = plex \union {Pkt(h, "settle", FALSE, "link")}
    /\ UNCHANGED <<add, ans, unsent, circuit, keystone, idx, refAcked>>
    /\ UNCHANGED <<loaded, closed, inLog, cursor, addBox, replyBox,
                   pendingSettleFails, inUp, outUp>>
    /\ UNCHANGED <<lost, restarts, flaps>>

\* A revocation locks the settle or the fail in (processRemoteSettleFails).
LockInResponse(h) ==
    /\ outUp
    /\ \E res \in Responses :
        /\ \/ res = "settle" /\ out[h] = "fulfilling"
           \/ res = "fail" /\ out[h] = "signed" /\ h \notin revealed
        /\ out' = [out EXCEPT ![h] = IF res = "settle" THEN "settled" ELSE "failed"]
        /\ plex' = plex \union {Pkt(h, res, TRUE, "link")}
    /\ UNCHANGED <<add, ans, unsent, circuit, keystone, idx, refAcked>>
    /\ UNCHANGED <<loaded, closed, inLog, cursor, addBox, replyBox,
                   pendingSettleFails, inUp, outUp>>
    /\ UNCHANGED history

----------------------------------------------------------------------------
(* Answers through the switch. *)

\* ErrCircuitClosing.
Closing(h) == h \in closed

\* handlePacketForward of a settle or fail, with closeCircuit: the circuit is
\* found by its incoming key when the packet has its source, else by its
\* outgoing key; the first answer closes it and goes to the mailbox of the
\* incoming link, the others are dropped; the reference of an answer without a
\* circuit is acknowledged later.
HandlePacketForwardResponse(p) ==
    /\ p \in plex
    /\ plex' = plex \ {p}
    /\ LET found == IF p.from = "mailbox" THEN {h \in {p.htlc} : circuit[h] # "none"}
                    ELSE LookupOpenCircuit(idx[p.htlc])
       IN IF found = {}
          THEN /\ pendingSettleFails' = IF p.ref THEN pendingSettleFails \union {p.htlc}
                                        ELSE pendingSettleFails
               /\ UNCHANGED <<closed, replyBox>>
          ELSE \E h \in found :
               /\ UNCHANGED pendingSettleFails
               /\ IF Closing(h) THEN UNCHANGED <<closed, replyBox>>
                  ELSE closed' = closed \union {h} /\ AddReply(h, p.res, p.ref)
    /\ UNCHANGED disk
    /\ UNCHANGED <<loaded, inLog, cursor, addBox, inUp, outUp>>
    /\ UNCHANGED history

\* AckEventTicker.
AckSettleFails ==
    /\ pendingSettleFails # {}
    /\ refAcked' = refAcked \union pendingSettleFails
    /\ pendingSettleFails' = {}
    /\ UNCHANGED <<add, ans, unsent, circuit, keystone, out, idx>>
    /\ UNCHANGED <<loaded, closed, inLog, cursor, addBox, replyBox, plex, inUp, outUp>>
    /\ UNCHANGED history

----------------------------------------------------------------------------
(* The incoming link answers. *)

\* handleDownstreamPkt of a settle or fail: into the update log, or, when the
\* HTLC is already answered, cleanupSpuriousResponse.
HandleDownstreamResponse(h) ==
    /\ InIdle /\ replyBox[h].at = "queued"
    /\ IF ans[h] = "none"
       THEN /\ inLog' = [inLog EXCEPT ![h] = replyBox[h].res]
            /\ replyBox' = [replyBox EXCEPT ![h].at = "delivered"]
            /\ UNCHANGED <<circuit, closed, loaded, refAcked>>
       ELSE /\ replyBox' = [replyBox EXCEPT ![h] = NoReply]
            /\ refAcked' = IF replyBox[h].ref THEN refAcked \union {h} ELSE refAcked
            /\ DeleteCircuits({h})
            /\ UNCHANGED inLog
    /\ UNCHANGED <<add, ans, unsent, keystone, out, idx>>
    /\ UNCHANGED <<cursor, addBox, plex, pendingSettleFails, inUp, outUp>>
    /\ UNCHANGED history

\* SignNextCommitment of the incoming channel: one transaction stores the
\* commitment, acknowledges the Adds it answers and the references of the
\* answers.
SignIncoming ==
    LET answered == {h \in Htlc : inLog[h] # "none"}
    IN /\ InIdle /\ answered # {}
       /\ ans' = [h \in Htlc |-> IF h \in answered THEN inLog[h] ELSE ans[h]]
       /\ add' = [h \in Htlc |-> IF h \in answered THEN "acked" ELSE add[h]]
       /\ refAcked' = refAcked \union {h \in answered : replyBox[h].ref}
       /\ inLog' = [h \in Htlc |-> "none"]
       /\ unsent' = answered
       /\ UNCHANGED <<circuit, keystone, out, idx>>
       /\ UNCHANGED <<loaded, closed, cursor, addBox, replyBox, plex,
                      pendingSettleFails, inUp, outUp>>
       /\ UNCHANGED history

\* ackDownStreamPackets, then the signature is sent: the circuits of the answered
\* HTLCs are deleted before their answers leave the mailbox.  A link that starts
\* with an unsent signature does the same (syncChanStates).
AckDownStreamPackets ==
    /\ inUp /\ unsent # {}
    /\ DeleteCircuits(unsent)
    /\ replyBox' = [h \in Htlc |-> IF h \in unsent THEN NoReply ELSE replyBox[h]]
    /\ unsent' = {}
    /\ UNCHANGED <<add, ans, keystone, out, idx, refAcked>>
    /\ UNCHANGED <<inLog, cursor, addBox, plex, pendingSettleFails, inUp, outUp>>
    /\ UNCHANGED history

----------------------------------------------------------------------------
(* Links stop and start, the node restarts. *)

\* Stop of the incoming link; it ends no handler half-way but routeAsync, which
\* gives up the Add it was handing over.
StopIncoming ==
    /\ inUp /\ unsent = {} /\ flaps < MaxFlaps
    /\ inUp' = FALSE
    /\ flaps' = flaps + 1
    /\ lost' = lost \union {h \in Htlc : cursor[h] = "route"}
    /\ cursor' = [h \in Htlc |-> "none"]
    /\ inLog' = [h \in Htlc |-> "none"]
    /\ replyBox' = ResetReplies(replyBox)
    /\ UNCHANGED disk
    /\ UNCHANGED <<loaded, closed, addBox, plex, pendingSettleFails, outUp>>
    /\ UNCHANGED <<revealed, restarts>>

\* A bug: the link resolves only the packages it had not processed.
UnprocessedAdds == {h \in Htlc : add[h] = "locked"}

\* resolveFwdPkgs: every Add of a package that is not fully acknowledged.
UnackedAdds == {h \in Htlc : add[h] \in {"locked", "processed"}}

\* A bug: the sync forgets the circuits closed by an unsent commitment.
StartIncomingForgets ==
    /\ ~inUp /\ inUp' = TRUE
    /\ cursor' = [h \in Htlc |-> IF h \in UnackedAdds THEN "process" ELSE "none"]
    /\ unsent' = {}
    /\ UNCHANGED <<add, ans, circuit, keystone, out, idx, refAcked>>
    /\ UNCHANGED <<loaded, closed, inLog, addBox, replyBox, plex, pendingSettleFails, outUp>>
    /\ UNCHANGED history

\* Start of the incoming link, with the sync that finds an unsent commitment and
\* the packages to resolve.
StartIncoming ==
    /\ ~inUp /\ inUp' = TRUE
    /\ cursor' = [h \in Htlc |-> IF h \in UnackedAdds THEN "process" ELSE "none"]
    /\ UNCHANGED disk
    /\ UNCHANGED <<loaded, closed, inLog, addBox, replyBox, plex, pendingSettleFails, outUp>>
    /\ UNCHANGED history

\* Stop of the outgoing link: its unsigned updates are forgotten, its mailbox
\* delivers again, and the answers it was handing over may be given up.
StopOutgoing ==
    /\ outUp /\ flaps < MaxFlaps
    /\ outUp' = FALSE
    /\ flaps' = flaps + 1
    /\ out' = [h \in Htlc |-> CASE out[h] = "logged" -> "none"
                                [] out[h] = "fulfilling" -> "signed"
                                [] OTHER -> out[h]]
    /\ addBox' = ResetAdds(addBox)
    /\ \E taken \in {{p \in plex : p.from = "link"}, {}} : plex' = plex \ taken
    /\ UNCHANGED <<add, ans, unsent, circuit, keystone, idx, refAcked>>
    /\ UNCHANGED <<loaded, closed, inLog, cursor, replyBox, pendingSettleFails, inUp>>
    /\ UNCHANGED <<revealed, lost, restarts>>

\* The locked-in answers that no signed commitment has passed on.
UnackedResponses(from) ==
    {Pkt(h, IF out[h] = "settled" THEN "settle" ELSE "fail", TRUE, from) :
        h \in {g \in Htlc : out[g] \in {"settled", "failed"} /\ g \notin refAcked}}

\* Start of the outgoing link: TrimOpenCircuits, and the answers of its packages
\* again.
StartOutgoing ==
    /\ ~outUp /\ outUp' = TRUE
    /\ circuit' = Trimmed
    /\ plex' = plex \union UnackedResponses("link")
    /\ UNCHANGED <<add, ans, unsent, keystone, out, idx, refAcked>>
    /\ UNCHANGED <<loaded, closed, inLog, cursor, addBox, replyBox, pendingSettleFails, inUp>>
    /\ UNCHANGED history

\* The node stops anywhere and starts again: circuits are restored from disk and
\* trimmed, and reforwardResponses forwards the answers of every package.
Restart ==
    /\ restarts < MaxRestarts
    /\ restarts' = restarts + 1
    /\ inUp' = FALSE /\ outUp' = FALSE
    /\ out' = [h \in Htlc |-> CASE out[h] = "logged" -> "none"
                                [] out[h] = "fulfilling" -> "signed"
                                [] OTHER -> out[h]]
    /\ circuit' = Trimmed
    /\ loaded' = {h \in Htlc : circuit[h] # "none"}
    /\ closed' = {} /\ pendingSettleFails' = {} /\ lost' = {}
    /\ inLog' = [h \in Htlc |-> "none"]
    /\ cursor' = [h \in Htlc |-> "none"]
    /\ addBox' = [h \in Htlc |-> "none"]
    /\ replyBox' = [h \in Htlc |-> NoReply]
    /\ plex' = UnackedResponses("switch")
    /\ UNCHANGED <<add, ans, unsent, keystone, idx, refAcked>>
    /\ UNCHANGED <<revealed, flaps>>

----------------------------------------------------------------------------
Next ==
    \/ \E h \in Htlc :
        \/ LockIn(h) \/ ProcessRemoteAdd(h) \/ CommitCircuits(h)
        \/ HandlePacketForwardAdd(h)
        \/ HandleDownstreamAdd(h) \/ ExpireAdd(h)
        \/ ReceiveFulfill(h) \/ LockInResponse(h)
        \/ HandleDownstreamResponse(h)
    \/ \E p \in Packet : HandlePacketForwardResponse(p)
    \/ OpenCircuits \/ SignOutgoing \/ AckSettleFails
    \/ SignIncoming \/ AckDownStreamPackets
    \/ StopIncoming \/ StartIncoming \/ StopOutgoing \/ StartOutgoing
    \/ Restart

Spec == Init /\ [][Next]_vars

\* Every goroutine runs, links that stopped come back, the next node answers
\* and the deadline of a mailbox fires; nothing need break or arrive.
FairSpec ==
    /\ Spec
    /\ \A h \in Htlc :
        /\ WF_vars(ProcessRemoteAdd(h)) /\ WF_vars(CommitCircuits(h))
        /\ WF_vars(HandlePacketForwardAdd(h))
        /\ WF_vars(HandleDownstreamAdd(h)) /\ WF_vars(ExpireAdd(h))
        /\ WF_vars(ReceiveFulfill(h)) /\ WF_vars(LockInResponse(h))
        /\ WF_vars(HandleDownstreamResponse(h))
    /\ WF_vars(\E p \in Packet : HandlePacketForwardResponse(p))
    /\ WF_vars(OpenCircuits) /\ WF_vars(SignOutgoing)
    /\ WF_vars(SignIncoming) /\ WF_vars(AckDownStreamPackets)
    /\ WF_vars(StartIncoming) /\ WF_vars(StartOutgoing)

----------------------------------------------------------------------------
(* Properties. *)

\* What the two neighbours can see of each HTLC.
Incoming == [h \in Htlc |->
    CASE add[h] = "absent" -> "absent"
      [] ans[h] = "settle" -> "settled"
      [] ans[h] = "fail" -> "failed"
      [] OTHER -> "held"]
Outgoing == [h \in Htlc |->
    CASE h \in revealed -> "settled"
      [] out[h] = "failed" -> "failed"
      [] out[h] \in {"none", "logged"} -> "none"
      [] OTHER -> "offered"]

Relay == INSTANCE HtlcRelay WITH incoming <- Incoming, outgoing <- Outgoing

\* Through flaps of either link, restarts of the node, expiring mailboxes and
\* repeated answers, the node does only what HtlcRelay promises its neighbours:
\* each HTLC is offered on once, taken only with the preimage, and given back
\* only when the next node cannot take it any more.
Relays == Relay!RelaySpec

\* The answer to an HTLC in a signed outgoing commitment can be routed: while the
\* incoming HTLC has no signed answer, the open circuit under the outgoing index
\* is its own (OpenCircuits before SignNextCommitment, TrimOpenCircuits before
\* an index is used again).
AnswerHasCircuit ==
    \A h \in Signed : ans[h] = "none" => LookupOpenCircuit(idx[h]) = {h}

\* Once the commitment that answers an HTLC is sent, its circuit is gone: neither
\* a stop nor a restart between the signature and DeleteCircuits leaves it behind
\* (the circuits closed by an unsent commitment are found again by the sync).
AnsweredFreesCircuit ==
    \A h \in Htlc : ans[h] # "none" /\ h \notin unsent => circuit[h] = "none"

\* Every HTLC that is locked in is eventually answered, however often links flap
\* and the node restarts, unless its Add was given up in routeAsync by a link
\* that stopped after the circuit was stored; then it waits for the next restart.
EventuallyAnswered ==
    \A h \in Htlc : add[h] # "absent" ~> (ans[h] # "none" \/ h \in lost)
=============================================================================
