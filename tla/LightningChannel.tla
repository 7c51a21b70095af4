------------------------- MODULE LightningChannel -------------------------
(***************************************************************************)
(* The commitment protocol of one channel: the state machine of             *)
(* lnwallet/channel.go, the channel record of channeldb/channel.go it        *)
(* writes, and the loop of htlcswitch/link.go that drives it, for both        *)
(* parties of the channel, over a connection that delivers in order until     *)
(* it breaks and then loses everything in flight.                             *)
(*                                                                           *)
(* When the connection breaks, or one of the nodes restarts, both parties      *)
(* forget their memory, rebuild it from disk and exchange                      *)
(* channel_reestablish.  A handler that writes to disk twice is two steps,     *)
(* so that a break may fall between the writes: todo[p] is what is left of     *)
(* the handler p is in.                                                        *)
(***************************************************************************)
EXTENDS ChannelLogs, SequencesExt

CONSTANTS
    Party,          \* the two ends of the channel
    Initiator,      \* the one that opened it and pays its fees
    Balance,        \* what each party owns at the start
    InitialFee,     \* the fee rate the channel was opened with
    Scenarios,      \* what the parties may do, see below
    MaxBreaks       \* bound: times the connection breaks

ASSUME ChannelAssumption ==
    /\ IsFiniteSet(Party) /\ Cardinality(Party) = 2 /\ Initiator \in Party
    /\ Balance \in [Party -> Nat] /\ InitialFee \in Nat /\ MaxBreaks \in Nat
    /\ \A s \in Scenarios :
        /\ s.fresh \in BOOLEAN
        /\ s.amounts \subseteq Nat \ {0} /\ s.feeRates \subseteq Nat
        /\ s.maxHtlcs \in [Party -> Nat] /\ s.maxFeeUpdates \in Nat
        /\ s.fair \in BOOLEAN

VARIABLES
    scenario,   \* the scenario, a constant of the behaviour
    disk,       \* disk[p]: p's record of the channel in the database
    mem,        \* mem[p]: p's LightningChannel
    link,       \* link[p]: "syncing", "up" or "failed"
    todo,       \* todo[p]: "none", "commitSig" or "revocation"
    net,        \* net[p]: messages on their way to p
    fault,      \* fault[p]: the error p's link failed with, or "none"
    fees,       \* fee updates so far
    breaks      \* connection breaks so far

vars == <<scenario, disk, mem, link, todo, net, fault, fees, breaks>>

Fresh == scenario.fresh                 \* no commitment exchanged since the opening
Amounts == scenario.amounts             \* amounts an HTLC may have
FeeRates == scenario.feeRates           \* fee rates the initiator may choose
MaxHtlcs == scenario.maxHtlcs           \* bound: HTLCs each party offers
MaxFeeUpdates == scenario.maxFeeUpdates \* bound: fee updates

Other(p) == CHOOSE q \in Party : q # p

----------------------------------------------------------------------------
(* Messages. *)

Msg(t, htlc, amt) == [type |-> t, htlc |-> htlc, amt |-> amt]
UpdateMsg(u) == Msg(u.type, u.htlc, u.amt)

\* What a signature covers: the commitment transaction of its owner.
Untyped(S) == {[htlc |-> h.htlc, amt |-> h.amt] : h \in S}
OwnTx(c) ==
    [height |-> c.height, owner |-> c.ourBalance, peer |-> c.theirBalance,
     feePerKw |-> c.feePerKw, ofOwner |-> Untyped(c.outgoing),
     ofPeer |-> Untyped(c.incoming)]
PeerTx(c) ==
    [height |-> c.height, owner |-> c.theirBalance, peer |-> c.ourBalance,
     feePerKw |-> c.feePerKw, ofOwner |-> Untyped(c.incoming),
     ofPeer |-> Untyped(c.outgoing)]

CommitSig(c) == [type |-> "CommitSig", tx |-> PeerTx(c)]
RevokeAndAck(height) == [type |-> "RevokeAndAck", height |-> height]
ChannelReestablish(d) ==
    [type |-> "ChannelReestablish",
     nextLocalCommitHeight |-> d.local.height + 1,
     remoteCommitTailHeight |-> d.remote.height]

Send(p, msgs) == net' = [net EXCEPT ![Other(p)] = @ \o msgs]
Deliver(p, t) == net[p] # <<>> /\ Head(net[p]).type = t
\* p takes its first message and answers with msgs.
Reply(p, msgs) ==
    net' = [net EXCEPT ![p] = Tail(@), ![Other(p)] = @ \o msgs]

----------------------------------------------------------------------------
(* Database transactions of channeldb/channel.go. *)

\* A bug: the signature is sent and the signed commitment is not stored.
AppendNothing(d, commit, updates) == [d EXCEPT !.lastWasRevoke = FALSE]

AppendRemoteCommitChain(d, commit, updates) ==
    [d EXCEPT !.lastWasRevoke = FALSE,
              !.pending = <<[commit |-> commit, updates |-> updates]>>]

\* A bug: the revocation is sent and the new local commitment is not stored.
UpdateNothing(d, commit, unsignedAcked) == [d EXCEPT !.lastWasRevoke = TRUE]

UpdateCommitment(d, commit, unsignedAcked) ==
    [d EXCEPT !.local = commit,
              !.unsignedAcked = unsignedAcked,
              !.ackedStored = TRUE,
              !.lastWasRevoke = TRUE,
              !.remoteUnsignedLocal =
                  {u \in @ : u.logIndex >= commit.ourMessageIndex}]

\* A bug: the acked updates that the new remote commitment covers stay on disk.
AdvanceKeepsAcked(d, pkg, localPeerUpdates) ==
    LET advanced == [d EXCEPT
            !.remote = d.pending[1].commit,
            !.pending = <<>>,
            !.fwdPkgs = {k \in @ : k.height # pkg.height} \union {pkg}]
    IN IF ~d.ackedStored THEN advanced
       ELSE [advanced EXCEPT !.remoteUnsignedLocal = localPeerUpdates]

\* While no unsigned acked updates were ever stored, the transaction ends
\* before it stores the local updates the peer has not signed.
AdvanceCommitChainTail(d, pkg, localPeerUpdates) ==
    LET commit   == d.pending[1].commit
        advanced == [d EXCEPT
            !.remote = commit,
            !.pending = <<>>,
            !.fwdPkgs = {k \in @ : k.height # pkg.height} \union {pkg}]
    IN IF ~d.ackedStored THEN advanced
       ELSE [advanced EXCEPT
                !.unsignedAcked = {u \in @ : u.logIndex >= commit.theirMessageIndex},
                !.remoteUnsignedLocal = localPeerUpdates]

----------------------------------------------------------------------------
(* Signing and revoking. *)

hasUnackedCommitment(chain) == Len(chain) = 2

NotSigned(m, d, err) == [err |-> err, mem |-> m, disk |-> d, msgs |-> <<>>]

\* The new commitment joins the remote chain, is stored and is sent.
Signed(d, view) ==
    [err  |-> "none",
     mem  |-> [view.mem EXCEPT !.remoteChain = Append(@, view.commit)],
     disk |-> AppendRemoteCommitChain(d, view.commit,
                                      createCommitDiff(view.mem, view.commit)),
     msgs |-> <<CommitSig(view.commit)>>]

\* SignNextCommitment, with the error it returns: all of our updates and those
\* of the peer that we have revoked for.
SignNextCommitment(m, d) ==
    LET acked == tail(m.localChain)
        Checked(view) == IF view.ok THEN Signed(d, view)
                         ELSE NotSigned(m, d, "ErrInternalError")
    IN IF hasUnackedCommitment(m.remoteChain) THEN NotSigned(m, d, "ErrNoWindow")
       ELSE IF ~validateCommitmentSanity(m, acked.theirMessageIndex,
                    m.localLog.logIndex, "remote", {}, {})
       THEN NotSigned(m, d, "ErrInternalError")
       ELSE Checked(fetchCommitmentView(m, "remote", m.localLog.logIndex,
                        m.localLog.htlcCounter, acked.theirMessageIndex,
                        acked.theirHtlcIndex))

\* ReceiveNewCommitment: the peer's signature must be for exactly the local
\* commitment this party computes for itself.
ReceiveNewCommitment(m, tx) ==
    LET acked == tail(m.remoteChain)
        Verified(view) ==
            [ok  |-> /\ validateCommitmentSanity(m, m.remoteLog.logIndex,
                            acked.ourMessageIndex, "local", {}, {})
                     /\ view.ok
                     /\ OwnTx(view.commit) = tx,
             mem |-> [view.mem EXCEPT !.localChain = Append(@, view.commit)]]
    IN Verified(fetchCommitmentView(m, "local", acked.ourMessageIndex,
                    acked.ourHtlcIndex, m.remoteLog.logIndex,
                    m.remoteLog.htlcCounter))

RevokeCurrentCommitment(m, d) ==
    LET Revoked(m2) ==
            [mem  |-> m2,
             disk |-> UpdateCommitment(d, tail(m2.localChain),
                                       getUnsignedAckedUpdates(m2)),
             msgs |-> <<RevokeAndAck(tail(m.localChain).height)>>]
    IN Revoked([m EXCEPT !.localChain = Tail(@)])

\* The peer's updates that may be forwarded, and the heights that decide it.
Unforwarded(m) == {e \in m.remoteLog.entries : e.type # "FeeUpdate" /\ ~e.forwarded}
Heights(e) == IF e.type = "Add" THEN e.add ELSE e.rm
Committed(e) == Heights(e)["remote"] > 0 /\ Heights(e)["local"] > 0

\* A bug: what an earlier tail locked in is forwarded again after a restart.
ToForwardLate(m) ==
    {e \in Unforwarded(m) :
        Committed(e) /\ tail(m.remoteChain).height + 1 >= Heights(e)["remote"]}

\* A bug: the local chain alone decides.
ToForwardEarly(m) ==
    {e \in Unforwarded(m) :
        /\ Heights(e)["local"] > 0
        /\ tail(m.localChain).height >= Heights(e)["local"]}

\* The updates that become irrevocable on both chains just when the remote
\* tail advances to the next height.
ToForward(m) ==
    {e \in Unforwarded(m) :
        /\ Committed(e)
        /\ tail(m.remoteChain).height + 1 = Heights(e)["remote"]
        /\ tail(m.localChain).height >= Heights(e)["local"]}

\* ReceiveRevocation.  The secret must be that of the remote tail, and a
\* commitment must be waiting to replace it.
ReceiveRevocation(m, d, height) ==
    LET fwd  == ToForward(m)
        remoteTail == tail(m.remoteChain).height + 1
        pkg  == [height |-> remoteTail,
                 adds |-> {e.htlc : e \in Adds(fwd)},
                 settleFails |-> {[htlc |-> e.htlc, type |-> e.type] : e \in fwd \ Adds(fwd)}]
        marked == [m.remoteLog EXCEPT !.entries =
                      {IF e \in fwd THEN [e EXCEPT !.forwarded = TRUE] ELSE e : e \in @}]
        peerUpdates == unsignedLocalUpdates(m, tip(m.remoteChain).ourMessageIndex,
                                            tail(m.localChain).ourMessageIndex)
        logs == compactLogs(m.localLog, marked, tail(m.localChain).height, remoteTail)
    IN [ok   |-> height = tail(m.remoteChain).height /\ d.pending # <<>>,
        mem  |-> [m EXCEPT !.localLog = logs.ours, !.remoteLog = logs.theirs,
                           !.remoteChain = Tail(@)],
        disk |-> AdvanceCommitChainTail(d, pkg, peerUpdates)]

----------------------------------------------------------------------------
(* The initial states: a channel just opened, or one in which the initiator *)
(* has changed the fee once and both sides have signed and revoked.          *)

FirstCommit(p, q) ==
    LET n == IF Fresh THEN 0 ELSE 1
    IN [height |-> n,
        ourMessageIndex |-> IF p = Initiator THEN n ELSE 0,
        theirMessageIndex |-> IF q = Initiator THEN n ELSE 0,
        ourHtlcIndex |-> 0, theirHtlcIndex |-> 0,
        ourBalance |-> Balance[p], theirBalance |-> Balance[q],
        feePerKw |-> InitialFee, outgoing |-> {}, incoming |-> {}]

FirstDisk(p) ==
    [local |-> FirstCommit(p, Other(p)), remote |-> FirstCommit(p, Other(p)),
     pending |-> <<>>, lastWasRevoke |-> ~Fresh /\ p = Initiator,
     unsignedAcked |-> {}, ackedStored |-> ~Fresh, remoteUnsignedLocal |-> {},
     fwdPkgs |-> {}]

Init ==
    /\ scenario \in Scenarios
    /\ disk = [p \in Party |-> FirstDisk(p)]
    /\ mem = [p \in Party |-> restoreCommitState(FirstDisk(p))]
    /\ link = [p \in Party |-> "up"]
    /\ todo = [p \in Party |-> "none"]
    /\ net = [p \in Party |-> <<>>]
    /\ fault = [p \in Party |-> "none"]
    /\ fees = 0
    /\ breaks = 0

----------------------------------------------------------------------------
(* The link's own steps. *)

Idle(p) == link[p] = "up" /\ todo[p] = "none"

\* l.fail: the link stops and reports the error.
Fail(p, reason) ==
    /\ fault' = [fault EXCEPT ![p] = reason]
    /\ link' = [link EXCEPT ![p] = "failed"]
    /\ todo' = [todo EXCEPT ![p] = "none"]

\* updateCommitTx, by a party whose memory is m.
updateCommitTx(p, m) ==
    \E s \in {SignNextCommitment(m, disk[p])} :
       /\ mem' = [mem EXCEPT ![p] = s.mem]
       /\ disk' = [disk EXCEPT ![p] = s.disk]
       /\ Send(p, s.msgs)
       /\ IF s.err \in {"none", "ErrNoWindow"}
          THEN todo' = [todo EXCEPT ![p] = "none"] /\ UNCHANGED <<link, fault>>
          ELSE Fail(p, s.err)

\* validateAddHtlc: nothing is checked for an asset.
validateAddHtlc(m, e) ==
    \/ Asset
    \/ /\ validateCommitmentSanity(m, tail(m.localChain).theirMessageIndex,
              m.localLog.logIndex, "remote", {e}, {})
       /\ validateCommitmentSanity(m, m.remoteLog.logIndex,
              m.localLog.logIndex, "local", {e}, {})

\* handleDownstreamUpdateAdd: an HTLC the switch gives to the link.
AddHTLC(p, amt) ==
    LET log == mem[p].localLog
        e   == Entry(LogUpdate("Add", log.logIndex, log.htlcCounter, amt),
                     NoHeight, NoHeight)
    IN /\ Idle(p)
       /\ log.htlcCounter < MaxHtlcs[p]
       /\ validateAddHtlc(mem[p], e)
       /\ mem' = [mem EXCEPT ![p].localLog = appendHtlc(@, e)]
       /\ Send(p, <<UpdateMsg(e)>>)
       /\ UNCHANGED <<disk, link, todo, fault, fees, breaks>>

LockedIn(d) == UNION {k.adds : k \in d.fwdPkgs}

\* SettleHTLC and FailHTLC: the answer to an HTLC the peer has locked in, from
\* the switch or from the invoice registry while a revocation is processed.
RemoveHTLC(p, htlc, t) ==
    LET parent == lookupHtlc(mem[p].remoteLog, htlc)
        e == Entry(LogUpdate(t, mem[p].localLog.logIndex, htlc, SumAmt(parent)),
                   NoHeight, NoHeight)
    IN /\ link[p] = "up" /\ todo[p] # "commitSig"
       /\ htlc \in LockedIn(disk[p])
       /\ parent # {}
       /\ htlc \notin mem[p].remoteLog.modified
       /\ mem' = [mem EXCEPT ![p].localLog = appendUpdate(@, e),
                             ![p].remoteLog = markHtlcModified(@, htlc)]
       /\ Send(p, <<UpdateMsg(e)>>)
       /\ UNCHANGED <<disk, link, todo, fault, fees, breaks>>

\* updateChannelFee, up to the signature that follows in the same handler.
UpdateFee(p, fee) ==
    LET e == Entry(LogUpdate("FeeUpdate", mem[p].localLog.logIndex, 0, fee),
                   NoHeight, NoHeight)
    IN /\ Idle(p)
       /\ p = Initiator
       /\ fees < MaxFeeUpdates
       /\ mem' = [mem EXCEPT ![p].localLog = appendUpdate(@, e)]
       /\ fees' = fees + 1
       /\ Send(p, <<UpdateMsg(e)>>)
       /\ todo' = [todo EXCEPT ![p] = "commitSig"]
       /\ UNCHANGED <<disk, link, fault, breaks>>

\* The batch ticker, which runs while local updates are pending.
BatchTick(p) ==
    /\ Idle(p)
    /\ PendingLocalUpdateCount(mem[p]) > 0
    /\ updateCommitTx(p, mem[p])
    /\ UNCHANGED <<fees, breaks>>

\* The end of the handlers of commit_sig and revoke_and_ack: sign if the peer
\* is owed a signature.
FinishHandler(p) ==
    /\ link[p] = "up" /\ todo[p] # "none"
    /\ IF oweCommitment(mem[p], TRUE) THEN updateCommitTx(p, mem[p])
       ELSE /\ todo' = [todo EXCEPT ![p] = "none"]
            /\ UNCHANGED <<disk, mem, link, net, fault>>
    /\ UNCHANGED <<fees, breaks>>

----------------------------------------------------------------------------
(* handleUpstreamMsg. *)

\* ReceiveHTLC.
ReceiveAdd(p) ==
    LET msg == Head(net[p])
        log == mem[p].remoteLog
        e   == Entry(LogUpdate("Add", log.logIndex, log.htlcCounter, msg.amt),
                     NoHeight, NoHeight)
    IN /\ Idle(p) /\ Deliver(p, "Add")
       /\ IF /\ msg.htlc = log.htlcCounter
             /\ validateCommitmentSanity(mem[p], log.logIndex,
                    tail(mem[p].remoteChain).ourMessageIndex, "local", {}, {e})
          THEN /\ mem' = [mem EXCEPT ![p].remoteLog = appendHtlc(@, e)]
               /\ UNCHANGED <<link, todo, fault>>
          ELSE Fail(p, "ErrInvalidUpdate") /\ UNCHANGED mem
       /\ Reply(p, <<>>)
       /\ UNCHANGED <<disk, fees, breaks>>

\* ReceiveHTLCSettle and ReceiveFailHTLC.
ReceiveRemoval(p) ==
    LET msg    == Head(net[p])
        parent == lookupHtlc(mem[p].localLog, msg.htlc)
        e == Entry(LogUpdate(msg.type, mem[p].remoteLog.logIndex, msg.htlc,
                             SumAmt(parent)), NoHeight, NoHeight)
    IN /\ Idle(p) /\ (Deliver(p, "Settle") \/ Deliver(p, "Fail"))
       /\ IF parent # {} /\ msg.htlc \notin mem[p].localLog.modified
          THEN /\ mem' = [mem EXCEPT ![p].remoteLog = appendUpdate(@, e),
                                     ![p].localLog = markHtlcModified(@, msg.htlc)]
               /\ UNCHANGED <<link, todo, fault>>
          ELSE Fail(p, "ErrInvalidUpdate") /\ UNCHANGED mem
       /\ Reply(p, <<>>)
       /\ UNCHANGED <<disk, fees, breaks>>

\* ReceiveUpdateFee.
ReceiveUpdateFee(p) ==
    LET msg == Head(net[p])
        e   == Entry(LogUpdate("FeeUpdate", mem[p].remoteLog.logIndex, 0, msg.amt),
                     NoHeight, NoHeight)
    IN /\ Idle(p) /\ Deliver(p, "FeeUpdate")
       /\ IF p # Initiator
          THEN /\ mem' = [mem EXCEPT ![p].remoteLog = appendUpdate(@, e)]
               /\ UNCHANGED <<link, todo, fault>>
          ELSE Fail(p, "ErrInvalidUpdate") /\ UNCHANGED mem
       /\ Reply(p, <<>>)
       /\ UNCHANGED <<disk, fees, breaks>>

\* commit_sig: verify it, revoke the old commitment, and sign in turn.
ReceiveCommitSig(p) ==
    /\ Idle(p) /\ Deliver(p, "CommitSig")
    /\ \E n \in {ReceiveNewCommitment(mem[p], Head(net[p]).tx)} :
          IF n.ok
          THEN /\ \E r \in {RevokeCurrentCommitment(n.mem, disk[p])} :
                     /\ mem' = [mem EXCEPT ![p] = r.mem]
                     /\ disk' = [disk EXCEPT ![p] = r.disk]
                     /\ Reply(p, r.msgs)
               /\ todo' = [todo EXCEPT ![p] = "commitSig"]
               /\ UNCHANGED <<link, fault>>
          ELSE /\ Fail(p, "ErrInvalidCommitment")
               /\ Reply(p, <<>>)
               /\ UNCHANGED <<mem, disk>>
    /\ UNCHANGED <<fees, breaks>>

\* revoke_and_ack: forward what is now locked in, and sign if owed.
ReceiveRevokeAndAck(p) ==
    /\ Idle(p) /\ Deliver(p, "RevokeAndAck")
    /\ \E r \in {ReceiveRevocation(mem[p], disk[p], Head(net[p]).height)} :
          IF r.ok
          THEN /\ mem' = [mem EXCEPT ![p] = r.mem]
               /\ disk' = [disk EXCEPT ![p] = r.disk]
               /\ todo' = [todo EXCEPT ![p] = "revocation"]
               /\ UNCHANGED <<link, fault>>
          ELSE Fail(p, "ErrInvalidRevocation") /\ UNCHANGED <<mem, disk>>
    /\ Reply(p, <<>>)
    /\ UNCHANGED <<fees, breaks>>

----------------------------------------------------------------------------
(* Reconnection. *)

\* The messages of the commit diff in the order of the log, and its signature.
\* The diff starts where the peer's commitment ends, without a gap: the restore
\* has checked it.
Retransmission(d) ==
    LET pend   == d.pending[1]
        Nth(i) == CHOOSE u \in pend.updates : u.logIndex = d.remote.ourMessageIndex + i - 1
    IN [i \in 1 .. Cardinality(pend.updates) |-> UpdateMsg(Nth(i))]
           \o <<CommitSig(pend.commit)>>

\* A bug: the peer is taken to have every revocation.
NeverOweRevocation(m, msg) == FALSE

\* The peer has not seen the revocation of our previous commitment.
OweRevocation(m, msg) ==
    msg.remoteCommitTailHeight + 1 = tail(m.localChain).height

\* Both are sent again in the order in which they were sent.
InOrder(d, revocation, commitUpdates) ==
    IF d.lastWasRevoke THEN commitUpdates \o revocation
    ELSE revocation \o commitUpdates

\* The messages to send again when the heights can be reconciled: sign is the
\* result of a signature added after the revocation, or of none.
Resync(m, d, msg, sign) ==
    LET revocation ==
            IF OweRevocation(m, msg)
            THEN <<RevokeAndAck(tail(m.localChain).height - 1)>> \o sign.msgs
            ELSE <<>>
    IN IF msg.nextLocalCommitHeight = tip(m.remoteChain).height
       THEN InOrder(d, revocation, Retransmission(d))
       ELSE revocation

\* ProcessChanSyncMsg: the messages to send again, and the memory and disk
\* after a signature it may add.
ProcessChanSyncMsg(m, d, msg) ==
    LET localTail == tail(m.localChain).height
        theirTail == msg.remoteCommitTailHeight
        theirNext == msg.nextLocalCommitHeight
        Result(sign) ==
            CASE sign.err # "none" -> [sign EXCEPT !.err = "ErrRecoveryError"]
              [] theirNext > tip(m.remoteChain).height + 1 ->
                    [sign EXCEPT !.err = "ErrCannotSyncCommitChains", !.msgs = <<>>]
              [] theirNext <= tail(m.remoteChain).height ->
                    [sign EXCEPT !.err = "ErrCommitSyncRemoteDataLoss", !.msgs = <<>>]
              [] OTHER -> [sign EXCEPT !.msgs = Resync(m, d, msg, sign)]
        NoWindow(sign) == IF sign.err = "ErrNoWindow" THEN NotSigned(m, d, "none")
                          ELSE sign
    IN CASE theirTail > localTail -> NotSigned(m, d, "ErrCommitSyncLocalDataLoss")
         [] theirTail + 1 < localTail -> NotSigned(m, d, "ErrCommitSyncRemoteDataLoss")
         [] OTHER ->
              Result(IF OweRevocation(m, msg) /\ oweCommitment(m, TRUE)
                     THEN NoWindow(SignNextCommitment(m, d))
                     ELSE NotSigned(m, d, "none"))

\* syncChanStates, with the peer's channel_reestablish.
ReceiveReestablish(p) ==
    /\ link[p] = "syncing"
    /\ Deliver(p, "ChannelReestablish")
    /\ \E r \in {ProcessChanSyncMsg(mem[p], disk[p], Head(net[p]))} :
          /\ Reply(p, r.msgs)
          /\ mem' = [mem EXCEPT ![p] = r.mem]
          /\ disk' = [disk EXCEPT ![p] = r.disk]
          /\ IF r.err = "none"
             THEN link' = [link EXCEPT ![p] = "up"] /\ UNCHANGED <<todo, fault>>
             ELSE Fail(p, r.err)
    /\ UNCHANGED <<fees, breaks>>

\* The connection breaks, or one of the nodes restarts: whatever is in flight is
\* lost, both sides load the channel anew and reestablish it.
Reconnect ==
    /\ breaks < MaxBreaks /\ UNCHANGED scenario
    /\ \A p \in Party : fault[p] = "none"
    /\ breaks' = breaks + 1
    /\ mem' = [p \in Party |-> restoreCommitState(disk[p])]
    /\ net' = [p \in Party |-> <<ChannelReestablish(disk[Other(p)])>>]
    /\ todo' = [p \in Party |-> "none"]
    /\ fault' = [p \in Party |-> IF RestoreFails(disk[p]) THEN "restore" ELSE "none"]
    /\ link' = [p \in Party |-> IF RestoreFails(disk[p]) THEN "failed" ELSE "syncing"]
    /\ UNCHANGED <<disk, fees>>

----------------------------------------------------------------------------
LinkStep(p) ==
    /\ \/ BatchTick(p)
       \/ FinishHandler(p)
       \/ ReceiveAdd(p)
       \/ ReceiveRemoval(p)
       \/ ReceiveUpdateFee(p)
       \/ ReceiveCommitSig(p)
       \/ ReceiveRevokeAndAck(p)
       \/ ReceiveReestablish(p)
    /\ UNCHANGED scenario

UserStep(p) ==
    /\ \/ \E amt \in Amounts : AddHTLC(p, amt)
       \/ \E htlc \in 0 .. MaxHtlcs[Other(p)] - 1, t \in {"Settle", "Fail"} :
              RemoveHTLC(p, htlc, t)
       \/ \E fee \in FeeRates : UpdateFee(p, fee)
    /\ UNCHANGED scenario

\* Nothing is left to do: no message, no handler, nothing owed.
QuietState ==
    \A p \in Party :
        /\ link[p] = "up" /\ todo[p] = "none" /\ net[p] = <<>>
        /\ ~oweCommitment(mem[p], TRUE)

Next ==
    \/ \E p \in Party : LinkStep(p) \/ UserStep(p)
    \/ Reconnect

Spec == Init /\ [][Next]_vars

\* The link's loop serves its channels; nobody has to send a payment.  Fairness is
\* assumed of the scenarios in which liveness is checked.
FairSpec == Spec /\ \A p \in Party : WF_vars(scenario.fair /\ LinkStep(p))

----------------------------------------------------------------------------
(* Properties. *)

Offered == MapThenSumSet(LAMBDA p : MaxHtlcs[p], Party)
Indices == 0 .. (Offered + MaxFeeUpdates + 1)
Ids == 0 .. Offered
Values == Amounts \union FeeRates \union {InitialFee}
Updates == [type : {"Add", "Settle", "Fail", "FeeUpdate"}, logIndex : Indices,
            htlc : Ids, amt : Values]
Htlcs == [logIndex : Indices, htlc : Ids, amt : Amounts]
IsCommitment(c) ==
    /\ {c.height, c.ourMessageIndex, c.theirMessageIndex, c.ourHtlcIndex,
        c.theirHtlcIndex} \subseteq Nat
    /\ {c.ourBalance, c.theirBalance} \subseteq Int
    /\ c.feePerKw \in FeeRates \union {InitialFee}
    /\ c.outgoing \subseteq Htlcs /\ c.incoming \subseteq Htlcs

\* Every log entry, commitment and disk record is well formed, and neither chain
\* ever holds more than the one commitment that is not yet revoked for.
TypeOK ==
    /\ link \in [Party -> {"syncing", "up", "failed"}]
    /\ todo \in [Party -> {"none", "commitSig", "revocation"}]
    /\ fees \in 0 .. MaxFeeUpdates /\ breaks \in 0 .. MaxBreaks
    /\ \A p \in Party :
        /\ {Update(e) : e \in mem[p].localLog.entries \union mem[p].remoteLog.entries}
                \subseteq Updates
        /\ Len(mem[p].localChain) = 1 /\ Len(mem[p].remoteChain) \in {1, 2}
        /\ \A c \in Range(mem[p].localChain) \union Range(mem[p].remoteChain) :
              IsCommitment(c)
        /\ IsCommitment(disk[p].local) /\ IsCommitment(disk[p].remote)
        /\ disk[p].unsignedAcked \union disk[p].remoteUnsignedLocal
                \union DiffOf(disk[p]) \subseteq Updates

\* The errors of ReceiveRevocation and ProcessChanSyncMsg that accuse the peer of a
\* wrong secret, or one of the parties of having lost its data.
Unsynchronised == {"ErrCommitSyncLocalDataLoss", "ErrCommitSyncRemoteDataLoss",
                   "ErrCannotSyncCommitChains", "ErrInvalidRevocation"}

\* Wherever connections break and nodes restart, between the write and the message of a
\* handler too, the two parties are never more than the lost exchange apart: every
\* revocation is for the tail, and every channel_reestablish can be synchronised with.
\* (Nothing is said of errors that depend on amounts and limits: validateAddHtlc "is not
\* totally bullet proof" when both parties add at the same time.)
NeverUnsynchronised == \A p \in Party : fault[p] \notin Unsynchronised

\* A party can be restarted at any time: what the three database transactions leave on
\* disk, in whatever order breaks let them run, is restored without the panics and errors
\* of restoreStateLogs, restorePendingLocalUpdates and restorePeerLocalUpdates.
RestoreNeverFails == \A p \in Party : ~RestoreFails(disk[p])

PendingOf(d) == {x.commit : x \in Range(d.pending)}

\* The commitment a party holds on disk, and would broadcast, is one its peer
\* has on disk as the current or the pending one, equal in height, balances, fee
\* and HTLCs: never one the peer holds the secret of.
CommitmentsAgree ==
    \A p \in Party :
        OwnTx(disk[p].local) \in
            {PeerTx(c) : c \in {disk[Other(p)].remote} \union PendingOf(disk[Other(p)])}

\* The commitments a party has on disk.
OnDisk(p) == {disk[p].local, disk[p].remote} \union PendingOf(disk[p])

\* No commitment gives a party less than nothing (a negative amount is an unsigned one
\* far above the balance).
BalancesNotNegative ==
    \A p \in Party : \A c \in OnDisk(p) : c.ourBalance >= 0 /\ c.theirBalance >= 0

\* No commitment of a BTC channel creates or loses money, whatever was restored or sent
\* again, and none gives a party less than nothing.
BalanceConserved ==
    /\ BalancesNotNegative
    /\ \A p \in Party :
        \A c \in OnDisk(p) \union Range(mem[p].localChain) \union Range(mem[p].remoteChain) :
            c.ourBalance + c.theirBalance + SumAmt(c.outgoing) + SumAmt(c.incoming)
                = Balance[p] + Balance[Other(p)]

SettleFails(d) == UNION {k.settleFails : k \in d.fwdPkgs}

\* An update of the peer is in one forwarding package at most, whatever breaks
\* fall around its lock-in, and an HTLC has one answer.
ForwardedOnce ==
    \A p \in Party :
        /\ \A j, k \in disk[p].fwdPkgs : j # k =>
              /\ j.adds \intersect k.adds = {}
              /\ j.settleFails \intersect k.settleFails = {}
        /\ \A x, y \in SettleFails(disk[p]) : x.htlc = y.htlc => x = y

\* An HTLC that was forwarded and that p may still answer is on every commitment either
\* party holds, so that neither can drop it alone; and its answer is passed on to the
\* switch only when it is on no commitment either party could still broadcast.
LockedInUntilAnswered ==
    \A p \in Party :
        /\ \A htlc \in LockedIn(disk[p]) :
            (lookupHtlc(mem[p].remoteLog, htlc) # {} /\ htlc \notin mem[p].remoteLog.modified)
                => /\ \A c \in OnDisk(p) : \E h \in c.incoming : h.htlc = htlc
                   /\ \A c \in OnDisk(Other(p)) : \E h \in c.outgoing : h.htlc = htlc
        /\ \A x \in SettleFails(disk[p]) :
            /\ x.htlc \in LockedIn(disk[Other(p)])
            /\ \A c \in OnDisk(p) : \A h \in c.outgoing : h.htlc # x.htlc
            /\ \A c \in OnDisk(Other(p)) : \A h \in c.incoming : h.htlc # x.htlc

Contents(c) ==
    [ours |-> c.ourBalance, theirs |-> c.theirBalance, feePerKw |-> c.feePerKw,
     outgoing |-> c.outgoing, incoming |-> c.incoming]

\* Once the exchange rests, the two commitments of the channel have the same
\* contents, and every HTLC on them is locked in at its receiver.
RestsAgreed ==
    QuietState => \A p \in Party :
        /\ Contents(disk[p].local) = Contents(disk[p].remote)
        /\ {h.htlc : h \in disk[p].local.outgoing} \subseteq LockedIn(disk[Other(p)])

\* A commitment signed for the peer, and with it every update it contains, is
\* revoked for in the end: after a break the signature or the revocation that
\* was lost is sent again.
SignedIsAcked ==
    \A p \in Party :
        (scenario.fair /\ disk[p].pending # <<>>) ~> (disk[p].pending = <<>>)

\* After the last break and the last new update, every update is signed for and
\* revoked for on both sides: nobody waits for the other forever.
Completes == <>[]QuietState
=============================================================================
