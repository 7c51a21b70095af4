---------------------------- MODULE ChannelLogs ----------------------------
(***************************************************************************)
(* The data of lnwallet/channel.go, as values and pure operators: the two  *)
(* update logs of a channel party, the commitments it keeps for itself and *)
(* for its peer, how a new commitment is evaluated from the logs, and how   *)
(* all of it is rebuilt from what channeldb/channel.go has on disk.         *)
(*                                                                         *)
(* An entry of a log is a PaymentDescriptor: its type, its log index, the   *)
(* HTLC it adds or removes, the amount (the fee rate of a FeeUpdate), and    *)
(* the heights of the local and of the remote commitment at which it took    *)
(* effect, 0 while it has not.  A commitment holds balances before the fee   *)
(* is taken out: every view gives the previous fee back before it takes the  *)
(* new one.  In an asset channel the balances are those of the asset.        *)
(***************************************************************************)
EXTENDS Integers, FiniteSets, FiniteSetsExt, Sequences

CONSTANTS
    Asset,              \* TRUE for a channel of an Omni asset
    Reserve,            \* ChanReserve of both parties
    MaxAcceptedHtlcs,   \* HTLCs one party may have in flight
    MaxReceivers        \* outputs an Omni send-to-many payload may name

ASSUME LogsAssumption ==
    /\ Asset \in BOOLEAN
    /\ Reserve \in Nat
    /\ MaxAcceptedHtlcs \in Nat
    /\ MaxReceivers \in Nat

Chains == {"local", "remote"}
NoHeight == [c \in Chains |-> 0]
At(chain, height) == [NoHeight EXCEPT ![chain] = height]

----------------------------------------------------------------------------
(* Log updates and entries. *)

LogUpdate(type, logIndex, htlc, amt) ==
    [type |-> type, logIndex |-> logIndex, htlc |-> htlc, amt |-> amt]

\* A log update with the heights at which it was added and at which it removed.
Entry(u, add, rm) ==
    [type |-> u.type, logIndex |-> u.logIndex, htlc |-> u.htlc, amt |-> u.amt,
     add |-> add, rm |-> rm, forwarded |-> FALSE]

\* What of an entry is written to disk and sent.
Update(e) == LogUpdate(e.type, e.logIndex, e.htlc, e.amt)

IsRemoval(e) == e.type \in {"Settle", "Fail"}
Removed(S) == {e.htlc : e \in {x \in S : IsRemoval(x)}}
Adds(S) == {e \in S : e.type = "Add"}
SumAmt(S) == LET amt == [e \in S |-> e.amt] IN MapThenSumSet(LAMBDA e : amt[e], S)

newUpdateLog(logIndex, htlcCounter) ==
    [entries |-> {}, logIndex |-> logIndex, htlcCounter |-> htlcCounter,
     modified |-> {}]

appendHtlc(log, e) ==
    [log EXCEPT !.entries = @ \union {e}, !.htlcCounter = @ + 1, !.logIndex = @ + 1]

appendUpdate(log, e) ==
    [log EXCEPT !.entries = @ \union {e}, !.logIndex = @ + 1]

lookupHtlc(log, htlc) == {e \in Adds(log.entries) : e.htlc = htlc}

markHtlcModified(log, htlc) == [log EXCEPT !.modified = @ \union {htlc}]

\* Removals that both tails have taken in leave the log with the HTLC they
\* removed; fee updates leave alone.
compactLogs(ours, theirs, localTail, remoteTail) ==
    LET Done(log) == {e \in log.entries :
            /\ e.type # "Add"
            /\ e.rm["remote"] # 0 /\ e.rm["local"] # 0
            /\ remoteTail >= e.rm["remote"] /\ localTail >= e.rm["local"]}
        Compact(logA, logB) ==
            LET evicted == Removed(Done(logB))
            IN [logA EXCEPT
                  !.entries = {e \in @ \ Done(logA) :
                                 ~(e.type = "Add" /\ e.htlc \in evicted)},
                  !.modified = @ \ evicted]
    IN [ours |-> Compact(ours, theirs), theirs |-> Compact(theirs, ours)]

----------------------------------------------------------------------------
(* One party's memory m: both logs and both commitment chains.  The first  *)
(* commitment of a chain is its tail, the last its tip.                     *)

tail(chain) == chain[1]
tip(chain) == chain[Len(chain)]
ChainOf(m, chain) == IF chain = "local" THEN m.localChain ELSE m.remoteChain

\* The entries of the two logs below the given indices, with the HTLCs that
\* are only proposed.
fetchHTLCView(m, theirLogIndex, ourLogIndex, predictOurs, predictTheirs) ==
    [ours   |-> {e \in m.localLog.entries : e.logIndex < ourLogIndex}
                    \union predictOurs,
     theirs |-> {e \in m.remoteLog.entries : e.logIndex < theirLogIndex}
                    \union predictTheirs]

\* The parent of a removal must be in the other log and already be part of
\* the chain the removal is applied to.
fetchParentFails(removals, log, chain) ==
    \E e \in removals :
        \A parent \in lookupHtlc(log, e.htlc) : parent.add[chain] = 0

\* Only what the chain does not have yet moves its balances and fee.
evaluateHTLCView(m, view, chain) ==
    LET last       == tip(ChainOf(m, chain))
        ourRm      == {e \in view.ours : IsRemoval(e)}
        theirRm    == {e \in view.theirs : IsRemoval(e)}
        outgoing   == {e \in Adds(view.ours) : e.htlc \notin Removed(theirRm)}
        incoming   == {e \in Adds(view.theirs) : e.htlc \notin Removed(ourRm)}
        New(S)     == {e \in S : e.add[chain] = 0}
        Off(S, t)  == {e \in S : e.rm[chain] = 0 /\ e.type = t}
        feeUpdates == New({e \in view.ours \union view.theirs : e.type = "FeeUpdate"})
    IN [err      |-> \/ fetchParentFails(ourRm, m.remoteLog, chain)
                     \/ fetchParentFails(theirRm, m.localLog, chain),
        ourBalance   |-> last.ourBalance + SumAmt(Off(ourRm, "Settle"))
                            + SumAmt(Off(theirRm, "Fail")) - SumAmt(New(outgoing)),
        theirBalance |-> last.theirBalance + SumAmt(Off(theirRm, "Settle"))
                            + SumAmt(Off(ourRm, "Fail")) - SumAmt(New(incoming)),
        feePerKw |-> IF feeUpdates = {} THEN last.feePerKw
                     ELSE (CHOOSE e \in feeUpdates :
                             \A x \in feeUpdates : x.logIndex <= e.logIndex).amt,
        outgoing |-> outgoing,
        incoming |-> incoming]

\* mutateState: what the view newly includes gets the next height.  An Add
\* that the view removes keeps its heights.
Stamp(m, view, v, chain, height) ==
    LET Mark(e) ==
            CASE e.type = "Add" /\ e \in v.outgoing \union v.incoming
                                /\ e.add[chain] = 0 ->
                    [e EXCEPT !.add[chain] = height]
              [] IsRemoval(e) /\ e.rm[chain] = 0 -> [e EXCEPT !.rm[chain] = height]
              [] e.type = "FeeUpdate" /\ e.add[chain] = 0 ->
                    [e EXCEPT !.add[chain] = height, !.rm[chain] = height]
              [] OTHER -> e
        MarkLog(log, S) ==
            [log EXCEPT !.entries = {IF e \in S THEN Mark(e) ELSE e : e \in @}]
    IN [m EXCEPT !.localLog = MarkLog(@, view.ours),
                 !.remoteLog = MarkLog(@, view.theirs)]

\* The comparison is made on unsigned integers: a negative amount is a huge one.
BelowUnsigned(x, bound) == x >= 0 /\ x < bound

\* The balances and HTLCs of a view respect the constraints of the channel,
\* given the commitment it extends.  A negative balance is caught for BTC only.
WithinConstraints(v, last) ==
    LET Low(now, before) == BelowUnsigned(now, Reserve) /\ (now < before \/ before < 0)
    IN /\ ~v.err
       /\ Asset \/ (v.ourBalance >= 0 /\ v.theirBalance >= 0)
       /\ ~Low(v.ourBalance, last.ourBalance)
       /\ ~Low(v.theirBalance, last.theirBalance)
       /\ Cardinality(v.outgoing) <= MaxAcceptedHtlcs
       /\ Cardinality(v.incoming) <= MaxAcceptedHtlcs

\* Whether a commitment with these updates may be made.  An asset HTLC that is
\* only proposed is not checked at all.
validateCommitmentSanity(m, theirLog, ourLog, chain, predictOurs, predictTheirs) ==
    \/ Asset /\ predictOurs \union predictTheirs # {}
    \/ WithinConstraints(
           evaluateHTLCView(
               m, fetchHTLCView(m, theirLog, ourLog, predictOurs, predictTheirs), chain),
           tip(ChainOf(m, chain)))

\* The outputs of a commitment that carry a part of the asset.
Receivers(v) ==
    Cardinality(v.outgoing) + Cardinality(v.incoming)
        + (IF v.ourBalance = 0 THEN 0 ELSE 1) + (IF v.theirBalance = 0 THEN 0 ELSE 1)

HtlcsOf(S) == {[logIndex |-> e.logIndex, htlc |-> e.htlc, amt |-> e.amt] : e \in S}

\* The commitment a view v leads to.
NextCommitment(v, height, ourLog, ourHtlc, theirLog, theirHtlc) ==
    [height |-> height,
     ourMessageIndex |-> ourLog, theirMessageIndex |-> theirLog,
     ourHtlcIndex |-> ourHtlc, theirHtlcIndex |-> theirHtlc,
     ourBalance |-> v.ourBalance, theirBalance |-> v.theirBalance,
     feePerKw |-> v.feePerKw,
     outgoing |-> HtlcsOf(v.outgoing), incoming |-> HtlcsOf(v.incoming)]

\* The next commitment of a chain, and the memory with its heights stamped.
fetchCommitmentView(m, chain, ourLog, ourHtlc, theirLog, theirHtlc) ==
    LET height == tip(ChainOf(m, chain)).height + 1
        Result(view, v) ==
            [ok     |-> ~v.err /\ (Asset => Receivers(v) <= MaxReceivers),
             commit |-> NextCommitment(v, height, ourLog, ourHtlc, theirLog, theirHtlc),
             mem    |-> Stamp(m, view, v, chain, height)]
        Evaluated(view) == Result(view, evaluateHTLCView(m, view, chain))
    IN Evaluated(fetchHTLCView(m, theirLog, ourLog, {}, {}))

----------------------------------------------------------------------------
(* What a party owes, and the updates it keeps for a restart. *)

\* A bug: the peer's updates that we have revoked for are not signed for.
OweOwnUpdates(m, local) ==
    IF local THEN m.localLog.logIndex # tip(m.remoteChain).ourMessageIndex
    ELSE m.remoteLog.logIndex # tip(m.localChain).theirMessageIndex

\* local: we owe the peer a signature.  remote: the peer owes us one.
oweCommitment(m, local) ==
    LET lastLocal  == tip(m.localChain)
        lastRemote == tip(m.remoteChain)
    IN IF local
       THEN \/ m.localLog.logIndex # lastRemote.ourMessageIndex
            \/ lastLocal.theirMessageIndex # lastRemote.theirMessageIndex
       ELSE \/ m.remoteLog.logIndex # lastLocal.theirMessageIndex
            \/ lastRemote.ourMessageIndex # lastLocal.ourMessageIndex

PendingLocalUpdateCount(m) ==
    m.localLog.logIndex - tip(m.remoteChain).ourMessageIndex

\* The updates a commitment of the peer is the first to contain.
createCommitDiff(m, commit) ==
    {Update(e) : e \in {x \in m.localLog.entries :
        x.add["remote"] = commit.height \/ x.rm["remote"] = commit.height}}

\* Updates of the peer that we have revoked for and not yet signed for.
getUnsignedAckedUpdates(m) ==
    {Update(e) : e \in {x \in m.remoteLog.entries :
        /\ tail(m.remoteChain).theirMessageIndex <= x.logIndex
        /\ x.logIndex < tail(m.localChain).theirMessageIndex}}

\* Our removals and fee updates that the peer has and has not signed for.
unsignedLocalUpdates(m, remoteMessageIndex, localMessageIndex) ==
    {Update(e) : e \in {x \in m.localLog.entries :
        /\ x.type # "Add"
        /\ localMessageIndex <= x.logIndex /\ x.logIndex < remoteMessageIndex}}

----------------------------------------------------------------------------
(* NewLightningChannel: the memory rebuilt from a disk record d.           *)

\* The height at which the peer's commitment took in an HTLC of the peer.
incomingRemoteAddHeight(d, htlc) ==
    LET Has(c) == \E h \in c.incoming : h.htlc = htlc
    IN IF Has(d.remote) \/ htlc \in Removed(d.remoteUnsignedLocal) THEN d.remote.height
       ELSE IF d.pending # <<>> /\ Has(d.pending[1].commit) THEN d.pending[1].commit.height
       ELSE 0

outgoingLocalAddHeight(d, htlc) ==
    IF \/ \E h \in d.local.outgoing : h.htlc = htlc
       \/ htlc \in Removed(d.unsignedAcked)
    THEN d.local.height ELSE 0

RestoreAdd(h, localHeight, remoteHeight) ==
    Entry(LogUpdate("Add", h.logIndex, h.htlc, h.amt),
          [local |-> localHeight, remote |-> remoteHeight], NoHeight)

\* A bug: the update is restored as if no commitment had it.
RestoreUpdateUnapplied(u, heights) == Entry(u, NoHeight, NoHeight)

\* An update that is not an Add, with the heights at which it took effect.
RestoreUpdate(u, heights) ==
    Entry(u, IF u.type = "FeeUpdate" THEN heights ELSE NoHeight, heights)

DiffOf(d) == IF d.pending = <<>> THEN {} ELSE d.pending[1].updates

restoreLocalLog(d) ==
    LET base    == newUpdateLog(d.remote.ourMessageIndex, d.remote.ourHtlcIndex)
        diff    == DiffOf(d)
        pending == {IF u.type = "Add"
                    THEN Entry(u, At("remote", d.pending[1].commit.height), NoHeight)
                    ELSE RestoreUpdate(u, At("remote", d.pending[1].commit.height))
                    : u \in diff}
    IN [entries     |->
            {RestoreAdd(h, outgoingLocalAddHeight(d, h.htlc), d.remote.height)
                : h \in d.remote.outgoing}
            \union pending
            \union {RestoreUpdate(u, At("remote", d.remote.height))
                      : u \in d.remoteUnsignedLocal},
        logIndex    |-> base.logIndex + Cardinality(diff),
        htlcCounter |-> base.htlcCounter + Cardinality(Adds(diff)),
        modified    |-> Removed(d.unsignedAcked)]

restoreRemoteLog(d) ==
    LET base == newUpdateLog(d.local.theirMessageIndex, d.local.theirHtlcIndex)
        SignedAt(u) ==
            IF d.pending # <<>> /\ u.logIndex < d.pending[1].commit.theirMessageIndex
            THEN d.pending[1].commit.height ELSE 0
    IN [base EXCEPT
          !.entries = {RestoreAdd(h, d.local.height, incomingRemoteAddHeight(d, h.htlc))
                         : h \in d.local.incoming}
                      \union
                      {RestoreUpdate(u, [local |-> d.local.height,
                                         remote |-> SignedAt(u)])
                         : u \in {x \in d.unsignedAcked : x.type # "Add"}},
          !.modified = Removed(DiffOf(d)) \union Removed(d.remoteUnsignedLocal)]

restoreCommitState(d) ==
    [localLog    |-> restoreLocalLog(d),
     remoteLog   |-> restoreRemoteLog(d),
     localChain  |-> <<d.local>>,
     remoteChain |-> IF d.pending = <<>> THEN <<d.remote>>
                     ELSE <<d.remote, d.pending[1].commit>>]

\* The panics and errors of the restore: a pending update out of sequence, a
\* removal whose HTLC is not there, an acked update that was never signed for.
RestoreFails(d) ==
    LET diff  == DiffOf(d)
        first == d.remote.ourMessageIndex
        Below(u) == {x \in Adds(diff) : x.logIndex < u.logIndex}
        ours  == {h.htlc : h \in d.remote.outgoing} \union {u.htlc : u \in Adds(diff)}
        theirs == {h.htlc : h \in d.local.incoming}
    IN \/ {u.logIndex : u \in diff} # first .. (first + Cardinality(diff) - 1)
       \/ \E u \in Adds(diff) :
            u.htlc # d.remote.ourHtlcIndex + Cardinality(Below(u))
       \/ ~(Removed(diff) \subseteq theirs)
       \/ ~(Removed(d.remoteUnsignedLocal) \subseteq theirs)
       \/ ~(Removed(d.unsignedAcked) \subseteq ours)
       \/ \E u \in d.unsignedAcked : u.logIndex >= d.local.theirMessageIndex
=============================================================================
