--------------------- MODULE LightningChannelInvariants ---------------------
(***************************************************************************)
(* The inductive invariants of LightningChannel, the properties stated for  *)
(* the proofs only, and the kinds of steps that the proofs distinguish.     *)
(* Funded and Whole are the strongest invariants: LightningChannelProofs    *)
(* shows that they always hold.                                             *)
(***************************************************************************)
EXTENDS LightningChannel

(* Which commitment is which: types, records and messages. *)

FinSub(S) == {T \in SUBSET S : IsFiniteSet(T)}

UpdateTypes == {"Add", "Settle", "Fail", "FeeUpdate"}
AnyUpdate == [type : UpdateTypes, logIndex : Nat, htlc : Nat, amt : Nat]
AnyEntry == [type : UpdateTypes, logIndex : Nat, htlc : Nat, amt : Nat,
             add : [Chains -> Nat], rm : [Chains -> Nat], forwarded : BOOLEAN]
AnyHtlc == [logIndex : Nat, htlc : Nat, amt : Nat]
AnyCommit ==
    [height : Nat, ourMessageIndex : Nat, theirMessageIndex : Nat, ourHtlcIndex : Nat,
     theirHtlcIndex : Nat, ourBalance : Int, theirBalance : Int, feePerKw : Nat,
     outgoing : FinSub(AnyHtlc), incoming : FinSub(AnyHtlc)]
AnyLog == [entries : FinSub(AnyEntry), logIndex : Nat, htlcCounter : Nat, modified : SUBSET Nat]
AnyPending == [commit : AnyCommit, updates : FinSub(AnyUpdate)]
AnyPackage == [height : Nat, adds : SUBSET Nat,
               settleFails : SUBSET [htlc : Nat, type : UpdateTypes]]
AnyDisk ==
    [local : AnyCommit, remote : AnyCommit,
     pending : {<<>>} \union {<<x>> : x \in AnyPending}, lastWasRevoke : BOOLEAN,
     unsignedAcked : FinSub(AnyUpdate), ackedStored : BOOLEAN,
     remoteUnsignedLocal : FinSub(AnyUpdate), fwdPkgs : SUBSET AnyPackage]
AnyMemory == [localLog : AnyLog, remoteLog : AnyLog,
              localChain : Seq(AnyCommit), remoteChain : Seq(AnyCommit)]
AnyTx == [height : Nat, owner : Int, peer : Int, feePerKw : Nat,
          ofOwner : SUBSET [htlc : Nat, amt : Nat], ofPeer : SUBSET [htlc : Nat, amt : Nat]]
AnyMessage ==
    [type : UpdateTypes, htlc : Nat, amt : Nat]
    \union [type : {"CommitSig"}, tx : AnyTx]
    \union [type : {"RevokeAndAck"}, height : Int]
    \union [type : {"ChannelReestablish"}, nextLocalCommitHeight : Nat,
            remoteCommitTailHeight : Nat]

ChannelTypes ==
    /\ scenario \in Scenarios
    /\ disk \in [Party -> AnyDisk]
    /\ mem \in [Party -> AnyMemory]
    /\ link \in [Party -> {"syncing", "up", "failed"}]
    /\ todo \in [Party -> {"none", "commitSig", "revocation"}]
    /\ net \in [Party -> Seq(AnyMessage)]
    /\ DOMAIN fault = Party
    /\ fees \in Nat

\* The commitments in memory are those on disk.
RemoteChain(d) ==
    IF d.pending = <<>> THEN <<d.remote>> ELSE <<d.remote, d.pending[1].commit>>
ChainsOf(m, d) == m.localChain = <<d.local>> /\ m.remoteChain = RemoteChain(d)
PendingNext(d) == d.pending # <<>> => d.pending[1].commit.height = d.remote.height + 1
RecordInv == \A p \in Party : /\ ChainsOf(mem[p], disk[p]) /\ PendingNext(disk[p])
                              /\ link[p] = "syncing" => ~RestoreFails(disk[p])

\* What the owner of d holds is the current or the pending commitment of its peer's
\* record e.
Agreed(d, e) ==
    \/ OwnTx(d.local) = PeerTx(e.remote)
    \/ e.pending # <<>> /\ OwnTx(d.local) = PeerTx(e.pending[1].commit)
AgreeInv == \A p \in Party : Agreed(disk[p], disk[Other(p)])

\* A message on its way from the owner of e to the owner of d: a signature is for the
\* pending commitment and was not received yet, a revocation is for the commitment that
\* the receiver waits to get rid of, and a reestablish is still true.
MessageOK(msg, d, e) ==
    /\ msg.type = "CommitSig" =>
        /\ e.pending # <<>> /\ msg.tx = PeerTx(e.pending[1].commit)
        /\ d.local.height = e.remote.height
    /\ msg.type = "RevokeAndAck" =>
        msg.height = d.remote.height /\ e.local.height = d.remote.height + 1
    /\ msg.type = "ChannelReestablish" =>
        /\ msg.nextLocalCommitHeight = e.local.height + 1
        /\ msg.remoteCommitTailHeight = e.remote.height

Singular == {"CommitSig", "RevokeAndAck", "ChannelReestablish"}
Has(s, t) == \E i \in 1 .. Len(s) : s[i].type = t
Once(s) == \A i, j \in 1 .. Len(s) : i # j /\ s[i].type = s[j].type => s[i].type \notin Singular
\* A queue of a party that has sent nothing since it connected.
Silent(s) == \A i \in 1 .. Len(s) : s[i].type = "ChannelReestablish"

MessagesOK(s, d, e) == \A i \in 1 .. Len(s) : MessageOK(s[i], d, e)
QueueInv ==
    \A p \in Party :
        /\ MessagesOK(net[p], disk[p], disk[Other(p)])
        /\ Once(net[p])
        /\ Has(net[p], "ChannelReestablish") => link[p] # "up" /\ Silent(net[Other(p)])
        /\ link[Other(p)] = "syncing" => Silent(net[p])

ChannelInv == ChannelTypes /\ RecordInv /\ AgreeInv /\ QueueInv

ChannelSafe == ChannelInv /\ NeverUnsynchronised
-----------------------------------------------------------------------------
(* What the updates in the logs of one party say of the commitments on its disk.  U are the *)
(* updates in its own log, n the next log index and k the next id of an HTLC in it; V, nV  *)
(* and kV are those of the log of its peer.                                                *)

Tip(d) == IF d.pending = <<>> THEN d.remote ELSE d.pending[1].commit
IsAdd(u) == u.type = "Add"

\* Indices and ids tell the updates of a log apart.
Distinct(U, n, k) ==
    /\ \A u \in U : u.logIndex < n /\ (IsAdd(u) => u.htlc < k)
    /\ \A u, v \in U : u.logIndex = v.logIndex => u = v
    /\ \A u, v \in U : IsAdd(u) /\ IsAdd(v) => (u.logIndex < v.logIndex <=> u.htlc < v.htlc)

\* A removal has its HTLC in the other log, and is the only one.
Answers(U, V) ==
    /\ \A u, v \in U : IsRemoval(u) /\ IsRemoval(v) /\ u.htlc = v.htlc => u = v
    /\ \A u \in U : IsRemoval(u) => \E v \in V : IsAdd(v) /\ v.htlc = u.htlc /\ v.amt = u.amt

\* A removal of the HTLC below the index b, and the HTLCs of A below a that are not removed.
Off(B, b, htlc) == \E r \in B : IsRemoval(r) /\ r.logIndex < b /\ r.htlc = htlc
Live(A, B, a, b) == {u \in A : IsAdd(u) /\ u.logIndex < a /\ ~Off(B, b, u.htlc)}
\* A commitment takes in a removal only after the HTLC.
Parents(A, B, a, b) == \A u \in A : IsAdd(u) /\ Off(B, b, u.htlc) => u.logIndex < a
HalfOK(S, A, B, a, b) == S = HtlcsOf(Live(A, B, a, b)) /\ Parents(A, B, a, b)
CommitOK(c, U, V) ==
    /\ HalfOK(c.outgoing, U, V, c.ourMessageIndex, c.theirMessageIndex)
    /\ HalfOK(c.incoming, V, U, c.theirMessageIndex, c.ourMessageIndex)
    /\ c.height = 0 => c.ourMessageIndex = 0 /\ c.theirMessageIndex = 0

\* Our updates reach the peer's commitments first, and the peer's reach ours.
OrderOK(d, n, nV) ==
    /\ d.local.ourMessageIndex <= d.remote.ourMessageIndex
    /\ d.remote.ourMessageIndex <= Tip(d).ourMessageIndex
    /\ Tip(d).ourMessageIndex <= n
    /\ d.remote.theirMessageIndex <= Tip(d).theirMessageIndex
    /\ Tip(d).theirMessageIndex <= d.local.theirMessageIndex
    /\ d.local.theirMessageIndex <= nV

\* From the peer's commitment on our log has no gap, and the ids of HTLCs in commitments
\* are cut where the log is.
CountsOK(d, U, n, k, V, kV) ==
    /\ \A i \in Nat : d.remote.ourMessageIndex <= i /\ i < n => \E u \in U : u.logIndex = i
    /\ \A i \in Nat : d.remote.ourHtlcIndex <= i /\ i < k => \E u \in U : IsAdd(u) /\ u.htlc = i
    /\ d.remote.ourHtlcIndex <= Tip(d).ourHtlcIndex /\ Tip(d).ourHtlcIndex <= k
    /\ \A u \in U : IsAdd(u) =>
        /\ u.logIndex < d.remote.ourMessageIndex <=> u.htlc < d.remote.ourHtlcIndex
        /\ u.logIndex < Tip(d).ourMessageIndex <=> u.htlc < Tip(d).ourHtlcIndex
    /\ d.local.theirHtlcIndex <= kV
    /\ \A v \in V : IsAdd(v) /\ v.logIndex < d.local.theirMessageIndex
                        => v.htlc < d.local.theirHtlcIndex

\* The updates on disk are those of the logs between two commitments.
Cut(S, i, j) == {u \in S : i <= u.logIndex /\ u.logIndex < j}
StoredOK(d, U, V) ==
    /\ d.unsignedAcked = Cut(V, d.remote.theirMessageIndex, d.local.theirMessageIndex)
    /\ DiffOf(d) = Cut(U, d.remote.ourMessageIndex, Tip(d).ourMessageIndex)
    /\ \A u \in d.remoteUnsignedLocal :
          ~IsAdd(u) /\ u \in Cut(U, d.local.ourMessageIndex, d.remote.ourMessageIndex)
    /\ \A u \in Cut(U, d.local.ourMessageIndex, d.remote.ourMessageIndex) :
          IsRemoval(u) => u \in d.remoteUnsignedLocal
    /\ ~d.ackedStored => d.local.theirMessageIndex = 0 /\ d.remoteUnsignedLocal = {}

\* A removal is signed for only when the peer's commitment has had the HTLC for some time.
CommitsOK(d, U, V) ==
    /\ CommitOK(d.local, U, V) /\ CommitOK(d.remote, U, V) /\ CommitOK(Tip(d), U, V)
    /\ Parents(V, U, d.remote.theirMessageIndex, Tip(d).ourMessageIndex)

UpdatesInv(U, n, k, V, nV, kV, d) ==
    /\ Distinct(U, n, k) /\ Distinct(V, nV, kV)
    /\ Answers(U, V) /\ Answers(V, U)
    /\ CommitsOK(d, U, V)
    /\ OrderOK(d, n, nV) /\ CountsOK(d, U, n, k, V, kV) /\ StoredOK(d, U, V)

\* The heights in an entry, and those that its type leaves at zero.
Marks(e) == IF IsAdd(e) THEN e.add ELSE e.rm
Shape(e) ==
    /\ IsAdd(e) => e.rm = NoHeight
    /\ IsRemoval(e) => e.add = NoHeight
    /\ e.type = "FeeUpdate" => e.add = e.rm
\* The entries below the index i of a tail of height h have been marked up to it, those
\* from there to the index j of the tip with its height t, and later ones not yet.
Marked(S, chain, i, h, j, t) ==
    \A e \in S : /\ e.logIndex < i => 1 <= Marks(e)[chain] /\ Marks(e)[chain] <= h
                 /\ i <= e.logIndex /\ e.logIndex < j => Marks(e)[chain] = t
                 /\ j <= e.logIndex => Marks(e)[chain] = 0
Entries(S) == \A e \in S : Shape(e) /\ \A f \in S : e.logIndex = f.logIndex => e = f
EntriesInv(L, R, d) ==
    /\ Entries(L) /\ Entries(R)
    /\ Marked(L, "local", d.local.ourMessageIndex, d.local.height,
              d.local.ourMessageIndex, d.local.height)
    /\ Marked(R, "local", d.local.theirMessageIndex, d.local.height,
              d.local.theirMessageIndex, d.local.height)
    /\ Marked(L, "remote", d.remote.ourMessageIndex, d.remote.height,
              Tip(d).ourMessageIndex, Tip(d).height)
    /\ Marked(R, "remote", d.remote.theirMessageIndex, d.remote.height,
              Tip(d).theirMessageIndex, Tip(d).height)

Ups(S) == {Update(e) : e \in S}
LogsInv(ours, theirs, d) ==
    /\ UpdatesInv(Ups(ours.entries), ours.logIndex, ours.htlcCounter,
                  Ups(theirs.entries), theirs.logIndex, theirs.htlcCounter, d)
    /\ EntriesInv(ours.entries, theirs.entries, d)
    /\ ours.modified = Removed(theirs.entries) /\ theirs.modified = Removed(ours.entries)

LogsOK == \A p \in Party : LogsInv(mem[p].localLog, mem[p].remoteLog, disk[p])

\* What holds of the memory and the disk of one party.
PartyLogs(m, d) ==
    /\ m \in AnyMemory /\ d \in AnyDisk /\ ChainsOf(m, d) /\ PendingNext(d)
    /\ LogsInv(m.localLog, m.remoteLog, d)

Good == ChannelSafe /\ \A p \in Party : PartyLogs(mem[p], disk[p])
-----------------------------------------------------------------------------
(* What the forwarding packages say of the logs: what is in one has left the window in which *)
(* a later revocation could forward it again.                                                *)

Separate(P) == \A j, k \in P : j # k => /\ j.adds \intersect k.adds = {}
                                        /\ j.settleFails \intersect k.settleFails = {}
PackagesInv(d, U, V) ==
    /\ Separate(d.fwdPkgs) /\ \A k \in d.fwdPkgs : k.height <= d.remote.height
    /\ \A a \in LockedIn(d) :
          /\ a < d.local.theirHtlcIndex
          /\ \A v \in V : IsAdd(v) /\ v.htlc = a => v.logIndex < d.remote.theirMessageIndex
    /\ \A x, y \in SettleFails(d) : x.htlc = y.htlc => x = y
    /\ \A x \in SettleFails(d) :
          /\ x.htlc < d.remote.ourHtlcIndex
          /\ \A u \in U : IsAdd(u) => u.htlc # x.htlc

PartyPackages(m, d) == PackagesInv(d, Ups(m.localLog.entries), Ups(m.remoteLog.entries))

(* The updates in the two logs of a memory, and the HTLCs whose removals are on their way. *)

Ours(m) == Ups(m.localLog.entries)
Theirs(m) == Ups(m.remoteLog.entries)
Answering(msg) == msg.type \in {"Settle", "Fail"}
Carried(s) == {s[i].htlc : i \in {j \in 1 .. Len(s) : Answering(s[j])}}

\* An answer is always to an HTLC that its sender has locked in.
AnswersOf(p) ==
    /\ Removed(Ours(mem[p])) \subseteq LockedIn(disk[p])
    /\ Removed(Theirs(mem[p])) \subseteq LockedIn(disk[Other(p)])
    /\ Carried(net[p]) \subseteq LockedIn(disk[Other(p)])
    /\ \A x \in SettleFails(disk[p]) : x.htlc \in LockedIn(disk[Other(p)])
Whole == Good /\ \A p \in Party : PartyPackages(mem[p], disk[p]) /\ AnswersOf(p)
-----------------------------------------------------------------------------
(* What commitments are worth. *)

\* The commitments on the disk d.
Held(d) == {d.local, d.remote, Tip(d)}
Worth(c) == c.ourBalance + c.theirBalance + SumAmt(c.outgoing) + SumAmt(c.incoming)

\* A commitment is worth t, and in a channel of bitcoins gives no party less than nothing.
Pays(c, t) == Worth(c) = t /\ (~Asset => c.ourBalance >= 0 /\ c.theirBalance >= 0)
Sound(d, t) == \A c \in Held(d) : Pays(c, t)

Funds(p) == Balance[p] + Balance[Other(p)]
Funded == Good /\ \A p \in Party : Sound(disk[p], Funds(p))

\* Whatever a channel is of, bitcoins or an Omni asset, no commitment that a party has on disk
\* or in memory creates or loses money: what it gives the two sides and what its HTLCs hold
\* come to what the channel was opened with.  (An overdrawn balance of an asset channel counts
\* as negative: the code holds it modulo 2^64, and so conserves the sum modulo 2^64.)
WorthConserved ==
    \A p \in Party :
        \A c \in OnDisk(p) \union Range(mem[p].localChain) \union Range(mem[p].remoteChain) :
            Worth(c) = Balance[p] + Balance[Other(p)]
-----------------------------------------------------------------------------
(* The steps of a party, as the few kinds that there are: an update is added to its own log *)
(* or to that of its peer, it signs, it revokes, it takes a revocation, or it waits.         *)

\* An update u that may be added to a log whose next index is n and next id k.
Fits(u, U, n, k, V) ==
    /\ u \in AnyUpdate /\ u.logIndex = n
    /\ IsAdd(u) => u.htlc = k
    /\ IsRemoval(u) => /\ \A v \in U : IsRemoval(v) => v.htlc # u.htlc
                       /\ \E v \in V : IsAdd(v) /\ v.htlc = u.htlc /\ v.amt = u.amt
NextId(u, k) == IF IsAdd(u) THEN k + 1 ELSE k

\* A log with one entry more, for an update u.
Appended(log, u, new) ==
    /\ new \in AnyLog
    /\ new.entries = log.entries \union {Entry(u, NoHeight, NoHeight)}
    /\ new.logIndex = log.logIndex + 1 /\ new.htlcCounter = NextId(u, log.htlcCounter)
    /\ new.modified = log.modified
\* A log of whose HTLCs u may remove one.
Touched(log, u, new) ==
    /\ new \in AnyLog
    /\ new.entries = log.entries /\ new.logIndex = log.logIndex /\ new.htlcCounter = log.htlcCounter
    /\ new.modified = log.modified \union (IF IsRemoval(u) THEN {u.htlc} ELSE {})

\* p signs: what the view of the next commitment becomes.
SignView(m, d) ==
    fetchCommitmentView(m, "remote", m.localLog.logIndex, m.localLog.htlcCounter,
                        d.local.theirMessageIndex, d.local.theirHtlcIndex)

IsSigned(m, d, view, s) ==
    /\ d.pending = <<>> /\ view.ok /\ view.commit \in AnyCommit /\ view.mem \in AnyMemory
    /\ WithinConstraints(evaluateHTLCView(m, fetchHTLCView(m, d.local.theirMessageIndex,
                             m.localLog.logIndex, {}, {}), "remote"), d.remote)
    /\ s.mem.localLog = view.mem.localLog /\ s.mem.remoteLog = view.mem.remoteLog
    /\ s.disk = [d EXCEPT !.lastWasRevoke = FALSE,
                          !.pending = <<[commit |-> view.commit,
                                         updates |-> createCommitDiff(view.mem, view.commit)]>>]
    /\ s.disk \in AnyDisk /\ s.mem \in AnyMemory /\ ChainsOf(s.mem, s.disk)

\* p takes a signature and revokes.
RevokeView(m, d) ==
    fetchCommitmentView(m, "local", d.remote.ourMessageIndex, d.remote.ourHtlcIndex,
                        m.remoteLog.logIndex, m.remoteLog.htlcCounter)

IsRevoked(m, d, view, r) ==
    /\ view.ok /\ view.commit \in AnyCommit /\ view.mem \in AnyMemory
    /\ WithinConstraints(evaluateHTLCView(m, fetchHTLCView(m, m.remoteLog.logIndex,
                             d.remote.ourMessageIndex, {}, {}), "local"), d.local)
    /\ r.mem.localLog = view.mem.localLog /\ r.mem.remoteLog = view.mem.remoteLog
    /\ r.disk = UpdateCommitment(d, view.commit, getUnsignedAckedUpdates(r.mem))
    /\ r.disk \in AnyDisk /\ r.mem \in AnyMemory /\ ChainsOf(r.mem, r.disk)
    /\ r.disk.local = view.commit /\ r.disk.remote = d.remote /\ r.disk.pending = d.pending

\* The entries F of S have been forwarded.
Flag(F, e) == IF e \in F THEN [e EXCEPT !.forwarded = TRUE] ELSE e
Flagged(S, F) == {Flag(F, e) : e \in S}
\* Done entries of compactLogs are below an index; the others of A, without their HTLCs, are left.
Finished(S, x) == {e \in S : ~IsAdd(e) /\ e.logIndex < x}
Trimmed(log, S, gone) == [log EXCEPT !.entries = S, !.modified = @ \ gone]
Left(A, doneA, doneB) == {e \in A \ doneA : ~(e.type = "Add" /\ e.htlc \in Removed(doneB))}

\* What a revocation makes of the memory and the record of a party that waits for one.
NewPackage(m, d) ==
    LET fwd == ToForward(m)
    IN  [height |-> d.remote.height + 1,
         adds |-> {e.htlc : e \in Adds(fwd)},
         settleFails |-> {[htlc |-> e.htlc, type |-> e.type] : e \in fwd \ Adds(fwd)}]
IsAdvanced(m, d, r) ==
    LET x == d.local.ourMessageIndex
        y == Tip(d).theirMessageIndex
        A == m.localLog.entries
        B == Flagged(m.remoteLog.entries, ToForward(m))
        done == Finished(A, x)
        theirDone == Finished(B, y)
    IN  /\ r.mem \in AnyMemory /\ r.disk \in AnyDisk /\ ChainsOf(r.mem, r.disk)
        /\ r.mem.localLog = Trimmed(m.localLog, Left(A, done, theirDone), Removed(theirDone))
        /\ r.mem.remoteLog = Trimmed(m.remoteLog, Left(B, theirDone, done), Removed(done))
        /\ r.disk.local = d.local /\ r.disk.remote = Tip(d) /\ r.disk.pending = <<>>
        /\ r.disk.ackedStored = d.ackedStored
        /\ r.disk.unsignedAcked =
               IF d.ackedStored THEN {u \in d.unsignedAcked : u.logIndex >= Tip(d).theirMessageIndex}
               ELSE d.unsignedAcked
        /\ r.disk.remoteUnsignedLocal =
               IF d.ackedStored
               THEN {u \in Cut(Ups(A), d.local.ourMessageIndex, Tip(d).ourMessageIndex) : ~IsAdd(u)}
               ELSE d.remoteUnsignedLocal
        /\ r.disk.fwdPkgs = {k \in d.fwdPkgs : k.height # d.remote.height + 1} \union {NewPackage(m, d)}

Moves(p, m, d) == mem' = [mem EXCEPT ![p] = m] /\ disk' = [disk EXCEPT ![p] = d]
\* p takes messages, and sends no removals but those of the HTLCs in S.
NetStep(p, S) ==
    /\ Carried(net'[p]) \subseteq Carried(net[p])
    /\ Carried(net'[Other(p)]) \subseteq Carried(net[Other(p)]) \union S
Answered(u) == IF IsRemoval(u) THEN {u.htlc} ELSE {}
OursGrow(p, m, u) ==
    /\ Moves(p, m, disk[p]) /\ NetStep(p, Answered(u)) /\ Answered(u) \subseteq LockedIn(disk[p])
    /\ Fits(u, Ups(mem[p].localLog.entries), mem[p].localLog.logIndex, mem[p].localLog.htlcCounter,
            Ups(mem[p].remoteLog.entries))
    /\ Appended(mem[p].localLog, u, m.localLog) /\ Touched(mem[p].remoteLog, u, m.remoteLog)
TheirsGrow(p, m, u) ==
    /\ Moves(p, m, disk[p]) /\ NetStep(p, {}) /\ Answered(u) \subseteq Carried(net[p])
    /\ Fits(u, Ups(mem[p].remoteLog.entries), mem[p].remoteLog.logIndex, mem[p].remoteLog.htlcCounter,
            Ups(mem[p].localLog.entries))
    /\ Appended(mem[p].remoteLog, u, m.remoteLog) /\ Touched(mem[p].localLog, u, m.localLog)
Signs(p, s) ==
    /\ s = SignNextCommitment(mem[p], disk[p]) /\ s.err = "none"
    /\ Moves(p, s.mem, s.disk) /\ NetStep(p, Removed(DiffOf(disk[p])))
Revokes(p, r) ==
    /\ IsRevoked(mem[p], disk[p], RevokeView(mem[p], disk[p]), r)
    /\ Moves(p, r.mem, r.disk) /\ NetStep(p, {})
Advances(p, r) ==
    /\ disk[p].pending # <<>> /\ IsAdvanced(mem[p], disk[p], r)
    /\ Moves(p, r.mem, r.disk) /\ NetStep(p, {})
Waits(p) == UNCHANGED <<mem, disk>> /\ NetStep(p, Removed(DiffOf(disk[p])))
StepKind(p) ==
    \/ \E m, u : OursGrow(p, m, u)
    \/ \E m, u : TheirsGrow(p, m, u)
    \/ \E s : Signs(p, s)
    \/ \E r : Revokes(p, r)
    \/ \E r : Advances(p, r)
    \/ Waits(p)
=============================================================================
