----------------------------- MODULE CircuitMap -----------------------------
(***************************************************************************)
(* The switch's persistent circuit map (htlcswitch/circuit_map.go).        *)
(*                                                                         *)
(* A circuit links an incoming HTLC to the outgoing HTLC that forwards it. *)
(* It is half open ("pending") once CommitCircuits has recorded it and     *)
(* open once OpenCircuits has given it a keystone: the outgoing channel    *)
(* and HTLC id.  The mutex of the map is NOT held while the database is    *)
(* written, so every mutating call is several steps here: a memory step, a *)
(* database transaction that may fail, and, on some paths, a second memory *)
(* step.  op[p] is the call goroutine p is in the middle of.  A crash may  *)
(* come between any two steps.                                             *)
(*                                                                         *)
(* The callers keep a protocol with the map (link.go, switch.go): the      *)
(* incoming link commits and deletes the circuits of its own HTLCs, the    *)
(* outgoing link opens them with consecutive HTLC ids before it signs, and *)
(* so on.  That protocol is the guards marked "caller:" and the variables  *)
(* committed, allocated, signed and acked, which stand for channel state.  *)
(***************************************************************************)
EXTENDS Naturals

CONSTANTS
  InKeys,       \* incoming circuit keys (channel id, HTLC id)
  InChan,       \* the channel id of each, 0 (hop.Source) for a local payment
  OutChans,     \* short ids of the outgoing channels, numbers
  MaxHtlcId,    \* bound: greatest outgoing HTLC id used
  Hashes,       \* payment hashes
  PaymentHash,  \* the payment hash of each incoming HTLC
  Callers       \* goroutines that call the map

ASSUME CircuitMapAssumption ==
  /\ MaxHtlcId \in Nat
  /\ OutChans \subseteq Nat \ {0}
  /\ InChan \in [InKeys -> Nat]
  /\ PaymentHash \in [InKeys -> Hashes]

VARIABLES
  \* On disk.
  addBkt,       \* circuit-adds bucket: incoming keys of the circuits on disk
  keystoneBkt,  \* circuit-keystones bucket: a set of keystones
  \* In memory.
  pending,      \* incoming keys of all circuits
  outgoing,     \* keystones the Outgoing fields of the circuits hold
  loaded,       \* circuits with LoadedFromDisk set
  opened,       \* the opened map, as a set of keystones
  closed,       \* circuits that already received a settle or fail
  hashIndex,    \* payment hash -> outgoing keys
  op,           \* the call each goroutine is inside of
  \* The channels around the map.
  committed,    \* NextLocalHtlcIndex of each outgoing channel, on disk
  allocated,    \* next HTLC id the outgoing link will open
  signed,       \* keystones whose outgoing HTLC is in a signed commitment
  acked,        \* incoming HTLCs whose response is signed (AckFilter)
  gone,         \* channels whose close is no longer pending
  \* History.
  trimFailed    \* has a database write of TrimOpenCircuits failed?

disk == <<addBkt, keystoneBkt>>
memory == <<pending, outgoing, loaded, opened, closed, hashIndex>>
channels == <<committed, allocated, signed, acked>>
vars == <<addBkt, keystoneBkt, pending, outgoing, loaded, opened, closed,
          hashIndex, op, committed, allocated, signed, acked, gone, trimFailed>>

-----------------------------------------------------------------------------
HtlcIds == 0..MaxHtlcId
Channels == OutChans \cup ({InChan[k] : k \in InKeys} \ {0})
OutKeys == OutChans \X HtlcIds

\* What OutKey() returns for a circuit without a keystone: the zero key of
\* hop.Source, which is no channel's id.
EmptyCircuitKey == <<0, 0>>

\* Keystone{InKey, OutKey}, with OutKey = (chan, id).
Keystone == [in : InKeys, chan : OutChans, id : HtlcIds]
OutKey(x) == <<x.chan, x.id>>

InKeysOf(ks) == {x.in : x \in ks}
OutKeysOf(ks) == {OutKey(x) : x \in ks}
On(ks, c) == {x \in ks : x.chan = c}

\* The keystones of a set that belong to circuits in K.
Of(ks, K) == {x \in ks : x.in \in K}

\* Writing ks into a map keyed by outgoing key replaces what is under its keys.
Without(base, ks) == {x \in base : \A y \in ks : OutKey(x) # OutKey(y)}
Put(base, ks) == Without(base, ks) \cup ks

HasKeystone(k) == \E x \in outgoing : x.in = k

\* Order of the keys in the keystone bucket: big-endian bytes.
Before(x, y) == \/ x.chan < y.chan
                \/ x.chan = y.chan /\ x.id < y.id

addCircuitToHashIndex(index, ks) ==
  [h \in Hashes |-> index[h] \cup OutKeysOf({x \in ks : PaymentHash[x.in] = h})]

\* delete(circuitsWithHash, outKey) for the keys that are OutKey() of a
\* circuit with that hash.
removeCircuitFromHashIndex(index, ks) ==
  [h \in Hashes |-> index[h] \ OutKeysOf({x \in ks : PaymentHash[x.in] = h})]

-----------------------------------------------------------------------------
Kinds == {"idle", "commit", "open", "publish", "delete", "trim"}

\* keys: the circuits the call is about; ks: their keystones; closing: those
\* that were marked closed; next: the HTLC counter after an open.
Call == [kind : Kinds, keys : SUBSET InKeys, ks : SUBSET Keystone,
         closing : SUBSET InKeys, next : 0..(MaxHtlcId + 1)]
Idle == [kind |-> "idle", keys |-> {}, ks |-> {}, closing |-> {}, next |-> 0]

InCall(kind, k) == \E p \in Callers : op[p].kind = kind /\ k \in op[p].keys
OnChannel(kind, c) == \E p \in Callers : op[p].kind = kind /\ On(op[p].ks, c) # {}
Opening(k) == InCall("open", k) \/ InCall("publish", k)
OpeningOn(c) == OnChannel("open", c) \/ OnChannel("publish", c)

Begin(p, call) == op[p].kind = "idle" /\ op' = [op EXCEPT ![p] = call]
Return(p) == op' = [op EXCEPT ![p] = Idle]

MapTypeOK ==
  /\ addBkt \subseteq InKeys
  /\ keystoneBkt \subseteq Keystone
  /\ pending \subseteq InKeys
  /\ outgoing \subseteq Keystone
  /\ loaded \subseteq InKeys
  /\ opened \subseteq Keystone
  /\ closed \subseteq InKeys
  /\ hashIndex \in [Hashes -> SUBSET OutKeys]
  /\ op \in [Callers -> Call]
  /\ committed \in [OutChans -> 0..(MaxHtlcId + 1)]
  /\ allocated \in [OutChans -> 0..(MaxHtlcId + 1)]
  /\ signed \subseteq Keystone
  /\ acked \subseteq InKeys
  /\ gone \subseteq Channels

\* Types of all variables.
TypeOK == MapTypeOK /\ trimFailed \in BOOLEAN

Init ==
  /\ addBkt = {} /\ keystoneBkt = {}
  /\ pending = {} /\ outgoing = {} /\ loaded = {}
  /\ opened = {} /\ closed = {}
  /\ hashIndex = [h \in Hashes |-> {}]
  /\ op = [p \in Callers |-> Idle]
  /\ committed = [c \in OutChans |-> 0]
  /\ allocated = [c \in OutChans |-> 0]
  /\ signed = {} /\ acked = {} /\ gone = {}
  /\ trimFailed = FALSE

-----------------------------------------------------------------------------
(* CommitCircuits.  A circuit that is already pending is dropped if it has *)
(* a keystone or was committed since the start (its packet is believed to  *)
(* be in a mailbox), and failed back if it was restored from disk without  *)
(* one.  The others are added: to memory now, to disk in the next step.    *)
(* Encode writes to a buffer in memory and does not fail.                  *)

Adds(K) == K \ pending
Drops(K) == {k \in K \cap pending : HasKeystone(k) \/ k \notin loaded}
Fails(K) == {k \in K \cap pending : ~HasKeystone(k) /\ k \in loaded}

CommitCircuits(p, K) ==
  /\ Adds(K) # {}
  \* caller: one link replays its own unacked HTLCs, one call at a time
  /\ \A k \in K : /\ ~InCall("commit", k) /\ ~InCall("delete", k)
                  /\ k \notin acked /\ InChan[k] \notin gone
  /\ pending' = pending \cup Adds(K)
  /\ Begin(p, [kind |-> "commit", keys |-> Adds(K), ks |-> {},
               closing |-> {}, next |-> 0])
  /\ UNCHANGED <<disk, outgoing, loaded, opened, closed, hashIndex, channels>>

CommitCircuitsWrite(p) ==
  /\ op[p].kind = "commit"
  /\ addBkt' = addBkt \cup op[p].keys
  /\ Return(p)
  /\ UNCHANGED <<keystoneBkt, memory, channels>>

\* Mutant: the rollback forgets the pending map.
CommitCircuitsNoRollback(p) ==
  /\ op[p].kind = "commit"
  /\ Return(p)
  /\ UNCHANGED <<disk, memory, channels>>

\* The write failed: the circuits leave memory and are failed back.
CommitCircuitsRollback(p) ==
  /\ op[p].kind = "commit"
  /\ pending' = pending \ op[p].keys
  /\ Return(p)
  /\ UNCHANGED <<disk, outgoing, loaded, opened, closed, hashIndex, channels>>

-----------------------------------------------------------------------------
(* OpenCircuits.  The keystones are checked against memory, written to     *)
(* disk, and only then published in memory.                                *)

\* caller: the link of channel c opens, with the next HTLC ids up to n, the
\* circuits of Adds it took from its mailbox.
KeystoneBatch(c, n, ks) ==
  /\ c \notin gone /\ ~OpeningOn(c) /\ ~OnChannel("trim", c)
  /\ ks # {}
  /\ \A x \in ks : x.chan = c /\ x.id \in allocated[c]..(n - 1)
  /\ \A i \in allocated[c]..(n - 1) : \E x \in ks : x.id = i
  /\ \A x, y \in ks : (x.in = y.in \/ x.id = y.id) => x = y
  /\ \A x \in ks : /\ ~HasKeystone(x.in)
                   /\ x.in \notin closed \cup loaded \cup acked /\ InChan[x.in] \notin gone
                   /\ ~InCall("commit", x.in) /\ ~InCall("delete", x.in)
                   /\ ~Opening(x.in) /\ ~InCall("trim", x.in)

\* The batch that opens the circuit f[i] with HTLC id i on channel c.
Batch(c, f) == {[in |-> f[i], chan |-> c, id |-> i] : i \in DOMAIN f}

OpenCircuits(p, c, n, ks) ==
  /\ Begin(p, [kind |-> "open", keys |-> InKeysOf(ks), ks |-> ks,
               closing |-> {}, next |-> n])
  \* ErrUnknownCircuit, ErrDuplicateKeystone
  /\ InKeysOf(ks) \subseteq pending
  /\ OutKeysOf(ks) \cap OutKeysOf(opened) = {}
  /\ KeystoneBatch(c, n, ks)
  /\ UNCHANGED <<disk, memory, channels>>

OpenCircuitsWrite(p) ==
  /\ op[p].kind = "open"
  /\ keystoneBkt' = Put(keystoneBkt, op[p].ks)
  /\ op' = [op EXCEPT ![p].kind = "publish"]
  /\ UNCHANGED <<addBkt, memory, channels>>

OpenCircuitsError(p) ==
  /\ op[p].kind = "open"
  /\ Return(p)
  /\ UNCHANGED <<disk, memory, channels>>

\* Outgoing is set, the circuit enters opened and the hash index.
OpenCircuitsPublish(p) ==
  LET ks == op[p].ks IN
  /\ op[p].kind = "publish"
  /\ outgoing' = {x \in outgoing : x.in \notin op[p].keys} \cup ks
  /\ opened' = Put(opened, ks)
  /\ hashIndex' = addCircuitToHashIndex(hashIndex, ks)
  \* caller: the link's HTLC counter is past the batch
  /\ allocated' = [c \in OutChans |->
                     IF On(ks, c) # {} THEN op[p].next ELSE allocated[c]]
  /\ Return(p)
  /\ UNCHANGED <<disk, pending, loaded, closed, committed, signed, acked>>

-----------------------------------------------------------------------------
(* CloseCircuit and FailCircuit let one response per circuit through.      *)

CloseCircuit(x) ==
  /\ x \in opened
  /\ x.in \notin closed
  \* caller: a response arrives for an HTLC in a signed commitment
  /\ x \in signed
  /\ closed' = closed \cup {x.in}
  /\ UNCHANGED <<disk, pending, outgoing, loaded, opened, hashIndex, op, channels>>

FailCircuit(k) ==
  /\ k \in pending
  /\ k \notin closed
  \* caller: the outgoing mailbox gave up on the Add, no link holds it
  /\ ~HasKeystone(k) /\ ~Opening(k) /\ ~InCall("trim", k) /\ ~InCall("commit", k)
  /\ closed' = closed \cup {k}
  /\ UNCHANGED <<disk, pending, outgoing, loaded, opened, hashIndex, op, channels>>

-----------------------------------------------------------------------------
(* DeleteCircuits.  The circuits leave memory, then disk; if the database  *)
(* refuses, everything is put back.  Unknown keys are ignored.             *)

DeleteCircuits(p, K) ==
  LET removed == K \cap pending
      ks == Of(outgoing, removed) IN
  /\ removed # {}
  \* caller: the incoming link signed the responses before
  /\ \A k \in removed : /\ k \in acked /\ InChan[k] \notin gone
                        /\ ~InCall("commit", k) /\ ~Opening(k) /\ ~InCall("trim", k)
  /\ pending' = pending \ removed
  /\ closed' = closed \ removed
  /\ opened' = Without(opened, ks)
  /\ outgoing' = outgoing \ ks
  /\ hashIndex' = removeCircuitFromHashIndex(hashIndex, ks)
  /\ Begin(p, [kind |-> "delete", keys |-> removed, ks |-> ks,
               closing |-> closed \cap removed, next |-> 0])
  /\ UNCHANGED <<disk, loaded, channels>>

DeleteCircuitsWrite(p) ==
  /\ op[p].kind = "delete"
  /\ addBkt' = addBkt \ op[p].keys
  /\ keystoneBkt' = Without(keystoneBkt, op[p].ks)
  /\ loaded' = loaded \ op[p].keys
  /\ Return(p)
  /\ UNCHANGED <<pending, outgoing, opened, closed, hashIndex, channels>>

\* Mutant: the hash index is not restored.
DeleteCircuitsRestoreNoIndex(p) ==
  LET ks == op[p].ks IN
  /\ op[p].kind = "delete"
  /\ pending' = pending \cup op[p].keys
  /\ closed' = closed \cup op[p].closing
  /\ opened' = Put(opened, ks)
  /\ outgoing' = outgoing \cup ks
  /\ Return(p)
  /\ UNCHANGED <<disk, loaded, hashIndex, channels>>

DeleteCircuitsRestore(p) ==
  LET ks == op[p].ks IN
  /\ op[p].kind = "delete"
  /\ pending' = pending \cup op[p].keys
  /\ closed' = closed \cup op[p].closing
  /\ opened' = Put(opened, ks)
  /\ outgoing' = outgoing \cup ks
  /\ hashIndex' = addCircuitToHashIndex(hashIndex, ks)
  /\ Return(p)
  /\ UNCHANGED <<disk, loaded, channels>>

-----------------------------------------------------------------------------
(* TrimOpenCircuits.  The keystones of a channel at and above start return *)
(* to half open, scanning up until the first id that is not open.          *)

\* Mutant: the scan starts one id too early.
TrimmedTooEarly(ks, c, start) ==
  {x \in On(ks, c) : /\ x.id + 1 >= start
                     /\ \A i \in start..x.id : \E y \in On(ks, c) : y.id = i}

Trimmed(ks, c, start) ==
  {x \in On(ks, c) : /\ x.id >= start
                     /\ \A i \in start..x.id : \E y \in On(ks, c) : y.id = i}

TrimOpenCircuits(p, c) ==
  LET ks == Trimmed(opened, c, committed[c]) IN
  \* caller: the link of c starts, its predecessor has stopped
  /\ c \notin gone /\ ~OpeningOn(c) /\ ~OnChannel("trim", c)
  /\ allocated' = [allocated EXCEPT ![c] = committed[c]]
  /\ outgoing' = {x \in outgoing : x.in \notin InKeysOf(ks)}
  /\ opened' = opened \ ks
  \* Outgoing is already nil, so OutKey() is the empty key for each of them.
  /\ hashIndex' = [h \in Hashes |->
        IF \E x \in ks : PaymentHash[x.in] = h
          THEN hashIndex[h] \ {EmptyCircuitKey} ELSE hashIndex[h]]
  /\ IF ks = {}
       THEN op[p].kind = "idle" /\ UNCHANGED op
       ELSE Begin(p, [kind |-> "trim", keys |-> InKeysOf(ks), ks |-> ks,
                      closing |-> {}, next |-> 0])
  /\ UNCHANGED <<disk, pending, loaded, closed, committed, signed, acked>>

TrimOpenCircuitsWrite(p) ==
  /\ op[p].kind = "trim"
  /\ keystoneBkt' = Without(keystoneBkt, op[p].ks)
  /\ Return(p)
  /\ UNCHANGED <<addBkt, memory, channels>>

\* The write failed and the link does not start; memory stays trimmed.
TrimOpenCircuitsError(p) ==
  /\ op[p].kind = "trim"
  /\ trimFailed' = TRUE
  /\ Return(p)
  /\ UNCHANGED <<disk, memory, channels>>

-----------------------------------------------------------------------------
(* The process crashes, in the middle of any calls, and NewCircuitMap      *)
(* rebuilds the map: cleanClosedChannels deletes what belongs to channels  *)
(* that are gone, restoreMemState loads the buckets, keeping for a circuit *)
(* the last keystone in key order, and trimAllOpenCircuits trims every     *)
(* channel before any link starts.  The database only loses what the next  *)
(* restart would take as well, so a second crash inside is a restart again.*)

\* Mutant: the zero channel id of a local payment counts as closed.
CleanedKeystonesLocal ==
  {x \in keystoneBkt : InChan[x.in] \in gone \cup {0} \/ x.chan \in gone}

\* The keystones of a channel that is gone, on either side, and the circuits.
CleanedKeystones == {x \in keystoneBkt : InChan[x.in] \in gone \/ x.chan \in gone}
CleanedCircuits == {k \in addBkt : InChan[k] \in gone} \cup InKeysOf(CleanedKeystones)

Kept == addBkt \ CleanedCircuits
Restored == Of(keystoneBkt \ CleanedKeystones, Kept)
LastOutgoing == {x \in Restored : \A y \in Restored : y.in = x.in => ~Before(x, y)}
\* trimAllOpenCircuits, with every outgoing channel taken as open.  The code skips one that
\* waits for its closing transaction to confirm: no link works for it any more, and the
\* keystones it had not signed stay until it is marked fully closed.
TrimmedAtStart == UNION {Trimmed(Restored, c, committed[c]) : c \in OutChans}

NewCircuitMap ==
  /\ addBkt' = Kept
  /\ pending' = Kept
  /\ loaded' = Kept
  /\ closed' = {}
  /\ opened' = Restored \ TrimmedAtStart
  /\ outgoing' = {x \in LastOutgoing : x.in \notin InKeysOf(TrimmedAtStart)}
  \* the hash index is built from the restored map before it is trimmed
  /\ hashIndex' = addCircuitToHashIndex([h \in Hashes |-> {}], LastOutgoing)
  /\ keystoneBkt' = (keystoneBkt \ CleanedKeystones) \ TrimmedAtStart
  /\ op' = [p \in Callers |-> Idle]
  /\ allocated' = committed
  /\ UNCHANGED <<committed, signed, acked>>

-----------------------------------------------------------------------------
(* The channels around the map.                                            *)

\* caller: after OpenCircuits the link of c signs a commitment with all of
\* its Adds (updateCommitTx).
SignNextCommitment(c) ==
  /\ c \notin gone /\ ~OpeningOn(c) /\ ~OnChannel("trim", c)
  /\ allocated[c] > committed[c]
  /\ committed' = [committed EXCEPT ![c] = allocated[c]]
  /\ signed' = signed \cup {x \in On(opened, c) : x.id >= committed[c]}
  /\ UNCHANGED <<disk, memory, op, allocated, acked>>

\* caller: the incoming link signs a commitment that settles or fails k, and
\* acks its Add in the same transaction.  The response came through the map, or
\* CommitCircuits failed the Add, or it was never committed.
SignResponse(k) ==
  /\ k \notin acked /\ InChan[k] \notin gone
  /\ \/ k \in closed
     \/ (k \in Fails({k}) \/ k \notin pending) /\ ~Opening(k) /\ ~InCall("trim", k)
  /\ ~InCall("commit", k)
  /\ acked' = acked \cup {k}
  /\ UNCHANGED <<disk, memory, op, committed, allocated, signed>>

\* caller: the last contract of a closed channel is resolved on chain, blocks after
\* its link has stopped and the mailboxes have given up its Adds.
MarkChanFullyClosed(c) ==
  /\ c \notin gone
  /\ ~OpeningOn(c) /\ ~OnChannel("trim", c)
  /\ \A p \in Callers : \A k \in op[p].keys : InChan[k] # c
  /\ \A x \in opened : InChan[x.in] = c => x.id < committed[x.chan]
  /\ gone' = gone \cup {c}
  /\ UNCHANGED <<disk, memory, op, channels>>

Step ==
  \/ \E p \in Callers :
       \/ \E K \in SUBSET InKeys : CommitCircuits(p, K) \/ DeleteCircuits(p, K)
       \/ \E c \in OutChans, n \in 1..(MaxHtlcId + 1) :
            \E f \in [allocated[c]..(n - 1) -> InKeys] :
               OpenCircuits(p, c, n, Batch(c, f))
       \/ \E c \in OutChans : TrimOpenCircuits(p, c)
       \/ CommitCircuitsWrite(p) \/ CommitCircuitsRollback(p)
       \/ OpenCircuitsWrite(p) \/ OpenCircuitsError(p) \/ OpenCircuitsPublish(p)
       \/ DeleteCircuitsWrite(p) \/ DeleteCircuitsRestore(p)
       \/ TrimOpenCircuitsWrite(p)
  \/ \E x \in Keystone : CloseCircuit(x)
  \/ \E k \in InKeys : FailCircuit(k) \/ SignResponse(k)
  \/ \E c \in OutChans : SignNextCommitment(c)
  \/ NewCircuitMap

Next ==
  \/ Step /\ UNCHANGED <<gone, trimFailed>>
  \/ \E p \in Callers : TrimOpenCircuitsError(p) /\ UNCHANGED gone
  \/ \E c \in Channels : MarkChanFullyClosed(c) /\ UNCHANGED trimFailed

Spec == Init /\ [][Next]_vars

-----------------------------------------------------------------------------
(* Properties.                                                             *)

\* LookupByPaymentHash(h): the circuits found under the keys the index lists.
LookupByPaymentHash(h) == {x \in opened : OutKey(x) \in hashIndex[h]}

\* The incoming link has still to sign a response, and neither channel is gone.
Unanswered(x) == x.in \notin acked /\ x.chan \notin gone /\ InChan[x.in] \notin gone

\* An HTLC that reached a signed outgoing commitment keeps its circuit, in
\* memory and on disk, until the response of the incoming link is signed: the
\* response can always be routed back, and a replay of the incoming Add is
\* dropped and never failed back (CommitCircuits), whatever crashes come,
\* until one of its channels is gone or the write of a trim fails.
SignedStaysOpen == trimFailed \/
  \A x \in signed : Unanswered(x) =>
     /\ x \in opened /\ x \in outgoing /\ x.in \in pending
     /\ x \in keystoneBkt /\ x.in \in addBkt

AtMostOnce ==
  \A x, y \in signed :
     \/ x.in = y.in /\ x.chan \notin gone /\ y.chan \notin gone
     \/ OutKey(x) = OutKey(y)
     => x = y

\* One incoming HTLC is forwarded by at most one signed outgoing HTLC of a channel
\* that is not gone, and one outgoing HTLC forwards one incoming HTLC, until the
\* write of a trim fails.
ForwardedOnce == trimFailed \/ AtMostOnce

\* "There should never be disjoint segments of keystones to trim": the open
\* circuits at and above the committed index of a channel have consecutive
\* ids, so the scan of TrimOpenCircuits finds all of them, until the write of
\* a trim fails.
NoDisjointSegments == trimFailed \/
  \A c \in OutChans : Trimmed(opened, c, committed[c])
                        = {x \in On(opened, c) : x.id >= committed[c]}

\* The opened map and the Outgoing fields name the same keystones: the two
\* ways of asking whether a circuit is open agree.
OpenedAgrees == opened = outgoing

\* Every circuit in memory is on disk, and the other way round, except for
\* those whose call is between its memory step and its database step.
MemoryMatchesDisk ==
  /\ \A k \in pending : k \in addBkt \/ InCall("commit", k)
  /\ \A k \in addBkt : k \in pending \/ InCall("delete", k)

\* A lookup by payment hash finds every open circuit with that hash, until the
\* write of a trim fails.
LookupFindsOpen == trimFailed \/
  \A x \in opened : x \in LookupByPaymentHash(PaymentHash[x.in])

-----------------------------------------------------------------------------
(* The inductive invariant behind SignedStaysOpen, ForwardedOnce and       *)
(* NoDisjointSegments, for the map whose trim writes do not fail.          *)

\* No two keystones share a circuit or an outgoing key.
OneToOne(ks) ==
  \A x, y \in ks : (x.in = y.in \/ OutKey(x) = OutKey(y)) => x = y

\* No gap between start and any id of channel c.
NoGap(ks, c, start) ==
  \A x \in ks : (x.chan = c /\ x.id >= start) =>
     \A i \in start..x.id : \E y \in ks : y.chan = c /\ y.id = i

\* What is on disk.
DiskInv ==
  /\ OneToOne(keystoneBkt)
  /\ \A x \in keystoneBkt : x.in \in addBkt
  /\ \A c \in OutChans : NoGap(keystoneBkt, c, committed[c])
  /\ \A x \in keystoneBkt : \/ x \in opened
                             \/ \E p \in Callers :
                                  /\ op[p].kind \in {"publish", "delete", "trim"}
                                  /\ x \in op[p].ks

\* What is in memory: ids from committed up to allocated are open, with
\* nothing decided about their circuits, and no id above.
MemoryInv ==
  /\ OpenedAgrees
  /\ \A x \in opened : x \in keystoneBkt /\ x.in \in pending
  /\ \A c \in OutChans : committed[c] <= allocated[c]
  /\ \A x \in opened : x.id < allocated[x.chan]
  /\ \A c \in OutChans : \A i \in committed[c]..(allocated[c] - 1) :
        \E x \in opened : x.chan = c /\ x.id = i
  /\ \A x \in opened : x.id >= committed[x.chan] =>
        x.in \notin closed /\ x.in \notin acked
  /\ MemoryMatchesDisk

\* What a call in progress relies on.
CallInv(call) ==
  /\ \A x \in call.ks : x.in \in call.keys
  /\ call.kind = "idle" => call.keys = {}
  /\ call.kind = "commit" =>
       /\ call.ks = {} /\ call.keys \subseteq pending
       /\ call.keys \cap addBkt = {} /\ call.keys \cap acked = {}
  /\ call.kind \in {"open", "publish", "trim"} =>
       /\ call.keys \subseteq pending \cap addBkt
       /\ call.keys \cap (acked \cup closed) = {}
       /\ \A k \in call.keys : \E x \in call.ks : x.in = k
       /\ \A x \in opened : x.in \notin call.keys
       /\ \A x, y \in call.ks : x.chan = y.chan
  /\ call.kind \in {"open", "publish"} =>
       /\ OneToOne(call.ks)
       /\ \A x \in call.ks : x.id \in allocated[x.chan]..(call.next - 1)
       /\ \A x \in call.ks : \A i \in allocated[x.chan]..(call.next - 1) :
            \E y \in call.ks : y.id = i
  /\ call.kind = "trim" =>
       \A x \in call.ks : /\ x.id >= committed[x.chan]
                           /\ allocated[x.chan] = committed[x.chan]
  /\ call.kind \in {"publish", "delete", "trim"} =>
       call.ks \subseteq keystoneBkt
  /\ call.kind = "delete" =>
       /\ call.keys \cap pending = {} /\ call.keys \subseteq addBkt
       /\ call.keys \subseteq acked /\ call.closing \subseteq call.keys
       /\ \A x \in keystoneBkt : x.in \in call.keys => x \in call.ks
       /\ \A x \in call.ks : x.id < committed[x.chan]

\* Two calls never work on one circuit, and a channel has one opening or
\* trimming call at a time.
CallsInv ==
  /\ \A p \in Callers : CallInv(op[p])
  /\ \A p, q \in Callers : p # q => op[p].keys \cap op[q].keys = {}
  /\ \A p, q \in Callers :
       /\ p # q
       /\ op[p].kind \in {"open", "publish", "trim"}
       /\ op[q].kind \in {"open", "publish", "trim"}
       => \A x \in op[p].ks, y \in op[q].ks : x.chan # y.chan

\* The signed commitments.
SignedInv ==
  /\ \A x \in signed : x.id < committed[x.chan]
  /\ \A x \in signed : Unanswered(x) => x \in opened
  /\ AtMostOnce

\* Nothing of an incoming channel that is gone is being forwarded: cleaning up
\* leaves no gap among the keystones that are not yet committed.
GoneInv ==
  /\ \A x \in keystoneBkt : InChan[x.in] \in gone =>
        x.id < committed[x.chan] \/ x.chan \in gone
  /\ \A p \in Callers : op[p].kind \in {"open", "publish"} =>
        \A x \in op[p].ks : InChan[x.in] \notin gone

CircuitMapInv ==
  MapTypeOK /\ DiskInv /\ MemoryInv /\ CallsInv /\ SignedInv /\ GoneInv

\* The invariant holds until the write of a trim fails: from then on memory has
\* trimmed what the disk has not (TrimOpenCircuits does not undo its step).
InvUntilTrimFails == trimFailed \/ CircuitMapInv

=============================================================================
