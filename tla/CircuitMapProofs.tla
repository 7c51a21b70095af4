-------------------------- MODULE CircuitMapProofs --------------------------
(***************************************************************************)
(* The safety of the circuit map, for any number of HTLCs, channels and    *)
(* concurrent callers, until a database write of TrimOpenCircuits fails.   *)
(* CircuitMapInv is inductive: one lemma per action shows that the action  *)
(* keeps it, split into the parts of the invariant, and into their         *)
(* conjuncts where the reason differs.  GoneInv, which few actions can     *)
(* disturb, has a lemma of its own.                                        *)
(***************************************************************************)
EXTENDS CircuitMap, TLAPS

(* Types. *)

LEMMA IdleType == Idle \in Call
BY CircuitMapAssumption DEF Idle, Call, Kinds

LEMMA ReturnType ==
  ASSUME MapTypeOK, NEW p \in Callers, Return(p)
  PROVE  op' \in [Callers -> Call]
BY IdleType DEF MapTypeOK, Return

LEMMA BeginType ==
  ASSUME MapTypeOK, NEW p \in Callers, NEW call \in Call, Begin(p, call)
  PROVE  op' \in [Callers -> Call]
BY DEF MapTypeOK, Begin

LEMMA CallFields ==
  ASSUME MapTypeOK, NEW p \in Callers
  PROVE  /\ op[p] \in Call
         /\ op[p].kind \in Kinds
         /\ op[p].keys \subseteq InKeys
         /\ op[p].ks \subseteq Keystone
         /\ op[p].closing \subseteq InKeys
         /\ op[p].next \in 0..(MaxHtlcId + 1)
BY DEF MapTypeOK, Call

LEMMA HashIndexType ==
  ASSUME NEW index \in [Hashes -> SUBSET OutKeys], NEW ks \in SUBSET Keystone
  PROVE  /\ addCircuitToHashIndex(index, ks) \in [Hashes -> SUBSET OutKeys]
         /\ removeCircuitFromHashIndex(index, ks) \in [Hashes -> SUBSET OutKeys]
<1>1. \A x \in Keystone : OutKey(x) \in OutKeys
  BY DEF Keystone, OutKey, OutKeys
<1>2. \A s \in SUBSET Keystone : OutKeysOf(s) \subseteq OutKeys
  BY <1>1 DEF OutKeysOf
<1> QED
  BY <1>2 DEF addCircuitToHashIndex, removeCircuitFromHashIndex

(* Initial states. *)
LEMMA InitType == Init => MapTypeOK
BY IdleType, CircuitMapAssumption DEF Init, MapTypeOK

(* Every step keeps the types. *)
LEMMA NextType == MapTypeOK /\ [Next]_vars => MapTypeOK'
<1> SUFFICES ASSUME MapTypeOK, [Next]_vars PROVE MapTypeOK'
  OBVIOUS
<1> USE CircuitMapAssumption
<1>1. ASSUME NEW p \in Callers, NEW K \in SUBSET InKeys, CommitCircuits(p, K), UNCHANGED gone
      PROVE  MapTypeOK'
  <2>1. [kind |-> "commit", keys |-> Adds(K), ks |-> {},
         closing |-> {}, next |-> 0] \in Call
    BY DEF Idle, Call, Kinds, Adds
  <2>2. op' \in [Callers -> Call]
    BY <1>1, <2>1, BeginType DEF CommitCircuits
  <2> QED
    BY <1>1, <2>2 DEF CommitCircuits, MapTypeOK, Adds, disk, channels
<1>2. ASSUME NEW p \in Callers, NEW K \in SUBSET InKeys, DeleteCircuits(p, K), UNCHANGED gone
      PROVE  MapTypeOK'
  <2> DEFINE removed == K \cap pending
             ks == Of(outgoing, removed)
  <2>1. ks \subseteq Keystone
    BY DEF MapTypeOK, Of
  <2>2. [kind |-> "delete", keys |-> removed, ks |-> ks,
         closing |-> closed \cap removed, next |-> 0] \in Call
    BY <2>1 DEF Call, Kinds
  <2>3. op' \in [Callers -> Call]
    BY <1>2, <2>2, BeginType DEF DeleteCircuits
  <2>4. hashIndex' \in [Hashes -> SUBSET OutKeys]
    BY <1>2, <2>1, HashIndexType DEF DeleteCircuits, MapTypeOK
  <2> QED
    BY <1>2, <2>3, <2>4 DEF DeleteCircuits, MapTypeOK, Without, disk, channels
<1>3. ASSUME NEW p \in Callers, NEW c \in OutChans,
             NEW n \in 1..(MaxHtlcId + 1),
             NEW f \in [allocated[c]..(n - 1) -> InKeys],
             OpenCircuits(p, c, n, Batch(c, f)), UNCHANGED gone
      PROVE  MapTypeOK'
  <2>1. Batch(c, f) \subseteq Keystone
    <3>1. allocated[c] \in Nat
      BY DEF MapTypeOK
    <3> QED
      BY <3>1 DEF Batch, Keystone, HtlcIds
  <2>2. InKeysOf(Batch(c, f)) \subseteq InKeys
    BY <2>1 DEF InKeysOf, Keystone
  <2>3. [kind |-> "open", keys |-> InKeysOf(Batch(c, f)), ks |-> Batch(c, f),
         closing |-> {}, next |-> n] \in Call
    BY <2>1, <2>2 DEF Call, Kinds
  <2>4. op' \in [Callers -> Call]
    BY <1>3, <2>3, BeginType DEF OpenCircuits
  <2> QED
    BY <1>3, <2>4 DEF OpenCircuits, MapTypeOK, disk, memory, channels
<1>4. ASSUME NEW p \in Callers, NEW c \in OutChans, TrimOpenCircuits(p, c), UNCHANGED gone
      PROVE  MapTypeOK'
  <2> DEFINE ks == Trimmed(opened, c, committed[c])
  <2>1. ks \subseteq Keystone
    BY DEF MapTypeOK, Trimmed, On
  <2>2. InKeysOf(ks) \subseteq InKeys
    BY <2>1 DEF InKeysOf, Keystone
  <2>3. [kind |-> "trim", keys |-> InKeysOf(ks), ks |-> ks,
         closing |-> {}, next |-> 0] \in Call
    BY <2>1, <2>2 DEF Call, Kinds
  <2>4. op' \in [Callers -> Call]
    <3>1. CASE ks = {}
      BY <1>4, <3>1 DEF TrimOpenCircuits, MapTypeOK
    <3>2. CASE ks # {}
      BY <1>4, <2>3, <3>2, BeginType DEF TrimOpenCircuits
    <3> QED
      BY <3>1, <3>2
  <2>5. hashIndex' \in [Hashes -> SUBSET OutKeys]
    BY <1>4 DEF TrimOpenCircuits, MapTypeOK
  <2> QED
    BY <1>4, <2>4, <2>5 DEF TrimOpenCircuits, MapTypeOK, disk
<1>5. ASSUME NEW p \in Callers,
             CommitCircuitsWrite(p) \/ CommitCircuitsRollback(p)
               \/ OpenCircuitsError(p), UNCHANGED gone
      PROVE  MapTypeOK'
  <2>1. op' \in [Callers -> Call]
    BY <1>5, ReturnType
       DEF CommitCircuitsWrite, CommitCircuitsRollback, OpenCircuitsError
  <2> QED
    BY <1>5, <2>1, CallFields
       DEF CommitCircuitsWrite, CommitCircuitsRollback, OpenCircuitsError,
           MapTypeOK, disk, memory, channels
<1>6. ASSUME NEW p \in Callers, OpenCircuitsWrite(p), UNCHANGED gone
      PROVE  MapTypeOK'
  <2>1. op' \in [Callers -> Call]
    BY <1>6, CallFields DEF OpenCircuitsWrite, MapTypeOK, Call, Kinds
  <2> QED
    BY <1>6, <2>1, CallFields
       DEF OpenCircuitsWrite, MapTypeOK, Put, Without, memory, channels
<1>7. ASSUME NEW p \in Callers, OpenCircuitsPublish(p), UNCHANGED gone
      PROVE  MapTypeOK'
  <2>1. op' \in [Callers -> Call]
    BY <1>7, ReturnType DEF OpenCircuitsPublish
  <2>2. hashIndex' \in [Hashes -> SUBSET OutKeys]
    BY <1>7, HashIndexType, CallFields DEF OpenCircuitsPublish, MapTypeOK
  <2> QED
    BY <1>7, <2>1, <2>2, CallFields
       DEF OpenCircuitsPublish, MapTypeOK, Put, Without, disk
<1>8. ASSUME NEW p \in Callers,
             DeleteCircuitsWrite(p) \/ TrimOpenCircuitsWrite(p)
               \/ TrimOpenCircuitsError(p), UNCHANGED gone
      PROVE  MapTypeOK'
  <2>1. op' \in [Callers -> Call]
    BY <1>8, ReturnType
       DEF DeleteCircuitsWrite, TrimOpenCircuitsWrite, TrimOpenCircuitsError
  <2> QED
    BY <1>8, <2>1, CallFields
       DEF DeleteCircuitsWrite, TrimOpenCircuitsWrite, TrimOpenCircuitsError,
           MapTypeOK, Without, disk, memory, channels
<1>9. ASSUME NEW p \in Callers, DeleteCircuitsRestore(p), UNCHANGED gone
      PROVE  MapTypeOK'
  <2>1. op' \in [Callers -> Call]
    BY <1>9, ReturnType DEF DeleteCircuitsRestore
  <2>2. hashIndex' \in [Hashes -> SUBSET OutKeys]
    BY <1>9, HashIndexType, CallFields DEF DeleteCircuitsRestore, MapTypeOK
  <2> QED
    BY <1>9, <2>1, <2>2, CallFields
       DEF DeleteCircuitsRestore, MapTypeOK, Put, Without, disk, channels
<1>10. ASSUME NEW x \in Keystone, CloseCircuit(x), UNCHANGED gone
       PROVE  MapTypeOK'
  BY <1>10 DEF CloseCircuit, MapTypeOK, Keystone, disk, channels
<1>11. ASSUME NEW k \in InKeys, FailCircuit(k) \/ SignResponse(k), UNCHANGED gone
       PROVE  MapTypeOK'
  BY <1>11 DEF FailCircuit, SignResponse, MapTypeOK, disk, memory, channels
<1>12. ASSUME NEW c \in OutChans, SignNextCommitment(c), UNCHANGED gone
       PROVE  MapTypeOK'
  BY <1>12 DEF SignNextCommitment, MapTypeOK, On, disk, memory
<1>13. ASSUME NewCircuitMap, UNCHANGED gone
       PROVE  MapTypeOK'
  <2>1. Restored \subseteq Keystone /\ LastOutgoing \subseteq Keystone
    BY DEF Restored, LastOutgoing, Of, Kept, MapTypeOK
  <2>2. hashIndex' \in [Hashes -> SUBSET OutKeys]
    <3>1. [h \in Hashes |-> {}] \in [Hashes -> SUBSET OutKeys]
      OBVIOUS
    <3> QED
      BY <1>13, <2>1, <3>1, HashIndexType DEF NewCircuitMap
  <2>3. op' \in [Callers -> Call]
    BY <1>13, IdleType DEF NewCircuitMap
  <2> QED
    BY <1>13, <2>1, <2>2, <2>3 DEF NewCircuitMap, Kept, MapTypeOK
<1>14. ASSUME UNCHANGED vars
       PROVE  MapTypeOK'
  BY <1>14 DEF vars, MapTypeOK
<1>15. ASSUME NEW c \in Channels, MarkChanFullyClosed(c)
       PROVE  MapTypeOK'
  BY <1>15 DEF MarkChanFullyClosed, MapTypeOK, disk, memory, channels
<1> QED
  BY <1>1, <1>2, <1>3, <1>4, <1>5, <1>6, <1>7, <1>8, <1>9, <1>10, <1>11,
     <1>12, <1>13, <1>14, <1>15 DEF Next, Step

\* The variables of the circuit map keep their types.
THEOREM TypeCorrect == Spec => []TypeOK
<1>1. Init => TypeOK
  BY InitType DEF Init, TypeOK
<1>2. TypeOK /\ [Next]_vars => TypeOK'
  BY NextType DEF TypeOK, Next, TrimOpenCircuitsError, vars
<1> QED
  BY <1>1, <1>2, PTL DEF Spec

-----------------------------------------------------------------------------
(* Safety. *)

InvParts == DiskInv /\ MemoryInv /\ CallsInv /\ SignedInv

LEMMA NumberTypes ==
  ASSUME MapTypeOK
  PROVE  /\ \A c \in OutChans : committed[c] \in Nat /\ allocated[c] \in Nat
         /\ \A x \in Keystone : /\ x.id \in Nat /\ x.chan \in OutChans
                               /\ x.in \in InKeys
         /\ \A p \in Callers : op[p].next \in Nat
BY CircuitMapAssumption DEF MapTypeOK, Keystone, HtlcIds, Call

\* Under the invariant an open circuit or an incoming HTLC determines its
\* keystone.
LEMMA OpenedOneToOne ==
  ASSUME CircuitMapInv
  PROVE  \A x, y \in opened : (x.in = y.in \/ OutKey(x) = OutKey(y)) => x = y
BY DEF CircuitMapInv, DiskInv, MemoryInv, OneToOne

\* The scan of TrimOpenCircuits reaches every keystone that is not committed.
LEMMA TrimReachesAll ==
  ASSUME CircuitMapInv
  PROVE  \A c \in OutChans : Trimmed(opened, c, committed[c])
                               = {x \in On(opened, c) : x.id >= committed[c]}
<1> SUFFICES ASSUME NEW c \in OutChans, NEW x \in On(opened, c),
                    x.id >= committed[c], NEW i \in committed[c]..x.id
             PROVE  \E y \in On(opened, c) : y.id = i
  BY DEF Trimmed
<1>1. x \in opened /\ x.chan = c /\ x.id < allocated[c]
  BY DEF On, CircuitMapInv, MemoryInv
<1>2. x.id \in Nat /\ committed[c] \in Nat /\ allocated[c] \in Nat
  BY <1>1, CircuitMapAssumption DEF CircuitMapInv, MapTypeOK, Keystone, HtlcIds
<1>3. i \in committed[c]..(allocated[c] - 1)
  BY <1>1, <1>2
<1> QED
  BY <1>3 DEF CircuitMapInv, MemoryInv, On

\* After cleanClosedChannels the keystones left have their circuits, and the
\* scan of trimAllOpenCircuits reaches every one that is not committed.
LEMMA RestoredIsDisk ==
  ASSUME CircuitMapInv
  PROVE  /\ Restored = keystoneBkt \ CleanedKeystones
         /\ TrimmedAtStart = {x \in keystoneBkt \ CleanedKeystones :
                                x.id >= committed[x.chan]}
<1> DEFINE R == keystoneBkt \ CleanedKeystones
<1> USE DEF CircuitMapInv, DiskInv, GoneInv
<1>1. \A x \in R : x.in \in Kept
  <2>1. \A x \in R, y \in CleanedKeystones : x.in # y.in
    BY DEF CleanedKeystones, OneToOne
  <2> QED
    BY <2>1 DEF Kept, CleanedCircuits, CleanedKeystones, InKeysOf
<1>2. Restored = R
  BY <1>1 DEF Restored, Of
<1>3. \A x \in R : x \in Keystone /\ x.chan \in OutChans /\ x.chan \notin gone
  BY NumberTypes DEF MapTypeOK, CleanedKeystones
<1>4. \A x \in keystoneBkt : x.chan \notin gone /\ x.id >= committed[x.chan] => x \in R
  BY NumberTypes DEF MapTypeOK, CleanedKeystones
<1>5. \A c \in OutChans : Trimmed(R, c, committed[c])
                            = {x \in R : x.chan = c /\ x.id >= committed[c]}
  <2> SUFFICES ASSUME NEW c \in OutChans, NEW x \in R, x.chan = c,
                      x.id >= committed[c], NEW i \in committed[c]..x.id
               PROVE  \E y \in R : y.chan = c /\ y.id = i
    BY DEF Trimmed, On
  <2>1. PICK y \in keystoneBkt : y.chan = c /\ y.id = i
    BY DEF NoGap
  <2>2. y.id >= committed[c]
    BY <1>3, <2>1, NumberTypes
  <2> QED
    BY <1>3, <1>4, <2>1, <2>2
<1>6. TrimmedAtStart = {x \in R : x.id >= committed[x.chan]}
  <2>1. \A x : x \in TrimmedAtStart
                <=> \E c \in OutChans : x \in Trimmed(R, c, committed[c])
    BY <1>2 DEF TrimmedAtStart
  <2> HIDE DEF R
  <2>2. \A x : x \in TrimmedAtStart
                <=> \E c \in OutChans : x \in R /\ x.chan = c /\ x.id >= committed[c]
    BY <1>5, <2>1
  <2> QED
    BY <1>3, <2>2
<1> QED
  BY <1>2, <1>6

-----------------------------------------------------------------------------
(* Calls that commit circuits. *)

LEMMA CommitCircuitsInv ==
  ASSUME CircuitMapInv, NEW p \in Callers, NEW K \in SUBSET InKeys,
         CommitCircuits(p, K), UNCHANGED gone
  PROVE  InvParts'
<1> USE DEF CommitCircuits, Begin, Adds, InCall, disk, channels,
            CircuitMapInv, DiskInv, MemoryInv, CallsInv, SignedInv
<1>1. DiskInv'
  BY DEF MapTypeOK, OneToOne, NoGap
<1>2. MemoryInv'
  BY DEF MapTypeOK, OpenedAgrees, MemoryMatchesDisk
<1>3. CallsInv'
  <2>1. \A q \in Callers : CallInv(op[q])'
    BY DEF MapTypeOK, CallInv, OneToOne, MemoryMatchesDisk
  <2>2. (\A q, r \in Callers : q # r => op[q].keys \cap op[r].keys = {})'
    BY DEF MapTypeOK, CallInv, Call, Kinds
  <2>3. (\A q, r \in Callers :
           /\ q # r
           /\ op[q].kind \in {"open", "publish", "trim"}
           /\ op[r].kind \in {"open", "publish", "trim"}
           => \A x \in op[q].ks, y \in op[r].ks : x.chan # y.chan)'
    BY DEF MapTypeOK
  <2> QED
    BY <2>1, <2>2, <2>3
<1>4. SignedInv'
  BY DEF AtMostOnce, Unanswered
<1> QED
  BY <1>1, <1>2, <1>3, <1>4 DEF InvParts

LEMMA CommitCircuitsWriteInv ==
  ASSUME CircuitMapInv, NEW p \in Callers, CommitCircuitsWrite(p), UNCHANGED gone
  PROVE  InvParts'
<1> USE DEF CommitCircuitsWrite, Return, Idle, memory, channels,
            CircuitMapInv, DiskInv, MemoryInv, CallsInv, SignedInv
<1>1. DiskInv'
  BY DEF MapTypeOK, OneToOne, NoGap
<1>2. MemoryInv'
  BY DEF MapTypeOK, OpenedAgrees, MemoryMatchesDisk, InCall, CallInv
<1>3. CallsInv'
  BY DEF MapTypeOK, CallInv, OneToOne
<1>4. SignedInv'
  BY DEF AtMostOnce, Unanswered
<1> QED
  BY <1>1, <1>2, <1>3, <1>4 DEF InvParts

LEMMA CommitCircuitsRollbackInv ==
  ASSUME CircuitMapInv, NEW p \in Callers, CommitCircuitsRollback(p), UNCHANGED gone
  PROVE  InvParts'
<1> USE DEF CommitCircuitsRollback, Return, Idle, disk, channels,
            CircuitMapInv, DiskInv, MemoryInv, CallsInv, SignedInv
<1>1. DiskInv'
  BY DEF MapTypeOK, OneToOne, NoGap
<1>2. MemoryInv'
  BY DEF MapTypeOK, OpenedAgrees, MemoryMatchesDisk, InCall, CallInv
<1>3. CallsInv'
  BY DEF MapTypeOK, CallInv, OneToOne
<1>4. SignedInv'
  BY DEF AtMostOnce, Unanswered
<1> QED
  BY <1>1, <1>2, <1>3, <1>4 DEF InvParts

-----------------------------------------------------------------------------
(* Calls that open circuits. *)

LEMMA OpenCircuitsInv ==
  ASSUME CircuitMapInv, NEW p \in Callers, NEW c \in OutChans,
         NEW n \in 1..(MaxHtlcId + 1), NEW ks \in SUBSET Keystone,
         OpenCircuits(p, c, n, ks), UNCHANGED gone
  PROVE  InvParts'
<1> USE DEF OpenCircuits, Begin, InKeysOf, disk, memory, channels,
            CircuitMapInv, DiskInv, MemoryInv, CallsInv, SignedInv
<1>1. DiskInv'
  BY DEF MapTypeOK, OneToOne, NoGap
<1>2. MemoryInv'
  BY DEF MapTypeOK, OpenedAgrees, MemoryMatchesDisk, InCall
<1>3. CallsInv'
  <2> USE CircuitMapAssumption DEF KeystoneBatch, HasKeystone, Opening,
          OpeningOn, OnChannel, On, InCall
  <2>1. \A q \in Callers : CallInv(op[q])'
    BY DEF MapTypeOK, CallInv, OneToOne, OpenedAgrees, MemoryMatchesDisk, OutKey,
           Keystone, Call
  <2>2. \A q, r \in Callers : q # r => op'[q].keys \cap op'[r].keys = {}
    BY DEF MapTypeOK, CallInv, MemoryMatchesDisk, Call, Kinds
  <2>3. (\A q, r \in Callers :
           /\ q # r
           /\ op[q].kind \in {"open", "publish", "trim"}
           /\ op[r].kind \in {"open", "publish", "trim"}
           => \A x \in op[q].ks, y \in op[r].ks : x.chan # y.chan)'
    BY DEF MapTypeOK, CallInv
  <2> QED
    BY <2>1, <2>2, <2>3
<1>4. SignedInv'
  BY DEF AtMostOnce, Unanswered
<1> QED
  BY <1>1, <1>2, <1>3, <1>4 DEF InvParts

LEMMA OpenCircuitsWriteInv ==
  ASSUME CircuitMapInv, NEW p \in Callers, OpenCircuitsWrite(p), UNCHANGED gone
  PROVE  InvParts'
<1> USE DEF OpenCircuitsWrite, Put, Without, OutKey, memory, channels,
            CircuitMapInv, DiskInv, MemoryInv, CallsInv, SignedInv, CallInv
<1>1. DiskInv'
  <2>1. OneToOne(keystoneBkt)'
    BY DEF MapTypeOK, OneToOne
  <2>2. (\A x \in keystoneBkt : x.in \in addBkt)'
    BY DEF MapTypeOK
  <2>3. (\A c \in OutChans : NoGap(keystoneBkt, c, committed[c]))'
    <3> SUFFICES ASSUME NEW c \in OutChans, NEW x \in keystoneBkt', x.chan = c,
                        NEW i \in committed[c]..x.id
                 PROVE  \E y \in keystoneBkt' : y.chan = c /\ y.id = i
      BY DEF NoGap, MapTypeOK
    <3>1. (\E y \in keystoneBkt : y.chan = c /\ y.id = i) =>
            \E y \in keystoneBkt' : y.chan = c /\ y.id = i
      OBVIOUS
    <3>2. CASE x \in keystoneBkt
      BY <3>1, <3>2, CircuitMapAssumption DEF NoGap, MapTypeOK, Keystone, HtlcIds
    <3>3. CASE x \in op[p].ks
      <4>1. /\ x.id \in allocated[c]..(op[p].next - 1)
            /\ \A j \in allocated[c]..(op[p].next - 1) : \E y \in op[p].ks : y.id = j
            /\ \A y \in op[p].ks : y.chan = c
        BY <3>3
      <4>2. /\ i \in Nat /\ committed[c] \in Nat /\ allocated[c] \in Nat
            /\ op[p].next \in Nat /\ i <= x.id /\ committed[c] <= i
        BY <4>1, NumberTypes
      <4>3. CASE i < allocated[c]
        <5>1. i \in committed[c]..(allocated[c] - 1)
          BY <4>2, <4>3
        <5>2. \E y \in opened : y.chan = c /\ y.id = i
          BY <5>1
        <5> QED
          BY <3>1, <5>2
      <4>4. CASE ~(i < allocated[c])
        <5>1. i \in allocated[c]..(op[p].next - 1)
          BY <4>1, <4>2, <4>4
        <5> QED
          BY <4>1, <5>1
      <4> QED
        BY <4>3, <4>4
    <3> QED
      BY <3>2, <3>3
  <2>4. (\A x \in keystoneBkt :
           \/ x \in opened
           \/ \E q \in Callers : /\ op[q].kind \in {"publish", "delete", "trim"}
                                /\ x \in op[q].ks)'
    BY DEF MapTypeOK
  <2> QED
    BY <2>1, <2>2, <2>3, <2>4
<1>2. MemoryInv'
  BY DEF MapTypeOK, OpenedAgrees, MemoryMatchesDisk, InCall, OneToOne, Keystone
<1>3. CallsInv'
  BY DEF MapTypeOK, OneToOne, Call, Keystone
<1>4. SignedInv'
  BY DEF AtMostOnce, Unanswered
<1> QED
  BY <1>1, <1>2, <1>3, <1>4 DEF InvParts

LEMMA OpenCircuitsErrorInv ==
  ASSUME CircuitMapInv, NEW p \in Callers, OpenCircuitsError(p), UNCHANGED gone
  PROVE  InvParts'
<1> USE DEF OpenCircuitsError, Return, Idle, disk, memory, channels,
            CircuitMapInv, DiskInv, MemoryInv, CallsInv, SignedInv
<1>1. DiskInv'
  BY DEF MapTypeOK, OneToOne, NoGap
<1>2. MemoryInv'
  BY DEF MapTypeOK, OpenedAgrees, MemoryMatchesDisk, InCall
<1>3. CallsInv'
  BY DEF MapTypeOK, CallInv, OneToOne
<1>4. SignedInv'
  BY DEF AtMostOnce, Unanswered
<1> QED
  BY <1>1, <1>2, <1>3, <1>4 DEF InvParts

\* The ids of the batch continue the open ids of the channel without a gap.
LEMMA OpenCircuitsPublishInv ==
  ASSUME CircuitMapInv, NEW p \in Callers, OpenCircuitsPublish(p), UNCHANGED gone
  PROVE  InvParts'
<1> USE DEF OpenCircuitsPublish, Return, Idle, Put, Without, OutKey, On, disk,
            CircuitMapInv, DiskInv, MemoryInv, CallsInv, SignedInv, CallInv
<1>1. DiskInv'
  <2>1. OneToOne(keystoneBkt)' /\ (\A x \in keystoneBkt : x.in \in addBkt)'
    BY DEF OneToOne
  <2>2. (\A c \in OutChans : NoGap(keystoneBkt, c, committed[c]))'
    BY DEF NoGap
  <2>3. (\A x \in keystoneBkt :
           \/ x \in opened
           \/ \E q \in Callers : /\ op[q].kind \in {"publish", "delete", "trim"}
                                /\ x \in op[q].ks)'
    BY DEF MapTypeOK, OneToOne
  <2> QED
    BY <2>1, <2>2, <2>3
<1>2. MemoryInv'
  <2>1. OpenedAgrees' /\ (\A x \in opened : x \in keystoneBkt /\ x.in \in pending)'
    BY DEF MapTypeOK, OpenedAgrees, OneToOne
  <2>2. \A c \in OutChans :
          allocated'[c] = IF \E x \in op[p].ks : x.chan = c
                            THEN op[p].next ELSE allocated[c]
    OBVIOUS
  <2>3. \A x \in op[p].ks : x \in Keystone /\ allocated[x.chan] <= x.id
                             /\ x.id < op[p].next
    BY CallFields, NumberTypes
  <2>4. \A c \in OutChans : allocated[c] <= allocated'[c]
    BY <2>2, <2>3, NumberTypes
  <2>5. (\A c \in OutChans : committed[c] <= allocated[c])'
    BY <2>2, <2>4, NumberTypes
  <2>6. (\A x \in opened : x.id < allocated[x.chan])'
    <3> SUFFICES ASSUME NEW x \in opened' PROVE x.id < allocated'[x.chan]
      OBVIOUS
    <3>1. CASE x \in op[p].ks
      BY <2>2, <2>3, <3>1, NumberTypes
    <3>2. CASE x \in opened
      <4>1. x \in Keystone /\ x.id < allocated[x.chan]
        BY <3>2 DEF MapTypeOK
      <4> QED
        BY <2>2, <2>4, <4>1, NumberTypes
    <3> QED
      BY <3>1, <3>2
  <2>7. (\A c \in OutChans : \A i \in committed[c]..(allocated[c] - 1) :
           \E x \in opened : x.chan = c /\ x.id = i)'
    <3> SUFFICES ASSUME NEW c \in OutChans,
                        NEW i \in committed[c]..(allocated'[c] - 1)
                 PROVE  \E x \in opened' : x.chan = c /\ x.id = i
      OBVIOUS
    <3>1. CASE i \in committed[c]..(allocated[c] - 1)
      BY <3>1 DEF MapTypeOK
    <3>2. CASE i \notin committed[c]..(allocated[c] - 1)
      <4>1. i \in allocated[c]..(allocated'[c] - 1)
        BY <3>2, <2>2, <2>5, NumberTypes
      <4>2. PICK x \in op[p].ks : x.chan = c
        BY <2>2, <4>1, NumberTypes
      <4>3. i \in allocated[c]..(op[p].next - 1)
        BY <2>2, <4>1, <4>2
      <4> QED
        BY <4>2, <4>3
    <3> QED
      BY <3>1, <3>2
  <2>8. (\A x \in opened : x.id >= committed[x.chan] =>
           x.in \notin closed /\ x.in \notin acked)'
    BY DEF MapTypeOK
  <2>9. MemoryMatchesDisk'
    BY DEF MapTypeOK, MemoryMatchesDisk, InCall
  <2> QED
    BY <2>1, <2>5, <2>6, <2>7, <2>8, <2>9
<1>3. CallsInv'
  BY DEF MapTypeOK, OneToOne, OpenedAgrees, Keystone, Call, Kinds
<1>4. SignedInv'
  BY DEF MapTypeOK, AtMostOnce, Unanswered, OneToOne
<1> QED
  BY <1>1, <1>2, <1>3, <1>4 DEF InvParts

-----------------------------------------------------------------------------
(* Responses. *)

\* A committed circuit is closed, so no circuit a trim may still touch.
LEMMA CloseCircuitInv ==
  ASSUME CircuitMapInv, NEW z \in Keystone, CloseCircuit(z), UNCHANGED gone
  PROVE  InvParts'
<1> USE DEF CloseCircuit, disk, channels,
            CircuitMapInv, DiskInv, MemoryInv, CallsInv, SignedInv
<1>1. DiskInv'
  BY DEF OneToOne, NoGap
<1>2. MemoryInv'
  <2>1. z.id < committed[z.chan] /\ committed[z.chan] \in Nat /\ z.id \in Nat
    BY NumberTypes
  <2>2. \A x \in opened : x.in = z.in => x = z
    BY OpenedOneToOne
  <2>3. (\A x \in opened : x.id >= committed[x.chan] =>
           x.in \notin closed /\ x.in \notin acked)'
    BY <2>1, <2>2
  <2> QED
    BY <2>3 DEF OpenedAgrees, MemoryMatchesDisk, InCall
<1>3. CallsInv'
  BY DEF MapTypeOK, CallInv, OneToOne
<1>4. SignedInv'
  BY DEF AtMostOnce, Unanswered
<1> QED
  BY <1>1, <1>2, <1>3, <1>4 DEF InvParts

LEMMA FailCircuitInv ==
  ASSUME CircuitMapInv, NEW k \in InKeys, FailCircuit(k), UNCHANGED gone
  PROVE  InvParts'
<1> USE DEF FailCircuit, HasKeystone, Opening, InCall, disk, channels,
            CircuitMapInv, DiskInv, MemoryInv, CallsInv, SignedInv
<1>1. DiskInv'
  BY DEF OneToOne, NoGap
<1>2. MemoryInv'
  BY DEF OpenedAgrees, MemoryMatchesDisk
<1>3. CallsInv'
  BY DEF MapTypeOK, CallInv, OneToOne
<1>4. SignedInv'
  BY DEF AtMostOnce, Unanswered
<1> QED
  BY <1>1, <1>2, <1>3, <1>4 DEF InvParts

LEMMA SignResponseInv ==
  ASSUME CircuitMapInv, NEW k \in InKeys, SignResponse(k), UNCHANGED gone
  PROVE  InvParts'
<1> USE DEF SignResponse, HasKeystone, Opening, InCall, disk, memory,
            CircuitMapInv, DiskInv, MemoryInv, CallsInv, SignedInv
<1>1. DiskInv'
  BY DEF OneToOne, NoGap
<1>2. MemoryInv'
  <2>1. k \in closed \/ \A x \in opened : x.in # k
    BY DEF Fails, OpenedAgrees
  <2> QED
    BY <2>1 DEF OpenedAgrees, MemoryMatchesDisk
<1>3. CallsInv'
  BY DEF MapTypeOK, CallInv, OneToOne
<1>4. SignedInv'
  BY DEF AtMostOnce, Unanswered
<1> QED
  BY <1>1, <1>2, <1>3, <1>4 DEF InvParts

-----------------------------------------------------------------------------
(* Calls that delete circuits. *)

\* Only committed circuits are acked, so a delete takes no keystone that a
\* trim scan still has to cross.
LEMMA DeleteCircuitsInv ==
  ASSUME CircuitMapInv, NEW p \in Callers, NEW K \in SUBSET InKeys,
         DeleteCircuits(p, K), UNCHANGED gone
  PROVE  InvParts'
<1> USE DEF DeleteCircuits, Begin, Of, Without, OutKey, disk, channels,
            CircuitMapInv, DiskInv, MemoryInv, CallsInv, SignedInv
<1> DEFINE removed == K \cap pending
           ks == Of(outgoing, removed)
<1>1. DiskInv'
  BY DEF MapTypeOK, OpenedAgrees, OneToOne, NoGap
<1>2. MemoryInv'
  BY DEF MapTypeOK, OpenedAgrees, MemoryMatchesDisk, InCall, OneToOne, CallInv
<1>3. CallsInv'
  <2>1. \A k \in removed : \A q \in Callers : k \in op[q].keys => op[q].kind = "idle"
    BY DEF MapTypeOK, CallInv, Opening, InCall, Call, Kinds
  <2>2. \A q \in Callers : op[q].keys \cap removed = {}
    BY <2>1 DEF CallInv
  <2>3. \A q \in Callers \ {p} : CallInv(op[q])'
    BY <2>2 DEF MapTypeOK, CallInv, OneToOne
  <2>4. CallInv(op[p])'
    <3>1. removed \subseteq addBkt
      BY DEF MemoryMatchesDisk, InCall
    <3>2. \A x \in keystoneBkt : x.in \in removed => x \in ks
      BY <2>2 DEF OpenedAgrees, CallInv
    <3>3. \A x \in ks : x \in opened /\ x \in keystoneBkt
                         /\ x.in \in acked /\ x.in \in removed
      BY DEF OpenedAgrees
    <3>4. \A x \in ks : x.id < committed[x.chan]
      <4>1. \A x \in ks : ~(x.id >= committed[x.chan]) /\ x \in Keystone
        BY <3>3 DEF MapTypeOK
      <4> QED
        BY <4>1, NumberTypes
    <3>5. op'[p] = [kind |-> "delete", keys |-> removed, ks |-> ks,
                    closing |-> closed \cap removed, next |-> 0]
      BY DEF MapTypeOK
    <3> HIDE DEF ks, removed
    <3>6. removed \subseteq acked /\ pending' = pending \ removed
      BY <3>3 DEF removed
    <3> QED
      BY <3>1, <3>2, <3>3, <3>4, <3>5, <3>6 DEF CallInv
  <2>5. (\A q, r \in Callers : q # r => op[q].keys \cap op[r].keys = {})'
    BY <2>2 DEF MapTypeOK
  <2>6. (\A q, r \in Callers :
           /\ q # r
           /\ op[q].kind \in {"open", "publish", "trim"}
           /\ op[r].kind \in {"open", "publish", "trim"}
           => \A x \in op[q].ks, y \in op[r].ks : x.chan # y.chan)'
    BY DEF MapTypeOK
  <2> QED
    BY <2>3, <2>4, <2>5, <2>6
<1>4. SignedInv'
  <2>1. \A x \in opened : x.in \notin acked => x \in opened'
    BY OpenedOneToOne DEF OpenedAgrees
  <2> QED
    BY <2>1 DEF AtMostOnce, Unanswered
<1> QED
  BY <1>1, <1>2, <1>3, <1>4 DEF InvParts

LEMMA DeleteCircuitsWriteInv ==
  ASSUME CircuitMapInv, NEW p \in Callers, DeleteCircuitsWrite(p), UNCHANGED gone
  PROVE  InvParts'
<1> USE DEF DeleteCircuitsWrite, Return, Idle, Without, OutKey, channels,
            CircuitMapInv, DiskInv, MemoryInv, CallsInv, SignedInv
<1>1. DiskInv'
  <2>1. OneToOne(keystoneBkt)'
    BY DEF OneToOne
  <2>2. (\A x \in keystoneBkt : x.in \in addBkt)'
    BY DEF CallInv
  <2>3. (\A c \in OutChans : NoGap(keystoneBkt, c, committed[c]))'
    <3>1. \A x \in op[p].ks : x \in Keystone /\ x.id < committed[x.chan]
      BY CallFields DEF CallInv
    <3>2. \A x \in keystoneBkt : x.id >= committed[x.chan] => x \in keystoneBkt'
      BY <3>1, NumberTypes DEF MapTypeOK
    <3> SUFFICES ASSUME NEW c \in OutChans, NEW x \in keystoneBkt, x.chan = c,
                        NEW i \in committed[c]..x.id
                 PROVE  \E y \in keystoneBkt' : y.chan = c /\ y.id = i
      BY DEF NoGap
    <3>3. x.id >= committed[c] /\ i >= committed[c]
      BY NumberTypes DEF MapTypeOK
    <3>4. PICK y \in keystoneBkt : y.chan = c /\ y.id = i
      BY <3>3 DEF NoGap
    <3> QED
      BY <3>2, <3>3, <3>4
  <2>4. (\A x \in keystoneBkt :
           \/ x \in opened
           \/ \E q \in Callers : /\ op[q].kind \in {"publish", "delete", "trim"}
                                /\ x \in op[q].ks)'
    BY DEF MapTypeOK
  <2> QED
    BY <2>1, <2>2, <2>3, <2>4
<1>2. MemoryInv'
  BY DEF MapTypeOK, OpenedAgrees, MemoryMatchesDisk, InCall, OneToOne, CallInv
<1>3. CallsInv'
  BY DEF MapTypeOK, CallInv, OneToOne
<1>4. SignedInv'
  BY DEF AtMostOnce, Unanswered
<1> QED
  BY <1>1, <1>2, <1>3, <1>4 DEF InvParts

LEMMA DeleteCircuitsRestoreInv ==
  ASSUME CircuitMapInv, NEW p \in Callers, DeleteCircuitsRestore(p), UNCHANGED gone
  PROVE  InvParts'
<1> USE DEF DeleteCircuitsRestore, Return, Idle, Put, Without, OutKey, disk,
            channels, CircuitMapInv, DiskInv, MemoryInv, CallsInv, SignedInv
<1>1. DiskInv'
  BY DEF MapTypeOK, OneToOne, NoGap, CallInv
<1>2. MemoryInv'
  <2>1. OpenedAgrees' /\ (\A x \in opened : x \in keystoneBkt /\ x.in \in pending)'
    BY DEF MapTypeOK, OpenedAgrees, OneToOne, CallInv
  <2>2. \A x \in op[p].ks : x \in Keystone /\ x.id < committed[x.chan]
    BY CallFields DEF CallInv
  <2>3. (\A x \in opened : x.id < allocated[x.chan])'
    BY <2>2, NumberTypes
  <2>4. (\A c \in OutChans : \A i \in committed[c]..(allocated[c] - 1) :
           \E x \in opened : x.chan = c /\ x.id = i)'
    BY DEF MapTypeOK
  <2>5. (\A x \in opened : x.id >= committed[x.chan] =>
           x.in \notin closed /\ x.in \notin acked)'
    <3>1. \A x \in op[p].ks : ~(x.id >= committed[x.chan])
      BY <2>2, NumberTypes
    <3>2. \A x \in opened : x.in \notin op[p].closing
      BY DEF CallInv
    <3> QED
      BY <3>1, <3>2
  <2>6. MemoryMatchesDisk'
    BY DEF MapTypeOK, MemoryMatchesDisk, InCall, CallInv
  <2> QED
    BY <2>1, <2>3, <2>4, <2>5, <2>6
<1>3. CallsInv'
  BY DEF MapTypeOK, CallInv, OneToOne, Call, Kinds
<1>4. SignedInv'
  BY DEF MapTypeOK, AtMostOnce, Unanswered, OneToOne, CallInv
<1> QED
  BY <1>1, <1>2, <1>3, <1>4 DEF InvParts

-----------------------------------------------------------------------------
(* Calls that trim keystones. *)

\* The trim takes every keystone at and above the committed index, and
\* nothing else.
LEMMA TrimOpenCircuitsInv ==
  ASSUME CircuitMapInv, NEW p \in Callers, NEW c \in OutChans,
         TrimOpenCircuits(p, c), UNCHANGED gone
  PROVE  InvParts'
<1> DEFINE ks == {x \in opened : x.chan = c /\ x.id >= committed[c]}
<1> USE DEF CircuitMapInv, DiskInv, MemoryInv, CallsInv, SignedInv
<1>1. ks = Trimmed(opened, c, committed[c])
  BY TrimReachesAll DEF On
<1>2. /\ allocated' = [allocated EXCEPT ![c] = committed[c]]
      /\ outgoing' = {x \in outgoing : x.in \notin InKeysOf(ks)}
      /\ opened' = opened \ ks
      /\ ~OpeningOn(c) /\ ~OnChannel("trim", c)
      /\ op[p].kind = "idle"
      /\ ks = {} => op' = op
      /\ ks # {} => op' = [op EXCEPT ![p] = [kind |-> "trim", keys |-> InKeysOf(ks),
                             ks |-> ks, closing |-> {}, next |-> 0]]
      /\ UNCHANGED <<addBkt, keystoneBkt, pending, closed, committed, signed, acked>>
  BY <1>1 DEF TrimOpenCircuits, Begin, disk
<1>3. \A q \in Callers \ {p} : op'[q] = op[q]
  BY <1>2 DEF MapTypeOK
<1>4. /\ ks = {} => op'[p] = op[p]
      /\ ks # {} => /\ op'[p].kind = "trim" /\ op'[p].keys = InKeysOf(ks)
                    /\ op'[p].ks = ks
  <2> HIDE DEF ks
  <2> QED
    BY <1>2 DEF MapTypeOK
<1>5. DiskInv'
  <2>1. (\A x \in keystoneBkt :
           \/ x \in opened
           \/ \E q \in Callers : /\ op[q].kind \in {"publish", "delete", "trim"}
                                /\ x \in op[q].ks)'
    <3> SUFFICES ASSUME NEW x \in keystoneBkt, x \notin opened'
                 PROVE  \E q \in Callers :
                           /\ op'[q].kind \in {"publish", "delete", "trim"}
                           /\ x \in op'[q].ks
      BY <1>2
    <3>1. CASE x \in opened
      BY <1>2, <1>4, <3>1
    <3>2. CASE x \notin opened
      BY <1>2, <1>3, <3>2
    <3> QED
      BY <3>1, <3>2
  <2> QED
    BY <1>2, <2>1 DEF OneToOne, NoGap
<1>6. MemoryInv'
  <2>1. OpenedAgrees'
    BY <1>2, OpenedOneToOne DEF OpenedAgrees, InKeysOf
  <2>2. \A d \in OutChans : allocated'[d] = IF d = c THEN committed[c] ELSE allocated[d]
    BY <1>2 DEF MapTypeOK
  <2>3. (\A d \in OutChans : committed[d] <= allocated[d])'
    BY <1>2, <2>2, NumberTypes
  <2>4. (\A x \in opened : x.id < allocated[x.chan])'
    <3> SUFFICES ASSUME NEW x \in opened, x \notin ks
                 PROVE  x.id < allocated'[x.chan]
      BY <1>2
    <3>1. x \in Keystone
      BY DEF MapTypeOK
    <3> QED
      BY <2>2, <3>1, NumberTypes
  <2>5. (\A d \in OutChans : \A i \in committed[d]..(allocated[d] - 1) :
           \E x \in opened : x.chan = d /\ x.id = i)'
    <3> SUFFICES ASSUME NEW d \in OutChans,
                        NEW i \in committed[d]..(allocated'[d] - 1)
                 PROVE  \E x \in opened' : x.chan = d /\ x.id = i
      BY <1>2
    <3>1. d # c /\ i \in committed[d]..(allocated[d] - 1)
      BY <2>2, NumberTypes
    <3> QED
      BY <1>2, <3>1
  <2>6. MemoryMatchesDisk'
    <3>1. \A kind \in {"commit", "delete"} : \A q \in Callers :
             op[q].kind = kind => op'[q] = op[q]
      BY <1>2, <1>3
    <3> QED
      BY <1>2, <3>1 DEF MemoryMatchesDisk, InCall
  <2> QED
    BY <1>2, <2>1, <2>3, <2>4, <2>5, <2>6
<1>7. CallsInv'
  <2>1. \A x \in ks : /\ x \in keystoneBkt /\ x.in \in addBkt /\ x.in \in pending
                      /\ x.in \notin acked /\ x.in \notin closed
    OBVIOUS
  <2>2. \A q \in Callers : op[q].keys \cap InKeysOf(ks) = {}
    <3> SUFFICES ASSUME NEW q \in Callers, NEW x \in ks, x.in \in op[q].keys
                 PROVE  FALSE
      BY DEF InKeysOf
    <3>1. op[q].kind \in Kinds
      BY CallFields
    <3> QED
      BY <2>1, <3>1 DEF CallInv, Kinds
  <2>3. \A q \in Callers \ {p} : CallInv(op[q])'
    <3> SUFFICES ASSUME NEW q \in Callers \ {p} PROVE CallInv(op[q])'
      OBVIOUS
    <3>1. op[q].kind \in {"open", "publish"} => \A x \in op[q].ks : x.chan # c
      BY <1>2 DEF OpeningOn, OnChannel, On
    <3>2. \A x \in op[q].ks : x \in Keystone
      BY CallFields
    <3>3. \A x \in op[q].ks : x.chan # c => allocated'[x.chan] = allocated[x.chan]
      BY <1>2, <3>2, NumberTypes DEF MapTypeOK
    <3>4. \A x \in op[q].ks : op[q].kind = "trim" => x.chan # c
      BY <1>2 DEF OnChannel, On
    <3> QED
      BY <1>2, <1>3, <3>1, <3>3, <3>4 DEF CallInv, OneToOne
  <2>4. CallInv(op[p])'
    <3>1. CASE ks = {}
      BY <1>2, <1>4, <3>1 DEF CallInv
    <3>2. CASE ks # {}
      <4>1. op'[p].kind = "trim" /\ op'[p].keys = InKeysOf(ks) /\ op'[p].ks = ks
        BY <1>4, <3>2
      <4>2. allocated'[c] = committed[c]
        BY <1>2 DEF MapTypeOK
      <4>3. \A x \in opened' : x.in \notin InKeysOf(ks)
        BY <1>2, OpenedOneToOne DEF InKeysOf
      <4> QED
        BY <1>2, <2>1, <4>1, <4>2, <4>3 DEF CallInv, InKeysOf
    <3> QED
      BY <3>1, <3>2
  <2>5. (\A q, r \in Callers : q # r => op[q].keys \cap op[r].keys = {})'
    BY <1>2, <1>3, <1>4, <2>2
  <2>6. (\A q, r \in Callers :
           /\ q # r
           /\ op[q].kind \in {"open", "publish", "trim"}
           /\ op[r].kind \in {"open", "publish", "trim"}
           => \A x \in op[q].ks, y \in op[r].ks : x.chan # y.chan)'
    BY <1>2, <1>3, <1>4 DEF OpeningOn, OnChannel, On
  <2> QED
    BY <2>3, <2>4, <2>5, <2>6
<1>8. SignedInv'
  <2>1. \A x \in signed : x \notin ks
    BY NumberTypes DEF MapTypeOK
  <2> QED
    BY <1>2, <2>1 DEF AtMostOnce, Unanswered
<1> QED
  BY <1>5, <1>6, <1>7, <1>8 DEF InvParts

LEMMA TrimOpenCircuitsWriteInv ==
  ASSUME CircuitMapInv, NEW p \in Callers, TrimOpenCircuitsWrite(p), UNCHANGED gone
  PROVE  InvParts'
<1> USE DEF TrimOpenCircuitsWrite, Return, Idle, Without, OutKey, memory,
            channels, CircuitMapInv, DiskInv, MemoryInv, CallsInv, SignedInv
<1>1. DiskInv'
  <2>1. OneToOne(keystoneBkt)' /\ (\A x \in keystoneBkt : x.in \in addBkt)'
    BY DEF OneToOne
  <2>2. (\A c \in OutChans : NoGap(keystoneBkt, c, committed[c]))'
    <3> SUFFICES ASSUME NEW c \in OutChans PROVE NoGap(keystoneBkt, c, committed[c])'
      OBVIOUS
    <3>1. CASE \A z \in op[p].ks : z.chan # c
      <4>1. \A x \in keystoneBkt : x.chan = c => x \in keystoneBkt'
        BY <3>1
      <4> QED
        BY <4>1 DEF NoGap
    <3>2. CASE \E z \in op[p].ks : z.chan = c
      <4>1. allocated[c] = committed[c]
        BY <3>2 DEF CallInv
      <4>2. \A x \in keystoneBkt : x.chan = c /\ x.id >= committed[c] => x \in op[p].ks
        <5> SUFFICES ASSUME NEW x \in keystoneBkt, x.chan = c,
                            x.id >= committed[c], x \notin op[p].ks
                     PROVE  FALSE
          OBVIOUS
        <5>1. x \in Keystone
          BY DEF MapTypeOK
        <5>2. x \notin opened
          BY <4>1, <5>1, NumberTypes
        <5>3. PICK q \in Callers : op[q].kind \in {"publish", "delete", "trim"}
                                  /\ x \in op[q].ks
          BY <5>2
        <5>4. op[q].kind # "delete"
          BY <5>1, <5>3, NumberTypes DEF CallInv
        <5> QED
          BY <3>2, <5>3, <5>4
      <4> QED
        BY <4>2 DEF NoGap
    <3> QED
      BY <3>1, <3>2
  <2>3. (\A x \in keystoneBkt :
           \/ x \in opened
           \/ \E q \in Callers : /\ op[q].kind \in {"publish", "delete", "trim"}
                                /\ x \in op[q].ks)'
    BY DEF MapTypeOK
  <2> QED
    BY <2>1, <2>2, <2>3
<1>2. MemoryInv'
  BY DEF MapTypeOK, OpenedAgrees, MemoryMatchesDisk, InCall, OneToOne, CallInv
<1>3. CallsInv'
  BY DEF MapTypeOK, CallInv, OneToOne
<1>4. SignedInv'
  BY DEF AtMostOnce, Unanswered
<1> QED
  BY <1>1, <1>2, <1>3, <1>4 DEF InvParts

-----------------------------------------------------------------------------
(* Channels and restarts. *)

LEMMA SignNextCommitmentInv ==
  ASSUME CircuitMapInv, NEW c \in OutChans, SignNextCommitment(c), UNCHANGED gone
  PROVE  InvParts'
<1> USE DEF SignNextCommitment, disk, memory,
            CircuitMapInv, DiskInv, MemoryInv, CallsInv, SignedInv
<1>1. \A d \in OutChans : committed'[d] = IF d = c THEN allocated[c] ELSE committed[d]
  BY DEF MapTypeOK
<1>2. \A d \in OutChans : committed[d] <= committed'[d] /\ committed'[d] \in Nat
  BY <1>1, NumberTypes
<1>3. \A x \in keystoneBkt : x.chan = c => x.id < allocated[c]
  <2> SUFFICES ASSUME NEW x \in keystoneBkt, x.chan = c, x \notin opened
               PROVE  x.id < allocated[c]
    OBVIOUS
  <2>1. PICK q \in Callers : op[q].kind \in {"publish", "delete", "trim"}
                            /\ x \in op[q].ks
    OBVIOUS
  <2>2. op[q].kind = "delete"
    BY <2>1 DEF OpeningOn, OnChannel, On
  <2>3. x.id < committed[c] /\ x \in Keystone
    BY <2>1, <2>2 DEF CallInv, MapTypeOK
  <2> QED
    BY <2>3, NumberTypes
<1>4. DiskInv'
  <2>1. (\A d \in OutChans : NoGap(keystoneBkt, d, committed[d]))'
    <3> SUFFICES ASSUME NEW d \in OutChans
                 PROVE  NoGap(keystoneBkt, d, committed'[d])
      BY DEF NoGap
    <3>1. CASE d = c
      <4>1. \A x \in keystoneBkt : x.chan = c => ~(x.id >= committed'[c])
        BY <1>1, <1>3, NumberTypes DEF MapTypeOK
      <4> QED
        BY <3>1, <4>1 DEF NoGap
    <3>2. CASE d # c
      BY <1>1, <3>2
    <3> QED
      BY <3>1, <3>2
  <2> QED
    BY <2>1 DEF OneToOne
<1>5. MemoryInv'
  <2>1. (\A d \in OutChans : committed[d] <= allocated[d])'
    BY <1>1, NumberTypes
  <2>2. (\A d \in OutChans : \A i \in committed[d]..(allocated[d] - 1) :
           \E x \in opened : x.chan = d /\ x.id = i)'
    BY <1>1, NumberTypes
  <2>3. (\A x \in opened : x.id >= committed[x.chan] =>
           x.in \notin closed /\ x.in \notin acked)'
    BY <1>1, <1>2, NumberTypes DEF MapTypeOK
  <2> QED
    BY <2>1, <2>2, <2>3 DEF OpenedAgrees, MemoryMatchesDisk, InCall
<1>6. CallsInv'
  <2>1. \A q \in Callers : CallInv(op[q])'
    <3> SUFFICES ASSUME NEW q \in Callers PROVE CallInv(op[q])'
      OBVIOUS
    <3>1. \A x \in op[q].ks : x \in Keystone
      BY CallFields
    <3>2. \A x \in op[q].ks : op[q].kind = "trim" =>
            x.chan # c /\ committed'[x.chan] = committed[x.chan]
      BY <1>1, <3>1, NumberTypes DEF OnChannel, On
    <3>3. \A x \in op[q].ks : x.id < committed[x.chan] => x.id < committed'[x.chan]
      BY <1>2, <3>1, NumberTypes
    <3> QED
      BY <3>2, <3>3 DEF CallInv, OneToOne
  <2> QED
    BY <2>1
<1>7. SignedInv'
  <2>1. \A x \in signed' : x \in signed
           \/ (x \in opened /\ x.chan = c /\ x.id >= committed[c])
    BY DEF On
  <2>2. (\A x \in signed : x.id < committed[x.chan])'
    <3> SUFFICES ASSUME NEW x \in signed' PROVE x.id < committed'[x.chan]
      OBVIOUS
    <3>1. x \in Keystone
      BY <2>1 DEF MapTypeOK
    <3>2. CASE x \in signed
      BY <1>2, <3>1, <3>2, NumberTypes
    <3>3. CASE x \in opened /\ x.chan = c
      BY <1>1, <3>3
    <3> QED
      BY <2>1, <3>2, <3>3
  <2>3. AtMostOnce'
    <3> SUFFICES ASSUME NEW x \in signed', NEW y \in signed',
                        \/ x.in = y.in /\ x.chan \notin gone /\ y.chan \notin gone
                        \/ OutKey(x) = OutKey(y)
                 PROVE  x = y
      BY DEF AtMostOnce
    <3>1. \A z \in signed, w \in opened :
             /\ w.chan = c /\ w.id >= committed[c]
             /\ (z.in = w.in /\ z.chan \notin gone) \/ OutKey(z) = OutKey(w)
             => z = w
      <4> SUFFICES ASSUME NEW z \in signed, NEW w \in opened, w.chan = c,
                          w.id >= committed[c],
                          (z.in = w.in /\ z.chan \notin gone) \/ OutKey(z) = OutKey(w)
                   PROVE  z = w
        OBVIOUS
      <4>1. z \in Keystone /\ w \in Keystone /\ z.id < committed[z.chan]
        BY DEF MapTypeOK
      <4>2. OutKey(z) # OutKey(w)
        BY <4>1, NumberTypes DEF OutKey
      <4>3. w.in \notin acked /\ InChan[w.in] \notin gone
        BY <4>1, NumberTypes DEF GoneInv
      <4>4. z \in opened
        BY <4>2, <4>3 DEF Unanswered
      <4> QED
        BY <4>2, <4>4, OpenedOneToOne
    <3> QED
      BY <2>1, <3>1, OpenedOneToOne DEF AtMostOnce
  <2>4. (\A x \in signed : Unanswered(x) => x \in opened)'
    BY <2>1 DEF Unanswered
  <2> QED
    BY <2>2, <2>3, <2>4
<1> QED
  BY <1>4, <1>5, <1>6, <1>7 DEF InvParts

\* Restart: the map is rebuilt from the committed part of what is left on disk.
LEMMA NewCircuitMapInv ==
  ASSUME CircuitMapInv, NewCircuitMap, UNCHANGED gone
  PROVE  InvParts'
<1> DEFINE R == keystoneBkt \ CleanedKeystones
           kept == {x \in R : ~(x.id >= committed[x.chan])}
<1> USE DEF CircuitMapInv, DiskInv, MemoryInv, CallsInv, SignedInv
<1>1. /\ opened' = kept /\ keystoneBkt' = kept
      /\ pending' = Kept /\ addBkt' = Kept /\ closed' = {}
      /\ op' = [p \in Callers |-> Idle]
      /\ allocated' = committed
      /\ UNCHANGED <<committed, signed, acked>>
  BY RestoredIsDisk DEF NewCircuitMap
<1>2. \A x \in kept : x \in Keystone /\ x.id < committed[x.chan]
  BY NumberTypes DEF MapTypeOK
<1>3. outgoing' = kept
  <2>1. \A x, y \in R : y.in = x.in => x = y
    BY DEF OneToOne
  <2>2. \A x \in R : ~Before(x, x)
    <3>1. \A x \in keystoneBkt : x.chan \in Nat /\ x.id \in Nat
      BY NumberTypes, CircuitMapAssumption DEF MapTypeOK
    <3> QED
      BY <3>1 DEF Before
  <2>3. \A x \in R : x.in \in InKeysOf(TrimmedAtStart)
                                  <=> x.id >= committed[x.chan]
    BY <2>1, RestoredIsDisk DEF InKeysOf
  <2>4. outgoing' = {x \in R :
                        /\ \A y \in R : y.in = x.in => ~Before(x, y)
                        /\ x.in \notin InKeysOf(TrimmedAtStart)}
    BY RestoredIsDisk DEF NewCircuitMap, LastOutgoing
  <2> QED
    BY <2>1, <2>2, <2>3, <2>4
<1>8. \A x \in kept : x.in \in Kept
  BY RestoredIsDisk DEF Restored, Of
<1>4. DiskInv'
  BY <1>1, <1>8 DEF OneToOne, NoGap
<1>5. MemoryInv'
  BY <1>1, <1>2, <1>8, <1>3, NumberTypes DEF OpenedAgrees, MemoryMatchesDisk
<1>6. CallsInv'
  BY <1>1 DEF CallInv, Idle, OneToOne
<1>7. SignedInv'
  <2>1. \A x \in signed : x \in Keystone /\ ~(x.id >= committed[x.chan])
    BY NumberTypes DEF MapTypeOK
  <2>2. \A x \in signed : Unanswered(x) => x \in kept
    BY <2>1 DEF Unanswered, CleanedKeystones
  <2> QED
    BY <1>1, <2>2 DEF AtMostOnce, Unanswered
<1> QED
  BY <1>4, <1>5, <1>6, <1>7 DEF InvParts

LEMMA MarkChanFullyClosedInv ==
  ASSUME CircuitMapInv, NEW c \in Channels, MarkChanFullyClosed(c)
  PROVE  InvParts' /\ GoneInv'
<1> USE DEF MarkChanFullyClosed, disk, memory, channels, CircuitMapInv
<1>1. DiskInv'
  BY DEF DiskInv, OneToOne, NoGap
<1>2. MemoryInv'
  BY DEF MemoryInv, OpenedAgrees, MemoryMatchesDisk, InCall
<1>3. CallsInv'
  BY DEF CallsInv, CallInv, OneToOne
<1>4. SignedInv'
  BY DEF SignedInv, AtMostOnce, Unanswered
<1>5. GoneInv'
  <2>1. \A q \in Callers : \A x \in op[q].ks : InChan[x.in] # c
    BY DEF CallsInv, CallInv
  <2>2. \A x \in keystoneBkt : InChan[x.in] = c => x.id < committed[x.chan]
    BY <2>1 DEF DiskInv
  <2> QED
    BY <2>1, <2>2 DEF GoneInv
<1> QED
  BY <1>1, <1>2, <1>3, <1>4, <1>5 DEF InvParts

\* Only OpenCircuits works for a circuit whose incoming channel must not be
\* gone, and a keystone only reaches the disk through it.
LEMMA GoneStepInv ==
  ASSUME CircuitMapInv, Step, UNCHANGED gone
  PROVE  GoneInv'
<1> USE DEF CircuitMapInv, GoneInv
<1>1. ASSUME NEW p \in Callers, NEW c \in OutChans, NEW n, NEW ks,
             OpenCircuits(p, c, n, ks)
      PROVE  GoneInv'
  BY <1>1 DEF OpenCircuits, KeystoneBatch, Begin, MapTypeOK, disk, channels
<1>2. ASSUME NEW p \in Callers, OpenCircuitsWrite(p)
      PROVE  GoneInv'
  BY <1>2 DEF OpenCircuitsWrite, Put, Without, MapTypeOK, Call, channels
<1>3. ASSUME NEW c \in OutChans, SignNextCommitment(c)
      PROVE  GoneInv'
  <2>1. \A d \in OutChans : committed[d] <= committed'[d] /\ committed'[d] \in Nat
    BY <1>3, NumberTypes DEF SignNextCommitment, MapTypeOK
  <2>2. \A x \in keystoneBkt : x.id < committed[x.chan] => x.id < committed'[x.chan]
    BY <2>1, NumberTypes DEF MapTypeOK
  <2> QED
    BY <1>3, <2>2 DEF SignNextCommitment, disk
<1>4. ASSUME NEW p \in Callers, NEW K,
             CommitCircuits(p, K) \/ DeleteCircuits(p, K)
      PROVE  GoneInv'
  BY <1>4 DEF CommitCircuits, DeleteCircuits, Begin, MapTypeOK, disk, channels
<1>5. ASSUME NEW p \in Callers, NEW c \in OutChans, TrimOpenCircuits(p, c)
      PROVE  GoneInv'
  BY <1>5 DEF TrimOpenCircuits, Begin, MapTypeOK, disk
<1>6. ASSUME NEW p \in Callers,
             \/ CommitCircuitsWrite(p) \/ CommitCircuitsRollback(p)
             \/ OpenCircuitsError(p) \/ OpenCircuitsPublish(p)
             \/ DeleteCircuitsWrite(p) \/ DeleteCircuitsRestore(p)
             \/ TrimOpenCircuitsWrite(p)
      PROVE  GoneInv'
  <2>1. /\ keystoneBkt' \subseteq keystoneBkt /\ UNCHANGED committed
        /\ Return(p)
    BY <1>6 DEF CommitCircuitsWrite, CommitCircuitsRollback, OpenCircuitsError,
                OpenCircuitsPublish, DeleteCircuitsWrite, DeleteCircuitsRestore,
                TrimOpenCircuitsWrite, Without, disk, channels
  <2> QED
    BY <2>1 DEF Return, Idle, MapTypeOK
<1>7. ASSUME NewCircuitMap
      PROVE  GoneInv'
  BY <1>7 DEF NewCircuitMap, Idle
<1>8. ASSUME NEW x, CloseCircuit(x) \/ FailCircuit(x) \/ SignResponse(x)
      PROVE  GoneInv'
  BY <1>8 DEF CloseCircuit, FailCircuit, SignResponse, disk, channels
<1> QED
  BY <1>1, <1>2, <1>3, <1>4, <1>5, <1>6, <1>7, <1>8 DEF Step

-----------------------------------------------------------------------------
LEMMA InitInv == Init => CircuitMapInv
<1> SUFFICES ASSUME Init PROVE CircuitMapInv
  OBVIOUS
<1>1. MapTypeOK
  BY InitType
<1>2. DiskInv /\ SignedInv /\ GoneInv
  BY DEF Init, DiskInv, SignedInv, GoneInv, OneToOne, NoGap, AtMostOnce, Idle
<1>3. MemoryInv
  BY DEF Init, MemoryInv, OpenedAgrees, MemoryMatchesDisk
<1>4. CallsInv
  BY DEF Init, CallsInv, CallInv, Idle, OneToOne
<1> QED
  BY <1>1, <1>2, <1>3, <1>4 DEF CircuitMapInv

LEMMA StutterInv ==
  ASSUME CircuitMapInv, UNCHANGED vars
  PROVE  CircuitMapInv'
<1> USE DEF vars, CircuitMapInv
<1>1. MapTypeOK' /\ SignedInv' /\ GoneInv'
  BY DEF MapTypeOK, SignedInv, GoneInv, AtMostOnce, Unanswered
<1>2. DiskInv'
  BY DEF DiskInv, OneToOne, NoGap
<1>3. MemoryInv'
  BY DEF MemoryInv, OpenedAgrees, MemoryMatchesDisk, InCall
<1>4. CallsInv'
  BY DEF CallsInv, CallInv, OneToOne
<1> QED
  BY <1>1, <1>2, <1>3, <1>4

LEMMA NextInv ==
  ASSUME CircuitMapInv, Next, ~trimFailed'
  PROVE  CircuitMapInv'
<1>1. MapTypeOK'
  BY NextType DEF CircuitMapInv
<1>2. ASSUME NEW p \in Callers, NEW c \in OutChans, NEW n \in 1..(MaxHtlcId + 1),
             NEW f \in [allocated[c]..(n - 1) -> InKeys],
             OpenCircuits(p, c, n, Batch(c, f)), UNCHANGED gone
      PROVE  InvParts'
  <2>1. Batch(c, f) \in SUBSET Keystone
    BY NumberTypes, CircuitMapAssumption DEF Batch, Keystone, HtlcIds, CircuitMapInv
  <2> QED
    BY <1>2, <2>1, OpenCircuitsInv
<1>3. ASSUME Step, UNCHANGED gone
      PROVE  InvParts'
  BY <1>2, <1>3, CommitCircuitsInv, CommitCircuitsWriteInv, CommitCircuitsRollbackInv,
     OpenCircuitsWriteInv, OpenCircuitsErrorInv, OpenCircuitsPublishInv,
     CloseCircuitInv, FailCircuitInv, SignResponseInv, DeleteCircuitsInv,
     DeleteCircuitsWriteInv, DeleteCircuitsRestoreInv, TrimOpenCircuitsInv,
     TrimOpenCircuitsWriteInv, SignNextCommitmentInv, NewCircuitMapInv
     DEF Step
<1>4. InvParts' /\ GoneInv'
  BY <1>3, GoneStepInv, MarkChanFullyClosedInv DEF Next, TrimOpenCircuitsError
<1> QED
  BY <1>1, <1>4 DEF CircuitMapInv, InvParts

\* The inductive invariant holds in every reachable state of the circuit map,
\* until a write of TrimOpenCircuits fails.
THEOREM InvariantHolds == Spec => []InvUntilTrimFails
<1>1. Init => InvUntilTrimFails
  BY InitInv DEF InvUntilTrimFails
<1>2. ASSUME InvUntilTrimFails, [Next]_vars
      PROVE  InvUntilTrimFails'
  <2>1. CASE trimFailed
    BY <1>2, <2>1 DEF InvUntilTrimFails, Next, TrimOpenCircuitsError, vars
  <2>2. CASE CircuitMapInv /\ UNCHANGED vars
    BY <2>2, StutterInv DEF InvUntilTrimFails
  <2>3. CASE CircuitMapInv /\ Next
    BY <2>3, NextInv DEF InvUntilTrimFails
  <2> QED
    BY <1>2, <2>1, <2>2, <2>3 DEF InvUntilTrimFails
<1> QED
  BY <1>1, <1>2, PTL DEF Spec

-----------------------------------------------------------------------------
(* What the invariant is for. *)

LEMMA InvImplies ==
  ASSUME InvUntilTrimFails
  PROVE  /\ SignedStaysOpen /\ NoDisjointSegments
         /\ ForwardedOnce /\ (trimFailed \/ MemoryMatchesDisk)
<1> SUFFICES ASSUME CircuitMapInv, ~trimFailed
             PROVE  /\ SignedStaysOpen /\ NoDisjointSegments
                    /\ ForwardedOnce /\ MemoryMatchesDisk
  BY DEF InvUntilTrimFails, SignedStaysOpen, NoDisjointSegments, ForwardedOnce
<1> USE DEF CircuitMapInv, SignedInv, MemoryInv
<1>1. SignedStaysOpen
  BY DEF SignedStaysOpen, OpenedAgrees, DiskInv
<1>2. NoDisjointSegments
  BY TrimReachesAll DEF NoDisjointSegments
<1>3. ForwardedOnce
  BY DEF ForwardedOnce
<1> QED
  BY <1>1, <1>2, <1>3

\* A forwarded HTLC keeps its circuit until its response is signed, through
\* every crash: NewCircuitMap, TrimOpenCircuits and DeleteCircuits never take
\* the circuit of an HTLC that the outgoing peer may still resolve, as long as
\* its channels are not gone and no write of a trim has failed.
THEOREM SignedStaysOpenAlways == Spec => []SignedStaysOpen
BY InvariantHolds, InvImplies, PTL

\* No incoming HTLC is forwarded twice over channels that are not gone, until the
\* write of a trim fails.
THEOREM ForwardedOnceAlways == Spec => []ForwardedOnce
BY InvariantHolds, InvImplies, PTL

\* The scan of TrimOpenCircuits never stops short of a keystone to trim, until
\* a write of it fails.
THEOREM NoDisjointSegmentsAlways == Spec => []NoDisjointSegments
BY InvariantHolds, InvImplies, PTL

\* Memory and disk hold the same circuits between calls, until the write
\* of a trim fails.
THEOREM MemoryMatchesDiskAlways == Spec => [](trimFailed \/ MemoryMatchesDisk)
BY InvariantHolds, InvImplies, PTL
-----------------------------------------------------------------------------
(* The hash index.  It may list keys that are no longer open (a trim does  *)
(* not remove them); it never misses one that is.                          *)

Indexed == \A x \in opened : OutKey(x) \in hashIndex[PaymentHash[x.in]]

\* A step after which every open circuit was open and listed before, or was
\* added to the index by the step.
LEMMA IndexedStep ==
  ASSUME CircuitMapInv, Indexed, Step
  PROVE  Indexed'
<1> USE CircuitMapAssumption DEF Indexed
<1>1. \A x \in Keystone : PaymentHash[x.in] \in Hashes /\ OutKey(x) \in OutKeys
  BY DEF Keystone, OutKey, OutKeys
<1>2. opened \subseteq Keystone /\ hashIndex \in [Hashes -> SUBSET OutKeys]
  BY DEF CircuitMapInv, MapTypeOK
<1>3. ASSUME NEW index \in [Hashes -> SUBSET OutKeys], NEW ks \in SUBSET Keystone
      PROVE  \A x \in Keystone :
               LET h == PaymentHash[x.in]
                   new == addCircuitToHashIndex(index, ks) IN
               /\ index[h] \subseteq new[h]
               /\ x \in ks => OutKey(x) \in new[h]
  BY <1>1, <1>3 DEF addCircuitToHashIndex, OutKeysOf
<1>4. ASSUME NEW p \in Callers, NEW K \in SUBSET InKeys, DeleteCircuits(p, K)
      PROVE  Indexed'
  <2> DEFINE ks == Of(outgoing, K \cap pending)
  <2>1. ks \subseteq opened
    BY DEF Of, CircuitMapInv, MemoryInv, OpenedAgrees
  <2>2. opened' = Without(opened, ks)
    BY <1>4 DEF DeleteCircuits
  <2>3. hashIndex' = removeCircuitFromHashIndex(hashIndex, ks)
    BY <1>4 DEF DeleteCircuits
  <2> HIDE DEF ks
  <2>4. \A h \in Hashes : hashIndex'[h]
           = hashIndex[h] \ OutKeysOf({y \in ks : PaymentHash[y.in] = h})
    BY <2>3 DEF removeCircuitFromHashIndex
  <2> SUFFICES ASSUME NEW x \in opened'
               PROVE  OutKey(x) \in hashIndex'[PaymentHash[x.in]]
    OBVIOUS
  <2>5. x \in opened /\ \A y \in ks : OutKey(x) # OutKey(y)
    BY <2>2 DEF Without
  <2>6. OutKey(x) \notin OutKeysOf({y \in ks : PaymentHash[y.in] = PaymentHash[x.in]})
    BY <2>5 DEF OutKeysOf
  <2> QED
    BY <1>1, <1>2, <2>4, <2>5, <2>6
<1>5. ASSUME NEW p \in Callers, NEW c \in OutChans, TrimOpenCircuits(p, c)
      PROVE  Indexed'
  <2>1. opened' \subseteq opened
    BY <1>5 DEF TrimOpenCircuits
  <2>2. \A h \in Hashes : hashIndex[h] \ {EmptyCircuitKey} \subseteq hashIndex'[h]
    BY <1>2, <1>5 DEF TrimOpenCircuits
  <2>3. \A x \in opened : OutKey(x) # EmptyCircuitKey
    BY <1>2 DEF OutKey, EmptyCircuitKey, Keystone
  <2> QED
    BY <1>1, <1>2, <2>1, <2>2, <2>3
<1>6. ASSUME NEW p \in Callers, OpenCircuitsPublish(p) \/ DeleteCircuitsRestore(p)
      PROVE  Indexed'
  <2>1. /\ opened' = Put(opened, op[p].ks)
        /\ hashIndex' = addCircuitToHashIndex(hashIndex, op[p].ks)
    BY <1>6 DEF OpenCircuitsPublish, DeleteCircuitsRestore
  <2>2. op[p].ks \subseteq Keystone
    BY CallFields DEF CircuitMapInv
  <2>3. opened' \subseteq opened \cup op[p].ks
    BY <2>1 DEF Put, Without
  <2> QED
    BY <1>2, <1>3, <2>1, <2>2, <2>3
<1>7. ASSUME NewCircuitMap
      PROVE  Indexed'
  <2> DEFINE R == keystoneBkt \ CleanedKeystones
  <2>1. R \subseteq Keystone /\ LastOutgoing = R
    <3>1. Restored = R
      BY RestoredIsDisk
    <3>2. R \subseteq Keystone /\ \A x, y \in R : y.in = x.in => x = y
      BY DEF CircuitMapInv, DiskInv, MapTypeOK, OneToOne
    <3>3. \A x \in R : ~Before(x, x)
      <4>1. \A x \in R : x.chan \in Nat /\ x.id \in Nat
        BY <3>2, NumberTypes DEF CircuitMapInv
      <4> QED
        BY <4>1 DEF Before
    <3> QED
      BY <3>1, <3>2, <3>3 DEF LastOutgoing
  <2>2. opened' \subseteq R
    BY <1>7, RestoredIsDisk DEF NewCircuitMap
  <2>3. hashIndex' = addCircuitToHashIndex([h \in Hashes |-> {}], R)
    BY <1>7, <2>1 DEF NewCircuitMap
  <2>4. [h \in Hashes |-> {}] \in [Hashes -> SUBSET OutKeys]
    OBVIOUS
  <2> HIDE DEF R
  <2> QED
    BY <1>3, <2>1, <2>2, <2>3, <2>4
<1>8. ASSUME NEW p \in Callers,
             \/ \E K \in SUBSET InKeys : CommitCircuits(p, K)
             \/ \E c, n, ks : OpenCircuits(p, c, n, ks)
             \/ CommitCircuitsWrite(p) \/ CommitCircuitsRollback(p)
             \/ OpenCircuitsWrite(p) \/ OpenCircuitsError(p)
             \/ DeleteCircuitsWrite(p) \/ TrimOpenCircuitsWrite(p)
      PROVE  Indexed'
  BY <1>8 DEF CommitCircuits, OpenCircuits, CommitCircuitsWrite,
              CommitCircuitsRollback, OpenCircuitsWrite, OpenCircuitsError,
              DeleteCircuitsWrite, TrimOpenCircuitsWrite, memory
<1>9. ASSUME NEW x, \/ CloseCircuit(x) \/ FailCircuit(x) \/ SignResponse(x)
                    \/ SignNextCommitment(x)
      PROVE  Indexed'
  BY <1>9 DEF CloseCircuit, FailCircuit, SignResponse, SignNextCommitment, memory
<1> QED
  BY <1>4, <1>5, <1>6, <1>7, <1>8, <1>9 DEF Step

\* A lookup by payment hash (LookupByPaymentHash) never misses an open circuit,
\* whatever the failed deletions and restarts, until the write of a trim fails:
\* the rollback of DeleteCircuits and the restart rebuild the index completely.
THEOREM LookupFindsOpenAlways == Spec => []LookupFindsOpen
<1> DEFINE I == trimFailed \/ Indexed
<1>1. Init => I
  BY DEF Init, Indexed
<1>2. ASSUME InvUntilTrimFails, I, [Next]_vars
      PROVE  I'
  <2>1. CASE trimFailed
    BY <1>2, <2>1 DEF Next, TrimOpenCircuitsError, vars
  <2>2. CASE ~trimFailed /\ Step
    BY <1>2, <2>2, IndexedStep DEF InvUntilTrimFails
  <2>3. CASE ~trimFailed /\ ~Step
    <3>1. trimFailed' \/ UNCHANGED <<opened, hashIndex>>
      BY <1>2, <2>3 DEF Next, TrimOpenCircuitsError, MarkChanFullyClosed, memory, vars
    <3> QED
      BY <1>2, <2>3, <3>1 DEF Indexed
  <2> QED
    BY <2>1, <2>2, <2>3
<1>3. I => LookupFindsOpen
  BY DEF LookupFindsOpen, LookupByPaymentHash, Indexed
<1> QED
  BY <1>1, <1>2, <1>3, InvariantHolds, PTL DEF Spec
=============================================================================
