----------------------- MODULE LightningChannelProofs -----------------------
(***************************************************************************)
(* The safety of the commitment protocol between two parties, for any       *)
(* amounts, numbers of HTLCs and fee updates, and breaks of the connection.  *)
(***************************************************************************)
EXTENDS LightningChannelInvariants, SumTheorems, SequenceTheorems

-----------------------------------------------------------------------------
(* Parties, finite sets and sums. *)

LEMMA PartyFacts ==
    \A p \in Party : /\ Other(p) \in Party /\ Other(p) # p /\ Other(Other(p)) = p
                     /\ Party = {p, Other(p)}
<1> SUFFICES ASSUME NEW p \in Party
             PROVE  /\ Other(p) \in Party /\ Other(p) # p /\ Other(Other(p)) = p
                    /\ Party = {p, Other(p)}
  OBVIOUS
<1>1. Cardinality(Party) = 2
  BY ChannelAssumption
<1>2. IsFiniteSet(Party)
  BY ChannelAssumption
<1>3. IsFiniteSet(Party \ {p}) /\ Cardinality(Party \ {p}) = 1
  BY <1>1, <1>2, FS_RemoveElement
<1>4. PICK q : Party \ {p} = {q}
  BY <1>3, FS_Singleton
<1>5. Party = {p, q} /\ p # q
  BY <1>4
<1>6. Other(p) = q /\ Other(q) = p
  BY <1>5 DEF Other
<1> QED
  BY <1>5, <1>6

LEMMA AppendToOne ==
    ASSUME NEW S, NEW a \in S, NEW b \in S
    PROVE  Append(<<a>>, b) = <<a, b>>
<1>1. <<a>> \in Seq(S) /\ <<a, b>> \in Seq(S) /\ Append(<<a>>, b) \in Seq(S)
  OBVIOUS
<1>2. Len(<<a>>) = 1 /\ Len(<<a, b>>) = 2 /\ Len(Append(<<a>>, b)) = 2
  BY <1>1
<1>3. Append(<<a>>, b)[1] = a /\ Append(<<a>>, b)[2] = b
  BY <1>1, <1>2
<1>4. \A i \in 1 .. Len(<<a, b>>) : Append(<<a>>, b)[i] = <<a, b>>[i]
  BY <1>2, <1>3
<1> QED
  BY <1>1, <1>2, <1>4, SeqEqual

LEMMA FinUnion == ASSUME NEW S, NEW A \in FinSub(S), NEW B \in FinSub(S)
                  PROVE  A \union B \in FinSub(S)
BY FS_Union DEF FinSub

LEMMA FinPart == ASSUME NEW S, NEW A \in FinSub(S), NEW B \in SUBSET A
                 PROVE  B \in FinSub(S)
BY FS_Subset DEF FinSub

LEMMA FinOne == \A S : {} \in FinSub(S) /\ \A x \in S : {x} \in FinSub(S)
BY FS_EmptySet, FS_Singleton DEF FinSub

LEMMA FinImage == ASSUME NEW S, NEW T, NEW A \in FinSub(S), NEW f \in [A -> T]
                  PROVE  {f[x] : x \in A} \in FinSub(T)
<1> DEFINE B == {f[x] : x \in A}
<1>1. f \in Surjection(A, B)
  BY DEF Surjection
<1>2. IsFiniteSet(B)
  BY <1>1, FS_Surjection DEF FinSub
<1> QED
  BY <1>2 DEF FinSub

LEMMA SumAmtType == ASSUME NEW S, IsFiniteSet(S), \A e \in S : e.amt \in Nat
                    PROVE  SumAmt(S) \in Nat
<1> DEFINE f == [e \in S |-> e.amt]
<1>1. \A e \in S : f[e] \in Nat
  OBVIOUS
<1>2. SumAmt(S) = Total(f, S)
  BY DEF SumAmt, Total
<1> HIDE DEF f
<1> QED
  BY <1>1, <1>2, TotalType

\* A finite set has an element with the greatest number.
LEMMA Greatest == ASSUME NEW S, IsFiniteSet(S), S # {}, NEW f \in [S -> Nat]
                  PROVE  \E e \in S : \A x \in S : f[x] <= f[e]
<1> DEFINE N == {n \in Nat : \A s \in SUBSET S : Cardinality(s) = n /\ s # {}
                    => \E e \in s : \A x \in s : f[x] <= f[e]}
<1>1. 0 \in N
  BY Subsets
<1>2. ASSUME NEW n \in N PROVE n + 1 \in N
  <2> SUFFICES ASSUME NEW s \in SUBSET S, Cardinality(s) = n + 1, s # {}
               PROVE  \E e \in s : \A x \in s : f[x] <= f[e]
    OBVIOUS
  <2>1. PICK y \in s : TRUE
    OBVIOUS
  <2>2. s \ {y} \in SUBSET S /\ Cardinality(s \ {y}) = n
    BY Subsets, Smaller
  <2>3. CASE s \ {y} = {}
    BY <2>3
  <2>4. CASE s \ {y} # {}
    <3>1. PICK e \in s \ {y} : \A x \in s \ {y} : f[x] <= f[e]
      BY <2>2, <2>4
    <3>2. f[e] \in Nat /\ f[y] \in Nat /\ \A x \in s : f[x] \in Nat
      OBVIOUS
    <3>3. CASE f[y] <= f[e]
      BY <3>1, <3>3
    <3>4. CASE f[e] <= f[y]
      BY <3>1, <3>2, <3>4
    <3> QED
      BY <3>2, <3>3, <3>4
  <2> QED
    BY <2>3, <2>4
<1> HIDE DEF N
<1>3. N \in SUBSET Nat
  BY DEF N
<1>4. N = Nat
  BY <1>1, <1>2, <1>3, NatSetInduction
<1>5. Cardinality(S) \in Nat /\ S \in SUBSET S
  BY FS_CardinalityType
<1> QED
  BY <1>4, <1>5 DEF N
-----------------------------------------------------------------------------
(* Types of what the logs lead to. *)

LEMMA EntryFacts ==
    \A e \in AnyEntry : /\ e.type \in UpdateTypes /\ e.logIndex \in Nat /\ e.htlc \in Nat
                        /\ e.amt \in Nat /\ e.add \in [Chains -> Nat] /\ e.rm \in [Chains -> Nat]
                        /\ \A c \in Chains : e.add[c] \in Nat /\ e.rm[c] \in Nat
BY DEF AnyEntry

LEMMA SumOfEntries == \A S \in FinSub(AnyEntry) : SumAmt(S) \in Nat
BY SumAmtType, EntryFacts DEF FinSub

LEMMA HtlcsOfType == ASSUME NEW S \in FinSub(AnyEntry) PROVE HtlcsOf(S) \in FinSub(AnyHtlc)
<1> DEFINE f == [e \in S |-> [logIndex |-> e.logIndex, htlc |-> e.htlc, amt |-> e.amt]]
<1>1. S \subseteq AnyEntry
  BY DEF FinSub
<1>2. f \in [S -> AnyHtlc]
  BY <1>1, EntryFacts DEF AnyHtlc
<1>3. HtlcsOf(S) = {f[e] : e \in S}
  BY DEF HtlcsOf
<1> HIDE DEF f
<1> QED
  BY <1>2, <1>3, FinImage

LEMMA UpdatesType == ASSUME NEW S \in FinSub(AnyEntry) PROVE {Update(e) : e \in S} \in FinSub(AnyUpdate)
<1> DEFINE f == [e \in S |-> Update(e)]
<1>1. S \subseteq AnyEntry
  BY DEF FinSub
<1>2. f \in [S -> AnyUpdate]
  BY <1>1, EntryFacts DEF AnyUpdate, Update, LogUpdate
<1>3. {Update(e) : e \in S} = {f[e] : e \in S}
  OBVIOUS
<1> HIDE DEF f
<1> QED
  BY <1>2, <1>3, FinImage

AnyView == [ours : FinSub(AnyEntry), theirs : FinSub(AnyEntry)]

LEMMA LogEntries == \A m \in AnyMemory : /\ m.localLog.entries \in FinSub(AnyEntry)
                                         /\ m.remoteLog.entries \in FinSub(AnyEntry)
BY DEF AnyMemory, AnyLog

LEMMA ViewType ==
    ASSUME NEW m \in AnyMemory, NEW i, NEW j
    PROVE  fetchHTLCView(m, i, j, {}, {}) \in AnyView
<1>1. \A P, Q : P \subseteq m.localLog.entries /\ Q \subseteq m.remoteLog.entries
          => P \in FinSub(AnyEntry) /\ Q \in FinSub(AnyEntry)
  BY LogEntries, FinPart
<1> QED
  BY <1>1 DEF fetchHTLCView, AnyView

LEMMA EvaluateType ==
    ASSUME NEW m \in AnyMemory, NEW view \in AnyView, NEW chain \in Chains,
           tip(ChainOf(m, chain)) \in AnyCommit
    PROVE  LET v == evaluateHTLCView(m, view, chain)
           IN  /\ v.ourBalance \in Int /\ v.theirBalance \in Int /\ v.feePerKw \in Nat
               /\ v.outgoing \in FinSub(AnyEntry) /\ v.incoming \in FinSub(AnyEntry)
               /\ v.outgoing \subseteq view.ours /\ v.incoming \subseteq view.theirs
               /\ v.err \in BOOLEAN
<1> DEFINE last       == tip(ChainOf(m, chain))
           ourRm      == {e \in view.ours : IsRemoval(e)}
           theirRm    == {e \in view.theirs : IsRemoval(e)}
           outgoing   == {e \in Adds(view.ours) : e.htlc \notin Removed(theirRm)}
           incoming   == {e \in Adds(view.theirs) : e.htlc \notin Removed(ourRm)}
           New(S)     == {e \in S : e.add[chain] = 0}
           Went(S, t) == {e \in S : e.rm[chain] = 0 /\ e.type = t}
           feeUpdates == New({e \in view.ours \union view.theirs : e.type = "FeeUpdate"})
           v == evaluateHTLCView(m, view, chain)
<1>0. view.ours \in FinSub(AnyEntry) /\ view.theirs \in FinSub(AnyEntry)
  BY DEF AnyView
<1>1. \A S : (S \subseteq view.ours \/ S \subseteq view.theirs) => S \in FinSub(AnyEntry)
  BY <1>0, FinPart
<1>2. outgoing \subseteq view.ours /\ incoming \subseteq view.theirs
  BY DEF Adds
<1>3. /\ SumAmt(New(outgoing)) \in Nat /\ SumAmt(New(incoming)) \in Nat
      /\ \A t : /\ SumAmt(Went(ourRm, t)) \in Nat /\ SumAmt(Went(theirRm, t)) \in Nat
  <2>1. New(outgoing) \in FinSub(AnyEntry) /\ New(incoming) \in FinSub(AnyEntry)
    BY <1>1, <1>2
  <2>2. \A t : Went(ourRm, t) \in FinSub(AnyEntry) /\ Went(theirRm, t) \in FinSub(AnyEntry)
    BY <1>1
  <2> QED
    BY <2>1, <2>2, SumOfEntries
<1>4. last.ourBalance \in Int /\ last.theirBalance \in Int /\ last.feePerKw \in Nat
  BY DEF AnyCommit
<1>5. feeUpdates # {} => (CHOOSE e \in feeUpdates :
                             \A x \in feeUpdates : x.logIndex <= e.logIndex).amt \in Nat
  <2> SUFFICES ASSUME feeUpdates # {}
               PROVE  (CHOOSE e \in feeUpdates :
                             \A x \in feeUpdates : x.logIndex <= e.logIndex).amt \in Nat
    OBVIOUS
  <2> DEFINE f == [e \in feeUpdates |-> e.logIndex]
  <2>1. feeUpdates \in FinSub(AnyEntry)
    <3>1. view.ours \union view.theirs \in FinSub(AnyEntry)
      BY <1>0, FinUnion
    <3>2. feeUpdates \subseteq view.ours \union view.theirs
      OBVIOUS
    <3> HIDE DEF feeUpdates
    <3> QED
      BY <3>1, <3>2, FinPart
  <2>2. f \in [feeUpdates -> Nat] /\ IsFiniteSet(feeUpdates) /\ feeUpdates \subseteq AnyEntry
    <3> HIDE DEF feeUpdates
    <3>1. IsFiniteSet(feeUpdates) /\ feeUpdates \subseteq AnyEntry
      BY <2>1 DEF FinSub
    <3>2. \A e \in feeUpdates : e.logIndex \in Nat
      BY <3>1, EntryFacts
    <3> QED
      BY <3>1, <3>2
  <2>3. \E e \in feeUpdates : \A x \in feeUpdates : f[x] <= f[e]
    <3> HIDE DEF f, feeUpdates
    <3> QED
      BY <2>2, Greatest
  <2>4. \E e \in feeUpdates : \A x \in feeUpdates : x.logIndex <= e.logIndex
    BY <2>3
  <2> HIDE DEF feeUpdates
  <2>5. (CHOOSE e \in feeUpdates : \A x \in feeUpdates : x.logIndex <= e.logIndex) \in feeUpdates
    BY <2>4
  <2> QED
    BY <2>2, <2>5, EntryFacts
<1>6. /\ v.outgoing = outgoing /\ v.incoming = incoming
      /\ v.ourBalance = last.ourBalance + SumAmt(Went(ourRm, "Settle"))
                            + SumAmt(Went(theirRm, "Fail")) - SumAmt(New(outgoing))
      /\ v.theirBalance = last.theirBalance + SumAmt(Went(theirRm, "Settle"))
                            + SumAmt(Went(ourRm, "Fail")) - SumAmt(New(incoming))
      /\ v.feePerKw = IF feeUpdates = {} THEN last.feePerKw
                     ELSE (CHOOSE e \in feeUpdates :
                             \A x \in feeUpdates : x.logIndex <= e.logIndex).amt
      /\ v.err \in BOOLEAN
  BY DEF evaluateHTLCView
<1>7. v.ourBalance \in Int /\ v.theirBalance \in Int
  <2>1. \A t : SumAmt(Went(ourRm, t)) \in Nat /\ SumAmt(Went(theirRm, t)) \in Nat
    BY <1>3
  <2> HIDE DEF v, last, outgoing, incoming, ourRm, theirRm, Went, New
  <2> QED
    BY <1>3, <1>4, <1>6, <2>1
<1>8. v.outgoing \in FinSub(AnyEntry) /\ v.incoming \in FinSub(AnyEntry)
  BY <1>1, <1>2, <1>6
<1> HIDE DEF v, outgoing, incoming, feeUpdates, last
<1> QED
  BY <1>2, <1>4, <1>5, <1>6, <1>7, <1>8 DEF v

\* Mark of Stamp.
MarkOf(v, chain, height, e) ==
    CASE e.type = "Add" /\ e \in v.outgoing \union v.incoming /\ e.add[chain] = 0 ->
            [e EXCEPT !.add[chain] = height]
      [] IsRemoval(e) /\ e.rm[chain] = 0 -> [e EXCEPT !.rm[chain] = height]
      [] e.type = "FeeUpdate" /\ e.add[chain] = 0 ->
            [e EXCEPT !.add[chain] = height, !.rm[chain] = height]
      [] OTHER -> e
MarkedLog(v, chain, height, log, S) ==
    [log EXCEPT !.entries = {IF e \in S THEN MarkOf(v, chain, height, e) ELSE e : e \in @}]

LEMMA StampIs ==
    \A m, view, v, chain, height :
        Stamp(m, view, v, chain, height)
            = [m EXCEPT !.localLog = MarkedLog(v, chain, height, @, view.ours),
                        !.remoteLog = MarkedLog(v, chain, height, @, view.theirs)]
BY DEF Stamp, MarkedLog, MarkOf

LEMMA MarkType ==
    ASSUME NEW e \in AnyEntry, NEW v, NEW chain \in Chains, NEW height \in Nat
    PROVE  LET x == MarkOf(v, chain, height, e)
           IN  x \in AnyEntry /\ Update(x) = Update(e)
<1>1. CASE e.type = "Add" /\ e \in v.outgoing \union v.incoming /\ e.add[chain] = 0
  BY <1>1 DEF MarkOf, AnyEntry, Update, LogUpdate, IsRemoval, UpdateTypes
<1>2. CASE IsRemoval(e) /\ e.rm[chain] = 0
  BY <1>2 DEF MarkOf, AnyEntry, Update, LogUpdate, IsRemoval, UpdateTypes
<1>3. CASE e.type = "FeeUpdate" /\ e.add[chain] = 0
  BY <1>3 DEF MarkOf, AnyEntry, Update, LogUpdate, IsRemoval, UpdateTypes
<1>4. CASE ~(\/ e.type = "Add" /\ e \in v.outgoing \union v.incoming /\ e.add[chain] = 0
             \/ IsRemoval(e) /\ e.rm[chain] = 0
             \/ e.type = "FeeUpdate" /\ e.add[chain] = 0)
  BY <1>4 DEF MarkOf
<1> QED
  BY <1>1, <1>2, <1>3, <1>4

LEMMA MarkedType ==
    ASSUME NEW log \in AnyLog, NEW v, NEW chain \in Chains, NEW height \in Nat, NEW S
    PROVE  MarkedLog(v, chain, height, log, S) \in AnyLog
<1> DEFINE f == [e \in log.entries |-> IF e \in S THEN MarkOf(v, chain, height, e) ELSE e]
<1>1. log.entries \in FinSub(AnyEntry) /\ log.entries \subseteq AnyEntry
  BY DEF AnyLog, FinSub
<1>2. f \in [log.entries -> AnyEntry]
  BY <1>1, MarkType
<1>3. {f[e] : e \in log.entries} \in FinSub(AnyEntry)
  <2> HIDE DEF f
  <2> QED
    BY <1>1, <1>2, FinImage
<1>4. MarkedLog(v, chain, height, log, S) = [log EXCEPT !.entries = {f[e] : e \in log.entries}]
  BY DEF MarkedLog
<1> HIDE DEF f
<1> QED
  BY <1>3, <1>4 DEF AnyLog

LEMMA StampType ==
    ASSUME NEW m \in AnyMemory, NEW view, NEW v, NEW chain \in Chains, NEW height \in Nat
    PROVE  LET n == Stamp(m, view, v, chain, height)
           IN  /\ n \in AnyMemory
               /\ n.localChain = m.localChain /\ n.remoteChain = m.remoteChain
               /\ n.localLog = MarkedLog(v, chain, height, m.localLog, view.ours)
               /\ n.remoteLog = MarkedLog(v, chain, height, m.remoteLog, view.theirs)
<1>1. m.localLog \in AnyLog /\ m.remoteLog \in AnyLog
  BY DEF AnyMemory
<1>2. /\ MarkedLog(v, chain, height, m.localLog, view.ours) \in AnyLog
      /\ MarkedLog(v, chain, height, m.remoteLog, view.theirs) \in AnyLog
  BY <1>1, MarkedType
<1> QED
  BY <1>2, StampIs DEF AnyMemory

\* What a new commitment of a chain looks like, given the view it is made from.
NewCommitment(m, chain, ourLog, ourHtlc, theirLog, theirHtlc, r) ==
    LET view == fetchHTLCView(m, theirLog, ourLog, {}, {})
        v    == evaluateHTLCView(m, view, chain)
        height == tip(ChainOf(m, chain)).height + 1
    IN  /\ r.ok => ~v.err
        /\ r.commit = NextCommitment(v, height, ourLog, ourHtlc, theirLog, theirHtlc)
        /\ r.mem = Stamp(m, view, v, chain, height)

LEMMA CommitmentIs ==
    \A m, chain, ourLog, ourHtlc, theirLog, theirHtlc :
        NewCommitment(m, chain, ourLog, ourHtlc, theirLog, theirHtlc,
                      fetchCommitmentView(m, chain, ourLog, ourHtlc, theirLog, theirHtlc))
<1> SUFFICES ASSUME NEW m, NEW chain, NEW ourLog, NEW ourHtlc, NEW theirLog, NEW theirHtlc
             PROVE  NewCommitment(m, chain, ourLog, ourHtlc, theirLog, theirHtlc,
                      fetchCommitmentView(m, chain, ourLog, ourHtlc, theirLog, theirHtlc))
  OBVIOUS
<1> DEFINE view == fetchHTLCView(m, theirLog, ourLog, {}, {})
           v    == evaluateHTLCView(m, view, chain)
           height == tip(ChainOf(m, chain)).height + 1
           r == fetchCommitmentView(m, chain, ourLog, ourHtlc, theirLog, theirHtlc)
<1>1. r = [ok     |-> ~v.err /\ (Asset => Receivers(v) <= MaxReceivers),
           commit |-> NextCommitment(v, height, ourLog, ourHtlc, theirLog, theirHtlc),
           mem    |-> Stamp(m, view, v, chain, height)]
  BY DEF fetchCommitmentView
<1> HIDE DEF r, v, view, height
<1>2. /\ r.ok => ~v.err
      /\ r.commit = NextCommitment(v, height, ourLog, ourHtlc, theirLog, theirHtlc)
      /\ r.mem = Stamp(m, view, v, chain, height)
  BY <1>1
<1> QED
  BY <1>2 DEF NewCommitment, r, v, view, height

CommitmentOK(m, chain, r) ==
    /\ r.commit \in AnyCommit /\ r.mem \in AnyMemory
    /\ r.commit.height = tip(ChainOf(m, chain)).height + 1
    /\ r.mem.localChain = m.localChain /\ r.mem.remoteChain = m.remoteChain

LEMMA CommitmentType ==
    ASSUME NEW m \in AnyMemory, NEW chain \in Chains, tip(ChainOf(m, chain)) \in AnyCommit,
           NEW ourLog \in Nat, NEW ourHtlc \in Nat, NEW theirLog \in Nat, NEW theirHtlc \in Nat
    PROVE  CommitmentOK(m, chain, fetchCommitmentView(m, chain, ourLog, ourHtlc, theirLog, theirHtlc))
<1> DEFINE view == fetchHTLCView(m, theirLog, ourLog, {}, {})
           v    == evaluateHTLCView(m, view, chain)
           height == tip(ChainOf(m, chain)).height + 1
           r == fetchCommitmentView(m, chain, ourLog, ourHtlc, theirLog, theirHtlc)
<1>1. /\ r.commit = NextCommitment(v, height, ourLog, ourHtlc, theirLog, theirHtlc)
      /\ r.mem = Stamp(m, view, v, chain, height)
  BY CommitmentIs DEF NewCommitment
<1>2. height \in Nat
  BY DEF AnyCommit
<1>3. view \in AnyView
  BY ViewType
<1>4. /\ v.ourBalance \in Int /\ v.theirBalance \in Int /\ v.feePerKw \in Nat
      /\ v.outgoing \in FinSub(AnyEntry) /\ v.incoming \in FinSub(AnyEntry)
  <2> HIDE DEF view
  <2> QED
    BY <1>3, EvaluateType
<1> HIDE DEF v, view, r, height
<1>5. r.commit \in AnyCommit /\ r.commit.height = height
  BY <1>1, <1>2, <1>4, HtlcsOfType DEF NextCommitment, AnyCommit
<1>6. r.mem \in AnyMemory /\ r.mem.localChain = m.localChain /\ r.mem.remoteChain = m.remoteChain
  BY <1>1, <1>2, StampType
<1> QED
  BY <1>5, <1>6 DEF r, height, CommitmentOK
-----------------------------------------------------------------------------
(* What signing, revoking and synchronising do to the commitments. *)

LEMMA ChainFacts ==
    ASSUME NEW m \in AnyMemory, NEW d \in AnyDisk, ChainsOf(m, d)
    PROVE  /\ d.local \in AnyCommit /\ d.remote \in AnyCommit
           /\ d.local.height \in Nat /\ d.remote.height \in Nat
           /\ tail(m.localChain) = d.local /\ tip(m.localChain) = d.local
           /\ tail(m.remoteChain) = d.remote
           /\ d.pending = <<>> => /\ tip(m.remoteChain) = d.remote /\ ~hasUnackedCommitment(m.remoteChain)
                                  /\ m.remoteChain = <<d.remote>>
           /\ d.pending # <<>> => /\ tip(m.remoteChain) = d.pending[1].commit
                                  /\ hasUnackedCommitment(m.remoteChain)
                                  /\ d.pending \in {<<x>> : x \in AnyPending}
                                  /\ d.pending[1].commit \in AnyCommit
                                  /\ d.pending[1].commit.height \in Nat
                                  /\ d.pending[1].updates \in FinSub(AnyUpdate)
           /\ m.localLog \in AnyLog /\ m.remoteLog \in AnyLog
           /\ m.localLog.logIndex \in Nat /\ m.localLog.htlcCounter \in Nat
           /\ m.remoteLog.logIndex \in Nat /\ m.remoteLog.htlcCounter \in Nat
<1>1. /\ d.local \in AnyCommit /\ d.remote \in AnyCommit
      /\ d.pending # <<>> => d.pending \in {<<x>> : x \in AnyPending}
  BY DEF AnyDisk
<1>2. d.local.height \in Nat /\ d.remote.height \in Nat
  BY <1>1 DEF AnyCommit
<1>3. d.pending # <<>> => /\ d.pending[1].commit \in AnyCommit
                          /\ d.pending[1].commit.height \in Nat
                          /\ d.pending[1].updates \in FinSub(AnyUpdate)
  <2> SUFFICES ASSUME d.pending # <<>>
               PROVE  /\ d.pending[1].commit \in AnyCommit
                      /\ d.pending[1].commit.height \in Nat
                      /\ d.pending[1].updates \in FinSub(AnyUpdate)
    OBVIOUS
  <2>1. PICK x \in AnyPending : d.pending = <<x>>
    BY <1>1
  <2>2. d.pending[1] = x
    BY <2>1
  <2>3. x.commit \in AnyCommit /\ x.updates \in FinSub(AnyUpdate)
    BY DEF AnyPending
  <2> QED
    BY <2>2, <2>3 DEF AnyCommit
<1>4. /\ m.localLog \in AnyLog /\ m.remoteLog \in AnyLog
  BY DEF AnyMemory
<1>5. /\ m.localLog.logIndex \in Nat /\ m.localLog.htlcCounter \in Nat
      /\ m.remoteLog.logIndex \in Nat /\ m.remoteLog.htlcCounter \in Nat
  BY <1>4 DEF AnyLog
<1> QED
  BY <1>1, <1>2, <1>3, <1>4, <1>5 DEF ChainsOf, RemoteChain, tail, tip, hasUnackedCommitment

LEMMA CommitIndices ==
    \A c \in AnyCommit : /\ c.height \in Nat /\ c.ourMessageIndex \in Nat /\ c.theirMessageIndex \in Nat
                         /\ c.ourHtlcIndex \in Nat /\ c.theirHtlcIndex \in Nat
BY DEF AnyCommit

NotSignedOK(m, d, s) ==
    /\ s.err \in {"ErrNoWindow", "ErrInternalError"}
    /\ s.err = "ErrNoWindow" <=> d.pending # <<>>
    /\ s.mem = m /\ s.disk = d /\ s.msgs = <<>>
IsSignature(d, s, c, U) ==
    /\ c.height = d.remote.height + 1
    /\ s.disk = [d EXCEPT !.lastWasRevoke = FALSE, !.pending = <<[commit |-> c, updates |-> U]>>]
    /\ s.msgs = <<CommitSig(c)>>
SignedOK(d, s) ==
    /\ s.err = "none" /\ d.pending = <<>>
    /\ s.mem \in AnyMemory /\ ChainsOf(s.mem, s.disk)
    /\ \E c \in AnyCommit, U \in FinSub(AnyUpdate) : IsSignature(d, s, c, U)

LEMMA SignNext ==
    ASSUME NEW m \in AnyMemory, NEW d \in AnyDisk, ChainsOf(m, d)
    PROVE  LET s == SignNextCommitment(m, d) IN NotSignedOK(m, d, s) \/ SignedOK(d, s)
<1> DEFINE s == SignNextCommitment(m, d)
           acked == tail(m.localChain)
           view == fetchCommitmentView(m, "remote", m.localLog.logIndex,
                        m.localLog.htlcCounter, acked.theirMessageIndex, acked.theirHtlcIndex)
<1>1. CASE d.pending # <<>>
  <2>1. s = NotSigned(m, d, "ErrNoWindow")
    BY <1>1, ChainFacts DEF SignNextCommitment
  <2> QED
    BY <1>1, <2>1 DEF NotSigned, NotSignedOK
<1>2. CASE d.pending = <<>>
  <2>0. ~hasUnackedCommitment(m.remoteChain)
    BY <1>2, ChainFacts
  <2>1. s = NotSigned(m, d, "ErrInternalError") \/ s = Signed(d, view)
    BY <2>0 DEF SignNextCommitment
  <2>2. CASE s = NotSigned(m, d, "ErrInternalError")
    BY <1>2, <2>2 DEF NotSigned, NotSignedOK
  <2>3. CASE s = Signed(d, view)
    <3>1. acked = d.local /\ acked \in AnyCommit
      BY ChainFacts
    <3>2. ChainOf(m, "remote") = m.remoteChain /\ tip(m.remoteChain) = d.remote
          /\ d.remote \in AnyCommit /\ "remote" \in Chains
      BY <1>2, ChainFacts DEF ChainOf, Chains
    <3>3. /\ view.commit \in AnyCommit /\ view.mem \in AnyMemory
          /\ view.commit.height = d.remote.height + 1
          /\ view.mem.localChain = m.localChain /\ view.mem.remoteChain = m.remoteChain
      <4>1. /\ acked.theirMessageIndex \in Nat /\ acked.theirHtlcIndex \in Nat
            /\ m.localLog.logIndex \in Nat /\ m.localLog.htlcCounter \in Nat
        BY <3>1, CommitIndices, ChainFacts
      <4>2. tip(ChainOf(m, "remote")) = d.remote /\ tip(ChainOf(m, "remote")) \in AnyCommit
        BY <3>2
      <4> HIDE DEF acked
      <4>3. CommitmentOK(m, "remote", view)
        BY <3>2, <4>1, <4>2, CommitmentType
      <4> QED
        BY <4>2, <4>3 DEF CommitmentOK
    <3> DEFINE U == createCommitDiff(view.mem, view.commit)
    <3>4. U \in FinSub(AnyUpdate)
      <4> HIDE DEF view
      <4>1. \A S : S \subseteq view.mem.localLog.entries => S \in FinSub(AnyEntry)
        BY <3>3, LogEntries, FinPart
      <4> QED
        BY <4>1, UpdatesType DEF createCommitDiff
    <3> HIDE DEF view, U
    <3>5. /\ s.err = "none" /\ s.msgs = <<CommitSig(view.commit)>>
          /\ s.mem = [view.mem EXCEPT !.remoteChain = Append(@, view.commit)]
          /\ s.disk = [d EXCEPT !.lastWasRevoke = FALSE,
                                !.pending = <<[commit |-> view.commit, updates |-> U]>>]
      BY <2>3 DEF Signed, AppendRemoteCommitChain, U
    <3>6. IsSignature(d, s, view.commit, U)
      BY <3>3, <3>5 DEF IsSignature
    <3> HIDE DEF s
    <3>7. Append(m.remoteChain, view.commit) = <<d.remote, view.commit>>
      <4>1. m.remoteChain = <<d.remote>>
        BY <1>2, ChainFacts
      <4> QED
        BY <3>2, <3>3, <4>1, AppendToOne
    <3>8. /\ s.mem \in AnyMemory /\ s.mem.localChain = m.localChain
          /\ s.mem.remoteChain = <<d.remote, view.commit>>
      <4>1. <<d.remote, view.commit>> \in Seq(AnyCommit)
        BY <3>2, <3>3
      <4>2. s.mem = [view.mem EXCEPT !.remoteChain = <<d.remote, view.commit>>]
        BY <3>3, <3>5, <3>7
      <4> QED
        BY <3>3, <4>1, <4>2 DEF AnyMemory
    <3>9. ChainsOf(s.mem, s.disk)
      <4>1. s.disk.local = d.local /\ s.disk.remote = d.remote /\ s.disk.pending # <<>>
            /\ s.disk.pending[1].commit = view.commit
        BY <3>5 DEF AnyDisk
      <4> QED
        BY <3>8, <4>1 DEF ChainsOf, RemoteChain
    <3>10. SignedOK(d, s)
      BY <1>2, <3>3, <3>4, <3>5, <3>6, <3>8, <3>9 DEF SignedOK
    <3> QED
      BY <3>10 DEF s
  <2> QED
    BY <2>1, <2>2, <2>3
<1> QED
  BY <1>1, <1>2

LEMMA UpdatesOfType ==
    ASSUME NEW m \in AnyMemory
    PROVE  /\ \A S : S \subseteq m.localLog.entries => {Update(e) : e \in S} \in FinSub(AnyUpdate)
           /\ \A S : S \subseteq m.remoteLog.entries => {Update(e) : e \in S} \in FinSub(AnyUpdate)
<1>1. \A S : S \subseteq m.localLog.entries => S \in FinSub(AnyEntry)
  BY LogEntries, FinPart
<1>2. \A S : S \subseteq m.remoteLog.entries => S \in FinSub(AnyEntry)
  BY LogEntries, FinPart
<1> QED
  BY <1>1, <1>2, UpdatesType

\* The new local commitment c, verified and put on disk.
RevokedOK(d, c, r) ==
    /\ r.mem \in AnyMemory /\ r.disk \in AnyDisk /\ ChainsOf(r.mem, r.disk)
    /\ r.disk.local = c /\ r.disk.remote = d.remote /\ r.disk.pending = d.pending
    /\ r.msgs = <<RevokeAndAck(d.local.height)>>

LEMMA ReceiveSignature ==
    ASSUME NEW m \in AnyMemory, NEW d \in AnyDisk, ChainsOf(m, d), NEW tx,
           NEW n, n = ReceiveNewCommitment(m, tx), n.ok
    PROVE  \E c \in AnyCommit : /\ OwnTx(c) = tx /\ c.height = d.local.height + 1
                                /\ RevokedOK(d, c, RevokeCurrentCommitment(n.mem, d))
<1> DEFINE acked == tail(m.remoteChain)
           view == fetchCommitmentView(m, "local", acked.ourMessageIndex,
                    acked.ourHtlcIndex, m.remoteLog.logIndex, m.remoteLog.htlcCounter)
           c == view.commit
<1>1. acked = d.remote /\ acked \in AnyCommit
  BY ChainFacts
<1>2. ChainOf(m, "local") = m.localChain /\ tip(m.localChain) = d.local
      /\ d.local \in AnyCommit /\ "local" \in Chains
  BY ChainFacts DEF ChainOf, Chains
<1>3. /\ view.commit \in AnyCommit /\ view.mem \in AnyMemory
      /\ view.commit.height = d.local.height + 1
      /\ view.mem.localChain = m.localChain /\ view.mem.remoteChain = m.remoteChain
  <2>1. /\ acked.ourMessageIndex \in Nat /\ acked.ourHtlcIndex \in Nat
        /\ m.remoteLog.logIndex \in Nat /\ m.remoteLog.htlcCounter \in Nat
    BY <1>1, CommitIndices, ChainFacts
  <2>2. tip(ChainOf(m, "local")) = d.local /\ tip(ChainOf(m, "local")) \in AnyCommit
    BY <1>2
  <2> HIDE DEF acked
  <2>3. CommitmentOK(m, "local", view)
    BY <1>2, <2>1, <2>2, CommitmentType
  <2> QED
    BY <2>2, <2>3 DEF CommitmentOK
<1>4. n.mem = [view.mem EXCEPT !.localChain = Append(@, view.commit)] /\ OwnTx(view.commit) = tx
  BY DEF ReceiveNewCommitment
<1> HIDE DEF view
<1>5. /\ m.localChain = <<d.local>> /\ m.remoteChain = RemoteChain(d)
      /\ tail(m.localChain) = d.local
  BY ChainFacts DEF ChainsOf
<1>6. n.mem = [view.mem EXCEPT !.localChain = <<d.local, c>>]
  BY <1>2, <1>3, <1>4, <1>5, AppendToOne
<1>7. /\ n.mem \in AnyMemory /\ n.mem.localChain = <<d.local, c>>
      /\ n.mem.remoteChain = RemoteChain(d)
  <2>1. <<d.local, c>> \in Seq(AnyCommit)
    BY <1>2, <1>3
  <2> QED
    BY <1>3, <1>5, <1>6, <2>1 DEF AnyMemory
<1> DEFINE m2 == [n.mem EXCEPT !.localChain = Tail(@)]
           r == RevokeCurrentCommitment(n.mem, d)
           U == getUnsignedAckedUpdates(m2)
<1>8. /\ m2 \in AnyMemory /\ m2.localChain = <<c>> /\ m2.remoteChain = RemoteChain(d)
  <2>1. Tail(<<d.local, c>>) = <<c>> /\ <<c>> \in Seq(AnyCommit)
    BY <1>3
  <2>2. m2 = [n.mem EXCEPT !.localChain = <<c>>]
    BY <1>7, <2>1
  <2> QED
    BY <1>7, <2>1, <2>2 DEF AnyMemory
<1>9. tail(n.mem.localChain) = d.local /\ tail(m2.localChain) = c
  <2> HIDE DEF m2
  <2> QED
    BY <1>7, <1>8 DEF tail
<1>10. U \in FinSub(AnyUpdate)
  <2> HIDE DEF m2
  <2> QED
    BY <1>8, UpdatesOfType DEF getUnsignedAckedUpdates
<1>11. r = [mem |-> m2, disk |-> UpdateCommitment(d, tail(m2.localChain), U),
            msgs |-> <<RevokeAndAck(tail(n.mem.localChain).height)>>]
  BY DEF RevokeCurrentCommitment
<1> HIDE DEF m2, U, r, c
<1>12. r.mem = m2 /\ r.disk = UpdateCommitment(d, c, U) /\ r.msgs = <<RevokeAndAck(d.local.height)>>
  BY <1>9, <1>11
<1>13. /\ r.disk \in AnyDisk /\ r.disk.local = c /\ r.disk.remote = d.remote
       /\ r.disk.pending = d.pending
  <2>1. {u \in d.remoteUnsignedLocal : u.logIndex >= c.ourMessageIndex} \in FinSub(AnyUpdate)
    BY FinPart DEF AnyDisk
  <2> QED
    BY <1>3, <1>10, <1>12, <2>1 DEF UpdateCommitment, AnyDisk, c
<1>14. ChainsOf(r.mem, r.disk)
  BY <1>8, <1>12, <1>13 DEF ChainsOf, RemoteChain
<1>15. RevokedOK(d, c, r)
  BY <1>8, <1>12, <1>13, <1>14 DEF RevokedOK
<1> QED
  BY <1>3, <1>4, <1>15 DEF r, c

LEMMA CompactType ==
    ASSUME NEW a \in AnyLog, NEW b \in AnyLog, NEW i, NEW j
    PROVE  LET logs == compactLogs(a, b, i, j) IN logs.ours \in AnyLog /\ logs.theirs \in AnyLog
<1>1. \A S : S \subseteq a.entries => S \in FinSub(AnyEntry)
  BY FinPart DEF AnyLog
<1>2. \A S : S \subseteq b.entries => S \in FinSub(AnyEntry)
  BY FinPart DEF AnyLog
<1> QED
  BY <1>1, <1>2 DEF compactLogs, AnyLog

LEMMA ForwardMarkType ==
    ASSUME NEW log \in AnyLog, NEW F
    PROVE  [log EXCEPT !.entries =
               {IF e \in F THEN [e EXCEPT !.forwarded = TRUE] ELSE e : e \in @}] \in AnyLog
<1> DEFINE f == [e \in log.entries |-> IF e \in F THEN [e EXCEPT !.forwarded = TRUE] ELSE e]
<1>1. log.entries \in FinSub(AnyEntry) /\ log.entries \subseteq AnyEntry
  BY DEF AnyLog, FinSub
<1>2. f \in [log.entries -> AnyEntry]
  BY <1>1 DEF AnyEntry
<1>3. {f[e] : e \in log.entries} \in FinSub(AnyEntry)
  <2> HIDE DEF f
  <2> QED
    BY <1>1, <1>2, FinImage
<1>4. {f[e] : e \in log.entries}
         = {IF e \in F THEN [e EXCEPT !.forwarded = TRUE] ELSE e : e \in log.entries}
  OBVIOUS
<1> HIDE DEF f
<1> QED
  BY <1>3, <1>4 DEF AnyLog

AdvancedOK(d, r) ==
    /\ r.mem \in AnyMemory /\ r.disk \in AnyDisk /\ ChainsOf(r.mem, r.disk)
    /\ r.disk.local = d.local /\ r.disk.remote = d.pending[1].commit /\ r.disk.pending = <<>>

LEMMA ReceiveRevokes ==
    ASSUME NEW m \in AnyMemory, NEW d \in AnyDisk, ChainsOf(m, d), NEW h,
           NEW r, r = ReceiveRevocation(m, d, h)
    PROVE  /\ r.ok <=> h = d.remote.height /\ d.pending # <<>>
           /\ d.pending # <<>> => AdvancedOK(d, r)
<1>1. r.ok <=> h = d.remote.height /\ d.pending # <<>>
  BY ChainFacts DEF ReceiveRevocation
<1>2. ASSUME d.pending # <<>> PROVE AdvancedOK(d, r)
  <2> DEFINE fwd  == ToForward(m)
             remoteTail == tail(m.remoteChain).height + 1
             pkg  == [height |-> remoteTail,
                 adds |-> {e.htlc : e \in Adds(fwd)},
                 settleFails |-> {[htlc |-> e.htlc, type |-> e.type] : e \in fwd \ Adds(fwd)}]
             marked == [m.remoteLog EXCEPT !.entries =
                      {IF e \in fwd THEN [e EXCEPT !.forwarded = TRUE] ELSE e : e \in @}]
             peerUpdates == unsignedLocalUpdates(m, tip(m.remoteChain).ourMessageIndex,
                                            tail(m.localChain).ourMessageIndex)
             logs == compactLogs(m.localLog, marked, tail(m.localChain).height, remoteTail)
             c == d.pending[1].commit
  <2>1. fwd \subseteq AnyEntry
    BY LogEntries DEF ToForward, Unforwarded, FinSub
  <2>2. pkg \in AnyPackage
    <3>1. remoteTail \in Nat
      BY ChainFacts
    <3>2. \A e \in fwd : e.htlc \in Nat /\ e.type \in UpdateTypes
      BY <2>1, EntryFacts
    <3> HIDE DEF fwd, remoteTail
    <3> QED
      BY <3>1, <3>2 DEF AnyPackage, Adds
  <2>3. marked \in AnyLog
    <3> HIDE DEF fwd
    <3> QED
      BY ForwardMarkType, ChainFacts
  <2>4. logs.ours \in AnyLog /\ logs.theirs \in AnyLog
    <3> HIDE DEF marked
    <3> QED
      BY <2>3, CompactType, ChainFacts
  <2>5. peerUpdates \in FinSub(AnyUpdate)
    BY UpdatesOfType DEF unsignedLocalUpdates
  <2>6. /\ c \in AnyCommit /\ m.remoteChain = <<d.remote, c>> /\ m.localChain = <<d.local>>
        /\ d.remote \in AnyCommit
    BY <1>2, ChainFacts DEF ChainsOf, RemoteChain
  <2>7. /\ r.mem = [m EXCEPT !.localLog = logs.ours, !.remoteLog = logs.theirs,
                             !.remoteChain = Tail(@)]
        /\ r.disk = AdvanceCommitChainTail(d, pkg, peerUpdates)
    BY DEF ReceiveRevocation
  <2> HIDE DEF logs, pkg, peerUpdates, c
  <2>8. /\ r.mem \in AnyMemory /\ r.mem.localChain = <<d.local>> /\ r.mem.remoteChain = <<c>>
    <3>1. Tail(m.remoteChain) = <<c>> /\ <<c>> \in Seq(AnyCommit)
      BY <2>6
    <3> QED
      BY <2>4, <2>6, <2>7, <3>1 DEF AnyMemory
  <2>9. /\ r.disk \in AnyDisk /\ r.disk.local = d.local /\ r.disk.remote = c
        /\ r.disk.pending = <<>>
    <3>1. {u \in d.unsignedAcked : u.logIndex >= c.theirMessageIndex} \in FinSub(AnyUpdate)
      BY FinPart DEF AnyDisk
    <3>2. {k \in d.fwdPkgs : k.height # pkg.height} \union {pkg} \in SUBSET AnyPackage
      BY <2>2 DEF AnyDisk
    <3> DEFINE advanced == [d EXCEPT !.remote = c, !.pending = <<>>,
                  !.fwdPkgs = {k \in @ : k.height # pkg.height} \union {pkg}]
    <3>3. advanced \in AnyDisk /\ advanced.local = d.local /\ advanced.remote = c
          /\ advanced.pending = <<>> /\ advanced.unsignedAcked = d.unsignedAcked
      BY <2>6, <3>2 DEF AnyDisk
    <3>4. r.disk = IF ~d.ackedStored THEN advanced
                   ELSE [advanced EXCEPT
                           !.unsignedAcked = {u \in @ : u.logIndex >= c.theirMessageIndex},
                           !.remoteUnsignedLocal = peerUpdates]
      BY <2>7 DEF AdvanceCommitChainTail, c
    <3> HIDE DEF advanced
    <3> QED
      BY <2>5, <3>1, <3>3, <3>4 DEF AnyDisk
  <2>10. ChainsOf(r.mem, r.disk)
    BY <2>8, <2>9 DEF ChainsOf, RemoteChain
  <2> QED
    BY <2>8, <2>9, <2>10 DEF AdvancedOK, c
<1> QED
  BY <1>1, <1>2
-----------------------------------------------------------------------------
(* Queues. *)

Re == "ChannelReestablish"

LEMMA QueueConcat ==
    ASSUME NEW s \in Seq(AnyMessage), NEW t \in Seq(AnyMessage)
    PROVE  /\ s \o t \in Seq(AnyMessage)
           /\ \A y : Has(s \o t, y) <=> Has(s, y) \/ Has(t, y)
           /\ Silent(s \o t) <=> Silent(s) /\ Silent(t)
           /\ \A d, e : MessagesOK(s \o t, d, e) <=> MessagesOK(s, d, e) /\ MessagesOK(t, d, e)
           /\ (Once(s) /\ Once(t) /\ \A y \in Singular : ~(Has(s, y) /\ Has(t, y)))
                 => Once(s \o t)
<1> DEFINE st == s \o t
<1>1. /\ st \in Seq(AnyMessage) /\ Len(st) = Len(s) + Len(t) /\ Len(s) \in Nat /\ Len(t) \in Nat
      /\ \A i \in 1 .. Len(s) : st[i] = s[i]
      /\ \A i \in Len(s) + 1 .. Len(s) + Len(t) : st[i] = t[i - Len(s)]
  OBVIOUS
<1> HIDE DEF st
<1>2. \A i \in 1 .. Len(st) : \/ i \in 1 .. Len(s) /\ st[i] = s[i]
                              \/ i - Len(s) \in 1 .. Len(t) /\ st[i] = t[i - Len(s)]
  BY <1>1
<1>3. \A i \in 1 .. Len(s) : i \in 1 .. Len(st) /\ st[i] = s[i]
  BY <1>1
<1>4. \A i \in 1 .. Len(t) : i + Len(s) \in 1 .. Len(st) /\ st[i + Len(s)] = t[i]
  <2> SUFFICES ASSUME NEW i \in 1 .. Len(t)
               PROVE  i + Len(s) \in 1 .. Len(st) /\ st[i + Len(s)] = t[i]
    OBVIOUS
  <2>1. i + Len(s) \in Len(s) + 1 .. Len(s) + Len(t) /\ (i + Len(s)) - Len(s) = i
    BY <1>1
  <2>2. st[i + Len(s)] = t[(i + Len(s)) - Len(s)]
    BY <1>1, <2>1, Zenon
  <2>3. i + Len(s) \in 1 .. Len(st)
    BY <1>1
  <2> QED
    BY <2>1, <2>2, <2>3
<1>5. \A y : Has(st, y) <=> Has(s, y) \/ Has(t, y)
  <2> TAKE y
  <2>1. Has(st, y) => Has(s, y) \/ Has(t, y)
    BY <1>2, Zenon DEF Has
  <2>2. Has(s, y) => Has(st, y)
    BY <1>3, Zenon DEF Has
  <2>3. Has(t, y) => Has(st, y)
    BY <1>4, Zenon DEF Has
  <2> QED
    BY <2>1, <2>2, <2>3
<1>6. Silent(st) <=> Silent(s) /\ Silent(t)
  <2>1. Silent(st) => Silent(s)
    BY <1>3 DEF Silent
  <2>2. Silent(st) => Silent(t)
    <3> SUFFICES ASSUME Silent(st), NEW i \in 1 .. Len(t) PROVE t[i].type = Re
      BY DEF Silent, Re
    <3> QED
      BY <1>4 DEF Silent, Re
  <2>3. Silent(s) /\ Silent(t) => Silent(st)
    BY <1>2 DEF Silent
  <2> QED
    BY <2>1, <2>2, <2>3
<1>7. \A d, e : MessagesOK(st, d, e) <=> MessagesOK(s, d, e) /\ MessagesOK(t, d, e)
  <2> SUFFICES ASSUME NEW d, NEW e
               PROVE  MessagesOK(st, d, e) <=> MessagesOK(s, d, e) /\ MessagesOK(t, d, e)
    OBVIOUS
  <2>1. MessagesOK(st, d, e) => MessagesOK(s, d, e)
    BY <1>3 DEF MessagesOK
  <2>2. MessagesOK(st, d, e) => MessagesOK(t, d, e)
    <3> SUFFICES ASSUME MessagesOK(st, d, e), NEW i \in 1 .. Len(t) PROVE MessageOK(t[i], d, e)
      BY DEF MessagesOK
    <3> QED
      BY <1>4 DEF MessagesOK
  <2>3. MessagesOK(s, d, e) /\ MessagesOK(t, d, e) => MessagesOK(st, d, e)
    BY <1>2 DEF MessagesOK
  <2> QED
    BY <2>1, <2>2, <2>3
<1>8. ASSUME Once(s), Once(t), \A y \in Singular : ~(Has(s, y) /\ Has(t, y)) PROVE Once(st)
  <2> SUFFICES ASSUME NEW i \in 1 .. Len(st), NEW j \in 1 .. Len(st), i # j, st[i].type = st[j].type,
                      st[i].type \in Singular
               PROVE  FALSE
    BY DEF Once
  <2>1. i \in Nat /\ j \in Nat /\ Len(s) \in Nat /\ i - Len(s) # j - Len(s)
    BY <1>1
  <2>2. CASE i \in 1 .. Len(s) /\ j \in 1 .. Len(s)
    BY <1>1, <1>8, <2>2 DEF Once
  <2>3. CASE i \in 1 .. Len(s) /\ j - Len(s) \in 1 .. Len(t) /\ st[i] = s[i] /\ st[j] = t[j - Len(s)]
    BY <1>8, <2>3 DEF Has
  <2>4. CASE j \in 1 .. Len(s) /\ i - Len(s) \in 1 .. Len(t) /\ st[j] = s[j] /\ st[i] = t[i - Len(s)]
    BY <1>8, <2>4 DEF Has
  <2>5. CASE /\ i - Len(s) \in 1 .. Len(t) /\ j - Len(s) \in 1 .. Len(t)
             /\ st[j] = t[j - Len(s)] /\ st[i] = t[i - Len(s)]
    BY <1>8, <2>1, <2>5 DEF Once
  <2> QED
    BY <1>2, <2>2, <2>3, <2>4, <2>5
<1> QED
  BY <1>1, <1>5, <1>6, <1>7, <1>8 DEF st

LEMMA QueuePop ==
    ASSUME NEW s \in Seq(AnyMessage), s # <<>>
    PROVE  /\ Head(s) \in AnyMessage /\ Tail(s) \in Seq(AnyMessage)
           /\ \A d, e : MessagesOK(s, d, e) => MessageOK(Head(s), d, e) /\ MessagesOK(Tail(s), d, e)
           /\ Silent(s) => Silent(Tail(s)) /\ Head(s).type = Re
           /\ \A y : Has(Tail(s), y) => Has(s, y)
           /\ Has(s, Head(s).type)
           /\ Once(s) => /\ Once(Tail(s))
                         /\ Head(s).type \in Singular => ~Has(Tail(s), Head(s).type)
<1> DEFINE t == Tail(s)
<1>1. /\ t \in Seq(AnyMessage) /\ Len(s) \in Nat /\ Len(s) > 0 /\ Len(t) = Len(s) - 1 /\ Head(s) = s[1]
      /\ \A i \in 1 .. Len(t) : t[i] = s[i + 1]
      /\ Head(s) \in AnyMessage
  OBVIOUS
<1> HIDE DEF t
<1>2. 1 \in 1 .. Len(s) /\ \A i \in 1 .. Len(t) : i + 1 \in 1 .. Len(s) /\ i + 1 # 1
  BY <1>1
<1>3. \A i, j \in 1 .. Len(t) : i # j => i + 1 # j + 1
  OBVIOUS
<1>4. \A d, e : MessagesOK(s, d, e) => MessageOK(Head(s), d, e) /\ MessagesOK(t, d, e)
  BY <1>1, <1>2 DEF MessagesOK
<1>5. Silent(s) => Silent(t) /\ Head(s).type = Re
  BY <1>1, <1>2 DEF Silent, Re
<1>6. (\A y : Has(t, y) => Has(s, y)) /\ Has(s, Head(s).type)
  BY <1>1, <1>2 DEF Has
<1>7. Once(s) => Once(t)
  BY <1>1, <1>2, <1>3 DEF Once
<1>8. ASSUME Once(s), Head(s).type \in Singular, Has(t, Head(s).type) PROVE FALSE
  <2>1. PICK i \in 1 .. Len(t) : t[i].type = Head(s).type
    BY <1>8 DEF Has
  <2> QED
    BY <1>1, <1>2, <1>8, <2>1 DEF Once
<1> QED
  BY <1>1, <1>4, <1>5, <1>6, <1>7, <1>8 DEF t

\* The messages a party may send: they are what they say of the records of the receiver d and
\* the sender e, none is a reestablish and none of the others comes twice.
GoodMsgs(s, d, e) ==
    s \in Seq(AnyMessage) /\ MessagesOK(s, d, e) /\ Once(s) /\ ~Has(s, Re)

LEMMA OneMessage ==
    ASSUME NEW msg \in AnyMessage
    PROVE  /\ <<msg>> \in Seq(AnyMessage) /\ Once(<<msg>>)
           /\ \A y : Has(<<msg>>, y) <=> msg.type = y
           /\ \A d, e : MessagesOK(<<msg>>, d, e) <=> MessageOK(msg, d, e)
<1>1. <<msg>> \in Seq(AnyMessage) /\ Len(<<msg>>) = 1 /\ <<msg>>[1] = msg
  OBVIOUS
<1>2. 1 .. Len(<<msg>>) = {1}
  BY <1>1
<1> QED
  BY <1>1, <1>2 DEF Once, Has, MessagesOK

LEMMA NoMessage ==
    /\ <<>> \in Seq(AnyMessage) /\ Once(<<>>) /\ \A y : ~Has(<<>>, y)
    /\ \A d, e : MessagesOK(<<>>, d, e)
    /\ Silent(<<>>)
<1>1. <<>> \in Seq(AnyMessage) /\ 1 .. Len(<<>>) = {}
  OBVIOUS
<1> QED
  BY <1>1 DEF Once, Has, MessagesOK, Silent
-----------------------------------------------------------------------------
(* What is sent again after a break. *)

LEMMA TxType == \A c \in AnyCommit : /\ OwnTx(c) \in AnyTx /\ PeerTx(c) \in AnyTx
                                     /\ OwnTx(c).height = c.height /\ PeerTx(c).height = c.height
<1> SUFFICES ASSUME NEW c \in AnyCommit
             PROVE  /\ OwnTx(c) \in AnyTx /\ PeerTx(c) \in AnyTx
                    /\ OwnTx(c).height = c.height /\ PeerTx(c).height = c.height
  OBVIOUS
<1>1. c.outgoing \subseteq AnyHtlc /\ c.incoming \subseteq AnyHtlc
  BY DEF AnyCommit, FinSub
<1>2. \A S \in SUBSET AnyHtlc : Untyped(S) \subseteq [htlc : Nat, amt : Nat]
  BY DEF Untyped, AnyHtlc
<1>3. /\ Untyped(c.outgoing) \subseteq [htlc : Nat, amt : Nat]
      /\ Untyped(c.incoming) \subseteq [htlc : Nat, amt : Nat]
  BY <1>1, <1>2
<1> QED
  BY <1>3 DEF OwnTx, PeerTx, AnyTx, AnyCommit

LEMMA MessageTypes ==
    /\ \A c \in AnyCommit : CommitSig(c) \in AnyMessage /\ CommitSig(c).type = "CommitSig"
                            /\ CommitSig(c).tx = PeerTx(c)
    /\ \A h \in Int : RevokeAndAck(h) \in AnyMessage /\ RevokeAndAck(h).type = "RevokeAndAck"
                      /\ RevokeAndAck(h).height = h
    /\ \A u \in AnyUpdate : UpdateMsg(u) \in AnyMessage /\ UpdateMsg(u).type = u.type
                            /\ u.type \in UpdateTypes
    /\ \A u \in AnyEntry : UpdateMsg(u) \in AnyMessage /\ UpdateMsg(u).type = u.type
                            /\ u.type \in UpdateTypes
<1>1. \A c \in AnyCommit : CommitSig(c) \in AnyMessage /\ CommitSig(c).type = "CommitSig"
                            /\ CommitSig(c).tx = PeerTx(c)
  BY TxType DEF CommitSig, AnyMessage
<1>2. \A h \in Int : RevokeAndAck(h) \in AnyMessage /\ RevokeAndAck(h).type = "RevokeAndAck"
                     /\ RevokeAndAck(h).height = h
  BY DEF RevokeAndAck, AnyMessage
<1>3. \A u \in AnyUpdate : UpdateMsg(u) \in AnyMessage /\ UpdateMsg(u).type = u.type
                            /\ u.type \in UpdateTypes
  BY DEF UpdateMsg, Msg, AnyMessage, AnyUpdate
<1>4. \A u \in AnyEntry : UpdateMsg(u) \in AnyMessage /\ UpdateMsg(u).type = u.type
                            /\ u.type \in UpdateTypes
  BY DEF UpdateMsg, Msg, AnyMessage, AnyEntry
<1> QED
  BY <1>1, <1>2, <1>3, <1>4

\* An update says nothing of the records.
LEMMA PlainMessage ==
    ASSUME NEW msg, msg.type \in UpdateTypes
    PROVE  /\ msg.type \notin Singular /\ msg.type # Re
           /\ \A d, e : MessageOK(msg, d, e)
BY DEF UpdateTypes, Singular, Re, MessageOK

LEMMA PlainMessages ==
    ASSUME NEW s \in Seq(AnyMessage), \A i \in 1 .. Len(s) : s[i].type \in UpdateTypes
    PROVE  /\ \A d, e : GoodMsgs(s, d, e)
           /\ \A y \in Singular : ~Has(s, y)
<1>1. \A i \in 1 .. Len(s) : s[i].type \notin Singular /\ s[i].type # Re
  BY PlainMessage
<1>2. \A d, e : \A i \in 1 .. Len(s) : MessageOK(s[i], d, e)
  BY PlainMessage
<1>3. Once(s) /\ ~Has(s, Re)
  BY <1>1 DEF Once, Has
<1>4. \A y \in Singular : ~Has(s, y)
  BY <1>1 DEF Has
<1>5. \A d, e : MessagesOK(s, d, e)
  BY <1>2 DEF MessagesOK
<1> QED
  BY <1>3, <1>4, <1>5 DEF GoodMsgs

LEMMA RetransmissionIs ==
    ASSUME NEW d \in AnyDisk, d.pending # <<>>, ~RestoreFails(d),
           NEW e, e.local.height = d.remote.height
    PROVE  /\ GoodMsgs(Retransmission(d), e, d)
           /\ ~Has(Retransmission(d), "RevokeAndAck")
<1>1. PICK x \in AnyPending : d.pending = <<x>>
  BY DEF AnyDisk
<1>2. d.pending[1] = x /\ x.commit \in AnyCommit /\ x.updates \in FinSub(AnyUpdate)
  BY <1>1 DEF AnyPending
<1>3. DiffOf(d) = x.updates
  BY <1>2 DEF DiffOf
<1> DEFINE first == d.remote.ourMessageIndex
           n == Cardinality(x.updates)
           Nth(i) == CHOOSE u \in x.updates : u.logIndex = first + i - 1
           s == [i \in 1 .. n |-> UpdateMsg(Nth(i))]
<1>4. {u.logIndex : u \in x.updates} = first .. (first + n - 1)
  BY <1>3 DEF RestoreFails
<1>5. first \in Nat /\ n \in Nat /\ x.updates \subseteq AnyUpdate
  BY <1>2, FS_CardinalityType, CommitIndices DEF AnyDisk, FinSub
<1>6. ASSUME NEW i \in 1 .. n PROVE Nth(i) \in AnyUpdate
  <2>1. first + i - 1 \in first .. (first + n - 1)
    BY <1>5
  <2>2. \E u \in x.updates : u.logIndex = first + i - 1
    BY <1>4, <2>1
  <2> QED
    BY <1>5, <2>2
<1>7. s \in Seq(AnyMessage) /\ Len(s) = n /\ \A i \in 1 .. n : s[i].type \in UpdateTypes
  <2> HIDE DEF Nth, n
  <2>1. \A i \in 1 .. n : UpdateMsg(Nth(i)) \in AnyMessage /\ UpdateMsg(Nth(i)).type \in UpdateTypes
    BY <1>6, MessageTypes
  <2> QED
    BY <1>5, <2>1
<1>8. Retransmission(d) = s \o <<CommitSig(x.commit)>>
  BY <1>2 DEF Retransmission
<1> HIDE DEF s, n
<1>9. /\ \A a, b : GoodMsgs(s, a, b)
      /\ \A y \in Singular : ~Has(s, y)
  BY <1>7, PlainMessages
<1> DEFINE t == <<CommitSig(x.commit)>>
<1>10. /\ t \in Seq(AnyMessage) /\ Once(t) /\ \A y : Has(t, y) <=> y = "CommitSig"
       /\ MessagesOK(t, e, d)
  <2>1. CommitSig(x.commit) \in AnyMessage /\ CommitSig(x.commit).type = "CommitSig"
        /\ CommitSig(x.commit).tx = PeerTx(x.commit)
    BY <1>2, MessageTypes
  <2>2. MessageOK(CommitSig(x.commit), e, d)
    BY <1>2, <2>1 DEF MessageOK
  <2> QED
    BY <2>1, <2>2, OneMessage
<1> HIDE DEF t
<1>11. /\ s \o t \in Seq(AnyMessage) /\ Once(s \o t) /\ MessagesOK(s \o t, e, d)
       /\ \A y : Has(s \o t, y) <=> Has(s, y) \/ Has(t, y)
  BY <1>7, <1>9, <1>10, QueueConcat DEF GoodMsgs
<1>12. ~Has(s \o t, Re) /\ ~Has(s \o t, "RevokeAndAck")
  BY <1>9, <1>10, <1>11 DEF Re, Singular
<1> QED
  BY <1>8, <1>11, <1>12 DEF GoodMsgs, t

\* The result r of a handler that may have signed: the record d is kept but for a commitment
\* that is now pending, and what is sent to the peer, whose record is e, is good.
SyncedOK(d, e, r) ==
    /\ r.err \in {"none", "ErrRecoveryError"}
    /\ r.mem \in AnyMemory /\ r.disk \in AnyDisk /\ ChainsOf(r.mem, r.disk) /\ PendingNext(r.disk)
    /\ r.disk.local = d.local /\ r.disk.remote = d.remote
    /\ d.pending # <<>> => r.disk.pending = d.pending
    /\ GoodMsgs(r.msgs, e, r.disk)

NewlySigned(d, e, s) ==
    /\ s.disk \in AnyDisk /\ s.disk.local = d.local /\ s.disk.remote = d.remote
    /\ s.disk.pending # <<>> /\ PendingNext(s.disk)
    /\ GoodMsgs(s.msgs, e, s.disk) /\ \A y : Has(s.msgs, y) <=> y = "CommitSig"

LEMMA SignedDisk ==
    \A d \in AnyDisk : \A e, s : SignedOK(d, s) /\ e.local.height = d.remote.height
                                    => NewlySigned(d, e, s)
<1> SUFFICES ASSUME NEW d \in AnyDisk, NEW e, NEW s, SignedOK(d, s),
                    e.local.height = d.remote.height
             PROVE  NewlySigned(d, e, s)
  OBVIOUS
<1>1. PICK c \in AnyCommit, U \in FinSub(AnyUpdate) : IsSignature(d, s, c, U)
  BY DEF SignedOK
<1> DEFINE x == [commit |-> c, updates |-> U]
<1>2. x \in AnyPending /\ <<x>> # <<>> /\ <<x>>[1] = x
  BY DEF AnyPending
<1>3. /\ s.disk = [d EXCEPT !.lastWasRevoke = FALSE, !.pending = <<x>>]
      /\ s.msgs = <<CommitSig(c)>> /\ c.height = d.remote.height + 1
  BY <1>1 DEF IsSignature
<1>4. /\ s.disk \in AnyDisk /\ s.disk.local = d.local /\ s.disk.remote = d.remote
      /\ s.disk.pending = <<x>>
  <2> HIDE DEF x
  <2> QED
    BY <1>2, <1>3 DEF AnyDisk
<1>5. s.disk.pending[1].commit = c
  BY <1>4
<1>6. CommitSig(c) \in AnyMessage /\ MessageOK(CommitSig(c), e, s.disk)
      /\ CommitSig(c).type = "CommitSig"
  BY <1>2, <1>4, <1>5, MessageTypes DEF MessageOK
<1>7. GoodMsgs(s.msgs, e, s.disk) /\ \A y : Has(s.msgs, y) <=> y = "CommitSig"
  BY <1>3, <1>6, OneMessage DEF GoodMsgs, Re
<1> QED
  BY <1>2, <1>3, <1>4, <1>5, <1>7 DEF PendingNext, NewlySigned

LEMMA AgreedHeights ==
    ASSUME NEW d \in AnyDisk, NEW e \in AnyDisk, Agreed(d, e), PendingNext(e)
    PROVE  /\ d.local.height \in Nat /\ e.remote.height \in Nat
           /\ \/ d.local.height = e.remote.height
              \/ e.pending # <<>> /\ d.local.height = e.remote.height + 1
                 /\ OwnTx(d.local) = PeerTx(e.pending[1].commit)
<1>1. d.local \in AnyCommit /\ e.remote \in AnyCommit
  BY DEF AnyDisk
<1>2. d.local.height \in Nat /\ e.remote.height \in Nat
  BY <1>1, CommitIndices
<1>3. CASE OwnTx(d.local) = PeerTx(e.remote)
  BY <1>1, <1>2, <1>3, TxType
<1>4. CASE e.pending # <<>> /\ OwnTx(d.local) = PeerTx(e.pending[1].commit)
  <2>1. PICK x \in AnyPending : e.pending = <<x>>
    BY <1>4 DEF AnyDisk
  <2>2. e.pending[1].commit \in AnyCommit
    BY <2>1 DEF AnyPending
  <2>3. d.local.height = e.pending[1].commit.height
    BY <1>1, <1>4, <2>2, TxType
  <2> QED
    BY <1>2, <1>4, <2>3 DEF PendingNext
<1> QED
  BY <1>3, <1>4 DEF Agreed

\* The result of a signature is a record.
SignResult(s) == s = [err |-> s.err, mem |-> s.mem, disk |-> s.disk, msgs |-> s.msgs]

LEMMA SignIsRecord == \A m, d : SignResult(SignNextCommitment(m, d))
<1> SUFFICES ASSUME NEW m, NEW d PROVE SignResult(SignNextCommitment(m, d))
  OBVIOUS
<1>1. \A a, b, c : SignResult(NotSigned(a, b, c))
  BY DEF SignResult, NotSigned
<1>2. \A a, b : SignResult(Signed(a, b))
  BY DEF SignResult, Signed
<1> DEFINE acked == tail(m.localChain)
           view == fetchCommitmentView(m, "remote", m.localLog.logIndex,
                        m.localLog.htlcCounter, acked.theirMessageIndex, acked.theirHtlcIndex)
<1>3. \/ SignNextCommitment(m, d) = NotSigned(m, d, "ErrNoWindow")
      \/ SignNextCommitment(m, d) = NotSigned(m, d, "ErrInternalError")
      \/ SignNextCommitment(m, d) = Signed(d, view)
  BY DEF SignNextCommitment
<1> QED
  BY <1>1, <1>2, <1>3

LEMMA Synchronised ==
    ASSUME NEW m \in AnyMemory, NEW d \in AnyDisk, NEW e \in AnyDisk, ChainsOf(m, d),
           PendingNext(d), PendingNext(e), Agreed(d, e), Agreed(e, d), ~RestoreFails(d),
           NEW msg, msg.nextLocalCommitHeight = e.local.height + 1,
           msg.remoteCommitTailHeight = e.remote.height
    PROVE  SyncedOK(d, e, ProcessChanSyncMsg(m, d, msg))
<1> DEFINE localTail == tail(m.localChain).height
           theirTail == msg.remoteCommitTailHeight
           theirNext == msg.nextLocalCommitHeight
           Result(sign) ==
            CASE sign.err # "none" -> [sign EXCEPT !.err = "ErrRecoveryError"]
              [] theirNext > tip(m.remoteChain).height + 1 ->
                    [sign EXCEPT !.err = "ErrCannotSyncCommitChains", !.msgs = <<>>]
              [] theirNext <= tail(m.remoteChain).height ->
                    [sign EXCEPT !.err = "ErrCommitSyncRemoteDataLoss", !.msgs = <<>>]
              [] OTHER -> [sign EXCEPT !.msgs = Resync(m, d, msg, sign)]
           NoWindow(sign) == IF sign.err = "ErrNoWindow" THEN NotSigned(m, d, "none")
                             ELSE sign
           sign == IF OweRevocation(m, msg) /\ oweCommitment(m, TRUE)
                     THEN NoWindow(SignNextCommitment(m, d))
                     ELSE NotSigned(m, d, "none")
           r == ProcessChanSyncMsg(m, d, msg)
<1>1. /\ localTail = d.local.height /\ tail(m.remoteChain) = d.remote
      /\ d.local.height \in Nat /\ d.remote.height \in Nat
      /\ e.local.height \in Nat /\ e.remote.height \in Nat
      /\ localTail \in {theirTail, theirTail + 1}
  BY ChainFacts, AgreedHeights
<1>2. r = Result(sign)
  <2>1. ~(theirTail > localTail) /\ ~(theirTail + 1 < localTail)
    BY <1>1
  <2> QED
    BY <2>1 DEF ProcessChanSyncMsg
<1>3. /\ SignResult(sign)
      /\ \/ sign.err = "none" /\ sign.mem = m /\ sign.disk = d /\ sign.msgs = <<>>
         \/ /\ sign.err = "ErrInternalError" /\ sign.mem = m /\ sign.disk = d /\ sign.msgs = <<>>
            /\ d.pending = <<>>
         \/ SignedOK(d, sign)
  <2> DEFINE s == SignNextCommitment(m, d)
  <2>1. SignResult(s) /\ (NotSignedOK(m, d, s) \/ SignedOK(d, s))
    BY SignIsRecord, SignNext
  <2> HIDE DEF s
  <2>2. /\ SignResult(NotSigned(m, d, "none")) /\ NotSigned(m, d, "none").err = "none"
        /\ NotSigned(m, d, "none").mem = m /\ NotSigned(m, d, "none").disk = d
        /\ NotSigned(m, d, "none").msgs = <<>>
    BY DEF NotSigned, SignResult
  <2>3. sign = NotSigned(m, d, "none") \/ (sign = s /\ s.err # "ErrNoWindow")
    BY DEF s
  <2> HIDE DEF sign
  <2>4. CASE sign = NotSigned(m, d, "none")
    BY <2>2, <2>4
  <2>5. CASE sign = s /\ s.err # "ErrNoWindow"
    BY <2>1, <2>5 DEF NotSignedOK
  <2> QED
    BY <2>3, <2>4, <2>5
<1> DEFINE revocation ==
            IF OweRevocation(m, msg)
            THEN <<RevokeAndAck(tail(m.localChain).height - 1)>> \o sign.msgs
            ELSE <<>>
           msgs == IF theirNext = tip(m.remoteChain).height
                   THEN InOrder(d, revocation, Retransmission(d)) ELSE revocation
<1>4. \/ theirNext = d.remote.height + 1 /\ e.local.height = d.remote.height
      \/ theirNext = d.remote.height + 2 /\ d.pending # <<>>
  BY <1>1, AgreedHeights
<1>5. /\ d.pending = <<>> => tip(m.remoteChain).height = d.remote.height
      /\ d.pending # <<>> => tip(m.remoteChain).height = d.remote.height + 1
  BY ChainFacts DEF PendingNext
<1>6. /\ ~(theirNext > tip(m.remoteChain).height + 1)
      /\ ~(theirNext <= tail(m.remoteChain).height)
      /\ theirNext = tip(m.remoteChain).height
            <=> d.pending # <<>> /\ e.local.height = d.remote.height
  BY <1>1, <1>4, <1>5
<1> HIDE DEF sign
<1>7. r = IF sign.err # "none" THEN [sign EXCEPT !.err = "ErrRecoveryError"]
          ELSE [sign EXCEPT !.msgs = msgs]
  BY <1>2, <1>6 DEF Resync
<1> HIDE DEF msgs, r
<1>8. /\ r.mem = sign.mem /\ r.disk = sign.disk
      /\ sign.err = "none" => r.err = "none" /\ r.msgs = msgs
      /\ sign.err # "none" => r.err = "ErrRecoveryError" /\ r.msgs = sign.msgs
  BY <1>3, <1>7 DEF SignResult
<1>9. CASE sign.err # "none"
  <2>1. r.mem = m /\ r.disk = d /\ r.msgs = <<>> /\ r.err = "ErrRecoveryError"
    BY <1>3, <1>8, <1>9 DEF SignedOK
  <2> QED
    BY <2>1, NoMessage DEF SyncedOK, GoodMsgs, r
<1>10. CASE sign.err = "none"
  <2>1. /\ sign.mem \in AnyMemory /\ sign.disk \in AnyDisk /\ ChainsOf(sign.mem, sign.disk)
        /\ PendingNext(sign.disk) /\ sign.disk.local = d.local /\ sign.disk.remote = d.remote
        /\ d.pending # <<>> => sign.disk = d /\ sign.msgs = <<>>
        /\ GoodMsgs(sign.msgs, e, sign.disk) /\ \A y : Has(sign.msgs, y) => y = "CommitSig"
    <3>1. CASE sign.mem = m /\ sign.disk = d /\ sign.msgs = <<>>
      BY <3>1, NoMessage DEF GoodMsgs
    <3>2. CASE SignedOK(d, sign)
      <4>1. d.pending = <<>> /\ sign.mem \in AnyMemory /\ ChainsOf(sign.mem, sign.disk)
        BY <3>2 DEF SignedOK
      <4>2. e.local.height = d.remote.height
        BY <1>4, <4>1, <1>1
      <4>3. NewlySigned(d, e, sign)
        BY <3>2, <4>2, SignedDisk
      <4> QED
        BY <4>1, <4>3 DEF NewlySigned
    <3> QED
      BY <1>3, <1>10, <3>1, <3>2
  <2>2. GoodMsgs(revocation, e, sign.disk) /\ (d.pending # <<>> => ~Has(revocation, "CommitSig"))
    <3>1. CASE OweRevocation(m, msg)
      <4> DEFINE rev == RevokeAndAck(tail(m.localChain).height - 1)
      <4>1. d.local.height = e.remote.height + 1 /\ tail(m.localChain).height - 1 = e.remote.height
        BY <1>1, <3>1 DEF OweRevocation
      <4>2. rev \in AnyMessage /\ rev.type = "RevokeAndAck" /\ rev.height = e.remote.height
        BY <1>1, <4>1, MessageTypes
      <4> HIDE DEF rev
      <4>3. MessageOK(rev, e, sign.disk)
        BY <2>1, <4>1, <4>2 DEF MessageOK
      <4>4. /\ <<rev>> \in Seq(AnyMessage) /\ Once(<<rev>>) /\ MessagesOK(<<rev>>, e, sign.disk)
            /\ \A y : Has(<<rev>>, y) <=> y = "RevokeAndAck"
        BY <4>2, <4>3, OneMessage
      <4>5. revocation = <<rev>> \o sign.msgs
        BY <3>1 DEF rev
      <4> DEFINE one == <<rev>>
      <4> HIDE DEF one, revocation
      <4>6. /\ one \o sign.msgs \in Seq(AnyMessage)
            /\ \A y : Has(one \o sign.msgs, y) <=> Has(one, y) \/ Has(sign.msgs, y)
            /\ MessagesOK(one \o sign.msgs, e, sign.disk)
            /\ Once(one \o sign.msgs)
        BY <2>1, <4>4, QueueConcat DEF GoodMsgs, one
      <4>7. ~Has(one \o sign.msgs, Re)
        BY <2>1, <4>4, <4>6 DEF Re, one
      <4>8. d.pending # <<>> => ~Has(one \o sign.msgs, "CommitSig")
        BY <2>1, <4>4, <4>6, NoMessage DEF one
      <4> QED
        BY <4>5, <4>6, <4>7, <4>8 DEF GoodMsgs, one
    <3>2. CASE ~OweRevocation(m, msg)
      BY <3>2, NoMessage DEF GoodMsgs
    <3> QED
      BY <3>1, <3>2
  <2> HIDE DEF revocation
  <2>3. GoodMsgs(msgs, e, sign.disk)
    <3>1. CASE theirNext = tip(m.remoteChain).height
      <4> DEFINE again == Retransmission(d)
      <4>1. d.pending # <<>> /\ e.local.height = d.remote.height /\ sign.disk = d
        BY <1>6, <2>1, <3>1
      <4>2. GoodMsgs(again, e, d) /\ ~Has(again, "RevokeAndAck")
        BY <4>1, RetransmissionIs
      <4>3. GoodMsgs(revocation, e, d) /\ ~Has(revocation, "CommitSig")
        BY <2>2, <4>1
      <4>4. msgs \in {again \o revocation, revocation \o again}
        BY <3>1 DEF msgs, InOrder
      <4> HIDE DEF again
      <4>5. \A y \in Singular : ~(Has(again, y) /\ Has(revocation, y))
        BY <4>2, <4>3 DEF Singular, GoodMsgs, Re
      <4>6. GoodMsgs(again \o revocation, e, d)
        BY <4>2, <4>3, <4>5, QueueConcat DEF GoodMsgs
      <4>7. GoodMsgs(revocation \o again, e, d)
        BY <4>2, <4>3, <4>5, QueueConcat DEF GoodMsgs
      <4> QED
        BY <4>1, <4>4, <4>6, <4>7
    <3>2. CASE theirNext # tip(m.remoteChain).height
      BY <2>2, <3>2 DEF msgs
    <3> QED
      BY <3>1, <3>2
  <2> QED
    BY <1>8, <1>10, <2>1, <2>3 DEF SyncedOK, r
<1> QED
  BY <1>9, <1>10
-----------------------------------------------------------------------------
(* What a restart rebuilds. *)

Heights2 == [Chains -> Nat]

LEMMA HeightTypes ==
    /\ NoHeight \in Heights2
    /\ \A a, b \in Nat : [local |-> a, remote |-> b] \in Heights2
    /\ \A c \in Chains, h \in Nat : At(c, h) \in Heights2
<1>1. NoHeight \in Heights2
  BY DEF NoHeight, Heights2
<1>2. \A a, b \in Nat : [local |-> a, remote |-> b] \in Heights2
  <2> SUFFICES ASSUME NEW a \in Nat, NEW b \in Nat PROVE [local |-> a, remote |-> b] \in Heights2
    OBVIOUS
  <2> DEFINE x == [local |-> a, remote |-> b]
  <2>1. x = [c \in DOMAIN x |-> x[c]] /\ DOMAIN x = {"local", "remote"}
    OBVIOUS
  <2>2. x["local"] = a /\ x["remote"] = b
    OBVIOUS
  <2> HIDE DEF x
  <2>3. x \in Heights2
    BY <2>1, <2>2 DEF Heights2, Chains
  <2> QED
    BY <2>3 DEF x
<1>3. \A c \in Chains, h \in Nat : At(c, h) \in Heights2
  BY <1>1 DEF At, Heights2
<1> QED
  BY <1>1, <1>2, <1>3

LEMMA EntryType ==
    /\ \A u \in AnyUpdate, a, b \in Heights2 : Entry(u, a, b) \in AnyEntry
    /\ \A t \in UpdateTypes, i, h, v \in Nat, a, b \in Heights2 :
          Entry(LogUpdate(t, i, h, v), a, b) \in AnyEntry
    /\ \A x \in AnyHtlc, a, b \in Nat : RestoreAdd(x, a, b) \in AnyEntry
    /\ \A u \in AnyUpdate, a \in Heights2 : RestoreUpdate(u, a) \in AnyEntry
<1>1. \A u \in AnyUpdate, a, b \in Heights2 : Entry(u, a, b) \in AnyEntry
  BY DEF Entry, AnyEntry, AnyUpdate, Heights2
<1>2. \A t \in UpdateTypes, i, h, v \in Nat : LogUpdate(t, i, h, v) \in AnyUpdate
  BY DEF LogUpdate, AnyUpdate
<1>3. \A x \in AnyHtlc : x.logIndex \in Nat /\ x.htlc \in Nat /\ x.amt \in Nat
  BY DEF AnyHtlc
<1>4. "Add" \in UpdateTypes
  BY DEF UpdateTypes
<1>5. \A x \in AnyHtlc, a, b \in Nat : RestoreAdd(x, a, b) \in AnyEntry
  <2> SUFFICES ASSUME NEW x \in AnyHtlc, NEW a \in Nat, NEW b \in Nat
               PROVE  RestoreAdd(x, a, b) \in AnyEntry
    OBVIOUS
  <2>1. LogUpdate("Add", x.logIndex, x.htlc, x.amt) \in AnyUpdate
    BY <1>2, <1>3, <1>4
  <2> QED
    BY <1>1, <2>1, HeightTypes DEF RestoreAdd
<1>6. \A u \in AnyUpdate, a \in Heights2 : RestoreUpdate(u, a) \in AnyEntry
  BY <1>1, HeightTypes DEF RestoreUpdate
<1> QED
  BY <1>1, <1>2, <1>5, <1>6

LEMMA DiskFacts ==
    ASSUME NEW d \in AnyDisk
    PROVE  /\ d.local \in AnyCommit /\ d.remote \in AnyCommit
           /\ d.unsignedAcked \in FinSub(AnyUpdate) /\ d.remoteUnsignedLocal \in FinSub(AnyUpdate)
           /\ DiffOf(d) \in FinSub(AnyUpdate)
           /\ d.pending # <<>> => /\ d.pending[1].commit \in AnyCommit
                                  /\ d.pending[1].commit.height \in Nat
                                  /\ DiffOf(d) = d.pending[1].updates
           /\ d.pending = <<>> => DiffOf(d) = {}
<1>1. /\ d.local \in AnyCommit /\ d.remote \in AnyCommit
      /\ d.unsignedAcked \in FinSub(AnyUpdate) /\ d.remoteUnsignedLocal \in FinSub(AnyUpdate)
  BY DEF AnyDisk
<1>2. CASE d.pending = <<>>
  BY <1>1, <1>2, FinOne DEF DiffOf
<1>3. CASE d.pending # <<>>
  <2>1. PICK x \in AnyPending : d.pending = <<x>>
    BY <1>3 DEF AnyDisk
  <2>2. d.pending[1] = x /\ x.commit \in AnyCommit /\ x.updates \in FinSub(AnyUpdate)
    BY <2>1 DEF AnyPending
  <2> QED
    BY <1>1, <1>3, <2>2, CommitIndices DEF DiffOf
<1> QED
  BY <1>2, <1>3

LEMMA RemovedType == \A S \in FinSub(AnyUpdate) : Removed(S) \in SUBSET Nat
BY DEF Removed, FinSub, AnyUpdate

LEMMA FinMember == \A S : \A A \in FinSub(S) : A \subseteq S /\ IsFiniteSet(A)
BY DEF FinSub

LEMMA RestoreLocalType == ASSUME NEW d \in AnyDisk PROVE restoreLocalLog(d) \in AnyLog
<1> DEFINE diff == DiffOf(d)
           fa == [h \in d.remote.outgoing |->
                    RestoreAdd(h, outgoingLocalAddHeight(d, h.htlc), d.remote.height)]
           fb == [u \in diff |-> IF u.type = "Add"
                    THEN Entry(u, At("remote", d.pending[1].commit.height), NoHeight)
                    ELSE RestoreUpdate(u, At("remote", d.pending[1].commit.height))]
           fc == [u \in d.remoteUnsignedLocal |-> RestoreUpdate(u, At("remote", d.remote.height))]
<1>1. /\ diff \in FinSub(AnyUpdate) /\ diff \subseteq AnyUpdate /\ IsFiniteSet(diff)
      /\ d.remote.outgoing \in FinSub(AnyHtlc) /\ d.remote.outgoing \subseteq AnyHtlc
      /\ d.remoteUnsignedLocal \in FinSub(AnyUpdate) /\ d.remoteUnsignedLocal \subseteq AnyUpdate
      /\ d.remote.height \in Nat /\ d.local.height \in Nat /\ "remote" \in Chains
      /\ d.remote.ourMessageIndex \in Nat /\ d.remote.ourHtlcIndex \in Nat
  BY DiskFacts, FinMember DEF AnyCommit, Chains
<1>2. {fa[h] : h \in d.remote.outgoing} \in FinSub(AnyEntry)
  <2>1. \A h \in d.remote.outgoing : outgoingLocalAddHeight(d, h.htlc) \in Nat
    BY <1>1 DEF outgoingLocalAddHeight
  <2>2. fa \in [d.remote.outgoing -> AnyEntry]
    BY <1>1, <2>1, EntryType
  <2> HIDE DEF fa
  <2> QED
    BY <1>1, <2>2, FinImage
<1>3. {fb[u] : u \in diff} \in FinSub(AnyEntry)
  <2>1. fb \in [diff -> AnyEntry]
    <3>1. ASSUME NEW u \in diff PROVE fb[u] \in AnyEntry
      <4>1. d.pending # <<>>
        BY DEF DiffOf
      <4>2. At("remote", d.pending[1].commit.height) \in Heights2 /\ NoHeight \in Heights2
            /\ u \in AnyUpdate
        BY <1>1, <4>1, DiskFacts, HeightTypes
      <4> HIDE DEF diff
      <4> QED
        BY <4>2, EntryType
    <3> HIDE DEF diff
    <3> QED
      BY <3>1
  <2> HIDE DEF fb, diff
  <2> QED
    BY <1>1, <2>1, FinImage
<1>4. {fc[u] : u \in d.remoteUnsignedLocal} \in FinSub(AnyEntry)
  <2>1. fc \in [d.remoteUnsignedLocal -> AnyEntry]
    BY <1>1, EntryType, HeightTypes
  <2> HIDE DEF fc
  <2> QED
    BY <1>1, <2>1, FinImage
<1>5. Cardinality(diff) \in Nat /\ Cardinality(Adds(diff)) \in Nat
  <2>1. Adds(diff) \subseteq diff
    BY DEF Adds
  <2>2. IsFiniteSet(Adds(diff))
    BY <1>1, <2>1, FS_Subset
  <2> QED
    BY <1>1, <2>2, FS_CardinalityType
<1> DEFINE A == {fa[h] : h \in d.remote.outgoing}
           B == {fb[u] : u \in diff}
           C == {fc[u] : u \in d.remoteUnsignedLocal}
<1>6. restoreLocalLog(d) =
         [entries |-> A \union B \union C,
          logIndex |-> d.remote.ourMessageIndex + Cardinality(diff),
          htlcCounter |-> d.remote.ourHtlcIndex + Cardinality(Adds(diff)),
          modified |-> Removed(d.unsignedAcked)]
  BY DEF restoreLocalLog, newUpdateLog
<1> HIDE DEF A, B, C, diff
<1>7. A \union B \union C \in FinSub(AnyEntry)
  BY <1>2, <1>3, <1>4, FinUnion DEF A, B, C
<1>8. Removed(d.unsignedAcked) \in SUBSET Nat
  BY DiskFacts, RemovedType
<1> QED
  BY <1>1, <1>5, <1>6, <1>7, <1>8 DEF AnyLog

LEMMA RestoreRemoteType == ASSUME NEW d \in AnyDisk PROVE restoreRemoteLog(d) \in AnyLog
<1> DEFINE SignedAt(u) ==
                IF d.pending # <<>> /\ u.logIndex < d.pending[1].commit.theirMessageIndex
                THEN d.pending[1].commit.height ELSE 0
           old == {x \in d.unsignedAcked : x.type # "Add"}
           fa == [h \in d.local.incoming |->
                    RestoreAdd(h, d.local.height, incomingRemoteAddHeight(d, h.htlc))]
           fb == [u \in old |-> RestoreUpdate(u, [local |-> d.local.height, remote |-> SignedAt(u)])]
<1>1. /\ d.local.incoming \in FinSub(AnyHtlc) /\ d.local.incoming \subseteq AnyHtlc
      /\ d.unsignedAcked \in FinSub(AnyUpdate)
      /\ d.remote.height \in Nat /\ d.local.height \in Nat
      /\ d.local.theirMessageIndex \in Nat /\ d.local.theirHtlcIndex \in Nat
      /\ d.pending # <<>> => d.pending[1].commit.height \in Nat
  BY DiskFacts, FinMember DEF AnyCommit
<1>2. {fa[h] : h \in d.local.incoming} \in FinSub(AnyEntry)
  <2>1. \A h \in d.local.incoming : incomingRemoteAddHeight(d, h.htlc) \in Nat
    BY <1>1 DEF incomingRemoteAddHeight
  <2>2. fa \in [d.local.incoming -> AnyEntry]
    BY <1>1, <2>1, EntryType
  <2> HIDE DEF fa
  <2> QED
    BY <1>1, <2>2, FinImage
<1>3. old \in FinSub(AnyUpdate) /\ old \subseteq AnyUpdate
  BY <1>1, FinPart, FinMember
<1>4. {fb[u] : u \in old} \in FinSub(AnyEntry)
  <2>1. \A u \in old : [local |-> d.local.height, remote |-> SignedAt(u)] \in Heights2
    BY <1>1, HeightTypes
  <2> HIDE DEF SignedAt, old
  <2>2. fb \in [old -> AnyEntry]
    BY <1>3, <2>1, EntryType
  <2> HIDE DEF fb
  <2> QED
    BY <1>3, <2>2, FinImage
<1> DEFINE A == {fa[h] : h \in d.local.incoming}
           B == {fb[u] : u \in old}
           M == Removed(DiffOf(d)) \union Removed(d.remoteUnsignedLocal)
<1>5. restoreRemoteLog(d) =
         [entries |-> A \union B, logIndex |-> d.local.theirMessageIndex,
          htlcCounter |-> d.local.theirHtlcIndex, modified |-> M]
  <2> DEFINE A2 == {RestoreAdd(h, d.local.height, incomingRemoteAddHeight(d, h.htlc))
                         : h \in d.local.incoming}
             B2 == {RestoreUpdate(u, [local |-> d.local.height, remote |-> SignedAt(u)]) : u \in old}
  <2>1. A = A2 /\ B = B2
    BY Zenon
  <2>2. restoreRemoteLog(d) =
          [newUpdateLog(d.local.theirMessageIndex, d.local.theirHtlcIndex)
              EXCEPT !.entries = A2 \union B2, !.modified = M]
    BY Zenon DEF restoreRemoteLog
  <2> HIDE DEF A, B, A2, B2, M
  <2> QED
    BY <2>1, <2>2 DEF newUpdateLog
<1>6. M \in SUBSET Nat
  BY DiskFacts, RemovedType
<1> HIDE DEF A, B, M
<1>7. A \union B \in FinSub(AnyEntry)
  BY <1>2, <1>4, FinUnion DEF A, B
<1> QED
  BY <1>1, <1>5, <1>6, <1>7 DEF AnyLog

LEMMA RestoreType ==
    ASSUME NEW d \in AnyDisk
    PROVE  restoreCommitState(d) \in AnyMemory /\ ChainsOf(restoreCommitState(d), d)
<1>1. restoreLocalLog(d) \in AnyLog /\ restoreRemoteLog(d) \in AnyLog
  BY RestoreLocalType, RestoreRemoteType
<1>2. <<d.local>> \in Seq(AnyCommit) /\ RemoteChain(d) \in Seq(AnyCommit)
  BY DiskFacts DEF RemoteChain
<1> DEFINE m == restoreCommitState(d)
<1>3. m = [localLog |-> restoreLocalLog(d), remoteLog |-> restoreRemoteLog(d),
           localChain |-> <<d.local>>, remoteChain |-> RemoteChain(d)]
  BY DEF restoreCommitState, RemoteChain
<1> HIDE DEF m
<1>4. m \in AnyMemory /\ ChainsOf(m, d)
  BY <1>1, <1>2, <1>3 DEF AnyMemory, ChainsOf
<1> QED
  BY <1>4 DEF m
-----------------------------------------------------------------------------
(* Steps of one party.  d, m, l and n are its record, its memory, its link and the messages on *)
(* their way to it; e, le and ne those of its peer.                                            *)

HalfInv(d, m, l, n, e, le, ne) ==
    /\ ChainsOf(m, d) /\ PendingNext(d) /\ (l = "syncing" => ~RestoreFails(d))
    /\ Agreed(d, e)
    /\ MessagesOK(n, d, e) /\ Once(n)
    /\ Has(n, Re) => l # "up" /\ Silent(ne)
    /\ le = "syncing" => Silent(n)

HalfOf(p) == HalfInv(disk[p], mem[p], link[p], net[p], disk[Other(p)], link[Other(p)], net[Other(p)])

LEMMA Halves == ChannelInv <=> ChannelTypes /\ \A p \in Party : HalfOf(p)
BY DEF ChannelInv, RecordInv, AgreeInv, QueueInv, HalfOf, HalfInv, Re

LEMMA TypeFacts ==
    ASSUME ChannelInv, NEW p \in Party
    PROVE  /\ disk[p] \in AnyDisk /\ mem[p] \in AnyMemory /\ net[p] \in Seq(AnyMessage)
           /\ link[p] \in {"syncing", "up", "failed"}
           /\ disk[Other(p)] \in AnyDisk /\ mem[Other(p)] \in AnyMemory
           /\ net[Other(p)] \in Seq(AnyMessage)
           /\ HalfOf(p) /\ HalfOf(Other(p))
BY PartyFacts, Halves DEF ChannelTypes

\* What a step of p is: it may change its own part, take its first message and send some.
PartyStep(p, d, m, l, t, n, msgs) ==
    /\ disk' = [disk EXCEPT ![p] = d] /\ mem' = [mem EXCEPT ![p] = m]
    /\ link' = [link EXCEPT ![p] = l] /\ todo' = [todo EXCEPT ![p] = t]
    /\ net' = [net EXCEPT ![p] = n, ![Other(p)] = @ \o msgs]
    /\ DOMAIN fault' = Party /\ fees' \in Nat /\ scenario' = scenario

LEMMA StepInv ==
    ASSUME ChannelInv, NEW p \in Party, NEW d \in AnyDisk, NEW m \in AnyMemory,
           NEW l \in {"syncing", "up", "failed"}, NEW t \in {"none", "commitSig", "revocation"},
           NEW n \in Seq(AnyMessage), NEW msgs \in Seq(AnyMessage),
           PartyStep(p, d, m, l, t, n, msgs),
           HalfInv(d, m, l, n, disk[Other(p)], link[Other(p)], net[Other(p)] \o msgs),
           HalfInv(disk[Other(p)], mem[Other(p)], link[Other(p)], net[Other(p)] \o msgs, d, l, n)
    PROVE  ChannelInv'
<1> DEFINE q == Other(p)
<1>1. q \in Party /\ q # p /\ Other(q) = p /\ Party = {p, q}
  BY PartyFacts
<1>2. /\ disk'[p] = d /\ mem'[p] = m /\ link'[p] = l /\ net'[p] = n
      /\ disk'[q] = disk[q] /\ mem'[q] = mem[q] /\ link'[q] = link[q]
      /\ net'[q] = net[q] \o msgs
      /\ disk' \in [Party -> AnyDisk] /\ mem' \in [Party -> AnyMemory]
      /\ link' \in [Party -> {"syncing", "up", "failed"}]
      /\ todo' \in [Party -> {"none", "commitSig", "revocation"}]
      /\ net' \in [Party -> Seq(AnyMessage)]
  <2>1. net[q] \o msgs \in Seq(AnyMessage)
    BY <1>1, TypeFacts
  <2> QED
    BY <1>1, <2>1 DEF PartyStep, ChannelInv, ChannelTypes
<1>3. ChannelTypes'
  BY <1>2 DEF PartyStep, ChannelInv, ChannelTypes
<1>4. Other(p)' = Other(p) /\ Other(q)' = Other(q)
  BY DEF Other
<1>5. HalfOf(p)' /\ HalfOf(q)'
  <2> HIDE DEF q
  <2>1. HalfOf(p)' = HalfInv(d, m, l, n, disk[q], link[q], net[q] \o msgs)
    BY <1>2 DEF HalfOf, q
  <2>2. HalfOf(q)' = HalfInv(disk[q], mem[q], link[q], net[q] \o msgs, d, l, n)
    BY <1>1, <1>2 DEF HalfOf
  <2> QED
    BY <2>1, <2>2 DEF q
<1>6. \A x \in Party : HalfOf(x)'
  BY <1>1, <1>5
<1>7. (ChannelInv <=> ChannelTypes /\ \A x \in Party : HalfOf(x))'
  BY DEF ChannelInv, RecordInv, AgreeInv, QueueInv, HalfOf, HalfInv, Re
<1> QED
  BY <1>3, <1>6, <1>7

\* A link that is up has no reestablish to receive, and its peer is not silent by duty.
\* A step that changes no commitment: some updates are sent.
LEMMA SendPlain ==
    ASSUME ChannelInv, NEW p \in Party, link[p] = "up",
           NEW m \in AnyMemory, ChainsOf(m, disk[p]),
           NEW t \in {"none", "commitSig", "revocation"},
           NEW msgs \in Seq(AnyMessage), \A i \in 1 .. Len(msgs) : msgs[i].type \in UpdateTypes,
           PartyStep(p, disk[p], m, "up", t, net[p], msgs)
    PROVE  ChannelInv'
<1> DEFINE q == Other(p)
<1>1. /\ disk[p] \in AnyDisk /\ net[p] \in Seq(AnyMessage) /\ net[q] \in Seq(AnyMessage)
      /\ HalfInv(disk[p], mem[p], "up", net[p], disk[q], link[q], net[q])
      /\ HalfInv(disk[q], mem[q], link[q], net[q], disk[p], "up", net[p])
  BY PartyFacts, TypeFacts DEF HalfOf
<1>2. /\ \A d, e : GoodMsgs(msgs, d, e)
      /\ \A y \in Singular : ~Has(msgs, y)
  BY PlainMessages
<1> DEFINE nq == net[q] \o msgs
<1> HIDE DEF q
<1>3. /\ \A y : Has(nq, y) <=> Has(net[q], y) \/ Has(msgs, y)
      /\ MessagesOK(nq, disk[q], disk[p]) /\ Once(nq)
  BY <1>1, <1>2, QueueConcat DEF GoodMsgs, HalfInv
<1>4. ~Has(net[p], Re)
  BY <1>1 DEF HalfInv
<1>5. ~Has(msgs, Re)
  BY <1>2 DEF GoodMsgs
<1> HIDE DEF nq
<1>6. HalfInv(disk[p], m, "up", net[p], disk[q], link[q], nq)
  BY <1>1, <1>4 DEF HalfInv
<1>7. HalfInv(disk[q], mem[q], link[q], nq, disk[p], "up", net[p])
  BY <1>1, <1>3, <1>5 DEF HalfInv
<1> QED
  BY <1>1, <1>6, <1>7, StepInv DEF q, nq

\* The first message is an update, or leads to an error: it is taken and nothing is sent.
LEMMA TakePlain ==
    ASSUME ChannelInv, NEW p \in Party, link[p] = "up", net[p] # <<>>,
           NEW m \in AnyMemory, ChainsOf(m, disk[p]), NEW l \in {"up", "failed"},
           NEW t \in {"none", "commitSig", "revocation"},
           PartyStep(p, disk[p], m, l, t, Tail(net[p]), <<>>)
    PROVE  ChannelInv'
<1> DEFINE q == Other(p)
<1>1. /\ disk[p] \in AnyDisk /\ net[p] \in Seq(AnyMessage) /\ net[q] \in Seq(AnyMessage)
      /\ HalfInv(disk[p], mem[p], "up", net[p], disk[q], link[q], net[q])
      /\ HalfInv(disk[q], mem[q], link[q], net[q], disk[p], "up", net[p])
  BY PartyFacts, TypeFacts DEF HalfOf
<1>2. net[q] \o <<>> = net[q] /\ <<>> \in Seq(AnyMessage)
  BY <1>1
<1> DEFINE np == Tail(net[p])
<1>3. /\ np \in Seq(AnyMessage) /\ MessagesOK(np, disk[p], disk[q]) /\ Once(np)
      /\ Silent(net[p]) => Silent(np)
      /\ \A y : Has(np, y) => Has(net[p], y)
  BY <1>1, QueuePop DEF HalfInv
<1> HIDE DEF q, np
<1>4. ~Has(np, Re)
  BY <1>1, <1>3 DEF HalfInv
<1>5. HalfInv(disk[p], m, l, np, disk[q], link[q], net[q])
  BY <1>1, <1>3, <1>4 DEF HalfInv
<1>6. HalfInv(disk[q], mem[q], link[q], net[q], disk[p], l, np)
  BY <1>1, <1>3 DEF HalfInv
<1>7. l \in {"syncing", "up", "failed"}
  OBVIOUS
<1>8. /\ HalfInv(disk[p], m, l, np, disk[q], link[q], net[q] \o <<>>)
      /\ HalfInv(disk[q], mem[q], link[q], net[q] \o <<>>, disk[p], l, np)
      /\ disk[p] \in AnyDisk /\ <<>> \in Seq(AnyMessage) /\ np \in Seq(AnyMessage)
  BY <1>1, <1>2, <1>3, <1>5, <1>6
<1> QED
  BY <1>7, <1>8, StepInv DEF q, np

\* A step of updateCommitTx: a signature, or none.
LEMMA SignStep ==
    ASSUME ChannelInv, NEW p \in Party, link[p] = "up", NEW s,
           NotSignedOK(mem[p], disk[p], s) \/ SignedOK(disk[p], s),
           NEW l \in {"up", "failed"}, NEW t \in {"none", "commitSig", "revocation"},
           PartyStep(p, s.disk, s.mem, l, t, net[p], s.msgs)
    PROVE  ChannelInv'
<1> DEFINE q == Other(p)
           nq == net[q] \o s.msgs
<1>1. /\ disk[p] \in AnyDisk /\ net[p] \in Seq(AnyMessage) /\ net[q] \in Seq(AnyMessage)
      /\ disk[q] \in AnyDisk /\ mem[p] \in AnyMemory
      /\ HalfInv(disk[p], mem[p], "up", net[p], disk[q], link[q], net[q])
      /\ HalfInv(disk[q], mem[q], link[q], net[q], disk[p], "up", net[p])
  BY PartyFacts, TypeFacts DEF HalfOf
<1>2. l \in {"syncing", "up", "failed"}
  OBVIOUS
<1> HIDE DEF q
<1>3. CASE NotSignedOK(mem[p], disk[p], s)
  <2>1. s.disk = disk[p] /\ s.mem = mem[p] /\ s.msgs = <<>> /\ s.msgs \in Seq(AnyMessage)
    BY <1>3 DEF NotSignedOK
  <2>2. nq = net[q]
    BY <1>1, <2>1
  <2> HIDE DEF nq
  <2>3. HalfInv(disk[p], mem[p], l, net[p], disk[q], link[q], nq)
    BY <1>1, <2>2 DEF HalfInv
  <2>4. HalfInv(disk[q], mem[q], link[q], nq, disk[p], l, net[p])
    BY <1>1, <2>2 DEF HalfInv
  <2> QED
    BY <1>1, <1>2, <2>1, <2>3, <2>4, StepInv DEF q, nq
<1>4. CASE SignedOK(disk[p], s)
  <2>1. s.mem \in AnyMemory /\ ChainsOf(s.mem, s.disk) /\ disk[p].pending = <<>>
    BY <1>4 DEF SignedOK
  <2>2. disk[q].local.height = disk[p].remote.height
        /\ OwnTx(disk[q].local) = PeerTx(disk[p].remote)
    BY <1>1, <2>1, AgreedHeights DEF HalfInv, Agreed
  <2>3. NewlySigned(disk[p], disk[q], s)
    BY <1>1, <1>4, <2>2, SignedDisk
  <2>4. /\ s.disk \in AnyDisk /\ s.disk.local = disk[p].local /\ s.disk.remote = disk[p].remote
        /\ s.disk.pending # <<>> /\ PendingNext(s.disk) /\ s.msgs \in Seq(AnyMessage)
        /\ MessagesOK(s.msgs, disk[q], s.disk) /\ Once(s.msgs)
        /\ \A y : Has(s.msgs, y) <=> y = "CommitSig"
    BY <2>3 DEF NewlySigned, GoodMsgs
  <2>5. ~Has(net[q], "CommitSig")
    BY <1>1, <2>1 DEF HalfInv, MessagesOK, MessageOK, Has
  <2>6. MessagesOK(net[q], disk[q], s.disk)
    <3> SUFFICES ASSUME NEW i \in 1 .. Len(net[q]) PROVE MessageOK(net[q][i], disk[q], s.disk)
      BY DEF MessagesOK
    <3>1. MessageOK(net[q][i], disk[q], disk[p]) /\ net[q][i].type # "CommitSig"
      BY <1>1, <2>5 DEF HalfInv, MessagesOK, Has
    <3> QED
      BY <2>4, <3>1 DEF MessageOK
  <2>7. MessagesOK(net[p], s.disk, disk[q])
    <3> SUFFICES ASSUME NEW i \in 1 .. Len(net[p]) PROVE MessageOK(net[p][i], s.disk, disk[q])
      BY DEF MessagesOK
    <3>1. MessageOK(net[p][i], disk[p], disk[q])
      BY <1>1 DEF HalfInv, MessagesOK
    <3> QED
      BY <2>4, <3>1 DEF MessageOK
  <2>8. /\ \A y : Has(nq, y) <=> Has(net[q], y) \/ Has(s.msgs, y)
        /\ MessagesOK(nq, disk[q], s.disk) /\ Once(nq)
    <3>1. \A y \in Singular : ~(Has(net[q], y) /\ Has(s.msgs, y))
      BY <2>4, <2>5
    <3> QED
      BY <1>1, <2>4, <2>6, <3>1, QueueConcat DEF HalfInv
  <2> HIDE DEF nq
  <2>9. ~Has(net[p], Re) /\ ~Has(s.msgs, Re)
    BY <1>1, <2>4 DEF HalfInv, Re
  <2>10. HalfInv(s.disk, s.mem, l, net[p], disk[q], link[q], nq)
    <3>1. Agreed(s.disk, disk[q])
      BY <1>1, <2>4 DEF Agreed, HalfInv
    <3> QED
      BY <1>1, <2>1, <2>4, <2>7, <2>9, <3>1 DEF HalfInv
  <2>11. HalfInv(disk[q], mem[q], link[q], nq, s.disk, l, net[p])
    <3>1. Agreed(disk[q], s.disk)
      BY <2>2, <2>4 DEF Agreed
    <3> QED
      BY <1>1, <2>8, <2>9, <3>1 DEF HalfInv
  <2> QED
    BY <1>1, <1>2, <2>1, <2>4, <2>10, <2>11, StepInv DEF q, nq
<1> QED
  BY <1>3, <1>4

\* The messages to p stay true when only what they do not speak of changes.
LEMMA StillOK ==
    ASSUME NEW n, NEW d, NEW e, NEW d2, NEW e2, MessagesOK(n, d, e),
           Has(n, "CommitSig") => /\ d2.local.height = d.local.height /\ e2.remote = e.remote
                                  /\ e2.pending = e.pending,
           Has(n, "RevokeAndAck") => d2.remote.height = d.remote.height /\ e2.local = e.local,
           Has(n, Re) => e2.local = e.local /\ e2.remote = e.remote
    PROVE  MessagesOK(n, d2, e2)
<1> SUFFICES ASSUME NEW i \in 1 .. Len(n) PROVE MessageOK(n[i], d2, e2)
  BY DEF MessagesOK
<1>1. MessageOK(n[i], d, e)
  BY DEF MessagesOK
<1>2. /\ n[i].type = "CommitSig" => Has(n, "CommitSig")
      /\ n[i].type = "RevokeAndAck" => Has(n, "RevokeAndAck")
      /\ n[i].type = "ChannelReestablish" => Has(n, Re)
  BY DEF Has, Re
<1> QED
  BY <1>1, <1>2 DEF MessageOK

LEMMA HasTrue ==
    ASSUME NEW n, NEW d, NEW e, MessagesOK(n, d, e)
    PROVE  /\ Has(n, "CommitSig") => e.pending # <<>> /\ d.local.height = e.remote.height
           /\ Has(n, "RevokeAndAck") => e.local.height = d.remote.height + 1
           /\ Silent(n) => ~Has(n, "CommitSig") /\ ~Has(n, "RevokeAndAck")
BY DEF Has, MessagesOK, MessageOK, Silent

\* commit_sig: the new commitment takes the place of the old one.
LEMMA RevokeStep ==
    ASSUME ChannelInv, NEW p \in Party, link[p] = "up", net[p] # <<>>,
           Head(net[p]).type = "CommitSig", NEW c \in AnyCommit, OwnTx(c) = Head(net[p]).tx,
           NEW r, RevokedOK(disk[p], c, r), NEW t \in {"none", "commitSig", "revocation"},
           PartyStep(p, r.disk, r.mem, "up", t, Tail(net[p]), r.msgs)
    PROVE  ChannelInv'
<1> DEFINE q == Other(p)
           np == Tail(net[p])
           nq == net[q] \o r.msgs
<1>1. /\ disk[p] \in AnyDisk /\ net[p] \in Seq(AnyMessage) /\ net[q] \in Seq(AnyMessage)
      /\ disk[q] \in AnyDisk /\ mem[p] \in AnyMemory
      /\ HalfInv(disk[p], mem[p], "up", net[p], disk[q], link[q], net[q])
      /\ HalfInv(disk[q], mem[q], link[q], net[q], disk[p], "up", net[p])
  BY PartyFacts, TypeFacts DEF HalfOf
<1> HIDE DEF q
<1>2. /\ r.mem \in AnyMemory /\ r.disk \in AnyDisk /\ ChainsOf(r.mem, r.disk)
      /\ r.disk.local = c /\ r.disk.remote = disk[p].remote /\ r.disk.pending = disk[p].pending
      /\ r.msgs = <<RevokeAndAck(disk[p].local.height)>>
  BY DEF RevokedOK
<1>3. /\ MessagesOK(net[p], disk[p], disk[q]) /\ MessagesOK(net[q], disk[q], disk[p])
      /\ Once(net[p]) /\ Once(net[q]) /\ PendingNext(disk[p]) /\ PendingNext(disk[q])
      /\ Agreed(disk[p], disk[q]) /\ Agreed(disk[q], disk[p])
      /\ ChainsOf(mem[q], disk[q])
      /\ ~Has(net[p], Re)
      /\ Has(net[q], Re) => Silent(net[p])
      /\ link[q] = "syncing" => Silent(net[p]) /\ ~RestoreFails(disk[q])
  BY <1>1 DEF HalfInv
<1>4. /\ np \in Seq(AnyMessage) /\ MessagesOK(np, disk[p], disk[q]) /\ Once(np)
      /\ \A y : Has(np, y) => Has(net[p], y)
      /\ MessageOK(Head(net[p]), disk[p], disk[q])
      /\ Has(net[p], "CommitSig") /\ ~Has(np, "CommitSig")
      /\ ~Silent(net[p])
  <2>1. Has(net[p], "CommitSig") /\ "CommitSig" \in Singular
    BY <1>1, QueuePop DEF Singular
  <2>2. ~Silent(net[p])
    BY <1>3, <2>1, HasTrue
  <2> QED
    BY <1>1, <1>3, <2>1, <2>2, QueuePop
<1> HIDE DEF np
<1>5. /\ disk[q].pending # <<>> /\ OwnTx(c) = PeerTx(disk[q].pending[1].commit)
      /\ disk[p].local.height = disk[q].remote.height
  BY <1>4 DEF MessageOK
<1>6. /\ disk[p].local.height \in Nat /\ c.height = disk[q].remote.height + 1
  <2>1. disk[q].pending[1].commit \in AnyCommit /\ disk[p].local \in AnyCommit
    BY <1>1, <1>5, DiskFacts
  <2> QED
    BY <1>3, <1>5, <2>1, TxType, CommitIndices DEF PendingNext
<1>7. ~Has(net[q], Re) /\ ~Has(net[q], "RevokeAndAck") /\ link[q] # "syncing"
  <2>1. disk[q].remote.height \in Nat
    BY <1>1, DiskFacts, CommitIndices
  <2>2. disk[p].local.height # disk[q].remote.height + 1
    BY <1>5, <2>1
  <2> QED
    BY <1>3, <1>4, <2>2, HasTrue
<1>8. MessagesOK(net[q], disk[q], r.disk)
  BY <1>2, <1>3, <1>7, StillOK
<1>9. MessagesOK(np, r.disk, disk[q])
  <2>1. ~Has(np, Re)
    BY <1>3, <1>4
  <2> QED
    BY <1>2, <1>4, <2>1, StillOK
<1> DEFINE msg == RevokeAndAck(disk[p].local.height)
<1>10. /\ r.msgs \in Seq(AnyMessage) /\ Once(r.msgs) /\ MessagesOK(r.msgs, disk[q], r.disk)
       /\ \A y : Has(r.msgs, y) <=> y = "RevokeAndAck"
  <2>1. msg \in AnyMessage /\ msg.type = "RevokeAndAck" /\ msg.height = disk[q].remote.height
    BY <1>5, <1>6, MessageTypes
  <2>2. MessageOK(msg, disk[q], r.disk)
    BY <1>2, <1>6, <2>1 DEF MessageOK
  <2> HIDE DEF msg
  <2>3. r.msgs = <<msg>>
    BY <1>2 DEF msg
  <2> QED
    BY <2>1, <2>2, <2>3, OneMessage
<1>11. /\ nq \in Seq(AnyMessage) /\ MessagesOK(nq, disk[q], r.disk) /\ Once(nq) /\ ~Has(nq, Re)
  <2>1. \A y \in Singular : ~(Has(net[q], y) /\ Has(r.msgs, y))
    BY <1>7, <1>10
  <2> QED
    BY <1>1, <1>3, <1>7, <1>8, <1>10, <2>1, QueueConcat DEF Re
<1> HIDE DEF nq
<1>12. HalfInv(r.disk, r.mem, "up", np, disk[q], link[q], nq)
  <2>1. Agreed(r.disk, disk[q])
    BY <1>2, <1>5 DEF Agreed
  <2>2. PendingNext(r.disk)
    BY <1>2, <1>3 DEF PendingNext
  <2>3. ~Has(np, Re)
    BY <1>3, <1>4
  <2> QED
    BY <1>2, <1>4, <1>7, <1>9, <2>1, <2>2, <2>3 DEF HalfInv
<1>13. HalfInv(disk[q], mem[q], link[q], nq, r.disk, "up", np)
  <2>1. Agreed(disk[q], r.disk)
    BY <1>2, <1>3 DEF Agreed
  <2> QED
    BY <1>3, <1>11, <2>1 DEF HalfInv
<1>14. r.disk \in AnyDisk /\ r.mem \in AnyMemory /\ r.msgs \in Seq(AnyMessage) /\ np \in Seq(AnyMessage)
  BY <1>2, <1>4, <1>10
<1> QED
  BY <1>12, <1>13, <1>14, StepInv DEF q, np, nq

\* revoke_and_ack: the pending commitment becomes the peer's only one.
LEMMA AdvanceStep ==
    ASSUME ChannelInv, NEW p \in Party, link[p] = "up", net[p] # <<>>,
           Head(net[p]).type = "RevokeAndAck",
           NEW r, AdvancedOK(disk[p], r), NEW t \in {"none", "commitSig", "revocation"},
           PartyStep(p, r.disk, r.mem, "up", t, Tail(net[p]), <<>>)
    PROVE  ChannelInv'
<1> DEFINE q == Other(p)
           np == Tail(net[p])
<1>1. /\ disk[p] \in AnyDisk /\ net[p] \in Seq(AnyMessage) /\ net[q] \in Seq(AnyMessage)
      /\ disk[q] \in AnyDisk /\ mem[p] \in AnyMemory
      /\ HalfInv(disk[p], mem[p], "up", net[p], disk[q], link[q], net[q])
      /\ HalfInv(disk[q], mem[q], link[q], net[q], disk[p], "up", net[p])
  BY PartyFacts, TypeFacts DEF HalfOf
<1> HIDE DEF q
<1>2. /\ r.mem \in AnyMemory /\ r.disk \in AnyDisk /\ ChainsOf(r.mem, r.disk)
      /\ r.disk.local = disk[p].local /\ r.disk.remote = disk[p].pending[1].commit
      /\ r.disk.pending = <<>>
  BY DEF AdvancedOK
<1>3. /\ MessagesOK(net[p], disk[p], disk[q]) /\ MessagesOK(net[q], disk[q], disk[p])
      /\ Once(net[p]) /\ Once(net[q]) /\ PendingNext(disk[p]) /\ PendingNext(disk[q])
      /\ Agreed(disk[p], disk[q]) /\ Agreed(disk[q], disk[p])
      /\ ChainsOf(mem[q], disk[q])
      /\ ~Has(net[p], Re)
      /\ Has(net[q], Re) => Silent(net[p])
      /\ link[q] = "syncing" => Silent(net[p]) /\ ~RestoreFails(disk[q])
  BY <1>1 DEF HalfInv
<1>4. /\ np \in Seq(AnyMessage) /\ MessagesOK(np, disk[p], disk[q]) /\ Once(np)
      /\ \A y : Has(np, y) => Has(net[p], y)
      /\ Has(net[p], "RevokeAndAck") /\ ~Has(np, "RevokeAndAck")
      /\ ~Silent(net[p])
  <2>1. Has(net[p], "RevokeAndAck") /\ "RevokeAndAck" \in Singular
    BY <1>1, QueuePop DEF Singular
  <2>2. ~Silent(net[p])
    BY <1>3, <2>1, HasTrue
  <2> QED
    BY <1>1, <1>3, <2>1, <2>2, QueuePop
<1> HIDE DEF np
<1>5. /\ disk[q].local.height = disk[p].remote.height + 1 /\ disk[p].remote.height \in Nat
      /\ OwnTx(disk[q].local) = PeerTx(disk[p].pending[1].commit)
  <2>1. disk[q].local.height = disk[p].remote.height + 1
    BY <1>3, <1>4, HasTrue
  <2> QED
    BY <1>1, <1>3, <2>1, AgreedHeights
<1>6. ~Has(net[q], Re) /\ ~Has(net[q], "CommitSig") /\ link[q] # "syncing"
  <2>1. disk[q].local.height # disk[p].remote.height
    BY <1>5
  <2> QED
    BY <1>3, <1>4, <2>1, HasTrue
<1>7. MessagesOK(net[q], disk[q], r.disk)
  BY <1>2, <1>3, <1>6, StillOK
<1>8. MessagesOK(np, r.disk, disk[q]) /\ ~Has(np, Re)
  <2>1. ~Has(np, Re)
    BY <1>3, <1>4
  <2> QED
    BY <1>2, <1>4, <2>1, StillOK
<1>9. net[q] \o <<>> = net[q] /\ <<>> \in Seq(AnyMessage)
  BY <1>1
<1>10. HalfInv(r.disk, r.mem, "up", np, disk[q], link[q], net[q])
  <2>1. Agreed(r.disk, disk[q])
    BY <1>2, <1>3 DEF Agreed
  <2>2. PendingNext(r.disk)
    BY <1>2 DEF PendingNext
  <2> QED
    BY <1>2, <1>4, <1>6, <1>8, <2>1, <2>2 DEF HalfInv
<1>11. HalfInv(disk[q], mem[q], link[q], net[q], r.disk, "up", np)
  <2>1. Agreed(disk[q], r.disk)
    BY <1>2, <1>5 DEF Agreed
  <2> QED
    BY <1>3, <1>6, <1>7, <2>1 DEF HalfInv
<1>12. r.disk \in AnyDisk /\ r.mem \in AnyMemory /\ <<>> \in Seq(AnyMessage) /\ np \in Seq(AnyMessage)
  BY <1>2, <1>4, <1>9
<1>13. HalfInv(r.disk, r.mem, "up", np, disk[q], link[q], net[q] \o <<>>)
  BY <1>9, <1>10
<1>14. HalfInv(disk[q], mem[q], link[q], net[q] \o <<>>, r.disk, "up", np)
  BY <1>9, <1>11
<1> QED
  BY <1>12, <1>13, <1>14, StepInv DEF q, np

\* channel_reestablish.
LEMMA SyncStep ==
    ASSUME ChannelInv, NEW p \in Party, link[p] = "syncing", net[p] # <<>>,
           Head(net[p]).type = Re,
           NEW r, SyncedOK(disk[p], disk[Other(p)], r), NEW l \in {"up", "failed"},
           NEW t \in {"none", "commitSig", "revocation"},
           PartyStep(p, r.disk, r.mem, l, t, Tail(net[p]), r.msgs)
    PROVE  ChannelInv'
<1> DEFINE q == Other(p)
           np == Tail(net[p])
           nq == net[q] \o r.msgs
<1>1. /\ disk[p] \in AnyDisk /\ net[p] \in Seq(AnyMessage) /\ net[q] \in Seq(AnyMessage)
      /\ disk[q] \in AnyDisk /\ mem[p] \in AnyMemory
      /\ HalfInv(disk[p], mem[p], "syncing", net[p], disk[q], link[q], net[q])
      /\ HalfInv(disk[q], mem[q], link[q], net[q], disk[p], "syncing", net[p])
      /\ SyncedOK(disk[p], disk[q], r)
  BY PartyFacts, TypeFacts DEF HalfOf
<1> HIDE DEF q
<1>2. /\ r.mem \in AnyMemory /\ r.disk \in AnyDisk /\ ChainsOf(r.mem, r.disk) /\ PendingNext(r.disk)
      /\ r.disk.local = disk[p].local /\ r.disk.remote = disk[p].remote
      /\ disk[p].pending # <<>> => r.disk.pending = disk[p].pending
      /\ r.msgs \in Seq(AnyMessage) /\ MessagesOK(r.msgs, disk[q], r.disk) /\ Once(r.msgs)
      /\ ~Has(r.msgs, Re)
  BY <1>1 DEF SyncedOK, GoodMsgs
<1>3. /\ MessagesOK(net[p], disk[p], disk[q]) /\ MessagesOK(net[q], disk[q], disk[p])
      /\ Once(net[p]) /\ Once(net[q]) /\ PendingNext(disk[q])
      /\ Agreed(disk[p], disk[q]) /\ Agreed(disk[q], disk[p])
      /\ ChainsOf(mem[q], disk[q])
      /\ Silent(net[q])
      /\ Has(net[q], Re) => link[q] # "up" /\ Silent(net[p])
      /\ link[q] = "syncing" => Silent(net[p]) /\ ~RestoreFails(disk[q])
  BY <1>1 DEF HalfInv
<1>4. /\ np \in Seq(AnyMessage) /\ MessagesOK(np, disk[p], disk[q]) /\ Once(np)
      /\ \A y : Has(np, y) => Has(net[p], y)
      /\ ~Has(np, Re) /\ (Silent(net[p]) => Silent(np))
  <2>1. Re \in Singular
    BY DEF Singular, Re
  <2> QED
    BY <1>1, <1>3, <2>1, QueuePop
<1> HIDE DEF np
<1>5. ~Has(net[q], "CommitSig") /\ ~Has(net[q], "RevokeAndAck")
  BY <1>3, HasTrue
<1>6. MessagesOK(net[q], disk[q], r.disk)
  BY <1>2, <1>3, <1>5, StillOK
<1>7. MessagesOK(np, r.disk, disk[q])
  BY <1>2, <1>4, StillOK
<1>8. /\ nq \in Seq(AnyMessage) /\ MessagesOK(nq, disk[q], r.disk) /\ Once(nq)
      /\ Has(nq, Re) => Has(net[q], Re)
  <2>1. \A y \in Singular : ~(Has(net[q], y) /\ Has(r.msgs, y))
    BY <1>2, <1>5 DEF Singular, Re
  <2> QED
    BY <1>1, <1>2, <1>3, <1>6, <2>1, QueueConcat
<1> HIDE DEF nq
<1>9. HalfInv(r.disk, r.mem, l, np, disk[q], link[q], nq)
  <2>1. Agreed(r.disk, disk[q])
    BY <1>2, <1>3 DEF Agreed
  <2> QED
    BY <1>2, <1>3, <1>4, <1>7, <2>1 DEF HalfInv
<1>10. HalfInv(disk[q], mem[q], link[q], nq, r.disk, l, np)
  <2>1. Agreed(disk[q], r.disk)
    BY <1>2, <1>3 DEF Agreed
  <2> QED
    BY <1>3, <1>4, <1>8, <2>1 DEF HalfInv
<1>11. l \in {"syncing", "up", "failed"}
  OBVIOUS
<1>12. r.disk \in AnyDisk /\ r.mem \in AnyMemory /\ r.msgs \in Seq(AnyMessage)
  BY <1>2
<1>13. np \in Seq(AnyMessage)
  BY <1>4
<1> QED
  BY <1>9, <1>10, <1>11, <1>12, <1>13, StepInv DEF q, np, nq
-----------------------------------------------------------------------------
(* The actions. *)

LEMMA FaultKept ==
    ASSUME ChannelSafe,
           \/ UNCHANGED fault
           \/ \E p \in Party : \E x : fault' = [fault EXCEPT ![p] = x] /\ x \notin Unsynchronised
    PROVE  NeverUnsynchronised' /\ DOMAIN fault' = Party
<1>1. DOMAIN fault = Party /\ \A q \in Party : fault[q] \notin Unsynchronised
  BY DEF ChannelSafe, ChannelInv, ChannelTypes, NeverUnsynchronised
<1>2. CASE UNCHANGED fault
  BY <1>1, <1>2 DEF NeverUnsynchronised
<1>3. CASE \E p \in Party : \E x : fault' = [fault EXCEPT ![p] = x] /\ x \notin Unsynchronised
  <2>0. PICK p \in Party : \E x : fault' = [fault EXCEPT ![p] = x] /\ x \notin Unsynchronised
    BY <1>3
  <2>1. PICK x : fault' = [fault EXCEPT ![p] = x] /\ x \notin Unsynchronised
    BY <2>0
  <2>2. \A q \in Party : fault'[q] = IF q = p THEN x ELSE fault[q]
    BY <1>1, <2>1
  <2> QED
    BY <1>1, <2>1, <2>2 DEF NeverUnsynchronised
<1> QED
  BY <1>2, <1>3

\* Nothing changes a function that keeps its value at p.
LEMMA Kept ==
    ASSUME ChannelInv, NEW p \in Party
    PROVE  /\ disk = [disk EXCEPT ![p] = disk[p]] /\ mem = [mem EXCEPT ![p] = mem[p]]
           /\ link = [link EXCEPT ![p] = link[p]] /\ todo = [todo EXCEPT ![p] = todo[p]]
           /\ \A msgs : Send(p, msgs) => net' = [net EXCEPT ![p] = net[p], ![Other(p)] = @ \o msgs]
           /\ UNCHANGED net => net' = [net EXCEPT ![p] = net[p], ![Other(p)] = @ \o <<>>]
           /\ todo[p] \in {"none", "commitSig", "revocation"} /\ fees \in Nat
<1>1. /\ disk \in [Party -> AnyDisk] /\ mem \in [Party -> AnyMemory]
      /\ link \in [Party -> {"syncing", "up", "failed"}]
      /\ todo \in [Party -> {"none", "commitSig", "revocation"}]
      /\ net \in [Party -> Seq(AnyMessage)] /\ fees \in Nat
  BY DEF ChannelInv, ChannelTypes
<1>2. /\ disk = [disk EXCEPT ![p] = disk[p]] /\ mem = [mem EXCEPT ![p] = mem[p]]
      /\ link = [link EXCEPT ![p] = link[p]] /\ todo = [todo EXCEPT ![p] = todo[p]]
  BY <1>1
<1>3. net = [net EXCEPT ![p] = net[p]] /\ Other(p) # p /\ Other(p) \in Party
  BY <1>1, PartyFacts
<1>4. \A msgs : Send(p, msgs) => net' = [net EXCEPT ![p] = net[p], ![Other(p)] = @ \o msgs]
  BY <1>1, <1>3 DEF Send
<1>5. net[Other(p)] \o <<>> = net[Other(p)]
  <2>1. net[Other(p)] \in Seq(AnyMessage)
    BY <1>1, <1>3
  <2> QED
    BY <2>1
<1>6. UNCHANGED net => net' = [net EXCEPT ![p] = net[p], ![Other(p)] = @ \o <<>>]
  BY <1>1, <1>3, <1>5
<1> QED
  BY <1>1, <1>2, <1>4, <1>6

\* Appending to a log, and marking an HTLC in it, changes no chain.
LEMMA LogTypes ==
    /\ \A log \in AnyLog, e \in AnyEntry : appendHtlc(log, e) \in AnyLog /\ appendUpdate(log, e) \in AnyLog
    /\ \A log \in AnyLog, h \in Nat : markHtlcModified(log, h) \in AnyLog
    /\ \A log \in AnyLog : \A h : SumAmt(lookupHtlc(log, h)) \in Nat
    /\ \A log \in AnyLog : log.logIndex \in Nat /\ log.htlcCounter \in Nat
<1>1. \A log \in AnyLog : /\ log.entries \in FinSub(AnyEntry) /\ log.logIndex \in Nat
                          /\ log.htlcCounter \in Nat /\ log.modified \subseteq Nat
  BY DEF AnyLog
<1>2. \A log \in AnyLog, e \in AnyEntry : log.entries \union {e} \in FinSub(AnyEntry)
  BY <1>1, FinUnion, FinOne
<1>3. \A log \in AnyLog, e \in AnyEntry : appendHtlc(log, e) \in AnyLog /\ appendUpdate(log, e) \in AnyLog
  <2> SUFFICES ASSUME NEW log \in AnyLog, NEW e \in AnyEntry
               PROVE  appendHtlc(log, e) \in AnyLog /\ appendUpdate(log, e) \in AnyLog
    OBVIOUS
  <2> DEFINE S == log.entries \union {e}
  <2>1. S \in FinSub(AnyEntry) /\ log.logIndex + 1 \in Nat /\ log.htlcCounter + 1 \in Nat
    BY <1>1, <1>2
  <2>2. /\ appendHtlc(log, e) = [log EXCEPT !.entries = S, !.htlcCounter = @ + 1, !.logIndex = @ + 1]
        /\ appendUpdate(log, e) = [log EXCEPT !.entries = S, !.logIndex = @ + 1]
    BY DEF appendHtlc, appendUpdate, AnyLog
  <2> HIDE DEF S
  <2> QED
    BY <2>1, <2>2 DEF AnyLog
<1>4. \A log \in AnyLog, h \in Nat : markHtlcModified(log, h) \in AnyLog
  BY DEF markHtlcModified, AnyLog
<1>5. \A log \in AnyLog : \A h : SumAmt(lookupHtlc(log, h)) \in Nat
  <2> SUFFICES ASSUME NEW log \in AnyLog, NEW h PROVE SumAmt(lookupHtlc(log, h)) \in Nat
    OBVIOUS
  <2>1. lookupHtlc(log, h) \subseteq log.entries
    BY DEF lookupHtlc, Adds
  <2>2. lookupHtlc(log, h) \in FinSub(AnyEntry)
    BY <1>1, <2>1, FinPart
  <2> QED
    BY <2>2, SumOfEntries
<1> QED
  BY <1>1, <1>3, <1>4, <1>5

LEMMA MemoryWith ==
    ASSUME NEW m \in AnyMemory, NEW d, ChainsOf(m, d), NEW a \in AnyLog, NEW b \in AnyLog
    PROVE  /\ [m EXCEPT !.localLog = a] \in AnyMemory /\ ChainsOf([m EXCEPT !.localLog = a], d)
           /\ [m EXCEPT !.remoteLog = b] \in AnyMemory /\ ChainsOf([m EXCEPT !.remoteLog = b], d)
           /\ [m EXCEPT !.localLog = a, !.remoteLog = b] \in AnyMemory
           /\ ChainsOf([m EXCEPT !.localLog = a, !.remoteLog = b], d)
BY DEF AnyMemory, ChainsOf

LEMMA ScenarioFacts ==
    ASSUME ChannelInv
    PROVE  /\ Amounts \subseteq Nat /\ FeeRates \subseteq Nat
           /\ \A p \in Party : MaxHtlcs[p] \in Nat
BY ChannelAssumption DEF ChannelInv, ChannelTypes, Amounts, FeeRates, MaxHtlcs

LEMMA OneUpdate ==
    ASSUME NEW e \in AnyEntry
    PROVE  /\ <<UpdateMsg(e)>> \in Seq(AnyMessage)
           /\ \A i \in 1 .. Len(<<UpdateMsg(e)>>) : <<UpdateMsg(e)>>[i].type \in UpdateTypes
<1> DEFINE u == UpdateMsg(e)
<1>1. u \in AnyMessage /\ u.type \in UpdateTypes
  BY MessageTypes
<1> HIDE DEF u
<1>2. <<u>> \in Seq(AnyMessage) /\ \A i \in 1 .. Len(<<u>>) : <<u>>[i].type \in UpdateTypes
  BY <1>1
<1> QED
  BY <1>2 DEF u

LEMMA AddSafe ==
    ASSUME ChannelSafe, NEW p \in Party, NEW amt \in Amounts, AddHTLC(p, amt), UNCHANGED scenario
    PROVE  ChannelSafe'
<1> DEFINE log == mem[p].localLog
           e == Entry(LogUpdate("Add", log.logIndex, log.htlcCounter, amt), NoHeight, NoHeight)
           m == [mem[p] EXCEPT !.localLog = appendHtlc(@, e)]
<1>0. ChannelInv
  BY DEF ChannelSafe
<1>1. mem[p] \in AnyMemory /\ ChainsOf(mem[p], disk[p]) /\ log \in AnyLog /\ amt \in Nat
  BY <1>0, TypeFacts, ScenarioFacts DEF HalfOf, HalfInv, AnyMemory
<1>2. e \in AnyEntry
  BY <1>1, EntryType, HeightTypes, LogTypes DEF UpdateTypes
<1>3. m \in AnyMemory /\ ChainsOf(m, disk[p])
  <2> HIDE DEF e
  <2> QED
    BY <1>1, <1>2, LogTypes, MemoryWith
<1>4. /\ link[p] = "up" /\ mem' = [mem EXCEPT ![p] = m] /\ Send(p, <<UpdateMsg(e)>>)
      /\ UNCHANGED <<disk, link, todo, fault, fees>>
  BY <1>0 DEF AddHTLC, Idle, ChannelInv, ChannelTypes
<1> HIDE DEF e, m
<1>5. NeverUnsynchronised' /\ DOMAIN fault' = Party
  BY <1>4, FaultKept
<1>6. PartyStep(p, disk[p], m, "up", todo[p], net[p], <<UpdateMsg(e)>>)
  BY <1>0, <1>4, <1>5, Kept DEF PartyStep
<1>7. ChannelInv'
  <2> DEFINE msgs == <<UpdateMsg(e)>>
  <2>1. msgs \in Seq(AnyMessage) /\ \A i \in 1 .. Len(msgs) : msgs[i].type \in UpdateTypes
    BY <1>2, OneUpdate
  <2>2. todo[p] \in {"none", "commitSig", "revocation"}
    BY <1>0, Kept
  <2>3. PartyStep(p, disk[p], m, "up", todo[p], net[p], msgs)
    BY <1>6
  <2> HIDE DEF msgs
  <2> QED
    BY <1>0, <1>3, <1>4, <2>1, <2>2, <2>3, SendPlain
<1> QED
  BY <1>5, <1>7 DEF ChannelSafe

LEMMA RemoveSafe ==
    ASSUME ChannelSafe, NEW p \in Party, NEW htlc \in Nat, NEW t \in {"Settle", "Fail"},
           RemoveHTLC(p, htlc, t), UNCHANGED scenario
    PROVE  ChannelSafe'
<1> DEFINE parent == lookupHtlc(mem[p].remoteLog, htlc)
           e == Entry(LogUpdate(t, mem[p].localLog.logIndex, htlc, SumAmt(parent)), NoHeight, NoHeight)
           a == appendUpdate(mem[p].localLog, e)
           b == markHtlcModified(mem[p].remoteLog, htlc)
           m == [mem[p] EXCEPT !.localLog = a, !.remoteLog = b]
           msgs == <<UpdateMsg(e)>>
<1>0. ChannelInv
  BY DEF ChannelSafe
<1>1. mem[p] \in AnyMemory /\ ChainsOf(mem[p], disk[p])
      /\ mem[p].localLog \in AnyLog /\ mem[p].remoteLog \in AnyLog
  BY <1>0, TypeFacts DEF HalfOf, HalfInv, AnyMemory
<1>2. e \in AnyEntry
  <2>1. t \in UpdateTypes /\ SumAmt(parent) \in Nat /\ mem[p].localLog.logIndex \in Nat
    BY <1>1, LogTypes DEF UpdateTypes
  <2> HIDE DEF parent
  <2> QED
    BY <2>1, EntryType, HeightTypes
<1>3. link[p] = "up" /\ UNCHANGED <<disk, link, todo, fault, fees>>
      /\ Send(p, msgs) /\ mem' = [mem EXCEPT ![p] = m]
  BY <1>0, <1>1 DEF RemoveHTLC, ChannelInv, ChannelTypes, AnyMemory
<1> HIDE DEF e
<1>4. m \in AnyMemory /\ ChainsOf(m, disk[p])
  <2>1. a \in AnyLog /\ b \in AnyLog
    BY <1>1, <1>2, LogTypes
  <2> HIDE DEF a, b
  <2> QED
    BY <1>1, <2>1, MemoryWith
<1>5. msgs \in Seq(AnyMessage) /\ \A i \in 1 .. Len(msgs) : msgs[i].type \in UpdateTypes
  BY <1>2, OneUpdate
<1> HIDE DEF m, msgs
<1>6. NeverUnsynchronised' /\ DOMAIN fault' = Party
  BY <1>3, FaultKept
<1>7. PartyStep(p, disk[p], m, "up", todo[p], net[p], msgs)
  BY <1>0, <1>3, <1>6, Kept DEF PartyStep
<1>8. todo[p] \in {"none", "commitSig", "revocation"}
  BY <1>0, Kept
<1>9. ChannelInv'
  BY <1>0, <1>3, <1>4, <1>5, <1>7, <1>8, SendPlain
<1> QED
  BY <1>6, <1>9 DEF ChannelSafe

LEMMA UpdateFeeSafe ==
    ASSUME ChannelSafe, NEW p \in Party, NEW fee \in FeeRates, UpdateFee(p, fee), UNCHANGED scenario
    PROVE  ChannelSafe'
<1> DEFINE e == Entry(LogUpdate("FeeUpdate", mem[p].localLog.logIndex, 0, fee), NoHeight, NoHeight)
           a == appendUpdate(mem[p].localLog, e)
           m == [mem[p] EXCEPT !.localLog = a]
           msgs == <<UpdateMsg(e)>>
<1>0. ChannelInv
  BY DEF ChannelSafe
<1>1. mem[p] \in AnyMemory /\ ChainsOf(mem[p], disk[p]) /\ mem[p].localLog \in AnyLog /\ fee \in Nat
  BY <1>0, TypeFacts, ScenarioFacts DEF HalfOf, HalfInv, AnyMemory
<1>2. e \in AnyEntry
  BY <1>1, EntryType, HeightTypes, LogTypes DEF UpdateTypes
<1>3. /\ link[p] = "up" /\ UNCHANGED <<disk, link, fault>> /\ fees' = fees + 1
      /\ todo' = [todo EXCEPT ![p] = "commitSig"]
      /\ Send(p, msgs) /\ mem' = [mem EXCEPT ![p] = m]
  BY <1>0 DEF UpdateFee, Idle, ChannelInv, ChannelTypes
<1> HIDE DEF e
<1>4. m \in AnyMemory /\ ChainsOf(m, disk[p])
  <2>1. a \in AnyLog
    BY <1>1, <1>2, LogTypes
  <2> HIDE DEF a
  <2> QED
    BY <1>1, <2>1, MemoryWith
<1>5. msgs \in Seq(AnyMessage) /\ \A i \in 1 .. Len(msgs) : msgs[i].type \in UpdateTypes
  BY <1>2, OneUpdate
<1> HIDE DEF m, msgs
<1>6. NeverUnsynchronised' /\ DOMAIN fault' = Party
  BY <1>3, FaultKept
<1>7. PartyStep(p, disk[p], m, "up", "commitSig", net[p], msgs)
  BY <1>0, <1>3, <1>6, Kept DEF PartyStep
<1>9. ChannelInv'
  BY <1>0, <1>3, <1>4, <1>5, <1>7, SendPlain
<1> QED
  BY <1>6, <1>9 DEF ChannelSafe

LEMMA CommitTxSafe ==
    ASSUME ChannelSafe, NEW p \in Party, link[p] = "up", updateCommitTx(p, mem[p]),
           UNCHANGED <<fees, scenario>>
    PROVE  ChannelSafe'
<1> DEFINE s == SignNextCommitment(mem[p], disk[p])
<1>0. ChannelInv
  BY DEF ChannelSafe
<1>1. mem[p] \in AnyMemory /\ disk[p] \in AnyDisk /\ ChainsOf(mem[p], disk[p])
  BY <1>0, TypeFacts DEF HalfOf, HalfInv
<1>2. NotSignedOK(mem[p], disk[p], s) \/ SignedOK(disk[p], s)
  BY <1>1, SignNext
<1>3. /\ mem' = [mem EXCEPT ![p] = s.mem] /\ disk' = [disk EXCEPT ![p] = s.disk]
      /\ Send(p, s.msgs) /\ UNCHANGED <<fees, scenario>>
      /\ IF s.err \in {"none", "ErrNoWindow"}
         THEN todo' = [todo EXCEPT ![p] = "none"] /\ UNCHANGED <<link, fault>>
         ELSE Fail(p, s.err)
  BY DEF updateCommitTx
<1>4. s.err \in {"none", "ErrNoWindow", "ErrInternalError"}
  BY <1>2 DEF NotSignedOK, SignedOK
<1> HIDE DEF s
<1>5. NeverUnsynchronised' /\ DOMAIN fault' = Party
  <2>1. \/ UNCHANGED fault
        \/ \E x : fault' = [fault EXCEPT ![p] = x] /\ x \notin Unsynchronised
    BY <1>3, <1>4 DEF Fail, Unsynchronised
  <2> QED
    BY <2>1, FaultKept
<1> DEFINE l == IF s.err \in {"none", "ErrNoWindow"} THEN "up" ELSE "failed"
<1>6. PartyStep(p, s.disk, s.mem, l, "none", net[p], s.msgs)
  BY <1>0, <1>3, <1>5, Kept DEF PartyStep, Fail
<1>7. l \in {"up", "failed"}
  OBVIOUS
<1> HIDE DEF l
<1>8. ChannelInv'
  BY <1>0, <1>2, <1>6, <1>7, SignStep
<1> QED
  BY <1>5, <1>8 DEF ChannelSafe

LEMMA TickSafe ==
    ASSUME ChannelSafe, NEW p \in Party, BatchTick(p), UNCHANGED scenario
    PROVE  ChannelSafe'
BY CommitTxSafe DEF BatchTick, Idle

LEMMA FinishSafe ==
    ASSUME ChannelSafe, NEW p \in Party, FinishHandler(p), UNCHANGED scenario
    PROVE  ChannelSafe'
<1>0. ChannelInv /\ link[p] = "up" /\ UNCHANGED fees
  BY DEF ChannelSafe, FinishHandler
<1>1. CASE updateCommitTx(p, mem[p])
  BY <1>0, <1>1, CommitTxSafe
<1>2. CASE todo' = [todo EXCEPT ![p] = "none"] /\ UNCHANGED <<disk, mem, link, net, fault>>
  <2>1. NeverUnsynchronised' /\ DOMAIN fault' = Party
    BY <1>2, FaultKept
  <2>2. PartyStep(p, disk[p], mem[p], "up", "none", net[p], <<>>)
    BY <1>0, <1>2, <2>1, Kept DEF PartyStep
  <2>3. mem[p] \in AnyMemory /\ ChainsOf(mem[p], disk[p])
    BY <1>0, TypeFacts DEF HalfOf, HalfInv
  <2>4. <<>> \in Seq(AnyMessage) /\ \A i \in 1 .. Len(<<>>) : <<>>[i].type \in UpdateTypes
    OBVIOUS
  <2>5. ChannelInv'
    BY <1>0, <2>2, <2>3, <2>4, SendPlain
  <2> QED
    BY <2>1, <2>5 DEF ChannelSafe
<1> QED
  BY <1>1, <1>2 DEF FinishHandler

LEMMA MessageFields ==
    /\ \A msg \in AnyMessage : msg.type \in UpdateTypes => msg.htlc \in Nat /\ msg.amt \in Nat
<1> SUFFICES ASSUME NEW msg \in AnyMessage, msg.type \in UpdateTypes
             PROVE  msg.htlc \in Nat /\ msg.amt \in Nat
  OBVIOUS
<1>1. msg \in [type : UpdateTypes, htlc : Nat, amt : Nat]
  BY DEF AnyMessage, UpdateTypes
<1> QED
  BY <1>1

\* A message that leads to an entry of the remote log, or to a fault.
LEMMA TakeSafe ==
    ASSUME ChannelSafe, NEW p \in Party, Idle(p), net[p] # <<>>, Reply(p, <<>>),
           UNCHANGED <<disk, fees, scenario>>,
           NEW m \in AnyMemory, ChainsOf(m, disk[p]),
           \/ mem' = [mem EXCEPT ![p] = m] /\ UNCHANGED <<link, todo, fault>>
           \/ Fail(p, "ErrInvalidUpdate") /\ UNCHANGED mem
           \/ Fail(p, "ErrInvalidCommitment") /\ UNCHANGED mem
    PROVE  ChannelSafe'
<1>0. ChannelInv /\ link[p] = "up"
  BY DEF ChannelSafe, Idle
<1>1. NeverUnsynchronised' /\ DOMAIN fault' = Party
  <2>1. \/ UNCHANGED fault
        \/ \E x : fault' = [fault EXCEPT ![p] = x] /\ x \notin Unsynchronised
    BY DEF Fail, Unsynchronised
  <2> QED
    BY <2>1, FaultKept
<1>2. CASE mem' = [mem EXCEPT ![p] = m] /\ UNCHANGED <<link, todo, fault>>
  <2>1. PartyStep(p, disk[p], m, "up", todo[p], Tail(net[p]), <<>>)
    BY <1>0, <1>1, <1>2, Kept DEF PartyStep, Reply
  <2>2. todo[p] \in {"none", "commitSig", "revocation"}
    BY <1>0, Kept
  <2>3. ChannelInv'
    BY <1>0, <2>1, <2>2, TakePlain
  <2> QED
    BY <1>1, <2>3 DEF ChannelSafe
<1>3. CASE \E x : Fail(p, x) /\ UNCHANGED mem
  <2>1. PartyStep(p, disk[p], mem[p], "failed", "none", Tail(net[p]), <<>>)
    BY <1>0, <1>1, <1>3, Kept DEF PartyStep, Reply, Fail
  <2>2. mem[p] \in AnyMemory /\ ChainsOf(mem[p], disk[p])
    BY <1>0, TypeFacts DEF HalfOf, HalfInv
  <2>3. ChannelInv'
    BY <1>0, <2>1, <2>2, TakePlain
  <2> QED
    BY <1>1, <2>3 DEF ChannelSafe
<1> QED
  BY <1>2, <1>3

LEMMA ReceiveAddSafe ==
    ASSUME ChannelSafe, NEW p \in Party, ReceiveAdd(p), UNCHANGED scenario
    PROVE  ChannelSafe'
<1> DEFINE msg == Head(net[p])
           log == mem[p].remoteLog
           e   == Entry(LogUpdate("Add", log.logIndex, log.htlcCounter, msg.amt), NoHeight, NoHeight)
           b == appendHtlc(log, e)
           m == [mem[p] EXCEPT !.remoteLog = b]
<1>0. ChannelInv
  BY DEF ChannelSafe
<1>1. mem[p] \in AnyMemory /\ ChainsOf(mem[p], disk[p]) /\ mem[p].localLog \in AnyLog
      /\ log \in AnyLog /\ net[p] \in Seq(AnyMessage)
  BY <1>0, TypeFacts DEF HalfOf, HalfInv, AnyMemory
<1>2. /\ Idle(p) /\ net[p] # <<>> /\ msg.type = "Add" /\ Reply(p, <<>>) /\ UNCHANGED <<disk, fees>>
      /\ \/ mem' = [mem EXCEPT ![p] = m] /\ UNCHANGED <<link, todo, fault>>
         \/ Fail(p, "ErrInvalidUpdate") /\ UNCHANGED mem
  BY <1>0 DEF ReceiveAdd, Deliver, ChannelInv, ChannelTypes
<1>3. msg.amt \in Nat
  BY <1>1, <1>2, QueuePop, MessageFields DEF UpdateTypes
<1>4. e \in AnyEntry
  <2> HIDE DEF msg, log
  <2> QED
    BY <1>1, <1>3, EntryType, HeightTypes, LogTypes DEF UpdateTypes
<1> HIDE DEF e
<1>5. m \in AnyMemory /\ ChainsOf(m, disk[p])
  <2>1. b \in AnyLog
    BY <1>1, <1>4, LogTypes
  <2> HIDE DEF b
  <2> QED
    BY <1>1, <2>1, MemoryWith
<1> HIDE DEF m
<1> QED
  BY <1>2, <1>5, TakeSafe

LEMMA ReceiveRemovalSafe ==
    ASSUME ChannelSafe, NEW p \in Party, ReceiveRemoval(p), UNCHANGED scenario
    PROVE  ChannelSafe'
<1> DEFINE msg == Head(net[p])
           parent == lookupHtlc(mem[p].localLog, msg.htlc)
           e == Entry(LogUpdate(msg.type, mem[p].remoteLog.logIndex, msg.htlc,
                                SumAmt(parent)), NoHeight, NoHeight)
           a == markHtlcModified(mem[p].localLog, msg.htlc)
           b == appendUpdate(mem[p].remoteLog, e)
           m == [mem[p] EXCEPT !.localLog = a, !.remoteLog = b]
<1>0. ChannelInv
  BY DEF ChannelSafe
<1>1. mem[p] \in AnyMemory /\ ChainsOf(mem[p], disk[p]) /\ mem[p].localLog \in AnyLog
      /\ mem[p].remoteLog \in AnyLog /\ net[p] \in Seq(AnyMessage)
  BY <1>0, TypeFacts DEF HalfOf, HalfInv, AnyMemory
<1>2. /\ Idle(p) /\ net[p] # <<>> /\ msg.type \in {"Settle", "Fail"} /\ Reply(p, <<>>)
      /\ UNCHANGED <<disk, fees>>
      /\ \/ mem' = [mem EXCEPT ![p].remoteLog = b, ![p].localLog = a] /\ UNCHANGED <<link, todo, fault>>
         \/ Fail(p, "ErrInvalidUpdate") /\ UNCHANGED mem
  BY <1>0 DEF ReceiveRemoval, Deliver, ChannelInv, ChannelTypes
<1>3. msg.htlc \in Nat
  BY <1>1, <1>2, QueuePop, MessageFields DEF UpdateTypes
<1>4. e \in AnyEntry
  <2>1. msg.type \in UpdateTypes /\ SumAmt(parent) \in Nat /\ mem[p].remoteLog.logIndex \in Nat
    BY <1>1, <1>2, LogTypes DEF UpdateTypes
  <2> HIDE DEF parent, msg
  <2> QED
    BY <1>3, <2>1, EntryType, HeightTypes
<1> HIDE DEF e
<1>5. a \in AnyLog /\ b \in AnyLog
  <2> HIDE DEF msg
  <2> QED
    BY <1>1, <1>3, <1>4, LogTypes
<1> HIDE DEF a, b
<1>6. m \in AnyMemory /\ ChainsOf(m, disk[p])
  BY <1>1, <1>5, MemoryWith
<1>7. [mem EXCEPT ![p].remoteLog = b, ![p].localLog = a] = [mem EXCEPT ![p] = m]
  <2>1. mem \in [Party -> AnyMemory]
    BY <1>0 DEF ChannelInv, ChannelTypes
  <2>2. m = [mem[p] EXCEPT !.remoteLog = b, !.localLog = a]
    BY <1>1 DEF AnyMemory
  <2> HIDE DEF m
  <2> QED
    BY <2>1, <2>2
<1> HIDE DEF m
<1> QED
  BY <1>2, <1>6, <1>7, TakeSafe

LEMMA ReceiveUpdateFeeSafe ==
    ASSUME ChannelSafe, NEW p \in Party, ReceiveUpdateFee(p), UNCHANGED scenario
    PROVE  ChannelSafe'
<1> DEFINE msg == Head(net[p])
           e   == Entry(LogUpdate("FeeUpdate", mem[p].remoteLog.logIndex, 0, msg.amt), NoHeight, NoHeight)
           b == appendUpdate(mem[p].remoteLog, e)
           m == [mem[p] EXCEPT !.remoteLog = b]
<1>0. ChannelInv
  BY DEF ChannelSafe
<1>1. mem[p] \in AnyMemory /\ ChainsOf(mem[p], disk[p]) /\ mem[p].localLog \in AnyLog
      /\ mem[p].remoteLog \in AnyLog /\ net[p] \in Seq(AnyMessage)
  BY <1>0, TypeFacts DEF HalfOf, HalfInv, AnyMemory
<1>2. /\ Idle(p) /\ net[p] # <<>> /\ msg.type = "FeeUpdate" /\ Reply(p, <<>>) /\ UNCHANGED <<disk, fees>>
      /\ \/ mem' = [mem EXCEPT ![p] = m] /\ UNCHANGED <<link, todo, fault>>
         \/ Fail(p, "ErrInvalidUpdate") /\ UNCHANGED mem
  BY <1>0 DEF ReceiveUpdateFee, Deliver, ChannelInv, ChannelTypes
<1>3. msg.amt \in Nat
  BY <1>1, <1>2, QueuePop, MessageFields DEF UpdateTypes
<1>4. e \in AnyEntry
  <2> HIDE DEF msg
  <2> QED
    BY <1>1, <1>3, EntryType, HeightTypes, LogTypes DEF UpdateTypes
<1> HIDE DEF e
<1>5. m \in AnyMemory /\ ChainsOf(m, disk[p])
  <2>1. b \in AnyLog
    BY <1>1, <1>4, LogTypes
  <2> HIDE DEF b
  <2> QED
    BY <1>1, <2>1, MemoryWith
<1> HIDE DEF m
<1> QED
  BY <1>2, <1>5, TakeSafe

LEMMA ReceiveCommitSigSafe ==
    ASSUME ChannelSafe, NEW p \in Party, ReceiveCommitSig(p), UNCHANGED scenario
    PROVE  ChannelSafe'
<1> DEFINE n == ReceiveNewCommitment(mem[p], Head(net[p]).tx)
           r == RevokeCurrentCommitment(n.mem, disk[p])
<1>0. ChannelInv
  BY DEF ChannelSafe
<1>1. mem[p] \in AnyMemory /\ disk[p] \in AnyDisk /\ ChainsOf(mem[p], disk[p])
  BY <1>0, TypeFacts DEF HalfOf, HalfInv
<1>2. /\ Idle(p) /\ net[p] # <<>> /\ Head(net[p]).type = "CommitSig" /\ UNCHANGED fees
      /\ \/ /\ n.ok /\ mem' = [mem EXCEPT ![p] = r.mem] /\ disk' = [disk EXCEPT ![p] = r.disk]
            /\ Reply(p, r.msgs) /\ todo' = [todo EXCEPT ![p] = "commitSig"]
            /\ UNCHANGED <<link, fault>>
         \/ /\ Fail(p, "ErrInvalidCommitment") /\ Reply(p, <<>>) /\ UNCHANGED <<mem, disk>>
  BY DEF ReceiveCommitSig, Deliver
<1>3. CASE /\ n.ok /\ mem' = [mem EXCEPT ![p] = r.mem] /\ disk' = [disk EXCEPT ![p] = r.disk]
           /\ Reply(p, r.msgs) /\ todo' = [todo EXCEPT ![p] = "commitSig"]
           /\ UNCHANGED <<link, fault>>
  <2>1. PICK c \in AnyCommit : OwnTx(c) = Head(net[p]).tx /\ RevokedOK(disk[p], c, r)
    <3> HIDE DEF n
    <3>1. n = ReceiveNewCommitment(mem[p], Head(net[p]).tx) /\ n.ok
      BY <1>3 DEF n
    <3> QED
      BY <1>1, <3>1, ReceiveSignature
  <2> HIDE DEF n, r
  <2>2. NeverUnsynchronised' /\ DOMAIN fault' = Party
    BY <1>3, FaultKept
  <2>3. PartyStep(p, r.disk, r.mem, "up", "commitSig", Tail(net[p]), r.msgs)
    BY <1>0, <1>2, <1>3, <2>2, Kept DEF PartyStep, Reply, Idle
  <2>4. link[p] = "up"
    BY <1>2 DEF Idle
  <2>5. ChannelInv'
    BY <1>0, <1>2, <2>1, <2>3, <2>4, RevokeStep
  <2> QED
    BY <2>2, <2>5 DEF ChannelSafe
<1>4. CASE Fail(p, "ErrInvalidCommitment") /\ Reply(p, <<>>) /\ UNCHANGED <<mem, disk>>
  BY <1>1, <1>2, <1>4, TakeSafe
<1> QED
  BY <1>2, <1>3, <1>4

\* The revocation is always for the tail, and its replacement is waiting.
LEMMA ReceiveRevokeAndAckSafe ==
    ASSUME ChannelSafe, NEW p \in Party, ReceiveRevokeAndAck(p), UNCHANGED scenario
    PROVE  ChannelSafe'
<1> DEFINE h == Head(net[p]).height
           r == ReceiveRevocation(mem[p], disk[p], h)
           q == Other(p)
<1>0. ChannelInv
  BY DEF ChannelSafe
<1>1. /\ mem[p] \in AnyMemory /\ disk[p] \in AnyDisk /\ ChainsOf(mem[p], disk[p])
      /\ disk[q] \in AnyDisk /\ PendingNext(disk[p]) /\ Agreed(disk[q], disk[p])
      /\ net[p] \in Seq(AnyMessage) /\ MessagesOK(net[p], disk[p], disk[q])
  BY <1>0, TypeFacts, PartyFacts DEF HalfOf, HalfInv
<1> HIDE DEF q
<1>2. /\ Idle(p) /\ net[p] # <<>> /\ Head(net[p]).type = "RevokeAndAck" /\ UNCHANGED fees
      /\ Reply(p, <<>>)
      /\ IF r.ok
         THEN /\ mem' = [mem EXCEPT ![p] = r.mem] /\ disk' = [disk EXCEPT ![p] = r.disk]
              /\ todo' = [todo EXCEPT ![p] = "revocation"] /\ UNCHANGED <<link, fault>>
         ELSE Fail(p, "ErrInvalidRevocation") /\ UNCHANGED <<mem, disk>>
  BY DEF ReceiveRevokeAndAck, Deliver
<1>3. h = disk[p].remote.height /\ disk[q].local.height = disk[p].remote.height + 1
  BY <1>1, <1>2, QueuePop DEF MessageOK
<1>4. disk[p].pending # <<>>
  BY <1>1, <1>3, AgreedHeights
<1>5. r.ok /\ AdvancedOK(disk[p], r)
  <2>1. r = ReceiveRevocation(mem[p], disk[p], h)
    OBVIOUS
  <2> HIDE DEF r, h
  <2> QED
    BY <1>1, <1>3, <1>4, <2>1, ReceiveRevokes
<1> HIDE DEF r, h
<1>6. NeverUnsynchronised' /\ DOMAIN fault' = Party
  BY <1>2, <1>5, FaultKept
<1>7. PartyStep(p, r.disk, r.mem, "up", "revocation", Tail(net[p]), <<>>)
  BY <1>0, <1>2, <1>5, <1>6, Kept DEF PartyStep, Reply, Idle
<1>8. link[p] = "up"
  BY <1>2 DEF Idle
<1>9. ChannelInv'
  BY <1>0, <1>2, <1>5, <1>7, <1>8, AdvanceStep
<1> QED
  BY <1>6, <1>9 DEF ChannelSafe

LEMMA ReceiveReestablishSafe ==
    ASSUME ChannelSafe, NEW p \in Party, ReceiveReestablish(p), UNCHANGED scenario
    PROVE  ChannelSafe'
<1> DEFINE q == Other(p)
           r == ProcessChanSyncMsg(mem[p], disk[p], Head(net[p]))
           l == IF r.err = "none" THEN "up" ELSE "failed"
           t == IF r.err = "none" THEN todo[p] ELSE "none"
<1>0. ChannelInv
  BY DEF ChannelSafe
<1>1. /\ link[p] = "syncing" /\ net[p] # <<>> /\ Head(net[p]).type = Re /\ UNCHANGED fees
      /\ Reply(p, r.msgs) /\ mem' = [mem EXCEPT ![p] = r.mem] /\ disk' = [disk EXCEPT ![p] = r.disk]
      /\ IF r.err = "none" THEN link' = [link EXCEPT ![p] = "up"] /\ UNCHANGED <<todo, fault>>
         ELSE Fail(p, r.err)
  BY DEF ReceiveReestablish, Deliver, Re
<1>2. /\ mem[p] \in AnyMemory /\ disk[p] \in AnyDisk /\ ChainsOf(mem[p], disk[p])
      /\ disk[q] \in AnyDisk /\ PendingNext(disk[p]) /\ PendingNext(disk[q])
      /\ Agreed(disk[q], disk[p]) /\ Agreed(disk[p], disk[q]) /\ ~RestoreFails(disk[p])
      /\ net[p] \in Seq(AnyMessage) /\ MessagesOK(net[p], disk[p], disk[q])
  BY <1>0, <1>1, TypeFacts, PartyFacts DEF HalfOf, HalfInv
<1> HIDE DEF q
<1>3. /\ Head(net[p]).nextLocalCommitHeight = disk[q].local.height + 1
      /\ Head(net[p]).remoteCommitTailHeight = disk[q].remote.height
  BY <1>1, <1>2, QueuePop DEF MessageOK, Re
<1>4. SyncedOK(disk[p], disk[q], r)
  BY <1>2, <1>3, Synchronised
<1> HIDE DEF r
<1>5. r.err \in {"none", "ErrRecoveryError"}
  BY <1>4 DEF SyncedOK
<1>6. NeverUnsynchronised' /\ DOMAIN fault' = Party
  <2>1. \/ UNCHANGED fault
        \/ \E x : fault' = [fault EXCEPT ![p] = x] /\ x \notin Unsynchronised
    BY <1>1, <1>5 DEF Fail, Unsynchronised
  <2> QED
    BY <2>1, FaultKept
<1>7. PartyStep(p, r.disk, r.mem, l, t, Tail(net[p]), r.msgs)
  BY <1>0, <1>1, <1>6, Kept DEF PartyStep, Reply, Fail
<1>8. l \in {"up", "failed"} /\ t \in {"none", "commitSig", "revocation"}
  BY <1>0, Kept
<1> HIDE DEF l, t
<1>9. ChannelInv'
  BY <1>0, <1>1, <1>4, <1>7, <1>8, SyncStep DEF q
<1> QED
  BY <1>6, <1>9 DEF ChannelSafe

LEMMA ReconnectSafe == ASSUME ChannelSafe, Reconnect PROVE ChannelSafe'
<1>0. ChannelInv
  BY DEF ChannelSafe
<1>1. \A p \in Party : /\ disk[p] \in AnyDisk /\ restoreCommitState(disk[p]) \in AnyMemory
                       /\ ChainsOf(restoreCommitState(disk[p]), disk[p])
  BY <1>0, TypeFacts, RestoreType
<1>2. \A p \in Party : /\ ChannelReestablish(disk[p]) \in AnyMessage
                       /\ ChannelReestablish(disk[p]).type = Re
                       /\ \A d : MessageOK(ChannelReestablish(disk[p]), d, disk[p])
  <2> SUFFICES ASSUME NEW p \in Party
               PROVE  /\ ChannelReestablish(disk[p]) \in AnyMessage
                      /\ ChannelReestablish(disk[p]).type = Re
                      /\ \A d : MessageOK(ChannelReestablish(disk[p]), d, disk[p])
    OBVIOUS
  <2>1. disk[p].local.height \in Nat /\ disk[p].remote.height \in Nat
    BY <1>1, DiskFacts, CommitIndices
  <2> QED
    BY <2>1 DEF ChannelReestablish, AnyMessage, Re, MessageOK
<1>3. /\ scenario' = scenario /\ disk' = disk /\ fees' = fees
      /\ mem' = [p \in Party |-> restoreCommitState(disk[p])]
      /\ net' = [p \in Party |-> <<ChannelReestablish(disk[Other(p)])>>]
      /\ todo' = [p \in Party |-> "none"]
      /\ fault' = [p \in Party |-> IF RestoreFails(disk[p]) THEN "restore" ELSE "none"]
      /\ link' = [p \in Party |-> IF RestoreFails(disk[p]) THEN "failed" ELSE "syncing"]
  BY DEF Reconnect
<1>4. NeverUnsynchronised' /\ DOMAIN fault' = Party
  BY <1>3 DEF NeverUnsynchronised, Unsynchronised
<1>5. \A p \in Party : /\ mem'[p] = restoreCommitState(disk[p])
                       /\ net'[p] = <<ChannelReestablish(disk[Other(p)])>>
                       /\ link'[p] = IF RestoreFails(disk[p]) THEN "failed" ELSE "syncing"
  BY <1>3
<1>6. \A p \in Party : /\ net'[p] \in Seq(AnyMessage) /\ Once(net'[p]) /\ Silent(net'[p])
                       /\ MessagesOK(net'[p], disk[p], disk[Other(p)])
  <2> SUFFICES ASSUME NEW p \in Party
               PROVE  /\ net'[p] \in Seq(AnyMessage) /\ Once(net'[p]) /\ Silent(net'[p])
                      /\ MessagesOK(net'[p], disk[p], disk[Other(p)])
    OBVIOUS
  <2> DEFINE msg == ChannelReestablish(disk[Other(p)])
  <2>1. msg \in AnyMessage /\ msg.type = Re /\ MessageOK(msg, disk[p], disk[Other(p)])
    BY <1>2, PartyFacts
  <2>2. net'[p] = <<msg>>
    BY <1>5
  <2> HIDE DEF msg
  <2>3. Silent(<<msg>>)
    <3>1. 1 .. Len(<<msg>>) = {1} /\ <<msg>>[1] = msg
      OBVIOUS
    <3> QED
      BY <2>1, <3>1 DEF Silent, Re
  <2> QED
    BY <2>1, <2>2, <2>3, OneMessage
<1>7. ChannelTypes'
  <2>1. net' \in [Party -> Seq(AnyMessage)]
    BY <1>3, <1>6
  <2>2. mem' \in [Party -> AnyMemory]
    BY <1>1, <1>3
  <2> QED
    BY <1>0, <1>3, <1>4, <2>1, <2>2 DEF ChannelInv, ChannelTypes
<1>8. RecordInv'
  BY <1>0, <1>1, <1>3, <1>5 DEF RecordInv, ChannelInv
<1>9. AgreeInv'
  BY <1>0, <1>3 DEF AgreeInv, ChannelInv, Other
<1>10. QueueInv'
  <2>1. \A p \in Party : link'[p] # "up" /\ Silent(net'[Other(p)])
    BY <1>5, <1>6, PartyFacts
  <2>2. \A p \in Party : Other(p)' = Other(p)
    BY DEF Other
  <2> QED
    BY <1>3, <1>6, <2>1, <2>2 DEF QueueInv
<1> QED
  BY <1>4, <1>7, <1>8, <1>9, <1>10 DEF ChannelSafe, ChannelInv

LEMMA FirstDiskType ==
    ASSUME scenario \in Scenarios, NEW p \in Party
    PROVE  FirstDisk(p) \in AnyDisk /\ FirstDisk(p).pending = <<>>
           /\ OwnTx(FirstDisk(p).local) = PeerTx(FirstDisk(Other(p)).remote)
<1>1. /\ Balance[p] \in Int /\ Balance[Other(p)] \in Int /\ InitialFee \in Nat /\ Fresh \in BOOLEAN
      /\ Other(Other(p)) = p
  BY ChannelAssumption, PartyFacts DEF Fresh
<1>2. FirstCommit(p, Other(p)) \in AnyCommit
  BY <1>1, FinOne DEF FirstCommit, AnyCommit
<1>3. FirstDisk(p) \in AnyDisk /\ FirstDisk(p).pending = <<>>
  <2>1. {} \in FinSub(AnyUpdate)
    BY FinOne
  <2> QED
    BY <1>1, <1>2, <2>1 DEF FirstDisk, AnyDisk
<1>4. /\ FirstDisk(p).local = FirstCommit(p, Other(p))
      /\ FirstDisk(Other(p)).remote = FirstCommit(Other(p), p)
  BY <1>1 DEF FirstDisk
<1>5. OwnTx(FirstCommit(p, Other(p))) = PeerTx(FirstCommit(Other(p), p))
  BY DEF OwnTx, PeerTx, FirstCommit
<1> QED
  BY <1>3, <1>4, <1>5

LEMMA InitSafe == Init => ChannelSafe
<1> SUFFICES ASSUME Init PROVE ChannelSafe
  OBVIOUS
<1>1. scenario \in Scenarios
  BY DEF Init
<1>2. \A p \in Party : /\ FirstDisk(p) \in AnyDisk /\ FirstDisk(p).pending = <<>>
                       /\ OwnTx(FirstDisk(p).local) = PeerTx(FirstDisk(Other(p)).remote)
                       /\ restoreCommitState(FirstDisk(p)) \in AnyMemory
                       /\ ChainsOf(restoreCommitState(FirstDisk(p)), FirstDisk(p))
  BY <1>1, FirstDiskType, RestoreType
<1>3. /\ disk = [p \in Party |-> FirstDisk(p)]
      /\ mem = [p \in Party |-> restoreCommitState(FirstDisk(p))]
      /\ link = [p \in Party |-> "up"] /\ todo = [p \in Party |-> "none"]
      /\ net = [p \in Party |-> <<>>] /\ fault = [p \in Party |-> "none"] /\ fees = 0
  BY DEF Init
<1>4. ChannelTypes
  BY <1>1, <1>2, <1>3 DEF ChannelTypes
<1>5. RecordInv
  BY <1>2, <1>3 DEF RecordInv, PendingNext
<1>6. AgreeInv
  BY <1>2, <1>3, PartyFacts DEF AgreeInv, Agreed
<1>7. QueueInv
  BY <1>3, NoMessage, PartyFacts DEF QueueInv
<1>8. NeverUnsynchronised
  BY <1>3 DEF NeverUnsynchronised, Unsynchronised
<1> QED
  BY <1>4, <1>5, <1>6, <1>7, <1>8 DEF ChannelSafe, ChannelInv

LEMMA NextSafe == ChannelSafe /\ [Next]_vars => ChannelSafe'
<1> SUFFICES ASSUME ChannelSafe, [Next]_vars PROVE ChannelSafe'
  OBVIOUS
<1>1. ASSUME NEW p \in Party, LinkStep(p) PROVE ChannelSafe'
  BY <1>1, TickSafe, FinishSafe, ReceiveAddSafe, ReceiveRemovalSafe, ReceiveUpdateFeeSafe,
     ReceiveCommitSigSafe, ReceiveRevokeAndAckSafe, ReceiveReestablishSafe DEF LinkStep
<1>2. ASSUME NEW p \in Party, UserStep(p) PROVE ChannelSafe'
  <2>1. UNCHANGED scenario
    BY <1>2 DEF UserStep
  <2>2. CASE \E amt \in Amounts : AddHTLC(p, amt)
    BY <2>1, <2>2, AddSafe
  <2>3. CASE \E htlc \in 0 .. MaxHtlcs[Other(p)] - 1, t \in {"Settle", "Fail"} : RemoveHTLC(p, htlc, t)
    <3>1. PICK htlc \in 0 .. MaxHtlcs[Other(p)] - 1, t \in {"Settle", "Fail"} : RemoveHTLC(p, htlc, t)
      BY <2>3
    <3>2. MaxHtlcs[Other(p)] \in Nat
      BY ScenarioFacts, PartyFacts DEF ChannelSafe
    <3>3. htlc \in Nat
      BY <3>2
    <3> QED
      BY <2>1, <3>1, <3>3, RemoveSafe
  <2>4. CASE \E fee \in FeeRates : UpdateFee(p, fee)
    BY <2>1, <2>4, UpdateFeeSafe
  <2> QED
    BY <1>2, <2>2, <2>3, <2>4 DEF UserStep
<1>3. CASE Reconnect
  BY <1>3, ReconnectSafe
<1>4. CASE UNCHANGED vars
  BY <1>4 DEF vars, ChannelSafe, ChannelInv, ChannelTypes, RecordInv, AgreeInv, QueueInv,
              NeverUnsynchronised, Other
<1> QED
  BY <1>1, <1>2, <1>3, <1>4 DEF Next

LEMMA AlwaysSafe == Spec => []ChannelSafe
BY InitSafe, NextSafe, PTL DEF Spec
-----------------------------------------------------------------------------
(* The theorems. *)

\* In every state the logs, commitments, records and messages are well formed, for any
\* amounts and any number of HTLCs, fee updates and breaks.
THEOREM ChannelTypesAlways == Spec => []ChannelTypes
<1>1. ChannelSafe => ChannelTypes
  BY DEF ChannelSafe, ChannelInv
<1> QED
  BY <1>1, AlwaysSafe, PTL

\* The commitments in memory are always those on disk, at most one waits for its revocation
\* on the remote chain, and what is on its way is still true of both records when it arrives:
\* the inductive invariant behind the exchange of commit_sig, revoke_and_ack and
\* channel_reestablish.
THEOREM ChannelInvariant == Spec => []ChannelInv
<1>1. ChannelSafe => ChannelInv
  BY DEF ChannelSafe
<1> QED
  BY <1>1, AlwaysSafe, PTL

\* The commitment a party would broadcast is always one its peer has on disk as the current or
\* the pending one (LightningChannel.CommitmentsAgree).
THEOREM CommitmentsAgreeAlways == Spec => []CommitmentsAgree
<1>1. ChannelSafe => CommitmentsAgree
  <2> SUFFICES ASSUME ChannelSafe, NEW p \in Party
               PROVE  OwnTx(disk[p].local) \in
                        {PeerTx(c) : c \in {disk[Other(p)].remote} \union PendingOf(disk[Other(p)])}
    BY DEF CommitmentsAgree
  <2> DEFINE d == disk[p]
             e == disk[Other(p)]
  <2>1. Agreed(d, e) /\ e \in AnyDisk
    BY TypeFacts DEF ChannelSafe, ChannelInv, AgreeInv
  <2>2. e.pending # <<>> => e.pending[1].commit \in PendingOf(e)
    <3> SUFFICES ASSUME e.pending # <<>> PROVE e.pending[1].commit \in PendingOf(e)
      OBVIOUS
    <3>1. PICK x \in AnyPending : e.pending = <<x>>
      BY <2>1 DEF AnyDisk
    <3> HIDE DEF e
    <3>2. x \in Range(e.pending) /\ e.pending[1] = x
      BY <3>1 DEF Range
    <3> QED
      BY <3>2 DEF PendingOf
  <2> QED
    BY <2>1, <2>2 DEF Agreed
<1> QED
  BY <1>1, AlwaysSafe, PTL

\* No link fails because a revocation does not fit or because channel_reestablish shows that
\* one of the parties has lost data, whatever the amounts, the fees and the limits are.
THEOREM NeverUnsynchronisedAlways == Spec => []NeverUnsynchronised
<1>1. ChannelSafe => NeverUnsynchronised
  BY DEF ChannelSafe
<1> QED
  BY <1>1, AlwaysSafe, PTL

-----------------------------------------------------------------------------
(* Appending an update to a log. *)

LEMMA UpdateFields ==
    \A u \in AnyUpdate : /\ u.type \in UpdateTypes /\ u.logIndex \in Nat /\ u.htlc \in Nat
                         /\ u.amt \in Nat
                         /\ ~(IsAdd(u) /\ IsRemoval(u))
BY DEF AnyUpdate, IsAdd, IsRemoval

LEMMA TipFacts ==
    ASSUME NEW d \in AnyDisk
    PROVE  /\ d.local \in AnyCommit /\ d.remote \in AnyCommit /\ Tip(d) \in AnyCommit
           /\ DiffOf(d) \in FinSub(AnyUpdate) /\ d.unsignedAcked \in FinSub(AnyUpdate)
           /\ d.remoteUnsignedLocal \in FinSub(AnyUpdate)
<1>1. CASE d.pending = <<>>
  BY <1>1, FinOne DEF AnyDisk, Tip, DiffOf
<1>2. CASE d.pending # <<>>
  <2>1. PICK x \in AnyPending : d.pending = <<x>>
    BY <1>2 DEF AnyDisk
  <2>2. d.pending[1] = x /\ x.commit \in AnyCommit /\ x.updates \in FinSub(AnyUpdate)
    BY <2>1 DEF AnyPending
  <2> QED
    BY <1>2, <2>2 DEF AnyDisk, Tip, DiffOf
<1> QED
  BY <1>1, <1>2

LEMMA AppendDistinct ==
    ASSUME NEW U \in SUBSET AnyUpdate, NEW V, NEW n \in Nat, NEW k \in Nat, NEW u,
           Distinct(U, n, k), Fits(u, U, n, k, V)
    PROVE  Distinct(U \union {u}, n + 1, NextId(u, k))
BY UpdateFields DEF Distinct, Fits, NextId

LEMMA AppendAnswers ==
    ASSUME NEW U \in SUBSET AnyUpdate, NEW V \in SUBSET AnyUpdate, NEW n \in Nat, NEW k \in Nat, NEW u,
           Answers(U, V), Answers(V, U), Fits(u, U, n, k, V)
    PROVE  Answers(U \union {u}, V) /\ Answers(V, U \union {u})
<1>1. Answers(U \union {u}, V)
  BY UpdateFields DEF Answers, Fits
<1>2. Answers(V, U \union {u})
  BY UpdateFields DEF Answers, Fits
<1> QED
  BY <1>1, <1>2

LEMMA AppendHalves ==
    ASSUME NEW U \in SUBSET AnyUpdate, NEW V \in SUBSET AnyUpdate, NEW n \in Nat, NEW k \in Nat, NEW u,
           Distinct(U, n, k), Answers(V, U), Fits(u, U, n, k, V),
           NEW S, NEW a \in Nat, NEW b \in Nat, a <= n
    PROVE  /\ HalfOK(S, U, V, a, b) => HalfOK(S, U \union {u}, V, a, b)
           /\ HalfOK(S, V, U, b, a) => HalfOK(S, V, U \union {u}, b, a)
           /\ Parents(U, V, a, b) => Parents(U \union {u}, V, a, b)
           /\ Parents(V, U, b, a) => Parents(V, U \union {u}, b, a)
<1>1. u.logIndex \in Nat /\ ~(u.logIndex < a)
  BY UpdateFields DEF Fits
<1>2. Live(U \union {u}, V, a, b) = Live(U, V, a, b)
  BY <1>1 DEF Live
<1>3. \A h : Off(U \union {u}, a, h) <=> Off(U, a, h)
  BY <1>1 DEF Off
<1>4. Live(V, U \union {u}, b, a) = Live(V, U, b, a)
  BY <1>3 DEF Live
<1>5. Parents(U, V, a, b) => Parents(U \union {u}, V, a, b)
  <2>1. IsAdd(u) => ~Off(V, b, u.htlc)
    BY UpdateFields DEF Off, Answers, Distinct, Fits
  <2> QED
    BY <2>1 DEF Parents
<1>6. Parents(V, U, b, a) => Parents(V, U \union {u}, b, a)
  BY <1>3 DEF Parents
<1> QED
  BY <1>2, <1>4, <1>5, <1>6 DEF HalfOK

LEMMA AppendOurs ==
    ASSUME NEW d \in AnyDisk, NEW U \in SUBSET AnyUpdate, NEW V \in SUBSET AnyUpdate,
           NEW n \in Nat, NEW k \in Nat, NEW nV \in Nat, NEW kV \in Nat, NEW u,
           UpdatesInv(U, n, k, V, nV, kV, d), Fits(u, U, n, k, V)
    PROVE  UpdatesInv(U \union {u}, n + 1, NextId(u, k), V, nV, kV, d)
<1> DEFINE W == U \union {u}
<1>0. /\ d.local \in AnyCommit /\ d.remote \in AnyCommit /\ Tip(d) \in AnyCommit
  BY TipFacts
<1>1. Distinct(W, n + 1, NextId(u, k)) /\ Distinct(V, nV, kV)
  BY AppendDistinct DEF UpdatesInv
<1>2. Answers(W, V) /\ Answers(V, W)
  BY AppendAnswers DEF UpdatesInv
<1>3. OrderOK(d, n + 1, nV)
  BY <1>0, CommitIndices DEF UpdatesInv, OrderOK
<1>4. CommitsOK(d, W, V)
  <2>1. \A c \in AnyCommit : c.ourMessageIndex <= n /\ CommitOK(c, U, V) => CommitOK(c, W, V)
    <3> SUFFICES ASSUME NEW c \in AnyCommit, c.ourMessageIndex <= n, CommitOK(c, U, V)
                 PROVE  CommitOK(c, W, V)
      OBVIOUS
    <3>1. c.ourMessageIndex \in Nat /\ c.theirMessageIndex \in Nat
      BY CommitIndices
    <3>2. Distinct(U, n, k) /\ Answers(V, U)
      BY DEF UpdatesInv
    <3>3. HalfOK(c.outgoing, W, V, c.ourMessageIndex, c.theirMessageIndex)
      BY <3>1, <3>2, AppendHalves DEF CommitOK
    <3>4. HalfOK(c.incoming, V, W, c.theirMessageIndex, c.ourMessageIndex)
      BY <3>1, <3>2, AppendHalves DEF CommitOK
    <3> QED
      BY <3>3, <3>4 DEF CommitOK
  <2>2. /\ d.local.ourMessageIndex <= n /\ d.remote.ourMessageIndex <= n
        /\ Tip(d).ourMessageIndex <= n
    BY <1>0, CommitIndices DEF UpdatesInv, OrderOK
  <2>3. Parents(V, W, d.remote.theirMessageIndex, Tip(d).ourMessageIndex)
    <3>1. /\ Distinct(U, n, k) /\ Answers(V, U)
          /\ Parents(V, U, d.remote.theirMessageIndex, Tip(d).ourMessageIndex)
      BY DEF UpdatesInv, CommitsOK
    <3>2. d.remote.theirMessageIndex \in Nat /\ Tip(d).ourMessageIndex \in Nat
      BY <1>0, CommitIndices
    <3> QED
      BY <2>2, <3>1, <3>2, AppendHalves
  <2> HIDE DEF W
  <2> QED
    BY <1>0, <2>1, <2>2, <2>3 DEF UpdatesInv, CommitsOK
<1>5. CountsOK(d, W, n + 1, NextId(u, k), V, kV)
  <2>1. /\ d.remote.ourMessageIndex \in Nat /\ d.remote.ourHtlcIndex \in Nat
        /\ Tip(d).ourMessageIndex \in Nat /\ Tip(d).ourHtlcIndex \in Nat
        /\ d.remote.ourMessageIndex <= n /\ Tip(d).ourMessageIndex <= n
        /\ d.remote.ourHtlcIndex <= k /\ Tip(d).ourHtlcIndex <= k
    BY <1>0, CommitIndices DEF UpdatesInv, OrderOK, CountsOK
  <2>2. CountsOK(d, U, n, k, V, kV) /\ u.logIndex = n /\ (IsAdd(u) => u.htlc = k)
    BY DEF UpdatesInv, Fits
  <2>3. \A i \in Nat : d.remote.ourMessageIndex <= i /\ i < n + 1 => \E w \in W : w.logIndex = i
    BY <2>1, <2>2 DEF CountsOK
  <2>4. \A i \in Nat : d.remote.ourHtlcIndex <= i /\ i < NextId(u, k)
            => \E w \in W : IsAdd(w) /\ w.htlc = i
    BY <2>1, <2>2 DEF CountsOK, NextId
  <2>5. \A w \in W : IsAdd(w) =>
        /\ w.logIndex < d.remote.ourMessageIndex <=> w.htlc < d.remote.ourHtlcIndex
        /\ w.logIndex < Tip(d).ourMessageIndex <=> w.htlc < Tip(d).ourHtlcIndex
    BY <2>1, <2>2 DEF CountsOK
  <2>6. d.remote.ourHtlcIndex <= Tip(d).ourHtlcIndex /\ Tip(d).ourHtlcIndex <= NextId(u, k)
    BY <2>1, <2>2 DEF CountsOK, NextId
  <2> HIDE DEF W
  <2> QED
    BY <2>2, <2>3, <2>4, <2>5, <2>6 DEF CountsOK
<1>6. StoredOK(d, W, V)
  <2>1. \A i, j \in Nat : j <= n => Cut(W, i, j) = Cut(U, i, j)
    BY DEF Cut, Fits
  <2>2. /\ d.local.ourMessageIndex \in Nat /\ d.remote.ourMessageIndex \in Nat
        /\ Tip(d).ourMessageIndex \in Nat
        /\ d.remote.ourMessageIndex <= n /\ Tip(d).ourMessageIndex <= n
    BY <1>0, CommitIndices DEF UpdatesInv, OrderOK
  <2> HIDE DEF W
  <2> QED
    BY <2>1, <2>2 DEF UpdatesInv, StoredOK
<1> HIDE DEF W
<1>7. UpdatesInv(W, n + 1, NextId(u, k), V, nV, kV, d)
  BY <1>1, <1>2, <1>3, <1>4, <1>5, <1>6 DEF UpdatesInv
<1> QED
  BY <1>7 DEF W

LEMMA AppendTheirs ==
    ASSUME NEW d \in AnyDisk, NEW U \in SUBSET AnyUpdate, NEW V \in SUBSET AnyUpdate,
           NEW n \in Nat, NEW k \in Nat, NEW nV \in Nat, NEW kV \in Nat, NEW v,
           UpdatesInv(U, n, k, V, nV, kV, d), Fits(v, V, nV, kV, U)
    PROVE  UpdatesInv(U, n, k, V \union {v}, nV + 1, NextId(v, kV), d)
<1> DEFINE W == V \union {v}
<1>0. /\ d.local \in AnyCommit /\ d.remote \in AnyCommit /\ Tip(d) \in AnyCommit
  BY TipFacts
<1>1. Distinct(W, nV + 1, NextId(v, kV)) /\ Distinct(U, n, k)
  BY AppendDistinct DEF UpdatesInv
<1>2. Answers(W, U) /\ Answers(U, W)
  BY AppendAnswers DEF UpdatesInv
<1>3. OrderOK(d, n, nV + 1)
  BY <1>0, CommitIndices DEF UpdatesInv, OrderOK
<1>4. CommitsOK(d, U, W)
  <2>1. \A c \in AnyCommit : c.theirMessageIndex <= nV /\ CommitOK(c, U, V) => CommitOK(c, U, W)
    <3> SUFFICES ASSUME NEW c \in AnyCommit, c.theirMessageIndex <= nV, CommitOK(c, U, V)
                 PROVE  CommitOK(c, U, W)
      OBVIOUS
    <3>1. c.ourMessageIndex \in Nat /\ c.theirMessageIndex \in Nat
      BY CommitIndices
    <3>2. Distinct(V, nV, kV) /\ Answers(U, V)
      BY DEF UpdatesInv
    <3>3. HalfOK(c.outgoing, U, W, c.ourMessageIndex, c.theirMessageIndex)
      BY <3>1, <3>2, AppendHalves DEF CommitOK
    <3>4. HalfOK(c.incoming, W, U, c.theirMessageIndex, c.ourMessageIndex)
      BY <3>1, <3>2, AppendHalves DEF CommitOK
    <3> QED
      BY <3>3, <3>4 DEF CommitOK
  <2>2. /\ d.local.theirMessageIndex <= nV /\ d.remote.theirMessageIndex <= nV
        /\ Tip(d).theirMessageIndex <= nV
    BY <1>0, CommitIndices DEF UpdatesInv, OrderOK
  <2>3. Parents(W, U, d.remote.theirMessageIndex, Tip(d).ourMessageIndex)
    <3>1. /\ Distinct(V, nV, kV) /\ Answers(U, V)
          /\ Parents(V, U, d.remote.theirMessageIndex, Tip(d).ourMessageIndex)
      BY DEF UpdatesInv, CommitsOK
    <3>2. d.remote.theirMessageIndex \in Nat /\ Tip(d).ourMessageIndex \in Nat
      BY <1>0, CommitIndices
    <3> QED
      BY <2>2, <3>1, <3>2, AppendHalves
  <2> HIDE DEF W
  <2> QED
    BY <1>0, <2>1, <2>2, <2>3 DEF UpdatesInv, CommitsOK
<1>5. CountsOK(d, U, n, k, W, NextId(v, kV))
  <2>1. /\ d.local.theirMessageIndex \in Nat /\ d.local.theirHtlcIndex \in Nat
        /\ d.local.theirMessageIndex <= nV /\ d.local.theirHtlcIndex <= kV
    BY <1>0, CommitIndices DEF UpdatesInv, OrderOK, CountsOK
  <2>2. CountsOK(d, U, n, k, V, kV) /\ v.logIndex = nV
    BY DEF UpdatesInv, Fits
  <2>3. \A w \in W : IsAdd(w) /\ w.logIndex < d.local.theirMessageIndex
                        => w.htlc < d.local.theirHtlcIndex
    BY <2>1, <2>2 DEF CountsOK
  <2>4. d.local.theirHtlcIndex <= NextId(v, kV)
    BY <2>1 DEF NextId
  <2> HIDE DEF W
  <2> QED
    BY <2>2, <2>3, <2>4 DEF CountsOK
<1>6. StoredOK(d, U, W)
  <2>1. \A i, j \in Nat : j <= nV => Cut(W, i, j) = Cut(V, i, j)
    BY DEF Cut, Fits
  <2>2. /\ d.local.theirMessageIndex \in Nat /\ d.remote.theirMessageIndex \in Nat
        /\ d.local.theirMessageIndex <= nV
    BY <1>0, CommitIndices DEF UpdatesInv, OrderOK
  <2> HIDE DEF W
  <2> QED
    BY <2>1, <2>2 DEF UpdatesInv, StoredOK
<1> HIDE DEF W
<1>7. UpdatesInv(U, n, k, W, nV + 1, NextId(v, kV), d)
  BY <1>1, <1>2, <1>3, <1>4, <1>5, <1>6 DEF UpdatesInv
<1> QED
  BY <1>7 DEF W
-----------------------------------------------------------------------------
(* A new commitment, and what signing, revoking and advancing do to the updates. *)

LEMMA SignUpdates ==
    ASSUME NEW d \in AnyDisk, NEW U \in SUBSET AnyUpdate, NEW V \in SUBSET AnyUpdate,
           NEW n \in Nat, NEW k \in Nat, NEW nV \in Nat, NEW kV \in Nat,
           UpdatesInv(U, n, k, V, nV, kV, d), d.pending = <<>>,
           NEW c \in AnyCommit, CommitOK(c, U, V), Parents(V, U, d.remote.theirMessageIndex, n),
           c.ourMessageIndex = n, c.ourHtlcIndex = k,
           c.theirMessageIndex = d.local.theirMessageIndex,
           NEW e \in AnyDisk, Tip(e) = c, DiffOf(e) = Cut(U, d.remote.ourMessageIndex, n),
           e.local = d.local, e.remote = d.remote, e.unsignedAcked = d.unsignedAcked,
           e.ackedStored = d.ackedStored, e.remoteUnsignedLocal = d.remoteUnsignedLocal
    PROVE  UpdatesInv(U, n, k, V, nV, kV, e)
<1>0. /\ d.local \in AnyCommit /\ d.remote \in AnyCommit /\ Tip(d) = d.remote
  BY TipFacts DEF Tip
<1>1. CommitsOK(e, U, V)
  BY DEF UpdatesInv, CommitsOK
<1>2. OrderOK(e, n, nV)
  BY <1>0, CommitIndices DEF UpdatesInv, OrderOK
<1>3. CountsOK(e, U, n, k, V, kV)
  BY <1>0, CommitIndices, UpdateFields DEF UpdatesInv, CountsOK, Distinct
<1>4. StoredOK(e, U, V)
  BY DEF UpdatesInv, StoredOK
<1> QED
  BY <1>1, <1>2, <1>3, <1>4 DEF UpdatesInv

LEMMA RevokeUpdates ==
    ASSUME NEW d \in AnyDisk, NEW U \in SUBSET AnyUpdate, NEW V \in SUBSET AnyUpdate,
           NEW n \in Nat, NEW k \in Nat, NEW nV \in Nat, NEW kV \in Nat,
           UpdatesInv(U, n, k, V, nV, kV, d),
           NEW c \in AnyCommit, CommitOK(c, U, V),
           c.ourMessageIndex = d.remote.ourMessageIndex,
           c.theirMessageIndex = nV, c.theirHtlcIndex = kV,
           NEW e \in AnyDisk, e.local = c, e.remote = d.remote, e.pending = d.pending,
           e.unsignedAcked = Cut(V, d.remote.theirMessageIndex, nV), e.ackedStored,
           e.remoteUnsignedLocal = {u \in d.remoteUnsignedLocal : u.logIndex >= c.ourMessageIndex}
    PROVE  UpdatesInv(U, n, k, V, nV, kV, e)
<1>0. /\ d.local \in AnyCommit /\ d.remote \in AnyCommit /\ Tip(e) = Tip(d)
      /\ Tip(d) \in AnyCommit /\ DiffOf(e) = DiffOf(d)
  BY TipFacts DEF Tip, DiffOf
<1>1. CommitsOK(e, U, V)
  BY <1>0 DEF UpdatesInv, CommitsOK
<1>2. OrderOK(e, n, nV)
  BY <1>0, CommitIndices DEF UpdatesInv, OrderOK
<1>3. CountsOK(e, U, n, k, V, kV)
  BY <1>0, CommitIndices, UpdateFields DEF UpdatesInv, CountsOK, Distinct
<1>4. StoredOK(e, U, V)
  <2>1. e.remoteUnsignedLocal = {}
    BY <1>0, CommitIndices, UpdateFields DEF UpdatesInv, StoredOK, Cut
  <2>2. Cut(U, c.ourMessageIndex, d.remote.ourMessageIndex) = {}
    BY <1>0, CommitIndices, UpdateFields DEF Cut
  <2> QED
    BY <1>0, <2>1, <2>2 DEF UpdatesInv, StoredOK
<1> QED
  BY <1>1, <1>2, <1>3, <1>4 DEF UpdatesInv

\* What compactLogs leaves of A, when what is done of A ends at x and of B at y.
Compacted(A, B, x, y) ==
    {u \in A : /\ ~IsAdd(u) => x <= u.logIndex
               /\ IsAdd(u) => ~Off(B, y, u.htlc)}

LEMMA CompactHalf ==
    ASSUME NEW A \in SUBSET AnyUpdate, NEW B \in SUBSET AnyUpdate, NEW S,
           NEW a \in Nat, NEW b \in Nat, NEW x \in Nat, NEW y \in Nat, y <= b,
           HalfOK(S, A, B, a, b)
    PROVE  HalfOK(S, Compacted(A, B, x, y), Compacted(B, A, y, x), a, b)
<1> DEFINE A2 == Compacted(A, B, x, y)
           B2 == Compacted(B, A, y, x)
<1>1. \A u \in A2 : IsAdd(u) => (Off(B2, b, u.htlc) <=> Off(B, b, u.htlc))
  BY UpdateFields DEF Compacted, Off
<1>2. \A u \in A : IsAdd(u) /\ ~Off(B, b, u.htlc) => u \in A2
  BY UpdateFields DEF Compacted, Off
<1>3. A2 \subseteq A
  BY DEF Compacted
<1> HIDE DEF A2, B2
<1>4. Live(A2, B2, a, b) = Live(A, B, a, b)
  BY <1>1, <1>2, <1>3 DEF Live
<1>5. Parents(A2, B2, a, b)
  BY <1>1, <1>3 DEF HalfOK, Parents
<1>6. HalfOK(S, A2, B2, a, b)
  BY <1>4, <1>5 DEF HalfOK
<1> QED
  BY <1>6 DEF A2, B2

LEMMA CompactAnswers ==
    ASSUME NEW A \in SUBSET AnyUpdate, NEW B \in SUBSET AnyUpdate, NEW x \in Nat, NEW y \in Nat,
           Answers(A, B)
    PROVE  Answers(Compacted(A, B, x, y), Compacted(B, A, y, x))
<1> SUFFICES ASSUME NEW u \in Compacted(A, B, x, y), IsRemoval(u)
             PROVE  \E v \in Compacted(B, A, y, x) : IsAdd(v) /\ v.htlc = u.htlc /\ v.amt = u.amt
  BY DEF Answers, Compacted
<1>1. u \in A /\ x <= u.logIndex
  BY UpdateFields DEF Compacted
<1>2. PICK v \in B : IsAdd(v) /\ v.htlc = u.htlc /\ v.amt = u.amt
  BY <1>1 DEF Answers
<1>3. ~Off(A, x, v.htlc)
  BY <1>1, <1>2, UpdateFields DEF Off, Answers
<1> QED
  BY <1>2, <1>3 DEF Compacted

LEMMA AdvanceUpdates ==
    ASSUME NEW d \in AnyDisk, NEW U \in SUBSET AnyUpdate, NEW V \in SUBSET AnyUpdate,
           NEW n \in Nat, NEW k \in Nat, NEW nV \in Nat, NEW kV \in Nat,
           UpdatesInv(U, n, k, V, nV, kV, d),
           NEW e \in AnyDisk, e.local = d.local, e.remote = Tip(d), e.pending = <<>>,
           e.ackedStored = d.ackedStored,
           e.unsignedAcked = IF d.ackedStored
                             THEN {u \in d.unsignedAcked : u.logIndex >= Tip(d).theirMessageIndex}
                             ELSE d.unsignedAcked,
           e.remoteUnsignedLocal =
               IF d.ackedStored
               THEN {u \in Cut(U, d.local.ourMessageIndex, Tip(d).ourMessageIndex) : ~IsAdd(u)}
               ELSE d.remoteUnsignedLocal
    PROVE  LET x == d.local.ourMessageIndex
               y == Tip(d).theirMessageIndex
           IN  UpdatesInv(Compacted(U, V, x, y), n, k, Compacted(V, U, y, x), nV, kV, e)
<1> DEFINE x == d.local.ourMessageIndex
           y == Tip(d).theirMessageIndex
           t == Tip(d)
           U2 == Compacted(U, V, x, y)
           V2 == Compacted(V, U, y, x)
<1>0. /\ d.local \in AnyCommit /\ d.remote \in AnyCommit /\ t \in AnyCommit
      /\ Tip(e) = t /\ DiffOf(e) = {}
  BY TipFacts DEF Tip, DiffOf
<1>1. /\ x \in Nat /\ y \in Nat /\ t.ourMessageIndex \in Nat /\ d.local.theirMessageIndex \in Nat
      /\ t.ourHtlcIndex \in Nat /\ d.remote.ourMessageIndex \in Nat
      /\ d.remote.theirMessageIndex \in Nat /\ d.remote.ourHtlcIndex \in Nat
      /\ x <= t.ourMessageIndex /\ y <= d.local.theirMessageIndex
      /\ d.remote.ourMessageIndex <= t.ourMessageIndex /\ d.remote.theirMessageIndex <= y
  BY <1>0, CommitIndices DEF UpdatesInv, OrderOK
<1>2. U2 \subseteq U /\ V2 \subseteq V
  BY DEF Compacted
<1>3. Distinct(U2, n, k) /\ Distinct(V2, nV, kV)
  <2> HIDE DEF U2, V2
  <2> QED
    BY <1>2 DEF UpdatesInv, Distinct
<1>4. Answers(U2, V2) /\ Answers(V2, U2)
  <2> HIDE DEF x, y
  <2> QED
    BY <1>1, CompactAnswers DEF UpdatesInv
<1>5. CommitsOK(e, U2, V2)
  <2>1. ASSUME NEW c \in {d.local, t} PROVE CommitOK(c, U2, V2)
    <3>1. /\ CommitOK(c, U, V) /\ c.ourMessageIndex \in Nat /\ c.theirMessageIndex \in Nat
          /\ x <= c.ourMessageIndex /\ y <= c.theirMessageIndex
      BY <1>0, <1>1 DEF UpdatesInv, CommitsOK
    <3> HIDE DEF x, y
    <3>2. HalfOK(c.outgoing, U2, V2, c.ourMessageIndex, c.theirMessageIndex)
      BY <1>1, <3>1, CompactHalf DEF CommitOK
    <3>3. HalfOK(c.incoming, V2, U2, c.theirMessageIndex, c.ourMessageIndex)
      BY <1>1, <3>1, CompactHalf DEF CommitOK
    <3> QED
      BY <3>1, <3>2, <3>3 DEF CommitOK
  <2> HIDE DEF U2, V2
  <2>2. CommitOK(t, U2, V2)
    BY <2>1
  <2>3. Parents(V2, U2, t.theirMessageIndex, t.ourMessageIndex)
    BY <2>2 DEF CommitOK, HalfOK
  <2> HIDE DEF t
  <2> QED
    BY <1>0, <2>1, <2>3 DEF CommitsOK, t
<1>6. OrderOK(e, n, nV)
  BY <1>0, CommitIndices DEF UpdatesInv, OrderOK
<1>7. \A u \in U : t.ourMessageIndex <= u.logIndex => u \in U2
  <2>1. Parents(U, V, t.ourMessageIndex, y)
    BY DEF UpdatesInv, CommitsOK, CommitOK, HalfOK
  <2> HIDE DEF x, y, t
  <2> QED
    BY <1>1, <2>1, UpdateFields DEF Parents, Compacted
<1>8. CountsOK(e, U2, n, k, V2, kV)
  <2>1. CountsOK(d, U, n, k, V, kV)
    BY DEF UpdatesInv
  <2>2. \A i \in Nat : t.ourMessageIndex <= i /\ i < n => \E u \in U2 : u.logIndex = i
    <3> HIDE DEF U2, t
    <3> QED
      BY <1>1, <1>7, <2>1, UpdateFields DEF CountsOK
  <2>3. \A i \in Nat : t.ourHtlcIndex <= i /\ i < k => \E u \in U2 : IsAdd(u) /\ u.htlc = i
    <3> SUFFICES ASSUME NEW i \in Nat, t.ourHtlcIndex <= i, i < k
                 PROVE  \E u \in U2 : IsAdd(u) /\ u.htlc = i
      OBVIOUS
    <3> HIDE DEF U2
    <3>1. PICK u \in U : IsAdd(u) /\ u.htlc = i
      BY <1>1, <2>1 DEF CountsOK
    <3>2. t.ourMessageIndex <= u.logIndex
      BY <1>1, <2>1, <3>1, UpdateFields DEF CountsOK
    <3> QED
      BY <1>7, <3>1, <3>2
  <2> HIDE DEF U2, V2
  <2> QED
    BY <1>0, <1>1, <1>2, <2>1, <2>2, <2>3 DEF CountsOK
<1>9. StoredOK(e, U2, V2)
  <2>1. Cut(V2, y, d.local.theirMessageIndex) = Cut(V, y, d.local.theirMessageIndex)
    <3>1. Parents(V, U, y, t.ourMessageIndex)
      BY DEF UpdatesInv, CommitsOK, CommitOK, HalfOK
    <3>2. \A h : Off(U, x, h) => Off(U, t.ourMessageIndex, h)
      BY <1>1, UpdateFields DEF Off
    <3>3. \A v \in V : y <= v.logIndex => v \in V2
      <4> HIDE DEF x, y, t
      <4> QED
        BY <1>1, <3>1, <3>2, UpdateFields DEF Compacted, Parents
    <3> HIDE DEF V2, y
    <3> QED
      BY <1>2, <3>3 DEF Cut
  <2>2. e.unsignedAcked = Cut(V2, y, d.local.theirMessageIndex)
    <3>1. d.unsignedAcked = Cut(V, d.remote.theirMessageIndex, d.local.theirMessageIndex)
      BY DEF UpdatesInv, StoredOK
    <3>2. CASE d.ackedStored
      <4>1. {u \in d.unsignedAcked : u.logIndex >= y} = Cut(V, y, d.local.theirMessageIndex)
        <5> DEFINE x1 == d.remote.theirMessageIndex
                   z == d.local.theirMessageIndex
        <5>1. x1 \in Nat /\ y \in Nat /\ z \in Nat /\ x1 <= y /\ \A u \in V : u.logIndex \in Nat
          BY <1>1, UpdateFields
        <5>2. d.unsignedAcked = Cut(V, x1, z)
          BY <3>1
        <5> HIDE DEF y, x1, z
        <5>3. \A u \in V : (x1 <= u.logIndex /\ u.logIndex < z) /\ u.logIndex >= y
                            <=> y <= u.logIndex /\ u.logIndex < z
          BY <5>1
        <5>4. {u \in Cut(V, x1, z) : u.logIndex >= y} = Cut(V, y, z)
          BY <5>3 DEF Cut
        <5> QED
          BY <5>2, <5>4 DEF z
      <4> QED
        BY <2>1, <3>2, <4>1
    <3>3. CASE ~d.ackedStored
      <4>1. d.local.theirMessageIndex = 0
        BY <3>3 DEF UpdatesInv, StoredOK
      <4>2. d.unsignedAcked = {} /\ Cut(V, y, d.local.theirMessageIndex) = {}
        BY <1>1, <3>1, <4>1, UpdateFields DEF Cut
      <4> QED
        BY <2>1, <3>3, <4>2
    <3> QED
      BY <3>2, <3>3
  <2>3. DiffOf(e) = Cut(U2, t.ourMessageIndex, t.ourMessageIndex)
    BY <1>0, <1>1, <1>2, UpdateFields DEF Cut
  <2>4. \A u \in e.remoteUnsignedLocal : ~IsAdd(u) /\ u \in Cut(U2, x, t.ourMessageIndex)
    <3>1. CASE d.ackedStored
      <4>1. \A u \in Cut(U, x, t.ourMessageIndex) : ~IsAdd(u) => u \in Cut(U2, x, t.ourMessageIndex)
        BY DEF Cut, Compacted
      <4> QED
        BY <3>1, <4>1
    <3>2. CASE ~d.ackedStored
      BY <3>2 DEF UpdatesInv, StoredOK
    <3> QED
      BY <3>1, <3>2
  <2>5. \A u \in Cut(U2, x, t.ourMessageIndex) : IsRemoval(u) => u \in e.remoteUnsignedLocal
    <3> SUFFICES ASSUME NEW u \in Cut(U2, x, t.ourMessageIndex), IsRemoval(u)
                 PROVE  u \in e.remoteUnsignedLocal
      OBVIOUS
    <3>1. u \in Cut(U, x, t.ourMessageIndex) /\ ~IsAdd(u) /\ u \in U
      BY <1>2, UpdateFields DEF Cut
    <3>2. ASSUME ~d.ackedStored PROVE FALSE
      <4>1. d.local.theirMessageIndex = 0 /\ y = 0
        BY <1>1, <3>2 DEF UpdatesInv, StoredOK
      <4>2. PICK v \in V : IsAdd(v) /\ v.htlc = u.htlc
        BY <3>1 DEF UpdatesInv, Answers
      <4>3. Off(U, t.ourMessageIndex, v.htlc)
        BY <3>1, <4>2 DEF Off, Cut
      <4>4. Parents(V, U, y, t.ourMessageIndex)
        BY DEF UpdatesInv, CommitsOK, CommitOK, HalfOK
      <4>5. v.logIndex < 0
        BY <4>1, <4>2, <4>3, <4>4 DEF Parents
      <4> QED
        BY <4>5, UpdateFields
    <3> QED
      BY <3>1, <3>2
  <2>6. ~e.ackedStored => e.local.theirMessageIndex = 0 /\ e.remoteUnsignedLocal = {}
    BY DEF UpdatesInv, StoredOK
  <2> HIDE DEF U2, V2
  <2> QED
    BY <1>0, <2>2, <2>3, <2>4, <2>5, <2>6 DEF StoredOK
<1>10. UpdatesInv(U2, n, k, V2, nV, kV, e)
  <2> HIDE DEF U2, V2
  <2> QED
    BY <1>3, <1>4, <1>5, <1>6, <1>8, <1>9 DEF UpdatesInv
<1> QED
  BY <1>10
-----------------------------------------------------------------------------
(* Restoring the logs from disk. *)

LEMMA CountInterval ==
    ASSUME NEW S, IsFiniteSet(S), NEW a \in Nat, NEW b \in Nat, a <= b, NEW f \in [S -> Nat],
           \A x, y \in S : f[x] = f[y] => x = y,
           \A x \in S : a <= f[x] /\ f[x] < b,
           \A i \in Nat : a <= i /\ i < b => \E x \in S : f[x] = i
    PROVE  Cardinality(S) = b - a
<1>1. f \in Surjection(S, a .. b - 1)
  BY DEF Surjection
<1>2. f \in Injection(S, a .. b - 1)
  BY DEF Injection, IsInjective
<1>3. Cardinality(a .. b - 1) = Cardinality(S)
  BY <1>1, <1>2, FS_Surjection
<1>4. Cardinality(a .. b - 1) = b - a
  BY FS_Interval
<1> QED
  BY <1>3, <1>4

AsAdds(H) == {LogUpdate("Add", h.logIndex, h.htlc, h.amt) : h \in H}
\* The updates that restoreLocalLog and restoreRemoteLog find on disk.
RestoredOurs(d) == AsAdds(d.remote.outgoing) \union DiffOf(d) \union d.remoteUnsignedLocal
RestoredTheirs(d) == AsAdds(d.local.incoming) \union {u \in d.unsignedAcked : ~IsAdd(u)}

LEMMA AddsOfHtlcs ==
    ASSUME NEW A \in SUBSET AnyUpdate, \A u \in A : IsAdd(u)
    PROVE  AsAdds(HtlcsOf(A)) = A
<1>1. \A u \in A : LogUpdate("Add", u.logIndex, u.htlc, u.amt) = u
  BY DEF LogUpdate, AnyUpdate, IsAdd
<1> DEFINE H(u) == [logIndex |-> u.logIndex, htlc |-> u.htlc, amt |-> u.amt]
<1>2. HtlcsOf(A) = {H(u) : u \in A}
  BY DEF HtlcsOf
<1>3. \A u \in A : LogUpdate("Add", H(u).logIndex, H(u).htlc, H(u).amt) = u
  BY <1>1
<1> HIDE DEF H
<1>4. AsAdds(HtlcsOf(A)) = {LogUpdate("Add", H(u).logIndex, H(u).htlc, H(u).amt) : u \in A}
  BY <1>2 DEF AsAdds
<1> QED
  BY <1>3, <1>4

LEMMA RestoredAre ==
    ASSUME NEW d \in AnyDisk, NEW U \in SUBSET AnyUpdate, NEW V \in SUBSET AnyUpdate,
           CommitsOK(d, U, V)
    PROVE  /\ AsAdds(d.remote.outgoing)
                  = Live(U, V, d.remote.ourMessageIndex, d.remote.theirMessageIndex)
           /\ AsAdds(d.local.incoming)
                  = Live(V, U, d.local.theirMessageIndex, d.local.ourMessageIndex)
<1>1. \A a, b : Live(U, V, a, b) \in SUBSET AnyUpdate /\ \A u \in Live(U, V, a, b) : IsAdd(u)
  BY DEF Live
<1>2. \A a, b : Live(V, U, a, b) \in SUBSET AnyUpdate /\ \A u \in Live(V, U, a, b) : IsAdd(u)
  BY DEF Live
<1> QED
  BY <1>1, <1>2, AddsOfHtlcs DEF CommitsOK, CommitOK, HalfOK

\* What the logs hold after a restart, as parts of the logs before it.
IsRestored(U3, V3, U, V, d) ==
    /\ U3 = Live(U, V, d.remote.ourMessageIndex, d.remote.theirMessageIndex)
            \union Cut(U, d.remote.ourMessageIndex, Tip(d).ourMessageIndex)
            \union d.remoteUnsignedLocal
    /\ V3 = Live(V, U, d.local.theirMessageIndex, d.local.ourMessageIndex)
            \union {u \in Cut(V, d.remote.theirMessageIndex, d.local.theirMessageIndex) : ~IsAdd(u)}

Ordered(d) ==
    /\ d.local \in AnyCommit /\ d.remote \in AnyCommit /\ Tip(d) \in AnyCommit
    /\ d.local.ourMessageIndex \in Nat /\ d.remote.ourMessageIndex \in Nat
    /\ Tip(d).ourMessageIndex \in Nat
    /\ d.local.theirMessageIndex \in Nat /\ d.remote.theirMessageIndex \in Nat
    /\ Tip(d).theirMessageIndex \in Nat
    /\ d.remote.ourHtlcIndex \in Nat /\ Tip(d).ourHtlcIndex \in Nat /\ d.local.theirHtlcIndex \in Nat
    /\ d.local.ourMessageIndex <= d.remote.ourMessageIndex
    /\ d.remote.ourMessageIndex <= Tip(d).ourMessageIndex
    /\ d.remote.theirMessageIndex <= Tip(d).theirMessageIndex
    /\ Tip(d).theirMessageIndex <= d.local.theirMessageIndex

LEMMA OrderedFacts ==
    ASSUME NEW d \in AnyDisk, NEW n \in Nat, NEW nV \in Nat, OrderOK(d, n, nV)
    PROVE  Ordered(d)
BY TipFacts, CommitIndices DEF Ordered, OrderOK

LEMMA RestoredOutgoing ==
    ASSUME NEW d \in AnyDisk, NEW U \in SUBSET AnyUpdate, NEW V \in SUBSET AnyUpdate,
           NEW n \in Nat, NEW k \in Nat, NEW nV \in Nat, NEW kV \in Nat,
           UpdatesInv(U, n, k, V, nV, kV, d), NEW U3, NEW V3, IsRestored(U3, V3, U, V, d),
           NEW c \in {d.local, d.remote, Tip(d)}
    PROVE  HalfOK(c.outgoing, U3, V3, c.ourMessageIndex, c.theirMessageIndex)
<1> DEFINE a == c.ourMessageIndex
           b == c.theirMessageIndex
           ra == d.remote.ourMessageIndex
           rb == d.remote.theirMessageIndex
<1>1. Ordered(d)
  BY OrderedFacts DEF UpdatesInv
<1>2. /\ a \in Nat /\ b \in Nat /\ ra \in Nat /\ rb \in Nat /\ rb <= b
      /\ a <= Tip(d).ourMessageIndex /\ b <= d.local.theirMessageIndex
  BY <1>1 DEF Ordered
<1>3. HalfOK(c.outgoing, U, V, a, b) /\ Parents(U, V, ra, rb)
  BY DEF UpdatesInv, CommitsOK, CommitOK, HalfOK
<1>4. \A u \in d.remoteUnsignedLocal : ~IsAdd(u) /\ u \in U
  BY DEF UpdatesInv, StoredOK, Cut
<1>5. U3 \subseteq U /\ V3 \subseteq V
  BY <1>4 DEF IsRestored, Live, Cut
<1>6. \A u \in U : IsAdd(u) /\ u.logIndex < a /\ ~Off(V, b, u.htlc) => u \in U3
  <2>1. \A h : Off(V, rb, h) => Off(V, b, h)
    BY <1>2, UpdateFields DEF Off
  <2> QED
    BY <1>1, <1>2, <2>1, UpdateFields DEF IsRestored, Live, Cut, Ordered
<1>7. \A u \in U3 : IsAdd(u) => ~Off(V, rb, u.htlc)
  BY <1>2, <1>3, <1>4, UpdateFields DEF IsRestored, Live, Parents, Cut
<1>8. \A r \in V : IsRemoval(r) /\ rb <= r.logIndex /\ r.logIndex < b => r \in V3
  BY <1>1, <1>2, UpdateFields DEF IsRestored, Cut, Ordered
<1>9. \A u \in U3 : IsAdd(u) => (Off(V3, b, u.htlc) <=> Off(V, b, u.htlc))
  BY <1>2, <1>5, <1>7, <1>8, UpdateFields DEF Off
<1> HIDE DEF a, b
<1>10. Live(U3, V3, a, b) = Live(U, V, a, b)
  BY <1>5, <1>6, <1>9 DEF Live
<1>11. Parents(U3, V3, a, b)
  BY <1>3, <1>5, <1>9 DEF Parents, HalfOK
<1> QED
  BY <1>3, <1>10, <1>11 DEF HalfOK, a, b

LEMMA RestoredIncoming ==
    ASSUME NEW d \in AnyDisk, NEW U \in SUBSET AnyUpdate, NEW V \in SUBSET AnyUpdate,
           NEW n \in Nat, NEW k \in Nat, NEW nV \in Nat, NEW kV \in Nat,
           UpdatesInv(U, n, k, V, nV, kV, d), NEW U3, NEW V3, IsRestored(U3, V3, U, V, d),
           NEW c \in {d.local, d.remote, Tip(d)}
    PROVE  HalfOK(c.incoming, V3, U3, c.theirMessageIndex, c.ourMessageIndex)
<1> DEFINE a == c.ourMessageIndex
           b == c.theirMessageIndex
           la == d.local.ourMessageIndex
           lb == d.local.theirMessageIndex
<1>1. Ordered(d)
  BY OrderedFacts DEF UpdatesInv
<1>2. /\ a \in Nat /\ b \in Nat /\ la \in Nat /\ lb \in Nat /\ b <= lb /\ la <= a
      /\ a <= Tip(d).ourMessageIndex
  BY <1>1 DEF Ordered
<1>3. HalfOK(c.incoming, V, U, b, a)
  BY DEF UpdatesInv, CommitsOK, CommitOK
<1>4. StoredOK(d, U, V)
  BY DEF UpdatesInv
<1>5. U3 \subseteq U /\ V3 \subseteq V
  BY <1>4 DEF IsRestored, Live, Cut, StoredOK
<1>6. \A v \in V : IsAdd(v) /\ v.logIndex < b /\ ~Off(U, a, v.htlc) => v \in V3
  <2>1. \A h : Off(U, la, h) => Off(U, a, h)
    BY <1>2, UpdateFields DEF Off
  <2> QED
    BY <1>2, <2>1, UpdateFields DEF IsRestored, Live
<1>7. \A v \in V3 : IsAdd(v) => ~Off(U, la, v.htlc)
  BY DEF IsRestored, Live
<1>8. \A r \in U : IsRemoval(r) /\ la <= r.logIndex /\ r.logIndex < a => r \in U3
  BY <1>1, <1>2, <1>4, UpdateFields DEF IsRestored, Cut, Ordered, StoredOK
<1>9. \A v \in V3 : IsAdd(v) => (Off(U3, a, v.htlc) <=> Off(U, a, v.htlc))
  BY <1>2, <1>5, <1>7, <1>8, UpdateFields DEF Off
<1> HIDE DEF a, b
<1>10. Live(V3, U3, b, a) = Live(V, U, b, a)
  BY <1>5, <1>6, <1>9 DEF Live
<1>11. Parents(V3, U3, b, a)
  BY <1>3, <1>5, <1>9 DEF Parents, HalfOK
<1> QED
  BY <1>3, <1>10, <1>11 DEF HalfOK, a, b

LEMMA RestoredAnswers ==
    ASSUME NEW d \in AnyDisk, NEW U \in SUBSET AnyUpdate, NEW V \in SUBSET AnyUpdate,
           NEW n \in Nat, NEW k \in Nat, NEW nV \in Nat, NEW kV \in Nat,
           UpdatesInv(U, n, k, V, nV, kV, d), NEW U3, NEW V3, IsRestored(U3, V3, U, V, d)
    PROVE  Answers(U3, V3) /\ Answers(V3, U3)
<1>1. Ordered(d)
  BY OrderedFacts DEF UpdatesInv
<1>2. StoredOK(d, U, V) /\ Answers(U, V) /\ Answers(V, U)
  BY DEF UpdatesInv
<1>3. U3 \subseteq U /\ V3 \subseteq V
  BY <1>2 DEF IsRestored, Live, Cut, StoredOK
<1>4. ASSUME NEW u \in U3, IsRemoval(u)
      PROVE  \E v \in V3 : IsAdd(v) /\ v.htlc = u.htlc /\ v.amt = u.amt
  <2>1. /\ u \in U /\ d.local.ourMessageIndex <= u.logIndex
        /\ u.logIndex < Tip(d).ourMessageIndex
    BY <1>1, <1>2, <1>3, <1>4, UpdateFields DEF IsRestored, Live, Cut, StoredOK, Ordered
  <2>2. PICK v \in V : IsAdd(v) /\ v.htlc = u.htlc /\ v.amt = u.amt
    BY <1>2, <1>4, <2>1 DEF Answers
  <2>3. Off(U, Tip(d).ourMessageIndex, v.htlc) /\ ~Off(U, d.local.ourMessageIndex, v.htlc)
    BY <1>1, <1>2, <1>4, <2>1, <2>2, UpdateFields DEF Off, Answers, Ordered
  <2>4. v.logIndex < d.local.theirMessageIndex
    <3>1. Parents(V, U, Tip(d).theirMessageIndex, Tip(d).ourMessageIndex)
      BY DEF UpdatesInv, CommitsOK, CommitOK, HalfOK
    <3> QED
      BY <1>1, <2>2, <2>3, <3>1, UpdateFields DEF Parents, Ordered
  <2>5. v \in V3
    BY <2>2, <2>3, <2>4 DEF IsRestored, Live
  <2> QED
    BY <2>2, <2>5
<1>5. ASSUME NEW u \in V3, IsRemoval(u)
      PROVE  \E v \in U3 : IsAdd(v) /\ v.htlc = u.htlc /\ v.amt = u.amt
  <2>1. /\ u \in V /\ d.remote.theirMessageIndex <= u.logIndex
        /\ u.logIndex < d.local.theirMessageIndex
    BY <1>3, <1>5, UpdateFields DEF IsRestored, Live, Cut
  <2>2. PICK v \in U : IsAdd(v) /\ v.htlc = u.htlc /\ v.amt = u.amt
    BY <1>2, <1>5, <2>1 DEF Answers
  <2>3. Off(V, d.local.theirMessageIndex, v.htlc) /\ ~Off(V, d.remote.theirMessageIndex, v.htlc)
    BY <1>1, <1>2, <1>5, <2>1, <2>2, UpdateFields DEF Off, Answers, Ordered
  <2>4. v.logIndex < d.remote.ourMessageIndex
    <3>1. Parents(U, V, d.local.ourMessageIndex, d.local.theirMessageIndex)
      BY DEF UpdatesInv, CommitsOK, CommitOK, HalfOK
    <3> QED
      BY <1>1, <2>2, <2>3, <3>1, UpdateFields DEF Parents, Ordered
  <2>5. v \in U3
    BY <2>2, <2>3, <2>4 DEF IsRestored, Live
  <2> QED
    BY <2>2, <2>5
<1> QED
  BY <1>2, <1>3, <1>4, <1>5 DEF Answers

LEMMA RestoreUpdates ==
    ASSUME NEW d \in AnyDisk, NEW U \in SUBSET AnyUpdate, NEW V \in SUBSET AnyUpdate,
           NEW n \in Nat, NEW k \in Nat, NEW nV \in Nat, NEW kV \in Nat,
           UpdatesInv(U, n, k, V, nV, kV, d)
    PROVE  /\ IsRestored(RestoredOurs(d), RestoredTheirs(d), U, V, d)
           /\ UpdatesInv(RestoredOurs(d), Tip(d).ourMessageIndex, Tip(d).ourHtlcIndex,
                  RestoredTheirs(d), d.local.theirMessageIndex, d.local.theirHtlcIndex, d)
<1> DEFINE U3 == RestoredOurs(d)
           V3 == RestoredTheirs(d)
           t == Tip(d)
<1>1. Ordered(d)
  BY OrderedFacts DEF UpdatesInv
<1>2. StoredOK(d, U, V) /\ CountsOK(d, U, n, k, V, kV)
  BY DEF UpdatesInv
<1>3. IsRestored(U3, V3, U, V, d)
  BY <1>2, RestoredAre DEF IsRestored, RestoredOurs, RestoredTheirs, UpdatesInv, StoredOK
<1> HIDE DEF U3, V3
<1>4. U3 \subseteq U /\ V3 \subseteq V
  BY <1>2, <1>3 DEF IsRestored, Live, Cut, StoredOK
<1>5. \A u \in U3 : u.logIndex < t.ourMessageIndex /\ (IsAdd(u) => u.htlc < t.ourHtlcIndex)
  <2>1. \A u \in U3 : u.logIndex < t.ourMessageIndex
    BY <1>1, <1>2, <1>3, UpdateFields DEF IsRestored, Live, Cut, StoredOK, Ordered
  <2> QED
    BY <1>2, <1>4, <2>1 DEF CountsOK
<1>6. \A v \in V3 : v.logIndex < d.local.theirMessageIndex /\ (IsAdd(v) => v.htlc < d.local.theirHtlcIndex)
  <2>1. \A v \in V3 : v.logIndex < d.local.theirMessageIndex
    BY <1>3 DEF IsRestored, Live, Cut
  <2> QED
    BY <1>2, <1>4, <2>1 DEF CountsOK
<1>7. Distinct(U3, t.ourMessageIndex, t.ourHtlcIndex)
      /\ Distinct(V3, d.local.theirMessageIndex, d.local.theirHtlcIndex)
  BY <1>4, <1>5, <1>6 DEF UpdatesInv, Distinct
<1>8. Answers(U3, V3) /\ Answers(V3, U3)
  BY <1>3, RestoredAnswers
<1>9. CommitsOK(d, U3, V3)
  <2>1. \A c \in {d.local, d.remote, t} : CommitOK(c, U, V)
    BY DEF UpdatesInv, CommitsOK
  <2>2. \A c \in {d.local, d.remote, t} :
            HalfOK(c.outgoing, U3, V3, c.ourMessageIndex, c.theirMessageIndex)
    BY <1>3, RestoredOutgoing
  <2>3. \A c \in {d.local, d.remote, t} :
            HalfOK(c.incoming, V3, U3, c.theirMessageIndex, c.ourMessageIndex)
    BY <1>3, RestoredIncoming
  <2> HIDE DEF t
  <2>4. \A c \in {d.local, d.remote, t} : CommitOK(c, U3, V3)
    BY <2>1, <2>2, <2>3 DEF CommitOK
  <2> QED
    <3>1. Parents(V, U, d.remote.theirMessageIndex, Tip(d).ourMessageIndex)
      BY DEF UpdatesInv, CommitsOK
    <3>2. Parents(V3, U3, d.remote.theirMessageIndex, Tip(d).ourMessageIndex)
      BY <1>4, <3>1 DEF Parents, Off
    <3> QED
      BY <2>4, <3>2 DEF CommitsOK, t
<1>10. OrderOK(d, t.ourMessageIndex, d.local.theirMessageIndex)
  BY <1>1 DEF OrderOK, Ordered
<1>11. \A u \in U : d.remote.ourMessageIndex <= u.logIndex /\ u.logIndex < t.ourMessageIndex => u \in U3
  BY <1>3 DEF IsRestored, Cut
<1>12. CountsOK(d, U3, t.ourMessageIndex, t.ourHtlcIndex, V3, d.local.theirHtlcIndex)
  <2>0. t.ourMessageIndex <= n
    BY DEF UpdatesInv, OrderOK
  <2>1. \A i \in Nat : d.remote.ourMessageIndex <= i /\ i < t.ourMessageIndex => \E u \in U3 : u.logIndex = i
    BY <1>1, <1>2, <1>11, <2>0 DEF CountsOK, Ordered
  <2>2. \A i \in Nat : d.remote.ourHtlcIndex <= i /\ i < t.ourHtlcIndex => \E u \in U3 : IsAdd(u) /\ u.htlc = i
    <3> SUFFICES ASSUME NEW i \in Nat, d.remote.ourHtlcIndex <= i, i < t.ourHtlcIndex
                 PROVE  \E u \in U3 : IsAdd(u) /\ u.htlc = i
      OBVIOUS
    <3>1. PICK u \in U : IsAdd(u) /\ u.htlc = i
      BY <1>1, <1>2 DEF CountsOK, Ordered
    <3>2. d.remote.ourMessageIndex <= u.logIndex /\ u.logIndex < t.ourMessageIndex
      BY <1>1, <1>2, <3>1, UpdateFields DEF CountsOK, Ordered
    <3> QED
      BY <1>11, <3>1, <3>2
  <2>3. /\ d.remote.ourHtlcIndex <= t.ourHtlcIndex /\ t.ourHtlcIndex <= t.ourHtlcIndex
        /\ d.local.theirHtlcIndex <= d.local.theirHtlcIndex
    BY <1>1, <1>2 DEF CountsOK, Ordered
  <2> QED
    BY <1>2, <1>4, <2>1, <2>2, <2>3 DEF CountsOK
<1>13. StoredOK(d, U3, V3)
  <2>1. Cut(V3, d.remote.theirMessageIndex, d.local.theirMessageIndex)
            = Cut(V, d.remote.theirMessageIndex, d.local.theirMessageIndex)
    <3>1. Parents(V, U, d.remote.theirMessageIndex, d.remote.ourMessageIndex)
      BY DEF UpdatesInv, CommitsOK, CommitOK, HalfOK
    <3>2. \A h : Off(U, d.local.ourMessageIndex, h) => Off(U, d.remote.ourMessageIndex, h)
      BY <1>1, UpdateFields DEF Off, Ordered
    <3>3. \A v \in V : d.remote.theirMessageIndex <= v.logIndex
                       /\ v.logIndex < d.local.theirMessageIndex => v \in V3
      <4> SUFFICES ASSUME NEW v \in V, d.remote.theirMessageIndex <= v.logIndex,
                          v.logIndex < d.local.theirMessageIndex
                   PROVE  v \in V3
        OBVIOUS
      <4>1. CASE ~IsAdd(v)
        BY <1>3, <4>1 DEF IsRestored, Cut
      <4>2. CASE IsAdd(v)
        <5>1. ~Off(U, d.local.ourMessageIndex, v.htlc)
          BY <1>1, <3>1, <3>2, <4>2, UpdateFields DEF Parents, Ordered
        <5> QED
          BY <1>3, <4>2, <5>1 DEF IsRestored, Live
      <4> QED
        BY <4>1, <4>2
    <3> QED
      BY <1>4, <3>3 DEF Cut
  <2>2. Cut(U3, d.remote.ourMessageIndex, t.ourMessageIndex)
            = Cut(U, d.remote.ourMessageIndex, t.ourMessageIndex)
    BY <1>4, <1>11 DEF Cut
  <2>3. \A u \in d.remoteUnsignedLocal :
          ~IsAdd(u) /\ u \in Cut(U3, d.local.ourMessageIndex, d.remote.ourMessageIndex)
    BY <1>2, <1>3 DEF IsRestored, StoredOK, Cut
  <2>4. \A u \in Cut(U3, d.local.ourMessageIndex, d.remote.ourMessageIndex) :
          IsRemoval(u) => u \in d.remoteUnsignedLocal
    BY <1>2, <1>4 DEF StoredOK, Cut
  <2> QED
    BY <1>2, <2>1, <2>2, <2>3, <2>4 DEF StoredOK
<1>14. UpdatesInv(U3, t.ourMessageIndex, t.ourHtlcIndex, V3, d.local.theirMessageIndex,
                  d.local.theirHtlcIndex, d)
  BY <1>7, <1>8, <1>9, <1>10, <1>12, <1>13 DEF UpdatesInv
<1> QED
  BY <1>3, <1>14 DEF U3, V3, t

LEMMA RemovedIs == \A S, h : h \in Removed(S) <=> \E r \in S : IsRemoval(r) /\ r.htlc = h
BY DEF Removed

LEMMA AddsIs == \A S : Adds(S) = {u \in S : IsAdd(u)}
BY DEF Adds, IsAdd

\* The counts that restoreLocalLog takes from the pending updates.
LEMMA DiffCounts ==
    ASSUME NEW d \in AnyDisk, NEW U \in SUBSET AnyUpdate, NEW V \in SUBSET AnyUpdate,
           NEW n \in Nat, NEW k \in Nat, NEW nV \in Nat, NEW kV \in Nat,
           UpdatesInv(U, n, k, V, nV, kV, d)
    PROVE  /\ d.remote.ourMessageIndex + Cardinality(DiffOf(d)) = Tip(d).ourMessageIndex
           /\ d.remote.ourHtlcIndex + Cardinality(Adds(DiffOf(d))) = Tip(d).ourHtlcIndex
           /\ \A u \in Adds(DiffOf(d)) :
                u.htlc = d.remote.ourHtlcIndex
                            + Cardinality({x \in Adds(DiffOf(d)) : x.logIndex < u.logIndex})
<1> DEFINE D == DiffOf(d)
           ra == d.remote.ourMessageIndex
           ta == Tip(d).ourMessageIndex
           rh == d.remote.ourHtlcIndex
           th == Tip(d).ourHtlcIndex
<1>1. Ordered(d)
  BY OrderedFacts DEF UpdatesInv
<1>2. /\ ra \in Nat /\ ta \in Nat /\ rh \in Nat /\ th \in Nat /\ ra <= ta /\ ta <= n
      /\ rh <= th /\ th <= k
  BY <1>1 DEF Ordered, UpdatesInv, CountsOK, OrderOK
<1>3. D = Cut(U, ra, ta) /\ CountsOK(d, U, n, k, V, kV) /\ Distinct(U, n, k)
  BY DEF UpdatesInv, StoredOK
<1>4. D \in FinSub(AnyUpdate) /\ IsFiniteSet(D) /\ D \subseteq AnyUpdate
  BY TipFacts DEF FinSub
<1>5. Adds(D) \subseteq D /\ \A u \in Adds(D) : IsAdd(u)
  BY AddsIs
<1> HIDE DEF D
<1>6. \A T : T \subseteq D => IsFiniteSet(T)
  BY <1>4, FS_Subset
<1>7. Cardinality(D) = ta - ra
  <2> DEFINE f == [u \in D |-> u.logIndex]
  <2>1. f \in [D -> Nat] /\ \A u \in D : f[u] = u.logIndex
    BY <1>4, UpdateFields
  <2>2. \A x, y \in D : f[x] = f[y] => x = y
    BY <1>3, <2>1 DEF Distinct, Cut
  <2>3. \A x \in D : ra <= f[x] /\ f[x] < ta
    BY <1>3, <2>1 DEF Cut
  <2>4. \A i \in Nat : ra <= i /\ i < ta => \E x \in D : f[x] = i
    BY <1>2, <1>3, <2>1 DEF Cut, CountsOK
  <2> HIDE DEF f, ra, ta
  <2> QED
    BY <1>2, <1>4, <2>1, <2>2, <2>3, <2>4, CountInterval
<1>8. ASSUME NEW m \in Nat, rh <= m, m <= th, NEW T, T = {u \in Adds(D) : u.htlc < m}
      PROVE  Cardinality(T) = m - rh
  <2> DEFINE f == [u \in T |-> u.htlc]
  <2>0. T \subseteq D /\ \A u \in T : IsAdd(u) /\ u.htlc \in Nat /\ u.logIndex \in Nat
    BY <1>4, <1>5, <1>8, UpdateFields
  <2>1. f \in [T -> Nat] /\ \A u \in T : f[u] = u.htlc
    BY <2>0
  <2>2. \A x, y \in T : f[x] = f[y] => x = y
    BY <1>3, <2>0, <2>1 DEF Distinct, Cut
  <2>3. \A x \in T : rh <= f[x] /\ f[x] < m
    BY <1>2, <1>3, <1>8, <2>0, <2>1, UpdateFields DEF Cut, CountsOK
  <2>4. \A i \in Nat : rh <= i /\ i < m => \E x \in T : f[x] = i
    <3> SUFFICES ASSUME NEW i \in Nat, rh <= i, i < m PROVE \E x \in T : f[x] = i
      OBVIOUS
    <3>1. PICK u \in U : IsAdd(u) /\ u.htlc = i
      BY <1>2, <1>3, <1>8 DEF CountsOK
    <3>2. u \in D
      BY <1>2, <1>3, <1>8, <3>1, UpdateFields DEF Cut, CountsOK
    <3>3. u \in T
      BY <1>8, <3>1, <3>2, AddsIs
    <3> QED
      BY <2>1, <3>1, <3>3
  <2>5. IsFiniteSet(T)
    BY <1>6, <2>0
  <2>6. rh \in Nat /\ m \in Nat /\ rh <= m /\ f \in [T -> Nat]
    <3> HIDE DEF f, rh, th
    <3> QED
      BY <1>2, <1>8, <2>1
  <2> HIDE DEF f, rh, th
  <2> QED
    BY <2>2, <2>3, <2>4, <2>5, <2>6, CountInterval, ZenonT(30)
<1>9. Cardinality(Adds(D)) = th - rh
  <2>1. Adds(D) = {u \in Adds(D) : u.htlc < th}
    BY <1>2, <1>3, <1>5, UpdateFields DEF Cut, CountsOK
  <2> HIDE DEF rh, th
  <2> QED
    BY <1>2, <1>8, <2>1
<1>10. ASSUME NEW u \in Adds(D)
       PROVE  u.htlc = rh + Cardinality({x \in Adds(D) : x.logIndex < u.logIndex})
  <2>1. {x \in Adds(D) : x.logIndex < u.logIndex} = {x \in Adds(D) : x.htlc < u.htlc}
    BY <1>3, <1>5 DEF Distinct, Cut
  <2>2. u.htlc \in Nat /\ rh <= u.htlc /\ u.htlc <= th
    BY <1>2, <1>3, <1>4, <1>5, UpdateFields DEF Cut, CountsOK
  <2>3. Cardinality({x \in Adds(D) : x.htlc < u.htlc}) = u.htlc - rh
    BY <1>8, <2>2
  <2>4. Cardinality({x \in Adds(D) : x.logIndex < u.logIndex}) = u.htlc - rh
    BY <2>1, <2>3
  <2> HIDE DEF rh, th
  <2> QED
    BY <1>2, <2>2, <2>4
<1> QED
  BY <1>2, <1>7, <1>9, <1>10 DEF D

LEMMA NeverPanics ==
    ASSUME NEW d \in AnyDisk, NEW U \in SUBSET AnyUpdate, NEW V \in SUBSET AnyUpdate,
           NEW n \in Nat, NEW k \in Nat, NEW nV \in Nat, NEW kV \in Nat,
           UpdatesInv(U, n, k, V, nV, kV, d)
    PROVE  ~RestoreFails(d)
<1> DEFINE D == DiffOf(d)
           first == d.remote.ourMessageIndex
           U3 == RestoredOurs(d)
           V3 == RestoredTheirs(d)
           ours  == {h.htlc : h \in d.remote.outgoing} \union {u.htlc : u \in Adds(D)}
           theirs == {h.htlc : h \in d.local.incoming}
<1>1. Ordered(d) /\ StoredOK(d, U, V) /\ CountsOK(d, U, n, k, V, kV)
  BY OrderedFacts DEF UpdatesInv
<1>2. {u.logIndex : u \in D} = first .. (first + Cardinality(D) - 1)
  <2>1. first + Cardinality(D) = Tip(d).ourMessageIndex
    BY DiffCounts
  <2>2. \A u \in D : u.logIndex \in Nat /\ first <= u.logIndex /\ u.logIndex < Tip(d).ourMessageIndex
    BY <1>1, UpdateFields DEF StoredOK, Cut
  <2>3. \A i \in Nat : first <= i /\ i < Tip(d).ourMessageIndex => \E u \in D : u.logIndex = i
    BY <1>1 DEF StoredOK, Cut, CountsOK, Ordered, UpdatesInv, OrderOK
  <2> HIDE DEF D
  <2>4. {u.logIndex : u \in D} = first .. (Tip(d).ourMessageIndex - 1)
    BY <1>1, <2>2, <2>3 DEF Ordered
  <2> DEFINE last == first + Cardinality(D) - 1
  <2>5. last = Tip(d).ourMessageIndex - 1
    <3>1. Cardinality(D) \in Nat /\ first \in Nat
      BY <1>1, TipFacts, FS_CardinalityType DEF D, FinSub, Ordered
    <3> QED
      BY <2>1, <3>1
  <2> HIDE DEF last
  <2>6. {u.logIndex : u \in D} = first .. last
    BY <2>4, <2>5
  <2> QED
    BY <2>6 DEF last
<1>3. \A u \in Adds(D) : u.htlc = d.remote.ourHtlcIndex
                            + Cardinality({x \in Adds(D) : x.logIndex < u.logIndex})
  BY DiffCounts
<1>4. Answers(U3, V3) /\ Answers(V3, U3)
  BY RestoreUpdates DEF UpdatesInv
<1>5. \A h : h \in Removed(D) \union Removed(d.remoteUnsignedLocal) => h \in theirs
  <2> SUFFICES ASSUME NEW u \in D \union d.remoteUnsignedLocal, IsRemoval(u)
               PROVE  u.htlc \in theirs
    BY RemovedIs
  <2>1. PICK v \in V3 : IsAdd(v) /\ v.htlc = u.htlc
    BY <1>4 DEF Answers, RestoredOurs
  <2>2. v \in AsAdds(d.local.incoming)
    BY <2>1 DEF RestoredTheirs
  <2> QED
    BY <2>1, <2>2 DEF AsAdds, LogUpdate
<1>6. \A h : h \in Removed(d.unsignedAcked) => h \in ours
  <2> SUFFICES ASSUME NEW u \in d.unsignedAcked, IsRemoval(u)
               PROVE  u.htlc \in ours
    BY RemovedIs
  <2>1. PICK v \in U3 : IsAdd(v) /\ v.htlc = u.htlc
    BY <1>4 DEF Answers, RestoredTheirs, IsAdd, IsRemoval
  <2>2. v \in AsAdds(d.remote.outgoing) \/ v \in Adds(D)
    BY <1>1, <2>1, AddsIs DEF RestoredOurs, StoredOK
  <2> QED
    BY <2>1, <2>2 DEF AsAdds, LogUpdate
<1>7. \A u \in d.unsignedAcked : ~(u.logIndex >= d.local.theirMessageIndex)
  BY <1>1, UpdateFields DEF StoredOK, Cut, Ordered
<1> HIDE DEF D, ours, theirs
<1> QED
  BY <1>2, <1>3, <1>5, <1>6, <1>7 DEF RestoreFails, D, ours, theirs
-----------------------------------------------------------------------------
(* The entries of the logs. *)

LEMMA UpsFacts ==
    ASSUME NEW S \in SUBSET AnyEntry
    PROVE  /\ Ups(S) \subseteq AnyUpdate
           /\ \A e \in S : /\ Update(e) \in Ups(S) /\ Update(e) \in AnyUpdate
                           /\ Update(e).type = e.type /\ Update(e).logIndex = e.logIndex
                           /\ Update(e).htlc = e.htlc /\ Update(e).amt = e.amt
                           /\ IsAdd(Update(e)) <=> IsAdd(e)
                           /\ IsRemoval(Update(e)) <=> IsRemoval(e)
           /\ \A u \in Ups(S) : \E e \in S : u = Update(e)
<1>1. \A e \in S : /\ Update(e).type = e.type /\ Update(e).logIndex = e.logIndex
                   /\ Update(e).htlc = e.htlc /\ Update(e).amt = e.amt
                   /\ Update(e) \in AnyUpdate
  BY EntryFacts DEF Update, LogUpdate, AnyUpdate
<1> QED
  BY <1>1 DEF Ups, IsAdd, IsRemoval

LEMMA UpsType == \A S \in FinSub(AnyEntry) : Ups(S) \in FinSub(AnyUpdate) /\ Ups(S) \in SUBSET AnyUpdate
BY UpdatesType DEF Ups, FinSub

LEMMA RemovedUps == ASSUME NEW S \in SUBSET AnyEntry PROVE Removed(Ups(S)) = Removed(S)
<1>1. \A h : h \in Removed(Ups(S)) <=> h \in Removed(S)
  BY UpsFacts, RemovedIs
<1> QED
  BY <1>1 DEF Removed

LEMMA EntryFields ==
    \A e \in AnyEntry : /\ e.type \in UpdateTypes /\ e.logIndex \in Nat /\ e.htlc \in Nat
                        /\ e.amt \in Nat
                        /\ \A c \in Chains : e.add[c] \in Nat /\ e.rm[c] \in Nat /\ Marks(e)[c] \in Nat
                        /\ ~(IsAdd(e) /\ IsRemoval(e))
                        /\ IsAdd(e) \/ IsRemoval(e) \/ e.type = "FeeUpdate"
BY EntryFacts DEF Marks, IsAdd, IsRemoval, UpdateTypes

\* An entry nobody has signed for.
LEMMA NewEntry ==
    ASSUME NEW u \in AnyUpdate
    PROVE  LET e == Entry(u, NoHeight, NoHeight)
           IN  /\ e \in AnyEntry /\ Update(e) = u /\ e.logIndex = u.logIndex /\ e.htlc = u.htlc
               /\ Shape(e) /\ \A c \in Chains : Marks(e)[c] = 0
               /\ IsAdd(e) <=> IsAdd(u)
               /\ IsRemoval(e) <=> IsRemoval(u)
<1>1. NoHeight \in [Chains -> Nat] /\ \A c \in Chains : NoHeight[c] = 0
  BY DEF NoHeight
<1>2. u = LogUpdate(u.type, u.logIndex, u.htlc, u.amt)
  BY UpdateFields DEF AnyUpdate, LogUpdate
<1> QED
  BY <1>1, <1>2 DEF Entry, AnyEntry, Update, AnyUpdate, Shape, Marks, IsAdd, IsRemoval

LEMMA AppendEntries ==
    ASSUME NEW S \in SUBSET AnyEntry, Entries(S), NEW e \in AnyEntry, Shape(e), NEW n \in Nat,
           e.logIndex = n, \A f \in S : f.logIndex < n, \A c \in Chains : Marks(e)[c] = 0
    PROVE  /\ Entries(S \union {e})
           /\ \A c \in Chains : \A i, h, j, t \in Nat :
                i <= j /\ j <= n /\ Marked(S, c, i, h, j, t) => Marked(S \union {e}, c, i, h, j, t)
<1>1. Entries(S \union {e})
  BY EntryFields DEF Entries
<1>2. \A c \in Chains : \A i, h, j, t \in Nat :
          i <= j /\ j <= n /\ Marked(S, c, i, h, j, t) => Marked(S \union {e}, c, i, h, j, t)
  BY DEF Marked
<1> QED
  BY <1>1, <1>2

Logs(ours, theirs, d) == ours \in AnyLog /\ theirs \in AnyLog /\ d \in AnyDisk /\ LogsInv(ours, theirs, d)

LEMMA LogFields ==
    \A log \in AnyLog : /\ log.entries \in FinSub(AnyEntry) /\ log.entries \in SUBSET AnyEntry
                        /\ log.logIndex \in Nat /\ log.htlcCounter \in Nat
                        /\ Ups(log.entries) \in SUBSET AnyUpdate
                        /\ Ups(log.entries) \in FinSub(AnyUpdate)
BY UpsType DEF AnyLog, FinSub

LEMMA AppendedFacts ==
    ASSUME NEW log \in AnyLog, NEW u \in AnyUpdate, NEW new, Appended(log, u, new)
    PROVE  /\ Ups(new.entries) = Ups(log.entries) \union {u}
           /\ Removed(new.entries) = Removed(log.entries) \union (IF IsRemoval(u) THEN {u.htlc} ELSE {})
<1> DEFINE e == Entry(u, NoHeight, NoHeight)
<1>1. new.entries = log.entries \union {e} /\ Update(e) = u /\ e.htlc = u.htlc
      /\ (IsRemoval(e) <=> IsRemoval(u))
  BY NewEntry DEF Appended
<1> HIDE DEF e
<1>2. Ups(new.entries) = Ups(log.entries) \union {u}
  BY <1>1 DEF Ups
<1>3. \A h : h \in Removed(new.entries)
            <=> h \in Removed(log.entries) \union (IF IsRemoval(u) THEN {u.htlc} ELSE {})
  BY <1>1, RemovedIs
<1> QED
  BY <1>2, <1>3

LEMMA AppendOursLog ==
    ASSUME NEW ours, NEW theirs, NEW d, Logs(ours, theirs, d), NEW u, NEW ours2, NEW theirs2,
           Fits(u, Ups(ours.entries), ours.logIndex, ours.htlcCounter, Ups(theirs.entries)),
           Appended(ours, u, ours2), Touched(theirs, u, theirs2)
    PROVE  LogsInv(ours2, theirs2, d)
<1> DEFINE e == Entry(u, NoHeight, NoHeight)
<1>1. /\ ours \in AnyLog /\ theirs \in AnyLog /\ d \in AnyDisk /\ u \in AnyUpdate
      /\ LogsInv(ours, theirs, d)
  BY DEF Logs, Fits
<1>2. UpdatesInv(Ups(ours2.entries), ours2.logIndex, ours2.htlcCounter,
                 Ups(theirs2.entries), theirs2.logIndex, theirs2.htlcCounter, d)
  <2>1. UpdatesInv(Ups(ours.entries) \union {u}, ours.logIndex + 1, NextId(u, ours.htlcCounter),
                   Ups(theirs.entries), theirs.logIndex, theirs.htlcCounter, d)
    BY <1>1, LogFields, AppendOurs DEF LogsInv
  <2>2. Ups(ours2.entries) = Ups(ours.entries) \union {u}
    BY <1>1, AppendedFacts
  <2> QED
    BY <2>1, <2>2 DEF Appended, Touched
<1>3. Ordered(d) /\ Tip(d).ourMessageIndex <= ours.logIndex /\ d.local.height \in Nat
      /\ d.remote.height \in Nat /\ Tip(d).height \in Nat
  <2>1. OrderOK(d, ours.logIndex, theirs.logIndex)
    BY <1>1 DEF LogsInv, UpdatesInv
  <2>2. Ordered(d)
    BY <1>1, <2>1, LogFields, OrderedFacts
  <2> QED
    BY <2>1, <2>2, CommitIndices DEF OrderOK, Ordered
<1>4. EntriesInv(ours2.entries, theirs2.entries, d)
  <2>1. /\ e \in AnyEntry /\ Shape(e) /\ e.logIndex = ours.logIndex
        /\ \A c \in Chains : Marks(e)[c] = 0
    BY <1>1, NewEntry DEF Fits
  <2>2. \A f \in ours.entries : f.logIndex < ours.logIndex
    BY <1>1, LogFields, UpsFacts DEF LogsInv, UpdatesInv, Distinct
  <2>3. EntriesInv(ours.entries, theirs.entries, d) /\ Entries(ours.entries)
    BY <1>1 DEF LogsInv, EntriesInv
  <2>4. ours2.entries = ours.entries \union {e} /\ theirs2.entries = theirs.entries
    BY DEF Appended, Touched
  <2> HIDE DEF e
  <2>5. /\ Entries(ours2.entries)
        /\ \A c \in Chains : \A i, h, j, t \in Nat :
             i <= j /\ j <= ours.logIndex /\ Marked(ours.entries, c, i, h, j, t)
                => Marked(ours2.entries, c, i, h, j, t)
    <3>1. ours.entries \in SUBSET AnyEntry /\ ours.logIndex \in Nat
      BY <1>1, LogFields
    <3>2. /\ Entries(ours.entries \union {e})
          /\ \A c \in Chains : \A i, h, j, t \in Nat :
               i <= j /\ j <= ours.logIndex /\ Marked(ours.entries, c, i, h, j, t)
                  => Marked(ours.entries \union {e}, c, i, h, j, t)
      BY <2>1, <2>2, <2>3, <3>1, AppendEntries
    <3> QED
      BY <2>4, <3>2
  <2>6. /\ d.local.ourMessageIndex \in Nat /\ d.local.ourMessageIndex <= ours.logIndex
        /\ d.local.ourMessageIndex <= d.local.ourMessageIndex
        /\ d.remote.ourMessageIndex \in Nat /\ Tip(d).ourMessageIndex \in Nat
        /\ d.remote.ourMessageIndex <= Tip(d).ourMessageIndex
        /\ "local" \in Chains /\ "remote" \in Chains /\ ours.logIndex \in Nat
    BY <1>1, <1>3, LogFields DEF Ordered, Chains
  <2> QED
    BY <1>3, <2>3, <2>4, <2>5, <2>6 DEF EntriesInv
<1>5. ours2.modified = Removed(theirs2.entries) /\ theirs2.modified = Removed(ours2.entries)
  <2>1. Removed(ours2.entries) = Removed(ours.entries) \union (IF IsRemoval(u) THEN {u.htlc} ELSE {})
    BY <1>1, AppendedFacts
  <2> QED
    BY <1>1, <2>1 DEF LogsInv, Appended, Touched
<1> QED
  BY <1>2, <1>4, <1>5 DEF LogsInv

LEMMA AppendTheirsLog ==
    ASSUME NEW ours, NEW theirs, NEW d, Logs(ours, theirs, d), NEW u, NEW ours2, NEW theirs2,
           Fits(u, Ups(theirs.entries), theirs.logIndex, theirs.htlcCounter, Ups(ours.entries)),
           Appended(theirs, u, theirs2), Touched(ours, u, ours2)
    PROVE  LogsInv(ours2, theirs2, d)
<1> DEFINE e == Entry(u, NoHeight, NoHeight)
<1>1. /\ ours \in AnyLog /\ theirs \in AnyLog /\ d \in AnyDisk /\ u \in AnyUpdate
      /\ LogsInv(ours, theirs, d)
  BY DEF Logs, Fits
<1>2. UpdatesInv(Ups(ours2.entries), ours2.logIndex, ours2.htlcCounter,
                 Ups(theirs2.entries), theirs2.logIndex, theirs2.htlcCounter, d)
  <2>1. UpdatesInv(Ups(ours.entries), ours.logIndex, ours.htlcCounter,
                   Ups(theirs.entries) \union {u}, theirs.logIndex + 1,
                   NextId(u, theirs.htlcCounter), d)
    BY <1>1, LogFields, AppendTheirs DEF LogsInv
  <2>2. Ups(theirs2.entries) = Ups(theirs.entries) \union {u}
    BY <1>1, AppendedFacts
  <2> QED
    BY <2>1, <2>2 DEF Appended, Touched
<1>3. Ordered(d) /\ d.local.theirMessageIndex <= theirs.logIndex /\ d.local.height \in Nat
      /\ d.remote.height \in Nat /\ Tip(d).height \in Nat
  <2>1. OrderOK(d, ours.logIndex, theirs.logIndex)
    BY <1>1 DEF LogsInv, UpdatesInv
  <2>2. Ordered(d)
    BY <1>1, <2>1, LogFields, OrderedFacts
  <2> QED
    BY <2>1, <2>2, CommitIndices DEF OrderOK, Ordered
<1>4. EntriesInv(ours2.entries, theirs2.entries, d)
  <2>1. /\ e \in AnyEntry /\ Shape(e) /\ e.logIndex = theirs.logIndex
        /\ \A c \in Chains : Marks(e)[c] = 0
    BY <1>1, NewEntry DEF Fits
  <2>2. \A f \in theirs.entries : f.logIndex < theirs.logIndex
    BY <1>1, LogFields, UpsFacts DEF LogsInv, UpdatesInv, Distinct
  <2>3. EntriesInv(ours.entries, theirs.entries, d) /\ Entries(theirs.entries)
    BY <1>1 DEF LogsInv, EntriesInv
  <2>4. theirs2.entries = theirs.entries \union {e} /\ ours2.entries = ours.entries
    BY DEF Appended, Touched
  <2> HIDE DEF e
  <2>5. /\ Entries(theirs2.entries)
        /\ \A c \in Chains : \A i, h, j, t \in Nat :
             i <= j /\ j <= theirs.logIndex /\ Marked(theirs.entries, c, i, h, j, t)
                => Marked(theirs2.entries, c, i, h, j, t)
    <3>1. theirs.entries \in SUBSET AnyEntry /\ theirs.logIndex \in Nat
      BY <1>1, LogFields
    <3>2. /\ Entries(theirs.entries \union {e})
          /\ \A c \in Chains : \A i, h, j, t \in Nat :
               i <= j /\ j <= theirs.logIndex /\ Marked(theirs.entries, c, i, h, j, t)
                  => Marked(theirs.entries \union {e}, c, i, h, j, t)
      BY <2>1, <2>2, <2>3, <3>1, AppendEntries
    <3> QED
      BY <2>4, <3>2
  <2>6. /\ d.local.theirMessageIndex \in Nat /\ d.local.theirMessageIndex <= theirs.logIndex
        /\ d.local.theirMessageIndex <= d.local.theirMessageIndex
        /\ d.remote.theirMessageIndex \in Nat /\ Tip(d).theirMessageIndex \in Nat
        /\ d.remote.theirMessageIndex <= Tip(d).theirMessageIndex
        /\ Tip(d).theirMessageIndex <= theirs.logIndex
        /\ "local" \in Chains /\ "remote" \in Chains /\ theirs.logIndex \in Nat
    BY <1>1, <1>3, LogFields DEF Ordered, Chains
  <2> QED
    BY <1>3, <2>3, <2>4, <2>5, <2>6 DEF EntriesInv
<1>5. ours2.modified = Removed(theirs2.entries) /\ theirs2.modified = Removed(ours2.entries)
  <2>1. Removed(theirs2.entries) = Removed(theirs.entries) \union (IF IsRemoval(u) THEN {u.htlc} ELSE {})
    BY <1>1, AppendedFacts
  <2> QED
    BY <1>1, <2>1 DEF LogsInv, Appended, Touched
<1> QED
  BY <1>2, <1>4, <1>5 DEF LogsInv
-----------------------------------------------------------------------------
(* The heights that a new commitment writes into the entries. *)

LEMMA MarkEffect ==
    ASSUME NEW e \in AnyEntry, Shape(e), NEW v, NEW chain \in Chains, NEW h \in Nat
    PROVE  LET x == MarkOf(v, chain, h, e)
           IN  /\ x \in AnyEntry /\ Update(x) = Update(e) /\ Shape(x)
               /\ \A c \in Chains : c # chain => Marks(x)[c] = Marks(e)[c]
               /\ Marks(e)[chain] # 0 => x = e
               /\ Marks(e)[chain] = 0 /\ (IsAdd(e) => e \in v.outgoing \union v.incoming)
                    => Marks(x)[chain] = h
<1> DEFINE x == MarkOf(v, chain, h, e)
<1>1. x \in AnyEntry /\ Update(x) = Update(e)
  BY MarkType
<1>2. e.add \in [Chains -> Nat] /\ e.rm \in [Chains -> Nat] /\ NoHeight \in [Chains -> Nat]
      /\ \A c \in Chains : NoHeight[c] = 0
  BY DEF AnyEntry, NoHeight
<1>3. CASE IsAdd(e)
  <2>1. ~IsRemoval(e) /\ e.type # "FeeUpdate" /\ e.rm = NoHeight
    BY <1>3 DEF IsAdd, IsRemoval, Shape
  <2>2. CASE e \in v.outgoing \union v.incoming /\ e.add[chain] = 0
    <3>1. x = [e EXCEPT !.add[chain] = h]
      BY <1>3, <2>1, <2>2 DEF MarkOf, IsAdd
    <3>2. x.type = e.type /\ x.rm = e.rm /\ x.add = [e.add EXCEPT ![chain] = h]
      BY <3>1 DEF AnyEntry
    <3> QED
      BY <1>1, <1>2, <1>3, <2>1, <2>2, <3>2 DEF Shape, Marks, IsAdd, IsRemoval
  <2>3. CASE ~(e \in v.outgoing \union v.incoming /\ e.add[chain] = 0)
    <3>1. x = e
      BY <1>3, <2>1, <2>3 DEF MarkOf, IsAdd
    <3> QED
      BY <1>1, <1>3, <2>3, <3>1 DEF Marks
  <2> QED
    BY <2>2, <2>3
<1>4. CASE IsRemoval(e)
  <2>1. ~IsAdd(e) /\ e.type # "FeeUpdate" /\ e.add = NoHeight
    BY <1>4 DEF IsAdd, IsRemoval, Shape
  <2>2. CASE e.rm[chain] = 0
    <3>1. x = [e EXCEPT !.rm[chain] = h]
      BY <1>4, <2>1, <2>2 DEF MarkOf, IsAdd
    <3>2. x.type = e.type /\ x.add = e.add /\ x.rm = [e.rm EXCEPT ![chain] = h]
      BY <3>1 DEF AnyEntry
    <3> QED
      BY <1>1, <1>2, <1>4, <2>1, <2>2, <3>2 DEF Shape, Marks, IsAdd, IsRemoval
  <2>3. CASE e.rm[chain] # 0
    <3>1. x = e
      BY <2>1, <2>3 DEF MarkOf, IsAdd
    <3> QED
      BY <1>1, <2>1, <2>3, <3>1 DEF Marks
  <2> QED
    BY <2>2, <2>3
<1>5. CASE e.type = "FeeUpdate"
  <2>1. ~IsAdd(e) /\ ~IsRemoval(e) /\ e.add = e.rm
    BY <1>5 DEF IsAdd, IsRemoval, Shape
  <2>2. CASE e.add[chain] = 0
    <3>1. x = [e EXCEPT !.add[chain] = h, !.rm[chain] = h]
      BY <1>5, <2>1, <2>2 DEF MarkOf, IsAdd
    <3>2. x.type = e.type /\ x.add = [e.add EXCEPT ![chain] = h] /\ x.rm = [e.rm EXCEPT ![chain] = h]
      BY <3>1 DEF AnyEntry
    <3> QED
      BY <1>1, <1>2, <1>5, <2>1, <2>2, <3>2 DEF Shape, Marks, IsAdd, IsRemoval
  <2>3. CASE e.add[chain] # 0
    <3>1. x = e
      BY <2>1, <2>3 DEF MarkOf, IsAdd
    <3> QED
      BY <1>1, <2>1, <2>3, <3>1 DEF Marks
  <2> QED
    BY <2>2, <2>3
<1> QED
  BY <1>3, <1>4, <1>5, EntryFields

\* The entries S2 are S, with those below a marked for a commitment after height t.
Restamped(S, S2, chain, i, t, a) ==
    /\ S2 \subseteq AnyEntry /\ Ups(S2) = Ups(S) /\ Entries(S2)
    /\ Marked(S2, chain, i, t, a, t + 1) /\ Marked(S2, chain, a, t + 1, a, t + 1)
    /\ \A c \in Chains : c # chain => \A i2, h2, j2, t2 \in Nat :
          Marked(S, c, i2, h2, j2, t2) => Marked(S2, c, i2, h2, j2, t2)

\* The entries S after Stamp, when those in view are part of the new commitment.
Stamped(v, chain, height, S, view) == {IF e \in view THEN MarkOf(v, chain, height, e) ELSE e : e \in S}

LEMMA StampedEntries ==
    ASSUME NEW S \in SUBSET AnyEntry, Entries(S), NEW chain \in Chains,
           NEW i \in Nat, NEW t \in Nat, NEW a \in Nat, i <= a, Marked(S, chain, i, t, i, t),
           NEW v, NEW view, view = {e \in S : e.logIndex < a},
           \A e \in view : IsAdd(e) /\ e.add[chain] = 0 => e \in v.outgoing \union v.incoming
    PROVE  Restamped(S, Stamped(v, chain, t + 1, S, view), chain, i, t, a)
<1> DEFINE X(e) == IF e \in view THEN MarkOf(v, chain, t + 1, e) ELSE e
           S2 == {X(e) : e \in S}
<1>1. ASSUME NEW e \in S
      PROVE  /\ X(e) \in AnyEntry /\ Update(X(e)) = Update(e) /\ Shape(X(e))
             /\ \A c \in Chains : c # chain => Marks(X(e))[c] = Marks(e)[c]
             /\ e.logIndex < i => Marks(X(e))[chain] = Marks(e)[chain]
             /\ i <= e.logIndex /\ e.logIndex < a => Marks(X(e))[chain] = t + 1
             /\ a <= e.logIndex => Marks(X(e))[chain] = 0
  <2>1. e \in AnyEntry /\ Shape(e) /\ t + 1 \in Nat /\ e.logIndex \in Nat
    BY EntryFields DEF Entries
  <2>2. /\ e.logIndex < i => Marks(e)[chain] # 0
        /\ i <= e.logIndex => Marks(e)[chain] = 0
    BY <2>1, EntryFields DEF Marked
  <2>3. CASE e \in view
    <3>1. e.logIndex < a /\ X(e) = MarkOf(v, chain, t + 1, e)
      BY <2>3
    <3>2. IsAdd(e) /\ Marks(e)[chain] = 0 => e \in v.outgoing \union v.incoming
      BY <2>3 DEF Marks
    <3> HIDE DEF X
    <3>3. /\ X(e) \in AnyEntry /\ Update(X(e)) = Update(e) /\ Shape(X(e))
          /\ \A c \in Chains : c # chain => Marks(X(e))[c] = Marks(e)[c]
          /\ Marks(e)[chain] # 0 => X(e) = e
          /\ Marks(e)[chain] = 0 => Marks(X(e))[chain] = t + 1
      <4> DEFINE h == t + 1
                 x == MarkOf(v, chain, h, e)
      <4>1. h \in Nat /\ X(e) = x
        BY <2>1, <3>1
      <4> HIDE DEF h
      <4>2. /\ x \in AnyEntry /\ Update(x) = Update(e) /\ Shape(x)
            /\ \A c \in Chains : c # chain => Marks(x)[c] = Marks(e)[c]
            /\ Marks(e)[chain] # 0 => x = e
            /\ Marks(e)[chain] = 0 /\ (IsAdd(e) => e \in v.outgoing \union v.incoming)
                    => Marks(x)[chain] = h
        BY <2>1, <4>1, MarkEffect
      <4> HIDE DEF x
      <4> QED
        BY <3>2, <4>1, <4>2 DEF h
    <3> QED
      BY <2>1, <2>2, <3>1, <3>3
  <2>4. CASE e \notin view
    <3>1. X(e) = e /\ ~(e.logIndex < a)
      BY <2>4
    <3> HIDE DEF X
    <3> QED
      BY <2>1, <2>2, <3>1
  <2> QED
    BY <2>3, <2>4
<1> HIDE DEF X
<1>2. \A e \in S : X(e) \in AnyEntry /\ X(e).logIndex = e.logIndex
  BY <1>1, UpsFacts DEF Update, LogUpdate
<1>3. S2 \subseteq AnyEntry
  BY <1>2
<1>4. Ups(S2) = Ups(S)
  <2>1. Ups(S2) = {Update(X(e)) : e \in S}
    BY DEF Ups
  <2> HIDE DEF S2
  <2> QED
    BY <1>1, <2>1 DEF Ups
<1>5. Entries(S2)
  BY <1>1, <1>2 DEF Entries
<1>6. Marked(S2, chain, i, t, a, t + 1) /\ Marked(S2, chain, a, t + 1, a, t + 1)
  <2> SUFFICES ASSUME NEW e \in S
               PROVE  LET k == Marks(X(e))[chain]
                      IN  /\ X(e).logIndex < i => 1 <= k /\ k <= t
                          /\ i <= X(e).logIndex /\ X(e).logIndex < a => k = t + 1
                          /\ a <= X(e).logIndex => k = 0
                          /\ X(e).logIndex < a => 1 <= k /\ k <= t + 1
    <3>1. \A f \in S2 : \E e \in S : f = X(e)
      OBVIOUS
    <3>2. \A f \in S2 : f.logIndex \in Nat
      BY <1>3, EntryFields
    <3> HIDE DEF S2
    <3> QED
      BY <3>1, <3>2 DEF Marked
  <2>1. e.logIndex \in Nat /\ Marks(e)[chain] \in Nat
    BY EntryFields
  <2> QED
    BY <1>1, <1>2, <2>1 DEF Marked
<1>7. ASSUME NEW c \in Chains, c # chain, NEW i2 \in Nat, NEW h2 \in Nat, NEW j2 \in Nat, NEW t2 \in Nat,
             Marked(S, c, i2, h2, j2, t2)
      PROVE  Marked(S2, c, i2, h2, j2, t2)
  BY <1>1, <1>2, <1>7 DEF Marked
<1>8. Restamped(S, S2, chain, i, t, a)
  <2> HIDE DEF S2
  <2> QED
    BY <1>3, <1>4, <1>5, <1>6, <1>7 DEF Restamped
<1> QED
  BY <1>8 DEF X, Stamped

\* The HTLCs of A below a that no removal in B below b takes off.
Standing(A, B, a, b) ==
    {e \in A : IsAdd(e) /\ e.logIndex < a
                /\ ~\E r \in B : IsRemoval(r) /\ r.logIndex < b /\ r.htlc = e.htlc}
\* The removals in B below b are of HTLCs of A that the chain has.
ParentsMarked(A, B, b, chain) ==
    \A r \in B : IsRemoval(r) /\ r.logIndex < b
        => \E x \in A : IsAdd(x) /\ x.htlc = r.htlc /\ x.add[chain] # 0

LEMMA ViewHalf ==
    ASSUME NEW A \in SUBSET AnyEntry, NEW B \in SUBSET AnyEntry, NEW chain \in Chains,
           NEW n \in Nat, NEW k \in Nat, NEW i \in Nat, NEW h \in Nat, NEW a \in Nat, NEW b \in Nat,
           Entries(A), Distinct(Ups(A), n, k), i <= a, Marked(A, chain, i, h, i, h),
           ParentsMarked(A, B, b, chain)
    PROVE  /\ HalfOK(HtlcsOf(Standing(A, B, a, b)), Ups(A), Ups(B), a, b)
           /\ Parents(Ups(A), Ups(B), i, b)
           /\ \A e \in A : e.logIndex < a /\ IsAdd(e) /\ e.add[chain] = 0 => e \in Standing(A, B, a, b)
<1>0. \A e \in A : /\ Update(e) \in Ups(A) /\ Update(e).logIndex = e.logIndex
                   /\ Update(e).htlc = e.htlc /\ Update(e).amt = e.amt
                   /\ IsAdd(Update(e)) <=> IsAdd(e)
  BY UpsFacts
<1>1. \A htlc : Off(Ups(B), b, htlc) <=> \E r \in B : IsRemoval(r) /\ r.logIndex < b /\ r.htlc = htlc
  BY UpsFacts DEF Off
<1>2. ASSUME NEW e \in A, IsAdd(e), Off(Ups(B), b, e.htlc)
      PROVE  e.add[chain] # 0 /\ e.logIndex < i
  <2>1. PICK x \in A : IsAdd(x) /\ x.htlc = e.htlc /\ x.add[chain] # 0
    BY <1>1, <1>2 DEF ParentsMarked
  <2>2. x.logIndex = e.logIndex
    <3>1. /\ x.logIndex \in Nat /\ e.logIndex \in Nat /\ x.htlc \in Nat
      BY EntryFields
    <3>2. Update(x).logIndex < Update(e).logIndex <=> Update(x).htlc < Update(e).htlc
      BY <1>0, <1>2, <2>1 DEF Distinct
    <3>3. Update(e).logIndex < Update(x).logIndex <=> Update(e).htlc < Update(x).htlc
      BY <1>0, <1>2, <2>1 DEF Distinct
    <3> QED
      BY <1>0, <2>1, <3>1, <3>2, <3>3
  <2>3. x = e
    BY <2>2 DEF Entries
  <2> QED
    BY <1>2, <2>1, <2>3, EntryFields DEF Marked, Marks
<1>3. Live(Ups(A), Ups(B), a, b) = Ups(Standing(A, B, a, b))
  <2>1. \A e \in A : e \in Standing(A, B, a, b)
            <=> IsAdd(e) /\ e.logIndex < a /\ ~Off(Ups(B), b, e.htlc)
    BY <1>1 DEF Standing
  <2>2. \A u : u \in Live(Ups(A), Ups(B), a, b)
            <=> \E e \in A : u = Update(e) /\ IsAdd(e) /\ e.logIndex < a /\ ~Off(Ups(B), b, e.htlc)
    BY <1>0, UpsFacts DEF Live
  <2>3. \A u : u \in Ups(Standing(A, B, a, b)) <=> \E e \in A : u = Update(e) /\ e \in Standing(A, B, a, b)
    BY DEF Ups, Standing
  <2> QED
    BY <2>1, <2>2, <2>3
<1>4. HtlcsOf(Ups(Standing(A, B, a, b))) = HtlcsOf(Standing(A, B, a, b))
  <2> DEFINE H(e) == [logIndex |-> e.logIndex, htlc |-> e.htlc, amt |-> e.amt]
             S == Standing(A, B, a, b)
  <2>1. \A e \in S : H(Update(e)) = H(e)
    BY <1>0 DEF Standing
  <2>2. HtlcsOf(Ups(S)) = {H(Update(e)) : e \in S} /\ HtlcsOf(S) = {H(e) : e \in S}
    BY DEF HtlcsOf, Ups
  <2> HIDE DEF H, S
  <2>3. HtlcsOf(Ups(S)) = HtlcsOf(S)
    BY <2>1, <2>2
  <2> QED
    BY <2>3 DEF S
<1>5. Parents(Ups(A), Ups(B), a, b) /\ Parents(Ups(A), Ups(B), i, b)
  <2> SUFFICES ASSUME NEW u \in Ups(A), IsAdd(u), Off(Ups(B), b, u.htlc)
               PROVE  u.logIndex < a /\ u.logIndex < i
    BY DEF Parents
  <2>1. PICK e \in A : u = Update(e)
    BY UpsFacts
  <2>2. IsAdd(e) /\ e.htlc = u.htlc /\ e.logIndex = u.logIndex
    BY <1>0, <2>1
  <2>3. e.logIndex < i /\ e.logIndex \in Nat
    BY <1>2, <2>2, EntryFields
  <2> QED
    BY <2>2, <2>3
<1>6. \A e \in A : e.logIndex < a /\ IsAdd(e) /\ e.add[chain] = 0 => e \in Standing(A, B, a, b)
  BY <1>1, <1>2 DEF Standing
<1> QED
  BY <1>3, <1>4, <1>5, <1>6 DEF HalfOK

\* The commitment c that a chain gets with our updates below a and the peer's below b, and the
\* memory m2 with its heights, when the last commitment of the chain is old.
NextOK(m, m2, chain, old, c, a, b) ==
    /\ CommitOK(c, Ups(m.localLog.entries), Ups(m.remoteLog.entries))
    /\ c.ourMessageIndex = a /\ c.theirMessageIndex = b
    /\ Parents(Ups(m.remoteLog.entries), Ups(m.localLog.entries), old.theirMessageIndex, a)
    /\ Restamped(m.localLog.entries, m2.localLog.entries, chain, old.ourMessageIndex, old.height, a)
    /\ Restamped(m.remoteLog.entries, m2.remoteLog.entries, chain, old.theirMessageIndex, old.height, b)
    /\ m2.localLog = [m.localLog EXCEPT !.entries = m2.localLog.entries]
    /\ m2.remoteLog = [m.remoteLog EXCEPT !.entries = m2.remoteLog.entries]

LEMMA ParentsAre ==
    ASSUME NEW log, NEW S, NEW b, NEW chain, NEW rms,
           rms = {e \in {x \in S : x.logIndex < b} : IsRemoval(e)},
           ~fetchParentFails(rms, log, chain)
    PROVE  ParentsMarked(log.entries, S, b, chain)
BY DEF fetchParentFails, ParentsMarked, lookupHtlc, Adds, IsAdd

LEMMA ViewIs ==
    ASSUME NEW m, NEW chain, NEW a, NEW b
    PROVE  LET view == fetchHTLCView(m, b, a, {}, {})
               v == evaluateHTLCView(m, view, chain)
               L == m.localLog.entries
               R == m.remoteLog.entries
           IN  /\ view.ours = {e \in L : e.logIndex < a} /\ view.theirs = {e \in R : e.logIndex < b}
               /\ v.outgoing = Standing(L, R, a, b) /\ v.incoming = Standing(R, L, b, a)
               /\ ~v.err => ParentsMarked(L, R, b, chain) /\ ParentsMarked(R, L, a, chain)
<1> DEFINE view == fetchHTLCView(m, b, a, {}, {})
           v == evaluateHTLCView(m, view, chain)
           L == m.localLog.entries
           R == m.remoteLog.entries
           ourRm == {e \in view.ours : IsRemoval(e)}
           theirRm == {e \in view.theirs : IsRemoval(e)}
<1>1. view.ours = {e \in L : e.logIndex < a} /\ view.theirs = {e \in R : e.logIndex < b}
  BY DEF fetchHTLCView
<1>2. /\ v.outgoing = {e \in Adds(view.ours) : e.htlc \notin Removed(theirRm)}
      /\ v.incoming = {e \in Adds(view.theirs) : e.htlc \notin Removed(ourRm)}
      /\ v.err = \/ fetchParentFails(ourRm, m.remoteLog, chain)
                 \/ fetchParentFails(theirRm, m.localLog, chain)
  <2> HIDE DEF view
  <2> QED
    BY Zenon DEF evaluateHTLCView
<1> HIDE DEF v, view
<1>3. v.outgoing = Standing(L, R, a, b)
  BY <1>1, <1>2 DEF Standing, Adds, Removed, IsAdd
<1>4. v.incoming = Standing(R, L, b, a)
  BY <1>1, <1>2 DEF Standing, Adds, Removed, IsAdd
<1>5. ~v.err => ParentsMarked(L, R, b, chain) /\ ParentsMarked(R, L, a, chain)
  BY <1>1, <1>2, ParentsAre
<1> QED
  BY <1>1, <1>3, <1>4, <1>5 DEF v, view

\* The last commitment of a chain is old, its heights are in the logs, and the next commitment
\* leaves out nothing of it.
Extends(m, chain, old, a, b, n, k, nV, kV) ==
    /\ old \in AnyCommit /\ old = tip(ChainOf(m, chain))
    /\ a \in Nat /\ b \in Nat /\ n \in Nat /\ k \in Nat /\ nV \in Nat /\ kV \in Nat
    /\ old.ourMessageIndex <= a /\ old.theirMessageIndex <= b
    /\ Distinct(Ups(m.localLog.entries), n, k) /\ Distinct(Ups(m.remoteLog.entries), nV, kV)
    /\ Entries(m.localLog.entries) /\ Entries(m.remoteLog.entries)
    /\ Marked(m.localLog.entries, chain, old.ourMessageIndex, old.height,
              old.ourMessageIndex, old.height)
    /\ Marked(m.remoteLog.entries, chain, old.theirMessageIndex, old.height,
              old.theirMessageIndex, old.height)

LEMMA NextIs ==
    ASSUME NEW m \in AnyMemory, NEW chain \in Chains, NEW old, NEW a, NEW b, NEW ka, NEW kb,
           NEW n, NEW k, NEW nV, NEW kV, Extends(m, chain, old, a, b, n, k, nV, kV),
           NEW r, r = fetchCommitmentView(m, chain, a, ka, b, kb), r.ok
    PROVE  /\ NextOK(m, r.mem, chain, old, r.commit, a, b)
           /\ r.commit.ourHtlcIndex = ka /\ r.commit.theirHtlcIndex = kb
           /\ r.commit.height = old.height + 1
<1> DEFINE view == fetchHTLCView(m, b, a, {}, {})
           v == evaluateHTLCView(m, view, chain)
           L == m.localLog.entries
           R == m.remoteLog.entries
           t == old.height
           i == old.ourMessageIndex
           j == old.theirMessageIndex
           ML == Stamped(v, chain, t + 1, L, view.ours)
           MR == Stamped(v, chain, t + 1, R, view.theirs)
<1>0. /\ old \in AnyCommit /\ old = tip(ChainOf(m, chain))
      /\ a \in Nat /\ b \in Nat /\ n \in Nat /\ k \in Nat /\ nV \in Nat /\ kV \in Nat
      /\ i <= a /\ j <= b /\ Distinct(Ups(L), n, k) /\ Distinct(Ups(R), nV, kV)
      /\ Entries(L) /\ Entries(R) /\ Marked(L, chain, i, t, i, t) /\ Marked(R, chain, j, t, j, t)
  BY DEF Extends
<1>1. /\ L \in SUBSET AnyEntry /\ R \in SUBSET AnyEntry /\ t \in Nat /\ i \in Nat /\ j \in Nat
      /\ t + 1 \in Nat /\ m.localLog \in AnyLog /\ m.remoteLog \in AnyLog
  BY <1>0, CommitIndices, LogEntries, FinMember DEF AnyMemory
<1>2. /\ ~v.err
      /\ r.commit = NextCommitment(v, t + 1, a, ka, b, kb)
      /\ r.mem = Stamp(m, view, v, chain, t + 1)
  BY <1>0, CommitmentIs DEF NewCommitment
<1>3. /\ view.ours = {e \in L : e.logIndex < a} /\ view.theirs = {e \in R : e.logIndex < b}
      /\ v.outgoing = Standing(L, R, a, b) /\ v.incoming = Standing(R, L, b, a)
      /\ ParentsMarked(L, R, b, chain) /\ ParentsMarked(R, L, a, chain)
  BY <1>2, ViewIs
<1>4. /\ r.mem.localLog = MarkedLog(v, chain, t + 1, m.localLog, view.ours)
      /\ r.mem.remoteLog = MarkedLog(v, chain, t + 1, m.remoteLog, view.theirs)
  BY <1>1, <1>2, StampType
<1>5. /\ r.commit.outgoing = HtlcsOf(v.outgoing) /\ r.commit.incoming = HtlcsOf(v.incoming)
      /\ r.commit.ourMessageIndex = a /\ r.commit.theirMessageIndex = b
      /\ r.commit.ourHtlcIndex = ka /\ r.commit.theirHtlcIndex = kb
      /\ r.commit.height = t + 1
  <2> HIDE DEF v, t
  <2> QED
    BY <1>2 DEF NextCommitment
<1> HIDE DEF view, v
<1>6. /\ r.mem.localLog.entries = ML /\ r.mem.remoteLog.entries = MR
      /\ r.mem.localLog = [m.localLog EXCEPT !.entries = ML]
      /\ r.mem.remoteLog = [m.remoteLog EXCEPT !.entries = MR]
  BY <1>1, <1>4 DEF MarkedLog, AnyLog, Stamped
<1>7. /\ HalfOK(HtlcsOf(Standing(L, R, a, b)), Ups(L), Ups(R), a, b)
      /\ \A e \in L : e.logIndex < a /\ IsAdd(e) /\ e.add[chain] = 0 => e \in Standing(L, R, a, b)
  <2> HIDE DEF L, R, t, i, j
  <2>1. Entries(L) /\ Distinct(Ups(L), n, k) /\ i <= a /\ Marked(L, chain, i, t, i, t)
    BY <1>0 DEF L, t, i, j
  <2> QED
    BY <1>0, <1>1, <1>3, <2>1, ViewHalf
<1>8. /\ HalfOK(HtlcsOf(Standing(R, L, b, a)), Ups(R), Ups(L), b, a)
      /\ Parents(Ups(R), Ups(L), j, a)
      /\ \A e \in R : e.logIndex < b /\ IsAdd(e) /\ e.add[chain] = 0 => e \in Standing(R, L, b, a)
  <2> HIDE DEF L, R, t, i, j
  <2>1. Entries(R) /\ Distinct(Ups(R), nV, kV) /\ j <= b /\ Marked(R, chain, j, t, j, t)
    BY <1>0 DEF R, t, i, j
  <2> QED
    BY <1>0, <1>1, <1>3, <2>1, ViewHalf
<1>9. CommitOK(r.commit, Ups(L), Ups(R))
  BY <1>1, <1>3, <1>5, <1>7, <1>8 DEF CommitOK
<1>10. Restamped(L, ML, chain, i, t, a)
  <2> HIDE DEF L, R, t, i, j
  <2>1. Entries(L) /\ i <= a /\ Marked(L, chain, i, t, i, t)
    BY <1>0 DEF L, t, i, j
  <2>2. \A e \in view.ours : IsAdd(e) /\ e.add[chain] = 0 => e \in v.outgoing \union v.incoming
    BY <1>3, <1>7
  <2> QED
    BY <1>0, <1>1, <1>3, <2>1, <2>2, StampedEntries
<1>11. Restamped(R, MR, chain, j, t, b)
  <2> HIDE DEF L, R, t, i, j
  <2>1. Entries(R) /\ j <= b /\ Marked(R, chain, j, t, j, t)
    BY <1>0 DEF R, t, i, j
  <2>2. \A e \in view.theirs : IsAdd(e) /\ e.add[chain] = 0 => e \in v.outgoing \union v.incoming
    BY <1>3, <1>8
  <2> QED
    BY <1>0, <1>1, <1>3, <2>1, <2>2, StampedEntries
<1> HIDE DEF ML, MR
<1> QED
  BY <1>5, <1>6, <1>8, <1>9, <1>10, <1>11 DEF NextOK
-----------------------------------------------------------------------------
(* Signing. *)

LEMMA SignedIs ==
    ASSUME NEW m \in AnyMemory, NEW d \in AnyDisk, ChainsOf(m, d),
           NEW s, s = SignNextCommitment(m, d), s.err = "none"
    PROVE  IsSigned(m, d, SignView(m, d), s)
<1> DEFINE acked == tail(m.localChain)
           view == SignView(m, d)
           U == createCommitDiff(view.mem, view.commit)
           W == WithinConstraints(evaluateHTLCView(m, fetchHTLCView(m, d.local.theirMessageIndex,
                                        m.localLog.logIndex, {}, {}), "remote"), d.remote)
<1>0. d.pending = <<>>
  BY SignNext DEF NotSignedOK, SignedOK
<1>1. /\ acked = d.local /\ ~hasUnackedCommitment(m.remoteChain) /\ tip(m.remoteChain) = d.remote
      /\ tip(ChainOf(m, "remote")) = d.remote /\ d.local \in AnyCommit /\ d.remote \in AnyCommit
      /\ "remote" \in Chains
      /\ m.localLog.logIndex \in Nat /\ m.localLog.htlcCounter \in Nat
  BY <1>0, ChainFacts DEF ChainOf, Chains
<1>2. validateCommitmentSanity(m, d.local.theirMessageIndex, m.localLog.logIndex, "remote", {}, {}) <=> W
  BY <1>1 DEF validateCommitmentSanity
<1>3. s = Signed(d, view) /\ view.ok /\ W
  <2>1. s # NotSigned(m, d, "ErrInternalError")
    BY DEF NotSigned
  <2> HIDE DEF W
  <2> QED
    BY <1>1, <1>2, <2>1 DEF SignNextCommitment, SignView
<1>4. CommitmentOK(m, "remote", view)
  <2>1. d.local.theirMessageIndex \in Nat /\ d.local.theirHtlcIndex \in Nat
    BY <1>1, CommitIndices
  <2> QED
    BY <1>1, <2>1, CommitmentType DEF SignView
<1> HIDE DEF view, W
<1>5. /\ s.mem = [view.mem EXCEPT !.remoteChain = Append(@, view.commit)]
      /\ s.disk = [d EXCEPT !.lastWasRevoke = FALSE,
                            !.pending = <<[commit |-> view.commit, updates |-> U]>>]
  BY <1>3 DEF Signed, AppendRemoteCommitChain
<1>6. SignedOK(d, s)
  BY SignNext DEF NotSignedOK
<1>7. s.disk \in AnyDisk
  <2>1. PICK c \in AnyCommit, T \in FinSub(AnyUpdate) : IsSignature(d, s, c, T)
    BY <1>6 DEF SignedOK
  <2>2. [commit |-> c, updates |-> T] \in AnyPending
    BY <2>1 DEF AnyPending
  <2>3. <<[commit |-> c, updates |-> T]>> \in {<<>>} \union {<<x>> : x \in AnyPending}
    BY <2>2
  <2>4. s.disk = [d EXCEPT !.lastWasRevoke = FALSE, !.pending = <<[commit |-> c, updates |-> T]>>]
    BY <2>1 DEF IsSignature
  <2> QED
    BY <2>3, <2>4 DEF AnyDisk
<1>8. /\ s.mem.localLog = view.mem.localLog /\ s.mem.remoteLog = view.mem.remoteLog
      /\ view.commit \in AnyCommit /\ view.mem \in AnyMemory
  BY <1>4, <1>5 DEF CommitmentOK, AnyMemory
<1>9. s.mem \in AnyMemory /\ ChainsOf(s.mem, s.disk)
  BY <1>6 DEF SignedOK
<1> QED
  BY <1>0, <1>3, <1>5, <1>7, <1>8, <1>9 DEF view, W, IsSigned

\* The updates in createCommitDiff are those from the index i of the last commitment on.
LEMMA DiffIs ==
    ASSUME NEW m, NEW S \in SUBSET AnyEntry, m.localLog.entries = S, NEW c, NEW t \in Nat,
           c.height = t + 1, NEW i \in Nat, NEW n \in Nat, Entries(S),
           Marked(S, "remote", i, t, n, t + 1), \A e \in S : e.logIndex < n
    PROVE  createCommitDiff(m, c) = Cut(Ups(S), i, n)
<1>1. ASSUME NEW e \in S
      PROVE  e.add["remote"] = t + 1 \/ e.rm["remote"] = t + 1 <=> i <= e.logIndex
  <2>1. e \in AnyEntry /\ Shape(e) /\ e.logIndex \in Nat /\ "remote" \in Chains
        /\ Marks(e)["remote"] \in Nat
    BY EntryFields DEF Entries, Chains
  <2>2. Marks(e)["remote"] = t + 1 <=> i <= e.logIndex
    BY <2>1 DEF Marked
  <2>3. e.add["remote"] = t + 1 \/ e.rm["remote"] = t + 1 <=> Marks(e)["remote"] = t + 1
    <3>1. NoHeight["remote"] = 0
      BY DEF NoHeight, Chains
    <3> QED
      BY <2>1, <3>1, EntryFields DEF Shape, Marks
  <2> QED
    BY <2>2, <2>3
<1>2. createCommitDiff(m, c) = {Update(e) : e \in {x \in S : i <= x.logIndex}}
  BY <1>1 DEF createCommitDiff
<1> QED
  BY <1>2, UpsFacts DEF Cut, Ups

LEMMA PartyFactsOf ==
    ASSUME NEW m, NEW d, PartyLogs(m, d)
    PROVE  LET L == m.localLog.entries
               R == m.remoteLog.entries
           IN  /\ m \in AnyMemory /\ d \in AnyDisk /\ m.localLog \in AnyLog /\ m.remoteLog \in AnyLog
               /\ L \in SUBSET AnyEntry /\ R \in SUBSET AnyEntry
               /\ Ups(L) \in SUBSET AnyUpdate /\ Ups(R) \in SUBSET AnyUpdate
               /\ m.localLog.logIndex \in Nat /\ m.localLog.htlcCounter \in Nat
               /\ m.remoteLog.logIndex \in Nat /\ m.remoteLog.htlcCounter \in Nat
               /\ UpdatesInv(Ups(L), m.localLog.logIndex, m.localLog.htlcCounter,
                             Ups(R), m.remoteLog.logIndex, m.remoteLog.htlcCounter, d)
               /\ EntriesInv(L, R, d)
               /\ OrderOK(d, m.localLog.logIndex, m.remoteLog.logIndex) /\ Ordered(d)
               /\ Distinct(Ups(L), m.localLog.logIndex, m.localLog.htlcCounter)
               /\ Distinct(Ups(R), m.remoteLog.logIndex, m.remoteLog.htlcCounter)
               /\ Entries(L) /\ Entries(R)
               /\ \A e \in L : e.logIndex \in Nat /\ e.logIndex < m.localLog.logIndex
               /\ \A e \in R : e.logIndex \in Nat /\ e.logIndex < m.remoteLog.logIndex
               /\ d.local.height \in Nat /\ d.remote.height \in Nat /\ Tip(d).height \in Nat
<1> DEFINE L == m.localLog.entries
           R == m.remoteLog.entries
<1>1. m \in AnyMemory /\ d \in AnyDisk /\ m.localLog \in AnyLog /\ m.remoteLog \in AnyLog
  BY DEF PartyLogs, AnyMemory
<1>2. /\ L \in SUBSET AnyEntry /\ R \in SUBSET AnyEntry
      /\ Ups(L) \in SUBSET AnyUpdate /\ Ups(R) \in SUBSET AnyUpdate
      /\ m.localLog.logIndex \in Nat /\ m.localLog.htlcCounter \in Nat
      /\ m.remoteLog.logIndex \in Nat /\ m.remoteLog.htlcCounter \in Nat
  BY <1>1, LogFields
<1>3. /\ UpdatesInv(Ups(L), m.localLog.logIndex, m.localLog.htlcCounter,
                    Ups(R), m.remoteLog.logIndex, m.remoteLog.htlcCounter, d)
      /\ EntriesInv(L, R, d)
  BY DEF PartyLogs, LogsInv
<1>4. /\ OrderOK(d, m.localLog.logIndex, m.remoteLog.logIndex)
      /\ Distinct(Ups(L), m.localLog.logIndex, m.localLog.htlcCounter)
      /\ Distinct(Ups(R), m.remoteLog.logIndex, m.remoteLog.htlcCounter)
  BY <1>3 DEF UpdatesInv
<1>5. Entries(L) /\ Entries(R)
  BY <1>3 DEF EntriesInv
<1>6. Ordered(d)
  BY <1>1, <1>2, <1>4, OrderedFacts
<1>7. /\ \A e \in L : e.logIndex \in Nat /\ e.logIndex < m.localLog.logIndex
      /\ \A e \in R : e.logIndex \in Nat /\ e.logIndex < m.remoteLog.logIndex
  BY <1>2, <1>4, UpsFacts, EntryFields DEF Distinct
<1>8. d.local.height \in Nat /\ d.remote.height \in Nat /\ Tip(d).height \in Nat
  BY <1>6, CommitIndices DEF Ordered
<1> QED
  BY <1>1, <1>2, <1>3, <1>4, <1>5, <1>6, <1>7, <1>8

\* The commitment that a party signs, or gets signed, extends the last one of its chain.
LEMMA SignExtends ==
    ASSUME NEW m, NEW d, PartyLogs(m, d), d.pending = <<>>
    PROVE  Extends(m, "remote", d.remote, m.localLog.logIndex, d.local.theirMessageIndex,
                   m.localLog.logIndex, m.localLog.htlcCounter,
                   m.remoteLog.logIndex, m.remoteLog.htlcCounter)
<1> DEFINE L == m.localLog.entries
           R == m.remoteLog.entries
           n == m.localLog.logIndex
           k == m.localLog.htlcCounter
           nV == m.remoteLog.logIndex
           kV == m.remoteLog.htlcCounter
           b == d.local.theirMessageIndex
           old == d.remote
<1>1. /\ m \in AnyMemory /\ d \in AnyDisk
      /\ n \in Nat /\ k \in Nat /\ nV \in Nat /\ kV \in Nat
      /\ EntriesInv(L, R, d) /\ OrderOK(d, n, nV) /\ Ordered(d)
      /\ Distinct(Ups(L), n, k) /\ Distinct(Ups(R), nV, kV)
      /\ Entries(L) /\ Entries(R)
  BY PartyFactsOf
<1>2. Tip(d) = old /\ ChainsOf(m, d)
  BY DEF Tip, PartyLogs
<1>3. tip(ChainOf(m, "remote")) = old
  BY <1>1, <1>2, ChainFacts DEF ChainOf
<1>4. /\ old \in AnyCommit /\ b \in Nat
      /\ old.ourMessageIndex <= n /\ old.theirMessageIndex <= b
  BY <1>1, <1>2 DEF Ordered, OrderOK
<1>5. /\ Marked(L, "remote", old.ourMessageIndex, old.height, old.ourMessageIndex, old.height)
      /\ Marked(R, "remote", old.theirMessageIndex, old.height, old.theirMessageIndex, old.height)
  BY <1>1, <1>2 DEF EntriesInv
<1> HIDE DEF n, k, b, nV, kV, old
<1> QED
  <2>1. Extends(m, "remote", old, n, b, n, k, nV, kV)
    BY <1>1, <1>3, <1>4, <1>5 DEF Extends
  <2> QED
    BY <2>1 DEF n, k, b, nV, kV, old

LEMMA RevokeExtends ==
    ASSUME NEW m, NEW d, PartyLogs(m, d)
    PROVE  Extends(m, "local", d.local, d.remote.ourMessageIndex, m.remoteLog.logIndex,
                   m.localLog.logIndex, m.localLog.htlcCounter,
                   m.remoteLog.logIndex, m.remoteLog.htlcCounter)
<1> DEFINE L == m.localLog.entries
           R == m.remoteLog.entries
           n == m.localLog.logIndex
           k == m.localLog.htlcCounter
           nV == m.remoteLog.logIndex
           kV == m.remoteLog.htlcCounter
           a == d.remote.ourMessageIndex
           old == d.local
<1>1. /\ m \in AnyMemory /\ d \in AnyDisk
      /\ n \in Nat /\ k \in Nat /\ nV \in Nat /\ kV \in Nat
      /\ EntriesInv(L, R, d) /\ OrderOK(d, n, nV) /\ Ordered(d)
      /\ Distinct(Ups(L), n, k) /\ Distinct(Ups(R), nV, kV)
      /\ Entries(L) /\ Entries(R)
  BY PartyFactsOf
<1>2. ChainsOf(m, d)
  BY DEF PartyLogs
<1>3. tip(ChainOf(m, "local")) = old
  BY <1>1, <1>2, ChainFacts DEF ChainOf
<1>4. /\ old \in AnyCommit /\ a \in Nat
      /\ old.ourMessageIndex <= a /\ old.theirMessageIndex <= nV
  BY <1>1 DEF Ordered, OrderOK
<1>5. /\ Marked(L, "local", old.ourMessageIndex, old.height, old.ourMessageIndex, old.height)
      /\ Marked(R, "local", old.theirMessageIndex, old.height, old.theirMessageIndex, old.height)
  BY <1>1 DEF EntriesInv
<1> HIDE DEF n, k, a, nV, kV, old
<1> QED
  <2>1. Extends(m, "local", old, a, nV, n, k, nV, kV)
    BY <1>1, <1>3, <1>4, <1>5 DEF Extends
  <2> QED
    BY <2>1 DEF n, k, a, nV, kV, old

\* What signing, and later revoking, leaves alone.
SameUpdates(m, new) ==
    /\ Ups(new.localLog.entries) = Ups(m.localLog.entries)
    /\ Ups(new.remoteLog.entries) = Ups(m.remoteLog.entries)
SignKeeps(m, d, s) ==
    /\ SameUpdates(m, s.mem) /\ s.disk.fwdPkgs = d.fwdPkgs
    /\ s.disk.local = d.local /\ s.disk.remote = d.remote

LEMMA SignLogs ==
    ASSUME NEW m, NEW d, PartyLogs(m, d),
           NEW s, s = SignNextCommitment(m, d), s.err = "none"
    PROVE  PartyLogs(s.mem, s.disk) /\ SignKeeps(m, d, s)
<1> DEFINE view == SignView(m, d)
           c == view.commit
           T == createCommitDiff(view.mem, c)
           L == m.localLog.entries
           R == m.remoteLog.entries
           L2 == view.mem.localLog.entries
           R2 == view.mem.remoteLog.entries
           n == m.localLog.logIndex
           k == m.localLog.htlcCounter
           nV == m.remoteLog.logIndex
           kV == m.remoteLog.htlcCounter
           b == d.local.theirMessageIndex
           old == d.remote
           e == s.disk
<1>1. /\ m \in AnyMemory /\ d \in AnyDisk /\ m.localLog \in AnyLog /\ m.remoteLog \in AnyLog
      /\ L \in SUBSET AnyEntry /\ R \in SUBSET AnyEntry
      /\ Ups(L) \in SUBSET AnyUpdate /\ Ups(R) \in SUBSET AnyUpdate
      /\ n \in Nat /\ k \in Nat /\ nV \in Nat /\ kV \in Nat
      /\ UpdatesInv(Ups(L), n, k, Ups(R), nV, kV, d)
      /\ EntriesInv(L, R, d) /\ OrderOK(d, n, nV) /\ Ordered(d)
      /\ Distinct(Ups(L), n, k) /\ Distinct(Ups(R), nV, kV)
      /\ Entries(L) /\ Entries(R) /\ \A f \in L : f.logIndex < n
      /\ d.local.height \in Nat /\ d.remote.height \in Nat
  BY PartyFactsOf
<1>2. /\ d.pending = <<>> /\ view.ok /\ c \in AnyCommit /\ view.mem \in AnyMemory
      /\ s.mem.localLog = view.mem.localLog /\ s.mem.remoteLog = view.mem.remoteLog
      /\ e = [d EXCEPT !.lastWasRevoke = FALSE, !.pending = <<[commit |-> c, updates |-> T]>>]
      /\ e \in AnyDisk /\ s.mem \in AnyMemory /\ ChainsOf(s.mem, e)
  <2>1. m \in AnyMemory /\ d \in AnyDisk /\ ChainsOf(m, d)
    BY DEF PartyLogs
  <2> QED
    <3>1. IsSigned(m, d, view, s)
      BY <2>1, SignedIs
    <3> HIDE DEF view
    <3> QED
      BY <3>1 DEF IsSigned
<1>3. /\ Tip(d) = old /\ old \in AnyCommit /\ tip(ChainOf(m, "remote")) = old /\ "remote" \in Chains
      /\ "local" \in Chains
      /\ b \in Nat /\ d.local.theirHtlcIndex \in Nat /\ old.ourMessageIndex \in Nat
      /\ old.ourMessageIndex <= n /\ old.theirMessageIndex <= b /\ old.theirMessageIndex \in Nat
      /\ d.local.ourMessageIndex \in Nat /\ old.height \in Nat
  <2>1. Tip(d) = old
    BY <1>2 DEF Tip
  <2>2. ChainsOf(m, d)
    BY DEF PartyLogs
  <2>3. tip(ChainOf(m, "remote")) = old
    BY <1>1, <1>2, <2>2, ChainFacts DEF ChainOf
  <2> QED
    BY <1>1, <2>1, <2>3 DEF Ordered, OrderOK, Chains
<1>4. /\ NextOK(m, view.mem, "remote", old, c, n, b)
      /\ c.ourHtlcIndex = k /\ c.theirHtlcIndex = d.local.theirHtlcIndex
      /\ c.height = old.height + 1
  <2>1. view = fetchCommitmentView(m, "remote", n, k, b, d.local.theirHtlcIndex)
    BY DEF SignView
  <2>2. Extends(m, "remote", old, n, b, n, k, nV, kV)
    BY <1>2, SignExtends
  <2> HIDE DEF view, n, k, b, nV, kV, old
  <2> QED
    BY <1>1, <1>2, <1>3, <2>1, <2>2, NextIs
<1> HIDE DEF view, T
<1>5. /\ Parents(Ups(R), Ups(L), old.theirMessageIndex, n)
      /\ CommitOK(c, Ups(L), Ups(R)) /\ c.ourMessageIndex = n /\ c.theirMessageIndex = b
      /\ Restamped(L, L2, "remote", old.ourMessageIndex, old.height, n)
      /\ Restamped(R, R2, "remote", old.theirMessageIndex, old.height, b)
      /\ view.mem.localLog.logIndex = n /\ view.mem.localLog.htlcCounter = k
      /\ view.mem.remoteLog.logIndex = nV /\ view.mem.remoteLog.htlcCounter = kV
      /\ view.mem.localLog.modified = m.localLog.modified
      /\ view.mem.remoteLog.modified = m.remoteLog.modified
  BY <1>1, <1>4 DEF NextOK, AnyLog
<1>6. /\ L2 \in SUBSET AnyEntry /\ Ups(L2) = Ups(L) /\ Entries(L2)
      /\ R2 \in SUBSET AnyEntry /\ Ups(R2) = Ups(R) /\ Entries(R2)
      /\ Marked(L2, "remote", old.ourMessageIndex, old.height, n, old.height + 1)
      /\ Marked(R2, "remote", old.theirMessageIndex, old.height, b, old.height + 1)
  BY <1>5 DEF Restamped
<1>7. T = Cut(Ups(L), old.ourMessageIndex, n)
  <2>1. \A f \in L2 : f.logIndex < n
    BY <1>1, <1>6, UpsFacts DEF Distinct
  <2>2. /\ L2 \in SUBSET AnyEntry /\ view.mem.localLog.entries = L2 /\ old.height \in Nat
        /\ c.height = old.height + 1 /\ old.ourMessageIndex \in Nat /\ n \in Nat /\ Entries(L2)
        /\ Marked(L2, "remote", old.ourMessageIndex, old.height, n, old.height + 1)
    BY <1>1, <1>3, <1>4, <1>6
  <2> HIDE DEF n, old, c, L2
  <2>3. createCommitDiff(view.mem, c) = Cut(Ups(L2), old.ourMessageIndex, n)
    <3> DEFINE w == view.mem
               h == old.height
               i == old.ourMessageIndex
    <3>1. /\ w.localLog.entries = L2 /\ h \in Nat /\ c.height = h + 1 /\ i \in Nat
          /\ Marked(L2, "remote", i, h, n, h + 1)
      BY <2>2
    <3> HIDE DEF w, h, i
    <3>2. createCommitDiff(w, c) = Cut(Ups(L2), i, n)
      BY <2>1, <2>2, <3>1, DiffIs
    <3> QED
      BY <3>2 DEF w, i
  <2> QED
    BY <1>6, <2>3 DEF T
<1>8. /\ Tip(e) = c /\ DiffOf(e) = T /\ e.local = d.local /\ e.remote = d.remote
      /\ e.unsignedAcked = d.unsignedAcked /\ e.ackedStored = d.ackedStored
      /\ e.remoteUnsignedLocal = d.remoteUnsignedLocal /\ e.pending # <<>>
      /\ e.pending[1].commit = c
  BY <1>1, <1>2 DEF Tip, DiffOf, AnyDisk
<1>9. UpdatesInv(Ups(L), n, k, Ups(R), nV, kV, e)
  <2> HIDE DEF n, k, nV, kV, L, R, e, c
  <2>1. DiffOf(e) = Cut(Ups(L), d.remote.ourMessageIndex, n)
        /\ c.theirMessageIndex = d.local.theirMessageIndex
    BY <1>5, <1>7, <1>8
  <2>2. /\ d \in AnyDisk /\ Ups(L) \in SUBSET AnyUpdate /\ Ups(R) \in SUBSET AnyUpdate
        /\ n \in Nat /\ k \in Nat /\ nV \in Nat /\ kV \in Nat
        /\ UpdatesInv(Ups(L), n, k, Ups(R), nV, kV, d) /\ d.pending = <<>>
        /\ c \in AnyCommit /\ CommitOK(c, Ups(L), Ups(R)) /\ c.ourMessageIndex = n
        /\ c.ourHtlcIndex = k /\ e \in AnyDisk
        /\ Parents(Ups(R), Ups(L), d.remote.theirMessageIndex, n)
    BY <1>1, <1>2, <1>4, <1>5
  <2> QED
    BY <1>8, <2>1, <2>2, SignUpdates
<1>10. EntriesInv(L2, R2, e)
  <2>1. "local" # "remote"
    OBVIOUS
  <2>2. /\ Marked(L2, "local", d.local.ourMessageIndex, d.local.height,
                  d.local.ourMessageIndex, d.local.height)
        /\ Marked(R2, "local", d.local.theirMessageIndex, d.local.height,
                  d.local.theirMessageIndex, d.local.height)
    BY <1>1, <1>3, <1>5, <2>1 DEF EntriesInv, Restamped
  <2> QED
    BY <1>3, <1>4, <1>5, <1>6, <1>8, <2>2 DEF EntriesInv
<1>11. m.localLog.modified = Removed(R2) /\ m.remoteLog.modified = Removed(L2)
  BY <1>1, <1>6, RemovedUps DEF PartyLogs, LogsInv
<1>12. PendingNext(e)
  BY <1>4, <1>8 DEF PendingNext
<1>13. LogsInv(s.mem.localLog, s.mem.remoteLog, e)
  BY <1>2, <1>5, <1>6, <1>9, <1>10, <1>11 DEF LogsInv
<1>14. SignKeeps(m, d, s)
  <2>1. e.fwdPkgs = d.fwdPkgs
    BY <1>1, <1>2 DEF AnyDisk
  <2> QED
    BY <1>2, <1>6, <1>8, <2>1 DEF SignKeeps, SameUpdates
<1> QED
  BY <1>2, <1>12, <1>13, <1>14 DEF PartyLogs
-----------------------------------------------------------------------------
(* Verifying a signature and revoking. *)

LEMMA RevokedIs ==
    ASSUME NEW m \in AnyMemory, NEW d \in AnyDisk, ChainsOf(m, d), NEW tx,
           NEW n, n = ReceiveNewCommitment(m, tx), n.ok,
           NEW r, r = RevokeCurrentCommitment(n.mem, d)
    PROVE  IsRevoked(m, d, RevokeView(m, d), r)
<1> DEFINE view == RevokeView(m, d)
           c == view.commit
           W == WithinConstraints(evaluateHTLCView(m, fetchHTLCView(m, m.remoteLog.logIndex,
                             d.remote.ourMessageIndex, {}, {}), "local"), d.local)
<1>1. /\ tail(m.remoteChain) = d.remote /\ tip(m.localChain) = d.local
      /\ tip(ChainOf(m, "local")) = d.local /\ d.local \in AnyCommit /\ d.remote \in AnyCommit
      /\ "local" \in Chains /\ m.localChain = <<d.local>>
      /\ m.remoteLog.logIndex \in Nat /\ m.remoteLog.htlcCounter \in Nat
  BY ChainFacts DEF ChainOf, Chains, ChainsOf
<1>2. validateCommitmentSanity(m, m.remoteLog.logIndex, d.remote.ourMessageIndex, "local", {}, {}) <=> W
  BY <1>1 DEF validateCommitmentSanity
<1>3. /\ view.ok /\ W
      /\ n.mem = [view.mem EXCEPT !.localChain = Append(@, c)]
  <2> HIDE DEF W
  <2> QED
    BY <1>1, <1>2 DEF ReceiveNewCommitment, RevokeView
<1>4. CommitmentOK(m, "local", view)
  <2>1. d.remote.ourMessageIndex \in Nat /\ d.remote.ourHtlcIndex \in Nat
    BY <1>1, CommitIndices
  <2> QED
    BY <1>1, <2>1, CommitmentType DEF RevokeView
<1> HIDE DEF view, W
<1>5. view.mem.localChain = <<d.local>> /\ c \in AnyCommit /\ view.mem \in AnyMemory
  BY <1>1, <1>4 DEF CommitmentOK
<1>6. n.mem = [view.mem EXCEPT !.localChain = <<d.local, c>>]
  BY <1>1, <1>3, <1>5, AppendToOne
<1> DEFINE m2 == [n.mem EXCEPT !.localChain = Tail(@)]
<1>7. r.mem = m2 /\ r.disk = UpdateCommitment(d, tail(m2.localChain), getUnsignedAckedUpdates(m2))
  BY DEF RevokeCurrentCommitment
<1>8. m2 = [n.mem EXCEPT !.localChain = <<c>>] /\ n.mem \in AnyMemory
  <2>1. Tail(<<d.local, c>>) = <<c>> /\ <<d.local, c>> \in Seq(AnyCommit)
    BY <1>1, <1>5
  <2>2. n.mem.localChain = <<d.local, c>> /\ n.mem \in AnyMemory
    BY <1>5, <1>6, <2>1 DEF AnyMemory
  <2> QED
    BY <2>1, <2>2
<1>9. m2.localLog = view.mem.localLog /\ m2.remoteLog = view.mem.remoteLog /\ tail(m2.localChain) = c
  BY <1>5, <1>6, <1>8 DEF AnyMemory, tail
<1> HIDE DEF m2
<1>10. PICK c2 \in AnyCommit : RevokedOK(d, c2, r)
  BY ReceiveSignature
<1>11. r.disk.local = c
  <2>1. r.disk = [d EXCEPT !.local = c,
              !.unsignedAcked = getUnsignedAckedUpdates(m2),
              !.ackedStored = TRUE,
              !.lastWasRevoke = TRUE,
              !.remoteUnsignedLocal = {u \in @ : u.logIndex >= c.ourMessageIndex}]
    BY <1>7, <1>9 DEF UpdateCommitment
  <2> QED
    BY <2>1 DEF AnyDisk
<1>12. /\ r.disk \in AnyDisk /\ r.mem \in AnyMemory /\ ChainsOf(r.mem, r.disk)
       /\ r.disk.remote = d.remote /\ r.disk.pending = d.pending
  BY <1>10 DEF RevokedOK
<1> QED
  BY <1>3, <1>5, <1>7, <1>9, <1>11, <1>12 DEF IsRevoked, view, W

RevokeKeeps(m, d, r) ==
    /\ SameUpdates(m, r.mem) /\ r.disk.fwdPkgs = d.fwdPkgs
    /\ r.disk.remote = d.remote /\ r.disk.pending = d.pending
    /\ r.disk.local.theirHtlcIndex = m.remoteLog.htlcCounter

LEMMA RevokeLogs ==
    ASSUME NEW m, NEW d, PartyLogs(m, d), NEW r, IsRevoked(m, d, RevokeView(m, d), r)
    PROVE  PartyLogs(r.mem, r.disk) /\ RevokeKeeps(m, d, r)
<1> DEFINE view == RevokeView(m, d)
           c == view.commit
           L == m.localLog.entries
           R == m.remoteLog.entries
           L2 == view.mem.localLog.entries
           R2 == view.mem.remoteLog.entries
           n == m.localLog.logIndex
           k == m.localLog.htlcCounter
           nV == m.remoteLog.logIndex
           kV == m.remoteLog.htlcCounter
           a == d.remote.ourMessageIndex
           old == d.local
           e == r.disk
<1>1. /\ m \in AnyMemory /\ d \in AnyDisk /\ m.localLog \in AnyLog /\ m.remoteLog \in AnyLog
      /\ L \in SUBSET AnyEntry /\ R \in SUBSET AnyEntry
      /\ Ups(L) \in SUBSET AnyUpdate /\ Ups(R) \in SUBSET AnyUpdate
      /\ n \in Nat /\ k \in Nat /\ nV \in Nat /\ kV \in Nat
      /\ UpdatesInv(Ups(L), n, k, Ups(R), nV, kV, d)
      /\ EntriesInv(L, R, d) /\ OrderOK(d, n, nV) /\ Ordered(d)
      /\ Distinct(Ups(L), n, k) /\ Distinct(Ups(R), nV, kV)
      /\ Entries(L) /\ Entries(R)
      /\ d.local.height \in Nat /\ d.remote.height \in Nat /\ Tip(d).height \in Nat
  BY PartyFactsOf
<1> HIDE DEF view
<1>2. /\ view.ok /\ c \in AnyCommit /\ view.mem \in AnyMemory
      /\ r.mem.localLog = view.mem.localLog /\ r.mem.remoteLog = view.mem.remoteLog
      /\ e = UpdateCommitment(d, c, getUnsignedAckedUpdates(r.mem))
      /\ e \in AnyDisk /\ r.mem \in AnyMemory /\ ChainsOf(r.mem, e)
      /\ e.local = c /\ e.remote = d.remote /\ e.pending = d.pending
  BY DEF IsRevoked, view
<1>3. /\ old \in AnyCommit /\ tip(ChainOf(m, "local")) = old /\ "remote" \in Chains
      /\ "local" \in Chains
      /\ a \in Nat /\ d.remote.ourHtlcIndex \in Nat
      /\ old.ourMessageIndex \in Nat /\ old.theirMessageIndex \in Nat
      /\ old.ourMessageIndex <= a /\ old.theirMessageIndex <= nV
      /\ d.remote.theirMessageIndex \in Nat /\ Tip(d).ourMessageIndex \in Nat
      /\ Tip(d).theirMessageIndex \in Nat /\ old.height \in Nat
  <2>2. ChainsOf(m, d)
    BY DEF PartyLogs
  <2>3. tip(ChainOf(m, "local")) = old
    BY <1>1, <2>2, ChainFacts DEF ChainOf
  <2> QED
    BY <1>1, <2>3 DEF Ordered, OrderOK, Chains
<1>4. /\ NextOK(m, view.mem, "local", old, c, a, nV)
      /\ c.ourHtlcIndex = d.remote.ourHtlcIndex /\ c.theirHtlcIndex = kV
      /\ c.height = old.height + 1
  <2>1. view = fetchCommitmentView(m, "local", a, d.remote.ourHtlcIndex, nV, kV)
    BY DEF RevokeView, view
  <2>2. Extends(m, "local", old, a, nV, n, k, nV, kV)
    BY RevokeExtends
  <2> HIDE DEF n, k, a, nV, kV, old
  <2> QED
    BY <1>1, <1>2, <1>3, <2>1, <2>2, NextIs
<1>5. /\ CommitOK(c, Ups(L), Ups(R)) /\ c.ourMessageIndex = a /\ c.theirMessageIndex = nV
      /\ Restamped(L, L2, "local", old.ourMessageIndex, old.height, a)
      /\ Restamped(R, R2, "local", old.theirMessageIndex, old.height, nV)
      /\ view.mem.localLog.logIndex = n /\ view.mem.localLog.htlcCounter = k
      /\ view.mem.remoteLog.logIndex = nV /\ view.mem.remoteLog.htlcCounter = kV
      /\ view.mem.localLog.modified = m.localLog.modified
      /\ view.mem.remoteLog.modified = m.remoteLog.modified
  BY <1>1, <1>4 DEF NextOK, AnyLog
<1>6. /\ L2 \in SUBSET AnyEntry /\ Ups(L2) = Ups(L) /\ Entries(L2)
      /\ R2 \in SUBSET AnyEntry /\ Ups(R2) = Ups(R) /\ Entries(R2)
      /\ Marked(L2, "local", a, old.height + 1, a, old.height + 1)
      /\ Marked(R2, "local", nV, old.height + 1, nV, old.height + 1)
  BY <1>5 DEF Restamped
<1>7. getUnsignedAckedUpdates(r.mem) = Cut(Ups(R), d.remote.theirMessageIndex, nV)
  <2>1. tail(r.mem.remoteChain) = d.remote /\ tail(r.mem.localChain) = c
    BY <1>2, ChainFacts
  <2>2. getUnsignedAckedUpdates(r.mem)
            = {Update(x) : x \in {y \in R2 : d.remote.theirMessageIndex <= y.logIndex
                                              /\ y.logIndex < nV}}
    BY <1>2, <1>5, <2>1 DEF getUnsignedAckedUpdates
  <2>3. Cut(Ups(R2), d.remote.theirMessageIndex, nV)
            = {Update(x) : x \in {y \in R2 : d.remote.theirMessageIndex <= y.logIndex
                                              /\ y.logIndex < nV}}
    BY <1>6, UpsFacts DEF Cut, Ups
  <2> QED
    BY <1>6, <2>2, <2>3
<1>8. /\ e.unsignedAcked = Cut(Ups(R), d.remote.theirMessageIndex, nV) /\ e.ackedStored
      /\ e.remoteUnsignedLocal = {u \in d.remoteUnsignedLocal : u.logIndex >= c.ourMessageIndex}
  BY <1>1, <1>2, <1>7 DEF UpdateCommitment, AnyDisk
<1>9. UpdatesInv(Ups(L), n, k, Ups(R), nV, kV, e)
  <2> HIDE DEF n, k, nV, kV, L, R, e, c
  <2>1. /\ d \in AnyDisk /\ Ups(L) \in SUBSET AnyUpdate /\ Ups(R) \in SUBSET AnyUpdate
        /\ n \in Nat /\ k \in Nat /\ nV \in Nat /\ kV \in Nat
        /\ UpdatesInv(Ups(L), n, k, Ups(R), nV, kV, d)
        /\ c \in AnyCommit /\ CommitOK(c, Ups(L), Ups(R))
        /\ c.ourMessageIndex = d.remote.ourMessageIndex
        /\ c.theirMessageIndex = nV /\ c.theirHtlcIndex = kV /\ e \in AnyDisk
    BY <1>1, <1>2, <1>4, <1>5
  <2>2. e.local = c /\ e.remote = d.remote /\ e.pending = d.pending
    BY <1>2
  <2> QED
    BY <1>8, <2>1, <2>2, RevokeUpdates
<1>10. Tip(e) = Tip(d)
  BY <1>2 DEF Tip
<1>11. EntriesInv(L2, R2, e)
  <2>1. "local" # "remote"
    OBVIOUS
  <2>2. /\ Marked(L2, "remote", d.remote.ourMessageIndex, d.remote.height,
                  Tip(d).ourMessageIndex, Tip(d).height)
        /\ Marked(R2, "remote", d.remote.theirMessageIndex, d.remote.height,
                  Tip(d).theirMessageIndex, Tip(d).height)
    BY <1>1, <1>3, <1>5, <2>1 DEF EntriesInv, Restamped
  <2> QED
    BY <1>2, <1>4, <1>5, <1>6, <1>10, <2>2 DEF EntriesInv
<1>12. m.localLog.modified = Removed(R2) /\ m.remoteLog.modified = Removed(L2)
  BY <1>1, <1>6, RemovedUps DEF PartyLogs, LogsInv
<1>13. PendingNext(e)
  BY <1>2 DEF PendingNext, PartyLogs
<1>14. LogsInv(r.mem.localLog, r.mem.remoteLog, e)
  BY <1>2, <1>5, <1>6, <1>9, <1>11, <1>12 DEF LogsInv
<1>15. RevokeKeeps(m, d, r)
  <2>1. e.fwdPkgs = d.fwdPkgs
    BY <1>1, <1>2 DEF UpdateCommitment, AnyDisk
  <2> QED
    BY <1>2, <1>4, <1>6, <2>1 DEF RevokeKeeps, SameUpdates
<1> QED
  BY <1>2, <1>13, <1>14, <1>15 DEF PartyLogs
-----------------------------------------------------------------------------
(* The peer's revocation: what is forwarded is marked, and the logs are compacted. *)

LEMMA FlaggedEntries ==
    ASSUME NEW S \in SUBSET AnyEntry, NEW F
    PROVE  /\ Flagged(S, F) \in SUBSET AnyEntry /\ Ups(Flagged(S, F)) = Ups(S)
           /\ Entries(S) => Entries(Flagged(S, F))
           /\ \A c, i, h, j, t : Marked(S, c, i, h, j, t) => Marked(Flagged(S, F), c, i, h, j, t)
<1>1. ASSUME NEW e \in S
      PROVE  LET f == Flag(F, e)
             IN  /\ f \in AnyEntry /\ Update(f) = Update(e) /\ f.logIndex = e.logIndex
                 /\ Marks(f) = Marks(e)
                 /\ Shape(e) => Shape(f)
  BY DEF AnyEntry, Flag, Update, LogUpdate, Marks, Shape, IsAdd, IsRemoval
<1>2. Flagged(S, F) \in SUBSET AnyEntry
  BY <1>1 DEF Flagged
<1>3. Ups(Flagged(S, F)) = Ups(S)
  <2>1. Ups(Flagged(S, F)) = {Update(Flag(F, e)) : e \in S}
    BY DEF Ups, Flagged
  <2> QED
    BY <1>1, <2>1 DEF Ups
<1>4. Entries(S) => Entries(Flagged(S, F))
  BY <1>1 DEF Entries, Flagged
<1>5. ASSUME NEW c, NEW i, NEW h, NEW j, NEW t, Marked(S, c, i, h, j, t)
      PROVE  Marked(Flagged(S, F), c, i, h, j, t)
  BY <1>1, <1>5 DEF Marked, Flagged
<1> QED
  BY <1>2, <1>3, <1>4, <1>5

\* Done of compactLogs.
DoneOf(S, localTail, remoteTail) ==
    {e \in S : /\ e.type # "Add"
               /\ e.rm["remote"] # 0 /\ e.rm["local"] # 0
               /\ remoteTail >= e.rm["remote"] /\ localTail >= e.rm["local"]}

LEMMA CompactIs ==
    ASSUME NEW a \in AnyLog, NEW b \in AnyLog, NEW i, NEW j
    PROVE  LET logs == compactLogs(a, b, i, j)
               A == DoneOf(a.entries, i, j)
               B == DoneOf(b.entries, i, j)
           IN  /\ logs.ours = Trimmed(a, Left(a.entries, A, B), Removed(B))
               /\ logs.theirs = Trimmed(b, Left(b.entries, B, A), Removed(A))
BY DEF compactLogs, DoneOf, Left, AnyLog, Trimmed

LEMMA DoneIs ==
    ASSUME NEW S \in SUBSET AnyEntry, Entries(S), NEW i \in Nat, NEW hl \in Nat,
           NEW j \in Nat, NEW hr \in Nat, NEW t \in Nat, NEW h \in Nat, h = hr + 1, NEW x \in Nat,
           Marked(S, "local", i, hl, i, hl), Marked(S, "remote", j, hr, t, h), j <= t,
           x <= i, x <= t, i <= x \/ t <= x
    PROVE  DoneOf(S, hl, h) = Finished(S, x)
<1> SUFFICES ASSUME NEW e \in S, ~IsAdd(e)
             PROVE  (/\ e.rm["remote"] # 0 /\ e.rm["local"] # 0
                     /\ h >= e.rm["remote"] /\ hl >= e.rm["local"]) <=> e.logIndex < x
  BY DEF DoneOf, Finished, IsAdd
<1>1. Marks(e) = e.rm
  BY DEF Marks
<1>2. e.rm["remote"] \in Nat /\ e.rm["local"] \in Nat /\ e.logIndex \in Nat
  BY EntryFields DEF Chains
<1> QED
  BY <1>1, <1>2 DEF Marked

LEMMA LeftUps ==
    ASSUME NEW A \in SUBSET AnyEntry, NEW B \in SUBSET AnyEntry, NEW x \in Nat, NEW y \in Nat,
           Answers(Ups(B), Ups(A))
    PROVE  /\ Ups(Left(A, Finished(A, x), Finished(B, y))) = Compacted(Ups(A), Ups(B), x, y)
           /\ Removed(Left(B, Finished(B, y), Finished(A, x))) = Removed(B) \ Removed(Finished(B, y))
<1> DEFINE K == Left(A, Finished(A, x), Finished(B, y))
<1>1. \A e \in AnyEntry : e.logIndex \in Nat /\ ~(IsAdd(e) /\ IsRemoval(e))
  BY EntryFields
<1>2. \A h : h \in Removed(Finished(B, y)) <=> Off(Ups(B), y, h)
  BY <1>1, RemovedIs, UpsFacts DEF Finished, Off
<1>3. \A e \in A : e \in K <=> /\ ~IsAdd(e) => x <= e.logIndex
                               /\ IsAdd(e) => ~Off(Ups(B), y, e.htlc)
  BY <1>1, <1>2 DEF Left, Finished, IsAdd
<1>4. K \subseteq A
  BY DEF Left
<1> HIDE DEF K
<1>5. Ups(K) = Compacted(Ups(A), Ups(B), x, y)
  <2>1. \A u : u \in Ups(K) <=> \E e \in A : u = Update(e) /\ e \in K
    BY <1>4 DEF Ups
  <2>2. \A u : u \in Compacted(Ups(A), Ups(B), x, y)
            <=> \E e \in A : u = Update(e) /\ (~IsAdd(e) => x <= e.logIndex)
                                           /\ (IsAdd(e) => ~Off(Ups(B), y, e.htlc))
    BY UpsFacts DEF Compacted
  <2> QED
    BY <1>3, <2>1, <2>2
<1>6. Removed(Left(B, Finished(B, y), Finished(A, x))) = Removed(B) \ Removed(Finished(B, y))
  <2>1. \A r, q \in B : IsRemoval(r) /\ IsRemoval(q) /\ r.htlc = q.htlc => r.logIndex = q.logIndex
    BY UpsFacts DEF Answers
  <2>2. \A r \in B : IsRemoval(r) => /\ r \in Left(B, Finished(B, y), Finished(A, x)) <=> ~(r.logIndex < y)
                                     /\ r \in Finished(B, y) <=> r.logIndex < y
    BY <1>1 DEF Left, Finished, IsAdd
  <2>3. Left(B, Finished(B, y), Finished(A, x)) \subseteq B /\ Finished(B, y) \subseteq B
    BY DEF Left, Finished
  <2> QED
    BY <2>1, <2>2, <2>3, RemovedIs
<1> QED
  BY <1>5, <1>6 DEF K

LEMMA AdvancedIs ==
    ASSUME NEW m, NEW d, PartyLogs(m, d), d.pending # <<>>, NEW h,
           NEW r, r = ReceiveRevocation(m, d, h)
    PROVE  IsAdvanced(m, d, r)
<1> DEFINE L == m.localLog.entries
           R == m.remoteLog.entries
           fwd == ToForward(m)
           x == d.local.ourMessageIndex
           y == Tip(d).theirMessageIndex
           rt == d.remote.height + 1
           B == Flagged(R, fwd)
           marked == [m.remoteLog EXCEPT !.entries = B]
           logs == compactLogs(m.localLog, marked, d.local.height, rt)
           T == unsignedLocalUpdates(m, Tip(d).ourMessageIndex, d.local.ourMessageIndex)
           pkg == NewPackage(m, d)
<1>1. /\ m \in AnyMemory /\ d \in AnyDisk /\ m.localLog \in AnyLog /\ m.remoteLog \in AnyLog
      /\ L \in SUBSET AnyEntry /\ R \in SUBSET AnyEntry
      /\ EntriesInv(L, R, d) /\ Ordered(d) /\ Entries(L) /\ Entries(R)
      /\ d.local.height \in Nat /\ d.remote.height \in Nat
  BY PartyFactsOf
<1>2. /\ tail(m.remoteChain) = d.remote /\ tail(m.localChain) = d.local
      /\ tip(m.remoteChain) = Tip(d) /\ Tip(d) = d.pending[1].commit
      /\ Tip(d).height = rt
  <2>1. ChainsOf(m, d) /\ PendingNext(d)
    BY DEF PartyLogs
  <2> QED
    BY <1>1, <2>1, ChainFacts DEF Tip, PendingNext
<1>3. /\ r.mem = [m EXCEPT !.localLog = logs.ours, !.remoteLog = logs.theirs, !.remoteChain = Tail(@)]
      /\ r.disk = AdvanceCommitChainTail(d, pkg, T)
  BY <1>1, <1>2 DEF ReceiveRevocation, NewPackage, Flagged, Flag, AnyLog
<1>4. marked \in AnyLog /\ marked.entries = B
  <2>1. B \in SUBSET AnyEntry /\ B = {IF e \in fwd THEN [e EXCEPT !.forwarded = TRUE] ELSE e : e \in R}
    BY <1>1, FlaggedEntries DEF Flagged, Flag
  <2>2. marked \in AnyLog
    <3> HIDE DEF fwd
    <3> QED
      BY <1>1, <2>1, ForwardMarkType
  <2> QED
    BY <1>1, <2>2 DEF AnyLog
<1>5. /\ DoneOf(L, d.local.height, rt) = Finished(L, x)
      /\ DoneOf(B, d.local.height, rt) = Finished(B, y)
  <2>1. /\ x \in Nat /\ y \in Nat /\ d.remote.ourMessageIndex \in Nat /\ Tip(d).ourMessageIndex \in Nat
        /\ d.remote.theirMessageIndex \in Nat /\ d.local.theirMessageIndex \in Nat
        /\ d.remote.ourMessageIndex <= Tip(d).ourMessageIndex /\ x <= x /\ y <= y
        /\ x <= Tip(d).ourMessageIndex /\ y <= d.local.theirMessageIndex
        /\ d.remote.theirMessageIndex <= y
    BY <1>1 DEF Ordered
  <2>2. /\ Marked(L, "local", x, d.local.height, x, d.local.height)
        /\ Marked(L, "remote", d.remote.ourMessageIndex, d.remote.height,
                  Tip(d).ourMessageIndex, rt)
    BY <1>1, <1>2 DEF EntriesInv
  <2>3. /\ Marked(B, "local", d.local.theirMessageIndex, d.local.height,
                  d.local.theirMessageIndex, d.local.height)
        /\ Marked(B, "remote", d.remote.theirMessageIndex, d.remote.height,
                  y, rt)
        /\ B \in SUBSET AnyEntry /\ Entries(B)
    BY <1>1, <1>2, FlaggedEntries DEF EntriesInv
  <2> HIDE DEF x, y, L, R, B
  <2>4. rt \in Nat /\ rt = d.remote.height + 1
    BY <1>1
  <2> HIDE DEF rt
  <2>5. DoneOf(L, d.local.height, rt) = Finished(L, x)
    <3> DEFINE j == d.remote.ourMessageIndex
               hr == d.remote.height
               hl == d.local.height
               t == Tip(d).ourMessageIndex
    <3>1. /\ L \in SUBSET AnyEntry /\ Entries(L) /\ x \in Nat /\ hl \in Nat /\ j \in Nat /\ hr \in Nat
          /\ t \in Nat /\ rt \in Nat /\ rt = hr + 1 /\ Marked(L, "local", x, hl, x, hl)
          /\ Marked(L, "remote", j, hr, t, rt) /\ j <= t /\ x <= x /\ x <= t
      BY <1>1, <2>1, <2>2, <2>4
    <3> HIDE DEF j, hr, hl, t
    <3>2. DoneOf(L, hl, rt) = Finished(L, x)
      BY <3>1, DoneIs
    <3> QED
      BY <3>2 DEF hl
  <2>6. DoneOf(B, d.local.height, rt) = Finished(B, y)
    <3> DEFINE j == d.remote.theirMessageIndex
               hr == d.remote.height
               hl == d.local.height
               i == d.local.theirMessageIndex
    <3>1. /\ B \in SUBSET AnyEntry /\ Entries(B) /\ y \in Nat /\ hl \in Nat /\ j \in Nat /\ hr \in Nat
          /\ i \in Nat /\ rt \in Nat /\ rt = hr + 1 /\ Marked(B, "local", i, hl, i, hl)
          /\ Marked(B, "remote", j, hr, y, rt) /\ j <= y /\ y <= i /\ y <= y
      BY <1>1, <2>1, <2>3, <2>4
    <3> HIDE DEF j, hr, hl, i
    <3>2. DoneOf(B, hl, rt) = Finished(B, y)
      BY <3>1, DoneIs
    <3> QED
      BY <3>2 DEF hl
  <2> QED
    BY <2>5, <2>6
<1>6. /\ logs.ours = Trimmed(m.localLog, Left(L, Finished(L, x), Finished(B, y)), Removed(Finished(B, y)))
      /\ logs.theirs = Trimmed(m.remoteLog, Left(B, Finished(B, y), Finished(L, x)), Removed(Finished(L, x)))
  <2>1. /\ logs.ours = Trimmed(m.localLog, Left(L, Finished(L, x), Finished(B, y)), Removed(Finished(B, y)))
        /\ logs.theirs = Trimmed(marked, Left(B, Finished(B, y), Finished(L, x)), Removed(Finished(L, x)))
    <3> HIDE DEF marked, x, y, B, rt
    <3> QED
      BY <1>1, <1>4, <1>5, CompactIs
  <2>2. \A S, G : Trimmed(marked, S, G) = Trimmed(m.remoteLog, S, G)
    BY <1>1 DEF AnyLog, Trimmed
  <2> QED
    BY <2>1, <2>2
<1>7. T = {u \in Cut(Ups(L), d.local.ourMessageIndex, Tip(d).ourMessageIndex) : ~IsAdd(u)}
  <2> DEFINE P(e) == /\ e.type # "Add" /\ d.local.ourMessageIndex <= e.logIndex
                     /\ e.logIndex < Tip(d).ourMessageIndex
  <2>1. \A u : u \in T <=> \E e \in L : u = Update(e) /\ P(e)
    BY DEF unsignedLocalUpdates
  <2>2. \A e \in L : P(e) <=> P(Update(e))
    BY <1>1, UpsFacts
  <2>3. \A u : u \in Ups(L) <=> \E e \in L : u = Update(e)
    BY DEF Ups
  <2>4. \A u : u \in {w \in Cut(Ups(L), d.local.ourMessageIndex, Tip(d).ourMessageIndex) : ~IsAdd(w)}
            <=> u \in Ups(L) /\ P(u)
    BY DEF Cut, IsAdd
  <2> HIDE DEF P, T
  <2> QED
    BY <2>1, <2>2, <2>3, <2>4
<1>8. /\ r.mem \in AnyMemory /\ r.disk \in AnyDisk /\ ChainsOf(r.mem, r.disk)
      /\ r.disk.local = d.local /\ r.disk.remote = Tip(d) /\ r.disk.pending = <<>>
  <2>1. ChainsOf(m, d)
    BY DEF PartyLogs
  <2> QED
    BY <1>1, <1>2, <2>1, ReceiveRevokes DEF AdvancedOK
<1> HIDE DEF logs, T, pkg, marked
<1>9. r.mem.localLog = logs.ours /\ r.mem.remoteLog = logs.theirs
  BY <1>1, <1>3 DEF AnyMemory
<1>10. /\ r.disk.ackedStored = d.ackedStored
       /\ r.disk.unsignedAcked =
               IF d.ackedStored THEN {u \in d.unsignedAcked : u.logIndex >= Tip(d).theirMessageIndex}
               ELSE d.unsignedAcked
       /\ r.disk.remoteUnsignedLocal = IF d.ackedStored THEN T ELSE d.remoteUnsignedLocal
       /\ r.disk.fwdPkgs = {k \in d.fwdPkgs : k.height # rt} \union {pkg}
  <2>1. pkg.height = rt
    BY DEF pkg, NewPackage
  <2> QED
    BY <1>1, <1>2, <1>3, <2>1 DEF AdvanceCommitChainTail, AnyDisk
<1> QED
  BY <1>6, <1>7, <1>8, <1>9, <1>10 DEF IsAdvanced, pkg

AdvanceCompacts(m, d, r) ==
    LET U == Ups(m.localLog.entries)
        V == Ups(m.remoteLog.entries)
        x == d.local.ourMessageIndex
        y == Tip(d).theirMessageIndex
    IN  /\ Ups(r.mem.localLog.entries) = Compacted(U, V, x, y)
        /\ Ups(r.mem.remoteLog.entries) = Compacted(V, U, y, x)

LEMMA AdvanceLogs ==
    ASSUME NEW m, NEW d, PartyLogs(m, d), d.pending # <<>>, NEW r, IsAdvanced(m, d, r)
    PROVE  PartyLogs(r.mem, r.disk) /\ AdvanceCompacts(m, d, r)
<1> DEFINE L == m.localLog.entries
           R == m.remoteLog.entries
           x == d.local.ourMessageIndex
           y == Tip(d).theirMessageIndex
           B == Flagged(R, ToForward(m))
           L3 == Left(L, Finished(L, x), Finished(B, y))
           R3 == Left(B, Finished(B, y), Finished(L, x))
           n == m.localLog.logIndex
           k == m.localLog.htlcCounter
           nV == m.remoteLog.logIndex
           kV == m.remoteLog.htlcCounter
           e == r.disk
<1>1. /\ m \in AnyMemory /\ d \in AnyDisk /\ m.localLog \in AnyLog /\ m.remoteLog \in AnyLog
      /\ L \in SUBSET AnyEntry /\ R \in SUBSET AnyEntry
      /\ Ups(L) \in SUBSET AnyUpdate /\ Ups(R) \in SUBSET AnyUpdate
      /\ n \in Nat /\ k \in Nat /\ nV \in Nat /\ kV \in Nat
      /\ UpdatesInv(Ups(L), n, k, Ups(R), nV, kV, d)
      /\ EntriesInv(L, R, d) /\ Ordered(d) /\ Entries(L) /\ Entries(R)
      /\ d.local.height \in Nat /\ d.remote.height \in Nat /\ Tip(d).height \in Nat
  BY PartyFactsOf
<1>2. /\ x \in Nat /\ y \in Nat
      /\ Tip(d).height = d.remote.height + 1
  <2>1. Tip(d).height = d.remote.height + 1
    BY DEF PartyLogs, PendingNext, Tip
  <2> QED
    BY <1>1, <2>1 DEF Ordered
<1>3. /\ r.mem \in AnyMemory /\ e \in AnyDisk /\ ChainsOf(r.mem, e)
      /\ r.mem.localLog = Trimmed(m.localLog, L3, Removed(Finished(B, y)))
      /\ r.mem.remoteLog = Trimmed(m.remoteLog, R3, Removed(Finished(L, x)))
      /\ e.local = d.local /\ e.remote = Tip(d) /\ e.pending = <<>>
      /\ e.ackedStored = d.ackedStored
      /\ e.unsignedAcked =
             IF d.ackedStored THEN {u \in d.unsignedAcked : u.logIndex >= Tip(d).theirMessageIndex}
             ELSE d.unsignedAcked
      /\ e.remoteUnsignedLocal =
             IF d.ackedStored
             THEN {u \in Cut(Ups(L), d.local.ourMessageIndex, Tip(d).ourMessageIndex) : ~IsAdd(u)}
             ELSE d.remoteUnsignedLocal
  BY DEF IsAdvanced
<1>4. /\ B \in SUBSET AnyEntry /\ Ups(B) = Ups(R) /\ Entries(B)
      /\ \A c, i, h, j, t : Marked(R, c, i, h, j, t) => Marked(B, c, i, h, j, t)
  BY <1>1, FlaggedEntries
<1> HIDE DEF B
<1>5. /\ Ups(L3) = Compacted(Ups(L), Ups(R), x, y)
      /\ Ups(R3) = Compacted(Ups(R), Ups(L), y, x)
      /\ Removed(R3) = Removed(B) \ Removed(Finished(B, y))
      /\ Removed(L3) = Removed(L) \ Removed(Finished(L, x))
  <2>1. Answers(Ups(B), Ups(L)) /\ Answers(Ups(L), Ups(B))
    BY <1>1, <1>4 DEF UpdatesInv
  <2>2. /\ Ups(L3) = Compacted(Ups(L), Ups(B), x, y)
        /\ Removed(R3) = Removed(B) \ Removed(Finished(B, y))
    <3> HIDE DEF L, x, y
    <3> QED
      BY <1>1, <1>2, <1>4, <2>1, LeftUps
  <2>3. /\ Ups(R3) = Compacted(Ups(B), Ups(L), y, x)
        /\ Removed(L3) = Removed(L) \ Removed(Finished(L, x))
    <3> HIDE DEF L, x, y
    <3> QED
      BY <1>1, <1>2, <1>4, <2>1, LeftUps
  <2> QED
    BY <1>4, <2>2, <2>3
<1>6. L3 \subseteq L /\ R3 \subseteq B
  BY DEF Left
<1> HIDE DEF L3, R3
<1>7. /\ r.mem.localLog.entries = L3 /\ r.mem.localLog.logIndex = n /\ r.mem.localLog.htlcCounter = k
      /\ r.mem.localLog.modified = m.localLog.modified \ Removed(Finished(B, y))
      /\ r.mem.remoteLog.entries = R3 /\ r.mem.remoteLog.logIndex = nV
      /\ r.mem.remoteLog.htlcCounter = kV
      /\ r.mem.remoteLog.modified = m.remoteLog.modified \ Removed(Finished(L, x))
  BY <1>1, <1>3 DEF Trimmed, AnyLog
<1>8. UpdatesInv(Ups(L3), n, k, Ups(R3), nV, kV, e)
  <2> HIDE DEF n, k, nV, kV, e
  <2>1. UpdatesInv(Compacted(Ups(L), Ups(R), x, y), n, k, Compacted(Ups(R), Ups(L), y, x), nV, kV, e)
    BY <1>1, <1>3, AdvanceUpdates
  <2> QED
    BY <1>5, <2>1
<1>9. Tip(e) = Tip(d) /\ PendingNext(e)
  BY <1>3 DEF Tip, PendingNext
<1>10. \A c : \A i, h, j, t : /\ Marked(L, c, i, h, j, t) => Marked(L3, c, i, h, j, t)
                              /\ Marked(R, c, i, h, j, t) => Marked(R3, c, i, h, j, t)
  <2>1. \A S, Q : Q \subseteq S => \A c, i, h, j, t : Marked(S, c, i, h, j, t) => Marked(Q, c, i, h, j, t)
    BY DEF Marked
  <2> QED
    BY <1>4, <1>6, <2>1
<1>11. EntriesInv(L3, R3, e)
  <2>1. Entries(L3) /\ Entries(R3)
    BY <1>1, <1>4, <1>6 DEF Entries
  <2>2. ASSUME NEW S \in SUBSET AnyEntry, NEW i \in Nat, NEW j \in Nat,
               Marked(S, "remote", i, d.remote.height, j, Tip(d).height)
        PROVE  Marked(S, "remote", j, Tip(d).height, j, Tip(d).height)
    <3> SUFFICES ASSUME NEW f \in S
                 PROVE  /\ f.logIndex < j => 1 <= Marks(f)["remote"] /\ Marks(f)["remote"] <= Tip(d).height
                        /\ j <= f.logIndex => Marks(f)["remote"] = 0
                        /\ ~(j <= f.logIndex /\ f.logIndex < j)
      BY DEF Marked
    <3>1. f.logIndex \in Nat /\ Marks(f)["remote"] \in Nat
      BY EntryFields DEF Chains
    <3>2. /\ f.logIndex < i => 1 <= Marks(f)["remote"] /\ Marks(f)["remote"] <= d.remote.height
          /\ i <= f.logIndex /\ f.logIndex < j => Marks(f)["remote"] = Tip(d).height
          /\ j <= f.logIndex => Marks(f)["remote"] = 0
      BY <2>2 DEF Marked
    <3>3. d.remote.height \in Nat /\ Tip(d).height = d.remote.height + 1
      BY <1>1, <1>2
    <3> QED
      BY <3>1, <3>2, <3>3
  <2>3. /\ L3 \in SUBSET AnyEntry /\ R3 \in SUBSET AnyEntry
        /\ Tip(d).ourMessageIndex \in Nat /\ d.remote.ourMessageIndex \in Nat
        /\ Tip(d).theirMessageIndex \in Nat /\ d.remote.theirMessageIndex \in Nat
    BY <1>1, <1>4, <1>6 DEF Ordered
  <2>4. /\ Marked(L3, "local", d.local.ourMessageIndex, d.local.height,
                  d.local.ourMessageIndex, d.local.height)
        /\ Marked(R3, "local", d.local.theirMessageIndex, d.local.height,
                  d.local.theirMessageIndex, d.local.height)
        /\ Marked(L3, "remote", d.remote.ourMessageIndex, d.remote.height,
                  Tip(d).ourMessageIndex, Tip(d).height)
        /\ Marked(R3, "remote", d.remote.theirMessageIndex, d.remote.height,
                  Tip(d).theirMessageIndex, Tip(d).height)
    BY <1>1, <1>10 DEF EntriesInv
  <2>5. /\ Marked(L3, "remote", Tip(d).ourMessageIndex, Tip(d).height,
                  Tip(d).ourMessageIndex, Tip(d).height)
        /\ Marked(R3, "remote", Tip(d).theirMessageIndex, Tip(d).height,
                  Tip(d).theirMessageIndex, Tip(d).height)
    BY <2>2, <2>3, <2>4
  <2> QED
    BY <1>3, <1>9, <2>1, <2>4, <2>5 DEF EntriesInv
<1>12. /\ r.mem.localLog.modified = Removed(R3) /\ r.mem.remoteLog.modified = Removed(L3)
  <2>1. m.localLog.modified = Removed(R) /\ m.remoteLog.modified = Removed(L)
    BY DEF PartyLogs, LogsInv
  <2>2. Removed(R) = Removed(B)
    BY <1>1, <1>4, RemovedUps
  <2> QED
    BY <1>5, <1>7, <2>1, <2>2
<1>13. LogsInv(r.mem.localLog, r.mem.remoteLog, e)
  BY <1>7, <1>8, <1>11, <1>12 DEF LogsInv
<1>14. AdvanceCompacts(m, d, r)
  BY <1>5, <1>7 DEF AdvanceCompacts
<1> QED
  BY <1>3, <1>9, <1>13, <1>14 DEF PartyLogs
-----------------------------------------------------------------------------
(* The entries that a restart rebuilds. *)

\* The entries of restoreLocalLog and of restoreRemoteLog, by the update they are for.
OurEntry(d, u) ==
    IF d.remote.ourMessageIndex <= u.logIndex
    THEN IF IsAdd(u) THEN Entry(u, At("remote", Tip(d).height), NoHeight)
                     ELSE RestoreUpdate(u, At("remote", Tip(d).height))
    ELSE IF IsAdd(u)
         THEN Entry(u, [local |-> outgoingLocalAddHeight(d, u.htlc), remote |-> d.remote.height], NoHeight)
         ELSE RestoreUpdate(u, At("remote", d.remote.height))
SignedHeight(d, u) ==
    IF d.pending # <<>> /\ u.logIndex < Tip(d).theirMessageIndex THEN Tip(d).height ELSE 0
TheirEntry(d, u) ==
    IF IsAdd(u)
    THEN Entry(u, [local |-> d.local.height, remote |-> incomingRemoteAddHeight(d, u.htlc)], NoHeight)
    ELSE RestoreUpdate(u, [local |-> d.local.height, remote |-> SignedHeight(d, u)])

LEMMA RestoreEntryIs ==
    ASSUME NEW u \in AnyUpdate, NEW h \in Heights2
    PROVE  /\ LET e == Entry(u, h, NoHeight)
              IN  IsAdd(u) => /\ e \in AnyEntry /\ Update(e) = u /\ Shape(e) /\ Marks(e) = h
           /\ LET e == RestoreUpdate(u, h)
              IN  ~IsAdd(u) => /\ e \in AnyEntry /\ Update(e) = u /\ Shape(e) /\ Marks(e) = h
<1>1. NoHeight \in Heights2
  BY HeightTypes
<1>2. ASSUME NEW a \in Heights2, NEW b \in Heights2
      PROVE  LET e == Entry(u, a, b)
             IN  /\ e \in AnyEntry /\ Update(e) = u /\ e.type = u.type /\ e.add = a /\ e.rm = b
  <2>1. Entry(u, a, b) \in AnyEntry
    BY EntryType
  <2> QED
    BY <2>1 DEF Entry, Update, LogUpdate, AnyUpdate
<1>3. Entry(u, h, NoHeight).add = h /\ Entry(u, h, NoHeight).rm = NoHeight
  BY <1>1, <1>2
<1>4. ASSUME IsAdd(u)
      PROVE  LET e == Entry(u, h, NoHeight)
             IN  /\ e \in AnyEntry /\ Update(e) = u /\ Shape(e) /\ Marks(e) = h
  BY <1>1, <1>2, <1>4 DEF Shape, Marks, IsAdd, IsRemoval
<1>5. ASSUME ~IsAdd(u)
      PROVE  LET e == RestoreUpdate(u, h)
             IN  /\ e \in AnyEntry /\ Update(e) = u /\ Shape(e) /\ Marks(e) = h
  BY <1>1, <1>2, <1>5 DEF Shape, Marks, IsAdd, IsRemoval, RestoreUpdate
<1> QED
  BY <1>4, <1>5

\* Entries that are given by the updates they are for.
LEMMA EntriesByUpdate ==
    ASSUME NEW W \in SUBSET AnyUpdate, NEW n \in Nat, NEW k \in Nat, Distinct(W, n, k),
           NEW g, \A u \in W : g[u] \in AnyEntry /\ Update(g[u]) = u /\ Shape(g[u])
    PROVE  LET S == {g[u] : u \in W}
           IN  /\ S \in SUBSET AnyEntry /\ Ups(S) = W /\ Entries(S)
               /\ \A c, i, h, j, t :
                    (\A u \in W : /\ u.logIndex < i => 1 <= Marks(g[u])[c] /\ Marks(g[u])[c] <= h
                                  /\ i <= u.logIndex /\ u.logIndex < j => Marks(g[u])[c] = t
                                  /\ j <= u.logIndex => Marks(g[u])[c] = 0)
                    => Marked(S, c, i, h, j, t)
<1> DEFINE S == {g[u] : u \in W}
<1>1. S \in SUBSET AnyEntry
  OBVIOUS
<1>2. \A u \in W : g[u].logIndex = u.logIndex
  BY DEF Update, LogUpdate
<1>3. Ups(S) = W
  <2>1. Ups(S) = {Update(g[u]) : u \in W}
    BY DEF Ups
  <2> QED
    BY <2>1
<1>4. Entries(S)
  BY <1>2 DEF Entries, Distinct
<1>5. ASSUME NEW c, NEW i, NEW h, NEW j, NEW t,
             \A u \in W : /\ u.logIndex < i => 1 <= Marks(g[u])[c] /\ Marks(g[u])[c] <= h
                          /\ i <= u.logIndex /\ u.logIndex < j => Marks(g[u])[c] = t
                          /\ j <= u.logIndex => Marks(g[u])[c] = 0
      PROVE  Marked(S, c, i, h, j, t)
  BY <1>2, <1>5 DEF Marked
<1> HIDE DEF S
<1>6. /\ S \in SUBSET AnyEntry /\ Ups(S) = W /\ Entries(S)
      /\ \A c, i, h, j, t :
           (\A u \in W : /\ u.logIndex < i => 1 <= Marks(g[u])[c] /\ Marks(g[u])[c] <= h
                         /\ i <= u.logIndex /\ u.logIndex < j => Marks(g[u])[c] = t
                         /\ j <= u.logIndex => Marks(g[u])[c] = 0)
           => Marked(S, c, i, h, j, t)
  BY <1>1, <1>3, <1>4, <1>5
<1> QED
  BY <1>6 DEF S

LEMMA OurEntries ==
    ASSUME NEW d \in AnyDisk,
           \A u \in AsAdds(d.remote.outgoing) : u.logIndex < d.remote.ourMessageIndex,
           \A u \in DiffOf(d) : d.remote.ourMessageIndex <= u.logIndex,
           \A u \in d.remoteUnsignedLocal : ~IsAdd(u) /\ u.logIndex < d.remote.ourMessageIndex
    PROVE  restoreLocalLog(d).entries = {OurEntry(d, u) : u \in RestoredOurs(d)}
<1> DEFINE A(h) == LogUpdate("Add", h.logIndex, h.htlc, h.amt)
           E1 == {RestoreAdd(h, outgoingLocalAddHeight(d, h.htlc), d.remote.height)
                    : h \in d.remote.outgoing}
           E2 == {IF u.type = "Add"
                    THEN Entry(u, At("remote", d.pending[1].commit.height), NoHeight)
                    ELSE RestoreUpdate(u, At("remote", d.pending[1].commit.height))
                    : u \in DiffOf(d)}
           E3 == {RestoreUpdate(u, At("remote", d.remote.height)) : u \in d.remoteUnsignedLocal}
<1>0. /\ d.remote \in AnyCommit /\ d.remote.ourMessageIndex \in Nat
      /\ DiffOf(d) \subseteq AnyUpdate /\ d.remoteUnsignedLocal \subseteq AnyUpdate
      /\ d.remote.outgoing \subseteq AnyHtlc
  BY TipFacts, CommitIndices, FinMember DEF AnyCommit
<1>1. restoreLocalLog(d).entries = E1 \union E2 \union E3
  BY DEF restoreLocalLog
<1>2. E1 = {OurEntry(d, u) : u \in AsAdds(d.remote.outgoing)}
  <2>1. ASSUME NEW h \in d.remote.outgoing
        PROVE  RestoreAdd(h, outgoingLocalAddHeight(d, h.htlc), d.remote.height) = OurEntry(d, A(h))
    <3>1. A(h) \in AsAdds(d.remote.outgoing)
      BY DEF AsAdds
    <3>2. IsAdd(A(h)) /\ A(h).htlc = h.htlc /\ A(h).logIndex = h.logIndex /\ h.logIndex \in Nat
      BY <1>0 DEF IsAdd, LogUpdate, AnyHtlc
    <3>3. ~(d.remote.ourMessageIndex <= A(h).logIndex)
      BY <1>0, <3>1, <3>2
    <3> QED
      BY <3>2, <3>3 DEF OurEntry, RestoreAdd
  <2>2. {OurEntry(d, u) : u \in AsAdds(d.remote.outgoing)} = {OurEntry(d, A(h)) : h \in d.remote.outgoing}
    BY DEF AsAdds
  <2> HIDE DEF A
  <2> QED
    BY <2>1, <2>2
<1>3. E2 = {OurEntry(d, u) : u \in DiffOf(d)}
  <2>1. ASSUME NEW u \in DiffOf(d)
        PROVE  (IF u.type = "Add"
                    THEN Entry(u, At("remote", d.pending[1].commit.height), NoHeight)
                    ELSE RestoreUpdate(u, At("remote", d.pending[1].commit.height)))
                  = OurEntry(d, u)
    <3>1. d.pending # <<>> /\ Tip(d) = d.pending[1].commit
      BY DEF DiffOf, Tip
    <3> QED
      BY <3>1 DEF OurEntry, IsAdd
  <2> QED
    BY <2>1
<1>4. E3 = {OurEntry(d, u) : u \in d.remoteUnsignedLocal}
  <2>1. ASSUME NEW u \in d.remoteUnsignedLocal
        PROVE  RestoreUpdate(u, At("remote", d.remote.height)) = OurEntry(d, u)
    <3>1. ~(d.remote.ourMessageIndex <= u.logIndex) /\ ~IsAdd(u)
      BY <1>0, UpdateFields
    <3> QED
      BY <3>1 DEF OurEntry
  <2> QED
    BY <2>1
<1> HIDE DEF E1, E2, E3
<1> QED
  BY <1>1, <1>2, <1>3, <1>4 DEF RestoredOurs

LEMMA TheirEntries ==
    ASSUME NEW d \in AnyDisk
    PROVE  restoreRemoteLog(d).entries = {TheirEntry(d, u) : u \in RestoredTheirs(d)}
<1> DEFINE A(h) == LogUpdate("Add", h.logIndex, h.htlc, h.amt)
           At2(u) == IF d.pending # <<>> /\ u.logIndex < d.pending[1].commit.theirMessageIndex
                     THEN d.pending[1].commit.height ELSE 0
           N == {x \in d.unsignedAcked : x.type # "Add"}
           E1 == {RestoreAdd(h, d.local.height, incomingRemoteAddHeight(d, h.htlc))
                         : h \in d.local.incoming}
           E2 == {RestoreUpdate(u, [local |-> d.local.height, remote |-> At2(u)]) : u \in N}
<1>1. restoreRemoteLog(d).entries = E1 \union E2
  BY DEF restoreRemoteLog, newUpdateLog
<1>2. E1 = {TheirEntry(d, u) : u \in AsAdds(d.local.incoming)}
  <2>1. ASSUME NEW h \in d.local.incoming
        PROVE  RestoreAdd(h, d.local.height, incomingRemoteAddHeight(d, h.htlc)) = TheirEntry(d, A(h))
    <3>2. IsAdd(A(h)) /\ A(h).htlc = h.htlc
      BY DEF IsAdd, LogUpdate
    <3> QED
      BY <3>2 DEF TheirEntry, RestoreAdd
  <2>2. {TheirEntry(d, u) : u \in AsAdds(d.local.incoming)} = {TheirEntry(d, A(h)) : h \in d.local.incoming}
    BY DEF AsAdds
  <2> HIDE DEF A
  <2> QED
    BY <2>1, <2>2
<1>3. E2 = {TheirEntry(d, u) : u \in N}
  <2>1. ASSUME NEW u \in N
        PROVE  RestoreUpdate(u, [local |-> d.local.height, remote |-> At2(u)]) = TheirEntry(d, u)
    <3>1. ~IsAdd(u) /\ At2(u) = SignedHeight(d, u)
      BY DEF IsAdd, SignedHeight, Tip
    <3> HIDE DEF At2
    <3> QED
      BY <3>1 DEF TheirEntry
  <2> QED
    BY <2>1
<1>4. N = {u \in d.unsignedAcked : ~IsAdd(u)}
  BY DEF IsAdd
<1> HIDE DEF E1, E2, N
<1> QED
  BY <1>1, <1>2, <1>3, <1>4 DEF RestoredTheirs

LEMMA HtlcIn ==
    ASSUME NEW S, NEW H, H = HtlcsOf(S)
    PROVE  /\ \A h \in H : \E u \in S : u.htlc = h.htlc
           /\ \A u \in S : \E h \in H : u.htlc = h.htlc
<1> DEFINE F(u) == [logIndex |-> u.logIndex, htlc |-> u.htlc, amt |-> u.amt]
<1>1. H = {F(u) : u \in S}
  BY DEF HtlcsOf
<1>2. \A u : F(u).htlc = u.htlc
  OBVIOUS
<1> HIDE DEF F
<1> QED
  BY <1>1, <1>2

\* What the lemmas on restored heights need of the updates on disk.
Restorable(d, U, V) ==
    /\ d \in AnyDisk /\ U \in SUBSET AnyUpdate /\ V \in SUBSET AnyUpdate /\ Ordered(d)
    /\ UpdatesInv(U, Tip(d).ourMessageIndex, Tip(d).ourHtlcIndex, V, d.local.theirMessageIndex,
                  d.local.theirHtlcIndex, d)
    /\ IsRestored(U, V, U, V, d) /\ PendingNext(d)
    /\ d.local.height \in Nat /\ d.remote.height \in Nat /\ Tip(d).height \in Nat

LEMMA OutgoingHeight ==
    ASSUME NEW d, NEW U, NEW V, Restorable(d, U, V), NEW u \in U, IsAdd(u),
           u.logIndex < d.remote.ourMessageIndex
    PROVE  outgoingLocalAddHeight(d, u.htlc)
               = IF u.logIndex < d.local.ourMessageIndex THEN d.local.height ELSE 0
<1> DEFINE la == d.local.ourMessageIndex
           lb == d.local.theirMessageIndex
           rb == d.remote.theirMessageIndex
<1>1. /\ d.local.outgoing = HtlcsOf(Live(U, V, la, lb)) /\ Parents(U, V, la, lb)
      /\ d.unsignedAcked = Cut(V, rb, lb)
      /\ Distinct(U, Tip(d).ourMessageIndex, Tip(d).ourHtlcIndex)
  BY DEF Restorable, UpdatesInv, CommitsOK, CommitOK, HalfOK, StoredOK
<1>2. /\ la \in Nat /\ lb \in Nat /\ rb \in Nat /\ u \in AnyUpdate /\ u.logIndex \in Nat /\ u.htlc \in Nat
      /\ \A v \in V : v.logIndex \in Nat
      /\ \A v \in U : v.logIndex \in Nat /\ v.htlc \in Nat /\ ~(IsAdd(v) /\ IsRemoval(v))
  BY UpdateFields DEF Restorable, Ordered
<1>3. ~Off(V, rb, u.htlc)
  <2>1. u \in Live(U, V, d.remote.ourMessageIndex, rb)
    <3>1. u \notin Cut(U, d.remote.ourMessageIndex, Tip(d).ourMessageIndex)
      BY <1>2 DEF Cut, Restorable, Ordered
    <3>2. u \notin d.remoteUnsignedLocal
      BY DEF Restorable, UpdatesInv, StoredOK
    <3> QED
      BY <3>1, <3>2 DEF Restorable, IsRestored
  <2> QED
    BY <2>1 DEF Live
<1>4. (\E h \in d.local.outgoing : h.htlc = u.htlc) <=> \E v \in Live(U, V, la, lb) : v.htlc = u.htlc
  <2> DEFINE S == Live(U, V, la, lb)
             H == d.local.outgoing
  <2>1. H = HtlcsOf(S)
    BY <1>1
  <2> HIDE DEF S, H
  <2>2. (\E h \in H : h.htlc = u.htlc) <=> \E v \in S : v.htlc = u.htlc
    BY <2>1, HtlcIn
  <2> QED
    BY <2>2 DEF S, H
<1>5. CASE u.logIndex < la
  <2>1. CASE Off(V, lb, u.htlc)
    <3>1. PICK r \in V : IsRemoval(r) /\ r.logIndex < lb /\ r.htlc = u.htlc
      BY <2>1 DEF Off
    <3>2. r \in Cut(V, rb, lb)
      BY <1>2, <1>3, <3>1 DEF Off, Cut
    <3>3. u.htlc \in Removed(d.unsignedAcked)
      BY <1>1, <3>1, <3>2, RemovedIs
    <3> QED
      BY <1>5, <3>3 DEF outgoingLocalAddHeight
  <2>2. CASE ~Off(V, lb, u.htlc)
    <3>1. u \in Live(U, V, la, lb)
      BY <1>5, <2>2 DEF Live
    <3> QED
      BY <1>4, <1>5, <3>1 DEF outgoingLocalAddHeight
  <2> QED
    BY <2>1, <2>2
<1>6. CASE ~(u.logIndex < la)
  <2>1. ~\E v \in Live(U, V, la, lb) : v.htlc = u.htlc
    BY <1>1, <1>2, <1>6 DEF Live, Distinct
  <2>2. u.htlc \notin Removed(d.unsignedAcked)
    <3>1. ~Off(V, lb, u.htlc)
      BY <1>1, <1>6 DEF Parents
    <3> QED
      BY <1>1, <3>1, RemovedIs DEF Off, Cut
  <2> QED
    BY <1>4, <1>6, <2>1, <2>2 DEF outgoingLocalAddHeight
<1> QED
  BY <1>5, <1>6

LEMMA IncomingHeight ==
    ASSUME NEW d, NEW U, NEW V, Restorable(d, U, V), NEW u \in V, IsAdd(u)
    PROVE  LET x == incomingRemoteAddHeight(d, u.htlc)
           IN  /\ u.logIndex < d.remote.theirMessageIndex => x = d.remote.height
               /\ (d.remote.theirMessageIndex <= u.logIndex /\ u.logIndex < Tip(d).theirMessageIndex)
                        => x = Tip(d).height
               /\ Tip(d).theirMessageIndex <= u.logIndex => x = 0
<1> DEFINE la == d.local.ourMessageIndex
           lb == d.local.theirMessageIndex
           ra == d.remote.ourMessageIndex
           rb == d.remote.theirMessageIndex
           ta == Tip(d).ourMessageIndex
           tb == Tip(d).theirMessageIndex
           Lists(c) == \E h \in c.incoming : h.htlc = u.htlc
           x == incomingRemoteAddHeight(d, u.htlc)
<1>1. /\ d.remote.incoming = HtlcsOf(Live(V, U, rb, ra)) /\ Parents(V, U, rb, ra)
      /\ Tip(d).incoming = HtlcsOf(Live(V, U, tb, ta)) /\ Parents(V, U, rb, ta)
      /\ Distinct(V, d.local.theirMessageIndex, d.local.theirHtlcIndex)
  BY DEF Restorable, UpdatesInv, CommitsOK, CommitOK, HalfOK
<1>2. /\ la \in Nat /\ lb \in Nat /\ ra \in Nat /\ rb \in Nat /\ ta \in Nat /\ tb \in Nat
      /\ rb <= tb /\ u.logIndex \in Nat /\ u.htlc \in Nat
      /\ \A v \in V : v.logIndex \in Nat /\ v.htlc \in Nat
      /\ \A v \in U : v.logIndex \in Nat /\ v.htlc \in Nat /\ ~(IsAdd(v) /\ IsRemoval(v))
  BY UpdateFields DEF Restorable, Ordered
<1>3. ~Off(U, la, u.htlc)
  BY DEF Restorable, IsRestored, Live
<1>4. /\ Lists(d.remote) <=> \E v \in Live(V, U, rb, ra) : v.htlc = u.htlc
      /\ Lists(Tip(d)) <=> \E v \in Live(V, U, tb, ta) : v.htlc = u.htlc
  <2> DEFINE S1 == Live(V, U, rb, ra)
             S2 == Live(V, U, tb, ta)
             H1 == d.remote.incoming
             H2 == Tip(d).incoming
  <2>1. H1 = HtlcsOf(S1) /\ H2 = HtlcsOf(S2)
    BY <1>1
  <2> HIDE DEF S1, S2, H1, H2
  <2>2. /\ (\E h \in H1 : h.htlc = u.htlc) <=> \E v \in S1 : v.htlc = u.htlc
        /\ (\E h \in H2 : h.htlc = u.htlc) <=> \E v \in S2 : v.htlc = u.htlc
    BY <2>1, HtlcIn
  <2> QED
    BY <2>2 DEF S1, S2, H1, H2
<1>5. x = IF Lists(d.remote) \/ u.htlc \in Removed(d.remoteUnsignedLocal) THEN d.remote.height
          ELSE IF d.pending # <<>> /\ Lists(Tip(d)) THEN Tip(d).height ELSE 0
  BY DEF incomingRemoteAddHeight, Tip
<1> HIDE DEF x, Lists
<1>6. CASE u.logIndex < rb
  <2>1. CASE Off(U, ra, u.htlc)
    <3>1. PICK r \in U : IsRemoval(r) /\ r.logIndex < ra /\ r.htlc = u.htlc
      BY <2>1 DEF Off
    <3>2. r \in Cut(U, la, ra)
      BY <1>2, <1>3, <3>1 DEF Off, Cut
    <3>3. r \in d.remoteUnsignedLocal
      BY <3>1, <3>2 DEF Restorable, UpdatesInv, StoredOK
    <3>4. u.htlc \in Removed(d.remoteUnsignedLocal)
      BY <3>1, <3>3, RemovedIs
    <3> QED
      BY <1>2, <1>5, <1>6, <3>4 DEF x
  <2>2. CASE ~Off(U, ra, u.htlc)
    <3>1. u \in Live(V, U, rb, ra)
      BY <1>6, <2>2 DEF Live
    <3> QED
      BY <1>2, <1>4, <1>5, <1>6, <3>1 DEF x
  <2> QED
    BY <2>1, <2>2
<1>7. CASE rb <= u.logIndex
  <2>1. ~Lists(d.remote)
    BY <1>1, <1>2, <1>4, <1>7 DEF Live, Distinct
  <2>2. u.htlc \notin Removed(d.remoteUnsignedLocal)
    <3>1. ~Off(U, ra, u.htlc)
      BY <1>1, <1>2, <1>7 DEF Parents
    <3>2. \A r \in d.remoteUnsignedLocal : r \in U /\ r.logIndex < ra
      BY DEF Restorable, UpdatesInv, StoredOK, Cut
    <3> QED
      BY <3>1, <3>2, RemovedIs DEF Off
  <2>3. CASE u.logIndex < tb
    <3>1. d.pending # <<>>
      BY <1>2, <1>7, <2>3 DEF Tip
    <3>2. ~Off(U, ta, u.htlc)
      BY <1>1, <1>2, <1>7 DEF Parents
    <3>3. Lists(Tip(d))
      BY <1>4, <2>3, <3>2 DEF Live
    <3> QED
      BY <1>2, <1>5, <1>7, <2>1, <2>2, <2>3, <3>1, <3>3 DEF x
  <2>4. CASE tb <= u.logIndex
    <3>1. ~Lists(Tip(d))
      BY <1>1, <1>2, <1>4, <2>4 DEF Live, Distinct
    <3> QED
      BY <1>2, <1>5, <1>7, <2>1, <2>2, <2>4, <3>1 DEF x
  <2> QED
    BY <1>2, <2>3, <2>4
<1> QED
  BY <1>2, <1>6, <1>7

LEMMA HeightAt ==
    /\ \A h \in Nat : At("remote", h)["remote"] = h /\ At("remote", h)["local"] = 0
    /\ \A a, b \in Nat : /\ [local |-> a, remote |-> b]["local"] = a
                         /\ [local |-> a, remote |-> b]["remote"] = b
BY DEF At, NoHeight, Chains

\* A commitment that has taken in an update is not the first.
LEMMA HeightsPositive ==
    ASSUME NEW d, NEW U, NEW V, Restorable(d, U, V)
    PROVE  \A i \in Nat : /\ i < d.local.ourMessageIndex => 1 <= d.local.height
                          /\ i < d.local.theirMessageIndex => 1 <= d.local.height
                          /\ i < d.remote.ourMessageIndex => 1 <= d.remote.height
                          /\ i < d.remote.theirMessageIndex => 1 <= d.remote.height
BY DEF Restorable, UpdatesInv, CommitsOK, CommitOK, Ordered

LEMMA OurMarks ==
    ASSUME NEW d, NEW U, NEW V, Restorable(d, U, V), NEW u \in U
    PROVE  LET e == OurEntry(d, u)
               la == d.local.ourMessageIndex
               ra == d.remote.ourMessageIndex
               ta == Tip(d).ourMessageIndex
           IN  /\ e \in AnyEntry /\ Update(e) = u /\ Shape(e)
               /\ u.logIndex < la => 1 <= Marks(e)["local"] /\ Marks(e)["local"] <= d.local.height
               /\ la <= u.logIndex => Marks(e)["local"] = 0
               /\ u.logIndex < ra => 1 <= Marks(e)["remote"] /\ Marks(e)["remote"] <= d.remote.height
               /\ ra <= u.logIndex => Marks(e)["remote"] = Tip(d).height
               /\ u.logIndex < ta
<1> DEFINE e == OurEntry(d, u)
           la == d.local.ourMessageIndex
           ra == d.remote.ourMessageIndex
           ta == Tip(d).ourMessageIndex
           lh == d.local.height
           rh == d.remote.height
           th == Tip(d).height
<1>1. /\ la \in Nat /\ ra \in Nat /\ ta \in Nat /\ la <= ra /\ ra <= ta /\ u.logIndex \in Nat
      /\ lh \in Nat /\ rh \in Nat /\ th \in Nat /\ u \in AnyUpdate
  BY UpdateFields DEF Restorable, Ordered
<1>2. u.logIndex < ta
  BY DEF Restorable, UpdatesInv, Distinct
<1>3. /\ u.logIndex < la => 1 <= lh
      /\ u.logIndex < ra => 1 <= rh
  BY <1>1, HeightsPositive
<1>4. "remote" \in Chains
  BY DEF Chains
<1>5. CASE ra <= u.logIndex
  <2> DEFINE a == At("remote", th)
  <2>1. a \in Heights2 /\ a["remote"] = th /\ a["local"] = 0
    BY <1>1, <1>4, HeightTypes, HeightAt
  <2>2. e = IF IsAdd(u) THEN Entry(u, a, NoHeight) ELSE RestoreUpdate(u, a)
    BY <1>5 DEF OurEntry
  <2> HIDE DEF a, e
  <2>3. e \in AnyEntry /\ Update(e) = u /\ Shape(e) /\ Marks(e) = a
    BY <1>1, <2>1, <2>2, RestoreEntryIs
  <2> QED
    BY <1>1, <1>2, <1>5, <2>1, <2>3 DEF e
<1>6. CASE ~(ra <= u.logIndex) /\ IsAdd(u)
  <2> DEFINE x == outgoingLocalAddHeight(d, u.htlc)
             a == [local |-> x, remote |-> rh]
  <2>1. x = IF u.logIndex < la THEN lh ELSE 0
    BY <1>1, <1>6, OutgoingHeight
  <2>2. x \in Nat
    BY <1>1, <2>1
  <2>3. e = Entry(u, a, NoHeight)
    BY <1>6 DEF OurEntry
  <2> HIDE DEF x
  <2>4. a \in Heights2 /\ a["remote"] = rh /\ a["local"] = x
    BY <1>1, <2>2, HeightTypes, HeightAt
  <2> HIDE DEF a, e
  <2>5. e \in AnyEntry /\ Update(e) = u /\ Shape(e) /\ Marks(e) = a
    BY <1>1, <1>6, <2>3, <2>4, RestoreEntryIs
  <2> QED
    BY <1>1, <1>2, <1>3, <1>6, <2>1, <2>4, <2>5 DEF e
<1>7. CASE ~(ra <= u.logIndex) /\ ~IsAdd(u)
  <2> DEFINE a == At("remote", rh)
  <2>1. a \in Heights2 /\ a["remote"] = rh /\ a["local"] = 0
    BY <1>1, <1>4, HeightTypes, HeightAt
  <2>2. e = RestoreUpdate(u, a)
    BY <1>7 DEF OurEntry
  <2>3. la <= u.logIndex
    BY <1>1, <1>7 DEF Restorable, IsRestored, Live, Cut, UpdatesInv, StoredOK
  <2> HIDE DEF a, e
  <2>4. e \in AnyEntry /\ Update(e) = u /\ Shape(e) /\ Marks(e) = a
    BY <1>1, <1>7, <2>1, <2>2, RestoreEntryIs
  <2> QED
    BY <1>1, <1>2, <1>3, <1>7, <2>1, <2>3, <2>4 DEF e
<1> QED
  BY <1>5, <1>6, <1>7

LEMMA TheirMarks ==
    ASSUME NEW d, NEW U, NEW V, Restorable(d, U, V), NEW u \in V
    PROVE  LET e == TheirEntry(d, u)
               lb == d.local.theirMessageIndex
               rb == d.remote.theirMessageIndex
               tb == Tip(d).theirMessageIndex
           IN  /\ e \in AnyEntry /\ Update(e) = u /\ Shape(e)
               /\ 1 <= Marks(e)["local"] /\ Marks(e)["local"] <= d.local.height
               /\ u.logIndex < lb
               /\ u.logIndex < rb => 1 <= Marks(e)["remote"] /\ Marks(e)["remote"] <= d.remote.height
               /\ rb <= u.logIndex /\ u.logIndex < tb => Marks(e)["remote"] = Tip(d).height
               /\ tb <= u.logIndex => Marks(e)["remote"] = 0
<1> DEFINE e == TheirEntry(d, u)
           lb == d.local.theirMessageIndex
           rb == d.remote.theirMessageIndex
           tb == Tip(d).theirMessageIndex
           lh == d.local.height
           rh == d.remote.height
           th == Tip(d).height
<1>1. /\ lb \in Nat /\ rb \in Nat /\ tb \in Nat /\ rb <= tb /\ tb <= lb /\ u.logIndex \in Nat
      /\ lh \in Nat /\ rh \in Nat /\ th \in Nat /\ u \in AnyUpdate
  BY UpdateFields DEF Restorable, Ordered
<1>2. u.logIndex < lb
  BY DEF Restorable, UpdatesInv, Distinct
<1>3. /\ 1 <= lh
      /\ u.logIndex < rb => 1 <= rh
  BY <1>1, <1>2, HeightsPositive
<1>6. CASE IsAdd(u)
  <2> DEFINE x == incomingRemoteAddHeight(d, u.htlc)
             a == [local |-> lh, remote |-> x]
  <2>1. /\ u.logIndex < rb => x = rh
        /\ (rb <= u.logIndex /\ u.logIndex < tb) => x = th
        /\ tb <= u.logIndex => x = 0
    BY <1>6, IncomingHeight
  <2>2. e = Entry(u, a, NoHeight)
    BY <1>6 DEF TheirEntry
  <2> HIDE DEF x
  <2>3. x \in Nat
    BY <1>1, <2>1
  <2>4. a \in Heights2 /\ a["local"] = lh /\ a["remote"] = x
    BY <1>1, <2>3, HeightTypes, HeightAt
  <2> HIDE DEF a, e
  <2>5. e \in AnyEntry /\ Update(e) = u /\ Shape(e) /\ Marks(e) = a
    BY <1>1, <1>6, <2>2, <2>4, RestoreEntryIs
  <2> QED
    BY <1>1, <1>2, <1>3, <1>6, <2>1, <2>4, <2>5 DEF e
<1>7. CASE ~IsAdd(u)
  <2> DEFINE x == SignedHeight(d, u)
             a == [local |-> lh, remote |-> x]
  <2>0. rb <= u.logIndex
    BY <1>7 DEF Restorable, IsRestored, Live, Cut
  <2>1. /\ (rb <= u.logIndex /\ u.logIndex < tb) => x = th
        /\ tb <= u.logIndex => x = 0
    BY <1>1 DEF SignedHeight, Tip
  <2>2. e = RestoreUpdate(u, a)
    BY <1>7 DEF TheirEntry
  <2> HIDE DEF x
  <2>3. x \in Nat
    BY <1>1, <2>0, <2>1
  <2>4. a \in Heights2 /\ a["local"] = lh /\ a["remote"] = x
    BY <1>1, <2>3, HeightTypes, HeightAt
  <2> HIDE DEF a, e
  <2>5. e \in AnyEntry /\ Update(e) = u /\ Shape(e) /\ Marks(e) = a
    BY <1>1, <1>7, <2>2, <2>4, RestoreEntryIs
  <2> QED
    BY <1>1, <1>2, <1>3, <1>7, <2>0, <2>1, <2>4, <2>5 DEF e
<1> QED
  BY <1>6, <1>7

\* The updates on disk, whatever the logs were, can be restored.
LEMMA RestorableDisk ==
    ASSUME NEW d \in AnyDisk, NEW U \in SUBSET AnyUpdate, NEW V \in SUBSET AnyUpdate,
           NEW n \in Nat, NEW k \in Nat, NEW nV \in Nat, NEW kV \in Nat,
           UpdatesInv(U, n, k, V, nV, kV, d), PendingNext(d)
    PROVE  Restorable(d, RestoredOurs(d), RestoredTheirs(d))
<1> DEFINE U3 == RestoredOurs(d)
           V3 == RestoredTheirs(d)
           a == Tip(d).ourMessageIndex
           b == Tip(d).ourHtlcIndex
           x == d.local.theirMessageIndex
           y == d.local.theirHtlcIndex
<1>1. Ordered(d)
  BY OrderedFacts DEF UpdatesInv
<1>2. IsRestored(U3, V3, U, V, d) /\ UpdatesInv(U3, a, b, V3, x, y, d)
  BY RestoreUpdates
<1>3. U3 \subseteq U /\ V3 \subseteq V
  BY <1>2 DEF IsRestored, Live, Cut, UpdatesInv, StoredOK
<1>4. U3 \in SUBSET AnyUpdate /\ V3 \in SUBSET AnyUpdate
  BY <1>3
<1>5. a \in Nat /\ b \in Nat /\ x \in Nat /\ y \in Nat
  BY <1>1 DEF Ordered
<1> HIDE DEF U3, V3, a, b, x, y
<1>6. IsRestored(RestoredOurs(d), RestoredTheirs(d), U3, V3, d)
  BY <1>2, <1>4, <1>5, RestoreUpdates
<1>7. d.local.height \in Nat /\ d.remote.height \in Nat /\ Tip(d).height \in Nat
  BY <1>1, CommitIndices DEF Ordered
<1> QED
  BY <1>1, <1>2, <1>4, <1>6, <1>7 DEF Restorable, U3, V3, a, b, x, y

LEMMA RestoredEntries ==
    ASSUME NEW d, Restorable(d, RestoredOurs(d), RestoredTheirs(d))
    PROVE  LET L == restoreLocalLog(d).entries
               R == restoreRemoteLog(d).entries
           IN  /\ L \in SUBSET AnyEntry /\ R \in SUBSET AnyEntry
               /\ Ups(L) = RestoredOurs(d) /\ Ups(R) = RestoredTheirs(d) /\ EntriesInv(L, R, d)
<1> DEFINE U == RestoredOurs(d)
           V == RestoredTheirs(d)
           L == restoreLocalLog(d).entries
           R == restoreRemoteLog(d).entries
           f == [u \in U |-> OurEntry(d, u)]
           g == [u \in V |-> TheirEntry(d, u)]
           S == {f[u] : u \in U}
           T == {g[u] : u \in V}
           la == d.local.ourMessageIndex
           lb == d.local.theirMessageIndex
           ra == d.remote.ourMessageIndex
           rb == d.remote.theirMessageIndex
           ta == Tip(d).ourMessageIndex
           tb == Tip(d).theirMessageIndex
           lh == d.local.height
           rh == d.remote.height
           th == Tip(d).height
<1>1. /\ d \in AnyDisk /\ U \in SUBSET AnyUpdate /\ V \in SUBSET AnyUpdate /\ Ordered(d)
      /\ IsRestored(U, V, U, V, d) /\ StoredOK(d, U, V) /\ CommitsOK(d, U, V)
      /\ Distinct(U, ta, Tip(d).ourHtlcIndex) /\ Distinct(V, lb, d.local.theirHtlcIndex)
  BY DEF Restorable, UpdatesInv
<1>2. /\ la \in Nat /\ lb \in Nat /\ ra \in Nat /\ rb \in Nat /\ ta \in Nat /\ tb \in Nat
      /\ lh \in Nat /\ rh \in Nat /\ th \in Nat
      /\ Tip(d).ourHtlcIndex \in Nat /\ d.local.theirHtlcIndex \in Nat
      /\ la <= ra /\ ra <= ta /\ rb <= tb /\ tb <= lb
  BY DEF Restorable, Ordered
<1>3. L = S
  <2>1. AsAdds(d.remote.outgoing) = Live(U, V, ra, rb)
    BY <1>1, RestoredAre
  <2>2. /\ \A u \in AsAdds(d.remote.outgoing) : u.logIndex < ra
        /\ \A u \in DiffOf(d) : ra <= u.logIndex
        /\ \A u \in d.remoteUnsignedLocal : ~IsAdd(u) /\ u.logIndex < ra
    BY <1>1, <2>1 DEF Live, StoredOK, Cut
  <2>3. L = {OurEntry(d, u) : u \in RestoredOurs(d)}
    BY <1>1, <2>2, OurEntries
  <2> QED
    BY <2>3
<1>4. R = T
  <2>1. R = {TheirEntry(d, u) : u \in RestoredTheirs(d)}
    BY <1>1, TheirEntries
  <2> QED
    BY <2>1
<1>5. \A u \in U : f[u] = OurEntry(d, u)
  OBVIOUS
<1>6. \A u \in V : g[u] = TheirEntry(d, u)
  OBVIOUS
<1>7. \A u \in U : /\ f[u] \in AnyEntry /\ Update(f[u]) = u /\ Shape(f[u])
                   /\ u.logIndex < la => 1 <= Marks(f[u])["local"] /\ Marks(f[u])["local"] <= lh
                   /\ la <= u.logIndex => Marks(f[u])["local"] = 0
                   /\ u.logIndex < ra => 1 <= Marks(f[u])["remote"] /\ Marks(f[u])["remote"] <= rh
                   /\ ra <= u.logIndex => Marks(f[u])["remote"] = th
                   /\ u.logIndex < ta /\ u.logIndex \in Nat
  BY <1>1, <1>5, OurMarks, UpdateFields
<1>8. \A u \in V : /\ g[u] \in AnyEntry /\ Update(g[u]) = u /\ Shape(g[u])
                   /\ 1 <= Marks(g[u])["local"] /\ Marks(g[u])["local"] <= lh
                   /\ u.logIndex < lb
                   /\ u.logIndex < rb => 1 <= Marks(g[u])["remote"] /\ Marks(g[u])["remote"] <= rh
                   /\ rb <= u.logIndex /\ u.logIndex < tb => Marks(g[u])["remote"] = th
                   /\ tb <= u.logIndex => Marks(g[u])["remote"] = 0
                   /\ u.logIndex \in Nat
  BY <1>1, <1>6, TheirMarks, UpdateFields
<1> HIDE DEF f, g
<1>9. /\ S \in SUBSET AnyEntry /\ Ups(S) = U /\ Entries(S)
      /\ \A c, i, h, j, t :
           (\A u \in U : /\ u.logIndex < i => 1 <= Marks(f[u])[c] /\ Marks(f[u])[c] <= h
                         /\ i <= u.logIndex /\ u.logIndex < j => Marks(f[u])[c] = t
                         /\ j <= u.logIndex => Marks(f[u])[c] = 0)
           => Marked(S, c, i, h, j, t)
  <2> HIDE DEF U
  <2> QED
    BY <1>1, <1>2, <1>7, EntriesByUpdate
<1>10. /\ T \in SUBSET AnyEntry /\ Ups(T) = V /\ Entries(T)
       /\ \A c, i, h, j, t :
           (\A u \in V : /\ u.logIndex < i => 1 <= Marks(g[u])[c] /\ Marks(g[u])[c] <= h
                         /\ i <= u.logIndex /\ u.logIndex < j => Marks(g[u])[c] = t
                         /\ j <= u.logIndex => Marks(g[u])[c] = 0)
           => Marked(T, c, i, h, j, t)
  <2> HIDE DEF V
  <2> QED
    BY <1>1, <1>2, <1>8, EntriesByUpdate
<1> HIDE DEF S, T, U, V, la, lb, ra, rb, ta, tb, lh, rh, th
<1>11. Marked(S, "local", la, lh, la, lh)
  <2>1. \A u \in U : /\ u.logIndex < la => 1 <= Marks(f[u])["local"] /\ Marks(f[u])["local"] <= lh
                     /\ la <= u.logIndex /\ u.logIndex < la => Marks(f[u])["local"] = lh
                     /\ la <= u.logIndex => Marks(f[u])["local"] = 0
    BY <1>2, <1>7
  <2> QED
    BY <1>9, <2>1
<1>12. Marked(S, "remote", ra, rh, ta, th)
  <2>1. \A u \in U : /\ u.logIndex < ra => 1 <= Marks(f[u])["remote"] /\ Marks(f[u])["remote"] <= rh
                     /\ ra <= u.logIndex /\ u.logIndex < ta => Marks(f[u])["remote"] = th
                     /\ ta <= u.logIndex => Marks(f[u])["remote"] = 0
    BY <1>2, <1>7
  <2> QED
    BY <1>9, <2>1
<1>13. Marked(T, "local", lb, lh, lb, lh)
  <2>1. \A u \in V : /\ u.logIndex < lb => 1 <= Marks(g[u])["local"] /\ Marks(g[u])["local"] <= lh
                     /\ lb <= u.logIndex /\ u.logIndex < lb => Marks(g[u])["local"] = lh
                     /\ lb <= u.logIndex => Marks(g[u])["local"] = 0
    BY <1>2, <1>8
  <2> QED
    BY <1>10, <2>1
<1>14. Marked(T, "remote", rb, rh, tb, th)
  <2>1. \A u \in V : /\ u.logIndex < rb => 1 <= Marks(g[u])["remote"] /\ Marks(g[u])["remote"] <= rh
                     /\ rb <= u.logIndex /\ u.logIndex < tb => Marks(g[u])["remote"] = th
                     /\ tb <= u.logIndex => Marks(g[u])["remote"] = 0
    BY <1>2, <1>8
  <2> QED
    BY <1>10, <2>1
<1>15. EntriesInv(S, T, d)
  BY <1>9, <1>10, <1>11, <1>12, <1>13, <1>14
     DEF EntriesInv, la, lb, ra, rb, ta, tb, lh, rh, th
<1> QED
  BY <1>3, <1>4, <1>9, <1>10, <1>15 DEF U, V

\* A restart from the record of a party gives logs that fit it.
LEMMA RestoreLogs ==
    ASSUME NEW d \in AnyDisk, NEW U \in SUBSET AnyUpdate, NEW V \in SUBSET AnyUpdate,
           NEW n \in Nat, NEW k \in Nat, NEW nV \in Nat, NEW kV \in Nat,
           UpdatesInv(U, n, k, V, nV, kV, d), PendingNext(d)
    PROVE  LogsInv(restoreLocalLog(d), restoreRemoteLog(d), d)
<1> DEFINE ours == restoreLocalLog(d)
           theirs == restoreRemoteLog(d)
<1>1. Restorable(d, RestoredOurs(d), RestoredTheirs(d))
  BY RestorableDisk
<1>2. /\ ours.entries \in SUBSET AnyEntry /\ theirs.entries \in SUBSET AnyEntry
      /\ Ups(ours.entries) = RestoredOurs(d) /\ Ups(theirs.entries) = RestoredTheirs(d)
      /\ EntriesInv(ours.entries, theirs.entries, d)
  BY <1>1, RestoredEntries
<1>3. ours.logIndex = Tip(d).ourMessageIndex /\ ours.htlcCounter = Tip(d).ourHtlcIndex
  <2>1. /\ d.remote.ourMessageIndex + Cardinality(DiffOf(d)) = Tip(d).ourMessageIndex
        /\ d.remote.ourHtlcIndex + Cardinality(Adds(DiffOf(d))) = Tip(d).ourHtlcIndex
    BY DiffCounts
  <2> QED
    BY <2>1 DEF restoreLocalLog, newUpdateLog
<1>4. theirs.logIndex = d.local.theirMessageIndex /\ theirs.htlcCounter = d.local.theirHtlcIndex
  BY DEF restoreRemoteLog, newUpdateLog
<1>5. UpdatesInv(Ups(ours.entries), ours.logIndex, ours.htlcCounter,
                 Ups(theirs.entries), theirs.logIndex, theirs.htlcCounter, d)
  <2> HIDE DEF ours, theirs
  <2> QED
    BY <1>1, <1>2, <1>3, <1>4 DEF Restorable
<1>6. ours.modified = Removed(theirs.entries)
  <2>1. ours.modified = Removed(d.unsignedAcked)
    BY DEF restoreLocalLog
  <2>2. \A h : h \in Removed(d.unsignedAcked) <=> h \in Removed(RestoredTheirs(d))
    <3>1. \A u \in AsAdds(d.local.incoming) : ~IsRemoval(u)
      BY DEF AsAdds, LogUpdate, IsRemoval
    <3>2. \A u \in RestoredTheirs(d) : IsRemoval(u) => u \in d.unsignedAcked
      BY <3>1 DEF RestoredTheirs
    <3>3. \A u \in d.unsignedAcked : IsRemoval(u) => u \in RestoredTheirs(d)
      BY DEF RestoredTheirs, IsAdd, IsRemoval
    <3> QED
      BY <3>2, <3>3, RemovedIs
  <2>3. Removed(theirs.entries) = Removed(RestoredTheirs(d))
    BY <1>2, RemovedUps
  <2>4. Removed(d.unsignedAcked) = Removed(RestoredTheirs(d))
    BY <2>2 DEF Removed
  <2> QED
    BY <2>1, <2>3, <2>4
<1>7. theirs.modified = Removed(ours.entries)
  <2>1. theirs.modified = Removed(DiffOf(d)) \union Removed(d.remoteUnsignedLocal)
    BY DEF restoreRemoteLog, newUpdateLog
  <2>2. \A h : h \in Removed(DiffOf(d)) \union Removed(d.remoteUnsignedLocal)
                  <=> h \in Removed(RestoredOurs(d))
    <3>1. \A u \in AsAdds(d.remote.outgoing) : ~IsRemoval(u)
      BY DEF AsAdds, LogUpdate, IsRemoval
    <3> QED
      BY <3>1, RemovedIs DEF RestoredOurs
  <2>3. Removed(ours.entries) = Removed(RestoredOurs(d))
    BY <1>2, RemovedUps
  <2>4. Removed(DiffOf(d)) \union Removed(d.remoteUnsignedLocal) = Removed(RestoredOurs(d))
    BY <2>2 DEF Removed
  <2> QED
    BY <2>1, <2>3, <2>4
<1> QED
  BY <1>2, <1>5, <1>6, <1>7 DEF LogsInv
-----------------------------------------------------------------------------
(* The removals on their way, and the steps of a party as the few kinds there are. *)

LEMMA CarriedIs == \A s, h : h \in Carried(s) <=> \E i \in 1 .. Len(s) : Answering(s[i]) /\ s[i].htlc = h
BY DEF Carried

LEMMA CarriedConcat ==
    ASSUME NEW s \in Seq(AnyMessage), NEW t \in Seq(AnyMessage)
    PROVE  Carried(s \o t) = Carried(s) \union Carried(t)
<1> DEFINE st == s \o t
<1>1. /\ st \in Seq(AnyMessage) /\ Len(st) = Len(s) + Len(t) /\ Len(s) \in Nat /\ Len(t) \in Nat
      /\ \A i \in 1 .. Len(s) : st[i] = s[i]
      /\ \A i \in Len(s) + 1 .. Len(s) + Len(t) : st[i] = t[i - Len(s)]
  OBVIOUS
<1> HIDE DEF st
<1>2. ASSUME NEW h, h \in Carried(st) PROVE h \in Carried(s) \union Carried(t)
  <2>1. PICK i \in 1 .. Len(st) : Answering(st[i]) /\ st[i].htlc = h
    BY <1>2, CarriedIs
  <2>2. CASE i \in 1 .. Len(s)
    BY <1>1, <2>1, <2>2, CarriedIs
  <2>3. CASE i \in Len(s) + 1 .. Len(s) + Len(t)
    <3>1. i - Len(s) \in 1 .. Len(t) /\ st[i] = t[i - Len(s)]
      BY <1>1, <2>3
    <3> QED
      BY <2>1, <3>1, CarriedIs
  <2> QED
    BY <1>1, <2>1, <2>2, <2>3
<1>3. ASSUME NEW h \in Carried(s) PROVE h \in Carried(st)
  <2>1. PICK i \in 1 .. Len(s) : Answering(s[i]) /\ s[i].htlc = h
    BY <1>3, CarriedIs
  <2>2. i \in 1 .. Len(st) /\ st[i] = s[i]
    BY <1>1, <2>1
  <2> QED
    BY <2>1, <2>2, CarriedIs
<1>4. ASSUME NEW h \in Carried(t) PROVE h \in Carried(st)
  <2>1. PICK i \in 1 .. Len(t) : Answering(t[i]) /\ t[i].htlc = h
    BY <1>4, CarriedIs
  <2>2. /\ i + Len(s) \in 1 .. Len(st) /\ i + Len(s) \in Len(s) + 1 .. Len(s) + Len(t)
        /\ (i + Len(s)) - Len(s) = i
    BY <1>1, <2>1
  <2>3. st[i + Len(s)] = t[i]
    BY <1>1, <2>2
  <2> QED
    BY <2>1, <2>2, <2>3, CarriedIs
<1> QED
  BY <1>2, <1>3, <1>4 DEF st

LEMMA CarriedTail ==
    ASSUME NEW s \in Seq(AnyMessage), s # <<>>
    PROVE  Carried(Tail(s)) \subseteq Carried(s)
           /\ (Answering(Head(s)) => Head(s).htlc \in Carried(s))
<1> DEFINE t == Tail(s)
<1>1. /\ t \in Seq(AnyMessage) /\ Len(s) \in Nat /\ Len(s) > 0 /\ Len(t) = Len(s) - 1 /\ Head(s) = s[1]
      /\ \A i \in 1 .. Len(t) : t[i] = s[i + 1]
  OBVIOUS
<1> HIDE DEF t
<1>2. 1 \in 1 .. Len(s) /\ \A i \in 1 .. Len(t) : i + 1 \in 1 .. Len(s)
  BY <1>1
<1>3. ASSUME NEW h \in Carried(t) PROVE h \in Carried(s)
  <2>1. PICK i \in 1 .. Len(t) : Answering(t[i]) /\ t[i].htlc = h
    BY <1>3, CarriedIs
  <2> QED
    BY <1>1, <1>2, <2>1, CarriedIs
<1> QED
  BY <1>1, <1>2, <1>3, CarriedIs DEF t

LEMMA CarriedOne ==
    ASSUME NEW msg
    PROVE  /\ Carried(<<msg>>) = IF Answering(msg) THEN {msg.htlc} ELSE {}
           /\ Carried(<<>>) = {}
<1>1. Len(<<msg>>) = 1 /\ <<msg>>[1] = msg /\ 1 .. 1 = {1} /\ 1 .. Len(<<>>) = {}
  OBVIOUS
<1>2. \A h : h \in Carried(<<msg>>) <=> Answering(msg) /\ msg.htlc = h
  BY <1>1, CarriedIs
<1>3. \A h : h \notin Carried(<<>>)
  BY <1>1, CarriedIs
<1> QED
  BY <1>2, <1>3

LEMMA CarriedAgain ==
    ASSUME NEW d \in AnyDisk, d.pending # <<>>, ~RestoreFails(d)
    PROVE  Carried(Retransmission(d)) \subseteq Removed(DiffOf(d))
<1>1. PICK x \in AnyPending : d.pending = <<x>>
  BY DEF AnyDisk
<1>2. d.pending[1] = x /\ x.commit \in AnyCommit /\ x.updates \in FinSub(AnyUpdate)
  BY <1>1 DEF AnyPending
<1>3. DiffOf(d) = x.updates
  BY <1>2 DEF DiffOf
<1> DEFINE first == d.remote.ourMessageIndex
           n == Cardinality(x.updates)
           Nth(i) == CHOOSE u \in x.updates : u.logIndex = first + i - 1
           s == [i \in 1 .. n |-> UpdateMsg(Nth(i))]
<1>4. {u.logIndex : u \in x.updates} = first .. (first + n - 1)
  BY <1>3 DEF RestoreFails
<1>5. first \in Nat /\ n \in Nat /\ x.updates \subseteq AnyUpdate
  BY <1>2, FS_CardinalityType, CommitIndices DEF AnyDisk, FinSub
<1>6. ASSUME NEW i \in 1 .. n PROVE Nth(i) \in x.updates
  <2>1. first + i - 1 \in first .. (first + n - 1)
    BY <1>5
  <2>2. \E u \in x.updates : u.logIndex = first + i - 1
    BY <1>4, <2>1
  <2> QED
    BY <1>5, <2>2
<1>7. s \in Seq(AnyMessage) /\ Len(s) = n
  <2> HIDE DEF Nth, n
  <2>1. \A i \in 1 .. n : UpdateMsg(Nth(i)) \in AnyMessage
    BY <1>5, <1>6, MessageTypes
  <2> QED
    BY <1>5, <2>1
<1>8. ASSUME NEW h \in Carried(s) PROVE h \in Removed(DiffOf(d))
  <2>1. PICK i \in 1 .. Len(s) : Answering(s[i]) /\ s[i].htlc = h
    BY <1>8, CarriedIs
  <2>2. s[i] = UpdateMsg(Nth(i)) /\ Nth(i) \in x.updates
    BY <1>6, <1>7, <2>1
  <2> HIDE DEF s, Nth
  <2>3. IsRemoval(Nth(i)) /\ Nth(i).htlc = h
    BY <2>1, <2>2 DEF UpdateMsg, Msg, Answering, IsRemoval
  <2> QED
    BY <1>3, <2>2, <2>3, RemovedIs
<1>9. Retransmission(d) = s \o <<CommitSig(x.commit)>>
  BY <1>2 DEF Retransmission
<1> HIDE DEF s
<1> DEFINE t == <<CommitSig(x.commit)>>
<1>10. t \in Seq(AnyMessage) /\ Carried(t) = {}
  <2>1. CommitSig(x.commit) \in AnyMessage /\ CommitSig(x.commit).type = "CommitSig"
    BY <1>2, MessageTypes
  <2>2. ~Answering(CommitSig(x.commit))
    BY <2>1 DEF Answering
  <2> QED
    BY <2>1, <2>2, OneMessage, CarriedOne
<1> HIDE DEF t
<1>11. Carried(s \o t) = Carried(s) \union Carried(t)
  BY <1>7, <1>10, CarriedConcat
<1> QED
  BY <1>8, <1>9, <1>10, <1>11 DEF t

\* After a reestablish a party has signed at most, and has sent again at most what it had signed.
LEMMA SyncIs ==
    ASSUME NEW m \in AnyMemory, NEW d \in AnyDisk, NEW e \in AnyDisk, ChainsOf(m, d),
           PendingNext(d), PendingNext(e), Agreed(d, e), Agreed(e, d), ~RestoreFails(d),
           NEW msg, msg.nextLocalCommitHeight = e.local.height + 1,
           msg.remoteCommitTailHeight = e.remote.height,
           NEW r, r = ProcessChanSyncMsg(m, d, msg), NEW s, s = SignNextCommitment(m, d)
    PROVE  /\ \/ r.mem = m /\ r.disk = d
              \/ s.err = "none" /\ r.mem = s.mem /\ r.disk = s.disk
           /\ Carried(r.msgs) \subseteq Removed(DiffOf(d))
<1> DEFINE localTail == tail(m.localChain).height
           theirTail == msg.remoteCommitTailHeight
           theirNext == msg.nextLocalCommitHeight
           Result(sign) ==
            CASE sign.err # "none" -> [sign EXCEPT !.err = "ErrRecoveryError"]
              [] theirNext > tip(m.remoteChain).height + 1 ->
                    [sign EXCEPT !.err = "ErrCannotSyncCommitChains", !.msgs = <<>>]
              [] theirNext <= tail(m.remoteChain).height ->
                    [sign EXCEPT !.err = "ErrCommitSyncRemoteDataLoss", !.msgs = <<>>]
              [] OTHER -> [sign EXCEPT !.msgs = Resync(m, d, msg, sign)]
           NoWindow(sign) == IF sign.err = "ErrNoWindow" THEN NotSigned(m, d, "none")
                             ELSE sign
           sign == IF OweRevocation(m, msg) /\ oweCommitment(m, TRUE)
                     THEN NoWindow(SignNextCommitment(m, d))
                     ELSE NotSigned(m, d, "none")
<1>1. /\ localTail = d.local.height /\ tail(m.remoteChain) = d.remote
      /\ d.local.height \in Nat /\ d.remote.height \in Nat
      /\ e.local.height \in Nat /\ e.remote.height \in Nat
      /\ localTail \in {theirTail, theirTail + 1}
  BY ChainFacts, AgreedHeights
<1>2. r = Result(sign)
  <2>1. ~(theirTail > localTail) /\ ~(theirTail + 1 < localTail)
    BY <1>1
  <2> QED
    BY <2>1 DEF ProcessChanSyncMsg
<1>3. /\ SignResult(sign) /\ sign.msgs \in Seq(AnyMessage) /\ Carried(sign.msgs) = {}
      /\ \/ sign.mem = m /\ sign.disk = d
         \/ s.err = "none" /\ sign = s
  <2>1. SignResult(s) /\ (NotSignedOK(m, d, s) \/ SignedOK(d, s))
    BY SignIsRecord, SignNext
  <2>2. /\ SignResult(NotSigned(m, d, "none"))
        /\ NotSigned(m, d, "none").mem = m /\ NotSigned(m, d, "none").disk = d
        /\ NotSigned(m, d, "none").msgs = <<>>
    BY DEF NotSigned, SignResult
  <2>3. sign = NotSigned(m, d, "none") \/ sign = s
    OBVIOUS
  <2> HIDE DEF sign
  <2>4. <<>> \in Seq(AnyMessage) /\ Carried(<<>>) = {}
    BY NoMessage, CarriedOne
  <2>5. CASE sign = NotSigned(m, d, "none")
    BY <2>2, <2>4, <2>5
  <2>6. CASE sign = s /\ NotSignedOK(m, d, s)
    BY <2>1, <2>4, <2>6 DEF NotSignedOK
  <2>7. CASE sign = s /\ SignedOK(d, s)
    <3>1. PICK c \in AnyCommit : s.msgs = <<CommitSig(c)>>
      BY <2>7 DEF SignedOK, IsSignature
    <3>2. CommitSig(c) \in AnyMessage /\ ~Answering(CommitSig(c))
      BY MessageTypes DEF Answering
    <3>3. s.msgs \in Seq(AnyMessage) /\ Carried(s.msgs) = {}
      BY <3>1, <3>2, OneMessage, CarriedOne
    <3> QED
      BY <2>1, <2>7, <3>3 DEF SignedOK
  <2> QED
    BY <2>1, <2>3, <2>5, <2>6, <2>7
<1> DEFINE revocation ==
            IF OweRevocation(m, msg)
            THEN <<RevokeAndAck(tail(m.localChain).height - 1)>> \o sign.msgs
            ELSE <<>>
           msgs == IF theirNext = tip(m.remoteChain).height
                   THEN InOrder(d, revocation, Retransmission(d)) ELSE revocation
<1>4. \/ theirNext = d.remote.height + 1 /\ e.local.height = d.remote.height
      \/ theirNext = d.remote.height + 2 /\ d.pending # <<>>
  BY <1>1, AgreedHeights
<1>5. /\ d.pending = <<>> => tip(m.remoteChain).height = d.remote.height
      /\ d.pending # <<>> => tip(m.remoteChain).height = d.remote.height + 1
  BY ChainFacts DEF PendingNext
<1>6. /\ ~(theirNext > tip(m.remoteChain).height + 1)
      /\ ~(theirNext <= tail(m.remoteChain).height)
      /\ theirNext = tip(m.remoteChain).height
            <=> d.pending # <<>> /\ e.local.height = d.remote.height
  BY <1>1, <1>4, <1>5
<1> HIDE DEF sign
<1>7. r = IF sign.err # "none" THEN [sign EXCEPT !.err = "ErrRecoveryError"]
          ELSE [sign EXCEPT !.msgs = msgs]
  BY <1>2, <1>6 DEF Resync
<1> HIDE DEF msgs
<1>8. r.mem = sign.mem /\ r.disk = sign.disk /\ r.msgs \in {msgs, sign.msgs}
  <2>1. SignResult(sign)
    BY <1>3
  <2> QED
    BY <1>7, <2>1 DEF SignResult
<1>9. revocation \in Seq(AnyMessage) /\ Carried(revocation) = {}
  <2> DEFINE rev == RevokeAndAck(tail(m.localChain).height - 1)
             one == <<rev>>
  <2>1. rev \in AnyMessage /\ rev.type = "RevokeAndAck"
    <3>1. tail(m.localChain).height - 1 \in Int
      BY <1>1
    <3> QED
      BY <3>1, MessageTypes
  <2>2. ~Answering(rev)
    BY <2>1 DEF Answering
  <2> HIDE DEF rev
  <2>3. one \in Seq(AnyMessage) /\ Carried(one) = {}
    BY <2>1, <2>2, OneMessage, CarriedOne
  <2>4. revocation = IF OweRevocation(m, msg) THEN one \o sign.msgs ELSE <<>>
    BY DEF rev
  <2> HIDE DEF one, revocation
  <2>5. one \o sign.msgs \in Seq(AnyMessage) /\ Carried(one \o sign.msgs) = {}
    BY <1>3, <2>3, CarriedConcat, QueueConcat
  <2> QED
    BY <2>4, <2>5, NoMessage, CarriedOne
<1> HIDE DEF revocation
<1>10. Carried(msgs) \subseteq Removed(DiffOf(d))
  <2>1. CASE theirNext = tip(m.remoteChain).height
    <3> DEFINE again == Retransmission(d)
    <3>1. d.pending # <<>> /\ e.local.height = d.remote.height
      BY <1>6, <2>1
    <3>2. again \in Seq(AnyMessage) /\ Carried(again) \subseteq Removed(DiffOf(d))
      BY <3>1, RetransmissionIs, CarriedAgain DEF GoodMsgs
    <3>3. msgs \in {again \o revocation, revocation \o again}
      BY <2>1 DEF msgs, InOrder
    <3> HIDE DEF again
    <3> QED
      BY <1>9, <3>2, <3>3, CarriedConcat
  <2>2. CASE theirNext # tip(m.remoteChain).height
    BY <1>9, <2>2 DEF msgs
  <2> QED
    BY <2>1, <2>2
<1> QED
  BY <1>3, <1>8, <1>10

LEMMA NetSent ==
    ASSUME Good, NEW p \in Party, NEW n, NEW msgs \in Seq(AnyMessage), NEW S,
           net' = [net EXCEPT ![p] = n, ![Other(p)] = @ \o msgs],
           Carried(n) \subseteq Carried(net[p]), Carried(msgs) \subseteq S
    PROVE  NetStep(p, S)
<1> DEFINE q == Other(p)
<1>1. q \in Party /\ q # p /\ net[q] \in Seq(AnyMessage) /\ DOMAIN net = Party
  BY TypeFacts, PartyFacts DEF Good, ChannelSafe, ChannelInv, ChannelTypes
<1>2. net'[p] = n /\ net'[q] = net[q] \o msgs
  BY <1>1
<1>3. Carried(net[q] \o msgs) = Carried(net[q]) \union Carried(msgs)
  BY <1>1, CarriedConcat
<1> QED
  BY <1>2, <1>3 DEF NetStep

LEMMA GoodFacts ==
    ASSUME Good, NEW p \in Party
    PROVE  /\ ChannelInv /\ mem[p] \in AnyMemory /\ disk[p] \in AnyDisk /\ PartyLogs(mem[p], disk[p])
           /\ mem[p].localLog \in AnyLog /\ mem[p].remoteLog \in AnyLog /\ net[p] \in Seq(AnyMessage)
           /\ mem \in [Party -> AnyMemory] /\ disk \in [Party -> AnyDisk]
           /\ disk = [disk EXCEPT ![p] = disk[p]]
           /\ Logs(mem[p].localLog, mem[p].remoteLog, disk[p])
           /\ ChainsOf(mem[p], disk[p])
<1>1. ChannelInv /\ PartyLogs(mem[p], disk[p])
  BY DEF Good, ChannelSafe
<1>2. /\ mem[p] \in AnyMemory /\ disk[p] \in AnyDisk /\ net[p] \in Seq(AnyMessage)
      /\ mem \in [Party -> AnyMemory] /\ disk \in [Party -> AnyDisk]
      /\ disk = [disk EXCEPT ![p] = disk[p]]
  BY <1>1, TypeFacts, Kept DEF ChannelInv, ChannelTypes
<1>3. mem[p].localLog \in AnyLog /\ mem[p].remoteLog \in AnyLog
  BY <1>2 DEF AnyMemory
<1> QED
  BY <1>1, <1>2, <1>3 DEF Logs, PartyLogs

\* Appending an entry for u, and marking the HTLC it removes.
LEMMA AppendedLogs ==
    ASSUME NEW log \in AnyLog, NEW other \in AnyLog, NEW u \in AnyUpdate,
           NEW e, e = Entry(u, NoHeight, NoHeight)
    PROVE  /\ e \in AnyEntry /\ UpdateMsg(e) = UpdateMsg(u)
           /\ IsAdd(u) => Appended(log, u, appendHtlc(log, e))
           /\ ~IsAdd(u) => Appended(log, u, appendUpdate(log, e))
           /\ ~IsRemoval(u) => Touched(other, u, other)
           /\ IsRemoval(u) => Touched(other, u, markHtlcModified(other, u.htlc))
<1>1. e \in AnyEntry
  BY NewEntry
<1>2. UpdateMsg(e) = UpdateMsg(u)
  BY DEF UpdateMsg, Msg, Entry
<1>3. appendHtlc(log, e) \in AnyLog /\ appendUpdate(log, e) \in AnyLog
  BY <1>1, LogTypes
<1>4. IsAdd(u) => Appended(log, u, appendHtlc(log, e))
  BY <1>3 DEF Appended, appendHtlc, NextId, AnyLog
<1>5. ~IsAdd(u) => Appended(log, u, appendUpdate(log, e))
  BY <1>3 DEF Appended, appendUpdate, NextId, AnyLog
<1>6. ~IsRemoval(u) => Touched(other, u, other)
  BY DEF Touched
<1>7. IsRemoval(u) => Touched(other, u, markHtlcModified(other, u.htlc))
  <2>1. u.htlc \in Nat
    BY UpdateFields
  <2>2. markHtlcModified(other, u.htlc) \in AnyLog
    BY <2>1, LogTypes
  <2> QED
    BY <2>2 DEF Touched, markHtlcModified, AnyLog
<1> QED
  BY <1>1, <1>2, <1>4, <1>5, <1>6, <1>7

\* The HTLC with an id is one entry, and its amount is that of the set lookupHtlc returns.
LEMMA ParentIs ==
    ASSUME NEW log \in AnyLog, NEW n \in Nat, NEW k \in Nat, Entries(log.entries),
           Distinct(Ups(log.entries), n, k), NEW htlc, lookupHtlc(log, htlc) # {}
    PROVE  \E v \in Ups(log.entries) : IsAdd(v) /\ v.htlc = htlc /\ v.amt = SumAmt(lookupHtlc(log, htlc))
<1> DEFINE S == lookupHtlc(log, htlc)
<1>1. log.entries \in SUBSET AnyEntry
  BY LogFields
<1>2. PICK e \in S : TRUE
  OBVIOUS
<1>3. \A f \in S : f \in log.entries /\ IsAdd(f) /\ f.htlc = htlc
  BY DEF lookupHtlc, Adds, IsAdd
<1>4. \A f \in S : f = e
  <2> SUFFICES ASSUME NEW f \in S PROVE f = e
    OBVIOUS
  <2>1. /\ f \in log.entries /\ e \in log.entries /\ IsAdd(e) /\ IsAdd(f) /\ e.htlc = f.htlc
        /\ e.logIndex \in Nat /\ f.logIndex \in Nat /\ e.htlc \in Nat
    BY <1>1, <1>2, <1>3, EntryFields
  <2>2. /\ Update(e) \in Ups(log.entries) /\ Update(f) \in Ups(log.entries)
        /\ IsAdd(Update(e)) /\ IsAdd(Update(f)) /\ Update(e).htlc = e.htlc /\ Update(f).htlc = f.htlc
        /\ Update(e).logIndex = e.logIndex /\ Update(f).logIndex = f.logIndex
    BY <1>1, <2>1, UpsFacts
  <2>3. e.logIndex = f.logIndex
    BY <2>1, <2>2 DEF Distinct
  <2> QED
    BY <2>1, <2>3 DEF Entries
<1>5. S = {e}
  BY <1>2, <1>4
<1>6. e.amt \in Nat /\ e \in log.entries /\ IsAdd(e) /\ e.htlc = htlc
  BY <1>1, <1>2, <1>3, EntryFields
<1>7. SumAmt(S) = e.amt
  <2> DEFINE f == [x \in {e} |-> x.amt]
  <2>1. f[e] = e.amt /\ \A x \in {e} : f[x] \in Nat
    BY <1>6
  <2>2. SumAmt({e}) = Total(f, {e})
    BY DEF SumAmt, Total
  <2> HIDE DEF f
  <2>3. Total(f, {} \cup {e}) = Total(f, {}) + f[e]
    <3>1. IsFiniteSet({e}) /\ {} \in SUBSET {e} /\ e \in {e} \ {}
      BY FS_Singleton
    <3> QED
      BY <2>1, <3>1, TotalAdd
  <2>4. {} \cup {e} = {e} /\ Total(f, {}) = 0
    BY TotalEmpty
  <2> QED
    BY <1>5, <1>6, <2>1, <2>2, <2>3, <2>4
<1> HIDE DEF S
<1>8. /\ Update(e) \in Ups(log.entries) /\ IsAdd(Update(e)) /\ Update(e).htlc = htlc
      /\ Update(e).amt = SumAmt(S)
  BY <1>1, <1>6, <1>7, UpsFacts
<1> QED
  BY <1>8 DEF S
-----------------------------------------------------------------------------
(* Every action is a step of one of these kinds. *)

\* A party whose memory is m but for its logs.
WithLogs(m, a, b) == [m EXCEPT !.localLog = a, !.remoteLog = b]

LEMMA WithLogsIs ==
    ASSUME NEW m \in AnyMemory, NEW a, NEW b
    PROVE  /\ WithLogs(m, a, b).localLog = a /\ WithLogs(m, a, b).remoteLog = b
           /\ [m EXCEPT !.localLog = a] = WithLogs(m, a, m.remoteLog)
           /\ [m EXCEPT !.remoteLog = b] = WithLogs(m, m.localLog, b)
           /\ [m EXCEPT !.remoteLog = b, !.localLog = a] = WithLogs(m, a, b)
BY DEF AnyMemory, WithLogs

LEMMA OursGrown ==
    ASSUME Good, NEW p \in Party, NEW u \in AnyUpdate, NEW e, e = Entry(u, NoHeight, NoHeight),
           NEW a, NEW b, Appended(mem[p].localLog, u, a), Touched(mem[p].remoteLog, u, b),
           mem' = [mem EXCEPT ![p] = WithLogs(mem[p], a, b)], Send(p, <<UpdateMsg(e)>>),
           UNCHANGED disk, Answered(u) \subseteq LockedIn(disk[p]),
           Fits(u, Ups(mem[p].localLog.entries), mem[p].localLog.logIndex,
                mem[p].localLog.htlcCounter, Ups(mem[p].remoteLog.entries))
    PROVE  StepKind(p)
<1> DEFINE m == WithLogs(mem[p], a, b)
<1>1. m.localLog = a /\ m.remoteLog = b
  <2>1. mem[p] \in AnyMemory
    BY GoodFacts
  <2> QED
    BY <2>1 DEF WithLogs, AnyMemory
<1>2. Moves(p, m, disk[p])
  BY GoodFacts DEF Moves
<1>3. NetStep(p, Answered(u))
  <2>1. e \in AnyEntry /\ UpdateMsg(e) = UpdateMsg(u)
    BY GoodFacts, AppendedLogs
  <2>2. <<UpdateMsg(e)>> \in Seq(AnyMessage)
    BY <2>1, OneUpdate
  <2>3. /\ Answering(UpdateMsg(u)) <=> IsRemoval(u)
        /\ UpdateMsg(u).htlc = u.htlc
    BY DEF Answering, UpdateMsg, Msg, IsRemoval
  <2>4. Carried(<<UpdateMsg(e)>>) = Answered(u)
    BY <2>1, <2>3, CarriedOne DEF Answered
  <2>5. net' = [net EXCEPT ![p] = net[p], ![Other(p)] = @ \o <<UpdateMsg(e)>>]
    BY GoodFacts, Kept
  <2> QED
    BY <2>2, <2>4, <2>5, NetSent
<1> HIDE DEF m
<1> QED
  BY <1>1, <1>2, <1>3 DEF OursGrow, StepKind

LEMMA AddKind ==
    ASSUME Good, NEW p \in Party, NEW amt \in Amounts, AddHTLC(p, amt)
    PROVE  StepKind(p)
<1> DEFINE log == mem[p].localLog
           u == LogUpdate("Add", log.logIndex, log.htlcCounter, amt)
           e == Entry(u, NoHeight, NoHeight)
           a == appendHtlc(log, e)
           b == mem[p].remoteLog
<1>1. amt \in Nat /\ log.logIndex \in Nat /\ log.htlcCounter \in Nat
  BY GoodFacts, ScenarioFacts, LogTypes
<1>2. u \in AnyUpdate /\ IsAdd(u) /\ ~IsRemoval(u) /\ u.logIndex = log.logIndex /\ u.htlc = log.htlcCounter
  BY <1>1 DEF LogUpdate, AnyUpdate, UpdateTypes, IsAdd, IsRemoval
<1>3. mem' = [mem EXCEPT ![p] = [mem[p] EXCEPT !.localLog = a]] /\ Send(p, <<UpdateMsg(e)>>) /\ UNCHANGED disk
  BY GoodFacts DEF AddHTLC
<1> HIDE DEF u
<1>4. Appended(log, u, a) /\ Touched(b, u, b)
  BY <1>2, GoodFacts, AppendedLogs
<1> HIDE DEF a
<1>5. mem' = [mem EXCEPT ![p] = WithLogs(mem[p], a, b)]
  BY <1>3, GoodFacts, WithLogsIs
<1>6. Fits(u, Ups(mem[p].localLog.entries), mem[p].localLog.logIndex,
                mem[p].localLog.htlcCounter, Ups(mem[p].remoteLog.entries))
  BY <1>2 DEF Fits
<1>7. Answered(u) \subseteq LockedIn(disk[p])
  BY <1>2 DEF Answered
<1> QED
  BY <1>2, <1>3, <1>4, <1>5, <1>6, <1>7, OursGrown

LEMMA UpdateFeeKind ==
    ASSUME Good, NEW p \in Party, NEW fee \in FeeRates, UpdateFee(p, fee)
    PROVE  StepKind(p)
<1> DEFINE log == mem[p].localLog
           u == LogUpdate("FeeUpdate", log.logIndex, 0, fee)
           e == Entry(u, NoHeight, NoHeight)
           a == appendUpdate(log, e)
           b == mem[p].remoteLog
<1>1. fee \in Nat /\ log.logIndex \in Nat
  BY GoodFacts, ScenarioFacts, LogTypes
<1>2. u \in AnyUpdate /\ ~IsAdd(u) /\ ~IsRemoval(u) /\ u.logIndex = log.logIndex
  BY <1>1 DEF LogUpdate, AnyUpdate, UpdateTypes, IsAdd, IsRemoval
<1>3. mem' = [mem EXCEPT ![p] = [mem[p] EXCEPT !.localLog = a]] /\ Send(p, <<UpdateMsg(e)>>) /\ UNCHANGED disk
  BY GoodFacts DEF UpdateFee
<1> HIDE DEF u
<1>4. Appended(log, u, a) /\ Touched(b, u, b)
  BY <1>2, GoodFacts, AppendedLogs
<1> HIDE DEF a
<1>5. mem' = [mem EXCEPT ![p] = WithLogs(mem[p], a, b)]
  BY <1>3, GoodFacts, WithLogsIs
<1>6. Fits(u, Ups(mem[p].localLog.entries), mem[p].localLog.logIndex,
                mem[p].localLog.htlcCounter, Ups(mem[p].remoteLog.entries))
  BY <1>2 DEF Fits
<1>7. Answered(u) \subseteq LockedIn(disk[p])
  BY <1>2 DEF Answered
<1> QED
  BY <1>2, <1>3, <1>4, <1>5, <1>6, <1>7, OursGrown

\* A removal of an HTLC that the other log has and that nothing has removed.
LEMMA RemovalFits ==
    ASSUME NEW own \in AnyLog, NEW other \in AnyLog, NEW n, NEW k, NEW nV \in Nat, NEW kV \in Nat,
           other.modified = Removed(own.entries), Entries(other.entries),
           Distinct(Ups(other.entries), nV, kV), NEW htlc \in Nat, lookupHtlc(other, htlc) # {},
           htlc \notin other.modified, NEW u \in AnyUpdate, IsRemoval(u), u.logIndex = n,
           u.htlc = htlc, u.amt = SumAmt(lookupHtlc(other, htlc))
    PROVE  Fits(u, Ups(own.entries), n, k, Ups(other.entries))
<1>1. \A v \in Ups(own.entries) : IsRemoval(v) => v.htlc # htlc
  <2>1. own.entries \in SUBSET AnyEntry
    BY LogFields
  <2>2. htlc \notin Removed(Ups(own.entries))
    BY <2>1, RemovedUps
  <2> QED
    BY <2>2, RemovedIs
<1>2. \E v \in Ups(other.entries) : IsAdd(v) /\ v.htlc = htlc /\ v.amt = SumAmt(lookupHtlc(other, htlc))
  BY ParentIs
<1>3. ~IsAdd(u)
  BY DEF IsAdd, IsRemoval
<1> QED
  BY <1>1, <1>2, <1>3 DEF Fits

LEMMA RemoveKind ==
    ASSUME Good, NEW p \in Party, NEW htlc \in Nat, NEW t \in {"Settle", "Fail"}, RemoveHTLC(p, htlc, t)
    PROVE  StepKind(p)
<1> DEFINE own == mem[p].localLog
           other == mem[p].remoteLog
           sum == SumAmt(lookupHtlc(other, htlc))
           u == LogUpdate(t, own.logIndex, htlc, sum)
           e == Entry(u, NoHeight, NoHeight)
           a == appendUpdate(own, e)
           b == markHtlcModified(other, htlc)
<1>1. /\ mem' = [mem EXCEPT ![p].localLog = a, ![p].remoteLog = b]
      /\ Send(p, <<UpdateMsg(e)>>) /\ UNCHANGED disk /\ htlc \in LockedIn(disk[p])
      /\ lookupHtlc(other, htlc) # {} /\ htlc \notin other.modified
  BY GoodFacts DEF RemoveHTLC
<1>2. own \in AnyLog /\ other \in AnyLog /\ sum \in Nat /\ own.logIndex \in Nat
  BY GoodFacts, LogTypes
<1> HIDE DEF sum
<1>3. /\ u \in AnyUpdate /\ ~IsAdd(u) /\ IsRemoval(u) /\ u.logIndex = own.logIndex /\ u.htlc = htlc
      /\ u.amt = sum
  BY <1>2 DEF LogUpdate, AnyUpdate, UpdateTypes, IsAdd, IsRemoval
<1> HIDE DEF u
<1>4. Appended(own, u, a) /\ Touched(other, u, b)
  BY <1>2, <1>3, AppendedLogs
<1>5. mem' = [mem EXCEPT ![p] = WithLogs(mem[p], a, b)]
  <2> HIDE DEF a, b
  <2> QED
    BY <1>1, GoodFacts DEF WithLogs
<1> HIDE DEF a, b
<1>6. Fits(u, Ups(own.entries), own.logIndex, own.htlcCounter, Ups(other.entries))
  <2>1. /\ other.modified = Removed(own.entries) /\ Entries(other.entries)
        /\ Distinct(Ups(other.entries), other.logIndex, other.htlcCounter)
        /\ other.logIndex \in Nat /\ other.htlcCounter \in Nat
    <3>1. PartyLogs(mem[p], disk[p])
      BY GoodFacts
    <3>2. other.modified = Removed(own.entries)
      BY <3>1 DEF PartyLogs, LogsInv
    <3> QED
      BY <3>1, <3>2, PartyFactsOf
  <2> QED
    BY <1>1, <1>2, <1>3, <2>1, RemovalFits DEF sum
<1>7. Answered(u) \subseteq LockedIn(disk[p])
  BY <1>1, <1>3 DEF Answered
<1> QED
  BY <1>1, <1>3, <1>4, <1>5, <1>6, <1>7, OursGrown

\* A message is taken and answered.
LEMMA NetReplied ==
    ASSUME Good, NEW p \in Party, net[p] # <<>>, NEW msgs \in Seq(AnyMessage), Reply(p, msgs),
           NEW S, Carried(msgs) \subseteq S
    PROVE  NetStep(p, S)
<1>1. Carried(Tail(net[p])) \subseteq Carried(net[p])
  BY GoodFacts, CarriedTail
<1>2. net' = [net EXCEPT ![p] = Tail(net[p]), ![Other(p)] = @ \o msgs]
  BY DEF Reply
<1> QED
  BY <1>1, <1>2, NetSent

LEMMA NothingSent ==
    ASSUME Good, NEW p \in Party, net[p] # <<>>, Reply(p, <<>>)
    PROVE  \A S : NetStep(p, S)
<1>1. <<>> \in Seq(AnyMessage) /\ Carried(<<>>) = {}
  BY NoMessage, CarriedOne
<1> QED
  BY <1>1, NetReplied

LEMMA TheirsGrown ==
    ASSUME Good, NEW p \in Party, net[p] # <<>>, Reply(p, <<>>), UNCHANGED disk,
           NEW u \in AnyUpdate, NEW a, NEW b,
           Appended(mem[p].remoteLog, u, b), Touched(mem[p].localLog, u, a),
           mem' = [mem EXCEPT ![p] = WithLogs(mem[p], a, b)],
           IsRemoval(u) => Answering(Head(net[p])) /\ Head(net[p]).htlc = u.htlc,
           Fits(u, Ups(mem[p].remoteLog.entries), mem[p].remoteLog.logIndex,
                mem[p].remoteLog.htlcCounter, Ups(mem[p].localLog.entries))
    PROVE  StepKind(p)
<1> DEFINE m == WithLogs(mem[p], a, b)
<1>1. m.localLog = a /\ m.remoteLog = b
  <2>1. mem[p] \in AnyMemory
    BY GoodFacts
  <2> QED
    BY <2>1 DEF WithLogs, AnyMemory
<1>2. Moves(p, m, disk[p])
  BY GoodFacts DEF Moves
<1>3. NetStep(p, {})
  BY NothingSent
<1>4. Answered(u) \subseteq Carried(net[p])
  BY GoodFacts, CarriedTail DEF Answered
<1> HIDE DEF m
<1> QED
  BY <1>1, <1>2, <1>3, <1>4 DEF TheirsGrow, StepKind

LEMMA ReceiveAddKind ==
    ASSUME Good, NEW p \in Party, ReceiveAdd(p)
    PROVE  StepKind(p)
<1> DEFINE msg == Head(net[p])
           log == mem[p].remoteLog
           u   == LogUpdate("Add", log.logIndex, log.htlcCounter, msg.amt)
           e   == Entry(u, NoHeight, NoHeight)
           a   == mem[p].localLog
           b   == appendHtlc(log, e)
<1>1. /\ net[p] # <<>> /\ msg.type = "Add" /\ Reply(p, <<>>) /\ UNCHANGED disk
      /\ \/ mem' = [mem EXCEPT ![p] = [mem[p] EXCEPT !.remoteLog = b]]
         \/ UNCHANGED mem
  BY GoodFacts DEF ReceiveAdd, Deliver
<1>2. msg.amt \in Nat /\ log.logIndex \in Nat /\ log.htlcCounter \in Nat
  BY <1>1, GoodFacts, QueuePop, MessageFields, LogTypes DEF UpdateTypes
<1> HIDE DEF msg
<1>3. u \in AnyUpdate /\ IsAdd(u) /\ ~IsRemoval(u) /\ u.logIndex = log.logIndex /\ u.htlc = log.htlcCounter
  BY <1>2 DEF LogUpdate, AnyUpdate, UpdateTypes, IsAdd, IsRemoval
<1> HIDE DEF u
<1>4. CASE UNCHANGED mem
  BY <1>1, <1>4, NothingSent DEF Waits, StepKind
<1>5. CASE mem' = [mem EXCEPT ![p] = [mem[p] EXCEPT !.remoteLog = b]]
  <2>0. log \in AnyLog /\ a \in AnyLog /\ mem[p] \in AnyMemory
    BY GoodFacts
  <2>1. Appended(log, u, b) /\ Touched(a, u, a)
    <3> DEFINE x == Entry(u, NoHeight, NoHeight)
    <3>1. x = Entry(u, NoHeight, NoHeight)
      OBVIOUS
    <3> HIDE DEF log, a, x
    <3> QED
      BY <1>3, <2>0, <3>1, AppendedLogs
  <2> HIDE DEF b
  <2>2. mem' = [mem EXCEPT ![p] = WithLogs(mem[p], a, b)]
    BY <1>5, <2>0, WithLogsIs
  <2>3. Fits(u, Ups(mem[p].remoteLog.entries), mem[p].remoteLog.logIndex,
             mem[p].remoteLog.htlcCounter, Ups(mem[p].localLog.entries))
    BY <1>3 DEF Fits
  <2> QED
    BY <1>1, <1>3, <2>1, <2>2, <2>3, TheirsGrown
<1> QED
  BY <1>1, <1>4, <1>5

LEMMA ReceiveUpdateFeeKind ==
    ASSUME Good, NEW p \in Party, ReceiveUpdateFee(p)
    PROVE  StepKind(p)
<1> DEFINE msg == Head(net[p])
           log == mem[p].remoteLog
           u   == LogUpdate("FeeUpdate", log.logIndex, 0, msg.amt)
           e   == Entry(u, NoHeight, NoHeight)
           a   == mem[p].localLog
           b   == appendUpdate(log, e)
<1>1. /\ net[p] # <<>> /\ msg.type = "FeeUpdate" /\ Reply(p, <<>>) /\ UNCHANGED disk
      /\ \/ mem' = [mem EXCEPT ![p] = [mem[p] EXCEPT !.remoteLog = b]]
         \/ UNCHANGED mem
  BY GoodFacts DEF ReceiveUpdateFee, Deliver
<1>2. msg.amt \in Nat /\ log.logIndex \in Nat
  BY <1>1, GoodFacts, QueuePop, MessageFields, LogTypes DEF UpdateTypes
<1> HIDE DEF msg
<1>3. u \in AnyUpdate /\ ~IsAdd(u) /\ ~IsRemoval(u) /\ u.logIndex = log.logIndex
  BY <1>2 DEF LogUpdate, AnyUpdate, UpdateTypes, IsAdd, IsRemoval
<1> HIDE DEF u
<1>4. CASE UNCHANGED mem
  BY <1>1, <1>4, NothingSent DEF Waits, StepKind
<1>5. CASE mem' = [mem EXCEPT ![p] = [mem[p] EXCEPT !.remoteLog = b]]
  <2>0. log \in AnyLog /\ a \in AnyLog /\ mem[p] \in AnyMemory
    BY GoodFacts
  <2>1. Appended(log, u, b) /\ Touched(a, u, a)
    <3> DEFINE x == Entry(u, NoHeight, NoHeight)
    <3>1. x = Entry(u, NoHeight, NoHeight)
      OBVIOUS
    <3> HIDE DEF log, a, x
    <3> QED
      BY <1>3, <2>0, <3>1, AppendedLogs
  <2> HIDE DEF b
  <2>2. mem' = [mem EXCEPT ![p] = WithLogs(mem[p], a, b)]
    BY <1>5, <2>0, WithLogsIs
  <2>3. Fits(u, Ups(mem[p].remoteLog.entries), mem[p].remoteLog.logIndex,
             mem[p].remoteLog.htlcCounter, Ups(mem[p].localLog.entries))
    BY <1>3 DEF Fits
  <2> QED
    BY <1>1, <1>3, <2>1, <2>2, <2>3, TheirsGrown
<1> QED
  BY <1>1, <1>4, <1>5

LEMMA ReceiveRemovalKind ==
    ASSUME Good, NEW p \in Party, ReceiveRemoval(p)
    PROVE  StepKind(p)
<1> DEFINE msg == Head(net[p])
           own == mem[p].remoteLog
           other == mem[p].localLog
           sum == SumAmt(lookupHtlc(other, msg.htlc))
           u == LogUpdate(msg.type, own.logIndex, msg.htlc, sum)
           e == Entry(u, NoHeight, NoHeight)
           a == markHtlcModified(other, msg.htlc)
           b == appendUpdate(own, e)
           ok == lookupHtlc(other, msg.htlc) # {} /\ msg.htlc \notin other.modified
<1>1. /\ net[p] # <<>> /\ msg.type \in {"Settle", "Fail"} /\ Reply(p, <<>>) /\ UNCHANGED disk
      /\ \/ ok /\ mem' = [mem EXCEPT ![p].remoteLog = b, ![p].localLog = a]
         \/ UNCHANGED mem
  BY GoodFacts DEF ReceiveRemoval, Deliver
<1>2. msg.htlc \in Nat /\ own \in AnyLog /\ other \in AnyLog /\ sum \in Nat /\ own.logIndex \in Nat
  <2>1. msg.htlc \in Nat
    BY <1>1, GoodFacts, QueuePop, MessageFields DEF UpdateTypes
  <2> QED
    BY <2>1, GoodFacts, LogTypes
<1>3. Answering(msg)
  BY <1>1 DEF Answering
<1> HIDE DEF sum
<1>4. /\ u \in AnyUpdate /\ ~IsAdd(u) /\ IsRemoval(u) /\ u.logIndex = own.logIndex /\ u.htlc = msg.htlc
      /\ u.amt = sum
  <2> HIDE DEF msg
  <2> QED
    BY <1>1, <1>2 DEF LogUpdate, AnyUpdate, UpdateTypes, IsAdd, IsRemoval
<1> HIDE DEF u
<1>5. CASE UNCHANGED mem
  BY <1>1, <1>5, NothingSent DEF Waits, StepKind
<1>6. CASE ok /\ mem' = [mem EXCEPT ![p].remoteLog = b, ![p].localLog = a]
  <2>1. Appended(own, u, b) /\ Touched(other, u, a)
    BY <1>2, <1>4, AppendedLogs
  <2> HIDE DEF a, b
  <2>2. mem' = [mem EXCEPT ![p] = WithLogs(mem[p], a, b)]
    <3>1. mem' = [mem EXCEPT ![p] = [mem[p] EXCEPT !.remoteLog = b, !.localLog = a]]
      BY <1>6, GoodFacts
    <3>2. mem[p] \in AnyMemory
      BY GoodFacts
    <3>3. [mem[p] EXCEPT !.remoteLog = b, !.localLog = a] = WithLogs(mem[p], a, b)
      <4> DEFINE x == mem[p]
      <4> HIDE DEF x
      <4>1. x \in AnyMemory
        BY <3>2 DEF x
      <4>2. [x EXCEPT !.remoteLog = b, !.localLog = a] = WithLogs(x, a, b)
        BY <4>1 DEF WithLogs, AnyMemory
      <4> QED
        BY <4>2 DEF x
    <3> QED
      BY <3>1, <3>3
  <2>3. Fits(u, Ups(own.entries), own.logIndex, own.htlcCounter, Ups(other.entries))
    <3>1. /\ other.modified = Removed(own.entries) /\ Entries(other.entries)
          /\ Distinct(Ups(other.entries), other.logIndex, other.htlcCounter)
          /\ other.logIndex \in Nat /\ other.htlcCounter \in Nat
      <4>1. PartyLogs(mem[p], disk[p])
        BY GoodFacts
      <4>2. other.modified = Removed(own.entries)
        BY <4>1 DEF PartyLogs, LogsInv
      <4> QED
        BY <4>1, <4>2, PartyFactsOf
    <3> HIDE DEF msg
    <3> QED
      BY <1>2, <1>4, <1>6, <3>1, RemovalFits DEF sum
  <2> QED
    BY <1>1, <1>3, <1>4, <2>1, <2>2, <2>3, TheirsGrown
<1> QED
  BY <1>1, <1>5, <1>6

\* Signing: one commit_sig is sent, or nothing.
LEMMA CommitTxKind ==
    ASSUME Good, NEW p \in Party, updateCommitTx(p, mem[p])
    PROVE  StepKind(p)
<1> DEFINE s == SignNextCommitment(mem[p], disk[p])
<1>1. mem[p] \in AnyMemory /\ disk[p] \in AnyDisk /\ ChainsOf(mem[p], disk[p])
  BY GoodFacts
<1>2. NotSignedOK(mem[p], disk[p], s) \/ SignedOK(disk[p], s)
  BY <1>1, SignNext
<1>3. mem' = [mem EXCEPT ![p] = s.mem] /\ disk' = [disk EXCEPT ![p] = s.disk] /\ Send(p, s.msgs)
  BY DEF updateCommitTx
<1>4. s = SignNextCommitment(mem[p], disk[p])
  OBVIOUS
<1> HIDE DEF s
<1>5. s.msgs \in Seq(AnyMessage) /\ Carried(s.msgs) = {}
  <2>1. CASE NotSignedOK(mem[p], disk[p], s)
    BY <2>1, NoMessage, CarriedOne DEF NotSignedOK
  <2>2. CASE SignedOK(disk[p], s)
    <3>1. PICK c \in AnyCommit : s.msgs = <<CommitSig(c)>>
      BY <2>2 DEF SignedOK, IsSignature
    <3>2. CommitSig(c) \in AnyMessage /\ ~Answering(CommitSig(c))
      BY MessageTypes DEF Answering
    <3> QED
      BY <3>1, <3>2, OneMessage, CarriedOne
  <2> QED
    BY <1>2, <2>1, <2>2
<1>6. NetStep(p, Removed(DiffOf(disk[p])))
  <2>1. net' = [net EXCEPT ![p] = net[p], ![Other(p)] = @ \o s.msgs]
    BY <1>3, GoodFacts, Kept DEF Send
  <2>2. Carried(s.msgs) \subseteq Removed(DiffOf(disk[p]))
    BY <1>5
  <2> QED
    BY <1>5, <2>1, <2>2, NetSent
<1>7. CASE NotSignedOK(mem[p], disk[p], s)
  <2>1. UNCHANGED <<mem, disk>>
    BY <1>3, <1>7, GoodFacts DEF NotSignedOK
  <2> QED
    BY <1>6, <2>1 DEF Waits, StepKind
<1>8. CASE SignedOK(disk[p], s)
  <2>1. s.err = "none" /\ Moves(p, s.mem, s.disk)
    BY <1>3, <1>8 DEF SignedOK, Moves
  <2> QED
    BY <1>4, <1>6, <2>1 DEF Signs, StepKind
<1> QED
  BY <1>2, <1>7, <1>8

LEMMA FinishKind ==
    ASSUME Good, NEW p \in Party, FinishHandler(p)
    PROVE  StepKind(p)
<1>1. CASE updateCommitTx(p, mem[p])
  BY <1>1, CommitTxKind
<1>2. CASE UNCHANGED <<disk, mem, net>>
  BY <1>2 DEF Waits, NetStep, StepKind
<1> QED
  BY <1>1, <1>2 DEF FinishHandler

LEMMA ReceiveCommitSigKind ==
    ASSUME Good, NEW p \in Party, ReceiveCommitSig(p)
    PROVE  StepKind(p)
<1> DEFINE n == ReceiveNewCommitment(mem[p], Head(net[p]).tx)
           r == RevokeCurrentCommitment(n.mem, disk[p])
<1>1. mem[p] \in AnyMemory /\ disk[p] \in AnyDisk /\ ChainsOf(mem[p], disk[p])
  BY GoodFacts
<1>2. /\ net[p] # <<>>
      /\ \/ /\ n.ok /\ mem' = [mem EXCEPT ![p] = r.mem] /\ disk' = [disk EXCEPT ![p] = r.disk]
            /\ Reply(p, r.msgs)
         \/ Reply(p, <<>>) /\ UNCHANGED <<mem, disk>>
  BY DEF ReceiveCommitSig, Deliver
<1>3. CASE /\ n.ok /\ mem' = [mem EXCEPT ![p] = r.mem] /\ disk' = [disk EXCEPT ![p] = r.disk]
           /\ Reply(p, r.msgs)
  <2>1. IsRevoked(mem[p], disk[p], RevokeView(mem[p], disk[p]), r) /\ \E c : RevokedOK(disk[p], c, r)
    <3> HIDE DEF n
    <3>1. n = ReceiveNewCommitment(mem[p], Head(net[p]).tx) /\ n.ok
      BY <1>3 DEF n
    <3>2. \E c : RevokedOK(disk[p], c, r)
      BY <1>1, <3>1, ReceiveSignature
    <3>3. r = RevokeCurrentCommitment(n.mem, disk[p])
      OBVIOUS
    <3> HIDE DEF r
    <3> QED
      BY <1>1, <3>1, <3>2, <3>3, RevokedIs
  <2> HIDE DEF n, r
  <2>2. r.msgs \in Seq(AnyMessage) /\ Carried(r.msgs) \subseteq {}
    <3> DEFINE rev == RevokeAndAck(disk[p].local.height)
    <3>1. r.msgs = <<rev>>
      BY <2>1 DEF RevokedOK
    <3>2. disk[p].local.height \in Int
      BY <1>1, DiskFacts, CommitIndices
    <3>3. rev \in AnyMessage /\ rev.type = "RevokeAndAck"
      BY <3>2, MessageTypes
    <3>4. ~Answering(rev)
      BY <3>3 DEF Answering
    <3> HIDE DEF rev
    <3> QED
      BY <3>1, <3>3, <3>4, OneMessage, CarriedOne
  <2>3. NetStep(p, {})
    BY <1>2, <1>3, <2>2, NetReplied
  <2>4. Moves(p, r.mem, r.disk)
    BY <1>3 DEF Moves
  <2> QED
    BY <2>1, <2>3, <2>4 DEF Revokes, StepKind
<1>4. CASE Reply(p, <<>>) /\ UNCHANGED <<mem, disk>>
  BY <1>2, <1>4, NothingSent DEF Waits, StepKind
<1> QED
  BY <1>2, <1>3, <1>4

LEMMA ReceiveRevokeAndAckKind ==
    ASSUME Good, NEW p \in Party, ReceiveRevokeAndAck(p)
    PROVE  StepKind(p)
<1> DEFINE h == Head(net[p]).height
           r == ReceiveRevocation(mem[p], disk[p], h)
           q == Other(p)
<1>1. /\ mem[p] \in AnyMemory /\ disk[p] \in AnyDisk /\ ChainsOf(mem[p], disk[p])
      /\ disk[q] \in AnyDisk /\ PendingNext(disk[p]) /\ Agreed(disk[q], disk[p])
      /\ net[p] \in Seq(AnyMessage) /\ MessagesOK(net[p], disk[p], disk[q])
  BY GoodFacts, TypeFacts, PartyFacts DEF HalfOf, HalfInv
<1> HIDE DEF q
<1>2. /\ net[p] # <<>> /\ Head(net[p]).type = "RevokeAndAck" /\ Reply(p, <<>>)
      /\ r.ok => mem' = [mem EXCEPT ![p] = r.mem] /\ disk' = [disk EXCEPT ![p] = r.disk]
  BY DEF ReceiveRevokeAndAck, Deliver
<1>3. h = disk[p].remote.height /\ disk[q].local.height = disk[p].remote.height + 1
  BY <1>1, <1>2, QueuePop DEF MessageOK
<1>4. disk[p].pending # <<>>
  BY <1>1, <1>3, AgreedHeights
<1>5. r = ReceiveRevocation(mem[p], disk[p], h)
  OBVIOUS
<1> HIDE DEF r, h
<1>6. r.ok
  BY <1>1, <1>3, <1>4, <1>5, ReceiveRevokes
<1>7. IsAdvanced(mem[p], disk[p], r)
  BY <1>4, <1>5, GoodFacts, AdvancedIs
<1>8. NetStep(p, {})
  BY <1>2, NothingSent
<1>9. Moves(p, r.mem, r.disk)
  BY <1>2, <1>6 DEF Moves
<1> QED
  BY <1>4, <1>7, <1>8, <1>9 DEF Advances, StepKind

LEMMA ReceiveReestablishKind ==
    ASSUME Good, NEW p \in Party, ReceiveReestablish(p)
    PROVE  StepKind(p)
<1> DEFINE q == Other(p)
           r == ProcessChanSyncMsg(mem[p], disk[p], Head(net[p]))
           s == SignNextCommitment(mem[p], disk[p])
<1>1. /\ link[p] = "syncing" /\ net[p] # <<>> /\ Head(net[p]).type = Re
      /\ Reply(p, r.msgs) /\ mem' = [mem EXCEPT ![p] = r.mem] /\ disk' = [disk EXCEPT ![p] = r.disk]
  BY DEF ReceiveReestablish, Deliver, Re
<1>2. /\ mem[p] \in AnyMemory /\ disk[p] \in AnyDisk /\ ChainsOf(mem[p], disk[p])
      /\ disk[q] \in AnyDisk /\ PendingNext(disk[p]) /\ PendingNext(disk[q])
      /\ Agreed(disk[q], disk[p]) /\ Agreed(disk[p], disk[q]) /\ ~RestoreFails(disk[p])
      /\ net[p] \in Seq(AnyMessage) /\ MessagesOK(net[p], disk[p], disk[q])
  BY <1>1, GoodFacts, TypeFacts, PartyFacts DEF HalfOf, HalfInv
<1> HIDE DEF q
<1>3. /\ Head(net[p]).nextLocalCommitHeight = disk[q].local.height + 1
      /\ Head(net[p]).remoteCommitTailHeight = disk[q].remote.height
  BY <1>1, <1>2, QueuePop DEF MessageOK, Re
<1>4. SyncedOK(disk[p], disk[q], r)
  BY <1>2, <1>3, Synchronised
<1>5. r = ProcessChanSyncMsg(mem[p], disk[p], Head(net[p])) /\ s = SignNextCommitment(mem[p], disk[p])
  OBVIOUS
<1> HIDE DEF r, s
<1>6. /\ \/ r.mem = mem[p] /\ r.disk = disk[p]
         \/ s.err = "none" /\ r.mem = s.mem /\ r.disk = s.disk
      /\ Carried(r.msgs) \subseteq Removed(DiffOf(disk[p]))
  BY <1>2, <1>3, <1>5, SyncIs
<1>7. NetStep(p, Removed(DiffOf(disk[p])))
  <2>1. r.msgs \in Seq(AnyMessage)
    BY <1>4 DEF SyncedOK, GoodMsgs
  <2> QED
    BY <1>1, <1>6, <2>1, NetReplied
<1>8. CASE r.mem = mem[p] /\ r.disk = disk[p]
  <2>1. UNCHANGED <<mem, disk>>
    BY <1>1, <1>8, GoodFacts
  <2> QED
    BY <1>7, <2>1 DEF Waits, StepKind
<1>9. CASE s.err = "none" /\ r.mem = s.mem /\ r.disk = s.disk
  <2>1. Moves(p, s.mem, s.disk)
    BY <1>1, <1>9 DEF Moves
  <2> QED
    BY <1>5, <1>7, <1>9, <2>1 DEF Signs, StepKind
<1> QED
  BY <1>6, <1>8, <1>9

LEMMA StepIsKind ==
    ASSUME Good, NEW p \in Party, LinkStep(p) \/ UserStep(p)
    PROVE  StepKind(p)
<1>1. CASE LinkStep(p)
  <2>1. ASSUME BatchTick(p) PROVE StepKind(p)
    BY <2>1, CommitTxKind DEF BatchTick
  <2> QED
    BY <1>1, <2>1, FinishKind, ReceiveAddKind, ReceiveRemovalKind, ReceiveUpdateFeeKind,
       ReceiveCommitSigKind, ReceiveRevokeAndAckKind, ReceiveReestablishKind DEF LinkStep
<1>2. CASE UserStep(p)
  <2>1. CASE \E amt \in Amounts : AddHTLC(p, amt)
    BY <2>1, AddKind
  <2>2. CASE \E htlc \in 0 .. MaxHtlcs[Other(p)] - 1, t \in {"Settle", "Fail"} : RemoveHTLC(p, htlc, t)
    <3>1. PICK htlc \in 0 .. MaxHtlcs[Other(p)] - 1, t \in {"Settle", "Fail"} : RemoveHTLC(p, htlc, t)
      BY <2>2
    <3>2. MaxHtlcs[Other(p)] \in Nat
      BY ScenarioFacts, PartyFacts DEF Good, ChannelSafe
    <3>3. htlc \in Nat
      BY <3>2
    <3> QED
      BY <3>1, <3>3, RemoveKind
  <2>3. CASE \E fee \in FeeRates : UpdateFee(p, fee)
    BY <2>3, UpdateFeeKind
  <2> QED
    BY <1>2, <2>1, <2>2, <2>3 DEF UserStep
<1> QED
  BY <1>1, <1>2
-----------------------------------------------------------------------------
(* The logs of both parties agree with their disks, always. *)

LEMMA FirstUpdates ==
    ASSUME scenario \in Scenarios, NEW p \in Party
    PROVE  LET d == FirstDisk(p)
           IN  UpdatesInv({}, d.local.ourMessageIndex, 0, {}, d.local.theirMessageIndex, 0, d)
<1> DEFINE d == FirstDisk(p)
           c == FirstCommit(p, Other(p))
           i == c.ourMessageIndex
           j == c.theirMessageIndex
<1>1. /\ d.local = c /\ d.remote = c /\ Tip(d) = c /\ DiffOf(d) = {} /\ d.unsignedAcked = {}
      /\ d.remoteUnsignedLocal = {} /\ d.ackedStored = ~Fresh
  BY DEF FirstDisk, Tip, DiffOf
<1>2. /\ c.outgoing = {} /\ c.incoming = {} /\ c.ourHtlcIndex = 0 /\ c.theirHtlcIndex = 0
      /\ i \in Nat /\ j \in Nat
      /\ c.height = 0 => i = 0 /\ j = 0
      /\ Fresh => j = 0
  BY DEF FirstCommit
<1> HIDE DEF c
<1>3. \A a, b : HalfOK({}, {}, {}, a, b)
  BY DEF HalfOK, Live, Parents, HtlcsOf
<1>4. CommitsOK(d, {}, {})
  BY <1>1, <1>2, <1>3 DEF CommitsOK, CommitOK, Parents
<1>5. Distinct({}, i, 0) /\ Distinct({}, j, 0) /\ Answers({}, {})
  BY DEF Distinct, Answers
<1>6. OrderOK(d, i, j)
  BY <1>1, <1>2 DEF OrderOK
<1>7. CountsOK(d, {}, i, 0, {}, 0)
  BY <1>1, <1>2 DEF CountsOK
<1>8. StoredOK(d, {}, {})
  BY <1>1, <1>2 DEF StoredOK, Cut
<1> HIDE DEF d
<1>9. UpdatesInv({}, i, 0, {}, j, 0, d)
  BY <1>4, <1>5, <1>6, <1>7, <1>8 DEF UpdatesInv
<1> QED
  BY <1>1, <1>9 DEF d

\* A restore from a disk that the logs agree with.
\* It keeps some of the updates that the logs had.
FewerUpdates(U, V, new) ==
    Ups(new.localLog.entries) \subseteq U /\ Ups(new.remoteLog.entries) \subseteq V

LEMMA RestoredParty ==
    ASSUME NEW d \in AnyDisk, NEW U \in SUBSET AnyUpdate, NEW V \in SUBSET AnyUpdate,
           NEW n \in Nat, NEW k \in Nat, NEW nV \in Nat, NEW kV \in Nat,
           UpdatesInv(U, n, k, V, nV, kV, d), PendingNext(d)
    PROVE  PartyLogs(restoreCommitState(d), d) /\ FewerUpdates(U, V, restoreCommitState(d))
<1>1. restoreCommitState(d) \in AnyMemory /\ ChainsOf(restoreCommitState(d), d)
  BY RestoreType
<1>2. LogsInv(restoreLocalLog(d), restoreRemoteLog(d), d)
  BY RestoreLogs
<1>3. /\ restoreCommitState(d).localLog = restoreLocalLog(d)
      /\ restoreCommitState(d).remoteLog = restoreRemoteLog(d)
  BY DEF restoreCommitState
<1>4. /\ Ups(restoreLocalLog(d).entries) = RestoredOurs(d)
      /\ Ups(restoreRemoteLog(d).entries) = RestoredTheirs(d)
  <2>1. Restorable(d, RestoredOurs(d), RestoredTheirs(d))
    BY RestorableDisk
  <2> QED
    BY <2>1, RestoredEntries
<1>5. RestoredOurs(d) \subseteq U /\ RestoredTheirs(d) \subseteq V
  <2>1. IsRestored(RestoredOurs(d), RestoredTheirs(d), U, V, d)
    BY RestoreUpdates
  <2>2. d.remoteUnsignedLocal \subseteq U
    BY DEF UpdatesInv, StoredOK, Cut
  <2> QED
    BY <2>1, <2>2 DEF IsRestored, Live, Cut
<1> QED
  BY <1>1, <1>2, <1>3, <1>4, <1>5 DEF PartyLogs, FewerUpdates

LEMMA PartyUpdates ==
    ASSUME NEW m, NEW d, PartyLogs(m, d)
    PROVE  /\ d \in AnyDisk /\ PendingNext(d)
           /\ Ups(m.localLog.entries) \in SUBSET AnyUpdate /\ Ups(m.remoteLog.entries) \in SUBSET AnyUpdate
           /\ m.localLog.logIndex \in Nat /\ m.localLog.htlcCounter \in Nat
           /\ m.remoteLog.logIndex \in Nat /\ m.remoteLog.htlcCounter \in Nat
           /\ UpdatesInv(Ups(m.localLog.entries), m.localLog.logIndex, m.localLog.htlcCounter,
                  Ups(m.remoteLog.entries), m.remoteLog.logIndex, m.remoteLog.htlcCounter, d)
<1>1. UpdatesInv(Ups(m.localLog.entries), m.localLog.logIndex, m.localLog.htlcCounter,
                  Ups(m.remoteLog.entries), m.remoteLog.logIndex, m.remoteLog.htlcCounter, d)
      /\ PendingNext(d)
  BY DEF PartyLogs, LogsInv
<1> QED
  BY <1>1, PartyFactsOf

LEMMA RestoredAgain ==
    ASSUME NEW m, NEW d, PartyLogs(m, d)
    PROVE  /\ PartyLogs(restoreCommitState(d), d) /\ ~RestoreFails(d)
           /\ FewerUpdates(Ups(m.localLog.entries), Ups(m.remoteLog.entries), restoreCommitState(d))
BY PartyUpdates, RestoredParty, NeverPanics

LEMMA InitGood == Init => Good
<1> SUFFICES ASSUME Init PROVE Good
  OBVIOUS
<1>1. ChannelSafe
  BY InitSafe
<1>2. ASSUME NEW p \in Party PROVE PartyLogs(mem[p], disk[p])
  <2> DEFINE d == FirstDisk(p)
  <2>1. scenario \in Scenarios /\ disk[p] = d /\ mem[p] = restoreCommitState(d)
    BY DEF Init
  <2>2. d \in AnyDisk /\ d.pending = <<>> /\ d.local \in AnyCommit
    BY <2>1, FirstDiskType, DiskFacts
  <2>3. UpdatesInv({}, d.local.ourMessageIndex, 0, {}, d.local.theirMessageIndex, 0, d)
    BY <2>1, FirstUpdates
  <2> HIDE DEF d
  <2>4. PendingNext(d) /\ d.local.ourMessageIndex \in Nat /\ d.local.theirMessageIndex \in Nat
    BY <2>2, CommitIndices DEF PendingNext
  <2>5. {} \in SUBSET AnyUpdate /\ 0 \in Nat
    OBVIOUS
  <2>6. PartyLogs(restoreCommitState(d), d)
    BY <2>2, <2>3, <2>4, <2>5, RestoredParty
  <2> QED
    BY <2>1, <2>6
<1> QED
  BY <1>1, <1>2 DEF Good

\* A step of p leaves it with logs that agree with its disk.
LEMMA KindLogs ==
    ASSUME Good, NEW p \in Party, StepKind(p), ChannelSafe'
    PROVE  PartyLogs(mem'[p], disk'[p])
<1> DEFINE ours == mem[p].localLog
           theirs == mem[p].remoteLog
           d == disk[p]
<1>1. PartyLogs(mem[p], d) /\ Logs(ours, theirs, d) /\ DOMAIN mem = Party /\ DOMAIN disk = Party
  BY GoodFacts
<1>2. /\ mem'[p] \in AnyMemory /\ disk'[p] \in AnyDisk /\ ChainsOf(mem'[p], disk'[p])
      /\ PendingNext(disk'[p])
  BY DEF ChannelSafe, ChannelInv, RecordInv, ChannelTypes
<1>3. \A m, x : Moves(p, m, x) => mem'[p] = m /\ disk'[p] = x
  BY <1>1 DEF Moves
<1>4. ASSUME NEW m, NEW u, OursGrow(p, m, u) PROVE PartyLogs(mem'[p], disk'[p])
  <2>1. LogsInv(m.localLog, m.remoteLog, d)
    BY <1>1, <1>4, AppendOursLog DEF OursGrow
  <2>2. mem'[p] = m /\ disk'[p] = d
    BY <1>3, <1>4 DEF OursGrow
  <2> QED
    BY <1>2, <2>1, <2>2 DEF PartyLogs
<1>5. ASSUME NEW m, NEW u, TheirsGrow(p, m, u) PROVE PartyLogs(mem'[p], disk'[p])
  <2>1. LogsInv(m.localLog, m.remoteLog, d)
    BY <1>1, <1>5, AppendTheirsLog DEF TheirsGrow
  <2>2. mem'[p] = m /\ disk'[p] = d
    BY <1>3, <1>5 DEF TheirsGrow
  <2> QED
    BY <1>2, <2>1, <2>2 DEF PartyLogs
<1>6. ASSUME NEW s, Signs(p, s) PROVE PartyLogs(mem'[p], disk'[p])
  BY <1>1, <1>3, <1>6, SignLogs DEF Signs
<1>7. ASSUME NEW r, Revokes(p, r) PROVE PartyLogs(mem'[p], disk'[p])
  BY <1>1, <1>3, <1>7, RevokeLogs DEF Revokes
<1>8. ASSUME NEW r, Advances(p, r) PROVE PartyLogs(mem'[p], disk'[p])
  BY <1>1, <1>3, <1>8, AdvanceLogs DEF Advances
<1>9. ASSUME Waits(p) PROVE PartyLogs(mem'[p], disk'[p])
  BY <1>1, <1>9 DEF Waits
<1> QED
  BY <1>4, <1>5, <1>6, <1>7, <1>8, <1>9 DEF StepKind

\* A step of p leaves the other party as it is.
LEMMA KindOthers ==
    ASSUME Good, NEW p \in Party, StepKind(p), NEW q \in Party, q # p
    PROVE  mem'[q] = mem[q] /\ disk'[q] = disk[q]
<1>1. DOMAIN mem = Party /\ DOMAIN disk = Party
  BY GoodFacts
<1>2. \A m, x : Moves(p, m, x) => mem'[q] = mem[q] /\ disk'[q] = disk[q]
  BY <1>1 DEF Moves
<1> QED
  BY <1>2 DEF StepKind, OursGrow, TheirsGrow, Signs, Revokes, Advances, Waits

LEMMA NextGood == Good /\ [Next]_vars => Good'
<1> SUFFICES ASSUME Good, [Next]_vars PROVE Good'
  OBVIOUS
<1>1. ChannelSafe'
  BY NextSafe DEF Good
<1>2. ASSUME NEW p \in Party PROVE PartyLogs(mem'[p], disk'[p])
  <2>1. PartyLogs(mem[p], disk[p])
    BY GoodFacts
  <2>2. ASSUME NEW q \in Party, LinkStep(q) \/ UserStep(q) PROVE PartyLogs(mem'[p], disk'[p])
    <3>1. StepKind(q)
      BY <2>2, StepIsKind
    <3>2. CASE q = p
      BY <1>1, <3>1, <3>2, KindLogs
    <3>3. CASE q # p
      BY <2>1, <3>1, <3>3, KindOthers
    <3> QED
      BY <3>2, <3>3
  <2>3. CASE Reconnect
    <3>1. mem'[p] = restoreCommitState(disk[p]) /\ disk'[p] = disk[p]
      BY <2>3 DEF Reconnect
    <3> QED
      BY <2>1, <3>1, RestoredAgain
  <2>4. CASE UNCHANGED vars
    BY <2>1, <2>4 DEF vars
  <2> QED
    BY <2>2, <2>3, <2>4 DEF Next
<1> QED
  BY <1>1, <1>2 DEF Good

LEMMA AlwaysGood == Spec => []Good
BY InitGood, NextGood, PTL DEF Spec

\* In every state of a channel the log updates in memory and the commitments on disk of a party
\* fit together: every commitment is the HTLCs that its indices cut out of the two logs.
THEOREM LogsFollowCommitments == Spec => []LogsOK
<1>1. Good => LogsOK
  BY DEF Good, PartyLogs, LogsOK
<1> QED
  BY <1>1, AlwaysGood, PTL

\* A party can be restarted at any time: its disk restores without a panic or an error.
THEOREM RestoreAlwaysSucceeds == Spec => []RestoreNeverFails
<1>1. Good => RestoreNeverFails
  BY RestoredAgain DEF Good, RestoreNeverFails
<1> QED
  BY <1>1, AlwaysGood, PTL
-----------------------------------------------------------------------------
(* Forwarding packages. *)

LEMMA PackageFields ==
    ASSUME NEW d \in AnyDisk
    PROVE  /\ \A k \in d.fwdPkgs : k.height \in Nat
           /\ \A a \in LockedIn(d) : a \in Nat
           /\ \A x \in SettleFails(d) : x.htlc \in Nat
BY DEF AnyDisk, AnyPackage, LockedIn, SettleFails

\* Updates leave a log, and indices grow.
LEMMA FewerPackages ==
    ASSUME NEW d \in AnyDisk, NEW e \in AnyDisk, NEW U, NEW V, PackagesInv(d, U, V),
           NEW U2 \in SUBSET U, NEW V2 \in SUBSET V, e.fwdPkgs = d.fwdPkgs, e.remote = d.remote,
           d.local.theirHtlcIndex <= e.local.theirHtlcIndex
    PROVE  PackagesInv(e, U2, V2)
<1>1. LockedIn(e) = LockedIn(d) /\ SettleFails(e) = SettleFails(d)
  BY DEF LockedIn, SettleFails
<1>2. \A a \in LockedIn(d) : a < e.local.theirHtlcIndex
  <2>1. d.local.theirHtlcIndex \in Nat /\ e.local.theirHtlcIndex \in Nat
    BY TipFacts, CommitIndices
  <2> QED
    BY <2>1, PackageFields DEF PackagesInv
<1> QED
  BY <1>1, <1>2 DEF PackagesInv

LEMMA MorePackages ==
    ASSUME NEW d \in AnyDisk, NEW U \in SUBSET AnyUpdate, NEW V \in SUBSET AnyUpdate,
           NEW n \in Nat, NEW k \in Nat, NEW nV \in Nat, NEW kV \in Nat,
           UpdatesInv(U, n, k, V, nV, kV, d), PackagesInv(d, U, V), NEW u \in AnyUpdate
    PROVE  /\ Fits(u, U, n, k, V) => PackagesInv(d, U \union {u}, V)
           /\ Fits(u, V, nV, kV, U) => PackagesInv(d, U, V \union {u})
<1>1. /\ d.remote.ourHtlcIndex \in Nat /\ Tip(d).ourHtlcIndex \in Nat /\ d.local.theirHtlcIndex \in Nat
      /\ d.remote.ourHtlcIndex <= Tip(d).ourHtlcIndex /\ Tip(d).ourHtlcIndex <= k
      /\ d.local.theirHtlcIndex <= kV
  BY TipFacts, CommitIndices DEF UpdatesInv, CountsOK
<1>2. ASSUME Fits(u, U, n, k, V) PROVE PackagesInv(d, U \union {u}, V)
  <2>1. \A x \in SettleFails(d) : IsAdd(u) => u.htlc # x.htlc
    BY <1>1, <1>2, PackageFields DEF PackagesInv, Fits
  <2> QED
    BY <2>1 DEF PackagesInv
<1>3. ASSUME Fits(u, V, nV, kV, U) PROVE PackagesInv(d, U, V \union {u})
  <2>1. \A a \in LockedIn(d) : IsAdd(u) => u.htlc # a
    BY <1>1, <1>3, PackageFields DEF PackagesInv, Fits
  <2> QED
    BY <2>1 DEF PackagesInv
<1> QED
  BY <1>2, <1>3

\* The updates in a new package were signed for with the commitment that becomes the tail.
LEMMA ForwardedNow ==
    ASSUME NEW m, NEW d, PartyLogs(m, d), d.pending # <<>>, NEW e \in ToForward(m)
    PROVE  /\ Update(e) \in Ups(m.remoteLog.entries) /\ e.htlc \in Nat
           /\ Update(e).htlc = e.htlc /\ Update(e).type = e.type
           /\ d.remote.theirMessageIndex <= Update(e).logIndex
           /\ Update(e).logIndex < Tip(d).theirMessageIndex
           /\ IsAdd(Update(e)) <=> e.type = "Add"
           /\ e.type # "Add" => IsRemoval(Update(e))
<1> DEFINE R == m.remoteLog.entries
<1>1. /\ R \in SUBSET AnyEntry /\ EntriesInv(m.localLog.entries, R, d) /\ Ordered(d)
      /\ d.remote.height \in Nat /\ m \in AnyMemory /\ d \in AnyDisk /\ ChainsOf(m, d)
  BY PartyFactsOf DEF PartyLogs
<1>2. tail(m.remoteChain) = d.remote
  BY <1>1, ChainFacts
<1>3. e \in R /\ e.type # "FeeUpdate" /\ Marks(e)["remote"] = d.remote.height + 1
  BY <1>2 DEF ToForward, Unforwarded, Heights, Marks, IsAdd
<1>4. e \in AnyEntry /\ e.logIndex \in Nat /\ e.htlc \in Nat
  BY <1>1, <1>3, EntryFields
<1>5. d.remote.theirMessageIndex <= e.logIndex /\ e.logIndex < Tip(d).theirMessageIndex
  <2>1. Marked(R, "remote", d.remote.theirMessageIndex, d.remote.height,
               Tip(d).theirMessageIndex, Tip(d).height)
    BY <1>1 DEF EntriesInv
  <2>2. d.remote.theirMessageIndex \in Nat /\ Tip(d).theirMessageIndex \in Nat
    BY <1>1 DEF Ordered
  <2>3. /\ e.logIndex < d.remote.theirMessageIndex => Marks(e)["remote"] <= d.remote.height
        /\ Tip(d).theirMessageIndex <= e.logIndex => Marks(e)["remote"] = 0
    BY <1>3, <2>1 DEF Marked
  <2> QED
    BY <1>1, <1>3, <1>4, <2>2, <2>3
<1>6. /\ Update(e).htlc = e.htlc /\ Update(e).type = e.type /\ Update(e).logIndex = e.logIndex
      /\ Update(e) \in Ups(R)
  BY <1>3 DEF Update, LogUpdate, Ups
<1>7. e.type # "Add" => IsRemoval(Update(e))
  BY <1>3, <1>4, <1>6 DEF AnyEntry, UpdateTypes, IsRemoval
<1> QED
  BY <1>4, <1>5, <1>6, <1>7 DEF IsAdd

\* What the package of a revocation adds.
NewAdd(d, V, a) ==
    \E v \in V : /\ IsAdd(v) /\ v.htlc = a /\ d.remote.theirMessageIndex <= v.logIndex
                 /\ v.logIndex < Tip(d).theirMessageIndex
NewAnswer(d, V, x) ==
    \E v \in V : /\ IsRemoval(v) /\ v.htlc = x.htlc /\ v.type = x.type
                 /\ v.logIndex < Tip(d).theirMessageIndex
                 /\ x = [htlc |-> v.htlc, type |-> v.type]
IsPackage(d, V, pkg) ==
    /\ pkg.height = d.remote.height + 1
    /\ \A a \in pkg.adds : NewAdd(d, V, a)
    /\ \A x \in pkg.settleFails : NewAnswer(d, V, x)

LEMMA NewPackageIs ==
    ASSUME NEW m, NEW d, PartyLogs(m, d), d.pending # <<>>
    PROVE  IsPackage(d, Ups(m.remoteLog.entries), NewPackage(m, d))
<1> DEFINE V == Ups(m.remoteLog.entries)
           fwd == ToForward(m)
           pkg == NewPackage(m, d)
<1>1. /\ pkg.height = d.remote.height + 1 /\ pkg.adds = {e.htlc : e \in Adds(fwd)}
      /\ pkg.settleFails = {[htlc |-> e.htlc, type |-> e.type] : e \in fwd \ Adds(fwd)}
  BY DEF NewPackage
<1>2. \A e \in fwd : e \in Adds(fwd) <=> e.type = "Add"
  BY DEF Adds
<1>3. Adds(fwd) \subseteq fwd
  BY DEF Adds
<1>4. ASSUME NEW a \in pkg.adds PROVE NewAdd(d, V, a)
  <2>1. PICK e \in Adds(fwd) : a = e.htlc
    BY <1>1, <1>4
  <2> DEFINE v == Update(e)
  <2>2. /\ v \in V /\ IsAdd(v) /\ v.htlc = a /\ d.remote.theirMessageIndex <= v.logIndex
        /\ v.logIndex < Tip(d).theirMessageIndex
    BY <1>2, <1>3, <2>1, ForwardedNow
  <2> HIDE DEF v
  <2> QED
    BY <2>2 DEF NewAdd
<1>5. ASSUME NEW x \in pkg.settleFails PROVE NewAnswer(d, V, x)
  <2>1. PICK e \in fwd \ Adds(fwd) : x = [htlc |-> e.htlc, type |-> e.type]
    BY <1>1, <1>5
  <2> DEFINE v == Update(e)
  <2>2. /\ v \in V /\ IsRemoval(v) /\ v.htlc = e.htlc /\ v.type = e.type
        /\ v.logIndex < Tip(d).theirMessageIndex
    BY <1>2, ForwardedNow
  <2> HIDE DEF v
  <2> QED
    BY <2>1, <2>2 DEF NewAnswer
<1> QED
  BY <1>1, <1>4, <1>5 DEF IsPackage

LEMMA PackagesGrow ==
    ASSUME NEW d \in AnyDisk, NEW e \in AnyDisk, NEW U \in SUBSET AnyUpdate, NEW V \in SUBSET AnyUpdate,
           NEW n \in Nat, NEW k \in Nat, NEW nV \in Nat, NEW kV \in Nat,
           UpdatesInv(U, n, k, V, nV, kV, d), PackagesInv(d, U, V), NEW x \in Nat,
           NEW pkg, IsPackage(d, V, pkg), e.local = d.local, e.remote = Tip(d),
           d.pending # <<>>, Tip(d).height = d.remote.height + 1,
           e.fwdPkgs = {j \in d.fwdPkgs : j.height # d.remote.height + 1} \union {pkg}
    PROVE  /\ PackagesInv(e, Compacted(U, V, x, Tip(d).theirMessageIndex),
                          Compacted(V, U, Tip(d).theirMessageIndex, x))
           /\ LockedIn(d) \subseteq LockedIn(e)
           /\ \A y \in SettleFails(e) : y \in SettleFails(d) \/ NewAnswer(d, V, y)
<1> DEFINE t == Tip(d)
           U2 == Compacted(U, V, x, t.theirMessageIndex)
           V2 == Compacted(V, U, t.theirMessageIndex, x)
<1>1. /\ Ordered(d) /\ d.remote.height \in Nat /\ t.height \in Nat
  BY OrderedFacts, CommitIndices DEF Ordered, UpdatesInv
<1>2. e.fwdPkgs = d.fwdPkgs \union {pkg}
  <2>1. \A j \in d.fwdPkgs : j.height # d.remote.height + 1
    BY <1>1, PackageFields DEF PackagesInv
  <2> QED
    BY <2>1
<1>3. /\ LockedIn(e) = LockedIn(d) \union pkg.adds
      /\ SettleFails(e) = SettleFails(d) \union pkg.settleFails
  BY <1>2 DEF LockedIn, SettleFails
<1>4. U2 \subseteq U /\ V2 \subseteq V
  BY DEF Compacted
<1>5. ASSUME NEW a \in pkg.adds
      PROVE  /\ a \notin LockedIn(d) /\ a < d.local.theirHtlcIndex
             /\ \A v \in V : IsAdd(v) /\ v.htlc = a => v.logIndex < t.theirMessageIndex
  <2>1. PICK v \in V : /\ IsAdd(v) /\ v.htlc = a /\ d.remote.theirMessageIndex <= v.logIndex
                       /\ v.logIndex < t.theirMessageIndex
    BY <1>5 DEF IsPackage, NewAdd
  <2>2. v.logIndex \in Nat /\ v.htlc \in Nat
    BY UpdateFields
  <2>3. a \notin LockedIn(d)
    <3>1. d.remote.theirMessageIndex \in Nat
      BY <1>1 DEF Ordered
    <3>2. ~(v.logIndex < d.remote.theirMessageIndex)
      BY <2>1, <2>2, <3>1
    <3> QED
      BY <2>1, <3>2 DEF PackagesInv
  <2>4. a < d.local.theirHtlcIndex
    <3>1. /\ t.theirMessageIndex \in Nat /\ d.local.theirMessageIndex \in Nat
          /\ t.theirMessageIndex <= d.local.theirMessageIndex
      BY <1>1 DEF Ordered
    <3>2. v.logIndex < d.local.theirMessageIndex
      <4> HIDE DEF t
      <4> QED
        BY <2>1, <2>2, <3>1
    <3>3. CountsOK(d, U, n, k, V, kV)
      BY DEF UpdatesInv
    <3> QED
      BY <2>1, <3>2, <3>3 DEF CountsOK
  <2>5. \A w \in V : IsAdd(w) /\ w.htlc = a => w = v
    BY <2>1, <2>2, UpdateFields DEF UpdatesInv, Distinct
  <2> QED
    BY <2>1, <2>3, <2>4, <2>5
<1>6. ASSUME NEW y \in pkg.settleFails
      PROVE  /\ \E u \in U : IsAdd(u) /\ u.htlc = y.htlc
             /\ y.htlc < t.ourHtlcIndex
             /\ \A u \in U2 : IsAdd(u) => u.htlc # y.htlc
  <2>1. PICK v \in V : IsRemoval(v) /\ v.htlc = y.htlc /\ v.logIndex < t.theirMessageIndex
    BY <1>6 DEF IsPackage, NewAnswer
  <2>2. PICK u \in U : IsAdd(u) /\ u.htlc = v.htlc
    BY <2>1 DEF UpdatesInv, Answers
  <2>3. Off(V, t.theirMessageIndex, u.htlc)
    BY <2>1, <2>2 DEF Off
  <2>4. Parents(U, V, t.ourMessageIndex, t.theirMessageIndex)
    BY DEF UpdatesInv, CommitsOK, CommitOK, HalfOK
  <2>5. u.logIndex < t.ourMessageIndex
    BY <2>2, <2>3, <2>4 DEF Parents
  <2>6. u.htlc < t.ourHtlcIndex
    BY <2>2, <2>5 DEF UpdatesInv, CountsOK
  <2>7. \A w \in U2 : IsAdd(w) => w.htlc # y.htlc
    BY <2>1, <2>2, <2>3 DEF Compacted
  <2> QED
    BY <2>1, <2>2, <2>6, <2>7
<1>7. \A y \in pkg.settleFails : \A z \in SettleFails(d) : y.htlc # z.htlc
  BY <1>6 DEF PackagesInv
<1>8. \A y, z \in pkg.settleFails : y.htlc = z.htlc => y = z
  <2> SUFFICES ASSUME NEW y \in pkg.settleFails, NEW z \in pkg.settleFails, y.htlc = z.htlc
               PROVE  y = z
    OBVIOUS
  <2>1. PICK v \in V : IsRemoval(v) /\ v.htlc = y.htlc /\ y = [htlc |-> v.htlc, type |-> v.type]
    BY DEF IsPackage, NewAnswer
  <2>2. PICK w \in V : IsRemoval(w) /\ w.htlc = z.htlc /\ z = [htlc |-> w.htlc, type |-> w.type]
    BY DEF IsPackage, NewAnswer
  <2>3. v = w
    BY <2>1, <2>2 DEF UpdatesInv, Answers
  <2> QED
    BY <2>1, <2>2, <2>3
<1> HIDE DEF U2, V2
<1>9. Separate(e.fwdPkgs)
  <2>1. \A j \in d.fwdPkgs : j.adds \subseteq LockedIn(d) /\ j.settleFails \subseteq SettleFails(d)
    BY DEF LockedIn, SettleFails
  <2>2. \A j \in d.fwdPkgs : /\ j.adds \intersect pkg.adds = {}
                             /\ j.settleFails \intersect pkg.settleFails = {}
    BY <1>5, <1>7, <2>1
  <2>3. Separate(d.fwdPkgs)
    BY DEF PackagesInv
  <2> QED
    BY <1>2, <2>2, <2>3 DEF Separate
<1>10. \A j \in e.fwdPkgs : j.height <= e.remote.height
  BY <1>1, <1>2, PackageFields DEF PackagesInv, IsPackage
<1>11. \A a \in LockedIn(e) :
          /\ a < e.local.theirHtlcIndex
          /\ \A v \in V2 : IsAdd(v) /\ v.htlc = a => v.logIndex < e.remote.theirMessageIndex
  <2> SUFFICES ASSUME NEW a \in LockedIn(e)
               PROVE  /\ a < d.local.theirHtlcIndex
                      /\ \A v \in V : IsAdd(v) /\ v.htlc = a => v.logIndex < t.theirMessageIndex
    BY <1>4
  <2>1. CASE a \in LockedIn(d)
    <3>1. \A v \in V : v.logIndex \in Nat
      BY UpdateFields
    <3>2. d.remote.theirMessageIndex \in Nat /\ t.theirMessageIndex \in Nat
          /\ d.remote.theirMessageIndex <= t.theirMessageIndex
      BY <1>1 DEF Ordered
    <3> QED
      BY <2>1, <3>1, <3>2 DEF PackagesInv
  <2>2. CASE a \in pkg.adds
    BY <1>5, <2>2
  <2> QED
    BY <1>3, <2>1, <2>2
<1>12. \A y, z \in SettleFails(e) : y.htlc = z.htlc => y = z
  <2>1. \A y, z \in SettleFails(d) : y.htlc = z.htlc => y = z
    BY DEF PackagesInv
  <2> QED
    BY <1>3, <1>7, <1>8, <2>1
<1>13. \A y \in SettleFails(e) :
          /\ y.htlc < e.remote.ourHtlcIndex
          /\ \A u \in U2 : IsAdd(u) => u.htlc # y.htlc
  <2> SUFFICES ASSUME NEW y \in SettleFails(e)
               PROVE  /\ y.htlc < t.ourHtlcIndex
                      /\ \A u \in U2 : IsAdd(u) => u.htlc # y.htlc
    OBVIOUS
  <2>1. CASE y \in SettleFails(d)
    <3>1. d.remote.ourHtlcIndex \in Nat /\ t.ourHtlcIndex \in Nat
          /\ d.remote.ourHtlcIndex <= t.ourHtlcIndex
      BY <1>1 DEF Ordered, UpdatesInv, CountsOK
    <3> QED
      BY <1>4, <2>1, <3>1, PackageFields DEF PackagesInv
  <2>2. CASE y \in pkg.settleFails
    BY <1>6, <2>2
  <2> QED
    BY <1>3, <2>1, <2>2
<1>14. \A y \in SettleFails(e) : y \in SettleFails(d) \/ NewAnswer(d, V, y)
  BY <1>3 DEF IsPackage
<1>15. PackagesInv(e, U2, V2)
  BY <1>9, <1>10, <1>11, <1>12, <1>13 DEF PackagesInv
<1> QED
  BY <1>3, <1>14, <1>15 DEF U2, V2
-----------------------------------------------------------------------------
(* What a step does to packages, removals and messages. *)

\* p's memory and disk become m and d.
Packs(p, m, d) ==
    /\ PartyPackages(m, d) /\ LockedIn(disk[p]) \subseteq LockedIn(d)
    /\ Removed(Ours(m)) \subseteq Removed(Ours(mem[p])) \union LockedIn(disk[p])
    /\ Removed(Theirs(m)) \subseteq Removed(Theirs(mem[p])) \union Carried(net[p])
    /\ \A x \in SettleFails(d) : x \in SettleFails(disk[p]) \/ x.htlc \in Removed(Theirs(mem[p]))
NetPacks(p) == NetStep(p, LockedIn(disk[p]) \union Removed(Ours(mem[p])))

LEMMA MoreInNet ==
    ASSUME NEW p, NEW S, NEW T, NetStep(p, S), S \subseteq T
    PROVE  NetStep(p, T)
BY DEF NetStep

LEMMA RemovedGrows ==
    /\ \A S, T : S \subseteq T => Removed(S) \subseteq Removed(T)
    /\ \A S, u : Removed(S \union {u}) \subseteq Removed(S) \union Answered(u)
<1>1. ASSUME NEW S, NEW T, S \subseteq T PROVE Removed(S) \subseteq Removed(T)
  BY <1>1, RemovedIs
<1>2. ASSUME NEW S, NEW u PROVE Removed(S \union {u}) \subseteq Removed(S) \union Answered(u)
  BY RemovedIs DEF Answered
<1> QED
  BY <1>1, <1>2

\* The removals that are sent again are in the log.
LEMMA DiffInLog ==
    ASSUME NEW m, NEW d, PartyLogs(m, d)
    PROVE  Removed(DiffOf(d)) \subseteq Removed(Ours(m))
<1>1. DiffOf(d) \subseteq Ours(m)
  BY PartyUpdates DEF UpdatesInv, StoredOK, Cut, Ours
<1> QED
  BY <1>1, RemovedGrows

LEMMA OursPacks ==
    ASSUME Good, NEW p \in Party, PartyPackages(mem[p], disk[p]), NEW m, NEW u, OursGrow(p, m, u)
    PROVE  Packs(p, m, disk[p]) /\ NetPacks(p)
<1> DEFINE d == disk[p]
           U == Ours(mem[p])
           V == Theirs(mem[p])
<1>1. /\ PartyLogs(mem[p], d) /\ mem[p].localLog \in AnyLog
  BY GoodFacts
<1>2. /\ u \in AnyUpdate /\ Answered(u) \subseteq LockedIn(d) /\ NetStep(p, Answered(u))
      /\ Fits(u, U, mem[p].localLog.logIndex, mem[p].localLog.htlcCounter, V)
      /\ Appended(mem[p].localLog, u, m.localLog) /\ Touched(mem[p].remoteLog, u, m.remoteLog)
  BY DEF OursGrow, Fits, Ours, Theirs
<1>3. Ours(m) = U \union {u} /\ Theirs(m) = V
  BY <1>1, <1>2, AppendedFacts DEF Touched, Ours, Theirs
<1>4. PackagesInv(d, U, V)
  BY DEF PartyPackages, Ours, Theirs
<1>5. PackagesInv(d, U \union {u}, V)
  <2>1. /\ d \in AnyDisk /\ U \in SUBSET AnyUpdate /\ V \in SUBSET AnyUpdate
        /\ mem[p].localLog.logIndex \in Nat /\ mem[p].localLog.htlcCounter \in Nat
        /\ mem[p].remoteLog.logIndex \in Nat /\ mem[p].remoteLog.htlcCounter \in Nat
        /\ UpdatesInv(U, mem[p].localLog.logIndex, mem[p].localLog.htlcCounter,
                      V, mem[p].remoteLog.logIndex, mem[p].remoteLog.htlcCounter, d)
    BY <1>1, PartyUpdates DEF Ours, Theirs
  <2> HIDE DEF d, U, V
  <2> QED
    BY <1>2, <1>4, <2>1, MorePackages
<1>6. PartyPackages(m, d)
  BY <1>3, <1>5 DEF PartyPackages, Ours, Theirs
<1>7. NetPacks(p)
  BY <1>2, MoreInNet DEF NetPacks
<1> HIDE DEF U, V
<1> QED
  BY <1>2, <1>3, <1>6, <1>7, RemovedGrows DEF Packs, U, V

LEMMA TheirsPacks ==
    ASSUME Good, NEW p \in Party, PartyPackages(mem[p], disk[p]), NEW m, NEW u, TheirsGrow(p, m, u)
    PROVE  Packs(p, m, disk[p]) /\ NetPacks(p)
<1> DEFINE d == disk[p]
           U == Ours(mem[p])
           V == Theirs(mem[p])
<1>1. /\ PartyLogs(mem[p], d) /\ mem[p].remoteLog \in AnyLog
  BY GoodFacts
<1>2. /\ u \in AnyUpdate /\ Answered(u) \subseteq Carried(net[p]) /\ NetStep(p, {})
      /\ Fits(u, V, mem[p].remoteLog.logIndex, mem[p].remoteLog.htlcCounter, U)
      /\ Appended(mem[p].remoteLog, u, m.remoteLog) /\ Touched(mem[p].localLog, u, m.localLog)
  BY DEF TheirsGrow, Fits, Ours, Theirs
<1>3. Ours(m) = U /\ Theirs(m) = V \union {u}
  BY <1>1, <1>2, AppendedFacts DEF Touched, Ours, Theirs
<1>4. PackagesInv(d, U, V)
  BY DEF PartyPackages, Ours, Theirs
<1>5. PackagesInv(d, U, V \union {u})
  <2>1. /\ d \in AnyDisk /\ U \in SUBSET AnyUpdate /\ V \in SUBSET AnyUpdate
        /\ mem[p].localLog.logIndex \in Nat /\ mem[p].localLog.htlcCounter \in Nat
        /\ mem[p].remoteLog.logIndex \in Nat /\ mem[p].remoteLog.htlcCounter \in Nat
        /\ UpdatesInv(U, mem[p].localLog.logIndex, mem[p].localLog.htlcCounter,
                      V, mem[p].remoteLog.logIndex, mem[p].remoteLog.htlcCounter, d)
    BY <1>1, PartyUpdates DEF Ours, Theirs
  <2> HIDE DEF d, U, V
  <2> QED
    BY <1>2, <1>4, <2>1, MorePackages
<1>6. PartyPackages(m, d)
  BY <1>3, <1>5 DEF PartyPackages, Ours, Theirs
<1>7. NetPacks(p)
  BY <1>2, MoreInNet DEF NetPacks
<1> HIDE DEF U, V
<1> QED
  BY <1>2, <1>3, <1>6, <1>7, RemovedGrows DEF Packs, U, V

\* Updates and packages stay, and the indices of commitments grow.
LEMMA SamePacks ==
    ASSUME NEW p, disk[p] \in AnyDisk, PartyPackages(mem[p], disk[p]), NEW m, NEW d \in AnyDisk,
           SameUpdates(mem[p], m), d.fwdPkgs = disk[p].fwdPkgs, d.remote = disk[p].remote,
           disk[p].local.theirHtlcIndex <= d.local.theirHtlcIndex
    PROVE  Packs(p, m, d)
<1>1. Ours(m) = Ours(mem[p]) /\ Theirs(m) = Theirs(mem[p])
  BY DEF SameUpdates, Ours, Theirs
<1>2. PackagesInv(disk[p], Ours(mem[p]), Theirs(mem[p]))
  BY DEF PartyPackages, Ours, Theirs
<1>3. PackagesInv(d, Ours(m), Theirs(m))
  <2> DEFINE e == disk[p]
             U == Ours(mem[p])
             V == Theirs(mem[p])
  <2>1. U \in SUBSET U /\ V \in SUBSET V
    OBVIOUS
  <2> HIDE DEF e, U, V
  <2>2. PackagesInv(d, U, V)
    <3>1. /\ e \in AnyDisk /\ PackagesInv(e, U, V) /\ d.fwdPkgs = e.fwdPkgs /\ d.remote = e.remote
          /\ e.local.theirHtlcIndex <= d.local.theirHtlcIndex
      BY <1>2 DEF e, U, V
    <3> QED
      BY <2>1, <3>1, FewerPackages
  <2> QED
    BY <1>1, <2>2 DEF U, V
<1>4. LockedIn(d) = LockedIn(disk[p]) /\ SettleFails(d) = SettleFails(disk[p])
  BY DEF LockedIn, SettleFails
<1>5. PartyPackages(m, d)
  BY <1>3 DEF PartyPackages, Ours, Theirs
<1> QED
  BY <1>1, <1>4, <1>5 DEF Packs

LEMMA AdvancePacks ==
    ASSUME Good, NEW p \in Party, PartyPackages(mem[p], disk[p]), NEW r, Advances(p, r)
    PROVE  Packs(p, r.mem, r.disk) /\ NetPacks(p)
<1> DEFINE d == disk[p]
           e == r.disk
           U == Ours(mem[p])
           V == Theirs(mem[p])
           n == mem[p].localLog.logIndex
           k == mem[p].localLog.htlcCounter
           nV == mem[p].remoteLog.logIndex
           kV == mem[p].remoteLog.htlcCounter
           x == d.local.ourMessageIndex
           y == Tip(d).theirMessageIndex
           pkg == NewPackage(mem[p], d)
<1>1. PartyLogs(mem[p], d) /\ d.pending # <<>> /\ IsAdvanced(mem[p], d, r) /\ NetStep(p, {})
  BY GoodFacts DEF Advances
<1>2. /\ e \in AnyDisk /\ e.local = d.local /\ e.remote = Tip(d)
      /\ e.fwdPkgs = {j \in d.fwdPkgs : j.height # d.remote.height + 1} \union {pkg}
  BY <1>1 DEF IsAdvanced
<1>3. Ours(r.mem) = Compacted(U, V, x, y) /\ Theirs(r.mem) = Compacted(V, U, y, x)
  <2>1. AdvanceCompacts(mem[p], d, r)
    BY <1>1, AdvanceLogs
  <2> QED
    BY <2>1 DEF AdvanceCompacts, Ours, Theirs
<1>4. /\ d \in AnyDisk /\ U \in SUBSET AnyUpdate /\ V \in SUBSET AnyUpdate
      /\ n \in Nat /\ k \in Nat /\ nV \in Nat /\ kV \in Nat /\ UpdatesInv(U, n, k, V, nV, kV, d)
      /\ PackagesInv(d, U, V) /\ PendingNext(d)
  BY <1>1, PartyUpdates DEF PartyPackages, Ours, Theirs
<1>5. IsPackage(d, V, pkg)
  BY <1>1, NewPackageIs DEF Theirs
<1>6. x \in Nat /\ Tip(d).height = d.remote.height + 1
  BY <1>1, <1>4, TipFacts, CommitIndices DEF PendingNext, Tip
<1> HIDE DEF d, e, U, V, n, k, nV, kV, x, pkg
<1>7. /\ PackagesInv(e, Compacted(U, V, x, y), Compacted(V, U, y, x))
      /\ LockedIn(d) \subseteq LockedIn(e)
      /\ \A z \in SettleFails(e) : z \in SettleFails(d) \/ NewAnswer(d, V, z)
  BY <1>1, <1>2, <1>4, <1>5, <1>6, PackagesGrow
<1>8. \A z : NewAnswer(d, V, z) => z.htlc \in Removed(V)
  BY RemovedIs DEF NewAnswer
<1>9. Compacted(U, V, x, y) \subseteq U /\ Compacted(V, U, y, x) \subseteq V
  BY DEF Compacted
<1>10. Removed(Ours(r.mem)) \subseteq Removed(U) /\ Removed(Theirs(r.mem)) \subseteq Removed(V)
  BY <1>3, <1>9, RemovedGrows
<1>11. PartyPackages(r.mem, e)
  BY <1>3, <1>7 DEF PartyPackages, Ours, Theirs
<1>12. NetPacks(p)
  BY <1>1, MoreInNet DEF NetPacks
<1> QED
  BY <1>7, <1>8, <1>10, <1>11, <1>12 DEF Packs, d, e, U, V

\* Every step of p.
LEMMA KindPacks ==
    ASSUME Good, NEW p \in Party, PartyPackages(mem[p], disk[p]), StepKind(p)
    PROVE  Packs(p, mem'[p], disk'[p]) /\ NetPacks(p)
<1>1. /\ PartyLogs(mem[p], disk[p]) /\ DOMAIN mem = Party /\ DOMAIN disk = Party
      /\ disk[p] \in AnyDisk /\ mem[p] \in AnyMemory
  BY GoodFacts
<1>2. \A m, x : Moves(p, m, x) => mem'[p] = m /\ disk'[p] = x
  BY <1>1 DEF Moves
<1>3. disk[p].local.theirHtlcIndex \in Nat
  BY <1>1, TipFacts, CommitIndices
<1>4. ASSUME NetStep(p, Removed(DiffOf(disk[p]))) PROVE NetPacks(p)
  BY <1>1, <1>4, DiffInLog, MoreInNet DEF NetPacks
<1>5. ASSUME NEW m, NEW u, OursGrow(p, m, u) PROVE Packs(p, mem'[p], disk'[p]) /\ NetPacks(p)
  <2>1. mem'[p] = m /\ disk'[p] = disk[p]
    BY <1>2, <1>5 DEF OursGrow
  <2> QED
    BY <1>5, <2>1, OursPacks
<1>6. ASSUME NEW m, NEW u, TheirsGrow(p, m, u) PROVE Packs(p, mem'[p], disk'[p]) /\ NetPacks(p)
  <2>1. mem'[p] = m /\ disk'[p] = disk[p]
    BY <1>2, <1>6 DEF TheirsGrow
  <2> QED
    BY <1>6, <2>1, TheirsPacks
<1>7. ASSUME NEW s, Signs(p, s) PROVE Packs(p, mem'[p], disk'[p]) /\ NetPacks(p)
  <2>1. mem'[p] = s.mem /\ disk'[p] = s.disk /\ NetPacks(p)
    BY <1>2, <1>4, <1>7 DEF Signs
  <2>2. PartyLogs(s.mem, s.disk) /\ SignKeeps(mem[p], disk[p], s)
    BY <1>1, <1>7, SignLogs DEF Signs
  <2>3. /\ s.disk \in AnyDisk /\ SameUpdates(mem[p], s.mem) /\ s.disk.fwdPkgs = disk[p].fwdPkgs
        /\ s.disk.remote = disk[p].remote
        /\ disk[p].local.theirHtlcIndex <= s.disk.local.theirHtlcIndex
    BY <1>3, <2>2 DEF PartyLogs, SignKeeps
  <2> QED
    BY <1>1, <2>1, <2>3, SamePacks
<1>8. ASSUME NEW r, Revokes(p, r) PROVE Packs(p, mem'[p], disk'[p]) /\ NetPacks(p)
  <2>1. mem'[p] = r.mem /\ disk'[p] = r.disk /\ NetPacks(p)
    BY <1>2, <1>8, MoreInNet DEF Revokes, NetPacks
  <2>2. PartyLogs(r.mem, r.disk) /\ RevokeKeeps(mem[p], disk[p], r)
    BY <1>1, <1>8, RevokeLogs DEF Revokes
  <2>3. disk[p].local.theirHtlcIndex <= mem[p].remoteLog.htlcCounter
    BY <1>1, PartyUpdates DEF UpdatesInv, CountsOK
  <2>4. /\ r.disk \in AnyDisk /\ SameUpdates(mem[p], r.mem) /\ r.disk.fwdPkgs = disk[p].fwdPkgs
        /\ r.disk.remote = disk[p].remote
        /\ disk[p].local.theirHtlcIndex <= r.disk.local.theirHtlcIndex
    BY <2>2, <2>3 DEF PartyLogs, RevokeKeeps
  <2> QED
    BY <1>1, <2>1, <2>4, SamePacks
<1>9. ASSUME NEW r, Advances(p, r) PROVE Packs(p, mem'[p], disk'[p]) /\ NetPacks(p)
  <2>1. mem'[p] = r.mem /\ disk'[p] = r.disk
    BY <1>2, <1>9 DEF Advances
  <2> QED
    BY <1>9, <2>1, AdvancePacks
<1>10. ASSUME Waits(p) PROVE Packs(p, mem'[p], disk'[p]) /\ NetPacks(p)
  BY <1>4, <1>10 DEF Waits, Packs
<1> QED
  BY <1>5, <1>6, <1>7, <1>8, <1>9, <1>10 DEF StepKind

LEMMA InitWhole == Init => Whole
<1> SUFFICES ASSUME Init PROVE Whole
  OBVIOUS
<1>1. Good
  BY InitGood
<1>2. ASSUME NEW p \in Party PROVE PartyPackages(mem[p], disk[p]) /\ AnswersOf(p)
  <2> DEFINE d == FirstDisk(p)
             m == restoreCommitState(d)
  <2>1. scenario \in Scenarios /\ disk[p] = d /\ mem[p] = m /\ net[p] = <<>>
    BY DEF Init
  <2>2. d \in AnyDisk /\ d.pending = <<>> /\ d.local \in AnyCommit /\ d.fwdPkgs = {}
    BY <2>1, FirstDiskType, DiskFacts DEF FirstDisk
  <2>3. Ours(m) = {} /\ Theirs(m) = {}
    <3>1. UpdatesInv({}, d.local.ourMessageIndex, 0, {}, d.local.theirMessageIndex, 0, d)
      BY <2>1, FirstUpdates
    <3> HIDE DEF d
    <3>2. PendingNext(d) /\ d.local.ourMessageIndex \in Nat /\ d.local.theirMessageIndex \in Nat
      BY <2>2, CommitIndices DEF PendingNext
    <3>3. {} \in SUBSET AnyUpdate /\ 0 \in Nat
      OBVIOUS
    <3>4. FewerUpdates({}, {}, m)
      BY <2>2, <3>1, <3>2, <3>3, RestoredParty
    <3> QED
      BY <3>4 DEF FewerUpdates, Ours, Theirs
  <2> HIDE DEF d, m
  <2>4. LockedIn(d) = {} /\ SettleFails(d) = {}
    BY <2>2 DEF LockedIn, SettleFails
  <2>5. PartyPackages(m, d)
    BY <2>2, <2>3, <2>4 DEF PartyPackages, PackagesInv, Separate, Ours, Theirs
  <2>6. Removed({}) = {} /\ Carried(<<>>) = {}
    BY CarriedOne DEF Removed
  <2>7. AnswersOf(p)
    BY <2>1, <2>3, <2>4, <2>6 DEF AnswersOf
  <2> QED
    BY <2>1, <2>5, <2>7
<1> QED
  BY <1>1, <1>2 DEF Whole

\* A restart.
LEMMA ReconnectPacks ==
    ASSUME Whole, Reconnect, NEW p \in Party
    PROVE  PartyPackages(mem'[p], disk'[p]) /\ AnswersOf(p)'
<1> DEFINE d == disk[p]
           m == restoreCommitState(d)
           q == Other(p)
<1>1. mem'[p] = m /\ disk' = disk /\ net'[p] = <<ChannelReestablish(disk[q])>>
  BY DEF Reconnect
<1>2. PartyLogs(mem[p], d) /\ d \in AnyDisk /\ PartyPackages(mem[p], d) /\ AnswersOf(p)
  BY GoodFacts DEF Whole
<1>3. q \in Party /\ Other(p)' = q
  BY PartyFacts DEF Other
<1>4. Ours(m) \subseteq Ours(mem[p]) /\ Theirs(m) \subseteq Theirs(mem[p])
  BY <1>2, RestoredAgain DEF FewerUpdates, Ours, Theirs
<1> HIDE DEF m, q
<1>5. PartyPackages(m, d)
  <2>1. d.local.theirHtlcIndex <= d.local.theirHtlcIndex
    BY <1>2, TipFacts, CommitIndices
  <2> HIDE DEF d
  <2>2. PackagesInv(d, Ours(mem[p]), Theirs(mem[p]))
    BY <1>2 DEF PartyPackages, Ours, Theirs
  <2>3. PackagesInv(d, Ours(m), Theirs(m))
    BY <1>2, <1>4, <2>1, <2>2, FewerPackages
  <2> QED
    BY <2>3 DEF PartyPackages, Ours, Theirs
<1>6. Carried(<<ChannelReestablish(disk[q])>>) = {}
  <2>1. ~Answering(ChannelReestablish(disk[q]))
    BY DEF Answering, ChannelReestablish
  <2> QED
    BY <2>1, CarriedOne
<1>7. Removed(Ours(m)) \subseteq Removed(Ours(mem[p])) /\ Removed(Theirs(m)) \subseteq Removed(Theirs(mem[p]))
  BY <1>4, RemovedGrows
<1>8. Ours(mem[p])' = Ours(m) /\ Theirs(mem[p])' = Theirs(m) /\ Carried(net[p])' = {}
      /\ LockedIn(disk[p])' = LockedIn(d) /\ LockedIn(disk[Other(p)])' = LockedIn(disk[q])
      /\ SettleFails(disk[p])' = SettleFails(d)
  BY <1>1, <1>3, <1>6
<1>9. AnswersOf(p)'
  BY <1>2, <1>7, <1>8 DEF AnswersOf, q
<1> QED
  BY <1>1, <1>5, <1>9

LEMMA NextWhole == Whole /\ [Next]_vars => Whole'
<1> SUFFICES ASSUME Whole, [Next]_vars PROVE Whole'
  OBVIOUS
<1>1. Good /\ Good'
  BY NextGood DEF Whole
<1>2. ASSUME NEW p \in Party, LinkStep(p) \/ UserStep(p), NEW x \in Party
      PROVE  PartyPackages(mem'[x], disk'[x]) /\ AnswersOf(x)'
  <2> DEFINE q == Other(p)
  <2>1. q \in Party /\ q # p /\ Other(q) = p /\ (x = p \/ x = q) /\ Other(p)' = q /\ Other(q)' = p
    BY PartyFacts DEF Other
  <2>2. StepKind(p)
    BY <1>1, <1>2, StepIsKind
  <2>3. Packs(p, mem'[p], disk'[p]) /\ NetPacks(p)
    BY <1>1, <2>2, KindPacks DEF Whole
  <2>4. mem'[q] = mem[q] /\ disk'[q] = disk[q]
    BY <1>1, <2>1, <2>2, KindOthers
  <2>5. AnswersOf(p) /\ AnswersOf(q) /\ PartyPackages(mem[q], disk[q])
    BY <2>1 DEF Whole
  <2> HIDE DEF q
  <2>6. /\ Ours(mem[p])' = Ours(mem'[p]) /\ Theirs(mem[p])' = Theirs(mem'[p])
        /\ Ours(mem[q])' = Ours(mem[q]) /\ Theirs(mem[q])' = Theirs(mem[q])
        /\ LockedIn(disk[p])' = LockedIn(disk'[p]) /\ LockedIn(disk[q])' = LockedIn(disk[q])
        /\ SettleFails(disk[p])' = SettleFails(disk'[p]) /\ SettleFails(disk[q])' = SettleFails(disk[q])
        /\ Carried(net[p])' = Carried(net'[p]) /\ Carried(net[q])' = Carried(net'[q])
    BY <2>4
  <2>7. /\ Carried(net'[p]) \subseteq Carried(net[p])
        /\ Carried(net'[q]) \subseteq Carried(net[q]) \union LockedIn(disk[p]) \union Removed(Ours(mem[p]))
    BY <2>3 DEF NetPacks, NetStep, q
  <2>8. /\ Removed(Ours(mem[p])) \subseteq LockedIn(disk[p])
        /\ Removed(Theirs(mem[p])) \subseteq LockedIn(disk[q])
        /\ Carried(net[p]) \subseteq LockedIn(disk[q])
        /\ \A y \in SettleFails(disk[p]) : y.htlc \in LockedIn(disk[q])
    BY <2>5 DEF AnswersOf, q
  <2>9. /\ Removed(Ours(mem[q])) \subseteq LockedIn(disk[q])
        /\ Removed(Theirs(mem[q])) \subseteq LockedIn(disk[p])
        /\ Carried(net[q]) \subseteq LockedIn(disk[p])
        /\ \A y \in SettleFails(disk[q]) : y.htlc \in LockedIn(disk[p])
    BY <2>1, <2>5 DEF AnswersOf
  <2>10. /\ Removed(Ours(mem'[p])) \subseteq LockedIn(disk'[p])
         /\ Removed(Theirs(mem'[p])) \subseteq LockedIn(disk[q])
         /\ Carried(net'[p]) \subseteq LockedIn(disk[q])
         /\ \A y \in SettleFails(disk'[p]) : y.htlc \in LockedIn(disk[q])
    BY <2>3, <2>7, <2>8 DEF Packs
  <2>11. /\ Removed(Theirs(mem[q])) \subseteq LockedIn(disk'[p])
         /\ Carried(net'[q]) \subseteq LockedIn(disk'[p])
         /\ \A y \in SettleFails(disk[q]) : y.htlc \in LockedIn(disk'[p])
    BY <2>3, <2>7, <2>8, <2>9 DEF Packs
  <2>12. LockedIn(disk[Other(p)])' = LockedIn(disk[q]) /\ LockedIn(disk[Other(q)])' = LockedIn(disk'[p])
    BY <2>1, <2>4
  <2>13. AnswersOf(p)'
    BY <2>6, <2>10, <2>12 DEF AnswersOf
  <2>14. AnswersOf(q)'
    BY <2>6, <2>9, <2>11, <2>12 DEF AnswersOf
  <2> QED
    BY <2>1, <2>3, <2>4, <2>5, <2>13, <2>14 DEF Packs
<1>3. ASSUME Reconnect, NEW x \in Party PROVE PartyPackages(mem'[x], disk'[x]) /\ AnswersOf(x)'
  BY <1>3, ReconnectPacks
<1>4. ASSUME UNCHANGED vars, NEW x \in Party PROVE PartyPackages(mem'[x], disk'[x]) /\ AnswersOf(x)'
  BY <1>4 DEF vars, Whole, AnswersOf, Other
<1>5. \A x \in Party : PartyPackages(mem'[x], disk'[x]) /\ AnswersOf(x)'
  BY <1>2, <1>3, <1>4 DEF Next
<1> QED
  BY <1>1, <1>5 DEF Whole

LEMMA AlwaysWhole == Spec => []Whole
BY InitWhole, NextWhole, PTL DEF Spec

\* Whatever restarts fall between its lock-in and its forwarding, an update is in one package at
\* most: a removal in a package has taken its HTLC out of the log, and an HTLC in one is below
\* the index of the remote commitment, where no revocation looks again.
THEOREM ForwardedOnceAlways == Spec => []ForwardedOnce
<1>1. Whole => ForwardedOnce
  BY DEF Whole, PartyPackages, PackagesInv, Separate, ForwardedOnce
<1> QED
  BY <1>1, AlwaysWhole, PTL
-----------------------------------------------------------------------------
(* Which commitments an HTLC is on. *)

On(S, htlc) == \E h \in S : h.htlc = htlc

LEMMA OnHalf ==
    ASSUME NEW S, NEW A, NEW B, NEW a, NEW b, HalfOK(S, A, B, a, b), NEW htlc
    PROVE  /\ On(S, htlc) => \E u \in A : IsAdd(u) /\ u.htlc = htlc /\ u.logIndex < a /\ ~Off(B, b, htlc)
           /\ (\E u \in A : IsAdd(u) /\ u.htlc = htlc /\ u.logIndex < a /\ ~Off(B, b, htlc)) => On(S, htlc)
<1>1. S = HtlcsOf(Live(A, B, a, b))
  BY DEF HalfOK
<1>2. /\ \A h \in S : \E u \in Live(A, B, a, b) : u.htlc = h.htlc
      /\ \A u \in Live(A, B, a, b) : \E h \in S : u.htlc = h.htlc
  BY <1>1, HtlcIn
<1>3. ASSUME On(S, htlc)
      PROVE  \E u \in A : IsAdd(u) /\ u.htlc = htlc /\ u.logIndex < a /\ ~Off(B, b, htlc)
  BY <1>2, <1>3 DEF On, Live
<1>4. ASSUME NEW u \in A, IsAdd(u) /\ u.htlc = htlc /\ u.logIndex < a /\ ~Off(B, b, htlc)
      PROVE  On(S, htlc)
  <2>1. u \in Live(A, B, a, b)
    BY <1>4 DEF Live
  <2> QED
    BY <1>2, <1>4, <2>1 DEF On
<1> QED
  BY <1>3, <1>4

LEMMA OffLater ==
    ASSUME NEW B \in SUBSET AnyUpdate, NEW i \in Nat, NEW j \in Nat, i <= j, NEW htlc, Off(B, i, htlc)
    PROVE  Off(B, j, htlc)
<1>1. \A r \in B : r.logIndex \in Nat
  BY UpdateFields
<1> QED
  BY <1>1 DEF Off

LEMMA OnUntyped ==
    ASSUME NEW S, NEW T, Untyped(S) = Untyped(T), NEW htlc
    PROVE  On(S, htlc) => On(T, htlc)
<1>1. ASSUME NEW h \in S, h.htlc = htlc PROVE \E t \in T : t.htlc = htlc
  <2>1. [htlc |-> h.htlc, amt |-> h.amt] \in Untyped(T)
    BY DEF Untyped
  <2>2. PICK t \in T : [htlc |-> h.htlc, amt |-> h.amt] = [htlc |-> t.htlc, amt |-> t.amt]
    BY <2>1 DEF Untyped
  <2>3. h.htlc = t.htlc
    BY <2>2
  <2> QED
    BY <1>1, <2>3
<1> QED
  BY <1>1 DEF On

LEMMA OnDiskIs ==
    ASSUME Good, NEW p \in Party
    PROVE  OnDisk(p) \subseteq Held(disk[p])
<1> DEFINE d == disk[p]
<1>1. d \in AnyDisk
  BY GoodFacts
<1>2. PendingOf(d) \subseteq Held(d)
  <2> HIDE DEF d
  <2>1. CASE d.pending = <<>>
    BY <2>1 DEF PendingOf, Range
  <2>2. CASE d.pending # <<>>
    <3>1. PICK x \in AnyPending : d.pending = <<x>>
      BY <1>1, <2>2 DEF AnyDisk
    <3>2. Range(d.pending) = {x} /\ d.pending[1] = x
      BY <3>1 DEF Range
    <3> QED
      BY <2>2, <3>2 DEF PendingOf, Held, Tip
  <2> QED
    BY <2>1, <2>2
<1> QED
  BY <1>2 DEF OnDisk, Held

\* The HTLC with this id stands in the peer's log, below the remote index, and is not answered.
LEMMA OnAllOurs ==
    ASSUME NEW d \in AnyDisk, NEW U \in SUBSET AnyUpdate, NEW V \in SUBSET AnyUpdate,
           NEW n \in Nat, NEW k \in Nat, NEW nV \in Nat, NEW kV \in Nat,
           UpdatesInv(U, n, k, V, nV, kV, d), NEW v \in V, IsAdd(v),
           v.logIndex < d.remote.theirMessageIndex, v.htlc \notin Removed(U)
    PROVE  \A c \in Held(d) : On(c.incoming, v.htlc)
<1>1. Ordered(d) /\ v.logIndex \in Nat
  BY OrderedFacts, UpdateFields DEF UpdatesInv
<1>2. v.logIndex < d.local.theirMessageIndex /\ v.logIndex < Tip(d).theirMessageIndex
  BY <1>1 DEF Ordered
<1>3. \A i : ~Off(U, i, v.htlc)
  BY RemovedIs DEF Off
<1>4. \A c \in Held(d) : HalfOK(c.incoming, V, U, c.theirMessageIndex, c.ourMessageIndex)
  BY DEF UpdatesInv, CommitsOK, CommitOK, Held
<1>5. ASSUME NEW c \in Held(d) PROVE On(c.incoming, v.htlc)
  <2>1. v.logIndex < c.theirMessageIndex
    BY <1>2 DEF Held
  <2> QED
    BY <1>3, <1>4, <2>1, OnHalf
<1> QED
  BY <1>5

\* An HTLC on our own commitment that we offered is on those of the peer, and an HTLC on one of
\* theirs that they offered is on ours.
LEMMA OnOthers ==
    ASSUME NEW d \in AnyDisk, NEW U \in SUBSET AnyUpdate, NEW V \in SUBSET AnyUpdate,
           NEW n \in Nat, NEW k \in Nat, NEW nV \in Nat, NEW kV \in Nat,
           UpdatesInv(U, n, k, V, nV, kV, d), NEW htlc, NEW c \in Held(d)
    PROVE  /\ On(d.local.outgoing, htlc) => On(c.outgoing, htlc)
           /\ On(c.incoming, htlc) => On(d.local.incoming, htlc)
<1> DEFINE i == d.local.ourMessageIndex
           j == d.local.theirMessageIndex
           a == c.ourMessageIndex
           b == c.theirMessageIndex
<1>1. /\ i \in Nat /\ j \in Nat /\ a \in Nat /\ b \in Nat /\ i <= a /\ b <= j
  <2>1. Ordered(d)
    BY OrderedFacts DEF UpdatesInv
  <2> QED
    BY <2>1 DEF Ordered, Held
<1>2. /\ HalfOK(d.local.outgoing, U, V, i, j) /\ HalfOK(c.outgoing, U, V, a, b)
      /\ HalfOK(d.local.incoming, V, U, j, i) /\ HalfOK(c.incoming, V, U, b, a)
  BY DEF UpdatesInv, CommitsOK, CommitOK, Held
<1> HIDE DEF i, j, a, b
<1>3. ASSUME On(d.local.outgoing, htlc) PROVE On(c.outgoing, htlc)
  <2>1. PICK u \in U : IsAdd(u) /\ u.htlc = htlc /\ u.logIndex < i /\ ~Off(V, j, htlc)
    BY <1>2, <1>3, OnHalf
  <2>2. u.logIndex < a /\ ~Off(V, b, htlc)
    BY <1>1, <2>1, UpdateFields, OffLater
  <2> QED
    BY <1>2, <2>1, <2>2, OnHalf
<1>4. ASSUME On(c.incoming, htlc) PROVE On(d.local.incoming, htlc)
  <2>1. PICK v \in V : IsAdd(v) /\ v.htlc = htlc /\ v.logIndex < b /\ ~Off(U, a, htlc)
    BY <1>2, <1>4, OnHalf
  <2>2. v.logIndex < j /\ ~Off(U, i, htlc)
    BY <1>1, <2>1, UpdateFields, OffLater
  <2> QED
    BY <1>2, <2>1, <2>2, OnHalf
<1> QED
  BY <1>3, <1>4

\* The commitment of p is one that its peer q has for it.
LEMMA OnAgreed ==
    ASSUME NEW d, NEW e, Agreed(d, e), NEW htlc
    PROVE  \E c \in Held(e) : /\ On(d.local.outgoing, htlc) <=> On(c.incoming, htlc)
                              /\ On(d.local.incoming, htlc) <=> On(c.outgoing, htlc)
<1>1. PICK c \in Held(e) : OwnTx(d.local) = PeerTx(c)
  BY DEF Agreed, Held, Tip
<1>2. /\ Untyped(d.local.outgoing) = Untyped(c.incoming) /\ Untyped(c.incoming) = Untyped(d.local.outgoing)
      /\ Untyped(d.local.incoming) = Untyped(c.outgoing) /\ Untyped(c.outgoing) = Untyped(d.local.incoming)
  BY <1>1 DEF OwnTx, PeerTx
<1> QED
  BY <1>2, OnUntyped

\* An HTLC that was forwarded and is not answered is on every commitment that either party
\* holds, also across restarts and before the answers are exchanged; an answer is passed on
\* only when the HTLC is on none of them.
THEOREM LockedInUntilAnsweredAlways == Spec => []LockedInUntilAnswered
<1>1. ASSUME Whole, NEW p \in Party, NEW htlc \in LockedIn(disk[p]),
             lookupHtlc(mem[p].remoteLog, htlc) # {}, htlc \notin mem[p].remoteLog.modified
      PROVE  /\ \A c \in OnDisk(p) : On(c.incoming, htlc)
             /\ \A c \in OnDisk(Other(p)) : On(c.outgoing, htlc)
  <2> DEFINE q == Other(p)
             d == disk[p]
             e == disk[q]
             U == Ours(mem[p])
             V == Theirs(mem[p])
  <2>1. Good /\ q \in Party /\ Other(q) = p /\ PartyLogs(mem[p], d) /\ PartyLogs(mem[q], e)
    BY <1>1, PartyFacts DEF Whole, Good
  <2>2. PICK v \in V : IsAdd(v) /\ v.htlc = htlc
    <3>1. PICK x \in mem[p].remoteLog.entries : x.type = "Add" /\ x.htlc = htlc
      BY <1>1 DEF lookupHtlc, Adds
    <3>2. Update(x) \in V /\ IsAdd(Update(x)) /\ Update(x).htlc = htlc
      BY <3>1 DEF Theirs, Ups, Update, LogUpdate, IsAdd
    <3> QED
      BY <3>2
  <2>3. htlc \notin Removed(U)
    <3>1. mem[p].remoteLog.modified = Removed(mem[p].localLog.entries)
      BY <2>1 DEF PartyLogs, LogsInv
    <3>2. mem[p].localLog.entries \in SUBSET AnyEntry
      BY <2>1, PartyFactsOf
    <3> QED
      BY <1>1, <3>1, <3>2, RemovedUps DEF Ours
  <2>4. v.logIndex < d.remote.theirMessageIndex
    BY <1>1, <2>2 DEF Whole, PartyPackages, PackagesInv, Theirs
  <2>5. \A c \in Held(d) : On(c.incoming, htlc)
    <3>1. /\ d \in AnyDisk /\ U \in SUBSET AnyUpdate /\ V \in SUBSET AnyUpdate
          /\ mem[p].localLog.logIndex \in Nat /\ mem[p].localLog.htlcCounter \in Nat
          /\ mem[p].remoteLog.logIndex \in Nat /\ mem[p].remoteLog.htlcCounter \in Nat
          /\ UpdatesInv(U, mem[p].localLog.logIndex, mem[p].localLog.htlcCounter,
                        V, mem[p].remoteLog.logIndex, mem[p].remoteLog.htlcCounter, d)
      BY <2>1, PartyUpdates DEF Ours, Theirs
    <3> HIDE DEF d, U, V
    <3> QED
      BY <2>2, <2>3, <2>4, <3>1, OnAllOurs
  <2>6. On(e.local.outgoing, htlc)
    <3>1. Agreed(e, d)
      BY <2>1, GoodFacts DEF ChannelInv, AgreeInv
    <3> QED
      BY <2>5, <3>1, OnAgreed
  <2>7. \A c \in Held(e) : On(c.outgoing, htlc)
    <3> HIDE DEF e
    <3> QED
      BY <2>1, <2>6, PartyUpdates, OnOthers
  <2> QED
    BY <2>1, <2>5, <2>7, OnDiskIs
<1>2. ASSUME Whole, NEW p \in Party, NEW x \in SettleFails(disk[p])
      PROVE  /\ x.htlc \in LockedIn(disk[Other(p)])
             /\ \A c \in OnDisk(p) : ~On(c.outgoing, x.htlc)
             /\ \A c \in OnDisk(Other(p)) : ~On(c.incoming, x.htlc)
  <2> DEFINE q == Other(p)
             d == disk[p]
             e == disk[q]
             U == Ours(mem[p])
             V == Theirs(mem[p])
  <2>1. Good /\ q \in Party /\ Other(q) = p /\ PartyLogs(mem[p], d) /\ PartyLogs(mem[q], e)
    BY <1>2, PartyFacts DEF Whole, Good
  <2>2. x.htlc \in LockedIn(e)
    BY <1>2 DEF Whole, AnswersOf
  <2>3. \A u \in U : IsAdd(u) => u.htlc # x.htlc
    BY <1>2 DEF Whole, PartyPackages, PackagesInv, Ours
  <2>4. ASSUME NEW c \in Held(d) PROVE ~On(c.outgoing, x.htlc)
    <3>1. HalfOK(c.outgoing, U, V, c.ourMessageIndex, c.theirMessageIndex)
      BY <2>1, PartyUpdates DEF UpdatesInv, CommitsOK, CommitOK, Held, Ours, Theirs
    <3> HIDE DEF U, V
    <3> QED
      BY <2>3, <3>1, OnHalf
  <2>5. ~On(e.local.incoming, x.htlc)
    <3>1. Agreed(e, d)
      BY <2>1, GoodFacts DEF ChannelInv, AgreeInv
    <3> QED
      BY <2>4, <3>1, OnAgreed
  <2>6. \A c \in Held(e) : ~On(c.incoming, x.htlc)
    <3> HIDE DEF e
    <3> QED
      BY <2>1, <2>5, PartyUpdates, OnOthers
  <2> QED
    BY <2>1, <2>2, <2>4, <2>6, OnDiskIs
<1>3. Whole => LockedInUntilAnswered
  BY <1>1, <1>2 DEF LockedInUntilAnswered, On
<1> QED
  BY <1>3, AlwaysWhole, PTL
-----------------------------------------------------------------------------
(* What a commitment is worth.  First the sums of amounts. *)

Amounted(S) == IsFiniteSet(S) /\ \A e \in S : e.amt \in Nat

LEMMA SumAmtIs ==
    ASSUME NEW D, Amounted(D), NEW S \in SUBSET D
    PROVE  SumAmt(S) = Total([e \in D |-> e.amt], S)
<1> DEFINE f == [e \in D |-> e.amt]
           g == [e \in S |-> e.amt]
<1>1. IsFiniteSet(S) /\ \A e \in S : f[e] = g[e]
  BY FS_Subset DEF Amounted
<1>2. SumAmt(S) = Total(g, S)
  BY DEF SumAmt, Total
<1> HIDE DEF f, g
<1>3. Total(f, S) = Total(g, S)
  BY <1>1, TotalSame
<1> QED
  BY <1>2, <1>3 DEF f

LEMMA AmountedPart == ASSUME NEW D, Amounted(D), NEW S \in SUBSET D PROVE Amounted(S) /\ SumAmt(S) \in Nat
BY FS_Subset, SumAmtType DEF Amounted

LEMMA SumAmtUnion ==
    ASSUME NEW S, NEW T, Amounted(S), Amounted(T), S \cap T = {}
    PROVE  SumAmt(S \union T) = SumAmt(S) + SumAmt(T)
<1> DEFINE D == S \union T
           f == [e \in D |-> e.amt]
<1>1. IsFiniteSet(D) /\ \A e \in D : f[e] \in Nat
  BY FS_Union DEF Amounted
<1>2. Amounted(D) /\ S \in SUBSET D /\ T \in SUBSET D /\ D \in SUBSET D
  BY <1>1 DEF Amounted
<1>3. SumAmt(D) = Total(f, D) /\ SumAmt(S) = Total(f, S) /\ SumAmt(T) = Total(f, T)
  <2> HIDE DEF D
  <2> QED
    BY <1>2, SumAmtIs
<1> HIDE DEF f
<1>4. Total(f, S \union T) = Total(f, S) + Total(f, T)
  <2>1. IsFiniteSet(D) /\ (\A e \in D : f[e] \in Nat) /\ S \in SUBSET D /\ T \in SUBSET D
    BY <1>1
  <2> HIDE DEF D
  <2> QED
    BY <2>1, TotalUnion
<1> QED
  BY <1>3, <1>4

LEMMA SumAmtImage ==
    ASSUME NEW X, Amounted(X), NEW Y, NEW g \in [X -> Y],
           \A x, y \in X : g[x] = g[y] => x = y,
           \A y \in Y : \E x \in X : g[x] = y,
           \A x \in X : g[x].amt = x.amt
    PROVE  SumAmt(Y) = SumAmt(X)
<1> DEFINE f == [x \in X |-> x.amt]
           h == [y \in Y |-> y.amt]
<1>1. \A x \in X : f[x] \in Nat /\ h[g[x]] = f[x]
  BY DEF Amounted
<1>2. ValuesOf(g, X) = Y
  BY DEF ValuesOf
<1>3. SumAmt(X) = Total(f, X) /\ SumAmt(Y) = Total(h, Y)
  BY DEF SumAmt, Total
<1> HIDE DEF f, h
<1>4. Total(h, ValuesOf(g, X)) = Total(f, X)
  <2>1. IsFiniteSet(X) /\ Renames(g, X, f, h)
    BY <1>1 DEF Amounted, Renames
  <2> QED
    BY <2>1, TotalImage
<1> QED
  BY <1>2, <1>3, <1>4

\* The HTLCs of a commitment hold what the updates that add them do.
LEMMA SumHtlcs ==
    ASSUME NEW U \in FinSub(AnyUpdate), NEW n, NEW k, Distinct(U, n, k), NEW X \in SUBSET U
    PROVE  SumAmt(HtlcsOf(X)) = SumAmt(X) /\ Amounted(X) /\ SumAmt(X) \in Nat
<1> DEFINE H(u) == [logIndex |-> u.logIndex, htlc |-> u.htlc, amt |-> u.amt]
           g == [u \in X |-> H(u)]
           Y == HtlcsOf(X)
<1>1. Amounted(X)
  BY FS_Subset, UpdateFields DEF Amounted, FinSub
<1>2. Y = {H(u) : u \in X}
  BY DEF HtlcsOf
<1>3. g \in [X -> Y] /\ \A u \in X : g[u].logIndex = u.logIndex /\ g[u].amt = u.amt
  BY <1>2
<1>4. \A y \in Y : \E u \in X : g[u] = y
  BY <1>2
<1> HIDE DEF g, Y
<1>5. \A u, v \in X : g[u] = g[v] => u = v
  BY <1>3 DEF Distinct
<1>6. SumAmt(Y) = SumAmt(X)
  BY <1>1, <1>3, <1>4, <1>5, SumAmtImage
<1> QED
  BY <1>1, <1>6, AmountedPart DEF Y

LEMMA OneAdd ==
    ASSUME NEW U \in FinSub(AnyUpdate), NEW n, NEW k, Distinct(U, n, k),
           NEW u \in U, NEW v \in U, IsAdd(u), IsAdd(v), u.htlc = v.htlc
    PROVE  u = v
<1>1. u \in AnyUpdate /\ v \in AnyUpdate
  BY DEF FinSub
<1>2. u.logIndex \in Nat /\ v.logIndex \in Nat /\ u.htlc \in Nat /\ v.htlc \in Nat
  BY <1>1, UpdateFields
<1>3. /\ u.logIndex < v.logIndex <=> u.htlc < v.htlc
      /\ v.logIndex < u.logIndex <=> v.htlc < u.htlc
  BY DEF Distinct
<1>4. u.logIndex = v.logIndex
  BY <1>2, <1>3
<1> QED
  BY <1>4 DEF Distinct

\* The removals in B from index j to b, and the Adds in A from i to a.
Taken(B, j, b) == {r \in B : IsRemoval(r) /\ j <= r.logIndex /\ r.logIndex < b}
Joined(A, i, a) == {u \in A : IsAdd(u) /\ i <= u.logIndex /\ u.logIndex < a}

\* The removals between two commitments are worth the HTLCs that they take off.
LEMMA TakenWorth ==
    ASSUME NEW U \in FinSub(AnyUpdate), NEW V \in FinSub(AnyUpdate), NEW n, NEW k,
           NEW i \in Nat, NEW j \in Nat, NEW b \in Nat, j <= b,
           Distinct(U, n, k), Answers(V, U), Parents(U, V, i, b)
    PROVE  SumAmt(Live(U, V, i, j) \ Live(U, V, i, b)) = SumAmt(Taken(V, j, b))
<1> DEFINE X == Taken(V, j, b)
           Y == Live(U, V, i, j) \ Live(U, V, i, b)
           Parent(r, u) == u \in U /\ IsAdd(u) /\ u.htlc = r.htlc /\ u.amt = r.amt
           g == [r \in X |-> CHOOSE u : Parent(r, u)]
<1>1. \A u \in V : u \in AnyUpdate /\ u.logIndex \in Nat /\ u.amt \in Nat
  BY UpdateFields DEF FinSub
<1>2. Amounted(X)
  BY <1>1, FS_Subset DEF Amounted, FinSub, Taken
<1>3. \A r \in X : Parent(r, g[r])
  <2> SUFFICES ASSUME NEW r \in X PROVE Parent(r, g[r])
    OBVIOUS
  <2>1. \E u : Parent(r, u)
    BY DEF Answers, Taken
  <2>2. g[r] = CHOOSE u : Parent(r, u)
    OBVIOUS
  <2> HIDE DEF Parent, g
  <2> QED
    BY <2>1, <2>2, Zenon
<1> HIDE DEF g
<1>4. \A u \in U : IsAdd(u) /\ Off(V, b, u.htlc) => u.logIndex < i
  BY DEF Parents
<1>5. ASSUME NEW r \in X PROVE g[r] \in Y /\ g[r].amt = r.amt
  <2> DEFINE u == g[r]
  <2>1. u \in U /\ IsAdd(u) /\ u.htlc = r.htlc /\ u.amt = r.amt
    BY <1>3
  <2> HIDE DEF u
  <2>2. r \in V /\ IsRemoval(r) /\ j <= r.logIndex /\ r.logIndex < b
    BY DEF Taken
  <2>3. Off(V, b, u.htlc)
    BY <2>1, <2>2 DEF Off
  <2>4. ~Off(V, j, u.htlc)
    <3> SUFFICES ASSUME NEW q \in V, IsRemoval(q), q.logIndex < j, q.htlc = u.htlc PROVE FALSE
      BY DEF Off
    <3>1. q = r
      BY <2>1, <2>2 DEF Answers
    <3> QED
      BY <1>1, <2>2, <3>1
  <2>5. u.logIndex < i
    BY <1>4, <2>1, <2>3
  <2> QED
    BY <2>1, <2>3, <2>4, <2>5 DEF Live, u
<1>6. ASSUME NEW r \in X, NEW q \in X, g[r] = g[q] PROVE r = q
  BY <1>3, <1>6 DEF Answers, Taken
<1>7. ASSUME NEW u \in Y PROVE \E r \in X : g[r] = u
  <2>1. u \in U /\ IsAdd(u) /\ Off(V, b, u.htlc) /\ ~Off(V, j, u.htlc)
    BY DEF Live
  <2>2. PICK r \in V : IsRemoval(r) /\ r.logIndex < b /\ r.htlc = u.htlc
    BY <2>1 DEF Off
  <2>3. r \in X
    BY <1>1, <2>1, <2>2 DEF Off, Taken
  <2>4. g[r] \in U /\ IsAdd(g[r]) /\ g[r].htlc = u.htlc
    BY <1>3, <2>2, <2>3
  <2>5. g[r] = u
    BY <2>1, <2>4, OneAdd
  <2> QED
    BY <2>3, <2>5
<1>8. g \in [X -> Y]
  <2>1. DOMAIN g = X /\ g = [r \in X |-> g[r]]
    BY DEF g
  <2> HIDE DEF X, Y
  <2> QED
    BY <1>5, <2>1
<1> HIDE DEF X, Y
<1>9. SumAmt(Y) = SumAmt(X)
  BY <1>2, <1>5, <1>6, <1>7, <1>8, SumAmtImage
<1> QED
  BY <1>9 DEF X, Y

\* From one commitment to the next, the HTLCs of one side change by what joins and what is taken.
LEMMA HalfWorth ==
    ASSUME NEW U \in FinSub(AnyUpdate), NEW V \in FinSub(AnyUpdate), NEW n, NEW k,
           NEW i \in Nat, NEW j \in Nat, NEW a \in Nat, NEW b \in Nat, i <= a, j <= b,
           Distinct(U, n, k), Answers(V, U), Parents(U, V, i, b)
    PROVE  /\ SumAmt(HtlcsOf(Live(U, V, a, b))) + SumAmt(Taken(V, j, b))
                  = SumAmt(HtlcsOf(Live(U, V, i, j))) + SumAmt(Joined(U, i, a))
           /\ SumAmt(HtlcsOf(Live(U, V, a, b))) \in Nat /\ SumAmt(HtlcsOf(Live(U, V, i, j))) \in Nat
           /\ SumAmt(Taken(V, j, b)) \in Nat /\ SumAmt(Joined(U, i, a)) \in Nat
<1> DEFINE old == Live(U, V, i, j)
           new == Live(U, V, a, b)
           kept == Live(U, V, i, b)
           gone == old \ kept
           more == Joined(U, i, a)
           out == Taken(V, j, b)
<1>1. \A u \in U : u.logIndex \in Nat
  BY UpdateFields DEF FinSub
<1>2. \A r \in V : r.logIndex \in Nat
  BY UpdateFields DEF FinSub
<1>3. \A h : Off(V, j, h) => Off(V, b, h)
  BY <1>2 DEF Off
<1>4. kept \subseteq old
  BY <1>3 DEF Live
<1>5. new = kept \union more
  BY <1>1 DEF Live, Joined, Parents
<1>6. kept \cap more = {}
  BY <1>1 DEF Live, Joined
<1>7. SumAmt(gone) = SumAmt(out)
  BY TakenWorth
<1>8. old = kept \union gone /\ kept \cap gone = {}
  BY <1>4
<1>9. old \in SUBSET U /\ new \in SUBSET U /\ kept \in SUBSET U /\ gone \in SUBSET U /\ more \in SUBSET U
  BY DEF Live, Joined
<1> HIDE DEF old, new, kept, gone, more, out
<1>10. /\ SumAmt(HtlcsOf(old)) = SumAmt(old) /\ SumAmt(old) \in Nat
       /\ SumAmt(HtlcsOf(new)) = SumAmt(new) /\ SumAmt(new) \in Nat
       /\ Amounted(kept) /\ Amounted(gone) /\ Amounted(more)
       /\ SumAmt(kept) \in Nat /\ SumAmt(gone) \in Nat /\ SumAmt(more) \in Nat
  BY <1>9, SumHtlcs
<1>11. SumAmt(kept \union gone) = SumAmt(kept) + SumAmt(gone)
  BY <1>8, <1>10, SumAmtUnion
<1>12. SumAmt(kept \union more) = SumAmt(kept) + SumAmt(more)
  BY <1>6, <1>10, SumAmtUnion
<1>13. SumAmt(old) = SumAmt(kept) + SumAmt(gone) /\ SumAmt(new) = SumAmt(kept) + SumAmt(more)
  BY <1>5, <1>8, <1>11, <1>12
<1>14. /\ SumAmt(HtlcsOf(new)) + SumAmt(out) = SumAmt(HtlcsOf(old)) + SumAmt(more)
       /\ SumAmt(HtlcsOf(new)) \in Nat /\ SumAmt(HtlcsOf(old)) \in Nat
       /\ SumAmt(out) \in Nat /\ SumAmt(more) \in Nat
  BY <1>7, <1>10, <1>13
<1> QED
  BY <1>14 DEF old, new, out, more

\* The sum over log entries is the sum over their updates.
LEMMA SumUps ==
    ASSUME NEW S \in FinSub(AnyEntry), Entries(S), NEW T \in SUBSET S
    PROVE  SumAmt(Ups(T)) = SumAmt(T)
<1> DEFINE g == [e \in T |-> Update(e)]
           Y == Ups(T)
<1>1. \A e \in S : e \in AnyEntry /\ e.amt \in Nat
  BY EntryFields DEF FinSub
<1>2. Amounted(T)
  BY <1>1, FS_Subset DEF Amounted, FinSub
<1>3. \A e \in T : Update(e).logIndex = e.logIndex /\ Update(e).amt = e.amt
  BY DEF Update, LogUpdate
<1>4. Y = {Update(e) : e \in T}
  BY DEF Ups
<1>5. g \in [T -> Y] /\ (\A y \in Y : \E e \in T : g[e] = y) /\ \A e \in T : g[e] = Update(e)
  BY <1>4
<1> HIDE DEF g, Y
<1>6. \A e \in T : g[e].amt = e.amt /\ g[e].logIndex = e.logIndex
  BY <1>3, <1>5
<1>7. \A e, f \in T : g[e] = g[f] => e = f
  BY <1>6 DEF Entries
<1>8. SumAmt(Y) = SumAmt(T)
  BY <1>2, <1>5, <1>6, <1>7, SumAmtImage
<1> QED
  BY <1>8 DEF Y

\* What a view moves: removals of a type and Adds that the chain does not have.
NewRemovals(S, b, chain, t) == {e \in S : e.logIndex < b /\ e.rm[chain] = 0 /\ e.type = t}
NewAdds(S, chain) == {e \in S : e.add[chain] = 0}

LEMMA BalancesAre ==
    ASSUME NEW m, NEW chain, NEW a, NEW b
    PROVE  LET v == evaluateHTLCView(m, fetchHTLCView(m, b, a, {}, {}), chain)
               L == m.localLog.entries
               R == m.remoteLog.entries
               last == tip(ChainOf(m, chain))
           IN  /\ v.ourBalance = last.ourBalance + SumAmt(NewRemovals(L, a, chain, "Settle"))
                     + SumAmt(NewRemovals(R, b, chain, "Fail"))
                     - SumAmt(NewAdds(Standing(L, R, a, b), chain))
               /\ v.theirBalance = last.theirBalance + SumAmt(NewRemovals(R, b, chain, "Settle"))
                     + SumAmt(NewRemovals(L, a, chain, "Fail"))
                     - SumAmt(NewAdds(Standing(R, L, b, a), chain))
<1> DEFINE view == fetchHTLCView(m, b, a, {}, {})
           v == evaluateHTLCView(m, view, chain)
           L == m.localLog.entries
           R == m.remoteLog.entries
           last == tip(ChainOf(m, chain))
           ourRm == {e \in view.ours : IsRemoval(e)}
           theirRm == {e \in view.theirs : IsRemoval(e)}
           New(S) == {e \in S : e.add[chain] = 0}
           Gone(S, t) == {e \in S : e.rm[chain] = 0 /\ e.type = t}
<1>1. /\ view.ours = {e \in L : e.logIndex < a} /\ view.theirs = {e \in R : e.logIndex < b}
      /\ v.outgoing = Standing(L, R, a, b) /\ v.incoming = Standing(R, L, b, a)
  <2>1. view.ours = {e \in L : e.logIndex < a} /\ view.theirs = {e \in R : e.logIndex < b}
    BY DEF fetchHTLCView
  <2>2. v.outgoing = Standing(L, R, a, b)
    BY ViewIs
  <2>3. v.incoming = Standing(R, L, b, a)
    BY ViewIs
  <2> QED
    BY <2>1, <2>2, <2>3
<1> HIDE DEF view
<1>2. /\ v.ourBalance = last.ourBalance + SumAmt(Gone(ourRm, "Settle"))
                            + SumAmt(Gone(theirRm, "Fail")) - SumAmt(New(v.outgoing))
      /\ v.theirBalance = last.theirBalance + SumAmt(Gone(theirRm, "Settle"))
                            + SumAmt(Gone(ourRm, "Fail")) - SumAmt(New(v.incoming))
  BY DEF evaluateHTLCView
<1> HIDE DEF v
<1>3. /\ New(v.outgoing) = NewAdds(Standing(L, R, a, b), chain)
      /\ New(v.incoming) = NewAdds(Standing(R, L, b, a), chain)
  BY <1>1 DEF NewAdds
<1>4. \A t \in {"Settle", "Fail"} : /\ Gone(ourRm, t) = NewRemovals(L, a, chain, t)
                                    /\ Gone(theirRm, t) = NewRemovals(R, b, chain, t)
  BY <1>1 DEF NewRemovals, IsRemoval
<1> HIDE DEF New, Gone, L, R, last, ourRm, theirRm
<1>5. /\ v.ourBalance = last.ourBalance + SumAmt(NewRemovals(L, a, chain, "Settle"))
                     + SumAmt(NewRemovals(R, b, chain, "Fail"))
                     - SumAmt(NewAdds(Standing(L, R, a, b), chain))
      /\ v.theirBalance = last.theirBalance + SumAmt(NewRemovals(R, b, chain, "Settle"))
                     + SumAmt(NewRemovals(L, a, chain, "Fail"))
                     - SumAmt(NewAdds(Standing(R, L, b, a), chain))
  BY <1>2, <1>3, <1>4
<1> QED
  BY <1>5 DEF v, view, L, R, last

LEMMA NewAddsAre ==
    ASSUME NEW A \in FinSub(AnyEntry), NEW B \in SUBSET AnyEntry, NEW chain \in Chains,
           NEW n \in Nat, NEW k \in Nat, NEW i \in Nat, NEW h \in Nat, NEW a \in Nat, NEW b \in Nat,
           Entries(A), Distinct(Ups(A), n, k), i <= a, Marked(A, chain, i, h, i, h),
           ParentsMarked(A, B, b, chain)
    PROVE  SumAmt(NewAdds(Standing(A, B, a, b), chain)) = SumAmt(Joined(Ups(A), i, a))
<1> DEFINE T == NewAdds(Standing(A, B, a, b), chain)
<1>1. A \in SUBSET AnyEntry
  BY DEF FinSub
<1>2. \A e \in A : e.logIndex < a /\ IsAdd(e) /\ e.add[chain] = 0 => e \in Standing(A, B, a, b)
  BY <1>1, ViewHalf
<1>3. \A e \in A : IsAdd(e) => (e.add[chain] = 0 <=> i <= e.logIndex)
  <2> SUFFICES ASSUME NEW e \in A, IsAdd(e) PROVE e.add[chain] = 0 <=> i <= e.logIndex
    OBVIOUS
  <2>1. e.logIndex \in Nat /\ e.add[chain] \in Nat /\ Marks(e) = e.add
    BY <1>1, EntryFacts DEF Marks
  <2> QED
    BY <2>1 DEF Marked
<1>4. T \subseteq A /\ \A e \in A : e \in T <=> IsAdd(e) /\ i <= e.logIndex /\ e.logIndex < a
  BY <1>2, <1>3 DEF NewAdds, Standing
<1> HIDE DEF T
<1>5. Ups(T) = Joined(Ups(A), i, a)
  <2>1. \A u : u \in Ups(T) <=> \E e \in A : u = Update(e) /\ e \in T
    BY <1>4 DEF Ups
  <2>2. \A u : u \in Joined(Ups(A), i, a)
            <=> \E e \in A : u = Update(e) /\ IsAdd(e) /\ i <= e.logIndex /\ e.logIndex < a
    BY <1>1, UpsFacts DEF Joined
  <2> QED
    BY <1>4, <2>1, <2>2
<1>6. SumAmt(Ups(T)) = SumAmt(T)
  BY <1>4, SumUps
<1> QED
  BY <1>5, <1>6 DEF T

LEMMA NewRemovalsAre ==
    ASSUME NEW B \in FinSub(AnyEntry), NEW chain \in Chains, NEW j \in Nat, NEW h \in Nat, NEW b \in Nat,
           Entries(B), Marked(B, chain, j, h, j, h)
    PROVE  /\ SumAmt(NewRemovals(B, b, chain, "Settle")) \in Nat
           /\ SumAmt(NewRemovals(B, b, chain, "Fail")) \in Nat
           /\ SumAmt(NewRemovals(B, b, chain, "Settle")) + SumAmt(NewRemovals(B, b, chain, "Fail"))
                  = SumAmt(Taken(Ups(B), j, b))
<1> DEFINE S == NewRemovals(B, b, chain, "Settle")
           F == NewRemovals(B, b, chain, "Fail")
           T == S \union F
<1>1. B \in SUBSET AnyEntry /\ \A e \in B : e.amt \in Nat
  BY EntryFacts DEF FinSub
<1>2. \A e \in B : IsRemoval(e) => (e.rm[chain] = 0 <=> j <= e.logIndex)
  <2> SUFFICES ASSUME NEW e \in B, IsRemoval(e) PROVE e.rm[chain] = 0 <=> j <= e.logIndex
    OBVIOUS
  <2>1. e.logIndex \in Nat /\ e.rm[chain] \in Nat /\ Marks(e) = e.rm
    BY <1>1, EntryFacts DEF Marks, IsRemoval, IsAdd
  <2> QED
    BY <2>1 DEF Marked
<1>3. S \subseteq B /\ F \subseteq B /\ S \cap F = {}
  BY DEF NewRemovals
<1>4. T \subseteq B /\ \A e \in B : e \in T <=> IsRemoval(e) /\ j <= e.logIndex /\ e.logIndex < b
  BY <1>2 DEF NewRemovals, IsRemoval
<1>5. Amounted(S) /\ Amounted(F) /\ SumAmt(S) \in Nat /\ SumAmt(F) \in Nat
  <2>1. Amounted(B)
    BY <1>1 DEF Amounted, FinSub
  <2> HIDE DEF S, F
  <2> QED
    BY <1>3, <2>1, AmountedPart
<1>6. Ups(T) = Taken(Ups(B), j, b)
  <2> HIDE DEF T
  <2>1. \A u : u \in Ups(T) <=> \E e \in B : u = Update(e) /\ e \in T
    BY <1>4 DEF Ups
  <2>2. \A u : u \in Taken(Ups(B), j, b)
            <=> \E e \in B : u = Update(e) /\ IsRemoval(e) /\ j <= e.logIndex /\ e.logIndex < b
    BY <1>1, UpsFacts DEF Taken
  <2> QED
    BY <1>4, <2>1, <2>2
<1>7. SumAmt(Ups(T)) = SumAmt(T)
  <2> HIDE DEF T
  <2> QED
    BY <1>4, SumUps
<1> HIDE DEF S, F
<1>8. SumAmt(T) = SumAmt(S) + SumAmt(F)
  BY <1>3, <1>5, SumAmtUnion
<1> QED
  BY <1>5, <1>6, <1>7, <1>8 DEF S, F

\* A view moves money between the balances and the HTLCs, and nothing else.
LEMMA NextWorth ==
    ASSUME NEW m \in AnyMemory, NEW chain \in Chains, NEW old, NEW a, NEW b, NEW ka, NEW kb,
           NEW n, NEW k, NEW nV, NEW kV, Extends(m, chain, old, a, b, n, k, nV, kV),
           Answers(Ups(m.localLog.entries), Ups(m.remoteLog.entries)),
           Answers(Ups(m.remoteLog.entries), Ups(m.localLog.entries)),
           CommitOK(old, Ups(m.localLog.entries), Ups(m.remoteLog.entries)),
           NEW r, r = fetchCommitmentView(m, chain, a, ka, b, kb), r.ok
    PROVE  LET v == evaluateHTLCView(m, fetchHTLCView(m, b, a, {}, {}), chain)
           IN  /\ Worth(r.commit) = Worth(old)
               /\ r.commit.ourBalance = v.ourBalance /\ r.commit.theirBalance = v.theirBalance
<1> DEFINE view == fetchHTLCView(m, b, a, {}, {})
           v == evaluateHTLCView(m, view, chain)
           L == m.localLog.entries
           R == m.remoteLog.entries
           U == Ups(L)
           V == Ups(R)
           h == old.height
           i == old.ourMessageIndex
           j == old.theirMessageIndex
           ourSettles == SumAmt(NewRemovals(L, a, chain, "Settle"))
           ourFails == SumAmt(NewRemovals(L, a, chain, "Fail"))
           theirSettles == SumAmt(NewRemovals(R, b, chain, "Settle"))
           theirFails == SumAmt(NewRemovals(R, b, chain, "Fail"))
           ourAdds == SumAmt(NewAdds(Standing(L, R, a, b), chain))
           theirAdds == SumAmt(NewAdds(Standing(R, L, b, a), chain))
           out == SumAmt(HtlcsOf(Live(U, V, a, b)))
           in == SumAmt(HtlcsOf(Live(V, U, b, a)))
           oldOut == SumAmt(HtlcsOf(Live(U, V, i, j)))
           oldIn == SumAmt(HtlcsOf(Live(V, U, j, i)))
           c == r.commit
<1>0. /\ old \in AnyCommit /\ old = tip(ChainOf(m, chain))
      /\ a \in Nat /\ b \in Nat /\ n \in Nat /\ k \in Nat /\ nV \in Nat /\ kV \in Nat
      /\ i <= a /\ j <= b /\ Distinct(U, n, k) /\ Distinct(V, nV, kV)
      /\ Entries(L) /\ Entries(R) /\ Marked(L, chain, i, h, i, h) /\ Marked(R, chain, j, h, j, h)
  BY DEF Extends
<1>1. /\ L \in FinSub(AnyEntry) /\ R \in FinSub(AnyEntry) /\ h \in Nat /\ i \in Nat /\ j \in Nat
      /\ L \in SUBSET AnyEntry /\ R \in SUBSET AnyEntry
      /\ U \in FinSub(AnyUpdate) /\ V \in FinSub(AnyUpdate)
      /\ old.ourBalance \in Int /\ old.theirBalance \in Int
  <2>1. L \in FinSub(AnyEntry) /\ R \in FinSub(AnyEntry)
    BY DEF AnyMemory, AnyLog
  <2> QED
    BY <1>0, <2>1, CommitIndices, UpsType DEF FinSub, AnyCommit
<1>2. /\ ~v.err /\ c = NextCommitment(v, h + 1, a, ka, b, kb)
  BY <1>0, CommitmentIs DEF NewCommitment
<1>3. ParentsMarked(L, R, b, chain) /\ ParentsMarked(R, L, a, chain)
  BY <1>2, ViewIs
<1>4. /\ v.ourBalance = old.ourBalance + ourSettles + theirFails - ourAdds
      /\ v.theirBalance = old.theirBalance + theirSettles + ourFails - theirAdds
  BY <1>0, BalancesAre
<1>5. c.ourBalance = v.ourBalance /\ c.theirBalance = v.theirBalance
  <2> HIDE DEF v, h
  <2> QED
    BY <1>2 DEF NextCommitment
<1>6. NextOK(m, r.mem, chain, old, c, a, b)
  BY NextIs
<1>7. SumAmt(c.outgoing) = out /\ SumAmt(c.incoming) = in
  <2>1. CommitOK(c, U, V) /\ c.ourMessageIndex = a /\ c.theirMessageIndex = b
    BY <1>6 DEF NextOK
  <2> HIDE DEF c
  <2>2. c.outgoing = HtlcsOf(Live(U, V, a, b)) /\ c.incoming = HtlcsOf(Live(V, U, b, a))
    BY <2>1 DEF CommitOK, HalfOK
  <2> QED
    BY <2>2
<1>8. SumAmt(old.outgoing) = oldOut /\ SumAmt(old.incoming) = oldIn
  <2>1. old.outgoing = HtlcsOf(Live(U, V, i, j)) /\ old.incoming = HtlcsOf(Live(V, U, j, i))
    BY DEF CommitOK, HalfOK
  <2> QED
    BY <2>1
<1> HIDE DEF v, view, c
<1>9. Parents(U, V, i, b) /\ Parents(V, U, j, a)
  <2>1. Parents(Ups(L), Ups(R), i, b)
    <3> HIDE DEF L, R, h, i, j
    <3>1. Entries(L) /\ Distinct(Ups(L), n, k) /\ i <= a /\ Marked(L, chain, i, h, i, h)
      BY <1>0 DEF L, h, i
    <3> QED
      BY <1>0, <1>1, <1>3, <3>1, ViewHalf
  <2>2. Parents(Ups(R), Ups(L), j, a)
    <3> HIDE DEF L, R, h, i, j
    <3>1. Entries(R) /\ Distinct(Ups(R), nV, kV) /\ j <= b /\ Marked(R, chain, j, h, j, h)
      BY <1>0 DEF R, h, j
    <3> QED
      BY <1>0, <1>1, <1>3, <3>1, ViewHalf
  <2> QED
    BY <2>1, <2>2
<1>10. ourAdds = SumAmt(Joined(U, i, a)) /\ theirAdds = SumAmt(Joined(V, j, b))
  <2> HIDE DEF L, R, h, i, j
  <2>1. /\ Entries(L) /\ Distinct(Ups(L), n, k) /\ i <= a /\ Marked(L, chain, i, h, i, h)
        /\ Entries(R) /\ Distinct(Ups(R), nV, kV) /\ j <= b /\ Marked(R, chain, j, h, j, h)
    BY <1>0 DEF L, R, h, i, j
  <2>2. ourAdds = SumAmt(Joined(U, i, a))
    BY <1>0, <1>1, <1>3, <2>1, NewAddsAre
  <2>3. theirAdds = SumAmt(Joined(V, j, b))
    BY <1>0, <1>1, <1>3, <2>1, NewAddsAre
  <2> QED
    BY <2>2, <2>3
<1>11. /\ ourSettles \in Nat /\ ourFails \in Nat /\ ourSettles + ourFails = SumAmt(Taken(U, i, a))
       /\ theirSettles \in Nat /\ theirFails \in Nat
       /\ theirSettles + theirFails = SumAmt(Taken(V, j, b))
  <2> HIDE DEF L, R, h, i, j
  <2>1. /\ Entries(L) /\ Marked(L, chain, i, h, i, h)
        /\ Entries(R) /\ Marked(R, chain, j, h, j, h)
    BY <1>0 DEF L, R, h, i, j
  <2>2. /\ ourSettles \in Nat /\ ourFails \in Nat /\ ourSettles + ourFails = SumAmt(Taken(U, i, a))
    BY <1>0, <1>1, <2>1, NewRemovalsAre
  <2>3. /\ theirSettles \in Nat /\ theirFails \in Nat
        /\ theirSettles + theirFails = SumAmt(Taken(V, j, b))
    BY <1>0, <1>1, <2>1, NewRemovalsAre
  <2> QED
    BY <2>2, <2>3
<1>12. /\ Answers(V, U) /\ Answers(U, V) /\ Distinct(U, n, k) /\ Distinct(V, nV, kV) /\ i <= a /\ j <= b
  BY <1>0
<1> HIDE DEF L, R, U, V, h, i, j, ourSettles, ourFails, theirSettles, theirFails, ourAdds, theirAdds
<1>13. /\ out + SumAmt(Taken(V, j, b)) = oldOut + SumAmt(Joined(U, i, a))
       /\ out \in Nat /\ oldOut \in Nat /\ SumAmt(Joined(U, i, a)) \in Nat
  BY <1>0, <1>1, <1>9, <1>12, HalfWorth
<1>14. /\ in + SumAmt(Taken(U, i, a)) = oldIn + SumAmt(Joined(V, j, b))
       /\ in \in Nat /\ oldIn \in Nat /\ SumAmt(Joined(V, j, b)) \in Nat
  BY <1>0, <1>1, <1>9, <1>12, HalfWorth
<1> HIDE DEF out, in, oldOut, oldIn
<1>15. Worth(c) = Worth(old)
  <2>1. /\ Worth(c) = c.ourBalance + c.theirBalance + out + in
        /\ Worth(old) = old.ourBalance + old.theirBalance + oldOut + oldIn
    BY <1>7, <1>8 DEF Worth
  <2> QED
    BY <1>1, <1>4, <1>5, <1>10, <1>11, <1>13, <1>14, <2>1
<1> QED
  BY <1>5, <1>15 DEF v, view, c

LEMMA SignPays ==
    ASSUME NEW m, NEW d, PartyLogs(m, d), NEW t, Sound(d, t),
           NEW s, s = SignNextCommitment(m, d), s.err = "none"
    PROVE  Sound(s.disk, t)
<1> DEFINE view == SignView(m, d)
           n == m.localLog.logIndex
           k == m.localLog.htlcCounter
           nV == m.remoteLog.logIndex
           kV == m.remoteLog.htlcCounter
           b == d.local.theirMessageIndex
           kb == d.local.theirHtlcIndex
           U == Ups(m.localLog.entries)
           V == Ups(m.remoteLog.entries)
           v == evaluateHTLCView(m, fetchHTLCView(m, b, n, {}, {}), "remote")
           T == createCommitDiff(view.mem, view.commit)
<1>1. m \in AnyMemory /\ d \in AnyDisk /\ ChainsOf(m, d)
  BY DEF PartyLogs
<1>2. IsSigned(m, d, view, s)
  BY <1>1, SignedIs
<1>3. view = fetchCommitmentView(m, "remote", n, k, b, kb)
  BY DEF SignView
<1> HIDE DEF view
<1>4. /\ d.pending = <<>> /\ view.ok /\ view.commit \in AnyCommit
      /\ WithinConstraints(v, d.remote)
      /\ s.disk = [d EXCEPT !.lastWasRevoke = FALSE, !.pending = <<[commit |-> view.commit, updates |-> T]>>]
      /\ s.disk \in AnyDisk
  BY <1>2 DEF IsSigned
<1>5. Extends(m, "remote", d.remote, n, b, n, k, nV, kV)
  BY <1>4, SignExtends
<1>6. Answers(U, V) /\ Answers(V, U) /\ CommitOK(d.remote, U, V)
  <2>1. UpdatesInv(U, n, k, V, nV, kV, d)
    BY PartyUpdates
  <2> QED
    BY <2>1 DEF UpdatesInv, CommitsOK
<1>7. /\ Worth(view.commit) = Worth(d.remote)
      /\ view.commit.ourBalance = v.ourBalance /\ view.commit.theirBalance = v.theirBalance
  <2> HIDE DEF n, k, nV, kV, b, kb
  <2>1. "remote" \in Chains
    BY DEF Chains
  <2> QED
    BY <1>1, <1>3, <1>4, <1>5, <1>6, <2>1, NextWorth
<1>8. ~Asset => v.ourBalance >= 0 /\ v.theirBalance >= 0
  <2> HIDE DEF v
  <2> QED
    BY <1>4 DEF WithinConstraints
<1>9. Pays(d.remote, t) /\ Pays(d.local, t)
  BY DEF Sound, Held
<1> HIDE DEF v, T
<1>10. Pays(view.commit, t)
  BY <1>7, <1>8, <1>9 DEF Pays
<1>11. s.disk.local = d.local /\ s.disk.remote = d.remote /\ Tip(s.disk) = view.commit
  <2>1. d \in [local : AnyCommit, remote : AnyCommit,
               pending : {<<>>} \union {<<x>> : x \in AnyPending}, lastWasRevoke : BOOLEAN,
               unsignedAcked : FinSub(AnyUpdate), ackedStored : BOOLEAN,
               remoteUnsignedLocal : FinSub(AnyUpdate), fwdPkgs : SUBSET AnyPackage]
    BY <1>1 DEF AnyDisk
  <2> QED
    BY <1>4, <2>1 DEF Tip
<1> QED
  BY <1>9, <1>10, <1>11 DEF Sound, Held

LEMMA RevokePays ==
    ASSUME NEW m, NEW d, PartyLogs(m, d), NEW t, Sound(d, t),
           NEW r, IsRevoked(m, d, RevokeView(m, d), r)
    PROVE  Sound(r.disk, t)
<1> DEFINE view == RevokeView(m, d)
           n == m.localLog.logIndex
           k == m.localLog.htlcCounter
           nV == m.remoteLog.logIndex
           kV == m.remoteLog.htlcCounter
           a == d.remote.ourMessageIndex
           ka == d.remote.ourHtlcIndex
           U == Ups(m.localLog.entries)
           V == Ups(m.remoteLog.entries)
           v == evaluateHTLCView(m, fetchHTLCView(m, nV, a, {}, {}), "local")
<1>1. m \in AnyMemory /\ d \in AnyDisk /\ ChainsOf(m, d)
  BY DEF PartyLogs
<1>3. view = fetchCommitmentView(m, "local", a, ka, nV, kV)
  BY DEF RevokeView
<1> HIDE DEF view
<1>4. /\ view.ok /\ view.commit \in AnyCommit /\ WithinConstraints(v, d.local)
      /\ r.disk.local = view.commit /\ r.disk.remote = d.remote /\ r.disk.pending = d.pending
  BY DEF IsRevoked, view
<1>5. Extends(m, "local", d.local, a, nV, n, k, nV, kV)
  BY RevokeExtends
<1>6. Answers(U, V) /\ Answers(V, U) /\ CommitOK(d.local, U, V)
  <2>1. UpdatesInv(U, n, k, V, nV, kV, d)
    BY PartyUpdates
  <2> QED
    BY <2>1 DEF UpdatesInv, CommitsOK
<1>7. /\ Worth(view.commit) = Worth(d.local)
      /\ view.commit.ourBalance = v.ourBalance /\ view.commit.theirBalance = v.theirBalance
  <2> HIDE DEF n, k, nV, kV, a, ka
  <2>1. "local" \in Chains
    BY DEF Chains
  <2> QED
    BY <1>1, <1>3, <1>4, <1>5, <1>6, <2>1, NextWorth
<1>8. ~Asset => v.ourBalance >= 0 /\ v.theirBalance >= 0
  <2> HIDE DEF v
  <2> QED
    BY <1>4 DEF WithinConstraints
<1>9. Pays(d.remote, t) /\ Pays(d.local, t) /\ Pays(Tip(d), t)
  BY DEF Sound, Held
<1> HIDE DEF v
<1>10. Pays(view.commit, t)
  BY <1>7, <1>8, <1>9 DEF Pays
<1>11. Tip(r.disk) = Tip(d)
  BY <1>4 DEF Tip
<1> QED
  BY <1>4, <1>9, <1>10, <1>11 DEF Sound, Held

LEMMA KindPays ==
    ASSUME Good, NEW p \in Party, StepKind(p), NEW t, Sound(disk[p], t)
    PROVE  Sound(disk'[p], t)
<1>1. PartyLogs(mem[p], disk[p]) /\ DOMAIN mem = Party /\ DOMAIN disk = Party
  BY GoodFacts
<1>2. \A m, x : Moves(p, m, x) => disk'[p] = x
  BY <1>1 DEF Moves
<1>3. ASSUME NEW s, Signs(p, s) PROVE Sound(disk'[p], t)
  BY <1>1, <1>2, <1>3, SignPays DEF Signs
<1>4. ASSUME NEW r, Revokes(p, r) PROVE Sound(disk'[p], t)
  BY <1>1, <1>2, <1>4, RevokePays DEF Revokes
<1>5. ASSUME NEW r, Advances(p, r) PROVE Sound(disk'[p], t)
  <2>1. disk'[p] = r.disk /\ IsAdvanced(mem[p], disk[p], r)
    BY <1>2, <1>5 DEF Advances
  <2>2. r.disk.local = disk[p].local /\ r.disk.remote = Tip(disk[p]) /\ r.disk.pending = <<>>
    BY <2>1 DEF IsAdvanced
  <2>3. Tip(r.disk) = Tip(disk[p])
    BY <2>2 DEF Tip
  <2> QED
    BY <2>1, <2>2, <2>3 DEF Sound, Held
<1>6. ASSUME \/ \E m, u : OursGrow(p, m, u) \/ TheirsGrow(p, m, u)
             \/ Waits(p)
      PROVE  Sound(disk'[p], t)
  <2>1. disk'[p] = disk[p]
    BY <1>2, <1>6 DEF OursGrow, TheirsGrow, Waits
  <2> QED
    BY <2>1
<1> QED
  BY <1>3, <1>4, <1>5, <1>6 DEF StepKind

LEMMA InitFunded == Init => Funded
<1> SUFFICES ASSUME Init PROVE Funded
  OBVIOUS
<1>1. Good
  BY InitGood
<1>2. ASSUME NEW p \in Party PROVE Sound(disk[p], Funds(p))
  <2> DEFINE d == FirstDisk(p)
             c == FirstCommit(p, Other(p))
  <2>1. disk[p] = d /\ d.local = c /\ d.remote = c /\ Tip(d) = c
    BY DEF Init, FirstDisk, Tip
  <2>2. /\ c.ourBalance = Balance[p] /\ c.theirBalance = Balance[Other(p)]
        /\ c.outgoing = {} /\ c.incoming = {}
    BY DEF FirstCommit
  <2>3. Balance[p] \in Nat /\ Balance[Other(p)] \in Nat
    BY ChannelAssumption, PartyFacts
  <2>4. SumAmt({}) = 0
    <3>1. Amounted({})
      BY FS_EmptySet DEF Amounted
    <3>2. SumAmt({}) = Total([e \in {} |-> e.amt], {})
      BY <3>1, SumAmtIs
    <3> QED
      BY <3>2, TotalEmpty
  <2> HIDE DEF c, d
  <2>5. Pays(c, Funds(p))
    BY <2>2, <2>3, <2>4 DEF Pays, Worth, Funds
  <2> QED
    BY <2>1, <2>5 DEF Sound, Held
<1> QED
  BY <1>1, <1>2 DEF Funded

LEMMA NextFunded == Funded /\ [Next]_vars => Funded'
<1> SUFFICES ASSUME Funded, [Next]_vars PROVE Funded'
  OBVIOUS
<1>1. Good /\ Good'
  BY NextGood DEF Funded
<1>2. ASSUME NEW p \in Party PROVE Sound(disk'[p], Funds(p))
  <2>1. Sound(disk[p], Funds(p))
    BY DEF Funded
  <2>2. ASSUME NEW q \in Party, LinkStep(q) \/ UserStep(q) PROVE Sound(disk'[p], Funds(p))
    <3>1. StepKind(q)
      BY <1>1, <2>2, StepIsKind
    <3>2. CASE q = p
      BY <1>1, <2>1, <3>1, <3>2, KindPays
    <3>3. CASE q # p
      BY <1>1, <2>1, <3>1, <3>3, KindOthers
    <3> QED
      BY <3>2, <3>3
  <2>3. CASE Reconnect
    BY <2>1, <2>3 DEF Reconnect
  <2>4. CASE UNCHANGED vars
    BY <2>1, <2>4 DEF vars
  <2> QED
    BY <2>2, <2>3, <2>4 DEF Next
<1> QED
  BY <1>1, <1>2 DEF Funded

LEMMA AlwaysFunded == Spec => []Funded
BY InitFunded, NextFunded, PTL DEF Spec

\* The commitments of a party in memory are those it has on disk.
LEMMA InMemoryIs ==
    ASSUME Good, NEW p \in Party
    PROVE  Range(mem[p].localChain) \union Range(mem[p].remoteChain) \subseteq Held(disk[p])
<1> DEFINE d == disk[p]
           m == mem[p]
<1>1. m \in AnyMemory /\ d \in AnyDisk /\ ChainsOf(m, d)
  BY GoodFacts
<1> HIDE DEF d, m
<1>2. m.localChain = <<d.local>> /\ m.remoteChain = RemoteChain(d)
  BY <1>1 DEF ChainsOf
<1>3. Range(m.localChain) \subseteq Held(d)
  BY <1>2 DEF Range, Held
<1>4. Range(m.remoteChain) \subseteq Held(d)
  <2>1. CASE d.pending = <<>>
    <3>1. m.remoteChain = <<d.remote>>
      BY <1>1, <2>1, ChainFacts
    <3> QED
      BY <3>1 DEF Range, Held
  <2>2. CASE d.pending # <<>>
    <3>1. PICK x \in AnyPending : d.pending = <<x>>
      BY <1>1, <2>2 DEF AnyDisk
    <3>2. m.remoteChain = <<d.remote, Tip(d)>>
      BY <1>2, <2>2, <3>1 DEF RemoteChain, Tip
    <3> QED
      BY <3>2 DEF Range, Held
  <2> QED
    BY <2>1, <2>2
<1> QED
  BY <1>3, <1>4 DEF d, m

\* evaluateHTLCView credits and debits exactly what enters and leaves a commitment, in a
\* channel of any kind and across any breaks, restores and retransmissions.
THEOREM WorthConservedAlways == Spec => []WorthConserved
<1>1. ASSUME Funded PROVE WorthConserved
  <2>1. \A p \in Party : OnDisk(p) \union Range(mem[p].localChain) \union Range(mem[p].remoteChain)
                             \subseteq Held(disk[p])
    BY <1>1, OnDiskIs, InMemoryIs DEF Funded
  <2> QED
    BY <1>1, <2>1 DEF Funded, Sound, Pays, Funds, WorthConserved
<1> QED
  BY <1>1, AlwaysFunded, PTL

\* No commitment of a BTC channel creates or loses money, and none gives a party less than
\* nothing: the validation of each new commitment refuses an overdrawn one.
THEOREM BalanceConservedAlways == ~Asset => (Spec => []BalanceConserved)
<1> SUFFICES ASSUME ~Asset PROVE Spec => []BalanceConserved
  OBVIOUS
<1>1. ASSUME Funded PROVE BalanceConserved
  <2>1. \A p \in Party : OnDisk(p) \union Range(mem[p].localChain) \union Range(mem[p].remoteChain)
                             \subseteq Held(disk[p])
    BY <1>1, OnDiskIs, InMemoryIs DEF Funded
  <2>2. \A p \in Party : \A c \in Held(disk[p]) :
            /\ c.ourBalance >= 0 /\ c.theirBalance >= 0
            /\ Worth(c) = Balance[p] + Balance[Other(p)]
    BY <1>1 DEF Funded, Sound, Pays, Funds
  <2>3. BalancesNotNegative
    BY <2>1, <2>2 DEF BalancesNotNegative
  <2> QED
    BY <2>1, <2>2, <2>3 DEF BalanceConserved, Worth
<1> QED
  BY <1>1, AlwaysFunded, PTL
=============================================================================
