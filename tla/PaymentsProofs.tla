--------------------------- MODULE PaymentsProofs ---------------------------
(***************************************************************************)
(* Proofs about Payments, for any amount and any number of attempts, tries  *)
(* and restarts.  PaymentInv holds for any number of callers and whatever    *)
(* links do: settled attempts stay, results are kept, and the attempts the   *)
(* record counts never exceed the amount.  SoleInv needs what the router     *)
(* relies on: one goroutine runs the payment at a time and a link that adds  *)
(* a local HTLC answers; then what the network can claim is in the record,   *)
(* so the receiver never gets more than the amount, and the loop never gives *)
(* up on a payment that could go on.                                         *)
(***************************************************************************)
EXTENDS Payments, SumTheorems

Recorded == InFlightHTLCs \cup Settled

\* The record: nothing in it before the payment is known, and its attempts
\* never exceed the amount.
RecordInv ==
  /\ known \/ (~failInfo /\ \A id \in Ids : htlc[id] = "none")
  /\ SentAmt <= Amount

\* Nothing is known of an id the sequencer has not handed out.
FreshInv ==
  \A id \in Ids : id >= nextId =>
     /\ wire[id] = "none" /\ result[id] = "none" /\ htlc[id] = "none"
     /\ id \notin circuit /\ \A l \in Lives : shard[l][id] = "none"

\* A goroutine is launching the attempt life[l].cur.
Launching(l) == life[l].pc \in {"register", "send", "add"}

\* An attempt that is being launched is not in the network yet, and belongs to
\* one goroutine.
LaunchInv ==
  /\ \A l \in Lives : Launching(l) =>
       /\ life[l].cur \in Ids /\ life[l].cur < nextId
       /\ wire[life[l].cur] = "none" /\ result[life[l].cur] = "none"
       /\ life[l].pc = "register" => htlc[life[l].cur] = "none"
       /\ life[l].pc = "add" => life[l].cur \in circuit
  /\ \A l, m \in Lives : Launching(l) /\ Launching(m) /\ l # m =>
       life[l].cur # life[m].cur

\* A stored result is the answer of the network, and the answer to an attempt in
\* flight is stored before its circuit goes.
ResultInv ==
  /\ \A id \in Ids : result[id] # "none" => result[id] = wire[id]
  /\ \A id \in Ids : htlc[id] = "inflight" /\ wire[id] # "none" =>
       id \in circuit \/ result[id] = wire[id]

PaymentInv == TypeOK /\ RecordInv /\ FreshInv /\ LaunchInv /\ ResultInv

\* One goroutine runs the payment, and links answer.
Sole == (\A l, m \in Lives : l = m) /\ Answers \subseteq {TRUE}

\* What the network can claim, or may come to, is in the record.
ClaimInv ==
  /\ \A id \in Ids : wire[id] \in {"added", "signed", "settle"} =>
       htlc[id] \in {"inflight", "settled"}
  /\ \A l \in Lives : Launching(l) => shard[l][life[l].cur] = "none"
  /\ \A l \in Lives : life[l].pc \in {"send", "add"} => htlc[life[l].cur] = "inflight"
  /\ \A l \in Lives : life[l].pc = "failAttempt" =>
       /\ life[l].cur \in Ids /\ wire[life[l].cur] = "none"
       /\ htlc[life[l].cur] = "inflight" /\ shard[l][life[l].cur] = "none"
  /\ \A l \in Lives, id \in Ids :
       shard[l][id] \in {"collect", "await"} => htlc[id] = "inflight"

\* What the goroutine and its collectors know of the record while they run.
LoopInv ==
  /\ \A l \in Lives : life[l].pc # "idle" => known
  /\ \A l \in Lives, id \in Ids : shard[l][id] # "none" => known
  /\ \A l \in Lives, id \in Ids : shard[l][id] = "error" => failInfo
  /\ \A l \in Lives : life[l].pc = "idle" => \A id \in Ids : shard[l][id] = "none"
  /\ \A l \in Lives : life[l].pc = "launch" => SentAmt + life[l].remaining <= Amount
  /\ \A l \in Lives : life[l].pc = "register" => SentAmt + amt[life[l].cur] <= Amount

SoleInv == ClaimInv /\ LoopInv
-----------------------------------------------------------------------------
(* Sums of attempts. *)

LEMMA IdsFinite == /\ IsFiniteSet(Ids) /\ \A id \in Ids : id \in Nat
                   /\ \A S \in SUBSET Ids : /\ Cardinality(S) \in 0 .. MaxAttempts
                                            /\ IsFiniteSet(S)
<1>1. MaxAttempts \in Nat
  BY PaymentsAssumption
<1>2. IsFiniteSet(Ids) /\ Cardinality(Ids) = MaxAttempts
  BY <1>1, FS_Interval DEF Ids
<1>3. \A S \in SUBSET Ids : Cardinality(S) \in Nat /\ Cardinality(S) <= MaxAttempts
                            /\ IsFiniteSet(S)
  BY <1>2, Subsets
<1> QED
  BY <1>1, <1>2, <1>3 DEF Ids

LEMMA SentAmtNow == SentAmt = Total(amt, Recorded)
BY DEF SentAmt, SumOf, Total, Recorded

LEMMA SentAmtIsTotal == /\ SentAmt = Total(amt, Recorded)
                        /\ SentAmt' = Total(amt', Recorded')
<1>1. (SentAmt = Total(amt, Recorded))'
  BY SentAmtNow, PTL
<1> QED
  BY <1>1, SentAmtNow

LEMMA RecordedFacts ==
  ASSUME TypeOK
  PROVE  /\ Recorded = {id \in Ids : htlc[id] \in {"inflight", "settled"}}
         /\ \A id \in Ids : amt[id] \in Nat
         /\ \A S \in SUBSET Ids : Total(amt, S) \in Nat
         /\ SentAmt \in Nat /\ Amount \in Nat
<1>1. Recorded = {id \in Ids : htlc[id] \in {"inflight", "settled"}}
  BY DEF Recorded, InFlightHTLCs, Settled
<1>2. Amount \in Nat /\ \A id \in Ids : amt[id] \in Nat
  BY PaymentsAssumption DEF TypeOK
<1>3. \A S \in SUBSET Ids : Total(amt, S) \in Nat
  BY <1>2, IdsFinite, TotalType
<1>4. SentAmt \in Nat
  BY <1>1, <1>3, SentAmtIsTotal
<1> QED
  BY <1>1, <1>2, <1>3, <1>4

\* The amount sent is the same while the record and the amounts are.
LEMMA SentAmtSame ==
  ASSUME UNCHANGED <<htlc, amt>>
  PROVE  /\ SentAmt' = SentAmt
         /\ InFlightHTLCs' = InFlightHTLCs /\ Settled' = Settled
<1>1. InFlightHTLCs' = InFlightHTLCs /\ Settled' = Settled
  BY DEF InFlightHTLCs, Settled
<1>2. Recorded' = Recorded
  BY <1>1 DEF Recorded
<1> QED
  BY <1>1, <1>2, SentAmtIsTotal

\* It does not grow while no attempt enters the record.
LEMMA SentAmtShrinks ==
  ASSUME TypeOK, UNCHANGED amt, htlc' \in [Ids -> {"none", "inflight", "settled", "failed"}],
         \A id \in Ids : htlc'[id] \in {"inflight", "settled"} =>
                         htlc[id] \in {"inflight", "settled"}
  PROVE  SentAmt' <= SentAmt /\ SentAmt' \in Nat
<1>1. Recorded' = {id \in Ids : htlc'[id] \in {"inflight", "settled"}}
  BY DEF Recorded, InFlightHTLCs, Settled
<1>2. Recorded' \in SUBSET Recorded /\ Recorded \in SUBSET Ids /\ Recorded' \in SUBSET Ids
  BY <1>1, RecordedFacts
<1>3. Total(amt, Recorded') <= Total(amt, Recorded)
  BY <1>2, IdsFinite, RecordedFacts, TotalMonotone
<1>4. Total(amt, Recorded') \in Nat
  BY <1>2, RecordedFacts
<1> QED
  BY <1>3, <1>4, SentAmtIsTotal

-----------------------------------------------------------------------------
(* The goroutine of the loop. *)

Pcs == {"idle", "resume", "check", "fetch", "wait", "launch", "register", "send",
        "add", "failAttempt", "sendError", "exit"}

LEMMA LifeFields ==
  ASSUME TypeOK, NEW l \in Lives
  PROVE  /\ life[l] \in Lifecycle /\ life[l].pc \in Pcs
         /\ life[l].inflight \in 0 .. MaxAttempts /\ life[l].remaining \in 0 .. Amount
         /\ life[l].cur \in 0 .. MaxAttempts /\ life[l].err \in {"none", "link", "internal"}
         /\ life[l].empty \in BOOLEAN /\ life[l].timedOut \in BOOLEAN
BY DEF TypeOK, Lifecycle, Pcs

LEMMA DeadType == Dead \in Lifecycle /\ Dead.pc = "idle"
BY PaymentsAssumption DEF Dead, Lifecycle

LEMMA GotoFacts ==
  ASSUME TypeOK, NEW l \in Lives, NEW pc \in Pcs, Goto(l, pc)
  PROVE  /\ life' \in [Lives -> Lifecycle]
         /\ \A m \in Lives : m # l => life'[m] = life[m]
         /\ life'[l].pc = pc /\ life'[l].cur = life[l].cur
         /\ life'[l].remaining = life[l].remaining
BY LifeFields DEF Goto, TypeOK, Lifecycle, Pcs

LEMMA EndRoundFacts ==
  ASSUME TypeOK, NEW l \in Lives, NEW pc \in Pcs, EndRound(l, pc)
  PROVE  /\ life' \in [Lives -> Lifecycle]
         /\ \A m \in Lives : m # l => life'[m] = life[m]
         /\ life'[l].pc = pc
<1> DEFINE new == [Dead EXCEPT !.pc = pc, !.empty = life[l].empty,
                               !.timedOut = life[l].timedOut]
<1>1. new \in Lifecycle /\ new.pc = pc
  BY LifeFields, DeadType DEF Lifecycle, Pcs
<1>2. life' = [life EXCEPT ![l] = new]
  BY DEF EndRound
<1> HIDE DEF new
<1> QED
  BY <1>1, <1>2 DEF TypeOK

LEMMA SendFailsFacts ==
  ASSUME TypeOK, NEW l \in Lives, NEW err \in {"link", "internal"}, SendFails(l, err)
  PROVE  /\ life' \in [Lives -> Lifecycle]
         /\ \A m \in Lives : m # l => life'[m] = life[m]
         /\ life'[l].pc = "failAttempt" /\ life'[l].cur = life[l].cur
<1> DEFINE new == [life[l] EXCEPT !.pc = "failAttempt", !.err = err]
<1>1. new \in Lifecycle /\ new.pc = "failAttempt" /\ new.cur = life[l].cur
  BY LifeFields DEF Lifecycle, Pcs
<1>2. life' = [life EXCEPT ![l] = new]
  BY DEF SendFails, TypeOK
<1> HIDE DEF new
<1> QED
  BY <1>1, <1>2 DEF TypeOK

\* UpdateHtlc moves an attempt out of flight and touches no other.
LEMMA UpdateHtlcFacts ==
  ASSUME TypeOK, NEW id \in Ids, NEW outcome \in {"settled", "failed"},
         UpdateHtlc(id, outcome)
  PROVE  /\ htlc' \in [Ids -> {"none", "inflight", "settled", "failed"}]
         /\ \A j \in Ids : j # id => htlc'[j] = htlc[j]
         /\ MayUpdate(id) => htlc[id] = "inflight" /\ htlc'[id] = outcome
         /\ ~MayUpdate(id) => htlc' = htlc
BY DEF UpdateHtlc, MayUpdate, TypeOK
-----------------------------------------------------------------------------
(* PaymentInv is inductive. *)

HtlcStates == {"none", "inflight", "settled", "failed"}
ShardStates == {"none", "collect", "await", "internal", "link", "done", "error"}

\* The loop and the collectors, as long as they launch nothing: attempts leave
\* the flight or the record, and collectors belong to attempts handed out.
LEMMA ControlStep ==
  ASSUME PaymentInv,
         UNCHANGED <<nextId, circuit, result, wire, amt, restarts>>,
         tries' \in 0 .. MaxTries, known' \in BOOLEAN, failInfo' \in BOOLEAN,
         htlc' \in [Ids -> HtlcStates], life' \in [Lives -> Lifecycle],
         shard' \in [Lives -> [Ids -> ShardStates]],
         known' \/ (~failInfo' /\ \A id \in Ids : htlc'[id] = "none"),
         \A id \in Ids : \/ htlc'[id] = htlc[id] \/ htlc'[id] = "none"
                         \/ htlc[id] = "inflight" /\ htlc'[id] \in {"settled", "failed"},
         \A m \in Lives : life'[m] = life[m] \/ ~Launching(m)',
         \A m \in Lives, id \in Ids :
            shard'[m][id] = "none" \/ shard[m][id] # "none" \/ htlc[id] # "none"
  PROVE  PaymentInv'
<1>1. TypeOK /\ RecordInv /\ FreshInv /\ LaunchInv /\ ResultInv
  BY DEF PaymentInv
<1>2. TypeOK'
  BY <1>1 DEF TypeOK, HtlcStates, ShardStates
<1>3. RecordInv'
  <2>1. SentAmt' <= SentAmt /\ SentAmt' \in Nat
    BY <1>1, SentAmtShrinks DEF HtlcStates
  <2>2. SentAmt <= Amount /\ SentAmt \in Nat /\ Amount \in Nat
    BY <1>1, RecordedFacts DEF RecordInv
  <2>3. SentAmt' <= Amount
    BY <2>1, <2>2
  <2> QED
    BY <2>3 DEF RecordInv
<1>4. FreshInv'
  BY <1>1 DEF FreshInv
<1>5. LaunchInv'
  <2>1. \A m \in Lives : Launching(m)' => life'[m] = life[m] /\ Launching(m)
    BY DEF Launching
  <2>2. \A l \in Lives : Launching(l)' =>
          /\ life'[l].cur \in Ids /\ life'[l].cur < nextId'
          /\ wire'[life'[l].cur] = "none" /\ result'[life'[l].cur] = "none"
          /\ life'[l].pc = "register" => htlc'[life'[l].cur] = "none"
          /\ life'[l].pc = "add" => life'[l].cur \in circuit'
    BY <1>1, <2>1 DEF LaunchInv
  <2>3. \A l, m \in Lives : Launching(l)' /\ Launching(m)' /\ l # m =>
          life'[l].cur # life'[m].cur
    BY <1>1, <2>1 DEF LaunchInv
  <2> QED
    BY <2>2, <2>3 DEF LaunchInv
<1>6. ResultInv'
  BY <1>1 DEF ResultInv
<1> QED
  BY <1>2, <1>3, <1>4, <1>5, <1>6 DEF PaymentInv

\* The channel and the switch: nothing happens to what is not in the channel.
LEMMA NetworkStep ==
  ASSUME PaymentInv,
         UNCHANGED <<known, htlc, failInfo, nextId, life, shard, amt, tries, restarts>>,
         wire' \in [Ids -> {"none", "added", "signed", "settle", "fail"}],
         result' \in [Ids -> {"none", "settle", "fail"}],
         circuit' \subseteq circuit,
         \A id \in Ids : wire[id] = "none" =>
            /\ wire'[id] = "none" /\ result'[id] = "none"
            /\ id \in circuit => id \in circuit',
         ResultInv'
  PROVE  PaymentInv'
<1>1. TypeOK /\ RecordInv /\ FreshInv /\ LaunchInv
  BY DEF PaymentInv
<1>2. TypeOK'
  BY <1>1 DEF TypeOK
<1>3. RecordInv'
  BY <1>1, SentAmtSame DEF RecordInv
<1>4. FreshInv'
  BY <1>1 DEF FreshInv
<1>5. LaunchInv'
  BY <1>1 DEF LaunchInv, Launching
<1> QED
  BY <1>2, <1>3, <1>4, <1>5 DEF PaymentInv
-----------------------------------------------------------------------------
(* With one goroutine: steps that leave the attempts and the channel alone. *)

LEMMA SoleControl ==
  ASSUME PaymentInv, SoleInv, Sole, NEW l \in Lives,
         UNCHANGED <<known, htlc, wire, amt>>, failInfo => failInfo',
         life'[l] = life[l] \/ ~Launching(l)',
         life'[l].pc = "failAttempt" =>
            life'[l].cur = life[l].cur /\ life[l].pc \in {"send", "add", "failAttempt"},
         life'[l].pc = "launch" => SentAmt + life'[l].remaining <= Amount,
         life'[l].pc # "idle" => known,
         life'[l].pc = "idle" => \A id \in Ids : shard'[l][id] = "none",
         \A id \in Ids :
            /\ shard'[l][id] # "none" =>
                 known /\ (shard[l][id] # "none" \/ life'[l].pc = "check")
            /\ shard'[l][id] = "error" => failInfo'
            /\ shard'[l][id] \in {"collect", "await"} => htlc[id] = "inflight"
  PROVE  SoleInv'
<1>1. \A m \in Lives : m = l
  BY DEF Sole
<1>2. SentAmt' = SentAmt /\ InFlightHTLCs' = InFlightHTLCs /\ Settled' = Settled
  BY SentAmtSame
<1>4. ClaimInv /\ LoopInv /\ LaunchInv
  BY DEF SoleInv, PaymentInv
<1>5. ClaimInv'
  <2>1. \A id \in Ids : wire'[id] \in {"added", "signed", "settle"} =>
          htlc'[id] \in {"inflight", "settled"}
    BY <1>4 DEF ClaimInv
  <2>2. Launching(l)' => /\ Launching(l) /\ life'[l] = life[l]
                         /\ life[l].cur \in Ids /\ shard'[l][life[l].cur] = "none"
    BY <1>4 DEF ClaimInv, LaunchInv, Launching
  <2>3. life'[l].pc \in {"send", "add"} => htlc'[life'[l].cur] = "inflight"
    BY <1>4, <2>2 DEF ClaimInv, Launching
  <2>4. life'[l].pc = "failAttempt" =>
          /\ life'[l].cur \in Ids /\ wire'[life'[l].cur] = "none"
          /\ htlc'[life'[l].cur] = "inflight" /\ shard'[l][life'[l].cur] = "none"
    BY <1>4 DEF ClaimInv, LaunchInv, Launching
  <2>5. \A id \in Ids : shard'[l][id] \in {"collect", "await"} => htlc'[id] = "inflight"
    OBVIOUS
  <2> QED
    BY <1>1, <2>1, <2>2, <2>3, <2>4, <2>5 DEF ClaimInv
<1>6. LoopInv'
  <2>1. life'[l].pc = "register" => SentAmt' + amt'[life'[l].cur] <= Amount
    BY <1>2, <1>4 DEF LoopInv, Launching
  <2>2. life'[l].pc = "launch" => SentAmt' + life'[l].remaining <= Amount
    BY <1>2
  <2> QED
    BY <1>1, <2>1, <2>2 DEF LoopInv
<1> QED
  BY <1>5, <1>6 DEF SoleInv
-----------------------------------------------------------------------------
(* One lemma per action of the loop. *)

LEMMA StepResume ==
  ASSUME PaymentInv, NEW l \in Lives, Resume(l)
  PROVE  PaymentInv' /\ (Sole /\ SoleInv => SoleInv')
<1>1. TypeOK /\ RecordInv /\ SentAmt \in Nat /\ Amount \in Nat
  BY RecordedFacts DEF PaymentInv
<1>2. ~(SentAmt > Amount)
  BY <1>1 DEF RecordInv
<1>3. /\ UNCHANGED <<known, htlc, failInfo, nextId, circuit, result, wire, amt, tries, restarts>>
      /\ life[l].pc = "resume" /\ EndRound(l, "check")
      /\ shard' = [shard EXCEPT ![l] =
               [id \in Ids |-> IF id \in InFlightHTLCs THEN "collect" ELSE "none"]]
  BY <1>2 DEF Resume, bucket, switch
<1>4. /\ life' \in [Lives -> Lifecycle]
      /\ \A m \in Lives : m # l => life'[m] = life[m]
      /\ life'[l].pc = "check"
  BY <1>1, <1>3, EndRoundFacts DEF Pcs
<1>5. /\ shard' \in [Lives -> [Ids -> ShardStates]]
      /\ \A m \in Lives : m # l => shard'[m] = shard[m]
      /\ \A id \in Ids : shard'[l][id] = IF htlc[id] = "inflight" THEN "collect" ELSE "none"
  BY <1>1, <1>3 DEF TypeOK, ShardStates, InFlightHTLCs
<1>6. PaymentInv'
  BY <1>1, <1>3, <1>4, <1>5, ControlStep DEF TypeOK, HtlcStates, RecordInv, Launching
<1>7. ASSUME Sole, SoleInv PROVE SoleInv'
  <2>1. known
    BY <1>3, <1>7 DEF SoleInv, LoopInv
  <2> QED
    BY <1>3, <1>4, <1>5, <1>7, <2>1, SoleControl DEF Launching
<1> QED
  BY <1>6, <1>7

LEMMA StepCheckShards ==
  ASSUME PaymentInv, NEW l \in Lives, CheckShards(l)
  PROVE  PaymentInv' /\ (Sole /\ SoleInv => SoleInv')
<1>1. TypeOK /\ RecordInv
  BY DEF PaymentInv
<1>2. /\ UNCHANGED <<known, htlc, failInfo, nextId, circuit, result, wire, amt, tries, restarts>>
      /\ life[l].pc = "check"
  BY DEF CheckShards, bucket, switch
<1>3. /\ life' \in [Lives -> Lifecycle]
      /\ \A m \in Lives : m # l => life'[m] = life[m]
      /\ life'[l].pc \in {"exit", "fetch"}
  <2>1. CASE \E id \in Ids : shard[l][id] = "error"
    BY <1>1, <2>1, EndRoundFacts DEF CheckShards, Pcs
  <2>2. CASE ~(\E id \in Ids : shard[l][id] = "error")
    BY <1>1, <2>2, GotoFacts DEF CheckShards, Pcs
  <2> QED
    BY <2>1, <2>2
<1>4. /\ shard' \in [Lives -> [Ids -> ShardStates]]
      /\ \A m \in Lives, id \in Ids : shard'[m][id] = "none" \/ shard'[m][id] = shard[m][id]
  <2> DEFINE new == [id \in Ids |-> IF shard[l][id] = "done" THEN "none" ELSE shard[l][id]]
  <2>1. shard' = shard \/ shard' = [shard EXCEPT ![l] = new]
    BY DEF CheckShards
  <2>2. /\ new \in [Ids -> ShardStates]
        /\ \A id \in Ids : new[id] = "none" \/ new[id] = shard[l][id]
    BY <1>1 DEF TypeOK, ShardStates
  <2>3. shard \in [Lives -> [Ids -> ShardStates]]
    BY <1>1 DEF TypeOK, ShardStates
  <2> HIDE DEF new
  <2> QED
    BY <2>1, <2>2, <2>3
<1>5. PaymentInv'
  BY <1>1, <1>2, <1>3, <1>4, ControlStep DEF TypeOK, HtlcStates, RecordInv, Launching
<1>6. ASSUME Sole, SoleInv PROVE SoleInv'
  <2>1. known
    BY <1>2, <1>6 DEF SoleInv, LoopInv
  <2>2. \A id \in Ids : /\ shard[l][id] = "error" => failInfo
                        /\ shard[l][id] \in {"collect", "await"} => htlc[id] = "inflight"
    BY <1>6 DEF SoleInv, LoopInv, ClaimInv
  <2> QED
    BY <1>2, <1>3, <1>4, <1>6, <2>1, <2>2, SoleControl DEF Launching
<1> QED
  BY <1>5, <1>6

LEMMA StepFetchPaymentState ==
  ASSUME PaymentInv, NEW l \in Lives, FetchPaymentState(l)
  PROVE  PaymentInv' /\ (Sole /\ SoleInv => SoleInv')
<1>1. TypeOK /\ RecordInv /\ SentAmt \in Nat /\ Amount \in Nat
  BY RecordedFacts DEF PaymentInv
<1>2. SentAmt <= Amount /\ ~(SentAmt > Amount)
  BY <1>1 DEF RecordInv
<1>3. /\ UNCHANGED <<known, htlc, failInfo, nextId, circuit, result, wire, shard, amt, tries, restarts>>
      /\ life[l].pc = "fetch"
  BY DEF FetchPaymentState, bucket, switch
<1>4. Cardinality(InFlightHTLCs) \in 0 .. MaxAttempts /\ Amount - SentAmt \in 0 .. Amount
  <2>1. InFlightHTLCs \in SUBSET Ids
    BY DEF InFlightHTLCs
  <2> QED
    BY <1>1, <1>2, <2>1, IdsFinite
<1>5. /\ life' \in [Lives -> Lifecycle]
      /\ \A m \in Lives : m # l => life'[m] = life[m]
      /\ life'[l].pc \in {"exit", "wait", "launch"}
      /\ life'[l].pc = "exit" => Terminal /\ InFlightHTLCs = {}
      /\ life'[l].remaining = Amount - SentAmt
  <2> DEFINE pc == IF Terminal /\ InFlightHTLCs = {} THEN "exit"
                   ELSE IF InFlightHTLCs # {} /\ (Terminal \/ SentAmt = Amount) THEN "wait"
                   ELSE "launch"
             new == [life[l] EXCEPT !.inflight = Cardinality(InFlightHTLCs),
                                    !.remaining = Amount - SentAmt, !.pc = pc]
  <2>1. pc \in {"exit", "wait", "launch"} /\ (pc = "exit" => Terminal /\ InFlightHTLCs = {})
    OBVIOUS
  <2>2. life' = [life EXCEPT ![l] = new]
    BY <1>1, <1>2 DEF FetchPaymentState, TypeOK
  <2> HIDE DEF pc
  <2>3. new \in Lifecycle /\ new.pc = pc /\ new.remaining = Amount - SentAmt
    BY <1>1, <1>4, <2>1, LifeFields DEF Lifecycle, Pcs
  <2> HIDE DEF new
  <2> QED
    BY <1>1, <2>1, <2>2, <2>3 DEF TypeOK
<1>6. PaymentInv'
  BY <1>1, <1>3, <1>5, ControlStep DEF TypeOK, HtlcStates, ShardStates, RecordInv, Launching
<1>7. ASSUME Sole, SoleInv PROVE SoleInv'
  <2>1. known
    BY <1>3, <1>7 DEF SoleInv, LoopInv
  <2>2. life'[l].pc = "launch" => SentAmt + life'[l].remaining <= Amount
    BY <1>1, <1>2, <1>5
  <2>3. \A id \in Ids : /\ shard[l][id] = "error" => failInfo
                        /\ shard[l][id] \in {"collect", "await"} => htlc[id] = "inflight"
    BY <1>7 DEF SoleInv, LoopInv, ClaimInv
  <2> QED
    BY <1>3, <1>5, <1>7, <2>1, <2>2, <2>3, SoleControl DEF Launching
<1> QED
  BY <1>6, <1>7

\* What collectors and the loop know in SoleInv, as SoleControl needs it.
LEMMA SoleFacts ==
  ASSUME SoleInv, NEW l \in Lives
  PROVE  /\ life[l].pc # "idle" => known
         /\ \A id \in Ids :
              /\ shard[l][id] # "none" => known
              /\ shard[l][id] = "error" => failInfo
              /\ shard[l][id] \in {"collect", "await"} => htlc[id] = "inflight"
BY DEF SoleInv, LoopInv, ClaimInv

LEMMA StepWaitForShard ==
  ASSUME PaymentInv, NEW l \in Lives, NEW id \in Ids, WaitForShard(l, id)
  PROVE  PaymentInv' /\ (Sole /\ SoleInv => SoleInv')
<1>1. TypeOK /\ RecordInv
  BY DEF PaymentInv
<1> DEFINE next == IF shard[l][id] = "error" THEN "exit" ELSE "check"
<1>2. /\ UNCHANGED <<known, htlc, failInfo, nextId, circuit, result, wire, amt, tries, restarts>>
      /\ life[l].pc = "wait" /\ EndRound(l, next) /\ shard' = [shard EXCEPT ![l][id] = "none"]
  BY DEF WaitForShard, bucket, switch
<1>3. /\ life' \in [Lives -> Lifecycle]
      /\ \A m \in Lives : m # l => life'[m] = life[m]
      /\ life'[l].pc = next
  BY <1>1, <1>2, EndRoundFacts DEF Pcs
<1>4. /\ shard' \in [Lives -> [Ids -> ShardStates]]
      /\ \A m \in Lives, j \in Ids : shard'[m][j] = "none" \/ shard'[m][j] = shard[m][j]
  BY <1>1, <1>2 DEF TypeOK, ShardStates
<1>5. PaymentInv'
  BY <1>1, <1>2, <1>3, <1>4, ControlStep DEF TypeOK, HtlcStates, RecordInv, Launching
<1>6. ASSUME Sole, SoleInv PROVE SoleInv'
  BY <1>2, <1>3, <1>4, <1>6, SoleFacts, SoleControl DEF Launching
<1> QED
  BY <1>5, <1>6

LEMMA StepTimeout ==
  ASSUME PaymentInv, NEW l \in Lives, Timeout(l)
  PROVE  PaymentInv' /\ (Sole /\ SoleInv => SoleInv')
<1>1. TypeOK /\ RecordInv
  BY DEF PaymentInv
<1>2. /\ UNCHANGED <<known, htlc, nextId, circuit, result, wire, shard, amt, tries, restarts>>
      /\ life[l].pc = "launch" /\ failInfo' = known
  BY DEF Timeout, Fail, switch
<1>3. /\ life' \in [Lives -> Lifecycle]
      /\ \A m \in Lives : m # l => life'[m] = life[m]
      /\ life'[l].pc = "check"
  <2> DEFINE new == [Dead EXCEPT !.pc = "check", !.timedOut = TRUE]
  <2>1. new \in Lifecycle /\ new.pc = "check"
    BY DeadType DEF Lifecycle
  <2>2. life' = [life EXCEPT ![l] = new]
    BY DEF Timeout
  <2> HIDE DEF new
  <2> QED
    BY <1>1, <2>1, <2>2 DEF TypeOK
<1>4. PaymentInv'
  BY <1>1, <1>2, <1>3, ControlStep DEF TypeOK, HtlcStates, ShardStates, RecordInv, Launching
<1>5. ASSUME Sole, SoleInv PROVE SoleInv'
  BY <1>2, <1>3, <1>5, SoleFacts, SoleControl DEF Launching
<1> QED
  BY <1>4, <1>5

LEMMA StepNoRoute ==
  ASSUME PaymentInv, NEW l \in Lives, NoRoute(l)
  PROVE  PaymentInv' /\ (Sole /\ SoleInv => SoleInv')
<1>1. TypeOK /\ RecordInv
  BY DEF PaymentInv
<1>2. /\ UNCHANGED <<known, htlc, nextId, circuit, result, wire, shard, amt, tries, restarts>>
      /\ life[l].pc = "launch" /\ failInfo' \in {known, failInfo}
  BY DEF NoRoute, Fail, switch
<1>3. /\ life' \in [Lives -> Lifecycle]
      /\ \A m \in Lives : m # l => life'[m] = life[m]
      /\ life'[l].pc \in {"check", "wait"}
  <2>1. CASE EndRound(l, "check")
    BY <1>1, <2>1, EndRoundFacts DEF Pcs
  <2>2. CASE Goto(l, "wait")
    BY <1>1, <2>2, GotoFacts DEF Pcs
  <2> QED
    BY <2>1, <2>2 DEF NoRoute
<1>4. PaymentInv'
  BY <1>1, <1>2, <1>3, ControlStep DEF TypeOK, HtlcStates, ShardStates, RecordInv, Launching
<1>5. ASSUME Sole, SoleInv PROVE SoleInv'
  BY <1>2, <1>3, <1>5, SoleFacts, SoleControl DEF Launching
<1> QED
  BY <1>4, <1>5

LEMMA StepSendErrorTerminal ==
  ASSUME PaymentInv, NEW l \in Lives, SendErrorTerminal(l)
  PROVE  PaymentInv' /\ (Sole /\ SoleInv => SoleInv')
<1>1. TypeOK /\ RecordInv
  BY DEF PaymentInv
<1>2. /\ UNCHANGED <<known, htlc, nextId, circuit, result, wire, shard, amt, tries, restarts>>
      /\ life[l].pc = "sendError" /\ failInfo' = known /\ EndRound(l, "exit")
  BY DEF SendErrorTerminal, Fail, switch
<1>3. /\ life' \in [Lives -> Lifecycle]
      /\ \A m \in Lives : m # l => life'[m] = life[m]
      /\ life'[l].pc = "exit"
  BY <1>1, <1>2, EndRoundFacts DEF Pcs
<1>4. PaymentInv'
  BY <1>1, <1>2, <1>3, ControlStep DEF TypeOK, HtlcStates, ShardStates, RecordInv, Launching
<1>5. ASSUME Sole, SoleInv PROVE SoleInv'
  BY <1>2, <1>3, <1>5, SoleFacts, SoleControl DEF Launching
<1> QED
  BY <1>4, <1>5

\* The loop ends on an error that is not recorded.
LEMMA StepLaunchFails ==
  ASSUME PaymentInv, NEW l \in Lives, LaunchFails(l)
  PROVE  PaymentInv' /\ (Sole /\ SoleInv => SoleInv')
<1>1. TypeOK /\ RecordInv
  BY DEF PaymentInv
<1>2. /\ UNCHANGED <<known, htlc, failInfo, nextId, circuit, result, wire, shard, amt, tries, restarts>>
      /\ life[l].pc \in {"launch", "register"} /\ EndRound(l, "exit")
  BY DEF LaunchFails, bucket, switch
<1>3. /\ life' \in [Lives -> Lifecycle]
      /\ \A m \in Lives : m # l => life'[m] = life[m]
      /\ life'[l].pc = "exit"
  BY <1>1, <1>2, EndRoundFacts DEF Pcs
<1>4. PaymentInv'
  BY <1>1, <1>2, <1>3, ControlStep DEF TypeOK, HtlcStates, ShardStates, RecordInv, Launching
<1>5. ASSUME Sole, SoleInv PROVE SoleInv'
  BY <1>2, <1>3, <1>5, SoleFacts, SoleControl DEF Launching
<1> QED
  BY <1>4, <1>5

LEMMA StepSendErrorRetry ==
  ASSUME PaymentInv, NEW l \in Lives, SendErrorRetry(l)
  PROVE  PaymentInv' /\ (Sole /\ SoleInv => SoleInv')
<1>1. TypeOK /\ RecordInv
  BY DEF PaymentInv
<1>2. /\ UNCHANGED <<known, htlc, failInfo, nextId, circuit, result, wire, shard, amt, tries, restarts>>
      /\ life[l].pc = "sendError" /\ EndRound(l, "check")
  BY DEF SendErrorRetry, bucket, switch
<1>3. /\ life' \in [Lives -> Lifecycle]
      /\ \A m \in Lives : m # l => life'[m] = life[m]
      /\ life'[l].pc = "check"
  BY <1>1, <1>2, EndRoundFacts DEF Pcs
<1>4. PaymentInv'
  BY <1>1, <1>2, <1>3, ControlStep DEF TypeOK, HtlcStates, ShardStates, RecordInv, Launching
<1>5. ASSUME Sole, SoleInv PROVE SoleInv'
  BY <1>2, <1>3, <1>5, SoleFacts, SoleControl DEF Launching
<1> QED
  BY <1>4, <1>5

LEMMA StepStopped ==
  ASSUME PaymentInv, NEW l \in Lives, Stopped(l)
  PROVE  PaymentInv' /\ (Sole /\ SoleInv => SoleInv')
<1>1. TypeOK /\ RecordInv
  BY DEF PaymentInv
<1>2. /\ UNCHANGED <<known, htlc, failInfo, nextId, circuit, result, wire, shard, amt, tries, restarts>>
      /\ life[l].pc = "exit" /\ \A id \in Ids : shard[l][id] = "none"
      /\ life' = [life EXCEPT ![l] = Dead]
  BY DEF Stopped, NoShards, bucket, switch
<1>3. /\ life' \in [Lives -> Lifecycle]
      /\ \A m \in Lives : m # l => life'[m] = life[m]
      /\ life'[l].pc = "idle"
  BY <1>1, <1>2, DeadType DEF TypeOK
<1>4. PaymentInv'
  BY <1>1, <1>2, <1>3, ControlStep DEF TypeOK, HtlcStates, ShardStates, RecordInv, Launching
<1>5. ASSUME Sole, SoleInv PROVE SoleInv'
  BY <1>2, <1>3, <1>5, SoleFacts, SoleControl DEF Launching
<1> QED
  BY <1>4, <1>5

\* SendHTLC and the link refuse the attempt.
LEMMA StepSendFails ==
  ASSUME PaymentInv, NEW l \in Lives, SendHTLCFails(l) \/ AddPacketFails(l)
  PROVE  PaymentInv' /\ (Sole /\ SoleInv => SoleInv')
<1>1. TypeOK /\ RecordInv
  BY DEF PaymentInv
<1>2. /\ UNCHANGED <<known, htlc, failInfo, nextId, circuit, result, wire, shard, amt, tries, restarts>>
      /\ life[l].pc \in {"send", "add"} /\ \E err \in {"link", "internal"} : SendFails(l, err)
  BY DEF SendHTLCFails, AddPacketFails, bucket, switch
<1>3. /\ life' \in [Lives -> Lifecycle]
      /\ \A m \in Lives : m # l => life'[m] = life[m]
      /\ life'[l].pc = "failAttempt" /\ life'[l].cur = life[l].cur
  BY <1>1, <1>2, SendFailsFacts
<1>4. PaymentInv'
  BY <1>1, <1>2, <1>3, ControlStep DEF TypeOK, HtlcStates, ShardStates, RecordInv, Launching
<1>5. ASSUME Sole, SoleInv PROVE SoleInv'
  BY <1>2, <1>3, <1>5, SoleFacts, SoleControl DEF Launching
<1> QED
  BY <1>4, <1>5
-----------------------------------------------------------------------------
(* The collectors, and the failure of an attempt. *)

LEMMA ShardFacts ==
  ASSUME TypeOK, NEW l \in Lives, NEW id \in Ids, NEW pc \in ShardStates, Shard(l, id, pc)
  PROVE  /\ shard' \in [Lives -> [Ids -> ShardStates]]
         /\ shard'[l][id] = pc
         /\ \A j \in Ids : j # id => shard'[l][j] = shard[l][j]
         /\ \A m \in Lives, j \in Ids :
              (m = l /\ j = id) \/ shard'[m][j] = shard[m][j]
BY DEF Shard, TypeOK, ShardStates

LEMMA StepSubscribe ==
  ASSUME PaymentInv, NEW l \in Lives, NEW id \in Ids, Subscribe(l, id)
  PROVE  PaymentInv' /\ (Sole /\ SoleInv => SoleInv')
<1>1. TypeOK /\ RecordInv
  BY DEF PaymentInv
<1>2. /\ UNCHANGED <<known, htlc, failInfo, nextId, circuit, result, wire, life, amt, tries, restarts>>
      /\ shard[l][id] = "collect" /\ Shard(l, id, "await")
  BY DEF Subscribe, bucket, switch
<1>3. /\ shard' \in [Lives -> [Ids -> ShardStates]]
      /\ shard'[l][id] = "await"
      /\ \A j \in Ids : j # id => shard'[l][j] = shard[l][j]
      /\ \A m \in Lives, j \in Ids :
           (m = l /\ j = id) \/ shard'[m][j] = shard[m][j]
  BY <1>1, <1>2, ShardFacts DEF ShardStates
<1>4. PaymentInv'
  BY <1>1, <1>2, <1>3, ControlStep DEF TypeOK, HtlcStates, RecordInv
<1>5. ASSUME Sole, SoleInv PROVE SoleInv'
  <2>1. life[l].pc # "idle"
    BY <1>2, <1>5 DEF SoleInv, LoopInv
  <2>2. life[l].pc = "launch" => SentAmt + life[l].remaining <= Amount
    BY <1>5 DEF SoleInv, LoopInv
  <2> QED
    BY <1>2, <1>3, <1>5, <2>1, <2>2, SoleFacts, SoleControl
<1> QED
  BY <1>4, <1>5

\* handleSendError in the collector, with either outcome, and its end.
LEMMA StepShard ==
  ASSUME PaymentInv, NEW l \in Lives, NEW id \in Ids,
         ShardErrorTerminal(l, id) \/ ShardErrorRetry(l, id) \/ ShardQuits(l, id)
  PROVE  PaymentInv' /\ (Sole /\ SoleInv => SoleInv')
<1>1. TypeOK /\ RecordInv
  BY DEF PaymentInv
<1>2. /\ UNCHANGED <<known, htlc, nextId, circuit, result, wire, life, amt, tries, restarts>>
      /\ shard[l][id] # "none"
      /\ \/ Shard(l, id, "error") /\ failInfo' = known
         \/ \E pc \in {"done", "none"} : Shard(l, id, pc) /\ failInfo' = failInfo
  BY DEF ShardErrorTerminal, ShardErrorRetry, ShardQuits, Fail, bucket, switch
<1>3. /\ shard' \in [Lives -> [Ids -> ShardStates]]
      /\ shard'[l][id] \in {"error", "done", "none"}
      /\ failInfo' \in {known, failInfo}
      /\ shard'[l][id] = "error" => failInfo' = known
      /\ \A j \in Ids : j # id => shard'[l][j] = shard[l][j]
      /\ \A m \in Lives, j \in Ids :
           (m = l /\ j = id) \/ shard'[m][j] = shard[m][j]
  BY <1>1, <1>2, ShardFacts DEF ShardStates
<1>4. PaymentInv'
  BY <1>1, <1>2, <1>3, ControlStep DEF TypeOK, HtlcStates, RecordInv
<1>5. ASSUME Sole, SoleInv PROVE SoleInv'
  <2>1. life[l].pc # "idle" /\ known
    BY <1>2, <1>5 DEF SoleInv, LoopInv
  <2>2. life[l].pc = "launch" => SentAmt + life[l].remaining <= Amount
    BY <1>5 DEF SoleInv, LoopInv
  <2>3. failInfo => failInfo'
    BY <1>3, <2>1
  <2>4. \A j \in Ids :
          /\ shard'[l][j] # "none" => shard[l][j] # "none"
          /\ shard'[l][j] = "error" => failInfo'
          /\ shard'[l][j] \in {"collect", "await"} => htlc[j] = "inflight"
    BY <1>2, <1>3, <1>5, <2>1, <2>3, SoleFacts
  <2> QED
    BY <1>2, <1>5, <2>1, <2>2, <2>3, <2>4, SoleControl
<1> QED
  BY <1>4, <1>5

\* An attempt leaves the flight: settled, or failed when the channel does not
\* hold its HTLC or the network failed it.
LEMMA SoleUpdate ==
  ASSUME PaymentInv, SoleInv, Sole, NEW l \in Lives, NEW id \in Ids,
         UNCHANGED <<known, failInfo, wire, amt>>,
         htlc' \in [Ids -> HtlcStates],
         htlc[id] = "inflight", htlc'[id] \in {"settled", "failed"},
         \A j \in Ids : j # id => htlc'[j] = htlc[j],
         htlc'[id] = "failed" => wire[id] \in {"none", "fail"},
         \A j \in Ids : j # id => shard'[l][j] = shard[l][j],
         shard'[l][id] \in {"none", "internal", "link", "done"},
         \/ life'[l] = life[l] /\ shard[l][id] \in {"collect", "await"}
         \/ life[l].pc = "failAttempt" /\ life'[l].pc = "sendError"
  PROVE  SoleInv'
<1>1. \A m \in Lives : m = l
  BY DEF Sole
<1>2. TypeOK /\ LaunchInv /\ ClaimInv /\ LoopInv
  BY DEF SoleInv, PaymentInv
<1>3. SentAmt' <= SentAmt /\ SentAmt' \in Nat /\ SentAmt \in Nat /\ Amount \in Nat
  BY <1>2, SentAmtShrinks, RecordedFacts DEF HtlcStates
<1>4. life[l].pc # "idle" /\ known
  BY <1>2 DEF LoopInv
<1>6. ClaimInv'
  <2>1. \A j \in Ids : wire'[j] \in {"added", "signed", "settle"} =>
          htlc'[j] \in {"inflight", "settled"}
    BY <1>2 DEF ClaimInv
  <2>2. Launching(l)' => /\ Launching(l) /\ life'[l] = life[l]
                         /\ life[l].cur \in Ids /\ life[l].cur # id
                         /\ shard'[l][life[l].cur] = "none"
    BY <1>2 DEF ClaimInv, LaunchInv, Launching
  <2>3. life'[l].pc \in {"send", "add"} => htlc'[life'[l].cur] = "inflight"
    BY <1>2, <2>2 DEF ClaimInv, Launching
  <2>4. life'[l].pc = "failAttempt" =>
          /\ life'[l].cur \in Ids /\ wire'[life'[l].cur] = "none"
          /\ htlc'[life'[l].cur] = "inflight" /\ shard'[l][life'[l].cur] = "none"
    BY <1>2 DEF ClaimInv
  <2>5. \A j \in Ids : shard'[l][j] \in {"collect", "await"} => htlc'[j] = "inflight"
    BY <1>2 DEF ClaimInv
  <2> QED
    BY <1>1, <2>1, <2>2, <2>3, <2>4, <2>5 DEF ClaimInv
<1>7. LoopInv'
  <2>1. life'[l].pc = "register" => SentAmt' + amt'[life'[l].cur] <= Amount
    <3>1. SUFFICES ASSUME life'[l].pc = "register"
                   PROVE  SentAmt' + amt'[life'[l].cur] <= Amount
      OBVIOUS
    <3>2. life'[l] = life[l] /\ SentAmt + amt[life[l].cur] <= Amount /\ life[l].cur \in Ids
      BY <1>2, <3>1 DEF LoopInv, LaunchInv, Launching
    <3> QED
      BY <1>2, <1>3, <3>2, RecordedFacts
  <2>2. life'[l].pc = "launch" => SentAmt' + life'[l].remaining <= Amount
    <3>1. SUFFICES ASSUME life'[l].pc = "launch"
                   PROVE  SentAmt' + life'[l].remaining <= Amount
      OBVIOUS
    <3>2. life'[l] = life[l] /\ SentAmt + life[l].remaining <= Amount
      BY <1>2, <3>1 DEF LoopInv
    <3> QED
      BY <1>2, <1>3, <3>2, LifeFields
  <2>3. life'[l].pc # "idle" /\ known'
    BY <1>4
  <2>4. \A j \in Ids : shard'[l][j] = "error" => failInfo'
    BY <1>2 DEF LoopInv
  <2> QED
    BY <1>1, <2>1, <2>2, <2>3, <2>4 DEF LoopInv
<1> QED
  BY <1>6, <1>7 DEF SoleInv

\* In flight and known is enough for the update to go through.
LEMMA SoleMayUpdate ==
  ASSUME known, NEW id \in Ids, htlc[id] = "inflight"
  PROVE  MayUpdate(id)
BY DEF MayUpdate, Status, InFlightHTLCs

LEMMA StepNotFound ==
  ASSUME PaymentInv, NEW l \in Lives, NEW id \in Ids, NotFound(l, id)
  PROVE  PaymentInv' /\ (Sole /\ SoleInv => SoleInv')
<1>1. TypeOK /\ RecordInv /\ ResultInv
  BY DEF PaymentInv
<1> DEFINE next == IF MayUpdate(id) THEN "internal" ELSE "error"
<1>2. /\ UNCHANGED <<known, failInfo, nextId, circuit, result, wire, life, amt, tries, restarts>>
      /\ shard[l][id] = "collect" /\ id \notin circuit /\ result[id] = "none"
      /\ UpdateHtlc(id, "failed") /\ Shard(l, id, next)
  BY DEF NotFound, switch
<1>3. /\ shard' \in [Lives -> [Ids -> ShardStates]]
      /\ shard'[l][id] = next
      /\ \A j \in Ids : j # id => shard'[l][j] = shard[l][j]
      /\ \A m \in Lives, j \in Ids :
           (m = l /\ j = id) \/ shard'[m][j] = shard[m][j]
  BY <1>1, <1>2, ShardFacts DEF ShardStates
<1>4. /\ htlc' \in [Ids -> HtlcStates]
      /\ \A j \in Ids : j # id => htlc'[j] = htlc[j]
      /\ MayUpdate(id) => htlc[id] = "inflight" /\ htlc'[id] = "failed"
      /\ ~MayUpdate(id) => htlc' = htlc
  BY <1>1, <1>2, UpdateHtlcFacts DEF HtlcStates
<1>5. PaymentInv'
  <2>1. known' \/ (~failInfo' /\ \A j \in Ids : htlc'[j] = "none")
    BY <1>1, <1>2, <1>4 DEF RecordInv
  <2>2. \A j \in Ids : \/ htlc'[j] = htlc[j]
                       \/ htlc[j] = "inflight" /\ htlc'[j] \in {"settled", "failed"}
    BY <1>4
  <2> QED
    BY <1>1, <1>2, <1>3, <1>4, <2>1, <2>2, ControlStep DEF TypeOK
<1>6. ASSUME Sole, SoleInv PROVE SoleInv'
  <2>1. htlc[id] = "inflight" /\ known
    BY <1>2, <1>6, SoleFacts
  <2>2. MayUpdate(id) /\ wire[id] = "none"
    BY <1>1, <1>2, <2>1, SoleMayUpdate DEF ResultInv
  <2> QED
    BY <1>2, <1>3, <1>4, <1>6, <2>1, <2>2, SoleUpdate
<1> QED
  BY <1>5, <1>6

LEMMA StepCollectResult ==
  ASSUME PaymentInv, NEW l \in Lives, NEW id \in Ids, CollectResult(l, id)
  PROVE  PaymentInv' /\ (Sole /\ SoleInv => SoleInv')
<1>1. TypeOK /\ RecordInv /\ ResultInv
  BY DEF PaymentInv
<1> DEFINE next == IF ~MayUpdate(id) THEN "error"
                   ELSE IF result[id] = "settle" THEN "done" ELSE "link"
           outcome == IF result[id] = "settle" THEN "settled" ELSE "failed"
<1>2. /\ UNCHANGED <<known, failInfo, nextId, circuit, result, wire, life, amt, tries, restarts>>
      /\ shard[l][id] = "await" /\ result[id] # "none"
      /\ UpdateHtlc(id, outcome) /\ Shard(l, id, next)
  BY DEF CollectResult, switch
<1>3. /\ shard' \in [Lives -> [Ids -> ShardStates]]
      /\ shard'[l][id] = next
      /\ \A j \in Ids : j # id => shard'[l][j] = shard[l][j]
      /\ \A m \in Lives, j \in Ids :
           (m = l /\ j = id) \/ shard'[m][j] = shard[m][j]
  BY <1>1, <1>2, ShardFacts DEF ShardStates
<1>4. /\ htlc' \in [Ids -> HtlcStates]
      /\ \A j \in Ids : j # id => htlc'[j] = htlc[j]
      /\ MayUpdate(id) => htlc[id] = "inflight" /\ htlc'[id] = outcome
      /\ ~MayUpdate(id) => htlc' = htlc
  BY <1>1, <1>2, UpdateHtlcFacts DEF HtlcStates
<1>5. PaymentInv'
  <2>1. known' \/ (~failInfo' /\ \A j \in Ids : htlc'[j] = "none")
    BY <1>1, <1>2, <1>4 DEF RecordInv
  <2>2. \A j \in Ids : \/ htlc'[j] = htlc[j]
                       \/ htlc[j] = "inflight" /\ htlc'[j] \in {"settled", "failed"}
    BY <1>4
  <2> QED
    BY <1>1, <1>2, <1>3, <1>4, <2>1, <2>2, ControlStep DEF TypeOK
<1>6. ASSUME Sole, SoleInv PROVE SoleInv'
  <2>1. htlc[id] = "inflight" /\ known
    BY <1>2, <1>6, SoleFacts
  <2>2. MayUpdate(id) /\ (outcome = "failed" => wire[id] = "fail")
    BY <1>1, <1>2, <2>1, SoleMayUpdate DEF ResultInv, TypeOK
  <2>3. /\ htlc'[id] = outcome /\ outcome \in {"settled", "failed"}
        /\ shard'[l][id] \in {"none", "internal", "link", "done"}
    BY <1>3, <1>4, <2>2
  <2> HIDE DEF outcome, next
  <2> QED
    BY <1>2, <1>3, <1>4, <1>6, <2>1, <2>2, <2>3, SoleUpdate
<1> QED
  BY <1>5, <1>6

LEMMA StepFailAttempt ==
  ASSUME PaymentInv, NEW l \in Lives, FailAttempt(l)
  PROVE  PaymentInv' /\ (Sole /\ SoleInv => SoleInv')
<1>1. TypeOK /\ RecordInv
  BY DEF PaymentInv
<1> DEFINE id == life[l].cur
           next == IF MayUpdate(id) THEN "sendError" ELSE "exit"
<1>2. /\ UNCHANGED <<known, failInfo, nextId, circuit, result, wire, shard, amt, tries, restarts>>
      /\ life[l].pc = "failAttempt" /\ UpdateHtlc(id, "failed") /\ Goto(l, next)
  BY DEF FailAttempt, switch
<1>3. /\ life' \in [Lives -> Lifecycle]
      /\ \A m \in Lives : m # l => life'[m] = life[m]
      /\ life'[l].pc = next
  BY <1>1, <1>2, GotoFacts DEF Pcs
<1>4. /\ htlc' \in [Ids -> HtlcStates]
      /\ \A j \in Ids : \/ htlc'[j] = htlc[j]
                        \/ htlc[j] = "inflight" /\ htlc'[j] \in {"settled", "failed"}
  BY <1>1, <1>2 DEF UpdateHtlc, MayUpdate, TypeOK, HtlcStates
<1>5. PaymentInv'
  <2>1. known' \/ (~failInfo' /\ \A j \in Ids : htlc'[j] = "none")
    BY <1>1, <1>2, <1>4 DEF RecordInv
  <2> QED
    BY <1>1, <1>2, <1>3, <1>4, <2>1, ControlStep DEF TypeOK, ShardStates, Launching
<1>6. ASSUME Sole, SoleInv PROVE SoleInv'
  <2>1. id \in Ids /\ htlc[id] = "inflight" /\ wire[id] = "none" /\ shard[l][id] = "none" /\ known
    BY <1>2, <1>6, SoleFacts DEF SoleInv, ClaimInv
  <2>2. MayUpdate(id)
    BY <2>1, SoleMayUpdate
  <2>3. htlc'[id] = "failed" /\ \A j \in Ids : j # id => htlc'[j] = htlc[j]
    BY <1>1, <1>2, <2>1, <2>2, UpdateHtlcFacts
  <2>4. life'[l].pc = "sendError"
    BY <1>3, <2>2
  <2> HIDE DEF id, next
  <2> QED
    BY <1>2, <1>4, <1>6, <2>1, <2>3, <2>4, SoleUpdate
<1> QED
  BY <1>5, <1>6
-----------------------------------------------------------------------------
(* The channel and the switch. *)

LEMMA SoleNetwork ==
  ASSUME SoleInv, UNCHANGED <<known, htlc, failInfo, life, shard, amt>>,
         \A id \in Ids :
            /\ wire'[id] \in {"added", "signed", "settle"} =>
                 wire[id] \in {"added", "signed", "settle"}
            /\ wire[id] = "none" => wire'[id] = "none"
  PROVE  SoleInv'
<1>1. SentAmt' = SentAmt /\ InFlightHTLCs' = InFlightHTLCs /\ Settled' = Settled
  BY SentAmtSame
<1>2. Status' = Status
  BY <1>1 DEF Status
<1>3. ClaimInv'
  BY DEF SoleInv, ClaimInv, Launching
<1>4. LoopInv'
  BY <1>1, <1>2 DEF SoleInv, LoopInv
<1> QED
  BY <1>3, <1>4 DEF SoleInv

\* The link signs the HTLC or forgets it, and the network answers it.
LEMMA StepWire ==
  ASSUME PaymentInv, NEW id \in Ids,
         Sign(id) \/ LoseAdd(id) \/ \E outcome \in {"settle", "fail"} : Answer(id, outcome)
  PROVE  PaymentInv' /\ (Sole /\ SoleInv => SoleInv')
<1>1. TypeOK /\ ResultInv
  BY DEF PaymentInv
<1>2. /\ UNCHANGED <<known, htlc, failInfo, nextId, circuit, result, life, shard, amt, tries, restarts>>
      /\ wire' \in [Ids -> {"none", "added", "signed", "settle", "fail"}]
      /\ \A j \in Ids : j # id => wire'[j] = wire[j]
      /\ wire[id] \in {"added", "signed"} /\ wire'[id] \in {"none", "signed", "settle", "fail"}
  BY <1>1 DEF Sign, LoseAdd, Answer, bucket, switch, TypeOK
<1>3. result[id] = "none"
  BY <1>1, <1>2 DEF ResultInv, TypeOK
<1>4. ResultInv'
  BY <1>1, <1>2, <1>3 DEF ResultInv
<1>5. PaymentInv'
  <2>1. \A j \in Ids : wire[j] = "none" => wire'[j] = "none" /\ result'[j] = "none"
    BY <1>1, <1>2 DEF ResultInv
  <2> QED
    BY <1>1, <1>2, <1>4, <2>1, NetworkStep DEF TypeOK
<1>6. ASSUME SoleInv PROVE SoleInv'
  BY <1>2, <1>6, SoleNetwork
<1> QED
  BY <1>5, <1>6

LEMMA StepStoreResult ==
  ASSUME PaymentInv, NEW id \in Ids, StoreResult(id)
  PROVE  PaymentInv' /\ (Sole /\ SoleInv => SoleInv')
<1>1. TypeOK /\ ResultInv
  BY DEF PaymentInv
<1>2. /\ UNCHANGED <<known, htlc, failInfo, nextId, circuit, wire, life, shard, amt, tries, restarts>>
      /\ wire[id] \in {"settle", "fail"} /\ result' = [result EXCEPT ![id] = wire[id]]
  BY DEF StoreResult, bucket
<1>3. /\ result' \in [Ids -> {"none", "settle", "fail"}]
      /\ result'[id] = wire[id] /\ \A j \in Ids : j # id => result'[j] = result[j]
  BY <1>1, <1>2 DEF TypeOK
<1>4. ResultInv'
  BY <1>1, <1>2, <1>3 DEF ResultInv
<1>5. PaymentInv'
  <2>1. \A j \in Ids : wire[j] = "none" => wire'[j] = "none" /\ result'[j] = "none"
    BY <1>1, <1>2, <1>3 DEF ResultInv
  <2> QED
    BY <1>1, <1>2, <1>3, <1>4, <2>1, NetworkStep DEF TypeOK
<1>6. ASSUME SoleInv PROVE SoleInv'
  BY <1>2, <1>6, SoleNetwork
<1> QED
  BY <1>5, <1>6

LEMMA StepTeardownCircuit ==
  ASSUME PaymentInv, NEW id \in Ids, TeardownCircuit(id)
  PROVE  PaymentInv' /\ (Sole /\ SoleInv => SoleInv')
<1>1. TypeOK /\ ResultInv
  BY DEF PaymentInv
<1>2. /\ UNCHANGED <<known, htlc, failInfo, nextId, result, wire, life, shard, amt, tries, restarts>>
      /\ result[id] # "none" /\ circuit' = circuit \ {id}
  BY DEF TeardownCircuit, bucket
<1>3. ResultInv'
  BY <1>1, <1>2 DEF ResultInv
<1>4. PaymentInv'
  <2>1. \A j \in Ids : wire[j] = "none" =>
          wire'[j] = "none" /\ result'[j] = "none" /\ (j \in circuit => j \in circuit')
    BY <1>1, <1>2 DEF ResultInv
  <2> QED
    BY <1>1, <1>2, <1>3, <2>1, NetworkStep DEF TypeOK
<1>5. ASSUME SoleInv PROVE SoleInv'
  BY <1>2, <1>5, SoleNetwork
<1> QED
  BY <1>4, <1>5

\* Unsigned HTLCs are lost, the store keeps the results of a payment in flight,
\* and one goroutine resumes it.
LEMMA StepRestart ==
  ASSUME PaymentInv, NEW l \in Lives, Restart(l)
  PROVE  PaymentInv' /\ (Sole /\ SoleInv => SoleInv')
<1>1. TypeOK /\ RecordInv /\ FreshInv /\ ResultInv
  BY DEF PaymentInv
<1>2. /\ UNCHANGED <<known, htlc, failInfo, nextId, circuit, amt, tries>>
      /\ restarts' = restarts + 1 /\ restarts < MaxRestarts
      /\ wire' = [id \in Ids |-> IF wire[id] = "added" THEN "none" ELSE wire[id]]
      /\ result' = [id \in Ids |-> IF id \in ToKeep THEN result[id] ELSE "none"]
      /\ shard' = [m \in Lives |-> NoShards]
      /\ life' = [m \in Lives |->
           IF m = l /\ Status = "InFlight" THEN [Dead EXCEPT !.pc = "resume", !.empty = TRUE]
           ELSE Dead]
  BY DEF Restart, bucket
<1>3. /\ wire' \in [Ids -> {"none", "added", "signed", "settle", "fail"}]
      /\ \A id \in Ids : wire'[id] = IF wire[id] = "added" THEN "none" ELSE wire[id]
  BY <1>1, <1>2 DEF TypeOK
<1>4. /\ result' \in [Ids -> {"none", "settle", "fail"}]
      /\ \A id \in Ids : result'[id] = result[id] \/ result'[id] = "none"
      /\ \A id \in Ids : htlc[id] = "inflight" => result'[id] = result[id]
  <2>1. ASSUME NEW id \in Ids, htlc[id] = "inflight" PROVE id \in ToKeep
    BY <1>1, <2>1 DEF RecordInv, ToKeep, Status, InFlightHTLCs
  <2> QED
    BY <1>1, <1>2, <2>1 DEF TypeOK
<1>5. /\ shard' \in [Lives -> [Ids -> ShardStates]]
      /\ \A m \in Lives, id \in Ids : shard'[m][id] = "none"
  BY <1>2 DEF NoShards, ShardStates
<1>6. /\ life' \in [Lives -> Lifecycle]
      /\ \A m \in Lives : life'[m].pc \in {"idle", "resume"}
      /\ \A m \in Lives : life'[m].pc = "resume" => Status = "InFlight"
      /\ Status = "InFlight" => life'[l].pc = "resume"
  <2> DEFINE new == [Dead EXCEPT !.pc = "resume", !.empty = TRUE]
  <2>1. new \in Lifecycle /\ new.pc = "resume"
    BY DeadType DEF Lifecycle
  <2>2. life' = [m \in Lives |-> IF m = l /\ Status = "InFlight" THEN new ELSE Dead]
    BY <1>2
  <2> HIDE DEF new
  <2> QED
    BY <2>1, <2>2, DeadType
<1>7. TypeOK'
  <2>1. restarts' \in 0 .. MaxRestarts
    BY <1>1, <1>2, PaymentsAssumption DEF TypeOK
  <2> QED
    BY <1>1, <1>2, <1>3, <1>4, <1>5, <1>6, <2>1 DEF TypeOK, ShardStates
<1>8. RecordInv'
  BY <1>1, <1>2, SentAmtSame DEF RecordInv
<1>9. FreshInv'
  BY <1>1, <1>2, <1>3, <1>4, <1>5 DEF FreshInv
<1>10. LaunchInv'
  BY <1>6 DEF LaunchInv, Launching
<1>11. ResultInv'
  BY <1>1, <1>2, <1>3, <1>4 DEF ResultInv, TypeOK
<1>12. ASSUME Sole, SoleInv PROVE SoleInv'
  <2>1. SentAmt' = SentAmt /\ InFlightHTLCs' = InFlightHTLCs /\ Settled' = Settled
    BY <1>2, SentAmtSame
  <2>2. Status' = Status /\ (Status = "InFlight" => known)
    BY <1>2, <2>1 DEF Status
  <2>3. \A m \in Lives : m = l
    BY <1>12 DEF Sole
  <2>4. ClaimInv'
    BY <1>2, <1>3, <1>5, <1>6, <1>12 DEF SoleInv, ClaimInv, Launching
  <2>5. LoopInv'
    BY <1>2, <1>5, <1>6, <2>2, <2>3 DEF LoopInv
  <2> QED
    BY <2>4, <2>5 DEF SoleInv
<1> QED
  BY <1>7, <1>8, <1>9, <1>10, <1>11, <1>12 DEF PaymentInv
-----------------------------------------------------------------------------
(* The launch of an attempt. *)

LEMMA StepSendPayment ==
  ASSUME PaymentInv, NEW l \in Lives, SendPayment(l)
  PROVE  PaymentInv' /\ (Sole /\ SoleInv => SoleInv')
<1>1. TypeOK /\ RecordInv /\ SentAmt \in Nat /\ Amount \in Nat
  BY RecordedFacts DEF PaymentInv
<1>2. /\ UNCHANGED <<nextId, circuit, result, wire, shard, amt, restarts>>
      /\ life[l].pc = "idle" /\ Startable /\ known' = TRUE /\ failInfo' = FALSE
      /\ htlc' = [id \in Ids |-> "none"] /\ tries < MaxTries /\ tries' = tries + 1
  BY DEF SendPayment, switch
<1>3. htlc' \in [Ids -> HtlcStates] /\ \A id \in Ids : htlc'[id] = "none"
  BY <1>2 DEF HtlcStates
<1>4. /\ life' \in [Lives -> Lifecycle]
      /\ \A m \in Lives : m # l => life'[m] = life[m]
      /\ life'[l].pc = "resume"
  <2> DEFINE new == [Dead EXCEPT !.pc = "resume"]
  <2>1. new \in Lifecycle /\ new.pc = "resume"
    BY DeadType DEF Lifecycle
  <2>2. life' = [life EXCEPT ![l] = new]
    BY DEF SendPayment
  <2> HIDE DEF new
  <2> QED
    BY <1>1, <2>1, <2>2 DEF TypeOK
<1>5. PaymentInv'
  <2>1. tries' \in 0 .. MaxTries
    BY <1>1, <1>2, PaymentsAssumption DEF TypeOK
  <2> QED
    BY <1>1, <1>2, <1>3, <1>4, <2>1, ControlStep DEF TypeOK, ShardStates, Launching
<1>6. ASSUME Sole, SoleInv PROVE SoleInv'
  <2>1. \A m \in Lives : m = l
    BY <1>6 DEF Sole
  <2>2. \A id \in Ids : htlc[id] \notin {"inflight", "settled"}
    BY <1>1, <1>2 DEF Startable, Status, InFlightHTLCs, Settled, RecordInv
  <2>3. \A id \in Ids : wire'[id] \notin {"added", "signed", "settle"}
    BY <1>2, <1>6, <2>2 DEF SoleInv, ClaimInv
  <2>4. \A m \in Lives, id \in Ids : shard'[m][id] = "none"
    BY <1>2, <1>6, <2>1 DEF SoleInv, LoopInv
  <2>5. ClaimInv'
    BY <1>4, <2>1, <2>3, <2>4 DEF ClaimInv, Launching
  <2>6. LoopInv'
    BY <1>2, <1>4, <2>1, <2>4 DEF LoopInv
  <2> QED
    BY <2>5, <2>6 DEF SoleInv
<1> QED
  BY <1>5, <1>6

\* The new attempt is not in the record, so the amount sent stays.
LEMMA StepRequestRoute ==
  ASSUME PaymentInv, NEW l \in Lives, NEW a \in 1 .. Amount, RequestRoute(l, a)
  PROVE  PaymentInv' /\ (Sole /\ SoleInv => SoleInv')
<1>1. TypeOK /\ RecordInv /\ FreshInv /\ LaunchInv /\ ResultInv /\ SentAmt \in Nat /\ Amount \in Nat
  BY RecordedFacts DEF PaymentInv
<1>2. /\ UNCHANGED <<known, htlc, failInfo, circuit, result, wire, shard, tries, restarts>>
      /\ life[l].pc = "launch" /\ a \in 1 .. life[l].remaining
      /\ nextId \in Ids /\ nextId' = nextId + 1 /\ amt' = [amt EXCEPT ![nextId] = a]
  BY DEF RequestRoute, bucket
<1>3. amt' \in [Ids -> 0 .. Amount] /\ amt'[nextId] = a
      /\ \A id \in Ids : id # nextId => amt'[id] = amt[id]
  BY <1>1, <1>2 DEF TypeOK
<1>4. /\ life' \in [Lives -> Lifecycle]
      /\ \A m \in Lives : m # l => life'[m] = life[m]
      /\ life'[l].pc = "register" /\ life'[l].cur = nextId
  <2> DEFINE new == [life[l] EXCEPT !.pc = "register", !.cur = nextId]
  <2>1. nextId \in 0 .. MaxAttempts
    BY <1>2, PaymentsAssumption DEF Ids
  <2>2. new \in Lifecycle /\ new.pc = "register" /\ new.cur = nextId
    BY <1>1, <2>1, LifeFields DEF Lifecycle, Pcs
  <2>3. life' = [life EXCEPT ![l] = new]
    BY <1>1 DEF RequestRoute, TypeOK
  <2> HIDE DEF new
  <2> QED
    BY <1>1, <2>2, <2>3 DEF TypeOK
<1>5. /\ wire[nextId] = "none" /\ result[nextId] = "none" /\ htlc[nextId] = "none"
      /\ \A m \in Lives : shard[m][nextId] = "none"
  BY <1>1, <1>2, IdsFinite DEF FreshInv
<1>6. SentAmt' = SentAmt
  <2>1. Recorded' = Recorded /\ nextId \notin Recorded /\ Recorded \in SUBSET Ids
    BY <1>2, <1>5 DEF Recorded, InFlightHTLCs, Settled
  <2>2. IsFiniteSet(Recorded)
    BY <2>1, IdsFinite
  <2>3. Total(amt', Recorded) = Total(amt, Recorded)
    BY <1>3, <2>1, <2>2, TotalSame
  <2> QED
    BY <2>1, <2>3, SentAmtIsTotal
<1>7. nextId \in Nat /\ nextId' = nextId + 1 /\ nextId' \in 1 .. (MaxAttempts + 1)
  BY <1>2, PaymentsAssumption DEF Ids
<1>8. PaymentInv'
  <2>1. TypeOK'
    BY <1>1, <1>2, <1>3, <1>4, <1>7 DEF TypeOK
  <2>2. RecordInv'
    BY <1>1, <1>2, <1>6 DEF RecordInv
  <2>3. FreshInv'
    <3>1. \A id \in Ids : id >= nextId' => id >= nextId
      BY <1>7, IdsFinite
    <3> QED
      BY <1>1, <1>2, <3>1 DEF FreshInv
  <2>4. LaunchInv'
    <3>1. \A m \in Lives : m # l /\ Launching(m)' => Launching(m) /\ life'[m] = life[m]
      BY <1>4 DEF Launching
    <3>2. \A m \in Lives : m # l /\ Launching(m)' =>
            life'[m].cur \in Ids /\ life'[m].cur < nextId /\ life'[m].cur # nextId
      BY <1>1, <1>7, <3>1, IdsFinite DEF LaunchInv
    <3>3. \A m \in Lives : Launching(m)' => life'[m].cur \in Ids /\ life'[m].cur < nextId'
      <4>1. \A i \in Ids : i < nextId \/ i = nextId => i < nextId'
        BY <1>7, IdsFinite
      <4> QED
        BY <1>2, <1>4, <3>2, <4>1
    <3>4. \A m \in Lives : Launching(m)' =>
            /\ wire'[life'[m].cur] = "none" /\ result'[life'[m].cur] = "none"
            /\ life'[m].pc = "register" => htlc'[life'[m].cur] = "none"
            /\ life'[m].pc = "add" => life'[m].cur \in circuit'
      BY <1>1, <1>2, <1>4, <1>5, <3>1 DEF LaunchInv
    <3>5. \A j, m \in Lives : Launching(j)' /\ Launching(m)' /\ j # m =>
            life'[j].cur # life'[m].cur
      BY <1>1, <1>4, <3>1, <3>2 DEF LaunchInv
    <3> QED
      BY <3>3, <3>4, <3>5 DEF LaunchInv
  <2>5. ResultInv'
    BY <1>1, <1>2 DEF ResultInv
  <2> QED
    BY <2>1, <2>2, <2>3, <2>4, <2>5 DEF PaymentInv
<1>9. ASSUME Sole, SoleInv PROVE SoleInv'
  <2>1. \A m \in Lives : m = l
    BY <1>9 DEF Sole
  <2>2. ClaimInv'
    BY <1>2, <1>4, <1>5, <1>9, <2>1 DEF SoleInv, ClaimInv, Launching
  <2>3. SentAmt + life[l].remaining <= Amount /\ life[l].remaining \in Nat
    BY <1>1, <1>2, <1>9, LifeFields DEF SoleInv, LoopInv
  <2>4. SentAmt' + amt'[life'[l].cur] <= Amount
    BY <1>1, <1>2, <1>3, <1>4, <1>6, <2>3
  <2>5. known /\ \A id \in Ids : shard[l][id] = "error" => failInfo
    BY <1>2, <1>9, SoleFacts
  <2>6. LoopInv'
    BY <1>2, <1>4, <2>1, <2>4, <2>5 DEF LoopInv
  <2> QED
    BY <2>2, <2>6 DEF SoleInv
<1> QED
  BY <1>8, <1>9

\* The attempt enters the record, which has room for it.
LEMMA StepRegisterAttempt ==
  ASSUME PaymentInv, NEW l \in Lives, RegisterAttempt(l)
  PROVE  PaymentInv' /\ (Sole /\ SoleInv => SoleInv')
<1> DEFINE id == life[l].cur
<1>1. TypeOK /\ RecordInv /\ FreshInv /\ LaunchInv /\ ResultInv /\ SentAmt \in Nat /\ Amount \in Nat
  BY RecordedFacts DEF PaymentInv
<1>2. /\ UNCHANGED <<known, failInfo, nextId, circuit, result, wire, shard, amt, tries, restarts>>
      /\ life[l].pc = "register"
  BY DEF RegisterAttempt, switch
<1>3. /\ id \in Ids /\ id < nextId /\ wire[id] = "none" /\ result[id] = "none"
      /\ htlc[id] = "none"
  BY <1>1, <1>2 DEF LaunchInv, Launching
<1>4. ASSUME Sole, SoleInv PROVE Terminal \/ Registrable(id)
  <2>1. known /\ SentAmt + amt[id] <= Amount
    BY <1>2, <1>4, SoleFacts DEF SoleInv, LoopInv
  <2>2. ~Terminal => Status = "InFlight"
    BY <2>1 DEF Terminal, Status
  <2> QED
    BY <2>1, <2>2 DEF Registrable
<1>5. CASE \/ Terminal /\ EndRound(l, "check") /\ UNCHANGED htlc
           \/ ~Terminal /\ ~Registrable(id) /\ EndRound(l, "exit") /\ UNCHANGED htlc
  <2>1. /\ life' \in [Lives -> Lifecycle]
        /\ \A m \in Lives : m # l => life'[m] = life[m]
        /\ life'[l].pc \in {"check", "exit"}
        /\ life'[l].pc = "exit" => ~Terminal /\ ~Registrable(id)
    BY <1>1, <1>5, EndRoundFacts DEF Pcs
  <2>2. PaymentInv'
    BY <1>1, <1>2, <1>5, <2>1, ControlStep DEF TypeOK, HtlcStates, ShardStates, RecordInv, Launching
  <2>3. ASSUME Sole, SoleInv PROVE SoleInv'
    BY <1>2, <1>4, <1>5, <2>1, <2>3, SoleFacts, SoleControl DEF Launching
  <2> QED
    BY <2>2, <2>3
<1>6. CASE Registrable(id) /\ Goto(l, "send") /\ htlc' = [htlc EXCEPT ![id] = "inflight"]
  <2>1. /\ life' \in [Lives -> Lifecycle]
        /\ \A m \in Lives : m # l => life'[m] = life[m]
        /\ life'[l].pc = "send" /\ life'[l].cur = id
    BY <1>1, <1>6, GotoFacts DEF Pcs
  <2>2. /\ htlc' \in [Ids -> HtlcStates] /\ htlc'[id] = "inflight"
        /\ \A j \in Ids : j # id => htlc'[j] = htlc[j]
    BY <1>1, <1>3, <1>6 DEF TypeOK, HtlcStates
  <2>3. known /\ SentAmt + amt[id] <= Amount
    BY <1>6 DEF Registrable, Status
  <2> HIDE DEF id
  <2>4. SentAmt' = SentAmt + amt[id]
    <3>1. /\ Recorded' = Recorded \cup {id} /\ id \notin Recorded
          /\ Recorded \in SUBSET Ids
      BY <1>3, <2>2 DEF Recorded, InFlightHTLCs, Settled
    <3>2. Total(amt, Recorded \cup {id}) = Total(amt, Recorded) + amt[id]
      BY <1>1, <1>3, <3>1, IdsFinite, RecordedFacts, TotalAdd
    <3> QED
      BY <1>2, <3>1, <3>2, SentAmtIsTotal
  <2>5. PaymentInv'
    <3>1. TypeOK'
      BY <1>1, <1>2, <2>1, <2>2 DEF TypeOK, HtlcStates
    <3>2. RecordInv'
      BY <1>2, <2>3, <2>4 DEF RecordInv
    <3>3. FreshInv'
      <4>1. \A j \in Ids : j >= nextId => j # id
        BY <1>1, <1>3, IdsFinite DEF TypeOK
      <4> QED
        BY <1>1, <1>2, <2>2, <4>1 DEF FreshInv
    <3>4. LaunchInv'
      <4>1. \A m \in Lives : m # l /\ Launching(m)' =>
              Launching(m) /\ life'[m] = life[m] /\ life[m].cur # id
        BY <1>1, <1>2, <2>1 DEF Launching, LaunchInv, id
      <4>2. \A m \in Lives : Launching(m)' =>
              /\ life'[m].cur \in Ids /\ life'[m].cur < nextId'
              /\ wire'[life'[m].cur] = "none" /\ result'[life'[m].cur] = "none"
              /\ life'[m].pc = "register" => htlc'[life'[m].cur] = "none"
              /\ life'[m].pc = "add" => life'[m].cur \in circuit'
        BY <1>1, <1>2, <1>3, <2>1, <2>2, <4>1 DEF LaunchInv
      <4>3. \A j, m \in Lives : Launching(j)' /\ Launching(m)' /\ j # m =>
              life'[j].cur # life'[m].cur
        BY <1>1, <2>1, <4>1 DEF LaunchInv
      <4> QED
        BY <4>2, <4>3 DEF LaunchInv
    <3>5. ResultInv'
      BY <1>1, <1>2, <1>3, <2>2 DEF ResultInv
    <3> QED
      BY <3>1, <3>2, <3>3, <3>4, <3>5 DEF PaymentInv
  <2>6. ASSUME Sole, SoleInv PROVE SoleInv'
    <3>1. \A m \in Lives : m = l
      BY <2>6 DEF Sole
    <3>2. shard[l][id] = "none"
      BY <1>2, <2>6 DEF SoleInv, ClaimInv, Launching, id
    <3>3. ClaimInv'
      BY <1>2, <1>3, <2>1, <2>2, <2>6, <3>1, <3>2 DEF SoleInv, ClaimInv
    <3>4. \A j \in Ids : shard[l][j] = "error" => failInfo
      BY <2>6, SoleFacts
    <3>5. LoopInv'
      BY <1>2, <2>1, <2>3, <3>1, <3>4 DEF LoopInv
    <3> QED
      BY <3>3, <3>5 DEF SoleInv
  <2> QED
    BY <2>5, <2>6
<1> QED
  BY <1>5, <1>6 DEF RegisterAttempt

LEMMA StepSendHTLC ==
  ASSUME PaymentInv, NEW l \in Lives, SendHTLC(l)
  PROVE  PaymentInv' /\ (Sole /\ SoleInv => SoleInv')
<1>1. TypeOK /\ RecordInv /\ FreshInv /\ LaunchInv /\ ResultInv
  BY DEF PaymentInv
<1>2. /\ UNCHANGED <<known, htlc, failInfo, nextId, result, wire, shard, amt, tries, restarts>>
      /\ life[l].pc = "send" /\ circuit' = circuit \cup {life[l].cur} /\ Goto(l, "add")
  BY DEF SendHTLC, bucket
<1>3. life[l].cur \in Ids /\ life[l].cur < nextId
  BY <1>1, <1>2 DEF LaunchInv, Launching
<1>4. /\ life' \in [Lives -> Lifecycle]
      /\ \A m \in Lives : m # l => life'[m] = life[m]
      /\ life'[l].pc = "add" /\ life'[l].cur = life[l].cur
  BY <1>1, <1>2, GotoFacts DEF Pcs
<1>5. PaymentInv'
  <2>1. TypeOK'
    BY <1>1, <1>2, <1>3, <1>4 DEF TypeOK
  <2>2. RecordInv'
    BY <1>1, <1>2, SentAmtSame DEF RecordInv
  <2>3. FreshInv'
    <3>1. \A j \in Ids : j >= nextId => j # life[l].cur
      BY <1>1, <1>3, IdsFinite DEF TypeOK
    <3> QED
      BY <1>1, <1>2, <3>1 DEF FreshInv
  <2>4. LaunchInv'
    BY <1>1, <1>2, <1>3, <1>4 DEF LaunchInv, Launching
  <2>5. ResultInv'
    BY <1>1, <1>2 DEF ResultInv
  <2> QED
    BY <2>1, <2>2, <2>3, <2>4, <2>5 DEF PaymentInv
<1>6. ASSUME Sole, SoleInv PROVE SoleInv'
  <2>1. \A m \in Lives : m = l
    BY <1>6 DEF Sole
  <2>2. ClaimInv'
    BY <1>2, <1>4, <1>6, <2>1 DEF SoleInv, ClaimInv, Launching
  <2>3. known /\ \A j \in Ids : shard[l][j] = "error" => failInfo
    BY <1>2, <1>6, SoleFacts
  <2>4. LoopInv'
    BY <1>2, <1>4, <2>1, <2>3 DEF LoopInv
  <2> QED
    BY <2>2, <2>4 DEF SoleInv
<1> QED
  BY <1>5, <1>6

\* The HTLC enters the channel; its circuit is there.
LEMMA StepAddPacket ==
  ASSUME PaymentInv, NEW l \in Lives, NEW answered \in Answers, AddPacket(l, answered)
  PROVE  PaymentInv' /\ (Sole /\ SoleInv => SoleInv')
<1> DEFINE id == life[l].cur
<1>1. TypeOK /\ RecordInv /\ FreshInv /\ LaunchInv /\ ResultInv
  BY DEF PaymentInv
<1>2. /\ UNCHANGED <<known, htlc, failInfo, nextId, circuit, result, amt, tries, restarts>>
      /\ life[l].pc = "add" /\ wire' = [wire EXCEPT ![id] = "added"]
  BY DEF AddPacket, bucket, switch
<1>3. id \in Ids /\ id < nextId /\ wire[id] = "none" /\ result[id] = "none" /\ id \in circuit
  BY <1>1, <1>2 DEF LaunchInv, Launching
<1>4. /\ wire' \in [Ids -> {"none", "added", "signed", "settle", "fail"}]
      /\ wire'[id] = "added" /\ \A j \in Ids : j # id => wire'[j] = wire[j]
  BY <1>1, <1>2, <1>3 DEF TypeOK
<1>5. /\ life' \in [Lives -> Lifecycle]
      /\ \A m \in Lives : m # l => life'[m] = life[m]
      /\ life'[l].pc \in {"check", "failAttempt"}
      /\ answered => life'[l].pc = "check"
  <2>1. CASE answered
    BY <1>1, <2>1, EndRoundFacts DEF AddPacket, Pcs
  <2>2. CASE ~answered
    BY <1>1, <2>2, SendFailsFacts DEF AddPacket
  <2> QED
    BY <2>1, <2>2
<1>6. /\ shard' \in [Lives -> [Ids -> ShardStates]]
      /\ \A m \in Lives, j \in Ids : shard'[m][j] = shard[m][j] \/ (m = l /\ j = id)
      /\ answered => shard'[l][id] = "collect"
  <2>1. CASE answered
    BY <1>1, <1>3, <2>1 DEF AddPacket, TypeOK, ShardStates
  <2>2. CASE ~answered
    BY <1>1, <2>2 DEF AddPacket, TypeOK, ShardStates
  <2> QED
    BY <2>1, <2>2
<1>7. PaymentInv'
  <2>1. TypeOK'
    BY <1>1, <1>2, <1>4, <1>5, <1>6 DEF TypeOK, ShardStates
  <2>2. RecordInv'
    BY <1>1, <1>2, SentAmtSame DEF RecordInv
  <2>3. FreshInv'
    <3>1. \A j \in Ids : j >= nextId => j # id
      BY <1>1, <1>3, IdsFinite DEF TypeOK
    <3> QED
      BY <1>1, <1>2, <1>4, <1>6, <3>1 DEF FreshInv
  <2>4. LaunchInv'
    <3>1. \A m \in Lives : Launching(m)' =>
            Launching(m) /\ life'[m] = life[m] /\ life[m].cur # id
      BY <1>1, <1>2, <1>5 DEF Launching, LaunchInv
    <3> HIDE DEF id
    <3> QED
      BY <1>1, <1>2, <1>4, <3>1 DEF LaunchInv
  <2>5. ResultInv'
    BY <1>1, <1>2, <1>3, <1>4 DEF ResultInv
  <2> QED
    BY <2>1, <2>2, <2>3, <2>4, <2>5 DEF PaymentInv
<1>8. ASSUME Sole, SoleInv PROVE SoleInv'
  <2>1. answered /\ \A m \in Lives : m = l
    BY <1>8 DEF Sole
  <2>2. htlc[id] = "inflight"
    BY <1>2, <1>8 DEF SoleInv, ClaimInv
  <2> HIDE DEF id
  <2>3. ClaimInv'
    BY <1>2, <1>4, <1>5, <1>6, <1>8, <2>1, <2>2 DEF SoleInv, ClaimInv, Launching
  <2>4. known /\ \A j \in Ids : shard[l][j] = "error" => failInfo
    BY <1>2, <1>8, SoleFacts
  <2>5. LoopInv'
    BY <1>2, <1>3, <1>5, <1>6, <2>1, <2>4 DEF LoopInv
  <2> QED
    BY <2>3, <2>5 DEF SoleInv
<1> QED
  BY <1>7, <1>8
-----------------------------------------------------------------------------
(* The theorems. *)

LEMMA InitInv == Init => PaymentInv /\ SoleInv
<1> SUFFICES ASSUME Init PROVE PaymentInv /\ SoleInv
  OBVIOUS
<1> USE DEF Init
<1>1. TypeOK
  <2>1. /\ nextId \in 1 .. (MaxAttempts + 1) /\ 0 \in 0 .. Amount
        /\ tries \in 0 .. MaxTries /\ restarts \in 0 .. MaxRestarts
    BY PaymentsAssumption
  <2>2. /\ known \in BOOLEAN /\ failInfo \in BOOLEAN
        /\ htlc \in [Ids -> {"none", "inflight", "settled", "failed"}]
        /\ circuit \subseteq Ids
        /\ result \in [Ids -> {"none", "settle", "fail"}]
        /\ wire \in [Ids -> {"none", "added", "signed", "settle", "fail"}]
    OBVIOUS
  <2>3. /\ life \in [Lives -> Lifecycle] /\ amt \in [Ids -> 0 .. Amount]
        /\ shard \in [Lives -> [Ids -> {"none", "collect", "await", "internal", "link",
                                        "done", "error"}]]
    BY <2>1, DeadType DEF NoShards
  <2> QED
    BY <2>1, <2>2, <2>3 DEF TypeOK
<1>2. /\ \A id \in Ids : htlc[id] = "none" /\ wire[id] = "none" /\ result[id] = "none"
      /\ \A l \in Lives : life[l].pc = "idle" /\ \A id \in Ids : shard[l][id] = "none"
  BY DeadType DEF NoShards
<1>3. SentAmt = 0
  <2>1. Recorded = {}
    BY <1>2 DEF Recorded, InFlightHTLCs, Settled
  <2> QED
    BY <2>1, SentAmtIsTotal, TotalEmpty
<1>4. RecordInv
  BY <1>2, <1>3, PaymentsAssumption DEF RecordInv
<1>5. FreshInv /\ LaunchInv /\ ResultInv
  BY <1>2 DEF FreshInv, LaunchInv, Launching, ResultInv
<1>6. ClaimInv
  BY <1>2 DEF ClaimInv, Launching
<1>7. LoopInv
  BY <1>2 DEF LoopInv, Status
<1> QED
  BY <1>1, <1>4, <1>5, <1>6, <1>7 DEF PaymentInv, SoleInv

LEMMA StepInv ==
  ASSUME PaymentInv, [Next]_vars
  PROVE  PaymentInv' /\ (Sole /\ SoleInv => SoleInv')
<1>1. CASE \E l \in Lives :
            \/ SendPayment(l) \/ Resume(l) \/ CheckShards(l) \/ FetchPaymentState(l)
            \/ Timeout(l) \/ NoRoute(l) \/ \E a \in 1 .. Amount : RequestRoute(l, a)
            \/ LaunchFails(l)
  BY <1>1, StepLaunchFails, StepSendPayment, StepResume, StepCheckShards, StepFetchPaymentState,
     StepTimeout, StepNoRoute, StepRequestRoute
<1>2. CASE \E l \in Lives :
            \/ RegisterAttempt(l) \/ SendHTLC(l) \/ SendHTLCFails(l)
            \/ AddPacketFails(l) \/ \E answered \in Answers : AddPacket(l, answered)
            \/ FailAttempt(l) \/ SendErrorTerminal(l) \/ SendErrorRetry(l)
            \/ Stopped(l) \/ Restart(l)
  BY <1>2, StepRegisterAttempt, StepSendHTLC, StepSendFails, StepAddPacket, StepFailAttempt,
     StepSendErrorTerminal, StepSendErrorRetry, StepStopped, StepRestart
<1>3. CASE \E l \in Lives, id \in Ids :
            \/ WaitForShard(l, id) \/ Subscribe(l, id) \/ NotFound(l, id)
            \/ CollectResult(l, id) \/ ShardErrorTerminal(l, id)
            \/ ShardErrorRetry(l, id) \/ ShardQuits(l, id)
  BY <1>3, StepWaitForShard, StepSubscribe, StepNotFound, StepCollectResult, StepShard
<1>4. CASE \E id \in Ids :
            \/ Sign(id) \/ LoseAdd(id) \/ StoreResult(id) \/ TeardownCircuit(id)
            \/ \E outcome \in {"settle", "fail"} : Answer(id, outcome)
  BY <1>4, StepWire, StepStoreResult, StepTeardownCircuit
<1>5. CASE UNCHANGED vars
  <2>1. UNCHANGED <<known, htlc, failInfo, nextId, circuit, result, wire, life, shard,
                    amt, tries, restarts>>
    BY <1>5 DEF vars
  <2>2. PaymentInv'
    BY <2>1, ControlStep DEF PaymentInv, TypeOK, HtlcStates, ShardStates, RecordInv
  <2>3. SoleInv => SoleInv'
    BY <2>1, SoleNetwork
  <2> QED
    BY <2>2, <2>3
<1> QED
  BY <1>1, <1>2, <1>3, <1>4, <1>5 DEF Next

\* PaymentInv holds throughout, for any number of goroutines that run the
\* payment and whatever links do.
THEOREM PaymentInvariant == Spec => []PaymentInv
<1>1. Init => PaymentInv
  BY InitInv
<1>2. PaymentInv /\ [Next]_vars => PaymentInv'
  BY StepInv
<1> QED
  BY <1>1, <1>2, PTL DEF Spec

\* The variables keep their types, and the attempts the record counts never
\* exceed the amount of the payment.
THEOREM PaymentTypes == Spec => [](TypeOK /\ SentAmt <= Amount)
<1>1. PaymentInv => TypeOK /\ SentAmt <= Amount
  BY DEF PaymentInv, RecordInv
<1> QED
  BY <1>1, PaymentInvariant, PTL

\* The answer of the network to an attempt in flight is never lost: while the
\* circuit is gone the result is in the store, whatever CleanStore removes.
THEOREM ResultKeptAlways == Spec => []ResultKept
<1>1. PaymentInv => ResultKept
  BY DEF PaymentInv, ResultInv, ResultKept, InFlightHTLCs
<1> QED
  BY <1>1, PaymentInvariant, PTL

\* A settled attempt stays in the record: no try, no collector and no restart
\* rewrites it.
THEOREM PaidIsFinalAlways == Spec => PaidIsFinal
<1>1. PaymentInv /\ [Next]_vars
        => [\A id \in Ids : htlc[id] = "settled" => htlc'[id] = "settled"]_vars
  <2> SUFFICES ASSUME PaymentInv, Next, NEW id \in Ids, htlc[id] = "settled"
               PROVE  htlc'[id] = "settled"
    OBVIOUS
  <2>1. TypeOK /\ RecordInv /\ LaunchInv
    BY DEF PaymentInv
  <2>2. id \in Settled /\ known
    BY <2>1 DEF Settled, RecordInv
  <2>3. ~Startable
    BY <2>2 DEF Startable, Status
  <2>4. ASSUME NEW j, NEW outcome, UpdateHtlc(j, outcome) PROVE htlc'[id] = "settled"
    BY <2>1, <2>4 DEF UpdateHtlc, MayUpdate, TypeOK
  <2>5. ASSUME NEW l \in Lives, RegisterAttempt(l) PROVE htlc'[id] = "settled"
    BY <2>2, <2>5 DEF RegisterAttempt, Terminal
  <2>6. ASSUME NEW l \in Lives, FailAttempt(l) PROVE htlc'[id] = "settled"
    BY <2>4, <2>6 DEF FailAttempt
  <2>7. ASSUME NEW l \in Lives, NEW j \in Ids, NotFound(l, j) \/ CollectResult(l, j)
        PROVE  htlc'[id] = "settled"
    BY <2>4, <2>7 DEF NotFound, CollectResult
  <2>8. CASE UNCHANGED htlc
    BY <2>8
  <2>9. \/ UNCHANGED htlc
        \/ \E l \in Lives : RegisterAttempt(l) \/ FailAttempt(l)
        \/ \E l \in Lives, j \in Ids : NotFound(l, j) \/ CollectResult(l, j)
    BY <2>3 DEF Next, SendPayment, Resume, CheckShards, FetchPaymentState, Timeout, NoRoute,
       RequestRoute, LaunchFails, SendHTLC, SendHTLCFails, AddPacketFails, AddPacket, SendErrorTerminal,
       SendErrorRetry, Stopped, Restart, WaitForShard, Subscribe, ShardErrorTerminal,
       ShardErrorRetry, ShardQuits, Sign, LoseAdd, StoreResult, TeardownCircuit, Answer, bucket
  <2> QED
    BY <2>5, <2>6, <2>7, <2>8, <2>9
<1> QED
  BY <1>1, PaymentInvariant, PTL DEF Spec, PaidIsFinal

\* With one goroutine at a time and links that answer, what the network can
\* claim is in the record, which has room for what the goroutine still sends.
THEOREM SoleInvariant == Spec => [](Sole => SoleInv)
<1>1. Init => (Sole => SoleInv)
  BY InitInv
<1>2. PaymentInv /\ (Sole => SoleInv) /\ [Next]_vars => (Sole => SoleInv)'
  BY StepInv
<1> QED
  BY <1>1, <1>2, PaymentInvariant, PTL DEF Spec

\* An HTLC that the receiver has claimed or can still claim is in flight or
\* settled in the record.
THEOREM LiveIsRecordedAlways == Spec => [](Sole => LiveIsRecorded)
<1>1. SoleInv => LiveIsRecorded
  BY DEF SoleInv, ClaimInv, LiveIsRecorded, Live
<1> QED
  BY <1>1, SoleInvariant, PTL

LEMMA LiveIsTotal == SumOf(Live) = Total(amt, Live)
BY DEF SumOf, Total

\* The receiver never gets more than the amount of the payment: what it can
\* claim is a part of what the record counts, which RegisterAttempt bounds.
THEOREM NeverOverpaidAlways == Spec => [](Sole => NeverOverpaid)
<1>1. PaymentInv /\ LiveIsRecorded => NeverOverpaid
  <2> SUFFICES ASSUME PaymentInv, LiveIsRecorded PROVE NeverOverpaid
    OBVIOUS
  <2>1. TypeOK /\ SentAmt <= Amount /\ SentAmt = Total(amt, Recorded)
    BY SentAmtIsTotal DEF PaymentInv, RecordInv
  <2>2. Live \in SUBSET Recorded /\ Recorded \in SUBSET Ids /\ Live \in SUBSET Ids
    BY DEF LiveIsRecorded, Live, Recorded, InFlightHTLCs, Settled
  <2>3. Total(amt, Live) <= Total(amt, Recorded)
    BY <2>1, <2>2, IdsFinite, RecordedFacts, TotalMonotone
  <2>4. Total(amt, Live) \in Nat /\ Total(amt, Recorded) \in Nat /\ Amount \in Nat
    BY <2>1, <2>2, RecordedFacts
  <2>5. Total(amt, Live) <= Amount
    BY <2>1, <2>3, <2>4
  <2> QED
    BY <2>5, LiveIsTotal DEF NeverOverpaid
<1> QED
  BY <1>1, PaymentInvariant, LiveIsRecordedAlways, PTL
=============================================================================
