------------------------------ MODULE Payments ------------------------------
(***************************************************************************)
(* One outgoing payment: its record in the database                        *)
(* (channeldb/payment_control.go), the loop that sends its attempts and    *)
(* collects their results (routing/payment_lifecycle.go, router.go), and   *)
(* the part of the switch that carries them (SendHTLC, GetPaymentResult    *)
(* and the store of network results).                                      *)
(*                                                                         *)
(* Every database transaction is one step.  life[l] is a goroutine that    *)
(* runs resumePayment and shard[l][id] the goroutine that collects the     *)
(* result of attempt id for it.  Attempts are shards of a multi-path       *)
(* payment; the network is wire[id], the HTLC in the outgoing channel.     *)
(***************************************************************************)
EXTENDS Naturals, FiniteSetsExt

CONSTANTS
  Lives,        \* goroutines that may run the payment
  Amount,       \* the amount of the payment
  Answers,      \* {TRUE}: a link that adds a local HTLC always answers; with
                \* FALSE it may stop before the sender has read its answer
  MaxAttempts,  \* bound: attempt ids handed out
  MaxTries,     \* bound: calls of SendPayment that start the payment
  MaxRestarts   \* bound: restarts of the node

ASSUME PaymentsAssumption ==
  /\ Lives # {} /\ Answers \subseteq BOOLEAN
  /\ {Amount, MaxAttempts, MaxTries, MaxRestarts} \subseteq Nat

VARIABLES
  \* The payment's bucket in the database.
  known,        \* the creation info is stored
  htlc,         \* htlc[id]: "none", "inflight", "settled" or "failed"
  failInfo,     \* a failure reason is stored
  \* The switch, on disk.
  nextId,       \* the sequencer of attempt ids
  circuit,      \* attempts that have a circuit
  result,       \* networkResultStore: "none", "settle" or "fail"
  \* The outgoing channel.
  wire,         \* wire[id]: "none", "added", "signed", "settle" or "fail"
  \* In memory.
  life,         \* the lifecycle goroutines
  shard,        \* the collector goroutines of each lifecycle
  \* Bookkeeping.
  amt,          \* the amount of each attempt
  tries,        \* payments started so far
  restarts      \* restarts so far

bucket == <<known, htlc, failInfo>>
switch == <<nextId, circuit, result>>
vars == <<known, htlc, failInfo, nextId, circuit, result, wire, life, shard,
          amt, tries, restarts>>

Ids == 1 .. MaxAttempts

\* A lifecycle goroutine: where it is, the paymentState it fetched last
\* (inflight, remaining), the attempt it is launching and the kind of its send
\* error, and whether its session is the empty one of a resumed payment.
Dead == [pc |-> "idle", inflight |-> 0, remaining |-> 0, cur |-> 0,
         err |-> "none", empty |-> FALSE, timedOut |-> FALSE]
NoShards == [id \in Ids |-> "none"]

Goto(l, pc) == life' = [life EXCEPT ![l].pc = pc]

\* The next round of the loop, or its end: the locals of the round are gone.
EndRound(l, pc) ==
  life' = [life EXCEPT ![l] = [Dead EXCEPT !.pc = pc, !.empty = life[l].empty,
                                           !.timedOut = life[l].timedOut]]

-----------------------------------------------------------------------------
(* The payment as fetchPayment computes it from the bucket.                *)

InFlightHTLCs == {id \in Ids : htlc[id] = "inflight"}
Settled == {id \in Ids : htlc[id] = "settled"}

SumOf(S) == MapThenSumSet(LAMBDA id : amt[id], S)
SentAmt == SumOf(InFlightHTLCs \cup Settled)

\* TerminalInfo returns a settle or a failure.
Terminal == Settled # {} \/ failInfo

\* Mutant: a failure reason alone makes the payment failed.
StatusByReason ==
  IF ~known THEN "Unknown"
  ELSE IF failInfo THEN "Failed"
  ELSE IF InFlightHTLCs = {} /\ Settled # {} THEN "Succeeded"
  ELSE "InFlight"

Status ==
  IF ~known THEN "Unknown"
  ELSE IF InFlightHTLCs = {} /\ Settled # {} THEN "Succeeded"
  ELSE IF InFlightHTLCs = {} /\ failInfo THEN "Failed"
  ELSE "InFlight"

\* Fail: marks the payment as long as it is known.
Fail == failInfo' = known

\* updateHtlcKey: ensureInFlight, registered, and neither failed nor settled.
MayUpdate(id) == Status = "InFlight" /\ htlc[id] = "inflight"

\* SettleAttempt and FailAttempt; an error leaves the attempt alone.
UpdateHtlc(id, outcome) ==
  htlc' = IF MayUpdate(id) THEN [htlc EXCEPT ![id] = outcome] ELSE htlc

-----------------------------------------------------------------------------
Init ==
  /\ known = FALSE /\ htlc = [id \in Ids |-> "none"] /\ failInfo = FALSE
  /\ nextId = 1 /\ circuit = {} /\ result = [id \in Ids |-> "none"]
  /\ wire = [id \in Ids |-> "none"]
  /\ life = [l \in Lives |-> Dead]
  /\ shard = [l \in Lives |-> NoShards]
  /\ amt = [id \in Ids |-> 0]
  /\ tries = 0 /\ restarts = 0

\* Mutant: a payment that succeeded may start again.
StartableOnceSettled == Status # "InFlight"

Startable == Status \in {"Unknown", "Failed"}

\* preparePayment: InitPayment refuses a payment that is in flight or paid, and
\* forgets the attempts and the failure of an earlier try.
SendPayment(l) ==
  /\ life[l].pc = "idle"
  /\ tries < MaxTries
  /\ Startable
  /\ tries' = tries + 1
  /\ known' = TRUE
  /\ htlc' = [id \in Ids |-> "none"]
  /\ failInfo' = FALSE
  /\ life' = [life EXCEPT ![l] = [Dead EXCEPT !.pc = "resume"]]
  /\ UNCHANGED <<switch, wire, shard, amt, restarts>>

-----------------------------------------------------------------------------
(* resumePayment.                                                          *)

\* A collector for every attempt that is in flight, unless they exceed the
\* amount of the payment.
Resume(l) ==
  /\ life[l].pc = "resume"
  /\ IF SentAmt > Amount
     THEN EndRound(l, "exit") /\ UNCHANGED shard
     ELSE /\ EndRound(l, "check")
          /\ shard' = [shard EXCEPT ![l] =
               [id \in Ids |-> IF id \in InFlightHTLCs THEN "collect" ELSE "none"]]
  /\ UNCHANGED <<bucket, switch, wire, amt, tries, restarts>>

\* checkShards takes what collectors offer until one offers an error.
CheckShards(l) ==
  /\ life[l].pc = "check"
  /\ IF \E id \in Ids : shard[l][id] = "error"
     THEN EndRound(l, "exit") /\ UNCHANGED shard
     ELSE /\ Goto(l, "fetch")
          /\ shard' = [shard EXCEPT ![l] =
               [id \in Ids |-> IF @[id] = "done" THEN "none" ELSE @[id]]]
  /\ UNCHANGED <<bucket, switch, wire, amt, tries, restarts>>

\* fetchPaymentState and the two cases that need no new attempt.
FetchPaymentState(l) ==
  /\ life[l].pc = "fetch"
  /\ life' = [life EXCEPT
       ![l].inflight = Cardinality(InFlightHTLCs),
       ![l].remaining = IF SentAmt > Amount THEN 0 ELSE Amount - SentAmt,
       ![l].pc =
         IF SentAmt > Amount THEN "exit"
         ELSE IF Terminal /\ InFlightHTLCs = {} THEN "exit"
         ELSE IF InFlightHTLCs # {} /\ (Terminal \/ SentAmt = Amount) THEN "wait"
         ELSE "launch"]
  /\ UNCHANGED <<bucket, switch, wire, shard, amt, tries, restarts>>

\* waitForShard blocks until a collector offers its outcome.
WaitForShard(l, id) ==
  /\ life[l].pc = "wait"
  /\ shard[l][id] \in {"done", "error"}
  /\ EndRound(l, IF shard[l][id] = "error" THEN "exit" ELSE "check")
  /\ shard' = [shard EXCEPT ![l][id] = "none"]
  /\ UNCHANGED <<bucket, switch, wire, amt, tries, restarts>>

\* The timeout channel fires once; a resumed payment has none.
Timeout(l) ==
  /\ life[l].pc = "launch"
  /\ ~life[l].timedOut /\ ~life[l].empty
  /\ Fail
  /\ life' = [life EXCEPT ![l] = [Dead EXCEPT !.pc = "check", !.timedOut = TRUE]]
  /\ UNCHANGED <<known, htlc, switch, wire, shard, amt, tries, restarts>>

\* RequestRoute finds no route; the empty session never has one.  The payment
\* fails only if nothing was in flight when the state was fetched.
NoRoute(l) ==
  /\ life[l].pc = "launch"
  /\ IF life[l].inflight = 0
     THEN Fail /\ EndRound(l, "check")
     ELSE Goto(l, "wait") /\ UNCHANGED failInfo
  /\ UNCHANGED <<known, htlc, switch, wire, shard, amt, tries, restarts>>

\* RequestRoute finds a route for a part of the remaining amount, and
\* createNewPaymentAttempt takes the next id.
RequestRoute(l, a) ==
  /\ life[l].pc = "launch"
  /\ ~life[l].empty
  /\ a \in 1 .. life[l].remaining
  /\ nextId \in Ids
  /\ nextId' = nextId + 1
  /\ amt' = [amt EXCEPT ![nextId] = a]
  /\ life' = [life EXCEPT ![l].pc = "register", ![l].cur = nextId]
  /\ UNCHANGED <<bucket, circuit, result, wire, shard, tries, restarts>>

\* Any other error of RequestRoute, and an error of createNewPaymentAttempt,
\* whose id may be taken by then, end the loop: nothing is recorded, and the
\* payment stays in flight until a restart resumes it.
LaunchFails(l) ==
  /\ life[l].pc \in {"launch", "register"}
  /\ ~life[l].empty
  /\ EndRound(l, "exit")
  /\ UNCHANGED <<bucket, switch, wire, shard, amt, tries, restarts>>

Registrable(id) == Status = "InFlight" /\ SentAmt + amt[id] <= Amount

\* RegisterAttempt, before the attempt is sent.
RegisterAttempt(l) ==
  LET id == life[l].cur IN
  /\ life[l].pc = "register"
  /\ IF Terminal THEN EndRound(l, "check") /\ UNCHANGED htlc
     ELSE IF ~Registrable(id) THEN EndRound(l, "exit") /\ UNCHANGED htlc
     ELSE Goto(l, "send") /\ htlc' = [htlc EXCEPT ![id] = "inflight"]
  /\ UNCHANGED <<known, failInfo, switch, wire, shard, amt, tries, restarts>>

\* SendHTLC has a link and commits a circuit.
SendHTLC(l) ==
  /\ life[l].pc = "send"
  /\ circuit' = circuit \cup {life[l].cur}
  /\ Goto(l, "add")
  /\ UNCHANGED <<bucket, nextId, result, wire, shard, amt, tries, restarts>>

SendFails(l, err) ==
  life' = [life EXCEPT ![l].pc = "failAttempt", ![l].err = err]

\* No link, no bandwidth or too much dust: SendHTLC fails before the circuit.
SendHTLCFails(l) ==
  /\ life[l].pc = "send"
  /\ \E err \in {"link", "internal"} : SendFails(l, err)
  /\ UNCHANGED <<bucket, switch, wire, shard, amt, tries, restarts>>

\* handleLocalAddPacket: the link adds the HTLC, and a collector starts.  When
\* the link stops just then, the sender may see the closed quit channel before
\* the answer and get ErrLinkShuttingDown.
AddPacket(l, answered) ==
  /\ life[l].pc = "add"
  /\ wire' = [wire EXCEPT ![life[l].cur] = "added"]
  /\ IF answered
     THEN EndRound(l, "check") /\ shard' = [shard EXCEPT ![l][life[l].cur] = "collect"]
     ELSE SendFails(l, "internal") /\ UNCHANGED shard
  /\ UNCHANGED <<bucket, switch, amt, tries, restarts>>

\* The link refuses the HTLC or is stopping; the circuit stays, since FailAdd
\* does nothing for a packet that is not in the mailbox.
AddPacketFails(l) ==
  /\ life[l].pc = "add"
  /\ \E err \in {"link", "internal"} : SendFails(l, err)
  /\ UNCHANGED <<bucket, switch, wire, shard, amt, tries, restarts>>

\* failAttempt, of an attempt that was not sent.
FailAttempt(l) ==
  /\ life[l].pc = "failAttempt"
  /\ UpdateHtlc(life[l].cur, "failed")
  /\ Goto(l, IF MayUpdate(life[l].cur) THEN "sendError" ELSE "exit")
  /\ UNCHANGED <<known, failInfo, switch, wire, shard, amt, tries, restarts>>

\* handleSendError, when the error ends the payment: an internal error does,
\* and mission control decides about those of the network.
SendErrorTerminal(l) ==
  /\ life[l].pc = "sendError"
  /\ Fail
  /\ EndRound(l, "exit")
  /\ UNCHANGED <<known, htlc, switch, wire, shard, amt, tries, restarts>>

SendErrorRetry(l) ==
  /\ life[l].pc = "sendError"
  /\ life[l].err = "link"
  /\ EndRound(l, "check")
  /\ UNCHANGED <<bucket, switch, wire, shard, amt, tries, restarts>>

\* The loop has returned and stop waits for the collectors.
Stopped(l) ==
  /\ life[l].pc = "exit"
  /\ shard[l] = NoShards
  /\ life' = [life EXCEPT ![l] = Dead]
  /\ UNCHANGED <<bucket, switch, wire, shard, amt, tries, restarts>>

-----------------------------------------------------------------------------
(* collectResultAsync.                                                     *)

Shard(l, id, pc) == shard' = [shard EXCEPT ![l][id] = pc]

\* GetPaymentResult knows the attempt: its circuit or its result is there.
Subscribe(l, id) ==
  /\ shard[l][id] = "collect"
  /\ id \in circuit \/ result[id] # "none"
  /\ Shard(l, id, "await")
  /\ UNCHANGED <<bucket, switch, wire, life, amt, tries, restarts>>

\* ErrPaymentIDNotFound: the attempt is taken to have never been sent.
NotFound(l, id) ==
  /\ shard[l][id] = "collect"
  /\ id \notin circuit /\ result[id] = "none"
  /\ UpdateHtlc(id, "failed")
  /\ Shard(l, id, IF MayUpdate(id) THEN "internal" ELSE "error")
  /\ UNCHANGED <<known, failInfo, switch, wire, life, amt, tries, restarts>>

\* The result is there: the attempt is settled or failed in the database.
CollectResult(l, id) ==
  /\ shard[l][id] = "await"
  /\ result[id] # "none"
  /\ UpdateHtlc(id, IF result[id] = "settle" THEN "settled" ELSE "failed")
  /\ Shard(l, id, IF ~MayUpdate(id) THEN "error"
                  ELSE IF result[id] = "settle" THEN "done" ELSE "link")
  /\ UNCHANGED <<known, failInfo, switch, wire, life, amt, tries, restarts>>

\* handleSendError in the collector, as in the loop.
ShardErrorTerminal(l, id) ==
  /\ shard[l][id] \in {"link", "internal"}
  /\ Fail
  /\ Shard(l, id, "error")
  /\ UNCHANGED <<known, htlc, switch, wire, life, amt, tries, restarts>>

ShardErrorRetry(l, id) ==
  /\ shard[l][id] = "link"
  /\ Shard(l, id, "done")
  /\ UNCHANGED <<bucket, switch, wire, life, amt, tries, restarts>>

\* The quit channel of the shard handler is closed.
ShardQuits(l, id) ==
  /\ life[l].pc = "exit"
  /\ shard[l][id] \in {"await", "done", "error"}
  /\ Shard(l, id, "none")
  /\ UNCHANGED <<bucket, switch, wire, life, amt, tries, restarts>>

-----------------------------------------------------------------------------
(* The outgoing channel and the switch.                                    *)

\* The link signs a commitment with the HTLC.
Sign(id) ==
  /\ wire[id] = "added"
  /\ wire' = [wire EXCEPT ![id] = "signed"]
  /\ UNCHANGED <<bucket, switch, life, shard, amt, tries, restarts>>

\* The link stops before it signs and forgets the HTLC: a local add is in no
\* mailbox that would replay it.
LoseAdd(id) ==
  /\ wire[id] = "added"
  /\ wire' = [wire EXCEPT ![id] = "none"]
  /\ UNCHANGED <<bucket, switch, life, shard, amt, tries, restarts>>

\* The network settles or fails the HTLC.
Answer(id, outcome) ==
  /\ wire[id] = "signed"
  /\ wire' = [wire EXCEPT ![id] = outcome]
  /\ UNCHANGED <<bucket, switch, life, shard, amt, tries, restarts>>

\* handleLocalResponse, first step: storeResult, as long as the circuit is there
\* to route the response to; a forwarding package repeats it after a restart.
StoreResult(id) ==
  /\ wire[id] \in {"settle", "fail"}
  /\ id \in circuit
  /\ result' = [result EXCEPT ![id] = wire[id]]
  /\ UNCHANGED <<bucket, nextId, circuit, wire, life, shard, amt, tries, restarts>>

\* Mutant: the circuit is removed before the result is stored.
TeardownCircuitFirst(id) ==
  /\ wire[id] \in {"settle", "fail"}
  /\ id \in circuit
  /\ circuit' = circuit \ {id}
  /\ UNCHANGED <<bucket, nextId, result, wire, life, shard, amt, tries, restarts>>

\* handleLocalResponse, last step.
TeardownCircuit(id) ==
  /\ result[id] # "none"
  /\ id \in circuit
  /\ circuit' = circuit \ {id}
  /\ UNCHANGED <<bucket, nextId, result, wire, life, shard, amt, tries, restarts>>

\* Mutant: only settled attempts keep their result.
KeepSettled == IF Status = "InFlight" THEN Settled ELSE {}

\* The results CleanStore keeps: of every attempt of a payment in flight.
ToKeep == IF Status = "InFlight" THEN {id \in Ids : htlc[id] # "none"} ELSE {}

\* The node restarts: what is not signed is lost, and ChannelRouter.Start
\* cleans the result store and resumes the payment with an empty session.
Restart(l) ==
  /\ restarts < MaxRestarts
  /\ restarts' = restarts + 1
  /\ wire' = [id \in Ids |-> IF wire[id] = "added" THEN "none" ELSE wire[id]]
  /\ result' = [id \in Ids |-> IF id \in ToKeep THEN result[id] ELSE "none"]
  /\ shard' = [m \in Lives |-> NoShards]
  /\ life' = [m \in Lives |->
       IF m = l /\ Status = "InFlight" THEN [Dead EXCEPT !.pc = "resume", !.empty = TRUE]
       ELSE Dead]
  /\ UNCHANGED <<bucket, nextId, circuit, amt, tries>>

-----------------------------------------------------------------------------
Next ==
  \/ \E l \in Lives :
       \/ SendPayment(l) \/ Resume(l) \/ CheckShards(l) \/ FetchPaymentState(l)
       \/ Timeout(l) \/ NoRoute(l) \/ \E a \in 1 .. Amount : RequestRoute(l, a)
       \/ LaunchFails(l)
       \/ RegisterAttempt(l) \/ SendHTLC(l) \/ SendHTLCFails(l)
       \/ AddPacketFails(l) \/ \E answered \in Answers : AddPacket(l, answered)
       \/ FailAttempt(l) \/ SendErrorTerminal(l) \/ SendErrorRetry(l)
       \/ Stopped(l) \/ Restart(l)
       \/ \E id \in Ids :
            \/ WaitForShard(l, id) \/ Subscribe(l, id) \/ NotFound(l, id)
            \/ CollectResult(l, id) \/ ShardErrorTerminal(l, id)
            \/ ShardErrorRetry(l, id) \/ ShardQuits(l, id)
  \/ \E id \in Ids :
       \/ Sign(id) \/ LoseAdd(id) \/ StoreResult(id) \/ TeardownCircuit(id)
       \/ \E outcome \in {"settle", "fail"} : Answer(id, outcome)

Spec == Init /\ [][Next]_vars

-----------------------------------------------------------------------------
(* Properties.                                                             *)

Lifecycle ==
  [pc : {"idle", "resume", "check", "fetch", "wait", "launch", "register", "send",
         "add", "failAttempt", "sendError", "exit"},
   inflight : 0 .. MaxAttempts, remaining : 0 .. Amount, cur : 0 .. MaxAttempts,
   err : {"none", "link", "internal"}, empty : BOOLEAN, timedOut : BOOLEAN]

\* Types of all variables.
TypeOK ==
  /\ known \in BOOLEAN /\ failInfo \in BOOLEAN
  /\ htlc \in [Ids -> {"none", "inflight", "settled", "failed"}]
  /\ nextId \in 1 .. (MaxAttempts + 1)
  /\ circuit \subseteq Ids
  /\ result \in [Ids -> {"none", "settle", "fail"}]
  /\ wire \in [Ids -> {"none", "added", "signed", "settle", "fail"}]
  /\ life \in [Lives -> Lifecycle]
  /\ shard \in [Lives -> [Ids -> {"none", "collect", "await", "internal", "link",
                                  "done", "error"}]]
  /\ amt \in [Ids -> 0 .. Amount]
  /\ tries \in 0 .. MaxTries /\ restarts \in 0 .. MaxRestarts

\* The HTLCs that the receiver has claimed or can still claim.
Live == {id \in Ids : wire[id] \in {"signed", "settle"}}

\* All tries of a payment together, through failed shards, retries and
\* restarts, never give the receiver more than the amount of the payment.
NeverOverpaid == SumOf(Live) <= Amount

\* An HTLC that the receiver has claimed or can still claim is in the payment's
\* record as in flight or settled: an attempt that the record calls failed, or
\* has forgotten, is really gone.
LiveIsRecorded == \A id \in Live : htlc[id] \in {"inflight", "settled"}

\* The result of an attempt that is in flight is never lost: while it has no
\* circuit its result is in the store, whatever restarts come.
ResultKept ==
  \A id \in InFlightHTLCs : wire[id] \in {"signed", "settle", "fail"} =>
     id \in circuit \/ result[id] = wire[id]

\* "After invoking this method, InitPayment should always return an error": a
\* settled attempt stays in the record for ever.
PaidIsFinal == [][\A id \in Ids : htlc[id] = "settled" => htlc'[id] = "settled"]_vars
=============================================================================
