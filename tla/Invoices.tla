------------------------------ MODULE Invoices ------------------------------
(***************************************************************************)
(* The invoice registry of invoices/ and channeldb/invoices.go for one       *)
(* invoice, with the exit-hop half of htlcswitch/link.go, the expiry watcher   *)
(* and, for an invoice that an atomic swap inserts, the outgoing payment of    *)
(* routing/ that decides about it.                                             *)
(*                                                                           *)
(* The invoice is regular (its preimage is known), hodl (the user settles or   *)
(* cancels it) or swap.  Every HTLC arrives on a link of its own.  An           *)
(* operation of the registry runs under its lock and is one step, except       *)
(* where it waits for another goroutine with the lock held: for the expiry      *)
(* watcher (lock = h) and for a queue that nobody reads any more ("stuck").     *)
(***************************************************************************)
EXTENDS Integers, FiniteSets, FiniteSetsExt

CONSTANTS
    Htlc,           \* HTLCs that may pay the invoice
    Scenarios,      \* the invoices and payments to look at
    MaxRestarts,    \* bound: restarts of the node
    MaxFlaps,       \* bound: times a link stops
    MaxErrors       \* bound: payment loops that give up with an attempt in flight

\* The terms of the invoice and what each HTLC carries: total[h] is the total of
\* its multi-path set, 0 for an HTLC without that record.
ASSUME InvoicesAssumption ==
    /\ IsFiniteSet(Htlc) /\ Htlc \intersect {"free", "stuck", "gone"} = {}
    /\ \A s \in Scenarios :
        /\ s.kind \in {"regular", "hodl", "swap"} /\ s.value \in Nat
        /\ s.amt \in [Htlc -> Nat] /\ s.total \in [Htlc -> Nat]
    /\ MaxRestarts \in Nat /\ MaxFlaps \in Nat /\ MaxErrors \in Nat

VARIABLES
    sc,         \* the scenario
    state,      \* state of the invoice, on disk; "absent" before a swap adds it
    htlc,       \* htlc[h]: state of the HTLC on the invoice, on disk
    arrived,    \* HTLCs locked in on their links, on disk
    ans,        \* ans[h]: the answer in a signed commitment, on disk
    pay,        \* status of the swap's outgoing payment, on disk
    link,       \* link[h]: "up", "stopping" or "down"
    stage,      \* stage[h]: where the link is with the HTLC
    res,        \* res[h]: the resolution the link has and has not signed
    subs,       \* subs[h]: hodl subscriptions, by live and by stopped queues
    timers,     \* HTLCs with an auto-release timer
    lock,       \* who waits with the registry's lock held
    watcher,    \* what the expiry watcher is doing
    queued,     \* entries of the watcher: "time", "height"
    loops,      \* goroutines of the swap's payment: where each is, and the call of
                \* NotifyExitHopHtlc whose err variable it shares while that runs
    restarts, flaps, errors     \* faults so far

disk == <<state, htlc, arrived, ans, pay>>
memory == <<link, stage, res, subs, timers, lock, watcher, queued, loops>>
faults == <<restarts, flaps, errors>>
vars == <<sc, disk, memory, faults>>

TypeOK ==
    /\ sc \in Scenarios
    /\ state \in {"absent", "open", "accepted", "settled", "canceled"}
    /\ htlc \in [Htlc -> {"none", "accepted", "settled", "canceled"}]
    /\ arrived \subseteq Htlc
    /\ ans \in [Htlc -> {"none", "settle", "fail"}]
    /\ pay \in {"none", "inflight", "settled", "failed"}
    /\ link \in [Htlc -> {"up", "stopping", "down"}]
    /\ stage \in [Htlc -> {"none", "swap", "watch", "nil", "err", "notify", "adding", "held"}]
    /\ res \in [Htlc -> {"none", "settle", "fail"}]
    /\ subs \in [Htlc -> SUBSET {"live", "dead"}]
    /\ timers \subseteq Htlc
    /\ lock \in {"free", "stuck"} \union Htlc
    /\ watcher \in {"idle", "time", "height"}
    /\ queued \subseteq {"time", "height"}
    /\ loops \subseteq [of : Htlc \union {"gone"}, at : {"init", "run", "settle", "cancel"}]
    /\ restarts \in 0..MaxRestarts /\ flaps \in 0..MaxFlaps /\ errors \in 0..MaxErrors

Swap == sc.kind = "swap"
Hodl == sc.kind # "regular"

Init ==
    /\ sc \in Scenarios
    /\ state = IF Swap THEN "absent" ELSE "open"
    /\ htlc = [h \in Htlc |-> "none"]
    /\ arrived = {}
    /\ ans = [h \in Htlc |-> "none"]
    /\ pay = "none"
    /\ link = [h \in Htlc |-> "up"]
    /\ stage = [h \in Htlc |-> "none"]
    /\ res = [h \in Htlc |-> "none"]
    /\ subs = [h \in Htlc |-> {}]
    /\ timers = {}
    /\ lock = "free" /\ watcher = "idle"
    /\ queued = IF Swap THEN {} ELSE {"time"}
    /\ loops = {}
    /\ restarts = 0 /\ flaps = 0 /\ errors = 0

----------------------------------------------------------------------------
(* Updates of the invoice record. *)

Accepted(f) == {h \in Htlc : f[h] = "accepted"}
Sum(H) == MapThenSumSet(LAMBDA h : sc.amt[h], H)

\* updateHtlc: the HTLCs follow the state of the invoice.
AlignHtlcs(f, s) ==
    [h \in Htlc |-> IF f[h] = "accepted" /\ s \in {"settled", "canceled"} THEN s ELSE f[h]]

\* What an update decided: the resolution of this HTLC, and the record after it.
Decide(outcome, s, f) == [outcome |-> outcome, state |-> s, htlc |-> AlignHtlcs(f, s)]
Refuse == Decide("fail", state, htlc)
Record(h) == [htlc EXCEPT ![h] = "accepted"]
\* The set is complete: a hodl invoice waits for its preimage.
Complete(h) == IF Hodl THEN Decide("accepted", "accepted", Record(h))
               ELSE Decide("settle", "settled", Record(h))

\* A replayed HTLC changes nothing.
Replay(h) ==
    Decide(CASE htlc[h] = "canceled" -> "fail"
             [] htlc[h] = "accepted" -> "hold"
             [] htlc[h] = "settled" -> "settle", state, htlc)

updateLegacy(h, reject) ==
    IF \/ state = "canceled" \/ sc.amt[h] < sc.value
       \/ \E g \in Accepted(htlc) : sc.total[g] > 0
       \/ reject
    THEN Refuse
    ELSE CASE state = "accepted" -> Decide("hold", state, Record(h))
           [] state = "settled" -> Decide("settle", state, Record(h))
           [] OTHER -> Complete(h)

\* A bug: a set that goes past its total is complete.
updateMppOverpaid(h, reject) ==
    IF \/ state # "open" \/ sc.total[h] = 0 \/ sc.total[h] < sc.value \/ reject
       \/ \E g \in Accepted(htlc) : sc.total[g] # sc.total[h]
    THEN Refuse
    ELSE Complete(h)

updateMpp(h, reject) ==
    IF \/ state # "open" \/ sc.total[h] < sc.value
       \/ \E g \in Accepted(htlc) : sc.total[g] # sc.total[h]
       \/ Sum(Accepted(htlc) \union {h}) > sc.total[h]
       \/ reject
    THEN Refuse
    ELSE IF Sum(Accepted(htlc) \union {h}) = sc.total[h] THEN Complete(h)
    ELSE Decide("hold", state, Record(h))

\* updateInvoice; reject stands for an address that does not match and an expiry
\* that is too soon (processAtomicSwap has already checked both for a swap).
updateInvoice(h, reject) ==
    IF state = "absent" THEN Refuse
    ELSE IF htlc[h] # "none" THEN Replay(h)
    ELSE IF sc.total[h] = 0 THEN updateLegacy(h, reject)
    ELSE updateMpp(h, reject)

----------------------------------------------------------------------------
(* Subscriptions. *)

MyQueue(h) == IF link[h] = "up" THEN "live" ELSE "dead"

\* notifyHodlSubscribers for each HTLC of H, with the registry's lock held: a
\* queue that has stopped takes nothing and the lock is never released.
Notify(H, r, first) ==
    LET heard == {h \in H : "live" \in subs[h]}
    IN IF \E h \in H : "dead" \in subs[h]
       THEN /\ lock' = "stuck"
            /\ \E told \in SUBSET heard :
                 res' = [h \in Htlc |-> IF h \in told \union first THEN r ELSE res[h]]
            /\ UNCHANGED subs
       ELSE /\ lock' = "free"
            /\ res' = [h \in Htlc |-> IF h \in heard \union first THEN r ELSE res[h]]
            /\ subs' = [h \in Htlc |-> IF h \in H THEN {} ELSE subs[h]]

----------------------------------------------------------------------------
(* The link hands the HTLC to the registry. *)

Arrive(h) ==
    /\ link[h] = "up" /\ h \notin arrived
    /\ arrived' = arrived \union {h}
    /\ stage' = [stage EXCEPT ![h] = IF Swap THEN "swap" ELSE "notify"]
    /\ UNCHANGED <<sc, state, htlc, ans, pay, link, res, subs, timers, lock,
                   watcher, queued, loops, faults>>

\* A goroutine starts the payment of the swap.  It assigns the variable err that
\* processAtomicSwap is about to return (stage "nil" or "err"); before that it is
\* what AddInvoice returned.
StartPayment(h, err) ==
    /\ stage' = [stage EXCEPT ![h] = err]
    /\ loops' = loops \union {[of |-> h, at |-> "init"]}

\* processAtomicSwap, which every call of NotifyExitHopHtlc makes: AddInvoice
\* inserts the hodl invoice under the lock, or finds that it exists.
processAtomicSwap(h) ==
    /\ link[h] # "down" /\ stage[h] = "swap" /\ lock = "free"
    /\ \E reject \in BOOLEAN :
        IF reject \/ sc.total[h] > 0
        THEN /\ res' = [res EXCEPT ![h] = "fail"]
             /\ stage' = [stage EXCEPT ![h] = "held"]
             /\ UNCHANGED <<state, loops>>
        ELSE /\ IF state = "absent"
                THEN /\ state' = "open"
                     /\ stage' = [stage EXCEPT ![h] = "watch"]
                     /\ UNCHANGED loops
                ELSE StartPayment(h, "err") /\ UNCHANGED state
             /\ UNCHANGED res
    /\ UNCHANGED <<sc, htlc, arrived, ans, pay, link, subs, timers, lock,
                   watcher, queued, faults>>

\* The end of AddInvoice, without the lock: the watcher takes the new invoice.
AddInvoice(h) ==
    /\ stage[h] = "watch" /\ watcher = "idle"
    /\ queued' = queued \union {"time"}
    /\ StartPayment(h, "nil")
    /\ UNCHANGED <<sc, disk, link, res, subs, timers, lock, watcher, faults>>

\* The call returns err: NotifyExitHopHtlc fails the HTLC unless it is nil.
processAtomicSwapReturns(h) ==
    /\ stage[h] \in {"nil", "err"}
    /\ loops' = {IF l.of = h THEN [l EXCEPT !.of = "gone"] ELSE l : l \in loops}
    /\ IF stage[h] = "nil"
       THEN stage' = [stage EXCEPT ![h] = "notify"] /\ UNCHANGED res
       ELSE stage' = [stage EXCEPT ![h] = "held"] /\ res' = [res EXCEPT ![h] = "fail"]
    /\ UNCHANGED <<sc, disk, link, subs, timers, lock, watcher, queued, faults>>

\* NotifyExitHopHtlc, up to where it may wait for the watcher.
NotifyExitHopHtlc(h) ==
    /\ link[h] # "down" /\ stage[h] = "notify" /\ lock = "free"
    /\ \E reject \in IF Swap THEN {FALSE} ELSE BOOLEAN :
        LET u == updateInvoice(h, reject)
        IN /\ state' = u.state
           /\ htlc' = u.htlc
           /\ stage' = [stage EXCEPT ![h] = IF u.outcome = "accepted" THEN "adding" ELSE "held"]
           /\ CASE u.outcome = "fail" ->
                     /\ res' = [res EXCEPT ![h] = "fail"]
                     /\ UNCHANGED <<subs, lock, timers>>
                [] u.outcome = "settle" ->
                     /\ Notify({g \in Htlc : u.htlc[g] = "settled"} \ {h}, "settle", {h})
                     /\ UNCHANGED timers
                [] u.outcome = "hold" ->
                     /\ subs' = [subs EXCEPT ![h] = @ \union {MyQueue(h)}]
                     /\ timers' = IF u.state = "open" THEN timers \union {h} ELSE timers
                     /\ UNCHANGED <<res, lock>>
                [] u.outcome = "accepted" ->
                     /\ lock' = h
                     /\ UNCHANGED <<res, subs, timers>>
    /\ UNCHANGED <<sc, arrived, ans, pay, link, watcher, queued, loops, faults>>

\* AddInvoices of the watcher, called with the lock held: it returns when the
\* watcher takes the invoice; then the link is subscribed.
AddInvoices(h) ==
    /\ lock = h /\ watcher = "idle"
    /\ queued' = queued \union {"height"}
    /\ subs' = [subs EXCEPT ![h] = @ \union {MyQueue(h)}]
    /\ stage' = [stage EXCEPT ![h] = "held"]
    /\ lock' = "free"
    /\ UNCHANGED <<sc, disk, link, res, timers, watcher, loops, faults>>

\* The link signs a commitment with the answer.
SignAnswer(h) ==
    /\ link[h] # "down" /\ res[h] # "none" /\ stage[h] = "held"
    /\ ans' = [ans EXCEPT ![h] = res[h]]
    /\ res' = [res EXCEPT ![h] = "none"]
    /\ stage' = [stage EXCEPT ![h] = "none"]
    /\ UNCHANGED <<sc, state, htlc, arrived, pay, link, subs, timers, lock,
                   watcher, queued, loops, faults>>

----------------------------------------------------------------------------
(* Settling and cancelling. *)

\* A bug: an invoice that is only open is settled.
SettleableOpen == state \in {"open", "accepted"}

\* SettleHodlInvoice fails unless the invoice is accepted.
Settleable == state = "accepted"

SettleHodlInvoice ==
    /\ lock = "free"
    /\ IF Settleable
       THEN /\ state' = "settled"
            /\ htlc' = AlignHtlcs(htlc, "settled")
            /\ Notify({h \in Htlc : htlc'[h] = "settled"}, "settle", {})
       ELSE UNCHANGED <<state, htlc, res, subs, lock>>

\* cancelInvoiceImpl: an accepted invoice only when it is forced.
cancelInvoiceImpl(force) ==
    /\ lock = "free"
    /\ IF state = "open" \/ (state = "accepted" /\ force)
       THEN /\ state' = "canceled"
            /\ htlc' = AlignHtlcs(htlc, "canceled")
            /\ Notify({h \in Htlc : htlc'[h] = "canceled"}, "fail", {})
       ELSE UNCHANGED <<state, htlc, res, subs, lock>>

\* The user of a hodl invoice decides.
UserSettles ==
    /\ sc.kind = "hodl" /\ Settleable
    /\ SettleHodlInvoice
    /\ UNCHANGED <<sc, arrived, ans, pay, link, stage, timers, watcher, queued,
                   loops, faults>>
UserCancels ==
    /\ ~Swap /\ state \in {"open", "accepted"}
    /\ cancelInvoiceImpl(TRUE)
    /\ UNCHANGED <<sc, arrived, ans, pay, link, stage, timers, watcher, queued,
                   loops, faults>>

\* A bug: the timer of a set does not look at the state of the invoice.
ReleasableAlways(h) == htlc[h] \in {"accepted", "settled"}

\* Only an accepted HTLC of an open invoice is released.
Releasable(h) == state = "open" /\ htlc[h] = "accepted"

\* The auto-release timer of an HTLC fires.
cancelSingleHtlc(h) ==
    /\ h \in timers /\ lock = "free"
    /\ timers' = timers \ {h}
    /\ IF Releasable(h)
       THEN /\ htlc' = [htlc EXCEPT ![h] = "canceled"]
            /\ Notify({h}, "fail", {})
       ELSE UNCHANGED <<htlc, res, subs, lock>>
    /\ UNCHANGED <<sc, state, arrived, ans, pay, link, stage, watcher, queued,
                   loops, faults>>

\* The watcher finds an entry that has expired.
Expire(w) ==
    /\ watcher = "idle" /\ w \in queued
    /\ watcher' = w
    /\ UNCHANGED <<sc, disk, link, stage, res, subs, timers, lock, queued, loops,
                   faults>>

\* It cancels the invoice: by force at the height of its HTLCs, or when the
\* invoice was inserted without a payment request.
cancelNextExpiredInvoice ==
    /\ watcher # "idle"
    /\ cancelInvoiceImpl(watcher = "height" \/ Swap)
    /\ queued' = queued \ {watcher}
    /\ watcher' = "idle"
    /\ UNCHANGED <<sc, arrived, ans, pay, link, stage, timers, loops, faults>>

----------------------------------------------------------------------------
(* The outgoing payment of a swap. *)

Advance(l, to) == loops' = (loops \ {l}) \union {[l EXCEPT !.at = to]} /\ UNCHANGED stage
\* The goroutine ends and assigns err.
Ends(l, err) ==
    /\ loops' = loops \ {l}
    /\ stage' = [h \in Htlc |-> IF l.of = h THEN err ELSE stage[h]]

\* SendPayment: a payment that is in flight or paid is not started again.
SendPayment(l) ==
    /\ l.at = "init"
    /\ IF pay \in {"none", "failed"}
       THEN pay' = "inflight" /\ Advance(l, "run")
       ELSE UNCHANGED pay /\ Ends(l, "err")
    /\ UNCHANGED <<sc, state, htlc, arrived, ans, link, res, subs, timers,
                   lock, watcher, queued, faults>>

\* The payment ends; the loop then settles or cancels the invoice.
PaymentEnds(l) ==
    /\ l.at = "run" /\ pay = "inflight"
    /\ \E r \in {"settled", "failed"} :
        pay' = r /\ Advance(l, IF r = "settled" THEN "settle" ELSE "cancel")
    /\ UNCHANGED <<sc, state, htlc, arrived, ans, link, res, subs, timers,
                   lock, watcher, queued, faults>>

\* resumePayment returns an error with a shard in flight, as it does when the
\* router stops or its database fails; sendPayment cancels the invoice.
LoopFails(l) ==
    /\ l.at = "run" /\ errors < MaxErrors
    /\ errors' = errors + 1
    /\ Advance(l, "cancel")
    /\ UNCHANGED <<sc, disk, link, res, subs, timers, lock, watcher, queued, restarts, flaps>>

\* resumePayment settles the invoice, and only logs that it could not.
LoopSettles(l) ==
    /\ l.at = "settle" /\ SettleHodlInvoice
    /\ Ends(l, "nil")
    /\ UNCHANGED <<sc, arrived, ans, pay, link, timers, watcher, queued, faults>>

LoopCancels(l) ==
    /\ l.at = "cancel" /\ cancelInvoiceImpl(TRUE)
    /\ Ends(l, "err")
    /\ UNCHANGED <<sc, arrived, ans, pay, link, timers, watcher, queued, faults>>

----------------------------------------------------------------------------
(* Links stop and start, the node restarts. *)

\* Stop: the link unsubscribes and stops its queue, and only then is told to quit.
StopLink(h) ==
    /\ link[h] = "up" /\ lock = "free" /\ flaps < MaxFlaps
    /\ flaps' = flaps + 1
    /\ link' = [link EXCEPT ![h] = "stopping"]
    /\ subs' = [subs EXCEPT ![h] = @ \ {"live"}]
    /\ UNCHANGED <<sc, disk, stage, res, timers, lock, watcher, queued, loops, restarts, errors>>

LinkExits(h) ==
    /\ link[h] = "stopping" /\ stage[h] \in {"none", "held"}
    /\ link' = [link EXCEPT ![h] = "down"]
    /\ stage' = [stage EXCEPT ![h] = "none"]
    /\ res' = [res EXCEPT ![h] = "none"]
    /\ UNCHANGED <<sc, disk, subs, timers, lock, watcher, queued, loops, faults>>

\* A bug: a link that starts does not ask again about the HTLCs it has.
StartForgets(h) ==
    /\ link[h] = "down" /\ link' = [link EXCEPT ![h] = "up"]
    /\ UNCHANGED <<sc, disk, stage, res, subs, timers, lock, watcher, queued,
                   loops, faults>>

\* A link that starts replays the HTLCs it has not answered.
StartLink(h) ==
    /\ link[h] = "down" /\ link' = [link EXCEPT ![h] = "up"]
    /\ stage' = [stage EXCEPT ![h] =
        IF h \in arrived /\ ans[h] = "none" THEN IF Swap THEN "swap" ELSE "notify"
        ELSE "none"]
    /\ UNCHANGED <<sc, disk, res, subs, timers, lock, watcher, queued, loops,
                   faults>>

\* The watcher gets the pending invoices and the router resumes its payments.
Restart ==
    /\ restarts < MaxRestarts
    /\ restarts' = restarts + 1
    /\ link' = [h \in Htlc |-> "down"]
    /\ stage' = [h \in Htlc |-> "none"]
    /\ res' = [h \in Htlc |-> "none"]
    /\ subs' = [h \in Htlc |-> {}]
    /\ timers' = {} /\ lock' = "free" /\ watcher' = "idle"
    /\ queued' = CASE state = "open" -> {"time"}
                   [] state = "accepted" -> {"height"}
                   [] OTHER -> {}
    /\ loops' = IF pay = "inflight" THEN {[of |-> "gone", at |-> "run"]} ELSE {}
    /\ UNCHANGED <<sc, disk, flaps, errors>>

----------------------------------------------------------------------------
Next ==
    \/ \E h \in Htlc :
        \/ Arrive(h) \/ processAtomicSwap(h) \/ AddInvoice(h)
        \/ processAtomicSwapReturns(h) \/ NotifyExitHopHtlc(h)
        \/ AddInvoices(h) \/ SignAnswer(h) \/ cancelSingleHtlc(h)
        \/ StopLink(h) \/ LinkExits(h) \/ StartLink(h)
    \/ UserSettles \/ UserCancels
    \/ \E w \in {"time", "height"} : Expire(w)
    \/ cancelNextExpiredInvoice
    \/ \E l \in loops :
        \/ SendPayment(l) \/ PaymentEnds(l) \/ LoopFails(l) \/ LoopSettles(l)
        \/ LoopCancels(l)
    \/ Restart

Spec == Init /\ [][Next]_vars

\* Goroutines run, timers fire, time and height pass, links come back.
FairSpec ==
    /\ Spec
    /\ \A h \in Htlc :
        /\ WF_vars(processAtomicSwap(h)) /\ WF_vars(AddInvoice(h))
        /\ WF_vars(processAtomicSwapReturns(h)) /\ WF_vars(NotifyExitHopHtlc(h))
        /\ WF_vars(AddInvoices(h)) /\ WF_vars(SignAnswer(h))
        /\ WF_vars(cancelSingleHtlc(h)) /\ WF_vars(LinkExits(h)) /\ WF_vars(StartLink(h))
    /\ \A w \in {"time", "height"} : WF_vars(Expire(w))
    /\ WF_vars(cancelNextExpiredInvoice)

----------------------------------------------------------------------------
(* Properties. *)

\* An invoice is settled only when it is paid in full: whatever order the HTLCs of
\* a set, their timeouts, replays and restarts come in, the HTLCs settled on a
\* settled invoice add up to its value at least.
PaidInFull ==
    state = "settled" => Sum({h \in Htlc : htlc[h] = "settled"}) >= sc.value

\* The answer that a link signs and the record of the invoice agree for ever: a
\* settled HTLC is settled on the invoice and a failed one never is, although the
\* resolution travels through a queue while timers, cancellation and restarts
\* change the record.  (The second part is not true of swaps: see SwapIsAtomic.)
AnswerMatchesRecord ==
    \A h \in Htlc :
        /\ ans[h] = "settle" => htlc[h] = "settled"
        /\ ans[h] = "fail" /\ ~Swap => htlc[h] \in {"none", "canceled"}

\* The swap is atomic for the node in the middle: once its incoming HTLC is failed
\* back, the outgoing payment is neither made nor under way.
SwapIsAtomic ==
    Swap /\ arrived # {} /\ (\A h \in arrived : ans[h] = "fail")
        => pay \notin {"inflight", "settled"}

\* The registry waits with its lock held for a watcher that waits for the lock, or
\* for a queue that nobody reads.
WatcherWaits == lock \in Htlc /\ watcher # "idle"
Stuck == WatcherWaits \/ lock = "stuck"

\* Every HTLC that arrives is eventually answered, through replays, restarts,
\* timeouts and expiry, unless the registry is stuck with its lock held.
EventuallyAnswered ==
    \A h \in Htlc : h \in arrived ~> (ans[h] # "none" \/ Stuck)
=============================================================================
