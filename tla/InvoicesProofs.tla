--------------------------- MODULE InvoicesProofs ---------------------------
(***************************************************************************)
(* Proofs about Invoices, for any number of HTLCs, any amounts and totals,   *)
(* and any number of stopped links and restarts.  What has to hold of the     *)
(* record, the resolutions on their way and the links together, so that an     *)
(* invoice is paid in full and every answer is the one on record, is           *)
(* InvoiceInv.                                                               *)
(***************************************************************************)
EXTENDS Invoices, SumTheorems

\* A record in state s with the HTLCs f is paid, or waits for the preimage with
\* HTLCs that pay it.
SettledOn(f) == {h \in Htlc : f[h] = "settled"}
PaidOK(amt, value, s, f) ==
    /\ s = "accepted" => Total(amt, Accepted(f)) >= value
    /\ s = "settled" => Total(amt, SettledOn(f)) >= value

\* The link is between taking the HTLC up and the end of NotifyExitHopHtlc.
Asking(h) == stage[h] \in {"swap", "watch", "nil", "err", "notify", "adding"}
\* No resolution is with the link, and none can come to it.
Quiet(h) == res[h] = "none" /\ "live" \notin subs[h]

\* Resolutions and answers follow the record, and a link asks about an HTLC only
\* while it has no answer.
HtlcOK(h) ==
    /\ res[h] = "settle" \/ ans[h] = "settle" => htlc[h] = "settled"
    /\ ~Swap /\ (res[h] = "fail" \/ ans[h] = "fail") => htlc[h] \in {"none", "canceled"}
    /\ stage[h] \in {"swap", "watch", "nil", "err"} => Swap
    /\ Asking(h) => Quiet(h) /\ ans[h] = "none"
    /\ link[h] # "up" => "live" \notin subs[h]
    /\ link[h] = "down" => Quiet(h) /\ stage[h] = "none"
    /\ h \notin arrived => Quiet(h) /\ ans[h] = "none" /\ stage[h] = "none"
HtlcInv == \A h \in Htlc : HtlcOK(h)

\* Who holds the lock or shares a variable with a goroutine is still in its call.
LockInv == \A h \in Htlc : lock = h => stage[h] = "adding"
LoopInv == \A l \in loops : l.of \in Htlc => stage[l.of] \in {"nil", "err"}

RecordInv ==
    /\ PaidOK(sc.amt, sc.value, state, htlc)
    /\ state = "absent" => Swap

InvoiceInv == TypeOK /\ RecordInv /\ HtlcInv /\ LockInv /\ LoopInv
-----------------------------------------------------------------------------
(* Sums. *)

LEMMA ScenarioFacts ==
    ASSUME sc \in Scenarios
    PROVE  /\ IsFiniteSet(Htlc) /\ sc.value \in Nat
           /\ sc.amt \in [Htlc -> Nat] /\ sc.total \in [Htlc -> Nat]
           /\ sc.kind \in {"regular", "hodl", "swap"}
BY InvoicesAssumption

LEMMA SumIsTotal == \A H : Sum(H) = Total(sc.amt, H)
BY DEF Sum, Total

LEMMA TotalFacts ==
    ASSUME sc \in Scenarios
    PROVE  /\ \A S \in SUBSET Htlc : Total(sc.amt, S) \in Nat
           /\ \A S \in SUBSET Htlc : \A T \in SUBSET S : Total(sc.amt, T) <= Total(sc.amt, S)
           /\ \A h \in Htlc : Total(sc.amt, {h}) = sc.amt[h]
<1>1. IsFiniteSet(Htlc) /\ \A h \in Htlc : sc.amt[h] \in Nat
  BY ScenarioFacts
<1>2. \A S \in SUBSET Htlc : IsFiniteSet(S)
  BY <1>1, FS_Subset
<1>3. \A S \in SUBSET Htlc : Total(sc.amt, S) \in Nat
  BY <1>1, <1>2, TotalType
<1>4. \A S \in SUBSET Htlc : \A T \in SUBSET S : Total(sc.amt, T) <= Total(sc.amt, S)
  BY <1>1, TotalMonotone
<1>5. ASSUME NEW h \in Htlc PROVE Total(sc.amt, {h}) = sc.amt[h]
  <2>1. {} \in SUBSET Htlc /\ h \in Htlc \ {} /\ {} \cup {h} = {h}
    OBVIOUS
  <2>2. Total(sc.amt, {} \cup {h}) = Total(sc.amt, {}) + sc.amt[h]
    BY <1>1, <2>1, TotalAdd
  <2> QED
    BY <1>1, <2>1, <2>2, TotalEmpty
<1> QED
  BY <1>3, <1>4, <1>5

\* A record stays paid while its HTLCs stay.
LEMMA PaidGrows ==
    ASSUME sc \in Scenarios, NEW s, NEW f, NEW g, PaidOK(sc.amt, sc.value, s, f),
           s = "accepted" => Accepted(f) \subseteq Accepted(g),
           s = "settled" => SettledOn(f) \subseteq SettledOn(g)
    PROVE  PaidOK(sc.amt, sc.value, s, g)
<1>1. /\ Accepted(g) \in SUBSET Htlc /\ SettledOn(g) \in SUBSET Htlc
      /\ Accepted(f) \in SUBSET Htlc /\ SettledOn(f) \in SUBSET Htlc
  BY DEF Accepted, SettledOn
<1>2. s = "accepted" => Total(sc.amt, Accepted(f)) <= Total(sc.amt, Accepted(g))
  BY <1>1, TotalFacts
<1>3. s = "settled" => Total(sc.amt, SettledOn(f)) <= Total(sc.amt, SettledOn(g))
  BY <1>1, TotalFacts
<1>4. /\ Total(sc.amt, Accepted(f)) \in Nat /\ Total(sc.amt, Accepted(g)) \in Nat
      /\ Total(sc.amt, SettledOn(f)) \in Nat /\ Total(sc.amt, SettledOn(g)) \in Nat
      /\ sc.value \in Nat
  BY <1>1, TotalFacts, ScenarioFacts
<1> QED
  BY <1>2, <1>3, <1>4 DEF PaidOK
-----------------------------------------------------------------------------
(* Updates of the record. *)

HtlcStates == {"none", "accepted", "settled", "canceled"}

\* The HTLCs g come after f: settled and canceled are final, and only h is new.
Later(f, g, h) ==
    \A x \in Htlc : /\ f[x] \in {"settled", "canceled"} => g[x] = f[x]
                    /\ f[x] = "none" /\ x # h => g[x] = "none"

LEMMA AlignFacts ==
    ASSUME NEW f \in [Htlc -> HtlcStates],
           NEW s \in {"absent", "open", "accepted", "settled", "canceled"}
    PROVE  /\ AlignHtlcs(f, s) \in [Htlc -> HtlcStates]
           /\ \A h \in Htlc : /\ f[h] # "accepted" => AlignHtlcs(f, s)[h] = f[h]
                              /\ f[h] = "accepted" /\ s \in {"settled", "canceled"} => AlignHtlcs(f, s)[h] = s
                              /\ f[h] = "accepted" /\ s \notin {"settled", "canceled"}
                                    => AlignHtlcs(f, s)[h] = f[h]
           /\ s = "accepted" => Accepted(AlignHtlcs(f, s)) = Accepted(f)
           /\ s = "settled" => SettledOn(AlignHtlcs(f, s)) = SettledOn(f) \union Accepted(f)
<1> DEFINE g == AlignHtlcs(f, s)
<1>1. \A h \in Htlc : g[h] = IF f[h] = "accepted" /\ s \in {"settled", "canceled"} THEN s ELSE f[h]
  BY DEF AlignHtlcs
<1>2. g \in [Htlc -> HtlcStates]
  BY DEF AlignHtlcs, HtlcStates
<1> HIDE DEF g
<1>3. s = "accepted" => Accepted(g) = Accepted(f)
  BY <1>1 DEF Accepted
<1>4. s = "settled" => SettledOn(g) = SettledOn(f) \union Accepted(f)
  BY <1>1 DEF Accepted, SettledOn
<1> QED
  BY <1>1, <1>2, <1>3, <1>4 DEF g

\* What an update may do to the record.
UpdateOK(u, h) ==
    /\ u.outcome \in {"fail", "settle", "hold", "accepted"}
    /\ u.state \in {"absent", "open", "accepted", "settled", "canceled"}
    /\ u.htlc \in [Htlc -> HtlcStates] /\ Later(htlc, u.htlc, h)
    /\ PaidOK(sc.amt, sc.value, u.state, u.htlc)
    /\ u.state = "absent" => state = "absent"
    /\ u.state = "settled" => state = "settled" \/ ~Hodl
    /\ u.outcome = "settle" => u.htlc[h] = "settled"
    /\ u.outcome = "fail" /\ ~Swap => u.htlc[h] \in {"none", "canceled"}

\* The record as it is, whatever the outcome.
LEMMA SameRecord ==
    ASSUME TypeOK, RecordInv, NEW h \in Htlc,
           NEW outcome \in {"fail", "settle", "hold", "accepted"},
           outcome = "settle" => htlc[h] = "settled",
           outcome = "fail" /\ ~Swap => htlc[h] \in {"none", "canceled"}
    PROVE  UpdateOK(Decide(outcome, state, htlc), h)
<1> DEFINE g == AlignHtlcs(htlc, state)
           u == Decide(outcome, state, htlc)
<1>1. /\ sc \in Scenarios /\ htlc \in [Htlc -> HtlcStates]
      /\ state \in {"absent", "open", "accepted", "settled", "canceled"}
  BY DEF TypeOK, HtlcStates
<1>2. u.outcome = outcome /\ u.state = state /\ u.htlc = g
  BY DEF Decide
<1>3. /\ g \in [Htlc -> HtlcStates]
      /\ \A x \in Htlc : htlc[x] # "accepted" => g[x] = htlc[x]
      /\ state = "accepted" => Accepted(g) = Accepted(htlc)
      /\ state = "settled" => SettledOn(g) = SettledOn(htlc) \union Accepted(htlc)
  BY <1>1, AlignFacts
<1> HIDE DEF g, u
<1>4. Later(htlc, g, h)
  BY <1>3 DEF Later
<1>5. PaidOK(sc.amt, sc.value, state, g)
  BY <1>1, <1>3, PaidGrows DEF RecordInv
<1>6. htlc[h] \in {"none", "canceled", "settled"} => g[h] = htlc[h]
  BY <1>3
<1> QED
  BY <1>1, <1>2, <1>3, <1>4, <1>5, <1>6 DEF UpdateOK, u

\* The HTLC is added to a record that stays in its state.
LEMMA AddedRecord ==
    ASSUME TypeOK, RecordInv, NEW h \in Htlc, htlc[h] = "none",
           NEW outcome \in {"hold", "settle"}, outcome = "settle" => state = "settled"
    PROVE  UpdateOK(Decide(outcome, state, Record(h)), h)
<1> DEFINE f == Record(h)
           g == AlignHtlcs(f, state)
           u == Decide(outcome, state, f)
<1>1. /\ sc \in Scenarios /\ htlc \in [Htlc -> HtlcStates]
      /\ state \in {"absent", "open", "accepted", "settled", "canceled"}
  BY DEF TypeOK, HtlcStates
<1>2. u.outcome = outcome /\ u.state = state /\ u.htlc = g
  BY DEF Decide
<1>3. /\ f \in [Htlc -> HtlcStates] /\ f[h] = "accepted"
      /\ \A x \in Htlc : x # h => f[x] = htlc[x]
  BY <1>1 DEF Record, HtlcStates
<1> HIDE DEF f
<1>4. /\ g \in [Htlc -> HtlcStates]
      /\ \A x \in Htlc : f[x] # "accepted" => g[x] = f[x]
      /\ f[h] = "accepted" /\ state \in {"settled", "canceled"} => g[h] = state
      /\ state = "accepted" => Accepted(g) = Accepted(f)
      /\ state = "settled" => SettledOn(g) = SettledOn(f) \union Accepted(f)
  BY <1>1, <1>3, AlignFacts
<1> HIDE DEF g, u
<1>5. Later(htlc, g, h)
  BY <1>3, <1>4 DEF Later
<1>6. Accepted(htlc) \subseteq Accepted(f) /\ SettledOn(htlc) \subseteq SettledOn(f)
  BY <1>3 DEF Accepted, SettledOn
<1>7. PaidOK(sc.amt, sc.value, state, g)
  BY <1>1, <1>4, <1>6, PaidGrows DEF RecordInv
<1> QED
  BY <1>1, <1>2, <1>3, <1>4, <1>5, <1>7 DEF UpdateOK, u, f

\* The HTLC completes a set that pays the invoice.
LEMMA CompleteRecord ==
    ASSUME TypeOK, NEW h \in Htlc, htlc[h] = "none", state # "absent",
           Total(sc.amt, Accepted(htlc) \union {h}) >= sc.value
    PROVE  UpdateOK(Complete(h), h)
<1> DEFINE f == Record(h)
           s == IF Hodl THEN "accepted" ELSE "settled"
           outcome == IF Hodl THEN "accepted" ELSE "settle"
           g == AlignHtlcs(f, s)
           u == Complete(h)
<1>1. /\ sc \in Scenarios /\ htlc \in [Htlc -> HtlcStates]
  BY DEF TypeOK, HtlcStates
<1>2. u.outcome = outcome /\ u.state = s /\ u.htlc = g
  BY DEF Decide, Complete
<1>3. /\ f \in [Htlc -> HtlcStates] /\ f[h] = "accepted"
      /\ \A x \in Htlc : x # h => f[x] = htlc[x]
  BY <1>1 DEF Record, HtlcStates
<1>8. /\ s \in {"accepted", "settled"} /\ (s = "settled" => ~Hodl)
      /\ outcome \in {"accepted", "settle"} /\ (outcome = "settle" => s = "settled")
  OBVIOUS
<1> HIDE DEF f, s, outcome
<1>4. /\ g \in [Htlc -> HtlcStates]
      /\ \A x \in Htlc : f[x] # "accepted" => g[x] = f[x]
      /\ f[h] = "accepted" /\ s = "settled" => g[h] = "settled"
      /\ s = "accepted" => Accepted(g) = Accepted(f)
      /\ s = "settled" => SettledOn(g) = SettledOn(f) \union Accepted(f)
  BY <1>1, <1>3, <1>8, AlignFacts
<1> HIDE DEF g, u
<1>5. Later(htlc, g, h)
  BY <1>3, <1>4 DEF Later
<1>6. Accepted(f) = Accepted(htlc) \union {h}
  BY <1>3 DEF Accepted
<1>7. PaidOK(sc.amt, sc.value, s, g)
  <2>1. CASE s = "accepted"
    BY <1>4, <1>6, <2>1 DEF PaidOK
  <2>2. CASE s = "settled"
    <3>1. SettledOn(g) \in SUBSET Htlc /\ Accepted(f) \in SUBSET SettledOn(g)
      BY <1>4, <2>2 DEF SettledOn, Accepted
    <3>2. /\ Total(sc.amt, Accepted(f)) <= Total(sc.amt, SettledOn(g))
          /\ Total(sc.amt, Accepted(f)) \in Nat /\ Total(sc.amt, SettledOn(g)) \in Nat
          /\ sc.value \in Nat
      BY <1>1, <3>1, TotalFacts, ScenarioFacts
    <3> QED
      BY <1>6, <2>2, <3>2 DEF PaidOK
  <2> QED
    BY <1>8, <2>1, <2>2
<1> QED
  BY <1>2, <1>3, <1>4, <1>5, <1>7, <1>8 DEF UpdateOK, u

LEMMA UpdateFacts ==
    ASSUME TypeOK, RecordInv, NEW h \in Htlc, NEW reject \in BOOLEAN
    PROVE  UpdateOK(updateInvoice(h, reject), h)
<1>1. /\ sc \in Scenarios /\ htlc[h] \in HtlcStates /\ sc.value \in Nat
      /\ sc.amt[h] \in Nat /\ sc.total[h] \in Nat
  BY ScenarioFacts DEF TypeOK, HtlcStates
<1>2. CASE state = "absent"
  <2>1. updateInvoice(h, reject) = Decide("fail", state, htlc) /\ Swap
    BY <1>2 DEF updateInvoice, Refuse, RecordInv
  <2> QED
    BY <2>1, SameRecord
<1>3. CASE state # "absent" /\ htlc[h] # "none"
  <2>1. updateInvoice(h, reject) = Replay(h)
    BY <1>3 DEF updateInvoice
  <2>2. CASE htlc[h] = "canceled"
    <3>1. Replay(h) = Decide("fail", state, htlc)
      BY <2>2 DEF Replay
    <3> QED
      BY <2>1, <2>2, <3>1, SameRecord
  <2>3. CASE htlc[h] = "accepted"
    <3>1. Replay(h) = Decide("hold", state, htlc)
      BY <2>3 DEF Replay
    <3> QED
      BY <2>1, <2>3, <3>1, SameRecord
  <2>4. CASE htlc[h] = "settled"
    <3>1. Replay(h) = Decide("settle", state, htlc)
      BY <2>4 DEF Replay
    <3> QED
      BY <2>1, <2>4, <3>1, SameRecord
  <2> QED
    BY <1>1, <1>3, <2>2, <2>3, <2>4 DEF HtlcStates
<1>4. ASSUME htlc[h] = "none" PROVE UpdateOK(Refuse, h)
  BY <1>4, SameRecord DEF Refuse
<1>5. CASE state # "absent" /\ htlc[h] = "none" /\ sc.total[h] = 0
  <2>1. updateInvoice(h, reject) = updateLegacy(h, reject)
    BY <1>5 DEF updateInvoice
  <2>2. CASE updateLegacy(h, reject) = Refuse
    BY <1>4, <1>5, <2>1, <2>2
  <2>3. CASE updateLegacy(h, reject) # Refuse
    <3>1. /\ state # "canceled" /\ ~(sc.amt[h] < sc.value)
          /\ updateLegacy(h, reject) =
               CASE state = "accepted" -> Decide("hold", state, Record(h))
                 [] state = "settled" -> Decide("settle", state, Record(h))
                 [] OTHER -> Complete(h)
      BY <2>3 DEF updateLegacy
    <3>2. CASE state = "accepted"
      BY <1>5, <2>1, <3>1, <3>2, AddedRecord
    <3>3. CASE state = "settled"
      BY <1>5, <2>1, <3>1, <3>3, AddedRecord
    <3>4. CASE state \notin {"accepted", "settled"}
      <4>1. updateLegacy(h, reject) = Complete(h)
        BY <3>1, <3>4
      <4>2. {h} \in SUBSET (Accepted(htlc) \union {h}) /\ Accepted(htlc) \union {h} \in SUBSET Htlc
        BY DEF Accepted
      <4>3. /\ Total(sc.amt, {h}) <= Total(sc.amt, Accepted(htlc) \union {h})
            /\ Total(sc.amt, {h}) = sc.amt[h]
            /\ Total(sc.amt, Accepted(htlc) \union {h}) \in Nat
        BY <1>1, <4>2, TotalFacts
      <4>4. Total(sc.amt, Accepted(htlc) \union {h}) >= sc.value
        BY <1>1, <3>1, <4>3
      <4> QED
        BY <1>5, <2>1, <4>1, <4>4, CompleteRecord
    <3> QED
      BY <3>2, <3>3, <3>4
  <2> QED
    BY <2>2, <2>3
<1>6. CASE state # "absent" /\ htlc[h] = "none" /\ sc.total[h] # 0
  <2> DEFINE sum == Sum(Accepted(htlc) \union {h})
  <2>1. updateInvoice(h, reject) = updateMpp(h, reject)
    BY <1>6 DEF updateInvoice
  <2>2. CASE updateMpp(h, reject) = Refuse
    BY <1>4, <1>6, <2>1, <2>2
  <2>3. CASE updateMpp(h, reject) # Refuse
    <3>1. /\ ~(sc.total[h] < sc.value)
          /\ updateMpp(h, reject) = IF sum = sc.total[h] THEN Complete(h)
                                    ELSE Decide("hold", state, Record(h))
      BY <2>3 DEF updateMpp
    <3>2. CASE sum = sc.total[h]
      <4>1. Total(sc.amt, Accepted(htlc) \union {h}) >= sc.value
        BY <1>1, <3>1, <3>2, SumIsTotal
      <4> QED
        BY <1>6, <2>1, <3>1, <3>2, <4>1, CompleteRecord
    <3>3. CASE sum # sc.total[h]
      BY <1>6, <2>1, <3>1, <3>3, AddedRecord
    <3> QED
      BY <3>2, <3>3
  <2> QED
    BY <2>2, <2>3
<1> QED
  BY <1>2, <1>3, <1>5, <1>6
-----------------------------------------------------------------------------
(* What steps leave alone. *)

LEMMA RecordSame ==
    ASSUME RecordInv, UNCHANGED <<sc, state, htlc>>
    PROVE  RecordInv'
BY DEF RecordInv, Swap, PaidOK, Accepted, SettledOn

LEMMA LockStep ==
    ASSUME LockInv, lock' \in {lock, "free", "stuck"},
           \A h \in Htlc : stage[h] = "adding" => stage'[h] = "adding"
    PROVE  LockInv'
BY InvoicesAssumption DEF LockInv

LEMMA LoopSame ==
    ASSUME LoopInv, loops' = loops,
           \A h \in Htlc : stage[h] \in {"nil", "err"} => stage'[h] \in {"nil", "err"}
    PROVE  LoopInv'
BY DEF LoopInv

\* An HTLC whose link does nothing, while the record goes on and resolutions come
\* through the subscriptions, or while the call it is in goes on.
LEMMA HtlcStep ==
    ASSUME NEW h \in Htlc, HtlcOK(h), sc' = sc,
           htlc[h] # "accepted" => htlc'[h] = htlc[h],
           \/ res'[h] = res[h]
           \/ "live" \in subs[h] /\ \/ res'[h] = "settle" /\ htlc'[h] = "settled"
                                    \/ res'[h] = "fail" /\ htlc'[h] = "canceled",
           subs'[h] \subseteq subs[h], ans'[h] = ans[h], link'[h] = link[h],
           \/ stage'[h] = stage[h]
           \/ stage[h] \in {"nil", "err"} /\ stage'[h] \in {"nil", "err"},
           h \in arrived <=> h \in arrived'
    PROVE  HtlcOK(h)'
<1>1. "live" \in subs[h] => ~Asking(h) /\ link[h] # "down" /\ h \in arrived
  BY DEF HtlcOK, Quiet
<1>2. Asking(h)' <=> Asking(h)
  BY DEF Asking
<1>3. Quiet(h) => Quiet(h)'
  BY DEF Quiet
<1>4. Swap' <=> Swap
  BY DEF Swap
<1>5. ~Asking(h) \/ (res'[h] = res[h])
  BY <1>1
<1>6. (res[h] = "settle" \/ ans[h] = "settle" => htlc[h] = "settled")'
  BY DEF HtlcOK
<1>7. (~Swap /\ (res[h] = "fail" \/ ans[h] = "fail") => htlc[h] \in {"none", "canceled"})'
  BY <1>4 DEF HtlcOK
<1>8. (stage[h] \in {"swap", "watch", "nil", "err"} => Swap)'
  BY <1>4 DEF HtlcOK
<1>9. (Asking(h) => Quiet(h) /\ ans[h] = "none")'
  BY <1>1, <1>2, <1>3 DEF HtlcOK
<1>10. (link[h] = "down" => Quiet(h) /\ stage[h] = "none")'
  BY <1>1, <1>3 DEF HtlcOK
<1>11. (h \notin arrived => Quiet(h) /\ ans[h] = "none" /\ stage[h] = "none")'
  BY <1>1, <1>3 DEF HtlcOK
<1>12. (link[h] # "up" => "live" \notin subs[h])'
  BY DEF HtlcOK
<1> QED
  BY <1>6, <1>7, <1>8, <1>9, <1>10, <1>11, <1>12 DEF HtlcOK

\* A step of the link of h alone.
LEMMA LinkStep ==
    ASSUME InvoiceInv, NEW h \in Htlc, TypeOK', UNCHANGED <<sc, state, htlc, pay, loops, lock>>,
           \A g \in Htlc : g # h =>
              /\ ans'[g] = ans[g] /\ link'[g] = link[g] /\ stage'[g] = stage[g]
              /\ res'[g] = res[g] /\ subs'[g] = subs[g] /\ (g \in arrived <=> g \in arrived'),
           stage'[h] = stage[h] \/ stage[h] \in {"none", "held"},
           HtlcOK(h)'
    PROVE  InvoiceInv'
<1>1. TypeOK /\ RecordInv /\ HtlcInv /\ LockInv /\ LoopInv
  BY DEF InvoiceInv
<1>2. RecordInv'
  BY <1>1, RecordSame
<1>3. ASSUME NEW g \in Htlc, g # h PROVE HtlcOK(g)'
  <2>1. HtlcOK(g)
    BY <1>1 DEF HtlcInv
  <2> QED
    BY <1>3, <2>1, HtlcStep
<1>4. HtlcInv'
  BY <1>3 DEF HtlcInv
<1>5. LockInv'
  BY <1>1, LockStep
<1>6. LoopInv'
  BY <1>1, LoopSame
<1> QED
  BY <1>2, <1>4, <1>5, <1>6 DEF InvoiceInv

LEMMA StepArrive ==
    ASSUME InvoiceInv, NEW h \in Htlc, Arrive(h)
    PROVE  InvoiceInv'
<1>1. TypeOK /\ HtlcOK(h)
  BY DEF InvoiceInv, HtlcInv
<1>2. /\ link[h] = "up" /\ h \notin arrived /\ arrived' = arrived \union {h}
      /\ UNCHANGED <<sc, state, htlc, ans, pay, link, res, subs, timers, lock,
                     watcher, queued, loops, restarts, flaps, errors>>
      /\ stage' = [stage EXCEPT ![h] = IF Swap THEN "swap" ELSE "notify"]
  BY DEF Arrive, faults
<1>3. /\ stage'[h] \in {"swap", "notify"} /\ (stage'[h] = "swap" => Swap)
      /\ \A g \in Htlc : g # h => stage'[g] = stage[g]
      /\ stage' \in [Htlc -> {"none", "swap", "watch", "nil", "err", "notify", "adding", "held"}]
  BY <1>1, <1>2 DEF TypeOK
<1>4. HtlcOK(h)'
  BY <1>1, <1>2, <1>3 DEF HtlcOK, Asking, Quiet, Swap
<1>5. TypeOK'
  BY <1>1, <1>2, <1>3 DEF TypeOK
<1>6. stage[h] = "none"
  BY <1>1, <1>2 DEF HtlcOK
<1> QED
  BY <1>2, <1>3, <1>4, <1>5, <1>6, LinkStep

LEMMA StepSignAnswer ==
    ASSUME InvoiceInv, NEW h \in Htlc, SignAnswer(h)
    PROVE  InvoiceInv'
<1>1. TypeOK /\ HtlcOK(h)
  BY DEF InvoiceInv, HtlcInv
<1>2. /\ link[h] # "down" /\ res[h] # "none" /\ stage[h] = "held"
      /\ UNCHANGED <<sc, state, htlc, arrived, pay, link, subs, timers, lock,
                     watcher, queued, loops, restarts, flaps, errors>>
      /\ ans' = [ans EXCEPT ![h] = res[h]] /\ res' = [res EXCEPT ![h] = "none"]
      /\ stage' = [stage EXCEPT ![h] = "none"]
  BY DEF SignAnswer, faults
<1>3. /\ stage'[h] = "none" /\ res'[h] = "none" /\ ans'[h] = res[h]
      /\ \A g \in Htlc : g # h => stage'[g] = stage[g] /\ res'[g] = res[g] /\ ans'[g] = ans[g]
  BY <1>1, <1>2 DEF TypeOK
<1>4. HtlcOK(h)'
  BY <1>1, <1>2, <1>3 DEF HtlcOK, Asking, Quiet, Swap
<1>5. TypeOK'
  BY <1>1, <1>2 DEF TypeOK
<1> QED
  BY <1>2, <1>3, <1>4, <1>5, LinkStep

LEMMA StepStopLink ==
    ASSUME InvoiceInv, NEW h \in Htlc, StopLink(h)
    PROVE  InvoiceInv'
<1>1. TypeOK /\ HtlcOK(h)
  BY DEF InvoiceInv, HtlcInv
<1>2. /\ link[h] = "up" /\ flaps < MaxFlaps /\ flaps' = flaps + 1
      /\ UNCHANGED <<sc, state, htlc, arrived, ans, pay, stage, res, timers, lock,
                     watcher, queued, loops, restarts, errors>>
      /\ link' = [link EXCEPT ![h] = "stopping"]
      /\ subs' = [subs EXCEPT ![h] = subs[h] \ {"live"}]
  BY DEF StopLink, disk
<1>3. /\ link'[h] = "stopping" /\ subs'[h] = subs[h] \ {"live"}
      /\ \A g \in Htlc : g # h => link'[g] = link[g] /\ subs'[g] = subs[g]
      /\ link' \in [Htlc -> {"up", "stopping", "down"}]
  BY <1>1, <1>2 DEF TypeOK
<1>6. subs' \in [Htlc -> SUBSET {"live", "dead"}]
  <2>1. subs \in [Htlc -> SUBSET {"live", "dead"}] /\ subs[h] \ {"live"} \in SUBSET {"live", "dead"}
    BY <1>1 DEF TypeOK
  <2> QED
    BY <1>2, <2>1
<1>4. HtlcOK(h)'
  BY <1>1, <1>2, <1>3 DEF HtlcOK, Asking, Quiet, Swap
<1>7. flaps' \in 0 .. MaxFlaps
  BY <1>1, <1>2, InvoicesAssumption DEF TypeOK
<1>5. TypeOK'
  BY <1>1, <1>2, <1>3, <1>6, <1>7 DEF TypeOK
<1> QED
  BY <1>2, <1>3, <1>4, <1>5, LinkStep

LEMMA StepLinkExits ==
    ASSUME InvoiceInv, NEW h \in Htlc, LinkExits(h)
    PROVE  InvoiceInv'
<1>1. TypeOK /\ HtlcOK(h)
  BY DEF InvoiceInv, HtlcInv
<1>2. /\ link[h] = "stopping" /\ stage[h] \in {"none", "held"}
      /\ UNCHANGED <<sc, state, htlc, arrived, ans, pay, subs, timers, lock,
                     watcher, queued, loops, restarts, flaps, errors>>
      /\ link' = [link EXCEPT ![h] = "down"] /\ res' = [res EXCEPT ![h] = "none"]
      /\ stage' = [stage EXCEPT ![h] = "none"]
  BY DEF LinkExits, disk, faults
<1>3. /\ stage'[h] = "none" /\ res'[h] = "none" /\ link'[h] = "down"
      /\ \A g \in Htlc : g # h => stage'[g] = stage[g] /\ res'[g] = res[g] /\ link'[g] = link[g]
  BY <1>1, <1>2 DEF TypeOK
<1>4. HtlcOK(h)'
  BY <1>1, <1>2, <1>3 DEF HtlcOK, Asking, Quiet, Swap
<1>5. TypeOK'
  BY <1>1, <1>2 DEF TypeOK
<1> QED
  BY <1>2, <1>3, <1>4, <1>5, LinkStep

LEMMA StepStartLink ==
    ASSUME InvoiceInv, NEW h \in Htlc, StartLink(h)
    PROVE  InvoiceInv'
<1>1. TypeOK /\ HtlcOK(h)
  BY DEF InvoiceInv, HtlcInv
<1> DEFINE s == IF h \in arrived /\ ans[h] = "none" THEN IF Swap THEN "swap" ELSE "notify"
                ELSE "none"
<1>2. /\ link[h] = "down"
      /\ UNCHANGED <<sc, state, htlc, arrived, ans, pay, res, subs, timers, lock,
                     watcher, queued, loops, restarts, flaps, errors>>
      /\ link' = [link EXCEPT ![h] = "up"] /\ stage' = [stage EXCEPT ![h] = s]
  BY DEF StartLink, disk, faults
<1>6. /\ s \in {"swap", "notify", "none"} /\ (s # "none" => h \in arrived /\ ans[h] = "none")
      /\ s = "swap" => Swap
  OBVIOUS
<1> HIDE DEF s
<1>3. /\ stage'[h] = s /\ link'[h] = "up"
      /\ \A g \in Htlc : g # h => stage'[g] = stage[g] /\ link'[g] = link[g]
  BY <1>1, <1>2 DEF TypeOK
<1>4. HtlcOK(h)'
  BY <1>1, <1>2, <1>3, <1>6 DEF HtlcOK, Asking, Quiet, Swap
<1>5. TypeOK'
  BY <1>1, <1>2, <1>6 DEF TypeOK
<1>7. stage[h] = "none"
  BY <1>1, <1>2 DEF HtlcOK
<1> QED
  BY <1>2, <1>3, <1>4, <1>5, <1>7, LinkStep

LEMMA StepExpire ==
    ASSUME InvoiceInv, NEW w \in {"time", "height"}, Expire(w)
    PROVE  InvoiceInv'
<1>1. TypeOK /\ RecordInv /\ HtlcInv /\ LockInv /\ LoopInv
  BY DEF InvoiceInv
<1>2. /\ watcher' = w
      /\ UNCHANGED <<sc, state, htlc, arrived, ans, pay, link, stage, res, subs, timers, lock,
                     queued, loops, restarts, flaps, errors>>
  BY DEF Expire, disk, faults
<1>3. RecordInv' /\ LockInv' /\ LoopInv'
  BY <1>1, <1>2, RecordSame, LockStep, LoopSame
<1>4. HtlcInv'
  BY <1>1, <1>2 DEF HtlcInv, HtlcOK, Asking, Quiet, Swap
<1>5. TypeOK'
  BY <1>1, <1>2 DEF TypeOK
<1> QED
  BY <1>3, <1>4, <1>5 DEF InvoiceInv
-----------------------------------------------------------------------------
(* Resolutions that the registry sends. *)

\* What the registry may do to an HTLC of which it changes the record.
ResolvedOK(h) ==
    /\ htlc[h] # "accepted" => htlc'[h] = htlc[h]
    /\ \/ res'[h] = res[h]
       \/ "live" \in subs[h] /\ \/ res'[h] = "settle" /\ htlc'[h] = "settled"
                                \/ res'[h] = "fail" /\ htlc'[h] = "canceled"
    /\ subs'[h] \subseteq subs[h]

RegistryStep ==
    /\ state' \in {"absent", "open", "accepted", "settled", "canceled"}
    /\ htlc' \in [Htlc -> {"none", "accepted", "settled", "canceled"}]
    /\ res' \in [Htlc -> {"none", "settle", "fail"}]
    /\ subs' \in [Htlc -> SUBSET {"live", "dead"}]
    /\ lock' \in {lock, "free", "stuck"}
    /\ PaidOK(sc.amt, sc.value, state', htlc') /\ (state' = "absent" => state = "absent")
    /\ \A h \in Htlc : ResolvedOK(h)

\* What subscribers and the callers in first get when the HTLCs of H are resolved.
NotifyOK(H, r, first) ==
    /\ lock' \in {"free", "stuck"} /\ res' \in [Htlc -> {"none", "settle", "fail"}]
    /\ subs' \in [Htlc -> SUBSET {"live", "dead"}]
    /\ \A h \in Htlc :
         /\ subs'[h] \subseteq subs[h]
         /\ \/ res'[h] = res[h]
            \/ res'[h] = r /\ (h \in first \/ (h \in H /\ "live" \in subs[h]))
         /\ h \in first => res'[h] = r

LEMMA NotifyFacts ==
    ASSUME TypeOK, NEW H \in SUBSET Htlc, NEW r \in {"settle", "fail"}, NEW first \in SUBSET Htlc,
           Notify(H, r, first)
    PROVE  NotifyOK(H, r, first)
<1> DEFINE heard == {h \in H : "live" \in subs[h]}
<1>1. res \in [Htlc -> {"none", "settle", "fail"}] /\ subs \in [Htlc -> SUBSET {"live", "dead"}]
  BY DEF TypeOK
<1>2. \E told \in SUBSET heard :
         /\ lock' \in {"free", "stuck"}
         /\ res' = [h \in Htlc |-> IF h \in told \union first THEN r ELSE res[h]]
         /\ subs' = subs \/ subs' = [h \in Htlc |-> IF h \in H THEN {} ELSE subs[h]]
  <2>1. CASE \E h \in H : "dead" \in subs[h]
    BY <2>1 DEF Notify
  <2>2. CASE ~(\E h \in H : "dead" \in subs[h])
    <3>1. heard \in SUBSET heard
      OBVIOUS
    <3> QED
      BY <2>2, <3>1 DEF Notify
  <2> QED
    BY <2>1, <2>2
<1>3. PICK told \in SUBSET heard :
         /\ lock' \in {"free", "stuck"}
         /\ res' = [h \in Htlc |-> IF h \in told \union first THEN r ELSE res[h]]
         /\ subs' = subs \/ subs' = [h \in Htlc |-> IF h \in H THEN {} ELSE subs[h]]
  BY <1>2
<1>4. subs' \in [Htlc -> SUBSET {"live", "dead"}] /\ \A h \in Htlc : subs'[h] \subseteq subs[h]
  <2>1. CASE subs' = subs
    BY <1>1, <2>1
  <2>2. CASE subs' = [h \in Htlc |-> IF h \in H THEN {} ELSE subs[h]]
    BY <1>1, <2>2
  <2> QED
    BY <1>3, <2>1, <2>2
<1>5. res' \in [Htlc -> {"none", "settle", "fail"}]
  BY <1>1, <1>3
<1>6. \A h \in Htlc : /\ res'[h] = IF h \in told \union first THEN r ELSE res[h]
                      /\ h \in told => h \in H /\ "live" \in subs[h]
  BY <1>3
<1> QED
  BY <1>3, <1>4, <1>5, <1>6 DEF NotifyOK

\* The invoice, paid or given up, takes its HTLCs along.
LEMMA AlignStep ==
    ASSUME InvoiceInv, NEW s \in {"settled", "canceled"}, NEW r \in {"settle", "fail"},
           s = "settled" => state = "accepted" /\ r = "settle",
           s = "canceled" => r = "fail",
           state' = s, htlc' = AlignHtlcs(htlc, s),
           Notify({h \in Htlc : htlc'[h] = s}, r, {})
    PROVE  RegistryStep
<1>1. /\ TypeOK /\ sc \in Scenarios /\ htlc \in [Htlc -> HtlcStates]
      /\ PaidOK(sc.amt, sc.value, state, htlc)
  BY DEF InvoiceInv, TypeOK, HtlcStates, RecordInv
<1>2. /\ htlc' \in [Htlc -> HtlcStates]
      /\ \A h \in Htlc : htlc[h] # "accepted" => htlc'[h] = htlc[h]
      /\ s = "settled" => SettledOn(htlc') = SettledOn(htlc) \union Accepted(htlc)
  BY <1>1, AlignFacts
<1>3. PICK H \in SUBSET Htlc, none \in SUBSET Htlc :
         H = {h \in Htlc : htlc'[h] = s} /\ none = {}
  OBVIOUS
<1>7. Notify(H, r, none)
  BY <1>3
<1>4. NotifyOK(H, r, none)
  BY ONLY <1>1, <1>7, r \in {"settle", "fail"}, NotifyFacts, Zenon
<1>5. \A h \in Htlc : ResolvedOK(h)
  BY <1>2, <1>3, <1>4 DEF ResolvedOK, NotifyOK
<1>6. PaidOK(sc.amt, sc.value, state', htlc')
  <2>1. CASE s = "settled"
    <3>1. SettledOn(htlc') \in SUBSET Htlc /\ Accepted(htlc) \in SUBSET SettledOn(htlc')
      BY <1>2, <2>1 DEF SettledOn, Accepted
    <3>2. /\ Total(sc.amt, Accepted(htlc)) <= Total(sc.amt, SettledOn(htlc'))
          /\ Total(sc.amt, Accepted(htlc)) \in Nat /\ Total(sc.amt, SettledOn(htlc')) \in Nat
          /\ sc.value \in Nat
      BY <1>1, <3>1, TotalFacts, ScenarioFacts
    <3> QED
      BY <1>1, <2>1, <3>2 DEF PaidOK
  <2>2. CASE s = "canceled"
    BY <2>2 DEF PaidOK
  <2> QED
    BY <2>1, <2>2
<1> QED
  BY <1>2, <1>4, <1>5, <1>6 DEF RegistryStep, HtlcStates, NotifyOK

LEMMA NothingStep ==
    ASSUME InvoiceInv, UNCHANGED <<state, htlc, res, subs, lock>>
    PROVE  RegistryStep
<1>1. TypeOK /\ PaidOK(sc.amt, sc.value, state, htlc)
  BY DEF InvoiceInv, RecordInv
<1> QED
  BY <1>1 DEF RegistryStep, TypeOK, ResolvedOK, PaidOK

LEMMA SettleFacts ==
    ASSUME InvoiceInv, SettleHodlInvoice
    PROVE  RegistryStep
<1>1. CASE Settleable
  <2>1. /\ state = "accepted" /\ state' = "settled" /\ htlc' = AlignHtlcs(htlc, "settled")
        /\ Notify({h \in Htlc : htlc'[h] = "settled"}, "settle", {})
    BY <1>1 DEF SettleHodlInvoice, Settleable
  <2> QED
    BY <2>1, AlignStep
<1>2. CASE ~Settleable
  BY <1>2, NothingStep DEF SettleHodlInvoice
<1> QED
  BY <1>1, <1>2

LEMMA CancelFacts ==
    ASSUME InvoiceInv, NEW force, cancelInvoiceImpl(force)
    PROVE  RegistryStep /\ (state' = "settled" => state = "settled")
<1>1. CASE state = "open" \/ (state = "accepted" /\ force)
  <2>1. /\ state' = "canceled" /\ htlc' = AlignHtlcs(htlc, "canceled")
        /\ Notify({h \in Htlc : htlc'[h] = "canceled"}, "fail", {})
    BY <1>1 DEF cancelInvoiceImpl
  <2> QED
    BY <2>1, AlignStep
<1>2. CASE ~(state = "open" \/ (state = "accepted" /\ force))
  BY <1>2, NothingStep DEF cancelInvoiceImpl
<1> QED
  BY <1>1, <1>2

LEMMA RegistryInv ==
    ASSUME InvoiceInv, RegistryStep, TypeOK', sc' = sc, UNCHANGED <<arrived, ans, link>>,
           \A h \in Htlc : \/ stage'[h] = stage[h]
                           \/ stage[h] \in {"nil", "err"} /\ stage'[h] \in {"nil", "err"},
           LoopInv'
    PROVE  InvoiceInv'
<1>1. TypeOK /\ RecordInv /\ HtlcInv /\ LockInv /\ LoopInv
  BY DEF InvoiceInv
<1>2. RecordInv'
  <2>1. PaidOK(sc'.amt, sc'.value, state', htlc')
    BY DEF RegistryStep
  <2>2. state' = "absent" => Swap'
    BY <1>1 DEF RegistryStep, RecordInv, Swap
  <2> QED
    BY <2>1, <2>2 DEF RecordInv, PaidOK, Accepted, SettledOn
<1>3. HtlcInv'
  <2> SUFFICES ASSUME NEW h \in Htlc PROVE HtlcOK(h)'
    BY DEF HtlcInv
  <2>1. HtlcOK(h) /\ ResolvedOK(h)
    BY <1>1 DEF HtlcInv, RegistryStep
  <2> QED
    BY <2>1, HtlcStep DEF ResolvedOK
<1>4. LockInv'
  BY <1>1, LockStep DEF RegistryStep
<1> QED
  BY <1>2, <1>3, <1>4 DEF InvoiceInv
-----------------------------------------------------------------------------
(* Steps in which the registry changes the record. *)

LEMMA StepUserSettles ==
    ASSUME InvoiceInv, UserSettles
    PROVE  InvoiceInv'
<1>1. TypeOK /\ LoopInv
  BY DEF InvoiceInv
<1>2. /\ sc.kind = "hodl" /\ SettleHodlInvoice
      /\ UNCHANGED <<sc, arrived, ans, pay, link, stage, timers, watcher, queued,
                     loops, restarts, flaps, errors>>
  BY DEF UserSettles, faults
<1>3. RegistryStep
  BY <1>2, SettleFacts
<1>4. TypeOK'
  BY <1>1, <1>2, <1>3 DEF TypeOK, RegistryStep
<1>5. LoopInv'
  BY <1>1, <1>2, LoopSame
<1>6. ~Swap
  BY <1>2 DEF Swap
<1> QED
  BY <1>2, <1>3, <1>4, <1>5, <1>6, RegistryInv

LEMMA StepUserCancels ==
    ASSUME InvoiceInv, UserCancels
    PROVE  InvoiceInv'
<1>1. TypeOK /\ LoopInv
  BY DEF InvoiceInv
<1>2. /\ cancelInvoiceImpl(TRUE)
      /\ UNCHANGED <<sc, arrived, ans, pay, link, stage, timers, watcher, queued,
                     loops, restarts, flaps, errors>>
  BY DEF UserCancels, faults
<1>3. RegistryStep /\ (state' = "settled" => state = "settled")
  BY <1>2, CancelFacts
<1>4. TypeOK'
  BY <1>1, <1>2, <1>3 DEF TypeOK, RegistryStep
<1>5. LoopInv'
  BY <1>1, <1>2, LoopSame
<1> QED
  BY <1>2, <1>3, <1>4, <1>5, RegistryInv

LEMMA StepCancelNextExpiredInvoice ==
    ASSUME InvoiceInv, cancelNextExpiredInvoice
    PROVE  InvoiceInv'
<1>1. TypeOK /\ LoopInv
  BY DEF InvoiceInv
<1>2. /\ cancelInvoiceImpl(watcher = "height" \/ Swap)
      /\ queued' = queued \ {watcher} /\ watcher' = "idle"
      /\ UNCHANGED <<sc, arrived, ans, pay, link, stage, timers,
                     loops, restarts, flaps, errors>>
  BY DEF cancelNextExpiredInvoice, faults
<1>3. RegistryStep /\ (state' = "settled" => state = "settled")
  <2>1. CASE watcher = "height" \/ Swap
    <3>1. cancelInvoiceImpl(TRUE)
      BY <1>2, <2>1 DEF cancelInvoiceImpl
    <3> QED
      BY <3>1, CancelFacts
  <2>2. CASE ~(watcher = "height" \/ Swap)
    <3>1. cancelInvoiceImpl(FALSE)
      BY <1>2, <2>2 DEF cancelInvoiceImpl
    <3> QED
      BY <3>1, CancelFacts
  <2> QED
    BY <2>1, <2>2
<1>4. TypeOK'
  BY <1>1, <1>2, <1>3 DEF TypeOK, RegistryStep
<1>5. LoopInv'
  BY <1>1, <1>2, LoopSame
<1> QED
  BY <1>2, <1>3, <1>4, <1>5, RegistryInv

LEMMA StepCancelSingleHtlc ==
    ASSUME InvoiceInv, NEW h \in Htlc, cancelSingleHtlc(h)
    PROVE  InvoiceInv'
<1>1. TypeOK /\ LoopInv
  BY DEF InvoiceInv
<1>2. /\ timers' = timers \ {h}
      /\ UNCHANGED <<sc, state, arrived, ans, pay, link, stage, watcher, queued,
                     loops, restarts, flaps, errors>>
  BY DEF cancelSingleHtlc, faults
<1>3. RegistryStep
  <2>1. CASE ~Releasable(h)
    BY <1>2, <2>1, NothingStep DEF cancelSingleHtlc
  <2>2. CASE Releasable(h)
    <3>1. /\ state = "open" /\ htlc[h] = "accepted"
          /\ htlc' = [htlc EXCEPT ![h] = "canceled"] /\ Notify({h}, "fail", {})
      BY <2>2 DEF cancelSingleHtlc, Releasable
    <3>2. /\ htlc' \in [Htlc -> {"none", "accepted", "settled", "canceled"}]
          /\ htlc'[h] = "canceled" /\ \A g \in Htlc : g # h => htlc'[g] = htlc[g]
      BY <1>1, <3>1 DEF TypeOK
    <3>3. {h} \in SUBSET Htlc /\ {} \in SUBSET Htlc /\ "fail" \in {"settle", "fail"}
      OBVIOUS
    <3>4. NotifyOK({h}, "fail", {})
      BY ONLY <1>1, <3>1, <3>3, NotifyFacts, Zenon
    <3>5. \A g \in Htlc : ResolvedOK(g)
      BY <3>1, <3>2, <3>4 DEF ResolvedOK, NotifyOK
    <3>6. PaidOK(sc.amt, sc.value, state', htlc')
      BY <1>2, <3>1 DEF PaidOK
    <3> QED
      BY <1>2, <3>1, <3>2, <3>4, <3>5, <3>6 DEF RegistryStep, NotifyOK
  <2> QED
    BY <2>1, <2>2
<1>4. TypeOK'
  BY <1>1, <1>2, <1>3 DEF TypeOK, RegistryStep
<1>5. LoopInv'
  BY <1>1, <1>2, LoopSame
<1>6. Swap /\ state' = "settled" => state = "settled"
  BY <1>2
<1> QED
  BY <1>2, <1>3, <1>4, <1>5, <1>6, RegistryInv
-----------------------------------------------------------------------------
(* The goroutines of the payment. *)

Loops == [of : Htlc \union {"gone"}, at : {"init", "run", "settle", "cancel"}]

\* The stages of the calls that share their err with a goroutine.
StagesKept == \A h \in Htlc : \/ stage'[h] = stage[h]
                              \/ stage[h] \in {"nil", "err"} /\ stage'[h] \in {"nil", "err"}

LEMMA EndsFacts ==
    ASSUME TypeOK, LoopInv, NEW l \in loops, NEW err \in {"nil", "err"},
           loops' = loops \ {l},
           stage' = [h \in Htlc |-> IF l.of = h THEN err ELSE stage[h]]
    PROVE  /\ LoopInv' /\ StagesKept /\ loops' \subseteq Loops
           /\ stage' \in [Htlc -> {"none", "swap", "watch", "nil", "err", "notify", "adding", "held"}]
<1>1. \A h \in Htlc : stage'[h] = IF l.of = h THEN err ELSE stage[h]
  OBVIOUS
<1>2. /\ stage' \in [Htlc -> {"none", "swap", "watch", "nil", "err", "notify", "adding", "held"}]
      /\ loops' \subseteq Loops
  BY DEF TypeOK, Loops
<1>3. \A k \in loops : k.of \in Htlc => stage[k.of] \in {"nil", "err"}
  BY DEF LoopInv
<1>4. StagesKept
  BY <1>1, <1>3 DEF StagesKept
<1>5. \A k \in loops : k.of \in Htlc => stage'[k.of] \in {"nil", "err"}
  BY <1>1, <1>3
<1>6. LoopInv'
  BY <1>5 DEF LoopInv
<1> QED
  BY <1>2, <1>4, <1>6

LEMMA AdvanceFacts ==
    ASSUME TypeOK, LoopInv, NEW l \in loops, NEW to \in {"run", "settle", "cancel"},
           loops' = (loops \ {l}) \union {[l EXCEPT !.at = to]}, UNCHANGED stage
    PROVE  LoopInv' /\ StagesKept /\ loops' \subseteq Loops
<1> DEFINE k == [l EXCEPT !.at = to]
<1>1. l \in Loops /\ loops \subseteq Loops
  BY DEF TypeOK, Loops
<1>2. k \in Loops /\ k.of = l.of /\ k.at = to
  BY <1>1 DEF Loops
<1>3. loops' = (loops \ {l}) \union {k}
  OBVIOUS
<1> HIDE DEF k
<1>4. loops' \subseteq Loops
  BY <1>1, <1>2, <1>3
<1>5. LoopInv'
  BY <1>2, <1>3 DEF LoopInv
<1> QED
  BY <1>4, <1>5 DEF StagesKept

\* A step of a goroutine that leaves the record alone.
LEMMA PaymentStep ==
    ASSUME InvoiceInv, LoopInv', StagesKept, loops' \subseteq Loops,
           stage' \in [Htlc -> {"none", "swap", "watch", "nil", "err", "notify", "adding", "held"}],
           UNCHANGED <<sc, state, htlc, arrived, ans, link, res, subs, timers,
                       lock, watcher, queued, restarts, flaps>>,
           errors' \in 0 .. MaxErrors, pay' \in {"none", "inflight", "settled", "failed"}
    PROVE  InvoiceInv'
<1>1. TypeOK
  BY DEF InvoiceInv
<1>2. RegistryStep
  BY NothingStep
<1>3. TypeOK'
  BY <1>1 DEF TypeOK, Loops
<1> QED
  BY <1>2, <1>3, RegistryInv DEF StagesKept

LEMMA StepSendPayment ==
    ASSUME InvoiceInv, NEW l \in loops, SendPayment(l)
    PROVE  InvoiceInv'
<1>1. TypeOK /\ LoopInv
  BY DEF InvoiceInv
<1>2. /\ UNCHANGED <<sc, state, htlc, arrived, ans, link, res, subs, timers,
                     lock, watcher, queued, restarts, flaps, errors>>
      /\ errors' \in 0 .. MaxErrors
  BY <1>1 DEF SendPayment, faults, TypeOK
<1>3. CASE pay \in {"none", "failed"}
  <2>1. /\ pay' = "inflight" /\ UNCHANGED stage
        /\ loops' = (loops \ {l}) \union {[l EXCEPT !.at = "run"]}
    BY <1>3 DEF SendPayment, Advance
  <2>2. LoopInv' /\ StagesKept /\ loops' \subseteq Loops
    BY <1>1, <1>3, <2>1, AdvanceFacts
  <2>3. stage' \in [Htlc -> {"none", "swap", "watch", "nil", "err", "notify", "adding", "held"}]
    BY <1>1, <2>1 DEF TypeOK
  <2> QED
    BY <1>2, <1>3, <2>1, <2>2, <2>3, PaymentStep
<1>4. CASE pay \notin {"none", "failed"}
  <2>1. /\ pay' = pay /\ loops' = loops \ {l}
        /\ stage' = [h \in Htlc |-> IF l.of = h THEN "err" ELSE stage[h]]
    BY <1>4 DEF SendPayment, Ends
  <2>2. /\ LoopInv' /\ StagesKept /\ loops' \subseteq Loops
        /\ stage' \in [Htlc -> {"none", "swap", "watch", "nil", "err", "notify", "adding", "held"}]
    BY <1>1, <2>1, EndsFacts
  <2>3. pay' \in {"none", "inflight", "settled", "failed"}
    BY <1>1, <2>1 DEF TypeOK
  <2> QED
    BY <1>2, <2>1, <2>2, <2>3, PaymentStep
<1> QED
  BY <1>3, <1>4

LEMMA StepPaymentEnds ==
    ASSUME InvoiceInv, NEW l \in loops, PaymentEnds(l)
    PROVE  InvoiceInv'
<1>1. TypeOK /\ LoopInv
  BY DEF InvoiceInv
<1>2. /\ UNCHANGED <<sc, state, htlc, arrived, ans, link, res, subs, timers,
                     lock, watcher, queued, restarts, flaps, errors>>
      /\ errors' \in 0 .. MaxErrors /\ pay = "inflight"
  BY <1>1 DEF PaymentEnds, faults, TypeOK
<1>3. \/ /\ pay' = "settled" /\ UNCHANGED stage
         /\ loops' = (loops \ {l}) \union {[l EXCEPT !.at = "settle"]}
      \/ /\ pay' = "failed" /\ UNCHANGED stage
         /\ loops' = (loops \ {l}) \union {[l EXCEPT !.at = "cancel"]}
  BY DEF PaymentEnds, Advance
<1>4. LoopInv' /\ StagesKept /\ loops' \subseteq Loops
  BY <1>1, <1>2, <1>3, AdvanceFacts
<1>5. stage' \in [Htlc -> {"none", "swap", "watch", "nil", "err", "notify", "adding", "held"}]
  BY <1>1, <1>3 DEF TypeOK
<1> QED
  BY <1>2, <1>3, <1>4, <1>5, PaymentStep

LEMMA StepLoopFails ==
    ASSUME InvoiceInv, NEW l \in loops, LoopFails(l)
    PROVE  InvoiceInv'
<1>1. TypeOK /\ LoopInv
  BY DEF InvoiceInv
<1>2. /\ UNCHANGED <<sc, state, htlc, arrived, ans, pay, link, stage, res, subs, timers,
                     lock, watcher, queued, restarts, flaps>>
      /\ errors < MaxErrors /\ errors' = errors + 1
      /\ loops' = (loops \ {l}) \union {[l EXCEPT !.at = "cancel"]}
  BY DEF LoopFails, Advance, disk
<1>3. LoopInv' /\ StagesKept /\ loops' \subseteq Loops
  BY <1>1, <1>2, AdvanceFacts
<1>4. errors' \in 0 .. MaxErrors
  BY <1>1, <1>2, InvoicesAssumption DEF TypeOK
<1>5. /\ stage' \in [Htlc -> {"none", "swap", "watch", "nil", "err", "notify", "adding", "held"}]
      /\ pay' \in {"none", "inflight", "settled", "failed"}
  BY <1>1, <1>2 DEF TypeOK
<1> QED
  BY <1>2, <1>3, <1>4, <1>5, PaymentStep

LEMMA StepLoopSettles ==
    ASSUME InvoiceInv, NEW l \in loops, LoopSettles(l)
    PROVE  InvoiceInv'
<1>1. TypeOK /\ LoopInv
  BY DEF InvoiceInv
<1>2. /\ l.at = "settle" /\ SettleHodlInvoice
      /\ UNCHANGED <<sc, arrived, ans, pay, link, timers, watcher, queued, restarts, flaps, errors>>
      /\ loops' = loops \ {l}
      /\ stage' = [h \in Htlc |-> IF l.of = h THEN "nil" ELSE stage[h]]
  BY DEF LoopSettles, Ends, faults
<1>3. RegistryStep
  BY <1>2, SettleFacts
<1>4. /\ LoopInv' /\ StagesKept /\ loops' \subseteq Loops
      /\ stage' \in [Htlc -> {"none", "swap", "watch", "nil", "err", "notify", "adding", "held"}]
  BY <1>1, <1>2, EndsFacts
<1>5. TypeOK'
  BY <1>1, <1>2, <1>3, <1>4 DEF TypeOK, RegistryStep, Loops
<1> QED
  BY <1>2, <1>3, <1>4, <1>5, RegistryInv DEF StagesKept

LEMMA StepLoopCancels ==
    ASSUME InvoiceInv, NEW l \in loops, LoopCancels(l)
    PROVE  InvoiceInv'
<1>1. TypeOK /\ LoopInv
  BY DEF InvoiceInv
<1>2. /\ cancelInvoiceImpl(TRUE)
      /\ UNCHANGED <<sc, arrived, ans, pay, link, timers, watcher, queued, restarts, flaps, errors>>
      /\ loops' = loops \ {l}
      /\ stage' = [h \in Htlc |-> IF l.of = h THEN "err" ELSE stage[h]]
  BY DEF LoopCancels, Ends, faults
<1>3. RegistryStep /\ (state' = "settled" => state = "settled")
  BY <1>2, CancelFacts
<1>4. /\ LoopInv' /\ StagesKept /\ loops' \subseteq Loops
      /\ stage' \in [Htlc -> {"none", "swap", "watch", "nil", "err", "notify", "adding", "held"}]
  BY <1>1, <1>2, EndsFacts
<1>5. TypeOK'
  BY <1>1, <1>2, <1>3, <1>4 DEF TypeOK, RegistryStep, Loops
<1> QED
  BY <1>2, <1>3, <1>4, <1>5, RegistryInv DEF StagesKept
-----------------------------------------------------------------------------
(* The call of NotifyExitHopHtlc. *)

\* A step of the call about h: the links of the others hear of it at most.
LEMMA CallStep ==
    ASSUME InvoiceInv, NEW h \in Htlc, TypeOK', sc' = sc, UNCHANGED <<arrived, ans, link>>,
           RecordInv', LockInv', LoopInv', HtlcOK(h)',
           \A g \in Htlc : g # h => stage'[g] = stage[g] /\ ResolvedOK(g)
    PROVE  InvoiceInv'
<1>1. HtlcInv
  BY DEF InvoiceInv
<1>2. ASSUME NEW g \in Htlc, g # h PROVE HtlcOK(g)'
  <2>1. HtlcOK(g) /\ stage'[g] = stage[g] /\ ResolvedOK(g)
    BY <1>1, <1>2 DEF HtlcInv
  <2> QED
    BY <2>1, HtlcStep DEF ResolvedOK
<1>3. HtlcInv'
  BY <1>2 DEF HtlcInv
<1> QED
  BY <1>3 DEF InvoiceInv

\* A goroutine starts, and shares the err of the call about h.
LEMMA StartPaymentInv ==
    ASSUME InvoiceInv, NEW h \in Htlc, NEW err \in {"nil", "err"}, StartPayment(h, err),
           stage[h] \in {"swap", "watch"}, queued' \subseteq {"time", "height"},
           UNCHANGED <<sc, state, htlc, arrived, ans, pay, link, res, subs, timers, lock,
                       watcher, restarts, flaps, errors>>
    PROVE  InvoiceInv'
<1>1. TypeOK /\ RecordInv /\ HtlcInv /\ LockInv /\ LoopInv /\ HtlcOK(h)
  BY DEF InvoiceInv, HtlcInv
<1>2. Swap /\ Quiet(h) /\ ans[h] = "none" /\ h \in arrived /\ link[h] # "down"
  BY <1>1 DEF HtlcOK, Asking
<1> DEFINE k == [of |-> h, at |-> "init"]
<1>3. /\ stage'[h] = err /\ \A g \in Htlc : g # h => stage'[g] = stage[g]
      /\ stage' \in [Htlc -> {"none", "swap", "watch", "nil", "err", "notify", "adding", "held"}]
  BY <1>1 DEF StartPayment, TypeOK
<1>4. k \in Loops /\ k.of = h /\ k.at = "init" /\ loops' = loops \union {k}
  BY DEF StartPayment, Loops
<1> HIDE DEF k
<1>5. loops' \subseteq Loops
  BY <1>1, <1>4 DEF TypeOK, Loops
<1>6. TypeOK'
  BY <1>1, <1>3, <1>5 DEF TypeOK, Loops
<1>7. HtlcOK(h)'
  BY <1>1, <1>2, <1>3 DEF HtlcOK, Asking, Quiet, Swap
<1>8. RecordInv'
  BY <1>1, RecordSame
<1>9. LoopInv'
  <2>1. \A l \in loops : l.of \in Htlc => stage'[l.of] \in {"nil", "err"}
    BY <1>1, <1>3 DEF LoopInv
  <2> QED
    BY <1>3, <1>4, <2>1 DEF LoopInv
<1>10. LockInv'
  BY <1>1, <1>3, LockStep
<1>11. \A g \in Htlc : g # h => stage'[g] = stage[g] /\ ResolvedOK(g)
  BY <1>3 DEF ResolvedOK
<1> QED
  BY <1>6, <1>7, <1>8, <1>9, <1>10, <1>11, CallStep

LEMMA StepProcessAtomicSwap ==
    ASSUME InvoiceInv, NEW h \in Htlc, processAtomicSwap(h)
    PROVE  InvoiceInv'
<1>1. TypeOK /\ RecordInv /\ HtlcInv /\ LockInv /\ LoopInv /\ HtlcOK(h)
  BY DEF InvoiceInv, HtlcInv
<1>2. /\ link[h] # "down" /\ stage[h] = "swap" /\ lock = "free"
      /\ UNCHANGED <<sc, htlc, arrived, ans, pay, link, subs, timers, lock,
                     watcher, queued, restarts, flaps, errors>>
  BY DEF processAtomicSwap, faults
<1>3. Swap /\ Quiet(h) /\ ans[h] = "none" /\ h \in arrived
  BY <1>1, <1>2 DEF HtlcOK, Asking
<1>4. LockInv'
  BY <1>2, InvoicesAssumption DEF LockInv
<1>5. CASE /\ res' = [res EXCEPT ![h] = "fail"] /\ stage' = [stage EXCEPT ![h] = "held"]
           /\ UNCHANGED <<state, loops>>
  <2>1. /\ stage'[h] = "held" /\ res'[h] = "fail"
        /\ \A g \in Htlc : g # h => stage'[g] = stage[g] /\ res'[g] = res[g]
    BY <1>1, <1>5 DEF TypeOK
  <2>2. TypeOK'
    BY <1>1, <1>2, <1>5 DEF TypeOK
  <2>3. HtlcOK(h)'
    BY <1>1, <1>2, <1>3, <2>1 DEF HtlcOK, Asking, Quiet, Swap
  <2>4. RecordInv'
    BY <1>1, <1>2, <1>5, RecordSame
  <2>5. LoopInv'
    BY <1>1, <1>2, <1>5, <2>1, LoopSame
  <2>6. \A g \in Htlc : g # h => stage'[g] = stage[g] /\ ResolvedOK(g)
    BY <1>2, <2>1 DEF ResolvedOK
  <2> QED
    BY <1>2, <1>4, <2>2, <2>3, <2>4, <2>5, <2>6, CallStep
<1>6. CASE /\ state' = "open" /\ state = "absent"
           /\ stage' = [stage EXCEPT ![h] = "watch"] /\ UNCHANGED <<loops, res>>
  <2>1. stage'[h] = "watch" /\ \A g \in Htlc : g # h => stage'[g] = stage[g]
    BY <1>1, <1>6 DEF TypeOK
  <2>2. TypeOK'
    BY <1>1, <1>2, <1>6 DEF TypeOK
  <2>3. HtlcOK(h)'
    BY <1>1, <1>2, <1>3, <1>6, <2>1 DEF HtlcOK, Asking, Quiet, Swap
  <2>4. RecordInv'
    BY <1>1, <1>2, <1>6 DEF RecordInv, Swap, PaidOK
  <2>5. LoopInv'
    BY <1>1, <1>2, <1>6, <2>1, LoopSame
  <2>6. \A g \in Htlc : g # h => stage'[g] = stage[g] /\ ResolvedOK(g)
    BY <1>2, <1>6, <2>1 DEF ResolvedOK
  <2> QED
    BY <1>2, <1>4, <2>2, <2>3, <2>4, <2>5, <2>6, CallStep
<1>7. CASE StartPayment(h, "err") /\ UNCHANGED <<state, res>>
  <2>1. queued' \subseteq {"time", "height"}
    BY <1>1, <1>2 DEF TypeOK
  <2> QED
    BY <1>2, <1>7, <2>1, StartPaymentInv
<1> QED
  BY <1>5, <1>6, <1>7 DEF processAtomicSwap

LEMMA StepAddInvoice ==
    ASSUME InvoiceInv, NEW h \in Htlc, AddInvoice(h)
    PROVE  InvoiceInv'
<1>1. TypeOK
  BY DEF InvoiceInv
<1>2. /\ stage[h] = "watch" /\ queued' = queued \union {"time"} /\ StartPayment(h, "nil")
      /\ UNCHANGED <<sc, state, htlc, arrived, ans, pay, link, res, subs, timers, lock,
                     watcher, restarts, flaps, errors>>
  BY DEF AddInvoice, disk, faults
<1>3. queued' \subseteq {"time", "height"}
  BY <1>1, <1>2 DEF TypeOK
<1> QED
  BY <1>2, <1>3, StartPaymentInv

LEMMA StepProcessAtomicSwapReturns ==
    ASSUME InvoiceInv, NEW h \in Htlc, processAtomicSwapReturns(h)
    PROVE  InvoiceInv'
<1>1. TypeOK /\ RecordInv /\ HtlcInv /\ LockInv /\ LoopInv /\ HtlcOK(h)
  BY DEF InvoiceInv, HtlcInv
<1>2. /\ stage[h] \in {"nil", "err"}
      /\ loops' = {IF l.of = h THEN [l EXCEPT !.of = "gone"] ELSE l : l \in loops}
      /\ UNCHANGED <<sc, state, htlc, arrived, ans, pay, link, subs, timers, lock,
                     watcher, queued, restarts, flaps, errors>>
      /\ \/ stage' = [stage EXCEPT ![h] = "notify"] /\ UNCHANGED res
         \/ stage' = [stage EXCEPT ![h] = "held"] /\ res' = [res EXCEPT ![h] = "fail"]
  BY DEF processAtomicSwapReturns, faults, disk
<1>3. Swap /\ Quiet(h) /\ ans[h] = "none" /\ h \in arrived /\ link[h] # "down"
  BY <1>1, <1>2 DEF HtlcOK, Asking
<1>4. /\ \/ stage'[h] = "notify" /\ res'[h] = res[h]
         \/ stage'[h] = "held" /\ res'[h] = "fail"
      /\ \A g \in Htlc : g # h => stage'[g] = stage[g] /\ res'[g] = res[g]
      /\ stage' \in [Htlc -> {"none", "swap", "watch", "nil", "err", "notify", "adding", "held"}]
      /\ res' \in [Htlc -> {"none", "settle", "fail"}]
  BY <1>1, <1>2 DEF TypeOK
<1>5. ASSUME NEW k \in loops'
      PROVE  \E l \in loops : k \in Loops /\ k.at = l.at /\ (k.of = "gone" \/ (k = l /\ l.of # h))
  <2>1. PICK l \in loops : k = IF l.of = h THEN [l EXCEPT !.of = "gone"] ELSE l
    BY <1>2
  <2>2. l \in Loops
    BY <1>1 DEF TypeOK, Loops
  <2>3. CASE l.of = h
    <3>1. k \in Loops /\ k.at = l.at /\ k.of = "gone"
      BY <2>1, <2>2, <2>3 DEF Loops
    <3> QED
      BY <3>1
  <2>4. CASE l.of # h
    BY <2>1, <2>2, <2>4
  <2> QED
    BY <2>3, <2>4
<1>6. loops' \subseteq Loops
  BY <1>5
<1>7. LoopInv'
  <2>1. "gone" \notin Htlc
    BY InvoicesAssumption
  <2>2. \A l \in loops : l.of \in Htlc => stage[l.of] \in {"nil", "err"}
    BY <1>1 DEF LoopInv
  <2>3. ASSUME NEW k \in loops'
        PROVE  k.of \in Htlc => stage'[k.of] \in {"nil", "err"}
    BY <1>2, <1>4, <1>5, <2>1, <2>2
  <2> QED
    BY <2>3 DEF LoopInv
<1>8. TypeOK'
  BY <1>1, <1>2, <1>4, <1>6 DEF TypeOK, Loops
<1>9. HtlcOK(h)'
  BY <1>1, <1>2, <1>3, <1>4 DEF HtlcOK, Asking, Quiet, Swap
<1>10. RecordInv'
  BY <1>1, <1>2, RecordSame
<1>11. LockInv'
  BY <1>1, <1>2, <1>4, LockStep
<1>12. \A g \in Htlc : g # h => stage'[g] = stage[g] /\ ResolvedOK(g)
  BY <1>2, <1>4 DEF ResolvedOK
<1> QED
  BY <1>2, <1>7, <1>8, <1>9, <1>10, <1>11, <1>12, CallStep

LEMMA StepAddInvoices ==
    ASSUME InvoiceInv, NEW h \in Htlc, AddInvoices(h)
    PROVE  InvoiceInv'
<1>1. TypeOK /\ RecordInv /\ HtlcInv /\ LockInv /\ LoopInv /\ HtlcOK(h)
  BY DEF InvoiceInv, HtlcInv
<1> DEFINE q == MyQueue(h)
<1>2. /\ lock = h /\ queued' = queued \union {"height"} /\ lock' = "free"
      /\ subs' = [subs EXCEPT ![h] = subs[h] \union {q}]
      /\ stage' = [stage EXCEPT ![h] = "held"]
      /\ UNCHANGED <<sc, state, htlc, arrived, ans, pay, link, res, timers,
                     watcher, loops, restarts, flaps, errors>>
  BY DEF AddInvoices, faults, disk
<1>3. q \in {"live", "dead"} /\ (q = "live" => link[h] = "up")
  BY DEF MyQueue
<1> HIDE DEF q
<1>4. stage[h] = "adding" /\ Quiet(h) /\ ans[h] = "none" /\ h \in arrived /\ link[h] # "down"
  BY <1>1, <1>2 DEF HtlcOK, Asking, LockInv
<1>5. /\ stage'[h] = "held" /\ subs'[h] = subs[h] \union {q}
      /\ \A g \in Htlc : g # h => stage'[g] = stage[g] /\ subs'[g] = subs[g]
      /\ stage' \in [Htlc -> {"none", "swap", "watch", "nil", "err", "notify", "adding", "held"}]
  BY <1>1, <1>2 DEF TypeOK
<1>6. subs' \in [Htlc -> SUBSET {"live", "dead"}]
  <2>1. subs \in [Htlc -> SUBSET {"live", "dead"}] /\ subs[h] \union {q} \in SUBSET {"live", "dead"}
    BY <1>1, <1>3 DEF TypeOK
  <2> QED
    BY <1>2, <2>1
<1>7. TypeOK'
  BY <1>1, <1>2, <1>5, <1>6 DEF TypeOK
<1>8. HtlcOK(h)'
  BY <1>1, <1>2, <1>3, <1>4, <1>5 DEF HtlcOK, Asking, Quiet, Swap
<1>9. RecordInv'
  BY <1>1, <1>2, RecordSame
<1>10. LockInv'
  BY <1>2, InvoicesAssumption DEF LockInv
<1>11. LoopInv'
  BY <1>1, <1>2, <1>4, <1>5, LoopSame
<1>12. \A g \in Htlc : g # h => stage'[g] = stage[g] /\ ResolvedOK(g)
  BY <1>2, <1>5 DEF ResolvedOK
<1> QED
  BY <1>2, <1>7, <1>8, <1>9, <1>10, <1>11, <1>12, CallStep

LEMMA StepNotifyExitHopHtlc ==
    ASSUME InvoiceInv, NEW h \in Htlc, NotifyExitHopHtlc(h)
    PROVE  InvoiceInv'
<1>1. TypeOK /\ RecordInv /\ HtlcInv /\ LockInv /\ LoopInv /\ HtlcOK(h)
  BY DEF InvoiceInv, HtlcInv
<1>2. /\ link[h] # "down" /\ stage[h] = "notify" /\ lock = "free"
      /\ UNCHANGED <<sc, arrived, ans, pay, link, watcher, queued, loops, restarts, flaps, errors>>
  BY DEF NotifyExitHopHtlc, faults
<1>3. PICK reject \in BOOLEAN :
        LET u == updateInvoice(h, reject)
        IN /\ state' = u.state
           /\ htlc' = u.htlc
           /\ stage' = [stage EXCEPT ![h] = IF u.outcome = "accepted" THEN "adding" ELSE "held"]
           /\ CASE u.outcome = "fail" ->
                     /\ res' = [res EXCEPT ![h] = "fail"]
                     /\ UNCHANGED <<subs, lock, timers>>
                [] u.outcome = "settle" ->
                     /\ Notify({g \in Htlc : u.htlc[g] = "settled"} \ {h}, "settle", {h})
                     /\ UNCHANGED timers
                [] u.outcome = "hold" ->
                     /\ subs' = [subs EXCEPT ![h] = subs[h] \union {MyQueue(h)}]
                     /\ timers' = IF u.state = "open" THEN timers \union {h} ELSE timers
                     /\ UNCHANGED <<res, lock>>
                [] u.outcome = "accepted" ->
                     /\ lock' = h
                     /\ UNCHANGED <<res, subs, timers>>
  BY DEF NotifyExitHopHtlc
<1> DEFINE u == updateInvoice(h, reject)
<1>4. UpdateOK(u, h)
  BY <1>1, UpdateFacts
<1> HIDE DEF u
<1>5. Quiet(h) /\ ans[h] = "none" /\ h \in arrived
  BY <1>1, <1>2 DEF HtlcOK, Asking
<1>6. /\ state' = u.state /\ htlc' = u.htlc
      /\ stage' = [stage EXCEPT ![h] = IF u.outcome = "accepted" THEN "adding" ELSE "held"]
  BY <1>3 DEF u
<1>7. /\ stage'[h] = (IF u.outcome = "accepted" THEN "adding" ELSE "held")
      /\ \A g \in Htlc : g # h => stage'[g] = stage[g]
      /\ stage' \in [Htlc -> {"none", "swap", "watch", "nil", "err", "notify", "adding", "held"}]
  BY <1>1, <1>6 DEF TypeOK
<1>8. /\ state' \in {"absent", "open", "accepted", "settled", "canceled"}
      /\ htlc' \in [Htlc -> {"none", "accepted", "settled", "canceled"}]
      /\ \A g \in Htlc : g # h /\ htlc[g] # "accepted" => htlc'[g] = htlc[g]
  <2>1. htlc \in [Htlc -> HtlcStates]
    BY <1>1 DEF TypeOK, HtlcStates
  <2> QED
    BY <1>4, <1>6, <2>1 DEF UpdateOK, Later, HtlcStates
<1>9. RecordInv'
  <2>1. PaidOK(sc'.amt, sc'.value, state', htlc')
    BY <1>2, <1>4, <1>6 DEF UpdateOK
  <2>2. state' = "absent" => Swap'
    BY <1>1, <1>2, <1>4, <1>6 DEF UpdateOK, RecordInv, Swap
  <2> QED
    BY <2>1, <2>2 DEF RecordInv, PaidOK, Accepted, SettledOn
<1>10. LoopInv'
  BY <1>1, <1>2, <1>7, LoopSame
<1>11. CASE u.outcome = "fail"
  <2>1. res' = [res EXCEPT ![h] = "fail"] /\ UNCHANGED <<subs, lock, timers>>
    BY <1>3, <1>11 DEF u
  <2>2. res'[h] = "fail" /\ \A g \in Htlc : g # h => res'[g] = res[g]
    BY <1>1, <2>1 DEF TypeOK
  <2>3. TypeOK'
    BY <1>1, <1>2, <1>7, <1>8, <2>1 DEF TypeOK
  <2>4. ~Swap => htlc'[h] \in {"none", "canceled"}
    BY <1>4, <1>6, <1>11 DEF UpdateOK
  <2>5. HtlcOK(h)'
    BY <1>1, <1>2, <1>5, <1>7, <1>11, <2>1, <2>2, <2>4 DEF HtlcOK, Asking, Quiet, Swap
  <2>6. LockInv'
    BY <1>2, <2>1, InvoicesAssumption DEF LockInv
  <2>7. \A g \in Htlc : g # h => stage'[g] = stage[g] /\ ResolvedOK(g)
    BY <1>7, <1>8, <2>1, <2>2 DEF ResolvedOK
  <2> QED
    BY <1>2, <1>9, <1>10, <2>3, <2>5, <2>6, <2>7, CallStep
<1>12. CASE u.outcome = "settle"
  <2>1. PICK H \in SUBSET Htlc, first \in SUBSET Htlc, r \in {"settle", "fail"} :
           /\ H = {g \in Htlc : u.htlc[g] = "settled"} \ {h} /\ first = {h} /\ r = "settle"
    OBVIOUS
  <2>2. Notify(H, r, first) /\ UNCHANGED timers
    BY <1>3, <1>12, <2>1 DEF u
  <2>3. NotifyOK(H, r, first)
    BY ONLY <1>1, <2>2, r \in {"settle", "fail"}, NotifyFacts, Zenon
  <2>4. /\ lock' \in {"free", "stuck"} /\ res' \in [Htlc -> {"none", "settle", "fail"}]
        /\ subs' \in [Htlc -> SUBSET {"live", "dead"}]
        /\ res'[h] = "settle" /\ subs'[h] \subseteq subs[h]
        /\ \A g \in Htlc : g # h =>
             /\ subs'[g] \subseteq subs[g]
             /\ res'[g] = res[g] \/ (res'[g] = "settle" /\ htlc'[g] = "settled" /\ "live" \in subs[g])
    BY <1>6, <2>1, <2>3 DEF NotifyOK
  <2>5. TypeOK'
    BY <1>1, <1>2, <1>7, <1>8, <2>2, <2>4 DEF TypeOK
  <2>6. htlc'[h] = "settled"
    BY <1>4, <1>6, <1>12 DEF UpdateOK
  <2>7. HtlcOK(h)'
    BY <1>1, <1>2, <1>5, <1>7, <1>12, <2>4, <2>6 DEF HtlcOK, Asking, Quiet, Swap
  <2>8. LockInv'
    BY <2>4, InvoicesAssumption DEF LockInv
  <2>9. \A g \in Htlc : g # h => stage'[g] = stage[g] /\ ResolvedOK(g)
    BY <1>7, <1>8, <2>4 DEF ResolvedOK
  <2> QED
    BY <1>2, <1>9, <1>10, <2>5, <2>7, <2>8, <2>9, CallStep
<1>13. CASE u.outcome = "hold"
  <2> DEFINE q == MyQueue(h)
  <2>1. /\ subs' = [subs EXCEPT ![h] = subs[h] \union {q}]
        /\ timers' = (IF u.state = "open" THEN timers \union {h} ELSE timers)
        /\ UNCHANGED <<res, lock>>
    BY <1>3, <1>13 DEF u
  <2>2. q \in {"live", "dead"} /\ (q = "live" => link[h] = "up")
    BY DEF MyQueue
  <2> HIDE DEF q
  <2>3. subs' \in [Htlc -> SUBSET {"live", "dead"}]
    <3>1. subs \in [Htlc -> SUBSET {"live", "dead"}] /\ subs[h] \union {q} \in SUBSET {"live", "dead"}
      BY <1>1, <2>2 DEF TypeOK
    <3> QED
      BY <2>1, <3>1
  <2>4. subs'[h] = subs[h] \union {q} /\ \A g \in Htlc : g # h => subs'[g] = subs[g]
    BY <1>1, <2>1 DEF TypeOK
  <2>5. TypeOK'
    BY <1>1, <1>2, <1>7, <1>8, <2>1, <2>3 DEF TypeOK
  <2>6. HtlcOK(h)'
    BY <1>1, <1>2, <1>5, <1>7, <1>13, <2>1, <2>2, <2>4 DEF HtlcOK, Asking, Quiet, Swap
  <2>7. LockInv'
    BY <1>2, <2>1, InvoicesAssumption DEF LockInv
  <2>8. \A g \in Htlc : g # h => stage'[g] = stage[g] /\ ResolvedOK(g)
    BY <1>7, <1>8, <2>1, <2>4 DEF ResolvedOK
  <2> QED
    BY <1>2, <1>9, <1>10, <2>5, <2>6, <2>7, <2>8, CallStep
<1>14. CASE u.outcome = "accepted"
  <2>1. lock' = h /\ UNCHANGED <<res, subs, timers>>
    BY <1>3, <1>14 DEF u
  <2>2. TypeOK'
    BY <1>1, <1>2, <1>7, <1>8, <2>1 DEF TypeOK
  <2>3. HtlcOK(h)'
    BY <1>1, <1>2, <1>5, <1>7, <1>14, <2>1 DEF HtlcOK, Asking, Quiet, Swap
  <2>4. LockInv'
    BY <1>7, <1>14, <2>1 DEF LockInv
  <2>5. \A g \in Htlc : g # h => stage'[g] = stage[g] /\ ResolvedOK(g)
    BY <1>7, <1>8, <2>1 DEF ResolvedOK
  <2> QED
    BY <1>2, <1>9, <1>10, <2>2, <2>3, <2>4, <2>5, CallStep
<1> QED
  BY <1>4, <1>11, <1>12, <1>13, <1>14 DEF UpdateOK

LEMMA StepRestart ==
    ASSUME InvoiceInv, Restart
    PROVE  InvoiceInv'
<1>1. TypeOK /\ RecordInv /\ HtlcInv
  BY DEF InvoiceInv
<1>2. /\ restarts < MaxRestarts /\ restarts' = restarts + 1
      /\ link' = [h \in Htlc |-> "down"] /\ stage' = [h \in Htlc |-> "none"]
      /\ res' = [h \in Htlc |-> "none"] /\ subs' = [h \in Htlc |-> {}]
      /\ timers' = {} /\ lock' = "free" /\ watcher' = "idle"
      /\ queued' \in {{"time"}, {"height"}, {}}
      /\ loops' = (IF pay = "inflight" THEN {[of |-> "gone", at |-> "run"]} ELSE {})
      /\ UNCHANGED <<sc, state, htlc, arrived, ans, pay, flaps, errors>>
  BY DEF Restart, disk
<1>3. RecordInv'
  BY <1>1, <1>2, RecordSame
<1>4. LockInv'
  BY <1>2, InvoicesAssumption DEF LockInv
<1> DEFINE k == [of |-> "gone", at |-> "run"]
<1>5. k \in Loops /\ k.of = "gone" /\ k.at = "run" /\ loops' \subseteq {k}
  BY <1>2 DEF Loops
<1> HIDE DEF k
<1>6. LoopInv'
  BY <1>5, InvoicesAssumption DEF LoopInv
<1>7. TypeOK'
  <2>1. restarts' \in 0 .. MaxRestarts
    BY <1>1, <1>2, InvoicesAssumption DEF TypeOK
  <2>2. loops' \subseteq Loops
    BY <1>5
  <2>3. /\ link' \in [Htlc -> {"up", "stopping", "down"}]
        /\ stage' \in [Htlc -> {"none", "swap", "watch", "nil", "err", "notify", "adding", "held"}]
        /\ res' \in [Htlc -> {"none", "settle", "fail"}]
        /\ subs' \in [Htlc -> SUBSET {"live", "dead"}]
        /\ queued' \subseteq {"time", "height"} /\ timers' \subseteq Htlc
    BY <1>2
  <2> QED
    BY <1>1, <1>2, <2>1, <2>2, <2>3 DEF TypeOK, Loops
<1>8. ASSUME NEW h \in Htlc PROVE HtlcOK(h)'
  <2>1. HtlcOK(h)
    BY <1>1 DEF HtlcInv
  <2>2. link'[h] = "down" /\ stage'[h] = "none" /\ res'[h] = "none" /\ subs'[h] = {}
    BY <1>2
  <2> QED
    BY <1>2, <2>1, <2>2 DEF HtlcOK, Asking, Quiet, Swap
<1> QED
  BY <1>3, <1>4, <1>6, <1>7, <1>8 DEF InvoiceInv, HtlcInv
-----------------------------------------------------------------------------
(* The invariant and what follows from it. *)

LEMMA InitInvoiceInv == Init => InvoiceInv
<1> SUFFICES ASSUME Init PROVE InvoiceInv
  OBVIOUS
<1>1. TypeOK
  BY InvoicesAssumption DEF Init, TypeOK
<1>2. RecordInv
  BY DEF Init, RecordInv, PaidOK
<1>3. HtlcInv
  BY DEF Init, HtlcInv, HtlcOK, Asking, Quiet
<1>4. LockInv /\ LoopInv
  BY InvoicesAssumption DEF Init, LockInv, LoopInv
<1> QED
  BY <1>1, <1>2, <1>3, <1>4 DEF InvoiceInv

LEMMA NextInvoiceInv == InvoiceInv /\ [Next]_vars => InvoiceInv'
<1> SUFFICES ASSUME InvoiceInv, [Next]_vars PROVE InvoiceInv'
  OBVIOUS
<1>1. CASE UNCHANGED vars
  <2>1. UNCHANGED <<sc, state, htlc, arrived, ans, pay, link, stage, res, subs, timers, lock,
                    watcher, queued, loops, restarts, flaps, errors>>
    BY <1>1 DEF vars, disk, memory, faults
  <2> QED
    BY <2>1 DEF InvoiceInv, TypeOK, RecordInv, PaidOK, Accepted, SettledOn, Swap,
                HtlcInv, HtlcOK, Asking, Quiet, LockInv, LoopInv
<1>2. ASSUME NEW h \in Htlc,
             \/ Arrive(h) \/ processAtomicSwap(h) \/ AddInvoice(h)
             \/ processAtomicSwapReturns(h) \/ NotifyExitHopHtlc(h)
             \/ AddInvoices(h) \/ SignAnswer(h) \/ cancelSingleHtlc(h)
             \/ StopLink(h) \/ LinkExits(h) \/ StartLink(h)
      PROVE  InvoiceInv'
  BY <1>2, StepArrive, StepProcessAtomicSwap, StepAddInvoice, StepProcessAtomicSwapReturns,
     StepNotifyExitHopHtlc, StepAddInvoices, StepSignAnswer, StepCancelSingleHtlc,
     StepStopLink, StepLinkExits, StepStartLink
<1>3. ASSUME UserSettles \/ UserCancels \/ cancelNextExpiredInvoice \/ Restart
      PROVE  InvoiceInv'
  BY <1>3, StepUserSettles, StepUserCancels, StepCancelNextExpiredInvoice, StepRestart
<1>4. ASSUME NEW w \in {"time", "height"}, Expire(w) PROVE InvoiceInv'
  BY <1>4, StepExpire
<1>5. ASSUME NEW l \in loops,
             \/ SendPayment(l) \/ PaymentEnds(l) \/ LoopFails(l) \/ LoopSettles(l)
             \/ LoopCancels(l)
      PROVE  InvoiceInv'
  BY <1>5, StepSendPayment, StepPaymentEnds, StepLoopFails, StepLoopSettles, StepLoopCancels
<1> QED
  BY <1>1, <1>2, <1>3, <1>4, <1>5 DEF Next

\* The inductive invariant: of the record, the resolutions on their way and the
\* links' calls into the registry, in every reachable state.
THEOREM InvoiceInvariant == Spec => []InvoiceInv
BY InitInvoiceInv, NextInvoiceInv, PTL DEF Spec

\* Type correctness of the registry, its links, watcher and payment goroutines.
THEOREM InvoiceTypes == Spec => []TypeOK
<1>1. InvoiceInv => TypeOK
  BY DEF InvoiceInv
<1> QED
  BY <1>1, InvoiceInvariant, PTL

\* updateLegacy, updateMpp and SettleHodlInvoice settle an invoice only when the
\* HTLCs settled with it add up to its value, for any amounts and any number of
\* HTLCs, whatever timers, replays and restarts come between.
THEOREM PaidInFullAlways == Spec => []PaidInFull
<1>1. InvoiceInv => PaidInFull
  <2> SUFFICES ASSUME InvoiceInv, state = "settled"
               PROVE  Sum({h \in Htlc : htlc[h] = "settled"}) >= sc.value
    BY DEF PaidInFull
  <2>1. Total(sc.amt, SettledOn(htlc)) >= sc.value
    BY DEF InvoiceInv, RecordInv, PaidOK
  <2>2. Sum({h \in Htlc : htlc[h] = "settled"}) = Total(sc.amt, SettledOn(htlc))
    BY SumIsTotal DEF SettledOn
  <2> QED
    BY <2>1, <2>2
<1> QED
  BY <1>1, InvoiceInvariant, PTL

\* The answer a link signs agrees with the record of the invoice for ever, for
\* any number of links that stop and replay and any number of restarts.
THEOREM AnswerMatchesRecordAlways == Spec => []AnswerMatchesRecord
<1>1. InvoiceInv => AnswerMatchesRecord
  BY DEF InvoiceInv, HtlcInv, HtlcOK, AnswerMatchesRecord
<1> QED
  BY <1>1, InvoiceInvariant, PTL
=============================================================================
