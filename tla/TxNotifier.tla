----------------------------- MODULE TxNotifier -----------------------------
(***************************************************************************)
(* The transaction notifier of chainntnfs/: it follows the best chain of a    *)
(* backend block by block, tells its clients when a transaction has enough     *)
(* confirmations or an output is spent, and takes it back after a              *)
(* reorganisation.                                                           *)
(*                                                                           *)
(* There is one transaction and one request, about its confirmation ("conf")   *)
(* or about the spend it makes ("spend"); the clients of the request share a    *)
(* notification set.  Every method takes the notifier's lock, so it is one      *)
(* action; the rescans, the registrations, the block events and the clients    *)
(* interleave.  A send to a full channel holds the lock until shutdown.         *)
(***************************************************************************)
EXTENDS Naturals, SequencesExt

CONSTANTS
    Clients,        \* who registers
    Scenarios,      \* for what, and the bounds
    ReorgSafety     \* reorgSafetyLimit: blocks after which a block is final

\* confs[c]: newConfNtfn refuses zero confirmations and more than the safety limit, and a
\* spend is notified at its first.  The bounds are on the blocks mined, the
\* reorganisations, and the restarts and failing rescans.
ASSUME NotifierAssumption ==
    /\ ReorgSafety \in Nat \ {0}
    /\ \A s \in Scenarios :
        /\ s.clients \subseteq Clients /\ s.request \in {"conf", "spend"}
        /\ s.confs \in [Clients -> IF s.request = "conf" THEN 1..ReorgSafety ELSE {1}]
        /\ s.maxMined \in Nat /\ s.maxReorgs \in Nat /\ s.maxFaults \in Nat

VARIABLES
    sc,         \* the scenario
    chain,      \* the best chain of the backend
    tip,        \* the chain the notifier has been told of
    phase,      \* "connected" between ConnectTip and NotifyHeight; "stuck" in a send
    mem,        \* the maps of the notifier
    scans,      \* the goroutines of the historical dispatches
    hint,       \* the request in the height hint cache, on disk; 0 for none
    view,       \* view[c]: the client believes the transaction confirmed (or the output spent)
    odd,        \* history: the races that the request has been through
    used        \* blocks mined, reorganisations and faults, and the longest chain, so far

vars == <<sc, chain, tip, phase, mem, scans, hint, view, odd, used>>

Height == Len(tip)
None == [height |-> 0, id |-> 0]
\* Where the transaction is among these heights of a chain.
Find(s, heights) ==
    LET at == {h \in heights \intersect DOMAIN s : s[h].tx}
    IN  IF at = {} THEN None
        ELSE LET h == CHOOSE x \in at : TRUE IN [height |-> h, id |-> s[h].id]
OnTip(d) == d.height <= Height /\ tip[d.height].id = d.id

\* set: live (in confNotifications or spendNotifications), rescanStatus and details;
\* index: the heights under which confsByInitialHeight or spendsByHeight has it;
\* queue: ntfnsByConfirmHeight; ntfn[c]: the registration of a client, its event
\* channels (event: Confirmed or Spend; negative: NegativeConf or Reorg) included.
NoSet == [live |-> FALSE, status |-> "NotStarted", details |-> None]
NoNtfn == [state |-> "new", start |-> 0, dispatched |-> FALSE,
           event |-> FALSE, negative |-> FALSE, updates |-> 0]
NewTxNotifier == [set |-> NoSet, index |-> {}, queue |-> {}, ntfn |-> [c \in Clients |-> NoNtfn]]

Init ==
    /\ sc \in Scenarios
    /\ chain = <<[id |-> 0, tx |-> FALSE]>> /\ tip = chain
    /\ phase = "idle"
    /\ mem = NewTxNotifier
    /\ scans = {}
    /\ hint = 0
    /\ view = [c \in Clients |-> FALSE]
    /\ odd = {}
    /\ used = [mined |-> 0, reorgs |-> 0, faults |-> 0, peak |-> 1]

Conf == sc.request = "conf"
On(m) == {c \in Clients : m.ntfn[c].state = "on"}
ConfHeight(c, d) == d.height + sc.confs[c] - 1
\* The Updates channel of a client holds as many as it asked confirmations for.
Fits(m) == \A c \in Clients : m.ntfn[c].updates <= sc.confs[c]
When(condition, race) == IF condition THEN {race} ELSE {}

-----------------------------------------------------------------------------
(* The backend: blocks are mined and disconnected. *)

Mine ==
    /\ used.mined < sc.maxMined
    /\ \E tx \in BOOLEAN :
        /\ tx => Find(chain, DOMAIN chain) = None
        /\ chain' = Append(chain, [id |-> used.mined + 1, tx |-> tx])
    /\ used' = [used EXCEPT !.mined = @ + 1, !.peak = IF Len(chain') > @ THEN Len(chain') ELSE @]
    /\ UNCHANGED <<sc, tip, phase, mem, scans, hint, view, odd>>

\* No block is disconnected that ReorgSafety blocks have been mined upon.
Reorg ==
    /\ used.reorgs < sc.maxReorgs
    /\ \E h \in 1..(Len(chain) - 1) :
        /\ h + ReorgSafety >= used.peak
        /\ chain' = SubSeq(chain, 1, h)
    /\ used' = [used EXCEPT !.reorgs = @ + 1]
    /\ UNCHANGED <<sc, tip, phase, mem, scans, hint, view, odd>>

-----------------------------------------------------------------------------
(* Dispatching details to one client. *)

WatchTooShort(m, d) ==
    IF d.height + ReorgSafety > Height + 1 THEN [m EXCEPT !.index = @ \union {d.height}] ELSE m
\* The request stays watched while its block can still be disconnected.
Watch(m, d) ==
    IF d.height + ReorgSafety > Height THEN [m EXCEPT !.index = @ \union {d.height}] ELSE m

dispatchConfDetails(m, c, d) ==
    IF d = None \/ m.ntfn[c].dispatched THEN m
    ELSE Watch(IF ConfHeight(c, d) <= Height
               THEN [m EXCEPT !.ntfn[c].updates = @ + 1,
                              !.ntfn[c].event = TRUE, !.ntfn[c].dispatched = TRUE]
               ELSE [m EXCEPT !.ntfn[c].updates = @ + 1,
                              !.queue = @ \union {<<ConfHeight(c, d), c>>}], d)

dispatchSpendDetails(m, c, d) ==
    IF d = None \/ m.ntfn[c].dispatched THEN m
    ELSE Watch([m EXCEPT !.ntfn[c].event = TRUE, !.ntfn[c].dispatched = TRUE], d)

Dispatch(m, c, d) == IF Conf THEN dispatchConfDetails(m, c, d) ELSE dispatchSpendDetails(m, c, d)
DispatchAll(m, d) == FoldSet(LAMBDA c, acc : Dispatch(acc, c, d), m, On(m))

\* What a client is told between ConnectTip and NotifyHeight of the block it is about, it
\* is told again by NotifyHeight.
Between(d) == When(phase = "connected" /\ d.height = Height, "between")

-----------------------------------------------------------------------------
(* Registrations.  The height hint is read before the lock is taken. *)

QueryHint(c) ==
    /\ c \in sc.clients
    /\ mem.ntfn[c].state = "new"
    /\ mem' = [mem EXCEPT !.ntfn[c].state = "asking",
                          !.ntfn[c].start = IF hint > 1 THEN hint ELSE 1]
    /\ UNCHANGED <<sc, chain, tip, phase, scans, hint, view, odd, used>>

JoinAtHeight(m, c) ==
    CASE m.set.status = "Complete" -> Dispatch(m, c, m.set.details)
      [] m.set.status = "Pending" -> m
      [] m.set.status = "NotStarted" ->
            [m EXCEPT !.set.status = IF m.ntfn[c].start >= Height THEN "Complete" ELSE "Pending"]
\* What a new client of the request finds: details, a rescan under way, or nothing yet.
Join(m, c) ==
    CASE m.set.status = "Complete" -> Dispatch(m, c, m.set.details)
      [] m.set.status = "Pending" -> m
      [] m.set.status = "NotStarted" ->
            [m EXCEPT !.set.status = IF m.ntfn[c].start > Height THEN "Complete" ELSE "Pending"]

\* RegisterConf and RegisterSpend.
Register(c) ==
    LET m == Join([mem EXCEPT !.ntfn[c].state = "on", !.set.live = TRUE], c)
        asks == mem.set.status = "NotStarted" /\ m.set.status = "Pending"
    IN  /\ mem.ntfn[c].state = "asking"
        /\ phase # "stuck"
        /\ mem' = m
        /\ scans' = scans \union {s \in {[start |-> mem.ntfn[c].start, end |-> Height,
                                          read |-> FALSE, found |-> None]} : asks}
        /\ odd' = odd \union Between(m.set.details)
        /\ UNCHANGED <<sc, chain, tip, phase, hint, view, used>>

Leave(c, queue) ==
    /\ mem.ntfn[c].state = "on"
    /\ phase # "stuck"
    /\ mem' = [mem EXCEPT !.ntfn[c].state = "off", !.queue = queue]
    /\ UNCHANGED <<sc, chain, tip, phase, scans, hint, view, odd, used>>

CancelKeepsQueue(c) == Conf /\ Leave(c, mem.queue)
\* A confirmation that is queued is taken out.
CancelConf(c) ==
    LET d == mem.set.details
    IN  Conf /\ Leave(c, IF d = None THEN mem.queue ELSE mem.queue \ {<<ConfHeight(c, d), c>>})
CancelSpend(c) == ~Conf /\ Leave(c, mem.queue)

-----------------------------------------------------------------------------
(* The historical dispatches. *)

\* A scan by height sees the range it was given; the transaction index of the backend,
\* for a confirmation, the whole chain.
OutOfRange(s) == s.end > Len(chain)
RescanReads(s) ==
    /\ ~s.read
    /\ \E heights \in (IF OutOfRange(s) THEN {} ELSE {s.start..s.end})
                            \union (IF Conf THEN {DOMAIN chain} ELSE {}) :
        scans' = (scans \ {s}) \union {[s EXCEPT !.read = TRUE, !.found = Find(chain, heights)]}
    /\ odd' = odd \union When(~IsPrefix(tip, chain), "lagging")
    /\ UNCHANGED <<sc, chain, tip, phase, mem, hint, view, used>>

\* A scan by height fails when the backend fails, or has no block of that height since a
\* reorganisation.  It is not tried again.
RescanFails(s) ==
    /\ ~s.read
    /\ \/ OutOfRange(s) /\ UNCHANGED used
       \/ used.faults < sc.maxFaults /\ used' = [used EXCEPT !.faults = @ + 1]
    /\ scans' = scans \ {s}
    /\ odd' = odd \union {"failed"}
    /\ UNCHANGED <<sc, chain, tip, phase, mem, hint, view>>

\* A rescan of either kind has ended; the answer counts unless the tip was quicker.
UpdateConfDetails(d) ==
    LET applies == mem.set.live /\ mem.set.details = None
        found == d # None /\ d.height <= Height
        done == [mem EXCEPT !.set.status = "Complete"]
        m == IF found THEN DispatchAll([done EXCEPT !.set.details = d], d) ELSE done
    IN  /\ phase # "stuck"
        /\ IF ~applies THEN UNCHANGED <<mem, phase, hint, odd>>
           ELSE /\ IF Fits(m) THEN mem' = m /\ UNCHANGED phase
                              ELSE phase' = "stuck" /\ UNCHANGED mem
                /\ hint' = CASE d = None -> Height [] found -> d.height [] OTHER -> hint
                /\ odd' = odd \union (IF found THEN Between(d) ELSE {})
                              \union When(found /\ ~OnTip(d), "disconnected")
                              \* no client, so that no index watches the details
                              \union When(found /\ On(mem) = {}, "unindexed")

UpdateSpendDetails(d) == UpdateConfDetails(d)

RescanUpdates(s) ==
    /\ s.read
    /\ scans' = scans \ {s}
    /\ IF Conf THEN UpdateConfDetails(s.found) ELSE UpdateSpendDetails(s.found)
    /\ UNCHANGED <<sc, chain, tip, view, used>>

\* The backend reports the spend by itself, in order with its blocks.
ProcessRelevantSpendTx ==
    LET d == Find(chain, DOMAIN chain)
    IN  /\ ~Conf /\ phase = "idle" /\ IsPrefix(tip, chain)
        /\ d # None /\ mem.set.live
        /\ UpdateSpendDetails(d)
        /\ UNCHANGED <<sc, chain, tip, scans, view, used>>

-----------------------------------------------------------------------------
(* Blocks. *)

\* The details are cached and watched, and a reorganisation not yet read is forgotten.
FoundAtTip(m, d) ==
    [m EXCEPT !.set = [@ EXCEPT !.status = "Complete", !.details = d],
              !.index = @ \union {d.height},
              !.ntfn = [c \in Clients |-> IF c \in On(m) THEN [@[c] EXCEPT !.negative = FALSE]
                                          ELSE @[c]]]

ConfAtTipUnqueued(m, d) == IF m.set.details # None THEN m ELSE FoundAtTip(m, d)
handleConfDetailsAtTip(m, d) ==
    IF m.set.details # None THEN m
    ELSE [FoundAtTip(m, d) EXCEPT !.queue = @ \union {<<ConfHeight(c, d), c>> : c \in On(m)}]

handleSpendDetailsAtTip(m, d) == FoundAtTip(m, d)

filterTx(m, block, d) ==
    IF ~block.tx \/ ~m.set.live THEN m
    ELSE IF Conf THEN handleConfDetailsAtTip(m, d) ELSE handleSpendDetailsAtTip(m, d)

HintsWhilePending(m, height, current) ==
    IF (m.set.live /\ m.set.details = None) \/ height \in m.index THEN current ELSE hint
\* The hint follows the height for what is not found yet, and for what was found in the
\* block that is connected or disconnected.
updateHints(m, height, current) ==
    IF \/ m.set.live /\ m.set.status = "Complete" /\ m.set.details = None
       \/ height \in m.index
    THEN current ELSE hint

\* A request found ReorgSafety blocks ago is final: its clients are done.
ClearMature(m, height) ==
    IF \A h \in m.index : h + ReorgSafety # height THEN m
    ELSE [m EXCEPT !.set = NoSet,
                   !.index = {h \in @ : h + ReorgSafety # height},
                   !.ntfn = [c \in Clients |-> IF c \in On(m) THEN [@[c] EXCEPT !.state = "done"]
                                               ELSE @[c]]]

ConnectTip ==
    LET h == Height + 1
        m == filterTx(mem, chain[h], [height |-> h, id |-> chain[h].id])
        \* the client has read the confirmation and never reads that it was taken back
        swallowed == \E c \in On(m) : /\ mem.ntfn[c].negative /\ ~m.ntfn[c].negative
                                      /\ view[c] /\ sc.confs[c] > 1
    IN  /\ phase = "idle" /\ tip # chain /\ IsPrefix(tip, chain)
        /\ tip' = Append(tip, chain[h])
        /\ phase' = "connected"
        /\ mem' = ClearMature(m, h)
        /\ hint' = updateHints(m, h, h)
        /\ odd' = odd \union When(swallowed, "swallowed")
                      \* a rescan outlives its set, and the next set gets its answer
                      \union When(mem.set.live /\ ~mem'.set.live /\ scans # {}, "outlived")
        /\ UNCHANGED <<sc, chain, scans, view, used>>

\* First the confirmations left, then the confirmations, then the spends of this height.
NotifyHeight ==
    LET waiting == {c \in On(mem) : /\ Conf /\ mem.index # {}
                                    /\ ConfHeight(c, mem.set.details) >= Height}
        ready == {c \in Clients : <<Height, c>> \in mem.queue}
        m == [mem EXCEPT
                !.ntfn = [c \in Clients |->
                    [@[c] EXCEPT !.updates = IF c \in waiting THEN @ + 1 ELSE @,
                                 !.event = @ \/ c \in ready,
                                 !.dispatched = @ \/ c \in ready]],
                !.queue = {q \in @ : q[1] # Height}]
    IN  /\ phase = "connected"
        /\ IF Fits(m) /\ \A c \in ready : ~mem.ntfn[c].event
           THEN /\ mem' = IF ~Conf /\ Height \in mem.index THEN DispatchAll(m, mem.set.details)
                          ELSE m
                /\ phase' = "idle"
           ELSE phase' = "stuck" /\ UNCHANGED mem
        /\ UNCHANGED <<sc, chain, tip, scans, hint, view, odd, used>>

NotDrained(n) == n
\* One update is drained from every client of a confirmation that is watched.
Drained(n) == [n EXCEPT !.updates = IF @ > 0 THEN @ - 1 ELSE 0]
DispatchNothing(n) == IF ~n.dispatched THEN n ELSE [n EXCEPT !.event = FALSE, !.dispatched = FALSE]
\* The message of a reorganisation takes the place of a notification not yet read.
dispatchReorg(n) ==
    IF ~n.dispatched THEN n
    ELSE [n EXCEPT !.event = FALSE, !.dispatched = FALSE, !.negative = TRUE]

DisconnectTip ==
    LET h == Height
        out == h \in mem.index
        drained == [c \in Clients |-> IF Conf /\ mem.index # {} /\ c \in On(mem)
                                      THEN Drained(mem.ntfn[c]) ELSE mem.ntfn[c]]
        m == [set |-> IF out THEN [mem.set EXCEPT !.details = None] ELSE mem.set,
              index |-> mem.index \ {h},
              queue |-> IF out THEN mem.queue \ {<<h + sc.confs[c] - 1, c>> : c \in
                                        {x \in On(mem) : ~mem.ntfn[x].dispatched}}
                        ELSE mem.queue,
              ntfn |-> [c \in Clients |-> IF out /\ c \in On(mem) THEN dispatchReorg(drained[c])
                                          ELSE drained[c]]]
        full == \E c \in On(mem) : out /\ mem.ntfn[c].dispatched /\ mem.ntfn[c].negative
        asked == \E c \in Clients : mem.ntfn[c].state = "asking" /\ mem.ntfn[c].start > h
    IN  /\ phase = "idle" /\ ~IsPrefix(tip, chain)
        /\ hint' = updateHints(mem, h, h - 1)
        /\ IF full THEN phase' = "stuck" /\ UNCHANGED <<mem, tip>>
                   ELSE mem' = m /\ tip' = Front(tip) /\ UNCHANGED phase
        /\ odd' = odd \union When(hint' > h \/ asked, "hint")
        /\ UNCHANGED <<sc, chain, scans, view, used>>

-----------------------------------------------------------------------------
(* The clients, which read the verdicts and, in this code base, no updates. *)

ReadEvent(c) ==
    /\ mem.ntfn[c].event
    /\ mem' = [mem EXCEPT !.ntfn[c].event = FALSE]
    /\ view' = [view EXCEPT ![c] = TRUE]
    /\ UNCHANGED <<sc, chain, tip, phase, scans, hint, odd, used>>

ReadNegative(c) ==
    /\ mem.ntfn[c].negative
    /\ mem' = [mem EXCEPT !.ntfn[c].negative = FALSE]
    /\ view' = [view EXCEPT ![c] = FALSE]
    /\ UNCHANGED <<sc, chain, tip, phase, scans, hint, odd, used>>

\* TearDown, and a new notifier at the best height of the backend.  Only the hint lasts,
\* for a chain that may have been reorganised below it meanwhile.
Restart ==
    LET same(h) == h \in DOMAIN tip \intersect DOMAIN chain /\ tip[h] = chain[h]
    IN  /\ used.faults < sc.maxFaults
        /\ tip' = chain
        /\ phase' = "idle"
        /\ mem' = NewTxNotifier
        /\ scans' = {}
        /\ view' = [c \in Clients |-> FALSE]
        /\ odd' = (odd \ {"between", "failed", "swallowed"})
                    \union When(\E h \in 1..hint : h < hint /\ ~same(h), "hint")
        /\ used' = [used EXCEPT !.faults = @ + 1]
        /\ UNCHANGED <<sc, chain, hint>>

Next ==
    \/ Mine \/ Reorg
    \/ ConnectTip \/ NotifyHeight \/ DisconnectTip
    \/ ProcessRelevantSpendTx
    \/ \E s \in scans : RescanReads(s) \/ RescanFails(s) \/ RescanUpdates(s)
    \/ \E c \in Clients : QueryHint(c) \/ Register(c) \/ CancelConf(c) \/ CancelSpend(c)
    \/ \E c \in Clients : ReadEvent(c) \/ ReadNegative(c)
    \/ Restart

Spec == Init /\ [][Next]_vars

\* The notifier works through its events, its rescans end and its clients read.
FairSpec ==
    /\ Spec
    /\ WF_vars(ConnectTip) /\ WF_vars(NotifyHeight) /\ WF_vars(DisconnectTip)
    /\ WF_vars(\E s \in scans : \/ RescanReads(s)
                                \/ OutOfRange(s) /\ RescanFails(s)
                                \/ RescanUpdates(s))
    /\ \A c \in Clients : WF_vars(ReadEvent(c))

-----------------------------------------------------------------------------
Heights == 0..(sc.maxMined + 1)
Details == [height : Heights, id : 0..sc.maxMined]

\* Every variable has its type, and no channel holds more than it was made for.
TypeOK ==
    /\ sc \in Scenarios
    /\ \A s \in {chain, tip} : \A h \in DOMAIN s : s[h] \in [id : 0..sc.maxMined, tx : BOOLEAN]
    /\ phase \in {"idle", "connected", "stuck"}
    /\ mem.set \in [live : BOOLEAN, status : {"NotStarted", "Pending", "Complete"},
                    details : Details]
    /\ mem.index \subseteq Heights
    /\ mem.queue \subseteq (1..(sc.maxMined + ReorgSafety)) \X Clients
    /\ \A c \in Clients :
        /\ mem.ntfn[c].state \in {"new", "asking", "on", "off", "done"}
        /\ mem.ntfn[c].start \in Heights
        /\ mem.ntfn[c].updates \in 0..sc.confs[c]
        /\ {mem.ntfn[c].dispatched, mem.ntfn[c].event, mem.ntfn[c].negative, view[c]}
                \subseteq BOOLEAN
    /\ \A s \in scans : s \in [start : Heights, end : Heights, read : BOOLEAN, found : Details]
    /\ hint \in Heights
    /\ odd \subseteq {"between", "failed", "swallowed", "hint", "lagging", "disconnected",
                      "unindexed", "outlived"}

Without(races) == odd \intersect races = {}

\* ConnectTip, NotifyHeight and DisconnectTip look the request up by the heights of the
\* indices and dereference what they find: an indexed request has its set and the details
\* of that height, and a queued client is registered and has not been told yet.  Excepted,
\* for the indices: a rescan handed in a block that is gone (disconnected) or had no client
\* left (unindexed), after which the set may have the details of another height.
IndexedHasSet ==
    /\ Without({"disconnected", "unindexed"}) =>
        \A h \in mem.index : mem.set.live /\ mem.set.details.height = h
    /\ \A q \in mem.queue :
        /\ q[2] \in On(mem) /\ ~mem.ntfn[q[2]].dispatched
        /\ mem.set.live /\ ConfHeight(q[2], mem.set.details) = q[1]

\* The details that a set caches, and hands to clients that register later, leave it with
\* their block, whether the tip or a rescan found them: the set is indexed under the height
\* that DisconnectTip looks at for as long as that block can be disconnected.  Excepted is
\* a rescan that ended when every client had cancelled (unindexed): then nothing is indexed.
\* Details that are already of a block that is gone when a rescan hands them in, which the
\* code caches too (disconnected), are outside this: they stay until a block of their height
\* is disconnected.
DetailsLeaveWithBlock ==
    [][/\ mem.set.details # None /\ OnTip(mem.set.details)
       /\ mem'.set.details = mem.set.details
       /\ "unindexed" \notin odd
       => OnTip(mem.set.details)']_vars

\* A request that is watched at the tip only, its rescan done or skipped, is not in the
\* chain already: nobody would find it.  Excepted: a rescan read a chain that the notifier
\* had not followed to (lagging), a registration or the cache has a hint above a block that
\* was disconnected (hint), or a set got the answer of the rescan of an earlier one
\* (outlived).
WatchedIsUnseen ==
    /\ mem.set.live /\ mem.set.status = "Complete" /\ mem.set.details = None
    /\ Without({"lagging", "hint", "outlived"})
    => Find(tip, DOMAIN tip) = None

\* The height hint on disk is not above the block with the transaction, so a rescan that
\* starts there after a restart finds it: no hint is written while a rescan is under way,
\* and the hint of a request that was found follows its block.  Excepted are the same races:
\* in particular, a reorganisation does not lower the hint of a request that nobody watches,
\* or whose rescan is under way (hint).
HintIsSafe ==
    LET d == Find(tip, DOMAIN tip)
    IN  Without({"lagging", "hint", "outlived"}) /\ d # None => hint <= d.height

\* A send to a client blocks the notifier, its lock held, after three races only.  The
\* first does it by itself: a client that is told of a block between its ConnectTip and its
\* NotifyHeight (between) is told of it twice, and its Updates channel, which nobody reads,
\* is full one send too early.  The others are details of a block that is gone
\* (disconnected, unindexed).  Otherwise the updates fit, because a reorganisation takes back as many as
\* it makes the notifier send again, and a verdict is drained before the next one.
BlocksOnlyAfterRace == phase = "stuck" => ~Without({"between", "disconnected", "unindexed"})

\* Between blocks, a client that believes the transaction confirmed, and has no message of
\* a reorganisation to read, has been told of a confirmation that stands.  Excepted: it did
\* not read that message before the next confirmation, which consumes it (swallowed), and
\* goes on believing in the first while the second is not deep enough.
Known(c) ==
    view[c] /\ ~mem.ntfn[c].negative
        => mem.ntfn[c].dispatched /\ mem.set.details # None
ClientKnows == phase = "idle" /\ Without({"swallowed"}) => \A c \in On(mem) : Known(c)

\* A registered client is told once the transaction has the confirmations it asked for,
\* whatever is mined, disconnected and rescanned meanwhile.  Excepted: the set has details
\* of a block that is gone (disconnected, unindexed), the request is hidden by a hint above
\* it (hint), its rescan failed and nobody tries it again (failed), or a client was told
\* between ConnectTip and NotifyHeight, which may block the notifier (between).
EventuallyTold ==
    \A c \in Clients :
        LET d == Find(chain, DOMAIN chain)
            due == /\ mem.ntfn[c].state \in {"on", "done"} /\ d # None
                   /\ ConfHeight(c, d) <= Len(chain)
                   /\ Without({"disconnected", "unindexed", "hint", "failed", "between"})
        IN  due ~> view[c] \/ ~due
=============================================================================
