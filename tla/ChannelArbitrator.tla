------------------------- MODULE ChannelArbitrator -------------------------
(***************************************************************************)
(* The channel arbitrator of contractcourt/: the persisted state machine     *)
(* that takes a channel to the chain, and the resolvers of the HTLCs that      *)
(* were on the commitment that confirmed.                                    *)
(*                                                                           *)
(* An outgoing or incoming HTLC is on some of three commitments: ours          *)
(* ("local"), the peer's ("remote") and the peer's next one ("pending"), as    *)
(* dust or with an output.  Which of them confirms is up to the chain.  A       *)
(* step of the arbitrator is one write to disk or one call to another           *)
(* subsystem, so that the node may restart between any two of them.             *)
(***************************************************************************)
EXTENDS Naturals, FiniteSets

CONSTANTS
    Outgoing,       \* HTLCs we offered
    Incoming,       \* HTLCs the peer offered
    Scenarios,      \* which HTLC is where, and when it expires
    Delta,          \* blocks before its expiry at which an HTLC sends us to the chain
    MaxHeight,      \* bound: blocks
    MaxFaults       \* bound: restarts of the node, and calls of others that fail

Htlc == Outgoing \union Incoming
Commitment == {"local", "remote", "pending"}
Contract == Htlc \union {"commit", "breach"}

\* place[h]: the commitments with the HTLC; dust[h]: those where it has no output;
\* own: payments of this node; self: our balance has an output.  An HTLC that we
\* offer comes to our commitment after the peer's, and leaves it before.
ASSUME ArbitratorAssumption ==
    /\ IsFiniteSet(Htlc) /\ Outgoing \intersect Incoming = {}
    /\ Htlc \intersect {"commit", "breach"} = {}
    /\ \A s \in Scenarios :
        /\ s.place \in [Htlc -> SUBSET Commitment] /\ s.dust \in [Htlc -> SUBSET Commitment]
        /\ s.expiry \in [Htlc -> Nat] /\ s.own \subseteq Outgoing /\ s.self \in BOOLEAN
        /\ \A h \in Outgoing : s.place[h] # {"local"}
    /\ Delta \in Nat /\ MaxHeight \in Nat /\ MaxFaults \in Nat

VARIABLES
    sc,         \* the scenario
    height,     \* of the chain
    confirmed,  \* what spent the funding output
    spentAt,    \* the height at which it did
    published,  \* our commitment is in the hands of the network
    spent,      \* spent[h]: how the output of the HTLC was spent
    known,      \* incoming HTLCs whose preimage we know, on disk
    told,       \* told[h]: what the switch was first told about an outgoing HTLC
    state,      \* ArbitratorState, on disk
    resolutions,\* the contract resolutions are logged, on disk
    commitSet,  \* the confirmed commitment set is stored, on disk
    stored,     \* our commitment is stored as broadcast, on disk
    closed,     \* the channel is marked closed, on disk
    resolved,   \* the channel is marked fully resolved, on disk
    contract,   \* contract[c]: the unresolved contract, on disk
    pc,         \* where the arbitrator is
    trigger,    \* trigger and height of the state machine's current advance, whether
                \* it has the confirmed commitment set, and whether the node has just
                \* started and gives its own payments time
    next,       \* the state to commit
    boot,       \* the advance is the one of Start
    run,        \* run[c]: where the goroutine of the resolver is
    seen,       \* the last block the arbitrator was told of
    failed,     \* something waits for a restart
    rerun,      \* history: the state StateContractClosed was entered again by Start
    faults

chain == <<height, confirmed, spentAt, published, spent>>
disk == <<known, told, state, resolutions, commitSet, stored, closed, resolved, contract>>
memory == <<pc, trigger, next, boot, run, seen, failed>>
vars == <<sc, chain, disk, memory, rerun, faults>>

States == {"Default", "BroadcastCommit", "CommitmentBroadcasted", "ContractClosed",
           "WaitingFullResolution", "FullyResolved"}

TypeOK ==
    /\ sc \in Scenarios
    /\ height \in 0..MaxHeight /\ seen \in 0..MaxHeight /\ spentAt \in 0..MaxHeight
    /\ confirmed \in {"none", "coop", "breach"} \union Commitment
    /\ published \in BOOLEAN /\ resolutions \in BOOLEAN /\ commitSet \in BOOLEAN
    /\ stored \in BOOLEAN /\ closed \in BOOLEAN /\ resolved \in BOOLEAN /\ boot \in BOOLEAN
    /\ failed \in BOOLEAN /\ rerun \in BOOLEAN
    /\ spent \in [Htlc -> {"none", "claimed", "timedout"}]
    /\ known \subseteq Incoming
    /\ told \in [Outgoing -> {"none", "settle", "fail"}]
    /\ state \in States /\ next \in States
    /\ contract \in [Contract -> {"none", "contest", "final", "resolved", "gone"}]
    /\ pc \in {"idle", "log", "set", "close", "step", "store", "publish", "insert",
               "commit", "exited"}
    /\ trigger \in [kind : {"chain", "user", "local", "remote", "coop", "breach"},
                    height : 0..MaxHeight, set : BOOLEAN, grace : BOOLEAN]
    /\ run \in [Contract -> {"off", "watch", "checkpoint", "delete", "signal"}]
    /\ faults \in 0..MaxFaults

Init ==
    /\ sc \in Scenarios
    /\ height = 0 /\ seen = 0 /\ spentAt = 0
    /\ confirmed = "none" /\ published = FALSE
    /\ spent = [h \in Htlc |-> "none"]
    /\ known = {}
    /\ told = [h \in Outgoing |-> "none"]
    /\ state = "Default" /\ next = "Default"
    /\ resolutions = FALSE /\ commitSet = FALSE /\ stored = FALSE
    /\ closed = FALSE /\ resolved = FALSE
    /\ contract = [c \in Contract |-> "none"]
    /\ pc = "idle"
    /\ trigger = [kind |-> "chain", height |-> 0, set |-> FALSE, grace |-> FALSE]
    /\ boot = FALSE /\ failed = FALSE /\ rerun = FALSE
    /\ run = [c \in Contract |-> "off"]
    /\ faults = 0

----------------------------------------------------------------------------
(* Chain actions: what to do about each HTLC. *)

On(k) == {h \in Htlc : k \in sc.place[h]}
Output(k) == {h \in On(k) : k \notin sc.dust[h]}

shouldGoOnChain(h) ==
    trigger.height >= sc.expiry[h] - Delta /\ (h \in sc.own => ~trigger.grace)

NoActions == [failNow |-> {}, timeout |-> {}, watch |-> {}]

\* An HTLC of k sends us to the chain: an incoming one when we know its preimage.
HaveChainActions(k) == \E h \in On(k) \ (Incoming \ known) : shouldGoOnChain(h)

checkCommitChainActions(k) ==
    LET due == {h \in Outgoing : shouldGoOnChain(h)}
    IN IF trigger.kind = "chain" /\ ~HaveChainActions(k) THEN NoActions
       ELSE [failNow |-> (On(k) \ Output(k)) \intersect Outgoing,
             timeout |-> Output(k) \intersect due,
             watch |-> Output(k) \ due]

\* Outgoing HTLCs of the peer's commitments that are not on ours.
checkRemoteDanglingActions(confirms) ==
    {h \in ((On("remote") \union On("pending")) \ On("local")) \intersect Outgoing :
        confirms \/ shouldGoOnChain(h)}

\* A bug: what is only on the peer's other commitment is left alone.
noRemoteDiffActions(k) == {}

\* Outgoing HTLCs of the peer's commitment that did not confirm.
checkRemoteDiffActions(k) ==
    (On(IF k = "remote" THEN "pending" ELSE "remote") \ On(k)) \intersect Outgoing

checkLocalChainActions(confirms) ==
    LET a == checkCommitChainActions("local")
    IN [a EXCEPT !.failNow = @ \union checkRemoteDanglingActions(confirms)]

\* k: the peer's commitment that confirmed.
checkRemoteChainActions(k) ==
    LET a == checkCommitChainActions(k)
    IN [a EXCEPT !.failNow = @ \union checkRemoteDiffActions(k)]

\* Without the commitment set only what an old version logged is left: nothing.
constructChainActions ==
    IF ~trigger.set THEN NoActions
    ELSE IF confirmed = "local" THEN checkLocalChainActions(TRUE)
    ELSE checkRemoteChainActions(confirmed)

\* The HTLCs to fail at once, and the new contracts.
prepContractResolutions ==
    IF confirmed = "breach"
    THEN [fail |-> (On("remote") \union On("pending")) \intersect Outgoing,
          contract |-> [contract EXCEPT !["breach"] = "contest"]]
    ELSE LET a == constructChainActions
         IN [fail |-> a.failNow,
             contract |-> [c \in Contract |->
                CASE c \in a.timeout -> "final"
                  [] c \in a.watch -> "contest"
                  [] c = "commit" /\ sc.self -> "contest"
                  [] OTHER -> contract[c]]]

\* The switch acts on the first message about an HTLC.
Tell(H, answer) ==
    told' = [h \in Outgoing |-> IF h \in H /\ told[h] = "none" THEN answer ELSE told[h]]

----------------------------------------------------------------------------
(* The chain and the channel. *)

NewBlock ==
    /\ height < MaxHeight /\ height' = height + 1
    /\ UNCHANGED <<sc, confirmed, spentAt, published, spent, disk, memory, rerun, faults>>

\* A transaction spends the funding output: a cooperative close only when there
\* is no HTLC, and ours only when it was published.
Confirm(k) ==
    /\ confirmed = "none"
    /\ k = "coop" => \A h \in Htlc : sc.place[h] = {}
    /\ k = "local" => published
    /\ k = "pending" => On("pending") # On("remote")
    /\ confirmed' = k /\ spentAt' = height
    /\ UNCHANGED <<sc, height, published, spent, disk, memory, rerun, faults>>

\* The preimage of an incoming HTLC turns up, from another channel or an invoice.
LearnPreimage(h) ==
    /\ h \in Incoming \ known /\ sc.place[h] # {} /\ known' = known \union {h}
    /\ UNCHANGED <<sc, chain, told, state, resolutions, commitSet, stored, closed,
                   resolved, contract, memory, rerun, faults>>

OnChain(h) == confirmed \in Commitment /\ h \in Output(confirmed) /\ spent[h] = "none"
Spend(h, how) ==
    /\ spent' = [spent EXCEPT ![h] = how]
    /\ UNCHANGED <<sc, height, confirmed, spentAt, published, disk, memory, rerun, faults>>

\* An output is claimed with its preimage: by the peer, or by our success resolver.
Claim(h) ==
    /\ OnChain(h) /\ (h \in Incoming => contract[h] = "final")
    /\ Spend(h, "claimed")
\* An output is taken back after its expiry: by our timeout resolver, or by the
\* peer unless we are claiming it.
TimeOut(h) ==
    /\ OnChain(h) /\ height >= sc.expiry[h]
    /\ IF h \in Outgoing THEN contract[h] = "final" ELSE contract[h] # "final"
    /\ Spend(h, "timedout")

----------------------------------------------------------------------------
(* channelAttendant takes an event. *)

\* advanceState begins.
Advance(kind, at, set) ==
    /\ pc' = "step"
    /\ \E grace \in (IF sc.own = {} THEN {FALSE} ELSE BOOLEAN) :
        trigger' = [kind |-> kind, height |-> at, set |-> set, grace |-> grace]

\* A new block: only StateDefault looks at it.
HandleBlock ==
    /\ pc = "idle" /\ seen # height /\ seen' = height
    /\ IF state = "Default" THEN Advance("chain", height, FALSE) ELSE UNCHANGED <<pc, trigger>>
    /\ UNCHANGED <<sc, chain, disk, next, boot, run, failed, rerun, faults>>

\* The user asks for a force close.
HandleForceClose ==
    /\ pc = "idle" /\ state = "Default"
    /\ Advance("user", seen, FALSE)
    /\ UNCHANGED <<sc, chain, disk, next, boot, run, seen, failed, rerun, faults>>

\* A bug: the channel is marked closed before anything is logged.
HandleCloseMarksFirst ==
    /\ pc = "idle" /\ confirmed # "none" /\ ~closed
    /\ pc' = "close"
    /\ UNCHANGED <<sc, chain, disk, trigger, next, boot, run, seen, failed, rerun, faults>>

\* The chain watcher reports the close, until the channel is marked closed.
HandleClose ==
    /\ pc = "idle" /\ confirmed # "none" /\ ~closed
    /\ pc' = IF confirmed = "coop" THEN "close" ELSE "log"
    /\ UNCHANGED <<sc, chain, disk, trigger, next, boot, run, seen, failed, rerun,
                   faults>>

LogContractResolutions ==
    /\ pc = "log" /\ pc' = "set"
    /\ resolutions' = TRUE
    /\ UNCHANGED <<sc, chain, known, told, state, commitSet, stored, closed, resolved,
                   contract, trigger, next, boot, run, seen, failed, rerun, faults>>

InsertConfirmedCommitSet ==
    /\ pc = "set" /\ pc' = "close"
    /\ commitSet' = TRUE
    /\ UNCHANGED <<sc, chain, known, told, state, resolutions, stored, closed, resolved,
                   contract, trigger, next, boot, run, seen, failed, rerun, faults>>

CloseTrigger == IF confirmed = "pending" THEN "remote" ELSE confirmed

MarkChannelClosed ==
    /\ pc = "close" /\ closed' = TRUE
    /\ Advance(CloseTrigger, spentAt, confirmed # "coop")
    /\ UNCHANGED <<sc, chain, known, told, state, resolutions, commitSet, stored, resolved,
                   contract, next, boot, run, seen, failed, rerun, faults>>

\* A resolver reports that its contract is gone.
HandleResolutionSignal(c) ==
    /\ pc = "idle" /\ run[c] = "signal"
    /\ run' = [run EXCEPT ![c] = "off"]
    /\ Advance("chain", seen, FALSE)
    /\ UNCHANGED <<sc, chain, disk, next, boot, seen, failed, rerun, faults>>

----------------------------------------------------------------------------
(* stateStep, one state at a time, and the commit of the next state. *)

\* A no-op transition ends the advance.
Ends == pc' = "idle" /\ boot' = FALSE /\ UNCHANGED next
Goes(s) == pc' = "commit" /\ next' = s /\ UNCHANGED boot

\* Where a close that was confirmed leads, if nothing had been done before.
AfterClose ==
    CASE trigger.kind = "coop" -> "FullyResolved"
      [] trigger.kind = "breach" /\ ~resolutions -> "FullyResolved"
      [] OTHER -> "ContractClosed"
IsClose == trigger.kind \notin {"chain", "user"}

StepDefault ==
    /\ pc = "step" /\ state = "Default"
    /\ IF trigger.kind = "chain" /\ checkLocalChainActions(FALSE) = NoActions THEN Ends
       ELSE Goes(IF IsClose THEN AfterClose ELSE "BroadcastCommit")
    /\ UNCHANGED <<sc, chain, disk, trigger, run, seen, failed, rerun, faults>>

\* ForceCloseChan stops the link; the transaction is stored, then published.
StepBroadcastCommit ==
    /\ pc = "step" /\ state = "BroadcastCommit"
    /\ IF IsClose THEN Goes(AfterClose)
       ELSE pc' = "store" /\ UNCHANGED <<next, boot>>
    /\ UNCHANGED <<sc, chain, disk, trigger, run, seen, failed, rerun, faults>>

MarkCommitmentBroadcasted ==
    /\ pc = "store" /\ pc' = "publish"
    /\ stored' = TRUE
    /\ UNCHANGED <<sc, chain, known, told, state, resolutions, commitSet, closed, resolved,
                   contract, trigger, next, boot, run, seen, failed, rerun, faults>>

\* A double spend is not an error: another commitment is in the network.
PublishTx ==
    /\ pc = "publish"
    /\ published' = (published \/ confirmed = "none")
    /\ Goes("CommitmentBroadcasted")
    /\ UNCHANGED <<sc, height, confirmed, spentAt, spent, disk, trigger, run, seen, failed, rerun,
                   faults>>

StepCommitmentBroadcasted ==
    /\ pc = "step" /\ state = "CommitmentBroadcasted"
    /\ IF IsClose THEN Goes(AfterClose) ELSE Ends
    /\ UNCHANGED <<sc, chain, disk, trigger, run, seen, failed, rerun, faults>>

\* Nothing to resolve: neither outputs of ours nor HTLCs on any commitment.
NothingOnChain ==
    /\ confirmed # "breach" /\ ~sc.self
    /\ \A h \in Htlc : sc.place[h] = {}

\* HTLCs without an output are failed back first.
StepContractClosed ==
    /\ pc = "step" /\ state = "ContractClosed"
    /\ IF NothingOnChain THEN Goes("FullyResolved") /\ UNCHANGED told
       ELSE /\ Tell(prepContractResolutions.fail, "fail")
            /\ pc' = "insert"
            /\ UNCHANGED <<next, boot>>
    /\ UNCHANGED <<sc, chain, known, state, resolutions, commitSet, stored, closed, resolved,
                   contract, trigger, run, seen, failed, rerun, faults>>

\* Then the contracts are stored and their resolvers launched.
InsertUnresolvedContracts ==
    /\ pc = "insert"
    /\ contract' = prepContractResolutions.contract
    /\ run' = [c \in Contract |->
        IF contract'[c] \in {"contest", "final"} /\ run[c] = "off" THEN "watch" ELSE run[c]]
    /\ Goes("WaitingFullResolution")
    /\ UNCHANGED <<sc, chain, known, told, state, resolutions, commitSet, stored, closed,
                   resolved, trigger, seen, failed, rerun, faults>>

Unresolved == {c \in Contract : contract[c] \notin {"none", "gone"}}

\* Start relaunches the resolvers that are not done.
StepWaitingFullResolution ==
    /\ pc = "step" /\ state = "WaitingFullResolution"
    /\ IF Unresolved = {} THEN Goes("FullyResolved") /\ UNCHANGED run
       ELSE /\ Ends
            /\ run' = [c \in Contract |->
                IF boot /\ contract[c] \in {"contest", "final"} THEN "watch" ELSE run[c]]
    /\ UNCHANGED <<sc, chain, disk, trigger, seen, failed, rerun, faults>>

\* MarkChannelResolved also stops the arbitrator and wipes its log.
StepFullyResolved ==
    /\ pc = "step" /\ state = "FullyResolved"
    /\ resolved' = TRUE /\ pc' = "exited"
    /\ UNCHANGED <<sc, chain, known, told, state, resolutions, commitSet, stored, closed,
                   contract, trigger, next, boot, run, seen, failed, rerun, faults>>

CommitState ==
    /\ pc = "commit" /\ pc' = "step"
    /\ state' = next
    /\ UNCHANGED <<sc, chain, known, told, resolutions, commitSet, stored, closed, resolved,
                   contract, trigger, next, boot, run, seen, failed, rerun, faults>>

\* The node that publishes, or the switch that is told, returns an error: the
\* advance ends in the prior state, and nothing tries again before a restart.  Start
\* fails with it, and with Start the node.
StepFails ==
    /\ \/ pc = "publish"
       \/ pc = "step" /\ state = "ContractClosed" /\ ~NothingOnChain
    /\ faults < MaxFaults /\ faults' = faults + 1
    /\ failed' = TRUE
    /\ pc' = (IF boot THEN "exited" ELSE "idle") /\ boot' = FALSE
    /\ UNCHANGED <<sc, chain, disk, trigger, next, run, seen, rerun>>

----------------------------------------------------------------------------
(* Resolvers. *)

Watching(c) == run[c] = "watch"
Resolver(c, to) == run' = [run EXCEPT ![c] = to]
Idle == UNCHANGED <<pc, trigger, next, boot, seen, failed, rerun, faults>>

\* The resolver makes way for another one, in the log and in its goroutine.
SwapContract(h) ==
    /\ contract' = [contract EXCEPT ![h] = "final"]
    /\ UNCHANGED <<sc, chain, known, told, state, resolutions, commitSet, stored, closed,
                   resolved, run>> /\ Idle

\* An outgoing HTLC is about to expire: its timeout resolver takes over.
ContestOutgoing(h) ==
    /\ h \in Outgoing /\ Watching(h) /\ contract[h] = "contest"
    /\ spent[h] = "none" /\ height >= sc.expiry[h] - 1
    /\ SwapContract(h)

\* The preimage of an incoming HTLC is known before it expires: its success resolver
\* takes over.
ContestIncoming(h) ==
    /\ h \in Incoming /\ Watching(h) /\ contract[h] = "contest"
    /\ h \in known /\ height < sc.expiry[h]
    /\ SwapContract(h)

\* The peer has claimed an outgoing HTLC: the switch gets the preimage.
claimCleanUp(h) ==
    /\ h \in Outgoing /\ Watching(h) /\ spent[h] = "claimed"
    /\ Tell({h}, "settle") /\ Resolver(h, "checkpoint")
    /\ UNCHANGED <<sc, chain, known, state, resolutions, commitSet, stored, closed,
                   resolved, contract>> /\ Idle

\* A bug: the HTLC is failed back when its timeout transaction is published.
handlePublish(h) ==
    /\ h \in Outgoing /\ Watching(h) /\ contract[h] = "final"
    /\ Tell({h}, "fail") /\ Resolver(h, "checkpoint")
    /\ UNCHANGED <<sc, chain, known, state, resolutions, commitSet, stored, closed,
                   resolved, contract>> /\ Idle

\* Our timeout transaction has spent it: the HTLC is failed back.
handleCommitSpend(h) ==
    /\ h \in Outgoing /\ Watching(h) /\ spent[h] = "timedout"
    /\ Tell({h}, "fail") /\ Resolver(h, "checkpoint")
    /\ UNCHANGED <<sc, chain, known, state, resolutions, commitSet, stored, closed,
                   resolved, contract>> /\ Idle

Done(c) == Resolver(c, "checkpoint") /\ UNCHANGED <<sc, chain, disk>> /\ Idle

\* An incoming HTLC has expired, or the registry refuses it.
IncomingEnds(h) ==
    /\ h \in Incoming /\ Watching(h) /\ contract[h] = "contest"
    /\ height >= sc.expiry[h] \/ h \notin known
    /\ Done(h)

\* Our success transaction has claimed it.
SuccessEnds(h) ==
    /\ h \in Incoming /\ Watching(h) /\ contract[h] = "final" /\ spent[h] # "none"
    /\ Done(h)

\* Our balance is swept; the breach arbiter is done.
CommitSweepEnds == Watching("commit") /\ Done("commit")
BreachEnds == Watching("breach") /\ Done("breach")

\* The resolver stores that it is resolved.
Checkpoint(c) ==
    /\ run[c] = "checkpoint" /\ Resolver(c, "delete")
    /\ contract' = [contract EXCEPT ![c] = "resolved"]
    /\ UNCHANGED <<sc, chain, known, told, state, resolutions, commitSet, stored, closed,
                   resolved>> /\ Idle

\* resolveContract removes it from the log, then signals.
ResolveContract(c) ==
    /\ run[c] = "delete" /\ Resolver(c, "signal")
    /\ contract' = [contract EXCEPT ![c] = "gone"]
    /\ UNCHANGED <<sc, chain, known, told, state, resolutions, commitSet, stored, closed,
                   resolved>> /\ Idle

\* Resolve, or its checkpoint, returns an error: the goroutine of the resolver ends, and
\* nothing runs it again before a restart.
ResolverFails(c) ==
    /\ run[c] \in {"watch", "checkpoint"} /\ Resolver(c, "off")
    /\ faults < MaxFaults /\ faults' = faults + 1
    /\ failed' = TRUE
    /\ UNCHANGED <<sc, chain, disk, pc, trigger, next, boot, seen, rerun>>

----------------------------------------------------------------------------
\* A bug: a closed channel whose state machine has not followed starts like any other.
AlwaysChainTrigger == "chain"

\* The trigger of Start: that of the close when the channel was marked closed and
\* the state machine has not followed.
StartTrigger ==
    IF closed /\ state \in {"Default", "BroadcastCommit", "CommitmentBroadcasted"}
    THEN CloseTrigger ELSE "chain"

\* The node restarts: a stored commitment is published again, and Start advances.
Restart ==
    /\ ~resolved
    /\ IF failed THEN UNCHANGED faults
       ELSE faults < MaxFaults /\ faults' = faults + 1
    /\ published' = (published \/ (stored /\ ~closed /\ confirmed = "none"))
    /\ run' = [c \in Contract |-> "off"]
    /\ Advance(StartTrigger, IF closed THEN spentAt ELSE height, commitSet)
    /\ boot' = TRUE /\ failed' = FALSE /\ seen' = height
    /\ rerun' = (rerun \/ state = "ContractClosed")
    /\ UNCHANGED <<sc, height, confirmed, spentAt, spent, disk, next>>

Arbitrator ==
    \/ HandleBlock \/ HandleClose
    \/ LogContractResolutions \/ InsertConfirmedCommitSet \/ MarkChannelClosed
    \/ \E c \in Contract : HandleResolutionSignal(c)
    \/ StepDefault \/ StepBroadcastCommit \/ MarkCommitmentBroadcasted \/ PublishTx
    \/ StepCommitmentBroadcasted \/ StepContractClosed \/ InsertUnresolvedContracts
    \/ StepWaitingFullResolution \/ StepFullyResolved \/ CommitState

Resolving(c) ==
    \/ ContestOutgoing(c) \/ claimCleanUp(c) \/ handleCommitSpend(c)
    \/ ContestIncoming(c) \/ IncomingEnds(c) \/ SuccessEnds(c)
    \/ c = "commit" /\ CommitSweepEnds
    \/ c = "breach" /\ BreachEnds
    \/ Checkpoint(c) \/ ResolveContract(c)

Next ==
    \/ NewBlock
    \/ \E k \in Commitment \union {"coop", "breach"} : Confirm(k)
    \/ \E h \in Htlc : LearnPreimage(h) \/ Claim(h) \/ TimeOut(h)
    \/ HandleForceClose \/ Arbitrator \/ StepFails
    \/ \E c \in Contract : Resolving(c) \/ ResolverFails(c)
    \/ Restart

Spec == Init /\ [][Next]_vars

\* The arbitrator and the resolvers run, blocks are found, our transactions
\* confirm, and a node whose arbitrator or resolver gave up is restarted.
FairSpec ==
    /\ Spec
    /\ WF_vars(Arbitrator) /\ WF_vars(NewBlock)
    /\ WF_vars(\E k \in Commitment : Confirm(k))
    /\ \A h \in Htlc : WF_vars(Claim(h) \/ TimeOut(h))
    /\ \A c \in Contract : WF_vars(Resolving(c))
    /\ WF_vars(failed /\ Restart)

----------------------------------------------------------------------------
(* Properties. *)

\* An HTLC that the switch is told has failed is never claimed by the peer, on
\* whichever commitment it was: with an output, as dust, or on one that did not
\* confirm; and it is settled only for a claim.  Otherwise we pay and are not paid.
AnswerMatchesChain ==
    \A h \in Outgoing :
        /\ told[h] = "fail" => spent[h] # "claimed"
        /\ told[h] = "settle" => spent[h] = "claimed"

\* Once the channel is marked closed no event of the chain comes again, so what the
\* state machine needs for the rest is on disk by then, whenever the node restarts.
ClosedIsRecoverable ==
    closed /\ confirmed # "coop" => resolutions /\ commitSet

\* A channel is not given up as resolved before the switch has been told about every
\* outgoing HTLC on any of its commitments.
ResolvedIsAnswered ==
    resolved => \A h \in Outgoing : sc.place[h] # {} => told[h] # "none"

\* The same, unless Start entered StateContractClosed again: then the contracts of
\* HTLCs that are not about to expire are not made.
NothingForgotten ==
    resolved /\ ~rerun => \A h \in Outgoing : sc.place[h] # {} => told[h] # "none"

\* A contract that is stored as resolved, and whose resolver nobody runs.
Stranded == \E c \in Contract : contract[c] = "resolved" /\ run[c] = "off"

\* Once a commitment has confirmed, the channel is eventually resolved, through errors
\* of the state machine and of the resolvers, each of which waits for a restart, and
\* through restarts anywhere else.  Excepted is a channel that the code leaves
\* unresolved for good: a restart fell between the checkpoint of a resolver and its
\* removal from the log (Stranded).
EventuallyResolved == (confirmed # "none") ~> (resolved \/ Stranded)
=============================================================================
