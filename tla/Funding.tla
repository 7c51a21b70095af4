------------------------------ MODULE Funding ------------------------------
(***************************************************************************)
(* The opening of one channel by the funding managers of two nodes           *)
(* (funding/manager.go), with the parts of the peer (peer/brontide.go), the     *)
(* server and the link (htlcswitch/link.go) that it works through.             *)
(*                                                                           *)
(* The reservation coordinator of a node takes one funding message at a time; *)
(* each pending channel has a goroutine that waits for the confirmation        *)
(* (fsm), and every FundingLocked gets a goroutine of its own (handler).  All   *)
(* of them keep the peer object of the connection that they started on: `live`  *)
(* becomes FALSE when that connection goes, and a new connection is another     *)
(* object.  Messages are honest; what a node may refuse is a choice.            *)
(***************************************************************************)
EXTENDS Naturals, Sequences

CONSTANTS
    MaxWait,        \* maxWaitNumBlocksFundingConf
    MaxFaults,      \* bound on the connections lost and the restarts
    Private         \* the channel is not announced (FFAnnounceChannel is not set)

ASSUME FundingAssumption ==
    MaxWait \in Nat \ {0} /\ MaxFaults \in Nat /\ Private \in BOOLEAN

Initiator == "initiator"
Responder == "responder"
Nodes == {Initiator, Responder}
Other(n) == IF n = Initiator THEN Responder ELSE Initiator

VARIABLES
    disk,       \* disk[n]: the channel database and the opening-state bucket
    tx,         \* the funding transaction: "none", "published" or "confirmed"
    age,        \* blocks since the responder stored the channel, up to MaxWait
    request,    \* the call of OpenChannel: "none", "live" or "dead" (its peer), "taken"
    mem,        \* mem[n]: the maps and the goroutines of the funding manager
    net,        \* net[n]: funding messages to n, in the order they were sent
    up,         \* the nodes are connected
    ended,      \* ended[n]: the server has cleaned up after the last connection
    conn,       \* conn[n]: what the peer object and the link of n hold
    odd,        \* history: the races that took the flow off its course
    faults      \* connections lost and restarts so far

vars == <<disk, tx, age, request, mem, net, up, ended, conn, odd, faults>>

-----------------------------------------------------------------------------
(* State *)

\* chan: IsPending while "pending"; "canceled" once closed as FundingCanceled.
\* opening: channelOpeningState; "done" once deleteChannelOpeningState removed it.
\* nextRev: RemoteNextRevocation is set.
Disk == [chan : {"none", "pending", "open", "canceled"},
         opening : {"none", "markedOpen", "fundingLockedSent", "addedToRouterGraph", "done"},
         nextRev : BOOLEAN]

\* res: an entry of activeReservations; signed: of signedReservations; signal: of
\* localDiscoverySignals.  coord is the coordinator and fsm is advanceFundingState,
\* "stopped" once an error ended it: then only a restart runs it again.
Idle == [stage |-> "idle", live |-> FALSE]
Mem == [res : BOOLEAN, signed : BOOLEAN,
        coord : [stage : {"idle", "signing", "signed", "publishing"}, live : BOOLEAN],
        fsm : {"none", "waiting", "marking", "stepping", "sending", "stopped"},
        signal : {"absent", "open", "closed"},
        handler : [stage : {"idle", "waiting", "adding"}, live : BOOLEAN]]
NoMem == [res |-> FALSE, signed |-> FALSE, coord |-> Idle, fsm |-> "none",
          signal |-> "absent", handler |-> Idle]

\* active: the entry of activeChannels ("pending" for nil); link: of the switch, syncing
\* until syncChanStates returns; rev: its copy of RemoteNextRevocation; reest: a
\* ChannelReestablish of the other node, on its way or in the message stream.
Conn == [active : {"absent", "pending", "channel"}, link : {"none", "syncing", "ready"},
         rev : BOOLEAN, reest : BOOLEAN]
NoConn == [active |-> "absent", link |-> "none", rev |-> FALSE, reest |-> FALSE]

Message == [type : {"open", "accept", "created", "signed", "locked", "error"}, live : BOOLEAN]

Init ==
    /\ disk = [n \in Nodes |-> [chan |-> "none", opening |-> "none", nextRev |-> FALSE]]
    /\ tx = "none" /\ age = 0 /\ request = "none"
    /\ mem = [n \in Nodes |-> NoMem]
    /\ net = [n \in Nodes |-> <<>>]
    /\ up = TRUE /\ ended = [n \in Nodes |-> FALSE]
    /\ conn = [n \in Nodes |-> NoConn]
    /\ odd = {}
    /\ faults = 0

-----------------------------------------------------------------------------
(* The reservation coordinator *)

\* A send by n on a peer object; over a dead one it fails.
Send(n, type, live) ==
    IF live THEN [net EXCEPT ![Other(n)] = Append(@, [type |-> type, live |-> TRUE])] ELSE net

\* The coordinator of n takes the next message: `queue` is net without it.
Takes(n, type) == /\ mem[n].coord.stage = "idle" /\ net[n] # <<>> /\ Head(net[n]).type = type
Live(n) == Head(net[n]).live
Taken(n) == [net EXCEPT ![n] = Tail(@)]
Reply(n, type) == [Taken(n) EXCEPT ![Other(n)] =
    IF Live(n) THEN Append(@, [type |-> type, live |-> TRUE]) ELSE @]

\* failFundingFlow, called while the message is handled: the reservation is canceled
\* and the peer told.
failFundingFlow(n) ==
    /\ mem' = [mem EXCEPT ![n].res = FALSE]
    /\ net' = Reply(n, "error")

OpenChannel ==
    /\ request = "none" /\ up
    /\ request' = "live"
    /\ UNCHANGED <<disk, tx, age, mem, net, up, ended, conn, odd, faults>>

\* The reservation is made before OpenChannel is sent, and canceled when it cannot be.
handleInitFundingMsg ==
    /\ request \in {"live", "dead"} /\ mem[Initiator].coord.stage = "idle"
    /\ request' = "taken"
    /\ mem' = [mem EXCEPT ![Initiator].res = (request = "live")]
    /\ net' = Send(Initiator, "open", request = "live")
    /\ UNCHANGED <<disk, tx, age, up, ended, conn, odd, faults>>

\* A mutant: the reservation stays when the answer cannot be sent.
handleFundingOpenKeeps(accepts) ==
    /\ Takes(Responder, "open")
    /\ IF accepts THEN /\ mem' = [mem EXCEPT ![Responder].res = TRUE]
                       /\ net' = Reply(Responder, "accept")
                  ELSE failFundingFlow(Responder)
    /\ UNCHANGED <<disk, tx, age, request, up, ended, conn, odd, faults>>

handleFundingOpen(accepts) ==
    /\ Takes(Responder, "open")
    /\ IF accepts /\ Live(Responder)
       THEN /\ mem' = [mem EXCEPT ![Responder].res = TRUE]
            /\ net' = Reply(Responder, "accept")
       ELSE failFundingFlow(Responder)
    /\ UNCHANGED <<disk, tx, age, request, up, ended, conn, odd, faults>>

\* continueFundingAccept included: signedReservations is set before the send.
handleFundingAccept(accepts) ==
    /\ Takes(Initiator, "accept")
    /\ \/ ~mem[Initiator].res /\ mem' = mem /\ net' = Taken(Initiator)
       \/ mem[Initiator].res /\ ~accepts /\ failFundingFlow(Initiator)
       \/ /\ mem[Initiator].res /\ accepts
          /\ mem' = [mem EXCEPT ![Initiator].signed = TRUE, ![Initiator].res = Live(Initiator)]
          /\ net' = Reply(Initiator, "created")
    /\ UNCHANGED <<disk, tx, age, request, up, ended, conn, odd, faults>>

\* CompleteReservationSingle stores the pending channel, then FundingSigned is sent.
handleFundingCreated(valid) ==
    /\ Takes(Responder, "created")
    /\ \/ /\ ~mem[Responder].res
          /\ net' = Taken(Responder) /\ UNCHANGED <<disk, age, mem>>
       \/ /\ mem[Responder].res /\ ~valid
          /\ failFundingFlow(Responder) /\ UNCHANGED <<disk, age>>
       \/ /\ mem[Responder].res /\ valid
          /\ disk' = [disk EXCEPT ![Responder].chan = "pending"]
          /\ age' = 0
          /\ mem' = [mem EXCEPT ![Responder].res = FALSE,
                                ![Responder].coord = [stage |-> "signing", live |-> Live(Responder)]]
          /\ net' = Taken(Responder)
    /\ UNCHANGED <<tx, request, up, ended, conn, odd, faults>>

\* The message is written.  sendMessage then returns what the writer reports, or that the
\* peer exits: when both are there, either.
SendFundingSigned ==
    /\ mem[Responder].coord = [stage |-> "signing", live |-> TRUE]
    /\ mem' = [mem EXCEPT ![Responder].coord.stage = "signed"]
    /\ net' = Send(Responder, "signed", TRUE)
    /\ UNCHANGED <<disk, tx, age, request, up, ended, conn, odd, faults>>

FundingSignedSent ==
    /\ mem[Responder].coord.stage = "signed"
    /\ mem' = [mem EXCEPT ![Responder].coord = Idle, ![Responder].signal = "open",
                          ![Responder].fsm = "waiting"]
    /\ UNCHANGED <<disk, tx, age, request, net, up, ended, conn, odd, faults>>

\* deleteFromDatabase: the failed send makes the responder forget the channel.
FundingSignedFails ==
    /\ mem[Responder].coord.stage \in {"signing", "signed"} /\ ~mem[Responder].coord.live
    /\ disk' = [disk EXCEPT ![Responder].chan = "canceled"]
    /\ odd' = odd \union (IF mem[Responder].coord.stage = "signed" THEN {"unsure"} ELSE {})
    /\ mem' = [mem EXCEPT ![Responder].coord = Idle]
    /\ UNCHANGED <<tx, age, request, net, up, ended, conn, faults>>

\* A mutant: the transaction is broadcast before the channel is stored.
handleFundingSignedLate(valid) ==
    /\ Takes(Initiator, "signed") /\ mem[Initiator].signed /\ mem[Initiator].res /\ valid
    /\ tx' = "published"
    /\ mem' = [mem EXCEPT ![Initiator].res = FALSE, ![Initiator].signed = FALSE,
                          ![Initiator].signal = "open",
                          ![Initiator].coord = [stage |-> "publishing", live |-> Live(Initiator)]]
    /\ net' = Taken(Initiator)
    /\ UNCHANGED <<disk, age, request, up, ended, conn, odd, faults>>

\* CompleteReservation stores the pending channel before the transaction is broadcast.
handleFundingSigned(valid) ==
    /\ Takes(Initiator, "signed")
    /\ \/ /\ ~(mem[Initiator].signed /\ mem[Initiator].res)
          /\ mem' = [mem EXCEPT ![Initiator].signed = FALSE]
          /\ net' = Reply(Initiator, "error") /\ disk' = disk
       \/ /\ mem[Initiator].signed /\ mem[Initiator].res
          /\ mem' = [mem EXCEPT ![Initiator].res = FALSE, ![Initiator].signed = FALSE,
                                ![Initiator].signal = "open",
                                ![Initiator].coord = IF valid
                                    THEN [stage |-> "publishing", live |-> Live(Initiator)]
                                    ELSE @]
          /\ IF valid THEN /\ disk' = [disk EXCEPT ![Initiator].chan = "pending"]
                           /\ net' = Taken(Initiator)
                      ELSE disk' = disk /\ net' = Reply(Initiator, "error")
    /\ UNCHANGED <<tx, age, request, up, ended, conn, odd, faults>>

\* PublishTransaction may fail; the channel is watched regardless.
PublishFundingTx(works) ==
    /\ mem[Initiator].coord.stage = "publishing"
    /\ tx' = IF works /\ tx = "none" THEN "published" ELSE tx
    /\ mem' = [mem EXCEPT ![Initiator].coord = Idle, ![Initiator].fsm = "waiting"]
    /\ UNCHANGED <<disk, age, request, net, up, ended, conn, odd, faults>>

handleErrorMsg(n) ==
    /\ Takes(n, "error")
    /\ mem' = [mem EXCEPT ![n].res = FALSE]
    /\ net' = Taken(n)
    /\ UNCHANGED <<disk, tx, age, request, up, ended, conn, odd, faults>>

\* The reservation is older than ReservationTimeout.  Its peer is alive as long as the
\* server has not cleaned up after it.
pruneZombieReservations(n) ==
    /\ mem[n].coord.stage = "idle" /\ mem[n].res
    /\ mem' = [mem EXCEPT ![n].res = FALSE]
    /\ net' = Send(n, "error", up)
    /\ UNCHANGED <<disk, tx, age, request, up, ended, conn, odd, faults>>

\* A mutant: the message of the peer is acted on before the channel is marked open.
handleFundingLockedAtOnce(n) ==
    /\ Takes(n, "locked")
    /\ mem' = [mem EXCEPT ![n].handler = IF @ # Idle THEN @
                                         ELSE [stage |-> "adding", live |-> Live(n)]]
    /\ net' = Taken(n)
    /\ UNCHANGED <<disk, tx, age, request, up, ended, conn, odd, faults>>

\* One at a time: a FundingLocked that comes while one is handled is ignored.
handleFundingLocked(n) ==
    /\ Takes(n, "locked")
    /\ mem' = [mem EXCEPT ![n].handler = IF @ # Idle THEN @
                                         ELSE [stage |-> "waiting", live |-> Live(n)]]
    /\ net' = Taken(n)
    /\ UNCHANGED <<disk, tx, age, request, up, ended, conn, odd, faults>>

\* The channel is marked open, or nothing has to be waited for.  A FundingLocked that
\* was processed already is ignored; RemoteNextRevocation is written before the link
\* is asked for.
InsertNextRevocation(n) ==
    /\ mem[n].handler.stage = "waiting" /\ mem[n].signal # "open"
    /\ LET goes == disk[n].chan \in {"pending", "open"} /\ ~disk[n].nextRev IN
       /\ disk' = [disk EXCEPT ![n].nextRev = @ \/ goes]
       /\ mem' = [mem EXCEPT ![n].signal = "absent",
                             ![n].handler = IF goes THEN [@ EXCEPT !.stage = "adding"] ELSE Idle]
    /\ UNCHANGED <<tx, age, request, net, up, ended, conn, odd, faults>>

\* The channelManager of the peer: a new channel gets a link, which has to synchronise
\* if the peer had loaded it as pending; a channel that has a link gets the revocation
\* point.  A peer that is gone does nothing, which is remembered until it is back.
AddNewChannel(n) ==
    /\ mem[n].handler.stage = "adding"
    /\ mem' = [mem EXCEPT ![n].handler = Idle]
    /\ IF ~mem[n].handler.live
       THEN odd' = odd \union {"late"} /\ conn' = conn
       ELSE /\ odd' = odd
            /\ conn' = [conn EXCEPT
                  ![n] = [@ EXCEPT !.active = "channel", !.rev = TRUE,
                                   !.link = CASE conn[n].active = "absent" -> "ready"
                                              [] conn[n].active = "pending" -> "syncing"
                                              [] conn[n].active = "channel" -> conn[n].link],
                  ![Other(n)].reest = @ \/ (conn[n].active = "pending" /\ conn[Other(n)].active # "absent")]
    /\ UNCHANGED <<disk, tx, age, request, net, up, ended, faults>>

-----------------------------------------------------------------------------
(* From the broadcast to the announcement: advanceFundingState *)

\* advanceFundingState ends with an error: what is on disk waits for a restart.
Stops(n) == mem' = [mem EXCEPT ![n].fsm = "stopped"] /\ disk' = disk

\* handleFundingConfirmation, in its two writes: the opening state, then the channel.
\* ValidateChannel may refuse the transaction; the channel then stays pending.
SaveMarkedOpen(n, valid) ==
    /\ mem[n].fsm = "waiting" /\ tx = "confirmed"
    /\ IF valid THEN /\ disk' = [disk EXCEPT ![n].opening = "markedOpen"]
                     /\ mem' = [mem EXCEPT ![n].fsm = "marking"]
                ELSE Stops(n)
    /\ UNCHANGED <<tx, age, request, net, up, ended, conn, odd, faults>>

MarkAsOpen(n) ==
    /\ mem[n].fsm = "marking"
    /\ disk' = [disk EXCEPT ![n].chan = "open"]
    /\ mem' = [mem EXCEPT ![n].fsm = "stepping",
                          ![n].signal = IF @ = "open" THEN "closed" ELSE @]
    /\ UNCHANGED <<tx, age, request, net, up, ended, conn, odd, faults>>

\* waitForTimeout runs beside the wait for the confirmation, and only the height counts.
\* The initiator, told of it, finds no reservation under that id.
FundingTimeout ==
    /\ mem[Responder].fsm = "waiting" /\ age >= MaxWait
    /\ disk' = [disk EXCEPT ![Responder].chan = "canceled"]
    /\ mem' = [mem EXCEPT ![Responder].fsm = "none"]
    /\ odd' = odd \union {"timedOut"}
    /\ UNCHANGED <<tx, age, request, net, up, ended, conn, faults>>

\* stateStep in state markedOpen: sendFundingLocked waits for the peer and sends; when
\* the send fails it waits again.
SendFundingLocked(n) ==
    /\ mem[n].fsm = "stepping" /\ disk[n].opening = "markedOpen" /\ up
    /\ mem' = [mem EXCEPT ![n].fsm = "sending"]
    /\ net' = Send(n, "locked", TRUE)
    /\ UNCHANGED <<disk, tx, age, request, up, ended, conn, odd, faults>>

FundingLockedSent(n) ==
    /\ mem[n].fsm = "sending"
    /\ disk' = [disk EXCEPT ![n].opening = "fundingLockedSent"]
    /\ mem' = [mem EXCEPT ![n].fsm = "stepping"]
    /\ UNCHANGED <<tx, age, request, net, up, ended, conn, odd, faults>>

\* A mutant: the state machine ends at the first failure.
FundingLockedGivesUp(n) ==
    /\ mem[n].fsm = "sending" /\ ~up
    /\ Stops(n)
    /\ UNCHANGED <<tx, age, request, net, up, ended, conn, odd, faults>>

FundingLockedFails(n) ==
    /\ mem[n].fsm = "sending" /\ ~up
    /\ mem' = [mem EXCEPT ![n].fsm = "stepping"]
    /\ UNCHANGED <<disk, tx, age, request, net, up, ended, conn, odd, faults>>

\* The gossiper may refuse the announcement or the update.
addToRouterGraph(n, works) ==
    /\ disk[n].opening = "fundingLockedSent"
    /\ IF works THEN disk' = [disk EXCEPT ![n].opening = "addedToRouterGraph"] /\ mem' = mem
                ELSE Stops(n)

\* A private channel waits for the peer and sends it the NodeAnnouncement, which fails
\* when that connection is gone by then; a public one waits for the confirmations and
\* the gossiper, which may fail.  The opening state is deleted after either.
annAfterSixConfs(n, works) ==
    /\ disk[n].opening = "addedToRouterGraph" /\ (Private => up)
    /\ IF works THEN /\ disk' = [disk EXCEPT ![n].opening = "done"]
                     /\ mem' = [mem EXCEPT ![n].fsm = "none"]
                ELSE Stops(n)

stateStep(n) ==
    /\ mem[n].fsm = "stepping"
    /\ \E works \in BOOLEAN : addToRouterGraph(n, works) \/ annAfterSixConfs(n, works)
    /\ UNCHANGED <<tx, age, request, net, up, ended, conn, odd, faults>>

-----------------------------------------------------------------------------
(* The connection, the links, the chain and restarts *)

\* A mutant: FundingLocked is not sent again.
syncChanStatesQuiet(n) ==
    /\ conn[n].link = "syncing" /\ conn[n].reest
    /\ conn' = [conn EXCEPT ![n].link = "ready", ![n].reest = FALSE]
    /\ UNCHANGED <<disk, tx, age, request, mem, net, up, ended, odd, faults>>

\* A link that synchronises has the reestablish message of the other: neither node has
\* made an update, so it sends FundingLocked again.
syncChanStates(n) ==
    /\ conn[n].link = "syncing" /\ conn[n].reest
    /\ conn' = [conn EXCEPT ![n].link = "ready", ![n].reest = FALSE]
    /\ net' = IF disk[n].chan = "open" THEN Send(n, "locked", TRUE) ELSE net
    /\ UNCHANGED <<disk, tx, age, request, mem, up, ended, odd, faults>>

\* loadActiveChannels of a new peer object: a pending channel gets a nil entry and no
\* link, an open one a link that starts to synchronise.
Loaded(n) ==
    CASE disk[n].chan = "open" ->
            [NoConn EXCEPT !.active = "channel", !.link = "syncing", !.rev = disk[n].nextRev,
                           !.reest = disk[Other(n)].chan = "open"]
      [] disk[n].chan = "pending" ->
            [NoConn EXCEPT !.active = "pending", !.reest = disk[Other(n)].chan = "open"]
      [] OTHER -> NoConn

Connect ==
    /\ ~up /\ \A n \in Nodes : ended[n]
    /\ up' = TRUE /\ ended' = [n \in Nodes |-> FALSE]
    /\ conn' = [n \in Nodes |-> Loaded(n)]
    /\ odd' = odd \ {"late"}
    /\ UNCHANGED <<disk, tx, age, request, mem, net, faults>>

\* What a connection that goes leaves of the goroutines of n and of its funding messages:
\* those already read stay in fundingMsgs, with a peer that is gone.
Unplugged(n) == [mem[n] EXCEPT !.coord.live = FALSE, !.handler.live = FALSE]
Read(n, k) == [i \in 1..k |-> [net[n][i] EXCEPT !.live = FALSE]]
Unread(n) == {k \in 0..Len(net[n]) : \A i \in DOMAIN net[n] : i > k => net[n][i].live}
DeadRequest == IF request = "live" THEN "dead" ELSE request

Disconnect ==
    /\ up /\ faults < MaxFaults
    /\ up' = FALSE
    /\ mem' = [n \in Nodes |-> Unplugged(n)]
    /\ \E i \in Unread(Initiator), r \in Unread(Responder) :
          net' = [n \in Nodes |-> Read(n, IF n = Initiator THEN i ELSE r)]
    /\ conn' = [n \in Nodes |-> NoConn]
    /\ request' = DeadRequest
    /\ faults' = faults + 1
    /\ UNCHANGED <<disk, tx, age, ended, odd>>

\* peerTerminationWatcher: CancelPeerReservations, before the peer may come back.
CancelPeerReservations(n) ==
    /\ ~up /\ ~ended[n]
    /\ ended' = [ended EXCEPT ![n] = TRUE]
    /\ mem' = [mem EXCEPT ![n].res = FALSE]
    /\ UNCHANGED <<disk, tx, age, request, net, up, conn, odd, faults>>

\* start: the goroutines that a node begins with.
Started(n) ==
    [NoMem EXCEPT !.signal = IF disk[n].chan = "pending" THEN "open" ELSE "absent",
                  !.fsm = CASE disk[n].chan = "pending" -> "waiting"
                            [] disk[n].chan = "open" /\ disk[n].opening # "done" -> "stepping"
                            [] OTHER -> "none"]

\* A crash of n, and its start: the initiator broadcasts the transaction of a pending
\* channel again, which may fail.
Restart(n) ==
    /\ faults < MaxFaults
    /\ faults' = faults + 1
    /\ up' = FALSE
    /\ mem' = [m \in Nodes |-> IF m = n THEN Started(n) ELSE Unplugged(m)]
    /\ \E k \in Unread(Other(n)) :
          net' = [m \in Nodes |-> IF m = n THEN <<>> ELSE Read(m, k)]
    /\ conn' = [m \in Nodes |-> NoConn]
    /\ ended' = [ended EXCEPT ![n] = TRUE]
    /\ request' = IF n = Initiator /\ request # "none" THEN "taken" ELSE DeadRequest
    /\ tx' \in IF n = Initiator /\ disk[n].chan = "pending" /\ tx = "none"
               THEN {"none", "published"} ELSE {tx}
    /\ UNCHANGED <<disk, age, odd>>

Confirm ==
    /\ tx = "published" /\ tx' = "confirmed"
    /\ UNCHANGED <<disk, age, request, mem, net, up, ended, conn, odd, faults>>

Block ==
    /\ disk[Responder].chan = "pending" /\ age < MaxWait /\ age' = age + 1
    /\ UNCHANGED <<disk, tx, request, mem, net, up, ended, conn, odd, faults>>

-----------------------------------------------------------------------------
(* Specification *)

\* What the coordinator of a node does by itself, pruning apart.
Coordinator(n) ==
    \/ n = Initiator /\ handleInitFundingMsg
    \/ \E ok \in BOOLEAN :
          \/ n = Responder /\ (handleFundingOpen(ok) \/ handleFundingCreated(ok))
          \/ n = Initiator /\ (handleFundingAccept(ok) \/ handleFundingSigned(ok) \/ PublishFundingTx(ok))
    \/ n = Responder /\ (SendFundingSigned \/ FundingSignedSent \/ FundingSignedFails)
    \/ handleErrorMsg(n) \/ handleFundingLocked(n)
Handler(n) == InsertNextRevocation(n) \/ AddNewChannel(n)
advanceFundingState(n) ==
    \/ (\E valid \in BOOLEAN : SaveMarkedOpen(n, valid)) \/ MarkAsOpen(n)
    \/ SendFundingLocked(n) \/ FundingLockedSent(n) \/ FundingLockedFails(n) \/ stateStep(n)
    \/ n = Responder /\ FundingTimeout

Next ==
    \/ OpenChannel \/ Connect \/ Disconnect \/ Confirm \/ Block
    \/ \E n \in Nodes :
          \/ Coordinator(n) \/ Handler(n) \/ advanceFundingState(n) \/ syncChanStates(n)
          \/ CancelPeerReservations(n) \/ pruneZombieReservations(n) \/ Restart(n)

\* The goroutines run, blocks come, a broadcast transaction confirms, and the nodes keep
\* trying to connect.  Nobody has to call OpenChannel, and no connection has to break.
Fairness ==
    /\ WF_vars(Connect) /\ WF_vars(Confirm) /\ WF_vars(Block)
    /\ \A n \in Nodes :
          /\ WF_vars(Coordinator(n)) /\ WF_vars(Handler(n)) /\ WF_vars(advanceFundingState(n))
          /\ WF_vars(syncChanStates(n)) /\ WF_vars(CancelPeerReservations(n))

Spec == Init /\ [][Next]_vars /\ Fairness

-----------------------------------------------------------------------------
(* Properties *)

\* Every variable has its type; the wait of the responder is at most MaxWait blocks.
TypeOK ==
    /\ disk \in [Nodes -> Disk]
    /\ tx \in {"none", "published", "confirmed"} /\ age \in 0..MaxWait
    /\ request \in {"none", "live", "dead", "taken"}
    /\ mem \in [Nodes -> Mem] /\ net \in [Nodes -> Seq(Message)]
    /\ up \in BOOLEAN /\ ended \in [Nodes -> BOOLEAN] /\ conn \in [Nodes -> Conn]
    /\ odd \subseteq {"unsure", "timedOut", "late"}
    /\ faults \in 0..MaxFaults

\* Once the funding transaction is out, the initiator has the channel on disk, with the
\* signature that gets its money back, whenever it crashes (handleFundingSigned); and so
\* has the responder (handleFundingCreated, BOLT 2's "MUST remember"), unless the wait
\* timed out or the send of its signature was reported as failed.
FundedIsRemembered ==
    tx # "none" =>
        /\ disk[Initiator].chan \in {"pending", "open"}
        /\ \/ disk[Responder].chan \in {"pending", "open"}
           \/ odd \intersect {"timedOut", "unsure"} # {}

\* No reservation, and so no locked coin, is left for a peer that is gone, whatever
\* message of that peer is handled after CancelPeerReservations.
NoOrphanReservation == \A n \in Nodes : ~up /\ ended[n] => ~mem[n].res

\* A channel has a link, and can carry HTLCs, only once its own node has seen the
\* funding transaction confirmed and marked it open (localDiscoverySignals).
LinkNeedsConfirm == \A n \in Nodes : conn[n].link # "none" => disk[n].chan = "open" /\ tx = "confirmed"

\* A channel that is marked open gets through sendFundingLocked, over lost connections
\* and restarts, and the opening is finished; except that once FundingLocked is out an
\* error of addToRouterGraph or annAfterSixConfs, such as a connection that breaks under
\* the NodeAnnouncement of a private channel, stops it where it is until a restart, which
\* takes it up again ("If the peer is not online this will fail, and the opening process
\* will stop").
Stopped(n) == mem[n].fsm = "stopped" /\ disk[n].opening \in {"fundingLockedSent", "addedToRouterGraph"}
OpeningCompletes ==
    \A n \in Nodes : disk[n].chan = "open" ~> (disk[n].opening = "done" \/ Stopped(n))

\* When both nodes have the channel open and the connection was not made while it was
\* pending for one of them, both links come to be ready and to know the next revocation
\* point of the other, whichever FundingLocked was lost; unless the connection breaks, or
\* a FundingLocked of an earlier connection is finished on that connection's peer.
Usable(n) == conn[n].link = "ready" /\ conn[n].rev
UsableOnceLoaded ==
    (up /\ \A n \in Nodes : disk[n].chan = "open" /\ conn[n].active # "pending")
        ~> ((\A n \in Nodes : Usable(n)) \/ ~up \/ "late" \in odd)
=============================================================================
