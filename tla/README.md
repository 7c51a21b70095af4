# TLA+ models of OmniBOLT's lightning daemon

This directory holds TLA+ specifications of the core of `src/oblnd`, the
lightning daemon with Omni assets, the TLC configurations that check them on
small instances, and TLAPS proofs for instances of any size. `PROJECT.json`
lists the components, the runs, the mutants that show each property can fail,
the source lines every definition models, the hazards and the theorems.

To check a run: `tlc -config CircuitMap.cfg MCCircuitMap` (the module of each
run is in `PROJECT.json`). To check the proofs: `tlapm CircuitMapProofs.tla`, and so
on for the modules of section 5.

## 1. The system

`src/oblnd` is a fork of lnd in which channels, HTLCs, invoices and payments
carry an asset id: 0 for a bitcoin channel, otherwise an Omni asset
whose ownership is encoded in the OP_RETURN of every commitment.
`src/experimental` is an earlier implementation that oblnd does not use.

| Part | State | Operations | Talks to |
|---|---|---|---|
| Channel state machine (`lnwallet/channel.go`) | two update logs, two commitment chains | add, settle, fail, fee update, sign, receive signature, revoke, receive revocation, reestablish | driven by the link, writes the channel database |
| Channel database (`channeldb/channel.go`, `forwarding_package.go`) | the two commitments, the pending diff, unsigned updates, forwarding packages | one transaction per protocol step | read back at every restart |
| Channel link (`htlcswitch/link.go`) | one goroutine per channel, batch ticker, mailbox | upstream messages, downstream packets, resynchronisation | peer, switch, circuit map, invoice registry |
| Circuit map (`htlcswitch/circuit_map.go`) | half-open and open circuits, in memory and on disk | commit, open, close, fail, delete, trim, clean, restore | called by both links of an HTLC and by the switch |
| Switch (`htlcswitch/switch.go`, `payment_result.go`) | links, result store, sequencer | SendHTLC, ForwardPackets, responses, GetPaymentResult | links, router |
| Payment control (`channeldb/payment_control.go`) | a bucket per payment hash: creation info, attempts, failure | InitPayment, RegisterAttempt, SettleAttempt, FailAttempt, Fail | router |
| Payment lifecycle (`routing/payment_lifecycle.go`, `router.go`) | a loop and a goroutine per shard | launch, collect, retry, time out, resume at start-up | switch, payment control, invoice registry (swaps) |
| Invoice registry (`invoices/`) | invoices with their HTLC sets, hodl subscriptions | NotifyExitHopHtlc, settle, cancel, expiry, `processAtomicSwap` | links, router |
| Channel arbitrator and resolvers (`contractcourt/`) | a persisted state machine per channel | chain events, go-to-chain decisions, resolutions | chain notifier, sweeper, circuit map, registry |
| Chain notifier (`chainntnfs/`) | notification sets, height indices, hint cache | register, cancel, rescan results, connect and disconnect blocks | chain back end; funding manager, arbitrator and registry are clients |
| Funding manager (`funding/manager.go`) with the peer (`peer/brontide.go`) | reservations, pending channels, opening state | five funding messages, confirmation, time-out, FundingLocked | wallet, channel database, notifier, peer, link |
| Cooperative close, gossip, status manager, watchtower, ... | see `PROJECT.json` | | |

What is hard to get right here, and hard to test:

- the mutex of the circuit map is released before the database is written, and
  the links on both sides of an HTLC call it at the same time;
- a node may stop between any two writes; most state is rebuilt from several
  records written at different moments (two commitments, a diff, lists of
  dangling updates; circuits, keystones and channel indices; attempts, circuits
  and results);
- both parties of a channel sign at the same time, and each commitment is
  evaluated from the two logs cut at different indices;
- a payment is driven by several goroutines over one record, and a try may be
  followed by another of the same hash;
- answers race with stopping links, time-outs and restarts;
- an HTLC crosses three stores (forwarding package, circuit map, commitment of the
  next channel), each replayed by a different part after a restart;
- the arbitrator runs a state again after a crash, with what it finds on disk;
- rescans, registrations and blocks reach the notifier in any order, and blocks
  are taken back;
- goroutines keep the peer object of a connection that is gone.

The hazards, each at its line and with the properties that would catch it, are
in `PROJECT.json`. Per component, correctness means:

- *Circuit map*: a signed outgoing HTLC never loses its circuit, no incoming HTLC
  is forwarded twice, and memory says what the disk says.
- *Channel*: both parties always compute the same transaction, no money appears
  or disappears, an update is forwarded once and an answer only when it is final,
  and every signature is in the end revoked for.
- *Payments*: never more than the amount is paid, no shard that can still be
  claimed is forgotten, no result is lost.
- *Forwarding*: to its neighbours a node behaves as the small specification
  `HtlcRelay`, and every HTLC is answered.
- *Invoices*: a settled invoice is paid in full, links answer what the record
  says, and every HTLC is answered.
- *Arbitrator*: an HTLC is answered as the chain decided, none is forgotten, and a
  closed channel is resolved in the end.
- *Notifier*: what is cached, indexed, stored as a hint and believed by clients
  follows the chain, and clients are told; the races of section 3 are excepted.
- *Funding*: nobody has funds in a transaction without having the channel on disk,
  and an opened channel becomes usable unless a step that the code does not repeat failed.

## 2. The modules and how they fit

| Module | Models | Uses |
|---|---|---|
| `CircuitMap` | the circuit map, its calls split at the mutex | |
| `CircuitMapProofs` | types and safety of it, proved | `CircuitMap` |
| `ChannelLogs`, `LightningChannel` | two parties of a channel | |
| `Payments` | one payment: record, loops, switch | |
| `HtlcRelay` | what a forwarding node promises (abstract) | |
| `HtlcForwarding` | switch, mailboxes, two links, forwarding packages | `HtlcRelay` by refinement; assumes of the circuit map what `CircuitMap` shows |
| `Invoices` | registry, exit hops, expiry watcher, swaps | |
| `ChannelArbitrator` | arbitrator and resolvers | |
| `TxNotifier` | the transaction notifier | |
| `Funding` | the opening of a channel by two nodes | |
| `HtlcForwardingProofs` | its safety and the refinement of `HtlcRelay`, proved | `HtlcForwarding` |
| `PaymentsProofs`, `InvoicesProofs` | their safety, proved | `Payments`, `Invoices`; `SumTheorems` |
| `ChannelArbitratorProofs`, `FundingProofs` | their safety, proved | `ChannelArbitrator`, `Funding` |
| `LightningChannelProofs` | that the two parties agree, that HTLCs are locked in and answered once, and that no money is made or lost, proved | `LightningChannelInvariants`; `SumTheorems` |
| `LightningChannelInvariants` | their inductive invariants and the kinds of steps they distinguish | `LightningChannel` |
| `SumTheorems` | sums over finite sets | |

The components meet at narrow seams, and each module states what it takes from its
neighbours: `HtlcForwarding` treats a circuit operation as one step, which is what
`MemoryMatchesDisk` and `SignedStaysOpen` of `CircuitMap` allow; `Payments` sees
an HTLC of the first link as offered, failed or settled, which is `HtlcRelay` seen
from the sender; `Funding` takes a confirmation as an event, which
`TxNotifier` provides; `ChannelArbitrator` takes the commitments as sets of HTLCs
such as `CommitmentsAgree` and `LockedInUntilAnswered` of the channel leave them.

What would come next: an abstract ledger implemented by `LightningChannel`; the
cooperative close; the gossip syncer; the watchtower session. Theorems
worth having next: the invariants of `TxNotifier`.

## 3. The modules

### CircuitMap

Models `htlcswitch/circuit_map.go`. The disk is `addBkt` and `keystoneBkt`;
memory is `pending`, `outgoing` (the `Outgoing` fields), `loaded`, `opened`,
`closed` and `hashIndex`. A call that writes is split where the code releases the
mutex: `CommitCircuits` (memory) then `CommitCircuitsWrite` or, when the write
fails, `CommitCircuitsRollback`; `OpenCircuits`, `OpenCircuitsWrite` or
`OpenCircuitsError`, `OpenCircuitsPublish`; `DeleteCircuits`,
`DeleteCircuitsWrite` or `DeleteCircuitsRestore`; `TrimOpenCircuits`,
`TrimOpenCircuitsWrite` or `TrimOpenCircuitsError`. `op[p]` is the call a
goroutine is in. `NewCircuitMap` is a restart at any point: it deletes what belongs
to closed channels, restores memory and trims, as `cleanClosedChannels`,
`restoreMemState` and `trimAllOpenCircuits` do. The model trims every outgoing channel; the
code skips those that wait for their closing transaction to confirm, for which no link
works any more. The error of `Encode` that `CommitCircuits` checks for cannot occur, since it
writes to a buffer in memory.

`committed`, `allocated`, `signed` and `acked` stand for the channels around the
map; the guards marked "caller:" are the protocol of `link.go` and `switch.go`
with it. `gone` has the channels that `MarkChanFullyClosed` marked, whose closes are
no longer pending; a channel between the end of its link and that mark simply does
nothing. The guards of the mark say that it comes blocks after the link stopped: no
call works for the channel, and what it offered to be forwarded was signed or given
up. `trimFailed` is a history variable: the write of some trim has failed
since, after which memory and disk differ until keystones are written again.

### ChannelLogs and LightningChannel

`ChannelLogs` has the data of `lnwallet/channel.go` as pure operators: logs,
entries with the heights at which they took effect, `fetchHTLCView`,
`evaluateHTLCView`, `validateCommitmentSanity`, the commitment that follows, what
is written to disk, and how memory is restored from it. `LightningChannel` has
both parties: one action per message and per call of the link. Messages arrive
in order until `Reconnect`, which loses all of them and rebuilds both memories
from disk; it stands for a broken connection and for a crash of either node. A
handler that writes to disk twice (a revocation, then a signature) is two steps,
with `todo[p]` for what is left, so a break may fall between the writes. An error
sets `fault[p]` and fails the link.

Abstractions: a signature is the transaction it covers and verifies exactly when
both sides compute the same one; a revocation secret is its height; a malformed
fail is a fail; balances are before the fee, and the fee rate is carried along
(the code gives the old fee back before it takes the new one), so the check of the
initiator's balance after the fee, the fee floor, dust, the minimum HTLC and the maximum
pending value are left out of `validateCommitmentSanity`; in an asset channel the balances
are those of the asset, with the missing check of `validateAddHtlc`; forwarding
packages are never collected. The race noted at `channel.go:5374`, about the
initiator's fee, is therefore not covered, and no property says that a handler of the
channel never refuses an update: `NeverUnsynchronised` and `RestoreNeverFails` are about
resynchronisation, revocations and the restore from disk, where amounts and fees play no
part.

### Payments

One payment hash: its record (`known`, `htlc`, `failInfo`), the result store and
circuits of the switch, the outgoing HTLC of each attempt (`wire`), the loops
(`life`) and the collectors (`shard`). Every database transaction is a step, and
so is every point where the loop blocks or another goroutine can come in between.
Path finding and mission control are nondeterministic: a route for any part of
the remaining amount or none, a terminal error or a retry. `Restart` cleans the
result store and resumes the payment with the empty session. All attempts are
shards of a multi-path payment. An error of path finding other than "no route", or of the
launch of a shard, ends the loop with nothing recorded (`LaunchFails`); the payment then
stays in flight until a restart. `SendToRoute`, AMP and errors of the database elsewhere
are left out.

### HtlcRelay and HtlcForwarding

`HtlcForwarding` has one node between two channels. On disk: the forwarding
packages of both channels (`add`, `refAcked`), the circuits and keystones, and
what is signed on the outgoing and the incoming commitment (`out`, `ans`,
`unsent`). In memory: what each link is doing, the two mailboxes, packets on their
way to the switch. Actions follow an HTLC: `LockIn`, `ProcessRemoteAdd`,
`CommitCircuits`, `HandlePacketForwardAdd`, `HandleDownstreamAdd`, `OpenCircuits`,
`SignOutgoing`, and for the answer `ReceiveFulfill`, `LockInResponse`,
`HandlePacketForwardResponse`, `HandleDownstreamResponse`, `SignIncoming`,
`AckDownStreamPackets`, `AckSettleFails`. Links stop and start by themselves, the
node restarts, an Add expires in a mailbox.

`HtlcRelay` is the abstract specification: an incoming HTLC is held, offered on at
most once, settled only after the outgoing one was settled, failed only when the
outgoing one cannot be taken any more. `Relays` is `RelaySpec` under the mapping
`Incoming`, `Outgoing` (what each neighbour can see), checked as a property.

### Invoices

One invoice, regular, hodl or inserted by an atomic swap, and the HTLCs that pay
it, each with a link. A method of the registry is one step under its lock; where
it sends to another goroutine with the lock held (the expiry watcher, the queue of
a link) the lock is a state of its own, so that everyone can wait on everyone. A
swap adds the goroutines of its outgoing payment, which share the `err` variable
of the call that started them. `processAtomicSwap` stores the invoice under the lock and
hands it to the expiry watcher without (`AddInvoice`). Amounts are compared, assets are not: the registry
does not compare the asset of an HTLC with the invoice's, so `PaidInFull` is about
amounts.

### ChannelArbitrator

The persisted state machine: a step is one write or one call of another subsystem,
so a restart falls between any two. `sc.place` says which of three commitments an
HTLC is on, as dust or with an output; one that we offer is never on ours only. The chain confirms any commitment, a breach
or a cooperative close, and the outputs are claimed by either side. Resolvers are
modelled by what they wait for, tell the switch and store; an error of one ends its
goroutine until a restart (`ResolverFails`). Our own claim of an
incoming output wins once we know the preimage in time.

### TxNotifier

One transaction and one request (confirmation or spend) with several clients. The
methods hold the lock and are one step each; the bitcoind notifier's goroutines
around them are steps of their own; a rescan reads the chain in one step. `odd` records
the races a request has been through. They are weaknesses of the code, not limits of the
model: the run reaches all of them, and each property names the ones it excepts because
the code violates it there.

- `lagging`: a rescan read a chain that does not extend the notifier's, because the
  notifier had not been told of the reorganisation yet;
- `disconnected`: a rescan handed in a block that had been disconnected since it was read,
  and the set caches it;
- `unindexed`: a rescan ended when every client had cancelled; the details are cached and no
  height index lets `DisconnectTip` clear them;
- `between`: a client is told of a block, by its registration or by a rescan, after the
  `ConnectTip` and before the `NotifyHeight` of that block. `NotifyHeight` tells it again.
  The Updates channel has room for one message per confirmation and nobody reads it, so
  this or a later send blocks with the lock held, and the notifier is dead until shutdown;
- `failed`: a rescan failed, because of the back end or because a reorganisation left it
  without a block of that height, and nothing tries it again;
- `swallowed`: the message that a confirmation was taken back was not read before the next
  confirmation, which consumes it: the client goes on believing in the first one;
- `hint`: a reorganisation goes below the cached hint, or below the hint that a registration
  has read and not yet used. It is raised by `DisconnectTip` in a running node, when nobody
  watches the request or its rescan is under way and so the hint is not lowered, and by
  `Restart` for a reorganisation while the node was down;
- `outlived`: a set matures while a rescan for it runs, and the next set of the same request
  gets its answer.

The exceptions of the safety properties were found by dropping them one at a time, and
checked to be enough on larger instances: two clients with four blocks, two
reorganisations and a safety limit of three (13,208,170 states), one client with five
blocks and three reorganisations (3,790,427 states).

### Funding

Two nodes, one flow. `disk[n]` has the channel, the opening state and
`RemoteNextRevocation`; `mem[n]` the reservation, the coordinator, the goroutine of
`advanceFundingState` (`fsm`) and the one of `handleFundingLocked` (`handler`);
`conn[n]` the entry of the peer's `activeChannels` and the link. `handleFundingCreated`
and `handleFundingSigned` are split between the store and the send or
broadcast, `handleFundingConfirmation` between its two writes. `Disconnect` leaves
any prefix of the messages as already read: they are handled later with a peer that
is gone (`live`). `CancelPeerReservations` runs on each node before `Connect`.
`odd` records `unsure` (FundingSigned was written and reported as failed),
`timedOut` and `late` (a FundingLocked of an earlier connection is finished after
the next one was made; until the next `Connect`). `Connect` reads the database and
loads the channels in one step; the code reads before the handshake, so it may
treat a channel as pending a little longer. `fsm` is "stopped" when `advanceFundingState`
ended with an error: `ValidateChannel` refused the transaction, the router graph or the
gossiper failed, or the connection broke under the NodeAnnouncement of a private channel
(`manager.go:2829`); only a restart takes the opening up again, and `OpeningCompletes`
excepts it. The run is for a private channel; a public one passes as well (314,827
states).

## 4. Runs

| Run | Instance | Distinct states | What it shows |
|---|---|---|---|
| `circuit_map` | 3 HTLCs (2 of one channel and hash, 1 local), 1 outgoing channel with 2 ids, 2 callers, channels that close, any number of restarts, failing writes | 385,939 | memory matches disk; until a trim write fails, no HTLC is forwarded twice, none that is signed loses its circuit, lookups find every open circuit |
| `channel` | four scenarios: an HTLC each way; two fee updates around an HTLC; two HTLCs from a balance of 2; one HTLC under fairness; 2 breaks each | 312,832 | agreement, conservation, forwarding once, finality of answers, no party unsynchronised, every restore succeeds, every signature revoked for |
| `payments` | amount 2, 3 attempts, 2 tries, 1 restart, one caller | 2,429,550 | never overpaid; shards and results are kept |
| `forwarding` | 2 HTLCs, 1 restart, 1 stop of a link | 182,489 | refines `HtlcRelay`; answers find their circuit; circuits are freed; every HTLC is answered |
| `invoices` | 2 HTLCs, 7 kinds of invoice and set, 1 restart, 1 stop of a link, 1 failing loop | 294,115 | paid in full, answers match the record, every HTLC is answered |
| `arbitrator` | 1 outgoing and 1 incoming HTLC, 9 placements, 2 blocks, 1 fault | 490,361 | answers match the chain, nothing forgotten, resolved in the end |
| `notifier` | 1 or 2 clients, confirmations or a spend, up to 3 blocks, 2 reorganisations, 1 fault | 548,408 | outside the races of section 3, indices, details, hint and clients follow the chain; what can block the notifier |
| `funding` | one flow, 1 broken connection or restart anywhere, a time-out of 1 block | 314,393 | stored before funded, no reservation left, links wait for the confirmation, the opening completes or stops with an error after FundingLocked |
| `channel_stuck` | one HTLC, 1 break, fairness | | *violation*: a commitment that is owed is never signed |
| `asset_overdraft` | asset channel, two HTLCs that exceed the balance | | *violation*: a negative balance is signed for |
| `swap_replay` | a swap, 1 restart | | *violation*: the incoming HTLC is failed while the payment is under way |
| `arbitrator_rerun` | one outgoing HTLC, 1 restart | | *violation*: the channel is given up without the HTLC |

The runs list what the modules are for; the type invariant `TypeOK` that each module
states is proved for all but `LightningChannel` and `TxNotifier`, and can be added to any
of the cfgs.

Several questions share a run: the constant `Scenarios` gives the initial states to
choose from, and a behaviour keeps the one it starts with.

Bounds. Three HTLCs for two ids of one outgoing channel are the least with a batch
and a reuse of an id after a trim; the invariants were also checked with three ids
(882,626 states). Two callers are enough for a race, since a call
races at most one other call on a circuit. For the channel, two breaks let a
resynchronisation be interrupted by the next break; one HTLC in each direction
lets both parties sign at once; two from one party make a batch. Three attempts
for an amount of two are needed so that one shard fails, another is in flight
and a third replaces the first. Two forwarded HTLCs let an index be reused and one
signature cover both; a restart and a stop of a link give a replay over a replay.
Two HTLCs make a set, its time-out and an overpayment. Three blocks hold a
confirmation of depth two, and a reorganisation takes it back. One fault in
`Funding` is enough for every race named there; the invariants were also checked
with two (2,500,405 states), the liveness properties only with one. Names of bounds
(`MaxHtlcId`, `MaxBreaks`, `MaxAttempts`, `MaxFaults`, ...) are the constants of the
modules.

Deadlock is checked for `circuit_map` only, where a restart is always possible. In
the others the system rests once the bounds are used up and the work is done.

Fairness. Weak fairness of what a running goroutine does: `LinkStep(p)` of the
channel (`htlcManager` serves its queues and its ticker), the steps of links,
switch and mailbox deadline in `HtlcForwarding`, of registry, watcher, timers and
links in `Invoices`, of arbitrator and resolvers, of notifier and clients, of
coordinator, handler and state machine in `Funding`. Links that stopped come back
(`StartIncoming`, `StartOutgoing`, `StartLink`, `Connect`), since a node reconnects
to a peer with which it has a channel. Blocks come and published
transactions confirm. A node whose arbitrator or resolver gave up with an error is restarted,
which the code asks for. Users, payers and peers are never forced to act, except
that the next hop of a forwarded HTLC answers it, as it must before its expiry.
Peers follow the protocol in all modules.

### Findings

Each is a violation run; the texts in `PROJECT.json` quote the comments they
disagree with.

1. `channel_stuck`: after a break a party that revoked and had not yet signed in
   turn does nothing if the peer has its revocation, so an HTLC stays on one
   commitment until some other update comes (`channel.go:4013`).
2. `asset_overdraft`: `validateAddHtlc` accepts every HTLC of an asset, and the
   reserve check compares unsigned numbers (`channel.go:5357`, `3628`).
3. `swap_replay`: the replay of a swap's HTLC after a restart meets
   `ErrDuplicateInvoice` or the expiry check and is failed back although the outgoing
   payment is in flight (`invoiceregistry.go:943`).
4. `arbitrator_rerun`: `Start` runs `StateContractClosed` again with `chainTrigger`,
   for which no contracts are made unless an HTLC is about to expire
   (`channel_arbitrator.go:462`).

Seen while modelling, without a run of their own. Each can be seen by the change in
brackets:

- after a trim write fails, `SignedStaysOpen`, `NoDisjointSegments`
  and `LookupFindsOpen` fail: keystones are gone from memory and remain on disk
  (`circuit_map.go:718`) [drop `trimFailed` from the property];
- `cleanClosedChannels` also deletes the circuit of an incoming HTLC that is not
  answered yet, when its outgoing channel is gone: the replay of the Add is then
  new to the map and can be forwarded once more (`circuit_map.go:403`) [two outgoing
  channels, and `gone` dropped from `AtMostOnce`];
- `TrimOpenCircuits` clears `Outgoing` before it removes the hash index entry, so
  the entry stays, and a later lookup can return a circuit of another hash
  (`circuit_map.go:706`);
- a fee update in the first exchange of a fresh channel is forgotten by a restart:
  until a channel has stored unsigned acked updates once, `AdvanceCommitChainTail`
  does not store it (`channeldb/channel.go:2517`) [a scenario with `fresh` and one
  fee update; invariant that no `fault` is set];
- an asset commitment with six HTLCs and two balances exceeds the seven receivers
  of the Omni payload and cannot be signed (`opreturn.go:70`) [six HTLCs; the same];
- two callers of one payment hash share the record after a recorded failure, and a
  registered attempt that is not yet sent is failed and then sent
  (`payment_lifecycle.go:576`) [two values in `Lives`; `NeverOverpaid`];
- `handleLocalAddPacket` may report a failure for an HTLC that was added and signed,
  when the link quits (`link.go:2584`) [`Answers = {TRUE, FALSE}`; `LiveIsRecorded`];
- the terminal error of one shard ends the loop while others are in flight; the
  record says in flight, with a failure, until a restart; any error of path finding other than
  "no route" does the same without a failure (`payment_lifecycle.go:263`);
- `routeAsync` gives up an Add when its link quits after the circuit was stored; the
  HTLC waits for the next restart (`switch.go:764`; `lost` in `EventuallyAnswered`);
- the registry holds its lock while it sends to the expiry watcher, and the watcher
  calls the registry: each waits for the other (`invoiceregistry.go:1289`, against the
  comment at `607`) [invariant `~WatcherWaits`];
- a link that stops no longer reads its hodl queue, and the registry blocks on it with
  its lock held (`link.go:597`) [invariant `lock # "stuck"`];
- every error of `resumePayment` cancels the hodl invoice of a swap, also with a
  shard still in flight (`router.go:2389`), and a replay can start a second
  outgoing payment (`invoiceregistry.go:941`);
- resolution messages wait for the switch in memory only (`switch.go:1685`), while
  the resolver that sent them may already be checkpointed;
- a restart between `Checkpoint` and `ResolveContract` of a resolver leaves the
  channel in `StateWaitingFullResolution` for good (`Stranded`);
- the races of the notifier listed in section 3, `between` first of all, which blocks it for
  good (`txnotifier.go:1664`) [drop the race from the property]; `cleanupSpuriousResponse` of the
  link is never reached in any behaviour of `HtlcForwarding`;
- `SendMessage` may report an error for a FundingSigned that was written: the
  responder deletes a channel that the initiator funds (`funding/manager.go:2122`)
  [drop `unsure` from `FundedIsRemembered`];
- the time-out of the responder looks at heights only and can win against the
  confirmation, for instance after a long time offline; the comment at
  `funding/manager.go:2345` says "we have no money at stake", which a pushed balance
  contradicts, and the one at `2162` speaks of 288 blocks where the constant is
  2016 [drop `timedOut` from `FundedIsRemembered`];
- a private channel whose peer goes away before its NodeAnnouncement is sent is not
  finished before a restart, as the comment at `funding/manager.go:2829` says
  [drop `Stopped` from `OpeningCompletes`];
- a node that reconnects while its channel is pending has no link for it. It is made
  when FundingLocked arrives; if that arrived, or was lost, on the earlier connection,
  nobody makes one and the channel cannot be used before the next reconnect
  (`brontide.go:761`, `funding/manager.go:3014`) [drop the condition on `active`, or
  `late`, from `UsableOnceLoaded`].

## 5. Proofs

Seven components have safety properties proved by TLAPS for every value of their constants,
each in a module of its own that extends the component's module. The argument has the
same form everywhere: an inductive invariant, a lemma for each action that the action
keeps it, one theorem `Spec => []Inv`, and then one short theorem per property of the
runs. The invariants can be added to the cfg of their run to see them hold there, except the
parts of those of `LightningChannel` that quantify over `Nat`.

| Module | Properties of the runs proved |
|---|---|
| `CircuitMapProofs` | `SignedStaysOpen`, `ForwardedOnce`, `MemoryMatchesDisk`, `LookupFindsOpen` (also `NoDisjointSegments`) |
| `HtlcForwardingProofs` | `AnswerHasCircuit`, `AnsweredFreesCircuit`, and `Relays`, the refinement of `HtlcRelay` |
| `PaymentsProofs` | `ResultKept`, `PaidIsFinal`, `LiveIsRecorded`, `NeverOverpaid` |
| `InvoicesProofs` | `PaidInFull`, `AnswerMatchesRecord` |
| `ChannelArbitratorProofs` | `AnswerMatchesChain`, `ClosedIsRecoverable`, `NothingForgotten` |
| `FundingProofs` | `FundedIsRemembered`, `NoOrphanReservation`, `LinkNeedsConfirm` |
| `LightningChannelProofs` | `CommitmentsAgree`, `ForwardedOnce`, `LockedInUntilAnswered`, `NeverUnsynchronised`, `RestoreNeverFails`, and for BTC channels `BalanceConserved` (also `WorthConserved` for all channels) |
| `SumTheorems` | sums over finite sets, used for payments, invoices and commitments |

The first six also prove the type invariant `TypeOK`; `LightningChannelProofs` has one of
its own, `ChannelTypes`.

**CircuitMap.** The properties hold until the write of a trim fails
(`trimFailed`). `MemoryMatchesDisk` holds beyond that in every state TLC reaches; the
proof does not show it. None of them is inductive: whether a trim takes a signed
keystone depends on which ids are open, on what calls in progress are about to
write, and on what is on disk for the next restart. The inductive
invariant `CircuitMapInv` is the conjunction of

- `MapTypeOK`, the types;
- `DiskInv`: keystones on disk are one to one, belong to circuits on disk, have
  no gap from the committed index on, and are open or in a call;
- `MemoryInv`: open circuits are pending and on disk, and the ids from
  `committed` up to `allocated` are exactly the open ones;
- `CallsInv`: what each kind of call relies on between its steps, and that two
  calls do not share a circuit nor two opening or trimming calls a channel;
- `SignedInv`: a signed HTLC that is not answered is open, unless a channel of it is
  gone;
- `GoneInv`: nothing of an incoming channel that is gone is above the committed index
  of a channel that is not, so cleaning up leaves no gap for the scan of a trim.

`TrimReachesAll` and `RestoredIsDisk` are about the operators. The invariant that
holds in every state is `InvUntilTrimFails`. The only assumption
is `CircuitMapAssumption`: the types of the constants, and that no outgoing channel has
the id 0 of `hop.Source`.

**HtlcForwarding.** `ForwardingInv` is `TypeOK` with `IndexInv` (indexes of signed and
logged HTLCs differ, the signed ones lie below the next index of the channel),
`CircuitInv` (an open circuit names the index of its HTLC, or belongs to a link that is
down and will be trimmed), `AddInv` (where an Add can be at each stage of its
circuit) and `AnswerInv` (a settle on its way anywhere has been earned by a preimage; a
failure on its way means that nothing can offer the HTLC any more). The last part is
what the refinement needs and what no single step shows: a failure travels
through a mailbox, the switch and the incoming link while replays of the Add come in
from the forwarding package. `ForwardingRelays` is `Spec => Relays`: the initial states
map to initial states of `HtlcRelay`, and every action to one of its steps or to a
stutter. `ForwardingAssumption` asks for a finite set of HTLCs that is not empty.

**Payments.** `PaymentInv` is `TypeOK` with `RecordInv` (what is in flight or settled
never exceeds the amount), `FreshInv` (nothing is known of an id not handed out),
`LaunchInv` (an attempt being launched is not in the network, and belongs to one
goroutine) and `ResultInv` (a stored result is the network's answer, and is stored
before its circuit goes). It gives `ResultKept` and `PaidIsFinal` for any number of
goroutines and for links that do not answer. `LiveIsRecorded` and
`NeverOverpaid` hold under `Sole`: one goroutine runs the payment and links answer. That is
the instance of `Payments.cfg`, and it is needed: section 4 lists the two
findings that break them otherwise. Under `Sole`, `SoleInv` adds `ClaimInv` (what
the network can claim is in the record) and `LoopInv` (what the loop and its
collectors know of the record, and that a part they launch still fits). `NeverOverpaid` then compares two sums, of what the network may claim and of
what the record holds.

**Invoices.** `InvoiceInv` is `TypeOK` with `RecordInv` (an invoice that is accepted or
settled is paid by the HTLCs that are), `HtlcInv`
(every resolution and answer on its way follows the record; a link asks again only while
nothing is on its way for the HTLC), `LockInv` (an HTLC that holds the registry's lock is
in its call) and `LoopInv` (the call whose `err` a goroutine shares is still in
progress). An answer
is signed long after the registry decided on it, and a replay after a restart asks
the registry again: `HtlcInv` says that the record has not moved meanwhile.
`InvoicesAssumption` asks for finitely many HTLCs with names other than the lock's
markers.

**ChannelArbitrator.** `ArbitratorInv` is `TypeOK` with `CloseInv` (what is stored before
a channel is marked closed, and what trigger a close gives), `AnswerInv` (an HTLC is
failed only when no output of it can be claimed any more), `StateInv`, `ResolverInv` (a
resolver that is done has told the switch) and, until `Start` runs a state again
(`rerun`, finding 4), `ProgressInv`: what is told to the switch or covered by a contract
in each state. `ArbitratorAssumption` has a condition that came out of the proof: no HTLC
we offer is on our commitment only. It comes to the peer's commitment first and leaves
ours first, which is the order in which `LightningChannel` adds and removes it; the code
relies on it, as `checkRemoteDiffActions` compares only the peer's two commitments when
one of them confirms, and an HTLC on ours alone would be forgotten.

**Funding.** `FundingInv` is `TypeOK` with `LiveInv` (nothing bound to a connection
outlives it as live), `NodeInv` (the goroutines of a node agree with its
database), `FlowInv` (how far the two sides can be apart) and `MessageInv`: at most one
message of the flow is on its way, and what it says about its sender still holds when it is
read. `FundingAssumption` bounds the wait of the responder from below by one block.

**LightningChannel.** The invariants are in `LightningChannelInvariants`. `ChannelInv` is `ChannelTypes` with three parts. `RecordInv` is about
one party: the two chains in memory are those on disk, a pending commitment has the
height after the tail, a party owes a signature or waits for a revocation but never
both in one chain. `AgreeInv` relates the two parties: the tail or the tip one has of the
other's chain is the other's local commitment, by transaction and not only by height,
because a signature is accepted only for the transaction it was made for. `QueueInv`
is about the messages: at most one commit_sig, one revoke_and_ack and one
channel_reestablish is on its way in each direction, what it says is still true of its
sender when it is read, and a party that synchronises hears nothing else first. Agreement
is not inductive without the messages, since a signature is made at one party's state and
taken at the other's, with restarts, lost connections and retransmissions between;
and what `ProcessChanSyncMsg` sends again has to be the message that was lost
(`Retransmission`). `CommitmentsAgreeAlways` follows for every set of amounts, fee rates, HTLCs,
breaks and write failures. `NeverUnsynchronised` says that no party ever reports data loss,
chains that cannot be synchronised, or a wrong revocation, for all constants. Other errors
of the handlers depend on the scenario (section 4 shows those of a fresh channel with a fee
update, and of asset channels). The assumption is
`ChannelAssumption`: two parties, and the types of the constants.

`ChannelInv` says which commitment is which and nothing of what is in one. That is
`LogsInv`, about the two logs of a party and its disk. Its part `UpdatesInv` is stated on
the updates alone, without the heights that a restart loses: indices and ids tell updates
apart (`Distinct`), a removal has its HTLC in the other log and is the only one (`Answers`),
the HTLCs of each of the three commitments are the Adds below its index less those removed
below its other index (`CommitsOK`), log indices have no gaps from the remote tail on
(`CountsOK`), and the updates on disk are those between two commitments (`StoredOK`). Its
part `EntriesInv` says that the heights in the entries tell the same: an entry has the height
of a chain exactly when it is below that chain's index (`Marked`). Both are needed, since
`createCommitDiff`, `ToForward` and `compactLogs` decide by heights, the next view by
indices, and `restoreCommitState` computes the heights again from the disk.
Every action is one of six kinds of step of a party (`OursGrow`, `TheirsGrow`, `Signs`,
`Revokes`, `Advances`, `Waits`), so that what a step does to the logs is shown once per kind
(`SignLogs`, `RevokeLogs`, `AdvanceLogs` and so on) and not once per action; the restore is
a case of its own. `LogsFollowCommitments` gives `RestoreAlwaysSucceeds`: nothing that the
database transactions leave on disk makes `NewLightningChannel` panic or fail.

`PackagesInv` adds the forwarding packages: what they lock in is below the index of the
remote tail, so the next one, which holds what lies between the tail and the tip, repeats
nothing; and an HTLC whose answer is in a package has left the log. `AnswersOf` follows a
removal from the log of its sender through the connection to the log and the package of its
receiver: it is always of an HTLC locked in at its sender. With both, `ForwardedOnceAlways` and
`LockedInUntilAnsweredAlways` hold for all constants, fresh channels and asset
channels included.

`Funded` says that every commitment a party holds is worth what the channel was opened with:
`Worth` is the two balances and the HTLCs. It follows the commitments and not the
steps, because only signing and revoking make one, and both extend the last commitment of
their chain (`SignExtends`, `RevokeExtends`). `evaluateHTLCView` computes the new balances
from entries whose height is zero, in two logs; the HTLCs of the new commitment come from
indices. `NextWorth` shows that the two fit: the entries without a height are those
between the indices of the old commitment and of the new one (`NewAddsAre`,
`NewRemovalsAre`), and the removals among them are worth the HTLCs that leave, as each has
its HTLC in the other log with the same amount and is the only one (`TakenWorth`,
`HalfWorth`, from `Answers`). So a height that a restart got wrong, or an HTLC removed twice,
would create or lose money. This much holds for asset channels too (`WorthConservedAlways`).
That no balance is negative needs the check of each new commitment, which the code
makes only for BTC: hence the hypothesis `~Asset` of `BalanceConservedAlways`, and the run
`asset_overdraft`, which refutes `BalancesNotNegative` for an asset channel.

**Sums.** The induction theorems of the library take an operator as a parameter, which
the provers cannot use. `SumTheorems` gets by with induction on a set of numbers
(`NatSetInduction`), shows that the recursive function inside
`MapThenSumSet` has a solution on a finite set, and from that `TotalAdd`, `TotalMonotone`,
`TotalSame`, `TotalUnion` (two sets without a common element) and `TotalImage` (the elements
renamed, as when log entries become updates and updates become HTLCs).

Only model-checked:

- liveness (`EventuallyAnswered` of forwarding and of invoices, `EventuallyResolved`,
  `EventuallyTold`, `OpeningCompletes`, `UsableOnceLoaded`): fairness and ENABLED are
  beyond the prover;
- of `LightningChannel`: `RestsAgreed`,
  which needs the logs of the two parties to be the same up to the messages in flight,
  where `AgreeInv` has it for commitments only; and `SignedIsAcked`, a liveness property;
- the invariants of `TxNotifier`: a dispatch is a fold over the clients (`FoldSet` with the
  handler as its operator), which the provers cannot unfold without a theory of such folds
  like the one `SumTheorems` has for sums;
- the four properties that the violation runs refute.

## 6. Not modelled

`PROJECT.json` lists every part with its reason. In short:

- generated code (`*.pb.go`, `*.pb.gw.go`, mocks), RPC servers, the command line,
  start-up and configuration, which are most of the lines of the repository:
  translation of requests, with no protocol of their own;
- cryptography, wire encoding, wallets, chain back ends, key derivation: input and
  output, or beyond a model checker;
- path finding, mission control, fee estimation, sweeping and autopilot: numeric
  heuristics, nondeterministic choices where a module meets them;
- the channel graph and the gossip syncer, the status manager, the watchtowers, the
  breach arbiter and nursery, the cooperative close: protocols that could be
  modelled and are not; no modelled property depends on them;
- `src/experimental`, which oblnd does not use.

So the map covers the protocol core of `src/oblnd` and a small share of
all lines; the rest has little state that a model would tell apart.
