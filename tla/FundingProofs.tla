---------------------------- MODULE FundingProofs ----------------------------
(***************************************************************************)
(* Proofs about Funding, for any number of lost connections and restarts and *)
(* any wait of the responder.  What has to hold of the two databases, the     *)
(* goroutines and the messages together, so that a published transaction is   *)
(* remembered on both sides, no reservation outlives its connection and no    *)
(* link exists before the confirmation, is FundingInv.                        *)
(***************************************************************************)
EXTENDS Funding, SequenceTheorems, TLAPS

\* Nothing that is bound to a connection outlives it as live, and the server has
\* canceled the reservations of one that is gone.
LiveOK(n) == /\ ~mem[n].coord.live /\ ~mem[n].handler.live /\ conn[n].link = "none"
             /\ ended[n] => ~mem[n].res
LiveInv == /\ ~up => request # "live" /\ \A n \in Nodes : LiveOK(n)
           /\ up => \A n \in Nodes : ~ended[n]

\* The goroutines of a node agree with its database: the wait for the
\* confirmation has a pending channel, its end an open one, and until then the
\* signal holds back a FundingLocked of the peer.
NodeOK(n) ==
    /\ mem[n].fsm \in {"waiting", "marking"} => disk[n].chan = "pending"
    /\ mem[n].fsm \in {"stepping", "sending"} => disk[n].chan = "open"
    /\ mem[n].fsm = "stopped" => disk[n].chan \in {"pending", "open"}
    /\ mem[n].fsm = "marking" \/ disk[n].chan = "open" => tx = "confirmed"
    /\ disk[n].chan = "pending" =>
         mem[n].signal = "open" \/ mem[n].coord.stage \in {"signing", "signed"}
    /\ mem[n].coord.stage \in {"signing", "signed"} =>
         /\ n = Responder /\ disk[n].chan = "pending" /\ mem[n].fsm = "none"
         /\ mem[n].handler.stage = "idle"
    /\ mem[n].coord.stage = "publishing" =>
         n = Initiator /\ disk[n].chan = "pending" /\ mem[n].fsm = "none"
    /\ mem[n].handler.stage # "idle" => disk[Other(n)].chan = "open"
    /\ mem[n].handler.stage = "adding" => disk[n].chan = "open"
    /\ conn[n].link # "none" => disk[n].chan = "open"
NodeInv == \A n \in Nodes : NodeOK(n)

\* The responder has the channel, or a named race made it forget.
Remembered == disk[Responder].chan \in {"pending", "open"}
              \/ odd \intersect {"timedOut", "unsure"} # {}

\* Neither side has stored anything.
Early == /\ disk[Initiator].chan = "none" /\ disk[Responder].chan = "none"
         /\ mem[Responder].coord.stage = "idle"

\* How far the two sides are apart.
FlowInv ==
    /\ request # "taken" => Early
    /\ mem[Responder].coord.stage = "signing" => disk[Initiator].chan = "none"
    /\ disk[Initiator].chan # "canceled"
    /\ disk[Initiator].chan # "none" => Remembered
    /\ tx # "none" => disk[Initiator].chan # "none"

FlowTypes == {"open", "accept", "created", "signed"}

\* What a message m on its way to n says about the state it was sent in.
MessageOK(n, m) ==
    /\ m.live => up
    /\ m.type = "locked" => disk[Other(n)].chan = "open"
    /\ m.type \in FlowTypes => request = "taken"
    /\ m.type \in {"open", "created"} => n = Responder /\ Early
    /\ m.type = "accept" => n = Initiator /\ Early
    /\ m.type = "signed" => /\ n = Initiator /\ disk[Initiator].chan = "none"
                            /\ mem[Responder].coord.stage # "signing" /\ Remembered

\* At most one message of the flow is on its way.
Once(q) ==
    \A n, m \in Nodes : \A i \in 1 .. Len(q[n]), j \in 1 .. Len(q[m]) :
       q[n][i].type \in FlowTypes /\ q[m][j].type \in FlowTypes => n = m /\ i = j
NoFlow(q) == \A n \in Nodes : \A i \in 1 .. Len(q[n]) : q[n][i].type \notin FlowTypes

MessageInv ==
    /\ \A n \in Nodes : \A i \in 1 .. Len(net[n]) : MessageOK(n, net[n][i])
    /\ Once(net)

FundingInv == TypeOK /\ LiveInv /\ NodeInv /\ FlowInv /\ MessageInv
-----------------------------------------------------------------------------
(* Nodes and queues. *)

LEMMA NodeFacts ==
    /\ Initiator \in Nodes /\ Responder \in Nodes /\ Initiator # Responder
    /\ \A n \in Nodes : /\ Other(n) \in Nodes /\ Other(n) # n /\ Other(Other(n)) = n
                        /\ n = Initiator \/ n = Responder
    /\ Other(Initiator) = Responder /\ Other(Responder) = Initiator
BY DEF Nodes, Other, Initiator, Responder

\* The head of a queue is taken.
LEMMA TakenFacts ==
    ASSUME net \in [Nodes -> Seq(Message)], NEW n \in Nodes, net[n] # <<>>
    PROVE  /\ Taken(n) \in [Nodes -> Seq(Message)]
           /\ Len(net[n]) \in Nat /\ Len(net[n]) > 0
           /\ Head(net[n]) = net[n][1] /\ Head(net[n]) \in Message
           /\ Len(Taken(n)[n]) = Len(net[n]) - 1
           /\ \A i \in 1 .. Len(Taken(n)[n]) : Taken(n)[n][i] = net[n][i + 1]
           /\ \A m \in Nodes : m # n => Taken(n)[m] = net[m]
<1>1. net[n] \in Seq(Message)
  OBVIOUS
<1>2. /\ Head(net[n]) = net[n][1] /\ Head(net[n]) \in Message
      /\ Tail(net[n]) \in Seq(Message) /\ Len(Tail(net[n])) = Len(net[n]) - 1
      /\ \A i \in 1 .. Len(Tail(net[n])) : Tail(net[n])[i] = net[n][i + 1]
      /\ Len(net[n]) \in Nat /\ Len(net[n]) > 0
  BY <1>1
<1>3. Taken(n)[n] = Tail(net[n]) /\ \A m \in Nodes : m # n => Taken(n)[m] = net[m]
  BY DEF Taken
<1>4. Taken(n) \in [Nodes -> Seq(Message)]
  BY <1>2 DEF Taken
<1> QED
  BY <1>2, <1>3, <1>4

LEMMA TakenKeeps ==
    ASSUME net \in [Nodes -> Seq(Message)], NEW n \in Nodes, net[n] # <<>>, Once(net)
    PROVE  /\ Once(Taken(n))
           /\ \A m \in Nodes : \A i \in 1 .. Len(Taken(n)[m]) :
                 \E j \in 1 .. Len(net[m]) : Taken(n)[m][i] = net[m][j]
           /\ Head(net[n]).type \in FlowTypes => NoFlow(Taken(n))
<1> DEFINE q == Taken(n)
<1>1. /\ Len(net[n]) \in Nat /\ Len(net[n]) > 0 /\ Head(net[n]) = net[n][1]
      /\ Len(q[n]) = Len(net[n]) - 1
      /\ \A i \in 1 .. Len(q[n]) : q[n][i] = net[n][i + 1]
      /\ \A m \in Nodes : m # n => q[m] = net[m]
  BY TakenFacts
<1> HIDE DEF q
<1>2. \A i \in 1 .. Len(q[n]) : i + 1 \in 1 .. Len(net[n]) /\ i + 1 # 1 /\ i \in Nat
  BY <1>1
<1>3. \A m \in Nodes : \A i \in 1 .. Len(q[m]) : \E j \in 1 .. Len(net[m]) : q[m][i] = net[m][j]
  BY <1>1, <1>2
<1> DEFINE old(m, i) == IF m = n THEN i + 1 ELSE i
<1>6. \A m \in Nodes : \A i \in 1 .. Len(q[m]) :
         /\ old(m, i) \in 1 .. Len(net[m]) /\ q[m][i] = net[m][old(m, i)]
         /\ m = n => old(m, i) # 1
  BY <1>1, <1>2
<1>7. \A m \in Nodes : \A i, j \in 1 .. Len(q[m]) : old(m, i) = old(m, j) => i = j
  BY <1>1, <1>2
<1> HIDE DEF old
<1>4. Once(q)
  <2> SUFFICES ASSUME NEW a \in Nodes, NEW b \in Nodes, NEW i \in 1 .. Len(q[a]),
                      NEW j \in 1 .. Len(q[b]),
                      q[a][i].type \in FlowTypes, q[b][j].type \in FlowTypes
               PROVE  a = b /\ i = j
    BY DEF Once
  <2>2. /\ old(a, i) \in 1 .. Len(net[a]) /\ net[a][old(a, i)].type \in FlowTypes
        /\ old(b, j) \in 1 .. Len(net[b]) /\ net[b][old(b, j)].type \in FlowTypes
    BY <1>6
  <2>1. a = b /\ old(a, i) = old(b, j)
    BY <2>2 DEF Once
  <2> QED
    BY <1>7, <2>1
<1>5. ASSUME Head(net[n]).type \in FlowTypes PROVE NoFlow(q)
  <2> SUFFICES ASSUME NEW a \in Nodes, NEW i \in 1 .. Len(q[a]), q[a][i].type \in FlowTypes
               PROVE  FALSE
    BY DEF NoFlow
  <2>1. 1 \in 1 .. Len(net[n])
    BY <1>1
  <2>2. a = n /\ old(a, i) = 1
    BY <1>1, <1>5, <1>6, <2>1 DEF Once
  <2> QED
    BY <1>6, <2>2
<1> QED
  BY <1>3, <1>4, <1>5 DEF q

\* A message is appended to a queue q.
Extended(q, o, msg) == [q EXCEPT ![o] = Append(@, msg)]

LEMMA ExtendedFacts ==
    ASSUME NEW q \in [Nodes -> Seq(Message)], NEW o \in Nodes, NEW msg \in Message
    PROVE  /\ Extended(q, o, msg) \in [Nodes -> Seq(Message)]
           /\ \A m \in Nodes : \A i \in 1 .. Len(Extended(q, o, msg)[m]) :
                 \/ m = o /\ Extended(q, o, msg)[m][i] = msg
                 \/ i \in 1 .. Len(q[m]) /\ Extended(q, o, msg)[m][i] = q[m][i]
           /\ Once(q) /\ (msg.type \notin FlowTypes \/ NoFlow(q)) => Once(Extended(q, o, msg))
<1> DEFINE r == Extended(q, o, msg)
<1>1. /\ q[o] \in Seq(Message) /\ Len(q[o]) \in Nat
      /\ r[o] = Append(q[o], msg) /\ r[o] \in Seq(Message) /\ Len(r[o]) = Len(q[o]) + 1
      /\ r[o][Len(q[o]) + 1] = msg
      /\ \A i \in 1 .. Len(q[o]) : r[o][i] = q[o][i]
      /\ \A m \in Nodes : m # o => r[m] = q[m]
  BY DEF Extended
<1>2. r \in [Nodes -> Seq(Message)]
  BY <1>1 DEF Extended
<1> HIDE DEF r
<1>3. \A i \in 1 .. Len(r[o]) : i \in 1 .. Len(q[o]) \/ i = Len(q[o]) + 1
  BY <1>1
<1>4. \A m \in Nodes : \A i \in 1 .. Len(r[m]) :
         \/ m = o /\ i = Len(q[o]) + 1 /\ r[m][i] = msg
         \/ i \in 1 .. Len(q[m]) /\ r[m][i] = q[m][i]
  BY <1>1, <1>3
<1>5. ASSUME Once(q), msg.type \notin FlowTypes \/ NoFlow(q) PROVE Once(r)
  <2> SUFFICES ASSUME NEW a \in Nodes, NEW b \in Nodes, NEW i \in 1 .. Len(r[a]),
                      NEW j \in 1 .. Len(r[b]),
                      r[a][i].type \in FlowTypes, r[b][j].type \in FlowTypes
               PROVE  a = b /\ i = j
    BY DEF Once
  <2>1. CASE msg.type \notin FlowTypes
    <3>1. /\ i \in 1 .. Len(q[a]) /\ r[a][i] = q[a][i]
          /\ j \in 1 .. Len(q[b]) /\ r[b][j] = q[b][j]
      BY <1>4, <2>1
    <3> QED
      BY <1>5, <3>1 DEF Once
  <2>2. CASE NoFlow(q)
    <3>1. a = o /\ i = Len(q[o]) + 1 /\ b = o /\ j = Len(q[o]) + 1
      BY <1>4, <2>2 DEF NoFlow
    <3> QED
      BY <3>1
  <2> QED
    BY <1>5, <2>1, <2>2
<1> QED
  BY <1>2, <1>4, <1>5 DEF r

\* The taking of a message with its answer.
LEMMA ReplyFacts ==
    ASSUME net \in [Nodes -> Seq(Message)], NEW n \in Nodes, net[n] # <<>>, Once(net),
           NEW type \in {"open", "accept", "created", "signed", "locked", "error"},
           type \notin FlowTypes \/ Head(net[n]).type \in FlowTypes
    PROVE  /\ Reply(n, type) \in [Nodes -> Seq(Message)] /\ Once(Reply(n, type))
           /\ \A m \in Nodes : \A i \in 1 .. Len(Reply(n, type)[m]) :
                 \/ /\ Live(n) /\ m = Other(n)
                    /\ Reply(n, type)[m][i] = [type |-> type, live |-> TRUE]
                 \/ \E j \in 1 .. Len(Taken(n)[m]) : Reply(n, type)[m][i] = Taken(n)[m][j]
<1> DEFINE msg == [type |-> type, live |-> TRUE]
           q == Taken(n)
<1>1. msg \in Message /\ msg.type = type
  BY DEF Message
<1>2. q \in [Nodes -> Seq(Message)] /\ Once(q) /\ (type \notin FlowTypes \/ NoFlow(q))
  BY TakenFacts, TakenKeeps
<1> HIDE DEF q
<1>3. Reply(n, type) = IF Live(n) THEN Extended(q, Other(n), msg) ELSE q
  <2>1. CASE Live(n)
    BY <2>1 DEF Reply, Extended, q
  <2>2. CASE ~Live(n)
    BY <1>2, <2>2, NodeFacts DEF Reply, q
  <2> QED
    BY <2>1, <2>2
<1> HIDE DEF msg
<1>4. CASE Live(n)
  <2>1. Reply(n, type) = Extended(q, Other(n), msg)
    BY <1>3, <1>4
  <2>2. Other(n) \in Nodes
    BY NodeFacts
  <2> DEFINE r == Extended(q, Other(n), msg)
  <2>3. /\ r \in [Nodes -> Seq(Message)]
        /\ \A m \in Nodes : \A i \in 1 .. Len(r[m]) :
              (m = Other(n) /\ r[m][i] = msg) \/ (i \in 1 .. Len(q[m]) /\ r[m][i] = q[m][i])
    BY <1>1, <1>2, <2>2, ExtendedFacts
  <2>4. Once(q) /\ (msg.type \notin FlowTypes \/ NoFlow(q)) => Once(r)
    BY <1>1, <1>2, <2>2, ExtendedFacts
  <2> HIDE DEF r
  <2>5. Once(r)
    BY <1>1, <1>2, <2>4
  <2> QED
    BY <1>4, <2>1, <2>3, <2>5 DEF r, msg, q
<1>5. CASE ~Live(n)
  BY <1>2, <1>3, <1>5 DEF q
<1> QED
  BY <1>4, <1>5

\* A connection that goes leaves a prefix of a queue, with dead peers.
LEMMA ReadFacts ==
    ASSUME net \in [Nodes -> Seq(Message)], NEW n \in Nodes, NEW k \in Unread(n)
    PROVE  /\ Read(n, k) \in Seq(Message) /\ Len(Read(n, k)) = k
           /\ \A i \in 1 .. k : /\ i \in 1 .. Len(net[n]) /\ Read(n, k)[i].live = FALSE
                                /\ Read(n, k)[i].type = net[n][i].type
<1>1. k \in Nat /\ Len(net[n]) \in Nat /\ \A i \in 1 .. k : i \in 1 .. Len(net[n])
  BY DEF Unread
<1>2. \A i \in 1 .. Len(net[n]) : net[n][i] \in Message
  OBVIOUS
<1>3. \A i \in 1 .. k : /\ Read(n, k)[i] \in Message /\ Read(n, k)[i].live = FALSE
                        /\ Read(n, k)[i].type = net[n][i].type
  BY <1>1, <1>2 DEF Read, Message
<1>4. Read(n, k) \in [1 .. k -> Message]
  BY <1>3 DEF Read
<1>5. Read(n, k) \in Seq(Message) /\ Len(Read(n, k)) = k
  BY <1>1, <1>4
<1> QED
  BY <1>1, <1>3, <1>5
-----------------------------------------------------------------------------
(* Types. *)

CoordType == [stage : {"idle", "signing", "signed", "publishing"}, live : BOOLEAN]
HandlerType == [stage : {"idle", "waiting", "adding"}, live : BOOLEAN]

LEMMA MemFields ==
    ASSUME TypeOK, NEW n \in Nodes
    PROVE  /\ mem[n] \in Mem /\ mem[n].res \in BOOLEAN /\ mem[n].signed \in BOOLEAN
           /\ mem[n].coord \in CoordType /\ mem[n].handler \in HandlerType
           /\ mem[n].coord.stage \in {"idle", "signing", "signed", "publishing"}
           /\ mem[n].handler.stage \in {"idle", "waiting", "adding"}
           /\ mem[n].fsm \in {"none", "waiting", "marking", "stepping", "sending", "stopped"}
           /\ mem[n].signal \in {"absent", "open", "closed"}
           /\ mem[n].coord.live \in BOOLEAN /\ mem[n].handler.live \in BOOLEAN
<1>1. mem[n] \in Mem
  BY DEF TypeOK
<1> QED
  BY <1>1 DEF Mem, CoordType, HandlerType

\* The messages on their way stay right when every one is old or new and right,
\* and what the old ones say stays true.
LEMMA MessagesKept ==
    ASSUME TypeOK, MessageInv, net' \in [Nodes -> Seq(Message)], Once(net'),
           \A n \in Nodes : \A i \in 1 .. Len(net'[n]) :
              \/ \E j \in 1 .. Len(net[n]) : net'[n][i] = net[n][j]
              \/ \E msg \in Message : net'[n][i] = msg /\ MessageOK(n, msg)',
           \A n \in Nodes : \A msg \in Message :
              MessageOK(n, msg) /\ (NoFlow(net') => msg.type \notin FlowTypes)
                 => MessageOK(n, msg)'
    PROVE  MessageInv'
<1>1. \A n \in Nodes : \A i \in 1 .. Len(net'[n]) : MessageOK(n, net[n][i])'
  <2> SUFFICES ASSUME NEW n \in Nodes, NEW i \in 1 .. Len(net'[n])
               PROVE  MessageOK(n, net[n][i])'
    OBVIOUS
  <2>1. CASE \E j \in 1 .. Len(net[n]) : net'[n][i] = net[n][j]
    <3>1. PICK j \in 1 .. Len(net[n]) : net'[n][i] = net[n][j]
      BY <2>1
    <3>2. net[n][j] \in Message /\ MessageOK(n, net[n][j])
      BY DEF TypeOK, MessageInv
    <3>3. PICK msg \in Message : msg = net[n][j]
      BY <3>2
    <3>4. MessageOK(n, msg)'
      BY <3>1, <3>2, <3>3 DEF NoFlow
    <3> QED
      BY <3>1, <3>3, <3>4 DEF MessageOK
  <2>2. CASE \E msg \in Message : net'[n][i] = msg /\ MessageOK(n, msg)'
    BY <2>2 DEF MessageOK
  <2> QED
    BY <2>1, <2>2
<1> QED
  BY <1>1 DEF MessageInv, Once

\* Nothing is sent or taken.
LEMMA MessagesSame ==
    ASSUME TypeOK, MessageInv, net' = net,
           \A n \in Nodes : \A msg \in Message : MessageOK(n, msg) => MessageOK(n, msg)'
    PROVE  MessageInv'
<1>1. net' \in [Nodes -> Seq(Message)] /\ Once(net')
  BY DEF TypeOK, MessageInv, Once
<1> QED
  BY <1>1, MessagesKept

\* The other node, when its own state stays.
LEMMA OtherNode ==
    ASSUME NEW m \in Nodes, NodeOK(m), mem'[m] = mem[m], disk'[m].chan = disk[m].chan,
           conn'[m].link \in {conn[m].link, "none"},
           tx = "confirmed" => tx' = "confirmed",
           disk[Other(m)].chan = "open" => disk'[Other(m)].chan = "open"
    PROVE  NodeOK(m)'
BY DEF NodeOK

\* The two nodes agree as before while neither database changes its channel.
LEMMA FlowSame ==
    ASSUME FlowInv, request' \in {request, "taken"}, disk'[Initiator].chan = disk[Initiator].chan,
           disk'[Responder].chan = disk[Responder].chan,
           \/ mem'[Responder].coord.stage = mem[Responder].coord.stage
           \/ mem'[Responder].coord.stage = "idle",
           odd \intersect {"timedOut", "unsure"} \subseteq odd',
           tx' # "none" => tx # "none" \/ disk[Initiator].chan # "none"
    PROVE  FlowInv'
BY DEF FlowInv, Early, Remembered

LEMMA MessageSame ==
    ASSUME request' \in {request, "taken"}, disk'[Initiator].chan = disk[Initiator].chan,
           disk'[Responder].chan = disk[Responder].chan,
           \/ mem'[Responder].coord.stage = mem[Responder].coord.stage
           \/ mem'[Responder].coord.stage = "idle",
           odd \intersect {"timedOut", "unsure"} \subseteq odd', up => up',
           NEW n \in Nodes, NEW msg, MessageOK(n, msg)
    PROVE  MessageOK(n, msg)'
<1>1. disk'[Other(n)].chan = disk[Other(n)].chan
  BY NodeFacts
<1> QED
  BY <1>1 DEF MessageOK, Early, Remembered

LEMMA StepMarkAsOpen ==
    ASSUME FundingInv, NEW n \in Nodes, MarkAsOpen(n)
    PROVE  FundingInv'
<1>1. TypeOK /\ LiveInv /\ NodeInv /\ FlowInv /\ MessageInv
  BY DEF FundingInv
<1>2. /\ UNCHANGED <<tx, age, request, net, up, ended, conn, odd, faults>>
      /\ mem[n].fsm = "marking"
      /\ disk' = [disk EXCEPT ![n].chan = "open"]
      /\ mem' = [mem EXCEPT ![n].fsm = "stepping",
                            ![n].signal = IF @ = "open" THEN "closed" ELSE @]
  BY DEF MarkAsOpen
<1>3. /\ disk' \in [Nodes -> Disk]
      /\ disk'[n].chan = "open" /\ \A m \in Nodes : m # n => disk'[m] = disk[m]
  BY <1>1, <1>2 DEF TypeOK, Disk
<1>4. mem' \in [Nodes -> Mem]
  <2> DEFINE new == [mem[n] EXCEPT !.fsm = "stepping",
                                   !.signal = IF @ = "open" THEN "closed" ELSE @]
  <2>1. new \in Mem
    BY <1>1, MemFields DEF Mem
  <2>2. mem' = [mem EXCEPT ![n] = new]
    BY <1>1, <1>2 DEF TypeOK
  <2> HIDE DEF new
  <2> QED
    BY <1>1, <2>1, <2>2 DEF TypeOK
<1>5. /\ \A m \in Nodes : m # n => mem'[m] = mem[m]
      /\ mem'[n].res = mem[n].res /\ mem'[n].coord = mem[n].coord
      /\ mem'[n].handler = mem[n].handler /\ mem'[n].fsm = "stepping"
  BY <1>1, <1>2 DEF TypeOK, Mem
<1>6. LiveInv'
  BY <1>1, <1>2, <1>5 DEF LiveInv, LiveOK
<1>10. NodeOK(n) /\ disk[n].chan = "pending" /\ tx = "confirmed"
  BY <1>1, <1>2 DEF NodeInv, NodeOK
<1>11. \A m \in Nodes : disk[m].chan = "open" => disk'[m].chan = "open"
  BY <1>3
<1>7. NodeInv'
  <2>1. NodeOK(n)'
    BY <1>2, <1>3, <1>5, <1>10, <1>11, NodeFacts DEF NodeOK
  <2>2. \A m \in Nodes : m # n => NodeOK(m)'
    BY <1>1, <1>2, <1>3, <1>5, <1>10, <1>11, NodeFacts, OtherNode DEF NodeInv
  <2> QED
    BY <2>1, <2>2 DEF NodeInv
<1>12. mem'[Responder].coord.stage = mem[Responder].coord.stage
  BY <1>5, NodeFacts
<1>8. FlowInv'
  <2>1. CASE n = Initiator
    BY <1>1, <1>2, <1>3, <1>10, <1>12, <2>1, NodeFacts DEF FlowInv, Early, Remembered
  <2>2. CASE n = Responder
    BY <1>1, <1>2, <1>3, <1>10, <1>12, <2>2, NodeFacts DEF FlowInv, Early, Remembered
  <2> QED
    BY <2>1, <2>2, NodeFacts
<1>9. MessageInv'
  <2>1. ASSUME NEW m \in Nodes, NEW msg \in Message, MessageOK(m, msg) PROVE MessageOK(m, msg)'
    <3>1. CASE n = Initiator
      BY <1>1, <1>2, <1>3, <1>10, <1>11, <1>12, <2>1, <3>1, NodeFacts DEF MessageOK, Early, Remembered
    <3>2. CASE n = Responder
      BY <1>1, <1>2, <1>3, <1>10, <1>11, <1>12, <2>1, <3>2, NodeFacts DEF MessageOK, Early, Remembered
    <3> QED
      BY <3>1, <3>2, NodeFacts
  <2> QED
    BY <1>1, <1>2, <2>1, MessagesSame
<1> QED
  BY <1>1, <1>2, <1>3, <1>4, <1>6, <1>7, <1>8, <1>9 DEF FundingInv, TypeOK

\* The memory of one node changes.
LEMMA MemStep ==
    ASSUME TypeOK, NEW n \in Nodes, NEW new \in Mem, mem' = [mem EXCEPT ![n] = new]
    PROVE  /\ mem' \in [Nodes -> Mem] /\ mem'[n] = new
           /\ \A m \in Nodes : m # n => mem'[m] = mem[m]
BY DEF TypeOK

\* A step of node n that leaves the channels of both databases and every
\* connection as they are.
LEMMA LocalStep ==
    ASSUME FundingInv, NEW n \in Nodes, TypeOK',
           request' \in {request, "taken"}, up' = up,
           \A m \in Nodes : disk'[m].chan = disk[m].chan,
           \A m \in Nodes : m # n => /\ mem'[m] = mem[m] /\ conn'[m].link = conn[m].link
                                     /\ ended'[m] = ended[m],
           mem'[n].coord.stage \in {mem[n].coord.stage, "idle"},
           odd \intersect {"timedOut", "unsure"} \subseteq odd',
           tx = "confirmed" => tx' = "confirmed",
           tx' # "none" => tx # "none" \/ disk[Initiator].chan # "none",
           ~up => LiveOK(n)', up => ended'[n] = ended[n], NodeOK(n)', Once(net'),
           \A m \in Nodes : \A i \in 1 .. Len(net'[m]) :
              \/ \E j \in 1 .. Len(net[m]) : net'[m][i] = net[m][j]
              \/ \E msg \in Message : net'[m][i] = msg /\ MessageOK(m, msg)'
    PROVE  FundingInv'
<1>1. TypeOK /\ LiveInv /\ NodeInv /\ FlowInv /\ MessageInv
  BY DEF FundingInv
<1>2. LiveInv'
  BY <1>1 DEF LiveInv, LiveOK
<1>3. NodeInv'
  <2>1. \A m \in Nodes : m # n => NodeOK(m)'
    BY <1>1, NodeFacts, OtherNode DEF NodeInv
  <2> QED
    BY <2>1 DEF NodeInv
<1>4. mem'[Responder].coord.stage = mem[Responder].coord.stage
      \/ mem'[Responder].coord.stage = "idle"
  BY NodeFacts
<1>5. FlowInv'
  BY <1>1, <1>4, NodeFacts, FlowSame
<1>6. \A m \in Nodes : \A msg \in Message : MessageOK(m, msg) => MessageOK(m, msg)'
  BY <1>4, NodeFacts, MessageSame
<1>7. net' \in [Nodes -> Seq(Message)]
  BY DEF TypeOK
<1>8. MessageInv'
  BY <1>1, <1>6, <1>7, MessagesKept
<1> QED
  BY <1>2, <1>3, <1>5, <1>8 DEF FundingInv

\* The same, when nothing is sent or taken either.
LEMMA QuietStep ==
    ASSUME FundingInv, NEW n \in Nodes, TypeOK',
           UNCHANGED <<request, up, net>>,
           \A m \in Nodes : disk'[m].chan = disk[m].chan,
           \A m \in Nodes : m # n => /\ mem'[m] = mem[m] /\ conn'[m].link = conn[m].link
                                     /\ ended'[m] = ended[m],
           mem'[n].coord.stage \in {mem[n].coord.stage, "idle"},
           odd \intersect {"timedOut", "unsure"} \subseteq odd',
           tx = "confirmed" => tx' = "confirmed",
           tx' # "none" => tx # "none" \/ disk[Initiator].chan # "none",
           ~up => LiveOK(n)', up => ended'[n] = ended[n], NodeOK(n)'
    PROVE  FundingInv'
<1>1. Once(net')
  BY DEF FundingInv, MessageInv, Once
<1> QED
  BY <1>1, LocalStep

LEMMA StepSaveMarkedOpen ==
    ASSUME FundingInv, NEW n \in Nodes, NEW valid \in BOOLEAN, SaveMarkedOpen(n, valid)
    PROVE  FundingInv'
<1>1. TypeOK /\ NodeOK(n) /\ (~up => LiveOK(n))
  BY DEF FundingInv, NodeInv, LiveInv
<1> DEFINE new == [mem[n] EXCEPT !.fsm = IF valid THEN "marking" ELSE "stopped"]
<1>2. /\ UNCHANGED <<tx, age, request, net, up, ended, conn, odd, faults>>
      /\ mem[n].fsm = "waiting" /\ tx = "confirmed"
      /\ disk' = [disk EXCEPT ![n].opening = "markedOpen"] \/ disk' = disk
      /\ mem' = [mem EXCEPT ![n] = new]
  BY <1>1 DEF SaveMarkedOpen, Stops, TypeOK
<1>3. /\ new \in Mem /\ new.coord = mem[n].coord /\ new.handler = mem[n].handler
      /\ new.fsm \in {"marking", "stopped"} /\ new.signal = mem[n].signal /\ new.res = mem[n].res
  BY <1>1, MemFields DEF Mem
<1>4. disk' \in [Nodes -> Disk] /\ \A m \in Nodes : disk'[m].chan = disk[m].chan
  <2>1. CASE disk' = disk
    BY <1>1, <2>1 DEF TypeOK
  <2>2. CASE disk' = [disk EXCEPT ![n].opening = "markedOpen"]
    BY <1>1, <2>2 DEF TypeOK, Disk
  <2> QED
    BY <1>2, <2>1, <2>2
<1> HIDE DEF new
<1>5. /\ mem' \in [Nodes -> Mem] /\ mem'[n] = new
      /\ \A m \in Nodes : m # n => mem'[m] = mem[m]
  BY <1>1, <1>2, <1>3, MemStep
<1>6. NodeOK(n)' /\ (~up => LiveOK(n)')
  BY <1>1, <1>2, <1>3, <1>4, <1>5, NodeFacts DEF NodeOK, LiveOK
<1>7. TypeOK'
  BY <1>1, <1>2, <1>4, <1>5 DEF TypeOK
<1> QED
  BY <1>2, <1>3, <1>4, <1>5, <1>6, <1>7, QuietStep

\* FundingLocked is written down as sent, or the peer is gone and the wait begins
\* again.
LEMMA StepFundingLockedSent ==
    ASSUME FundingInv, NEW n \in Nodes, FundingLockedSent(n) \/ FundingLockedFails(n)
    PROVE  FundingInv'
<1>1. TypeOK /\ NodeOK(n) /\ (~up => LiveOK(n))
  BY DEF FundingInv, NodeInv, LiveInv
<1> DEFINE new == [mem[n] EXCEPT !.fsm = "stepping"]
<1>2. /\ UNCHANGED <<tx, age, request, net, up, ended, conn, odd, faults>>
      /\ mem[n].fsm = "sending" /\ mem' = [mem EXCEPT ![n] = new]
      /\ disk' = [disk EXCEPT ![n].opening = "fundingLockedSent"] \/ disk' = disk
  BY <1>1 DEF FundingLockedSent, FundingLockedFails, TypeOK
<1>3. /\ new \in Mem /\ new.coord = mem[n].coord /\ new.handler = mem[n].handler
      /\ new.fsm = "stepping" /\ new.signal = mem[n].signal /\ new.res = mem[n].res
  BY <1>1, MemFields DEF Mem
<1>4. disk' \in [Nodes -> Disk] /\ \A m \in Nodes : disk'[m].chan = disk[m].chan
  <2>1. CASE disk' = disk
    BY <1>1, <2>1 DEF TypeOK
  <2>2. CASE disk' = [disk EXCEPT ![n].opening = "fundingLockedSent"]
    BY <1>1, <2>2 DEF TypeOK, Disk
  <2> QED
    BY <1>2, <2>1, <2>2
<1> HIDE DEF new
<1>5. /\ mem' \in [Nodes -> Mem] /\ mem'[n] = new
      /\ \A m \in Nodes : m # n => mem'[m] = mem[m]
  BY <1>1, <1>2, <1>3, MemStep
<1>6. NodeOK(n)' /\ (~up => LiveOK(n)')
  BY <1>1, <1>2, <1>3, <1>4, <1>5, NodeFacts DEF NodeOK, LiveOK
<1>7. TypeOK'
  BY <1>1, <1>2, <1>4, <1>5 DEF TypeOK
<1> QED
  BY <1>2, <1>3, <1>4, <1>5, <1>6, <1>7, QuietStep

LEMMA StepStateStep ==
    ASSUME FundingInv, NEW n \in Nodes, stateStep(n)
    PROVE  FundingInv'
<1>1. TypeOK /\ NodeOK(n) /\ (~up => LiveOK(n))
  BY DEF FundingInv, NodeInv, LiveInv
<1>2. PICK works \in BOOLEAN : addToRouterGraph(n, works) \/ annAfterSixConfs(n, works)
  BY DEF stateStep
<1> DEFINE added == disk[n].opening = "addedToRouterGraph"
           op == IF ~works THEN disk[n].opening ELSE IF added THEN "done" ELSE "addedToRouterGraph"
           end == IF ~works THEN "stopped" ELSE IF added THEN "none" ELSE "stepping"
           new == [mem[n] EXCEPT !.fsm = end]
<1>a. end \in {"none", "stepping", "stopped"} /\ op \in {"fundingLockedSent", "addedToRouterGraph", "done"}
  BY <1>2 DEF addToRouterGraph, annAfterSixConfs
<1>b. /\ UNCHANGED <<tx, age, request, net, up, ended, conn, odd, faults>>
      /\ mem[n].fsm = "stepping"
  BY DEF stateStep
<1>c. /\ mem' = [mem EXCEPT ![n] = new]
      /\ disk' = [disk EXCEPT ![n].opening = op] \/ disk' = disk
  <2>1. CASE ~works
    BY <1>1, <1>2, <2>1 DEF addToRouterGraph, annAfterSixConfs, Stops, TypeOK
  <2>2. CASE works /\ disk[n].opening = "addedToRouterGraph"
    BY <1>1, <1>2, <2>2 DEF addToRouterGraph, annAfterSixConfs, TypeOK
  <2>3. CASE works /\ disk[n].opening # "addedToRouterGraph"
    <3>1. mem' = mem /\ disk' = [disk EXCEPT ![n].opening = "addedToRouterGraph"]
      BY <1>2, <2>3 DEF addToRouterGraph, annAfterSixConfs
    <3>2. mem[n] = [mem[n] EXCEPT !.fsm = "stepping"]
      BY <1>1, <1>b, MemFields DEF Mem
    <3>3. end = "stepping" /\ op = "addedToRouterGraph"
      BY <2>3
    <3> HIDE DEF end, op
    <3>4. mem' = [mem EXCEPT ![n] = new]
      BY <1>1, <3>1, <3>2, <3>3 DEF TypeOK
    <3> QED
      BY <3>1, <3>3, <3>4
  <2> QED
    BY <2>1, <2>2, <2>3
<1> HIDE DEF end
<1>3. /\ new \in Mem /\ new.coord = mem[n].coord /\ new.handler = mem[n].handler
      /\ new.fsm = end /\ new.signal = mem[n].signal /\ new.res = mem[n].res
  BY <1>1, <1>a, MemFields DEF Mem
<1>4. disk' \in [Nodes -> Disk] /\ \A m \in Nodes : disk'[m].chan = disk[m].chan
  <2> HIDE DEF op, new
  <2>1. CASE disk' = disk
    BY <1>1, <2>1 DEF TypeOK
  <2>2. CASE disk' = [disk EXCEPT ![n].opening = op]
    BY <1>1, <1>a, <2>2 DEF TypeOK, Disk
  <2> QED
    BY <1>c, <2>1, <2>2
<1> HIDE DEF new
<1>5. /\ mem' \in [Nodes -> Mem] /\ mem'[n] = new
      /\ \A m \in Nodes : m # n => mem'[m] = mem[m]
  BY <1>1, <1>c, <1>3, MemStep
<1>6. NodeOK(n)' /\ (~up => LiveOK(n)')
  BY <1>1, <1>a, <1>b, <1>3, <1>4, <1>5, NodeFacts DEF NodeOK, LiveOK
<1>7. TypeOK'
  BY <1>1, <1>b, <1>4, <1>5 DEF TypeOK
<1> QED
  BY <1>b, <1>3, <1>4, <1>5, <1>6, <1>7, QuietStep

LEMMA StepFundingSignedSent ==
    ASSUME FundingInv, FundingSignedSent
    PROVE  FundingInv'
<1> DEFINE n == Responder
           new == [mem[n] EXCEPT !.coord = Idle, !.signal = "open", !.fsm = "waiting"]
<1>1. n \in Nodes /\ TypeOK /\ NodeOK(n) /\ (~up => LiveOK(n))
  BY NodeFacts DEF FundingInv, NodeInv, LiveInv
<1>2. /\ UNCHANGED <<disk, tx, age, request, net, up, ended, conn, odd, faults>>
      /\ mem[n].coord.stage = "signed" /\ mem' = [mem EXCEPT ![n] = new]
  BY <1>1 DEF FundingSignedSent, TypeOK
<1>3. /\ new \in Mem /\ new.coord.stage = "idle" /\ ~new.coord.live
      /\ new.handler = mem[n].handler
      /\ new.fsm = "waiting" /\ new.signal = "open" /\ new.res = mem[n].res
  BY <1>1, MemFields DEF Mem, Idle, HandlerType
<1> HIDE DEF new, n
<1>5. /\ mem' \in [Nodes -> Mem] /\ mem'[n] = new
      /\ \A m \in Nodes : m # n => mem'[m] = mem[m]
  BY <1>1, <1>2, <1>3, MemStep
<1>6. NodeOK(n)' /\ (~up => LiveOK(n)')
  BY <1>1, <1>2, <1>3, <1>5, NodeFacts DEF NodeOK, LiveOK
<1>7. TypeOK'
  BY <1>1, <1>2, <1>5 DEF TypeOK
<1> QED
  BY <1>1, <1>2, <1>3, <1>5, <1>6, <1>7, QuietStep

LEMMA StepPublishFundingTx ==
    ASSUME FundingInv, NEW works \in BOOLEAN, PublishFundingTx(works)
    PROVE  FundingInv'
<1> DEFINE n == Initiator
           new == [mem[n] EXCEPT !.coord = Idle, !.fsm = "waiting"]
<1>1. n \in Nodes /\ TypeOK /\ NodeOK(n) /\ (~up => LiveOK(n))
  BY NodeFacts DEF FundingInv, NodeInv, LiveInv
<1>2. /\ UNCHANGED <<disk, age, request, net, up, ended, conn, odd, faults>>
      /\ mem[n].coord.stage = "publishing" /\ mem' = [mem EXCEPT ![n] = new]
      /\ tx' = tx \/ (tx = "none" /\ tx' = "published")
  BY <1>1 DEF PublishFundingTx, TypeOK
<1>3. /\ new \in Mem /\ new.coord.stage = "idle" /\ ~new.coord.live
      /\ new.handler = mem[n].handler
      /\ new.fsm = "waiting" /\ new.signal = mem[n].signal /\ new.res = mem[n].res
  BY <1>1, MemFields DEF Mem, Idle, HandlerType
<1>4. disk[Initiator].chan = "pending"
  BY <1>1, <1>2 DEF NodeOK
<1> HIDE DEF new, n
<1>5. /\ mem' \in [Nodes -> Mem] /\ mem'[n] = new
      /\ \A m \in Nodes : m # n => mem'[m] = mem[m]
  BY <1>1, <1>2, <1>3, MemStep
<1>6. NodeOK(n)' /\ (~up => LiveOK(n)')
  BY <1>1, <1>2, <1>3, <1>5, NodeFacts DEF NodeOK, LiveOK
<1>7. TypeOK'
  BY <1>1, <1>2, <1>5 DEF TypeOK
<1> QED
  BY <1>1, <1>2, <1>3, <1>4, <1>5, <1>6, <1>7, QuietStep

\* The signal is not open, so a channel that the handler goes on with is open.
LEMMA StepInsertNextRevocation ==
    ASSUME FundingInv, NEW n \in Nodes, InsertNextRevocation(n)
    PROVE  FundingInv'
<1>1. TypeOK /\ NodeOK(n) /\ (~up => LiveOK(n))
  BY DEF FundingInv, NodeInv, LiveInv
<1> DEFINE goes == disk[n].chan \in {"pending", "open"} /\ ~disk[n].nextRev
           handler == IF goes THEN [mem[n].handler EXCEPT !.stage = "adding"] ELSE Idle
           new == [mem[n] EXCEPT !.signal = "absent", !.handler = handler]
           rev == disk[n].nextRev \/ goes
<1>2. /\ UNCHANGED <<tx, age, request, net, up, ended, conn, odd, faults>>
      /\ mem[n].handler.stage = "waiting" /\ mem[n].signal # "open"
      /\ disk' = [disk EXCEPT ![n].nextRev = rev] /\ mem' = [mem EXCEPT ![n] = new]
  BY <1>1 DEF InsertNextRevocation, TypeOK
<1>3. /\ handler \in HandlerType
      /\ handler.live => mem[n].handler.live
      /\ handler.stage # "idle" => handler.stage = "adding" /\ goes
  BY <1>1, MemFields DEF HandlerType, Idle
<1>4. disk' \in [Nodes -> Disk] /\ \A m \in Nodes : disk'[m].chan = disk[m].chan
  <2>1. rev \in BOOLEAN
    BY <1>1 DEF TypeOK, Disk
  <2> HIDE DEF rev, new
  <2> QED
    BY <1>1, <1>2, <2>1 DEF TypeOK, Disk
<1>5. goes => disk[n].chan = "open"
  BY <1>1, <1>2 DEF NodeOK
<1> HIDE DEF goes, rev, handler
<1>6. /\ new \in Mem /\ new.coord = mem[n].coord /\ new.handler = handler
      /\ new.fsm = mem[n].fsm /\ new.signal = "absent" /\ new.res = mem[n].res
  BY <1>1, <1>3, MemFields DEF Mem, HandlerType
<1> HIDE DEF new
<1>7. /\ mem' \in [Nodes -> Mem] /\ mem'[n] = new
      /\ \A m \in Nodes : m # n => mem'[m] = mem[m]
  BY <1>1, <1>2, <1>6, MemStep
<1>8. NodeOK(n)' /\ (~up => LiveOK(n)')
  BY <1>1, <1>2, <1>3, <1>4, <1>5, <1>6, <1>7, NodeFacts DEF NodeOK, LiveOK
<1>9. TypeOK'
  BY <1>1, <1>2, <1>4, <1>7 DEF TypeOK
<1> QED
  BY <1>2, <1>4, <1>6, <1>7, <1>8, <1>9, QuietStep

\* A link is added over a peer object that is alive, to a channel that is open.
LEMMA StepAddNewChannel ==
    ASSUME FundingInv, NEW n \in Nodes, AddNewChannel(n)
    PROVE  FundingInv'
<1>1. TypeOK /\ NodeOK(n) /\ (~up => LiveOK(n))
  BY DEF FundingInv, NodeInv, LiveInv
<1> DEFINE new == [mem[n] EXCEPT !.handler = Idle]
           link == CASE conn[n].active = "absent" -> "ready"
                     [] conn[n].active = "pending" -> "syncing"
                     [] conn[n].active = "channel" -> conn[n].link
           own == [conn[n] EXCEPT !.active = "channel", !.rev = TRUE, !.link = link]
           reest == conn[Other(n)].reest
                    \/ (conn[n].active = "pending" /\ conn[Other(n)].active # "absent")
           theirs == [conn[Other(n)] EXCEPT !.reest = reest]
<1>2. /\ UNCHANGED <<disk, tx, age, request, net, up, ended, faults>>
      /\ mem[n].handler.stage = "adding" /\ mem' = [mem EXCEPT ![n] = new]
      /\ odd' \in {odd, odd \union {"late"}}
  BY <1>1 DEF AddNewChannel, TypeOK
<1>10. Other(n) \in Nodes /\ Other(n) # n /\ \A m \in Nodes : m = n \/ m = Other(n)
  BY NodeFacts
<1>11. \/ conn' = conn
       \/ /\ mem[n].handler.live
          /\ conn' = [conn EXCEPT ![n] = own, ![Other(n)].reest =
                 @ \/ (conn[n].active = "pending" /\ conn[Other(n)].active # "absent")]
  BY DEF AddNewChannel
<1>12. \/ conn' = conn
       \/ mem[n].handler.live /\ conn' = [m \in Nodes |-> IF m = n THEN own ELSE theirs]
  <2> HIDE DEF own
  <2> QED
    BY <1>1, <1>10, <1>11 DEF TypeOK
<1>13. conn[n] \in Conn /\ conn[Other(n)] \in Conn
  BY <1>1, <1>10 DEF TypeOK
<1>3. /\ new \in Mem /\ new.coord = mem[n].coord /\ new.handler.stage = "idle"
      /\ ~new.handler.live
      /\ new.fsm = mem[n].fsm /\ new.signal = mem[n].signal /\ new.res = mem[n].res
  BY <1>1, MemFields DEF Mem, Idle, CoordType
<1>4. link \in {"none", "syncing", "ready"} /\ reest \in BOOLEAN
  BY <1>13 DEF Conn
<1> HIDE DEF new, link, reest
<1>5. own \in Conn /\ theirs \in Conn /\ theirs.link = conn[Other(n)].link
  BY <1>4, <1>13 DEF Conn
<1> HIDE DEF own, theirs
<1>6. /\ conn' \in [Nodes -> Conn] /\ \A m \in Nodes : m # n => conn'[m].link = conn[m].link
      /\ ~up => conn'[n] = conn[n]
  BY <1>1, <1>5, <1>10, <1>12, <1>13 DEF TypeOK, LiveOK
<1>7. /\ mem' \in [Nodes -> Mem] /\ mem'[n] = new
      /\ \A m \in Nodes : m # n => mem'[m] = mem[m]
  BY <1>1, <1>2, <1>3, MemStep
<1>8. NodeOK(n)' /\ (~up => LiveOK(n)')
  BY <1>1, <1>2, <1>3, <1>6, <1>7, NodeFacts DEF NodeOK, LiveOK
<1>9. TypeOK'
  BY <1>1, <1>2, <1>6, <1>7 DEF TypeOK
<1> QED
  BY <1>2, <1>3, <1>6, <1>7, <1>8, <1>9, QuietStep

LEMMA StepCancelPeerReservations ==
    ASSUME FundingInv, NEW n \in Nodes, CancelPeerReservations(n)
    PROVE  FundingInv'
<1>1. TypeOK /\ NodeOK(n) /\ (~up => LiveOK(n))
  BY DEF FundingInv, NodeInv, LiveInv
<1> DEFINE new == [mem[n] EXCEPT !.res = FALSE]
<1>2. /\ UNCHANGED <<disk, tx, age, request, net, up, conn, odd, faults>>
      /\ ~up /\ ended' = [ended EXCEPT ![n] = TRUE] /\ mem' = [mem EXCEPT ![n] = new]
  BY <1>1 DEF CancelPeerReservations, TypeOK
<1>3. /\ new \in Mem /\ new.coord = mem[n].coord /\ new.handler = mem[n].handler
      /\ new.fsm = mem[n].fsm /\ new.signal = mem[n].signal /\ ~new.res
  BY <1>1, MemFields DEF Mem
<1>4. ended' \in [Nodes -> BOOLEAN] /\ \A m \in Nodes : m # n => ended'[m] = ended[m]
  BY <1>1, <1>2 DEF TypeOK
<1> HIDE DEF new
<1>5. /\ mem' \in [Nodes -> Mem] /\ mem'[n] = new
      /\ \A m \in Nodes : m # n => mem'[m] = mem[m]
  BY <1>1, <1>2, <1>3, MemStep
<1>6. NodeOK(n)' /\ (~up => LiveOK(n)')
  BY <1>1, <1>2, <1>3, <1>5, NodeFacts DEF NodeOK, LiveOK
<1>7. TypeOK'
  BY <1>1, <1>2, <1>4, <1>5 DEF TypeOK
<1> QED
  BY <1>2, <1>3, <1>4, <1>5, <1>6, <1>7, QuietStep

\* The chain.
LEMMA StepChain ==
    ASSUME FundingInv, Confirm \/ Block
    PROVE  FundingInv'
<1> DEFINE n == Initiator
<1>1. n \in Nodes /\ TypeOK /\ NodeOK(n) /\ (~up => LiveOK(n))
  BY NodeFacts DEF FundingInv, NodeInv, LiveInv
<1>2. /\ UNCHANGED <<disk, request, mem, net, up, ended, conn, odd, faults>>
      /\ tx' \in {tx, "confirmed"} /\ (tx' # "none" => tx # "none")
  BY DEF Confirm, Block
<1>3. age' \in 0 .. MaxWait
  BY <1>1, FundingAssumption DEF Confirm, Block, TypeOK
<1> HIDE DEF n
<1>4. NodeOK(n)' /\ (~up => LiveOK(n)')
  BY <1>1, <1>2 DEF NodeOK, LiveOK
<1>5. TypeOK'
  BY <1>1, <1>2, <1>3 DEF TypeOK
<1> QED
  BY <1>1, <1>2, <1>4, <1>5, QuietStep
-----------------------------------------------------------------------------
(* Steps that take or send a message. *)

LEMMA HeadFacts ==
    ASSUME FundingInv, NEW n \in Nodes, NEW type, Takes(n, type)
    PROVE  /\ net \in [Nodes -> Seq(Message)] /\ net[n] # <<>> /\ Once(net)
           /\ Head(net[n]) \in Message /\ Head(net[n]).type = type
           /\ MessageOK(n, Head(net[n])) /\ mem[n].coord.stage = "idle"
           /\ Live(n) \in BOOLEAN /\ (Live(n) => up)
<1>1. net \in [Nodes -> Seq(Message)] /\ net[n] # <<>> /\ Once(net) /\ MessageInv
  BY DEF FundingInv, TypeOK, MessageInv, Takes
<1>2. Head(net[n]) = net[n][1] /\ Head(net[n]) \in Message /\ 1 \in 1 .. Len(net[n])
  BY <1>1, TakenFacts
<1>3. MessageOK(n, Head(net[n]))
  BY <1>1, <1>2 DEF MessageInv
<1> QED
  BY <1>1, <1>2, <1>3 DEF Takes, Live, Message, MessageOK

LEMMA TakesStep ==
    ASSUME FundingInv, NEW n \in Nodes, NEW type, Takes(n, type), net' = Taken(n)
    PROVE  /\ net' \in [Nodes -> Seq(Message)] /\ Once(net')
           /\ \A m \in Nodes : \A i \in 1 .. Len(net'[m]) :
                 \E j \in 1 .. Len(net[m]) : net'[m][i] = net[m][j]
           /\ type \in FlowTypes => NoFlow(net')
<1>1. /\ net \in [Nodes -> Seq(Message)] /\ net[n] # <<>> /\ Once(net)
      /\ Head(net[n]).type = type
  BY HeadFacts
<1>2. Taken(n) \in [Nodes -> Seq(Message)]
  BY <1>1, TakenFacts
<1>3. /\ Once(Taken(n))
      /\ \A m \in Nodes : \A i \in 1 .. Len(Taken(n)[m]) :
            \E j \in 1 .. Len(net[m]) : Taken(n)[m][i] = net[m][j]
      /\ type \in FlowTypes => NoFlow(Taken(n))
  BY <1>1, TakenKeeps
<1> QED
  BY <1>2, <1>3

LEMMA RepliesStep ==
    ASSUME FundingInv, NEW n \in Nodes, NEW type, Takes(n, type),
           NEW answer \in {"open", "accept", "created", "signed", "locked", "error"},
           answer \notin FlowTypes \/ type \in FlowTypes, net' = Reply(n, answer)
    PROVE  /\ net' \in [Nodes -> Seq(Message)] /\ Once(net')
           /\ \A m \in Nodes : \A i \in 1 .. Len(net'[m]) :
                 \/ \E j \in 1 .. Len(net[m]) : net'[m][i] = net[m][j]
                 \/ up /\ m = Other(n) /\ net'[m][i] = [type |-> answer, live |-> TRUE]
<1>1. /\ net \in [Nodes -> Seq(Message)] /\ net[n] # <<>> /\ Once(net)
      /\ Head(net[n]).type = type /\ (Live(n) => up)
  BY HeadFacts
<1>2. /\ Reply(n, answer) \in [Nodes -> Seq(Message)] /\ Once(Reply(n, answer))
      /\ \A m \in Nodes : \A i \in 1 .. Len(Reply(n, answer)[m]) :
            \/ /\ Live(n) /\ m = Other(n)
               /\ Reply(n, answer)[m][i] = [type |-> answer, live |-> TRUE]
            \/ \E j \in 1 .. Len(Taken(n)[m]) : Reply(n, answer)[m][i] = Taken(n)[m][j]
  BY <1>1, ReplyFacts
<1>3. \A m \in Nodes : \A i \in 1 .. Len(Taken(n)[m]) :
         \E j \in 1 .. Len(net[m]) : Taken(n)[m][i] = net[m][j]
  BY <1>1, TakenKeeps
<1>4. ASSUME NEW m \in Nodes, NEW i \in 1 .. Len(net'[m])
      PROVE  \/ \E j \in 1 .. Len(net[m]) : net'[m][i] = net[m][j]
             \/ up /\ m = Other(n) /\ net'[m][i] = [type |-> answer, live |-> TRUE]
  <2>1. CASE Live(n) /\ m = Other(n) /\ net'[m][i] = [type |-> answer, live |-> TRUE]
    BY <1>1, <2>1
  <2>2. CASE \E j \in 1 .. Len(Taken(n)[m]) : net'[m][i] = Taken(n)[m][j]
    BY <1>3, <2>2
  <2> QED
    BY <1>2, <2>1, <2>2
<1> QED
  BY <1>2, <1>4

LEMMA SendsStep ==
    ASSUME FundingInv, NEW n \in Nodes,
           NEW type \in {"open", "accept", "created", "signed", "locked", "error"},
           type \notin FlowTypes \/ NoFlow(net),
           net' = Extended(net, Other(n), [type |-> type, live |-> TRUE])
    PROVE  /\ net' \in [Nodes -> Seq(Message)] /\ Once(net')
           /\ \A m \in Nodes : \A i \in 1 .. Len(net'[m]) :
                 \/ \E j \in 1 .. Len(net[m]) : net'[m][i] = net[m][j]
                 \/ m = Other(n) /\ net'[m][i] = [type |-> type, live |-> TRUE]
<1> DEFINE msg == [type |-> type, live |-> TRUE]
           q == Extended(net, Other(n), msg)
<1>1. net \in [Nodes -> Seq(Message)] /\ Once(net) /\ Other(n) \in Nodes
  BY NodeFacts DEF FundingInv, TypeOK, MessageInv
<1>2. msg \in Message /\ msg.type = type
  BY DEF Message
<1> HIDE DEF msg
<1>3. /\ q \in [Nodes -> Seq(Message)]
      /\ \A m \in Nodes : \A i \in 1 .. Len(q[m]) :
            \/ m = Other(n) /\ q[m][i] = msg
            \/ i \in 1 .. Len(net[m]) /\ q[m][i] = net[m][i]
      /\ Once(net) /\ (msg.type \notin FlowTypes \/ NoFlow(net)) => Once(q)
  BY <1>1, <1>2, ExtendedFacts
<1>4. Once(q)
  BY <1>1, <1>2, <1>3
<1>5. net' = q
  BY DEF q, msg
<1> HIDE DEF q
<1> QED
  BY <1>3, <1>4, <1>5 DEF msg

\* What an error says of the state: nothing.
LEMMA ErrorOK ==
    ASSUME NEW n \in Nodes, up'
    PROVE  \E msg \in Message : msg = [type |-> "error", live |-> TRUE] /\ MessageOK(n, msg)'
<1> DEFINE m == [type |-> "error", live |-> TRUE]
<1>1. m \in Message /\ m.type = "error"
  BY DEF Message
<1>2. MessageOK(n, m)'
  BY <1>1 DEF MessageOK, FlowTypes
<1> QED
  BY <1>1, <1>2 DEF MessageOK

LEMMA StepHandleErrorMsg ==
    ASSUME FundingInv, NEW n \in Nodes, handleErrorMsg(n)
    PROVE  FundingInv'
<1>1. TypeOK /\ NodeOK(n) /\ (~up => LiveOK(n))
  BY DEF FundingInv, NodeInv, LiveInv
<1> DEFINE new == [mem[n] EXCEPT !.res = FALSE]
<1>2. /\ UNCHANGED <<disk, tx, age, request, up, ended, conn, odd, faults>>
      /\ Takes(n, "error") /\ net' = Taken(n) /\ mem' = [mem EXCEPT ![n] = new]
  BY <1>1 DEF handleErrorMsg, TypeOK
<1>3. /\ new \in Mem /\ new.coord = mem[n].coord /\ new.handler = mem[n].handler
      /\ new.fsm = mem[n].fsm /\ new.signal = mem[n].signal /\ ~new.res
  BY <1>1, MemFields DEF Mem
<1> HIDE DEF new
<1>4. /\ net' \in [Nodes -> Seq(Message)] /\ Once(net')
      /\ \A m \in Nodes : \A i \in 1 .. Len(net'[m]) :
            \E j \in 1 .. Len(net[m]) : net'[m][i] = net[m][j]
  BY <1>2, TakesStep
<1>5. /\ mem' \in [Nodes -> Mem] /\ mem'[n] = new
      /\ \A m \in Nodes : m # n => mem'[m] = mem[m]
  BY <1>1, <1>2, <1>3, MemStep
<1>6. NodeOK(n)' /\ (~up => LiveOK(n)')
  BY <1>1, <1>2, <1>3, <1>5, NodeFacts DEF NodeOK, LiveOK
<1>7. TypeOK'
  BY <1>1, <1>2, <1>4, <1>5 DEF TypeOK
<1> QED
  BY <1>2, <1>3, <1>4, <1>5, <1>6, <1>7, LocalStep

\* FundingLocked reached the node, so the other one has marked the channel open.
LEMMA StepHandleFundingLocked ==
    ASSUME FundingInv, NEW n \in Nodes, handleFundingLocked(n)
    PROVE  FundingInv'
<1>1. TypeOK /\ NodeOK(n) /\ (~up => LiveOK(n))
  BY DEF FundingInv, NodeInv, LiveInv
<1> DEFINE handler == IF mem[n].handler # Idle THEN mem[n].handler
                      ELSE [stage |-> "waiting", live |-> Live(n)]
           new == [mem[n] EXCEPT !.handler = handler]
<1>2. /\ UNCHANGED <<disk, tx, age, request, up, ended, conn, odd, faults>>
      /\ Takes(n, "locked") /\ net' = Taken(n) /\ mem' = [mem EXCEPT ![n] = new]
  BY <1>1 DEF handleFundingLocked, TypeOK
<1>3. /\ disk[Other(n)].chan = "open" /\ mem[n].coord.stage = "idle"
      /\ Live(n) \in BOOLEAN /\ (Live(n) => up)
  BY <1>2, HeadFacts DEF MessageOK
<1>4. /\ handler \in HandlerType /\ (handler.live => mem[n].handler.live \/ up)
      /\ handler.stage = "adding" => mem[n].handler.stage = "adding"
  BY <1>1, <1>3, MemFields DEF HandlerType
<1> HIDE DEF handler
<1>5. /\ new \in Mem /\ new.coord = mem[n].coord /\ new.handler = handler
      /\ new.fsm = mem[n].fsm /\ new.signal = mem[n].signal /\ new.res = mem[n].res
  BY <1>1, <1>4, MemFields DEF Mem, HandlerType
<1> HIDE DEF new
<1>6. /\ net' \in [Nodes -> Seq(Message)] /\ Once(net')
      /\ \A m \in Nodes : \A i \in 1 .. Len(net'[m]) :
            \E j \in 1 .. Len(net[m]) : net'[m][i] = net[m][j]
  BY <1>2, TakesStep
<1>7. /\ mem' \in [Nodes -> Mem] /\ mem'[n] = new
      /\ \A m \in Nodes : m # n => mem'[m] = mem[m]
  BY <1>1, <1>2, <1>5, MemStep
<1>8. NodeOK(n)' /\ (~up => LiveOK(n)')
  BY <1>1, <1>2, <1>3, <1>4, <1>5, <1>7, NodeFacts DEF NodeOK, LiveOK
<1>9. TypeOK'
  BY <1>1, <1>2, <1>6, <1>7 DEF TypeOK
<1> QED
  BY <1>2, <1>5, <1>6, <1>7, <1>8, <1>9, LocalStep

LEMMA StepPruneZombieReservations ==
    ASSUME FundingInv, NEW n \in Nodes, pruneZombieReservations(n)
    PROVE  FundingInv'
<1>1. TypeOK /\ NodeOK(n) /\ (~up => LiveOK(n)) /\ Once(net) /\ up \in BOOLEAN
  BY DEF FundingInv, NodeInv, LiveInv, MessageInv, TypeOK
<1> DEFINE new == [mem[n] EXCEPT !.res = FALSE]
<1>2. /\ UNCHANGED <<disk, tx, age, request, up, ended, conn, odd, faults>>
      /\ net' = Send(n, "error", up) /\ mem' = [mem EXCEPT ![n] = new]
  BY <1>1 DEF pruneZombieReservations, TypeOK
<1>3. /\ new \in Mem /\ new.coord = mem[n].coord /\ new.handler = mem[n].handler
      /\ new.fsm = mem[n].fsm /\ new.signal = mem[n].signal /\ ~new.res
  BY <1>1, MemFields DEF Mem
<1> HIDE DEF new
<1>4. /\ net' \in [Nodes -> Seq(Message)] /\ Once(net')
      /\ \A m \in Nodes : \A i \in 1 .. Len(net'[m]) :
            \/ \E j \in 1 .. Len(net[m]) : net'[m][i] = net[m][j]
            \/ up /\ m = Other(n) /\ net'[m][i] = [type |-> "error", live |-> TRUE]
  <2>1. "error" \notin FlowTypes
    BY DEF FlowTypes
  <2>2. CASE up
    <3>1. net' = Extended(net, Other(n), [type |-> "error", live |-> TRUE])
      BY <1>2, <2>2 DEF Send, Extended
    <3> QED
      BY <2>1, <2>2, <3>1, SendsStep
  <2>3. CASE ~up
    <3>1. net' = net
      BY <1>2, <2>3 DEF Send
    <3> QED
      BY <1>1, <3>1 DEF TypeOK
  <2> QED
    BY <2>2, <2>3
<1>5. /\ mem' \in [Nodes -> Mem] /\ mem'[n] = new
      /\ \A m \in Nodes : m # n => mem'[m] = mem[m]
  BY <1>1, <1>2, <1>3, MemStep
<1>6. NodeOK(n)' /\ (~up => LiveOK(n)')
  BY <1>1, <1>2, <1>3, <1>5, NodeFacts DEF NodeOK, LiveOK
<1>7. TypeOK'
  BY <1>1, <1>2, <1>4, <1>5 DEF TypeOK
<1>8. \A m \in Nodes : \A i \in 1 .. Len(net'[m]) :
         \/ \E j \in 1 .. Len(net[m]) : net'[m][i] = net[m][j]
         \/ \E msg \in Message : net'[m][i] = msg /\ MessageOK(m, msg)'
  BY <1>2, <1>4, ErrorOK
<1> QED
  BY <1>2, <1>3, <1>4, <1>5, <1>6, <1>7, <1>8, LocalStep

\* FundingLocked is sent by a node whose channel is open.
LEMMA LockedOK ==
    ASSUME NEW n \in Nodes, up', disk'[n].chan = "open"
    PROVE  \E msg \in Message : msg = [type |-> "locked", live |-> TRUE] /\ MessageOK(Other(n), msg)'
<1> DEFINE m == [type |-> "locked", live |-> TRUE]
<1>1. m \in Message /\ m.type = "locked"
  BY DEF Message
<1>2. MessageOK(Other(n), m)'
  BY <1>1, NodeFacts DEF MessageOK, FlowTypes
<1> QED
  BY <1>1, <1>2 DEF MessageOK

LEMMA StepSendFundingLocked ==
    ASSUME FundingInv, NEW n \in Nodes, SendFundingLocked(n)
    PROVE  FundingInv'
<1>1. TypeOK /\ NodeOK(n) /\ (~up => LiveOK(n))
  BY DEF FundingInv, NodeInv, LiveInv
<1> DEFINE new == [mem[n] EXCEPT !.fsm = "sending"]
<1>2. /\ UNCHANGED <<disk, tx, age, request, up, ended, conn, odd, faults>>
      /\ mem[n].fsm = "stepping" /\ up /\ mem' = [mem EXCEPT ![n] = new]
      /\ net' = Extended(net, Other(n), [type |-> "locked", live |-> TRUE])
  BY <1>1 DEF SendFundingLocked, TypeOK, Send, Extended
<1>3. /\ new \in Mem /\ new.coord = mem[n].coord /\ new.handler = mem[n].handler
      /\ new.fsm = "sending" /\ new.signal = mem[n].signal /\ new.res = mem[n].res
  BY <1>1, MemFields DEF Mem
<1> HIDE DEF new
<1>4. /\ net' \in [Nodes -> Seq(Message)] /\ Once(net')
      /\ \A m \in Nodes : \A i \in 1 .. Len(net'[m]) :
            \/ \E j \in 1 .. Len(net[m]) : net'[m][i] = net[m][j]
            \/ m = Other(n) /\ net'[m][i] = [type |-> "locked", live |-> TRUE]
  BY <1>2, SendsStep DEF FlowTypes
<1>5. /\ mem' \in [Nodes -> Mem] /\ mem'[n] = new
      /\ \A m \in Nodes : m # n => mem'[m] = mem[m]
  BY <1>1, <1>2, <1>3, MemStep
<1>6. NodeOK(n)' /\ disk'[n].chan = "open"
  BY <1>1, <1>2, <1>3, <1>5, NodeFacts DEF NodeOK
<1>7. TypeOK'
  BY <1>1, <1>2, <1>4, <1>5 DEF TypeOK
<1>8. \A m \in Nodes : \A i \in 1 .. Len(net'[m]) :
         \/ \E j \in 1 .. Len(net[m]) : net'[m][i] = net[m][j]
         \/ \E msg \in Message : net'[m][i] = msg /\ MessageOK(m, msg)'
  BY <1>2, <1>4, <1>6, LockedOK
<1> QED
  BY <1>2, <1>3, <1>4, <1>5, <1>6, <1>7, <1>8, LocalStep

LEMMA StepSyncChanStates ==
    ASSUME FundingInv, NEW n \in Nodes, syncChanStates(n)
    PROVE  FundingInv'
<1>1. TypeOK /\ NodeOK(n) /\ (~up => LiveOK(n)) /\ conn[n] \in Conn /\ Once(net)
  BY DEF FundingInv, NodeInv, LiveInv, TypeOK, MessageInv
<1> DEFINE new == [conn[n] EXCEPT !.link = "ready", !.reest = FALSE]
<1>2. /\ UNCHANGED <<disk, tx, age, request, mem, up, ended, odd, faults>>
      /\ conn[n].link = "syncing" /\ conn' = [conn EXCEPT ![n] = new]
  BY <1>1 DEF syncChanStates, TypeOK
<1>3. up /\ disk[n].chan = "open"
  BY <1>1, <1>2 DEF LiveOK, NodeOK
<1>4. net' = Extended(net, Other(n), [type |-> "locked", live |-> TRUE])
  BY <1>3 DEF syncChanStates, Send, Extended
<1>5. new \in Conn
  BY <1>1 DEF Conn
<1> HIDE DEF new
<1>6. conn' \in [Nodes -> Conn] /\ \A m \in Nodes : m # n => conn'[m] = conn[m]
  BY <1>1, <1>2, <1>5 DEF TypeOK
<1>7. /\ net' \in [Nodes -> Seq(Message)] /\ Once(net')
      /\ \A m \in Nodes : \A i \in 1 .. Len(net'[m]) :
            \/ \E j \in 1 .. Len(net[m]) : net'[m][i] = net[m][j]
            \/ m = Other(n) /\ net'[m][i] = [type |-> "locked", live |-> TRUE]
  BY <1>4, SendsStep DEF FlowTypes
<1>8. NodeOK(n)'
  BY <1>1, <1>2, <1>3 DEF NodeOK
<1>9. TypeOK'
  BY <1>1, <1>2, <1>6, <1>7 DEF TypeOK
<1>10. \A m \in Nodes : \A i \in 1 .. Len(net'[m]) :
         \/ \E j \in 1 .. Len(net[m]) : net'[m][i] = net[m][j]
         \/ \E msg \in Message : net'[m][i] = msg /\ MessageOK(m, msg)'
  BY <1>2, <1>3, <1>7, LockedOK
<1> QED
  BY <1>2, <1>3, <1>6, <1>7, <1>8, <1>9, <1>10, LocalStep

\* The first message of the flow: none is on its way before the request is taken.
LEMMA StepHandleInitFundingMsg ==
    ASSUME FundingInv, handleInitFundingMsg
    PROVE  FundingInv'
<1> DEFINE n == Initiator
           new == [mem[n] EXCEPT !.res = (request = "live")]
           msg == [type |-> "open", live |-> TRUE]
<1>1. /\ n \in Nodes /\ TypeOK /\ NodeOK(n) /\ (~up => LiveOK(n) /\ request # "live")
      /\ FlowInv /\ MessageInv
  BY NodeFacts DEF FundingInv, NodeInv, LiveInv
<1>2. /\ UNCHANGED <<disk, tx, age, up, ended, conn, odd, faults>>
      /\ request \in {"live", "dead"} /\ request' = "taken" /\ mem' = [mem EXCEPT ![n] = new]
  BY <1>1 DEF handleInitFundingMsg, TypeOK
<1>3. net' = IF request = "live" THEN Extended(net, Responder, msg) ELSE net
  BY NodeFacts DEF handleInitFundingMsg, Send, Extended
<1>4. /\ new \in Mem /\ new.coord = mem[n].coord /\ new.handler = mem[n].handler
      /\ new.fsm = mem[n].fsm /\ new.signal = mem[n].signal /\ (new.res => request = "live")
  BY <1>1, MemFields DEF Mem
<1> HIDE DEF new
<1>5. NoFlow(net) /\ Early
  BY <1>1, <1>2 DEF MessageInv, MessageOK, NoFlow, FlowInv
<1>6. /\ mem' \in [Nodes -> Mem] /\ mem'[n] = new
      /\ \A m \in Nodes : m # n => mem'[m] = mem[m]
  BY <1>1, <1>2, <1>4, MemStep
<1>7. /\ net' \in [Nodes -> Seq(Message)] /\ Once(net')
      /\ \A m \in Nodes : \A i \in 1 .. Len(net'[m]) :
            \/ \E j \in 1 .. Len(net[m]) : net'[m][i] = net[m][j]
            \/ up /\ m = Responder /\ net'[m][i] = msg
  <2>1. CASE request = "live"
    <3>1. net' = Extended(net, Other(n), [type |-> "open", live |-> TRUE])
      BY <1>3, <2>1, NodeFacts
    <3> QED
      BY <1>1, <1>5, <2>1, <3>1, NodeFacts, SendsStep
  <2>2. CASE request # "live"
    <3>1. net' = net
      BY <1>3, <2>2
    <3> QED
      BY <1>1, <3>1 DEF TypeOK, MessageInv
  <2> QED
    BY <2>1, <2>2
<1>8. Early'
  BY <1>2, <1>5, <1>6, NodeFacts DEF Early
<1>9. up => MessageOK(Responder, msg)' /\ msg \in Message
  BY <1>2, <1>8, NodeFacts DEF MessageOK, FlowTypes, Message
<1>10. NodeOK(n)' /\ (~up => LiveOK(n)')
  BY <1>1, <1>2, <1>4, <1>6, NodeFacts DEF NodeOK, LiveOK
<1>11. TypeOK'
  BY <1>1, <1>2, <1>6, <1>7 DEF TypeOK
<1>12. \A m \in Nodes : \A i \in 1 .. Len(net'[m]) :
         \/ \E j \in 1 .. Len(net[m]) : net'[m][i] = net[m][j]
         \/ \E e \in Message : net'[m][i] = e /\ MessageOK(m, e)'
  <2> HIDE DEF msg
  <2>1. ASSUME up PROVE \E e \in Message : msg = e /\ MessageOK(Responder, e)'
    BY <1>9, <2>1 DEF MessageOK, msg
  <2> QED
    BY <1>7, <2>1
<1> HIDE DEF n
<1> QED
  BY <1>1, <1>2, <1>4, <1>6, <1>7, <1>10, <1>11, <1>12, LocalStep

\* A message is taken and comes to nothing: the flow ends here, and the peer may be told.
LEMMA RefuseStep ==
    ASSUME FundingInv, NEW n \in Nodes, NEW type, Takes(n, type),
           UNCHANGED <<disk, tx, age, request, up, ended, conn, odd, faults>>,
           NEW new \in Mem, mem' = [mem EXCEPT ![n] = new],
           new.coord = mem[n].coord, new.handler = mem[n].handler, new.fsm = mem[n].fsm,
           new.signal \in {mem[n].signal, "open"}, new.res => mem[n].res,
           net' = Taken(n) \/ net' = Reply(n, "error")
    PROVE  FundingInv'
<1>1. TypeOK /\ NodeOK(n) /\ (~up => LiveOK(n))
  BY DEF FundingInv, NodeInv, LiveInv
<1>2. /\ net' \in [Nodes -> Seq(Message)] /\ Once(net')
      /\ \A m \in Nodes : \A i \in 1 .. Len(net'[m]) :
            \/ \E j \in 1 .. Len(net[m]) : net'[m][i] = net[m][j]
            \/ up /\ m = Other(n) /\ net'[m][i] = [type |-> "error", live |-> TRUE]
  <2>1. CASE net' = Taken(n)
    BY <2>1, TakesStep
  <2>2. CASE net' = Reply(n, "error")
    BY <2>2, RepliesStep DEF FlowTypes
  <2> QED
    BY <2>1, <2>2
<1>3. /\ mem' \in [Nodes -> Mem] /\ mem'[n] = new
      /\ \A m \in Nodes : m # n => mem'[m] = mem[m]
  BY <1>1, MemStep
<1>4. NodeOK(n)' /\ (~up => LiveOK(n)')
  BY <1>1, <1>3, NodeFacts DEF NodeOK, LiveOK
<1>5. TypeOK'
  BY <1>1, <1>2, <1>3 DEF TypeOK
<1>6. \A m \in Nodes : \A i \in 1 .. Len(net'[m]) :
         \/ \E j \in 1 .. Len(net[m]) : net'[m][i] = net[m][j]
         \/ \E msg \in Message : net'[m][i] = msg /\ MessageOK(m, msg)'
  BY <1>2, ErrorOK
<1> QED
  BY <1>2, <1>3, <1>4, <1>5, <1>6, LocalStep

\* A message of the flow is answered by the next one, before anything is stored.
LEMMA AnswerStep ==
    ASSUME FundingInv, NEW n \in Nodes, NEW type \in FlowTypes, Takes(n, type),
           UNCHANGED <<disk, tx, age, request, up, ended, conn, odd, faults>>,
           NEW new \in Mem, mem' = [mem EXCEPT ![n] = new],
           new.coord = mem[n].coord, new.handler = mem[n].handler, new.fsm = mem[n].fsm,
           new.signal = mem[n].signal, new.res => mem[n].res \/ up, Early,
           NEW answer \in {"accept", "created"}, net' = Reply(n, answer),
           answer = "accept" => n = Responder, answer = "created" => n = Initiator
    PROVE  FundingInv'
<1>1. TypeOK /\ NodeOK(n) /\ (~up => LiveOK(n))
  BY DEF FundingInv, NodeInv, LiveInv
<1>2. /\ net' \in [Nodes -> Seq(Message)] /\ Once(net')
      /\ \A m \in Nodes : \A i \in 1 .. Len(net'[m]) :
            \/ \E j \in 1 .. Len(net[m]) : net'[m][i] = net[m][j]
            \/ up /\ m = Other(n) /\ net'[m][i] = [type |-> answer, live |-> TRUE]
  <2>1. answer \in {"open", "accept", "created", "signed", "locked", "error"}
    OBVIOUS
  <2>2. answer \notin FlowTypes \/ type \in FlowTypes
    OBVIOUS
  <2>3. CASE answer = "accept"
    BY <2>1, <2>2, <2>3, RepliesStep
  <2>4. CASE answer = "created"
    BY <2>1, <2>2, <2>4, RepliesStep
  <2> QED
    BY <2>3, <2>4
<1>3. /\ mem' \in [Nodes -> Mem] /\ mem'[n] = new
      /\ \A m \in Nodes : m # n => mem'[m] = mem[m]
  BY <1>1, MemStep
<1>4. NodeOK(n)' /\ (~up => LiveOK(n)')
  BY <1>1, <1>3, NodeFacts DEF NodeOK, LiveOK
<1>5. TypeOK'
  BY <1>1, <1>2, <1>3 DEF TypeOK
<1>6. Early'
  BY <1>3, NodeFacts DEF Early
<1>7. request' = "taken"
  BY HeadFacts DEF MessageOK
<1> DEFINE m0 == [type |-> answer, live |-> TRUE]
<1>8. m0 \in Message /\ m0.type = answer
  BY DEF Message
<1> HIDE DEF m0
<1>9. ASSUME up PROVE \E msg \in Message : m0 = msg /\ MessageOK(Other(n), msg)'
  <2>1. PICK msg \in Message : msg = m0
    BY <1>8
  <2>2. CASE answer = "accept"
    BY <1>6, <1>7, <1>8, <1>9, <2>1, <2>2, NodeFacts DEF MessageOK
  <2>3. CASE answer = "created"
    BY <1>6, <1>7, <1>8, <1>9, <2>1, <2>3, NodeFacts DEF MessageOK
  <2> QED
    BY <2>2, <2>3
<1>10. \A m \in Nodes : \A i \in 1 .. Len(net'[m]) :
         \/ \E j \in 1 .. Len(net[m]) : net'[m][i] = net[m][j]
         \/ \E msg \in Message : net'[m][i] = msg /\ MessageOK(m, msg)'
  BY <1>2, <1>9 DEF m0
<1> QED
  BY <1>2, <1>3, <1>4, <1>5, <1>10, LocalStep

LEMMA StepHandleFundingOpen ==
    ASSUME FundingInv, NEW accepts \in BOOLEAN, handleFundingOpen(accepts)
    PROVE  FundingInv'
<1> DEFINE n == Responder
           yes == [mem[n] EXCEPT !.res = TRUE]
           no == [mem[n] EXCEPT !.res = FALSE]
<1>1. n \in Nodes /\ TypeOK
  BY NodeFacts DEF FundingInv
<1>2. /\ UNCHANGED <<disk, tx, age, request, up, ended, conn, odd, faults>>
      /\ Takes(n, "open")
      /\ \/ Live(n) /\ mem' = [mem EXCEPT ![n] = yes] /\ net' = Reply(n, "accept")
         \/ mem' = [mem EXCEPT ![n] = no] /\ net' = Reply(n, "error")
  BY <1>1 DEF handleFundingOpen, failFundingFlow, TypeOK
<1>3. /\ yes \in Mem /\ yes.coord = mem[n].coord /\ yes.handler = mem[n].handler
      /\ yes.fsm = mem[n].fsm /\ yes.signal = mem[n].signal
  BY <1>1, MemFields DEF Mem
<1>4. /\ no \in Mem /\ no.coord = mem[n].coord /\ no.handler = mem[n].handler
      /\ no.fsm = mem[n].fsm /\ no.signal = mem[n].signal /\ ~no.res
  BY <1>1, MemFields DEF Mem
<1>5. Early /\ (Live(n) => up)
  BY <1>1, <1>2, HeadFacts DEF MessageOK
<1> HIDE DEF yes, no
<1>6. CASE Live(n) /\ mem' = [mem EXCEPT ![n] = yes] /\ net' = Reply(n, "accept")
  BY <1>1, <1>2, <1>3, <1>5, <1>6, AnswerStep DEF FlowTypes
<1>7. CASE mem' = [mem EXCEPT ![n] = no] /\ net' = Reply(n, "error")
  BY <1>1, <1>2, <1>4, <1>7, RefuseStep
<1> QED
  BY <1>2, <1>6, <1>7

LEMMA StepHandleFundingAccept ==
    ASSUME FundingInv, NEW accepts \in BOOLEAN, handleFundingAccept(accepts)
    PROVE  FundingInv'
<1> DEFINE n == Initiator
           yes == [mem[n] EXCEPT !.signed = TRUE, !.res = Live(n)]
           no == [mem[n] EXCEPT !.res = FALSE]
<1>1. n \in Nodes /\ TypeOK
  BY NodeFacts DEF FundingInv
<1>2. /\ UNCHANGED <<disk, tx, age, request, up, ended, conn, odd, faults>>
      /\ Takes(n, "accept")
      /\ \/ mem' = mem /\ net' = Taken(n)
         \/ mem' = [mem EXCEPT ![n] = no] /\ net' = Reply(n, "error")
         \/ mem[n].res /\ mem' = [mem EXCEPT ![n] = yes] /\ net' = Reply(n, "created")
  BY <1>1 DEF handleFundingAccept, failFundingFlow, TypeOK
<1>5. Early /\ (Live(n) => up) /\ Live(n) \in BOOLEAN
  BY <1>1, <1>2, HeadFacts DEF MessageOK
<1>3. /\ yes \in Mem /\ yes.coord = mem[n].coord /\ yes.handler = mem[n].handler
      /\ yes.fsm = mem[n].fsm /\ yes.signal = mem[n].signal
  BY <1>1, <1>5, MemFields DEF Mem
<1>4. /\ no \in Mem /\ no.coord = mem[n].coord /\ no.handler = mem[n].handler
      /\ no.fsm = mem[n].fsm /\ no.signal = mem[n].signal /\ ~no.res
  BY <1>1, MemFields DEF Mem
<1> HIDE DEF yes, no
<1>6. CASE mem[n].res /\ mem' = [mem EXCEPT ![n] = yes] /\ net' = Reply(n, "created")
  BY <1>1, <1>2, <1>3, <1>5, <1>6, AnswerStep DEF FlowTypes
<1>7. CASE mem' = [mem EXCEPT ![n] = no] /\ net' = Reply(n, "error")
  BY <1>1, <1>2, <1>4, <1>7, RefuseStep
<1>8. CASE mem' = mem /\ net' = Taken(n)
  <2>1. mem' = [mem EXCEPT ![n] = mem[n]] /\ mem[n] \in Mem
    BY <1>1, <1>8 DEF TypeOK
  <2> QED
    BY <1>1, <1>2, <1>8, <2>1, RefuseStep
<1> QED
  BY <1>2, <1>6, <1>7, <1>8
-----------------------------------------------------------------------------
(* Steps that change the channel of a database, the request or the connection. *)

LEMMA StepOpenChannel ==
    ASSUME FundingInv, OpenChannel
    PROVE  FundingInv'
<1>1. TypeOK /\ LiveInv /\ NodeInv /\ FlowInv /\ MessageInv
  BY DEF FundingInv
<1>2. /\ request = "none" /\ up /\ request' = "live"
      /\ UNCHANGED <<disk, tx, age, mem, net, up, ended, conn, odd, faults>>
  BY DEF OpenChannel
<1>3. TypeOK'
  BY <1>1, <1>2 DEF TypeOK
<1>4. LiveInv' /\ NodeInv'
  BY <1>1, <1>2 DEF LiveInv, NodeInv, NodeOK
<1>5. FlowInv'
  BY <1>1, <1>2 DEF FlowInv, Early, Remembered
<1>6. \A n \in Nodes : \A msg \in Message : MessageOK(n, msg) => MessageOK(n, msg)'
  BY <1>2 DEF MessageOK, Early, Remembered
<1>7. MessageInv'
  BY <1>1, <1>2, <1>6, MessagesSame
<1> QED
  BY <1>3, <1>4, <1>5, <1>7 DEF FundingInv

\* The responder stores the channel: the initiator has not stored it, and the message
\* that is taken was the only one of the flow.
LEMMA StoreResponder ==
    ASSUME FundingInv, Takes(Responder, "created"),
           UNCHANGED <<tx, request, up, ended, conn, odd, faults>>,
           disk' = [disk EXCEPT ![Responder].chan = "pending"], age' = 0,
           NEW new \in Mem, mem' = [mem EXCEPT ![Responder] = new],
           new.coord.stage = "signing", new.coord.live => up,
           new.handler = mem[Responder].handler, new.fsm = mem[Responder].fsm, ~new.res,
           net' = Taken(Responder)
    PROVE  FundingInv'
<1> DEFINE n == Responder
<1>1. n \in Nodes /\ TypeOK /\ LiveInv /\ NodeInv /\ FlowInv /\ MessageInv
  BY NodeFacts DEF FundingInv
<1>2. Early /\ n \in Nodes /\ request = "taken"
  BY <1>1, HeadFacts DEF MessageOK, FlowTypes
<1>3. NodeOK(Initiator) /\ NodeOK(Responder)
  BY <1>1, NodeFacts DEF NodeInv
<1>4. /\ net' \in [Nodes -> Seq(Message)] /\ Once(net')
      /\ \A m \in Nodes : \A i \in 1 .. Len(net'[m]) :
            \E j \in 1 .. Len(net[m]) : net'[m][i] = net[m][j]
      /\ NoFlow(net')
  BY <1>1, TakesStep DEF FlowTypes
<1>5. /\ mem' \in [Nodes -> Mem] /\ mem'[n] = new /\ mem'[Initiator] = mem[Initiator]
  BY <1>1, MemStep, NodeFacts
<1>6. /\ disk' \in [Nodes -> Disk] /\ disk'[n].chan = "pending"
      /\ disk'[Initiator] = disk[Initiator]
  <2> DEFINE d == [disk[n] EXCEPT !.chan = "pending"]
  <2>1. Initiator \in Nodes /\ Initiator # n /\ disk \in [Nodes -> Disk]
    BY <1>1, NodeFacts DEF TypeOK
  <2>2. disk' = [disk EXCEPT ![n] = d]
    BY <1>1, <2>1
  <2>3. d \in Disk /\ d.chan = "pending"
    BY <1>1, <2>1 DEF Disk
  <2> HIDE DEF n, d
  <2> QED
    BY <1>1, <2>1, <2>2, <2>3
<1>7. TypeOK'
  BY <1>1, <1>4, <1>5, <1>6, FundingAssumption DEF TypeOK
<1>8. LiveInv'
  BY <1>1, <1>5, NodeFacts DEF LiveInv, LiveOK
<1>9. mem[n].fsm = "none" /\ mem[n].handler.stage = "idle" /\ conn[n].link = "none"
  BY <1>1, <1>2, <1>3, MemFields, NodeFacts DEF NodeOK, Early
<1>10. NodeInv'
  <2>1. NodeOK(n)'
    BY <1>2, <1>5, <1>6, <1>9, NodeFacts DEF NodeOK
  <2>2. NodeOK(Initiator)'
    BY <1>1, <1>2, <1>3, <1>5, <1>6, NodeFacts DEF NodeOK, Early
  <2> QED
    BY <2>1, <2>2, NodeFacts DEF NodeInv
<1>11. FlowInv'
  BY <1>1, <1>2, <1>5, <1>6, NodeFacts DEF FlowInv, Early, Remembered
<1>12. \A m \in Nodes : \A msg \in Message :
          MessageOK(m, msg) /\ msg.type \notin FlowTypes => MessageOK(m, msg)'
  <2> SUFFICES ASSUME NEW m \in Nodes, NEW msg \in Message, MessageOK(m, msg),
                      msg.type \notin FlowTypes
               PROVE  MessageOK(m, msg)'
    OBVIOUS
  <2>1. disk[Other(m)].chan = "open" => disk'[Other(m)].chan = "open"
    BY <1>2, <1>6, NodeFacts DEF Early
  <2> QED
    BY <2>1 DEF MessageOK, FlowTypes
<1>13. MessageInv'
  BY <1>1, <1>4, <1>12, MessagesKept
<1> QED
  BY <1>7, <1>8, <1>10, <1>11, <1>13 DEF FundingInv

LEMMA StepHandleFundingCreated ==
    ASSUME FundingInv, NEW valid \in BOOLEAN, handleFundingCreated(valid)
    PROVE  FundingInv'
<1> DEFINE n == Responder
           yes == [mem[n] EXCEPT !.res = FALSE, !.coord = [stage |-> "signing", live |-> Live(n)]]
           no == [mem[n] EXCEPT !.res = FALSE]
<1>1. n \in Nodes /\ TypeOK
  BY NodeFacts DEF FundingInv
<1>2. /\ UNCHANGED <<tx, request, up, ended, conn, odd, faults>>
      /\ Takes(n, "created")
      /\ \/ net' = Taken(n) /\ UNCHANGED <<disk, age, mem>>
         \/ /\ mem' = [mem EXCEPT ![n] = no] /\ net' = Reply(n, "error")
            /\ UNCHANGED <<disk, age>>
         \/ /\ mem' = [mem EXCEPT ![n] = yes] /\ net' = Taken(n) /\ age' = 0
            /\ disk' = [disk EXCEPT ![n].chan = "pending"]
  BY <1>1 DEF handleFundingCreated, failFundingFlow, TypeOK
<1>5. (Live(n) => up) /\ Live(n) \in BOOLEAN
  BY <1>1, <1>2, HeadFacts
<1>3. /\ yes \in Mem /\ yes.coord.stage = "signing" /\ (yes.coord.live => up)
      /\ yes.handler = mem[n].handler /\ yes.fsm = mem[n].fsm /\ ~yes.res
  BY <1>1, <1>5, MemFields DEF Mem, HandlerType
<1>4. /\ no \in Mem /\ no.coord = mem[n].coord /\ no.handler = mem[n].handler
      /\ no.fsm = mem[n].fsm /\ no.signal = mem[n].signal /\ ~no.res
  BY <1>1, MemFields DEF Mem
<1> HIDE DEF yes, no
<1>6. CASE /\ mem' = [mem EXCEPT ![n] = yes] /\ net' = Taken(n) /\ age' = 0
           /\ disk' = [disk EXCEPT ![n].chan = "pending"]
  BY <1>2, <1>3, <1>6, StoreResponder
<1>7. CASE /\ mem' = [mem EXCEPT ![n] = no] /\ net' = Reply(n, "error")
           /\ UNCHANGED <<disk, age>>
  BY <1>1, <1>2, <1>4, <1>7, RefuseStep
<1>8. CASE net' = Taken(n) /\ UNCHANGED <<disk, age, mem>>
  <2>1. mem' = [mem EXCEPT ![n] = mem[n]] /\ mem[n] \in Mem
    BY <1>1, <1>8 DEF TypeOK
  <2> QED
    BY <1>1, <1>2, <1>8, <2>1, RefuseStep
<1> QED
  BY <1>2, <1>6, <1>7, <1>8

\* The responder forgets a pending channel: the initiator has stored nothing, or the
\* race has a name.
LEMMA ForgetStep ==
    ASSUME FundingInv, UNCHANGED <<tx, age, request, net, up, ended, conn, faults>>,
           disk[Responder].chan = "pending",
           disk' = [disk EXCEPT ![Responder].chan = "canceled"],
           NEW new \in Mem, mem' = [mem EXCEPT ![Responder] = new],
           new.coord.stage = "idle", new.coord.live => mem[Responder].coord.live,
           new.handler = mem[Responder].handler, new.fsm = "none",
           new.res = mem[Responder].res,
           odd \subseteq odd', odd' \subseteq {"unsure", "timedOut", "late"},
           \/ mem[Responder].coord.stage = "signing"
           \/ odd' \intersect {"timedOut", "unsure"} # {}
    PROVE  FundingInv'
<1> DEFINE n == Responder
           d == [disk[n] EXCEPT !.chan = "canceled"]
<1>1. n \in Nodes /\ TypeOK /\ LiveInv /\ NodeInv /\ FlowInv /\ MessageInv
  BY NodeFacts DEF FundingInv
<1>2. NodeOK(Initiator) /\ NodeOK(Responder) /\ Initiator \in Nodes /\ Initiator # n
  BY <1>1, NodeFacts DEF NodeInv
<1>3. disk' = [disk EXCEPT ![n] = d]
  BY <1>1 DEF TypeOK
<1>4. d \in Disk /\ d.chan = "canceled"
  BY <1>1 DEF TypeOK, Disk
<1>5. /\ disk' \in [Nodes -> Disk] /\ disk'[n].chan = "canceled"
      /\ disk'[Initiator] = disk[Initiator]
  <2> HIDE DEF n, d
  <2> QED
    BY <1>1, <1>2, <1>3, <1>4 DEF TypeOK
<1>6. mem' \in [Nodes -> Mem] /\ mem'[n] = new /\ mem'[Initiator] = mem[Initiator]
  BY <1>1, <1>2, MemStep
<1>7. TypeOK'
  BY <1>1, <1>5, <1>6 DEF TypeOK
<1>8. LiveInv'
  BY <1>1, <1>6, NodeFacts DEF LiveInv, LiveOK
<1>9. conn[n].link = "none" /\ mem[n].handler.stage # "adding" /\ mem[Initiator].handler.stage = "idle"
  BY <1>2, NodeFacts DEF NodeOK
<1>10. NodeInv'
  <2>1. NodeOK(n)'
    BY <1>2, <1>5, <1>6, <1>9, NodeFacts DEF NodeOK
  <2>2. NodeOK(Initiator)'
    BY <1>2, <1>5, <1>6, <1>9, NodeFacts DEF NodeOK
  <2> QED
    BY <2>1, <2>2, NodeFacts DEF NodeInv
<1>11. request = "taken" /\ (disk[Initiator].chan # "none" => Remembered')
  BY <1>1, <1>5 DEF FlowInv, Early, Remembered
<1>12. FlowInv'
  BY <1>1, <1>5, <1>6, <1>11 DEF FlowInv
<1>13. \A m \in Nodes : \A msg \in Message : MessageOK(m, msg) => MessageOK(m, msg)'
  <2> SUFFICES ASSUME NEW m \in Nodes, NEW msg \in Message, MessageOK(m, msg)
               PROVE  MessageOK(m, msg)'
    OBVIOUS
  <2>1. disk[Other(m)].chan = "open" => disk'[Other(m)].chan = "open"
    BY <1>5, NodeFacts
  <2>2. msg.type \notin {"open", "accept", "created"}
    BY DEF MessageOK, Early
  <2>3. msg.type = "signed" => Remembered'
    BY DEF MessageOK, Remembered
  <2> QED
    BY <1>5, <1>6, <2>1, <2>2, <2>3 DEF MessageOK, FlowTypes
<1>14. MessageInv'
  BY <1>1, <1>13, MessagesSame
<1> QED
  BY <1>7, <1>8, <1>10, <1>12, <1>14 DEF FundingInv

LEMMA StepFundingSignedFails ==
    ASSUME FundingInv, FundingSignedFails
    PROVE  FundingInv'
<1> DEFINE n == Responder
           new == [mem[n] EXCEPT !.coord = Idle]
<1>1. n \in Nodes /\ TypeOK /\ NodeOK(n)
  BY NodeFacts DEF FundingInv, NodeInv
<1>2. /\ UNCHANGED <<tx, age, request, net, up, ended, conn, faults>>
      /\ mem[n].coord.stage \in {"signing", "signed"}
      /\ disk' = [disk EXCEPT ![n].chan = "canceled"] /\ mem' = [mem EXCEPT ![n] = new]
      /\ odd' = odd \union (IF mem[n].coord.stage = "signed" THEN {"unsure"} ELSE {})
  BY <1>1 DEF FundingSignedFails, TypeOK
<1>3. /\ new \in Mem /\ new.coord.stage = "idle" /\ ~new.coord.live
      /\ new.handler = mem[n].handler /\ new.fsm = mem[n].fsm /\ new.res = mem[n].res
  BY <1>1, MemFields DEF Mem, Idle, HandlerType
<1>4. disk[n].chan = "pending" /\ mem[n].fsm = "none"
  BY <1>1, <1>2 DEF NodeOK
<1>5. /\ odd \subseteq odd' /\ odd' \subseteq {"unsure", "timedOut", "late"}
      /\ mem[n].coord.stage = "signing" \/ odd' \intersect {"timedOut", "unsure"} # {}
  <2>1. CASE mem[n].coord.stage = "signed"
    BY <1>1, <1>2, <2>1 DEF TypeOK
  <2>2. CASE mem[n].coord.stage = "signing"
    BY <1>1, <1>2, <2>2 DEF TypeOK
  <2> QED
    BY <1>2, <2>1, <2>2
<1> HIDE DEF new
<1> QED
  BY <1>2, <1>3, <1>4, <1>5, ForgetStep

LEMMA StepFundingTimeout ==
    ASSUME FundingInv, FundingTimeout
    PROVE  FundingInv'
<1> DEFINE n == Responder
           new == [mem[n] EXCEPT !.fsm = "none"]
<1>1. n \in Nodes /\ TypeOK /\ NodeOK(n)
  BY NodeFacts DEF FundingInv, NodeInv
<1>2. /\ UNCHANGED <<tx, age, request, net, up, ended, conn, faults>>
      /\ mem[n].fsm = "waiting" /\ odd' = odd \union {"timedOut"}
      /\ disk' = [disk EXCEPT ![n].chan = "canceled"] /\ mem' = [mem EXCEPT ![n] = new]
  BY <1>1 DEF FundingTimeout, TypeOK
<1>3. /\ new \in Mem /\ new.coord = mem[n].coord
      /\ new.handler = mem[n].handler /\ new.fsm = "none" /\ new.res = mem[n].res
  BY <1>1, MemFields DEF Mem
<1>4. disk[n].chan = "pending" /\ mem[n].coord.stage = "idle"
  BY <1>1, <1>2, MemFields, NodeFacts DEF NodeOK
<1>5. /\ odd \subseteq odd' /\ odd' \subseteq {"unsure", "timedOut", "late"}
      /\ odd' \intersect {"timedOut", "unsure"} # {}
  BY <1>1, <1>2 DEF TypeOK
<1> HIDE DEF new
<1> QED
  BY <1>2, <1>3, <1>4, <1>5, ForgetStep

\* The signature goes out only after the channel is stored.
LEMMA StepSendFundingSigned ==
    ASSUME FundingInv, SendFundingSigned
    PROVE  FundingInv'
<1> DEFINE n == Responder
           coord == [mem[n].coord EXCEPT !.stage = "signed"]
           new == [mem[n] EXCEPT !.coord = coord]
           m0 == [type |-> "signed", live |-> TRUE]
<1>1. n \in Nodes /\ TypeOK /\ LiveInv /\ NodeInv /\ FlowInv /\ MessageInv
  BY NodeFacts DEF FundingInv
<1>2. NodeOK(Initiator) /\ NodeOK(Responder) /\ Initiator \in Nodes /\ Initiator # n
  BY <1>1, NodeFacts DEF NodeInv
<1>3. /\ UNCHANGED <<disk, tx, age, request, up, ended, conn, odd, faults>>
      /\ mem[n].coord.stage = "signing" /\ mem[n].coord.live
      /\ net' = Extended(net, Other(n), m0)
  BY DEF SendFundingSigned, Send, Extended
<1>4. mem' = [mem EXCEPT ![n] = new]
  BY <1>1 DEF SendFundingSigned, TypeOK
<1>5. /\ new \in Mem /\ new.coord.stage = "signed" /\ new.signal = mem[n].signal
      /\ new.handler = mem[n].handler /\ new.fsm = mem[n].fsm /\ new.res = mem[n].res
  <2>1. coord \in CoordType /\ coord.stage = "signed"
    BY <1>1, MemFields DEF CoordType
  <2> HIDE DEF coord
  <2> QED
    BY <1>1, <2>1, MemFields DEF Mem, CoordType, HandlerType
<1>6. up /\ disk[n].chan = "pending" /\ disk[Initiator].chan = "none"
      /\ NoFlow(net) /\ request = "taken"
  <2>1. up /\ disk[n].chan = "pending" /\ disk[Initiator].chan = "none"
    BY <1>1, <1>2, <1>3 DEF LiveInv, LiveOK, NodeOK, FlowInv
  <2>2. \A m \in Nodes : \A i \in 1 .. Len(net[m]) : MessageOK(m, net[m][i])
    BY <1>1 DEF MessageInv
  <2>3. NoFlow(net)
    BY <1>3, <2>2 DEF NoFlow, MessageOK, FlowTypes, Early
  <2>4. request = "taken"
    BY <1>1, <1>3 DEF FlowInv, Early
  <2> QED
    BY <2>1, <2>3, <2>4
<1> HIDE DEF new
<1>7. /\ net' \in [Nodes -> Seq(Message)] /\ Once(net')
      /\ \A m \in Nodes : \A i \in 1 .. Len(net'[m]) :
            \/ \E j \in 1 .. Len(net[m]) : net'[m][i] = net[m][j]
            \/ m = Other(n) /\ net'[m][i] = m0
  BY <1>1, <1>3, <1>6, SendsStep
<1>8. mem' \in [Nodes -> Mem] /\ mem'[n] = new /\ mem'[Initiator] = mem[Initiator]
  BY <1>1, <1>2, <1>4, <1>5, MemStep
<1>9. TypeOK'
  BY <1>1, <1>3, <1>7, <1>8 DEF TypeOK
<1>10. LiveInv'
  BY <1>1, <1>3, <1>6 DEF LiveInv
<1>11. NodeInv'
  <2>1. NodeOK(n)'
    BY <1>2, <1>3, <1>5, <1>8, NodeFacts DEF NodeOK
  <2>2. NodeOK(Initiator)'
    BY <1>2, <1>3, <1>8, NodeFacts, OtherNode
  <2> QED
    BY <2>1, <2>2, NodeFacts DEF NodeInv
<1>12. FlowInv'
  BY <1>1, <1>3, <1>5, <1>6, <1>8 DEF FlowInv, Remembered
<1>13. \A m \in Nodes : \A msg \in Message :
          MessageOK(m, msg) /\ msg.type \notin FlowTypes => MessageOK(m, msg)'
  BY <1>3 DEF MessageOK, FlowTypes
<1>14. \E msg \in Message : m0 = msg /\ MessageOK(Initiator, msg)'
  <2>1. m0 \in Message /\ m0.type = "signed"
    BY DEF Message
  <2> HIDE DEF m0
  <2>2. PICK msg \in Message : msg = m0
    BY <2>1
  <2>3. MessageOK(Initiator, msg)'
    BY <1>3, <1>5, <1>6, <1>8, <2>1, <2>2 DEF MessageOK, Remembered
  <2> QED
    BY <2>2, <2>3
<1>15. MessageInv'
  <2>1. \A m \in Nodes : \A msg \in Message : MessageOK(m, msg) => MessageOK(m, msg)'
    BY <1>3, <1>6, <1>13 DEF MessageOK, FlowTypes, Early
  <2>2. \A m \in Nodes : \A i \in 1 .. Len(net'[m]) :
           \/ \E j \in 1 .. Len(net[m]) : net'[m][i] = net[m][j]
           \/ \E msg \in Message : net'[m][i] = msg /\ MessageOK(m, msg)'
    <3> HIDE DEF m0, n
    <3> QED
      BY <1>7, <1>14, NodeFacts DEF n
  <2> QED
    BY <1>1, <1>7, <2>1, <2>2, MessagesKept
<1> QED
  BY <1>9, <1>10, <1>11, <1>12, <1>15 DEF FundingInv

\* The initiator stores the channel when it takes the signature: the responder has
\* stored it, and the message was the only one of the flow.
LEMMA StoreInitiator ==
    ASSUME FundingInv, Takes(Initiator, "signed"),
           UNCHANGED <<tx, age, request, up, ended, conn, odd, faults>>,
           disk' = [disk EXCEPT ![Initiator].chan = "pending"],
           NEW new \in Mem, mem' = [mem EXCEPT ![Initiator] = new],
           new.coord.stage = "publishing", new.coord.live => up, new.signal = "open",
           new.handler = mem[Initiator].handler, new.fsm = mem[Initiator].fsm, ~new.res,
           net' = Taken(Initiator)
    PROVE  FundingInv'
<1> DEFINE n == Initiator
           d == [disk[n] EXCEPT !.chan = "pending"]
<1>1. n \in Nodes /\ TypeOK /\ LiveInv /\ NodeInv /\ FlowInv /\ MessageInv
  BY NodeFacts DEF FundingInv
<1>2. NodeOK(Initiator) /\ NodeOK(Responder) /\ Responder \in Nodes /\ Responder # n
  BY <1>1, NodeFacts DEF NodeInv
<1>3. /\ disk[n].chan = "none" /\ mem[Responder].coord.stage # "signing"
      /\ Remembered /\ request = "taken"
  BY <1>1, HeadFacts DEF MessageOK, FlowTypes
<1>4. /\ net' \in [Nodes -> Seq(Message)] /\ Once(net')
      /\ \A m \in Nodes : \A i \in 1 .. Len(net'[m]) :
            \E j \in 1 .. Len(net[m]) : net'[m][i] = net[m][j]
      /\ NoFlow(net')
  BY <1>1, TakesStep DEF FlowTypes
<1>5. disk' = [disk EXCEPT ![n] = d] /\ d \in Disk /\ d.chan = "pending"
  BY <1>1 DEF TypeOK, Disk
<1>6. /\ disk' \in [Nodes -> Disk] /\ disk'[n].chan = "pending"
      /\ disk'[Responder] = disk[Responder]
  <2> HIDE DEF n, d
  <2> QED
    BY <1>1, <1>2, <1>5 DEF TypeOK
<1>7. mem' \in [Nodes -> Mem] /\ mem'[n] = new /\ mem'[Responder] = mem[Responder]
  BY <1>1, <1>2, MemStep
<1>8. TypeOK'
  BY <1>1, <1>4, <1>6, <1>7 DEF TypeOK
<1>9. LiveInv'
  BY <1>1, <1>7, NodeFacts DEF LiveInv, LiveOK
<1>10. NodeInv'
  <2>3. /\ mem[n].fsm = "none" /\ mem[n].handler.stage # "adding" /\ conn[n].link = "none"
        /\ mem[Responder].handler.stage = "idle"
    BY <1>1, <1>2, <1>3, MemFields, NodeFacts DEF NodeOK
  <2>1. NodeOK(n)'
    BY <1>2, <1>3, <1>6, <1>7, <2>3, NodeFacts DEF NodeOK
  <2>2. NodeOK(Responder)'
    BY <1>2, <1>6, <1>7, <2>3, NodeFacts DEF NodeOK
  <2> QED
    BY <2>1, <2>2, NodeFacts DEF NodeInv
<1>11. FlowInv'
  BY <1>1, <1>3, <1>6, <1>7 DEF FlowInv, Remembered
<1>12. \A m \in Nodes : \A msg \in Message :
          MessageOK(m, msg) /\ msg.type \notin FlowTypes => MessageOK(m, msg)'
  <2> SUFFICES ASSUME NEW m \in Nodes, NEW msg \in Message, MessageOK(m, msg),
                      msg.type \notin FlowTypes
               PROVE  MessageOK(m, msg)'
    OBVIOUS
  <2>1. disk[Other(m)].chan = "open" => disk'[Other(m)].chan = "open"
    BY <1>3, <1>6, NodeFacts
  <2> QED
    BY <2>1 DEF MessageOK, FlowTypes
<1>13. MessageInv'
  BY <1>1, <1>4, <1>12, MessagesKept
<1> QED
  BY <1>8, <1>9, <1>10, <1>11, <1>13 DEF FundingInv

LEMMA StepHandleFundingSigned ==
    ASSUME FundingInv, NEW valid \in BOOLEAN, handleFundingSigned(valid)
    PROVE  FundingInv'
<1> DEFINE n == Initiator
           coord == [stage |-> "publishing", live |-> Live(n)]
           yes == [mem[n] EXCEPT !.res = FALSE, !.signed = FALSE, !.signal = "open",
                                 !.coord = coord]
           no == [mem[n] EXCEPT !.res = FALSE, !.signed = FALSE, !.signal = "open"]
           unknown == [mem[n] EXCEPT !.signed = FALSE]
<1>1. n \in Nodes /\ TypeOK
  BY NodeFacts DEF FundingInv
<1>2. /\ UNCHANGED <<tx, age, request, up, ended, conn, odd, faults>>
      /\ Takes(n, "signed")
  BY DEF handleFundingSigned
<1>3. \/ mem' = [mem EXCEPT ![n] = unknown] /\ net' = Reply(n, "error") /\ disk' = disk
      \/ mem' = [mem EXCEPT ![n] = no] /\ net' = Reply(n, "error") /\ disk' = disk
      \/ /\ mem' = [mem EXCEPT ![n] = yes] /\ net' = Taken(n)
         /\ disk' = [disk EXCEPT ![n].chan = "pending"]
  <2>1. mem[n] \in Mem
    BY <1>1 DEF TypeOK
  <2>2. CASE ~(mem[n].signed /\ mem[n].res)
    BY <1>1, <2>2 DEF handleFundingSigned, TypeOK
  <2>3. CASE mem[n].signed /\ mem[n].res /\ valid
    BY <1>1, <2>1, <2>3 DEF handleFundingSigned, TypeOK, Mem
  <2>4. CASE mem[n].signed /\ mem[n].res /\ ~valid
    BY <1>1, <2>1, <2>4 DEF handleFundingSigned, TypeOK, Mem
  <2> QED
    BY <2>2, <2>3, <2>4
<1>4. (Live(n) => up) /\ Live(n) \in BOOLEAN
  BY <1>1, <1>2, HeadFacts
<1>5. coord \in CoordType /\ coord.stage = "publishing" /\ coord.live = Live(n)
  BY <1>4 DEF CoordType
<1> HIDE DEF coord
<1>6. /\ yes \in Mem /\ yes.coord = coord /\ yes.signal = "open"
      /\ yes.handler = mem[n].handler /\ yes.fsm = mem[n].fsm /\ ~yes.res
  BY <1>1, <1>5, MemFields DEF Mem, CoordType, HandlerType
<1>7. /\ no \in Mem /\ no.coord = mem[n].coord /\ no.handler = mem[n].handler
      /\ no.fsm = mem[n].fsm /\ no.signal = "open" /\ ~no.res
  BY <1>1, MemFields DEF Mem
<1>8. /\ unknown \in Mem /\ unknown.coord = mem[n].coord /\ unknown.handler = mem[n].handler
      /\ unknown.fsm = mem[n].fsm /\ unknown.signal = mem[n].signal
      /\ unknown.res = mem[n].res
  BY <1>1, MemFields DEF Mem
<1> HIDE DEF yes, no, unknown
<1>9. CASE mem' = [mem EXCEPT ![n] = unknown] /\ net' = Reply(n, "error") /\ disk' = disk
  BY <1>1, <1>2, <1>8, <1>9, RefuseStep
<1>10. CASE mem' = [mem EXCEPT ![n] = no] /\ net' = Reply(n, "error") /\ disk' = disk
  BY <1>1, <1>2, <1>7, <1>10, RefuseStep
<1>11. CASE /\ mem' = [mem EXCEPT ![n] = yes] /\ net' = Taken(n)
            /\ disk' = [disk EXCEPT ![n].chan = "pending"]
  <2>1. yes.coord.stage = "publishing" /\ (yes.coord.live => up)
    BY <1>4, <1>5, <1>6
  <2> QED
    BY <1>2, <1>6, <1>11, <2>1, StoreInitiator
<1> QED
  BY <1>3, <1>9, <1>10, <1>11

LEMMA LoadedFacts ==
    ASSUME TypeOK, NEW n \in Nodes
    PROVE  /\ Loaded(n) \in Conn
           /\ Loaded(n).link # "none" => disk[n].chan = "open"
<1>1. disk[n] \in Disk /\ disk[n].nextRev \in BOOLEAN
  BY DEF TypeOK, Disk
<1>2. CASE disk[n].chan = "open"
  BY <1>1, <1>2 DEF Loaded, NoConn, Conn
<1>3. CASE disk[n].chan = "pending"
  BY <1>1, <1>3 DEF Loaded, NoConn, Conn
<1>4. CASE disk[n].chan \notin {"open", "pending"}
  <2>1. Loaded(n) = NoConn
    BY <1>4 DEF Loaded
  <2> QED
    BY <2>1 DEF NoConn, Conn
<1> QED
  BY <1>2, <1>3, <1>4

LEMMA StepConnect ==
    ASSUME FundingInv, Connect
    PROVE  FundingInv'
<1>1. TypeOK /\ LiveInv /\ NodeInv /\ FlowInv /\ MessageInv
  BY DEF FundingInv
<1>2. /\ up' = TRUE /\ ended' = [n \in Nodes |-> FALSE]
      /\ conn' = [n \in Nodes |-> Loaded(n)] /\ odd' = odd \ {"late"}
      /\ UNCHANGED <<disk, tx, age, request, mem, net, faults>>
  BY DEF Connect
<1>3. \A n \in Nodes : Loaded(n) \in Conn /\ (Loaded(n).link # "none" => disk[n].chan = "open")
  BY <1>1, LoadedFacts
<1>4. /\ conn' \in [Nodes -> Conn]
      /\ \A n \in Nodes : conn'[n].link # "none" => disk[n].chan = "open"
  BY <1>2, <1>3
<1>5. ended' \in [Nodes -> BOOLEAN] /\ \A n \in Nodes : ~ended'[n]
  BY <1>2
<1>6. /\ odd \intersect {"timedOut", "unsure"} = odd' \intersect {"timedOut", "unsure"}
      /\ odd' \subseteq {"unsure", "timedOut", "late"}
  BY <1>1, <1>2 DEF TypeOK
<1>7. TypeOK'
  BY <1>1, <1>2, <1>4, <1>5, <1>6 DEF TypeOK
<1>8. LiveInv'
  BY <1>2, <1>5 DEF LiveInv
<1>9. NodeInv'
  BY <1>1, <1>2, <1>4 DEF NodeInv, NodeOK
<1>10. FlowInv'
  BY <1>1, <1>2, <1>6 DEF FlowInv, Early, Remembered
<1>11. \A n \in Nodes : \A msg \in Message : MessageOK(n, msg) => MessageOK(n, msg)'
  BY <1>2, <1>6 DEF MessageOK, Early, Remembered
<1>12. MessageInv'
  BY <1>1, <1>2, <1>11, MessagesSame
<1> QED
  BY <1>7, <1>8, <1>9, <1>10, <1>12 DEF FundingInv

\* What is left of the queues when a connection goes was there before, and is dead.
LEMMA DropMessages ==
    ASSUME TypeOK, MessageInv,
           \A m \in Nodes : \A i \in 1 .. Len(net'[m]) :
              /\ i \in 1 .. Len(net[m]) /\ net'[m][i].live = FALSE
              /\ net'[m][i].type = net[m][i].type,
           UNCHANGED <<disk, odd>>, request = "taken" => request' = "taken",
           \/ mem'[Responder].coord.stage = mem[Responder].coord.stage
           \/ mem'[Responder].coord.stage = "idle"
    PROVE  MessageInv'
<1>1. Once(net')
  <2> SUFFICES ASSUME NEW a \in Nodes, NEW b \in Nodes, NEW i \in 1 .. Len(net'[a]),
                      NEW j \in 1 .. Len(net'[b]),
                      net'[a][i].type \in FlowTypes, net'[b][j].type \in FlowTypes
               PROVE  a = b /\ i = j
    BY DEF Once
  <2>1. /\ i \in 1 .. Len(net[a]) /\ net[a][i].type \in FlowTypes
        /\ j \in 1 .. Len(net[b]) /\ net[b][j].type \in FlowTypes
    OBVIOUS
  <2> QED
    BY <2>1 DEF MessageInv, Once
<1>2. ASSUME NEW m \in Nodes, NEW i \in 1 .. Len(net'[m]) PROVE MessageOK(m, net[m][i])'
  <2>1. /\ i \in 1 .. Len(net[m]) /\ net'[m][i].live = FALSE
        /\ net'[m][i].type = net[m][i].type
    OBVIOUS
  <2>2. MessageOK(m, net[m][i])
    BY <2>1 DEF MessageInv
  <2>3. Early => Early'
    BY DEF Early
  <2>4. Remembered => Remembered'
    BY DEF Remembered
  <2> QED
    BY <2>1, <2>2, <2>3, <2>4 DEF MessageOK
<1> QED
  BY <1>1, <1>2 DEF MessageInv, Once

LEMMA DropStep ==
    ASSUME FundingInv, TypeOK', up' = FALSE, UNCHANGED <<disk, odd>>,
           request' # "live", request = "taken" => request' = "taken",
           request' # "taken" => request # "taken",
           tx' # "none" => tx # "none" \/ disk[Initiator].chan # "none",
           \A n \in Nodes : LiveOK(n)' /\ NodeOK(n)',
           \/ mem'[Responder].coord.stage = mem[Responder].coord.stage
           \/ mem'[Responder].coord.stage = "idle",
           \A m \in Nodes : \A i \in 1 .. Len(net'[m]) :
              /\ i \in 1 .. Len(net[m]) /\ net'[m][i].live = FALSE
              /\ net'[m][i].type = net[m][i].type
    PROVE  FundingInv'
<1>1. TypeOK /\ LiveInv /\ NodeInv /\ FlowInv /\ MessageInv
  BY DEF FundingInv
<1>2. LiveInv' /\ NodeInv'
  BY DEF LiveInv, NodeInv
<1>3. FlowInv'
  BY <1>1 DEF FlowInv, Early, Remembered
<1>4. MessageInv'
  BY <1>1, DropMessages
<1> QED
  BY <1>2, <1>3, <1>4 DEF FundingInv

LEMMA UnpluggedFacts ==
    ASSUME TypeOK, NEW n \in Nodes
    PROVE  /\ Unplugged(n) \in Mem
           /\ ~Unplugged(n).coord.live /\ ~Unplugged(n).handler.live
           /\ Unplugged(n).coord.stage = mem[n].coord.stage
           /\ Unplugged(n).handler.stage = mem[n].handler.stage
           /\ Unplugged(n).res = mem[n].res /\ Unplugged(n).fsm = mem[n].fsm
           /\ Unplugged(n).signal = mem[n].signal
<1> DEFINE coord == [mem[n].coord EXCEPT !.live = FALSE]
           handler == [mem[n].handler EXCEPT !.live = FALSE]
<1>1. mem[n] \in Mem
  BY DEF TypeOK
<1>2. Unplugged(n) = [mem[n] EXCEPT !.coord = coord, !.handler = handler]
  BY <1>1 DEF Unplugged, Mem
<1>3. /\ coord \in CoordType /\ coord.stage = mem[n].coord.stage /\ coord.live = FALSE
      /\ handler \in HandlerType /\ handler.stage = mem[n].handler.stage
      /\ handler.live = FALSE
  BY MemFields DEF CoordType, HandlerType
<1> HIDE DEF coord, handler
<1>4. /\ Unplugged(n) \in Mem /\ Unplugged(n).coord = coord /\ Unplugged(n).handler = handler
      /\ Unplugged(n).res = mem[n].res /\ Unplugged(n).fsm = mem[n].fsm
      /\ Unplugged(n).signal = mem[n].signal
  BY <1>2, <1>3, MemFields DEF Mem, CoordType, HandlerType
<1> QED
  BY <1>3, <1>4

LEMMA StartedFacts ==
    ASSUME TypeOK, NEW n \in Nodes
    PROVE  /\ Started(n) \in Mem /\ Started(n).coord = Idle /\ Started(n).handler = Idle
           /\ ~Started(n).res
           /\ disk[n].chan = "pending" => Started(n).fsm = "waiting" /\ Started(n).signal = "open"
           /\ disk[n].chan = "open" => Started(n).fsm \in {"stepping", "none"}
           /\ disk[n].chan \notin {"pending", "open"} => Started(n).fsm = "none"
<1> DEFINE signal == IF disk[n].chan = "pending" THEN "open" ELSE "absent"
           fsm == CASE disk[n].chan = "pending" -> "waiting"
                    [] disk[n].chan = "open" /\ disk[n].opening # "done" -> "stepping"
                    [] OTHER -> "none"
<1>1. Started(n) = [NoMem EXCEPT !.signal = signal, !.fsm = fsm]
  BY DEF Started
<1>2. /\ signal \in {"absent", "open", "closed"}
      /\ fsm \in {"none", "waiting", "marking", "stepping", "sending", "stopped"}
      /\ disk[n].chan = "pending" => fsm = "waiting" /\ signal = "open"
      /\ disk[n].chan = "open" => fsm \in {"stepping", "none"}
      /\ disk[n].chan \notin {"pending", "open"} => fsm = "none"
  OBVIOUS
<1> HIDE DEF signal, fsm
<1>3. /\ NoMem \in Mem /\ NoMem.coord = Idle /\ NoMem.handler = Idle /\ ~NoMem.res
  BY DEF NoMem, Mem, Idle
<1>4. /\ Started(n) \in Mem /\ Started(n).coord = Idle /\ Started(n).handler = Idle
      /\ ~Started(n).res /\ Started(n).fsm = fsm /\ Started(n).signal = signal
  BY <1>1, <1>2, <1>3 DEF Mem
<1> QED
  BY <1>2, <1>4

\* Types, and the links, after a connection is gone.
LEMMA DropTypes ==
    ASSUME conn' = [n \in Nodes |-> NoConn], faults < MaxFaults, faults' = faults + 1, TypeOK
    PROVE  /\ conn' \in [Nodes -> Conn] /\ \A n \in Nodes : conn'[n].link = "none"
           /\ faults' \in 0 .. MaxFaults
<1>1. NoConn \in Conn /\ NoConn.link = "none"
  BY DEF NoConn, Conn
<1>2. faults' \in 0 .. MaxFaults
  BY FundingAssumption DEF TypeOK
<1> QED
  BY <1>1, <1>2

LEMMA StepDisconnect ==
    ASSUME FundingInv, Disconnect
    PROVE  FundingInv'
<1>1. TypeOK /\ LiveInv /\ NodeInv /\ FlowInv /\ MessageInv
  BY DEF FundingInv
<1>2. /\ up /\ up' = FALSE /\ faults < MaxFaults /\ faults' = faults + 1
      /\ mem' = [n \in Nodes |-> Unplugged(n)] /\ conn' = [n \in Nodes |-> NoConn]
      /\ request' = DeadRequest /\ UNCHANGED <<disk, tx, age, ended, odd>>
  BY DEF Disconnect
<1>3. PICK i \in Unread(Initiator), r \in Unread(Responder) :
         net' = [n \in Nodes |-> Read(n, IF n = Initiator THEN i ELSE r)]
  BY DEF Disconnect
<1>4. \A n \in Nodes : \E k \in Unread(n) : net'[n] = Read(n, k)
  BY <1>3, NodeFacts
<1>5. /\ net' \in [Nodes -> Seq(Message)]
      /\ \A m \in Nodes : \A j \in 1 .. Len(net'[m]) :
            /\ j \in 1 .. Len(net[m]) /\ net'[m][j].live = FALSE
            /\ net'[m][j].type = net[m][j].type
  <2>1. net \in [Nodes -> Seq(Message)]
    BY <1>1 DEF TypeOK
  <2>2. ASSUME NEW m \in Nodes
        PROVE  /\ net'[m] \in Seq(Message)
               /\ \A j \in 1 .. Len(net'[m]) :
                    /\ j \in 1 .. Len(net[m]) /\ net'[m][j].live = FALSE
                    /\ net'[m][j].type = net[m][j].type
    <3>1. PICK k \in Unread(m) : net'[m] = Read(m, k)
      BY <1>4
    <3>2. /\ Read(m, k) \in Seq(Message) /\ Len(Read(m, k)) = k
          /\ \A j \in 1 .. k : /\ j \in 1 .. Len(net[m]) /\ Read(m, k)[j].live = FALSE
                               /\ Read(m, k)[j].type = net[m][j].type
      BY <2>1, ReadFacts
    <3> QED
      BY <3>1, <3>2
  <2>3. DOMAIN net' = Nodes /\ net' = [n \in DOMAIN net' |-> net'[n]]
    BY <1>3
  <2> QED
    BY <2>2, <2>3
<1>6. \A n \in Nodes : mem'[n] = Unplugged(n)
  BY <1>2
<1>7. \A n \in Nodes :
        /\ Unplugged(n) \in Mem /\ ~Unplugged(n).coord.live /\ ~Unplugged(n).handler.live
        /\ Unplugged(n).coord.stage = mem[n].coord.stage
        /\ Unplugged(n).handler.stage = mem[n].handler.stage
        /\ Unplugged(n).res = mem[n].res /\ Unplugged(n).fsm = mem[n].fsm
        /\ Unplugged(n).signal = mem[n].signal
  BY <1>1, UnpluggedFacts
<1>8. mem' \in [Nodes -> Mem]
  BY <1>2, <1>7
<1>9. /\ conn' \in [Nodes -> Conn] /\ \A n \in Nodes : conn'[n].link = "none"
      /\ faults' \in 0 .. MaxFaults
  BY <1>1, <1>2, DropTypes
<1>10. /\ request' \in {"none", "dead", "taken"} /\ (request' = "taken" <=> request = "taken")
  BY <1>1, <1>2 DEF DeadRequest, TypeOK
<1>11. TypeOK'
  BY <1>1, <1>2, <1>5, <1>8, <1>9, <1>10 DEF TypeOK
<1>12. \A n \in Nodes : LiveOK(n)'
  BY <1>1, <1>2, <1>6, <1>7, <1>9 DEF LiveInv, LiveOK
<1>13. \A n \in Nodes : NodeOK(n)'
  BY <1>1, <1>2, <1>6, <1>7, <1>9 DEF NodeInv, NodeOK
<1>14. mem'[Responder].coord.stage = mem[Responder].coord.stage
  BY <1>6, <1>7, NodeFacts
<1> QED
  BY <1>2, <1>5, <1>10, <1>11, <1>12, <1>13, <1>14, DropStep

\* A node that starts finds in its database what its goroutines need.
LEMMA StepRestart ==
    ASSUME FundingInv, NEW n \in Nodes, Restart(n)
    PROVE  FundingInv'
<1> DEFINE o == Other(n)
<1>1. TypeOK /\ LiveInv /\ NodeInv /\ FlowInv /\ MessageInv
  BY DEF FundingInv
<1>2. o \in Nodes /\ o # n /\ \A m \in Nodes : m = n \/ m = o
  BY NodeFacts
<1>3. /\ up' = FALSE /\ faults < MaxFaults /\ faults' = faults + 1
      /\ mem' = [m \in Nodes |-> IF m = n THEN Started(n) ELSE Unplugged(m)]
      /\ conn' = [m \in Nodes |-> NoConn] /\ ended' = [ended EXCEPT ![n] = TRUE]
      /\ UNCHANGED <<disk, age, odd>>
  BY DEF Restart
<1>4. PICK k \in Unread(o) : net' = [m \in Nodes |-> IF m = n THEN <<>> ELSE Read(m, k)]
  BY DEF Restart
<1>5. /\ net' \in [Nodes -> Seq(Message)]
      /\ \A m \in Nodes : \A j \in 1 .. Len(net'[m]) :
            /\ j \in 1 .. Len(net[m]) /\ net'[m][j].live = FALSE
            /\ net'[m][j].type = net[m][j].type
  <2>1. net \in [Nodes -> Seq(Message)]
    BY <1>1 DEF TypeOK
  <2>2. net'[n] = <<>> /\ net'[o] = Read(o, k)
    BY <1>2, <1>4
  <2>3. /\ Read(o, k) \in Seq(Message) /\ Len(Read(o, k)) = k
        /\ \A j \in 1 .. k : /\ j \in 1 .. Len(net[o]) /\ Read(o, k)[j].live = FALSE
                             /\ Read(o, k)[j].type = net[o][j].type
    BY <1>2, <2>1, ReadFacts
  <2>8. <<>> \in Seq(Message)
    OBVIOUS
  <2>4. \A m \in Nodes : net'[m] \in Seq(Message)
    <3> HIDE DEF o
    <3> QED
      BY <1>2, <2>2, <2>3, <2>8, Zenon
  <2>5. DOMAIN net' = Nodes /\ net' = [m \in DOMAIN net' |-> net'[m]]
    BY <1>4
  <2>6. net' \in [Nodes -> Seq(Message)]
    BY <2>4, <2>5
  <2>7. ASSUME NEW m \in Nodes, NEW j \in 1 .. Len(net'[m])
        PROVE  /\ j \in 1 .. Len(net[m]) /\ net'[m][j].live = FALSE
               /\ net'[m][j].type = net[m][j].type
    <3>1. m = o /\ j \in 1 .. k
      BY <1>2, <2>2, <2>3
    <3> QED
      BY <2>2, <2>3, <3>1
  <2> QED
    BY <2>6, <2>7
<1>6. mem'[n] = Started(n) /\ mem'[o] = Unplugged(o)
  BY <1>2, <1>3
<1>7. /\ Unplugged(o) \in Mem /\ ~Unplugged(o).coord.live /\ ~Unplugged(o).handler.live
      /\ Unplugged(o).coord.stage = mem[o].coord.stage
      /\ Unplugged(o).handler.stage = mem[o].handler.stage
      /\ Unplugged(o).res = mem[o].res /\ Unplugged(o).fsm = mem[o].fsm
      /\ Unplugged(o).signal = mem[o].signal
  BY <1>1, <1>2, UnpluggedFacts
<1>8. /\ Started(n) \in Mem /\ Started(n).coord = Idle /\ Started(n).handler = Idle
      /\ ~Started(n).res
      /\ disk[n].chan = "pending" => Started(n).fsm = "waiting" /\ Started(n).signal = "open"
      /\ disk[n].chan = "open" => Started(n).fsm \in {"stepping", "none"}
      /\ disk[n].chan \notin {"pending", "open"} => Started(n).fsm = "none"
  BY <1>1, StartedFacts
<1>9. /\ Idle.stage = "idle" /\ ~Idle.live
  BY DEF Idle
<1>10. mem' \in [Nodes -> Mem]
  BY <1>2, <1>3, <1>7, <1>8
<1>11. /\ conn' \in [Nodes -> Conn] /\ \A m \in Nodes : conn'[m].link = "none"
       /\ faults' \in 0 .. MaxFaults
  BY <1>1, <1>3, DropTypes
<1>12. /\ ended' \in [Nodes -> BOOLEAN] /\ ended'[o] = ended[o]
  BY <1>1, <1>2, <1>3 DEF TypeOK
<1>13. /\ request' \in {"none", "dead", "taken"} /\ (request = "taken" => request' = "taken")
       /\ request' # "taken" => request # "taken"
  BY <1>1 DEF Restart, DeadRequest, TypeOK
<1>14. /\ tx' \in {"none", "published", "confirmed"}
       /\ tx = "confirmed" => tx' = "confirmed"
       /\ tx' # "none" => tx # "none" \/ disk[Initiator].chan # "none"
  <2>1. CASE n = Initiator /\ disk[n].chan = "pending" /\ tx = "none"
    <3>1. tx' \in {"none", "published"}
      BY <2>1 DEF Restart
    <3> QED
      BY <2>1, <3>1
  <2>2. CASE ~(n = Initiator /\ disk[n].chan = "pending" /\ tx = "none")
    <3>1. tx' = tx
      BY <2>2 DEF Restart
    <3> QED
      BY <1>1, <3>1 DEF TypeOK
  <2> QED
    BY <2>1, <2>2
<1>15. TypeOK'
  BY <1>1, <1>3, <1>5, <1>10, <1>11, <1>12, <1>13, <1>14 DEF TypeOK
<1>16. \A m \in Nodes : LiveOK(m)'
  <2>1. LiveOK(n)'
    BY <1>6, <1>8, <1>9, <1>11 DEF LiveOK
  <2>2. LiveOK(o)'
    BY <1>1, <1>2, <1>6, <1>7, <1>11, <1>12 DEF LiveInv, LiveOK
  <2> QED
    BY <1>2, <2>1, <2>2
<1>17. \A m \in Nodes : NodeOK(m)'
  <2>1. NodeOK(n)'
    BY <1>1, <1>3, <1>6, <1>8, <1>9, <1>11, <1>14 DEF NodeInv, NodeOK
  <2>2. NodeOK(o)'
    <3>1. NodeOK(o)
      BY <1>1, <1>2 DEF NodeInv
    <3> HIDE DEF o
    <3> QED
      BY <1>2, <1>3, <1>6, <1>7, <1>11, <1>14, <3>1 DEF NodeOK
  <2> QED
    BY <1>2, <2>1, <2>2
<1>18. \/ mem'[Responder].coord.stage = mem[Responder].coord.stage
       \/ mem'[Responder].coord.stage = "idle"
  BY <1>2, <1>6, <1>7, <1>8, <1>9, NodeFacts
<1> QED
  BY <1>3, <1>5, <1>13, <1>14, <1>15, <1>16, <1>17, <1>18, DropStep
-----------------------------------------------------------------------------
(* Theorems. *)

LEMMA InitFunding == Init => FundingInv
<1> SUFFICES ASSUME Init PROVE FundingInv
  OBVIOUS
<1>1. /\ disk = [n \in Nodes |-> [chan |-> "none", opening |-> "none", nextRev |-> FALSE]]
      /\ tx = "none" /\ age = 0 /\ request = "none"
      /\ mem = [n \in Nodes |-> NoMem] /\ net = [n \in Nodes |-> <<>>]
      /\ up = TRUE /\ ended = [n \in Nodes |-> FALSE]
      /\ conn = [n \in Nodes |-> NoConn] /\ odd = {} /\ faults = 0
  BY DEF Init
<1>2. /\ NoMem \in Mem /\ NoMem.coord.stage = "idle" /\ NoMem.handler.stage = "idle"
      /\ NoMem.fsm = "none"
  BY DEF NoMem, Mem, Idle
<1>3. NoConn \in Conn /\ NoConn.link = "none"
  BY DEF NoConn, Conn
<1>4. \A n \in Nodes : /\ mem[n] = NoMem /\ conn[n] = NoConn /\ disk[n].chan = "none"
                       /\ net[n] = <<>> /\ ~ended[n]
  BY <1>1
<1>5. TypeOK
  <2>1. disk \in [Nodes -> Disk]
    BY <1>1 DEF Disk
  <2>2. mem \in [Nodes -> Mem] /\ conn \in [Nodes -> Conn] /\ net \in [Nodes -> Seq(Message)]
    BY <1>1, <1>2, <1>3
  <2>3. age \in 0 .. MaxWait /\ faults \in 0 .. MaxFaults
    BY <1>1, FundingAssumption
  <2> QED
    BY <1>1, <2>1, <2>2, <2>3 DEF TypeOK
<1>6. LiveInv
  BY <1>1, <1>4 DEF LiveInv
<1>7. NodeInv
  BY <1>2, <1>3, <1>4 DEF NodeInv, NodeOK
<1>8. FlowInv
  BY <1>1, <1>2, <1>4, NodeFacts DEF FlowInv, Early
<1>9. \A n \in Nodes : Len(net[n]) = 0
  BY <1>4
<1>10. MessageInv
  <2>1. \A n \in Nodes : \A i \in 1 .. Len(net[n]) : FALSE
    BY <1>9
  <2> QED
    BY <2>1 DEF MessageInv, Once
<1> QED
  BY <1>5, <1>6, <1>7, <1>8, <1>10 DEF FundingInv

LEMMA StutterFunding == ASSUME FundingInv, UNCHANGED vars PROVE FundingInv'
<1>1. /\ UNCHANGED <<disk, tx, age, request, mem, net, up, ended, conn, odd, faults>>
  BY DEF vars
<1>2. Initiator \in Nodes /\ NodeOK(Initiator) /\ (~up => LiveOK(Initiator)) /\ TypeOK
  BY NodeFacts DEF FundingInv, NodeInv, LiveInv
<1>3. TypeOK' /\ NodeOK(Initiator)' /\ (~up => LiveOK(Initiator)')
  BY <1>1, <1>2 DEF TypeOK, NodeOK, LiveOK
<1> QED
  BY <1>1, <1>2, <1>3, QuietStep

LEMMA StepFunding == ASSUME FundingInv, [Next]_vars PROVE FundingInv'
<1>1. CASE OpenChannel
  BY <1>1, StepOpenChannel
<1>2. CASE Connect
  BY <1>2, StepConnect
<1>3. CASE Disconnect
  BY <1>3, StepDisconnect
<1>4. CASE Confirm \/ Block
  BY <1>4, StepChain
<1>5. ASSUME NEW n \in Nodes, Coordinator(n) PROVE FundingInv'
  <2>1. CASE handleInitFundingMsg
    BY <2>1, StepHandleInitFundingMsg
  <2>2. ASSUME NEW ok \in BOOLEAN, handleFundingOpen(ok) PROVE FundingInv'
    BY <2>2, StepHandleFundingOpen
  <2>3. ASSUME NEW ok \in BOOLEAN, handleFundingCreated(ok) PROVE FundingInv'
    BY <2>3, StepHandleFundingCreated
  <2>4. ASSUME NEW ok \in BOOLEAN, handleFundingAccept(ok) PROVE FundingInv'
    BY <2>4, StepHandleFundingAccept
  <2>5. ASSUME NEW ok \in BOOLEAN, handleFundingSigned(ok) PROVE FundingInv'
    BY <2>5, StepHandleFundingSigned
  <2>6. ASSUME NEW ok \in BOOLEAN, PublishFundingTx(ok) PROVE FundingInv'
    BY <2>6, StepPublishFundingTx
  <2>7. CASE SendFundingSigned \/ FundingSignedSent \/ FundingSignedFails
    BY <2>7, StepSendFundingSigned, StepFundingSignedSent, StepFundingSignedFails
  <2>8. CASE handleErrorMsg(n) \/ handleFundingLocked(n)
    BY <2>8, StepHandleErrorMsg, StepHandleFundingLocked
  <2> QED
    BY <1>5, <2>1, <2>2, <2>3, <2>4, <2>5, <2>6, <2>7, <2>8 DEF Coordinator
<1>6. ASSUME NEW n \in Nodes, Handler(n) PROVE FundingInv'
  BY <1>6, StepInsertNextRevocation, StepAddNewChannel DEF Handler
<1>7. ASSUME NEW n \in Nodes, advanceFundingState(n) PROVE FundingInv'
  BY <1>7, StepSaveMarkedOpen, StepMarkAsOpen, StepSendFundingLocked, StepFundingLockedSent,
     StepStateStep, StepFundingTimeout DEF advanceFundingState
<1>8. ASSUME NEW n \in Nodes, syncChanStates(n) PROVE FundingInv'
  BY <1>8, StepSyncChanStates
<1>9. ASSUME NEW n \in Nodes, CancelPeerReservations(n) PROVE FundingInv'
  BY <1>9, StepCancelPeerReservations
<1>10. ASSUME NEW n \in Nodes, pruneZombieReservations(n) PROVE FundingInv'
  BY <1>10, StepPruneZombieReservations
<1>11. ASSUME NEW n \in Nodes, Restart(n) PROVE FundingInv'
  BY <1>11, StepRestart
<1>12. CASE UNCHANGED vars
  BY <1>12, StutterFunding
<1> QED
  BY <1>1, <1>2, <1>3, <1>4, <1>5, <1>6, <1>7, <1>8, <1>9, <1>10, <1>11, <1>12 DEF Next

\* Whatever is lost and whoever restarts, the two databases, the goroutines, the
\* connection and the messages on their way fit together: at most one message of the
\* opening flow is on its way, and what it says of the sender's state still holds when
\* the coordinator takes it.
THEOREM FundingInvariant == Spec => []FundingInv
BY InitFunding, StepFunding, PTL DEF Spec

\* Every variable keeps its type, and the wait of the responder its bound.
THEOREM FundingTypes == Spec => []TypeOK
<1>1. FundingInv => TypeOK
  BY DEF FundingInv
<1> QED
  BY <1>1, FundingInvariant, PTL

\* Once the funding transaction is out, the initiator has the channel in its database,
\* and so has the responder unless the wait timed out or the send of its signature was
\* reported as failed (handleFundingCreated, handleFundingSigned).
THEOREM FundedIsRememberedAlways == Spec => []FundedIsRemembered
<1>1. FundingInv => FundedIsRemembered
  <2> SUFFICES ASSUME FundingInv, tx # "none" PROVE FundedIsRemembered
    BY DEF FundedIsRemembered
  <2>1. disk[Initiator].chan \notin {"none", "canceled"} /\ Remembered
    BY DEF FundingInv, FlowInv
  <2>2. disk[Initiator].chan \in {"none", "pending", "open", "canceled"}
    BY NodeFacts DEF FundingInv, TypeOK, Disk
  <2> QED
    BY <2>1, <2>2 DEF FundedIsRemembered, Remembered
<1> QED
  BY <1>1, FundingInvariant, PTL

\* No reservation is left for a peer that is gone and that the server has cleaned up
\* after, whatever message of that peer is handled later (handleFundingOpen,
\* handleFundingAccept, handleInitFundingMsg).
THEOREM NoOrphanReservationAlways == Spec => []NoOrphanReservation
<1>1. FundingInv => NoOrphanReservation
  BY DEF FundingInv, LiveInv, LiveOK, NoOrphanReservation
<1> QED
  BY <1>1, FundingInvariant, PTL

\* A channel has a link only once its own node has seen the funding transaction
\* confirmed and marked it open (handleFundingLocked waits for localDiscoverySignals).
THEOREM LinkNeedsConfirmAlways == Spec => []LinkNeedsConfirm
<1>1. FundingInv => LinkNeedsConfirm
  BY DEF FundingInv, NodeInv, NodeOK, LinkNeedsConfirm
<1> QED
  BY <1>1, FundingInvariant, PTL
=============================================================================
