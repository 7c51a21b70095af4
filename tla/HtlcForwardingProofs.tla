------------------------ MODULE HtlcForwardingProofs ------------------------
(***************************************************************************)
(* Proofs about HtlcForwarding, for any finite set of HTLCs and any number  *)
(* of restarts and flaps: the node relays as HtlcRelay promises, and every  *)
(* answer finds its circuit.                                                *)
(*                                                                          *)
(* The inductive invariant says where each HTLC can be.  IndexInv: signed   *)
(* outgoing HTLCs use the indexes below NextLocalHtlcIndex, the logged ones  *)
(* those above, each its own.  CircuitInv: an open circuit names the index   *)
(* of its HTLC, or, while the outgoing link is down, one that no commitment  *)
(* uses and that TrimOpenCircuits will free.  AddInv: while the Add is on    *)
(* its way, nothing has answered it.  AnswerInv: a settle on its way was     *)
(* earned, and a failure on its way is final: nothing can offer the HTLC     *)
(* again.                                                                    *)
(***************************************************************************)
EXTENDS HtlcForwarding, FiniteSetTheorems, TLAPS

IndexInv ==
    /\ \A g, h \in Signed \union Logged : idx[g] = idx[h] => g = h
    /\ \A h \in Signed : idx[h] < NextLocalHtlcIndex
    /\ \A h \in Logged : /\ idx[h] >= NextLocalHtlcIndex
                         /\ idx[h] < NextLocalHtlcIndex + Cardinality(Logged)

CircuitInv ==
    /\ \A h \in Htlc : circuit[h] = "open" =>
        \/ out[h] # "none" /\ keystone[h] = idx[h]
        \/ ~outUp /\ out[h] = "none" /\ keystone[h] >= NextLocalHtlcIndex
    /\ \A h \in Htlc : h \in Signed =>
        circuit[h] = "open" \/ (ans[h] # "none" /\ circuit[h] = "none")
    /\ \A h \in Htlc : ans[h] # "none" /\ h \notin unsent => circuit[h] = "none"
    /\ \A h \in loaded : /\ circuit[h] # "none" /\ out[h] # "logged"
                         /\ circuit[h] = "half" => out[h] = "none"
                         /\ addBox[h] = "none" /\ cursor[h] # "route"

\* A packet in plex of the HTLC h.
HasPacket(h) == \E p \in plex : p.htlc = h

AddInv ==
    /\ \A h \in Htlc : add[h] = "absent" =>
        circuit[h] = "none" /\ ans[h] = "none" /\ cursor[h] = "none"
    /\ \A h \in Htlc : circuit[h] = "none" /\ ans[h] = "none" =>
        /\ out[h] = "none" /\ addBox[h] = "none" /\ cursor[h] # "route"
        /\ inLog[h] = "none" /\ ~HasPacket(h)
    /\ \A h \in Htlc : circuit[h] = "none" => replyBox[h] = NoReply
    /\ \A h \in Htlc : cursor[h] = "route" =>
        circuit[h] = "half" /\ out[h] = "none" /\ addBox[h] = "none"
    /\ \A h \in Htlc : cursor[h] # "none" => ans[h] = "none"
    /\ \A h \in Htlc : ans[h] # "none" => add[h] = "acked"
    /\ \A h \in Htlc : addBox[h] = "queued" => out[h] = "none"
    /\ \A h \in Htlc : addBox[h] = "delivered" <=> out[h] = "logged"
    /\ \A h \in Htlc : out[h] = "logged" => outUp
    /\ \A h \in Htlc : inLog[h] # "none" => ans[h] = "none" /\ inLog[h] = replyBox[h].res
    /\ \A h \in unsent : ans[h] # "none"

\* A failure of h is on its way to the incoming channel or signed in it.
Failing(h) ==
    \/ ans[h] = "fail" \/ replyBox[h].res = "fail"
    \/ \E p \in plex : p.htlc = h /\ p.res = "fail"

\* The preimage of h is on its way to the incoming channel or used in it.
Settling(h) ==
    \/ ans[h] = "settle" \/ replyBox[h].res = "settle"
    \/ \E p \in plex : p.htlc = h /\ p.res = "settle"
    \/ out[h] \in {"fulfilling", "settled"}

AnswerInv ==
    /\ \A h \in Htlc : Failing(h) =>
        /\ out[h] \in {"none", "failed"}
        /\ addBox[h] = "none" /\ cursor[h] # "route"
    /\ \A h \in Htlc : Settling(h) => h \in revealed
    /\ \A h \in revealed : h \in Signed /\ out[h] # "failed"
    /\ \A p \in plex : p.from # "mailbox" => p.htlc \in Signed
    /\ \A p \in plex : p.from = "mailbox" => p.res = "fail"

ForwardingInv == TypeOK /\ IndexInv /\ CircuitInv /\ AddInv /\ AnswerInv
----------------------------------------------------------------------------
(* Sizes and indexes. *)

LEMMA HtlcCount ==
    /\ Cardinality(Htlc) \in Nat /\ Cardinality(Htlc) > 0
    /\ \A S \in SUBSET Htlc : /\ IsFiniteSet(S)
                              /\ Cardinality(S) \in Nat
                              /\ Cardinality(S) <= Cardinality(Htlc)
                              /\ S # Htlc => Cardinality(S) < Cardinality(Htlc)
<1>1. IsFiniteSet(Htlc) /\ Htlc # {}
  BY ForwardingAssumption
<1>2. Cardinality(Htlc) \in Nat /\ Cardinality(Htlc) # 0
  BY <1>1, FS_CardinalityType, FS_EmptySet
<1>3. ASSUME NEW S \in SUBSET Htlc
      PROVE  /\ IsFiniteSet(S) /\ Cardinality(S) \in Nat
             /\ Cardinality(S) <= Cardinality(Htlc)
             /\ S # Htlc => Cardinality(S) < Cardinality(Htlc)
  <2>1. IsFiniteSet(S) /\ Cardinality(S) <= Cardinality(Htlc)
        /\ (Cardinality(S) = Cardinality(Htlc) => S = Htlc)
    BY <1>1, FS_Subset
  <2>2. Cardinality(S) \in Nat
    BY <2>1, FS_CardinalityType
  <2> QED
    BY <1>2, <2>1, <2>2
<1> QED
  BY <1>2, <1>3

\* The indexes in use: those of the signed HTLCs and of the logged ones.
LEMMA IndexCount ==
    /\ NextLocalHtlcIndex \in Nat
    /\ Cardinality(Logged) \in Nat
    /\ Cardinality(Signed \union Logged) = NextLocalHtlcIndex + Cardinality(Logged)
<1>1. Signed \in SUBSET Htlc /\ Logged \in SUBSET Htlc /\ Signed \cap Logged = {}
  BY DEF Signed, Logged
<1>2. IsFiniteSet(Signed) /\ Cardinality(Signed) \in Nat
  BY <1>1, HtlcCount
<1>3. IsFiniteSet(Logged) /\ Cardinality(Logged) \in Nat
  BY <1>1, HtlcCount
<1>4. Cardinality(Signed \union Logged)
        = Cardinality(Signed) + Cardinality(Logged) - Cardinality(Signed \cap Logged)
  BY <1>2, <1>3, FS_Union
<1>5. Cardinality(Signed \cap Logged) = 0
  BY <1>1, FS_EmptySet
<1> QED
  BY <1>2, <1>3, <1>4, <1>5 DEF NextLocalHtlcIndex

LEMMA SameIndexes ==
    ASSUME UNCHANGED out
    PROVE  /\ Signed' = Signed /\ Logged' = Logged
           /\ NextLocalHtlcIndex' = NextLocalHtlcIndex
BY DEF Signed, Logged, NextLocalHtlcIndex

LEMMA IndexKept ==
    ASSUME IndexInv, UNCHANGED <<out, idx>>
    PROVE  IndexInv'
BY SameIndexes DEF IndexInv

\* A free HTLC leaves room for one more index.
LEMMA RoomForIndex ==
    ASSUME NEW h \in Htlc, out[h] = "none"
    PROVE  NextLocalHtlcIndex + Cardinality(Logged) \in 0..Cardinality(Htlc) - 1
<1>1. Signed \union Logged \in SUBSET Htlc /\ h \notin Signed \union Logged
  BY DEF Signed, Logged
<1>2. Cardinality(Signed \union Logged) < Cardinality(Htlc)
  BY <1>1, HtlcCount
<1> QED
  BY <1>2, IndexCount, HtlcCount

----------------------------------------------------------------------------
(* Types. *)

LEMMA InitType == Init => TypeOK
<1> SUFFICES ASSUME Init PROVE TypeOK
  OBVIOUS
<1>1. 0 \in 0..Cardinality(Htlc) - 1
  BY HtlcCount
<1> QED
  BY <1>1, ForwardingAssumption DEF Init, TypeOK, Reply

LEMMA AddReplyType ==
    ASSUME replyBox \in [Htlc -> Reply], NEW h \in Htlc, NEW res \in Responses,
           NEW ref \in BOOLEAN, AddReply(h, res, ref)
    PROVE  replyBox' \in [Htlc -> Reply]
BY DEF AddReply, Reply

LEMMA TrimmedType ==
    ASSUME circuit \in [Htlc -> {"none", "half", "open"}]
    PROVE  Trimmed \in [Htlc -> {"none", "half", "open"}]
BY DEF Trimmed

LEMMA UnackedResponsesType ==
    ASSUME NEW from \in {"link", "switch", "mailbox"}
    PROVE  UnackedResponses(from) \subseteq Packet
<1> SUFFICES ASSUME NEW p \in UnackedResponses(from) PROVE p \in Packet
  OBVIOUS
<1>1. PICK h \in Htlc :
        p = Pkt(h, IF out[h] = "settled" THEN "settle" ELSE "fail", TRUE, from)
  BY DEF UnackedResponses
<1> QED
  BY <1>1 DEF Pkt, Packet, Responses

LEMMA NextType ==
    ASSUME TypeOK, AddInv, [Next]_vars
    PROVE  TypeOK'
<1> USE DEF TypeOK, disk, memory, history
<1>1. ASSUME NEW h \in Htlc, LockIn(h) \/ ProcessRemoteAdd(h)
      PROVE  TypeOK'
  BY <1>1 DEF LockIn, ProcessRemoteAdd
<1>2. ASSUME NEW h \in Htlc, CommitCircuits(h)
      PROVE  TypeOK'
  <2>1. replyBox' \in [Htlc -> Reply]
    BY <1>2, AddReplyType DEF CommitCircuits, Responses
  <2> QED
    BY <1>2, <2>1 DEF CommitCircuits
<1>3. ASSUME NEW h \in Htlc, HandlePacketForwardAdd(h)
      PROVE  TypeOK'
  <2>1. replyBox' \in [Htlc -> Reply]
    BY <1>3, AddReplyType DEF HandlePacketForwardAdd, Responses
  <2> QED
    BY <1>3, <2>1 DEF HandlePacketForwardAdd
<1>4. ASSUME NEW h \in Htlc, HandleDownstreamAdd(h) \/ ExpireAdd(h)
      PROVE  TypeOK'
  <2>1. Pkt(h, "fail", FALSE, "mailbox") \in Packet
    BY DEF Pkt, Packet, Responses
  <2>2. out[h] = "none"
    BY <1>4 DEF HandleDownstreamAdd, ExpireAdd, AddInv
  <2>3. idx' \in [Htlc -> 0..Cardinality(Htlc) - 1]
    BY <1>4, <2>2, RoomForIndex DEF HandleDownstreamAdd, ExpireAdd
  <2> QED
    BY <1>4, <2>1, <2>3 DEF HandleDownstreamAdd, ExpireAdd, FailAdd
<1>5. ASSUME NEW h \in Htlc, ReceiveFulfill(h)
      PROVE  TypeOK'
  <2>1. Pkt(h, "settle", FALSE, "link") \in Packet
    BY DEF Pkt, Packet, Responses
  <2> QED
    BY <1>5, <2>1 DEF ReceiveFulfill
<1>6. ASSUME NEW h \in Htlc, LockInResponse(h)
      PROVE  TypeOK'
  <2>1. \A res \in Responses : Pkt(h, res, TRUE, "link") \in Packet
    BY DEF Pkt, Packet
  <2> QED
    BY <1>6, <2>1 DEF LockInResponse
<1>7. ASSUME NEW h \in Htlc, HandleDownstreamResponse(h)
      PROVE  TypeOK'
  <2>1. replyBox[h] # NoReply /\ replyBox[h] \in Reply
    BY <1>7 DEF HandleDownstreamResponse, NoReply
  <2>2. replyBox[h].res \in Responses
    BY <2>1 DEF Reply
  <2>3. replyBox' \in [Htlc -> Reply]
    BY <1>7, <2>1 DEF HandleDownstreamResponse, Reply
  <2> QED
    BY <1>7, <2>2, <2>3 DEF HandleDownstreamResponse, DeleteCircuits
<1>8. ASSUME NEW p \in Packet, HandlePacketForwardResponse(p)
      PROVE  TypeOK'
  <2>1. p.htlc \in Htlc /\ p.res \in Responses /\ p.ref \in BOOLEAN
    BY DEF Packet
  <2> DEFINE found == IF p.from = "mailbox" THEN {h \in {p.htlc} : circuit[h] # "none"}
                      ELSE LookupOpenCircuit(idx[p.htlc])
  <2>2. found \subseteq Htlc
    BY <2>1 DEF LookupOpenCircuit
  <2>3. CASE found = {}
    BY <1>8, <2>1, <2>3 DEF HandlePacketForwardResponse
  <2>4. CASE found # {}
    <3>1. PICK h \in found :
             /\ UNCHANGED pendingSettleFails
             /\ IF Closing(h) THEN UNCHANGED <<closed, replyBox>>
                ELSE closed' = closed \union {h} /\ AddReply(h, p.res, p.ref)
      BY <1>8, <2>4 DEF HandlePacketForwardResponse
    <3>2. replyBox' \in [Htlc -> Reply] /\ closed' \subseteq Htlc
      BY <2>1, <2>2, <3>1, AddReplyType
    <3> QED
      BY <1>8, <3>1, <3>2 DEF HandlePacketForwardResponse
  <2> QED
    BY <2>3, <2>4
<1>9. ASSUME OpenCircuits \/ SignOutgoing \/ AckSettleFails
      PROVE  TypeOK'
  BY <1>9 DEF OpenCircuits, SignOutgoing, AckSettleFails
<1>10. ASSUME SignIncoming \/ AckDownStreamPackets
       PROVE  TypeOK'
  <2>1. replyBox' \in [Htlc -> Reply]
    BY <1>10 DEF SignIncoming, AckDownStreamPackets, Reply
  <2> QED
    BY <1>10, <2>1 DEF SignIncoming, AckDownStreamPackets, DeleteCircuits
<1>11. ASSUME StopIncoming \/ StartIncoming
       PROVE  TypeOK'
  <2>1. replyBox' \in [Htlc -> Reply]
    <3>1. ResetReplies(replyBox) \in [Htlc -> Reply]
      BY DEF ResetReplies, Reply, NoReply
    <3> QED
      BY <1>11, <3>1 DEF StopIncoming, StartIncoming
  <2>2. flaps' \in 0..MaxFlaps
    BY <1>11, ForwardingAssumption DEF StopIncoming, StartIncoming
  <2>3. CASE StopIncoming
    BY <2>1, <2>2, <2>3 DEF StopIncoming
  <2>4. CASE StartIncoming
    BY <2>1, <2>2, <2>4 DEF StartIncoming
  <2> QED
    BY <1>11, <2>3, <2>4
<1>12. ASSUME StopOutgoing
       PROVE  TypeOK'
  <2>1. addBox' \in [Htlc -> {"none", "queued", "delivered"}]
    BY <1>12 DEF StopOutgoing, ResetAdds
  <2>2. flaps' \in 0..MaxFlaps
    BY <1>12, ForwardingAssumption DEF StopOutgoing
  <2>3. out' \in [Htlc -> {"none", "logged", "signed", "fulfilling", "settled", "failed"}]
    BY <1>12 DEF StopOutgoing
  <2> QED
    BY <1>12, <2>1, <2>2, <2>3 DEF StopOutgoing
<1>13. ASSUME StartOutgoing
       PROVE  TypeOK'
  BY <1>13, TrimmedType, UnackedResponsesType DEF StartOutgoing
<1>14. ASSUME Restart
       PROVE  TypeOK'
  <2>1. circuit' \in [Htlc -> {"none", "half", "open"}]
    BY <1>14, TrimmedType DEF Restart
  <2>2. plex' \subseteq Packet
    BY <1>14, UnackedResponsesType DEF Restart
  <2>3. replyBox' \in [Htlc -> Reply]
    BY <1>14 DEF Restart, Reply
  <2>4. restarts' \in 0..MaxRestarts
    BY <1>14, ForwardingAssumption DEF Restart
  <2>5. out' \in [Htlc -> {"none", "logged", "signed", "fulfilling", "settled", "failed"}]
    BY <1>14 DEF Restart
  <2> QED
    BY <1>14, <2>1, <2>2, <2>3, <2>4, <2>5 DEF Restart
<1>15. ASSUME UNCHANGED vars
       PROVE  TypeOK'
  BY <1>15 DEF vars
<1> QED
  BY <1>1, <1>2, <1>3, <1>4, <1>5, <1>6, <1>7, <1>8, <1>9, <1>10, <1>11,
     <1>12, <1>13, <1>14, <1>15 DEF Next
----------------------------------------------------------------------------
(* The invariant, action by action. *)

InvParts == IndexInv /\ CircuitInv /\ AddInv /\ AnswerInv

LEMMA ReplyFacts ==
    ASSUME TypeOK
    PROVE  /\ NoReply.res = "none"
           /\ \A h \in Htlc : /\ replyBox[h].res \in {"none"} \union Responses
                              /\ replyBox[h] = NoReply <=> replyBox[h].res = "none"
                              /\ replyBox[h].at = "queued" => replyBox[h] # NoReply
BY DEF TypeOK, Reply, NoReply, Responses

\* What AddReply leaves in the box: the answer that was there, or the new one.
LEMMA AddReplyFacts ==
    ASSUME TypeOK, NEW h \in Htlc, NEW res \in Responses, NEW ref \in BOOLEAN,
           AddReply(h, res, ref)
    PROVE  \A g \in Htlc :
             \/ replyBox'[g] = replyBox[g]
             \/ g = h /\ replyBox[g].res = "none" /\ replyBox'[g].res = res
BY DEF TypeOK, AddReply, NoReply

LEMMA LockInInv ==
    ASSUME ForwardingInv, NEW h \in Htlc, LockIn(h)
    PROVE  InvParts'
<1> USE DEF ForwardingInv, LockIn, history
<1>1. IndexInv'
  BY IndexKept
<1>2. CircuitInv'
  BY SameIndexes DEF CircuitInv, TypeOK, Signed
<1>3. AddInv'
  BY DEF AddInv, TypeOK, HasPacket
<1>4. AnswerInv'
  BY SameIndexes DEF AnswerInv, Failing, Settling, TypeOK
<1> QED
  BY <1>1, <1>2, <1>3, <1>4 DEF InvParts

LEMMA ProcessRemoteAddInv ==
    ASSUME ForwardingInv, NEW h \in Htlc, ProcessRemoteAdd(h)
    PROVE  InvParts'
<1> USE DEF ForwardingInv, ProcessRemoteAdd, history
<1>1. IndexInv'
  BY IndexKept
<1>2. CircuitInv'
  BY SameIndexes DEF CircuitInv, TypeOK
<1>3. AddInv'
  BY DEF AddInv, TypeOK, HasPacket
<1>4. AnswerInv'
  BY SameIndexes DEF AnswerInv, Failing, Settling, TypeOK
<1> QED
  BY <1>1, <1>2, <1>3, <1>4 DEF InvParts

LEMMA CommitCircuitsInv ==
    ASSUME ForwardingInv, NEW h \in Htlc, CommitCircuits(h)
    PROVE  InvParts'
<1> USE DEF ForwardingInv, CommitCircuits, history
<1>1. IndexInv'
  BY IndexKept
<1>2. CircuitInv'
  BY SameIndexes DEF CircuitInv, AddInv, TypeOK, CircuitAction
<1>5. \A g \in Htlc : /\ circuit'[g] = IF g = h /\ circuit[g] = "none" THEN "half"
                                         ELSE circuit[g]
                     /\ cursor'[g] = IF g # h THEN cursor[g]
                                     ELSE IF circuit[h] = "none" THEN "route" ELSE "none"
  BY DEF TypeOK, CircuitAction
<1>6. \A g \in Htlc : \/ replyBox'[g] = replyBox[g]
                     \/ /\ g = h /\ circuit[h] = "half" /\ h \in loaded
                        /\ replyBox[g].res = "none" /\ replyBox'[g].res = "fail"
  BY AddReplyFacts DEF CircuitAction, TypeOK, Responses
<1> HIDE DEF CommitCircuits
<1>7. /\ UNCHANGED <<add, ans, unsent, out, addBox, inLog, plex, revealed, outUp>>
      /\ cursor[h] = "commit"
  BY DEF CommitCircuits
<1>3. AddInv'
  BY <1>5, <1>6, <1>7 DEF AddInv, HasPacket
<1>4. AnswerInv'
  <2>1. circuit[h] = "none" => ~Failing(h)
    BY <1>7, ReplyFacts DEF AddInv, Failing, HasPacket
  <2> QED
    BY <1>5, <1>6, <1>7, <2>1, SameIndexes
       DEF AnswerInv, CircuitInv, Failing, Settling
<1> QED
  BY <1>1, <1>2, <1>3, <1>4 DEF InvParts

LEMMA HandlePacketForwardAddInv ==
    ASSUME ForwardingInv, NEW h \in Htlc, HandlePacketForwardAdd(h)
    PROVE  InvParts'
<1> USE DEF ForwardingInv
<1>5. /\ UNCHANGED <<add, ans, unsent, circuit, keystone, out, idx, loaded, inLog,
                     plex, revealed, outUp>>
      /\ cursor[h] = "route"
      /\ \A g \in Htlc : cursor'[g] = IF g = h THEN "none" ELSE cursor[g]
  BY DEF HandlePacketForwardAdd, disk, history, TypeOK
<1>6. \/ /\ UNCHANGED replyBox
         /\ \A g \in Htlc : addBox'[g] = IF g = h THEN "queued" ELSE addBox[g]
      \/ /\ UNCHANGED addBox
         /\ \A g \in Htlc : \/ replyBox'[g] = replyBox[g]
                            \/ g = h /\ replyBox'[g].res = "fail"
  BY AddReplyFacts DEF HandlePacketForwardAdd, TypeOK, Responses
<1>1. IndexInv'
  BY <1>5, IndexKept
<1>2. CircuitInv'
  BY <1>5, <1>6, SameIndexes DEF CircuitInv, TypeOK
<1>3. AddInv'
  <2>1. \A g \in Htlc : inLog[g] # "none" => g # h
    BY <1>5, ReplyFacts DEF AddInv, AnswerInv, Failing, Settling, TypeOK, Signed, Responses
  <2> QED
    BY <1>5, <1>6, <2>1 DEF AddInv, HasPacket
<1>4. AnswerInv'
  <2>1. ~Failing(h) /\ ~Settling(h)
    BY <1>5 DEF AnswerInv, AddInv, Signed
  <2> QED
    BY <1>5, <1>6, <2>1, SameIndexes DEF AnswerInv, AddInv, Failing, Settling
<1> QED
  BY <1>1, <1>2, <1>3, <1>4 DEF InvParts

LEMMA FailAddInv ==
    ASSUME ForwardingInv, NEW h \in Htlc, addBox[h] = "queued", FailAdd(h),
           UNCHANGED <<disk, loaded, closed, inLog, cursor, replyBox,
                       pendingSettleFails, inUp, outUp, history>>
    PROVE  InvParts'
<1> USE DEF ForwardingInv, FailAdd, disk, history
<1>1. IndexInv'
  BY IndexKept
<1>2. CircuitInv'
  BY SameIndexes DEF CircuitInv, TypeOK
<1>3. AddInv'
  BY DEF AddInv, AnswerInv, Failing, Settling, TypeOK, HasPacket, Pkt
<1>4. AnswerInv'
  BY SameIndexes DEF AnswerInv, AddInv, Failing, Settling, TypeOK, Pkt
<1> QED
  BY <1>1, <1>2, <1>3, <1>4 DEF InvParts

LEMMA HandleDownstreamAddInv ==
    ASSUME ForwardingInv, NEW h \in Htlc, HandleDownstreamAdd(h)
    PROVE  InvParts'
<1>1. CASE FailAdd(h) /\ UNCHANGED <<out, idx>>
  BY <1>1, FailAddInv DEF HandleDownstreamAdd, disk
<1>2. CASE /\ addBox' = [addBox EXCEPT ![h] = "delivered"]
           /\ out' = [out EXCEPT ![h] = "logged"]
           /\ idx' = [idx EXCEPT ![h] = NextLocalHtlcIndex + Cardinality(Logged)]
           /\ UNCHANGED plex
  <2> USE <1>2 DEF ForwardingInv, HandleDownstreamAdd, history
  <2>1. out[h] = "none"
    BY DEF AddInv
  <2>2. Signed' = Signed /\ NextLocalHtlcIndex' = NextLocalHtlcIndex
    BY <2>1 DEF Signed, NextLocalHtlcIndex, TypeOK
  <2>3. Logged' = Logged \union {h} /\ h \notin Logged
    BY <2>1 DEF Logged, TypeOK
  <2>4. Cardinality(Logged') = Cardinality(Logged) + 1
    <3>1. IsFiniteSet(Logged)
      BY HtlcCount DEF Logged
    <3> QED
      BY <2>3, <3>1, FS_AddElement
  <2>5. IndexInv'
    <3>1. h \notin Signed \union Logged
      BY <2>1 DEF Signed, Logged
    <3>2. \A g \in Signed \union Logged : idx'[g] = idx[g] /\ idx[g] \in Nat
                      /\ idx[g] < NextLocalHtlcIndex + Cardinality(Logged)
      BY <3>1, IndexCount, HtlcCount DEF IndexInv, TypeOK, Signed, Logged
    <3>3. idx'[h] = NextLocalHtlcIndex + Cardinality(Logged)
      BY DEF TypeOK
    <3>4. (\A f, g \in Signed \union Logged : idx[f] = idx[g] => f = g)'
      BY <2>2, <2>3, <3>2, <3>3, IndexCount DEF IndexInv
    <3>5. (\A g \in Signed : idx[g] < NextLocalHtlcIndex)'
      BY <2>2, <3>2 DEF IndexInv
    <3>6. (\A g \in Logged : /\ idx[g] >= NextLocalHtlcIndex
                             /\ idx[g] < NextLocalHtlcIndex + Cardinality(Logged))'
      BY <2>2, <2>3, <2>4, <3>2, <3>3, IndexCount DEF IndexInv
    <3> QED
      BY <3>4, <3>5, <3>6 DEF IndexInv
  <2>6. CircuitInv'
    BY <2>1, <2>2 DEF CircuitInv, AddInv, TypeOK
  <2>7. AddInv'
    BY <2>1 DEF AddInv, AnswerInv, Settling, Failing, Signed, TypeOK, HasPacket
  <2>8. AnswerInv'
    BY <2>1, <2>2 DEF AnswerInv, AddInv, Failing, Settling, Signed, TypeOK
  <2> QED
    BY <2>5, <2>6, <2>7, <2>8 DEF InvParts
<1> QED
  BY <1>1, <1>2 DEF HandleDownstreamAdd

LEMMA ExpireAddInv ==
    ASSUME ForwardingInv, NEW h \in Htlc, ExpireAdd(h)
    PROVE  InvParts'
BY FailAddInv DEF ExpireAdd
LEMMA OpenCircuitsInv ==
    ASSUME ForwardingInv, OpenCircuits
    PROVE  InvParts'
<1> USE DEF ForwardingInv
<1>1. /\ UNCHANGED <<add, ans, unsent, out, idx, memory, history>>
      /\ \A h \in Htlc : /\ circuit'[h] = IF out[h] = "logged" THEN "open" ELSE circuit[h]
                         /\ keystone'[h] = IF out[h] = "logged" THEN idx[h] ELSE keystone[h]
  BY DEF OpenCircuits, Logged
<1>2. \A h \in Htlc : out[h] = "logged" => ans[h] = "none" /\ circuit[h] # "none"
  BY DEF AddInv, AnswerInv, Failing, Settling, Signed, TypeOK, Responses
<1>3. IndexInv'
  BY <1>1, IndexKept
<1>4. CircuitInv'
  BY <1>1, <1>2, SameIndexes DEF CircuitInv, memory, TypeOK
<1>5. AddInv'
  BY <1>1, <1>2 DEF AddInv, HasPacket, memory
<1>6. AnswerInv'
  BY <1>1, SameIndexes DEF AnswerInv, Failing, Settling, memory, history
<1> QED
  BY <1>3, <1>4, <1>5, <1>6 DEF InvParts

LEMMA SignOutgoingInv ==
    ASSUME ForwardingInv, SignOutgoing
    PROVE  InvParts'
<1> USE DEF ForwardingInv
<1>1. /\ UNCHANGED <<add, ans, unsent, circuit, keystone, idx, loaded, inLog, cursor,
                     replyBox, plex, outUp, revealed>>
      /\ \A h \in Htlc : /\ out'[h] = IF out[h] = "logged" THEN "signed" ELSE out[h]
                         /\ addBox'[h] = IF out[h] = "logged" THEN "none" ELSE addBox[h]
                         /\ out[h] = "logged" => circuit[h] = "open"
  BY DEF SignOutgoing, KeystonesStored, Logged, history
<1>2. Signed' = Signed \union Logged /\ Logged' = {}
  BY <1>1 DEF Signed, Logged
<1>3. NextLocalHtlcIndex' = NextLocalHtlcIndex + Cardinality(Logged)
  BY <1>2, IndexCount DEF NextLocalHtlcIndex
<1>4. IndexInv'
  <2>1. \A h \in Signed \union Logged : idx[h] < NextLocalHtlcIndex'
    <3>1. \A h \in Signed \union Logged : idx[h] \in Nat
      BY HtlcCount DEF TypeOK, Signed, Logged
    <3> QED
      BY <1>3, <3>1, IndexCount DEF IndexInv
  <2> QED
    BY <1>1, <1>2, <2>1 DEF IndexInv
<1>5. CircuitInv'
  <2>1. \A h \in Htlc : circuit[h] = "open" => out[h] # "none" /\ keystone[h] = idx[h]
    BY DEF SignOutgoing, CircuitInv
  <2>2. \A h \in Htlc : circuit'[h] = "open" => out'[h] # "none" /\ keystone'[h] = idx'[h]
    BY <1>1, <2>1
  <2>3. (\A h \in Htlc : h \in Signed =>
        circuit[h] = "open" \/ (ans[h] # "none" /\ circuit[h] = "none"))'
    BY <1>1 DEF CircuitInv, Signed
  <2>4. (\A h \in loaded : /\ circuit[h] # "none" /\ out[h] # "logged"
                           /\ circuit[h] = "half" => out[h] = "none"
                           /\ addBox[h] = "none" /\ cursor[h] # "route")'
    BY <1>1 DEF CircuitInv, TypeOK
  <2> QED
    BY <1>1, <2>2, <2>3, <2>4 DEF CircuitInv
<1>6. AddInv'
  BY <1>1 DEF AddInv, HasPacket
<1>7. AnswerInv'
  BY <1>1 DEF AnswerInv, Failing, Settling, Signed
<1> QED
  BY <1>4, <1>5, <1>6, <1>7 DEF InvParts

\* The outgoing HTLC moves on in its commitment and an answer goes to the switch.
LEMMA ResponseInv ==
    ASSUME ForwardingInv, NEW h \in Htlc, outUp, NEW res \in Responses, NEW ref, NEW new,
           \/ res = "settle" /\ h \in revealed' /\ new \in {"fulfilling", "settled"}
              /\ out[h] \in {"signed", "fulfilling"}
           \/ res = "fail" /\ h \notin revealed /\ new = "failed" /\ out[h] = "signed"
              /\ revealed' = revealed,
           out' = [out EXCEPT ![h] = new],
           revealed' \in {revealed, revealed \union {h}},
           plex' = plex \union {Pkt(h, res, ref, "link")},
           UNCHANGED <<add, ans, unsent, circuit, keystone, idx, loaded, inLog,
                       cursor, addBox, replyBox, outUp>>
    PROVE  InvParts'
<1> USE DEF ForwardingInv
<1>1. /\ new \in {"fulfilling", "settled", "failed"}
      /\ out[h] \in {"signed", "fulfilling"}
      /\ \A g \in Htlc : out'[g] = IF g = h THEN new ELSE out[g]
  BY DEF TypeOK
<1>2. Signed' = Signed /\ Logged' = Logged /\ NextLocalHtlcIndex' = NextLocalHtlcIndex
  BY <1>1 DEF Signed, Logged, NextLocalHtlcIndex
<1>3. IndexInv'
  BY <1>2 DEF IndexInv
<1>4. CircuitInv'
  BY <1>1, <1>2 DEF CircuitInv, AddInv, TypeOK, Signed
<1>5. AddInv'
  <2>1. h \in Signed
    BY <1>1 DEF Signed
  <2>2. ~(circuit[h] = "none" /\ ans[h] = "none")
    BY <2>1 DEF CircuitInv
  <2>3. \A g \in Htlc : g # h => (HasPacket(g)' <=> HasPacket(g))
    BY DEF HasPacket, Pkt
  <2> QED
    BY <1>1, <2>2, <2>3 DEF AddInv
<1>6. AnswerInv'
  <2>1. \A p \in plex' : p \in plex \/ (p.htlc = h /\ p.res = res /\ p.from = "link")
    BY DEF Pkt
  <2>2. addBox[h] = "none" /\ cursor[h] # "route" /\ h \in Signed
    BY <1>1 DEF AddInv, TypeOK, Signed
  <2>3. (\A g \in Htlc : Failing(g) =>
            /\ out[g] \in {"none", "failed"}
            /\ addBox[g] = "none" /\ cursor[g] # "route")'
    BY <1>1, <2>1, <2>2 DEF AnswerInv, Failing
  <2>4. (\A g \in Htlc : Settling(g) => g \in revealed)'
    BY <1>1, <2>1 DEF AnswerInv, Settling
  <2>5. (\A g \in revealed : g \in Signed /\ out[g] # "failed")'
    BY <1>1, <1>2, <2>2 DEF AnswerInv, TypeOK
  <2> QED
    BY <1>2, <2>1, <2>2, <2>3, <2>4, <2>5 DEF AnswerInv
<1> QED
  BY <1>3, <1>4, <1>5, <1>6 DEF InvParts

LEMMA ReceiveFulfillInv ==
    ASSUME ForwardingInv, NEW h \in Htlc, ReceiveFulfill(h)
    PROVE  InvParts'
BY ResponseInv DEF ReceiveFulfill, Responses

LEMMA LockInResponseInv ==
    ASSUME ForwardingInv, NEW h \in Htlc, LockInResponse(h)
    PROVE  InvParts'
<1>1. PICK res \in Responses :
        /\ \/ res = "settle" /\ out[h] = "fulfilling"
           \/ res = "fail" /\ out[h] = "signed" /\ h \notin revealed
        /\ out' = [out EXCEPT ![h] = IF res = "settle" THEN "settled" ELSE "failed"]
        /\ plex' = plex \union {Pkt(h, res, TRUE, "link")}
  BY DEF LockInResponse
<1>2. out[h] = "fulfilling" => h \in revealed
  BY DEF ForwardingInv, AnswerInv, Settling
<1>3. /\ outUp
      /\ UNCHANGED <<add, ans, unsent, circuit, keystone, idx, loaded, inLog,
                     cursor, addBox, replyBox, outUp, revealed>>
  BY DEF LockInResponse, history
<1>4. CASE res = "settle"
  BY <1>1, <1>2, <1>3, <1>4, ResponseInv
<1>5. CASE res = "fail"
  BY <1>1, <1>3, <1>5, ResponseInv
<1> QED
  BY <1>4, <1>5 DEF Responses
\* The answer to an HTLC is routed by the outgoing index; the circuit found is
\* the one of that HTLC, or none.
LEMMA FoundIsOwn ==
    ASSUME ForwardingInv, NEW h \in Htlc, h \in Signed
    PROVE  LookupOpenCircuit(idx[h]) \subseteq {h}
<1> SUFFICES ASSUME NEW g \in Htlc, circuit[g] = "open", keystone[g] = idx[h]
             PROVE  g = h
  BY DEF LookupOpenCircuit
<1> USE DEF ForwardingInv
<1>1. idx[h] < NextLocalHtlcIndex /\ idx[h] \in Nat /\ NextLocalHtlcIndex \in Nat
  BY IndexCount, HtlcCount DEF IndexInv, TypeOK
<1>2. out[g] # "none" /\ idx[g] = idx[h]
  BY <1>1 DEF CircuitInv
<1>3. g \in Signed \union Logged
  BY <1>2 DEF Signed, Logged
<1> QED
  BY <1>2, <1>3 DEF IndexInv

LEMMA HandlePacketForwardResponseInv ==
    ASSUME ForwardingInv, NEW p \in Packet, HandlePacketForwardResponse(p)
    PROVE  InvParts'
<1> USE DEF ForwardingInv
<1>1. /\ UNCHANGED <<disk, loaded, inLog, cursor, addBox, inUp, outUp, history>>
      /\ p \in plex /\ plex' = plex \ {p}
  BY DEF HandlePacketForwardResponse
<1>2. p.htlc \in Htlc /\ p.res \in Responses /\ p.ref \in BOOLEAN
  BY DEF Packet
<1>3. \A g \in Htlc : \/ replyBox'[g] = replyBox[g]
                     \/ /\ g = p.htlc /\ circuit[g] # "none"
                        /\ replyBox[g].res = "none" /\ replyBox'[g].res = p.res
  <2> DEFINE found == IF p.from = "mailbox" THEN {h \in {p.htlc} : circuit[h] # "none"}
                      ELSE LookupOpenCircuit(idx[p.htlc])
  <2>1. found \subseteq {p.htlc} /\ \A h \in found : circuit[h] # "none"
    BY <1>1, <1>2, FoundIsOwn DEF AnswerInv, LookupOpenCircuit
  <2>2. CASE found = {}
    BY <2>2 DEF HandlePacketForwardResponse
  <2>3. CASE found # {}
    <3>1. PICK h \in found : UNCHANGED replyBox \/ AddReply(h, p.res, p.ref)
      BY <2>3 DEF HandlePacketForwardResponse
    <3>2. h = p.htlc /\ circuit[h] # "none"
      BY <2>1
    <3> QED
      BY <1>2, <3>1, <3>2, AddReplyFacts
  <2> QED
    BY <2>2, <2>3
<1>4. IndexInv'
  BY <1>1, IndexKept DEF disk
<1>5. CircuitInv'
  BY <1>1, SameIndexes DEF CircuitInv, disk
<1>6. AddInv'
  <2>1. \A g \in Htlc : inLog[g] # "none" => replyBox'[g] = replyBox[g]
    BY <1>3 DEF AddInv
  <2>2. \A g \in Htlc : HasPacket(g)' => HasPacket(g)
    BY <1>1 DEF HasPacket
  <2> QED
    BY <1>1, <1>3, <2>1, <2>2 DEF AddInv, disk
<1>7. AnswerInv'
  BY <1>1, <1>3, SameIndexes DEF AnswerInv, Failing, Settling, disk, history
<1> QED
  BY <1>4, <1>5, <1>6, <1>7 DEF InvParts

LEMMA AckSettleFailsInv ==
    ASSUME ForwardingInv, AckSettleFails
    PROVE  InvParts'
<1> USE DEF ForwardingInv, AckSettleFails, history
<1>1. IndexInv' /\ CircuitInv'
  BY IndexKept, SameIndexes DEF CircuitInv
<1>2. AddInv'
  BY DEF AddInv, HasPacket
<1>3. AnswerInv'
  BY SameIndexes DEF AnswerInv, Failing, Settling
<1> QED
  BY <1>1, <1>2, <1>3 DEF InvParts

LEMMA HandleDownstreamResponseInv ==
    ASSUME ForwardingInv, NEW h \in Htlc, HandleDownstreamResponse(h)
    PROVE  InvParts'
<1> USE DEF ForwardingInv
<1>1. /\ UNCHANGED <<add, ans, unsent, keystone, out, idx, cursor, addBox, plex,
                     outUp, revealed>>
      /\ unsent = {} /\ replyBox[h].at = "queued"
      /\ \A g \in Htlc : cursor[g] = "none"
  BY DEF HandleDownstreamResponse, InIdle, history
<1>2. ans[h] = "none" /\ circuit[h] # "none" /\ replyBox[h].res # "none"
  BY <1>1, ReplyFacts DEF AddInv, CircuitInv
<1>3. /\ UNCHANGED <<circuit, loaded>>
      /\ \A g \in Htlc : /\ inLog'[g] = IF g = h THEN replyBox[h].res ELSE inLog[g]
                         /\ replyBox'[g].res = replyBox[g].res
                         /\ replyBox[g] = NoReply => replyBox'[g] = replyBox[g]
  BY <1>1, <1>2, ReplyFacts DEF HandleDownstreamResponse, TypeOK, Reply
<1>4. IndexInv' /\ CircuitInv'
  BY <1>1, <1>3, IndexKept, SameIndexes DEF CircuitInv
<1>5. AddInv'
  BY <1>1, <1>2, <1>3 DEF AddInv, HasPacket
<1>6. AnswerInv'
  BY <1>1, <1>3, SameIndexes DEF AnswerInv, Failing, Settling
<1> QED
  BY <1>4, <1>5, <1>6 DEF InvParts

LEMMA SignIncomingInv ==
    ASSUME ForwardingInv, SignIncoming
    PROVE  InvParts'
<1> USE DEF ForwardingInv
<1>1. /\ UNCHANGED <<circuit, keystone, out, idx, loaded, cursor, addBox, replyBox,
                     plex, outUp, revealed>>
      /\ unsent = {} /\ unsent' = {h \in Htlc : inLog[h] # "none"}
      /\ \A h \in Htlc :
           /\ cursor[h] = "none" /\ inLog'[h] = "none"
           /\ ans'[h] = IF inLog[h] # "none" THEN inLog[h] ELSE ans[h]
           /\ add'[h] = IF inLog[h] # "none" THEN "acked" ELSE add[h]
  BY DEF SignIncoming, InIdle, history
<1>2. \A h \in Htlc : inLog[h] # "none" => ans[h] = "none" /\ inLog[h] = replyBox[h].res
  BY DEF AddInv
<1>3. IndexInv' /\ CircuitInv'
  BY <1>1, IndexKept, SameIndexes DEF CircuitInv
<1>4. AddInv'
  BY <1>1, <1>2 DEF AddInv, HasPacket
<1>5. AnswerInv'
  BY <1>1, <1>2, SameIndexes DEF AnswerInv, Failing, Settling
<1> QED
  BY <1>3, <1>4, <1>5 DEF InvParts

LEMMA AckDownStreamPacketsInv ==
    ASSUME ForwardingInv, AckDownStreamPackets
    PROVE  InvParts'
<1> USE DEF ForwardingInv
<1>1. /\ UNCHANGED <<add, ans, keystone, out, idx, inLog, cursor, addBox, plex,
                     outUp, revealed>>
      /\ unsent' = {} /\ loaded' = loaded \ unsent
      /\ \A h \in Htlc :
           /\ circuit'[h] = IF h \in unsent THEN "none" ELSE circuit[h]
           /\ replyBox'[h] = IF h \in unsent THEN NoReply ELSE replyBox[h]
  BY DEF AckDownStreamPackets, DeleteCircuits, history
<1>2. \A h \in unsent : ans[h] # "none"
  BY DEF AddInv
<1>3. IndexInv' /\ CircuitInv'
  BY <1>1, <1>2, IndexKept, SameIndexes DEF CircuitInv, TypeOK
<1>4. AddInv'
  BY <1>1, <1>2 DEF AddInv, HasPacket, TypeOK
<1>5. AnswerInv'
  BY <1>1, ReplyFacts, SameIndexes DEF AnswerInv, Failing, Settling
<1> QED
  BY <1>3, <1>4, <1>5 DEF InvParts
LEMMA StopIncomingInv ==
    ASSUME ForwardingInv, StopIncoming
    PROVE  InvParts'
<1> USE DEF ForwardingInv
<1>1. /\ UNCHANGED <<add, ans, unsent, circuit, keystone, out, idx, loaded, addBox, plex,
                     outUp, revealed>>
      /\ \A h \in Htlc : cursor'[h] = "none" /\ inLog'[h] = "none"
  BY DEF StopIncoming, disk
<1>2. \A h \in Htlc : /\ replyBox'[h].res = replyBox[h].res
                      /\ replyBox[h] = NoReply => replyBox'[h] = replyBox[h]
  BY DEF StopIncoming, ResetReplies, TypeOK, Reply, NoReply
<1>3. IndexInv' /\ CircuitInv'
  BY <1>1, IndexKept, SameIndexes DEF CircuitInv, TypeOK
<1>4. AddInv'
  BY <1>1, <1>2 DEF AddInv, HasPacket
<1>5. AnswerInv'
  BY <1>1, <1>2, SameIndexes DEF AnswerInv, Failing, Settling
<1> QED
  BY <1>3, <1>4, <1>5 DEF InvParts

LEMMA StartIncomingInv ==
    ASSUME ForwardingInv, StartIncoming
    PROVE  InvParts'
<1> USE DEF ForwardingInv
<1>1. /\ UNCHANGED <<add, ans, unsent, circuit, keystone, out, idx, loaded, inLog,
                     addBox, replyBox, plex, outUp, revealed>>
      /\ \A h \in Htlc : cursor'[h] = IF add[h] \in {"locked", "processed"}
                                       THEN "process" ELSE "none"
  BY DEF StartIncoming, UnackedAdds, disk, history
<1>2. IndexInv' /\ CircuitInv'
  BY <1>1, IndexKept, SameIndexes DEF CircuitInv, TypeOK
<1>3. AddInv'
  BY <1>1 DEF AddInv, HasPacket
<1>4. AnswerInv'
  BY <1>1, SameIndexes DEF AnswerInv, Failing, Settling
<1> QED
  BY <1>2, <1>3, <1>4 DEF InvParts

\* What the outgoing channel keeps when its link, or the node, stops: the signed
\* HTLCs with their indexes.  The unsigned ones are forgotten.
LEMMA UnsignedForgotten ==
    ASSUME ForwardingInv, UNCHANGED idx,
           out' = [h \in Htlc |-> CASE out[h] = "logged" -> "none"
                                    [] out[h] = "fulfilling" -> "signed"
                                    [] OTHER -> out[h]]
    PROVE  /\ \A h \in Htlc :
                out'[h] = IF out[h] = "logged" THEN "none"
                          ELSE IF out[h] = "fulfilling" THEN "signed" ELSE out[h]
           /\ Signed' = Signed /\ Logged' = {}
           /\ NextLocalHtlcIndex' = NextLocalHtlcIndex
           /\ IndexInv'
<1>1. \A h \in Htlc :
        out'[h] = IF out[h] = "logged" THEN "none"
                  ELSE IF out[h] = "fulfilling" THEN "signed" ELSE out[h]
  OBVIOUS
<1>2. Signed' = Signed /\ Logged' = {}
  BY <1>1 DEF Signed, Logged
<1>3. NextLocalHtlcIndex' = NextLocalHtlcIndex
  BY <1>2 DEF NextLocalHtlcIndex
<1>4. IndexInv'
  BY <1>2, <1>3 DEF ForwardingInv, IndexInv
<1> QED
  BY <1>1, <1>2, <1>3, <1>4

\* A circuit that stays open when the trim runs is the one of a signed HTLC.
LEMMA TrimmedFacts ==
    ASSUME ForwardingInv
    PROVE  \A h \in Htlc :
             /\ Trimmed[h] = "open" => circuit[h] = "open" /\ h \in Signed /\ keystone[h] = idx[h]
             /\ Trimmed[h] = "none" <=> circuit[h] = "none"
             /\ circuit[h] = "open" /\ h \in Signed => Trimmed[h] = "open"
<1> USE DEF ForwardingInv
<1> SUFFICES ASSUME NEW h \in Htlc
             PROVE  /\ Trimmed[h] = "open" => circuit[h] = "open" /\ h \in Signed /\ keystone[h] = idx[h]
                    /\ Trimmed[h] = "none" <=> circuit[h] = "none"
                    /\ circuit[h] = "open" /\ h \in Signed => Trimmed[h] = "open"
  OBVIOUS
<1>1. Trimmed[h] = IF circuit[h] = "open" /\ keystone[h] >= NextLocalHtlcIndex THEN "half"
                   ELSE circuit[h]
  BY DEF Trimmed
<1>2. keystone[h] \in Nat /\ idx[h] \in Nat /\ NextLocalHtlcIndex \in Nat
  BY IndexCount, HtlcCount DEF TypeOK
<1>3. h \in Signed => idx[h] < NextLocalHtlcIndex /\ out[h] # "none"
  BY DEF IndexInv, Signed
<1>4. out[h] # "none" /\ h \notin Signed => idx[h] >= NextLocalHtlcIndex
  BY DEF IndexInv, Signed, Logged
<1>5. circuit[h] = "open" =>
        \/ out[h] # "none" /\ keystone[h] = idx[h]
        \/ out[h] = "none" /\ keystone[h] >= NextLocalHtlcIndex
  BY DEF CircuitInv
<1> QED
  BY <1>1, <1>2, <1>3, <1>4, <1>5

LEMMA UnackedResponsesFacts ==
    ASSUME NEW from \in {"link", "switch"}, NEW p \in UnackedResponses(from)
    PROVE  /\ p.htlc \in Signed /\ p.from # "mailbox"
           /\ p.res = "settle" => out[p.htlc] = "settled"
           /\ p.res = "fail" => out[p.htlc] = "failed"
<1>1. PICK h \in Htlc :
        /\ p = Pkt(h, IF out[h] = "settled" THEN "settle" ELSE "fail", TRUE, from)
        /\ out[h] \in {"settled", "failed"}
  BY DEF UnackedResponses
<1> QED
  BY <1>1 DEF Pkt, Signed

LEMMA StopOutgoingInv ==
    ASSUME ForwardingInv, StopOutgoing
    PROVE  InvParts'
<1> USE DEF ForwardingInv
<1>1. /\ UNCHANGED <<add, ans, unsent, circuit, keystone, idx, loaded, inLog, cursor,
                     replyBox, revealed>>
      /\ ~outUp' /\ plex' \subseteq plex
      /\ \A h \in Htlc : addBox'[h] = IF addBox[h] = "delivered" THEN "queued" ELSE addBox[h]
  BY DEF StopOutgoing, ResetAdds
<1>2. /\ \A h \in Htlc :
           out'[h] = IF out[h] = "logged" THEN "none"
                     ELSE IF out[h] = "fulfilling" THEN "signed" ELSE out[h]
      /\ Signed' = Signed /\ NextLocalHtlcIndex' = NextLocalHtlcIndex
      /\ IndexInv'
  BY UnsignedForgotten DEF StopOutgoing
<1>3. CircuitInv'
  <2>1. \A h \in Htlc : out[h] = "logged" => idx[h] >= NextLocalHtlcIndex
    BY DEF IndexInv, Logged
  <2>2. (\A h \in Htlc : circuit[h] = "open" =>
           \/ out[h] # "none" /\ keystone[h] = idx[h]
           \/ ~outUp /\ out[h] = "none" /\ keystone[h] >= NextLocalHtlcIndex)'
    BY <1>1, <1>2, <2>1 DEF CircuitInv
  <2>3. (\A h \in loaded : /\ circuit[h] # "none" /\ out[h] # "logged"
                           /\ circuit[h] = "half" => out[h] = "none"
                           /\ addBox[h] = "none" /\ cursor[h] # "route")'
    BY <1>1, <1>2 DEF CircuitInv, TypeOK
  <2> QED
    BY <1>1, <1>2, <2>2, <2>3 DEF CircuitInv
<1>4. AddInv'
  BY <1>1, <1>2 DEF AddInv, HasPacket, TypeOK
<1>5. AnswerInv'
  <2>1. (\A h \in Htlc : Failing(h) =>
            /\ out[h] \in {"none", "failed"}
            /\ addBox[h] = "none" /\ cursor[h] # "route")'
    BY <1>1, <1>2 DEF AnswerInv, Failing
  <2>2. (\A h \in Htlc : Settling(h) => h \in revealed)'
    BY <1>1, <1>2 DEF AnswerInv, Settling
  <2>3. (\A h \in revealed : h \in Signed /\ out[h] # "failed")'
    BY <1>1, <1>2 DEF AnswerInv, TypeOK
  <2> QED
    BY <1>1, <1>2, <2>1, <2>2, <2>3 DEF AnswerInv
<1> QED
  BY <1>2, <1>3, <1>4, <1>5 DEF InvParts

LEMMA StartOutgoingInv ==
    ASSUME ForwardingInv, StartOutgoing
    PROVE  InvParts'
<1> USE DEF ForwardingInv
<1>1. /\ UNCHANGED <<add, ans, unsent, keystone, out, idx, loaded, inLog, cursor,
                     addBox, replyBox, revealed>>
      /\ ~outUp /\ outUp' = TRUE
      /\ circuit' = Trimmed /\ plex' = plex \union UnackedResponses("link")
  BY DEF StartOutgoing, history
<1>2. Signed' = Signed /\ NextLocalHtlcIndex' = NextLocalHtlcIndex /\ IndexInv'
  BY <1>1, SameIndexes, IndexKept
<1>3. \A h \in Htlc : out[h] # "none" => h \in Signed
  BY <1>1 DEF AddInv, Signed
<1>4. CircuitInv'
  <2>1. (\A h \in Htlc : circuit[h] = "open" => out[h] # "none" /\ keystone[h] = idx[h])'
    BY <1>1, TrimmedFacts DEF Signed
  <2>2. (\A h \in Htlc : h \in Signed =>
        circuit[h] = "open" \/ (ans[h] # "none" /\ circuit[h] = "none"))'
    BY <1>1, <1>2, TrimmedFacts DEF CircuitInv
  <2>3. (\A h \in Htlc : ans[h] # "none" /\ h \notin unsent => circuit[h] = "none")'
    BY <1>1, TrimmedFacts DEF CircuitInv
  <2>4. (\A h \in loaded : /\ circuit[h] # "none" /\ out[h] # "logged"
                           /\ circuit[h] = "half" => out[h] = "none"
                           /\ addBox[h] = "none" /\ cursor[h] # "route")'
    <3> SUFFICES ASSUME NEW h \in loaded, Trimmed[h] = "half"
                 PROVE  out[h] = "none"
      BY <1>1, TrimmedFacts DEF CircuitInv, TypeOK
    <3>1. circuit[h] # "open" \/ h \notin Signed
      BY TrimmedFacts DEF TypeOK
    <3> QED
      BY <1>3, <3>1 DEF CircuitInv, TypeOK
  <2> QED
    BY <2>1, <2>2, <2>3, <2>4 DEF CircuitInv
<1>5. \A p \in plex' : \/ p \in plex
                       \/ /\ p.htlc \in Signed /\ p.from # "mailbox"
                          /\ p.res = "settle" => out[p.htlc] = "settled"
                          /\ p.res = "fail" => out[p.htlc] = "failed"
  BY <1>1, UnackedResponsesFacts
<1>6. AddInv'
  <2>1. \A h \in Htlc : circuit[h] = "none" /\ ans[h] = "none" /\ HasPacket(h)' => HasPacket(h)
    BY <1>1, <1>5 DEF HasPacket, CircuitInv
  <2>2. \A h \in Htlc : cursor[h] = "route" => Trimmed[h] = "half"
    BY TrimmedFacts, TrimmedType DEF AddInv, TypeOK
  <2> QED
    BY <1>1, <2>1, <2>2, TrimmedFacts DEF AddInv
<1>7. AnswerInv'
  <2>1. (\A h \in Htlc : Failing(h) =>
            /\ out[h] \in {"none", "failed"}
            /\ addBox[h] = "none" /\ cursor[h] # "route")'
    <3>1. \A h \in Htlc : out[h] = "failed" => addBox[h] = "none" /\ cursor[h] # "route"
      BY DEF AddInv, TypeOK
    <3> QED
      BY <1>1, <1>5, <3>1 DEF AnswerInv, Failing
  <2>2. (\A h \in Htlc : Settling(h) => h \in revealed)'
    BY <1>1, <1>5 DEF AnswerInv, Settling
  <2> QED
    BY <1>1, <1>2, <1>5, <2>1, <2>2 DEF AnswerInv
<1> QED
  BY <1>2, <1>4, <1>6, <1>7 DEF InvParts

LEMMA RestartInv ==
    ASSUME ForwardingInv, Restart
    PROVE  InvParts'
<1> USE DEF ForwardingInv
<1>1. /\ UNCHANGED <<add, ans, unsent, keystone, idx, revealed>>
      /\ ~outUp' /\ circuit' = Trimmed /\ plex' = UnackedResponses("switch")
      /\ loaded' = {h \in Htlc : circuit[h] # "none"}
      /\ \A h \in Htlc : /\ inLog'[h] = "none" /\ cursor'[h] = "none"
                         /\ addBox'[h] = "none" /\ replyBox'[h] = NoReply
  BY DEF Restart
<1>2. /\ \A h \in Htlc :
           out'[h] = IF out[h] = "logged" THEN "none"
                     ELSE IF out[h] = "fulfilling" THEN "signed" ELSE out[h]
      /\ Signed' = Signed /\ NextLocalHtlcIndex' = NextLocalHtlcIndex
      /\ IndexInv'
  BY UnsignedForgotten DEF Restart
<1>3. \A h \in Htlc : out'[h] # "none" <=> h \in Signed
  BY <1>2 DEF Signed
<1>4. CircuitInv'
  <2>1. (\A h \in Htlc : circuit[h] = "open" => out[h] # "none" /\ keystone[h] = idx[h])'
    BY <1>1, <1>3, TrimmedFacts
  <2>2. (\A h \in Htlc : h \in Signed =>
        circuit[h] = "open" \/ (ans[h] # "none" /\ circuit[h] = "none"))'
    BY <1>1, <1>2, TrimmedFacts DEF CircuitInv
  <2>3. (\A h \in Htlc : ans[h] # "none" /\ h \notin unsent => circuit[h] = "none")'
    BY <1>1, TrimmedFacts DEF CircuitInv
  <2>4. (\A h \in loaded : /\ circuit[h] # "none" /\ out[h] # "logged"
                           /\ circuit[h] = "half" => out[h] = "none"
                           /\ addBox[h] = "none" /\ cursor[h] # "route")'
    <3> SUFFICES ASSUME NEW h \in Htlc, circuit[h] # "none"
                 PROVE  /\ Trimmed[h] # "none" /\ out'[h] # "logged"
                        /\ Trimmed[h] = "half" => out'[h] = "none"
      BY <1>1
    <3>1. ASSUME h \in Signed PROVE Trimmed[h] = "open"
      BY <3>1, TrimmedFacts DEF CircuitInv
    <3> QED
      BY <1>2, <1>3, <3>1, TrimmedFacts DEF TypeOK
  <2> QED
    BY <2>1, <2>2, <2>3, <2>4 DEF CircuitInv
<1>5. \A p \in plex' : /\ p.htlc \in Signed /\ p.from # "mailbox"
                       /\ p.res = "settle" => out[p.htlc] = "settled"
                       /\ p.res = "fail" => out[p.htlc] = "failed"
  BY <1>1, UnackedResponsesFacts
<1>6. AddInv'
  <2>1. \A h \in Htlc : circuit[h] = "none" /\ ans[h] = "none" =>
           ~HasPacket(h)' /\ out'[h] = "none"
    BY <1>1, <1>2, <1>5 DEF HasPacket, CircuitInv, AddInv
  <2> QED
    BY <1>1, <1>2, <2>1, TrimmedFacts DEF AddInv, TypeOK
<1>7. AnswerInv'
  <2>1. \A h \in Htlc : ans[h] = "fail" => out'[h] \in {"none", "failed"}
    BY <1>2 DEF AnswerInv, Failing
  <2>2. (\A h \in Htlc : Failing(h) =>
            /\ out[h] \in {"none", "failed"}
            /\ addBox[h] = "none" /\ cursor[h] # "route")'
    BY <1>1, <1>2, <1>5, <2>1, ReplyFacts DEF Failing
  <2>3. (\A h \in Htlc : Settling(h) => h \in revealed)'
    BY <1>1, <1>2, <1>5, ReplyFacts DEF AnswerInv, Settling
  <2>4. (\A h \in revealed : h \in Signed /\ out[h] # "failed")'
    BY <1>1, <1>2 DEF AnswerInv, TypeOK
  <2> QED
    BY <1>1, <1>2, <1>5, <2>2, <2>3, <2>4 DEF AnswerInv
<1> QED
  BY <1>2, <1>4, <1>6, <1>7 DEF InvParts
----------------------------------------------------------------------------
(* The theorems. *)

LEMMA InitInv == Init => ForwardingInv
<1> SUFFICES ASSUME Init PROVE ForwardingInv
  OBVIOUS
<1>1. TypeOK
  BY InitType
<1>2. Signed = {} /\ Logged = {}
  BY DEF Init, Signed, Logged
<1>3. IndexInv /\ CircuitInv
  BY <1>2 DEF Init, IndexInv, CircuitInv
<1>4. AddInv
  BY DEF Init, AddInv, HasPacket
<1>5. AnswerInv
  BY DEF Init, AnswerInv, Failing, Settling, NoReply
<1> QED
  BY <1>1, <1>3, <1>4, <1>5 DEF ForwardingInv

LEMMA NextInv ==
    ASSUME ForwardingInv, [Next]_vars
    PROVE  ForwardingInv'
<1>1. TypeOK'
  BY NextType DEF ForwardingInv
<1>2. CASE Next
  <2>1. InvParts'
    BY <1>2, LockInInv, ProcessRemoteAddInv, CommitCircuitsInv,
       HandlePacketForwardAddInv, HandleDownstreamAddInv, ExpireAddInv,
       ReceiveFulfillInv, LockInResponseInv, HandleDownstreamResponseInv,
       HandlePacketForwardResponseInv, OpenCircuitsInv, SignOutgoingInv,
       AckSettleFailsInv, SignIncomingInv, AckDownStreamPacketsInv,
       StopIncomingInv, StartIncomingInv, StopOutgoingInv, StartOutgoingInv,
       RestartInv
       DEF Next
  <2> QED
    BY <1>1, <2>1 DEF InvParts, ForwardingInv
<1>3. CASE UNCHANGED vars
  <2> USE <1>3 DEF ForwardingInv, vars, disk, memory, history
  <2>1. IndexInv' /\ CircuitInv'
    BY IndexKept, SameIndexes DEF CircuitInv
  <2>2. AddInv'
    BY DEF AddInv, HasPacket
  <2>3. AnswerInv'
    BY SameIndexes DEF AnswerInv, Failing, Settling
  <2> QED
    BY <1>1, <2>1, <2>2, <2>3
<1> QED
  BY <1>2, <1>3

\* The inductive invariant holds in every reachable state of the forwarding node.
THEOREM ForwardingInvariant == Spec => []ForwardingInv
BY InitInv, NextInv, PTL DEF Spec

\* The variables keep their types; in particular the outgoing channel never needs
\* more indexes than there are HTLCs.
THEOREM ForwardingTypes == Spec => []TypeOK
<1>1. ForwardingInv => TypeOK
  BY DEF ForwardingInv
<1> QED
  BY <1>1, ForwardingInvariant, PTL

\* The answer to an unanswered HTLC in a signed outgoing commitment always finds
\* the circuit of that HTLC and no other under its outgoing index, through every
\* flap and restart (OpenCircuits before the signature, TrimOpenCircuits before an
\* index is used again).
THEOREM AnswerHasCircuitAlways == Spec => []AnswerHasCircuit
<1>1. ForwardingInv => AnswerHasCircuit
  <2> SUFFICES ASSUME ForwardingInv, NEW h \in Signed, ans[h] = "none"
               PROVE  LookupOpenCircuit(idx[h]) = {h}
    BY DEF AnswerHasCircuit
  <2>1. h \in Htlc /\ out[h] # "none"
    BY DEF Signed
  <2>2. circuit[h] = "open" /\ keystone[h] = idx[h]
    BY <2>1 DEF ForwardingInv, CircuitInv
  <2>3. LookupOpenCircuit(idx[h]) \subseteq {h}
    BY <2>1, FoundIsOwn
  <2> QED
    BY <2>1, <2>2, <2>3 DEF LookupOpenCircuit
<1> QED
  BY <1>1, ForwardingInvariant, PTL

\* Once the commitment that answers an HTLC is sent, its circuit is gone, however
\* often the node restarts between the signature and DeleteCircuits.
THEOREM AnsweredFreesCircuitAlways == Spec => []AnsweredFreesCircuit
<1>1. ForwardingInv => AnsweredFreesCircuit
  BY DEF ForwardingInv, CircuitInv, AnsweredFreesCircuit
<1> QED
  BY <1>1, ForwardingInvariant, PTL

----------------------------------------------------------------------------
(* The refinement: each step of the node is, for each HTLC, a step that     *)
(* HtlcRelay allows.                                                         *)

LEMMA RelayView ==
    /\ \A h \in Htlc :
         /\ Incoming[h] = CASE add[h] = "absent" -> "absent"
                            [] ans[h] = "settle" -> "settled"
                            [] ans[h] = "fail" -> "failed"
                            [] OTHER -> "held"
         /\ Outgoing[h] = CASE h \in revealed -> "settled"
                            [] out[h] = "failed" -> "failed"
                            [] out[h] \in {"none", "logged"} -> "none"
                            [] OTHER -> "offered"
    /\ \A h \in Htlc :
         /\ Incoming'[h] = CASE add'[h] = "absent" -> "absent"
                            [] ans'[h] = "settle" -> "settled"
                            [] ans'[h] = "fail" -> "failed"
                            [] OTHER -> "held"
         /\ Outgoing'[h] = CASE h \in revealed' -> "settled"
                            [] out'[h] = "failed" -> "failed"
                            [] out'[h] \in {"none", "logged"} -> "none"
                            [] OTHER -> "offered"
BY DEF Incoming, Outgoing

\* What a neighbour sees of h does not change when its Add stays known or unknown,
\* its answer the same, and its outgoing HTLC on the same side of the signature.
LEMMA NothingSeen ==
    ASSUME ForwardingInv, NEW h \in Htlc, UNCHANGED <<ans, revealed>>,
           add'[h] = "absent" <=> add[h] = "absent",
           \/ out'[h] = out[h]
           \/ out[h] \in {"none", "logged"} /\ out'[h] \in {"none", "logged"}
           \/ h \in revealed /\ out'[h] \in {"signed", "fulfilling", "settled"}
    PROVE  Incoming'[h] = Incoming[h] /\ Outgoing'[h] = Outgoing[h]
<1>1. add[h] = "absent" => ans[h] = "none"
  BY DEF ForwardingInv, AddInv
<1>2. h \in revealed => out[h] # "failed" /\ out[h] \notin {"none", "logged"}
  BY DEF ForwardingInv, AnswerInv, Signed
<1>3. Incoming'[h] = Incoming[h]
  BY <1>1, RelayView
<1>4. Outgoing'[h] = Outgoing[h]
  <2>1. CASE h \in revealed
    BY <1>2, <2>1, RelayView
  <2>2. CASE h \notin revealed
    BY <2>2, RelayView
  <2> QED
    BY <2>1, <2>2
<1> QED
  BY <1>3, <1>4

LEMMA RelayStep ==
    ASSUME ForwardingInv, [Next]_vars
    PROVE  Relay!RelayNext
<1> USE DEF ForwardingInv, disk, history
<1> SUFFICES ASSUME NEW h \in Htlc
             PROVE  \/ Relay!KeepIncoming(h) /\ Relay!KeepOutgoing(h)
                    \/ Relay!Receive(h) \/ Relay!Offer(h) \/ Relay!Resolve(h)
                    \/ Relay!SettleBack(h) \/ Relay!FailBack(h)
  BY DEF Relay!RelayNext
<1> DEFINE Seen == \/ Relay!KeepIncoming(h) /\ Relay!KeepOutgoing(h)
                   \/ Relay!Receive(h) \/ Relay!Offer(h) \/ Relay!Resolve(h)
                   \/ Relay!SettleBack(h) \/ Relay!FailBack(h)
<1>1. ASSUME Incoming'[h] = Incoming[h] /\ Outgoing'[h] = Outgoing[h]
      PROVE  Seen
  BY <1>1 DEF Relay!KeepIncoming, Relay!KeepOutgoing
<1>2. ASSUME NEW g \in Htlc, LockIn(g)
      PROVE  Seen
  <2>1. UNCHANGED <<ans, out, revealed>> /\ add[g] = "absent" /\ ans[g] = "none"
        /\ add'[h] = IF h = g THEN "locked" ELSE add[h]
    BY <1>2 DEF LockIn, AddInv, TypeOK
  <2>2. CASE h = g
    <3>1. Incoming[h] = "absent" /\ Incoming'[h] = "held" /\ Outgoing'[h] = Outgoing[h]
      BY <2>1, <2>2, RelayView
    <3> QED
      BY <3>1 DEF Relay!Receive, Relay!KeepOutgoing
  <2>3. CASE h # g
    BY <1>1, <2>1, <2>3, NothingSeen
  <2> QED
    BY <2>2, <2>3
<1>3. ASSUME NEW g \in Htlc, ProcessRemoteAdd(g)
      PROVE  Seen
  <2>1. UNCHANGED <<ans, out, revealed>> /\ (add'[h] = "absent" <=> add[h] = "absent")
    BY <1>3 DEF ProcessRemoteAdd, AddInv, TypeOK
  <2> QED
    BY <1>1, <2>1, NothingSeen
<1>4. ASSUME NEW g \in Htlc, HandleDownstreamAdd(g)
      PROVE  Seen
  <2>1. UNCHANGED <<add, ans, revealed>>
        /\ (out'[h] = out[h] \/ (out[h] = "none" /\ out'[h] = "logged"))
    BY <1>4 DEF HandleDownstreamAdd, AddInv, TypeOK
  <2> QED
    BY <1>1, <2>1, NothingSeen
<1>5. ASSUME SignOutgoing
      PROVE  Seen
  <2>1. UNCHANGED <<add, ans, revealed>>
        /\ out'[h] = IF out[h] = "logged" THEN "signed" ELSE out[h]
    BY <1>5 DEF SignOutgoing, Logged
  <2>2. CASE out[h] = "logged"
    <3>1. ans[h] = "none" /\ add[h] # "absent" /\ h \notin revealed
      BY <2>2 DEF AddInv, AnswerInv, Failing, Settling, Signed, TypeOK, Responses
    <3>2. /\ Incoming[h] = "held" /\ Incoming'[h] = Incoming[h]
          /\ Outgoing[h] = "none" /\ Outgoing'[h] = "offered"
      BY <2>1, <2>2, <3>1, RelayView
    <3> QED
      BY <3>2 DEF Relay!Offer, Relay!KeepIncoming
  <2>3. CASE out[h] # "logged"
    BY <1>1, <2>1, <2>3, NothingSeen
  <2> QED
    BY <2>2, <2>3
<1>6. ASSUME NEW g \in Htlc, ReceiveFulfill(g)
      PROVE  Seen
  <2>1. UNCHANGED <<add, ans>> /\ out[g] = "signed" /\ revealed' = revealed \union {g}
        /\ out'[h] = IF h = g THEN "fulfilling" ELSE out[h]
    BY <1>6 DEF ReceiveFulfill, TypeOK
  <2>2. CASE h = g /\ h \notin revealed
    <3>1. /\ Incoming'[h] = Incoming[h]
          /\ Outgoing[h] = "offered" /\ Outgoing'[h] = "settled"
      BY <2>1, <2>2, RelayView
    <3> QED
      BY <3>1 DEF Relay!Resolve, Relay!KeepIncoming
  <2>3. CASE h # g \/ h \in revealed
    <3>1. Incoming'[h] = Incoming[h] /\ Outgoing'[h] = Outgoing[h]
      BY <2>1, <2>3, RelayView
    <3> QED
      BY <1>1, <3>1
  <2> QED
    BY <2>2, <2>3
<1>7. ASSUME NEW g \in Htlc, LockInResponse(g)
      PROVE  Seen
  <2>1. UNCHANGED <<add, ans, revealed>>
    BY <1>7 DEF LockInResponse
  <2>2. \/ out'[h] = out[h]
        \/ out[h] = "fulfilling" /\ out'[h] = "settled"
        \/ out[h] = "signed" /\ out'[h] = "failed" /\ h \notin revealed
    BY <1>7 DEF LockInResponse, TypeOK
  <2>3. CASE out[h] = "signed" /\ out'[h] = "failed" /\ h \notin revealed
    <3>1. /\ Incoming'[h] = Incoming[h]
          /\ Outgoing[h] = "offered" /\ Outgoing'[h] = "failed"
      BY <2>1, <2>3, RelayView
    <3> QED
      BY <3>1 DEF Relay!Resolve, Relay!KeepIncoming
  <2>4. CASE out[h] = "fulfilling" /\ out'[h] = "settled"
    BY <1>1, <2>1, <2>4, NothingSeen DEF AnswerInv, Settling
  <2>5. CASE out'[h] = out[h]
    BY <1>1, <2>1, <2>5, NothingSeen
  <2> QED
    BY <2>2, <2>3, <2>4, <2>5
<1>8. ASSUME SignIncoming
      PROVE  Seen
  <2>1. /\ UNCHANGED <<out, revealed>>
        /\ ans'[h] = IF inLog[h] # "none" THEN inLog[h] ELSE ans[h]
        /\ add'[h] = IF inLog[h] # "none" THEN "acked" ELSE add[h]
    BY <1>8 DEF SignIncoming
  <2>2. CASE inLog[h] = "none"
    <3>1. Incoming'[h] = Incoming[h] /\ Outgoing'[h] = Outgoing[h]
      BY <2>1, <2>2, RelayView
    <3> QED
      BY <1>1, <3>1
  <2>3. CASE inLog[h] # "none"
    <3>1. /\ ans[h] = "none" /\ inLog[h] = replyBox[h].res /\ add[h] # "absent"
      BY <2>3 DEF AddInv
    <3>2. Incoming[h] = "held" /\ Outgoing'[h] = Outgoing[h]
      BY <2>1, <3>1, RelayView
    <3>3. CASE inLog[h] = "settle"
      <4>1. h \in revealed /\ out[h] \notin {"none", "logged", "failed"}
        BY <3>1, <3>3 DEF AnswerInv, Settling, Signed
      <4>2. Incoming'[h] = "settled" /\ Outgoing[h] = "settled"
        BY <2>1, <3>3, <4>1, RelayView
      <4> QED
        BY <3>2, <4>2 DEF Relay!SettleBack, Relay!KeepOutgoing
    <3>4. CASE inLog[h] = "fail"
      <4>1. out[h] \in {"none", "failed"} /\ h \notin revealed
        BY <3>1, <3>4 DEF AnswerInv, Failing, Signed
      <4>2. Incoming'[h] = "failed" /\ Outgoing[h] \in {"none", "failed"}
        BY <2>1, <3>4, <4>1, RelayView
      <4> QED
        BY <3>2, <4>2 DEF Relay!FailBack, Relay!KeepOutgoing
    <3> QED
      BY <2>3, <3>3, <3>4 DEF TypeOK, Responses
  <2> QED
    BY <2>2, <2>3
<1>9. ASSUME StopOutgoing \/ Restart
      PROVE  Seen
  <2>1. UNCHANGED <<add, ans, revealed, idx>>
    BY <1>9 DEF StopOutgoing, Restart
  <2>2. out'[h] = IF out[h] = "logged" THEN "none"
                  ELSE IF out[h] = "fulfilling" THEN "signed" ELSE out[h]
    BY <1>9, UnsignedForgotten DEF StopOutgoing, Restart
  <2>3. out[h] = "fulfilling" => h \in revealed
    BY DEF AnswerInv, Settling
  <2> QED
    BY <1>1, <2>1, <2>2, <2>3, NothingSeen
<1>10. ASSUME UNCHANGED <<add, ans, out, revealed>>
       PROVE  Seen
  BY <1>1, <1>10, NothingSeen
<1>11. ASSUME NEW g \in Htlc,
              \/ CommitCircuits(g) \/ HandlePacketForwardAdd(g) \/ ExpireAdd(g)
              \/ HandleDownstreamResponse(g)
       PROVE  Seen
  BY <1>10, <1>11 DEF CommitCircuits, HandlePacketForwardAdd, ExpireAdd,
                      HandleDownstreamResponse
<1>12. ASSUME NEW p \in Packet, HandlePacketForwardResponse(p)
       PROVE  Seen
  BY <1>10, <1>12 DEF HandlePacketForwardResponse
<1>13. ASSUME \/ OpenCircuits \/ AckSettleFails \/ AckDownStreamPackets
              \/ StopIncoming \/ StartIncoming \/ StartOutgoing
       PROVE  Seen
  BY <1>10, <1>13 DEF OpenCircuits, AckSettleFails, AckDownStreamPackets,
                      StopIncoming, StartIncoming, StartOutgoing
<1>14. ASSUME UNCHANGED vars
       PROVE  Seen
  BY <1>10, <1>14 DEF vars
<1> HIDE DEF Seen
<1>15. Seen
  BY <1>2, <1>3, <1>4, <1>5, <1>6, <1>7, <1>8, <1>9, <1>11, <1>12, <1>13, <1>14 DEF Next
<1> QED
  BY <1>15 DEF Seen

\* The forwarding node implements HtlcRelay, for any finite set of HTLCs and any
\* number of restarts and flaps: it takes an incoming HTLC only with the preimage,
\* gives it back only when the outgoing one can no longer be taken, offers it on
\* at most once, and answers it at most once.
THEOREM ForwardingRelays == Spec => Relays
<1>1. Init => Relay!RelayInit
  <2> SUFFICES ASSUME Init PROVE Relay!RelayInit
    OBVIOUS
  <2>1. Incoming = [h \in Htlc |-> "absent"]
    BY DEF Init, Incoming
  <2>2. Outgoing = [h \in Htlc |-> "none"]
    BY DEF Init, Outgoing
  <2> QED
    BY <2>1, <2>2 DEF Relay!RelayInit
<1>2. ForwardingInv /\ [Next]_vars => [Relay!RelayNext]_(Relay!relayVars)
  BY RelayStep
<1> QED
  BY <1>1, <1>2, ForwardingInvariant, PTL DEF Spec, Relays, Relay!RelaySpec
=============================================================================
