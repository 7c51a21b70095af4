---------------------- MODULE ChannelArbitratorProofs ----------------------
(***************************************************************************)
(* Proofs about ChannelArbitrator, for any number of HTLCs on any of the     *)
(* commitments, any number of blocks and any number of restarts and failing    *)
(* calls between any two steps.                                              *)
(***************************************************************************)
EXTENDS ChannelArbitrator, TLAPS

\* The state is s, or is about to become s.
AtState(s) == state = s \/ (pc = "commit" /\ next = s)
\* The state that the arbitrator is in or is about to commit.
Target == IF pc = "commit" THEN next ELSE state

\* The switch was told about every outgoing HTLC, or a contract is left that will
\* tell it, or its output waits for such a contract.
Answered == \A h \in Outgoing : sc.place[h] # {} => told[h] # "none"
Covered ==
    \A h \in Outgoing : sc.place[h] # {} => told[h] # "none" \/ contract[h] \in {"contest", "final"}
OutputsLeft ==
    \A h \in Outgoing :
        sc.place[h] # {} => told[h] # "none" \/ (confirmed \in Commitment /\ h \in Output(confirmed))

\* What is written before the channel is marked closed, and which trigger a close
\* gives to the state machine.
CloseInv ==
    /\ pc \in {"log", "set"} => confirmed \notin {"none", "coop"}
    /\ pc = "set" => resolutions
    /\ pc = "close" \/ closed => confirmed # "none" /\ (confirmed # "coop" => resolutions /\ commitSet)
    /\ confirmed = "coop" => \A h \in Htlc : sc.place[h] = {}
    /\ IsClose => closed /\ trigger.kind = CloseTrigger /\ (confirmed # "coop" => trigger.set)

\* An output is spent only on the commitment that confirmed, and an HTLC was failed
\* only when no output of it is left to be claimed.
AnswerInv ==
    /\ \A h \in Htlc : spent[h] # "none" => confirmed \in Commitment /\ h \in Output(confirmed)
    /\ \A h \in Outgoing :
        /\ told[h] = "fail" => /\ confirmed # "none"
                               /\ \/ spent[h] = "timedout" \/ confirmed \notin Commitment
                                  \/ h \notin Output(confirmed)
        /\ told[h] = "settle" => spent[h] = "claimed"

\* Where the state machine is.
StateInv ==
    /\ AtState("ContractClosed") => confirmed \notin {"none", "coop"}
    /\ pc = "insert" => state = "ContractClosed"
    /\ pc \in {"store", "publish"} => state = "BroadcastCommit"

\* A resolver that is done has told the switch.
ResolverInv == \A h \in Outgoing : run[h] \in {"checkpoint", "delete"} => told[h] # "none"

\* What the state machine has done by each state, unless Start ran one again.
ProgressInv ==
    /\ Target = "ContractClosed" /\ pc \in {"step", "insert", "commit"} => IsClose
    /\ pc = "insert" => OutputsLeft
    /\ AtState("WaitingFullResolution") => Covered
    /\ AtState("FullyResolved") \/ resolved => Answered
    /\ (\E c \in Contract : run[c] # "off") => Target \in {"WaitingFullResolution", "FullyResolved"}

ArbitratorInv ==
    TypeOK /\ CloseInv /\ AnswerInv /\ StateInv /\ ResolverInv /\ (~rerun => ProgressInv)
-----------------------------------------------------------------------------
(* What steps leave alone. *)

LEMMA AnswerSame ==
    ASSUME AnswerInv, UNCHANGED <<sc, confirmed, spent, told>>
    PROVE  AnswerInv'
BY DEF AnswerInv, Output, On

LEMMA CloseSame ==
    ASSUME CloseInv, UNCHANGED <<sc, confirmed, closed, trigger>>,
           resolutions => resolutions', commitSet => commitSet',
           pc' \in {"log", "set", "close"} => pc' = pc
    PROVE  CloseInv'
BY DEF CloseInv, IsClose, CloseTrigger

\* The switch keeps its first message about an HTLC.
ToldGrows == \A h \in Outgoing : told[h] # "none" => told'[h] # "none"
\* A contract that is to tell the switch stays until it has.
ContractsKept ==
    \A h \in Outgoing : contract[h] \in {"contest", "final"} =>
        contract'[h] \in {"contest", "final"} \/ told'[h] # "none"

LEMMA CoveredKept ==
    ASSUME sc' = sc, ToldGrows, ContractsKept
    PROVE  (Covered => Covered') /\ (Answered => Answered') /\ (Answered => Covered')
BY DEF Covered, Answered, ToldGrows, ContractsKept

LEMMA OutputsKept ==
    ASSUME sc' = sc, confirmed' = confirmed, ToldGrows
    PROVE  OutputsLeft => OutputsLeft'
BY DEF OutputsLeft, ToldGrows, Output, On

LEMMA NothingTold ==
    ASSUME UNCHANGED <<told, contract>>
    PROVE  ToldGrows /\ ContractsKept
BY DEF ToldGrows, ContractsKept

LEMMA ResolverSame ==
    ASSUME ResolverInv, run' = run, ToldGrows
    PROVE  ResolverInv'
BY DEF ResolverInv, ToldGrows

\* A step that is not one of the state machine.
LEMMA MachineSame ==
    ASSUME StateInv, ~rerun => ProgressInv, UNCHANGED <<sc, state, pc, next, rerun, resolved, trigger>>,
           confirmed' = confirmed, ToldGrows, ContractsKept,
           \A c \in Contract : run'[c] # "off" => run[c] # "off"
    PROVE  StateInv' /\ (~rerun' => ProgressInv')
<1>1. StateInv'
  BY DEF StateInv, AtState
<1>2. ASSUME ~rerun PROVE ProgressInv'
  <2>1. Target' = Target /\ IsClose' = IsClose /\ \A s : AtState(s)' = AtState(s)
    BY DEF Target, IsClose, AtState
  <2>2. ProgressInv
    BY <1>2
  <2> QED
    BY <2>1, <2>2, CoveredKept, OutputsKept DEF ProgressInv, AtState
<1> QED
  BY <1>1, <1>2

-----------------------------------------------------------------------------
(* The chain and the channel. *)

LEMMA StepNewBlock ==
    ASSUME ArbitratorInv, NewBlock
    PROVE  ArbitratorInv'
<1>1. TypeOK /\ CloseInv /\ AnswerInv /\ StateInv /\ ResolverInv /\ (~rerun => ProgressInv)
  BY DEF ArbitratorInv
<1>2. /\ height < MaxHeight /\ height' = height + 1
      /\ UNCHANGED <<sc, confirmed, spentAt, published, spent, known, told, state, resolutions,
                     commitSet, stored, closed, resolved, contract, pc, trigger, next, boot, run,
                     seen, failed, rerun, faults>>
  BY DEF NewBlock, disk, memory
<1>3. TypeOK'
  BY <1>1, <1>2, ArbitratorAssumption DEF TypeOK
<1>4. CloseInv' /\ AnswerInv'
  BY <1>1, <1>2, CloseSame, AnswerSame
<1>5. ResolverInv' /\ StateInv' /\ (~rerun' => ProgressInv')
  BY <1>1, <1>2, NothingTold, ResolverSame, MachineSame
<1> QED
  BY <1>3, <1>4, <1>5 DEF ArbitratorInv

LEMMA StepConfirm ==
    ASSUME ArbitratorInv, NEW k \in Commitment \union {"coop", "breach"}, Confirm(k)
    PROVE  ArbitratorInv'
<1>1. TypeOK /\ CloseInv /\ AnswerInv /\ StateInv /\ ResolverInv /\ (~rerun => ProgressInv)
  BY DEF ArbitratorInv
<1>2. /\ confirmed = "none" /\ confirmed' = k /\ spentAt' = height
      /\ k = "coop" => \A h \in Htlc : sc.place[h] = {}
      /\ UNCHANGED <<sc, height, published, spent, known, told, state, resolutions,
                     commitSet, stored, closed, resolved, contract, pc, trigger, next, boot, run,
                     seen, failed, rerun, faults>>
  BY DEF Confirm, disk, memory
<1>3. TypeOK'
  BY <1>1, <1>2 DEF TypeOK, Commitment
<1>4. k # "none"
  BY DEF Commitment
<1>5. CloseInv'
  BY <1>1, <1>2, <1>4 DEF CloseInv, IsClose
<1>6. \A h \in Htlc : spent[h] = "none"
  BY <1>1, <1>2 DEF AnswerInv, Commitment
<1>7. \A h \in Outgoing : told[h] \notin {"fail", "settle"}
  BY <1>1, <1>2, <1>6 DEF AnswerInv, Htlc
<1>8. AnswerInv'
  BY <1>2, <1>6, <1>7 DEF AnswerInv
<1>9. ~AtState("ContractClosed") /\ pc # "insert"
  BY <1>1, <1>2 DEF StateInv, AtState
<1>10. StateInv'
  BY <1>1, <1>2, <1>9 DEF StateInv, AtState
<1>11. ResolverInv'
  BY <1>1, <1>2, NothingTold, ResolverSame
<1>12. ASSUME ~rerun PROVE ProgressInv'
  <2>1. Covered = Covered' /\ Answered = Answered'
    BY <1>2 DEF Covered, Answered
  <2> QED
    BY <1>1, <1>2, <1>9, <1>12, <2>1 DEF ProgressInv, AtState, Target, IsClose
<1> QED
  BY <1>2, <1>3, <1>5, <1>8, <1>10, <1>11, <1>12 DEF ArbitratorInv

LEMMA StepLearnPreimage ==
    ASSUME ArbitratorInv, NEW h \in Htlc, LearnPreimage(h)
    PROVE  ArbitratorInv'
<1>1. TypeOK /\ CloseInv /\ AnswerInv /\ StateInv /\ ResolverInv /\ (~rerun => ProgressInv)
  BY DEF ArbitratorInv
<1>2. /\ h \in Incoming /\ known' = known \union {h}
      /\ UNCHANGED <<sc, height, confirmed, spentAt, published, spent, told, state, resolutions,
                     commitSet, stored, closed, resolved, contract, pc, trigger, next, boot, run,
                     seen, failed, rerun, faults>>
  BY DEF LearnPreimage, chain, memory
<1>3. TypeOK'
  BY <1>1, <1>2 DEF TypeOK
<1>4. CloseInv' /\ AnswerInv'
  BY <1>1, <1>2, CloseSame, AnswerSame
<1>5. ResolverInv' /\ StateInv' /\ (~rerun' => ProgressInv')
  BY <1>1, <1>2, NothingTold, ResolverSame, MachineSame
<1> QED
  BY <1>3, <1>4, <1>5 DEF ArbitratorInv

\* An output is spent, by either side.
LEMMA SpendStep ==
    ASSUME ArbitratorInv, NEW h \in Htlc, NEW how \in {"claimed", "timedout"},
           OnChain(h), Spend(h, how)
    PROVE  ArbitratorInv'
<1>1. TypeOK /\ CloseInv /\ AnswerInv /\ StateInv /\ ResolverInv /\ (~rerun => ProgressInv)
  BY DEF ArbitratorInv
<1>2. /\ spent' = [spent EXCEPT ![h] = how]
      /\ confirmed \in Commitment /\ h \in Output(confirmed) /\ spent[h] = "none"
      /\ UNCHANGED <<sc, height, confirmed, spentAt, published, known, told, state, resolutions,
                     commitSet, stored, closed, resolved, contract, pc, trigger, next, boot, run,
                     seen, failed, rerun, faults>>
  BY DEF Spend, OnChain, disk, memory
<1>3. TypeOK'
  BY <1>1, <1>2 DEF TypeOK
<1>4. CloseInv'
  BY <1>1, <1>2, CloseSame
<1>5. spent'[h] = how /\ \A g \in Htlc : g # h => spent'[g] = spent[g]
  BY <1>1, <1>2 DEF TypeOK
<1>6. h \in Outgoing => told[h] \notin {"fail", "settle"}
  BY <1>1, <1>2 DEF AnswerInv
<1>7. AnswerInv'
  <2>1. Output(confirmed)' = Output(confirmed) /\ confirmed' = confirmed
    BY <1>2 DEF Output, On
  <2>2. \A g \in Htlc : spent'[g] # "none" => confirmed \in Commitment /\ g \in Output(confirmed)
    BY <1>1, <1>2, <1>5 DEF AnswerInv
  <2>3. \A g \in Outgoing : g \in Htlc
    BY DEF Htlc
  <2>4. \A g \in Outgoing :
          /\ told[g] = "fail" => /\ confirmed # "none"
                                 /\ \/ spent'[g] = "timedout" \/ confirmed \notin Commitment
                                    \/ g \notin Output(confirmed)
          /\ told[g] = "settle" => spent'[g] = "claimed"
    BY <1>1, <1>5, <1>6, <2>3 DEF AnswerInv
  <2> QED
    BY <1>2, <2>1, <2>2, <2>4 DEF AnswerInv
<1>8. ResolverInv' /\ StateInv' /\ (~rerun' => ProgressInv')
  BY <1>1, <1>2, NothingTold, ResolverSame, MachineSame
<1> QED
  BY <1>3, <1>4, <1>7, <1>8 DEF ArbitratorInv

LEMMA StepClaimTimeOut ==
    ASSUME ArbitratorInv, NEW h \in Htlc, Claim(h) \/ TimeOut(h)
    PROVE  ArbitratorInv'
<1>1. CASE Claim(h)
  <2>1. OnChain(h) /\ Spend(h, "claimed")
    BY <1>1 DEF Claim
  <2> QED
    BY <2>1, SpendStep
<1>2. CASE TimeOut(h)
  <2>1. OnChain(h) /\ Spend(h, "timedout")
    BY <1>2 DEF TimeOut
  <2> QED
    BY <2>1, SpendStep
<1> QED
  BY <1>1, <1>2
-----------------------------------------------------------------------------
(* The state machine. *)

Kinds == {"chain", "user", "local", "remote", "coop", "breach"}
Triggers == [kind : Kinds, height : 0..MaxHeight, set : BOOLEAN, grace : BOOLEAN]

\* What a step of the state machine that makes no contracts may do.
Follows ==
    /\ Target' = "ContractClosed" /\ pc' \in {"step", "insert", "commit"} => IsClose'
    /\ pc' # "insert"
    /\ AtState("WaitingFullResolution")' => AtState("WaitingFullResolution")
    /\ AtState("FullyResolved")' => Answered
    /\ Target \in {"WaitingFullResolution", "FullyResolved"}
          => Target' \in {"WaitingFullResolution", "FullyResolved"}

LEMMA MachineStep ==
    ASSUME ArbitratorInv, TypeOK', CloseInv', StateInv',
           UNCHANGED <<sc, confirmed, spent, told, contract, run, resolved, rerun>>,
           ~rerun => Follows
    PROVE  ArbitratorInv'
<1>1. AnswerInv /\ ResolverInv /\ (~rerun => ProgressInv)
  BY DEF ArbitratorInv
<1>2. AnswerInv' /\ ResolverInv'
  BY <1>1, AnswerSame, ResolverSame, NothingTold
<1>3. ASSUME ~rerun PROVE ProgressInv'
  <2>1. (Covered => Covered') /\ (Answered => Answered')
    BY NothingTold, CoveredKept
  <2>2. ProgressInv /\ Follows
    BY <1>1, <1>3
  <2> QED
    BY <2>1, <2>2 DEF ProgressInv, Follows
<1> QED
  BY <1>2, <1>3 DEF ArbitratorInv

LEMMA StepHandleBlock ==
    ASSUME ArbitratorInv, HandleBlock
    PROVE  ArbitratorInv'
<1>1. TypeOK /\ CloseInv /\ AnswerInv /\ StateInv /\ ResolverInv /\ (~rerun => ProgressInv)
  BY DEF ArbitratorInv
<1>2. /\ pc = "idle" /\ seen' = height
      /\ \/ UNCHANGED <<pc, trigger>>
         \/ /\ state = "Default" /\ pc' = "step"
            /\ \E grace \in BOOLEAN :
                 trigger' = [kind |-> "chain", height |-> height, set |-> FALSE, grace |-> grace]
      /\ UNCHANGED <<sc, height, confirmed, spentAt, published, spent, known, told, state,
                     resolutions, commitSet, stored, closed, resolved, contract, next, boot, run,
                     failed, rerun, faults>>
  BY DEF HandleBlock, Advance, chain, disk
<1>3. CASE UNCHANGED <<pc, trigger>>
  <2>1. TypeOK'
    BY <1>1, <1>2, <1>3 DEF TypeOK
  <2>2. CloseInv' /\ AnswerInv'
    BY <1>1, <1>2, <1>3, CloseSame, AnswerSame
  <2>3. ResolverInv' /\ StateInv' /\ (~rerun' => ProgressInv')
    BY <1>1, <1>2, <1>3, NothingTold, ResolverSame, MachineSame
  <2> QED
    BY <2>1, <2>2, <2>3 DEF ArbitratorInv
<1>4. CASE /\ state = "Default" /\ pc' = "step"
           /\ \E grace \in BOOLEAN :
                trigger' = [kind |-> "chain", height |-> height, set |-> FALSE, grace |-> grace]
  <2>1. trigger' \in Triggers /\ trigger'.kind = "chain"
    <3>1. PICK grace \in BOOLEAN :
             trigger' = [kind |-> "chain", height |-> height, set |-> FALSE, grace |-> grace]
      BY <1>4
    <3> QED
      BY <1>1, <3>1 DEF TypeOK, Triggers, Kinds
  <2>2. TypeOK'
    BY <1>1, <1>2, <1>4, <2>1 DEF TypeOK, Triggers, Kinds
  <2>3. CloseInv'
    BY <1>1, <1>2, <1>4, <2>1 DEF CloseInv, IsClose
  <2>4. StateInv'
    BY <1>1, <1>2, <1>4 DEF StateInv, AtState
  <2>5. Follows
    BY <1>2, <1>4 DEF Follows, AtState, Target
  <2> QED
    BY <1>2, <2>2, <2>3, <2>4, <2>5, MachineStep
<1> QED
  BY <1>2, <1>3, <1>4

LEMMA StepHandleForceClose ==
    ASSUME ArbitratorInv, HandleForceClose
    PROVE  ArbitratorInv'
<1>1. TypeOK /\ CloseInv /\ AnswerInv /\ StateInv /\ ResolverInv /\ (~rerun => ProgressInv)
  BY DEF ArbitratorInv
<1>2. /\ pc = "idle" /\ state = "Default" /\ pc' = "step"
      /\ \E grace \in BOOLEAN :
           trigger' = [kind |-> "user", height |-> seen, set |-> FALSE, grace |-> grace]
      /\ UNCHANGED <<sc, height, confirmed, spentAt, published, spent, known, told, state,
                     resolutions, commitSet, stored, closed, resolved, contract, next, boot, run,
                     seen, failed, rerun, faults>>
  BY DEF HandleForceClose, Advance, chain, disk
<1>7. trigger' \in Triggers /\ trigger'.kind = "user" /\ trigger'.set = FALSE
  <2>1. PICK grace \in BOOLEAN :
           trigger' = [kind |-> "user", height |-> seen, set |-> FALSE, grace |-> grace]
    BY <1>2
  <2> QED
    BY <1>1, <1>2, <2>1 DEF TypeOK, Triggers, Kinds
<1>3. TypeOK'
  BY <1>1, <1>2, <1>7 DEF TypeOK, Triggers, Kinds
<1>4. CloseInv'
  BY <1>1, <1>2, <1>7 DEF CloseInv, IsClose
<1>5. StateInv'
  BY <1>1, <1>2 DEF StateInv, AtState
<1>6. ASSUME ~rerun PROVE Follows
  BY <1>1, <1>2, <1>6 DEF Follows, AtState, Target
<1> QED
  BY <1>2, <1>3, <1>4, <1>5, <1>6, MachineStep

LEMMA StepHandleClose ==
    ASSUME ArbitratorInv, HandleClose
    PROVE  ArbitratorInv'
<1>1. TypeOK /\ CloseInv /\ AnswerInv /\ StateInv /\ ResolverInv /\ (~rerun => ProgressInv)
  BY DEF ArbitratorInv
<1>2. /\ pc = "idle" /\ confirmed # "none"
      /\ pc' = (IF confirmed = "coop" THEN "close" ELSE "log")
      /\ UNCHANGED <<sc, height, confirmed, spentAt, published, spent, known, told, state,
                     resolutions, commitSet, stored, closed, resolved, contract, trigger, next,
                     boot, run, seen, failed, rerun, faults>>
  BY DEF HandleClose, chain, disk
<1>3. TypeOK'
  BY <1>1, <1>2 DEF TypeOK
<1>4. CloseInv'
  BY <1>1, <1>2 DEF CloseInv, IsClose, CloseTrigger
<1>5. StateInv'
  BY <1>1, <1>2 DEF StateInv, AtState
<1>6. ASSUME ~rerun PROVE Follows
  BY <1>1, <1>2, <1>6 DEF ProgressInv, Follows, AtState, Target, IsClose
<1> QED
  BY <1>2, <1>3, <1>4, <1>5, <1>6, MachineStep

LEMMA StepLogContractResolutions ==
    ASSUME ArbitratorInv, LogContractResolutions
    PROVE  ArbitratorInv'
<1>1. TypeOK /\ CloseInv /\ AnswerInv /\ StateInv /\ ResolverInv /\ (~rerun => ProgressInv)
  BY DEF ArbitratorInv
<1>2. /\ pc = "log" /\ pc' = "set" /\ resolutions' = TRUE
      /\ UNCHANGED <<sc, height, confirmed, spentAt, published, spent, known, told, state,
                     commitSet, stored, closed, resolved, contract, trigger, next, boot, run,
                     seen, failed, rerun, faults>>
  BY DEF LogContractResolutions, chain
<1>3. TypeOK'
  BY <1>1, <1>2 DEF TypeOK
<1>4. CloseInv'
  BY <1>1, <1>2 DEF CloseInv, IsClose, CloseTrigger
<1>5. StateInv'
  BY <1>1, <1>2 DEF StateInv, AtState
<1>6. ASSUME ~rerun PROVE Follows
  BY <1>1, <1>2, <1>6 DEF ProgressInv, Follows, AtState, Target, IsClose
<1> QED
  BY <1>2, <1>3, <1>4, <1>5, <1>6, MachineStep

LEMMA StepInsertConfirmedCommitSet ==
    ASSUME ArbitratorInv, InsertConfirmedCommitSet
    PROVE  ArbitratorInv'
<1>1. TypeOK /\ CloseInv /\ AnswerInv /\ StateInv /\ ResolverInv /\ (~rerun => ProgressInv)
  BY DEF ArbitratorInv
<1>2. /\ pc = "set" /\ pc' = "close" /\ commitSet' = TRUE
      /\ UNCHANGED <<sc, height, confirmed, spentAt, published, spent, known, told, state,
                     resolutions, stored, closed, resolved, contract, trigger, next, boot, run,
                     seen, failed, rerun, faults>>
  BY DEF InsertConfirmedCommitSet, chain
<1>3. TypeOK'
  BY <1>1, <1>2 DEF TypeOK
<1>4. CloseInv'
  BY <1>1, <1>2 DEF CloseInv, IsClose, CloseTrigger
<1>5. StateInv'
  BY <1>1, <1>2 DEF StateInv, AtState
<1>6. ASSUME ~rerun PROVE Follows
  BY <1>1, <1>2, <1>6 DEF ProgressInv, Follows, AtState, Target, IsClose
<1> QED
  BY <1>2, <1>3, <1>4, <1>5, <1>6, MachineStep

LEMMA StepMarkChannelClosed ==
    ASSUME ArbitratorInv, MarkChannelClosed
    PROVE  ArbitratorInv'
<1>1. TypeOK /\ CloseInv /\ AnswerInv /\ StateInv /\ ResolverInv /\ (~rerun => ProgressInv)
  BY DEF ArbitratorInv
<1>2. /\ pc = "close" /\ pc' = "step" /\ closed' = TRUE
      /\ \E grace \in BOOLEAN :
           trigger' = [kind |-> CloseTrigger, height |-> spentAt, set |-> confirmed # "coop", grace |-> grace]
      /\ UNCHANGED <<sc, height, confirmed, spentAt, published, spent, known, told, state,
                     resolutions, commitSet, stored, resolved, contract, next, boot, run, seen,
                     failed, rerun, faults>>
  BY DEF MarkChannelClosed, Advance, chain
<1>8. /\ confirmed # "none" /\ CloseTrigger \in {"local", "remote", "coop", "breach"}
      /\ spentAt \in 0..MaxHeight /\ (confirmed # "coop") \in BOOLEAN
  BY <1>1, <1>2 DEF CloseInv, TypeOK, CloseTrigger, Commitment
<1>7. trigger' \in Triggers /\ trigger'.kind = CloseTrigger /\ trigger'.set = (confirmed # "coop")
  <2>1. PICK grace \in BOOLEAN :
           trigger' = [kind |-> CloseTrigger, height |-> spentAt, set |-> (confirmed # "coop"), grace |-> grace]
    BY <1>2
  <2> QED
    BY <1>8, <2>1 DEF TypeOK, Triggers, Kinds
<1>3. TypeOK'
  BY <1>1, <1>2, <1>7 DEF TypeOK, Triggers, Kinds
<1>4. CloseInv'
  BY <1>1, <1>2, <1>7 DEF CloseInv, IsClose, CloseTrigger
<1>5. StateInv'
  BY <1>1, <1>2 DEF StateInv, AtState
<1>6. ASSUME ~rerun PROVE Follows
  BY <1>1, <1>2, <1>6, <1>7, <1>8 DEF ProgressInv, Follows, AtState, Target, IsClose
<1> QED
  BY <1>2, <1>3, <1>4, <1>5, <1>6, MachineStep

\* Where a close leads: to contracts, or to the end when there is no HTLC.
LEMMA AfterCloseFacts ==
    ASSUME ArbitratorInv, IsClose
    PROVE  \/ AfterClose = "ContractClosed" /\ confirmed \notin {"none", "coop"}
           \/ AfterClose = "FullyResolved" /\ Answered
<1>1. /\ closed /\ trigger.kind = CloseTrigger /\ confirmed # "none"
      /\ confirmed # "coop" => resolutions
      /\ confirmed = "coop" => \A h \in Htlc : sc.place[h] = {}
  BY DEF ArbitratorInv, CloseInv
<1>2. CASE confirmed = "coop"
  <2>1. AfterClose = "FullyResolved"
    BY <1>1, <1>2 DEF AfterClose, CloseTrigger
  <2> QED
    BY <1>1, <1>2, <2>1 DEF Answered, Htlc
<1>3. CASE confirmed # "coop"
  <2>1. trigger.kind # "coop" /\ resolutions
    BY <1>1, <1>3 DEF CloseTrigger
  <2> QED
    BY <1>1, <1>3, <2>1 DEF AfterClose
<1> QED
  BY <1>2, <1>3

\* A step of a state that comes before the close was handled.
LEMMA EarlyStep ==
    ASSUME ArbitratorInv, pc = "step",
           state \in {"Default", "BroadcastCommit", "CommitmentBroadcasted"},
           \/ pc' = "idle" /\ boot' \in BOOLEAN /\ next' = next
           \/ pc' = "store" /\ state = "BroadcastCommit" /\ boot' = boot /\ next' = next
           \/ pc' = "commit" /\ next' = "BroadcastCommit" /\ boot' = boot
           \/ pc' = "commit" /\ next' = AfterClose /\ IsClose /\ boot' = boot,
           UNCHANGED <<sc, height, confirmed, spentAt, published, spent, known, told, state,
                       resolutions, commitSet, stored, closed, resolved, contract, trigger, run,
                       seen, failed, rerun, faults>>
    PROVE  ArbitratorInv'
<1>1. TypeOK /\ CloseInv /\ AnswerInv /\ StateInv /\ ResolverInv /\ (~rerun => ProgressInv)
  BY DEF ArbitratorInv
<1>2. IsClose => \/ AfterClose = "ContractClosed" /\ confirmed \notin {"none", "coop"}
                 \/ AfterClose = "FullyResolved" /\ Answered
  BY AfterCloseFacts
<1>3. TypeOK'
  BY <1>1, <1>2 DEF TypeOK, States
<1>4. CloseInv'
  BY <1>1, CloseSame
<1>5. StateInv'
  BY <1>1, <1>2 DEF StateInv, AtState
<1>6. Follows
  BY <1>2 DEF Follows, AtState, Target, IsClose
<1> QED
  BY <1>3, <1>4, <1>5, <1>6, MachineStep

LEMMA DefaultStep ==
    ASSUME ArbitratorInv, StepDefault
    PROVE  ArbitratorInv'
BY EarlyStep DEF StepDefault, Ends, Goes, chain, disk

LEMMA BroadcastCommitStep ==
    ASSUME ArbitratorInv, StepBroadcastCommit
    PROVE  ArbitratorInv'
BY EarlyStep DEF StepBroadcastCommit, Ends, Goes, chain, disk

LEMMA CommitmentBroadcastedStep ==
    ASSUME ArbitratorInv, StepCommitmentBroadcasted
    PROVE  ArbitratorInv'
BY EarlyStep DEF StepCommitmentBroadcasted, Ends, Goes, chain, disk

LEMMA StepMarkCommitmentBroadcasted ==
    ASSUME ArbitratorInv, MarkCommitmentBroadcasted
    PROVE  ArbitratorInv'
<1>1. TypeOK /\ CloseInv /\ AnswerInv /\ StateInv /\ ResolverInv /\ (~rerun => ProgressInv)
  BY DEF ArbitratorInv
<1>2. /\ pc = "store" /\ pc' = "publish" /\ stored' = TRUE
      /\ UNCHANGED <<sc, height, confirmed, spentAt, published, spent, known, told, state,
                     resolutions, commitSet, closed, resolved, contract, trigger, next, boot, run,
                     seen, failed, rerun, faults>>
  BY DEF MarkCommitmentBroadcasted, chain
<1>7. state = "BroadcastCommit"
  BY <1>1, <1>2 DEF StateInv
<1>3. TypeOK'
  BY <1>1, <1>2 DEF TypeOK
<1>4. CloseInv'
  BY <1>1, <1>2, CloseSame
<1>5. StateInv'
  BY <1>1, <1>2 DEF StateInv, AtState
<1>6. ASSUME ~rerun PROVE Follows
  BY <1>1, <1>2, <1>6, <1>7 DEF ProgressInv, Follows, AtState, Target, IsClose
<1> QED
  BY <1>2, <1>3, <1>4, <1>5, <1>6, MachineStep

LEMMA StepPublishTx ==
    ASSUME ArbitratorInv, PublishTx
    PROVE  ArbitratorInv'
<1>1. TypeOK /\ CloseInv /\ AnswerInv /\ StateInv /\ ResolverInv /\ (~rerun => ProgressInv)
  BY DEF ArbitratorInv
<1>2. /\ pc = "publish" /\ pc' = "commit" /\ next' = "CommitmentBroadcasted"
      /\ published' = (published \/ confirmed = "none")
      /\ UNCHANGED <<sc, height, confirmed, spentAt, spent, known, told, state, resolutions,
                     commitSet, stored, closed, resolved, contract, trigger, boot, run, seen,
                     failed, rerun, faults>>
  BY DEF PublishTx, Goes, disk
<1>7. state = "BroadcastCommit"
  BY <1>1, <1>2 DEF StateInv
<1>3. TypeOK'
  BY <1>1, <1>2 DEF TypeOK, States
<1>4. CloseInv'
  BY <1>1, <1>2, CloseSame
<1>5. StateInv'
  BY <1>1, <1>2 DEF StateInv, AtState
<1>6. ASSUME ~rerun PROVE Follows
  BY <1>1, <1>2, <1>6, <1>7 DEF ProgressInv, Follows, AtState, Target, IsClose
<1> QED
  BY <1>2, <1>3, <1>4, <1>5, <1>6, MachineStep

LEMMA StepCommitState ==
    ASSUME ArbitratorInv, CommitState
    PROVE  ArbitratorInv'
<1>1. TypeOK /\ CloseInv /\ AnswerInv /\ StateInv /\ ResolverInv /\ (~rerun => ProgressInv)
  BY DEF ArbitratorInv
<1>2. /\ pc = "commit" /\ pc' = "step" /\ state' = next
      /\ UNCHANGED <<sc, height, confirmed, spentAt, published, spent, known, told, resolutions,
                     commitSet, stored, closed, resolved, contract, trigger, next, boot, run,
                     seen, failed, rerun, faults>>
  BY DEF CommitState, chain
<1>3. TypeOK'
  BY <1>1, <1>2 DEF TypeOK, States
<1>4. CloseInv'
  BY <1>1, <1>2, CloseSame
<1>5. StateInv'
  BY <1>1, <1>2 DEF StateInv, AtState
<1>6. ASSUME ~rerun PROVE Follows
  BY <1>1, <1>2, <1>6 DEF ProgressInv, Follows, AtState, Target, IsClose
<1> QED
  BY <1>2, <1>3, <1>4, <1>5, <1>6, MachineStep

LEMMA FailingStep ==
    ASSUME ArbitratorInv, StepFails
    PROVE  ArbitratorInv'
<1>1. TypeOK /\ CloseInv /\ AnswerInv /\ StateInv /\ ResolverInv /\ (~rerun => ProgressInv)
  BY DEF ArbitratorInv
<1>2. /\ pc \in {"publish", "step"} /\ pc' \in {"exited", "idle"}
      /\ failed' = TRUE /\ boot' = FALSE /\ faults < MaxFaults /\ faults' = faults + 1
      /\ UNCHANGED <<sc, height, confirmed, spentAt, published, spent, known, told, state,
                     resolutions, commitSet, stored, closed, resolved, contract, trigger, next,
                     run, seen, rerun>>
  BY DEF StepFails, chain, disk
<1>7. faults' \in 0..MaxFaults
  BY <1>1, <1>2, ArbitratorAssumption DEF TypeOK
<1>8. boot' \in BOOLEAN /\ failed' \in BOOLEAN
  BY <1>2
<1>9. /\ pc' \in {"idle", "log", "set", "close", "step", "store", "publish", "insert",
                "commit", "exited"}
  BY <1>2
<1>3. TypeOK'
  BY <1>1, <1>2, <1>7, <1>8, <1>9 DEF TypeOK
<1>4. CloseInv'
  BY <1>1, <1>2, CloseSame
<1>5. StateInv'
  BY <1>1, <1>2 DEF StateInv, AtState
<1>6. ASSUME ~rerun PROVE Follows
  BY <1>1, <1>2, <1>6 DEF ProgressInv, Follows, AtState, Target, IsClose
<1> QED
  BY <1>2, <1>3, <1>4, <1>5, <1>6, MachineStep

LEMMA FullyResolvedStep ==
    ASSUME ArbitratorInv, StepFullyResolved
    PROVE  ArbitratorInv'
<1>1. TypeOK /\ CloseInv /\ AnswerInv /\ StateInv /\ ResolverInv /\ (~rerun => ProgressInv)
  BY DEF ArbitratorInv
<1>2. /\ pc = "step" /\ state = "FullyResolved" /\ pc' = "exited" /\ resolved' = TRUE
      /\ UNCHANGED <<sc, height, confirmed, spentAt, published, spent, known, told, state,
                     resolutions, commitSet, stored, closed, contract, trigger, next, boot, run,
                     seen, failed, rerun, faults>>
  BY DEF StepFullyResolved, chain
<1>3. TypeOK'
  BY <1>1, <1>2 DEF TypeOK
<1>4. CloseInv' /\ AnswerInv' /\ ResolverInv'
  BY <1>1, <1>2, CloseSame, AnswerSame, ResolverSame, NothingTold
<1>5. StateInv'
  BY <1>1, <1>2 DEF StateInv, AtState
<1>6. ASSUME ~rerun PROVE ProgressInv'
  <2>1. (Covered => Covered') /\ (Answered => Answered')
    BY <1>2, NothingTold, CoveredKept
  <2> QED
    BY <1>1, <1>2, <1>6, <2>1 DEF ProgressInv, AtState, Target, IsClose
<1> QED
  BY <1>2, <1>3, <1>4, <1>5, <1>6 DEF ArbitratorInv

LEMMA WaitingFullResolutionStep ==
    ASSUME ArbitratorInv, StepWaitingFullResolution
    PROVE  ArbitratorInv'
<1>1. TypeOK /\ CloseInv /\ AnswerInv /\ StateInv /\ ResolverInv /\ (~rerun => ProgressInv)
  BY DEF ArbitratorInv
<1>2. /\ pc = "step" /\ state = "WaitingFullResolution"
      /\ UNCHANGED <<sc, height, confirmed, spentAt, published, spent, known, told, state,
                     resolutions, commitSet, stored, closed, resolved, contract, trigger, seen,
                     failed, rerun, faults>>
  BY DEF StepWaitingFullResolution, chain, disk
<1>3. CASE Unresolved = {}
  <2>1. pc' = "commit" /\ next' = "FullyResolved" /\ UNCHANGED <<boot, run>>
    BY <1>3 DEF StepWaitingFullResolution, Goes
  <2>2. TypeOK'
    BY <1>1, <1>2, <2>1 DEF TypeOK, States
  <2>3. CloseInv'
    BY <1>1, <1>2, <2>1, CloseSame
  <2>4. StateInv'
    BY <1>1, <1>2, <2>1 DEF StateInv, AtState
  <2>5. ASSUME ~rerun PROVE Answered
    <3>1. Covered
      BY <1>1, <1>2, <2>5 DEF ProgressInv, AtState
    <3>2. \A h \in Outgoing : contract[h] \notin {"contest", "final"}
      BY <1>3 DEF Unresolved, Contract, Htlc
    <3> QED
      BY <3>1, <3>2 DEF Covered, Answered
  <2>6. ASSUME ~rerun PROVE Follows
    BY <1>1, <1>2, <2>1, <2>5, <2>6 DEF Follows, AtState, Target
  <2> QED
    BY <1>2, <2>1, <2>2, <2>3, <2>4, <2>6, MachineStep
<1>4. CASE Unresolved # {}
  <2>1. /\ pc' = "idle" /\ boot' = FALSE /\ next' = next
        /\ run' = [c \in Contract |->
             IF boot /\ contract[c] \in {"contest", "final"} THEN "watch" ELSE run[c]]
    BY <1>4 DEF StepWaitingFullResolution, Ends
  <2>8. run' \in [Contract -> {"off", "watch", "checkpoint", "delete", "signal"}]
    BY <1>1, <2>1 DEF TypeOK
  <2>9. boot' \in BOOLEAN
    BY <2>1
  <2>2. TypeOK'
    BY <1>1, <1>2, <2>1, <2>8, <2>9 DEF TypeOK
  <2>3. CloseInv' /\ AnswerInv'
    BY <1>1, <1>2, <2>1, CloseSame, AnswerSame
  <2>4. StateInv'
    BY <1>1, <1>2, <2>1 DEF StateInv, AtState
  <2>5. \A c \in Contract : run'[c] = "watch" \/ run'[c] = run[c]
    BY <2>1
  <2>6. ResolverInv'
    BY <1>1, <1>2, <2>5 DEF ResolverInv, Contract, Htlc
  <2>7. ASSUME ~rerun PROVE ProgressInv'
    <3>1. (Covered => Covered') /\ (Answered => Answered')
      BY <1>2, NothingTold, CoveredKept
    <3> QED
      BY <1>1, <1>2, <2>1, <2>7, <3>1 DEF ProgressInv, AtState, Target
  <2> QED
    BY <1>2, <2>2, <2>3, <2>4, <2>6, <2>7 DEF ArbitratorInv
<1> QED
  BY <1>3, <1>4

\* A step that a resolver's signal, or the end of its goroutine, makes possible.
LEMMA StepHandleResolutionSignal ==
    ASSUME ArbitratorInv, NEW c \in Contract, HandleResolutionSignal(c)
    PROVE  ArbitratorInv'
<1>1. TypeOK /\ CloseInv /\ AnswerInv /\ StateInv /\ ResolverInv /\ (~rerun => ProgressInv)
  BY DEF ArbitratorInv
<1>2. /\ pc = "idle" /\ run[c] = "signal" /\ pc' = "step"
      /\ run' = [run EXCEPT ![c] = "off"]
      /\ \E grace \in BOOLEAN :
           trigger' = [kind |-> "chain", height |-> seen, set |-> FALSE, grace |-> grace]
      /\ UNCHANGED <<sc, height, confirmed, spentAt, published, spent, known, told, state,
                     resolutions, commitSet, stored, closed, resolved, contract, next, boot, seen,
                     failed, rerun, faults>>
  BY DEF HandleResolutionSignal, Advance, chain, disk
<1>3. trigger' \in Triggers /\ trigger'.kind = "chain"
  <2>1. PICK grace \in BOOLEAN :
           trigger' = [kind |-> "chain", height |-> seen, set |-> FALSE, grace |-> grace]
    BY <1>2
  <2> QED
    BY <1>1, <2>1 DEF TypeOK, Triggers, Kinds
<1>4. /\ run' \in [Contract -> {"off", "watch", "checkpoint", "delete", "signal"}]
      /\ \A d \in Contract : run'[d] # "off" => run'[d] = run[d]
  BY <1>1, <1>2 DEF TypeOK
<1>5. TypeOK'
  BY <1>1, <1>2, <1>3, <1>4 DEF TypeOK, Triggers, Kinds
<1>6. CloseInv'
  BY <1>1, <1>2, <1>3 DEF CloseInv, IsClose
<1>7. StateInv' /\ AnswerInv'
  BY <1>1, <1>2, AnswerSame DEF StateInv, AtState
<1>8. ResolverInv'
  BY <1>1, <1>2, <1>4 DEF ResolverInv, Contract, Htlc
<1>9. ASSUME ~rerun PROVE ProgressInv'
  <2>1. (Covered => Covered') /\ (Answered => Answered')
    BY <1>2, NothingTold, CoveredKept
  <2>2. ProgressInv /\ state \in {"WaitingFullResolution", "FullyResolved"}
    BY <1>1, <1>2, <1>9 DEF ProgressInv, Target
  <2> QED
    BY <1>2, <1>4, <2>1, <2>2 DEF ProgressInv, AtState, Target
<1> QED
  BY <1>2, <1>5, <1>6, <1>7, <1>8, <1>9 DEF ArbitratorInv
-----------------------------------------------------------------------------
(* The contracts of a commitment that confirmed. *)

Actions == [failNow : SUBSET Htlc, timeout : SUBSET Htlc, watch : SUBSET Htlc]

LEMMA MoreFailures ==
    ASSUME NEW a \in Actions, NEW H \in SUBSET Htlc
    PROVE  /\ [a EXCEPT !.failNow = a.failNow \union H] \in Actions
           /\ [a EXCEPT !.failNow = a.failNow \union H].failNow = a.failNow \union H
           /\ [a EXCEPT !.failNow = a.failNow \union H].timeout = a.timeout
           /\ [a EXCEPT !.failNow = a.failNow \union H].watch = a.watch
BY DEF Actions

\* Every HTLC of a commitment gets an action, unless it is only looked at.
LEMMA CommitActionsFacts ==
    ASSUME NEW k
    PROVE  LET a == checkCommitChainActions(k)
           IN /\ a \in Actions /\ a.failNow \subseteq (On(k) \ Output(k)) \intersect Outgoing
              /\ a.timeout \subseteq Output(k) /\ a.watch \subseteq Output(k)
              /\ trigger.kind # "chain" =>
                    /\ a.failNow = (On(k) \ Output(k)) \intersect Outgoing
                    /\ a.timeout \union a.watch = Output(k)
<1> DEFINE a == checkCommitChainActions(k)
           due == {h \in Outgoing : shouldGoOnChain(h)}
<1>1. On(k) \subseteq Htlc /\ Output(k) \subseteq Htlc
  BY DEF On, Output
<1>2. CASE a = NoActions /\ trigger.kind = "chain"
  BY <1>2 DEF NoActions, Actions
<1>3. CASE a = [failNow |-> (On(k) \ Output(k)) \intersect Outgoing,
                timeout |-> Output(k) \intersect due, watch |-> Output(k) \ due]
  <2> HIDE DEF a, due
  <2>1. /\ a.failNow = (On(k) \ Output(k)) \intersect Outgoing
        /\ a.timeout = Output(k) \intersect due /\ a.watch = Output(k) \ due
    BY <1>3
  <2>2. a \in Actions
    BY <1>1, <1>3 DEF Actions
  <2> QED
    BY <2>1, <2>2 DEF a
<1> QED
  BY <1>2, <1>3 DEF checkCommitChainActions

\* What is failed at once has no output on the commitment that confirmed; after the
\* close every outgoing HTLC is failed or gets a contract.
LEMMA ChainActionsFacts ==
    ASSUME TypeOK, confirmed \in Commitment
    PROVE  LET c == constructChainActions
           IN /\ c \in Actions /\ c.failNow \subseteq Outgoing
              /\ \A h \in c.failNow : h \notin Output(confirmed)
              /\ c.timeout \subseteq Output(confirmed) /\ c.watch \subseteq Output(confirmed)
              /\ trigger.set /\ trigger.kind # "chain" =>
                    /\ \A h \in Outgoing : sc.place[h] # {} =>
                         h \in c.failNow \/ h \in Output(confirmed)
                    /\ c.timeout \union c.watch = Output(confirmed)
<1> DEFINE c == constructChainActions
           a == checkCommitChainActions(confirmed)
           more == IF confirmed = "local" THEN checkRemoteDanglingActions(TRUE)
                   ELSE checkRemoteDiffActions(confirmed)
<1>1. CASE ~trigger.set
  <2>1. c = NoActions
    BY <1>1 DEF constructChainActions
  <2> QED
    BY <1>1, <2>1 DEF NoActions, Actions
<1>2. CASE trigger.set
  <2>1. c = [a EXCEPT !.failNow = a.failNow \union more]
    BY <1>2 DEF constructChainActions, checkLocalChainActions, checkRemoteChainActions
  <2>2. /\ a \in Actions /\ a.failNow \subseteq (On(confirmed) \ Output(confirmed)) \intersect Outgoing
        /\ a.timeout \subseteq Output(confirmed) /\ a.watch \subseteq Output(confirmed)
        /\ trigger.kind # "chain" =>
              /\ a.failNow = (On(confirmed) \ Output(confirmed)) \intersect Outgoing
              /\ a.timeout \union a.watch = Output(confirmed)
    BY CommitActionsFacts
  <2>3. /\ more \subseteq Outgoing /\ more \intersect On(confirmed) = {}
        /\ Outgoing \intersect (On("remote") \union On("pending")) \subseteq On(confirmed) \union more
    BY DEF checkRemoteDanglingActions, checkRemoteDiffActions, Commitment, On, Htlc
  <2>4. more \in SUBSET Htlc /\ Output(confirmed) \subseteq On(confirmed)
    BY <2>3 DEF Htlc, Output
  <2>5. \A h \in Outgoing : sc.place[h] # {} => h \in On("remote") \union On("pending")
    <3>1. /\ \A h \in Htlc : sc.place[h] \subseteq Commitment
          /\ \A h \in Outgoing : sc.place[h] # {"local"}
      BY ArbitratorAssumption DEF TypeOK
    <3> QED
      BY <3>1 DEF On, Commitment, Htlc
  <2> HIDE DEF a, c, more
  <2>6. /\ c \in Actions /\ c.failNow = a.failNow \union more
        /\ c.timeout = a.timeout /\ c.watch = a.watch
    BY <2>1, <2>2, <2>4, MoreFailures
  <2>7. c.failNow \subseteq Outgoing /\ \A h \in c.failNow : h \notin Output(confirmed)
    BY <2>2, <2>3, <2>4, <2>6
  <2>8. ASSUME trigger.kind # "chain", NEW h \in Outgoing, sc.place[h] # {}
        PROVE  h \in c.failNow \/ h \in Output(confirmed)
    BY <2>2, <2>3, <2>5, <2>6, <2>8
  <2> QED
    BY <2>2, <2>6, <2>7, <2>8 DEF c
<1> QED
  BY <1>1, <1>2 DEF TypeOK

\* The same of what is failed first and of the contracts that are stored.
LEMMA PrepFacts ==
    ASSUME TypeOK, confirmed \notin {"none", "coop"}
    PROVE  LET F == prepContractResolutions.fail
               C == prepContractResolutions.contract
           IN /\ \A h \in F : confirmed \notin Commitment \/ h \notin Output(confirmed)
              /\ C \in [Contract -> {"none", "contest", "final", "resolved", "gone"}]
              /\ \A h \in Outgoing : C[h] \in {"contest", "final"} \/ C[h] = contract[h]
              /\ trigger.set /\ trigger.kind # "chain" =>
                   \A h \in Outgoing : sc.place[h] # {} =>
                      \/ h \in F
                      \/ confirmed \in Commitment /\ h \in Output(confirmed)
              /\ trigger.set /\ trigger.kind # "chain" /\ confirmed \in Commitment =>
                   \A h \in Outgoing : h \in Output(confirmed) => C[h] \in {"contest", "final"}
<1> DEFINE F == prepContractResolutions.fail
           C == prepContractResolutions.contract
<1>1. contract \in [Contract -> {"none", "contest", "final", "resolved", "gone"}]
  BY DEF TypeOK
<1>2. Outgoing \subseteq Contract /\ "breach" \notin Outgoing /\ "commit" \notin Outgoing
  BY ArbitratorAssumption DEF Contract, Htlc
<1>3. CASE confirmed = "breach"
  <2>1. /\ F = (On("remote") \union On("pending")) \intersect Outgoing
        /\ C = [contract EXCEPT !["breach"] = "contest"]
    BY <1>3 DEF prepContractResolutions
  <2>2. "breach" \notin Commitment
    BY DEF Commitment
  <2>3. \A h \in Outgoing : sc.place[h] # {} => h \in F
    <3>1. /\ \A h \in Htlc : sc.place[h] \subseteq Commitment
          /\ \A h \in Outgoing : sc.place[h] # {"local"}
      BY ArbitratorAssumption DEF TypeOK
    <3> QED
      BY <2>1, <3>1 DEF On, Commitment, Htlc
  <2> HIDE DEF F, C
  <2>4. /\ C \in [Contract -> {"none", "contest", "final", "resolved", "gone"}]
        /\ \A h \in Outgoing : C[h] = contract[h]
    BY <1>1, <1>2, <2>1
  <2> QED
    BY <1>3, <2>2, <2>3, <2>4 DEF F, C
<1>4. CASE confirmed # "breach"
  <2> DEFINE a == constructChainActions
  <2>1. confirmed \in Commitment
    BY <1>4 DEF TypeOK
  <2>2. /\ F = a.failNow
        /\ C = [c \in Contract |->
                CASE c \in a.timeout -> "final"
                  [] c \in a.watch -> "contest"
                  [] c = "commit" /\ sc.self -> "contest"
                  [] OTHER -> contract[c]]
    BY <1>4 DEF prepContractResolutions
  <2>3. /\ a.failNow \subseteq Outgoing
        /\ \A h \in a.failNow : h \notin Output(confirmed)
        /\ trigger.set /\ trigger.kind # "chain" =>
              /\ \A h \in Outgoing : sc.place[h] # {} =>
                   h \in a.failNow \/ h \in Output(confirmed)
              /\ a.timeout \union a.watch = Output(confirmed)
    BY <2>1, ChainActionsFacts
  <2> HIDE DEF F, C, a
  <2>4. \A c \in Contract : /\ C[c] \in {"contest", "final"} \/ C[c] = contract[c]
                            /\ c \in a.timeout \union a.watch => C[c] \in {"contest", "final"}
    BY <2>2
  <2>5. C \in [Contract -> {"none", "contest", "final", "resolved", "gone"}]
    BY <1>1, <2>2
  <2> QED
    BY <1>2, <2>1, <2>2, <2>3, <2>4, <2>5 DEF F, C
<1> QED
  BY <1>3, <1>4

LEMMA ContractClosedStep ==
    ASSUME ArbitratorInv, StepContractClosed
    PROVE  ArbitratorInv'
<1>1. TypeOK /\ CloseInv /\ AnswerInv /\ StateInv /\ ResolverInv /\ (~rerun => ProgressInv)
  BY DEF ArbitratorInv
<1>2. /\ pc = "step" /\ state = "ContractClosed"
      /\ UNCHANGED <<sc, height, confirmed, spentAt, published, spent, known, state, resolutions,
                     commitSet, stored, closed, resolved, contract, trigger, run, seen, failed,
                     rerun, faults>>
  BY DEF StepContractClosed, chain
<1>3. confirmed \notin {"none", "coop"}
  BY <1>1, <1>2 DEF StateInv, AtState
<1>4. CASE NothingOnChain
  <2>1. pc' = "commit" /\ next' = "FullyResolved" /\ UNCHANGED <<boot, told>>
    BY <1>4 DEF StepContractClosed, Goes
  <2>2. TypeOK'
    BY <1>1, <1>2, <2>1 DEF TypeOK, States
  <2>3. CloseInv'
    BY <1>1, <1>2, <2>1, CloseSame
  <2>4. StateInv'
    BY <1>1, <1>2, <2>1 DEF StateInv, AtState
  <2>5. Answered
    BY <1>4 DEF NothingOnChain, Answered, Htlc
  <2>6. Follows
    BY <1>1, <1>2, <2>1, <2>5 DEF Follows, AtState, Target
  <2> QED
    BY <1>2, <2>1, <2>2, <2>3, <2>4, <2>6, MachineStep
<1>5. CASE ~NothingOnChain
  <2> DEFINE F == prepContractResolutions.fail
  <2>1. /\ pc' = "insert" /\ UNCHANGED <<next, boot>>
        /\ told' = [h \in Outgoing |-> IF h \in F /\ told[h] = "none" THEN "fail" ELSE told[h]]
    BY <1>5 DEF StepContractClosed, Tell
  <2>2. /\ \A h \in F : confirmed \notin Commitment \/ h \notin Output(confirmed)
        /\ trigger.set /\ trigger.kind # "chain" =>
              \A h \in Outgoing : sc.place[h] # {} =>
                 \/ h \in F
                 \/ confirmed \in Commitment /\ h \in Output(confirmed)
    BY <1>1, <1>3, PrepFacts
  <2> HIDE DEF F
  <2>3. /\ \A h \in Outgoing :
              told'[h] = IF h \in F /\ told[h] = "none" THEN "fail" ELSE told[h]
        /\ told' \in [Outgoing -> {"none", "settle", "fail"}]
    BY <1>1, <2>1 DEF TypeOK
  <2>4. TypeOK'
    BY <1>1, <1>2, <2>1, <2>3 DEF TypeOK
  <2>5. CloseInv'
    BY <1>1, <1>2, <2>1, CloseSame
  <2>6. AnswerInv'
    <3>1. Output(confirmed)' = Output(confirmed) /\ confirmed' = confirmed
      BY <1>2 DEF Output, On
    <3> QED
      BY <1>1, <1>2, <1>3, <2>2, <2>3, <3>1 DEF AnswerInv
  <2>7. StateInv'
    BY <1>1, <1>2, <2>1 DEF StateInv, AtState
  <2>8. ToldGrows
    BY <2>3 DEF ToldGrows
  <2>9. ResolverInv'
    BY <1>1, <1>2, <2>8, ResolverSame
  <2>10. ASSUME ~rerun PROVE ProgressInv'
    <3>1. ProgressInv /\ IsClose /\ \A c \in Contract : run[c] = "off"
      BY <1>1, <1>2, <2>10 DEF ProgressInv, Target
    <3>2. trigger.set /\ trigger.kind # "chain"
      BY <1>1, <1>3, <3>1 DEF CloseInv, IsClose
    <3>3. OutputsLeft'
      <4>1. Output(confirmed)' = Output(confirmed) /\ confirmed' = confirmed
        BY <1>2 DEF Output, On
      <4> QED
        BY <1>2, <2>2, <2>3, <3>2, <4>1 DEF OutputsLeft
    <3>4. ~AtState("WaitingFullResolution")' /\ ~AtState("FullyResolved")'
      BY <1>2, <2>1 DEF AtState
    <3>5. resolved' => Answered'
      BY <1>2, <2>8, <3>1 DEF ProgressInv, Answered, ToldGrows
    <3> QED
      BY <1>2, <2>1, <3>1, <3>3, <3>4, <3>5 DEF ProgressInv, Target, IsClose
  <2> QED
    BY <1>2, <2>4, <2>5, <2>6, <2>7, <2>9, <2>10 DEF ArbitratorInv
<1> QED
  BY <1>4, <1>5

LEMMA StepInsertUnresolvedContracts ==
    ASSUME ArbitratorInv, InsertUnresolvedContracts
    PROVE  ArbitratorInv'
<1>1. TypeOK /\ CloseInv /\ AnswerInv /\ StateInv /\ ResolverInv /\ (~rerun => ProgressInv)
  BY DEF ArbitratorInv
<1> DEFINE C == prepContractResolutions.contract
<1>2. /\ pc = "insert" /\ pc' = "commit" /\ next' = "WaitingFullResolution"
      /\ contract' = C
      /\ run' = [c \in Contract |->
           IF contract'[c] \in {"contest", "final"} /\ run[c] = "off" THEN "watch" ELSE run[c]]
      /\ UNCHANGED <<sc, height, confirmed, spentAt, published, spent, known, told, state,
                     resolutions, commitSet, stored, closed, resolved, trigger, boot, seen,
                     failed, rerun, faults>>
  BY DEF InsertUnresolvedContracts, Goes, chain
<1>3. state = "ContractClosed" /\ confirmed \notin {"none", "coop"}
  BY <1>1, <1>2 DEF StateInv, AtState
<1>4. /\ C \in [Contract -> {"none", "contest", "final", "resolved", "gone"}]
      /\ \A h \in Outgoing : C[h] \in {"contest", "final"} \/ C[h] = contract[h]
      /\ trigger.set /\ trigger.kind # "chain" /\ confirmed \in Commitment =>
           \A h \in Outgoing : h \in Output(confirmed) => C[h] \in {"contest", "final"}
  BY <1>1, <1>3, PrepFacts
<1> HIDE DEF C
<1>5. /\ run' \in [Contract -> {"off", "watch", "checkpoint", "delete", "signal"}]
      /\ \A c \in Contract : run'[c] = "watch" \/ run'[c] = run[c]
  BY <1>1, <1>2 DEF TypeOK
<1>6. TypeOK'
  BY <1>1, <1>2, <1>4, <1>5 DEF TypeOK, States
<1>7. CloseInv' /\ AnswerInv'
  BY <1>1, <1>2, CloseSame, AnswerSame
<1>8. StateInv'
  BY <1>1, <1>2, <1>3 DEF StateInv, AtState
<1>9. ResolverInv'
  BY <1>1, <1>2, <1>5 DEF ResolverInv, Contract, Htlc
<1>10. ASSUME ~rerun PROVE ProgressInv'
  <2>1. ProgressInv /\ IsClose /\ OutputsLeft
    BY <1>1, <1>2, <1>3, <1>10 DEF ProgressInv, Target
  <2>2. trigger.set /\ trigger.kind # "chain"
    BY <1>1, <1>3, <2>1 DEF CloseInv, IsClose
  <2>3. Covered'
    BY <1>2, <1>4, <2>1, <2>2 DEF OutputsLeft, Covered
  <2>4. resolved' => Answered'
    BY <1>2, <2>1 DEF ProgressInv, Answered
  <2> QED
    BY <1>2, <1>3, <2>3, <2>4 DEF ProgressInv, Target, AtState
<1> QED
  BY <1>2, <1>6, <1>7, <1>8, <1>9, <1>10 DEF ArbitratorInv
-----------------------------------------------------------------------------
(* Resolvers. *)

\* A step of a resolver leaves the state machine alone.
LEMMA ResolverStep ==
    ASSUME ArbitratorInv, ToldGrows, ContractsKept, AnswerInv', ResolverInv',
           told' \in [Outgoing -> {"none", "settle", "fail"}],
           contract' \in [Contract -> {"none", "contest", "final", "resolved", "gone"}],
           run' \in [Contract -> {"off", "watch", "checkpoint", "delete", "signal"}],
           \A c \in Contract : run'[c] # "off" => run[c] # "off",
           UNCHANGED <<sc, height, confirmed, spentAt, published, spent, known, state, resolutions,
                       commitSet, stored, closed, resolved, pc, trigger, next, boot, seen, failed,
                       rerun, faults>>
    PROVE  ArbitratorInv'
<1>1. TypeOK /\ CloseInv /\ AnswerInv /\ StateInv /\ ResolverInv /\ (~rerun => ProgressInv)
  BY DEF ArbitratorInv
<1>2. TypeOK'
  BY <1>1 DEF TypeOK
<1>3. CloseInv'
  BY <1>1, CloseSame
<1>4. StateInv' /\ (~rerun' => ProgressInv')
  BY <1>1, MachineSame
<1> QED
  BY <1>2, <1>3, <1>4 DEF ArbitratorInv

LEMMA ContestStep ==
    ASSUME ArbitratorInv, NEW h \in Htlc, SwapContract(h)
    PROVE  ArbitratorInv'
<1>1. TypeOK /\ CloseInv /\ AnswerInv /\ StateInv /\ ResolverInv /\ (~rerun => ProgressInv)
  BY DEF ArbitratorInv
<1>2. /\ contract' = [contract EXCEPT ![h] = "final"]
      /\ UNCHANGED <<sc, height, confirmed, spentAt, published, spent, known, told, state,
                     resolutions, commitSet, stored, closed, resolved, pc, trigger, next, boot,
                     run, seen, failed, rerun, faults>>
  BY DEF SwapContract, Idle, chain
<1>3. /\ contract' \in [Contract -> {"none", "contest", "final", "resolved", "gone"}]
      /\ \A c \in Contract : contract'[c] = "final" \/ contract'[c] = contract[c]
  BY <1>1, <1>2 DEF TypeOK
<1>4. ToldGrows /\ ContractsKept
  BY <1>2, <1>3 DEF ToldGrows, ContractsKept, Contract, Htlc
<1>5. AnswerInv' /\ ResolverInv'
  BY <1>1, <1>2, <1>4, AnswerSame, ResolverSame
<1>6. told' \in [Outgoing -> {"none", "settle", "fail"}] /\
      run' \in [Contract -> {"off", "watch", "checkpoint", "delete", "signal"}]
  BY <1>1, <1>2 DEF TypeOK
<1> QED
  BY <1>2, <1>3, <1>4, <1>5, <1>6, ResolverStep

\* The switch is told how the output was spent.
LEMMA TellStep ==
    ASSUME ArbitratorInv, NEW h \in Outgoing, NEW answer \in {"settle", "fail"},
           run[h] = "watch",
           answer = "settle" => spent[h] = "claimed", answer = "fail" => spent[h] = "timedout",
           told' = [g \in Outgoing |-> IF g \in {h} /\ told[g] = "none" THEN answer ELSE told[g]],
           run' = [run EXCEPT ![h] = "checkpoint"],
           UNCHANGED <<sc, height, confirmed, spentAt, published, spent, known, state, resolutions,
                       commitSet, stored, closed, resolved, contract, pc, trigger, next, boot, seen,
                       failed, rerun, faults>>
    PROVE  ArbitratorInv'
<1>1. TypeOK /\ CloseInv /\ AnswerInv /\ StateInv /\ ResolverInv /\ (~rerun => ProgressInv)
  BY DEF ArbitratorInv
<1>2. h \in Contract /\ h \in Htlc
  BY DEF Contract, Htlc
<1>3. /\ told' \in [Outgoing -> {"none", "settle", "fail"}]
      /\ \A g \in Outgoing : told'[g] = IF g = h /\ told[g] = "none" THEN answer ELSE told[g]
  BY <1>1 DEF TypeOK
<1>4. /\ run' \in [Contract -> {"off", "watch", "checkpoint", "delete", "signal"}]
      /\ run'[h] = "checkpoint" /\ \A c \in Contract : c # h => run'[c] = run[c]
      /\ contract' \in [Contract -> {"none", "contest", "final", "resolved", "gone"}]
  BY <1>1, <1>2 DEF TypeOK
<1>5. ToldGrows /\ ContractsKept
  BY <1>3 DEF ToldGrows, ContractsKept
<1>6. ResolverInv'
  BY <1>1, <1>3, <1>4 DEF ResolverInv, Contract, Htlc
<1>7. AnswerInv'
  <2>1. Output(confirmed)' = Output(confirmed)
    BY DEF Output, On
  <2>2. confirmed # "none"
    BY <1>1, <1>2 DEF AnswerInv, Commitment
  <2> QED
    BY <1>1, <1>3, <2>1, <2>2 DEF AnswerInv
<1>8. \A c \in Contract : run'[c] # "off" => run[c] # "off"
  BY <1>4
<1> QED
  BY <1>3, <1>4, <1>5, <1>6, <1>7, <1>8, ResolverStep

\* A resolver that has nothing to tell is done.
LEMMA DoneStep ==
    ASSUME ArbitratorInv, NEW c \in Contract, c \notin Outgoing, run[c] = "watch", Done(c)
    PROVE  ArbitratorInv'
<1>1. TypeOK /\ CloseInv /\ AnswerInv /\ StateInv /\ ResolverInv /\ (~rerun => ProgressInv)
  BY DEF ArbitratorInv
<1>2. /\ run' = [run EXCEPT ![c] = "checkpoint"]
      /\ UNCHANGED <<sc, height, confirmed, spentAt, published, spent, known, told, state,
                     resolutions, commitSet, stored, closed, resolved, contract, pc, trigger,
                     next, boot, seen, failed, rerun, faults>>
  BY DEF Done, Resolver, Idle, chain, disk
<1>3. /\ run' \in [Contract -> {"off", "watch", "checkpoint", "delete", "signal"}]
      /\ \A d \in Contract : d # c => run'[d] = run[d]
  BY <1>1, <1>2 DEF TypeOK
<1>4. ToldGrows /\ ContractsKept
  BY <1>2, NothingTold
<1>5. ResolverInv'
  BY <1>1, <1>2, <1>3 DEF ResolverInv, Contract, Htlc
<1>6. AnswerInv'
  BY <1>1, <1>2, AnswerSame
<1>7. told' \in [Outgoing -> {"none", "settle", "fail"}] /\
      contract' \in [Contract -> {"none", "contest", "final", "resolved", "gone"}]
  BY <1>1, <1>2 DEF TypeOK
<1>8. \A d \in Contract : run'[d] # "off" => run[d] # "off"
  BY <1>3
<1> QED
  BY <1>2, <1>3, <1>4, <1>5, <1>6, <1>7, <1>8, ResolverStep

\* The resolver that is done leaves the log.
LEMMA LogStep ==
    ASSUME ArbitratorInv, NEW c \in Contract, Checkpoint(c) \/ ResolveContract(c)
    PROVE  ArbitratorInv'
<1>1. TypeOK /\ CloseInv /\ AnswerInv /\ StateInv /\ ResolverInv /\ (~rerun => ProgressInv)
  BY DEF ArbitratorInv
<1>2. /\ \/ /\ run[c] = "checkpoint" /\ run' = [run EXCEPT ![c] = "delete"]
            /\ contract' = [contract EXCEPT ![c] = "resolved"]
         \/ /\ run[c] = "delete" /\ run' = [run EXCEPT ![c] = "signal"]
            /\ contract' = [contract EXCEPT ![c] = "gone"]
      /\ UNCHANGED <<sc, height, confirmed, spentAt, published, spent, known, told, state,
                     resolutions, commitSet, stored, closed, resolved, pc, trigger, next, boot,
                     seen, failed, rerun, faults>>
  BY DEF Checkpoint, ResolveContract, Resolver, Idle, chain
<1>3. /\ run' \in [Contract -> {"off", "watch", "checkpoint", "delete", "signal"}]
      /\ contract' \in [Contract -> {"none", "contest", "final", "resolved", "gone"}]
      /\ \A d \in Contract : d # c => run'[d] = run[d] /\ contract'[d] = contract[d]
  BY <1>1, <1>2 DEF TypeOK
<1>4. c \in Outgoing => told[c] # "none"
  BY <1>1, <1>2 DEF ResolverInv
<1>5. ToldGrows /\ ContractsKept
  BY <1>2, <1>3, <1>4 DEF ToldGrows, ContractsKept, Contract, Htlc
<1>6. ResolverInv'
  BY <1>1, <1>2, <1>3, <1>4 DEF ResolverInv, Contract, Htlc
<1>7. AnswerInv'
  BY <1>1, <1>2, AnswerSame
<1>8. told' \in [Outgoing -> {"none", "settle", "fail"}]
  BY <1>1, <1>2 DEF TypeOK
<1>9. \A d \in Contract : run'[d] # "off" => run[d] # "off"
  BY <1>2, <1>3
<1> QED
  BY <1>2, <1>3, <1>5, <1>6, <1>7, <1>8, <1>9, ResolverStep

LEMMA StepResolving ==
    ASSUME ArbitratorInv, NEW c \in Contract, Resolving(c)
    PROVE  ArbitratorInv'
<1>1. CASE ContestOutgoing(c) \/ ContestIncoming(c)
  <2>1. c \in Htlc /\ SwapContract(c)
    BY <1>1 DEF ContestOutgoing, ContestIncoming, Htlc
  <2> QED
    BY <2>1, ContestStep
<1>2. CASE claimCleanUp(c)
  <2>1. /\ c \in Outgoing /\ run[c] = "watch" /\ spent[c] = "claimed"
        /\ told' = [g \in Outgoing |-> IF g \in {c} /\ told[g] = "none" THEN "settle" ELSE told[g]]
        /\ run' = [run EXCEPT ![c] = "checkpoint"]
        /\ UNCHANGED <<sc, height, confirmed, spentAt, published, spent, known, state, resolutions,
                       commitSet, stored, closed, resolved, contract, pc, trigger, next, boot, seen,
                       failed, rerun, faults>>
    BY <1>2 DEF claimCleanUp, Watching, Tell, Resolver, Idle, chain
  <2> QED
    BY <2>1, TellStep
<1>3. CASE handleCommitSpend(c)
  <2>1. /\ c \in Outgoing /\ run[c] = "watch" /\ spent[c] = "timedout"
        /\ told' = [g \in Outgoing |-> IF g \in {c} /\ told[g] = "none" THEN "fail" ELSE told[g]]
        /\ run' = [run EXCEPT ![c] = "checkpoint"]
        /\ UNCHANGED <<sc, height, confirmed, spentAt, published, spent, known, state, resolutions,
                       commitSet, stored, closed, resolved, contract, pc, trigger, next, boot, seen,
                       failed, rerun, faults>>
    BY <1>3 DEF handleCommitSpend, Watching, Tell, Resolver, Idle, chain
  <2> QED
    BY <2>1, TellStep
<1>4. CASE IncomingEnds(c) \/ SuccessEnds(c)
  <2>1. c \notin Outgoing /\ run[c] = "watch" /\ Done(c)
    BY <1>4, ArbitratorAssumption DEF IncomingEnds, SuccessEnds, Watching
  <2> QED
    BY <2>1, DoneStep
<1>5. CASE (c = "commit" /\ CommitSweepEnds) \/ (c = "breach" /\ BreachEnds)
  <2>1. c \notin Outgoing /\ run[c] = "watch" /\ Done(c)
    BY <1>5, ArbitratorAssumption DEF CommitSweepEnds, BreachEnds, Watching, Htlc
  <2> QED
    BY <2>1, DoneStep
<1>6. CASE Checkpoint(c) \/ ResolveContract(c)
  BY <1>6, LogStep
<1> QED
  BY <1>1, <1>2, <1>3, <1>4, <1>5, <1>6 DEF Resolving

\* A resolver that ends with an error leaves what it has told and stored.
LEMMA StepResolverFails ==
    ASSUME ArbitratorInv, NEW c \in Contract, ResolverFails(c)
    PROVE  ArbitratorInv'
<1>1. TypeOK /\ CloseInv /\ AnswerInv /\ StateInv /\ ResolverInv /\ (~rerun => ProgressInv)
  BY DEF ArbitratorInv
<1>2. /\ run' = [run EXCEPT ![c] = "off"] /\ failed' = TRUE
      /\ faults < MaxFaults /\ faults' = faults + 1
      /\ UNCHANGED <<sc, height, confirmed, spentAt, published, spent, known, told, state,
                     resolutions, commitSet, stored, closed, resolved, contract, pc, trigger,
                     next, boot, seen, rerun>>
  BY DEF ResolverFails, Resolver, chain, disk
<1>3. /\ run' \in [Contract -> {"off", "watch", "checkpoint", "delete", "signal"}]
      /\ \A d \in Contract : run'[d] # "off" => run'[d] = run[d]
  BY <1>1, <1>2 DEF TypeOK
<1>4. TypeOK'
  BY <1>1, <1>2, <1>3, ArbitratorAssumption DEF TypeOK
<1>5. CloseInv' /\ AnswerInv'
  BY <1>1, <1>2, CloseSame, AnswerSame
<1>6. ResolverInv'
  BY <1>1, <1>2, <1>3 DEF ResolverInv, Contract, Htlc
<1>7. StateInv' /\ (~rerun' => ProgressInv')
  BY <1>1, <1>2, <1>3, NothingTold, MachineSame
<1> QED
  BY <1>4, <1>5, <1>6, <1>7 DEF ArbitratorInv
-----------------------------------------------------------------------------
(* Restarts, and the invariant. *)

LEMMA StepRestart ==
    ASSUME ArbitratorInv, Restart
    PROVE  ArbitratorInv'
<1>1. TypeOK /\ CloseInv /\ AnswerInv /\ StateInv /\ ResolverInv /\ (~rerun => ProgressInv)
  BY DEF ArbitratorInv
<1> DEFINE at == IF closed THEN spentAt ELSE height
<1>2. /\ \/ faults' = faults
         \/ faults < MaxFaults /\ faults' = faults + 1
      /\ published' \in BOOLEAN /\ run' = [c \in Contract |-> "off"] /\ pc' = "step"
      /\ \E grace \in BOOLEAN :
           trigger' = [kind |-> StartTrigger, height |-> at, set |-> commitSet, grace |-> grace]
      /\ boot' = TRUE /\ failed' = FALSE /\ seen' = height
      /\ rerun' = (rerun \/ state = "ContractClosed")
      /\ UNCHANGED <<sc, height, confirmed, spentAt, spent, known, told, state, resolutions,
                     commitSet, stored, closed, resolved, contract, next>>
  BY DEF Restart, Advance, disk
<1>3. /\ StartTrigger \in {"chain", "local", "remote", "coop", "breach"}
      /\ StartTrigger # "chain" => closed /\ StartTrigger = CloseTrigger
  <2>1. closed => CloseTrigger \in {"local", "remote", "coop", "breach"}
    BY <1>1 DEF CloseInv, TypeOK, CloseTrigger, Commitment
  <2> QED
    BY <2>1 DEF StartTrigger
<1>4. at \in 0..MaxHeight /\ commitSet \in BOOLEAN
  BY <1>1 DEF TypeOK
<1>5. trigger' \in Triggers /\ trigger'.kind = StartTrigger /\ trigger'.set = commitSet
  <2>1. PICK grace \in BOOLEAN :
           trigger' = [kind |-> StartTrigger, height |-> at, set |-> commitSet, grace |-> grace]
    BY <1>2
  <2> HIDE DEF at
  <2> QED
    BY <1>3, <1>4, <2>1 DEF Triggers, Kinds
<1>6. TypeOK'
  <2>1. faults' \in 0..MaxFaults
    BY <1>1, <1>2, ArbitratorAssumption DEF TypeOK
  <2>2. boot' \in BOOLEAN /\ failed' \in BOOLEAN /\ rerun' \in BOOLEAN /\ published' \in BOOLEAN
    BY <1>2
  <2>3. run' \in [Contract -> {"off", "watch", "checkpoint", "delete", "signal"}]
    BY <1>2
  <2>4. trigger' \in [kind : {"chain", "user", "local", "remote", "coop", "breach"},
                      height : 0..MaxHeight, set : BOOLEAN, grace : BOOLEAN]
    BY <1>5 DEF Triggers, Kinds
  <2>5. seen' \in 0..MaxHeight /\ pc' \in {"idle", "log", "set", "close", "step", "store", "publish",
                                           "insert", "commit", "exited"}
    BY <1>1, <1>2 DEF TypeOK
  <2>6. UNCHANGED <<sc, height, spentAt, confirmed, resolutions, commitSet, stored, closed, resolved,
                    spent, known, told, state, next, contract>>
    BY <1>2
  <2> QED
    BY ONLY <1>1, <2>1, <2>2, <2>3, <2>4, <2>5, <2>6 DEF TypeOK
<1>7. CloseInv'
  <2>1. CloseTrigger' = CloseTrigger
    BY <1>2 DEF CloseTrigger
  <2>2. IsClose' => StartTrigger # "chain"
    BY <1>5 DEF IsClose
  <2> QED
    BY <1>1, <1>2, <1>3, <1>5, <2>1, <2>2 DEF CloseInv
<1>8. StateInv' /\ AnswerInv'
  BY <1>1, <1>2, AnswerSame DEF StateInv, AtState
<1>9. /\ \A c \in Contract : run'[c] = "off"
      /\ ResolverInv'
  BY <1>2 DEF ResolverInv, Contract, Htlc
<1>10. ASSUME ~rerun' PROVE ProgressInv'
  <2>1. (Covered => Covered') /\ (Answered => Answered')
    BY <1>2, NothingTold, CoveredKept
  <2>2. ProgressInv /\ state # "ContractClosed"
    BY <1>1, <1>2, <1>10
  <2> QED
    BY <1>2, <1>9, <2>1, <2>2 DEF ProgressInv, AtState, Target
<1> QED
  BY <1>6, <1>7, <1>8, <1>9, <1>10 DEF ArbitratorInv

LEMMA InitArbitratorInv == Init => ArbitratorInv
<1> SUFFICES ASSUME Init PROVE ArbitratorInv
  OBVIOUS
<1>1. trigger \in Triggers /\ trigger.kind = "chain"
  BY ArbitratorAssumption DEF Init, Triggers, Kinds
<1>2. TypeOK
  <2>1. /\ spent \in [Htlc -> {"none", "claimed", "timedout"}]
        /\ told \in [Outgoing -> {"none", "settle", "fail"}]
        /\ contract \in [Contract -> {"none", "contest", "final", "resolved", "gone"}]
        /\ run \in [Contract -> {"off", "watch", "checkpoint", "delete", "signal"}]
    BY DEF Init
  <2>2. /\ height \in 0..MaxHeight /\ seen \in 0..MaxHeight /\ spentAt \in 0..MaxHeight
        /\ faults \in 0..MaxFaults
    BY ArbitratorAssumption DEF Init
  <2> QED
    BY <1>1, <2>1, <2>2 DEF Init, TypeOK, States, Triggers, Kinds
<1>3. CloseInv /\ StateInv
  BY <1>1 DEF Init, CloseInv, StateInv, AtState, IsClose
<1>4. AnswerInv /\ ResolverInv
  BY DEF Init, AnswerInv, ResolverInv, Contract, Htlc
<1>5. ProgressInv
  BY DEF Init, ProgressInv, AtState, Target
<1> QED
  BY <1>2, <1>3, <1>4, <1>5 DEF ArbitratorInv

LEMMA NextArbitratorInv == ArbitratorInv /\ [Next]_vars => ArbitratorInv'
<1> SUFFICES ASSUME ArbitratorInv, [Next]_vars PROVE ArbitratorInv'
  OBVIOUS
<1>1. CASE UNCHANGED vars
  <2>1. UNCHANGED <<sc, height, confirmed, spentAt, published, spent, known, told, state,
                  resolutions, commitSet, stored, closed, resolved, contract, pc, trigger,
                  next, boot, run, seen, failed, rerun, faults>>
    BY <1>1 DEF vars, chain, disk, memory
  <2>2. TypeOK /\ CloseInv /\ AnswerInv /\ StateInv /\ ResolverInv /\ (~rerun => ProgressInv)
    BY DEF ArbitratorInv
  <2>3. TypeOK'
    BY <2>1, <2>2 DEF TypeOK
  <2>4. CloseInv' /\ AnswerInv'
    BY <2>1, <2>2, CloseSame, AnswerSame
  <2>5. ResolverInv' /\ StateInv' /\ (~rerun' => ProgressInv')
    BY <2>1, <2>2, NothingTold, ResolverSame, MachineSame
  <2> QED
    BY <2>3, <2>4, <2>5 DEF ArbitratorInv
<1>2. CASE NewBlock \/ HandleForceClose \/ StepFails \/ Restart
  BY <1>2, StepNewBlock, StepHandleForceClose, FailingStep, StepRestart
<1>3. ASSUME NEW k \in Commitment \union {"coop", "breach"}, Confirm(k) PROVE ArbitratorInv'
  BY <1>3, StepConfirm
<1>4. ASSUME NEW h \in Htlc, LearnPreimage(h) \/ Claim(h) \/ TimeOut(h) PROVE ArbitratorInv'
  BY <1>4, StepLearnPreimage, StepClaimTimeOut
<1>5. ASSUME NEW c \in Contract, HandleResolutionSignal(c) \/ Resolving(c) \/ ResolverFails(c)
      PROVE  ArbitratorInv'
  BY <1>5, StepHandleResolutionSignal, StepResolving, StepResolverFails
<1>6. CASE \/ HandleBlock \/ HandleClose
           \/ LogContractResolutions \/ InsertConfirmedCommitSet \/ MarkChannelClosed
           \/ StepDefault \/ StepBroadcastCommit \/ MarkCommitmentBroadcasted \/ PublishTx
           \/ StepCommitmentBroadcasted \/ StepContractClosed \/ InsertUnresolvedContracts
           \/ StepWaitingFullResolution \/ StepFullyResolved \/ CommitState
  BY <1>6, StepHandleBlock, StepHandleClose, StepLogContractResolutions,
     StepInsertConfirmedCommitSet, StepMarkChannelClosed, DefaultStep,
     BroadcastCommitStep, StepMarkCommitmentBroadcasted, StepPublishTx,
     CommitmentBroadcastedStep, ContractClosedStep, StepInsertUnresolvedContracts,
     WaitingFullResolutionStep, FullyResolvedStep, StepCommitState
<1> QED
  BY <1>1, <1>2, <1>3, <1>4, <1>5, <1>6 DEF Next, Arbitrator

\* The inductive invariant: what is on disk, what the state machine is about to do
\* and what the switch was told fit together at every point where the node may stop.
THEOREM ArbitratorInvariant == Spec => []ArbitratorInv
BY InitArbitratorInv, NextArbitratorInv, PTL DEF Spec

\* Type correctness of the arbitrator, its resolvers and the chain around them.
THEOREM ArbitratorTypes == Spec => []TypeOK
<1>1. ArbitratorInv => TypeOK
  BY DEF ArbitratorInv
<1> QED
  BY <1>1, ArbitratorInvariant, PTL

\* prepContractResolutions and the resolvers fail an outgoing HTLC only when the peer
\* can never claim it and settle it only for a claim, wherever its outputs are and
\* however often a state is run again.
THEOREM AnswerMatchesChainAlways == Spec => []AnswerMatchesChain
<1>1. ArbitratorInv => AnswerMatchesChain
  <2> SUFFICES ASSUME ArbitratorInv, NEW h \in Outgoing
               PROVE  /\ told[h] = "fail" => spent[h] # "claimed"
                      /\ told[h] = "settle" => spent[h] = "claimed"
    BY DEF AnswerMatchesChain
  <2>1. h \in Htlc
    BY DEF Htlc
  <2> QED
    BY <2>1 DEF ArbitratorInv, AnswerInv
<1> QED
  BY <1>1, ArbitratorInvariant, PTL

\* The contract resolutions and the confirmed commitment set are on disk before
\* MarkChannelClosed, whatever restarts come between the three writes.
THEOREM ClosedIsRecoverableAlways == Spec => []ClosedIsRecoverable
<1>1. ArbitratorInv => ClosedIsRecoverable
  BY DEF ArbitratorInv, CloseInv, ClosedIsRecoverable
<1> QED
  BY <1>1, ArbitratorInvariant, PTL

\* stateStep reaches the end only when the switch was told about every outgoing HTLC
\* of any commitment, unless Start entered StateContractClosed again.
THEOREM NothingForgottenAlways == Spec => []NothingForgotten
<1>1. ArbitratorInv => NothingForgotten
  BY DEF ArbitratorInv, ProgressInv, Answered, NothingForgotten
<1> QED
  BY <1>1, ArbitratorInvariant, PTL
=============================================================================
