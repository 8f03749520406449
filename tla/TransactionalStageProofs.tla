----------------------- MODULE TransactionalStageProofs -----------------------
(***************************************************************************)
(* What TransactionalStage guarantees for every number of workers,         *)
(* partitions, ids, faults and rebalances: its type invariant, the         *)
(* inductive invariant of TransactionalStageInvariant, and from it the     *)
(* safety properties and the refinement of ExactlyOnce.                    *)
(***************************************************************************)
EXTENDS TransactionalStageInvariant, WellFoundedInduction, FiniteSetTheorems, TLAPS

(* The last of some offsets: offsets_for commits the one after it.         *)
LEMMA MaxOfBounded ==
  ASSUME NEW n \in Nat, NEW S \in SUBSET (0 .. n), S # {}
  PROVE  /\ Max(S) \in S
         /\ \A y \in S : Max(S) >= y
<1> DEFINE Below == {n - x : x \in S}
<1>1. Below \subseteq Nat /\ Below # {}
  <2>1. \A x \in S : n - x \in Nat
    OBVIOUS
  <2> QED BY <2>1
<1>2. PICK t \in Below : \A u \in Below : <<u, t>> \notin OpToRel(<, Nat)
  <2> HIDE DEF Below
  <2> QED BY <1>1, NatLessThanWellFounded, WFMin
<1>3. \A u \in Below : ~(u < t)
  BY <1>1, <1>2 DEF OpToRel
<1>4. PICK x \in S : t = n - x
  OBVIOUS
<1>5. \A y \in S : x >= y
  BY <1>3, <1>4
<1> QED BY <1>5 DEF Max

-------------------------------------------------------------------------------
(* The highest next offset of a batch.                                         *)

(* offsets_for names, for each partition of the batch, an offset above every   *)
(* record of the batch and next to one of them.                                *)
LEMMA OffsetsForMax ==
  ASSUME TypeOK, NEW w \in Workers, NEW p \in Partitions
  PROVE  LET next == {m.off + 1 : m \in {r \in batch[w] : r.part = p}}
         IN  /\ next \subseteq 0 .. LogLength
             /\ next = {} => OffsetsFor(w)[p] = NoOffset
             /\ next # {} => /\ OffsetsFor(w)[p] \in next
                             /\ \A o \in next : OffsetsFor(w)[p] >= o
<1> DEFINE next == {m.off + 1 : m \in {r \in batch[w] : r.part = p}}
<1>1. next \subseteq 0 .. LogLength
  BY StageAssumption DEF TypeOK, Fetched, Offsets
<1>2. OffsetsFor(w)[p] = IF next = {} THEN NoOffset ELSE Max(next)
  BY DEF OffsetsFor
<1> QED
  <2> HIDE DEF next
  <2>1. next # {} => Max(next) \in next /\ \A o \in next : Max(next) >= o
    BY <1>1, MaxOfBounded, StageAssumption
  <2>2. next \subseteq 0 .. LogLength /\ (next = {} => OffsetsFor(w)[p] = NoOffset)
        /\ (next # {} => OffsetsFor(w)[p] \in next /\ \A o \in next : OffsetsFor(w)[p] >= o)
    BY <1>1, <1>2, <2>1
  <2> QED  BY <2>2 DEF next

LEMMA OffsetsForType ==
  ASSUME TypeOK, NEW w \in Workers
  PROVE  OffsetsFor(w) \in [Partitions -> 0 .. LogLength \cup {NoOffset}]
<1>1. \A p \in Partitions : OffsetsFor(w)[p] \in 0 .. LogLength \cup {NoOffset}
  BY OffsetsForMax
<1> QED  BY <1>1 DEF OffsetsFor

-------------------------------------------------------------------------------
(* Type correctness.                                                           *)

LEMMA TypeInit ==
  ASSUME Init
  PROVE  TypeOK
<1>1. /\ NoPosition \in [Partitions -> 0 .. LogLength \cup {Unset}]
      /\ NoOffsets \in [Partitions -> 0 .. LogLength \cup {NoOffset}]
  BY DEF NoPosition, NoOffsets
<1>2. /\ pc \in [Workers -> Steps]
      /\ client \in [Workers -> ClientStates]
      /\ txn \in [ProducerIds -> TxnStates]
  BY DEF Init, Steps, ClientStates, TxnStates
<1>3. /\ epoch \in [Workers -> Nat]
      /\ valid \in [Workers -> BOOLEAN]
      /\ assigned \in [Workers -> SUBSET Partitions]
      /\ batch \in [Workers -> SUBSET Fetched]
      /\ grant \in [Workers -> SUBSET Partitions]
      /\ pid \in [Workers -> ProducerIds]
      /\ members \in SUBSET Workers
      /\ joined \in SUBSET Workers
      /\ rebalancing \in BOOLEAN
      /\ rebalances \in Nat
      /\ faults \in Nat
  BY DEF Init
<1>4. /\ position \in [Workers -> [Partitions -> 0 .. LogLength \cup {Unset}]]
      /\ txnRecords \in [ProducerIds -> SUBSET Records]
      /\ txnOffsets \in [ProducerIds -> [Partitions -> 0 .. LogLength \cup {NoOffset}]]
  BY <1>1 DEF Init
<1>5. /\ committed \in [Partitions -> 0 .. LogLength]
      /\ applied \in [Records -> Nat]
  BY StageAssumption DEF Init
<1> QED  BY <1>2, <1>3, <1>4, <1>5 DEF TypeOK

USE DEF Fault, Goto, IsCurrentMember, workerVars, clientVars, groupVars, txnVars, brokerVars

LEMMA DisconnectType ==
  ASSUME TypeOK, NEW w \in Workers, DisconnectForRecovery(w)
  PROVE  /\ epoch' \in [Workers -> Nat]
         /\ valid' \in [Workers -> BOOLEAN]
         /\ assigned' \in [Workers -> SUBSET Partitions]
         /\ batch' \in [Workers -> SUBSET Fetched]
         /\ client' \in [Workers -> ClientStates]
         /\ grant' \in [Workers -> SUBSET Partitions]
         /\ position' \in [Workers -> [Partitions -> 0 .. LogLength \cup {Unset}]]
         /\ members' \in SUBSET Workers
         /\ joined' \in SUBSET Workers
         /\ rebalancing' \in BOOLEAN
<1>1. NoPosition \in [Partitions -> 0 .. LogLength \cup {Unset}]
  BY DEF NoPosition
<1>2. epoch' \in [Workers -> Nat] /\ valid' \in [Workers -> BOOLEAN]
      /\ assigned' \in [Workers -> SUBSET Partitions]
  BY DEF DisconnectForRecovery, InvalidateAssignment, TypeOK
<1>3. /\ client' \in [Workers -> ClientStates]
      /\ grant' \in [Workers -> SUBSET Partitions]
      /\ position' \in [Workers -> [Partitions -> 0 .. LogLength \cup {Unset}]]
      /\ batch' \in [Workers -> SUBSET Fetched]
  BY <1>1 DEF DisconnectForRecovery, DropAssignment, TypeOK, ClientStates
<1>4. members' \in SUBSET Workers /\ joined' \in SUBSET Workers /\ rebalancing' \in BOOLEAN
  BY DEF DisconnectForRecovery, RemoveMember, TypeOK
<1> QED  BY <1>2, <1>3, <1>4

LEMMA AbortType ==
  ASSUME TypeOK, NEW w \in Workers, AbortTransaction(w)
  PROVE  /\ txn' \in [ProducerIds -> TxnStates]
         /\ txnRecords' = txnRecords
         /\ txnOffsets' = txnOffsets
         /\ faults' \in Nat
  BY DEF AbortTransaction, TypeOK, TxnStates

LEMMA SourceRecordsType ==
  ASSUME TypeOK, NEW w \in Workers
  PROVE  SourceRecords(w) \in SUBSET Records
  BY DEF TypeOK, SourceRecords, Fetched, Records

LEMMA NextOffsetType ==
  ASSUME TypeOK, NEW w \in Workers, NEW p \in Partitions, Fetchable(w, p)
  PROVE  NextOffset(w, p) \in Offsets /\ NextOffset(w, p) + 1 \in 0 .. LogLength
  BY StageAssumption DEF TypeOK, Fetchable, NextOffset, Offsets, Unset

(* Where a fetch whose records are lost may leave the positions.               *)
LEMMA FetchedInVainForm ==
  ASSUME TypeOK, NEW w \in Workers, FetchedInVain(w)
  PROVE  /\ position' \in [Workers -> [Partitions -> 0 .. LogLength \cup {Unset}]]
         /\ \A v \in Workers \ {w} : position'[v] = position[v]
         /\ \A q \in Partitions :
              \/ position'[w][q] = position[w][q]
              \/ Fetchable(w, q) /\ NextOffset(w, q) < position'[w][q]
<1>1. PICK later \in [Partitions -> 0 .. LogLength \cup {Unset}] :
        /\ \A q \in Partitions :
             later[q] = position[w][q] \/ (Fetchable(w, q) /\ NextOffset(w, q) < later[q])
        /\ position' = [position EXCEPT ![w] = later]
  BY DEF FetchedInVain
<1>2. position'[w] = later
  BY <1>1 DEF TypeOK
<1> QED  BY <1>1, <1>2 DEF TypeOK

LEMMA StageRaisesType ==
  ASSUME TypeOK, NEW w \in Workers, StageRaises(w),
         SwallowErrors => position' \in [Workers -> [Partitions -> 0 .. LogLength \cup {Unset}]]
  PROVE  TypeOK'
<1>1. /\ pid' \in [Workers -> ProducerIds]
      /\ rebalances' \in Nat
      /\ txn' \in [ProducerIds -> TxnStates]
      /\ txnRecords' \in [ProducerIds -> SUBSET Records]
      /\ txnOffsets' \in [ProducerIds -> [Partitions -> 0 .. LogLength \cup {NoOffset}]]
      /\ committed' \in [Partitions -> 0 .. LogLength]
      /\ applied' \in [Records -> Nat]
      /\ faults' \in Nat
  BY DEF StageRaises, TypeOK
<1>2. CASE SwallowErrors
  <2>1. /\ pc' = [pc EXCEPT ![w] = "poll"]
        /\ batch' = [batch EXCEPT ![w] = {}]
        /\ UNCHANGED <<epoch, valid, assigned, client, grant, members, joined, rebalancing>>
    BY <1>2 DEF StageRaises
  <2> QED  BY <1>1, <1>2, <2>1 DEF TypeOK, Steps
<1>3. CASE ~SwallowErrors
  <2>1. DisconnectForRecovery(w) /\ pc' = [pc EXCEPT ![w] = "down"]
    BY <1>3 DEF StageRaises
  <2>2. pc' \in [Workers -> Steps]
    BY <2>1 DEF TypeOK, Steps
  <2> QED  BY <1>1, <2>1, <2>2, DisconnectType DEF TypeOK
<1> QED  BY <1>2, <1>3

LEMMA TypeStep ==
  ASSUME TypeOK, [Next]_vars
  PROVE  TypeOK'
<1>1. ASSUME NEW w \in Workers, Progress(w) PROVE TypeOK'
  <2>1. CASE Connect(w)
    BY <2>1 DEF Connect, InvalidateAssignment, TypeOK, Steps
  <2>2. CASE JoinGroup(w)
    BY <2>2 DEF JoinGroup, TypeOK, ClientStates
  <2>3. CASE OnAssign(w)
    BY <2>3 DEF OnAssign, TypeOK, ClientStates
  <2>4. CASE OnRevoke(w)
    <3>1. NoPosition \in [Partitions -> 0 .. LogLength \cup {Unset}]
      BY DEF NoPosition
    <3> QED  BY <2>4, <3>1 DEF OnRevoke, InvalidateAssignment, DropAssignment, TypeOK, ClientStates
  <2>5. CASE OnLost(w)
    <3>1. NoPosition \in [Partitions -> 0 .. LogLength \cup {Unset}]
      BY DEF NoPosition
    <3> QED  BY <2>5, <3>1 DEF OnLost, InvalidateAssignment, DropAssignment, TypeOK, ClientStates
  <2>6. CASE \E p \in Partitions : Consume(w, p)
    <3> SUFFICES ASSUME NEW p \in Partitions, Consume(w, p) PROVE TypeOK'
      BY <2>6
    <3>1. NextOffset(w, p) \in Offsets /\ NextOffset(w, p) + 1 \in 0 .. LogLength
      BY NextOffsetType DEF Consume
    <3>2. [part |-> p, off |-> NextOffset(w, p), epoch |-> epoch[w]] \in Fetched
      BY <3>1 DEF Fetched, TypeOK
    <3> QED  BY <3>1, <3>2 DEF Consume, TypeOK
  <2>7. CASE ReturnBatch(w)
    BY <2>7, DisconnectType DEF ReturnBatch, TypeOK, Steps
  <2>8. CASE BodyReturns(w)
    BY <2>8, DisconnectType DEF BodyReturns, TypeOK, Steps
  <2>9. CASE Begin(w)
    <3>1. NoOffsets \in [Partitions -> 0 .. LogLength \cup {NoOffset}]
      BY DEF NoOffsets
    <3> QED  BY <2>9, <3>1, SourceRecordsType DEF Begin, TypeOK, Steps, TxnStates
  <2>10. CASE SendOffsets(w)
    BY <2>10, OffsetsForType DEF SendOffsets, OffsetsAccepted, TypeOK, Steps
  <2>11. CASE SendOffsetsFenced(w)
    BY <2>11 DEF SendOffsetsFenced, TypeOK, Steps
  <2>12. CASE CommitTransaction(w)
    BY <2>12 DEF CommitTransaction, TypeOK, Steps, TxnStates
  <2>13. CASE CommitReturns(w)
    BY <2>13 DEF CommitReturns, TypeOK, Steps, TxnStates
  <2>14. CASE RecoverMembership(w)
    BY <2>14, DisconnectType, AbortType DEF RecoverMembership, TypeOK, Steps
  <2>15. CASE LeaveForOutage(w)
    BY <2>15, DisconnectType, AbortType DEF LeaveForOutage, TypeOK, Steps
  <2>16. CASE ResetProducer(w)
    BY <2>16 DEF ResetProducer, TypeOK, Steps, TxnStates
  <2>17. CASE Restart(w)
    BY <2>17 DEF Restart, TypeOK, Steps, TxnStates
  <2> QED  BY <1>1, <2>1, <2>2, <2>3, <2>4, <2>5, <2>6, <2>7, <2>8, <2>9, <2>10, <2>11, <2>12, <2>13, <2>14, <2>15, <2>16, <2>17 DEF Progress
<1>2. ASSUME NEW w \in Workers, Failure(w) PROVE TypeOK'
  <2>1. CASE FetchFails(w)
    BY <2>1, DisconnectType DEF FetchFails, TypeOK, Steps
  <2>2. CASE ConsumeRaises(w)
    BY <2>2, StageRaisesType, FetchedInVainForm DEF ConsumeRaises, TypeOK
  <2>3. CASE BodyRaises(w)
    BY <2>3, StageRaisesType DEF BodyRaises, TypeOK
  <2>4. CASE BeginFails(w)
    <3>1. NoOffsets \in [Partitions -> 0 .. LogLength \cup {NoOffset}]
      BY DEF NoOffsets
    <3>2. \A sent \in SUBSET SourceRecords(w) : sent \in SUBSET Records
      BY SourceRecordsType
    <3>3. /\ txn' \in [ProducerIds -> TxnStates]
          /\ txnRecords' \in [ProducerIds -> SUBSET Records]
          /\ txnOffsets' \in [ProducerIds -> [Partitions -> 0 .. LogLength \cup {NoOffset}]]
      <4>1. CASE UNCHANGED <<txn, txnRecords, txnOffsets>>
        BY <4>1 DEF TypeOK
      <4>2. CASE /\ txn' = [txn EXCEPT ![pid[w]] = "open"]
                 /\ txnOffsets' = [txnOffsets EXCEPT ![pid[w]] = NoOffsets]
                 /\ \E sent \in SUBSET SourceRecords(w) :
                      txnRecords' = [txnRecords EXCEPT ![pid[w]] = sent]
        BY <3>1, <3>2, <4>2 DEF TypeOK, TxnStates
      <4> QED  BY <2>4, <4>1, <4>2 DEF BeginFails
    <3> QED  BY <2>4, <3>3 DEF BeginFails, TypeOK, Steps
  <2>5. CASE SendOffsetsFails(w)
    <3>1. txnOffsets' \in [ProducerIds -> [Partitions -> 0 .. LogLength \cup {NoOffset}]]
      <4>1. \/ txnOffsets' = txnOffsets
            \/ txnOffsets' = [txnOffsets EXCEPT ![pid[w]] = OffsetsFor(w)]
        BY <2>5 DEF SendOffsetsFails, OffsetsAccepted
      <4>2. OffsetsFor(w) \in [Partitions -> 0 .. LogLength \cup {NoOffset}]
        BY OffsetsForType
      <4> QED  BY <4>1, <4>2 DEF TypeOK
    <3> QED  BY <2>5, <3>1 DEF SendOffsetsFails, TypeOK, Steps
  <2>6. CASE CommitFails(w)
    BY <2>6 DEF CommitFails, TypeOK, Steps
  <2>7. CASE CommitTimesOut(w)
    BY <2>7 DEF CommitTimesOut, TypeOK, Steps
  <2>8. CASE Crash(w)
    BY <2>8, DisconnectType DEF Crash, TypeOK, Steps
  <2> QED  BY <1>2, <2>1, <2>2, <2>3, <2>4, <2>5, <2>6, <2>7, <2>8 DEF Failure
<1>3. ASSUME Coordinator PROVE TypeOK'
  <2>1. CASE CompleteRebalance
    <3>1. client' \in [Workers -> ClientStates] /\ grant' \in [Workers -> SUBSET Partitions]
      BY <2>1 DEF CompleteRebalance, TypeOK, ClientStates
    <3>2. /\ joined' = {} /\ rebalancing' = FALSE /\ rebalances' = rebalances + 1
          /\ UNCHANGED <<pc, epoch, valid, assigned, batch, position, pid, members, txn,
                         txnRecords, txnOffsets, committed, applied, faults>>
      BY <2>1 DEF CompleteRebalance
    <3>3. rebalancing' \in BOOLEAN
      BY <3>2, Zenon
    <3> QED  BY <3>1, <3>2, <3>3 DEF TypeOK
  <2>2. CASE \E w \in Workers : Expire(w)
    BY <2>2 DEF Expire, RemoveMember, TypeOK
  <2>3. CASE \E i \in ProducerIds : BrokerCommits(i)
    BY <2>3 DEF BrokerCommits, TypeOK, TxnStates
  <2>4. CASE \E i \in ProducerIds : TransactionTimesOut(i)
    BY <2>4 DEF TransactionTimesOut, TypeOK, TxnStates
  <2> QED  BY <1>3, <2>1, <2>2, <2>3, <2>4 DEF Coordinator
<1>4. CASE UNCHANGED vars
  BY <1>4 DEF vars, TypeOK
<1> QED  BY <1>1, <1>2, <1>3, <1>4 DEF Next

(* Every variable keeps its type: in particular no offset that is committed or *)
(* sent to a transaction lies beyond the log (consumer.py:328-342).            *)
THEOREM TypeCorrect == Spec => []TypeOK
<1>1. Init => TypeOK
  BY TypeInit
<1>2. TypeOK /\ [Next]_vars => TypeOK'
  BY TypeStep
<1> QED  BY <1>1, <1>2, PTL DEF Spec

-------------------------------------------------------------------------------
(* The forms a step can take.  Several actions differ only in the condition    *)
(* that leads to them; the invariant sees them alike.                          *)

Keep(w) == UNCHANGED <<epoch, valid, assigned, batch, client, grant, position, pid,
                       members, joined, rebalancing>>

(* The consumer is closed and the worker starts over.                          *)
StartOver(w, step) ==
  /\ DisconnectForRecovery(w)
  /\ Goto(w, step)
  /\ \/ step = "down" /\ pc[w] # "down"
     \/ step = "connect" /\ pc[w] \in {"poll", "process", "abort_lost"}
     \/ step = "reset"
  /\ \/ UNCHANGED txn
     \/ txn[pid[w]] \in {"open", "ending"} /\ txn' = [txn EXCEPT ![pid[w]] = "empty"]
  /\ UNCHANGED <<pid, txnRecords, txnOffsets, brokerVars>>

(* The stage's loop catches an exception and polls on.                         *)
Swallow(w) ==
  /\ SwallowErrors
  /\ pc[w] \in {"poll", "process"}
  /\ Goto(w, "poll")
  /\ batch' = [batch EXCEPT ![w] = {}]
  /\ \/ UNCHANGED position
     \/ pc[w] = "poll" /\ FetchedInVain(w)
  /\ UNCHANGED <<epoch, valid, assigned, client, grant, groupVars, pid, txnVars, brokerVars>>

(* A batch of the current assignment moves on.                                 *)
PassBatch(w, step) ==
  /\ \/ pc[w] = "poll" /\ step = "process"
     \/ pc[w] = "process" /\ step = "begin"
  /\ BatchCurrent(w)
  /\ Goto(w, step)
  /\ Keep(w)
  /\ UNCHANGED <<txnVars, brokerVars>>

(* A transaction is opened, with all the outputs or only some.                 *)
Open(w, step) ==
  /\ pc[w] = "begin"
  /\ Goto(w, step)
  /\ txn[pid[w]] = "empty"
  /\ txn' = [txn EXCEPT ![pid[w]] = "open"]
  /\ txnOffsets' = [txnOffsets EXCEPT ![pid[w]] = NoOffsets]
  /\ \/ /\ step = "offsets"
        /\ txnRecords' = [txnRecords EXCEPT ![pid[w]] = SourceRecords(w)]
     \/ /\ step = "abort_infra"
        /\ \E sent \in SUBSET SourceRecords(w) :
             txnRecords' = [txnRecords EXCEPT ![pid[w]] = sent]
  /\ Keep(w)
  /\ UNCHANGED brokerVars

(* Offsets are registered, whether or not the worker hears of it.              *)
Register(w, step) ==
  /\ pc[w] = "offsets"
  /\ step \in {"commit", "abort_infra"}
  /\ Goto(w, step)
  /\ OffsetsAccepted(w)
  /\ Keep(w)
  /\ UNCHANGED <<txn, txnRecords, brokerVars>>

(* A transaction is given up; nothing but the worker's step changes.           *)
GiveUp(w, step) ==
  /\ pc[w] \in {"begin", "offsets", "commit", "committing"}
  /\ step \in {"abort_lost", "abort_infra"}
  /\ step = "abort_lost" => pc[w] = "offsets"
  /\ Goto(w, step)
  /\ Keep(w)
  /\ UNCHANGED <<txnVars, brokerVars>>

WorkerStep(w) ==
  \/ Connect(w) \/ JoinGroup(w) \/ OnAssign(w) \/ OnRevoke(w) \/ OnLost(w)
  \/ \E p \in Partitions : Consume(w, p)
  \/ CommitTransaction(w) \/ CommitReturns(w) \/ ResetProducer(w) \/ Restart(w)
  \/ Swallow(w)
  \/ \E step \in Steps :
       \/ StartOver(w, step) \/ PassBatch(w, step) \/ Open(w, step)
       \/ Register(w, step) \/ GiveUp(w, step)

LEMMA AbortForms ==
  ASSUME NEW w \in Workers, AbortTransaction(w)
  PROVE  /\ \/ UNCHANGED txn
            \/ /\ txn[pid[w]] \in {"open", "ending"}
               /\ txn' = [txn EXCEPT ![pid[w]] = "empty"]
         /\ UNCHANGED <<txnRecords, txnOffsets>>
  BY DEF AbortTransaction

LEMMA RaisesForms ==
  ASSUME NEW w \in Workers, StageRaises(w), pc[w] \in {"poll", "process"},
         SwallowErrors =>
           UNCHANGED position \/ (pc[w] = "poll" /\ FetchedInVain(w))
  PROVE  WorkerStep(w)
<1>1. CASE SwallowErrors
  BY <1>1 DEF StageRaises, Swallow, WorkerStep
<1>2. CASE ~SwallowErrors
  BY <1>2 DEF StageRaises, StartOver, WorkerStep, Steps
<1> QED  BY <1>1, <1>2

LEMMA ProgressForms ==
  ASSUME NEW w \in Workers, Progress(w)
  PROVE  WorkerStep(w)
<1>1. CASE ReturnBatch(w)
  BY <1>1 DEF ReturnBatch, PassBatch, StartOver, WorkerStep, Keep, Steps
<1>2. CASE BodyReturns(w)
  BY <1>2 DEF BodyReturns, PassBatch, StartOver, WorkerStep, Keep, Steps
<1>3. CASE Begin(w)
  BY <1>3 DEF Begin, Open, WorkerStep, Keep, Steps
<1>4. CASE SendOffsets(w)
  BY <1>4 DEF SendOffsets, Register, WorkerStep, Keep, Steps
<1>5. CASE SendOffsetsFenced(w)
  BY <1>5 DEF SendOffsetsFenced, GiveUp, WorkerStep, Keep, Steps
<1>6. CASE RecoverMembership(w)
  BY <1>6, AbortForms DEF RecoverMembership, StartOver, WorkerStep, Steps
<1>7. CASE LeaveForOutage(w)
  BY <1>7, AbortForms DEF LeaveForOutage, StartOver, WorkerStep, Steps
<1> QED  BY <1>1, <1>2, <1>3, <1>4, <1>5, <1>6, <1>7 DEF Progress, WorkerStep

LEMMA FailureForms ==
  ASSUME NEW w \in Workers, Failure(w)
  PROVE  WorkerStep(w)
<1>1. CASE FetchFails(w)
  BY <1>1 DEF FetchFails, StartOver, WorkerStep, Steps
<1>2. CASE ConsumeRaises(w)
  BY <1>2, RaisesForms DEF ConsumeRaises
<1>3. CASE BodyRaises(w)
  BY <1>3, RaisesForms DEF BodyRaises
<1>4. CASE BeginFails(w)
  BY <1>4 DEF BeginFails, Open, GiveUp, WorkerStep, Keep, Steps
<1>5. CASE SendOffsetsFails(w)
  BY <1>5 DEF SendOffsetsFails, Register, GiveUp, WorkerStep, Keep, Steps
<1>6. CASE CommitFails(w)
  BY <1>6 DEF CommitFails, GiveUp, WorkerStep, Keep, Steps
<1>7. CASE CommitTimesOut(w)
  BY <1>7 DEF CommitTimesOut, GiveUp, WorkerStep, Keep, Steps
<1>8. CASE Crash(w)
  BY <1>8 DEF Crash, StartOver, WorkerStep, Steps
<1> QED  BY <1>1, <1>2, <1>3, <1>4, <1>5, <1>6, <1>7, <1>8 DEF Failure

-------------------------------------------------------------------------------
(* The parts of the invariant, each over a worker's step and a coordinator's.  *)

(* Every step that touches the ids at all gives a restarted worker a free one. *)
LEMMA DistinctIdsStep ==
  ASSUME TypeOK, DistinctIds, NEW w \in Workers, WorkerStep(w)
  PROVE  DistinctIds'
<1>1. CASE Restart(w)
  BY <1>1 DEF Restart, TypeOK, DistinctIds
<1>2. CASE ~Restart(w)
  <2>1. UNCHANGED pid
    BY <1>2 DEF WorkerStep, Connect, JoinGroup, OnAssign, OnRevoke, OnLost, Consume,
       CommitTransaction, CommitReturns, ResetProducer, Swallow, StartOver, PassBatch,
       Open, Register, GiveUp, Keep
  <2> QED  BY <2>1 DEF DistinctIds
<1> QED  BY <1>1, <1>2

(* The steps of a worker that leave group and client alone.                    *)
LEMMA QuietMembership ==
  ASSUME NEW w \in Workers,
         \/ Connect(w) \/ CommitTransaction(w) \/ CommitReturns(w) \/ ResetProducer(w)
         \/ Restart(w)
         \/ \E step \in Steps : PassBatch(w, step) \/ Open(w, step) \/ Register(w, step)
                               \/ GiveUp(w, step)
  PROVE  UNCHANGED <<members, joined, client, grant, position>>
  BY DEF Connect, CommitTransaction, CommitReturns, ResetProducer, Restart, PassBatch,
     Open, Register, GiveUp, Keep

LEMMA MembershipStep ==
  ASSUME TypeOK, Membership, NEW w \in Workers, WorkerStep(w)
  PROVE  Membership'
<1> USE DEF TypeOK, Membership, ClientStates, NoPosition
<1>1. CASE UNCHANGED <<members, joined, client, grant, position>>
  BY <1>1
<1>2. CASE JoinGroup(w)
  BY <1>2 DEF JoinGroup
<1>3. CASE OnAssign(w)
  BY <1>3 DEF OnAssign
<1>4. CASE OnRevoke(w)
  BY <1>4 DEF OnRevoke, DropAssignment
<1>5. CASE OnLost(w)
  BY <1>5 DEF OnLost, DropAssignment
<1>6. CASE \E p \in Partitions : Consume(w, p)
  BY <1>6 DEF Consume, Fetchable
<1>7. CASE Swallow(w)
  <2>1. /\ UNCHANGED <<members, joined, client, grant>>
        /\ UNCHANGED position \/ FetchedInVain(w)
    BY <1>7 DEF Swallow
  <2>2. CASE UNCHANGED position
    BY <2>1, <2>2
  <2>3. ASSUME FetchedInVain(w)
        PROVE  Membership'
    <3>1. \A v \in Workers : \A q \in Partitions :
            position'[v][q] # Unset => client[v] = "stable" /\ q \in grant[v]
      <4> SUFFICES ASSUME NEW v \in Workers, NEW q \in Partitions, position'[v][q] # Unset
                   PROVE  client[v] = "stable" /\ q \in grant[v]
        OBVIOUS
      <4>1. CASE position'[v][q] = position[v][q]
        BY <4>1
      <4>2. CASE v = w /\ Fetchable(w, q)
        BY <4>2 DEF Fetchable
      <4> HIDE DEF TypeOK
      <4> QED  BY <2>3, <4>1, <4>2, FetchedInVainForm
    <3> QED  BY <2>1, <3>1
  <2> QED  BY <2>1, <2>2, <2>3
<1>8. CASE \E step \in Steps : StartOver(w, step)
  BY <1>8 DEF StartOver, DisconnectForRecovery, DropAssignment, RemoveMember
<1> HIDE DEF TypeOK, Membership
<1> QED
  BY <1>1, <1>2, <1>3, <1>4, <1>5, <1>6, <1>7, <1>8, QuietMembership DEF WorkerStep

LEMMA MembershipCoordinator ==
  ASSUME TypeOK, Membership, Coordinator
  PROVE  Membership'
<1>1. CASE CompleteRebalance
  <2>1. \A v \in members : client[v] \in {"none", "joining"}
    BY <1>1 DEF CompleteRebalance, Membership
  <2>2. PICK owner \in [Partitions -> members] :
          /\ client' = [v \in Workers |->
                          IF v \in members /\ client[v] = "joining"
                            THEN "granted" ELSE client[v]]
          /\ grant' = [v \in Workers |->
                         IF v \in members /\ client[v] = "joining"
                           THEN {p \in Partitions : owner[p] = v} ELSE grant[v]]
    BY <1>1 DEF CompleteRebalance
  <2>3. joined' = {} /\ UNCHANGED <<members, position>>
    BY <1>1 DEF CompleteRebalance
  <2> QED  BY <2>1, <2>2, <2>3 DEF Membership, TypeOK, ClientStates
<1>2. CASE \E w \in Workers : Expire(w)
  BY <1>2 DEF Expire, RemoveMember, Membership, TypeOK
<1>3. CASE \E i \in ProducerIds : BrokerCommits(i) \/ TransactionTimesOut(i)
  BY <1>3 DEF BrokerCommits, TransactionTimesOut, Membership
<1> QED  BY <1>1, <1>2, <1>3 DEF Coordinator

LEMMA BatchTagsStep ==
  ASSUME TypeOK, BatchTags, NEW w \in Workers, WorkerStep(w)
  PROVE  BatchTags'
<1> USE DEF TypeOK, BatchTags, Fetched, Unset, NoPosition
<1>1. CASE Connect(w)
  BY <1>1 DEF Connect, InvalidateAssignment
<1>2. CASE JoinGroup(w)
  BY <1>2 DEF JoinGroup
<1>3. CASE OnAssign(w)
  BY <1>3 DEF OnAssign
<1>4. CASE OnRevoke(w)
  BY <1>4 DEF OnRevoke, InvalidateAssignment, DropAssignment
<1>5. CASE OnLost(w)
  BY <1>5 DEF OnLost, InvalidateAssignment, DropAssignment
<1>6. CASE \E p \in Partitions : Consume(w, p)
  <2> SUFFICES ASSUME NEW p \in Partitions, Consume(w, p) PROVE BatchTags'
    BY <1>6
  <2>1. NextOffset(w, p) \in Offsets /\ NextOffset(w, p) + 1 \in 0 .. LogLength
    BY NextOffsetType DEF Consume
  <2> QED  BY <2>1 DEF Consume, Offsets
<1>7. CASE Swallow(w)
  <2>1. /\ batch' = [batch EXCEPT ![w] = {}] /\ pc' = [pc EXCEPT ![w] = "poll"]
        /\ UNCHANGED <<epoch, client>>
        /\ \A v \in Workers \ {w} : position'[v] = position[v]
    BY <1>7, FetchedInVainForm DEF Swallow
  <2> QED  BY <2>1
<1>8. CASE \E step \in Steps : StartOver(w, step)
  BY <1>8 DEF StartOver, DisconnectForRecovery, InvalidateAssignment, DropAssignment
<1>9. CASE \E step \in Steps : PassBatch(w, step)
  BY <1>9 DEF PassBatch, Keep
<1>10. CASE \E step \in Steps : Open(w, step) \/ Register(w, step) \/ GiveUp(w, step)
  BY <1>10 DEF Open, Register, GiveUp, Keep
<1>11. CASE CommitTransaction(w) \/ ResetProducer(w)
  BY <1>11 DEF CommitTransaction, ResetProducer
<1>12. CASE CommitReturns(w)
  BY <1>12 DEF CommitReturns
<1>13. CASE Restart(w)
  BY <1>13 DEF Restart
<1> HIDE DEF TypeOK, BatchTags
<1> QED
  BY <1>1, <1>2, <1>3, <1>4, <1>5, <1>6, <1>7, <1>8, <1>9, <1>10, <1>11, <1>12, <1>13
     DEF WorkerStep

LEMMA BatchTagsCoordinator ==
  ASSUME TypeOK, BatchTags, Coordinator
  PROVE  BatchTags'
<1>1. CASE CompleteRebalance
  <2>1. UNCHANGED <<pc, batch, epoch, position>>
        /\ \A w \in Workers : client[w] = "none" => client'[w] = "none"
    BY <1>1 DEF CompleteRebalance
  <2> QED  BY <2>1 DEF BatchTags
<1>2. CASE ~CompleteRebalance
  <2>1. UNCHANGED <<pc, batch, epoch, position, client>>
    BY <1>2 DEF Coordinator, Expire, BrokerCommits, TransactionTimesOut
  <2> QED  BY <2>1 DEF BatchTags
<1> QED  BY <1>1, <1>2

LEMMA CurrentBatchStep ==
  ASSUME TypeOK, TransactionCarriesCurrentBatch, NEW w \in Workers, WorkerStep(w)
  PROVE  TransactionCarriesCurrentBatch'
<1> USE DEF TypeOK, TransactionCarriesCurrentBatch, BatchCurrent
<1>1. CASE Connect(w)
  BY <1>1 DEF Connect, InvalidateAssignment
<1>2. CASE JoinGroup(w) \/ CommitTransaction(w) \/ ResetProducer(w)
  BY <1>2 DEF JoinGroup, CommitTransaction, ResetProducer
<1>3. CASE OnAssign(w)
  BY <1>3 DEF OnAssign
<1>4. CASE OnRevoke(w) \/ OnLost(w)
  BY <1>4 DEF OnRevoke, OnLost, InvalidateAssignment
<1>5. CASE \E p \in Partitions : Consume(w, p)
  BY <1>5 DEF Consume
<1>6. CASE CommitReturns(w)
  BY <1>6 DEF CommitReturns
<1>11. CASE Restart(w)
  <2>1. pc'[w] = "connect" /\ UNCHANGED <<valid, assigned, batch>>
    BY <1>11 DEF Restart
  <2>2. \A v \in Workers \ {w} : pc'[v] = pc[v] /\ epoch'[v] = epoch[v]
    BY <1>11 DEF Restart
  <2> QED  BY <2>1, <2>2
<1>7. CASE Swallow(w)
  BY <1>7 DEF Swallow
<1>8. CASE \E step \in Steps : StartOver(w, step)
  <2>1. pc'[w] \in {"down", "connect", "reset"}
    BY <1>8 DEF StartOver
  <2>2. \A v \in Workers \ {w} :
          /\ pc'[v] = pc[v] /\ batch'[v] = batch[v] /\ epoch'[v] = epoch[v]
          /\ valid'[v] = valid[v] /\ assigned'[v] = assigned[v]
    BY <1>8 DEF StartOver, DisconnectForRecovery, InvalidateAssignment
  <2> QED  BY <2>1, <2>2
<1>9. CASE \E step \in Steps : PassBatch(w, step)
  BY <1>9 DEF PassBatch, Keep
<1>10. CASE \E step \in Steps : Open(w, step) \/ Register(w, step) \/ GiveUp(w, step)
  BY <1>10 DEF Open, Register, GiveUp, Keep
<1> HIDE DEF TypeOK, TransactionCarriesCurrentBatch
<1> QED
  BY <1>1, <1>2, <1>3, <1>4, <1>5, <1>6, <1>7, <1>8, <1>9, <1>10, <1>11
     DEF WorkerStep

(* No coordinator touches what the handlers keep.                              *)
LEMMA CoordinatorFrame ==
  ASSUME Coordinator
  PROVE  UNCHANGED <<pc, epoch, valid, assigned, batch, pid, position>>
  BY DEF Coordinator, CompleteRebalance, Expire, BrokerCommits, TransactionTimesOut

-------------------------------------------------------------------------------
(* What a current batch says of the log.                                       *)

LEMMA CurrentBatchRecords ==
  ASSUME TypeOK, NEW w \in Workers, BatchCurrent(w),
         NEW p \in Partitions, NEW o \in Offsets
  PROVE  <<p, o>> \in SourceRecords(w) <=> IsFresh(w, p, o)
<1>1. \A m \in batch[w] : m.epoch = epoch[w] /\ m \in Fetched
  BY DEF BatchCurrent, TypeOK
<1>2. ASSUME <<p, o>> \in SourceRecords(w) PROVE IsFresh(w, p, o)
  <2>1. PICK m \in batch[w] : m.part = p /\ m.off = o
    BY <1>2 DEF SourceRecords
  <2>2. m = [part |-> p, off |-> o, epoch |-> epoch[w]]
    BY <1>1, <2>1 DEF Fetched
  <2> QED  BY <2>2 DEF IsFresh
<1>3. ASSUME IsFresh(w, p, o) PROVE <<p, o>> \in SourceRecords(w)
  BY <1>3 DEF IsFresh, SourceRecords
<1> QED  BY <1>2, <1>3

(* The offset a current batch sends for p is that of its last record plus one. *)
LEMMA CurrentBatchOffset ==
  ASSUME TypeOK, NEW w \in Workers, BatchCurrent(w), NEW p \in Partitions
  PROVE  LET n == OffsetsFor(w)[p]
         IN  /\ n = NoOffset => \A o \in Offsets : ~IsFresh(w, p, o)
             /\ n # NoOffset => /\ n - 1 \in Offsets /\ IsFresh(w, p, n - 1)
                               /\ \A o \in Offsets : IsFresh(w, p, o) => o < n
<1> DEFINE n == OffsetsFor(w)[p]
           next == {m.off + 1 : m \in {r \in batch[w] : r.part = p}}
<1>1. \A m \in batch[w] : m.epoch = epoch[w] /\ m \in Fetched
  BY DEF BatchCurrent, TypeOK
<1>2. /\ next \subseteq 0 .. LogLength
      /\ next = {} => n = NoOffset
      /\ next # {} => n \in next /\ \A o \in next : n >= o
  BY OffsetsForMax
<1>3. \A o \in Offsets : IsFresh(w, p, o) => o + 1 \in next
  BY DEF IsFresh
<1>4. next # {} => n # NoOffset
  BY <1>2, StageAssumption DEF NoOffset
<1>5. CASE n = NoOffset
  BY <1>3, <1>4, <1>5
<1>6. CASE n # NoOffset
  <2>1. n \in next /\ \A o \in next : n >= o
    BY <1>2, <1>6
  <2>2. PICK m \in batch[w] : m.part = p /\ n = m.off + 1
    BY <2>1
  <2>3. m = [part |-> p, off |-> m.off, epoch |-> epoch[w]] /\ m.off \in Offsets
    BY <1>1, <2>2 DEF Fetched
  <2>4. n - 1 = m.off
    BY <2>2, <2>3, StageAssumption DEF Offsets
  <2>5. IsFresh(w, p, n - 1) /\ n - 1 \in Offsets
    BY <2>3, <2>4 DEF IsFresh
  <2>6. ASSUME NEW o \in Offsets, IsFresh(w, p, o)
        PROVE  o < n
    <3>1. o + 1 \in next
      BY <1>3, <2>6
    <3>2. n >= o + 1
      BY <2>1, <3>1
    <3>3. n \in Int /\ o \in Int
      BY <2>2, <2>3, StageAssumption DEF Offsets
    <3> HIDE DEF n
    <3> QED  BY <3>2, <3>3
  <2> QED  BY <1>6, <2>5, <2>6
<1> QED  BY <1>5, <1>6

(* ... and for a member it lies between the committed offset and its position, *)
(* at the position itself unless exceptions are swallowed.                     *)
LEMMA MemberBatchOffset ==
  ASSUME TypeOK, BatchTags, FetchedFromCommitted, NEW w \in Workers,
         IsCurrentMember(w), BatchCurrent(w), ~Recovering(w), ~OwnCommitDone(w),
         NEW p \in Partitions
  PROVE  LET n == OffsetsFor(w)[p]
         IN  /\ n = NoOffset =>
                  /\ \A o \in Offsets : <<p, o>> \notin SourceRecords(w)
                  /\ position[w][p] # Unset =>
                       SwallowErrors \/ committed[p] = position[w][p]
             /\ n # NoOffset =>
                  /\ position[w][p] # Unset
                  /\ committed[p] <= n /\ n <= position[w][p]
                  /\ SwallowErrors \/ n = position[w][p]
                  /\ \A o \in Offsets :
                       LET next == committed[p] <= o /\ o < n
                       IN  /\ <<p, o>> \in SourceRecords(w) => next
                           /\ next => SwallowErrors \/ <<p, o>> \in SourceRecords(w)
<1> DEFINE n == OffsetsFor(w)[p]
<1>1. n \in 0 .. LogLength \cup {NoOffset}
  BY OffsetsForType
<1>2. /\ n = NoOffset => \A o \in Offsets : ~IsFresh(w, p, o)
      /\ n # NoOffset => /\ n - 1 \in Offsets /\ IsFresh(w, p, n - 1)
                        /\ \A o \in Offsets : IsFresh(w, p, o) => o < n
  BY CurrentBatchOffset
<1>3. \A o \in Offsets : <<p, o>> \in SourceRecords(w) <=> IsFresh(w, p, o)
  BY CurrentBatchRecords
<1>4. position[w][p] # Unset =>
        /\ committed[p] <= position[w][p]
        /\ \A o \in Offsets :
             LET next == committed[p] <= o /\ o < position[w][p]
             IN  /\ IsFresh(w, p, o) => next
                 /\ next => SwallowErrors \/ IsFresh(w, p, o)
  BY DEF FetchedFromCommitted
<1>5. committed[p] \in 0 .. LogLength /\ position[w][p] \in 0 .. LogLength \cup {Unset}
  BY DEF TypeOK
<1>6. CASE n = NoOffset
  <2>1. ASSUME position[w][p] # Unset, ~SwallowErrors PROVE committed[p] = position[w][p]
    BY <1>2, <1>4, <1>5, <1>6, <2>1, StageAssumption DEF Offsets, Unset
  <2> QED  BY <1>2, <1>3, <1>6, <2>1 DEF NoOffset
<1>7. CASE n # NoOffset
  <2>1. position[w][p] # Unset
    BY <1>2, <1>7 DEF BatchTags, IsFresh
  <2>2. n \in 0 .. LogLength
    BY <1>1, <1>7
  <2>3. committed[p] <= n /\ n <= position[w][p]
    BY <1>2, <1>4, <1>5, <1>7, <2>1, <2>2, StageAssumption DEF Offsets
  <2>4. ASSUME ~SwallowErrors PROVE n = position[w][p]
    BY <1>2, <1>4, <1>5, <1>7, <2>1, <2>2, <2>3, <2>4, StageAssumption DEF Offsets
  <2>5. ASSUME NEW o \in Offsets
        PROVE  LET next == committed[p] <= o /\ o < n
               IN  /\ IsFresh(w, p, o) => next
                   /\ next => SwallowErrors \/ IsFresh(w, p, o)
    BY <1>2, <1>4, <1>5, <1>7, <2>1, <2>2, <2>3, <2>4, StageAssumption DEF Offsets
  <2> QED  BY <1>3, <1>7, <2>1, <2>3, <2>4, <2>5
<1> QED  BY <1>6, <1>7

-------------------------------------------------------------------------------
(* The remaining parts.                                                        *)

LEMMA SettledStep ==
  ASSUME TypeOK, DistinctIds, Settled, NEW w \in Workers, WorkerStep(w)
  PROVE  Settled'
<1> USE DEF TypeOK, DistinctIds, Settled, Pending, NoOffset
<1>1. CASE Connect(w)
  BY <1>1 DEF Connect
<1>2. CASE JoinGroup(w) \/ OnAssign(w) \/ OnRevoke(w) \/ OnLost(w)
  BY <1>2 DEF JoinGroup, OnAssign, OnRevoke, OnLost
<1>3. CASE (\E p \in Partitions : Consume(w, p)) \/ Swallow(w)
  <2>1. /\ \A v \in Workers : pc'[v] = pc[v] \/ (v = w /\ pc[w] \in {"poll", "process"})
        /\ UNCHANGED <<pid, txn, txnOffsets>>
    BY <1>3 DEF Consume, Swallow
  <2> QED  BY <2>1
<1>4. CASE CommitTransaction(w)
  BY <1>4 DEF CommitTransaction
<1>5. CASE CommitReturns(w)
  BY <1>5 DEF CommitReturns
<1>6. CASE ResetProducer(w)
  BY <1>6 DEF ResetProducer
<1>7. CASE Restart(w)
  BY <1>7 DEF Restart
<1>8. CASE \E step \in Steps : StartOver(w, step)
  BY <1>8 DEF StartOver
<1>9. CASE \E step \in Steps : PassBatch(w, step)
  BY <1>9 DEF PassBatch, Keep
<1>10. CASE \E step \in Steps : Open(w, step)
  BY <1>10 DEF Open, NoOffsets, Keep
<1>11. CASE \E step \in Steps : Register(w, step)
  BY <1>11 DEF Register, OffsetsAccepted, Keep
<1>12. CASE \E step \in Steps : GiveUp(w, step)
  BY <1>12 DEF GiveUp, Keep
<1> HIDE DEF TypeOK, DistinctIds, Settled, Pending
<1> QED
  BY <1>1, <1>2, <1>3, <1>4, <1>5, <1>6, <1>7, <1>8, <1>9, <1>10, <1>11, <1>12
     DEF WorkerStep

LEMMA SettledCoordinator ==
  ASSUME TypeOK, Settled, Coordinator
  PROVE  Settled'
<1>1. \A i \in ProducerIds : \A p \in Partitions : Pending(i, p)' => Pending(i, p)
  BY DEF Coordinator, CompleteRebalance, Expire, BrokerCommits, TransactionTimesOut, Pending, TypeOK
<1> QED  BY <1>1, CoordinatorFrame DEF Settled, TypeOK

LEMMA PhaseStep ==
  ASSUME TypeOK, DistinctIds, TransactionCarriesCurrentBatch, Phase,
         NEW w \in Workers, WorkerStep(w)
  PROVE  Phase'
<1> USE DEF TypeOK, DistinctIds, Phase
<1>1. ASSUME UNCHANGED batch PROVE \A v \in Workers : /\ SourceRecords(v)' = SourceRecords(v)
                                                     /\ OffsetsFor(v)' = OffsetsFor(v)
  BY <1>1 DEF SourceRecords, OffsetsFor
<1>2. ASSUME NEW v \in Workers, batch'[v] = batch[v]
      PROVE  SourceRecords(v)' = SourceRecords(v) /\ OffsetsFor(v)' = OffsetsFor(v)
  BY <1>2 DEF SourceRecords, OffsetsFor
<1>3. CASE Connect(w) \/ JoinGroup(w) \/ OnAssign(w) \/ OnRevoke(w) \/ OnLost(w)
  BY <1>1, <1>3 DEF Connect, JoinGroup, OnAssign, OnRevoke, OnLost
<1>4. CASE (\E p \in Partitions : Consume(w, p)) \/ Swallow(w)
  <2>1. /\ pc[w] \in {"poll", "process"} /\ pc' = [pc EXCEPT ![w] = pc'[w]]
        /\ pc'[w] = "poll" /\ UNCHANGED <<pid, txnVars>>
        /\ \A v \in Workers \ {w} : batch'[v] = batch[v]
    BY <1>4 DEF Consume, Swallow
  <2> QED  BY <1>2, <2>1
<1>5. CASE CommitTransaction(w)
  BY <1>1, <1>5 DEF CommitTransaction
<1>6. CASE CommitReturns(w)
  BY <1>2, <1>6 DEF CommitReturns
<1>7. CASE ResetProducer(w)
  BY <1>1, <1>7 DEF ResetProducer
<1>8. CASE Restart(w)
  BY <1>1, <1>8 DEF Restart
<1>9. CASE \E step \in Steps : StartOver(w, step)
  BY <1>2, <1>9 DEF StartOver, DisconnectForRecovery
<1>10. CASE \E step \in Steps : PassBatch(w, step)
  BY <1>1, <1>10 DEF PassBatch, Keep
<1>11. CASE \E step \in Steps : Open(w, step)
  BY <1>1, <1>11 DEF Open, Keep
<1>12. CASE \E step \in Steps : Register(w, step)
  BY <1>1, <1>12 DEF Register, OffsetsAccepted, Keep
<1>13. CASE \E step \in Steps : GiveUp(w, step)
  BY <1>1, <1>13 DEF GiveUp, Keep
<1> HIDE DEF TypeOK, DistinctIds, Phase
<1> QED
  BY <1>3, <1>4, <1>5, <1>6, <1>7, <1>8, <1>9, <1>10, <1>11, <1>12, <1>13
     DEF WorkerStep

LEMMA PhaseCoordinator ==
  ASSUME TypeOK, Phase, Coordinator
  PROVE  Phase'
<1>1. \A v \in Workers : /\ SourceRecords(v)' = SourceRecords(v)
                        /\ OffsetsFor(v)' = OffsetsFor(v)
  BY CoordinatorFrame DEF SourceRecords, OffsetsFor
<1>2. CASE CompleteRebalance \/ \E w \in Workers : Expire(w)
  BY <1>1, <1>2, CoordinatorFrame DEF CompleteRebalance, Expire, Phase
<1>3. CASE \E i \in ProducerIds : BrokerCommits(i) \/ TransactionTimesOut(i)
  BY <1>1, <1>3, CoordinatorFrame DEF BrokerCommits, TransactionTimesOut, Phase, TypeOK
<1> QED  BY <1>2, <1>3 DEF Coordinator

(* A record just fetched is the next one after those fetched before.           *)
LEMMA FetchedConsume ==
  ASSUME TypeOK, BatchTags, FetchedFromCommitted,
         NEW w \in Workers, NEW p \in Partitions, Consume(w, p)
  PROVE  FetchedFromCommitted'
<1> DEFINE n == NextOffset(w, p)
<1>1. n \in Offsets /\ n + 1 \in 0 .. LogLength /\ n \in Int
  BY NextOffsetType, StageAssumption DEF Consume, Offsets
<1>2. /\ pc[w] = "poll"
      /\ batch' = [batch EXCEPT ![w] = @ \cup {[part |-> p, off |-> n, epoch |-> epoch[w]]}]
      /\ position' = [position EXCEPT ![w][p] = n + 1]
      /\ UNCHANGED <<pc, epoch, client, pid, members, txn, committed>>
  BY DEF Consume
<1>3. \A v \in Workers : \A q \in Partitions :
        v # w \/ q # p =>
          /\ position'[v][q] = position[v][q]
          /\ \A o \in Offsets : IsFresh(v, q, o)' <=> IsFresh(v, q, o)
  BY <1>2 DEF IsFresh, TypeOK
<1>4. position'[w][p] = n + 1
  BY <1>2 DEF TypeOK
<1>5. \A o \in Offsets : IsFresh(w, p, o)' <=> IsFresh(w, p, o) \/ o = n
  BY <1>1, <1>2 DEF IsFresh, TypeOK
<1>6. position[w][p] = Unset => \A o \in Offsets : ~IsFresh(w, p, o)
  BY DEF BatchTags, IsFresh
<1>7. committed[p] \in Int
  BY StageAssumption DEF TypeOK
<1>8. ASSUME IsCurrentMember(w)
      PROVE  /\ committed[p] <= n
             /\ \A o \in Offsets :
                  LET next == committed[p] <= o /\ o < n
                  IN  /\ IsFresh(w, p, o) => next
                      /\ next => SwallowErrors \/ IsFresh(w, p, o)
  <2>1. CASE position[w][p] = Unset
    <3>1. n = committed[p]
      BY <2>1 DEF NextOffset
    <3>2. \A o \in Offsets : ~(committed[p] <= o /\ o < n)
      BY <1>1, <1>7, <3>1 DEF Offsets
    <3> QED  BY <1>6, <1>7, <2>1, <3>1, <3>2
  <2>2. CASE position[w][p] # Unset
    <3>1. n = position[w][p]
      BY <2>2 DEF NextOffset
    <3> QED  BY <1>2, <1>8, <2>2, <3>1 DEF FetchedFromCommitted, Recovering, OwnCommitDone
  <2> QED  BY <2>1, <2>2
<1>9. ASSUME IsCurrentMember(w)
      PROVE  /\ committed[p] <= n + 1
             /\ \A o \in Offsets :
                  LET next == committed[p] <= o /\ o < n + 1
                  IN  /\ IsFresh(w, p, o)' => next
                      /\ next => SwallowErrors \/ IsFresh(w, p, o)'
  <2>1. committed[p] <= n + 1
    BY <1>1, <1>7, <1>8, <1>9
  <2>2. ASSUME NEW o \in Offsets
        PROVE  (committed[p] <= o /\ o < n + 1) <=> (committed[p] <= o /\ o < n) \/ o = n
    BY <1>1, <1>7, <1>8, <1>9 DEF Offsets
  <2> QED  BY <1>5, <1>8, <1>9, <2>1, <2>2
<1> HIDE DEF n
<1> QED  BY <1>2, <1>3, <1>4, <1>9 DEF FetchedFromCommitted, Recovering, OwnCommitDone

LEMMA FetchedStartOver ==
  ASSUME TypeOK, DistinctIds, FetchedFromCommitted, NEW w \in Workers,
         NEW step \in Steps, StartOver(w, step)
  PROVE  FetchedFromCommitted'
<1>1. /\ client'[w] = "none" /\ members' \subseteq members
      /\ UNCHANGED <<pid, committed>>
  BY DEF StartOver, DisconnectForRecovery, DropAssignment, RemoveMember, TypeOK
<1>2. ASSUME NEW v \in Workers, v # w
      PROVE  /\ pc'[v] = pc[v] /\ client'[v] = client[v] /\ position'[v] = position[v]
             /\ batch'[v] = batch[v] /\ epoch'[v] = epoch[v] /\ txn'[pid[v]] = txn[pid[v]]
  BY <1>2 DEF StartOver, DisconnectForRecovery, DropAssignment, InvalidateAssignment, TypeOK,
              DistinctIds
<1> SUFFICES ASSUME NEW v \in Workers, NEW p \in Partitions,
                    IsCurrentMember(v)', position'[v][p] # Unset, ~Recovering(v)'
             PROVE  /\ committed'[p] <= position'[v][p]
                    /\ OwnCommitDone(v)' => SwallowErrors \/ committed'[p] = position'[v][p]
                    /\ ~OwnCommitDone(v)' =>
                         \A o \in Offsets :
                           LET next == committed'[p] <= o /\ o < position'[v][p]
                           IN  /\ IsFresh(v, p, o)' => next
                               /\ next => SwallowErrors \/ IsFresh(v, p, o)'
  BY DEF FetchedFromCommitted
<1>3. v # w
  BY <1>1
<1>4. IsCurrentMember(v) /\ position[v][p] # Unset /\ ~Recovering(v)
  BY <1>1, <1>2, <1>3 DEF Recovering
<1>5. OwnCommitDone(v)' <=> OwnCommitDone(v)
  BY <1>1, <1>2, <1>3 DEF OwnCommitDone
<1>6. \A o : IsFresh(v, p, o)' <=> IsFresh(v, p, o)
  BY <1>2, <1>3 DEF IsFresh
<1>7. /\ committed[p] <= position[v][p]
      /\ OwnCommitDone(v) => SwallowErrors \/ committed[p] = position[v][p]
      /\ ~OwnCommitDone(v) =>
           \A o \in Offsets :
             LET next == committed[p] <= o /\ o < position[v][p]
             IN  /\ IsFresh(v, p, o) => next
                 /\ next => SwallowErrors \/ IsFresh(v, p, o)
  BY <1>4 DEF FetchedFromCommitted
<1> QED  BY <1>1, <1>2, <1>3, <1>5, <1>6, <1>7

LEMMA FetchedStep ==
  ASSUME TypeOK, DistinctIds, Membership, BatchTags, FetchedFromCommitted, Phase,
         NEW w \in Workers, WorkerStep(w)
  PROVE  FetchedFromCommitted'
<1> USE StageAssumption DEF TypeOK, DistinctIds, FetchedFromCommitted, Phase, IsFresh, Recovering,
        OwnCommitDone, Offsets, Unset, NoPosition
<1>1. CASE Connect(w)
  BY <1>1 DEF Connect, InvalidateAssignment, BatchTags, Membership
<1>2. CASE JoinGroup(w)
  BY <1>2 DEF JoinGroup
<1>3. CASE OnAssign(w)
  BY <1>3 DEF OnAssign, Membership
<1>4. CASE OnRevoke(w)
  BY <1>4 DEF OnRevoke, InvalidateAssignment, DropAssignment
<1>5. CASE OnLost(w)
  BY <1>5 DEF OnLost, InvalidateAssignment, DropAssignment
<1>6. CASE \E p \in Partitions : Consume(w, p)
  BY <1>6, FetchedConsume
<1>7. CASE Swallow(w)
  <2>1. /\ pc[w] \in {"poll", "process"} /\ pc' = [pc EXCEPT ![w] = "poll"]
        /\ batch' = [batch EXCEPT ![w] = {}] /\ SwallowErrors
        /\ UNCHANGED <<epoch, client, pid, members, txn, committed>>
    BY <1>7 DEF Swallow
  <2>2. UNCHANGED position \/ FetchedInVain(w)
    BY <1>7 DEF Swallow
  <2>3. ASSUME NEW q \in Partitions, IsCurrentMember(w), position'[w][q] # Unset
        PROVE  committed[q] <= position'[w][q]
    <3>1. CASE position'[w][q] = position[w][q]
      BY <2>1, <2>3, <3>1
    <3>2. CASE NextOffset(w, q) < position'[w][q]
      <4>1. position[w][q] \in 0 .. LogLength \cup {-1} /\ committed[q] \in 0 .. LogLength
        OBVIOUS
      <4>2. position'[w][q] \in 0 .. LogLength \cup {-1}
        BY <2>2, FetchedInVainForm DEF Unset
      <4>3. position[w][q] # Unset => committed[q] <= position[w][q]
        BY <2>1, <2>3
      <4> QED  BY <4>1, <4>2, <4>3, <3>2 DEF NextOffset
    <3> QED  BY <2>2, <3>1, <3>2, FetchedInVainForm
  <2>4. \A v \in Workers \ {w} : position'[v] = position[v]
    BY <2>2, FetchedInVainForm
  <2> QED  BY <2>1, <2>3, <2>4
<1>8. CASE \E step \in Steps : StartOver(w, step)
  <2> HIDE DEF TypeOK, DistinctIds, FetchedFromCommitted
  <2> QED  BY <1>8, FetchedStartOver
<1>9. CASE \E step \in Steps : PassBatch(w, step)
  BY <1>9 DEF PassBatch, Keep
<1>10. CASE \E step \in Steps : Open(w, step)
  BY <1>10 DEF Open, Keep
<1>11. CASE \E step \in Steps : Register(w, step)
  BY <1>11 DEF Register, Keep
<1>12. CASE \E step \in Steps : GiveUp(w, step)
  BY <1>12 DEF GiveUp, Keep
<1>13. CASE CommitTransaction(w)
  BY <1>13 DEF CommitTransaction
<1>14. CASE CommitReturns(w)
  BY <1>14 DEF CommitReturns
<1>15. CASE ResetProducer(w)
  BY <1>15 DEF ResetProducer
<1>16. CASE Restart(w)
  BY <1>16 DEF Restart, BatchTags
<1> HIDE DEF TypeOK, DistinctIds, FetchedFromCommitted, Phase
<1> QED
  BY <1>1, <1>2, <1>3, <1>4, <1>5, <1>6, <1>7, <1>8, <1>9, <1>10, <1>11, <1>12, <1>13,
     <1>14, <1>15, <1>16 DEF WorkerStep

LEMMA FetchedCoordinator ==
  ASSUME TypeOK, BatchTags, TransactionCarriesCurrentBatch, FetchedFromCommitted,
         PendingIsOwn, Phase, Coordinator
  PROVE  FetchedFromCommitted'
<1>1. \A w \in Workers : \A p \in Partitions : \A o \in Offsets :
        IsFresh(w, p, o)' <=> IsFresh(w, p, o)
  BY CoordinatorFrame DEF IsFresh
<1>2. CASE CompleteRebalance \/ \E w \in Workers : Expire(w)
  <2>1. \A w \in Workers : IsCurrentMember(w)' => IsCurrentMember(w)
    BY <1>2 DEF CompleteRebalance, Expire, RemoveMember
  <2>2. UNCHANGED <<txn, committed>>
    BY <1>2 DEF CompleteRebalance, Expire
  <2> QED  BY <1>1, <2>1, <2>2, CoordinatorFrame DEF FetchedFromCommitted, Recovering, OwnCommitDone
<1>3. ASSUME NEW i \in ProducerIds, TransactionTimesOut(i)
      PROVE  FetchedFromCommitted'
  <2>1. /\ txn[i] \in {"open", "ending"} /\ txn' = [txn EXCEPT ![i] = "aborted"]
        /\ UNCHANGED <<client, members, committed>>
    BY <1>3 DEF TransactionTimesOut
  <2>2. \A w \in Workers : OwnCommitDone(w)' <=> OwnCommitDone(w)
    BY <2>1, CoordinatorFrame DEF OwnCommitDone, TypeOK
  <2> QED  BY <1>1, <2>1, <2>2, CoordinatorFrame DEF FetchedFromCommitted, Recovering
<1>4. ASSUME NEW i \in ProducerIds, BrokerCommits(i)
      PROVE  FetchedFromCommitted'
  <2>1. /\ txn[i] = "ending" /\ txn' = [txn EXCEPT ![i] = "committed"]
        /\ UNCHANGED <<client, members>>
    BY <1>4 DEF BrokerCommits
  <2>2. \A p \in Partitions :
          committed'[p] = IF txnOffsets[i][p] = NoOffset THEN committed[p] ELSE txnOffsets[i][p]
    BY <1>4 DEF BrokerCommits
  <2> SUFFICES ASSUME NEW w \in Workers, NEW p \in Partitions, IsCurrentMember(w),
                      position[w][p] # Unset, ~Recovering(w)
               PROVE
      /\ committed'[p] <= position[w][p]
      /\ OwnCommitDone(w)' => SwallowErrors \/ committed'[p] = position[w][p]
      /\ ~OwnCommitDone(w)' =>
           \A o \in Offsets :
             LET next == committed'[p] <= o /\ o < position[w][p]
             IN  /\ IsFresh(w, p, o) => next
                 /\ next => SwallowErrors \/ IsFresh(w, p, o)
    BY <1>1, <2>1, CoordinatorFrame DEF FetchedFromCommitted, Recovering
  <2>3. CASE pid[w] = i /\ pc[w] = "committing"
    <3>1. ~OwnCommitDone(w) /\ BatchCurrent(w) /\ txnOffsets[i] = OffsetsFor(w)
      BY <2>1, <2>3 DEF OwnCommitDone, TransactionCarriesCurrentBatch, Phase
    <3>2. OwnCommitDone(w)'
      BY <2>1, <2>3, CoordinatorFrame DEF OwnCommitDone, TypeOK
    <3>3. CASE txnOffsets[i][p] = NoOffset
      BY <2>2, <3>1, <3>2, <3>3, MemberBatchOffset DEF FetchedFromCommitted
    <3>4. CASE txnOffsets[i][p] # NoOffset
      BY <2>2, <3>1, <3>2, <3>4, MemberBatchOffset
    <3> QED  BY <3>3, <3>4
  <2>4. CASE ~(pid[w] = i /\ pc[w] = "committing")
    <3>1. OwnCommitDone(w)' <=> OwnCommitDone(w)
      BY <2>1, <2>4, CoordinatorFrame DEF OwnCommitDone, TypeOK
    <3>2. ~Pending(i, p)
      BY <2>1, <2>4 DEF PendingIsOwn, Phase, Recovering
    <3>3. committed'[p] = committed[p]
      BY <2>1, <2>2, <3>2 DEF Pending
    <3> QED  BY <3>1, <3>3 DEF FetchedFromCommitted
  <2> QED  BY <2>3, <2>4
<1> QED  BY <1>2, <1>3, <1>4 DEF Coordinator

(* Every pending offset of a later state was pending before, or has just been   *)
(* registered.                                                                 *)
LEMMA PendingStep ==
  ASSUME TypeOK, NEW w \in Workers, WorkerStep(w),
         NEW i \in ProducerIds, NEW p \in Partitions, Pending(i, p)'
  PROVE  \/ Pending(i, p)
         \/ /\ i = pid[w] /\ OffsetsFor(w)[p] # NoOffset
            /\ \E step \in Steps : Register(w, step)
<1> USE DEF TypeOK, Pending
<1>1. CASE UNCHANGED <<txn, txnOffsets>>
  BY <1>1
<1>2. CASE CommitTransaction(w) \/ CommitReturns(w) \/ ResetProducer(w) \/ Restart(w)
  BY <1>2 DEF CommitTransaction, CommitReturns, ResetProducer, Restart
<1>3. CASE \E step \in Steps : StartOver(w, step)
  BY <1>3 DEF StartOver
<1>4. CASE \E step \in Steps : Open(w, step)
  BY <1>4 DEF Open, NoOffsets, NoOffset
<1>5. CASE \E step \in Steps : Register(w, step)
  BY <1>5 DEF Register, OffsetsAccepted
<1>6. CASE \/ Connect(w) \/ JoinGroup(w) \/ OnAssign(w) \/ OnRevoke(w) \/ OnLost(w)
           \/ (\E q \in Partitions : Consume(w, q)) \/ Swallow(w)
           \/ \E step \in Steps : PassBatch(w, step) \/ GiveUp(w, step)
  BY <1>1, <1>6 DEF Connect, JoinGroup, OnAssign, OnRevoke, OnLost, Consume, Swallow,
     PassBatch, GiveUp
<1> QED  BY <1>2, <1>3, <1>4, <1>5, <1>6 DEF WorkerStep

LEMMA PendingCoordinator ==
  ASSUME TypeOK, Coordinator, NEW i \in ProducerIds, NEW p \in Partitions, Pending(i, p)'
  PROVE  Pending(i, p)
  BY DEF Coordinator, CompleteRebalance, Expire, BrokerCommits, TransactionTimesOut, Pending, TypeOK

(* Whoever registers an offset for p has fetched from p, so no other            *)
(* transaction has one pending.                                                *)
LEMMA RegisterAlone ==
  ASSUME TypeOK, BatchTags, TransactionCarriesCurrentBatch, FetchedFromCommitted,
         PendingIsOwn, NEW w \in Workers, NEW step \in Steps, Register(w, step),
         NEW p \in Partitions, OffsetsFor(w)[p] # NoOffset
  PROVE  /\ IsCurrentMember(w)
         /\ position[w][p] # Unset
         /\ \A i \in ProducerIds : ~Pending(i, p)
<1>1. IsCurrentMember(w) /\ pc[w] = "offsets" /\ BatchCurrent(w)
  BY DEF Register, OffsetsAccepted, TransactionCarriesCurrentBatch
<1>2. position[w][p] # Unset
  BY <1>1, MemberBatchOffset DEF Recovering, OwnCommitDone
<1> QED  BY <1>1, <1>2 DEF PendingIsOwn

LEMMA OneUndecidedStep ==
  ASSUME TypeOK, BatchTags, TransactionCarriesCurrentBatch, FetchedFromCommitted,
         PendingIsOwn, OneUndecidedPerPartition, NEW w \in Workers, WorkerStep(w)
  PROVE  OneUndecidedPerPartition'
<1> SUFFICES ASSUME NEW p \in Partitions, NEW i \in ProducerIds, NEW j \in ProducerIds,
                    Pending(i, p)', Pending(j, p)'
             PROVE  i = j
  BY DEF OneUndecidedPerPartition
<1>1. CASE Pending(i, p) /\ Pending(j, p)
  BY <1>1 DEF OneUndecidedPerPartition
<1>2. CASE ~(Pending(i, p) /\ Pending(j, p))
  BY <1>2, PendingStep, RegisterAlone
<1> QED  BY <1>1, <1>2

LEMMA OneUndecidedCoordinator ==
  ASSUME TypeOK, OneUndecidedPerPartition, Coordinator
  PROVE  OneUndecidedPerPartition'
  BY PendingCoordinator DEF OneUndecidedPerPartition

(* A worker that stands as a member over fetched records did so before the     *)
(* step, or has fetched its first record while nothing was pending.            *)
LEMMA MemberStep ==
  ASSUME TypeOK, Membership, NEW w \in Workers, WorkerStep(w),
         NEW v \in Workers, NEW p \in Partitions,
         IsCurrentMember(v)', position'[v][p] # Unset
  PROVE  \/ IsCurrentMember(v) /\ position[v][p] # Unset
         \/ v = w /\ pc[w] = "poll" /\ ~Undecided(p) /\ UNCHANGED <<txn, txnOffsets>>
<1> USE DEF TypeOK
<1>1. CASE JoinGroup(w) \/ OnAssign(w)
  BY <1>1 DEF JoinGroup, OnAssign, Membership
<1>2. CASE OnRevoke(w) \/ OnLost(w)
  BY <1>2 DEF OnRevoke, OnLost, DropAssignment, NoPosition, Membership
<1>3. ASSUME NEW q \in Partitions, Consume(w, q)
      PROVE  \/ IsCurrentMember(v) /\ position[v][p] # Unset
             \/ v = w /\ pc[w] = "poll" /\ ~Undecided(p) /\ UNCHANGED <<txn, txnOffsets>>
  <2>1. /\ pc[w] = "poll" /\ Fetchable(w, q)
        /\ position' = [position EXCEPT ![w][q] = NextOffset(w, q) + 1]
        /\ UNCHANGED <<members, client, txn, txnOffsets>>
    BY <1>3 DEF Consume
  <2>2. CASE v = w /\ p = q
    BY <2>1, <2>2 DEF Fetchable
  <2>3. CASE ~(v = w /\ p = q)
    <3>1. position'[v][p] = position[v][p]
      BY <2>1, <2>3
    <3> QED  BY <2>1, <3>1
  <2> QED  BY <2>2, <2>3
<1>4. CASE Swallow(w)
  <2>1. /\ pc[w] \in {"poll", "process"}
        /\ UNCHANGED <<members, client, txn, txnOffsets>>
        /\ UNCHANGED position \/ (pc[w] = "poll" /\ FetchedInVain(w))
    BY <1>4 DEF Swallow
  <2>2. ASSUME pc[w] = "poll", FetchedInVain(w)
        PROVE  \/ IsCurrentMember(v) /\ position[v][p] # Unset
               \/ v = w /\ pc[w] = "poll" /\ ~Undecided(p) /\ UNCHANGED <<txn, txnOffsets>>
    <3>1. CASE v = w /\ Fetchable(w, p)
      BY <2>1, <2>2, <3>1 DEF Fetchable
    <3>2. CASE ~(v = w /\ Fetchable(w, p))
      <4>1. position'[v][p] = position[v][p]
        BY <2>2, <3>2, FetchedInVainForm
      <4> QED  BY <2>1, <4>1
    <3> QED  BY <3>1, <3>2
  <2> QED  BY <2>1, <2>2
<1>5. CASE \E step \in Steps : StartOver(w, step)
  BY <1>5 DEF StartOver, DisconnectForRecovery, DropAssignment, RemoveMember, NoPosition
<1> HIDE DEF TypeOK
<1> QED  BY <1>1, <1>2, <1>3, <1>4, <1>5, QuietMembership DEF WorkerStep

(* A worker whose transaction has offsets pending ends it or starts over.      *)
LEMMA PendingWorkerStep ==
  ASSUME TypeOK, NEW w \in Workers, WorkerStep(w), NEW p \in Partitions,
         Pending(pid[w], p), pc[w] \in {"commit", "committing", "abort_infra"},
         IsCurrentMember(w)'
  PROVE  pid'[w] = pid[w] /\ pc'[w] \in {"commit", "committing", "abort_infra"}
<1> USE DEF TypeOK
<1>1. CASE CommitTransaction(w)
  BY <1>1 DEF CommitTransaction
<1>2. CASE CommitReturns(w)
  BY <1>2 DEF CommitReturns, Pending
<1>3. CASE \E step \in Steps : StartOver(w, step)
  BY <1>3 DEF StartOver, DisconnectForRecovery, DropAssignment
<1>4. CASE \E step \in Steps : GiveUp(w, step)
  BY <1>4 DEF GiveUp, Keep
<1>5. CASE \/ Connect(w) \/ JoinGroup(w) \/ OnAssign(w) \/ OnRevoke(w) \/ OnLost(w)
           \/ (\E q \in Partitions : Consume(w, q)) \/ Swallow(w) \/ ResetProducer(w) \/ Restart(w)
           \/ \E step \in Steps : PassBatch(w, step) \/ Open(w, step) \/ Register(w, step)
  BY <1>5 DEF Connect, JoinGroup, OnAssign, OnRevoke, OnLost, Consume, Swallow,
     ResetProducer, Restart, PassBatch, Open, Register
<1> QED  BY <1>1, <1>2, <1>3, <1>4, <1>5 DEF WorkerStep

(* A worker's step is its own.                                                 *)
LEMMA OtherWorkers ==
  ASSUME TypeOK, NEW w \in Workers, WorkerStep(w), NEW v \in Workers \ {w}
  PROVE  pid'[v] = pid[v] /\ pc'[v] = pc[v]
  BY DEF TypeOK, WorkerStep, Connect, JoinGroup, OnAssign, OnRevoke, OnLost, Consume, Swallow,
     CommitTransaction, CommitReturns, ResetProducer, Restart, StartOver, PassBatch, Open,
     Register, GiveUp, Keep

LEMMA PendingIsOwnStep ==
  ASSUME TypeOK, Membership, BatchTags, TransactionCarriesCurrentBatch, FetchedFromCommitted,
         PendingIsOwn, NEW w \in Workers, WorkerStep(w)
  PROVE  PendingIsOwn'
<1> SUFFICES ASSUME NEW v \in Workers, NEW p \in Partitions, NEW i \in ProducerIds,
                    IsCurrentMember(v)', position'[v][p] # Unset, Pending(i, p)'
             PROVE  i = pid'[v] /\ pc'[v] \in {"commit", "committing", "abort_infra"}
  BY DEF PendingIsOwn
<1>1. CASE Pending(i, p)
  <2>1. IsCurrentMember(v) /\ position[v][p] # Unset
    BY <1>1, MemberStep DEF Undecided
  <2>2. i = pid[v] /\ pc[v] \in {"commit", "committing", "abort_infra"}
    BY <1>1, <2>1 DEF PendingIsOwn
  <2>3. CASE v = w
    BY <1>1, <2>2, <2>3, PendingWorkerStep
  <2>4. CASE v # w
    BY <2>2, <2>4, OtherWorkers
  <2> QED  BY <2>3, <2>4
<1>2. CASE ~Pending(i, p)
  <2>1. PICK step \in Steps : Register(w, step) /\ i = pid[w] /\ OffsetsFor(w)[p] # NoOffset
    BY <1>2, PendingStep
  <2>2. IsCurrentMember(w) /\ position[w][p] # Unset
    BY <2>1, RegisterAlone
  <2>3. IsCurrentMember(v) /\ position[v][p] # Unset
    BY <2>1 DEF Register, Keep
  <2>4. v = w
    BY <2>2, <2>3 DEF Membership
  <2> QED  BY <2>1, <2>4 DEF Register, Keep, TypeOK
<1> QED  BY <1>1, <1>2

LEMMA PendingIsOwnCoordinator ==
  ASSUME TypeOK, PendingIsOwn, Coordinator
  PROVE  PendingIsOwn'
<1>1. \A w \in Workers : IsCurrentMember(w)' => IsCurrentMember(w)
  BY DEF Coordinator, CompleteRebalance, Expire, RemoveMember, BrokerCommits, TransactionTimesOut,
     TypeOK
<1> QED  BY <1>1, CoordinatorFrame, PendingCoordinator DEF PendingIsOwn

LEMMA ContentsStep ==
  ASSUME TypeOK, BatchTags, TransactionCarriesCurrentBatch, FetchedFromCommitted, Phase,
         Contents, NEW w \in Workers, WorkerStep(w)
  PROVE  Contents'
<1>1. UNCHANGED committed
  BY DEF WorkerStep, Connect, JoinGroup, OnAssign, OnRevoke, OnLost, Consume, Swallow,
     CommitTransaction, CommitReturns, ResetProducer, Restart, StartOver, PassBatch, Open,
     Register, GiveUp
<1>2. CASE UNCHANGED <<txn, txnRecords, txnOffsets>>
  BY <1>1, <1>2 DEF Contents, Pending
<1>3. CASE CommitReturns(w) \/ ResetProducer(w) \/ Restart(w) \/ \E step \in Steps : StartOver(w, step)
  <2>1. UNCHANGED <<txnRecords, txnOffsets>>
    BY <1>3 DEF CommitReturns, ResetProducer, Restart, StartOver
  <2>2. \A i \in ProducerIds : txn'[i] = txn[i] \/ txn'[i] = "empty"
    BY <1>3 DEF CommitReturns, ResetProducer, Restart, StartOver, TypeOK
  <2> QED  BY <1>1, <2>1, <2>2 DEF Contents, Pending
<1>4. CASE CommitTransaction(w)
  <2>1. /\ pc[w] = "commit" /\ txn[pid[w]] = "open" /\ BatchCurrent(w)
        /\ txn' = [txn EXCEPT ![pid[w]] = "ending"] /\ UNCHANGED <<txnRecords, txnOffsets>>
    BY <1>4 DEF CommitTransaction, TransactionCarriesCurrentBatch
  <2>2. \E p \in Partitions : Pending(pid[w], p)
    <3>1. PICK m \in batch[w] : m \in Fetched
      BY <2>1 DEF BatchCurrent, TypeOK
    <3>2. OffsetsFor(w)[m.part] # NoOffset
      <4>1. m.epoch = epoch[w] /\ m.part \in Partitions /\ m.off \in Offsets
        BY <2>1, <3>1 DEF BatchCurrent, Fetched
      <4>2. IsFresh(w, m.part, m.off)
        BY <3>1, <4>1 DEF IsFresh, Fetched
      <4> QED  BY <2>1, <4>1, <4>2, CurrentBatchOffset
    <3> QED  BY <2>1, <3>1, <3>2 DEF Phase, Pending, Fetched
  <2>3. \A i \in ProducerIds : i # pid[w] => txn'[i] = txn[i]
    BY <2>1 DEF TypeOK
  <2> QED  BY <1>1, <2>1, <2>2, <2>3 DEF Contents, Pending, TypeOK
<1>5. CASE \E step \in Steps : Open(w, step)
  <2>1. /\ txn' = [txn EXCEPT ![pid[w]] = "open"]
        /\ txnOffsets' = [txnOffsets EXCEPT ![pid[w]] = NoOffsets]
    BY <1>5 DEF Open
  <2>2. \A i \in ProducerIds : i # pid[w] => txnRecords'[i] = txnRecords[i]
    BY <1>5 DEF Open, TypeOK
  <2>3. /\ txn'[pid[w]] = "open" /\ \A p \in Partitions : txnOffsets'[pid[w]][p] = NoOffset
        /\ \A i \in ProducerIds : i # pid[w] => txn'[i] = txn[i] /\ txnOffsets'[i] = txnOffsets[i]
    BY <2>1 DEF TypeOK, NoOffsets
  <2> QED  BY <1>1, <2>2, <2>3 DEF Contents, Pending
<1>6. ASSUME NEW step \in Steps, Register(w, step)
      PROVE  Contents'
  <2>1. /\ pc[w] = "offsets" /\ txn[pid[w]] = "open" /\ IsCurrentMember(w) /\ BatchCurrent(w)
        /\ txnOffsets' = [txnOffsets EXCEPT ![pid[w]] = OffsetsFor(w)]
        /\ UNCHANGED <<txn, txnRecords>>
    BY <1>6 DEF Register, OffsetsAccepted, TransactionCarriesCurrentBatch
  <2>2. txnRecords[pid[w]] = SourceRecords(w) /\ txnOffsets'[pid[w]] = OffsetsFor(w)
    BY <2>1 DEF Phase, TypeOK
  <2>3. \A i \in ProducerIds : i # pid[w] => txnOffsets'[i] = txnOffsets[i]
    BY <2>1 DEF TypeOK
  <2>4. ASSUME NEW p \in Partitions
        PROVE  IF txnOffsets'[pid[w]][p] = NoOffset
                 THEN \A o \in Offsets : <<p, o>> \notin txnRecords[pid[w]]
                 ELSE /\ committed[p] <= txnOffsets'[pid[w]][p]
                      /\ \A o \in Offsets :
                           LET next == committed[p] <= o /\ o < txnOffsets'[pid[w]][p]
                           IN  /\ <<p, o>> \in txnRecords[pid[w]] => next
                               /\ next => SwallowErrors \/ <<p, o>> \in txnRecords[pid[w]]
    BY <2>1, <2>2, MemberBatchOffset DEF Recovering, OwnCommitDone
  <2> QED  BY <1>1, <2>1, <2>3, <2>4 DEF Contents, Pending
<1>7. CASE \/ Connect(w) \/ JoinGroup(w) \/ OnAssign(w) \/ OnRevoke(w) \/ OnLost(w)
           \/ (\E q \in Partitions : Consume(w, q)) \/ Swallow(w)
           \/ \E step \in Steps : PassBatch(w, step) \/ GiveUp(w, step)
  BY <1>2, <1>7 DEF Connect, JoinGroup, OnAssign, OnRevoke, OnLost, Consume, Swallow,
     PassBatch, GiveUp
<1> QED  BY <1>3, <1>4, <1>5, <1>6, <1>7 DEF WorkerStep

LEMMA ContentsCoordinator ==
  ASSUME TypeOK, OneUndecidedPerPartition, Contents, Coordinator
  PROVE  Contents'
<1>1. UNCHANGED <<txnRecords, txnOffsets>>
  BY DEF Coordinator, CompleteRebalance, Expire, BrokerCommits, TransactionTimesOut
<1>2. CASE CompleteRebalance \/ \E w \in Workers : Expire(w)
  BY <1>1, <1>2 DEF CompleteRebalance, Expire, Contents, Pending
<1>3. ASSUME NEW i \in ProducerIds, TransactionTimesOut(i)
      PROVE  Contents'
  <2>1. txn'[i] = "aborted" /\ UNCHANGED committed
    BY <1>3 DEF TransactionTimesOut, TypeOK
  <2>2. \A j \in ProducerIds \ {i} : txn'[j] = txn[j]
    BY <1>3 DEF TransactionTimesOut, TypeOK
  <2> QED  BY <1>1, <2>1, <2>2 DEF Contents, Pending
<1>4. ASSUME NEW i \in ProducerIds, BrokerCommits(i)
      PROVE  Contents'
  <2>1. /\ txn[i] = "ending" /\ txn' = [txn EXCEPT ![i] = "committed"]
        /\ \A p \in Partitions : txnOffsets[i][p] = NoOffset => committed'[p] = committed[p]
    BY <1>4 DEF BrokerCommits
  <2>2. txn'[i] = "committed" /\ \A j \in ProducerIds \ {i} : txn'[j] = txn[j]
    BY <2>1 DEF TypeOK
  <2>3. ASSUME NEW j \in ProducerIds,
               txn'[j] = "ending" \/ \E q \in Partitions : Pending(j, q)'
        PROVE  j # i /\ (txn[j] = "ending" \/ \E q \in Partitions : Pending(j, q))
    BY <1>1, <2>2, <2>3 DEF Pending
  <2>4. ASSUME NEW j \in ProducerIds, j # i,
               txn[j] = "ending" \/ \E q \in Partitions : Pending(j, q),
               NEW p \in Partitions, txnOffsets[j][p] # NoOffset
        PROVE  committed'[p] = committed[p]
    <3>1. Pending(j, p)
      BY <2>4 DEF Pending
    <3>2. ~Pending(i, p)
      BY <2>4, <3>1 DEF OneUndecidedPerPartition
    <3> QED  BY <2>1, <3>2 DEF Pending
  <2> QED  BY <1>1, <2>3, <2>4 DEF Contents
<1> QED  BY <1>2, <1>3, <1>4 DEF Coordinator

(* What is applied changes only when the broker carries out a commit.          *)
LEMMA AppliedFrame ==
  ASSUME NEW w \in Workers, WorkerStep(w)
  PROVE  UNCHANGED <<applied, committed>>
  BY DEF WorkerStep, Connect, JoinGroup, OnAssign, OnRevoke, OnLost, Consume, Swallow,
     CommitTransaction, CommitReturns, ResetProducer, Restart, StartOver, PassBatch, Open,
     Register, GiveUp

LEMMA BrokerCommitsRecords ==
  ASSUME TypeOK, Contents, NEW i \in ProducerIds, BrokerCommits(i), NEW r \in Records
  PROVE  LET next == committed[r[1]] <= r[2] /\ r[2] < committed'[r[1]]
         IN  /\ committed[r[1]] <= committed'[r[1]]
             /\ r \in txnRecords[i] => next
             /\ next => SwallowErrors \/ r \in txnRecords[i]
<1>1. r[1] \in Partitions /\ r[2] \in Offsets /\ r = <<r[1], r[2]>>
  BY DEF Records
<1>2. /\ txn[i] = "ending"
      /\ committed'[r[1]] = IF txnOffsets[i][r[1]] = NoOffset
                              THEN committed[r[1]] ELSE txnOffsets[i][r[1]]
  BY <1>1 DEF BrokerCommits
<1>3. committed[r[1]] \in Int /\ r[2] \in Int
  BY <1>1, StageAssumption DEF TypeOK, Offsets
<1> QED  BY <1>1, <1>2, <1>3 DEF Contents

LEMMA AppliedCoordinator ==
  ASSUME TypeOK, Contents, Coordinator,
         AppliedAtMostOnce, SwallowErrors \/ AppliedExactlyOnce
  PROVE  AppliedAtMostOnce' /\ (SwallowErrors \/ AppliedExactlyOnce')
<1>1. CASE UNCHANGED <<applied, committed>>
  BY <1>1 DEF AppliedAtMostOnce, AppliedExactlyOnce, EO!AppliedExactlyOnce
<1>2. ASSUME NEW i \in ProducerIds, BrokerCommits(i)
      PROVE  AppliedAtMostOnce' /\ (SwallowErrors \/ AppliedExactlyOnce')
  <2>1. ASSUME NEW r \in Records
        PROVE  /\ applied'[r] = IF r \in txnRecords[i] THEN applied[r] + 1 ELSE applied[r]
               /\ applied[r] \in Nat /\ committed[r[1]] \in Int /\ committed'[r[1]] \in Int
               /\ r[2] \in Int
    <3>1. r[1] \in Partitions /\ r[2] \in Offsets
      BY DEF Records
    <3>2. committed' \in [Partitions -> 0 .. LogLength]
      BY <1>2 DEF BrokerCommits, TypeOK
    <3> QED  BY <1>2, <3>1, <3>2, StageAssumption DEF BrokerCommits, TypeOK, Offsets
  <2>2. ASSUME NEW r \in Records
        PROVE  applied'[r] <= IF r[2] < committed'[r[1]] THEN 1 ELSE 0
    BY <1>2, <2>1, BrokerCommitsRecords DEF AppliedAtMostOnce
  <2>3. ASSUME NEW r \in Records, ~SwallowErrors
        PROVE  applied'[r] = IF r[2] < committed'[r[1]] THEN 1 ELSE 0
    <3>1. applied[r] = IF r[2] < committed[r[1]] THEN 1 ELSE 0
      BY <2>3 DEF AppliedExactlyOnce, EO!AppliedExactlyOnce, EO!Records, Records, Offsets
    <3> QED  BY <1>2, <2>1, <2>3, <3>1, BrokerCommitsRecords
  <2> QED  BY <2>2, <2>3 DEF AppliedAtMostOnce, AppliedExactlyOnce, EO!AppliedExactlyOnce,
              EO!Records, Records, Offsets
<1> QED
  BY <1>1, <1>2 DEF Coordinator, CompleteRebalance, Expire, TransactionTimesOut

-------------------------------------------------------------------------------
(* The invariant is inductive.                                                 *)

LEMMA InvariantInit ==
  ASSUME Init
  PROVE  StageInvariant
<1>1. DistinctIds /\ Membership /\ BatchTags /\ TransactionCarriesCurrentBatch
  BY DEF Init, DistinctIds, Membership, BatchTags, TransactionCarriesCurrentBatch, NoPosition
<1>2. FetchedFromCommitted /\ PendingIsOwn
  BY DEF Init, FetchedFromCommitted, PendingIsOwn
<1>3. \A i \in ProducerIds : txn[i] = "empty"
  BY DEF Init
<1>4. OneUndecidedPerPartition /\ Settled /\ Contents
  BY <1>3, TypeInit DEF OneUndecidedPerPartition, Settled, Contents, Pending, TypeOK
<1>5. Phase
  BY <1>3, TypeInit DEF Init, Phase, TypeOK
<1>6. \A r \in Records : applied[r] = 0 /\ committed[r[1]] = 0 /\ r[2] \in Nat
  BY StageAssumption DEF Init, Records, Offsets
<1>7. AppliedAtMostOnce /\ AppliedExactlyOnce
  BY <1>6 DEF AppliedAtMostOnce, AppliedExactlyOnce, EO!AppliedExactlyOnce, EO!Records, Records,
     Offsets
<1> QED  BY <1>1, <1>2, <1>4, <1>5, <1>7 DEF StageInvariant

LEMMA InvariantStep ==
  ASSUME TypeOK, StageInvariant, [Next]_vars
  PROVE  StageInvariant'
<1>1. ASSUME NEW w \in Workers, Progress(w) \/ Failure(w)
      PROVE  StageInvariant'
  <2>1. WorkerStep(w)
    BY <1>1, ProgressForms, FailureForms
  <2>2. DistinctIds' /\ Membership' /\ BatchTags' /\ TransactionCarriesCurrentBatch'
    BY <2>1, DistinctIdsStep, MembershipStep, BatchTagsStep, CurrentBatchStep DEF StageInvariant
  <2>3. FetchedFromCommitted' /\ PendingIsOwn'
    BY <2>1, FetchedStep, PendingIsOwnStep DEF StageInvariant
  <2>4. OneUndecidedPerPartition' /\ Settled'
    BY <2>1, OneUndecidedStep, SettledStep DEF StageInvariant
  <2>5. Phase' /\ Contents'
    BY <2>1, PhaseStep, ContentsStep DEF StageInvariant
  <2>6. AppliedAtMostOnce' /\ (SwallowErrors \/ AppliedExactlyOnce')
    BY <2>1, AppliedFrame
       DEF StageInvariant, AppliedAtMostOnce, AppliedExactlyOnce, EO!AppliedExactlyOnce
  <2> QED  BY <2>2, <2>3, <2>4, <2>5, <2>6 DEF StageInvariant
<1>2. ASSUME Coordinator PROVE StageInvariant'
  <2>1. DistinctIds' /\ TransactionCarriesCurrentBatch'
    BY <1>2, CoordinatorFrame
       DEF StageInvariant, DistinctIds, TransactionCarriesCurrentBatch, BatchCurrent
  <2>2. Membership' /\ BatchTags'
    BY <1>2, MembershipCoordinator, BatchTagsCoordinator DEF StageInvariant
  <2>3. FetchedFromCommitted' /\ PendingIsOwn'
    BY <1>2, FetchedCoordinator, PendingIsOwnCoordinator DEF StageInvariant
  <2>4. OneUndecidedPerPartition' /\ Settled'
    BY <1>2, OneUndecidedCoordinator, SettledCoordinator DEF StageInvariant
  <2>5. Phase' /\ Contents'
    BY <1>2, PhaseCoordinator, ContentsCoordinator DEF StageInvariant
  <2>6. AppliedAtMostOnce' /\ (SwallowErrors \/ AppliedExactlyOnce')
    BY <1>2, AppliedCoordinator DEF StageInvariant
  <2> QED  BY <2>1, <2>2, <2>3, <2>4, <2>5, <2>6 DEF StageInvariant
<1>3. CASE UNCHANGED vars
  <2>1. DistinctIds' /\ Membership' /\ BatchTags' /\ TransactionCarriesCurrentBatch'
    BY <1>3 DEF vars, StageInvariant, DistinctIds, Membership, BatchTags,
       TransactionCarriesCurrentBatch, BatchCurrent
  <2>2. FetchedFromCommitted'
    BY <1>3 DEF vars, StageInvariant, FetchedFromCommitted, Recovering, OwnCommitDone, IsFresh
  <2>3. PendingIsOwn' /\ OneUndecidedPerPartition' /\ Settled' /\ Contents'
    BY <1>3 DEF vars, StageInvariant, PendingIsOwn, Pending, OneUndecidedPerPartition, Settled,
       Contents
  <2>4. Phase'
    BY <1>3 DEF vars, StageInvariant, Phase, SourceRecords, OffsetsFor
  <2>5. AppliedAtMostOnce' /\ (SwallowErrors \/ AppliedExactlyOnce')
    BY <1>3 DEF vars, StageInvariant, AppliedAtMostOnce, AppliedExactlyOnce, EO!AppliedExactlyOnce
  <2> QED  BY <2>1, <2>2, <2>3, <2>4, <2>5 DEF StageInvariant
<1> QED  BY <1>1, <1>2, <1>3 DEF Next

(* The group, the handlers and the transactions agree at every moment on who    *)
(* may move which offset, whatever the faults.                                 *)
THEOREM InvariantHolds == Spec => [](TypeOK /\ StageInvariant)
<1>1. Init => TypeOK /\ StageInvariant
  BY TypeInit, InvariantInit
<1>2. TypeOK /\ StageInvariant /\ [Next]_vars => TypeOK' /\ StageInvariant'
  BY TypeStep, InvariantStep
<1> QED  BY <1>1, <1>2, PTL DEF Spec

(* Whatever the faults and the rebalances, and however a stage treats           *)
(* exceptions, no record's outputs are committed twice.                        *)
THEOREM NothingAppliedTwice == Spec => []AppliedAtMostOnce
  BY InvariantHolds, PTL DEF StageInvariant

(* A stage that lets exceptions through commits every record's outputs exactly *)
(* once, together with the offset that passes it (producer.py:281-324).        *)
THEOREM AppliedExactly == ASSUME ~SwallowErrors PROVE Spec => []AppliedExactlyOnce
<1>1. StageInvariant => AppliedExactlyOnce
  BY DEF StageInvariant
<1> QED  BY <1>1, InvariantHolds, PTL

(* A batch whose transaction has begun is still of the handler's assignment:   *)
(* no callback falls between its check and its commit (producer.py:259).       *)
THEOREM CarriesCurrentBatch == Spec => []TransactionCarriesCurrentBatch
  BY InvariantHolds, PTL DEF StageInvariant

(* An expelled worker and its successor never both have offsets of one         *)
(* partition undecided (consumer.py:466-472, producer.py:299-304).             *)
THEOREM OneUndecided == Spec => []OneUndecidedPerPartition
  BY InvariantHolds, PTL DEF StageInvariant

(* A worker that consumes again has settled its last transaction               *)
(* (producer.py:277-279).                                                      *)
THEOREM SettledFirst == Spec => []SettledBeforeConsuming
<1>1. StageInvariant => SettledBeforeConsuming
  BY DEF StageInvariant, Settled, SettledBeforeConsuming
<1> QED  BY <1>1, InvariantHolds, PTL

(* A batch the broker would accept is the log from the committed offset on,    *)
(* without a gap (consumer.py:188-203, 263-326).                               *)
THEOREM BatchIsNext == ASSUME ~SwallowErrors PROVE Spec => []BatchIsNextInLog
<1>1. TypeOK /\ StageInvariant => BatchIsNextInLog
  <2> SUFFICES ASSUME TypeOK, StageInvariant, NEW w \in Workers, NEW p \in Partitions,
                      pc[w] \in {"begin", "offsets"}, IsCurrentMember(w),
                      position[w][p] # Unset
               PROVE  {m.off : m \in {r \in batch[w] : r.part = p}}
                        = committed[p] .. position[w][p] - 1
    BY DEF BatchIsNextInLog
  <2>1. BatchCurrent(w)
    BY DEF StageInvariant, TransactionCarriesCurrentBatch
  <2>2. \A o \in Offsets :
          IsFresh(w, p, o) <=> committed[p] <= o /\ o < position[w][p]
    <3>1. ~Recovering(w) /\ ~OwnCommitDone(w)
      BY DEF Recovering, OwnCommitDone
    <3> QED  BY <3>1 DEF StageInvariant, FetchedFromCommitted
  <2>3. \A o \in Offsets :
          IsFresh(w, p, o) <=> o \in {m.off : m \in {r \in batch[w] : r.part = p}}
    <3>1. \A m \in batch[w] : m.epoch = epoch[w] /\ m \in Fetched
      BY <2>1 DEF BatchCurrent, TypeOK
    <3>2. \A m \in batch[w] :
            m.part = p => m = [part |-> p, off |-> m.off, epoch |-> epoch[w]]
      BY <3>1 DEF Fetched
    <3> QED  BY <3>2 DEF IsFresh
  <2>4. {m.off : m \in {r \in batch[w] : r.part = p}} \subseteq Offsets
    BY DEF TypeOK, Fetched
  <2>5. committed[p] .. position[w][p] - 1 \subseteq Offsets
    BY StageAssumption DEF TypeOK, Offsets, Unset
  <2>6. committed[p] \in Int /\ position[w][p] \in Int /\ Offsets \subseteq Int
    BY StageAssumption DEF TypeOK, Offsets, Unset
  <2>7. \A o \in Offsets :
          o \in committed[p] .. position[w][p] - 1
            <=> o \in {m.off : m \in {r \in batch[w] : r.part = p}}
    <3> TAKE o \in Offsets
    <3>1. o \in committed[p] .. position[w][p] - 1
            <=> committed[p] <= o /\ o < position[w][p]
      BY <2>6
    <3> QED  BY <3>1, <2>2, <2>3
  <2> HIDE DEF TypeOK, StageInvariant
  <2> QED  BY <2>4, <2>5, <2>7
<1> QED  BY <1>1, InvariantHolds, PTL

LEMMA CommittedNeverBack ==
  ASSUME TypeOK, StageInvariant, [Next]_vars, NEW p \in Partitions
  PROVE  committed[p] <= committed'[p]
<1>1. committed[p] \in Int
  BY StageAssumption DEF TypeOK
<1>2. CASE UNCHANGED committed
  BY <1>1, <1>2
<1>3. ASSUME NEW i \in ProducerIds, BrokerCommits(i)
      PROVE  committed[p] <= committed'[p]
  BY <1>1, <1>3 DEF BrokerCommits, StageInvariant, Contents
<1>4. ASSUME NEW w \in Workers, Progress(w) \/ Failure(w)
      PROVE  UNCHANGED committed
  BY <1>4, ProgressForms, FailureForms, AppliedFrame
<1> QED
  BY <1>2, <1>3, <1>4 DEF Next, Coordinator, CompleteRebalance, Expire, TransactionTimesOut, vars

(* No step moves a committed offset back, however late a transaction lands.    *)
THEOREM OffsetsOnlyAdvance == Spec => OffsetsNeverMoveBack
<1>1. TypeOK /\ StageInvariant /\ [Next]_vars
        => [\A p \in Partitions : committed[p] <= committed'[p]]_vars
  BY CommittedNeverBack
<1> QED  BY <1>1, InvariantHolds, PTL DEF Spec, OffsetsNeverMoveBack

(* Every commit the broker carries out is an abstract advance; every other      *)
(* step, crash or rebalance leaves what is promised alone.                     *)
LEMMA StepRefines ==
  ASSUME ~SwallowErrors, TypeOK, StageInvariant, [Next]_vars
  PROVE  [EO!Next]_EO!vars
<1>1. ASSUME NEW i \in ProducerIds, BrokerCommits(i)
      PROVE  EO!Next
  <2>1. committed' \in [Partitions -> 0 .. LogLength]
    BY <1>1 DEF BrokerCommits, TypeOK
  <2>2. \A p \in Partitions : committed[p] <= committed'[p]
    BY CommittedNeverBack
  <2>3. \A r \in Records :
          r \in txnRecords[i] <=> committed[r[1]] <= r[2] /\ r[2] < committed'[r[1]]
    BY <1>1, BrokerCommitsRecords DEF StageInvariant
  <2>4. applied' = [r \in Records |-> IF r \in txnRecords[i] THEN applied[r] + 1 ELSE applied[r]]
    BY <1>1 DEF BrokerCommits
  <2>5. applied' = [r \in Records |->
                     IF committed[r[1]] <= r[2] /\ r[2] < committed'[r[1]]
                       THEN applied[r] + 1 ELSE applied[r]]
    BY <2>3, <2>4
  <2>6. EO!Advance(committed')
    BY <2>2, <2>5 DEF EO!Advance, EO!Records, Records, Offsets
  <2> QED  BY <2>1, <2>6 DEF EO!Next
<1>2. ASSUME NEW w \in Workers, Progress(w) \/ Failure(w)
      PROVE  UNCHANGED <<committed, applied>>
  BY <1>2, ProgressForms, FailureForms, AppliedFrame
<1>3. CASE CompleteRebalance \/ (\E w \in Workers : Expire(w))
           \/ (\E i \in ProducerIds : TransactionTimesOut(i)) \/ UNCHANGED vars
  BY <1>3 DEF CompleteRebalance, Expire, TransactionTimesOut, vars, EO!vars
<1> QED  BY <1>1, <1>2, <1>3 DEF Next, Coordinator, EO!vars

(* A stage that lets exceptions through implements ExactlyOnce.                 *)
THEOREM StageImplementsExactlyOnce ==
  ASSUME ~SwallowErrors PROVE Spec => ImplementsExactlyOnce
<1>1. Init => EO!Init
  BY DEF Init, EO!Init, EO!Records, Records, Offsets
<1>2. TypeOK /\ StageInvariant /\ [Next]_vars => [EO!Next]_EO!vars
  BY StepRefines
<1> QED  BY <1>1, <1>2, InvariantHolds, PTL DEF Spec, ImplementsExactlyOnce, EO!Spec
===============================================================================
