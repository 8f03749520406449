------------------------ MODULE MonitoringSinkProofs ------------------------
(***************************************************************************)
(* What MonitoringSink guarantees for every number of workers, tables,     *)
(* records, faults and revocations: its type invariant, the inductive      *)
(* invariants of MonitoringSinkInvariant, that a record is repeated once   *)
(* for each failure at most and, where no message raises while a batch is  *)
(* fetched, that no record is lost.                                        *)
(***************************************************************************)
EXTENDS MonitoringSinkInvariant, WellFoundedInduction, FiniteSetTheorems, TLAPS

(* The last of some offsets: offsets_for commits the one after it.         *)
LEMMA MaxOfBounded ==
  ASSUME NEW n \in Nat, NEW S \in SUBSET (0 .. n), S # {}
  PROVE  /\ Max(S) \in S
         /\ \A y \in S : Max(S) >= y
<1> DEFINE Below == {n - x : x \in S}
<1>1. Below \subseteq Nat /\ Below # {}
  <2>1. \A x \in S : n - x \in Nat
    OBVIOUS
  <2> QED BY <2>1
<1>2. PICK t \in Below : \A u \in Below : <<u, t>> \notin OpToRel(<, Nat)
  <2> HIDE DEF Below
  <2> QED BY <1>1, NatLessThanWellFounded, WFMin
<1>3. \A u \in Below : ~(u < t)
  BY <1>1, <1>2 DEF OpToRel
<1>4. PICK x \in S : t = n - x
  OBVIOUS
<1>5. \A y \in S : x >= y
  BY <1>3, <1>4
<1> QED BY <1>5 DEF Max

-------------------------------------------------------------------------------
(* The operators of the model.                                                 *)

(* offsets_for passes every record of the batch and ends behind one of them;   *)
(* a topic the batch has nothing of keeps its offset.                          *)
LEMMA OffsetsForMax ==
  ASSUME TypeOK, NEW w \in Workers, NEW t \in Tables
  PROVE  /\ OffsetsFor(w)[t] \in 0 .. LogLength
         /\ (\A o \in Offsets : <<t, o>> \notin batch[w]) => OffsetsFor(w)[t] = committed[t]
         /\ \A o \in Offsets : <<t, o>> \in batch[w] =>
              /\ o < OffsetsFor(w)[t]
              /\ OffsetsFor(w)[t] - 1 \in Offsets
              /\ <<t, OffsetsFor(w)[t] - 1>> \in batch[w]
<1> DEFINE next == {r[2] + 1 : r \in {s \in batch[w] : s[1] = t}}
<1>1. \A n : n \in next <=> \E o \in Offsets : <<t, o>> \in batch[w] /\ n = o + 1
  <2>1. ASSUME NEW n \in next
        PROVE  \E o \in Offsets : <<t, o>> \in batch[w] /\ n = o + 1
    <3>1. PICK r \in batch[w] : r[1] = t /\ n = r[2] + 1
      OBVIOUS
    <3>2. r \in Tables \X Offsets
      BY DEF TypeOK, Records
    <3>3. r = <<t, r[2]>> /\ r[2] \in Offsets
      BY <3>1, <3>2
    <3> QED  BY <3>1, <3>3
  <2>2. ASSUME NEW o \in Offsets, <<t, o>> \in batch[w]
        PROVE  o + 1 \in next
    BY <2>2
  <2> QED  BY <2>1, <2>2
<1>2. next \subseteq 0 .. LogLength
  <2>1. \A o \in Offsets : o + 1 \in 0 .. LogLength
    BY SinkAssumption DEF Offsets
  <2> HIDE DEF next
  <2> QED  BY <1>1, <2>1
<1>3. OffsetsFor(w)[t] = IF next = {} THEN committed[t] ELSE Max(next)
  BY DEF OffsetsFor
<1>4. committed[t] \in 0 .. LogLength
  BY DEF TypeOK
<1> HIDE DEF next
<1>5. CASE next = {}
  BY <1>1, <1>3, <1>4, <1>5
<1>6. CASE next # {}
  <2>1. Max(next) \in next /\ \A n \in next : Max(next) >= n
    BY <1>2, <1>6, MaxOfBounded, SinkAssumption
  <2>2. PICK o \in Offsets : <<t, o>> \in batch[w] /\ Max(next) = o + 1
    BY <1>1, <2>1
  <2>3. OffsetsFor(w)[t] - 1 = o /\ OffsetsFor(w)[t] = o + 1
    BY <1>3, <1>6, <2>2 DEF Offsets
  <2>4. \A q \in Offsets : <<t, q>> \in batch[w] => q + 1 <= o + 1
    BY <1>1, <2>1, <2>2
  <2> QED  BY <1>2, <1>3, <1>6, <2>1, <2>2, <2>3, <2>4, SinkAssumption DEF Offsets
<1> QED  BY <1>5, <1>6

LEMMA OffsetsForType ==
  ASSUME TypeOK, NEW w \in Workers
  PROVE  OffsetsFor(w) \in [Tables -> 0 .. LogLength]
<1>1. \A t \in Tables : OffsetsFor(w)[t] \in 0 .. LogLength
  BY OffsetsForMax
<1> QED  BY <1>1 DEF OffsetsFor

LEMMA NextOffsetType ==
  ASSUME TypeOK, NEW w \in Workers, NEW t \in Tables, Fetchable(w, t)
  PROVE  NextOffset(w, t) \in Offsets /\ NextOffset(w, t) + 1 \in 0 .. LogLength
  BY SinkAssumption DEF TypeOK, Fetchable, NextOffset, Offsets, Unset

LEMMA PutType ==
  ASSUME TypeOK, NEW inserted, Put(inserted)
  PROVE  stored' \in [Records -> Nat]
  BY DEF Put, TypeOK

(* ClickHouse never loses a row.                                               *)
LEMMA PutGrows ==
  ASSUME TypeOK, NEW inserted, Put(inserted), NEW r \in Records
  PROVE  /\ stored[r] > 0 => stored'[r] > 0
         /\ r \in inserted => stored'[r] > 0
  BY DEF Put, TypeOK

LEMMA DisconnectType ==
  ASSUME TypeOK, NEW w \in Workers, Disconnect(w)
  PROVE  /\ assigned' \in [Workers -> SUBSET Tables]
         /\ position' \in [Workers -> [Tables -> 0 .. LogLength \cup {Unset}]]
         /\ holder' \in [Tables -> Workers \cup {NoOne}]
<1>1. NoPosition \in [Tables -> 0 .. LogLength \cup {Unset}]
  BY DEF NoPosition
<1> QED  BY <1>1 DEF Disconnect, TypeOK

LEMMA DropBatchType ==
  ASSUME TypeOK, NEW w \in Workers, DropBatch(w)
  PROVE  /\ batch' \in [Workers -> SUBSET Records]
         /\ stale' \in [Workers -> BOOLEAN]
         /\ todo' \in [Workers -> SUBSET Records]
  BY DEF DropBatch, TypeOK

LEMMA DiscardAllType ==
  ASSUME TypeOK, NEW w \in Workers, DiscardAll(w)
  PROVE  /\ batch' \in [Workers -> SUBSET Records]
         /\ stale' \in [Workers -> BOOLEAN]
         /\ todo' \in [Workers -> SUBSET Records]
         /\ rows' \in [Workers -> [Tables -> SUBSET Records]]
<1>1. NoRows \in [Tables -> SUBSET Records]
  BY DEF NoRows
<1> QED  BY <1>1, DropBatchType DEF DiscardAll, TypeOK

(* Where a fetch whose records are lost may leave the positions.               *)
LEMMA FetchedInVainForm ==
  ASSUME TypeOK, NEW w \in Workers, FetchedInVain(w)
  PROVE  /\ position' \in [Workers -> [Tables -> 0 .. LogLength \cup {Unset}]]
         /\ \A v \in Workers \ {w} : position'[v] = position[v]
         /\ \A q \in Tables :
              \/ position'[w][q] = position[w][q]
              \/ Fetchable(w, q) /\ NextOffset(w, q) < position'[w][q]
<1>1. PICK later \in [Tables -> 0 .. LogLength \cup {Unset}] :
        /\ \A q \in Tables :
             later[q] = position[w][q] \/ (Fetchable(w, q) /\ NextOffset(w, q) < later[q])
        /\ position' = [position EXCEPT ![w] = later]
  BY DEF FetchedInVain
<1>2. position'[w] = later
  BY <1>1 DEF TypeOK
<1> QED  BY <1>1, <1>2 DEF TypeOK

-------------------------------------------------------------------------------
(* Type correctness.                                                           *)

LEMMA TypeInit == Init => TypeOK
  BY SinkAssumption DEF Init, TypeOK, Steps, NoPosition, NoRows, Offsets

LEMMA TypeProgress ==
  ASSUME TypeOK, NEW w \in Workers, Progress(w)
  PROVE  TypeOK'
<1>1. CASE OnAssign(w)
  BY <1>1 DEF OnAssign, Free, NewEpoch, TypeOK
<1>2. CASE OnLost(w)
  <2>1. NoPosition \in [Tables -> 0 .. LogLength \cup {Unset}]
    BY DEF NoPosition
  <2> QED  BY <1>2, <2>1 DEF OnLost, NewEpoch, TypeOK
<1>3. CASE ReturnBatch(w)
  <2>1. CASE BatchCurrent(w)
    BY <1>3, <2>1 DEF ReturnBatch, Goto, assignmentVars, TypeOK, Steps
  <2>2. CASE ~BatchCurrent(w)
    BY <1>3, <2>2, DropBatchType, DisconnectType DEF ReturnBatch, TypeOK
  <2> QED  BY <2>1, <2>2
<1>4. CASE Commit(w)
  BY <1>4, OffsetsForType, DropBatchType DEF Commit, Goto, assignmentVars, TypeOK, Steps
<1>5. CASE CommitLost(w)
  BY <1>5, DiscardAllType, DisconnectType DEF CommitLost, Goto, TypeOK, Steps
<1>6. CASE Reconnect(w) \/ Restart(w)
  BY <1>6 DEF Reconnect, Restart, Goto, assignmentVars, batchVars, TypeOK, Steps
<1>7. ASSUME NEW t \in Tables, Consume(w, t)
      PROVE  TypeOK'
  <2>1. NextOffset(w, t) \in Offsets /\ NextOffset(w, t) + 1 \in 0 .. LogLength
    BY <1>7, NextOffsetType DEF Consume
  <2> QED  BY <1>7, <2>1 DEF Consume, TypeOK, Records
<1>8. ASSUME NEW t \in Tables, InsertTable(w, t)
      PROVE  TypeOK'
  BY <1>8, PutType DEF InsertTable, assignmentVars, TypeOK
<1>9. ASSUME NEW r \in Records, SkipInvalid(w, r)
      PROVE  TypeOK'
  BY <1>9 DEF SkipInvalid, assignmentVars, TypeOK
<1>10. ASSUME NEW r \in Records, Add(w, r)
       PROVE  TypeOK'
  <2>1. r[1] \in Tables /\ rows[w][r[1]] \cup {r} \in SUBSET Records
    BY DEF Records, TypeOK
  <2>2. /\ todo' \in [Workers -> SUBSET Records]
        /\ rows' \in [Workers -> [Tables -> SUBSET Records]]
    <3>1. todo' = [todo EXCEPT ![w] = @ \ {r}]
      BY <1>10 DEF Add
    <3>2. \/ rows' = [rows EXCEPT ![w][r[1]] = {}]
          \/ rows' = [rows EXCEPT ![w][r[1]] = rows[w][r[1]] \cup {r}]
      BY <1>10 DEF Add
    <3>3. \A pending \in SUBSET Records :
            [rows EXCEPT ![w][r[1]] = pending] \in [Workers -> [Tables -> SUBSET Records]]
      BY <2>1 DEF TypeOK
    <3>4. todo' \in [Workers -> SUBSET Records]
      BY <3>1 DEF TypeOK
    <3>5. {} \in SUBSET Records
      OBVIOUS
    <3>6. rows' \in [Workers -> [Tables -> SUBSET Records]]
      BY <2>1, <3>2, <3>3, <3>5
    <3> QED  BY <3>4, <3>6
  <2>3. CASE Cardinality(rows[w][r[1]] \cup {r}) >= TableBatch
    BY <1>10, <2>2, <2>3, PutType DEF Add, assignmentVars, TypeOK
  <2>4. CASE ~(Cardinality(rows[w][r[1]] \cup {r}) >= TableBatch)
    BY <1>10, <2>2, <2>4 DEF Add, assignmentVars, TypeOK
  <2> QED  BY <2>3, <2>4
<1> QED
  BY <1>1, <1>2, <1>3, <1>4, <1>5, <1>6, <1>7, <1>8, <1>9, <1>10 DEF Progress

LEMMA InsertRaisesType ==
  ASSUME TypeOK, NEW w \in Workers, NEW pending, InsertRaises(w, pending)
  PROVE  TypeOK'
  BY PutType, DiscardAllType, DisconnectType
     DEF InsertRaises, Fault, Goto, TypeOK, Steps

LEMMA TypeFailure ==
  ASSUME TypeOK, NEW w \in Workers, Failure(w)
  PROVE  TypeOK'
<1>1. CASE FetchFails(w)
  BY <1>1, DropBatchType, DisconnectType DEF FetchFails, Fault, TypeOK
<1>2. CASE ConsumeRaises(w)
  BY <1>2, DropBatchType, FetchedInVainForm DEF ConsumeRaises, Fault, TypeOK
<1>3. CASE CommitTimesOut(w)
  BY <1>3, DiscardAllType, DisconnectType, OffsetsForType
     DEF CommitTimesOut, Fault, Goto, TypeOK, Steps
<1>4. CASE Crash(w)
  BY <1>4, DiscardAllType, DisconnectType, PutType DEF Crash, Fault, Goto, TypeOK, Steps
<1>5. ASSUME NEW t \in Tables, InsertTableRaises(w, t)
      PROVE  TypeOK'
  BY <1>5, InsertRaisesType DEF InsertTableRaises
<1>6. ASSUME NEW r \in Records, AddRaises(w, r)
      PROVE  TypeOK'
  BY <1>6, InsertRaisesType DEF AddRaises
<1> QED  BY <1>1, <1>2, <1>3, <1>4, <1>5, <1>6 DEF Failure

LEMMA TypeCoordinator ==
  ASSUME TypeOK, NEW w \in Workers, Coordinator(w)
  PROVE  TypeOK'
<1>1. CASE OnRevoke(w)
  <2>1. NoPosition \in [Tables -> 0 .. LogLength \cup {Unset}]
    BY DEF NoPosition
  <2> QED  BY <1>1, <2>1 DEF OnRevoke, NewEpoch, TypeOK
<1>2. CASE ExpireClosed(w)
  BY <1>2 DEF ExpireClosed, batchVars, TypeOK
<1>3. CASE ExpireLive(w)
  BY <1>3 DEF ExpireLive, Fault, batchVars, TypeOK
<1> QED  BY <1>1, <1>2, <1>3 DEF Coordinator

LEMMA TypeStep ==
  ASSUME TypeOK, [Next]_vars
  PROVE  TypeOK'
<1>1. CASE UNCHANGED vars
  BY <1>1 DEF vars, assignmentVars, batchVars, TypeOK
<1>2. CASE Next
  BY <1>2, TypeProgress, TypeFailure, TypeCoordinator DEF Next
<1> QED  BY <1>1, <1>2

(* Every variable keeps its type (monitoring_agent.py:90-135 sets them up).    *)
THEOREM SinkTypeCorrect == Spec => []TypeOK
<1>1. Init => TypeOK
  BY TypeInit
<1>2. TypeOK /\ [Next]_vars => TypeOK'
  BY TypeStep
<1> QED  BY <1>1, <1>2, PTL DEF Spec
-------------------------------------------------------------------------------
(* What a step leaves alone.                                                   *)

Step(w) == Progress(w) \/ Failure(w) \/ Coordinator(w)

(* The worker drops its batch and its consumer.                                *)
GiveUp(w) ==
  /\ DropBatch(w)
  /\ Disconnect(w)
  /\ \A v \in Workers \ {w} : pc'[v] = pc[v] /\ rows'[v] = rows[v]
  /\ pc'[w] # "work"
  /\ rows'[w] = NoRows \/ (pc[w] # "work" /\ rows'[w] = rows[w])
  /\ \/ UNCHANGED committed
     \/ BatchCurrent(w) /\ IsCurrentMember(w) /\ ReadyToCommit(w)
        /\ committed' = OffsetsFor(w)
  /\ UNCHANGED stored \/ \E inserted : Put(inserted)

LEMMA GiveUpForms ==
  ASSUME TypeOK, NEW w \in Workers,
         \/ FetchFails(w) \/ CommitTimesOut(w) \/ Crash(w) \/ CommitLost(w)
         \/ ReturnBatch(w) /\ ~BatchCurrent(w)
         \/ \E t \in Tables : InsertTableRaises(w, t)
         \/ \E r \in Records : AddRaises(w, r)
  PROVE  GiveUp(w)
<1>1. CASE FetchFails(w)
  BY <1>1 DEF FetchFails, GiveUp, TypeOK
<1>2. CASE ReturnBatch(w) /\ ~BatchCurrent(w)
  BY <1>2 DEF ReturnBatch, GiveUp, TypeOK
<1>3. CASE CommitLost(w)
  BY <1>3 DEF CommitLost, DiscardAll, Goto, GiveUp, TypeOK
<1>4. CASE CommitTimesOut(w)
  BY <1>4 DEF CommitTimesOut, DiscardAll, Goto, GiveUp, TypeOK
<1>5. CASE Crash(w)
  BY <1>5 DEF Crash, DiscardAll, Goto, GiveUp, TypeOK
<1>6. ASSUME NEW pending, InsertRaises(w, pending)
      PROVE  GiveUp(w)
  BY <1>6 DEF InsertRaises, DiscardAll, Goto, GiveUp, TypeOK
<1> QED
  BY <1>1, <1>2, <1>3, <1>4, <1>5, <1>6 DEF InsertTableRaises, AddRaises

(* Every other worker keeps what it has, and may only lose topics.             *)
LEMMA OthersKeep ==
  ASSUME TypeOK, NEW w \in Workers, Step(w), NEW v \in Workers \ {w}
  PROVE  /\ pc'[v] = pc[v] /\ assigned'[v] = assigned[v] /\ position'[v] = position[v]
         /\ batch'[v] = batch[v] /\ stale'[v] = stale[v] /\ todo'[v] = todo[v]
         /\ rows'[v] = rows[v]
         /\ \A t \in Tables : holder'[t] = v => holder[t] = v
<1>1. v # NoOne /\ v # w
  BY SinkAssumption
<1>2. CASE GiveUp(w)
  BY <1>1, <1>2 DEF GiveUp, DropBatch, Disconnect, TypeOK
<1>3. CASE OnAssign(w) \/ OnLost(w) \/ (ReturnBatch(w) /\ BatchCurrent(w))
  BY <1>1, <1>3 DEF OnAssign, OnLost, ReturnBatch, NewEpoch, Goto, assignmentVars, TypeOK
<1>4. CASE Commit(w) \/ Reconnect(w) \/ Restart(w)
  BY <1>1, <1>4 DEF Commit, Reconnect, Restart, DropBatch, Goto, assignmentVars, batchVars, TypeOK
<1>5. ASSUME NEW t \in Tables, Consume(w, t) \/ InsertTable(w, t)
      PROVE  /\ pc'[v] = pc[v] /\ assigned'[v] = assigned[v] /\ position'[v] = position[v]
             /\ batch'[v] = batch[v] /\ stale'[v] = stale[v] /\ todo'[v] = todo[v]
             /\ rows'[v] = rows[v]
             /\ UNCHANGED holder
  BY <1>1, <1>5 DEF Consume, InsertTable, assignmentVars, TypeOK
<1>6. ASSUME NEW r \in Records, SkipInvalid(w, r) \/ Add(w, r)
      PROVE  /\ pc'[v] = pc[v] /\ assigned'[v] = assigned[v] /\ position'[v] = position[v]
             /\ batch'[v] = batch[v] /\ stale'[v] = stale[v] /\ todo'[v] = todo[v]
             /\ rows'[v] = rows[v]
             /\ UNCHANGED holder
  BY <1>1, <1>6 DEF SkipInvalid, Add, assignmentVars, TypeOK
<1>7. CASE ConsumeRaises(w)
  BY <1>1, <1>7, FetchedInVainForm DEF ConsumeRaises, DropBatch, TypeOK
<1>8. CASE Coordinator(w)
  BY <1>1, <1>8 DEF Coordinator, OnRevoke, ExpireClosed, ExpireLive, NewEpoch, batchVars, TypeOK
<1> QED
  BY <1>2, <1>3, <1>4, <1>5, <1>6, <1>7, <1>8, GiveUpForms DEF Step, Progress, Failure

(* Only the holder of a topic moves its offset.                                *)
LEMMA HolderCommits ==
  ASSUME TypeOK, NEW w \in Workers, Step(w), NEW t \in Tables, holder[t] # w
  PROVE  committed'[t] = committed[t]
<1>1. ASSUME BatchCurrent(w), IsCurrentMember(w), committed' = OffsetsFor(w)
      PROVE  committed'[t] = committed[t]
  <2>1. \A o \in Offsets : <<t, o>> \notin batch[w]
    BY <1>1 DEF BatchCurrent, IsCurrentMember
  <2> QED  BY <1>1, <2>1, OffsetsForMax
<1>2. CASE GiveUp(w)
  BY <1>1, <1>2 DEF GiveUp
<1>3. CASE Commit(w)
  BY <1>1, <1>3 DEF Commit
<1>4. CASE UNCHANGED committed
  BY <1>4
<1>5. \/ GiveUp(w) \/ Commit(w) \/ UNCHANGED committed
  <2>1. CASE Progress(w)
    BY <2>1, GiveUpForms DEF Progress, OnAssign, OnLost, ReturnBatch, Reconnect, Restart,
       Consume, InsertTable, SkipInvalid, Add
  <2>2. CASE Failure(w)
    BY <2>2, GiveUpForms DEF Failure, ConsumeRaises
  <2>3. CASE Coordinator(w)
    BY <2>3 DEF Coordinator, OnRevoke, ExpireClosed, ExpireLive
  <2> QED  BY <2>1, <2>2, <2>3 DEF Step
<1> QED  BY <1>2, <1>3, <1>4, <1>5

LEMMA StoredKeeps ==
  ASSUME TypeOK, NEW w \in Workers, Step(w), NEW r \in Records, stored[r] > 0
  PROVE  stored'[r] > 0
<1>1. UNCHANGED stored \/ \E inserted : Put(inserted)
  <2>1. CASE Progress(w)
    BY <2>1, GiveUpForms DEF Progress, OnAssign, OnLost, ReturnBatch, Commit, CommitLost,
       Reconnect, Restart, Consume, InsertTable, SkipInvalid, Add
  <2>2. CASE Failure(w)
    BY <2>2, GiveUpForms DEF Failure, ConsumeRaises, GiveUp
  <2>3. CASE Coordinator(w)
    BY <2>3 DEF Coordinator, OnRevoke, ExpireClosed, ExpireLive
  <2> QED  BY <2>1, <2>2, <2>3 DEF Step
<1> QED  BY <1>1, PutGrows
-------------------------------------------------------------------------------
(* The parts of the invariant.                                                 *)

LEMMA PositionsStep ==
  ASSUME TypeOK, PositionsAssigned, NEW w \in Workers, Step(w)
  PROVE  PositionsAssigned'
<1>1. ASSUME NEW t \in Tables, position'[w][t] # Unset
      PROVE  t \in assigned'[w]
  <2>1. position[w][t] # Unset => t \in assigned[w]
    BY DEF PositionsAssigned
  <2>2. CASE GiveUp(w) \/ OnLost(w) \/ OnRevoke(w)
    BY <1>1, <2>2 DEF GiveUp, Disconnect, OnLost, OnRevoke, NoPosition, TypeOK
  <2>3. CASE OnAssign(w)
    <3>1. position[w][t] = Unset
      BY <2>1, <2>3 DEF OnAssign, Idle
    <3> QED  BY <1>1, <2>3, <3>1 DEF OnAssign
  <2>4. CASE \E q \in Tables : Consume(w, q)
    BY <1>1, <2>1, <2>4 DEF Consume, Fetchable, TypeOK
  <2>5. CASE ConsumeRaises(w)
    BY <1>1, <2>1, <2>5, FetchedInVainForm DEF ConsumeRaises, Fetchable
  <2>6. CASE UNCHANGED <<assigned, position>>
    BY <1>1, <2>1, <2>6
  <2> QED
    BY <2>2, <2>3, <2>4, <2>5, <2>6, GiveUpForms
       DEF Step, Progress, Failure, Coordinator, ReturnBatch, Commit, Reconnect, Restart,
           InsertTable, SkipInvalid, Add, ExpireClosed, ExpireLive, assignmentVars
<1>2. ASSUME NEW v \in Workers \ {w}, NEW t \in Tables, position'[v][t] # Unset
      PROVE  t \in assigned'[v]
  BY <1>2, OthersKeep DEF PositionsAssigned
<1> QED  BY <1>1, <1>2 DEF PositionsAssigned

(* BatchFollowsLog for one worker and one topic.                               *)
Follows(w, t) ==
  /\ Fetching(w, t) => committed[t] <= position[w][t]
  /\ ~stale[w] =>
       \A o \in Offsets :
         /\ <<t, o>> \in batch[w] => position[w][t] # Unset
         /\ Fetching(w, t) =>
              LET next == committed[t] <= o /\ o < position[w][t]
              IN  /\ <<t, o>> \in batch[w] => next
                  /\ next => FetchRaises \/ <<t, o>> \in batch[w]

(* A holder's commit of its batch ends exactly at its fetch position.          *)
LEMMA CommitReachesPosition ==
  ASSUME TypeOK, NEW w \in Workers, NEW t \in Tables, Follows(w, t),
         ~stale[w], Fetching(w, t)
  PROVE  /\ committed[t] <= OffsetsFor(w)[t]
         /\ OffsetsFor(w)[t] <= position[w][t]
         /\ FetchRaises \/ OffsetsFor(w)[t] = position[w][t]
<1>1. committed[t] \in 0 .. LogLength /\ position[w][t] \in 0 .. LogLength
  BY DEF TypeOK, Fetching
<1>2. OffsetsFor(w)[t] \in 0 .. LogLength
  BY OffsetsForMax
<1>3. CASE \A o \in Offsets : <<t, o>> \notin batch[w]
  <2>1. OffsetsFor(w)[t] = committed[t] /\ committed[t] <= position[w][t]
        /\ position[w][t] # Unset
    BY <1>3, OffsetsForMax DEF Follows, Fetching
  <2>2. ~FetchRaises => ~(committed[t] < position[w][t])
    <3> SUFFICES ASSUME ~FetchRaises, committed[t] < position[w][t] PROVE FALSE
      OBVIOUS
    <3>1. committed[t] \in Offsets
      BY <1>1, SinkAssumption DEF Offsets
    <3>2. <<t, committed[t]>> \in batch[w]
      BY <1>1, <2>1, <3>1, SinkAssumption DEF Follows
    <3> QED  BY <1>3, <3>1, <3>2
  <2> QED  BY <1>1, <2>1, <2>2
<1>4. ASSUME NEW q \in Offsets, <<t, q>> \in batch[w]
      PROVE  /\ committed[t] <= OffsetsFor(w)[t]
             /\ OffsetsFor(w)[t] <= position[w][t]
             /\ FetchRaises \/ OffsetsFor(w)[t] = position[w][t]
  <2>1. /\ OffsetsFor(w)[t] - 1 \in Offsets
        /\ <<t, OffsetsFor(w)[t] - 1>> \in batch[w]
    BY <1>4, OffsetsForMax
  <2>2. committed[t] <= OffsetsFor(w)[t] - 1 /\ OffsetsFor(w)[t] - 1 < position[w][t]
    BY <2>1 DEF Follows
  <2>3. ~FetchRaises => ~(OffsetsFor(w)[t] < position[w][t])
    <3> SUFFICES ASSUME ~FetchRaises, OffsetsFor(w)[t] < position[w][t] PROVE FALSE
      OBVIOUS
    <3>1. OffsetsFor(w)[t] \in Offsets
      BY <1>1, <1>2, SinkAssumption DEF Offsets
    <3>2. <<t, OffsetsFor(w)[t]>> \in batch[w]
      BY <1>1, <1>2, <2>2, <3>1 DEF Follows
    <3>3. OffsetsFor(w)[t] < OffsetsFor(w)[t]
      BY <3>1, <3>2, OffsetsForMax
    <3> QED  BY <1>2, <3>3
  <2> QED  BY <1>1, <1>2, <2>2, <2>3
<1> QED  BY <1>3, <1>4

LEMMA FollowsConsume ==
  ASSUME TypeOK, PositionsAssigned, NEW w \in Workers, NEW q \in Tables, Consume(w, q),
         NEW t \in Tables, Follows(w, t)
  PROVE  Follows(w, t)'
<1>1. /\ batch' = [batch EXCEPT ![w] = @ \cup {<<q, NextOffset(w, q)>>}]
      /\ position' = [position EXCEPT ![w][q] = NextOffset(w, q) + 1]
      /\ UNCHANGED <<assigned, holder, stale, committed>>
  BY DEF Consume
<1>2. NextOffset(w, q) \in Offsets
  BY NextOffsetType DEF Consume
<1>3. CASE t # q
  <2>1. /\ position'[w][t] = position[w][t]
        /\ \A o \in Offsets : <<t, o>> \in batch'[w] <=> <<t, o>> \in batch[w]
    BY <1>1, <1>3 DEF TypeOK
  <2> QED  BY <1>1, <2>1 DEF Follows, Fetching
<1>4. CASE t = q
  <2>1. position'[w][t] = NextOffset(w, t) + 1
    BY <1>1, <1>4 DEF TypeOK
  <2>2. \A o \in Offsets : <<t, o>> \in batch'[w]
                             <=> <<t, o>> \in batch[w] \/ o = NextOffset(w, t)
    BY <1>1, <1>4 DEF TypeOK
  <2>3. committed[t] \in Int /\ NextOffset(w, t) \in Int /\ Offsets \subseteq Int
    BY <1>2, <1>4, SinkAssumption DEF TypeOK, Offsets
  <2>4. position[w][t] # Unset => position[w][t] = NextOffset(w, t)
    BY DEF NextOffset
  <2>5. position[w][t] = Unset => committed[t] = NextOffset(w, t)
    BY DEF NextOffset
  <2>6. NextOffset(w, t) + 1 # Unset
    BY <1>2, <1>4, SinkAssumption DEF Offsets, Unset
  <2>7. CASE position[w][t] # Unset
    BY <1>1, <2>1, <2>2, <2>3, <2>4, <2>6, <2>7 DEF Follows, Fetching
  <2>8. CASE position[w][t] = Unset
    BY <1>1, <2>1, <2>2, <2>3, <2>5, <2>6, <2>8 DEF Follows, Fetching
  <2> QED  BY <2>7, <2>8
<1> QED  BY <1>3, <1>4

(* A worker's own step.                                                        *)
LEMMA FollowsOwn ==
  ASSUME TypeOK, PositionsAssigned, WorkInBatch, NEW w \in Workers, Step(w),
         NEW t \in Tables, Follows(w, t)
  PROVE  Follows(w, t)'
<1>1. CASE GiveUp(w)
  BY <1>1 DEF GiveUp, DropBatch, Disconnect, NoPosition, Follows, Fetching, TypeOK
<1>2. CASE OnLost(w) \/ OnRevoke(w)
  <2>1. position'[w][t] = Unset /\ stale'[w] = (batch[w] # {}) /\ batch'[w] = batch[w]
    BY <1>2 DEF OnLost, OnRevoke, NewEpoch, NoPosition, TypeOK
  <2> QED  BY <2>1 DEF Follows, Fetching
<1>3. CASE OnAssign(w)
  <2>1. position[w][t] = Unset
    BY <1>3 DEF OnAssign, Idle, PositionsAssigned
  <2>2. position'[w][t] = Unset /\ stale'[w] = (batch[w] # {}) /\ batch'[w] = batch[w]
    BY <1>3, <2>1 DEF OnAssign, NewEpoch, TypeOK
  <2> QED  BY <2>2 DEF Follows, Fetching
<1>4. CASE \E q \in Tables : Consume(w, q)
  BY <1>4, FollowsConsume
<1>5. CASE ConsumeRaises(w)
  <2>1. /\ batch'[w] = {} /\ UNCHANGED <<assigned, holder, committed>> /\ FetchRaises
    BY <1>5 DEF ConsumeRaises, DropBatch, TypeOK
  <2>2. \/ position'[w][t] = position[w][t]
        \/ NextOffset(w, t) < position'[w][t]
    BY <1>5, FetchedInVainForm DEF ConsumeRaises
  <2>3. /\ committed[t] \in Int
        /\ position[w][t] \in Int /\ position'[w][t] \in Int
    BY <1>5, FetchedInVainForm, SinkAssumption DEF ConsumeRaises, TypeOK, Unset
  <2>4. Fetching(w, t)' => committed[t] <= position'[w][t]
    BY <2>1, <2>2, <2>3 DEF Follows, Fetching, NextOffset
  <2> QED  BY <2>1, <2>4 DEF Follows
<1>6. CASE Commit(w)
  <2>1. /\ batch'[w] = {} /\ UNCHANGED <<assigned, holder, position>>
        /\ committed' = OffsetsFor(w)
    BY <1>6 DEF Commit, DropBatch, assignmentVars, TypeOK
  <2>2. ~stale[w]
    BY <1>6 DEF Commit, BatchCurrent
  <2>3. ASSUME Fetching(w, t)
        PROVE  /\ committed'[t] <= position[w][t]
               /\ FetchRaises \/ committed'[t] = position[w][t]
    BY <2>1, <2>2, <2>3, CommitReachesPosition
  <2>4. Fetching(w, t)' <=> Fetching(w, t)
    BY <2>1 DEF Fetching
  <2>5. OffsetsFor(w)[t] \in Int
    <3>1. OffsetsFor(w)[t] \in 0 .. LogLength
      BY OffsetsForMax
    <3> QED  BY <3>1, SinkAssumption
  <2>6. position[w][t] \in Int /\ Offsets \subseteq Int
    BY SinkAssumption DEF TypeOK, Unset, Offsets
  <2> QED  BY <2>1, <2>3, <2>4, <2>5, <2>6 DEF Follows
<1>7. CASE ExpireClosed(w) \/ ExpireLive(w)
  <2>1. /\ UNCHANGED <<assigned, position, batch, stale, committed>>
        /\ holder'[t] = w => holder[t] = w
    BY <1>7, SinkAssumption DEF ExpireClosed, ExpireLive, batchVars, TypeOK
  <2> QED  BY <2>1 DEF Follows, Fetching
<1>8. CASE UNCHANGED <<assigned, position, holder, batch, stale, committed>>
  BY <1>8 DEF Follows, Fetching
<1> QED
  BY <1>1, <1>2, <1>3, <1>4, <1>5, <1>6, <1>7, <1>8, GiveUpForms
     DEF Step, Progress, Failure, Coordinator, ReturnBatch, Reconnect, Restart,
         InsertTable, SkipInvalid, Add, assignmentVars, batchVars

LEMMA FollowsStep ==
  ASSUME TypeOK, PositionsAssigned, WorkInBatch, BatchFollowsLog,
         NEW w \in Workers, Step(w)
  PROVE  BatchFollowsLog'
<1>1. \A v \in Workers : \A t \in Tables : Follows(v, t)
  BY DEF BatchFollowsLog, Follows
<1>2. \A t \in Tables : Follows(w, t)'
  BY <1>1, FollowsOwn
<1>3. ASSUME NEW v \in Workers \ {w}, NEW t \in Tables
      PROVE  Follows(v, t)'
  <2>1. /\ position'[v] = position[v] /\ batch'[v] = batch[v] /\ stale'[v] = stale[v]
        /\ assigned'[v] = assigned[v] /\ (holder'[t] = v => holder[t] = v)
    BY OthersKeep
  <2>2. holder[t] = v => committed'[t] = committed[t]
    BY HolderCommits
  <2>3. Follows(v, t)
    BY <1>1
  <2> QED  BY <2>1, <2>2, <2>3 DEF Follows, Fetching
<1> QED  BY <1>2, <1>3 DEF BatchFollowsLog, Follows

LEMMA WorkStep ==
  ASSUME TypeOK, WorkInBatch, NEW w \in Workers, Step(w)
  PROVE  WorkInBatch'
<1>1. ASSUME NEW v \in Workers \ {w}
      PROVE  /\ todo'[v] \subseteq batch'[v]
             /\ pc'[v] # "work" => todo'[v] = {}
             /\ pc'[v] = "work" => BatchCurrent(v)'
  <2>1. /\ pc'[v] = pc[v] /\ todo'[v] = todo[v] /\ batch'[v] = batch[v]
        /\ stale'[v] = stale[v] /\ assigned'[v] = assigned[v]
    BY OthersKeep
  <2> QED  BY <2>1 DEF WorkInBatch, BatchCurrent
<1>2. /\ todo'[w] \subseteq batch'[w]
      /\ pc'[w] # "work" => todo'[w] = {}
      /\ pc'[w] = "work" => BatchCurrent(w)'
  <2>1. CASE GiveUp(w)
    BY <2>1 DEF GiveUp, DropBatch, TypeOK
  <2>2. CASE OnAssign(w) \/ OnLost(w) \/ OnRevoke(w)
    BY <2>2 DEF OnAssign, OnLost, OnRevoke, Idle, WorkInBatch
  <2>3. CASE ReturnBatch(w) /\ BatchCurrent(w)
    BY <2>3 DEF ReturnBatch, BatchCurrent, Goto, assignmentVars, TypeOK
  <2>4. CASE Commit(w) \/ ConsumeRaises(w)
    BY <2>4 DEF Commit, ConsumeRaises, DropBatch, Goto, TypeOK
  <2>5. CASE Reconnect(w) \/ Restart(w)
    BY <2>5 DEF Reconnect, Restart, Goto, batchVars, WorkInBatch, TypeOK
  <2>6. ASSUME NEW t \in Tables, Consume(w, t)
        PROVE  pc'[w] # "work" /\ todo'[w] = {}
    BY <2>6 DEF Consume, WorkInBatch
  <2>7. ASSUME NEW t \in Tables, InsertTable(w, t)
        PROVE  UNCHANGED <<pc, todo, batch, stale, assigned>>
    BY <2>7 DEF InsertTable, assignmentVars
  <2>8. ASSUME NEW r \in Records, SkipInvalid(w, r) \/ Add(w, r)
        PROVE  /\ pc[w] = "work" /\ todo'[w] \subseteq todo[w]
               /\ UNCHANGED <<pc, batch, stale, assigned>>
    BY <2>8 DEF SkipInvalid, Add, IsNext, assignmentVars, TypeOK
  <2>9. CASE ExpireClosed(w) \/ ExpireLive(w)
    BY <2>9 DEF ExpireClosed, ExpireLive, batchVars, WorkInBatch, BatchCurrent
  <2>10. CASE UNCHANGED <<pc, todo, batch, stale, assigned>>
    BY <2>10 DEF WorkInBatch, BatchCurrent
  <2>11. CASE \E r \in Records : SkipInvalid(w, r) \/ Add(w, r)
    BY <2>8, <2>11 DEF WorkInBatch, BatchCurrent
  <2>12. CASE \E t \in Tables : Consume(w, t)
    BY <2>6, <2>12
  <2> QED
    BY <2>1, <2>2, <2>3, <2>4, <2>5, <2>7, <2>9, <2>10, <2>11, <2>12, GiveUpForms
       DEF Step, Progress, Failure, Coordinator
<1> QED  BY <1>1, <1>2 DEF WorkInBatch

LEMMA NoRowOutlivesStep ==
  ASSUME TypeOK, WorkInBatch, NoRowOutlivesItsBatch, NEW w \in Workers, Step(w)
  PROVE  NoRowOutlivesItsBatch'
<1>1. ASSUME NEW v \in Workers \ {w}, NEW t \in Tables
      PROVE  /\ rows'[v][t] \subseteq batch'[v]
             /\ pc'[v] # "work" => rows'[v][t] = {}
  <2>1. pc'[v] = pc[v] /\ rows'[v] = rows[v] /\ batch'[v] = batch[v]
    BY OthersKeep
  <2> QED  BY <2>1 DEF NoRowOutlivesItsBatch
<1>2. ASSUME NEW t \in Tables
      PROVE  /\ rows'[w][t] \subseteq batch'[w]
             /\ pc'[w] # "work" => rows'[w][t] = {}
  <2>1. rows[w][t] \subseteq batch[w] /\ (pc[w] # "work" => rows[w][t] = {})
    BY DEF NoRowOutlivesItsBatch
  <2>2. CASE GiveUp(w)
    BY <2>1, <2>2 DEF GiveUp, NoRows
  <2>3. CASE OnAssign(w) \/ OnLost(w) \/ OnRevoke(w) \/ (ReturnBatch(w) /\ BatchCurrent(w))
             \/ ExpireClosed(w) \/ ExpireLive(w)
    BY <2>1, <2>3 DEF OnAssign, OnLost, OnRevoke, ReturnBatch, ExpireClosed, ExpireLive,
       Idle, batchVars
  <2>4. CASE Commit(w) \/ ConsumeRaises(w)
    BY <2>1, <2>4 DEF Commit, ConsumeRaises, DropBatch, ReadyToCommit, NoRows, TypeOK
  <2>5. CASE Reconnect(w) \/ Restart(w)
    BY <2>1, <2>5 DEF Reconnect, Restart, batchVars
  <2>6. CASE \E q \in Tables : Consume(w, q)
    BY <2>1, <2>6 DEF Consume
  <2>7. CASE \E q \in Tables : InsertTable(w, q)
    BY <2>1, <2>7 DEF InsertTable, TypeOK
  <2>8. CASE \E r \in Records : SkipInvalid(w, r)
    BY <2>1, <2>8 DEF SkipInvalid
  <2>9. ASSUME NEW r \in Records, Add(w, r)
        PROVE  /\ rows'[w][t] \subseteq batch'[w]
               /\ pc'[w] = "work"
    <3>1. r \in batch[w] /\ batch'[w] = batch[w] /\ pc'[w] = "work"
      BY <2>9 DEF Add, IsNext, WorkInBatch
    <3>2. r[1] \in Tables
      BY DEF Records
    <3>3. \/ rows' = [rows EXCEPT ![w][r[1]] = {}]
          \/ rows' = [rows EXCEPT ![w][r[1]] = rows[w][r[1]] \cup {r}]
      BY <2>9 DEF Add
    <3>4. rows'[w][t] \subseteq rows[w][t] \cup {r}
      BY <3>2, <3>3 DEF TypeOK
    <3> QED  BY <2>1, <3>1, <3>4
  <2>10. CASE \E r \in Records : Add(w, r)
    BY <2>9, <2>10
  <2> QED
    BY <2>2, <2>3, <2>4, <2>5, <2>6, <2>7, <2>8, <2>10, GiveUpForms
       DEF Step, Progress, Failure, Coordinator
<1> QED  BY <1>1, <1>2 DEF NoRowOutlivesItsBatch

LEMMA RowStep ==
  ASSUME TypeOK, WorkInBatch, EveryRecordHasARow, NEW w \in Workers, Step(w)
  PROVE  EveryRecordHasARow'
<1>1. ASSUME NEW v \in Workers \ {w}, NEW r \in batch'[v] \ Invalid, pc'[v] = "work"
      PROVE  r \in todo'[v] \/ r \in rows'[v][r[1]] \/ stored'[r] > 0
  <2>1. /\ pc'[v] = pc[v] /\ rows'[v] = rows[v] /\ batch'[v] = batch[v]
        /\ todo'[v] = todo[v]
    BY OthersKeep
  <2>2. r \in Records
    BY <2>1 DEF TypeOK
  <2>3. r \in todo[v] \/ r \in rows[v][r[1]] \/ stored[r] > 0
    BY <1>1, <2>1 DEF EveryRecordHasARow
  <2> QED  BY <2>1, <2>2, <2>3, StoredKeeps
<1>2. ASSUME NEW r \in batch'[w] \ Invalid, pc'[w] = "work"
      PROVE  r \in todo'[w] \/ r \in rows'[w][r[1]] \/ stored'[r] > 0
  <2>1. CASE UNCHANGED <<pc, batch, todo, rows, stored>>
    BY <1>2, <2>1 DEF EveryRecordHasARow
  <2>2. CASE ReturnBatch(w) /\ BatchCurrent(w)
    BY <1>2, <2>2 DEF ReturnBatch, TypeOK
  <2>3. CASE \/ GiveUp(w) \/ OnAssign(w) \/ OnLost(w) \/ OnRevoke(w) \/ Reconnect(w)
             \/ Restart(w) \/ Commit(w) \/ ConsumeRaises(w)
             \/ \E t \in Tables : Consume(w, t)
    BY <1>2, <2>3 DEF GiveUp, OnAssign, OnLost, OnRevoke, Reconnect, Restart, Commit,
       ConsumeRaises, Consume, Idle, Goto, TypeOK
  <2>4. CASE ExpireClosed(w) \/ ExpireLive(w)
    BY <2>1, <2>4 DEF ExpireClosed, ExpireLive, batchVars
  <2>5. ASSUME NEW t \in Tables, InsertTable(w, t)
        PROVE  r \in todo'[w] \/ r \in rows'[w][r[1]] \/ stored'[r] > 0
    <3>1. /\ UNCHANGED <<pc, batch, todo>>
          /\ rows' = [rows EXCEPT ![w][t] = {}]
          /\ Put(rows[w][t])
      BY <2>5 DEF InsertTable
    <3>2. r \in Records /\ r[1] \in Tables
      BY <3>1 DEF TypeOK, Records
    <3>3. r \in todo[w] \/ r \in rows[w][r[1]] \/ stored[r] > 0
      BY <1>2, <3>1 DEF EveryRecordHasARow
    <3>4. stored[r] > 0 => stored'[r] > 0
      BY <3>1, <3>2, PutGrows
    <3>5. r \in rows[w][t] => stored'[r] > 0
      BY <3>1, <3>2, PutGrows
    <3>6. r[1] # t => rows'[w][r[1]] = rows[w][r[1]]
      BY <3>1, <3>2 DEF TypeOK
    <3> QED  BY <3>1, <3>3, <3>4, <3>5, <3>6
  <2>6. ASSUME NEW s \in Records, Add(w, s)
        PROVE  r \in todo'[w] \/ r \in rows'[w][r[1]] \/ stored'[r] > 0
    <3> DEFINE pending == rows[w][s[1]] \cup {s}
    <3>1. /\ UNCHANGED <<pc, batch>>
          /\ todo' = [todo EXCEPT ![w] = @ \ {s}]
          /\ \/ rows' = [rows EXCEPT ![w][s[1]] = {}] /\ Put(pending)
             \/ rows' = [rows EXCEPT ![w][s[1]] = pending] /\ UNCHANGED stored
      BY <2>6 DEF Add
    <3>2. r \in Records /\ r[1] \in Tables /\ s[1] \in Tables
      BY <3>1 DEF TypeOK, Records
    <3>3. r \in todo[w] \/ r \in rows[w][r[1]] \/ stored[r] > 0
      BY <1>2, <3>1 DEF EveryRecordHasARow
    <3>4. r \in todo[w] /\ r # s => r \in todo'[w]
      BY <3>1 DEF TypeOK
    <3>5. CASE rows' = [rows EXCEPT ![w][s[1]] = {}] /\ Put(pending)
      <4>1. (stored[r] > 0 => stored'[r] > 0) /\ (r \in pending => stored'[r] > 0)
        BY <3>2, <3>5, PutGrows
      <4>2. r[1] # s[1] => rows'[w][r[1]] = rows[w][r[1]]
        BY <3>2, <3>5 DEF TypeOK
      <4> QED  BY <3>3, <3>4, <4>1, <4>2
    <3>6. CASE rows' = [rows EXCEPT ![w][s[1]] = pending] /\ UNCHANGED stored
      <4>1. rows'[w][s[1]] = pending
        BY <3>2, <3>6 DEF TypeOK
      <4>2. r[1] # s[1] => rows'[w][r[1]] = rows[w][r[1]]
        BY <3>2, <3>6 DEF TypeOK
      <4> QED  BY <3>3, <3>4, <3>6, <4>1, <4>2
    <3> QED  BY <3>1, <3>5, <3>6
  <2>7. ASSUME NEW s \in Records, SkipInvalid(w, s)
        PROVE  r \in todo'[w] \/ r \in rows'[w][r[1]] \/ stored'[r] > 0
    <3>1. /\ UNCHANGED <<pc, batch, rows, stored>> /\ s \in Invalid
          /\ todo' = [todo EXCEPT ![w] = @ \ {s}]
      BY <2>7 DEF SkipInvalid
    <3>2. r \in todo[w] => r \in todo'[w]
      BY <3>1 DEF TypeOK
    <3> QED  BY <1>2, <3>1, <3>2 DEF EveryRecordHasARow
  <2> QED
    BY <2>2, <2>3, <2>4, <2>5, <2>6, <2>7, GiveUpForms
       DEF Step, Progress, Failure, Coordinator
<1> QED  BY <1>1, <1>2 DEF EveryRecordHasARow
-------------------------------------------------------------------------------
(* What other readers of Kafka and ClickHouse see of a step.                   *)

(* The coordinator has taken the offsets of w's batch.                         *)
Accepted(w) ==
  /\ ReadyToCommit(w)
  /\ BatchCurrent(w)
  /\ IsCurrentMember(w)
  /\ committed' = OffsetsFor(w)

LEMMA VisibleForms ==
  ASSUME TypeOK, NEW w \in Workers, Step(w)
  PROVE  \/ Accepted(w) /\ UNCHANGED stored
         \/ UNCHANGED committed /\ (UNCHANGED stored \/ \E inserted : Put(inserted))
<1>1. CASE Commit(w) \/ CommitTimesOut(w)
  BY <1>1 DEF Commit, CommitTimesOut, Accepted
<1>2. ASSUME NEW pending, InsertRaises(w, pending)
      PROVE  UNCHANGED committed /\ (UNCHANGED stored \/ \E inserted : Put(inserted))
  BY <1>2 DEF InsertRaises
<1>3. CASE Progress(w)
  BY <1>1, <1>3 DEF Progress, OnAssign, OnLost, ReturnBatch, CommitLost, Reconnect, Restart,
     Consume, InsertTable, SkipInvalid, Add
<1>4. CASE Failure(w)
  BY <1>1, <1>2, <1>4 DEF Failure, FetchFails, ConsumeRaises, Crash, InsertTableRaises,
     AddRaises
<1>5. CASE Coordinator(w)
  BY <1>5 DEF Coordinator, OnRevoke, ExpireClosed, ExpireLive
<1> QED  BY <1>3, <1>4, <1>5 DEF Step

(* Offsets the coordinator takes move forward, over records with a row.        *)
LEMMA AcceptedCovers ==
  ASSUME ~FetchRaises, TypeOK, SinkInvariant, NEW w \in Workers, Accepted(w)
  PROVE  /\ \A t \in Tables : committed[t] <= committed'[t]
         /\ \A r \in Records \ Invalid : r[2] < committed'[r[1]] => stored[r] > 0
<1>1. ASSUME NEW t \in Tables, NEW q \in Offsets, <<t, q>> \in batch[w]
      PROVE  ~stale[w] /\ Fetching(w, t) /\ Follows(w, t)
  <2>1. t \in assigned[w] /\ holder[t] = w /\ ~stale[w]
    BY <1>1 DEF Accepted, BatchCurrent, IsCurrentMember
  <2>2. Follows(w, t)
    BY DEF SinkInvariant, BatchFollowsLog, Follows
  <2> QED  BY <1>1, <2>1, <2>2 DEF Follows, Fetching
<1>2. ASSUME NEW t \in Tables
      PROVE  committed[t] <= committed'[t]
  <2>1. CASE \A q \in Offsets : <<t, q>> \notin batch[w]
    <3>1. committed'[t] = committed[t] /\ committed[t] \in 0 .. LogLength
      BY <2>1, OffsetsForMax DEF Accepted, TypeOK
    <3> QED  BY <3>1, SinkAssumption
  <2>2. CASE \E q \in Offsets : <<t, q>> \in batch[w]
    BY <1>1, <2>2, CommitReachesPosition DEF Accepted
  <2> QED  BY <2>1, <2>2
<1>3. ASSUME NEW t \in Tables, NEW o \in Offsets, <<t, o>> \notin Invalid,
             o < committed'[t]
      PROVE  stored[<<t, o>>] > 0
  <2>1. <<t, o>> \in Records
    BY DEF Records
  <2>2. CASE o < committed[t]
    BY <1>3, <2>1, <2>2 DEF SinkInvariant, NothingLost, ALO!NothingLost, ALO!Records,
       Records, Offsets
  <2>3. CASE ~(o < committed[t])
    <3>1. committed[t] \in Int /\ o \in Int /\ position[w][t] \in Int
      BY SinkAssumption DEF TypeOK, Offsets, Unset
    <3>2. PICK q \in Offsets : <<t, q>> \in batch[w]
      BY <1>3, <2>3, OffsetsForMax DEF Accepted
    <3>3. ~stale[w] /\ Fetching(w, t) /\ Follows(w, t)
      BY <1>1, <3>2
    <3>4. committed'[t] <= position[w][t] /\ committed'[t] \in 0 .. LogLength
      BY <3>3, CommitReachesPosition, OffsetsForMax DEF Accepted
    <3>5. committed[t] <= o /\ o < position[w][t]
      BY <1>3, <2>3, <3>1, <3>4, SinkAssumption
    <3>6. <<t, o>> \in batch[w]
      BY <3>3, <3>5 DEF Follows
    <3>7. pc[w] = "work" /\ <<t, o>> \notin todo[w] /\ rows[w][t] = {}
      BY DEF Accepted, ReadyToCommit, NoRows
    <3> QED  BY <1>3, <3>6, <3>7 DEF SinkInvariant, EveryRecordHasARow
  <2> QED  BY <2>2, <2>3
<1>4. ASSUME NEW r \in Records \ Invalid, r[2] < committed'[r[1]]
      PROVE  stored[r] > 0
  <2>1. r = <<r[1], r[2]>> /\ r[1] \in Tables /\ r[2] \in Offsets
    BY DEF Records
  <2> QED  BY <1>3, <1>4, <2>1
<1> QED  BY <1>2, <1>4

LEMMA NothingLostStep ==
  ASSUME ~FetchRaises, TypeOK, SinkInvariant, NEW w \in Workers, Step(w)
  PROVE  NothingLost'
<1>1. ASSUME NEW r \in Records \ Invalid, r[2] < committed'[r[1]]
      PROVE  stored'[r] > 0
  <2>1. CASE UNCHANGED committed
    <3>1. stored[r] > 0
      BY <1>1, <2>1 DEF SinkInvariant, NothingLost, ALO!NothingLost, ALO!Records,
         Records, Offsets
    <3> QED  BY <3>1, StoredKeeps
  <2>2. CASE Accepted(w) /\ UNCHANGED stored
    BY <1>1, <2>2, AcceptedCovers
  <2> QED  BY <2>1, <2>2, VisibleForms
<1> QED  BY <1>1 DEF NothingLost, ALO!NothingLost, ALO!Records, Records, Offsets

-------------------------------------------------------------------------------
(* The theorems.                                                               *)

LEMMA InvariantInit == Init => SinkInvariant
  BY SinkAssumption
     DEF Init, SinkInvariant, PositionsAssigned, BatchFollowsLog, Fetching, WorkInBatch,
         NoRowOutlivesItsBatch, EveryRecordHasARow, NothingLost, ALO!NothingLost,
         ALO!Records, NoPosition, NoRows, Records, Offsets

LEMMA InvariantStep ==
  ASSUME TypeOK, SinkInvariant, [Next]_vars
  PROVE  SinkInvariant'
<1>1. CASE UNCHANGED vars
  BY <1>1 DEF vars, assignmentVars, batchVars, SinkInvariant, PositionsAssigned,
     BatchFollowsLog, Fetching, WorkInBatch, BatchCurrent, NoRowOutlivesItsBatch,
     EveryRecordHasARow, NothingLost, ALO!NothingLost
<1>2. ASSUME NEW w \in Workers, Step(w)
      PROVE  SinkInvariant'
  <2>1. PositionsAssigned' /\ BatchFollowsLog' /\ WorkInBatch'
    BY <1>2, PositionsStep, FollowsStep, WorkStep DEF SinkInvariant
  <2>2. NoRowOutlivesItsBatch' /\ EveryRecordHasARow'
    BY <1>2, NoRowOutlivesStep, RowStep DEF SinkInvariant
  <2>3. FetchRaises \/ NothingLost'
    BY <1>2, NothingLostStep
  <2> QED  BY <2>1, <2>2, <2>3 DEF SinkInvariant
<1> QED  BY <1>1, <1>2 DEF Next, Step

(* The invariant behind NothingLost holds of the sink as it runs, whether or   *)
(* not messages raise while they are fetched (monitoring_agent.py:163-235).    *)
THEOREM SinkInvariantHolds == Spec => [](TypeOK /\ SinkInvariant)
<1>1. Init => TypeOK /\ SinkInvariant
  BY TypeInit, InvariantInit
<1>2. (TypeOK /\ SinkInvariant) /\ [Next]_vars => (TypeOK /\ SinkInvariant)'
  BY TypeStep, InvariantStep
<1> QED  BY <1>1, <1>2, PTL DEF Spec

(* discard_all is called on every way out of a batch: no row waits in the      *)
(* sender for the insert of a later batch (clickhouse_batch_sender.py:371).    *)
THEOREM NoRowOutlives == Spec => []NoRowOutlivesItsBatch
<1>1. SinkInvariant => NoRowOutlivesItsBatch
  BY DEF SinkInvariant
<1> QED  BY <1>1, SinkInvariantHolds, PTL

(* At least once, as docs/kafka_recovery.rst:165-167 has it, through inserts   *)
(* and commits that fail, expulsion, revocation and crashes, provided that no  *)
(* message makes consume_batch raise.                                          *)
THEOREM SinkLosesNothing ==
  ASSUME ~FetchRaises PROVE Spec => []NothingLost
<1>1. SinkInvariant => NothingLost
  BY DEF SinkInvariant
<1> QED  BY <1>1, SinkInvariantHolds, PTL

LEMMA StepImplements ==
  ASSUME ~FetchRaises, TypeOK, SinkInvariant, [Next]_vars
  PROVE  [ALO!Next]_ALO!vars
<1>1. ASSUME NEW inserted, Put(inserted), UNCHANGED committed
      PROVE  ALO!Next
  <2> DEFINE taken == {r \in Records : r \in inserted}
  <2>1. taken \in SUBSET ALO!Records
    BY DEF ALO!Records, Records, Offsets
  <2>2. ALO!Store(taken)
    BY <1>1 DEF Put, ALO!Store, ALO!Records, Records, Offsets
  <2> QED  BY <2>1, <2>2 DEF ALO!Next
<1>2. ASSUME NEW w \in Workers, Accepted(w), UNCHANGED stored
      PROVE  ALO!Next
  <2>1. committed' \in [Tables -> 0 .. LogLength]
    BY <1>2, OffsetsForType DEF Accepted
  <2>2. ALO!Advance(committed')
    BY <1>2, AcceptedCovers DEF ALO!Advance, ALO!Records, Records, Offsets
  <2> QED  BY <2>1, <2>2 DEF ALO!Next
<1>3. ASSUME NEW w \in Workers, Step(w)
      PROVE  [ALO!Next]_ALO!vars
  BY <1>1, <1>2, <1>3, VisibleForms DEF ALO!vars
<1>4. CASE UNCHANGED vars
  BY <1>4 DEF vars, ALO!vars
<1> QED  BY <1>3, <1>4 DEF Next, Step

(* The sink implements AtLeastOnce under the same proviso.                     *)
THEOREM SinkImplementsAtLeastOnce ==
  ASSUME ~FetchRaises PROVE Spec => ImplementsAtLeastOnce
<1>1. Init => ALO!Init
  BY DEF Init, ALO!Init, ALO!Records, Records, Offsets
<1>2. TypeOK /\ SinkInvariant /\ [Next]_vars => [ALO!Next]_ALO!vars
  BY StepImplements
<1> QED  BY <1>1, <1>2, SinkInvariantHolds, PTL DEF Spec, ImplementsAtLeastOnce, ALO!Spec

-------------------------------------------------------------------------------
(* How often a record is inserted.                                             *)

(* Sets that differ by one element.                                            *)
LEMMA Subset ==
  ASSUME NEW c, NEW b, NEW m \in Nat, IsFiniteSet(c), Cardinality(c) <= m, b \subseteq c
  PROVE  IsFiniteSet(b) /\ Cardinality(b) \in Nat /\ Cardinality(b) <= m
<1>1. IsFiniteSet(b) /\ Cardinality(b) <= Cardinality(c)
  BY FS_Subset
<1>2. Cardinality(b) \in Nat /\ Cardinality(c) \in Nat
  BY <1>1, FS_CardinalityType
<1> QED  BY <1>1, <1>2

LEMMA OneAdded ==
  ASSUME NEW a, NEW b, NEW y, IsFiniteSet(a), b \subseteq a \cup {y}
  PROVE  IsFiniteSet(b) /\ Cardinality(b) \in Nat /\ Cardinality(b) <= Cardinality(a) + 1
<1>1. Cardinality(a) \in Nat
  BY FS_CardinalityType
<1>2. IsFiniteSet(a \cup {y}) /\ Cardinality(a \cup {y}) <= Cardinality(a) + 1
  BY <1>1, FS_AddElement
<1> QED  BY <1>1, <1>2, Subset

LEMMA OneRemoved ==
  ASSUME NEW a, NEW b, NEW x \in a, IsFiniteSet(a), b \subseteq a \ {x}
  PROVE  IsFiniteSet(b) /\ Cardinality(b) \in Nat /\ Cardinality(b) <= Cardinality(a) - 1
<1>1. IsFiniteSet(a \ {x}) /\ Cardinality(a \ {x}) = Cardinality(a) - 1
  BY FS_RemoveElement
<1> DEFINE less == a \ {x}
<1>2. Cardinality(less) \in Nat
  BY <1>1, FS_CardinalityType
<1> HIDE DEF less
<1>3. IsFiniteSet(less) /\ b \subseteq less
  BY <1>1 DEF less
<1>4. IsFiniteSet(b) /\ Cardinality(b) \in Nat /\ Cardinality(b) <= Cardinality(less)
  <2>1. Cardinality(less) <= Cardinality(less)
    BY <1>2
  <2> QED  BY <1>2, <1>3, <2>1, Subset
<1> QED  BY <1>1, <1>4 DEF less

LEMMA OneReplaced ==
  ASSUME NEW a, NEW b, NEW x \in a, NEW y, IsFiniteSet(a), b \subseteq (a \ {x}) \cup {y}
  PROVE  IsFiniteSet(b) /\ Cardinality(b) \in Nat /\ Cardinality(b) <= Cardinality(a)
<1> DEFINE less == a \ {x}
<1>1. IsFiniteSet(less) /\ Cardinality(less) \in Nat /\ Cardinality(less) <= Cardinality(a) - 1
  BY OneRemoved
<1>2. b \subseteq less \cup {y}
  OBVIOUS
<1> HIDE DEF less
<1>3. IsFiniteSet(b) /\ Cardinality(b) \in Nat /\ Cardinality(b) <= Cardinality(less) + 1
  BY <1>1, <1>2, OneAdded
<1>4. Cardinality(a) \in Nat
  BY FS_CardinalityType
<1> QED  BY <1>1, <1>3, <1>4

(* Offsets the coordinator takes never move back.                              *)
LEMMA OffsetsGrow ==
  ASSUME TypeOK, SinkInvariant, NEW w \in Workers, Step(w), NEW t \in Tables
  PROVE  committed[t] <= committed'[t]
<1>1. CASE UNCHANGED committed
  BY <1>1, SinkAssumption DEF TypeOK
<1>2. CASE Accepted(w)
  <2>1. CASE \A q \in Offsets : <<t, q>> \notin batch[w]
    <3>1. committed'[t] = committed[t] /\ committed[t] \in 0 .. LogLength
      BY <1>2, <2>1, OffsetsForMax DEF Accepted, TypeOK
    <3> QED  BY <3>1, SinkAssumption
  <2>2. ASSUME NEW q \in Offsets, <<t, q>> \in batch[w]
        PROVE  committed[t] <= committed'[t]
    <3>1. t \in assigned[w] /\ holder[t] = w /\ ~stale[w]
      BY <1>2, <2>2 DEF Accepted, BatchCurrent, IsCurrentMember
    <3>2. Follows(w, t)
      BY DEF SinkInvariant, BatchFollowsLog, Follows
    <3>3. Fetching(w, t)
      BY <2>2, <3>1, <3>2 DEF Follows, Fetching
    <3> QED  BY <1>2, <3>1, <3>2, <3>3, CommitReachesPosition DEF Accepted
  <2> QED  BY <2>1, <2>2
<1> QED  BY <1>1, <1>2, VisibleForms

LEMMA FaultsCount ==
  ASSUME NEW w \in Workers, Step(w)
  PROVE  faults' = faults \/ faults' = faults + 1
<1>1. CASE Progress(w)
  BY <1>1 DEF Progress, OnAssign, OnLost, ReturnBatch, Commit, CommitLost, Reconnect, Restart,
     Consume, InsertTable, SkipInvalid, Add
<1>2. CASE Failure(w)
  BY <1>2 DEF Failure, FetchFails, ConsumeRaises, CommitTimesOut, Crash, InsertTableRaises,
     AddRaises, InsertRaises, Fault
<1>3. CASE Coordinator(w)
  BY <1>3 DEF Coordinator, OnRevoke, ExpireClosed, ExpireLive, Fault
<1> QED  BY <1>1, <1>2, <1>3 DEF Step

(* A worker's step leaves the topics of others to them.                        *)
LEMMA HoldersKeep ==
  ASSUME TypeOK, NEW w \in Workers, Step(w), NEW v \in Workers \ {w}, NEW t \in Tables,
         holder[t] = v
  PROVE  holder'[t] = v
<1>0. v # NoOne /\ v # w
  BY SinkAssumption
<1>1. CASE GiveUp(w)
  BY <1>0, <1>1 DEF GiveUp, Disconnect, TypeOK
<1>2. CASE OnAssign(w)
  BY <1>0, <1>2 DEF OnAssign, Free, TypeOK
<1>3. CASE OnRevoke(w) \/ ExpireLive(w)
  BY <1>0, <1>3 DEF OnRevoke, ExpireLive, IsCurrentMember, TypeOK
<1>4. CASE ExpireClosed(w)
  BY <1>0, <1>4 DEF ExpireClosed, TypeOK
<1>5. CASE UNCHANGED holder
  BY <1>5
<1> QED
  BY <1>1, <1>2, <1>3, <1>4, <1>5, GiveUpForms
     DEF Step, Progress, Failure, Coordinator, OnLost, ReturnBatch, Commit, Reconnect, Restart,
         Consume, InsertTable, SkipInvalid, Add, ConsumeRaises, assignmentVars

(* What the accounting rests on.                                               *)
ReplayBase == PositionBehindBatch /\ ExpelledFromAll /\ WaitsInOnePlace /\ NothingLeft

LEMMA BehindStep ==
  ASSUME TypeOK, SinkInvariant, PositionBehindBatch, NEW w \in Workers, Step(w)
  PROVE  PositionBehindBatch'
<1> DEFINE P(v, r) == ~stale[v] => position[v][r[1]] # Unset /\ r[2] < position[v][r[1]]
<1>1. ASSUME NEW v \in Workers \ {w}, NEW r \in batch'[v]
      PROVE  P(v, r)'
  <2>1. batch'[v] = batch[v] /\ stale'[v] = stale[v] /\ position'[v] = position[v]
    BY OthersKeep
  <2> QED  BY <1>1, <2>1 DEF PositionBehindBatch
<1>2. ASSUME NEW r \in batch'[w]
      PROVE  P(w, r)'
  <2>1. CASE GiveUp(w) \/ Commit(w) \/ ConsumeRaises(w)
    BY <1>2, <2>1 DEF GiveUp, Commit, ConsumeRaises, DropBatch, TypeOK
  <2>2. CASE OnAssign(w) \/ OnLost(w) \/ OnRevoke(w)
    BY <1>2, <2>2 DEF OnAssign, OnLost, OnRevoke, NewEpoch, TypeOK
  <2>3. ASSUME NEW q \in Tables, Consume(w, q)
        PROVE  P(w, r)'
    <3>1. /\ batch'[w] = batch[w] \cup {<<q, NextOffset(w, q)>>} /\ stale' = stale
          /\ position' = [position EXCEPT ![w][q] = NextOffset(w, q) + 1]
      BY <2>3 DEF Consume, TypeOK
    <3>2. NextOffset(w, q) \in Nat /\ NextOffset(w, q) + 1 # Unset
      BY <2>3, NextOffsetType, SinkAssumption DEF Consume, Offsets, Unset
    <3>3. position'[w][q] = NextOffset(w, q) + 1
      BY <3>1 DEF TypeOK
    <3>4. CASE r = <<q, NextOffset(w, q)>>
      BY <3>2, <3>3, <3>4
    <3>5. CASE r \in batch[w]
      <4>1. r[1] \in Tables /\ r[2] \in Int /\ P(w, r)
        BY <3>5, SinkAssumption DEF TypeOK, Records, Offsets, PositionBehindBatch
      <4>2. r[1] # q => position'[w][r[1]] = position[w][r[1]]
        BY <3>1, <4>1 DEF TypeOK
      <4>3. position[w][q] # Unset => NextOffset(w, q) = position[w][q]
        BY DEF NextOffset
      <4> QED  BY <3>1, <3>2, <3>3, <4>1, <4>2, <4>3
    <3> QED  BY <1>2, <3>1, <3>4, <3>5
  <2>4. CASE UNCHANGED <<batch, stale, position>>
    BY <1>2, <2>4 DEF PositionBehindBatch
  <2> QED
    BY <2>1, <2>2, <2>3, <2>4, GiveUpForms
       DEF Step, Progress, Failure, Coordinator, ReturnBatch, Reconnect, Restart, InsertTable,
           SkipInvalid, Add, ExpireClosed, ExpireLive, assignmentVars, batchVars
<1> QED  BY <1>1, <1>2 DEF PositionBehindBatch

LEMMA ExpelledStep ==
  ASSUME TypeOK, ExpelledFromAll, NEW w \in Workers, Step(w)
  PROVE  ExpelledFromAll'
<1>1. ASSUME NEW v \in Workers \ {w}, NEW t \in assigned'[v], NEW q \in assigned'[v],
             holder'[t] = v
      PROVE  holder'[q] = v
  <2>1. assigned'[v] = assigned[v]
    BY OthersKeep
  <2>2. t \in Tables /\ q \in Tables
    BY <2>1 DEF TypeOK
  <2>3. holder[t] = v
    BY <1>1, <2>2, OthersKeep
  <2>4. holder[q] = v
    BY <2>1, <2>3 DEF ExpelledFromAll
  <2> QED  BY <2>2, <2>4, HoldersKeep
<1>2. ASSUME NEW t \in assigned'[w], NEW q \in assigned'[w], holder'[t] = w
      PROVE  holder'[q] = w
  <2>0. w # NoOne
    BY SinkAssumption
  <2>1. CASE GiveUp(w) \/ OnLost(w) \/ OnRevoke(w)
    BY <2>1 DEF GiveUp, Disconnect, OnLost, OnRevoke, TypeOK
  <2>2. CASE OnAssign(w)
    BY <2>2 DEF OnAssign, Free, TypeOK
  <2>3. CASE ExpireLive(w)
    BY <1>2, <2>0, <2>3 DEF ExpireLive, TypeOK
  <2>4. CASE ExpireClosed(w)
    <3>1. assigned' = assigned /\ t \in Tables /\ q \in Tables
      BY <2>4 DEF ExpireClosed, TypeOK
    <3>2. holder'[t] = holder[t] /\ holder'[q] = holder[q]
      BY <2>4, <3>1 DEF ExpireClosed
    <3> QED  BY <1>2, <3>1, <3>2 DEF ExpelledFromAll
  <2>5. CASE UNCHANGED <<assigned, holder>>
    BY <1>2, <2>5 DEF ExpelledFromAll
  <2> QED
    BY <2>1, <2>2, <2>3, <2>4, <2>5, GiveUpForms
       DEF Step, Progress, Failure, Coordinator, ReturnBatch, Commit, Reconnect, Restart,
           Consume, ConsumeRaises, InsertTable, SkipInvalid, Add, assignmentVars
<1> QED  BY <1>1, <1>2 DEF ExpelledFromAll

LEMMA WaitsStep ==
  ASSUME TypeOK, SinkInvariant, WaitsInOnePlace, NEW w \in Workers, Step(w)
  PROVE  WaitsInOnePlace'
<1>1. ASSUME NEW v \in Workers \ {w}, NEW t \in Tables, NEW r \in rows'[v][t]
      PROVE  r[1] = t /\ r \notin todo'[v]
  <2>1. rows'[v] = rows[v] /\ todo'[v] = todo[v]
    BY OthersKeep
  <2> QED  BY <1>1, <2>1 DEF WaitsInOnePlace
<1>2. ASSUME NEW t \in Tables, NEW r \in rows'[w][t]
      PROVE  r[1] = t /\ r \notin todo'[w]
  <2>0. pc[w] # "work" => rows[w][t] = {}
    BY DEF SinkInvariant, NoRowOutlivesItsBatch
  <2>1. CASE GiveUp(w)
    BY <1>2, <2>0, <2>1 DEF GiveUp, NoRows
  <2>2. CASE OnAssign(w) \/ OnLost(w) \/ OnRevoke(w) \/ (ReturnBatch(w) /\ BatchCurrent(w))
             \/ ConsumeRaises(w) \/ \E q \in Tables : Consume(w, q)
    BY <1>2, <2>0, <2>2 DEF OnAssign, OnLost, OnRevoke, ReturnBatch, ConsumeRaises, Consume, Idle
  <2>3. CASE Commit(w)
    BY <1>2, <2>3 DEF Commit, ReadyToCommit, NoRows
  <2>4. CASE \E q \in Tables : InsertTable(w, q)
    BY <1>2, <2>4 DEF InsertTable, WaitsInOnePlace, TypeOK
  <2>5. CASE \E s \in Records : SkipInvalid(w, s)
    BY <1>2, <2>5 DEF SkipInvalid, WaitsInOnePlace, TypeOK
  <2>6. ASSUME NEW s \in Records, Add(w, s)
        PROVE  r[1] = t /\ r \notin todo'[w]
    <3>1. todo'[w] = todo[w] \ {s} /\ s[1] \in Tables
      BY <2>6 DEF Add, TypeOK, Records
    <3>2. \/ rows' = [rows EXCEPT ![w][s[1]] = {}]
          \/ rows' = [rows EXCEPT ![w][s[1]] = rows[w][s[1]] \cup {s}]
      BY <2>6 DEF Add
    <3>3. r \in rows[w][t] \/ (r = s /\ t = s[1])
      BY <1>2, <3>1, <3>2 DEF TypeOK
    <3> QED  BY <3>1, <3>3 DEF WaitsInOnePlace
  <2>7. CASE UNCHANGED <<rows, todo>>
    BY <1>2, <2>7 DEF WaitsInOnePlace
  <2> QED
    BY <2>1, <2>2, <2>3, <2>4, <2>5, <2>6, <2>7, GiveUpForms
       DEF Step, Progress, Failure, Coordinator, Reconnect, Restart, ExpireClosed, ExpireLive,
           batchVars
<1> QED  BY <1>1, <1>2 DEF WaitsInOnePlace

LEMMA NothingLeftStep ==
  ASSUME TypeOK, NothingLeft, NEW w \in Workers, Step(w)
  PROVE  NothingLeft'
<1>1. ASSUME NEW v \in Workers \ {w}, pc'[v] \notin {"poll", "work"}
      PROVE  batch'[v] = {}
  <2>1. pc'[v] = pc[v] /\ batch'[v] = batch[v]
    BY OthersKeep
  <2> QED  BY <1>1, <2>1 DEF NothingLeft
<1>2. ASSUME pc'[w] \notin {"poll", "work"}
      PROVE  batch'[w] = {}
  <2>1. CASE GiveUp(w)
    BY <2>1 DEF GiveUp, DropBatch, TypeOK
  <2>2. CASE OnAssign(w) \/ OnLost(w) \/ OnRevoke(w) \/ (ReturnBatch(w) /\ BatchCurrent(w))
             \/ Commit(w) \/ Reconnect(w) \/ Restart(w) \/ ConsumeRaises(w)
    BY <1>2, <2>2 DEF OnAssign, OnLost, OnRevoke, ReturnBatch, Commit, Reconnect, Restart,
       ConsumeRaises, Idle, Goto, TypeOK
  <2>3. CASE \/ \E q \in Tables : Consume(w, q) \/ InsertTable(w, q)
             \/ \E s \in Records : SkipInvalid(w, s) \/ Add(w, s)
    BY <1>2, <2>3 DEF Consume, InsertTable, SkipInvalid, Add, IsNext
  <2>4. CASE ExpireClosed(w) \/ ExpireLive(w)
    BY <1>2, <2>4 DEF ExpireClosed, ExpireLive, NothingLeft, batchVars
  <2> QED
    BY <2>1, <2>2, <2>3, <2>4, GiveUpForms DEF Step, Progress, Failure, Coordinator
<1> QED  BY <1>1, <1>2 DEF NothingLeft

-------------------------------------------------------------------------------
(* What a step of w means for the attempts at a record.                        *)

Quiet(w, r) ==
  /\ stored'[r] = stored[r]
  /\ Attempting(w, r)' => Attempting(w, r)
  /\ Covers(w, r) => Covers(w, r)' \/ r[2] < committed'[r[1]]
Yields(w, r) == stored'[r] = stored[r] /\ Attempting(w, r) /\ ~Attempting(w, r)'
Takes(w, r) == stored'[r] = stored[r] /\ NoOne \in Attempts(r) /\ Covers(w, r)'
Fails(w, r) ==
  faults' = faults + 1 /\ stored'[r] = stored[r] /\ (Attempting(w, r)' => Attempting(w, r))
Inserts(w, r) ==
  /\ stored'[r] = stored[r] + 1 /\ Attempting(w, r) /\ ~Attempting(w, r)'
  /\ faults' = faults + 1 \/ (Covers(w, r) => Covers(w, r)')

Outcome(w, r) ==
  Quiet(w, r) \/ Yields(w, r) \/ Takes(w, r) \/ Fails(w, r) \/ Inserts(w, r)

LEMMA OthersAttempt ==
  ASSUME TypeOK, SinkInvariant, NEW w \in Workers, Step(w), NEW v \in Workers \ {w},
         NEW r \in Records
  PROVE  /\ Attempting(v, r)' => Attempting(v, r)
         /\ Covers(v, r)' <=> Covers(v, r)
<1>1. /\ pc'[v] = pc[v] /\ assigned'[v] = assigned[v] /\ position'[v] = position[v]
      /\ batch'[v] = batch[v] /\ stale'[v] = stale[v] /\ todo'[v] = todo[v]
      /\ rows'[v] = rows[v]
  BY OthersKeep
<1>2. r[1] \in Tables /\ r[2] \in Int
  BY SinkAssumption DEF Records, Offsets
<1>3. holder'[r[1]] = v <=> holder[r[1]] = v
  BY <1>2, OthersKeep, HoldersKeep
<1>4. committed[r[1]] <= committed'[r[1]]
  BY <1>2, OffsetsGrow
<1>5. committed[r[1]] \in Int /\ committed'[r[1]] \in Int
  <2>1. TypeOK'
    BY TypeStep DEF Next, Step
  <2> QED  BY <1>2, <2>1, SinkAssumption DEF TypeOK
<1>6. NextOffset(v, r[1])' <= r[2] => NextOffset(v, r[1]) <= r[2]
  BY <1>1, <1>2, <1>4, <1>5 DEF NextOffset
<1>7. Attempting(v, r)' => Attempting(v, r)
  BY <1>1, <1>6 DEF Attempting
<1>8. ASSUME holder[r[1]] = v
      PROVE  Attempting(v, r)' <=> Attempting(v, r)
  <2>1. committed'[r[1]] = committed[r[1]]
    BY <1>2, <1>8, HolderCommits
  <2> QED  BY <1>1, <2>1 DEF Attempting, NextOffset
<1> QED  BY <1>1, <1>3, <1>7, <1>8 DEF Covers

(* A worker that gives up has no attempts left.                                *)
LEMMA GiveUpEnds ==
  ASSUME TypeOK, SinkInvariant, NEW w \in Workers, GiveUp(w), NEW r \in Records
  PROVE  ~Attempting(w, r)'
<1>1. r[1] \in Tables
  BY DEF Records
<1>2. assigned'[w] = {} /\ batch'[w] = {} /\ todo'[w] = {}
  BY DEF GiveUp, DropBatch, Disconnect, TypeOK
<1>3. rows'[w][r[1]] = {}
  BY <1>1 DEF GiveUp, NoRows, SinkInvariant, NoRowOutlivesItsBatch
<1> QED  BY <1>2, <1>3 DEF Attempting

LEMMA GiveUpOutcome ==
  ASSUME TypeOK, SinkInvariant, ReplayBase, NEW w \in Workers, NEW r \in Records,
         \/ FetchFails(w) \/ CommitTimesOut(w) \/ Crash(w) \/ CommitLost(w)
         \/ ReturnBatch(w) /\ ~BatchCurrent(w)
         \/ \E t \in Tables : InsertTableRaises(w, t)
         \/ \E s \in Records : AddRaises(w, s)
  PROVE  Outcome(w, r)
<1>1. ~Attempting(w, r)'
  BY GiveUpForms, GiveUpEnds
<1>2. r[1] \in Tables /\ stored[r] \in Nat
  BY DEF Records, TypeOK
<1>3. CASE FetchFails(w) \/ CommitTimesOut(w)
  BY <1>1, <1>3 DEF FetchFails, CommitTimesOut, Fault, Outcome, Fails
<1>4. CASE ReturnBatch(w) /\ ~BatchCurrent(w)
  BY <1>1, <1>4 DEF ReturnBatch, Outcome, Yields, Quiet, Covers
<1>5. CASE CommitLost(w)
  <2>1. BatchCurrent(w) /\ stored' = stored
    BY <1>5 DEF CommitLost, ReadyToCommit, SinkInvariant, WorkInBatch
  <2>2. ~IsCurrentMember(w)
    BY <1>5, <2>1 DEF CommitLost
  <2>3. ~(r[1] \in assigned[w] /\ holder[r[1]] = w)
    BY <2>2 DEF IsCurrentMember, ReplayBase, ExpelledFromAll
  <2> QED  BY <1>1, <2>1, <2>3 DEF Outcome, Yields, Quiet, Covers
<1>6. ASSUME NEW inserted, Put(inserted) \/ UNCHANGED stored, faults' = faults + 1,
             r \in inserted => Attempting(w, r)
      PROVE  Outcome(w, r)
  BY <1>1, <1>2, <1>6 DEF Put, Outcome, Inserts, Fails
<1>7. ASSUME NEW t \in Tables, InsertTableRaises(w, t)
      PROVE  Outcome(w, r)
  <2>1. r \in rows[w][t] => Attempting(w, r)
    BY DEF Attempting, ReplayBase, WaitsInOnePlace
  <2> QED  BY <1>6, <1>7, <2>1 DEF InsertTableRaises, InsertRaises, Fault
<1>8. ASSUME NEW s \in Records, AddRaises(w, s)
      PROVE  Outcome(w, r)
  <2>1. s[1] \in Tables /\ s \in todo[w]
    BY <1>8 DEF AddRaises, IsNext, Records
  <2>2. r \in rows[w][s[1]] \cup {s} => Attempting(w, r)
    BY <2>1 DEF Attempting, ReplayBase, WaitsInOnePlace
  <2> QED  BY <1>6, <1>8, <2>2 DEF AddRaises, InsertRaises, Fault
<1>9. CASE Crash(w)
  <2>1. PICK flushed \in SUBSET Tables : Put(UNION {rows[w][t] : t \in flushed})
    BY <1>9 DEF Crash
  <2>2. r \in UNION {rows[w][t] : t \in flushed} => Attempting(w, r)
    BY DEF Attempting, ReplayBase, WaitsInOnePlace
  <2> QED  BY <1>6, <1>9, <2>1, <2>2 DEF Crash, Fault
<1> QED  BY <1>3, <1>4, <1>5, <1>7, <1>8, <1>9

LEMMA CallbackOutcome ==
  ASSUME TypeOK, SinkInvariant, ReplayBase, NEW w \in Workers, NEW r \in Records,
         OnAssign(w) \/ OnLost(w) \/ OnRevoke(w)
  PROVE  Outcome(w, r)
<1>1. r[1] \in Tables /\ r[2] \in Int /\ w # NoOne
  BY SinkAssumption DEF Records, Offsets
<1>2. /\ pc[w] = "poll" /\ stored' = stored
      /\ stale'[w] = (batch[w] # {}) /\ batch' = batch /\ todo' = todo /\ rows' = rows
  BY DEF OnAssign, OnLost, OnRevoke, NewEpoch, Idle, TypeOK
<1>3. r \notin todo[w] /\ r \notin rows[w][r[1]]
  BY <1>1, <1>2 DEF SinkInvariant, WorkInBatch, NoRowOutlivesItsBatch
<1>4. Covers(w, r) => Attempting(w, r)
  BY <1>2 DEF Covers
<1>5. CASE OnLost(w) \/ OnRevoke(w)
  <2>1. assigned'[w] = {}
    BY <1>5 DEF OnLost, OnRevoke, TypeOK
  <2>2. ~Attempting(w, r)'
    BY <1>2, <1>3, <2>1 DEF Attempting
  <2> QED  BY <1>2, <1>4, <2>2 DEF Outcome, Yields, Quiet
<1>6. CASE OnAssign(w)
  <2>1. PICK topics \in SUBSET Free \ {{}} :
          /\ assigned' = [assigned EXCEPT ![w] = topics]
          /\ holder' = [t \in Tables |-> IF t \in topics THEN w ELSE holder[t]]
    BY <1>6 DEF OnAssign
  <2>2. assigned[w] = {} /\ assigned'[w] = topics /\ UNCHANGED <<position, committed>>
    BY <1>6, <2>1 DEF OnAssign, Idle, TypeOK
  <2>3. position[w][r[1]] = Unset
    BY <1>1, <2>2 DEF SinkInvariant, PositionsAssigned
  <2>4. ~Covers(w, r)
    BY <2>2 DEF Covers
  <2>5. Attempting(w, r)' <=> r[1] \in topics /\ committed[r[1]] <= r[2]
    BY <1>2, <1>3, <2>2, <2>3 DEF Attempting, NextOffset
  <2>6. CASE r[1] \in topics /\ committed[r[1]] <= r[2]
    <3>1. holder[r[1]] = NoOne /\ holder'[r[1]] = w
      BY <1>1, <2>1, <2>6 DEF Free
    <3>2. \A v \in Workers : ~Covers(v, r)
      BY <3>1, SinkAssumption DEF Covers
    <3>3. NoOne \in Attempts(r)
      BY <2>6, <3>2 DEF Attempts, Due
    <3>4. Covers(w, r)'
      BY <2>2, <2>5, <2>6, <3>1 DEF Covers
    <3> QED  BY <1>2, <3>3, <3>4 DEF Outcome, Takes
  <2>7. CASE ~(r[1] \in topics /\ committed[r[1]] <= r[2])
    BY <1>2, <2>4, <2>5, <2>7 DEF Outcome, Quiet
  <2> QED  BY <2>6, <2>7
<1> QED  BY <1>5, <1>6

LEMMA FetchOutcome ==
  ASSUME TypeOK, SinkInvariant, ReplayBase, NEW w \in Workers, NEW r \in Records,
         \/ \E q \in Tables : Consume(w, q)
         \/ ReturnBatch(w) /\ BatchCurrent(w)
         \/ ConsumeRaises(w)
  PROVE  Outcome(w, r)
<1>1. r[1] \in Tables /\ r[2] \in Int /\ r = <<r[1], r[2]>>
  BY SinkAssumption DEF Records, Offsets
<1>2. ASSUME NEW q \in Tables, Consume(w, q)
      PROVE  Outcome(w, r)
  <2>1. /\ pc[w] = "poll" /\ UNCHANGED <<pc, assigned, holder, stale, todo, rows, committed, stored>>
        /\ batch'[w] = batch[w] \cup {<<q, NextOffset(w, q)>>}
        /\ position' = [position EXCEPT ![w][q] = NextOffset(w, q) + 1]
        /\ q \in assigned[w]
    BY <1>2 DEF Consume, Fetchable, TypeOK
  <2>2. NextOffset(w, q) \in Nat /\ NextOffset(w, q) + 1 # Unset
    BY <1>2, NextOffsetType, SinkAssumption DEF Consume, Offsets, Unset
  <2>3. NextOffset(w, q)' = NextOffset(w, q) + 1
    BY <2>1, <2>2 DEF NextOffset, TypeOK
  <2>4. CASE r = <<q, NextOffset(w, q)>>
    <3>1. r[1] = q /\ r[2] = NextOffset(w, q)
      BY <2>4
    <3>2. Attempting(w, r)
      BY <2>1, <2>2, <3>1 DEF Attempting
    <3>3. CASE stale[w]
      <4>1. ~(NextOffset(w, r[1])' <= r[2])
        BY <2>2, <2>3, <3>1
      <4>2. r \notin todo[w] /\ r \notin rows[w][r[1]]
        BY <1>1, <2>1 DEF SinkInvariant, WorkInBatch, NoRowOutlivesItsBatch
      <4>3. ~Attempting(w, r)'
        BY <2>1, <3>3, <4>1, <4>2 DEF Attempting
      <4> QED  BY <2>1, <3>2, <4>3 DEF Outcome, Yields
    <3>4. CASE ~stale[w]
      <4>1. Attempting(w, r)'
        BY <2>1, <2>4, <3>4 DEF Attempting
      <4> QED  BY <2>1, <3>2, <4>1 DEF Outcome, Quiet, Covers
    <3> QED  BY <3>3, <3>4
  <2>5. CASE r # <<q, NextOffset(w, q)>>
    <3>1. NextOffset(w, r[1])' <= r[2] <=> NextOffset(w, r[1]) <= r[2]
      <4>1. CASE r[1] = q
        BY <1>1, <2>2, <2>3, <2>5, <4>1
      <4>2. CASE r[1] # q
        BY <1>1, <2>1, <4>2 DEF NextOffset, TypeOK
      <4> QED  BY <4>1, <4>2
    <3>2. Attempting(w, r)' <=> Attempting(w, r)
      BY <2>1, <2>5, <3>1 DEF Attempting
    <3> QED  BY <2>1, <3>2 DEF Outcome, Quiet, Covers
  <2> QED  BY <2>4, <2>5
<1>3. CASE ReturnBatch(w) /\ BatchCurrent(w)
  <2>1. /\ pc[w] = "poll" /\ pc'[w] = "work" /\ todo'[w] = batch[w] /\ ~stale[w]
        /\ UNCHANGED <<assigned, position, holder, batch, stale, rows, committed, stored>>
    BY <1>3 DEF ReturnBatch, BatchCurrent, Goto, assignmentVars, TypeOK
  <2>2. r \notin todo[w]
    BY <2>1 DEF SinkInvariant, WorkInBatch
  <2>3. Attempting(w, r)' <=> Attempting(w, r)
    BY <2>1, <2>2 DEF Attempting, NextOffset
  <2> QED  BY <2>1, <2>3 DEF Outcome, Quiet, Covers
<1>4. CASE ConsumeRaises(w)
  <2>1. /\ UNCHANGED <<pc, assigned, holder, rows, committed, stored>> /\ faults' = faults + 1
        /\ batch'[w] = {} /\ todo'[w] = {}
    BY <1>4 DEF ConsumeRaises, DropBatch, Fault, TypeOK
  <2>2. \/ position'[w][r[1]] = position[w][r[1]]
        \/ NextOffset(w, r[1]) < position'[w][r[1]]
    BY <1>1, <1>4, FetchedInVainForm DEF ConsumeRaises
  <2>3. position'[w][r[1]] \in Int /\ NextOffset(w, r[1]) \in Int /\ committed[r[1]] \in Int
    BY <1>1, <1>4, FetchedInVainForm, SinkAssumption DEF ConsumeRaises, NextOffset, TypeOK, Unset
  <2>4. NextOffset(w, r[1])' <= r[2] => NextOffset(w, r[1]) <= r[2]
    <3>1. CASE position'[w][r[1]] = position[w][r[1]]
      BY <2>1, <3>1 DEF NextOffset
    <3>2. CASE NextOffset(w, r[1]) < position'[w][r[1]]
      <4>1. NextOffset(w, r[1]) # Unset /\ NextOffset(w, r[1]) >= 0
        BY <1>1, SinkAssumption DEF NextOffset, TypeOK, Unset
      <4>2. NextOffset(w, r[1])' = position'[w][r[1]]
        BY <2>3, <3>2, <4>1 DEF NextOffset, Unset
      <4> QED  BY <1>1, <2>3, <3>2, <4>2
    <3> QED  BY <2>2, <3>1, <3>2
  <2>5. Attempting(w, r)' => Attempting(w, r)
    BY <2>1, <2>4 DEF Attempting
  <2> QED  BY <2>1, <2>5 DEF Outcome, Fails
<1> QED  BY <1>2, <1>3, <1>4

LEMMA WorkOutcome ==
  ASSUME TypeOK, SinkInvariant, ReplayBase, NEW w \in Workers, NEW r \in Records,
         \/ \E s \in Records : SkipInvalid(w, s) \/ Add(w, s)
         \/ \E q \in Tables : InsertTable(w, q)
  PROVE  Outcome(w, r)
<1>1. r[1] \in Tables /\ r[2] \in Int /\ stored[r] \in Nat
  BY SinkAssumption DEF Records, Offsets, TypeOK
<1>2. /\ pc[w] = "work" /\ UNCHANGED <<pc, assigned, position, holder, batch, stale, committed>>
  BY DEF SkipInvalid, Add, InsertTable, IsNext, assignmentVars
<1>3. todo[w] \subseteq batch[w] /\ rows[w][r[1]] \subseteq batch[w] /\ ~stale[w]
  BY <1>1, <1>2 DEF SinkInvariant, WorkInBatch, NoRowOutlivesItsBatch, BatchCurrent
<1>4. ASSUME r \in batch[w]
      PROVE  ~(NextOffset(w, r[1]) <= r[2])
  <2>1. position[w][r[1]] # Unset /\ r[2] < position[w][r[1]] /\ position[w][r[1]] \in Int
    BY <1>1, <1>3, <1>4, SinkAssumption DEF ReplayBase, PositionBehindBatch, TypeOK, Unset
  <2> QED  BY <1>1, <2>1 DEF NextOffset
<1>5. NextOffset(w, r[1])' = NextOffset(w, r[1])
  BY <1>2 DEF NextOffset
(* A record of the batch stays covered by its holder.                          *)
<1>6. ASSUME Attempting(w, r)' => Attempting(w, r),
             Attempting(w, r) => Attempting(w, r)' \/ r \in batch[w]
      PROVE  Covers(w, r) => Covers(w, r)'
  BY <1>2, <1>6 DEF Covers
<1>7. ASSUME NEW s \in Records, SkipInvalid(w, s)
      PROVE  Outcome(w, r)
  <2>1. todo'[w] = todo[w] \ {s} /\ UNCHANGED <<rows, stored>>
    BY <1>7 DEF SkipInvalid, TypeOK
  <2>2. Attempting(w, r)' => Attempting(w, r)
    BY <1>2, <1>5, <2>1 DEF Attempting
  <2>3. Attempting(w, r) => Attempting(w, r)' \/ r \in batch[w]
    BY <1>2, <1>3, <1>5, <2>1 DEF Attempting
  <2> QED  BY <1>6, <2>1, <2>2, <2>3 DEF Outcome, Quiet
<1>8. ASSUME NEW s \in Records, Add(w, s)
      PROVE  Outcome(w, r)
  <2> DEFINE pending == rows[w][s[1]] \cup {s}
  <2>1. s[1] \in Tables /\ s \in todo[w] /\ todo'[w] = todo[w] \ {s}
    BY <1>8 DEF Add, IsNext, Records, TypeOK
  <2>2. CASE rows' = [rows EXCEPT ![w][s[1]] = pending] /\ UNCHANGED stored
    <3>1. rows'[w][r[1]] = IF r[1] = s[1] THEN pending ELSE rows[w][r[1]]
      BY <1>1, <2>1, <2>2 DEF TypeOK
    <3>2. r \in todo'[w] \/ r \in rows'[w][r[1]] <=> r \in todo[w] \/ r \in rows[w][r[1]]
      BY <2>1, <3>1
    <3>3. Attempting(w, r)' <=> Attempting(w, r)
      BY <1>2, <1>5, <3>2 DEF Attempting
    <3> QED  BY <1>6, <2>2, <3>3 DEF Outcome, Quiet
  <2>3. CASE rows' = [rows EXCEPT ![w][s[1]] = {}] /\ Put(pending)
    <3>1. rows'[w][r[1]] = IF r[1] = s[1] THEN {} ELSE rows[w][r[1]]
      BY <1>1, <2>1, <2>3 DEF TypeOK
    <3>2. CASE r \in pending
      <4>1. r[1] = s[1] /\ r \in batch[w] /\ (r # s => r \notin todo[w])
        BY <1>3, <2>1, <3>2 DEF ReplayBase, WaitsInOnePlace
      <4>2. Attempting(w, r)
        BY <2>1, <3>2, <4>1 DEF Attempting
      <4>3. ~Attempting(w, r)'
        BY <1>2, <1>4, <1>5, <2>1, <3>1, <4>1 DEF Attempting
      <4>4. stored'[r] = stored[r] + 1
        BY <2>3, <3>2 DEF Put
      <4> QED  BY <1>6, <4>1, <4>2, <4>3, <4>4 DEF Outcome, Inserts
    <3>3. CASE r \notin pending
      <4>1. stored'[r] = stored[r]
        BY <2>3, <3>3 DEF Put
      <4>2. Attempting(w, r)' <=> Attempting(w, r)
        BY <1>2, <1>5, <2>1, <3>1, <3>3 DEF Attempting
      <4> QED  BY <1>6, <4>1, <4>2 DEF Outcome, Quiet
    <3> QED  BY <3>2, <3>3
  <2> QED  BY <1>8, <2>2, <2>3 DEF Add
<1>9. ASSUME NEW q \in Tables, InsertTable(w, q)
      PROVE  Outcome(w, r)
  <2>1. /\ todo[w] = {} /\ UNCHANGED todo /\ Put(rows[w][q])
        /\ rows'[w][r[1]] = IF r[1] = q THEN {} ELSE rows[w][r[1]]
    BY <1>1, <1>9 DEF InsertTable, TypeOK
  <2>2. CASE r \in rows[w][q]
    <3>1. r[1] = q /\ r \in batch[w]
      BY <1>3, <2>2 DEF ReplayBase, WaitsInOnePlace
    <3>2. Attempting(w, r) /\ ~Attempting(w, r)'
      BY <1>2, <1>4, <1>5, <2>1, <2>2, <3>1 DEF Attempting
    <3>3. stored'[r] = stored[r] + 1
      BY <2>1, <2>2 DEF Put
    <3> QED  BY <1>6, <3>1, <3>2, <3>3 DEF Outcome, Inserts
  <2>3. CASE r \notin rows[w][q]
    <3>1. stored'[r] = stored[r]
      BY <2>1, <2>3 DEF Put
    <3>2. Attempting(w, r)' <=> Attempting(w, r)
      BY <1>2, <1>5, <2>1, <2>3 DEF Attempting
    <3> QED  BY <1>6, <3>1, <3>2 DEF Outcome, Quiet
  <2> QED  BY <2>2, <2>3
<1> QED  BY <1>7, <1>8, <1>9

LEMMA OtherOutcome ==
  ASSUME TypeOK, SinkInvariant, ReplayBase, NEW w \in Workers, NEW r \in Records,
         \/ Commit(w) \/ Reconnect(w) \/ Restart(w)
         \/ ExpireClosed(w) \/ ExpireLive(w)
  PROVE  Outcome(w, r)
<1>1. r[1] \in Tables /\ r[2] \in Offsets /\ r = <<r[1], r[2]>> /\ r[2] \in Int
  BY SinkAssumption DEF Records, Offsets
<1>2. CASE Reconnect(w) \/ Restart(w)
  <2>1. /\ pc[w] \notin {"poll", "work"} /\ pc'[w] = "poll"
        /\ UNCHANGED <<assigned, position, holder, batch, stale, todo, rows, committed, stored>>
    BY <1>2 DEF Reconnect, Restart, Goto, assignmentVars, batchVars, TypeOK
  <2>2. batch[w] = {}
    BY <2>1 DEF ReplayBase, NothingLeft
  <2>3. Attempting(w, r)' <=> Attempting(w, r)
    BY <2>1, <2>2 DEF Attempting, NextOffset
  <2> QED  BY <2>1, <2>2, <2>3 DEF Outcome, Quiet, Covers
<1>3. CASE ExpireClosed(w) \/ ExpireLive(w)
  <2>1. UNCHANGED <<pc, assigned, position, batch, stale, todo, rows, committed, stored>>
    BY <1>3 DEF ExpireClosed, ExpireLive, batchVars
  <2>2. Attempting(w, r)' <=> Attempting(w, r)
    BY <2>1 DEF Attempting, NextOffset
  <2>3. ExpireLive(w) => faults' = faults + 1
    BY DEF ExpireLive, Fault
  <2>4. ExpireClosed(w) /\ r[1] \in assigned[w] => holder'[r[1]] = holder[r[1]]
    BY <1>1 DEF ExpireClosed
  <2> QED  BY <1>3, <2>1, <2>2, <2>3, <2>4 DEF Outcome, Quiet, Fails, Covers
<1>4. CASE Commit(w)
  <2>1. /\ pc[w] = "work" /\ todo[w] = {} /\ rows[w] = NoRows /\ BatchCurrent(w)
        /\ pc'[w] = "poll" /\ todo'[w] = {} /\ batch'[w] = {} /\ committed' = OffsetsFor(w)
        /\ UNCHANGED <<assigned, position, holder, rows, stored>>
    BY <1>4 DEF Commit, ReadyToCommit, DropBatch, Goto, assignmentVars, TypeOK
  <2>2. r \in batch[w] => r[2] < committed'[r[1]]
    BY <1>1, <2>1, OffsetsForMax
  <2>3. NextOffset(w, r[1])' = NextOffset(w, r[1])
    <3>1. CASE position[w][r[1]] # Unset
      BY <2>1, <3>1 DEF NextOffset
    <3>2. CASE position[w][r[1]] = Unset
      <4>1. \A o \in Offsets : <<r[1], o>> \notin batch[w]
        BY <2>1, <3>2 DEF BatchCurrent, ReplayBase, PositionBehindBatch
      <4>2. committed'[r[1]] = committed[r[1]]
        BY <1>1, <2>1, <4>1, OffsetsForMax
      <4> QED  BY <2>1, <3>2, <4>2 DEF NextOffset
    <3> QED  BY <3>1, <3>2
  <2>4. r \notin rows[w][r[1]]
    BY <1>1, <2>1 DEF NoRows
  <2>5. Attempting(w, r)' <=> Attempting(w, r)
    BY <2>1, <2>3, <2>4 DEF Attempting
  <2> QED  BY <2>1, <2>2, <2>5 DEF Outcome, Quiet, Covers
<1> QED  BY <1>2, <1>3, <1>4

LEMMA StepOutcome ==
  ASSUME TypeOK, SinkInvariant, ReplayBase, NEW w \in Workers, Step(w), NEW r \in Records
  PROVE  Outcome(w, r)
<1>1. CASE Progress(w)
  BY <1>1, CallbackOutcome, FetchOutcome, GiveUpOutcome, WorkOutcome, OtherOutcome DEF Progress
<1>2. CASE Failure(w)
  BY <1>2, FetchOutcome, GiveUpOutcome DEF Failure
<1>3. CASE Coordinator(w)
  BY <1>3, CallbackOutcome, OtherOutcome DEF Coordinator
<1> QED  BY <1>1, <1>2, <1>3 DEF Step

(* No outcome breaks the account.                                              *)
LEMMA AccountStep ==
  ASSUME TypeOK, SinkInvariant, ReplayBase, NEW w \in Workers, Step(w), NEW r \in Records,
         IsFiniteSet(Attempts(r)), stored[r] + Cardinality(Attempts(r)) <= 1 + faults
  PROVE  IsFiniteSet(Attempts(r)') /\ stored'[r] + Cardinality(Attempts(r)') <= 1 + faults'
<1> DEFINE a == Attempts(r)
           b == Attempts(r)'
<1>0. r[1] \in Tables /\ r[2] \in Int /\ w # NoOne /\ NoOne \notin Workers
  BY SinkAssumption DEF Records, Offsets
<1>1. stored[r] \in Nat /\ faults \in Nat
  BY DEF TypeOK
<1>2. faults' = faults \/ faults' = faults + 1
  BY FaultsCount
<1>3. committed'[r[1]] <= r[2] => committed[r[1]] <= r[2]
  <2>1. TypeOK'
    BY TypeStep DEF Next, Step
  <2>2. committed[r[1]] \in Int /\ committed'[r[1]] \in Int
    BY <1>0, <2>1, SinkAssumption DEF TypeOK
  <2> QED  BY <1>0, <2>2, OffsetsGrow
<1>4. \A v \in Workers \ {w} : /\ Attempting(v, r)' => Attempting(v, r)
                               /\ Covers(v, r)' <=> Covers(v, r)
  BY OthersAttempt
<1>6. /\ \A v \in Workers : (v \in a <=> Attempting(v, r)) /\ (v \in b <=> Attempting(v, r)')
      /\ NoOne \in a <=> Due(r)
      /\ NoOne \in b <=> Due(r)'
      /\ a \subseteq Workers \cup {NoOne} /\ b \subseteq Workers \cup {NoOne}
  BY <1>0 DEF Attempts
<1>7. (Covers(w, r) => Covers(w, r)' \/ r[2] < committed'[r[1]]) => (Due(r)' => Due(r))
  <2> SUFFICES ASSUME Covers(w, r) => Covers(w, r)' \/ r[2] < committed'[r[1]], Due(r)'
               PROVE  Due(r)
    OBVIOUS
  <2>1. committed'[r[1]] <= r[2] /\ \A v \in Workers : ~Covers(v, r)'
    BY DEF Due
  <2>2. ~(r[2] < committed'[r[1]])
    <3>1. TypeOK'
      BY TypeStep DEF Next, Step
    <3> QED  BY <1>0, <2>1, <3>1, SinkAssumption DEF TypeOK
  <2>3. \A v \in Workers : ~Covers(v, r)
    BY <1>4, <2>1, <2>2
  <2> QED  BY <1>3, <2>1, <2>3 DEF Due
<1>8. IsFiniteSet(a) /\ Cardinality(a) \in Nat /\ stored[r] + Cardinality(a) <= 1 + faults
  BY FS_CardinalityType
<1> HIDE DEF a, b
<1> SUFFICES IsFiniteSet(b) /\ stored'[r] + Cardinality(b) <= 1 + faults'
  BY DEF b
<1>9. CASE Quiet(w, r)
  <2>1. b \subseteq a
    BY <1>4, <1>6, <1>7, <1>9 DEF Quiet
  <2>2. IsFiniteSet(b) /\ Cardinality(b) \in Nat /\ Cardinality(b) <= Cardinality(a)
    <3>1. Cardinality(a) <= Cardinality(a)
      BY <1>8
    <3> QED  BY <1>8, <2>1, <3>1, Subset
  <2> QED  BY <1>1, <1>2, <1>8, <1>9, <2>2 DEF Quiet
<1>10. CASE Yields(w, r)
  <2>1. w \in a /\ b \subseteq (a \ {w}) \cup {NoOne}
    BY <1>4, <1>6, <1>10 DEF Yields
  <2>2. IsFiniteSet(b) /\ Cardinality(b) \in Nat /\ Cardinality(b) <= Cardinality(a)
    BY <1>8, <2>1, OneReplaced
  <2> QED  BY <1>1, <1>2, <1>8, <1>10, <2>2 DEF Yields
<1>11. CASE Takes(w, r)
  <2>1. ~Due(r)'
    BY <1>11 DEF Takes, Due
  <2>2. NoOne \in a /\ b \subseteq (a \ {NoOne}) \cup {w}
    BY <1>0, <1>4, <1>6, <1>11, <2>1 DEF Takes, a
  <2>3. IsFiniteSet(b) /\ Cardinality(b) \in Nat /\ Cardinality(b) <= Cardinality(a)
    BY <1>8, <2>2, OneReplaced
  <2> QED  BY <1>1, <1>2, <1>8, <1>11, <2>3 DEF Takes
<1>12. CASE Fails(w, r)
  <2>1. b \subseteq a \cup {NoOne}
    BY <1>4, <1>6, <1>12 DEF Fails
  <2>2. IsFiniteSet(b) /\ Cardinality(b) \in Nat /\ Cardinality(b) <= Cardinality(a) + 1
    BY <1>8, <2>1, OneAdded
  <2> QED  BY <1>1, <1>8, <1>12, <2>2 DEF Fails
<1>13. CASE Inserts(w, r)
  <2>1. CASE faults' = faults + 1
    <3>1. w \in a /\ b \subseteq (a \ {w}) \cup {NoOne}
      BY <1>4, <1>6, <1>13 DEF Inserts
    <3>2. IsFiniteSet(b) /\ Cardinality(b) \in Nat /\ Cardinality(b) <= Cardinality(a)
      BY <1>8, <3>1, OneReplaced
    <3> QED  BY <1>1, <1>8, <1>13, <2>1, <3>2 DEF Inserts
  <2>2. CASE Covers(w, r) => Covers(w, r)'
    <3>1. w \in a /\ b \subseteq a \ {w}
      BY <1>0, <1>4, <1>6, <1>7, <1>13, <2>2 DEF Inserts
    <3>2. IsFiniteSet(b) /\ Cardinality(b) \in Nat /\ Cardinality(b) <= Cardinality(a) - 1
      BY <1>8, <3>1, OneRemoved
    <3> QED  BY <1>1, <1>2, <1>8, <1>13, <3>2 DEF Inserts
  <2> QED  BY <1>13, <2>1, <2>2 DEF Inserts
<1>14. Outcome(w, r)
  BY StepOutcome
<1> QED  BY <1>9, <1>10, <1>11, <1>12, <1>13, <1>14 DEF Outcome

LEMMA ReplayInit == Init => ReplayInvariant
<1> SUFFICES ASSUME Init PROVE ReplayInvariant
  OBVIOUS
<1>1. /\ \A w \in Workers : /\ pc[w] = "poll" /\ assigned[w] = {} /\ batch[w] = {} /\ todo[w] = {}
                            /\ \A t \in Tables : rows[w][t] = {}
      /\ \A r \in Records : stored[r] = 0
      /\ faults = 0
  BY DEF Init, NoRows
<1>2. ASSUME NEW r \in Records
      PROVE  IsFiniteSet(Attempts(r)) /\ stored[r] + Cardinality(Attempts(r)) <= 1 + faults
  <2>1. r[1] \in Tables
    BY DEF Records
  <2>2. \A w \in Workers : ~Attempting(w, r)
    BY <1>1, <2>1 DEF Attempting
  <2>3. Attempts(r) \subseteq {NoOne}
    BY <2>2 DEF Attempts
  <2>4. IsFiniteSet({}) /\ Cardinality({}) = 0
    BY FS_EmptySet
  <2>5. IsFiniteSet(Attempts(r)) /\ Cardinality(Attempts(r)) \in Nat
        /\ Cardinality(Attempts(r)) <= Cardinality({}) + 1
    <3>1. Attempts(r) \subseteq {} \cup {NoOne}
      BY <2>3
    <3> QED  BY <2>4, <3>1, OneAdded
  <2> QED  BY <1>1, <2>4, <2>5
<1> QED
  BY <1>1, <1>2 DEF ReplayInvariant, PositionBehindBatch, ExpelledFromAll, WaitsInOnePlace,
     NothingLeft, AttemptsAccountedFor

LEMMA ReplayStep ==
  ASSUME TypeOK, SinkInvariant, ReplayInvariant, [Next]_vars
  PROVE  ReplayInvariant'
<1>0. ReplayBase
  BY DEF ReplayBase, ReplayInvariant
<1>1. CASE UNCHANGED vars
  <2>1. UNCHANGED <<pc, assigned, position, batch, stale, todo, rows, holder, committed, stored, faults>>
    BY <1>1 DEF vars, assignmentVars, batchVars
  <2>2. PositionBehindBatch' /\ ExpelledFromAll' /\ WaitsInOnePlace' /\ NothingLeft'
    BY <1>0, <2>1 DEF ReplayBase, PositionBehindBatch, ExpelledFromAll, WaitsInOnePlace, NothingLeft
  <2>3. ASSUME NEW r \in Records
        PROVE  Attempts(r)' = Attempts(r)
    <3>1. \A w \in Workers : Attempting(w, r)' <=> Attempting(w, r)
      BY <2>1 DEF Attempting, NextOffset
    <3>2. Due(r)' <=> Due(r)
      BY <2>1, <3>1 DEF Due, Covers
    <3> QED  BY <3>1, <3>2 DEF Attempts
  <2>4. AttemptsAccountedFor'
    BY <2>1, <2>3 DEF ReplayInvariant, AttemptsAccountedFor, Records
  <2> QED  BY <2>2, <2>4 DEF ReplayInvariant
<1>2. ASSUME NEW w \in Workers, Step(w)
      PROVE  ReplayInvariant'
  <2>1. PositionBehindBatch' /\ ExpelledFromAll' /\ WaitsInOnePlace' /\ NothingLeft'
    BY <1>0, <1>2, BehindStep, ExpelledStep, WaitsStep, NothingLeftStep DEF ReplayBase
  <2>2. AttemptsAccountedFor'
    BY <1>0, <1>2, AccountStep DEF ReplayInvariant, AttemptsAccountedFor, Records
  <2> QED  BY <2>1, <2>2 DEF ReplayInvariant
<1> QED  BY <1>1, <1>2 DEF Next, Step

(* A record has one row and at most one more for each failure, whatever the    *)
(* number of workers, rebalances and revocations, also where messages raise    *)
(* while they are fetched (monitoring_agent.py:137-235).                       *)
THEOREM OneRowMore == Spec => []OneRowMorePerFault
<1>1. Init => ReplayInvariant
  BY ReplayInit
<1>2. (TypeOK /\ SinkInvariant) /\ ReplayInvariant /\ [Next]_vars => ReplayInvariant'
  BY ReplayStep
<1>3. TypeOK /\ ReplayInvariant => OneRowMorePerFault
  <2> SUFFICES ASSUME TypeOK, ReplayInvariant, NEW r \in Records
               PROVE  stored[r] <= 1 + faults
    BY DEF OneRowMorePerFault
  <2>1. IsFiniteSet(Attempts(r)) /\ stored[r] + Cardinality(Attempts(r)) <= 1 + faults
    BY DEF ReplayInvariant, AttemptsAccountedFor
  <2>2. Cardinality(Attempts(r)) \in Nat /\ stored[r] \in Nat /\ faults \in Nat
    BY <2>1, FS_CardinalityType DEF TypeOK
  <2> QED  BY <2>1, <2>2
<1> QED  BY <1>1, <1>2, <1>3, SinkInvariantHolds, PTL DEF Spec
=============================================================================
