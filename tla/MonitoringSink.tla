---------------------------- MODULE MonitoringSink ----------------------------
(***************************************************************************)
(* The workers of the monitoring agent                                     *)
(* (src/src/monitoring/monitoring_agent.py, clickhouse_batch_sender.py):   *)
(* each consumes a batch of records from the clickhouse_* topics, hands    *)
(* them one by one to its ClickHouseBatchSender, which inserts the rows of *)
(* a table when it has enough of them, inserts what is left, and commits   *)
(* the batch's offsets.  No Kafka transaction is involved.                 *)
(*                                                                         *)
(* The consumer handler is the one of TransactionalStage, seen from        *)
(* further away: of the assignment epochs only the difference between a    *)
(* batch of the current one and any other is kept, and the coordinator     *)
(* may deal out and take back single topics.                               *)
(***************************************************************************)
EXTENDS Integers, FiniteSets, FiniteSetsExt

CONSTANTS Workers,      \* the agent's workers, all in one consumer group
          Tables,       \* the tables; topic and table are one to one
          LogLength,    \* records in each topic
          BatchSize,    \* MONITORING_CONSUMER_BATCH_SIZE
          TableBatch,   \* max_batch_size: rows of a table inserted at once
          Invalid,      \* records that do not match their table's schema
          FetchRaises,  \* messages with a permanent error do occur
          NoOne,        \* the holder of a topic that is not assigned
          MaxFaults,    \* bound: failures the environment may inject
          MaxRevokes    \* bound: assignments taken back in order

ASSUME SinkAssumption ==
  /\ LogLength \in Nat
  /\ BatchSize \in Nat \ {0}
  /\ TableBatch \in Nat \ {0}
  /\ Invalid \subseteq Tables \X (0 .. LogLength - 1)
  /\ FetchRaises \in BOOLEAN
  /\ NoOne \notin Workers
  /\ MaxFaults \in Nat
  /\ MaxRevokes \in Nat

VARIABLES
  pc,         \* where the worker's loop stands
  assigned,   \* the topics the consumer believes it holds
  position,   \* the next offset it will fetch, Unset before the first fetch
  batch,      \* source_records: the records of the batch
  stale,      \* one of them was fetched before the last assignment callback
  todo,       \* the records of the batch not yet handed to the sender
  rows,       \* ClickHouseBatchSender.batch: rows waiting, per table
  holder,     \* the worker the group coordinator takes for a topic's holder
  committed,  \* the group's committed offsets
  stored,     \* ClickHouse: rows inserted for a record
  faults,     \* failures injected so far
  revokes     \* assignments taken back so far

batchVars == <<batch, stale, todo, rows>>
assignmentVars == <<assigned, position, holder>>
vars == <<pc, assignmentVars, batchVars, committed, stored, faults, revokes>>

Unset == -1

Offsets == 0 .. LogLength - 1
Records == Tables \X Offsets

Steps == {"poll", "work", "outage", "down"}

NoPosition == [t \in Tables |-> Unset]
NoRows == [t \in Tables |-> {}]

TypeOK ==
  /\ pc \in [Workers -> Steps]
  /\ assigned \in [Workers -> SUBSET Tables]
  /\ position \in [Workers -> [Tables -> 0 .. LogLength \cup {Unset}]]
  /\ batch \in [Workers -> SUBSET Records]
  /\ stale \in [Workers -> BOOLEAN]
  /\ todo \in [Workers -> SUBSET Records]
  /\ rows \in [Workers -> [Tables -> SUBSET Records]]
  /\ holder \in [Tables -> Workers \cup {NoOne}]
  /\ committed \in [Tables -> 0 .. LogLength]
  /\ stored \in [Records -> Nat]
  /\ faults \in Nat
  /\ revokes \in Nat

(* Every worker has connected to ClickHouse and then subscribed.               *)
Init ==
  /\ pc = [w \in Workers |-> "poll"]
  /\ assigned = [w \in Workers |-> {}]
  /\ position = [w \in Workers |-> NoPosition]
  /\ batch = [w \in Workers |-> {}]
  /\ stale = [w \in Workers |-> FALSE]
  /\ todo = [w \in Workers |-> {}]
  /\ rows = [w \in Workers |-> NoRows]
  /\ holder = [t \in Tables |-> NoOne]
  /\ committed = [t \in Tables |-> 0]
  /\ stored = [r \in Records |-> 0]
  /\ faults = 0
  /\ revokes = 0

-------------------------------------------------------------------------------
(* Conditions and helpers.                                                     *)

Fault == faults < MaxFaults /\ faults' = faults + 1

Goto(w, step) == pc' = [pc EXCEPT ![w] = step]

(* The coordinator accepts this consumer's member id and generation.           *)
IsCurrentMember(w) == assigned[w] # {} /\ \A t \in assigned[w] : holder[t] = w

(* Seeded fault: any batch passes for one of the current assignment.           *)
AnyBatchCurrent(w) == TRUE

(* ensure_batch_assignment_current                                             *)
BatchCurrent(w) == ~stale[w] /\ {r[1] : r \in batch[w]} \subseteq assigned[w]

(* Topics nobody holds, and workers the coordinator could give them to.        *)
Free == {t \in Tables : holder[t] = NoOne}
Idle(w) == pc[w] = "poll" /\ assigned[w] = {}

NextOffset(w, t) == IF position[w][t] = Unset THEN committed[t] ELSE position[w][t]

Fetchable(w, t) == t \in assigned[w] /\ NextOffset(w, t) < LogLength

(* Seeded fault: the offset after the next one.                                *)
OffsetsForTooFar(w) ==
  [t \in Tables |->
     LET next == {r[2] + 2 : r \in {s \in batch[w] : s[1] = t}}
     IN  IF next = {} THEN committed[t] ELSE Max(next)]

(* Seeded fault: the offset of the last record instead of the next one.        *)
OffsetsForLast(w) ==
  [t \in Tables |->
     LET last == {r[2] : r \in {s \in batch[w] : s[1] = t}}
     IN  IF last = {} THEN committed[t] ELSE Max(last)]

(* offsets_for, on top of the offsets committed before.                        *)
OffsetsFor(w) ==
  [t \in Tables |->
     LET next == {r[2] + 1 : r \in {s \in batch[w] : s[1] = t}}
     IN  IF next = {} THEN committed[t] ELSE Max(next)]

(* ClickHouse takes the rows.                                                  *)
Put(inserted) ==
  stored' = [r \in Records |-> IF r \in inserted THEN stored[r] + 1 ELSE stored[r]]

(* The batch's records are dropped, or done with.                              *)
DropBatch(w) ==
  /\ batch' = [batch EXCEPT ![w] = {}]
  /\ stale' = [stale EXCEPT ![w] = FALSE]
  /\ todo' = [todo EXCEPT ![w] = {}]

(* Seeded fault: rows still waiting outlive the batch they belong to.          *)
DropBatchOnly(w) == DropBatch(w) /\ UNCHANGED rows

(* discard_all, when the batch is given up.                                    *)
DiscardAll(w) == DropBatch(w) /\ rows' = [rows EXCEPT ![w] = NoRows]

(* disconnect_for_recovery.  A failed close is only logged, and the instance   *)
(* then stays in the group until its session expires.                          *)
Disconnect(w) ==
  /\ assigned' = [assigned EXCEPT ![w] = {}]
  /\ position' = [position EXCEPT ![w] = NoPosition]
  /\ \/ holder' = [t \in Tables |-> IF t \in assigned[w] /\ holder[t] = w
                                      THEN NoOne ELSE holder[t]]
     \/ UNCHANGED holder

(* An assignment callback: what the batch holds so far is of an earlier epoch. *)
NewEpoch(w) == stale' = [stale EXCEPT ![w] = batch[w] # {}]

-------------------------------------------------------------------------------
(* The consumer, inside consume_batch.                                         *)

(* _on_assign: the coordinator leaves no topic unassigned if it can.           *)
OnAssign(w) ==
  /\ Idle(w)
  /\ \E topics \in SUBSET Free \ {{}} :
       /\ topics = Free \/ \E v \in Workers \ {w} : Idle(v)
       /\ assigned' = [assigned EXCEPT ![w] = topics]
       /\ holder' = [t \in Tables |-> IF t \in topics THEN w ELSE holder[t]]
  /\ NewEpoch(w)
  /\ UNCHANGED <<pc, position, batch, todo, rows, committed, stored, faults, revokes>>

(* _on_revoke: a new generation is due because a topic is free and nobody idle *)
(* to take it, or for reasons of the coordinator's.                            *)
OnRevoke(w) ==
  /\ pc[w] = "poll"
  /\ IsCurrentMember(w)
  /\ \/ Free # {} /\ (\A v \in Workers : ~Idle(v)) /\ UNCHANGED revokes
     \/ revokes < MaxRevokes /\ revokes' = revokes + 1
  /\ assigned' = [assigned EXCEPT ![w] = {}]
  /\ position' = [position EXCEPT ![w] = NoPosition]
  /\ holder' = [t \in Tables |-> IF t \in assigned[w] THEN NoOne ELSE holder[t]]
  /\ NewEpoch(w)
  /\ UNCHANGED <<pc, batch, todo, rows, committed, stored, faults>>

(* _on_lost: the group has already expelled this instance.                     *)
OnLost(w) ==
  /\ pc[w] = "poll"
  /\ assigned[w] # {}
  /\ ~IsCurrentMember(w)
  /\ assigned' = [assigned EXCEPT ![w] = {}]
  /\ position' = [position EXCEPT ![w] = NoPosition]
  /\ NewEpoch(w)
  /\ UNCHANGED <<pc, holder, batch, todo, rows, committed, stored, faults, revokes>>

(* One record added by the loop of consume_batch.                              *)
Consume(w, t) ==
  /\ pc[w] = "poll"
  /\ Cardinality(batch[w]) < BatchSize
  /\ Fetchable(w, t)
  /\ batch' = [batch EXCEPT ![w] = @ \cup {<<t, NextOffset(w, t)>>}]
  /\ position' = [position EXCEPT ![w][t] = NextOffset(w, t) + 1]
  /\ UNCHANGED <<pc, assigned, holder, stale, todo, rows, committed, stored, faults,
                 revokes>>

(* The loop ends with records in hand: they are returned, or dropped with the  *)
(* consumer if an assignment callback came between them.                       *)
ReturnBatch(w) ==
  /\ pc[w] = "poll"
  /\ batch[w] # {}
  /\ IF BatchCurrent(w)
       THEN /\ Goto(w, "work")
            /\ todo' = [todo EXCEPT ![w] = batch[w]]
            /\ UNCHANGED <<assignmentVars, batch, stale, rows>>
       ELSE /\ DropBatch(w)
            /\ Disconnect(w)
            /\ UNCHANGED <<pc, rows>>
  /\ UNCHANGED <<committed, stored, faults, revokes>>

(* consume raised, or returned a membership error: _reset_consumer, no batch.  *)
FetchFails(w) ==
  /\ pc[w] = "poll"
  /\ Fault
  /\ DropBatch(w)
  /\ Disconnect(w)
  /\ UNCHANGED <<pc, rows, committed, stored, revokes>>

(* Records that consume has handed out but that reached no batch.              *)
FetchedInVain(w) ==
  \E later \in [Tables -> 0 .. LogLength \cup {Unset}] :
    /\ \A t \in Tables :
         later[t] = position[w][t] \/ (Fetchable(w, t) /\ NextOffset(w, t) < later[t])
    /\ Cardinality({r \in Records : NextOffset(w, r[1]) <= r[2] /\ r[2] < later[r[1]]})
         <= BatchSize - Cardinality(batch[w])
    /\ position' = [position EXCEPT ![w] = later]

(* _record_from_message raises; the loop of run logs it and polls on with the  *)
(* same consumer, without the records of this batch.                           *)
ConsumeRaises(w) ==
  /\ FetchRaises
  /\ pc[w] = "poll"
  /\ Cardinality(batch[w]) < BatchSize
  /\ Fault
  /\ DropBatch(w)
  /\ FetchedInVain(w)
  /\ UNCHANGED <<pc, assigned, holder, rows, committed, stored, revokes>>

-------------------------------------------------------------------------------
(* The body of run: every record to the sender, then insert_all, then commit.  *)

(* r is the next record of its topic that the worker hands over.               *)
IsNext(w, r) ==
  /\ pc[w] = "work"
  /\ r \in todo[w]
  /\ \A s \in todo[w] : s[1] = r[1] => r[2] <= s[2]

(* The record does not match its table's schema: it is logged and skipped.     *)
SkipInvalid(w, r) ==
  /\ IsNext(w, r)
  /\ r \in Invalid
  /\ todo' = [todo EXCEPT ![w] = @ \ {r}]
  /\ UNCHANGED <<pc, assignmentVars, batch, stale, rows, committed, stored, faults,
                 revokes>>

(* add: the row waits, or completes a batch of its table, which is inserted.   *)
Add(w, r) ==
  LET pending == rows[w][r[1]] \cup {r}
  IN  /\ IsNext(w, r)
      /\ r \notin Invalid
      /\ todo' = [todo EXCEPT ![w] = @ \ {r}]
      /\ IF Cardinality(pending) >= TableBatch
           THEN rows' = [rows EXCEPT ![w][r[1]] = {}] /\ Put(pending)
           ELSE rows' = [rows EXCEPT ![w][r[1]] = pending] /\ UNCHANGED stored
      /\ UNCHANGED <<pc, assignmentVars, batch, stale, committed, faults, revokes>>

(* An insert raises ClickHouseUnavailable, whether or not ClickHouse took the  *)
(* rows; _recover_clickhouse leaves the group and waits.                       *)
InsertRaises(w, pending) ==
  /\ Fault
  /\ Put(pending) \/ UNCHANGED stored
  /\ DiscardAll(w)
  /\ Disconnect(w)
  /\ Goto(w, "outage")
  /\ UNCHANGED <<committed, revokes>>

AddRaises(w, r) ==
  LET pending == rows[w][r[1]] \cup {r}
  IN  /\ IsNext(w, r)
      /\ r \notin Invalid
      /\ Cardinality(pending) >= TableBatch
      /\ InsertRaises(w, pending)

(* insert_all reaches a table with rows left.                                  *)
InsertTable(w, t) ==
  /\ pc[w] = "work"
  /\ todo[w] = {}
  /\ rows[w][t] # {}
  /\ Put(rows[w][t])
  /\ rows' = [rows EXCEPT ![w][t] = {}]
  /\ UNCHANGED <<pc, assignmentVars, batch, stale, todo, committed, faults, revokes>>

InsertTableRaises(w, t) ==
  /\ pc[w] = "work"
  /\ todo[w] = {}
  /\ rows[w][t] # {}
  /\ InsertRaises(w, rows[w][t])

(* recover_connection and reconnect_after_recovery.                            *)
Reconnect(w) ==
  /\ pc[w] = "outage"
  /\ Goto(w, "poll")
  /\ UNCHANGED <<assignmentVars, batchVars, committed, stored, faults, revokes>>

(* Seeded fault: the offsets are committed before the rows are inserted.       *)
ReadyToCommitEarly(w) == pc[w] = "work" /\ todo[w] = {}

ReadyToCommit(w) == pc[w] = "work" /\ todo[w] = {} /\ rows[w] = NoRows

(* The batch's offsets are committed.                                          *)
Commit(w) ==
  /\ ReadyToCommit(w)
  /\ BatchCurrent(w)
  /\ IsCurrentMember(w)
  /\ committed' = OffsetsFor(w)
  /\ DropBatch(w)
  /\ Goto(w, "poll")
  /\ UNCHANGED <<assignmentVars, rows, stored, faults, revokes>>

(* KafkaConsumerMembershipLost: the rows are in ClickHouse, the offsets are    *)
(* not committed; _recover_kafka_commit subscribes a fresh consumer.           *)
CommitLost(w) ==
  /\ ReadyToCommit(w)
  /\ ~BatchCurrent(w) \/ ~IsCurrentMember(w)
  /\ DiscardAll(w)
  /\ Disconnect(w)
  /\ Goto(w, "poll")
  /\ UNCHANGED <<committed, stored, faults, revokes>>

(* KafkaInfrastructureUnavailable: the deadline of retry_with_timeout passed,  *)
(* and the offsets may be committed all the same.                              *)
CommitTimesOut(w) ==
  /\ ReadyToCommit(w)
  /\ Fault
  /\ \/ BatchCurrent(w) /\ IsCurrentMember(w) /\ committed' = OffsetsFor(w)
     \/ UNCHANGED committed
  /\ DiscardAll(w)
  /\ Disconnect(w)
  /\ Goto(w, "poll")
  /\ UNCHANGED <<stored, revokes>>

-------------------------------------------------------------------------------
(* Crash, stop and restart of a worker; the coordinator.                       *)

(* The process is killed, or stopped: then insert_all in the finally clause    *)
(* still inserts rows, of all tables or of those before the one that fails.    *)
Crash(w) ==
  /\ pc[w] # "down"
  /\ Fault
  /\ \E flushed \in SUBSET Tables : Put(UNION {rows[w][t] : t \in flushed})
  /\ DiscardAll(w)
  /\ Disconnect(w)
  /\ Goto(w, "down")
  /\ UNCHANGED <<committed, revokes>>

Restart(w) ==
  /\ pc[w] = "down"
  /\ Goto(w, "poll")
  /\ UNCHANGED <<assignmentVars, batchVars, committed, stored, faults, revokes>>

(* The session of a consumer that was not closed properly expires.             *)
ExpireClosed(w) ==
  /\ \E t \in Tables \ assigned[w] : holder[t] = w
  /\ holder' = [t \in Tables |-> IF holder[t] = w /\ t \notin assigned[w]
                                   THEN NoOne ELSE holder[t]]
  /\ UNCHANGED <<pc, assigned, position, batchVars, committed, stored, faults, revokes>>

(* A live consumer is expelled: max.poll.interval.ms or its session expires.   *)
ExpireLive(w) ==
  /\ IsCurrentMember(w)
  /\ Fault
  /\ holder' = [t \in Tables |-> IF t \in assigned[w] THEN NoOne ELSE holder[t]]
  /\ UNCHANGED <<pc, assigned, position, batchVars, committed, stored, revokes>>

-------------------------------------------------------------------------------

Progress(w) ==
  \/ OnAssign(w) \/ OnLost(w) \/ ReturnBatch(w) \/ Commit(w) \/ CommitLost(w)
  \/ Reconnect(w) \/ Restart(w)
  \/ \E t \in Tables : Consume(w, t) \/ InsertTable(w, t)
  \/ \E r \in Records : SkipInvalid(w, r) \/ Add(w, r)

Failure(w) ==
  \/ FetchFails(w) \/ ConsumeRaises(w) \/ CommitTimesOut(w) \/ Crash(w)
  \/ \E t \in Tables : InsertTableRaises(w, t)
  \/ \E r \in Records : AddRaises(w, r)

Coordinator(w) == OnRevoke(w) \/ ExpireClosed(w) \/ ExpireLive(w)

Next == \E w \in Workers : Progress(w) \/ Failure(w) \/ Coordinator(w)

Spec == Init /\ [][Next]_vars

(* A live worker takes its steps: no call blocks without a timeout, ClickHouse *)
(* comes back and a container is restarted.  The coordinator expires what is   *)
(* dead and deals out what is free.                                            *)
Fairness ==
  \A w \in Workers :
    /\ WF_vars(Progress(w))
    /\ WF_vars(ExpireClosed(w))
    /\ WF_vars(OnRevoke(w) /\ UNCHANGED revokes)

FairSpec == Spec /\ Fairness

-------------------------------------------------------------------------------
(* Properties.                                                                 *)

ALO == INSTANCE AtLeastOnce WITH committed <- committed, stored <- stored

(* Offsets are committed only over records whose rows are in ClickHouse, or    *)
(* that have none: docs/kafka_recovery.rst:165-167 promises at least once      *)
(* through failed inserts, failed commits, expulsion and crashes.              *)
NothingLost == ALO!NothingLost

(* The sink implements that promise step by step; in particular no committed   *)
(* offset ever moves back under a successor (consumer.py:205-250).             *)
ImplementsAtLeastOnce == ALO!Spec

(* Replays are no more frequent than failures: a record has one row and at     *)
(* most one more for each failure, so neither rebalances nor dropped batches   *)
(* insert anything twice (monitoring_agent.py:137-161).                        *)
OneRowMorePerFault == \A r \in Records : stored[r] <= 1 + faults

(* Rows of a batch that was given up never wait in the sender for the insert   *)
(* of a later one (discard_all, clickhouse_batch_sender.py:371-377).           *)
NoRowOutlivesItsBatch ==
  \A w \in Workers : \A t \in Tables :
    /\ rows[w][t] \subseteq batch[w]
    /\ pc[w] # "work" => rows[w][t] = {}

(* Once the failures stop, every record is committed: no recovery path leaves  *)
(* a worker, a topic or a batch stuck.                                         *)
EverythingArrives == <>[](\A t \in Tables : committed[t] = LogLength)
===============================================================================
