-------------------------- MODULE TransactionalStage --------------------------
(***************************************************************************)
(* The workers of one pipeline stage: each owns a consumer handler         *)
(* (src/src/base/kafka/consumer.py) and a transactional producer handler   *)
(* (src/src/base/kafka/producer.py) and repeats                            *)
(*                                                                         *)
(*     consume_batch -> transaction_batch { process each record }          *)
(*                                                                         *)
(* against a broker that runs the consumer group and the transactions.     *)
(* The handlers are translated from the source; the group coordinator, the *)
(* transaction coordinator and the two client libraries are external and   *)
(* modelled by what the handlers observe of them.                          *)
(***************************************************************************)
EXTENDS Integers, FiniteSets, FiniteSetsExt

CONSTANTS Workers,        \* the stage's workers, all in one consumer group
          Partitions,     \* the partitions of the consumed topics
          ProducerIds,    \* transactional ids; a restarted worker takes a new one
          LogLength,      \* records in each partition
          BatchSize,      \* transaction_batch_size
          SwallowErrors,  \* the stage loop catches what processing raises
          MaxFaults,      \* bound: failures the environment may inject
          MaxRebalances   \* bound: rebalances the coordinator may complete

ASSUME StageAssumption ==
  /\ LogLength \in Nat
  /\ BatchSize \in Nat \ {0}
  /\ SwallowErrors \in BOOLEAN
  /\ MaxFaults \in Nat
  /\ MaxRebalances \in Nat

VARIABLES
  \* KafkaConsumeHandler
  pc,           \* where the worker's loop stands
  epoch,        \* _assignment_epoch
  valid,        \* _assignment_valid
  assigned,     \* _assigned_partitions
  batch,        \* the records fetched and not yet settled, with their epoch
  \* the worker's client library
  client,       \* the membership the consumer instance believes it has
  grant,        \* the partitions of its last assignment
  position,     \* the next offset it will fetch, Unset before the first fetch
  pid,          \* the transactional.id of the worker's producer
  \* the group coordinator
  members,      \* workers with an unexpired consumer instance in the group
  joined,       \* members that have asked to join the next generation
  rebalancing,  \* a new generation is being formed
  rebalances,   \* generations formed so far
  committed,    \* the group's committed offsets
  \* the transaction coordinator and the output topics
  txn,          \* the state of each transactional id's transaction
  txnRecords,   \* the source records whose outputs the transaction holds
  txnOffsets,   \* the offsets sent to the transaction, NoOffset if none
  applied,      \* committed transactions holding the outputs of a record
  faults        \* failures injected so far

workerVars == <<pc, epoch, valid, assigned, batch>>
clientVars == <<client, grant, position>>
groupVars == <<members, joined, rebalancing>>
txnVars == <<txn, txnRecords, txnOffsets>>
brokerVars == <<committed, applied>>
vars == <<workerVars, clientVars, pid, groupVars, rebalances, txnVars, brokerVars,
          faults>>

Unset == -1
NoOffset == -1

Offsets == 0 .. LogLength - 1
Records == Partitions \X Offsets
Fetched == [part : Partitions, off : Offsets, epoch : Nat]

Steps == {"down", "connect", "poll", "process", "begin", "offsets", "commit",
          "committing", "abort_lost", "abort_infra", "reset"}
ClientStates == {"none", "joining", "granted", "stable"}
TxnStates == {"empty", "open", "ending", "committed", "aborted"}

NoPosition == [p \in Partitions |-> Unset]
NoOffsets == [p \in Partitions |-> NoOffset]

TypeOK ==
  /\ pc \in [Workers -> Steps]
  /\ epoch \in [Workers -> Nat]
  /\ valid \in [Workers -> BOOLEAN]
  /\ assigned \in [Workers -> SUBSET Partitions]
  /\ batch \in [Workers -> SUBSET Fetched]
  /\ client \in [Workers -> ClientStates]
  /\ grant \in [Workers -> SUBSET Partitions]
  /\ position \in [Workers -> [Partitions -> 0 .. LogLength \cup {Unset}]]
  /\ pid \in [Workers -> ProducerIds]
  /\ members \in SUBSET Workers
  /\ joined \in SUBSET Workers
  /\ rebalancing \in BOOLEAN
  /\ rebalances \in Nat
  /\ committed \in [Partitions -> 0 .. LogLength]
  /\ txn \in [ProducerIds -> TxnStates]
  /\ txnRecords \in [ProducerIds -> SUBSET Records]
  /\ txnOffsets \in [ProducerIds -> [Partitions -> 0 .. LogLength \cup {NoOffset}]]
  /\ applied \in [Records -> Nat]
  /\ faults \in Nat

Init ==
  /\ pc = [w \in Workers |-> "connect"]
  /\ epoch = [w \in Workers |-> 0]
  /\ valid = [w \in Workers |-> FALSE]
  /\ assigned = [w \in Workers |-> {}]
  /\ batch = [w \in Workers |-> {}]
  /\ client = [w \in Workers |-> "none"]
  /\ grant = [w \in Workers |-> {}]
  /\ position = [w \in Workers |-> NoPosition]
  /\ pid \in [Workers -> ProducerIds]
  /\ \A v, w \in Workers : pid[v] = pid[w] => v = w
  /\ members = {}
  /\ joined = {}
  /\ rebalancing = FALSE
  /\ rebalances = 0
  /\ committed = [p \in Partitions |-> 0]
  /\ txn = [i \in ProducerIds |-> "empty"]
  /\ txnRecords = [i \in ProducerIds |-> {}]
  /\ txnOffsets = [i \in ProducerIds |-> NoOffsets]
  /\ applied = [r \in Records |-> 0]
  /\ faults = 0

-------------------------------------------------------------------------------
(* Conditions and helpers.                                                     *)

(* A failure of the environment; the budget bounds how many there are.         *)
Fault == faults < MaxFaults /\ faults' = faults + 1

(* The coordinator accepts this instance's member id and generation.  Every    *)
(* member rejoins before a generation is formed, so an instance that is still  *)
(* in the group and has not given up its assignment holds the current one.     *)
IsCurrentMember(w) == w \in members /\ client[w] = "stable"

(* ensure_batch_assignment_current                                             *)
BatchCurrent(w) ==
  /\ valid[w]
  /\ {m.epoch : m \in batch[w]} = {epoch[w]}
  /\ {m.part : m \in batch[w]} \subseteq assigned[w]

(* Seeded fault: the offset after the next one.                                *)
OffsetsForTooFar(w) ==
  [p \in Partitions |->
     LET next == {m.off + 2 : m \in {r \in batch[w] : r.part = p}}
     IN  IF next = {} THEN NoOffset ELSE Max(next)]

(* offsets_for: the highest next offset of each partition in the batch.        *)
OffsetsFor(w) ==
  [p \in Partitions |->
     LET next == {m.off + 1 : m \in {r \in batch[w] : r.part = p}}
     IN  IF next = {} THEN NoOffset ELSE Max(next)]

SourceRecords(w) == {<<m.part, m.off>> : m \in batch[w]}

(* Offsets are pending for p: isolation.level=read_committed makes the         *)
(* coordinator withhold the committed offset from a consumer that asks.        *)
Pending(i, p) == txn[i] \in {"open", "ending"} /\ txnOffsets[i][p] # NoOffset

(* Seeded fault: isolation.level is left at read_uncommitted.                  *)
UndecidedIgnored(p) == FALSE

Undecided(p) == \E i \in ProducerIds : Pending(i, p)

NextOffset(w, p) == IF position[w][p] = Unset THEN committed[p] ELSE position[w][p]

(* The client can hand out the next record of p.                               *)
Fetchable(w, p) ==
  /\ client[w] = "stable"
  /\ p \in grant[w]
  /\ position[w][p] = Unset => ~Undecided(p)
  /\ NextOffset(w, p) < LogLength

Goto(w, step) == pc' = [pc EXCEPT ![w] = step]

(* _invalidate_assignment                                                      *)
InvalidateAssignment(w) ==
  /\ epoch' = [epoch EXCEPT ![w] = @ + 1]
  /\ valid' = [valid EXCEPT ![w] = FALSE]
  /\ assigned' = [assigned EXCEPT ![w] = {}]

(* The client drops its assignment and stands in membership state c.           *)
DropAssignment(w, c) ==
  /\ client' = [client EXCEPT ![w] = c]
  /\ grant' = [grant EXCEPT ![w] = {}]
  /\ position' = [position EXCEPT ![w] = NoPosition]

(* The coordinator removes a member; those left must form a new generation.    *)
RemoveMember(w) ==
  /\ members' = members \ {w}
  /\ joined' = joined \ {w}
  /\ rebalancing' = (members \ {w} # {})

(* disconnect_for_recovery: close the consumer, forget the assignment and the  *)
(* batch.  A failed close is only logged, and the instance then stays in the   *)
(* group until its session expires.                                            *)
DisconnectForRecovery(w) ==
  /\ InvalidateAssignment(w)
  /\ DropAssignment(w, "none")
  /\ batch' = [batch EXCEPT ![w] = {}]
  /\ \/ w \in members /\ client[w] # "none" /\ RemoveMember(w)
     \/ UNCHANGED groupVars

-------------------------------------------------------------------------------
(* The consumer handler.                                                       *)

(* _connect_consumer.  Attempts that fail are retried for ever and change      *)
(* nothing but the epoch, which no batch can carry here.                       *)
Connect(w) ==
  /\ pc[w] = "connect"
  /\ InvalidateAssignment(w)
  /\ Goto(w, "poll")
  /\ UNCHANGED <<batch, clientVars, pid, groupVars, rebalances, txnVars, brokerVars,
                 faults>>

(* _on_assign, served inside consume: a new epoch begins.                      *)
OnAssign(w) ==
  /\ pc[w] = "poll"
  /\ client[w] = "granted"
  /\ epoch' = [epoch EXCEPT ![w] = @ + 1]
  /\ valid' = [valid EXCEPT ![w] = TRUE]
  /\ assigned' = [assigned EXCEPT ![w] = grant[w]]
  /\ client' = [client EXCEPT ![w] = "stable"]
  /\ UNCHANGED <<pc, batch, grant, position, pid, groupVars, rebalances, txnVars,
                 brokerVars, faults>>

(* Seeded fault: the callback runs on another thread, at any moment.           *)
OnRevokeAnyTime(w) ==
  /\ client[w] = "stable"
  /\ rebalancing
  /\ w \in members \ joined
  /\ InvalidateAssignment(w)
  /\ DropAssignment(w, "joining")
  /\ joined' = joined \cup {w}
  /\ UNCHANGED <<pc, batch, pid, members, rebalancing, rebalances, txnVars,
                 brokerVars, faults>>

(* _on_revoke: the group is forming a new generation; the client gives its     *)
(* partitions back and asks to join.                                           *)
OnRevoke(w) ==
  /\ pc[w] = "poll"
  /\ client[w] = "stable"
  /\ rebalancing
  /\ w \in members \ joined
  /\ InvalidateAssignment(w)
  /\ DropAssignment(w, "joining")
  /\ joined' = joined \cup {w}
  /\ UNCHANGED <<pc, batch, pid, members, rebalancing, rebalances, txnVars,
                 brokerVars, faults>>

(* _on_lost: the group has already expelled this instance.                     *)
OnLost(w) ==
  /\ pc[w] = "poll"
  /\ client[w] = "stable"
  /\ w \notin members
  /\ InvalidateAssignment(w)
  /\ DropAssignment(w, "none")
  /\ UNCHANGED <<pc, batch, pid, groupVars, rebalances, txnVars, brokerVars, faults>>

(* One record added by the loop of consume_batch, stamped with the epoch at    *)
(* which it is converted.                                                      *)
Consume(w, p) ==
  /\ pc[w] = "poll"
  /\ Cardinality(batch[w]) < BatchSize
  /\ Fetchable(w, p)
  /\ batch' = [batch EXCEPT ![w] =
                 @ \cup {[part |-> p, off |-> NextOffset(w, p), epoch |-> epoch[w]]}]
  /\ position' = [position EXCEPT ![w][p] = NextOffset(w, p) + 1]
  /\ UNCHANGED <<pc, epoch, valid, assigned, client, grant, pid, groupVars,
                 rebalances, txnVars, brokerVars, faults>>

(* The loop of consume_batch ends with records in hand: a batch of the current *)
(* assignment is handed to the stage, any other is dropped and the consumer    *)
(* replaced.                                                                   *)
ReturnBatch(w) ==
  /\ pc[w] = "poll"
  /\ batch[w] # {}
  /\ IF BatchCurrent(w)
       THEN /\ Goto(w, "process")
            /\ UNCHANGED <<epoch, valid, assigned, batch, clientVars, groupVars>>
       ELSE /\ Goto(w, "connect")
            /\ DisconnectForRecovery(w)
  /\ UNCHANGED <<pid, rebalances, txnVars, brokerVars, faults>>

(* consume raised, or returned a membership error: _reset_consumer, no batch.  *)
FetchFails(w) ==
  /\ pc[w] = "poll"
  /\ Fault
  /\ DisconnectForRecovery(w)
  /\ Goto(w, "connect")
  /\ UNCHANGED <<pid, rebalances, txnVars, brokerVars>>

(* An exception that reaches the stage's loop: the worker dies with its        *)
(* consumer, unless the loop catches it, and then goes on polling from where   *)
(* its consumer stands.                                                        *)
StageRaises(w) ==
  /\ Fault
  /\ IF SwallowErrors
       THEN /\ Goto(w, "poll")
            /\ batch' = [batch EXCEPT ![w] = {}]
            /\ UNCHANGED <<epoch, valid, assigned, client, grant, groupVars>>
       ELSE /\ Goto(w, "down")
            /\ DisconnectForRecovery(w)
  /\ UNCHANGED <<pid, rebalances, txnVars, brokerVars>>

(* Records that consume has handed out but the loop never got to: they have    *)
(* left the fetch queue when a message before them raises.                     *)
FetchedInVain(w) ==
  \E later \in [Partitions -> 0 .. LogLength \cup {Unset}] :
    /\ \A p \in Partitions :
         later[p] = position[w][p] \/ (Fetchable(w, p) /\ NextOffset(w, p) < later[p])
    /\ Cardinality({r \in Records : NextOffset(w, r[1]) <= r[2] /\ r[2] < later[r[1]]})
         <= BatchSize - Cardinality(batch[w])
    /\ position' = [position EXCEPT ![w] = later]

(* _record_from_message meets a permanent error or a record that does not      *)
(* decode: that record, the ones behind it and the batch so far are dropped.   *)
ConsumeRaises(w) ==
  /\ pc[w] = "poll"
  /\ Cardinality(batch[w]) < BatchSize
  /\ StageRaises(w)
  /\ SwallowErrors => FetchedInVain(w)

-------------------------------------------------------------------------------
(* transaction_batch and _run_transaction.                                     *)

(* The body of the with statement raises; the collected outputs are dropped.   *)
BodyRaises(w) ==
  /\ pc[w] = "process"
  /\ StageRaises(w)
  /\ SwallowErrors => UNCHANGED position

(* The body ends cleanly and the batch is checked once more.                   *)
BodyReturns(w) ==
  /\ pc[w] = "process"
  /\ IF BatchCurrent(w)
       THEN /\ Goto(w, "begin")
            /\ UNCHANGED <<epoch, valid, assigned, batch, clientVars, groupVars>>
       ELSE /\ Goto(w, "connect")
            /\ DisconnectForRecovery(w)
  /\ UNCHANGED <<pid, rebalances, txnVars, brokerVars, faults>>

(* begin_transaction, then every collected record is produced.                 *)
Begin(w) ==
  /\ pc[w] = "begin"
  /\ txn[pid[w]] = "empty"
  /\ txn' = [txn EXCEPT ![pid[w]] = "open"]
  /\ txnRecords' = [txnRecords EXCEPT ![pid[w]] = SourceRecords(w)]
  /\ txnOffsets' = [txnOffsets EXCEPT ![pid[w]] = NoOffsets]
  /\ Goto(w, "offsets")
  /\ UNCHANGED <<epoch, valid, assigned, batch, clientVars, pid, groupVars,
                 rebalances, brokerVars, faults>>

(* begin_transaction fails on a transaction an earlier abort left behind, or   *)
(* one of the produce calls fails with some of the outputs already sent.       *)
BeginFails(w) ==
  /\ pc[w] = "begin"
  /\ \/ txn[pid[w]] # "empty" /\ UNCHANGED <<txnVars, faults>>
     \/ /\ txn[pid[w]] = "empty"
        /\ Fault
        /\ txn' = [txn EXCEPT ![pid[w]] = "open"]
        /\ txnOffsets' = [txnOffsets EXCEPT ![pid[w]] = NoOffsets]
        /\ \E sent \in SUBSET SourceRecords(w) :
             txnRecords' = [txnRecords EXCEPT ![pid[w]] = sent]
  /\ Goto(w, "abort_infra")
  /\ UNCHANGED <<epoch, valid, assigned, batch, clientVars, pid, groupVars,
                 rebalances, brokerVars>>

(* Seeded fault: the offsets are sent without the consumer's group metadata.   *)
OffsetsAcceptedUnfenced(w) ==
  /\ txn[pid[w]] = "open"
  /\ txnOffsets' = [txnOffsets EXCEPT ![pid[w]] = OffsetsFor(w)]

(* send_offsets_to_transaction is accepted.                                    *)
OffsetsAccepted(w) ==
  /\ txn[pid[w]] = "open"
  /\ IsCurrentMember(w)
  /\ txnOffsets' = [txnOffsets EXCEPT ![pid[w]] = OffsetsFor(w)]

SendOffsets(w) ==
  /\ pc[w] = "offsets"
  /\ OffsetsAccepted(w)
  /\ Goto(w, "commit")
  /\ UNCHANGED <<epoch, valid, assigned, batch, clientVars, pid, groupVars,
                 rebalances, txn, txnRecords, brokerVars, faults>>

(* ... is rejected because the group no longer knows this instance.            *)
SendOffsetsFenced(w) ==
  /\ pc[w] = "offsets"
  /\ txn[pid[w]] = "open"
  /\ ~IsCurrentMember(w)
  /\ Goto(w, "abort_lost")
  /\ UNCHANGED <<epoch, valid, assigned, batch, clientVars, pid, groupVars,
                 rebalances, txnVars, brokerVars, faults>>

(* ... fails otherwise: the broker has aborted the transaction, or the answer  *)
(* is lost and the offsets may or may not have been registered.                *)
SendOffsetsFails(w) ==
  /\ pc[w] = "offsets"
  /\ \/ txn[pid[w]] = "aborted" /\ UNCHANGED <<txnOffsets, faults>>
     \/ Fault /\ (OffsetsAccepted(w) \/ UNCHANGED txnOffsets)
  /\ Goto(w, "abort_infra")
  /\ UNCHANGED <<epoch, valid, assigned, batch, clientVars, pid, groupVars,
                 rebalances, txn, txnRecords, brokerVars>>

(* commit_transaction reaches the coordinator ...                              *)
CommitTransaction(w) ==
  /\ pc[w] = "commit"
  /\ txn[pid[w]] = "open"
  /\ txn' = [txn EXCEPT ![pid[w]] = "ending"]
  /\ Goto(w, "committing")
  /\ UNCHANGED <<epoch, valid, assigned, batch, clientVars, pid, groupVars,
                 rebalances, txnRecords, txnOffsets, brokerVars, faults>>

(* ... or fails before it does.                                                *)
CommitFails(w) ==
  /\ pc[w] = "commit"
  /\ \/ txn[pid[w]] = "aborted" /\ UNCHANGED faults
     \/ Fault
  /\ Goto(w, "abort_infra")
  /\ UNCHANGED <<epoch, valid, assigned, batch, clientVars, pid, groupVars,
                 rebalances, txnVars, brokerVars>>

(* commit_transaction returns: the batch is settled.                           *)
CommitReturns(w) ==
  /\ pc[w] = "committing"
  /\ txn[pid[w]] = "committed"
  /\ txn' = [txn EXCEPT ![pid[w]] = "empty"]
  /\ batch' = [batch EXCEPT ![w] = {}]
  /\ Goto(w, "poll")
  /\ UNCHANGED <<epoch, valid, assigned, clientVars, pid, groupVars, rebalances,
                 txnRecords, txnOffsets, brokerVars, faults>>

(* Seeded fault: a commit that timed out is taken for a success.               *)
CommitTimesOutAsSuccess(w) ==
  /\ pc[w] = "committing"
  /\ Fault
  /\ txn' = [txn EXCEPT ![pid[w]] = "empty"]
  /\ batch' = [batch EXCEPT ![w] = {}]
  /\ Goto(w, "poll")
  /\ UNCHANGED <<epoch, valid, assigned, clientVars, pid, groupVars, rebalances,
                 txnRecords, txnOffsets, brokerVars>>

(* commit_transaction raises with the outcome unknown to the worker.           *)
CommitTimesOut(w) ==
  /\ pc[w] = "committing"
  /\ \/ txn[pid[w]] = "aborted" /\ UNCHANGED faults
     \/ Fault
  /\ Goto(w, "abort_infra")
  /\ UNCHANGED <<epoch, valid, assigned, batch, clientVars, pid, groupVars,
                 rebalances, txnVars, brokerVars>>

(* abort_transaction ends the transaction, unless it is already decided; when  *)
(* it fails that is only logged.                                               *)
AbortTransaction(w) ==
  \/ /\ txn[pid[w]] \in {"open", "ending"}
     /\ txn' = [txn EXCEPT ![pid[w]] = "empty"]
     /\ UNCHANGED <<txnRecords, txnOffsets, faults>>
  \/ txn[pid[w]] # "open" /\ UNCHANGED <<txnVars, faults>>
  \/ txn[pid[w]] = "open" /\ Fault /\ UNCHANGED txnVars

(* KafkaConsumerMembershipLost: abort, then recover_group_membership.          *)
RecoverMembership(w) ==
  /\ pc[w] = "abort_lost"
  /\ AbortTransaction(w)
  /\ DisconnectForRecovery(w)
  /\ Goto(w, "connect")
  /\ UNCHANGED <<pid, rebalances, brokerVars>>

(* Seeded fault: the consumer subscribes again before the producer is reset.   *)
LeaveForOutageWithoutReset(w) ==
  /\ pc[w] = "abort_infra"
  /\ AbortTransaction(w)
  /\ DisconnectForRecovery(w)
  /\ Goto(w, "connect")
  /\ UNCHANGED <<pid, rebalances, brokerVars>>

(* KafkaInfrastructureUnavailable: abort, then leave the group before waiting  *)
(* for the producer.                                                           *)
LeaveForOutage(w) ==
  /\ pc[w] = "abort_infra"
  /\ AbortTransaction(w)
  /\ DisconnectForRecovery(w)
  /\ Goto(w, "reset")
  /\ UNCHANGED <<pid, rebalances, brokerVars>>

(* Seeded fault: the producer object is replaced but not initialised.          *)
ResetProducerWithoutInit(w) ==
  /\ pc[w] = "reset"
  /\ Goto(w, "connect")
  /\ UNCHANGED <<epoch, valid, assigned, batch, clientVars, pid, groupVars,
                 rebalances, txnVars, brokerVars, faults>>

(* _reset_producer: init_transactions with the same transactional.id fences    *)
(* the old producer and aborts what it left undecided.                         *)
ResetProducer(w) ==
  /\ pc[w] = "reset"
  /\ txn' = [txn EXCEPT ![pid[w]] = "empty"]
  /\ Goto(w, "connect")
  /\ UNCHANGED <<epoch, valid, assigned, batch, clientVars, pid, groupVars,
                 rebalances, txnRecords, txnOffsets, brokerVars, faults>>

-------------------------------------------------------------------------------
(* Crash and restart of a worker.                                              *)

(* The process dies at any point; its transaction and its membership remain    *)
(* with the broker.                                                            *)
Crash(w) ==
  /\ pc[w] # "down"
  /\ Fault
  /\ DisconnectForRecovery(w)
  /\ Goto(w, "down")
  /\ UNCHANGED <<pid, rebalances, txnVars, brokerVars>>

(* A new process builds its handlers: __init__ draws a new transactional.id    *)
(* (one whose last transaction is over stands for it).                         *)
Restart(w) ==
  /\ pc[w] = "down"
  /\ \E i \in ProducerIds \ {pid[v] : v \in Workers \ {w}} :
       /\ txn[i] \notin {"open", "ending"}
       /\ pid' = [pid EXCEPT ![w] = i]
       /\ txn' = [txn EXCEPT ![i] = "empty"]
  /\ epoch' = [epoch EXCEPT ![w] = 0]
  /\ Goto(w, "connect")
  /\ UNCHANGED <<valid, assigned, batch, clientVars, groupVars, rebalances,
                 txnRecords, txnOffsets, brokerVars, faults>>

-------------------------------------------------------------------------------
(* The coordinators.                                                           *)

(* A subscribed consumer that polls asks to join.  The generation that admits  *)
(* it cannot form while a dead instance of the same worker is a member.        *)
JoinGroup(w) ==
  /\ pc[w] = "poll"
  /\ client[w] \in {"none", "joining"}
  /\ w \notin members
  /\ client' = [client EXCEPT ![w] = "joining"]
  /\ members' = members \cup {w}
  /\ joined' = joined \cup {w}
  /\ rebalancing' = TRUE
  /\ UNCHANGED <<pc, epoch, valid, assigned, batch, grant, position, pid,
                 rebalances, txnVars, brokerVars, faults>>

(* Every member has rejoined: the partitions are dealt out anew.               *)
CompleteRebalance ==
  /\ rebalances < MaxRebalances
  /\ rebalancing
  /\ joined = members
  /\ \E owner \in [Partitions -> members] :
       /\ client' = [w \in Workers |->
                       IF w \in members /\ client[w] = "joining"
                         THEN "granted" ELSE client[w]]
       /\ grant' = [w \in Workers |->
                      IF w \in members /\ client[w] = "joining"
                        THEN {p \in Partitions : owner[p] = w} ELSE grant[w]]
  /\ joined' = {}
  /\ rebalancing' = FALSE
  /\ rebalances' = rebalances + 1
  /\ UNCHANGED <<workerVars, position, pid, members, txnVars, brokerVars, faults>>

(* A session or max.poll.interval.ms expires.  For a consumer that is gone     *)
(* this is certain, for a live one a fault.                                    *)
Expire(w) ==
  /\ w \in members
  /\ \/ client[w] = "none" /\ UNCHANGED faults
     \/ client[w] # "none" /\ Fault
  /\ RemoveMember(w)
  /\ UNCHANGED <<workerVars, clientVars, pid, rebalances, txnVars, brokerVars>>

(* The coordinator carries out a commit it has received: outputs and offsets   *)
(* become visible together.                                                    *)
BrokerCommits(i) ==
  /\ txn[i] = "ending"
  /\ txn' = [txn EXCEPT ![i] = "committed"]
  /\ committed' = [p \in Partitions |->
                     IF txnOffsets[i][p] = NoOffset
                       THEN committed[p] ELSE txnOffsets[i][p]]
  /\ applied' = [r \in Records |->
                   IF r \in txnRecords[i] THEN applied[r] + 1 ELSE applied[r]]
  /\ UNCHANGED <<workerVars, clientVars, pid, groupVars, rebalances, txnRecords,
                 txnOffsets, faults>>

(* transaction.timeout.ms expires.  For the transaction of a dead worker this  *)
(* is certain, for a live one a fault.                                         *)
TransactionTimesOut(i) ==
  /\ txn[i] \in {"open", "ending"}
  /\ \/ (\A w \in Workers : pid[w] = i => pc[w] = "down") /\ UNCHANGED faults
     \/ (\E w \in Workers : pid[w] = i /\ pc[w] # "down") /\ Fault
  /\ txn' = [txn EXCEPT ![i] = "aborted"]
  /\ UNCHANGED <<workerVars, clientVars, pid, groupVars, rebalances, txnRecords,
                 txnOffsets, brokerVars>>

-------------------------------------------------------------------------------

(* What the worker does by itself, failures apart.                             *)
Progress(w) ==
  \/ Connect(w) \/ JoinGroup(w) \/ OnAssign(w) \/ OnRevoke(w) \/ OnLost(w)
  \/ \E p \in Partitions : Consume(w, p)
  \/ ReturnBatch(w) \/ BodyReturns(w) \/ Begin(w) \/ SendOffsets(w)
  \/ SendOffsetsFenced(w) \/ CommitTransaction(w) \/ CommitReturns(w)
  \/ RecoverMembership(w) \/ LeaveForOutage(w) \/ ResetProducer(w) \/ Restart(w)

(* The failures it may meet.                                                   *)
Failure(w) ==
  \/ FetchFails(w) \/ ConsumeRaises(w) \/ BodyRaises(w)
  \/ BeginFails(w) \/ SendOffsetsFails(w) \/ CommitFails(w) \/ CommitTimesOut(w)
  \/ Crash(w)

Coordinator ==
  \/ CompleteRebalance
  \/ \E w \in Workers : Expire(w)
  \/ \E i \in ProducerIds : BrokerCommits(i) \/ TransactionTimesOut(i)

Next ==
  \/ \E w \in Workers : Progress(w) \/ Failure(w)
  \/ Coordinator

Spec == Init /\ [][Next]_vars

(* A live worker's own steps, and the failures that are bound to come without  *)
(* any new fault, are taken: its loop never blocks without a timeout, and its  *)
(* container restarts unless stopped.  The broker answers what it was sent and *)
(* expires what is dead.                                                       *)
Forced(w) == UNCHANGED faults /\ Failure(w)

Fairness ==
  /\ \A w \in Workers : WF_vars(Progress(w)) /\ WF_vars(Forced(w))
  /\ WF_vars(UNCHANGED faults /\ Coordinator)

FairSpec == Spec /\ Fairness

-------------------------------------------------------------------------------
(* Properties.                                                                 *)

EO == INSTANCE ExactlyOnce WITH committed <- committed, applied <- applied

(* The outputs of a record are in exactly one committed transaction once the   *)
(* group's offset has passed it, and in none before: what producer.py:237-279  *)
(* is for, through expiry, lost answers, failed aborts, crashes and rebalances.*)
AppliedExactlyOnce == EO!AppliedExactlyOnce

(* However a stage treats exceptions, no record's outputs are committed twice  *)
(* and none before the group's offset passes it: recovery replays only what    *)
(* was not committed.                                                          *)
AppliedAtMostOnce ==
  \A r \in Records : applied[r] <= IF r[2] < committed[r[1]] THEN 1 ELSE 0

(* A stage whose loop lets exceptions through implements the abstract promise. *)
ImplementsExactlyOnce == EO!Spec

(* A batch between begin_transaction and the end of its transaction still      *)
(* belongs to the epoch and partitions of the handler: no callback can run     *)
(* between the check of producer.py:259 and the offsets it lets through.       *)
TransactionCarriesCurrentBatch ==
  \A w \in Workers :
    pc[w] \in {"begin", "offsets", "commit", "committing"} => BatchCurrent(w)

(* While a transaction that has registered offsets is undecided, no other      *)
(* undecided transaction has offsets for the same partition: a worker that was *)
(* expelled and its successor never race to move the same offset.              *)
OneUndecidedPerPartition ==
  \A p \in Partitions : \A i, j \in ProducerIds :
    Pending(i, p) /\ Pending(j, p) => i = j

(* A worker never consumes again while its own last transaction, with offsets  *)
(* in it, is undecided: producer.py:277-279 resets the producer, which settles *)
(* it, before the consumer subscribes again.                                   *)
SettledBeforeConsuming ==
  \A w \in Workers : pc[w] \in {"connect", "poll", "process", "begin"} =>
    \A p \in Partitions : ~Pending(pid[w], p)

(* A batch that the broker would accept starts at the committed offset and has *)
(* no gap up to the worker's fetch position.                                   *)
BatchIsNextInLog ==
  \A w \in Workers : \A p \in Partitions :
    pc[w] \in {"begin", "offsets"} /\ IsCurrentMember(w) /\ position[w][p] # Unset =>
      {m.off : m \in {r \in batch[w] : r.part = p}}
        = committed[p] .. position[w][p] - 1

(* No step moves a committed offset back: a transaction that was undecided     *)
(* when its worker was expelled cannot land after its successor's.             *)
OffsetsNeverMoveBack ==
  [][\A p \in Partitions : committed[p] <= committed'[p]]_vars

(* Whatever the faults, once they stop the stage works off the whole log: no   *)
(* recovery path leaves a worker, a member or a transaction stuck.             *)
LogIsWorkedOff == <>[](\A p \in Partitions : committed[p] = LogLength)
===============================================================================
