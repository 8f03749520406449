------------------------------- MODULE Producers -------------------------------
(***************************************************************************)
(* Producing records outside the transaction of a batch                    *)
(* (src/src/base/kafka/producer.py).  A caller hands over one record after *)
(* the other, to one of three producers: the simple one waits for the      *)
(* delivery report, the buffered one (all telemetry) returns once the      *)
(* record is in the local queue of the client library, the transactional   *)
(* one commits a transaction of its own for the record.                    *)
(***************************************************************************)
EXTENDS Integers, Sequences, SequencesExt, FiniteSets

CONSTANTS Count,       \* records the caller hands over
          QueueLimit,  \* queue.buffering.max.messages
          MaxFaults    \* failures in a behaviour

ASSUME ProducersAssumption ==
  Count \in Nat \ {0} /\ QueueLimit \in Nat \ {0} /\ MaxFaults \in Nat

VARIABLES
  kind,       \* which of the producers is used
  pc,         \* where the caller is in produce
  next,       \* the record being handed over
  queue,      \* the client's queue: records without a delivery report
  reports,    \* delivery reports no poll or flush has served yet
  topic,      \* topic[r]: copies of r a consumer can read
  logged,     \* records whose failed delivery was logged
  discarded,  \* records in the queue of a client that was given up
  refused,    \* records whose call ended with an exception
  faults

client == <<queue, reports>>
losses == <<logged, discarded, refused>>
vars == <<kind, pc, next, client, topic, losses, faults>>

Records == 1 .. Count
Verdicts == {"delivered", "retriable", "permanent"}

Init ==
  /\ kind \in {"simple", "buffered", "transactional"}
  /\ pc = "calling" /\ next = 1
  /\ queue = <<>> /\ reports = <<>> /\ topic = [r \in Records |-> 0]
  /\ logged = {} /\ discarded = {} /\ refused = {}
  /\ faults = 0

-----------------------------------------------------------------------------
(* The client library and the brokers.                                     *)

Fault == faults < MaxFaults /\ faults' = faults + 1

(* The oldest record gets its delivery report.                             *)
Reported(verdict) ==
  /\ queue # <<>> /\ queue' = Tail(queue)
  /\ reports' = Append(reports, [record |-> Head(queue), verdict |-> verdict])
  /\ UNCHANGED <<kind, pc, next, losses>>

Deliver ==
  /\ Reported("delivered")
  /\ topic' = IF kind = "transactional" THEN topic ELSE [topic EXCEPT ![Head(queue)] = @ + 1]
  /\ UNCHANGED faults

(* The broker took the record, its answer was lost, and the client, which  *)
(* is not idempotent, will send it again.                                  *)
AcknowledgementLost ==
  /\ Fault /\ kind # "transactional" /\ queue # <<>>
  /\ topic' = [topic EXCEPT ![Head(queue)] = @ + 1]
  /\ UNCHANGED <<kind, pc, next, client, losses>>

DeliveryFails ==
  /\ Fault /\ \E verdict \in Verdicts \ {"delivered"} : Reported(verdict)
  /\ UNCHANGED topic

-----------------------------------------------------------------------------
Undelivered == {p.record : p \in {q \in Range(reports) : q.verdict # "delivered"}}

(* The callbacks of the waiting reports, run by poll and flush.            *)
Serve ==
  /\ reports' = <<>>
  /\ logged' = logged \cup Undelivered

(* Seeded fault: the caller hands over one record too many.                *)
ReturnTwice ==
  /\ next' = next + 1
  /\ pc' = IF next <= Count THEN "calling" ELSE "closing"

Return ==
  /\ next' = next + 1
  /\ pc' = IF next < Count THEN "calling" ELSE "closing"

(* SimpleKafkaProduceHandler.produce as far as its second flush, or        *)
(* begin_transaction and produce.                                          *)
Send ==
  /\ pc = "calling" /\ kind # "buffered"
  /\ queue = <<>> /\ Serve
  /\ queue' = <<next>> /\ pc' = "flushing"
  /\ UNCHANGED <<kind, next, topic, discarded, refused, faults>>

Flushed == pc = "flushing" /\ queue = <<>> /\ reports # <<>>

(* Seeded fault: a retriable delivery error is taken for success.          *)
CheckOnlyPermanent ==
  /\ kind = "simple" /\ Flushed /\ Serve
  /\ refused' = IF Last(reports).verdict = "permanent" THEN refused \cup {next} ELSE refused
  /\ Return
  /\ UNCHANGED <<kind, queue, topic, discarded, faults>>

(* Seeded fault: the operation is retried after it succeeded.              *)
CheckRetries ==
  /\ kind = "simple" /\ Flushed /\ Serve
  /\ IF Last(reports).verdict = "permanent"
       THEN refused' = refused \cup {next} /\ Return
       ELSE pc' = "resetting" /\ UNCHANGED <<next, refused>>
  /\ UNCHANGED <<kind, queue, topic, discarded, faults>>

(* delivery_errors after the second flush: a KafkaException is retried,    *)
(* a ValueError ends the call.                                             *)
Check ==
  /\ kind = "simple" /\ Flushed /\ Serve
  /\ LET verdict == Last(reports).verdict
     IN  /\ refused' = IF verdict = "permanent" THEN refused \cup {next} ELSE refused
         /\ IF verdict = "retriable" THEN pc' = "resetting" /\ UNCHANGED next ELSE Return
  /\ UNCHANGED <<kind, queue, topic, discarded, faults>>

(* commit_transaction: a transaction with an undelivered record fails.     *)
CommitAlone ==
  /\ kind = "transactional" /\ Flushed /\ Serve
  /\ IF Last(reports).verdict = "delivered"
       THEN topic' = [topic EXCEPT ![next] = @ + 1] /\ Return
       ELSE pc' = "resetting" /\ UNCHANGED <<next, topic>>
  /\ UNCHANGED <<kind, queue, discarded, refused, faults>>

(* The commit's answer is lost: without a consumer every KafkaException is *)
(* retried, also when the transaction took effect.                         *)
CommitUnanswered ==
  /\ Fault /\ kind = "transactional" /\ Flushed /\ Serve
  /\ \E took \in IF Last(reports).verdict = "delivered" THEN {0, 1} ELSE {0} :
       topic' = [topic EXCEPT ![next] = @ + took]
  /\ pc' = "resetting"
  /\ UNCHANGED <<kind, next, queue, discarded, refused>>

(* Seeded fault: a full queue drops the record.                            *)
BufferOrDrop ==
  /\ pc = "calling" /\ kind = "buffered"
  /\ Serve /\ Return
  /\ queue' = IF Len(queue) < QueueLimit THEN Append(queue, next) ELSE queue
  /\ UNCHANGED <<kind, topic, discarded, refused, faults>>

(* Seeded fault: nothing serves the delivery reports, which hold their     *)
(* places in the queue.                                                    *)
BufferWithoutPoll ==
  /\ pc = "calling" /\ kind = "buffered"
  /\ Len(queue) + Len(reports) < QueueLimit
  /\ Return
  /\ queue' = Append(queue, next)
  /\ UNCHANGED <<kind, reports, topic, losses, faults>>

(* BufferedKafkaProduceHandler.produce: poll until there is room.          *)
Buffer ==
  /\ pc = "calling" /\ kind = "buffered"
  /\ Serve
  /\ Len(queue) < QueueLimit /\ Return
  /\ queue' = Append(queue, next)
  /\ UNCHANGED <<kind, topic, discarded, refused, faults>>

(* The client raises a KafkaException, at once.                            *)
ProduceRaises ==
  /\ Fault /\ pc = "calling"
  /\ Serve /\ pc' = "resetting"
  /\ UNCHANGED <<kind, next, queue, topic, discarded, refused>>

(* _reset_producer: flush for 5 seconds, in which more of the queue may be *)
(* delivered, and a new client; then the operation once more.              *)
Reset ==
  /\ pc = "resetting"
  /\ Serve /\ queue' = <<>>
  /\ discarded' = discarded \cup Range(queue)
  /\ pc' = "calling"
  /\ UNCHANGED <<kind, next, topic, refused, faults>>

(* __del__                                                                 *)
Close ==
  /\ pc = "closing" /\ queue = <<>>
  /\ Serve /\ pc' = "closed"
  /\ UNCHANGED <<kind, next, queue, topic, discarded, refused, faults>>

(* The process dies; a new one repeats the call that did not return.       *)
Die ==
  /\ Fault /\ pc \notin {"closed", "down"}
  /\ queue' = <<>> /\ reports' = <<>>
  /\ discarded' = discarded \cup Range(queue) \cup Undelivered
  /\ pc' = "down"
  /\ UNCHANGED <<kind, next, topic, logged, refused>>

Restart ==
  /\ pc = "down"
  /\ pc' = IF next \in Records THEN "calling" ELSE "closing"
  /\ UNCHANGED <<kind, next, client, topic, losses, faults>>

Work ==
  Deliver \/ Send \/ Check \/ CommitAlone \/ Buffer \/ Reset \/ Close \/ Restart
Failure == AcknowledgementLost \/ DeliveryFails \/ CommitUnanswered \/ ProduceRaises \/ Die
Next == Work \/ Failure

Spec == Init /\ [][Next]_vars

(* The brokers answer again after an outage, and the container runtime     *)
(* starts a dead process again.                                            *)
FairSpec == Spec /\ WF_vars(Work)

-----------------------------------------------------------------------------
TypeOK ==
  /\ kind \in {"simple", "buffered", "transactional"}
  /\ pc \in {"calling", "flushing", "resetting", "closing", "closed", "down"}
  /\ next \in 1 .. Count + 1
  /\ queue \in Seq(Records) /\ Len(queue) <= QueueLimit
  /\ reports \in Seq([record : Records, verdict : Verdicts])
  /\ topic \in [Records -> Nat]
  /\ logged \subseteq Records /\ discarded \subseteq Records /\ refused \subseteq Records
  /\ faults \in 0 .. MaxFaults

Missing == {r \in 1 .. next - 1 : topic[r] = 0} \ (Range(queue) \cup refused)

(* A call of the simple or the transactional producer that returned has    *)
(* its record in the topic, through retries, new clients and restarts.     *)
ReturnedMeansDelivered == kind # "buffered" => Missing = {}

(* Telemetry is lost only in a client that was given up or with a failed   *)
(* delivery, at most a full queue for each failure.                        *)
TelemetryLossIsBounded ==
  /\ Missing \subseteq logged \cup discarded \cup Undelivered
  /\ Cardinality(Missing) <= QueueLimit * faults

(* A repeated record takes a failure: at most one copy more for each.      *)
OneCopyMorePerFailure == \A r \in Records : topic[r] <= 1 + faults

(* Every call returns, through a full queue and any number of retries,     *)
(* and the client is closed with an empty queue.                           *)
EverythingHandedOver == <>(pc = "closed" /\ next > Count)
===============================================================================
