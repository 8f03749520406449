----------------------------- MODULE LogCollector -----------------------------
(***************************************************************************)
(* The log collector (src/src/logcollector/collector.py) and its batch     *)
(* handler (batch_handler.py): a worker fetches lines from Kafka, sorts    *)
(* them by subnet into batches, and sends each batch together with the     *)
(* buffer, the batch before it, as a packet.  The fetch is one transaction *)
(* of TransactionalStage, seen here as its two outcomes; what this module  *)
(* adds is the memory of the batch handler, which no abort rolls back.     *)
(*                                                                         *)
(* Batches are sets of lines: a line carries the logline_id its processing *)
(* gave it, so that a redelivered record makes a second line.              *)
(***************************************************************************)
EXTENDS Integers, FiniteSets, FiniteSetsExt

CONSTANTS Workers,           \* the collector's workers, in one consumer group
          Keys,              \* the subnets
          Times,             \* the timestamps of lines
          LogLength,         \* records in the consumed partition
          BatchSize,         \* batch_size, of a fetch and of a key's batch
          FinalizerFlushes,  \* a dead worker's batch handler is finalized
          MaxFaults,         \* bound: failures the environment may inject
          MaxReassigns       \* bound: new assignments of the partition

ASSUME CollectorAssumption ==
  /\ Times \subseteq Nat
  /\ LogLength \in Nat
  /\ BatchSize \in Nat \ {0}
  /\ FinalizerFlushes \in BOOLEAN
  /\ MaxFaults \in Nat
  /\ MaxReassigns \in Nat

VARIABLES
  log,        \* the records of the partition, which never change
  pc,         \* where the loop of fetch stands
  source,     \* source_messages: the offsets of the last fetch
  todo,       \* those not yet handed to send
  fetch,      \* number of that fetch, for the logline_id of its lines
  fresh,      \* the fetch is of the current assignment
  batch,      \* BufferedBatch.batch, per key
  buffer,     \* BufferedBatch.buffer, per key
  collected,  \* the packets the open transaction_batch has collected
  holder,     \* the worker that holds the partition
  committed,  \* the group's committed offset
  packets,    \* the packets the next stage can read
  fetches,    \* fetches so far
  faults,     \* failures injected so far
  reassigns   \* assignments so far

memory == <<batch, buffer, collected>>
brokerVars == <<holder, committed, packets>>
vars == <<log, pc, source, todo, fetch, fresh, memory, brokerVars, fetches, faults,
          reassigns>>

Offsets == 0 .. LogLength - 1
Record == [key : Keys, ts : Times, valid : BOOLEAN]
Line == [off : Offsets, id : Nat]
Packet == [key : Keys, context : SUBSET Line, lines : SUBSET Line]

Steps == {"poll", "work", "commit", "down"}
NoLines == [k \in Keys |-> {}]

TypeOK ==
  /\ log \in [Offsets -> Record]
  /\ pc \in [Workers -> Steps]
  /\ source \in [Workers -> SUBSET Offsets]
  /\ todo \in [Workers -> SUBSET Offsets]
  /\ fetch \in [Workers -> Nat]
  /\ fresh \in [Workers -> BOOLEAN]
  /\ batch \in [Workers -> [Keys -> SUBSET Line]]
  /\ buffer \in [Workers -> [Keys -> SUBSET Line]]
  /\ collected \in [Workers -> SUBSET Packet]
  /\ holder \in Workers
  /\ committed \in 0 .. LogLength
  /\ packets \in SUBSET Packet
  /\ fetches \in Nat
  /\ faults \in Nat
  /\ reassigns \in Nat

Init ==
  /\ log \in [Offsets -> Record]
  /\ pc = [w \in Workers |-> "poll"]
  /\ source = [w \in Workers |-> {}]
  /\ todo = [w \in Workers |-> {}]
  /\ fetch = [w \in Workers |-> 0]
  /\ fresh = [w \in Workers |-> FALSE]
  /\ batch = [w \in Workers |-> NoLines]
  /\ buffer = [w \in Workers |-> NoLines]
  /\ collected = [w \in Workers |-> {}]
  /\ holder \in Workers
  /\ committed = 0
  /\ packets = {}
  /\ fetches = 0
  /\ faults = 0
  /\ reassigns = 0

-------------------------------------------------------------------------------
(* Conditions and helpers.                                                     *)

Fault == faults < MaxFaults /\ faults' = faults + 1

Goto(w, step) == pc' = [pc EXCEPT ![w] = step]

(* complete_batch: the buffer, then the batch.                                 *)
Complete(k, context, lines) == [key |-> k, context |-> context, lines |-> lines]

(* The packets of all keys that have a batch.                                  *)
AllBatches(w) ==
  {Complete(k, buffer[w][k], batch[w][k]) : k \in {key \in Keys : batch[w][key] # {}}}

(* The timestamps of a packet's messages, of those it begins and ends with.    *)
TimesOf(lines) == {log[l.off].ts : l \in lines}
BeginTimestamp(p) == Min(TimesOf(IF p.context # {} THEN p.context ELSE p.lines))
EndTimestamp(p) == Max(TimesOf(p.lines))

-------------------------------------------------------------------------------
(* The loop of fetch.                                                          *)

(* Seeded fault: records are made up behind the end of the log.                *)
FetchPastEnd(w) ==
  /\ pc[w] = "poll"
  /\ holder = w
  /\ committed < LogLength
  /\ source' = [source EXCEPT ![w] = committed .. committed + BatchSize - 1]
  /\ todo' = source'
  /\ fetch' = [fetch EXCEPT ![w] = fetches]
  /\ fetches' = fetches + 1
  /\ fresh' = [fresh EXCEPT ![w] = TRUE]
  /\ Goto(w, "work")
  /\ UNCHANGED <<log, memory, brokerVars, faults, reassigns>>

(* consume_batch returns records; transaction_batch begins to collect.         *)
Fetch(w) ==
  /\ pc[w] = "poll"
  /\ holder = w
  /\ \E last \in committed .. committed + BatchSize - 1 :
       /\ last < LogLength
       /\ source' = [source EXCEPT ![w] = committed .. last]
       /\ todo' = [todo EXCEPT ![w] = committed .. last]
  /\ fetch' = [fetch EXCEPT ![w] = fetches]
  /\ fetches' = fetches + 1
  /\ fresh' = [fresh EXCEPT ![w] = TRUE]
  /\ Goto(w, "work")
  /\ UNCHANGED <<log, memory, brokerVars, faults, reassigns>>

(* send: o is the next record.                                                 *)
IsNext(w, o) == pc[w] = "work" /\ o \in todo[w] /\ \A q \in todo[w] : o <= q

(* A line that fails validation is only logged.                                *)
SkipInvalid(w, o) ==
  /\ IsNext(w, o)
  /\ ~log[o].valid
  /\ todo' = [todo EXCEPT ![w] = @ \ {o}]
  /\ UNCHANGED <<log, pc, source, fetch, fresh, memory, brokerVars, fetches, faults,
                 reassigns>>

(* BufferedBatch.add_message: the line joins the batch of its key.             *)
Batched(w, o) == batch[w][log[o].key] \cup {[off |-> o, id |-> fetch[w]]}

(* add_message: a batch that is full is sent, and becomes the buffer.          *)
Add(w, o) ==
  LET key == log[o].key
      lines == Batched(w, o)
  IN  /\ IsNext(w, o)
      /\ log[o].valid
      /\ todo' = [todo EXCEPT ![w] = @ \ {o}]
      /\ IF Cardinality(lines) >= BatchSize
           THEN /\ collected' = [collected EXCEPT ![w] =
                                   @ \cup {Complete(key, buffer[w][key], lines)}]
                /\ buffer' = [buffer EXCEPT ![w][key] = lines]
                /\ batch' = [batch EXCEPT ![w][key] = {}]
           ELSE /\ batch' = [batch EXCEPT ![w][key] = lines]
                /\ UNCHANGED <<buffer, collected>>
      /\ UNCHANGED <<log, pc, source, fetch, fresh, brokerVars, fetches, faults,
                     reassigns>>

(* Seeded fault: only the keys with a batch are looked at.                     *)
FlushBatchesOnly(w) ==
  /\ pc[w] = "work"
  /\ todo[w] = {}
  /\ collected' = [collected EXCEPT ![w] = @ \cup AllBatches(w)]
  /\ buffer' = [buffer EXCEPT ![w] =
                  [k \in Keys |-> IF batch[w][k] = {} THEN @[k] ELSE batch[w][k]]]
  /\ batch' = [batch EXCEPT ![w] = NoLines]
  /\ Goto(w, "commit")
  /\ UNCHANGED <<log, source, todo, fetch, fresh, brokerVars, fetches, faults,
                 reassigns>>

(* flush: every stored key's batch is sent and becomes its buffer; the buffer  *)
(* of a key without a batch is deleted.                                        *)
Flush(w) ==
  /\ pc[w] = "work"
  /\ todo[w] = {}
  /\ collected' = [collected EXCEPT ![w] = @ \cup AllBatches(w)]
  /\ buffer' = [buffer EXCEPT ![w] = batch[w]]
  /\ batch' = [batch EXCEPT ![w] = NoLines]
  /\ Goto(w, "commit")
  /\ UNCHANGED <<log, source, todo, fetch, fresh, brokerVars, fetches, faults,
                 reassigns>>

(* The transaction commits: packets and offset become visible together.        *)
Commit(w) ==
  /\ pc[w] = "commit"
  /\ fresh[w]
  /\ committed' = Max(source[w]) + 1
  /\ packets' = packets \cup collected[w]
  /\ collected' = [collected EXCEPT ![w] = {}]
  /\ Goto(w, "poll")
  /\ UNCHANGED <<log, source, todo, fetch, fresh, batch, buffer, holder, fetches,
                 faults, reassigns>>

(* Seeded fault: packets that were not committed are kept for the next try.    *)
AbortKeepsRecords(w) ==
  /\ pc[w] = "commit"
  /\ (~fresh[w] /\ UNCHANGED faults) \/ Fault
  /\ fresh' = [fresh EXCEPT ![w] = FALSE]
  /\ Goto(w, "poll")
  /\ UNCHANGED <<log, source, todo, fetch, memory, brokerVars, fetches, reassigns>>

(* It does not: the collected packets are dropped, the consumer is replaced    *)
(* and fetches from the committed offset, the batch handler stays as it is.    *)
Abort(w) ==
  /\ pc[w] = "commit"
  /\ (~fresh[w] /\ UNCHANGED faults) \/ Fault
  /\ fresh' = [fresh EXCEPT ![w] = FALSE]
  /\ collected' = [collected EXCEPT ![w] = {}]
  /\ Goto(w, "poll")
  /\ UNCHANGED <<log, source, todo, fetch, batch, buffer, brokerVars, fetches,
                 reassigns>>

-------------------------------------------------------------------------------
(* The end of a worker, and the coordinator.                                   *)

(* The worker and all it remembers are gone.                                   *)
Forget(w) ==
  /\ source' = [source EXCEPT ![w] = {}]
  /\ todo' = [todo EXCEPT ![w] = {}]
  /\ fresh' = [fresh EXCEPT ![w] = FALSE]
  /\ batch' = [batch EXCEPT ![w] = NoLines]
  /\ buffer' = [buffer EXCEPT ![w] = NoLines]
  /\ collected' = [collected EXCEPT ![w] = {}]
  /\ Goto(w, "down")

(* An exception leaves the loop: a record without data, a timestamp that does  *)
(* not parse.  If the objects are finalized, __del__ sends the batches of all  *)
(* keys, or of some, each in a transaction without offsets.                    *)
WorkRaises(w) ==
  /\ pc[w] = "work"
  /\ Fault
  /\ Forget(w)
  /\ \/ UNCHANGED packets
     \/ /\ FinalizerFlushes
        /\ \E sent \in SUBSET AllBatches(w) : packets' = packets \cup sent
  /\ UNCHANGED <<log, fetch, holder, committed, fetches, reassigns>>

(* The process is killed.                                                      *)
Crash(w) ==
  /\ pc[w] # "down"
  /\ Fault
  /\ Forget(w)
  /\ UNCHANGED <<log, fetch, brokerVars, fetches, reassigns>>

Restart(w) ==
  /\ pc[w] = "down"
  /\ Goto(w, "poll")
  /\ UNCHANGED <<log, source, todo, fetch, fresh, memory, brokerVars, fetches, faults,
                 reassigns>>

(* A new generation: what was fetched before it is stale.                      *)
Reassign ==
  /\ reassigns < MaxReassigns
  /\ reassigns' = reassigns + 1
  /\ holder' \in Workers
  /\ fresh' = [w \in Workers |-> FALSE]
  /\ UNCHANGED <<log, pc, source, todo, fetch, memory, committed, packets, fetches,
                 faults>>

-------------------------------------------------------------------------------

Work(w) ==
  \/ Fetch(w) \/ Flush(w) \/ Commit(w) \/ Abort(w)
  \/ WorkRaises(w) \/ Crash(w) \/ Restart(w)
  \/ \E o \in Offsets : SkipInvalid(w, o) \/ Add(w, o)

Next == Reassign \/ \E w \in Workers : Work(w)

Spec == Init /\ [][Next]_vars

-------------------------------------------------------------------------------
(* Properties.                                                                 *)

(* The lines the next stage gets as new; lines in a context are repeats.       *)
Sent == UNION {p.lines : p \in packets}

(* Every valid record is a new line of exactly one committed packet once the   *)
(* offset has passed it, and of none before, through aborts, new assignments   *)
(* and crashes between any two steps: a fetch leaves nothing in the batch      *)
(* handler that a later one could lose or repeat (collector.py:147-169).       *)
EachLineSentOnce ==
  /\ {l.off : l \in Sent} = {o \in Offsets : o < committed /\ log[o].valid}
  /\ \A p, q \in packets : \A l \in p.lines : \A m \in q.lines :
       l.off = m.off => l = m /\ p = q

(* What a worker holds back for context is from its last fetch: no subnet's    *)
(* lines are repeated after a fetch without them (batch_handler.py:324-330).   *)
ContextIsOneFetchOld ==
  \A w \in Workers : \A k \in Keys : \A l \in buffer[w][k] :
    pc[w] \in {"poll", "commit"} => l.id = fetch[w] /\ l.off \in source[w]

(* "These are taken from the chronologically first and last message in a       *)
(* batch" (docs/pipeline.rst:287-288).                                         *)
TimestampsSpanPacket ==
  \A p \in packets : \A t \in TimesOf(p.context \cup p.lines) :
    BeginTimestamp(p) <= t /\ t <= EndTimestamp(p)
===============================================================================
