# HAMSTRING in TLA+

A verification project for the HAMSTRING pipeline: TLA+ modules translated from
the code, TLC configurations that check them on small instances, and proofs
that TLAPS checks for every instance. Paths such as `consumer.py` are those of
`src/src/base/kafka/`, others are relative to `src/src/`.

## 1. The system

HAMSTRING moves log lines through stages. Every stage is a service with several
workers (threads in processes), every worker runs one loop

    consume_batch -> transaction_batch { process each record }

and stages are connected by Kafka topics only. Beside the pipeline, every stage
sends telemetry to `clickhouse_*` topics, and the monitoring agent carries it
from there to ClickHouse.

| component | state it keeps | operations |
|---|---|---|
| Kafka consumer handler (`consumer.py`) | assignment epoch, validity, assigned partitions; fetch position in the client | connect, assignment callbacks, `consume_batch`, `ensure_batch_assignment_current`, `offsets_for`, `commit`, disconnect, reconnect |
| transactional producer handler (`producer.py`) | collected records, transaction state in the client and the broker | `transaction_batch`, `_run_transaction`, `commit_transaction_with_retry`, `_reset_producer`, standalone `produce` |
| simple and buffered producers (`producer.py`, `clickhouse_kafka_sender.py`) | client queue, delivery reports | `produce`, `_reset_producer`, `__del__` |
| stage loops (`logserver`, `prefilter`, `inspector`, `detector`, `alerter`) | the batch at work, ids of its rows | fetch, fill, process, send, clear |
| topic routing (the `main` functions) | the configuration | which topics an instance reads and writes |
| log collector (`logcollector/`) | batch and buffer per subnet | `send`, `add_message`, `complete_batch`, `flush`, `__del__` |
| monitoring agent (`monitoring/`) | rows waiting per table, ClickHouse client | `run`, `add`, `insert`, `insert_all`, `discard_all`, recoveries |
| retry (`retry.py`) | delay, attempt, deadline | `retry_forever`, `retry_with_timeout` |
| topic management (`topics.py`, `config.py`) | topics in the broker | ensure, create, expand, wait until visible |
| worker pool (`execution.py`) | threads, processes, futures | start replicas, wait, shut down |
| service entrypoint (`service_entrypoint.py`) | deadline | wait for Kafka and ClickHouse, exec |
| detector plugins | Domainator windows, attributor queues, model file | detect, expire windows, load the model |
| alerter | log files, last clean-up date | write, rotate, remove, forward |
| inspector plugins, prefilter rules, validation | none between batches | score, keep or drop, accept or reject |
| training, mock generators, utilities | none at run time | |

What is hard here: rebalances run their callbacks inside consumer calls of a
worker that is busy with an earlier batch; the broker may expel a worker that
does not know it; a commit's answer may be lost; consumer and producer recover
separately and in an order that matters; memory of a worker (batch handler,
detector windows, rows waiting), files and telemetry are not part of any
transaction; several services provision the same topics at once; and a process
can die between any two of these steps. What correctness means, component by
component:

* **stage**: the outputs of a record are published exactly once, together with
  the offset that passes it; recovery always comes back to consuming;
* **pipeline**: a line is handed on once or its end is on record; rows and
  alerts name the batch they come from; everything is consumed in the end;
* **log collector**: a line is new in exactly one packet, and the context
  repeats recent lines only;
* **monitoring sink**: no offset passes a record without a row, and a row is
  repeated at most once for each failure; recovery always comes back;
* **producers**: a call that returned has delivered, or, for telemetry, what is
  lost is bounded; a record has at most one copy more for each failure;
* **alert logs**: an alert is logged before anything says it was, repeated only
  after a fault, and kept as long as configured;
* **Domainator windows**: a window is the recent traffic of its pair, a warning
  quotes what was predicted on, stale windows go;
* **worker pool, topics, entrypoint**: a worker that works has its partitions,
  concurrent starts agree on the topics, a container comes back.

The list of hazards, each with its line and the properties that cover it, is in
`PROJECT.json`.

## 2. Modules

| module | what it is |
|---|---|
| `ExactlyOnce` | abstract: committed offsets move forward and publish what they pass, in one step |
| `TransactionalStage` | the workers of one stage, their handlers, the coordinators; `EO == INSTANCE ExactlyOnce` |
| `AtLeastOnce` | abstract: rows arrive any number of times, offsets pass only what has a row |
| `MonitoringSink` | the workers of the monitoring agent, their senders, the coordinator; `ALO == INSTANCE AtLeastOnce` |
| `LogCollector` | the collector's batches and buffers over the two outcomes of a transaction |
| `TopicRouting` | which instance reads and writes which topic, from the configuration |
| `Pipeline` | prefilters, inspectors, detectors and alerters over these topics (EXTENDS `TopicRouting`) |
| `AlertLogs` | the alerter's log files, terminal events and forwarding; `INSTANCE AtLeastOnce` |
| `DomainatorWindows` | the windows of the Domainator detector and the queues of its attributor |
| `Producers` | the simple, the buffered and the transactional producer outside of a batch |
| `WorkerPool` | entrypoint, processes, workers, topic provisioning, the shared model file |
| `<component>Invariant` | inductive invariant of stage, sink and collector |
| `<component>Proofs` | theorems of stage, sink, collector, pipeline, alert logs, producers, worker pool, windows |
| `MC<component>` | constants and symmetry for TLC |

How they are composed. `TransactionalStage` shows that a stage is `ExactlyOnce`
towards its topics: outputs and offsets appear together or not at all.
`Pipeline`, `LogCollector`, `AlertLogs` and `DomainatorWindows` build on that:
their `Commit` and `Abort` are the two outcomes a transaction has, and they look
at what is in no transaction. `Pipeline` connects several stages by topics.
`Producers` carries the rows `Pipeline` records in one step, and `MonitoringSink`
takes them to ClickHouse. `WorkerPool` is how workers come to exist at all.

Definitions whose comment begins with "Seeded fault" are never part of a
specification. Each is a variant of one operation with a plausible mistake in
it, and shows that a property notices the mistake when the operation is
replaced by it.

### TransactionalStage

`pc` says where a worker's loop stands:

    connect -> poll -> process -> begin -> offsets -> commit -> committing -> poll
                 |        |         |         |         |          |
                 |        |         +---------+---------+----------+-> abort_infra -> reset -> connect
                 |        |                   +-> abort_lost -> connect
                 +--------+-> connect (not of this assignment) or down (exception)

* `epoch`, `valid`, `assigned` are `_assignment_epoch`, `_assignment_valid`,
  `_assigned_partitions`; `batch` holds the records fetched and not settled,
  each with the epoch it was stamped with.
* `client`, `grant`, `position` are what the consumer library believes: its
  membership, its partitions, its fetch position. `members`, `joined`,
  `rebalancing` are the group coordinator, `txn`, `txnRecords`, `txnOffsets` the
  transaction coordinator, `committed` and `applied` what everybody can see.
* The eager protocol of the supplied configuration is modelled: a rebalance
  takes all partitions of a member before it deals them out again. A callback
  runs only inside `consume`, so `OnAssign`, `OnRevoke` and `OnLost` need
  `pc = "poll"`: while a batch is processed a worker can be expelled (`Expire`)
  without noticing. `IsCurrentMember` is the broker's member id and generation
  check, which `send_offsets_to_transaction` makes.
* `DisconnectForRecovery` may leave the group or, when `close` fails, stay in it
  until its session expires.
* `BrokerCommits` is separate from `CommitTransaction` and from
  `CommitReturns`: between them a commit is undecided for the worker. An abort
  can fail; `ResetProducer` (`init_transactions` under the same id) settles
  whatever was left. A restarted worker has a new id, so its old transaction
  stays undecided until `TransactionTimesOut`.
* `isolation.level=read_committed` appears as `Undecided`: a consumer that asks
  for the committed offset of a partition waits until offsets pending in a
  transaction are decided.
* `SwallowErrors` distinguishes the loops. Log server, collector and prefilter
  let exceptions out; inspector, detector and alerter catch `ValueError` (the
  alerter everything) and poll on.
* Operations that are retried without limit (`retry_forever`) are actions that
  stay enabled; attempts that fail and change nothing are left out.

One assumption about the client library carries weight: messages queued under an
earlier assignment are discarded at a rebalance, so that a record is stamped
(`consumer.py:429`) with the epoch it was fetched in.

### MonitoringSink

The same consumer handler, further away: of epochs only the difference between
"this assignment" and "an earlier one" is kept (`stale`), and topics are
assigned one by one instead of through generations, which allows every
assignment the coordinator can produce and more. Around it stand the sender's
rows per table (`rows`), the records not yet handed over (`todo`) and
ClickHouse (`stored`, the number of rows inserted for a record). An insert that
raises may have been carried out or not (`InsertRaises`), a commit that runs
into its deadline may have been accepted or not (`CommitTimesOut`), and a
process that is stopped flushes some of its rows (`Crash`). With
`FetchRaises = TRUE`, `consume_batch` may raise because of a message with a
permanent error (`ConsumeRaises`): the records fetched with it are gone.

### LogCollector

A record has a subnet (`key`), a timestamp and a verdict of the validation
(`valid`); all logs are initial states. A line is the record's offset with the
number of the fetch that processed it, which stands for the `logline_id`: a
redelivered record makes another line. `batch` and `buffer` are those of
`BufferedBatch`, `collected` the records of the open transaction. The
transaction itself is reduced to `Commit` and `Abort`, and the group to "this
fetch is of the current assignment" (`fresh`): that the two outcomes are all
there is, and that redelivery starts at the committed offset, is what
`TransactionalStage` shows. `WorkRaises` is an exception that leaves the loop;
with `FinalizerFlushes` the batch handler's `__del__` then sends batches outside
of the transaction. The batch timer is switched off in the collector
(`collector.py:81`) and is not modelled.

### Pipeline and TopicRouting

`TopicRouting` computes the topics as the `main` functions do: an inspector reads
its prefilter's, a detector reads an inspector's or, when
`ConsumesFromDetector`, its own "chain" topic; alerts go to the named alerters,
to the generic one when none is named, or nowhere.

`Pipeline` has one worker for each configured instance. `topic` holds the
committed records, `offset` the groups' offsets; `position`, `first` and `at`
say where a worker is in its open batch. `Process` is one record from
`get_and_fill_data` to `clear_data`: `Filled` is what the instance's fields then
hold (`memory`: a record without data leaves the ids of the one before),
`Results` what may come of it: the split by relevance, a suspicious batch
divided by client, the warnings of a detector. `RecordRows` writes the monitoring rows, which no abort takes back:
`tree` is `batch_tree`, `ends` the terminal rows of `logline_timestamps`.
The open transaction of a stage is a sequence of records for each topic
(`output`). `Commit` publishes them together with the offset; `Abort`, `Raise`
(an exception, swallowed or not) and `Crash` are the faults. Three things
are history, which no step reads: the `origin` of a record, the stage and the
record of its topic that it was made from, the place in the list of topics that
an alert was produced for, and `lost`, the records that a commit passes without
their having been processed. Scores and predictions are free choices, relevance
an attribute of a line.

A detector without windows warns of single messages, one with windows of the
window a message was just appended to: lines of one client and domain, or of one
domain in the attributor (`Group`), of this batch and of any before
(`window`, what an exception inside `detect` left there included). Which of them
still are in the window is what `DomainatorWindows` says; here any part of them
may be, and a batch may give rise to any number of warnings (`Requests`). Their
requests go to the next detectors whole (`Forwarded`). The alert names the first
100 line ids of each (`FirstIds`, `MaxNamed`), so it may name no line of the
batch it is about; the list of 50 domain names is left out, since no property
reads it. `AlerterTopics` is a list, and a name that is listed twice gets the
alert twice. Two things are freer than the code: an exception may have recorded
no result rows or all of them, and a chain may lead from a detector with windows
into one that reads single messages, whose requests the code would not
understand (a `TypeError` ends that worker).

The properties follow a record from topic to topic by its origin.
`HandedOnOrEnded` looks at each record a stage has committed and asks of each of
its lines whether it is in what was made of that record, has an end recorded by
that stage, or was in one of the records a fault made the stage pass over, of
which there are `MaxBatch` for each fault at most and none before a prefilter.
`NothingTwice` compares the origins in one topic, and the lines where the
collectors repeat none (a packet's context does: `CollectedOnce`).

### AlertLogs

A worker's loop is `Fetch`, then for each alert `OpenLog` (the path of the day),
`Cleanup`, `Append`, `Forward`, and `Commit` at the end of the batch. `day` is the
clock, `files` the dates of the files that exist, `dates` and `written` where and
how often an alert was appended. Every worker has its own clean-up date
(`cleaned`) and the files are shared. `Midnight` may fall between any two steps.
`Abort`, `Swallow` (the loop goes on after any exception but an `IOError`) and
`Die` are the faults, possible at every step. Dates are removed as in
`_cleanup_rotated_logs`: those before the cutoff, if `retention_days` is set.

### DomainatorWindows

`Take` appends one message to its window, which takes its time even when that is
older than the time before. `Detect` goes on to predict on a window that is long
enough; a full window loses its `Cut` oldest messages afterwards. In
`PredictRaises` the prediction raises a `ValueError` instead: the message is in
the window, there is no warning, nothing is cut, and the loop swallows the
exception and polls on (`detector.py:878`). Other exceptions end the worker and
the windows with it (`Die`); the times are valid, since every stage before writes
them in ISO format (`logline_handler.py:113`). `Expire` is the end of
a record: the expiry check, if the newest time seen has moved on by more than
the interval, then the warnings. `Abort`, `Swallow` and `Die` leave the windows
alone (only a restart empties them). `Attribute` is the attributor, which reads
the committed warnings as requests, and whose predictions may raise as well. `delivered` and `touched` are history
variables for the properties.

### Producers

`kind` selects one of the three producers. The client library is a queue and a
list of delivery reports that no `poll` or `flush` has served yet. `Deliver`,
`AcknowledgementLost` and `DeliveryFails` are the brokers' answers; `Send`, `Check`,
`CommitAlone`, `Buffer`, `Reset` and `Close` are `produce`, `_reset_producer` and
`__del__`. A caller hands over `Count` records and calls again after a restart.
The library is not idempotent for the simple and the buffered producer
(`enable.idempotence` is set for the transactional one only).

### WorkerPool

`container` is the container's state, `step[p]` where process `p` is while it builds
its next worker, `worker` what became of each. Building a worker provisions the
topic (`Lookup`, `Create`, `Recheck`, `Expand`, `Visible`: `ensure` and the
consumer's wait, which starts the whole setup over after `Tries` checks), then
loads the model (`FindModel` to `Load`) from a file that the processes of a
container share and that survives a restart. `Sees` is a metadata request, whose
broker may be behind; `AnswerLost` an administrative request that took effect
without an answer. `Target` is the number of partitions a container asks for. An
expansion is refused when the topic has that many or more: "already has" is
success (`topics.py:246`), but the broker's words for a topic with more
partitions are not, and the request is repeated for ever (`Expand`).
`WorkerEnds` is an exception that leaves a loop: nobody replaces the thread, and
the process lives on until its last thread ends (`Exit`).

## 3. Runs

| run | constants | what it shows |
|---|---|---|
| `stage_two_workers` | 2 workers, 1 partition of 2 records, 3 transactional ids, 1 fault, 4 rebalances | exactly-once, what a transaction may hold, refinement of `ExactlyOnce` |
| `stage_live` | 1 worker, 2 partitions, 2 faults, fair | the log is worked off |
| `stage_swallow_loses_batch` | 2 workers, 1 partition, 2 faults, 3 rebalances, exceptions swallowed | violated: a swallowed exception loses its batch |
| `sink_two_workers` | 2 workers, 2 topics of 2 records, one invalid, 1 fault, 1 revocation, fair | nothing lost, refinement of `AtLeastOnce`, everything arrives |
| `sink_replays` | the same with 2 faults, fetches may raise | one row more per failure; no row outlives its batch |
| `collector_two_workers` | 2 workers, all logs of 3 records over 2 subnets, batches of 2, 2 faults, 1 new assignment | each line sent once, context no older than a fetch |
| `collector_timestamps` | 1 worker, no fault, two timestamps | violated: begin and end do not span the packet |
| `pipeline` | prefilter, inspector, 2 detectors (in a chain, or single), alerter; 3 lines of 2 clients and one domain in 2 batches, 1 id named of a warning, 1 fault, fair | no line disappears, none is handed on twice, rows and alerts name their batch, everything is consumed |
| `alert_logs` | 2 workers with 2 alerts each, 3 days, retention unset, 0 or 2, 1 fault | files kept as configured, at-least-once log, one forward |
| `windows` | 2 sources of one domain, times 0 and 2, 2 records of up to 2 messages, thresholds of 3, 2 faults | what windows and warnings hold, when windows expire |
| `producers` | 5 records, queue of 2, 3 failures, each producer, fair | delivery, bounded loss, bounded copies, every call returns |
| `worker_pool` | 2 containers, one with 2 processes, 2 threads, topic absent or too narrow, 1 fault, fair | workers have their partitions, containers serve again or are in one of three stuck states |

Bounds and why they are enough to see the interesting cases.

* *Stage, sink.* Two workers are one that is expelled and one that takes over.
  Two records per partition make batches of one and of two, a batch that ends
  where the next begins, and a partial redelivery. Three ids are one for each
  worker and one for a restart while an old transaction is undecided. One fault
  with four rebalances is a failure before, during and after a take-over with
  the return of the worker; two faults allow a failure during the recovery from
  another. In the sink, `TableBatch = 2` inserts some rows while a batch is handed
  over and others at its end, and two topics make the insert of one fail after
  the other's.
* *Collector.* Three records and batches of two make a subnet full in the middle
  of a fetch, a batch continued after that, and a subnet without lines in the
  next fetch.
* *Pipeline.* One relevant line of each client in the first batch makes the
  inspector split it; the second batch has no relevant line. Two configurations
  cover a chain of two detectors without an alerter in between, and a detector
  that alerts, to an alerter it lists twice. One detector has windows per source,
  the other per domain, where the lines of both clients meet. With one id named
  of each warning (`MaxNamed`), there are alerts that name no line of their
  batch. One fault can strike any stage at any step, and the stages behind it see its
  effect.
* *Alert logs.* Three days let a file come of age with retention 2, while the
  other worker's clean-up and append fall on either side of midnight; retention
  0 is raised to 1, and null keeps everything.
* *Windows.* Four messages at most against windows of three reach full, cut and
  refilled windows, also by redelivery after an abort, and windows beyond full by
  one message and by two, after predictions that raised. Times two apart with an
  expiration of one make both a stale and a live window, and late messages.
* *Producers.* A queue of two with five records is full more than once, also with
  reports that were not served; three failures combine a lost acknowledgement,
  a new client and a restart.
* *Worker pool.* Two processes share a model file, the other container knows a
  different number of workers for the same topic. The topic does not exist or
  has too few partitions at first. The fault is an outage, stale metadata, a
  lost answer, a failed download, a dead worker or a killed container.

The bounds (`MaxFaults`, `MaxRebalances`, `MaxRevokes`, `MaxReassigns`, `MaxLog`,
`LastDay`, `Count`) are guards of the actions named in the modules; the theorems
hold for any value of them. Deadlock is not checked: when the bounds are used up
and the logs are worked off, the models stop.

Fairness. A worker's own steps are weakly fair: every call it makes has a
timeout, and containers restart (`docker-compose.pipeline.yml`). So are the
coordinator's answers and the expiry of what is dead. Nothing is assumed of
faults: a live worker need never fail and never be expelled. In
`TransactionalStage`, `Forced` makes the failures fair that need no new fault:
the error answer to a call on a transaction the broker has already aborted. In
`Pipeline` only the loops of workers that are up are fair: nothing restarts a
worker there, and `Drained` allows for one that stays down. In `Producers` the
brokers answer again after an outage and a dead process is started again
(`Work`). In `WorkerPool` Kafka comes back, the runtime starts a container that
ended, and a container goes on with its work (`Run(c)`); of `TimedOut`, `Kill`
and the failures nothing is assumed. `ContainersServe` excludes the three states
the code does not get out of (`Stuck`): they are described below.

### What the code does and its documents do not say

Two runs are expected to end in a violation; `PROJECT.json` quotes the lines.

1. A `ValueError` while a batch is processed loses the batch in inspector,
   detector and alerter (`inspector.py:407`).
2. `begin_timestamp` and `end_timestamp` do not enclose a packet whose lines
   were out of order across buffer and batch (`batch_handler.py:266`).

The following were met while modelling, and are part of the models unless it
says otherwise. They have no run of their own.

* A message with a permanent error loses the monitoring records fetched with it
  (`monitoring_agent.py:226`), although `docs/kafka_recovery.rst:167` promises at
  least once. With `FetchRaises = FALSE` the sink keeps the promise; the runs
  and theorems on `NothingLost` and `EverythingArrives` assume that and say
  nothing about such messages.
* The batch handler's buffer survives an aborted transaction, so that a packet
  can carry lines as context that were never sent (`batch_handler.py:298`,
  `docs/pipeline.rst:351`).
* With `FinalizerFlushes`, `__del__` sends uncommitted batches outside of their
  transaction (`batch_handler.py:480`), and lines are sent twice
  (`docs/kafka_recovery.rst:197`). `collector_two_workers` and `EachLineOnce`
  assume that it does not.
* A batch sent as full in the middle of a fetch becomes the subnet's buffer, and
  the flush at the end of the same fetch deletes it (`batch_handler.py:330`),
  although `docs/pipeline.rst:410` discards a buffer when no new messages
  arrive.
* After an abort the Domainator's windows keep the messages of the batch; a
  redelivered record's warning may hold lines of a later record that is not
  committed.
* A prediction that raises a `ValueError` leaves a window full and uncut
  (`domainator_detector.py:154`, `170`): the next warning of that window quotes
  one message more than `max_window_requests`, or more when predictions raise
  repeatedly. The cut after it shortens the window again; with a `max_window_cut`
  of 1 it would stay longer for good.
* An alert need not name a line of the batch it is about: it names the first
  100 of the sorted ids of each window (`detector.py:793-799`).
* The attributor's queues are not windows of a fixed size
  (`domainator_attributor.py:24-28`, `docs/pipeline.rst:898`): a request appends
  all its messages and takes away one at most.
* A domain's time of expiry is that of its last message, also when that is older
  than one before it (`docs/configuration.rst:545-548`).
* `produce_topics: []` means the generic alerter, as does leaving it out
  (`docs/pipeline.rst:769`).
* A model file cut off by a kill survives the restart of the container, whose
  workers then fail on its checksum at every start (`Stuck`).
* A topic that another container has expanded beyond what this one is about to
  ask for refuses the request with words `topics.py:246-248` does not know, and
  `retry_forever` repeats it without end (`Stuck`), although larger topics "are
  left unchanged" (`docs/configuration.rst:702`). It takes two containers with
  different configurations that find the topic too narrow at the same time, or
  one that sees stale metadata.
* Without `auto_expand_partitions` a topic that is too narrow is waited for
  forever (`Stuck`).

## 4. Proofs

`tlapm` checks every theorem below to its last leaf. They hold for all values of
the constants: any number of workers, topics, partitions, subnets, alerts, days,
records or containers, and any bound of the faults. The only assumptions on
constants are those named `...Assumption` in the modules that declare them; TLC
evaluates them in every run.

| theorem | says | proviso |
|---|---|---|
| `TypeCorrect`, `InvariantHolds` | type invariant of the stage and `StageInvariant` | |
| `NothingAppliedTwice` | no output is committed twice | |
| `AppliedExactly` | outputs are committed when the offset passes, once | `~SwallowErrors` |
| `CarriesCurrentBatch`, `BatchIsNext`, `OneUndecided`, `SettledFirst` | the parts of the invariant a reader would ask for | |
| `OffsetsOnlyAdvance` | committed offsets never move back | |
| `StageImplementsExactlyOnce` | refinement of `ExactlyOnce` | `~SwallowErrors` |
| `SinkTypeCorrect`, `SinkInvariantHolds` | type invariant of the sink and `SinkInvariant` | |
| `NoRowOutlives` | rows of a batch given up are not inserted with a later one | |
| `OneRowMore` | a record has one row and at most one more for each failure | |
| `SinkLosesNothing` | no offset passes a record without a row | `~FetchRaises` |
| `SinkImplementsAtLeastOnce` | refinement of `AtLeastOnce` | `~FetchRaises` |
| `CollectorTypeCorrect`, `CollectorInvariantHolds` | type invariant of the collector and `CollectorInvariant` | |
| `EachLineOnce` | each valid line is a new line of one packet | `~FinalizerFlushes` |
| `ContextRecent` | a context is from the last fetch | |
| `ProducersTypeCorrect` | type invariant of the producers, queue limit included | |
| `ReturnedDelivered` | a call that returned has delivered | |
| `CopiesPerFailure` | one copy more at most for each failure | |
| `LossBounded` | telemetry lost: a full queue for each failure at most | |
| `LogsTypeCorrect` | type invariant of the alert logs | |
| `FilesRetained` | no clean-up removes what the retention keeps | |
| `LinesPerFault`, `ForwardedOnce` | one line more for each fault; one forward, of what is logged | |
| `LogsImplementAtLeastOnce` | refinement of `AtLeastOnce` | |
| `PipelineTypeOK`, `PipelineInvariantHolds` | type invariant of the composed stages and `PipelineInvariant` | |
| `LinesAreHandedOnOrEnded` | each line of a committed record is handed on, ended, or in a batch that a fault lost; a fault loses `MaxBatch` records at most | |
| `NothingIsHandedOnTwice` | no topic has two records of one origin but for different clients or an alerter listed twice; no line twice behind a prefilter or an inspector | lines: `CollectedOnce` |
| `RowsNameRecords` | a row of `batch_tree` describes a record of the stage's topic, under the row its sender recorded | |
| `AlertsAreCaused` | an alert is of a committed batch whose lines are all recorded as detected, and names only what its detector consumed, of one client but for windows per domain | |
| `PoolTypeCorrect`, `PartitionsFound` | type invariant of the pool; a working worker has its partitions | |
| `WindowsTypeCorrect`, `WarningsQuoteWindows`, `StaleGo`, `WindowsHoldRecentTraffic` | type invariant of the windows; a warning is one window; stale windows go; a window is the end of what its pair got, a message in it once more for each fault at most; windows and warnings exceed their bound by one message for each fault at most | |

A proviso is a switch under which the code does not keep the promise (see the
end of section 3): where it is set, the property fails.

**The stage.** "Applied once" is not inductive: whether a commit applies
something twice depends on what the transaction holds and on who else may
commit. `StageInvariant` says (a) which steps of the loop a worker with a given
batch and transaction can be in, (b) that a batch stamped with the current epoch
of a current member is a run of the log that starts at the committed offset, or
else that a transaction holding its offsets is already decided, (c) that a
transaction's records and offsets are those of the batch, and (d) that offsets
of one partition are pending in one transaction at most. From (a)-(d) each
commit moves an offset over exactly the records it publishes. Each part is
proved by one lemma per action that can disturb it.

**The sink.** `SinkInvariant` accounts for every record between the committed
offset and a worker's position: it is still to be handed over, waits as a row of
its table, or has a row in ClickHouse. A batch that is current begins at the
committed offset, so an accepted commit passes only records of the third kind.
Every way out of a batch discards its rows.

How often a record is inserted needs a second account. `Attempts(r)` is the set
of those who may still insert `r` without another failure: a worker that has it
ahead of its position, in its batch or among its rows, and, when nobody who
holds the topic will see to it, the next holder. The rows of `r` and its
attempts together are never more than one and the failures
(`AttemptsAccountedFor`): an insert turns an attempt into a row, a revocation
hands the attempt on, and only a failure makes a new one, be it an expulsion
that leaves the old worker with its rows, a lost answer, or a crash.
`StepOutcome` says of each worker's step which of these it is, `AccountStep` does
the counting.

**The collector.** `CollectorInvariant` says that the batch handler holds lines
of the open `transaction_batch` and no others at its end, that each record
handed over is in one place (a batch or one collected packet), and that a fetch
which can still commit starts at the committed offset. What a worker holds
depends on that worker alone, so the proof takes the conjuncts worker by worker:
`LocalStep` for the worker that moves, `LocalOfOthers` for the rest,
`SentByCommit` for the one step that publishes.

**The producers.** In `ProducerInvariant`, a caller that waits for its report has
nothing else in the client, so a reset loses nothing of the simple producer; and
a record that may still be produced, in the queue or by the caller, has one copy
less than it may have. `LossInvariant` charges the telemetry that is lost to the
failures: one record for a failed delivery, a full queue for a client that is
given up. While the producer is being reset the charge is already made and the
queue not yet lost, which is the extra term.

**The pipeline.** None of the four properties is inductive: each is about
committed records, and a record is committed with whatever the open transaction
holds. `PipelineInvariant` therefore says the same of the records in `output` as
of those in `topic`, and ties the open transaction to the cursors: what is in it
was made from records behind `first` and not behind `at` (`Sources`), while what
is in a topic was made from records up to the committed offset. As `offset` is
not behind `first`, a commit adds no origin that its topics have already
(`Unrepeated`), however often the batch was tried, and turns the account of the
lines of the open batch (`OpenAccounted`) into one of the lines dealt with
(`DealtAccounted`). `MadeFrom` is what a stage can make of one record, proved for
each kind of stage by a lemma (`PrefilterSends` to `AlerterSends`); it takes the
lines of a detector's warning back to its topic, which needs `Windows`, and
their client to the key of the batch, which needs that chains without a detector
per domain pass on lines of one client only (`ForOneClient`). For the client of
what a warning quotes, `Quotable` has a line of the batch in each request, and
all lines of a window per source have its client; the ids an alert names are
some of these (`FirstIdsFacts`, which takes the least rank). That a batch with an
alert is recorded as detected is kept with the alert from its production on
(`Marked`), and two records of one origin differ in their client or their place
in the list of alerters (`Apart`). `Rows` needs of every record a stage
reads that its parent is a row already, also while the sender's transaction is
open (`Named`): the rows are recorded before the commit, and stay when it fails.
`Losses` counts what a stage has passed over but not yet committed (`Skipped`)
together with `lost`: a swallowed exception adds a batch to it, a commit moves
it, an abort or a restart takes it back. `SendsToKinds` is what these proofs need
of the routing: one prefilter sends to an inspector, one inspector to a
detector, only detectors to chains and alerters.

The assumptions are that the configurations are well-formed, that there are
finitely many lines and that collectors send no empty batch; nothing is assumed
of how lines are distributed over batches, nor of the shape of the detectors'
chains, which may branch, join and close to a cycle.

**The alert logs.** `LogInvariant` says how far each worker is through its
partition (`Behind`, `Unlogged`) and that what lies before is logged or given up;
a line that is still to be written has at most as many copies as there were
faults. `FilesRetained` needs none of this, only the dates: the cutoff is counted
from a day that has begun, so no file of a later date goes.

**The worker pool.** Topics never shrink, and a process that is past its
visibility check has seen its target; metadata that is behind shows fewer
partitions, never more (`PoolInvariant`).

**The windows.** `WindowsInvariant` gives each window its pair and its bound,
which a prediction's cut restores and a prediction that raises moves by the one
message it counts as a fault, and keeps requests within them on their way
through warnings, transaction and topic. The times need no order: what is not
`touched` since the last check was either fresh then or removed by it.
`WindowIsRecentTraffic` needs the past: `History` says that a window is the end of
what its pair got (`EndOf`, which `Append` and the cut both keep) and counts how
often a message came. A message that the worker is through with (`Passed`) came
at most once more than there were faults, any other at most as often as there
were: `Detect` makes its message `Passed`, and only a fault takes that back. A
window holds no more copies than its history, by an injection into it. It is
never empty when `Cut < MaxWindow`, as the code sets them (5 and 10); were they
equal, a full window would lose everything, and the property says so.

The inductive invariants are proved and therefore not listed in runs, as are
`NothingAppliedTwice` and `BatchIsNext`.

What is model-checked only: liveness (`LogIsWorkedOff`, `EverythingArrives`,
`Drained`, `EverythingHandedOver`, `ContainersServe`), since the prover reasons
about neither fairness nor `ENABLED`, and the expected violations. Every
invariant and action property of a passing run is the subject of a theorem. No
module declares a RECURSIVE operator.

## 5. What is not modelled

* What a stage computes: validation of log lines, relevance rules, anomaly
  scores, features, model output. Pure functions of text or floating-point
  numbers; their verdicts are attributes of records or free choices.
* Training, mock generators, hardware detection, configuration access and record
  types: offline, or without state.
* The single-message consume path (`_consume_single`), which no stage uses; the
  batch timer, which the collector switches off; the log server's rows; the
  scaler's file beside the model's; the executor's configuration; the wait for
  ClickHouse in the entrypoint, a second wait like that for Kafka; a topic's
  replication factor.
* Delays between retries. A retry without limit is an action that stays enabled,
  one with a deadline may give up at any time.
* The mixture of standalone and batch transactions on one transactional producer
  that a finalized batch handler leads to: `LogCollector` has its effect on the
  packets, `Producers` the standalone transaction.

Some states the code cannot leave are left out because no property could say
more than that it stays in them: a record at the head of a partition that
raises in every collector (`collector.py:160`), a non-retriable error of Kafka
retried forever (`producer.py:78`), a detector that names an unknown
`consume_from` (`detector.py:100`), a time outside of the inspector's grid
(`stream_ad_inspector.py:119`), and rows ClickHouse never accepts
(`clickhouse_batch_sender.py:337`).

## 6. What could follow

1. The refinement of two neighbouring stages of `Pipeline` by `ExactlyOnce`.
2. A transactional producer that serves a batch and a finalizer at once.
3. Inserts that fail for one row and for good, once the sender tells them from an
   outage.
4. `retry.py` as functions of the attempt: bounds of delay and deadline.
