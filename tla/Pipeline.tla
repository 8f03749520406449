------------------------------- MODULE Pipeline -------------------------------
(***************************************************************************)
(* The stages between the collectors and the alerters, composed over the   *)
(* topics that connect them: what becomes of every log line on its way,    *)
(* which rows describe it in the monitoring database, and what reaches the *)
(* alerters.  One worker runs each configured instance.  A transaction is  *)
(* taken here as what TransactionalStage is shown to make of it: the       *)
(* outputs and the offset are published together or not at all.            *)
(***************************************************************************)
EXTENDS TopicRouting, Integers, FiniteSets, SequencesExt

CONSTANTS Configurations,  \* the configurations explored
          Lines,           \* log lines
          Client,          \* Client[l]: src_ip of line l
          Domain,          \* Domain[l]: its domain_name without subdomains
          Rank,            \* Rank[l]: place of its logline_id among all ids
          MaxNamed,        \* logline_ids an alert names of one warning
          Relevant,        \* lines the prefilters' rule keeps
          Collected,       \* Collected[p]: line sets of the batches sent to p
          BySource,        \* detectors with a window per source and domain
          ByDomain,        \* detectors with a window per domain
          MaxBatch,        \* max_num_messages of consume()
          MaxFaults        \* faults in a behaviour

ASSUME PipelineAssumption ==
  /\ Configurations \subseteq Configuration
  /\ Relevant \subseteq Lines
  /\ IsFiniteSet(Lines)
  /\ Rank \in [Lines -> Nat] /\ MaxNamed \in Nat \ {0}
  /\ Collected \in [Prefilters -> Seq((SUBSET Lines) \ {{}})]
  /\ BySource \subseteq Detectors /\ ByDomain \subseteq Detectors
  /\ MaxBatch \in Nat \ {0} /\ MaxFaults \in Nat

VARIABLES
  config,     \* the configuration the services were started with
  topic,      \* topic[t]: committed records of topic t
  offset,     \* offset[s]: committed offset of the group of stage s
  state,      \* state[s]: "polling", "processing" or "down"
  position,   \* position[s]: offset of the next record to consume
  first,      \* first[s]: offset of the first record of the open batch
  at,         \* at[s]: offset of the next record of the batch to process
  output,     \* output[s][t]: records for t in the open transaction of s
  memory,     \* memory[s]: parent_row_id, batch_id, key and messages
  window,     \* window[s]: lines that the message_queues of s may hold
  attempt,    \* attempt[s]: records begun by s, numbers its row ids
  tree,       \* rows of batch_tree
  ends,       \* <<line, stage, status>>: inactive rows of logline_timestamps
  lost,       \* <<stage, offset>> committed without having been processed
  faults

messaging == <<topic, offset, position, first, at, state, output, lost>>
records == <<tree, ends, attempt, memory, window>>
vars == <<config, messaging, records, faults>>

NoRow == <<>>

(* A batch as it is sent.  The origin is history, no part of the message:  *)
(* the stage and the record of its topic that the batch was made from.     *)
Batch(origin, parent, batch, key, lines) ==
  [origin |-> origin, parent |-> parent, batch |-> batch, key |-> key, lines |-> lines]

Consumed(s) == topic[ConsumeTopic(config, s)]
NothingInMemory == Batch(NoRow, NoRow, NoRow, NoRow, {})
NoOutput == [t \in Topics |-> <<>>]

(* A collector sends no batch without lines.                               *)
FromCollector(p, n) ==
  Batch(<<<<"collector", p>>, n>>, <<<<"collector", p>>, n>>, <<"batch", p, n>>, "subnet",
        Collected[p][n])

Init ==
  /\ config \in Configurations
  /\ topic = [t \in Topics |->
       IF t[1] = "prefilter"
         THEN [n \in 1 .. Len(Collected[t[2]]) |-> FromCollector(t[2], n)]
         ELSE <<>>]
  /\ offset = [s \in Stages |-> 0] /\ position = offset /\ first = offset /\ at = offset
  /\ state = [s \in Stages |-> "polling"]
  /\ output = [s \in Stages |-> NoOutput]
  /\ memory = [s \in Stages |-> NothingInMemory]
  /\ window = [s \in Stages |-> {}]
  /\ attempt = [s \in Stages |-> 0]
  /\ tree = {} /\ ends = {} /\ lost = {} /\ faults = 0

-----------------------------------------------------------------------------
(* One record of the open batch.                                           *)

(* Seeded fault: a batch is taken only once it is full.                    *)
FetchFull(s) ==
  /\ state[s] = "polling" /\ position[s] + MaxBatch <= Len(Consumed(s))
  /\ position' = [position EXCEPT ![s] = @ + MaxBatch]
  /\ first' = [first EXCEPT ![s] = position[s]]
  /\ at' = [at EXCEPT ![s] = position[s]]
  /\ state' = [state EXCEPT ![s] = "processing"]
  /\ UNCHANGED <<config, topic, offset, output, lost, records, faults>>

(* consume_batch: up to MaxBatch records, a transaction begins.            *)
Fetch(s) ==
  /\ state[s] = "polling"
  /\ \E n \in 1 .. MaxBatch :
       /\ position[s] + n <= Len(Consumed(s))
       /\ position' = [position EXCEPT ![s] = @ + n]
  /\ first' = [first EXCEPT ![s] = position[s]]
  /\ at' = [at EXCEPT ![s] = position[s]]
  /\ state' = [state EXCEPT ![s] = "processing"]
  /\ UNCHANGED <<config, topic, offset, output, lost, records, faults>>

(* get_and_fill_data.  The prefilter clears first, the others do not take  *)
(* a record while they hold messages.  A record without data leaves the    *)
(* ids of the one before, but in the inspector.                            *)
PrefilterFills(s, r) ==
  IF r.lines = {} THEN [memory[s] EXCEPT !.key = r.key, !.lines = {}] ELSE r
InspectorFills(s, r) == IF memory[s].lines # {} THEN memory[s] ELSE r
DetectorFills(s, r) == IF memory[s].lines # {} \/ r.lines = {} THEN memory[s] ELSE r

Filled(s, r) ==
  CASE s[1] = "prefilter" -> PrefilterFills(s, r)
    [] s[1] = "detector"  -> DetectorFills(s, r)
    [] OTHER              -> InspectorFills(s, r)

(* Seeded fault: the messages are kept.                                    *)
NotCleared(m) == m

(* clear_data, in the finally clause of every record.                      *)
Cleared(m) == [m EXCEPT !.lines = {}]

Here(s) == <<s, at[s] + 1>>
RowId(s, entry) == <<s, attempt[s], entry>>
Row(s, entry, m, batch) == [row |-> RowId(s, entry), parent |-> m.parent, batch |-> batch]
Ended(s, lines, status) == {<<l, s, status>> : l \in lines}
To(topics, r) == {<<t, r>> : t \in topics}
SentTo(result, t) == {x[2] : x \in {y \in result.sent : y[1] = t}}

(* Seeded fault: a batch is sent on even when no line of it is left.       *)
SendsEmptyBatches(s, m) ==
  {[sent |-> To(InspectorTopics(config, s[2]),
                Batch(Here(s), RowId(s, "finished"), m.batch, m.key, m.lines \cap Relevant)),
    rows |-> {Row(s, "finished", m, m.batch)},
    ended |-> Ended(s, m.lines \ Relevant, "filtered_out")]}

(* check_data_relevance_using_rules and send_filtered_data                 *)
PrefilterResults(s, m) ==
  LET kept == m.lines \cap Relevant
  IN  {[sent |-> IF kept = {} THEN {}
                 ELSE To(InspectorTopics(config, s[2]),
                         Batch(Here(s), RowId(s, "finished"), m.batch, m.key, kept)),
        rows |-> IF kept = {} THEN {} ELSE {Row(s, "finished", m, m.batch)},
        ended |-> Ended(s, m.lines \ kept, "filtered_out")]}

(* Seeded fault: the line that opens a client's bucket is not put into it. *)
SuspiciousWithoutFirst(s, m) ==
  LET clients == {Client[l] : l \in m.lines}
      own(c) == {l \in m.lines : Client[l] = c}
      id(c) == <<"suspicious", s, attempt[s], c>>
  IN  [sent |-> UNION {To(DetectorTopics(config, s[2]),
                          Batch(Here(s), RowId(s, "finished"), id(c), c,
                                own(c) \ {CHOOSE l \in own(c) : TRUE})) : c \in clients},
       rows |-> {Row(s, "finished", m, id(c)) : c \in clients},
       ended |-> {}]

(* inspect and send_data: a suspicious batch leaves as one new batch per   *)
(* client, all of them under one row id.                                   *)
Suspicious(s, m) ==
  LET clients == {Client[l] : l \in m.lines}
      id(c) == <<"suspicious", s, attempt[s], c>>
  IN  [sent |-> UNION {To(DetectorTopics(config, s[2]),
                          Batch(Here(s), RowId(s, "finished"), id(c), c, {l \in m.lines : Client[l] = c}))
                         : c \in clients},
       rows |-> {Row(s, "finished", m, id(c)) : c \in clients},
       ended |-> {}]

InspectorResults(s, m) ==
  {Suspicious(s, m),
   [sent |-> {}, rows |-> {Row(s, "finished", m, m.batch)},
    ended |-> Ended(s, m.lines, "filtered_out")]}

(* The queue of message_queues that line l of a detector with windows is   *)
(* appended to.                                                            *)
Group(s, l) == IF s[2] \in ByDomain THEN <<Domain[l]>> ELSE <<Client[l], Domain[l]>>

(* What a warning may quote in its request: one message, or the window     *)
(* that a message of the batch has just been appended to.  (How long       *)
(* a window must be, where it is cut and when it expires: see              *)
(* DomainatorWindows.)                                                     *)
Quotable(s, m) ==
  IF s[2] \in BySource \cup ByDomain
    THEN {r \in SUBSET (m.lines \cup window[s]) :
            r \cap m.lines # {} /\ \A k, l \in r : Group(s, k) = Group(s, l)}
    ELSE {{l} : l \in m.lines}

(* Seeded fault: one window for all sources and domains.                   *)
RequestsOfAnySource(s, m) ==
  SUBSET {r \in SUBSET (m.lines \cup window[s]) : r \cap m.lines # {}}

(* detect: the requests of the warnings of a batch, any number of them.    *)
Requests(s, m) == SUBSET Quotable(s, m)

(* _compact_warning_for_kafka: sorted(ids)[:100].                          *)
FirstIds(request) ==
  {l \in request : Cardinality({k \in request : Rank[k] < Rank[l]}) < MaxNamed}

(* send_warning: the alert for place k of the list of topics.  It names    *)
(* some lines of each warning, and in its detector_name (here the parent   *)
(* field) its detector; the place is history.                              *)
Alert(s, m, requests, k) ==
  Batch(Here(s), <<s, k>>, m.batch, m.key, UNION {FirstIds(r) : r \in requests})

(* _send_detector_batch: the requests of all warnings.                     *)
Forwarded(s, m, requests) ==
  Batch(Here(s), RowId(s, "finished"), m.batch, m.key, UNION requests)

Warned(s, m, requests) ==
  LET c == config.detector[s[2]]
      topics == AlerterTopics(c)
  IN  [sent |-> IF requests = {} THEN {}
                ELSE {<<topics[k], Alert(s, m, requests, k)>> : k \in DOMAIN topics}
                       \cup To(ChainTopics(c), Forwarded(s, m, requests)),
       rows |-> {Row(s, "finished", m, m.batch)},
       ended |-> Ended(s, m.lines, IF requests = {} THEN "filtered_out" ELSE "detected")]

(* What a stage may make of message data m; an alerter forwards the alert. *)
Results(s, m) ==
  CASE s[1] = "prefilter" -> PrefilterResults(s, m)
    [] s[1] = "inspector" -> InspectorResults(s, m)
    [] s[1] = "detector"  -> {Warned(s, m, requests) : requests \in Requests(s, m)}
    [] s[1] = "alerter"   -> {[sent |-> To({External}, [m EXCEPT !.origin = Here(s)]), rows |-> {}, ended |-> {}]}

InProcess(s, m) == IF s[1] = "alerter" THEN {} ELSE {Row(s, "in_process", m, m.batch)}

-----------------------------------------------------------------------------
(* The loop of a stage.                                                    *)

(* The monitoring rows are not part of the transaction.                    *)
RecordRows(s, rows, ended) ==
  /\ tree' = tree \cup rows
  /\ ends' = ends \cup ended
  /\ attempt' = [attempt EXCEPT ![s] = @ + 1]

Remember(s, m) ==
  window' = IF s[2] \in BySource \cup ByDomain
              THEN [window EXCEPT ![s] = @ \cup m.lines]
              ELSE window

(* One record of the open batch, from get_and_fill_data to clear_data.     *)
Process(s) ==
  /\ state[s] = "processing" /\ at[s] < position[s]
  /\ LET m == Filled(s, Consumed(s)[at[s] + 1])
     IN  \E result \in Results(s, m) :
           /\ RecordRows(s, InProcess(s, m) \cup result.rows, result.ended)
           /\ output' = [output EXCEPT ![s] = [t \in Topics |-> @[t] \o SetToSeq(SentTo(result, t))]]
           /\ memory' = [memory EXCEPT ![s] = Cleared(m)]
           /\ Remember(s, m)
  /\ at' = [at EXCEPT ![s] = @ + 1]
  /\ UNCHANGED <<config, topic, offset, position, first, state, lost, faults>>

Fault == faults < MaxFaults /\ faults' = faults + 1

(* Seeded fault: the offset is not part of the transaction.                *)
CommitWithoutOffset(s) ==
  /\ state[s] = "processing" /\ at[s] = position[s]
  /\ topic' = [t \in Topics |-> topic[t] \o output[s][t]]
  /\ output' = [output EXCEPT ![s] = NoOutput]
  /\ state' = [state EXCEPT ![s] = "polling"]
  /\ UNCHANGED <<config, offset, lost, position, first, at, records, faults>>

(* transaction_batch: the outputs and the offset after the batch, at once. *)
Commit(s) ==
  /\ state[s] = "processing" /\ at[s] = position[s]
  /\ topic' = [t \in Topics |-> topic[t] \o output[s][t]]
  /\ offset' = [offset EXCEPT ![s] = position[s]]
  /\ lost' = lost \cup {<<s, o>> : o \in offset[s] .. first[s] - 1}
  /\ output' = [output EXCEPT ![s] = NoOutput]
  /\ state' = [state EXCEPT ![s] = "polling"]
  /\ UNCHANGED <<config, position, first, at, records, faults>>

(* The transaction fails: its records are consumed again.                  *)
Abort(s) ==
  /\ Fault /\ state[s] = "processing"
  /\ output' = [output EXCEPT ![s] = NoOutput]
  /\ position' = [position EXCEPT ![s] = offset[s]]
  /\ state' = [state EXCEPT ![s] = "polling"]
  /\ UNCHANGED <<config, topic, offset, first, at, lost, records>>

(* Processing raises, before or after its results are recorded, and before *)
(* or after the windows took its lines: the outputs are dropped and the    *)
(* loop swallows it, going on after the batch, or it ends the worker.  The *)
(* prefilter's loop swallows nothing.                                      *)
Raise(s) ==
  /\ Fault /\ state[s] = "processing" /\ at[s] < position[s]
  /\ LET m == Filled(s, Consumed(s)[at[s] + 1])
     IN  /\ memory' = [memory EXCEPT ![s] = Cleared(m)]
         /\ \/ /\ RecordRows(s, InProcess(s, m), {})
               /\ UNCHANGED window \/ Remember(s, m)
            \/ /\ \E result \in Results(s, m) :
                    RecordRows(s, InProcess(s, m) \cup result.rows, result.ended)
               /\ Remember(s, m)
  /\ output' = [output EXCEPT ![s] = NoOutput]
  /\ \/ state' = [state EXCEPT ![s] = "polling"] /\ s[1] # "prefilter"
     \/ state' = [state EXCEPT ![s] = "down"]
  /\ UNCHANGED <<config, topic, offset, position, first, at, lost>>

Crash(s) ==
  /\ Fault /\ state[s] # "down"
  /\ state' = [state EXCEPT ![s] = "down"]
  /\ output' = [output EXCEPT ![s] = NoOutput]
  /\ UNCHANGED <<config, topic, offset, position, first, at, lost, records>>

(* A new worker starts at the committed offset, with nothing in memory.    *)
Restart(s) ==
  /\ state[s] = "down"
  /\ state' = [state EXCEPT ![s] = "polling"]
  /\ position' = [position EXCEPT ![s] = offset[s]]
  /\ memory' = [memory EXCEPT ![s] = NothingInMemory]
  /\ window' = [window EXCEPT ![s] = {}]
  /\ UNCHANGED <<config, topic, offset, first, at, output, lost, attempt, tree, ends, faults>>

Step(s) == Fetch(s) \/ Process(s) \/ Commit(s)

Next ==
  \E s \in Stages : Step(s) \/ Abort(s) \/ Raise(s) \/ Crash(s) \/ Restart(s)

Spec == Init /\ [][Next]_vars

(* The loops run on while their worker is up; nothing restarts a worker.   *)
FairSpec == Spec /\ \A s \in Stages : WF_vars(Step(s))

-----------------------------------------------------------------------------
TypeOK ==
  /\ config \in Configurations
  /\ {offset, position, first, at} \subseteq [Stages -> Nat]
  /\ state \in [Stages -> {"polling", "processing", "down"}]
  /\ window \in [Stages -> SUBSET Lines]
  /\ \A s \in Stages :
       /\ offset[s] <= position[s] /\ position[s] <= Len(Consumed(s))
       /\ state[s] = "processing" => first[s] <= at[s] /\ at[s] <= position[s]
       /\ memory[s].lines = {}

Dealt(s) == {n \in 1 .. offset[s] : <<s, n - 1>> \notin lost}
HandedOn(s, n, l) ==
  \E t \in Topics : \E i \in 1 .. Len(topic[t]) :
    topic[t][i].origin = <<s, n>> /\ l \in topic[t][i].lines
EndedBy(s, l) == \E status \in {"filtered_out", "detected"} : <<l, s, status>> \in ends
NobodyReads(s) == \/ s[1] = "prefilter" /\ InspectorTopics(config, s[2]) = {}
                  \/ s[1] = "inspector" /\ DetectorTopics(config, s[2]) = {}

(* Every line of a record that a stage has committed, unless a swallowed   *)
(* exception lost its batch, was recorded as ended by that stage or is in  *)
(* what it made of that record: no bucket, no irrelevant line, no line     *)
(* below a threshold disappears.  (What no configured stage reads is sent  *)
(* nowhere.)  An exception loses one batch; the prefilter, whose loop      *)
(* swallows nothing, loses none.                                           *)
HandedOnOrEnded ==
  /\ \A s \in Stages : s[1] # "alerter" =>
       \A n \in Dealt(s) : \A l \in Consumed(s)[n].lines :
         HandedOn(s, n, l) \/ EndedBy(s, l) \/ NobodyReads(s)
  /\ Cardinality(lost) <= MaxBatch * faults
  /\ \A x \in lost : x[1][1] # "prefilter"

CollectedOnce ==
  \A p \in Prefilters : \A m, n \in 1 .. Len(Collected[p]) :
    m # n => Collected[p][m] \cap Collected[p][n] = {}

(* Whatever was retried, no topic holds two records made from the same     *)
(* one, but for the batches of different clients and for the alerts of     *)
(* a detector that lists its alerter more than once, one for each time.    *)
(* So a line that was collected once reaches each inspector and each       *)
(* detector behind one once at most.  (Chains of detectors do repeat       *)
(* lines: their windows overlap.)                                          *)
NothingTwice ==
  \A t \in Topics : \A i, j \in 1 .. Len(topic[t]) : i # j =>
    LET one == topic[t][i]  other == topic[t][j]
    IN  /\ \/ one.origin # other.origin
           \/ t[1] = "detector" /\ one.key # other.key
           \/ t[1] = "alerter" /\ one.parent # other.parent
        /\ t[1] \in {"inspector", "detector"} /\ CollectedOnce => one.lines \cap other.lines = {}

InTree(row, batch) == \E y \in tree : y.row = row /\ y.batch = batch

(* Every row of batch_tree belongs to a record of the stage's topic, its   *)
(* parent is the row that was recorded for that record's batch, and no     *)
(* record is empty (a stage would record it under the batch before).       *)
RowsNameTheirBatch ==
  \A x \in tree :
    LET s == x.row[1]
    IN  \E n \in 1 .. Len(Consumed(s)) :
          LET r == Consumed(s)[n]
          IN  /\ r.lines # {} /\ r.parent = x.parent
              /\ r.batch = x.batch \/ (s[1] = "inspector" /\ x.row[3] = "finished")
              /\ s[1] # "prefilter" => InTree(r.parent, r.batch)

OneClientForwarded == \A e \in ByDomain : config.detector[e].next_detectors = {}

(* An alert names its detector, a batch that the detector has committed    *)
(* and that batch's key, and the monitoring database shows every line of   *)
(* that batch as detected (the alert itself need not name one of them: it  *)
(* names the first ids of a window).  It names no line that the detector   *)
(* did not consume.  A detector without windows per domain names no line   *)
(* of another client than the batch's; unless a detector with windows per  *)
(* domain forwards its warnings, all its lines are of the client it names. *)
AlertsHaveCause ==
  \A a \in Alerters : \A n \in 1 .. Len(topic[<<"alerter", a>>]) :
    LET alert == topic[<<"alerter", a>>][n]
        d == alert.origin[1]
        cause == Consumed(d)[alert.origin[2]]
    IN  /\ alert.parent[1] = d /\ alert.origin[2] \in 1 .. offset[d]
        /\ cause.batch = alert.batch /\ cause.key = alert.key
        /\ \A l \in cause.lines : <<l, d, "detected">> \in ends
        /\ \A l \in alert.lines : \E i \in 1 .. Len(Consumed(d)) : l \in Consumed(d)[i].lines
        /\ d[2] \notin ByDomain =>
             \A l \in alert.lines : /\ \E k \in cause.lines : Client[l] = Client[k]
                                    /\ OneClientForwarded => Client[l] = alert.key

(* What goes on while workers are up ends with everything consumed.        *)
Drained ==
  (\E s \in Stages : <>[](state[s] = "down"))
    \/ <>[](\A s \in Stages : state[s] = "polling" /\ position[s] = Len(Consumed(s)))
===============================================================================
