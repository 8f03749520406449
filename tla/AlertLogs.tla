------------------------------- MODULE AlertLogs -------------------------------
(***************************************************************************)
(* What the workers of an alerter do with an alert outside Kafka: they     *)
(* append it to the log file of the day, remove the files that are too     *)
(* old, and record a terminal event for the server messages it names.      *)
(* None of it is undone when the transaction that forwards the alert       *)
(* aborts.  Each worker keeps one partition (TransactionalStage has the    *)
(* rebalances); the files are shared.                                      *)
(***************************************************************************)
EXTENDS Integers, FiniteSets

CONSTANTS Workers,
          LogLength,    \* alerts in a worker's partition
          Settings,     \* values of log_rotation.retention_days explored
          None,         \* retention_days: null
          MaxBatch,     \* alerts of one transaction
          LastDay,      \* the behaviour covers days 0 .. LastDay
          MaxFaults     \* faults in a behaviour

ASSUME AlertLogsAssumption ==
  /\ LogLength \in Nat /\ MaxBatch \in Nat \ {0}
  /\ LastDay \in Nat /\ MaxFaults \in Nat
  /\ None \notin Int /\ Settings \subseteq Int \cup {None}

VARIABLES
  day,         \* the clock's date
  setting,     \* log_rotation.retention_days
  committed,   \* committed[w]: offset of the group in w's partition
  position,    \* position[w]: next offset w consumes
  first, at,   \* first[w], at[w]: start of the open batch, alert being worked on
  step,        \* step[w]: where w is in its loop
  path,        \* path[w]: date of the file w is about to append to, or 0
  cleaned,     \* cleaned[w]: _last_log_cleanup_date
  files,       \* dates of the log files
  dates,       \* dates[r]: dates whose file has got a line of alert r
  written,     \* written[r]: lines appended for r
  events,      \* alerts with a terminal event
  outbox,      \* outbox[w]: alerts produced in the open transaction
  forwarded,   \* forwarded[r]: committed records of r in the external topic
  abandoned,   \* alerts of batches given up by a swallowed exception
  faults

cursor == <<committed, position, first, at>>
logs == <<cleaned, files, dates, written>>
vars == <<day, setting, cursor, step, path, logs, events, outbox, forwarded, abandoned, faults>>

Alerts == Workers \X (0 .. LogLength - 1)
Days == 0 .. LastDay
Steps == {"polling", "open", "cleanup", "append", "forward", "commit", "down"}

(* _parse_log_retention_days                                               *)
RetentionDays == IF setting = None THEN None ELSE IF setting < 1 THEN 1 ELSE setting

(* Files dated before the cutoff are too old.                              *)
Expired(today) == IF RetentionDays = None THEN {} ELSE {d \in Days : d < today - (RetentionDays - 1)}

Init ==
  /\ day = 0 /\ setting \in Settings
  /\ committed = [w \in Workers |-> 0] /\ position = committed /\ first = committed /\ at = committed
  /\ step = [w \in Workers |-> "polling"]
  /\ path = [w \in Workers |-> 0] /\ cleaned = [w \in Workers |-> None]
  /\ files = {} /\ dates = [r \in Alerts |-> {}] /\ written = [r \in Alerts |-> 0]
  /\ events = {} /\ abandoned = {}
  /\ outbox = [w \in Workers |-> {}] /\ forwarded = [r \in Alerts |-> 0]
  /\ faults = 0

Midnight ==
  /\ day < LastDay /\ day' = day + 1
  /\ UNCHANGED <<setting, cursor, step, path, logs, events, outbox, forwarded, abandoned, faults>>

(* consume_batch                                                           *)
Fetch(w) ==
  /\ step[w] = "polling"
  /\ \E n \in 1 .. MaxBatch :
       /\ position[w] + n <= LogLength
       /\ position' = [position EXCEPT ![w] = @ + n]
  /\ first' = [first EXCEPT ![w] = position[w]]
  /\ at' = [at EXCEPT ![w] = position[w]]
  /\ step' = [step EXCEPT ![w] = "open"]
  /\ UNCHANGED <<day, setting, committed, path, logs, events, outbox, forwarded, abandoned, faults>>

(* Seeded fault: the terminal event comes before the actions.              *)
OpenLogAfterEvent(w) ==
  /\ step[w] = "open"
  /\ events' = events \cup {<<w, at[w]>>}
  /\ path' = [path EXCEPT ![w] = day]
  /\ step' = [step EXCEPT ![w] = "cleanup"]
  /\ UNCHANGED <<day, setting, cursor, logs, outbox, forwarded, abandoned, faults>>

(* _get_active_log_file_path: today's file.                                *)
OpenLog(w) ==
  /\ step[w] = "open"
  /\ path' = [path EXCEPT ![w] = day]
  /\ step' = [step EXCEPT ![w] = "cleanup"]
  /\ UNCHANGED <<day, setting, cursor, logs, events, outbox, forwarded, abandoned, faults>>

(* Seeded fault: the file that has just come of age goes as well.          *)
CleanupInclusive(w) ==
  /\ step[w] = "cleanup"
  /\ IF RetentionDays = None \/ cleaned[w] = day
       THEN UNCHANGED <<cleaned, files>>
       ELSE /\ files' = files \ {d \in Days : d <= day - (RetentionDays - 1)}
            /\ cleaned' = [cleaned EXCEPT ![w] = day]
  /\ step' = [step EXCEPT ![w] = "append"]
  /\ UNCHANGED <<day, setting, cursor, path, dates, written, events, outbox, forwarded,
                 abandoned, faults>>

(* Seeded fault: a worker that has cleaned up today returns too early.     *)
CleanupReturns(w) ==
  /\ step[w] = "cleanup"
  /\ IF RetentionDays = None \/ cleaned[w] = day
       THEN UNCHANGED <<cleaned, files>> /\ step' = [step EXCEPT ![w] = "forward"]
       ELSE /\ files' = files \ Expired(day)
            /\ cleaned' = [cleaned EXCEPT ![w] = day]
            /\ step' = [step EXCEPT ![w] = "append"]
  /\ UNCHANGED <<day, setting, cursor, path, dates, written, events, outbox, forwarded,
                 abandoned, faults>>

(* _cleanup_rotated_logs: once a day for each worker, which asks the clock *)
(* again.                                                                  *)
Cleanup(w) ==
  /\ step[w] = "cleanup"
  /\ IF RetentionDays = None \/ cleaned[w] = day
       THEN UNCHANGED <<cleaned, files>>
       ELSE /\ files' = files \ Expired(day)
            /\ cleaned' = [cleaned EXCEPT ![w] = day]
  /\ step' = [step EXCEPT ![w] = "append"]
  /\ UNCHANGED <<day, setting, cursor, path, dates, written, events, outbox, forwarded,
                 abandoned, faults>>

(* open(path, "a+") and one line.                                          *)
Append(w) ==
  /\ step[w] = "append"
  /\ files' = files \cup {path[w]}
  /\ dates' = [dates EXCEPT ![<<w, at[w]>>] = @ \cup {path[w]}]
  /\ written' = [written EXCEPT ![<<w, at[w]>>] = @ + 1]
  /\ path' = [path EXCEPT ![w] = 0]
  /\ step' = [step EXCEPT ![w] = "forward"]
  /\ UNCHANGED <<day, setting, cursor, cleaned, events, outbox, forwarded, abandoned, faults>>

(* Seeded fault: one alert too many.                                       *)
ForwardPastEnd(w) ==
  /\ step[w] = "forward"
  /\ outbox' = [outbox EXCEPT ![w] = @ \cup {<<w, at[w]>>}]
  /\ events' = events \cup {<<w, at[w]>>}
  /\ at' = [at EXCEPT ![w] = @ + 1]
  /\ step' = [step EXCEPT ![w] = IF at[w] < position[w] THEN "open" ELSE "commit"]
  /\ UNCHANGED <<day, setting, committed, position, first, path, logs, forwarded, abandoned, faults>>

(* _log_to_kafka_action, _record_alerter_terminal_events, then the next    *)
(* alert of the batch.                                                     *)
Forward(w) ==
  /\ step[w] = "forward"
  /\ outbox' = [outbox EXCEPT ![w] = @ \cup {<<w, at[w]>>}]
  /\ events' = events \cup {<<w, at[w]>>}
  /\ at' = [at EXCEPT ![w] = @ + 1]
  /\ step' = [step EXCEPT ![w] = IF at[w] + 1 < position[w] THEN "open" ELSE "commit"]
  /\ UNCHANGED <<day, setting, committed, position, first, path, logs, forwarded, abandoned, faults>>

(* Seeded fault: the consumer goes back to the batch it has committed.     *)
CommitRereads(w) ==
  /\ step[w] = "commit"
  /\ forwarded' = [r \in Alerts |-> IF r \in outbox[w] THEN forwarded[r] + 1 ELSE forwarded[r]]
  /\ outbox' = [outbox EXCEPT ![w] = {}]
  /\ committed' = [committed EXCEPT ![w] = position[w]]
  /\ position' = [position EXCEPT ![w] = first[w]]
  /\ step' = [step EXCEPT ![w] = "polling"]
  /\ UNCHANGED <<day, setting, first, at, path, logs, events, abandoned, faults>>

(* The transaction commits the forwarded alerts with the offset.           *)
Commit(w) ==
  /\ step[w] = "commit"
  /\ forwarded' = [r \in Alerts |-> IF r \in outbox[w] THEN forwarded[r] + 1 ELSE forwarded[r]]
  /\ outbox' = [outbox EXCEPT ![w] = {}]
  /\ committed' = [committed EXCEPT ![w] = position[w]]
  /\ step' = [step EXCEPT ![w] = "polling"]
  /\ UNCHANGED <<day, setting, position, first, at, path, logs, events, abandoned, faults>>

Fault(w) ==
  /\ faults < MaxFaults /\ faults' = faults + 1
  /\ outbox' = [outbox EXCEPT ![w] = {}] /\ path' = [path EXCEPT ![w] = 0]
  /\ UNCHANGED <<day, setting, committed, first, at, files, dates, written, events, forwarded>>

InBatch(w) == step[w] \notin {"polling", "down"}

(* The transaction aborts; the batch is consumed again.                    *)
Abort(w) ==
  /\ Fault(w) /\ InBatch(w)
  /\ position' = [position EXCEPT ![w] = committed[w]]
  /\ step' = [step EXCEPT ![w] = "polling"]
  /\ UNCHANGED <<cleaned, abandoned>>

(* An exception the loop swallows (anything but an IOError) gives up the   *)
(* rest of the batch: the worker goes on behind it.                        *)
Swallow(w) ==
  /\ Fault(w) /\ InBatch(w) /\ step[w] # "commit"
  /\ abandoned' = abandoned \cup {<<w, o>> : o \in first[w] .. position[w] - 1}
  /\ step' = [step EXCEPT ![w] = "polling"]
  /\ UNCHANGED <<position, cleaned>>

(* An IOError, from the file say, or the death of the process.             *)
Die(w) ==
  /\ Fault(w) /\ step[w] # "down"
  /\ step' = [step EXCEPT ![w] = "down"]
  /\ UNCHANGED <<position, cleaned, abandoned>>

Restart(w) ==
  /\ step[w] = "down"
  /\ position' = [position EXCEPT ![w] = committed[w]]
  /\ cleaned' = [cleaned EXCEPT ![w] = None]
  /\ step' = [step EXCEPT ![w] = "polling"]
  /\ UNCHANGED <<day, setting, committed, first, at, path, files, dates, written, events, outbox,
                 forwarded, abandoned, faults>>

Next ==
  \/ Midnight
  \/ \E w \in Workers :
       \/ Fetch(w) \/ OpenLog(w) \/ Cleanup(w) \/ Append(w) \/ Forward(w) \/ Commit(w)
       \/ Abort(w) \/ Swallow(w) \/ Die(w) \/ Restart(w)

Spec == Init /\ [][Next]_vars

-----------------------------------------------------------------------------
TypeOK ==
  /\ day \in Days /\ setting \in Settings /\ faults \in 0 .. MaxFaults
  /\ committed \in [Workers -> 0 .. LogLength] /\ position \in [Workers -> 0 .. LogLength]
  /\ first \in [Workers -> 0 .. LogLength] /\ at \in [Workers -> 0 .. LogLength]
  /\ step \in [Workers -> Steps] /\ path \in [Workers -> Days]
  /\ cleaned \in [Workers -> Days \cup {None}] /\ files \subseteq Days
  /\ dates \in [Alerts -> SUBSET Days] /\ written \in [Alerts -> Nat]
  /\ events \subseteq Alerts /\ abandoned \subseteq Alerts
  /\ outbox \in [Workers -> SUBSET Alerts] /\ forwarded \in [Alerts -> Nat]

(* A file a line was appended to stays until its date is out of the        *)
(* configured number of days, whichever worker cleans up at what time.     *)
RetainedAsConfigured ==
  \A r \in Alerts : \A d \in dates[r] : d \in files \/ d \in Expired(day)

(* A repeated line takes a fault: at most one line more for each.          *)
OneLineMorePerFault == \A r \in Alerts : written[r] <= 1 + faults

(* An alert that has its terminal event, or that is in the external topic, *)
(* is in the log, and it is in the topic once.                             *)
ForwardedOnceAndLogged ==
  \A r \in Alerts :
    /\ forwarded[r] <= 1
    /\ r \in events \/ forwarded[r] = 1 => written[r] > 0

(* To the offset, the log files are an at-least-once sink: an alert is     *)
(* committed after it was logged, or was given up by a swallowed exception.*)
AtLeastOnceLog ==
  INSTANCE AtLeastOnce WITH Tables <- Workers, Invalid <- {}, committed <- committed,
    stored <- [r \in Alerts |-> written[r] + IF r \in abandoned THEN 1 ELSE 0]
ImplementsAtLeastOnce == AtLeastOnceLog!Spec
===============================================================================
