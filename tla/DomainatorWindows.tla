--------------------------- MODULE DomainatorWindows ---------------------------
(***************************************************************************)
(* The memory of the Domainator plugins between batches.  The detector     *)
(* keeps a window of messages for each source and domain, predicts on full *)
(* windows and drops those that have been stale for long, by the time the  *)
(* messages carry; the attributor behind it keeps a queue for each domain. *)
(* An abort takes back the outputs of a batch but not what it did to the   *)
(* windows.                                                                *)
(***************************************************************************)
EXTENDS Integers, Sequences, SequencesExt, FiniteSets

CONSTANTS Pairs,       \* pairs of a source and a domain
          DomainOf,    \* DomainOf[p]: the domain of pair p
          Times,       \* timestamps of messages
          MaxLog,      \* records of the consumed topic
          MaxRecord,   \* messages in a record
          DetectAt,    \* requests_detect_threshold
          MaxWindow,   \* max_window_requests
          Cut,         \* max_window_cut
          Expiration,  \* domain_expiration_hours
          Interval,    \* expiry_check_interval_hours
          PredictAt,   \* queue length from which the attributor predicts
          DropAt,      \* queue length from which it drops a message
          MaxBatch, MaxFaults

ASSUME WindowsAssumption ==
  /\ MaxLog \in Nat /\ MaxRecord \in Nat /\ MaxBatch \in Nat
  /\ Times \subseteq Nat /\ Expiration \in Nat /\ Interval \in Nat
  /\ DetectAt \in Nat /\ MaxWindow \in Nat /\ Cut \in 1 .. MaxWindow /\ DetectAt <= MaxWindow
  /\ DomainOf \in [Pairs -> {DomainOf[p] : p \in Pairs}]

Never == -1            \* a timestamp that is None

VARIABLES
  log,        \* log[n][i]: pair and ts of message i of record n
  committed, position, first, at,
  next,       \* messages of the record at hand that detect is through with
  step,       \* "polling", "detecting", "expiring", "commit" or "down"
  window,     \* window[p]: timestamp and messages, for the pairs that have one
  latest,     \* latest_message_timestamp
  checked,    \* latest_expiry_timestamp
  warnings,   \* requests of the warnings of the record at hand
  output,     \* requests produced in the open transaction
  requests,   \* requests committed to the attributor's topic
  queue,      \* queue[d]: the attributor's queue of domain d
  attributed, \* requests the attributor is through with
  delivered,  \* delivered[p]: every message detect got for p since its
              \* window was opened
  touched,    \* pairs detect got a message of since the last expiry check
  faults

offsets == <<committed, position, first, at>>
memory == <<window, latest, checked, delivered, touched>>
attribution == <<queue, attributed>>
vars == <<log, offsets, next, step, memory, warnings, output, requests, attribution, faults>>

Message == [pair : Pairs, ts : Times]
Ts(id) == log[id[1]][id[2]].ts
Domains == {DomainOf[p] : p \in Pairs}

Init ==
  /\ log = <<>>
  /\ committed = 0 /\ position = 0 /\ first = 0 /\ at = 0 /\ next = 0
  /\ step = "polling"
  /\ window = [p \in {} |-> <<>>] /\ latest = Never /\ checked = Never
  /\ warnings = <<>> /\ output = <<>> /\ requests = <<>>
  /\ queue = [d \in Domains |-> <<>>] /\ attributed = 0
  /\ delivered = [p \in Pairs |-> <<>>] /\ touched = {}
  /\ faults = 0

(* The inspector sends a batch.                                            *)
Arrive ==
  /\ Len(log) < MaxLog
  /\ \E k \in 1 .. MaxRecord : \E record \in [1 .. k -> Message] : log' = Append(log, record)
  /\ UNCHANGED <<offsets, next, step, memory, warnings, output, requests, attribution, faults>>

Fetch ==
  /\ step = "polling"
  /\ \E n \in 1 .. MaxBatch : position + n <= Len(log) /\ position' = position + n
  /\ first' = position /\ at' = position /\ next' = 0
  /\ step' = "detecting"
  /\ UNCHANGED <<log, committed, memory, warnings, output, requests, attribution, faults>>

-----------------------------------------------------------------------------
(* detect                                                                  *)

Newest(a, b) == IF a > b THEN a ELSE b

(* Seeded fault: the newest messages are dropped.                          *)
CutAtTheEnd(messages) ==
  IF Len(messages) >= DetectAt /\ Len(messages) >= MaxWindow
    THEN SubSeq(messages, 1, Len(messages) - Cut)
    ELSE messages

(* A window that is long enough is predicted on, and loses its oldest      *)
(* messages when it is full.                                               *)
AfterPrediction(messages) ==
  IF Len(messages) >= DetectAt /\ Len(messages) >= MaxWindow
    THEN SubSeq(messages, Cut + 1, Len(messages))
    ELSE messages

(* The message at hand, and its window with the message appended.          *)
Id == <<at + 1, next + 1>>
Pair == log[at + 1][next + 1].pair
Appended == Append(IF Pair \in DOMAIN window THEN window[Pair].messages ELSE <<>>, Id)

(* detect takes the message at hand: its window, whose time becomes the    *)
(* message's even when that is older, is left with these messages.         *)
Take(messages) ==
  /\ step = "detecting" /\ next < Len(log[at + 1])
  /\ LET after == [timestamp |-> Ts(Id), messages |-> messages]
     IN  window' = [q \in DOMAIN window \cup {Pair} |-> IF q = Pair THEN after ELSE window[q]]
  /\ latest' = Newest(latest, Ts(Id))
  /\ delivered' = [delivered EXCEPT ![Pair] = Append(@, Id)]
  /\ touched' = touched \cup {Pair}
  /\ UNCHANGED <<log, committed, first, at, checked, requests, attribution>>

(* On to the next message, or to the end of the record.                    *)
Advance ==
  /\ next' = next + 1
  /\ step' = IF next + 1 = Len(log[at + 1]) THEN "expiring" ELSE "detecting"
  /\ UNCHANGED <<position, output, faults>>

(* Seeded fault: the warning refers to the window instead of a copy of it. *)
DetectWithoutCopy ==
  /\ Take(AfterPrediction(Appended))
  /\ \/ UNCHANGED warnings
     \/ Len(Appended) >= DetectAt /\ warnings' = Append(warnings, AfterPrediction(Appended))
  /\ Advance

(* The model finds the window, if it is long enough, malicious or not.     *)
Detect ==
  /\ Take(AfterPrediction(Appended))
  /\ \/ UNCHANGED warnings
     \/ Len(Appended) >= DetectAt /\ warnings' = Append(warnings, Appended)
  /\ Advance

(* A failure of the worker: what the open transaction holds is dropped.    *)
Fails ==
  /\ faults < MaxFaults /\ faults' = faults + 1
  /\ output' = <<>> /\ warnings' = <<>>

(* predict raises a ValueError: the message is in the window and the times *)
(* are set, but there is no warning and nothing is cut.  The loop gives    *)
(* the batch up and polls on (detector.py:878), with the window uncut.     *)
PredictRaises ==
  /\ Take(Appended) /\ Len(Appended) >= DetectAt
  /\ Fails /\ UNCHANGED <<position, next>> /\ step' = "polling"

(* Seeded fault: the age is measured at the time of the last check.        *)
StaleAtLastCheck == {p \in DOMAIN window : checked - window[p].timestamp > Expiration}

(* expire_stale_domains                                                    *)
Stale == {p \in DOMAIN window : latest - window[p].timestamp > Expiration}

(* The end of detect: the expiry check, if it is due; then send_warning    *)
(* and clear_data.                                                         *)
Expire ==
  /\ step = "expiring"
  /\ IF checked = Never \/ latest - checked > Interval
       THEN /\ window' = [p \in DOMAIN window \ Stale |-> window[p]]
            /\ delivered' = [p \in Pairs |-> IF p \in Stale THEN <<>> ELSE delivered[p]]
            /\ checked' = latest
            /\ touched' = {}
       ELSE UNCHANGED <<window, delivered, checked, touched>>
  /\ output' = output \o warnings
  /\ warnings' = <<>>
  /\ at' = at + 1 /\ next' = 0
  /\ step' = IF at + 1 < position THEN "detecting" ELSE "commit"
  /\ UNCHANGED <<log, committed, position, first, latest, requests, attribution, faults>>

-----------------------------------------------------------------------------
(* The transaction around a batch.                                         *)

(* Seeded fault: the offset committed is one too high.                     *)
CommitOneMore ==
  /\ step = "commit"
  /\ requests' = requests \o output
  /\ output' = <<>>
  /\ committed' = position + 1
  /\ step' = "polling"
  /\ UNCHANGED <<log, position, first, at, next, memory, warnings, attribution, faults>>

Commit ==
  /\ step = "commit"
  /\ requests' = requests \o output
  /\ output' = <<>>
  /\ committed' = position
  /\ step' = "polling"
  /\ UNCHANGED <<log, position, first, at, next, memory, warnings, attribution, faults>>

Fault == Fails /\ UNCHANGED <<log, committed, first, at, next, memory, requests, attribution>>

(* The batch is consumed again, or given up by the loop, or the process    *)
(* ends.                                                                   *)
Abort == Fault /\ step \notin {"polling", "down"} /\ position' = committed /\ step' = "polling"
Swallow == Fault /\ step \in {"detecting", "expiring"} /\ UNCHANGED position /\ step' = "polling"
Die == Fault /\ step # "down" /\ UNCHANGED position /\ step' = "down"

Restart ==
  /\ step = "down" /\ step' = "polling"
  /\ position' = committed
  /\ window' = [p \in {} |-> <<>>] /\ latest' = Never /\ checked' = Never
  /\ delivered' = [p \in Pairs |-> <<>>] /\ touched' = {}
  /\ UNCHANGED <<log, committed, first, at, next, warnings, output, requests, attribution, faults>>

RequestDomain(request) == DomainOf[log[request[1][1]][request[1][2]].pair]

(* DomainatorAttributor.detect: a request extends the queue of its domain; *)
(* a queue that is long enough loses one message, after a prediction that  *)
(* may raise, which leaves it longer.                                      *)
Attribute ==
  /\ attributed < Len(requests)
  /\ LET request == requests[attributed + 1]
         d == RequestDomain(request)
         longer == queue[d] \o request
     IN  \/ /\ queue' = [queue EXCEPT ![d] =
                            IF Len(longer) >= PredictAt /\ Len(longer) >= DropAt THEN Tail(longer) ELSE longer]
            /\ UNCHANGED faults
         \/ /\ Len(longer) >= PredictAt /\ faults < MaxFaults
            /\ queue' = [queue EXCEPT ![d] = longer] /\ faults' = faults + 1
  /\ attributed' = attributed + 1
  /\ UNCHANGED <<log, offsets, next, step, memory, warnings, output, requests>>

Next ==
  \/ Arrive \/ Fetch \/ Detect \/ PredictRaises \/ Expire \/ Commit
  \/ Abort \/ Swallow \/ Die \/ Restart \/ Attribute

Spec == Init /\ [][Next]_vars

-----------------------------------------------------------------------------
Ids == {id \in (1 .. Len(log)) \X (1 .. MaxRecord) : id[2] <= Len(log[id[1]])}

TypeOK ==
  /\ log \in Seq(UNION {[1 .. k -> Message] : k \in 1 .. MaxRecord}) /\ Len(log) <= MaxLog
  /\ 0 <= committed /\ committed <= position /\ position <= Len(log)
  /\ step \in {"polling", "detecting", "expiring", "commit", "down"}
  /\ DOMAIN window \subseteq Pairs /\ touched \subseteq Pairs
  /\ \A p \in DOMAIN window : window[p].timestamp \in Times /\ window[p].messages \in Seq(Ids)
  /\ latest \in Times \cup {Never} /\ checked \in Times \cup {Never}
  /\ queue \in [Domains -> Seq(Ids)] /\ attributed \in 0 .. Len(requests)

(* A window is what its pair got last, in the order it was delivered in,   *)
(* redeliveries included; never a full one, but for one message more for   *)
(* each failure at most (a prediction that raised before the cut); nor an  *)
(* empty one unless the cut takes all; a message is in it once, and once   *)
(* more for each time its batch came again into the same memory.           *)
WindowIsRecentTraffic ==
  \A p \in DOMAIN window :
    LET messages == window[p].messages
    IN  /\ IsSuffix(messages, delivered[p])
        /\ Len(messages) < MaxWindow + faults /\ (Cut < MaxWindow => 0 < Len(messages))
        /\ \A id \in Ids : Cardinality({i \in DOMAIN messages : messages[i] = id}) <= 1 + faults

(* What a warning says was predicted on is one whole window, of one source *)
(* and domain: as long as a prediction takes, and longer than a full one   *)
(* only by one message for each failure before.                            *)
RequestsAreFullWindows ==
  \A request \in {warnings[n] : n \in DOMAIN warnings} \cup {output[n] : n \in DOMAIN output}
                   \cup {requests[n] : n \in DOMAIN requests} :
    /\ DetectAt <= Len(request) /\ Len(request) <= MaxWindow + faults
    /\ Cardinality({log[request[i][1]][request[i][2]].pair : i \in DOMAIN request}) = 1

(* When a batch is through the expiry is not overdue, and a window that    *)
(* got no message since the last check was not stale then.                 *)
StaleWindowsGo ==
  step = "commit" =>
    /\ latest - checked <= Interval
    /\ \A p \in DOMAIN window \ touched : checked - window[p].timestamp <= Expiration
===============================================================================
