---------------------------- MODULE ProducersProofs ----------------------------
(***************************************************************************)
(* What the producers guarantee for every number of records and failures   *)
(* and every size of the queue: a call that returned has its record in the *)
(* topic, a failure costs one copy at most, and of the telemetry at most   *)
(* one full queue.                                                         *)
(***************************************************************************)
EXTENDS Producers, FiniteSetTheorems, TLAPS

-----------------------------------------------------------------------------
(* The inductive invariant.                                                *)

(* Where the caller is, and which record it has in hand.                   *)
Caller ==
  /\ pc \in {"calling", "flushing", "resetting"} => next <= Count
  /\ pc \in {"closing", "closed"} => next = Count + 1
  /\ pc = "flushing" => kind # "buffered"

(* A caller that waits for its report has nothing else in the client.      *)
Waiting ==
  kind # "buffered" =>
    /\ queue # <<>> => pc = "flushing" /\ queue = <<next>> /\ reports = <<>>
    /\ reports # <<>> => /\ pc = "flushing" /\ queue = <<>>
                         /\ Len(reports) = 1 /\ reports[1].record = next

Report == [record : Records, verdict : Verdicts]

(* The simple producer's record has arrived, as its report says.           *)
Confirmed == kind = "simple" /\ reports # <<>> /\ reports[1].verdict = "delivered"

Arrived ==
  kind # "buffered" =>
    /\ \A r \in Records : r < next => topic[r] > 0 \/ r \in refused
    /\ Confirmed => topic[next] > 0

(* The queue holds earlier records of the buffered producer in their order.*)
Queued ==
  /\ \A i, j \in DOMAIN queue : i < j => queue[i] < queue[j]
  /\ kind = "buffered" => \A i \in DOMAIN queue : queue[i] < next

(* Every copy of a record that may be produced again cost a failure.       *)
Copies ==
  /\ \A r \in Records : topic[r] <= 1 + faults
  /\ \A i \in DOMAIN queue : topic[queue[i]] <= faults
  /\ \A r \in Records : next <= r /\ ~(Confirmed /\ r = next) => topic[r] <= faults

ProducerInvariant == TypeOK /\ Caller /\ Waiting /\ Arrived /\ Queued /\ Copies

LEMMA InitProducer == Init => ProducerInvariant
<1> SUFFICES ASSUME Init PROVE ProducerInvariant
  OBVIOUS
<1>1. TypeOK
  BY ProducersAssumption DEF Init, TypeOK, Records
<1>2. Caller /\ Waiting /\ Arrived /\ Queued /\ Copies
  BY ProducersAssumption DEF Init, Caller, Waiting, Arrived, Queued, Copies, Confirmed, Records
<1> QED  BY <1>1, <1>2 DEF ProducerInvariant

LEMMA LastReport ==
  ASSUME ProducerInvariant, kind # "buffered", reports # <<>>
  PROVE  /\ Last(reports) = reports[1] /\ reports[1].verdict \in Verdicts /\ reports[1].record = next
         /\ next \in Records /\ pc = "flushing" /\ queue = <<>>
<1>1. reports \in Seq(Report) /\ Len(reports) = 1 /\ reports[1].record = next /\ pc = "flushing" /\ queue = <<>>
  BY DEF ProducerInvariant, TypeOK, Waiting, Report
<1>2. reports[1] \in Report
  BY <1>1
<1>3. reports[1].verdict \in Verdicts
  BY <1>2 DEF Report
<1>4. next \in Records
  BY <1>1, ProducersAssumption DEF ProducerInvariant, TypeOK, Caller, Records
<1> QED  BY <1>1, <1>3, <1>4 DEF Last

(* A failed or discarded record was handed over.                           *)
LEMMA ServedType ==
  ASSUME TypeOK
  PROVE  /\ Undelivered \subseteq Records /\ Range(queue) \subseteq Records
         /\ <<>> \in Seq(Records) /\ <<>> \in Seq(Report) /\ Len(<<>>) = 0
<1>1. \A i \in DOMAIN reports : reports[i] \in Report
  <2>1. reports \in Seq(Report)
    BY DEF TypeOK, Report
  <2> QED  BY <2>1
<1>2. Undelivered \subseteq Records
  BY <1>1 DEF Undelivered, Range, Report
<1>3. Range(queue) \subseteq Records
  BY DEF TypeOK, Range
<1> QED  BY <1>2, <1>3

(* What a delivery report does to the client.                              *)
LEMMA ReportEffect ==
  ASSUME TypeOK, NEW verdict \in Verdicts, Reported(verdict)
  PROVE  /\ Head(queue) = queue[1] /\ 1 \in DOMAIN queue /\ queue[1] \in Records
         /\ queue' \in Seq(Records) /\ Len(queue') = Len(queue) - 1 /\ Len(queue) \in Nat
         /\ Len(queue) <= QueueLimit
         /\ \A i \in DOMAIN queue' : i \in Nat /\ 1 <= i /\ i + 1 \in DOMAIN queue /\ queue'[i] = queue[i + 1]
         /\ Len(queue) = 1 => queue' = <<>>
         /\ reports' = Append(reports, [record |-> queue[1], verdict |-> verdict])
         /\ reports' \in Seq(Report)
         /\ kind' = kind /\ pc' = pc /\ next' = next /\ UNCHANGED losses
<1>1. queue \in Seq(Records) /\ queue # <<>> /\ queue' = Tail(queue) /\ Len(queue) <= QueueLimit
  BY DEF Reported, TypeOK
<1>2. Head(queue) = queue[1] /\ 1 \in DOMAIN queue /\ queue[1] \in Records /\ Len(queue) \in Nat
  BY <1>1
<1>3. queue' \in Seq(Records) /\ Len(queue') = Len(queue) - 1
  BY <1>1
<1>4. \A i \in DOMAIN queue' : i \in Nat /\ 1 <= i /\ i + 1 \in DOMAIN queue /\ queue'[i] = queue[i + 1]
  BY <1>1
<1>5. Len(queue) = 1 => queue' = <<>>
  BY <1>3
<1>6. [record |-> queue[1], verdict |-> verdict] \in Report
  BY <1>2 DEF Report
<1>7. reports \in Seq(Report) /\ reports' = Append(reports, [record |-> queue[1], verdict |-> verdict])
  BY <1>2 DEF Reported, TypeOK, Report
<1>8. reports' \in Seq(Report)
  BY <1>6, <1>7
<1> QED  BY <1>1, <1>2, <1>3, <1>4, <1>5, <1>7, <1>8 DEF Reported

(* The report of a caller that waits for it is the only one.               *)
LEMMA ReportAwaited ==
  ASSUME ProducerInvariant, NEW verdict \in Verdicts, Reported(verdict), kind # "buffered"
  PROVE  /\ queue = <<next>> /\ queue[1] = next /\ pc = "flushing" /\ queue' = <<>> /\ reports = <<>>
         /\ reports' = <<[record |-> next, verdict |-> verdict]>>
<1>1. queue = <<next>> /\ queue[1] = next /\ pc = "flushing" /\ reports = <<>> /\ Len(queue) = 1
  BY DEF Reported, ProducerInvariant, Waiting
<1>2. queue' = <<>> /\ reports' = Append(<<>>, [record |-> next, verdict |-> verdict])
  BY <1>1, ReportEffect DEF ProducerInvariant
<1> QED  BY <1>1, <1>2

LEMMA ReportKeeps ==
  ASSUME ProducerInvariant, NEW verdict \in Verdicts, Reported(verdict)
  PROVE  Caller' /\ Waiting' /\ Queued' /\ (faults' \in 0 .. MaxFaults /\ topic' \in [Records -> Nat] => TypeOK')
<1> USE DEF ProducerInvariant
<1>1. Caller'
  BY ReportEffect DEF Caller
<1>2. Waiting'
  <2>1. CASE kind = "buffered"
    BY <2>1, ReportEffect DEF Waiting
  <2>2. CASE kind # "buffered"
    <3> DEFINE report == [record |-> next, verdict |-> verdict]
    <3>1. Len(<<report>>) = 1 /\ <<report>>[1].record = next
      OBVIOUS
    <3> QED  BY <2>2, <3>1, ReportAwaited, ReportEffect DEF Waiting
  <2> QED  BY <2>1, <2>2
<1>3. Queued'
  <2>1. ASSUME NEW i \in DOMAIN queue', NEW j \in DOMAIN queue', i < j
        PROVE  queue'[i] < queue'[j]
    <3>1. /\ i \in Nat /\ j \in Nat /\ i + 1 \in DOMAIN queue /\ j + 1 \in DOMAIN queue
          /\ queue'[i] = queue[i + 1] /\ queue'[j] = queue[j + 1]
      BY ReportEffect
    <3> QED  BY <2>1, <3>1 DEF Queued
  <2>2. ASSUME kind = "buffered", NEW i \in DOMAIN queue' PROVE queue'[i] < next
    BY <2>2, ReportEffect DEF Queued
  <2> QED  BY <2>1, <2>2, ReportEffect DEF Queued
<1>4. faults' \in 0 .. MaxFaults /\ topic' \in [Records -> Nat] => TypeOK'
  <2>1. Len(queue') <= QueueLimit
    <3>1. Len(queue') = Len(queue) - 1 /\ Len(queue) \in Nat /\ Len(queue) <= QueueLimit
      BY ReportEffect
    <3> QED  BY <3>1, ProducersAssumption
  <2> QED  BY <2>1, ReportEffect DEF TypeOK, Report, losses
<1> QED  BY <1>1, <1>2, <1>3, <1>4

LEMMA ProducerStep == ProducerInvariant /\ [Next]_vars => ProducerInvariant'
<1> SUFFICES ASSUME ProducerInvariant, [Next]_vars PROVE ProducerInvariant'
  OBVIOUS
<1>0. /\ \A n : n \in Records <=> n \in Nat /\ 1 <= n /\ n <= Count
      /\ \A v : v \in Verdicts <=> v \in {"delivered", "retriable", "permanent"}
  BY ProducersAssumption DEF Records, Verdicts
<1>a. /\ Caller /\ Waiting /\ Arrived /\ Queued /\ Copies /\ TypeOK
      /\ kind \in {"simple", "buffered", "transactional"}
      /\ pc \in {"calling", "flushing", "resetting", "closing", "closed", "down"}
      /\ next \in Nat /\ 1 <= next /\ next <= Count + 1
      /\ queue \in Seq(Records) /\ Len(queue) <= QueueLimit
      /\ reports \in Seq(Report) /\ topic \in [Records -> Nat]
      /\ logged \subseteq Records /\ discarded \subseteq Records /\ refused \subseteq Records
      /\ faults \in Nat /\ faults <= MaxFaults
  BY ProducersAssumption DEF ProducerInvariant, TypeOK, Report
<1> USE ProducersAssumption, <1>0, <1>a
<1>b. ASSUME Caller', Waiting', Arrived', Queued', Copies', TypeOK' PROVE ProducerInvariant'
  BY <1>b DEF ProducerInvariant
<1>1. CASE Deliver
  <2>0. Reported("delivered") /\ "delivered" \in Verdicts /\ faults' = faults
    BY <1>1 DEF Deliver
  <2>a. /\ queue[1] \in Records /\ 1 \in DOMAIN queue /\ kind' = kind /\ next' = next /\ pc' = pc
        /\ refused' = refused /\ Head(queue) = queue[1]
    BY <2>0, ReportEffect DEF losses
  <2>b. IF kind = "transactional" THEN topic' = topic
        ELSE topic' = [topic EXCEPT ![queue[1]] = @ + 1]
    BY <1>1, <2>a DEF Deliver
  <2>c. topic' \in [Records -> Nat]
    BY <2>a, <2>b
  <2>d. \A r \in Records : /\ topic[r] <= topic'[r] /\ topic'[r] <= topic[r] + 1
                           /\ r # queue[1] => topic'[r] = topic[r]
                           /\ topic[r] \in Nat /\ topic'[r] \in Nat
    <3>1. \A r \in Records : topic[r] \in Nat /\ topic'[r] \in Nat
      BY <2>c
    <3>2. CASE topic' = topic
      BY <3>1, <3>2
    <3>3. CASE topic' = [topic EXCEPT ![queue[1]] = @ + 1]
      <4>1. \A r \in Records : topic'[r] = IF r = queue[1] THEN topic[r] + 1 ELSE topic[r]
        BY <3>3
      <4> QED  BY <3>1, <4>1
    <3> QED  BY <2>b, <3>2, <3>3
  <2>1. TypeOK' /\ Caller' /\ Waiting' /\ Queued'
    BY <2>0, <2>c, ReportKeeps
  <2>2. Arrived'
    <3>1. \A r \in Records : topic[r] > 0 => topic'[r] > 0
      BY <2>c, <2>d
    <3>2. kind = "simple" => queue[1] = next /\ topic'[next] > 0
      BY <2>0, <2>a, <2>b, <2>c, ReportAwaited
    <3> QED  BY <2>a, <3>1, <3>2 DEF Arrived, Confirmed
  <2>3. Copies'
    <3>1. topic[queue[1]] <= faults
      BY <2>a DEF Copies
    <3>2. \A r \in Records : topic'[r] <= 1 + faults'
      <4> TAKE r \in Records
      <4>1. topic[r] <= 1 + faults /\ (r = queue[1] => topic[r] <= faults)
        BY <3>1 DEF Copies
      <4> QED  BY <2>0, <2>d, <4>1
    <3>3. ASSUME NEW i \in DOMAIN queue' PROVE topic'[queue'[i]] <= faults'
      <4>1. i \in Nat /\ 1 <= i /\ i + 1 \in DOMAIN queue /\ queue'[i] = queue[i + 1]
        BY <2>0, ReportEffect
      <4>2. queue[1] < queue[i + 1] /\ queue[i + 1] \in Records /\ queue[1] \in Records
        BY <4>1, <2>a DEF Queued
      <4>3. topic[queue[i + 1]] <= faults
        BY <4>1 DEF Copies
      <4>4. queue[i + 1] # queue[1]
        BY <4>2, <1>0
      <4>5. topic'[queue[i + 1]] = topic[queue[i + 1]]
        BY <2>d, <4>2, <4>4
      <4> QED  BY <2>0, <4>1, <4>3, <4>5
    <3>4. ASSUME NEW r \in Records, next' <= r, ~(Confirmed' /\ r = next') PROVE topic'[r] <= faults'
      <4>1. CASE kind = "buffered"
        <5>1. queue[1] < next
          BY <4>1, <2>a DEF Queued
        <5>2. ~Confirmed /\ topic[r] <= faults
          BY <2>a, <3>4, <4>1 DEF Copies, Confirmed
        <5>3. r # queue[1]
          BY <2>a, <3>4, <5>1, <1>0
        <5> QED  BY <2>0, <2>d, <5>2, <5>3
      <4>2. CASE kind = "transactional"
        BY <2>0, <2>a, <2>b, <3>4, <4>2 DEF Copies, Confirmed
      <4>3. CASE kind = "simple"
        <5>1. reports' = <<[record |-> next, verdict |-> "delivered"]>> /\ reports = <<>> /\ queue[1] = next
          BY <2>0, <4>3, ReportAwaited
        <5>2. Confirmed'
          BY <2>a, <4>3, <5>1 DEF Confirmed
        <5>3. r # next /\ ~Confirmed
          BY <2>a, <3>4, <5>1, <5>2 DEF Confirmed
        <5> QED  BY <2>0, <2>a, <2>d, <3>4, <5>1, <5>3 DEF Copies
      <4> QED  BY <4>1, <4>2, <4>3
    <3> QED  BY <3>2, <3>3, <3>4 DEF Copies
  <2> QED  BY <2>1, <2>2, <2>3, <1>b
<1>2. CASE AcknowledgementLost
  <2>0. /\ faults' = faults + 1 /\ faults' \in 0 .. MaxFaults /\ queue # <<>> /\ UNCHANGED <<kind, pc, next, queue, reports, refused>>
        /\ topic' = [topic EXCEPT ![Head(queue)] = @ + 1] /\ UNCHANGED <<logged, discarded>>
    BY <1>2 DEF AcknowledgementLost, Fault, client, losses
  <2>a. Head(queue) \in Records
    BY <2>0
  <2>d. \A r \in Records : /\ topic[r] <= topic'[r] /\ topic'[r] <= topic[r] + 1
                           /\ topic[r] \in Nat /\ topic'[r] \in Nat
    BY <2>0, <2>a
  <2>e. faults' = faults + 1 /\ faults \in Nat
    BY <2>0
  <2>1. TypeOK'
    <3>1. topic' \in [Records -> Nat]
      BY <2>0, <2>a
    <3> QED  BY <2>0, <3>1 DEF TypeOK
  <2>2. Caller' /\ Waiting'
    BY <2>0 DEF Caller, Waiting
  <2>3. Arrived'
    <3>1. \A r \in Records : topic[r] > 0 => topic'[r] > 0
      BY <2>d
    <3>2. Confirmed' = Confirmed /\ (Confirmed => FALSE)
      BY <2>0 DEF Confirmed, Waiting
    <3> QED  BY <2>0, <3>1, <3>2 DEF Arrived
  <2>4. Queued'
    BY <2>0 DEF Queued
  <2>5. Copies'
    <3>1. Confirmed' = Confirmed
      BY <2>0 DEF Confirmed
    <3>2. \A r \in Records : topic'[r] <= 1 + faults'
      <4> TAKE r \in Records
      <4>1. topic[r] <= 1 + faults
        BY DEF Copies
      <4> QED  BY <2>d, <2>e, <4>1
    <3>3. ASSUME NEW i \in DOMAIN queue PROVE topic'[queue[i]] <= faults'
      <4>1. queue[i] \in Records /\ topic[queue[i]] <= faults
        BY DEF Copies
      <4> QED  BY <2>d, <2>e, <4>1
    <3>4. ASSUME NEW r \in Records, next <= r, ~(Confirmed /\ r = next) PROVE topic'[r] <= faults'
      <4>1. topic[r] <= faults
        BY <3>4 DEF Copies
      <4> QED  BY <2>d, <2>e, <4>1
    <3> QED  BY <2>0, <3>1, <3>2, <3>3, <3>4 DEF Copies
  <2> QED  BY <2>1, <2>2, <2>3, <2>4, <2>5, <1>b
<1>3. CASE DeliveryFails
  <2>0. PICK verdict \in Verdicts \ {"delivered"} : Reported(verdict)
    BY <1>3 DEF DeliveryFails
  <2>a. /\ faults' = faults + 1 /\ faults' \in 0 .. MaxFaults /\ topic' = topic
        /\ kind' = kind /\ next' = next /\ pc' = pc /\ refused' = refused
    <3>1. faults' = faults + 1 /\ faults' \in 0 .. MaxFaults /\ topic' = topic
      BY <1>3 DEF DeliveryFails, Fault
    <3>2. kind' = kind /\ next' = next /\ pc' = pc /\ refused' = refused
      BY <2>0, ReportEffect DEF losses
    <3> QED  BY <3>1, <3>2
  <2>1. TypeOK' /\ Caller' /\ Waiting' /\ Queued'
    <3>1. topic' \in [Records -> Nat]
      BY <2>a
    <3> QED  BY <2>0, <2>a, <3>1, ReportKeeps
  <2>c. ~Confirmed' /\ (kind # "buffered" => ~Confirmed)
    <3>1. CASE kind # "simple"
      BY <2>a, <3>1, <2>0, ReportAwaited DEF Confirmed
    <3>2. CASE kind = "simple"
      <4>1. reports' = <<[record |-> next, verdict |-> verdict]>> /\ reports = <<>>
        BY <2>0, <3>2, ReportAwaited
      <4>2. reports'[1].verdict = verdict
        BY <4>1
      <4> QED  BY <2>0, <4>1, <4>2 DEF Confirmed
    <3> QED  BY <3>1, <3>2
  <2>2. Arrived'
    BY <2>a, <2>c DEF Arrived
  <2>3. Copies'
    <3>1. \A i \in DOMAIN queue' : topic'[queue'[i]] <= faults'
      <4> TAKE i \in DOMAIN queue'
      <4>1. i + 1 \in DOMAIN queue /\ queue'[i] = queue[i + 1]
        BY <2>0, ReportEffect
      <4>2. topic[queue[i + 1]] <= faults
        BY <4>1 DEF Copies
      <4> QED  BY <2>a, <4>1, <4>2
    <3>2. \A r \in Records : topic'[r] <= 1 + faults'
      BY <2>a DEF Copies
    <3>3. \A r \in Records : next <= r => topic'[r] <= faults'
      BY <2>a DEF Copies
    <3> QED  BY <2>a, <3>1, <3>2, <3>3 DEF Copies
  <2> QED  BY <2>1, <2>2, <2>3, <1>b
<1>4. CASE Send
  <2>1. TypeOK'
    <3>1. next \in Records
      BY <1>4 DEF Send, Caller
    <3>2. queue' = <<next>> /\ <<next>> \in Seq(Records) /\ Len(<<next>>) = 1
      BY <1>4, <3>1 DEF Send
    <3> QED  BY <1>4, <3>2, ServedType DEF Send, Serve, TypeOK, Report
  <2>2. Caller' /\ Waiting'
    BY <1>4, LastReport DEF Send, Serve, client, losses, Caller, Waiting
  <2>3. Arrived'
    BY <1>4, LastReport DEF Send, Serve, client, losses, Caller, Waiting, Arrived, Confirmed
  <2>4. Queued'
    BY <1>4, LastReport DEF Send, Serve, client, losses, Caller, Waiting, Queued
  <2>5. Copies'
    BY <1>4, LastReport DEF Send, Serve, client, losses, Caller, Waiting, Queued, Copies, Confirmed
  <2> QED  BY <2>1, <2>2, <2>3, <2>4, <2>5, <1>b
<1>5. CASE Check
  <2>1. TypeOK'
    BY <1>5, LastReport, ServedType DEF Check, Serve, Return, Flushed, TypeOK, Report, client, losses, Caller
  <2>2. Caller' /\ Waiting'
    BY <1>5, LastReport DEF Check, Serve, Return, Flushed, client, losses, Caller, Waiting
  <2>3. Arrived'
    BY <1>5, LastReport DEF Check, Serve, Return, Flushed, client, losses, Caller, Waiting, Arrived, Confirmed
  <2>4. Queued'
    BY <1>5, LastReport DEF Check, Serve, Return, Flushed, client, losses, Caller, Waiting, Queued
  <2>5. Copies'
    BY <1>5, LastReport DEF Check, Serve, Return, Flushed, client, losses, Caller, Waiting, Queued, Copies, Confirmed
  <2> QED  BY <2>1, <2>2, <2>3, <2>4, <2>5, <1>b
<1>6. CASE CommitAlone
  <2>0. /\ kind = "transactional" /\ reports # <<>> /\ reports' = <<>> /\ ~Confirmed /\ ~Confirmed'
        /\ UNCHANGED <<kind, queue, discarded, refused, faults>>
        /\ logged' = logged \cup Undelivered
    BY <1>6 DEF CommitAlone, Flushed, Serve, Confirmed
  <2>a. next \in Records /\ pc = "flushing" /\ queue = <<>> /\ Last(reports) = reports[1]
    BY <2>0, LastReport
  <2>b. \/ /\ topic' = [topic EXCEPT ![next] = @ + 1] /\ next' = next + 1
           /\ pc' = IF next < Count THEN "calling" ELSE "closing"
        \/ pc' = "resetting" /\ UNCHANGED <<next, topic>>
    BY <1>6 DEF CommitAlone, Return
  <2>c. topic' \in [Records -> Nat]
    BY <2>a, <2>b
  <2>1. TypeOK'
    <3>1. next' \in 1 .. Count + 1 /\ pc' \in {"calling", "flushing", "resetting", "closing", "closed", "down"}
      BY <2>a, <2>b
    <3> QED  BY <2>0, <2>a, <2>c, <3>1, ServedType DEF TypeOK, Report
  <2>2. Caller' /\ Waiting' /\ Queued'
    BY <2>0, <2>a, <2>b DEF Caller, Waiting, Queued
  <2>3. Arrived'
    <3>1. \A r \in Records : r < next => topic[r] > 0 \/ r \in refused
      BY <2>0 DEF Arrived
    <3> QED  BY <2>0, <2>a, <2>b, <3>1 DEF Arrived
  <2>4. Copies'
    <3>1. \A r \in Records : topic[r] \in Nat /\ topic[r] <= 1 + faults /\ (next <= r => topic[r] <= faults)
      BY <2>0 DEF Copies
    <3>2. CASE topic' = topic /\ next' = next
      BY <2>0, <2>a, <3>1, <3>2 DEF Copies
    <3>3. CASE topic' = [topic EXCEPT ![next] = @ + 1] /\ next' = next + 1
      <4>1. \A r \in Records : topic'[r] = IF r = next THEN topic[r] + 1 ELSE topic[r]
        BY <3>3
      <4>2. \A r \in Records : topic'[r] <= 1 + faults /\ (next + 1 <= r => topic'[r] <= faults)
        BY <2>a, <3>1, <4>1
      <4> QED  BY <2>0, <2>a, <3>3, <4>2 DEF Copies
    <3> QED  BY <2>b, <3>2, <3>3
  <2> QED  BY <2>1, <2>2, <2>3, <2>4, <1>b
<1>7. CASE CommitUnanswered
  <2>1. TypeOK'
    BY <1>7, LastReport, ServedType DEF CommitUnanswered, Fault, Serve, Flushed, TypeOK, Report, client, losses, Caller
  <2>2. Caller' /\ Waiting'
    BY <1>7, LastReport DEF CommitUnanswered, Fault, Serve, Flushed, client, losses, Caller, Waiting
  <2>3. Arrived'
    BY <1>7, LastReport DEF CommitUnanswered, Fault, Serve, Flushed, client, losses, Caller, Waiting, Arrived, Confirmed
  <2>4. Queued'
    BY <1>7, LastReport DEF CommitUnanswered, Fault, Serve, Flushed, client, losses, Caller, Waiting, Queued
  <2>5. Copies'
    BY <1>7, LastReport DEF CommitUnanswered, Fault, Serve, Flushed, client, losses, Caller, Waiting, Queued, Copies, Confirmed
  <2> QED  BY <2>1, <2>2, <2>3, <2>4, <2>5, <1>b
<1>8. CASE Buffer
  <2>0. /\ kind = "buffered" /\ pc = "calling" /\ reports' = <<>> /\ ~Confirmed /\ ~Confirmed'
        /\ Len(queue) < QueueLimit /\ queue' = Append(queue, next) /\ next' = next + 1
        /\ pc' = IF next < Count THEN "calling" ELSE "closing"
        /\ UNCHANGED <<kind, topic, discarded, refused, faults>>
        /\ logged' = logged \cup Undelivered
    BY <1>8 DEF Buffer, Serve, Return, Confirmed
  <2>a. next \in Records
    BY <2>0 DEF Caller
  <2>b. /\ queue' \in Seq(Records) /\ Len(queue') = Len(queue) + 1 /\ Len(queue) \in Nat
        /\ \A i \in DOMAIN queue' :
             /\ i \in Nat
             /\ \/ i = Len(queue) + 1 /\ queue'[i] = next
                \/ i \in DOMAIN queue /\ i <= Len(queue) /\ queue'[i] = queue[i]
    <3>1. queue' = Append(queue, next) /\ Len(queue) \in Nat /\ DOMAIN queue = 1 .. Len(queue)
      BY <2>0
    <3>2. queue' \in Seq(Records) /\ Len(queue') = Len(queue) + 1
      BY <2>a, <3>1
    <3>3. \A i \in 1 .. Len(queue) + 1 : queue'[i] = IF i <= Len(queue) THEN queue[i] ELSE next
      BY <3>1
    <3>4. DOMAIN queue' = 1 .. Len(queue) + 1
      BY <3>2
    <3> HIDE <1>0, <1>a
    <3> QED  BY <3>1, <3>2, <3>3, <3>4
  <2>c. \A i \in DOMAIN queue : queue[i] < next /\ queue[i] \in Records /\ topic[queue[i]] <= faults
    BY <2>0 DEF Queued, Copies
  <2>1. TypeOK'
    <3>1. next' \in 1 .. Count + 1 /\ pc' \in {"calling", "flushing", "resetting", "closing", "closed", "down"}
      BY <2>0, <2>a
    <3>2. Len(queue') <= QueueLimit
      BY <2>0, <2>b
    <3> QED  BY <2>0, <2>b, <3>1, <3>2, ServedType DEF TypeOK, Report
  <2>2. Caller' /\ Waiting' /\ Arrived'
    BY <2>0, <2>a DEF Caller, Waiting, Arrived
  <2>3. Queued'
    <3>1. ASSUME NEW i \in DOMAIN queue', NEW j \in DOMAIN queue', i < j
          PROVE  queue'[i] < queue'[j]
      <4>1. i \in DOMAIN queue /\ queue'[i] = queue[i]
        <5>1. i \in Nat /\ j \in Nat /\ j <= Len(queue) + 1 /\ Len(queue) \in Nat
          BY <2>b
        <5>2. i # Len(queue) + 1
          BY <3>1, <5>1
        <5> QED  BY <2>b, <5>2
      <4>2. CASE j = Len(queue) + 1 /\ queue'[j] = next
        BY <2>c, <4>1, <4>2
      <4>3. CASE j \in DOMAIN queue /\ queue'[j] = queue[j]
        BY <3>1, <4>1, <4>3 DEF Queued
      <4> QED  BY <2>b, <4>2, <4>3
    <3>2. \A i \in DOMAIN queue' : queue'[i] < next'
      <4> TAKE i \in DOMAIN queue'
      <4>1. CASE queue'[i] = next
        BY <2>0, <4>1
      <4>2. CASE i \in DOMAIN queue /\ queue'[i] = queue[i]
        <5>1. queue[i] \in Nat /\ queue[i] < next
          BY <2>c, <4>2
        <5> QED  BY <2>0, <4>2, <5>1
      <4> QED  BY <2>b, <4>1, <4>2
    <3> QED  BY <3>1, <3>2 DEF Queued
  <2>4. Copies'
    <3>1. \A r \in Records : topic[r] <= 1 + faults /\ (next <= r => topic[r] <= faults)
      BY <2>0 DEF Copies
    <3>2. \A i \in DOMAIN queue' : topic[queue'[i]] <= faults
      <4> TAKE i \in DOMAIN queue'
      <4>1. topic[next] <= faults
        BY <2>a, <3>1
      <4> QED  BY <2>b, <2>c, <4>1
    <3>3. \A r \in Records : next + 1 <= r => topic[r] <= faults
      BY <3>1, <1>0
    <3> QED  BY <2>0, <3>1, <3>2, <3>3 DEF Copies
  <2> QED  BY <2>1, <2>2, <2>3, <2>4, <1>b
<1>9. CASE ProduceRaises
  <2>1. TypeOK'
    BY <1>9, LastReport, ServedType DEF ProduceRaises, Fault, Serve, TypeOK, Report, client, losses, Caller
  <2>2. Caller' /\ Waiting'
    BY <1>9, LastReport DEF ProduceRaises, Fault, Serve, client, losses, Caller, Waiting
  <2>3. Arrived'
    BY <1>9, LastReport DEF ProduceRaises, Fault, Serve, client, losses, Caller, Waiting, Arrived, Confirmed
  <2>4. Queued'
    BY <1>9, LastReport DEF ProduceRaises, Fault, Serve, client, losses, Caller, Waiting, Queued
  <2>5. Copies'
    BY <1>9, LastReport DEF ProduceRaises, Fault, Serve, client, losses, Caller, Waiting, Queued, Copies, Confirmed
  <2> QED  BY <2>1, <2>2, <2>3, <2>4, <2>5, <1>b
<1>10. CASE Reset
  <2>1. TypeOK'
    BY <1>10, LastReport, ServedType DEF Reset, Serve, TypeOK, Report, client, losses, Caller
  <2>2. Caller' /\ Waiting'
    BY <1>10, LastReport DEF Reset, Serve, client, losses, Caller, Waiting
  <2>3. Arrived'
    BY <1>10, LastReport DEF Reset, Serve, client, losses, Caller, Waiting, Arrived, Confirmed
  <2>4. Queued'
    BY <1>10, LastReport DEF Reset, Serve, client, losses, Caller, Waiting, Queued
  <2>5. Copies'
    BY <1>10, LastReport DEF Reset, Serve, client, losses, Caller, Waiting, Queued, Copies, Confirmed
  <2> QED  BY <2>1, <2>2, <2>3, <2>4, <2>5, <1>b
<1>11. CASE Close
  <2>1. TypeOK'
    BY <1>11, LastReport, ServedType DEF Close, Serve, TypeOK, Report, client, losses, Caller
  <2>2. Caller' /\ Waiting'
    BY <1>11, LastReport DEF Close, Serve, client, losses, Caller, Waiting
  <2>3. Arrived'
    BY <1>11, LastReport DEF Close, Serve, client, losses, Caller, Waiting, Arrived, Confirmed
  <2>4. Queued'
    BY <1>11, LastReport DEF Close, Serve, client, losses, Caller, Waiting, Queued
  <2>5. Copies'
    BY <1>11, LastReport DEF Close, Serve, client, losses, Caller, Waiting, Queued, Copies, Confirmed
  <2> QED  BY <2>1, <2>2, <2>3, <2>4, <2>5, <1>b
<1>12. CASE Die
  <2>1. TypeOK'
    BY <1>12, LastReport, ServedType DEF Die, Fault, TypeOK, Report, client, losses, Caller
  <2>2. Caller' /\ Waiting'
    BY <1>12, LastReport DEF Die, Fault, client, losses, Caller, Waiting
  <2>3. Arrived'
    BY <1>12, LastReport DEF Die, Fault, client, losses, Caller, Waiting, Arrived, Confirmed
  <2>4. Queued'
    BY <1>12, LastReport DEF Die, Fault, client, losses, Caller, Waiting, Queued
  <2>5. Copies'
    BY <1>12, LastReport DEF Die, Fault, client, losses, Caller, Waiting, Queued, Copies, Confirmed
  <2> QED  BY <2>1, <2>2, <2>3, <2>4, <2>5, <1>b
<1>13. CASE Restart
  <2>1. TypeOK'
    BY <1>13, LastReport, ServedType DEF Restart, TypeOK, Report, client, losses, Caller
  <2>2. Caller' /\ Waiting'
    BY <1>13, LastReport DEF Restart, client, losses, Caller, Waiting
  <2>3. Arrived'
    BY <1>13, LastReport DEF Restart, client, losses, Caller, Waiting, Arrived, Confirmed
  <2>4. Queued'
    BY <1>13, LastReport DEF Restart, client, losses, Caller, Waiting, Queued
  <2>5. Copies'
    BY <1>13, LastReport DEF Restart, client, losses, Caller, Waiting, Queued, Copies, Confirmed
  <2> QED  BY <2>1, <2>2, <2>3, <2>4, <2>5, <1>b
<1>14. CASE UNCHANGED vars
  <2>1. TypeOK'
    BY <1>14, LastReport, ServedType DEF vars, TypeOK, Report, client, losses, Caller
  <2>2. Caller' /\ Waiting'
    BY <1>14, LastReport DEF vars, client, losses, Caller, Waiting
  <2>3. Arrived'
    BY <1>14, LastReport DEF vars, client, losses, Caller, Waiting, Arrived, Confirmed
  <2>4. Queued'
    BY <1>14, LastReport DEF vars, client, losses, Caller, Waiting, Queued
  <2>5. Copies'
    BY <1>14, LastReport DEF vars, client, losses, Caller, Waiting, Queued, Copies, Confirmed
  <2> QED  BY <2>1, <2>2, <2>3, <2>4, <2>5, <1>b
<1> QED
  BY <1>1, <1>2, <1>3, <1>4, <1>5, <1>6, <1>7, <1>8, <1>9, <1>10, <1>11, <1>12, <1>13, <1>14 DEF Next, Work, Failure

LEMMA ProducerInvariantHolds == Spec => []ProducerInvariant
BY InitProducer, ProducerStep, PTL DEF Spec

(* Every variable keeps its type; the queue never holds more than it may.  *)
THEOREM ProducersTypeCorrect == Spec => []TypeOK
<1>1. ProducerInvariant => TypeOK
  BY DEF ProducerInvariant
<1> QED  BY <1>1, ProducerInvariantHolds, PTL

(* A failure costs a record one copy more at most (producer.py:33-76).     *)
THEOREM CopiesPerFailure == Spec => []OneCopyMorePerFailure
<1>1. ProducerInvariant => OneCopyMorePerFailure
  BY DEF ProducerInvariant, Copies, OneCopyMorePerFailure
<1> QED  BY <1>1, ProducerInvariantHolds, PTL

LEMMA NothingMissing == ProducerInvariant /\ kind # "buffered" => Missing = {}
<1> SUFFICES ASSUME ProducerInvariant, kind # "buffered" PROVE Missing = {}
  OBVIOUS
<1>1. \A r \in 1 .. next - 1 : r \in Records /\ r < next
  BY ProducersAssumption DEF ProducerInvariant, TypeOK, Records
<1>2. \A r \in 1 .. next - 1 : topic[r] > 0 \/ r \in refused
  BY <1>1 DEF ProducerInvariant, Arrived
<1> QED  BY <1>2 DEF Missing

(* Where produce returns for a delivered record, the record is in the      *)
(* topic, through every retry, reset and restart (producer.py:33-135).     *)
THEOREM ReturnedDelivered == Spec => []ReturnedMeansDelivered
<1>1. ProducerInvariant => ReturnedMeansDelivered
  BY NothingMissing DEF ReturnedMeansDelivered
<1> QED  BY <1>1, ProducerInvariantHolds, PTL

-----------------------------------------------------------------------------
(* The telemetry that is lost.                                             *)

Lost == logged \cup discarded \cup Undelivered

(* Every record handed over arrived, waits or is known to be lost, and     *)
(* what is lost was paid for by failures: one for each failed delivery and *)
(* one for each client that is given up, with a full queue at most.        *)
LossInvariant ==
  kind = "buffered" =>
    /\ \A r \in Records : r < next => topic[r] > 0 \/ r \in Range(queue) \/ r \in Lost
    /\ Cardinality(Lost) + (IF pc = "resetting" THEN QueueLimit ELSE 0) <= QueueLimit * faults

LEMMA LostFinite ==
  ASSUME TypeOK
  PROVE  /\ Lost \subseteq Records /\ IsFiniteSet(Lost) /\ Cardinality(Lost) \in Nat
         /\ IsFiniteSet(Range(queue)) /\ Cardinality(Range(queue)) \in Nat
         /\ Cardinality(Range(queue)) <= QueueLimit
         /\ faults \in Nat /\ QueueLimit * faults \in Nat
<1>1. IsFiniteSet(Records)
  BY FS_Interval, ProducersAssumption DEF Records
<1>2. Lost \subseteq Records
  BY ServedType DEF Lost, TypeOK
<1>3. IsFiniteSet(Lost) /\ Cardinality(Lost) \in Nat
  BY <1>1, <1>2, FS_Subset, FS_CardinalityType
<1>4. queue \in Seq(Records) /\ Len(queue) \in Nat /\ DOMAIN queue = 1 .. Len(queue) /\ Len(queue) <= QueueLimit
  BY DEF TypeOK
<1>5. IsFiniteSet(1 .. Len(queue)) /\ Cardinality(1 .. Len(queue)) = Len(queue)
  <2>1. IsFiniteSet(1 .. Len(queue)) /\ Cardinality(1 .. Len(queue)) = IF 1 > Len(queue) THEN 0 ELSE Len(queue) - 1 + 1
    BY <1>4, FS_Interval
  <2> QED  BY <1>4, <2>1
<1>6. queue \in Surjection(1 .. Len(queue), Range(queue))
  BY <1>4 DEF Surjection, Range
<1>7. IsFiniteSet(Range(queue)) /\ Cardinality(Range(queue)) <= Len(queue)
  BY <1>5, <1>6, FS_Surjection
<1>8. Cardinality(Range(queue)) \in Nat
  BY <1>7, FS_CardinalityType
<1>9. faults \in Nat /\ QueueLimit * faults \in Nat
  BY ProducersAssumption DEF TypeOK
<1> QED  BY <1>2, <1>3, <1>4, <1>7, <1>8, <1>9, ProducersAssumption

(* Losing the queue loses QueueLimit records at most.                      *)
LEMMA LostWithQueue ==
  ASSUME TypeOK, NEW more \in SUBSET Range(queue)
  PROVE  /\ Cardinality(Lost \cup more) \in Nat
         /\ Cardinality(Lost \cup more) <= Cardinality(Lost) + QueueLimit
<1>1. IsFiniteSet(more) /\ Cardinality(more) \in Nat /\ Cardinality(more) <= QueueLimit
  <2>1. IsFiniteSet(more) /\ Cardinality(more) <= Cardinality(Range(queue))
    BY LostFinite, FS_Subset
  <2>2. Cardinality(more) \in Nat
    BY <2>1, FS_CardinalityType
  <2> QED  BY <2>1, <2>2, LostFinite, ProducersAssumption
<1>2. /\ IsFiniteSet(Lost \cup more)
      /\ Cardinality(Lost \cup more) = Cardinality(Lost) + Cardinality(more) - Cardinality(Lost \cap more)
  BY <1>1, LostFinite, FS_Union
<1>3. Cardinality(Lost \cap more) \in Nat
  BY <1>1, FS_Intersection, FS_CardinalityType, LostFinite
<1>4. Cardinality(Lost \cup more) \in Nat
  BY <1>2, FS_CardinalityType
<1> QED  BY <1>1, <1>2, <1>3, <1>4, LostFinite, ProducersAssumption

LEMMA OneFaultMore == ASSUME NEW f \in Nat PROVE QueueLimit * (f + 1) = QueueLimit * f + QueueLimit
BY ProducersAssumption

LEMMA UndeliveredGrows ==
  ASSUME TypeOK, NEW verdict \in Verdicts, Reported(verdict)
  PROVE  Undelivered' = Undelivered \cup IF verdict = "delivered" THEN {} ELSE {queue[1]}
<1> DEFINE report == [record |-> queue[1], verdict |-> verdict]
<1>1. reports \in Seq(Report) /\ reports' = Append(reports, report)
  BY ReportEffect DEF TypeOK, Report
<1>2. Range(reports') = Range(reports) \cup {report}
  <2>1. Len(reports) \in Nat /\ DOMAIN reports = 1 .. Len(reports)
    BY <1>1
  <2>2. DOMAIN reports' = 1 .. Len(reports) + 1
    BY <1>1
  <2>3. \A i \in 1 .. Len(reports) + 1 : reports'[i] = IF i <= Len(reports) THEN reports[i] ELSE report
    BY <1>1
  <2>4. \A x : x \in Range(reports') <=> \E i \in 1 .. Len(reports) + 1 : x = reports'[i]
    BY <2>2 DEF Range
  <2>5. \A x : x \in Range(reports) <=> \E i \in 1 .. Len(reports) : x = reports[i]
    BY <2>1 DEF Range
  <2> HIDE DEF report
  <2>6. \A x : x \in Range(reports') <=> x \in Range(reports) \/ x = report
    <3>1. ASSUME NEW x, x \in Range(reports') PROVE x \in Range(reports) \/ x = report
      BY <3>1, <2>1, <2>3, <2>4, <2>5
    <3>2. ASSUME NEW x, x \in Range(reports) PROVE x \in Range(reports')
      <4>1. PICK i \in 1 .. Len(reports) : x = reports[i]
        BY <3>2, <2>5
      <4>2. i \in 1 .. Len(reports) + 1 /\ reports'[i] = x
        BY <2>1, <2>3, <4>1
      <4> QED  BY <2>4, <4>2
    <3>3. report \in Range(reports')
      <4>1. Len(reports) + 1 \in 1 .. Len(reports) + 1 /\ reports'[Len(reports) + 1] = report
        BY <2>1, <2>3
      <4> QED  BY <2>4, <4>1
    <3> QED  BY <3>1, <3>2, <3>3
  <2> QED  BY <2>6
<1>3. report.record = queue[1] /\ report.verdict = verdict
  OBVIOUS
<1>4. Undelivered' = {p.record : p \in {q \in Range(reports') : q.verdict # "delivered"}}
  BY DEF Undelivered
<1>5. Undelivered = {p.record : p \in {q \in Range(reports) : q.verdict # "delivered"}}
  BY DEF Undelivered
<1> HIDE DEF report
<1>6. CASE verdict = "delivered"
  BY <1>2, <1>3, <1>4, <1>5, <1>6
<1>7. CASE verdict # "delivered"
  <2>1. {q \in Range(reports') : q.verdict # "delivered"}
          = {q \in Range(reports) : q.verdict # "delivered"} \cup {report}
    BY <1>2, <1>3, <1>7
  <2> QED  BY <1>3, <1>4, <1>5, <1>7, <2>1
<1> QED  BY <1>6, <1>7

LEMMA QueueShrinks ==
  ASSUME TypeOK, NEW verdict \in Verdicts, Reported(verdict)
  PROVE  Range(queue) \subseteq Range(queue') \cup {queue[1]} /\ queue[1] \in Range(queue)
<1>1. /\ queue \in Seq(Records) /\ queue' = Tail(queue) /\ queue # <<>>
  BY DEF TypeOK, Reported
<1>2. queue[1] \in Range(queue)
  BY <1>1 DEF Range
<1>3. ASSUME NEW i \in DOMAIN queue, i # 1 PROVE queue[i] \in Range(queue')
  <2>1. i - 1 \in DOMAIN queue' /\ queue'[i - 1] = queue[i]
    BY <1>1, <1>3
  <2> QED  BY <2>1 DEF Range
<1> QED  BY <1>2, <1>3 DEF Range

LEMMA ServedLost ==
  ASSUME Serve
  PROVE  /\ Undelivered' = {} /\ logged' \cup discarded \cup Undelivered' = Lost
BY DEF Serve, Undelivered, Lost, Range

LEMMA LossStep ==
  ProducerInvariant /\ LossInvariant /\ [Next]_vars => LossInvariant'
<1> SUFFICES ASSUME ProducerInvariant, LossInvariant, [Next]_vars, kind' = "buffered" PROVE LossInvariant'
  BY DEF LossInvariant
<1>0. TypeOK /\ TypeOK' /\ kind = "buffered"
  <2>1. TypeOK /\ TypeOK'
    BY ProducerStep DEF ProducerInvariant
  <2>2. kind' = kind
    BY DEF Next, Work, Failure, Deliver, Reported, Send, Check, CommitAlone, Buffer, Reset, Close, Restart,
       AcknowledgementLost, DeliveryFails, CommitUnanswered, ProduceRaises, Die, vars
  <2> QED  BY <2>1, <2>2
<1>1. /\ \A r \in Records : r < next => topic[r] > 0 \/ r \in Range(queue) \/ r \in Lost
      /\ Cardinality(Lost) + (IF pc = "resetting" THEN QueueLimit ELSE 0) <= QueueLimit * faults
      /\ Cardinality(Lost) \in Nat /\ faults \in Nat /\ QueueLimit * faults \in Nat
      /\ QueueLimit \in Nat \ {0} /\ next \in Nat
      /\ topic \in [Records -> Nat] /\ Lost \subseteq Records
  BY <1>0, LostFinite, ProducersAssumption DEF LossInvariant, TypeOK
<1>2. QueueLimit * (faults + 1) = QueueLimit * faults + QueueLimit
  BY <1>1, OneFaultMore
<1>3. CASE Deliver
  <2>1. Reported("delivered") /\ "delivered" \in Verdicts /\ faults' = faults
    BY <1>3 DEF Deliver, Verdicts
  <2>2. queue[1] \in Records /\ Head(queue) = queue[1] /\ pc' = pc /\ next' = next /\ UNCHANGED losses
    BY <1>0, <2>1, ReportEffect
  <2>3. Lost' = Lost
    <3>1. Undelivered' = Undelivered
      BY <1>0, <2>1, UndeliveredGrows
    <3> QED  BY <2>2, <3>1 DEF Lost, losses
  <2>4. \A r \in Records : topic'[r] = IF r = queue[1] THEN topic[r] + 1 ELSE topic[r]
    BY <1>0, <1>1, <1>3, <2>2 DEF Deliver
  <2>5. Range(queue) \subseteq Range(queue') \cup {queue[1]}
    BY <1>0, <2>1, QueueShrinks
  <2>6. \A r \in Records : (topic[r] > 0 => topic'[r] > 0) /\ (r = queue[1] => topic'[r] > 0)
    BY <1>1, <2>4
  <2> QED  BY <1>0, <1>1, <2>1, <2>2, <2>3, <2>5, <2>6 DEF LossInvariant
<1>4. CASE AcknowledgementLost
  <2>1. /\ faults' = faults + 1 /\ UNCHANGED <<pc, next, queue, reports, logged, discarded>>
        /\ topic' = [topic EXCEPT ![Head(queue)] = @ + 1]
    BY <1>4 DEF AcknowledgementLost, Fault, client, losses
  <2>2. Lost' = Lost /\ Range(queue)' = Range(queue)
    BY <2>1 DEF Lost, Undelivered
  <2>3. \A r \in Records : topic[r] > 0 => topic'[r] > 0
    BY <1>1, <2>1
  <2>4. Cardinality(Lost) + (IF pc = "resetting" THEN QueueLimit ELSE 0) <= QueueLimit * (faults + 1)
    BY <1>1, <1>2
  <2> QED  BY <1>0, <1>1, <2>1, <2>2, <2>3, <2>4 DEF LossInvariant
<1>5. CASE DeliveryFails
  <2>1. PICK verdict \in Verdicts \ {"delivered"} : Reported(verdict)
    BY <1>5 DEF DeliveryFails
  <2>2. /\ queue[1] \in Records /\ pc' = pc /\ next' = next /\ UNCHANGED losses
    BY <1>0, <2>1, ReportEffect
  <2>3. topic' = topic /\ faults' = faults + 1
    BY <1>5 DEF DeliveryFails, Fault
  <2>4. Lost' = Lost \cup {queue[1]}
    <3>1. Undelivered' = Undelivered \cup {queue[1]}
      BY <1>0, <2>1, UndeliveredGrows
    <3> QED  BY <2>2, <3>1 DEF Lost, losses
  <2>5. Cardinality(Lost') \in Nat /\ Cardinality(Lost') <= Cardinality(Lost) + QueueLimit
    <3>1. {queue[1]} \in SUBSET Range(queue)
      BY <1>0, <2>1, QueueShrinks
    <3> QED  BY <1>0, <2>4, <3>1, LostWithQueue
  <2>6. Range(queue) \subseteq Range(queue') \cup {queue[1]}
    BY <1>0, <2>1, QueueShrinks
  <2>7. Cardinality(Lost') + (IF pc = "resetting" THEN QueueLimit ELSE 0) <= QueueLimit * (faults + 1)
    BY <1>1, <1>2, <2>5
  <2> QED  BY <1>0, <1>1, <2>2, <2>3, <2>4, <2>6, <2>7 DEF LossInvariant
<1>6. CASE Buffer
  <2>1. /\ pc = "calling" /\ Serve /\ queue' = Append(queue, next) /\ next' = next + 1
        /\ pc' \in {"calling", "closing"} /\ UNCHANGED <<topic, discarded, faults>>
    BY <1>6 DEF Buffer, Return
  <2>2. Lost' = Lost
    BY <2>1, ServedLost DEF Lost
  <2>3. Range(queue) \subseteq Range(queue') /\ next \in Range(queue')
    <3>1. queue \in Seq(Records) /\ Len(queue) \in Nat /\ DOMAIN queue = 1 .. Len(queue)
      BY <1>0 DEF TypeOK
    <3>2. DOMAIN queue' = 1 .. Len(queue) + 1 /\ queue'[Len(queue) + 1] = next
      BY <2>1, <3>1
    <3>3. \A i \in 1 .. Len(queue) : i \in DOMAIN queue' /\ queue'[i] = queue[i]
      BY <2>1, <3>1
    <3> QED  BY <3>1, <3>2, <3>3 DEF Range
  <2>4. \A r \in Records : r < next + 1 => r < next \/ r = next
    BY <1>1 DEF Records
  <2> QED  BY <1>0, <1>1, <2>1, <2>2, <2>3, <2>4 DEF LossInvariant
<1>7. CASE ProduceRaises
  <2>1. /\ pc = "calling" /\ Serve /\ pc' = "resetting" /\ faults' = faults + 1
        /\ UNCHANGED <<next, queue, topic, discarded>>
    BY <1>7 DEF ProduceRaises, Fault
  <2>2. Lost' = Lost
    BY <2>1, ServedLost DEF Lost
  <2>3. Cardinality(Lost) + QueueLimit <= QueueLimit * (faults + 1)
    BY <1>1, <1>2, <2>1
  <2> QED  BY <1>0, <1>1, <2>1, <2>2, <2>3 DEF LossInvariant
<1>8. CASE Reset
  <2>1. /\ pc = "resetting" /\ Serve /\ pc' = "calling" /\ queue' = <<>>
        /\ discarded' = discarded \cup Range(queue)
        /\ UNCHANGED <<next, topic, faults>>
    BY <1>8 DEF Reset
  <2>2. Lost' = Lost \cup Range(queue)
    BY <2>1, ServedLost DEF Lost
  <2>3. Cardinality(Lost') \in Nat /\ Cardinality(Lost') <= Cardinality(Lost) + QueueLimit
    BY <1>0, <2>2, LostWithQueue
  <2>4. Cardinality(Lost') <= QueueLimit * faults
    BY <1>1, <2>1, <2>3
  <2> QED  BY <1>0, <1>1, <2>1, <2>2, <2>3, <2>4 DEF LossInvariant
<1>9. CASE Close
  <2>1. /\ pc = "closing" /\ Serve /\ pc' = "closed" /\ UNCHANGED <<next, queue, topic, discarded, faults>>
    BY <1>9 DEF Close
  <2>2. Lost' = Lost
    BY <2>1, ServedLost DEF Lost
  <2> QED  BY <1>0, <1>1, <2>1, <2>2 DEF LossInvariant
<1>10. CASE Die
  <2>1. /\ queue' = <<>> /\ reports' = <<>> /\ pc' = "down" /\ faults' = faults + 1
        /\ discarded' = discarded \cup Range(queue) \cup Undelivered
        /\ UNCHANGED <<next, topic, logged>>
    BY <1>10 DEF Die, Fault
  <2>2. Undelivered' = {}
    BY <2>1 DEF Undelivered, Range
  <2>3. Lost' = Lost \cup Range(queue)
    BY <2>1, <2>2 DEF Lost
  <2>4. Cardinality(Lost') \in Nat /\ Cardinality(Lost') <= Cardinality(Lost) + QueueLimit
    BY <1>0, <2>3, LostWithQueue
  <2>5. Cardinality(Lost') <= QueueLimit * (faults + 1)
    BY <1>1, <1>2, <2>4
  <2> QED  BY <1>0, <1>1, <2>1, <2>3, <2>4, <2>5 DEF LossInvariant
<1>11. CASE Restart \/ UNCHANGED vars
  <2>1. /\ UNCHANGED <<next, queue, reports, topic, logged, discarded, faults>>
        /\ pc' = pc \/ pc' # "resetting"
    BY <1>11 DEF Restart, vars, client, losses
  <2>2. Lost' = Lost /\ Range(queue)' = Range(queue)
    BY <2>1 DEF Lost, Undelivered
  <2> QED  BY <1>0, <1>1, <2>1, <2>2 DEF LossInvariant
<1> QED
  BY <1>0, <1>3, <1>4, <1>5, <1>6, <1>7, <1>8, <1>9, <1>10, <1>11
  DEF Next, Work, Failure, Send, Check, CommitAlone, CommitUnanswered

(* A failed delivery or a client that is given up loses telemetry, of      *)
(* which each failure costs a full queue at most, and every lost record    *)
(* was logged or was in such a client (producer.py:49-62, 138-185).        *)
THEOREM LossBounded == Spec => []TelemetryLossIsBounded
<1>1. Init => LossInvariant
  <2> SUFFICES ASSUME Init PROVE LossInvariant
    OBVIOUS
  <2>1. Lost = {} /\ next = 1 /\ pc = "calling" /\ faults = 0
    BY DEF Init, Lost, Undelivered, Range
  <2>2. Cardinality(Lost) = 0 /\ QueueLimit * 0 = 0
    BY <2>1, FS_EmptySet, ProducersAssumption
  <2> QED  BY <2>1, <2>2 DEF LossInvariant, Records
<1>2. ProducerInvariant /\ LossInvariant => TelemetryLossIsBounded
  <2> SUFFICES ASSUME ProducerInvariant, LossInvariant PROVE TelemetryLossIsBounded
    OBVIOUS
  <2>1. TypeOK
    BY DEF ProducerInvariant
  <2>2. CASE kind # "buffered"
    <3>1. Missing = {} /\ Cardinality(Missing) = 0
      BY <2>2, NothingMissing, FS_EmptySet
    <3> QED  BY <2>1, <3>1, LostFinite DEF TelemetryLossIsBounded
  <2>3. CASE kind = "buffered"
    <3>1. Missing \subseteq Lost
      <4>1. \A r \in 1 .. next - 1 : r \in Records /\ r < next /\ topic[r] \in Nat
        BY <2>1, ProducersAssumption DEF TypeOK, Records
      <4> QED  BY <2>3, <4>1 DEF Missing, LossInvariant
    <3>2. Cardinality(Missing) \in Nat /\ Cardinality(Missing) <= Cardinality(Lost)
      BY <2>1, <3>1, LostFinite, FS_Subset, FS_CardinalityType
    <3>3. Cardinality(Lost) <= QueueLimit * faults
      BY <2>1, <2>3, LostFinite, ProducersAssumption DEF LossInvariant
    <3>4. Cardinality(Missing) <= QueueLimit * faults
      BY <2>1, <3>2, <3>3, LostFinite
    <3> QED  BY <3>1, <3>4 DEF TelemetryLossIsBounded, Lost
  <2> QED  BY <2>2, <2>3
<1> QED  BY <1>1, <1>2, LossStep, ProducerInvariantHolds, PTL DEF Spec
===============================================================================
