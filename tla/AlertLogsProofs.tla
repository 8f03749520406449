---------------------------- MODULE AlertLogsProofs ----------------------------
(***************************************************************************)
(* What the log files of an alerter guarantee for every number of workers, *)
(* alerts, days and faults and for every setting of the retention: the     *)
(* type invariant, the retention, the number of repeated lines, and that   *)
(* they are an at-least-once sink.                                         *)
(***************************************************************************)
EXTENDS AlertLogs, TLAPS

-----------------------------------------------------------------------------
(* The inductive invariant.                                                *)

(* The offset up to which w is through, but for the open batch.            *)
Behind(w) == IF InBatch(w) THEN first[w] ELSE position[w]

(* The first alert that the worker has not logged in this attempt.         *)
Unlogged(w) ==
  IF ~InBatch(w) THEN position[w] ELSE IF step[w] = "forward" THEN at[w] + 1 ELSE at[w]

Cursors ==
  \A w \in Workers :
    /\ committed[w] <= position[w]
    /\ InBatch(w) =>
         /\ committed[w] <= first[w] /\ first[w] <= at[w]
         /\ IF step[w] = "commit" THEN at[w] = position[w] ELSE at[w] < position[w]

(* What lies between the committed offset and the open batch was given up. *)
Skipped ==
  \A w \in Workers : step[w] # "down" =>
    \A o \in 0 .. LogLength - 1 :
      committed[w] <= o /\ o < Behind(w) => <<w, o>> \in abandoned

(* What the committed offset has passed was logged or given up.            *)
Settled ==
  \A w \in Workers : \A o \in 0 .. LogLength - 1 :
    o < committed[w] => written[<<w, o>>] > 0 \/ <<w, o>> \in abandoned

(* What the open batch has behind it is logged and waits in the            *)
(* transaction, and nothing else does.                                     *)
Worked ==
  \A w \in Workers :
    /\ ~InBatch(w) => outbox[w] = {}
    /\ InBatch(w) => \A o \in 0 .. LogLength - 1 :
         first[w] <= o /\ o < Unlogged(w) => written[<<w, o>>] > 0
    /\ InBatch(w) => \A r \in outbox[w] : r[1] = w /\ first[w] <= r[2] /\ r[2] < at[w]

(* A first line is still to be written, or a fault caused the others.      *)
Copies ==
  \A w \in Workers : \A o \in 0 .. LogLength - 1 :
    step[w] = "down" \/ Unlogged(w) <= o => written[<<w, o>>] <= faults

(* Only what is committed is in the external topic.                        *)
ForwardedBehind ==
  \A w \in Workers : \A o \in 0 .. LogLength - 1 : forwarded[<<w, o>>] > 0 => o < committed[w]

LogInvariant ==
  /\ Cursors /\ Skipped /\ Settled /\ Worked /\ Copies /\ ForwardedBehind
  /\ OneLineMorePerFault /\ ForwardedOnceAndLogged

Step(w) ==
  \/ Fetch(w) \/ OpenLog(w) \/ Cleanup(w) \/ Append(w) \/ Forward(w) \/ Commit(w)
  \/ Abort(w) \/ Swallow(w) \/ Die(w) \/ Restart(w)

LEMMA InitInvariant == Init => TypeOK /\ LogInvariant
<1> SUFFICES ASSUME Init PROVE TypeOK /\ LogInvariant
  OBVIOUS
<1>1. TypeOK
  BY AlertLogsAssumption DEF Init, TypeOK, Days, Steps
<1>2. LogInvariant
  BY AlertLogsAssumption DEF Init, LogInvariant, Cursors, Skipped, Settled, Worked, Copies,
     ForwardedBehind, OneLineMorePerFault, ForwardedOnceAndLogged, Behind, Unlogged, InBatch, Alerts
<1> QED  BY <1>1, <1>2

LEMMA TypeStep == TypeOK /\ Cursors /\ [Next]_vars => TypeOK'
<1> SUFFICES ASSUME TypeOK, Cursors, [Next]_vars PROVE TypeOK'
  OBVIOUS
<1> USE AlertLogsAssumption DEF TypeOK, Days, Steps
<1>1. CASE Midnight
  BY <1>1 DEF Midnight, cursor, logs
<1>2. ASSUME NEW w \in Workers, Fetch(w) PROVE TypeOK'
  BY <1>2 DEF Fetch, logs
<1>3. ASSUME NEW w \in Workers, OpenLog(w) PROVE TypeOK'
  BY <1>3 DEF OpenLog, cursor, logs
<1>4. ASSUME NEW w \in Workers, Cleanup(w) PROVE TypeOK'
  BY <1>4 DEF Cleanup, cursor
<1>5. ASSUME NEW w \in Workers, Append(w) PROVE TypeOK'
  <2>1. files' \subseteq Days
    BY <1>5 DEF Append
  <2>2. path[w] \in Days
    OBVIOUS
  <2>3. dates' \in [Alerts -> SUBSET Days]
    <3> HIDE DEF Days
    <3> QED  BY <1>5, <2>2 DEF Append
  <2>4. written' \in [Alerts -> Nat]
    <3> HIDE DEF Days, Steps
    <3>1. written' = [written EXCEPT ![<<w, at[w]>>] = written[<<w, at[w]>>] + 1]
      BY <1>5 DEF Append
    <3>2. <<w, at[w]>> \in Alerts
      BY <1>5 DEF Append, Cursors, InBatch, Alerts
    <3>3. written[<<w, at[w]>>] + 1 \in Nat
      BY <3>2
    <3> QED  BY <3>1, <3>3
  <2>5. path' \in [Workers -> Days] /\ step' \in [Workers -> Steps]
    BY <1>5 DEF Append
  <2> QED  BY <1>5, <2>1, <2>3, <2>4, <2>5 DEF Append, cursor
<1>6. ASSUME NEW w \in Workers, Forward(w) PROVE TypeOK'
  BY <1>6 DEF Forward, logs, Cursors, InBatch, Alerts
<1>7. ASSUME NEW w \in Workers, Commit(w) PROVE TypeOK'
  BY <1>7 DEF Commit, logs
<1>8. ASSUME NEW w \in Workers, Abort(w) PROVE TypeOK'
  BY <1>8 DEF Abort, Fault
<1>9. ASSUME NEW w \in Workers, Swallow(w) PROVE TypeOK'
  BY <1>9 DEF Swallow, Fault, Cursors, InBatch, Alerts
<1>10. ASSUME NEW w \in Workers, Die(w) PROVE TypeOK'
  BY <1>10 DEF Die, Fault
<1>11. ASSUME NEW w \in Workers, Restart(w) PROVE TypeOK'
  BY <1>11 DEF Restart
<1>12. CASE UNCHANGED vars
  BY <1>12 DEF vars, cursor, logs
<1> QED
  BY <1>1, <1>2, <1>3, <1>4, <1>5, <1>6, <1>7, <1>8, <1>9, <1>10, <1>11, <1>12 DEF Next

LEMMA InvariantStep == TypeOK /\ LogInvariant /\ [Next]_vars => LogInvariant'
<1> SUFFICES ASSUME TypeOK, LogInvariant, [Next]_vars PROVE LogInvariant'
  OBVIOUS
<1> USE AlertLogsAssumption DEF TypeOK, LogInvariant, Cursors, Skipped, Settled, Worked, Copies,
     ForwardedBehind, OneLineMorePerFault, ForwardedOnceAndLogged, Behind, Unlogged, InBatch, Alerts, Steps
<1>1. CASE Midnight
  BY <1>1 DEF Midnight, cursor, logs
<1>2. ASSUME NEW w \in Workers, Fetch(w) PROVE LogInvariant'
  BY <1>2 DEF Fetch, logs
<1>3. ASSUME NEW w \in Workers, OpenLog(w) PROVE LogInvariant'
  BY <1>3 DEF OpenLog, cursor, logs
<1>4. ASSUME NEW w \in Workers, Cleanup(w) PROVE LogInvariant'
  BY <1>4 DEF Cleanup, cursor
<1>5. ASSUME NEW w \in Workers, Append(w) PROVE LogInvariant'
  BY <1>5 DEF Append, cursor
<1>6. ASSUME NEW w \in Workers, Forward(w) PROVE LogInvariant'
  <2>1. Cursors'
    <3>1. at' = [at EXCEPT ![w] = @ + 1] /\ step[w] = "forward" /\ UNCHANGED <<committed, position, first>>
      BY <1>6 DEF Forward
    <3>2. step' = [step EXCEPT ![w] = IF at[w] + 1 < position[w] THEN "open" ELSE "commit"]
      BY <1>6 DEF Forward
    <3>3. ASSUME NEW v \in Workers, v # w
          PROVE  at'[v] = at[v] /\ step'[v] = step[v]
      BY <3>1, <3>2, <3>3
    <3>4. /\ at'[w] = at[w] + 1 /\ step'[w] \in {"open", "commit"}
          /\ step'[w] = "commit" => at[w] + 1 = position[w]
          /\ step'[w] = "open" => at[w] + 1 < position[w]
      <4>1. at[w] \in Int /\ position[w] \in Int /\ at[w] < position[w]
        BY <3>1
      <4>2. at'[w] = at[w] + 1
        BY <3>1
      <4>3. step'[w] = IF at[w] + 1 < position[w] THEN "open" ELSE "commit"
        BY <3>2
      <4> HIDE DEF TypeOK, LogInvariant
      <4> QED  BY <4>1, <4>2, <4>3
    <3> QED  BY <3>1, <3>3, <3>4
  <2>2. Skipped'
    BY <1>6 DEF Forward, logs
  <2>3. Settled'
    BY <1>6 DEF Forward, logs
  <2>4. Worked'
    BY <1>6 DEF Forward, logs
  <2>5. Copies'
    BY <1>6 DEF Forward, logs
  <2>6. ForwardedBehind'
    BY <1>6 DEF Forward, logs
  <2>7. OneLineMorePerFault'
    BY <1>6 DEF Forward, logs
  <2>8. ForwardedOnceAndLogged'
    BY <1>6 DEF Forward, logs
  <2> QED  BY <2>1, <2>2, <2>3, <2>4, <2>5, <2>6, <2>7, <2>8
<1>7. ASSUME NEW w \in Workers, Commit(w) PROVE LogInvariant'
  <2>a. /\ at[w] = position[w] /\ committed[w] <= first[w] /\ first[w] <= at[w] /\ step[w] = "commit"
        /\ Behind(w) = first[w] /\ Unlogged(w) = at[w]
    BY <1>7 DEF Commit
  <2>b. /\ committed' = [committed EXCEPT ![w] = position[w]]
        /\ UNCHANGED <<position, written, abandoned, events, faults>>
    BY <1>7 DEF Commit, logs
  <2>c. \A r \in Alerts : r = <<r[1], r[2]>> /\ r[1] \in Workers /\ r[2] \in 0 .. LogLength - 1
    BY DEF Alerts
  <2>d. \A r \in outbox[w] : /\ r \in Alerts /\ r[1] = w /\ r[2] < position[w]
                            /\ forwarded[r] = 0 /\ written[r] > 0
    <3> TAKE r \in outbox[w]
    <3>1. /\ r \in Alerts /\ r[1] = w /\ first[w] <= r[2] /\ r[2] < at[w]
      BY <2>a
    <3>2. r = <<w, r[2]>> /\ r[2] \in 0 .. LogLength - 1
      BY <3>1, <2>c
    <3>3. forwarded[<<w, r[2]>>] \in Nat /\ ~(forwarded[<<w, r[2]>>] > 0)
      BY <3>1, <3>2, <2>a
    <3>4. written[<<w, r[2]>>] > 0
      BY <3>1, <3>2, <2>a
    <3>5. written[r] > 0 /\ forwarded[r] = 0
      <4>1. \A n \in Nat : ~(n > 0) => n = 0
        OBVIOUS
      <4> QED  BY <3>2, <3>3, <3>4, <4>1
    <3> QED  BY <3>1, <3>5, <2>a
  <2>e. \A r \in Alerts : forwarded'[r] = IF r \in outbox[w] THEN forwarded[r] + 1 ELSE forwarded[r]
    BY <1>7 DEF Commit
  <2>1. Cursors'
    BY <1>7 DEF Commit, logs
  <2>2. Skipped'
    BY <1>7 DEF Commit, logs
  <2>3. Settled'
    <3> SUFFICES ASSUME NEW v \in Workers, NEW o \in 0 .. LogLength - 1, o < committed'[v]
                 PROVE  written[<<v, o>>] > 0 \/ <<v, o>> \in abandoned
      BY <2>b
    <3>1. CASE v # w
      BY <3>1, <2>b
    <3>2. CASE v = w /\ o < committed[w]
      BY <3>2
    <3>3. CASE v = w /\ committed[w] <= o /\ o < first[w]
      BY <3>3, <2>a
    <3>4. CASE v = w /\ first[w] <= o
      BY <3>4, <2>a, <2>b
    <3> QED  BY <3>1, <3>2, <3>3, <3>4
  <2>4. Worked'
    BY <1>7 DEF Commit, logs
  <2>5. Copies'
    BY <1>7 DEF Commit, logs
  <2>6. ForwardedBehind'
    <3> SUFFICES ASSUME NEW v \in Workers, NEW o \in 0 .. LogLength - 1, forwarded'[<<v, o>>] > 0
                 PROVE  o < committed'[v]
      OBVIOUS
    <3>1. CASE <<v, o>> \in outbox[w]
      BY <3>1, <2>b, <2>d
    <3>2. CASE <<v, o>> \notin outbox[w]
      <4>1. <<v, o>> \in Alerts
        BY DEF Alerts
      <4>2. forwarded[<<v, o>>] > 0
        BY <4>1, <3>2, <2>e
      <4>3. o < committed[v] /\ committed[w] <= position[w]
        BY <4>2
      <4> QED  BY <4>3, <2>b
    <3> QED  BY <3>1, <3>2
  <2>7. OneLineMorePerFault'
    BY <1>7 DEF Commit, logs
  <2>8. ForwardedOnceAndLogged'
    BY <2>b, <2>d, <2>e
  <2> QED  BY <2>1, <2>2, <2>3, <2>4, <2>5, <2>6, <2>7, <2>8
<1>8. ASSUME NEW w \in Workers, Abort(w) PROVE LogInvariant'
  BY <1>8 DEF Abort, Fault
<1>9. ASSUME NEW w \in Workers, Swallow(w) PROVE LogInvariant'
  BY <1>9 DEF Swallow, Fault
<1>10. ASSUME NEW w \in Workers, Die(w) PROVE LogInvariant'
  BY <1>10 DEF Die, Fault
<1>11. ASSUME NEW w \in Workers, Restart(w) PROVE LogInvariant'
  BY <1>11 DEF Restart
<1>12. CASE UNCHANGED vars
  BY <1>12 DEF vars, cursor, logs
<1> QED
  BY <1>1, <1>2, <1>3, <1>4, <1>5, <1>6, <1>7, <1>8, <1>9, <1>10, <1>11, <1>12 DEF Next

LEMMA InvariantHolds == Spec => [](TypeOK /\ LogInvariant)
<1>1. Init => TypeOK /\ LogInvariant
  BY InitInvariant
<1>2. TypeOK /\ LogInvariant /\ [Next]_vars => (TypeOK /\ LogInvariant)'
  BY TypeStep, InvariantStep DEF LogInvariant
<1> QED  BY <1>1, <1>2, PTL DEF Spec

(* Every variable keeps its type.                                          *)
THEOREM LogsTypeCorrect == Spec => []TypeOK
BY InvariantHolds, PTL

(* Each fault repeats an alert's line at most once                         *)
(* (alerter.py:218-267, 307-331).                                          *)
THEOREM LinesPerFault == Spec => []OneLineMorePerFault
<1>1. LogInvariant => OneLineMorePerFault
  BY DEF LogInvariant
<1> QED  BY <1>1, InvariantHolds, PTL

(* Alerts with a terminal event or in the external topic are in the log,   *)
(* and each of them is in the topic once.                                  *)
THEOREM ForwardedOnce == Spec => []ForwardedOnceAndLogged
<1>1. LogInvariant => ForwardedOnceAndLogged
  BY DEF LogInvariant
<1> QED  BY <1>1, InvariantHolds, PTL

-----------------------------------------------------------------------------
(* What has come of age stays so.                                          *)
LEMMA ExpiredGrows ==
  ASSUME TypeOK, [Next]_vars
  PROVE  Expired(day) \subseteq Expired(day)' /\ setting' = setting
<1>1. setting' = setting
  BY DEF Next, vars, Midnight, Fetch, OpenLog, Cleanup, Append, Forward, Commit, Abort, Swallow,
     Die, Fault, Restart
<1>2. day' \in Days /\ day <= day'
  <2>1. day' = day \/ (day < LastDay /\ day' = day + 1)
    BY DEF Next, vars, Midnight, Fetch, OpenLog, Cleanup, Append, Forward, Commit, Abort, Swallow,
       Die, Fault, Restart
  <2> QED  BY <2>1, AlertLogsAssumption DEF TypeOK, Days
<1>3. setting = None \/ setting \in Int
  BY AlertLogsAssumption DEF TypeOK
<1>4. RetentionDays = None \/ RetentionDays \in Int
  BY <1>3 DEF RetentionDays
<1>5. RetentionDays' = RetentionDays
  BY <1>1 DEF RetentionDays
<1> QED  BY <1>1, <1>2, <1>4, <1>5, AlertLogsAssumption DEF Expired, TypeOK, Days

LEMMA RetainedStep == TypeOK /\ RetainedAsConfigured /\ [Next]_vars => RetainedAsConfigured'
<1> SUFFICES ASSUME TypeOK, RetainedAsConfigured, [Next]_vars PROVE RetainedAsConfigured'
  OBVIOUS
<1>1. Expired(day) \subseteq Expired(day)'
  BY ExpiredGrows
<1>2. CASE UNCHANGED <<files, dates>>
  BY <1>1, <1>2 DEF RetainedAsConfigured
<1>3. ASSUME NEW w \in Workers, Cleanup(w) PROVE RetainedAsConfigured'
  <2>1. dates' = dates /\ files \ Expired(day) \subseteq files'
    BY <1>3 DEF Cleanup
  <2> QED  BY <1>1, <2>1 DEF RetainedAsConfigured
<1>4. ASSUME NEW w \in Workers, Append(w) PROVE RetainedAsConfigured'
  <2>1. /\ files \subseteq files' /\ path[w] \in files'
        /\ \A r \in Alerts : dates'[r] \subseteq dates[r] \cup {path[w]}
    BY <1>4 DEF Append, TypeOK
  <2> QED  BY <1>1, <2>1 DEF RetainedAsConfigured
<1> QED
  BY <1>2, <1>3, <1>4 DEF Next, vars, logs, Midnight, Fetch, OpenLog, Forward, Commit, Abort,
     Swallow, Die, Fault, Restart

(* No clean-up, at whatever time and of whichever worker, removes a file   *)
(* with lines that is not older than the retention (alerter.py:161-196).   *)
THEOREM FilesRetained == Spec => []RetainedAsConfigured
<1>1. Init => RetainedAsConfigured
  BY DEF Init, RetainedAsConfigured
<1> QED  BY <1>1, RetainedStep, LogsTypeCorrect, PTL DEF Spec

-----------------------------------------------------------------------------
(* The log files are an at-least-once sink.                                *)
stored == [r \in Alerts |-> written[r] + IF r \in abandoned THEN 1 ELSE 0]

LEMMA StepStores ==
  ASSUME TypeOK, UNCHANGED committed,
         NEW rows \in SUBSET Alerts,
         \A r \in Alerts : stored'[r] = IF r \in rows THEN stored[r] + 1 ELSE stored[r]
  PROVE  AtLeastOnceLog!Next
<1>1. rows \in SUBSET AtLeastOnceLog!Records /\ AtLeastOnceLog!Records = Alerts
  BY DEF AtLeastOnceLog!Records, Alerts
<1>2. AtLeastOnceLog!Store(rows)
  BY <1>1 DEF AtLeastOnceLog!Store, stored
<1> QED  BY <1>1, <1>2 DEF AtLeastOnceLog!Next

LEMMA StepImplements ==
  TypeOK /\ LogInvariant /\ [Next]_vars => [AtLeastOnceLog!Next]_AtLeastOnceLog!vars
<1> SUFFICES ASSUME TypeOK, LogInvariant, [Next]_vars
             PROVE  AtLeastOnceLog!Next \/ UNCHANGED AtLeastOnceLog!vars
  OBVIOUS
<1>1. CASE UNCHANGED <<committed, written, abandoned>>
  BY <1>1 DEF AtLeastOnceLog!vars
<1>2. ASSUME NEW w \in Workers, Append(w) PROVE AtLeastOnceLog!Next
  <2>1. <<w, at[w]>> \in Alerts
    BY <1>2, AlertLogsAssumption DEF Append, TypeOK, LogInvariant, Cursors, InBatch, Alerts
  <2>2. \A r \in Alerts : written'[r] = IF r = <<w, at[w]>> THEN written[r] + 1 ELSE written[r]
    BY <1>2, <2>1 DEF Append, TypeOK
  <2>3. UNCHANGED <<committed, abandoned>>
    BY <1>2 DEF Append, cursor
  <2>4. \A r \in Alerts : stored'[r] = IF r \in {<<w, at[w]>>} THEN stored[r] + 1 ELSE stored[r]
    BY <2>2, <2>3 DEF stored, TypeOK
  <2> QED  BY <2>1, <2>3, <2>4, StepStores
<1>3. ASSUME NEW w \in Workers, Swallow(w) PROVE AtLeastOnceLog!Next
  <2> DEFINE given == {<<w, o>> : o \in first[w] .. position[w] - 1}
  <2>1. abandoned' = abandoned \cup given /\ UNCHANGED <<committed, written>>
    BY <1>3 DEF Swallow, Fault
  <2>2. given \subseteq Alerts
    BY AlertLogsAssumption DEF TypeOK, Alerts
  <2> HIDE DEF given
  <2>3. \A r \in Alerts : stored'[r] = IF r \in given \ abandoned THEN stored[r] + 1 ELSE stored[r]
    BY <2>1 DEF stored, TypeOK
  <2> QED  BY <2>1, <2>2, <2>3, StepStores
<1>4. ASSUME NEW w \in Workers, Commit(w) PROVE AtLeastOnceLog!Next
  <2>1. /\ committed' = [committed EXCEPT ![w] = position[w]]
        /\ UNCHANGED <<written, abandoned>>
    BY <1>4 DEF Commit, logs
  <2>2. Settled' /\ TypeOK'
    BY TypeStep, InvariantStep DEF LogInvariant
  <2>3. \A v \in Workers : committed[v] <= committed'[v]
    BY <2>1, AlertLogsAssumption DEF TypeOK, LogInvariant, Cursors
  <2>4. \A r \in Alerts : r[2] < committed'[r[1]] => stored[r] > 0
    <3> TAKE r \in Alerts
    <3>1. r = <<r[1], r[2]>> /\ r[1] \in Workers /\ r[2] \in 0 .. LogLength - 1
      BY DEF Alerts
    <3>2. r[2] < committed'[r[1]] => written[r] > 0 \/ r \in abandoned
      BY <3>1, <2>1, <2>2 DEF Settled
    <3> QED  BY <3>2 DEF stored, TypeOK
  <2>5. committed' \in [Workers -> 0 .. LogLength]
    BY <2>2 DEF TypeOK
  <2>6. AtLeastOnceLog!Advance(committed')
    BY <2>1, <2>3, <2>4 DEF AtLeastOnceLog!Advance, AtLeastOnceLog!Records, Alerts, stored
  <2> QED  BY <2>5, <2>6 DEF AtLeastOnceLog!Next
<1> QED
  BY <1>1, <1>2, <1>3, <1>4 DEF Next, vars, cursor, logs, Midnight, Fetch, OpenLog, Cleanup,
     Forward, Abort, Die, Fault, Restart

(* A committed alert was logged first, or given up by a swallowed          *)
(* exception (alerter.py:218-331): the log implements AtLeastOnce.         *)
THEOREM LogsImplementAtLeastOnce == Spec => ImplementsAtLeastOnce
<1>1. Init => AtLeastOnceLog!Init
  BY DEF Init, AtLeastOnceLog!Init, AtLeastOnceLog!Records, Alerts
<1> QED
  BY <1>1, StepImplements, InvariantHolds, PTL DEF Spec, ImplementsAtLeastOnce, AtLeastOnceLog!Spec
===============================================================================
