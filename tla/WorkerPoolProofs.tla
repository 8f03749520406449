---------------------------- MODULE WorkerPoolProofs ----------------------------
(***************************************************************************)
(* What the provisioning of a service guarantees for every number of       *)
(* containers, processes, threads and partitions, with and without         *)
(* auto_expand_partitions: a worker finds the partitions its configuration *)
(* asks for.                                                               *)
(***************************************************************************)
EXTENDS WorkerPool, FiniteSetTheorems, TLAPS

-----------------------------------------------------------------------------
(* The inductive invariant.                                                *)

(* The setup has seen enough partitions, and topics never shrink.          *)
Provisioned ==
  \A p \in Pool :
    \/ step[p] \in {"model", "download", "write", "verify", "load"}
    \/ \E t \in 1 .. Threads : worker[p][t] = "working"
    => partitions >= Target(p[1])

(* A process builds while it lacks workers, and only in a container that   *)
(* is up.                                                                  *)
Building ==
  \A p \in Pool :
    /\ step[p] \notin {"failed", "ended"} => built[p] < Threads
    /\ container[p[1]] # "up" => built[p] = 0 /\ step[p] = "ended"

PoolInvariant == TypeOK /\ Provisioned /\ Building

-----------------------------------------------------------------------------
LEMMA MaxOf ==
  ASSUME NEW S \in SUBSET Int, NEW m \in S, \A n \in S : n <= m
  PROVE  Max(S) = m
<1>1. m \in S /\ \A y \in S : m >= y
  OBVIOUS
<1>2. Max(S) \in S /\ \A y \in S : Max(S) >= y
  BY <1>1, Zenon DEF Max
<1>3. Max(S) \in Int /\ m \in Int /\ m >= Max(S) /\ Max(S) >= m
  BY <1>1, <1>2
<1> HIDE DEF Max
<1> QED  BY <1>3

LEMMA MaxOfTwo ==
  ASSUME NEW x \in Nat, NEW y \in Nat
  PROVE  Max({x, y}) \in Nat /\ Max({x, y}) >= x /\ Max({x, y}) >= y
<1>1. CASE x >= y
  BY <1>1, MaxOf
<1>2. CASE x < y
  BY <1>2, MaxOf
<1> QED  BY <1>1, <1>2

LEMMA TargetType == ASSUME TypeOK, NEW c \in Containers PROVE Target(c) \in Nat \ {0}
<1>1. TotalWorkers(c) \in Nat
  <2>1. Cardinality(Members(c)) \in Nat
    BY PoolAssumption, FS_Subset, FS_CardinalityType DEF Members
  <2> QED  BY <2>1, PoolAssumption DEF TotalWorkers
<1>2. Declared * TotalWorkers(c) \in Nat
  BY <1>1, PoolAssumption
<1>3. configured[c] \in Nat \ {0} /\ Declared \in Nat \ {0}
  BY PoolAssumption DEF TypeOK
<1> DEFINE asked == {configured[c], Declared, Declared * TotalWorkers(c)}
<1>4. PICK m \in asked : \A n \in asked : n <= m
  BY <1>2, <1>3
<1>5. Max(asked) = m
  <2> asked \in SUBSET Int
    BY <1>2, <1>3
  <2> HIDE DEF asked
  <2> QED  BY <1>4, MaxOf
<1>6. m >= Declared
  BY <1>4
<1> QED  BY <1>2, <1>3, <1>5, <1>6 DEF Target

(* Every container that asks, asks for the same as long as it runs.        *)
LEMMA TargetKept == ASSUME NEW c \in Containers, UNCHANGED configured PROVE Target(c)' = Target(c)
BY DEF Target, TotalWorkers

LEMMA SeenCount ==
  ASSUME TypeOK, NEW count \in Counts, Sees(count)
  PROVE  count \in Nat /\ count <= partitions
<1>1. \A c \in Containers : Target(c) \in Nat
  BY TargetType
<1> QED  BY <1>1, PoolAssumption DEF Counts, Sees, TypeOK

LEMMA InitPool == Init => PoolInvariant
<1> SUFFICES ASSUME Init PROVE PoolInvariant
  OBVIOUS
<1>1. TypeOK
  BY PoolAssumption DEF Init, TypeOK, Steps
<1>2. Provisioned /\ Building
  BY PoolAssumption DEF Init, Provisioned, Building
<1> QED  BY <1>1, <1>2 DEF PoolInvariant

(* A step of one process that leaves the topic no narrower, builds no      *)
(* worker, and goes past the setup only with enough partitions.            *)
LEMMA BuildStep ==
  ASSUME PoolInvariant, NEW p \in Pool, NEW from \in Steps \ {"failed", "ended"}, NEW to \in Steps,
         Goes(p, from, to), partitions' \in Nat, partitions <= partitions',
         to \in {"model", "download", "write", "verify", "load"} => partitions' >= Target(p[1]),
         built' = built, worker' = worker, tries' \in [Pool -> 1 .. Tries],
         file' \in [Containers -> {"absent", "partial", "whole"}],
         faults' \in 0 .. MaxFaults
  PROVE  PoolInvariant'
<1>0. /\ step[p] = from /\ step' \in [Pool -> Steps] /\ step'[p] = to
      /\ \A q \in Pool : q # p => step'[q] = step[q]
      /\ configured' = configured /\ kafka' = kafka /\ container' = container
  BY DEF Goes, PoolInvariant, TypeOK
<1>1. TypeOK'
  BY <1>0 DEF PoolInvariant, TypeOK
<1>2. \A q \in Pool : q[1] \in Containers /\ Target(q[1])' = Target(q[1]) /\ Target(q[1]) \in Nat
  BY <1>0, PoolAssumption, TargetKept, TargetType DEF PoolInvariant
<1>3. \A q \in Pool : partitions >= Target(q[1]) => partitions' >= Target(q[1])'
  BY <1>2 DEF PoolInvariant, TypeOK
<1>4. Provisioned'
  <2> SUFFICES ASSUME NEW q \in Pool,
                      \/ step'[q] \in {"model", "download", "write", "verify", "load"}
                      \/ \E t \in 1 .. Threads : worker'[q][t] = "working"
               PROVE  partitions' >= Target(q[1])'
    BY DEF Provisioned
  <2>1. CASE q # p \/ \E t \in 1 .. Threads : worker'[q][t] = "working"
    BY <2>1, <1>0, <1>3 DEF PoolInvariant, Provisioned
  <2>2. CASE q = p /\ step'[q] \in {"model", "download", "write", "verify", "load"}
    BY <2>2, <1>0, <1>2
  <2> QED  BY <2>1, <2>2
<1>5. Building'
  BY <1>0 DEF PoolInvariant, Building
<1> QED  BY <1>1, <1>4, <1>5 DEF PoolInvariant

(* Nothing happens to the processes.                                       *)
LEMMA PoolIdle ==
  ASSUME PoolInvariant, configured' = configured, pool' = pool, file' = file,
         partitions' \in Nat, partitions <= partitions', kafka' \in BOOLEAN,
         container' \in [Containers -> {"down", "waiting", "up"}],
         \A c \in Containers : container'[c] # "up" => container[c] # "up",
         faults' \in 0 .. MaxFaults
  PROVE  PoolInvariant'
<1>1. TypeOK'
  BY DEF PoolInvariant, TypeOK, pool
<1>2. \A q \in Pool : q[1] \in Containers /\ Target(q[1])' = Target(q[1]) /\ Target(q[1]) \in Nat
  BY PoolAssumption, TargetKept, TargetType DEF PoolInvariant
<1>3. Provisioned'
  <2>1. step' = step /\ worker' = worker /\ partitions \in Nat
    BY DEF pool, PoolInvariant, TypeOK
  <2>2. \A q \in Pool : partitions >= Target(q[1]) => partitions' >= Target(q[1])'
    BY <1>2, <2>1
  <2> QED  BY <2>1, <2>2 DEF PoolInvariant, Provisioned
<1>4. Building'
  BY <1>2 DEF PoolInvariant, Building, pool
<1> QED  BY <1>1, <1>3, <1>4 DEF PoolInvariant

LEMMA FaultType == ASSUME PoolInvariant, Fault \/ UNCHANGED faults PROVE faults' \in 0 .. MaxFaults
BY PoolAssumption DEF PoolInvariant, TypeOK, Fault

LEMMA BuildKeeps == ASSUME PoolInvariant, NEW p \in Pool, Build(p) PROVE PoolInvariant'
<1> DEFINE later == {"model", "download", "write", "verify", "load"}
<1>0. /\ p[1] \in Containers /\ Target(p[1]) \in Nat /\ partitions \in Nat
      /\ step[p] \in Steps /\ Tries \in Nat \ {0} /\ tries[p] \in 1 .. Tries
      /\ file \in [Containers -> {"absent", "partial", "whole"}] /\ tries \in [Pool -> 1 .. Tries]
      /\ step[p] \in later => partitions >= Target(p[1])
  BY PoolAssumption, TargetType DEF PoolInvariant, TypeOK, Provisioned
<1>1. CASE Lookup(p)
  <2>1. PICK count \in Counts :
          /\ Sees(count)
          /\ Goes(p, "lookup", IF count = 0 THEN "create" ELSE IF AutoExpand THEN "recheck" ELSE "visible")
    BY <1>1 DEF Lookup
  <2>2. faults' \in 0 .. MaxFaults
    BY <2>1, FaultType DEF Sees
  <2> QED  BY <1>0, <1>1, <2>1, <2>2, BuildStep DEF Lookup, Steps
<1>2. CASE Create(p)
  <2>1. faults' \in 0 .. MaxFaults
    BY <1>2, FaultType DEF Create
  <2>2. partitions' \in Nat /\ partitions <= partitions'
    BY <1>0, <1>2 DEF Create
  <2> QED  BY <1>0, <1>2, <2>1, <2>2, BuildStep DEF Create, Steps
<1>3. CASE Recheck(p)
  <2>1. PICK count \in Counts :
          /\ Sees(count)
          /\ Goes(p, "recheck", IF count \in 1 .. Target(p[1]) - 1 THEN "expand" ELSE "visible")
    BY <1>3 DEF Recheck
  <2>2. faults' \in 0 .. MaxFaults
    BY <2>1, FaultType DEF Sees
  <2> QED  BY <1>0, <1>3, <2>1, <2>2, BuildStep DEF Recheck, Steps
<1>4. CASE Expand(p)
  <2>1. faults' \in 0 .. MaxFaults
    BY <1>4, FaultType DEF Expand
  <2>2. partitions' \in Nat /\ partitions <= partitions'
    BY <1>0, <1>4 DEF Expand
  <2> QED  BY <1>0, <1>4, <2>1, <2>2, BuildStep DEF Expand, Steps
<1>5. CASE Visible(p)
  <2>1. PICK count \in Counts :
          /\ Sees(count)
          /\ Goes(p, "visible", IF count >= Target(p[1]) THEN "model" ELSE
                                IF tries[p] > 1 THEN "visible" ELSE "lookup")
          /\ tries' = [tries EXCEPT ![p] = IF count >= Target(p[1]) \/ @ = 1 THEN Tries ELSE @ - 1]
    BY <1>5 DEF Visible
  <2>2. faults' \in 0 .. MaxFaults
    BY <2>1, FaultType DEF Sees
  <2>3. tries' \in [Pool -> 1 .. Tries]
    BY <1>0, <2>1
  <2>4. count \in Nat /\ count <= partitions
    BY <2>1, SeenCount DEF PoolInvariant
  <2>5. CASE count >= Target(p[1])
    BY <1>0, <1>5, <2>1, <2>2, <2>3, <2>4, <2>5, BuildStep DEF Visible, Steps
  <2>6. CASE ~(count >= Target(p[1]))
    BY <1>0, <1>5, <2>1, <2>2, <2>3, <2>4, <2>6, BuildStep DEF Visible, Steps
  <2> QED  BY <2>5, <2>6
<1>6. CASE FindModel(p)
  <2>1. faults' \in 0 .. MaxFaults
    BY <1>6, FaultType DEF FindModel
  <2>3. step[p] \in later /\ partitions' = partitions
    BY <1>6 DEF FindModel, Goes
  <2> QED  BY <1>0, <1>6, <2>1, <2>3, BuildStep DEF FindModel, Steps
<1>7. CASE Download(p)
  <2>1. faults' \in 0 .. MaxFaults
    BY <1>7, FaultType DEF Download
  <2>3. step[p] \in later /\ partitions' = partitions
    BY <1>7 DEF Download, Goes
  <2> QED  BY <1>0, <1>7, <2>1, <2>3, BuildStep DEF Download, Steps
<1>8. CASE Write(p)
  <2>1. faults' \in 0 .. MaxFaults
    BY <1>8, FaultType DEF Write
  <2>2. file' \in [Containers -> {"absent", "partial", "whole"}]
    BY <1>0, <1>8 DEF Write
  <2>3. step[p] \in later /\ partitions' = partitions
    BY <1>8 DEF Write, Goes
  <2> QED  BY <1>0, <1>8, <2>1, <2>2, <2>3, BuildStep DEF Write, Steps
<1>9. CASE Verify(p)
  <2>1. faults' \in 0 .. MaxFaults
    BY <1>9, FaultType DEF Verify
  <2>3. step[p] \in later /\ partitions' = partitions
    BY <1>9 DEF Verify, Goes
  <2> QED  BY <1>0, <1>9, <2>1, <2>3, BuildStep DEF Verify, Steps
<1>10. CASE Load(p)
  <2>0. step[p] = "load" /\ UNCHANGED <<configured, kafka, container, partitions, tries, file, faults>>
    BY <1>10 DEF Load, Goes
  <2>1. /\ step[p] = "load" /\ built[p] < Threads /\ built[p] \in Nat
        /\ UNCHANGED <<configured, kafka, container, partitions, tries, file, faults>>
    <3>1. built[p] \in 0 .. Threads
      BY DEF PoolInvariant, TypeOK
    <3>2. built[p] < Threads
      BY <2>0 DEF PoolInvariant, Building
    <3> QED  BY <2>0, <3>1, <3>2, PoolAssumption
  <2>2. step' = [step EXCEPT ![p] = IF built[p] + 1 < Threads THEN "lookup" ELSE "ended"]
    BY <1>10 DEF Load, Goes
  <2>3. built' = [built EXCEPT ![p] = built[p] + 1] /\ built \in [Pool -> 0 .. Threads]
    BY <1>10 DEF Load, PoolInvariant, TypeOK
  <2>4. worker' = [worker EXCEPT ![p] = [worker[p] EXCEPT ![built[p] + 1] = "working"]]
    BY <1>10 DEF Load
  <2>5. container[p[1]] = "up"
    BY PoolAssumption, <2>1 DEF PoolInvariant, Building, TypeOK
  <2>6. TypeOK'
    <3>1. built' \in [Pool -> 0 .. Threads]
      BY <2>1, <2>3, PoolAssumption
    <3>2. worker' \in [Pool -> [1 .. Threads -> {"none", "working", "dead"}]]
      BY <2>4 DEF PoolInvariant, TypeOK
    <3>3. step' \in [Pool -> Steps]
      BY <2>2 DEF PoolInvariant, TypeOK, Steps
    <3> QED  BY <2>1, <3>1, <3>2, <3>3 DEF PoolInvariant, TypeOK
  <2>7. \A q \in Pool : q[1] \in Containers /\ Target(q[1])' = Target(q[1])
    BY PoolAssumption, TargetKept, <2>1
  <2>8. Provisioned'
    <3>1. \A q \in Pool : q # p => step'[q] = step[q] /\ worker'[q] = worker[q]
      BY <2>2, <2>4 DEF PoolInvariant, TypeOK
    <3>2. step'[p] \notin later
      BY <2>2 DEF PoolInvariant, TypeOK
    <3> QED  BY <1>0, <2>1, <2>7, <3>1, <3>2 DEF PoolInvariant, Provisioned
  <2>9. Building'
    BY <2>1, <2>2, <2>3, <2>5 DEF PoolInvariant, Building, TypeOK
  <2> QED  BY <2>6, <2>8, <2>9 DEF PoolInvariant
<1>11. CASE LoadFails(p)
  <2>1. faults' \in 0 .. MaxFaults
    BY <1>11, FaultType DEF LoadFails
  <2> QED  BY <1>0, <1>11, <2>1, BuildStep DEF LoadFails, Steps
<1> QED
  BY <1>1, <1>2, <1>3, <1>4, <1>5, <1>6, <1>7, <1>8, <1>9, <1>10, <1>11 DEF Build

LEMMA DownKeeps ==
  ASSUME PoolInvariant, NEW c \in Containers, Down(c), faults' \in 0 .. MaxFaults
  PROVE  PoolInvariant'
<1> USE PoolAssumption DEF PoolInvariant
<1>1. /\ UNCHANGED <<configured, kafka, partitions, file>>
      /\ container' = [container EXCEPT ![c] = "down"]
      /\ \A p \in Pool : IF p \in Members(c)
           THEN /\ step'[p] = "ended" /\ built'[p] = 0
                /\ worker'[p] = [t \in 1 .. Threads |-> "none"]
           ELSE step'[p] = step[p] /\ built'[p] = built[p] /\ worker'[p] = worker[p]
  BY DEF Down
<1>2. TypeOK'
  BY DEF Down, TypeOK, Steps
<1>3. \A q \in Pool : q[1] \in Containers /\ Target(q[1])' = Target(q[1])
  BY TargetKept, <1>1
<1>4. Provisioned'
  BY <1>1, <1>3 DEF Provisioned
<1>5. Building'
  BY <1>1, <1>3 DEF Building, TypeOK, Members
<1> QED  BY <1>2, <1>4, <1>5

LEMMA NextKeeps == PoolInvariant /\ [Next]_vars => PoolInvariant'
<1> SUFFICES ASSUME PoolInvariant, [Next]_vars PROVE PoolInvariant'
  OBVIOUS
<1>0. /\ partitions \in Nat /\ faults \in 0 .. MaxFaults /\ kafka \in BOOLEAN
      /\ container \in [Containers -> {"down", "waiting", "up"}]
  BY DEF PoolInvariant, TypeOK
<1>1. CASE KafkaGoes \/ KafkaComes
  <2>1. faults' \in 0 .. MaxFaults
    BY <1>1, FaultType DEF KafkaGoes, KafkaComes
  <2>2. /\ configured' = configured /\ pool' = pool /\ file' = file
        /\ partitions' = partitions /\ kafka' \in BOOLEAN /\ container' = container
    BY <1>1 DEF KafkaGoes, KafkaComes
  <2> QED  BY <1>0, <2>1, <2>2, PoolIdle
<1>2. ASSUME NEW c \in Containers, Start(c) \/ TimedOut(c) PROVE PoolInvariant'
  BY <1>0, <1>2, PoolIdle DEF Start, TimedOut
<1>3. ASSUME NEW c \in Containers, Ready(c) PROVE PoolInvariant'
  <2>1. /\ UNCHANGED <<configured, kafka, partitions, built, tries, worker, file, faults>>
        /\ container' = [container EXCEPT ![c] = "up"] /\ container[c] = "waiting"
        /\ step' = [p \in Pool |-> IF p \in Members(c) THEN "lookup" ELSE step[p]]
    BY <1>3 DEF Ready
  <2>2. TypeOK'
    BY <2>1 DEF PoolInvariant, TypeOK, Steps
  <2>3. \A q \in Pool : q[1] \in Containers /\ Target(q[1])' = Target(q[1])
    BY PoolAssumption, TargetKept, <2>1
  <2>4. Provisioned'
    BY <2>1, <2>3 DEF PoolInvariant, Provisioned
  <2>5. Building'
    BY <2>1, <2>3, PoolAssumption DEF PoolInvariant, Building, TypeOK, Members
  <2> QED  BY <2>2, <2>4, <2>5 DEF PoolInvariant
<1>4. ASSUME NEW c \in Containers, Exit(c) \/ Kill(c) PROVE PoolInvariant'
  <2>1. faults' \in 0 .. MaxFaults
    BY <1>4, FaultType DEF Exit, Kill
  <2> QED  BY <1>4, <2>1, DownKeeps DEF Exit, Kill
<1>5. ASSUME NEW p \in Pool, Build(p) PROVE PoolInvariant'
  BY <1>5, BuildKeeps
<1>6. ASSUME NEW p \in Pool, AnswerLost(p) PROVE PoolInvariant'
  <2>1. faults' \in 0 .. MaxFaults
    BY <1>6, FaultType DEF AnswerLost
  <2>2. Target(p[1]) \in Nat
    BY PoolAssumption, TargetType DEF PoolInvariant
  <2>3. partitions' \in Nat /\ partitions <= partitions'
    BY <1>0, <1>6, <2>2, MaxOfTwo DEF AnswerLost
  <2> QED  BY <1>0, <1>6, <2>1, <2>3, PoolIdle DEF AnswerLost
<1>7. ASSUME NEW p \in Pool, DownloadFails(p) PROVE PoolInvariant'
  <2>1. faults' \in 0 .. MaxFaults
    BY <1>7, FaultType DEF DownloadFails
  <2> QED  BY <1>0, <1>7, <2>1, BuildStep DEF DownloadFails, Steps, PoolInvariant, TypeOK
<1>8. ASSUME NEW p \in Pool, NEW t \in 1 .. Threads, WorkerEnds(p, t) PROVE PoolInvariant'
  <2>1. faults' \in 0 .. MaxFaults
    BY <1>8, FaultType DEF WorkerEnds
  <2>2. /\ UNCHANGED <<configured, kafka, partitions, container, step, built, tries, file>>
        /\ worker' = [worker EXCEPT ![p] = [worker[p] EXCEPT ![t] = "dead"]]
    BY <1>8 DEF WorkerEnds
  <2>3. TypeOK'
    BY <2>1, <2>2 DEF PoolInvariant, TypeOK
  <2>4. \A q \in Pool : q[1] \in Containers /\ Target(q[1])' = Target(q[1])
    BY PoolAssumption, TargetKept, <2>2
  <2>5. \A q \in Pool, u \in 1 .. Threads : worker'[q][u] = "working" => worker[q][u] = "working"
    BY <2>2 DEF PoolInvariant, TypeOK
  <2>6. Provisioned' /\ Building'
    BY <2>2, <2>4, <2>5 DEF PoolInvariant, Provisioned, Building
  <2> QED  BY <2>3, <2>6 DEF PoolInvariant
<1>9. CASE UNCHANGED vars
  BY <1>0, <1>9, PoolIdle DEF vars
<1> QED
  BY <1>1, <1>2, <1>3, <1>4, <1>5, <1>6, <1>7, <1>8, <1>9, PoolAssumption DEF Next, Run, Members

LEMMA PoolInvariantHolds == Spec => []PoolInvariant
BY InitPool, NextKeeps, PTL DEF Spec

(* Every variable keeps its type; no process builds more workers than it   *)
(* has threads.                                                            *)
THEOREM PoolTypeCorrect == Spec => []TypeOK
<1>1. PoolInvariant => TypeOK
  BY DEF PoolInvariant
<1> QED  BY <1>1, PoolInvariantHolds, PTL

(* A worker that works has the partitions its own configuration asks for,  *)
(* whoever created or expanded the topic, and however stale the metadata   *)
(* of the brokers was (topics.py:60-260, consumer.py:361-420).             *)
THEOREM PartitionsFound == Spec => []WorkersFindTheirPartitions
<1>1. PoolInvariant => WorkersFindTheirPartitions
  BY DEF PoolInvariant, Provisioned, WorkersFindTheirPartitions, Working, Members
<1> QED  BY <1>1, PoolInvariantHolds, PTL
===============================================================================
