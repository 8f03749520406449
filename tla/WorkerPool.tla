------------------------------ MODULE WorkerPool ------------------------------
(***************************************************************************)
(* How a service comes up and what is left of it when workers fail         *)
(* (src/src/base/service_entrypoint.py, execution.py, kafka/topics.py and  *)
(* the consumer's connect): a container waits for Kafka, each of its       *)
(* processes builds its workers one after the other, each worker           *)
(* provisions the topic it consumes, subscribes, loads the detector's      *)
(* model from a file all processes of the container share, and runs until  *)
(* an exception ends it.  The containers are replicas of one detector      *)
(* service.                                                                *)
(***************************************************************************)
EXTENDS Integers, FiniteSets, FiniteSetsExt

CONSTANTS Containers,
          Pool,        \* <<c, i>>: process i of container c, one for the executor "thread"
          Threads,     \* threads_per_process
          Declared,    \* NUMBER_OF_INSTANCES
          Configured,  \* values of the topic's configured partitions explored
          Existing,    \* partitions the topic may have beforehand, 0: no topic
          AutoExpand,  \* kafka_topics.auto_expand_partitions
          Tries,       \* visibility checks before the setup starts over
          MaxFaults    \* failures in a behaviour

ASSUME PoolAssumption ==
  /\ Pool \subseteq Containers \X Nat /\ IsFiniteSet(Pool)
  /\ \A c \in Containers : \E p \in Pool : p[1] = c
  /\ Threads \in Nat \ {0} /\ Declared \in Nat \ {0}
  /\ Configured \subseteq Nat \ {0} /\ Existing \subseteq Nat
  /\ AutoExpand \in BOOLEAN
  /\ Tries \in Nat \ {0} /\ MaxFaults \in Nat

VARIABLES
  configured,  \* configured[c]: the partitions c's configuration asks for
  kafka,       \* whether the brokers can be reached
  partitions,  \* partitions of the topic
  container,   \* container[c]: "down", "waiting" for Kafka, or "up"
  step,        \* step[p]: where process p is in building its next worker
  built,       \* built[p]: workers p has started
  tries,       \* tries[p]: visibility checks left
  worker,      \* worker[p][t]: "none", "working" or "dead"
  file,        \* file[c]: the model file, "absent", "partial" or "whole"
  faults

pool == <<step, built, tries, worker>>
vars == <<configured, kafka, partitions, container, pool, file, faults>>

Members(c) == {p \in Pool : p[1] = c}
Others(p) == Members(p[1]) \ {p}

(* processes * threads_per_process                                         *)
TotalWorkers(c) == Cardinality(Members(c)) * Threads

(* _desired_topic_partitions with what _set_topic_min_partitions asks for. *)
Target(c) == Max({configured[c], Declared, Declared * TotalWorkers(c)})

Counts == {0} \cup Existing \cup {Target(c) : c \in Containers}

Init ==
  /\ configured \in [Containers -> Configured]
  /\ kafka = TRUE /\ partitions \in Existing
  /\ container = [c \in Containers |-> "down"]
  /\ step = [p \in Pool |-> "ended"] /\ built = [p \in Pool |-> 0]
  /\ tries = [p \in Pool |-> Tries]
  /\ worker = [p \in Pool |-> [t \in 1 .. Threads |-> "none"]]
  /\ file = [c \in Containers |-> "absent"]
  /\ faults = 0

-----------------------------------------------------------------------------
Fault == faults < MaxFaults /\ faults' = faults + 1

KafkaGoes ==
  /\ Fault /\ kafka /\ kafka' = FALSE
  /\ UNCHANGED <<configured, partitions, container, pool, file>>

KafkaComes ==
  /\ ~kafka /\ kafka' = TRUE
  /\ UNCHANGED <<configured, partitions, container, pool, file, faults>>

(* The container runtime starts the container, again if it ended.          *)
Start(c) ==
  /\ container[c] = "down"
  /\ container' = [container EXCEPT ![c] = "waiting"]
  /\ UNCHANGED <<configured, kafka, partitions, pool, file, faults>>

(* wait_for_dependencies, then the service replaces the entrypoint.        *)
Ready(c) ==
  /\ container[c] = "waiting" /\ kafka
  /\ container' = [container EXCEPT ![c] = "up"]
  /\ step' = [p \in Pool |-> IF p \in Members(c) THEN "lookup" ELSE step[p]]
  /\ UNCHANGED <<configured, kafka, partitions, built, tries, worker, file, faults>>

(* wait_until_ready: TimeoutError.                                         *)
TimedOut(c) ==
  /\ container[c] = "waiting" /\ ~kafka
  /\ container' = [container EXCEPT ![c] = "down"]
  /\ UNCHANGED <<configured, kafka, partitions, pool, file, faults>>

-----------------------------------------------------------------------------
(* Process p takes its next step, and touches no other.                    *)
Goes(p, from, to) ==
  /\ step[p] = from /\ step' = [step EXCEPT ![p] = to]
  /\ UNCHANGED <<configured, kafka, container>>

(* Metadata: the broker asked may be behind.                               *)
Sees(count) ==
  /\ kafka
  /\ \/ count = partitions /\ UNCHANGED faults
     \/ count \in Counts /\ count < partitions /\ Fault

(* KafkaTopicManager.ensure: the first lookup.                             *)
Lookup(p) ==
  /\ \E count \in Counts :
       /\ Sees(count)
       /\ Goes(p, "lookup", IF count = 0 THEN "create" ELSE IF AutoExpand THEN "recheck" ELSE "visible")
  /\ UNCHANGED <<partitions, built, tries, worker, file>>

(* Seeded fault: "already exists" is an error like any other.              *)
CreateInsists(p) ==
  /\ kafka
  /\ IF partitions = 0
       THEN /\ partitions' = Target(p[1])
            /\ Goes(p, "create", IF AutoExpand THEN "recheck" ELSE "visible")
       ELSE Goes(p, "create", "create") /\ UNCHANGED partitions
  /\ UNCHANGED <<built, tries, worker, file, faults>>

(* create_topics: for a topic that is there already the request fails, and *)
(* _wait_for_admin_futures takes that for success.                         *)
Create(p) ==
  /\ kafka
  /\ partitions' = IF partitions = 0 THEN Target(p[1]) ELSE partitions
  /\ Goes(p, "create", IF AutoExpand THEN "recheck" ELSE "visible")
  /\ UNCHANGED <<built, tries, worker, file, faults>>

(* The second lookup.                                                      *)
Recheck(p) ==
  /\ \E count \in Counts :
       /\ Sees(count)
       /\ Goes(p, "recheck", IF count \in 1 .. Target(p[1]) - 1 THEN "expand" ELSE "visible")
  /\ UNCHANGED <<partitions, built, tries, worker, file>>

(* create_partitions.  A topic that has as many partitions as asked for    *)
(* "already has" them, which _is_partition_count_already_satisfied takes   *)
(* for success; one that has more is refused with words it does not know,  *)
(* and retry_forever asks again.                                           *)
Expand(p) ==
  /\ kafka
  /\ partitions' = IF partitions < Target(p[1]) THEN Target(p[1]) ELSE partitions
  /\ Goes(p, "expand", IF partitions <= Target(p[1]) THEN "visible" ELSE "expand")
  /\ UNCHANGED <<built, tries, worker, file, faults>>

(* An admin request takes effect, if the broker does not refuse it, and    *)
(* its answer is lost: it is retried.                                      *)
AnswerLost(p) ==
  /\ Fault /\ kafka /\ step[p] \in {"create", "expand"}
  /\ partitions' = IF step[p] = "expand" \/ partitions = 0
                     THEN Max({partitions, Target(p[1])}) ELSE partitions
  /\ UNCHANGED <<configured, kafka, container, pool, file>>

(* Seeded fault: any visible topic will do.                                *)
VisibleAtAll(p) ==
  /\ \E count \in Counts :
       /\ Sees(count)
       /\ Goes(p, "visible", IF count > 0 THEN "model" ELSE IF tries[p] > 1 THEN "visible" ELSE "lookup")
       /\ tries' = [tries EXCEPT ![p] = IF count > 0 \/ @ = 1 THEN Tries ELSE @ - 1]
  /\ UNCHANGED <<partitions, built, worker, file>>

(* _all_topics_created, and subscribe; with no tries left the whole setup  *)
(* is retried.                                                             *)
Visible(p) ==
  /\ \E count \in Counts :
       LET enough == count >= Target(p[1])
       IN  /\ Sees(count)
           /\ Goes(p, "visible",
                   IF enough THEN "model" ELSE IF tries[p] > 1 THEN "visible" ELSE "lookup")
           /\ tries' = [tries EXCEPT ![p] = IF enough \/ @ = 1 THEN Tries ELSE @ - 1]
  /\ UNCHANGED <<partitions, built, worker, file>>

-----------------------------------------------------------------------------
(* _get_model                                                              *)
FindModel(p) ==
  /\ Goes(p, "model", IF file[p[1]] = "absent" THEN "download" ELSE "verify")
  /\ UNCHANGED <<partitions, built, tries, worker, file, faults>>

(* requests.get, and open for writing, which empties the file.             *)
Download(p) ==
  /\ Goes(p, "download", "write")
  /\ file' = [file EXCEPT ![p[1]] = "partial"]
  /\ UNCHANGED <<partitions, built, tries, worker, faults>>

DownloadFails(p) ==
  /\ Fault /\ Goes(p, "download", "failed")
  /\ UNCHANGED <<partitions, built, tries, worker, file>>

(* Another process may have emptied the file in between.                   *)
Write(p) ==
  /\ Goes(p, "write", "verify")
  /\ \E content \in IF \E q \in Others(p) : step[q] = "write" THEN {"partial", "whole"} ELSE {"whole"} :
       file' = [file EXCEPT ![p[1]] = content]
  /\ UNCHANGED <<partitions, built, tries, worker, faults>>

(* The checksum; WrongChecksum ends the construction.                      *)
Verify(p) ==
  /\ Goes(p, "verify", IF file[p[1]] = "whole" THEN "load" ELSE "failed")
  /\ UNCHANGED <<partitions, built, tries, worker, file, faults>>

(* Seeded fault: one worker more than the pool has threads.                *)
LoadOneMore(p) ==
  /\ file[p[1]] = "whole"
  /\ Goes(p, "load", IF built[p] + 1 <= Threads THEN "lookup" ELSE "ended")
  /\ built' = [built EXCEPT ![p] = @ + 1]
  /\ worker' = [worker EXCEPT ![p] = [t \in 1 .. built[p] + 1 |->
                                        IF t = built[p] + 1 THEN "working" ELSE worker[p][t]]]
  /\ UNCHANGED <<partitions, tries, file, faults>>

(* The file is opened once more; then the worker's loop is submitted, and  *)
(* the next worker built.                                                  *)
Load(p) ==
  /\ file[p[1]] = "whole"
  /\ Goes(p, "load", IF built[p] + 1 < Threads THEN "lookup" ELSE "ended")
  /\ built' = [built EXCEPT ![p] = @ + 1]
  /\ worker' = [worker EXCEPT ![p][built[p] + 1] = "working"]
  /\ UNCHANGED <<partitions, tries, file, faults>>

(* A truncated pickle does not load.                                       *)
LoadFails(p) ==
  /\ file[p[1]] # "whole" /\ Goes(p, "load", "failed")
  /\ UNCHANGED <<partitions, built, tries, worker, file, faults>>

-----------------------------------------------------------------------------
Working(c) == {w \in Members(c) \X (1 .. Threads) : worker[w[1]][w[2]] = "working"}

(* An exception leaves a worker's loop.  gather and wait return, the pool  *)
(* is shut down, and nobody waits for or replaces anybody.                 *)
WorkerEnds(p, t) ==
  /\ Fault /\ worker[p][t] = "working"
  /\ worker' = [worker EXCEPT ![p][t] = "dead"]
  /\ UNCHANGED <<configured, kafka, partitions, container, step, built, tries, file>>

Down(c) ==
  /\ container' = [container EXCEPT ![c] = "down"]
  /\ step' = [p \in Pool |-> IF p \in Members(c) THEN "ended" ELSE step[p]]
  /\ built' = [p \in Pool |-> IF p \in Members(c) THEN 0 ELSE built[p]]
  /\ tries' = [p \in Pool |-> IF p \in Members(c) THEN Tries ELSE tries[p]]
  /\ worker' = [p \in Pool |-> IF p \in Members(c) THEN [t \in 1 .. Threads |-> "none"] ELSE worker[p]]
  /\ UNCHANGED <<configured, kafka, partitions, file>>

(* The interpreter ends with its last thread that is not a daemon.         *)
Exit(c) ==
  /\ container[c] = "up" /\ Working(c) = {}
  /\ \A p \in Members(c) : step[p] \in {"failed", "ended"}
  /\ Down(c) /\ UNCHANGED faults

(* A process is killed, and with it the container: the pool of processes   *)
(* breaks.                                                                 *)
Kill(c) == Fault /\ container[c] = "up" /\ Down(c)

-----------------------------------------------------------------------------
Build(p) ==
  \/ Lookup(p) \/ Create(p) \/ Recheck(p) \/ Expand(p) \/ Visible(p)
  \/ FindModel(p) \/ Download(p) \/ Write(p) \/ Verify(p) \/ Load(p) \/ LoadFails(p)
Run(c) == Start(c) \/ Ready(c) \/ Exit(c) \/ \E p \in Members(c) : Build(p)

Next ==
  \/ KafkaGoes \/ KafkaComes
  \/ \E c \in Containers : Run(c) \/ TimedOut(c) \/ Kill(c)
  \/ \E p \in Pool : AnswerLost(p) \/ DownloadFails(p)
  \/ \E p \in Pool, t \in 1 .. Threads : WorkerEnds(p, t)

Spec == Init /\ [][Next]_vars

(* Kafka comes back, the container runtime restarts what ended, and a      *)
(* container goes on with its work.                                        *)
FairSpec == Spec /\ WF_vars(KafkaComes) /\ \A c \in Containers : WF_vars(Run(c))

-----------------------------------------------------------------------------
Steps == {"lookup", "create", "recheck", "expand", "visible", "model", "download", "write",
          "verify", "load", "failed", "ended"}

TypeOK ==
  /\ configured \in [Containers -> Configured] /\ kafka \in BOOLEAN
  /\ partitions \in Nat /\ container \in [Containers -> {"down", "waiting", "up"}]
  /\ step \in [Pool -> Steps] /\ built \in [Pool -> 0 .. Threads] /\ tries \in [Pool -> 1 .. Tries]
  /\ worker \in [Pool -> [1 .. Threads -> {"none", "working", "dead"}]]
  /\ file \in [Containers -> {"absent", "partial", "whole"}]
  /\ faults \in 0 .. MaxFaults

(* A worker that works has the partitions its configuration asks for,      *)
(* whoever created or expanded the topic, and with which configuration.    *)
WorkersFindTheirPartitions == \A c \in Containers : Working(c) # {} => partitions >= Target(c)

(* What a container may not survive: a model file cut off while it was     *)
(* written, a topic nobody may expand, and one that another container has  *)
(* expanded beyond what a process of its own is about to ask for           *)
(* (topics.py:246: the refusal is retried for ever).                       *)
Stuck(c) ==
  \/ file[c] = "partial"
  \/ ~AutoExpand /\ partitions \in 1 .. Target(c) - 1
  \/ \E p \in Members(c) : step[p] = "expand" /\ partitions > Target(c)

(* Every container gets, or gets back, a worker that works, unless it is   *)
(* stuck: two that create, or expand to the same count, at once both end   *)
(* their retries.                                                          *)
ContainersServe == \A c \in Containers : <>[](Working(c) # {} \/ Stuck(c))
===============================================================================
