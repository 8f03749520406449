-------------------------- MODULE LogCollectorProofs --------------------------
(***************************************************************************)
(* What LogCollector guarantees for every log, every number of workers,    *)
(* subnets, faults and new assignments: its type invariant, the inductive  *)
(* invariant of LogCollectorInvariant and, where no dead worker's batch    *)
(* handler is finalized, that each line is sent once.                      *)
(***************************************************************************)
EXTENDS LogCollectorInvariant, WellFoundedInduction, FiniteSetTheorems, TLAPS

(* The last of some offsets: offsets_for commits the one after it.         *)
LEMMA MaxOfBounded ==
  ASSUME NEW n \in Nat, NEW S \in SUBSET (0 .. n), S # {}
  PROVE  /\ Max(S) \in S
         /\ \A y \in S : Max(S) >= y
<1> DEFINE Below == {n - x : x \in S}
<1>1. Below \subseteq Nat /\ Below # {}
  <2>1. \A x \in S : n - x \in Nat
    OBVIOUS
  <2> QED BY <2>1
<1>2. PICK t \in Below : \A u \in Below : <<u, t>> \notin OpToRel(<, Nat)
  <2> HIDE DEF Below
  <2> QED BY <1>1, NatLessThanWellFounded, WFMin
<1>3. \A u \in Below : ~(u < t)
  BY <1>1, <1>2 DEF OpToRel
<1>4. PICK x \in S : t = n - x
  OBVIOUS
<1>5. \A y \in S : x >= y
  BY <1>3, <1>4
<1> QED BY <1>5 DEF Max

-------------------------------------------------------------------------------
(* The operators of the model.                                                 *)

LEMMA LineOfType ==
  ASSUME TypeOK, NEW w \in Workers, NEW o \in Offsets
  PROVE  LineOf(w, o) \in Line
  BY DEF LineOf, Line, TypeOK

(* The packets of a flush are the batches of the keys that have one.           *)
LEMMA AllBatchesForm ==
  ASSUME TypeOK, NEW w \in Workers
  PROVE  /\ AllBatches(w) \subseteq Packet
         /\ \A p \in AllBatches(w) : p.key \in Keys /\ p.lines = batch[w][p.key]
         /\ \A k \in Keys : batch[w][k] # {} =>
              \E p \in AllBatches(w) : p.lines = batch[w][k]
         /\ \A p, q \in AllBatches(w) : p.key = q.key => p = q
<1>1. \A p \in AllBatches(w) : \E k \in Keys :
        p = [key |-> k, context |-> buffer[w][k], lines |-> batch[w][k]]
  BY DEF AllBatches, Complete
<1>2. \A k \in Keys : batch[w][k] # {} =>
        [key |-> k, context |-> buffer[w][k], lines |-> batch[w][k]] \in AllBatches(w)
  BY DEF AllBatches, Complete
<1>3. \A k \in Keys : buffer[w][k] \in SUBSET Line /\ batch[w][k] \in SUBSET Line
  BY DEF TypeOK
<1>4. AllBatches(w) \subseteq Packet
  BY <1>1, <1>3 DEF Packet
<1>5. \A p \in AllBatches(w) : p.key \in Keys /\ p.lines = batch[w][p.key]
  BY <1>1
<1>6. \A k \in Keys : batch[w][k] # {} =>
        \E p \in AllBatches(w) : p.lines = batch[w][k]
  <2> SUFFICES ASSUME NEW k \in Keys, batch[w][k] # {}
               PROVE  \E p \in AllBatches(w) : p.lines = batch[w][k]
    OBVIOUS
  <2> DEFINE p == [key |-> k, context |-> buffer[w][k], lines |-> batch[w][k]]
  <2>1. p \in AllBatches(w) /\ p.lines = batch[w][k]
    BY <1>2
  <2> QED  BY <2>1
<1>7. \A p, q \in AllBatches(w) : p.key = q.key => p = q
  <2> SUFFICES ASSUME NEW p \in AllBatches(w), NEW q \in AllBatches(w), p.key = q.key
               PROVE  p = q
    OBVIOUS
  <2>1. PICK k \in Keys :
          p = [key |-> k, context |-> buffer[w][k], lines |-> batch[w][k]]
    BY <1>1
  <2>2. PICK l \in Keys :
          q = [key |-> l, context |-> buffer[w][l], lines |-> batch[w][l]]
    BY <1>1
  <2> QED  BY <2>1, <2>2
<1> QED  BY <1>4, <1>5, <1>6, <1>7

(* The last offset of a fetch is the greatest of its source.                   *)
LEMMA LastOfFetch ==
  ASSUME TypeOK, NEW w \in Workers, FetchFromCommitted, fresh[w], InFlight(w)
  PROVE  /\ Max(source[w]) \in Offsets
         /\ committed <= Max(source[w])
         /\ source[w] = committed .. Max(source[w])
<1>1. PICK last \in Offsets : committed <= last /\ source[w] = committed .. last
  BY DEF FetchFromCommitted
<1>0. committed \in Nat /\ last \in Nat /\ last <= LogLength
  BY <1>1, CollectorAssumption DEF TypeOK, Offsets
<1>2. source[w] \in SUBSET (0 .. LogLength) /\ source[w] # {} /\ last \in source[w]
  <2>1. \A x \in committed .. last : x \in 0 .. LogLength
    BY <1>0, CollectorAssumption
  <2>2. last \in committed .. last
    BY <1>0, <1>1
  <2> QED  BY <1>1, <2>1, <2>2
<1>3. Max(source[w]) \in source[w] /\ \A y \in source[w] : Max(source[w]) >= y
  BY <1>2, MaxOfBounded, CollectorAssumption
<1>4. Max(source[w]) = last
  BY <1>1, <1>2, <1>3, CollectorAssumption DEF TypeOK, Offsets
<1> QED  BY <1>1, <1>4

-------------------------------------------------------------------------------
(* Type correctness.                                                           *)

LEMMA TypeInit == Init => TypeOK
  BY CollectorAssumption DEF Init, TypeOK, Steps, NoLines

LEMMA ForgetType ==
  ASSUME TypeOK, NEW w \in Workers, Forget(w)
  PROVE  /\ source' \in [Workers -> SUBSET Offsets]
         /\ todo' \in [Workers -> SUBSET Offsets]
         /\ fresh' \in [Workers -> BOOLEAN]
         /\ batch' \in [Workers -> [Keys -> SUBSET Line]]
         /\ buffer' \in [Workers -> [Keys -> SUBSET Line]]
         /\ collected' \in [Workers -> SUBSET Packet]
         /\ pc' \in [Workers -> Steps]
  BY DEF Forget, Goto, NoLines, Steps, TypeOK

LEMMA TypeAdd ==
  ASSUME TypeOK, NEW w \in Workers, NEW o \in Offsets, Add(w, o)
  PROVE  TypeOK'
<1> DEFINE key == log[o].key
           lines == batch[w][key] \cup {[off |-> o, id |-> fetch[w]]}
<1>1. key \in Keys
  BY DEF TypeOK, Record
<1>2. lines \in SUBSET Line /\ buffer[w][key] \in SUBSET Line
  BY <1>1 DEF TypeOK, Line
<1>3. Complete(key, buffer[w][key], lines) \in Packet
  BY <1>1, <1>2 DEF Complete, Packet
<1>4. todo' \in [Workers -> SUBSET Offsets]
  BY DEF Add, Batched, TypeOK
<1>5. CASE Cardinality(lines) >= BatchSize
  <2>1. /\ collected' = [collected EXCEPT ![w] =
                           @ \cup {Complete(key, buffer[w][key], lines)}]
        /\ buffer' = [buffer EXCEPT ![w][key] = lines]
        /\ batch' = [batch EXCEPT ![w][key] = {}]
    BY <1>5 DEF Add, Batched
  <2> HIDE DEF lines, key
  <2>2. collected' \in [Workers -> SUBSET Packet]
    BY <1>3, <2>1 DEF TypeOK
  <2>3. /\ buffer' \in [Workers -> [Keys -> SUBSET Line]]
        /\ batch' \in [Workers -> [Keys -> SUBSET Line]]
    BY <1>1, <1>2, <2>1 DEF TypeOK
  <2> QED  BY <1>4, <2>2, <2>3 DEF Add, Batched, TypeOK, brokerVars
<1>6. CASE ~(Cardinality(lines) >= BatchSize)
  <2>1. batch' = [batch EXCEPT ![w][key] = lines] /\ UNCHANGED <<buffer, collected>>
    BY <1>6 DEF Add, Batched
  <2> HIDE DEF lines, key
  <2>2. batch' \in [Workers -> [Keys -> SUBSET Line]]
    BY <1>1, <1>2, <2>1 DEF TypeOK
  <2> QED  BY <1>4, <2>1, <2>2 DEF Add, Batched, TypeOK, brokerVars
<1> QED  BY <1>5, <1>6

LEMMA TypeWork ==
  ASSUME TypeOK, FetchFromCommitted, NEW w \in Workers, Work(w)
  PROVE  TypeOK'
<1>1. CASE Fetch(w)
  <2>1. PICK last \in committed .. committed + BatchSize - 1 :
          /\ last < LogLength
          /\ source' = [source EXCEPT ![w] = committed .. last]
          /\ todo' = [todo EXCEPT ![w] = committed .. last]
    BY <1>1 DEF Fetch
  <2>2. committed .. last \in SUBSET Offsets
    BY <2>1, CollectorAssumption DEF TypeOK, Offsets
  <2> QED  BY <1>1, <2>1, <2>2 DEF Fetch, Goto, Steps, memory, brokerVars, TypeOK
<1>2. CASE Flush(w)
  <2>1. /\ collected' \in [Workers -> SUBSET Packet]
        /\ buffer' \in [Workers -> [Keys -> SUBSET Line]]
        /\ batch' \in [Workers -> [Keys -> SUBSET Line]]
    BY <1>2, AllBatchesForm DEF Flush, NoLines, TypeOK
  <2> QED  BY <1>2, <2>1 DEF Flush, Goto, Steps, brokerVars, TypeOK
<1>3. CASE Commit(w)
  <2>1. Max(source[w]) \in Offsets
    BY <1>3, LastOfFetch DEF Commit, InFlight
  <2>2. committed' \in 0 .. LogLength
    BY <1>3, <2>1, CollectorAssumption DEF Commit, Offsets
  <2> QED  BY <1>3, <2>2 DEF Commit, Goto, Steps, TypeOK
<1>4. CASE Abort(w)
  BY <1>4 DEF Abort, Fault, Goto, Steps, brokerVars, TypeOK
<1>5. CASE WorkRaises(w)
  BY <1>5, ForgetType, AllBatchesForm DEF WorkRaises, Fault, TypeOK
<1>6. CASE Crash(w)
  BY <1>6, ForgetType DEF Crash, Fault, brokerVars, TypeOK
<1>7. CASE Restart(w)
  BY <1>7 DEF Restart, Goto, Steps, memory, brokerVars, TypeOK
<1>8. ASSUME NEW o \in Offsets, SkipInvalid(w, o)
      PROVE  TypeOK'
  BY <1>8 DEF SkipInvalid, memory, brokerVars, TypeOK
<1> QED
  BY <1>1, <1>2, <1>3, <1>4, <1>5, <1>6, <1>7, <1>8, TypeAdd DEF Work

LEMMA TypeReassign ==
  ASSUME TypeOK, Reassign
  PROVE  TypeOK'
  BY DEF Reassign, memory, TypeOK

LEMMA TypeStep ==
  ASSUME TypeOK, FetchFromCommitted, [Next]_vars
  PROVE  TypeOK'
<1>1. CASE UNCHANGED vars
  BY <1>1 DEF vars, memory, brokerVars, TypeOK
<1> QED  BY <1>1, TypeWork, TypeReassign DEF Next

-------------------------------------------------------------------------------
(* The invariant, worker by worker.                                            *)

FetchOf(w) ==
  fresh[w] =>
    /\ holder = w
    /\ InFlight(w) => \E last \in Offsets : committed <= last /\ source[w] = committed .. last

StepsOf(w) ==
  /\ todo[w] \subseteq source[w]
  /\ pc[w] = "commit" => todo[w] = {}
  /\ pc[w] # "work" => batch[w] = NoLines
  /\ ~InFlight(w) => collected[w] = {}
  /\ pc[w] = "down" => buffer[w] = NoLines

LinesOf(w) ==
  /\ \A k \in Keys : \A l \in batch[w][k] :
       HandedOver(w, l.off) /\ l = LineOf(w, l.off) /\ log[l.off].key = k
  /\ \A p \in collected[w] : \A l \in p.lines :
       HandedOver(w, l.off) /\ l = LineOf(w, l.off)

(* Every record handed over has its line ...                                   *)
PlacedOf(w) ==
  InFlight(w) => \A o \in Offsets : HandedOver(w, o) =>
    \/ LineOf(w, o) \in batch[w][log[o].key]
    \/ \E p \in collected[w] : LineOf(w, o) \in p.lines

(* ... in one place.                                                           *)
OnceOf(w) ==
  \A p \in collected[w] : \A l \in p.lines :
    /\ \A k \in Keys : l \notin batch[w][k]
    /\ \A q \in collected[w] : l \in q.lines => p = q

ContextOf(w) ==
  \A k \in Keys : \A l \in buffer[w][k] :
    pc[w] \in {"poll", "commit"} => l.id = fetch[w] /\ l.off \in source[w]

LocalOf(w) == StepsOf(w) /\ LinesOf(w) /\ PlacedOf(w) /\ OnceOf(w) /\ ContextOf(w)

LEMMA PartsOfInvariant ==
  CollectorInvariant <=> /\ \A w \in Workers : FetchOf(w) /\ LocalOf(w)
                         /\ FinalizerFlushes \/ EachLineSentOnce
<1>1. FetchFromCommitted <=> \A w \in Workers : FetchOf(w)
  BY DEF FetchFromCommitted, FetchOf
<1>2. WorkerSteps <=> \A w \in Workers : StepsOf(w)
  BY DEF WorkerSteps, StepsOf
<1>3. LinesAreHandedOver <=> \A w \in Workers : LinesOf(w)
  BY DEF LinesAreHandedOver, LinesOf
<1>4. LineInOnePlace <=> \A w \in Workers : PlacedOf(w) /\ OnceOf(w)
  BY DEF LineInOnePlace, PlacedOf, OnceOf
<1>5. ContextIsOneFetchOld <=> \A w \in Workers : ContextOf(w)
  BY DEF ContextIsOneFetchOld, ContextOf
<1> QED  BY <1>1, <1>2, <1>3, <1>4, <1>5 DEF CollectorInvariant, LocalOf

(* A worker's step leaves everything another one holds as it is.               *)
LEMMA OthersKeep ==
  ASSUME TypeOK, NEW v \in Workers, NEW w \in Workers, v # w, Work(v)
  PROVE  /\ pc'[w] = pc[w] /\ source'[w] = source[w] /\ todo'[w] = todo[w]
         /\ fetch'[w] = fetch[w] /\ fresh'[w] = fresh[w]
         /\ batch'[w] = batch[w] /\ buffer'[w] = buffer[w]
         /\ collected'[w] = collected[w]
         /\ log' = log
<1>1. ASSUME Forget(v)
      PROVE  /\ pc'[w] = pc[w] /\ source'[w] = source[w] /\ todo'[w] = todo[w]
             /\ fresh'[w] = fresh[w]
             /\ batch'[w] = batch[w] /\ buffer'[w] = buffer[w]
             /\ collected'[w] = collected[w]
  BY <1>1 DEF Forget, Goto, TypeOK
<1>2. CASE Fetch(v)
  BY <1>2 DEF Fetch, Goto, memory, TypeOK
<1>3. CASE Flush(v)
  BY <1>3 DEF Flush, Goto, TypeOK
<1>4. CASE Commit(v)
  BY <1>4 DEF Commit, Goto, TypeOK
<1>5. CASE Abort(v)
  BY <1>5 DEF Abort, Goto, TypeOK
<1>6. CASE WorkRaises(v)
  BY <1>1, <1>6 DEF WorkRaises
<1>7. CASE Crash(v)
  BY <1>1, <1>7 DEF Crash
<1>8. CASE Restart(v)
  BY <1>8 DEF Restart, Goto, memory, TypeOK
<1>9. ASSUME NEW o \in Offsets, SkipInvalid(v, o)
      PROVE  todo'[w] = todo[w] /\ UNCHANGED <<log, pc, source, fetch, fresh, memory>>
  BY <1>9 DEF SkipInvalid, TypeOK
<1>10. ASSUME NEW o \in Offsets, Add(v, o)
       PROVE  /\ todo'[w] = todo[w] /\ batch'[w] = batch[w] /\ buffer'[w] = buffer[w]
              /\ collected'[w] = collected[w]
              /\ UNCHANGED <<log, pc, source, fetch, fresh>>
  <2>1. \/ /\ batch' = [batch EXCEPT ![v][log[o].key] = {}]
           /\ \E lines : buffer' = [buffer EXCEPT ![v][log[o].key] = lines]
           /\ \E p : collected' = [collected EXCEPT ![v] = @ \cup {p}]
        \/ /\ \E lines : batch' = [batch EXCEPT ![v][log[o].key] = lines]
           /\ UNCHANGED <<buffer, collected>>
    BY <1>10 DEF Add, Batched
  <2> QED  BY <1>10, <2>1 DEF Add, Batched, TypeOK
<1> QED
  BY <1>2, <1>3, <1>4, <1>5, <1>6, <1>7, <1>8, <1>9, <1>10 DEF Work, memory

LEMMA LocalOfOthers ==
  ASSUME TypeOK, NEW v \in Workers, NEW w \in Workers, v # w, Work(v), LocalOf(w)
  PROVE  LocalOf(w)'
<1>1. \A o : HandedOver(w, o)' <=> HandedOver(w, o)
  BY OthersKeep DEF HandedOver
<1>2. \A o : LineOf(w, o)' = LineOf(w, o)
  BY OthersKeep DEF LineOf
<1>3. StepsOf(w)' /\ ContextOf(w)'
  BY OthersKeep DEF LocalOf, StepsOf, ContextOf, InFlight
<1>4. LinesOf(w)'
  BY OthersKeep, <1>1, <1>2 DEF LocalOf, LinesOf
<1>5. PlacedOf(w)' /\ OnceOf(w)'
  BY OthersKeep, <1>1, <1>2 DEF LocalOf, PlacedOf, OnceOf, InFlight
<1> QED  BY <1>3, <1>4, <1>5 DEF LocalOf

-------------------------------------------------------------------------------
(* What each step does to the worker that takes it.                            *)

LEMMA FetchLocal ==
  ASSUME TypeOK, NEW w \in Workers, LocalOf(w), Fetch(w)
  PROVE  LocalOf(w)'
<1>1. /\ pc[w] = "poll" /\ pc'[w] = "work" /\ todo'[w] = source'[w]
      /\ batch' = batch /\ buffer' = buffer /\ collected' = collected /\ log' = log
  BY DEF Fetch, Goto, memory, TypeOK
<1>2. batch[w] = NoLines /\ collected[w] = {}
  BY <1>1 DEF LocalOf, StepsOf, InFlight
<1>3. StepsOf(w)' /\ ContextOf(w)'
  BY <1>1 DEF StepsOf, ContextOf, InFlight
<1>4. LinesOf(w)' /\ OnceOf(w)'
  BY <1>1, <1>2 DEF LinesOf, OnceOf, NoLines
<1>5. PlacedOf(w)'
  BY <1>1 DEF PlacedOf, HandedOver
<1> QED  BY <1>3, <1>4, <1>5 DEF LocalOf

LEMMA SkipLocal ==
  ASSUME TypeOK, NEW w \in Workers, LocalOf(w), NEW o \in Offsets, SkipInvalid(w, o)
  PROVE  LocalOf(w)'
<1>1. /\ pc[w] = "work" /\ ~log[o].valid /\ todo'[w] = todo[w] \ {o}
      /\ UNCHANGED <<log, pc, source, fetch, fresh, batch, buffer, collected>>
  BY DEF SkipInvalid, IsNext, memory, TypeOK
<1>2. \A x : HandedOver(w, x) => HandedOver(w, x)'
  BY <1>1 DEF HandedOver
<1>3. \A x : HandedOver(w, x)' => HandedOver(w, x)
  BY <1>1 DEF HandedOver
<1>4. \A x : LineOf(w, x)' = LineOf(w, x)
  BY <1>1 DEF LineOf
<1>5. StepsOf(w)' /\ ContextOf(w)'
  BY <1>1 DEF LocalOf, StepsOf, ContextOf, InFlight
<1>6. LinesOf(w)'
  BY <1>1, <1>2, <1>4 DEF LocalOf, LinesOf
<1>7. PlacedOf(w)' /\ OnceOf(w)'
  BY <1>1, <1>3, <1>4 DEF LocalOf, PlacedOf, OnceOf, InFlight
<1> QED  BY <1>5, <1>6, <1>7 DEF LocalOf

LEMMA FlushLocal ==
  ASSUME TypeOK, NEW w \in Workers, LocalOf(w), Flush(w)
  PROVE  LocalOf(w)'
<1>1. /\ pc[w] = "work" /\ pc'[w] = "commit" /\ todo[w] = {}
      /\ collected'[w] = collected[w] \cup AllBatches(w)
      /\ buffer'[w] = batch[w] /\ batch'[w] = NoLines
      /\ UNCHANGED <<log, source, todo, fetch, fresh>>
  BY DEF Flush, Goto, TypeOK
<1>2. \A x : HandedOver(w, x)' <=> HandedOver(w, x)
  BY <1>1 DEF HandedOver
<1>3. \A x : LineOf(w, x)' = LineOf(w, x)
  BY <1>1 DEF LineOf
<1>4. \A p \in AllBatches(w) : p.key \in Keys /\ p.lines = batch[w][p.key]
  BY AllBatchesForm
<1>5. StepsOf(w)'
  BY <1>1 DEF LocalOf, StepsOf, InFlight
<1>6. LinesOf(w)'
  <2>1. \A p \in AllBatches(w) : \A l \in p.lines : HandedOver(w, l.off) /\ l = LineOf(w, l.off)
    BY <1>4 DEF LocalOf, LinesOf
  <2>2. \A p \in collected[w] : \A l \in p.lines : HandedOver(w, l.off) /\ l = LineOf(w, l.off)
    BY DEF LocalOf, LinesOf
  <2>3. \A k \in Keys : batch'[w][k] = {}
    BY <1>1 DEF NoLines
  <2> QED  BY <1>1, <1>2, <1>3, <2>1, <2>2, <2>3 DEF LinesOf
<1>7. PlacedOf(w)'
  <2> SUFFICES ASSUME NEW o \in Offsets, HandedOver(w, o)
               PROVE  \E p \in collected'[w] : LineOf(w, o) \in p.lines
    BY <1>2, <1>3 DEF PlacedOf
  <2>1. CASE \E p \in collected[w] : LineOf(w, o) \in p.lines
    BY <1>1, <2>1
  <2>2. CASE LineOf(w, o) \in batch[w][log[o].key]
    <3>1. log[o].key \in Keys
      BY DEF TypeOK, Record
    <3>2. PICK p \in AllBatches(w) : p.lines = batch[w][log[o].key]
      BY <2>2, <3>1, AllBatchesForm
    <3> QED  BY <1>1, <2>2, <3>2
  <2> QED  BY <1>1, <2>1, <2>2 DEF LocalOf, PlacedOf, InFlight
<1>8. OnceOf(w)'
  <2> SUFFICES ASSUME NEW p \in collected'[w], NEW q \in collected'[w],
                      NEW l \in p.lines, l \in q.lines
               PROVE  p = q
    BY <1>1 DEF OnceOf, NoLines
  <2>1. CASE p \in collected[w] /\ q \in collected[w]
    BY <2>1 DEF LocalOf, OnceOf
  <2>2. CASE p \in AllBatches(w) /\ q \in AllBatches(w)
    <3>1. p.key \in Keys /\ q.key \in Keys /\ l \in batch[w][p.key] /\ l \in batch[w][q.key]
      BY <1>4, <2>2
    <3>2. log[l.off].key = p.key /\ log[l.off].key = q.key
      BY <3>1 DEF LocalOf, LinesOf
    <3> QED  BY <2>2, <3>2, AllBatchesForm
  <2>3. CASE p \in collected[w] /\ q \in AllBatches(w)
    BY <1>4, <2>3 DEF LocalOf, OnceOf
  <2>4. CASE p \in AllBatches(w) /\ q \in collected[w]
    BY <1>4, <2>4 DEF LocalOf, OnceOf
  <2> QED  BY <1>1, <2>1, <2>2, <2>3, <2>4
<1>9. ContextOf(w)'
  BY <1>1 DEF LocalOf, LinesOf, ContextOf, HandedOver, LineOf
<1> QED  BY <1>5, <1>6, <1>7, <1>8, <1>9 DEF LocalOf

(* The transaction ends, with either outcome.                                  *)
LEMMA EndLocal ==
  ASSUME TypeOK, NEW w \in Workers, LocalOf(w), Commit(w) \/ Abort(w)
  PROVE  LocalOf(w)'
<1>1. /\ pc[w] = "commit" /\ pc'[w] = "poll" /\ collected'[w] = {}
      /\ UNCHANGED <<log, source, todo, fetch, batch, buffer>>
  BY DEF Commit, Abort, Goto, TypeOK
<1>2. batch[w] = NoLines
  BY <1>1 DEF LocalOf, StepsOf
<1>3. StepsOf(w)' /\ ContextOf(w)'
  BY <1>1 DEF LocalOf, StepsOf, ContextOf, InFlight
<1>4. LinesOf(w)' /\ OnceOf(w)'
  BY <1>1, <1>2 DEF LinesOf, OnceOf, NoLines
<1>5. PlacedOf(w)'
  BY <1>1 DEF PlacedOf, InFlight
<1> QED  BY <1>3, <1>4, <1>5 DEF LocalOf

LEMMA ForgetLocal ==
  ASSUME TypeOK, NEW w \in Workers, Forget(w)
  PROVE  LocalOf(w)'
<1>1. /\ pc'[w] = "down" /\ source'[w] = {} /\ todo'[w] = {} /\ collected'[w] = {}
      /\ batch'[w] = NoLines /\ buffer'[w] = NoLines
  BY DEF Forget, Goto, TypeOK
<1>2. StepsOf(w)' /\ ContextOf(w)'
  BY <1>1 DEF StepsOf, ContextOf, NoLines
<1>3. LinesOf(w)' /\ OnceOf(w)'
  BY <1>1 DEF LinesOf, OnceOf, NoLines
<1>4. PlacedOf(w)'
  BY <1>1 DEF PlacedOf, InFlight
<1> QED  BY <1>2, <1>3, <1>4 DEF LocalOf

LEMMA RestartLocal ==
  ASSUME TypeOK, NEW w \in Workers, LocalOf(w), Restart(w)
  PROVE  LocalOf(w)'
<1>1. /\ pc[w] = "down" /\ pc'[w] = "poll"
      /\ UNCHANGED <<log, source, todo, fetch, batch, buffer, collected>>
  BY DEF Restart, Goto, memory, TypeOK
<1>2. batch[w] = NoLines /\ collected[w] = {} /\ buffer[w] = NoLines
  BY <1>1 DEF LocalOf, StepsOf, InFlight
<1>3. StepsOf(w)' /\ ContextOf(w)'
  BY <1>1, <1>2 DEF LocalOf, StepsOf, ContextOf, InFlight, NoLines
<1>4. LinesOf(w)' /\ OnceOf(w)'
  BY <1>1, <1>2 DEF LinesOf, OnceOf, NoLines
<1>5. PlacedOf(w)'
  BY <1>1 DEF PlacedOf, InFlight
<1> QED  BY <1>3, <1>4, <1>5 DEF LocalOf

LEMMA AddLocal ==
  ASSUME TypeOK, NEW w \in Workers, LocalOf(w), NEW o \in Offsets, Add(w, o)
  PROVE  LocalOf(w)'
<1> DEFINE key == log[o].key
           new == LineOf(w, o)
           lines == batch[w][key] \cup {new}
           p0 == Complete(key, buffer[w][key], lines)
<1>1. /\ pc[w] = "work" /\ o \in todo[w] /\ log[o].valid /\ todo'[w] = todo[w] \ {o}
      /\ UNCHANGED <<log, pc, source, fetch, fresh>>
  BY DEF Add, Batched, IsNext, TypeOK
<1>2. key \in Keys
  BY DEF TypeOK, Record
<1>3. \/ /\ collected'[w] = collected[w] \cup {p0}
         /\ batch'[w] = [batch[w] EXCEPT ![key] = {}]
      \/ /\ collected'[w] = collected[w]
         /\ batch'[w] = [batch[w] EXCEPT ![key] = lines]
  BY <1>2 DEF Add, Batched, LineOf, TypeOK
<1>4. p0.lines = lines /\ batch[w] \in [Keys -> SUBSET Line]
  BY DEF Complete, TypeOK
<1>5. \A x : HandedOver(w, x)' <=> HandedOver(w, x) \/ x = o
  BY <1>1 DEF HandedOver, LocalOf, StepsOf
<1>6. \A x : LineOf(w, x)' = LineOf(w, x)
  BY <1>1 DEF LineOf
<1>7. ~HandedOver(w, o) /\ new.off = o
  BY <1>1 DEF HandedOver, LineOf
<1>8. StepsOf(w)' /\ ContextOf(w)'
  BY <1>1 DEF LocalOf, StepsOf, ContextOf, InFlight
<1>9. \A k \in Keys : \A l \in batch[w][k] :
        HandedOver(w, l.off) /\ l = LineOf(w, l.off) /\ log[l.off].key = k
  BY DEF LocalOf, LinesOf
<1>10. \A p \in collected[w] : \A l \in p.lines :
        HandedOver(w, l.off) /\ l = LineOf(w, l.off)
  BY DEF LocalOf, LinesOf
<1>11. \A k \in Keys : batch'[w][k] = IF k # key THEN batch[w][k] ELSE batch'[w][key]
  BY <1>2, <1>3, <1>4
<1>12. \/ collected'[w] = collected[w] \cup {p0} /\ batch'[w][key] = {}
       \/ collected'[w] = collected[w] /\ batch'[w][key] = lines
  BY <1>2, <1>3, <1>4
<1>13. \A l \in lines : HandedOver(w, l.off)' /\ l = LineOf(w, l.off)' /\ log'[l.off].key = key
  BY <1>1, <1>2, <1>5, <1>6, <1>7, <1>9
<1> HIDE DEF key, new, lines, p0
<1>14. LinesOf(w)'
  <2>1. \A k \in Keys : \A l \in batch'[w][k] :
          HandedOver(w, l.off)' /\ l = LineOf(w, l.off)' /\ log'[l.off].key = k
    BY <1>1, <1>5, <1>6, <1>9, <1>11, <1>12, <1>13
  <2>2. \A p \in collected'[w] : \A l \in p.lines :
          HandedOver(w, l.off)' /\ l = LineOf(w, l.off)'
    BY <1>4, <1>5, <1>6, <1>10, <1>12, <1>13
  <2> QED  BY <2>1, <2>2 DEF LinesOf
<1>15. \A x \in Offsets : HandedOver(w, x)' =>
         \/ LineOf(w, x)' \in batch'[w][log'[x].key]
         \/ \E p \in collected'[w] : LineOf(w, x)' \in p.lines
  <2> SUFFICES ASSUME NEW x \in Offsets, HandedOver(w, x) \/ x = o
               PROVE  \/ LineOf(w, x) \in batch'[w][log[x].key]
                      \/ \E p \in collected'[w] : LineOf(w, x) \in p.lines
    BY <1>1, <1>5, <1>6
  <2>1. log[x].key \in Keys
    BY DEF TypeOK, Record
  <2>2. CASE LineOf(w, x) \in lines /\ log[x].key = key
    BY <1>4, <1>12, <2>2
  <2>3. CASE x = o
    BY <2>2, <2>3 DEF lines, new, key
  <2>4. CASE HandedOver(w, x) /\ LineOf(w, x) \in batch[w][log[x].key]
    <3>1. CASE log[x].key = key
      BY <2>2, <2>4, <3>1 DEF lines
    <3>2. CASE log[x].key # key
      BY <1>11, <2>1, <2>4, <3>2
    <3> QED  BY <3>1, <3>2
  <2>5. CASE \E p \in collected[w] : LineOf(w, x) \in p.lines
    BY <1>12, <2>5
  <2> QED
    BY <1>1, <2>3, <2>4, <2>5 DEF LocalOf, PlacedOf, InFlight
<1>16. \A p \in collected'[w] : \A l \in p.lines :
         /\ \A k \in Keys : l \notin batch'[w][k]
         /\ \A q \in collected'[w] : l \in q.lines => p = q
  <2>1. \A p \in collected[w] : \A l \in p.lines :
          l # new /\ \A k \in Keys : l \notin batch[w][k]
    BY <1>7, <1>10 DEF LocalOf, OnceOf
  <2>2. \A p \in collected[w] : \A l \in p.lines :
          l \notin lines /\ \A k \in Keys : l \notin batch'[w][k]
    BY <1>2, <1>11, <1>12, <2>1 DEF lines
  <2>3. \A p, q \in collected[w] : \A l \in p.lines : l \in q.lines => p = q
    BY DEF LocalOf, OnceOf
  <2>4. CASE collected'[w] = collected[w]
    BY <2>2, <2>3, <2>4
  <2>5. CASE collected'[w] = collected[w] \cup {p0} /\ batch'[w][key] = {}
    <3>1. \A l \in lines : \A k \in Keys : l \notin batch'[w][k]
      <4> SUFFICES ASSUME NEW l \in lines, NEW k \in Keys, k # key, l \in batch[w][k]
                   PROVE  FALSE
        BY <1>11, <2>5
      <4>1. log[l.off].key = k
        BY <1>9
      <4>2. log[l.off].key = key
        BY <1>1, <1>13
      <4> QED  BY <4>1, <4>2
    <3>2. \A q \in collected[w] : \A l \in lines : l \notin q.lines
      BY <2>2
    <3> QED  BY <1>4, <2>2, <2>3, <2>5, <3>1, <3>2
  <2> QED  BY <1>12, <2>4, <2>5
<1> QED  BY <1>8, <1>14, <1>15, <1>16 DEF LocalOf, PlacedOf, OnceOf

LEMMA LocalStep ==
  ASSUME TypeOK, NEW w \in Workers, LocalOf(w), Work(w)
  PROVE  LocalOf(w)'
  BY FetchLocal, SkipLocal, FlushLocal, EndLocal, ForgetLocal, RestartLocal, AddLocal
     DEF Work, WorkRaises, Crash

LEMMA FetchStep ==
  ASSUME TypeOK, NEW v \in Workers, \A w \in Workers : FetchOf(w), Work(v)
  PROVE  \A w \in Workers : FetchOf(w)'
<1> SUFFICES ASSUME NEW w \in Workers, fresh'[w]
             PROVE  FetchOf(w)'
  BY DEF FetchOf
<1>1. holder' = holder
  BY DEF Work, Fetch, SkipInvalid, Add, Flush, Commit, Abort, WorkRaises, Crash, Restart,
         brokerVars
<1>2. committed' # committed => Commit(v)
  BY DEF Work, Fetch, SkipInvalid, Add, Flush, Commit, Abort, WorkRaises, Crash, Restart,
         brokerVars
<1>3. CASE w # v
  <2>1. fresh[w] /\ pc'[w] = pc[w] /\ source'[w] = source[w]
    BY <1>3, OthersKeep
  <2>2. holder = w
    BY <2>1 DEF FetchOf
  <2>3. ~Commit(v)
    BY <1>3, <2>2 DEF Commit, FetchOf
  <2> QED  BY <1>1, <1>2, <2>1, <2>3 DEF FetchOf, InFlight
<1>4. CASE w = v
  <2>1. CASE Fetch(v)
    <3>1. PICK last \in committed .. committed + BatchSize - 1 :
            /\ last < LogLength
            /\ source' = [source EXCEPT ![v] = committed .. last]
      BY <2>1 DEF Fetch
    <3>2. last \in Offsets /\ committed <= last
      BY <3>1, CollectorAssumption DEF TypeOK, Offsets
    <3>3. source'[w] = committed .. last /\ committed' = committed /\ holder = w
      BY <1>4, <2>1, <3>1 DEF Fetch, brokerVars, TypeOK
    <3> QED  BY <1>1, <3>2, <3>3 DEF FetchOf
  <2>2. CASE Flush(v)
    <3>1. fresh[w] /\ pc[w] = "work" /\ UNCHANGED <<source, committed>>
      BY <1>4, <2>2 DEF Flush, brokerVars
    <3> QED  BY <1>1, <3>1 DEF FetchOf, InFlight
  <2>3. CASE Commit(v)
    <3>1. fresh[w] /\ pc'[w] = "poll"
      BY <1>4, <2>3 DEF Commit, Goto, TypeOK
    <3> QED  BY <1>1, <3>1 DEF FetchOf, InFlight
  <2>4. CASE Abort(v) \/ Forget(v)
    BY <1>4, <2>4 DEF Abort, Forget, TypeOK
  <2>5. CASE Restart(v)
    <3>1. fresh[w] /\ pc'[w] = "poll"
      BY <1>4, <2>5 DEF Restart, Goto, TypeOK
    <3> QED  BY <1>1, <3>1 DEF FetchOf, InFlight
  <2>6. ASSUME NEW o \in Offsets, SkipInvalid(v, o) \/ Add(v, o)
        PROVE  FetchOf(w)'
    <3>1. UNCHANGED <<fresh, pc, source, committed>>
      BY <2>6 DEF SkipInvalid, Add, Batched, brokerVars
    <3> QED  BY <1>1, <3>1 DEF FetchOf, InFlight
  <2> QED
    BY <2>1, <2>2, <2>3, <2>4, <2>5, <2>6 DEF Work, WorkRaises, Crash
<1> QED  BY <1>3, <1>4

-------------------------------------------------------------------------------
(* Each line is sent once.                                                     *)

LEMMA SentByCommit ==
  ASSUME TypeOK, NEW w \in Workers, FetchOf(w), LocalOf(w), Commit(w), EachLineSentOnce
  PROVE  EachLineSentOnce'
<1> DEFINE last == Max(source[w])
           Old(l) == \E p \in packets : l \in p.lines
           New(l) == \E p \in collected[w] : l \in p.lines
<1>1. /\ pc[w] = "commit" /\ fresh[w] /\ committed' = last + 1
      /\ packets' = packets \cup collected[w] /\ log' = log
  BY DEF Commit
<1>2. PICK n \in Offsets : committed <= n /\ source[w] = committed .. n
  BY <1>1 DEF FetchOf, InFlight
<1>3. n \in Nat /\ n < LogLength /\ committed \in Nat
  BY <1>2, CollectorAssumption DEF Offsets, TypeOK
<1>4. last = n
  <2>1. source[w] \in SUBSET (0 .. LogLength)
    <3>1. \A x \in committed .. n : x \in 0 .. LogLength
      BY <1>3, CollectorAssumption
    <3> QED  BY <1>2, <3>1
  <2>2. n \in source[w]
    BY <1>2, <1>3
  <2>3. last \in source[w] /\ \A y \in source[w] : last >= y
    BY <2>1, <2>2, MaxOfBounded, CollectorAssumption
  <2>4. last \in committed .. n /\ last >= n
    BY <1>2, <2>2, <2>3
  <2> QED  BY <1>3, <2>4
<1> HIDE DEF last
<1>5. \A o \in Offsets : o \in source[w] <=> committed <= o /\ o <= n
  BY <1>2, <1>3, CollectorAssumption DEF Offsets
<1>6. \A p \in packets \cup collected[w] : \A l \in p.lines : l.off \in Offsets
  BY DEF TypeOK, Packet, Line
<1>7. \A o \in Offsets : HandedOver(w, o) <=> committed <= o /\ o <= n /\ log[o].valid
  BY <1>1, <1>5 DEF HandedOver, LocalOf, StepsOf
<1>8. \A l : New(l) => HandedOver(w, l.off) /\ l = LineOf(w, l.off) /\ l.off \in Offsets
  BY <1>6 DEF LocalOf, LinesOf
<1>9. \A o \in Offsets : HandedOver(w, o) => New(LineOf(w, o))
  BY <1>1 DEF LocalOf, PlacedOf, StepsOf, InFlight, NoLines, TypeOK, Record
<1>10. \A l : l \in Sent <=> Old(l)
  BY DEF Sent
<1>11. \A l : l \in Sent' <=> Old(l) \/ New(l)
  BY <1>1 DEF Sent
<1>12. \A l : Old(l) => l.off \in Offsets /\ l.off < committed /\ log[l.off].valid
  <2> SUFFICES ASSUME NEW l, Old(l) PROVE l.off \in Offsets /\ l.off < committed /\ log[l.off].valid
    OBVIOUS
  <2>1. l.off \in {m.off : m \in Sent}
    BY <1>10
  <2> QED  BY <2>1 DEF EachLineSentOnce
<1>13. \A o \in Offsets : o < committed /\ log[o].valid => \E l \in Sent : l.off = o
  <2> SUFFICES ASSUME NEW o \in Offsets, o < committed, log[o].valid
               PROVE  \E l \in Sent : l.off = o
    OBVIOUS
  <2>1. o \in {m.off : m \in Sent}
    BY DEF EachLineSentOnce
  <2> QED  BY <2>1
<1>14. {l.off : l \in Sent'} = {o \in Offsets : o < committed' /\ log'[o].valid}
  <2>1. ASSUME NEW l \in Sent'
        PROVE  l.off \in Offsets /\ l.off < committed' /\ log'[l.off].valid
    <3>1. CASE Old(l)
      <4>1. l.off \in Offsets /\ l.off < committed /\ log[l.off].valid
        BY <1>12, <3>1
      <4> QED  BY <1>1, <1>2, <1>3, <1>4, <4>1 DEF Offsets
    <3>2. CASE New(l)
      <4>1. l.off \in Offsets /\ l.off <= n /\ log[l.off].valid
        BY <1>7, <1>8, <3>2
      <4> QED  BY <1>1, <1>3, <1>4, <4>1 DEF Offsets
    <3> QED  BY <1>11, <3>1, <3>2
  <2>2. ASSUME NEW o \in Offsets, o < committed', log'[o].valid
        PROVE  \E l \in Sent' : l.off = o
    <3>1. CASE o < committed
      BY <1>1, <1>10, <1>11, <1>13, <2>2, <3>1
    <3>2. CASE ~(o < committed)
      <4>1. committed <= o /\ o <= n /\ log[o].valid
        BY <1>1, <1>3, <1>4, <2>2, <3>2 DEF Offsets
      <4>2. New(LineOf(w, o))
        BY <1>7, <1>9, <4>1
      <4>3. LineOf(w, o) \in Sent' /\ LineOf(w, o).off = o
        BY <1>11, <4>2 DEF LineOf
      <4> QED  BY <4>3
    <3> QED  BY <3>1, <3>2
  <2> QED  BY <2>1, <2>2
<1>15. ASSUME NEW p \in packets', NEW q \in packets', NEW l \in p.lines, NEW m \in q.lines,
              l.off = m.off
       PROVE  l = m /\ p = q
  <2>1. CASE p \in packets /\ q \in packets
    BY <1>15, <2>1 DEF EachLineSentOnce
  <2>2. CASE p \in collected[w] /\ q \in collected[w]
    <3>1. New(l) /\ New(m)
      BY <2>2
    <3>2. l = m
      BY <1>8, <1>15, <3>1
    <3> QED  BY <2>2, <3>2 DEF LocalOf, OnceOf
  <2>3. CASE p \in packets /\ q \in collected[w]
    <3>1. l.off \in Offsets /\ l.off < committed
      BY <1>12, <2>3
    <3>2. m.off \in Offsets /\ committed <= m.off
      BY <1>7, <1>8, <2>3
    <3> QED  BY <1>3, <1>15, <3>1, <3>2 DEF Offsets
  <2>4. CASE p \in collected[w] /\ q \in packets
    <3>1. m.off \in Offsets /\ m.off < committed
      BY <1>12, <2>4
    <3>2. l.off \in Offsets /\ committed <= l.off
      BY <1>7, <1>8, <2>4
    <3> QED  BY <1>3, <1>15, <3>1, <3>2 DEF Offsets
  <2> QED  BY <1>1, <2>1, <2>2, <2>3, <2>4
<1> QED  BY <1>14, <1>15 DEF EachLineSentOnce

(* Without a finalizer's flush, only a commit changes what was sent.           *)
LEMMA OnlyCommitSends ==
  ASSUME NEW w \in Workers, Work(w), ~FinalizerFlushes, ~Commit(w)
  PROVE  UNCHANGED <<log, committed, packets>>
  BY DEF Work, Fetch, SkipInvalid, Add, Flush, Abort, WorkRaises, Crash, Restart, brokerVars

LEMMA SentUnchanged ==
  ASSUME EachLineSentOnce, UNCHANGED <<log, committed, packets>>
  PROVE  EachLineSentOnce'
  BY DEF EachLineSentOnce, Sent

-------------------------------------------------------------------------------
(* The invariant as a whole.                                                   *)

LEMMA PartsTogether ==
  ASSUME \A w \in Workers : FetchOf(w)', \A w \in Workers : LocalOf(w)',
         FinalizerFlushes \/ EachLineSentOnce'
  PROVE  CollectorInvariant'
<1>1. FetchFromCommitted'
  BY DEF FetchFromCommitted, FetchOf
<1>2. WorkerSteps'
  BY DEF WorkerSteps, LocalOf, StepsOf
<1>3. LinesAreHandedOver'
  BY DEF LinesAreHandedOver, LocalOf, LinesOf
<1>4. LineInOnePlace'
  BY DEF LineInOnePlace, LocalOf, PlacedOf, OnceOf
<1>5. ContextIsOneFetchOld'
  BY DEF ContextIsOneFetchOld, LocalOf, ContextOf
<1> QED  BY <1>1, <1>2, <1>3, <1>4, <1>5 DEF CollectorInvariant

LEMMA InvariantInit == Init => CollectorInvariant
<1> SUFFICES ASSUME Init PROVE CollectorInvariant
  OBVIOUS
<1>1. ASSUME NEW w \in Workers
      PROVE  FetchOf(w) /\ LocalOf(w)
  BY DEF Init, FetchOf, LocalOf, StepsOf, LinesOf, PlacedOf, OnceOf, ContextOf, InFlight,
         NoLines
<1>2. Sent = {} /\ packets = {}
  BY DEF Init, Sent
<1>3. {o \in Offsets : o < committed /\ log[o].valid} = {}
  BY CollectorAssumption DEF Init, Offsets
<1>4. EachLineSentOnce
  BY <1>2, <1>3 DEF EachLineSentOnce
<1> QED  BY <1>1, <1>4, PartsOfInvariant

LEMMA InvariantStep ==
  ASSUME TypeOK, CollectorInvariant, [Next]_vars
  PROVE  CollectorInvariant'
<1>0. (\A w \in Workers : FetchOf(w) /\ LocalOf(w)) /\ (FinalizerFlushes \/ EachLineSentOnce)
  BY PartsOfInvariant
<1>1. ASSUME NEW v \in Workers, Work(v)
      PROVE  CollectorInvariant'
  <2>1. \A w \in Workers : FetchOf(w)'
    BY <1>0, <1>1, FetchStep
  <2>2. \A w \in Workers : LocalOf(w)'
    BY <1>0, <1>1, LocalStep, LocalOfOthers
  <2>3. FinalizerFlushes \/ EachLineSentOnce'
    BY <1>0, <1>1, SentByCommit, OnlyCommitSends, SentUnchanged
  <2> QED  BY <2>1, <2>2, <2>3, PartsTogether
<1>2. CASE Reassign
  <2>1. \A w \in Workers : ~fresh'[w]
    BY <1>2 DEF Reassign
  <2>2. UNCHANGED <<log, pc, source, todo, fetch, batch, buffer, collected, committed, packets>>
    BY <1>2 DEF Reassign, memory
  <2>3. \A w \in Workers : FetchOf(w)'
    BY <2>1 DEF FetchOf
  <2>4. \A w \in Workers : LocalOf(w)'
    BY <1>0, <2>2 DEF LocalOf, StepsOf, LinesOf, PlacedOf, OnceOf, ContextOf, InFlight,
                      HandedOver, LineOf
  <2>5. FinalizerFlushes \/ EachLineSentOnce'
    BY <1>0, <2>2, SentUnchanged
  <2> QED  BY <2>3, <2>4, <2>5, PartsTogether
<1>3. CASE UNCHANGED vars
  <2>1. \A w \in Workers : FetchOf(w)' /\ LocalOf(w)'
    BY <1>0, <1>3 DEF vars, memory, brokerVars, FetchOf, LocalOf, StepsOf, LinesOf, PlacedOf,
                      OnceOf, ContextOf, InFlight, HandedOver, LineOf
  <2>2. FinalizerFlushes \/ EachLineSentOnce'
    BY <1>0, <1>3, SentUnchanged DEF vars, brokerVars
  <2> QED  BY <2>1, <2>2, PartsTogether
<1> QED  BY <1>1, <1>2, <1>3 DEF Next

-------------------------------------------------------------------------------

(* The collector as it runs keeps its invariant: whatever aborts, is taken     *)
(* away or dies, the batch handler holds lines of the open transaction_batch   *)
(* and no others (collector.py:147-169, batch_handler.py:288-340).             *)
THEOREM CollectorInvariantHolds == Spec => [](TypeOK /\ CollectorInvariant)
<1>1. Init => TypeOK /\ CollectorInvariant
  BY TypeInit, InvariantInit
<1>2. (TypeOK /\ CollectorInvariant) /\ [Next]_vars => (TypeOK /\ CollectorInvariant)'
  BY TypeStep, InvariantStep DEF CollectorInvariant
<1> QED  BY <1>1, <1>2, PTL DEF Spec

(* The variables of a worker, its batch handler and the broker keep their      *)
(* types; a commit finds a fetch to commit (collector.py:147-169).             *)
THEOREM CollectorTypeCorrect == Spec => []TypeOK
  BY CollectorInvariantHolds, PTL

(* Each valid line reaches the next stage once, as a new line of one packet,   *)
(* provided that no dead worker's batch handler is finalized, which sends its  *)
(* batches outside of the transaction (batch_handler.py:472).                  *)
THEOREM EachLineOnce ==
  ASSUME ~FinalizerFlushes PROVE Spec => []EachLineSentOnce
<1>1. CollectorInvariant => EachLineSentOnce
  BY DEF CollectorInvariant
<1> QED  BY <1>1, CollectorInvariantHolds, PTL

(* The context of a packet is never older than the fetch before it, for flush  *)
(* drops the buffers of quiet subnets (batch_handler.py:324-330).              *)
THEOREM ContextRecent == Spec => []ContextIsOneFetchOld
<1>1. CollectorInvariant => ContextIsOneFetchOld
  BY DEF CollectorInvariant
<1> QED  BY <1>1, CollectorInvariantHolds, PTL
===============================================================================
