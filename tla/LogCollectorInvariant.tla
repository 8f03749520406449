------------------------- MODULE LogCollectorInvariant -------------------------
(***************************************************************************)
(* The inductive invariant behind EachLineSentOnce: a fetch that can still *)
(* commit starts at the committed offset, and each valid record that it    *)
(* has handed over is one line, in a batch or in one collected packet.     *)
(***************************************************************************)
EXTENDS LogCollector

InFlight(w) == pc[w] \in {"work", "commit"}

LineOf(w, o) == [off |-> o, id |-> fetch[w]]

(* A valid record that the worker has handed over in its current fetch.     *)
HandedOver(w, o) == o \in source[w] \ todo[w] /\ log[o].valid

FetchFromCommitted ==
  \A w \in Workers : fresh[w] =>
    /\ holder = w
    /\ InFlight(w) => \E last \in Offsets : committed <= last /\ source[w] = committed .. last

WorkerSteps ==
  \A w \in Workers :
    /\ todo[w] \subseteq source[w]
    /\ pc[w] = "commit" => todo[w] = {}
    /\ pc[w] # "work" => batch[w] = NoLines
    /\ ~InFlight(w) => collected[w] = {}
    /\ pc[w] = "down" => buffer[w] = NoLines

(* The lines of the fetch are those of the records handed over.             *)
LinesAreHandedOver ==
  \A w \in Workers :
    /\ \A k \in Keys : \A l \in batch[w][k] :
         HandedOver(w, l.off) /\ l = LineOf(w, l.off) /\ log[l.off].key = k
    /\ \A p \in collected[w] : \A l \in p.lines :
         HandedOver(w, l.off) /\ l = LineOf(w, l.off)

(* A record handed over is in one place.                                    *)
LineInOnePlace ==
  \A w \in Workers :
    /\ InFlight(w) => \A o \in Offsets : HandedOver(w, o) =>
         \/ LineOf(w, o) \in batch[w][log[o].key]
         \/ \E p \in collected[w] : LineOf(w, o) \in p.lines
    /\ \A p \in collected[w] : \A l \in p.lines :
         /\ \A k \in Keys : l \notin batch[w][k]
         /\ \A q \in collected[w] : l \in q.lines => p = q

(* The collector's invariant; every state TLC reaches satisfies it, and     *)
(* LogCollectorProofs shows that every step preserves it.  It says that the *)
(* batch handler holds lines of the open transaction_batch and no others    *)
(* when the transaction ends (collector.py:155-169).                        *)
CollectorInvariant ==
  /\ FetchFromCommitted
  /\ WorkerSteps
  /\ LinesAreHandedOver
  /\ LineInOnePlace
  /\ ContextIsOneFetchOld
  /\ FinalizerFlushes \/ EachLineSentOnce
===============================================================================
