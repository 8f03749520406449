------------------------ MODULE MonitoringSinkInvariant ------------------------
(***************************************************************************)
(* The inductive invariant behind NothingLost: the batch of a worker that  *)
(* still holds a topic is the log of the topic from the committed offset   *)
(* to the fetch position, and every valid record of a batch at work is     *)
(* still to be added, waits as a row, or is in ClickHouse.                 *)
(***************************************************************************)
EXTENDS MonitoringSink

(* w has fetched from t, in its assignment, and is not expelled.            *)
Fetching(w, t) == t \in assigned[w] /\ holder[t] = w /\ position[w][t] # Unset

PositionsAssigned ==
  \A w \in Workers : \A t \in Tables : position[w][t] # Unset => t \in assigned[w]

(* A batch of one epoch holds what was fetched in it, and nothing else.     *)
BatchFollowsLog ==
  \A w \in Workers : \A t \in Tables :
    /\ Fetching(w, t) => committed[t] <= position[w][t]
    /\ ~stale[w] =>
         \A o \in Offsets :
           /\ <<t, o>> \in batch[w] => position[w][t] # Unset
           /\ Fetching(w, t) =>
                LET next == committed[t] <= o /\ o < position[w][t]
                IN  /\ <<t, o>> \in batch[w] => next
                    /\ next => FetchRaises \/ <<t, o>> \in batch[w]

WorkInBatch ==
  \A w \in Workers :
    /\ todo[w] \subseteq batch[w]
    /\ pc[w] # "work" => todo[w] = {}
    /\ pc[w] = "work" => BatchCurrent(w)

(* No valid record of a batch is forgotten between fetch and commit.        *)
EveryRecordHasARow ==
  \A w \in Workers : \A r \in batch[w] \ Invalid :
    pc[w] = "work" => \/ r \in todo[w]
                      \/ r \in rows[w][r[1]]
                      \/ stored[r] > 0

(* The sink's invariant; MonitoringSinkProofs shows that every step         *)
(* preserves it.  It says that neither expulsion nor a failed insert or     *)
(* commit separates a record's row from its offset                          *)
(* (monitoring_agent.py:163-235).                                           *)
SinkInvariant ==
  /\ PositionsAssigned
  /\ BatchFollowsLog
  /\ WorkInBatch
  /\ NoRowOutlivesItsBatch
  /\ EveryRecordHasARow
  /\ FetchRaises \/ NothingLost

-----------------------------------------------------------------------------
(* The inductive invariant behind OneRowMorePerFault.                       *)

(* w may still insert a row of r without another fetch from the committed   *)
(* offset: r is ahead of it, in what it has fetched, or waits to be added   *)
(* or inserted.                                                             *)
Attempting(w, r) ==
  \/ r[1] \in assigned[w] /\ NextOffset(w, r[1]) <= r[2]
  \/ pc[w] = "poll" /\ ~stale[w] /\ r \in batch[w]
  \/ r \in todo[w]
  \/ r \in rows[w][r[1]]

(* w holds the topic and sees to r: it attempts it, or has its row inserted *)
(* and will commit it.                                                      *)
Covers(w, r) ==
  /\ r[1] \in assigned[w] /\ holder[r[1]] = w
  /\ Attempting(w, r) \/ (pc[w] = "work" /\ r \in batch[w])

(* Whoever gets the topic next will fetch r.                                *)
Due(r) == committed[r[1]] <= r[2] /\ \A w \in Workers : ~Covers(w, r)

(* Everyone who may insert r once more, NoOne standing for the next holder. *)
Attempts(r) ==
  {w \in Workers : Attempting(w, r)} \cup {x \in {NoOne} : Due(r)}

(* Only a failure adds an attempt, and an insert uses one up.               *)
AttemptsAccountedFor ==
  \A r \in Records :
    IsFiniteSet(Attempts(r)) /\ stored[r] + Cardinality(Attempts(r)) <= 1 + faults

(* What the accounting rests on: the fetch position is behind a batch, a    *)
(* worker is expelled from all its topics at once, a record waits in one    *)
(* place, and a worker that is not at work has no batch left.               *)
PositionBehindBatch ==
  \A w \in Workers : \A r \in batch[w] :
    ~stale[w] => position[w][r[1]] # Unset /\ r[2] < position[w][r[1]]
ExpelledFromAll ==
  \A w \in Workers : \A t, q \in assigned[w] : holder[t] = w => holder[q] = w
WaitsInOnePlace ==
  \A w \in Workers : \A t \in Tables : \A r \in rows[w][t] : r[1] = t /\ r \notin todo[w]
NothingLeft == \A w \in Workers : pc[w] \notin {"poll", "work"} => batch[w] = {}

(* Neither expelled workers nor lost commits insert a record more often     *)
(* than failures explain (monitoring_agent.py:137-235).                     *)
ReplayInvariant ==
  /\ PositionBehindBatch /\ ExpelledFromAll /\ WaitsInOnePlace /\ NothingLeft
  /\ AttemptsAccountedFor
===============================================================================
