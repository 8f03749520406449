----------------------------- MODULE AtLeastOnce -----------------------------
(***************************************************************************)
(* What the monitoring sink promises: rows arrive in ClickHouse at any     *)
(* time and any number of times, and the group's committed offsets move    *)
(* forward, over records that have a row already or never get one.         *)
(***************************************************************************)
EXTENDS Integers

CONSTANTS Tables,      \* the monitoring topics, one per table
          LogLength,   \* records in each topic
          Invalid      \* records that do not match their table's schema

VARIABLES committed,   \* committed[t]: next offset of the consumer group
          stored       \* stored[<<t, o>>]: rows in ClickHouse for the record

Records == Tables \X (0 .. LogLength - 1)

Init ==
  /\ committed = [t \in Tables |-> 0]
  /\ stored = [r \in Records |-> 0]

(* ClickHouse takes the rows of some records.                              *)
Store(rows) ==
  /\ stored' = [r \in Records |-> IF r \in rows THEN stored[r] + 1 ELSE stored[r]]
  /\ UNCHANGED committed

(* Offsets are committed, over records that have been dealt with.          *)
Advance(next) ==
  /\ \A t \in Tables : committed[t] <= next[t]
  /\ \A r \in Records \ Invalid : r[2] < next[r[1]] => stored[r] > 0
  /\ committed' = next
  /\ UNCHANGED stored

Next ==
  \/ \E rows \in SUBSET Records : Store(rows)
  \/ \E next \in [Tables -> 0 .. LogLength] : Advance(next)

vars == <<committed, stored>>

Spec == Init /\ [][Next]_vars

(* Every valid record below the committed offset has a row.                *)
NothingLost == \A r \in Records \ Invalid : r[2] < committed[r[1]] => stored[r] > 0
==============================================================================
