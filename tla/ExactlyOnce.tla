----------------------------- MODULE ExactlyOnce -----------------------------
(***************************************************************************)
(* What a pipeline stage promises: the consume-process-produce loop moves  *)
(* the group's committed offsets forward and, in the same atomic step,     *)
(* publishes the outputs of exactly the records it moves over.  Nothing is *)
(* said of workers, assignments, transactions or failures.                 *)
(***************************************************************************)
EXTENDS Integers

CONSTANTS Partitions,   \* the partitions of the consumed topics
          LogLength     \* records in each partition

VARIABLES committed,    \* committed[p]: next offset of the consumer group
          applied       \* applied[<<p, o>>]: committed transactions that hold
                        \* the outputs of record o of partition p

Records == Partitions \X (0 .. LogLength - 1)

Init ==
  /\ committed = [p \in Partitions |-> 0]
  /\ applied = [r \in Records |-> 0]

(* One transaction commits: the records between the old and the new        *)
(* offsets are applied once more, no other record is touched.              *)
Advance(next) ==
  /\ \A p \in Partitions : committed[p] <= next[p]
  /\ committed' = next
  /\ applied' = [r \in Records |->
                   IF committed[r[1]] <= r[2] /\ r[2] < next[r[1]]
                     THEN applied[r] + 1
                     ELSE applied[r]]

Next == \E next \in [Partitions -> 0 .. LogLength] : Advance(next)

vars == <<committed, applied>>

Spec == Init /\ [][Next]_vars

(* Every record below the committed offset has been applied exactly once,  *)
(* every other record not at all: neither a lost nor a doubled output.     *)
AppliedExactlyOnce ==
  \A r \in Records : applied[r] = IF r[2] < committed[r[1]] THEN 1 ELSE 0
==============================================================================
