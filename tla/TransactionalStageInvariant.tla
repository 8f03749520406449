---------------------- MODULE TransactionalStageInvariant ----------------------
(***************************************************************************)
(* The inductive invariant behind the safety properties of                 *)
(* TransactionalStage.  Its argument: a worker that is still a member is   *)
(* the only one that fetches from its partitions; what it has fetched      *)
(* since the assignment is exactly the log from the committed offset to    *)
(* its fetch position; and only its own transaction may be about to move   *)
(* that offset.  For a stage that swallows exceptions the parts differ in  *)
(* one place: the fetched records may then have gaps.                      *)
(***************************************************************************)
EXTENDS TransactionalStage

(* Record o of p was fetched since the current assignment began.            *)
IsFresh(w, p, o) == [part |-> p, off |-> o, epoch |-> epoch[w]] \in batch[w]

DistinctIds == \A v, w \in Workers : pid[v] = pid[w] => v = w

(* What the group and its clients agree on.                                *)
Membership ==
  /\ joined \subseteq members
  /\ \A w \in joined : client[w] \in {"none", "joining"}
  /\ \A w \in members : client[w] = "joining" => w \in joined
  /\ \A w \in Workers : client[w] \in {"none", "joining"} => grant[w] = {}
  /\ \A w \in Workers : \A p \in Partitions :
       position[w][p] # Unset => client[w] = "stable" /\ p \in grant[w]
  /\ \A v, w \in members : v # w => grant[v] \cap grant[w] = {}

(* No record carries an epoch yet to come, and none of the current epoch    *)
(* comes from a partition that was not fetched from.                        *)
BatchTags ==
  \A w \in Workers :
    /\ \A m \in batch[w] :
         /\ m.epoch <= epoch[w]
         /\ m.epoch = epoch[w] => position[w][m.part] # Unset
    /\ pc[w] \in {"down", "connect", "reset"} => batch[w] = {} /\ client[w] = "none"

Recovering(w) == pc[w] \in {"abort_infra", "abort_lost"}
OwnCommitDone(w) == pc[w] = "committing" /\ txn[pid[w]] = "committed"

(* A member's fetched records start at the committed offset.                *)
FetchedFromCommitted ==
  \A w \in Workers : \A p \in Partitions :
    IsCurrentMember(w) /\ position[w][p] # Unset /\ ~Recovering(w) =>
      /\ committed[p] <= position[w][p]
      /\ OwnCommitDone(w) =>
           SwallowErrors \/ committed[p] = position[w][p]
      /\ ~OwnCommitDone(w) =>
           \A o \in Offsets :
             LET next == committed[p] <= o /\ o < position[w][p]
             IN  /\ IsFresh(w, p, o) => next
                 /\ next => SwallowErrors \/ IsFresh(w, p, o)

(* Only a member's own transaction may move the offsets it fetched from.    *)
PendingIsOwn ==
  \A w \in Workers : \A p \in Partitions : \A i \in ProducerIds :
    IsCurrentMember(w) /\ position[w][p] # Unset /\ Pending(i, p) =>
      i = pid[w] /\ pc[w] \in {"commit", "committing", "abort_infra"}

(* A worker that consumes again has no offsets of its own undecided.        *)
Settled ==
  \A w \in Workers :
    pc[w] \in {"connect", "poll", "process", "begin", "offsets", "abort_lost"} =>
      \A p \in Partitions : ~Pending(pid[w], p)

(* The worker's step and the state of its transaction.                      *)
Phase ==
  \A w \in Workers :
    /\ pc[w] \in {"connect", "poll", "process", "begin", "abort_lost"} =>
         txn[pid[w]] # "ending"
    /\ pc[w] \in {"offsets", "commit"} => txn[pid[w]] \in {"open", "aborted"}
    /\ pc[w] = "committing" => txn[pid[w]] \in {"ending", "committed", "aborted"}
    /\ pc[w] \in {"offsets", "commit", "committing"} =>
         txnRecords[pid[w]] = SourceRecords(w)
    /\ pc[w] = "offsets" => txnOffsets[pid[w]] = NoOffsets
    /\ pc[w] \in {"commit", "committing"} => txnOffsets[pid[w]] = OffsetsFor(w)

(* A transaction that may still commit holds the records it moves over.     *)
Contents ==
  \A i \in ProducerIds :
    txn[i] = "ending" \/ (\E q \in Partitions : Pending(i, q)) =>
      \A p \in Partitions :
        IF txnOffsets[i][p] = NoOffset
          THEN \A o \in Offsets : <<p, o>> \notin txnRecords[i]
          ELSE /\ committed[p] <= txnOffsets[i][p]
               /\ \A o \in Offsets :
                    LET next == committed[p] <= o /\ o < txnOffsets[i][p]
                    IN  /\ <<p, o>> \in txnRecords[i] => next
                        /\ next => SwallowErrors \/ <<p, o>> \in txnRecords[i]

(* The stage's invariant; every state TLC reaches satisfies it, and          *)
(* TransactionalStageProofs shows that every step preserves it.  It says     *)
(* that expiry, lost answers and crashes leave a record to one worker and    *)
(* one transaction at a time (consumer.py:188-203, producer.py:237-324).     *)
StageInvariant ==
  /\ DistinctIds
  /\ Membership
  /\ BatchTags
  /\ TransactionCarriesCurrentBatch
  /\ FetchedFromCommitted
  /\ PendingIsOwn
  /\ OneUndecidedPerPartition
  /\ Settled
  /\ Phase
  /\ Contents
  /\ AppliedAtMostOnce
  /\ SwallowErrors \/ AppliedExactlyOnce
===============================================================================
