------------------------- MODULE MCTransactionalStage -------------------------
(* Instances of TransactionalStage for TLC. *)
EXTENDS TransactionalStageInvariant, TLC

CONSTANTS w1, w2, p1, p2, t1, t2, t3

(* Workers and transactional ids are interchangeable. *)
Symmetry == Permutations(Workers) \cup Permutations(ProducerIds)
===============================================================================
