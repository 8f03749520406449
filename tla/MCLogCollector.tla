---------------------------- MODULE MCLogCollector ----------------------------
(* Instances of LogCollector for TLC. *)
EXTENDS LogCollectorInvariant, TLC

CONSTANTS w1, w2, k1, k2

(* Workers are interchangeable, and subnets. *)
Symmetry == Permutations(Workers) \cup Permutations(Keys)
===============================================================================
