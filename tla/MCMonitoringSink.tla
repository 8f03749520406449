--------------------------- MODULE MCMonitoringSink ---------------------------
(* Instances of MonitoringSink for TLC. *)
EXTENDS MonitoringSinkInvariant, TLC

CONSTANTS w1, w2, t1, t2, none

(* The second record of the first topic has no row. *)
OneInvalid == {<<t1, 1>>}

(* Workers are interchangeable. *)
Symmetry == Permutations(Workers)
===============================================================================
