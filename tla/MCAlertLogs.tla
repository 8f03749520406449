------------------------------ MODULE MCAlertLogs ------------------------------
(* Instances of AlertLogs for TLC. *)
EXTENDS AlertLogs, TLC

CONSTANTS w1, w2

(* Nothing configured, a value that is raised to 1, and two days. *)
Retentions == {None, 0, 2}

(* Workers are interchangeable. *)
Symmetry == Permutations(Workers)
===============================================================================
