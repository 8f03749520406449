----------------------------- MODULE MCWorkerPool -----------------------------
(* Instances of WorkerPool for TLC. *)
EXTENDS WorkerPool, TLC

CONSTANTS c1, c2

(* Two processes share the model file of a container, another container    *)
(* provisions the same topic.                                              *)
TwoAndOne == {<<c1, 1>>, <<c1, 2>>, <<c2, 1>>}
===============================================================================
