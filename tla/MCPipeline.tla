------------------------------ MODULE MCPipeline ------------------------------
(* Instances of Pipeline for TLC. *)
EXTENDS Pipeline

CONSTANTS p, i, d1, d2, l1, l2, l3, c1, c2, x

ClientOf == l1 :> c1 @@ l2 :> c2 @@ l3 :> c1
DomainOf == [l \in Lines |-> x]
RankOf == l1 :> 1 @@ l2 :> 2 @@ l3 :> 3
Batches == p :> <<{l1, l2}, {l3}>>

Detector(inspector, source, next, topics, alerts) ==
  [inspector_name |-> inspector, consume_from |-> source, upstream_name |-> FALSE,
   next_detectors |-> next, produce_topics |-> topics, send_to_alerter |-> alerts]
Config(one, other) ==
  [prefilter_name |-> i :> p, detector |-> d1 :> one @@ d2 :> other]

(* d1 forwards to d2, which alone alerts; or d1 alerts, its alerter listed *)
(* twice, and nothing feeds d2.                                            *)
Chained ==
  Config(Detector(i, "", {d2}, <<>>, FALSE), Detector(NoInspector, "", {}, <<>>, TRUE))
Single ==
  Config(Detector(i, "inspector", {}, <<Generic, Generic>>, TRUE),
         Detector(i, "detector", {}, <<>>, TRUE))
ChainedAndSingle == {Chained, Single}
===============================================================================
