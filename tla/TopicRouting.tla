----------------------------- MODULE TopicRouting -----------------------------
(***************************************************************************)
(* Which instance reads and writes which topic, as the main functions of   *)
(* the stages derive it from the configuration.  A topic is named after    *)
(* the instance that reads it: its kind, then the instance's name; "chain" *)
(* are the detector-to-detector topics.                                    *)
(***************************************************************************)
EXTENDS Naturals, Sequences

CONSTANTS Prefilters, Inspectors, Detectors, Alerters,   \* configured names
          Generic,                                       \* the generic alerter
          NoInspector                                    \* inspector_name left out

ASSUME RoutingAssumption == Generic \in Alerters /\ NoInspector \notin Inspectors

DetectorConfig ==
  [inspector_name : Inspectors \cup {NoInspector},
   consume_from : {"", "inspector", "detector"},
   upstream_name : BOOLEAN,              \* upstream_detector_name or a synonym
   next_detectors : SUBSET Detectors,
   produce_topics : Seq(Alerters),       \* as listed: a name may come twice
   send_to_alerter : BOOLEAN]

Configuration ==
  [prefilter_name : [Inspectors -> Prefilters], detector : [Detectors -> DetectorConfig]]

Instance(kind, names) == {<<kind, n>> : n \in names}
Stages == Instance("prefilter", Prefilters) \cup Instance("inspector", Inspectors)
            \cup Instance("detector", Detectors) \cup Instance("alerter", Alerters)
External == <<"external", Generic>>
Topics == Stages \cup Instance("chain", Detectors) \cup {External}

(* detector_consumes_from_detector                                         *)
ConsumesFromDetector(c) ==
  IF c.consume_from = "" THEN c.upstream_name \/ c.inspector_name = NoInspector
                         ELSE c.consume_from = "detector"

ConsumeTopic(config, s) ==
  IF s[1] = "detector" /\ ConsumesFromDetector(config.detector[s[2]])
    THEN <<"chain", s[2]>>
    ELSE s

InspectorTopics(config, p) ==
  Instance("inspector", {i \in Inspectors : config.prefilter_name[i] = p})

DetectorTopics(config, i) ==
  Instance("detector", {d \in Detectors : /\ config.detector[d].inspector_name = i
                                          /\ config.detector[d].consume_from # "detector"})

(* build_alerter_topics: a list, which keeps a name that is listed twice.  *)
AlerterTopics(c) ==
  LET names == IF c.produce_topics = <<>> THEN <<Generic>> ELSE c.produce_topics
  IN  IF c.send_to_alerter THEN [k \in 1 .. Len(names) |-> <<"alerter", names[k]>>] ELSE <<>>

(* build_downstream_detector_topics: without the names listed before.      *)
ChainTopics(c) == Instance("chain", c.next_detectors)
===============================================================================
