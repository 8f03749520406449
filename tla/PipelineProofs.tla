----------------------------- MODULE PipelineProofs -----------------------------
(***************************************************************************)
(* What the composed stages guarantee for every configuration, every       *)
(* collected traffic and every number of faults: the type invariant, that  *)
(* each committed line was handed on or ended, that nothing is handed on   *)
(* twice, that the rows of the monitoring database describe the records    *)
(* and that an alert has a cause.                                          *)
(***************************************************************************)
EXTENDS Pipeline, SequenceTheorems, FiniteSetTheorems, WellFoundedInduction, TLAPS

-----------------------------------------------------------------------------
(* The inductive invariant.                                                *)

IsSeq(q) == q \in Seq({q[i] : i \in 1 .. Len(q)})

Cursors ==
  /\ config \in Configurations /\ faults \in Nat
  /\ offset \in [Stages -> Nat] /\ position \in [Stages -> Nat]
  /\ first \in [Stages -> Nat] /\ at \in [Stages -> Nat]
  /\ state \in [Stages -> {"polling", "processing", "down"}]
  /\ DOMAIN memory = Stages
  /\ \A s \in Stages :
       /\ offset[s] <= position[s] /\ position[s] <= Len(Consumed(s))
       /\ memory[s].lines = {}
       /\ state[s] = "processing" =>
            /\ offset[s] <= first[s] /\ first[s] <= at[s] /\ at[s] <= position[s]
            /\ position[s] - first[s] <= MaxBatch

(* A topic of the collectors is never written to; a stage that is not      *)
(* processing has no transaction open.                                     *)
Shape ==
  /\ DOMAIN topic = Topics /\ \A t \in Topics : IsSeq(topic[t])
  /\ DOMAIN output = Stages
  /\ \A s \in Stages :
       /\ DOMAIN output[s] = Topics /\ \A t \in Topics : IsSeq(output[s][t])
       /\ state[s] # "processing" => \A t \in Topics : output[s][t] = <<>>
  /\ \A p \in Prefilters :
       topic[<<"prefilter", p>>] = [n \in 1 .. Len(Collected[p]) |-> FromCollector(p, n)]

SendsTo(s, t) ==
  \/ s[1] = "prefilter" /\ t \in InspectorTopics(config, s[2])
  \/ s[1] = "inspector" /\ t \in DetectorTopics(config, s[2])
  \/ s[1] = "detector" /\ t \in Range(AlerterTopics(config.detector[s[2]])) \cup ChainTopics(config.detector[s[2]])
  \/ s[1] = "alerter" /\ t = External

Seen(s, l) == \E i \in 1 .. Len(Consumed(s)) : l \in Consumed(s)[i].lines

(* The detectors' own lines are of the client they name where nothing else *)
(* was put into a window of a detector that forwards.                      *)
ForOneClient(t, s) ==
  \/ t[1] = "detector"
  \/ OneClientForwarded /\ (t[1] = "chain" \/ (t[1] = "alerter" /\ s[2] \notin ByDomain))

(* Record r of topic t is what stage s made of record n of its own topic.  *)
MadeFrom(t, s, n, r) ==
  LET cause == Consumed(s)[n]
  IN  /\ r = Batch(r.origin, r.parent, r.batch, r.key, r.lines)
      /\ r.origin = <<s, n>> /\ n \in 1 .. Len(Consumed(s))
      /\ SendsTo(s, t)
      /\ r.lines # {} /\ r.lines \subseteq Lines
      /\ t[1] \in {"inspector", "detector"} => r.lines \subseteq cause.lines
      /\ t[1] \in {"alerter", "chain"} =>
           /\ r.batch = cause.batch /\ r.key = cause.key
           /\ \A l \in r.lines : Seen(s, l)
           /\ s[2] \notin ByDomain => \A l \in r.lines : \E k \in cause.lines : Client[l] = Client[k]
      /\ ForOneClient(t, s) => \A l \in r.lines : Client[l] = r.key
      /\ t[1] = "alerter" => r.parent[1] = s

(* What a stage reads was recorded by the stage that sent it.              *)
Named(rows, t, r) ==
  t[1] \in {"inspector", "detector", "chain"} => \E y \in rows : y.row = r.parent /\ y.batch = r.batch

(* The database shows the lines behind an alert as detected.               *)
Marked(done, t, r) ==
  t[1] = "alerter" =>
    \A l \in Consumed(r.origin[1])[r.origin[2]].lines : <<l, r.origin[1], "detected">> \in done

TopicSource(t, r) ==
  LET s == r.origin[1]  n == r.origin[2]
  IN  /\ s \in Stages /\ n <= offset[s] /\ MadeFrom(t, s, n, r)
      /\ Named(tree, t, r) /\ Marked(ends, t, r)
OutputSource(s, t, r) ==
  LET n == r.origin[2]
  IN  /\ first[s] < n /\ n <= at[s] /\ MadeFrom(t, s, n, r)
      /\ Named(tree, t, r) /\ Marked(ends, t, r)

Sources ==
  /\ \A t \in Topics : t[1] # "prefilter" => \A i \in 1 .. Len(topic[t]) : TopicSource(t, topic[t][i])
  /\ \A s \in Stages : \A t \in Topics : \A i \in 1 .. Len(output[s][t]) :
       OutputSource(s, t, output[s][t][i])

(* Records of one topic that are told apart though they have one origin.   *)
Apart(t, x, y) ==
  \/ t[1] = "detector" /\ x.key # y.key
  \/ t[1] = "alerter" /\ x.parent # y.parent
Distinct(t, q) ==
  \A i, j \in 1 .. Len(q) : i # j => q[i].origin # q[j].origin \/ Apart(t, q[i], q[j])

Unrepeated ==
  /\ \A t \in Topics : Distinct(t, topic[t])
  /\ \A s \in Stages : \A t \in Topics : Distinct(t, output[s][t])

Windows ==
  /\ window \in [Stages -> SUBSET Lines]
  /\ \A s \in Stages : \A l \in window[s] : Seen(s, l)

(* The lines of the batch at hand, too, are in the open transaction or     *)
(* ended.                                                                  *)
InOutput(s, n, l) ==
  \E t \in Topics : \E i \in 1 .. Len(output[s][t]) :
    output[s][t][i].origin = <<s, n>> /\ l \in output[s][t][i].lines

DealtAccounted(s) ==
  \A n \in Dealt(s) : \A l \in Consumed(s)[n].lines :
    HandedOn(s, n, l) \/ EndedBy(s, l) \/ NobodyReads(s)
OpenAccounted(s) ==
  state[s] = "processing" =>
    \A n \in first[s] + 1 .. at[s] : \A l \in Consumed(s)[n].lines :
      InOutput(s, n, l) \/ EndedBy(s, l) \/ NobodyReads(s)
Accounted == \A s \in Stages : s[1] # "alerter" => DealtAccounted(s) /\ OpenAccounted(s)

(* What RowsNameTheirBatch says of a row.                                  *)
RowNames(x) ==
  LET s == x.row[1]
  IN  /\ s \in Stages
      /\ \E n \in 1 .. Len(Consumed(s)) :
           LET r == Consumed(s)[n]
           IN  /\ r.lines # {} /\ r.parent = x.parent
               /\ r.batch = x.batch \/ (s[1] = "inspector" /\ x.row[3] = "finished")
               /\ s[1] # "prefilter" => InTree(r.parent, r.batch)
Rows == \A x \in tree : RowNames(x)

(* What a stage went past without processing it: it is lost with the next  *)
(* commit, unless a restart brings it back.                                *)
Behind(s) == CASE state[s] = "processing" -> first[s]
               [] state[s] = "polling" -> position[s]
               [] OTHER -> offset[s]
Skipped == UNION {{<<s, o>> : o \in offset[s] .. Behind(s) - 1} : s \in Stages}
Losses ==
  /\ IsFiniteSet(lost \cup Skipped) /\ Cardinality(lost \cup Skipped) <= MaxBatch * faults
  /\ \A x \in lost \cup Skipped : x[1][1] # "prefilter"

PipelineInvariant ==
  /\ Cursors /\ Shape /\ Sources /\ Unrepeated /\ Windows
  /\ Rows /\ Accounted /\ Losses
-----------------------------------------------------------------------------
(* Sequences, as sequences of their own elements.                          *)

LEMMA SeqOfAny ==
  ASSUME NEW S, NEW q \in Seq(S)
  PROVE  IsSeq(q) /\ Len(q) \in Nat /\ DOMAIN q = 1 .. Len(q)
<1>1. q \in [1 .. Len(q) -> S] /\ Len(q) \in Nat
  BY LenProperties
<1>2. q = [i \in 1 .. Len(q) |-> q[i]]
  BY <1>1
<1>3. [i \in 1 .. Len(q) |-> q[i]] \in Seq({q[i] : i \in 1 .. Len(q)})
  BY <1>1, IsASeq
<1> QED BY <1>1, <1>2, <1>3 DEF IsSeq

LEMMA SeqFacts ==
  ASSUME NEW q, IsSeq(q)
  PROVE  /\ Len(q) \in Nat /\ DOMAIN q = 1 .. Len(q)
         /\ q \o <<>> = q
         /\ Len(q) = 0 => q = <<>>
<1>1. q \in Seq({q[i] : i \in 1 .. Len(q)})
  BY DEF IsSeq
<1>2. Len(q) \in Nat /\ DOMAIN q = 1 .. Len(q)
  BY <1>1, LenProperties
<1>3. q \o <<>> = q
  BY <1>1, ConcatEmptySeq
<1>4. Len(q) = 0 => q = <<>>
  BY <1>1, EmptySeq
<1> QED BY <1>2, <1>3, <1>4

LEMMA NoRecords == IsSeq(<<>>) /\ Len(<<>>) = 0
<1>1. <<>> \in Seq({}) /\ Len(<<>>) = 0
  BY EmptySeq
<1> QED BY <1>1, SeqOfAny

LEMMA ConcatFacts ==
  ASSUME NEW p, NEW q, IsSeq(p), IsSeq(q)
  PROVE  /\ IsSeq(p \o q) /\ Len(p \o q) = Len(p) + Len(q)
         /\ Len(p) \in Nat /\ Len(q) \in Nat
         /\ \A i \in 1 .. Len(p) : i \in 1 .. Len(p \o q) /\ (p \o q)[i] = p[i]
         /\ \A i \in 1 .. Len(q) : Len(p) + i \in 1 .. Len(p \o q) /\ (p \o q)[Len(p) + i] = q[i]
         /\ \A i \in 1 .. Len(p \o q) :
              \/ i \in 1 .. Len(p)
              \/ i - Len(p) \in 1 .. Len(q) /\ (p \o q)[i] = q[i - Len(p)]
<1> DEFINE S == {p[i] : i \in 1 .. Len(p)} \cup {q[i] : i \in 1 .. Len(q)}
<1>1. p \in Seq(S) /\ q \in Seq(S)
  BY SeqMonotonic DEF IsSeq
<1> HIDE DEF S
<1>2. Len(p) \in Nat /\ Len(q) \in Nat
  BY <1>1, LenProperties
<1>3. /\ p \o q \in Seq(S) /\ Len(p \o q) = Len(p) + Len(q)
      /\ \A i \in 1 .. Len(p) + Len(q) : (p \o q)[i] = IF i <= Len(p) THEN p[i] ELSE q[i - Len(p)]
  BY <1>1, ConcatProperties
<1>4. IsSeq(p \o q)
  BY <1>3, SeqOfAny
<1>5. \A i \in 1 .. Len(p) : i \in 1 .. Len(p \o q) /\ (p \o q)[i] = p[i]
  BY <1>2, <1>3
<1>6. \A i \in 1 .. Len(q) : Len(p) + i \in 1 .. Len(p \o q) /\ (p \o q)[Len(p) + i] = q[i]
  <2> SUFFICES ASSUME NEW i \in 1 .. Len(q)
               PROVE  Len(p) + i \in 1 .. Len(p \o q) /\ (p \o q)[Len(p) + i] = q[i]
    OBVIOUS
  <2>1. Len(p) + i \in 1 .. Len(p) + Len(q) /\ ~(Len(p) + i <= Len(p)) /\ (Len(p) + i) - Len(p) = i
    BY <1>2
  <2> QED BY <1>3, <2>1
<1>7. ASSUME NEW i \in 1 .. Len(p \o q)
      PROVE  \/ i \in 1 .. Len(p)
             \/ i - Len(p) \in 1 .. Len(q) /\ (p \o q)[i] = q[i - Len(p)]
  BY <1>2, <1>3
<1> QED BY <1>2, <1>3, <1>4, <1>5, <1>6, <1>7

(* The sequence of a finite set holds each of its elements once.           *)
LEMMA SetToSeqFacts ==
  ASSUME NEW S, IsFiniteSet(S)
  PROVE  LET q == SetToSeq(S)
         IN  /\ IsSeq(q) /\ Len(q) \in Nat
             /\ \A i \in 1 .. Len(q) : q[i] \in S
             /\ \A x \in S : \E i \in 1 .. Len(q) : q[i] = x
             /\ \A i, j \in 1 .. Len(q) : i # j => q[i] # q[j]
<1> DEFINE n == Cardinality(S)
           q == SetToSeq(S)
<1>1. n \in Nat /\ ExistsBijection(1 .. n, S)
  BY FS_CardinalityType
<1>2. \E f \in [1 .. n -> S] : IsInjective(f)
  BY <1>1 DEF ExistsBijection, Bijection, Injection, IsInjective
<1>3. q \in [1 .. n -> S] /\ IsInjective(q)
  BY <1>2 DEF SetToSeq
<1>4. q \in Injection(1 .. n, S)
  BY <1>3 DEF Injection, IsInjective
<1> HIDE DEF q
<1>5. Cardinality(1 .. n) = n
  BY <1>1, FS_Interval
<1> HIDE DEF n
<1>6. q \in Surjection(1 .. n, S)
  BY <1>4, <1>5, FS_Injection DEF n
<1>7. q \in Seq(S) /\ Len(q) = n
  <2>1. q = [i \in 1 .. n |-> q[i]] /\ \A i \in 1 .. n : q[i] \in S
    BY <1>3
  <2>2. [i \in 1 .. n |-> q[i]] \in Seq(S)
    BY <1>1, <2>1, IsASeq
  <2>3. q \in Seq(S)
    BY <2>1, <2>2
  <2>4. DOMAIN q = 1 .. n /\ DOMAIN q = 1 .. Len(q) /\ Len(q) \in Nat
    BY <1>3, <2>3, LenProperties
  <2> QED BY <1>1, <2>3, <2>4
<1>8. IsSeq(q)
  BY <1>7, SeqOfAny
<1>9. \A i \in 1 .. Len(q) : q[i] \in S
  BY <1>3, <1>7
<1>10. \A x \in S : \E i \in 1 .. Len(q) : q[i] = x
  BY <1>6, <1>7 DEF Surjection
<1>11. \A i, j \in 1 .. Len(q) : i # j => q[i] # q[j]
  BY <1>3, <1>7 DEF IsInjective
<1> QED BY <1>1, <1>7, <1>8, <1>9, <1>10, <1>11 DEF q

-----------------------------------------------------------------------------
(* Stages and topics.                                                      *)

LEMMA StageKinds ==
  ASSUME NEW s \in Stages
  PROVE  /\ s = <<s[1], s[2]>> /\ s[1] \in {"prefilter", "inspector", "detector", "alerter"}
         /\ s[1] = "prefilter" => s[2] \in Prefilters
         /\ s[1] = "inspector" => s[2] \in Inspectors
         /\ s[1] = "detector" => s[2] \in Detectors
         /\ s[1] = "alerter" => s[2] \in Alerters
BY DEF Stages, Instance

LEMMA ConsumeTopicKinds ==
  ASSUME NEW s \in Stages
  PROVE  /\ ConsumeTopic(config, s) \in Topics
         /\ s[1] # "detector" => ConsumeTopic(config, s) = s
         /\ s[1] = "detector" => ConsumeTopic(config, s)[1] \in {"detector", "chain"}
<1>1. <<"chain", s[2]>> \in Topics \/ s[1] # "detector"
  BY StageKinds DEF Topics, Instance
<1>2. s \in Topics
  BY DEF Topics
<1> QED BY <1>1, <1>2, StageKinds DEF ConsumeTopic

(* The list of alerter topics: its places, and the topics it names.        *)
LEMMA AlerterTopicsNamed ==
  ASSUME RoutingAssumption, NEW c, c.produce_topics \in Seq(Alerters)
  PROVE  /\ IsFiniteSet(DOMAIN AlerterTopics(c))
         /\ \A u \in Range(AlerterTopics(c)) : \E a \in Alerters : u = <<"alerter", a>>
<1> DEFINE names == IF c.produce_topics = <<>> THEN <<Generic>> ELSE c.produce_topics
           q == [k \in 1 .. Len(names) |-> <<"alerter", names[k]>>]
<1>1. names \in Seq(Alerters)
  BY DEF RoutingAssumption
<1>2. Len(names) \in Nat /\ \A k \in 1 .. Len(names) : names[k] \in Alerters
  BY <1>1, LenProperties, ElementOfSeq
<1>3. AlerterTopics(c) = IF c.send_to_alerter THEN q ELSE <<>>
  BY DEF AlerterTopics
<1> HIDE DEF names
<1>4. DOMAIN q = 1 .. Len(names) /\ \A u \in Range(q) : \E a \in Alerters : u = <<"alerter", a>>
  BY <1>2 DEF Range
<1>5. IsFiniteSet(1 .. Len(names)) /\ IsFiniteSet({})
  BY <1>2, FS_Interval, FS_EmptySet
<1>6. CASE c.send_to_alerter
  <2>1. AlerterTopics(c) = q
    BY <1>3, <1>6
  <2> HIDE DEF q
  <2> QED BY <1>4, <1>5, <2>1
<1>7. CASE ~c.send_to_alerter
  <2>1. AlerterTopics(c) = <<>> /\ DOMAIN <<>> = {}
    BY <1>3, <1>7
  <2> QED BY <1>5, <2>1 DEF Range
<1> QED BY <1>6, <1>7

LEMMA SendsToKinds ==
  ASSUME RoutingAssumption, config \in Configuration, NEW s \in Stages, NEW t, SendsTo(s, t)
  PROVE  /\ t \in Topics
         /\ s[1] = "prefilter" => t[1] = "inspector" /\ s = <<"prefilter", config.prefilter_name[t[2]]>>
         /\ s[1] = "inspector" => t[1] = "detector" /\ s = <<"inspector", config.detector[t[2]].inspector_name>>
         /\ s[1] = "detector" =>
              \/ t[1] = "alerter" /\ t \in Range(AlerterTopics(config.detector[s[2]]))
                 /\ t \notin ChainTopics(config.detector[s[2]])
              \/ t[1] = "chain" /\ t \in ChainTopics(config.detector[s[2]])
                 /\ t \notin Range(AlerterTopics(config.detector[s[2]]))
         /\ s[1] = "alerter" => t = External /\ t[1] = "external"
<1>1. CASE s[1] = "prefilter"
  <2>1. PICK i \in Inspectors : t = <<"inspector", i>> /\ config.prefilter_name[i] = s[2]
    BY <1>1 DEF SendsTo, InspectorTopics, Instance
  <2>2. t \in Topics
    BY <2>1 DEF Topics, Stages, Instance
  <2> QED BY <1>1, <2>1, <2>2, StageKinds
<1>2. CASE s[1] = "inspector"
  <2>1. PICK d \in Detectors : t = <<"detector", d>> /\ config.detector[d].inspector_name = s[2]
    BY <1>2 DEF SendsTo, DetectorTopics, Instance
  <2>2. t \in Topics
    BY <2>1 DEF Topics, Stages, Instance
  <2> QED BY <1>2, <2>1, <2>2, StageKinds
<1>3. CASE s[1] = "detector"
  <2> DEFINE c == config.detector[s[2]]
  <2>1. c.next_detectors \subseteq Detectors /\ c.produce_topics \in Seq(Alerters)
    BY <1>3, StageKinds DEF Configuration, DetectorConfig
  <2>2. \A u \in Range(AlerterTopics(c)) : u[1] = "alerter" /\ u \in Topics
    <3> HIDE DEF c
    <3>1. ASSUME NEW u \in Range(AlerterTopics(c)) PROVE \E a \in Alerters : u = <<"alerter", a>>
      BY <2>1, AlerterTopicsNamed
    <3> QED BY <3>1 DEF Topics, Stages, Instance
  <2>3. \A u \in ChainTopics(c) : u[1] = "chain" /\ u \in Topics
    BY <2>1 DEF ChainTopics, Instance, Topics
  <2>4. t \in Range(AlerterTopics(c)) \cup ChainTopics(c)
    BY <1>3 DEF SendsTo
  <2>5. /\ t \in Topics
        /\ \/ t[1] = "alerter" /\ t \in Range(AlerterTopics(c)) /\ t \notin ChainTopics(c)
           \/ t[1] = "chain" /\ t \in ChainTopics(c) /\ t \notin Range(AlerterTopics(c))
    <3> HIDE DEF c
    <3> QED BY <2>2, <2>3, <2>4
  <2>6. s[1] # "prefilter" /\ s[1] # "inspector" /\ s[1] # "alerter"
    BY <1>3
  <2> QED BY <2>5, <2>6
<1>4. CASE s[1] = "alerter"
  <2>1. t = External /\ t[1] = "external"
    BY <1>4 DEF SendsTo, External
  <2>2. External \in Topics
    BY DEF Topics
  <2>3. s[1] # "prefilter" /\ s[1] # "inspector" /\ s[1] # "detector" /\ t \in Topics
    BY <1>4, <2>1, <2>2
  <2> QED BY <2>1, <2>3
<1> QED BY <1>1, <1>2, <1>3, <1>4, StageKinds

-----------------------------------------------------------------------------
(* What a stage makes of one record.                                       *)

(* The record at hand.                                                     *)
AtHand(s, m) ==
  /\ at[s] + 1 \in 1 .. Len(Consumed(s)) /\ m = Consumed(s)[at[s] + 1]
  /\ m = Batch(m.origin, m.parent, m.batch, m.key, m.lines)
  /\ m.lines # {} /\ m.lines \subseteq Lines
  /\ OneClientForwarded /\ s[1] = "detector" => \A l \in m.lines : Client[l] = m.key

(* A row that is recorded for it.                                          *)
RowOf(s, m, x) ==
  /\ x.row[1] = s /\ x.parent = m.parent /\ s[1] # "alerter"
  /\ x.batch = m.batch \/ (s[1] = "inspector" /\ x.row[3] = "finished")

GoodResult(s, m, result) ==
  /\ \A t \in Topics :
       /\ IsFiniteSet(SentTo(result, t))
       /\ \A x \in SentTo(result, t) : /\ MadeFrom(t, s, at[s] + 1, x)
                                        /\ Named(result.rows, t, x) /\ Marked(result.ended, t, x)
       /\ \A x, y \in SentTo(result, t) : x # y => Apart(t, x, y)
  /\ s[1] # "alerter" => \A l \in m.lines :
       \/ \E t \in Topics : \E x \in SentTo(result, t) : l \in x.lines
       \/ \E status \in {"filtered_out", "detected"} : <<l, s, status>> \in result.ended
       \/ NobodyReads(s)
  /\ \A x \in InProcess(s, m) \cup result.rows : RowOf(s, m, x)

LEMMA SentToOne ==
  ASSUME NEW result, NEW T, NEW r, result.sent = To(T, r), NEW t
  PROVE  SentTo(result, t) = IF t \in T THEN {r} ELSE {}
<1>1. ASSUME NEW x \in SentTo(result, t) PROVE x = r /\ t \in T
  BY <1>1 DEF SentTo, To
<1>2. ASSUME t \in T PROVE r \in SentTo(result, t)
  <2> DEFINE pair == <<t, r>>
  <2>1. pair \in {y \in result.sent : y[1] = t} /\ pair[2] = r
    BY <1>2 DEF To
  <2> HIDE DEF pair
  <2> QED BY <2>1 DEF SentTo
<1> QED BY <1>1, <1>2

LEMMA InProcessRows ==
  ASSUME NEW s \in Stages, NEW m, NEW x \in InProcess(s, m)
  PROVE  RowOf(s, m, x)
BY DEF InProcess, Row, RowId, RowOf

LEMMA PrefilterSends ==
  ASSUME RoutingAssumption, config \in Configuration, NEW s \in Stages, s[1] = "prefilter",
         NEW m, AtHand(s, m), NEW result \in PrefilterResults(s, m)
  PROVE  GoodResult(s, m, result)
<1> DEFINE kept == m.lines \cap Relevant
           T == InspectorTopics(config, s[2])
           b == Batch(Here(s), RowId(s, "finished"), m.batch, m.key, kept)
<1>1. /\ result.sent = IF kept = {} THEN {} ELSE To(T, b)
      /\ result.rows = IF kept = {} THEN {} ELSE {Row(s, "finished", m, m.batch)}
      /\ result.ended = Ended(s, m.lines \ kept, "filtered_out")
  BY DEF PrefilterResults
<1>2. ASSUME NEW t \in Topics, NEW x \in SentTo(result, t)
      PROVE  kept # {} /\ x = b /\ t \in T
  <2> HIDE DEF kept, b, T
  <2>1. PICK y \in result.sent : y[1] = t /\ x = y[2]
    BY <1>2 DEF SentTo
  <2>2. kept # {} /\ y \in To(T, b)
    BY <1>1, <2>1
  <2> QED BY <2>1, <2>2 DEF To
<1>3. ASSUME NEW t \in Topics, NEW x \in SentTo(result, t)
      PROVE  /\ MadeFrom(t, s, at[s] + 1, x)
             /\ Named(result.rows, t, x) /\ Marked(result.ended, t, x)
  <2>1. kept # {} /\ x = b /\ t \in T
    <3> HIDE DEF kept, b, T
    <3> QED BY <1>2, <1>3
  <2>2. SendsTo(s, t) /\ t[1] = "inspector"
    BY <2>1, SendsToKinds DEF SendsTo
  <2>3. /\ x = Batch(x.origin, x.parent, x.batch, x.key, x.lines) /\ x.origin = <<s, at[s] + 1>>
        /\ x.lines = kept /\ x.parent = RowId(s, "finished") /\ x.batch = m.batch
    BY <2>1 DEF Batch, Here
  <2>4. MadeFrom(t, s, at[s] + 1, x)
    BY <2>1, <2>2, <2>3, Zenon DEF MadeFrom, AtHand, ForOneClient
  <2>5. Named(result.rows, t, x)
    <3> DEFINE y == Row(s, "finished", m, m.batch)
    <3>1. y \in result.rows /\ y.row = x.parent /\ y.batch = x.batch
      BY <1>1, <2>1, <2>3 DEF Row
    <3> HIDE DEF y
    <3> QED BY <3>1 DEF Named
  <2>6. Marked(result.ended, t, x)
    BY <2>2 DEF Marked
  <2> QED BY <2>4, <2>5, <2>6
<1>4. ASSUME NEW t \in Topics PROVE IsFiniteSet(SentTo(result, t))
  <2>1. SentTo(result, t) \in SUBSET {b}
    BY <1>2
  <2>2. IsFiniteSet({b})
    BY FS_Singleton
  <2> HIDE DEF b
  <2> QED BY <2>1, <2>2, FS_Subset
<1>5. ASSUME NEW l \in m.lines
      PROVE  \/ \E t \in Topics : \E x \in SentTo(result, t) : l \in x.lines
             \/ \E status \in {"filtered_out", "detected"} : <<l, s, status>> \in result.ended
             \/ NobodyReads(s)
  <2>1. CASE l \notin kept
    BY <1>1, <2>1 DEF Ended
  <2>2. CASE l \in kept /\ T # {}
    <3>1. PICK t \in T : TRUE
      BY <2>2
    <3>2. t \in Topics
      BY SendsToKinds DEF SendsTo
    <3>3. SentTo(result, t) = {b}
      BY <1>1, <2>2, SentToOne
    <3>4. b \in SentTo(result, t) /\ l \in b.lines
      BY <2>2, <3>3 DEF Batch
    <3> QED BY <3>2, <3>4
  <2>3. CASE T = {}
    BY <2>3 DEF NobodyReads
  <2> QED BY <2>1, <2>2, <2>3
<1>6. ASSUME NEW x \in result.rows
      PROVE  RowOf(s, m, x)
  BY <1>1 DEF Row, RowId, RowOf
<1> QED BY <1>2, <1>3, <1>4, <1>5, <1>6, InProcessRows DEF GoodResult

LEMMA InspectorSends ==
  ASSUME RoutingAssumption, config \in Configuration, IsFiniteSet(Lines),
         NEW s \in Stages, s[1] = "inspector",
         NEW m, AtHand(s, m), NEW result \in InspectorResults(s, m)
  PROVE  GoodResult(s, m, result)
<1> DEFINE clients == {Client[l] : l \in m.lines}
           T == DetectorTopics(config, s[2])
           id(c) == <<"suspicious", s, attempt[s], c>>
           own(c) == {l \in m.lines : Client[l] = c}
           b(c) == Batch(Here(s), RowId(s, "finished"), id(c), c, own(c))
           buckets == {b(c) : c \in clients}
<1>1. CASE result = Suspicious(s, m)
  <2>1. /\ result.sent = UNION {To(T, b(c)) : c \in clients}
        /\ result.rows = {Row(s, "finished", m, id(c)) : c \in clients}
        /\ result.ended = {}
    BY <1>1 DEF Suspicious
  <2>2. ASSUME NEW t \in Topics, NEW x \in SentTo(result, t)
        PROVE  t \in T /\ \E c \in clients : x = b(c)
    <3>1. PICK y \in result.sent : x = y[2] /\ y[1] = t
      BY <2>2 DEF SentTo
    <3>2. PICK c \in clients : y \in To(T, b(c))
      BY <2>1, <3>1
    <3>3. y[1] \in T /\ y[2] = b(c)
      BY <3>2 DEF To
    <3> QED BY <3>1, <3>2, <3>3
  <2>3. ASSUME NEW t \in T, NEW c \in clients PROVE b(c) \in SentTo(result, t)
    <3> DEFINE r == b(c)
               pair == <<t, r>>
    <3>1. pair \in To(T, r)
      BY DEF To
    <3>2. pair \in result.sent
      BY <2>1, <3>1
    <3>3. pair[1] = t /\ pair[2] = r
      OBVIOUS
    <3> HIDE DEF r, pair
    <3>4. r \in SentTo(result, t)
      BY <3>2, <3>3 DEF SentTo
    <3> QED BY <3>4 DEF r
  <2>4. ASSUME NEW c \in clients
        PROVE  /\ b(c) = Batch(b(c).origin, b(c).parent, b(c).batch, b(c).key, b(c).lines)
               /\ b(c).origin = <<s, at[s] + 1>> /\ b(c).parent = RowId(s, "finished")
               /\ b(c).batch = id(c) /\ b(c).key = c /\ b(c).lines = own(c)
    BY DEF Batch, Here
  <2>5. ASSUME NEW t \in Topics, NEW x \in SentTo(result, t)
        PROVE  /\ MadeFrom(t, s, at[s] + 1, x)
               /\ Named(result.rows, t, x) /\ Marked(result.ended, t, x)
    <3>1. PICK c \in clients : x = b(c)
      BY <2>2, <2>5
    <3>2. SendsTo(s, t) /\ t[1] = "detector"
      BY <2>2, <2>5, SendsToKinds DEF SendsTo
    <3> HIDE DEF b, id
    <3>3. /\ x = Batch(x.origin, x.parent, x.batch, x.key, x.lines)
          /\ x.origin = <<s, at[s] + 1>> /\ x.parent = RowId(s, "finished")
          /\ x.batch = id(c) /\ x.key = c /\ x.lines = own(c)
      BY <2>4, <3>1
    <3>4. own(c) # {} /\ own(c) \subseteq m.lines /\ \A l \in own(c) : Client[l] = c
      OBVIOUS
    <3> HIDE DEF own, clients
    <3>5. MadeFrom(t, s, at[s] + 1, x)
      BY <3>2, <3>3, <3>4 DEF MadeFrom, AtHand
    <3>6. Named(result.rows, t, x)
      <4> DEFINE y == Row(s, "finished", m, id(c))
      <4>1. y \in result.rows /\ y.row = x.parent /\ y.batch = x.batch
        BY <2>1, <3>3 DEF Row
      <4> HIDE DEF y
      <4> QED BY <4>1 DEF Named
    <3>7. Marked(result.ended, t, x)
      BY <3>2 DEF Marked
    <3> QED BY <3>5, <3>6, <3>7
  <2>6. ASSUME NEW t \in Topics PROVE IsFiniteSet(SentTo(result, t))
    <3>1. IsFiniteSet(m.lines)
      BY FS_Subset DEF AtHand
    <3> HIDE DEF b
    <3> DEFINE f == [l \in m.lines |-> b(Client[l])]
    <3>2. f \in Surjection(m.lines, buckets)
      BY DEF Surjection
    <3>3. IsFiniteSet(buckets)
      <4> HIDE DEF f, buckets
      <4> QED BY <3>1, <3>2, FS_Surjection
    <3>4. SentTo(result, t) \in SUBSET buckets
      BY <2>2
    <3> HIDE DEF buckets
    <3> QED BY <3>3, <3>4, FS_Subset
  <2>7. ASSUME NEW t \in Topics, NEW x \in SentTo(result, t), NEW y \in SentTo(result, t), x # y
        PROVE  Apart(t, x, y)
    <3>1. PICK c \in clients, k \in clients : x = b(c) /\ y = b(k)
      BY <2>2, <2>7
    <3>2. t[1] = "detector"
      BY <2>2, <2>7, SendsToKinds DEF SendsTo
    <3> HIDE DEF b, clients
    <3>3. x.key = c /\ y.key = k /\ c # k
      BY <2>4, <2>7, <3>1
    <3> QED BY <3>2, <3>3 DEF Apart
  <2>8. ASSUME NEW l \in m.lines
        PROVE  \/ \E t \in Topics : \E x \in SentTo(result, t) : l \in x.lines
               \/ NobodyReads(s)
    <3>1. CASE T = {}
      BY <3>1 DEF NobodyReads
    <3>2. CASE T # {}
      <4>1. PICK t \in T : TRUE
        BY <3>2
      <4>2. t \in Topics
        BY SendsToKinds DEF SendsTo
      <4> DEFINE c == Client[l]
                 r == b(c)
      <4>3. c \in clients /\ l \in own(c)
        OBVIOUS
      <4>4. r \in SentTo(result, t)
        BY <2>3, <4>3
      <4>5. r.lines = own(c)
        BY <2>4, <4>3
      <4> HIDE DEF r, own
      <4> QED BY <4>2, <4>3, <4>4, <4>5
    <3> QED BY <3>1, <3>2
  <2>9. ASSUME NEW x \in result.rows
        PROVE  RowOf(s, m, x)
    BY <2>1 DEF Row, RowId, RowOf
  <2> QED BY <2>5, <2>6, <2>7, <2>8, <2>9, InProcessRows DEF GoodResult
<1>2. CASE result = [sent |-> {}, rows |-> {Row(s, "finished", m, m.batch)},
                     ended |-> Ended(s, m.lines, "filtered_out")]
  <2>1. \A t \in Topics : SentTo(result, t) = {}
    BY <1>2 DEF SentTo
  <2>2. \A l \in m.lines : <<l, s, "filtered_out">> \in result.ended
    BY <1>2 DEF Ended
  <2>3. ASSUME NEW x \in result.rows
        PROVE  RowOf(s, m, x)
    BY <1>2 DEF Row, RowId, RowOf
  <2> QED BY <2>1, <2>2, <2>3, FS_EmptySet, InProcessRows DEF GoodResult
<1> QED BY <1>1, <1>2 DEF InspectorResults

(* The first ids of a window: some of its lines, where it has any.         *)
LEMMA FirstIdsFacts ==
  ASSUME PipelineAssumption, NEW r \in SUBSET Lines, r # {}
  PROVE  FirstIds(r) \subseteq r /\ FirstIds(r) # {}
<1> DEFINE ranks == {Rank[l] : l \in r}
           smaller == OpToRel(<, Nat)
<1>a. IsWellFoundedOn(smaller, Nat)
  BY NatLessThanWellFounded, Zenon
<1>b. \A j, k \in Nat : j < k => <<j, k>> \in smaller
  BY Zenon DEF OpToRel
<1> HIDE DEF smaller
<1>1. ranks \subseteq Nat /\ ranks # {}
  BY DEF PipelineAssumption
<1>2. PICK least \in ranks : \A other \in ranks : <<other, least>> \notin smaller
  <2> HIDE DEF ranks
  <2> QED BY <1>a, <1>1, WFMin
<1>3. PICK l \in r : Rank[l] = least
  OBVIOUS
<1>4. ASSUME NEW k \in r PROVE ~(Rank[k] < Rank[l])
  <2>1. <<Rank[k], Rank[l]>> \notin smaller /\ Rank[k] \in Nat /\ Rank[l] \in Nat
    BY <1>1, <1>2, <1>3
  <2> QED BY <1>b, <2>1
<1>5. {k \in r : Rank[k] < Rank[l]} = {}
  BY <1>4
<1>6. Cardinality({}) = 0 /\ 0 < MaxNamed
  BY FS_EmptySet DEF PipelineAssumption
<1>7. l \in FirstIds(r)
  BY <1>5, <1>6 DEF FirstIds
<1> QED BY <1>7 DEF FirstIds

LEMMA QuotedFacts ==
  ASSUME NEW s \in Stages, NEW m, AtHand(s, m), NEW r \in Quotable(s, m),
         window[s] \subseteq Lines, \A l \in window[s] : Seen(s, l)
  PROVE  /\ r \in SUBSET Lines /\ r # {}
         /\ \A l \in r : Seen(s, l)
         /\ s[2] \notin ByDomain => \A l \in r : \E k \in m.lines : Client[l] = Client[k]
<1>1. \A l \in m.lines : Seen(s, l)
  BY DEF AtHand, Seen
<1>2. m.lines \subseteq Lines
  BY DEF AtHand
<1>3. CASE s[2] \in BySource \cup ByDomain
  <2>1. r \subseteq m.lines \cup window[s] /\ r \cap m.lines # {}
        /\ \A k, l \in r : Group(s, k) = Group(s, l)
    BY <1>3 DEF Quotable
  <2>2. PICK k \in r : k \in m.lines
    BY <2>1
  <2>3. ASSUME s[2] \notin ByDomain, NEW l \in r PROVE Client[l] = Client[k]
    <3>1. <<Client[l], Domain[l]>> = <<Client[k], Domain[k]>>
      BY <2>1, <2>3 DEF Group
    <3> QED BY <3>1
  <2> QED BY <1>1, <1>2, <2>1, <2>2, <2>3
<1>4. CASE s[2] \notin BySource \cup ByDomain
  <2>1. PICK l \in m.lines : r = {l}
    BY <1>4 DEF Quotable
  <2> QED BY <1>1, <1>2, <2>1
<1> QED BY <1>3, <1>4

(* What an alert names and what a warning forwards.                        *)
LEMMA RequestFacts ==
  ASSUME PipelineAssumption, NEW s \in Stages, NEW m, AtHand(s, m),
         NEW requests \in Requests(s, m), requests # {},
         window[s] \subseteq Lines, \A l \in window[s] : Seen(s, l)
  PROVE  LET named == UNION {FirstIds(r) : r \in requests}
             all == UNION requests
         IN  /\ named \subseteq all /\ named # {} /\ all # {} /\ all \subseteq Lines
             /\ \A l \in all : Seen(s, l)
             /\ s[2] \notin ByDomain => \A l \in all : \E k \in m.lines : Client[l] = Client[k]
<1> DEFINE named == UNION {FirstIds(r) : r \in requests}
           all == UNION requests
<1>1. requests \subseteq Quotable(s, m)
  BY DEF Requests
<1>2. ASSUME NEW r \in requests
      PROVE  /\ r \in SUBSET Lines /\ r # {} /\ FirstIds(r) \subseteq r /\ FirstIds(r) # {}
             /\ \A l \in r : Seen(s, l)
             /\ s[2] \notin ByDomain => \A l \in r : \E k \in m.lines : Client[l] = Client[k]
  <2>1. /\ r \in SUBSET Lines /\ r # {} /\ \A l \in r : Seen(s, l)
        /\ s[2] \notin ByDomain => \A l \in r : \E k \in m.lines : Client[l] = Client[k]
    BY <1>1, QuotedFacts
  <2> QED BY <2>1, FirstIdsFacts
<1>3. named \subseteq all
  BY <1>2
<1>4. named # {}
  <2>1. PICK r \in requests : TRUE
    OBVIOUS
  <2>2. PICK l : l \in FirstIds(r)
    BY <1>2
  <2> QED BY <2>1, <2>2
<1>5. all \subseteq Lines /\ \A l \in all : Seen(s, l)
  BY <1>2
<1>6. s[2] \notin ByDomain => \A l \in all : \E k \in m.lines : Client[l] = Client[k]
  BY <1>2
<1> HIDE DEF named, all
<1>7. all # {}
  BY <1>3, <1>4
<1> QED BY <1>3, <1>4, <1>5, <1>6, <1>7 DEF named, all

LEMMA DetectorSends ==
  ASSUME PipelineAssumption, RoutingAssumption, config \in Configuration,
         NEW s \in Stages, s[1] = "detector",
         window[s] \subseteq Lines, \A l \in window[s] : Seen(s, l),
         NEW m, AtHand(s, m), NEW requests \in Requests(s, m)
  PROVE  GoodResult(s, m, Warned(s, m, requests))
<1> DEFINE c == config.detector[s[2]]
           q == AlerterTopics(c)
           K == DOMAIN q
           C == ChainTopics(c)
           named == UNION {FirstIds(r) : r \in requests}
           all == UNION requests
           alert(k) == Alert(s, m, requests, k)
           alerts == {alert(k) : k \in K}
           b == Forwarded(s, m, requests)
           result == Warned(s, m, requests)
<1>1. /\ result.sent = IF requests = {} THEN {} ELSE {<<q[k], alert(k)>> : k \in K} \cup To(C, b)
      /\ result.rows = {Row(s, "finished", m, m.batch)}
      /\ result.ended = Ended(s, m.lines, IF requests = {} THEN "filtered_out" ELSE "detected")
  BY DEF Warned
<1> HIDE DEF result
<1>2. ASSUME NEW t \in Topics, NEW x \in SentTo(result, t)
      PROVE  requests # {} /\ ((\E k \in K : t = q[k] /\ x = alert(k)) \/ (t \in C /\ x = b))
  <2>1. PICK y \in result.sent : x = y[2] /\ y[1] = t
    BY <1>2 DEF SentTo
  <2>2. requests # {} /\ (y \in {<<q[k], alert(k)>> : k \in K} \/ y \in To(C, b))
    BY <1>1, <2>1
  <2>3. CASE y \in {<<q[k], alert(k)>> : k \in K}
    <3>1. PICK k \in K : y = <<q[k], alert(k)>>
      BY <2>3
    <3> HIDE DEF q, K, alert
    <3>2. t = q[k] /\ x = alert(k)
      BY <2>1, <3>1
    <3> QED BY <2>2, <3>2
  <2>4. CASE y \in To(C, b)
    <3>1. y[1] \in C /\ y[2] = b
      BY <2>4 DEF To
    <3> QED BY <2>1, <2>2, <3>1
  <2> QED BY <2>2, <2>3, <2>4
<1>3. ASSUME NEW t, t \in Range(q) \/ t \in C
      PROVE  /\ SendsTo(s, t)
             /\ (t[1] = "alerter" /\ t \notin C) \/ (t[1] = "chain" /\ t \notin Range(q))
  <2>1. SendsTo(s, t)
    BY <1>3 DEF SendsTo
  <2> QED BY <2>1, SendsToKinds
<1>4. ASSUME NEW k \in K
      PROVE  /\ alert(k) = Batch(alert(k).origin, alert(k).parent, alert(k).batch, alert(k).key, alert(k).lines)
             /\ alert(k).origin = <<s, at[s] + 1>> /\ alert(k).parent = <<s, k>>
             /\ alert(k).batch = m.batch /\ alert(k).key = m.key /\ alert(k).lines = named
             /\ q[k] \in Range(q)
  BY DEF Alert, Batch, Here, Range
<1>5. /\ b = Batch(b.origin, b.parent, b.batch, b.key, b.lines)
      /\ b.origin = <<s, at[s] + 1>> /\ b.parent = RowId(s, "finished")
      /\ b.batch = m.batch /\ b.key = m.key /\ b.lines = all
  BY DEF Forwarded, Batch, Here
<1>6. c.next_detectors # {} /\ OneClientForwarded => s[2] \notin ByDomain
  BY DEF OneClientForwarded
<1>7. C # {} => c.next_detectors # {}
  BY DEF ChainTopics, Instance
<1>8. IsFiniteSet(alerts)
  <2>1. IsFiniteSet(K)
    <3>1. c.produce_topics \in Seq(Alerters)
      BY StageKinds DEF Configuration, DetectorConfig
    <3> HIDE DEF c
    <3> QED BY <3>1, AlerterTopicsNamed
  <2> DEFINE f == [k \in K |-> alert(k)]
  <2>2. f \in Surjection(K, alerts)
    <3> HIDE DEF K, alert
    <3> QED BY DEF Surjection
  <2> HIDE DEF f, alerts, K
  <2> QED BY <2>1, <2>2, FS_Surjection
<1> HIDE DEF q, K, C, alert, b
<1>9. requests # {} => /\ named \subseteq all /\ named # {} /\ all # {} /\ all \subseteq Lines
                       /\ \A l \in all : Seen(s, l)
                       /\ s[2] \notin ByDomain => \A l \in all : \E k \in m.lines : Client[l] = Client[k]
  BY RequestFacts
<1> HIDE DEF named, all
<1>10. ASSUME NEW t \in Topics, NEW x \in SentTo(result, t)
       PROVE  /\ requests # {} /\ SendsTo(s, t)
              /\ \/ t[1] = "alerter" /\ t \notin C /\ \E k \in K : x = alert(k)
                 \/ t[1] = "chain" /\ t \in C /\ x = b
  <2>1. CASE \E k \in K : t = q[k] /\ x = alert(k)
    <3>1. PICK k \in K : t = q[k] /\ x = alert(k)
      BY <2>1
    <3>2. t \in Range(q)
      BY <1>4, <3>1
    <3>3. SendsTo(s, t) /\ ((t[1] = "alerter" /\ t \notin C) \/ (t[1] = "chain" /\ t \notin Range(q)))
      BY <1>3, <3>2
    <3>4. requests # {}
      BY <1>2, <1>10
    <3> QED BY <3>1, <3>2, <3>3, <3>4
  <2>2. CASE t \in C /\ x = b
    <3>1. SendsTo(s, t) /\ ((t[1] = "alerter" /\ t \notin C) \/ (t[1] = "chain" /\ t \notin Range(q)))
      BY <1>3, <2>2
    <3>2. requests # {}
      BY <1>2, <1>10
    <3> QED BY <2>2, <3>1, <3>2
  <2> QED BY <1>2, <1>10, <2>1, <2>2
<1>11. ASSUME NEW t \in Topics, NEW x \in SentTo(result, t)
       PROVE  /\ MadeFrom(t, s, at[s] + 1, x)
              /\ Named(result.rows, t, x) /\ Marked(result.ended, t, x)
  <2>1. /\ requests # {} /\ SendsTo(s, t)
        /\ \/ t[1] = "alerter" /\ t \notin C /\ \E k \in K : x = alert(k)
           \/ t[1] = "chain" /\ t \in C /\ x = b
    BY <1>10, <1>11
  <2>2. /\ x = Batch(x.origin, x.parent, x.batch, x.key, x.lines)
        /\ x.origin = <<s, at[s] + 1>> /\ x.batch = m.batch /\ x.key = m.key
        /\ x.lines \in {named, all}
        /\ t[1] = "alerter" => x.parent[1] = s
        /\ t[1] = "chain" => x.parent = RowId(s, "finished")
    <3>1. CASE t[1] = "alerter" /\ \E k \in K : x = alert(k)
      <4>1. PICK k \in K : x = alert(k)
        BY <3>1
      <4>2. /\ x = Batch(x.origin, x.parent, x.batch, x.key, x.lines)
            /\ x.origin = <<s, at[s] + 1>> /\ x.parent = <<s, k>>
            /\ x.batch = m.batch /\ x.key = m.key /\ x.lines = named
        BY <1>4, <4>1
      <4>3. x.parent[1] = s /\ t[1] # "chain"
        BY <3>1, <4>2
      <4> QED BY <4>2, <4>3
    <3>2. CASE t[1] = "chain" /\ x = b
      BY <1>5, <3>2
    <3> QED BY <2>1, <3>1, <3>2
  <2>3. /\ x.lines # {} /\ x.lines \subseteq Lines
        /\ \A l \in x.lines : Seen(s, l)
        /\ s[2] \notin ByDomain => \A l \in x.lines : \E k \in m.lines : Client[l] = Client[k]
    BY <1>9, <2>1, <2>2
  <2>4. ForOneClient(t, s) => OneClientForwarded /\ s[2] \notin ByDomain
    BY <1>6, <1>7, <2>1 DEF ForOneClient
  <2>5. ForOneClient(t, s) => \A l \in x.lines : Client[l] = m.key
    BY <2>3, <2>4 DEF AtHand
  <2>6. at[s] + 1 \in 1 .. Len(Consumed(s)) /\ m = Consumed(s)[at[s] + 1]
    BY DEF AtHand
  <2>7. t[1] \notin {"inspector", "detector"}
    BY <2>1
  <2>8. MadeFrom(t, s, at[s] + 1, x)
    BY <2>1, <2>2, <2>3, <2>5, <2>6, <2>7 DEF MadeFrom
  <2>9. Named(result.rows, t, x)
    <3> DEFINE y == Row(s, "finished", m, m.batch)
    <3>1. /\ y \in result.rows /\ y.batch = x.batch
          /\ t[1] = "chain" => y.row = x.parent
      BY <1>1, <2>2 DEF Row
    <3> HIDE DEF y
    <3> QED BY <2>1, <3>1 DEF Named
  <2>10. Marked(result.ended, t, x)
    <3>1. x.origin[1] = s /\ x.origin[2] = at[s] + 1
      BY <2>2
    <3>2. \A l \in m.lines : <<l, s, "detected">> \in result.ended
      BY <1>1, <2>1 DEF Ended
    <3> QED BY <2>6, <3>1, <3>2 DEF Marked
  <2> QED BY <2>8, <2>9, <2>10
<1>12. ASSUME NEW t \in Topics PROVE IsFiniteSet(SentTo(result, t))
  <2>1. SentTo(result, t) \in SUBSET (alerts \cup {b})
    <3>1. ASSUME NEW x \in SentTo(result, t) PROVE (\E k \in K : x = alert(k)) \/ x = b
      BY <1>10, <3>1
    <3> QED BY <3>1
  <2> HIDE DEF alerts
  <2>2. IsFiniteSet({b})
    BY FS_Singleton
  <2>3. IsFiniteSet(alerts \cup {b})
    BY <1>8, <2>2, FS_Union
  <2> QED BY <2>1, <2>3, FS_Subset
<1>13. ASSUME NEW t \in Topics, NEW x \in SentTo(result, t), NEW y \in SentTo(result, t), x # y
       PROVE  Apart(t, x, y)
  <2>1. CASE t[1] = "alerter" /\ t \notin C
    <3>1. PICK k \in K, j \in K : x = alert(k) /\ y = alert(j)
      BY <1>10, <1>13, <2>1
    <3>2. x.parent = <<s, k>> /\ y.parent = <<s, j>> /\ k # j
      BY <1>4, <1>13, <3>1
    <3>3. x.parent # y.parent
      BY <3>2
    <3> QED BY <2>1, <3>3 DEF Apart
  <2>2. CASE t[1] = "chain" /\ t \in C
    <3>1. x = b /\ y = b
      BY <1>10, <1>13, <2>2
    <3> QED BY <1>13, <3>1
  <2> QED BY <1>10, <1>13, <2>1, <2>2
<1>14. ASSUME NEW l \in m.lines
       PROVE  \E status \in {"filtered_out", "detected"} : <<l, s, status>> \in result.ended
  BY <1>1 DEF Ended
<1>15. ASSUME NEW x \in result.rows
       PROVE  RowOf(s, m, x)
  BY <1>1 DEF Row, RowId, RowOf
<1>16. GoodResult(s, m, result)
  BY <1>11, <1>12, <1>13, <1>14, <1>15, InProcessRows DEF GoodResult
<1> QED BY <1>16 DEF result

LEMMA AlerterSends ==
  ASSUME RoutingAssumption, config \in Configuration, NEW s \in Stages, s[1] = "alerter",
         NEW m, AtHand(s, m), NEW result,
         result = [sent |-> To({External}, [m EXCEPT !.origin = Here(s)]), rows |-> {}, ended |-> {}]
  PROVE  GoodResult(s, m, result)
<1> DEFINE r == [m EXCEPT !.origin = Here(s)]
<1>1. result.sent = To({External}, r) /\ result.rows = {}
  OBVIOUS
<1>2. r = Batch(Here(s), m.parent, m.batch, m.key, m.lines)
  BY DEF AtHand, Batch
<1>3. /\ r = Batch(r.origin, r.parent, r.batch, r.key, r.lines)
      /\ r.origin = <<s, at[s] + 1>> /\ r.lines = m.lines
  BY <1>2 DEF Batch, Here
<1> HIDE DEF r
<1>4. ASSUME NEW t \in Topics PROVE SentTo(result, t) = IF t = External THEN {r} ELSE {}
  <2>1. SentTo(result, t) = IF t \in {External} THEN {r} ELSE {}
    <3> DEFINE T == {External}
    <3>1. result.sent = To(T, r)
      BY <1>1
    <3> HIDE DEF T
    <3>2. SentTo(result, t) = IF t \in T THEN {r} ELSE {}
      BY <3>1, SentToOne
    <3> QED BY <3>2 DEF T
  <2> QED BY <2>1
<1>5. External[1] = "external"
  BY DEF External
<1>6. /\ MadeFrom(External, s, at[s] + 1, r)
      /\ Named(result.rows, External, r) /\ Marked(result.ended, External, r)
  <2>1. SendsTo(s, External)
    BY DEF SendsTo
  <2>2. MadeFrom(External, s, at[s] + 1, r)
    BY <1>3, <1>5, <2>1 DEF MadeFrom, AtHand, ForOneClient
  <2> QED BY <1>5, <2>2 DEF Named, Marked
<1>7. IsFiniteSet({r}) /\ IsFiniteSet({})
  BY FS_Singleton, FS_EmptySet
<1> HIDE DEF r
<1>8. ASSUME NEW t \in Topics
      PROVE  /\ IsFiniteSet(SentTo(result, t))
             /\ \A x \in SentTo(result, t) : /\ MadeFrom(t, s, at[s] + 1, x)
                                              /\ Named(result.rows, t, x) /\ Marked(result.ended, t, x)
             /\ \A x, y \in SentTo(result, t) : x = y
  BY <1>4, <1>6, <1>7
<1>9. InProcess(s, m) \cup result.rows = {}
  BY <1>1 DEF InProcess
<1> QED BY <1>8, <1>9 DEF GoodResult

(* Whatever the stage, each of its results is good.                        *)
LEMMA StageSends ==
  ASSUME PipelineAssumption, RoutingAssumption, config \in Configuration, NEW s \in Stages,
         window[s] \subseteq Lines, \A l \in window[s] : Seen(s, l),
         NEW m, AtHand(s, m), NEW result \in Results(s, m)
  PROVE  GoodResult(s, m, result)
<1>1. CASE s[1] = "prefilter"
  <2>1. result \in PrefilterResults(s, m)
    BY <1>1 DEF Results
  <2> QED BY <1>1, <2>1, PrefilterSends
<1>2. CASE s[1] = "inspector"
  <2>1. result \in InspectorResults(s, m)
    BY <1>2 DEF Results
  <2> QED BY <1>2, <2>1, InspectorSends DEF PipelineAssumption
<1>3. CASE s[1] = "detector"
  <2>1. PICK requests \in Requests(s, m) : result = Warned(s, m, requests)
    BY <1>3 DEF Results
  <2> QED BY <1>3, <2>1, DetectorSends
<1>4. CASE s[1] = "alerter"
  <2>1. result = [sent |-> To({External}, [m EXCEPT !.origin = Here(s)]), rows |-> {}, ended |-> {}]
    BY <1>4 DEF Results
  <2> QED BY <1>4, <2>1, AlerterSends
<1> QED BY <1>1, <1>2, <1>3, <1>4, StageKinds

-----------------------------------------------------------------------------
(* What longer topics and further rows leave alone.                        *)

TopicsGrow ==
  /\ config' = config
  /\ \A t \in Topics : \A n \in 1 .. Len(topic[t]) :
       n \in 1 .. Len(topic'[t]) /\ topic'[t][n] = topic[t][n]

LEMMA ConsumedGrows ==
  ASSUME TopicsGrow, NEW s \in Stages, NEW n \in 1 .. Len(Consumed(s))
  PROVE  n \in 1 .. Len(Consumed(s)') /\ Consumed(s)'[n] = Consumed(s)[n]
<1>1. ConsumeTopic(config', s) = ConsumeTopic(config, s) /\ ConsumeTopic(config, s) \in Topics
  BY ConsumeTopicKinds DEF TopicsGrow
<1> QED BY <1>1 DEF TopicsGrow, Consumed

LEMMA SeenStays ==
  ASSUME TopicsGrow, NEW s \in Stages, NEW l, Seen(s, l)
  PROVE  Seen(s, l)'
<1>1. PICK n \in 1 .. Len(Consumed(s)) : l \in Consumed(s)[n].lines
  BY DEF Seen
<1>2. n \in 1 .. Len(Consumed(s)') /\ Consumed(s)'[n] = Consumed(s)[n]
  BY ConsumedGrows
<1> QED BY <1>1, <1>2 DEF Seen

LEMMA MadeFromStays ==
  ASSUME TopicsGrow, NEW t, NEW s \in Stages, NEW n, NEW r, MadeFrom(t, s, n, r)
  PROVE  MadeFrom(t, s, n, r)'
<1>1. n \in 1 .. Len(Consumed(s))
  BY DEF MadeFrom
<1>2. n \in 1 .. Len(Consumed(s)') /\ Consumed(s)'[n] = Consumed(s)[n]
  BY <1>1, ConsumedGrows
<1>3. (SendsTo(s, t)' <=> SendsTo(s, t)) /\ (ForOneClient(t, s)' <=> ForOneClient(t, s))
  BY DEF TopicsGrow, SendsTo, ForOneClient, OneClientForwarded
<1>4. \A l \in r.lines : Seen(s, l) => Seen(s, l)'
  BY SeenStays
<1> QED BY <1>2, <1>3, <1>4 DEF MadeFrom

LEMMA NamedStays ==
  ASSUME tree \subseteq tree', NEW t, NEW r, Named(tree, t, r)
  PROVE  Named(tree, t, r)'
BY DEF Named

LEMMA MarkedStays ==
  ASSUME TopicsGrow, ends \subseteq ends', NEW t, NEW s \in Stages, NEW n, NEW r,
         MadeFrom(t, s, n, r), Marked(ends, t, r)
  PROVE  Marked(ends, t, r)'
<1>1. r.origin[1] = s /\ r.origin[2] = n /\ n \in 1 .. Len(Consumed(s))
  BY DEF MadeFrom
<1>2. Consumed(s)'[n] = Consumed(s)[n]
  BY <1>1, ConsumedGrows
<1>3. t[1] = "alerter" => \A l \in Consumed(s)[n].lines : <<l, s, "detected">> \in ends
  BY <1>1 DEF Marked
<1> QED BY <1>1, <1>2, <1>3 DEF Marked

LEMMA TopicSourceStays ==
  ASSUME TopicsGrow, tree \subseteq tree', ends \subseteq ends', offset \in [Stages -> Nat], offset' \in [Stages -> Nat],
         \A s \in Stages : offset[s] <= offset'[s],
         NEW t, NEW r, TopicSource(t, r)
  PROVE  TopicSource(t, r)'
<1> DEFINE s == r.origin[1]
           n == r.origin[2]
<1>1. /\ s \in Stages /\ n <= offset[s] /\ MadeFrom(t, s, n, r)
      /\ Named(tree, t, r) /\ Marked(ends, t, r)
  BY DEF TopicSource
<1>2. n \in Int /\ offset[s] \in Int /\ offset'[s] \in Int /\ offset[s] <= offset'[s]
  BY <1>1 DEF MadeFrom
<1>3. MadeFrom(t, s, n, r)' /\ Named(tree, t, r)' /\ Marked(ends, t, r)'
  BY <1>1, MadeFromStays, NamedStays, MarkedStays
<1>4. n <= offset'[s]
  BY <1>1, <1>2
<1> QED BY <1>1, <1>3, <1>4 DEF TopicSource

LEMMA OutputSourceStays ==
  ASSUME TopicsGrow, tree \subseteq tree', ends \subseteq ends', NEW s \in Stages,
         at[s] \in Nat, at'[s] \in Nat, first'[s] = first[s], at[s] <= at'[s],
         NEW t, NEW r, OutputSource(s, t, r)
  PROVE  OutputSource(s, t, r)'
<1> DEFINE n == r.origin[2]
<1>1. /\ first[s] < n /\ n <= at[s] /\ MadeFrom(t, s, n, r)
      /\ Named(tree, t, r) /\ Marked(ends, t, r)
  BY DEF OutputSource
<1>2. n \in Int
  BY <1>1 DEF MadeFrom
<1>3. MadeFrom(t, s, n, r)' /\ Named(tree, t, r)' /\ Marked(ends, t, r)'
  BY <1>1, MadeFromStays, NamedStays, MarkedStays
<1>4. first'[s] < n /\ n <= at'[s]
  BY <1>1, <1>2
<1> QED BY <1>3, <1>4 DEF OutputSource

LEMMA RowNamesStays ==
  ASSUME TopicsGrow, tree \subseteq tree', NEW x, RowNames(x)
  PROVE  RowNames(x)'
<1> DEFINE s == x.row[1]
           Fits(r) == /\ r.lines # {} /\ r.parent = x.parent
                      /\ r.batch = x.batch \/ (s[1] = "inspector" /\ x.row[3] = "finished")
<1>1. PICK n \in 1 .. Len(Consumed(s)) :
        /\ s \in Stages /\ Fits(Consumed(s)[n])
        /\ s[1] # "prefilter" => InTree(Consumed(s)[n].parent, Consumed(s)[n].batch)
  BY DEF RowNames
<1>2. n \in 1 .. Len(Consumed(s)') /\ Consumed(s)'[n] = Consumed(s)[n]
  BY <1>1, ConsumedGrows
<1>3. s[1] # "prefilter" => InTree(Consumed(s)[n].parent, Consumed(s)[n].batch)'
  BY <1>1, <1>2 DEF InTree
<1>4. Fits(Consumed(s)'[n])
  BY <1>1, <1>2
<1> QED BY <1>1, <1>2, <1>3, <1>4 DEF RowNames

LEMMA HandedOnStays ==
  ASSUME TopicsGrow, NEW s, NEW n, NEW l, HandedOn(s, n, l)
  PROVE  HandedOn(s, n, l)'
BY DEF HandedOn, TopicsGrow

LEMMA EndedStays ==
  ASSUME ends \subseteq ends', NEW s, NEW l, EndedBy(s, l)
  PROVE  EndedBy(s, l)'
BY DEF EndedBy

LEMMA DealtStays ==
  ASSUME TopicsGrow, ends \subseteq ends', NEW s \in Stages, Dealt(s)' \subseteq Dealt(s),
         offset[s] <= Len(Consumed(s)), offset[s] \in Nat, Len(Consumed(s)) \in Nat,
         DealtAccounted(s)
  PROVE  DealtAccounted(s)'
<1>1. Dealt(s)' \subseteq Dealt(s) /\ Dealt(s) \subseteq 1 .. Len(Consumed(s))
  BY DEF Dealt
<1>2. \A n \in Dealt(s) : Consumed(s)'[n] = Consumed(s)[n]
  BY <1>1, ConsumedGrows
<1>3. NobodyReads(s)' <=> NobodyReads(s)
  BY DEF NobodyReads, TopicsGrow
<1>4. ASSUME NEW n \in Dealt(s)', NEW l \in Consumed(s)'[n].lines
      PROVE  HandedOn(s, n, l)' \/ EndedBy(s, l)' \/ NobodyReads(s)'
  <2>1. n \in Dealt(s) /\ l \in Consumed(s)[n].lines
    BY <1>1, <1>2, <1>4
  <2>2. HandedOn(s, n, l) \/ EndedBy(s, l) \/ NobodyReads(s)
    BY <2>1 DEF DealtAccounted
  <2> QED BY <1>3, <2>2, HandedOnStays, EndedStays
<1> QED BY <1>4 DEF DealtAccounted

-----------------------------------------------------------------------------
(* What a stage reads.                                                     *)

LEMMA RecordFacts ==
  ASSUME PipelineAssumption, RoutingAssumption, Cursors, Shape, Sources,
         NEW s \in Stages, NEW n \in 1 .. Len(Consumed(s))
  PROVE  LET r == Consumed(s)[n]
         IN  /\ r = Batch(r.origin, r.parent, r.batch, r.key, r.lines)
             /\ r.lines # {} /\ r.lines \subseteq Lines
             /\ OneClientForwarded /\ s[1] = "detector" => \A l \in r.lines : Client[l] = r.key
             /\ s[1] # "prefilter" => s[1] = "alerter" \/ InTree(r.parent, r.batch)
<1> DEFINE t == ConsumeTopic(config, s)
           r == Consumed(s)[n]
<1>1. CASE s[1] = "prefilter"
  <2> DEFINE p == s[2]
  <2>1. p \in Prefilters /\ s = <<"prefilter", p>> /\ t = s
    BY <1>1, StageKinds, ConsumeTopicKinds
  <2>2. Collected[p] \in Seq((SUBSET Lines) \ {{}})
    BY <2>1 DEF PipelineAssumption
  <2>3. Len(Collected[p]) \in Nat
    BY <2>2, LenProperties
  <2>4. topic[t] = [k \in 1 .. Len(Collected[p]) |-> FromCollector(p, k)]
    BY <2>1 DEF Shape
  <2>5. n \in 1 .. Len(Collected[p]) /\ r = FromCollector(p, n)
    <3>1. IsSeq(topic[t]) /\ n \in 1 .. Len(topic[t])
      BY ConsumeTopicKinds DEF Shape, Consumed
    <3>2. DOMAIN topic[t] = 1 .. Len(topic[t])
      BY <3>1, SeqFacts
    <3> QED BY <2>4, <3>1, <3>2 DEF Consumed
  <2>6. Collected[p][n] \in (SUBSET Lines) \ {{}}
    BY <2>2, <2>5, ElementOfSeq
  <2> HIDE DEF r, p
  <2>7. r.lines = Collected[p][n] /\ r = Batch(r.origin, r.parent, r.batch, r.key, r.lines)
    BY <2>5 DEF FromCollector, Batch
  <2> QED BY <1>1, <2>6, <2>7 DEF r
<1>2. CASE s[1] # "prefilter"
  <2>1. t \in Topics /\ t[1] # "prefilter" /\ (s[1] = "detector" => t[1] \in {"detector", "chain"})
    BY <1>2, StageKinds, ConsumeTopicKinds
  <2>2. TopicSource(t, r)
    BY <2>1 DEF Sources, Consumed
  <2>3. PICK u, k : u \in Stages /\ MadeFrom(t, u, k, r) /\ Named(tree, t, r)
    BY <2>2 DEF TopicSource
  <2>4. OneClientForwarded /\ s[1] = "detector" => ForOneClient(t, u)
    BY <2>1 DEF ForOneClient
  <2>5. s[1] # "alerter" => t[1] \in {"inspector", "detector", "chain"}
    BY <1>2, <2>1, StageKinds, ConsumeTopicKinds
  <2> HIDE DEF t, r
  <2>6. /\ r = Batch(r.origin, r.parent, r.batch, r.key, r.lines) /\ r.lines # {} /\ r.lines \subseteq Lines
        /\ OneClientForwarded /\ s[1] = "detector" => \A l \in r.lines : Client[l] = r.key
    BY <2>3, <2>4 DEF MadeFrom
  <2>7. s[1] # "alerter" => InTree(r.parent, r.batch)
    BY <2>3, <2>5 DEF Named, InTree
  <2> QED BY <2>6, <2>7 DEF r
<1> QED BY <1>1, <1>2

(* Messages are never kept from one record to the next, so what a stage    *)
(* fills its memory with is the record.                                    *)
LEMMA PickedUp ==
  ASSUME PipelineAssumption, RoutingAssumption, Cursors, Shape, Sources,
         NEW s \in Stages, state[s] = "processing", at[s] < position[s]
  PROVE  LET m == Filled(s, Consumed(s)[at[s] + 1])
         IN  m = Consumed(s)[at[s] + 1] /\ AtHand(s, m)
<1> DEFINE r == Consumed(s)[at[s] + 1]
<1>1. at[s] + 1 \in 1 .. Len(Consumed(s))
  <2>1. Len(Consumed(s)) \in Nat
    BY ConsumeTopicKinds, SeqFacts DEF Shape, Consumed
  <2>2. at[s] \in Nat /\ position[s] \in Nat /\ position[s] <= Len(Consumed(s))
    BY DEF Cursors
  <2> QED BY <2>1, <2>2
<1>2. /\ r = Batch(r.origin, r.parent, r.batch, r.key, r.lines)
      /\ r.lines # {} /\ r.lines \subseteq Lines
      /\ OneClientForwarded /\ s[1] = "detector" => \A l \in r.lines : Client[l] = r.key
  BY <1>1, RecordFacts
<1>3. AtHand(s, r)
  BY <1>1, <1>2 DEF AtHand
<1>4. memory[s].lines = {} /\ r.lines # {}
  BY <1>2 DEF Cursors
<1> HIDE DEF r
<1>5. Filled(s, r) = r
  BY <1>4, StageKinds DEF Filled, PrefilterFills, InspectorFills, DetectorFills
<1> QED BY <1>3, <1>5 DEF r

-----------------------------------------------------------------------------
(* Steps of one stage.                                                     *)

(* What no step does to another stage.                                     *)
OthersKept(s) ==
  \A u \in Stages \ {s} :
    /\ output'[u] = output[u] /\ first'[u] = first[u] /\ at'[u] = at[u]
    /\ state'[u] = state[u] /\ position'[u] = position[u] /\ offset'[u] = offset[u]

LEMMA LengthGrows ==
  ASSUME TopicsGrow, Shape, Shape', NEW s \in Stages
  PROVE  /\ Len(Consumed(s)) \in Nat /\ Len(Consumed(s)') \in Nat
         /\ Len(Consumed(s)) <= Len(Consumed(s)')
<1>1. ConsumeTopic(config', s) = ConsumeTopic(config, s) /\ ConsumeTopic(config, s) \in Topics
  BY ConsumeTopicKinds DEF TopicsGrow
<1>2. Len(Consumed(s)) \in Nat /\ Len(Consumed(s)') \in Nat
  BY <1>1, SeqFacts DEF Shape, Consumed
<1>3. Len(Consumed(s)) \in 1 .. Len(Consumed(s)) => Len(Consumed(s)) \in 1 .. Len(Consumed(s)')
  BY ConsumedGrows
<1> QED BY <1>2, <1>3

LEMMA OpenStays ==
  ASSUME TopicsGrow, ends \subseteq ends', Cursors, NEW u \in Stages, Len(Consumed(u)) \in Nat,
         output'[u] = output[u], first'[u] = first[u], at'[u] = at[u], state'[u] = state[u],
         OpenAccounted(u)
  PROVE  OpenAccounted(u)'
<1> SUFFICES ASSUME state'[u] = "processing",
                    NEW n \in first'[u] + 1 .. at'[u], NEW l \in Consumed(u)'[n].lines
             PROVE  InOutput(u, n, l)' \/ EndedBy(u, l)' \/ NobodyReads(u)'
  BY DEF OpenAccounted
<1>1. /\ first[u] \in Nat /\ at[u] \in Nat /\ position[u] \in Nat
      /\ at[u] <= position[u] /\ position[u] <= Len(Consumed(u))
  BY DEF Cursors
<1>2. n \in first[u] + 1 .. at[u] /\ n \in 1 .. Len(Consumed(u))
  BY <1>1
<1>3. l \in Consumed(u)[n].lines
  BY <1>2, ConsumedGrows
<1>4. InOutput(u, n, l) \/ EndedBy(u, l) \/ NobodyReads(u)
  BY <1>2, <1>3 DEF OpenAccounted
<1>5. InOutput(u, n, l) => InOutput(u, n, l)'
  BY DEF InOutput
<1>6. NobodyReads(u) => NobodyReads(u)'
  BY DEF NobodyReads, TopicsGrow
<1> QED BY <1>4, <1>5, <1>6, EndedStays

(* Steps after which the stage has sent nothing in an open transaction.    *)
Quiet(s) ==
  /\ UNCHANGED <<config, topic, offset, lost>>
  /\ tree \subseteq tree' /\ ends \subseteq ends'
  /\ DOMAIN output' = Stages /\ DOMAIN output'[s] = Topics
  /\ \A t \in Topics : output'[s][t] = <<>>
  /\ state'[s] = "processing" => first'[s] = at'[s]

LEMMA QuietStep ==
  ASSUME PipelineInvariant, NEW s \in Stages, Quiet(s), OthersKept(s), at' \in [Stages -> Nat]
  PROVE  TopicsGrow /\ Shape' /\ Sources' /\ Unrepeated' /\ Accounted'
<1>1. TopicsGrow
  BY DEF Quiet, TopicsGrow
<1>2. Shape'
  <2>1. \A u \in Stages :
          /\ DOMAIN output'[u] = Topics /\ \A t \in Topics : IsSeq(output'[u][t])
          /\ state'[u] # "processing" => \A t \in Topics : output'[u][t] = <<>>
    BY NoRecords DEF PipelineInvariant, Shape, Quiet, OthersKept
  <2>2. UNCHANGED topic /\ DOMAIN output' = Stages
    BY DEF Quiet
  <2>3. /\ DOMAIN topic' = Topics /\ \A t \in Topics : IsSeq(topic'[t])
        /\ \A p \in Prefilters :
             topic'[<<"prefilter", p>>] = [n \in 1 .. Len(Collected[p]) |-> FromCollector(p, n)]
    BY <2>2 DEF PipelineInvariant, Shape
  <2> QED BY <2>1, <2>2, <2>3 DEF Shape
<1>3. Sources'
  <2>1. ASSUME NEW t \in Topics, t[1] # "prefilter", NEW i \in 1 .. Len(topic'[t])
        PROVE  TopicSource(t, topic[t][i])'
    <3> DEFINE r == topic[t][i]
    <3>1. i \in 1 .. Len(topic[t]) /\ topic'[t][i] = r
      BY DEF Quiet
    <3>2. TopicSource(t, r)
      BY <2>1, <3>1 DEF PipelineInvariant, Sources
    <3>3. /\ offset \in [Stages -> Nat] /\ offset' \in [Stages -> Nat] /\ tree \subseteq tree'
          /\ ends \subseteq ends' /\ \A u \in Stages : offset[u] <= offset'[u]
      BY DEF PipelineInvariant, Cursors, Quiet
    <3>4. ASSUME NEW x, TopicSource(t, x) PROVE TopicSource(t, x)'
      BY <1>1, <3>3, <3>4, TopicSourceStays
    <3> QED BY <3>1, <3>2, <3>4 DEF TopicSource
  <2>2. ASSUME NEW u \in Stages, NEW t \in Topics, NEW i \in 1 .. Len(output'[u][t])
        PROVE  OutputSource(u, t, output[u][t][i])'
    <3>1. u # s
      BY <2>2, NoRecords DEF Quiet
    <3>2. /\ output'[u] = output[u] /\ first'[u] = first[u] /\ at'[u] = at[u] /\ at[u] \in Nat
          /\ tree \subseteq tree' /\ ends \subseteq ends' /\ at'[u] \in Nat
      BY <3>1 DEF OthersKept, PipelineInvariant, Cursors, Quiet
    <3>3. OutputSource(u, t, output[u][t][i])
      BY <2>2, <3>2 DEF PipelineInvariant, Sources
    <3>4. ASSUME NEW x, OutputSource(u, t, x) PROVE OutputSource(u, t, x)'
      BY <1>1, <3>2, <3>4, OutputSourceStays
    <3> QED BY <3>2, <3>3, <3>4 DEF OutputSource
  <2> QED BY <2>1, <2>2 DEF Sources
<1>4. Unrepeated'
  <2>1. \A t \in Topics : Distinct(t, topic[t])'
    BY DEF Quiet, PipelineInvariant, Unrepeated, Distinct
  <2>2. ASSUME NEW u \in Stages, NEW t \in Topics PROVE Distinct(t, output[u][t])'
    <3>1. CASE u = s
      BY <3>1, NoRecords DEF Quiet, Distinct
    <3>2. CASE u # s
      <4>1. output'[u][t] = output[u][t] /\ Distinct(t, output[u][t])
        BY <3>2 DEF OthersKept, PipelineInvariant, Unrepeated
      <4> QED BY <4>1 DEF Distinct
    <3> QED BY <3>1, <3>2
  <2> QED BY <2>1, <2>2 DEF Unrepeated
<1>5. ASSUME NEW u \in Stages, u[1] # "alerter" PROVE DealtAccounted(u)' /\ OpenAccounted(u)'
  <2>1. DealtAccounted(u) /\ OpenAccounted(u)
    BY <1>5 DEF PipelineInvariant, Accounted
  <2>2. /\ offset[u] \in Nat /\ position[u] \in Nat /\ offset[u] <= position[u]
        /\ position[u] <= Len(Consumed(u)) /\ Len(Consumed(u)) \in Nat
    BY <1>1, <1>2, LengthGrows DEF PipelineInvariant, Cursors
  <2>3. ends \subseteq ends' /\ Dealt(u)' \subseteq Dealt(u)
    BY DEF Quiet, Dealt
  <2>4. offset[u] <= Len(Consumed(u))
    BY <2>2
  <2>5. DealtAccounted(u)'
    BY <1>1, <2>1, <2>2, <2>3, <2>4, DealtStays
  <2>6. CASE u = s
    <3>1. ASSUME state'[s] = "processing" PROVE first'[s] + 1 .. at'[s] = {}
      BY <3>1 DEF Quiet
    <3> QED BY <2>5, <2>6, <3>1 DEF OpenAccounted
  <2>7. CASE u # s
    <3>1. output'[u] = output[u] /\ first'[u] = first[u] /\ at'[u] = at[u] /\ state'[u] = state[u]
      BY <2>7 DEF OthersKept
    <3>2. Cursors
      BY DEF PipelineInvariant
    <3> QED BY <1>1, <2>1, <2>2, <2>3, <2>5, <3>1, <3>2, OpenStays
  <2> QED BY <2>6, <2>7
<1>6. Accounted'
  BY <1>5 DEF Accounted
<1> QED BY <1>1, <1>2, <1>3, <1>4, <1>6

LEMMA RowsStay ==
  ASSUME TopicsGrow, tree' = tree, Rows
  PROVE  Rows'
BY RowNamesStays DEF Rows

LEMMA WindowsStay ==
  ASSUME TopicsGrow, Windows,
         window' \in [Stages -> SUBSET Lines], \A s \in Stages : window'[s] \subseteq window[s]
  PROVE  Windows'
<1>1. ASSUME NEW s \in Stages, NEW l \in window'[s] PROVE Seen(s, l)'
  BY SeenStays DEF Windows
<1> QED BY <1>1 DEF Windows

-----------------------------------------------------------------------------
(* What is lost.                                                           *)

LEMMA SkippedElement ==
  /\ \A x \in Skipped : \E u \in Stages : \E o \in offset[u] .. Behind(u) - 1 : x = <<u, o>>
  /\ \A u \in Stages : \A o \in offset[u] .. Behind(u) - 1 : <<u, o>> \in Skipped
<1>1. ASSUME NEW x \in Skipped
      PROVE  \E u \in Stages : \E o \in offset[u] .. Behind(u) - 1 : x = <<u, o>>
  BY <1>1 DEF Skipped
<1>2. ASSUME NEW u \in Stages, NEW o \in offset[u] .. Behind(u) - 1 PROVE <<u, o>> \in Skipped
  <2> DEFINE own(v) == {<<v, p>> : p \in offset[v] .. Behind(v) - 1}
  <2>1. <<u, o>> \in own(u)
    OBVIOUS
  <2> QED BY <2>1 DEF Skipped
<1> QED BY <1>1, <1>2

LEMMA TimesGrows ==
  ASSUME NEW m \in Nat, NEW f \in Nat, NEW g \in {f, f + 1}
  PROVE  m * f <= m * g
<1>1. m * (f + 1) = m * f + m /\ m * f \in Nat
  OBVIOUS
<1>2. CASE g = f
  BY <1>1, <1>2
<1>3. CASE g = f + 1
  BY <1>1, <1>3
<1> QED BY <1>2, <1>3

(* A step that loses nothing that was not skipped before.                  *)
LEMMA LossesStay ==
  ASSUME PipelineAssumption, Cursors, Losses, faults' \in {faults, faults + 1},
         lost' \subseteq lost \cup Skipped,
         \A u \in Stages : \A o \in offset'[u] .. Behind(u)' - 1 : <<u, o>> \in lost \cup Skipped
  PROVE  Losses'
<1> DEFINE before == lost \cup Skipped
           after == lost' \cup Skipped'
<1>1. \A x \in Skipped' : \E u \in Stages : \E o \in offset'[u] .. Behind(u)' - 1 : x = <<u, o>>
  <2> SUFFICES ASSUME NEW x \in Skipped'
               PROVE  \E u \in Stages : \E o \in offset'[u] .. Behind(u)' - 1 : x = <<u, o>>
    OBVIOUS
  <2> QED BY DEF Skipped
<1>2. after \in SUBSET before
  BY <1>1
<1>3. IsFiniteSet(before) /\ Cardinality(before) <= MaxBatch * faults
      /\ \A x \in before : x[1][1] # "prefilter"
  BY DEF Losses
<1> HIDE DEF before
<1>4. /\ IsFiniteSet(after) /\ Cardinality(after) <= Cardinality(before)
      /\ Cardinality(before) \in Nat /\ Cardinality(after) \in Nat
  BY <1>2, <1>3, FS_Subset, FS_CardinalityType
<1>5. MaxBatch * faults <= MaxBatch * faults'
  <2>1. MaxBatch \in Nat /\ faults \in Nat
    BY DEF PipelineAssumption, Cursors
  <2> QED BY <2>1, TimesGrows
<1>6. Cardinality(after) <= MaxBatch * faults'
  <2>1. MaxBatch * faults \in Int /\ MaxBatch * faults' \in Int
    BY DEF PipelineAssumption, Cursors
  <2> QED BY <1>3, <1>4, <1>5, <2>1
<1>7. \A x \in after : x[1][1] # "prefilter"
  BY <1>2, <1>3
<1> QED BY <1>4, <1>6, <1>7 DEF Losses

(* A fault that makes one stage skip one batch.                            *)
LEMMA LossesMore ==
  ASSUME PipelineAssumption, Cursors, Losses, faults' = faults + 1, lost' = lost,
         NEW s \in Stages, s[1] # "prefilter", NEW a \in Nat, NEW b \in Nat, b - a <= MaxBatch,
         \A u \in Stages : \A o \in offset'[u] .. Behind(u)' - 1 :
           <<u, o>> \in Skipped \/ (u = s /\ o \in a .. b - 1)
  PROVE  Losses'
<1> DEFINE before == lost \cup Skipped
           after == lost' \cup Skipped'
           new == {<<s, o>> : o \in a .. b - 1}
<1>1. \A x \in Skipped' : \E u \in Stages : \E o \in offset'[u] .. Behind(u)' - 1 : x = <<u, o>>
  <2> SUFFICES ASSUME NEW x \in Skipped'
               PROVE  \E u \in Stages : \E o \in offset'[u] .. Behind(u)' - 1 : x = <<u, o>>
    OBVIOUS
  <2> QED BY DEF Skipped
<1>2. after \in SUBSET (before \cup new)
  BY <1>1
<1>3. IsFiniteSet(before) /\ Cardinality(before) <= MaxBatch * faults
      /\ \A x \in before : x[1][1] # "prefilter"
  BY DEF Losses
<1>4. IsFiniteSet(new) /\ Cardinality(new) \in Nat /\ Cardinality(new) <= MaxBatch
  <2> DEFINE f == [o \in a .. b - 1 |-> <<s, o>>]
             I == a .. b - 1
  <2>1. f \in Surjection(I, new)
    BY DEF Surjection
  <2>2. IsFiniteSet(I) /\ Cardinality(I) <= MaxBatch /\ Cardinality(I) \in Nat
    <3>1. a \in Int /\ b - 1 \in Int /\ MaxBatch \in Nat \ {0}
      BY DEF PipelineAssumption
    <3>2. IsFiniteSet(I) /\ Cardinality(I) = IF a > b - 1 THEN 0 ELSE (b - 1) - a + 1
      BY <3>1, FS_Interval
    <3> HIDE DEF I
    <3> QED BY <3>1, <3>2
  <2> HIDE DEF f, I, new
  <2>3. IsFiniteSet(new) /\ Cardinality(new) <= Cardinality(I)
    BY <2>1, <2>2, FS_Surjection
  <2>4. Cardinality(new) \in Nat
    BY <2>3, FS_CardinalityType
  <2> QED BY <2>2, <2>3, <2>4 DEF PipelineAssumption
<1>5. \A x \in new : x[1][1] # "prefilter"
  OBVIOUS
<1> HIDE DEF before, new
<1>6. /\ IsFiniteSet(before \cup new)
      /\ Cardinality(before \cup new) <= Cardinality(before) + Cardinality(new)
      /\ Cardinality(before) \in Nat /\ Cardinality(before \cup new) \in Nat
  <2>1. /\ IsFiniteSet(before \cup new)
        /\ Cardinality(before \cup new) =
             Cardinality(before) + Cardinality(new) - Cardinality(before \cap new)
    BY <1>3, <1>4, FS_Union
  <2>2. IsFiniteSet(before \cap new)
    BY <1>3, FS_Intersection
  <2>3. Cardinality(before \cap new) \in Nat /\ Cardinality(before) \in Nat
        /\ Cardinality(before \cup new) \in Nat
    BY <1>3, <2>1, <2>2, FS_CardinalityType
  <2> QED BY <1>4, <2>1, <2>3
<1>7. IsFiniteSet(after) /\ Cardinality(after) \in Nat /\ Cardinality(after) <= Cardinality(before \cup new)
  BY <1>2, <1>6, FS_Subset, FS_CardinalityType
<1>8. MaxBatch * (faults + 1) = MaxBatch * faults + MaxBatch /\ MaxBatch * faults \in Nat /\ MaxBatch \in Nat
  BY DEF PipelineAssumption, Cursors
<1>9. Cardinality(after) <= MaxBatch * faults'
  <2>1. Cardinality(after) <= MaxBatch * faults + MaxBatch
    BY <1>3, <1>4, <1>6, <1>7, <1>8
  <2> QED BY <1>8, <2>1
<1>10. \A x \in after : x[1][1] # "prefilter"
  BY <1>2, <1>3, <1>5
<1> QED BY <1>7, <1>9, <1>10 DEF Losses

(* Steps that change what is behind at one stage only.                     *)
LEMMA OthersBehind ==
  ASSUME NEW s \in Stages, OthersKept(s), NEW u \in Stages \ {s}
  PROVE  \A o \in offset'[u] .. Behind(u)' - 1 : <<u, o>> \in Skipped
<1>1. offset'[u] = offset[u] /\ Behind(u)' = Behind(u)
  BY DEF OthersKept, Behind
<1> QED BY <1>1, SkippedElement

-----------------------------------------------------------------------------
(* The steps that process nothing.                                         *)

LEMMA NoOutputFacts == DOMAIN NoOutput = Topics /\ \A t \in Topics : NoOutput[t] = <<>>
BY DEF NoOutput

LEMMA FetchStep ==
  ASSUME PipelineAssumption, PipelineInvariant, NEW s \in Stages, Fetch(s)
  PROVE  PipelineInvariant'
<1>1. /\ state[s] = "polling"
      /\ first' = [first EXCEPT ![s] = position[s]] /\ at' = [at EXCEPT ![s] = position[s]]
      /\ state' = [state EXCEPT ![s] = "processing"]
      /\ UNCHANGED <<config, topic, offset, output, lost, tree, ends, memory, window, faults>>
  BY DEF Fetch, records
<1>2. PICK n \in 1 .. MaxBatch : /\ position[s] + n <= Len(Consumed(s))
                                /\ position' = [position EXCEPT ![s] = @ + n]
  BY DEF Fetch
<1>3. Cursors /\ Losses /\ Shape
  BY DEF PipelineInvariant
<1>4. /\ position[s] \in Nat /\ n \in Nat /\ 1 <= n /\ n <= MaxBatch /\ offset[s] <= position[s]
      /\ MaxBatch \in Nat /\ offset[s] \in Nat
  BY <1>3 DEF Cursors, PipelineAssumption
<1>5. /\ first'[s] = position[s] /\ at'[s] = position[s] /\ position'[s] = position[s] + n
      /\ state'[s] = "processing" /\ OthersKept(s)
      /\ first' \in [Stages -> Nat] /\ at' \in [Stages -> Nat] /\ position' \in [Stages -> Nat]
      /\ state' \in [Stages -> {"polling", "processing", "down"}]
  BY <1>1, <1>2, <1>3, <1>4 DEF Cursors, OthersKept
<1>6. Quiet(s)
  <2>1. DOMAIN output = Stages /\ DOMAIN output[s] = Topics /\ \A t \in Topics : output[s][t] = <<>>
    BY <1>1, <1>3 DEF Shape
  <2> QED BY <1>1, <1>5, <2>1 DEF Quiet
<1>7. TopicsGrow /\ Shape' /\ Sources' /\ Unrepeated' /\ Accounted'
  BY <1>5, <1>6, QuietStep
<1>8. Cursors'
  <2>1. ASSUME NEW u \in Stages
        PROVE  /\ offset'[u] <= position'[u] /\ position'[u] <= Len(Consumed(u)')
               /\ memory'[u].lines = {}
               /\ state'[u] = "processing" =>
                    /\ offset'[u] <= first'[u] /\ first'[u] <= at'[u] /\ at'[u] <= position'[u]
                    /\ position'[u] - first'[u] <= MaxBatch
    <3>1. Consumed(u)' = Consumed(u) /\ offset' = offset /\ memory' = memory
      BY <1>1 DEF Consumed
    <3>2. CASE u = s
      BY <1>2, <1>3, <1>4, <1>5, <3>1, <3>2 DEF Cursors
    <3>3. CASE u # s
      BY <1>3, <1>5, <3>1, <3>3 DEF Cursors, OthersKept
    <3> QED BY <3>2, <3>3
  <2>2. config' \in Configurations /\ faults' \in Nat /\ offset' \in [Stages -> Nat] /\ DOMAIN memory' = Stages
    BY <1>1, <1>3 DEF Cursors
  <2> QED BY <1>5, <2>1, <2>2 DEF Cursors
<1>9. Windows' /\ Rows'
  BY <1>1, <1>7, WindowsStay, RowsStay DEF PipelineInvariant, Windows
<1>10. Losses'
  <2>1. ASSUME NEW u \in Stages, NEW o \in offset'[u] .. Behind(u)' - 1 PROVE <<u, o>> \in Skipped
    <3>1. CASE u = s
      <4>1. Behind(u)' = position[s] /\ Behind(u) = position[s] /\ offset'[u] = offset[u]
        BY <1>1, <1>5, <3>1 DEF Behind
      <4> QED BY <4>1, SkippedElement
    <3>2. CASE u # s
      BY <1>5, <3>2, OthersBehind
    <3> QED BY <3>1, <3>2
  <2>2. faults' \in {faults, faults + 1} /\ lost' \subseteq lost \cup Skipped
    BY <1>1
  <2> QED BY <1>3, <2>1, <2>2, LossesStay
<1> QED BY <1>7, <1>8, <1>9, <1>10 DEF PipelineInvariant

(* The transaction is dropped, and nothing else is skipped.                *)
LEMMA DroppedStep ==
  ASSUME PipelineAssumption, PipelineInvariant, NEW s \in Stages,
         UNCHANGED <<config, topic, offset, first, at, lost, tree, ends>>,
         DOMAIN output' = Stages, DOMAIN output'[s] = Topics, \A t \in Topics : output'[s][t] = <<>>,
         OthersKept(s),
         state' \in [Stages -> {"polling", "processing", "down"}], state'[s] \in {"polling", "down"},
         position' \in [Stages -> Nat],
         position'[s] = offset[s] \/ (position'[s] = position[s] /\ state'[s] = "down"),
         DOMAIN memory' = Stages, \A u \in Stages : memory'[u].lines = {},
         window' \in [Stages -> SUBSET Lines], \A u \in Stages : window'[u] \subseteq window[u],
         faults' \in {faults, faults + 1}
  PROVE  PipelineInvariant'
<1>1. Cursors /\ Losses /\ Rows /\ Windows
  BY DEF PipelineInvariant
<1>2. Quiet(s)
  BY DEF Quiet
<1>3. at' \in [Stages -> Nat] /\ offset[s] \in Nat /\ offset[s] <= position[s]
  BY <1>1 DEF Cursors
<1>4. TopicsGrow /\ Shape' /\ Sources' /\ Unrepeated' /\ Accounted'
  BY <1>2, <1>3, QuietStep
<1>5. Cursors'
  <2>1. ASSUME NEW u \in Stages
        PROVE  /\ offset'[u] <= position'[u] /\ position'[u] <= Len(Consumed(u)')
               /\ state'[u] = "processing" =>
                    /\ offset'[u] <= first'[u] /\ first'[u] <= at'[u] /\ at'[u] <= position'[u]
                    /\ position'[u] - first'[u] <= MaxBatch
    <3>1. Consumed(u)' = Consumed(u) /\ offset' = offset /\ Len(Consumed(u)) \in Nat
      BY <1>4, LengthGrows DEF Consumed, PipelineInvariant
    <3>2. CASE u = s
      <4>1. offset[s] \in Nat /\ position[s] \in Nat /\ position[s] <= Len(Consumed(s)) /\ offset[s] <= position[s]
        BY <1>1 DEF Cursors
      <4> QED BY <3>1, <3>2, <4>1
    <3>3. CASE u # s
      <4>1. /\ state'[u] = state[u] /\ position'[u] = position[u] /\ first'[u] = first[u] /\ at'[u] = at[u]
        BY <3>3 DEF OthersKept
      <4> QED BY <1>1, <3>1, <4>1 DEF Cursors
    <3> QED BY <3>2, <3>3
  <2>2. /\ config' \in Configurations /\ faults' \in Nat /\ offset' \in [Stages -> Nat]
        /\ first' \in [Stages -> Nat] /\ at' \in [Stages -> Nat]
    BY <1>1 DEF Cursors
  <2> QED BY <2>1, <2>2 DEF Cursors
<1>6. Windows' /\ Rows'
  BY <1>1, <1>4, WindowsStay, RowsStay
<1>7. Losses'
  <2>1. ASSUME NEW u \in Stages, NEW o \in offset'[u] .. Behind(u)' - 1 PROVE <<u, o>> \in Skipped
    <3>1. CASE u = s
      <4>1. Behind(s)' = offset[s] /\ offset'[s] = offset[s]
        BY DEF Behind
      <4> QED BY <1>3, <2>1, <3>1, <4>1
    <3>2. CASE u # s
      BY <3>2, OthersBehind
    <3> QED BY <3>1, <3>2
  <2> QED BY <1>1, <2>1, LossesStay
<1> QED BY <1>4, <1>5, <1>6, <1>7 DEF PipelineInvariant

LEMMA AbortStep ==
  ASSUME PipelineAssumption, PipelineInvariant, NEW s \in Stages, Abort(s)
  PROVE  PipelineInvariant'
<1>1. /\ output' = [output EXCEPT ![s] = NoOutput] /\ position' = [position EXCEPT ![s] = offset[s]]
      /\ state' = [state EXCEPT ![s] = "polling"] /\ faults' = faults + 1
      /\ UNCHANGED <<config, topic, offset, first, at, lost, tree, ends, memory, window>>
  BY DEF Abort, Fault, records
<1>2. Cursors /\ Shape /\ Windows
  BY DEF PipelineInvariant
<1>3. /\ DOMAIN output' = Stages /\ DOMAIN output'[s] = Topics /\ \A t \in Topics : output'[s][t] = <<>>
      /\ \A u \in Stages \ {s} : output'[u] = output[u]
  BY <1>1, <1>2, NoOutputFacts DEF Shape
<1>4. /\ position' \in [Stages -> Nat] /\ position'[s] = offset[s]
      /\ state' \in [Stages -> {"polling", "processing", "down"}] /\ state'[s] = "polling"
      /\ OthersKept(s)
  BY <1>1, <1>2, <1>3 DEF Cursors, OthersKept
<1>5. /\ DOMAIN memory' = Stages /\ \A u \in Stages : memory'[u].lines = {}
      /\ window' \in [Stages -> SUBSET Lines] /\ \A u \in Stages : window'[u] \subseteq window[u]
  BY <1>1, <1>2 DEF Cursors, Windows
<1> QED BY <1>1, <1>3, <1>4, <1>5, DroppedStep

LEMMA CrashStep ==
  ASSUME PipelineAssumption, PipelineInvariant, NEW s \in Stages, Crash(s)
  PROVE  PipelineInvariant'
<1>1. /\ output' = [output EXCEPT ![s] = NoOutput]
      /\ state' = [state EXCEPT ![s] = "down"] /\ faults' = faults + 1
      /\ UNCHANGED <<config, topic, offset, position, first, at, lost, tree, ends, memory, window>>
  BY DEF Crash, Fault, records
<1>2. Cursors /\ Shape /\ Windows
  BY DEF PipelineInvariant
<1>3. /\ DOMAIN output' = Stages /\ DOMAIN output'[s] = Topics /\ \A t \in Topics : output'[s][t] = <<>>
      /\ \A u \in Stages \ {s} : output'[u] = output[u]
  BY <1>1, <1>2, NoOutputFacts DEF Shape
<1>4. /\ position' \in [Stages -> Nat] /\ position'[s] = position[s]
      /\ state' \in [Stages -> {"polling", "processing", "down"}] /\ state'[s] = "down"
      /\ OthersKept(s)
  BY <1>1, <1>2, <1>3 DEF Cursors, OthersKept
<1>5. /\ DOMAIN memory' = Stages /\ \A u \in Stages : memory'[u].lines = {}
      /\ window' \in [Stages -> SUBSET Lines] /\ \A u \in Stages : window'[u] \subseteq window[u]
  BY <1>1, <1>2 DEF Cursors, Windows
<1> QED BY <1>1, <1>3, <1>4, <1>5, DroppedStep

LEMMA RestartStep ==
  ASSUME PipelineAssumption, PipelineInvariant, NEW s \in Stages, Restart(s)
  PROVE  PipelineInvariant'
<1>1. /\ state[s] = "down" /\ state' = [state EXCEPT ![s] = "polling"]
      /\ position' = [position EXCEPT ![s] = offset[s]]
      /\ memory' = [memory EXCEPT ![s] = NothingInMemory] /\ window' = [window EXCEPT ![s] = {}]
      /\ UNCHANGED <<config, topic, offset, first, at, output, lost, tree, ends, faults>>
  BY DEF Restart
<1>2. Cursors /\ Shape /\ Windows
  BY DEF PipelineInvariant
<1>3. /\ DOMAIN output' = Stages /\ DOMAIN output'[s] = Topics /\ \A t \in Topics : output'[s][t] = <<>>
      /\ \A u \in Stages \ {s} : output'[u] = output[u]
  BY <1>1, <1>2 DEF Shape
<1>4. /\ position' \in [Stages -> Nat] /\ position'[s] = offset[s]
      /\ state' \in [Stages -> {"polling", "processing", "down"}] /\ state'[s] = "polling"
      /\ OthersKept(s)
  BY <1>1, <1>2, <1>3 DEF Cursors, OthersKept
<1>5. /\ DOMAIN memory' = Stages /\ \A u \in Stages : memory'[u].lines = {}
      /\ window' \in [Stages -> SUBSET Lines] /\ \A u \in Stages : window'[u] \subseteq window[u]
  BY <1>1, <1>2 DEF Cursors, Windows, NothingInMemory, Batch
<1> QED BY <1>1, <1>3, <1>4, <1>5, DroppedStep

-----------------------------------------------------------------------------
(* The steps that process a record.                                        *)

LEMMA RowsRecorded ==
  ASSUME PipelineAssumption, RoutingAssumption, PipelineInvariant, TopicsGrow,
         NEW s \in Stages, NEW m, AtHand(s, m), NEW new, tree' = tree \cup new,
         \A x \in new : RowOf(s, m, x)
  PROVE  Rows'
<1> DEFINE n == at[s] + 1
<1>1. n \in 1 .. Len(Consumed(s)) /\ m = Consumed(s)[n] /\ m.lines # {}
  BY DEF AtHand
<1>2. n \in 1 .. Len(Consumed(s)') /\ Consumed(s)'[n] = m
  BY <1>1, ConsumedGrows
<1>3. s[1] # "prefilter" => s[1] = "alerter" \/ InTree(m.parent, m.batch)
  BY <1>1, RecordFacts DEF PipelineInvariant
<1>4. ASSUME NEW x \in new PROVE RowNames(x)'
  <2>1. s[1] # "prefilter" => InTree(m.parent, m.batch)'
    BY <1>3, <1>4 DEF InTree, RowOf
  <2>2. x.row[1] = s /\ x.parent = m.parent
        /\ (x.batch = m.batch \/ (s[1] = "inspector" /\ x.row[3] = "finished"))
    BY <1>4 DEF RowOf
  <2> HIDE DEF n
  <2> QED BY <1>1, <1>2, <2>1, <2>2 DEF RowNames, InTree
<1>5. ASSUME NEW x \in tree PROVE RowNames(x)'
  BY <1>5, RowNamesStays DEF PipelineInvariant, Rows
<1> QED BY <1>4, <1>5 DEF Rows

LEMMA WindowRemembers ==
  ASSUME PipelineInvariant, TopicsGrow, NEW s \in Stages, NEW m, AtHand(s, m),
         Remember(s, m) \/ UNCHANGED window
  PROVE  Windows'
<1>1. window \in [Stages -> SUBSET Lines] /\ m.lines \subseteq Lines
  BY DEF PipelineInvariant, Windows, AtHand
<1>2. /\ window' \in [Stages -> SUBSET Lines]
      /\ \A u \in Stages : window'[u] \subseteq window[u] \/ (u = s /\ window'[u] = window[u] \cup m.lines)
  BY <1>1 DEF Remember
<1>3. ASSUME NEW u \in Stages, NEW l \in window'[u] PROVE Seen(u, l)
  <2>1. CASE l \in window[u]
    BY <2>1 DEF PipelineInvariant, Windows
  <2>2. CASE u = s /\ l \in m.lines
    BY <2>2 DEF AtHand, Seen
  <2> QED BY <1>2, <2>1, <2>2
<1>4. ASSUME NEW u \in Stages, NEW l \in window'[u] PROVE Seen(u, l)'
  BY <1>3, SeenStays
<1> QED BY <1>2, <1>4 DEF Windows

LEMMA RaiseStep ==
  ASSUME PipelineAssumption, RoutingAssumption, PipelineInvariant, NEW s \in Stages, Raise(s)
  PROVE  PipelineInvariant'
<1> DEFINE m == Filled(s, Consumed(s)[at[s] + 1])
<1>1. /\ state[s] = "processing" /\ at[s] < position[s] /\ faults' = faults + 1
      /\ memory' = [memory EXCEPT ![s] = Cleared(m)]
      /\ output' = [output EXCEPT ![s] = NoOutput]
      /\ UNCHANGED <<config, topic, offset, position, first, at, lost>>
  BY DEF Raise, Fault
<1>2. \/ state' = [state EXCEPT ![s] = "polling"] /\ s[1] # "prefilter"
      \/ state' = [state EXCEPT ![s] = "down"]
  BY DEF Raise
<1>3. \/ RecordRows(s, InProcess(s, m), {}) /\ (UNCHANGED window \/ Remember(s, m))
      \/ /\ \E result \in Results(s, m) :
              RecordRows(s, InProcess(s, m) \cup result.rows, result.ended)
         /\ Remember(s, m)
  BY DEF Raise
<1>4. Cursors /\ Shape /\ Sources /\ Windows /\ Losses
  BY DEF PipelineInvariant
<1>5. AtHand(s, m)
  BY <1>1, <1>4, PickedUp
<1> HIDE DEF m
<1>6. \E new : /\ tree' = tree \cup new /\ ends \subseteq ends'
               /\ \A x \in new : RowOf(s, m, x)
  <2>1. ASSUME RecordRows(s, InProcess(s, m), {})
        PROVE  /\ tree' = tree \cup InProcess(s, m) /\ ends \subseteq ends'
    BY <2>1 DEF RecordRows
  <2>2. ASSUME NEW result \in Results(s, m),
               RecordRows(s, InProcess(s, m) \cup result.rows, result.ended)
        PROVE  /\ tree' = tree \cup (InProcess(s, m) \cup result.rows) /\ ends \subseteq ends'
               /\ GoodResult(s, m, result)
    <3>1. GoodResult(s, m, result)
      <4>1. window[s] \subseteq Lines /\ \A l \in window[s] : Seen(s, l)
        BY <1>4 DEF Windows
      <4>2. config \in Configuration /\ IsFiniteSet(Lines)
        BY <1>4 DEF Cursors, PipelineAssumption
      <4> QED BY <1>5, <4>1, <4>2, StageSends
    <3> QED BY <2>2, <3>1 DEF RecordRows
  <2>3. ASSUME RecordRows(s, InProcess(s, m), {})
        PROVE  \A x \in InProcess(s, m) : RowOf(s, m, x)
    BY InProcessRows
  <2>4. ASSUME NEW result, GoodResult(s, m, result), NEW x \in InProcess(s, m) \cup result.rows
        PROVE  RowOf(s, m, x)
    BY <2>4 DEF GoodResult
  <2>5. CASE RecordRows(s, InProcess(s, m), {})
    <3> WITNESS InProcess(s, m)
    <3> QED BY <2>1, <2>3, <2>5
  <2>6. ASSUME NEW result \in Results(s, m),
               RecordRows(s, InProcess(s, m) \cup result.rows, result.ended)
        PROVE  \E new : /\ tree' = tree \cup new /\ ends \subseteq ends'
               /\ \A x \in new : RowOf(s, m, x)
    <3> WITNESS InProcess(s, m) \cup result.rows
    <3> QED BY <2>2, <2>4, <2>6
  <2> QED BY <1>3, <2>5, <2>6
<1>7. /\ DOMAIN output' = Stages /\ DOMAIN output'[s] = Topics /\ \A t \in Topics : output'[s][t] = <<>>
      /\ \A u \in Stages \ {s} : output'[u] = output[u]
  BY <1>1, <1>4, NoOutputFacts DEF Shape
<1>8. /\ state' \in [Stages -> {"polling", "processing", "down"}] /\ state'[s] # "processing"
      /\ state'[s] = "polling" => s[1] # "prefilter"
      /\ \A u \in Stages \ {s} : state'[u] = state[u]
  BY <1>2, <1>4 DEF Cursors
<1>9. OthersKept(s)
  BY <1>1, <1>7, <1>8 DEF OthersKept
<1>10. Quiet(s)
  BY <1>1, <1>6, <1>7, <1>8 DEF Quiet
<1>11. TopicsGrow /\ Shape' /\ Sources' /\ Unrepeated' /\ Accounted'
  <2>1. at' \in [Stages -> Nat]
    BY <1>1, <1>4 DEF Cursors
  <2> QED BY <1>9, <1>10, <2>1, QuietStep
<1>12. Cursors'
  <2>1. DOMAIN memory' = Stages /\ \A u \in Stages : memory'[u].lines = {}
    <3>1. Cleared(m).lines = {}
      BY <1>5 DEF Cleared, AtHand, Batch
    <3> QED BY <1>1, <1>4, <3>1 DEF Cursors
  <2>2. ASSUME NEW u \in Stages
        PROVE  /\ offset'[u] <= position'[u] /\ position'[u] <= Len(Consumed(u)')
               /\ state'[u] = "processing" =>
                    /\ offset'[u] <= first'[u] /\ first'[u] <= at'[u] /\ at'[u] <= position'[u]
                    /\ position'[u] - first'[u] <= MaxBatch
    <3>1. Consumed(u)' = Consumed(u) /\ state'[u] = "processing" => state[u] = "processing"
      BY <1>1, <1>8 DEF Consumed
    <3>2. UNCHANGED <<offset, position, first, at>> /\ Consumed(u)' = Consumed(u)
      BY <1>1 DEF Consumed
    <3>3. state'[u] = "processing" => state[u] = "processing"
      BY <1>8
    <3> QED BY <1>4, <3>2, <3>3 DEF Cursors
  <2>3. /\ config' \in Configurations /\ faults' \in Nat /\ offset' \in [Stages -> Nat]
        /\ position' \in [Stages -> Nat] /\ first' \in [Stages -> Nat] /\ at' \in [Stages -> Nat]
    BY <1>1, <1>4 DEF Cursors
  <2> QED BY <1>8, <2>1, <2>2, <2>3 DEF Cursors
<1>13. Windows'
  <2>1. Remember(s, m) \/ UNCHANGED window
    BY <1>3
  <2> QED BY <1>5, <1>11, <2>1, WindowRemembers
<1>14. Rows'
  BY <1>5, <1>6, <1>11, RowsRecorded
<1>15. Losses'
  <2>1. /\ first[s] \in Nat /\ position[s] \in Nat /\ offset[s] \in Nat
        /\ position[s] - first[s] <= MaxBatch /\ Behind(s) = first[s]
    BY <1>1, <1>4 DEF Cursors, Behind
  <2>2. offset'[s] = offset[s] /\ position'[s] = position[s]
    BY <1>1
  <2>3. ASSUME state'[s] = "polling" PROVE Losses'
    <3>1. Behind(s)' = position[s] /\ s[1] # "prefilter"
      BY <1>8, <2>2, <2>3 DEF Behind
    <3>2. ASSUME NEW u \in Stages, NEW o \in offset'[u] .. Behind(u)' - 1
          PROVE  <<u, o>> \in Skipped \/ (u = s /\ o \in first[s] .. position[s] - 1)
      <4>1. CASE u # s
        BY <1>9, <4>1, OthersBehind
      <4>2. CASE u = s /\ o < first[s]
        <5>1. o \in offset[s] .. Behind(s) - 1
          BY <2>1, <2>2, <3>2, <4>2
        <5> QED BY <4>2, <5>1, SkippedElement
      <4>3. CASE u = s /\ ~(o < first[s])
        <5>1. o \in first[s] .. position[s] - 1
          BY <2>1, <2>2, <3>1, <3>2, <4>3
        <5> QED BY <4>3, <5>1
      <4> QED BY <4>1, <4>2, <4>3
    <3> QED BY <1>1, <1>4, <2>1, <3>1, <3>2, LossesMore
  <2>4. ASSUME state'[s] = "down" PROVE Losses'
    <3>1. Behind(s)' = offset[s]
      BY <2>2, <2>4 DEF Behind
    <3>2. ASSUME NEW u \in Stages, NEW o \in offset'[u] .. Behind(u)' - 1
          PROVE  <<u, o>> \in lost \cup Skipped
      <4>1. CASE u # s
        BY <1>9, <4>1, OthersBehind
      <4>2. CASE u = s
        BY <2>1, <2>2, <3>1, <3>2, <4>2
      <4> QED BY <4>1, <4>2
    <3>3. faults' \in {faults, faults + 1} /\ lost' \subseteq lost \cup Skipped
      BY <1>1
    <3> QED BY <1>4, <3>2, <3>3, LossesStay
  <2> QED BY <1>8, <2>3, <2>4
<1> QED BY <1>11, <1>12, <1>13, <1>14, <1>15 DEF PipelineInvariant

LEMMA ProcessStep ==
  ASSUME PipelineAssumption, RoutingAssumption, PipelineInvariant, NEW s \in Stages, Process(s)
  PROVE  PipelineInvariant'
<1> DEFINE m == Filled(s, Consumed(s)[at[s] + 1])
<1>a. PICK n \in Nat : n = at[s] + 1
  <2>1. at[s] \in Nat
    BY DEF PipelineInvariant, Cursors
  <2> QED BY <2>1
<1>1. /\ state[s] = "processing" /\ at[s] < position[s]
      /\ at' = [at EXCEPT ![s] = @ + 1]
      /\ UNCHANGED <<config, topic, offset, position, first, state, lost, faults>>
  BY DEF Process
<1>2. PICK result \in Results(s, m) :
        /\ RecordRows(s, InProcess(s, m) \cup result.rows, result.ended)
        /\ output' = [output EXCEPT ![s] = [t \in Topics |-> @[t] \o SetToSeq(SentTo(result, t))]]
        /\ memory' = [memory EXCEPT ![s] = Cleared(m)]
        /\ Remember(s, m)
  BY DEF Process
<1>3. Cursors /\ Shape /\ Sources /\ Windows /\ Losses /\ Unrepeated /\ Accounted
  BY DEF PipelineInvariant
<1>4. AtHand(s, m) /\ m = Consumed(s)[n]
  BY <1>a, <1>1, <1>3, PickedUp
<1> HIDE DEF m
<1>5. GoodResult(s, m, result)
  <2>1. window[s] \subseteq Lines /\ \A l \in window[s] : Seen(s, l)
    BY <1>3 DEF Windows
  <2>2. config \in Configuration /\ IsFiniteSet(Lines)
    BY <1>3 DEF Cursors, PipelineAssumption
  <2> QED BY <1>4, <2>1, <2>2, StageSends
<1>6. /\ tree' = tree \cup (InProcess(s, m) \cup result.rows)
      /\ ends' = ends \cup result.ended
  BY <1>2 DEF RecordRows
<1>7. TopicsGrow
  BY <1>1 DEF TopicsGrow
<1> DEFINE sent(t) == SetToSeq(SentTo(result, t))
<1>8. ASSUME NEW t \in Topics
      PROVE  /\ IsSeq(sent(t)) /\ Len(sent(t)) \in Nat
             /\ \A i \in 1 .. Len(sent(t)) :
                  /\ MadeFrom(t, s, n, sent(t)[i])
                  /\ Named(result.rows, t, sent(t)[i]) /\ Marked(result.ended, t, sent(t)[i])
             /\ \A x \in SentTo(result, t) : \E i \in 1 .. Len(sent(t)) : sent(t)[i] = x
             /\ \A i, j \in 1 .. Len(sent(t)) : i # j => Apart(t, sent(t)[i], sent(t)[j])
  <2>1. /\ IsFiniteSet(SentTo(result, t))
        /\ \A x \in SentTo(result, t) : /\ MadeFrom(t, s, n, x)
                                         /\ Named(result.rows, t, x) /\ Marked(result.ended, t, x)
        /\ \A x, y \in SentTo(result, t) : x # y => Apart(t, x, y)
    BY <1>a, <1>5 DEF GoodResult
  <2>2. /\ IsSeq(sent(t)) /\ Len(sent(t)) \in Nat
        /\ \A i \in 1 .. Len(sent(t)) : sent(t)[i] \in SentTo(result, t)
        /\ \A x \in SentTo(result, t) : \E i \in 1 .. Len(sent(t)) : sent(t)[i] = x
        /\ \A i, j \in 1 .. Len(sent(t)) : i # j => sent(t)[i] # sent(t)[j]
    BY <2>1, SetToSeqFacts
  <2> HIDE DEF sent
  <2> QED BY <2>1, <2>2
<1>9. /\ DOMAIN output' = Stages /\ DOMAIN output'[s] = Topics
      /\ \A t \in Topics : output'[s][t] = output[s][t] \o sent(t)
      /\ \A u \in Stages \ {s} : output'[u] = output[u]
  BY <1>2, <1>3 DEF Shape
<1> HIDE DEF sent
<1>10. OthersKept(s)
  BY <1>1, <1>9 DEF OthersKept
<1>11. ASSUME NEW t \in Topics
       PROVE  /\ IsSeq(output[s][t]) /\ IsSeq(output'[s][t])
              /\ Len(output[s][t]) \in Nat /\ Len(output'[s][t]) = Len(output[s][t]) + Len(sent(t))
              /\ \A i \in 1 .. Len(output[s][t]) :
                   i \in 1 .. Len(output'[s][t]) /\ output'[s][t][i] = output[s][t][i]
              /\ \A i \in 1 .. Len(sent(t)) :
                   /\ Len(output[s][t]) + i \in 1 .. Len(output'[s][t])
                   /\ output'[s][t][Len(output[s][t]) + i] = sent(t)[i]
              /\ \A i \in 1 .. Len(output'[s][t]) :
                   \/ i \in 1 .. Len(output[s][t])
                   \/ /\ i - Len(output[s][t]) \in 1 .. Len(sent(t))
                      /\ output'[s][t][i] = sent(t)[i - Len(output[s][t])]
  <2>1. IsSeq(output[s][t]) /\ IsSeq(sent(t)) /\ output'[s][t] = output[s][t] \o sent(t)
    BY <1>3, <1>8, <1>9 DEF Shape
  <2> QED BY <2>1, ConcatFacts
<1>12. /\ at[s] \in Nat /\ first[s] \in Nat /\ position[s] \in Nat /\ offset[s] \in Nat
       /\ first[s] <= at[s] /\ at'[s] = at[s] + 1 /\ n = at[s] + 1
       /\ at' \in [Stages -> Nat] /\ first'[s] = first[s]
  BY <1>a, <1>1, <1>3 DEF Cursors
<1>13. Shape'
  <2>1. ASSUME NEW u \in Stages
        PROVE  /\ DOMAIN output'[u] = Topics /\ \A t \in Topics : IsSeq(output'[u][t])
               /\ state'[u] # "processing" => \A t \in Topics : output'[u][t] = <<>>
    <3>1. CASE u = s
      <4>1. DOMAIN output'[s] = Topics /\ \A t \in Topics : IsSeq(output'[s][t])
        BY <1>9, <1>11
      <4> QED BY <1>1, <3>1, <4>1
    <3>2. CASE u # s
      <4>1. output'[u] = output[u] /\ state'[u] = state[u]
        BY <1>1, <1>9, <3>2
      <4> QED BY <1>3, <4>1 DEF Shape
    <3> QED BY <3>1, <3>2
  <2>2. /\ DOMAIN topic' = Topics /\ \A t \in Topics : IsSeq(topic'[t])
        /\ \A p \in Prefilters :
             topic'[<<"prefilter", p>>] = [k \in 1 .. Len(Collected[p]) |-> FromCollector(p, k)]
    BY <1>1, <1>3 DEF Shape
  <2> QED BY <1>9, <2>1, <2>2 DEF Shape
<1>14. ASSUME NEW t \in Topics, NEW i \in 1 .. Len(output'[s][t])
       PROVE  OutputSource(s, t, output[s][t][i])'
  <2>1. tree \subseteq tree' /\ result.rows \subseteq tree' /\ ends \subseteq ends' /\ result.ended \subseteq ends'
    BY <1>6
  <2>2. CASE i \in 1 .. Len(output[s][t])
    <3>1. OutputSource(s, t, output[s][t][i])
      BY <1>3, <2>2 DEF Sources
    <3>2. ASSUME NEW x, OutputSource(s, t, x) PROVE OutputSource(s, t, x)'
      <4>1. at[s] \in Nat /\ at'[s] \in Nat /\ first'[s] = first[s] /\ at[s] <= at'[s]
        BY <1>12
      <4> QED BY <1>7, <2>1, <3>2, <4>1, OutputSourceStays
    <3>3. output'[s][t][i] = output[s][t][i]
      BY <1>11, <2>2
    <3> QED BY <3>1, <3>2, <3>3 DEF OutputSource
  <2>3. CASE i \notin 1 .. Len(output[s][t])
    <3>1. PICK j \in 1 .. Len(sent(t)) : output'[s][t][i] = sent(t)[j]
      BY <1>11, <2>3
    <3>2. ASSUME NEW x, MadeFrom(t, s, n, x), Named(result.rows, t, x), Marked(result.ended, t, x)
          PROVE  OutputSource(s, t, x)'
      <4>1. MadeFrom(t, s, n, x)' /\ x.origin[2] = n
        <5>1. \A k : MadeFrom(t, s, k, x) => MadeFrom(t, s, k, x)'
          BY <1>7, MadeFromStays
        <5>2. x.origin[2] = n
          BY <3>2 DEF MadeFrom
        <5> QED BY <3>2, <5>1, <5>2
      <4>2. Named(tree, t, x)'
        BY <2>1, <3>2 DEF Named
      <4>3. first'[s] < n /\ n <= at'[s]
        BY <1>12
      <4>4. Marked(ends, t, x)'
        <5>1. x.origin[1] = s /\ x.origin[2] = n /\ Consumed(s)'[n] = Consumed(s)[n]
          BY <1>7, <3>2, ConsumedGrows DEF MadeFrom
        <5>2. t[1] = "alerter" => \A l \in Consumed(s)[n].lines : <<l, s, "detected">> \in result.ended
          BY <3>2, <5>1 DEF Marked
        <5> QED BY <2>1, <5>1, <5>2 DEF Marked
      <4> QED BY <4>1, <4>2, <4>3, <4>4 DEF OutputSource
    <3> QED BY <1>8, <3>1, <3>2 DEF OutputSource
  <2> QED BY <2>2, <2>3
<1>15. Sources'
  <2>1. ASSUME NEW t \in Topics, t[1] # "prefilter", NEW i \in 1 .. Len(topic'[t])
        PROVE  TopicSource(t, topic[t][i])'
    <3>1. i \in 1 .. Len(topic[t]) /\ topic'[t][i] = topic[t][i]
      BY <1>1
    <3>2. TopicSource(t, topic[t][i])
      BY <1>3, <2>1, <3>1 DEF Sources
    <3>3. /\ offset \in [Stages -> Nat] /\ offset' \in [Stages -> Nat] /\ tree \subseteq tree'
          /\ ends \subseteq ends' /\ \A u \in Stages : offset[u] <= offset'[u]
      BY <1>1, <1>3, <1>6 DEF Cursors
    <3>4. ASSUME NEW x, TopicSource(t, x) PROVE TopicSource(t, x)'
      BY <1>7, <3>3, <3>4, TopicSourceStays
    <3> QED BY <3>1, <3>2, <3>4 DEF TopicSource
  <2>2. ASSUME NEW u \in Stages \ {s}, NEW t \in Topics, NEW i \in 1 .. Len(output'[u][t])
        PROVE  OutputSource(u, t, output[u][t][i])'
    <3>1. /\ output'[u] = output[u] /\ first'[u] = first[u] /\ at'[u] = at[u] /\ at[u] \in Nat
          /\ tree \subseteq tree' /\ ends \subseteq ends' /\ at'[u] \in Nat
      BY <1>3, <1>6, <1>10 DEF OthersKept, Cursors
    <3>2. OutputSource(u, t, output[u][t][i])
      BY <1>3, <2>2, <3>1 DEF Sources
    <3>3. ASSUME NEW x, OutputSource(u, t, x) PROVE OutputSource(u, t, x)'
      BY <1>7, <3>1, <3>3, OutputSourceStays
    <3> QED BY <3>1, <3>2, <3>3 DEF OutputSource
  <2> QED BY <1>14, <2>1, <2>2 DEF Sources
<1>16. Unrepeated'
  <2>1. \A t \in Topics : Distinct(t, topic[t])'
    BY <1>1, <1>3 DEF Unrepeated, Distinct
  <2>2. ASSUME NEW u \in Stages \ {s}, NEW t \in Topics PROVE Distinct(t, output[u][t])'
    <3>1. output'[u][t] = output[u][t] /\ Distinct(t, output[u][t])
      BY <1>3, <1>9 DEF Unrepeated
    <3> QED BY <3>1 DEF Distinct
  <2>3. ASSUME NEW t \in Topics PROVE Distinct(t, output[s][t])'
    <3> DEFINE old == output[s][t]
               new == output'[s][t]
               differ(x, y) == x.origin # y.origin \/ Apart(t, x, y)
    <3>1. \A i, j \in 1 .. Len(old) : i # j => differ(old[i], old[j])
      BY <1>3 DEF Unrepeated, Distinct
    <3>2. \A i \in 1 .. Len(old) : old[i].origin[2] <= at[s]
      BY <1>3 DEF Sources, OutputSource
    <3>3. \A i \in 1 .. Len(sent(t)) : sent(t)[i].origin = <<s, n>>
      BY <1>8 DEF MadeFrom
    <3>4. ~(n <= at[s])
      BY <1>12
    <3>5. \A i \in 1 .. Len(old) : \A j \in 1 .. Len(sent(t)) : old[i].origin # sent(t)[j].origin
      BY <3>2, <3>3, <3>4
    <3>6. \A i, j \in 1 .. Len(sent(t)) : i # j => differ(sent(t)[i], sent(t)[j])
      BY <1>8
    <3>7. ASSUME NEW i \in 1 .. Len(new), NEW j \in 1 .. Len(new), i # j
          PROVE  differ(new[i], new[j])
      <4>1. \A k \in 1 .. Len(new) : \/ k \in 1 .. Len(old) /\ new[k] = old[k]
                                     \/ k - Len(old) \in 1 .. Len(sent(t)) /\ new[k] = sent(t)[k - Len(old)]
        BY <1>11
      <4>2. Len(old) \in Nat /\ i \in Int /\ j \in Int
        BY <1>11, <3>7
      <4>3. i - Len(old) # j - Len(old)
        BY <3>7, <4>2
      <4> HIDE DEF old, new
      <4>4. CASE i \in 1 .. Len(old) /\ new[i] = old[i] /\ j \in 1 .. Len(old) /\ new[j] = old[j]
        BY <3>1, <3>7, <4>4
      <4>5. CASE /\ i \in 1 .. Len(old) /\ new[i] = old[i]
                 /\ j - Len(old) \in 1 .. Len(sent(t)) /\ new[j] = sent(t)[j - Len(old)]
        BY <3>5, <4>5
      <4>6. CASE /\ j \in 1 .. Len(old) /\ new[j] = old[j]
                 /\ i - Len(old) \in 1 .. Len(sent(t)) /\ new[i] = sent(t)[i - Len(old)]
        BY <3>5, <4>6
      <4>7. CASE /\ j - Len(old) \in 1 .. Len(sent(t)) /\ new[j] = sent(t)[j - Len(old)]
                 /\ i - Len(old) \in 1 .. Len(sent(t)) /\ new[i] = sent(t)[i - Len(old)]
        BY <3>6, <4>3, <4>7
      <4> QED BY <4>1, <4>4, <4>5, <4>6, <4>7
    <3> QED BY <3>7 DEF Distinct
  <2> QED BY <2>1, <2>2, <2>3 DEF Unrepeated
<1>17. ASSUME NEW u \in Stages, u[1] # "alerter" PROVE DealtAccounted(u)' /\ OpenAccounted(u)'
  <2>1. DealtAccounted(u) /\ OpenAccounted(u)
    BY <1>3, <1>17 DEF Accounted
  <2>2. /\ offset[u] \in Nat /\ position[u] \in Nat /\ offset[u] <= position[u]
        /\ position[u] <= Len(Consumed(u)) /\ Len(Consumed(u)) \in Nat
    BY <1>3, <1>7, <1>13, LengthGrows DEF Cursors
  <2>3. ends \subseteq ends' /\ Dealt(u)' \subseteq Dealt(u) /\ offset[u] <= Len(Consumed(u))
    BY <1>1, <1>6, <2>2 DEF Dealt
  <2>4. DealtAccounted(u)'
    BY <1>7, <2>1, <2>2, <2>3, DealtStays
  <2>5. CASE u # s
    <3>1. output'[u] = output[u] /\ first'[u] = first[u] /\ at'[u] = at[u] /\ state'[u] = state[u]
      BY <1>10, <2>5 DEF OthersKept
    <3> QED BY <1>3, <1>7, <2>1, <2>2, <2>3, <2>4, <3>1, OpenStays
  <2>6. CASE u = s
    <3>1. ASSUME NEW k \in first'[s] + 1 .. at'[s], NEW l \in Consumed(s)'[k].lines
          PROVE  InOutput(s, k, l)' \/ EndedBy(s, l)' \/ NobodyReads(s)'
      <4>1. Consumed(s)' = Consumed(s) /\ (NobodyReads(s) => NobodyReads(s)')
        BY <1>1 DEF Consumed, NobodyReads
      <4>2. CASE k \in first[s] + 1 .. at[s]
        <5>1. InOutput(s, k, l) \/ EndedBy(s, l) \/ NobodyReads(s)
          BY <1>1, <2>1, <2>6, <3>1, <4>1, <4>2 DEF OpenAccounted
        <5>2. ASSUME InOutput(s, k, l) PROVE InOutput(s, k, l)'
          <6>0. PICK t \in Topics : \E i \in 1 .. Len(output[s][t]) :
                  output[s][t][i].origin = <<s, k>> /\ l \in output[s][t][i].lines
            BY <5>2 DEF InOutput
          <6>1. PICK i \in 1 .. Len(output[s][t]) :
                  output[s][t][i].origin = <<s, k>> /\ l \in output[s][t][i].lines
            BY <6>0
          <6>2. i \in 1 .. Len(output'[s][t]) /\ output'[s][t][i] = output[s][t][i]
            BY <1>11, <6>1
          <6> QED BY <6>1, <6>2 DEF InOutput
        <5>3. EndedBy(s, l) => EndedBy(s, l)'
          BY <2>3, EndedStays
        <5> QED BY <4>1, <5>1, <5>2, <5>3
      <4>3. CASE k \notin first[s] + 1 .. at[s]
        <5>1. k = n
          BY <1>12, <3>1, <4>3
        <5>2. l \in m.lines
          BY <1>4, <3>1, <4>1, <5>1
        <5>3. \/ \E t \in Topics : \E x \in SentTo(result, t) : l \in x.lines
              \/ \E status \in {"filtered_out", "detected"} : <<l, s, status>> \in result.ended
              \/ NobodyReads(s)
          BY <1>5, <1>17, <2>6, <5>2 DEF GoodResult
        <5>4. ASSUME NEW t \in Topics, NEW x \in SentTo(result, t), l \in x.lines
              PROVE  InOutput(s, k, l)'
          <6>1. PICK i \in 1 .. Len(sent(t)) : sent(t)[i] = x
            BY <1>8
          <6>2. MadeFrom(t, s, n, x)
            BY <1>8, <6>1
          <6>3. x.origin = <<s, k>>
            BY <5>1, <6>2 DEF MadeFrom
          <6>4. PICK j \in 1 .. Len(output'[s][t]) : output'[s][t][j] = x
            BY <1>11, <6>1
          <6> QED BY <5>4, <6>3, <6>4 DEF InOutput
        <5>5. ASSUME NEW status \in {"filtered_out", "detected"}, <<l, s, status>> \in result.ended
              PROVE  EndedBy(s, l)'
          BY <1>6, <5>5 DEF EndedBy
        <5> QED BY <4>1, <5>3, <5>4, <5>5
      <4> QED BY <4>2, <4>3
    <3>2. OpenAccounted(s)'
      BY <3>1 DEF OpenAccounted
    <3> QED BY <2>4, <2>6, <3>2
  <2> QED BY <2>5, <2>6
<1>18. Accounted'
  BY <1>17 DEF Accounted
<1>19. Cursors'
  <2>1. DOMAIN memory' = Stages /\ \A u \in Stages : memory'[u].lines = {}
    <3>1. Cleared(m).lines = {}
      BY <1>4 DEF Cleared, AtHand, Batch
    <3> QED BY <1>2, <1>3, <3>1 DEF Cursors
  <2>2. ASSUME NEW u \in Stages
        PROVE  /\ offset'[u] <= position'[u] /\ position'[u] <= Len(Consumed(u)')
               /\ state'[u] = "processing" =>
                    /\ offset'[u] <= first'[u] /\ first'[u] <= at'[u] /\ at'[u] <= position'[u]
                    /\ position'[u] - first'[u] <= MaxBatch
    <3>1. UNCHANGED <<offset, position, first, state>> /\ Consumed(u)' = Consumed(u)
      BY <1>1 DEF Consumed
    <3>2. at'[u] = at[u] \/ (u = s /\ at'[u] = at[s] + 1)
      BY <1>10, <1>12 DEF OthersKept
    <3>3. /\ offset[u] <= position[u] /\ position[u] <= Len(Consumed(u))
          /\ state[u] = "processing" =>
               /\ offset[u] <= first[u] /\ first[u] <= at[u] /\ at[u] <= position[u]
               /\ position[u] - first[u] <= MaxBatch
      BY <1>3 DEF Cursors
    <3> QED BY <1>1, <1>12, <3>1, <3>2, <3>3
  <2>3. /\ config' \in Configurations /\ faults' \in Nat /\ offset' \in [Stages -> Nat]
        /\ position' \in [Stages -> Nat] /\ first' \in [Stages -> Nat]
        /\ state' \in [Stages -> {"polling", "processing", "down"}]
    BY <1>1, <1>3 DEF Cursors
  <2> QED BY <1>12, <2>1, <2>2, <2>3 DEF Cursors
<1>20. Windows'
  BY <1>2, <1>4, <1>7, WindowRemembers
<1>21. Rows'
  <2>1. \A x \in InProcess(s, m) \cup result.rows : RowOf(s, m, x)
    BY <1>5 DEF GoodResult
  <2> QED BY <1>4, <1>6, <1>7, <2>1, RowsRecorded
<1>22. Losses'
  <2>1. ASSUME NEW u \in Stages, NEW o \in offset'[u] .. Behind(u)' - 1 PROVE <<u, o>> \in Skipped
    <3>1. offset'[u] = offset[u] /\ Behind(u)' = Behind(u)
      BY <1>1 DEF Behind
    <3> QED BY <2>1, <3>1, SkippedElement
  <2>2. faults' \in {faults, faults + 1} /\ lost' \subseteq lost \cup Skipped
    BY <1>1
  <2> QED BY <1>3, <2>1, <2>2, LossesStay
<1> QED BY <1>13, <1>15, <1>16, <1>18, <1>19, <1>20, <1>21, <1>22 DEF PipelineInvariant

LEMMA CommitStep ==
  ASSUME PipelineAssumption, RoutingAssumption, PipelineInvariant, NEW s \in Stages, Commit(s)
  PROVE  PipelineInvariant'
<1>1. /\ state[s] = "processing" /\ at[s] = position[s]
      /\ topic' = [t \in Topics |-> topic[t] \o output[s][t]]
      /\ offset' = [offset EXCEPT ![s] = position[s]]
      /\ lost' = lost \cup {<<s, o>> : o \in offset[s] .. first[s] - 1}
      /\ output' = [output EXCEPT ![s] = NoOutput] /\ state' = [state EXCEPT ![s] = "polling"]
      /\ UNCHANGED <<config, position, first, at, memory, window, tree, ends, faults>>
  BY DEF Commit, records
<1>2. Cursors /\ Shape /\ Sources /\ Windows /\ Losses /\ Unrepeated /\ Accounted /\ Rows
  BY DEF PipelineInvariant
<1>3. config \in Configuration
  BY <1>2 DEF Cursors, PipelineAssumption
<1>4. /\ offset[s] \in Nat /\ first[s] \in Nat /\ position[s] \in Nat /\ at[s] \in Nat
      /\ offset[s] <= first[s] /\ first[s] <= at[s] /\ offset'[s] = position[s]
      /\ offset' \in [Stages -> Nat] /\ state'[s] = "polling" /\ position'[s] = position[s]
  BY <1>1, <1>2 DEF Cursors
<1>5. /\ DOMAIN output' = Stages /\ DOMAIN output'[s] = Topics /\ \A t \in Topics : output'[s][t] = <<>>
      /\ \A u \in Stages \ {s} : output'[u] = output[u]
  BY <1>1, <1>2, NoOutputFacts DEF Shape
<1>6. OthersKept(s)
  BY <1>1, <1>2, <1>5 DEF OthersKept, Cursors
<1>7. ASSUME NEW t \in Topics
      PROVE  /\ topic'[t] = topic[t] \o output[s][t] /\ IsSeq(topic[t]) /\ IsSeq(topic'[t])
             /\ \A i \in 1 .. Len(topic[t]) : i \in 1 .. Len(topic'[t]) /\ topic'[t][i] = topic[t][i]
             /\ \A i \in 1 .. Len(output[s][t]) :
                  /\ Len(topic[t]) + i \in 1 .. Len(topic'[t])
                  /\ topic'[t][Len(topic[t]) + i] = output[s][t][i]
             /\ \A i \in 1 .. Len(topic'[t]) :
                  \/ i \in 1 .. Len(topic[t])
                  \/ /\ i - Len(topic[t]) \in 1 .. Len(output[s][t])
                     /\ topic'[t][i] = output[s][t][i - Len(topic[t])]
  <2>1. topic'[t] = topic[t] \o output[s][t] /\ IsSeq(topic[t]) /\ IsSeq(output[s][t])
    BY <1>1, <1>2 DEF Shape
  <2> DEFINE p == topic[t]
             q == output[s][t]
             r == topic'[t]
  <2>2. r = p \o q /\ IsSeq(p) /\ IsSeq(q)
    BY <2>1
  <2> HIDE DEF p, q, r
  <2>3. /\ r = p \o q /\ IsSeq(p) /\ IsSeq(r)
        /\ \A i \in 1 .. Len(p) : i \in 1 .. Len(r) /\ r[i] = p[i]
        /\ \A i \in 1 .. Len(q) : Len(p) + i \in 1 .. Len(r) /\ r[Len(p) + i] = q[i]
        /\ \A i \in 1 .. Len(r) :
             \/ i \in 1 .. Len(p)
             \/ i - Len(p) \in 1 .. Len(q) /\ r[i] = q[i - Len(p)]
    BY <2>2, ConcatFacts
  <2> QED BY <2>3 DEF p, q, r
<1>8. TopicsGrow
  BY <1>1, <1>7 DEF TopicsGrow
<1>9. Shape'
  <2>1. \A u \in Stages :
          /\ DOMAIN output'[u] = Topics /\ \A t \in Topics : IsSeq(output'[u][t])
          /\ state'[u] # "processing" => \A t \in Topics : output'[u][t] = <<>>
    BY <1>2, <1>5, <1>6, NoRecords DEF Shape, OthersKept
  <2>2. DOMAIN topic' = Topics /\ \A t \in Topics : IsSeq(topic'[t])
    BY <1>1, <1>7
  <2>3. ASSUME NEW p \in Prefilters
        PROVE  topic'[<<"prefilter", p>>] = [n \in 1 .. Len(Collected[p]) |-> FromCollector(p, n)]
    <3> DEFINE t == <<"prefilter", p>>
    <3>1. t \in Topics /\ t[1] = "prefilter"
      BY DEF Topics, Stages, Instance
    <3>2. Len(output[s][t]) = 0
      <4>1. ASSUME NEW i \in 1 .. Len(output[s][t]) PROVE FALSE
        <5>1. OutputSource(s, t, output[s][t][i])
          BY <1>2, <3>1 DEF Sources
        <5>2. SendsTo(s, t)
          BY <5>1 DEF OutputSource, MadeFrom
        <5> QED BY <1>3, <3>1, <5>2, SendsToKinds, StageKinds
      <4>2. Len(output[s][t]) \in Nat
        BY <1>2, <3>1, SeqFacts DEF Shape
      <4>3. ASSUME Len(output[s][t]) # 0 PROVE 1 \in 1 .. Len(output[s][t])
        BY <4>2, <4>3
      <4> QED BY <4>1, <4>3
    <3>3. output[s][t] = <<>> /\ topic'[t] = topic[t] \o output[s][t]
      BY <1>2, <1>7, <3>1, <3>2, SeqFacts DEF Shape
    <3>4. topic'[t] = topic[t]
      BY <1>7, <3>1, <3>3, SeqFacts
    <3> QED BY <1>2, <3>4 DEF Shape
  <2> QED BY <1>5, <2>1, <2>2, <2>3 DEF Shape
<1>10. \A u \in Stages : offset[u] <= offset'[u] /\ offset[u] \in Nat
  BY <1>1, <1>2, <1>4 DEF Cursors
<1>11. Sources'
  <2>1. ASSUME NEW t \in Topics, t[1] # "prefilter", NEW i \in 1 .. Len(topic'[t])
        PROVE  TopicSource(t, topic[t][i])'
    <3>1. ASSUME NEW x, TopicSource(t, x) PROVE TopicSource(t, x)'
      <4>1. /\ offset \in [Stages -> Nat] /\ offset' \in [Stages -> Nat]
            /\ tree \subseteq tree' /\ ends \subseteq ends'
        BY <1>1, <1>2, <1>4 DEF Cursors
      <4> QED BY <1>8, <1>10, <3>1, <4>1, TopicSourceStays
    <3>2. ASSUME NEW x, OutputSource(s, t, x) PROVE TopicSource(t, x)'
      <4>1. PICK n : n = x.origin[2]
        OBVIOUS
      <4>2. n <= at[s] /\ MadeFrom(t, s, n, x) /\ Named(tree, t, x) /\ Marked(ends, t, x)
        BY <3>2, <4>1 DEF OutputSource
      <4>3. x.origin[1] = s /\ n <= offset'[s]
        BY <1>1, <1>4, <4>2 DEF MadeFrom
      <4>4. MadeFrom(t, s, n, x)' /\ Named(tree, t, x)' /\ Marked(ends, t, x)'
        BY <1>1, <1>8, <4>2, MadeFromStays, NamedStays, MarkedStays
      <4> QED BY <4>1, <4>3, <4>4 DEF TopicSource
    <3>3. CASE i \in 1 .. Len(topic[t])
      <4>1. TopicSource(t, topic[t][i]) /\ topic'[t][i] = topic[t][i]
        BY <1>2, <1>7, <2>1, <3>3 DEF Sources
      <4> QED BY <3>1, <4>1 DEF TopicSource
    <3>4. CASE i \notin 1 .. Len(topic[t])
      <4>1. PICK j \in 1 .. Len(output[s][t]) : topic'[t][i] = output[s][t][j]
        <5>1. i \in 1 .. Len(topic'[t])
          BY <2>1
        <5>2. \/ i \in 1 .. Len(topic[t])
              \/ /\ i - Len(topic[t]) \in 1 .. Len(output[s][t])
                 /\ topic'[t][i] = output[s][t][i - Len(topic[t])]
          BY <1>7, <5>1
        <5> QED BY <3>4, <5>2
      <4>2. OutputSource(s, t, output[s][t][j])
        BY <1>2, <4>1 DEF Sources
      <4> QED BY <3>2, <4>1, <4>2 DEF TopicSource
    <3> QED BY <3>3, <3>4
  <2>2. ASSUME NEW u \in Stages, NEW t \in Topics, NEW i \in 1 .. Len(output'[u][t])
        PROVE  OutputSource(u, t, output[u][t][i])'
    <3>1. u # s
      BY <1>5, <2>2, NoRecords
    <3>2. /\ output'[u] = output[u] /\ first'[u] = first[u] /\ at'[u] = at[u] /\ at[u] \in Nat
          /\ tree \subseteq tree' /\ ends \subseteq ends' /\ at'[u] \in Nat
      BY <1>1, <1>2, <1>6, <3>1 DEF OthersKept, Cursors
    <3>3. OutputSource(u, t, output[u][t][i])
      BY <1>2, <2>2, <3>2 DEF Sources
    <3>4. ASSUME NEW x, OutputSource(u, t, x) PROVE OutputSource(u, t, x)'
      BY <1>8, <3>2, <3>4, OutputSourceStays
    <3> QED BY <3>2, <3>3, <3>4 DEF OutputSource
  <2> QED BY <2>1, <2>2 DEF Sources
<1>12. Unrepeated'
  <2>1. ASSUME NEW t \in Topics PROVE Distinct(t, topic[t])'
    <3> DEFINE old == topic[t]
               new == topic'[t]
               sent == output[s][t]
               differ(x, y) == x.origin # y.origin \/ Apart(t, x, y)
    <3>1. \A i, j \in 1 .. Len(old) : i # j => differ(old[i], old[j])
      BY <1>2 DEF Unrepeated, Distinct
    <3>2. \A i, j \in 1 .. Len(sent) : i # j => differ(sent[i], sent[j])
      BY <1>2 DEF Unrepeated, Distinct
    <3>3. ASSUME t[1] # "prefilter", NEW i \in 1 .. Len(old), NEW j \in 1 .. Len(sent)
          PROVE  old[i].origin # sent[j].origin
      <4>1. TopicSource(t, old[i]) /\ OutputSource(s, t, sent[j])
        BY <1>2, <3>3 DEF Sources
      <4>2. first[s] < sent[j].origin[2] /\ sent[j].origin[1] = s /\ sent[j].origin[2] \in Int
        <5>1. PICK n : n = sent[j].origin[2]
          OBVIOUS
        <5>2. first[s] < n /\ MadeFrom(t, s, n, sent[j])
          BY <4>1, <5>1 DEF OutputSource
        <5>3. sent[j].origin = <<s, n>> /\ n \in 1 .. Len(Consumed(s))
          BY <5>2 DEF MadeFrom
        <5> HIDE DEF sent
        <5> QED BY <5>2, <5>3
      <4>3. old[i].origin[1] = s => old[i].origin[2] <= offset[s] /\ old[i].origin[2] \in Int
        BY <4>1 DEF TopicSource, MadeFrom
      <4> HIDE DEF old, sent
      <4> QED BY <1>4, <4>2, <4>3
    <3>4. ASSUME NEW j \in 1 .. Len(sent) PROVE t[1] # "prefilter"
      <4>1. OutputSource(s, t, sent[j])
        BY <1>2, <3>4 DEF Sources
      <4>2. SendsTo(s, t)
        BY <4>1 DEF OutputSource, MadeFrom
      <4> QED BY <1>3, <4>2, SendsToKinds, StageKinds
    <3>5. \A i \in 1 .. Len(old) : \A j \in 1 .. Len(sent) : old[i].origin # sent[j].origin
      BY <3>3, <3>4
    <3>6. ASSUME NEW i \in 1 .. Len(new), NEW j \in 1 .. Len(new), i # j
          PROVE  differ(new[i], new[j])
      <4>1. \A k \in 1 .. Len(new) : \/ k \in 1 .. Len(old) /\ new[k] = old[k]
                                     \/ k - Len(old) \in 1 .. Len(sent) /\ new[k] = sent[k - Len(old)]
        BY <1>7
      <4>2. Len(old) \in Nat /\ i \in Int /\ j \in Int
        BY <1>7, <3>6, SeqFacts
      <4>3. i - Len(old) # j - Len(old)
        BY <3>6, <4>2
      <4> HIDE DEF old, new, sent
      <4>4. CASE i \in 1 .. Len(old) /\ new[i] = old[i] /\ j \in 1 .. Len(old) /\ new[j] = old[j]
        BY <3>1, <3>6, <4>4
      <4>5. CASE /\ i \in 1 .. Len(old) /\ new[i] = old[i]
                 /\ j - Len(old) \in 1 .. Len(sent) /\ new[j] = sent[j - Len(old)]
        BY <3>5, <4>5
      <4>6. CASE /\ j \in 1 .. Len(old) /\ new[j] = old[j]
                 /\ i - Len(old) \in 1 .. Len(sent) /\ new[i] = sent[i - Len(old)]
        BY <3>5, <4>6
      <4>7. CASE /\ j - Len(old) \in 1 .. Len(sent) /\ new[j] = sent[j - Len(old)]
                 /\ i - Len(old) \in 1 .. Len(sent) /\ new[i] = sent[i - Len(old)]
        BY <3>2, <4>3, <4>7
      <4> QED BY <4>1, <4>4, <4>5, <4>6, <4>7
    <3> QED BY <3>6 DEF Distinct
  <2>2. ASSUME NEW u \in Stages, NEW t \in Topics PROVE Distinct(t, output[u][t])'
    <3>1. CASE u = s
      BY <1>5, <3>1, NoRecords DEF Distinct
    <3>2. CASE u # s
      <4>1. output'[u][t] = output[u][t] /\ Distinct(t, output[u][t])
        BY <1>2, <1>5, <3>2 DEF Unrepeated
      <4> QED BY <4>1 DEF Distinct
    <3> QED BY <3>1, <3>2
  <2> QED BY <2>1, <2>2 DEF Unrepeated
<1>13. Windows' /\ Rows'
  BY <1>1, <1>2, <1>8, WindowsStay, RowsStay DEF Windows
<1>14. ASSUME NEW u \in Stages, u[1] # "alerter" PROVE DealtAccounted(u)' /\ OpenAccounted(u)'
  <2>1. DealtAccounted(u) /\ OpenAccounted(u)
    BY <1>2, <1>14 DEF Accounted
  <2>2. /\ offset[u] \in Nat /\ position[u] \in Nat /\ offset[u] <= position[u]
        /\ position[u] <= Len(Consumed(u)) /\ Len(Consumed(u)) \in Nat
    BY <1>2, <1>8, <1>9, LengthGrows DEF Cursors
  <2>3. ends \subseteq ends' /\ offset[u] <= Len(Consumed(u))
    BY <1>1, <2>2
  <2>4. CASE u # s
    <3>1. output'[u] = output[u] /\ first'[u] = first[u] /\ at'[u] = at[u] /\ state'[u] = state[u]
      BY <1>6, <2>4 DEF OthersKept
    <3>2. Dealt(u)' \subseteq Dealt(u)
      BY <1>1, <1>6, <2>4 DEF Dealt, OthersKept
    <3>3. DealtAccounted(u)'
      BY <1>8, <2>1, <2>2, <2>3, <3>2, DealtStays
    <3> QED BY <1>2, <1>8, <2>1, <2>2, <2>3, <3>1, <3>3, OpenStays
  <2>5. CASE u = s
    <3>1. OpenAccounted(s)'
      BY <1>4 DEF OpenAccounted
    <3>2. ASSUME NEW n \in Dealt(s)', NEW l \in Consumed(s)'[n].lines
          PROVE  HandedOn(s, n, l)' \/ EndedBy(s, l)' \/ NobodyReads(s)'
      <4>1. n \in 1 .. position[s] /\ <<s, n - 1>> \notin lost /\ ~(n - 1 \in offset[s] .. first[s] - 1)
        <5>1. n \in 1 .. offset'[s] /\ <<s, n - 1>> \notin lost'
          BY <3>2 DEF Dealt
        <5>2. ASSUME n - 1 \in offset[s] .. first[s] - 1 PROVE <<s, n - 1>> \in lost'
          BY <1>1, <5>2
        <5> QED BY <1>1, <1>4, <5>1, <5>2
      <4>2. Consumed(s)'[n] = Consumed(s)[n] /\ l \in Consumed(s)[n].lines
        <5>1. n \in 1 .. Len(Consumed(s))
          BY <2>2, <2>5, <4>1
        <5>2. Consumed(s)'[n] = Consumed(s)[n]
          BY <1>8, <5>1, ConsumedGrows
        <5> QED BY <3>2, <5>2
      <4>3. n \in Dealt(s) \/ n \in first[s] + 1 .. at[s]
        BY <1>1, <1>4, <4>1 DEF Dealt
      <4>4. HandedOn(s, n, l) \/ InOutput(s, n, l) \/ EndedBy(s, l) \/ NobodyReads(s)
        BY <1>1, <2>1, <2>5, <4>2, <4>3 DEF DealtAccounted, OpenAccounted
      <4>5. ASSUME InOutput(s, n, l) PROVE HandedOn(s, n, l)'
        <5>1. PICK t \in Topics : \E i \in 1 .. Len(output[s][t]) :
                output[s][t][i].origin = <<s, n>> /\ l \in output[s][t][i].lines
          BY <4>5 DEF InOutput
        <5>2. PICK i \in 1 .. Len(output[s][t]) :
                output[s][t][i].origin = <<s, n>> /\ l \in output[s][t][i].lines
          BY <5>1
        <5>3. PICK j \in 1 .. Len(topic'[t]) : topic'[t][j] = output[s][t][i]
          BY <1>7, <5>2
        <5> QED BY <5>2, <5>3 DEF HandedOn
      <4>6. NobodyReads(s) => NobodyReads(s)'
        BY <1>1 DEF NobodyReads
      <4> QED BY <1>8, <2>3, <4>4, <4>5, <4>6, HandedOnStays, EndedStays
    <3>3. DealtAccounted(s)'
      BY <3>2 DEF DealtAccounted
    <3> QED BY <2>5, <3>1, <3>3
  <2> QED BY <2>4, <2>5
<1>15. Accounted'
  BY <1>14 DEF Accounted
<1>16. Cursors'
  <2>1. ASSUME NEW u \in Stages
        PROVE  /\ offset'[u] <= position'[u] /\ position'[u] <= Len(Consumed(u)')
               /\ memory'[u].lines = {}
               /\ state'[u] = "processing" =>
                    /\ offset'[u] <= first'[u] /\ first'[u] <= at'[u] /\ at'[u] <= position'[u]
                    /\ position'[u] - first'[u] <= MaxBatch
    <3>1. /\ Len(Consumed(u)) \in Nat /\ Len(Consumed(u)') \in Nat
          /\ Len(Consumed(u)) <= Len(Consumed(u)')
      BY <1>2, <1>8, <1>9, LengthGrows
    <3>2. /\ offset[u] <= position[u] /\ position[u] <= Len(Consumed(u)) /\ memory[u].lines = {}
          /\ position[u] \in Nat
          /\ state[u] = "processing" =>
               /\ offset[u] <= first[u] /\ first[u] <= at[u] /\ at[u] <= position[u]
               /\ position[u] - first[u] <= MaxBatch
      BY <1>2 DEF Cursors
    <3>3. position'[u] <= Len(Consumed(u)') /\ memory'[u].lines = {}
      BY <1>1, <3>1, <3>2
    <3>4. CASE u = s
      BY <1>4, <3>3, <3>4
    <3>5. CASE u # s
      BY <1>6, <3>2, <3>3, <3>5 DEF OthersKept
    <3> QED BY <3>4, <3>5
  <2>2. /\ config' \in Configurations /\ faults' \in Nat /\ at' \in [Stages -> Nat]
        /\ position' \in [Stages -> Nat] /\ first' \in [Stages -> Nat] /\ DOMAIN memory' = Stages
        /\ state' \in [Stages -> {"polling", "processing", "down"}]
    BY <1>1, <1>2 DEF Cursors
  <2> QED BY <1>4, <2>1, <2>2 DEF Cursors
<1>17. Losses'
  <2>1. Behind(s) = first[s] /\ Behind(s)' = position[s]
    BY <1>1, <1>4 DEF Behind
  <2>2. ASSUME NEW u \in Stages, NEW o \in offset'[u] .. Behind(u)' - 1
        PROVE  <<u, o>> \in lost \cup Skipped
    <3>1. CASE u = s
      BY <1>4, <2>1, <2>2, <3>1
    <3>2. CASE u # s
      BY <1>6, <2>2, <3>2, OthersBehind
    <3> QED BY <3>1, <3>2
  <2>3. lost' \subseteq lost \cup Skipped
    BY <1>1, <2>1, SkippedElement
  <2>4. faults' \in {faults, faults + 1}
    BY <1>1
  <2> QED BY <1>2, <2>2, <2>3, <2>4, LossesStay
<1> QED BY <1>9, <1>11, <1>12, <1>13, <1>15, <1>16, <1>17 DEF PipelineInvariant

-----------------------------------------------------------------------------
(* The invariant and what follows from it.                                 *)

LEMMA PipelineInit ==
  ASSUME PipelineAssumption, RoutingAssumption, Init
  PROVE  PipelineInvariant
<1>1. /\ config \in Configurations /\ config \in Configuration /\ faults = 0
      /\ offset = [s \in Stages |-> 0] /\ position = offset /\ first = offset /\ at = offset
      /\ state = [s \in Stages |-> "polling"] /\ output = [s \in Stages |-> NoOutput]
      /\ memory = [s \in Stages |-> NothingInMemory] /\ window = [s \in Stages |-> {}]
      /\ tree = {} /\ lost = {} /\ DOMAIN topic = Topics
  BY DEF Init, PipelineAssumption
<1>2. ASSUME NEW t \in Topics, t[1] # "prefilter" PROVE topic[t] = <<>>
  BY <1>2 DEF Init
<1>3. ASSUME NEW p \in Prefilters
      PROVE  /\ topic[<<"prefilter", p>>] = [n \in 1 .. Len(Collected[p]) |-> FromCollector(p, n)]
             /\ IsSeq(topic[<<"prefilter", p>>])
  <2>1. <<"prefilter", p>> \in Topics
    BY DEF Topics, Stages, Instance
  <2>2. topic[<<"prefilter", p>>] = [n \in 1 .. Len(Collected[p]) |-> FromCollector(p, n)]
    BY <2>1 DEF Init
  <2>3. Collected[p] \in Seq((SUBSET Lines) \ {{}})
    BY DEF PipelineAssumption
  <2>4. Len(Collected[p]) \in Nat
    BY <2>3, LenProperties
  <2> DEFINE S == {FromCollector(p, n) : n \in 1 .. Len(Collected[p])}
  <2>5. [n \in 1 .. Len(Collected[p]) |-> FromCollector(p, n)] \in Seq(S)
    <3>1. \A n \in 1 .. Len(Collected[p]) : FromCollector(p, n) \in S
      OBVIOUS
    <3> HIDE DEF S
    <3> QED BY <2>4, <3>1, IsASeq
  <2> HIDE DEF S
  <2> QED BY <2>2, <2>5, SeqOfAny
<1>4. ASSUME NEW t \in Topics
      PROVE  IsSeq(topic[t]) /\ Len(topic[t]) \in Nat
  <2>1. CASE t[1] = "prefilter"
    <3>1. PICK p \in Prefilters : t = <<"prefilter", p>>
      BY <2>1 DEF Topics, Stages, Instance, External
    <3> QED BY <1>3, <3>1, SeqFacts
  <2>2. CASE t[1] # "prefilter"
    BY <1>2, <2>2, NoRecords
  <2> QED BY <2>1, <2>2
<1>5. Cursors
  <2>1. ASSUME NEW s \in Stages
        PROVE  Len(Consumed(s)) \in Nat
    BY <1>4, ConsumeTopicKinds DEF Consumed
  <2>2. NothingInMemory.lines = {}
    BY DEF NothingInMemory, Batch
  <2> QED BY <1>1, <2>1, <2>2 DEF Cursors
<1>6. Shape
  BY <1>1, <1>3, <1>4, NoOutputFacts, NoRecords DEF Shape
<1>7. \A s \in Stages : \A t \in Topics : output[s][t] = <<>>
  BY <1>1, NoOutputFacts
<1>8. Sources
  <2>1. ASSUME NEW t \in Topics, t[1] # "prefilter", NEW i \in 1 .. Len(topic[t]) PROVE FALSE
    BY <1>2, <2>1, NoRecords
  <2>2. ASSUME NEW s \in Stages, NEW t \in Topics, NEW i \in 1 .. Len(output[s][t]) PROVE FALSE
    BY <1>7, <2>2, NoRecords
  <2> QED BY <2>1, <2>2 DEF Sources
<1>9. Unrepeated
  <2>1. ASSUME NEW t \in Topics PROVE Distinct(t, topic[t])
    <3>1. CASE t[1] = "prefilter"
      <4>1. PICK p \in Prefilters : t = <<"prefilter", p>>
        BY <3>1 DEF Topics, Stages, Instance, External
      <4>2. topic[t] = [n \in 1 .. Len(Collected[p]) |-> FromCollector(p, n)] /\ IsSeq(topic[t])
        BY <1>3, <4>1
      <4>3. DOMAIN topic[t] = 1 .. Len(topic[t])
        BY <4>2, SeqFacts
      <4>4. \A n \in 1 .. Len(topic[t]) : topic[t][n].origin = <<<<"collector", p>>, n>>
        BY <4>2, <4>3 DEF FromCollector, Batch
      <4> QED BY <4>4 DEF Distinct
    <3>2. CASE t[1] # "prefilter"
      BY <1>2, <3>2, NoRecords DEF Distinct
    <3> QED BY <3>1, <3>2
  <2>2. ASSUME NEW s \in Stages, NEW t \in Topics PROVE Distinct(t, output[s][t])
    BY <1>7, NoRecords DEF Distinct
  <2> QED BY <2>1, <2>2 DEF Unrepeated
<1>10. Windows /\ Rows
  BY <1>1 DEF Windows, Rows
<1>11. Accounted
  <2>1. ASSUME NEW s \in Stages PROVE DealtAccounted(s) /\ OpenAccounted(s)
    <3>1. Dealt(s) = {} /\ state[s] # "processing"
      BY <1>1 DEF Dealt
    <3> QED BY <3>1 DEF DealtAccounted, OpenAccounted
  <2> QED BY <2>1 DEF Accounted
<1>12. Losses
  <2>1. ASSUME NEW s \in Stages PROVE offset[s] .. Behind(s) - 1 = {}
    <3>1. offset[s] = 0 /\ Behind(s) = 0
      BY <1>1 DEF Behind
    <3> QED BY <3>1
  <2>2. Skipped = {}
    BY <2>1 DEF Skipped
  <2>3. IsFiniteSet({}) /\ Cardinality({}) = 0
    BY FS_EmptySet
  <2>4. MaxBatch * faults = 0
    BY <1>1 DEF PipelineAssumption
  <2>5. lost \cup Skipped = {}
    BY <1>1, <2>2
  <2>6. /\ IsFiniteSet(lost \cup Skipped) /\ \A x \in lost \cup Skipped : x[1][1] # "prefilter"
        /\ Cardinality(lost \cup Skipped) = 0
    BY <2>3, <2>5
  <2> DEFINE product == MaxBatch * faults
  <2>7. product = 0
    BY <2>4
  <2> HIDE DEF product
  <2>8. Cardinality(lost \cup Skipped) <= product
    BY <2>6, <2>7
  <2> QED BY <2>6, <2>8 DEF Losses, product
<1> QED BY <1>5, <1>6, <1>8, <1>9, <1>10, <1>11, <1>12 DEF PipelineInvariant

(* A step that leaves every variable alone keeps the invariant.            *)
LEMMA StutterStep ==
  ASSUME PipelineInvariant, UNCHANGED vars
  PROVE  PipelineInvariant'
<1>1. UNCHANGED <<config, topic, offset, position, first, at, state, output, lost, tree, ends,
                  attempt, memory, window, faults>>
  BY DEF vars, messaging, records
<1>2. Cursors' /\ Shape'
  BY <1>1 DEF PipelineInvariant, Cursors, Shape, Consumed
<1> TopicsGrow /\ tree \subseteq tree' /\ ends \subseteq ends'
  BY <1>1 DEF TopicsGrow
<1>3. Sources'
  <2>1. /\ offset \in [Stages -> Nat] /\ offset' \in [Stages -> Nat]
        /\ \A s \in Stages : offset[s] <= offset'[s] /\ at[s] \in Nat /\ at'[s] \in Nat
                             /\ at[s] <= at'[s] /\ first'[s] = first[s]
    BY <1>1 DEF PipelineInvariant, Cursors
  <2>2. ASSUME NEW t, NEW x, TopicSource(t, x) PROVE TopicSource(t, x)'
    BY <2>1, <2>2, TopicSourceStays
  <2>3. ASSUME NEW s \in Stages, NEW t, NEW x, OutputSource(s, t, x) PROVE OutputSource(s, t, x)'
    BY <2>1, <2>3, OutputSourceStays
  <2>4. ASSUME NEW t \in Topics, t[1] # "prefilter", NEW i \in 1 .. Len(topic'[t])
        PROVE  TopicSource(t, topic[t][i])'
    <3>1. TopicSource(t, topic[t][i]) /\ topic'[t][i] = topic[t][i]
      BY <1>1, <2>4 DEF PipelineInvariant, Sources
    <3> QED BY <2>2, <3>1 DEF TopicSource
  <2>5. ASSUME NEW s \in Stages, NEW t \in Topics, NEW i \in 1 .. Len(output'[s][t])
        PROVE  OutputSource(s, t, output[s][t][i])'
    <3>1. OutputSource(s, t, output[s][t][i]) /\ output'[s][t][i] = output[s][t][i]
      BY <1>1, <2>5 DEF PipelineInvariant, Sources
    <3> QED BY <2>3, <3>1 DEF OutputSource
  <2> QED BY <2>4, <2>5 DEF Sources
<1>4. Unrepeated' /\ Windows'
  BY <1>1 DEF PipelineInvariant, Unrepeated, Distinct, Windows, Seen, Consumed
<1>5. Rows' /\ Losses'
  BY <1>1 DEF PipelineInvariant, Rows, RowNames, InTree, Losses, Skipped, Behind, Consumed
<1>6. Accounted'
  <2>1. ASSUME NEW s \in Stages, s[1] # "alerter" PROVE DealtAccounted(s)' /\ OpenAccounted(s)'
    <3>1. DealtAccounted(s) /\ OpenAccounted(s) /\ Cursors
      BY <2>1 DEF PipelineInvariant, Accounted
    <3>2. Len(Consumed(s)) \in Nat
      BY <1>2, LengthGrows DEF PipelineInvariant
    <3>3. offset[s] <= Len(Consumed(s)) /\ offset[s] \in Nat /\ Dealt(s)' \subseteq Dealt(s)
      BY <1>1, <3>1, <3>2 DEF Cursors, Dealt
    <3>4. DealtAccounted(s)'
      BY <3>1, <3>2, <3>3, DealtStays
    <3>5. output'[s] = output[s] /\ first'[s] = first[s] /\ at'[s] = at[s] /\ state'[s] = state[s]
      BY <1>1
    <3>6. OpenAccounted(s)'
      BY <3>1, <3>2, <3>5, OpenStays
    <3> QED BY <3>4, <3>6
  <2> QED BY <2>1 DEF Accounted
<1> QED BY <1>2, <1>3, <1>4, <1>5, <1>6 DEF PipelineInvariant

LEMMA PipelineStep ==
  ASSUME PipelineAssumption, RoutingAssumption, PipelineInvariant, [Next]_vars
  PROVE  PipelineInvariant'
<1>1. CASE UNCHANGED vars
  BY <1>1, StutterStep
<1>2. CASE Next
  <2>1. PICK s \in Stages : Step(s) \/ Abort(s) \/ Raise(s) \/ Crash(s) \/ Restart(s)
    BY <1>2 DEF Next
  <2>2. CASE Fetch(s)
    BY <2>2, FetchStep
  <2>3. CASE Process(s)
    BY <2>3, ProcessStep
  <2>4. CASE Commit(s)
    BY <2>4, CommitStep
  <2>5. CASE Abort(s)
    BY <2>5, AbortStep
  <2>6. CASE Raise(s)
    BY <2>6, RaiseStep
  <2>7. CASE Crash(s)
    BY <2>7, CrashStep
  <2>8. CASE Restart(s)
    BY <2>8, RestartStep
  <2> QED BY <2>1, <2>2, <2>3, <2>4, <2>5, <2>6, <2>7, <2>8 DEF Step
<1> QED BY <1>1, <1>2

(* The inductive invariant holds in every reachable state of the composed  *)
(* stages, whatever is configured, collected, swallowed or restarted.      *)
THEOREM PipelineInvariantHolds == Spec => []PipelineInvariant
<1>1. Init => PipelineInvariant
  BY PipelineInit, PipelineAssumption, RoutingAssumption
<1>2. PipelineInvariant /\ [Next]_vars => PipelineInvariant'
  BY PipelineStep, PipelineAssumption, RoutingAssumption
<1> QED BY <1>1, <1>2, PTL DEF Spec

(* Every stage keeps within its topic, between its committed offset and    *)
(* the end of it, and holds no message between two records.                *)
THEOREM PipelineTypeOK == Spec => []TypeOK
<1>1. PipelineInvariant => TypeOK
  BY DEF PipelineInvariant, Cursors, Windows, TypeOK
<1> QED BY <1>1, PipelineInvariantHolds, PTL

(* No line of a committed record disappears: it was handed on, recorded as *)
(* ended or lost with a batch whose exception was swallowed; faults lose   *)
(* MaxBatch records each at most, and none of the prefilters'.             *)
THEOREM LinesAreHandedOnOrEnded == Spec => []HandedOnOrEnded
<1>1. ASSUME PipelineInvariant PROVE HandedOnOrEnded
  <2>1. Accounted /\ Losses /\ Cursors
    BY <1>1 DEF PipelineInvariant
  <2>2. Cardinality(lost) <= MaxBatch * faults
    <3> DEFINE L == lost \cup Skipped
    <3>1. IsFiniteSet(L) /\ Cardinality(L) <= MaxBatch * faults /\ lost \in SUBSET L
      BY <2>1 DEF Losses
    <3> HIDE DEF L
    <3>2. Cardinality(lost) <= Cardinality(L) /\ IsFiniteSet(lost)
      BY <3>1, FS_Subset
    <3>3. Cardinality(L) \in Nat /\ Cardinality(lost) \in Nat
      BY <3>1, <3>2, FS_CardinalityType
    <3> DEFINE product == MaxBatch * faults
    <3>4. product \in Int
      BY <2>1, PipelineAssumption DEF Cursors, PipelineAssumption
    <3>5. Cardinality(L) <= product
      BY <3>1
    <3> HIDE DEF product
    <3>6. Cardinality(lost) <= product
      BY <3>2, <3>3, <3>4, <3>5
    <3> QED BY <3>6 DEF product
  <2> QED BY <2>1, <2>2 DEF Accounted, DealtAccounted, Losses, HandedOnOrEnded
<1> QED BY <1>1, PipelineInvariantHolds, PTL

(* The one stage that sends to the topic of an inspector or a detector.    *)
Sender(t) ==
  IF t[1] = "inspector" THEN <<"prefilter", config.prefilter_name[t[2]]>>
                        ELSE <<"inspector", config.detector[t[2]].inspector_name>>
PartOf(r, s) ==
  /\ r.origin = <<s, r.origin[2]>> /\ r.origin[2] \in 1 .. Len(topic[s])
  /\ r.lines \subseteq topic[s][r.origin[2]].lines

(* A record of such a topic is part of one of its sender's.                *)
LEMMA OneSender ==
  ASSUME PipelineAssumption, RoutingAssumption, PipelineInvariant,
         NEW t \in Topics, t[1] \in {"inspector", "detector"}, NEW i \in 1 .. Len(topic[t])
  PROVE  /\ Sender(t) \in Stages /\ PartOf(topic[t][i], Sender(t))
         /\ t[1] = "detector" => \A l \in topic[t][i].lines : Client[l] = topic[t][i].key
<1>1. config \in Configuration /\ Sources
  BY DEF PipelineInvariant, Cursors, PipelineAssumption
<1>2. PICK s, n, r : r = topic[t][i] /\ s = r.origin[1] /\ n = r.origin[2]
  OBVIOUS
<1>3. TopicSource(t, r)
  BY <1>1, <1>2 DEF Sources
<1>4. s \in Stages /\ MadeFrom(t, s, n, r)
  BY <1>2, <1>3 DEF TopicSource
<1>5. SendsTo(s, t)
  BY <1>4 DEF MadeFrom
<1>6. s = Sender(t) /\ s[1] # "detector"
  <2>1. s[1] \in {"prefilter", "inspector", "detector", "alerter"}
    BY <1>4, StageKinds
  <2> QED BY <1>1, <1>4, <1>5, <2>1, SendsToKinds DEF Sender
<1>7. Consumed(s) = topic[s]
  BY <1>4, <1>6, ConsumeTopicKinds DEF Consumed
<1>8. PartOf(r, s)
  BY <1>2, <1>4, <1>7 DEF MadeFrom, PartOf
<1>9. t[1] = "detector" => \A l \in r.lines : Client[l] = r.key
  BY <1>4 DEF MadeFrom, ForOneClient
<1> QED BY <1>2, <1>4, <1>6, <1>8, <1>9

(* No topic holds two records made from the same one, but for the batches  *)
(* of different clients and for the alerts of a detector that lists its    *)
(* alerter more than once; a line collected once reaches an inspector and  *)
(* a detector behind one once at most, however often batches were          *)
(* repeated.                                                               *)
THEOREM NothingIsHandedOnTwice == Spec => []NothingTwice
<1>1. ASSUME PipelineInvariant PROVE NothingTwice
  <2>1. Shape /\ Unrepeated
    BY <1>1 DEF PipelineInvariant
  <2>2. ASSUME CollectedOnce, NEW p \in Prefilters,
               NEW m \in 1 .. Len(topic[<<"prefilter", p>>]),
               NEW n \in 1 .. Len(topic[<<"prefilter", p>>]), m # n
        PROVE  topic[<<"prefilter", p>>][m].lines \cap topic[<<"prefilter", p>>][n].lines = {}
    <3>1. topic[<<"prefilter", p>>] = [k \in 1 .. Len(Collected[p]) |-> FromCollector(p, k)]
      BY <2>1 DEF Shape
    <3>2. DOMAIN topic[<<"prefilter", p>>] = 1 .. Len(topic[<<"prefilter", p>>])
      <4>1. <<"prefilter", p>> \in Topics
        BY DEF Topics, Stages, Instance
      <4> QED BY <2>1, <4>1, SeqFacts DEF Shape
    <3>3. m \in 1 .. Len(Collected[p]) /\ n \in 1 .. Len(Collected[p])
      BY <2>2, <3>1, <3>2
    <3> QED BY <2>2, <3>1, <3>3 DEF CollectedOnce, FromCollector, Batch
  <2>3. ASSUME CollectedOnce, NEW t \in Topics, t[1] = "inspector",
               NEW i \in 1 .. Len(topic[t]), NEW j \in 1 .. Len(topic[t]), i # j
        PROVE  topic[t][i].lines \cap topic[t][j].lines = {}
    <3> DEFINE m == topic[t][i].origin[2]
               n == topic[t][j].origin[2]
    <3>1. /\ Sender(t) \in Stages
          /\ PartOf(topic[t][i], Sender(t)) /\ PartOf(topic[t][j], Sender(t))
      BY <1>1, <2>3, OneSender, PipelineAssumption, RoutingAssumption
    <3>2. PICK p \in Prefilters : Sender(t) = <<"prefilter", p>>
      <4>1. Sender(t) = <<"prefilter", config.prefilter_name[t[2]]>>
        BY <2>3 DEF Sender
      <4> QED BY <3>1, <4>1, StageKinds
    <3>3. /\ topic[t][i].origin = <<<<"prefilter", p>>, m>> /\ m \in 1 .. Len(topic[<<"prefilter", p>>])
          /\ topic[t][i].lines \subseteq topic[<<"prefilter", p>>][m].lines
          /\ topic[t][j].origin = <<<<"prefilter", p>>, n>> /\ n \in 1 .. Len(topic[<<"prefilter", p>>])
          /\ topic[t][j].lines \subseteq topic[<<"prefilter", p>>][n].lines
      BY <3>1, <3>2 DEF PartOf
    <3>4. m # n
      <4>1. topic[t][i].origin # topic[t][j].origin
        BY <2>1, <2>3 DEF Unrepeated, Distinct, Apart
      <4> HIDE DEF m, n
      <4> QED BY <3>3, <4>1
    <3> HIDE DEF m, n
    <3>5. topic[<<"prefilter", p>>][m].lines \cap topic[<<"prefilter", p>>][n].lines = {}
      BY <2>2, <2>3, <3>3, <3>4
    <3> QED BY <3>3, <3>5
  <2>4. ASSUME CollectedOnce, NEW t \in Topics, t[1] = "detector",
               NEW i \in 1 .. Len(topic[t]), NEW j \in 1 .. Len(topic[t]), i # j
        PROVE  topic[t][i].lines \cap topic[t][j].lines = {}
    <3> DEFINE m == topic[t][i].origin[2]
               n == topic[t][j].origin[2]
    <3>1. /\ Sender(t) \in Stages
          /\ PartOf(topic[t][i], Sender(t)) /\ PartOf(topic[t][j], Sender(t))
          /\ \A l \in topic[t][i].lines : Client[l] = topic[t][i].key
          /\ \A l \in topic[t][j].lines : Client[l] = topic[t][j].key
      BY <1>1, <2>4, OneSender, PipelineAssumption, RoutingAssumption
    <3>2. PICK s \in Topics : s = Sender(t) /\ s[1] = "inspector"
      BY <2>4, <3>1 DEF Sender, Topics
    <3>3. /\ topic[t][i].origin = <<s, m>> /\ m \in 1 .. Len(topic[s])
          /\ topic[t][i].lines \subseteq topic[s][m].lines
          /\ topic[t][j].origin = <<s, n>> /\ n \in 1 .. Len(topic[s])
          /\ topic[t][j].lines \subseteq topic[s][n].lines
      BY <3>1, <3>2 DEF PartOf
    <3>4. topic[t][i].origin # topic[t][j].origin \/ topic[t][i].key # topic[t][j].key
      BY <2>1, <2>4 DEF Unrepeated, Distinct, Apart
    <3> HIDE DEF m, n
    <3>5. CASE m = n
      BY <3>1, <3>3, <3>4, <3>5
    <3>6. CASE m # n
      <4>1. topic[s][m].lines \cap topic[s][n].lines = {}
        BY <2>3, <2>4, <3>2, <3>3, <3>6
      <4> QED BY <3>3, <4>1
    <3> QED BY <3>5, <3>6
  <2>5. ASSUME NEW t \in Topics, NEW i \in 1 .. Len(topic[t]), NEW j \in 1 .. Len(topic[t]), i # j
        PROVE  /\ \/ topic[t][i].origin # topic[t][j].origin
                  \/ t[1] = "detector" /\ topic[t][i].key # topic[t][j].key
                  \/ t[1] = "alerter" /\ topic[t][i].parent # topic[t][j].parent
               /\ t[1] \in {"inspector", "detector"} /\ CollectedOnce =>
                    topic[t][i].lines \cap topic[t][j].lines = {}
    <3>1. \/ topic[t][i].origin # topic[t][j].origin
          \/ t[1] = "detector" /\ topic[t][i].key # topic[t][j].key
          \/ t[1] = "alerter" /\ topic[t][i].parent # topic[t][j].parent
      BY <2>1, <2>5 DEF Unrepeated, Distinct, Apart
    <3> QED BY <2>3, <2>4, <2>5, <3>1
  <2> QED BY <2>5 DEF NothingTwice
<1> QED BY <1>1, PipelineInvariantHolds, PTL

(* Every row of batch_tree belongs to a record of the stage's topic, and   *)
(* its parent is a row that was recorded for that record's batch.          *)
THEOREM RowsNameRecords == Spec => []RowsNameTheirBatch
<1>1. ASSUME PipelineInvariant PROVE RowsNameTheirBatch
  <2>1. ASSUME NEW x \in tree PROVE RowNames(x)
    BY <1>1 DEF PipelineInvariant, Rows
  <2> QED BY <2>1 DEF RowNames, RowsNameTheirBatch
<1> QED BY <1>1, PipelineInvariantHolds, PTL

(* An alert names its detector and a batch that the detector committed,    *)
(* whose lines the database shows as detected, and only what the detector  *)
(* consumed; other clients' lines come only out of windows that are kept   *)
(* per domain.                                                             *)
THEOREM AlertsAreCaused == Spec => []AlertsHaveCause
<1>1. ASSUME PipelineInvariant PROVE AlertsHaveCause
  <2>1. ASSUME NEW a \in Alerters, NEW i \in 1 .. Len(topic[<<"alerter", a>>])
        PROVE  LET alert == topic[<<"alerter", a>>][i]
                   d == alert.origin[1]
                   cause == Consumed(d)[alert.origin[2]]
               IN  /\ alert.parent[1] = d /\ alert.origin[2] \in 1 .. offset[d]
                   /\ cause.batch = alert.batch /\ cause.key = alert.key
                   /\ \A l \in cause.lines : <<l, d, "detected">> \in ends
                   /\ \A l \in alert.lines : \E k \in 1 .. Len(Consumed(d)) : l \in Consumed(d)[k].lines
                   /\ d[2] \notin ByDomain =>
                        \A l \in alert.lines : /\ \E k \in cause.lines : Client[l] = Client[k]
                                               /\ OneClientForwarded => Client[l] = alert.key
    <3>1. PICK t, alert, d, n, cause :
            /\ t = <<"alerter", a>> /\ alert = topic[t][i] /\ d = alert.origin[1]
            /\ n = alert.origin[2] /\ cause = Consumed(d)[n]
      OBVIOUS
    <3>2. t \in Topics /\ t[1] = "alerter" /\ t[1] # "prefilter"
      BY <3>1 DEF Topics, Stages, Instance
    <3>3. TopicSource(t, alert)
      BY <1>1, <2>1, <3>1, <3>2 DEF PipelineInvariant, Sources
    <3>4. d \in Stages /\ n <= offset[d] /\ MadeFrom(t, d, n, alert) /\ Marked(ends, t, alert)
      BY <3>1, <3>3 DEF TopicSource
    <3>5. n \in 1 .. offset[d]
      <4>1. offset[d] \in Nat
        BY <1>1, <3>4 DEF PipelineInvariant, Cursors
      <4>2. n \in 1 .. Len(Consumed(d))
        BY <3>4 DEF MadeFrom
      <4> QED BY <3>4, <4>1, <4>2
    <3>6. alert.parent[1] = d /\ cause.batch = alert.batch /\ cause.key = alert.key
      BY <3>1, <3>2, <3>4 DEF MadeFrom
    <3>7. \A l \in cause.lines : <<l, d, "detected">> \in ends
      BY <3>1, <3>2, <3>4 DEF Marked
    <3>8. \A l \in alert.lines : \E k \in 1 .. Len(Consumed(d)) : l \in Consumed(d)[k].lines
      <4>1. \A l \in alert.lines : Seen(d, l)
        BY <3>2, <3>4 DEF MadeFrom
      <4> QED BY <4>1 DEF Seen
    <3>9. d[2] \notin ByDomain =>
            \A l \in alert.lines : /\ \E k \in cause.lines : Client[l] = Client[k]
                                   /\ OneClientForwarded => Client[l] = alert.key
      <4>1. d[2] \notin ByDomain => \A l \in alert.lines : \E k \in cause.lines : Client[l] = Client[k]
        BY <3>1, <3>2, <3>4 DEF MadeFrom
      <4>2. OneClientForwarded /\ d[2] \notin ByDomain => \A l \in alert.lines : Client[l] = alert.key
        BY <3>2, <3>4 DEF MadeFrom, ForOneClient
      <4> QED BY <4>1, <4>2
    <3> QED BY <3>1, <3>5, <3>6, <3>7, <3>8, <3>9, ZenonT(40)
  <2> QED BY <2>1, ZenonT(40) DEF AlertsHaveCause
<1> QED BY <1>1, PipelineInvariantHolds, PTL

===============================================================================
