------------------------ MODULE DomainatorWindowsProofs ------------------------
(***************************************************************************)
(* What the windows of the Domainator detector guarantee for every number  *)
(* of pairs, records and faults and for every setting of the thresholds:   *)
(* the type invariant, that a warning quotes one whole window, that stale  *)
(* windows go, and that a window holds what its pair got last.             *)
(***************************************************************************)
EXTENDS DomainatorWindows, SequenceTheorems, FiniteSetTheorems, TLAPS

-----------------------------------------------------------------------------
(* The inductive invariant.                                                *)

(* A message is known by its record and its place in it.                   *)
PairOf(id) == log[id[1]][id[2]].pair
Records == UNION {[1 .. k -> Message] : k \in 1 .. MaxRecord}
Positions == Nat \X Nat
Messages == Seq(Positions)

Cursors ==
  /\ log \in Seq(Records) /\ Len(log) <= MaxLog
  /\ committed \in Nat /\ position \in Nat /\ at \in Nat /\ next \in Nat
  /\ committed <= position /\ position <= Len(log)
  /\ step \in {"polling", "detecting", "expiring", "commit", "down"}
  /\ step \in {"detecting", "expiring"} => at < position
  /\ faults \in Nat

(* Messages that were delivered, all of one pair.                          *)
OfPair(messages, p) ==
  /\ messages \in Messages
  /\ \A i \in DOMAIN messages : messages[i] \in Ids /\ PairOf(messages[i]) = p

Windows ==
  /\ DOMAIN window \subseteq Pairs /\ touched \subseteq Pairs
  /\ \A p \in DOMAIN window :
       /\ window[p].timestamp \in Times
       /\ OfPair(window[p].messages, p) /\ Len(window[p].messages) < MaxWindow + faults

Clocks ==
  /\ latest \in Times \cup {Never} /\ checked \in Times \cup {Never}
  /\ step = "commit" => latest - checked <= Interval
  /\ \A p \in DOMAIN window \ touched : checked - window[p].timestamp <= Expiration

(* What was predicted on.                                                  *)
FullWindow(request) ==
  /\ 0 < Len(request) /\ DetectAt <= Len(request) /\ Len(request) <= MaxWindow + faults
  /\ \E p \in Pairs : OfPair(request, p)

Requested(list) == list \in Seq(Messages) /\ \A n \in DOMAIN list : FullWindow(list[n])

Queues ==
  /\ queue \in [Domains -> Messages] /\ attributed \in 0 .. Len(requests)
  /\ \A d \in Domains : \A i \in DOMAIN queue[d] : queue[d][i] \in Ids

WindowsInvariant ==
  /\ Cursors /\ Windows /\ Clocks /\ Queues
  /\ Requested(warnings) /\ Requested(output) /\ Requested(requests)

(* A step leaves the failures as they are, or adds one.                    *)
Counting == faults \in Nat /\ faults' \in {faults, faults + 1}

-----------------------------------------------------------------------------
(* Sequences and records.                                                  *)

(* A sequence over one set whose elements are in another is one over it.   *)
LEMMA SeqOver ==
  ASSUME NEW S, NEW T, NEW s \in Seq(S), \A i \in DOMAIN s : s[i] \in T
  PROVE  s \in Seq(T)
<1>1. Len(s) \in Nat /\ s \in [1 .. Len(s) -> S]
  BY LenProperties
<1>2. s \in [1 .. Len(s) -> T]
  BY <1>1
<1> QED BY <1>1, <1>2

LEMMA RestOfSequence ==
  ASSUME NEW S, NEW s \in Seq(S), NEW c \in 0 .. Len(s)
  PROVE  /\ SubSeq(s, c + 1, Len(s)) \in Seq(S)
         /\ Len(SubSeq(s, c + 1, Len(s))) = Len(s) - c
         /\ \A i \in 1 .. Len(s) - c : SubSeq(s, c + 1, Len(s))[i] = s[c + i]
<1> DEFINE m == c + 1
           n == Len(s)
<1>1. m \in 1 .. n + 1 /\ n \in Nat /\ \A i \in m .. n : s[i] \in S
  BY ElementOfSeq, LenProperties
<1>2. m \in Int /\ n \in Int
  BY <1>1
<1> HIDE DEF m, n
<1>3. /\ SubSeq(s, m, n) \in Seq(S)
      /\ Len(SubSeq(s, m, n)) = IF m <= n THEN n - m + 1 ELSE 0
      /\ \A i \in 1 .. n - m + 1 : SubSeq(s, m, n)[i] = s[m + i - 1]
  BY <1>1, <1>2, SubSeqProperties
<1>4. Len(SubSeq(s, m, n)) = n - c /\ \A i \in 1 .. n - c : SubSeq(s, m, n)[i] = s[c + i]
  BY <1>1, <1>3 DEF m
<1> QED BY <1>3, <1>4 DEF m, n

LEMMA RecordFacts ==
  ASSUME WindowsAssumption, NEW r \in Records
  PROVE  /\ Len(r) \in 1 .. MaxRecord
         /\ \A i \in 1 .. Len(r) : r[i] \in Message
<1>1. PICK k \in 1 .. MaxRecord : r \in [1 .. k -> Message]
  BY DEF Records
<1>2. k \in Nat /\ r \in Seq(Message)
  BY <1>1 DEF WindowsAssumption
<1>3. Len(r) = k
  BY <1>1, <1>2, LenProperties
<1> QED BY <1>1, <1>3

LEMMA ConcatElements ==
  ASSUME NEW S, NEW s \in Seq(S), NEW t \in Seq(S), NEW i \in DOMAIN (s \o t)
  PROVE  \/ i \in DOMAIN s /\ (s \o t)[i] = s[i]
         \/ \E j \in DOMAIN t : (s \o t)[i] = t[j]
<1>1. /\ Len(s) \in Nat /\ Len(t) \in Nat /\ DOMAIN s = 1 .. Len(s) /\ DOMAIN t = 1 .. Len(t)
      /\ DOMAIN (s \o t) = 1 .. Len(s) + Len(t)
  BY LenProperties, ConcatProperties
<1>2. CASE i <= Len(s)
  BY <1>1, <1>2
<1>3. CASE i > Len(s)
  <2>1. i - Len(s) \in DOMAIN t
    BY <1>1, <1>3
  <2>2. (s \o t)[i] = t[i - Len(s)]
    BY <1>1, <1>3
  <2> QED BY <2>1, <2>2
<1> QED BY <1>1, <1>2, <1>3

LEMMA ConcatInto ==
  ASSUME NEW S, NEW T, NEW s \in Seq(S), NEW t \in Seq(S),
         \A i \in DOMAIN s : s[i] \in T, \A i \in DOMAIN t : t[i] \in T
  PROVE  \A i \in DOMAIN (s \o t) : (s \o t)[i] \in T
BY ConcatElements

LEMMA RequestedConcat ==
  ASSUME NEW s, NEW t, Requested(s), Requested(t)
  PROVE  Requested(s \o t)
<1>1. s \in Seq(Messages) /\ t \in Seq(Messages)
  BY DEF Requested
<1>2. s \o t \in Seq(Messages)
  BY <1>1, ConcatProperties
<1>3. ASSUME NEW n \in DOMAIN (s \o t) PROVE FullWindow((s \o t)[n])
  <2>1. CASE n \in DOMAIN s /\ (s \o t)[n] = s[n]
    BY <2>1 DEF Requested
  <2>2. ASSUME NEW j \in DOMAIN t, (s \o t)[n] = t[j] PROVE FullWindow((s \o t)[n])
    BY <2>2 DEF Requested
  <2> QED BY <1>1, <2>1, <2>2, ConcatElements
<1> QED BY <1>2, <1>3 DEF Requested

LEMMA RequestedNothing == Requested(<<>>)
<1>1. <<>> \in Seq(Messages) /\ DOMAIN <<>> = {}
  OBVIOUS
<1> QED BY <1>1 DEF Requested

-----------------------------------------------------------------------------
(* What a longer log leaves alone.                                         *)

LEMMA LogKept ==
  ASSUME UNCHANGED log
  PROVE  /\ Ids' = Ids
         /\ \A id \in Ids : PairOf(id)' = PairOf(id) /\ Ts(id)' = Ts(id)
BY DEF Ids, PairOf, Ts

LEMMA LogGrows ==
  ASSUME WindowsAssumption, Cursors, Arrive
  PROVE  /\ Cursors'
         /\ \A id \in Ids : id \in Ids' /\ PairOf(id)' = PairOf(id)
<1>1. PICK k \in 1 .. MaxRecord : \E record \in [1 .. k -> Message] : log' = Append(log, record)
  BY DEF Arrive
<1>2. PICK record \in [1 .. k -> Message] : log' = Append(log, record)
  BY <1>1
<1>3. log \in Seq(Records) /\ record \in Records
  BY DEF Cursors, Records
<1>4. /\ log' \in Seq(Records) /\ Len(log) \in Nat /\ Len(log') = Len(log) + 1
      /\ \A n \in 1 .. Len(log) : log'[n] = log[n]
  BY <1>2, <1>3
<1>5. Cursors'
  <2>1. UNCHANGED <<committed, position, at, next, step, faults>> /\ Len(log) < MaxLog /\ MaxLog \in Nat
    BY DEF Arrive, offsets, WindowsAssumption
  <2> QED BY <1>4, <2>1, SMTT(20) DEF Cursors
<1>6. ASSUME NEW id \in Ids PROVE id \in Ids' /\ PairOf(id)' = PairOf(id)
  <2>1. id[1] \in 1 .. Len(log) /\ id[1] \in 1 .. Len(log') /\ log'[id[1]] = log[id[1]]
    BY <1>4, SMTT(20) DEF Ids
  <2> QED BY <2>1 DEF Ids, PairOf
<1> QED BY <1>5, <1>6

(* What was asked for stays what it was, and what a window holds too.      *)
LEMMA RequestKept ==
  ASSUME WindowsAssumption, Counting,
         \A id \in Ids : id \in Ids' /\ PairOf(id)' = PairOf(id),
         NEW request, FullWindow(request)
  PROVE  FullWindow(request)'
<1>1. PICK p \in Pairs : OfPair(request, p)
  BY DEF FullWindow
<1>2. OfPair(request, p)'
  BY <1>1 DEF OfPair, PairOf
<1>3. Len(request) \in Nat /\ Len(request) <= MaxWindow + faults
  BY <1>1, LenProperties DEF FullWindow, OfPair, Messages
<1>4. Len(request) <= MaxWindow + faults'
  <2> DEFINE k == Len(request)
  <2> HIDE DEF k
  <2>1. k \in Nat /\ k <= MaxWindow + faults
    BY <1>3 DEF k
  <2>2. k <= MaxWindow + faults'
    BY <2>1 DEF Counting, WindowsAssumption
  <2> QED BY <2>2 DEF k
<1> QED BY <1>2, <1>4 DEF FullWindow

LEMMA ListKept ==
  ASSUME WindowsAssumption, Counting,
         \A id \in Ids : id \in Ids' /\ PairOf(id)' = PairOf(id),
         NEW list, Requested(list)
  PROVE  Requested(list)'
<1>1. \A n \in DOMAIN list : FullWindow(list[n])'
  BY RequestKept DEF Requested
<1> QED BY <1>1 DEF Requested

(* The same for lists that have taken new values.                          *)
LEMMA RequestedStays ==
  ASSUME WindowsAssumption, Counting,
         \A id \in Ids : id \in Ids' /\ PairOf(id)' = PairOf(id),
         Requested(warnings'), Requested(output'), Requested(requests')
  PROVE  Requested(warnings)' /\ Requested(output)' /\ Requested(requests)'
<1>1. PICK w, o, r : w = warnings' /\ o = output' /\ r = requests'
  OBVIOUS
<1>2. Requested(w) /\ Requested(o) /\ Requested(r)
  BY <1>1
<1>3. Requested(w)' /\ Requested(o)' /\ Requested(r)'
  BY <1>2, ListKept
<1> QED BY <1>1, <1>3

LEMMA RequestedKept ==
  ASSUME WindowsAssumption, Counting,
         \A id \in Ids : id \in Ids' /\ PairOf(id)' = PairOf(id),
         UNCHANGED <<warnings, output, requests>>,
         Requested(warnings), Requested(output), Requested(requests)
  PROVE  Requested(warnings)' /\ Requested(output)' /\ Requested(requests)'
<1>1. Requested(warnings') /\ Requested(output') /\ Requested(requests')
  OBVIOUS
<1> QED BY <1>1, RequestedStays

LEMMA WindowsKept ==
  ASSUME WindowsAssumption, Counting,
         \A id \in Ids : id \in Ids' /\ PairOf(id)' = PairOf(id), UNCHANGED memory, Windows
  PROVE  Windows'
<1>1. ASSUME NEW p \in DOMAIN window PROVE Len(window[p].messages) < MaxWindow + faults'
  <2> DEFINE k == Len(window[p].messages)
  <2>1. k \in Nat /\ k < MaxWindow + faults
    BY LenProperties DEF Windows, OfPair, Messages
  <2> HIDE DEF k
  <2>2. k < MaxWindow + faults'
    BY <2>1 DEF Counting, WindowsAssumption
  <2> QED BY <2>2 DEF k
<1> QED BY <1>1 DEF Windows, OfPair, PairOf, memory

LEMMA QueuesKept ==
  ASSUME \A id \in Ids : id \in Ids', UNCHANGED <<attribution, requests>>, Queues
  PROVE  Queues'
BY DEF Queues, attribution

LEMMA ArriveStep ==
  ASSUME WindowsAssumption, WindowsInvariant, Arrive
  PROVE  WindowsInvariant'
<1>0. Counting
  BY DEF Counting, WindowsInvariant, Cursors, Arrive
<1>1. Cursors' /\ \A id \in Ids : id \in Ids' /\ PairOf(id)' = PairOf(id)
  BY LogGrows DEF WindowsInvariant
<1>2. UNCHANGED <<step, memory, warnings, output, requests, attribution>>
  BY DEF Arrive
<1>3. Windows'
  BY <1>0, <1>1, <1>2, WindowsKept DEF WindowsInvariant
<1>4. Clocks'
  BY <1>2 DEF WindowsInvariant, Clocks, memory
<1>5. Queues'
  BY <1>1, <1>2, QueuesKept DEF WindowsInvariant
<1>6. Requested(warnings)' /\ Requested(output)' /\ Requested(requests)'
  BY <1>0, <1>1, <1>2, RequestedKept DEF WindowsInvariant
<1> QED BY <1>1, <1>3, <1>4, <1>5, <1>6 DEF WindowsInvariant

LEMMA FetchStep ==
  ASSUME WindowsAssumption, WindowsInvariant, Fetch
  PROVE  WindowsInvariant'
<1>0. Counting
  BY DEF Counting, WindowsInvariant, Cursors, Fetch
<1>1. UNCHANGED <<log, memory, warnings, output, requests, attribution>> /\ step' = "detecting"
  BY DEF Fetch
<1>2. \A id \in Ids : id \in Ids' /\ PairOf(id)' = PairOf(id)
  BY <1>1, LogKept
<1>3. Cursors'
  <2>1. PICK n \in 1 .. MaxBatch : position + n <= Len(log) /\ position' = position + n
    BY DEF Fetch
  <2>2. /\ UNCHANGED <<log, committed>> /\ at' = position /\ next' = 0 /\ step' = "detecting"
        /\ n \in Nat \ {0}
    BY DEF Fetch, WindowsAssumption
  <2>3. faults' \in Nat
    BY <1>0 DEF Counting
  <2> QED BY <2>1, <2>2, <2>3, SMTT(20) DEF WindowsInvariant, Cursors
<1>4. Windows'
  BY <1>0, <1>1, <1>2, WindowsKept DEF WindowsInvariant
<1>5. Clocks'
  BY <1>1 DEF WindowsInvariant, Clocks, memory
<1>6. Queues'
  BY <1>1, <1>2, QueuesKept DEF WindowsInvariant
<1>7. Requested(warnings)' /\ Requested(output)' /\ Requested(requests)'
  BY <1>0, <1>1, <1>2, RequestedKept DEF WindowsInvariant
<1> QED BY <1>3, <1>4, <1>5, <1>6, <1>7 DEF WindowsInvariant

(* A full window loses its oldest messages and nothing else.               *)
LEMMA AfterPredictionIsWindow ==
  ASSUME WindowsAssumption, NEW p, NEW messages, NEW more \in Nat,
         OfPair(messages, p), 0 < Len(messages), Len(messages) <= MaxWindow + more
  PROVE  OfPair(AfterPrediction(messages), p) /\ Len(AfterPrediction(messages)) < MaxWindow + more
<1> DEFINE k == Len(messages)
<1>1. messages \in Messages /\ k \in Nat /\ DOMAIN messages = 1 .. k
  BY LenProperties DEF OfPair, Messages
<1>2. Cut \in 1 .. MaxWindow /\ MaxWindow \in Nat /\ DetectAt \in Nat /\ DetectAt <= MaxWindow
  BY DEF WindowsAssumption
<1>3. CASE k < MaxWindow
  <2>1. AfterPrediction(messages) = messages
    BY <1>1, <1>2, <1>3 DEF AfterPrediction
  <2> HIDE DEF k
  <2>2. k < MaxWindow + more
    BY <1>1, <1>2, <1>3
  <2> QED BY <2>1, <2>2 DEF k
<1>4. CASE k >= MaxWindow
  <2> DEFINE rest == SubSeq(messages, Cut + 1, Len(messages))
  <2>1. AfterPrediction(messages) = rest
    <3>1. k >= DetectAt
      <4> HIDE DEF k
      <4> QED BY <1>1, <1>2, <1>4
    <3> QED BY <1>4, <3>1, Zenon DEF AfterPrediction
  <2>2. Cut \in 0 .. k
    <3> HIDE DEF k
    <3> QED BY <1>1, <1>2, <1>4
  <2>3. /\ rest \in Messages /\ Len(rest) = k - Cut
        /\ \A i \in 1 .. k - Cut : rest[i] = messages[Cut + i]
    BY <1>1, <2>2, RestOfSequence DEF Messages
  <2>4. DOMAIN rest = 1 .. k - Cut
    BY <2>3, LenProperties DEF Messages
  <2> HIDE DEF rest, k
  <2>5. \A i \in 1 .. k - Cut : Cut + i \in 1 .. k
    BY <1>1, <2>2
  <2>6. OfPair(rest, p)
    BY <1>1, <2>3, <2>4, <2>5 DEF OfPair
  <2>7. k - Cut < MaxWindow + more
    BY <1>1, <1>2 DEF k
  <2> QED BY <2>1, <2>3, <2>6, <2>7
<1> HIDE DEF k
<1> QED BY <1>1, <1>2, <1>3, <1>4

(* The message at hand, and its window with it.                            *)
LEMMA MessageAtHand ==
  ASSUME WindowsAssumption, WindowsInvariant, step = "detecting", next < Len(log[at + 1])
  PROVE  /\ Id \in Ids /\ Id \in Positions /\ Pair \in Pairs /\ PairOf(Id) = Pair /\ Ts(Id) \in Times
         /\ OfPair(Appended, Pair) /\ 0 < Len(Appended) /\ Len(Appended) <= MaxWindow + faults
<1>1. /\ log \in Seq(Records) /\ at \in Nat /\ next \in Nat /\ position \in Nat /\ faults \in Nat
      /\ at < position /\ position <= Len(log)
  BY DEF WindowsInvariant, Cursors
<1>2. log[at + 1] \in Records /\ at + 1 \in 1 .. Len(log) /\ Len(log) \in Nat
  <2>1. Len(log) \in Nat
    BY <1>1, LenProperties
  <2>2. at + 1 \in 1 .. Len(log)
    BY <1>1, <2>1
  <2> QED BY <1>1, <2>1, <2>2, ElementOfSeq
<1>3. next + 1 \in 1 .. Len(log[at + 1]) /\ next + 1 \in 1 .. MaxRecord /\ log[at + 1][next + 1] \in Message
  <2> DEFINE k == Len(log[at + 1])
  <2>1. k \in 1 .. MaxRecord /\ \A i \in 1 .. k : log[at + 1][i] \in Message
    BY <1>2, RecordFacts
  <2> HIDE DEF k
  <2>2. next + 1 \in 1 .. k /\ next + 1 \in 1 .. MaxRecord
    <3>1. next \in Nat /\ MaxRecord \in Nat /\ next < k
      BY <1>1 DEF WindowsAssumption, k
    <3> QED BY <2>1, <3>1
  <2> QED BY <2>1, <2>2 DEF k
<1>4. Pair \in Pairs /\ Id \in Ids /\ Id \in Positions /\ PairOf(Id) = Pair /\ Ts(Id) \in Times
  <2>1. Id[1] = at + 1 /\ Id[2] = next + 1
    BY DEF Id
  <2>2. Id \in Ids /\ Id \in Positions
    BY <1>1, <1>2, <1>3, SMTT(20) DEF Ids, Positions, Id
  <2>3. Pair \in Pairs /\ log[at + 1][next + 1].ts \in Times
    BY <1>3 DEF Message, Pair
  <2> QED BY <2>1, <2>2, <2>3 DEF PairOf, Ts, Pair
<1> DEFINE known == IF Pair \in DOMAIN window THEN window[Pair].messages ELSE <<>>
<1>5. OfPair(known, Pair) /\ Len(known) \in Nat /\ Len(known) < MaxWindow + faults
  <2>1. CASE Pair \in DOMAIN window
    <3>1. OfPair(known, Pair) /\ Len(known) < MaxWindow + faults
      BY <2>1 DEF WindowsInvariant, Windows
    <3> HIDE DEF known
    <3> QED BY <3>1, LenProperties DEF OfPair, Messages
  <2>2. CASE Pair \notin DOMAIN window
    <3>1. known = <<>>
      BY <2>2
    <3> HIDE DEF known
    <3>2. known \in Messages /\ Len(known) = 0 /\ DOMAIN known = {}
      BY <3>1 DEF Messages
    <3>3. 0 < MaxWindow + faults
      BY <1>1 DEF WindowsAssumption
    <3> QED BY <3>2, <3>3 DEF OfPair
  <2> QED BY <2>1, <2>2
<1>6. Appended = Append(known, Id)
  BY DEF Appended
<1> HIDE DEF known
<1>7. /\ Appended \in Messages /\ Len(Appended) = Len(known) + 1
      /\ \A i \in 1 .. Len(Appended) :
           \/ i \in 1 .. Len(known) /\ Appended[i] = known[i]
           \/ Appended[i] = Id
  <2>1. known \in Seq(Positions) /\ Id \in Positions
    BY <1>4, <1>5 DEF OfPair, Messages
  <2>2. /\ Appended \in Seq(Positions) /\ Len(Appended) = Len(known) + 1
        /\ \A i \in 1 .. Len(known) : Appended[i] = known[i]
        /\ Appended[Len(known) + 1] = Id
    BY <1>6, <2>1, AppendProperties
  <2>3. \A i \in 1 .. Len(known) + 1 : i \in 1 .. Len(known) \/ i = Len(known) + 1
    BY <1>5
  <2> QED BY <2>2, <2>3 DEF Messages
<1>8. DOMAIN Appended = 1 .. Len(Appended) /\ DOMAIN known = 1 .. Len(known)
  BY <1>5, <1>7, LenProperties DEF OfPair, Messages
<1>9. OfPair(Appended, Pair)
  BY <1>4, <1>5, <1>7, <1>8 DEF OfPair
<1>10. 0 < Len(Appended) /\ Len(Appended) <= MaxWindow + faults
  <2> DEFINE k == Len(known)
  <2>1. k \in Nat /\ k < MaxWindow + faults
    BY <1>5
  <2> HIDE DEF k
  <2>2. MaxWindow \in Nat /\ faults \in Nat
    BY <1>1 DEF WindowsAssumption
  <2>3. 0 < k + 1 /\ k + 1 <= MaxWindow + faults
    BY <2>1, <2>2
  <2> QED BY <1>7, <2>3 DEF k
<1> QED BY <1>4, <1>9, <1>10

(* What every way to take a message keeps, whatever the window is left     *)
(* with.                                                                   *)
LEMMA TakeKeeps ==
  ASSUME WindowsAssumption, WindowsInvariant, Counting,
         NEW messages, Take(messages), OfPair(messages, Pair), Len(messages) < MaxWindow + faults',
         step' # "commit"
  PROVE  /\ UNCHANGED <<log, committed, at, requests, attribution>>
         /\ \A id \in Ids : id \in Ids' /\ PairOf(id)' = PairOf(id)
         /\ Windows' /\ Clocks' /\ Queues'
<1>0. PICK p, id : p = Pair /\ id = Id
  OBVIOUS
<1> DEFINE after == [timestamp |-> Ts(id), messages |-> messages]
<1>1. /\ step = "detecting" /\ next < Len(log[at + 1])
      /\ window' = [q \in DOMAIN window \cup {p} |-> IF q = p THEN after ELSE window[q]]
      /\ latest' = Newest(latest, Ts(id))
      /\ touched' = touched \cup {p}
      /\ UNCHANGED <<log, committed, at, checked, requests, attribution>>
  BY <1>0, Zenon DEF Take
<1>2. p \in Pairs /\ Ts(id) \in Times
  BY <1>0, <1>1, MessageAtHand
<1>3. /\ Ids' = Ids /\ \A x \in Ids : x \in Ids' /\ PairOf(x)' = PairOf(x)
  BY <1>1, LogKept
<1>4. PICK a : a = after
  OBVIOUS
<1>5. /\ DOMAIN window' = DOMAIN window \cup {p} /\ window'[p] = a
      /\ a.timestamp \in Times /\ a.messages = messages
      /\ \A q \in DOMAIN window \ {p} : window'[q] = window[q]
  BY <1>1, <1>2, <1>4
<1> HIDE DEF after
<1>6. Windows'
  <2>1. DOMAIN window' \subseteq Pairs /\ touched' \subseteq Pairs
    BY <1>1, <1>2, <1>5 DEF WindowsInvariant, Windows
  <2>2. ASSUME NEW q \in DOMAIN window \ {p}
        PROVE  /\ window'[q].timestamp \in Times
               /\ OfPair(window[q].messages, q)' /\ Len(window'[q].messages) < MaxWindow + faults'
    <3>1. window'[q] = window[q] /\ UNCHANGED log
      BY <1>1, <1>5
    <3>2. /\ window[q].timestamp \in Times
          /\ OfPair(window[q].messages, q) /\ Len(window[q].messages) < MaxWindow + faults
      BY DEF WindowsInvariant, Windows
    <3>3. Len(window[q].messages) < MaxWindow + faults'
      <4> DEFINE k == Len(window[q].messages)
      <4>1. k \in Nat /\ k < MaxWindow + faults
        BY <3>2, LenProperties DEF OfPair, Messages
      <4> HIDE DEF k
      <4>2. k < MaxWindow + faults'
        BY <4>1 DEF Counting, WindowsAssumption
      <4> QED BY <4>2 DEF k
    <3> QED BY <1>3, <3>1, <3>2, <3>3 DEF OfPair, PairOf
  <2>3. /\ window'[p].timestamp \in Times
        /\ Len(window'[p].messages) < MaxWindow + faults'
    BY <1>5
  <2>4. ASSUME NEW q \in DOMAIN window', q = p
        PROVE  OfPair(window[q].messages, q)'
    <3>1. window'[q].messages = messages /\ OfPair(messages, q)
      BY <1>0, <1>5, <2>4
    <3>2. /\ window'[q].messages \in Messages
          /\ \A i \in DOMAIN window'[q].messages :
               LET m == window'[q].messages[i] IN m \in Ids /\ log[m[1]][m[2]].pair = q
      BY <3>1 DEF OfPair, PairOf
    <3> QED BY <1>1, <1>3, <3>2 DEF OfPair, PairOf
  <2> QED BY <1>5, <2>1, <2>2, <2>3, <2>4 DEF Windows
<1>7. Clocks'
  <2>1. latest' \in Times \cup {Never}
    BY <1>1, <1>2 DEF WindowsInvariant, Clocks, Newest
  <2> QED BY <1>1, <1>5, <2>1 DEF WindowsInvariant, Clocks
<1>8. Queues'
  BY <1>1, <1>3, QueuesKept DEF WindowsInvariant
<1> QED BY <1>1, <1>3, <1>6, <1>7, <1>8

LEMMA DetectStep ==
  ASSUME WindowsAssumption, WindowsInvariant, Detect
  PROVE  WindowsInvariant'
<1>1. /\ Take(AfterPrediction(Appended)) /\ step = "detecting" /\ next < Len(log[at + 1])
      /\ \/ UNCHANGED warnings
         \/ Len(Appended) >= DetectAt /\ warnings' = Append(warnings, Appended)
      /\ next' = next + 1 /\ step' \in {"expiring", "detecting"}
      /\ UNCHANGED <<position, output, faults>>
  BY Zenon DEF Detect, Take, Advance
<1>2. Counting
  BY <1>1 DEF Counting, WindowsInvariant, Cursors
<1>3. PICK messages, rest : messages = Appended /\ rest = AfterPrediction(Appended)
  OBVIOUS
<1>4. /\ OfPair(messages, Pair) /\ 0 < Len(messages) /\ Len(messages) <= MaxWindow + faults
      /\ Pair \in Pairs
  BY <1>1, <1>3, MessageAtHand
<1>5. OfPair(rest, Pair) /\ Len(rest) < MaxWindow + faults'
  <2>1. faults' = faults /\ faults \in Nat /\ rest = AfterPrediction(messages)
    BY <1>1, <1>2, <1>3 DEF Counting
  <2>2. OfPair(rest, Pair) /\ Len(rest) < MaxWindow + faults
    BY <1>4, <2>1, AfterPredictionIsWindow
  <2> QED BY <2>1, <2>2
<1>6. Take(rest) /\ step' # "commit"
  BY <1>1, <1>3
<1>7. /\ UNCHANGED <<log, committed, at, requests, attribution>>
      /\ \A id \in Ids : id \in Ids' /\ PairOf(id)' = PairOf(id)
      /\ Windows' /\ Clocks' /\ Queues'
  BY <1>2, <1>5, <1>6, TakeKeeps
<1>8. Cursors'
  <2>1. /\ log \in Seq(Records) /\ at \in Nat /\ next \in Nat /\ position \in Nat /\ committed \in Nat
        /\ at < position /\ position <= Len(log) /\ Len(log) <= MaxLog /\ committed <= position
    BY <1>1 DEF WindowsInvariant, Cursors
  <2>2. next' \in Nat /\ faults' \in Nat
    <3>1. next' \in Nat
      <4>1. next' = next + 1 /\ next \in Nat
        BY <1>1, <2>1
      <4> QED BY <4>1
    <3>2. faults' \in Nat
      BY <1>2 DEF Counting
    <3> QED BY <3>1, <3>2
  <2>3. UNCHANGED <<log, committed, at, position>>
    BY <1>1, <1>7
  <2>4. log' \in Seq(Records) /\ Len(log') <= MaxLog /\ position' <= Len(log')
    BY <2>1, <2>3
  <2>5. /\ committed' \in Nat /\ position' \in Nat /\ at' \in Nat
        /\ committed' <= position' /\ at' < position'
    BY <2>1, <2>3
  <2> QED BY <1>1, <2>2, <2>4, <2>5 DEF Cursors
<1>9. Requested(warnings') /\ Requested(output') /\ Requested(requests')
  <2>1. CASE UNCHANGED warnings
    BY <1>1, <1>7, <2>1 DEF WindowsInvariant
  <2>2. CASE Len(Appended) >= DetectAt /\ warnings' = Append(warnings, Appended)
    <3>1. FullWindow(messages) /\ messages \in Messages
      <4>1. DetectAt <= Len(messages)
        BY <1>3, <1>4, <2>2, LenProperties DEF OfPair, Messages, WindowsAssumption
      <4> QED BY <1>4, <4>1 DEF FullWindow, OfPair
    <3>2. /\ warnings' \in Seq(Messages)
          /\ \A n \in DOMAIN warnings' :
               \/ warnings'[n] = messages
               \/ n \in DOMAIN warnings /\ warnings'[n] = warnings[n]
      <4>1. warnings \in Seq(Messages) /\ warnings' = Append(warnings, messages)
        BY <1>3, <2>2 DEF WindowsInvariant, Requested
      <4> QED BY <3>1, <4>1, AppendProperties
    <3>3. \A n \in DOMAIN warnings' : FullWindow(warnings'[n])
      BY <3>1, <3>2 DEF WindowsInvariant, Requested
    <3> QED BY <1>1, <1>7, <3>2, <3>3 DEF Requested, WindowsInvariant
  <2> QED BY <1>1, <2>1, <2>2
<1>10. Requested(warnings)' /\ Requested(output)' /\ Requested(requests)'
  BY <1>2, <1>7, <1>9, RequestedStays
<1> QED BY <1>7, <1>8, <1>10 DEF WindowsInvariant

(* A prediction that raises leaves a window with one message more, and is  *)
(* a failure more.                                                         *)
LEMMA PredictRaisesStep ==
  ASSUME WindowsAssumption, WindowsInvariant, PredictRaises
  PROVE  WindowsInvariant'
<1>1. /\ Take(Appended) /\ step = "detecting" /\ next < Len(log[at + 1])
      /\ faults' = faults + 1 /\ output' = <<>> /\ warnings' = <<>>
      /\ UNCHANGED <<position, next>> /\ step' = "polling"
  BY Zenon DEF PredictRaises, Take, Fails
<1>2. Counting
  BY <1>1 DEF Counting, WindowsInvariant, Cursors
<1>3. PICK messages : messages = Appended
  OBVIOUS
<1>4. OfPair(messages, Pair) /\ Len(messages) <= MaxWindow + faults
  BY <1>1, <1>3, MessageAtHand
<1>5. Len(messages) < MaxWindow + faults'
  <2> DEFINE k == Len(messages)
  <2>1. k \in Nat /\ k <= MaxWindow + faults
    BY <1>4, LenProperties DEF OfPair, Messages
  <2> HIDE DEF k
  <2>2. k < MaxWindow + faults'
    BY <1>1, <1>2, <2>1 DEF Counting, WindowsAssumption
  <2> QED BY <2>2 DEF k
<1>6. Take(messages) /\ step' # "commit"
  BY <1>1, <1>3
<1>7. /\ UNCHANGED <<log, committed, at, requests, attribution>>
      /\ \A id \in Ids : id \in Ids' /\ PairOf(id)' = PairOf(id)
      /\ Windows' /\ Clocks' /\ Queues'
  BY <1>2, <1>4, <1>5, <1>6, TakeKeeps
<1>8. Cursors'
  <2>1. /\ log \in Seq(Records) /\ at \in Nat /\ next \in Nat /\ position \in Nat /\ committed \in Nat
        /\ position <= Len(log) /\ Len(log) <= MaxLog /\ committed <= position
    BY DEF WindowsInvariant, Cursors
  <2>2. UNCHANGED <<log, committed, at, position, next>> /\ faults' \in Nat
    BY <1>1, <1>2, <1>7 DEF Counting
  <2> QED BY <1>1, <2>1, <2>2 DEF Cursors
<1>9. Requested(warnings') /\ Requested(output') /\ Requested(requests')
  BY <1>1, <1>7, RequestedNothing DEF WindowsInvariant
<1>10. Requested(warnings)' /\ Requested(output)' /\ Requested(requests)'
  BY <1>2, <1>7, <1>9, RequestedStays
<1> QED BY <1>7, <1>8, <1>10 DEF WindowsInvariant

LEMMA ExpireStep ==
  ASSUME WindowsAssumption, WindowsInvariant, Expire
  PROVE  WindowsInvariant'
<1>0. Counting
  BY DEF Counting, WindowsInvariant, Cursors, Expire
<1>1. /\ UNCHANGED <<log, latest, requests, attribution>>
      /\ output' = output \o warnings /\ warnings' = <<>>
  BY DEF Expire
<1>2. \A id \in Ids : id \in Ids' /\ PairOf(id)' = PairOf(id)
  BY <1>1, LogKept
<1>3. Cursors'
  <2>1. /\ step = "expiring" /\ UNCHANGED <<log, committed, position>>
        /\ at' = at + 1 /\ next' = 0
        /\ step' = IF at + 1 < position THEN "detecting" ELSE "commit"
    BY DEF Expire
  <2>2. faults' \in Nat
    BY <1>0 DEF Counting
  <2> QED BY <2>1, <2>2 DEF WindowsInvariant, Cursors
<1>4. ASSUME checked = Never \/ latest - checked > Interval PROVE Windows' /\ Clocks'
  <2>1. /\ window' = [p \in DOMAIN window \ Stale |-> window[p]]
        /\ checked' = latest /\ touched' = {}
    BY <1>4 DEF Expire
  <2>2. /\ DOMAIN window' \subseteq DOMAIN window
        /\ \A p \in DOMAIN window' : window'[p] = window[p] /\ latest - window[p].timestamp <= Expiration
    <3>1. ASSUME NEW p \in DOMAIN window \ Stale PROVE latest - window[p].timestamp <= Expiration
      <4>1. /\ latest \in Int /\ window[p].timestamp \in Int /\ Expiration \in Int
        BY DEF WindowsInvariant, Windows, Clocks, WindowsAssumption, Never
      <4>2. ~(latest - window[p].timestamp > Expiration)
        BY DEF Stale
      <4> QED BY <4>1, <4>2
    <3> QED BY <2>1, <3>1
  <2>3. Windows'
    <3>1. faults' = faults
      BY DEF Expire
    <3> QED BY <1>1, <1>2, <2>1, <2>2, <3>1 DEF WindowsInvariant, Windows, OfPair, PairOf
  <2>4. Clocks'
    BY <1>1, <2>1, <2>2 DEF WindowsInvariant, Clocks, WindowsAssumption, Never
  <2> QED BY <2>3, <2>4
<1>5. ASSUME checked # Never, ~(latest - checked > Interval) PROVE Windows' /\ Clocks'
  <2>1. UNCHANGED memory
    BY <1>1, <1>5 DEF Expire, memory
  <2>2. Windows'
    BY <1>0, <1>2, <2>1, WindowsKept DEF WindowsInvariant
  <2>3. Clocks'
    BY <1>5, <2>1 DEF WindowsInvariant, Clocks, memory, WindowsAssumption, Never
  <2> QED BY <2>2, <2>3
<1>6. Queues'
  BY <1>1, <1>2, QueuesKept DEF WindowsInvariant
<1>7. Requested(warnings)' /\ Requested(output)' /\ Requested(requests)'
  <2>1. Requested(output \o warnings) /\ Requested(<<>>)
    BY RequestedConcat, RequestedNothing DEF WindowsInvariant
  <2>2. Requested(output') /\ Requested(warnings') /\ Requested(requests')
    BY <1>1, <2>1 DEF WindowsInvariant
  <2> QED BY <1>0, <1>1, <1>2, <2>2, RequestedStays
<1> QED BY <1>3, <1>4, <1>5, <1>6, <1>7 DEF WindowsInvariant

LEMMA CommitStep ==
  ASSUME WindowsAssumption, WindowsInvariant, Commit
  PROVE  WindowsInvariant'
<1>0. Counting
  BY DEF Counting, WindowsInvariant, Cursors, Commit
<1>1. /\ UNCHANGED <<log, memory, warnings, attribution>> /\ step' = "polling"
      /\ requests' = requests \o output /\ output' = <<>>
  BY DEF Commit
<1>2. \A id \in Ids : id \in Ids' /\ PairOf(id)' = PairOf(id)
  BY <1>1, LogKept
<1>3. Cursors'
  BY DEF WindowsInvariant, Cursors, Commit
<1>4. Windows'
  BY <1>0, <1>1, <1>2, WindowsKept DEF WindowsInvariant
<1>5. Clocks'
  BY <1>1 DEF WindowsInvariant, Clocks, memory
<1>6. Queues'
  <2>1. requests \in Seq(Messages) /\ output \in Seq(Messages)
    BY DEF WindowsInvariant, Requested
  <2>2. Len(requests') = Len(requests) + Len(output) /\ Len(requests) \in Nat /\ Len(output) \in Nat
    BY <1>1, <2>1, ConcatProperties, LenProperties
  <2> QED BY <1>1, <1>2, <2>2 DEF WindowsInvariant, Queues, attribution
<1>7. Requested(warnings)' /\ Requested(output)' /\ Requested(requests)'
  <2>1. Requested(requests \o output) /\ Requested(<<>>)
    BY RequestedConcat, RequestedNothing DEF WindowsInvariant
  <2>2. Requested(output') /\ Requested(warnings') /\ Requested(requests')
    BY <1>1, <2>1 DEF WindowsInvariant
  <2> QED BY <1>0, <1>1, <1>2, <2>2, RequestedStays
<1> QED BY <1>3, <1>4, <1>5, <1>6, <1>7 DEF WindowsInvariant

LEMMA FaultStep ==
  ASSUME WindowsAssumption, WindowsInvariant, Abort \/ Swallow \/ Die
  PROVE  WindowsInvariant'
<1>0. Counting
  BY DEF Counting, WindowsInvariant, Cursors, Abort, Swallow, Die, Fault, Fails
<1>1. /\ UNCHANGED <<log, memory, requests, attribution>> /\ step' \in {"polling", "down"}
      /\ output' = <<>> /\ warnings' = <<>>
  BY DEF Abort, Swallow, Die, Fault, Fails
<1>2. \A id \in Ids : id \in Ids' /\ PairOf(id)' = PairOf(id)
  BY <1>1, LogKept
<1>3. Cursors'
  BY DEF WindowsInvariant, Cursors, Abort, Swallow, Die, Fault, Fails
<1>4. Windows'
  BY <1>0, <1>1, <1>2, WindowsKept DEF WindowsInvariant
<1>5. Clocks'
  BY <1>1 DEF WindowsInvariant, Clocks, memory
<1>6. Queues'
  BY <1>1, <1>2, QueuesKept DEF WindowsInvariant
<1>7. Requested(warnings)' /\ Requested(output)' /\ Requested(requests)'
  <2>1. Requested(output') /\ Requested(warnings') /\ Requested(requests')
    BY <1>1, RequestedNothing DEF WindowsInvariant
  <2> QED BY <1>0, <1>1, <1>2, <2>1, RequestedStays
<1> QED BY <1>3, <1>4, <1>5, <1>6, <1>7 DEF WindowsInvariant

LEMMA RestartStep ==
  ASSUME WindowsAssumption, WindowsInvariant, Restart
  PROVE  WindowsInvariant'
<1>0. Counting
  BY DEF Counting, WindowsInvariant, Cursors, Restart
<1>1. /\ UNCHANGED <<log, warnings, output, requests, attribution>> /\ step' = "polling"
      /\ DOMAIN window' = {} /\ latest' = Never /\ checked' = Never /\ touched' = {}
  BY DEF Restart
<1>2. \A id \in Ids : id \in Ids' /\ PairOf(id)' = PairOf(id)
  BY <1>1, LogKept
<1>3. Cursors'
  BY DEF WindowsInvariant, Cursors, Restart
<1>4. Windows' /\ Clocks'
  BY <1>1 DEF Windows, Clocks
<1>5. Queues'
  BY <1>1, <1>2, QueuesKept DEF WindowsInvariant
<1>6. Requested(warnings)' /\ Requested(output)' /\ Requested(requests)'
  BY <1>0, <1>1, <1>2, RequestedKept DEF WindowsInvariant
<1> QED BY <1>3, <1>4, <1>5, <1>6 DEF WindowsInvariant

LEMMA AttributeStep ==
  ASSUME WindowsAssumption, WindowsInvariant, Attribute
  PROVE  WindowsInvariant'
<1>0. Counting
  BY DEF Counting, WindowsInvariant, Cursors, Attribute
<1> DEFINE request == requests[attributed + 1]
           d == RequestDomain(request)
           longer == queue[d] \o request
           shorter == IF Len(longer) >= PredictAt /\ Len(longer) >= DropAt THEN Tail(longer) ELSE longer
<1>1. /\ attributed < Len(requests) /\ attributed' = attributed + 1
      /\ queue' = [queue EXCEPT ![d] = shorter] \/ queue' = [queue EXCEPT ![d] = longer]
      /\ UNCHANGED <<log, offsets, next, step, memory, warnings, output, requests>>
  BY DEF Attribute
<1> HIDE DEF request, d, longer, shorter
<1>2. \A id \in Ids : id \in Ids' /\ PairOf(id)' = PairOf(id)
  BY <1>1, LogKept
<1>3. FullWindow(request) /\ attributed + 1 \in 1 .. Len(requests) /\ Len(requests) \in Nat
  <2>1. /\ requests \in Seq(Messages) /\ \A n \in DOMAIN requests : FullWindow(requests[n])
        /\ attributed \in 0 .. Len(requests)
    BY DEF WindowsInvariant, Requested, Queues
  <2>2. Len(requests) \in Nat /\ DOMAIN requests = 1 .. Len(requests)
    BY <2>1, LenProperties
  <2> QED BY <1>1, <2>1, <2>2 DEF request
<1>4. PICK p \in Pairs : OfPair(request, p)
  BY <1>3 DEF FullWindow
<1>5. request \in Messages /\ 1 \in DOMAIN request
  BY <1>3, <1>4, LenProperties DEF OfPair, FullWindow, Messages
<1>6. d \in Domains
  BY <1>4, <1>5 DEF d, RequestDomain, Domains, OfPair, PairOf
<1>7. /\ longer \in Messages /\ longer # <<>>
      /\ \A i \in DOMAIN longer : longer[i] \in Ids
  <2>1. queue[d] \in Messages /\ \A i \in DOMAIN queue[d] : queue[d][i] \in Ids
    BY <1>6 DEF WindowsInvariant, Queues
  <2>2. longer \in Messages /\ Len(longer) = Len(queue[d]) + Len(request)
    BY <1>5, <2>1, ConcatProperties DEF Messages, longer
  <2>3. longer # <<>>
    BY <1>3, <2>1, <2>2, LenProperties DEF FullWindow, Messages
  <2>4. ASSUME NEW i \in DOMAIN longer PROVE longer[i] \in Ids
    <3>1. queue[d] \in Seq(Positions) /\ request \in Seq(Positions)
      BY <1>5, <2>1 DEF Messages
    <3> QED BY <1>4, <2>1, <3>1, ConcatInto DEF OfPair, longer
  <2> QED BY <2>2, <2>3, <2>4
<1>8. shorter \in Messages /\ \A i \in DOMAIN shorter : shorter[i] \in Ids
  <2>1. /\ Tail(longer) \in Messages /\ DOMAIN Tail(longer) = 1 .. Len(longer) - 1
        /\ \A i \in 1 .. Len(longer) - 1 : Tail(longer)[i] = longer[i + 1] /\ i + 1 \in DOMAIN longer
    BY <1>7 DEF Messages
  <2> QED BY <1>7, <2>1 DEF shorter
<1>9. Cursors'
  BY <1>0, <1>1 DEF WindowsInvariant, Cursors, Counting, offsets
<1>10. Windows'
  BY <1>0, <1>1, <1>2, WindowsKept DEF WindowsInvariant
<1>11. Clocks'
  BY <1>1 DEF WindowsInvariant, Clocks, memory
<1>12. Queues'
  <2>1. PICK kept \in {shorter, longer} : queue' = [queue EXCEPT ![d] = kept]
    BY <1>1
  <2>2. kept \in Messages /\ \A i \in DOMAIN kept : kept[i] \in Ids
    BY <1>7, <1>8, <2>1
  <2> QED BY <1>1, <1>2, <1>3, <1>6, <2>1, <2>2 DEF WindowsInvariant, Queues
<1>13. Requested(warnings)' /\ Requested(output)' /\ Requested(requests)'
  BY <1>0, <1>1, <1>2, RequestedKept DEF WindowsInvariant
<1> QED BY <1>9, <1>10, <1>11, <1>12, <1>13 DEF WindowsInvariant

-----------------------------------------------------------------------------

LEMMA WindowsInit == ASSUME WindowsAssumption, Init PROVE WindowsInvariant
<1>1. Cursors
  BY DEF Cursors, Init, WindowsAssumption
<1>2. Windows /\ Clocks
  BY DEF Windows, Clocks, Init
<1>3. Queues
  <2>1. <<>> \in Messages /\ DOMAIN <<>> = {} /\ Len(<<>>) = 0
    BY DEF Messages
  <2> QED BY <2>1 DEF Queues, Init
<1>4. Requested(warnings) /\ Requested(output) /\ Requested(requests)
  BY RequestedNothing DEF Init
<1> QED BY <1>1, <1>2, <1>3, <1>4 DEF WindowsInvariant

LEMMA WindowsStep ==
  ASSUME WindowsAssumption, WindowsInvariant, [Next]_vars
  PROVE  WindowsInvariant'
<1>1. CASE UNCHANGED vars
  <2>1. UNCHANGED <<log, offsets, next, step, memory, warnings, output, requests, attribution, faults>>
    BY <1>1 DEF vars
  <2>2. \A id \in Ids : id \in Ids' /\ PairOf(id)' = PairOf(id)
    BY <2>1, LogKept
  <2>3. Cursors' /\ Clocks'
    BY <2>1 DEF WindowsInvariant, Cursors, Clocks, offsets, memory
  <2>4. Counting
    BY <2>1 DEF Counting, WindowsInvariant, Cursors
  <2> QED BY <2>1, <2>2, <2>3, <2>4, WindowsKept, QueuesKept, RequestedKept DEF WindowsInvariant
<1> QED BY <1>1, ArriveStep, FetchStep, DetectStep, PredictRaisesStep, ExpireStep, CommitStep, FaultStep, RestartStep,
           AttributeStep DEF Next

(* Every reachable state satisfies the inductive invariant.                *)
THEOREM WindowsInvariantHolds == Spec => []WindowsInvariant
<1>1. WindowsAssumption
  BY WindowsAssumption
<1>2. Init => WindowsInvariant
  BY <1>1, WindowsInit
<1>3. WindowsInvariant /\ [Next]_vars => WindowsInvariant'
  BY <1>1, WindowsStep
<1> QED BY <1>2, <1>3, PTL DEF Spec

(* The type invariant of detector and attributor.                          *)
THEOREM WindowsTypeCorrect == Spec => []TypeOK
<1>1. WindowsInvariant => TypeOK
  <2> SUFFICES ASSUME WindowsInvariant PROVE TypeOK
    OBVIOUS
  <2>1. \A p \in DOMAIN window : window[p].messages \in Seq(Ids)
    BY SeqOver DEF WindowsInvariant, Windows, OfPair, Messages
  <2>2. queue \in [Domains -> Seq(Ids)]
    BY SeqOver DEF WindowsInvariant, Queues, Messages
  <2> QED BY <2>1, <2>2 DEF WindowsInvariant, Cursors, Windows, Clocks, Queues, Records, TypeOK
<1> QED BY <1>1, WindowsInvariantHolds, PTL

(* A warning quotes one whole window, also after aborts, redeliveries and  *)
(* predictions that raised: of one pair, long enough to predict on, and    *)
(* longer than max_window_requests by at most one message for each failure *)
(* (domainator_detector.py:136-171, detector.py:878).                      *)
THEOREM WarningsQuoteWindows == Spec => []RequestsAreFullWindows
<1>1. WindowsInvariant => RequestsAreFullWindows
  <2> SUFFICES ASSUME WindowsInvariant PROVE RequestsAreFullWindows
    OBVIOUS
  <2>1. ASSUME NEW request, FullWindow(request)
        PROVE  /\ DetectAt <= Len(request) /\ Len(request) <= MaxWindow + faults
               /\ Cardinality({log[request[i][1]][request[i][2]].pair : i \in DOMAIN request}) = 1
    <3>1. PICK p \in Pairs : OfPair(request, p)
      BY <2>1 DEF FullWindow
    <3>2. 1 \in DOMAIN request
      BY <2>1, <3>1, LenProperties DEF FullWindow, OfPair, Messages
    <3>3. {log[request[i][1]][request[i][2]].pair : i \in DOMAIN request} = {p}
      BY <3>1, <3>2 DEF OfPair, PairOf
    <3>4. Cardinality({p}) = 1
      BY FS_Singleton
    <3> QED BY <2>1, <3>3, <3>4 DEF FullWindow
  <2> QED BY <2>1 DEF WindowsInvariant, Requested, RequestsAreFullWindows
<1> QED BY <1>1, WindowsInvariantHolds, PTL

(* After a batch the expiry is not overdue, and what it left was not stale.*)
THEOREM StaleGo == Spec => []StaleWindowsGo
<1>1. WindowsInvariant => StaleWindowsGo
  BY DEF WindowsInvariant, Clocks, StaleWindowsGo
<1> QED BY <1>1, WindowsInvariantHolds, PTL

-----------------------------------------------------------------------------
(* What a window holds of its pair's traffic, and how often.               *)

(* s is what t ends with.                                                  *)
EndOf(s, t) ==
  Len(s) <= Len(t) /\ \A i \in 1 .. Len(s) : s[i] = t[Len(t) - Len(s) + i]

Copies(messages, id) == {i \in DOMAIN messages : messages[i] = id}

(* Messages the worker is through with, and gets again only after a fault. *)
Passed(id) ==
  IF step \in {"detecting", "expiring"}
    THEN id[1] <= at \/ (id[1] = at + 1 /\ id[2] <= next)
    ELSE id[1] <= position

History ==
  /\ faults \in Nat /\ delivered \in [Pairs -> Messages]
  /\ \A p \in DOMAIN window :
       /\ EndOf(window[p].messages, delivered[p])
       /\ Cut < MaxWindow => 0 < Len(window[p].messages)
  /\ \A p \in Pairs : \A id \in Positions :
       Cardinality(Copies(delivered[p], id)) <= IF Passed(id) THEN faults + 1 ELSE faults

LEMMA EndOfIsSuffix ==
  ASSUME NEW S, NEW s \in Seq(S), NEW t \in Seq(S), EndOf(s, t)
  PROVE  IsSuffix(s, t)
<1> DEFINE m == Len(s)
           n == Len(t)
           r == Reverse(s)
           q == Reverse(t)
<1>1. m \in Nat /\ n \in Nat /\ m <= n
  BY LenProperties DEF EndOf
<1>2. r \in Seq(S) /\ Len(r) = m /\ \A i \in 1 .. m : r[i] = s[m - i + 1]
  <2>1. \A i \in 1 .. m : m - i + 1 \in 1 .. m
    BY <1>1
  <2>2. \A i \in 1 .. m : s[m - i + 1] \in S
    BY <2>1, ElementOfSeq
  <2>3. r = [i \in 1 .. m |-> s[m - i + 1]]
    BY DEF Reverse
  <2>4. [i \in 1 .. m |-> s[m - i + 1]] \in Seq(S)
    <3> HIDE DEF m
    <3> QED BY <1>1, <2>2, IsASeq
  <2>5. DOMAIN r = 1 .. m /\ r \in Seq(S)
    BY <2>3, <2>4
  <2> HIDE DEF m, r
  <2> QED BY <1>1, <2>3, <2>5, LenProperties
<1>3. q \in Seq(S) /\ Len(q) = n /\ \A i \in 1 .. n : q[i] = t[n - i + 1]
  <2>1. \A i \in 1 .. n : n - i + 1 \in 1 .. n
    BY <1>1
  <2>2. \A i \in 1 .. n : t[n - i + 1] \in S
    BY <2>1, ElementOfSeq
  <2>3. q = [i \in 1 .. n |-> t[n - i + 1]]
    BY DEF Reverse
  <2>4. [i \in 1 .. n |-> t[n - i + 1]] \in Seq(S)
    <3> HIDE DEF n
    <3> QED BY <1>1, <2>2, IsASeq
  <2>5. DOMAIN q = 1 .. n /\ q \in Seq(S)
    BY <2>3, <2>4
  <2> HIDE DEF n, q
  <2> QED BY <1>1, <2>3, <2>5, LenProperties
<1>4. ASSUME NEW i \in 1 .. m PROVE r[i] = q[i]
  <2>1. m - i + 1 \in 1 .. m /\ n - m + (m - i + 1) = n - i + 1 /\ i \in 1 .. n
    BY <1>1
  <2>2. s[m - i + 1] = t[n - m + (m - i + 1)]
    BY <2>1 DEF EndOf
  <2> HIDE DEF m, n, r, q
  <2> QED BY <1>2, <1>3, <2>1, <2>2
<1> HIDE DEF m, n, r, q
<1>5. /\ SubSeq(r, 1, m) \in Seq(S) /\ Len(SubSeq(r, 1, m)) = m
      /\ \A i \in 1 .. m : SubSeq(r, 1, m)[i] = r[i]
  <2>1. 1 \in Int /\ m \in Int /\ \A i \in 1 .. m : r[i] \in S
    BY <1>1, <1>2, ElementOfSeq
  <2>2. /\ SubSeq(r, 1, m) \in Seq(S) /\ Len(SubSeq(r, 1, m)) = IF 1 <= m THEN m - 1 + 1 ELSE 0
        /\ \A i \in 1 .. m - 1 + 1 : SubSeq(r, 1, m)[i] = r[1 + i - 1]
    BY <2>1, SubSeqProperties
  <2> QED BY <1>1, <2>2
<1>6. /\ SubSeq(q, 1, m) \in Seq(S) /\ Len(SubSeq(q, 1, m)) = m
      /\ \A i \in 1 .. m : SubSeq(q, 1, m)[i] = q[i]
  <2>1. 1 \in Int /\ m \in Int /\ \A i \in 1 .. m : q[i] \in S
    BY <1>1, <1>3, ElementOfSeq
  <2>2. /\ SubSeq(q, 1, m) \in Seq(S) /\ Len(SubSeq(q, 1, m)) = IF 1 <= m THEN m - 1 + 1 ELSE 0
        /\ \A i \in 1 .. m - 1 + 1 : SubSeq(q, 1, m)[i] = q[1 + i - 1]
    BY <2>1, SubSeqProperties
  <2> QED BY <1>1, <2>2
<1>7. SubSeq(r, 1, m) = SubSeq(q, 1, m)
  BY <1>4, <1>5, <1>6, SeqEqual
<1>8. IsPrefix(r, q)
  BY <1>1, <1>2, <1>3, <1>7 DEF IsPrefix
<1> QED BY <1>8 DEF IsSuffix, r, q

LEMMA CopiesOfNothing == ASSUME NEW id PROVE Cardinality(Copies(<<>>, id)) = 0
<1>1. Copies(<<>>, id) = {}
  BY DEF Copies
<1> QED BY <1>1, FS_EmptySet

LEMMA CopiesFinite ==
  ASSUME NEW messages \in Messages, NEW id
  PROVE  IsFiniteSet(Copies(messages, id)) /\ Cardinality(Copies(messages, id)) \in Nat
<1>1. DOMAIN messages = 1 .. Len(messages) /\ Len(messages) \in Nat
  BY LenProperties DEF Messages
<1>2. IsFiniteSet(1 .. Len(messages))
  BY <1>1, FS_Interval
<1>3. Copies(messages, id) \in SUBSET (1 .. Len(messages))
  BY <1>1 DEF Copies
<1> QED BY <1>2, <1>3, FS_Subset, FS_CardinalityType

(* The end of a sequence holds a message no oftener than all of it.        *)
LEMMA CopiesOfEnd ==
  ASSUME NEW s \in Messages, NEW t \in Messages, EndOf(s, t), NEW id
  PROVE  Cardinality(Copies(s, id)) <= Cardinality(Copies(t, id))
<1> DEFINE A == Copies(s, id)
           B == Copies(t, id)
           k == Len(t) - Len(s)
           f == [i \in A |-> k + i]
<1>1. /\ DOMAIN s = 1 .. Len(s) /\ DOMAIN t = 1 .. Len(t)
      /\ Len(s) \in Nat /\ Len(t) \in Nat /\ Len(s) <= Len(t)
  BY LenProperties DEF Messages, EndOf
<1>2. ASSUME NEW i \in A PROVE k + i \in B /\ i \in Int
  <2>1. i \in 1 .. Len(s) /\ s[i] = id
    BY <1>1, <1>2 DEF Copies
  <2>2. k + i \in 1 .. Len(t)
    BY <1>1, <2>1
  <2>3. t[k + i] = id
    BY <2>1 DEF EndOf
  <2> QED BY <1>1, <2>1, <2>2, <2>3 DEF Copies
<1>3. k \in Int
  BY <1>1
<1> HIDE DEF A, B, k
<1>4. f \in [A -> B]
  BY <1>2
<1>5. ASSUME NEW i \in A, NEW j \in A, f[i] = f[j] PROVE i = j
  <2>1. k + i = k + j
    BY <1>5
  <2>2. i \in Int /\ j \in Int
    BY <1>2
  <2> HIDE DEF f
  <2> QED BY <1>3, <2>1, <2>2
<1>6. f \in Injection(A, B)
  BY <1>4, <1>5 DEF Injection, IsInjective
<1>7. IsFiniteSet(B)
  BY CopiesFinite DEF B
<1>8. Cardinality(A) <= Cardinality(B)
  <2> HIDE DEF f
  <2> QED BY <1>6, <1>7, FS_Injection
<1> QED BY <1>8 DEF A, B

LEMMA CopiesAppended ==
  ASSUME NEW t \in Messages, NEW x \in Positions, NEW id
  PROVE  Cardinality(Copies(Append(t, x), id)) =
           IF x = id THEN Cardinality(Copies(t, id)) + 1 ELSE Cardinality(Copies(t, id))
<1> DEFINE n == Len(t)
           u == Append(t, x)
<1>1. /\ n \in Nat /\ DOMAIN t = 1 .. n /\ DOMAIN u = 1 .. n + 1 /\ u[n + 1] = x
      /\ \A i \in 1 .. n : u[i] = t[i]
  BY AppendProperties, LenProperties DEF Messages
<1> HIDE DEF n, u
<1>2. CASE x = id
  <2>1. Copies(u, id) = Copies(t, id) \cup {n + 1}
    BY <1>1, <1>2 DEF Copies
  <2>2. n + 1 \notin Copies(t, id)
    BY <1>1 DEF Copies
  <2>3. IsFiniteSet(Copies(t, id))
    BY CopiesFinite
  <2> QED BY <1>2, <2>1, <2>2, <2>3, FS_AddElement DEF u
<1>3. CASE x # id
  <2>1. Copies(u, id) = Copies(t, id)
    BY <1>1, <1>3 DEF Copies
  <2> QED BY <1>3, <2>1 DEF u
<1> QED BY <1>2, <1>3

(* A step that leaves windows alone, and may count as a failure.           *)
LEMMA HistoryKept ==
  ASSUME History, UNCHANGED <<window, delivered>>,
         \/ UNCHANGED faults /\ \A id \in Positions : Passed(id) => Passed(id)'
         \/ faults' = faults + 1
  PROVE  History'
<1>1. faults \in Nat /\ faults' \in Nat
  BY DEF History
<1>2. ASSUME NEW p \in Pairs, NEW id \in Positions
      PROVE  Cardinality(Copies(delivered[p], id)) <= IF Passed(id)' THEN faults' + 1 ELSE faults'
  <2> DEFINE c == Cardinality(Copies(delivered[p], id))
  <2>1. c \in Nat
    BY CopiesFinite DEF History
  <2>2. c <= IF Passed(id) THEN faults + 1 ELSE faults
    BY DEF History
  <2> HIDE DEF c
  <2>3. c <= IF Passed(id)' THEN faults' + 1 ELSE faults'
    <3>1. CASE UNCHANGED faults /\ (Passed(id) => Passed(id)')
      <4>1. CASE Passed(id)'
        <5>1. c <= faults + 1
          BY <1>1, <2>1, <2>2
        <5> QED BY <3>1, <4>1, <5>1
      <4>2. CASE ~Passed(id)'
        <5>1. c <= faults
          BY <2>2, <3>1, <4>2
        <5> QED BY <3>1, <4>2, <5>1
      <4> QED BY <4>1, <4>2
    <3>2. CASE faults' = faults + 1
      <4>1. c <= faults + 1
        BY <1>1, <2>1, <2>2
      <4>2. c <= faults' /\ c <= faults' + 1
        BY <1>1, <2>1, <3>2, <4>1
      <4> QED BY <4>2
    <3> QED BY <3>1, <3>2
  <2> QED BY <2>3 DEF c
<1>3. \A p \in Pairs : \A id \in Positions :
        Cardinality(Copies(delivered'[p], id)) <= IF Passed(id)' THEN faults' + 1 ELSE faults'
  BY <1>2
<1>4. /\ delivered' \in [Pairs -> Messages]
      /\ \A p \in DOMAIN window' :
           /\ EndOf(window'[p].messages, delivered'[p])
           /\ Cut < MaxWindow => 0 < Len(window'[p].messages)
  BY DEF History
<1> QED BY <1>1, <1>3, <1>4 DEF History, EndOf, Copies

(* A full window keeps the end of what it had.                             *)
LEMMA AfterPredictionIsEnd ==
  ASSUME WindowsAssumption, NEW s \in Messages, NEW t \in Messages, EndOf(s, t), 0 < Len(s)
  PROVE  /\ EndOf(AfterPrediction(s), t)
         /\ Cut < MaxWindow => 0 < Len(AfterPrediction(s))
<1>1. /\ Len(s) \in Nat /\ Len(t) \in Nat /\ Len(s) <= Len(t)
      /\ MaxWindow \in Nat /\ Cut \in 1 .. MaxWindow
      /\ \A i \in 1 .. Len(s) : s[i] = t[Len(t) - Len(s) + i]
  BY LenProperties DEF Messages, EndOf, WindowsAssumption
<1>2. CASE AfterPrediction(s) = s
  BY <1>2
<1>3. CASE AfterPrediction(s) # s
  <2> DEFINE rest == SubSeq(s, Cut + 1, Len(s))
  <2>1. AfterPrediction(s) = rest /\ Len(s) >= MaxWindow
    BY <1>3 DEF AfterPrediction
  <2>2. /\ Len(rest) = Len(s) - Cut
        /\ \A i \in 1 .. Len(s) - Cut : rest[i] = s[Cut + i]
    <3>1. Cut \in 0 .. Len(s)
      BY <1>1, <2>1
    <3> QED BY <3>1, RestOfSequence DEF Messages
  <2> HIDE DEF rest
  <2>3. ASSUME NEW i \in 1 .. Len(rest) PROVE rest[i] = t[Len(t) - Len(rest) + i]
    <3>1. /\ i \in 1 .. Len(s) - Cut /\ Cut + i \in 1 .. Len(s)
          /\ Len(t) - Len(s) + (Cut + i) = Len(t) - Len(rest) + i
      <4> DEFINE k == Len(s)
                 m == Len(t)
                 r == Len(rest)
      <4>1. k \in Nat /\ m \in Nat /\ Cut \in Nat /\ r = k - Cut /\ i \in 1 .. r /\ k >= Cut
        BY <1>1, <2>1, <2>2
      <4> HIDE DEF k, m, r
      <4>2. i \in 1 .. k - Cut /\ Cut + i \in 1 .. k /\ m - k + (Cut + i) = m - r + i
        BY <4>1
      <4> QED BY <4>2 DEF k, m, r
    <3>2. rest[i] = s[Cut + i] /\ s[Cut + i] = t[Len(t) - Len(s) + (Cut + i)]
      BY <1>1, <2>2, <3>1
    <3> QED BY <3>1, <3>2
  <2>4. Len(rest) <= Len(t) /\ (Cut < MaxWindow => 0 < Len(rest))
    BY <1>1, <2>1, <2>2
  <2> QED BY <2>1, <2>3, <2>4 DEF EndOf
<1> QED BY <1>2, <1>3

(* The message at hand comes at the end of its window and of what its pair *)
(* got.                                                                    *)
LEMMA AppendedIsEnd ==
  ASSUME WindowsAssumption, WindowsInvariant, History, step = "detecting", next < Len(log[at + 1])
  PROVE  /\ Appended \in Messages /\ 0 < Len(Appended)
         /\ Append(delivered[Pair], Id) \in Messages
         /\ EndOf(Appended, Append(delivered[Pair], Id))
<1> DEFINE known == IF Pair \in DOMAIN window THEN window[Pair].messages ELSE <<>>
           d == delivered[Pair]
           longer == Append(d, Id)
<1>1. Pair \in Pairs /\ Id \in Positions
  BY MessageAtHand
<1>2. d \in Messages
  BY <1>1 DEF History
<1>3. known \in Messages /\ EndOf(known, d)
  <2>1. CASE Pair \in DOMAIN window
    BY <2>1 DEF WindowsInvariant, Windows, OfPair, History
  <2>2. CASE Pair \notin DOMAIN window
    <3>1. known = <<>>
      BY <2>2
    <3> HIDE DEF known, d
    <3>2. known \in Messages /\ Len(known) = 0 /\ Len(d) \in Nat
      BY <1>2, <3>1, LenProperties DEF Messages
    <3> QED BY <3>2 DEF EndOf
  <2> QED BY <2>1, <2>2
<1>4. Appended = Append(known, Id)
  BY DEF Appended
<1> HIDE DEF known, d
<1>5. /\ Len(known) \in Nat /\ Len(d) \in Nat
      /\ Appended \in Messages /\ Len(Appended) = Len(known) + 1 /\ Appended[Len(known) + 1] = Id
      /\ \A i \in 1 .. Len(known) : Appended[i] = known[i]
      /\ longer \in Messages /\ Len(longer) = Len(d) + 1
      /\ longer[Len(d) + 1] = Id
      /\ \A i \in 1 .. Len(d) : longer[i] = d[i]
  <2>1. known \in Seq(Positions) /\ d \in Seq(Positions)
    BY <1>2, <1>3 DEF Messages
  <2>2. /\ Appended \in Messages /\ Len(Appended) = Len(known) + 1 /\ Appended[Len(known) + 1] = Id
        /\ \A i \in 1 .. Len(known) : Appended[i] = known[i]
    BY <1>1, <1>4, <2>1, AppendProperties DEF Messages
  <2>3. /\ longer \in Messages /\ Len(longer) = Len(d) + 1
        /\ longer[Len(d) + 1] = Id
        /\ \A i \in 1 .. Len(d) : longer[i] = d[i]
    BY <1>1, <2>1, AppendProperties DEF Messages
  <2> QED BY <2>1, <2>2, <2>3, LenProperties
<1> HIDE DEF longer
<1>6. Len(known) <= Len(d) /\ \A i \in 1 .. Len(known) : known[i] = d[Len(d) - Len(known) + i]
  BY <1>3 DEF EndOf
<1>7. ASSUME NEW i \in 1 .. Len(Appended)
      PROVE  Appended[i] = longer[Len(longer) - Len(Appended) + i]
  <2>1. CASE i = Len(known) + 1
    <3>1. Len(longer) - Len(Appended) + i = Len(d) + 1
      BY <1>5, <2>1
    <3> QED BY <1>5, <2>1, <3>1
  <2>2. CASE i # Len(known) + 1
    <3>1. i \in 1 .. Len(known)
      BY <1>5, <1>7, <2>2
    <3>2. Len(longer) - Len(Appended) + i = Len(d) - Len(known) + i
      BY <1>5, <3>1
    <3>3. Len(d) - Len(known) + i \in 1 .. Len(d)
      BY <1>5, <1>6, <3>1
    <3> QED BY <1>5, <1>6, <3>1, <3>2, <3>3
  <2> QED BY <2>1, <2>2
<1>8. Len(Appended) <= Len(longer) /\ 0 < Len(Appended)
  BY <1>5, <1>6
<1>9. EndOf(Appended, longer)
  BY <1>7, <1>8 DEF EndOf
<1> QED BY <1>5, <1>8, <1>9 DEF longer, d

(* A message that is taken is once more among what its pair got; that the  *)
(* worker is through with it, or has failed over it, makes up for it.      *)
LEMMA HistoryTake ==
  ASSUME WindowsAssumption, WindowsInvariant, History,
         NEW id, id = Id, NEW messages, Take(messages),
         EndOf(messages, Append(delivered[Pair], Id)), Cut < MaxWindow => 0 < Len(messages),
         \A x \in Positions : Passed(x) => Passed(x)',
         \/ faults' = faults /\ Passed(id)'
         \/ faults' = faults + 1
  PROVE  History'
<1>0. PICK p, longer : p = Pair /\ longer = Append(delivered[p], id)
  OBVIOUS
<1>1. /\ step = "detecting" /\ next < Len(log[at + 1])
      /\ window' = [q \in DOMAIN window \cup {p} |->
                      IF q = p THEN [timestamp |-> Ts(id), messages |-> messages] ELSE window[q]]
      /\ delivered' = [delivered EXCEPT ![p] = longer]
  BY <1>0, Zenon DEF Take
<1>2. /\ p \in Pairs /\ id \in Positions /\ longer \in Messages
      /\ longer = Append(delivered[p], id) /\ EndOf(messages, longer)
  <2>1. /\ Pair \in Pairs /\ Id \in Positions /\ Append(delivered[Pair], Id) \in Messages
    BY <1>1, MessageAtHand, AppendedIsEnd
  <2> QED BY <1>0, <2>1
<1>3. /\ faults \in Nat /\ delivered \in [Pairs -> Messages] /\ delivered[p] \in Messages
      /\ DOMAIN window \subseteq Pairs
      /\ \A q \in DOMAIN window :
           /\ EndOf(window[q].messages, delivered[q])
           /\ Cut < MaxWindow => 0 < Len(window[q].messages)
      /\ \A q \in Pairs : \A x \in Positions :
           Cardinality(Copies(delivered[q], x)) <= IF Passed(x) THEN faults + 1 ELSE faults
  BY <1>2 DEF History, WindowsInvariant, Windows
<1>4. /\ DOMAIN window' = DOMAIN window \cup {p} /\ window'[p].messages = messages
      /\ \A q \in DOMAIN window \ {p} : window'[q] = window[q]
  BY <1>1
<1>5. delivered' \in [Pairs -> Messages] /\ delivered'[p] = longer
      /\ \A q \in Pairs \ {p} : delivered'[q] = delivered[q]
  BY <1>1, <1>2, <1>3
<1>6. ASSUME NEW q \in DOMAIN window'
      PROVE  /\ EndOf(window'[q].messages, delivered'[q])
             /\ Cut < MaxWindow => 0 < Len(window'[q].messages)
  <2>1. CASE q = p
    BY <1>2, <1>4, <1>5, <2>1
  <2>2. CASE q # p
    <3>1. q \in DOMAIN window /\ window'[q] = window[q] /\ delivered'[q] = delivered[q]
      BY <1>3, <1>4, <1>5, <1>6, <2>2
    <3> QED BY <1>3, <3>1
  <2> QED BY <2>1, <2>2
<1>7. ~Passed(id)
  <2>1. at \in Nat /\ next \in Nat /\ id[1] = at + 1 /\ id[2] = next + 1
    BY <1>0 DEF WindowsInvariant, Cursors, Id
  <2>2. ~(at + 1 <= at) /\ ~(next + 1 <= next)
    BY <2>1
  <2> QED BY <1>1, <2>1, <2>2 DEF Passed
<1>8. ASSUME NEW q \in Pairs, NEW x \in Positions
      PROVE  Cardinality(Copies(delivered'[q], x)) <= IF Passed(x)' THEN faults' + 1 ELSE faults'
  <2> DEFINE c == Cardinality(Copies(delivered[q], x))
             e == Cardinality(Copies(delivered'[q], x))
  <2>1. c \in Nat /\ c <= IF Passed(x) THEN faults + 1 ELSE faults
    BY <1>3, CopiesFinite
  <2>2. e = c \/ (x = id /\ e = c + 1)
    <3>1. CASE q = p
      <4>1. delivered'[q] = Append(delivered[q], id) /\ delivered[q] \in Messages
        BY <1>2, <1>3, <1>5, <3>1
      <4>2. Cardinality(Copies(Append(delivered[q], id), x)) =
              IF id = x THEN Cardinality(Copies(delivered[q], x)) + 1 ELSE Cardinality(Copies(delivered[q], x))
        BY <1>2, <4>1, CopiesAppended
      <4> QED BY <4>1, <4>2
    <3>2. CASE q # p
      BY <1>5, <3>2
    <3> QED BY <3>1, <3>2
  <2> HIDE DEF c, e
  <2>3. CASE e = c /\ faults' = faults
    <3>1. CASE Passed(x)'
      <4>1. c <= faults + 1
        BY <1>3, <2>1
      <4> QED BY <2>3, <3>1, <4>1 DEF e
    <3>2. CASE ~Passed(x)'
      <4>1. c <= faults
        BY <2>1, <3>2
      <4> QED BY <2>3, <3>2, <4>1 DEF e
    <3> QED BY <3>1, <3>2
  <2>4. CASE x = id /\ e = c + 1 /\ faults' = faults
    <3>1. Passed(x)'
      <4>1. faults' # faults + 1
        BY <1>3, <2>4
      <4> QED BY <2>4, <4>1
    <3>2. c <= faults
      BY <1>7, <2>1, <2>4
    <3>3. e <= faults' + 1
      BY <1>3, <2>1, <2>4, <3>2
    <3> QED BY <3>1, <3>3 DEF e
  <2>5. CASE faults' = faults + 1
    <3>1. e <= faults + 1
      <4>1. CASE e = c
        <5>1. c <= faults + 1
          BY <1>3, <2>1
        <5> QED BY <4>1, <5>1
      <4>2. CASE x = id /\ e = c + 1
        <5>1. c <= faults
          BY <1>7, <2>1, <4>2
        <5> QED BY <1>3, <2>1, <4>2, <5>1
      <4> QED BY <2>2, <4>1, <4>2
    <3>2. e \in Nat
      BY <2>1, <2>2
    <3>3. e <= faults' /\ e <= faults' + 1
      BY <1>3, <2>5, <3>1, <3>2
    <3> QED BY <3>3 DEF e
  <2> QED BY <2>2, <2>3, <2>4, <2>5
<1>9. faults' \in Nat
  BY <1>3
<1> QED BY <1>5, <1>6, <1>8, <1>9 DEF History, EndOf, Copies

LEMMA HistoryDetect ==
  ASSUME WindowsAssumption, WindowsInvariant, History, Detect
  PROVE  History'
<1>1. /\ Take(AfterPrediction(Appended)) /\ step = "detecting" /\ next < Len(log[at + 1])
      /\ next' = next + 1 /\ step' \in {"detecting", "expiring"} /\ at' = at /\ faults' = faults
  BY Zenon DEF Detect, Take, Advance
<1>2. PICK rest : rest = AfterPrediction(Appended)
  OBVIOUS
<1>3. /\ EndOf(rest, Append(delivered[Pair], Id))
      /\ Cut < MaxWindow => 0 < Len(rest)
  BY <1>1, <1>2, AppendedIsEnd, AfterPredictionIsEnd
<1>4. PICK id : id = Id /\ id[1] = at + 1 /\ id[2] = next + 1 /\ at \in Nat /\ next \in Nat
  <2>1. at \in Nat /\ next \in Nat /\ Id[1] = at + 1 /\ Id[2] = next + 1
    BY DEF Id, WindowsInvariant, Cursors
  <2> HIDE DEF Id
  <2> QED BY <2>1, Zenon
<1>5. Passed(id)'
  <2>1. next + 1 <= next + 1
    BY <1>4
  <2> QED BY <1>1, <1>4, <2>1 DEF Passed
<1>6. ASSUME NEW x \in Positions, Passed(x) PROVE Passed(x)'
  <2>1. x[1] <= at \/ (x[1] = at + 1 /\ x[2] <= next)
    BY <1>1, <1>6 DEF Passed
  <2>2. x[2] <= next => x[2] <= next + 1
    BY <1>4 DEF Positions
  <2> QED BY <1>1, <2>1, <2>2 DEF Passed
<1> QED BY <1>1, <1>2, <1>3, <1>4, <1>5, <1>6, HistoryTake

LEMMA HistoryRaises ==
  ASSUME WindowsAssumption, WindowsInvariant, History, PredictRaises
  PROVE  History'
<1>1. /\ Take(Appended) /\ step = "detecting" /\ next < Len(log[at + 1])
      /\ step' = "polling" /\ position' = position /\ faults' = faults + 1
  BY Zenon DEF PredictRaises, Take, Fails
<1>2. PICK messages, id : messages = Appended /\ id = Id
  OBVIOUS
<1>3. EndOf(messages, Append(delivered[Pair], Id)) /\ 0 < Len(messages)
  BY <1>1, <1>2, AppendedIsEnd
<1>4. ASSUME NEW x \in Positions, Passed(x) PROVE Passed(x)'
  <2>1. at \in Nat /\ at < position /\ position \in Nat /\ x[1] \in Nat
    BY <1>1 DEF WindowsInvariant, Cursors, Positions
  <2>2. x[1] <= at \/ x[1] = at + 1
    BY <1>1, <1>4 DEF Passed
  <2>3. x[1] <= position
    BY <2>1, <2>2
  <2> QED BY <1>1, <2>3 DEF Passed
<1> QED BY <1>1, <1>2, <1>3, <1>4, HistoryTake

LEMMA HistoryExpire ==
  ASSUME WindowsInvariant, History, Expire
  PROVE  History'
<1>1. /\ step = "expiring" /\ UNCHANGED <<position, faults>> /\ at' = at + 1 /\ next' = 0
      /\ step' = IF at + 1 < position THEN "detecting" ELSE "commit"
  BY DEF Expire
<1>2. ASSUME NEW id \in Positions, Passed(id) PROVE Passed(id)'
  <2>1. at \in Nat /\ position \in Nat /\ id[1] \in Nat
    BY DEF WindowsInvariant, Cursors, Positions
  <2>2. id[1] <= at + 1
    BY <1>1, <1>2, <2>1 DEF Passed
  <2>3. CASE at + 1 < position
    BY <1>1, <2>2, <2>3 DEF Passed
  <2>4. CASE ~(at + 1 < position)
    <3>1. id[1] <= position
      BY <1>1, <2>1, <2>2, <2>4 DEF WindowsInvariant, Cursors
    <3> QED BY <1>1, <2>4, <3>1 DEF Passed
  <2> QED BY <2>3, <2>4
<1>3. CASE UNCHANGED <<window, delivered>>
  BY <1>1, <1>2, <1>3, HistoryKept
<1>4. CASE /\ window' = [p \in DOMAIN window \ Stale |-> window[p]]
           /\ delivered' = [p \in Pairs |-> IF p \in Stale THEN <<>> ELSE delivered[p]]
  <2>1. \A p \in Pairs : delivered'[p] = IF p \in Stale THEN <<>> ELSE delivered[p]
    BY <1>4
  <2>2. delivered' \in [Pairs -> Messages]
    BY <1>4 DEF History, Messages
  <2>3. \A p \in DOMAIN window' : p \in DOMAIN window \ Stale /\ window'[p] = window[p]
    BY <1>4
  <2>4. DOMAIN window \subseteq Pairs
    BY DEF WindowsInvariant, Windows
  <2>5. ASSUME NEW p \in DOMAIN window'
        PROVE  /\ EndOf(window'[p].messages, delivered'[p])
               /\ Cut < MaxWindow => 0 < Len(window'[p].messages)
    <3>1. p \in DOMAIN window /\ window'[p] = window[p] /\ delivered'[p] = delivered[p]
      BY <2>1, <2>3, <2>4
    <3> QED BY <3>1 DEF History
  <2>6. ASSUME NEW p \in Pairs, NEW id \in Positions
        PROVE  Cardinality(Copies(delivered'[p], id)) <= IF Passed(id)' THEN faults' + 1 ELSE faults'
    <3>1. faults' = faults /\ faults \in Nat
      BY <1>1 DEF History
    <3>2. CASE p \in Stale
      <4>1. Copies(delivered'[p], id) = {}
        BY <2>1, <3>2 DEF Copies
      <4>2. Cardinality(Copies(delivered'[p], id)) = 0
        BY <4>1, FS_EmptySet
      <4> QED BY <3>1, <4>2
    <3>3. CASE p \notin Stale
      <4> DEFINE c == Cardinality(Copies(delivered[p], id))
      <4>1. delivered'[p] = delivered[p]
        BY <2>1, <3>3
      <4>2. c \in Nat /\ c <= IF Passed(id) THEN faults + 1 ELSE faults
        BY CopiesFinite DEF History
      <4> HIDE DEF c
      <4>3. c <= IF Passed(id)' THEN faults' + 1 ELSE faults'
        <5>1. CASE Passed(id)'
          <6>1. c <= faults + 1
            BY <3>1, <4>2
          <6> QED BY <3>1, <5>1, <6>1
        <5>2. CASE ~Passed(id)'
          <6>1. c <= faults
            BY <1>2, <4>2, <5>2
          <6> QED BY <3>1, <5>2, <6>1
        <5> QED BY <5>1, <5>2
      <4> QED BY <4>1, <4>3 DEF c
    <3> QED BY <3>2, <3>3
  <2>7. faults' \in Nat
    BY <1>1 DEF History
  <2> QED BY <2>2, <2>5, <2>6, <2>7 DEF History, EndOf, Copies
<1>5. \/ UNCHANGED <<window, delivered>>
      \/ /\ window' = [p \in DOMAIN window \ Stale |-> window[p]]
         /\ delivered' = [p \in Pairs |-> IF p \in Stale THEN <<>> ELSE delivered[p]]
  <2>1. CASE checked = Never \/ latest - checked > Interval
    BY <2>1 DEF Expire
  <2>2. CASE ~(checked = Never \/ latest - checked > Interval)
    BY <2>2 DEF Expire
  <2> QED BY <2>1, <2>2
<1> QED BY <1>3, <1>4, <1>5

LEMMA HistoryStep ==
  ASSUME WindowsAssumption, WindowsInvariant, History, [Next]_vars
  PROVE  History'
<1>1. CASE Arrive \/ Attribute \/ UNCHANGED vars
  <2>1. UNCHANGED <<offsets, next, step, window, delivered>> /\ faults' \in {faults, faults + 1}
    BY <1>1 DEF Arrive, Attribute, vars, memory
  <2>2. \A id : Passed(id)' <=> Passed(id)
    BY <2>1 DEF Passed, offsets
  <2> QED BY <2>1, <2>2, HistoryKept
<1>2. CASE Fetch
  <2>1. UNCHANGED <<window, delivered, faults>>
    BY <1>2 DEF Fetch, memory
  <2>2. step = "polling" /\ step' = "detecting" /\ at' = position
    BY <1>2 DEF Fetch
  <2>3. \A id : Passed(id) => Passed(id)'
    BY <2>2 DEF Passed
  <2> QED BY <2>1, <2>3, HistoryKept
<1>3. CASE Detect \/ PredictRaises
  BY <1>3, HistoryDetect, HistoryRaises
<1>4. CASE Expire
  BY <1>4, HistoryExpire
<1>5. CASE Commit
  <2>1. UNCHANGED <<position, window, delivered, faults>> /\ step = "commit" /\ step' = "polling"
    BY <1>5 DEF Commit, memory
  <2>2. \A id : Passed(id)' <=> Passed(id)
    BY <2>1 DEF Passed
  <2> QED BY <2>1, <2>2, HistoryKept
<1>6. CASE Abort \/ Swallow \/ Die
  <2>1. UNCHANGED <<window, delivered>> /\ faults' = faults + 1
    BY <1>6 DEF Abort, Swallow, Die, Fault, Fails, memory
  <2> QED BY <2>1, HistoryKept
<1>7. CASE Restart
  <2>1. DOMAIN window' = {} /\ delivered' = [p \in Pairs |-> <<>>] /\ faults' = faults
    BY <1>7 DEF Restart
  <2>2. faults' \in Nat /\ delivered' \in [Pairs -> Messages]
    BY <2>1 DEF History, Messages
  <2>3. ASSUME NEW p \in Pairs, NEW id \in Positions
        PROVE  Cardinality(Copies(delivered'[p], id)) <= IF Passed(id)' THEN faults' + 1 ELSE faults'
    BY <2>1, <2>2, CopiesOfNothing
  <2> QED BY <2>1, <2>2, <2>3 DEF History, EndOf, Copies
<1> QED BY <1>1, <1>2, <1>3, <1>4, <1>5, <1>6, <1>7 DEF Next

(* What detect appends to a window and max_window_cut leaves of it is the  *)
(* end of what its pair got since the window was opened, is as long as a   *)
(* full window only after a failure, and has a message once, and once more *)
(* for each failure at most (domainator_detector.py:136-171,               *)
(* detector.py:878).                                                       *)
THEOREM WindowsHoldRecentTraffic == Spec => []WindowIsRecentTraffic
<1>1. WindowsAssumption
  BY WindowsAssumption
<1>2. Init => History
  <2> SUFFICES ASSUME Init PROVE History
    OBVIOUS
  <2>1. DOMAIN window = {} /\ delivered = [p \in Pairs |-> <<>>] /\ faults = 0
    BY DEF Init
  <2>2. delivered \in [Pairs -> Messages]
    BY <2>1 DEF Messages
  <2>3. ASSUME NEW p \in Pairs, NEW id \in Positions
        PROVE  Cardinality(Copies(delivered[p], id)) <= IF Passed(id) THEN faults + 1 ELSE faults
    BY <2>1, CopiesOfNothing
  <2> QED BY <2>1, <2>2, <2>3 DEF History
<1>3. WindowsInvariant /\ History /\ [Next]_vars => History'
  BY <1>1, HistoryStep
<1>4. WindowsInvariant /\ History => WindowIsRecentTraffic
  <2> SUFFICES ASSUME WindowsInvariant, History, NEW p \in DOMAIN window
               PROVE  LET messages == window[p].messages
                      IN  /\ IsSuffix(messages, delivered[p])
                          /\ Len(messages) < MaxWindow + faults /\ (Cut < MaxWindow => 0 < Len(messages))
                          /\ \A id \in Ids :
                               Cardinality({i \in DOMAIN messages : messages[i] = id}) <= 1 + faults
    BY DEF WindowIsRecentTraffic
  <2> DEFINE messages == window[p].messages
  <2>1. /\ messages \in Messages /\ Len(messages) < MaxWindow + faults /\ p \in Pairs
        /\ Cut < MaxWindow => 0 < Len(messages)
        /\ delivered[p] \in Messages /\ EndOf(messages, delivered[p])
    BY DEF WindowsInvariant, Windows, OfPair, History
  <2> HIDE DEF messages
  <2>2. IsSuffix(messages, delivered[p])
    BY <2>1, EndOfIsSuffix DEF Messages
  <2>3. ASSUME NEW id \in Ids PROVE Cardinality(Copies(messages, id)) <= 1 + faults
    <3> DEFINE c == Cardinality(Copies(messages, id))
               d == Cardinality(Copies(delivered[p], id))
    <3>1. id \in Positions
      BY <1>1 DEF Ids, Positions, WindowsAssumption
    <3>2. c \in Nat /\ d \in Nat /\ c <= d
      BY <2>1, CopiesFinite, CopiesOfEnd
    <3>3. faults \in Nat /\ d <= IF Passed(id) THEN faults + 1 ELSE faults
      BY <2>1, <3>1 DEF History
    <3> HIDE DEF c, d
    <3>4. d <= faults + 1
      BY <3>2, <3>3
    <3>5. c <= 1 + faults
      BY <3>2, <3>3, <3>4
    <3> QED BY <3>5 DEF c
  <2> QED BY <2>1, <2>2, <2>3 DEF messages, Copies
<1> QED BY <1>2, <1>3, <1>4, WindowsInvariantHolds, PTL DEF Spec
===============================================================================
