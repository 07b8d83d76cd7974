------------------------------ MODULE LabProofs ------------------------------
(***************************************************************************)
(* Theorems about LabCommands for every script, every bound, every channel *)
(* capacity, every rate at which a sample is a whole number of ticks and   *)
(* every choice of what may go wrong.                                      *)
(*                                                                         *)
(* The two halves share no variable, and each has an invariant of its own: *)
(* CInv of the capture and aec commands, and EInv of the validation        *)
(* commands and the report, to which CutsTold and Reported add what the    *)
(* windows and the verdict of a report need.                               *)
(***************************************************************************)
EXTENDS LabCommands, SequenceTheorems, FiniteSetTheorems, TLAPS

-----------------------------------------------------------------------------
(* Sequences.  tlapm has no principle of induction over data here, but it  *)
(* can be had from the theorem that strict inclusion of finite sets is     *)
(* well founded: a nonempty set of naturals has a least member.            *)

\* Every nonempty set of naturals has a least element.
LEMMA LeastNat ==
  ASSUME NEW T, T \subseteq Nat, T # {}
  PROVE  \E x \in T : \A y \in T : x <= y
<1> DEFINE below == {0..n : n \in T}
<1>1. below \subseteq FiniteSubsetsOf(Nat)
  <2>1. ASSUME NEW n \in T
        PROVE  0..n \subseteq Nat /\ IsFiniteSet(0..n)
    <3>1. n \in Nat
      OBVIOUS
    <3>2. 0 \in Int /\ n \in Int
      BY <3>1
    <3>3. IsFiniteSet(0..n)
      BY <3>2, FS_Interval
    <3>4. 0..n \subseteq Nat
      BY <3>1
    <3>5. QED
      BY <3>3, <3>4
  <2>2. QED
    BY <2>1 DEF FiniteSubsetsOf
<1>2. below # {}
  OBVIOUS
<1>3. IsWellFoundedOn(StrictSubsetOrdering(Nat), FiniteSubsetsOf(Nat))
  BY FS_StrictSubsetOrderingWellFounded
<1> HIDE DEF below
<1>4. PICK x \in below : \A y \in below : ~(<<y, x>> \in StrictSubsetOrdering(Nat))
  BY <1>1, <1>2, <1>3, WFMin
<1>5. PICK n \in T : x = 0..n
  BY DEF below
<1>6. ASSUME NEW m \in T, ~(n <= m)
      PROVE  FALSE
  <2>1. 0..m \in below
    BY DEF below
  <2>2. /\ 0..m \subseteq Nat /\ 0..n \subseteq Nat
        /\ 0..m \subseteq 0..n /\ 0..m # 0..n
    <3>1. n \in Nat /\ m \in Nat /\ n > m
      BY <1>6
    <3>2. n \in 0..n /\ n \notin 0..m
      BY <3>1
    <3>3. QED
      BY <3>1, <3>2
  <2>3. <<0..m, 0..n>> \in StrictSubsetOrdering(Nat)
    BY <2>2 DEF StrictSubsetOrdering
  <2>4. QED
    BY <1>4, <1>5, <2>1, <2>3
<1>7. QED
  BY <1>5, <1>6

\* g joins the first n members of ss.
Joins(g, ss, n) ==
  g = [i \in 1..n |-> IF i = 1 THEN ss[i] ELSE g[i - 1] \o ss[i]]

LEMMA JoinsExists ==
  ASSUME NEW ss, NEW n \in Nat
  PROVE  \E g : Joins(g, ss, n)
<1> DEFINE T == {m \in Nat : ~\E g : Joins(g, ss, m)}
<1>1. SUFFICES ASSUME T # {}
               PROVE  FALSE
  OBVIOUS
<1>2. PICK m \in T : \A k \in T : m <= k
  BY <1>1, LeastNat
<1>3. CASE m = 0
  <2>1. Joins([i \in 1..0 |-> 0], ss, 0)
    BY DEF Joins
  <2>2. QED
    BY <1>3, <2>1
<1>4. CASE m # 0
  <2>1. m - 1 \in Nat /\ m - 1 \notin T
    BY <1>2, <1>4
  <2>2. PICK g : Joins(g, ss, m - 1)
    BY <2>1
  <2> DEFINE last == IF m = 1 THEN ss[1] ELSE g[m - 1] \o ss[m]
             h == [i \in 1..m |-> IF i = m THEN last ELSE g[i]]
  <2>3. ASSUME NEW i \in 1..m
        PROVE  h[i] = IF i = 1 THEN ss[i] ELSE h[i - 1] \o ss[i]
    <3>1. CASE i = m
      <4>1. CASE m = 1
        BY <3>1, <4>1
      <4>2. CASE m # 1
        <5>1. i - 1 \in 1..m /\ i - 1 # m
          BY <2>1, <3>1, <4>2
        <5>2. h[i - 1] = g[m - 1]
          BY <5>1, <3>1
        <5>3. QED
          BY <5>2, <3>1, <4>2
      <4>3. QED
        BY <4>1, <4>2
    <3>2. CASE i # m
      <4>1. i \in 1..(m - 1)
        BY <2>1, <3>2
      <4>2. g[i] = IF i = 1 THEN ss[i] ELSE g[i - 1] \o ss[i]
        BY <2>2, <4>1 DEF Joins
      <4>3. i # 1 => i - 1 \in 1..m /\ i - 1 # m
        BY <4>1, <2>1
      <4>4. h[i] = g[i] /\ (i # 1 => h[i - 1] = g[i - 1])
        BY <3>2, <4>3
      <4>5. QED
        BY <4>2, <4>4
    <3>3. QED
      BY <3>1, <3>2
  <2> HIDE DEF last
  <2>4. h = [i \in 1..m |-> IF i = 1 THEN ss[i] ELSE h[i - 1] \o ss[i]]
    <3>1. h = [i \in 1..m |-> h[i]]
      OBVIOUS
    <3> HIDE DEF h
    <3>2. QED
      BY <2>3, <3>1
  <2>5. Joins(h, ss, m)
    <3> HIDE DEF h
    <3>1. QED
      BY <2>4 DEF Joins
  <2>6. QED
    BY <2>5
<1>5. QED
  BY <1>3, <1>4

\* What it joins up to a place depends on the members up to there.
LEMMA JoinsAgree ==
  ASSUME NEW g, NEW h, NEW ss, NEW tt, NEW n \in Nat, NEW m \in Nat,
         Joins(g, ss, n), Joins(h, tt, m), n <= m, \A i \in 1..n : ss[i] = tt[i]
  PROVE  \A i \in 1..n : g[i] = h[i]
<1> DEFINE T == {i \in 1..n : g[i] # h[i]}
<1>1. SUFFICES ASSUME T # {}
               PROVE  FALSE
  OBVIOUS
<1>2. T \subseteq Nat
  OBVIOUS
<1>3. PICK i \in T : \A k \in T : i <= k
  BY <1>1, <1>2, LeastNat
<1>4. i \in 1..n /\ i \in 1..m
  OBVIOUS
<1>5. g[i] = IF i = 1 THEN ss[i] ELSE g[i - 1] \o ss[i]
  BY <1>4 DEF Joins
<1>6. h[i] = IF i = 1 THEN tt[i] ELSE h[i - 1] \o tt[i]
  BY <1>4 DEF Joins
<1>7. i # 1 => g[i - 1] = h[i - 1]
  <2>1. SUFFICES ASSUME i # 1
                 PROVE  i - 1 \in 1..n /\ i - 1 \notin T
    OBVIOUS
  <2>2. QED
    BY <1>3, <1>4, <2>1
<1>8. g[i] = h[i]
  BY <1>4, <1>5, <1>6, <1>7
<1>9. QED
  BY <1>8

LEMMA FlattenIsJoin ==
  ASSUME NEW S, NEW ss \in Seq(S), ss # <<>>
  PROVE  \E g : Joins(g, ss, Len(ss)) /\ FlattenSeq(ss) = g[Len(ss)]
<1> DEFINE g == CHOOSE g : g = [i \in 1..Len(ss) |-> IF i = 1 THEN ss[i] ELSE g[i - 1] \o ss[i]]
<1>1. Len(ss) \in Nat /\ Len(ss) # 0
  BY EmptySeq, LenProperties
<1>2. \E h : h = [i \in 1..Len(ss) |-> IF i = 1 THEN ss[i] ELSE h[i - 1] \o ss[i]]
  BY <1>1, JoinsExists DEF Joins
<1>3. Joins(g, ss, Len(ss))
  BY <1>2 DEF Joins
<1>4. FlattenSeq(ss) = g[Len(ss)]
  BY <1>1 DEF FlattenSeq
<1>5. QED
  BY <1>3, <1>4

LEMMA FlattenAppend ==
  ASSUME NEW S, NEW ss \in Seq(Seq(S)), NEW s \in Seq(S)
  PROVE  FlattenSeq(Append(ss, s)) = FlattenSeq(ss) \o s
<1> DEFINE tt == Append(ss, s)
<1>1. /\ tt \in Seq(Seq(S)) /\ tt # <<>> /\ Len(tt) = Len(ss) + 1
      /\ \A i \in 1..Len(ss) : tt[i] = ss[i]
      /\ tt[Len(ss) + 1] = s
  BY AppendProperties
<1> HIDE DEF tt
<1>2. PICK h : Joins(h, tt, Len(tt)) /\ FlattenSeq(tt) = h[Len(tt)]
  BY <1>1, FlattenIsJoin
<1>3. Len(ss) \in Nat /\ Len(tt) \in Nat /\ Len(tt) \in 1..Len(tt)
  BY <1>1, LenProperties
<1>4. CASE ss = <<>>
  <2>1. Len(tt) = 1
    BY <1>1, <1>4, EmptySeq
  <2>2. FlattenSeq(tt) = s
    BY <1>1, <1>2, <2>1, <1>3 DEF Joins
  <2>3. FlattenSeq(ss) = <<>>
    BY <1>4, EmptySeq DEF FlattenSeq
  <2>4. QED
    BY <2>2, <2>3, ConcatEmptySeq DEF tt
<1>5. CASE ss # <<>>
  <2>1. PICK g : Joins(g, ss, Len(ss)) /\ FlattenSeq(ss) = g[Len(ss)]
    BY <1>5, FlattenIsJoin
  <2>2. PICK n \in Nat : n = Len(ss)
    BY <1>3
  <2>3. n # 0 /\ n \in 1..n /\ n + 1 \in 1..(n + 1)
    <3>1. n # 0
      BY <1>5, <2>2, EmptySeq
    <3>2. QED
      BY <3>1
  <2>4. g[n] = h[n]
    <3>1. Joins(g, ss, n) /\ Joins(h, tt, n + 1) /\ n + 1 \in Nat /\ n <= n + 1
      BY <1>1, <1>2, <2>1, <2>2
    <3>2. \A i \in 1..n : ss[i] = tt[i]
      BY <1>1, <2>2
    <3>3. \A i \in 1..n : g[i] = h[i]
      BY <3>1, <3>2, JoinsAgree
    <3>4. QED
      BY <2>3, <3>3
  <2>5. h[n + 1] = h[n] \o tt[n + 1]
    <3>1. h = [i \in 1..(n + 1) |-> IF i = 1 THEN tt[i] ELSE h[i - 1] \o tt[i]]
      BY <1>1, <1>2, <2>2 DEF Joins
    <3>2. n + 1 # 1 /\ (n + 1) - 1 = n
      BY <2>3
    <3>3. QED
      BY <2>3, <3>1, <3>2
  <2>6. FlattenSeq(tt) = FlattenSeq(ss) \o s
    BY <1>1, <1>2, <2>1, <2>2, <2>4, <2>5
  <2>7. QED
    BY <2>6 DEF tt
<1>6. QED
  BY <1>4, <1>5

\* The first members of a sequence.
LEMMA Prefix ==
  ASSUME NEW S, NEW s \in Seq(S), NEW c \in Nat, c <= Len(s)
  PROVE  /\ SubSeq(s, 1, c) \in Seq(S) /\ Len(SubSeq(s, 1, c)) = c
         /\ \A i \in 1..c : SubSeq(s, 1, c)[i] = s[i]
<1>1. DOMAIN s = 1..Len(s) /\ Len(s) \in Nat
  BY LenProperties
<1>2. \A i \in 1..c : s[i] \in S
  BY <1>1
<1>3. 1 \in Int /\ c \in Int
  OBVIOUS
<1>4. /\ SubSeq(s, 1, c) \in Seq(S)
      /\ Len(SubSeq(s, 1, c)) = IF 1 <= c THEN c - 1 + 1 ELSE 0
      /\ \A i \in 1..(c - 1 + 1) : SubSeq(s, 1, c)[i] = s[1 + i - 1]
  BY ONLY <1>2, <1>3, SubSeqProperties
<1>5. Len(SubSeq(s, 1, c)) = c
  BY <1>4
<1>6. c - 1 + 1 = c /\ \A i \in 1..c : 1 + i - 1 = i
  OBVIOUS
<1>7. QED
  BY <1>4, <1>5, <1>6

LEMMA SamePrefix ==
  ASSUME NEW S, NEW s \in Seq(S), NEW q \in Seq(S), NEW c \in Nat, c <= Len(s), c <= Len(q),
         \A i \in 1..c : s[i] = q[i]
  PROVE  SubSeq(s, 1, c) = SubSeq(q, 1, c)
<1>1. PICK x, y : x = SubSeq(s, 1, c) /\ y = SubSeq(q, 1, c)
  OBVIOUS
<1>2. x \in Seq(S) /\ Len(x) = c /\ \A i \in 1..c : x[i] = s[i]
  BY <1>1, Prefix
<1>3. y \in Seq(S) /\ Len(y) = c /\ \A i \in 1..c : y[i] = q[i]
  BY <1>1, Prefix
<1>4. x \in [1..c -> S] /\ y \in [1..c -> S]
  BY <1>2, <1>3, LenProperties
<1>5. \A i \in 1..c : x[i] = y[i]
  BY <1>2, <1>3
<1>6. x = y
  BY <1>4, <1>5
<1>7. QED
  BY <1>1, <1>6

LEMMA PrefixMore ==
  ASSUME NEW S, NEW s \in Seq(S), NEW c \in Nat, c + 1 <= Len(s)
  PROVE  SubSeq(s, 1, c + 1) = Append(SubSeq(s, 1, c), s[c + 1])
<1>1. PICK x : x = SubSeq(s, 1, c)
  OBVIOUS
<1>2. PICK y : y = SubSeq(s, 1, c + 1)
  OBVIOUS
<1>3. Len(s) \in Nat /\ c <= Len(s) /\ c + 1 \in Nat /\ c + 1 \in 1..Len(s)
  BY LenProperties
<1>4. s[c + 1] \in S
  BY <1>3
<1>5. x \in Seq(S) /\ Len(x) = c /\ \A i \in 1..c : x[i] = s[i]
  BY <1>1, <1>3, Prefix
<1>6. y \in Seq(S) /\ Len(y) = c + 1 /\ \A i \in 1..(c + 1) : y[i] = s[i]
  BY <1>2, <1>3, Prefix
<1>7. PICK z : z = Append(x, s[c + 1])
  OBVIOUS
<1>8. /\ z \in Seq(S) /\ Len(z) = c + 1 /\ (\A i \in 1..c : z[i] = x[i]) /\ z[c + 1] = s[c + 1]
  BY <1>4, <1>5, <1>7, AppendProperties
<1>9. z \in [1..(c + 1) -> S] /\ y \in [1..(c + 1) -> S]
  BY <1>6, <1>8, LenProperties
<1>10. \A i \in 1..(c + 1) : z[i] = y[i]
  <2>1. TAKE i \in 1..(c + 1)
  <2>2. i = c + 1 \/ i \in 1..c
    OBVIOUS
  <2>3. QED
    BY <1>5, <1>6, <1>8, <2>2
<1>11. z = y
  BY <1>9, <1>10
<1>12. QED
  BY <1>1, <1>2, <1>7, <1>11

LEMMA WholePrefix ==
  ASSUME NEW S, NEW s \in Seq(S)
  PROVE  SubSeq(s, 1, Len(s)) = s
<1>1. PICK n \in Nat : n = Len(s) /\ n <= Len(s)
  BY LenProperties
<1>2. PICK x : x = SubSeq(s, 1, n)
  OBVIOUS
<1>3. x \in Seq(S) /\ Len(x) = n /\ \A i \in 1..n : x[i] = s[i]
  BY <1>1, <1>2, Prefix
<1>4. x \in [1..n -> S] /\ s \in [1..n -> S]
  BY <1>1, <1>3, LenProperties
<1>5. x = s
  BY <1>3, <1>4
<1>6. QED
  BY <1>1, <1>2, <1>5

-----------------------------------------------------------------------------
(* The capture command: what its variables hold.                           *)

TrackPcs == {"none", "open", "started", "read", "packet", "stopped", "report", "done"}
CapturePcs == {"idle", "spawn_microphone", "spawn_render", "events", "receive", "returned"}
MessageKinds == {"started", "packet", "stopped", "failed"}
CaptureType ==
  [pc : CapturePcs, finished : 0..2, failures : SUBSET Tracks,
   result : {"none", "ok", "failed", "error"}]
PacketType ==
  [time : Nat, stamp : Nat, samples : 1..MaxPacket, gap : BOOLEAN, uncertain : BOOLEAN]
AnyPacket ==
  [time : Nat, stamp : Nat, samples : 0..MaxPacket, gap : BOOLEAN, uncertain : BOOLEAN]
MessageType == [kind : MessageKinds, track : Tracks, packet : AnyPacket]
WriterType ==
  [samples : Seq(Nat), packets : Nat, gaps : Nat, errors : Nat, first : Seq(Nat)]

CTyped ==
  /\ capture \in CaptureType
  /\ track \in [Tracks -> TrackType]
  /\ \A t \in Tracks : track[t].pc = "packet" => track[t].packet \in PacketType
  /\ channel \in Seq(MessageType) /\ Len(channel) <= ChannelCapacity
  /\ DOMAIN writer \subseteq Tracks /\ \A t \in DOMAIN writer : writer[t] \in WriterType

LEMMA Ticks ==
  /\ SampleTime = TicksPerSecond /\ SampleTime \in Nat /\ SampleTime > 0
  /\ TickTime = SampleRate /\ TickTime \in Nat /\ TickTime > 0
  /\ FrameSamples \in Nat /\ FrameSamples > 0 /\ MaxPacket \in Nat /\ MaxPackets \in Nat
  /\ ChannelCapacity \in Nat /\ ChannelCapacity > 0
BY CaptureAssumption DEF SampleTime, TickTime

LEMMA Product ==
  ASSUME NEW a \in Nat, NEW b \in Nat
  PROVE  a * b \in Nat
OBVIOUS

\* The samples of a packet.
LEMMA SamplesFields ==
  ASSUME NEW p \in PacketType
  PROVE  /\ SamplesOf(p) \in Seq(Nat) /\ Len(SamplesOf(p)) = p.samples
         /\ \A i \in 1..p.samples : SamplesOf(p)[i] = p.time + (i - 1) * SampleTime
<1>1. p.time \in Nat /\ p.samples \in Nat /\ p.samples >= 1
  BY DEF PacketType
<1>2. ASSUME NEW i \in 1..p.samples
      PROVE  p.time + (i - 1) * SampleTime \in Nat
  <2>1. i - 1 \in Nat
    BY <1>1
  <2>2. (i - 1) * SampleTime \in Nat
    BY <2>1, Ticks, Product
  <2>3. QED
    BY <1>1, <2>2
<1>3. SamplesOf(p) \in [1..p.samples -> Nat]
  BY <1>2 DEF SamplesOf
<1>4. ASSUME NEW n \in Nat, NEW f \in [1..n -> Nat]
      PROVE  f \in Seq(Nat) /\ Len(f) = n
  OBVIOUS
<1>5. SamplesOf(p) \in Seq(Nat) /\ Len(SamplesOf(p)) = p.samples
  BY <1>1, <1>3, <1>4
<1>6. \A i \in 1..p.samples : SamplesOf(p)[i] = p.time + (i - 1) * SampleTime
  BY DEF SamplesOf
<1>7. QED
  BY <1>5, <1>6

\* What a track does to itself.
LEMMA GoTrackFields ==
  ASSUME track \in [Tracks -> TrackType], NEW t \in Tracks, NEW pc \in TrackPcs, GoTrack(t, pc)
  PROVE  /\ track' \in [Tracks -> TrackType]
         /\ track'[t].pc = pc /\ track'[t].time = track[t].time
         /\ track'[t].packet = track[t].packet /\ track'[t].sent = track[t].sent
         /\ \A u \in Tracks : u # t => track'[u] = track[u]
<1>1. PICK k \in TrackType : k = track[t]
  OBVIOUS
<1> DEFINE l == [k EXCEPT !.pc = pc]
<1>2. l \in TrackType /\ l.pc = pc /\ l.time = k.time /\ l.packet = k.packet /\ l.sent = k.sent
  BY DEF TrackType, TrackPcs
<1>3. track' = [track EXCEPT ![t] = l]
  BY <1>1 DEF GoTrack
<1> HIDE DEF l
<1>4. QED
  BY <1>1, <1>2, <1>3

-----------------------------------------------------------------------------
(* The coordinator's view of a track, before and after each message that   *)
(* is under way.                                                           *)

View == [stage : {"new", "open", "over"}, count : Nat]

\* Message m, one of track t or not, takes the view a to b; sent is what t has sent.
Passes(t, m, a, b, sent) ==
  IF m.track # t THEN b = a
  ELSE \/ m.kind = "started" /\ a.stage = "new" /\ b = [stage |-> "open", count |-> a.count]
       \/ /\ m.kind = "packet" /\ a.stage = "open"
          /\ b = [stage |-> "open", count |-> a.count + 1]
          /\ a.count + 1 \in DOMAIN sent /\ m.packet = sent[a.count + 1]
       \/ m.kind = "stopped" /\ a.stage = "open" /\ b = [stage |-> "over", count |-> a.count]
       \/ m.kind = "failed" /\ a.stage # "over" /\ b = [stage |-> "over", count |-> a.count]

\* The messages of messages take the view from to the view to, and the last one of t
\* is its last.
Follows(seen, t, messages, from, to, sent) ==
  /\ seen \in [0..Len(messages) -> View]
  /\ seen[0] = from /\ seen[Len(messages)] = to
  /\ \A i \in 1..Len(messages) : Passes(t, messages[i], seen[i - 1], seen[i], sent)
  /\ \A i \in 0..Len(messages) : seen[i].stage = "over" => seen[i] = to

Flow(t, messages, from, to, sent) == \E seen : Follows(seen, t, messages, from, to, sent)

LEMMA FlowEmpty ==
  ASSUME NEW t, NEW v \in View, NEW sent
  PROVE  Flow(t, <<>>, v, v, sent)
<1> DEFINE seen == [i \in 0..0 |-> v]
<1>1. Follows(seen, t, <<>>, v, v, sent)
  BY EmptySeq DEF Follows
<1>2. QED
  BY <1>1 DEF Flow

LEMMA FlowEnds ==
  ASSUME NEW t, NEW messages \in Seq(MessageType), NEW from, NEW to, NEW sent,
         Flow(t, messages, from, to, sent)
  PROVE  from \in View /\ to \in View /\ (from.stage = "over" => from = to)
<1>1. Len(messages) \in Nat
  BY LenProperties
<1>2. 0 \in 0..Len(messages) /\ Len(messages) \in 0..Len(messages)
  BY <1>1
<1>3. QED
  BY <1>2 DEF Flow, Follows

\* One more message is sent.
LEMMA FlowMore ==
  ASSUME NEW t, NEW messages \in Seq(MessageType), NEW from, NEW to, NEW sent,
         NEW m \in MessageType, NEW v \in View, NEW more,
         Flow(t, messages, from, to, sent),
         \A k \in DOMAIN sent : k \in DOMAIN more /\ more[k] = sent[k],
         Passes(t, m, to, v, more), to.stage = "over" => v = to
  PROVE  Flow(t, Append(messages, m), from, v, more)
<1>1. PICK n \in Nat : n = Len(messages)
  BY LenProperties
<1>2. PICK seen : Follows(seen, t, messages, from, to, sent)
  BY DEF Flow
<1>3. PICK next : next = Append(messages, m)
  OBVIOUS
<1>4. Len(next) = n + 1 /\ (\A i \in 1..n : next[i] = messages[i]) /\ next[n + 1] = m
  BY <1>1, <1>3, AppendProperties
<1>5. /\ seen \in [0..n -> View] /\ seen[0] = from /\ seen[n] = to
      /\ \A i \in 1..n : Passes(t, messages[i], seen[i - 1], seen[i], sent)
      /\ \A i \in 0..n : seen[i].stage = "over" => seen[i] = to
  BY <1>1, <1>2 DEF Follows
<1> DEFINE after == [i \in 0..(n + 1) |-> IF i = n + 1 THEN v ELSE seen[i]]
<1>6. \A i \in 0..n : i \in 0..(n + 1) /\ i # n + 1 /\ after[i] = seen[i]
  OBVIOUS
<1>7. after[n + 1] = v
  OBVIOUS
<1>8. after \in [0..(n + 1) -> View]
  BY <1>5
<1> HIDE DEF after
<1>9. ASSUME NEW i \in 1..(n + 1)
      PROVE  Passes(t, next[i], after[i - 1], after[i], more)
  <2>1. CASE i = n + 1
    <3>1. after[i - 1] = to /\ after[i] = v /\ next[i] = m
      BY <1>4, <1>5, <1>6, <1>7, <2>1
    <3>2. QED
      BY <3>1
  <2>2. CASE i # n + 1
    <3>1. i \in 1..n /\ i \in 0..n /\ i - 1 \in 0..n
      BY <2>2
    <3>2. after[i - 1] = seen[i - 1] /\ after[i] = seen[i] /\ next[i] = messages[i]
      BY <1>4, <1>6, <3>1
    <3>3. Passes(t, messages[i], seen[i - 1], seen[i], sent)
      BY <1>5, <3>1
    <3>4. Passes(t, messages[i], seen[i - 1], seen[i], more)
      BY <3>3 DEF Passes
    <3>5. QED
      BY <3>2, <3>4
  <2>3. QED
    BY <2>1, <2>2
<1>10. ASSUME NEW i \in 0..(n + 1), after[i].stage = "over"
       PROVE  after[i] = v
  <2>1. CASE i = n + 1
    BY <1>7, <2>1
  <2>2. CASE i # n + 1
    <3>1. i \in 0..n
      BY <2>2
    <3>2. seen[i].stage = "over" /\ after[i] = seen[i]
      BY <1>6, <1>10, <3>1
    <3>3. seen[i] = to
      BY <1>5, <3>1, <3>2
    <3>4. QED
      BY <3>2, <3>3
  <2>3. QED
    BY <2>1, <2>2
<1>11. after[0] = from
  BY <1>5, <1>6
<1>12. Follows(after, t, next, from, v, more)
  BY <1>4, <1>7, <1>8, <1>9, <1>10, <1>11 DEF Follows
<1>13. QED
  BY <1>3, <1>12 DEF Flow

\* The first message is received.
LEMMA FlowLess ==
  ASSUME NEW t, NEW messages \in Seq(MessageType), messages # <<>>, NEW from, NEW to, NEW sent,
         Flow(t, messages, from, to, sent)
  PROVE  \E v \in View : Passes(t, Head(messages), from, v, sent) /\ Flow(t, Tail(messages), v, to, sent)
<1>1. PICK n \in Nat : n + 1 = Len(messages)
  <2>1. Len(messages) \in Nat /\ Len(messages) # 0
    BY LenProperties, EmptySeq
  <2>2. Len(messages) - 1 \in Nat /\ (Len(messages) - 1) + 1 = Len(messages)
    BY <2>1
  <2>3. QED
    BY <2>2
<1>2. PICK seen : Follows(seen, t, messages, from, to, sent)
  BY DEF Flow
<1>3. PICK next : next = Tail(messages)
  OBVIOUS
<1>4. Len(next) = n /\ \A i \in 1..n : next[i] = messages[i + 1]
  <2>1. /\ Len(Tail(messages)) = Len(messages) - 1
        /\ \A i \in 1..Len(Tail(messages)) : Tail(messages)[i] = messages[i + 1]
    BY HeadTailProperties
  <2>2. Len(next) = n
    BY <1>1, <1>3, <2>1
  <2>3. QED
    BY <1>3, <2>1, <2>2
<1>5. /\ seen \in [0..(n + 1) -> View] /\ seen[0] = from /\ seen[n + 1] = to
      /\ \A i \in 1..(n + 1) : Passes(t, messages[i], seen[i - 1], seen[i], sent)
      /\ \A i \in 0..(n + 1) : seen[i].stage = "over" => seen[i] = to
  BY <1>1, <1>2 DEF Follows
<1>6. PICK first : first = messages[1] /\ first = Head(messages)
  OBVIOUS
<1>7. 1 \in 0..(n + 1) /\ 1 \in 1..(n + 1) /\ 1 - 1 = 0
  OBVIOUS
<1>8. seen[1] \in View
  BY <1>5, <1>7
<1>9. Passes(t, first, from, seen[1], sent)
  <2>1. Passes(t, messages[1], seen[1 - 1], seen[1], sent)
    BY <1>5, <1>7
  <2>2. QED
    BY <1>5, <1>6, <1>7, <2>1
<1> DEFINE after == [i \in 0..n |-> seen[i + 1]]
<1>10. \A i \in 0..n : i + 1 \in 0..(n + 1) /\ after[i] = seen[i + 1]
  OBVIOUS
<1>11. after \in [0..n -> View]
  BY <1>5, <1>10
<1> HIDE DEF after
<1>12. ASSUME NEW i \in 1..n
       PROVE  Passes(t, next[i], after[i - 1], after[i], sent)
  <2>1. i + 1 \in 1..(n + 1) /\ (i + 1) - 1 = i /\ i \in 0..n /\ i - 1 \in 0..n /\ (i - 1) + 1 = i
    OBVIOUS
  <2>2. Passes(t, messages[i + 1], seen[(i + 1) - 1], seen[i + 1], sent)
    BY <1>5, <2>1
  <2>3. after[i - 1] = seen[i] /\ after[i] = seen[i + 1] /\ next[i] = messages[i + 1]
    BY <1>4, <1>10, <2>1
  <2>4. QED
    BY <2>1, <2>2, <2>3
<1>13. \A i \in 0..n : after[i].stage = "over" => after[i] = to
  BY <1>5, <1>10
<1>14. after[0] = seen[1] /\ after[n] = to
  BY <1>5, <1>10
<1>15. Follows(after, t, next, seen[1], to, sent)
  BY <1>4, <1>11, <1>12, <1>13, <1>14 DEF Follows
<1>16. QED
  BY <1>3, <1>6, <1>8, <1>9, <1>15 DEF Flow

-----------------------------------------------------------------------------
(* The writer of a track.                                                  *)

LEMMA WrittenFields ==
  ASSUME NEW w \in WriterType, NEW p \in PacketType
  PROVE  /\ Written(w, p) \in WriterType
         /\ Written(w, p).samples = w.samples \o SamplesOf(p)
         /\ Written(w, p).packets = w.packets + 1
         /\ Written(w, p).gaps = w.gaps + (IF p.gap THEN 1 ELSE 0)
         /\ Written(w, p).errors = w.errors + (IF p.uncertain THEN 1 ELSE 0)
         /\ Written(w, p).first = IF w.first = <<>> THEN <<p.stamp>> ELSE w.first
<1> DEFINE samples == w.samples \o SamplesOf(p)
           gaps == w.gaps + (IF p.gap THEN 1 ELSE 0)
           errors == w.errors + (IF p.uncertain THEN 1 ELSE 0)
           first == IF w.first = <<>> THEN <<p.stamp>> ELSE w.first
<1>1. w.samples \in Seq(Nat) /\ w.packets \in Nat /\ w.gaps \in Nat /\ w.first \in Seq(Nat)
      /\ w.errors \in Nat /\ p.stamp \in Nat
  BY DEF WriterType, PacketType
<1>2. samples \in Seq(Nat)
  BY <1>1, SamplesFields, ConcatProperties
<1>3. gaps \in Nat /\ errors \in Nat /\ w.packets + 1 \in Nat
  BY <1>1
<1>4. first \in Seq(Nat)
  BY <1>1
<1>5. Written(w, p) = [samples |-> samples, packets |-> w.packets + 1, gaps |-> gaps,
                       errors |-> errors, first |-> first]
  BY DEF Written
<1> HIDE DEF samples, gaps, errors, first
<1>6. Written(w, p) \in WriterType
  BY <1>2, <1>3, <1>4, <1>5 DEF WriterType
<1>7. QED
  BY <1>5, <1>6 DEF samples, gaps, errors, first

LEMMA OneMore ==
  ASSUME NEW n \in Nat, NEW S, S \subseteq 1..n, NEW more \in BOOLEAN,
         NEW Q, Q = IF more THEN S \union {n + 1} ELSE S
  PROVE  Cardinality(Q) = Cardinality(S) + (IF more THEN 1 ELSE 0)
<1>1. IsFiniteSet(S) /\ n + 1 \notin S
  <2>1. IsFiniteSet(1..n) /\ n + 1 \notin 1..n
    BY FS_Interval
  <2>2. QED
    BY <2>1, FS_Subset
<1>2. Cardinality(S) \in Nat /\ Cardinality(S \union {n + 1}) = Cardinality(S) + 1
  BY <1>1, FS_AddElement, FS_CardinalityType
<1>3. QED
  BY <1>2

\* Written keeps the account of the packets.
LEMMA HoldsMore ==
  ASSUME NEW w \in WriterType, NEW s \in Seq(PacketType), NEW p \in PacketType, Holds(w, s)
  PROVE  Holds(Written(w, p), Append(s, p))
<1>1. PICK n \in Nat : n = Len(s)
  BY LenProperties
<1>2. PICK q : q = Append(s, p)
  OBVIOUS
<1>3. /\ q \in Seq(PacketType) /\ Len(q) = n + 1 /\ (\A i \in 1..n : q[i] = s[i]) /\ q[n + 1] = p
      /\ DOMAIN s = 1..n /\ DOMAIN q = 1..(n + 1)
  BY <1>1, <1>2, AppendProperties, LenProperties
<1>4. Written(w, p).samples = FlattenSeq([i \in DOMAIN q |-> SamplesOf(q[i])])
  <2> DEFINE ss == [i \in DOMAIN s |-> SamplesOf(s[i])]
             qq == [i \in DOMAIN q |-> SamplesOf(q[i])]
  <2>1. \A i \in DOMAIN s : SamplesOf(s[i]) \in Seq(Nat)
    <3>1. TAKE i \in DOMAIN s
    <3>2. s[i] \in PacketType
      OBVIOUS
    <3>3. QED
      BY <3>2, SamplesFields
  <2>2. ss \in [1..n -> Seq(Nat)]
    BY <1>3, <2>1
  <2>3. SamplesOf(p) \in Seq(Nat)
    BY SamplesFields
  <2>4. qq \in [1..(n + 1) -> Seq(Nat)]
    <3>1. \A i \in DOMAIN q : SamplesOf(q[i]) \in Seq(Nat)
      <4>1. TAKE i \in DOMAIN q
      <4>2. q[i] \in PacketType
        BY <1>3
      <4>3. QED
        BY <4>2, SamplesFields
    <3>2. QED
      BY <1>3, <3>1
  <2>5. (\A i \in 1..n : qq[i] = ss[i]) /\ qq[n + 1] = SamplesOf(p)
    BY <1>3
  <2> HIDE DEF ss, qq
  <2>6. ss \in Seq(Seq(Nat)) /\ Len(ss) = n /\ qq \in Seq(Seq(Nat)) /\ Len(qq) = n + 1
    <3>1. ASSUME NEW m \in Nat, NEW f \in [1..m -> Seq(Nat)]
          PROVE  f \in Seq(Seq(Nat)) /\ Len(f) = m
      OBVIOUS
    <3>2. QED
      BY <2>2, <2>4, <3>1
  <2>7. qq = Append(ss, SamplesOf(p))
    <3>1. PICK rr : rr = Append(ss, SamplesOf(p))
      OBVIOUS
    <3>2. /\ rr \in Seq(Seq(Nat)) /\ Len(rr) = n + 1 /\ (\A i \in 1..n : rr[i] = ss[i])
          /\ rr[n + 1] = SamplesOf(p)
      BY <2>3, <2>6, <3>1, AppendProperties
    <3>3. \A i \in 1..(n + 1) : rr[i] = qq[i]
      <4>1. TAKE i \in 1..(n + 1)
      <4>2. i = n + 1 \/ i \in 1..n
        OBVIOUS
      <4>3. QED
        BY <2>5, <3>2, <4>2
    <3>4. rr \in [1..(n + 1) -> Seq(Nat)]
      BY <3>2, LenProperties
    <3>5. QED
      BY <2>4, <3>1, <3>3, <3>4
  <2>8. FlattenSeq(qq) = FlattenSeq(ss) \o SamplesOf(p)
    BY <2>3, <2>6, <2>7, FlattenAppend
  <2>9. w.samples = FlattenSeq(ss)
    BY DEF Holds, ss
  <2>10. QED
    BY <2>8, <2>9, WrittenFields DEF qq
<1>5. Written(w, p).packets = Len(q)
  <2>1. w.packets = n
    BY <1>1 DEF Holds
  <2>2. Written(w, p).packets = w.packets + 1
    BY WrittenFields
  <2>3. QED
    BY <1>3, <2>1, <2>2
<1>6. /\ Written(w, p).gaps = Cardinality({i \in DOMAIN q : q[i].gap})
      /\ Written(w, p).errors = Cardinality({i \in DOMAIN q : q[i].uncertain})
  <2>1. Cardinality({i \in DOMAIN q : q[i].gap})
          = Cardinality({i \in DOMAIN s : s[i].gap}) + (IF p.gap THEN 1 ELSE 0)
    <3> DEFINE S == {i \in DOMAIN s : s[i].gap}
               Q == {i \in DOMAIN q : q[i].gap}
    <3>1. S \subseteq 1..n
      BY <1>3
    <3>2. Q = IF p.gap THEN S \union {n + 1} ELSE S
      <4>1. \A i : i \in 1..(n + 1) <=> i \in 1..n \/ i = n + 1
        OBVIOUS
      <4>2. QED
        BY <1>3, <4>1
    <3> HIDE DEF S, Q
    <3>3. Cardinality(Q) = Cardinality(S) + (IF p.gap THEN 1 ELSE 0)
      BY <3>1, <3>2, OneMore
    <3>4. QED
      BY <3>3 DEF S, Q
  <2>2. Cardinality({i \in DOMAIN q : q[i].uncertain})
          = Cardinality({i \in DOMAIN s : s[i].uncertain}) + (IF p.uncertain THEN 1 ELSE 0)
    <3> DEFINE S == {i \in DOMAIN s : s[i].uncertain}
               Q == {i \in DOMAIN q : q[i].uncertain}
    <3>1. S \subseteq 1..n
      BY <1>3
    <3>2. Q = IF p.uncertain THEN S \union {n + 1} ELSE S
      <4>1. \A i : i \in 1..(n + 1) <=> i \in 1..n \/ i = n + 1
        OBVIOUS
      <4>2. QED
        BY <1>3, <4>1
    <3> HIDE DEF S, Q
    <3>3. Cardinality(Q) = Cardinality(S) + (IF p.uncertain THEN 1 ELSE 0)
      BY <3>1, <3>2, OneMore
    <3>4. QED
      BY <3>3 DEF S, Q
  <2>3. /\ w.gaps = Cardinality({i \in DOMAIN s : s[i].gap})
        /\ w.errors = Cardinality({i \in DOMAIN s : s[i].uncertain})
    BY DEF Holds
  <2>4. /\ Written(w, p).gaps = w.gaps + (IF p.gap THEN 1 ELSE 0)
        /\ Written(w, p).errors = w.errors + (IF p.uncertain THEN 1 ELSE 0)
    BY WrittenFields
  <2>5. QED
    BY <2>1, <2>2, <2>3, <2>4
<1>7. Written(w, p).first = [i \in 1..Earlier(1, Len(q)) |-> q[i].stamp]
  <2>1. w.first = [i \in 1..Earlier(1, n) |-> s[i].stamp]
    BY <1>1 DEF Holds
  <2>2. Earlier(1, Len(q)) = 1
    BY <1>3 DEF Earlier
  <2>3. CASE n = 0
    <3>1. Earlier(1, n) = 0
      BY <2>3 DEF Earlier
    <3>2. w.first = <<>>
      BY <2>1, <3>1, EmptySeq
    <3>3. Written(w, p).first = <<p.stamp>>
      BY <3>2, WrittenFields
    <3>4. q[1] = p
      BY <1>3, <2>3
    <3>5. QED
      BY <2>2, <3>3, <3>4
  <2>4. CASE n # 0
    <3>1. Earlier(1, n) = 1
      BY <2>4 DEF Earlier
    <3>2. w.first = [i \in 1..1 |-> s[i].stamp] /\ w.first # <<>>
      BY <2>1, <3>1
    <3>3. q[1] = s[1]
      BY <1>3, <2>4
    <3>4. \A i \in 1..1 : q[i].stamp = s[i].stamp
      BY <3>3
    <3>5. Written(w, p).first = w.first
      BY <3>2, WrittenFields
    <3>6. QED
      BY <2>2, <3>2, <3>4, <3>5
  <2>5. QED
    BY <2>3, <2>4
<1>8. QED
  BY <1>2, <1>4, <1>5, <1>6, <1>7 DEF Holds

LEMMA HoldsNothing == NewWriter \in WriterType /\ Holds(NewWriter, <<>>)
<1>1. NewWriter \in WriterType
  BY EmptySeq DEF NewWriter, WriterType
<1>2. Len(<<>>) = 0 /\ DOMAIN <<>> = {}
  BY EmptySeq
<1>3. FlattenSeq([i \in DOMAIN <<>> |-> SamplesOf(<<>>[i])]) = <<>>
  <2>1. [i \in DOMAIN <<>> |-> SamplesOf(<<>>[i])] = <<>>
    BY <1>2
  <2>2. QED
    BY <1>2, <2>1 DEF FlattenSeq
<1>4. /\ Cardinality({i \in DOMAIN <<>> : <<>>[i].gap}) = 0
      /\ Cardinality({i \in DOMAIN <<>> : <<>>[i].uncertain}) = 0
  BY <1>2, FS_EmptySet
<1>5. [i \in 1..Earlier(1, Len(<<>>)) |-> <<>>[i].stamp] = <<>>
  <2>1. Earlier(1, Len(<<>>)) = 0
    BY <1>2 DEF Earlier
  <2>2. QED
    BY <2>1
<1>6. QED
  BY <1>1, <1>2, <1>3, <1>4, <1>5 DEF Holds, NewWriter

\* The time at which the device is after a packet.
EndOf(p) == p.time + p.samples * SampleTime

\* The device tells the time of packet p, or flags that it does not.
Stamped(p) == p.uncertain \/ p.stamp = Qpc(p.time)

\* As long as no gap was flagged, w holds the packets of s one sample after another; as
\* long as no error was, it has the time of the first.
InPhase(w, s) ==
  s # <<>> =>
    /\ w.first # <<>> /\ w.samples # <<>>
    /\ w.errors = 0 => w.first[1] = Qpc(w.samples[1])
    /\ w.gaps = 0 =>
         /\ \A i \in DOMAIN w.samples : w.samples[i] = w.samples[1] + (i - 1) * SampleTime
         /\ EndOf(s[Len(s)]) = w.samples[1] + Len(w.samples) * SampleTime

LEMMA Steps ==
  ASSUME NEW f \in Nat, NEW m \in Nat, NEW j \in Nat, NEW k \in Nat
  PROVE  (f + m * k) + j * k = f + (m + j) * k
OBVIOUS

LEMMA InPhaseMore ==
  ASSUME NEW w \in WriterType, NEW s \in Seq(PacketType), NEW p \in PacketType,
         Holds(w, s), InPhase(w, s), Stamped(p),
         s # <<>> /\ ~p.gap => p.time = EndOf(s[Len(s)])
  PROVE  InPhase(Written(w, p), Append(s, p))
<1>1. PICK v \in WriterType : v = Written(w, p)
  BY WrittenFields
<1>2. /\ v.samples = w.samples \o SamplesOf(p)
      /\ v.gaps = w.gaps + (IF p.gap THEN 1 ELSE 0)
      /\ v.errors = w.errors + (IF p.uncertain THEN 1 ELSE 0)
      /\ v.first = IF w.first = <<>> THEN <<p.stamp>> ELSE w.first
  BY <1>1, WrittenFields
<1>3. PICK q : q = SamplesOf(p)
  OBVIOUS
<1>4. PICK c \in Nat : c = p.samples /\ c >= 1
  BY DEF PacketType
<1>5. /\ q \in Seq(Nat) /\ Len(q) = c
      /\ \A i \in 1..c : q[i] = p.time + (i - 1) * SampleTime
  BY <1>3, <1>4, SamplesFields
<1>6. PICK m \in Nat : m = Len(w.samples)
  BY LenProperties DEF WriterType
<1>7. PICK r \in Seq(Nat) : r = w.samples
  BY DEF WriterType
<1>8. /\ v.samples \in Seq(Nat) /\ Len(v.samples) = m + c /\ DOMAIN v.samples = 1..(m + c)
      /\ DOMAIN r = 1..m
      /\ \A i \in 1..m : v.samples[i] = r[i]
      /\ \A i \in 1..c : v.samples[m + i] = q[i]
  <2>1. PICK u : u = r \o q
    OBVIOUS
  <2>2. /\ u \in Seq(Nat) /\ Len(u) = m + c
        /\ \A i \in 1..(m + c) : u[i] = IF i <= m THEN r[i] ELSE q[i - m]
    <3>1. /\ u \in Seq(Nat) /\ Len(u) = Len(r) + Len(q)
          /\ \A i \in 1..(Len(r) + Len(q)) : u[i] = IF i <= Len(r) THEN r[i] ELSE q[i - Len(r)]
      BY <1>5, <1>7, <2>1, ConcatProperties
    <3>2. Len(r) = m /\ Len(q) = c
      BY <1>5, <1>6, <1>7
    <3>3. QED
      BY <3>1, <3>2
  <2>3. DOMAIN u = 1..(m + c) /\ DOMAIN r = 1..m
    BY <1>6, <1>7, <2>2, LenProperties
  <2>4. \A i \in 1..m : i \in 1..(m + c) /\ i <= m
    OBVIOUS
  <2>5. \A i \in 1..c : m + i \in 1..(m + c) /\ ~(m + i <= m) /\ (m + i) - m = i
    OBVIOUS
  <2>6. (\A i \in 1..m : u[i] = r[i]) /\ \A i \in 1..c : u[m + i] = q[i]
    BY <2>2, <2>4, <2>5
  <2>7. v.samples = u
    BY <1>2, <1>3, <1>7, <2>1
  <2>8. QED
    BY <2>2, <2>3, <2>6, <2>7
<1>9. PICK k \in Nat : k = SampleTime
  BY Ticks
<1>10. PICK x \in Nat : x = p.time
  BY DEF PacketType
<1>11. \A i \in 1..c : v.samples[m + i] = x + (i - 1) * k
  BY <1>5, <1>8, <1>9, <1>10
<1>12. EndOf(p) = x + c * k
  BY <1>4, <1>9, <1>10 DEF EndOf
<1>13. PICK l : l = Append(s, p)
  OBVIOUS
<1>14. l[Len(l)] = p
  BY <1>13, AppendProperties
<1>15. CASE s = <<>>
  <2>1. w.first = <<>> /\ m = 0
    <3>1. Len(s) = 0 /\ DOMAIN s = {}
      BY <1>15, EmptySeq
    <3>2. Earlier(1, Len(s)) = 0
      BY <3>1 DEF Earlier
    <3>3. w.first = <<>>
      BY <3>2 DEF Holds
    <3>4. [i \in DOMAIN s |-> SamplesOf(s[i])] = <<>>
      BY <3>1
    <3>5. w.samples = <<>>
      BY <3>4, EmptySeq DEF Holds, FlattenSeq
    <3>6. QED
      BY <1>6, <3>3, <3>5, EmptySeq
  <2>2. v.first # <<>> /\ v.first[1] = p.stamp
    BY <1>2, <2>1
  <2>3. \A i \in 1..c : v.samples[i] = x + (i - 1) * k
    <3>1. \A i \in 1..c : m + i = i
      BY <2>1
    <3>2. QED
      BY <1>11, <3>1
  <2>4. DOMAIN v.samples = 1..c /\ Len(v.samples) = c /\ v.samples # <<>>
    BY <1>4, <1>8, <2>1, EmptySeq
  <2>5. v.samples[1] = x
    <3>1. 1 \in 1..c /\ (1 - 1) * k = 0
      BY <1>4
    <3>2. QED
      BY <2>3, <3>1
  <2>6. v.errors = 0 => v.first[1] = Qpc(v.samples[1])
    <3>1. w.errors \in Nat
      BY DEF WriterType
    <3>2. v.errors = 0 => ~p.uncertain
      BY <1>2, <3>1
    <3>3. QED
      BY <1>10, <2>2, <2>5, <3>2 DEF Stamped
  <2>7. InPhase(v, l)
    BY <1>9, <1>12, <1>14, <2>2, <2>3, <2>4, <2>5, <2>6 DEF InPhase
  <2>8. QED
    BY <1>1, <1>13, <2>7
<1>16. CASE s # <<>>
  <2>1. /\ w.first # <<>> /\ w.samples # <<>>
        /\ w.errors = 0 => w.first[1] = Qpc(w.samples[1])
        /\ w.gaps = 0 =>
             /\ \A i \in DOMAIN w.samples : w.samples[i] = w.samples[1] + (i - 1) * SampleTime
             /\ EndOf(s[Len(s)]) = w.samples[1] + Len(w.samples) * SampleTime
    BY <1>16 DEF InPhase
  <2>2. PICK f \in Nat : f = r[1]
    <3>1. 1 \in DOMAIN r
      BY <1>7, <2>1
    <3>2. QED
      BY <3>1
  <2>3. v.first = w.first
    BY <1>2, <2>1
  <2>4. m # 0 /\ 1 \in 1..m
    <3>1. m # 0
      BY <1>6, <1>7, <2>1, EmptySeq
    <3>2. QED
      BY <3>1
  <2>5. v.samples # <<>> /\ v.samples[1] = f
    <3>1. v.samples[1] = f
      BY <1>8, <2>2, <2>4
    <3>2. m + c # 0
      BY <1>4
    <3>3. v.samples # <<>>
      BY <1>8, <3>2, EmptySeq
    <3>4. QED
      BY <3>1, <3>3
  <2>6. ASSUME v.gaps = 0
        PROVE  /\ \A i \in DOMAIN v.samples : v.samples[i] = f + (i - 1) * k
               /\ EndOf(p) = f + (m + c) * k
    <3>1. w.gaps = 0 /\ ~p.gap
      <4>1. w.gaps \in Nat
        BY DEF WriterType
      <4>2. QED
        BY <1>2, <2>6, <4>1
    <3>2. (\A i \in 1..m : r[i] = f + (i - 1) * k) /\ x = f + m * k
      BY <1>6, <1>7, <1>8, <1>9, <1>10, <1>16, <2>1, <2>2, <3>1
    <3>3. EndOf(p) = f + (m + c) * k
      BY <1>12, <3>2, Steps
    <3>4. ASSUME NEW i \in 1..(m + c)
          PROVE  v.samples[i] = f + (i - 1) * k
      <4>1. CASE i \in 1..m
        BY <1>8, <3>2, <4>1
      <4>2. CASE i \notin 1..m
        <5>1. PICK j \in 1..c : i = m + j
          <6>1. i - m \in 1..c /\ i = m + (i - m)
            BY <4>2
          <6>2. QED
            BY <6>1
        <5>2. PICK h \in Nat : h = j - 1
          OBVIOUS
        <5>3. v.samples[i] = x + h * k
          BY <1>11, <5>1, <5>2
        <5>4. (f + m * k) + h * k = f + (m + h) * k
          BY Steps
        <5>5. m + h = i - 1
          BY <5>1, <5>2
        <5>6. QED
          BY <3>2, <5>3, <5>4, <5>5
      <4>3. QED
        BY <4>1, <4>2
    <3>5. QED
      BY <1>8, <3>3, <3>4
  <2>7. v.errors = 0 => v.first[1] = Qpc(v.samples[1])
    <3>1. w.errors \in Nat
      BY DEF WriterType
    <3>2. v.errors = 0 => w.errors = 0
      BY <1>2, <3>1
    <3>3. QED
      BY <1>7, <2>1, <2>2, <2>3, <2>5, <3>2
  <2>8. InPhase(v, l)
    BY <1>8, <1>9, <1>14, <2>1, <2>3, <2>5, <2>6, <2>7 DEF InPhase
  <2>9. QED
    BY <1>1, <1>13, <2>8
<1>17. QED
  BY <1>15, <1>16

-----------------------------------------------------------------------------
(* The common timeline.                                                    *)

LEMMA Quotient ==
  ASSUME NEW a \in Nat, NEW z \in Nat \ {0}
  PROVE  /\ (a \div z) \in Nat
         /\ (a \div z) * z <= a /\ a < (a \div z) * z + z
OBVIOUS

\* The division rounds to the nearest.
LEMMA Nearest ==
  ASSUME NEW e \in Nat, NEW z \in Nat \ {0}, NEW o, o = (e + z \div 2) \div z
  PROVE  o \in Nat /\ 2 * (o * z) <= 2 * e + z /\ 2 * e <= 2 * (o * z) + z
<1>1. PICK h \in Nat : h = z \div 2
  OBVIOUS
<1>2. 2 * h <= z /\ z <= 2 * h + 1
  BY <1>1
<1>3. PICK g \in Nat : g = e + h
  OBVIOUS
<1>4. o \in Nat /\ o * z <= g /\ g < o * z + z
  <2>1. o = g \div z
    BY <1>1, <1>3
  <2>2. QED
    BY <2>1, Quotient
<1>5. PICK p \in Nat : p = o * z
  BY <1>4, Product
<1>6. 2 * p <= 2 * e + z /\ 2 * e <= 2 * p + z
  BY <1>2, <1>3, <1>4, <1>5
<1>7. QED
  BY <1>4, <1>5, <1>6

LEMMA WholeFrames ==
  ASSUME NEW c \in Nat, NEW f \in Nat \ {0}
  PROVE  c <= ((c + f - 1) \div f) * f
<1>1. PICK a \in Nat : a = c + f - 1
  OBVIOUS
<1>2. PICK q \in Nat : q = (a \div f) * f
  BY Quotient, Product
<1>3. a < q + f
  BY <1>2, Quotient
<1>4. QED
  BY <1>1, <1>2, <1>3

\* qpc_delta_to_samples is off by at most half a sample.
LEMMA RoundedDelta ==
  ASSUME NEW d \in Nat
  PROVE  /\ QpcDeltaToSamples(d) \in Nat
         /\ 2 * (QpcDeltaToSamples(d) * SampleTime) <= 2 * (d * TickTime) + SampleTime
         /\ 2 * (d * TickTime) <= 2 * (QpcDeltaToSamples(d) * SampleTime) + SampleTime
<1>1. PICK e \in Nat : e = d * TickTime
  BY Ticks, Product
<1>2. QpcDeltaToSamples(d) = (e + SampleTime \div 2) \div SampleTime
  BY <1>1, Ticks DEF QpcDeltaToSamples
<1>3. SampleTime \in Nat \ {0}
  BY Ticks
<1>4. QED
  BY <1>1, <1>2, <1>3, Nearest

\* The counter shows a time to within a tick.
LEMMA QpcFloor ==
  ASSUME NEW x \in Nat
  PROVE  /\ Qpc(x) \in Nat /\ Qpc(x) * TickTime <= x /\ x < Qpc(x) * TickTime + TickTime
<1>1. TickTime \in Nat \ {0}
  BY Ticks
<1>2. QED
  BY <1>1, Quotient DEF Qpc

LEMMA CancelBelow ==
  ASSUME NEW a \in Nat, NEW b \in Nat, NEW r \in Nat \ {0}, a * r < b * r + r
  PROVE  a <= b
<1>1. SUFFICES ASSUME a > b
               PROVE  FALSE
  OBVIOUS
<1>2. PICK c \in Nat : a = b + 1 + c
  <2>1. a - b - 1 \in Nat /\ a = b + 1 + (a - b - 1)
    BY <1>1
  <2>2. QED
    BY <2>1
<1>3. PICK x \in Nat, y \in Nat : x = b * r /\ y = c * r
  BY Product
<1>4. a * r = x + r + y
  BY <1>2, <1>3
<1>5. QED
  BY <1>3, <1>4

\* Between two times the counter advances by their difference, to within a tick.
LEMMA QpcDelta ==
  ASSUME NEW x \in Nat, NEW y \in Nat, x <= y
  PROVE  /\ Qpc(y) - Qpc(x) \in Nat
         /\ (Qpc(y) - Qpc(x)) * TickTime <= (y - x) + TickTime
         /\ y - x <= (Qpc(y) - Qpc(x)) * TickTime + TickTime
<1>1. PICK t \in Nat \ {0} : t = TickTime
  BY Ticks
<1>2. PICK a \in Nat, b \in Nat : a = Qpc(x) /\ b = Qpc(y)
  BY QpcFloor
<1>3. PICK u \in Nat, v \in Nat : u = a * t /\ v = b * t
  BY Product
<1>4. u <= x /\ x < u + t /\ v <= y /\ y < v + t
  BY <1>1, <1>2, <1>3, QpcFloor
<1>5. a <= b
  <2>1. a * t < b * t + t
    BY <1>3, <1>4
  <2>2. QED
    BY <2>1, CancelBelow
<1>6. b - a \in Nat /\ (b - a) * t = v - u
  BY <1>3, <1>5
<1>7. v - u <= (y - x) + t /\ y - x <= (v - u) + t
  BY <1>3, <1>4
<1>8. QED
  BY <1>1, <1>2, <1>6, <1>7

\* Two tracks without gaps and errors keep their phase on the common timeline.
LEMMA AlignedInPhase ==
  ASSUME NEW tracks, DOMAIN tracks = Tracks, aligned = AlignTracks(tracks),
         \A t \in Tracks :
           /\ tracks[t] \in WriterType
           /\ tracks[t].first # <<>> /\ tracks[t].samples # <<>>
           /\ tracks[t].first[1] = Qpc(tracks[t].samples[1])
           /\ \A i \in DOMAIN tracks[t].samples :
                tracks[t].samples[i] = tracks[t].samples[1] + (i - 1) * SampleTime
  PROVE  LET samples(t) == tracks[t].samples
             origin == Earlier(samples("microphone")[1], samples("render")[1])
             slack == SampleTime + 2 * TickTime
         IN \A t \in Tracks : \A i \in DOMAIN samples(t) :
              LET place == aligned.offset[t] + i - 1
                  late  == place * SampleTime - (samples(t)[i] - origin)
              IN 2 * late \in -slack..slack /\ place < aligned.length
<1> DEFINE first(t)  == tracks[t].first[1]
           begin(t)  == tracks[t].samples[1]
           origin    == Earlier(first("microphone"), first("render"))
           from      == Earlier(begin("microphone"), begin("render"))
           offset(t) == QpcDeltaToSamples(first(t) - origin)
           end(t)    == offset(t) + Len(tracks[t].samples)
           common    == Later(end("microphone"), end("render"))
           length    == ((common + FrameSamples - 1) \div FrameSamples) * FrameSamples
           slack     == SampleTime + 2 * TickTime
<1>1. "microphone" \in Tracks /\ "render" \in Tracks
      /\ \A t \in Tracks : t = "microphone" \/ t = "render"
  BY DEF Tracks
<1>2. \A t \in Tracks : /\ begin(t) \in Nat /\ Len(tracks[t].samples) \in Nat
                        /\ first(t) = Qpc(begin(t))
  <2>1. TAKE t \in Tracks
  <2>2. tracks[t].samples \in Seq(Nat) /\ tracks[t].samples # <<>>
    BY DEF WriterType
  <2>3. 1 \in DOMAIN tracks[t].samples
    BY <2>2
  <2>4. QED
    BY <2>2, <2>3, LenProperties
<1>3. /\ \A t \in Tracks : \A i \in DOMAIN tracks[t].samples :
           tracks[t].samples[i] = begin(t) + (i - 1) * SampleTime
      /\ aligned.offset = [t \in Tracks |-> offset(t)] /\ aligned.length = length
  BY DEF AlignTracks
<1> HIDE DEF first, begin
<1>4. from \in Nat /\ (\A t \in Tracks : from <= begin(t))
  BY <1>1, <1>2 DEF Earlier
<1>5. origin = Qpc(from)
  <2>1. ASSUME NEW x \in Nat, NEW y \in Nat
        PROVE  Earlier(Qpc(x), Qpc(y)) = Qpc(Earlier(x, y))
    <3>1. CASE x < y
      <4>1. Qpc(y) - Qpc(x) \in Nat /\ Qpc(x) \in Nat /\ Qpc(y) \in Nat
        BY <3>1, QpcDelta, QpcFloor
      <4>2. QED
        BY <3>1, <4>1 DEF Earlier
    <3>2. CASE ~(x < y)
      <4>1. Qpc(x) - Qpc(y) \in Nat /\ Qpc(x) \in Nat /\ Qpc(y) \in Nat
        BY <3>2, QpcDelta, QpcFloor
      <4>2. QED
        BY <3>2, <4>1 DEF Earlier
    <3>3. QED
      BY <3>1, <3>2
  <2>2. QED
    BY <1>1, <1>2, <2>1
<1> HIDE DEF from, origin
<1>6. \A t \in Tracks : /\ first(t) - origin \in Nat
                        /\ (first(t) - origin) * TickTime <= (begin(t) - from) + TickTime
                        /\ begin(t) - from <= (first(t) - origin) * TickTime + TickTime
  <2>1. TAKE t \in Tracks
  <2>2. begin(t) \in Nat /\ from <= begin(t) /\ first(t) = Qpc(begin(t))
    BY <1>2, <1>4
  <2>3. QED
    BY <1>4, <1>5, <2>2, QpcDelta
<1>7. \A t \in Tracks : offset(t) \in Nat
  <2>1. TAKE t \in Tracks
  <2>2. first(t) - origin \in Nat
    BY <1>6
  <2>3. QED
    BY <2>2, RoundedDelta
<1>8. \A t \in Tracks : end(t) \in Nat
  BY <1>2, <1>7
<1> HIDE DEF offset
<1>9. common \in Nat /\ \A t \in Tracks : end(t) <= common
  <2> HIDE DEF end
  <2>1. QED
    BY <1>1, <1>8 DEF Later
<1> HIDE DEF common
<1>10. common <= length
  BY <1>9, Ticks, WholeFrames
<1>11. length \in Nat
  <2>1. common + FrameSamples - 1 \in Nat /\ FrameSamples \in Nat \ {0}
    BY <1>9, Ticks
  <2>2. QED
    BY <2>1, Quotient, Product
<1> HIDE DEF length
<1>12. ASSUME NEW t \in Tracks, NEW i \in DOMAIN tracks[t].samples
       PROVE  LET place == aligned.offset[t] + i - 1
                  late  == place * SampleTime - (tracks[t].samples[i] - from)
              IN 2 * late \in -slack..slack /\ place < aligned.length
  <2>1. DOMAIN tracks[t].samples = 1..Len(tracks[t].samples)
    <3>1. tracks[t].samples \in Seq(Nat)
      BY DEF WriterType
    <3>2. QED
      BY <3>1, LenProperties
  <2>2. PICK k \in Nat, d \in Nat, j \in Nat, o \in Nat, n \in Nat, a \in Nat, g \in Nat,
              b \in Nat :
          /\ k = SampleTime /\ d = first(t) - origin /\ j = i - 1 /\ o = offset(t)
          /\ n = Len(tracks[t].samples) /\ a = from /\ g = TickTime /\ b = begin(t)
          /\ j < n
    <3>1. SampleTime \in Nat /\ TickTime \in Nat
      BY Ticks
    <3>2. first(t) - origin \in Nat /\ offset(t) \in Nat /\ from \in Nat
      BY <1>4, <1>6, <1>7
    <3>3. begin(t) \in Nat /\ Len(tracks[t].samples) \in Nat
      BY <1>2
    <3>4. i - 1 \in Nat /\ i - 1 < Len(tracks[t].samples)
      BY <1>12, <2>1, <3>3
    <3>5. QED
      BY <3>1, <3>2, <3>3, <3>4
  <2>3. i = j + 1
    BY <1>12, <2>1, <2>2
  <2>4. tracks[t].samples[i] = b + j * k
    <3>1. tracks[t].samples[i] = begin(t) + (i - 1) * SampleTime
      BY <1>3
    <3>2. QED
      BY <2>2, <3>1
  <2>5. aligned.offset[t] + i - 1 = o + j
    <3>1. aligned.offset[t] = o
      BY <1>3, <2>2
    <3>2. QED
      BY <2>3, <3>1
  <2>6. PICK x \in Nat, y \in Nat, z \in Nat : x = o * k /\ y = j * k /\ z = d * g
    BY Product
  <2>7. 2 * x <= 2 * z + k /\ 2 * z <= 2 * x + k
    <3>1. o = QpcDeltaToSamples(d)
      BY <2>2 DEF offset
    <3>2. QED
      BY <2>2, <2>6, <3>1, RoundedDelta
  <2>8. z <= (b - a) + g /\ b - a <= z + g
    <3>1. /\ (first(t) - origin) * TickTime <= (begin(t) - from) + TickTime
          /\ begin(t) - from <= (first(t) - origin) * TickTime + TickTime
      BY <1>6
    <3>2. QED
      BY <2>2, <2>6, <3>1
  <2>9. (o + j) * k = x + y
    BY <2>6
  <2>10. (x + y) - ((b + y) - a) = x - (b - a)
    OBVIOUS
  <2>11. 2 * (x - (b - a)) \in -(k + 2 * g)..(k + 2 * g)
    BY <2>7, <2>8
  <2>12. o + j < aligned.length
    <3>1. o + n <= common /\ common <= aligned.length
      BY <1>3, <1>9, <1>10, <2>2
    <3>2. common \in Nat /\ aligned.length \in Nat
      BY <1>3, <1>9, <1>11
    <3>3. o \in Nat /\ j \in Nat /\ n \in Nat /\ j < n
      BY <2>2
    <3>4. QED
      BY <3>1, <3>2, <3>3
  <2>13. 2 * ((o + j) * k - (tracks[t].samples[i] - from)) \in -(k + 2 * g)..(k + 2 * g)
    BY <2>2, <2>4, <2>6, <2>9, <2>10, <2>11
  <2>14. QED
    BY <2>2, <2>5, <2>12, <2>13
<1>13. from = Earlier(tracks["microphone"].samples[1], tracks["render"].samples[1])
  BY DEF from, begin
<1>14. QED
  BY <1>12, <1>13

-----------------------------------------------------------------------------
(* The invariant of the capture command.                                   *)

\* A thread is spawned once, and has sent nothing before its start.
Begun ==
  /\ capture.pc \in {"idle", "spawn_microphone"} => \A t \in Tracks : track[t].pc = "none"
  /\ capture.pc = "spawn_render" => track["render"].pc = "none"
  /\ \A t \in Tracks : track[t].pc \in {"none", "open", "started"} => track[t].sent = <<>>

\* A packet without a gap begins where the one before it ended, and each is stamped.
Chain(k) ==
  /\ \A i \in DOMAIN k.sent : i # 1 /\ ~k.sent[i].gap => k.sent[i].time = EndOf(k.sent[i - 1])
  /\ k.sent # <<>> =>
       /\ k.pc = "read" => k.time = EndOf(k.sent[Len(k.sent)])
       /\ k.pc = "packet" /\ ~k.packet.gap => k.packet.time = EndOf(k.sent[Len(k.sent)])
  /\ k.pc = "packet" => k.time = EndOf(k.packet) /\ Stamped(k.packet)
  /\ \A i \in DOMAIN k.sent : Stamped(k.sent[i])

Chained == \A t \in Tracks : Chain(track[t])

\* What the coordinator will have seen of track k when it has received everything.
Reach(to, k) ==
  /\ to.count = Len(k.sent)
  /\ k.pc \in {"none", "open", "started"} => to.stage = "new"
  /\ k.pc \in {"read", "packet", "stopped"} => to.stage = "open"
  /\ to.stage = "over" => k.pc = "done"

\* What it has seen; over are the tracks whose end it has received.
From(t, over) ==
  [stage |-> IF t \in over THEN "over" ELSE IF t \in DOMAIN writer THEN "open" ELSE "new",
   count |-> IF t \in DOMAIN writer THEN writer[t].packets ELSE 0]

One(t, over) == IF t \in over THEN 1 ELSE 0

Ended(over) ==
  /\ capture.finished = One("microphone", over) + One("render", over)
  /\ capture.failures \subseteq over /\ over \subseteq DOMAIN writer \union capture.failures

Accounted ==
  Connected =>
    \E over \in SUBSET Tracks :
      /\ Ended(over)
      /\ \A t \in Tracks : \E to : Flow(t, channel, From(t, over), to, track[t].sent)
                                   /\ Reach(to, track[t])

\* A writer holds what was received, the first part of what was sent.
Record(w, sent) ==
  /\ w.packets <= Len(sent)
  /\ Holds(w, SubSeq(sent, 1, w.packets)) /\ InPhase(w, SubSeq(sent, 1, w.packets))

Recorded == \A t \in DOMAIN writer : Record(writer[t], track[t].sent)

\* The manifest is of all that was sent.
Concluding ==
  /\ manifest.written \in BOOLEAN
  /\ Connected => capture.result = "none" /\ ~manifest.written
  /\ capture.result \in {"ok", "failed"} => manifest.written
  /\ manifest.written =>
       /\ manifest.tracks = writer
       /\ \A t \in DOMAIN writer : writer[t].packets = Len(track[t].sent)
       /\ Tracks \ DOMAIN writer \subseteq manifest.failures
       /\ (capture.result = "ok") <=> (manifest.failures = {})

Placed ==
  \/ aligned = NotAligned
  \/ manifest.written /\ aligned.status \in {"no track", "no time"}
  \/ /\ manifest.written /\ aligned.status = "ok" /\ DOMAIN writer = Tracks
     /\ \A t \in Tracks : writer[t].first # <<>>
     /\ aligned = AlignTracks(writer)

CInv == CTyped /\ Begun /\ Chained /\ Accounted /\ Recorded /\ Concluding /\ Placed

LEMMA TrackFields ==
  ASSUME CTyped, NEW t \in Tracks
  PROVE  /\ track[t] \in TrackType /\ track[t].pc \in TrackPcs /\ track[t].time \in Nat
         /\ track[t].packet \in AnyPacket /\ track[t].sent \in Seq(PacketType)
         /\ Len(track[t].sent) \in Nat
<1>1. track[t] \in TrackType
  BY DEF CTyped
<1>2. track[t].sent \in Seq(PacketType)
  BY <1>1 DEF TrackType, PacketType
<1>3. QED
  BY <1>1, <1>2, LenProperties DEF TrackType, TrackPcs, AnyPacket

\* What follows from a step that changes one thread.
LEMMA TrackSet ==
  ASSUME NEW before \in [Tracks -> TrackType], NEW t \in Tracks, NEW l \in TrackType,
         NEW after, after = [before EXCEPT ![t] = l]
  PROVE  /\ after \in [Tracks -> TrackType]
         /\ after[t] = l
         /\ \A u \in Tracks : u # t => after[u] = before[u]
<1>1. after \in [Tracks -> TrackType]
  BY ZenonT(60)
<1>2. after[t] = l
  BY ZenonT(60)
<1>3. \A u \in Tracks : u # t => after[u] = before[u]
  BY ZenonT(60)
<1>4. QED
  BY <1>1, <1>2, <1>3

\* A step of a thread that sends nothing.
LEMMA TrackQuiet ==
  ASSUME CInv, NEW t \in Tracks, UNCHANGED <<capture, channel, writer, manifest, aligned>>,
         track' \in [Tracks -> TrackType], \A u \in Tracks : u # t => track'[u] = track[u],
         track'[t].sent = track[t].sent,
         track'[t].pc = "packet" => track'[t].packet \in PacketType,
         track[t].pc # "none",
         track'[t].pc \in {"none", "open", "started"}
              => track[t].pc \in {"none", "open", "started"},
         Chain(track'[t]),
         \A to : Connected /\ Reach(to, track[t]) => Reach(to, track'[t])
  PROVE  CInv'
<1>0. CTyped /\ Begun /\ Chained /\ Accounted /\ Recorded /\ Concluding /\ Placed
  BY DEF CInv
<1>1. /\ capture' = capture /\ channel' = channel /\ writer' = writer
      /\ manifest' = manifest /\ aligned' = aligned /\ (Connected' <=> Connected)
  BY DEF Connected
<1>2. CTyped'
  BY <1>0, <1>1 DEF CTyped
<1>3. Begun'
  <2>1. capture.pc \notin {"idle", "spawn_microphone"}
    BY <1>0 DEF Begun
  <2>2. capture.pc = "spawn_render" => t # "render" /\ track["render"].pc = "none"
    BY <1>0 DEF Begun
  <2>3. ASSUME NEW u \in Tracks, track'[u].pc \in {"none", "open", "started"}
        PROVE  track'[u].sent = <<>>
    BY <1>0, <2>3 DEF Begun
  <2>4. "render" \in Tracks
    BY DEF Tracks
  <2>5. QED
    BY <1>1, <2>1, <2>2, <2>3, <2>4 DEF Begun
<1>4. Chained'
  <2>1. ASSUME NEW u \in Tracks
        PROVE  Chain(track'[u])
    <3>1. CASE u = t
      BY <3>1
    <3>2. CASE u # t
      BY <1>0, <3>2 DEF Chained
    <3>3. QED
      BY <3>1, <3>2
  <2>2. QED
    BY <2>1 DEF Chained, Chain, EndOf, Stamped, Qpc
<1>5. \A u \in Tracks : track'[u].sent = track[u].sent
  OBVIOUS
<1>6. Accounted'
  <2>1. SUFFICES ASSUME Connected
                 PROVE  Accounted'
    BY <1>1 DEF Accounted
  <2>2. PICK over \in SUBSET Tracks :
          /\ Ended(over)
          /\ \A u \in Tracks : \E to : Flow(u, channel, From(u, over), to, track[u].sent)
                                       /\ Reach(to, track[u])
    BY <1>0, <2>1 DEF Accounted
  <2>3. Ended(over)'
    BY <1>1, <2>2 DEF Ended
  <2>4. ASSUME NEW u \in Tracks
        PROVE  \E to : Flow(u, channel', From(u, over)', to, track'[u].sent) /\ Reach(to, track'[u])
    <3>1. PICK to : Flow(u, channel, From(u, over), to, track[u].sent) /\ Reach(to, track[u])
      BY <2>2
    <3>2. From(u, over)' = From(u, over)
      BY <1>1 DEF From
    <3>3. Reach(to, track'[u])
      <4>1. CASE u = t
        BY <2>1, <3>1, <4>1
      <4>2. CASE u # t
        BY <3>1, <4>2
      <4>3. QED
        BY <4>1, <4>2
    <3>4. Flow(u, channel', From(u, over)', to, track'[u].sent)
      BY <1>1, <1>5, <3>1, <3>2
    <3>5. QED
      BY <3>3, <3>4
  <2>5. QED
    BY <2>3, <2>4 DEF Accounted, Flow, Follows, Passes, Reach
<1>7. Recorded'
  <2>1. \A u \in DOMAIN writer : Record(writer[u], track'[u].sent)
    BY <1>0, <1>5 DEF Recorded, CTyped
  <2>2. QED
    BY <1>1, <2>1 DEF Recorded
<1>8. Concluding'
  BY <1>0, <1>1, <1>5 DEF Concluding, CTyped
<1>9. Placed'
  BY <1>0, <1>1 DEF Placed, AlignTracks
<1>10. QED
  BY <1>2, <1>3, <1>4, <1>6, <1>7, <1>8, <1>9 DEF CInv

-----------------------------------------------------------------------------
(* The steps of a thread.                                                  *)

\* A thread goes elsewhere without a packet.
LEMMA TrackGoes ==
  ASSUME CInv, NEW t \in Tracks, NEW pc \in TrackPcs, GoTrack(t, pc),
         UNCHANGED <<capture, channel, writer, manifest, aligned>>,
         \/ track[t].pc \in {"open", "read"} /\ pc = "report"
         \/ track[t].pc = "read" /\ pc \in {"stopped", "done"}
         \/ ~Connected /\ track[t].pc # "none" /\ pc \in {"report", "done"}
  PROVE  CInv'
<1>0. CTyped /\ Chained
  BY DEF CInv
<1>1. /\ track' \in [Tracks -> TrackType]
      /\ track'[t].pc = pc /\ track'[t].sent = track[t].sent
      /\ \A u \in Tracks : u # t => track'[u] = track[u]
  BY <1>0, GoTrackFields DEF CTyped
<1>2. pc \in {"report", "stopped", "done"} /\ track[t].pc # "none"
  OBVIOUS
<1>3. Chain(track'[t])
  BY <1>0, <1>1, <1>2 DEF Chained, Chain
<1>4. \A to : Connected /\ Reach(to, track[t]) => Reach(to, track'[t])
  BY <1>1 DEF Reach
<1>5. QED
  BY <1>1, <1>2, <1>3, <1>4, TrackQuiet

LEMMA OpenKeeps ==
  ASSUME CInv, NEW t \in Tracks, OpenTrack(t)
  PROVE  CInv'
<1>0. CTyped /\ Begun /\ track[t].pc = "open"
  BY DEF CInv, OpenTrack, TrackAt
<1>1. CASE GoTrack(t, "report")
  BY <1>0, <1>1, TrackGoes DEF OpenTrack, TrackPcs
<1>2. ASSUME NEW time \in Starts, track' = [track EXCEPT ![t].pc = "started", ![t].time = time]
      PROVE  CInv'
  <2>1. PICK k \in TrackType : k = track[t]
    BY <1>0 DEF CTyped
  <2> DEFINE l == [k EXCEPT !.pc = "started", !.time = time]
  <2>2. l \in TrackType /\ l.pc = "started" /\ l.sent = k.sent
    BY CaptureAssumption DEF TrackType
  <2>3. track' = [track EXCEPT ![t] = l]
    BY <1>0, <1>2, <2>1 DEF CTyped
  <2> HIDE DEF l
  <2>4. /\ track' \in [Tracks -> TrackType] /\ track'[t] = l
        /\ \A u \in Tracks : u # t => track'[u] = track[u]
    BY <1>0, <2>2, <2>3, TrackSet DEF CTyped
  <2>5. k.sent = <<>>
    BY <1>0, <2>1 DEF Begun
  <2>6. Chain(l)
    BY <2>2, <2>5, EmptySeq DEF Chain
  <2>7. \A to : Connected /\ Reach(to, track[t]) => Reach(to, track'[t])
    BY <1>0, <2>1, <2>2, <2>4 DEF Reach
  <2>8. UNCHANGED <<capture, channel, writer, manifest, aligned>>
    BY DEF OpenTrack
  <2>9. QED
    BY <1>0, <2>1, <2>2, <2>4, <2>6, <2>7, <2>8, TrackQuiet
<1>3. QED
  BY <1>1, <1>2 DEF OpenTrack

LEMMA ReadKeeps ==
  ASSUME CInv, NEW t \in Tracks, ReadPacket(t)
  PROVE  CInv'
<1>0. /\ CTyped /\ Chained /\ track[t].pc = "read"
      /\ UNCHANGED <<capture, channel, writer, manifest, aligned>>
  BY DEF CInv, ReadPacket, TrackAt
<1>1. PICK samples \in 1..MaxPacket, gap \in BOOLEAN, uncertain \in BOOLEAN :
        \E stamp \in IF uncertain THEN WrongStamps
                     ELSE {Qpc(track[t].time + (IF gap THEN Gap ELSE 0))} :
          track' = [track EXCEPT ![t].pc = "packet",
                      ![t].packet = [time |-> track[t].time + (IF gap THEN Gap ELSE 0),
                                     stamp |-> stamp, samples |-> samples, gap |-> gap,
                                     uncertain |-> uncertain],
                      ![t].time = track[t].time + (IF gap THEN Gap ELSE 0)
                                    + samples * SampleTime]
  BY DEF ReadPacket
<1>2. PICK k \in TrackType : k = track[t]
  BY <1>0 DEF CTyped
<1> DEFINE time == k.time + (IF gap THEN Gap ELSE 0)
           end == time + samples * SampleTime
<1>3. time \in Nat /\ (~gap => time = k.time)
  BY CaptureAssumption DEF TrackType
<1>4. PICK stamp \in IF uncertain THEN WrongStamps ELSE {Qpc(time)} :
         track' = [track EXCEPT ![t].pc = "packet",
                     ![t].packet = [time |-> time, stamp |-> stamp, samples |-> samples,
                                    gap |-> gap, uncertain |-> uncertain],
                     ![t].time = end]
  BY <1>1, <1>2
<1>5. stamp \in Nat /\ (uncertain \/ stamp = Qpc(time))
  <2>1. Qpc(time) \in Nat
    BY <1>3, QpcFloor
  <2>2. WrongStamps \subseteq Nat
    BY CaptureAssumption
  <2> HIDE DEF time
  <2>3. QED
    BY <2>1, <2>2
<1> DEFINE p == [time |-> time, stamp |-> stamp, samples |-> samples, gap |-> gap,
                 uncertain |-> uncertain]
<1>6. MaxPacket \in Nat /\ samples \in Nat
  BY Ticks
<1>7. end \in Nat
  <2>1. samples * SampleTime \in Nat
    BY <1>6, Ticks, Product
  <2> HIDE DEF time
  <2>2. QED
    BY <1>3, <2>1
<1> HIDE DEF time
<1>8. /\ p \in PacketType /\ p \in AnyPacket /\ p.time = time /\ p.gap = gap /\ EndOf(p) = end
      /\ Stamped(p)
  BY <1>3, <1>6, <1>5 DEF PacketType, AnyPacket, EndOf, Stamped
<1>9. track' = [track EXCEPT ![t].pc = "packet", ![t].packet = p, ![t].time = end]
  BY <1>4
<1> HIDE DEF p, end
<1> DEFINE l == [k EXCEPT !.pc = "packet", !.packet = p, !.time = end]
<1>10. l \in TrackType /\ l.pc = "packet" /\ l.sent = k.sent /\ l.packet = p /\ l.time = end
  BY <1>7, <1>8 DEF TrackType, AnyPacket
<1>11. track' = [track EXCEPT ![t] = l]
  BY <1>0, <1>2, <1>9 DEF CTyped
<1> HIDE DEF l
<1>12. /\ track' \in [Tracks -> TrackType] /\ track'[t] = l
       /\ \A u \in Tracks : u # t => track'[u] = track[u]
  BY <1>0, <1>10, <1>11, TrackSet DEF CTyped
<1>13. Chain(l)
  <2>1. Chain(k) /\ k.pc = "read"
    BY <1>0, <1>2 DEF Chained
  <2>2. QED
    BY <1>3, <1>8, <1>10, <2>1 DEF Chain
<1>14. \A to : Connected /\ Reach(to, track[t]) => Reach(to, track'[t])
  BY <1>0, <1>2, <1>10, <1>12 DEF Reach
<1>15. QED
  BY <1>0, <1>8, <1>10, <1>2, <1>12, <1>13, <1>14, TrackQuiet

\* A message is sent.
LEMMA SendKeeps ==
  ASSUME CInv, NEW t \in Tracks, NEW kind \in MessageKinds, NEW next \in TrackPcs,
         Connected, Len(channel) < ChannelCapacity,
         channel' = Append(channel, [kind |-> kind, track |-> t, packet |-> track[t].packet]),
         track' = [track EXCEPT ![t].pc = next, ![t].packet = NoPacket,
                     ![t].sent = IF kind = "packet" THEN Append(@, track[t].packet) ELSE @],
         UNCHANGED <<capture, writer, manifest, aligned>>,
         \/ track[t].pc = "started" /\ kind = "started" /\ next = "read"
         \/ track[t].pc = "packet" /\ kind = "packet" /\ next = "read"
         \/ track[t].pc = "stopped" /\ kind = "stopped" /\ next = "done"
         \/ track[t].pc = "report" /\ kind = "failed" /\ next = "done"
  PROVE  CInv'
<1>0. /\ CTyped /\ Begun /\ Chained /\ Accounted /\ Recorded /\ Concluding /\ Placed
      /\ capture' = capture /\ writer' = writer
      /\ manifest' = manifest /\ aligned' = aligned /\ (Connected' <=> Connected)
  BY DEF CInv, Connected
<1>1. PICK k \in TrackType : k = track[t]
  BY <1>0 DEF CTyped
<1>2. /\ k.pc \in TrackPcs /\ k.time \in Nat /\ k.packet \in AnyPacket
      /\ k.sent \in Seq(PacketType)
      /\ k.pc = "packet" => k.packet \in PacketType
  BY <1>0, <1>1, TrackFields DEF CTyped
<1> DEFINE sent == IF kind = "packet" THEN Append(k.sent, k.packet) ELSE k.sent
<1>3. PICK n \in Nat : n = Len(k.sent) /\ DOMAIN k.sent = 1..n
  BY <1>2, LenProperties
<1>4. /\ sent \in Seq(PacketType)
      /\ \A i \in 1..n : sent[i] = k.sent[i]
      /\ kind = "packet" => DOMAIN sent = 1..(n + 1) /\ Len(sent) = n + 1 /\ sent[n + 1] = k.packet
      /\ kind # "packet" => sent = k.sent
  <2>1. CASE kind = "packet"
    <3>1. k.packet \in PacketType
      BY <1>1, <1>2, <2>1
    <3>2. PICK s : s = Append(k.sent, k.packet)
      OBVIOUS
    <3>3. /\ s \in Seq(PacketType) /\ Len(s) = n + 1
          /\ (\A i \in 1..n : s[i] = k.sent[i]) /\ s[n + 1] = k.packet
      BY <1>2, <1>3, <3>1, <3>2, AppendProperties
    <3>4. DOMAIN s = 1..(n + 1)
      BY <3>3, LenProperties
    <3>5. QED
      BY <2>1, <3>2, <3>3, <3>4
  <2>2. CASE kind # "packet"
    BY <1>2, <2>2
  <2>3. QED
    BY <2>1, <2>2
<1> HIDE DEF sent
<1> DEFINE l == [k EXCEPT !.pc = next, !.packet = NoPacket, !.sent = sent]
<1>5. l \in TrackType /\ l.pc = next /\ l.time = k.time /\ l.sent = sent
  <2>1. NoPacket \in AnyPacket
    BY Ticks DEF NoPacket, AnyPacket
  <2>2. QED
    BY <1>4, <2>1 DEF TrackType, TrackPcs, AnyPacket, PacketType
<1>6. track' = [track EXCEPT ![t] = l]
  <2>1. track' = [track EXCEPT ![t].pc = next, ![t].packet = NoPacket, ![t].sent = sent]
    BY <1>0, <1>1 DEF sent, CTyped
  <2>2. QED
    BY <1>0, <1>1, <2>1 DEF CTyped
<1> HIDE DEF l
<1>7. /\ track' \in [Tracks -> TrackType] /\ track'[t] = l
      /\ \A u \in Tracks : u # t => track'[u] = track[u]
  <2>1. track \in [Tracks -> TrackType]
    BY <1>0 DEF CTyped
  <2>2. track' \in [Tracks -> TrackType]
    BY <1>5, <1>6, <2>1, ZenonT(60)
  <2>3. track'[t] = l
    BY <1>6, <2>1, ZenonT(60)
  <2>4. \A u \in Tracks : u # t => track'[u] = track[u]
    BY <1>6, <2>1, ZenonT(60)
  <2>5. QED
    BY <2>2, <2>3, <2>4
<1>8. PICK m \in MessageType : m = [kind |-> kind, track |-> t, packet |-> k.packet]
  BY <1>2 DEF MessageType
<1>9. m.kind = kind /\ m.track = t /\ m.packet = k.packet
  BY <1>8
<1>10. channel' = Append(channel, m) /\ channel \in Seq(MessageType)
  BY <1>0, <1>1, <1>8 DEF CTyped
<1>11. CTyped'
  <2>1. channel' \in Seq(MessageType) /\ Len(channel') = Len(channel) + 1
    BY <1>10, AppendProperties
  <2>2. Len(channel') <= ChannelCapacity
    <3>1. Len(channel) \in Nat /\ ChannelCapacity \in Nat
      BY <1>10, Ticks, LenProperties
    <3>2. QED
      BY <2>1, <3>1
  <2>3. \A u \in Tracks : track'[u].pc = "packet" => track'[u].packet \in PacketType
    BY <1>0, <1>5, <1>7 DEF CTyped
  <2>4. QED
    BY <1>0, <1>7, <2>1, <2>2, <2>3 DEF CTyped
<1>12. Begun'
  <2>1. capture.pc \notin {"idle", "spawn_microphone"}
    BY <1>0 DEF Begun
  <2>2. capture.pc = "spawn_render" => t # "render" /\ track["render"].pc = "none"
    BY <1>0 DEF Begun
  <2>3. ASSUME NEW u \in Tracks, track'[u].pc \in {"none", "open", "started"}
        PROVE  track'[u].sent = <<>>
    BY <1>0, <1>5, <1>7, <2>3 DEF Begun
  <2>4. "render" \in Tracks
    BY DEF Tracks
  <2>5. QED
    BY <1>0, <1>7, <2>1, <2>2, <2>3, <2>4 DEF Begun
<1>13. Chained'
  <2>1. Chain(k)
    BY <1>0, <1>1 DEF Chained
  <2>2. Chain(l)
    <3>1. CASE kind = "packet"
      <4>1. ASSUME NEW i \in DOMAIN sent, i # 1, ~sent[i].gap
            PROVE  sent[i].time = EndOf(sent[i - 1])
        <5>1. CASE i \in 1..n
          <6>1. i - 1 \in 1..n
            BY <4>1, <5>1
          <6>2. QED
            BY <1>3, <1>4, <2>1, <4>1, <5>1, <6>1 DEF Chain
        <5>2. CASE i \notin 1..n
          <6>1. i = n + 1 /\ i - 1 = n /\ n \in 1..n /\ n # 0
            BY <1>4, <3>1, <4>1, <5>2
          <6>2. k.sent # <<>> /\ sent[i] = k.packet /\ sent[i - 1] = k.sent[Len(k.sent)]
            BY <1>3, <1>4, <3>1, <6>1, EmptySeq
          <6>3. QED
            BY <1>1, <2>1, <3>1, <4>1, <6>2 DEF Chain
        <5>3. QED
          BY <5>1, <5>2
      <4>2. l.pc = "read" /\ l.time = EndOf(sent[Len(sent)])
        BY <1>1, <1>4, <1>5, <2>1, <3>1 DEF Chain
      <4>3. ASSUME NEW i \in DOMAIN sent
            PROVE  Stamped(sent[i])
        <5>1. CASE i \in 1..n
          BY <1>3, <1>4, <2>1, <5>1 DEF Chain
        <5>2. CASE i \notin 1..n
          <6>1. i = n + 1
            BY <1>4, <3>1, <4>3, <5>2
          <6>2. QED
            BY <1>1, <1>4, <2>1, <3>1, <6>1 DEF Chain
        <5>3. QED
          BY <5>1, <5>2
      <4>4. QED
        BY <1>5, <4>1, <4>2, <4>3 DEF Chain
    <3>2. CASE kind # "packet"
      <4>1. sent = k.sent
        BY <1>4, <3>2
      <4>2. l.pc = "read" => sent = <<>>
        BY <1>0, <1>1, <1>5, <3>2, <4>1 DEF Begun
      <4>3. QED
        BY <1>5, <2>1, <4>1, <4>2 DEF Chain
    <3>3. QED
      BY <3>1, <3>2
  <2>3. ASSUME NEW u \in Tracks
        PROVE  Chain(track'[u])
    <3>1. CASE u = t
      BY <1>7, <2>2, <3>1
    <3>2. CASE u # t
      BY <1>0, <1>7, <3>2 DEF Chained
    <3>3. QED
      BY <3>1, <3>2
  <2>4. QED
    BY <2>3 DEF Chained, Chain, EndOf, Stamped, Qpc
<1>14. Accounted'
  <2>1. PICK over \in SUBSET Tracks :
          /\ Ended(over)
          /\ \A u \in Tracks : \E to : Flow(u, channel, From(u, over), to, track[u].sent)
                                       /\ Reach(to, track[u])
    BY <1>0 DEF Accounted
  <2>2. Ended(over)'
    BY <1>0, <2>1 DEF Ended
  <2>3. ASSUME NEW u \in Tracks
        PROVE  \E to : Flow(u, channel', From(u, over)', to, track'[u].sent) /\ Reach(to, track'[u])
    <3>1. PICK to : Flow(u, channel, From(u, over), to, track[u].sent) /\ Reach(to, track[u])
      BY <2>1
    <3>2. PICK from : from = From(u, over)
      OBVIOUS
    <3>3. From(u, over)' = from
      BY <1>0, <3>2 DEF From
    <3>4. to \in View
      BY <1>10, <3>1, FlowEnds
    <3>5. CASE u # t
      <4>1. Passes(u, m, to, to, track[u].sent)
        BY <1>9, <3>5 DEF Passes
      <4>2. Flow(u, Append(channel, m), from, to, track[u].sent)
        BY <1>10, <3>1, <3>2, <3>4, <4>1, FlowMore
      <4>3. QED
        BY <1>7, <1>10, <3>1, <3>3, <3>5, <4>2
    <3>6. CASE u = t
      <4>1. Flow(t, channel, from, to, k.sent) /\ Reach(to, k)
        BY <1>1, <3>1, <3>2, <3>6
      <4>2. to.stage # "over" /\ to.count = n /\ to.count \in Nat
        BY <1>1, <1>3, <3>4, <4>1 DEF Reach, View
      <4> DEFINE v == [stage |-> IF next = "read" THEN "open" ELSE "over",
                       count |-> IF kind = "packet" THEN n + 1 ELSE n]
      <4>3. v \in View
        BY DEF View
      <4>4. Passes(t, m, to, v, sent)
        <5>1. to.stage \in {"new", "open"}
          BY <3>4, <4>2 DEF View
        <5>2. CASE kind = "started"
          BY <1>1, <1>9, <4>1, <4>2, <5>2 DEF Passes, Reach
        <5>3. CASE kind = "packet"
          <6>1. /\ to.stage = "open" /\ n + 1 \in DOMAIN sent /\ m.packet = sent[n + 1]
                /\ next = "read"
            BY <1>1, <1>4, <1>9, <4>1, <5>3 DEF Reach
          <6>2. QED
            BY <1>9, <4>2, <5>3, <6>1 DEF Passes
        <5>4. CASE kind = "stopped"
          BY <1>1, <1>9, <4>1, <4>2, <5>4 DEF Passes, Reach
        <5>5. CASE kind = "failed"
          BY <1>1, <1>9, <4>1, <4>2, <5>5 DEF Passes, Reach
        <5>6. QED
          BY <5>2, <5>3, <5>4, <5>5 DEF MessageKinds
      <4>5. \A i \in DOMAIN k.sent : i \in DOMAIN sent /\ sent[i] = k.sent[i]
        BY <1>3, <1>4
      <4>6. Reach(v, l)
        <5>1. Len(sent) = IF kind = "packet" THEN n + 1 ELSE n
          BY <1>3, <1>4
        <5>2. QED
          BY <1>5, <5>1 DEF Reach
      <4> HIDE DEF v
      <4>7. Flow(t, Append(channel, m), from, v, sent)
        BY <1>10, <4>1, <4>2, <4>3, <4>4, <4>5, FlowMore
      <4>8. track'[u].sent = sent /\ Reach(v, track'[u])
        BY <1>5, <1>7, <3>6, <4>6
      <4>9. Flow(u, channel', From(u, over)', v, track'[u].sent)
        BY <1>10, <3>3, <3>6, <4>7, <4>8
      <4>10. QED
        BY <4>8, <4>9
    <3>7. QED
      BY <3>5, <3>6
  <2>4. QED
    BY <2>2, <2>3 DEF Accounted, Flow, Follows, Passes, Reach
<1>15. Recorded'
  <2>1. ASSUME NEW u \in DOMAIN writer
        PROVE  Record(writer[u], track'[u].sent)
    <3>1. u \in Tracks /\ Record(writer[u], track[u].sent)
      BY <1>0 DEF Recorded, CTyped
    <3>2. CASE u # t \/ kind # "packet"
      BY <1>1, <1>4, <1>5, <1>7, <3>1, <3>2
    <3>3. CASE u = t /\ kind = "packet"
      <4>1. PICK w \in WriterType : w = writer[u]
        BY <1>0 DEF CTyped
      <4>2. PICK c \in Nat : c = w.packets
        BY DEF WriterType
      <4>3. c <= n /\ Len(sent) = n + 1
        BY <1>1, <1>3, <1>4, <3>1, <3>3, <4>1, <4>2 DEF Record
      <4>4. SubSeq(sent, 1, c) = SubSeq(k.sent, 1, c)
        <5>1. \A i \in 1..c : sent[i] = k.sent[i]
          <6>1. TAKE i \in 1..c
          <6>2. i \in 1..n
            BY <4>3
          <6>3. QED
            BY <1>4, <6>2
        <5>2. c <= Len(sent) /\ c <= Len(k.sent)
          BY <1>3, <4>3
        <5>3. QED
          BY <1>2, <1>4, <5>1, <5>2, SamePrefix
      <4>5. Record(w, sent)
        <5>1. Holds(w, SubSeq(k.sent, 1, c)) /\ InPhase(w, SubSeq(k.sent, 1, c))
          BY <1>1, <3>1, <3>3, <4>1, <4>2 DEF Record
        <5>2. w.packets <= Len(sent)
          BY <4>2, <4>3
        <5>3. QED
          BY <4>2, <4>4, <5>1, <5>2 DEF Record
      <4>6. QED
        BY <1>5, <1>7, <3>3, <4>1, <4>5
    <3>4. QED
      BY <3>2, <3>3
  <2>2. QED
    BY <1>0, <2>1 DEF Recorded
<1>16. Concluding'
  BY <1>0 DEF Concluding
<1>17. Placed'
  BY <1>0 DEF Placed, AlignTracks
<1>18. QED
  BY <1>11, <1>12, <1>13, <1>14, <1>15, <1>16, <1>17 DEF CInv

LEMMA SendMessageKeeps ==
  ASSUME CInv, NEW t \in Tracks, SendMessage(t)
  PROVE  CInv'
<1>1. UNCHANGED <<capture, writer, manifest, aligned>>
  BY DEF SendMessage
<1>2. PICK kind \in MessageKinds, next \in TrackPcs :
        /\ Send(t, kind, next)
        /\ \/ track[t].pc = "started" /\ kind = "started" /\ next = "read"
           \/ track[t].pc = "packet" /\ kind = "packet" /\ next = "read"
           \/ track[t].pc = "stopped" /\ kind = "stopped" /\ next = "done"
           \/ track[t].pc = "report" /\ kind = "failed" /\ next = "done"
  <2> HIDE DEF Send
  <2>1. "read" \in TrackPcs /\ "done" \in TrackPcs
        /\ "started" \in MessageKinds /\ "packet" \in MessageKinds
        /\ "stopped" \in MessageKinds /\ "failed" \in MessageKinds
    BY DEF TrackPcs, MessageKinds
  <2>2. CASE SendStarted(t)
    BY <2>1, <2>2 DEF SendStarted, TrackAt
  <2>3. CASE SendPacket(t)
    BY <2>1, <2>3 DEF SendPacket, TrackAt
  <2>4. CASE SendStopped(t)
    BY <2>1, <2>4 DEF SendStopped, TrackAt
  <2>5. CASE SendFailed(t)
    BY <2>1, <2>5 DEF SendFailed, TrackAt
  <2>6. QED
    BY <2>2, <2>3, <2>4, <2>5 DEF SendMessage
<1>3. CASE Connected
  BY <1>1, <1>2, <1>3, SendKeeps DEF Send
<1>4. CASE ~Connected
  <2>1. GoTrack(t, IF kind = "failed" THEN "done" ELSE "report") /\ UNCHANGED channel
    BY <1>2, <1>4 DEF Send
  <2>2. PICK pc \in {"done", "report"} : GoTrack(t, pc)
    BY <2>1
  <2>3. pc \in TrackPcs /\ track[t].pc # "none"
    BY <1>2 DEF TrackPcs
  <2>4. QED
    BY <1>1, <1>4, <2>1, <2>2, <2>3, TrackGoes
<1>5. QED
  BY <1>3, <1>4

LEMMA TrackKeeps ==
  ASSUME CInv, NEW t \in Tracks, TrackNext(t)
  PROVE  CInv'
<1>1. CASE OpenTrack(t)
  BY <1>1, OpenKeeps
<1>2. CASE SendMessage(t)
  BY <1>2, SendMessageKeeps
<1>3. CASE StopTrack(t)
  BY <1>3, TrackGoes DEF StopTrack, TrackAt, TrackPcs
<1>4. CASE ReadPacket(t)
  BY <1>4, ReadKeeps
<1>5. CASE TrackFails(t)
  <2>1. PICK pc \in {"report", "done"} : GoTrack(t, pc)
    BY <1>5 DEF TrackFails
  <2>2. /\ pc \in TrackPcs /\ track[t].pc = "read"
        /\ UNCHANGED <<capture, channel, writer, manifest, aligned>>
    BY <1>5 DEF TrackFails, TrackAt, TrackPcs
  <2>3. QED
    BY <2>1, <2>2, TrackGoes
<1>6. QED
  BY <1>1, <1>2, <1>3, <1>4, <1>5 DEF TrackNext, TrackSteps

-----------------------------------------------------------------------------
(* The steps of the coordinator.                                           *)

LEMMA CaptureGoes ==
  ASSUME capture \in CaptureType, NEW pc \in CapturePcs, capture' = [capture EXCEPT !.pc = pc]
  PROVE  /\ capture' \in CaptureType /\ capture'.pc = pc /\ capture'.finished = capture.finished
         /\ capture'.failures = capture.failures /\ capture'.result = capture.result
BY DEF CaptureType

LEMMA CaptureEnds ==
  ASSUME capture \in CaptureType, NEW result \in {"ok", "failed", "error"}, Ends(result)
  PROVE  /\ capture' \in CaptureType /\ capture'.pc = "returned" /\ capture'.result = result
         /\ capture'.finished = capture.finished /\ capture'.failures = capture.failures
BY DEF CaptureType, Ends, CapturePcs

\* The command returns with an error.
LEMMA GiveUpKeeps ==
  ASSUME CInv, Connected, GiveUp, UNCHANGED <<track, writer, manifest, aligned>>,
         channel' \in Seq(MessageType), Len(channel') <= ChannelCapacity
  PROVE  CInv'
<1>0. CTyped /\ Begun /\ Chained /\ Accounted /\ Recorded /\ Concluding /\ Placed
  BY DEF CInv
<1>1. capture' \in CaptureType /\ capture'.pc = "returned" /\ capture'.result = "error"
  BY <1>0, CaptureEnds DEF GiveUp, CTyped
<1>2. ~Connected'
  BY <1>1 DEF Connected
<1>3. CTyped'
  BY <1>0, <1>1 DEF CTyped
<1>4. Begun'
  BY <1>0, <1>1 DEF Begun
<1>5. Chained'
  BY <1>0 DEF Chained
<1>6. Accounted'
  BY <1>2 DEF Accounted
<1>7. Recorded'
  BY <1>0 DEF Recorded
<1>8. Concluding'
  BY <1>0, <1>1, <1>2 DEF Concluding
<1>9. Placed'
  BY <1>0 DEF Placed, AlignTracks
<1>10. QED
  BY <1>3, <1>4, <1>5, <1>6, <1>7, <1>8, <1>9 DEF CInv

\* It goes on without touching the channel or the writers.
LEMMA GoesOn ==
  ASSUME CInv, Connected, NEW pc \in CapturePcs \ {"returned"},
         capture' = [capture EXCEPT !.pc = pc],
         UNCHANGED <<channel, writer, manifest, aligned>>,
         track' \in [Tracks -> TrackType],
         \A t \in Tracks :
           \/ track'[t] = track[t]
           \/ /\ track[t].pc = "none" /\ track'[t].pc = "open" /\ track'[t].sent = track[t].sent
              /\ track'[t].packet = track[t].packet,
         pc \in {"idle", "spawn_microphone"} => \A t \in Tracks : track'[t].pc = "none",
         pc = "spawn_render" => track'["render"].pc = "none"
  PROVE  CInv'
<1>0. CTyped /\ Begun /\ Chained /\ Accounted /\ Recorded /\ Concluding /\ Placed
  BY DEF CInv
<1>1. /\ capture' \in CaptureType /\ capture'.pc = pc /\ capture'.finished = capture.finished
      /\ capture'.failures = capture.failures /\ capture'.result = capture.result
  BY <1>0, CaptureGoes DEF CTyped
<1>2. Connected'
  BY <1>1 DEF Connected
<1>3. \A t \in Tracks :
        /\ track'[t].sent = track[t].sent /\ track'[t].packet = track[t].packet
        /\ track'[t].pc = "packet" => track[t].pc = "packet"
        /\ track'[t].pc \in {"none", "open", "started"}
              => track[t].pc \in {"none", "open", "started"}
  OBVIOUS
<1>4. CTyped'
  BY <1>0, <1>1, <1>3 DEF CTyped
<1>5. Begun'
  BY <1>0, <1>1, <1>3 DEF Begun
<1>6. Chained'
  <2>1. ASSUME NEW t \in Tracks
        PROVE  Chain(track'[t])
    <3>1. CASE track'[t] = track[t]
      BY <1>0, <3>1 DEF Chained
    <3>2. CASE track'[t] # track[t]
      <4>1. track'[t].pc = "open" /\ track'[t].sent = track[t].sent /\ Chain(track[t])
        BY <1>0, <3>2 DEF Chained
      <4>2. QED
        BY <4>1 DEF Chain
    <3>3. QED
      BY <3>1, <3>2
  <2>2. QED
    BY <2>1 DEF Chained, Chain, EndOf, Stamped, Qpc
<1>7. Accounted'
  <2>1. PICK over \in SUBSET Tracks :
          /\ Ended(over)
          /\ \A t \in Tracks : \E to : Flow(t, channel, From(t, over), to, track[t].sent)
                                       /\ Reach(to, track[t])
    BY <1>0 DEF Accounted
  <2>2. Ended(over)'
    BY <1>1, <2>1 DEF Ended
  <2>3. ASSUME NEW t \in Tracks
        PROVE  \E to : Flow(t, channel', From(t, over)', to, track'[t].sent) /\ Reach(to, track'[t])
    <3>1. PICK to : Flow(t, channel, From(t, over), to, track[t].sent) /\ Reach(to, track[t])
      BY <2>1
    <3>2. From(t, over)' = From(t, over)
      BY DEF From
    <3>3. Reach(to, track'[t])
      BY <3>1 DEF Reach
    <3>4. Flow(t, channel', From(t, over)', to, track'[t].sent)
      BY <1>3, <3>1, <3>2
    <3>5. QED
      BY <3>3, <3>4
  <2>4. QED
    BY <2>2, <2>3 DEF Accounted, Flow, Follows, Passes, Reach
<1>8. Recorded'
  BY <1>0, <1>3 DEF Recorded, CTyped
<1>9. Concluding'
  BY <1>0, <1>1, <1>2 DEF Concluding
<1>10. Placed'
  BY <1>0 DEF Placed, AlignTracks
<1>11. QED
  BY <1>4, <1>5, <1>6, <1>7, <1>8, <1>9, <1>10 DEF CInv

LEMMA BeginKeeps ==
  ASSUME CInv, BeginCapture
  PROVE  CInv'
<1>1. CTyped /\ Begun /\ capture.pc = "idle" /\ Connected
  BY DEF CInv, BeginCapture, CaptureAt, Connected
<1>2. \A t \in Tracks : track[t].pc = "none"
  BY <1>1 DEF Begun
<1>3. /\ capture' = [capture EXCEPT !.pc = "spawn_microphone"]
      /\ UNCHANGED <<track, channel, writer, manifest, aligned>>
  BY DEF BeginCapture
<1>4. track \in [Tracks -> TrackType]
  BY <1>1 DEF CTyped
<1>5. QED
  BY <1>1, <1>2, <1>3, <1>4, GoesOn DEF CapturePcs

LEMMA SpawnKeeps ==
  ASSUME CInv, NEW t \in Tracks, NEW next,
         (t = "microphone" /\ next = "spawn_render") \/ (t = "render" /\ next = "events"),
         SpawnTrack(t, next)
  PROVE  CInv'
<1>1. /\ CTyped /\ Begun /\ Connected
      /\ capture.pc = (IF t = "microphone" THEN "spawn_microphone" ELSE "spawn_render")
      /\ UNCHANGED <<channel, writer, manifest, aligned>>
  BY DEF CInv, SpawnTrack, CaptureAt, Connected
<1>2. "render" \in Tracks
  BY DEF Tracks
<1>3. track[t].pc = "none" /\ (t = "microphone" => track["render"].pc = "none")
  BY <1>1, <1>2 DEF Begun
<1>4. CASE GiveUp /\ UNCHANGED track
  BY <1>1, <1>4, GiveUpKeeps DEF CTyped
<1>5. CASE capture' = [capture EXCEPT !.pc = next] /\ GoTrack(t, "open")
  <2>1. /\ track' \in [Tracks -> TrackType]
        /\ track'[t].pc = "open" /\ track'[t].sent = track[t].sent
        /\ track'[t].packet = track[t].packet
        /\ \A u \in Tracks : u # t => track'[u] = track[u]
    BY <1>1, <1>5, GoTrackFields DEF CTyped, TrackPcs
  <2>2. next \in CapturePcs \ {"returned"} /\ next \notin {"idle", "spawn_microphone"}
    BY DEF CapturePcs
  <2>3. next = "spawn_render" => track'["render"].pc = "none"
    BY <1>2, <1>3, <2>1
  <2>4. \A u \in Tracks :
          \/ track'[u] = track[u]
          \/ /\ track[u].pc = "none" /\ track'[u].pc = "open" /\ track'[u].sent = track[u].sent
             /\ track'[u].packet = track[u].packet
    BY <1>3, <2>1
  <2>5. QED
    BY <1>1, <1>5, <2>1, <2>2, <2>3, <2>4, GoesOn
<1>6. QED
  BY <1>4, <1>5 DEF SpawnTrack

LEMMA EventsKeeps ==
  ASSUME CInv, CreateEvents
  PROVE  CInv'
<1>1. /\ CTyped /\ Connected /\ UNCHANGED <<track, channel, writer, manifest, aligned>>
  BY DEF CInv, CreateEvents, CaptureAt, Connected
<1>2. /\ track \in [Tracks -> TrackType] /\ channel \in Seq(MessageType)
      /\ Len(channel) <= ChannelCapacity
  BY <1>1 DEF CTyped
<1>3. CASE GiveUp
  BY <1>1, <1>2, <1>3, GiveUpKeeps
<1>4. CASE capture' = [capture EXCEPT !.pc = "receive"]
  BY <1>1, <1>2, <1>4, GoesOn DEF CapturePcs
<1>5. QED
  BY <1>3, <1>4 DEF CreateEvents

LEMMA DisconnectedKeeps ==
  ASSUME CInv, Disconnected
  PROVE  CInv'
<1>1. CTyped /\ Connected /\ GiveUp /\ UNCHANGED <<track, channel, writer, manifest, aligned>>
  BY DEF CInv, Disconnected, CaptureAt, Connected
<1>2. channel \in Seq(MessageType) /\ Len(channel) <= ChannelCapacity
  BY <1>1 DEF CTyped
<1>3. QED
  BY <1>1, <1>2, GiveUpKeeps

\* Everything has been received when both ends have been.
LEMMA FinishKeeps ==
  ASSUME CInv, FinishCapture
  PROVE  CInv'
<1>0. CTyped /\ Begun /\ Chained /\ Accounted /\ Recorded /\ Concluding /\ Placed
  BY DEF CInv
<1>1. Connected /\ capture.finished = 2 /\ UNCHANGED <<track, channel, writer, aligned>>
  BY DEF FinishCapture, CaptureAt, Connected
<1>2. channel \in Seq(MessageType) /\ Len(channel) <= ChannelCapacity
  BY <1>0 DEF CTyped
<1>3. CASE GiveUp /\ UNCHANGED manifest
  BY <1>1, <1>2, <1>3, GiveUpKeeps
<1>4. CASE /\ manifest' = [written |-> TRUE, tracks |-> writer, failures |-> capture.failures]
           /\ Ends(IF capture.failures = {} THEN "ok" ELSE "failed")
  <2>1. PICK result \in {"ok", "failed"} : result = IF capture.failures = {} THEN "ok" ELSE "failed"
    OBVIOUS
  <2>2. capture' \in CaptureType /\ capture'.pc = "returned" /\ capture'.result = result
    BY <1>0, <1>4, <2>1, CaptureEnds DEF CTyped
  <2>3. ~Connected'
    BY <2>2 DEF Connected
  <2>4. PICK over \in SUBSET Tracks :
          /\ Ended(over)
          /\ \A t \in Tracks : \E to : Flow(t, channel, From(t, over), to, track[t].sent)
                                       /\ Reach(to, track[t])
    BY <1>0, <1>1 DEF Accounted
  <2>5. over = Tracks
    <3>1. "microphone" \in over /\ "render" \in over
      BY <1>1, <2>4 DEF Ended, One
    <3>2. QED
      BY <3>1 DEF Tracks
  <2>6. ASSUME NEW t \in DOMAIN writer
        PROVE  writer[t].packets = Len(track[t].sent)
    <3>1. t \in Tracks /\ t \in over
      BY <1>0, <2>5 DEF CTyped
    <3>2. PICK to : Flow(t, channel, From(t, over), to, track[t].sent) /\ Reach(to, track[t])
      BY <2>4, <3>1
    <3>3. From(t, over).stage = "over" /\ From(t, over).count = writer[t].packets
      BY <3>1 DEF From
    <3>4. PICK from : from = From(t, over)
      OBVIOUS
    <3>5. from = to
      BY <1>2, <3>2, <3>3, <3>4, FlowEnds
    <3>6. QED
      BY <3>2, <3>3, <3>4, <3>5 DEF Reach
  <2>7. Tracks \ DOMAIN writer \subseteq capture.failures
    BY <2>4, <2>5 DEF Ended
  <2>8. CTyped'
    BY <1>0, <1>1, <2>2 DEF CTyped
  <2>9. Begun'
    BY <1>0, <1>1, <2>2 DEF Begun
  <2>10. Chained' /\ Recorded'
    BY <1>0, <1>1 DEF Chained, Recorded
  <2>11. Accounted'
    BY <2>3 DEF Accounted
  <2>12. Concluding'
    BY <1>1, <1>4, <2>1, <2>2, <2>3, <2>6, <2>7 DEF Concluding
  <2>13. Placed'
    <3>1. aligned = NotAligned
      BY <1>0, <1>1 DEF Placed, Concluding
    <3>2. QED
      BY <1>1, <3>1 DEF Placed
  <2>14. QED
    BY <2>8, <2>9, <2>10, <2>11, <2>12, <2>13 DEF CInv
<1>5. QED
  BY <1>3, <1>4 DEF FinishCapture

\* The record of a track that has just started.
LEMMA RecordStarts ==
  ASSUME NEW sent \in Seq(PacketType)
  PROVE  Record(NewWriter, sent)
<1>1. NewWriter.packets = 0 /\ 0 <= Len(sent)
  BY LenProperties DEF NewWriter
<1>2. SubSeq(sent, 1, 0) = <<>>
  <2>1. PICK x : x = SubSeq(sent, 1, 0)
    OBVIOUS
  <2>2. x \in Seq(PacketType) /\ Len(x) = 0
    BY <1>1, <2>1, Prefix
  <2>3. QED
    BY <2>1, <2>2, EmptySeq
<1>3. InPhase(NewWriter, <<>>)
  BY DEF InPhase
<1>4. QED
  BY <1>1, <1>2, <1>3, HoldsNothing DEF Record

\* The record of a track of which the next packet is received.
LEMMA RecordGoesOn ==
  ASSUME NEW k, k.sent \in Seq(PacketType), Chain(k), NEW w \in WriterType, Record(w, k.sent),
         NEW n \in Nat, n = w.packets, n + 1 \in DOMAIN k.sent
  PROVE  Record(Written(w, k.sent[n + 1]), k.sent)
<1>1. PICK p \in PacketType : p = k.sent[n + 1]
  OBVIOUS
<1>2. PICK s : s = SubSeq(k.sent, 1, n)
  OBVIOUS
<1>3. n <= Len(k.sent) /\ Holds(w, s) /\ InPhase(w, s)
  BY <1>2 DEF Record
<1>4. n + 1 <= Len(k.sent) /\ n + 1 \in Nat
  BY LenProperties
<1>5. s \in Seq(PacketType) /\ Len(s) = n /\ \A i \in 1..n : s[i] = k.sent[i]
  BY <1>2, <1>3, Prefix
<1>6. SubSeq(k.sent, 1, n + 1) = Append(s, p)
  BY <1>1, <1>2, <1>4, PrefixMore
<1>7. ASSUME s # <<>>, ~p.gap
      PROVE  p.time = EndOf(s[Len(s)])
  <2>1. n # 0 /\ n \in 1..n /\ (n + 1) - 1 = n /\ n + 1 # 1
    <3>1. n # 0
      BY <1>5, <1>7, EmptySeq
    <3>2. QED
      BY <3>1
  <2>2. k.sent[n + 1].time = EndOf(k.sent[(n + 1) - 1])
    BY <1>1, <1>7, <2>1 DEF Chain
  <2>3. s[Len(s)] = k.sent[n]
    BY <1>5, <2>1
  <2>4. QED
    BY <1>1, <2>1, <2>2, <2>3
<1>8. Holds(Written(w, p), Append(s, p))
  BY <1>3, <1>5, HoldsMore
<1>9. InPhase(Written(w, p), Append(s, p))
  <2>1. Stamped(p)
    BY <1>1 DEF Chain
  <2>2. QED
    BY <1>3, <1>5, <1>7, <2>1, InPhaseMore
<1>10. Written(w, p).packets = n + 1
  BY WrittenFields
<1>11. QED
  BY <1>1, <1>4, <1>6, <1>8, <1>9, <1>10 DEF Record

LEMMA ReceiveKeeps ==
  ASSUME CInv, Receive
  PROVE  CInv'
<1> DEFINE message == Head(channel)
<1>0. /\ CTyped /\ Begun /\ Chained /\ Accounted /\ Recorded /\ Concluding /\ Placed
      /\ track' = track /\ manifest' = manifest /\ aligned' = aligned
      /\ Connected /\ capture.pc = "receive" /\ capture.finished < 2
      /\ channel # <<>> /\ channel' = Tail(channel)
  BY DEF CInv, Receive, CaptureAt, Connected
<1>1. channel \in Seq(MessageType) /\ Len(channel) <= ChannelCapacity
  BY <1>0 DEF CTyped
<1>2. channel' \in Seq(MessageType) /\ Len(channel') <= ChannelCapacity
  <2>1. channel' \in Seq(MessageType) /\ Len(channel') = Len(channel) - 1
    BY <1>0, <1>1, HeadTailProperties
  <2>2. Len(channel) \in Nat /\ ChannelCapacity \in Nat
    BY <1>1, Ticks, LenProperties
  <2>3. QED
    BY <1>1, <2>1, <2>2
<1>3. PICK m \in MessageType : m = message
  BY <1>0, <1>1, HeadTailProperties
<1>4. PICK t \in Tracks : t = m.track
  BY DEF MessageType
<1>5. m.kind \in MessageKinds
  BY DEF MessageType
<1>6. CASE GiveUp /\ UNCHANGED writer
  BY <1>0, <1>2, <1>6, GiveUpKeeps
<1>7. ASSUME ~(m.kind = "packet" /\ m.track \notin DOMAIN writer), writer' = Handled(m),
             capture' = [capture EXCEPT
               !.finished = IF m.kind \in {"stopped", "failed"} THEN @ + 1 ELSE @,
               !.failures = IF m.kind = "failed" THEN @ \union {m.track} ELSE @]
      PROVE  CInv'
  <2> DEFINE ends == m.kind \in {"stopped", "failed"}
             finished == IF ends THEN capture.finished + 1 ELSE capture.finished
             failures == IF m.kind = "failed" THEN capture.failures \union {t} ELSE capture.failures
  <2>1. /\ capture' \in CaptureType /\ capture'.pc = capture.pc /\ capture'.result = capture.result
        /\ capture'.finished = finished /\ capture'.failures = failures
    <3>1. capture \in CaptureType
      BY <1>0 DEF CTyped
    <3>2. finished \in 0..2 /\ failures \in SUBSET Tracks
      BY <1>0, <3>1 DEF CaptureType
    <3>3. capture' = [capture EXCEPT !.finished = finished, !.failures = failures]
      BY <1>4, <1>7, <3>1 DEF CaptureType
    <3> HIDE DEF finished, failures
    <3>4. QED
      BY <3>1, <3>2, <3>3 DEF CaptureType
  <2>2. Connected'
    BY <1>0, <2>1 DEF Connected
  <2>3. PICK over \in SUBSET Tracks :
          /\ Ended(over)
          /\ \A u \in Tracks : \E to : Flow(u, channel, From(u, over), to, track[u].sent)
                                       /\ Reach(to, track[u])
    BY <1>0 DEF Accounted
  <2> DEFINE more == IF ends THEN over \union {t} ELSE over
  <2>4. ASSUME NEW u \in Tracks
        PROVE  \E v, to : /\ Passes(u, m, From(u, over), v, track[u].sent)
                          /\ Flow(u, channel', v, to, track[u].sent) /\ Reach(to, track[u])
    <3>1. PICK to : Flow(u, channel, From(u, over), to, track[u].sent) /\ Reach(to, track[u])
      BY <2>3
    <3>2. PICK from : from = From(u, over)
      OBVIOUS
    <3>3. PICK v \in View : /\ Passes(u, Head(channel), from, v, track[u].sent)
                            /\ Flow(u, Tail(channel), v, to, track[u].sent)
      BY <1>0, <1>1, <3>1, <3>2, FlowLess
    <3>4. QED
      BY <1>0, <1>3, <3>1, <3>2, <3>3
  <2>5. PICK v, to : /\ Passes(t, m, From(t, over), v, track[t].sent)
                     /\ Flow(t, channel', v, to, track[t].sent) /\ Reach(to, track[t])
    BY <2>4
  <2>6. PICK from : from = From(t, over)
    OBVIOUS
  <2>7. /\ from.stage = (IF t \in over THEN "over" ELSE IF t \in DOMAIN writer THEN "open" ELSE "new")
        /\ from.count = IF t \in DOMAIN writer THEN writer[t].packets ELSE 0
    BY <2>6 DEF From
  <2>8. /\ m.kind = "started" => /\ t \notin over /\ t \notin DOMAIN writer
                                 /\ v = [stage |-> "open", count |-> from.count]
        /\ m.kind = "packet" => /\ t \notin over /\ t \in DOMAIN writer
                                /\ v = [stage |-> "open", count |-> from.count + 1]
                                /\ from.count + 1 \in DOMAIN track[t].sent
                                /\ m.packet = track[t].sent[from.count + 1]
        /\ m.kind = "stopped" => /\ t \notin over /\ t \in DOMAIN writer
                                 /\ v = [stage |-> "over", count |-> from.count]
        /\ m.kind = "failed" => t \notin over /\ v = [stage |-> "over", count |-> from.count]
    <3>1. Passes(t, m, from, v, track[t].sent)
      BY <2>5, <2>6
    <3>2. QED
      BY <1>4, <2>7, <3>1 DEF Passes
  <2>9. /\ DOMAIN writer' = IF m.kind = "started" THEN DOMAIN writer \union {t} ELSE DOMAIN writer
        /\ \A u \in DOMAIN writer : u # t => writer'[u] = writer[u]
        /\ m.kind = "started" => writer'[t] = NewWriter
        /\ m.kind = "packet" => writer'[t] = Written(writer[t], m.packet)
        /\ m.kind \notin {"started", "packet"} => writer' = writer
    <3>1. CASE m.kind = "started"
      <4>1. writer' = [u \in DOMAIN writer \union {t} |-> IF u = t THEN NewWriter ELSE writer[u]]
        BY <1>4, <1>7, <3>1 DEF Handled
      <4>2. QED
        BY <3>1, <4>1
    <3>2. CASE m.kind = "packet"
      <4>1. writer' = [writer EXCEPT ![t] = Written(writer[t], m.packet)]
        BY <1>4, <1>7, <2>8, <3>2 DEF Handled
      <4>2. PICK x : x = Written(writer[t], m.packet)
        OBVIOUS
      <4>3. QED
        BY <2>8, <3>2, <4>1, <4>2
    <3>3. CASE m.kind \notin {"started", "packet"}
      BY <1>7, <3>3 DEF Handled
    <3>4. QED
      BY <3>1, <3>2, <3>3
  <2>10. /\ track[t].sent \in Seq(PacketType)
         /\ m.kind = "packet" => m.packet \in PacketType /\ writer[t].packets \in Nat
    <3>1. track[t].sent \in Seq(PacketType)
      BY <1>0, TrackFields
    <3>2. m.kind = "packet" => writer[t].packets \in Nat
      BY <1>0, <2>8 DEF CTyped, WriterType
    <3>3. QED
      BY <2>8, <3>1, <3>2
  <2>11. CTyped'
    <3>1. DOMAIN writer' \subseteq Tracks
      BY <1>0, <2>9 DEF CTyped
    <3>2. ASSUME NEW u \in DOMAIN writer'
          PROVE  writer'[u] \in WriterType
      <4>1. CASE u = t /\ m.kind = "started"
        BY <2>9, <4>1, HoldsNothing
      <4>2. CASE u = t /\ m.kind = "packet"
        <5>1. PICK w \in WriterType : w = writer[t]
          BY <1>0, <2>8, <4>2 DEF CTyped
        <5>2. Written(w, m.packet) \in WriterType
          BY <2>10, <4>2, WrittenFields
        <5>3. QED
          BY <2>9, <4>2, <5>1, <5>2
      <4>3. CASE u # t \/ m.kind \notin {"started", "packet"}
        <5>1. u \in DOMAIN writer /\ writer'[u] = writer[u]
          BY <2>9, <4>3
        <5>2. QED
          BY <1>0, <5>1 DEF CTyped
      <4>4. QED
        BY <4>1, <4>2, <4>3
    <3>3. QED
      BY <1>0, <1>2, <2>1, <3>1, <3>2 DEF CTyped
  <2>12. Begun'
    BY <1>0, <2>1 DEF Begun
  <2>13. Chained'
    BY <1>0 DEF Chained
  <2>14. Accounted'
    <3>1. Ended(more)'
      <4>1. capture.finished = One("microphone", over) + One("render", over)
            /\ capture.failures \subseteq over /\ over \subseteq DOMAIN writer \union capture.failures
        BY <2>3 DEF Ended
      <4>2. finished = One("microphone", more) + One("render", more)
        <5>1. CASE ends
          <6>1. t \notin over
            BY <2>8, <5>1
          <6>2. QED
            BY <4>1, <5>1, <6>1 DEF One, Tracks
        <5>2. CASE ~ends
          BY <4>1, <5>2
        <5>3. QED
          BY <5>1, <5>2
      <4>3. failures \subseteq more
        BY <4>1
      <4>4. more \subseteq DOMAIN writer' \union failures
        BY <2>8, <2>9, <4>1
      <4>5. QED
        BY <2>1, <4>2, <4>3, <4>4 DEF Ended, One
    <3>2. ASSUME NEW u \in Tracks
          PROVE  \E w : Flow(u, channel', From(u, more)', w, track'[u].sent) /\ Reach(w, track'[u])
      <4>1. CASE u # t
        <5>1. PICK x, w : /\ Passes(u, m, From(u, over), x, track[u].sent)
                          /\ Flow(u, channel', x, w, track[u].sent) /\ Reach(w, track[u])
          BY <2>4
        <5>2. x = From(u, over)
          BY <1>4, <4>1, <5>1 DEF Passes
        <5>3. From(u, more)' = From(u, over)
          <6>1. (u \in more <=> u \in over) /\ (u \in DOMAIN writer' <=> u \in DOMAIN writer)
            BY <2>9, <4>1
          <6>2. u \in DOMAIN writer => writer'[u] = writer[u]
            BY <2>9, <4>1
          <6> HIDE DEF more
          <6>3. QED
            BY <6>1, <6>2 DEF From
        <5>4. QED
          BY <1>0, <5>1, <5>2, <5>3
      <4>2. CASE u = t
        <5>1. From(t, more)' = v
          <6>1. CASE m.kind = "started"
            BY <2>7, <2>8, <2>9, <6>1 DEF From, NewWriter
          <6>2. CASE m.kind = "packet"
            <7>1. Written(writer[t], m.packet).packets = writer[t].packets + 1
              BY DEF Written
            <7>2. QED
              BY <2>7, <2>8, <2>9, <6>2, <7>1 DEF From
          <6>3. CASE ends
            BY <2>7, <2>8, <2>9, <6>3 DEF From
          <6>4. QED
            BY <1>5, <6>1, <6>2, <6>3 DEF MessageKinds
        <5>2. QED
          BY <1>0, <2>5, <4>2, <5>1
      <4>3. QED
        BY <4>1, <4>2
    <3>3. more \in SUBSET Tracks
      OBVIOUS
    <3> HIDE DEF more
    <3>4. QED
      BY <3>1, <3>2, <3>3 DEF Accounted, Flow, Follows, Passes, Reach
  <2>15. Recorded'
    <3>1. ASSUME NEW u \in DOMAIN writer'
          PROVE  Record(writer'[u], track[u].sent)
      <4>1. CASE u = t /\ m.kind = "started"
        BY <2>9, <2>10, <4>1, RecordStarts
      <4>2. CASE u = t /\ m.kind = "packet"
        <5>1. PICK w \in WriterType : w = writer[t]
          BY <1>0, <2>8, <4>2 DEF CTyped
        <5>2. PICK n \in Nat : n = w.packets /\ n = from.count
          BY <2>7, <2>8, <2>10, <4>2, <5>1
        <5>3. Record(w, track[t].sent) /\ Chain(track[t])
          BY <1>0, <2>8, <4>2, <5>1 DEF Recorded, Chained
        <5>4. n + 1 \in DOMAIN track[t].sent /\ m.packet = track[t].sent[n + 1]
          BY <2>8, <4>2, <5>2
        <5>5. Record(Written(w, m.packet), track[t].sent)
          BY <2>10, <5>2, <5>3, <5>4, RecordGoesOn
        <5>6. QED
          BY <2>9, <4>2, <5>1, <5>5
      <4>3. CASE u # t \/ m.kind \notin {"started", "packet"}
        <5>1. u \in DOMAIN writer /\ writer'[u] = writer[u]
          BY <2>9, <4>3
        <5>2. QED
          BY <1>0, <5>1 DEF Recorded
      <4>4. QED
        BY <4>1, <4>2, <4>3
    <3>2. QED
      BY <1>0, <3>1 DEF Recorded
  <2>16. Concluding'
    BY <1>0, <2>1, <2>2 DEF Concluding
  <2>17. Placed'
    BY <1>0 DEF Placed, Concluding
  <2>18. QED
    BY <2>11, <2>12, <2>13, <2>14, <2>15, <2>16, <2>17 DEF CInv
<1>8. QED
  BY <1>3, <1>6, <1>7 DEF Receive

LEMMA AlignKeeps ==
  ASSUME CInv, Align
  PROVE  CInv'
<1>0. /\ CTyped /\ Begun /\ Chained /\ Accounted /\ Recorded /\ Concluding /\ Placed
      /\ UNCHANGED <<capture, track, channel, writer, manifest>> /\ manifest.written
      /\ (Connected' <=> Connected)
  BY DEF CInv, Align, Connected
<1>1. manifest.tracks = writer
  BY <1>0 DEF Concluding
<1>2. /\ CTyped' /\ Begun' /\ Chained' /\ Recorded' /\ Concluding'
  <2>1. CTyped' /\ Begun'
    BY <1>0 DEF CTyped, Begun
  <2>2. Chained' /\ Recorded'
    BY <1>0 DEF Chained, Recorded
  <2>3. Concluding'
    BY <1>0 DEF Concluding
  <2>4. QED
    BY <2>1, <2>2, <2>3
<1>3. Accounted'
  BY <1>0 DEF Accounted, Concluding
<1>4. Placed'
  <2>1. CASE DOMAIN writer # Tracks
    BY <1>0, <1>1, <2>1 DEF Align, Placed
  <2>2. CASE DOMAIN writer = Tracks /\ \E t \in Tracks : writer[t].first = <<>>
    BY <1>0, <1>1, <2>2 DEF Align, Placed
  <2>3. CASE DOMAIN writer = Tracks /\ ~\E t \in Tracks : writer[t].first = <<>>
    <3>1. aligned' = AlignTracks(writer)
      BY <1>1, <2>3 DEF Align
    <3>2. AlignTracks(writer).status = "ok"
      BY DEF AlignTracks
    <3>3. QED
      BY <1>0, <2>3, <3>1, <3>2 DEF Placed
  <2>4. QED
    BY <2>1, <2>2, <2>3
<1>5. QED
  BY <1>2, <1>3, <1>4 DEF CInv

-----------------------------------------------------------------------------
(* The capture command: its theorems.                                      *)

\* The other commands leave all this alone.
LEMMA CaptureStutters ==
  ASSUME CInv, UNCHANGED captureVars
  PROVE  CInv'
<1>0. /\ CTyped /\ Begun /\ Chained /\ Accounted /\ Recorded /\ Concluding /\ Placed
      /\ UNCHANGED <<capture, track, channel, writer, manifest, aligned>>
      /\ (Connected' <=> Connected)
  BY DEF CInv, captureVars, Connected
<1>1. CTyped' /\ Begun'
  BY <1>0 DEF CTyped, Begun
<1>2. Chained' /\ Recorded'
  BY <1>0 DEF Chained, Recorded
<1>3. Concluding' /\ Placed'
  BY <1>0 DEF Concluding, Placed
<1>4. Accounted'
  BY <1>0 DEF Accounted, Ended, From
<1>5. QED
  BY <1>1, <1>2, <1>3, <1>4 DEF CInv

LEMMA InitC ==
  ASSUME Init
  PROVE  CInv
<1>1. /\ capture = [pc |-> "idle", finished |-> 0, failures |-> {}, result |-> "none"]
      /\ track = [t \in Tracks |-> NewTrack]
      /\ channel = <<>> /\ writer = <<>> /\ manifest = NoManifest /\ aligned = NotAligned
  BY DEF Init, CaptureInit
<1>2. DOMAIN writer = {}
  BY <1>1
<1>3. /\ NewTrack \in TrackType /\ NewTrack.pc = "none" /\ NewTrack.sent = <<>>
      /\ Len(NewTrack.sent) = 0
  BY Ticks, EmptySeq DEF NewTrack, TrackType, NoPacket
<1>4. track \in [Tracks -> TrackType] /\ \A t \in Tracks : track[t] = NewTrack
  BY <1>1, <1>3
<1>5. CTyped
  <2>1. capture \in CaptureType
    BY <1>1 DEF CaptureType, CapturePcs
  <2>2. channel \in Seq(MessageType) /\ Len(channel) <= ChannelCapacity
    BY <1>1, Ticks, EmptySeq
  <2>3. QED
    BY <1>2, <1>3, <1>4, <2>1, <2>2 DEF CTyped
<1>6. Begun
  <2>1. "render" \in Tracks
    BY DEF Tracks
  <2>2. QED
    BY <1>3, <1>4, <2>1 DEF Begun
<1>7. Chained
  BY <1>3, <1>4, EmptySeq DEF Chained, Chain
<1>8. Accounted
  <2> DEFINE v == [stage |-> "new", count |-> 0]
  <2>1. Ended({})
    BY <1>1 DEF Ended, One
  <2>2. v \in View
    BY DEF View
  <2>3. ASSUME NEW t \in Tracks
        PROVE  Flow(t, channel, From(t, {}), v, track[t].sent) /\ Reach(v, track[t])
    <3>1. From(t, {}) = v
      BY <1>2 DEF From
    <3>2. Flow(t, <<>>, v, v, track[t].sent)
      BY <2>2, FlowEmpty
    <3>3. Reach(v, track[t])
      BY <1>3, <1>4 DEF Reach
    <3>4. QED
      BY <1>1, <3>1, <3>2, <3>3
  <2> HIDE DEF v
  <2>4. QED
    BY <2>1, <2>3 DEF Accounted
<1>9. Recorded /\ Concluding /\ Placed
  BY <1>1, <1>2 DEF Recorded, Concluding, Placed, NoManifest
<1>10. QED
  BY <1>5, <1>6, <1>7, <1>8, <1>9 DEF CInv

LEMMA NextC ==
  ASSUME CInv, [Next]_labVars
  PROVE  CInv'
<1>1. CASE Dispatch
  <2>1. CASE UNCHANGED captureVars
    BY <2>1, CaptureStutters
  <2>2. CASE BeginCapture
    BY <2>2, BeginKeeps
  <2>3. CASE Align
    BY <2>3, AlignKeeps
  <2>4. QED
    BY <1>1, <2>1, <2>2, <2>3 DEF Dispatch
<1>2. CASE CaptureSteps
  <2>1. CASE SpawnTrack("microphone", "spawn_render")
    <3>1. "microphone" \in Tracks
      BY DEF Tracks
    <3>2. QED
      BY <2>1, <3>1, SpawnKeeps
  <2>2. CASE SpawnTrack("render", "events")
    <3>1. "render" \in Tracks
      BY DEF Tracks
    <3>2. QED
      BY <2>2, <3>1, SpawnKeeps
  <2>3. CASE CreateEvents
    BY <2>3, EventsKeeps
  <2>4. CASE Receive
    BY <2>4, ReceiveKeeps
  <2>5. CASE Disconnected
    BY <2>5, DisconnectedKeeps
  <2>6. CASE FinishCapture
    BY <2>6, FinishKeeps
  <2>7. ASSUME NEW t \in Tracks, TrackNext(t)
        PROVE  CInv'
    BY <2>7, TrackKeeps
  <2>8. QED
    BY <1>2, <2>1, <2>2, <2>3, <2>4, <2>5, <2>6, <2>7 DEF CaptureSteps, CoordinatorNext
<1>3. CASE EvidenceSteps
  BY <1>3, CaptureStutters DEF EvidenceSteps
<1>4. CASE UNCHANGED labVars
  BY <1>4, CaptureStutters DEF labVars
<1>5. QED
  BY <1>1, <1>2, <1>3, <1>4 DEF Next

\* Whatever fails and however the two threads interleave, a manifest is of all that was
\* sent (capture, write_packet, finalize_writers).
THEOREM ManifestCorrect == Spec => []ManifestIsFaithful
<1>1. ASSUME CInv
      PROVE  ManifestIsFaithful
  <2>0. CTyped /\ Recorded /\ Concluding
    BY <1>1 DEF CInv
  <2>1. ASSUME manifest.written, NEW t \in DOMAIN manifest.tracks
        PROVE  Holds(manifest.tracks[t], track[t].sent)
    <3>1. manifest.tracks = writer /\ t \in DOMAIN writer /\ t \in Tracks
      BY <2>0, <2>1 DEF Concluding, CTyped
    <3>2. writer[t].packets = Len(track[t].sent)
      BY <2>0, <2>1, <3>1 DEF Concluding
    <3>3. Holds(writer[t], SubSeq(track[t].sent, 1, writer[t].packets))
      BY <2>0, <3>1 DEF Recorded, Record
    <3>4. SubSeq(track[t].sent, 1, Len(track[t].sent)) = track[t].sent
      BY <2>0, <3>1, TrackFields, WholePrefix
    <3>5. QED
      BY <3>1, <3>2, <3>3, <3>4
  <2>2. QED
    BY <2>0, <2>1 DEF Concluding, ManifestIsFaithful
<1>2. QED
  BY <1>1, InitC, NextC, PTL DEF Spec

\* For every sample rate and counter, every frame and every pair of starts, the tracks of
\* a manifest that counts no gap and no timestamp error are in phase, each at most half a
\* sample and a tick from its time (align_tracks).
THEOREM PhaseCorrect == Spec => []ReferenceInPhase
<1>1. ASSUME CInv
      PROVE  ReferenceInPhase
  <2>0. CTyped /\ Recorded /\ Concluding /\ Placed
    BY <1>1 DEF CInv
  <2>1. SUFFICES ASSUME aligned.status = "ok",
                        \A t \in Tracks : /\ manifest.tracks[t].gaps = 0
                                          /\ manifest.tracks[t].errors = 0
                 PROVE  ReferenceInPhase
    BY DEF ReferenceInPhase
  <2>2. /\ manifest.written /\ DOMAIN writer = Tracks /\ aligned = AlignTracks(writer)
        /\ \A t \in Tracks : writer[t].first # <<>>
    BY <2>0, <2>1 DEF Placed, NotAligned
  <2>3. manifest.tracks = writer
    BY <2>0, <2>2 DEF Concluding
  <2>4. ASSUME NEW t \in Tracks
        PROVE  /\ writer[t] \in WriterType
               /\ writer[t].first # <<>> /\ writer[t].samples # <<>>
               /\ writer[t].first[1] = Qpc(writer[t].samples[1])
               /\ \A i \in DOMAIN writer[t].samples :
                    writer[t].samples[i] = writer[t].samples[1] + (i - 1) * SampleTime
    <3>1. PICK w \in WriterType : w = writer[t]
      BY <2>0, <2>2 DEF CTyped
    <3>2. PICK s : s = SubSeq(track[t].sent, 1, w.packets)
      OBVIOUS
    <3>3. Holds(w, s) /\ InPhase(w, s) /\ w.first # <<>> /\ w.gaps = 0 /\ w.errors = 0
      BY <2>0, <2>1, <2>2, <2>3, <3>1, <3>2 DEF Recorded, Record
    <3>4. s # <<>>
      <4>1. SUFFICES ASSUME s = <<>>
                     PROVE  FALSE
        OBVIOUS
      <4>2. Earlier(1, Len(s)) = 0
        BY <4>1, EmptySeq DEF Earlier
      <4>3. w.first = <<>>
        BY <3>3, <4>2 DEF Holds
      <4>4. QED
        BY <3>3, <4>3
    <3>5. QED
      BY <3>1, <3>3, <3>4 DEF InPhase
  <2>5. QED
    BY <2>2, <2>3, <2>4, AlignedInPhase DEF ReferenceInPhase
<1>2. QED
  BY <1>1, InitC, NextC, PTL DEF Spec

LEMMA CaptureTyped ==
  ASSUME CInv
  PROVE  CaptureTypeOK
<1>0. CTyped /\ Concluding /\ Placed
  BY DEF CInv
<1>1. capture \in [pc : {"idle", "spawn_microphone", "spawn_render", "events", "receive",
                         "returned"},
                   finished : 0..2, failures : SUBSET Tracks,
                   result : {"none", "ok", "failed", "error"}]
  BY <1>0 DEF CTyped, CaptureType, CapturePcs
<1>2. /\ track \in [Tracks -> TrackType] /\ Len(channel) <= ChannelCapacity
      /\ DOMAIN writer \subseteq Tracks
  BY <1>0 DEF CTyped
<1>3. \A i \in DOMAIN channel : channel[i].kind \in {"started", "packet", "stopped", "failed"}
  <2>1. TAKE i \in DOMAIN channel
  <2>2. channel[i] \in MessageType
    BY <1>0 DEF CTyped
  <2>3. QED
    BY <2>2 DEF MessageType, MessageKinds
<1>4. manifest.written \in BOOLEAN
  BY <1>0 DEF Concluding
<1>5. aligned.status \in {"none", "ok", "no track", "no time"}
  <2>1. CASE aligned = NotAligned
    BY <2>1 DEF NotAligned
  <2>2. CASE aligned.status \in {"no track", "no time"}
    BY <2>2
  <2>3. CASE aligned.status = "ok"
    BY <2>3
  <2>4. QED
    BY <1>0, <2>1, <2>2, <2>3 DEF Placed
<1>6. QED
  BY <1>1, <1>2, <1>3, <1>4, <1>5 DEF CaptureTypeOK

-----------------------------------------------------------------------------
(* The evidence commands: what their variables hold.                       *)

RunPcs == {"idle", "started", "sleep", "check", "periodic", "failed", "stop", "final", "done"}
RunModes == {"none", "bypass", "realtime-aec"}
Outcomes == {"none", "not started", "failed", "not stopped", "completed", "cut short"}
RunType ==
  [pc : RunPcs, mode : RunModes, schema : 2..CurrentSchema, requested : Nat, time : Nat,
   outcome : Outcomes]

EngineStates == {"stopped", "running", "failed"}
LastErrors == EngineErrors \union {"none"}
Counts == [CounterKinds -> Nat]
EngineType ==
  [state : EngineStates, error : LastErrors, microphone : Nat, render : Nat, frames : Nat,
   depth : Nat, slow : BOOLEAN, count : Counts]

Events == {"started", "periodic", "failed", "final", "torn"}
LineType ==
  [whole : BOOLEAN, schema : 2..CurrentSchema, event : Events, time : Nat, requested : Nat,
   state : EngineStates, error : LastErrors, microphone : Nat, render : Nat, frames : Nat,
   depth : Nat, count : Counts, described : BOOLEAN]

Troubles == Disturbances \union {"late"}
HistoryType ==
  [disturbances : Nat, troubles : SUBSET Troubles, cuts : SUBSET Nat, deepest : Nat,
   failed : BOOLEAN]

Typed == run \in RunType /\ engine \in EngineType /\ file \in Seq(LineType) /\ history \in HistoryType

LEMMA LargestOfTwo ==
  ASSUME NEW a \in Nat, NEW b \in Nat
  PROVE  Largest({a, b}) \in {a, b} /\ a <= Largest({a, b}) /\ b <= Largest({a, b})
<1>1. \E x \in {a, b} : \A y \in {a, b} : y <= x
  <2>1. CASE a <= b
    BY <2>1
  <2>2. CASE b <= a
    BY <2>2
  <2>3. QED
    BY <2>1, <2>2
<1>2. QED
  BY <1>1 DEF Largest

\* What an interval may bring.
LEMMA PossibleKinds ==
  ASSUME NEW kinds, NEW kind \in Possible(kinds)
  PROVE  kind \in Calm \/ (kind \in kinds /\ MayDisturb /\ Alive)
BY DEF Possible, Calm

\* The engine after an interval.
LEMMA AfterFields ==
  ASSUME engine \in EngineType, NEW kind
  PROVE  /\ After(kind) \in EngineType
         /\ After(kind).state = engine.state /\ After(kind).error = engine.error
         /\ After(kind).depth \in {0, engine.depth + 1}
         /\ kind = "silence" => After(kind).render = engine.render
         /\ \A k \in CounterKinds :
              After(kind).count[k] = IF k = kind THEN engine.count[k] + 1 ELSE engine.count[k]
<1> DEFINE slow == (engine.slow /\ kind # "drained") \/ kind = "slow"
           render == IF kind = "silence" THEN engine.render ELSE engine.render + 1
           depth == IF slow THEN engine.depth + 1 ELSE 0
           count == [k \in CounterKinds |-> engine.count[k] + (IF k = kind THEN 1 ELSE 0)]
<1>1. slow \in BOOLEAN /\ render \in Nat /\ depth \in Nat /\ depth \in {0, engine.depth + 1}
  BY DEF EngineType
<1>2. engine.count \in Counts
  BY DEF EngineType
<1>3. /\ count \in Counts
      /\ \A k \in CounterKinds :
           count[k] = IF k = kind THEN engine.count[k] + 1 ELSE engine.count[k]
  BY <1>2 DEF Counts
<1>4. DOMAIN engine = {"state", "error", "microphone", "render", "frames", "depth", "slow", "count"}
  BY DEF EngineType
<1>5. After(kind) = [engine EXCEPT !.microphone = engine.microphone + 1, !.render = render,
                                   !.frames = engine.frames + 1, !.slow = slow,
                                   !.depth = depth, !.count = count]
  BY <1>4 DEF After
<1> DEFINE microphone == engine.microphone + 1
           frames == engine.frames + 1
<1>6. /\ engine.state \in EngineStates /\ engine.error \in LastErrors
      /\ microphone \in Nat /\ frames \in Nat
  BY DEF EngineType
<1> HIDE DEF slow, render, depth, count, microphone, frames
<1>7. After(kind) = [state |-> engine.state, error |-> engine.error,
                     microphone |-> microphone, render |-> render,
                     frames |-> frames, depth |-> depth, slow |-> slow, count |-> count]
  BY <1>4, <1>5 DEF microphone, frames
<1>8. After(kind) \in EngineType
  BY <1>1, <1>3, <1>6, <1>7 DEF EngineType
<1>9. kind = "silence" => After(kind).render = engine.render
  BY <1>7 DEF render
<1>10. QED
  BY <1>1, <1>3, <1>7, <1>8, <1>9

LEMMA HaltedFields ==
  ASSUME NEW e \in EngineType
  PROVE  /\ Halted(e, "stopped") \in EngineType
         /\ Halted(e, "stopped").state = "stopped" /\ Halted(e, "stopped").error = e.error
         /\ Halted(e, "stopped").depth = 0 /\ Halted(e, "stopped").count = e.count
         /\ Halted(e, "stopped").render = e.render
BY DEF Halted, EngineType, EngineStates

\* What is noted of an interval.
LEMMA NotedFields ==
  ASSUME history \in HistoryType, NEW kind \in Troubles \union Calm, NEW time \in Nat,
         NEW depth \in Nat, NEW n, n = Noted(kind, time, depth)
  PROVE  /\ n \in HistoryType
         /\ kind \in Calm => n.disturbances = history.disturbances
         /\ kind \notin Calm => n.disturbances = history.disturbances + 1
         /\ n.troubles = history.troubles \union ({kind} \ Calm)
         /\ n.cuts = IF kind \in {"input", "reset", "silence"}
                     THEN history.cuts \union {time} ELSE history.cuts
         /\ n.deepest \in {history.deepest, depth}
         /\ history.deepest <= n.deepest /\ depth <= n.deepest
         /\ (n.failed <=> history.failed)
<1> DEFINE disturbances == IF kind \in Calm THEN history.disturbances ELSE history.disturbances + 1
           troubles == history.troubles \union ({kind} \ Calm)
           cuts == IF kind \in {"input", "reset", "silence"} THEN history.cuts \union {time}
                   ELSE history.cuts
           deepest == Largest({history.deepest, depth})
<1>1. history.deepest \in Nat /\ history.disturbances \in Nat /\ history.cuts \in SUBSET Nat
      /\ history.troubles \in SUBSET Troubles
  BY DEF HistoryType
<1>2. deepest \in {history.deepest, depth} /\ history.deepest <= deepest /\ depth <= deepest
  BY <1>1, LargestOfTwo
<1>3. disturbances \in Nat /\ troubles \in SUBSET Troubles /\ cuts \in SUBSET Nat /\ deepest \in Nat
  BY <1>1, <1>2
<1>4. n =
        [history EXCEPT !.disturbances = disturbances, !.troubles = troubles, !.cuts = cuts,
                        !.deepest = deepest]
  BY DEF Noted
<1>5. n =
        [disturbances |-> disturbances, troubles |-> troubles, cuts |-> cuts,
         deepest |-> deepest, failed |-> history.failed]
  <2> HIDE DEF disturbances, troubles, cuts, deepest
  <2>1. QED
    BY <1>4 DEF HistoryType
<1>6. history.failed \in BOOLEAN
  BY DEF HistoryType
<1>7. n \in HistoryType
  <2> HIDE DEF disturbances, troubles, cuts, deepest
  <2>1. QED
    BY <1>3, <1>5, <1>6 DEF HistoryType
<1>8. QED
  BY <1>2, <1>5, <1>7

\* A line is of the run and of the engine as they are.
LEMMA LineFields ==
  ASSUME Typed, NEW event \in Events, NEW time \in Nat
  PROVE  LET l == Line(event, time)
         IN /\ l \in LineType
            /\ l.whole /\ l.event = event /\ l.time = time /\ l.schema = run.schema
            /\ l.requested = IF run.schema = CurrentSchema THEN run.requested ELSE 0
            /\ l.error = engine.error /\ l.depth = engine.depth /\ l.count = engine.count
            /\ l.render = engine.render
            /\ l.described = (run.mode = "realtime-aec")
<1> DEFINE requested == IF run.schema = CurrentSchema THEN run.requested ELSE 0
           described == run.mode = "realtime-aec"
<1>1. requested \in Nat /\ described \in BOOLEAN
  BY DEF Typed, RunType
<1>2. Line(event, time) =
        [whole |-> TRUE, schema |-> run.schema, event |-> event, time |-> time,
         requested |-> requested, state |-> engine.state, error |-> engine.error,
         microphone |-> engine.microphone, render |-> engine.render,
         frames |-> engine.frames, depth |-> engine.depth, count |-> engine.count,
         described |-> described]
  BY DEF Line
<1> HIDE DEF requested, described
<1>3. Line(event, time) \in LineType
  BY <1>1, <1>2 DEF Typed, RunType, EngineType, LineType
<1>4. QED
  BY <1>2, <1>3 DEF requested, described

\* The steps of the command.
LEMMA RunGoes ==
  ASSUME run \in RunType, NEW pc \in RunPcs, NEW time \in Nat, NEW outcome \in Outcomes
  PROVE  LET r == [run EXCEPT !.pc = pc, !.time = time, !.outcome = outcome]
         IN /\ r \in RunType
            /\ r.pc = pc /\ r.time = time /\ r.outcome = outcome
            /\ r.mode = run.mode /\ r.schema = run.schema /\ r.requested = run.requested
BY DEF RunType

LEMMA GoRunFields ==
  ASSUME run \in RunType, NEW pc \in RunPcs, GoRun(pc)
  PROVE  /\ run' \in RunType
         /\ run'.pc = pc /\ run'.time = run.time /\ run'.outcome = run.outcome
         /\ run'.mode = run.mode /\ run'.schema = run.schema /\ run'.requested = run.requested
BY DEF GoRun, RunType

LEMMA OverFields ==
  ASSUME run \in RunType, NEW outcome \in Outcomes, Over(outcome)
  PROVE  /\ run' \in RunType
         /\ run'.pc = "done" /\ run'.time = run.time /\ run'.outcome = outcome
         /\ run'.mode = run.mode /\ run'.schema = run.schema /\ run'.requested = run.requested
BY DEF Over, RunType, RunPcs

-----------------------------------------------------------------------------
(* The invariant of the evidence commands.                                 *)

\* What bounds the run.
Limited ==
  /\ history.disturbances <= MaxDisturbances
  /\ \A kind \in CounterKinds : engine.count[kind] <= history.disturbances + 1
  /\ run.pc \notin {"idle", "done"} => run.requested # 0
  /\ run.outcome \in {"completed", "failed"} => run.requested # 0
  /\ run.time <= run.requested + MaxLate + (IF run.pc \in {"final", "done"} THEN 1 ELSE 0)
  /\ run.pc = "sleep" => run.time < run.requested

Concluded == run.outcome \in {"completed", "failed"}

\* Line i tells of this run and comes where it belongs.
LineTold(i) ==
  /\ file[i].schema = run.schema
  /\ file[i].requested = IF run.schema = CurrentSchema THEN run.requested ELSE 0
  /\ file[i].described <=> run.mode = "realtime-aec"
  /\ file[i].time <= run.time
  /\ i > 1 => file[i - 1].time <= file[i].time
  /\ file[i].whole \/ run.outcome = "cut short"
  /\ file[i].whole <=> file[i].event # "torn"
  /\ file[i].whole => (file[i].event = "started" <=> i = 1)
  /\ Terminal(file[i]) <=> i = Len(file) /\ Concluded

\* The file is there as far as the command has got.
Reached ==
  /\ run.pc = "done" <=> run.outcome # "none"
  /\ run.pc \in {"idle", "started"} => file = <<>>
  /\ run.pc \notin {"idle", "started", "done"} => file # <<>>
  /\ Concluded => Len(file) >= 2

Told == Reached /\ \A i \in DOMAIN file : LineTold(i)

\* What happened since the started event shows in the engine's counters, and in the
\* end in the last line.
Counted ==
  /\ history.failed <=> engine.error # "none"
  /\ engine.state = "failed" \/ run.pc = "failed" => history.failed
  /\ run.pc \in {"idle", "started"} => history.troubles = {}
  /\ file # <<>> => \A kind \in CounterKinds :
       /\ file[1].count[kind] <= engine.count[kind]
       /\ kind \in history.troubles => file[1].count[kind] < engine.count[kind]
  /\ run.outcome = "completed" =>
       /\ file[Len(file)].count = engine.count /\ file[Len(file)].error = engine.error
       /\ file[Len(file)].time = run.time
  /\ run.outcome = "failed" => file[Len(file)].event = "failed"

\* A line that shows a queue follows one that shows it one frame shorter.
Grown(i) ==
  file[i].whole /\ file[i].depth # 0 =>
    i # 1 /\ file[i].event = "periodic" /\ file[i].depth = file[i - 1].depth + 1

\* As long as the engine has not failed, every depth of its queue is or will be told.
Rising ==
  ~history.failed =>
    /\ \A i \in DOMAIN file : Grown(i)
    /\ run.pc \in {"started", "sleep", "check", "periodic", "stop"} => Alive
    /\ run.pc \in {"idle", "started", "final"} => engine.depth = 0
    /\ run.pc \in {"sleep", "stop"} => engine.depth = file[Len(file)].depth
    /\ run.pc = "periodic" \/ run.pc = "check" =>
         engine.depth \in {0, file[Len(file)].depth + 1}
    /\ run.outcome \in {"none", "completed"} /\ history.deepest # 0 =>
         \/ \E i \in DOMAIN file : file[i].depth = history.deepest
         \/ run.pc \in {"check", "periodic"} /\ engine.depth = history.deepest

\* A report is of a file that is complete.
Judged ==
  /\ report.status \in {"none", "written"}
  /\ report.status = "written" =>
       /\ run.pc = "done"
       /\ report.drift \in {"inconclusive", "compensation required", "sufficient"}
       /\ report.functional \in {"failed", "inconclusive", "passed"}
  /\ AcceptedIsEarned

EInv == Typed /\ Limited /\ Told /\ Counted /\ Rising /\ Judged

-----------------------------------------------------------------------------
(* Every step keeps it.                                                    *)

\* The lines stay as they are.
LEMMA LinesKept ==
  ASSUME Typed, \A i \in DOMAIN file : LineTold(i), file' = file,
         run' \in RunType, run.time <= run'.time,
         run'.mode = run.mode, run'.schema = run.schema, run'.requested = run.requested,
         run.outcome = run'.outcome \/ run.outcome = "none", Concluded' <=> Concluded
  PROVE  \A i \in DOMAIN file' : LineTold(i)'
<1> TAKE i \in DOMAIN file'
<1>1. /\ i \in DOMAIN file /\ file[i] \in LineType /\ LineTold(i)
  BY DEF Typed
<1>2. run.time \in Nat /\ run'.time \in Nat /\ file[i].time \in Nat
  BY <1>1 DEF Typed, RunType, LineType
<1>7. file[i].time <= run.time
  BY <1>1 DEF LineTold
<1>3. file'[i].time <= run'.time
  BY <1>2, <1>7
<1>4. Terminal(file[i])' <=> i = Len(file') /\ Concluded'
  BY <1>1 DEF LineTold, Terminal
<1>5. file'[i].whole \/ run'.outcome = "cut short"
  BY <1>1 DEF LineTold
<1>6. QED
  BY <1>1, <1>3, <1>4, <1>5 DEF LineTold

\* A line more.
LEMMA LineMore ==
  ASSUME Typed, NEW l \in LineType, file' = Append(file, l)
  PROVE  /\ file' \in Seq(LineType) /\ file' # <<>> /\ Len(file') = Len(file) + 1
         /\ Len(file) \in Nat /\ file'[Len(file) + 1] = l /\ DOMAIN file' = 1..(Len(file) + 1)
         /\ \A i \in DOMAIN file : file'[i] = file[i]
         /\ \A i \in DOMAIN file' : i \in DOMAIN file \/ i = Len(file) + 1
         /\ file = <<>> => Len(file) = 0
         /\ file # <<>> => 1 \in DOMAIN file /\ Len(file) \in DOMAIN file
<1>1. file \in Seq(LineType)
  BY DEF Typed
<1>2. /\ file' \in Seq(LineType) /\ file' # <<>> /\ Len(file') = Len(file) + 1
      /\ file'[Len(file) + 1] = l /\ \A i \in 1..Len(file) : file'[i] = file[i]
  BY <1>1, AppendProperties
<1>3. Len(file) \in Nat /\ DOMAIN file = 1..Len(file) /\ DOMAIN file' = 1..Len(file')
  BY <1>1, <1>2, LenProperties
<1>4. file # <<>> => Len(file) > 0
  BY <1>1, EmptySeq
<1>5. QED
  BY <1>2, <1>3, <1>4

LEMMA Places ==
  ASSUME NEW n \in Nat, NEW i
  PROVE  /\ i \in 1..n => i # n + 1 /\ (i > 1 => i - 1 \in 1..n) /\ (i # 1 => i - 1 \in 1..n)
         /\ i = n + 1 => i - 1 = n /\ (i > 1 <=> n # 0) /\ (i = 1 <=> n = 0)
OBVIOUS

LEMMA LinesMore ==
  ASSUME Typed, \A i \in DOMAIN file : LineTold(i), ~Concluded,
         NEW l \in LineType, file' = Append(file, l),
         run' \in RunType, run'.time = run.time,
         run'.mode = run.mode, run'.schema = run.schema, run'.requested = run.requested,
         run.outcome = "none",
         l.schema = run.schema,
         l.requested = IF run.schema = CurrentSchema THEN run.requested ELSE 0,
         l.described <=> run.mode = "realtime-aec",
         l.time <= run.time,
         file # <<>> => file[Len(file)].time <= l.time,
         l.whole \/ run'.outcome = "cut short",
         l.whole <=> l.event # "torn",
         l.whole => (l.event = "started" <=> file = <<>>),
         Terminal(l) <=> Concluded'
  PROVE  \A i \in DOMAIN file' : LineTold(i)'
<1> TAKE i \in DOMAIN file'
<1>0. Len(file) \in Nat /\ run.time \in Nat /\ l.time \in Nat
  BY LineMore DEF Typed, RunType, LineType
<1>1. CASE i \in DOMAIN file
  <2>0. DOMAIN file = 1..Len(file)
    BY LenProperties DEF Typed
  <2>1. file'[i] = file[i] /\ LineTold(i) /\ i # Len(file') /\ i \in 1..Len(file)
    <3>1. file'[i] = file[i] /\ Len(file') = Len(file) + 1
      BY <1>1, LineMore
    <3>2. LineTold(i) /\ i \in 1..Len(file)
      BY <1>1, <2>0
    <3>3. i # Len(file) + 1
      BY <1>0, <3>2, Places
    <3>4. QED
      BY <3>1, <3>2, <3>3
  <2>2. i > 1 => i - 1 \in DOMAIN file
    BY <1>0, <2>0, <2>1, Places
  <2>3. i > 1 => file'[i - 1] = file[i - 1]
    BY <2>2, LineMore
  <2>4. ~Terminal(file[i])
    BY <2>1 DEF LineTold
  <2>5. Terminal(file[i])' <=> i = Len(file') /\ Concluded'
    BY <2>1, <2>4 DEF Terminal
  <2>6. file[i].whole
    BY <2>1 DEF LineTold
  <2>7. QED
    BY <2>1, <2>3, <2>5, <2>6 DEF LineTold
<1>2. CASE i = Len(file) + 1
  <2>1. file'[i] = l /\ i = Len(file')
    BY <1>2, LineMore
  <2>0. Len(file) = 0 <=> file = <<>>
    BY EmptySeq DEF Typed
  <2>2. i > 1 => file # <<>> /\ i - 1 = Len(file) /\ file'[i - 1] = file[Len(file)]
    <3>1. i > 1 => file # <<>>
      BY <1>0, <1>2, <2>0, Places
    <3>2. i - 1 = Len(file)
      BY <1>0, <1>2, Places
    <3>3. file # <<>> => file'[Len(file)] = file[Len(file)]
      BY LineMore
    <3>4. QED
      BY <3>1, <3>2, <3>3
  <2>3. i > 1 => file'[i - 1].time <= file'[i].time
    BY <2>1, <2>2
  <2>4. (i = 1) <=> file = <<>>
    BY <1>0, <1>2, <2>0, Places
  <2>5. Terminal(file[i])' <=> i = Len(file') /\ Concluded'
    BY <2>1 DEF Terminal
  <2>6. QED
    BY <2>1, <2>3, <2>4, <2>5 DEF LineTold
<1>3. QED
  BY <1>1, <1>2, LineMore

\* The lines of an engine that grew no queue the file does not show.
LEMMA GrownMore ==
  ASSUME Typed, \A i \in DOMAIN file : Grown(i),
         NEW l \in LineType, file' = Append(file, l),
         l.whole /\ l.depth # 0 => /\ file # <<>> /\ l.event = "periodic"
                                   /\ l.depth = file[Len(file)].depth + 1
  PROVE  \A i \in DOMAIN file' : Grown(i)'
<1> TAKE i \in DOMAIN file'
<1>0. Len(file) \in Nat
  BY LineMore
<1>1. CASE i \in DOMAIN file
  <2>1. file'[i] = file[i] /\ i \in 1..Len(file)
    BY <1>1, LineMore, LenProperties DEF Typed
  <2>2. i # 1 => i - 1 \in DOMAIN file
    BY <1>0, <2>1, LenProperties DEF Typed
  <2>3. i # 1 => file'[i - 1] = file[i - 1]
    BY <2>2, LineMore
  <2>4. QED
    BY <1>1, <2>1, <2>3 DEF Grown
<1>2. CASE i = Len(file) + 1
  <2>1. file'[i] = l
    BY <1>2, LineMore
  <2>2. file # <<>> => i # 1 /\ i - 1 = Len(file) /\ file'[i - 1] = file[Len(file)]
    BY <1>0, <1>2, LineMore
  <2>3. QED
    BY <2>1, <2>2 DEF Grown
<1>3. QED
  BY <1>1, <1>2, LineMore

LEMMA Unjudged ==
  ASSUME Judged, run.pc # "done", report' = report
  PROVE  Judged'
BY DEF Judged, AcceptedIsEarned

LEMMA CountsOf ==
  ASSUME Typed
  PROVE  /\ \A kind \in CounterKinds : engine.count[kind] \in Nat
         /\ \A i \in DOMAIN file : \A kind \in CounterKinds : file[i].count[kind] \in Nat
         /\ \A i \in DOMAIN file : file[i] \in LineType /\ file[i].depth \in Nat /\ file[i].time \in Nat
         /\ file # <<>> => 1 \in DOMAIN file /\ Len(file) \in DOMAIN file
         /\ Len(file) \in Nat
         /\ run.time \in Nat /\ run.requested \in Nat
         /\ history.disturbances \in Nat /\ history.deepest \in Nat /\ engine.depth \in Nat
<1>1. engine.count \in Counts /\ engine.depth \in Nat
  BY DEF Typed, EngineType
<1>2. \A i \in DOMAIN file : file[i] \in LineType
  BY DEF Typed
<1>3. \A i \in DOMAIN file : file[i].count \in Counts /\ file[i].depth \in Nat /\ file[i].time \in Nat
  BY <1>2 DEF LineType
<1>4. DOMAIN file = 1..Len(file) /\ Len(file) \in Nat /\ (file # <<>> => Len(file) # 0)
  BY LenProperties, EmptySeq DEF Typed
<1>5. /\ run.time \in Nat /\ run.requested \in Nat /\ history.disturbances \in Nat
      /\ history.deepest \in Nat
  BY DEF Typed, RunType, HistoryType
<1>6. file # <<>> => 1 \in DOMAIN file /\ Len(file) \in DOMAIN file
  BY <1>4
<1>7. QED
  BY <1>1, <1>2, <1>3, <1>4, <1>5, <1>6 DEF Counts

\* The while condition.
LEMMA Continues ==
  ASSUME run \in RunType
  PROVE  /\ Continue \in {"sleep", "stop"} /\ Continue \in RunPcs
         /\ Continue = "sleep" => run.time < run.requested
BY DEF Continue, RunPcs

LEMMA StartedKeeps ==
  ASSUME EInv, WriteStarted
  PROVE  EInv'
<1> DEFINE l == Line("started", 0)
<1>0. Typed /\ Limited /\ Told /\ Counted /\ Rising /\ Judged
  BY DEF EInv
<1>1. run.pc = "started" /\ file' = Append(file, l) /\ UNCHANGED <<engine, report, history>>
  BY DEF WriteStarted, Write, EvidenceAt
<1>2. /\ run' \in RunType /\ run'.pc \in {"sleep", "stop"}
      /\ run'.pc = "sleep" => run.time < run.requested
      /\ run'.time = run.time /\ run'.outcome = run.outcome
      /\ run'.mode = run.mode /\ run'.schema = run.schema /\ run'.requested = run.requested
  BY <1>0, GoRunFields, Continues DEF WriteStarted, Typed
<1>3. /\ l \in LineType /\ l.whole /\ l.event = "started" /\ l.time = 0
      /\ l.schema = run.schema
      /\ l.requested = IF run.schema = CurrentSchema THEN run.requested ELSE 0
      /\ l.error = engine.error /\ l.depth = engine.depth /\ l.count = engine.count
      /\ l.described = (run.mode = "realtime-aec")
  BY <1>0, LineFields DEF Events
<1> HIDE DEF l
<1>4. file = <<>> /\ run.outcome = "none" /\ ~Concluded /\ ~Concluded'
  BY <1>0, <1>1, <1>2 DEF Told, Reached, Concluded
<1>5. /\ file' \in Seq(LineType) /\ file' # <<>> /\ Len(file) = 0 /\ Len(file') = 1
      /\ file'[1] = l
  BY <1>0, <1>1, <1>3, <1>4, LineMore
<1>6. Typed'
  BY <1>0, <1>1, <1>2, <1>5 DEF Typed
<1>7. Limited'
  BY <1>0, <1>1, <1>2, <1>4 DEF Limited, Concluded
<1>8. Told'
  <2>1. \A i \in DOMAIN file' : LineTold(i)'
    <3>1. 0 <= run.time
      BY <1>0, CountsOf
    <3>2. ~Terminal(l)
      BY <1>3 DEF Terminal
    <3>3. QED
      BY <1>0, <1>1, <1>2, <1>3, <1>4, <3>1, <3>2, LinesMore DEF Told
  <2>2. QED
    BY <1>1, <1>2, <1>4, <1>5, <2>1 DEF Told, Reached
<1>9. Counted'
  <2>1. history.troubles = {}
    BY <1>0, <1>1 DEF Counted
  <2>2. \A kind \in CounterKinds : engine.count[kind] \in Nat
    BY <1>0, CountsOf
  <2>3. \A kind \in CounterKinds : file'[1].count[kind] <= engine'.count[kind]
    BY <1>1, <1>3, <1>5, <2>2
  <2>4. QED
    BY <1>0, <1>1, <1>2, <1>4, <2>1, <2>3 DEF Counted
<1>10. Rising'
  <2>1. ASSUME ~history.failed
        PROVE  /\ engine.depth = 0 /\ Alive /\ history.deepest = 0
               /\ \A i \in DOMAIN file' : Grown(i)'
    <3>1. engine.depth = 0 /\ Alive /\ (\A i \in DOMAIN file : Grown(i))
      BY <1>0, <1>1, <2>1 DEF Rising
    <3>2. history.deepest = 0
      BY <1>0, <1>1, <1>4, <2>1, EmptySeq DEF Rising
    <3>3. \A i \in DOMAIN file' : Grown(i)'
      BY <1>0, <1>1, <1>3, <3>1, GrownMore
    <3>4. QED
      BY <3>1, <3>2, <3>3
  <2>2. QED
    BY <1>1, <1>2, <1>3, <1>5, <2>1 DEF Rising, Alive
<1>11. Judged'
  BY <1>0, <1>1, Unjudged
<1>12. QED
  BY <1>6, <1>7, <1>8, <1>9, <1>10, <1>11 DEF EInv

LEMMA WakeUpKeeps ==
  ASSUME EInv, WakeUp
  PROVE  EInv'
<1>0. Typed /\ Limited /\ Told /\ Counted /\ Rising /\ Judged /\ MaxLate \in Nat
      /\ MaxDisturbances \in Nat
  BY EvidenceAssumption DEF EInv
<1>1. PICK late \in 0..MaxLate, kind \in Possible(Disturbances \union {"late"}) :
        /\ run' = [run EXCEPT !.pc = "check", !.time = run.time + 1 + late]
        /\ engine' = IF Alive THEN After(kind) ELSE engine
        /\ history' = Noted(kind, run.time + 1 + late, engine'.depth)
  BY DEF WakeUp
<1>2. run.pc = "sleep" /\ file' = file /\ report' = report
  BY DEF WakeUp, EvidenceAt
<1> DEFINE time == run.time + 1 + late
<1>3. /\ run.time \in Nat /\ late \in Nat /\ time \in Nat /\ run.time <= time
      /\ run.requested \in Nat
  BY <1>0, CountsOf
<1>4. /\ run' \in RunType /\ run'.pc = "check" /\ run'.time = time /\ run'.outcome = run.outcome
      /\ run'.mode = run.mode /\ run'.schema = run.schema /\ run'.requested = run.requested
  <2>1. run' = [run EXCEPT !.pc = "check", !.time = time]
    BY <1>1
  <2> HIDE DEF time
  <2>2. QED
    BY <1>0, <1>3, <2>1 DEF Typed, RunType, RunPcs
<1>5. kind \in Calm \/ (kind \in Troubles /\ kind \notin Calm /\ MayDisturb /\ Alive)
  BY PossibleKinds DEF Troubles, Disturbances, Calm, CounterKinds, Explainable, Intolerable
<1>6. /\ engine' \in EngineType /\ engine'.state = engine.state /\ engine'.error = engine.error
      /\ Alive => engine'.depth \in {0, engine.depth + 1}
      /\ \A k \in CounterKinds :
           engine'.count[k] = IF Alive /\ k = kind THEN engine.count[k] + 1 ELSE engine.count[k]
  <2>1. CASE Alive
    BY <1>0, <1>1, <2>1, AfterFields DEF Typed
  <2>2. CASE ~Alive
    BY <1>0, <1>1, <2>2 DEF Typed
  <2>3. QED
    BY <2>1, <2>2
<1>7. engine'.depth \in Nat
  BY <1>6 DEF EngineType
<1>8. /\ history' \in HistoryType
      /\ kind \in Calm => history'.disturbances = history.disturbances
      /\ kind \notin Calm => history'.disturbances = history.disturbances + 1
      /\ history'.troubles = history.troubles \union ({kind} \ Calm)
      /\ history'.deepest \in {history.deepest, engine'.depth}
      /\ (history'.failed <=> history.failed)
  <2>1. kind \in Troubles \union Calm /\ history \in HistoryType
    BY <1>0, <1>5 DEF Typed
  <2>2. PICK depth \in Nat : depth = engine'.depth
    BY <1>7
  <2>3. history' = Noted(kind, time, depth)
    BY <1>1, <2>2
  <2> HIDE DEF time
  <2>4. PICK n : n = Noted(kind, time, depth)
    OBVIOUS
  <2>5. time \in Nat /\ kind \in Troubles \union Calm /\ history \in HistoryType
    BY <1>3, <2>1
  <2>6. n \in HistoryType /\ n.deepest \in {history.deepest, depth}
    BY <2>4, <2>5, NotedFields
  <2>7. n.failed <=> history.failed
    BY <2>4, <2>5, NotedFields
  <2>8. /\ kind \in Calm => n.disturbances = history.disturbances
        /\ kind \notin Calm => n.disturbances = history.disturbances + 1
    BY <2>4, <2>5 DEF Noted, HistoryType
  <2>9. n.troubles = history.troubles \union ({kind} \ Calm)
    BY <2>4, <2>5 DEF Noted, HistoryType
  <2>10. QED
    BY <2>2, <2>3, <2>4, <2>6, <2>7, <2>8, <2>9
<1> HIDE DEF time
<1>9. Typed'
  BY <1>0, <1>2, <1>4, <1>6, <1>8 DEF Typed
<1>10. CounterKinds \intersect Calm = {}
  BY DEF CounterKinds, Explainable, Intolerable, Calm
<1>11. Limited'
  <2>1. history'.disturbances <= MaxDisturbances
    <3>1. history.disturbances \in Nat /\ history.disturbances <= MaxDisturbances
      BY <1>0, CountsOf DEF Limited
    <3>2. kind \notin Calm => history.disturbances < MaxDisturbances
      BY <1>5 DEF MayDisturb
    <3>3. QED
      BY <1>0, <1>8, <3>1, <3>2
  <2>2. ASSUME NEW k \in CounterKinds
        PROVE  engine'.count[k] <= history'.disturbances + 1
    <3>1. engine.count[k] \in Nat /\ history.disturbances \in Nat
          /\ engine.count[k] <= history.disturbances + 1
      BY <1>0, CountsOf DEF Limited
    <3>2. k = kind => history'.disturbances = history.disturbances + 1
      BY <1>8, <1>10
    <3>3. history'.disturbances \in {history.disturbances, history.disturbances + 1}
      BY <1>8
    <3>4. QED
      BY <1>6, <3>1, <3>2, <3>3
  <2>3. time <= run.requested + MaxLate
    BY <1>0, <1>2, <1>3 DEF Limited, time
  <2>4. run.requested # 0
    BY <1>0, <1>2 DEF Limited
  <2>5. ~(run'.pc \in {"final", "done"}) /\ run'.pc # "sleep"
    BY <1>4
  <2>6. run'.time <= run'.requested + MaxLate
                       + (IF run'.pc \in {"final", "done"} THEN 1 ELSE 0)
    BY <1>0, <1>3, <1>4, <2>3, <2>5
  <2>7. QED
    BY <1>4, <2>1, <2>2, <2>4, <2>5, <2>6 DEF Limited
<1>12. file # <<>> /\ (Concluded' <=> Concluded) /\ run.outcome = "none"
  BY <1>0, <1>2, <1>4 DEF Told, Reached, Concluded
<1>13. Told'
  <2>1. \A i \in DOMAIN file' : LineTold(i)'
    BY <1>0, <1>2, <1>3, <1>4, <1>12, LinesKept DEF Told
  <2>2. Reached'
    BY <1>0, <1>2, <1>4, <1>12 DEF Told, Reached, Concluded
  <2>3. QED
    BY <2>1, <2>2 DEF Told
<1>14. Counted'
  <2>1. ASSUME NEW k \in CounterKinds
        PROVE  /\ file[1].count[k] <= engine'.count[k]
               /\ k \in history'.troubles => file[1].count[k] < engine'.count[k]
    <3>1. engine.count[k] \in Nat /\ file[1].count[k] \in Nat
      BY <1>0, <1>12, CountsOf
    <3>2. /\ file[1].count[k] <= engine.count[k]
          /\ k \in history.troubles => file[1].count[k] < engine.count[k]
      BY <1>0, <1>12 DEF Counted
    <3>3. k \in history'.troubles => k \in history.troubles \/ (k = kind /\ Alive)
      BY <1>5, <1>8, <1>10
    <3>4. QED
      BY <1>6, <3>1, <3>2, <3>3
  <2>2. QED
    BY <1>0, <1>2, <1>4, <1>6, <1>8, <1>12, <2>1 DEF Counted
<1>15. Rising'
  <2>1. ASSUME ~history.failed
        PROVE  /\ Alive' /\ engine'.depth \in {0, file[Len(file)].depth + 1}
               /\ \A i \in DOMAIN file' : Grown(i)'
               /\ history'.deepest # 0 =>
                    \/ \E i \in DOMAIN file' : file'[i].depth = history'.deepest
                    \/ engine'.depth = history'.deepest
    <3>1. /\ Alive /\ engine.depth = file[Len(file)].depth
          /\ \A i \in DOMAIN file : Grown(i)
          /\ history.deepest # 0 => \E i \in DOMAIN file : file[i].depth = history.deepest
      BY <1>0, <1>2, <1>12, <2>1 DEF Rising
    <3>2. Alive' /\ engine'.depth \in {0, file[Len(file)].depth + 1}
      BY <1>6, <3>1 DEF Alive
    <3>3. \A i \in DOMAIN file' : Grown(i)'
      BY <1>2, <3>1 DEF Grown
    <3>4. QED
      BY <1>2, <1>8, <3>1, <3>2, <3>3
  <2>2. QED
    BY <1>2, <1>4, <1>8, <2>1 DEF Rising
<1>16. Judged'
  BY <1>0, <1>2, Unjudged
<1>17. QED
  BY <1>9, <1>11, <1>13, <1>14, <1>15, <1>16 DEF EInv

LEMMA CheckKeeps ==
  ASSUME EInv, CheckEngine
  PROVE  EInv'
<1> DEFINE pc == IF engine.state = "failed" THEN "failed" ELSE "periodic"
<1>0. Typed /\ Limited /\ Told /\ Counted /\ Rising /\ Judged
  BY DEF EInv
<1>1. run.pc = "check" /\ UNCHANGED <<engine, file, report, history>>
  BY DEF CheckEngine, EvidenceAt
<1>2. /\ pc \in {"failed", "periodic"} /\ pc \in RunPcs /\ GoRun(pc)
      /\ pc = "failed" => engine.state = "failed"
  BY DEF CheckEngine, RunPcs
<1> HIDE DEF pc
<1>3. /\ run' \in RunType /\ run'.pc = pc /\ run'.time = run.time /\ run'.outcome = run.outcome
      /\ run'.mode = run.mode /\ run'.schema = run.schema /\ run'.requested = run.requested
  BY <1>0, <1>2, GoRunFields DEF Typed
<1>4. Typed'
  BY <1>0, <1>1, <1>3 DEF Typed
<1>5. Limited'
  BY <1>0, <1>1, <1>2, <1>3 DEF Limited
<1>6. Told'
  <2>1. Concluded' <=> Concluded
    BY <1>3 DEF Concluded
  <2>2. run.time <= run'.time
    BY <1>0, <1>3, CountsOf
  <2>3. \A i \in DOMAIN file' : LineTold(i)'
    BY <1>0, <1>1, <1>3, <2>1, <2>2, LinesKept DEF Told
  <2>4. Reached'
    BY <1>0, <1>1, <1>2, <1>3, <2>1 DEF Told, Reached
  <2>5. QED
    BY <2>3, <2>4 DEF Told
<1>7. Counted'
  BY <1>0, <1>1, <1>2, <1>3 DEF Counted
<1>8. Rising'
  <2>1. ASSUME ~history.failed
        PROVE  pc = "periodic"
    BY <1>0, <1>2, <2>1 DEF Counted
  <2>2. QED
    BY <1>0, <1>1, <1>3, <2>1 DEF Rising, Grown, Alive
<1>9. Judged'
  BY <1>0, <1>1, Unjudged
<1>10. QED
  BY <1>4, <1>5, <1>6, <1>7, <1>8, <1>9 DEF EInv

\* A periodic or a terminal line.
LEMMA LineWritten ==
  ASSUME EInv, NEW event \in {"periodic", "failed", "final"}, run.pc = event,
         file' = Append(file, Line(event, run.time)), UNCHANGED <<engine, report, history>>,
         run' \in RunType, run'.time = run.time,
         run'.mode = run.mode, run'.schema = run.schema, run'.requested = run.requested,
         Concluded' <=> event # "periodic"
  PROVE  /\ Typed' /\ Judged' /\ (\A i \in DOMAIN file' : LineTold(i)')
         /\ file' # <<>> /\ Len(file') >= 2 /\ file'[1] = file[1]
         /\ file'[Len(file')].count = engine.count /\ file'[Len(file')].error = engine.error
         /\ file'[Len(file')].time = run.time /\ file'[Len(file')].event = event
         /\ file'[Len(file')].depth = engine.depth
         /\ \A i \in DOMAIN file : i \in DOMAIN file' /\ file'[i] = file[i]
         /\ Len(file') \in DOMAIN file'
         /\ ~history.failed => \A i \in DOMAIN file' : Grown(i)'
<1> DEFINE l == Line(event, run.time)
<1>0. Typed /\ Limited /\ Told /\ Counted /\ Rising /\ Judged
  BY DEF EInv
<1>1. /\ l \in LineType /\ l.whole /\ l.event = event /\ l.time = run.time
      /\ l.schema = run.schema
      /\ l.requested = IF run.schema = CurrentSchema THEN run.requested ELSE 0
      /\ l.error = engine.error /\ l.depth = engine.depth /\ l.count = engine.count
      /\ l.described = (run.mode = "realtime-aec")
  BY <1>0, LineFields, CountsOf DEF Events
<1>2. file' = Append(file, l)
  OBVIOUS
<1> HIDE DEF l
<1>3. file # <<>> /\ run.outcome = "none" /\ run.pc # "done" /\ ~Concluded
  BY <1>0 DEF Told, Reached, Concluded
<1>4. /\ file' \in Seq(LineType) /\ file' # <<>> /\ Len(file') = Len(file) + 1
      /\ Len(file) \in Nat /\ file'[Len(file) + 1] = l /\ DOMAIN file' = 1..(Len(file) + 1)
      /\ \A i \in DOMAIN file : file'[i] = file[i]
      /\ 1 \in DOMAIN file /\ Len(file) \in DOMAIN file
  BY <1>0, <1>1, <1>2, <1>3, LineMore
<1>5. DOMAIN file = 1..Len(file)
  BY <1>0, LenProperties DEF Typed
<1>6. Typed'
  BY <1>0, <1>4 DEF Typed
<1>7. Judged'
  BY <1>0, <1>3, Unjudged
<1>8. \A i \in DOMAIN file' : LineTold(i)'
  <2>5. LineTold(Len(file)) /\ run.time \in Nat
    BY <1>0, <1>4, CountsOf DEF Told
  <2>6. run.time <= run.time
    BY <2>5
  <2>1. file[Len(file)].time <= run.time
    BY <2>5 DEF LineTold
  <2>2. Terminal(l) <=> Concluded'
    BY <1>1 DEF Terminal
  <2>3. l.event # "torn" /\ l.event # "started"
    BY <1>1
  <2>4. QED
    BY <1>0, <1>1, <1>2, <1>3, <2>1, <2>2, <2>3, <2>6, LinesMore DEF Told
<1>9. Len(file') >= 2
  BY <1>4, <1>5
<1>10. ~history.failed => \A i \in DOMAIN file' : Grown(i)'
  <2>1. SUFFICES ASSUME ~history.failed
                 PROVE  \A i \in DOMAIN file' : Grown(i)'
    OBVIOUS
  <2>2. \A i \in DOMAIN file : Grown(i)
    BY <1>0, <2>1 DEF Rising
  <2>3. event # "failed"
    BY <1>0, <2>1 DEF Counted
  <2>4. event = "periodic" => l.depth \in {0, file[Len(file)].depth + 1}
    BY <1>0, <1>1, <2>1 DEF Rising
  <2>5. event = "final" => l.depth = 0
    BY <1>0, <1>1, <2>1 DEF Rising
  <2>6. QED
    BY <1>0, <1>1, <1>2, <1>3, <2>2, <2>3, <2>4, <2>5, GrownMore
<1>11. \A i \in DOMAIN file : i \in DOMAIN file' /\ file'[i] = file[i]
  BY <1>4, <1>5
<1>12. Len(file') \in DOMAIN file' /\ file'[Len(file')] = l
  BY <1>4
<1>13. QED
  BY <1>1, <1>4, <1>6, <1>7, <1>8, <1>9, <1>10, <1>11, <1>12

\* The first line is as old as the run, and the counters only grow.
LEMMA CountedOn ==
  ASSUME Counted, file # <<>>, file' # <<>>, file'[1] = file[1], engine' = engine,
         history' = history, run'.pc \notin {"idle", "started", "failed"},
         run'.outcome = "completed" =>
           /\ file'[Len(file')].count = engine.count /\ file'[Len(file')].error = engine.error
           /\ file'[Len(file')].time = run'.time,
         run'.outcome = "failed" => file'[Len(file')].event = "failed"
  PROVE  Counted'
BY DEF Counted

LEMMA PeriodicKeeps ==
  ASSUME EInv, WritePeriodic
  PROVE  EInv'
<1>0. Typed /\ Limited /\ Told /\ Counted /\ Rising
  BY DEF EInv
<1>1. /\ run.pc = "periodic" /\ file' = Append(file, Line("periodic", run.time))
      /\ UNCHANGED <<engine, report, history>>
  BY DEF WritePeriodic, Write, EvidenceAt
<1>2. /\ run' \in RunType /\ run'.pc \in {"sleep", "stop"}
      /\ run'.pc = "sleep" => run.time < run.requested
      /\ run'.time = run.time /\ run'.outcome = run.outcome
      /\ run'.mode = run.mode /\ run'.schema = run.schema /\ run'.requested = run.requested
  BY <1>0, GoRunFields, Continues DEF WritePeriodic, Typed
<1>3. run.outcome = "none" /\ file # <<>> /\ ~Concluded'
  BY <1>0, <1>1, <1>2 DEF Told, Reached, Concluded
<1>4. /\ Typed' /\ Judged' /\ (\A i \in DOMAIN file' : LineTold(i)')
      /\ file' # <<>> /\ Len(file') >= 2 /\ file'[1] = file[1]
      /\ file'[Len(file')].depth = engine.depth
      /\ \A i \in DOMAIN file : i \in DOMAIN file' /\ file'[i] = file[i]
      /\ Len(file') \in DOMAIN file'
      /\ ~history.failed => \A i \in DOMAIN file' : Grown(i)'
  BY <1>1, <1>2, <1>3, LineWritten
<1>5. Limited'
  BY <1>0, <1>1, <1>2, <1>3 DEF Limited
<1>6. Told'
  BY <1>2, <1>3, <1>4 DEF Told, Reached
<1>7. Counted'
  BY <1>0, <1>1, <1>2, <1>3, <1>4, CountedOn
<1>8. Rising'
  <2>1. ASSUME ~history.failed, history.deepest # 0
        PROVE  \E i \in DOMAIN file' : file'[i].depth = history.deepest
    <3>1. \/ \E i \in DOMAIN file : file[i].depth = history.deepest
          \/ engine.depth = history.deepest
      BY <1>0, <1>3, <2>1 DEF Rising
    <3>2. QED
      BY <1>4, <3>1
  <2>2. ~history.failed => Alive
    BY <1>0, <1>1 DEF Rising
  <2>3. QED
    BY <1>1, <1>2, <1>4, <2>1, <2>2 DEF Rising, Alive
<1>9. QED
  BY <1>4, <1>5, <1>6, <1>7, <1>8 DEF EInv

LEMMA TerminalKeeps ==
  ASSUME EInv, WriteFailed \/ WriteFinal
  PROVE  EInv'
<1>0. Typed /\ Limited /\ Told /\ Counted /\ Rising
  BY DEF EInv
<1>1. PICK event \in {"failed", "final"}, outcome \in {"failed", "completed"} :
        /\ run.pc = event /\ file' = Append(file, Line(event, run.time))
        /\ Over(outcome) /\ UNCHANGED <<engine, report, history>>
        /\ event = "failed" <=> outcome = "failed"
  BY DEF WriteFailed, WriteFinal, Write, EvidenceAt
<1>2. /\ run' \in RunType /\ run'.pc = "done"
      /\ run'.time = run.time /\ run'.outcome = outcome
      /\ run'.mode = run.mode /\ run'.schema = run.schema /\ run'.requested = run.requested
  BY <1>0, <1>1, OverFields DEF Typed, Outcomes
<1>3. run.outcome = "none" /\ file # <<>> /\ Concluded'
  BY <1>0, <1>1, <1>2 DEF Told, Reached, Concluded
<1>4. /\ Typed' /\ Judged' /\ (\A i \in DOMAIN file' : LineTold(i)')
      /\ file' # <<>> /\ Len(file') >= 2 /\ file'[1] = file[1]
      /\ file'[Len(file')].count = engine.count /\ file'[Len(file')].error = engine.error
      /\ file'[Len(file')].time = run.time /\ file'[Len(file')].event = event
      /\ \A i \in DOMAIN file : i \in DOMAIN file' /\ file'[i] = file[i]
      /\ ~history.failed => \A i \in DOMAIN file' : Grown(i)'
  BY <1>1, <1>2, <1>3, LineWritten
<1>5. Limited'
  <2>1. run.time <= run.requested + MaxLate + 1
    BY <1>0, <1>1, CountsOf, EvidenceAssumption DEF Limited
  <2>2. run.requested # 0
    BY <1>0, <1>1 DEF Limited
  <2>3. QED
    BY <1>0, <1>1, <1>2, <2>1, <2>2 DEF Limited
<1>6. Told'
  BY <1>1, <1>2, <1>3, <1>4 DEF Told, Reached
<1>7. Counted'
  BY <1>0, <1>1, <1>2, <1>3, <1>4, CountedOn
<1>8. Rising'
  <2>1. ASSUME ~history.failed, history.deepest # 0
        PROVE  \E i \in DOMAIN file' : file'[i].depth = history.deepest
    <3>1. event # "failed"
      BY <1>0, <1>1, <2>1 DEF Counted
    <3>2. \E i \in DOMAIN file : file[i].depth = history.deepest
      BY <1>0, <1>1, <1>3, <2>1, <3>1 DEF Rising
    <3>3. QED
      BY <1>4, <3>2
  <2>2. QED
    BY <1>1, <1>2, <1>4, <2>1 DEF Rising
<1>9. QED
  BY <1>4, <1>5, <1>6, <1>7, <1>8 DEF EInv

LEMMA StopTime ==
  ASSUME NEW time \in Nat, NEW requested \in Nat, NEW late \in Nat, NEW end \in {time, time + 1},
         time <= requested + late
  PROVE  end <= requested + late + 1 /\ time <= end
OBVIOUS

LEMMA StopKeeps ==
  ASSUME EInv, StopRun
  PROVE  EInv'
<1>0. Typed /\ Limited /\ Told /\ Counted /\ Rising /\ Judged /\ MaxLate \in Nat
      /\ MaxDisturbances \in Nat
  BY EvidenceAssumption DEF EInv
<1>1. run.pc = "stop" /\ file' = file /\ report' = report
  BY DEF StopRun, EvidenceAt
<1>3. /\ run.time \in Nat /\ run.requested \in Nat
      /\ engine \in EngineType /\ engine.depth \in Nat
  BY <1>0, CountsOf DEF Typed
<1>2. file # <<>> /\ run.outcome = "none" /\ ~Concluded /\ run.requested # 0
      /\ run.time <= run.requested + MaxLate
  <2>1. file # <<>> /\ run.outcome = "none" /\ ~Concluded /\ run.requested # 0
    BY <1>0, <1>1 DEF Told, Reached, Concluded, Limited
  <2>2. run.time <= run.requested + MaxLate + 0
    BY <1>0, <1>1 DEF Limited
  <2>3. QED
    BY <1>0, <1>3, <2>1, <2>2
<1>4. Judged'
  BY <1>0, <1>1, Unjudged
\* What the three ways to go on have in common.
<1>5. ASSUME run' \in RunType, run'.pc \in {"final", "done"},
             run'.outcome = IF run'.pc = "final" THEN "none" ELSE "not stopped",
             run'.time \in {run.time, run.time + 1},
             run'.mode = run.mode, run'.schema = run.schema, run'.requested = run.requested,
             engine' \in EngineType, engine'.error = engine.error,
             engine'.state \in {engine.state, "stopped"},
             run'.pc = "final" => engine'.depth = 0,
             history' \in HistoryType, history'.failed <=> history.failed,
             history'.disturbances <= MaxDisturbances,
             history'.deepest \in {history.deepest, 0},
             \A k \in CounterKinds :
               /\ engine'.count[k] <= history'.disturbances + 1
               /\ file[1].count[k] <= engine'.count[k]
               /\ k \in history'.troubles => file[1].count[k] < engine'.count[k]
      PROVE  EInv'
  <2>1. Typed'
    BY <1>0, <1>1, <1>5 DEF Typed
  <2>2. Limited'
    <3>1. run'.time <= run'.requested + MaxLate + 1
      BY <1>0, <1>2, <1>3, <1>5, StopTime
    <3>2. QED
      BY <1>2, <1>5, <3>1 DEF Limited
  <2>3. ~Concluded' /\ run.time <= run'.time
    BY <1>0, <1>2, <1>3, <1>5, StopTime DEF Concluded
  <2>4. Told'
    <3>1. \A i \in DOMAIN file' : LineTold(i)'
      BY <1>0, <1>1, <1>2, <1>5, <2>3, LinesKept DEF Told
    <3>2. QED
      BY <1>1, <1>2, <1>5, <2>3, <3>1 DEF Told, Reached
  <2>5. Counted'
    BY <1>0, <1>1, <1>2, <1>5 DEF Counted
  <2>6. Rising'
    <3>1. ASSUME ~history.failed
          PROVE  /\ \A i \in DOMAIN file : Grown(i)
                 /\ history.deepest # 0 => \E i \in DOMAIN file : file[i].depth = history.deepest
      BY <1>0, <1>1, <1>2, <3>1 DEF Rising
    <3>2. QED
      BY <1>1, <1>5, <3>1 DEF Rising, Grown
  <2>7. QED
    BY <1>4, <2>1, <2>2, <2>4, <2>5, <2>6 DEF EInv
<1>6. \A k \in CounterKinds :
        /\ engine.count[k] \in Nat /\ file[1].count[k] \in Nat
        /\ engine.count[k] <= history.disturbances + 1
        /\ file[1].count[k] <= engine.count[k]
        /\ k \in history.troubles => file[1].count[k] < engine.count[k]
  BY <1>0, <1>2, CountsOf DEF Limited, Counted
<1>7. history \in HistoryType /\ history.disturbances <= MaxDisturbances
      /\ history.disturbances \in Nat
  BY <1>0, CountsOf DEF Typed, Limited
<1>8. CASE GoRun("final") /\ engine' = Halted(engine, "stopped") /\ history' = history
  <2>1. /\ run' \in RunType /\ run'.pc = "final" /\ run'.time = run.time
        /\ run'.outcome = run.outcome
        /\ run'.mode = run.mode /\ run'.schema = run.schema /\ run'.requested = run.requested
    BY <1>0, <1>8, GoRunFields DEF Typed, RunPcs
  <2>2. /\ engine' \in EngineType /\ engine'.state = "stopped" /\ engine'.error = engine.error
        /\ engine'.depth = 0 /\ engine'.count = engine.count
    BY <1>3, <1>8, HaltedFields
  <2>3. QED
    BY <1>2, <1>5, <1>6, <1>7, <1>8, <2>1, <2>2
<1>9. ASSUME NEW kind \in Possible(CounterKinds),
             run' = [run EXCEPT !.pc = "final", !.time = run.time + 1],
             engine' = Halted(IF Alive THEN After(kind) ELSE engine, "stopped"),
             history' = Noted(kind, run.time + 1, 0)
      PROVE  EInv'
  <2>15. PICK time \in Nat : time = run.time + 1
    BY <1>3
  <2>16. run' = [run EXCEPT !.pc = "final", !.time = time]
    BY <1>9, <2>15
  <2>1. /\ run' \in RunType /\ run'.pc = "final" /\ run'.time = time
        /\ run'.outcome = run.outcome
        /\ run'.mode = run.mode /\ run'.schema = run.schema /\ run'.requested = run.requested
    BY <1>0, <2>16 DEF Typed, RunType, RunPcs
  <2>2. kind \in Calm \/ (kind \in Troubles /\ kind \notin Calm /\ MayDisturb /\ Alive)
    BY PossibleKinds, <1>9 DEF Troubles, Disturbances, Calm, CounterKinds, Explainable, Intolerable
  <2>3. CounterKinds \intersect Calm = {}
    BY DEF CounterKinds, Explainable, Intolerable, Calm
  <2>4. PICK e \in EngineType :
          /\ engine' = Halted(e, "stopped") /\ e.error = engine.error
          /\ \A k \in CounterKinds :
               e.count[k] = IF Alive /\ k = kind THEN engine.count[k] + 1 ELSE engine.count[k]
    <3>1. CASE Alive
      BY <1>3, <1>9, <3>1, AfterFields
    <3>2. CASE ~Alive
      BY <1>3, <1>9, <3>2
    <3>3. QED
      BY <3>1, <3>2
  <2>5. /\ engine' \in EngineType /\ engine'.state = "stopped" /\ engine'.error = engine.error
        /\ engine'.depth = 0 /\ engine'.count = e.count
    BY <2>4, HaltedFields
  <2>6. PICK n : n = Noted(kind, time, 0) /\ history' = n
    BY <1>9, <2>15
  <2>7. kind \in Troubles \union Calm
    BY <2>2
  <2>8. n \in HistoryType /\ n.deepest \in {history.deepest, 0}
    BY <1>7, <2>6, <2>7, NotedFields
  <2>9. n.failed <=> history.failed
    BY <1>7, <2>6 DEF Noted, HistoryType
  <2>10. /\ kind \in Calm => n.disturbances = history.disturbances
         /\ kind \notin Calm => n.disturbances = history.disturbances + 1
    BY <1>7, <2>6 DEF Noted, HistoryType
  <2>11. n.troubles = history.troubles \union ({kind} \ Calm)
    BY <1>7, <2>6 DEF Noted, HistoryType
  <2>12. n.disturbances <= MaxDisturbances
    <3>1. kind \notin Calm => history.disturbances < MaxDisturbances
      BY <2>2 DEF MayDisturb
    <3>2. QED
      BY <1>0, <1>7, <2>10, <3>1
  <2>13. ASSUME NEW k \in CounterKinds
         PROVE  /\ e.count[k] <= n.disturbances + 1
                /\ file[1].count[k] <= e.count[k]
                /\ k \in n.troubles => file[1].count[k] < e.count[k]
    <3>1. k = kind => n.disturbances = history.disturbances + 1
      BY <2>3, <2>10
    <3>2. n.disturbances \in {history.disturbances, history.disturbances + 1}
      BY <2>10
    <3>3. k \in n.troubles => k \in history.troubles \/ (k = kind /\ Alive)
      BY <2>2, <2>3, <2>11
    <3>4. e.count[k] = engine.count[k] \/ (k = kind /\ e.count[k] = engine.count[k] + 1)
      BY <2>4
    <3>5. e.count[k] <= n.disturbances + 1
      BY <1>6, <1>7, <3>1, <3>2, <3>4
    <3>6. file[1].count[k] <= e.count[k]
      BY <1>6, <3>4
    <3>7. k \in n.troubles => file[1].count[k] < e.count[k]
      BY <1>6, <2>4, <3>3
    <3>8. QED
      BY <3>5, <3>6, <3>7
  <2>14. QED
    BY <1>2, <1>5, <2>1, <2>15, <2>5, <2>6, <2>8, <2>9, <2>12, <2>13
<1>10. CASE Over("not stopped") /\ UNCHANGED <<engine, history>>
  <2>1. /\ run' \in RunType /\ run'.pc = "done" /\ run'.time = run.time
        /\ run'.outcome = "not stopped"
        /\ run'.mode = run.mode /\ run'.schema = run.schema /\ run'.requested = run.requested
    BY <1>0, <1>10, OverFields DEF Typed, Outcomes
  <2>2. QED
    BY <1>3, <1>5, <1>6, <1>7, <1>10, <2>1
<1>11. QED
  BY <1>8, <1>9, <1>10 DEF StopRun

LEMMA CutKeeps ==
  ASSUME EInv, CutShort
  PROVE  EInv'
<1> DEFINE l == [Line("torn", run.time) EXCEPT !.whole = FALSE]
<1>0. Typed /\ Limited /\ Told /\ Counted /\ Rising /\ Judged
  BY DEF EInv
<1>1. /\ run.pc \in {"started", "periodic", "failed", "final"} /\ Over("cut short")
      /\ file' = file \/ file' = Append(file, l)
      /\ UNCHANGED <<engine, report, history>>
  BY DEF CutShort
<1>2. /\ run' \in RunType /\ run'.pc = "done" /\ run'.time = run.time
      /\ run'.outcome = "cut short"
      /\ run'.mode = run.mode /\ run'.schema = run.schema /\ run'.requested = run.requested
  BY <1>0, <1>1, OverFields DEF Typed, Outcomes
<1>3. run.outcome = "none" /\ ~Concluded /\ ~Concluded'
  BY <1>0, <1>1, <1>2 DEF Told, Reached, Concluded
<1>4. /\ run.time \in Nat /\ run.requested \in Nat /\ MaxLate \in Nat
      /\ \A kind \in CounterKinds : engine.count[kind] \in Nat
  BY <1>0, CountsOf, EvidenceAssumption
<1>5. /\ l \in LineType /\ ~l.whole /\ l.event = "torn" /\ l.time = run.time
      /\ l.schema = run.schema /\ l.count = engine.count
      /\ l.requested = IF run.schema = CurrentSchema THEN run.requested ELSE 0
      /\ l.described = (run.mode = "realtime-aec")
  <2>1. PICK k \in LineType : k = Line("torn", run.time)
    BY <1>0, <1>4, LineFields DEF Events
  <2>2. /\ k.event = "torn" /\ k.time = run.time
        /\ k.schema = run.schema /\ k.count = engine.count
        /\ k.requested = IF run.schema = CurrentSchema THEN run.requested ELSE 0
        /\ k.described = (run.mode = "realtime-aec")
    BY <1>0, <1>4, <2>1, LineFields DEF Events
  <2>3. l = [k EXCEPT !.whole = FALSE]
    BY <2>1
  <2>4. /\ l \in LineType /\ ~l.whole /\ l.event = k.event /\ l.time = k.time
        /\ l.schema = k.schema /\ l.count = k.count
        /\ l.requested = k.requested /\ l.described = k.described
    BY <2>3 DEF LineType
  <2>5. QED
    BY <2>2, <2>4
<1> HIDE DEF l
<1>6. file' \in Seq(LineType)
  BY <1>0, <1>1, <1>5, LineMore DEF Typed
<1>7. Typed'
  BY <1>0, <1>1, <1>2, <1>6 DEF Typed
<1>8. Limited'
  <2>1. run.time <= run.requested + MaxLate + 1
    BY <1>0, <1>4 DEF Limited
  <2>2. QED
    BY <1>0, <1>1, <1>2, <2>1 DEF Limited
<1>9. Told'
  <2>1. \A i \in DOMAIN file' : LineTold(i)'
    <3>1. CASE file' = file
      <4>1. run.time <= run'.time
        <5>1. run.time \in Nat /\ run'.time = run.time
          BY <1>2, <1>4
        <5>2. QED
          BY <5>1
      <4>2. QED
        BY <1>0, <1>2, <1>3, <3>1, <4>1, LinesKept DEF Told
    <3>2. CASE file' = Append(file, l)
      <4>1. ~Terminal(l)
        BY <1>5 DEF Terminal
      <4>2. file # <<>> => file[Len(file)].time <= run.time
        BY <1>0, CountsOf DEF Told, LineTold
      <4>3. run.time <= run.time
        BY <1>4
      <4>4. QED
        BY <1>0, <1>2, <1>3, <1>5, <3>2, <4>1, <4>2, <4>3, LinesMore DEF Told
    <3>3. QED
      BY <1>1, <3>1, <3>2
  <2>2. QED
    BY <1>2, <1>3, <2>1 DEF Told, Reached
<1>10. Counted'
  <2>1. CASE file' = file
    BY <1>0, <1>1, <1>2, <2>1 DEF Counted
  <2>2. CASE file' = Append(file, l) /\ file # <<>>
    <3>1. file'[1] = file[1]
      BY <1>0, <1>5, <2>2, LineMore
    <3>2. QED
      BY <1>0, <1>1, <1>2, <2>2, <3>1 DEF Counted
  <2>3. CASE file' = Append(file, l) /\ file = <<>>
    <3>1. file'[1] = l
      BY <1>0, <1>5, <2>3, LineMore
    <3>2. run.pc = "started"
      BY <1>0, <1>1, <2>3 DEF Told, Reached
    <3>3. history.troubles = {}
      BY <1>0, <3>2 DEF Counted
    <3>4. \A kind \in CounterKinds : file'[1].count[kind] <= engine.count[kind]
      BY <1>4, <1>5, <3>1
    <3>5. QED
      BY <1>0, <1>1, <1>2, <3>3, <3>4 DEF Counted
  <2>4. QED
    BY <1>1, <2>1, <2>2, <2>3
<1>11. Rising'
  <2>1. ASSUME ~history.failed
        PROVE  \A i \in DOMAIN file' : Grown(i)'
    <3>1. \A i \in DOMAIN file : Grown(i)
      BY <1>0, <2>1 DEF Rising
    <3>2. CASE file' = file
      BY <3>1, <3>2 DEF Grown
    <3>3. CASE file' = Append(file, l)
      BY <1>0, <1>5, <3>1, <3>3, GrownMore
    <3>4. QED
      BY <1>1, <3>2, <3>3
  <2>2. QED
    BY <1>1, <1>2, <2>1 DEF Rising
<1>12. Judged'
  BY <1>0, <1>1, Unjudged
<1>13. QED
  BY <1>7, <1>8, <1>9, <1>10, <1>11, <1>12 DEF EInv

LEMMA FailureKeeps ==
  ASSUME EInv, EngineFails
  PROVE  EInv'
<1>0. Typed /\ Limited /\ Told /\ Counted /\ Rising /\ Judged
  BY DEF EInv
<1>1. PICK error \in EngineErrors :
        /\ engine' = [engine EXCEPT !.state = "failed", !.error = error, !.depth = 0,
                                    !.slow = FALSE]
        /\ run.pc \notin {"idle", "done"} /\ Alive
        /\ history' = [history EXCEPT !.failed = TRUE]
        /\ UNCHANGED <<run, file, report>>
  BY DEF EngineFails
<1>2. engine \in EngineType /\ history \in HistoryType
  BY <1>0 DEF Typed
<1>3. DOMAIN engine = {"state", "error", "microphone", "render", "frames", "depth", "slow", "count"}
  BY <1>2 DEF EngineType
<1>4. engine' = [state |-> "failed", error |-> error, microphone |-> engine.microphone,
                 render |-> engine.render, frames |-> engine.frames, depth |-> 0,
                 slow |-> FALSE, count |-> engine.count]
  BY <1>1, <1>3
<1>5. /\ engine' \in EngineType /\ engine'.state = "failed" /\ engine'.error = error
      /\ engine'.count = engine.count
  BY <1>2, <1>4 DEF EngineType, EngineStates, LastErrors
<1>6. /\ history' \in HistoryType /\ history'.failed
      /\ history'.disturbances = history.disturbances
      /\ history'.troubles = history.troubles
  BY <1>1, <1>2 DEF HistoryType
<1>7. Typed'
  BY <1>0, <1>1, <1>5, <1>6 DEF Typed
<1>8. Limited'
  BY <1>0, <1>1, <1>5, <1>6 DEF Limited, Concluded
<1>9. Told'
  BY <1>0, <1>1 DEF Told, Reached, LineTold, Terminal, Concluded
<1>10. Counted'
  <2>1. error # "none"
    BY EvidenceAssumption
  <2>2. run.outcome = "none"
    BY <1>0, <1>1 DEF Told, Reached
  <2>3. QED
    BY <1>0, <1>1, <1>5, <1>6, <2>1, <2>2 DEF Counted
<1>11. Rising'
  BY <1>6 DEF Rising
<1>12. Judged'
  BY <1>0, <1>1, Unjudged
<1>13. QED
  BY <1>7, <1>8, <1>9, <1>10, <1>11, <1>12 DEF EInv

LEMMA StartKeeps ==
  ASSUME EInv, NEW mode \in {"bypass", "realtime-aec"}, StartEvidence(mode)
  PROVE  EInv'
<1>0. Typed /\ Limited /\ Told /\ Counted /\ Rising /\ Judged
  BY DEF EInv
<1>1. run.pc = "idle" /\ UNCHANGED <<file, report, history>>
  BY DEF StartEvidence, EvidenceAt
<1>2. /\ engine \in EngineType /\ history \in HistoryType /\ run \in RunType
      /\ history.disturbances \in Nat /\ history.deepest \in Nat
      /\ run.time \in Nat /\ run.requested \in Nat /\ MaxLate \in Nat
  BY <1>0, CountsOf, EvidenceAssumption DEF Typed
<1>3. file = <<>> /\ DOMAIN file = {} /\ run.outcome = "none"
  BY <1>0, <1>1, EmptySeq DEF Told, Reached
<1>4. Judged'
  BY <1>0, <1>1, Unjudged
<1>5. ASSUME NEW plan \in Plans, NEW took \in 0..1,
             run' = [pc |-> "started", mode |-> mode, schema |-> plan.schema,
                     requested |-> plan.requested, time |-> took, outcome |-> "none"],
             engine' = [engine EXCEPT !.state = "running", !.microphone = took,
                                      !.frames = took, !.count["miss"] = took]
      PROVE  EInv'
  <2>1. /\ plan.schema \in 2..CurrentSchema /\ plan.requested \in Nat /\ plan.requested # 0
        /\ took \in Nat
    BY EvidenceAssumption
  <2>2. /\ run' \in RunType /\ run'.pc = "started" /\ run'.outcome = "none"
        /\ run'.requested = plan.requested /\ run'.time = took
    BY <1>5, <2>1 DEF RunType, RunPcs, RunModes, Outcomes
  <2> DEFINE count == [engine.count EXCEPT !["miss"] = took]
  <2>3. engine.count \in Counts
    BY <1>2 DEF EngineType
  <2>4. /\ count \in Counts
        /\ \A k \in CounterKinds : count[k] = IF k = "miss" THEN took ELSE engine.count[k]
    BY <2>1, <2>3 DEF Counts
  <2>5. DOMAIN engine = {"state", "error", "microphone", "render", "frames", "depth", "slow", "count"}
    BY <1>2 DEF EngineType
  <2>6. engine' = [engine EXCEPT !.state = "running", !.microphone = took,
                                 !.frames = took, !.count = count]
    BY <1>5
  <2> HIDE DEF count
  <2>7. engine' = [state |-> "running", error |-> engine.error, microphone |-> took,
                   render |-> engine.render, frames |-> took, depth |-> engine.depth,
                   slow |-> engine.slow, count |-> count]
    BY <2>5, <2>6
  <2>8. /\ engine' \in EngineType /\ engine'.state = "running" /\ engine'.error = engine.error
        /\ engine'.depth = engine.depth /\ engine'.count = count
    BY <1>2, <2>1, <2>4, <2>7 DEF EngineType, EngineStates
  <2>9. Typed'
    BY <1>0, <1>1, <2>2, <2>8 DEF Typed
  <2>10. Limited'
    <3>1. \A k \in CounterKinds : count[k] <= history.disturbances + 1
      <4>1. took <= history.disturbances + 1
        BY <1>2
      <4>2. \A k \in CounterKinds : engine.count[k] <= history.disturbances + 1
        BY <1>0 DEF Limited
      <4>3. QED
        BY <2>4, <4>1, <4>2
    <3>2. took <= plan.requested + MaxLate + 0
      BY <1>2, <2>1
    <3>3. QED
      BY <1>0, <1>1, <2>1, <2>2, <2>8, <3>1, <3>2 DEF Limited
  <2>11. Told'
    BY <1>1, <1>3, <2>2 DEF Told, Reached, Concluded
  <2>12. Counted'
    BY <1>0, <1>1, <1>3, <2>2, <2>8 DEF Counted
  <2>13. Rising'
    BY <1>0, <1>1, <1>3, <2>2, <2>8 DEF Rising, Alive
  <2>14. QED
    BY <1>4, <2>9, <2>10, <2>11, <2>12, <2>13 DEF EInv
<1>6. CASE /\ run' = [run EXCEPT !.pc = "done", !.mode = mode, !.outcome = "not started"]
           /\ UNCHANGED engine
  <2>1. /\ run' \in RunType /\ run'.pc = "done" /\ run'.outcome = "not started"
        /\ run'.requested = run.requested /\ run'.time = run.time
    BY <1>2, <1>6 DEF RunType, RunPcs, RunModes, Outcomes
  <2>2. Typed'
    BY <1>0, <1>1, <1>6, <2>1 DEF Typed
  <2>3. Limited'
    <3>1. run.time <= run.requested + MaxLate + 0
      BY <1>0, <1>1 DEF Limited
    <3>2. run.time <= run.requested + MaxLate + 1
      BY <1>2, <3>1
    <3>3. QED
      BY <1>0, <1>1, <1>6, <2>1, <3>2 DEF Limited
  <2>4. Told'
    BY <1>1, <1>3, <2>1 DEF Told, Reached, Concluded
  <2>5. Counted'
    BY <1>0, <1>1, <1>3, <1>6, <2>1 DEF Counted
  <2>6. Rising'
    BY <1>0, <1>1, <1>3, <1>6, <2>1 DEF Rising
  <2>7. QED
    BY <1>4, <2>2, <2>3, <2>4, <2>5, <2>6 DEF EInv
<1>7. QED
  BY <1>5, <1>6 DEF StartEvidence

-----------------------------------------------------------------------------
(* The report.                                                             *)

\* A queue of four frames has grown before the eyes of the command.
LEMMA QueueGrew ==
  ASSUME Typed, NEW i \in DOMAIN file, file[i].depth >= 4,
         \A j \in DOMAIN file : file[j].whole /\ Grown(j)
  PROVE  GrowingQueue(file)
<1>0. DOMAIN file = 1..Len(file) /\ Len(file) \in Nat
  BY LenProperties DEF Typed
<1>1. \A j \in DOMAIN file : file[j].depth \in Nat
  BY CountsOf
<1>2. ASSUME NEW j \in DOMAIN file, file[j].depth # 0
      PROVE  /\ j - 1 \in DOMAIN file /\ file[j].event = "periodic"
             /\ file[j].depth = file[j - 1].depth + 1
  <2>1. j # 1 /\ file[j].event = "periodic" /\ file[j].depth = file[j - 1].depth + 1
    BY <1>2 DEF Grown
  <2>2. j - 1 \in DOMAIN file
    BY <1>0, <2>1
  <2>3. QED
    BY <2>1, <2>2
<1>3. PICK a \in DOMAIN file, b \in DOMAIN file, c \in DOMAIN file :
        /\ a = b - 1 /\ b = c - 1 /\ c = i - 1
        /\ file[i].depth = file[c].depth + 1 /\ file[c].depth = file[b].depth + 1
        /\ file[b].depth = file[a].depth + 1
        /\ file[i].event = "periodic" /\ file[c].event = "periodic"
        /\ file[b].event = "periodic" /\ file[a].event = "periodic"
  <2>1. /\ i - 1 \in DOMAIN file /\ file[i].event = "periodic"
        /\ file[i].depth = file[i - 1].depth + 1
    BY <1>1, <1>2
  <2>2. PICK c \in DOMAIN file : c = i - 1
    BY <2>1
  <2>3. file[c].depth >= 3
    BY <1>1, <2>1, <2>2
  <2>4. /\ c - 1 \in DOMAIN file /\ file[c].event = "periodic"
        /\ file[c].depth = file[c - 1].depth + 1
    BY <1>1, <1>2, <2>3
  <2>5. PICK b \in DOMAIN file : b = c - 1
    BY <2>4
  <2>6. file[b].depth >= 2
    BY <1>1, <2>3, <2>4, <2>5
  <2>7. /\ b - 1 \in DOMAIN file /\ file[b].event = "periodic"
        /\ file[b].depth = file[b - 1].depth + 1
    BY <1>1, <1>2, <2>6
  <2>8. PICK a \in DOMAIN file : a = b - 1
    BY <2>7
  <2>9. file[a].depth >= 1
    BY <1>1, <2>6, <2>7, <2>8
  <2>10. file[a].event = "periodic"
    BY <1>1, <1>2, <2>9
  <2>11. QED
    BY <2>1, <2>2, <2>4, <2>5, <2>7, <2>8, <2>10
<1> DEFINE Periodic == {j \in DOMAIN file : file[j].event = "periodic"}
           Rises(j, k) == /\ j < k /\ Periodic \intersect (j + 1)..(k - 1) = {}
                          /\ file[j].depth < file[k].depth
<1>4. ASSUME NEW j \in DOMAIN file, NEW k \in DOMAIN file, j = k - 1,
             file[k].depth = file[j].depth + 1
      PROVE  Rises(j, k)
  <2>1. j \in Int /\ k \in Int
    BY <1>0
  <2>2. j < k /\ (j + 1)..(k - 1) = {}
    BY <1>4, <2>1
  <2>3. file[j].depth < file[k].depth
    BY <1>1, <1>4
  <2>4. QED
    BY <2>2, <2>3
<1>5. /\ a \in Periodic /\ b \in Periodic /\ c \in Periodic /\ i \in Periodic
      /\ Rises(a, b) /\ Rises(b, c) /\ Rises(c, i)
  <2>1. a \in Periodic /\ b \in Periodic /\ c \in Periodic /\ i \in Periodic
    BY <1>3
  <2> HIDE DEF Periodic, Rises
  <2>2. QED
    BY <1>3, <1>4, <2>1
<1>6. \E p \in Periodic : \E q \in Periodic :
        Rises(p, q) /\ \E r \in Periodic : Rises(q, r) /\ \E s \in Periodic : Rises(r, s)
  <2> HIDE DEF Periodic, Rises
  <2>1. QED
    BY <1>5
<1>7. QED
  BY <1>6 DEF GrowingQueue

\* A file that parses is that of a run which has come to its verdict.
LEMMA ParsesConcluded ==
  ASSUME Typed, Limited, Told
  PROVE  Parses(file) <=> Concluded /\ run.mode = "realtime-aec"
<1>0. /\ DOMAIN file = 1..Len(file) /\ Len(file) \in Nat /\ \A i \in DOMAIN file : LineTold(i)
      /\ \A i \in DOMAIN file : file[i].schema \in 2..CurrentSchema
      /\ run.schema \in 2..CurrentSchema
  BY LenProperties, CountsOf DEF Typed, Told, LineType, RunType
<1>1. ASSUME Parses(file)
      PROVE  Concluded /\ run.mode = "realtime-aec"
  <2>1. /\ Len(file) >= 2 /\ \A i \in DOMAIN file : Terminal(file[i]) <=> i = Len(file)
        /\ \A i \in DOMAIN file : file[i].described
    BY <1>1 DEF Parses, Framed, OneRun
  <2>2. Len(file) \in DOMAIN file
    BY <1>0, <2>1
  <2>3. QED
    BY <1>0, <2>1, <2>2 DEF LineTold
<1>2. ASSUME Concluded, run.mode = "realtime-aec"
      PROVE  Parses(file)
  <2>1. Len(file) >= 2 /\ run.requested # 0 /\ run.outcome # "cut short"
    BY <1>2 DEF Told, Reached, Limited, Concluded
  <2>2. \A i \in DOMAIN file : file[i].whole
    BY <1>0, <2>1 DEF LineTold
  <2>3. Readable(file)
    BY <1>0, <2>2 DEF Readable, CurrentSchema
  <2>4. 1 \in DOMAIN file
    <3>1. DOMAIN file = 1..Len(file) /\ Len(file) \in Nat
      BY <1>0
    <3>2. Len(file) >= 2
      BY <2>1
    <3>3. QED
      BY <3>1, <3>2
  <2>5. Framed(file)
    <3>1. file[1].event = "started"
      BY <1>0, <2>2, <2>4 DEF LineTold
    <3>2. \A i \in DOMAIN file : Terminal(file[i]) <=> i = Len(file)
      BY <1>0, <1>2 DEF LineTold
    <3>3. QED
      BY <2>1, <3>1, <3>2 DEF Framed
  <2>6. OneRun(file)
    <3>1. \A i \in DOMAIN file : file[i].schema = file[1].schema /\ file[i].described
      BY <1>0, <1>2, <2>4 DEF LineTold
    <3>2. \A i \in 2..Len(file) : file[i - 1].time <= file[i].time
      <4>1. TAKE i \in 2..Len(file)
      <4>2. i \in DOMAIN file /\ i > 1
        BY <1>0
      <4>3. QED
        BY <1>0, <4>2 DEF LineTold
    <3>3. ASSUME Authoritative(file)
          PROVE  /\ file[1].requested # 0
                 /\ \A i \in DOMAIN file : file[i].requested = file[1].requested
      <4>1. run.schema = CurrentSchema
        BY <1>0, <2>4, <3>3 DEF Authoritative, LineTold
      <4>2. \A i \in DOMAIN file : file[i].requested = run.requested
        BY <1>0, <4>1 DEF LineTold
      <4>3. QED
        BY <2>1, <2>4, <4>2
    <3>4. QED
      BY <3>1, <3>2, <3>3 DEF OneRun
  <2>7. QED
    BY <2>3, <2>5, <2>6 DEF Parses
<1>3. QED
  BY <1>1, <1>2

\* What the report says of its verdicts.
LEMMA ReportFields ==
  ASSUME NEW measures, NEW trend, NEW operator, NEW r,
         r = Report(file, measures, trend, operator)
  PROVE  /\ r.status = "written"
         /\ r.drift = ClassifyDrift(file, GateReady(file), measures, trend)
         /\ r.functional = ClassifyFunctional(file, operator)
         /\ r.accepted <=>
              /\ Requested(file) >= MinGateDuration
              /\ ClassifyDrift(file, GateReady(file), measures, trend) = "sufficient"
              /\ ClassifyFunctional(file, operator) = "passed"
         /\ r.operator = operator /\ r.windows = ClockWindows(file)
BY DEF Report

\* What a positive verdict rests on.
LEMMA SufficientNeeds ==
  ASSUME NEW ready, NEW measures, NEW trend,
         ClassifyDrift(file, ready, measures, trend) = "sufficient"
  PROVE  ready
BY DEF ClassifyDrift

LEMMA DriftVerdicts ==
  ASSUME NEW ready, NEW measures, NEW trend
  PROVE  ClassifyDrift(file, ready, measures, trend)
           \in {"inconclusive", "compensation required", "sufficient"}
BY DEF ClassifyDrift

LEMMA PassedNeeds ==
  ASSUME NEW operator, ClassifyFunctional(file, operator) = "passed"
  PROVE  /\ ~EndedBadly(file) /\ ~Unexplained(file, operator) /\ ~Inexcusable(file)
         /\ ~Objects(operator) /\ operator.given
BY DEF ClassifyFunctional

LEMMA ReportKeeps ==
  ASSUME EInv, MakeReport
  PROVE  EInv'
<1>0. Typed /\ Limited /\ Told /\ Counted /\ Rising /\ Judged
  BY DEF EInv
<1>1. Parses(file) /\ UNCHANGED <<run, engine, file, history>>
  BY DEF MakeReport
<1>2. Concluded /\ run.mode = "realtime-aec"
  BY <1>0, <1>1, ParsesConcluded
<1>3. PICK operator, measures, trend : report' = Report(file, measures, trend, operator)
  BY DEF MakeReport
<1> DEFINE drift == ClassifyDrift(file, GateReady(file), measures, trend)
<1>5. /\ report'.status = "written" /\ report'.drift = drift
      /\ report'.functional = ClassifyFunctional(file, operator)
      /\ report'.accepted <=> /\ Requested(file) >= MinGateDuration
                              /\ drift = "sufficient"
                              /\ ClassifyFunctional(file, operator) = "passed"
      /\ report'.operator = operator
  BY <1>3, ReportFields
<1>6. drift \in {"inconclusive", "compensation required", "sufficient"}
  BY DriftVerdicts
<1>7. ClassifyFunctional(file, operator) \in {"failed", "inconclusive", "passed"}
  BY DEF ClassifyFunctional
<1>8. run.pc = "done"
  BY <1>0, <1>2 DEF Told, Reached, Concluded
<1>9. ASSUME report'.accepted
      PROVE  /\ run.schema = CurrentSchema /\ run.outcome = "completed"
             /\ run.requested >= MinGateDuration /\ run.time >= run.requested
             /\ ~history.failed
             /\ history.troubles \intersect Intolerable = {}
             /\ history.troubles \intersect Explainable \subseteq operator.explained
             /\ operator.confirmed
             /\ history.deepest < 4
  <2>1. /\ GateReady(file) /\ Requested(file) >= MinGateDuration
        /\ ~EndedBadly(file) /\ ~Unexplained(file, operator) /\ ~Inexcusable(file)
        /\ ~Objects(operator) /\ operator.given
    BY <1>5, <1>9, SufficientNeeds, PassedNeeds
  <2>2. /\ file # <<>> /\ 1 \in DOMAIN file /\ Len(file) \in DOMAIN file
        /\ Last(file) = file[Len(file)]
    <3>1. Len(file) >= 2
      BY <1>0, <1>2 DEF Told, Reached
    <3>2. file # <<>>
      BY <1>0, <3>1, EmptySeq
    <3>3. QED
      BY <1>0, <3>2, CountsOf DEF Last
  <2>3. Authoritative(file) /\ Observed(file) >= Requested(file)
    BY <2>1 DEF GateReady
  <2>4. LineTold(1)
    BY <1>0, <2>2 DEF Told
  <2>5. run.schema = CurrentSchema /\ Requested(file) = run.requested
    BY <2>3, <2>4 DEF LineTold, Authoritative, Requested
  <2>6. run.outcome = "completed"
    BY <1>0, <1>2, <2>1, <2>2 DEF Concluded, Counted, EndedBadly
  <2>7. /\ Last(file).count = engine.count /\ Last(file).error = engine.error
        /\ Last(file).time = run.time
    BY <1>0, <2>2, <2>6 DEF Counted
  <2>8. ~history.failed
    BY <1>0, <2>1, <2>7 DEF EndedBadly, Counted
  <2>9. ASSUME NEW kind \in CounterKinds, kind \in history.troubles
        PROVE  Increase(file, kind) > 0
    <3>1. file[1].count[kind] < engine.count[kind]
      BY <1>0, <2>2, <2>9 DEF Counted
    <3>2. file[1].count[kind] \in Nat /\ engine.count[kind] \in Nat
      BY <1>0, <2>2, <2>9, CountsOf
    <3>3. Increase(file, kind) = engine.count[kind] - file[1].count[kind]
      BY <2>7 DEF Increase
    <3>4. QED
      BY <3>1, <3>2, <3>3
  <2>10. history.troubles \intersect Intolerable = {}
    BY <2>1, <2>9 DEF Inexcusable, CounterKinds
  <2>11. history.troubles \intersect Explainable \subseteq operator.explained
    BY <2>1, <2>9 DEF Unexplained, CounterKinds
  <2>12. operator.confirmed
    BY <2>1 DEF Objects
  <2>13. history.deepest < 4
    <3>1. SUFFICES ASSUME history.deepest >= 4
                   PROVE  FALSE
      BY <1>0, CountsOf
    <3>2. PICK i \in DOMAIN file : file[i].depth = history.deepest
      BY <1>0, <1>8, <2>6, <2>8, <3>1 DEF Rising
    <3>3. \A j \in DOMAIN file : file[j].whole /\ Grown(j)
      BY <1>0, <2>6, <2>8 DEF Rising, Told, LineTold
    <3>4. GrowingQueue(file)
      BY <1>0, <3>1, <3>2, <3>3, QueueGrew
    <3>5. QED
      BY <2>1, <3>4 DEF Inexcusable
  <2>14. run.requested >= MinGateDuration /\ run.time >= run.requested
    BY <2>1, <2>3, <2>5, <2>7 DEF Observed
  <2>15. QED
    BY <2>5, <2>6, <2>8, <2>10, <2>11, <2>12, <2>13, <2>14
<1>10. AcceptedIsEarned'
  BY <1>1, <1>5, <1>9 DEF AcceptedIsEarned
<1>11. Judged'
  BY <1>1, <1>5, <1>6, <1>7, <1>8, <1>10 DEF Judged
<1>12. (Typed /\ Limited /\ Told /\ Counted /\ Rising)'
  <2>1. Typed' /\ Limited'
    BY <1>0, <1>1 DEF Typed, Limited
  <2>2. Told'
    BY <1>0, <1>1 DEF Told, Reached, LineTold, Concluded
  <2>3. Counted'
    BY <1>0, <1>1 DEF Counted
  <2>4. Rising'
    BY <1>0, <1>1 DEF Rising, Grown, Alive
  <2>5. QED
    BY <2>1, <2>2, <2>3, <2>4
<1>13. QED
  BY <1>11, <1>12 DEF EInv

-----------------------------------------------------------------------------
(* The evidence commands: their theorems.                                  *)

\* The other commands leave all this alone.
LEMMA EvidenceStutters ==
  ASSUME EInv, UNCHANGED evidenceVars
  PROVE  EInv'
<1>0. /\ Typed /\ Limited /\ Told /\ Counted /\ Rising /\ Judged
      /\ UNCHANGED <<run, engine, file, report, history>>
  BY DEF EInv, evidenceVars
<1>1. Typed' /\ Limited'
  BY <1>0 DEF Typed, Limited
<1>2. Told'
  BY <1>0 DEF Told, Reached, LineTold, Concluded
<1>3. Counted'
  BY <1>0 DEF Counted
<1>4. Rising'
  BY <1>0 DEF Rising, Grown, Alive
<1>5. Judged'
  BY <1>0 DEF Judged, AcceptedIsEarned
<1>6. QED
  BY <1>1, <1>2, <1>3, <1>4, <1>5 DEF EInv

LEMMA InitE ==
  ASSUME Init
  PROVE  EInv
<1>1. EvidenceInit
  BY DEF Init
<1>2. /\ run = [pc |-> "idle", mode |-> "none", schema |-> CurrentSchema, requested |-> 0,
               time |-> 0, outcome |-> "none"]
      /\ engine = [state |-> "stopped", error |-> "none", microphone |-> 0, render |-> 0,
                  frames |-> 0, depth |-> 0, slow |-> FALSE, count |-> NoCounts]
      /\ file = <<>> /\ report = NoReport
      /\ history = [disturbances |-> 0, troubles |-> {}, cuts |-> {}, deepest |-> 0,
                    failed |-> FALSE]
  BY <1>1 DEF EvidenceInit
<1>3. NoCounts \in Counts /\ \A k \in CounterKinds : NoCounts[k] = 0
  BY DEF NoCounts, Counts
<1>4. MaxLate \in Nat /\ MaxDisturbances \in Nat
  BY EvidenceAssumption
<1>5. Typed
  <2>1. run \in RunType
    BY <1>2 DEF RunType, RunPcs, RunModes, Outcomes, CurrentSchema
  <2>2. engine \in EngineType
    BY <1>2, <1>3 DEF EngineType, EngineStates, LastErrors
  <2>3. history \in HistoryType
    BY <1>2 DEF HistoryType
  <2>4. file \in Seq(LineType)
    BY <1>2, EmptySeq
  <2>5. QED
    BY <2>1, <2>2, <2>3, <2>4 DEF Typed
<1>6. Limited
  BY <1>2, <1>3, <1>4 DEF Limited
<1>7. Told
  BY <1>2, EmptySeq DEF Told, Reached, Concluded
<1>8. Counted
  BY <1>2 DEF Counted
<1>9. Rising
  BY <1>2, EmptySeq DEF Rising
<1>10. Judged
  BY <1>2 DEF Judged, AcceptedIsEarned, NoReport
<1>11. QED
  BY <1>5, <1>6, <1>7, <1>8, <1>9, <1>10 DEF EInv

LEMMA NextE ==
  ASSUME EInv, [Next]_labVars
  PROVE  EInv'
<1>1. CASE Dispatch
  <2>1. CASE UNCHANGED evidenceVars
    BY <2>1, EvidenceStutters
  <2>2. ASSUME NEW mode \in {"bypass", "realtime-aec"}, StartEvidence(mode)
        PROVE  EInv'
    BY <2>2, StartKeeps
  <2>3. CASE MakeReport
    BY <2>3, ReportKeeps
  <2>4. QED
    BY <1>1, <2>1, <2>2, <2>3 DEF Dispatch
<1>2. CASE CaptureSteps
  BY <1>2, EvidenceStutters DEF CaptureSteps
<1>3. CASE EvidenceSteps
  <2>1. CASE WriteStarted
    BY <2>1, StartedKeeps
  <2>2. CASE WakeUp
    BY <2>2, WakeUpKeeps
  <2>3. CASE CheckEngine
    BY <2>3, CheckKeeps
  <2>4. CASE WritePeriodic
    BY <2>4, PeriodicKeeps
  <2>5. CASE WriteFailed \/ WriteFinal
    BY <2>5, TerminalKeeps
  <2>6. CASE StopRun
    BY <2>6, StopKeeps
  <2>7. CASE CutShort
    BY <2>7, CutKeeps
  <2>8. CASE EngineFails
    BY <2>8, FailureKeeps
  <2>9. QED
    BY <1>3, <2>1, <2>2, <2>3, <2>4, <2>5, <2>6, <2>7, <2>8 DEF EvidenceSteps, RunNext
<1>4. CASE UNCHANGED labVars
  BY <1>4, EvidenceStutters DEF labVars
<1>5. QED
  BY <1>1, <1>2, <1>3, <1>4 DEF Next

\* The report accepts a file exactly when the command that writes it has come to its
\* verdict (run_engine, parse_evidence).
THEOREM ConcludedCorrect == Spec => []ReportedIffConcluded
<1>1. EInv => ReportedIffConcluded
  BY ParsesConcluded DEF EInv, ReportedIffConcluded, Concluded
<1>2. QED
  BY <1>1, InitE, NextE, PTL DEF Spec

\* Whatever befalls the engine, a positive report is of a full run without a failure
\* and with no trouble that is not accounted for (classify_functional, analyze).
THEOREM AcceptedCorrect == Spec => []AcceptedIsEarned
<1>1. EInv => AcceptedIsEarned
  BY DEF EInv, Judged
<1>2. QED
  BY <1>1, InitE, NextE, PTL DEF Spec

-----------------------------------------------------------------------------
(* The clock windows.                                                      *)

\* A recursive function that goes forward, from each place to a later one.
Forward(f, n, stop, a, next) ==
  f = [i \in 1..n |-> IF i \in stop THEN <<>> ELSE a[i] \o f[next[i]]]

LEMMA ForwardExists ==
  ASSUME NEW n \in Nat, NEW stop, NEW a, NEW next,
         \A i \in (1..n) \ stop : next[i] \in (i + 1)..n
  PROVE  \E f : Forward(f, n, stop, a, next)
<1> DEFINE at(g, i) == IF i \in stop THEN <<>> ELSE a[i] \o g[next[i]]
           holds(g, m) == \A i \in (1..n) : i > n - m => g[i] = at(g, i)
           T == {m \in 0..n : ~\E g : holds(g, m)}
<1>1. T = {}
  <2>1. SUFFICES ASSUME T # {}
                 PROVE  FALSE
    OBVIOUS
  <2>2. T \subseteq Nat
    OBVIOUS
  <2>3. PICK m \in T : \A k \in T : m <= k
    BY <2>1, <2>2, LeastNat
  <2>4. m # 0
    <3>1. holds(<<>>, 0)
      OBVIOUS
    <3>2. QED
      BY <3>1
  <2>5. m - 1 \in 0..n /\ m - 1 \notin T
    <3> HIDE DEF T
    <3>1. m \in 0..n
      BY DEF T
    <3>2. m - 1 \in 0..n /\ ~(m <= m - 1)
      BY <2>4, <3>1
    <3>3. QED
      BY <2>3, <3>2
  <2>6. PICK g : holds(g, m - 1)
    BY <2>5
  <2>7. PICK p \in 1..n : p = n - m + 1
    BY <2>4
  <2> DEFINE h == [i \in 1..n |-> IF i = p THEN at(g, p) ELSE g[i]]
  <2>8. holds(h, m)
    <3>1. SUFFICES ASSUME NEW i \in 1..n, i > n - m
                   PROVE  h[i] = at(h, i)
      OBVIOUS
    <3>2. i >= p
      BY <2>7, <3>1
    <3>3. i \notin stop => next[i] \in 1..n /\ next[i] # p
      BY <3>2
    <3>4. at(h, i) = at(g, i)
      BY <3>3
    <3>5. CASE i = p
      BY <3>4, <3>5
    <3>6. CASE i # p
      <4>1. i > n - (m - 1)
        BY <2>7, <3>2, <3>6
      <4>2. g[i] = at(g, i)
        BY <2>6, <4>1
      <4>3. QED
        BY <3>4, <3>6, <4>2
    <3>7. QED
      BY <3>5, <3>6
  <2>9. QED
    BY <2>8
<1>2. PICK g : holds(g, n)
  <2>1. n \in 0..n
    OBVIOUS
  <2>2. QED
    BY <1>1, <2>1
<1> DEFINE f == [i \in 1..n |-> g[i]]
<1>3. ASSUME NEW i \in 1..n
      PROVE  f[i] = at(f, i)
  <2>1. i > n - n
    OBVIOUS
  <2>2. g[i] = at(g, i)
    BY <1>2, <2>1
  <2>3. i \notin stop => next[i] \in 1..n
    OBVIOUS
  <2>4. at(f, i) = at(g, i)
    BY <2>3
  <2>5. QED
    BY <2>2, <2>4
<1>4. f = [i \in 1..n |-> at(f, i)]
  <2>1. f = [i \in 1..n |-> f[i]]
    OBVIOUS
  <2> HIDE DEF f
  <2>2. QED
    BY <1>3, <2>1
<1>5. Forward(f, n, stop, a, next)
  <2> HIDE DEF f
  <2>1. QED
    BY <1>4 DEF Forward
<1>6. QED
  BY <1>5

\* What it joins are sequences of the members of its parts.
LEMMA ForwardType ==
  ASSUME NEW W, NEW n \in Nat, NEW stop, NEW a, NEW next, NEW f,
         \A i \in (1..n) \ stop : next[i] \in (i + 1)..n,
         \A i \in 1..n : a[i] \in Seq(W),
         Forward(f, n, stop, a, next)
  PROVE  \A i \in 1..n : f[i] \in Seq(W)
<1> DEFINE T == {m \in 0..n : m # n /\ f[n - m] \notin Seq(W)}
<1>1. T = {}
  <2>1. SUFFICES ASSUME T # {}
                 PROVE  FALSE
    OBVIOUS
  <2>2. T \subseteq Nat
    OBVIOUS
  <2>3. PICK m \in T : \A k \in T : m <= k
    BY <2>1, <2>2, LeastNat
  <2>4. PICK i \in 1..n : i = n - m
    OBVIOUS
  <2>5. f[i] = IF i \in stop THEN <<>> ELSE a[i] \o f[next[i]]
    BY DEF Forward
  <2>6. i \in stop => f[i] \in Seq(W)
    BY <2>5, EmptySeq
  <2>7. ASSUME i \notin stop
        PROVE  f[i] \in Seq(W)
    <3>1. PICK j \in (i + 1)..n : j = next[i]
      BY <2>7
    <3>2. n - j \in 0..n /\ n - j # n /\ n - (n - j) = j /\ ~(m <= n - j)
      BY <2>4, <3>1
    <3>3. n - j \notin T
      BY <2>3, <3>2
    <3>4. f[j] \in Seq(W)
      BY <3>2, <3>3
    <3>5. f[i] = a[i] \o f[j]
      BY <2>5, <2>7, <3>1
    <3>6. QED
      BY <3>4, <3>5, ConcatProperties
  <2>8. QED
    BY <2>4, <2>6, <2>7
<1>2. TAKE i \in 1..n
<1>3. n - i \in 0..n /\ n - i # n /\ n - (n - i) = i
  OBVIOUS
<1>4. QED
  BY <1>1, <1>3

LEMMA FlattenType ==
  ASSUME NEW W, NEW ss \in Seq(Seq(W))
  PROVE  FlattenSeq(ss) \in Seq(W)
<1>1. CASE ss = <<>>
  BY <1>1, EmptySeq DEF FlattenSeq
<1>2. CASE ss # <<>>
  <2>1. PICK n \in Nat : n = Len(ss)
    BY LenProperties
  <2>2. n # 0 /\ \A i \in 1..n : ss[i] \in Seq(W)
    BY <1>2, <2>1, LenProperties, EmptySeq
  <2>3. PICK g : Joins(g, ss, n) /\ FlattenSeq(ss) = g[n]
    BY <1>2, <2>1, FlattenIsJoin
  <2> DEFINE T == {i \in 1..n : g[i] \notin Seq(W)}
  <2>4. T = {}
    <3>1. SUFFICES ASSUME T # {}
                   PROVE  FALSE
      OBVIOUS
    <3>2. T \subseteq Nat
      OBVIOUS
    <3>3. PICK i \in T : \A k \in T : i <= k
      BY <3>1, <3>2, LeastNat
    <3>4. g[i] = IF i = 1 THEN ss[i] ELSE g[i - 1] \o ss[i]
      BY <2>3 DEF Joins
    <3>5. CASE i = 1
      BY <2>2, <3>4, <3>5
    <3>6. CASE i # 1
      <4>1. i - 1 \in 1..n /\ ~(i <= i - 1)
        BY <3>6
      <4>2. g[i - 1] \in Seq(W)
        BY <3>3, <4>1
      <4>3. QED
        BY <2>2, <3>4, <3>6, <4>2, ConcatProperties
    <3>7. QED
      BY <3>5, <3>6
  <2>5. n \in 1..n
    BY <2>2
  <2>6. QED
    BY <2>3, <2>4, <2>5
<1>3. QED
  BY <1>1, <1>2

\* s are the lines of the file that come before place i or at it, without a boundary.
Stretches(lines, s, i) ==
  \E a \in Nat :
    /\ a + Len(s) = i
    /\ \A k \in 1..Len(s) : s[k] = lines[a + k]
    /\ \A k \in 2..Len(s) : ~Boundary(s[k - 1], s[k])

IsPiece(lines, s) == s # <<>> /\ \E i \in 0..Len(lines) : Stretches(lines, s, i)

\* What has been split off, and what has not, after the lines up to i.
SplitAt(lines, S, split, i) ==
  /\ split \in [segments : Seq(Seq(S)), current : Seq(S)]
  /\ \A k \in DOMAIN split.segments : IsPiece(lines, split.segments[k])
  /\ split.current = <<>> \/ Stretches(lines, split.current, i)

LEMMA ClosedSplit ==
  ASSUME NEW S, NEW lines \in Seq(S), NEW split, NEW i \in 0..Len(lines), NEW j,
         SplitAt(lines, S, split, i)
  PROVE  SplitAt(lines, S, Closed(split), j) /\ Closed(split).current = <<>>
<1>1. split.segments \in Seq(Seq(S)) /\ split.current \in Seq(S)
  BY DEF SplitAt
<1>2. Closed(split).current = <<>> /\ <<>> \in Seq(S)
  BY EmptySeq DEF Closed
<1>3. CASE Len(split.current) >= 2
  <2>1. PICK t : t = Append(split.segments, split.current)
    OBVIOUS
  <2>2. PICK m \in Nat : m = Len(split.segments) /\ DOMAIN split.segments = 1..m
    BY <1>1, LenProperties
  <2>3. /\ t \in Seq(Seq(S)) /\ Len(t) = m + 1
        /\ \A k \in 1..m : t[k] = split.segments[k]
        /\ t[m + 1] = split.current
    BY <1>1, <2>1, <2>2, AppendProperties
  <2>4. DOMAIN t = 1..(m + 1)
    BY <2>3, LenProperties
  <2>5. Closed(split) = [segments |-> t, current |-> <<>>]
    BY <1>3, <2>1 DEF Closed
  <2>6. split.current # <<>>
    BY <1>3, EmptySeq
  <2>7. IsPiece(lines, split.current)
    BY <2>6 DEF SplitAt, IsPiece
  <2>8. ASSUME NEW k \in 1..(m + 1)
        PROVE  IsPiece(lines, t[k])
    <3>1. k \in 1..m \/ k = m + 1
      OBVIOUS
    <3>2. \A l \in 1..m : IsPiece(lines, split.segments[l])
      BY <2>2 DEF SplitAt
    <3>3. QED
      BY <2>3, <2>7, <3>1, <3>2
  <2>9. QED
    BY <1>2, <2>3, <2>4, <2>5, <2>8 DEF SplitAt
<1>4. CASE ~(Len(split.current) >= 2)
  <2>1. Closed(split) = [segments |-> split.segments, current |-> <<>>]
    BY <1>4 DEF Closed
  <2>2. QED
    BY <1>1, <1>2, <2>1 DEF SplitAt
<1>5. QED
  BY <1>3, <1>4

\* One line more.
LEMMA StretchMore ==
  ASSUME NEW S, NEW lines \in Seq(S), NEW i \in DOMAIN lines, NEW s \in Seq(S),
         s = <<>> \/ (Stretches(lines, s, i - 1) /\ ~Boundary(Last(s), lines[i]))
  PROVE  Append(s, lines[i]) \in Seq(S) /\ Stretches(lines, Append(s, lines[i]), i)
<1>1. PICK c \in Nat : c = Len(s)
  BY LenProperties
<1>2. i \in Nat /\ i >= 1 /\ lines[i] \in S
  BY LenProperties
<1>3. PICK t : t = Append(s, lines[i])
  OBVIOUS
<1>4. /\ t \in Seq(S) /\ Len(t) = c + 1 /\ t[c + 1] = lines[i]
      /\ \A k \in 1..c : t[k] = s[k]
  BY <1>1, <1>2, <1>3, AppendProperties
<1>5. PICK a \in Nat :
        /\ a + c = i - 1
        /\ \A k \in 1..c : s[k] = lines[a + k]
        /\ \A k \in 2..c : ~Boundary(s[k - 1], s[k])
        /\ c # 0 => ~Boundary(s[c], lines[i])
  <2>1. CASE s = <<>>
    <3>1. c = 0 /\ i - 1 \in Nat
      BY <1>1, <1>2, <2>1, EmptySeq
    <3>2. QED
      BY <3>1
  <2>2. CASE Stretches(lines, s, i - 1) /\ ~Boundary(Last(s), lines[i])
    BY <1>1, <2>2 DEF Stretches, Last
  <2>3. QED
    BY <2>1, <2>2
<1>6. a + (c + 1) = i
  <2>1. a + c = i - 1 /\ i \in Nat
    BY <1>2, <1>5
  <2>2. QED
    BY <2>1
<1>7. ASSUME NEW k \in 1..(c + 1)
      PROVE  t[k] = lines[a + k]
  <2>1. k \in 1..c \/ (k = c + 1 /\ a + k = i)
    BY <1>6
  <2>2. QED
    BY <1>4, <1>5, <2>1
<1>8. ASSUME NEW k \in 2..(c + 1)
      PROVE  ~Boundary(t[k - 1], t[k])
  <2>1. CASE k = c + 1
    <3>1. k - 1 = c /\ c \in 1..c /\ c # 0
      BY <2>1
    <3>2. t[k - 1] = s[c] /\ t[k] = lines[i]
      BY <1>4, <2>1, <3>1
    <3>3. QED
      BY <1>5, <3>1, <3>2
  <2>2. CASE k # c + 1
    <3>1. k \in 2..c /\ k - 1 \in 1..c /\ k \in 1..c
      BY <2>2
    <3>2. QED
      BY <1>4, <1>5, <3>1
  <2>3. QED
    BY <2>1, <2>2
<1>9. Stretches(lines, t, i)
  BY <1>4, <1>5, <1>6, <1>7, <1>8 DEF Stretches
<1>10. QED
  BY <1>3, <1>4, <1>9

LEMMA ObserveSplit ==
  ASSUME NEW S, NEW lines \in Seq(S), NEW split, NEW i \in DOMAIN lines,
         SplitAt(lines, S, split, i - 1)
  PROVE  SplitAt(lines, S, Observe(split, lines[i]), i)
<1>1. i - 1 \in 0..Len(lines)
  BY LenProperties
<1>2. SplitAt(lines, S, Closed(split), i) /\ SplitAt(lines, S, Closed(split), i - 1)
      /\ Closed(split).current = <<>>
  BY <1>1, ClosedSplit
<1>3. CASE ~Observable(lines[i])
  BY <1>2, <1>3 DEF Observe
<1>4. CASE Observable(lines[i])
  <2> DEFINE cut == split.current # <<>> /\ Boundary(Last(split.current), lines[i])
  <2>1. PICK s : s = IF cut THEN Closed(split) ELSE split
    OBVIOUS
  <2>2. /\ SplitAt(lines, S, s, i - 1)
        /\ s.current = <<>> \/ ~Boundary(Last(s.current), lines[i])
    BY <1>2, <2>1
  <2>3. PICK t : t = Append(s.current, lines[i])
    OBVIOUS
  <2>4. /\ s \in [segments : Seq(Seq(S)), current : Seq(S)] /\ s.current \in Seq(S)
        /\ \A k \in DOMAIN s.segments : IsPiece(lines, s.segments[k])
    BY <2>2 DEF SplitAt
  <2>5. t \in Seq(S) /\ Stretches(lines, t, i)
    <3>1. s.current = <<>> \/ Stretches(lines, s.current, i - 1)
      BY <2>2 DEF SplitAt
    <3>2. QED
      BY <2>2, <2>3, <2>4, <3>1, StretchMore
  <2>6. Observe(split, lines[i]) = [s EXCEPT !.current = Append(s.current, lines[i])]
    BY <1>4, <2>1 DEF Observe
  <2>7. Observe(split, lines[i]) = [segments |-> s.segments, current |-> t]
    BY <2>3, <2>4, <2>6
  <2>8. QED
    BY <2>4, <2>5, <2>7 DEF SplitAt
<1>5. QED
  BY <1>3, <1>4

\* The function of clean_segments.
Splits(f, lines, n) ==
  LET scored == {i \in DOMAIN lines : lines[i].event \in {"periodic", "final"}}
  IN f = [i \in 0..n |->
            IF i = 0 THEN [segments |-> <<>>, current |-> <<>>]
            ELSE IF i \in scored THEN Observe(f[i - 1], lines[i]) ELSE f[i - 1]]

LEMMA SplitsExist ==
  ASSUME NEW lines, NEW n \in Nat
  PROVE  \E f : Splits(f, lines, n)
<1> DEFINE scored == {i \in DOMAIN lines : lines[i].event \in {"periodic", "final"}}
           at(g, i) == IF i = 0 THEN [segments |-> <<>>, current |-> <<>>]
                       ELSE IF i \in scored THEN Observe(g[i - 1], lines[i]) ELSE g[i - 1]
           T == {m \in Nat : ~\E f : Splits(f, lines, m)}
<1>1. SUFFICES ASSUME T # {}
               PROVE  FALSE
  OBVIOUS
<1>2. PICK m \in T : \A k \in T : m <= k
  <2>1. T \subseteq Nat
    OBVIOUS
  <2>2. QED
    BY <1>1, <2>1, LeastNat
<1>3. m \in Nat /\ ~\E f : Splits(f, lines, m)
  OBVIOUS
<1>4. PICK g : \A i \in 0..(m - 1) : g[i] = at(g, i)
  <2>1. CASE m = 0
    BY <2>1
  <2>2. CASE m # 0
    <3>1. m - 1 \in Nat /\ ~(m <= m - 1)
      BY <1>3, <2>2
    <3>2. m - 1 \notin T
      BY <1>2, <3>1
    <3>3. PICK g : Splits(g, lines, m - 1)
      BY <3>1, <3>2
    <3> HIDE DEF at
    <3>4. g = [i \in 0..(m - 1) |-> at(g, i)]
      BY <3>3 DEF Splits, at
    <3>5. QED
      BY <3>4
  <2>3. QED
    BY <2>1, <2>2
<1> DEFINE h == [i \in 0..m |-> IF i = m THEN at(g, m) ELSE g[i]]
<1>5. ASSUME NEW i \in 0..m
      PROVE  h[i] = at(h, i)
  <2>1. i # 0 => i - 1 \in 0..m /\ i - 1 # m
    BY <1>3
  <2>2. i # 0 => h[i - 1] = g[i - 1]
    BY <2>1
  <2>3. at(h, i) = at(g, i)
    BY <2>2
  <2>4. CASE i = m
    BY <2>3, <2>4
  <2>5. CASE i # m
    <3>1. i \in 0..(m - 1)
      BY <1>3, <2>5
    <3>2. QED
      BY <1>4, <2>3, <2>5, <3>1
  <2>6. QED
    BY <2>4, <2>5
<1>6. h = [i \in 0..m |-> at(h, i)]
  <2>1. h = [i \in 0..m |-> h[i]]
    OBVIOUS
  <2> HIDE DEF h
  <2>2. QED
    BY <1>5, <2>1
<1>7. Splits(h, lines, m)
  <2> HIDE DEF h
  <2>1. QED
    BY <1>6 DEF Splits
<1>8. QED
  BY <1>3, <1>7

\* The segments of a file of which all lines but the first and the last are scored.
LEMMA SegmentsArePieces ==
  ASSUME NEW S, NEW lines \in Seq(S), lines # <<>>,
         \A i \in DOMAIN lines :
           i # 1 /\ i # Len(lines) => lines[i].event \in {"periodic", "final"}
  PROVE  /\ CleanSegments(lines) \in Seq(Seq(S))
         /\ \A k \in DOMAIN CleanSegments(lines) : IsPiece(lines, CleanSegments(lines)[k])
<1>1. PICK n \in Nat : n = Len(lines) /\ DOMAIN lines = 1..n
  BY LenProperties
<1>2. n # 0 /\ n - 1 \in Nat
  BY <1>1, EmptySeq
<1> DEFINE scored == {i \in DOMAIN lines : lines[i].event \in {"periodic", "final"}}
           f == CHOOSE f : f = [i \in 0..n |->
                  IF i = 0 THEN [segments |-> <<>>, current |-> <<>>]
                  ELSE IF i \in scored THEN Observe(f[i - 1], lines[i]) ELSE f[i - 1]]
<1>3. Splits(f, lines, n)
  <2>1. \E g : Splits(g, lines, n)
    BY SplitsExist
  <2>2. QED
    BY <2>1 DEF Splits
<1>4. CleanSegments(lines) = Closed(f[n]).segments
  BY <1>1 DEF CleanSegments
<1> HIDE DEF f
<1>5. /\ f[0] = [segments |-> <<>>, current |-> <<>>]
      /\ \A i \in 1..n : f[i] = IF i \in scored THEN Observe(f[i - 1], lines[i]) ELSE f[i - 1]
  BY <1>3 DEF Splits
<1>6. \A j \in Nat : SplitAt(lines, S, f[0], j)
  BY <1>5, EmptySeq DEF SplitAt
<1> DEFINE T == {i \in 0..(n - 1) : ~SplitAt(lines, S, f[i], i)}
<1>7. T = {}
  <2>1. SUFFICES ASSUME T # {}
                 PROVE  FALSE
    OBVIOUS
  <2>2. T \subseteq Nat
    OBVIOUS
  <2>3. PICK i \in T : \A k \in T : i <= k
    BY <2>1, <2>2, LeastNat
  <2>4. i \in 0..(n - 1) /\ ~SplitAt(lines, S, f[i], i)
    OBVIOUS
  <2>5. i # 0
    BY <1>6, <2>4
  <2>6. i \in 1..n /\ i # n /\ i - 1 \in 0..(n - 1) /\ ~(i <= i - 1)
    BY <2>4, <2>5
  <2>7. SplitAt(lines, S, f[i - 1], i - 1)
    BY <2>3, <2>6
  <2>8. CASE i \in scored
    <3>1. SplitAt(lines, S, Observe(f[i - 1], lines[i]), i)
      BY <1>1, <2>6, <2>7, ObserveSplit
    <3>2. QED
      BY <1>5, <2>4, <2>6, <2>8, <3>1
  <2>9. CASE i \notin scored
    <3>1. i = 1
      BY <1>1, <2>6, <2>9
    <3>2. f[i] = f[0]
      BY <1>5, <2>6, <2>9, <3>1
    <3>3. QED
      BY <1>6, <2>4, <3>1, <3>2
  <2>10. QED
    BY <2>8, <2>9
<1>8. SplitAt(lines, S, f[n - 1], n - 1)
  <2>1. n - 1 \in 0..(n - 1)
    BY <1>2
  <2>2. QED
    BY <1>7, <2>1
<1>9. \E i \in 0..Len(lines) : SplitAt(lines, S, f[n], i)
  <2>1. n \in 1..n /\ n \in 0..n /\ n - 1 \in 0..n
    BY <1>2
  <2>2. CASE n \in scored
    BY <1>1, <1>5, <1>8, <2>1, <2>2, ObserveSplit
  <2>3. CASE n \notin scored
    BY <1>1, <1>5, <1>8, <2>1, <2>3
  <2>4. QED
    BY <2>2, <2>3
<1>10. SplitAt(lines, S, Closed(f[n]), 0)
  BY <1>9, ClosedSplit
<1>11. QED
  BY <1>4, <1>10 DEF SplitAt

\* From one observation of the file to another one, with no boundary in between.
Spans(lines) ==
  {[start |-> lines[w[1]].time, end |-> lines[w[2]].time] :
     w \in {v \in (DOMAIN lines) \X (DOMAIN lines) :
              \A k \in (v[1] + 1)..v[2] : ~Boundary(lines[k - 1], lines[k])}}

\* The lines come in the order of time.
Ordered(lines) ==
  \A i \in DOMAIN lines : lines[i].time \in Nat /\ (i # 1 => lines[i - 1].time <= lines[i].time)

LEMMA OrderedFar ==
  ASSUME NEW S, NEW lines \in Seq(S), Ordered(lines),
         NEW i \in DOMAIN lines, NEW j \in DOMAIN lines, i <= j
  PROVE  lines[i].time <= lines[j].time
<1>1. PICK n \in Nat : DOMAIN lines = 1..n
  BY LenProperties
<1> DEFINE T == {k \in i..n : ~(lines[i].time <= lines[k].time)}
<1>2. T = {}
  <2>1. SUFFICES ASSUME T # {}
                 PROVE  FALSE
    OBVIOUS
  <2>2. i \in 1..n /\ T \subseteq Nat
    BY <1>1
  <2>3. PICK k \in T : \A l \in T : k <= l
    BY <2>1, <2>2, LeastNat
  <2>4. k \in i..n /\ ~(lines[i].time <= lines[k].time)
    OBVIOUS
  <2>5. lines[i].time \in Nat /\ lines[k].time \in Nat
    BY <1>1, <2>2, <2>4 DEF Ordered
  <2>6. k # i
    BY <2>4, <2>5
  <2>7. k - 1 \in i..n /\ k \in 1..n /\ k - 1 \in 1..n /\ k # 1 /\ ~(k <= k - 1)
    BY <2>2, <2>4, <2>6
  <2>8. lines[i].time <= lines[k - 1].time
    BY <2>3, <2>7
  <2>9. lines[k - 1].time <= lines[k].time /\ lines[k - 1].time \in Nat
    BY <1>1, <2>7 DEF Ordered
  <2>10. QED
    BY <2>4, <2>5, <2>8, <2>9
<1>3. j \in i..n
  BY <1>1
<1>4. QED
  BY <1>2, <1>3

\* The windows of a segment are spans of the file.
LEMMA WindowsAreSpans ==
  ASSUME NEW S, NEW lines \in Seq(S), Ordered(lines),
         NEW s \in Seq(S), IsPiece(lines, s)
  PROVE  SegmentWindows(s) \in Seq(Spans(lines))
<1>1. PICK n \in Nat : n = Len(s) /\ DOMAIN s = 1..n
  BY LenProperties
<1>2. n # 0 /\ 1 \in 1..n
  BY <1>1, EmptySeq DEF IsPiece
<1>3. PICK a \in Nat :
        /\ \A k \in 1..n : a + k \in DOMAIN lines /\ s[k] = lines[a + k]
        /\ \A k \in 2..n : ~Boundary(s[k - 1], s[k])
  <2>1. PICK i \in 0..Len(lines) : Stretches(lines, s, i)
    BY DEF IsPiece
  <2>2. PICK a \in Nat : /\ a + n = i
                         /\ \A k \in 1..n : s[k] = lines[a + k]
                         /\ \A k \in 2..n : ~Boundary(s[k - 1], s[k])
    BY <1>1, <2>1 DEF Stretches
  <2>3. DOMAIN lines = 1..Len(lines) /\ Len(lines) \in Nat
    BY LenProperties
  <2>4. ASSUME NEW k \in 1..n
        PROVE  a + k \in DOMAIN lines
    BY <2>1, <2>2, <2>3
  <2>5. QED
    BY <2>2, <2>4
<1>4. Window \in Nat /\ Window > 0
  BY ReportAssumption
<1>5. \A k \in 1..n : s[k].time \in Nat
  BY <1>3 DEF Ordered
<1> DEFINE End(i) == {j \in DOMAIN s : s[j].time >= s[i].time + Window}
           first(i) == CHOOSE j \in End(i) : \A k \in End(i) : j <= k
           Eligible(i, j) == /\ s[j].time - s[i].time >= MinWindowDuration
                             /\ j - i + 1 >= MinWindowObservations
           window(i) == [start |-> s[i].time, end |-> s[first(i)].time]
           part(i) == IF Eligible(i, first(i)) THEN <<window(i)>> ELSE <<>>
           stop == {i \in 1..n : End(i) = {}}
           parts == [i \in 1..n |-> IF i \in stop THEN <<>> ELSE part(i)]
           next == [i \in 1..n |-> first(i)]
<1>6. ASSUME NEW i \in (1..n) \ stop
      PROVE  first(i) \in (i + 1)..n
  <2>1. End(i) # {} /\ End(i) \subseteq Nat
    BY <1>1, <1>6
  <2>2. \E j \in End(i) : \A k \in End(i) : j <= k
    <3> HIDE DEF End
    <3>1. QED
      BY <2>1, LeastNat
  <2>3. first(i) \in End(i)
    <3> HIDE DEF End
    <3>1. QED
      BY <2>2
  <2>4. PICK j : j = first(i)
    OBVIOUS
  <2>5. j \in 1..n /\ s[j].time >= s[i].time + Window
    <3> HIDE DEF first
    <3>1. QED
      BY <1>1, <2>3, <2>4
  <2>6. ~(j <= i)
    <3>1. SUFFICES ASSUME j <= i
                   PROVE  FALSE
      OBVIOUS
    <3>2. i \in 1..n
      BY <1>6
    <3>3. a + j \in DOMAIN lines /\ a + i \in DOMAIN lines /\ a + j <= a + i
      <4>1. a + j <= a + i
        BY <2>5, <3>1, <3>2
      <4>2. QED
        BY <1>3, <2>5, <3>2, <4>1
    <3>4. s[j].time <= s[i].time
      BY <1>3, <2>5, <3>2, <3>3, OrderedFar
    <3>5. s[j].time \in Nat /\ s[i].time \in Nat
      BY <1>5, <2>5, <3>2
    <3>6. QED
      BY <1>4, <2>5, <3>4, <3>5
  <2>7. j \in (i + 1)..n
    BY <1>6, <2>5, <2>6
  <2>8. QED
    BY <2>4, <2>7
<1>7. ASSUME NEW i \in 1..n
      PROVE  parts[i] \in Seq(Spans(lines))
  <2>1. <<>> \in Seq(Spans(lines))
    BY EmptySeq
  <2>2. ASSUME i \notin stop
        PROVE  window(i) \in Spans(lines)
    <3>1. PICK j \in (i + 1)..n : j = first(i)
      BY <1>6, <2>2
    <3>2. j \in 1..n
      BY <3>1
    <3>3. a + i \in DOMAIN lines /\ a + j \in DOMAIN lines
      BY <1>3, <3>2
    <3>4. window(i) = [start |-> lines[a + i].time, end |-> lines[a + j].time]
      <4>1. window(i) = [start |-> s[i].time, end |-> s[j].time]
        BY <3>1
      <4>2. QED
        BY <1>3, <3>2, <4>1
    <3>5. ASSUME NEW k \in (a + i + 1)..(a + j)
          PROVE  ~Boundary(lines[k - 1], lines[k])
      <4>1. PICK l \in 2..n : k = a + l
        <5>1. k - a \in 2..n /\ k = a + (k - a)
          BY <3>2, <3>5
        <5>2. QED
          BY <5>1
      <4>2. l \in 1..n /\ l - 1 \in 1..n /\ a + (l - 1) = k - 1
        BY <4>1
      <4>3. s[l] = lines[k] /\ s[l - 1] = lines[k - 1]
        BY <1>3, <4>1, <4>2
      <4>4. QED
        BY <1>3, <4>1, <4>3
    <3>6. PICK w : w = <<a + i, a + j>>
      OBVIOUS
    <3>7. w \in {v \in (DOMAIN lines) \X (DOMAIN lines) :
                   \A k \in (v[1] + 1)..v[2] : ~Boundary(lines[k - 1], lines[k])}
      <4>1. w \in (DOMAIN lines) \X (DOMAIN lines) /\ w[1] = a + i /\ w[2] = a + j
        BY <3>3, <3>6
      <4>2. \A k \in (w[1] + 1)..w[2] : ~Boundary(lines[k - 1], lines[k])
        BY <3>5, <4>1
      <4>3. QED
        BY <4>1, <4>2
    <3>8. window(i) = [start |-> lines[w[1]].time, end |-> lines[w[2]].time]
      BY <3>4, <3>6
    <3> HIDE DEF window
    <3>9. QED
      BY <3>7, <3>8 DEF Spans
  <2> HIDE DEF window
  <2>3. ASSUME i \notin stop
        PROVE  <<window(i)>> \in Seq(Spans(lines))
    BY <2>2, <2>3
  <2> HIDE DEF stop, Eligible, first
  <2>4. QED
    BY <2>1, <2>3
<1> DEFINE from == CHOOSE from : from =
             [i \in DOMAIN s |->
                IF End(i) = {} THEN <<>>
                ELSE (IF Eligible(i, first(i))
                      THEN <<[start |-> s[i].time, end |-> s[first(i)].time]>> ELSE <<>>)
                       \o from[first(i)]]
<1>8. SegmentWindows(s) = from[1]
  BY DEF SegmentWindows
<1>9. ASSUME NEW f
      PROVE  Forward(f, n, stop, parts, next) <=>
               f = [i \in DOMAIN s |->
                      IF End(i) = {} THEN <<>>
                      ELSE (IF Eligible(i, first(i))
                            THEN <<[start |-> s[i].time, end |-> s[first(i)].time]>> ELSE <<>>)
                             \o f[first(i)]]
  <2> HIDE DEF End, first, Eligible
  <2>1. \A i \in 1..n : (i \in stop <=> End(i) = {}) /\ next[i] = first(i)
    OBVIOUS
  <2>2. \A i \in 1..n : End(i) # {} => parts[i] = part(i)
    OBVIOUS
  <2> HIDE DEF stop, parts, next
  <2>3. QED
    BY <1>1, <2>1, <2>2 DEF Forward
<1>10. Forward(from, n, stop, parts, next)
  <2> HIDE DEF End, first, Eligible, parts, next, stop
  <2>1. \A i \in (1..n) \ stop : next[i] \in (i + 1)..n
    BY <1>6 DEF next
  <2>2. \E f : Forward(f, n, stop, parts, next)
    BY <2>1, ForwardExists
  <2>3. QED
    BY <1>9, <2>2
<1> HIDE DEF from, End, first, Eligible, part, window
<1>11. from[1] \in Seq(Spans(lines))
  <2>1. \A i \in (1..n) \ stop : next[i] \in (i + 1)..n
    BY <1>6
  <2> HIDE DEF stop, parts, next
  <2>2. \A i \in 1..n : from[i] \in Seq(Spans(lines))
    BY <1>7, <1>10, <2>1, ForwardType
  <2>3. QED
    BY <1>2, <2>2
<1>12. QED
  BY <1>8, <1>11

-----------------------------------------------------------------------------
(* What cuts the streams is told in the file.                              *)

\* The streams are cut between a and b, of which each is a line or the engine.
Severed(a, b) ==
  \/ b.count["reset"] # a.count["reset"]
  \/ b.count["input"] # a.count["input"]
  \/ b.render <= a.render

\* A cut after line i shows in what comes next, as it is written or as it is now.
CutsTold ==
  /\ \A cut \in history.cuts : cut <= run.time
  /\ run.pc \in {"idle", "started"} => history.cuts = {}
  /\ \A i \in DOMAIN file : \A cut \in history.cuts :
       i # 1 /\ file[i - 1].time < cut /\ cut <= file[i].time => Severed(file[i - 1], file[i])
  /\ run.pc \in {"sleep", "stop"} =>
       /\ engine.count = file[Len(file)].count /\ engine.render = file[Len(file)].render
       /\ \A cut \in history.cuts : cut <= file[Len(file)].time
  /\ run.pc \in {"check", "periodic", "failed", "final"} =>
       \A cut \in history.cuts :
         file[Len(file)].time < cut => Severed(file[Len(file)], engine)

\* Measures of windows, in their order, with whole midpoints.
WellMeasured(measures) ==
  measures \in Seq(Measures) /\ \A i \in DOMAIN measures : measures[i].ppm % 2 = 0

\* A report is of the file as it stays, its verdict on drift of the measures it tells.
Reported ==
  report.status = "written" =>
    /\ Parses(file)
    /\ report.windows = ClockWindows(file)
    /\ report.drift = ClassifyDrift(file, report.ready, report.measures, report.trend)
    /\ WellMeasured(report.measures) /\ report.trend \in Seq(Int)

LEMMA CutFacts ==
  ASSUME EInv
  PROVE  /\ Typed /\ \A cut \in history.cuts : cut \in Nat
         /\ run.time \in Nat
         /\ \A i \in DOMAIN file : file[i].time \in Nat /\ file[i].time <= run.time
         /\ file # <<>> => Len(file) \in DOMAIN file
         /\ run.pc \in {"idle", "started"} => file = <<>>
         /\ run.pc \in {"sleep", "stop", "check", "periodic", "failed", "final"} => file # <<>>
<1>1. Typed /\ Told /\ Reached
  BY DEF EInv, Told
<1>2. \A cut \in history.cuts : cut \in Nat
  BY <1>1 DEF Typed, HistoryType
<1>3. \A i \in DOMAIN file : file[i].time <= run.time
  BY <1>1 DEF Told, LineTold
<1>4. run.pc \in {"idle", "started"} => file = <<>>
  BY <1>1 DEF Reached
<1>5. run.pc \in {"sleep", "stop", "check", "periodic", "failed", "final"} => file # <<>>
  BY <1>1 DEF Reached
<1>6. QED
  BY <1>1, <1>2, <1>3, <1>4, <1>5, CountsOf

\* The file and what has happened stay; time may pass.
LEMMA CutsStay ==
  ASSUME EInv, CutsTold, file' = file, history'.cuts = history.cuts,
         run'.time \in Nat, run.time <= run'.time,
         engine'.count = engine.count, engine'.render = engine.render,
         run'.pc \in {"idle", "started"} => run.pc \in {"idle", "started"},
         run'.pc \in {"sleep", "stop"} => run.pc \in {"sleep", "stop"},
         run'.pc \in {"check", "periodic", "failed", "final"} =>
           run.pc \in {"sleep", "stop", "check", "periodic", "failed", "final"}
  PROVE  CutsTold'
<1>1. /\ \A cut \in history.cuts : cut \in Nat /\ cut <= run.time
      /\ run.time \in Nat
      /\ run.pc \in {"sleep", "stop", "check", "periodic", "failed", "final"} =>
           Len(file) \in DOMAIN file /\ file[Len(file)].time \in Nat
  BY CutFacts DEF CutsTold
<1>2. \A cut \in history'.cuts : cut <= run'.time
  BY <1>1
<1>3. run'.pc \in {"idle", "started"} => history'.cuts = {}
  BY DEF CutsTold
<1>4. \A i \in DOMAIN file' : \A cut \in history'.cuts :
        i # 1 /\ file'[i - 1].time < cut /\ cut <= file'[i].time => Severed(file'[i - 1], file'[i])
  BY DEF CutsTold
<1>5. run'.pc \in {"sleep", "stop"} =>
        /\ engine'.count = file'[Len(file')].count /\ engine'.render = file'[Len(file')].render
        /\ \A cut \in history'.cuts : cut <= file'[Len(file')].time
  BY DEF CutsTold
<1>6. ASSUME run'.pc \in {"check", "periodic", "failed", "final"}, NEW cut \in history.cuts,
             file[Len(file)].time < cut
      PROVE  Severed(file[Len(file)], engine)
  <2>1. CASE run.pc \in {"sleep", "stop"}
    <3>1. cut <= file[Len(file)].time
      BY <2>1 DEF CutsTold
    <3>2. QED
      BY <1>1, <1>6, <2>1, <3>1
  <2>2. CASE run.pc \in {"check", "periodic", "failed", "final"}
    BY <1>6, <2>2 DEF CutsTold
  <2>3. QED
    BY <1>6, <2>1, <2>2
<1>7. \A cut \in history.cuts :
        Severed(file[Len(file)], engine) => Severed(file[Len(file)], engine)'
  BY DEF Severed
<1>8. run'.pc \in {"check", "periodic", "failed", "final"} =>
        \A cut \in history'.cuts :
          file'[Len(file')].time < cut => Severed(file[Len(file)], engine)'
  BY <1>6, <1>7
<1>9. QED
  BY <1>2, <1>3, <1>4, <1>5, <1>8 DEF CutsTold

\* Nothing has happened yet.
LEMMA CutsNone ==
  ASSUME history'.cuts = {}, file' = <<>>,
         run'.pc \notin {"sleep", "stop", "check", "periodic", "failed", "final"}
  PROVE  CutsTold'
<1>1. DOMAIN file' = {}
  OBVIOUS
<1>2. QED
  BY <1>1 DEF CutsTold

\* A line is written.
LEMMA CutsWritten ==
  ASSUME EInv, CutsTold, UNCHANGED <<engine, history>>, run'.time = run.time,
         NEW l \in LineType, file' = Append(file, l),
         l.count = engine.count, l.render = engine.render,
         run.pc = "started" \/ (run.pc \in {"periodic", "failed", "final"} /\ l.time = run.time),
         run'.pc \in {"sleep", "stop", "done"}
  PROVE  CutsTold'
<1>1. /\ file \in Seq(LineType) /\ \A cut \in history.cuts : cut \in Nat /\ cut <= run.time
      /\ l.time \in Nat /\ run.time \in Nat
  BY CutFacts DEF CutsTold, Typed, LineType
<1>2. PICK n \in Nat : n = Len(file) /\ DOMAIN file = 1..n
  BY <1>1, LenProperties
<1>3. /\ file' \in Seq(LineType) /\ Len(file') = n + 1 /\ file'[n + 1] = l
      /\ \A i \in 1..n : file'[i] = file[i]
  BY <1>1, <1>2, AppendProperties
<1>4. DOMAIN file' = 1..(n + 1)
  BY <1>3, LenProperties
<1>5. run.pc = "started" => n = 0 /\ history.cuts = {}
  BY <1>2, CutFacts, EmptySeq DEF CutsTold
<1>6. \A cut \in history.cuts : cut <= l.time
  BY <1>1, <1>5
<1>7. ASSUME NEW i \in 1..(n + 1), NEW cut \in history.cuts,
             i # 1, file'[i - 1].time < cut, cut <= file'[i].time
      PROVE  Severed(file'[i - 1], file'[i])
  <2>1. CASE i = n + 1
    <3>1. i - 1 = n /\ n \in 1..n
      BY <1>7, <2>1
    <3>2. file'[i - 1] = file[n] /\ file'[i] = l
      BY <1>3, <2>1, <3>1
    <3>3. run.pc \in {"periodic", "failed", "final"} /\ file[n].time < cut
      BY <1>5, <1>7, <3>2
    <3>4. Severed(file[n], engine)
      BY <1>2, <3>3 DEF CutsTold
    <3>5. Severed(file[n], l)
      BY <3>4 DEF Severed
    <3>6. QED
      BY <3>2, <3>5
  <2>2. CASE i # n + 1
    <3>1. i \in 1..n /\ i - 1 \in 1..n
      BY <1>7, <2>2
    <3>2. file'[i - 1] = file[i - 1] /\ file'[i] = file[i]
      BY <1>3, <3>1
    <3>3. QED
      BY <1>2, <1>7, <3>1, <3>2 DEF CutsTold
  <2>3. QED
    BY <2>1, <2>2
<1>8. \A cut \in history'.cuts : cut <= run'.time
  BY <1>1
<1>9. run'.pc \in {"sleep", "stop"} =>
        /\ engine'.count = file'[Len(file')].count /\ engine'.render = file'[Len(file')].render
        /\ \A cut \in history'.cuts : cut <= file'[Len(file')].time
  BY <1>3, <1>6
<1>10. QED
  BY <1>4, <1>7, <1>8, <1>9 DEF CutsTold

\* An interval passes, and something may happen in it.
LEMMA CutsHappen ==
  ASSUME EInv, CutsTold, run.pc \in {"sleep", "stop"}, file' = file,
         NEW time \in Nat, run.time < time, run'.time = time, run'.pc \in {"check", "final"},
         NEW severs \in BOOLEAN,
         history'.cuts = IF severs THEN history.cuts \union {time} ELSE history.cuts,
         severs => Severed(engine, engine')
  PROVE  CutsTold'
<1>1. /\ \A cut \in history.cuts : cut \in Nat /\ cut <= run.time
      /\ run.time \in Nat
      /\ \A i \in DOMAIN file : file[i].time \in Nat /\ file[i].time <= run.time
      /\ Len(file) \in DOMAIN file
  BY CutFacts DEF CutsTold
<1>2. /\ engine.count = file[Len(file)].count /\ engine.render = file[Len(file)].render
      /\ \A cut \in history.cuts : cut <= file[Len(file)].time
  BY DEF CutsTold
<1>3. \A cut \in history'.cuts : cut \in history.cuts \/ (severs /\ cut = time)
  OBVIOUS
<1>4. \A cut \in history'.cuts : cut <= run'.time
  BY <1>1, <1>3
<1>5. ASSUME NEW i \in DOMAIN file, NEW cut \in history'.cuts,
             i # 1, file[i - 1].time < cut, cut <= file[i].time
      PROVE  Severed(file[i - 1], file[i])
  <2>1. cut # time
    BY <1>1, <1>5
  <2>2. cut \in history.cuts
    BY <1>3, <2>1
  <2>3. QED
    BY <1>5, <2>2 DEF CutsTold
<1>6. ASSUME NEW cut \in history'.cuts, file[Len(file)].time < cut
      PROVE  Severed(file[Len(file)], engine')
  <2>1. cut \notin history.cuts
    BY <1>1, <1>2, <1>6
  <2>2. Severed(engine, engine')
    BY <1>3, <2>1
  <2>3. QED
    BY <1>2, <2>2 DEF Severed
<1>7. QED
  BY <1>4, <1>5, <1>6 DEF CutsTold

\* What a disturbance of the streams leaves behind.
LEMMA DisturbedSevers ==
  ASSUME Typed, NEW kind \in {"input", "reset", "silence"}, NEW e,
         e.count = After(kind).count, e.render = After(kind).render
  PROVE  Severed(engine, e)
<1>1. engine \in EngineType /\ engine.render \in Nat
  BY DEF Typed, EngineType
<1>2. CASE kind = "silence"
  BY <1>1, <1>2, AfterFields DEF Severed
<1>3. CASE kind \in {"input", "reset"}
  <2>1. kind \in CounterKinds
    BY <1>3 DEF CounterKinds, Explainable
  <2>2. e.count[kind] = engine.count[kind] + 1
    BY <1>1, <2>1, AfterFields
  <2>3. engine.count[kind] \in Nat
    BY <2>1, CountsOf
  <2>4. e.count[kind] # engine.count[kind]
    BY <2>2, <2>3
  <2>5. QED
    BY <1>3, <2>4 DEF Severed
<1>4. QED
  BY <1>2, <1>3

LEMMA WakeUpTells ==
  ASSUME EInv, CutsTold, WakeUp
  PROVE  CutsTold'
<1>0. Typed /\ run.time \in Nat /\ MaxLate \in Nat
  BY CutFacts, EvidenceAssumption
<1>1. PICK late \in 0..MaxLate, kind \in Possible(Disturbances \union {"late"}) :
        /\ run' = [run EXCEPT !.pc = "check", !.time = run.time + 1 + late]
        /\ engine' = IF Alive THEN After(kind) ELSE engine
        /\ history' = Noted(kind, run.time + 1 + late, engine'.depth)
  BY DEF WakeUp
<1>2. run.pc = "sleep" /\ file' = file
  BY DEF WakeUp, EvidenceAt
<1>3. PICK time \in Nat : time = run.time + 1 + late /\ run.time < time
  BY <1>0
<1>4. run'.pc = "check" /\ run'.time = time
  <2>1. run' = [run EXCEPT !.pc = "check", !.time = time]
    BY <1>1, <1>3
  <2>2. QED
    BY <1>0, <2>1 DEF Typed, RunType
<1>5. kind \in Troubles \union Calm /\ (kind \in Calm \/ Alive)
  BY PossibleKinds DEF Troubles
<1>6. PICK depth \in Nat : depth = engine'.depth
  <2>1. engine' \in EngineType
    BY <1>0, <1>1, AfterFields DEF Typed
  <2>2. QED
    BY <2>1 DEF EngineType
<1>7. history'.cuts = IF kind \in {"input", "reset", "silence"}
                      THEN history.cuts \union {time} ELSE history.cuts
  <2>1. history' = Noted(kind, time, depth) /\ history \in HistoryType
    BY <1>0, <1>1, <1>3, <1>6 DEF Typed
  <2>2. PICK n : n = Noted(kind, time, depth)
    OBVIOUS
  <2>3. n.cuts = IF kind \in {"input", "reset", "silence"}
                 THEN history.cuts \union {time} ELSE history.cuts
    <3>1. /\ time \in Nat /\ kind \in Troubles \union Calm /\ history \in HistoryType
          /\ depth \in Nat
      BY <1>3, <1>5, <2>1
    <3>2. n.cuts = IF kind \in {"input", "reset", "silence"}
                   THEN history.cuts \union {time} ELSE history.cuts
      BY <2>2, <3>1 DEF Noted, HistoryType
    <3>3. QED
      BY <3>2
  <2>4. QED
    BY <2>1, <2>2, <2>3
<1>8. ASSUME kind \in {"input", "reset", "silence"}
      PROVE  Severed(engine, engine')
  <2>1. engine' = After(kind)
    BY <1>1, <1>5, <1>8 DEF Calm
  <2>2. QED
    BY <1>0, <1>8, <2>1, DisturbedSevers
<1>9. PICK severs \in BOOLEAN : severs <=> kind \in {"input", "reset", "silence"}
  OBVIOUS
<1>10. history'.cuts = IF severs THEN history.cuts \union {time} ELSE history.cuts
  BY <1>7, <1>9
<1>11. QED
  BY <1>2, <1>3, <1>4, <1>8, <1>9, <1>10, CutsHappen

LEMMA StopTells ==
  ASSUME EInv, CutsTold, StopRun
  PROVE  CutsTold'
<1>0. Typed /\ run.time \in Nat /\ run \in RunType /\ engine \in EngineType
  BY CutFacts DEF Typed
<1>1. run.pc = "stop" /\ file' = file
  BY DEF StopRun, EvidenceAt
<1>2. CASE GoRun("final") /\ engine' = Halted(engine, "stopped") /\ history' = history
  <2>1. run'.pc = "final" /\ run'.time = run.time
    BY <1>0, <1>2, GoRunFields DEF RunPcs
  <2>2. engine'.count = engine.count /\ engine'.render = engine.render
    BY <1>0, <1>2, HaltedFields
  <2>3. QED
    BY <1>0, <1>1, <1>2, <2>1, <2>2, CutsStay
<1>3. ASSUME NEW kind \in Possible(CounterKinds),
             run' = [run EXCEPT !.pc = "final", !.time = run.time + 1],
             engine' = Halted(IF Alive THEN After(kind) ELSE engine, "stopped"),
             history' = Noted(kind, run.time + 1, 0)
      PROVE  CutsTold'
  <2>1. PICK time \in Nat : time = run.time + 1 /\ run.time < time
    BY <1>0
  <2>2. run'.pc = "final" /\ run'.time = time
    BY <1>0, <1>3, <2>1 DEF RunType
  <2>3. kind \in Troubles \union Calm /\ (kind \in Calm \/ Alive)
    BY PossibleKinds DEF Troubles, Disturbances
  <2>4. PICK e \in EngineType : e = IF Alive THEN After(kind) ELSE engine
    BY <1>0, AfterFields
  <2>5. engine'.count = e.count /\ engine'.render = e.render
    BY <1>3, <2>4, HaltedFields
  <2>6. PICK n : n = Noted(kind, time, 0)
    OBVIOUS
  <2>7. n.cuts = IF kind \in {"input", "reset", "silence"}
                 THEN history.cuts \union {time} ELSE history.cuts
    <3>1. /\ time \in Nat /\ kind \in Troubles \union Calm /\ history \in HistoryType
          /\ 0 \in Nat
      BY <1>0, <2>1, <2>3 DEF Typed
    <3>2. n.cuts = IF kind \in {"input", "reset", "silence"}
                   THEN history.cuts \union {time} ELSE history.cuts
      BY <2>6, <3>1 DEF Noted, HistoryType
    <3>3. QED
      BY <3>2
  <2>8. history'.cuts = n.cuts
    BY <1>3, <2>1, <2>6
  <2>9. ASSUME kind \in {"input", "reset", "silence"}
        PROVE  Severed(engine, engine')
    <3>1. e = After(kind)
      BY <2>3, <2>4, <2>9 DEF Calm
    <3>2. QED
      BY <1>0, <2>5, <2>9, <3>1, DisturbedSevers
  <2>10. PICK severs \in BOOLEAN : severs <=> kind \in {"input", "reset", "silence"}
    OBVIOUS
  <2>11. history'.cuts = IF severs THEN history.cuts \union {time} ELSE history.cuts
    BY <2>7, <2>8, <2>10
  <2>12. severs => Severed(engine, engine')
    BY <2>9, <2>10
  <2>13. run.pc \in {"sleep", "stop"} /\ run'.pc \in {"check", "final"} /\ run'.time = time
    BY <1>1, <2>2
  <2>14. QED
    BY <1>1, <2>1, <2>11, <2>12, <2>13, CutsHappen
<1>4. CASE Over("not stopped") /\ UNCHANGED <<engine, history>>
  <2>1. run'.pc = "done" /\ run'.time = run.time
    BY <1>0, <1>4, OverFields DEF Outcomes
  <2>2. /\ engine'.count = engine.count /\ engine'.render = engine.render
        /\ history'.cuts = history.cuts
    BY <1>4
  <2>3. run'.time \in Nat /\ run.time <= run'.time
    BY <1>0, <2>1
  <2>4. QED
    BY <1>1, <2>1, <2>2, <2>3, CutsStay
<1>5. CASE \E kind \in Possible(CounterKinds) :
             /\ run' = [run EXCEPT !.pc = "final", !.time = @ + 1]
             /\ engine' = Halted(IF Alive THEN After(kind) ELSE engine, "stopped")
             /\ history' = Noted(kind, run.time + 1, 0)
  <2>1. PICK kind \in Possible(CounterKinds) :
             /\ run' = [run EXCEPT !.pc = "final", !.time = @ + 1]
             /\ engine' = Halted(IF Alive THEN After(kind) ELSE engine, "stopped")
             /\ history' = Noted(kind, run.time + 1, 0)
    BY <1>5
  <2>2. run' = [run EXCEPT !.pc = "final", !.time = run.time + 1]
    BY <1>0, <2>1 DEF RunType
  <2>3. QED
    BY <1>3, <2>1, <2>2
<1>6. QED
  BY <1>2, <1>4, <1>5 DEF StopRun

\* The steps that write a line of the run and of the engine.
LEMMA WriteTells ==
  ASSUME EInv, CutsTold, WriteStarted \/ WritePeriodic \/ WriteFailed \/ WriteFinal
  PROVE  CutsTold'
<1>0. Typed /\ run.time \in Nat /\ run \in RunType
  BY CutFacts DEF Typed
<1>1. UNCHANGED <<engine, history>>
  BY DEF WriteStarted, WritePeriodic, WriteFailed, WriteFinal
<1>2. PICK event \in Events, time \in Nat :
        /\ file' = Append(file, Line(event, time))
        /\ run.pc = "started" \/ (run.pc \in {"periodic", "failed", "final"} /\ time = run.time)
        /\ GoRun(Continue) \/ Over("failed") \/ Over("completed")
  BY <1>0 DEF WriteStarted, WritePeriodic, WriteFailed, WriteFinal, Write, EvidenceAt, Events
<1>3. PICK l \in LineType : l = Line(event, time)
  BY <1>0, LineFields
<1>4. l.time = time /\ l.count = engine.count /\ l.render = engine.render
  BY <1>0, <1>3, LineFields
<1>5. run'.time = run.time /\ run'.pc \in {"sleep", "stop", "done"}
  <2>1. CASE GoRun(Continue)
    <3>1. PICK pc \in RunPcs : pc = Continue /\ pc \in {"sleep", "stop"}
      BY <1>0, Continues
    <3>2. GoRun(pc)
      BY <2>1, <3>1
    <3>3. QED
      BY <1>0, <3>1, <3>2, GoRunFields
  <2>2. CASE Over("failed") \/ Over("completed")
    BY <1>0, <2>2, OverFields DEF Outcomes
  <2>3. QED
    BY <1>2, <2>1, <2>2
<1>6. QED
  BY <1>1, <1>2, <1>3, <1>4, <1>5, CutsWritten

LEMMA CutShortTells ==
  ASSUME EInv, CutsTold, CutShort
  PROVE  CutsTold'
<1>0. Typed /\ run.time \in Nat /\ run \in RunType
  BY CutFacts DEF Typed
<1>1. /\ run.pc \in {"started", "periodic", "failed", "final"} /\ UNCHANGED <<engine, history>>
      /\ file' = file \/ file' = Append(file, [Line("torn", run.time) EXCEPT !.whole = FALSE])
  BY DEF CutShort
<1>2. run'.pc = "done" /\ run'.time = run.time
  BY <1>0, OverFields DEF CutShort, Outcomes
<1>3. CASE file' = file
  BY <1>0, <1>1, <1>2, <1>3, CutsStay
<1>4. CASE file' = Append(file, [Line("torn", run.time) EXCEPT !.whole = FALSE])
  <2>1. PICK k \in LineType : k = Line("torn", run.time)
    BY <1>0, LineFields DEF Events
  <2>2. k.time = run.time /\ k.count = engine.count /\ k.render = engine.render
    BY <1>0, <2>1, LineFields DEF Events
  <2>3. PICK l \in LineType : l = [k EXCEPT !.whole = FALSE]
    BY DEF LineType
  <2>4. l.time = k.time /\ l.count = k.count /\ l.render = k.render
    BY <2>3 DEF LineType
  <2>5. file' = Append(file, l)
    BY <1>4, <2>1, <2>3
  <2>6. QED
    BY <1>1, <1>2, <2>2, <2>4, <2>5, CutsWritten
<1>5. QED
  BY <1>1, <1>3, <1>4

LEMMA StartTells ==
  ASSUME EInv, CutsTold, NEW mode, StartEvidence(mode)
  PROVE  CutsTold'
<1>1. run.pc = "idle" /\ UNCHANGED <<file, history>> /\ Typed
  BY CutFacts DEF StartEvidence, EvidenceAt
<1>2. history.cuts = {} /\ file = <<>>
  BY <1>1, CutFacts DEF CutsTold
<1>3. run'.pc \in {"started", "done"}
  <2>1. CASE run' = [run EXCEPT !.pc = "done", !.mode = mode, !.outcome = "not started"]
    BY <1>1, <2>1 DEF Typed, RunType
  <2>2. CASE run' # [run EXCEPT !.pc = "done", !.mode = mode, !.outcome = "not started"]
    BY <2>2 DEF StartEvidence
  <2>3. QED
    BY <2>1, <2>2
<1>4. QED
  BY <1>1, <1>2, <1>3, CutsNone

LEMMA NextCuts ==
  ASSUME EInv, CutsTold, [Next]_labVars
  PROVE  CutsTold'
<1>0. Typed /\ run.time \in Nat /\ run \in RunType /\ engine \in EngineType
  BY CutFacts DEF Typed
<1>1. CASE UNCHANGED <<run, engine, file, history>>
  BY <1>0, <1>1, CutsStay
<1>2. CASE UNCHANGED evidenceVars
  BY <1>1, <1>2 DEF evidenceVars
<1>3. CASE Dispatch
  <2>1. ASSUME NEW mode, StartEvidence(mode)
        PROVE  CutsTold'
    BY <2>1, StartTells
  <2>2. CASE MakeReport
    BY <1>1, <2>2 DEF MakeReport
  <2>3. QED
    BY <1>2, <1>3, <2>1, <2>2 DEF Dispatch
<1>4. CASE EvidenceSteps
  <2>1. CASE CheckEngine
    <3>1. run.pc = "check" /\ UNCHANGED <<engine, file, history>>
      BY <2>1 DEF CheckEngine, EvidenceAt
    <3>2. run'.pc \in {"failed", "periodic"} /\ run'.time = run.time
      BY <1>0, <2>1, GoRunFields DEF CheckEngine, RunPcs
    <3>3. QED
      BY <1>0, <3>1, <3>2, CutsStay
  <2>2. CASE EngineFails
    <3>1. /\ UNCHANGED <<run, file>> /\ history' = [history EXCEPT !.failed = TRUE]
          /\ \E error \in EngineErrors :
               engine' = [engine EXCEPT !.state = "failed", !.error = error,
                                        !.depth = 0, !.slow = FALSE]
      BY <2>2 DEF EngineFails
    <3>2. history'.cuts = history.cuts
      BY <1>0, <3>1 DEF Typed, HistoryType
    <3>3. engine'.count = engine.count /\ engine'.render = engine.render
      BY <1>0, <3>1 DEF EngineType
    <3>4. QED
      BY <1>0, <3>1, <3>2, <3>3, CutsStay
  <2>3. QED
    BY <1>4, <2>1, <2>2, WakeUpTells, StopTells, WriteTells, CutShortTells
       DEF EvidenceSteps, RunNext
<1>5. QED
  BY <1>2, <1>3, <1>4 DEF Next, CaptureSteps, labVars

\* Between two lines there is a pair of neighbours across any moment in between.
LEMMA PairAcross ==
  ASSUME NEW S, NEW lines \in Seq(S), Ordered(lines),
         NEW a \in DOMAIN lines, NEW b \in DOMAIN lines,
         NEW c \in Nat, lines[a].time < c, c <= lines[b].time
  PROVE  \E k \in (a + 1)..b :
           /\ k \in DOMAIN lines /\ k - 1 \in DOMAIN lines /\ a <= k - 1
           /\ lines[k - 1].time < c /\ c <= lines[k].time
<1>1. PICK n \in Nat : DOMAIN lines = 1..n
  BY LenProperties
<1>2. \A i \in 1..n : lines[i].time \in Nat
  BY <1>1 DEF Ordered
<1>3. a \in 1..n /\ b \in 1..n
  BY <1>1
<1>4. a < b
  <2>1. SUFFICES ASSUME b <= a
                 PROVE  FALSE
    BY <1>3
  <2>2. lines[b].time <= lines[a].time
    BY <2>1, OrderedFar
  <2>3. QED
    BY <1>2, <1>3, <2>2
<1> DEFINE T == {i \in a..b : c <= lines[i].time}
<1>5. b \in T /\ T \subseteq Nat
  BY <1>3, <1>4
<1>6. PICK k \in T : \A i \in T : k <= i
  <2> HIDE DEF T
  <2>1. QED
    BY <1>5, LeastNat
<1>7. k \in a..b /\ c <= lines[k].time
  OBVIOUS
<1>8. k # a
  BY <1>2, <1>3, <1>7
<1>9. k \in (a + 1)..b /\ k \in 1..n /\ k - 1 \in 1..n /\ k - 1 \in a..b /\ ~(k <= k - 1) /\ a <= k - 1
  BY <1>3, <1>7, <1>8
<1>10. ~(c <= lines[k - 1].time)
  BY <1>6, <1>9
<1>11. lines[k - 1].time < c
  BY <1>2, <1>9, <1>10
<1>12. QED
  BY <1>1, <1>7, <1>9, <1>11

\* What is known of a file that parses.
LEMMA ParsedLines ==
  ASSUME EInv, Parses(file)
  PROVE  /\ file \in Seq(LineType) /\ file # <<>> /\ Ordered(file)
         /\ \A i \in DOMAIN file :
              i # 1 /\ i # Len(file) => file[i].event \in {"periodic", "final"}
<1>1. /\ file \in Seq(LineType) /\ \A i \in DOMAIN file : LineTold(i)
      /\ \A i \in DOMAIN file : file[i] \in LineType /\ file[i].time \in Nat
  BY CountsOf DEF EInv, Typed, Told
<1>2. /\ Len(file) >= 2 /\ \A i \in DOMAIN file : Terminal(file[i]) <=> i = Len(file)
      /\ \A i \in DOMAIN file : file[i].whole
  BY DEF Parses, Framed, Readable
<1>3. file # <<>>
  BY <1>2, EmptySeq
<1>4. Ordered(file)
  <2>1. DOMAIN file = 1..Len(file) /\ Len(file) \in Nat
    BY <1>1, LenProperties
  <2>2. ASSUME NEW i \in DOMAIN file, i # 1
        PROVE  file[i - 1].time <= file[i].time
    <3>1. i > 1
      BY <2>1, <2>2
    <3>2. QED
      BY <1>1, <3>1 DEF LineTold
  <2>3. QED
    BY <1>1, <2>2 DEF Ordered
<1>5. ASSUME NEW i \in DOMAIN file, i # 1, i # Len(file)
      PROVE  file[i].event = "periodic"
  <2>1. file[i].event # "started" /\ file[i].event # "torn"
    BY <1>1, <1>2, <1>5 DEF LineTold
  <2>2. ~Terminal(file[i])
    BY <1>2, <1>5
  <2>3. file[i].event \in Events
    BY <1>1 DEF LineType
  <2>4. QED
    BY <2>1, <2>2, <2>3 DEF Events, Terminal
<1>6. QED
  BY <1>1, <1>3, <1>4, <1>5

LEMMA ClockWindowsAreSpans ==
  ASSUME NEW S, NEW lines \in Seq(S), lines # <<>>, Ordered(lines),
         \A i \in DOMAIN lines :
           i # 1 /\ i # Len(lines) => lines[i].event \in {"periodic", "final"}
  PROVE  ClockWindows(lines) \in Seq(Spans(lines))
<1>1. PICK segments : segments = CleanSegments(lines)
  OBVIOUS
<1>2. /\ segments \in Seq(Seq(S))
      /\ \A k \in DOMAIN segments : IsPiece(lines, segments[k])
  BY <1>1, SegmentsArePieces
<1>3. PICK m \in Nat : DOMAIN segments = 1..m
  BY <1>2, LenProperties
<1>4. PICK windows : windows = [i \in 1..m |-> SegmentWindows(segments[i])]
  OBVIOUS
<1>5. ASSUME NEW i \in 1..m
      PROVE  SegmentWindows(segments[i]) \in Seq(Spans(lines))
  <2>1. segments[i] \in Seq(S)
    BY <1>2, <1>3
  <2>2. IsPiece(lines, segments[i])
    BY <1>2, <1>3
  <2>3. QED
    BY <2>1, <2>2, WindowsAreSpans
<1>6. windows \in Seq(Seq(Spans(lines)))
  <2>1. windows \in [1..m -> Seq(Spans(lines))]
    BY <1>4, <1>5
  <2>2. QED
    BY <2>1, IsASeq
<1>7. ClockWindows(lines) = FlattenSeq(windows)
  BY <1>1, <1>3, <1>4 DEF ClockWindows
<1>8. QED
  BY <1>6, <1>7, FlattenType

\* No span of lines without a boundary has a cut or a long silence in it.
LEMMA SpanIsContinuous ==
  ASSUME EInv, CutsTold, Ordered(file),
         NEW a \in DOMAIN file, NEW b \in DOMAIN file,
         \A k \in (a + 1)..b : ~Boundary(file[k - 1], file[k])
  PROVE  /\ \A cut \in history.cuts : ~(file[a].time < cut /\ cut <= file[b].time)
         /\ \A t \in file[a].time..(file[b].time - MaxEventGap) :
              \E u \in {file[j].time : j \in DOMAIN file} \intersect (file[a].time..file[b].time) :
                t < u /\ u <= t + MaxEventGap
<1>1. /\ file \in Seq(LineType) /\ \A i \in DOMAIN file : file[i].time \in Nat
      /\ \A cut \in history.cuts : cut \in Nat
  BY CutFacts DEF Typed
<1>2. \A k \in (a + 1)..b :
        /\ ~(file[k].time - file[k - 1].time > MaxEventGap)
        /\ ~Severed(file[k - 1], file[k])
  BY DEF Boundary, Severed
<1>3. ASSUME NEW cut \in history.cuts, file[a].time < cut, cut <= file[b].time
      PROVE  FALSE
  <2>1. PICK k \in (a + 1)..b :
          /\ k \in DOMAIN file /\ k - 1 \in DOMAIN file /\ a <= k - 1
          /\ file[k - 1].time < cut /\ cut <= file[k].time
    <3>1. cut \in Nat
      BY <1>1
    <3>2. QED
      BY <1>1, <1>3, <3>1, PairAcross
  <2>2. k # 1
    <3>1. DOMAIN file = 1..Len(file) /\ Len(file) \in Nat
      BY <1>1, LenProperties
    <3>2. QED
      BY <2>1, <3>1
  <2>3. Severed(file[k - 1], file[k])
    BY <2>1, <2>2 DEF CutsTold
  <2>4. QED
    BY <1>2, <2>3
<1>4. ASSUME NEW t \in file[a].time..(file[b].time - MaxEventGap)
      PROVE  \E u \in {file[j].time : j \in DOMAIN file} \intersect (file[a].time..file[b].time) :
               t < u /\ u <= t + MaxEventGap
  <2>1. MaxEventGap \in Nat /\ MaxEventGap > 0
    BY ReportAssumption
  <2>2. file[a].time \in Nat /\ file[b].time \in Nat
    BY <1>1
  <2>3. t \in Nat /\ file[a].time <= t /\ t <= file[b].time - MaxEventGap
    BY <2>1, <2>2
  <2>4. PICK c \in Nat : c = t + 1
    BY <2>3
  <2>5. file[a].time < c /\ c <= file[b].time
    BY <2>1, <2>2, <2>3, <2>4
  <2>6. PICK k \in (a + 1)..b :
          /\ k \in DOMAIN file /\ k - 1 \in DOMAIN file /\ a <= k - 1
          /\ file[k - 1].time < c /\ c <= file[k].time
    BY <1>1, <2>5, PairAcross
  <2>7. PICK u \in Nat, v \in Nat : u = file[k].time /\ v = file[k - 1].time
    BY <1>1, <2>6
  <2>8. ~(u - v > MaxEventGap)
    BY <1>2, <2>7
  <2>9. t < u /\ u <= t + MaxEventGap
    BY <2>1, <2>3, <2>4, <2>6, <2>7, <2>8
  <2>10. u <= file[b].time
    <3>1. k <= b
      <4>1. DOMAIN file = 1..Len(file) /\ Len(file) \in Nat
        BY <1>1, LenProperties
      <4>2. QED
        BY <4>1
    <3>2. QED
      BY <1>1, <2>6, <2>7, <3>1, OrderedFar
  <2>11. u \in file[a].time..file[b].time
    BY <2>2, <2>3, <2>9, <2>10
  <2>12. QED
    BY <2>6, <2>7, <2>9, <2>11
<1>5. QED
  BY <1>3, <1>4

LEMMA WrittenContinuous ==
  ASSUME EInv, CutsTold, Reported
  PROVE  WindowsAreContinuous
<1>1. SUFFICES ASSUME report.status = "written", NEW i \in DOMAIN report.windows
               PROVE  LET window   == report.windows[i]
                          observed == {file[j].time : j \in DOMAIN file}
                                        \intersect (window.start..window.end)
                      IN /\ \A cut \in history.cuts : ~(window.start < cut /\ cut <= window.end)
                         /\ \A t \in window.start..(window.end - MaxEventGap) :
                              \E u \in observed : t < u /\ u <= t + MaxEventGap
  BY DEF WindowsAreContinuous
<1>2. Parses(file) /\ report.windows = ClockWindows(file)
  BY <1>1 DEF Reported
<1>3. /\ file \in Seq(LineType) /\ file # <<>> /\ Ordered(file)
      /\ \A j \in DOMAIN file :
           j # 1 /\ j # Len(file) => file[j].event \in {"periodic", "final"}
  BY <1>2, ParsedLines
<1>4. report.windows \in Seq(Spans(file))
  BY <1>2, <1>3, ClockWindowsAreSpans
<1>5. report.windows[i] \in Spans(file)
  BY <1>1, <1>4
<1>6. PICK w \in (DOMAIN file) \X (DOMAIN file) :
        /\ \A k \in (w[1] + 1)..w[2] : ~Boundary(file[k - 1], file[k])
        /\ report.windows[i] = [start |-> file[w[1]].time, end |-> file[w[2]].time]
  BY <1>5 DEF Spans
<1>7. PICK a \in DOMAIN file, b \in DOMAIN file : a = w[1] /\ b = w[2]
  OBVIOUS
<1>8. /\ \A k \in (a + 1)..b : ~Boundary(file[k - 1], file[k])
      /\ report.windows[i].start = file[a].time /\ report.windows[i].end = file[b].time
  BY <1>6, <1>7
<1>9. QED
  BY <1>3, <1>8, SpanIsContinuous

-----------------------------------------------------------------------------
(* Medians.                                                                *)

Lower(v, x) == {i \in DOMAIN v : v[i] < x}
NoHigher(v, x) == {i \in DOMAIN v : v[i] <= x}

IsRanked(v, k, x) ==
  /\ x \in {v[i] : i \in DOMAIN v}
  /\ Cardinality(Lower(v, x)) < k /\ k <= Cardinality(NoHigher(v, x))

LEMMA RankCounts ==
  ASSUME NEW n \in Nat, NEW D \in SUBSET (1..n)
  PROVE  /\ IsFiniteSet(D) /\ Cardinality(D) \in Nat /\ Cardinality(D) <= n
         /\ Cardinality((1..n) \ D) = n - Cardinality(D)
<1>1. IsFiniteSet(1..n) /\ Cardinality(1..n) = n
  <2>1. 1 \in Int /\ n \in Int
    OBVIOUS
  <2>2. IsFiniteSet(1..n) /\ Cardinality(1..n) = IF 1 > n THEN 0 ELSE n - 1 + 1
    BY <2>1, FS_Interval
  <2>3. QED
    BY <2>2
<1>2. IsFiniteSet(D) /\ Cardinality(D) <= Cardinality(1..n)
  BY <1>1, FS_Subset
<1>3. Cardinality(D) \in Nat
  BY <1>2, FS_CardinalityType
<1>4. Cardinality((1..n) \ D) = Cardinality(1..n) - Cardinality((1..n) \intersect D)
  BY <1>1, FS_Difference
<1>5. (1..n) \intersect D = D
  OBVIOUS
<1>6. QED
  BY <1>1, <1>2, <1>3, <1>4, <1>5

\* A higher value has more values that are not higher.
LEMMA NoHigherGrows ==
  ASSUME NEW n \in Nat, NEW v \in [1..n -> Int], NEW i \in 1..n, NEW j \in 1..n, v[i] < v[j]
  PROVE  Cardinality(NoHigher(v, v[i])) < Cardinality(NoHigher(v, v[j]))
<1>1. PICK A \in SUBSET (1..n), B \in SUBSET (1..n) :
        A = NoHigher(v, v[i]) /\ B = NoHigher(v, v[j])
  BY DEF NoHigher
<1>2. \A k \in 1..n : (k \in A <=> v[k] <= v[i]) /\ (k \in B <=> v[k] <= v[j]) /\ v[k] \in Int
  BY <1>1 DEF NoHigher
<1>3. A \subseteq B
  BY <1>2
<1>4. j \in B /\ j \notin A
  BY <1>2
<1>5. /\ IsFiniteSet(B) /\ Cardinality(B) \in Nat /\ Cardinality(A) \in Nat
  BY RankCounts
<1>6. Cardinality(A) <= Cardinality(B) /\ (Cardinality(B) = Cardinality(A) => B = A)
  BY <1>3, <1>5, FS_Subset
<1>7. QED
  BY <1>1, <1>4, <1>5, <1>6

LEMMA Highest ==
  ASSUME NEW n \in Nat, NEW v \in [1..n -> Int], NEW D \in SUBSET (1..n), D # {}
  PROVE  \E y \in D : \A j \in D : v[j] <= v[y]
<1> DEFINE c(j) == Cardinality(NoHigher(v, v[j]))
           T == {n - c(j) : j \in D}
<1>1. \A j \in 1..n : c(j) \in Nat /\ c(j) <= n
  <2>1. \A j \in 1..n : NoHigher(v, v[j]) \in SUBSET (1..n)
    BY DEF NoHigher
  <2>2. QED
    BY <2>1, RankCounts
<1>2. \A i, j \in 1..n : v[i] < v[j] => c(i) < c(j)
  BY NoHigherGrows
<1> HIDE DEF c
<1>3. T \subseteq Nat /\ T # {}
  <2>1. \A j \in D : n - c(j) \in Nat
    <3>1. TAKE j \in D
    <3>2. c(j) \in Nat /\ c(j) <= n
      BY <1>1
    <3>3. QED
      BY <3>2
  <2>2. QED
    BY <2>1
<1>4. PICK t \in T : \A u \in T : t <= u
  BY <1>3, LeastNat
<1>5. PICK y \in D : t = n - c(y)
  OBVIOUS
<1>6. ASSUME NEW j \in D
      PROVE  v[j] <= v[y]
  <2>1. n - c(y) <= n - c(j)
    BY <1>4, <1>5
  <2>2. ~(c(y) < c(j))
    BY <1>1, <2>1
  <2>3. ~(v[y] < v[j])
    BY <1>2, <2>2
  <2>4. QED
    BY <2>3
<1>7. QED
  BY <1>6

\* There is a value at every place.
LEMMA RankedExists ==
  ASSUME NEW n \in Nat, NEW v \in [1..n -> Int], NEW k \in 1..n
  PROVE  \E x : IsRanked(v, k, x)
<1> DEFINE c(j) == Cardinality(NoHigher(v, v[j]))
           G == {j \in 1..n : k <= c(j)}
           T == {c(j) : j \in G}
<1>1. \A j \in 1..n : c(j) \in Nat /\ NoHigher(v, v[j]) \in SUBSET (1..n)
  <2>1. \A j \in 1..n : NoHigher(v, v[j]) \in SUBSET (1..n)
    BY DEF NoHigher
  <2>2. QED
    BY <2>1, RankCounts
<1>2. \A i, j \in 1..n : v[i] < v[j] => c(i) < c(j)
  BY NoHigherGrows
<1>3. G # {}
  <2>1. PICK y \in 1..n : \A j \in 1..n : v[j] <= v[y]
    <3>1. (1..n) \in SUBSET (1..n) /\ 1..n # {}
      OBVIOUS
    <3>2. QED
      BY <3>1, Highest
  <2>2. NoHigher(v, v[y]) = 1..n
    BY <2>1 DEF NoHigher
  <2>3. c(y) = n
    <3>1. 1 \in Int /\ n \in Int /\ ~(1 > n)
      OBVIOUS
    <3>2. Cardinality(1..n) = n
      BY <3>1, FS_Interval
    <3>3. QED
      BY <2>2, <3>2
  <2> HIDE DEF c
  <2>4. QED
    BY <2>3
<1>4. PICK t \in T : \A u \in T : t <= u
  <2>1. T # {}
    BY <1>3
  <2>2. T \subseteq Nat
    <3> HIDE DEF c
    <3>1. QED
      BY <1>1
  <2>3. QED
    BY <2>1, <2>2, LeastNat
<1>5. PICK i \in 1..n : k <= c(i) /\ \A j \in 1..n : k <= c(j) => c(i) <= c(j)
  <2> HIDE DEF c
  <2>1. PICK i \in G : t = c(i)
    OBVIOUS
  <2>2. QED
    BY <1>4, <2>1
<1>6. PICK L \in SUBSET (1..n) : L = Lower(v, v[i])
  BY DEF Lower
<1>7. Cardinality(L) \in Nat
  BY RankCounts
<1>8. Cardinality(L) < k
  <2>1. SUFFICES ASSUME k <= Cardinality(L)
                 PROVE  FALSE
    BY <1>7
  <2>2. L # {}
    <3>1. SUFFICES ASSUME L = {}
                   PROVE  FALSE
      OBVIOUS
    <3>2. Cardinality(L) = 0
      BY <3>1, FS_EmptySet
    <3>3. QED
      BY <2>1, <3>2
  <2>3. PICK y \in L : \A j \in L : v[j] <= v[y]
    BY <2>2, Highest
  <2>4. \A j \in 1..n : j \in L <=> v[j] < v[i]
    BY <1>6 DEF Lower
  <2>5. y \in 1..n /\ v[y] < v[i]
    BY <2>4
  <2>6. NoHigher(v, v[y]) = L
    <3>1. \A j \in 1..n : v[j] <= v[y] <=> j \in L
      BY <2>3, <2>4, <2>5
    <3>2. QED
      BY <3>1 DEF NoHigher
  <2>7. c(y) = Cardinality(L)
    BY <2>6
  <2>8. c(y) < c(i) /\ c(y) \in Nat /\ c(i) \in Nat
    BY <1>1, <1>2, <2>5
  <2>9. k <= c(y)
    BY <2>1, <2>7
  <2>10. c(i) <= c(y)
    BY <1>5, <2>5, <2>9
  <2> HIDE DEF c
  <2>11. QED
    BY <2>8, <2>10
<1>9. IsRanked(v, k, v[i])
  BY <1>5, <1>6, <1>8 DEF IsRanked
<1>10. QED
  BY <1>9

\* There is one.
LEMMA RankedOnce ==
  ASSUME NEW n \in Nat, NEW v \in [1..n -> Int], NEW k \in 1..n,
         NEW x, IsRanked(v, k, x), NEW y, IsRanked(v, k, y)
  PROVE  x = y
<1>1. x \in Int /\ y \in Int
  BY DEF IsRanked
<1>2. ASSUME NEW a \in Int, IsRanked(v, k, a), NEW b \in Int, IsRanked(v, k, b), a < b
      PROVE  FALSE
  <2>1. PICK A \in SUBSET (1..n), B \in SUBSET (1..n) : A = NoHigher(v, a) /\ B = Lower(v, b)
    BY DEF NoHigher, Lower
  <2>2. A \subseteq B
    <3>1. \A i \in 1..n : v[i] \in Int
      OBVIOUS
    <3>2. \A i \in 1..n : v[i] <= a => v[i] < b
      BY <1>2, <3>1
    <3>3. QED
      BY <2>1, <3>2 DEF NoHigher, Lower
  <2>3. IsFiniteSet(B) /\ Cardinality(A) \in Nat /\ Cardinality(B) \in Nat
    BY RankCounts
  <2>4. Cardinality(A) <= Cardinality(B)
    BY <2>2, <2>3, FS_Subset
  <2>5. k <= Cardinality(A) /\ Cardinality(B) < k
    BY <1>2, <2>1 DEF IsRanked
  <2>6. QED
    BY <2>3, <2>4, <2>5
<1>3. ~(x < y) /\ ~(y < x)
  BY <1>1, <1>2
<1>4. QED
  BY <1>1, <1>3

LEMMA RankedIs ==
  ASSUME NEW n \in Nat, NEW v \in [1..n -> Int], NEW k \in 1..n
  PROVE  IsRanked(v, k, Ranked(v, k)) /\ Ranked(v, k) \in {v[i] : i \in 1..n}
<1>1. Ranked(v, k) = CHOOSE x \in {v[i] : i \in DOMAIN v} :
                       /\ Cardinality({i \in DOMAIN v : v[i] < x}) < k
                       /\ k <= Cardinality({i \in DOMAIN v : v[i] <= x})
  BY DEF Ranked
<1>2. Ranked(v, k) = CHOOSE x : IsRanked(v, k, x)
  BY <1>1 DEF IsRanked, Lower, NoHigher
<1>3. IsRanked(v, k, Ranked(v, k))
  BY <1>2, RankedExists
<1>4. QED
  BY <1>3 DEF IsRanked

\* Of the negated values it is the one at the mirrored place.
LEMMA RankedMirrors ==
  ASSUME NEW n \in Nat, NEW v \in [1..n -> Int], NEW k \in 1..n, NEW l \in 1..n, k + l = n + 1,
         NEW w \in [1..n -> Int], \A i \in 1..n : w[i] = -v[i]
  PROVE  Ranked(w, k) = -Ranked(v, l)
<1>1. PICK x \in Int : x = Ranked(v, l) /\ IsRanked(v, l, x)
  <2>1. PICK y : y = Ranked(v, l)
    OBVIOUS
  <2>2. IsRanked(v, l, y) /\ y \in {v[i] : i \in 1..n}
    BY <2>1, RankedIs
  <2>3. y \in Int
    BY <2>2
  <2>4. QED
    BY <2>1, <2>2, <2>3
<1>2. PICK A \in SUBSET (1..n), B \in SUBSET (1..n) : A = Lower(v, x) /\ B = NoHigher(v, x)
  BY DEF NoHigher, Lower
<1>3. /\ Cardinality(A) \in Nat /\ Cardinality(B) \in Nat
      /\ Cardinality((1..n) \ A) = n - Cardinality(A)
      /\ Cardinality((1..n) \ B) = n - Cardinality(B)
  BY RankCounts
<1>4. Cardinality(A) < l /\ l <= Cardinality(B)
  BY <1>1, <1>2 DEF IsRanked
<1>5. \A i \in 1..n : /\ (w[i] < -x <=> ~(v[i] <= x))
                      /\ (w[i] <= -x <=> ~(v[i] < x))
  <2>1. TAKE i \in 1..n
  <2>2. PICK a \in Int : a = v[i] /\ w[i] = -a
    OBVIOUS
  <2>3. (-a < -x <=> ~(a <= x)) /\ (-a <= -x <=> ~(a < x))
    OBVIOUS
  <2>4. QED
    BY <2>2, <2>3
<1>6. Lower(w, -x) = (1..n) \ B /\ NoHigher(w, -x) = (1..n) \ A
  BY <1>2, <1>5 DEF Lower, NoHigher
<1>7. Cardinality(Lower(w, -x)) < k /\ k <= Cardinality(NoHigher(w, -x))
  <2>1. n - Cardinality(B) < k /\ k <= n - Cardinality(A)
    <3>1. PICK a \in Nat, b \in Nat : a = Cardinality(A) /\ b = Cardinality(B)
      BY <1>3
    <3>2. a < l /\ l <= b
      BY <1>4, <3>1
    <3>3. n - b < k /\ k <= n - a
      BY <3>2
    <3>4. QED
      BY <3>1, <3>3
  <2>2. QED
    BY <1>3, <1>6, <2>1
<1>8. -x \in {w[i] : i \in DOMAIN w}
  <2>1. PICK i \in 1..n : x = v[i]
    BY <1>1 DEF IsRanked
  <2>2. QED
    BY <2>1
<1>9. IsRanked(w, k, -x)
  BY <1>7, <1>8 DEF IsRanked
<1>10. IsRanked(w, k, Ranked(w, k))
  BY RankedIs
<1>11. QED
  BY <1>1, <1>9, <1>10, RankedOnce

LEMMA Halves ==
  ASSUME NEW a \in Int, a % 2 = 0
  PROVE  \E p \in Int : a = 2 * p
<1>1. a \div 2 \in Int
  OBVIOUS
<1>2. a = 2 * (a \div 2) + (a % 2)
  OBVIOUS
<1>3. QED
  BY <1>1, <1>2

LEMMA MedianMirrors ==
  ASSUME NEW n \in Nat, n # 0, NEW v \in [1..n -> Int], \A i \in 1..n : v[i] % 2 = 0,
         NEW w \in [1..n -> Int], \A i \in 1..n : w[i] = -v[i]
  PROVE  Median(w) = -Median(v) /\ Median(v) \in Int
<1>1. Len(v) = n /\ Len(w) = n
  OBVIOUS
<1>2. PICK m \in Nat : m = n \div 2 /\ (n = 2 * m \/ n = 2 * m + 1)
  OBVIOUS
<1>3. ASSUME n = 2 * m + 1
      PROVE  Median(w) = -Median(v) /\ Median(v) \in Int
  <2>1. m + 1 \in 1..n /\ (m + 1) + (m + 1) = n + 1 /\ n % 2 = 1
    BY <1>3
  <2>2. Median(v) = Ranked(v, m + 1) /\ Median(w) = Ranked(w, m + 1)
    BY <1>1, <1>2, <2>1 DEF Median
  <2>3. Ranked(w, m + 1) = -Ranked(v, m + 1)
    BY <2>1, RankedMirrors
  <2>4. Ranked(v, m + 1) \in {v[i] : i \in 1..n}
    BY <2>1, RankedIs
  <2>5. QED
    BY <2>2, <2>3, <2>4
<1>4. ASSUME n = 2 * m
      PROVE  Median(w) = -Median(v) /\ Median(v) \in Int
  <2>1. m \in 1..n /\ m + 1 \in 1..n /\ m + (m + 1) = n + 1 /\ (m + 1) + m = n + 1 /\ n % 2 = 0
    BY <1>4
  <2>2. /\ Median(v) = (Ranked(v, m) + Ranked(v, m + 1)) \div 2
        /\ Median(w) = (Ranked(w, m) + Ranked(w, m + 1)) \div 2
    BY <1>1, <1>2, <2>1 DEF Median
  <2>3. Ranked(w, m) = -Ranked(v, m + 1) /\ Ranked(w, m + 1) = -Ranked(v, m)
    BY <2>1, RankedMirrors
  <2>4. Ranked(v, m) \in {v[i] : i \in 1..n} /\ Ranked(v, m + 1) \in {v[i] : i \in 1..n}
    BY <2>1, RankedIs
  <2>5. PICK a \in Int, b \in Int : a = Ranked(v, m) /\ b = Ranked(v, m + 1)
                                    /\ a % 2 = 0 /\ b % 2 = 0
    BY <2>4
  <2>6. (a + b) \div 2 \in Int /\ (-b + -a) \div 2 = -((a + b) \div 2)
    <3>1. PICK p \in Int : a = 2 * p
      BY <2>5, Halves
    <3>2. PICK q \in Int : b = 2 * q
      BY <2>5, Halves
    <3>3. (a + b) \div 2 = p + q
      BY <3>1, <3>2
    <3>4. (-b + -a) \div 2 = -(p + q)
      BY <3>1, <3>2
    <3>5. QED
      BY <3>3, <3>4
  <2>7. QED
    BY <2>2, <2>3, <2>5, <2>6
<1>5. QED
  BY <1>2, <1>3, <1>4

-----------------------------------------------------------------------------
(* The verdict on drift, and the same evidence with the clocks exchanged.  *)

MirroredAll(measures) == [i \in DOMAIN measures |-> Mirrored(measures[i])]

LEMMA MirroredFields ==
  ASSUME NEW m \in Measures
  PROVE  /\ Mirrored(m).ppm = -m.ppm /\ Mirrored(m).uncertainty = m.uncertainty
         /\ (Mirrored(m).silent <=> m.stale) /\ (Mirrored(m).stale <=> m.silent)
<1>1. Mirrored(m).ppm = -m.ppm /\ Mirrored(m).uncertainty = m.uncertainty
  BY DEF Mirrored, Measures
<1>2. Mirrored(m).silent <=> m.stale
  BY DEF Mirrored, Measures
<1>3. Mirrored(m).stale <=> m.silent
  BY DEF Mirrored, Measures
<1>4. QED
  BY <1>1, <1>2, <1>3

LEMMA MirroredSeq ==
  ASSUME NEW measures, WellMeasured(measures)
  PROVE  \E n \in Nat :
           /\ n = Len(measures) /\ DOMAIN measures = 1..n
           /\ n = Len(MirroredAll(measures)) /\ DOMAIN MirroredAll(measures) = 1..n
           /\ \A i \in 1..n :
                /\ measures[i] \in Measures /\ MirroredAll(measures)[i] = Mirrored(measures[i])
                /\ measures[i].ppm \in Int /\ measures[i].uncertainty \in Nat
                /\ MirroredAll(measures)[i].ppm = -measures[i].ppm
                /\ MirroredAll(measures)[i].uncertainty = measures[i].uncertainty
                /\ (MirroredAll(measures)[i].silent <=> measures[i].stale)
                /\ (MirroredAll(measures)[i].stale <=> measures[i].silent)
<1>1. PICK n \in Nat : n = Len(measures) /\ DOMAIN measures = 1..n
  BY LenProperties DEF WellMeasured
<1>2. \A i \in 1..n : measures[i] \in Measures
  BY <1>1, LenProperties DEF WellMeasured
<1>3. PICK mirrored : mirrored = MirroredAll(measures)
  OBVIOUS
<1>4. mirrored = [i \in 1..n |-> Mirrored(measures[i])]
  BY <1>1, <1>3 DEF MirroredAll
<1>5. DOMAIN mirrored = 1..n /\ Len(mirrored) = n
      /\ \A i \in 1..n : mirrored[i] = Mirrored(measures[i])
  BY <1>4
<1>6. ASSUME NEW i \in 1..n
      PROVE  /\ measures[i] \in Measures
             /\ measures[i].ppm \in Int /\ measures[i].uncertainty \in Nat
             /\ mirrored[i].ppm = -measures[i].ppm
             /\ mirrored[i].uncertainty = measures[i].uncertainty
             /\ (mirrored[i].silent <=> measures[i].stale)
             /\ (mirrored[i].stale <=> measures[i].silent)
  <2>1. PICK m \in Measures : m = measures[i]
    BY <1>2
  <2>2. m.ppm \in Int /\ m.uncertainty \in Nat
    BY DEF Measures
  <2>3. mirrored[i] = Mirrored(m)
    BY <1>5, <2>1
  <2>4. QED
    BY <2>1, <2>2, <2>3, MirroredFields
<1>7. QED
  BY <1>1, <1>3, <1>5, <1>6

LEMMA MagnitudeMirrors ==
  ASSUME NEW a \in Int, NEW b \in Int
  PROVE  Magnitude(-a) = Magnitude(a) /\ Magnitude(-a - (-b)) = Magnitude(a - b)
BY DEF Magnitude

LEMMA PpmMirrors ==
  ASSUME NEW measures, WellMeasured(measures), Len(measures) # 0
  PROVE  /\ MedianPpm(measures) \in Int
         /\ MedianPpm(MirroredAll(measures)) = -MedianPpm(measures)
<1>1. PICK mirrored : mirrored = MirroredAll(measures)
  OBVIOUS
<1>2. PICK n \in Nat :
        /\ n = Len(measures) /\ DOMAIN measures = 1..n /\ DOMAIN mirrored = 1..n
        /\ \A i \in 1..n : measures[i].ppm \in Int /\ mirrored[i].ppm = -measures[i].ppm
  BY <1>1, MirroredSeq
<1>3. PICK v : v = [i \in 1..n |-> measures[i].ppm]
  OBVIOUS
<1>4. PICK w : w = [i \in 1..n |-> mirrored[i].ppm]
  OBVIOUS
<1>5. \A i \in 1..n : v[i] = measures[i].ppm /\ w[i] = -v[i] /\ v[i] \in Int /\ w[i] \in Int
  <2>1. TAKE i \in 1..n
  <2>2. v[i] = measures[i].ppm /\ w[i] = mirrored[i].ppm
    BY <1>3, <1>4
  <2>3. QED
    BY <1>2, <2>2
<1>6. v \in [1..n -> Int] /\ w \in [1..n -> Int]
  BY <1>3, <1>4, <1>5
<1>7. \A i \in 1..n : v[i] % 2 = 0 /\ w[i] = -v[i]
  BY <1>2, <1>5 DEF WellMeasured
<1>8. MedianPpm(measures) = Median(v) /\ MedianPpm(mirrored) = Median(w)
  BY <1>2, <1>3, <1>4 DEF MedianPpm
<1>9. n # 0
  BY <1>2
<1>10. QED
  BY <1>1, <1>6, <1>7, <1>8, <1>9, MedianMirrors

LEMMA UncertaintyMirrors ==
  ASSUME NEW measures, WellMeasured(measures), Len(measures) # 0
  PROVE  DecisionUncertainty(MirroredAll(measures)) = DecisionUncertainty(measures)
<1>1. PICK mirrored : mirrored = MirroredAll(measures)
  OBVIOUS
<1>2. PICK n \in Nat :
        /\ DOMAIN measures = 1..n /\ DOMAIN mirrored = 1..n
        /\ \A i \in 1..n : /\ measures[i].ppm \in Int /\ mirrored[i].ppm = -measures[i].ppm
                           /\ mirrored[i].uncertainty = measures[i].uncertainty
  BY <1>1, MirroredSeq
<1>3. PICK c \in Int : c = MedianPpm(measures) /\ MedianPpm(mirrored) = -c
  BY <1>1, PpmMirrors
<1>4. [i \in DOMAIN mirrored |-> mirrored[i].uncertainty] =
        [i \in DOMAIN measures |-> measures[i].uncertainty]
  BY <1>2
<1>5. [i \in DOMAIN mirrored |-> Magnitude(mirrored[i].ppm - MedianPpm(mirrored))] =
        [i \in DOMAIN measures |-> Magnitude(measures[i].ppm - MedianPpm(measures))]
  <2>1. \A i \in 1..n : Magnitude(mirrored[i].ppm - MedianPpm(mirrored)) =
                          Magnitude(measures[i].ppm - MedianPpm(measures))
    BY <1>2, <1>3, MagnitudeMirrors
  <2>2. QED
    BY <1>2, <2>1
<1>6. QED
  BY <1>1, <1>4, <1>5 DEF DecisionUncertainty

LEMMA DirectionMirrors ==
  ASSUME NEW measures, WellMeasured(measures)
  PROVE  /\ Direction(measures) \in {"faster", "slower", "none"}
         /\ Direction(MirroredAll(measures)) =
              CASE Direction(measures) = "faster" -> "slower"
                [] Direction(measures) = "slower" -> "faster"
                [] OTHER -> "none"
<1>1. PICK mirrored : mirrored = MirroredAll(measures)
  OBVIOUS
<1>2. PICK n \in Nat :
        /\ n = Len(measures) /\ n = Len(mirrored)
        /\ DOMAIN measures = 1..n /\ DOMAIN mirrored = 1..n
        /\ \A i \in 1..n : /\ measures[i].ppm \in Int /\ measures[i].uncertainty \in Nat
                           /\ mirrored[i].ppm = -measures[i].ppm
                           /\ mirrored[i].uncertainty = measures[i].uncertainty
  BY <1>1, MirroredSeq
<1> DEFINE Beyond(m) == Largest({m.uncertainty, MinNumericalPpm})
           F == {i \in DOMAIN measures : measures[i].ppm > Beyond(measures[i])}
           S == {i \in DOMAIN measures : measures[i].ppm < -Beyond(measures[i])}
           P(X) == n >= 3 /\ 5 * Cardinality(X) >= 4 * n
<1>3. \A i \in 1..n : /\ Beyond(measures[i]) \in Nat /\ Beyond(measures[i]) > 0
                      /\ Beyond(mirrored[i]) = Beyond(measures[i])
  <2>1. TAKE i \in 1..n
  <2>2. PICK u \in Nat : u = measures[i].uncertainty /\ u = mirrored[i].uncertainty
    BY <1>2
  <2>3. MinNumericalPpm \in Nat /\ MinNumericalPpm > 0
    BY ReportAssumption
  <2>4. Largest({u, MinNumericalPpm}) \in {u, MinNumericalPpm}
        /\ MinNumericalPpm <= Largest({u, MinNumericalPpm})
    BY <2>3, LargestOfTwo
  <2>5. QED
    BY <2>2, <2>3, <2>4
<1>4. {i \in DOMAIN mirrored : mirrored[i].ppm > Beyond(mirrored[i])} = S
  <2>1. \A i \in 1..n : mirrored[i].ppm > Beyond(mirrored[i]) <=> measures[i].ppm < -Beyond(measures[i])
    <3>1. TAKE i \in 1..n
    <3>2. PICK a \in Int, b \in Nat :
            /\ a = measures[i].ppm /\ b = Beyond(measures[i])
            /\ -a = mirrored[i].ppm /\ b = Beyond(mirrored[i])
      BY <1>2, <1>3
    <3> HIDE DEF Beyond
    <3>3. -a > b <=> a < -b
      OBVIOUS
    <3>4. QED
      BY <3>2, <3>3
  <2> HIDE DEF Beyond
  <2>2. QED
    BY <1>2, <2>1
<1>5. {i \in DOMAIN mirrored : mirrored[i].ppm < -Beyond(mirrored[i])} = F
  <2>1. \A i \in 1..n : mirrored[i].ppm < -Beyond(mirrored[i]) <=> measures[i].ppm > Beyond(measures[i])
    <3>1. TAKE i \in 1..n
    <3>2. PICK a \in Int, b \in Nat :
            /\ a = measures[i].ppm /\ b = Beyond(measures[i])
            /\ -a = mirrored[i].ppm /\ b = Beyond(mirrored[i])
      BY <1>2, <1>3
    <3> HIDE DEF Beyond
    <3>3. -a < -b <=> a > b
      OBVIOUS
    <3>4. QED
      BY <3>2, <3>3
  <2> HIDE DEF Beyond
  <2>2. QED
    BY <1>2, <2>1
<1>6. Direction(measures) = IF P(F) THEN "faster" ELSE IF P(S) THEN "slower" ELSE "none"
  BY <1>2 DEF Direction
<1>7. Direction(mirrored) = IF P(S) THEN "faster" ELSE IF P(F) THEN "slower" ELSE "none"
  <2> DEFINE F2 == {i \in DOMAIN mirrored : mirrored[i].ppm > Beyond(mirrored[i])}
             S2 == {i \in DOMAIN mirrored : mirrored[i].ppm < -Beyond(mirrored[i])}
  <2>1. Direction(mirrored) = IF P(F2) THEN "faster" ELSE IF P(S2) THEN "slower" ELSE "none"
    BY <1>2 DEF Direction
  <2>2. F2 = S /\ S2 = F
    BY <1>4, <1>5
  <2> HIDE DEF F2, S2, F, S, P
  <2>3. QED
    BY <2>1, <2>2
<1>8. ~(P(F) /\ P(S))
  <2>1. F \in SUBSET (1..n) /\ S \in SUBSET (1..n)
    BY <1>2
  <2>2. F \intersect S = {}
    <3>1. \A i \in 1..n : ~(measures[i].ppm > Beyond(measures[i]) /\ measures[i].ppm < -Beyond(measures[i]))
      <4>1. TAKE i \in 1..n
      <4>2. PICK a \in Int, b \in Nat : a = measures[i].ppm /\ b = Beyond(measures[i])
        BY <1>2, <1>3
      <4> HIDE DEF Beyond
      <4>3. ~(a > b /\ a < -b)
        OBVIOUS
      <4>4. QED
        BY <4>2, <4>3
    <3> HIDE DEF Beyond
    <3>2. QED
      BY <1>2, <3>1
  <2> HIDE DEF F, S
  <2>3. PICK A \in SUBSET (1..n), B \in SUBSET (1..n) : A = F /\ B = S /\ A \intersect B = {}
    BY <2>1, <2>2
  <2>4. IsFiniteSet(A) /\ IsFiniteSet(B) /\ Cardinality(A) \in Nat /\ Cardinality(B) \in Nat
        /\ A \union B \in SUBSET (1..n)
    BY RankCounts
  <2>5. Cardinality(A \union B) <= n
    BY <2>4, RankCounts
  <2>6. Cardinality(A \union B) = Cardinality(A) + Cardinality(B)
    <3>1. Cardinality({}) = 0
      BY FS_EmptySet
    <3>2. Cardinality(A \union B) = Cardinality(A) + Cardinality(B) - Cardinality(A \intersect B)
      BY <2>4, FS_Union
    <3>3. Cardinality(A \intersect B) = 0
      BY <2>3, <3>1
    <3>4. QED
      BY <2>4, <3>2, <3>3
  <2>7. PICK a \in Nat, b \in Nat : a = Cardinality(F) /\ b = Cardinality(S) /\ a + b <= n
    BY <2>3, <2>4, <2>5, <2>6
  <2>8. ~(n >= 3 /\ 5 * a >= 4 * n /\ 5 * b >= 4 * n)
    BY <2>7
  <2>9. QED
    BY <2>7, <2>8
<1> HIDE DEF P, F, S
<1>9. QED
  BY <1>1, <1>6, <1>7, <1>8

LEMMA RecurringMirrors ==
  ASSUME NEW measures, WellMeasured(measures)
  PROVE  Recurring(MirroredAll(measures)) <=> Recurring(measures)
<1>1. PICK mirrored : mirrored = MirroredAll(measures)
  OBVIOUS
<1>2. PICK n \in Nat :
        /\ DOMAIN measures = 1..n /\ DOMAIN mirrored = 1..n
        /\ \A i \in 1..n : /\ (mirrored[i].silent <=> measures[i].stale)
                           /\ (mirrored[i].stale <=> measures[i].silent)
  BY <1>1, MirroredSeq
<1>3. /\ {i \in DOMAIN mirrored : mirrored[i].silent} = {i \in DOMAIN measures : measures[i].stale}
      /\ {i \in DOMAIN mirrored : mirrored[i].stale} = {i \in DOMAIN measures : measures[i].silent}
  BY <1>2
<1>4. /\ Direction(measures) \in {"faster", "slower", "none"}
      /\ Direction(mirrored) = CASE Direction(measures) = "faster" -> "slower"
                                 [] Direction(measures) = "slower" -> "faster"
                                 [] OTHER -> "none"
  BY <1>1, DirectionMirrors
<1>5. ASSUME NEW ms
      PROVE  Recurring(ms) <=>
               CASE Direction(ms) = "faster" -> Cardinality({i \in DOMAIN ms : ms[i].silent}) >= 3
                 [] Direction(ms) = "slower" -> Cardinality({i \in DOMAIN ms : ms[i].stale}) >= 3
                 [] OTHER -> FALSE
  BY DEF Recurring
<1>6. CASE Direction(measures) = "faster"
  BY <1>1, <1>3, <1>4, <1>5, <1>6
<1>7. CASE Direction(measures) = "slower"
  BY <1>1, <1>3, <1>4, <1>5, <1>7
<1>8. CASE Direction(measures) = "none"
  BY <1>1, <1>3, <1>4, <1>5, <1>8
<1>9. QED
  BY <1>4, <1>6, <1>7, <1>8

LEMMA ConflictsMirror ==
  ASSUME NEW measures, WellMeasured(measures), NEW trend \in Seq(Int), NEW requested \in Nat
  PROVE  Conflicts(MirroredAll(measures), [i \in DOMAIN trend |-> -trend[i]], requested)
           <=> Conflicts(measures, trend, requested)
<1>1. PICK mirrored : mirrored = MirroredAll(measures)
  OBVIOUS
<1>2. PICK back : back = [i \in DOMAIN trend |-> -trend[i]]
  OBVIOUS
<1>3. PICK n \in Nat : n = Len(trend) /\ DOMAIN trend = 1..n
  BY LenProperties
<1>4. back \in Seq(Int) /\ Len(back) = n
  <2>1. \A i \in 1..n : -trend[i] \in Int
    <3>1. \A i \in 1..n : trend[i] \in Int
      BY <1>3, LenProperties
    <3>2. QED
      BY <3>1
  <2>2. back \in [1..n -> Int]
    BY <1>2, <1>3, <2>1
  <2>3. QED
    BY <2>2
<1>5. back # <<>> <=> trend # <<>>
  BY <1>3, <1>4, EmptySeq
<1>6. /\ Direction(measures) \in {"faster", "slower", "none"}
      /\ Direction(mirrored) = CASE Direction(measures) = "faster" -> "slower"
                                 [] Direction(measures) = "slower" -> "faster"
                                 [] OTHER -> "none"
  BY <1>1, DirectionMirrors
<1>7. ASSUME trend # <<>>
      PROVE  Conflicts(mirrored, back, requested) <=> Conflicts(measures, trend, requested)
  <2>1. n # 0
    BY <1>3, <1>7, EmptySeq
  <2>2. PICK x \in Int : x = trend[1] /\ back[1] = -x
    BY <1>2, <1>3, <2>1, LenProperties
  <2>3. /\ Magnitude(-x) = Magnitude(x)
        /\ (-x > TrendNoise <=> x < -TrendNoise) /\ (-x < -TrendNoise <=> x > TrendNoise)
    <3>1. TrendNoise \in Nat
      BY ReportAssumption
    <3>2. QED
      BY <3>1, MagnitudeMirrors
  <2>4. Conflicts(measures, trend, requested) <=>
          /\ \/ Direction(measures) = "faster" /\ x > TrendNoise
             \/ Direction(measures) = "slower" /\ x < -TrendNoise
          /\ Magnitude(x) * requested >= TrendTolerance
    BY <1>7, <2>2 DEF Conflicts
  <2>5. Conflicts(mirrored, back, requested) <=>
          /\ \/ Direction(mirrored) = "faster" /\ -x > TrendNoise
             \/ Direction(mirrored) = "slower" /\ -x < -TrendNoise
          /\ Magnitude(-x) * requested >= TrendTolerance
    BY <1>5, <1>7, <2>2 DEF Conflicts
  <2>6. /\ Direction(mirrored) = "faster" <=> Direction(measures) = "slower"
        /\ Direction(mirrored) = "slower" <=> Direction(measures) = "faster"
    BY <1>6
  <2>7. QED
    BY <2>3, <2>4, <2>5, <2>6
<1>8. ASSUME trend = <<>>
      PROVE  Conflicts(mirrored, back, requested) <=> Conflicts(measures, trend, requested)
  BY <1>5, <1>8 DEF Conflicts
<1>9. QED
  BY <1>1, <1>2, <1>7, <1>8

\* Exchanging the clocks does not change the verdict.
LEMMA VerdictMirrors ==
  ASSUME NEW lines, NEW ready, NEW measures, WellMeasured(measures),
         NEW trend \in Seq(Int), Requested(lines) \in Nat
  PROVE  ClassifyDrift(lines, ready, MirroredAll(measures), [i \in DOMAIN trend |-> -trend[i]])
           = ClassifyDrift(lines, ready, measures, trend)
<1>1. PICK mirrored : mirrored = MirroredAll(measures)
  OBVIOUS
<1>2. PICK back : back = [i \in DOMAIN trend |-> -trend[i]]
  OBVIOUS
<1>3. PICK n \in Nat : n = Len(measures) /\ n = Len(mirrored)
  BY <1>1, MirroredSeq
<1>4. CASE n < 3
  <2>1. \A ms, t : Len(ms) < 3 => ClassifyDrift(lines, ready, ms, t) = "inconclusive"
    BY DEF ClassifyDrift
  <2>2. QED
    BY <1>1, <1>2, <1>3, <1>4, <2>1
<1>5. CASE ~(n < 3)
  <2>1. n # 0
    BY <1>5
  <2>2. PICK c \in Int : c = MedianPpm(measures) /\ MedianPpm(mirrored) = -c
    BY <1>1, <1>3, <2>1, PpmMirrors
  <2>3. DecisionUncertainty(mirrored) = DecisionUncertainty(measures)
    BY <1>1, <1>3, <2>1, UncertaintyMirrors
  <2>4. Magnitude(MedianPpm(mirrored)) = Magnitude(MedianPpm(measures))
    BY <2>2, MagnitudeMirrors
  <2>5. ConservativePpm(mirrored) = ConservativePpm(measures)
    BY <2>3, <2>4 DEF ConservativePpm
  <2>6. Direction(mirrored) # "none" <=> Direction(measures) # "none"
    BY <1>1, DirectionMirrors
  <2>7. Recurring(mirrored) <=> Recurring(measures)
    BY <1>1, RecurringMirrors
  <2>8. Conflicts(mirrored, back, Requested(lines)) <=> Conflicts(measures, trend, Requested(lines))
    BY <1>1, <1>2, ConflictsMirror
  <2>9. ClassifyDrift(lines, ready, mirrored, back) = ClassifyDrift(lines, ready, measures, trend)
    BY <1>3, <2>3, <2>4, <2>5, <2>6, <2>7, <2>8 DEF ClassifyDrift
  <2>10. QED
    BY <1>1, <1>2, <2>9
<1>6. QED
  BY <1>4, <1>5

-----------------------------------------------------------------------------
(* What a report is of.                                                    *)

LEMMA MeasuredTyped ==
  ASSUME NEW W, NEW windows \in Seq(W), NEW profile \in Profiles
  PROVE  WellMeasured(Measured(windows, profile))
<1>1. /\ profile \in Seq(Measures) /\ profile # <<>>
      /\ \A i \in DOMAIN profile : profile[i].ppm % 2 = 0
  BY EvidenceAssumption
<1>2. PICK n \in Nat : DOMAIN windows = 1..n
  BY LenProperties
<1>3. PICK p \in Nat : p = Len(profile) /\ DOMAIN profile = 1..p /\ p # 0
  BY <1>1, LenProperties, EmptySeq
<1>4. PICK place : place = [i \in 1..n |-> ((i - 1) % p) + 1]
  OBVIOUS
<1>5. ASSUME NEW i \in 1..n
      PROVE  place[i] \in 1..p
  <2>1. PICK j \in Nat : j = i - 1
    OBVIOUS
  <2>2. j % p \in 0..(p - 1)
    BY <1>3
  <2>3. place[i] = (j % p) + 1
    BY <1>4, <2>1
  <2>4. QED
    BY <2>2, <2>3
<1>6. PICK measures : measures = Measured(windows, profile)
  OBVIOUS
<1>7. measures = [i \in 1..n |-> profile[place[i]]]
  BY <1>2, <1>3, <1>4, <1>6 DEF Measured
<1>8. \A i \in 1..p : profile[i] \in Measures /\ profile[i].ppm % 2 = 0
  BY <1>1, <1>3, LenProperties
<1>9. \A i \in 1..n : measures[i] \in Measures /\ measures[i].ppm % 2 = 0
  BY <1>5, <1>7, <1>8
<1>10. measures \in [1..n -> Measures] /\ DOMAIN measures = 1..n
  BY <1>7, <1>9
<1>11. measures \in Seq(Measures)
  BY <1>10
<1>12. QED
  BY <1>6, <1>9, <1>10, <1>11 DEF WellMeasured

LEMMA MadeReport ==
  ASSUME EInv, MakeReport
  PROVE  /\ Parses(file) /\ file' = file
         /\ Reported'
<1>1. Parses(file) /\ file' = file
  BY DEF MakeReport
<1>2. PICK operator, measures, trend :
        /\ report' = Report(file, measures, trend, operator)
        /\ \/ \E profile \in Profiles : measures = Measured(ClockWindows(file), profile)
           \/ measures = <<>>
        /\ trend \in Trends \union {<<>>}
  BY DEF MakeReport
<1>3. ClockWindows(file) \in Seq(Spans(file))
  BY <1>1, ParsedLines, ClockWindowsAreSpans
<1>4. WellMeasured(<<>>)
  BY EmptySeq DEF WellMeasured
<1>5. WellMeasured(measures)
  BY <1>2, <1>3, <1>4, MeasuredTyped
<1>6. trend \in Seq(Int)
  BY <1>2, EvidenceAssumption, EmptySeq
<1>7. /\ report'.status = "written" /\ report'.windows = ClockWindows(file)
      /\ report'.drift = ClassifyDrift(file, report'.ready, measures, trend)
      /\ report'.measures = measures /\ report'.trend = trend
  BY <1>2 DEF Report
<1>8. QED
  BY <1>1, <1>5, <1>6, <1>7 DEF Reported

LEMMA NextReported ==
  ASSUME EInv, Reported, [Next]_labVars
  PROVE  Reported'
<1>1. report.status = "written" => run.pc = "done"
  BY DEF EInv, Judged
<1>2. CASE UNCHANGED <<file, report>>
  BY <1>2 DEF Reported
<1>3. CASE run.pc # "done" /\ report' = report
  BY <1>1, <1>3 DEF Reported
<1>4. CASE UNCHANGED evidenceVars
  BY <1>2, <1>4 DEF evidenceVars
<1>5. CASE Dispatch
  <2>1. ASSUME NEW mode, StartEvidence(mode)
        PROVE  Reported'
    BY <1>3, <2>1 DEF StartEvidence, EvidenceAt
  <2>2. CASE MakeReport
    BY <2>2, MadeReport
  <2>3. QED
    BY <1>4, <1>5, <2>1, <2>2 DEF Dispatch
<1>6. CASE EvidenceSteps
  BY <1>2, <1>3, <1>6
     DEF EvidenceSteps, RunNext, WriteStarted, WakeUp, CheckEngine, WritePeriodic, WriteFailed,
         StopRun, WriteFinal, CutShort, EngineFails, EvidenceAt
<1>7. QED
  BY <1>4, <1>5, <1>6 DEF Next, CaptureSteps, labVars

LEMMA WrittenSymmetric ==
  ASSUME EInv, Reported
  PROVE  DriftIsSymmetric
<1>1. SUFFICES ASSUME report.status = "written"
               PROVE  report.drift = ClassifyDrift(file, report.ready,
                        [i \in DOMAIN report.measures |-> Mirrored(report.measures[i])],
                        [i \in DOMAIN report.trend |-> -report.trend[i]])
  BY DEF DriftIsSymmetric
<1>2. /\ Parses(file) /\ WellMeasured(report.measures) /\ report.trend \in Seq(Int)
      /\ report.drift = ClassifyDrift(file, report.ready, report.measures, report.trend)
  BY <1>1 DEF Reported
<1>3. Requested(file) \in Nat
  <2>1. file \in Seq(LineType) /\ file # <<>>
    BY <1>2, ParsedLines
  <2>2. file[1] \in LineType
    BY <2>1, CountsOf DEF EInv
  <2>3. QED
    BY <2>2 DEF LineType, Requested
<1>4. MirroredAll(report.measures) =
        [i \in DOMAIN report.measures |-> Mirrored(report.measures[i])]
  BY DEF MirroredAll
<1>5. QED
  BY <1>2, <1>3, <1>4, VerdictMirrors

LEMMA InitCuts ==
  ASSUME Init
  PROVE  CutsTold /\ Reported
<1>1. /\ run = [pc |-> "idle", mode |-> "none", schema |-> CurrentSchema, requested |-> 0,
               time |-> 0, outcome |-> "none"]
      /\ file = <<>> /\ report.status # "written"
      /\ history.cuts = {}
  BY DEF Init, EvidenceInit, NoReport
<1>2. DOMAIN file = {}
  BY <1>1
<1>3. CutsTold
  BY <1>1, <1>2 DEF CutsTold
<1>4. QED
  BY <1>1, <1>3 DEF Reported

\* No clock window of a report spans a moment at which a stream was cut or at which
\* nothing was observed for long (clean_segments, clock_windows).
THEOREM WindowsCorrect == Spec => []WindowsAreContinuous
<1>1. EInv /\ CutsTold /\ Reported => WindowsAreContinuous
  BY WrittenContinuous
<1>2. Init => CutsTold /\ Reported
  BY InitCuts
<1>3. QED
  BY <1>1, <1>2, InitE, NextE, NextCuts, NextReported, PTL DEF Spec

\* The verdict on drift is the same for both directions (summarize_clock_analysis,
\* classify_drift).
THEOREM SymmetryCorrect == Spec => []DriftIsSymmetric
<1>1. EInv /\ Reported => DriftIsSymmetric
  BY WrittenSymmetric
<1>2. Init => Reported
  BY InitCuts
<1>3. QED
  BY <1>1, <1>2, InitE, NextE, NextReported, PTL DEF Spec

-----------------------------------------------------------------------------
(* The types.                                                              *)

LEMMA EvidenceTyped ==
  ASSUME EInv
  PROVE  EvidenceTypeOK
<1>0. Typed /\ Limited /\ Judged
  BY DEF EInv
<1>1. /\ run.pc \in RunPcs /\ run.mode \in RunModes /\ run.outcome \in Outcomes
      /\ engine.state \in EngineStates /\ engine.error \in LastErrors
      /\ engine.count \in Counts
  BY <1>0 DEF Typed, RunType, EngineType
<1>2. run.time \in 0..(run.requested + 2 + MaxLate)
  <2>1. run.time \in Nat /\ run.requested \in Nat /\ MaxLate \in Nat
    BY <1>0, CountsOf, EvidenceAssumption
  <2>2. run.time <= run.requested + MaxLate + 1
    BY <1>0, <2>1 DEF Limited
  <2>3. QED
    BY <2>1, <2>2
<1>3. engine.count \in [CounterKinds -> 0..(MaxDisturbances + 1)]
  <2>1. ASSUME NEW kind \in CounterKinds
        PROVE  engine.count[kind] \in 0..(MaxDisturbances + 1)
    <3>1. engine.count[kind] \in Nat /\ history.disturbances \in Nat /\ MaxDisturbances \in Nat
      BY <1>0, CountsOf, EvidenceAssumption
    <3>2. /\ engine.count[kind] <= history.disturbances + 1
          /\ history.disturbances <= MaxDisturbances
      BY <1>0 DEF Limited
    <3>3. QED
      BY <3>1, <3>2
  <2>2. QED
    BY <1>1, <2>1 DEF Counts
<1>4. QED
  BY <1>0, <1>1, <1>2, <1>3
     DEF Judged, EvidenceTypeOK, RunPcs, RunModes, Outcomes, EngineStates, LastErrors

\* Every command still to be given is one of the commands.
Scripted == script \subseteq Commands

\* Every variable of the commands has its type.
THEOREM TypeCorrect == Spec => []TypeOK
<1>1. ASSUME CInv, EInv, Scripted
      PROVE  TypeOK
  BY <1>1, CaptureTyped, EvidenceTyped DEF TypeOK, Scripted
<1>2. Init => Scripted
  BY ScriptAssumption DEF Init, Scripted
<1>3. ASSUME Scripted, [Next]_labVars
      PROVE  Scripted'
  <2>1. script' \subseteq script
    BY <1>3 DEF Next, Dispatch, Begin, CaptureSteps, EvidenceSteps, labVars
  <2>2. QED
    BY <1>3, <2>1 DEF Scripted
<1>4. QED
  BY <1>1, <1>2, <1>3, InitC, NextC, InitE, NextE, PTL DEF Spec
=============================================================================
