-------------------------- MODULE TopicStreamProofs --------------------------
(***************************************************************************)
(* Proofs about the sending side of TopicStream, for every topic           *)
(* configuration, set of targets, window, message size and clock           *)
(* behaviour: types, accounting, the loop over the targets, rate limit,    *)
(* JPEG quality and the sliding window of sent bytes.                      *)
(***************************************************************************)
EXTENDS TopicStream, FiniteSetTheorems, WellFoundedInduction, TLAPS

Entry    == [time : Nat, size : Nat]
LogEntry == [real : Nat, skew : Nat, size : Nat]
Envelope == [to : Targets \cup {"all"}, seq : Nat \ {0}]

-----------------------------------------------------------------------------
(***************************************************************************)
(* Facts about numbers and sequences.                                      *)
(***************************************************************************)

\* A set of naturals that is not empty has a least element.
LEMMA LeastExists ==
  ASSUME NEW S \in SUBSET Nat, S # {}
  PROVE  \E m \in S : \A k \in S : m <= k
<1>1. PICK m \in S : \A k \in S : ~ (<<k, m>> \in OpToRel(<, Nat))
  BY NatLessThanWellFounded, WFMin
<1>2. ASSUME NEW k \in S PROVE m <= k
  <2>1. ~ (k < m)
    BY <1>1 DEF OpToRel
  <2> QED
    BY <2>1
<1> QED
  BY <1>2

\* What Append holds at each position.
LEMMA AppendFacts ==
  ASSUME NEW S, NEW s \in Seq(S), NEW x \in S, NEW c, c = Append(s, x)
  PROVE  /\ c \in Seq(S) /\ Len(s) \in Nat /\ Len(c) = Len(s) + 1
         /\ \A i \in 1..Len(s) : c[i] = s[i]
         /\ c[Len(s) + 1] = x
         /\ \A i \in 1..Len(c) : i \in 1..Len(s) \/ i = Len(s) + 1
  OBVIOUS

\* pruneMetricsWindowLocked removes a prefix: the entries before the first one that is
\* young enough.
LEMMA PruneFacts ==
  ASSUME NEW window \in Seq(Entry), NEW now \in Nat
  PROVE  /\ PruneMetricsWindow(window, now) \in Seq(Entry)
         /\ \E m \in 0..Len(window) :
              /\ Len(PruneMetricsWindow(window, now)) = Len(window) - m
              /\ \A i \in 1..(Len(window) - m) :
                   PruneMetricsWindow(window, now)[i] = window[m + i]
              /\ \A i \in 1..m : now - window[i].time > RateWindow
              /\ m < Len(window) => ~(now - window[m + 1].time > RateWindow)
<1> DEFINE young == {i \in 1..Len(window) : ~(now - window[i].time > RateWindow)}
           P == PruneMetricsWindow(window, now)
<1>0. Len(window) \in Nat /\ young \in SUBSET Nat
  OBVIOUS
<1>1. CASE young = {}
  <2>1. P = <<>> /\ Len(P) = 0 /\ P \in Seq(Entry)
    BY <1>1 DEF PruneMetricsWindow
  <2>2. \A i \in 1..Len(window) : now - window[i].time > RateWindow
    BY <1>1
  <2>3. Len(window) - Len(window) = 0 /\ ~(Len(window) < Len(window))
    BY <1>0
  <2> HIDE DEF P, young
  <2>4. \E m \in 0..Len(window) :
          /\ Len(P) = Len(window) - m
          /\ \A i \in 1..(Len(window) - m) : P[i] = window[m + i]
          /\ \A i \in 1..m : now - window[i].time > RateWindow
          /\ m < Len(window) => ~(now - window[m + 1].time > RateWindow)
    <3>1. Len(window) \in 0..Len(window)
      BY <1>0
    <3>2. \A i \in 1..(Len(window) - Len(window)) : P[i] = window[Len(window) + i]
      BY <2>3
    <3> WITNESS Len(window) \in 0..Len(window)
    <3> QED
      BY <2>1, <2>2, <2>3, <3>2
  <2> QED
    BY <2>1, <2>4 DEF P
<1>2. CASE young # {}
  <2>1. PICK k \in young : \A j \in young : k <= j
    BY <1>0, <1>2, LeastExists
  <2>2. (CHOOSE i \in young : \A j \in young : i <= j) = k
    <3>1. \E i \in young : \A j \in young : i <= j
      BY <2>1
    <3>2. \A i \in young : (\A j \in young : i <= j) => i = k
      BY <1>0, <2>1
    <3> HIDE DEF young
    <3> QED
      BY <3>1, <3>2
  <2>3. k \in 1..Len(window) /\ ~(now - window[k].time > RateWindow)
    OBVIOUS
  <2>4. \A i \in 1..(k - 1) : now - window[i].time > RateWindow
    <3> SUFFICES ASSUME NEW i \in 1..(k - 1), ~(now - window[i].time > RateWindow) PROVE FALSE
      OBVIOUS
    <3>1. i \in young /\ ~(k <= i)
      BY <2>3
    <3> QED
      BY <2>1, <3>1
  <2>5. P = SubSeq(window, k, Len(window))
    BY <1>2, <2>2 DEF PruneMetricsWindow
  <2> HIDE DEF P, young
  <2>6. /\ SubSeq(window, k, Len(window)) \in Seq(Entry)
        /\ Len(SubSeq(window, k, Len(window))) = Len(window) - (k - 1)
        /\ \A i \in 1..(Len(window) - (k - 1)) :
             SubSeq(window, k, Len(window))[i] = window[(k - 1) + i]
    BY <1>0, <2>3
  <2>7. k - 1 \in 0..Len(window) /\ (k - 1) + 1 = k
    BY <1>0, <2>3
  <2> QED
    BY <2>3, <2>4, <2>5, <2>6, <2>7 DEF P
<1> QED
  BY <1>1, <1>2

-----------------------------------------------------------------------------
(***************************************************************************)
(* What the steps of a callback do.                                        *)
(***************************************************************************)

\* In the loop a sequence number has been taken, and an image has one destination.
LoopInv ==
  /\ Publishing => sequence > 0
  /\ topic.image => Len(keys) <= 1

\* The ROS clock was set back by at most MaxRollback, so it shows a positive time.
ClockInv == skew <= MaxRollback

LEMMA NowFacts ==
  ASSUME TypeOK, ClockInv
  PROVE  Now \in Nat /\ Now > 0 /\ MaxRollback \in Nat /\ Start \in Nat
  BY SenderAssumption, SMTT(60) DEF TypeOK, ClockInv, Now

LEMMA TopicFacts ==
  ASSUME TypeOK
  PROVE  /\ topic \in TopicCfg
         /\ topic.interval \in Nat /\ topic.min \in Nat /\ topic.max \in Nat
         /\ topic.step \in Nat /\ topic.step > 0 /\ topic.quality \in Nat
         /\ topic.dynamic_dst \in BOOLEAN /\ topic.image \in BOOLEAN
         /\ topic.min <= topic.max
         /\ ~(topic.dynamic_dst /\ topic.image)
<1>1. topic \in TopicCfg /\ topic.min <= topic.max /\ ~(topic.dynamic_dst /\ topic.image)
  BY SenderAssumption DEF TypeOK
<1> QED
  BY <1>1 DEF TopicCfg

\* maybeAdaptImageQualityLocked moves the quality one clamped step, if at all.
LEMMA AdaptFacts ==
  ASSUME TypeOK, NEW window, NEW total \in Nat, NEW now,
         MaybeAdaptImageQuality(window, total, now)
  PROVE  /\ quality' \in Nat /\ lastAdapt' \in Nat
         /\ QualityOffRange(quality') <= QualityOffRange(quality)
<1>0. /\ quality \in Nat /\ lastAdapt \in Nat
      /\ topic.min \in Nat /\ topic.max \in Nat /\ topic.min <= topic.max
      /\ topic.step \in Nat /\ topic.step > 0
  BY TopicFacts DEF TypeOK
<1>1. CASE quality > topic.min /\ quality' = Lowered(quality) /\ lastAdapt' = total
  <2>1. /\ quality' \in Nat /\ topic.min <= quality' /\ quality' <= quality
        /\ quality' <= topic.max \/ quality' < quality
    BY <1>0, <1>1 DEF Lowered
  <2> QED
    BY <1>0, <1>1, <2>1 DEF QualityOffRange
<1>2. CASE quality < topic.max /\ quality' = Raised(quality) /\ lastAdapt' = total
  BY <1>0, <1>2 DEF Raised, QualityOffRange
<1>3. CASE UNCHANGED <<quality, lastAdapt>>
  BY <1>0, <1>3 DEF QualityOffRange
<1> QED
  BY <1>1, <1>2, <1>3 DEF MaybeAdaptImageQuality

LEMMA CounterTypes ==
  ASSUME TypeOK
  PROVE  /\ sequence \in Nat /\ sent \in Nat /\ dropped \in Nat /\ payload \in Nat
         /\ turnedAway \in Nat /\ asked \in Nat /\ messages \in Nat
         /\ elapsed \in Nat /\ skew \in Nat /\ pruned \in Nat
  BY DEF TypeOK

LEMMA StoreTypes ==
  ASSUME TypeOK
  PROVE  /\ wire \in Seq(Envelope) /\ published \in Seq(Envelope) /\ Len(published) \in Nat
         /\ recent \in Seq(Entry) /\ log \in Seq(LogEntry) /\ Len(log) \in Nat
         /\ Publishers \subseteq Targets \cup {"all"}
<1>1. wire \in Seq(Envelope) /\ published \in Seq(Envelope) /\ Len(published) \in Nat
  BY DEF TypeOK, Envelope
<1>2. recent \in Seq(Entry) /\ log \in Seq(LogEntry) /\ Len(log) \in Nat
  BY DEF TypeOK, Entry, LogEntry
<1>3. Publishers \subseteq Targets \cup {"all"}
  BY DEF Publishers
<1> QED
  BY <1>1, <1>2, <1>3

LEMMA LoopTypes ==
  ASSUME TypeOK
  PROVE  /\ at \in Nat /\ at > 0 /\ Len(keys) \in Nat /\ at <= Len(keys) + 1
         /\ refused \subseteq 1..(at - 1)
         /\ (Publishing <=> at \in 1..Len(keys)) /\ (~Publishing <=> at = Len(keys) + 1)
<1>1. at \in 1..(Len(keys) + 1) /\ Len(keys) \in Nat /\ refused \subseteq 1..(at - 1)
  BY SMTT(30) DEF TypeOK
<1>2. (Publishing <=> at \in 1..Len(keys)) /\ (~Publishing <=> at = Len(keys) + 1)
  BY <1>1 DEF Publishing
<1> QED
  BY <1>1, <1>2

\* The keys of an encoded message: one for each host that it names, or the fan-out key.
LEMMA DestinationTypes ==
  ASSUME TypeOK, NEW to \in Destinations
  PROVE  /\ to \in Seq(Targets \cup {Unknown, "all"}) /\ Len(to) \in Nat
         /\ topic.image => Len(to) = 1
<1>0. MaxTargets \in Nat /\ (topic.image => ~topic.dynamic_dst)
  BY SenderAssumption, TopicFacts
<1>1. CASE topic.dynamic_dst
  <2>1. PICK n \in 0..MaxTargets : to \in [1..n -> Targets \cup {Unknown}]
    BY <1>1 DEF Destinations
  <2>2. n \in Nat /\ to \in [1..n -> Targets \cup {Unknown, "all"}]
    BY <1>0, <2>1
  <2>3. to \in Seq(Targets \cup {Unknown, "all"})
    BY <2>2
  <2> QED
    BY <1>0, <1>1, <2>3
<1>2. CASE ~topic.dynamic_dst
  <2>1. to = <<"all">>
    BY <1>2 DEF Destinations
  <2>2. <<"all">> \in Seq(Targets \cup {Unknown, "all"}) /\ Len(<<"all">>) = 1
    OBVIOUS
  <2> QED
    BY <2>1, <2>2
<1> QED
  BY <1>1, <1>2

\* A message that passes the rate limit takes the next number and starts a new loop.
LEMMA PassFacts ==
  ASSUME TypeOK, Pass
  PROVE  /\ at = Len(keys) + 1 /\ ~HeldBack
         /\ messages' = messages + 1 /\ sequence' = sequence + 1
         /\ at' = 1 /\ refused' = {} /\ lastPass' = elapsed
         /\ last' \in {last, Now} /\ (topic.interval # 0 => last' = Now)
         /\ UNCHANGED <<topic, elapsed, skew, sent, recent, quality, lastAdapt, log, pruned, wire,
                        published>>
<1>1. Arrives
  BY DEF Pass
<1>2. at = Len(keys) + 1 /\ messages' = messages + 1
  BY <1>1, LoopTypes DEF Arrives
<1> QED
  BY <1>2 DEF Pass, clockVars, metricVars

LEMMA HeldFacts ==
  ASSUME SendFreqControl
  PROVE  /\ HeldBack /\ ~Publishing /\ messages' = messages + 1
         /\ turnedAway' = turnedAway + 1 /\ dropped' = dropped + 1
         /\ UNCHANGED <<topic, elapsed, skew, last, lastPass, sequence, sent, recent, quality,
                        lastAdapt, log, pruned, wire, published, keys, at, payload, refused, asked>>
  BY DEF SendFreqControl, Arrives, clockVars, metricVars, loopVars

\* A round of the loop advances by one key.
LEMMA RoundFacts ==
  ASSUME TypeOK, Round
  PROVE  /\ at \in 1..Len(keys) /\ at' = at + 1 /\ Publishing
         /\ UNCHANGED <<topic, elapsed, skew, last, lastPass, sequence, keys, payload, messages,
                        turnedAway, asked>>
<1>1. Publishing
  BY DEF Round
<1>2. at \in 1..Len(keys)
  BY <1>1, LoopTypes
<1> QED
  BY <1>1, <1>2 DEF Round, clockVars, countVars

LEMMA FailFacts ==
  ASSUME TargetUnknown \/ PublishFails
  PROVE  /\ Round /\ dropped' = dropped + 1
         /\ UNCHANGED <<sent, recent, quality, lastAdapt, log, pruned, wire, published>>
         /\ \/ keys[at] \notin Publishers /\ refused' = refused
            \/ keys[at] \in Publishers /\ refused' = refused \cup {at}
  BY DEF TargetUnknown, PublishFails, metricVars

\* A successful publication puts one envelope on the wire and one entry in the window.
LEMMA PublishFacts ==
  ASSUME TypeOK, ClockInv, LoopInv, PublishSucceeds
  PROVE  /\ Round /\ keys[at] \in Publishers /\ UNCHANGED <<dropped, refused>>
         /\ \E envelope \in Envelope :
              /\ envelope = [to |-> keys[at], seq |-> sequence]
              /\ wire' = Append(wire, envelope) /\ published' = Append(published, envelope)
         /\ sent' = sent + 1 /\ pruned' = elapsed
         /\ \E entry \in Entry, logged \in LogEntry :
              /\ logged.real = elapsed /\ logged.skew = skew /\ entry = Logged(logged)
              /\ recent' = Append(PruneMetricsWindow(recent, Now), entry)
              /\ log' = Append(log, logged)
         /\ quality' \in Nat /\ lastAdapt' \in Nat
         /\ QualityOffRange(quality') <= QualityOffRange(quality)
<1>1. /\ Round /\ keys[at] \in Publishers /\ UNCHANGED <<dropped, refused>> /\ RecordSend
      /\ wire' = Append(wire, [to |-> keys[at], seq |-> sequence])
      /\ published' = Append(published, [to |-> keys[at], seq |-> sequence])
  BY DEF PublishSucceeds
<1>2. sequence \in Nat \ {0}
  BY <1>1, RoundFacts, SMTT(30) DEF LoopInv, TypeOK
<1>3. [to |-> keys[at], seq |-> sequence] \in Envelope
  BY <1>1, <1>2, StoreTypes DEF Envelope
<1> DEFINE entry == [time |-> Now, size |-> payload]
           logged == [real |-> elapsed, skew |-> skew, size |-> payload]
           window == Append(PruneMetricsWindow(recent, Now), entry)
<1>4. entry \in Entry /\ logged \in LogEntry
  BY NowFacts, CounterTypes DEF Entry, LogEntry
<1>5. logged.real = elapsed /\ logged.skew = skew /\ entry = Logged(logged)
  BY DEF Logged, Now
<1>6. /\ sent' = sent + 1 /\ recent' = window /\ log' = Append(log, logged) /\ pruned' = elapsed
      /\ MaybeAdaptImageQuality(window, sent + 1, Now)
  BY <1>1 DEF RecordSend
<1> HIDE DEF window, entry, logged
<1>7. /\ quality' \in Nat /\ lastAdapt' \in Nat
      /\ QualityOffRange(quality') <= QualityOffRange(quality)
  <2>1. sent + 1 \in Nat
    BY CounterTypes
  <2> QED
    BY <1>6, <2>1, AdaptFacts
<1>8. recent' = Append(PruneMetricsWindow(recent, Now), entry)
  BY <1>6 DEF window
<1> QED
  BY <1>1, <1>3, <1>4, <1>5, <1>6, <1>7, <1>8, Zenon

\* The steps that are not the callback's, but for a restart.
LEMMA IdleFacts ==
  ASSUME SenderStep \/ DeliverFrame \/ LoseFrame \/ UNCHANGED vars
  PROVE  UNCHANGED <<topic, last, lastPass, sequence, sent, dropped, quality, lastAdapt, log,
                     published, keys, at, payload, refused, messages, turnedAway, asked>>
  BY DEF SenderStep, GetMetricsSnapshot, Tick, ClockRollback, DeliverFrame, LoseFrame, OffWire,
         vars, senderVars, clockVars, metricVars, loopVars, countVars

LEMMA RestartFacts ==
  ASSUME Restart
  PROVE  /\ last' = 0 /\ lastPass' = -1 /\ sequence' = 0 /\ sent' = 0 /\ dropped' = 0
         /\ recent' = <<>> /\ log' = <<>> /\ pruned' = elapsed /\ published' = <<>>
         /\ keys' = <<>> /\ at' = 1 /\ payload' = 0 /\ refused' = {}
         /\ turnedAway' = 0 /\ asked' = 0 /\ quality' = topic.quality /\ lastAdapt' = 0
         /\ restarts' = restarts + 1
         /\ UNCHANGED <<topic, elapsed, skew, messages, wire, frames, delivered, first, missing>>
  BY DEF Restart, RestartSender, clockVars

-----------------------------------------------------------------------------
(***************************************************************************)
(* Type correctness.                                                       *)
(***************************************************************************)
LEMMA StreamTypeInit == Init => TypeOK /\ ClockInv /\ LoopInv
<1> SUFFICES ASSUME Init PROVE TypeOK /\ ClockInv /\ LoopInv
  OBVIOUS
<1>0. Start \in Nat /\ MaxRollback \in Nat
  BY SenderAssumption
<1>1. topic \in TopicCfg /\ topic.quality \in Nat
  BY SenderAssumption DEF Init, SenderInit, TopicCfg
<1>2. frames \in FrameCounters
  BY DEF Init, NoFrames, FrameCounters
<1>3. /\ recent \in Seq([time : Nat, size : Nat])
      /\ log \in Seq([real : Nat, skew : Nat, size : Nat])
      /\ {wire, published} \subseteq Seq([to : Targets \cup {"all"}, seq : Nat \ {0}])
      /\ keys \in Seq(Targets \cup {Unknown, "all"})
      /\ keys = <<>> /\ Len(keys) = 0 /\ at = 1 /\ refused = {}
  BY DEF Init, SenderInit
<1>4. at \in 1..(Len(keys) + 1) /\ refused \subseteq 1..(at - 1)
  BY <1>3
<1>5. LoopInv
  BY <1>3 DEF LoopInv, Publishing
<1> QED
  BY <1>0, <1>1, <1>2, <1>3, <1>4, <1>5 DEF Init, SenderInit, TypeOK, ClockInv

\* The counters stay naturals: a frame that is observed reveals at least itself.
LEMMA ObserveType ==
  ASSUME NEW f \in FrameCounters, NEW n \in Nat
  PROVE  ObserveCompleteFrameSequence(f, n) \in FrameCounters
<1>1. ASSUME NEW delta \in Nat \ {0}, NEW reset \in {0, 1} PROVE Counted(f, n, delta, reset) \in FrameCounters
  BY DEF Counted, FrameCounters
<1>2. f.last \in Nat /\ (~(n = f.last) /\ ~(n < f.last) => n - f.last \in Nat \ {0})
  BY DEF FrameCounters
<1> QED
  BY <1>1, <1>2 DEF ObserveCompleteFrameSequence

\* The parts of the type invariant that a step of the callback can disturb.
MetricsTyped ==
  /\ sent \in Nat /\ dropped \in Nat /\ pruned \in Nat /\ quality \in Nat /\ lastAdapt \in Nat
  /\ recent \in Seq(Entry) /\ log \in Seq(LogEntry)
  /\ wire \in Seq(Envelope) /\ published \in Seq(Envelope)
LoopTyped ==
  /\ sequence \in Nat /\ last \in Nat /\ lastPass \in Nat \cup {-1}
  /\ keys \in Seq(Targets \cup {Unknown, "all"}) /\ at \in 1..(Len(keys) + 1)
  /\ refused \subseteq 1..(at - 1)
  /\ payload \in Nat /\ messages \in Nat /\ turnedAway \in Nat /\ asked \in Nat
  /\ missing \subseteq Nat \ {0}
CallbackTyped == MetricsTyped /\ LoopTyped /\ LoopInv

LEMMA CallbackTypedNow == TypeOK /\ LoopInv => CallbackTyped
  BY DEF TypeOK, CallbackTyped, MetricsTyped, LoopTyped, Entry, LogEntry, Envelope

LEMMA HeldTypes ==
  ASSUME CallbackTyped, SendFreqControl, UNCHANGED missing
  PROVE  CallbackTyped'
<1>1. MetricsTyped'
  BY HeldFacts DEF CallbackTyped, MetricsTyped
<1>2. LoopTyped'
  <2>1. /\ messages \in Nat /\ messages' = messages + 1
        /\ turnedAway \in Nat /\ turnedAway' = turnedAway + 1
        /\ UNCHANGED <<sequence, last, lastPass, keys, at, refused, payload, asked>>
    BY HeldFacts DEF CallbackTyped, LoopTyped
  <2> QED
    BY <2>1 DEF CallbackTyped, LoopTyped
<1>3. LoopInv'
  BY HeldFacts DEF CallbackTyped, LoopInv, Publishing
<1> QED
  BY <1>1, <1>2, <1>3 DEF CallbackTyped

LEMMA PassTypes ==
  ASSUME TypeOK, ClockInv, CallbackTyped, Pass, dropped' \in Nat, payload' \in Nat, turnedAway' \in Nat,
         asked' \in Nat, missing' \subseteq Nat \ {0},
         keys' \in Seq(Targets \cup {Unknown, "all"}), topic.image => Len(keys') <= 1
  PROVE  CallbackTyped'
<1>1. MetricsTyped'
  BY PassFacts DEF CallbackTyped, MetricsTyped
<1>2. Len(keys') \in Nat
  OBVIOUS
<1>3. /\ sequence \in Nat /\ sequence' = sequence + 1 /\ messages \in Nat /\ last \in Nat
      /\ messages' = messages + 1 /\ at' = 1 /\ refused' = {} /\ lastPass' = elapsed
      /\ last' \in {last, Now} /\ Now \in Nat /\ elapsed \in Nat /\ UNCHANGED topic
  BY PassFacts, NowFacts, CounterTypes DEF CallbackTyped, LoopTyped
<1>4. at' \in 1..(Len(keys') + 1) /\ last' \in Nat
  BY <1>2, <1>3
<1>5. LoopTyped'
  BY <1>3, <1>4 DEF LoopTyped
<1>6. LoopInv'
  BY <1>3 DEF LoopInv
<1> QED
  BY <1>1, <1>5, <1>6 DEF CallbackTyped

LEMMA RoundTypes ==
  ASSUME TypeOK, CallbackTyped, Round, refused' \in {refused, refused \cup {at}},
         missing' \in {missing, missing \cup {sequence}}
  PROVE  LoopTyped' /\ LoopInv'
<1>1. /\ at \in 1..Len(keys) /\ at' = at + 1 /\ Publishing
      /\ UNCHANGED <<topic, last, lastPass, sequence, keys, payload, messages, turnedAway, asked>>
  BY RoundFacts
<1>2. sequence \in Nat \ {0}
  BY <1>1 DEF CallbackTyped, LoopTyped, LoopInv
<1>3. missing' \subseteq Nat \ {0}
  BY <1>2 DEF CallbackTyped, LoopTyped
<1>4. Len(keys) \in Nat /\ refused \subseteq 1..(at - 1)
  BY LoopTypes
<1>5. at' \in 1..(Len(keys) + 1) /\ refused' \subseteq 1..(at' - 1)
  BY <1>1, <1>4
<1>6. LoopTyped'
  BY <1>1, <1>3, <1>5 DEF CallbackTyped, LoopTyped
<1>7. LoopInv'
  BY <1>1, <1>2 DEF CallbackTyped, LoopInv
<1> QED
  BY <1>6, <1>7

LEMMA CallbackTypes ==
  ASSUME TypeOK, ClockInv, LoopInv, Send
  PROVE  CallbackTyped' /\ UNCHANGED <<topic, elapsed, skew>>
<1>0. CallbackTyped
  BY CallbackTypedNow
<1>1. CASE SendFreqControl /\ UNCHANGED missing
  BY <1>0, <1>1, HeldTypes, HeldFacts
<1>2. CASE EncodeFails /\ missing' = missing \cup {sequence'}
  <2>1. /\ Pass /\ keys' = <<>> /\ payload' = 0 /\ turnedAway' = turnedAway + 1
        /\ dropped' = dropped + 1 /\ asked' = asked
    BY <1>2 DEF EncodeFails
  <2>2. sequence' \in Nat \ {0}
    BY <2>1, PassFacts, CounterTypes, SMTT(30)
  <2>3. missing' \subseteq Nat \ {0}
    BY <1>2, <2>2 DEF TypeOK
  <2>4. keys' \in Seq(Targets \cup {Unknown, "all"}) /\ Len(keys') <= 1
    BY <2>1
  <2>5. dropped' \in Nat /\ payload' \in Nat /\ turnedAway' \in Nat /\ asked' \in Nat
    BY <2>1, CounterTypes
  <2> QED
    BY <1>0, <2>1, <2>3, <2>4, <2>5, PassTypes, PassFacts
<1>3. ASSUME NEW size \in Sizes, NEW to \in Destinations, Encoded(size, to), UNCHANGED missing
      PROVE  CallbackTyped' /\ UNCHANGED <<topic, elapsed, skew>>
  <2>1. /\ Pass /\ keys' = to /\ payload' = size /\ asked' = asked + Len(to)
        /\ UNCHANGED <<turnedAway, dropped>>
    BY <1>3 DEF Encoded
  <2>2. /\ to \in Seq(Targets \cup {Unknown, "all"}) /\ Len(to) \in Nat
        /\ topic.image => Len(to) = 1
    BY DestinationTypes
  <2>3. dropped' \in Nat /\ payload' \in Nat /\ turnedAway' \in Nat /\ asked' \in Nat
    <3>1. size \in Nat
      BY SenderAssumption
    <3>2. dropped \in Nat /\ turnedAway \in Nat /\ asked \in Nat
      BY CounterTypes
    <3> QED
      BY <2>1, <2>2, <3>1, <3>2
  <2>4. missing' \subseteq Nat \ {0}
    BY <1>3 DEF TypeOK
  <2>5. keys' \in Seq(Targets \cup {Unknown, "all"}) /\ (topic.image => Len(keys') <= 1)
    <3>1. ASSUME topic.image PROVE Len(to) <= 1
      <4>1. Len(to) = 1
        BY <2>2, <3>1, Zenon
      <4> QED
        BY <4>1
    <3> QED
      BY <2>1, <2>2, <3>1, Zenon
  <2> QED
    BY <1>0, <2>1, <2>3, <2>4, <2>5, PassTypes, PassFacts
<1>4. CASE (TargetUnknown \/ PublishFails) /\ missing' = missing \cup {sequence}
  <2>1. /\ Round /\ dropped' = dropped + 1 /\ refused' \in {refused, refused \cup {at}}
        /\ UNCHANGED <<sent, recent, quality, lastAdapt, log, pruned, wire, published>>
    BY <1>4, FailFacts
  <2>2. LoopTyped' /\ LoopInv'
    BY <1>0, <1>4, <2>1, RoundTypes
  <2>3. MetricsTyped'
    BY <1>0, <2>1 DEF CallbackTyped, MetricsTyped
  <2> QED
    BY <2>1, <2>2, <2>3, RoundFacts DEF CallbackTyped
<1>5. CASE PublishSucceeds /\ UNCHANGED missing
  <2>1. /\ Round /\ UNCHANGED <<dropped, refused>> /\ sent' = sent + 1 /\ pruned' = elapsed
        /\ quality' \in Nat /\ lastAdapt' \in Nat
    BY <1>5, PublishFacts
  <2>2. PICK envelope \in Envelope : /\ wire' = Append(wire, envelope)
                                     /\ published' = Append(published, envelope)
    BY <1>5, PublishFacts
  <2>3. PICK entry \in Entry, logged \in LogEntry :
          /\ recent' = Append(PruneMetricsWindow(recent, Now), entry)
          /\ log' = Append(log, logged)
    BY <1>5, PublishFacts
  <2>4. /\ wire \in Seq(Envelope) /\ published \in Seq(Envelope) /\ recent \in Seq(Entry)
        /\ log \in Seq(LogEntry) /\ Now \in Nat
    BY StoreTypes, NowFacts
  <2>9. sent' \in Nat /\ pruned' \in Nat /\ dropped \in Nat
    BY <2>1, CounterTypes
  <2>5. PruneMetricsWindow(recent, Now) \in Seq(Entry)
    BY <2>4, PruneFacts
  <2>6. /\ wire' \in Seq(Envelope) /\ published' \in Seq(Envelope)
        /\ recent' \in Seq(Entry) /\ log' \in Seq(LogEntry)
    BY <2>2, <2>3, <2>4, <2>5, AppendFacts
  <2>7. MetricsTyped'
    BY <2>1, <2>6, <2>9 DEF MetricsTyped
  <2>8. LoopTyped' /\ LoopInv'
    BY <1>0, <1>5, <2>1, RoundTypes
  <2> QED
    BY <2>1, <2>7, <2>8, RoundFacts DEF CallbackTyped
<1> QED
  BY <1>1, <1>2, <1>3, <1>4, <1>5, Zenon DEF Send

LEMMA StreamTypeStep ==
  TypeOK /\ ClockInv /\ LoopInv /\ [Next]_vars => TypeOK' /\ ClockInv' /\ LoopInv'
<1> SUFFICES ASSUME TypeOK, ClockInv, LoopInv, [Next]_vars PROVE TypeOK' /\ ClockInv' /\ LoopInv'
  OBVIOUS
<1>0. Now \in Nat /\ Start \in Nat /\ MaxRollback \in Nat /\ topic.quality \in Nat
  BY NowFacts, TopicFacts
<1>1. CASE Send
  <2>1. UNCHANGED <<frames, restarts, delivered, first>>
    BY <1>1 DEF Send
  <2> QED
    BY <1>1, <2>1, CallbackTypes
    DEF TypeOK, ClockInv, CallbackTyped, MetricsTyped, LoopTyped, Entry, LogEntry, Envelope
<1>2. ASSUME UNCHANGED <<topic, sequence, keys, at>> PROVE LoopInv'
  BY <1>2 DEF LoopInv, Publishing
<1>3. CASE SenderStep
  <2>0. UNCHANGED <<frames, restarts, delivered, first, missing>>
    BY <1>3 DEF SenderStep, streamVars
  <2>1. CASE GetMetricsSnapshot
    <3>1. recent' \in Seq(Entry)
      BY <1>0, <2>1, PruneFacts DEF GetMetricsSnapshot, TypeOK, Entry
    <3> QED
      BY <1>0, <1>2, <2>0, <2>1, <3>1
      DEF GetMetricsSnapshot, TypeOK, ClockInv, clockVars, loopVars, countVars, Entry
  <2>2. CASE Tick
    BY <1>2, <2>0, <2>2, SMTT(30) DEF Tick, TypeOK, ClockInv, metricVars, loopVars, countVars
  <2>3. CASE ClockRollback
    BY <1>0, <1>2, <2>0, <2>3, SMTT(30)
    DEF ClockRollback, TypeOK, ClockInv, metricVars, loopVars, countVars
  <2> QED
    BY <1>3, <2>1, <2>2, <2>3 DEF SenderStep
<1>4. CASE Restart
  <2>1. /\ keys' \in Seq(Targets \cup {Unknown, "all"}) /\ Len(keys') = 0 /\ keys' = <<>>
        /\ recent' \in Seq(Entry) /\ log' \in Seq(LogEntry) /\ published' \in Seq(Envelope)
    BY <1>4, RestartFacts
  <2>2. at' \in 1..(Len(keys') + 1) /\ refused' \subseteq 1..(at' - 1)
    BY <1>4, <2>1, RestartFacts
  <2>3. LoopInv'
    BY <1>4, <2>1, RestartFacts DEF LoopInv, Publishing
  <2>4. /\ restarts' = restarts + 1 /\ restarts \in Nat
        /\ last' = 0 /\ lastPass' = -1 /\ sequence' = 0 /\ sent' = 0 /\ dropped' = 0
        /\ pruned' = elapsed /\ payload' = 0 /\ turnedAway' = 0 /\ asked' = 0
        /\ quality' = topic.quality /\ lastAdapt' = 0
        /\ UNCHANGED <<topic, elapsed, skew, messages, wire, frames, delivered, first, missing>>
    BY <1>4, RestartFacts DEF TypeOK
  <2>5. restarts' \in Nat
    BY <2>4
  <2>6. TypeOK'
    BY <1>0, <2>1, <2>2, <2>4, <2>5, SMTT(30) DEF TypeOK, Entry, LogEntry, Envelope
  <2> QED
    BY <2>3, <2>4, <2>6 DEF ClockInv
<1>5. ASSUME OffWire
      PROVE  /\ wire' \in Seq(Envelope) /\ Head(wire) \in Envelope /\ Head(wire).seq \in Nat \ {0}
             /\ UNCHANGED <<topic, elapsed, skew, last, sequence, dropped, sent, recent, quality,
                            lastAdapt, log, pruned, published, keys, at, payload, refused,
                            messages, turnedAway, asked, lastPass, restarts>>
  <2>1. wire \in Seq(Envelope) /\ wire # <<>> /\ wire' = Tail(wire)
    BY <1>5 DEF OffWire, TypeOK, Envelope
  <2>2. Head(wire) \in Envelope /\ wire' \in Seq(Envelope)
    BY <2>1
  <2>3. Head(wire).seq \in Nat \ {0}
    BY <2>2 DEF Envelope
  <2> QED
    BY <1>5, <2>2, <2>3 DEF OffWire, clockVars, metricVars, loopVars, countVars
<1>6. CASE DeliverFrame
  <2>1. OffWire
    BY <1>6 DEF DeliverFrame
  <2>2. frames' \in FrameCounters
    BY <1>5, <1>6, <2>1, ObserveType DEF DeliverFrame, TypeOK
  <2>3. delivered' \in Nat /\ missing' = missing
    <3>1. delivered \in Nat /\ delivered' = delivered + 1 /\ missing' = missing
      BY <1>6 DEF DeliverFrame, TypeOK
    <3> QED
      BY <3>1
  <2>4. first' \in Nat
    <3>1. Head(wire).seq \in Nat /\ first \in Nat
      BY <1>5, <2>1 DEF TypeOK
    <3>2. first' = IF first = 0 THEN Head(wire).seq ELSE first
      BY <1>6 DEF DeliverFrame
    <3> QED
      BY <3>1, <3>2
  <2> QED
    BY <1>2, <1>5, <2>1, <2>2, <2>3, <2>4 DEF TypeOK, ClockInv, Envelope
<1>7. CASE LoseFrame
  <2>1. OffWire
    BY <1>7 DEF LoseFrame
  <2> QED
    BY <1>2, <1>5, <1>7, <2>1 DEF LoseFrame, TypeOK, ClockInv, Envelope
<1>8. CASE UNCHANGED vars
  BY <1>2, <1>8 DEF vars, senderVars, streamVars, clockVars, metricVars, loopVars, countVars, TypeOK,
     ClockInv
<1> QED
  BY <1>1, <1>3, <1>4, <1>6, <1>7, <1>8 DEF Next

-----------------------------------------------------------------------------
(***************************************************************************)
(* Accounting.                                                             *)
(***************************************************************************)

\* Each envelope was counted, and so was each drop; what a callback in its loop has not
\* counted yet are the rounds that remain.
AccountInv ==
  /\ sent = Len(published)
  /\ sent + dropped + ((Len(keys) + 1) - at) = asked + turnedAway

LEMMA AccountStep ==
  TypeOK /\ ClockInv /\ LoopInv /\ AccountInv /\ [Next]_vars => AccountInv'
<1> SUFFICES ASSUME TypeOK, ClockInv, LoopInv, AccountInv, [Next]_vars PROVE AccountInv'
  OBVIOUS
<1>0. /\ sent \in Nat /\ dropped \in Nat /\ asked \in Nat /\ turnedAway \in Nat
      /\ at \in Nat /\ Len(keys) \in Nat /\ published \in Seq(Envelope)
      /\ sent = Len(published) /\ sent + dropped + ((Len(keys) + 1) - at) = asked + turnedAway
  BY CounterTypes, LoopTypes, StoreTypes DEF AccountInv
<1>1. CASE SendFreqControl
  <2>1. /\ turnedAway' = turnedAway + 1 /\ dropped' = dropped + 1
        /\ UNCHANGED <<sent, published, keys, at, asked>>
    BY <1>1, HeldFacts
  <2> QED
    BY <1>0, <2>1 DEF AccountInv
<1>2. ASSUME Pass
      PROVE  at = Len(keys) + 1 /\ at' = 1 /\ UNCHANGED <<sent, published>>
  BY <1>2, PassFacts
<1>3. CASE EncodeFails
  <2>1. /\ Pass /\ keys' = <<>> /\ turnedAway' = turnedAway + 1 /\ dropped' = dropped + 1
        /\ asked' = asked
    BY <1>3 DEF EncodeFails
  <2>2. Len(keys') = 0
    BY <2>1
  <2> QED
    BY <1>0, <1>2, <2>1, <2>2 DEF AccountInv
<1>4. ASSUME NEW size \in Sizes, NEW to \in Destinations, Encoded(size, to) PROVE AccountInv'
  <2>1. Pass /\ keys' = to /\ asked' = asked + Len(to) /\ UNCHANGED <<turnedAway, dropped>>
    BY <1>4 DEF Encoded
  <2>2. Len(to) \in Nat
    BY DestinationTypes
  <2>3. at = Len(keys) + 1 /\ at' = 1 /\ UNCHANGED <<sent, published>>
    BY <1>2, <2>1
  <2>4. sent + dropped = asked + turnedAway
    BY <1>0, <2>3
  <2>5. sent' = Len(published')
    BY <1>0, <2>3
  <2>6. sent' + dropped' + ((Len(keys') + 1) - at') = asked' + turnedAway'
    <3>1. sent + dropped + ((Len(to) + 1) - 1) = (asked + Len(to)) + turnedAway
      BY <1>0, <2>2, <2>4
    <3> QED
      BY <2>1, <2>3, <3>1
  <2> QED
    BY <2>5, <2>6 DEF AccountInv
<1>5. ASSUME Round PROVE at' = at + 1 /\ UNCHANGED <<keys, turnedAway, asked>>
  BY <1>5, RoundFacts
<1>6. CASE TargetUnknown \/ PublishFails
  <2>1. Round /\ dropped' = dropped + 1 /\ UNCHANGED <<sent, published>>
    BY <1>6, FailFacts
  <2> QED
    BY <1>0, <1>5, <2>1 DEF AccountInv
<1>7. CASE PublishSucceeds
  <2>1. Round /\ UNCHANGED dropped /\ sent' = sent + 1
    BY <1>7, PublishFacts
  <2>2. PICK envelope \in Envelope : published' = Append(published, envelope)
    BY <1>7, PublishFacts
  <2>3. Len(published') = Len(published) + 1
    BY <1>0, <2>2, AppendFacts
  <2> QED
    BY <1>0, <1>5, <2>1, <2>3 DEF AccountInv
<1>8. CASE Restart
  <2>1. /\ sent' = 0 /\ dropped' = 0 /\ published' = <<>> /\ keys' = <<>> /\ at' = 1
        /\ turnedAway' = 0 /\ asked' = 0
    BY <1>8, RestartFacts
  <2>2. Len(published') = 0 /\ Len(keys') = 0
    BY <2>1
  <2> QED
    BY <2>1, <2>2 DEF AccountInv
<1>9. CASE SenderStep \/ DeliverFrame \/ LoseFrame \/ UNCHANGED vars
  <2>1. UNCHANGED <<sent, dropped, published, keys, at, turnedAway, asked>>
    BY <1>9, IdleFacts
  <2> QED
    BY <2>1 DEF AccountInv
<1> QED
  BY <1>1, <1>3, <1>4, <1>6, <1>7, <1>8, <1>9 DEF Next, Send

-----------------------------------------------------------------------------
(***************************************************************************)
(* The loop over the targets.                                              *)
(***************************************************************************)

\* The envelopes that the latest message has put on the network for a host, and the
\* rounds of the loop so far that were to do so and were not refused.
Got(host)    == {i \in DOMAIN published : published[i] = [to |-> host, seq |-> sequence]}
Served(host) == {i \in 1..(at - 1) : keys[i] = host} \ refused

\* No envelope is ahead of the sequence number, and each host has got what it was served.
TargetsInv ==
  /\ \A i \in 1..Len(published) : published[i].seq <= sequence
  /\ \A host \in Publishers : Cardinality(Got(host)) = Cardinality(Served(host))

LEMMA GotFinite ==
  ASSUME TypeOK, NEW host
  PROVE  /\ DOMAIN published = 1..Len(published)
         /\ IsFiniteSet(Got(host)) /\ Cardinality(Got(host)) \in Nat /\ Got(host) \subseteq 1..Len(published)
         /\ IsFiniteSet(Served(host)) /\ Cardinality(Served(host)) \in Nat /\ Served(host) \subseteq 1..(at - 1)
<1>1. /\ published \in Seq(Envelope) /\ Len(published) \in Nat /\ at - 1 \in Int
      /\ DOMAIN published = 1..Len(published)
  BY StoreTypes, LoopTypes
<1>2. IsFiniteSet(1..Len(published)) /\ IsFiniteSet(1..(at - 1))
  BY <1>1, FS_Interval
<1>3. Got(host) \subseteq 1..Len(published) /\ Served(host) \subseteq 1..(at - 1)
  BY <1>1 DEF Got, Served
<1>4. IsFiniteSet(Got(host)) /\ IsFiniteSet(Served(host))
  BY <1>2, <1>3, FS_Subset
<1> QED
  BY <1>1, <1>3, <1>4, FS_CardinalityType

\* A message that has got a new number has not been published, and not served to anyone.
LEMMA TargetsPass ==
  ASSUME TypeOK, TargetsInv, Pass
  PROVE  TargetsInv'
<1>1. /\ sequence \in Nat /\ sequence' = sequence + 1 /\ at' = 1 /\ refused' = {}
      /\ published \in Seq(Envelope) /\ UNCHANGED <<topic, published>>
  BY PassFacts, CounterTypes, StoreTypes
<1>2. ASSUME NEW i \in 1..Len(published) PROVE published[i].seq \in Nat /\ published[i].seq <= sequence
  <2>1. published[i] \in Envelope
    BY <1>1
  <2> QED
    BY <2>1 DEF Envelope, TargetsInv
<1>3. \A i \in 1..Len(published') : published'[i].seq <= sequence'
  BY <1>1, <1>2
<1>4. ASSUME NEW host \in Publishers PROVE Got(host)' = Served(host)'
  <2>1. ASSUME NEW i \in DOMAIN published, published[i] = [to |-> host, seq |-> sequence'] PROVE FALSE
    <3>1. i \in 1..Len(published) /\ published[i].seq = sequence'
      BY <1>1, <2>1
    <3> QED
      BY <1>1, <1>2, <3>1
  <2>2. Got(host)' = {}
    BY <1>1, <2>1 DEF Got
  <2>3. 1..(at' - 1) = {}
    BY <1>1
  <2> QED
    BY <2>2, <2>3 DEF Served
<1>5. Publishers' = Publishers
  BY <1>1 DEF Publishers
<1> QED
  BY <1>3, <1>4, <1>5 DEF TargetsInv

\* A round that fails serves nobody.
LEMMA TargetsFail ==
  ASSUME TypeOK, TargetsInv, TargetUnknown \/ PublishFails
  PROVE  TargetsInv'
<1>1. /\ at \in 1..Len(keys) /\ at' = at + 1 /\ UNCHANGED <<topic, sequence, keys, published>>
      /\ \/ keys[at] \notin Publishers /\ refused' = refused
         \/ keys[at] \in Publishers /\ refused' = refused \cup {at}
  BY FailFacts, RoundFacts
<1>2. Publishers' = Publishers
  BY <1>1 DEF Publishers
<1>3. ASSUME NEW host \in Publishers PROVE Served(host)' = Served(host) /\ Got(host)' = Got(host)
  <2>1. /\ at \in Nat /\ Len(keys) \in Nat /\ \A i \in 1..(at' - 1) : i \in 1..(at - 1) \/ i = at
        /\ \A i \in 1..(at - 1) : i \in 1..(at' - 1) /\ i # at
    BY <1>1, LoopTypes
  <2>2. keys[at] # host \/ at \in refused'
    BY <1>1
  <2>3. \A i \in 1..(at - 1) : i \in refused' <=> i \in refused
    BY <1>1, <2>1
  <2>4. Served(host)' = Served(host)
    BY <1>1, <2>1, <2>2, <2>3 DEF Served
  <2> QED
    BY <1>1, <2>4 DEF Got
<1> QED
  BY <1>1, <1>2, <1>3 DEF TargetsInv

\* A round that succeeds serves the host it is for, and no other.
LEMMA TargetsPublish ==
  ASSUME TypeOK, ClockInv, LoopInv, TargetsInv, PublishSucceeds
  PROVE  TargetsInv'
<1>1. /\ Round /\ UNCHANGED refused
      /\ \E envelope \in Envelope : /\ envelope = [to |-> keys[at], seq |-> sequence]
                                    /\ published' = Append(published, envelope)
  BY PublishFacts
<1>2. at \in 1..Len(keys) /\ at' = at + 1 /\ UNCHANGED <<topic, sequence, keys>>
  BY <1>1, RoundFacts
<1>3. Publishers' = Publishers
  BY <1>2 DEF Publishers
<1> DEFINE n == Len(published) + 1
<1>4. /\ published' \in Seq(Envelope) /\ Len(published) \in Nat /\ Len(published') = n
      /\ \A i \in 1..Len(published) : published'[i] = published[i]
      /\ published'[n] = [to |-> keys[at], seq |-> sequence]
      /\ \A i \in 1..Len(published') : i \in 1..Len(published) \/ i = n
  BY <1>1, StoreTypes, AppendFacts
<1>5. /\ DOMAIN published' = 1..Len(published') /\ DOMAIN published = 1..Len(published)
      /\ n \notin 1..Len(published) /\ n \in 1..Len(published')
      /\ \A i \in 1..Len(published) : i \in 1..Len(published')
  BY <1>4, StoreTypes
<1>6. /\ at \in Nat /\ at \in 1..(at' - 1) /\ at \notin refused /\ at \notin 1..(at - 1)
      /\ \A i \in 1..(at' - 1) : i \in 1..(at - 1) \/ i = at
      /\ \A i \in 1..(at - 1) : i \in 1..(at' - 1)
  BY <1>2, LoopTypes
<1> HIDE DEF n
<1>7. ASSUME NEW i \in 1..Len(published') PROVE published'[i].seq <= sequence'
  <2>1. CASE i \in 1..Len(published)
    BY <1>2, <1>4, <2>1 DEF TargetsInv
  <2>2. CASE i = n
    <3>1. published'[i].seq = sequence /\ sequence \in Nat
      BY <1>4, <2>2, CounterTypes
    <3> QED
      BY <1>2, <3>1
  <2> QED
    BY <1>4, <2>1, <2>2
<1>8. ASSUME NEW host \in Publishers PROVE Cardinality(Got(host)') = Cardinality(Served(host)')
  <2>1. CASE keys[at] = host
    <3>1. Got(host)' = Got(host) \cup {n} /\ n \notin Got(host)
      BY <1>2, <1>4, <1>5, <2>1 DEF Got
    <3>2. Served(host)' = Served(host) \cup {at} /\ at \notin Served(host)
      BY <1>1, <1>2, <1>6, <2>1 DEF Served
    <3>3. IsFiniteSet(Got(host)) /\ IsFiniteSet(Served(host))
      BY GotFinite
    <3>4. /\ Cardinality(Got(host) \cup {n}) = Cardinality(Got(host)) + 1
          /\ Cardinality(Served(host) \cup {at}) = Cardinality(Served(host)) + 1
      BY <3>1, <3>2, <3>3, FS_AddElement
    <3> QED
      BY <3>1, <3>2, <3>4 DEF TargetsInv
  <2>2. CASE keys[at] # host
    <3>1. published'[n] # [to |-> host, seq |-> sequence]
      BY <1>4, <2>2
    <3>2. Got(host)' = Got(host)
      BY <1>2, <1>4, <1>5, <3>1 DEF Got
    <3>3. Served(host)' = Served(host)
      BY <1>1, <1>2, <1>6, <2>2 DEF Served
    <3> QED
      BY <3>2, <3>3 DEF TargetsInv
  <2> QED
    BY <2>1, <2>2
<1> QED
  BY <1>3, <1>7, <1>8 DEF TargetsInv

LEMMA TargetsStep ==
  TypeOK /\ ClockInv /\ LoopInv /\ TargetsInv /\ [Next]_vars => TargetsInv'
<1> SUFFICES ASSUME TypeOK, ClockInv, LoopInv, TargetsInv, [Next]_vars PROVE TargetsInv'
  OBVIOUS
<1>1. CASE UNCHANGED <<topic, sequence, published, keys, at, refused>>
  BY <1>1 DEF TargetsInv, Got, Served, Publishers
<1>2. EncodeFails \/ (\E size \in Sizes, to \in Destinations : Encoded(size, to)) => Pass
  BY DEF EncodeFails, Encoded
<1>3. CASE Restart
  <2>1. published' = <<>> /\ at' = 1 /\ refused' = {}
    BY <1>3, RestartFacts
  <2>2. 1..Len(published') = {} /\ DOMAIN published' = {} /\ 1..(at' - 1) = {}
    BY <2>1
  <2>3. \A host \in Publishers' : Got(host)' = {} /\ Served(host)' = {}
    BY <2>2 DEF Got, Served
  <2> QED
    BY <2>2, <2>3 DEF TargetsInv
<1>4. SendFreqControl \/ SenderStep \/ DeliverFrame \/ LoseFrame \/ UNCHANGED vars
        => UNCHANGED <<topic, sequence, published, keys, at, refused>>
  BY HeldFacts, IdleFacts
<1> QED
  BY <1>1, <1>2, <1>3, <1>4, TargetsPass, TargetsFail, TargetsPublish DEF Next, Send

-----------------------------------------------------------------------------
(***************************************************************************)
(* The rate limit.                                                         *)
(***************************************************************************)

\* sub_last_time_ is set exactly when a message has passed a limited topic, and while
\* the clock was never set back it is the time when that happened.
RateInv ==
  topic.interval # 0 =>
    /\ last = 0 <=> lastPass = -1
    /\ skew = 0 /\ last # 0 => last = Start + lastPass

LEMMA RateStep ==
  TypeOK /\ ClockInv /\ LoopInv /\ RateInv /\ [Next]_vars => RateInv'
<1> SUFFICES ASSUME TypeOK, ClockInv, LoopInv, RateInv, [Next]_vars PROVE RateInv'
  OBVIOUS
<1>0. Now \in Nat /\ Now > 0 /\ Start \in Nat
  BY NowFacts
<1>1. CASE UNCHANGED <<topic, skew, last, lastPass>>
  BY <1>1 DEF RateInv
<1>2. CASE Pass
  <2>1. /\ UNCHANGED <<topic, elapsed, skew>> /\ lastPass' = elapsed
        /\ topic.interval # 0 => last' = Now
    BY <1>2, PassFacts
  <2>2. elapsed \in Nat /\ (skew = 0 => Now = Start + elapsed)
    BY <1>0, CounterTypes DEF Now
  <2> QED
    BY <1>0, <2>1, <2>2 DEF RateInv
<1>3. CASE Restart
  <2>1. last' = 0 /\ lastPass' = -1 /\ UNCHANGED topic
    BY <1>3, RestartFacts
  <2> QED
    BY <2>1 DEF RateInv
<1>4. CASE ClockRollback
  BY <1>4 DEF ClockRollback, RateInv, TypeOK
<1>5. GetMetricsSnapshot \/ Tick \/ DeliverFrame \/ LoseFrame \/ UNCHANGED vars
        => UNCHANGED <<topic, skew, last, lastPass>>
  BY DEF GetMetricsSnapshot, Tick, DeliverFrame, LoseFrame, OffWire, clockVars, vars, senderVars
<1>6. TargetUnknown \/ PublishFails \/ PublishSucceeds => UNCHANGED <<topic, skew, last, lastPass>>
  BY DEF TargetUnknown, PublishFails, PublishSucceeds, Round, clockVars
<1>7. EncodeFails \/ (\E size \in Sizes, to \in Destinations : Encoded(size, to)) => Pass
  BY DEF EncodeFails, Encoded
<1>8. SendFreqControl => UNCHANGED <<topic, skew, last, lastPass>>
  BY HeldFacts
<1> QED
  BY <1>1, <1>2, <1>3, <1>4, <1>5, <1>6, <1>7, <1>8 DEF Next, Send, SenderStep

-----------------------------------------------------------------------------
(***************************************************************************)
(* The sliding window.                                                     *)
(***************************************************************************)

\* Window w holds the log lg but for its first k entries: at time t, when the clock was
\* set back by sk, these are too old, and those that are left are not, but for that time.
Exact(lg, w, k, t, sk) ==
  /\ Len(w) = Len(lg) - k
  /\ \A i \in 1..(Len(lg) - k) : w[i] = Logged(lg[k + i])
  /\ \A i \in 1..k : t - lg[i].real > RateWindow
  /\ \A i \in (k + 1)..Len(lg) : t - lg[i].real <= RateWindow + sk

\* Sends are logged in their order, none later than t, and the clock was set back by no
\* more than sk when they were.
Ordered(lg, t, sk) ==
  /\ \A i \in 1..Len(lg) : lg[i].real <= t /\ lg[i].skew <= sk
  /\ \A i, j \in 1..Len(lg) : i <= j => lg[i].real <= lg[j].real

WindowInv ==
  /\ pruned <= elapsed
  /\ Ordered(log, pruned, skew)
  /\ \E k \in 0..Len(log) : Exact(log, recent, k, pruned, skew)

\* How far apart two times are on the ROS clock.
LEMMA AgeFacts ==
  ASSUME NEW logged \in LogEntry, NEW t \in Nat, NEW sk \in Nat, logged.skew <= sk
  PROVE  LET age == (Start + t - sk) - Logged(logged).time
         IN  /\ age > RateWindow => t - logged.real > RateWindow
             /\ ~(age > RateWindow) => t - logged.real <= RateWindow + sk
<1>1. PICK r \in Nat, z \in Nat : r = logged.real /\ z = logged.skew
  BY DEF LogEntry
<1>2. Logged(logged).time = Start + r - z
  BY <1>1 DEF Logged
<1>3. Start \in Nat /\ RateWindow \in Nat /\ z <= sk
  BY <1>1, SenderAssumption
<1> QED
  BY <1>1, <1>2, <1>3

\* A prune at a later time removes only entries that are too old, and leaves only such as
\* are not but for the time that the clock was set back, sk.
LEMMA PruneExact ==
  ASSUME NEW lg \in Seq(LogEntry), NEW rc \in Seq(Entry), NEW k \in 0..Len(lg),
         NEW before \in Nat, NEW t \in Nat, before <= t, NEW sk \in Nat,
         NEW now \in Nat, now = Start + t - sk,
         Ordered(lg, before, sk), Exact(lg, rc, k, before, sk)
  PROVE  \E h \in 0..Len(lg) : Exact(lg, PruneMetricsWindow(rc, now), h, t, sk)
<1> DEFINE P == PruneMetricsWindow(rc, now)
<1>0. /\ Len(lg) \in Nat /\ Len(rc) \in Nat /\ k \in Nat /\ RateWindow \in Nat
      /\ Len(rc) = Len(lg) - k
  BY SenderAssumption DEF Exact
<1>1. /\ \A i \in 1..Len(lg) : lg[i].skew <= sk
      /\ \A i, j \in 1..Len(lg) : i <= j => lg[i].real <= lg[j].real
  BY DEF Ordered
<1>2. /\ \A i \in 1..(Len(lg) - k) : rc[i] = Logged(lg[k + i])
      /\ \A i \in 1..k : before - lg[i].real > RateWindow
  BY DEF Exact
<1>3. PICK m \in 0..Len(rc) :
        /\ Len(P) = Len(rc) - m
        /\ \A i \in 1..(Len(rc) - m) : P[i] = rc[m + i]
        /\ \A i \in 1..m : now - rc[i].time > RateWindow
        /\ m < Len(rc) => ~(now - rc[m + 1].time > RateWindow)
  BY PruneFacts
<1> HIDE DEF P
<1>4. m \in Nat /\ k + m \in 0..Len(lg) /\ Len(rc) - m = Len(lg) - (k + m)
  BY <1>0, <1>3
<1>5. Len(P) = Len(lg) - (k + m)
  BY <1>3, <1>4
<1>6. ASSUME NEW i \in 1..(Len(lg) - (k + m)) PROVE P[i] = Logged(lg[(k + m) + i])
  <2>1. i \in 1..(Len(rc) - m) /\ m + i \in 1..(Len(lg) - k) /\ k + (m + i) = (k + m) + i
    BY <1>0, <1>4
  <2> QED
    BY <1>2, <1>3, <2>1
<1>7. ASSUME NEW i \in 1..Len(lg)
      PROVE  /\ lg[i] \in LogEntry /\ lg[i].real \in Nat
             /\ now - Logged(lg[i]).time > RateWindow => t - lg[i].real > RateWindow
             /\ ~(now - Logged(lg[i]).time > RateWindow) => t - lg[i].real <= RateWindow + sk
  <2>1. lg[i] \in LogEntry /\ lg[i].skew <= sk
    BY <1>1
  <2>2. lg[i].real \in Nat
    BY <2>1 DEF LogEntry
  <2> QED
    BY <2>1, <2>2, AgeFacts
<1>8. ASSUME NEW i \in 1..(k + m) PROVE t - lg[i].real > RateWindow
  <2>1. CASE i <= k
    <3>1. i \in 1..k /\ i \in 1..Len(lg)
      BY <1>0, <2>1
    <3>2. before - lg[i].real > RateWindow /\ lg[i].real \in Nat
      BY <1>2, <1>7, <3>1
    <3> QED
      BY <1>0, <3>2, SMTT(30)
  <2>2. CASE ~(i <= k)
    <3>1. i - k \in 1..m /\ i - k \in 1..(Len(lg) - k) /\ k + (i - k) = i /\ i \in 1..Len(lg)
      BY <1>0, <1>4, <2>2
    <3>2. rc[i - k] = Logged(lg[k + (i - k)])
      BY <1>2, <3>1
    <3>3. now - rc[i - k].time > RateWindow
      BY <1>3, <3>1
    <3> QED
      BY <1>7, <3>1, <3>2, <3>3
  <2> QED
    BY <2>1, <2>2
<1>9. ASSUME NEW i \in ((k + m) + 1)..Len(lg) PROVE t - lg[i].real <= RateWindow + sk
  <2>1. /\ m < Len(rc) /\ m + 1 \in 1..(Len(lg) - k) /\ k + (m + 1) \in 1..Len(lg)
        /\ k + (m + 1) <= i /\ i \in 1..Len(lg)
    BY <1>0, <1>4
  <2>2. rc[m + 1] = Logged(lg[k + (m + 1)])
    BY <1>2, <2>1
  <2>3. ~(now - Logged(lg[k + (m + 1)]).time > RateWindow)
    BY <1>3, <2>1, <2>2
  <2>4. t - lg[k + (m + 1)].real <= RateWindow + sk
    BY <1>7, <2>1, <2>3
  <2>5. lg[k + (m + 1)].real <= lg[i].real
    BY <1>1, <2>1
  <2>6. PICK a \in Nat, b \in Nat : a = lg[k + (m + 1)].real /\ b = lg[i].real
    BY <1>7, <2>1
  <2>7. t - a <= RateWindow + sk /\ a <= b
    BY <2>4, <2>5, <2>6
  <2>8. t - b <= RateWindow + sk
    BY <1>0, <2>7
  <2> QED
    BY <2>6, <2>8
<1>10. Exact(lg, P, k + m, t, sk)
  BY <1>5, <1>6, <1>8, <1>9 DEF Exact
<1> QED
  BY <1>4, <1>10 DEF P

\* Steps that do not touch the window.
LEMMA WindowSame ==
  ASSUME TypeOK, WindowInv, UNCHANGED <<skew, recent, log, pruned>>,
         elapsed' \in Nat, elapsed <= elapsed'
  PROVE  WindowInv'
<1>1. pruned \in Nat /\ elapsed \in Nat /\ pruned <= elapsed
  BY CounterTypes DEF WindowInv
<1>2. pruned <= elapsed'
  BY <1>1
<1> QED
  BY <1>2 DEF WindowInv

LEMMA LogTypes ==
  ASSUME TypeOK, NEW i \in 1..Len(log)
  PROVE  log[i] \in LogEntry /\ log[i].real \in Nat /\ log[i].skew \in Nat
<1>1. log[i] \in LogEntry
  BY StoreTypes
<1> QED
  BY <1>1 DEF LogEntry

\* Pruning at the present time.
LEMMA PrunedNow ==
  ASSUME TypeOK, ClockInv, WindowInv
  PROVE  \E h \in 0..Len(log) :
           Exact(log, PruneMetricsWindow(recent, Now), h, elapsed, skew)
<1>1. PICK k \in 0..Len(log) : Exact(log, recent, k, pruned, skew)
  BY DEF WindowInv
<1>2. pruned <= elapsed /\ Ordered(log, pruned, skew)
  BY DEF WindowInv
<1>3. /\ log \in Seq(LogEntry) /\ recent \in Seq(Entry)
      /\ pruned \in Nat /\ elapsed \in Nat /\ skew \in Nat /\ Now \in Nat
  BY StoreTypes, CounterTypes, NowFacts
<1>4. Now = Start + elapsed - skew
  BY DEF Now
<1> QED
  BY <1>1, <1>2, <1>3, <1>4, PruneExact

LEMMA WindowSnapshot ==
  ASSUME TypeOK, ClockInv, WindowInv, GetMetricsSnapshot
  PROVE  WindowInv'
<1>1. PICK h \in 0..Len(log) : Exact(log, PruneMetricsWindow(recent, Now), h, elapsed, skew)
  BY PrunedNow
<1>2. /\ recent' = PruneMetricsWindow(recent, Now) /\ pruned' = elapsed
      /\ UNCHANGED <<elapsed, skew, log>> /\ elapsed \in Nat /\ pruned \in Nat
  BY CounterTypes DEF GetMetricsSnapshot, clockVars
<1>3. ASSUME NEW i \in 1..Len(log) PROVE log[i].real <= elapsed
  <2>1. log[i].real <= pruned /\ pruned <= elapsed
    BY DEF WindowInv, Ordered
  <2>2. log[i].real \in Nat
    BY LogTypes
  <2> QED
    BY <1>2, <2>1, <2>2
<1>4. Ordered(log, elapsed, skew)
  BY <1>3 DEF WindowInv, Ordered
<1> QED
  BY <1>1, <1>2, <1>4 DEF WindowInv

LEMMA WindowPublish ==
  ASSUME TypeOK, ClockInv, LoopInv, WindowInv, PublishSucceeds
  PROVE  WindowInv'
<1> DEFINE P == PruneMetricsWindow(recent, Now)
<1>0. /\ log \in Seq(LogEntry) /\ Len(log) \in Nat /\ P \in Seq(Entry)
      /\ elapsed \in Nat /\ skew \in Nat /\ pruned \in Nat /\ RateWindow \in Nat
  BY StoreTypes, CounterTypes, NowFacts, PruneFacts, SenderAssumption
<1>1. PICK h \in 0..Len(log) : Exact(log, P, h, elapsed, skew)
  BY PrunedNow
<1> HIDE DEF P
<1>2. UNCHANGED <<elapsed, skew>> /\ pruned' = elapsed
  BY PublishFacts, RoundFacts
<1>3. PICK entry \in Entry, logged \in LogEntry :
        /\ logged.real = elapsed /\ logged.skew = skew /\ entry = Logged(logged)
        /\ recent' = Append(P, entry) /\ log' = Append(log, logged)
  BY PublishFacts DEF P
<1>4. /\ Len(recent') = Len(P) + 1 /\ recent'[Len(P) + 1] = entry
      /\ \A i \in 1..Len(P) : recent'[i] = P[i]
  BY <1>0, <1>3, AppendFacts
<1>5. /\ Len(log') = Len(log) + 1 /\ log'[Len(log) + 1] = logged
      /\ \A i \in 1..Len(log) : log'[i] = log[i]
      /\ \A i \in 1..Len(log') : i \in 1..Len(log) \/ i = Len(log) + 1
  BY <1>0, <1>3, AppendFacts
<1>6. ASSUME NEW i \in 1..Len(log')
      PROVE  /\ log'[i].real \in Nat /\ log'[i].real <= elapsed /\ log'[i].skew <= skew
             /\ i = Len(log) + 1 => log'[i].real = elapsed
  <2>1. CASE i \in 1..Len(log)
    <3>1. log[i].real <= pruned /\ pruned <= elapsed /\ log[i].skew <= skew
      BY <2>1 DEF WindowInv, Ordered
    <3>2. log[i].real \in Nat
      BY <2>1, LogTypes
    <3> QED
      BY <1>0, <1>5, <2>1, <3>1, <3>2
  <2>2. CASE i = Len(log) + 1
    BY <1>0, <1>3, <1>5, <2>2
  <2> QED
    BY <1>5, <2>1, <2>2
<1>7. ASSUME NEW i \in 1..Len(log'), NEW j \in 1..Len(log'), i <= j
      PROVE  log'[i].real <= log'[j].real
  <2>1. CASE j \in 1..Len(log)
    <3>1. i \in 1..Len(log)
      BY <1>0, <1>5, <1>7, <2>1
    <3>2. log[i].real <= log[j].real
      BY <1>7, <2>1, <3>1 DEF WindowInv, Ordered
    <3> QED
      BY <1>5, <2>1, <3>1, <3>2
  <2>2. CASE j = Len(log) + 1
    BY <1>6, <2>2
  <2> QED
    BY <1>5, <2>1, <2>2
<1>8. Ordered(log', elapsed, skew)
  BY <1>6, <1>7 DEF Ordered
<1>9. h \in 0..Len(log') /\ Len(recent') = Len(log') - h /\ h \in Nat
  BY <1>0, <1>1, <1>4, <1>5 DEF Exact
<1>10. ASSUME NEW i \in 1..(Len(log') - h) PROVE recent'[i] = Logged(log'[h + i])
  <2>1. CASE i \in 1..(Len(log) - h)
    <3>1. h + i \in 1..Len(log) /\ i \in 1..Len(P)
      BY <1>0, <1>1, <1>9, <2>1 DEF Exact
    <3> QED
      BY <1>1, <1>4, <1>5, <2>1, <3>1 DEF Exact
  <2>2. CASE i \notin 1..(Len(log) - h)
    <3>1. i = Len(P) + 1 /\ h + i = Len(log) + 1
      BY <1>0, <1>1, <1>5, <1>9, <2>2 DEF Exact
    <3> QED
      BY <1>3, <1>4, <1>5, <3>1
  <2> QED
    BY <2>1, <2>2
<1>11. ASSUME NEW i \in 1..h PROVE elapsed - log'[i].real > RateWindow
  <2>1. i \in 1..Len(log)
    BY <1>0, <1>9
  <2> QED
    BY <1>1, <1>5, <2>1 DEF Exact
<1>12. ASSUME NEW i \in (h + 1)..Len(log') PROVE elapsed - log'[i].real <= RateWindow + skew
  <2>1. i \in 1..Len(log')
    BY <1>0, <1>5, <1>9
  <2>2. CASE i \in 1..Len(log)
    <3>1. i \in (h + 1)..Len(log)
      BY <1>0, <1>9, <2>2
    <3> QED
      BY <1>1, <1>5, <2>2, <3>1 DEF Exact
  <2>3. CASE i = Len(log) + 1
    <3>1. log'[i].real = elapsed
      BY <1>6, <2>1, <2>3
    <3> QED
      BY <1>0, <3>1
  <2> QED
    BY <1>5, <2>1, <2>2, <2>3
<1>13. Exact(log', recent', h, elapsed, skew)
  BY <1>9, <1>10, <1>11, <1>12 DEF Exact
<1> QED
  BY <1>0, <1>2, <1>8, <1>9, <1>13 DEF WindowInv

\* Setting the clock back only weakens what the window promises.
LEMMA WindowRollback ==
  ASSUME TypeOK, WindowInv, ClockRollback
  PROVE  WindowInv'
<1>1. /\ log \in Seq(LogEntry) /\ Len(log) \in Nat /\ skew \in Nat /\ pruned \in Nat
      /\ RateWindow \in Nat /\ MaxRollback \in Nat
  BY StoreTypes, CounterTypes, SenderAssumption
<1>2. /\ skew' \in Nat /\ skew <= skew' /\ UNCHANGED <<elapsed, recent, log, pruned>>
  BY <1>1 DEF ClockRollback, metricVars
<1>3. PICK k \in 0..Len(log) : Exact(log, recent, k, pruned, skew)
  BY DEF WindowInv
<1>4. ASSUME NEW i \in 1..Len(log)
      PROVE  /\ log[i].skew <= skew'
             /\ pruned - log[i].real <= RateWindow + skew => pruned - log[i].real <= RateWindow + skew'
  <2>1. log[i].skew \in Nat /\ log[i].real \in Nat /\ log[i].skew <= skew
    BY LogTypes DEF WindowInv, Ordered
  <2> QED
    BY <1>1, <1>2, <2>1, SMTT(30)
<1>5. \A i \in (k + 1)..Len(log) : i \in 1..Len(log)
  BY <1>1
<1>6. Exact(log, recent, k, pruned, skew')
  BY <1>3, <1>4, <1>5 DEF Exact
<1>7. Ordered(log, pruned, skew')
  BY <1>4 DEF WindowInv, Ordered
<1> QED
  BY <1>2, <1>6, <1>7 DEF WindowInv

LEMMA WindowStep ==
  TypeOK /\ ClockInv /\ LoopInv /\ WindowInv /\ [Next]_vars => WindowInv'
<1> SUFFICES ASSUME TypeOK, ClockInv, LoopInv, WindowInv, [Next]_vars PROVE WindowInv'
  OBVIOUS
<1>0. elapsed \in Nat
  BY CounterTypes
<1>1. CASE UNCHANGED <<elapsed, skew, recent, log, pruned>>
  BY <1>0, <1>1, WindowSame
<1>2. CASE Tick
  BY <1>0, <1>2, WindowSame DEF Tick, metricVars
<1>3. CASE Restart
  <2>1. log' = <<>> /\ recent' = <<>> /\ pruned' = elapsed /\ elapsed' = elapsed
    BY <1>3, RestartFacts
  <2>2. pruned' <= elapsed'
    BY <1>0, <2>1
  <2>3. Len(log') = 0 /\ Len(recent') = 0 /\ 0 \in 0..Len(log')
    BY <2>1
  <2>4. Exact(log', recent', 0, pruned', skew') /\ Ordered(log', pruned', skew')
    BY <2>3 DEF Exact, Ordered
  <2> QED
    BY <2>2, <2>3, <2>4 DEF WindowInv
<1>4. SendFreqControl => UNCHANGED <<elapsed, skew, recent, log, pruned>>
  BY HeldFacts
<1>5. EncodeFails \/ (\E size \in Sizes, to \in Destinations : Encoded(size, to))
        => UNCHANGED <<elapsed, skew, recent, log, pruned>>
  BY DEF EncodeFails, Encoded, Pass, clockVars, metricVars
<1>6. TargetUnknown \/ PublishFails => UNCHANGED <<elapsed, skew, recent, log, pruned>>
  BY DEF TargetUnknown, PublishFails, Round, clockVars, metricVars
<1>7. DeliverFrame \/ LoseFrame \/ UNCHANGED vars => UNCHANGED <<elapsed, skew, recent, log, pruned>>
  BY DEF DeliverFrame, LoseFrame, OffWire, vars, senderVars, clockVars, metricVars
<1> QED
  BY <1>1, <1>2, <1>3, <1>4, <1>5, <1>6, <1>7, WindowSnapshot, WindowPublish, WindowRollback
  DEF Next, Send, SenderStep

-----------------------------------------------------------------------------
(***************************************************************************)
(* The theorems.                                                           *)
(***************************************************************************)
SenderInv ==
  TypeOK /\ ClockInv /\ LoopInv /\ AccountInv /\ TargetsInv /\ RateInv /\ WindowInv

LEMMA SenderInvInit == Init => SenderInv
<1> SUFFICES ASSUME Init PROVE SenderInv
  OBVIOUS
<1>1. TypeOK /\ ClockInv /\ LoopInv
  BY StreamTypeInit
<1>2. /\ log = <<>> /\ recent = <<>> /\ published = <<>> /\ keys = <<>> /\ at = 1 /\ refused = {}
      /\ pruned = 0 /\ elapsed = 0 /\ skew = 0 /\ sent = 0 /\ dropped = 0 /\ asked = 0
      /\ turnedAway = 0 /\ last = 0 /\ lastPass = -1
  BY DEF Init, SenderInit
<1>3. Len(published) = 0 /\ Len(keys) = 0 /\ Len(log) = 0 /\ Len(recent) = 0
  BY <1>2
<1>4. AccountInv /\ RateInv
  BY <1>2, <1>3 DEF AccountInv, RateInv
<1>5. TargetsInv
  <2>1. 1..Len(published) = {} /\ DOMAIN published = {} /\ 1..(at - 1) = {}
    BY <1>2, <1>3
  <2>2. \A host \in Publishers : Got(host) = {} /\ Served(host) = {}
    BY <2>1 DEF Got, Served
  <2> QED
    BY <2>1, <2>2 DEF TargetsInv
<1>6. WindowInv
  <2>1. Exact(log, recent, 0, pruned, skew) /\ Ordered(log, pruned, skew)
    BY <1>3 DEF Exact, Ordered
  <2>2. 0 \in 0..Len(log) /\ pruned <= elapsed
    BY <1>2, <1>3
  <2> QED
    BY <2>1, <2>2 DEF WindowInv
<1> QED
  BY <1>1, <1>4, <1>5, <1>6 DEF SenderInv

\* The invariant of the sending side, in every behaviour of the stream.
THEOREM SenderInvariant == Spec => []SenderInv
<1>1. SenderInv /\ [Next]_vars => SenderInv'
  BY StreamTypeStep, AccountStep, TargetsStep, RateStep, WindowStep DEF SenderInv
<1> QED
  BY <1>1, SenderInvInit, PTL DEF Spec

\* The sender's metrics, the window, the wire and the receiver's counters keep their
\* types: no counter becomes negative, also when the clock is set back.
THEOREM StreamTypes == Spec => []TypeOK
<1>1. SenderInv => TypeOK
  BY DEF SenderInv
<1> QED
  BY <1>1, SenderInvariant, PTL

\* Whenever subCallback is not in its loop, total_sent is the number of envelopes put on the
\* network, and dropped_messages the number of publications that encoded messages called
\* for and that are not there, and of messages held back or not encoded.
THEOREM SendsAreAccounted == Spec => []SendAccounted
<1>1. SenderInv => SendAccounted
  <2> SUFFICES ASSUME SenderInv, ~Publishing
               PROVE  /\ sent = Len(published)
                      /\ dropped = (asked - Len(published)) + turnedAway
    BY DEF SendAccounted
  <2>1. /\ at \in Nat /\ Len(keys) \in Nat /\ at = Len(keys) + 1
        /\ sent \in Nat /\ dropped \in Nat /\ asked \in Nat /\ turnedAway \in Nat
    BY LoopTypes, CounterTypes DEF SenderInv
  <2>2. sent = Len(published) /\ sent + dropped + ((Len(keys) + 1) - at) = asked + turnedAway
    BY DEF SenderInv, AccountInv
  <2> QED
    BY <2>1, <2>2
<1> QED
  BY <1>1, SenderInvariant, PTL

\* subCallback gives each host the message as often as to_drone_ids names it, but for the
\* failures of that host's own Publish, whatever other targets are unknown or fail.
THEOREM OtherTargetsAreSent == Spec => []OthersAreSent
<1>1. SenderInv => OthersAreSent
  <2> SUFFICES ASSUME SenderInv, ~Publishing, NEW host \in Publishers
               PROVE  Cardinality({i \in DOMAIN published :
                                     published[i] = [to |-> host, seq |-> sequence]})
                        = Cardinality({i \in DOMAIN keys : keys[i] = host} \ refused)
    BY DEF OthersAreSent
  <2>1. TypeOK /\ keys \in Seq(Targets \cup {Unknown, "all"})
    BY DEF SenderInv, TypeOK
  <2>2. DOMAIN keys = 1..(at - 1)
    <3>1. Len(keys) \in Nat /\ at = Len(keys) + 1
      BY <2>1, LoopTypes
    <3> QED
      BY <2>1, <3>1
  <2>3. Cardinality(Got(host)) = Cardinality(Served(host))
    BY DEF SenderInv, TargetsInv
  <2> QED
    BY <2>2, <2>3 DEF Got, Served
<1> QED
  BY <1>1, SenderInvariant, PTL

\* pruneMetricsWindowLocked loses no send of the last rate_window_sec seconds and keeps none
\* for longer than that and the time that the clock was set back, for any alternation of
\* recordSend and the diagnostics timer.
THEOREM WindowsAreExact == Spec => []WindowIsExact
<1>1. SenderInv => WindowIsExact
  <2> SUFFICES ASSUME SenderInv
               PROVE  \E k \in 0..Len(log) :
                        /\ recent = [i \in 1..(Len(log) - k) |-> Logged(log[k + i])]
                        /\ \A i \in 1..k : pruned - log[i].real > RateWindow
                        /\ \A i \in (k + 1)..Len(log) : pruned - log[i].real <= RateWindow + skew
    BY DEF WindowIsExact
  <2>1. PICK k \in 0..Len(log) : Exact(log, recent, k, pruned, skew)
    BY DEF SenderInv, WindowInv
  <2>2. recent \in Seq(Entry)
    BY StoreTypes DEF SenderInv
  <2>3. Len(recent) = Len(log) - k /\ recent = [i \in 1..Len(recent) |-> recent[i]]
    BY <2>1, <2>2 DEF Exact
  <2>4. recent = [i \in 1..(Len(log) - k) |-> Logged(log[k + i])]
    BY <2>1, <2>3, Zenon DEF Exact
  <2> QED
    BY <2>1, <2>4 DEF Exact
<1> QED
  BY <1>1, SenderInvariant, PTL

\* While the clock is not set back, sendFreqControl forwards a message exactly when none
\* was forwarded in the last 1 / max_freq seconds.
THEOREM RateLimitsAreExact == Spec => RateLimitIsExact
<1> DEFINE Limit == topic.interval = 0 \/ lastPass = -1 \/ elapsed - lastPass >= topic.interval
           RateOK == messages' # messages /\ skew = 0 => (sequence' # sequence <=> Limit)
<1>1. SenderInv /\ [Next]_vars => [RateOK]_senderVars
  <2> SUFFICES ASSUME SenderInv, [Next]_vars PROVE [RateOK]_senderVars
    OBVIOUS
  <2>0. TypeOK /\ RateInv /\ ClockInv /\ LoopInv
    BY DEF SenderInv
  <2>1. ASSUME skew = 0 PROVE HeldBack <=> ~Limit
    <3>1. /\ topic.interval \in Nat /\ elapsed \in Nat /\ lastPass \in Int /\ last \in Nat
          /\ Start \in Nat /\ skew \in Nat
      <4>1. elapsed \in Nat /\ skew \in Nat /\ last \in Nat /\ lastPass \in Int
        BY <2>0 DEF TypeOK
      <4> QED
        BY <2>0, <4>1, TopicFacts, NowFacts
    <3>2. Now = Start + elapsed
      BY <2>1, <3>1 DEF Now
    <3>3. topic.interval # 0 => (last = 0 <=> lastPass = -1)
      BY <2>0 DEF RateInv
    <3>4. topic.interval # 0 /\ last # 0 => Now - last = elapsed - lastPass
      BY <2>0, <2>1, <3>1, <3>2 DEF RateInv
    <3>5. CASE topic.interval # 0 /\ last # 0
      <4>1. HeldBack <=> elapsed - lastPass < topic.interval
        BY <3>4, <3>5 DEF HeldBack
      <4>2. lastPass # -1
        BY <3>3, <3>5
      <4> QED
        BY <3>1, <3>5, <4>1, <4>2
    <3>6. CASE ~(topic.interval # 0 /\ last # 0)
      BY <3>3, <3>6 DEF HeldBack
    <3> QED
      BY <3>5, <3>6
  <2>2. SendFreqControl => HeldBack /\ sequence' = sequence
    BY HeldFacts
  <2>3. Pass => ~HeldBack /\ sequence' # sequence
    <3> SUFFICES ASSUME Pass PROVE ~HeldBack /\ sequence' # sequence
      OBVIOUS
    <3>1. ~HeldBack /\ sequence' = sequence + 1
      BY <2>0, PassFacts
    <3>2. sequence \in Nat
      BY <2>0, CounterTypes
    <3> QED
      BY <3>1, <3>2
  <2>4. EncodeFails \/ (\E size \in Sizes, to \in Destinations : Encoded(size, to)) => Pass
    BY DEF EncodeFails, Encoded
  <2>5. SenderStep \/ DeliverFrame \/ LoseFrame \/ UNCHANGED vars => UNCHANGED messages
    BY IdleFacts
  <2>6. TargetUnknown \/ PublishFails \/ PublishSucceeds => UNCHANGED messages
    BY DEF TargetUnknown, PublishFails, PublishSucceeds, Round, countVars
  <2>7. Restart => UNCHANGED messages
    BY RestartFacts
  <2> QED
    BY <2>1, <2>2, <2>3, <2>4, <2>5, <2>6, <2>7 DEF Next, Send
<1>2. Spec => [][RateOK]_senderVars
  BY <1>1, SenderInvariant, PTL DEF Spec
<1> QED
  BY <1>2 DEF RateLimitIsExact

\* The adaptive JPEG quality never moves away from its configured range, whatever the
\* measured bandwidth, the step and the cooldown are.
THEOREM QualityStaysInRange == Spec => QualityKeepsRange
<1> DEFINE Kept == quality' # quality /\ sent' > sent =>
                     QualityOffRange(quality') <= QualityOffRange(quality)
<1>1. SenderInv /\ [Next]_vars => [Kept]_senderVars
  <2> SUFFICES ASSUME SenderInv, [Next]_vars PROVE Kept
    OBVIOUS
  <2>0. TypeOK /\ ClockInv /\ LoopInv /\ sent \in Nat
    BY DEF SenderInv, TypeOK
  <2>1. CASE PublishSucceeds
    BY <2>0, <2>1, PublishFacts
  <2>2. CASE Restart
    <3>1. sent' = 0
      BY <2>2, RestartFacts
    <3> QED
      BY <2>0, <3>1
  <2>3. CASE UNCHANGED quality
    BY <2>3
  <2>4. EncodeFails \/ (\E size \in Sizes, to \in Destinations : Encoded(size, to))
          => UNCHANGED quality
    BY DEF EncodeFails, Encoded, Pass, metricVars
  <2>5. SendFreqControl \/ TargetUnknown \/ PublishFails => UNCHANGED quality
    BY HeldFacts, FailFacts
  <2>6. SenderStep \/ DeliverFrame \/ LoseFrame \/ UNCHANGED vars => UNCHANGED quality
    BY IdleFacts
  <2> QED
    BY <2>1, <2>2, <2>3, <2>4, <2>5, <2>6 DEF Next, Send
<1>2. Spec => [][Kept]_senderVars
  BY <1>1, SenderInvariant, PTL DEF Spec
<1> QED
  BY <1>2 DEF QualityKeepsRange
=============================================================================
