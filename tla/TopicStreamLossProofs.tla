------------------------ MODULE TopicStreamLossProofs ------------------------
(***************************************************************************)
(* Proofs about the frame counters of TopicStream's receiver: what they    *)
(* infer is what the network and the sender did, for every loss pattern    *)
(* and every number of restarts.                                           *)
(***************************************************************************)
EXTENDS TopicStreamProofs

-----------------------------------------------------------------------------
(***************************************************************************)
(* The inductive invariant.  An envelope does not say in which life of the *)
(* sender it was published; the invariant says that the envelopes on the   *)
(* wire can be assigned to lives.                                          *)
(***************************************************************************)

\* The restarts that a receiver with counters f has noticed after d envelopes, as a reset
\* or as a hidden frame.
Noticed(f, d) == f.resets + (d - f.complete)

\* ep assigns each envelope on the wire w to a life of the sender, counted by the
\* restarts r: lives follow each other, sequence numbers rise within one, the last life
\* has counted up to s, and the receiver, which has noticed u restarts and last saw the
\* number l, has seen nothing newer.
Epochs(ep, w, r, s, u, l) ==
  /\ \A i \in 1..Len(w) : /\ u <= ep[i]
                          /\ ep[i] = u => l < w[i].seq
                          /\ ep[i] = r => w[i].seq <= s
  /\ \A i, j \in 1..Len(w) : i < j => /\ ep[i] <= ep[j]
                                      /\ ep[i] = ep[j] => w[i].seq < w[j].seq

\* Counters f after d envelopes, a sender restarted r times that has counted up to s,
\* and the wire w agree.
EpochOK(f, d, r, s, w) ==
  /\ f.complete <= d
  /\ Noticed(f, d) <= r
  /\ Noticed(f, d) = r => f.last <= s
  /\ ~f.initialized => f.last = 0
  /\ f.expected = f.complete + f.lost
  /\ \E ep \in [1..Len(w) -> 0..r] : Epochs(ep, w, r, s, Noticed(f, d), f.last)

\* The last number of which it is settled whether it is published: not yet that of a
\* callback in its loop.
Settled == IF Publishing THEN sequence - 1 ELSE sequence

EpochInv == topic.image => EpochOK(frames, delivered, restarts, Settled, wire)

\* In the sender's first life the numbers on the wire rise, from above the last number
\* the receiver saw up to s.
Rising(f, s, w) ==
  /\ f.last <= s
  /\ ~f.initialized => f.last = 0
  /\ \A i \in 1..Len(w) : f.last < w[i].seq /\ w[i].seq <= s
  /\ \A i, j \in 1..Len(w) : i < j => w[i].seq < w[j].seq

Between(M, a, z) == {n \in M : a < n /\ n < z}

\* Then, with a the first number delivered and M the lost ones, every number after the
\* last one delivered is lost or on the wire, never both, and the gaps that f has counted
\* are the losses before that number.
LossOK(f, a, s, w, M) ==
  /\ M \subseteq 1..s
  /\ a = 0 <=> ~f.initialized
  /\ f.initialized => a <= f.last /\ f.last \notin M
  /\ \A n \in 1..s : f.last < n => n \in M \/ \E i \in 1..Len(w) : w[i].seq = n
  /\ \A i \in 1..Len(w) : w[i].seq \notin M
  /\ f.lost = Cardinality(Between(M, a, f.last))

LossInv == topic.image /\ restarts = 0 => LossOK(frames, first, Settled, wire, missing)

-----------------------------------------------------------------------------
(***************************************************************************)
(* Facts about the counters and the wire.                                  *)
(***************************************************************************)

\* What ObserveCompleteFrameSequence does in its four cases.
LEMMA ObserveFacts ==
  ASSUME NEW f \in FrameCounters, NEW n \in Nat \ {0},
         NEW g, g = ObserveCompleteFrameSequence(f, n)
  PROVE  /\ g \in FrameCounters /\ g.last = n /\ g.initialized
         /\ ~f.initialized => /\ g.complete = f.complete + 1 /\ g.resets = f.resets
                              /\ g.lost = f.lost /\ g.expected = f.expected + 1
         /\ f.initialized /\ n = f.last => g = f
         /\ f.initialized /\ n < f.last => /\ g.complete = f.complete + 1
                                           /\ g.resets = f.resets + 1
                                           /\ g.lost = f.lost /\ g.expected = f.expected + 1
         /\ f.initialized /\ n > f.last => /\ g.complete = f.complete + 1
                                           /\ g.resets = f.resets
                                           /\ g.lost = f.lost + ((n - f.last) - 1)
                                           /\ g.expected = f.expected + (n - f.last)
<1>0. /\ f.last \in Nat /\ f.lost \in Nat /\ f.initialized \in BOOLEAN
      /\ f.complete \in Nat /\ f.resets \in Nat /\ f.expected \in Nat
  BY DEF FrameCounters
<1>1. g \in FrameCounters
  BY ObserveType
<1>2. CASE ~f.initialized
  <2>1. g = Counted(f, n, 1, 0)
    BY <1>2 DEF ObserveCompleteFrameSequence
  <2> QED
    BY <1>0, <1>1, <1>2, <2>1 DEF Counted
<1>3. CASE f.initialized /\ n = f.last
  BY <1>0, <1>1, <1>3 DEF ObserveCompleteFrameSequence
<1>4. CASE f.initialized /\ n < f.last
  <2>1. g = Counted(f, n, 1, 1)
    BY <1>0, <1>4 DEF ObserveCompleteFrameSequence
  <2> QED
    BY <1>0, <1>1, <1>4, <2>1 DEF Counted
<1>5. CASE f.initialized /\ n > f.last
  <2>1. g = Counted(f, n, n - f.last, 0)
    BY <1>0, <1>5 DEF ObserveCompleteFrameSequence
  <2> QED
    BY <1>0, <1>1, <1>5, <2>1 DEF Counted
<1> QED
  BY <1>0, <1>2, <1>3, <1>4, <1>5

LEMMA SeqFacts ==
  ASSUME NEW w \in Seq(Envelope), NEW i \in 1..Len(w)
  PROVE  w[i].seq \in Nat \ {0}
<1>1. w[i] \in Envelope
  OBVIOUS
<1> QED
  BY <1>1 DEF Envelope

LEMMA WireTail ==
  ASSUME NEW w \in Seq(Envelope), w # <<>>
  PROVE  /\ Tail(w) \in Seq(Envelope) /\ Len(w) \in Nat /\ Len(Tail(w)) = Len(w) - 1
         /\ 1 \in 1..Len(w) /\ Head(w) = w[1]
         /\ \A i \in 1..Len(Tail(w)) : i + 1 \in 1..Len(w) /\ 1 < i + 1 /\ Tail(w)[i] = w[i + 1]
  OBVIOUS

\* Number n is lost, or it is delivered and then tells of one restart more if it is not
\* higher than the last one, l.
Seen(u, l, n, v, k) ==
  \/ v = u /\ k = l
  \/ v = u /\ k = n /\ l < n
  \/ v = u + 1 /\ k = n /\ n <= l

\* After u of r restarts noticed, the last number is one that the sender has reached.
Reached(u, l, r, s) == u <= r /\ (u = r => l <= s)

\* The envelope at the head of the wire is delivered or lost.
LEMMA EpochTail ==
  ASSUME NEW w \in Seq(Envelope), w # <<>>, NEW r \in Nat, NEW s \in Nat, NEW u \in Nat,
         NEW l \in Nat, NEW ep \in [1..Len(w) -> 0..r], Epochs(ep, w, r, s, u, l),
         NEW v \in Nat, NEW k \in Nat, Seen(u, l, w[1].seq, v, k), Reached(u, l, r, s)
  PROVE  /\ Reached(v, k, r, s)
         /\ \E eq \in [1..Len(Tail(w)) -> 0..r] : Epochs(eq, Tail(w), r, s, v, k)
<1> DEFINE t == Tail(w)
           eq == [i \in 1..Len(t) |-> ep[i + 1]]
<1>0. /\ t \in Seq(Envelope) /\ Len(w) \in Nat /\ Len(t) = Len(w) - 1 /\ 1 \in 1..Len(w)
      /\ \A i \in 1..Len(t) : i + 1 \in 1..Len(w) /\ 1 < i + 1 /\ t[i] = w[i + 1]
  BY WireTail
<1> HIDE DEF t
<1>1. /\ w[1].seq \in Nat /\ ep[1] \in Nat /\ ep[1] <= r /\ u <= ep[1]
      /\ (ep[1] = u => l < w[1].seq) /\ (ep[1] = r => w[1].seq <= s)
  <2>1. w[1].seq \in Nat /\ ep[1] \in 0..r
    BY <1>0, SeqFacts
  <2>2. u <= ep[1] /\ (ep[1] = u => l < w[1].seq) /\ (ep[1] = r => w[1].seq <= s)
    BY <1>0 DEF Epochs
  <2> QED
    BY <2>1, <2>2
<1>2. v <= r /\ (v = r => k <= s) /\ v <= ep[1] /\ (v # u \/ k # l => k = w[1].seq)
  BY <1>1 DEF Seen, Reached
<1>3. eq \in [1..Len(t) -> 0..r] /\ \A i \in 1..Len(t) : eq[i] = ep[i + 1]
  BY <1>0
<1> HIDE DEF eq
<1>4. ASSUME NEW i \in 1..Len(t)
      PROVE  v <= eq[i] /\ (eq[i] = v => k < t[i].seq) /\ (eq[i] = r => t[i].seq <= s)
  <2>1. PICK x \in Nat, y \in Nat : x = ep[i + 1] /\ y = w[i + 1].seq
    <3>1. i + 1 \in 1..Len(w)
      BY <1>0
    <3>2. ep[i + 1] \in 0..r /\ w[i + 1].seq \in Nat
      BY <3>1, SeqFacts
    <3>3. ep[i + 1] \in Nat
      BY <3>2
    <3> QED
      BY <3>2, <3>3, Zenon
  <2>2. eq[i] = x /\ t[i].seq = y
    BY <1>0, <1>3, <2>1
  <2>3. /\ u <= x /\ (x = u => l < y) /\ (x = r => y <= s)
        /\ ep[1] <= x /\ (ep[1] = x => w[1].seq < y)
    <3>1. i + 1 \in 1..Len(w) /\ 1 \in 1..Len(w) /\ 1 < i + 1
      BY <1>0
    <3>2. /\ u <= ep[i + 1] /\ (ep[i + 1] = u => l < w[i + 1].seq)
          /\ (ep[i + 1] = r => w[i + 1].seq <= s)
      BY <3>1 DEF Epochs
    <3>3. ep[1] <= ep[i + 1] /\ (ep[1] = ep[i + 1] => w[1].seq < w[i + 1].seq)
      BY <3>1 DEF Epochs
    <3> QED
      BY <2>1, <3>2, <3>3
  <2>4. v <= x /\ (x = v => k < y)
    BY <1>1, <1>2, <2>3 DEF Seen
  <2> QED
    BY <2>2, <2>3, <2>4
<1>5. ASSUME NEW i \in 1..Len(t), NEW j \in 1..Len(t), i < j
      PROVE  eq[i] <= eq[j] /\ (eq[i] = eq[j] => t[i].seq < t[j].seq)
  <2>1. i + 1 \in 1..Len(w) /\ j + 1 \in 1..Len(w) /\ i + 1 < j + 1
    BY <1>0, <1>5
  <2>2. ep[i + 1] <= ep[j + 1] /\ (ep[i + 1] = ep[j + 1] => w[i + 1].seq < w[j + 1].seq)
    BY <2>1 DEF Epochs
  <2> QED
    BY <1>0, <1>3, <2>2
<1>6. Epochs(eq, t, r, s, v, k)
  BY <1>4, <1>5 DEF Epochs
<1>7. Reached(v, k, r, s)
  BY <1>2 DEF Reached
<1> QED
  BY <1>3, <1>6, <1>7 DEF t

\* A number that is taken but not published.
LEMMA EpochSkip ==
  ASSUME NEW w \in Seq(Envelope), NEW r \in Nat, NEW s \in Nat, NEW u \in Nat,
         NEW l \in Nat, NEW ep \in [1..Len(w) -> 0..r], Epochs(ep, w, r, s, u, l)
  PROVE  Epochs(ep, w, r, s + 1, u, l)
<1>1. ASSUME NEW i \in 1..Len(w), ep[i] = r PROVE w[i].seq <= s + 1
  <2>1. w[i].seq \in Nat /\ w[i].seq <= s
    BY <1>1, SeqFacts DEF Epochs
  <2> QED
    BY <2>1
<1> QED
  BY <1>1 DEF Epochs

\* A restart of the sender: no envelope belongs to the new life yet.
LEMMA EpochRestart ==
  ASSUME NEW w \in Seq(Envelope), NEW r \in Nat, NEW s \in Nat, NEW u \in Nat,
         NEW l \in Nat, NEW ep \in [1..Len(w) -> 0..r], Epochs(ep, w, r, s, u, l)
  PROVE  ep \in [1..Len(w) -> 0..(r + 1)] /\ Epochs(ep, w, r + 1, 0, u, l)
<1>1. \A i \in 1..Len(w) : ep[i] \in 0..(r + 1) /\ ep[i] # r + 1
  OBVIOUS
<1>2. ep \in [1..Len(w) -> 0..(r + 1)]
  BY <1>1
<1> QED
  BY <1>1, <1>2 DEF Epochs

\* What a delivered frame does to the receiver's account of restarts and losses.
LEMMA DeliverCounts ==
  ASSUME NEW f \in FrameCounters, NEW h \in Nat \ {0}, NEW d \in Nat,
         NEW g, g = ObserveCompleteFrameSequence(f, h),
         f.complete <= d, ~f.initialized => f.last = 0,
         f.expected = f.complete + f.lost
  PROVE  /\ g.complete <= d + 1 /\ g.expected = g.complete + g.lost
         /\ \/ /\ f.last < h
               /\ g.resets + ((d + 1) - g.complete) = f.resets + (d - f.complete)
            \/ /\ h <= f.last
               /\ g.resets + ((d + 1) - g.complete) = (f.resets + (d - f.complete)) + 1
<1>0. /\ f.last \in Nat /\ f.lost \in Nat /\ f.initialized \in BOOLEAN
      /\ f.complete \in Nat /\ f.resets \in Nat /\ f.expected \in Nat
  BY DEF FrameCounters
<1>1. CASE ~f.initialized
  <2>1. /\ g.complete = f.complete + 1 /\ g.resets = f.resets
        /\ g.lost = f.lost /\ g.expected = f.expected + 1
    BY <1>1, ObserveFacts
  <2> QED
    BY <1>0, <1>1, <2>1
<1>2. CASE f.initialized /\ h = f.last
  <2>1. g = f
    BY <1>2, ObserveFacts
  <2>2. f.resets + ((d + 1) - f.complete) = (f.resets + (d - f.complete)) + 1
    BY <1>0
  <2>3. f.complete <= d + 1 /\ h <= f.last
    BY <1>0, <1>2
  <2> QED
    BY <2>1, <2>2, <2>3
<1>3. CASE f.initialized /\ h < f.last
  <2>1. /\ g.complete = f.complete + 1 /\ g.resets = f.resets + 1
        /\ g.lost = f.lost /\ g.expected = f.expected + 1
    BY <1>3, ObserveFacts
  <2> QED
    BY <1>0, <1>3, <2>1
<1>4. CASE f.initialized /\ h > f.last
  <2>1. /\ g.complete = f.complete + 1 /\ g.resets = f.resets
        /\ g.lost = f.lost + ((h - f.last) - 1) /\ g.expected = f.expected + (h - f.last)
    BY <1>4, ObserveFacts
  <2> QED
    BY <1>0, <1>4, <2>1
<1> QED
  BY <1>0, <1>1, <1>2, <1>3, <1>4

\* The sender publishes its next number in its current life.
LEMMA EpochAppend ==
  ASSUME NEW w \in Seq(Envelope), NEW r \in Nat, NEW s \in Nat, NEW u \in Nat,
         NEW l \in Nat, NEW ep \in [1..Len(w) -> 0..r], Epochs(ep, w, r, s, u, l),
         u <= r, u = r => l <= s,
         NEW c \in Seq(Envelope), Len(c) = Len(w) + 1,
         \A i \in 1..Len(w) : c[i] = w[i], c[Len(w) + 1].seq = s + 1
  PROVE  \E eq \in [1..Len(c) -> 0..r] : Epochs(eq, c, r, s + 1, u, l)
<1> DEFINE eq == [i \in 1..Len(c) |-> IF i \in 1..Len(w) THEN ep[i] ELSE r]
<1>0. Len(w) \in Nat /\ \A i \in 1..Len(c) : i \in 1..Len(w) \/ i = Len(w) + 1
  OBVIOUS
<1>1. eq \in [1..Len(c) -> 0..r] /\ \A i \in 1..Len(w) : i \in 1..Len(c) /\ eq[i] = ep[i]
  BY <1>0
<1>2. Len(w) + 1 \in 1..Len(c) /\ eq[Len(w) + 1] = r
  BY <1>0
<1> HIDE DEF eq
<1>3. ASSUME NEW i \in 1..Len(w)
      PROVE  /\ eq[i] \in Nat /\ eq[i] <= r /\ u <= eq[i] /\ c[i].seq \in Nat
             /\ (eq[i] = u => l < c[i].seq) /\ (eq[i] = r => c[i].seq <= s)
  <2>1. ep[i] \in 0..r /\ w[i].seq \in Nat
    BY SeqFacts
  <2> QED
    BY <1>1, <2>1 DEF Epochs
<1>4. ASSUME NEW i \in 1..Len(c)
      PROVE  u <= eq[i] /\ (eq[i] = u => l < c[i].seq) /\ (eq[i] = r => c[i].seq <= s + 1)
  <2>1. CASE i \in 1..Len(w)
    BY <1>3, <2>1
  <2>2. CASE i = Len(w) + 1
    BY <1>2, <2>2
  <2> QED
    BY <1>0, <2>1, <2>2
<1>5. ASSUME NEW i \in 1..Len(c), NEW j \in 1..Len(c), i < j
      PROVE  eq[i] <= eq[j] /\ (eq[i] = eq[j] => c[i].seq < c[j].seq)
  <2>1. i \in 1..Len(w)
    BY <1>0, <1>5
  <2>2. CASE j \in 1..Len(w)
    BY <1>1, <1>5, <2>1, <2>2 DEF Epochs
  <2>3. CASE j = Len(w) + 1
    BY <1>2, <1>3, <2>1, <2>3
  <2> QED
    BY <1>0, <2>2, <2>3
<1>6. Epochs(eq, c, r, s + 1, u, l)
  BY <1>4, <1>5 DEF Epochs
<1> QED
  BY <1>1, <1>6

LEMMA NoticedType ==
  ASSUME NEW f \in FrameCounters, NEW d \in Nat, f.complete <= d
  PROVE  /\ Noticed(f, d) \in Nat /\ f.last \in Nat
         /\ f.resets \in Nat /\ f.complete \in Nat
  BY DEF Noticed, FrameCounters

\* The account survives each thing that can happen: a number is not published, a number
\* is published, an envelope is lost, an envelope is delivered, the sender restarts.
LEMMA SkipKeepsAccount ==
  ASSUME NEW f \in FrameCounters, NEW d \in Nat, NEW r \in Nat, NEW s \in Nat,
         NEW w \in Seq(Envelope), EpochOK(f, d, r, s, w)
  PROVE  EpochOK(f, d, r, s + 1, w)
<1>1. Noticed(f, d) \in Nat /\ f.last \in Nat
  BY NoticedType DEF EpochOK
<1>2. PICK ep \in [1..Len(w) -> 0..r] : Epochs(ep, w, r, s, Noticed(f, d), f.last)
  BY DEF EpochOK
<1>3. Epochs(ep, w, r, s + 1, Noticed(f, d), f.last)
  BY <1>1, <1>2, EpochSkip
<1>4. Noticed(f, d) = r => f.last <= s + 1
  BY <1>1 DEF EpochOK
<1> QED
  BY <1>3, <1>4 DEF EpochOK

LEMMA AppendKeepsAccount ==
  ASSUME NEW f \in FrameCounters, NEW d \in Nat, NEW r \in Nat, NEW s \in Nat,
         NEW w \in Seq(Envelope), EpochOK(f, d, r, s, w),
         NEW c \in Seq(Envelope), Len(c) = Len(w) + 1,
         \A i \in 1..Len(w) : c[i] = w[i], c[Len(w) + 1].seq = s + 1
  PROVE  EpochOK(f, d, r, s + 1, c)
<1>1. Noticed(f, d) \in Nat /\ f.last \in Nat
  BY NoticedType DEF EpochOK
<1>2. PICK ep \in [1..Len(w) -> 0..r] : Epochs(ep, w, r, s, Noticed(f, d), f.last)
  BY DEF EpochOK
<1>3. Noticed(f, d) <= r /\ (Noticed(f, d) = r => f.last <= s)
  BY DEF EpochOK
<1>4. \E eq \in [1..Len(c) -> 0..r] : Epochs(eq, c, r, s + 1, Noticed(f, d), f.last)
  BY <1>1, <1>2, <1>3, EpochAppend
<1>5. Noticed(f, d) = r => f.last <= s + 1
  BY <1>1, <1>3
<1> QED
  BY <1>4, <1>5 DEF EpochOK

LEMMA LoseKeepsAccount ==
  ASSUME NEW f \in FrameCounters, NEW d \in Nat, NEW r \in Nat, NEW s \in Nat,
         NEW w \in Seq(Envelope), w # <<>>, EpochOK(f, d, r, s, w)
  PROVE  EpochOK(f, d, r, s, Tail(w))
<1>1. PICK u \in Nat, l \in Nat : u = Noticed(f, d) /\ l = f.last
  BY NoticedType DEF EpochOK
<1>2. PICK ep \in [1..Len(w) -> 0..r] : Epochs(ep, w, r, s, u, l)
  BY <1>1 DEF EpochOK
<1>3. Reached(u, l, r, s)
  BY <1>1 DEF EpochOK, Reached
<1>4. Seen(u, l, w[1].seq, u, l)
  BY DEF Seen
<1>5. \E eq \in [1..Len(Tail(w)) -> 0..r] : Epochs(eq, Tail(w), r, s, u, l)
  BY <1>2, <1>3, <1>4, EpochTail, Zenon
<1> QED
  BY <1>1, <1>5 DEF EpochOK

LEMMA DeliverKeepsAccount ==
  ASSUME NEW f \in FrameCounters, NEW d \in Nat, NEW r \in Nat, NEW s \in Nat,
         NEW w \in Seq(Envelope), w # <<>>, w[1].seq \in Nat \ {0},
         EpochOK(f, d, r, s, w), NEW g, g = ObserveCompleteFrameSequence(f, w[1].seq)
  PROVE  EpochOK(g, d + 1, r, s, Tail(w))
<1>1. PICK u \in Nat, l \in Nat : u = Noticed(f, d) /\ l = f.last
  BY NoticedType DEF EpochOK
<1>2. PICK ep \in [1..Len(w) -> 0..r] : Epochs(ep, w, r, s, u, l)
  BY <1>1 DEF EpochOK
<1>3. Reached(u, l, r, s)
  BY <1>1 DEF EpochOK, Reached
<1>4. /\ g.complete <= d + 1 /\ g.expected = g.complete + g.lost /\ g.initialized
      /\ Noticed(g, d + 1) \in Nat /\ g.last \in Nat
      /\ Seen(u, l, w[1].seq, Noticed(g, d + 1), g.last)
  <2>1. PICK h \in Nat \ {0} : h = w[1].seq
    OBVIOUS
  <2>2. g = ObserveCompleteFrameSequence(f, h)
    BY <2>1
  <2>3. g \in FrameCounters /\ g.last = h /\ g.initialized
    BY <2>2, ObserveFacts
  <2>4. f.complete <= d /\ (~f.initialized => f.last = 0) /\ f.expected = f.complete + f.lost
    BY DEF EpochOK
  <2>5. /\ g.complete <= d + 1 /\ g.expected = g.complete + g.lost
        /\ \/ f.last < h /\ Noticed(g, d + 1) = Noticed(f, d)
           \/ h <= f.last /\ Noticed(g, d + 1) = Noticed(f, d) + 1
    <3>1. /\ g.complete <= d + 1 /\ g.expected = g.complete + g.lost
          /\ \/ /\ f.last < h
                /\ g.resets + ((d + 1) - g.complete) = f.resets + (d - f.complete)
             \/ /\ h <= f.last
                /\ g.resets + ((d + 1) - g.complete) = (f.resets + (d - f.complete)) + 1
      BY <2>2, <2>4, DeliverCounts
    <3> QED
      BY <3>1, Zenon DEF Noticed
  <2>6. Noticed(g, d + 1) \in Nat
    BY <1>1, <2>5
  <2>7. Seen(u, l, h, Noticed(g, d + 1), h)
    BY <1>1, <2>5 DEF Seen
  <2> QED
    BY <2>1, <2>3, <2>5, <2>6, <2>7
<1>5. /\ Reached(Noticed(g, d + 1), g.last, r, s)
      /\ \E eq \in [1..Len(Tail(w)) -> 0..r] :
           Epochs(eq, Tail(w), r, s, Noticed(g, d + 1), g.last)
  <2>1. ASSUME NEW v \in Nat, NEW k \in Nat, Seen(u, l, w[1].seq, v, k)
        PROVE  /\ Reached(v, k, r, s)
               /\ \E eq \in [1..Len(Tail(w)) -> 0..r] : Epochs(eq, Tail(w), r, s, v, k)
    BY <1>2, <1>3, <2>1, EpochTail, Zenon
  <2> QED
    BY <1>4, <2>1, Zenon
<1> QED
  BY <1>4, <1>5 DEF EpochOK, Reached

LEMMA RestartKeepsAccount ==
  ASSUME NEW f \in FrameCounters, NEW d \in Nat, NEW r \in Nat, NEW s \in Nat,
         NEW w \in Seq(Envelope), EpochOK(f, d, r, s, w)
  PROVE  EpochOK(f, d, r + 1, 0, w)
<1>1. Noticed(f, d) \in Nat /\ f.last \in Nat
  BY NoticedType DEF EpochOK
<1>2. PICK ep \in [1..Len(w) -> 0..r] : Epochs(ep, w, r, s, Noticed(f, d), f.last)
  BY DEF EpochOK
<1>3. ep \in [1..Len(w) -> 0..(r + 1)] /\ Epochs(ep, w, r + 1, 0, Noticed(f, d), f.last)
  BY <1>1, <1>2, EpochRestart
<1>4. Noticed(f, d) <= r + 1 /\ Noticed(f, d) # r + 1
  BY <1>1 DEF EpochOK
<1> QED
  BY <1>3, <1>4 DEF EpochOK

-----------------------------------------------------------------------------
(***************************************************************************)
(* What the steps do to the wire of an image topic.                        *)
(***************************************************************************)
LEMMA SettledType == TypeOK /\ LoopInv => Settled \in Nat
<1> SUFFICES ASSUME TypeOK, LoopInv PROVE Settled \in Nat
  OBVIOUS
<1>1. sequence \in Nat /\ (Publishing => sequence > 0)
  BY CounterTypes DEF LoopInv
<1> QED
  BY <1>1 DEF Settled

LEMMA SettledSame == UNCHANGED <<sequence, keys, at>> => UNCHANGED Settled
  BY DEF Settled, Publishing

\* The number of a message that passes the rate limit is settled when the encoder fails,
\* and else by the one round of the loop.
LEMMA PassSettles ==
  ASSUME TypeOK, Pass, Len(keys') \in {0, 1}
  PROVE  /\ sequence \in Nat /\ Settled = sequence /\ sequence' = sequence + 1
         /\ UNCHANGED <<topic, wire>>
         /\ Settled' = IF Len(keys') = 1 THEN sequence ELSE sequence + 1
<1>1. /\ at = Len(keys) + 1 /\ sequence' = sequence + 1 /\ at' = 1
      /\ UNCHANGED <<topic, wire>>
  BY PassFacts
<1>2. sequence \in Nat /\ ~Publishing
  BY <1>1, CounterTypes, LoopTypes
<1>3. Publishing' <=> Len(keys') = 1
  <2>1. Publishing' <=> 1 <= Len(keys')
    BY <1>1, Zenon DEF Publishing
  <2> QED
    BY <2>1
<1> QED
  BY <1>1, <1>2, <1>3 DEF Settled

LEMMA RoundSettles ==
  ASSUME TypeOK, LoopInv, topic.image, Round
  PROVE  /\ sequence \in Nat /\ sequence = Settled + 1 /\ Settled' = Settled + 1
         /\ UNCHANGED <<topic, sequence>>
<1>1. /\ at \in 1..Len(keys) /\ at' = at + 1 /\ Publishing /\ UNCHANGED <<topic, sequence, keys>>
  BY RoundFacts
<1>2. sequence \in Nat /\ sequence > 0 /\ Len(keys) <= 1 /\ Len(keys) \in Nat
  BY <1>1, CounterTypes, LoopTypes DEF LoopInv
<1>3. at = 1 /\ Len(keys) = 1
  <2>1. PICK n \in Nat : n = Len(keys) /\ n <= 1 /\ at \in 1..n
    BY <1>1, <1>2
  <2> QED
    BY <2>1
<1>4. ~Publishing'
  BY <1>1, <1>3 DEF Publishing
<1> QED
  BY <1>1, <1>2, <1>4 DEF Settled

\* Nothing is settled, or the next number is, as lost or with its envelope on the wire.
LEMMA SendCases ==
  ASSUME TypeOK, ClockInv, LoopInv, topic.image, Send
  PROVE  /\ UNCHANGED <<topic, frames, restarts, delivered, first>>
         /\ \/ UNCHANGED <<Settled, wire, missing>>
            \/ /\ Settled' = Settled + 1 /\ UNCHANGED wire
               /\ missing' = missing \cup {Settled + 1}
            \/ /\ Settled' = Settled + 1 /\ UNCHANGED missing
               /\ wire' \in Seq(Envelope) /\ Len(wire') = Len(wire) + 1
               /\ \A i \in 1..Len(wire) : wire'[i] = wire[i]
               /\ wire'[Len(wire) + 1].seq = Settled + 1
<1>0. UNCHANGED <<frames, restarts, delivered, first>>
  BY DEF Send
<1>1. CASE SendFreqControl /\ UNCHANGED missing
  <2>1. UNCHANGED <<topic, sequence, keys, at, wire>>
    BY <1>1, HeldFacts
  <2> QED
    BY <1>0, <1>1, <2>1, SettledSame
<1>2. CASE EncodeFails /\ missing' = missing \cup {sequence'}
  <2>1. Pass /\ keys' = <<>>
    BY <1>2 DEF EncodeFails
  <2>2. Len(keys') = 0
    BY <2>1
  <2>3. /\ Settled = sequence /\ sequence' = sequence + 1 /\ UNCHANGED <<topic, wire>>
        /\ Settled' = sequence + 1
    BY <2>1, <2>2, PassSettles
  <2> QED
    BY <1>0, <1>2, <2>3
<1>3. ASSUME NEW size \in Sizes, NEW to \in Destinations, Encoded(size, to), UNCHANGED missing
      PROVE  UNCHANGED <<topic, Settled, wire, missing>>
  <2>1. Pass /\ keys' = to /\ Len(to) = 1
    BY <1>3, DestinationTypes DEF Encoded
  <2>2. Settled = sequence /\ Settled' = sequence /\ UNCHANGED <<topic, wire>>
    BY <2>1, PassSettles
  <2> QED
    BY <1>3, <2>2
<1>4. CASE (TargetUnknown \/ PublishFails) /\ missing' = missing \cup {sequence}
  <2>1. Round /\ UNCHANGED wire
    BY <1>4, FailFacts
  <2>2. sequence = Settled + 1 /\ Settled' = Settled + 1 /\ UNCHANGED topic
    BY <2>1, RoundSettles
  <2> QED
    BY <1>0, <1>4, <2>1, <2>2
<1>5. CASE PublishSucceeds /\ UNCHANGED missing
  <2>1. PICK envelope \in Envelope : /\ envelope = [to |-> keys[at], seq |-> sequence]
                                     /\ wire' = Append(wire, envelope)
    BY <1>5, PublishFacts
  <2>2. Round
    BY <1>5, PublishFacts
  <2>3. sequence = Settled + 1 /\ Settled' = Settled + 1 /\ UNCHANGED topic
    BY <2>2, RoundSettles
  <2>4. /\ wire' \in Seq(Envelope) /\ Len(wire') = Len(wire) + 1
        /\ \A i \in 1..Len(wire) : wire'[i] = wire[i]
        /\ wire'[Len(wire) + 1] = envelope
    BY <2>1, StoreTypes, AppendFacts
  <2>5. wire'[Len(wire) + 1].seq = Settled + 1
    BY <2>1, <2>3, <2>4
  <2> QED
    BY <1>0, <1>5, <2>3, <2>4, <2>5
<1> QED
  BY <1>0, <1>1, <1>2, <1>3, <1>4, <1>5 DEF Send

\* A delivered frame and the counters.
LEMMA DeliverCases ==
  ASSUME TypeOK, topic.image, DeliverFrame
  PROVE  /\ wire \in Seq(Envelope) /\ wire # <<>> /\ wire' = Tail(wire)
         /\ wire[1].seq \in Nat \ {0}
         /\ frames' = ObserveCompleteFrameSequence(frames, wire[1].seq)
         /\ delivered' = delivered + 1
         /\ first' = IF first = 0 THEN wire[1].seq ELSE first
         /\ UNCHANGED <<topic, Settled, restarts, missing>>
<1>1. wire \in Seq(Envelope) /\ wire # <<>> /\ wire' = Tail(wire)
  BY DEF DeliverFrame, OffWire, TypeOK, Envelope
<1>2. Head(wire) = wire[1] /\ 1 \in 1..Len(wire)
  BY <1>1, WireTail
<1>3. wire[1].seq \in Nat \ {0}
  BY <1>1, <1>2, SeqFacts
<1>4. UNCHANGED Settled
  BY SettledSame DEF DeliverFrame, OffWire, loopVars
<1> QED
  BY <1>1, <1>2, <1>3, <1>4 DEF DeliverFrame, OffWire, clockVars

LEMMA LoseCases ==
  ASSUME TypeOK, LoseFrame
  PROVE  /\ wire \in Seq(Envelope) /\ wire # <<>> /\ wire' = Tail(wire)
         /\ wire[1].seq \in Nat \ {0}
         /\ missing' = missing \cup {wire[1].seq}
         /\ UNCHANGED <<topic, Settled, restarts, frames, delivered, first>>
<1>1. wire \in Seq(Envelope) /\ wire # <<>> /\ wire' = Tail(wire)
  BY DEF LoseFrame, OffWire, TypeOK, Envelope
<1>2. Head(wire) = wire[1] /\ 1 \in 1..Len(wire)
  BY <1>1, WireTail
<1>3. wire[1].seq \in Nat \ {0}
  BY <1>1, <1>2, SeqFacts
<1>4. UNCHANGED Settled
  BY SettledSame DEF LoseFrame, OffWire, loopVars
<1> QED
  BY <1>1, <1>2, <1>3, <1>4 DEF LoseFrame, OffWire, clockVars

\* The other steps leave the wire alone; a restart begins a new life.
LEMMA OtherCases ==
  ASSUME SenderStep \/ UNCHANGED vars
  PROVE  UNCHANGED <<topic, wire, Settled, frames, restarts, delivered, first, missing>>
<1>1. UNCHANGED <<topic, sequence, keys, at>>
  BY IdleFacts
<1>2. UNCHANGED <<wire, frames, restarts, delivered, first, missing>>
  BY DEF SenderStep, GetMetricsSnapshot, Tick, ClockRollback, vars, senderVars, streamVars
<1> QED
  BY <1>1, <1>2, SettledSame

LEMMA RestartCases ==
  ASSUME Restart
  PROVE  /\ restarts' = restarts + 1 /\ Settled' = 0
         /\ UNCHANGED <<topic, wire, frames, delivered, first, missing>>
<1>1. /\ restarts' = restarts + 1 /\ sequence' = 0 /\ keys' = <<>> /\ at' = 1
      /\ UNCHANGED <<topic, wire, frames, delivered, first, missing>>
  BY RestartFacts
<1>2. ~Publishing'
  BY <1>1 DEF Publishing
<1> QED
  BY <1>1, <1>2 DEF Settled

-----------------------------------------------------------------------------
(***************************************************************************)
(* Epochs.                                                                 *)
(***************************************************************************)
LEMMA TopicFixed ==
  ASSUME TypeOK, ClockInv, LoopInv, [Next]_vars
  PROVE  UNCHANGED topic
  BY CallbackTypes, IdleFacts, RestartFacts DEF Next

LEMMA EpochStep == TypeOK /\ ClockInv /\ LoopInv /\ EpochInv /\ [Next]_vars => EpochInv'
<1> SUFFICES ASSUME TypeOK, ClockInv, LoopInv, EpochInv, [Next]_vars, topic'.image
             PROVE  EpochInv'
  BY DEF EpochInv
<1>0. /\ wire \in Seq(Envelope) /\ restarts \in Nat /\ Settled \in Nat /\ delivered \in Nat
      /\ frames \in FrameCounters
  BY SettledType DEF TypeOK, Envelope
<1>1. UNCHANGED topic
  BY TopicFixed
<1>2. topic.image /\ EpochOK(frames, delivered, restarts, Settled, wire)
  BY <1>1 DEF EpochInv
<1> SUFFICES EpochOK(frames', delivered', restarts', Settled', wire')
  BY DEF EpochInv
<1>3. CASE UNCHANGED <<wire, Settled, frames, restarts, delivered>>
  BY <1>2, <1>3
<1>4. CASE Send
  <2>1. UNCHANGED <<frames, restarts, delivered>>
    BY <1>2, <1>4, SendCases
  <2>2. CASE UNCHANGED <<Settled, wire, missing>>
    BY <1>3, <2>1, <2>2
  <2>3. CASE Settled' = Settled + 1 /\ UNCHANGED wire
    BY <1>0, <1>2, <2>1, <2>3, SkipKeepsAccount
  <2>4. CASE /\ Settled' = Settled + 1
             /\ wire' \in Seq(Envelope) /\ Len(wire') = Len(wire) + 1
             /\ \A i \in 1..Len(wire) : wire'[i] = wire[i]
             /\ wire'[Len(wire) + 1].seq = Settled + 1
    <3>1. EpochOK(frames, delivered, restarts, Settled + 1, wire')
      BY <1>0, <1>2, <2>4, AppendKeepsAccount
    <3> QED
      BY <2>1, <2>4, <3>1
  <2> QED
    BY <1>2, <1>4, <2>2, <2>3, <2>4, SendCases
<1>5. CASE DeliverFrame
  <2>1. /\ wire # <<>> /\ wire' = Tail(wire) /\ wire[1].seq \in Nat \ {0}
        /\ frames' = ObserveCompleteFrameSequence(frames, wire[1].seq)
        /\ delivered' = delivered + 1 /\ UNCHANGED <<Settled, restarts>>
    BY <1>2, <1>5, DeliverCases
  <2>2. EpochOK(frames', delivered + 1, restarts, Settled, Tail(wire))
    BY <1>0, <1>2, <2>1, DeliverKeepsAccount
  <2> QED
    BY <2>1, <2>2
<1>6. CASE LoseFrame
  <2>1. /\ wire # <<>> /\ wire' = Tail(wire)
        /\ UNCHANGED <<Settled, restarts, frames, delivered>>
    BY <1>6, LoseCases
  <2> QED
    BY <1>0, <1>2, <2>1, LoseKeepsAccount
<1>7. CASE Restart
  <2>1. /\ restarts' = restarts + 1 /\ Settled' = 0
        /\ UNCHANGED <<wire, frames, delivered>>
    BY <1>7, RestartCases
  <2> QED
    BY <1>0, <1>2, <2>1, RestartKeepsAccount
<1> QED
  BY <1>3, <1>4, <1>5, <1>6, <1>7, OtherCases DEF Next

-----------------------------------------------------------------------------
(***************************************************************************)
(* Losses.                                                                 *)
(***************************************************************************)
LEMMA FirstLife ==
  ASSUME NEW f \in FrameCounters, NEW d \in Nat, NEW s \in Nat, NEW w \in Seq(Envelope),
         EpochOK(f, d, 0, s, w)
  PROVE  Rising(f, s, w) /\ f.complete = d /\ f.resets = 0
<1>1. /\ Noticed(f, d) \in Nat /\ f.last \in Nat /\ f.resets \in Nat /\ f.complete \in Nat
      /\ Noticed(f, d) <= 0 /\ f.complete <= d /\ (~f.initialized => f.last = 0)
      /\ (Noticed(f, d) = 0 => f.last <= s)
  BY NoticedType DEF EpochOK
<1>2. Noticed(f, d) = 0
  BY <1>1
<1>3. f.complete = d /\ f.resets = 0
  BY <1>1, <1>2 DEF Noticed
<1>4. PICK ep \in [1..Len(w) -> 0..0] : Epochs(ep, w, 0, s, 0, f.last)
  BY <1>2 DEF EpochOK
<1>5. \A i \in 1..Len(w) : ep[i] = 0
  OBVIOUS
<1>6. \A i \in 1..Len(w) : f.last < w[i].seq /\ w[i].seq <= s
  BY <1>4, <1>5 DEF Epochs
<1>7. \A i, j \in 1..Len(w) : i < j => w[i].seq < w[j].seq
  BY <1>4, <1>5 DEF Epochs
<1> QED
  BY <1>1, <1>2, <1>3, <1>6, <1>7 DEF Rising

\* A lost number after the last one delivered is not among the gaps counted.
LEMMA LaterLoss ==
  ASSUME NEW M, M \subseteq Nat, NEW a \in Nat, NEW z \in Nat, NEW n \in Nat, z <= n
  PROVE  Between(M \cup {n}, a, z) = Between(M, a, z)
<1>1. \A m \in M \cup {n} : a < m /\ m < z => m \in M
  OBVIOUS
<1> QED
  BY <1>1 DEF Between

LEMMA SkipKeepsLosses ==
  ASSUME NEW f \in FrameCounters, NEW a \in Nat, NEW s \in Nat, NEW w \in Seq(Envelope), NEW M,
         Rising(f, s, w), LossOK(f, a, s, w, M)
  PROVE  LossOK(f, a, s + 1, w, M \cup {s + 1})
<1>0. f.last \in Nat /\ f.last <= s /\ M \subseteq 1..s
  BY DEF FrameCounters, Rising, LossOK
<1>1. M \cup {s + 1} \subseteq 1..(s + 1)
  BY <1>0
<1>2. f.initialized => a <= f.last /\ f.last \notin M \cup {s + 1}
  BY <1>0 DEF LossOK
<1>3. ASSUME NEW n \in 1..(s + 1), f.last < n
      PROVE  n \in M \cup {s + 1} \/ \E i \in 1..Len(w) : w[i].seq = n
  <2>1. n \in 1..s \/ n = s + 1
    OBVIOUS
  <2> QED
    BY <1>3, <2>1 DEF LossOK
<1>4. ASSUME NEW i \in 1..Len(w) PROVE w[i].seq \notin M \cup {s + 1}
  <2>1. w[i].seq \in Nat /\ w[i].seq <= s /\ w[i].seq \notin M
    BY SeqFacts DEF Rising, LossOK
  <2> QED
    BY <2>1
<1>5. Between(M \cup {s + 1}, a, f.last) = Between(M, a, f.last)
  <2>1. M \subseteq Nat /\ f.last <= s + 1 /\ s + 1 \in Nat /\ f.last \in Nat
    BY <1>0
  <2> QED
    BY <2>1, LaterLoss, ZenonT(60)
<1> QED
  BY <1>1, <1>2, <1>3, <1>4, <1>5 DEF LossOK

LEMMA AppendKeepsLosses ==
  ASSUME NEW f \in FrameCounters, NEW a \in Nat, NEW s \in Nat, NEW w \in Seq(Envelope), NEW M,
         LossOK(f, a, s, w, M),
         NEW c \in Seq(Envelope), Len(c) = Len(w) + 1,
         \A i \in 1..Len(w) : c[i] = w[i], c[Len(w) + 1].seq = s + 1
  PROVE  LossOK(f, a, s + 1, c, M)
<1>0. /\ Len(w) \in Nat /\ M \subseteq 1..s
      /\ \A i \in 1..Len(c) : i \in 1..Len(w) \/ i = Len(w) + 1
      /\ \A i \in 1..Len(w) : i \in 1..Len(c)
      /\ Len(w) + 1 \in 1..Len(c)
  BY DEF LossOK
<1>1. M \subseteq 1..(s + 1) /\ s + 1 \notin M
  BY <1>0
<1>2. ASSUME NEW n \in 1..(s + 1), f.last < n
      PROVE  n \in M \/ \E i \in 1..Len(c) : c[i].seq = n
  <2>1. CASE n \in 1..s
    <3>1. n \in M \/ \E i \in 1..Len(w) : w[i].seq = n
      BY <1>2, <2>1 DEF LossOK
    <3> QED
      BY <1>0, <3>1
  <2>2. CASE n = s + 1
    BY <1>0, <2>2
  <2> QED
    BY <2>1, <2>2
<1>3. ASSUME NEW i \in 1..Len(c) PROVE c[i].seq \notin M
  <2>1. CASE i \in 1..Len(w)
    BY <2>1 DEF LossOK
  <2>2. CASE i = Len(w) + 1
    BY <1>1, <2>2
  <2> QED
    BY <1>0, <2>1, <2>2
<1> QED
  BY <1>1, <1>2, <1>3 DEF LossOK

\* What is on the wire behind its head.
LEMMA BehindHead ==
  ASSUME NEW f \in FrameCounters, NEW s \in Nat, NEW w \in Seq(Envelope), w # <<>>, Rising(f, s, w)
  PROVE  /\ w[1].seq \in Nat \ {0} /\ f.last < w[1].seq /\ w[1].seq <= s /\ 1 \in 1..Len(w)
         /\ \A i \in 1..Len(w) : w[i].seq \in Nat /\ w[1].seq <= w[i].seq
         /\ \A i \in 1..Len(Tail(w)) : /\ i + 1 \in 1..Len(w)
                                       /\ Tail(w)[i] = w[i + 1] /\ w[1].seq < w[i + 1].seq
         /\ \A i \in 1..Len(w) : i = 1 \/ (i - 1 \in 1..Len(Tail(w)) /\ Tail(w)[i - 1] = w[i])
<1>1. /\ Tail(w) \in Seq(Envelope) /\ Len(w) \in Nat /\ Len(Tail(w)) = Len(w) - 1
      /\ 1 \in 1..Len(w)
      /\ \A i \in 1..Len(Tail(w)) : i + 1 \in 1..Len(w) /\ 1 < i + 1 /\ Tail(w)[i] = w[i + 1]
  BY WireTail
<1>2. \A i \in 1..Len(w) : w[i].seq \in Nat \ {0}
  BY SeqFacts
<1>3. f.last < w[1].seq /\ w[1].seq <= s
  BY <1>1 DEF Rising
<1>4. \A i \in 1..Len(w) : 1 < i => w[1].seq < w[i].seq
  BY <1>1 DEF Rising
<1>5. ASSUME NEW i \in 1..Len(w) PROVE w[1].seq <= w[i].seq
  <2>1. i = 1 \/ 1 < i
    OBVIOUS
  <2> QED
    BY <1>1, <1>2, <1>4, <2>1
<1>6. ASSUME NEW i \in 1..Len(w), i # 1
      PROVE  i - 1 \in 1..Len(Tail(w)) /\ Tail(w)[i - 1] = w[i]
  <2>1. PICK j \in 1..Len(Tail(w)) : j = i - 1
    BY <1>1, <1>6
  <2>2. j + 1 = i /\ Tail(w)[j] = w[j + 1]
    BY <1>1, <2>1
  <2> QED
    BY <2>1, <2>2
<1> QED
  BY <1>1, <1>2, <1>3, <1>4, <1>5, <1>6

LEMMA LoseKeepsLosses ==
  ASSUME NEW f \in FrameCounters, NEW a \in Nat, NEW s \in Nat, NEW w \in Seq(Envelope), NEW M,
         w # <<>>, Rising(f, s, w), LossOK(f, a, s, w, M)
  PROVE  LossOK(f, a, s, Tail(w), M \cup {w[1].seq})
<1>0. f.last \in Nat /\ M \subseteq 1..s
  BY DEF FrameCounters, LossOK
<1>1. /\ w[1].seq \in Nat \ {0} /\ f.last < w[1].seq /\ w[1].seq <= s
      /\ \A i \in 1..Len(Tail(w)) : /\ i + 1 \in 1..Len(w)
                                    /\ Tail(w)[i] = w[i + 1] /\ w[1].seq < w[i + 1].seq
      /\ \A i \in 1..Len(w) : i = 1 \/ (i - 1 \in 1..Len(Tail(w)) /\ Tail(w)[i - 1] = w[i])
  BY BehindHead
<1>2. M \cup {w[1].seq} \subseteq 1..s
  <2>1. w[1].seq \in 1..s
    BY <1>1
  <2> QED
    BY <1>0, <2>1
<1>3. f.initialized => a <= f.last /\ f.last \notin M \cup {w[1].seq}
  BY <1>0, <1>1 DEF LossOK
<1>4. ASSUME NEW n \in 1..s, f.last < n
      PROVE  n \in M \cup {w[1].seq} \/ \E i \in 1..Len(Tail(w)) : Tail(w)[i].seq = n
  <2>1. n \in M \/ \E i \in 1..Len(w) : w[i].seq = n
    BY <1>4 DEF LossOK
  <2> QED
    BY <1>1, <2>1
<1>5. ASSUME NEW i \in 1..Len(Tail(w)) PROVE Tail(w)[i].seq \notin M \cup {w[1].seq}
  <2>1. i + 1 \in 1..Len(w) /\ Tail(w)[i] = w[i + 1] /\ w[1].seq < w[i + 1].seq
    BY <1>1
  <2>2. w[i + 1].seq \notin M /\ w[i + 1].seq \in Nat
    BY <2>1, SeqFacts DEF LossOK
  <2>3. w[i + 1].seq # w[1].seq
    BY <1>1, <2>1, <2>2
  <2> QED
    BY <2>1, <2>2, <2>3
<1>6. Between(M \cup {w[1].seq}, a, f.last) = Between(M, a, f.last)
  <2>1. M \subseteq Nat /\ f.last <= w[1].seq /\ w[1].seq \in Nat
    BY <1>0, <1>1
  <2> QED
    BY <1>0, <2>1, LaterLoss, ZenonT(60)
<1> QED
  BY <1>2, <1>3, <1>4, <1>5, <1>6 DEF LossOK

\* z and then h are delivered, and the numbers in between are lost.
Gap(M, a, z, h) == a <= z /\ z < h /\ z \notin M /\ (z + 1)..(h - 1) \subseteq M

\* The numbers of a gap are all that is added to the losses before it.
GapAdded(M, a, z, h) ==
  Cardinality(Between(M, a, h)) = Cardinality(Between(M, a, z)) + ((h - z) - 1)

LEMMA GapCounted ==
  ASSUME NEW M, M \subseteq Nat, IsFiniteSet(M), NEW a \in Nat, NEW z \in Nat,
         NEW h \in Nat, Gap(M, a, z, h)
  PROVE  GapAdded(M, a, z, h)
<1> DEFINE B == Between(M, a, z)
           G == (z + 1)..(h - 1)
<1>0. a <= z /\ z < h /\ z \notin M /\ G \subseteq M
  BY DEF Gap
<1>1. Between(M, a, h) = B \cup G
  <2>1. ASSUME NEW n \in M, a < n, n < h PROVE (a < n /\ n < z) \/ n \in G
    <3>1. n \in Nat /\ n # z
      BY <1>0
    <3> QED
      BY <2>1, <3>1
  <2>2. ASSUME NEW n \in G PROVE n \in M /\ a < n /\ n < h
    BY <1>0
  <2>3. ASSUME NEW n \in B PROVE n \in M /\ a < n /\ n < h
    BY <1>0 DEF Between
  <2> QED
    BY <2>1, <2>2, <2>3 DEF Between
<1>2. B \cap G = {}
  BY DEF Between
<1>3. IsFiniteSet(B)
  <2>1. B \in SUBSET M
    BY DEF Between
  <2> QED
    BY <2>1, FS_Subset
<1>4. IsFiniteSet(G) /\ Cardinality(G) = (h - z) - 1
  <2>1. z + 1 \in Int /\ h - 1 \in Int
    OBVIOUS
  <2>2. IsFiniteSet(G) /\ Cardinality(G) = IF z + 1 > h - 1 THEN 0 ELSE (h - 1) - (z + 1) + 1
    BY <2>1, FS_Interval
  <2> QED
    BY <1>0, <2>2
<1>5. Cardinality(B) \in Nat /\ Cardinality({}) = 0
  BY <1>3, FS_CardinalityType, FS_EmptySet
<1> HIDE DEF B, G
<1>6. Cardinality(B \cup G) = Cardinality(B) + Cardinality(G) - Cardinality(B \cap G)
  BY <1>3, <1>4, FS_Union, Zenon
<1>7. Cardinality(B \cup G) = Cardinality(B) + ((h - z) - 1)
  <2>1. PICK p \in Nat, q \in Nat : p = Cardinality(B) /\ q = Cardinality(G) /\ q = (h - z) - 1
    BY <1>0, <1>4, <1>5
  <2>2. Cardinality(B \cup G) = p + q - 0
    BY <1>2, <1>5, <1>6, <2>1
  <2> QED
    BY <2>1, <2>2
<1> QED
  BY <1>1, <1>7 DEF B, GapAdded

LEMMA DeliverKeepsLosses ==
  ASSUME NEW f \in FrameCounters, NEW a \in Nat, NEW s \in Nat, NEW w \in Seq(Envelope), NEW M,
         w # <<>>, Rising(f, s, w), LossOK(f, a, s, w, M),
         NEW h \in Nat \ {0}, w[1].seq = h, NEW g, g = ObserveCompleteFrameSequence(f, h)
  PROVE  LossOK(g, IF a = 0 THEN h ELSE a, s, Tail(w), M)
<1> DEFINE b == IF a = 0 THEN h ELSE a
<1>0. /\ f.last \in Nat /\ f.lost \in Nat /\ f.initialized \in BOOLEAN /\ M \subseteq 1..s
      /\ (a = 0 <=> ~f.initialized) /\ (f.initialized => a <= f.last /\ f.last \notin M)
      /\ (~f.initialized => f.last = 0) /\ b \in Nat
  BY DEF FrameCounters, LossOK, Rising
<1>1. /\ f.last < h /\ h <= s /\ 1 \in 1..Len(w)
      /\ \A i \in 1..Len(w) : w[i].seq \in Nat /\ h <= w[i].seq
      /\ \A i \in 1..Len(Tail(w)) : i + 1 \in 1..Len(w) /\ Tail(w)[i] = w[i + 1]
      /\ \A i \in 1..Len(w) : i = 1 \/ (i - 1 \in 1..Len(Tail(w)) /\ Tail(w)[i - 1] = w[i])
  BY BehindHead
<1>2. g \in FrameCounters /\ g.last = h /\ g.initialized
  BY ObserveFacts
<1>3. h \notin M
  BY <1>1 DEF LossOK
<1>9. /\ (~f.initialized => g.lost = f.lost)
      /\ (f.initialized /\ h > f.last => g.lost = f.lost + ((h - f.last) - 1))
  <2>1. ASSUME NEW k, k = ObserveCompleteFrameSequence(f, h)
        PROVE  /\ (~f.initialized => k.lost = f.lost)
               /\ (f.initialized /\ h > f.last => k.lost = f.lost + ((h - f.last) - 1))
    BY <2>1, ObserveFacts
  <2> QED
    BY <2>1
<1>4. b # 0 /\ b <= h
  BY <1>0, <1>1
<1>5. ASSUME NEW n \in 1..s, h < n PROVE n \in M \/ \E i \in 1..Len(Tail(w)) : Tail(w)[i].seq = n
  <2>1. n \in M \/ \E i \in 1..Len(w) : w[i].seq = n
    <3>1. f.last < n
      BY <1>0, <1>1, <1>5
    <3> QED
      BY <3>1 DEF LossOK
  <2>2. CASE n \in M
    BY <2>2
  <2>3. CASE \E i \in 1..Len(w) : w[i].seq = n
    <3>1. PICK i \in 1..Len(w) : w[i].seq = n
      BY <2>3
    <3>2. i # 1
      BY <1>5, <3>1
    <3>3. i - 1 \in 1..Len(Tail(w)) /\ Tail(w)[i - 1] = w[i]
      BY <1>1, <3>2
    <3> QED
      BY <3>1, <3>3
  <2> QED
    BY <2>1, <2>2, <2>3
<1>6. \A i \in 1..Len(Tail(w)) : Tail(w)[i].seq \notin M
  BY <1>1 DEF LossOK
<1>7. g.lost = Cardinality(Between(M, b, h))
  <2>1. CASE ~f.initialized
    <3>1. g.lost = f.lost
      BY <1>9, <2>1
    <3>2. Between(M, a, f.last) = {} /\ Between(M, h, h) = {}
      <4>1. \A n \in M : n \in Nat
        BY <1>0
      <4>2. \A n \in M : ~(h < n /\ n < h) /\ ~(a < n /\ n < f.last)
        BY <1>0, <2>1, <4>1
      <4> QED
        BY <4>2 DEF Between
    <3>3. b = h
      BY <1>0, <2>1
    <3> QED
      BY <3>1, <3>2, <3>3 DEF LossOK
  <2>2. CASE f.initialized
    <3>1. g.lost = f.lost + ((h - f.last) - 1)
      BY <1>0, <1>1, <1>9, <2>2
    <3>2. ASSUME NEW n \in (f.last + 1)..(h - 1) PROVE n \in M
      <4>1. n \in 1..s /\ f.last < n /\ n < h
        BY <1>0, <1>1
      <4>2. n \in M \/ \E i \in 1..Len(w) : w[i].seq = n
        BY <4>1 DEF LossOK
      <4>3. \A i \in 1..Len(w) : w[i].seq # n
        BY <1>1, <4>1
      <4> QED
        BY <4>2, <4>3
    <3>3. a <= f.last /\ f.last \notin M /\ b = a
      BY <1>0, <2>2
    <3>4. PICK z \in Nat : z = f.last
      BY <1>0
    <3>5. Cardinality(Between(M, a, h)) = Cardinality(Between(M, a, z)) + ((h - z) - 1)
      <4>1. (z + 1)..(h - 1) \subseteq M
        BY <3>2, <3>4
      <4>2. Gap(M, a, z, h)
        BY <1>1, <3>3, <3>4, <4>1 DEF Gap
      <4>3. M \subseteq Nat /\ h \in Nat
        BY <1>0
      <4>4. IsFiniteSet(M)
        <5>1. IsFiniteSet(1..s) /\ M \in SUBSET (1..s)
          BY <1>0, FS_Interval
        <5> QED
          BY <5>1, FS_Subset
      <4>5. GapAdded(M, a, z, h)
        BY <4>2, <4>3, <4>4, GapCounted
      <4> QED
        BY <4>5 DEF GapAdded
    <3> QED
      BY <3>1, <3>3, <3>4, <3>5 DEF LossOK
  <2> QED
    BY <1>0, <2>1, <2>2
<1> HIDE DEF b
<1>8. LossOK(g, b, s, Tail(w), M)
  BY <1>0, <1>2, <1>3, <1>4, <1>5, <1>6, <1>7 DEF LossOK
<1> QED
  BY <1>8 DEF b

LEMMA LossStep ==
  TypeOK /\ ClockInv /\ LoopInv /\ EpochInv /\ LossInv /\ [Next]_vars => LossInv'
<1> SUFFICES ASSUME TypeOK, ClockInv, LoopInv, EpochInv, LossInv, [Next]_vars, topic'.image,
                    restarts' = 0
             PROVE  LossOK(frames', first', Settled', wire', missing')
  BY DEF LossInv
<1>0. /\ wire \in Seq(Envelope) /\ Settled \in Nat /\ delivered \in Nat /\ restarts \in Nat
      /\ frames \in FrameCounters /\ first \in Nat
  BY SettledType DEF TypeOK, Envelope
<1>1. UNCHANGED topic
  BY TopicFixed
<1>2. ~Restart
  <2> SUFFICES ASSUME Restart PROVE FALSE
    OBVIOUS
  <2>1. PICK r \in Nat : r = restarts
    BY <1>0
  <2>2. restarts' = r + 1
    BY <2>1, RestartCases
  <2> QED
    BY <2>2
<1>3. UNCHANGED restarts
  BY <1>2 DEF Next, Send, SenderStep, DeliverFrame, LoseFrame, OffWire, vars, streamVars
<1>4. /\ topic.image /\ restarts = 0
      /\ EpochOK(frames, delivered, 0, Settled, wire)
      /\ LossOK(frames, first, Settled, wire, missing)
  BY <1>1, <1>3 DEF EpochInv, LossInv
<1>5. Rising(frames, Settled, wire)
  BY <1>0, <1>4, FirstLife
<1>6. CASE UNCHANGED <<wire, Settled, frames, first, missing>>
  BY <1>4, <1>6
<1>7. CASE Send
  <2>1. UNCHANGED <<frames, first>>
    BY <1>4, <1>7, SendCases
  <2>2. CASE UNCHANGED <<Settled, wire, missing>>
    BY <1>6, <2>1, <2>2
  <2>3. CASE /\ Settled' = Settled + 1 /\ UNCHANGED wire
             /\ missing' = missing \cup {Settled + 1}
    <3>1. LossOK(frames, first, Settled + 1, wire, missing \cup {Settled + 1})
      BY <1>0, <1>4, <1>5, SkipKeepsLosses
    <3> QED
      BY <2>1, <2>3, <3>1
  <2>4. CASE /\ Settled' = Settled + 1 /\ UNCHANGED missing
             /\ wire' \in Seq(Envelope) /\ Len(wire') = Len(wire) + 1
             /\ \A i \in 1..Len(wire) : wire'[i] = wire[i]
             /\ wire'[Len(wire) + 1].seq = Settled + 1
    <3>1. LossOK(frames, first, Settled + 1, wire', missing)
      BY <1>0, <1>4, <2>4, AppendKeepsLosses
    <3> QED
      BY <2>1, <2>4, <3>1
  <2> QED
    BY <1>4, <1>7, <2>2, <2>3, <2>4, SendCases
<1>8. CASE DeliverFrame
  <2>1. PICK h \in Nat \ {0} :
          /\ wire[1].seq = h /\ wire # <<>> /\ wire' = Tail(wire)
          /\ frames' = ObserveCompleteFrameSequence(frames, h)
          /\ first' = IF first = 0 THEN h ELSE first
          /\ UNCHANGED <<Settled, missing>>
    BY <1>4, <1>8, DeliverCases
  <2>2. LossOK(frames', IF first = 0 THEN h ELSE first, Settled, Tail(wire), missing)
    BY <1>0, <1>4, <1>5, <2>1, DeliverKeepsLosses
  <2> QED
    BY <2>1, <2>2
<1>9. CASE LoseFrame
  <2>1. /\ wire # <<>> /\ wire' = Tail(wire) /\ missing' = missing \cup {wire[1].seq}
        /\ UNCHANGED <<Settled, frames, first>>
    BY <1>9, LoseCases
  <2> QED
    BY <1>0, <1>4, <1>5, <2>1, LoseKeepsLosses
<1> QED
  BY <1>2, <1>6, <1>7, <1>8, <1>9, OtherCases DEF Next

-----------------------------------------------------------------------------
(***************************************************************************)
(* The theorems.                                                           *)
(***************************************************************************)
CounterInv == TypeOK /\ ClockInv /\ LoopInv /\ EpochInv /\ LossInv

LEMMA CounterInvInit == Init => CounterInv
<1> SUFFICES ASSUME Init PROVE CounterInv
  OBVIOUS
<1>1. TypeOK /\ ClockInv /\ LoopInv
  BY StreamTypeInit
<1>2. /\ frames = NoFrames /\ restarts = 0 /\ delivered = 0 /\ first = 0 /\ missing = {}
      /\ Settled = 0 /\ wire = <<>>
  <2>1. sequence = 0 /\ keys = <<>> /\ at = 1
    BY DEF Init, SenderInit
  <2>2. ~Publishing
    BY <2>1 DEF Publishing
  <2> QED
    BY <2>1, <2>2 DEF Init, SenderInit, Settled
<1>3. EpochOK(NoFrames, 0, 0, 0, <<>>)
  <2>1. /\ NoFrames.complete = 0 /\ NoFrames.last = 0 /\ NoFrames.expected = 0
        /\ NoFrames.lost = 0 /\ Noticed(NoFrames, 0) = 0
    BY DEF NoFrames, Noticed
  <2> DEFINE none == [i \in 1..Len(<<>>) |-> 0]
  <2>2. none \in [1..Len(<<>>) -> 0..0]
    OBVIOUS
  <2>3. Epochs(none, <<>>, 0, 0, 0, 0)
    <3>1. \A i \in 1..Len(<<>>) : FALSE
      OBVIOUS
    <3> HIDE DEF none
    <3> QED
      BY <3>1 DEF Epochs
  <2> HIDE DEF none
  <2>4. \E ep \in [1..Len(<<>>) -> 0..0] :
          Epochs(ep, <<>>, 0, 0, Noticed(NoFrames, 0), NoFrames.last)
    BY <2>1, <2>2, <2>3
  <2>5. ~NoFrames.initialized /\ 0 <= 0 /\ 0 + 0 = 0
    BY DEF NoFrames
  <2> QED
    BY <2>1, <2>4, <2>5 DEF EpochOK
<1>4. LossOK(NoFrames, 0, 0, <<>>, {})
  <2>1. NoFrames.last = 0 /\ NoFrames.lost = 0 /\ ~NoFrames.initialized
    BY DEF NoFrames
  <2>2. Between({}, 0, 0) = {} /\ Cardinality({}) = 0
    BY FS_EmptySet DEF Between
  <2> QED
    BY <2>1, <2>2 DEF LossOK
<1> QED
  BY <1>1, <1>2, <1>3, <1>4 DEF CounterInv, EpochInv, LossInv

\* In every reachable state the envelopes on the wire fall into the sender's lives, and in
\* its first life the counters and the lost numbers agree.
THEOREM CounterInvariant == Spec => []CounterInv
<1>1. CounterInv /\ [Next]_vars => CounterInv'
  BY StreamTypeStep, EpochStep, LossStep DEF CounterInv
<1> QED
  BY CounterInvInit, <1>1, PTL DEF Spec

\* While the sender does not restart, ObserveCompleteFrameSequence counts every complete
\* envelope and infers exactly the losses between the first and the last one, whatever the
\* network loses and however many messages are not encoded or not published.
THEOREM LossesAreExact == Spec => []LossesExact
<1>1. CounterInv => LossesExact
  <2> SUFFICES ASSUME CounterInv, topic.image, restarts = 0
               PROVE  /\ frames.complete = delivered
                      /\ frames.lost = Cardinality({n \in missing : first < n /\ n < frames.last})
    BY DEF LossesExact
  <2>1. /\ wire \in Seq(Envelope) /\ Settled \in Nat /\ delivered \in Nat
        /\ frames \in FrameCounters
    BY SettledType DEF CounterInv, TypeOK, Envelope
  <2>2. EpochOK(frames, delivered, 0, Settled, wire)
    BY DEF CounterInv, EpochInv
  <2>3. frames.complete = delivered
    BY <2>1, <2>2, FirstLife
  <2>4. frames.lost = Cardinality(Between(missing, first, frames.last))
    BY DEF CounterInv, LossInv, LossOK
  <2> QED
    BY <2>3, <2>4 DEF Between
<1> QED
  BY CounterInvariant, <1>1, PTL

\* The receiver never reports more sender epochs than the sender had restarts, each of
\* which hides at most one complete frame from the counters of image topics.
THEOREM ResetsAreBounded == Spec => []ResetsAreRestarts
<1>1. CounterInv => ResetsAreRestarts
  <2> SUFFICES ASSUME CounterInv, topic.image
               PROVE  /\ frames.resets <= restarts
                      /\ delivered - frames.complete \in 0..restarts
                      /\ frames.expected = frames.complete + frames.lost
    BY DEF ResetsAreRestarts
  <2>1. delivered \in Nat /\ restarts \in Nat /\ frames \in FrameCounters
    BY DEF CounterInv, TypeOK
  <2>2. EpochOK(frames, delivered, restarts, Settled, wire)
    BY DEF CounterInv, EpochInv
  <2>3. /\ frames.complete <= delivered /\ Noticed(frames, delivered) <= restarts
        /\ frames.expected = frames.complete + frames.lost
    BY <2>2 DEF EpochOK
  <2>4. frames.resets \in Nat /\ frames.complete \in Nat
    BY <2>1 DEF FrameCounters
  <2>5. frames.resets + (delivered - frames.complete) <= restarts
    BY <2>3 DEF Noticed
  <2> QED
    BY <2>1, <2>3, <2>4, <2>5
<1> QED
  BY CounterInvariant, <1>1, PTL
=============================================================================
