------------------------- MODULE NodePresenceProofs -------------------------
(***************************************************************************)
(* For every set of peers: the presence map converges to the truth, the    *)
(* reconnect estimate never exceeds it, and the session implements         *)
(* HostPresence.                                                           *)
(***************************************************************************)
EXTENDS NodePresence, TLAPS

Links == [last : BOOLEAN, ever : BOOLEAN, reconnects : Nat]

\* The number of declarations after a change from `from` to `to`.
Rise(n, from, to) == IF to /\ ~from THEN n + 1 ELSE n

\* The record r and the samples w in flight tell the history of one token, whose state
\* is a after n declarations: every sample continues the one before it.
Told(r, w, a, n) ==
  /\ w = <<>> => r.online = a /\ r.transitions = n
  /\ w # <<>> => /\ w[Len(w)].put = a /\ w[Len(w)].up = n
                 /\ w[1].up = Rise(r.transitions, r.online, w[1].put)
  /\ \A i \in 1..(Len(w) - 1) : w[i + 1].up = Rise(w[i].up, w[i].put, w[i + 1].put)
  /\ ~r.seen => ~r.online

TypeOK ==
  /\ alive \in [Everyone -> BOOLEAN]
  /\ ups \in [Everyone -> Nat]
  /\ linkups \in Nat
  /\ wire \in [Everyone -> Seq(Sample)]
  /\ open \in BOOLEAN
  /\ presence \in [Everyone -> PresenceRecord]
  /\ link \in Links

\* Nothing outlives the session.
ClosedIsEmpty ==
  ~open => /\ wire = [h \in Everyone |-> <<>>]
           /\ presence = [h \in Everyone |-> NoRecord]
           /\ link = NoLink /\ linkups = 0

HistoryTold ==
  open => \A h \in Everyone : Told(presence[h], wire[h], alive[h], ups[h])

\* A link that is up but was not yet sampled is one more that Stats may count.
LinksCounted ==
  /\ link.last => link.ever
  /\ open =>
       link.reconnects + (IF link.ever THEN 1 ELSE 0)
         + (IF LinkConnected /\ ~link.last THEN 1 ELSE 0) <= linkups

IInv == TypeOK /\ ClosedIsEmpty /\ HistoryTold /\ LinksCounted

----------------------------------------------------------------------------
(* Records and samples.                                                    *)

\* An update keeps the record well formed and moves it to the sample's state.
LEMMA UpdatedRecord ==
  ASSUME NEW r \in PresenceRecord, NEW on \in BOOLEAN, ~r.seen => ~r.online
  PROVE  /\ Updated(r, on) \in PresenceRecord
         /\ Updated(r, on).seen
         /\ Updated(r, on).online = on
         /\ Updated(r, on).transitions = Rise(r.transitions, r.online, on)
BY DEF Updated, PresenceRecord, Rise

\* Only the empty sequence has length 0.
LEMMA EmptySequence ==
  ASSUME NEW S, NEW w \in Seq(S)
  PROVE  w = <<>> <=> Len(w) = 0
OBVIOUS

\* The sequence left when its head is taken.
LEMMA TailFacts ==
  ASSUME NEW S, NEW w \in Seq(S), w # <<>>
  PROVE  /\ Len(w) \in Nat \ {0} /\ Head(w) = w[1] /\ w[1] \in S
         /\ Tail(w) \in Seq(S) /\ Len(Tail(w)) = Len(w) - 1
         /\ \A i \in 1..(Len(w) - 1) : Tail(w)[i] = w[i + 1]
         /\ Tail(w) = <<>> <=> Len(w) = 1
<1>1. Len(w) \in Nat \ {0} /\ Head(w) = w[1] /\ w[1] \in S
  OBVIOUS
<1>2. Tail(w) \in Seq(S) /\ Len(Tail(w)) = Len(w) - 1
  OBVIOUS
<1>3. \A i \in 1..(Len(w) - 1) : Tail(w)[i] = w[i + 1]
  OBVIOUS
<1>4. Tail(w) = <<>> <=> Len(Tail(w)) = 0
  BY <1>2, EmptySequence
<1> QED BY <1>1, <1>2, <1>3, <1>4

\* The sequence extended by one element.
LEMMA AppendFacts ==
  ASSUME NEW S, NEW w \in Seq(S), NEW e \in S
  PROVE  /\ Append(w, e) \in Seq(S) /\ Append(w, e) # <<>>
         /\ Len(w) \in Nat /\ Len(Append(w, e)) = Len(w) + 1
         /\ Append(w, e)[Len(w) + 1] = e
         /\ \A i \in 1..Len(w) : Append(w, e)[i] = w[i]
         /\ w = <<>> <=> Len(w) = 0
OBVIOUS

\* Delivering the first sample keeps the history told.
LEMMA ToldDelivered ==
  ASSUME NEW r \in PresenceRecord, NEW w \in Seq(Sample), NEW a \in BOOLEAN, NEW n \in Nat,
         w # <<>>, Told(r, w, a, n)
  PROVE  Told(Updated(r, Head(w).put), Tail(w), a, n)
<1> DEFINE q == Updated(r, Head(w).put)
           t == Tail(w)
<1>1. /\ Len(w) \in Nat \ {0} /\ Head(w) = w[1] /\ w[1] \in Sample
      /\ t \in Seq(Sample) /\ Len(t) = Len(w) - 1
      /\ \A i \in 1..(Len(w) - 1) : t[i] = w[i + 1]
      /\ t = <<>> <=> Len(w) = 1
  BY TailFacts
<1>2. w[1].put \in BOOLEAN
  BY <1>1 DEF Sample
<1>3. q.seen /\ q.online = w[1].put /\ q.transitions = w[1].up
  BY <1>1, <1>2, UpdatedRecord DEF Told
<1> HIDE DEF q, t
<1>4. t = <<>> => q.online = a /\ q.transitions = n
  BY <1>1, <1>3 DEF Told
<1>5. ASSUME t # <<>>
      PROVE  /\ t[Len(t)].put = a /\ t[Len(t)].up = n
             /\ t[1].up = Rise(q.transitions, q.online, t[1].put)
  <2>1. Len(w) \in Nat /\ Len(w) > 1
    BY <1>1, <1>5
  <2>2. t[Len(t)] = w[Len(w)] /\ t[1] = w[2]
    BY <1>1, <2>1
  <2>3. w[2].up = Rise(w[1].up, w[1].put, w[2].put)
    BY <2>1 DEF Told
  <2> QED BY <2>2, <2>3, <1>3 DEF Told
<1>6. \A i \in 1..(Len(t) - 1) : t[i + 1].up = Rise(t[i].up, t[i].put, t[i + 1].put)
  <2> SUFFICES ASSUME NEW i \in 1..(Len(t) - 1)
               PROVE  t[i + 1].up = Rise(t[i].up, t[i].put, t[i + 1].put)
    OBVIOUS
  <2>1. t[i] = w[i + 1] /\ t[i + 1] = w[i + 1 + 1] /\ i + 1 \in 1..(Len(w) - 1)
    BY <1>1
  <2> QED BY <2>1 DEF Told
<1> QED BY <1>3, <1>4, <1>5, <1>6 DEF Told, q, t

\* Sending a sample of the next state keeps the history told.
LEMMA ToldSent ==
  ASSUME NEW r \in PresenceRecord, NEW w \in Seq(Sample), NEW a \in BOOLEAN, NEW n \in Nat,
         NEW b \in BOOLEAN, NEW m \in Nat, m = Rise(n, a, b), Told(r, w, a, n)
  PROVE  Told(r, Append(w, [put |-> b, up |-> m]), b, m)
<1> DEFINE e == [put |-> b, up |-> m]
           t == Append(w, e)
<1>0. e \in Sample /\ e.put = b /\ e.up = m
  BY DEF Sample
<1>1. /\ t # <<>> /\ Len(w) \in Nat /\ Len(t) = Len(w) + 1 /\ t[Len(w) + 1] = e
      /\ \A i \in 1..Len(w) : t[i] = w[i]
      /\ w = <<>> <=> Len(w) = 0
  BY <1>0, AppendFacts
<1> HIDE DEF e, t
<1>2. t[1].up = Rise(r.transitions, r.online, t[1].put)
  <2>1. CASE w = <<>>
    <3>1. t[1] = e /\ r.online = a /\ r.transitions = n
      BY <1>1, <2>1 DEF Told
    <3> QED BY <3>1, <1>0
  <2>2. CASE w # <<>>
    BY <1>1, <2>2 DEF Told
  <2> QED BY <2>1, <2>2
<1>3. \A i \in 1..(Len(t) - 1) : t[i + 1].up = Rise(t[i].up, t[i].put, t[i + 1].put)
  <2> SUFFICES ASSUME NEW i \in 1..Len(w)
               PROVE  t[i + 1].up = Rise(t[i].up, t[i].put, t[i + 1].put)
    BY <1>1
  <2>1. CASE i = Len(w)
    <3>1. t[i + 1] = e /\ t[i] = w[Len(w)] /\ w # <<>>
      BY <1>1, <2>1
    <3> QED BY <3>1, <1>0 DEF Told
  <2>2. CASE i # Len(w)
    <3>1. i \in 1..(Len(w) - 1) /\ t[i] = w[i] /\ t[i + 1] = w[i + 1]
      BY <1>1, <2>2
    <3> QED BY <3>1 DEF Told
  <2> QED BY <2>1, <2>2
<1>4. t[Len(t)].put = b /\ t[Len(t)].up = m
  BY <1>0, <1>1
<1>5. Told(r, t, b, m)
  BY <1>1, <1>2, <1>3, <1>4 DEF Told
<1> QED BY <1>5 DEF t, e

----------------------------------------------------------------------------
(* The inductive invariant.                                                *)

\* The values a session starts from are well formed.
LEMMA StartValues ==
  /\ NoRecord \in PresenceRecord /\ NoLink \in Links /\ <<>> \in Seq(Sample)
  /\ [seen |-> TRUE, online |-> TRUE, transitions |-> 1] \in PresenceRecord
  /\ <<[put |-> TRUE, up |-> 1]>> \in Seq(Sample)
<1>1. [put |-> TRUE, up |-> 1] \in Sample
  BY DEF Sample
<1> QED BY <1>1 DEF NoRecord, NoLink, PresenceRecord, Links

\* The history of a host that is absent, and of one that the query found, at the start.
LEMMA ToldAtStart ==
  ASSUME NEW r, r = NoRecord \/ r = [seen |-> TRUE, online |-> TRUE, transitions |-> 1]
  PROVE  /\ Told(r, <<[put |-> TRUE, up |-> 1]>>, TRUE, 1)
         /\ r = NoRecord => Told(r, <<>>, FALSE, 0)
<1> DEFINE e == [put |-> TRUE, up |-> 1]
<1>1. e.put = TRUE /\ e.up = 1
  OBVIOUS
<1> HIDE DEF e
<1> DEFINE w == <<e>>
<1>2. w # <<>> /\ Len(w) = 1 /\ w[1] = e /\ Len(<<>>) = 0
  OBVIOUS
<1> HIDE DEF w
<1>3. 1 = Rise(r.transitions, r.online, TRUE)
  BY DEF Rise, NoRecord
<1>4. ~r.seen => ~r.online
  BY DEF NoRecord
<1>5. Told(r, w, TRUE, 1)
  <2>1. w[Len(w)].put = TRUE /\ w[Len(w)].up = 1
    BY <1>1, <1>2
  <2>2. w[1].up = Rise(r.transitions, r.online, w[1].put)
    BY <1>1, <1>2, <1>3
  <2>3. \A i \in 1..(Len(w) - 1) : w[i + 1].up = Rise(w[i].up, w[i].put, w[i + 1].put)
    BY <1>2
  <2> QED BY <1>2, <1>4, <2>1, <2>2, <2>3, Zenon DEF Told
<1>6. r = NoRecord => Told(r, <<>>, FALSE, 0)
  BY <1>2, <1>4 DEF Told, NoRecord
<1> QED BY <1>5, <1>6 DEF e, w

LEMMA InitInductive == PresenceInit => IInv
<1> SUFFICES ASSUME PresenceInit PROVE IInv
  OBVIOUS
<1>1. TypeOK
  BY StartValues DEF PresenceInit, TypeOK
<1>2. ClosedIsEmpty /\ HistoryTold /\ LinksCounted
  BY DEF PresenceInit, ClosedIsEmpty, HistoryTold, LinksCounted, NoLink
<1> QED BY <1>1, <1>2 DEF IInv

\* A new session: the history of a present host is the one sample of the query.
LEMMA OpenInductive == ASSUME IInv, OpenSession PROVE IInv'
<1> USE DEF IInv
<1>0. Self \in Everyone /\ Self \notin Peers /\ Peers \subseteq Everyone
  BY PresenceAssumption DEF Everyone
<1>1. /\ wire = [h \in Everyone |-> <<>>] /\ presence = [h \in Everyone |-> NoRecord]
      /\ link = NoLink /\ link' = NoLink /\ open' = TRUE
  BY DEF ClosedIsEmpty, OpenSession
<1>2. Updated(NoRecord, TRUE) = [seen |-> TRUE, online |-> TRUE, transitions |-> 1]
  BY DEF Updated, NoRecord
<1>3. TypeOK'
  <2>1. alive' \in [Everyone -> BOOLEAN]
    BY DEF TypeOK, OpenSession
  <2>2. ups' \in [Everyone -> Nat] /\ linkups' \in Nat
    BY DEF OpenSession
  <2>4. wire' \in [Everyone -> Seq(Sample)]
    BY StartValues DEF OpenSession
  <2>5. presence' \in [Everyone -> PresenceRecord]
    BY <1>2, StartValues DEF TypeOK, OpenSession
  <2> QED BY <1>1, <2>1, <2>2, <2>4, <2>5 DEF TypeOK
<1>4. HistoryTold'
  <2> SUFFICES ASSUME NEW h \in Everyone
               PROVE  Told(presence'[h], wire'[h], alive'[h], ups'[h])
    BY DEF HistoryTold
  <2>0. alive'[h] \in BOOLEAN
    BY <1>3 DEF TypeOK
  <2>1. presence'[h] = IF h = Self THEN [seen |-> TRUE, online |-> TRUE, transitions |-> 1]
                                   ELSE NoRecord
    BY <1>0, <1>1, <1>2 DEF OpenSession
  <2>2. CASE alive'[h]
    <3>1. wire'[h] = <<[put |-> TRUE, up |-> 1]>> /\ ups'[h] = 1
      BY <2>2 DEF OpenSession
    <3>2. alive'[h] = TRUE
      BY <2>0, <2>2
    <3> QED BY <2>1, <3>1, <3>2, ToldAtStart
  <2>3. CASE ~alive'[h]
    <3>1. wire'[h] = <<>> /\ ups'[h] = 0 /\ h # Self
      BY <1>0, <2>3 DEF OpenSession, TypeOK
    <3>2. alive'[h] = FALSE
      BY <2>0, <2>3
    <3> QED BY <2>1, <3>1, <3>2, ToldAtStart
  <2> QED BY <2>2, <2>3
<1>5. LinksCounted'
  <2>1. LinkConnected' = LinkConnected
    BY <1>0 DEF LinkConnected, OpenSession, TypeOK
  <2> QED BY <1>1, <2>1 DEF LinksCounted, NoLink, OpenSession
<1> QED BY <1>1, <1>3, <1>4, <1>5 DEF ClosedIsEmpty

LEMMA CloseInductive == ASSUME IInv, CloseSession PROVE IInv'
<1>1. TypeOK'
  BY StartValues DEF IInv, TypeOK, CloseSession
<1>2. ClosedIsEmpty' /\ HistoryTold' /\ LinksCounted'
  BY DEF CloseSession, ClosedIsEmpty, HistoryTold, LinksCounted, NoLink
<1> QED BY <1>1, <1>2 DEF IInv

\* Delivering a sample moves it from the wire into the record.
LEMMA DeliverInductive ==
  ASSUME IInv, NEW h \in Everyone, OnLiveliness(h)
  PROVE  IInv'
<1>1. /\ open /\ open' = open /\ wire[h] # <<>> /\ alive' = alive /\ ups' = ups
      /\ linkups' = linkups /\ link' = link
  BY DEF OnLiveliness, env
<1>2. /\ presence[h] \in PresenceRecord /\ wire[h] \in Seq(Sample)
      /\ alive[h] \in BOOLEAN /\ ups[h] \in Nat
  BY DEF IInv, TypeOK
<1>3. Told(presence[h], wire[h], alive[h], ups[h])
  BY <1>1 DEF IInv, HistoryTold
<1>4. Head(wire[h]).put \in BOOLEAN /\ Tail(wire[h]) \in Seq(Sample)
  <2>1. Head(wire[h]) \in Sample /\ Tail(wire[h]) \in Seq(Sample)
    BY <1>1, <1>2, TailFacts
  <2> QED BY <2>1 DEF Sample
<1>5. Updated(presence[h], Head(wire[h]).put) \in PresenceRecord
  BY <1>2, <1>3, <1>4, UpdatedRecord DEF Told
<1>6. TypeOK'
  BY <1>1, <1>4, <1>5 DEF IInv, TypeOK, OnLiveliness
<1>7. HistoryTold'
  <2> SUFFICES ASSUME NEW g \in Everyone
               PROVE  Told(presence'[g], wire'[g], alive'[g], ups'[g])
    BY DEF HistoryTold
  <2>1. CASE g = h
    <3>1. presence'[g] = Updated(presence[h], Head(wire[h]).put) /\ wire'[g] = Tail(wire[h])
      BY <2>1 DEF OnLiveliness, IInv, TypeOK
    <3> QED BY <1>1, <1>2, <1>3, <2>1, <3>1, ToldDelivered
  <2>2. CASE g # h
    <3>1. presence'[g] = presence[g] /\ wire'[g] = wire[g]
      BY <2>2 DEF OnLiveliness, IInv, TypeOK
    <3> QED BY <1>1, <3>1 DEF IInv, HistoryTold
  <2> QED BY <2>1, <2>2
<1>8. LinksCounted'
  BY <1>1 DEF IInv, LinksCounted, LinkConnected
<1> QED BY <1>1, <1>6, <1>7, <1>8 DEF IInv, ClosedIsEmpty

\* What Stats adds to its estimate is a link that was not yet counted.
LEMMA SampledCounts ==
  ASSUME NEW l \in Links, NEW c \in BOOLEAN, NEW n \in Nat,
         l.last => l.ever,
         l.reconnects + (IF l.ever THEN 1 ELSE 0) + (IF c /\ ~l.last THEN 1 ELSE 0) <= n
  PROVE  /\ Sampled(l, c).last => Sampled(l, c).ever
         /\ Sampled(l, c).reconnects + (IF Sampled(l, c).ever THEN 1 ELSE 0)
              + (IF c /\ ~Sampled(l, c).last THEN 1 ELSE 0) <= n
<1>1. l.reconnects \in Nat /\ l.last \in BOOLEAN /\ l.ever \in BOOLEAN
  BY DEF Links
<1>2. CASE c = TRUE
  <2>1. Sampled(l, c).ever /\ Sampled(l, c).last
    BY <1>1, <1>2 DEF Sampled
  <2>2. Sampled(l, c).reconnects =
          IF ~l.last /\ l.ever THEN l.reconnects + 1 ELSE l.reconnects
    BY <1>1, <1>2 DEF Sampled
  <2>3. Sampled(l, c).reconnects + 1 <= n
    <3>1. CASE l.last
      BY <1>1, <1>2, <2>2, <3>1
    <3>2. CASE ~l.last
      BY <1>1, <1>2, <2>2, <3>2
    <3> QED BY <3>1, <3>2
  <2>4. Sampled(l, c).reconnects \in Nat
    BY <1>1, <2>2
  <2> QED BY <2>1, <2>3, <2>4
<1>3. CASE c = FALSE
  BY <1>1, <1>3 DEF Sampled
<1> QED BY <1>2, <1>3

\* Sampling moves a link from "not yet seen" to the estimate, or drops it.
LEMMA StatsInductive == ASSUME IInv, GetStats PROVE IInv'
<1>1. /\ open /\ open' = open /\ alive' = alive /\ ups' = ups /\ linkups' = linkups
      /\ wire' = wire /\ presence' = presence
  BY DEF GetStats, env
<1>2. LinkConnected \in BOOLEAN /\ LinkConnected' = LinkConnected
  BY <1>1 DEF LinkConnected
<1>3. /\ link \in Links /\ link' = Sampled(link, LinkConnected) /\ linkups \in Nat
      /\ link.last => link.ever
      /\ link.reconnects + (IF link.ever THEN 1 ELSE 0)
           + (IF LinkConnected /\ ~link.last THEN 1 ELSE 0) <= linkups
  BY <1>1 DEF IInv, TypeOK, LinksCounted, GetStats
<1>4. link' \in Links
  BY <1>2, <1>3 DEF Sampled, Links
<1>5. LinksCounted'
  <2>1. /\ link'.last => link'.ever
        /\ link'.reconnects + (IF link'.ever THEN 1 ELSE 0)
             + (IF LinkConnected /\ ~link'.last THEN 1 ELSE 0) <= linkups
    BY <1>2, <1>3, SampledCounts
  <2> QED BY <1>1, <1>2, <2>1 DEF LinksCounted
<1> QED BY <1>1, <1>4, <1>5 DEF IInv, TypeOK, ClosedIsEmpty, HistoryTold

\* A sample that is sent, by a host that changes or once more, continues the history.
LEMMA SendInductive ==
  ASSUME IInv, NEW h \in Everyone, NEW b \in BOOLEAN,
         alive' = [alive EXCEPT ![h] = b],
         ups' = IF open THEN [ups EXCEPT ![h] = Rise(ups[h], alive[h], b)] ELSE ups,
         Send(h, b), UNCHANGED <<open, presence>>
  PROVE  /\ alive' \in [Everyone -> BOOLEAN]
         /\ ups' \in [Everyone -> Nat]
         /\ wire' \in [Everyone -> Seq(Sample)]
         /\ HistoryTold'
<1>1. /\ presence \in [Everyone -> PresenceRecord] /\ wire \in [Everyone -> Seq(Sample)]
      /\ alive \in [Everyone -> BOOLEAN] /\ ups \in [Everyone -> Nat] /\ open \in BOOLEAN
  BY DEF IInv, TypeOK
<1>2. Rise(ups[h], alive[h], b) \in Nat
  BY <1>1 DEF Rise
<1>3. alive' \in [Everyone -> BOOLEAN] /\ ups' \in [Everyone -> Nat]
  BY <1>1, <1>2
<1>4. CASE ~open
  BY <1>1, <1>3, <1>4 DEF Send, HistoryTold
<1>5. CASE open
  <2>1. ups'[h] = Rise(ups[h], alive[h], b) /\ alive'[h] = b
    BY <1>1, <1>5
  <2>2. [put |-> b, up |-> ups'[h]] \in Sample
    BY <1>2, <2>1 DEF Sample
  <2>3. wire' = [wire EXCEPT ![h] = Append(wire[h], [put |-> b, up |-> ups'[h]])]
    BY <1>5 DEF Send
  <2>4. wire' \in [Everyone -> Seq(Sample)]
    <3>1. Append(wire[h], [put |-> b, up |-> ups'[h]]) \in Seq(Sample)
      BY <1>1, <2>2, AppendFacts
    <3> QED BY <1>1, <2>3, <3>1
  <2>5. HistoryTold'
    <3> SUFFICES ASSUME NEW g \in Everyone
                 PROVE  Told(presence'[g], wire'[g], alive'[g], ups'[g])
      BY DEF HistoryTold
    <3>0. Told(presence[g], wire[g], alive[g], ups[g])
      BY <1>5 DEF IInv, HistoryTold
    <3>1. CASE g = h
      <4>1. Told(presence[h], Append(wire[h], [put |-> b, up |-> ups'[h]]), b, ups'[h])
        BY <1>1, <1>2, <2>1, <3>0, <3>1, ToldSent
      <4> QED BY <1>1, <2>1, <2>3, <3>1, <4>1
    <3>2. CASE g # h
      <4>1. wire'[g] = wire[g] /\ alive'[g] = alive[g] /\ ups'[g] = ups[g]
        BY <1>1, <1>5, <2>3, <3>2
      <4> QED BY <3>0, <4>1
    <3> QED BY <3>1, <3>2
  <2> QED BY <1>3, <2>4, <2>5
<1> QED BY <1>1, <1>4, <1>5

\* A host that comes gives the session at most one link it did not have.
LEMMA AppearInductive ==
  ASSUME IInv, NEW p \in Peers, Appear(p)
  PROVE  IInv'
<1>0. p \in Everyone
  BY DEF Everyone
<1>1. /\ open' = open /\ presence' = presence /\ link' = link /\ ~alive[p]
      /\ alive' = [alive EXCEPT ![p] = TRUE] /\ Send(p, TRUE)
      /\ alive \in [Everyone -> BOOLEAN] /\ ups \in [Everyone -> Nat] /\ open \in BOOLEAN
      /\ linkups \in Nat /\ link \in Links
  BY DEF Appear, IInv, TypeOK
<1>2. ups' = IF open THEN [ups EXCEPT ![p] = Rise(ups[p], alive[p], TRUE)] ELSE ups
  BY <1>0, <1>1 DEF Appear, Rise
<1>3. /\ alive' \in [Everyone -> BOOLEAN] /\ ups' \in [Everyone -> Nat]
      /\ wire' \in [Everyone -> Seq(Sample)] /\ HistoryTold'
  BY <1>0, <1>1, <1>2, SendInductive
<1>4. linkups' \in Nat /\ linkups' = IF open /\ ~LinkConnected THEN linkups + 1 ELSE linkups
  BY <1>1 DEF Appear
<1>5. TypeOK'
  BY <1>1, <1>3, <1>4 DEF IInv, TypeOK
<1>6. ClosedIsEmpty'
  BY <1>1, <1>4 DEF IInv, ClosedIsEmpty, Send
<1>7. LinksCounted'
  <2>1. link.reconnects \in Nat
    BY <1>1 DEF Links
  <2>2. LinkConnected'
    BY <1>0, <1>1 DEF LinkConnected
  <2>3. LinkConnected \in BOOLEAN
    BY DEF LinkConnected
  <2>4. /\ link.last => link.ever
        /\ open => link.reconnects + (IF link.ever THEN 1 ELSE 0)
                     + (IF LinkConnected /\ ~link.last THEN 1 ELSE 0) <= linkups
    BY DEF IInv, LinksCounted
  <2>5. open => link.reconnects + (IF link.ever THEN 1 ELSE 0)
                  + (IF ~link.last THEN 1 ELSE 0) <= linkups'
    BY <1>1, <1>4, <2>1, <2>3, <2>4
  <2>6. open => link.reconnects + (IF link.ever THEN 1 ELSE 0)
                  + (IF LinkConnected' /\ ~link.last THEN 1 ELSE 0) <= linkups'
    BY <2>2, <2>5
  <2> QED BY <1>1, <2>4, <2>6 DEF LinksCounted
<1> QED BY <1>3, <1>5, <1>6, <1>7 DEF IInv

\* A host that goes may take the last link with it, and gives none.
LEMMA VanishInductive ==
  ASSUME IInv, NEW p \in Peers, Vanish(p)
  PROVE  IInv'
<1>0. p \in Everyone
  BY DEF Everyone
<1>1. /\ open' = open /\ presence' = presence /\ link' = link /\ linkups' = linkups
      /\ alive' = [alive EXCEPT ![p] = FALSE] /\ Send(p, FALSE) /\ ups' = ups
      /\ alive \in [Everyone -> BOOLEAN] /\ ups \in [Everyone -> Nat] /\ open \in BOOLEAN
      /\ linkups \in Nat /\ link \in Links
  BY DEF Vanish, IInv, TypeOK
<1>2. ups' = IF open THEN [ups EXCEPT ![p] = Rise(ups[p], alive[p], FALSE)] ELSE ups
  BY <1>0, <1>1 DEF Rise
<1>3. /\ alive' \in [Everyone -> BOOLEAN] /\ ups' \in [Everyone -> Nat]
      /\ wire' \in [Everyone -> Seq(Sample)] /\ HistoryTold'
  BY <1>0, <1>1, <1>2, SendInductive
<1>5. TypeOK'
  BY <1>1, <1>3 DEF IInv, TypeOK
<1>6. ClosedIsEmpty'
  BY <1>1 DEF IInv, ClosedIsEmpty, Send
<1>7. LinksCounted'
  <2>1. link.reconnects \in Nat
    BY <1>1 DEF Links
  <2>2. LinkConnected' => LinkConnected
    BY <1>0, <1>1 DEF LinkConnected, Everyone
  <2>4. /\ link.last => link.ever
        /\ open => link.reconnects + (IF link.ever THEN 1 ELSE 0)
                     + (IF LinkConnected /\ ~link.last THEN 1 ELSE 0) <= linkups
    BY DEF IInv, LinksCounted
  <2>5. CASE LinkConnected'
    BY <1>1, <2>2, <2>4, <2>5 DEF LinksCounted
  <2>6. CASE ~LinkConnected'
    <3>1. open => link.reconnects + (IF link.ever THEN 1 ELSE 0) <= linkups
      BY <1>1, <2>1, <2>4
    <3> QED BY <1>1, <2>1, <2>4, <2>6, <3>1 DEF LinksCounted
  <2> QED BY <2>5, <2>6
<1> QED BY <1>3, <1>5, <1>6, <1>7 DEF IInv

LEMMA RepeatInductive ==
  ASSUME IInv, NEW h \in Everyone, Repeat(h)
  PROVE  IInv'
<1>1. /\ open /\ open' = open /\ presence' = presence /\ link' = link /\ linkups' = linkups
      /\ alive' = alive /\ ups' = ups /\ Send(h, alive[h])
      /\ alive \in [Everyone -> BOOLEAN] /\ ups \in [Everyone -> Nat]
  BY DEF Repeat, env, IInv, TypeOK
<1>2. /\ alive' = [alive EXCEPT ![h] = alive[h]]
      /\ ups' = IF open THEN [ups EXCEPT ![h] = Rise(ups[h], alive[h], alive[h])] ELSE ups
      /\ alive[h] \in BOOLEAN
  BY <1>1 DEF Rise
<1>3. wire' \in [Everyone -> Seq(Sample)] /\ HistoryTold'
  BY <1>1, <1>2, SendInductive
<1>4. LinksCounted'
  BY <1>1 DEF IInv, LinksCounted, LinkConnected
<1> QED BY <1>1, <1>3, <1>4 DEF IInv, TypeOK, ClosedIsEmpty

LEMMA StepInductive == IInv /\ [PresenceNext]_pvars => IInv'
<1> SUFFICES ASSUME IInv, [PresenceNext]_pvars PROVE IInv'
  OBVIOUS
<1>1. CASE UNCHANGED pvars
  BY <1>1 DEF pvars, IInv, TypeOK, ClosedIsEmpty, HistoryTold, LinksCounted, LinkConnected
<1>2. CASE OpenSession
  BY <1>2, OpenInductive
<1>3. CASE CloseSession
  BY <1>3, CloseInductive
<1>4. CASE GetStats
  BY <1>4, StatsInductive
<1>5. ASSUME NEW h \in Everyone, OnLiveliness(h) PROVE IInv'
  BY <1>5, DeliverInductive
<1>6. ASSUME NEW h \in Everyone, Repeat(h) PROVE IInv'
  BY <1>6, RepeatInductive
<1>7. ASSUME NEW p \in Peers, Appear(p) PROVE IInv'
  BY <1>7, AppearInductive
<1>8. ASSUME NEW p \in Peers, Vanish(p) PROVE IInv'
  BY <1>8, VanishInductive
<1> QED BY <1>1, <1>2, <1>3, <1>4, <1>5, <1>6, <1>7, <1>8 DEF PresenceNext

LEMMA Inductive == PresenceSpec => []IInv
BY InitInductive, StepInductive, PTL DEF PresenceSpec

----------------------------------------------------------------------------
(* The theorems.                                                           *)

\* UpdatePresence: for any hosts and any number of changes and repeated samples, once the
\* samples of a host are delivered its record is exact.
THEOREM PresenceIsExact == PresenceSpec => []PresenceExact
<1>1. IInv => PresenceExact
  BY DEF IInv, HistoryTold, PresenceExact, Told
<1> QED BY <1>1, Inductive, PTL

\* Stats: the reconnect estimate never exceeds the links really gained after the first.
THEOREM ReconnectsAreReal == PresenceSpec => []ReconnectsReal
<1>1. IInv => ReconnectsReal
  <2> SUFFICES ASSUME IInv PROVE ReconnectsReal
    OBVIOUS
  <2>1. link.reconnects \in Nat /\ linkups \in Nat /\ open \in BOOLEAN
    BY DEF IInv, TypeOK, Links
  <2>2. CASE open
    BY <2>1, <2>2 DEF IInv, LinksCounted, ReconnectsReal
  <2>3. CASE ~open
    BY <2>3 DEF IInv, ClosedIsEmpty, NoLink, ReconnectsReal
  <2> QED BY <2>2, <2>3
<1> QED BY <1>1, Inductive, PTL

----------------------------------------------------------------------------
(* NodePresence implements HostPresence.                                   *)

\* The variables of HostPresence, as NodePresence represents them.
HostAlive == [p \in Peers |-> alive[p]]
HostStatus == [p \in Peers |-> StatusOf(presence[p])]
HostPending == [p \in Peers |-> Unsettled(p)]

LEMMA InitImplements == PresenceInit => Host!HostInit
BY DEF PresenceInit, Host!HostInit, Host!Unknown, Host!Settled, Everyone, StatusOf, NoRecord,
       Unsettled

\* When nothing about the peers' records and samples changes, HostPresence stutters.
LEMMA SameHosts ==
  ASSUME open' = open, \A p \in Peers : alive'[p] = alive[p],
         \A p \in Peers : StatusOf(presence'[p]) = StatusOf(presence[p]),
         \A p \in Peers : Unsettled(p)' = Unsettled(p)
  PROVE  UNCHANGED Host!hvars
<1>1. HostAlive' = HostAlive
  BY DEF HostAlive
<1>2. HostStatus' = HostStatus
  BY DEF HostStatus
<1>3. HostPending' = HostPending
  BY DEF HostPending
<1> QED BY <1>1, <1>2, <1>3 DEF Host!hvars, HostAlive, HostStatus, HostPending

LEMMA OpenImplements == ASSUME IInv, OpenSession PROVE Host!Open
<1>0. Self \notin Peers /\ Peers \subseteq Everyone
  BY PresenceAssumption DEF Everyone
<1>1. \A p \in Peers : alive'[p] = alive[p] /\ presence'[p] = presence[p] /\ alive[p] \in BOOLEAN
  BY <1>0 DEF OpenSession, IInv, TypeOK
<1>2. HostAlive' = HostAlive /\ HostStatus' = HostStatus
  BY <1>1 DEF HostAlive, HostStatus
<1>3. ASSUME NEW p \in Peers PROVE Unsettled(p)' = alive[p]
  <2>1. presence[p] = NoRecord
    BY <1>0 DEF OpenSession, IInv, ClosedIsEmpty
  <2>2. ~presence'[p].seen
    BY <1>1, <2>1 DEF NoRecord
  <2>3. CASE alive[p]
    <3>1. wire'[p] = <<[put |-> TRUE, up |-> 1]>>
      BY <1>0, <1>1, <2>3 DEF OpenSession
    <3>2. wire'[p] # <<>>
      BY <3>1
    <3> QED BY <1>1, <2>2, <2>3, <3>2 DEF Unsettled
  <2>4. CASE ~alive[p]
    <3>1. wire'[p] = <<>>
      BY <1>0, <1>1, <2>4 DEF OpenSession
    <3> QED BY <1>1, <2>4, <3>1 DEF Unsettled
  <2> QED BY <2>3, <2>4
<1>4. HostPending' = HostAlive
  BY <1>3 DEF HostPending, HostAlive
<1> QED BY <1>2, <1>4 DEF Host!Open, OpenSession, HostAlive, HostStatus, HostPending

LEMMA CloseImplements == ASSUME IInv, CloseSession PROVE Host!Close
<1>0. Self \notin Peers /\ Peers \subseteq Everyone
  BY PresenceAssumption DEF Everyone
<1>1. HostAlive' = HostAlive
  BY <1>0 DEF CloseSession, IInv, TypeOK, HostAlive
<1>2. ASSUME NEW p \in Peers
      PROVE  (Unsettled(p)' = FALSE) /\ StatusOf(presence'[p]) = "UNKNOWN"
  <2>1. wire'[p] = <<>> /\ presence'[p] = NoRecord
    BY <1>0 DEF CloseSession
  <2> QED BY <2>1 DEF Unsettled, StatusOf, NoRecord
<1>3. HostStatus' = [p \in Peers |-> "UNKNOWN"]
  BY <1>2 DEF HostStatus
<1>4. HostPending' = [p \in Peers |-> FALSE]
  BY <1>2 DEF HostPending
<1> QED BY <1>1, <1>3, <1>4 DEF Host!Close, Host!Unknown, Host!Settled, CloseSession,
           HostAlive, HostStatus, HostPending

\* A sample that is delivered settles its host, or leaves it lagging, or says what the
\* record says already.
LEMMA DeliverImplements ==
  ASSUME IInv, IInv', NEW h \in Everyone, OnLiveliness(h)
  PROVE  \/ UNCHANGED Host!hvars
         \/ h \in Peers /\ (Host!Lag(h) \/ Host!Settle(h))
<1>0. Peers \subseteq Everyone
  BY DEF Everyone
<1>1. /\ open /\ open' = open /\ alive' = alive /\ wire[h] # <<>>
      /\ presence' = [presence EXCEPT ![h] = Updated(presence[h], Head(wire[h]).put)]
      /\ wire' = [wire EXCEPT ![h] = Tail(wire[h])]
      /\ presence \in [Everyone -> PresenceRecord] /\ wire \in [Everyone -> Seq(Sample)]
      /\ alive \in [Everyone -> BOOLEAN]
  BY DEF OnLiveliness, env, IInv, TypeOK
<1>2. \A p \in Peers : p # h => /\ StatusOf(presence'[p]) = StatusOf(presence[p])
                              /\ Unsettled(p)' = Unsettled(p)
  BY <1>0, <1>1 DEF Unsettled
<1>3. CASE h \notin Peers
  BY <1>1, <1>2, <1>3, SameHosts
<1>4. CASE h \in Peers /\ ~Unsettled(h)
  <2>1. /\ presence[h].seen /\ presence[h].online = alive[h]
        /\ \A i \in DOMAIN wire[h] : wire[h][i].put = alive[h]
    BY <1>1, <1>4 DEF Unsettled
  <2>2. /\ wire[h] \in Seq(Sample) /\ Head(wire[h]) = wire[h][1] /\ 1 \in DOMAIN wire[h]
        /\ Len(Tail(wire[h])) = Len(wire[h]) - 1 /\ Tail(wire[h]) \in Seq(Sample)
        /\ \A i \in 1..(Len(wire[h]) - 1) : Tail(wire[h])[i] = wire[h][i + 1]
        /\ Len(wire[h]) \in Nat
    BY <1>1, TailFacts
  <2>3. presence'[h] = presence[h]
    <3>1. Updated(presence[h], Head(wire[h]).put) = presence[h]
      BY <2>1, <2>2 DEF Updated
    <3> QED BY <1>1, <3>1
  <2>4. \A i \in DOMAIN Tail(wire[h]) : Tail(wire[h])[i].put = alive[h]
    <3> SUFFICES ASSUME NEW i \in DOMAIN Tail(wire[h])
                 PROVE  Tail(wire[h])[i].put = alive[h]
      OBVIOUS
    <3>1. i \in 1..(Len(wire[h]) - 1) /\ i + 1 \in DOMAIN wire[h]
      BY <2>2
    <3> QED BY <2>1, <2>2, <3>1
  <2>5. ~Unsettled(h)'
    <3>1. wire'[h] = Tail(wire[h])
      BY <1>1
    <3> QED BY <1>1, <2>1, <2>3, <2>4, <3>1 DEF Unsettled
  <2>6. Unsettled(h)' = Unsettled(h)
    BY <1>4, <2>5 DEF Unsettled
  <2>7. \A p \in Peers : /\ StatusOf(presence'[p]) = StatusOf(presence[p])
                        /\ Unsettled(p)' = Unsettled(p)
    BY <1>2, <2>3, <2>6
  <2> QED BY <1>1, <2>7, SameHosts
<1>5. CASE h \in Peers /\ Unsettled(h)
  <2>1. presence'[h].seen /\ presence'[h].online \in BOOLEAN
    <3>1. Head(wire[h]).put \in BOOLEAN
      <4>1. Head(wire[h]) \in Sample
        BY <1>1, TailFacts
      <4> QED BY <4>1 DEF Sample
    <3>2. ~presence[h].seen => ~presence[h].online
      BY <1>1 DEF IInv, HistoryTold, Told
    <3>3. presence'[h] = Updated(presence[h], Head(wire[h]).put)
      BY <1>1
    <3> QED BY <1>1, <3>1, <3>2, <3>3, UpdatedRecord
  <2>2. HostStatus' = [HostStatus EXCEPT ![h] = StatusOf(presence'[h])]
    BY <1>2, <1>5 DEF HostStatus
  <2>3. HostAlive' = HostAlive /\ HostPending[h]
    BY <1>1, <1>5 DEF HostAlive, HostPending
  <2>4. CASE Unsettled(h)'
    <3>0. Unsettled(h)' = Unsettled(h)
      BY <1>5, <2>4 DEF Unsettled
    <3>1. HostPending' = HostPending
      BY <1>2, <3>0 DEF HostPending
    <3>2. StatusOf(presence'[h]) \in {"ONLINE", "OFFLINE"}
      BY <2>1 DEF StatusOf
    <3>3. Host!Lag(h)
      BY <1>1, <2>2, <2>3, <3>1, <3>2
         DEF Host!Lag, HostAlive, HostStatus, HostPending
    <3> QED BY <1>5, <3>3
  <2>5. CASE ~Unsettled(h)'
    <3>0. Unsettled(h)' = FALSE
      BY <2>5 DEF Unsettled
    <3>1. HostPending' = [HostPending EXCEPT ![h] = FALSE]
      BY <1>2, <1>5, <3>0 DEF HostPending
    <3>2. presence'[h].online = alive'[h]
      <4>1. CASE wire'[h] = <<>>
        BY <1>1, <4>1 DEF IInv, HistoryTold, Told
      <4>2. CASE wire'[h] # <<>>
        BY <2>5, <4>2 DEF Unsettled
      <4> QED BY <4>1, <4>2
    <3>3. StatusOf(presence'[h]) = IF HostAlive[h] THEN "ONLINE" ELSE "OFFLINE"
      BY <1>1, <1>5, <2>1, <3>2 DEF StatusOf, HostAlive
    <3>4. Host!Settle(h)
      BY <1>1, <2>2, <2>3, <3>1, <3>3
         DEF Host!Settle, Host!Truth, HostAlive, HostStatus, HostPending
    <3> QED BY <1>5, <3>4
  <2> QED BY <2>4, <2>5
<1> QED BY <1>3, <1>4, <1>5

\* A host that changes makes its record wrong until its last sample is delivered.
LEMMA ChangeImplements ==
  ASSUME IInv, NEW p \in Peers, alive' = [alive EXCEPT ![p] = ~alive[p]],
         Send(p, ~alive[p]), UNCHANGED <<open, presence>>, ups'[p] \in Nat
  PROVE  Host!Change(p)
<1>0. p \in Everyone /\ Peers \subseteq Everyone
  BY DEF Everyone
<1>1. /\ presence \in [Everyone -> PresenceRecord] /\ wire \in [Everyone -> Seq(Sample)]
      /\ alive \in [Everyone -> BOOLEAN] /\ open \in BOOLEAN
  BY DEF IInv, TypeOK
<1>2. HostStatus' = HostStatus /\ HostAlive' = [HostAlive EXCEPT ![p] = ~HostAlive[p]]
  BY <1>0, <1>1 DEF HostStatus, HostAlive
<1>3. CASE ~open
  <2>1. wire' = wire /\ \A q \in Peers : wire[q] = <<>>
    BY <1>0, <1>3 DEF Send, IInv, ClosedIsEmpty
  <2>2. \A q \in Peers : Unsettled(q)' = Unsettled(q)
    BY <2>1 DEF Unsettled
  <2>3. HostPending' = HostPending
    BY <2>2 DEF HostPending
  <2> QED BY <1>2, <1>3, <2>3 DEF Host!Change, HostAlive, HostStatus, HostPending
<1>4. CASE open
  <2> DEFINE e == [put |-> ~alive[p], up |-> ups'[p]]
  <2>1. wire' = [wire EXCEPT ![p] = Append(wire[p], e)] /\ wire'[p] = Append(wire[p], e)
    BY <1>0, <1>1, <1>4 DEF Send
  <2>2. \A q \in Peers : q # p => Unsettled(q)' = Unsettled(q)
    BY <1>0, <1>1, <2>1 DEF Unsettled
  <2> HIDE DEF e
  <2>3. /\ wire'[p] # <<>> /\ Len(wire[p]) \in Nat
        /\ \A i \in 1..Len(wire[p]) : i \in DOMAIN wire'[p] /\ wire'[p][i] = wire[p][i]
        /\ wire[p] = <<>> <=> Len(wire[p]) = 0
    <3>1. e \in Sample /\ wire[p] \in Seq(Sample)
      BY <1>0, <1>1 DEF Sample, e
    <3>2. /\ wire'[p] \in Seq(Sample) /\ wire'[p] # <<>>
          /\ Len(wire[p]) \in Nat /\ Len(wire'[p]) = Len(wire[p]) + 1
          /\ \A i \in 1..Len(wire[p]) : wire'[p][i] = wire[p][i]
          /\ wire[p] = <<>> <=> Len(wire[p]) = 0
      BY <2>1, <3>1, AppendFacts
    <3>3. DOMAIN wire'[p] = 1..(Len(wire[p]) + 1)
      BY <3>2
    <3> QED BY <3>2, <3>3
  <2>4. alive'[p] # alive[p]
    BY <1>0, <1>1
  <2>5. Told(presence[p], wire[p], alive[p], ups[p])
    BY <1>0, <1>4 DEF IInv, HistoryTold
  <2>6. Unsettled(p)' = TRUE
    <3>1. CASE wire[p] = <<>>
      BY <2>3, <2>4, <2>5, <3>1 DEF Told, Unsettled
    <3>2. CASE wire[p] # <<>>
      <4>1. Len(wire[p]) \in 1..Len(wire[p])
        BY <2>3, <3>2
      <4>2. wire'[p][Len(wire[p])].put = alive[p] /\ Len(wire[p]) \in DOMAIN wire'[p]
        BY <2>3, <2>5, <3>2, <4>1 DEF Told
      <4> QED BY <2>3, <2>4, <4>2 DEF Unsettled
    <3> QED BY <3>1, <3>2
  <2>7. HostPending' = [HostPending EXCEPT ![p] = TRUE]
    BY <2>2, <2>6 DEF HostPending
  <2> QED BY <1>2, <1>4, <2>7 DEF Host!Change, HostAlive, HostStatus, HostPending
<1> QED BY <1>1, <1>3, <1>4

\* A sample sent once more changes nothing that a user sees.
LEMMA RepeatImplements ==
  ASSUME IInv, NEW h \in Everyone, Repeat(h)
  PROVE  UNCHANGED Host!hvars
<1>0. Peers \subseteq Everyone
  BY DEF Everyone
<1>1. /\ open /\ open' = open /\ presence' = presence /\ alive' = alive
      /\ presence[h].seen \/ wire[h] # <<>>
      /\ presence \in [Everyone -> PresenceRecord] /\ wire \in [Everyone -> Seq(Sample)]
      /\ alive \in [Everyone -> BOOLEAN]
      /\ ups'[h] \in Nat
  BY DEF Repeat, env, IInv, TypeOK
<1> DEFINE e == [put |-> alive[h], up |-> ups'[h]]
<1>2. wire' = [wire EXCEPT ![h] = Append(wire[h], e)] /\ wire'[h] = Append(wire[h], e)
  BY <1>1 DEF Repeat, Send
<1>3. \A q \in Peers : q # h => Unsettled(q)' = Unsettled(q)
  BY <1>0, <1>1, <1>2 DEF Unsettled
<1>4. e.put = alive[h] /\ e \in Sample
  BY <1>1 DEF Sample
<1> HIDE DEF e
<1>5. /\ wire'[h] # <<>> /\ Len(wire[h]) \in Nat
      /\ DOMAIN wire[h] = 1..Len(wire[h]) /\ DOMAIN wire'[h] = 1..(Len(wire[h]) + 1)
      /\ \A i \in 1..Len(wire[h]) : wire'[h][i] = wire[h][i]
      /\ wire'[h][Len(wire[h]) + 1] = e
      /\ wire[h] = <<>> <=> Len(wire[h]) = 0
  <2>1. wire[h] \in Seq(Sample)
    BY <1>1
  <2> QED BY <1>2, <1>4, <2>1, AppendFacts
<1>6. (\E i \in DOMAIN wire'[h] : wire'[h][i].put # alive[h])
        <=> (\E i \in DOMAIN wire[h] : wire[h][i].put # alive[h])
  <2>1. ASSUME NEW i \in DOMAIN wire'[h], wire'[h][i].put # alive[h]
        PROVE  i \in DOMAIN wire[h] /\ wire[h][i].put # alive[h]
    <3>1. i # Len(wire[h]) + 1
      BY <1>4, <1>5, <2>1
    <3>2. i \in 1..Len(wire[h])
      BY <1>5, <3>1
    <3>3. wire'[h][i] = wire[h][i]
      BY <1>5, <3>2
    <3> QED BY <1>5, <2>1, <3>2, <3>3
  <2>2. ASSUME NEW i \in DOMAIN wire[h], wire[h][i].put # alive[h]
        PROVE  i \in DOMAIN wire'[h] /\ wire'[h][i].put # alive[h]
    <3>1. i \in 1..Len(wire[h]) /\ i \in DOMAIN wire'[h]
      BY <1>5
    <3>2. wire'[h][i] = wire[h][i]
      BY <1>5, <3>1
    <3> QED BY <2>2, <3>1, <3>2
  <2> QED BY <2>1, <2>2
<1>7. Unsettled(h)' = Unsettled(h)
  <2>1. CASE wire[h] # <<>>
    BY <1>1, <1>5, <1>6, <2>1 DEF Unsettled
  <2>2. CASE wire[h] = <<>>
    <3>1. presence[h].online = alive[h] /\ presence[h].seen
      BY <1>1, <2>2 DEF IInv, HistoryTold, Told
    <3>2. ~\E i \in DOMAIN wire'[h] : wire'[h][i].put # alive[h]
      BY <1>5, <1>6, <2>2
    <3> QED BY <1>1, <2>2, <3>1, <3>2 DEF Unsettled
  <2> QED BY <2>1, <2>2
<1> QED BY <1>1, <1>3, <1>7, SameHosts

\* The session implements what HostPresence promises its users: each step is a step of
\* HostPresence or leaves its variables alone.
THEOREM PresenceImplements == PresenceSpec => ImplementsHostPresence
<1>1. IInv /\ IInv' /\ [PresenceNext]_pvars => [Host!HostNext]_(Host!hvars)
  <2> SUFFICES ASSUME IInv, IInv', [PresenceNext]_pvars
               PROVE  Host!HostNext \/ UNCHANGED Host!hvars
    OBVIOUS
  <2>1. CASE UNCHANGED pvars
    BY <2>1, SameHosts DEF pvars, Unsettled
  <2>2. CASE OpenSession
    BY <2>2, OpenImplements DEF Host!HostNext
  <2>3. CASE CloseSession
    BY <2>3, CloseImplements DEF Host!HostNext
  <2>4. CASE GetStats
    BY <2>4, SameHosts DEF GetStats, env, Unsettled
  <2>5. ASSUME NEW h \in Everyone, OnLiveliness(h)
        PROVE  Host!HostNext \/ UNCHANGED Host!hvars
    BY <2>5, DeliverImplements DEF Host!HostNext
  <2>6. ASSUME NEW h \in Everyone, Repeat(h) PROVE UNCHANGED Host!hvars
    BY <2>6, RepeatImplements
  <2>7. ASSUME NEW p \in Peers, Appear(p) \/ Vanish(p) PROVE Host!HostNext
    <3>0. alive[p] \in BOOLEAN
      BY DEF IInv, TypeOK, Everyone
    <3>1. /\ alive' = [alive EXCEPT ![p] = ~alive[p]]
          /\ Send(p, ~alive[p]) /\ UNCHANGED <<open, presence>>
      <4>1. CASE Appear(p)
        <5>1. ~alive[p] = TRUE
          BY <3>0, <4>1 DEF Appear
        <5> QED BY <4>1, <5>1 DEF Appear
      <4>2. CASE Vanish(p)
        <5>1. ~alive[p] = FALSE
          BY <3>0, <4>2 DEF Vanish
        <5> QED BY <4>2, <5>1 DEF Vanish
      <4> QED BY <2>7, <4>1, <4>2
    <3>2. ups'[p] \in Nat
      BY DEF IInv, TypeOK, Everyone
    <3> QED BY <3>1, <3>2, ChangeImplements DEF Host!HostNext
  <2> QED BY <2>1, <2>2, <2>3, <2>4, <2>5, <2>6, <2>7 DEF PresenceNext
<1> QED BY <1>1, InitImplements, Inductive, PTL DEF PresenceSpec, ImplementsHostPresence, Host!HostSpec

============================================================================
