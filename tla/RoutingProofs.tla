---------------------------- MODULE RoutingProofs ----------------------------
(***************************************************************************)
(* Proofs about Routing, for every set of hosts and every configuration:   *)
(* which senders and receivers meet, which services are reached, how the   *)
(* sessions are kept apart, and what the monitor finds.                    *)
(***************************************************************************)
EXTENDS Routing, FiniteSetTheorems, SequenceTheorems, WellFoundedInduction, TLAPS

\* The texts of names and keys: strings, and those that the key expressions add.
Text == STRING \cup {"topic", "fanout", "dst", "*"}

-----------------------------------------------------------------------------
(***************************************************************************)
(* Positions in lists and in names.                                        *)
(***************************************************************************)

\* A set of naturals that is not empty has a least element, which Min chooses.
LEMMA MinIsLeast ==
  ASSUME NEW S \in SUBSET Nat, S # {}
  PROVE  Min(S) \in S /\ \A k \in S : Min(S) <= k
<1>1. PICK m \in S : \A k \in S : ~ (<<k, m>> \in OpToRel(<, Nat))
  BY NatLessThanWellFounded, WFMin
<1>2. ASSUME NEW k \in S PROVE m <= k
  <2>1. ~ (k < m)
    BY <1>1 DEF OpToRel
  <2> QED
    BY <2>1
<1> QED
  BY <1>2 DEF Min

\* A set of positions of a list that is not empty has a last element, which Max chooses.
LEMMA MaxIsLast ==
  ASSUME NEW n \in Nat, NEW S \in SUBSET (1..n), S # {}
  PROVE  Max(S) \in S
<1> DEFINE D == {n - i : i \in S}
<1>1. D \in SUBSET Nat /\ D # {}
  <2>1. \A i \in S : i \in 1..n /\ n - i \in Nat
    OBVIOUS
  <2> QED
    BY <2>1
<1>2. PICK d \in D : \A k \in D : d <= k
  BY <1>1, MinIsLeast
<1>3. PICK i \in S : d = n - i
  BY <1>2
<1>4. ASSUME NEW j \in S PROVE i >= j
  <2>1. n - j \in D
    OBVIOUS
  <2> QED
    BY <1>2, <1>3, <2>1
<1> QED
  BY <1>4 DEF Max

\* The kept positions of a name are finitely many naturals.
LEMMA KeptFinite ==
  ASSUME NEW name \in Seq(Text)
  PROVE  /\ IsFiniteSet(Kept(name)) /\ Kept(name) \subseteq 1..Len(name)
         /\ Cardinality(Kept(name)) \in Nat
         /\ \A i \in Nat : IsFiniteSet({j \in Kept(name) : j <= i}) /\ Rank(name, i) \in Nat
<1>1. Kept(name) \subseteq 1..Len(name)
  <2>1. DOMAIN name = 1..Len(name)
    OBVIOUS
  <2> QED
    BY <2>1 DEF Kept
<1>2. IsFiniteSet(1..Len(name))
  BY FS_Interval
<1>3. IsFiniteSet(Kept(name))
  BY <1>1, <1>2, FS_Subset
<1>4. ASSUME NEW i \in Nat PROVE IsFiniteSet({j \in Kept(name) : j <= i})
  BY <1>3, FS_Subset
<1> QED
  BY <1>1, <1>3, <1>4, FS_CardinalityType DEF Rank

\* Every rank up to the number of kept positions is that of a kept position: the least one
\* below which that many are kept.
LEMMA RankTaken ==
  ASSUME NEW name \in Seq(Text), NEW k \in 1..Cardinality(Kept(name))
  PROVE  \E i \in Kept(name) : Rank(name, i) = k
<1> DEFINE B == {i \in Nat : k <= Rank(name, i)}
<1>0. Len(name) \in Nat /\ k \in Nat /\ k >= 1 /\ Cardinality(Kept(name)) \in Nat
  BY KeptFinite
<1>1. Rank(name, Len(name)) = Cardinality(Kept(name))
  <2>1. {j \in Kept(name) : j <= Len(name)} = Kept(name)
    BY KeptFinite
  <2> QED
    BY <2>1 DEF Rank
<1>2. Len(name) \in B
  BY <1>0, <1>1
<1>3. PICK m \in B : \A i \in B : m <= i
  <2>1. B \in SUBSET Nat
    OBVIOUS
  <2> QED
    BY <1>2, <2>1, MinIsLeast
<1>4. m \in Nat /\ k <= Rank(name, m)
  BY <1>3
<1>5. m # 0
  <2>1. SUFFICES ASSUME m = 0 PROVE FALSE
    OBVIOUS
  <2>2. {j \in Kept(name) : j <= m} = {}
    BY <2>1, KeptFinite
  <2>3. Rank(name, m) = 0
    BY <2>2, FS_EmptySet DEF Rank
  <2> QED
    BY <1>0, <1>4, <2>3
<1>6. m - 1 \in Nat /\ ~ (k <= Rank(name, m - 1))
  BY <1>3, <1>4, <1>5
<1>7. Rank(name, m - 1) \in Nat /\ Rank(name, m) \in Nat
  BY <1>4, <1>6, KeptFinite
<1> DEFINE L == {j \in Kept(name) : j <= m - 1}
<1>8. CASE m \in Kept(name)
  <2>1. {j \in Kept(name) : j <= m} = L \cup {m}
    BY <1>4, <1>8, KeptFinite
  <2>2. IsFiniteSet(L) /\ m \notin L
    BY <1>4, <1>6, KeptFinite
  <2>3. Cardinality(L \cup {m}) = Cardinality(L) + 1
    BY <2>2, FS_AddElement
  <2>4. Rank(name, m) = Rank(name, m - 1) + 1
    BY <2>1, <2>3 DEF Rank
  <2>5. Rank(name, m) = k
    BY <1>0, <1>4, <1>6, <1>7, <2>4
  <2> QED
    BY <1>8, <2>5
<1>9. CASE m \notin Kept(name)
  <2>1. {j \in Kept(name) : j <= m} = L
    BY <1>4, <1>9, KeptFinite
  <2>2. Rank(name, m) = Rank(name, m - 1)
    BY <2>1 DEF Rank
  <2> QED
    BY <1>4, <1>6, <2>2
<1> QED
  BY <1>8, <1>9

\* A normalised name is a list of texts of the name.
LEMMA NormalizedTexts ==
  ASSUME NEW name \in Seq(Text)
  PROVE  /\ NormalizeRosName(name) \in Seq(Text)
         /\ Range(NormalizeRosName(name)) \subseteq Range(name)
<1> DEFINE n == Cardinality(Kept(name))
           At(k) == CHOOSE i \in Kept(name) : Rank(name, i) = k
<1>1. n \in Nat /\ Kept(name) \subseteq 1..Len(name)
  BY KeptFinite
<1>2. ASSUME NEW k \in 1..n PROVE At(k) \in DOMAIN name
  <2>1. \E i \in Kept(name) : Rank(name, i) = k
    BY RankTaken
  <2>2. At(k) \in Kept(name)
    BY <2>1
  <2> QED
    BY <1>1, <2>2
<1>3. NormalizeRosName(name) = [k \in 1..n |-> name[At(k)]]
  BY DEF NormalizeRosName
<1> HIDE DEF At
<1>4. ASSUME NEW k \in 1..n PROVE name[At(k)] \in Text /\ name[At(k)] \in Range(name)
  BY <1>2 DEF Range
<1>5. NormalizeRosName(name) \in [1..n -> Text]
  BY <1>3, <1>4
<1>6. NormalizeRosName(name) \in Seq(Text)
  BY <1>1, <1>5
<1>7. ASSUME NEW k \in DOMAIN NormalizeRosName(name) PROVE NormalizeRosName(name)[k] \in Range(name)
  <2>1. k \in 1..n /\ NormalizeRosName(name)[k] = name[At(k)]
    BY <1>3
  <2> QED
    BY <1>4, <2>1
<1> QED
  BY <1>6, <1>7 DEF Range

-----------------------------------------------------------------------------
(***************************************************************************)
(* The inductive invariant: what a host holds is what the operators of the *)
(* model compute from the configuration, as far as the host's phase goes.  *)
(***************************************************************************)
TopicsUp   == {"topics", "ready", "running"}
ServicesUp == {"ready", "running"}

HostInv(h, c, ph, ss, ts, sd, rc, sv, cl) ==
  /\ ph \in Phases
  /\ ss # NoMap => ss \in LoadSessions(c.zenoh, h, c.ip)
  /\ ts # <<>> \/ ph \in TopicsUp \cup {"configured"} => ConfigAccepted(c, h) /\ ts = Parsed(c)
  /\ IF ph \in TopicsUp
     THEN TopicsAccepted(c, h, ts) /\ sd = Senders(c, h, ts) /\ rc = Receivers(c, h, ts)
     ELSE sd = NoMap /\ rc = NoMap
  /\ IF ph \in ServicesUp
     THEN ServicesAccepted(c, h) /\ sv = Servers(c, h) /\ cl = Clients(c, h)
     ELSE sv = NoMap /\ cl = NoMap

RoutingInv ==
  /\ cfg \in Configs
  /\ DOMAIN phase = HostSet /\ DOMAIN sessions = HostSet /\ DOMAIN topics = HostSet
  /\ DOMAIN send = HostSet /\ DOMAIN recv = HostSet
  /\ DOMAIN servers = HostSet /\ DOMAIN clients = HostSet
  /\ \A h \in HostSet : HostInv(h, cfg, phase[h], sessions[h], topics[h], send[h], recv[h],
                                servers[h], clients[h])

LEMMA RoutingInit == Init => RoutingInv
<1> SUFFICES ASSUME Init PROVE RoutingInv
  OBVIOUS
<1>1. ASSUME NEW h \in HostSet
      PROVE  HostInv(h, cfg, phase[h], sessions[h], topics[h], send[h], recv[h], servers[h], clients[h])
  <2>1. /\ phase[h] = "down" /\ sessions[h] = NoMap /\ topics[h] = <<>> /\ send[h] = NoMap
        /\ recv[h] = NoMap /\ servers[h] = NoMap /\ clients[h] = NoMap
    BY DEF Init
  <2> QED
    BY <2>1 DEF HostInv, Phases, TopicsUp, ServicesUp
<1> QED
  BY <1>1 DEF Init, RoutingInv

\* A constructor that throws leaves a host with nothing.
LEMMA FailedHost ==
  ASSUME NEW h, NEW c
  PROVE  HostInv(h, c, "failed", NoMap, <<>>, NoMap, NoMap, NoMap, NoMap)
  BY DEF HostInv, Phases, TopicsUp, ServicesUp

\* The host that acts keeps its invariant, action by action.
LEMMA FailStep ==
  ASSUME RoutingInv, NEW h \in HostSet, Fail(h)
  PROVE  RoutingInv'
<1>1. ASSUME NEW g \in HostSet
      PROVE  HostInv(g, cfg, phase[g], sessions[g], topics[g], send[g], recv[g], servers[g], clients[g])'
  <2>1. CASE g = h
    <3>1. /\ phase'[g] = "failed" /\ sessions'[g] = NoMap /\ topics'[g] = <<>> /\ send'[g] = NoMap
          /\ recv'[g] = NoMap /\ servers'[g] = NoMap /\ clients'[g] = NoMap
      BY <2>1 DEF Fail, RoutingInv
    <3> QED
      BY <3>1, FailedHost
  <2>2. CASE g # h
    <3>1. /\ phase'[g] = phase[g] /\ sessions'[g] = sessions[g] /\ topics'[g] = topics[g]
          /\ send'[g] = send[g] /\ recv'[g] = recv[g] /\ servers'[g] = servers[g]
          /\ clients'[g] = clients[g] /\ cfg' = cfg
      BY <2>2 DEF Fail, RoutingInv
    <3> QED
      BY <3>1 DEF RoutingInv
  <2> QED
    BY <2>1, <2>2
<1> QED
  BY <1>1 DEF RoutingInv, Fail

LEMMA ConfigureStep ==
  ASSUME RoutingInv, NEW h \in HostSet, Configure(h)
  PROVE  RoutingInv'
<1>1. CASE ~ConfigAccepted(cfg, h)
  BY <1>1, FailStep DEF Configure
<1>2. CASE ConfigAccepted(cfg, h)
  <2>0. PICK s \in LoadSessions(cfg.zenoh, h, cfg.ip) : sessions' = [sessions EXCEPT ![h] = s]
    BY <1>2 DEF Configure
  <2>1. /\ phase[h] = "down" /\ phase' = [phase EXCEPT ![h] = "configured"]
        /\ topics' = [topics EXCEPT ![h] = Parsed(cfg)]
        /\ cfg' = cfg /\ send' = send /\ recv' = recv /\ servers' = servers /\ clients' = clients
    BY <1>2 DEF Configure, tables
  <2>2. ASSUME NEW g \in HostSet
        PROVE  HostInv(g, cfg, phase[g], sessions[g], topics[g], send[g], recv[g], servers[g], clients[g])'
    <3>0. HostInv(g, cfg, phase[g], sessions[g], topics[g], send[g], recv[g], servers[g], clients[g])
      BY DEF RoutingInv
    <3>1. CASE g = h
      <4>1. phase'[g] = "configured" /\ sessions'[g] = s /\ topics'[g] = Parsed(cfg)
        BY <2>0, <2>1, <3>1 DEF RoutingInv
      <4>2. send[g] = NoMap /\ recv[g] = NoMap /\ servers[g] = NoMap /\ clients[g] = NoMap
        BY <2>1, <3>0, <3>1 DEF HostInv, TopicsUp, ServicesUp
      <4>3. HostInv(g, cfg, "configured", s, Parsed(cfg), NoMap, NoMap, NoMap, NoMap)
        BY <1>2, <2>0, <3>1 DEF HostInv, Phases, TopicsUp, ServicesUp
      <4> QED
        BY <2>1, <4>1, <4>2, <4>3
    <3>2. CASE g # h
      <4>1. phase'[g] = phase[g] /\ sessions'[g] = sessions[g] /\ topics'[g] = topics[g]
        BY <2>0, <2>1, <3>2 DEF RoutingInv
      <4> QED
        BY <2>1, <3>0, <4>1
    <3> QED
      BY <3>1, <3>2
  <2> QED
    BY <2>0, <2>1, <2>2 DEF RoutingInv
<1> QED
  BY <1>1, <1>2

LEMMA TopicOperatorInitStep ==
  ASSUME RoutingInv, NEW h \in HostSet, TopicOperatorInit(h)
  PROVE  RoutingInv'
<1>1. CASE ~TopicsAccepted(cfg, h, topics[h])
  BY <1>1, FailStep DEF TopicOperatorInit
<1>2. CASE TopicsAccepted(cfg, h, topics[h])
  <2>1. /\ phase[h] = "configured" /\ phase' = [phase EXCEPT ![h] = "topics"]
        /\ send' = [send EXCEPT ![h] = Senders(cfg, h, topics[h])]
        /\ recv' = [recv EXCEPT ![h] = Receivers(cfg, h, topics[h])]
        /\ cfg' = cfg /\ sessions' = sessions /\ topics' = topics
        /\ servers' = servers /\ clients' = clients
    BY <1>2 DEF TopicOperatorInit
  <2>2. ASSUME NEW g \in HostSet
        PROVE  HostInv(g, cfg, phase[g], sessions[g], topics[g], send[g], recv[g], servers[g], clients[g])'
    <3>0. HostInv(g, cfg, phase[g], sessions[g], topics[g], send[g], recv[g], servers[g], clients[g])
      BY DEF RoutingInv
    <3>1. CASE g = h
      <4>1. /\ phase'[g] = "topics" /\ send'[g] = Senders(cfg, g, topics[g])
            /\ recv'[g] = Receivers(cfg, g, topics[g])
        BY <2>1, <3>1 DEF RoutingInv
      <4>2. HostInv(g, cfg, "topics", sessions[g], topics[g], Senders(cfg, g, topics[g]),
                    Receivers(cfg, g, topics[g]), servers[g], clients[g])
        BY <1>2, <2>1, <3>0, <3>1 DEF HostInv, Phases, TopicsUp, ServicesUp
      <4> QED
        BY <2>1, <4>1, <4>2
    <3>2. CASE g # h
      <4>1. phase'[g] = phase[g] /\ send'[g] = send[g] /\ recv'[g] = recv[g]
        BY <2>1, <3>2 DEF RoutingInv
      <4> QED
        BY <2>1, <3>0, <4>1
    <3> QED
      BY <3>1, <3>2
  <2> QED
    BY <2>1, <2>2 DEF RoutingInv
<1> QED
  BY <1>1, <1>2

LEMMA GetServiceConfigAndInitStep ==
  ASSUME RoutingInv, NEW h \in HostSet, GetServiceConfigAndInit(h)
  PROVE  RoutingInv'
<1>1. CASE ~ServicesAccepted(cfg, h)
  BY <1>1, FailStep DEF GetServiceConfigAndInit
<1>2. CASE ServicesAccepted(cfg, h)
  <2>1. /\ phase[h] = "topics" /\ phase' = [phase EXCEPT ![h] = "ready"]
        /\ servers' = [servers EXCEPT ![h] = Servers(cfg, h)]
        /\ clients' = [clients EXCEPT ![h] = Clients(cfg, h)]
        /\ cfg' = cfg /\ sessions' = sessions /\ topics' = topics /\ send' = send /\ recv' = recv
    BY <1>2 DEF GetServiceConfigAndInit
  <2>2. ASSUME NEW g \in HostSet
        PROVE  HostInv(g, cfg, phase[g], sessions[g], topics[g], send[g], recv[g], servers[g], clients[g])'
    <3>0. HostInv(g, cfg, phase[g], sessions[g], topics[g], send[g], recv[g], servers[g], clients[g])
      BY DEF RoutingInv
    <3>1. CASE g = h
      <4>1. phase'[g] = "ready" /\ servers'[g] = Servers(cfg, g) /\ clients'[g] = Clients(cfg, g)
        BY <2>1, <3>1 DEF RoutingInv
      <4>2. HostInv(g, cfg, "ready", sessions[g], topics[g], send[g], recv[g], Servers(cfg, g),
                    Clients(cfg, g))
        BY <1>2, <2>1, <3>0, <3>1 DEF HostInv, Phases, TopicsUp, ServicesUp
      <4> QED
        BY <2>1, <4>1, <4>2
    <3>2. CASE g # h
      <4>1. phase'[g] = phase[g] /\ servers'[g] = servers[g] /\ clients'[g] = clients[g]
        BY <2>1, <3>2 DEF RoutingInv
      <4> QED
        BY <2>1, <3>0, <4>1
    <3> QED
      BY <3>1, <3>2
  <2> QED
    BY <2>1, <2>2 DEF RoutingInv
<1> QED
  BY <1>1, <1>2

LEMMA StartBridgeStep ==
  ASSUME RoutingInv, NEW h \in HostSet, StartBridge(h)
  PROVE  RoutingInv'
<1>1. /\ phase[h] = "ready" /\ phase' = [phase EXCEPT ![h] = "running"]
      /\ cfg' = cfg /\ sessions' = sessions /\ topics' = topics /\ send' = send /\ recv' = recv
      /\ servers' = servers /\ clients' = clients
  BY DEF StartBridge, tables
<1>2. ASSUME NEW g \in HostSet
      PROVE  HostInv(g, cfg, phase[g], sessions[g], topics[g], send[g], recv[g], servers[g], clients[g])'
  <2>0. HostInv(g, cfg, phase[g], sessions[g], topics[g], send[g], recv[g], servers[g], clients[g])
    BY DEF RoutingInv
  <2>1. CASE g = h
    <3>1. phase'[g] = "running"
      BY <1>1, <2>1 DEF RoutingInv
    <3>2. HostInv(g, cfg, "running", sessions[g], topics[g], send[g], recv[g], servers[g], clients[g])
      BY <1>1, <2>0, <2>1 DEF HostInv, Phases, TopicsUp, ServicesUp
    <3> QED
      BY <1>1, <3>1, <3>2
  <2>2. CASE g # h
    <3>1. phase'[g] = phase[g]
      BY <1>1, <2>2 DEF RoutingInv
    <3> QED
      BY <1>1, <2>0, <3>1
  <2> QED
    BY <2>1, <2>2
<1> QED
  BY <1>1, <1>2 DEF RoutingInv

LEMMA StopBridgeStep ==
  ASSUME RoutingInv, NEW h \in HostSet, StopBridge(h)
  PROVE  RoutingInv'
<1>1. phase[h] = "running" /\ cfg' = cfg /\ topics' = topics
  BY DEF StopBridge
<1>2. ASSUME NEW g \in HostSet
      PROVE  HostInv(g, cfg, phase[g], sessions[g], topics[g], send[g], recv[g], servers[g], clients[g])'
  <2>0. HostInv(g, cfg, phase[g], sessions[g], topics[g], send[g], recv[g], servers[g], clients[g])
    BY DEF RoutingInv
  <2>1. CASE g = h
    <3>1. /\ phase'[g] = "stopped" /\ sessions'[g] = NoMap /\ send'[g] = NoMap
          /\ recv'[g] = NoMap /\ servers'[g] = NoMap /\ clients'[g] = NoMap
      BY <2>1 DEF StopBridge, RoutingInv
    <3>2. HostInv(g, cfg, "stopped", NoMap, topics[g], NoMap, NoMap, NoMap, NoMap)
      BY <1>1, <2>0, <2>1 DEF HostInv, Phases, TopicsUp, ServicesUp
    <3> QED
      BY <1>1, <3>1, <3>2
  <2>2. CASE g # h
    <3>1. /\ phase'[g] = phase[g] /\ sessions'[g] = sessions[g] /\ send'[g] = send[g]
          /\ recv'[g] = recv[g] /\ servers'[g] = servers[g] /\ clients'[g] = clients[g]
      BY <2>2 DEF StopBridge, RoutingInv
    <3> QED
      BY <1>1, <2>0, <3>1
  <2> QED
    BY <2>1, <2>2
<1> QED
  BY <1>1, <1>2 DEF RoutingInv, StopBridge

LEMMA RoutingNext == RoutingInv /\ [Next]_vars => RoutingInv'
<1> SUFFICES ASSUME RoutingInv, [Next]_vars PROVE RoutingInv'
  OBVIOUS
<1>1. CASE UNCHANGED vars
  BY <1>1 DEF RoutingInv, vars, tables
<1>2. CASE Next
  BY <1>2, ConfigureStep, TopicOperatorInitStep, GetServiceConfigAndInitStep, StartBridgeStep,
     StopBridgeStep DEF Next
<1> QED
  BY <1>1, <1>2

\* What a host holds is what the model's operators compute from the swarm's configuration:
\* no order of starting, failing and stopping the bridges leaves a table of another phase.
THEOREM TablesFromConfig == Spec => []RoutingInv
  BY RoutingInit, RoutingNext, PTL DEF Spec

-----------------------------------------------------------------------------
(***************************************************************************)
(* What the parsers make of a rule, and what the tables say about it.      *)
(***************************************************************************)

\* The parsed form of a rule.
LEMMA ParsedTopic ==
  ASSUME NEW c, NEW h, ConfigAccepted(c, h), NEW i \in DOMAIN c.topics,
         NEW x, x = c.topics[i], NEW t, t = Parsed(c)[i]
  PROVE  /\ t.name = x.topic_name /\ t.wire = x.topic_name /\ t.type = x.msg_type
         /\ t.src = Expand(x.srcIP, c.hosts) /\ t.dst = Expand(x.dstIP, c.hosts)
         /\ t.dynamic_dst = HasIds(x.msg_type)
         /\ t.qos = x.qos_class /\ t.max_freq = Rate(x)
         /\ t.prefix = Prefixed(x) /\ t.same_prefix = SamePrefixed(x)
         /\ x.msg_type = Image => t.image = ImageOptions(x)
         /\ x.msg_type # Image => t.image = DefaultImage
         /\ x.msg_type = Cloud => t.cloud = CloudOptions(x)
         /\ TopicValid(x, c.hosts)
<1>1. t = ReadTopic(x, c.hosts) /\ TopicValid(x, c.hosts)
  BY DEF Parsed, ConfigAccepted
<1> QED
  BY <1>1 DEF ReadTopic

-----------------------------------------------------------------------------
(***************************************************************************)
(* Keys.                                                                   *)
(***************************************************************************)

\* The parts of a text list put behind another.
LEMMA Behind ==
  ASSUME NEW a \in Seq(Text), NEW b \in Seq(Text)
  PROVE  /\ a \o b \in Seq(Text) /\ Len(a \o b) = Len(a) + Len(b)
         /\ \A i \in 1..Len(a) : (a \o b)[i] = a[i]
         /\ \A i \in 1..Len(b) : (a \o b)[Len(a) + i] = b[i]
<1>1. /\ a \o b \in Seq(Text) /\ Len(a \o b) = Len(a) + Len(b)
      /\ \A i \in 1..Len(a) + Len(b) : (a \o b)[i] = IF i <= Len(a) THEN a[i] ELSE b[i - Len(a)]
  BY ConcatProperties
<1>2. Len(a) \in Nat /\ Len(b) \in Nat
  OBVIOUS
<1>3. ASSUME NEW i \in 1..Len(a) PROVE (a \o b)[i] = a[i]
  <2>1. i \in 1..Len(a) + Len(b) /\ i <= Len(a)
    BY <1>2
  <2> QED
    BY <1>1, <2>1
<1>4. ASSUME NEW i \in 1..Len(b) PROVE (a \o b)[Len(a) + i] = b[i]
  <2>1. PICK j : j = Len(a) + i
    OBVIOUS
  <2>2. j \in 1..Len(a) + Len(b) /\ ~(j <= Len(a)) /\ j - Len(a) = i
    BY <1>2, <2>1
  <2>3. (a \o b)[j] = b[j - Len(a)]
    BY <1>1, <2>2
  <2> QED
    BY <2>1, <2>2, <2>3
<1> QED
  BY <1>1, <1>3, <1>4

\* What follows a list of texts is what was put behind it.
LEMMA Rest ==
  ASSUME NEW a \in Seq(Text), NEW b \in Seq(Text), NEW n, n = Len(a) + 1
  PROVE  SubSeq(a \o b, n, Len(a \o b)) = b
<1>1. /\ Len(a) \in Nat /\ Len(b) \in Nat /\ Len(a \o b) = Len(a) + Len(b) /\ a \o b \in Seq(Text)
      /\ \A i \in 1..Len(b) : (a \o b)[Len(a) + i] = b[i]
  BY Behind
<1>2. PICK w, z : w = a \o b /\ z = Len(w)
  OBVIOUS
<1>3. /\ w \in Seq(Text) /\ n \in Int /\ z \in Int /\ z = Len(a) + Len(b)
      /\ n >= 1 /\ z - n + 1 = Len(b)
  BY <1>1, <1>2
<1>4. ASSUME NEW i \in n..z PROVE w[i] \in Text
  <2>1. i \in 1..Len(w)
    BY <1>2, <1>3
  <2> QED
    BY <1>3, <2>1
<1>5. PICK c : c = SubSeq(w, n, z)
  OBVIOUS
<1>6. /\ c \in Seq(Text) /\ Len(c) = IF n <= z THEN z - n + 1 ELSE 0
      /\ \A i \in 1..z - n + 1 : c[i] = w[n + i - 1]
  BY <1>3, <1>4, <1>5, SubSeqProperties
<1>7. Len(c) = Len(b)
  BY <1>1, <1>3, <1>6
<1>8. ASSUME NEW i \in 1..Len(b) PROVE c[i] = b[i]
  <2>1. i \in 1..z - n + 1 /\ n + i - 1 = Len(a) + i
    BY <1>1, <1>3
  <2>2. c[i] = w[Len(a) + i]
    BY <1>6, <2>1
  <2> QED
    BY <1>1, <1>2, <2>2
<1>9. c = b
  BY <1>6, <1>7, <1>8, SeqEqual
<1> QED
  BY <1>2, <1>5, <1>9

\* Two lists that match part by part behind fixed texts: the fixed texts match, and what is
\* behind them is equal when the expression has no wildcard there.
LEMMA MatchBehind ==
  ASSUME NEW a \in Seq(Text), NEW b \in Seq(Text), Len(a) = Len(b),
         NEW m \in Seq(Text), NEW n \in Seq(Text), Matches(a \o m, b \o n)
  PROVE  /\ \A i \in 1..Len(a) : b[i] \in {"*", a[i]}
         /\ "*" \notin Range(n) => m = n
<1>1. /\ Len(a \o m) = Len(b \o n) /\ DOMAIN (a \o m) = 1..Len(a \o m)
      /\ \A i \in 1..Len(a \o m) : (b \o n)[i] \in {"*", (a \o m)[i]}
  <2>1. a \o m \in Seq(Text)
    BY Behind
  <2> QED
    BY <2>1 DEF Matches
<1>2. /\ Len(a) \in Nat /\ Len(m) \in Nat /\ Len(n) \in Nat
      /\ Len(a \o m) = Len(a) + Len(m) /\ Len(b \o n) = Len(b) + Len(n)
  <2>1. Len(a \o m) = Len(a) + Len(m)
    BY Behind
  <2>2. Len(b \o n) = Len(b) + Len(n)
    BY Behind
  <2> QED
    BY <2>1, <2>2
<1>3. Len(m) = Len(n)
  <2>1. Len(a \o m) = Len(b \o n)
    BY <1>1
  <2>2. Len(a) + Len(m) = Len(a) + Len(n)
    BY <1>2, <2>1
  <2> QED
    BY <1>2, <2>2
<1>4. ASSUME NEW i \in 1..Len(a) PROVE b[i] \in {"*", a[i]}
  <2>1. i \in 1..Len(a \o m) /\ i \in 1..Len(b)
    BY <1>2
  <2>2. (a \o m)[i] = a[i] /\ (b \o n)[i] = b[i]
    BY <2>1, Behind
  <2> QED
    BY <1>1, <2>1, <2>2
<1>5. ASSUME "*" \notin Range(n) PROVE m = n
  <2>1. ASSUME NEW i \in 1..Len(m) PROVE m[i] = n[i]
    <3>1. PICK j : j = Len(a) + i
      OBVIOUS
    <3>2. j \in 1..Len(a \o m)
      BY <1>2, <3>1
    <3>3. (a \o m)[j] = m[i]
      BY <3>1, Behind
    <3>4. (b \o n)[j] = n[i]
      BY <1>3, <3>1, Behind
    <3>5. n[i] # "*"
      BY <1>3, <1>5 DEF Range
    <3> QED
      BY <1>1, <3>2, <3>3, <3>4, <3>5
  <2> QED
    BY <1>3, <2>1, SeqEqual
<1> QED
  BY <1>4, <1>5

LEMMA WildcardText == "*" \in Text
  BY DEF Text

\* The fixed texts of a key.
LEMMA KeyTexts ==
  ASSUME NEW s \in Text, NEW d \in Text
  PROVE  /\ <<"topic", s, "fanout">> \in Seq(Text) /\ Len(<<"topic", s, "fanout">>) = 3
         /\ <<"topic", s, "dst", d>> \in Seq(Text) /\ Len(<<"topic", s, "dst", d>>) = 4
<1>1. "topic" \in Text /\ "fanout" \in Text /\ "dst" \in Text
  BY DEF Text
<1> QED
  BY <1>1

\* A key of a fixed route meets the expression of a fixed route only with the same source
\* and the same name.
LEMMA FanoutMatch ==
  ASSUME NEW s \in Text, NEW z \in Text, NEW a \in Seq(Text), NEW b \in Seq(Text),
         z # "*", "*" \notin Range(b), Matches(TopicFanoutKey(s, a), TopicFanoutKey(z, b))
  PROVE  s = z /\ NormalizeRosName(a) = NormalizeRosName(b)
<1> DEFINE p == <<"topic", s, "fanout">>
           q == <<"topic", z, "fanout">>
<1>1. p \in Seq(Text) /\ q \in Seq(Text) /\ Len(p) = 3 /\ Len(q) = 3
  BY KeyTexts
<1>2. NormalizeRosName(a) \in Seq(Text) /\ NormalizeRosName(b) \in Seq(Text)
  BY NormalizedTexts
<1>3. "*" \notin Range(NormalizeRosName(b))
  BY NormalizedTexts
<1>4. Matches(p \o NormalizeRosName(a), q \o NormalizeRosName(b))
  BY DEF TopicFanoutKey
<1>5. /\ \A i \in 1..Len(p) : q[i] \in {"*", p[i]}
      /\ NormalizeRosName(a) = NormalizeRosName(b)
  <2> HIDE DEF p, q
  <2> QED
    BY <1>1, <1>2, <1>3, <1>4, MatchBehind
<1>6. q[2] \in {"*", p[2]}
  <2>1. 2 \in 1..Len(p)
    BY <1>1
  <2> QED
    BY <1>5, <2>1
<1> QED
  BY <1>5, <1>6

\* A directed key meets a directed expression only at its destination, with the same name.
LEMMA DirectedMatch ==
  ASSUME NEW s \in Text, NEW d \in Text, NEW r \in Text, r # "*",
         NEW a \in Seq(Text), NEW b \in Seq(Text), "*" \notin Range(b),
         Matches(TopicDirectedKey(s, d, a), TopicDirectedKey("*", r, b))
  PROVE  d = r /\ NormalizeRosName(a) = NormalizeRosName(b)
<1> DEFINE p == <<"topic", s, "dst", d>>
           q == <<"topic", "*", "dst", r>>
<1>1. p \in Seq(Text) /\ q \in Seq(Text) /\ Len(p) = 4 /\ Len(q) = 4
  BY KeyTexts, WildcardText
<1>2. NormalizeRosName(a) \in Seq(Text) /\ NormalizeRosName(b) \in Seq(Text)
  BY NormalizedTexts
<1>3. "*" \notin Range(NormalizeRosName(b))
  BY NormalizedTexts
<1>4. Matches(p \o NormalizeRosName(a), q \o NormalizeRosName(b))
  BY DEF TopicDirectedKey
<1>5. /\ \A i \in 1..Len(p) : q[i] \in {"*", p[i]}
      /\ NormalizeRosName(a) = NormalizeRosName(b)
  <2> HIDE DEF p, q
  <2> QED
    BY <1>1, <1>2, <1>3, <1>4, MatchBehind
<1>6. q[4] \in {"*", p[4]}
  <2>1. 4 \in 1..Len(p)
    BY <1>1
  <2> QED
    BY <1>5, <2>1
<1> QED
  BY <1>5, <1>6

\* What a key says from its n-th part on.
PartsFrom(k, n) == SubSeq(k, n, Len(k))

\* The third part of a key tells the two kinds of routes apart; what follows is the name.
LEMMA FanoutParts ==
  ASSUME NEW s \in Text, NEW a \in Seq(Text), NEW k, k = TopicFanoutKey(s, a)
  PROVE  k \in Seq(Text) /\ Len(k) >= 3 /\ k[3] = "fanout" /\ PartsFrom(k, 4) = NormalizeRosName(a)
<1> DEFINE p == <<"topic", s, "fanout">>
           n == NormalizeRosName(a)
<1>1. p \in Seq(Text) /\ Len(p) = 3 /\ p[3] = "fanout"
  BY KeyTexts
<1>2. n \in Seq(Text) /\ Len(n) \in Nat
  BY NormalizedTexts
<1>3. k = p \o n
  BY DEF TopicFanoutKey
<1> HIDE DEF p, n
<1>4. /\ p \o n \in Seq(Text) /\ Len(p \o n) = Len(p) + Len(n)
      /\ \A i \in 1..Len(p) : (p \o n)[i] = p[i]
  BY <1>1, <1>2, Behind
<1>5. 3 \in 1..Len(p) /\ 4 = Len(p) + 1
  BY <1>1
<1>6. PartsFrom(k, 4) = n
  BY <1>1, <1>2, <1>3, <1>5, Rest DEF PartsFrom
<1> QED
  BY <1>1, <1>2, <1>3, <1>4, <1>5, <1>6 DEF n

LEMMA DirectedParts ==
  ASSUME NEW s \in Text, NEW d \in Text, NEW a \in Seq(Text), NEW k, k = TopicDirectedKey(s, d, a)
  PROVE  k \in Seq(Text) /\ Len(k) >= 3 /\ k[3] = "dst" /\ PartsFrom(k, 5) = NormalizeRosName(a)
<1> DEFINE p == <<"topic", s, "dst", d>>
           n == NormalizeRosName(a)
<1>1. p \in Seq(Text) /\ Len(p) = 4 /\ p[3] = "dst"
  BY KeyTexts
<1>2. n \in Seq(Text) /\ Len(n) \in Nat
  BY NormalizedTexts
<1>3. k = p \o n
  BY DEF TopicDirectedKey
<1> HIDE DEF p, n
<1>4. /\ p \o n \in Seq(Text) /\ Len(p \o n) = Len(p) + Len(n)
      /\ \A i \in 1..Len(p) : (p \o n)[i] = p[i]
  BY <1>1, <1>2, Behind
<1>5. 3 \in 1..Len(p) /\ 5 = Len(p) + 1
  BY <1>1
<1>6. PartsFrom(k, 5) = n
  BY <1>1, <1>2, <1>3, <1>5, Rest DEF PartsFrom
<1> QED
  BY <1>1, <1>2, <1>3, <1>4, <1>5, <1>6 DEF n

\* The two kinds of routes never meet.
LEMMA KindsApart ==
  ASSUME NEW s \in Text, NEW d \in Text, NEW z \in Text,
         NEW a \in Seq(Text), NEW b \in Seq(Text)
  PROVE  /\ ~Matches(TopicFanoutKey(s, a), TopicDirectedKey(z, d, b))
         /\ ~Matches(TopicDirectedKey(s, d, a), TopicFanoutKey(z, b))
<1>1. ASSUME NEW k \in Seq(Text), NEW e \in Seq(Text), Len(k) >= 3, e[3] # "*", k[3] # e[3]
      PROVE  ~Matches(k, e)
  <2>1. 3 \in DOMAIN k
    BY <1>1
  <2> QED
    BY <1>1, <2>1 DEF Matches
<1>2. PICK f, g, e, m : /\ f = TopicFanoutKey(s, a) /\ g = TopicDirectedKey(s, d, a)
                        /\ e = TopicFanoutKey(z, b) /\ m = TopicDirectedKey(z, d, b)
  OBVIOUS
<1>3. /\ f \in Seq(Text) /\ Len(f) >= 3 /\ f[3] = "fanout"
      /\ g \in Seq(Text) /\ Len(g) >= 3 /\ g[3] = "dst"
  BY <1>2, FanoutParts, DirectedParts
<1>4. e \in Seq(Text) /\ e[3] = "fanout" /\ m \in Seq(Text) /\ m[3] = "dst"
  BY <1>2, FanoutParts, DirectedParts
<1> QED
  BY <1>1, <1>2, <1>3, <1>4

\* A key meets the expression made for its route.
LEMMA OwnMatch ==
  ASSUME NEW s \in Text, NEW r \in Text, NEW a \in Seq(Text)
  PROVE  /\ Matches(TopicFanoutKey(s, a), TopicFanoutKey(s, a))
         /\ Matches(TopicDirectedKey(s, r, a), TopicDirectedKey("*", r, a))
<1> DEFINE p == <<"topic", s, "dst", r>>
           q == <<"topic", "*", "dst", r>>
           n == NormalizeRosName(a)
<1>1. Matches(TopicFanoutKey(s, a), TopicFanoutKey(s, a))
  BY DEF Matches
<1>2. /\ p \in Seq(Text) /\ q \in Seq(Text) /\ Len(p) = 4 /\ Len(q) = 4
      /\ \A i \in 1..4 : q[i] \in {"*", p[i]}
  <2>1. /\ q[1] = "topic" /\ q[2] = "*" /\ q[3] = "dst" /\ q[4] = r
        /\ p[1] = "topic" /\ p[3] = "dst" /\ p[4] = r
    OBVIOUS
  <2>2. \A i \in 1..4 : i = 1 \/ i = 2 \/ i = 3 \/ i = 4
    OBVIOUS
  <2>3. p \in Seq(Text) /\ q \in Seq(Text) /\ Len(p) = 4 /\ Len(q) = 4
    BY KeyTexts, WildcardText
  <2> HIDE DEF p, q
  <2> QED
    BY <2>1, <2>2, <2>3
<1>3. n \in Seq(Text) /\ Len(n) \in Nat
  BY NormalizedTexts
<1>4. TopicDirectedKey(s, r, a) = p \o n /\ TopicDirectedKey("*", r, a) = q \o n
  BY DEF TopicDirectedKey
<1> HIDE DEF p, q, n
<1>5. ASSUME NEW x \in Seq(Text), Len(x) = 4
      PROVE  /\ x \o n \in Seq(Text) /\ Len(x \o n) = 4 + Len(n)
             /\ \A i \in 1..4 : (x \o n)[i] = x[i]
             /\ \A i \in 1..Len(n) : (x \o n)[4 + i] = n[i]
  <2>1. /\ x \o n \in Seq(Text) /\ Len(x \o n) = Len(x) + Len(n)
        /\ \A i \in 1..Len(x) : (x \o n)[i] = x[i]
        /\ \A i \in 1..Len(n) : (x \o n)[Len(x) + i] = n[i]
    BY <1>3, Behind
  <2> QED
    BY <1>5, <2>1
<1>6. /\ p \o n \in Seq(Text) /\ Len(p \o n) = 4 + Len(n)
      /\ \A i \in 1..4 : (p \o n)[i] = p[i]
      /\ \A i \in 1..Len(n) : (p \o n)[4 + i] = n[i]
  BY <1>2, <1>5
<1>9. /\ q \o n \in Seq(Text) /\ Len(q \o n) = 4 + Len(n)
      /\ \A i \in 1..4 : (q \o n)[i] = q[i]
      /\ \A i \in 1..Len(n) : (q \o n)[4 + i] = n[i]
  BY <1>2, <1>5
<1>7. ASSUME NEW i \in DOMAIN (p \o n) PROVE (q \o n)[i] \in {"*", (p \o n)[i]}
  <2>1. i \in 1..(4 + Len(n))
    BY <1>6
  <2>2. CASE i <= 4
    <3>1. i \in 1..4
      BY <2>1, <2>2
    <3> QED
      BY <1>2, <1>6, <1>9, <3>1
  <2>3. CASE ~(i <= 4)
    <3>1. PICK j \in 1..Len(n) : i = 4 + j
      <4>1. i - 4 \in 1..Len(n) /\ i = 4 + (i - 4)
        BY <1>3, <2>1, <2>3
      <4> QED
        BY <4>1
    <3>2. (q \o n)[i] = n[j] /\ (p \o n)[i] = n[j]
      BY <1>6, <1>9, <3>1
    <3> QED
      BY <3>2
  <2> QED
    BY <2>2, <2>3
<1>8. Matches(p \o n, q \o n)
  BY <1>6, <1>7, <1>9 DEF Matches
<1> QED
  BY <1>1, <1>4, <1>8

-----------------------------------------------------------------------------
(***************************************************************************)
(* Senders and receivers.                                                  *)
(***************************************************************************)

LEMMA NoMapEmpty == DOMAIN NoMap = {}
  BY DEF NoMap

LEMMA HostTexts ==
  ASSUME NEW h \in HostSet
  PROVE  h \in Text /\ h # "*" /\ h # "all" /\ h # "all_drone"
<1>1. PICK i \in DOMAIN Hosts : h = Hosts[i]
  BY DEF HostSet, Range
<1>2. h \in STRING
  BY <1>1, HostsAssumption
<1>3. h \notin {"all", "all_drone", "*"}
  BY HostNamesAssumption DEF HostSet
<1> QED
  BY <1>2, <1>3 DEF Text

LEMMA WiderSequence ==
  ASSUME NEW S, NEW T, S \subseteq T, NEW q \in Seq(S)
  PROVE  q \in Seq(T)
  OBVIOUS

\* The shape of the lists of a configuration.
LEMMA ConfigShape ==
  ASSUME NEW c \in Configs
  PROVE  /\ c.hosts \subseteq HostSet
         /\ Len(c.topics) \in Nat /\ DOMAIN c.topics = 1..Len(c.topics)
         /\ Len(c.services) \in Nat /\ DOMAIN c.services = 1..Len(c.services)
         /\ \A i \in DOMAIN c.topics : c.topics[i] \in Range(c.topics)
         /\ \A i \in DOMAIN c.services : c.services[i] \in Range(c.services)
         /\ \A i \in DOMAIN c.topics : c.topics[i].topic_name \in Seq(Text)
<1>1. /\ c.hosts \subseteq Range(Hosts)
      /\ c.topics \in Seq(Range(c.topics)) /\ c.services \in Seq(Range(c.services))
      /\ \A x \in Range(c.topics) : x.topic_name \in Seq(STRING)
  BY ConfigsAssumption
<1>2. \A i \in DOMAIN c.topics : c.topics[i] \in Range(c.topics)
  BY DEF Range
<1>3. \A i \in DOMAIN c.services : c.services[i] \in Range(c.services)
  BY DEF Range
<1>4. Len(c.topics) \in Nat /\ DOMAIN c.topics = 1..Len(c.topics)
  BY <1>1
<1>5. Len(c.services) \in Nat /\ DOMAIN c.services = 1..Len(c.services)
  BY <1>1
<1>6. ASSUME NEW i \in DOMAIN c.topics PROVE c.topics[i].topic_name \in Seq(Text)
  <2>1. c.topics[i].topic_name \in Seq(STRING)
    BY <1>1, <1>2
  <2>2. STRING \subseteq Text
    BY DEF Text
  <2> QED
    BY <2>1, <2>2, WiderSequence, Zenon
<1> QED
  BY <1>1, <1>2, <1>3, <1>4, <1>5, <1>6 DEF HostSet

LEMMA ExpandHosts ==
  ASSUME NEW x, NEW hosts
  PROVE  Expand(x, hosts) \subseteq hosts
  BY DEF Expand

\* An entry of the sending table is that of a rule whose source the host is.
LEMMA SenderOf ==
  ASSUME NEW c \in Configs, NEW h, NEW ts, ts = Parsed(c), NEW n \in DOMAIN Senders(c, h, ts)
  PROVE  \E i \in DOMAIN c.topics :
           /\ h \in ts[i].src /\ SendName(h, ts[i].name) = n
           /\ Senders(c, h, ts)[n] = Sender(c, h, ts[i])
<1>1. DOMAIN ts = DOMAIN c.topics
  BY DEF Parsed
<1>2. Len(c.topics) \in Nat /\ DOMAIN ts = 1..Len(c.topics)
  BY <1>1, ConfigShape
<1>3. PICK i \in DOMAIN ts : h \in ts[i].src /\ n = SendName(h, ts[i].name)
  BY DEF Senders
<1>4. SentAs(h, ts, n) # {} /\ SentAs(h, ts, n) \in SUBSET (1..Len(c.topics))
  BY <1>2, <1>3 DEF SentAs
<1>5. Max(SentAs(h, ts, n)) \in SentAs(h, ts, n)
  BY <1>2, <1>4, MaxIsLast
<1>6. PICK m : m = Max(SentAs(h, ts, n))
  OBVIOUS
<1>7. m \in DOMAIN ts /\ h \in ts[m].src /\ SendName(h, ts[m].name) = n
  BY <1>5, <1>6 DEF SentAs
<1>8. Senders(c, h, ts)[n] = Sender(c, h, ts[m])
  BY <1>6 DEF Senders
<1> QED
  BY <1>1, <1>7, <1>8

\* A rule whose sender's name no other rule of the host has is the entry of that name.
LEMMA SenderIs ==
  ASSUME NEW c \in Configs, NEW h, NEW ts, ts = Parsed(c), NEW i \in DOMAIN c.topics,
         h \in ts[i].src,
         \A j \in DOMAIN c.topics \ {i} :
           h \in ts[j].src => SendName(h, ts[j].name) # SendName(h, ts[i].name)
  PROVE  \E n \in DOMAIN Senders(c, h, ts) : Senders(c, h, ts)[n] = Sender(c, h, ts[i])
<1>1. DOMAIN ts = DOMAIN c.topics
  BY DEF Parsed
<1>2. PICK n : n = SendName(h, ts[i].name)
  OBVIOUS
<1>3. n \in DOMAIN Senders(c, h, ts)
  BY <1>1, <1>2 DEF Senders
<1>4. PICK j \in DOMAIN c.topics : /\ h \in ts[j].src /\ SendName(h, ts[j].name) = n
                                   /\ Senders(c, h, ts)[n] = Sender(c, h, ts[j])
  BY <1>3, SenderOf
<1>5. j = i
  BY <1>2, <1>4
<1> QED
  BY <1>3, <1>4, <1>5

\* An entry of the receiving table is that of one of the host's routes.
LEMMA ReceiverOf ==
  ASSUME NEW c, NEW h, NEW ts, NEW n \in DOMAIN Receivers(c, h, ts)
  PROVE  \E p \in Routes(c, h, ts) : /\ RouteName(h, ts, p) = n
                                     /\ Receivers(c, h, ts)[n] = Receiver(c, h, ts[p[1]], p[2])
<1>1. \E q \in Routes(c, h, ts) : RouteName(h, ts, q) = n
  BY DEF Receivers
<1>2. PICK p : p = CHOOSE q \in Routes(c, h, ts) : RouteName(h, ts, q) = n
  OBVIOUS
<1>3. p \in Routes(c, h, ts) /\ RouteName(h, ts, p) = n
  BY <1>1, <1>2
<1>4. Receivers(c, h, ts)[n] = Receiver(c, h, ts[p[1]], p[2])
  BY <1>2 DEF Receivers
<1> QED
  BY <1>3, <1>4

\* Every route of the host is an entry, as no two have one name.
LEMMA ReceiverIs ==
  ASSUME NEW c, NEW h, NEW ts, TopicsAccepted(c, h, ts), NEW p \in Routes(c, h, ts)
  PROVE  /\ RouteName(h, ts, p) \in DOMAIN Receivers(c, h, ts)
         /\ Receivers(c, h, ts)[RouteName(h, ts, p)] = Receiver(c, h, ts[p[1]], p[2])
<1>1. RouteName(h, ts, p) \in DOMAIN Receivers(c, h, ts)
  BY DEF Receivers
<1>2. PICK q \in Routes(c, h, ts) :
        /\ RouteName(h, ts, q) = RouteName(h, ts, p)
        /\ Receivers(c, h, ts)[RouteName(h, ts, p)] = Receiver(c, h, ts[q[1]], q[2])
  BY <1>1, ReceiverOf
<1>3. q = p
  BY <1>2 DEF TopicsAccepted
<1> QED
  BY <1>1, <1>2, <1>3

\* The first host of a set is in it.
LEMMA FirstIn ==
  ASSUME NEW S \in SUBSET HostSet, S # {}
  PROVE  First(S) \in S
<1> DEFINE P == {i \in DOMAIN Hosts : Hosts[i] \in S}
<1>1. P \in SUBSET Nat
  BY HostsAssumption
<1>2. P # {}
  BY DEF HostSet, Range
<1>3. Min(P) \in P
  BY <1>1, <1>2, MinIsLeast
<1>4. First(S) = Hosts[Min(P)]
  BY DEF First
<1> QED
  BY <1>3, <1>4

\* The sources of a receiver.
LEMMA SourcesOf ==
  ASSUME NEW c, NEW h, NEW t, t.src \subseteq HostSet
  PROVE  /\ \A s \in Sources(c, h, t) : h \in t.dst /\ s \in t.src /\ (s # h \/ c.debug)
         /\ ~t.dynamic_dst => \A s \in t.src : h \in t.dst /\ s # h => s \in Sources(c, h, t)
         /\ t.dynamic_dst => /\ \A s, z \in Sources(c, h, t) : s = z
                             /\ \A s \in t.src : h \in t.dst /\ s # h => Sources(c, h, t) # {}
<1> DEFINE all == IF h \in t.dst THEN {s \in t.src : s # h \/ c.debug} ELSE {}
<1>1. all \in SUBSET HostSet
  OBVIOUS
<1>2. all # {} => First(all) \in all
  BY <1>1, FirstIn
<1>3. Sources(c, h, t) = IF t.dynamic_dst /\ all # {} THEN {First(all)} ELSE all
  BY DEF Sources
<1>4. \A s \in Sources(c, h, t) : s \in all
  BY <1>2, <1>3
<1>5. \A s \in all : h \in t.dst /\ s \in t.src /\ (s # h \/ c.debug)
  OBVIOUS
<1>6. \A s \in t.src : h \in t.dst /\ s # h => s \in all
  OBVIOUS
<1> HIDE DEF all
<1>7. ~t.dynamic_dst => Sources(c, h, t) = all
  BY <1>3
<1>8. t.dynamic_dst /\ all # {} => Sources(c, h, t) = {First(all)}
  BY <1>3
<1>9. all = {} => Sources(c, h, t) = {}
  BY <1>3
<1> QED
  BY <1>4, <1>5, <1>6, <1>7, <1>8, <1>9

\* The wire name of a topic whose receiver was accepted has no wildcard.
LEMMA NoWildcard ==
  ASSUME NEW h, NEW t, NEW s, t.name \in Seq(Text), ValidRosName(RawName(h, t, s))
  PROVE  "*" \notin Range(t.name)
<1>1. SUFFICES ASSUME NEW i \in DOMAIN t.name, t.name[i] = "*" PROVE FALSE
  BY DEF Range
<1>2. PICK text : RawName(h, t, s) = WithId(t.name, text)
  BY DEF RawName
<1>3. i \in DOMAIN RawName(h, t, s) /\ RawName(h, t, s)[i] = "*"
  BY <1>1, <1>2 DEF WithId, HasIdPrefix
<1>4. "*" \in Range(RawName(h, t, s))
  BY <1>3 DEF Range
<1> QED
  BY <1>4 DEF ValidRosName

-----------------------------------------------------------------------------
(***************************************************************************)
(* Which senders and receivers meet.                                       *)
(***************************************************************************)

\* What a parsed rule says, with the types of its parts.
LEMMA RuleFacts ==
  ASSUME NEW c \in Configs, NEW h, ConfigAccepted(c, h), NEW i \in DOMAIN c.topics,
         NEW t, t = Parsed(c)[i]
  PROVE  /\ t.name = c.topics[i].topic_name /\ t.wire = t.name /\ t.name \in Seq(Text)
         /\ t.src = Expand(c.topics[i].srcIP, c.hosts) /\ t.dst = Expand(c.topics[i].dstIP, c.hosts)
         /\ t.src \subseteq HostSet /\ t.dst \subseteq HostSet
         /\ t.type = c.topics[i].msg_type /\ t.dynamic_dst = HasIds(c.topics[i].msg_type)
<1>1. PICK x : x = c.topics[i]
  OBVIOUS
<1>2. /\ t.name = x.topic_name /\ t.wire = x.topic_name /\ t.type = x.msg_type
      /\ t.src = Expand(x.srcIP, c.hosts) /\ t.dst = Expand(x.dstIP, c.hosts)
      /\ t.dynamic_dst = HasIds(x.msg_type)
  BY <1>1, ParsedTopic
<1>3. x.topic_name \in Seq(Text) /\ c.hosts \subseteq HostSet
  BY <1>1, ConfigShape
<1>4. t.src \subseteq c.hosts /\ t.dst \subseteq c.hosts
  BY <1>2, ExpandHosts
<1>5. t.src \subseteq HostSet /\ t.dst \subseteq HostSet
  BY <1>3, <1>4
<1> QED
  BY <1>1, <1>2, <1>3, <1>5

\* A route of a host, with its rule.
LEMMA RouteFacts ==
  ASSUME NEW c \in Configs, NEW r, ConfigAccepted(c, r), NEW ts, ts = Parsed(c),
         TopicsAccepted(c, r, ts), NEW p \in Routes(c, r, ts)
  PROVE  /\ p[1] \in DOMAIN c.topics /\ p[2] \in HostSet /\ p = <<p[1], p[2]>>
         /\ p[2] \in ts[p[1]].src /\ r \in ts[p[1]].dst /\ (p[2] # r \/ c.debug)
         /\ "*" \notin Range(ts[p[1]].name)
         /\ p[2] \in Sources(c, r, ts[p[1]])
<1>1. p \in (DOMAIN ts) \X HostSet /\ p[2] \in Sources(c, r, ts[p[1]])
  BY DEF Routes
<1>2. p[1] \in DOMAIN c.topics /\ p[2] \in HostSet /\ p = <<p[1], p[2]>>
  BY <1>1 DEF Parsed
<1>3. PICK t : t = ts[p[1]]
  OBVIOUS
<1>4. t.src \subseteq HostSet /\ t.name \in Seq(Text)
  BY <1>2, <1>3, RuleFacts
<1>5. p[2] \in t.src /\ r \in t.dst /\ (p[2] # r \/ c.debug)
  BY <1>1, <1>3, <1>4, SourcesOf
<1>6. ValidRosName(RawName(r, t, p[2]))
  BY <1>3 DEF TopicsAccepted
<1>7. "*" \notin Range(t.name)
  BY <1>4, <1>6, NoWildcard
<1> QED
  BY <1>1, <1>2, <1>3, <1>5, <1>7

\* A sender's key reaches a receiver only on the receiver's own route: of its source, or,
\* for a directed topic, to its host; and always under the receiver's wire name.
LEMMA Meeting ==
  ASSUME NEW c \in Configs, NEW s \in HostSet, NEW r \in HostSet, ConfigAccepted(c, r),
         NEW ts, ts = Parsed(c), TopicsAccepted(c, r, ts), NEW p \in Routes(c, r, ts),
         NEW j \in DOMAIN c.topics, NEW k \in SendKeys(s, ts[j]),
         Matches(k, Receiver(c, r, ts[p[1]], p[2]).key)
  PROVE  /\ NormalizeRosName(ts[j].name) = NormalizeRosName(ts[p[1]].name)
         /\ ~ts[p[1]].dynamic_dst => s = p[2] /\ k = TopicFanoutKey(s, ts[j].name)
         /\ ts[p[1]].dynamic_dst => /\ r \in ts[j].dst /\ s # r
                                    /\ k = TopicDirectedKey(s, r, ts[j].name)
<1>1. PICK t : t = ts[p[1]]
  OBVIOUS
<1>2. PICK u : u = ts[j]
  OBVIOUS
<1>3. PICK z : z = p[2]
  OBVIOUS
<1>4. /\ z \in HostSet /\ p[1] \in DOMAIN c.topics /\ "*" \notin Range(t.name)
  BY <1>1, <1>3, RouteFacts
<1>5. t.name \in Seq(Text) /\ t.wire = t.name
  BY <1>1, <1>4, RuleFacts
<1>6. u.name \in Seq(Text) /\ u.wire = u.name /\ u.dst \subseteq HostSet
  BY <1>2, RuleFacts
<1>7. Matches(k, ReceiveKey(r, t, z))
  BY <1>1, <1>3 DEF Receiver
<1>8. s \in Text /\ r \in Text /\ r # "*" /\ z \in Text /\ z # "*" /\ "*" \in Text
  BY <1>4, HostTexts, WildcardText
<1>9. k \in SendKeys(s, u)
  BY <1>2
<1>10. CASE u.dynamic_dst
  <2>1. PICK d \in u.dst \ {s} : k = TopicDirectedKey(s, d, u.name)
    BY <1>6, <1>9, <1>10 DEF SendKeys
  <2>2. d \in Text
    BY <1>6, <2>1, HostTexts
  <2>3. t.dynamic_dst
    <3>1. SUFFICES ASSUME ~t.dynamic_dst PROVE FALSE
      OBVIOUS
    <3>2. ReceiveKey(r, t, z) = TopicFanoutKey(z, t.name)
      BY <1>5, <3>1 DEF ReceiveKey
    <3>3. Matches(TopicDirectedKey(s, d, u.name), TopicFanoutKey(z, t.name))
      BY <1>7, <2>1, <3>2
    <3> QED
      BY <1>5, <1>6, <1>8, <2>2, <3>3, KindsApart
  <2>4. ReceiveKey(r, t, z) = TopicDirectedKey("*", r, t.name)
    BY <1>5, <2>3 DEF ReceiveKey
  <2>5. Matches(TopicDirectedKey(s, d, u.name), TopicDirectedKey("*", r, t.name))
    BY <1>7, <2>1, <2>4
  <2>6. d = r /\ NormalizeRosName(u.name) = NormalizeRosName(t.name)
    BY <1>4, <1>5, <1>6, <1>8, <2>2, <2>5, DirectedMatch
  <2> QED
    BY <1>1, <1>2, <2>1, <2>3, <2>6
<1>11. CASE ~u.dynamic_dst
  <2>1. k = TopicFanoutKey(s, u.name)
    BY <1>6, <1>9, <1>11 DEF SendKeys
  <2>2. ~t.dynamic_dst
    <3>1. SUFFICES ASSUME t.dynamic_dst PROVE FALSE
      OBVIOUS
    <3>2. ReceiveKey(r, t, z) = TopicDirectedKey("*", r, t.name)
      BY <1>5, <3>1 DEF ReceiveKey
    <3>3. Matches(TopicFanoutKey(s, u.name), TopicDirectedKey("*", r, t.name))
      BY <1>7, <2>1, <3>2
    <3> QED
      BY <1>5, <1>6, <1>8, <3>3, KindsApart
  <2>3. ReceiveKey(r, t, z) = TopicFanoutKey(z, t.name)
    BY <1>5, <2>2 DEF ReceiveKey
  <2>4. Matches(TopicFanoutKey(s, u.name), TopicFanoutKey(z, t.name))
    BY <1>7, <2>1, <2>3
  <2>5. s = z /\ NormalizeRosName(u.name) = NormalizeRosName(t.name)
    BY <1>4, <1>5, <1>6, <1>8, <2>4, FanoutMatch
  <2> QED
    BY <1>1, <1>2, <1>3, <2>1, <2>2, <2>5
<1> QED
  BY <1>10, <1>11

\* A host that has receivers is past topicOperatorInit, and so is one that has senders.
LEMMA TopicHosts ==
  ASSUME RoutingInv, NEW h \in HostSet
  PROVE  /\ phase[h] \in TopicsUp => /\ ConfigAccepted(cfg, h) /\ topics[h] = Parsed(cfg)
                                     /\ TopicsAccepted(cfg, h, Parsed(cfg))
                                     /\ send[h] = Senders(cfg, h, Parsed(cfg))
                                     /\ recv[h] = Receivers(cfg, h, Parsed(cfg))
         /\ DOMAIN send[h] # {} => phase[h] \in TopicsUp
         /\ DOMAIN recv[h] # {} => phase[h] \in TopicsUp
<1>1. HostInv(h, cfg, phase[h], sessions[h], topics[h], send[h], recv[h], servers[h], clients[h])
  BY DEF RoutingInv
<1> QED
  BY <1>1, NoMapEmpty DEF HostInv

\* A key that a sender of s publishes and a receiver of r takes, with the two rules.
LEMMA CarriedFacts ==
  ASSUME RoutingInv, NEW s \in HostSet, NEW r \in HostSet, NEW n \in DOMAIN send[s],
         NEW y \in DOMAIN recv[r], NEW k \in send[s][n].keys, Carried(s, n, k, r, y)
  PROVE  \E j \in DOMAIN cfg.topics, p \in Routes(cfg, r, Parsed(cfg)) :
           /\ s \in Parsed(cfg)[j].src /\ k \in SendKeys(s, Parsed(cfg)[j])
           /\ RouteName(r, Parsed(cfg), p) = y
           /\ recv[r][y] = Receiver(cfg, r, Parsed(cfg)[p[1]], p[2])
           /\ Matches(k, Receiver(cfg, r, Parsed(cfg)[p[1]], p[2]).key)
<1>1. cfg \in Configs
  BY DEF RoutingInv
<1>2. PICK ts : ts = Parsed(cfg)
  OBVIOUS
<1>3. send[s] = Senders(cfg, s, ts) /\ recv[r] = Receivers(cfg, r, ts)
  BY <1>2, TopicHosts
<1>4. PICK j \in DOMAIN cfg.topics : s \in ts[j].src /\ send[s][n] = Sender(cfg, s, ts[j])
  BY <1>1, <1>2, <1>3, SenderOf
<1>5. PICK p \in Routes(cfg, r, ts) : /\ RouteName(r, ts, p) = y
                                      /\ recv[r][y] = Receiver(cfg, r, ts[p[1]], p[2])
  BY <1>3, ReceiverOf
<1>6. k \in SendKeys(s, ts[j])
  BY <1>4 DEF Sender
<1>7. Matches(k, recv[r][y].key)
  BY DEF Carried
<1> QED
  BY <1>2, <1>4, <1>5, <1>6, <1>7

-----------------------------------------------------------------------------
(***************************************************************************)
(* OneSource and NothingUnrouted.                                          *)
(***************************************************************************)

LEMMA OneSourceHolds == RoutingInv => OneSource
<1> SUFFICES ASSUME RoutingInv, NEW s \in HostSet, NEW r \in HostSet, NEW n \in DOMAIN send[s],
                    NEW y \in DOMAIN recv[r], NEW k \in send[s][n].keys, Carried(s, n, k, r, y),
                    ~recv[r][y].dynamic
             PROVE  recv[r][y].src = s
  BY DEF OneSource
<1>1. cfg \in Configs /\ ConfigAccepted(cfg, r) /\ TopicsAccepted(cfg, r, Parsed(cfg))
  BY TopicHosts DEF RoutingInv
<1>2. PICK ts : ts = Parsed(cfg)
  OBVIOUS
<1>3. PICK j \in DOMAIN cfg.topics, p \in Routes(cfg, r, ts) :
        /\ k \in SendKeys(s, ts[j]) /\ recv[r][y] = Receiver(cfg, r, ts[p[1]], p[2])
        /\ Matches(k, Receiver(cfg, r, ts[p[1]], p[2]).key)
  BY <1>2, CarriedFacts
<1>4. recv[r][y].src = p[2] /\ recv[r][y].dynamic = ts[p[1]].dynamic_dst
  BY <1>3 DEF Receiver
<1>5. ~ts[p[1]].dynamic_dst => s = p[2]
  BY <1>1, <1>2, <1>3, Meeting
<1> QED
  BY <1>4, <1>5

LEMMA NothingUnroutedHolds == RoutingInv => NothingUnrouted
<1> SUFFICES ASSUME RoutingInv, NEW s \in HostSet, NEW r \in HostSet, NEW n \in DOMAIN send[s],
                    NEW y \in DOMAIN recv[r], NEW k \in send[s][n].keys, Carried(s, n, k, r, y)
             PROVE  \E x \in Range(cfg.topics) :
                      /\ Routed(x, s, r) \/ (From(x, s) /\ To(x, r) /\ s = r /\ cfg.debug)
                      /\ NormalizeRosName(x.topic_name) = SubSeq(k, IF k[3] = "dst" THEN 5 ELSE 4, Len(k))
  BY DEF NothingUnrouted
<1>1. cfg \in Configs /\ ConfigAccepted(cfg, r) /\ TopicsAccepted(cfg, r, Parsed(cfg))
  BY TopicHosts DEF RoutingInv
<1>2. PICK ts : ts = Parsed(cfg)
  OBVIOUS
<1>3. PICK j \in DOMAIN cfg.topics, p \in Routes(cfg, r, ts) :
        /\ s \in ts[j].src /\ k \in SendKeys(s, ts[j])
        /\ Matches(k, Receiver(cfg, r, ts[p[1]], p[2]).key)
  BY <1>2, CarriedFacts
<1>4. /\ NormalizeRosName(ts[j].name) = NormalizeRosName(ts[p[1]].name)
      /\ ~ts[p[1]].dynamic_dst => s = p[2] /\ k = TopicFanoutKey(s, ts[j].name)
      /\ ts[p[1]].dynamic_dst => /\ r \in ts[j].dst /\ s # r
                                 /\ k = TopicDirectedKey(s, r, ts[j].name)
  BY <1>1, <1>2, <1>3, Meeting, SMTT(60)
<1>5. /\ p[1] \in DOMAIN cfg.topics /\ p[2] \in ts[p[1]].src /\ r \in ts[p[1]].dst
      /\ p[2] # r \/ cfg.debug
  BY <1>1, <1>2, <1>3, RouteFacts
<1>6. s \in Text /\ r \in Text
  BY HostTexts
<1>7. CASE ts[p[1]].dynamic_dst
  <2>1. PICK x : x = cfg.topics[j]
    OBVIOUS
  <2>2. /\ ts[j].name = x.topic_name /\ ts[j].name \in Seq(Text)
        /\ ts[j].src = Expand(x.srcIP, cfg.hosts) /\ ts[j].dst = Expand(x.dstIP, cfg.hosts)
    BY <1>1, <1>2, <2>1, RuleFacts
  <2>3. Routed(x, s, r)
    BY <1>3, <1>4, <1>7, <2>2 DEF Routed, From, To
  <2>4. /\ k[3] = "dst" /\ PartsFrom(k, 5) = NormalizeRosName(x.topic_name)
    <3>1. PICK a : a = ts[j].name
      OBVIOUS
    <3>2. k = TopicDirectedKey(s, r, a) /\ a \in Seq(Text) /\ a = x.topic_name
      BY <1>4, <1>7, <2>2, <3>1
    <3>3. k[3] = "dst" /\ PartsFrom(k, 5) = NormalizeRosName(a)
      <4>1. s \in Text /\ r \in Text /\ a \in Seq(Text) /\ k = TopicDirectedKey(s, r, a)
        BY <1>6, <3>2
      <4>2. k[3] = "dst"
        BY <4>1, DirectedParts
      <4>3. PartsFrom(k, 5) = NormalizeRosName(a)
        BY <4>1, DirectedParts, Zenon
      <4> QED
        BY <4>2, <4>3
    <3> QED
      BY <3>2, <3>3
  <2>5. x \in Range(cfg.topics)
    BY <1>1, <2>1, ConfigShape
  <2>6. NormalizeRosName(x.topic_name) = SubSeq(k, IF k[3] = "dst" THEN 5 ELSE 4, Len(k))
    BY <2>4 DEF PartsFrom
  <2> QED
    BY <2>3, <2>5, <2>6, Zenon
<1>8. CASE ~ts[p[1]].dynamic_dst
  <2>1. PICK x : x = cfg.topics[p[1]]
    OBVIOUS
  <2>2. /\ ts[p[1]].name = x.topic_name
        /\ ts[p[1]].src = Expand(x.srcIP, cfg.hosts) /\ ts[p[1]].dst = Expand(x.dstIP, cfg.hosts)
    BY <1>1, <1>2, <1>5, <2>1, RuleFacts
  <2>3. From(x, s) /\ To(x, r) /\ (s # r \/ cfg.debug)
    BY <1>4, <1>5, <1>8, <2>2 DEF From, To
  <2>4. ts[j].name \in Seq(Text)
    BY <1>1, <1>2, RuleFacts
  <2>5. k[3] = "fanout" /\ PartsFrom(k, 4) = NormalizeRosName(x.topic_name)
    BY <1>4, <1>6, <1>8, <2>2, <2>4, FanoutParts
  <2>6. x \in Range(cfg.topics)
    BY <1>1, <1>5, <2>1, ConfigShape
  <2>7. NormalizeRosName(x.topic_name) = SubSeq(k, IF k[3] = "dst" THEN 5 ELSE 4, Len(k))
    BY <2>5 DEF PartsFrom
  <2>8. Routed(x, s, r) \/ (From(x, s) /\ To(x, r) /\ s = r /\ cfg.debug)
    BY <2>3 DEF Routed
  <2> QED
    BY <2>6, <2>7, <2>8, Zenon
<1> QED
  BY <1>7, <1>8

\* A receiving topic of a fixed route is fed by the one source it is named after, whatever
\* the rules, the host names and the order in which the bridges start and stop: the source
\* is a part of the key, and the receiver's expression names it (topic_factory.cpp).
THEOREM FixedRouteHasOneSource == Spec => []OneSource
  BY TablesFromConfig, OneSourceHolds, PTL

\* What a receiver takes from the network comes from a host that a rule routes to it under
\* that name: key expressions of different rules never overlap by accident.
THEOREM NoUnroutedTopic == Spec => []NothingUnrouted
  BY TablesFromConfig, NothingUnroutedHolds, PTL
-----------------------------------------------------------------------------
(***************************************************************************)
(* EveryRouteCarried.                                                      *)
(***************************************************************************)

\* The route of a rule to a host: it leads to one receiver of that host.
LEMMA RouteTaken ==
  ASSUME NEW c \in Configs, NEW s \in HostSet, NEW r \in HostSet, s # r, ConfigAccepted(c, r),
         NEW ts, ts = Parsed(c), NEW i \in DOMAIN c.topics, s \in ts[i].src, r \in ts[i].dst
  PROVE  \E p \in Routes(c, r, ts) :
           p[1] = i /\ (~ts[i].dynamic_dst => p[2] = s)
<1>1. PICK t : t = ts[i]
  OBVIOUS
<1>2. t.src \subseteq HostSet
  BY <1>1, RuleFacts
<1>3. PICK z \in Sources(c, r, t) : ~t.dynamic_dst => z = s
  <2>1. CASE t.dynamic_dst
    <3>1. Sources(c, r, t) # {}
      BY <1>1, <1>2, <2>1, SourcesOf
    <3> QED
      BY <2>1, <3>1
  <2>2. CASE ~t.dynamic_dst
    <3>1. s \in Sources(c, r, t)
      BY <1>1, <1>2, <2>2, SourcesOf
    <3> QED
      BY <3>1
  <2> QED
    BY <2>1, <2>2
<1>4. z \in HostSet
  BY <1>2, SourcesOf
<1>5. DOMAIN ts = DOMAIN c.topics
  BY DEF Parsed
<1>6. PICK p : p = <<i, z>>
  OBVIOUS
<1>7. p \in (DOMAIN ts) \X HostSet /\ p[1] = i /\ p[2] = z
  BY <1>4, <1>5, <1>6
<1>8. p \in Routes(c, r, ts)
  BY <1>1, <1>3, <1>7 DEF Routes
<1> QED
  BY <1>1, <1>3, <1>7, <1>8

LEMMA EveryRouteCarriedHolds == RoutingInv => EveryRouteCarried
<1> SUFFICES ASSUME RoutingInv, NEW i \in DOMAIN cfg.topics, NEW s \in HostSet, NEW r \in HostSet,
                    phase[s] \in TopicsUp, phase[r] = "running",
                    Routed(cfg.topics[i], s, r), Undisputed(i, s, r)
             PROVE  Cardinality({y \in DOMAIN recv[r] : \E n \in DOMAIN send[s] :
                       Carried(s, n, RouteKey(cfg.topics[i], s, r), r, y)}) = 1
  BY DEF EveryRouteCarried, TopicsUp
<1>1. cfg \in Configs
  BY DEF RoutingInv
<1>2. phase[r] \in TopicsUp
  BY DEF TopicsUp
<1>3. PICK ts : ts = Parsed(cfg)
  OBVIOUS
<1>4. /\ ConfigAccepted(cfg, s) /\ ConfigAccepted(cfg, r) /\ TopicsAccepted(cfg, r, ts)
      /\ send[s] = Senders(cfg, s, ts) /\ recv[r] = Receivers(cfg, r, ts)
  BY <1>2, <1>3, TopicHosts
<1>5. PICK x : x = cfg.topics[i]
  OBVIOUS
<1>6. PICK t : t = ts[i]
  OBVIOUS
<1>7. /\ t.name = x.topic_name /\ t.wire = t.name /\ t.name \in Seq(Text) /\ t.type = x.msg_type
      /\ t.src = Expand(x.srcIP, cfg.hosts) /\ t.dst = Expand(x.dstIP, cfg.hosts)
      /\ t.dynamic_dst = HasIds(x.msg_type)
  BY <1>1, <1>3, <1>4, <1>5, <1>6, RuleFacts
<1>8. s \in t.src /\ r \in t.dst /\ s # r
  BY <1>5, <1>7 DEF Routed, From, To
<1>9. PICK k : k = RouteKey(x, s, r)
  OBVIOUS
<1>10. s \in Text /\ r \in Text
  BY HostTexts
<1>11. /\ ~t.dynamic_dst => k = TopicFanoutKey(s, t.name)
       /\ t.dynamic_dst => k = TopicDirectedKey(s, r, t.name)
  BY <1>7, <1>9 DEF RouteKey, Directed
<1>12. k \in SendKeys(s, t)
  BY <1>7, <1>8, <1>11 DEF SendKeys
<1>13. PICK n \in DOMAIN send[s] : send[s][n] = Sender(cfg, s, t)
  <2>1. ASSUME NEW j \in DOMAIN cfg.topics \ {i}, s \in ts[j].src
        PROVE  SendName(s, ts[j].name) # SendName(s, ts[i].name)
    <3>1. /\ ts[j].name = cfg.topics[j].topic_name
          /\ ts[j].src = Expand(cfg.topics[j].srcIP, cfg.hosts)
      BY <1>1, <1>3, <1>4, RuleFacts
    <3>2. From(cfg.topics[j], s)
      BY <2>1, <3>1 DEF From
    <3> QED
      BY <1>5, <1>6, <1>7, <3>1, <3>2 DEF Undisputed
  <2> QED
    BY <1>1, <1>3, <1>4, <1>6, <1>8, <2>1, SenderIs
<1>14. PICK p \in Routes(cfg, r, ts) : p[1] = i /\ (~t.dynamic_dst => p[2] = s)
  BY <1>1, <1>3, <1>4, <1>6, <1>8, RouteTaken
<1>15. PICK y : y = RouteName(r, ts, p)
  OBVIOUS
<1>16. y \in DOMAIN recv[r] /\ recv[r][y] = Receiver(cfg, r, t, p[2])
  BY <1>4, <1>6, <1>14, <1>15, ReceiverIs
<1>17. Carried(s, n, k, r, y)
  <2>1. k \in send[s][n].keys /\ send[s][n].session = recv[r][y].session
    BY <1>12, <1>13, <1>16 DEF Sender, Receiver
  <2>2. recv[r][y].key = ReceiveKey(r, t, p[2])
    BY <1>16 DEF Receiver
  <2>3. Matches(k, recv[r][y].key)
    BY <1>7, <1>10, <1>11, <1>14, <2>2, OwnMatch DEF ReceiveKey
  <2> QED
    BY <2>1, <2>3 DEF Carried
<1>18. ASSUME NEW v \in DOMAIN recv[r], NEW m \in DOMAIN send[s], Carried(s, m, k, r, v)
       PROVE  v = y
  <2>1. k \in send[s][m].keys
    BY <1>18 DEF Carried
  <2>2. PICK j \in DOMAIN cfg.topics, q \in Routes(cfg, r, ts) :
          /\ s \in ts[j].src /\ k \in SendKeys(s, ts[j]) /\ RouteName(r, ts, q) = v
          /\ Matches(k, Receiver(cfg, r, ts[q[1]], q[2]).key)
    BY <1>3, <1>18, <2>1, CarriedFacts
  <2>3. Matches(k, Receiver(cfg, r, ts[q[1]], q[2]).key) /\ k \in SendKeys(s, ts[i])
    BY <1>6, <1>12, <2>2
  <2>4. /\ NormalizeRosName(ts[i].name) = NormalizeRosName(ts[q[1]].name)
        /\ ~ts[q[1]].dynamic_dst => s = q[2]
    <3>1. ts[i] = t /\ i \in DOMAIN cfg.topics /\ k \in SendKeys(s, ts[i])
      BY <1>6, <1>12
    <3> QED
      BY <1>1, <1>3, <1>4, <2>2, <2>3, <3>1, Meeting, SMTT(60)
  <2>5. /\ q[1] \in DOMAIN cfg.topics /\ q[2] \in ts[q[1]].src /\ r \in ts[q[1]].dst
        /\ q = <<q[1], q[2]>> /\ q[2] \in Sources(cfg, r, ts[q[1]])
    BY <1>1, <1>3, <1>4, <2>2, RouteFacts
  <2>6. /\ p = <<p[1], p[2]>> /\ p[2] \in Sources(cfg, r, ts[p[1]])
    BY <1>1, <1>3, <1>4, <1>14, RouteFacts
  <2>7. q[1] = i
    <3>1. SUFFICES ASSUME q[1] # i PROVE FALSE
      OBVIOUS
    <3>2. PICK z : z = cfg.topics[q[1]]
      OBVIOUS
    <3>3. /\ ts[q[1]].name = z.topic_name /\ ts[q[1]].dynamic_dst = HasIds(z.msg_type)
          /\ ts[q[1]].src = Expand(z.srcIP, cfg.hosts) /\ ts[q[1]].dst = Expand(z.dstIP, cfg.hosts)
      BY <1>1, <1>3, <1>4, <2>5, <3>2, RuleFacts
    <3>4. To(z, r) /\ (From(z, s) \/ Directed(z))
      BY <2>4, <2>5, <3>3 DEF To, From, Directed
    <3>5. NormalizeRosName(z.topic_name) # NormalizeRosName(x.topic_name)
      BY <1>5, <2>5, <3>1, <3>2, <3>4 DEF Undisputed
    <3> QED
      BY <1>6, <1>7, <2>4, <3>3, <3>5
  <2>8. q[2] = p[2]
    <3>1. CASE ~t.dynamic_dst
      BY <1>6, <1>14, <2>4, <2>7, <3>1
    <3>2. CASE t.dynamic_dst
      <4>1. t.src \subseteq HostSet
        BY <1>1, <1>3, <1>4, <1>6, RuleFacts
      <4>2. p[2] \in Sources(cfg, r, t) /\ q[2] \in Sources(cfg, r, t)
        BY <1>6, <1>14, <2>5, <2>6, <2>7
      <4> QED
        BY <3>2, <4>1, <4>2, SourcesOf
    <3> QED
      BY <3>1, <3>2
  <2>9. q = p
    BY <1>14, <2>5, <2>6, <2>7, <2>8
  <2> QED
    BY <1>15, <2>2, <2>9
<1>19. {v \in DOMAIN recv[r] : \E m \in DOMAIN send[s] : Carried(s, m, k, r, v)} = {y}
  BY <1>16, <1>17, <1>18
<1>20. Cardinality({y}) = 1
  BY FS_Singleton
<1> QED
  BY <1>5, <1>9, <1>19, <1>20

\* Every route that the configuration asks for and no other rule disputes is carried: by
\* exactly one receiver and over one session, although sender and receiver derive names,
\* keys and sessions on different hosts from their own expansion of the rule.
THEOREM RoutesAreCarried == Spec => []EveryRouteCarried
  BY TablesFromConfig, EveryRouteCarriedHolds, PTL

-----------------------------------------------------------------------------
(***************************************************************************)
(* ServiceReached.                                                         *)
(***************************************************************************)

LEMMA ServiceHosts ==
  ASSUME RoutingInv, NEW h \in HostSet, phase[h] \in ServicesUp
  PROVE  /\ ServicesAccepted(cfg, h)
         /\ servers[h] = Servers(cfg, h) /\ clients[h] = Clients(cfg, h)
<1>1. HostInv(h, cfg, phase[h], sessions[h], topics[h], send[h], recv[h], servers[h], clients[h])
  BY DEF RoutingInv
<1> QED
  BY <1>1 DEF HostInv

\* An entry whose name comes once is the last of that name.
LEMMA NamedOnce ==
  ASSUME NEW c \in Configs, NEW entries \in SUBSET DOMAIN c.services, NEW i \in entries,
         \A j \in DOMAIN c.services \ {i} : c.services[j].srv_name # c.services[i].srv_name
  PROVE  NamedLast(c, entries, c.services[i].srv_name) = c.services[i]
<1> DEFINE S == {j \in entries : c.services[j].srv_name = c.services[i].srv_name}
<1>1. Len(c.services) \in Nat /\ DOMAIN c.services = 1..Len(c.services)
  BY ConfigShape
<1>2. S \in SUBSET (1..Len(c.services)) /\ i \in S
  BY <1>1
<1>3. Max(S) \in S
  <2>1. S # {}
    BY <1>2
  <2> QED
    BY <1>1, <1>2, <2>1, MaxIsLast
<1>4. \A j \in S : j = i
  OBVIOUS
<1>5. Max(S) = i
  BY <1>3, <1>4
<1> QED
  BY <1>5 DEF NamedLast

LEMMA ServiceReachedHolds == RoutingInv => ServiceReached
<1> SUFFICES ASSUME RoutingInv, NEW i \in DOMAIN cfg.services, NEW c \in HostSet,
                    cfg.services[i].serverIp \in cfg.hosts,
                    {phase[c], phase[cfg.services[i].serverIp]} \subseteq {"ready", "running"},
                    c \in ClientHosts(cfg, cfg.services[i]),
                    \A j \in DOMAIN cfg.services \ {i} :
                      cfg.services[j].srv_name # cfg.services[i].srv_name
             PROVE  \E n \in DOMAIN clients[c] :
                      /\ clients[c][n].name = ProxyName(cfg.services[i])
                      /\ \E m \in DOMAIN servers[cfg.services[i].serverIp] :
                           /\ servers[cfg.services[i].serverIp][m].key = clients[c][n].key
                           /\ c \in servers[cfg.services[i].serverIp][m].allowed
  BY DEF ServiceReached
<1>1. cfg \in Configs
  BY DEF RoutingInv
<1>2. PICK x : x = cfg.services[i]
  OBVIOUS
<1>3. PICK s : s = x.serverIp
  OBVIOUS
<1>4. s \in HostSet /\ phase[c] \in ServicesUp /\ phase[s] \in ServicesUp
  BY <1>1, <1>2, <1>3, ConfigShape DEF ServicesUp
<1>5. /\ ServicesAccepted(cfg, c) /\ clients[c] = Clients(cfg, c) /\ servers[s] = Servers(cfg, s)
  BY <1>4, ServiceHosts
<1>6. x \in Range(cfg.services)
  BY <1>1, <1>2, ConfigShape
<1>7. s # c
  BY <1>2, <1>3, <1>5, <1>6 DEF ServicesAccepted
<1>8. i \in Consulted(cfg, c) /\ Consulted(cfg, c) \in SUBSET DOMAIN cfg.services
  BY <1>2, <1>3, <1>7 DEF Consulted
<1>9. i \in Served(cfg, s) /\ Served(cfg, s) \in SUBSET DOMAIN cfg.services
  BY <1>2, <1>3 DEF Served
<1>10. NamedLast(cfg, Consulted(cfg, c), x.srv_name) = x
  BY <1>1, <1>2, <1>8, NamedOnce
<1>11. NamedLast(cfg, Served(cfg, s), x.srv_name) = x
  BY <1>1, <1>2, <1>9, NamedOnce
<1>12. x.srv_name \in DOMAIN clients[c] /\ clients[c][x.srv_name] = Client(x)
  BY <1>2, <1>5, <1>8, <1>10 DEF Clients
<1>13. x.srv_name \in DOMAIN servers[s] /\ servers[s][x.srv_name] = Server(cfg, s, x)
  BY <1>2, <1>5, <1>9, <1>11 DEF Servers
<1>14. /\ clients[c][x.srv_name].name = ProxyName(x)
       /\ servers[s][x.srv_name].key = clients[c][x.srv_name].key
       /\ c \in servers[s][x.srv_name].allowed
  BY <1>2, <1>3, <1>12, <1>13 DEF Client, Server
<1> QED
  BY <1>2, <1>3, <1>12, <1>13, <1>14

\* The proxy of a client and the queryable of its server meet, although each host builds its
\* own from the list of services: for every list that names the service once.
THEOREM ServicesAreReached == Spec => []ServiceReached
  BY TablesFromConfig, ServiceReachedHolds, PTL
-----------------------------------------------------------------------------
(***************************************************************************)
(* QualityLimitsValid.                                                     *)
(***************************************************************************)

\* A number that is read from the configuration is an integer.
LEMMA IntMemberType ==
  ASSUME NEW c \in Configs, NEW i \in DOMAIN c.topics, NEW m \in Numbers,
         NEW typed \in Int, NEW absent \in Int
  PROVE  IntMember(c.topics[i], m, typed, absent) \in Int
<1>1. PICK x : x = c.topics[i]
  OBVIOUS
<1>2. m \in DOMAIN x => (x[m].type \in {"int", "double"} => x[m].v \in Int)
  BY <1>1, ConfigShape, ConfigsAssumption
<1>3. CASE ~Has(x, m)
  BY <1>1, <1>3 DEF IntMember, Member
<1>4. CASE Has(x, m)
  <2>1. IntMember(x, m, typed, absent) = XmlRpcToInt(x[m], typed)
    BY <1>4 DEF IntMember, Member
  <2>2. x[m].type \in {"int", "double"} => x[m].v \in Int
    BY <1>2, <1>4 DEF Has
  <2>3. XmlRpcToInt(x[m], typed) \in Int
    BY <2>2 DEF XmlRpcToInt
  <2> QED
    BY <1>1, <2>1, <2>3
<1> QED
  BY <1>3, <1>4

LEMMA ClampRange ==
  ASSUME NEW lo \in Int, NEW hi \in Int, lo <= hi, NEW n \in Int
  PROVE  Clamp(lo, hi, n) \in Int /\ lo <= Clamp(lo, hi, n) /\ Clamp(lo, hi, n) <= hi
  BY DEF Clamp

\* The limits of a topic's encoder.
ValidImage(o) ==
  /\ 10 <= o.min /\ o.min <= o.max /\ o.max <= 100
  /\ o.quality \in 10..100
  /\ o.step > 0 /\ o.cooldown > 0

LEMMA ImageOptionsValid ==
  ASSUME NEW c \in Configs, NEW i \in DOMAIN c.topics
  PROVE  ValidImage(ImageOptions(c.topics[i])) /\ ValidImage(DefaultImage)
<1>1. PICK x : x = c.topics[i]
  OBVIOUS
<1> DEFINE lo   == IntMember(x, "imgMinJpegQuality", 45, DefaultImage.min)
           hi   == IntMember(x, "imgMaxJpegQuality", 90, DefaultImage.max)
           q    == IntMember(x, "imgJpegQuality", 80, DefaultImage.quality)
           step == IntMember(x, "imgQualityStep", 5, DefaultImage.step)
           cool == IntMember(x, "imgAdaptCooldownFrames", 8, DefaultImage.cooldown)
<1>2. /\ DefaultImage.min = 45 /\ DefaultImage.max = 90 /\ DefaultImage.quality = 80
      /\ DefaultImage.step = 5 /\ DefaultImage.cooldown = 8
  BY DEF DefaultImage
<1>3. lo \in Int /\ hi \in Int /\ q \in Int /\ step \in Int /\ cool \in Int
  <2>1. ASSUME NEW m \in Numbers, NEW a \in Int, NEW b \in Int PROVE IntMember(x, m, a, b) \in Int
    BY <1>1, IntMemberType
  <2>2. /\ "imgMinJpegQuality" \in Numbers /\ "imgMaxJpegQuality" \in Numbers
        /\ "imgJpegQuality" \in Numbers /\ "imgQualityStep" \in Numbers
        /\ "imgAdaptCooldownFrames" \in Numbers
    BY DEF Numbers
  <2>3. lo \in Int /\ hi \in Int
    BY <1>2, <2>1, <2>2
  <2>4. q \in Int /\ step \in Int /\ cool \in Int
    BY <1>2, <2>1, <2>2
  <2> QED
    BY <2>3, <2>4
<1> HIDE DEF lo, hi, q, step, cool
<1>4. /\ ImageOptions(x).min = Clamp(10, 100, lo)
      /\ ImageOptions(x).max = MaxQuality(Clamp(10, 100, lo), hi)
      /\ ImageOptions(x).quality = Clamp(10, 100, q)
      /\ ImageOptions(x).step = AtLeast1(step) /\ ImageOptions(x).cooldown = AtLeast1(cool)
  BY DEF ImageOptions, lo, hi, q, step, cool
<1>5. PICK m \in Int : m = Clamp(10, 100, lo) /\ 10 <= m /\ m <= 100
  BY <1>3, ClampRange
<1>6. PICK n \in Int : n = Clamp(m, 100, hi) /\ m <= n /\ n <= 100
  BY <1>3, <1>5, ClampRange
<1>7. PICK k \in Int : k = Clamp(10, 100, q) /\ 10 <= k /\ k <= 100
  BY <1>3, ClampRange
<1>8. AtLeast1(step) > 0 /\ AtLeast1(cool) > 0
  BY <1>3 DEF AtLeast1
<1>9. /\ ImageOptions(x).min = m /\ ImageOptions(x).max = n /\ ImageOptions(x).quality = k
      /\ ImageOptions(x).step > 0 /\ ImageOptions(x).cooldown > 0
  BY <1>4, <1>5, <1>6, <1>7, <1>8 DEF MaxQuality
<1>10. ValidImage(ImageOptions(x))
  BY <1>5, <1>6, <1>7, <1>9 DEF ValidImage
<1>11. ValidImage(DefaultImage)
  BY <1>2 DEF ValidImage
<1> QED
  BY <1>1, <1>10, <1>11

LEMMA QualityLimitsHold == RoutingInv => QualityLimitsValid
<1> SUFFICES ASSUME RoutingInv, NEW h \in HostSet, NEW t \in Range(topics[h])
             PROVE  ValidImage(t.image)
  BY DEF QualityLimitsValid, ValidImage
<1>1. cfg \in Configs
  BY DEF RoutingInv
<1>2. PICK i \in DOMAIN topics[h] : t = topics[h][i]
  BY DEF Range
<1>3. topics[h] # <<>>
  BY <1>2
<1>4. ConfigAccepted(cfg, h) /\ topics[h] = Parsed(cfg)
  BY <1>3 DEF RoutingInv, HostInv
<1>5. i \in DOMAIN cfg.topics
  BY <1>2, <1>4 DEF Parsed
<1>6. PICK x : x = cfg.topics[i]
  OBVIOUS
<1>7. /\ x.msg_type = Image => t.image = ImageOptions(x)
      /\ x.msg_type # Image => t.image = DefaultImage
  BY <1>2, <1>4, <1>5, <1>6, ParsedTopic
<1>8. ValidImage(ImageOptions(x)) /\ ValidImage(DefaultImage)
  BY <1>1, <1>5, <1>6, ImageOptionsValid
<1> QED
  BY <1>7, <1>8

\* The encoder's limits are in range and do not cross, for every integer or double in the
\* configuration, of every sign and size.
THEOREM QualityLimitsAreValid == Spec => []QualityLimitsValid
  BY TablesFromConfig, QualityLimitsHold, PTL

-----------------------------------------------------------------------------
(***************************************************************************)
(* MonitorFindsRows.                                                       *)
(***************************************************************************)

\* Where a member has the type the monitor casts it to, bridge and monitor read the same.
LEMMA SameBool ==
  ASSUME NEW xml, NEW members, NEW m \in members, Typed(xml, "bool", members),
         NEW typed, NEW absent
  PROVE  BoolMember(xml, m, typed, absent) = GetBoolMember(xml, m, absent)
<1>1. CASE Has(xml, m)
  <2>1. xml[m].type = "bool"
    BY <1>1 DEF Has, Typed
  <2>2. XmlRpcToBool(xml[m], typed) = xml[m].v
    BY <2>1 DEF XmlRpcToBool
  <2>3. BoolMember(xml, m, typed, absent) = XmlRpcToBool(xml[m], typed)
    BY <1>1 DEF BoolMember, Member
  <2>4. GetBoolMember(xml, m, absent) = xml[m].v
    BY <1>1 DEF GetBoolMember
  <2> QED
    BY <2>2, <2>3, <2>4
<1>2. CASE ~Has(xml, m)
  BY <1>2 DEF BoolMember, Member, GetBoolMember
<1> QED
  BY <1>1, <1>2

\* The bridge and the monitor agree on which sessions are enabled.
LEMMA SameEnabled ==
  ASSUME NEW zenoh, NEW kind \in {"image_session", "cloud_session"},
         \A k \in {"image_session", "cloud_session"} \cap DOMAIN zenoh :
           Typed(zenoh[k], "bool", {"enabled"})
  PROVE  Enabled(zenoh, kind) <=> MonitorEnabled(zenoh, kind)
<1>1. CASE Has(zenoh, kind)
  <2>1. Typed(zenoh[kind], "bool", {"enabled"})
    BY <1>1 DEF Has
  <2>2. BoolMember(zenoh[kind], "enabled", FALSE, FALSE) = GetBoolMember(zenoh[kind], "enabled", FALSE)
    BY <2>1, SameBool
  <2> QED
    BY <1>1, <2>2, Zenon DEF Enabled, MonitorEnabled
<1>2. CASE ~Has(zenoh, kind)
  BY <1>2 DEF Enabled, MonitorEnabled
<1> QED
  BY <1>1, <1>2

LEMMA SameSession ==
  ASSUME NEW zenoh, NEW type,
         \A k \in {"image_session", "cloud_session"} \cap DOMAIN zenoh :
           Typed(zenoh[k], "bool", {"enabled"})
  PROVE  TransportLabel(zenoh, type) = SessionFor(zenoh, type)
<1>1. Enabled(zenoh, "image_session") <=> MonitorEnabled(zenoh, "image_session")
  BY SameEnabled
<1>2. Enabled(zenoh, "cloud_session") <=> MonitorEnabled(zenoh, "cloud_session")
  BY SameEnabled
<1> QED
  BY <1>1, <1>2 DEF TransportLabel, SessionFor

\* The monitor's reading of a cloud codec.
LEMMA SameCodec ==
  ASSUME NEW xml, Typed(xml, "bool", {"prefix", "same_prefix", "cloudCompress", "imgAdaptiveQuality"}),
         Typed(xml, "string", {"cloudCodec"})
  PROVE  LoadTopicRule(xml).codec = CloudOptions(xml).codec
<1>1. PICK b : b = BoolMember(xml, "cloudCompress", FALSE, FALSE)
  OBVIOUS
<1>2. b = GetBoolMember(xml, "cloudCompress", FALSE)
  <2>1. PICK m : m = {"prefix", "same_prefix", "cloudCompress", "imgAdaptiveQuality"}
    OBVIOUS
  <2>2. Typed(xml, "bool", m) /\ "cloudCompress" \in m
    BY <2>1
  <2>3. BoolMember(xml, "cloudCompress", FALSE, FALSE) = GetBoolMember(xml, "cloudCompress", FALSE)
    BY <2>2, SameBool, Zenon
  <2> QED
    BY <1>1, <2>3
<1>3. PICK d : d = DefaultCodec(b)
  OBVIOUS
<1>4. CloudOptions(xml).codec = StringMember(xml, "cloudCodec", "raw", d)
  <2>1. CloudOptions(xml).codec =
          StringMember(xml, "cloudCodec", "raw", DefaultCodec(BoolMember(xml, "cloudCompress", FALSE, FALSE)))
    BY DEF CloudOptions
  <2> QED
    BY <1>1, <1>3, <2>1
<1>5. LoadTopicRule(xml).codec = IF Has(xml, "cloudCodec") THEN xml.cloudCodec.v ELSE d
  BY <1>2, <1>3 DEF LoadTopicRule
<1>6. CASE Has(xml, "cloudCodec")
  <2>1. xml["cloudCodec"].type = "string"
    BY <1>6 DEF Has, Typed
  <2>2. StringMember(xml, "cloudCodec", "raw", d) = xml["cloudCodec"].v
    BY <1>6, <2>1 DEF StringMember, Member, XmlRpcToString
  <2> QED
    BY <1>4, <1>5, <1>6, <2>2
<1>7. CASE ~Has(xml, "cloudCodec")
  <2>1. StringMember(xml, "cloudCodec", "raw", d) = d
    BY <1>7 DEF StringMember, Member
  <2> QED
    BY <1>4, <1>5, <1>7, <2>1
<1> QED
  BY <1>6, <1>7

\* The names of the rows: for rules that name their hosts and do not expand an id.
LEMMA SameRows ==
  ASSUME NEW c \in Configs, NEW h, ConfigAccepted(c, h), NEW i \in DOMAIN c.topics,
         NEW t, t = Parsed(c)[i], NEW x, x = c.topics[i],
         Typed(x, "bool", {"prefix", "same_prefix", "cloudCompress", "imgAdaptiveQuality"}),
         Range(LoadTopicRule(x).src_hosts) \subseteq c.hosts, ~HasIdPrefix(x.topic_name)
  PROVE  /\ SendName(h, t.name) \in TopicAliases(LoadTopicRule(x))
         /\ \A s \in Sources(c, h, t) : RecvName(h, t, s) \in TopicAliases(LoadTopicRule(x))
<1> DEFINE rule == LoadTopicRule(x)
<1>1. /\ t.name = x.topic_name /\ t.src = Expand(x.srcIP, c.hosts)
      /\ t.prefix = Prefixed(x) /\ t.same_prefix = SamePrefixed(x)
      /\ SelectionKnown(x.srcIP, c.hosts)
  BY ParsedTopic DEF TopicValid
<1>2. \A text : WithId(t.name, text) = t.name
  BY <1>1 DEF WithId
<1>3. /\ rule.topic_name = t.name /\ rule.src_hosts = x.srcIP.v
      /\ rule.prefix = GetBoolMember(x, "prefix", TRUE)
      /\ rule.same_prefix = GetBoolMember(x, "same_prefix", FALSE)
  BY <1>1 DEF LoadTopicRule, SelectionKnown
<1>4. t.prefix = rule.prefix /\ t.same_prefix = rule.same_prefix
  <2>1. PICK m : m = {"prefix", "same_prefix", "cloudCompress", "imgAdaptiveQuality"}
    OBVIOUS
  <2>2. Typed(x, "bool", m) /\ "prefix" \in m /\ "same_prefix" \in m
    BY <2>1
  <2>3. BoolMember(x, "prefix", TRUE, TRUE) = GetBoolMember(x, "prefix", TRUE)
    BY <2>2, SameBool, Zenon
  <2>4. BoolMember(x, "same_prefix", FALSE, FALSE) = GetBoolMember(x, "same_prefix", FALSE)
    BY <2>2, SameBool, Zenon
  <2> QED
    BY <1>1, <1>3, <2>3, <2>4, Zenon DEF Prefixed, SamePrefixed
<1>5. ASSUME NEW s \in t.src PROVE s \in Range(rule.src_hosts)
  <2>1. c.hosts \subseteq HostSet
    BY ConfigShape
  <2>2. "all" \notin c.hosts /\ "all_drone" \notin c.hosts
    BY <2>1, HostNamesAssumption DEF HostSet
  <2>3. "all" \notin Range(x.srcIP.v) /\ "all_drone" \notin Range(x.srcIP.v)
    BY <1>3, <2>2
  <2> QED
    BY <1>1, <1>3, <2>3 DEF Expand
<1>6. SendName(h, t.name) = t.name
  BY <1>2 DEF SendName
<1>7. \A s : RawName(h, t, s) = t.name
  BY <1>2 DEF RawName
<1>8. t.src \subseteq HostSet
  <2>1. c.hosts \subseteq HostSet
    BY ConfigShape
  <2> QED
    BY <1>1, <2>1, ExpandHosts
<1> HIDE DEF rule
<1>9. ASSUME NEW s \in Sources(c, h, t) PROVE RecvName(h, t, s) \in TopicAliases(rule)
  <2>1. s \in Range(rule.src_hosts)
    BY <1>5, <1>8, SourcesOf
  <2>2. CASE t.same_prefix
    <3>1. RecvName(h, t, s) = Below("bridge", t.name)
      BY <1>7, <2>2 DEF RecvName
    <3> QED
      BY <1>3, <1>4, <2>2, <3>1 DEF TopicAliases
  <2>3. CASE t.prefix /\ ~t.same_prefix
    <3>1. RecvName(h, t, s) = Below(s, t.name)
      BY <1>7, <2>3 DEF RecvName
    <3> QED
      BY <1>3, <1>4, <2>1, <2>3, <3>1 DEF TopicAliases
  <2>4. CASE ~t.prefix /\ ~t.same_prefix
    <3>1. RecvName(h, t, s) = t.name
      BY <1>7, <2>4 DEF RecvName
    <3> QED
      BY <1>3, <3>1 DEF TopicAliases
  <2> QED
    BY <2>2, <2>3, <2>4
<1>10. SendName(h, t.name) \in TopicAliases(rule)
  BY <1>3, <1>6 DEF TopicAliases
<1> QED
  BY <1>9, <1>10 DEF rule

LEMMA MonitorFindsRowsHolds == RoutingInv => MonitorFindsRows
<1> SUFFICES ASSUME RoutingInv, NEW h \in HostSet, phase[h] = "running",
                    MonitorLoads(cfg.zenoh, cfg.topics, cfg.services),
                    NEW i \in DOMAIN topics[h],
                    Range(LoadTopicRule(cfg.topics[i]).src_hosts) \subseteq cfg.hosts,
                    ~HasIdPrefix(LoadTopicRule(cfg.topics[i]).topic_name)
             PROVE  LET rule == LoadTopicRule(cfg.topics[i]) IN
                    /\ RowNames(h, i) \subseteq TopicAliases(rule)
                    /\ TransportLabel(cfg.zenoh, rule.msg_type) = SessionFor(cfg.zenoh, topics[h][i].type)
                    /\ rule.qos_class = topics[h][i].qos /\ rule.max_freq = topics[h][i].max_freq
                    /\ rule.msg_type = Cloud => rule.codec = topics[h][i].cloud.codec
  BY DEF MonitorFindsRows
<1>1. cfg \in Configs /\ ConfigAccepted(cfg, h) /\ topics[h] = Parsed(cfg)
  BY DEF RoutingInv, HostInv, TopicsUp
<1>2. i \in DOMAIN cfg.topics
  BY <1>1 DEF Parsed
<1>3. PICK x : x = cfg.topics[i]
  OBVIOUS
<1>4. PICK t : t = topics[h][i]
  OBVIOUS
<1>5. t = Parsed(cfg)[i]
  BY <1>1, <1>4
<1>6. /\ t.type = x.msg_type /\ t.qos = x.qos_class /\ t.max_freq = Rate(x)
      /\ x.msg_type = Cloud => t.cloud = CloudOptions(x)
      /\ TopicValid(x, cfg.hosts)
  BY <1>1, <1>2, <1>3, <1>5, ParsedTopic
<1>7. x \in Range(cfg.topics)
  BY <1>1, <1>2, <1>3, ConfigShape
<1>8. /\ Typed(x, "bool", {"prefix", "same_prefix", "cloudCompress", "imgAdaptiveQuality"})
      /\ Typed(x, "string", {"cloudCodec"})
      /\ \A k \in {"image_session", "cloud_session"} \cap DOMAIN cfg.zenoh :
           Typed(cfg.zenoh[k], "bool", {"enabled"})
  BY <1>7 DEF MonitorLoads
<1>9. LoadTopicRule(x).topic_name = x.topic_name /\ LoadTopicRule(x).msg_type = x.msg_type
  BY DEF LoadTopicRule
<1>10. ~HasIdPrefix(x.topic_name) /\ Range(LoadTopicRule(x).src_hosts) \subseteq cfg.hosts
  BY <1>3, <1>9
<1>11. /\ SendName(h, t.name) \in TopicAliases(LoadTopicRule(x))
       /\ \A s \in Sources(cfg, h, t) : RecvName(h, t, s) \in TopicAliases(LoadTopicRule(x))
  BY <1>1, <1>2, <1>3, <1>5, <1>8, <1>10, SameRows
<1>12. RowNames(h, i) \subseteq TopicAliases(LoadTopicRule(x))
  BY <1>4, <1>11 DEF RowNames
<1>13. TransportLabel(cfg.zenoh, x.msg_type) = SessionFor(cfg.zenoh, t.type)
  <2>1. PICK z : z = cfg.zenoh
    OBVIOUS
  <2>2. TransportLabel(z, x.msg_type) = SessionFor(z, x.msg_type)
    BY <1>8, <2>1, SameSession
  <2> QED
    BY <1>6, <2>1, <2>2
<1>14. LoadTopicRule(x).qos_class = t.qos /\ LoadTopicRule(x).max_freq = t.max_freq
  BY <1>6 DEF LoadTopicRule, TopicValid
<1>15. x.msg_type = Cloud => LoadTopicRule(x).codec = t.cloud.codec
  BY <1>6, <1>8, SameCodec
<1> QED
  BY <1>3, <1>4, <1>9, <1>12, <1>13, <1>14, <1>15

\* For every rule that lists its hosts by name, the terminal UI looks for each row the bridge
\* reports, and shows the session, the class, the rate and the codec the bridge uses.
THEOREM MonitorFindsEveryRow == Spec => []MonitorFindsRows
  BY TablesFromConfig, MonitorFindsRowsHolds, PTL

-----------------------------------------------------------------------------
(***************************************************************************)
(* SessionsSeparate.                                                       *)
(***************************************************************************)

\* Every endpoint of a session has one of these ports.
PortsWithin(session, ports) == \A e \in session.listen \cup session.connect : e.port \in ports

\* The ports of a session's endpoints, whether they are listed or made from the IP map.
LEMMA SessionPorts ==
  ASSUME NEW xml, NEW me, NEW ip, NEW proto, NEW port,
         NEW e \in Endpoints(xml, "listen_endpoints") \cup Endpoints(xml, "connect_endpoints")
                     \cup Seeds(xml, me, ip, proto, port)
  PROVE  e.port \in Ports(xml, port)
<1>1. CASE e \in Seeds(xml, me, ip, proto, port)
  <2>1. PICK a \in DOMAIN ip : e = [proto |-> proto, addr |-> ip[a], port |-> SeedPort(xml, port)]
    BY <1>1 DEF Seeds
  <2>2. e.port = SeedPort(xml, port)
    BY <2>1
  <2> QED
    BY <2>2 DEF Ports
<1>2. CASE e \notin Seeds(xml, me, ip, proto, port)
  BY <1>2 DEF Ports
<1> QED
  BY <1>1, <1>2

\* The fields of a session that the parsers of the side sessions set.
SessionFields == {"mode", "multicast", "gossip", "compression", "address", "listen", "connect",
                  "liveliness", "workers", "capacity", "protocols"}

\* A flag is set (an operator of its own, as provers take a flag in a record for a value).
IsSet(flag) == flag = TRUE

\* The scouting address of a control session.
ControlAddress(zenoh) == ScoutingAddress(zenoh, "")

\* What keeps a session apart: its liveliness token, protocols, ports, address and capacity.
LEMMA ControlParts ==
  ASSUME NEW xml, NEW me, NEW ip, NEW s, s = ControlSession(xml, me, ip)
  PROVE  /\ IsSet(s.liveliness)
         /\ s.protocols = {} /\ s.address = ControlAddress(xml)
         /\ PortsWithin(s, Ports(xml, ControlPort)) /\ SessionFields \subseteq DOMAIN s
<1>1. IsSet(DefaultSession.liveliness)
  BY Zenon DEF DefaultSession, IsSet
<1>2. DefaultSession.protocols = {}
  BY DEF DefaultSession
<1>3. DefaultSession.address = ""
  BY DEF DefaultSession
<1>4. s.liveliness = DefaultSession.liveliness
  BY DEF ControlSession, DefaultSession
<1>5. s.protocols = DefaultSession.protocols
  BY DEF ControlSession, DefaultSession
<1>6. s.address = StringMember(xml, "multicast_address", "", DefaultSession.address)
  BY DEF ControlSession, DefaultSession
<1>7. s.listen = Endpoints(xml, "listen_endpoints")
  BY DEF ControlSession, DefaultSession
<1>8. s.connect = Endpoints(xml, "connect_endpoints") \cup Seeds(xml, me, ip, "tcp", ControlPort)
  BY DEF ControlSession, DefaultSession
<1>9. PortsWithin(s, Ports(xml, ControlPort))
  BY <1>7, <1>8, SessionPorts DEF PortsWithin
<1>10. SessionFields \subseteq DOMAIN s
  <2>1. DOMAIN s = {"mode", "multicast", "gossip", "compression", "address", "listen", "connect",
                    "timeout", "workers", "capacity", "liveliness", "protocols"}
    BY Zenon DEF ControlSession, DefaultSession
  <2> QED
    BY <2>1 DEF SessionFields
<1>11. IsSet(s.liveliness)
  BY <1>1, <1>4, Zenon
<1>12. s.address = ControlAddress(xml)
  BY <1>3, <1>6, Zenon DEF ControlAddress, ScoutingAddress
<1>13. s.protocols = {}
  BY <1>2, <1>5
<1> QED
  BY <1>9, <1>10, <1>11, <1>12, <1>13, Zenon

\* A session that carries one kind of data, whatever session it is a copy of.
LEMMA SideParts ==
  ASSUME NEW control, SessionFields \subseteq DOMAIN control,
         NEW xml, NEW me, NEW ip, NEW proto, NEW port,
         NEW s, s = SideSession(control, xml, me, ip, proto, port)
  PROVE  /\ ~IsSet(s.liveliness) /\ s.protocols = {proto}
         /\ PortsWithin(s, Ports(xml, port)) /\ DOMAIN s = DOMAIN control
<1>1. DOMAIN s = DOMAIN control
  BY DEF SideSession
<1>2. \A f \in SessionFields : f \in DOMAIN control
  OBVIOUS
<1>3. /\ "liveliness" \in DOMAIN control /\ "protocols" \in DOMAIN control
      /\ "listen" \in DOMAIN control /\ "connect" \in DOMAIN control
  BY <1>2 DEF SessionFields
<1>4. ~IsSet(s.liveliness)
  <2>1. s.liveliness = FALSE
    BY <1>3 DEF SideSession
  <2> QED
    BY <2>1, Zenon DEF IsSet
<1>5. s.protocols = {proto}
  BY <1>3 DEF SideSession
<1>6. s.listen = Endpoints(xml, "listen_endpoints")
  BY <1>3 DEF SideSession
<1>7. s.connect = Endpoints(xml, "connect_endpoints") \cup Seeds(xml, me, ip, proto, port)
  BY <1>3 DEF SideSession
<1>8. PortsWithin(s, Ports(xml, port))
  BY <1>6, <1>7, SessionPorts DEF PortsWithin
<1> QED
  BY <1>1, <1>4, <1>5, <1>8

\* A session with its protocols set.
LEMMA ProtocolParts ==
  ASSUME NEW base, NEW protocols, "protocols" \in DOMAIN base,
         NEW s, s = [base EXCEPT !.protocols = protocols]
  PROVE  /\ s.protocols = protocols /\ s.liveliness = base.liveliness /\ s.address = base.address
         /\ s.listen = base.listen /\ s.connect = base.connect /\ s.capacity = base.capacity
         /\ DOMAIN s = DOMAIN base
  OBVIOUS

\* What each kind of session has that keeps it from linking with another kind.
ControlOnly(zenoh, me, ip, s) ==
  /\ IsSet(s.liveliness) /\ s.protocols \subseteq {"tcp"}
  /\ s.address = ControlAddress(zenoh) /\ PortsWithin(s, Ports(zenoh, ControlPort))
  /\ s.capacity = ControlSession(zenoh, me, ip).capacity
ImageOnly(s) == ~IsSet(s.liveliness) /\ s.protocols = {"udp"}
CloudOnly(xml, s) ==
  /\ ~IsSet(s.liveliness) /\ s.protocols = {"tcp"}
  /\ s.address = ScoutingAddress(xml, CloudAddress) /\ PortsWithin(s, Ports(xml, CloudPort))

LEMMA ControlApart ==
  ASSUME NEW zenoh, NEW me, NEW ip, NEW base, base = ControlSession(zenoh, me, ip),
         NEW s, s = base \/ s = [base EXCEPT !.protocols = {"tcp"}]
  PROVE  ControlOnly(zenoh, me, ip, s) /\ SessionFields \subseteq DOMAIN s
<1>1. /\ IsSet(base.liveliness)
      /\ base.protocols = {} /\ base.address = ControlAddress(zenoh)
      /\ PortsWithin(base, Ports(zenoh, ControlPort)) /\ SessionFields \subseteq DOMAIN base
  BY ControlParts
<1>2. "protocols" \in DOMAIN base
  <2>1. "protocols" \in SessionFields
    BY DEF SessionFields
  <2> QED
    BY <1>1, <2>1
<1>3. /\ s.protocols \subseteq {"tcp"} /\ s.liveliness = base.liveliness
      /\ s.address = base.address /\ s.listen = base.listen /\ s.connect = base.connect
      /\ s.capacity = base.capacity /\ DOMAIN s = DOMAIN base
  <2>1. CASE s = base
    BY <1>1, <2>1
  <2>2. CASE s = [base EXCEPT !.protocols = {"tcp"}]
    BY <1>2, <2>2, ProtocolParts
  <2> QED
    BY <2>1, <2>2
<1>4. PortsWithin(s, Ports(zenoh, ControlPort))
  BY <1>1, <1>3 DEF PortsWithin
<1>5. IsSet(s.liveliness)
  BY <1>1, <1>3, Zenon
<1> QED
  BY <1>1, <1>3, <1>4, <1>5 DEF ControlOnly

LEMMA ImageApart ==
  ASSUME NEW base, SessionFields \subseteq DOMAIN base, NEW xml, NEW me, NEW ip,
         NEW s, s = ImageSession(base, xml, me, ip)
  PROVE  ImageOnly(s)
<1> DEFINE side == SideSession(base, xml, me, ip, "udp", ImagePort)
           a == StringMember(xml, "multicast_address", "", base.address)
           c == BoolMember(xml, "compression_enabled", FALSE, base.compression)
<1>1. s = [side EXCEPT !.address = a, !.compression = c]
  BY Zenon DEF ImageSession
<1>2. ~IsSet(side.liveliness) /\ side.protocols = {"udp"} /\ DOMAIN side = DOMAIN base
  BY SideParts
<1> HIDE DEF side, a, c
<1>3. "address" \in DOMAIN side
  BY <1>2 DEF SessionFields
<1>4. s.liveliness = side.liveliness /\ s.protocols = side.protocols
  BY <1>1, <1>3
<1> QED
  BY <1>2, <1>4 DEF ImageOnly

LEMMA CloudApart ==
  ASSUME NEW control, SessionFields \subseteq DOMAIN control, NEW xml, NEW me, NEW ip,
         NEW s, s = CloudSession(control, xml, me, ip)
  PROVE  CloudOnly(xml, s)
<1> DEFINE side == SideSession(control, xml, me, ip, "tcp", CloudPort)
           a == StringMember(xml, "multicast_address", "", CloudAddress)
           c == BoolMember(xml, "compression_enabled", FALSE, FALSE)
<1>1. s = [side EXCEPT !.address = a, !.compression = c]
  BY Zenon DEF CloudSession
<1>2. /\ ~IsSet(side.liveliness) /\ side.protocols = {"tcp"} /\ DOMAIN side = DOMAIN control
      /\ PortsWithin(side, Ports(xml, CloudPort))
  BY SideParts
<1>3. a = ScoutingAddress(xml, CloudAddress)
  BY Zenon DEF ScoutingAddress
<1> HIDE DEF side, a, c
<1>4. "address" \in DOMAIN side
  BY <1>2 DEF SessionFields
<1>5. /\ s.liveliness = side.liveliness /\ s.protocols = side.protocols /\ s.address = a
      /\ s.listen = side.listen /\ s.connect = side.connect
  BY <1>1, <1>4
<1>6. PortsWithin(s, Ports(xml, CloudPort))
  BY <1>2, <1>5 DEF PortsWithin
<1> QED
  BY <1>2, <1>3, <1>5, <1>6 DEF CloudOnly

\* The sessions of a host, by kind.
LEMMA LoadedSessions ==
  ASSUME NEW zenoh, NEW me, NEW ip, NEW ss \in LoadSessions(zenoh, me, ip), NEW k \in DOMAIN ss
  PROVE  \/ k = "control" /\ ControlOnly(zenoh, me, ip, ss[k])
         \/ k = "image" /\ ImageOnly(ss[k])
         \/ k = "cloud" /\ CloudOnly(zenoh.cloud_session, ss[k])
<1> DEFINE image   == Enabled(zenoh, "image_session")
           cloud   == Enabled(zenoh, "cloud_session")
           base    == ControlSession(zenoh, me, ip)
           control == IF image \/ cloud THEN [base EXCEPT !.protocols = {"tcp"}] ELSE base
           kinds   == {"control"} \cup (IF image THEN {"image"} ELSE {})
                                  \cup (IF cloud THEN {"cloud"} ELSE {})
           side1   == ImageSession(base, zenoh.image_session, me, ip)
           side2   == CloudSession(control, zenoh.cloud_session, me, ip)
           all     == [i \in kinds |-> CASE i = "control" -> control
                                         [] i = "image" -> side1
                                         [] i = "cloud" -> side2]
<1>1. ss = all
  BY Zenon DEF LoadSessions
<1>2. control = base \/ control = [base EXCEPT !.protocols = {"tcp"}]
  OBVIOUS
<1>3. ControlOnly(zenoh, me, ip, control) /\ SessionFields \subseteq DOMAIN control
  BY <1>2, ControlApart, Zenon
<1>4. SessionFields \subseteq DOMAIN base
  BY ControlApart, Zenon
<1>5. ImageOnly(side1)
  BY <1>4, ImageApart, Zenon
<1>6. CloudOnly(zenoh.cloud_session, side2)
  BY <1>3, CloudApart, Zenon
<1>7. k \in kinds
  BY <1>1
<1>8. k = "control" \/ k = "image" \/ k = "cloud"
  BY <1>7
<1> HIDE DEF control, side1, side2, kinds
<1>9. /\ k = "control" => ss[k] = control
      /\ k = "image" => ss[k] = side1
      /\ k = "cloud" => ss[k] = side2
  BY <1>1, <1>7
<1> QED
  BY <1>3, <1>5, <1>6, <1>8, <1>9

\* Sessions that share neither a protocol, or neither a port nor an address, do not link.
LEMMA ProtocolsApart ==
  ASSUME NEW a, NEW b, a.protocols \cap b.protocols = {}
  PROVE  ~Links(a, b)
  BY DEF Links

LEMMA PortsApart ==
  ASSUME NEW a, NEW b, NEW P, NEW Q, PortsWithin(a, P), PortsWithin(b, Q), P \cap Q = {},
         a.address # b.address
  PROVE  ~Links(a, b)
<1>1. \A e \in a.connect : e.port \in P
  BY DEF PortsWithin
<1>2. \A l \in b.listen : l.port \in Q
  BY DEF PortsWithin
<1>3. \A e \in a.connect, l \in b.listen : e.port # l.port
  BY <1>1, <1>2
<1> QED
  BY <1>3 DEF Links

LEMMA ApartInWords ==
  ASSUME NEW zenoh, ConfiguredApart(zenoh)
  PROVE  /\ Ports(zenoh, ControlPort) \cap Ports(zenoh.cloud_session, CloudPort) = {}
         /\ ControlAddress(zenoh) # ScoutingAddress(zenoh.cloud_session, CloudAddress)
<1>1. ScoutingAddress(zenoh, "") = ControlAddress(zenoh)
  BY Zenon DEF ControlAddress
<1>2. ScoutingAddress(zenoh, "") # ScoutingAddress(zenoh.cloud_session, CloudAddress)
  BY Zenon DEF ConfiguredApart
<1>3. ControlAddress(zenoh) # ScoutingAddress(zenoh.cloud_session, CloudAddress)
  BY <1>1, <1>2, Zenon
<1>4. Ports(zenoh, ControlPort) \cap Ports(zenoh.cloud_session, CloudPort) = {}
  BY Zenon DEF ConfiguredApart
<1> QED
  BY <1>3, <1>4

LEMMA SessionsSeparateHolds == RoutingInv => SessionsSeparate
<1> SUFFICES ASSUME RoutingInv, NEW g \in HostSet, NEW h \in HostSet,
                    NEW j \in DOMAIN sessions[g], NEW k \in DOMAIN sessions[h]
             PROVE  /\ j # k /\ ("image" \in {j, k} \/ ConfiguredApart(cfg.zenoh))
                         => ~Links(sessions[g][j], sessions[h][k])
                    /\ sessions[g][j].liveliness <=> j = "control"
                    /\ j = "control" =>
                         sessions[g][j].capacity = ControlSession(cfg.zenoh, g, cfg.ip).capacity
  BY DEF SessionsSeparate
<1> DEFINE a == sessions[g][j]
           b == sessions[h][k]
<1>1. sessions[g] # NoMap /\ sessions[h] # NoMap
  BY NoMapEmpty
<1>2. /\ sessions[g] \in LoadSessions(cfg.zenoh, g, cfg.ip)
      /\ sessions[h] \in LoadSessions(cfg.zenoh, h, cfg.ip)
  BY <1>1 DEF RoutingInv, HostInv
<1>3. \/ j = "control" /\ ControlOnly(cfg.zenoh, g, cfg.ip, a)
      \/ j = "image" /\ ImageOnly(a)
      \/ j = "cloud" /\ CloudOnly(cfg.zenoh.cloud_session, a)
  BY <1>2, LoadedSessions
<1>4. \/ k = "control" /\ ControlOnly(cfg.zenoh, h, cfg.ip, b)
      \/ k = "image" /\ ImageOnly(b)
      \/ k = "cloud" /\ CloudOnly(cfg.zenoh.cloud_session, b)
  BY <1>2, LoadedSessions
<1> HIDE DEF a, b
<1>5. IsSet(a.liveliness) <=> j = "control"
  BY <1>3 DEF ControlOnly, ImageOnly, CloudOnly
<1>6. j = "control" => a.capacity = ControlSession(cfg.zenoh, g, cfg.ip).capacity
  BY <1>3 DEF ControlOnly
<1>7. ASSUME j # k, "image" \in {j, k} PROVE ~Links(a, b)
  <2>1. a.protocols \cap b.protocols = {}
    BY <1>3, <1>4, <1>7 DEF ControlOnly, ImageOnly, CloudOnly
  <2> QED
    BY <2>1, ProtocolsApart
<1>8. ASSUME j # k, "image" \notin {j, k}, ConfiguredApart(cfg.zenoh) PROVE ~Links(a, b)
  <2> DEFINE P == Ports(cfg.zenoh, ControlPort)
             Q == Ports(cfg.zenoh.cloud_session, CloudPort)
  <2>1. P \cap Q = {} /\ ControlAddress(cfg.zenoh) # ScoutingAddress(cfg.zenoh.cloud_session, CloudAddress)
    BY <1>8, ApartInWords
  <2>2. CASE j = "control" /\ k = "cloud"
    <3>1. a.address = ControlAddress(cfg.zenoh) /\ PortsWithin(a, P)
      BY <1>3, <2>2 DEF ControlOnly
    <3>2. /\ b.address = ScoutingAddress(cfg.zenoh.cloud_session, CloudAddress)
          /\ PortsWithin(b, Q)
      BY <1>4, <2>2 DEF CloudOnly
    <3> HIDE DEF P, Q
    <3> QED
      BY <2>1, <3>1, <3>2, PortsApart
  <2>3. CASE j = "cloud" /\ k = "control"
    <3>1. b.address = ControlAddress(cfg.zenoh) /\ PortsWithin(b, P)
      BY <1>4, <2>3 DEF ControlOnly
    <3>2. /\ a.address = ScoutingAddress(cfg.zenoh.cloud_session, CloudAddress)
          /\ PortsWithin(a, Q)
      BY <1>3, <2>3 DEF CloudOnly
    <3> HIDE DEF P, Q
    <3> QED
      BY <2>1, <3>1, <3>2, PortsApart
  <2> QED
    BY <1>3, <1>4, <1>8, <2>2, <2>3
<1>9. j # k /\ ("image" \in {j, k} \/ ConfiguredApart(cfg.zenoh)) => ~Links(a, b)
  BY <1>7, <1>8
<1>10. IsSet(a.liveliness) <=> a.liveliness
  BY DEF IsSet
<1> QED
  BY <1>5, <1>6, <1>9, <1>10 DEF a, b

\* Sessions of different kinds never link, whatever the configuration: the image session is
\* the only one over UDP, and control and cloud stay apart unless the configuration itself
\* joins them.  Only the control session announces presence.
THEOREM SessionsStayApart == Spec => []SessionsSeparate
  BY TablesFromConfig, SessionsSeparateHolds, PTL
=============================================================================
