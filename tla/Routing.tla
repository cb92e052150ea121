------------------------------- MODULE Routing -------------------------------
(***************************************************************************)
(* The bridges of a swarm that all load one configuration: how each builds *)
(* its tables of sending topics, receiving topics, service servers and     *)
(* service proxies, and which of them meet on the network.                 *)
(*                                                                         *)
(* A sender is live from topicOperatorInit on, a queryable from            *)
(* getServiceConfigAndInit on; a receiver subscribes in startBridge.  An   *)
(* exception in the constructor unwinds everything and main returns.       *)
(***************************************************************************)
EXTENDS BridgeConfig

CONSTANTS
  Configs,     \* configurations a swarm may be started with
  KnownTypes   \* message and service types of MSGS_MACRO and SRVS_MACRO

\* What the XML-RPC parser hands over: texts are strings, numbers are integers.
Numbers == {"imgJpegQuality", "imgMinJpegQuality", "imgMaxJpegQuality", "imgQualityStep",
            "imgAdaptCooldownFrames"}
ASSUME ConfigsAssumption ==
  \A c \in Configs :
    /\ c.hosts \subseteq Range(Hosts)
    /\ c.topics \in Seq(Range(c.topics)) /\ c.services \in Seq(Range(c.services))
    /\ \A x \in Range(c.topics) :
         /\ x.topic_name \in Seq(STRING)
         /\ \A m \in Numbers \cap DOMAIN x : x[m].type \in {"int", "double"} => x[m].v \in Int

VARIABLES
  cfg,       \* the configuration of the swarm
  phase,     \* [HostSet -> Phases]: how far main is on each host
  sessions,  \* [HostSet -> sessions by kind]
  topics,    \* [HostSet -> Seq(TopicCfg)]: topic_cfgs_
  send,      \* [HostSet -> map]: send_topics_, by ROS name
  recv,      \* [HostSet -> map]: recv_topics_, by ROS name
  servers,   \* [HostSet -> map]: service_servers_, by srv_name
  clients    \* [HostSet -> map]: service_clients_, by srv_name

tables == <<send, recv, servers, clients>>
vars == <<cfg, phase, sessions, topics, tables>>

HostSet == Range(Hosts)
Phases == {"down", "configured", "topics", "ready", "running", "stopped", "failed"}
NoMap == <<>>

Init ==
  /\ cfg \in Configs
  /\ phase = [h \in HostSet |-> "down"]
  /\ sessions = [h \in HostSet |-> NoMap]
  /\ topics = [h \in HostSet |-> <<>>]
  /\ send = [h \in HostSet |-> NoMap] /\ recv = send /\ servers = send /\ clients = send

\* The constructor throws: its members are destroyed and main returns.
Fail(h) ==
  /\ phase' = [phase EXCEPT ![h] = "failed"]
  /\ sessions' = [sessions EXCEPT ![h] = NoMap]
  /\ topics' = [topics EXCEPT ![h] = <<>>]
  /\ send' = [send EXCEPT ![h] = NoMap]
  /\ recv' = [recv EXCEPT ![h] = NoMap]
  /\ servers' = [servers EXCEPT ![h] = NoMap]
  /\ clients' = [clients EXCEPT ![h] = NoMap]
  /\ UNCHANGED cfg

\* getMyHostName, getHostTopicAndTransportConfig and the opening of the sessions.
ConfigAccepted(c, h) ==
  /\ h \in c.hosts
  /\ LoadSessions(c.zenoh, h, c.ip) # {}
  /\ \A i \in DOMAIN c.topics : TopicValid(c.topics[i], c.hosts)

Parsed(c) == [i \in DOMAIN c.topics |-> ReadTopic(c.topics[i], c.hosts)]

Configure(h) ==
  /\ phase[h] = "down"
  /\ IF ConfigAccepted(cfg, h)
     THEN /\ phase' = [phase EXCEPT ![h] = "configured"]
          /\ \E s \in LoadSessions(cfg.zenoh, h, cfg.ip) : sessions' = [sessions EXCEPT ![h] = s]
          /\ topics' = [topics EXCEPT ![h] = Parsed(cfg)]
          /\ UNCHANGED <<cfg, tables>>
     ELSE Fail(h)
-----------------------------------------------------------------------------
(* The tables: c is the configuration, ts the parsed topics of host h.  A   *)
(* table is a std::map filled by a loop: the last assignment to a name     *)
(* stays.                                                                  *)

\* ROS refuses names with braces, a minus sign or an asterisk (external).
ValidRosName(name) == Range(name) \cap {"drone_{id}", NoDrone, "*"} = {}

SendName(h, name) == IF IsDrone(h) THEN WithId(name, DroneText[h]) ELSE name

\* Faulty variant of SendKeys: the key is made from the expanded name.
SendKeysExpanded(h, t) ==
  IF t.dynamic_dst THEN {TopicDirectedKey(h, d, SendName(h, t.name)) : d \in t.dst \ {h}}
  ELSE {TopicFanoutKey(h, SendName(h, t.name))}

\* The keys of the publishers the TopicFactory of a sender declares.
SendKeys(h, t) ==
  IF t.dynamic_dst THEN {TopicDirectedKey(h, d, t.wire) : d \in t.dst \ {h}}
  ELSE {TopicFanoutKey(h, t.wire)}

\* The topics that h sends under ROS name n.
SentAs(h, ts, n) == {i \in DOMAIN ts : h \in ts[i].src /\ SendName(h, ts[i].name) = n}

Sender(c, h, t) == [keys |-> SendKeys(h, t), session |-> SessionFor(c.zenoh, t.type)]

Senders(c, h, ts) ==
  [n \in {SendName(h, ts[i].name) : i \in {i \in DOMAIN ts : h \in ts[i].src}} |->
     Sender(c, h, ts[Max(SentAs(h, ts, n))])]

\* Faulty variant of Sources: the host itself is not left out.
SourcesWithSelf(c, h, t) == IF h \in t.dst THEN t.src ELSE {}

\* The sources for which a receiver is made: all of them, or the first for a directed topic.
First(hosts) == Hosts[Min({i \in DOMAIN Hosts : Hosts[i] \in hosts})]
Sources(c, h, t) ==
  LET all == IF h \in t.dst THEN {s \in t.src : s # h \/ c.debug} ELSE {} IN
  IF t.dynamic_dst /\ all # {} THEN {First(all)} ELSE all

RawName(h, t, s) == WithId(t.name, IF t.dynamic_dst THEN DroneText[h] ELSE DroneText[s])

RecvName(h, t, s) ==
  LET raw == RawName(h, t, s) IN
  IF t.prefix /\ ~t.same_prefix THEN Below(s, raw)
  ELSE IF t.same_prefix THEN Below("bridge", raw)
  ELSE raw

\* The expression createThread subscribes to.
ReceiveKey(h, t, s) ==
  IF t.dynamic_dst THEN TopicDirectedKey("*", h, t.wire) ELSE TopicFanoutKey(s, t.wire)

Receiver(c, h, t, s) ==
  [name    |-> RecvName(h, t, s),
   src     |-> s,
   prefix  |-> t.prefix /\ ~t.same_prefix,
   dynamic |-> t.dynamic_dst,
   key     |-> ReceiveKey(h, t, s),
   session |-> SessionFor(c.zenoh, t.type)]

\* The receivers h makes: a topic and one of its sources.
Routes(c, h, ts) == {p \in (DOMAIN ts) \X HostSet : p[2] \in Sources(c, h, ts[p[1]])}
RouteName(h, ts, p) == RecvName(h, ts[p[1]], p[2])

Receivers(c, h, ts) ==
  [n \in {RouteName(h, ts, p) : p \in Routes(c, h, ts)} |->
     LET p == CHOOSE q \in Routes(c, h, ts) : RouteName(h, ts, q) = n IN
     Receiver(c, h, ts[p[1]], p[2])]

\* No exception: the types are known, the names are valid and no receiver's name comes twice.
TopicsAccepted(c, h, ts) ==
  /\ \A i \in DOMAIN ts :
       h \in ts[i].src => ts[i].type \in KnownTypes /\ ValidRosName(SendName(h, ts[i].name))
  /\ \A p \in Routes(c, h, ts) :
       LET t == ts[p[1]] IN
       /\ t.type \in KnownTypes
       /\ HasIdPrefix(t.name) => IsDrone(p[2])
       /\ ValidRosName(RawName(h, t, p[2]))
  /\ \A p, q \in Routes(c, h, ts) : RouteName(h, ts, p) = RouteName(h, ts, q) => p = q

TopicOperatorInit(h) ==
  /\ phase[h] = "configured"
  /\ IF TopicsAccepted(cfg, h, topics[h])
     THEN /\ phase' = [phase EXCEPT ![h] = "topics"]
          /\ send' = [send EXCEPT ![h] = Senders(cfg, h, topics[h])]
          /\ recv' = [recv EXCEPT ![h] = Receivers(cfg, h, topics[h])]
          /\ UNCHANGED <<cfg, sessions, topics, servers, clients>>
     ELSE Fail(h)
-----------------------------------------------------------------------------
ClientHosts(c, x) == Expand(x.clientIp, c.hosts)

ServicesAccepted(c, h) ==
  \A x \in Range(c.services) :
    /\ StartsWithSlash(x.srv_name)
    /\ x.serverIp \in c.hosts
    /\ SelectionKnown(x.clientIp, c.hosts)
    /\ ~(x.serverIp = h /\ h \in ClientHosts(c, x))
    /\ h \in ClientHosts(c, x) \cup {x.serverIp} => x.srv_type \in KnownTypes

\* The ROS name of a proxy: service_prefix_name.
ProxyName(x) == IF BoolMember(x, "prefix", TRUE, TRUE)
                THEN Below(x.serverIp, x.srv_name) ELSE x.srv_name

\* What the last entry of a set of service entries that is named n says.
NamedLast(c, entries, n) == c.services[Max({i \in entries : c.services[i].srv_name = n})]

Served(c, h)    == {i \in DOMAIN c.services : c.services[i].serverIp = h}
Consulted(c, h) == {i \in DOMAIN c.services : /\ c.services[i].serverIp # h
                                              /\ h \in ClientHosts(c, c.services[i])}

\* The queryable of a server; the faulty variant declares it under the proxy's name.
ServerUnderProxyName(c, h, x) == [key |-> ServiceKey(h, ProxyName(x)), allowed |-> ClientHosts(c, x)]
Server(c, h, x) == [key |-> ServiceKey(h, x.srv_name), allowed |-> ClientHosts(c, x)]
Client(x)       == [name |-> ProxyName(x), key |-> ServiceKey(x.serverIp, x.srv_name)]

Servers(c, h) ==
  [n \in {c.services[i].srv_name : i \in Served(c, h)} |->
     Server(c, h, NamedLast(c, Served(c, h), n))]
Clients(c, h) ==
  [n \in {c.services[i].srv_name : i \in Consulted(c, h)} |->
     Client(NamedLast(c, Consulted(c, h), n))]

GetServiceConfigAndInit(h) ==
  /\ phase[h] = "topics"
  /\ IF ServicesAccepted(cfg, h)
     THEN /\ phase' = [phase EXCEPT ![h] = "ready"]
          /\ servers' = [servers EXCEPT ![h] = Servers(cfg, h)]
          /\ clients' = [clients EXCEPT ![h] = Clients(cfg, h)]
          /\ UNCHANGED <<cfg, sessions, topics, send, recv>>
     ELSE Fail(h)

StartBridge(h) ==
  /\ phase[h] = "ready"
  /\ phase' = [phase EXCEPT ![h] = "running"]
  /\ UNCHANGED <<cfg, sessions, topics, tables>>

\* stopBridge clears the four tables and closes the sessions.
StopBridge(h) ==
  /\ phase[h] = "running"
  /\ phase' = [phase EXCEPT ![h] = "stopped"]
  /\ sessions' = [sessions EXCEPT ![h] = NoMap]
  /\ send' = [send EXCEPT ![h] = NoMap]
  /\ recv' = [recv EXCEPT ![h] = NoMap]
  /\ servers' = [servers EXCEPT ![h] = NoMap]
  /\ clients' = [clients EXCEPT ![h] = NoMap]
  /\ UNCHANGED <<cfg, topics>>

Next ==
  \E h \in HostSet :
    Configure(h) \/ TopicOperatorInit(h) \/ GetServiceConfigAndInit(h) \/ StartBridge(h)
      \/ StopBridge(h)

Spec == Init /\ [][Next]_vars
-----------------------------------------------------------------------------
(* Properties                                                              *)

\* What a rule asks for, from the configuration alone.
From(x, s)      == s \in Expand(x.srcIP, cfg.hosts)
To(x, r)        == r \in Expand(x.dstIP, cfg.hosts)
Routed(x, s, r) == From(x, s) /\ To(x, r) /\ s # r
Directed(x)     == HasIds(x.msg_type)

\* No other rule claims what rule i needs for its route from s to r: its ROS name at the
\* source, or the same wire name into the destination.
Undisputed(i, s, r) ==
  \A j \in DOMAIN cfg.topics \ {i} :
    LET x == cfg.topics[i]
        z == cfg.topics[j] IN
    /\ From(z, s) => SendName(s, z.topic_name) # SendName(s, x.topic_name)
    /\ To(z, r) /\ (From(z, s) \/ Directed(z)) =>
         NormalizeRosName(z.topic_name) # NormalizeRosName(x.topic_name)

\* Receiver y of host r gets what sender x of host s publishes under key k.
Carried(s, x, k, r, y) ==
  /\ phase[r] = "running"
  /\ k \in send[s][x].keys
  /\ send[s][x].session = recv[r][y].session
  /\ Matches(k, recv[r][y].key)

\* The key under which rule x goes from s to r.
RouteKey(x, s, r) ==
  IF Directed(x) THEN TopicDirectedKey(s, r, x.topic_name) ELSE TopicFanoutKey(s, x.topic_name)

\* EveryRouteCarried: once the source has built its senders and the destination runs, each
\* undisputed route of each rule is served by exactly one receiver of the destination, over
\* one session, although the two hosts derive names, keys and sessions separately.
EveryRouteCarried ==
  \A i \in DOMAIN cfg.topics : \A s, r \in HostSet :
    /\ phase[s] \in {"topics", "ready", "running"} /\ phase[r] = "running"
    /\ Routed(cfg.topics[i], s, r) /\ Undisputed(i, s, r)
    => Cardinality({y \in DOMAIN recv[r] :
          \E n \in DOMAIN send[s] : Carried(s, n, RouteKey(cfg.topics[i], s, r), r, y)}) = 1

\* NothingUnrouted: what a receiver gets comes from a host that some rule routes to it under
\* that name; a host hears itself in debug mode only.
NothingUnrouted ==
  \A s, r \in HostSet : \A n \in DOMAIN send[s], y \in DOMAIN recv[r] : \A k \in send[s][n].keys :
    Carried(s, n, k, r, y) =>
      \E x \in Range(cfg.topics) :
        /\ Routed(x, s, r) \/ (From(x, s) /\ To(x, r) /\ s = r /\ cfg.debug)
        /\ NormalizeRosName(x.topic_name) = SubSeq(k, IF k[3] = "dst" THEN 5 ELSE 4, Len(k))

\* OneSource: a receiving topic of a fixed route is fed by the one source it is named after;
\* its frame counters and its stop order rely on a single sender.
OneSource ==
  \A s, r \in HostSet : \A n \in DOMAIN send[s], y \in DOMAIN recv[r] : \A k \in send[s][n].keys :
    Carried(s, n, k, r, y) /\ ~recv[r][y].dynamic => recv[r][y].src = s

\* ServiceReached: a client host of a service that the configuration names once has a proxy
\* under the documented name, and its queries arrive at a queryable of the rule's server that
\* accepts this client.
ServiceReached ==
  \A i \in DOMAIN cfg.services : \A c \in HostSet :
    LET x == cfg.services[i] IN
    /\ x.serverIp \in cfg.hosts
    /\ {phase[c], phase[x.serverIp]} \subseteq {"ready", "running"}
    /\ c \in ClientHosts(cfg, x)
    /\ \A j \in DOMAIN cfg.services \ {i} : cfg.services[j].srv_name # x.srv_name
    => \E n \in DOMAIN clients[c] :
         /\ clients[c][n].name = ProxyName(x)
         /\ \E m \in DOMAIN servers[x.serverIp] :
              /\ servers[x.serverIp][m].key = clients[c][n].key
              /\ c \in servers[x.serverIp][m].allowed

\* Two sessions can link: a connect endpoint of one is a listen endpoint of the other, or
\* both scout on one multicast address; and they share a link protocol.
Links(a, b) ==
  /\ a.protocols \cap b.protocols # {}
  /\ \/ \E e \in a.connect, l \in b.listen : e.proto = l.proto /\ e.port = l.port
     \/ a.multicast /\ b.multicast /\ a.address = b.address

\* The ports and the scouting address a session's parameters give, with the default ones.
Ports(xml, port) ==
  {e.port : e \in Endpoints(xml, "listen_endpoints") \cup Endpoints(xml, "connect_endpoints")}
    \cup {SeedPort(xml, port)}
ScoutingAddress(xml, address) == StringMember(xml, "multicast_address", "", address)

\* The configuration does not itself join the two TCP sessions.
ConfiguredApart(zenoh) ==
  /\ Ports(zenoh, ControlPort) \cap Ports(zenoh.cloud_session, CloudPort) = {}
  /\ ScoutingAddress(zenoh, "") # ScoutingAddress(zenoh.cloud_session, CloudAddress)

\* SessionsSeparate: sessions of different kinds never link, on one host or across two, so
\* no topic is carried twice, unless the configuration gives both TCP sessions one port or
\* scouting address; presence is announced by the control session only; and the side
\* sessions leave the service executor of the control session as configured.
SessionsSeparate ==
  \A g, h \in HostSet : \A j \in DOMAIN sessions[g], k \in DOMAIN sessions[h] :
    /\ j # k /\ ("image" \in {j, k} \/ ConfiguredApart(cfg.zenoh))
         => ~Links(sessions[g][j], sessions[h][k])
    /\ sessions[g][j].liveliness <=> j = "control"
    /\ j = "control" => sessions[g][j].capacity = ControlSession(cfg.zenoh, g, cfg.ip).capacity

\* QualityLimitsValid: whatever the configuration says, the encoder is started with limits
\* within 10..100 that do not cross, and with positive steps.
QualityLimitsValid ==
  \A h \in HostSet : \A t \in Range(topics[h]) :
    /\ 10 <= t.image.min /\ t.image.min <= t.image.max /\ t.image.max <= 100
    /\ t.image.quality \in 10..100
    /\ t.image.step > 0 /\ t.image.cooldown > 0

\* The rows the bridge on h reports for rule i.
RowNames(h, i) ==
  LET t == topics[h][i] IN
  (IF h \in t.src THEN {SendName(h, t.name)} ELSE {})
    \cup {RecvName(h, t, s) : s \in Sources(cfg, h, t)}

\* MonitorFindsRows: for a rule that lists its hosts by name, the terminal UI looks for every
\* row the bridge reports for it, and shows the session, class, rate and codec it uses.
MonitorFindsRows ==
  \A h \in HostSet : phase[h] = "running" /\ MonitorLoads(cfg.zenoh, cfg.topics, cfg.services) =>
    \A i \in DOMAIN topics[h] :
      LET rule == LoadTopicRule(cfg.topics[i]) IN
      /\ Range(rule.src_hosts) \subseteq cfg.hosts /\ ~HasIdPrefix(rule.topic_name)
      => /\ RowNames(h, i) \subseteq TopicAliases(rule)
         /\ TransportLabel(cfg.zenoh, rule.msg_type) = SessionFor(cfg.zenoh, topics[h][i].type)
         /\ rule.qos_class = topics[h][i].qos /\ rule.max_freq = topics[h][i].max_freq
         /\ rule.msg_type = Cloud => rule.codec = topics[h][i].cloud.codec
=============================================================================
