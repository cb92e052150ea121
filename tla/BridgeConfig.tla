----------------------------- MODULE BridgeConfig -----------------------------
(***************************************************************************)
(* Reading the configuration: BridgeFactory's parsers, the key expressions *)
(* of bridge_transport, and the terminal UI's own reading (ConfigLoader).  *)
(*                                                                         *)
(* A parameter value is [type, v] as XmlRpc gives it; doubles are counted  *)
(* in tenths.  A struct is a function from the members it has.  A ROS name *)
(* is the sequence of the texts between its slashes: "/a/b" is             *)
(* <<"", "a", "b">>.  An endpoint is [proto, addr, port].  A parser that   *)
(* throws yields an empty set, one that succeeds the set of its result.    *)
(***************************************************************************)
EXTENDS Integers, Sequences, FiniteSets, SequencesExt

CONSTANTS
  Hosts,         \* logical host names, in the order of std::map (a sequence)
  DroneText,     \* [Range(Hosts) -> STRING]: "drone_<id>", or NoDrone for other hosts
  NoDrone,       \* "drone_-9999", from DRONE_ID_NULL
  DirectedTypes  \* message types with a to_drone_ids member

ASSUME HostsAssumption ==
  /\ IsInjective(Hosts) /\ Len(Hosts) > 0
  /\ DroneText \in [Range(Hosts) -> STRING] /\ NoDrone \in STRING
  /\ Hosts \in Seq(STRING)

\* No host has the name of a selection or of Zenoh's wildcard.
ASSUME HostNamesAssumption == Range(Hosts) \cap {"all", "all_drone", "*"} = {}

IsDrone(h) == DroneText[h] # NoDrone
Image == "sensor_msgs/Image"
Cloud == "sensor_msgs/PointCloud2"

Has(xml, m) == m \in DOMAIN xml
IntV(n)    == [type |-> "int", v |-> n]
DoubleV(n) == [type |-> "double", v |-> n]
BoolV(b)   == [type |-> "bool", v |-> b]
StringV(s) == [type |-> "string", v |-> s]
ArrayV(s)  == [type |-> "array", v |-> s]

XmlRpcToDouble(x, fallback) ==
  IF x.type = "int" THEN 10 * x.v ELSE IF x.type = "double" THEN x.v ELSE fallback
\* The cast of a double drops its fraction.
XmlRpcToInt(x, fallback) ==
  IF x.type = "int" THEN x.v
  ELSE IF x.type = "double" THEN IF x.v < 0 THEN -((-x.v) \div 10) ELSE x.v \div 10
  ELSE fallback
XmlRpcToBool(x, fallback)   == IF x.type = "bool" THEN x.v ELSE fallback
XmlRpcToString(x, fallback) == IF x.type = "string" THEN x.v ELSE fallback
XmlRpcToStringVector(x)     == IF x.type = "array" THEN x.v ELSE <<>>

\* Reading member m of a struct with one of the conversions above.
Member(xml, m, Conv(_, _), typed, absent) == IF Has(xml, m) THEN Conv(xml[m], typed) ELSE absent
IntMember(xml, m, typed, absent)    == Member(xml, m, XmlRpcToInt, typed, absent)
DoubleMember(xml, m, typed, absent) == Member(xml, m, XmlRpcToDouble, typed, absent)
BoolMember(xml, m, typed, absent)   == Member(xml, m, XmlRpcToBool, typed, absent)
StringMember(xml, m, typed, absent) == Member(xml, m, XmlRpcToString, typed, absent)
AtLeast1(n) == IF n < 1 THEN 1 ELSE n
Clamp(lo, hi, n) == IF n > hi THEN hi ELSE IF n < lo THEN lo ELSE n
-----------------------------------------------------------------------------
(* Sessions                                                                *)

DefaultSession ==
  [mode |-> "peer", multicast |-> TRUE, gossip |-> TRUE, compression |-> FALSE, address |-> "",
   listen |-> {}, connect |-> {}, timeout |-> 1000, workers |-> 2, capacity |-> 64,
   liveliness |-> TRUE, protocols |-> {}]

\* The ports the seeds get when the configuration sets none.
ControlPort == 7447
ImagePort   == 7448
CloudPort   == 7449

\* The port of the endpoints made from the legacy IP map: one for every other host with an
\* address.  The endpoint lists are sets: a session uses every entry.
SeedPort(xml, port) == IntMember(xml, "seed_port", port, port)
Seeds(xml, me, ip, proto, port) ==
  IF BoolMember(xml, "seed_from_ip_table", FALSE, FALSE)
  THEN {[proto |-> proto, addr |-> ip[h], port |-> SeedPort(xml, port)] : h \in DOMAIN ip \ {me}}
  ELSE {}

Endpoints(xml, m) == IF Has(xml, m) THEN Range(XmlRpcToStringVector(xml[m])) ELSE {}

ControlSession(xml, me, ip) ==
  LET d == DefaultSession IN
  [d EXCEPT
    !.mode        = StringMember(xml, "mode", "peer", d.mode),
    !.multicast   = BoolMember(xml, "multicast_scouting", TRUE, d.multicast),
    !.gossip      = BoolMember(xml, "gossip_scouting", TRUE, d.gossip),
    !.compression = BoolMember(xml, "compression_enabled", FALSE, d.compression),
    !.address     = StringMember(xml, "multicast_address", "", d.address),
    !.listen      = Endpoints(xml, "listen_endpoints"),
    !.connect     = Endpoints(xml, "connect_endpoints") \cup Seeds(xml, me, ip, "tcp", ControlPort),
    !.timeout     = AtLeast1(IntMember(xml, "service_timeout_ms", 1000, d.timeout)),
    !.workers     = AtLeast1(IntMember(xml, "service_worker_threads", 2, d.workers)),
    !.capacity    = AtLeast1(IntMember(xml, "service_queue_capacity", 64, d.capacity))]

\* A session for one kind of data: a copy of the control session, its own endpoints, no
\* liveliness token and the smallest service executor.
SideSession(control, xml, me, ip, proto, port) ==
  [control EXCEPT
    !.mode       = StringMember(xml, "mode", control.mode, control.mode),
    !.multicast  = BoolMember(xml, "multicast_scouting", control.multicast, control.multicast),
    !.gossip     = BoolMember(xml, "gossip_scouting", control.gossip, control.gossip),
    !.listen     = Endpoints(xml, "listen_endpoints"),
    !.connect    = Endpoints(xml, "connect_endpoints") \cup Seeds(xml, me, ip, proto, port),
    !.liveliness = FALSE, !.workers = 1, !.capacity = 1, !.protocols = {proto}]

ImageSession(control, xml, me, ip) ==
  [SideSession(control, xml, me, ip, "udp", ImagePort) EXCEPT
    !.address     = StringMember(xml, "multicast_address", "", control.address),
    !.compression = BoolMember(xml, "compression_enabled", FALSE, control.compression)]

CloudAddress == "224.0.0.225:7446"
\* Faulty variant of CloudSession: it scouts on the control session's address.
CloudSessionSharedAddress(control, xml, me, ip) ==
  SideSession(control, xml, me, ip, "tcp", CloudPort)

CloudSession(control, xml, me, ip) ==
  [SideSession(control, xml, me, ip, "tcp", CloudPort) EXCEPT
    !.address     = StringMember(xml, "multicast_address", "", CloudAddress),
    !.compression = BoolMember(xml, "compression_enabled", FALSE, FALSE)]

\* ValidateEndpointProtocols for both lists of a session.
UsesProtocol(session, proto) ==
  \A e \in session.listen \cup session.connect : e.proto = proto
HasEndpoint(session) == session.listen \cup session.connect # {}
ValidMode(session)   == session.mode \in {"peer", "client", "router"}

Enabled(zenoh, kind) ==
  Has(zenoh, kind) /\ BoolMember(zenoh[kind], "enabled", FALSE, FALSE)

\* The sessions of a host, by kind; empty when a check throws.
LoadSessions(zenoh, me, ip) ==
  LET image   == Enabled(zenoh, "image_session")
      cloud   == Enabled(zenoh, "cloud_session")
      base    == ControlSession(zenoh, me, ip)
      control == IF image \/ cloud THEN [base EXCEPT !.protocols = {"tcp"}] ELSE base
      all == [k \in {"control"} \cup (IF image THEN {"image"} ELSE {})
                               \cup (IF cloud THEN {"cloud"} ELSE {}) |->
                CASE k = "control" -> control
                  [] k = "image" -> ImageSession(base, zenoh.image_session, me, ip)
                  [] k = "cloud" -> CloudSession(control, zenoh.cloud_session, me, ip)] IN
  IF /\ \A k \in DOMAIN all : ValidMode(all[k])
     /\ image \/ cloud => UsesProtocol(all["control"], "tcp")
     /\ image => UsesProtocol(all["image"], "udp") /\ HasEndpoint(all["image"])
     /\ cloud => UsesProtocol(all["cloud"], "tcp") /\ HasEndpoint(all["cloud"])
  THEN {all} ELSE {}

\* TopicTransportName and transportForTopic: the session that carries a type.
SessionFor(zenoh, type) ==
  CASE Enabled(zenoh, "image_session") /\ type = Image -> "image"
    [] Enabled(zenoh, "cloud_session") /\ type = Cloud -> "cloud"
    [] OTHER -> "control"
-----------------------------------------------------------------------------
(* Hosts, topics and services                                              *)

\* expandHostSelection: throws on an unknown host; otherwise the hosts set to true.
SelectionKnown(x, hosts) ==
  x.type = "array" /\ Range(x.v) \subseteq hosts \cup {"all", "all_drone"}
Expand(x, hosts) ==
  {h \in hosts : \/ h \in Range(x.v)
                 \/ "all" \in Range(x.v)
                 \/ "all_drone" \in Range(x.v) /\ IsDrone(h)}

StartsWithSlash(name) == Len(name) > 1 /\ name[1] = ""

\* Image and point cloud options; other types keep the defaults of TopicCfg.
DefaultImage == [resize |-> 10, quality |-> 80, adaptive |-> FALSE, min |-> 45, max |-> 90,
                 target |-> 12000, step |-> 5, cooldown |-> 8]

\* Faulty variant of MaxQuality: an upper limit below the lower one is kept.
MaxQualityUnordered(min, max) == Clamp(10, 100, max)
MaxQuality(min, max) == Clamp(min, 100, max)

ImageOptions(xml) ==
  LET d   == DefaultImage
      min == Clamp(10, 100, IntMember(xml, "imgMinJpegQuality", 45, d.min)) IN
  [resize   |-> DoubleMember(xml, "imgResizeRate", d.resize, d.resize),
   quality  |-> Clamp(10, 100, IntMember(xml, "imgJpegQuality", 80, d.quality)),
   adaptive |-> BoolMember(xml, "imgAdaptiveQuality", FALSE, d.adaptive),
   min      |-> min,
   max      |-> MaxQuality(min, IntMember(xml, "imgMaxJpegQuality", 90, d.max)),
   target   |-> DoubleMember(xml, "imgTargetBandwidthKbps", 12000, d.target),
   step     |-> AtLeast1(IntMember(xml, "imgQualityStep", 5, d.step)),
   cooldown |-> AtLeast1(IntMember(xml, "imgAdaptCooldownFrames", 8, d.cooldown))]

DefaultCloud == [compress |-> FALSE, downsample |-> -10, codec |-> "raw"]
LeafSize(leaf) == IF leaf \in 1..100000 THEN leaf ELSE -10
DefaultCodec(compress) == IF compress THEN "pcl_octree" ELSE "raw"
CloudOptions(xml) ==
  LET compress == BoolMember(xml, "cloudCompress", FALSE, FALSE) IN
  [compress   |-> compress,
   downsample |-> LeafSize(DoubleMember(xml, "cloudDownsample", -10, -10)),
   codec      |-> StringMember(xml, "cloudCodec", "raw", DefaultCodec(compress))]

Rate(xml)         == DoubleMember(xml, "max_freq", 100, 100)
Prefixed(xml)     == BoolMember(xml, "prefix", TRUE, TRUE)
SamePrefixed(xml) == BoolMember(xml, "same_prefix", FALSE, FALSE)
HasIds(type)      == type \in DirectedTypes

\* One entry of topics, as the second half of getHostTopicAndTransportConfig reads it.
ReadTopic(xml, hosts) ==
  [name        |-> xml.topic_name,
   wire        |-> xml.topic_name,
   type        |-> xml.msg_type,
   qos         |-> xml.qos_class,
   max_freq    |-> Rate(xml),
   prefix      |-> Prefixed(xml),
   same_prefix |-> SamePrefixed(xml),
   src         |-> Expand(xml.srcIP, hosts),
   dst         |-> Expand(xml.dstIP, hosts),
   image       |-> IF xml.msg_type = Image THEN ImageOptions(xml) ELSE DefaultImage,
   cloud       |-> IF xml.msg_type = Cloud THEN CloudOptions(xml) ELSE DefaultCloud,
   dynamic_dst |-> HasIds(xml.msg_type)]

\* None of the checks of an entry throws.
TopicValid(xml, hosts) ==
  /\ StartsWithSlash(xml.topic_name)
  /\ Has(xml, "qos_class") /\ xml.qos_class \in {"command", "state", "bulk"}
  /\ SelectionKnown(xml.srcIP, hosts) /\ SelectionKnown(xml.dstIP, hosts)
  /\ xml.msg_type = Cloud /\ CloudOptions(xml).compress =>
       CloudOptions(xml).codec \in {"draco", "pcl_octree"}

\* A test of the text's prefix in the code; in the names considered here "drone_{id}" is a
\* whole segment wherever it is that prefix.
HasIdPrefix(name) == Len(name) > 1 /\ name[1] = "" /\ name[2] = "drone_{id}"
WithId(name, text) == IF HasIdPrefix(name) THEN [name EXCEPT ![2] = text] ELSE name
Below(prefix, name) == <<"", prefix>> \o Tail(name)
-----------------------------------------------------------------------------
(* Key expressions (bridge_transport.cpp)                                  *)

\* The texts between the slashes that are not empty, in their order.
Kept(name) == {i \in DOMAIN name : name[i] # ""}
Rank(name, i) == Cardinality({j \in Kept(name) : j <= i})
NormalizeRosName(name) ==
  [k \in 1..Cardinality(Kept(name)) |-> name[CHOOSE i \in Kept(name) : Rank(name, i) = k]]

TopicFanoutKey(source, name)   == <<"topic", source, "fanout">> \o NormalizeRosName(name)
TopicDirectedKey(source, destination, name) ==
  <<"topic", source, "dst", destination>> \o NormalizeRosName(name)
ServiceKey(server, name)       == <<"service", server>> \o NormalizeRosName(name)

\* Zenoh's matching of a key with an expression, where "*" stands for one chunk (external).
Matches(key, expression) ==
  /\ Len(key) = Len(expression)
  /\ \A i \in DOMAIN key : expression[i] \in {"*", key[i]}
-----------------------------------------------------------------------------
(* The terminal UI's reading of the same parameters (ConfigLoader)         *)

GetIntMember(xml, m, fallback) ==
  IF Has(xml, m) /\ xml[m].type = "int" THEN xml[m].v ELSE fallback
GetBoolMember(xml, m, fallback) == IF Has(xml, m) THEN xml[m].v ELSE fallback
\* The casts to bool and to string throw on any other type.
Typed(xml, type, members) == \A m \in members \cap DOMAIN xml : xml[m].type = type

\* LoadTopicRules for one entry; the other image options are read as imgJpegQuality is.
LoadTopicRule(xml) ==
  [topic_name |-> xml.topic_name,
   msg_type   |-> xml.msg_type,
   src_hosts  |-> IF xml.srcIP.type = "array" THEN xml.srcIP.v ELSE <<>>,
   dst_hosts  |-> IF xml.dstIP.type = "array" THEN xml.dstIP.v ELSE <<>>,
   qos_class  |-> IF Has(xml, "qos_class") THEN xml.qos_class ELSE "state",
   max_freq    |-> Rate(xml),
   prefix      |-> GetBoolMember(xml, "prefix", TRUE),
   same_prefix |-> GetBoolMember(xml, "same_prefix", FALSE),
   quality     |-> GetIntMember(xml, "imgJpegQuality", 80),
   codec       |-> IF Has(xml, "cloudCodec") THEN xml.cloudCodec.v
                   ELSE DefaultCodec(GetBoolMember(xml, "cloudCompress", FALSE))]

\* LoadFromRosParams gets through: none of its casts throws.
MonitorLoads(zenoh, rules, services) ==
  /\ Typed(zenoh, "bool", {"multicast_scouting", "gossip_scouting", "compression_enabled"})
  /\ Typed(zenoh, "string", {"mode", "multicast_address"})
  /\ \A kind \in {"image_session", "cloud_session"} \cap DOMAIN zenoh :
       /\ Typed(zenoh[kind], "bool", {"enabled"})
       /\ kind = "cloud_session" => Typed(zenoh[kind], "string", {"multicast_address"})
  /\ \A x \in Range(rules) :
       /\ Typed(x, "bool", {"prefix", "same_prefix", "cloudCompress", "imgAdaptiveQuality"})
       /\ Typed(x, "string", {"cloudCodec"})
  /\ \A x \in Range(services) : Typed(x, "bool", {"prefix"})

\* Whether the monitor takes a side session for enabled, and the label it then shows.
MonitorEnabled(zenoh, kind) == Has(zenoh, kind) /\ GetBoolMember(zenoh[kind], "enabled", FALSE)
TransportLabel(zenoh, type) ==
  CASE MonitorEnabled(zenoh, "image_session") /\ type = Image -> "image"
    [] MonitorEnabled(zenoh, "cloud_session") /\ type = Cloud -> "cloud"
    [] OTHER -> "control"

\* Faulty variant of TopicAliases: the host prefix wins over the shared one.
TopicAliasesPrefixFirst(rule) ==
  {rule.topic_name} \cup
  IF rule.prefix THEN {Below(h, rule.topic_name) : h \in Range(rule.src_hosts)}
  ELSE IF rule.same_prefix THEN {Below("bridge", rule.topic_name)}
  ELSE {}

\* The names under which the topic screen looks for the rows of a rule.
TopicAliases(rule) ==
  {rule.topic_name} \cup
  IF rule.same_prefix THEN {Below("bridge", rule.topic_name)}
  ELSE IF rule.prefix THEN {Below(h, rule.topic_name) : h \in Range(rule.src_hosts)}
  ELSE {}
=============================================================================
