------------------------------ MODULE MCRouting ------------------------------
(***************************************************************************)
(* Small swarms: two drones and a ground station, with the configurations  *)
(* that exercise each part of the parsers.                                 *)
(***************************************************************************)
EXTENDS Routing, TLC

MCHosts == <<"drone1", "drone2", "station">>
MCDroneText == [drone1 |-> "drone_1", drone2 |-> "drone_2", station |-> "drone_-9999"]
Odom == "nav_msgs/Odometry"
Goal == "custom/Goal"
Srv  == "custom/Srv"

Odometry == <<"", "drone_{id}", "odom">>
Camera   == <<"", "camera">>
Camera2  == <<"", "front", "camera", "">>
AddInts  == <<"", "add">>
Reset    == <<"", "reset">>

All    == ArrayV(<<"all">>)
Drones == ArrayV(<<"all_drone">>)
Only(h) == ArrayV(<<h>>)
Pair   == ArrayV(<<"drone1", "drone2">>)
Selections == {All, Drones, Only("station"), Pair}

Rule(name, type, src, dst) ==
  [topic_name |-> name, msg_type |-> type, qos_class |-> "state", srcIP |-> src, dstIP |-> dst]
Service(name, server, clients_) ==
  [srv_name |-> name, srv_type |-> Srv, serverIp |-> server, clientIp |-> clients_]

NoMembers == [m \in {} |-> 0]
Base == [hosts |-> Range(MCHosts), ip |-> NoMembers, debug |-> FALSE, zenoh |-> NoMembers,
         topics |-> <<>>, services |-> <<>>]

\* Every pair of sources and destinations, for plain, {id} and directed topics.
OneRule == {Rule(n, t, s, d) : n \in {Odometry, Camera2}, t \in {Odom, Goal},
                               s \in Selections, d \in Selections}
Unprefixed == {Rule(Camera, Odom, Only("drone1"), All) @@ [prefix |-> BoolV(FALSE)],
               Rule(Camera, Odom, Only("drone1"), All) @@ [same_prefix |-> BoolV(TRUE)],
               Rule(Odometry, Odom, Drones, All) @@ [prefix |-> BoolV(FALSE)],
               Rule(Camera, Odom, Pair, All) @@ [prefix |-> IntV(0)],
               Rule(Camera, Odom, Drones, All) @@ [same_prefix |-> BoolV(TRUE)]}
Refused == {Rule(<<"camera">>, Odom, All, All), Rule(Camera, "custom/Unknown", Pair, All),
            Rule(Camera, Odom, Only("drone7"), All), Rule(Camera, Odom, StringV("all"), All)}

\* A rule next to every other kind of rule.
TwoRules == {<<Rule(Camera, Image, All, All), r>> : r \in {Rule(Odometry, Odom, Drones, All),
                 Rule(Odometry, Goal, Drones, Drones), Rule(Camera2, Cloud, Drones, Only("station"))}}

\* Rules that share a wire name or a sender's name: both directions of one topic, a name that
\* another rule expands to, and a fixed next to a directed topic.
SharedNames ==
  {<<Rule(Camera, Odom, Only("station"), Drones), Rule(Camera, Odom, Pair, Only("station"))>>,
   <<Rule(Odometry, Odom, Drones, All), Rule(<<"", "drone_1", "odom">>, Odom, Only("drone1"), Only("drone2"))>>,
   <<Rule(Camera, Odom, Only("drone1"), Only("station")), Rule(Camera, Goal, Only("drone2"), All)>>}

Quality(q, lo, hi, step) ==
  Rule(Camera, Image, Drones, Only("station")) @@
  [imgJpegQuality |-> q, imgMinJpegQuality |-> lo, imgMaxJpegQuality |-> hi, imgQualityStep |-> step,
   imgAdaptCooldownFrames |-> step]
Qualities == {Quality(IntV(q), lo, IntV(hi), step) : q \in {5, 300}, lo \in {IntV(0), DoubleV(955), StringV("x")},
                                                     hi \in {5, 120}, step \in {IntV(0), DoubleV(24)}}
Clouds == {Rule(Camera, Cloud, Pair, All) @@ m :
             m \in {[cloudCompress |-> BoolV(TRUE)], [cloudCodec |-> StringV("draco")],
                    [cloudCompress |-> BoolV(TRUE), cloudCodec |-> StringV("zip"),
                     cloudDownsample |-> IntV(0)]}}

TopicConfigs ==
  {[Base EXCEPT !.topics = <<r>>] : r \in OneRule \cup Unprefixed \cup Refused \cup Qualities \cup Clouds}
    \cup {[Base EXCEPT !.topics = rs, !.debug = b] : rs \in TwoRules \cup SharedNames, b \in BOOLEAN}

Tcp(port) == [proto |-> "tcp", addr |-> "any", port |-> port]
Udp(port) == [proto |-> "udp", addr |-> "any", port |-> port]
Addresses == [drone1 |-> "a1", drone2 |-> "a2", station |-> "a3"]
On == [enabled |-> BoolV(TRUE)]
Seeded == [seed_from_ip_table |-> BoolV(TRUE)]
SideImage == {On @@ [listen_endpoints |-> ArrayV(<<Udp(ImagePort)>>)] @@ Seeded,
              On @@ [listen_endpoints |-> ArrayV(<<Tcp(ImagePort)>>)], On,
              On @@ [connect_endpoints |-> ArrayV(<<Udp(ImagePort)>>), mode |-> StringV("mesh")],
              [enabled |-> StringV("yes")]}
SideCloud == {On @@ [listen_endpoints |-> ArrayV(<<Tcp(CloudPort)>>)] @@ Seeded, On @@ Seeded,
              On @@ [listen_endpoints |-> ArrayV(<<Tcp(ControlPort)>>)], [enabled |-> BoolV(FALSE)]}
Control == {[listen_endpoints |-> ArrayV(<<Tcp(ControlPort)>>)] @@ Seeded,
            [service_queue_capacity |-> IntV(0), mode |-> StringV("router")],
            [multicast_scouting |-> BoolV(FALSE), connect_endpoints |-> ArrayV(<<Udp(ControlPort)>>)]}
SessionConfigs ==
  {[Base EXCEPT !.ip = Addresses, !.zenoh = c @@ [image_session |-> i, cloud_session |-> d],
                !.topics = <<Rule(Camera, Image, Drones, Only("station")), Rule(Camera2, Cloud, Pair, All)>>] :
     c \in Control, i \in SideImage, d \in SideCloud}

ServiceConfigs ==
  {[Base EXCEPT !.services = <<Service(AddInts, "drone1", c), s>>] :
     c \in {Only("station"), Drones, ArrayV(<<"drone2", "station">>), Only("drone7")},
     s \in {Service(Reset, "drone2", Only("station")),
            Service(Reset, "station", Drones) @@ [prefix |-> BoolV(FALSE)],
            Service(AddInts, "drone2", Only("station")), Service(Reset, "drone9", All), Service(<<"reset">>, "drone1", All)}}

AbsentHost == {[Base EXCEPT !.hosts = {"drone1", "drone2"},
                            !.topics = <<Rule(Camera, Odom, All, All)>>]}

MCConfigs == TopicConfigs \cup SessionConfigs \cup ServiceConfigs \cup AbsentHost

MCKnownTypes == {Odom, Goal, Srv, Image, Cloud}
=============================================================================
