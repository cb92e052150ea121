---------------------------- MODULE NodePresence ----------------------------
(***************************************************************************)
(* The control session of one bridge and what it knows of the other hosts: *)
(* the liveliness subscriber and token that the Impl constructor declares, *)
(* the presence map its callback maintains, and the link state that        *)
(* GetStats samples.                                                       *)
(*                                                                         *)
(* Zenoh itself is external: the samples of one key arrive in order, a     *)
(* sample may be repeated (the answer to the history query and the live    *)
(* declaration of one token both arrive), and a DELETE is sent when the    *)
(* last token of the key is gone.                                          *)
(***************************************************************************)
EXTENDS Integers, Sequences

CONSTANTS
  Self,      \* hostname of this bridge
  Peers,     \* the other hosts that may come and go
  MaxUps,    \* bound: times a token is declared in one life of the session
  MaxWire    \* bound: samples of one key in flight

ASSUME PresenceAssumption ==
  /\ Self \notin Peers
  /\ MaxUps \in Nat
  /\ MaxWire \in Nat \ {0}

VARIABLES
  alive,     \* [Everyone -> BOOLEAN]: the host's token exists and is reachable
  ups,       \* [Everyone -> Nat]: tokens declared since this session was opened
  linkups,   \* times the session gained a first link since it was opened
  wire,      \* [Everyone -> Seq(Sample)]: liveliness samples in flight
  open,      \* the session is open
  presence,  \* [Everyone -> PresenceRecord]: presence_
  link       \* last_link_connected_, ever_link_connected_, reconnect_count_

env == <<alive, ups, linkups>>
pvars == <<alive, ups, linkups, wire, open, presence, link>>

Everyone == Peers \cup {Self}

\* `up` numbers the declaration a sample is about.
Sample == [put : BOOLEAN, up : Nat]
PresenceRecord == [seen : BOOLEAN, online : BOOLEAN, transitions : Nat]
NoRecord == [seen |-> FALSE, online |-> FALSE, transitions |-> 0]
NoLink == [last |-> FALSE, ever |-> FALSE, reconnects |-> 0]

\* get_peers_z_id or get_routers_z_id is not empty.
LinkConnected == \E p \in Peers : alive[p]

PresenceInit ==
  /\ alive = [h \in Everyone |-> FALSE]
  /\ ups = [h \in Everyone |-> 0]
  /\ linkups = 0
  /\ wire = [h \in Everyone |-> <<>>]
  /\ open = FALSE
  /\ presence = [h \in Everyone |-> NoRecord]
  /\ link = NoLink

----------------------------------------------------------------------------
(* The session.                                                            *)

\* Faulty: every event counts, so that a repeated PUT is taken for another arrival.
UpdatedEveryPut(r, online) ==
  [seen |-> TRUE, online |-> online,
   transitions |-> IF online THEN r.transitions + 1 ELSE r.transitions]

\* UpdatePresence: the record after an event, a first one included.
Updated(r, online) ==
  IF r.seen /\ r.online = online
  THEN r
  ELSE [seen |-> TRUE, online |-> online,
        transitions |-> IF online THEN r.transitions + 1 ELSE r.transitions]

\* Faulty: the subscriber is declared without history.
OpenSessionNoHistory ==
  /\ ~open
  /\ open' = TRUE
  /\ alive' = [alive EXCEPT ![Self] = TRUE]
  /\ ups' = [h \in Everyone |-> IF alive'[h] THEN 1 ELSE 0]
  /\ linkups' = IF LinkConnected THEN 1 ELSE 0
  /\ presence' = [presence EXCEPT ![Self] = Updated(NoRecord, TRUE)]
  /\ UNCHANGED <<wire, link>>

\* The constructor: subscriber with history, own record, own token.
OpenSession ==
  /\ ~open
  /\ open' = TRUE
  /\ alive' = [alive EXCEPT ![Self] = TRUE]
  /\ ups' = [h \in Everyone |-> IF alive'[h] THEN 1 ELSE 0]
  /\ linkups' = IF LinkConnected THEN 1 ELSE 0
  /\ wire' = [h \in Everyone |->
                IF alive'[h] THEN <<[put |-> TRUE, up |-> 1]>> ELSE <<>>]
  /\ presence' = [presence EXCEPT ![Self] = Updated(NoRecord, TRUE)]
  /\ UNCHANGED link

\* Close, or the death of the process: the session object and all it holds go.
CloseSession ==
  /\ open
  /\ open' = FALSE
  /\ alive' = [alive EXCEPT ![Self] = FALSE]
  /\ ups' = [h \in Everyone |-> 0]
  /\ linkups' = 0
  /\ wire' = [h \in Everyone |-> <<>>]
  /\ presence' = [h \in Everyone |-> NoRecord]
  /\ link' = NoLink

\* The callback of the liveliness subscriber.
OnLiveliness(h) ==
  /\ open
  /\ wire[h] # <<>>
  /\ presence' = [presence EXCEPT ![h] = Updated(presence[h], Head(wire[h]).put)]
  /\ wire' = [wire EXCEPT ![h] = Tail(wire[h])]
  /\ UNCHANGED <<env, open, link>>

\* Faulty: the first link counts as a reconnect.
SampledCountFirst(l, connected) ==
  [last |-> connected,
   ever |-> l.ever \/ connected,
   reconnects |-> IF connected /\ ~l.last THEN l.reconnects + 1 ELSE l.reconnects]

\* The state kept by Stats: a reconnect is a link seen up after it was seen down.
Sampled(l, connected) ==
  [last |-> connected,
   ever |-> l.ever \/ connected,
   reconnects |-> IF connected /\ ~l.last /\ l.ever
                  THEN l.reconnects + 1 ELSE l.reconnects]

GetStats ==
  /\ open
  /\ link' = Sampled(link, LinkConnected)
  /\ UNCHANGED <<env, wire, open, presence>>

----------------------------------------------------------------------------
(* The other hosts and the network (external).                             *)

Send(h, put) ==
  wire' = IF open THEN [wire EXCEPT ![h] = Append(wire[h], [put |-> put, up |-> ups'[h]])]
                  ELSE wire

\* The bridge of p starts, or the link to it comes up.
Appear(p) ==
  /\ ~alive[p] /\ ups[p] < MaxUps /\ Len(wire[p]) < MaxWire
  /\ alive' = [alive EXCEPT ![p] = TRUE]
  /\ ups' = IF open THEN [ups EXCEPT ![p] = ups[p] + 1] ELSE ups
  /\ linkups' = IF open /\ ~LinkConnected THEN linkups + 1 ELSE linkups
  /\ Send(p, TRUE)
  /\ UNCHANGED <<open, presence, link>>

\* The bridge of p stops or dies, or the link to it is lost.
Vanish(p) ==
  /\ alive[p] /\ Len(wire[p]) < MaxWire
  /\ alive' = [alive EXCEPT ![p] = FALSE]
  /\ UNCHANGED <<ups, linkups, open, presence, link>>
  /\ Send(p, FALSE)

\* The latest sample of h arrives once more.
Repeat(h) ==
  /\ open /\ Len(wire[h]) < MaxWire
  /\ presence[h].seen \/ wire[h] # <<>>
  /\ UNCHANGED <<env, open, presence, link>>
  /\ Send(h, alive[h])

PresenceNext ==
  \/ OpenSession \/ CloseSession \/ GetStats
  \/ \E h \in Everyone : OnLiveliness(h) \/ Repeat(h)
  \/ \E p \in Peers : Appear(p) \/ Vanish(p)

PresenceSpec == PresenceInit /\ [][PresenceNext]_pvars

----------------------------------------------------------------------------
(* What the session promises.                                              *)

\* Once the samples of a host have all been delivered, presence_ says whether its
\* token exists, and online_transitions is the number of times it was declared since
\* the session was opened: neither a repeated sample nor a host that flaps while its
\* samples are in flight leaves the record wrong.
PresenceExact ==
  open => \A h \in Everyone : wire[h] = <<>> =>
            /\ presence[h].online = alive[h]
            /\ presence[h].transitions = ups[h]

\* reconnect_count never exceeds the times the session really got a link back: what
\* the once-a-second sampling of Stats misses is not counted, and nothing is invented.
ReconnectsReal ==
  link.reconnects + (IF link.ever THEN 1 ELSE 0) <= linkups

StatusOf(r) ==
  IF ~r.seen THEN "UNKNOWN" ELSE IF r.online THEN "ONLINE" ELSE "OFFLINE"

\* Delivering the samples in flight will change the record of h, if only for a moment.
Unsettled(h) ==
  /\ wire[h] # <<>>
  /\ \/ ~presence[h].seen \/ presence[h].online # alive[h]
     \/ \E i \in DOMAIN wire[h] : wire[h][i].put # alive[h]

Host == INSTANCE HostPresence WITH
  alive <- [p \in Peers |-> alive[p]],
  status <- [p \in Peers |-> StatusOf(presence[p])],
  pending <- [p \in Peers |-> Unsettled(p)]

\* A user of the session sees the status of HostPresence: late while a change is on its
\* way, the truth after that however samples were repeated, and forgotten when the
\* session is closed.
ImplementsHostPresence == Host!HostSpec

============================================================================
