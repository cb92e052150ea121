------------------------------- MODULE Monitor -------------------------------
(***************************************************************************)
(* The way from a host's liveliness token to the operator's screen: the    *)
(* bridge samples its session once a second and publishes a report, the    *)
(* callback of the TUI process replaces its cache with it, and the UI      *)
(* thread draws frame after frame from the cache, one locked read at a     *)
(* time, so that a report or the passing of time can fall between any two  *)
(* reads of one frame.                                                     *)
(*                                                                         *)
(* Time is counted in ticks.  The UI thread completes a frame in every     *)
(* tick (the refresh thread posts an event every 125 ms); nothing is       *)
(* assumed of the punctuality of the diagnostics timer or of ROS.          *)
(***************************************************************************)
EXTENDS HostPresence, Integers, SequencesExt

CONSTANTS
  Self,        \* hostname of the bridge
  Configured,  \* hosts named by ip_map
  Tabs,        \* nav_items
  Health,      \* whether a topic row may be unhealthy
  FreshAge,    \* the 2500 ms of IsFresh, in ticks
  QueueSize    \* capacity of the ROS queue of the diagnostics topic

ASSUME MonitorAssumption ==
  /\ IsFiniteSet(Peers) /\ Self \notin Peers /\ Configured \subseteq Peers \cup {Self}
  /\ "Overview" \in Tabs /\ Health \subseteq BOOLEAN
  /\ FreshAge \in Nat /\ QueueSize \in Nat \ {0}

VARIABLES
  reports,  \* reports on their way to the TUI
  cache,    \* DiagnosticsCache: rows, whether there is any, ticks since Update
  view,     \* ViewState
  frame,    \* the frame being drawn: reads to do, values read
  shown,    \* the frame just completed, until the next one is begun
  drawn     \* a frame was completed in this tick

tui == <<cache, view, frame, shown, drawn>>
vars == <<hvars, reports, tui>>

\* A report holds its presence rows by host, and whether a topic row is unhealthy
\* (stability below 80, or nothing received for 3 s).
NoRows == [h \in {} |-> "UNKNOWN"]
Idle == [todo |-> <<>>, got |-> <<>>, live |-> FALSE]
NoFrame == [label |-> "WAIT", bridge |-> "WAIT",
            status |-> NoRows, detail |-> "UNKNOWN", topic |-> FALSE, live |-> FALSE]

Init ==
  /\ HostInit
  /\ reports = <<>>
  /\ cache = [nodes |-> NoRows, bad |-> FALSE, has |-> FALSE, age |-> 0]
  /\ view = [tab |-> "Overview", help |-> FALSE, quit |-> FALSE, running |-> TRUE]
  /\ frame = Idle
  /\ shown = NoFrame
  /\ drawn = FALSE

----------------------------------------------------------------------------
(* The bridge: publishDiagnostics and the life of the session.             *)

\* Presence: a row for the own host and for every host noticed so far.
PresenceRows ==
  [h \in {Self} \cup {p \in Peers : status[p] # "UNKNOWN"} |->
     IF h = Self THEN "ONLINE" ELSE status[h]]

\* The timer callback publishes; ROS drops the oldest report of a full queue.
PublishDiagnostics(bad) ==
  /\ open
  /\ LET queue == Append(reports, [nodes |-> PresenceRows, bad |-> bad])
     IN reports' = IF Len(queue) > QueueSize THEN Tail(queue) ELSE queue
  /\ UNCHANGED <<hvars, tui>>

\* A step of the session or of the other hosts.
Session == HostNext /\ UNCHANGED <<reports, tui>>

----------------------------------------------------------------------------
(* DiagnosticsCache.                                                       *)

\* Faulty: a report never expires.
IsFreshAlways == cache.has

IsFresh == cache.has /\ cache.age <= FreshAge

\* The subscriber callback: Update replaces every row.
Update ==
  /\ view.running /\ reports # <<>>
  /\ reports' = Tail(reports)
  /\ cache' = [nodes |-> Head(reports).nodes, bad |-> Head(reports).bad,
               has |-> TRUE, age |-> 0]
  /\ frame' = [frame EXCEPT !.live = frame.todo # <<>>]
  /\ UNCHANGED <<hvars, view, shown, drawn>>

NodeStatus(nodes, h) == IF h \in DOMAIN nodes THEN nodes[h] ELSE "UNKNOWN"

\* LookupNode and the status the screens derive from it.
LookupNode(h) ==
  IF IsFresh THEN NodeStatus(cache.nodes, h) ELSE "UNKNOWN"

\* LookupAny and LookupDirected find the row of a bridged topic.
LookupTopic == IsFresh

----------------------------------------------------------------------------
(* The frame: reads of the cache, in the order of the code.                *)

\* BuildHostEntries: the configured hosts and those of the last report.
HostEntries == Configured \cup DOMAIN cache.nodes

Read(kind) == <<<<kind, Self>>>>
Rows(hosts) == [i \in DOMAIN hosts |-> <<"row", hosts[i]>>]

\* The detail is that of the selected entry, which the renderer keeps among the entries
\* it rebuilt.  The counts and the label in the summary of the host screen repeat the
\* reads of its rows and of the header.
Details(hosts) == IF hosts = {} THEN {<<>>} ELSE {<<<<"detail", h>>>> : h \in hosts}

\* RenderOverviewScreen, RenderHostsScreen or RenderTopicsScreen, and then MakeHeader.
Scripts(tab) ==
  {body \o Read("label fresh") \o Read("label has") : body \in
     CASE tab = "Overview" ->
            {Read("has") \o Read("fresh") \o Read("stats") \o Read("nodes")}
       [] tab = "Hosts" ->
            {d \o Rows(SetToSeq(HostEntries)) : d \in Details(HostEntries)}
       [] tab = "Topics" -> {Read("topic")}
       [] OTHER -> {<<>>}}

\* The read of one cache operation, each under the lock of the cache.
ReadCache(read) ==
  CASE read[1] \in {"has", "label has"} -> cache.has
    [] read[1] \in {"fresh", "label fresh"} -> IsFresh
    [] read[1] = "topic" -> LookupTopic
    [] read[1] = "stats" -> IsFresh /\ cache.bad
    [] read[1] = "nodes" -> cache.nodes
    [] OTHER -> LookupNode(read[2])

Got(got, kind) == got[CHOOSE i \in DOMAIN got : got[i][1] = kind][3]
GotAll(got, kind) ==
  [h \in {got[i][2] : i \in {j \in DOMAIN got : got[j][1] = kind}} |->
     got[CHOOSE i \in DOMAIN got : got[i][1] = kind /\ got[i][2] = h][3]]

\* The tile of the overview that names the state of the bridge.
BridgeState(got) ==
  IF ~Got(got, "fresh") THEN IF Got(got, "has") THEN "STALE" ELSE "WAIT"
  ELSE IF Got(got, "stats") THEN "ATTN" ELSE "STABLE"

\* Faulty: observed_nodes holds the rows of the snapshot, whatever their age.
OverviewNodesAnyAge(got) ==
  [h \in Configured \cup DOMAIN Got(got, "nodes") |-> NodeStatus(Got(got, "nodes"), h)]

\* observed_nodes holds the rows of the snapshot only if the report was fresh.
OverviewNodes(got) ==
  [h \in Configured \cup DOMAIN Got(got, "nodes") |->
     IF Got(got, "fresh") THEN NodeStatus(Got(got, "nodes"), h) ELSE "UNKNOWN"]

HeaderLabel(got) ==
  IF Got(got, "label fresh") THEN "LIVE"
  ELSE IF Got(got, "label has") THEN "STALE" ELSE "WAIT"

\* What the operator sees once the last read of the frame is made.
Picture(tab, got, live) ==
  [label |-> HeaderLabel(got),
   bridge |-> IF tab = "Overview" THEN BridgeState(got) ELSE "WAIT",
   status |-> CASE tab = "Overview" -> OverviewNodes(got)
                [] tab = "Hosts" -> GotAll(got, "row")
                [] OTHER -> NoRows,
   topic |-> tab = "Topics" /\ Got(got, "topic"),
   detail |-> IF GotAll(got, "detail") = NoRows THEN "UNKNOWN" ELSE Got(got, "detail"),
   live |-> live]

----------------------------------------------------------------------------
(* The UI thread.                                                          *)

\* The renderer, after an event was handled: the host entries are rebuilt and the
\* reads of the frame begin.
StartFrame(tab) ==
  \E script \in Scripts(tab) :
    /\ frame' = [todo |-> script, got |-> <<>>, live |-> IsFresh]
    /\ shown' = NoFrame

\* The handler given to CatchEvent.  An open quit dialog takes every event, the one
\* of the refresh thread included.
Handle(event) ==
  IF view.quit THEN [view EXCEPT !.quit = FALSE, !.running = event # "q"]
  ELSE IF view.help THEN [view EXCEPT !.help = event \notin {"?", "Escape"}]
  ELSE CASE event = "?" -> [view EXCEPT !.help = TRUE]
         [] event = "q" -> [view EXCEPT !.quit = TRUE]
         [] event \in Tabs -> [view EXCEPT !.tab = event]
         [] OTHER -> view

OnEvent(event) ==
  /\ view.running /\ frame.todo = <<>>
  /\ view' = Handle(event)
  /\ IF view'.running THEN StartFrame(view'.tab) ELSE UNCHANGED <<frame, shown>>
  /\ UNCHANGED <<hvars, reports, cache, drawn>>

\* The event the refresh thread posts.
Refresh == OnEvent("Custom")

\* The next read; the last one completes the frame.
Draw ==
  /\ view.running /\ frame.todo # <<>>
  /\ LET read == Head(frame.todo)
         got == Append(frame.got, <<read[1], read[2], ReadCache(read)>>)
     IN IF Len(frame.todo) > 1
        THEN /\ frame' = [frame EXCEPT !.todo = Tail(frame.todo), !.got = got]
             /\ UNCHANGED <<shown, drawn>>
        ELSE /\ frame' = Idle
             /\ shown' = Picture(view.tab, got, frame.live)
             /\ drawn' = TRUE
  /\ UNCHANGED <<hvars, reports, cache, view>>

\* Time passes; ages are counted up to the value that makes a difference.
Tick ==
  /\ drawn \/ ~view.running
  /\ drawn' = FALSE
  /\ cache' = [cache EXCEPT !.age = IF cache.has /\ cache.age <= FreshAge
                                    THEN cache.age + 1 ELSE cache.age]
  /\ UNCHANGED <<hvars, reports, view, frame, shown>>

Keys == Tabs \cup {"q", "?", "Escape"}

Next ==
  \/ Session \/ Update \/ Refresh \/ Draw \/ Tick
  \/ \E bad \in Health : PublishDiagnostics(bad)
  \/ \E key \in Keys : OnEvent(key)

\* The timer thread, the spinners of both processes, the refresh thread and Zenoh's
\* delivery keep running; the operator and the other hosts need not do anything.
Fairness ==
  /\ WF_vars(Update) /\ WF_vars(Refresh) /\ WF_vars(Draw) /\ WF_vars(Tick)
  /\ WF_vars(\E bad \in Health : PublishDiagnostics(bad))
  /\ \A p \in Peers : WF_vars(Settle(p) /\ UNCHANGED <<reports, tui>>)

Spec == Init /\ [][Next]_vars
FairSpec == Spec /\ Fairness

----------------------------------------------------------------------------
(* What the operator may rely on.                                          *)

Shows(h, st) == h \in DOMAIN shown.status /\ shown.status[h] = st

\* A frame presents a host as ONLINE or OFFLINE, the rates of a topic, the stream as LIVE
\* and the bridge as STABLE or ATTN only if the report it was drawn from was within its 2.5 s at some
\* moment of the drawing: the reads of a frame that straddle the expiry of a report,
\* or the arrival of the next one, never put an expired row on the screen.
FrameIsCurrent ==
  ~shown.live =>
    /\ shown.label # "LIVE" /\ shown.bridge \notin {"STABLE", "ATTN"}
    /\ shown.detail = "UNKNOWN" /\ ~shown.topic
    /\ \A h \in DOMAIN shown.status : shown.status[h] = "UNKNOWN"

\* The screen follows the swarm while the TUI runs.  A host that is gone for good is
\* in the end never shown ONLINE again, whatever the bridge does; when the bridge is
\* gone for good, LIVE and every known status disappear; and a host that is up for
\* good is shown ONLINE again and again.
ScreenFollows ==
  /\ \A p \in Peers : <>[](~alive[p] /\ view.running) => <>[]~Shows(p, "ONLINE")
  /\ <>[](~open /\ view.running) =>
       <>[](/\ shown.label # "LIVE"
            /\ \A h \in Peers \cup {Self} : ~Shows(h, "ONLINE") /\ ~Shows(h, "OFFLINE"))
  /\ \A p \in Peers :
       <>[](open /\ alive[p] /\ view.running /\ view.tab \in {"Overview", "Hosts"})
         => []<>Shows(p, "ONLINE")

============================================================================
