---------------------------- MODULE MonitorProofs ----------------------------
(***************************************************************************)
(* For every set of hosts, every configuration and every freshness limit:  *)
(* a frame of the terminal UI never presents an expired report as current, *)
(* although its reads of the cache are separate steps.                     *)
(***************************************************************************)
EXTENDS Monitor, FiniteSetTheorems, SequenceTheorems, TLAPS

Everyone == Peers \cup {Self}
RowMaps == UNION {[D -> Statuses] : D \in SUBSET Everyone}
Report == [nodes : RowMaps, bad : BOOLEAN]

Kinds == {"has", "fresh", "stats", "nodes", "topic", "row", "detail",
          "label fresh", "label has"}
Reads == Kinds \X Everyone
Values == BOOLEAN \cup Statuses \cup RowMaps
Answers == Kinds \X Everyone \X Values

TypeInv ==
  /\ status \in [Peers -> Statuses]
  /\ reports \in Seq(Report)
  /\ cache \in [nodes : RowMaps, bad : BOOLEAN, has : BOOLEAN, age : Nat]
  /\ view \in [tab : Tabs, help : BOOLEAN, quit : BOOLEAN, running : BOOLEAN]
  /\ frame \in [todo : Seq(Reads), got : Seq(Answers), live : BOOLEAN]

\* A read of this kind is among the reads or answers in s.
Occurs(kind, s) == \E i \in DOMAIN s : s[i][1] = kind

\* The reads without which the picture of a tab would be undefined.
Needed(tab) ==
  {"label fresh"} \cup (IF tab = "Overview" THEN {"fresh"} ELSE {})
                  \cup (IF tab = "Topics" THEN {"topic"} ELSE {})

\* The answer a claims nothing that only a fresh report could support.
Modest(a) ==
  /\ a[1] \in {"fresh", "label fresh", "topic"} => a[3] = FALSE
  /\ a[1] \in {"row", "detail"} => a[3] = "UNKNOWN"

\* While a frame is drawn, each read it needs is made or still to be made, and as long as
\* no report was fresh since it was begun, none is fresh now and no answer claims one.
FrameInv ==
  frame.todo # <<>> =>
    /\ \A kind \in Needed(view.tab) : Occurs(kind, frame.todo) \/ Occurs(kind, frame.got)
    /\ ~frame.live => /\ ~IsFresh
                      /\ \A i \in DOMAIN frame.got : Modest(frame.got[i])

\* The picture s claims to be current only if a report was fresh while it was drawn.
Current(s) ==
  ~s.live =>
    /\ s.label # "LIVE" /\ s.bridge \notin {"STABLE", "ATTN"}
    /\ s.detail = "UNKNOWN" /\ ~s.topic
    /\ \A h \in DOMAIN s.status : s.status[h] = "UNKNOWN"

MonitorInv == TypeInv /\ FrameInv /\ Current(shown)

-----------------------------------------------------------------------------
(* The reads of a frame.                                                   *)

\* The hosts of a set in some order: what SetToSeq returns for a finite set.
LEMMA SetToSeqType ==
  ASSUME NEW S, IsFiniteSet(S)
  PROVE  SetToSeq(S) \in Seq(S)
<1>1. Cardinality(S) \in Nat /\ ExistsBijection(1..Cardinality(S), S)
  BY FS_CardinalityType
<1>2. PICK f \in [1..Cardinality(S) -> S] :
        \A a, b \in 1..Cardinality(S) : f[a] = f[b] => a = b
  BY <1>1 DEF ExistsBijection, Bijection, Injection, IsInjective
<1>3. IsInjective(f)
  BY <1>2 DEF IsInjective
<1>4. SetToSeq(S) \in [1..Cardinality(S) -> S]
  BY <1>2, <1>3 DEF SetToSeq
<1> QED
  BY <1>1, <1>4

LEMMA HostEntriesFinite ==
  ASSUME TypeInv
  PROVE  IsFiniteSet(HostEntries) /\ HostEntries \subseteq Everyone
<1>1. IsFiniteSet(Everyone)
  BY MonitorAssumption, FS_AddElement DEF Everyone
<1>2. DOMAIN cache.nodes \subseteq Everyone
  BY DEF TypeInv, RowMaps
<1>3. HostEntries \subseteq Everyone
  BY <1>2, MonitorAssumption DEF HostEntries, Everyone
<1> QED
  BY <1>1, <1>3, FS_Subset

LEMMA RowsType ==
  ASSUME NEW S \in SUBSET Everyone, NEW hosts \in Seq(S)
  PROVE  Rows(hosts) \in Seq(Reads)
<1>1. \A h \in Everyone : <<"row", h>> \in Reads
  BY DEF Reads, Kinds
<1>2. Rows(hosts) = [i \in 1..Len(hosts) |-> <<"row", hosts[i]>>]
  BY DEF Rows
<1>3. PICK n \in Nat : n = Len(hosts)
  OBVIOUS
<1>4. \A i \in 1..n : hosts[i] \in Everyone
  BY <1>3
<1>5. \A i \in 1..n : <<"row", hosts[i]>> \in Reads
  BY <1>1, <1>4
<1>6. Rows(hosts) \in [1..n -> Reads]
  BY <1>2, <1>3, <1>5
<1> QED
  BY <1>6

LEMMA OneRead ==
  ASSUME NEW kind \in Kinds
  PROVE  Read(kind) \in Seq(Reads) /\ Occurs(kind, Read(kind))
<1>1. <<kind, Self>> \in Reads
  BY DEF Reads, Everyone
<1>2. Read(kind) \in Seq(Reads)
  BY <1>1 DEF Read
<1>3. 1 \in DOMAIN Read(kind) /\ Read(kind)[1][1] = kind
  BY DEF Read
<1> QED
  BY <1>2, <1>3 DEF Occurs

\* A read is among those of a concatenation when it is among those of a part.
LEMMA OccursConcat ==
  ASSUME NEW A, NEW s \in Seq(A), NEW t \in Seq(A), NEW kind
  PROVE  /\ s \o t \in Seq(A)
         /\ Occurs(kind, s) => Occurs(kind, s \o t)
         /\ Occurs(kind, t) => Occurs(kind, s \o t)
<1>1. s \o t \in Seq(A) /\ Len(s \o t) = Len(s) + Len(t)
  OBVIOUS
<1>2. ASSUME Occurs(kind, s) PROVE Occurs(kind, s \o t)
  <2>1. PICK i \in DOMAIN s : s[i][1] = kind
    BY <1>2 DEF Occurs
  <2>2. i \in DOMAIN (s \o t) /\ (s \o t)[i] = s[i]
    OBVIOUS
  <2> QED
    BY <2>1, <2>2 DEF Occurs
<1>3. ASSUME Occurs(kind, t) PROVE Occurs(kind, s \o t)
  <2>1. PICK i \in DOMAIN t : t[i][1] = kind
    BY <1>3 DEF Occurs
  <2>2. Len(s) + i \in DOMAIN (s \o t) /\ (s \o t)[Len(s) + i] = t[i]
    OBVIOUS
  <2> QED
    BY <2>1, <2>2 DEF Occurs
<1> QED
  BY <1>1, <1>2, <1>3

\* The script of a tab consists of reads, the needed ones among them.
LEMMA ScriptReads ==
  ASSUME TypeInv, NEW tab \in Tabs, NEW script \in Scripts(tab)
  PROVE  /\ script \in Seq(Reads)
         /\ \A kind \in Needed(tab) : Occurs(kind, script)
<1> DEFINE Bodies ==
      CASE tab = "Overview" ->
             {Read("has") \o Read("fresh") \o Read("stats") \o Read("nodes")}
        [] tab = "Hosts" ->
             {d \o Rows(SetToSeq(HostEntries)) : d \in Details(HostEntries)}
        [] tab = "Topics" -> {Read("topic")}
        [] OTHER -> {<<>>}
<1>1. PICK body \in Bodies :
        script = body \o Read("label fresh") \o Read("label has")
  BY DEF Scripts
<1>2. body \in Seq(Reads) /\ \A kind \in Needed(tab) \ {"label fresh"} : Occurs(kind, body)
  <2>1. CASE tab = "Overview"
    <3>1. body = Read("has") \o Read("fresh") \o Read("stats") \o Read("nodes")
      BY <1>1, <2>1
    <3>2. /\ Read("has") \in Seq(Reads) /\ Read("fresh") \in Seq(Reads)
          /\ Read("stats") \in Seq(Reads) /\ Read("nodes") \in Seq(Reads)
          /\ Occurs("fresh", Read("fresh"))
      BY OneRead DEF Kinds
    <3>3. /\ Read("has") \o Read("fresh") \in Seq(Reads)
          /\ Occurs("fresh", Read("has") \o Read("fresh"))
      BY <3>2, OccursConcat
    <3>4. /\ (Read("has") \o Read("fresh")) \o Read("stats") \in Seq(Reads)
          /\ Occurs("fresh", (Read("has") \o Read("fresh")) \o Read("stats"))
      BY <3>2, <3>3, OccursConcat
    <3>5. body \in Seq(Reads) /\ Occurs("fresh", body)
      BY <3>1, <3>2, <3>4, OccursConcat
    <3> QED
      BY <2>1, <3>5 DEF Needed
  <2>2. CASE tab = "Hosts"
    <3>1. PICK d \in Details(HostEntries) : body = d \o Rows(SetToSeq(HostEntries))
      BY <1>1, <2>2
    <3>2. HostEntries \subseteq Everyone /\ IsFiniteSet(HostEntries)
      BY HostEntriesFinite
    <3>3. d \in Seq(Reads)
      <4>1. CASE HostEntries = {}
        BY <4>1 DEF Details
      <4>2. CASE HostEntries # {}
        <5>1. PICK h \in HostEntries : d = <<<<"detail", h>>>>
          BY <4>2 DEF Details
        <5>2. <<"detail", h>> \in Reads
          BY <3>2 DEF Reads, Kinds
        <5> QED
          BY <5>1, <5>2
      <4> QED
        BY <4>1, <4>2
    <3>4. Rows(SetToSeq(HostEntries)) \in Seq(Reads)
      BY <3>2, SetToSeqType, RowsType
    <3>5. body \in Seq(Reads)
      BY <3>1, <3>3, <3>4, OccursConcat
    <3> QED
      BY <2>2, <3>5 DEF Needed
  <2>3. CASE tab = "Topics"
    <3>1. body = Read("topic")
      BY <1>1, <2>3
    <3>2. body \in Seq(Reads) /\ Occurs("topic", body)
      BY <3>1, OneRead DEF Kinds
    <3> QED
      BY <2>3, <3>2 DEF Needed
  <2>4. CASE tab \notin {"Overview", "Hosts", "Topics"}
    <3>1. body = <<>>
      BY <1>1, <2>4
    <3>2. body \in Seq(Reads)
      BY <3>1
    <3>3. Needed(tab) \ {"label fresh"} = {}
      BY <2>4 DEF Needed
    <3> QED
      BY <3>2, <3>3
  <2> QED
    BY <2>1, <2>2, <2>3, <2>4
<1>3. /\ Read("label fresh") \in Seq(Reads) /\ Read("label has") \in Seq(Reads)
      /\ Occurs("label fresh", Read("label fresh"))
  BY OneRead DEF Kinds
<1> DEFINE most == body \o Read("label fresh")
<1>4. most \in Seq(Reads) /\ \A kind \in Needed(tab) : Occurs(kind, most)
  <2>1. most \in Seq(Reads) /\ Occurs("label fresh", most)
    BY <1>2, <1>3, OccursConcat
  <2>2. \A kind \in Needed(tab) \ {"label fresh"} : Occurs(kind, most)
    BY <1>2, <1>3, OccursConcat
  <2> QED
    BY <2>1, <2>2
<1>5. script = most \o Read("label has")
  BY <1>1
<1> HIDE DEF most
<1> QED
  BY <1>3, <1>4, <1>5, OccursConcat

-----------------------------------------------------------------------------
(* The picture.                                                            *)

\* An answer of a kind that was read is one of the answers of that kind.
LEMMA GotIsAnswer ==
  ASSUME NEW got, NEW kind, Occurs(kind, got)
  PROVE  \E i \in DOMAIN got : got[i][1] = kind /\ Got(got, kind) = got[i][3]
<1> DEFINE i == CHOOSE i \in DOMAIN got : got[i][1] = kind
<1>1. i \in DOMAIN got /\ got[i][1] = kind
  BY DEF Occurs
<1>2. Got(got, kind) = got[i][3]
  BY DEF Got
<1> QED
  BY <1>1, <1>2

\* The same for the answers of one kind about each host.
LEMMA GotAllAreAnswers ==
  ASSUME NEW got, NEW kind, NEW h \in DOMAIN GotAll(got, kind)
  PROVE  \E i \in DOMAIN got : got[i][1] = kind /\ GotAll(got, kind)[h] = got[i][3]
<1> DEFINE i == CHOOSE i \in DOMAIN got : got[i][1] = kind /\ got[i][2] = h
           D == {got[j][2] : j \in {j \in DOMAIN got : got[j][1] = kind}}
<1>1. h \in D
  BY DEF GotAll
<1>2. \E j \in DOMAIN got : got[j][1] = kind /\ got[j][2] = h
  BY <1>1
<1>3. i \in DOMAIN got /\ got[i][1] = kind
  BY <1>2
<1>4. GotAll(got, kind)[h] = got[i][3]
  BY <1>1 DEF GotAll
<1> QED
  BY <1>3, <1>4

\* What is got from modest answers.
LEMMA GotIsModest ==
  ASSUME NEW got, \A i \in DOMAIN got : Modest(got[i])
  PROVE  /\ \A kind \in {"fresh", "label fresh", "topic"} :
              Occurs(kind, got) => Got(got, kind) = FALSE
         /\ Occurs("detail", got) => Got(got, "detail") = "UNKNOWN"
         /\ \A h \in DOMAIN GotAll(got, "row") : GotAll(got, "row")[h] = "UNKNOWN"
<1>1. ASSUME NEW kind \in {"fresh", "label fresh", "topic"}, Occurs(kind, got)
      PROVE  Got(got, kind) = FALSE
  <2>1. PICK i \in DOMAIN got : got[i][1] = kind /\ Got(got, kind) = got[i][3]
    BY <1>1, GotIsAnswer, ZenonT(60)
  <2>2. Modest(got[i])
    OBVIOUS
  <2>3. got[i][1] \in {"fresh", "label fresh", "topic"}
    BY <2>1
  <2>4. got[i][3] = FALSE
    BY <2>2, <2>3, Zenon DEF Modest
  <2> QED
    BY <2>1, <2>4, Zenon
<1>2. ASSUME Occurs("detail", got) PROVE Got(got, "detail") = "UNKNOWN"
  <2>1. PICK i \in DOMAIN got : got[i][1] = "detail" /\ Got(got, "detail") = got[i][3]
    BY <1>2, GotIsAnswer
  <2>2. Modest(got[i])
    OBVIOUS
  <2> QED
    BY <2>1, <2>2 DEF Modest
<1>3. ASSUME NEW h \in DOMAIN GotAll(got, "row") PROVE GotAll(got, "row")[h] = "UNKNOWN"
  <2>1. PICK i \in DOMAIN got : got[i][1] = "row" /\ GotAll(got, "row")[h] = got[i][3]
    BY <1>3, GotAllAreAnswers
  <2>2. Modest(got[i])
    OBVIOUS
  <2> QED
    BY <2>1, <2>2 DEF Modest
<1> QED
  BY <1>1, <1>2, <1>3

\* A picture put together from modest answers claims nothing.
LEMMA ModestPicture ==
  ASSUME NEW tab, NEW got, NEW live \in BOOLEAN,
         \A kind \in Needed(tab) : Occurs(kind, got),
         ~live => \A i \in DOMAIN got : Modest(got[i])
  PROVE  Current(Picture(tab, got, live))
<1> DEFINE s == Picture(tab, got, live)
<1>1. s.live = live
  BY DEF Picture
<1> SUFFICES ASSUME ~live
             PROVE  /\ s.label # "LIVE" /\ s.bridge \notin {"STABLE", "ATTN"}
                    /\ s.detail = "UNKNOWN" /\ ~s.topic
                    /\ \A h \in DOMAIN s.status : s.status[h] = "UNKNOWN"
  BY <1>1 DEF Current
<1>2. \A i \in DOMAIN got : Modest(got[i])
  OBVIOUS
<1>3. s.label # "LIVE"
  <2>1. Occurs("label fresh", got)
    BY DEF Needed
  <2>2. Got(got, "label fresh") = FALSE
    BY <1>2, <2>1, GotIsModest
  <2>3. s.label = HeaderLabel(got)
    BY DEF Picture
  <2> QED
    BY <2>2, <2>3 DEF HeaderLabel
<1>4. tab = "Overview" => Got(got, "fresh") = FALSE
  <2>1. tab = "Overview" => Occurs("fresh", got)
    BY DEF Needed
  <2> QED
    BY <1>2, <2>1, GotIsModest
<1>5. s.bridge \notin {"STABLE", "ATTN"}
  <2>1. s.bridge = IF tab = "Overview" THEN BridgeState(got) ELSE "WAIT"
    BY DEF Picture
  <2> QED
    BY <1>4, <2>1 DEF BridgeState
<1>6. s.detail = "UNKNOWN"
  <2>1. s.detail = IF GotAll(got, "detail") = NoRows THEN "UNKNOWN" ELSE Got(got, "detail")
    BY DEF Picture
  <2>2. CASE ~Occurs("detail", got)
    <3>1. {got[i][2] : i \in {j \in DOMAIN got : got[j][1] = "detail"}} = {}
      BY <2>2 DEF Occurs
    <3>2. GotAll(got, "detail") = NoRows
      BY <3>1 DEF GotAll, NoRows
    <3> QED
      BY <2>1, <3>2
  <2>3. CASE Occurs("detail", got)
    <3>1. Got(got, "detail") = "UNKNOWN"
      BY <1>2, <2>3, GotIsModest
    <3> QED
      BY <2>1, <3>1
  <2> QED
    BY <2>2, <2>3
<1>7. ~s.topic
  <2>1. s.topic = (tab = "Topics" /\ Got(got, "topic"))
    BY DEF Picture
  <2>2. tab = "Topics" => Occurs("topic", got)
    BY DEF Needed
  <2>3. tab = "Topics" => Got(got, "topic") = FALSE
    BY <1>2, <2>2, GotIsModest
  <2> QED
    BY <2>1, <2>3
<1>8. \A h \in DOMAIN s.status : s.status[h] = "UNKNOWN"
  <2>1. CASE tab = "Overview"
    <3>1. s.status = OverviewNodes(got)
      BY <2>1 DEF Picture
    <3> QED
      BY <1>4, <2>1, <3>1 DEF OverviewNodes
  <2>2. CASE tab = "Hosts"
    <3>1. s.status = GotAll(got, "row")
      BY <2>2 DEF Picture
    <3> QED
      BY <1>2, <3>1, GotIsModest
  <2>3. CASE tab \notin {"Overview", "Hosts"}
    <3>1. s.status = NoRows
      BY <2>3 DEF Picture
    <3> QED
      BY <3>1 DEF NoRows
  <2> QED
    BY <2>1, <2>2, <2>3
<1> QED
  BY <1>3, <1>5, <1>6, <1>7, <1>8

\* A read of the cache has a value, and while no report is fresh a modest one.
LEMMA ReadValue ==
  ASSUME TypeInv, NEW read \in Reads
  PROVE  /\ <<read[1], read[2], ReadCache(read)>> \in Answers
         /\ ~IsFresh => Modest(<<read[1], read[2], ReadCache(read)>>)
<1>1. IsFresh \in BOOLEAN /\ LookupTopic \in BOOLEAN /\ (IsFresh /\ cache.bad) \in BOOLEAN
  BY DEF IsFresh, LookupTopic
<1>2. cache.has \in BOOLEAN /\ cache.nodes \in RowMaps
  BY DEF TypeInv
<1>3. LookupNode(read[2]) \in Statuses
  BY <1>2 DEF LookupNode, NodeStatus, RowMaps, Statuses
<1>4. read[1] \in Kinds /\ read[2] \in Everyone
  BY DEF Reads
<1>5. ASSUME NEW v \in Values,
             ~IsFresh => Modest(<<read[1], read[2], v>>),
             ReadCache(read) = v
      PROVE  /\ <<read[1], read[2], ReadCache(read)>> \in Answers
             /\ ~IsFresh => Modest(<<read[1], read[2], ReadCache(read)>>)
  BY <1>4, <1>5 DEF Answers
<1>6. CASE read[1] \in {"has", "label has"}
  <2>1. ReadCache(read) = cache.has
    BY <1>6 DEF ReadCache
  <2>2. Modest(<<read[1], read[2], cache.has>>)
    BY <1>6 DEF Modest
  <2> QED
    BY <1>2, <1>5, <2>1, <2>2 DEF Values
<1>7. CASE read[1] \in {"fresh", "label fresh"}
  <2>1. ReadCache(read) = IsFresh
    BY <1>7 DEF ReadCache
  <2>2. ASSUME ~IsFresh PROVE Modest(<<read[1], read[2], IsFresh>>)
    <3>1. IsFresh = FALSE
      BY <2>2
    <3>2. Modest(<<read[1], read[2], FALSE>>)
      BY <1>7 DEF Modest
    <3> QED
      BY <3>1, <3>2
  <2> QED
    BY <1>1, <1>5, <2>1, <2>2 DEF Values
<1>8. CASE read[1] = "topic"
  <2>1. ReadCache(read) = LookupTopic
    BY <1>8 DEF ReadCache
  <2>2. ~IsFresh => Modest(<<read[1], read[2], LookupTopic>>)
    BY <1>8 DEF Modest, LookupTopic
  <2> QED
    BY <1>1, <1>5, <2>1, <2>2 DEF Values
<1>9. CASE read[1] = "stats"
  <2>1. ReadCache(read) = (IsFresh /\ cache.bad)
    BY <1>9 DEF ReadCache
  <2>2. Modest(<<read[1], read[2], (IsFresh /\ cache.bad)>>)
    BY <1>9 DEF Modest
  <2> QED
    BY <1>1, <1>5, <2>1, <2>2 DEF Values
<1>10. CASE read[1] = "nodes"
  <2>1. ReadCache(read) = cache.nodes
    BY <1>10 DEF ReadCache
  <2>2. Modest(<<read[1], read[2], cache.nodes>>)
    BY <1>10 DEF Modest
  <2> QED
    BY <1>2, <1>5, <2>1, <2>2 DEF Values
<1>11. CASE read[1] \in {"row", "detail"}
  <2>1. ReadCache(read) = LookupNode(read[2])
    BY <1>11 DEF ReadCache
  <2>2. ~IsFresh => Modest(<<read[1], read[2], LookupNode(read[2])>>)
    BY <1>11 DEF Modest, LookupNode
  <2> QED
    BY <1>3, <1>5, <2>1, <2>2 DEF Values
<1> QED
  BY <1>4, <1>6, <1>7, <1>8, <1>9, <1>10, <1>11 DEF Kinds

-----------------------------------------------------------------------------
(* The steps.                                                              *)

LEMMA PresenceRowsType ==
  ASSUME TypeInv
  PROVE  PresenceRows \in RowMaps
<1> DEFINE D == {Self} \cup {p \in Peers : status[p] # "UNKNOWN"}
<1>1. D \in SUBSET Everyone
  BY DEF Everyone
<1>2. PresenceRows \in [D -> Statuses]
  BY DEF PresenceRows, TypeInv, Statuses
<1> QED
  BY <1>1, <1>2 DEF RowMaps

LEMMA InitMonitor == Init => MonitorInv
<1> SUFFICES ASSUME Init PROVE MonitorInv
  OBVIOUS
<1>1. NoRows \in RowMaps
  <2>1. NoRows \in [{} -> Statuses] /\ {} \in SUBSET Everyone
    BY DEF NoRows
  <2> QED
    BY <2>1 DEF RowMaps
<1>2. TypeInv
  <2>1. status \in [Peers -> Statuses]
    BY DEF Init, HostInit, Unknown, Statuses
  <2>2. cache \in [nodes : RowMaps, bad : BOOLEAN, has : BOOLEAN, age : Nat]
    BY <1>1 DEF Init
  <2> QED
    BY <2>1, <2>2, MonitorAssumption DEF Init, TypeInv, Idle
<1>3. FrameInv
  BY DEF Init, FrameInv, Idle
<1>4. Current(shown)
  BY DEF Init, NoFrame, NoRows, Current
<1> QED
  BY <1>2, <1>3, <1>4 DEF MonitorInv

LEMMA SessionStep ==
  ASSUME MonitorInv, Session
  PROVE  MonitorInv'
<1> USE DEF MonitorInv
<1>1. UNCHANGED <<reports, cache, view, frame, shown>>
  BY DEF Session, tui
<1>2. status' \in [Peers -> Statuses]
  <2>1. CASE Open
    BY <2>1 DEF Open, TypeInv
  <2>2. CASE Close
    BY <2>2 DEF Close, Unknown, Statuses
  <2>3. CASE \E p \in Peers : Change(p) \/ Lag(p) \/ Settle(p)
    BY <2>3 DEF Change, Lag, Settle, Truth, TypeInv, Statuses
  <2> QED
    BY <2>1, <2>2, <2>3 DEF Session, HostNext
<1>3. TypeInv'
  BY <1>1, <1>2 DEF TypeInv
<1> QED
  BY <1>1, <1>3 DEF FrameInv, IsFresh

LEMMA PublishStep ==
  ASSUME MonitorInv, NEW bad \in Health, PublishDiagnostics(bad)
  PROVE  MonitorInv'
<1> USE DEF MonitorInv
<1>1. UNCHANGED <<status, cache, view, frame, shown>>
  BY DEF PublishDiagnostics, hvars, tui
<1>2. reports' \in Seq(Report)
  <2> DEFINE report == [nodes |-> PresenceRows, bad |-> bad]
  <2>1. report \in Report
    BY PresenceRowsType, MonitorAssumption DEF Report
  <2>2. PICK queue : queue = Append(reports, report)
    OBVIOUS
  <2>3. queue \in Seq(Report) /\ queue # <<>>
    BY <2>1, <2>2 DEF TypeInv
  <2>4. reports' = queue \/ reports' = Tail(queue)
    BY <2>2 DEF PublishDiagnostics
  <2> QED
    BY <2>3, <2>4
<1>3. TypeInv'
  BY <1>1, <1>2 DEF TypeInv
<1> QED
  BY <1>1, <1>3 DEF FrameInv, IsFresh

LEMMA UpdateStep ==
  ASSUME MonitorInv, Update
  PROVE  MonitorInv'
<1> USE DEF MonitorInv
<1>1. UNCHANGED <<status, view, shown>>
  BY DEF Update, hvars
<1>2. Head(reports) \in Report /\ reports' \in Seq(Report)
  BY DEF Update, TypeInv
<1>3. cache' \in [nodes : RowMaps, bad : BOOLEAN, has : BOOLEAN, age : Nat]
  BY <1>2 DEF Update, Report
<1>4. /\ frame' \in [todo : Seq(Reads), got : Seq(Answers), live : BOOLEAN]
      /\ frame'.todo = frame.todo /\ frame'.got = frame.got
      /\ frame.todo # <<>> => frame'.live
  BY DEF Update, TypeInv
<1>5. TypeInv'
  BY <1>1, <1>2, <1>3, <1>4 DEF TypeInv
<1>6. FrameInv'
  BY <1>1, <1>4 DEF FrameInv
<1> QED
  BY <1>1, <1>5, <1>6

LEMMA TickStep ==
  ASSUME MonitorInv, Tick
  PROVE  MonitorInv'
<1> USE DEF MonitorInv
<1>1. UNCHANGED <<status, reports, view, frame, shown>>
  BY DEF Tick, hvars
<1>2. /\ cache' \in [nodes : RowMaps, bad : BOOLEAN, has : BOOLEAN, age : Nat]
      /\ cache'.has = cache.has /\ cache'.age >= cache.age
  BY DEF Tick, TypeInv
<1>3. TypeInv'
  BY <1>1, <1>2 DEF TypeInv
<1>4. ~IsFresh => ~IsFresh'
  BY <1>2, MonitorAssumption DEF IsFresh, TypeInv
<1>5. FrameInv'
  BY <1>1, <1>4 DEF FrameInv
<1> QED
  BY <1>1, <1>3, <1>5

LEMMA EventStep ==
  ASSUME MonitorInv, NEW event, OnEvent(event)
  PROVE  MonitorInv'
<1> USE DEF MonitorInv
<1>1. UNCHANGED <<status, reports, cache>>
  BY DEF OnEvent, hvars
<1>2. view' \in [tab : Tabs, help : BOOLEAN, quit : BOOLEAN, running : BOOLEAN]
  <2>1. view' = Handle(event)
    BY DEF OnEvent
  <2>2. CASE view.quit
    BY <2>1, <2>2 DEF Handle, TypeInv
  <2>3. CASE ~view.quit /\ view.help
    BY <2>1, <2>3 DEF Handle, TypeInv
  <2>4. CASE ~view.quit /\ ~view.help
    <3>1. \/ view' = [view EXCEPT !.help = TRUE]
          \/ view' = [view EXCEPT !.quit = TRUE]
          \/ event \in Tabs /\ view' = [view EXCEPT !.tab = event]
          \/ view' = view
      BY <2>1, <2>4 DEF Handle
    <3> QED
      BY <3>1 DEF TypeInv
  <2> QED
    BY <2>2, <2>3, <2>4
<1>3. CASE ~view'.running
  <2>1. UNCHANGED <<frame, shown>> /\ frame.todo = <<>>
    BY <1>3 DEF OnEvent
  <2>2. TypeInv'
    BY <1>1, <1>2, <2>1 DEF TypeInv
  <2> QED
    BY <2>1, <2>2 DEF FrameInv
<1>4. CASE view'.running
  <2>1. PICK tab \in Tabs : tab = view'.tab
    BY <1>2
  <2>2. StartFrame(tab)
    BY <1>4, <2>1 DEF OnEvent
  <2>3. PICK script \in Scripts(tab) :
          /\ frame' = [todo |-> script, got |-> <<>>, live |-> IsFresh]
          /\ shown' = NoFrame
    BY <2>2 DEF StartFrame
  <2>4. script \in Seq(Reads) /\ \A kind \in Needed(tab) : Occurs(kind, script)
    BY ScriptReads
  <2>5. /\ frame'.todo = script /\ frame'.got = <<>> /\ frame'.live = IsFresh
        /\ frame' \in [todo : Seq(Reads), got : Seq(Answers), live : BOOLEAN]
    BY <2>3, <2>4 DEF IsFresh
  <2>6. TypeInv'
    BY <1>1, <1>2, <2>5 DEF TypeInv
  <2>7. IsFresh' = IsFresh
    BY <1>1 DEF IsFresh
  <2>8. FrameInv'
    BY <2>1, <2>4, <2>5, <2>7 DEF FrameInv
  <2>9. Current(shown)'
    BY <2>3 DEF NoFrame, NoRows, Current
  <2> QED
    BY <2>6, <2>8, <2>9
<1> QED
  BY <1>3, <1>4

LEMMA DrawStep ==
  ASSUME MonitorInv, Draw
  PROVE  MonitorInv'
<1> USE DEF MonitorInv
<1>1. UNCHANGED <<status, reports, cache, view>> /\ frame.todo # <<>>
  BY DEF Draw, hvars
<1>2. PICK read \in Reads : read = Head(frame.todo)
  BY <1>1 DEF TypeInv
<1>3. PICK answer \in Answers :
        /\ answer = <<read[1], read[2], ReadCache(read)>>
        /\ ~IsFresh => Modest(answer)
  BY ReadValue
<1>4. answer[1] = read[1]
  BY <1>3
<1>5. PICK got \in Seq(Answers) : got = Append(frame.got, answer)
  <2>1. frame.got \in Seq(Answers)
    BY DEF TypeInv
  <2>2. Append(frame.got, answer) \in Seq(Answers)
    BY <2>1, AppendProperties
  <2> QED
    BY <2>2, Zenon
<1>6. \A kind : Occurs(kind, frame.got) \/ read[1] = kind => Occurs(kind, got)
  <2>1. /\ DOMAIN frame.got \subseteq DOMAIN got
        /\ \A i \in DOMAIN frame.got : got[i] = frame.got[i]
        /\ Len(got) \in DOMAIN got /\ got[Len(got)] = answer
    BY <1>5 DEF TypeInv
  <2> QED
    BY <1>4, <2>1 DEF Occurs
<1>7. \A kind : Occurs(kind, frame.todo) => read[1] = kind \/ Occurs(kind, Tail(frame.todo))
  <2> SUFFICES ASSUME NEW kind, NEW i \in DOMAIN frame.todo, frame.todo[i][1] = kind,
                      read[1] # kind
               PROVE  Occurs(kind, Tail(frame.todo))
    BY DEF Occurs
  <2>1. i # 1
    BY <1>1, <1>2 DEF TypeInv
  <2>2. i - 1 \in DOMAIN Tail(frame.todo) /\ Tail(frame.todo)[i - 1] = frame.todo[i]
    BY <1>1, <2>1 DEF TypeInv
  <2> QED
    BY <2>2 DEF Occurs
<1>8. ~frame.live => \A i \in DOMAIN got : Modest(got[i])
  <2> SUFFICES ASSUME ~frame.live, NEW i \in DOMAIN got PROVE Modest(got[i])
    OBVIOUS
  <2>1. /\ Modest(answer)
        /\ \A j \in DOMAIN frame.got : Modest(frame.got[j])
    BY <1>1, <1>3 DEF FrameInv
  <2>2. (i \in DOMAIN frame.got /\ got[i] = frame.got[i]) \/ got[i] = answer
    BY <1>5 DEF TypeInv
  <2> QED
    BY <2>1, <2>2
<1>9. \A kind \in Needed(view.tab) : Occurs(kind, frame.todo) \/ Occurs(kind, frame.got)
  BY <1>1 DEF FrameInv
<1>10. ~frame.live => ~IsFresh
  BY <1>1 DEF FrameInv
<1>11. CASE Len(frame.todo) > 1
  <2>1. frame' = [frame EXCEPT !.todo = Tail(frame.todo), !.got = got] /\ shown' = shown
    BY <1>2, <1>3, <1>5, <1>11 DEF Draw
  <2>2. /\ frame'.todo = Tail(frame.todo) /\ frame'.got = got /\ frame'.live = frame.live
        /\ frame' \in [todo : Seq(Reads), got : Seq(Answers), live : BOOLEAN]
    <3>1. PICK todo \in Seq(Reads) : todo = Tail(frame.todo)
      <4>1. frame.todo \in Seq(Reads)
        BY DEF TypeInv
      <4>2. Tail(frame.todo) \in Seq(Reads)
        BY <1>1, <4>1, HeadTailProperties
      <4> QED
        BY <4>2, Zenon
    <3>2. frame' = [frame EXCEPT !.todo = todo, !.got = got]
      BY <2>1, <3>1
    <3>3. /\ frame'.todo = todo /\ frame'.got = got /\ frame'.live = frame.live
          /\ frame' \in [todo : Seq(Reads), got : Seq(Answers), live : BOOLEAN]
      BY <3>2 DEF TypeInv
    <3> QED
      BY <3>1, <3>3
  <2>3. TypeInv'
    BY <1>1, <2>2 DEF TypeInv
  <2>4. IsFresh' = IsFresh
    BY <1>1 DEF IsFresh
  <2>5. \A kind \in Needed(view.tab) :
          Occurs(kind, Tail(frame.todo)) \/ Occurs(kind, got)
    BY <1>6, <1>7, <1>9
  <2>6. FrameInv'
    BY <1>1, <1>8, <1>10, <2>2, <2>4, <2>5 DEF FrameInv
  <2> QED
    BY <2>1, <2>3, <2>6
<1>12. CASE ~(Len(frame.todo) > 1)
  <2>1. frame' = Idle /\ shown' = Picture(view.tab, got, frame.live)
    BY <1>2, <1>3, <1>5, <1>12 DEF Draw
  <2>2. \A kind : ~Occurs(kind, Tail(frame.todo))
    BY <1>1, <1>12 DEF TypeInv, Occurs
  <2>3. \A kind \in Needed(view.tab) : Occurs(kind, got)
    BY <1>6, <1>7, <1>9, <2>2
  <2>4. frame.live \in BOOLEAN
    BY DEF TypeInv
  <2>5. Current(Picture(view.tab, got, frame.live))
    BY <1>8, <2>3, <2>4, ModestPicture
  <2>6. TypeInv'
    BY <1>1, <2>1 DEF TypeInv, Idle
  <2>7. FrameInv'
    BY <2>1 DEF FrameInv, Idle
  <2> QED
    BY <2>1, <2>5, <2>6, <2>7
<1> QED
  BY <1>11, <1>12

-----------------------------------------------------------------------------
(* The theorems.                                                           *)

\* The inductive invariant: types, and what the reads of a frame under way may claim.
THEOREM MonitorInvariant == Spec => []MonitorInv
<1>1. MonitorInv /\ [Next]_vars => MonitorInv'
  <2> SUFFICES ASSUME MonitorInv, [Next]_vars PROVE MonitorInv'
    OBVIOUS
  <2>1. CASE Session
    BY <2>1, SessionStep
  <2>2. CASE Update
    BY <2>2, UpdateStep
  <2>3. CASE Refresh
    BY <2>3, EventStep DEF Refresh
  <2>4. CASE Draw
    BY <2>4, DrawStep
  <2>5. CASE Tick
    BY <2>5, TickStep
  <2>6. CASE \E bad \in Health : PublishDiagnostics(bad)
    BY <2>6, PublishStep
  <2>7. CASE \E key \in Keys : OnEvent(key)
    BY <2>7, EventStep
  <2>8. CASE UNCHANGED vars
    BY <2>8 DEF vars, hvars, tui, MonitorInv, TypeInv, FrameInv, IsFresh
  <2> QED
    BY <2>1, <2>2, <2>3, <2>4, <2>5, <2>6, <2>7, <2>8 DEF Next
<1> QED
  BY <1>1, InitMonitor, PTL DEF Spec

\* A completed frame shows a host, a topic, the stream or the bridge as current only if
\* some report was fresh while the frame was drawn, wherever between its reads reports
\* arrive or expire.
THEOREM FramesAreCurrent == Spec => []FrameIsCurrent
<1>1. MonitorInv => FrameIsCurrent
  BY DEF MonitorInv, Current, FrameIsCurrent
<1> QED
  BY <1>1, MonitorInvariant, PTL
=============================================================================
