----------------------------- MODULE TopicSender -----------------------------
(***************************************************************************)
(* One sending topic (TopicFactory with send_or_recv_ = SEND): subCallback *)
(* with its rate limit, sequence number, encoding and publication, the     *)
(* sliding window of sent bytes and the JPEG quality that follows it.      *)
(* roscpp runs the callbacks of one subscriber one after the other.  A     *)
(* callback is a step up to the encoding and a step for each publication   *)
(* of its loop; between these the diagnostics timer may prune the window,  *)
(* time passes, and the bridge may exit.                                   *)
(*                                                                         *)
(* Time is in seconds.  The code reads ros::Time::now(), which can be set  *)
(* back: Now runs behind the time that really passed by `skew`.            *)
(***************************************************************************)
EXTENDS Integers, Sequences, FiniteSets

CONSTANTS
  Topics,       \* the topic configurations to consider
  Targets,      \* hosts of dynamic_senders_, for a directed topic
  Unknown,      \* a host named by to_drone_ids that dstIP does not configure
  RateWindow,   \* rate_window_sec
  Sizes,        \* kbit of an encoded message
  Start,        \* ROS time when the sender is built
  MaxTime,      \* bound: seconds that pass
  MaxRollback,  \* bound: by how much the clock is set back in all
  MaxMessages,  \* bound: messages published on the local topic
  MaxTargets    \* bound: length of to_drone_ids

\* interval is 1 / max_freq, 0 for max_freq = -1; target is the bandwidth in kbit/s.
TopicCfg == [interval : Nat, dynamic_dst : BOOLEAN, image : BOOLEAN, adaptive : BOOLEAN,
             quality : Nat, min : Nat, max : Nat, step : Nat \ {0}, cooldown : Nat, target : Nat]

ASSUME SenderAssumption ==
  /\ \A t \in Topics : t \in TopicCfg /\ t.min <= t.max /\ ~(t.dynamic_dst /\ t.image)
  /\ Unknown \notin Targets
  /\ Sizes \subseteq Nat
  /\ {RateWindow, Start, MaxTime, MaxRollback, MaxMessages, MaxTargets} \subseteq Nat
  /\ Start > MaxRollback

VARIABLES
  topic,      \* topic_cfg_, fixed
  elapsed,    \* time that really passed
  skew,       \* how far the ROS clock was set back
  last,       \* sub_last_time_, 0 when it is zero
  sequence,   \* sequence_
  sent,       \* metrics_state_.total_sent
  dropped,    \* metrics_state_.dropped_messages
  recent,     \* metrics_state_.recent_send_bytes
  quality,    \* metrics_state_.current_jpeg_quality
  lastAdapt,  \* metrics_state_.last_adapt_total_sent
  wire,       \* envelopes a publisher has put on the network, oldest first: [to, seq]
  keys,       \* the keys the latest encoded message goes to, in the order of the loop
  at,         \* the position of the loop in keys
  payload,    \* kbit of the encoded message
  messages,   \* history: messages published on the local topic
  turnedAway, \* history: those of this life that were held back or not encoded
  asked,      \* history: publications that the encoded messages of this life call for
  published,  \* history: envelopes that this life has put on the network
  refused,    \* history: positions of keys at which Publish failed
  lastPass,   \* history: when a message last passed the rate limit, -1 before
  log,        \* history: when each message was sent, by real time, and the skew then
  pruned      \* history: when the window was last pruned

metricVars  == <<sent, recent, quality, lastAdapt, log, pruned>>
clockVars   == <<topic, elapsed, skew>>
loopVars    == <<keys, at, payload, refused>>
countVars   == <<messages, turnedAway, asked>>
senderVars  == <<clockVars, last, sequence, dropped, metricVars, wire, published, loopVars,
                 countVars, lastPass>>

Now == Start + elapsed - skew

\* The keys the topic has publishers for: sender_, or dynamic_senders_ by host.
Publishers == IF topic.dynamic_dst THEN Targets ELSE {"all"}

\* A callback is in its loop.
Publishing == at <= Len(keys)

SenderInit ==
  /\ topic \in Topics
  /\ elapsed = 0 /\ skew = 0
  /\ last = 0
  /\ sequence = 0
  /\ sent = 0 /\ dropped = 0
  /\ recent = <<>>
  /\ quality = topic.quality
  /\ lastAdapt = 0
  /\ wire = <<>> /\ published = <<>>
  /\ keys = <<>> /\ at = 1 /\ payload = 0 /\ refused = {}
  /\ messages = 0 /\ turnedAway = 0 /\ asked = 0
  /\ lastPass = -1
  /\ log = <<>>
  /\ pruned = 0

-----------------------------------------------------------------------------
(***************************************************************************)
(* Metrics: recordSend, pruneMetricsWindowLocked and                       *)
(* maybeAdaptImageQualityLocked.  The deques of send times and of send     *)
(* bytes always hold the same times, so one sequence stands for both.      *)
(***************************************************************************)

PruneInclusive(window, now) ==  \* faulty variant: >= for >
  LET young == {i \in 1..Len(window) : ~(now - window[i].time >= RateWindow)}
  IN  IF young = {} THEN <<>>
      ELSE SubSeq(window, CHOOSE i \in young : \A j \in young : i <= j, Len(window))

\* Entries leave from the front until the first one that is not too old.
PruneMetricsWindow(window, now) ==
  LET young == {i \in 1..Len(window) : ~(now - window[i].time > RateWindow)}
  IN  IF young = {} THEN <<>>
      ELSE SubSeq(window, CHOOSE i \in young : \A j \in young : i <= j, Len(window))

\* kbit in the window, and the time it covers in milliseconds, at least one.
WindowBytes(window) ==
  LET Total[n \in 0..Len(window)] == IF n = 0 THEN 0 ELSE Total[n - 1] + window[n].size
  IN  Total[Len(window)]
WindowMs(window, now) ==
  LET ms == 1000 * (now - window[1].time) IN IF ms > 1 THEN ms ELSE 1

\* bandwidth > 115% and bandwidth < 85% of the target.
AboveTarget(window, now) == WindowBytes(window) * 1000 * 100 > topic.target * 115 * WindowMs(window, now)
BelowTarget(window, now) == WindowBytes(window) * 1000 * 100 < topic.target * 85 * WindowMs(window, now)

MayAdapt(window, total) ==
  /\ topic.image /\ topic.adaptive
  /\ topic.target > 0
  /\ Len(window) >= 2
  /\ total >= lastAdapt + topic.cooldown

LoweredUnclamped(q) == q - topic.step  \* faulty variant: no lower bound

Lowered(q) == IF q - topic.step > topic.min THEN q - topic.step ELSE topic.min
Raised(q)  == IF q + topic.step < topic.max THEN q + topic.step ELSE topic.max

MaybeAdaptImageQuality(window, total, now) ==
  \/ /\ MayAdapt(window, total) /\ AboveTarget(window, now) /\ quality > topic.min
     /\ quality' = Lowered(quality)
     /\ lastAdapt' = total
  \/ /\ MayAdapt(window, total) /\ BelowTarget(window, now) /\ quality < topic.max
     /\ quality' = Raised(quality)
     /\ lastAdapt' = total
  \/ /\ ~ /\ MayAdapt(window, total)
          /\ \/ AboveTarget(window, now) /\ quality > topic.min
             \/ BelowTarget(window, now) /\ quality < topic.max
     /\ UNCHANGED <<quality, lastAdapt>>

\* recordSend.
RecordSend ==
  LET window == Append(PruneMetricsWindow(recent, Now), [time |-> Now, size |-> payload]) IN
  /\ sent' = sent + 1
  /\ recent' = window
  /\ log' = Append(log, [real |-> elapsed, skew |-> skew, size |-> payload])
  /\ pruned' = elapsed
  /\ MaybeAdaptImageQuality(window, sent + 1, Now)

-----------------------------------------------------------------------------
(***************************************************************************)
(* subCallback.                                                            *)
(***************************************************************************)

HeldBackInclusive == topic.interval # 0 /\ last # 0 /\ Now - last <= topic.interval  \* faulty: <=

\* sendFreqControl: whether the rate limit holds a message back now.
HeldBack == topic.interval # 0 /\ last # 0 /\ Now - last < topic.interval

\* A message arrives when the callback of the one before it has returned.
Arrives == messages < MaxMessages /\ ~Publishing /\ messages' = messages + 1

\* One drop, however many hosts the message names.
SendFreqControl ==
  /\ Arrives /\ HeldBack
  /\ turnedAway' = turnedAway + 1
  /\ dropped' = dropped + 1
  /\ UNCHANGED <<clockVars, last, sequence, metricVars, wire, published, loopVars, asked, lastPass>>

\* The message passes: it takes the next sequence number whatever happens to it.
Pass ==
  /\ Arrives /\ ~HeldBack
  /\ last' = IF topic.interval = 0 THEN last ELSE Now
  /\ lastPass' = elapsed
  /\ sequence' = sequence + 1
  /\ at' = 1 /\ refused' = {}
  /\ UNCHANGED <<clockVars, metricVars, wire, published>>

\* The encoder throws: one drop, and the callback returns.
EncodeFails ==
  /\ Pass
  /\ keys' = <<>> /\ payload' = 0
  /\ turnedAway' = turnedAway + 1
  /\ dropped' = dropped + 1
  /\ UNCHANGED asked

\* The message is encoded, and one publication is to be made on the fan-out key or for
\* each host in to_drone_ids.
Encoded(size, to) ==
  /\ Pass
  /\ keys' = to /\ payload' = size
  /\ asked' = asked + Len(to)
  /\ UNCHANGED <<turnedAway, dropped>>

Destinations ==
  IF topic.dynamic_dst THEN UNION {[1..n -> Targets \cup {Unknown}] : n \in 0..MaxTargets}
  ELSE {<<"all">>}

\* The next round of the loop.
Round ==
  /\ Publishing
  /\ at' = at + 1
  /\ UNCHANGED <<clockVars, last, sequence, keys, payload, countVars, lastPass>>

TargetUnknownUncounted ==  \* faulty variant: an unknown target is no drop
  /\ Round /\ keys[at] \notin Publishers
  /\ UNCHANGED <<dropped, metricVars, wire, published, refused>>

TargetUnknownReturns ==  \* faulty variant: return where the loop should continue
  /\ Publishing /\ keys[at] \notin Publishers
  /\ at' = Len(keys) + 1
  /\ dropped' = dropped + (Len(keys) - at) + 1
  /\ UNCHANGED <<clockVars, last, sequence, keys, payload, countVars, lastPass, metricVars, wire,
                 published, refused>>

\* to_drone_ids names a host that the topic has no publisher for.
TargetUnknown ==
  /\ Round /\ keys[at] \notin Publishers
  /\ dropped' = dropped + 1
  /\ UNCHANGED <<metricVars, wire, published, refused>>

\* Publish returns false: the envelope cannot be encoded, or put throws.
PublishFails ==
  /\ Round /\ keys[at] \in Publishers
  /\ dropped' = dropped + 1
  /\ refused' = refused \cup {at}
  /\ UNCHANGED <<metricVars, wire, published>>

PublishSucceeds ==
  /\ Round /\ keys[at] \in Publishers
  /\ LET envelope == [to |-> keys[at], seq |-> sequence] IN
     wire' = Append(wire, envelope) /\ published' = Append(published, envelope)
  /\ RecordSend
  /\ UNCHANGED <<dropped, refused>>

\* The diagnostics timer reads the metrics and prunes the window.
GetMetricsSnapshot ==
  /\ recent' = PruneMetricsWindow(recent, Now)
  /\ pruned' = elapsed
  /\ UNCHANGED <<clockVars, last, sequence, dropped, sent, quality, lastAdapt, log, wire,
                 published, loopVars, countVars, lastPass>>

-----------------------------------------------------------------------------
(***************************************************************************)
(* The clock and the process.                                              *)
(***************************************************************************)
Tick ==
  /\ elapsed < MaxTime
  /\ elapsed' = elapsed + 1
  /\ UNCHANGED <<topic, skew, last, sequence, dropped, metricVars, wire, published, loopVars,
                 countVars, lastPass>>

ClockRollback ==
  /\ skew < MaxRollback
  /\ skew' \in (skew + 1)..MaxRollback
  /\ UNCHANGED <<topic, elapsed, last, sequence, dropped, metricVars, wire, published, loopVars,
                 countVars, lastPass>>

\* The sending bridge exits, in the middle of a callback or not, and is started again: a
\* new TopicFactory.
RestartSender ==
  /\ last' = 0 /\ sequence' = 0
  /\ sent' = 0 /\ dropped' = 0 /\ recent' = <<>>
  /\ quality' = topic.quality
  /\ lastAdapt' = 0
  /\ keys' = <<>> /\ at' = 1 /\ payload' = 0 /\ refused' = {}
  /\ turnedAway' = 0 /\ asked' = 0 /\ published' = <<>>
  /\ lastPass' = -1 /\ log' = <<>>
  /\ pruned' = elapsed
  /\ UNCHANGED <<clockVars, wire, messages>>

-----------------------------------------------------------------------------
(***************************************************************************)
(* Properties.                                                             *)
(***************************************************************************)

\* When no callback is in its loop, the counters say what became of the messages:
\* total_sent is the number of envelopes on the network, and dropped_messages counts each
\* publication that an encoded message called for and that did not get there, and each
\* message that was held back or not encoded once, whatever hosts it names.
SendAccounted ==
  ~Publishing =>
    /\ sent = Len(published)
    /\ dropped = (asked - Len(published)) + turnedAway

\* A target that is unknown, or whose Publish fails, costs no other target its envelope:
\* when the callback has returned, each host has got the message as often as to_drone_ids
\* names it, but for its own failures; and so has everyone on the fan-out key.
OthersAreSent ==
  ~Publishing =>
    \A host \in Publishers :
      Cardinality({i \in DOMAIN published : published[i] = [to |-> host, seq |-> sequence]})
        = Cardinality({i \in DOMAIN keys : keys[i] = host} \ refused)

\* What recordSend put in the window for an entry of the log.
Logged(entry) == [time |-> Start + entry.real - entry.skew, size |-> entry.size]

\* The window from which bandwidth and rate are computed loses no send of the last
\* RateWindow seconds, however recordSend and the diagnostics timer alternate in pruning
\* it and however the clock is set back; and it keeps none for longer, except by the time
\* that the clock was set back.
WindowIsExact ==
  \E k \in 0..Len(log) :
    /\ recent = [i \in 1..(Len(log) - k) |-> Logged(log[k + i])]
    /\ \A i \in 1..k : pruned - log[i].real > RateWindow
    /\ \A i \in (k + 1)..Len(log) : pruned - log[i].real <= RateWindow + skew

\* As long as the clock is not set back, max_freq is exact: a message is forwarded if
\* and only if none was forwarded in the 1 / max_freq seconds before it.
RateLimitIsExact ==
  [][ messages' # messages /\ skew = 0 =>
        (sequence' # sequence <=>
           topic.interval = 0 \/ lastPass = -1 \/ elapsed - lastPass >= topic.interval) ]_senderVars

\* The adaptive quality never leaves [imgMinJpegQuality, imgMaxJpegQuality]; started
\* outside, it only comes closer.
QualityOffRange(q) ==
  IF q < topic.min THEN topic.min - q ELSE IF q > topic.max THEN q - topic.max ELSE 0
QualityKeepsRange ==
  [][ quality' # quality /\ sent' > sent => QualityOffRange(quality') <= QualityOffRange(quality)]_senderVars

\* Setting the clock back does not affect transport: a message is held back only if
\* another one was forwarded less than 1 / max_freq seconds before it.
RollbackIsHarmless ==
  [][ dropped' # dropped /\ sequence' = sequence /\ messages' # messages =>
        lastPass # -1 /\ elapsed - lastPass < topic.interval ]_senderVars
=============================================================================
