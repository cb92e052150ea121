# NetBridge for Swarm: TLA+ verification project

NetBridge (`src/swarm_ros_bridge`) connects the ROS 1 masters of a swarm over Zenoh: every
host runs one bridge node that forwards configured topics and services to other hosts.
This directory holds TLA+ models of its core, TLC configurations that check them on small
instances, and TLAPS proofs for instances of any size.

## Inventory

Paths are relative to `src/swarm_ros_bridge/src` (headers: `../include`).

| Component | State | Operations | Hard behaviour |
|---|---|---|---|
| Receiving topic (`topic_factory.cpp`) | `recv_queue_`, `recv_mutex_`, `recv_condition_`, atomic `recv_thread_flag_`, worker thread, subscription, publisher, `metrics_state_` | `createThread`, `enqueueEnvelope` (Zenoh threads), `recvFunction` (worker), `stopThread` (main) | flag written without the mutex, lost wakeups, drain on shutdown, queue limits, failure of `Subscribe` |
| Bounded queue and QoS table (`transport/bridge_transport.cpp`) | none | `GetQosPolicy`, `PushToBoundedEnvelopeQueue` | limit, replace or reject |
| Sending topic (`topic_factory.cpp`) | `sub_last_time_`, `sequence_`, publishers, sliding windows, JPEG quality | `subCallback`, `sendFreqControl`, `recordSend`, `maybeAdaptImageQualityLocked`, `GetMetricsSnapshot` | clock rollback, partial failure over several targets, pruning by two threads |
| Frame counters (`diagnostics/topic_metrics.cpp`) | counters of `TopicRuntimeState` | `ObserveCompleteFrameSequence` | losses, restart of the sender |
| Metrics formulas (`diagnostics/topic_metrics.cpp`) | none | `MakeTopicMetrics`, `ComputeStability` | floating point only |
| Bridged service (`service_factory.cpp`, `transport/zenoh_transport.cpp`) | `QueryState` of each call, executor queue, workers, `stopping_` | `call`, `Query`, `DeclareQueryable`, `TrySubmit`, `Run`, `handleRemoteRequest`, `Stop` | timeout against late reply, full queue, shutdown with requests under way |
| Session and presence (`transport/zenoh_transport.cpp`) | session, `closed_`, presence records, link state | constructor, `Close`, `UpdatePresence`, `Presence`, `Stats` | order and repetition of liveliness events, sampled reconnects, check-then-use of the session |
| Envelope codec (`transport/bridge_transport.cpp`) | none | `EncodeEnvelope`, `DecodeEnvelope` | truncated input, 16/32-bit lengths |
| Configuration (`bridge_factory.cpp`, `config/config_loader.cpp`) | sessions, topic configurations | XML-RPC conversions, session, image and cloud options, `LoadFromRosParams` | wrong types, fall-backs, two parsers of one file |
| Routing (`bridge_factory.cpp`) | topic and service maps | `expandHostSelection`, `topicOperatorInit`, `transportForTopic`, `getServiceConfigAndInit` | names and keys derived on two hosts, collisions, directed topics |
| Start and stop (`bridge_factory.cpp`, `bridge_node_main.cpp`) | all factories and transports | `startBridge`, `stopBridge` | order of destruction |
| Diagnostics (`bridge_factory.cpp`, `diagnostics/diagnostics_cache.cpp`) | last report of every topic | `publishDiagnostics`, `Update`, `Lookup*` | staleness, name collisions |
| Draco codec (`transport/draco_pointcloud_codec.cpp`) | none | `ParseLayout`, `Encode`, `Decode` | field overlap, sidecar round trip |
| TUI (`nodes/bridge_tui_main.cpp`, `tui/*.cpp`) | cache, view state, bounded histories | event loop, refresh thread, screens | several reads of a changing cache in one frame |
| Logging | files | output | none |

How they interact: the main thread builds and destroys everything; Zenoh threads call
`enqueueEnvelope`, `on_query` and `on_reply`; four ROS spinner threads call `subCallback`
and the service proxies; one worker per receiving topic and a pool of workers per session
do the blocking work; a ROS timer reads all metrics once per second and publishes them to
the TUI, a process of its own with a spinner, a refresh thread and a UI thread.

What makes each part correct: a *receiver* publishes every accepted envelope once, in
order, counts every other one, and can be stopped; a *sender* keeps to `max_freq`, counts
what it drops, and adapts quality within its range; the *frame counters* tell the losses
that happened; a *service call* gets the answer to its own request and that answer is true;
*shutdown* joins every thread before it destroys what the thread uses; *presence* is the
truth once all events are handled; *routing* carries exactly what the configuration asks
for, although every host works it out alone; a *codec* returns what was put in and rejects
what no encoder wrote; the *screen* never presents old data as current.

Each hazard we found in the code, with its line and the property that covers it, is in
`PROJECT.json`.

## Modules

| Module | Models |
|---|---|
| `BridgeTransport` | `GetQosPolicy` (the two fields the queue reads) and `PushToBoundedEnvelopeQueue`, as operators |
| `FrameSequence` | `ObserveCompleteFrameSequence`, as an operator on a counter record |
| `Mailbox` | abstract specification: what a receiving topic promises, without threads |
| `TopicReceiver` | one receiving topic: callbacks, worker, main thread; refines `Mailbox` |
| `TopicReceiverProofs` | theorems about `TopicReceiver`: types, threads, conservation, publication order, refinement of `Mailbox`, image counters |
| `TopicSender` | one sending topic with its clock, window and JPEG quality |
| `TopicStream` | composes `TopicSender`, a lossy FIFO link and `FrameSequence`; sender restarts |
| `TopicStreamProofs` | theorems about `TopicStream`: the sending side |
| `TopicStreamLossProofs` | theorems about `TopicStream`: the receiver's frame counters |
| `ServiceBridge` | client proxies, query network, bounded executor, handler, server shutdown |
| `ServiceBridgeProofs` | theorems about `ServiceBridge` |
| `BridgeConfig` | XML-RPC conversions, sessions, topic, image and cloud options, names and keys, the TUI's `ConfigLoader` and aliases, as operators |
| `Routing` | the bridges of a swarm that configure themselves, build their tables, start, stop or fail |
| `RoutingProofs` | theorems about `Routing` and the parsers of `BridgeConfig` |
| `EnvelopeCodec` | `EncodeEnvelope`, `DecodeEnvelope`, `ValidateEnvelopeMetadata` and a link that damages bytes |
| `PointCloudCodec` | the Draco codec around the library: layout, sidecar, indices, `Encode`, `Decode` |
| `Codecs` | composes the two codecs |
| `CodecsProofs` | theorems about the envelopes and the point clouds of `Codecs` |
| `HostPresence` | abstract specification: what a session promises about other hosts |
| `NodePresence` | the session's presence records and reconnect count; refines `HostPresence` |
| `NodePresenceProofs` | theorems about `NodePresence` |
| `Monitor` | `HostPresence`, `publishDiagnostics`, `DiagnosticsCache` and the UI thread of the TUI |
| `MonitorProofs` | theorem about `Monitor`: no frame shows expired data |
| `MC*` | instances for TLC |

Definitions marked *faulty variant* are deliberate errors of the kind a change to the code
could introduce; each is used in place of the definition that follows it to confirm that a
property notices.

### TopicReceiver

A step is what a thread does between two points where another thread can interfere. Code
under `recv_mutex_` is one step, except where the atomic `recv_thread_flag_`, which is
written without the mutex, can change in between: `enqueueEnvelope` tests the flag
(`CallbackLock`) and then pushes (`CallbackPush`), and the worker evaluates its wait
predicate (`WorkerLock`) and then blocks (`WorkerBlock`). `main`, `worker` and `callback[h]`
are program counters; `mutex` is the owner of `recv_mutex_`; `hand` is the envelope that
`recvFunction` has moved out of the queue. The checks before the lock, with the frame
counting, are `Deliver`; they touch only the atomic counters under `metrics_mutex_`.
`createThread` is `CreateThread` followed by `SubscribeSucceeds` or `SubscribeThrows` (whose
catch block continues with `NotifyAll` and `JoinWorker`); `stopThread` is
`ResetSubscription`, `ExchangeFlag`, `NotifyAll`, `JoinWorker`, `ShutdownPublisher`.
Deserialisation succeeds or throws (`WorkerPublish`). `arrived`, `late` and `lastPub` are
history variables.

Zenoh (external): samples of one source are delivered in order, by one callback at a time;
some may be lost; after `subscription_.reset()` no new callback starts, one that is running
goes on.

### TopicSender and TopicStream

roscpp runs the callbacks of one subscriber one at a time. A callback is held back
(`SendFreqControl`), fails to encode its message (`EncodeFails`) or encodes it (`Encoded`),
which sets `keys`, the hosts of `to_drone_ids` or the one fan-out key. Its loop then takes a
step for each of them: `TargetUnknown` (the host is not in `dynamic_senders_`),
`PublishFails` or `PublishSucceeds` with `recordSend`. Between these steps the diagnostics
timer may prune the window, time passes, the clock is set back, or the bridge exits and
leaves the rest unsent. `wire` is the link; `published`, `refused`, `asked` and `turnedAway`
are history variables: what this life has put on the link, which publications of the latest
message failed, how many its encoded messages called for, and how many messages were held back
or not encoded. The actions do not compute the one from the other: a counter of the code is
compared with the envelopes that are there. Time is in whole seconds; `Now` is ROS time and falls
behind the real time `elapsed` by `skew` when the clock is set back. Bandwidth comparisons
are the code's formulas multiplied out to integers (kbit, milliseconds, percent), including
the 1 ms floor of the window. The two deques of the sender hold the same times, so one
sequence stands for both. `TopicStream` puts the published envelopes on a link that keeps
their order and may lose them, and applies the receiver's `recordCompleteImageEnvelope`;
queueing and decoding after it are in `TopicReceiver`.

### ServiceBridge

A call is `<<proxy, n>>`. `Call` creates its `QueryState`, `OnReply` and `ZenohTimeout` fill
it, `ReturnFromQuery` is the return of `wait_for` (reply, `on_done` or local timer; time is
abstract, so the last two may come at any moment) with the evaluation in `Query` and `call`.
A query or reply is lost by never being delivered. On the server `OnQuery`, `DecodeFails` and
`TrySubmit` are the callback, `RunLock`, `EnterHandler`, `LocalServiceReturns` a worker, and
`StopServerThread` ... `JoinAndCloseSession` the order of `stopBridge` and `Close`. Running a
handler on a destroyed `ServiceFactory` is undefined behaviour, modelled as going on or
dying (`crashed`). `stopping_` and `tasks_` change only under the executor's mutex, so
testing the wait predicate and blocking is one step there (in contrast to the receiver).

### BridgeConfig and Routing

A configuration is a record of XML-RPC values, each with its type: a conversion applied to a
value of another type falls back to the default or throws, as in the code. Names are
sequences of path segments, so that `NormalizeRosName`, the prefixes, `{id}` and the key
functions are what they are in the code without any work on characters. The one test of a
prefix in the code, `rfind("/drone_{id}", 0)`, is a test of a whole segment here
(`HasIdPrefix`); a name such as `/drone_{id}x` is not considered. The conversions between
numbers cut off fractions as the casts do. Every host runs
`Configure` (constructor: sessions and topics), `TopicOperatorInit`,
`GetServiceConfigAndInit`, `StartBridge`, `StopBridge`, or `Fail` when a check throws; hosts
are independent, so they interleave, and `send`, `recv`, `servers` and `clients` are the maps
of `BridgeFactory`. Subscribing to a name ROS does not accept throws.

The code fills each map in a loop over the rules. `Senders`, `Servers` and `Clients` say what
the loop leaves: a function whose domain are the names the rules yield and whose value is
that of the last rule of the name. `Receivers` needs no *last*, because a name that comes
twice throws. `NormalizeRosName` keeps the texts that are not empty, the k-th one being that
of rank k. The endpoint lists of a session are sets: the session uses every entry.

Constants: `Hosts` is the host map with the names in its order, `DroneText` what `{id}`
becomes on a host, `Configs` the configurations a swarm may be started with. Two
assumptions restrict them. `HostNamesAssumption`: no host is called `all` or `all_drone`,
which the reader of the IP table skips and the selections reserve, or `*`, which is not a
Zenoh chunk. `ConfigsAssumption`: lists are lists, names are texts and numbers integers, as
the XML-RPC types say. Nothing is assumed of the types of options, of the hosts and
names a rule gives, or of how rules relate to each other.

Where the code has no defence against a configuration that contradicts itself, the
property names the configurations it is about. `EveryRouteCarried` is about routes that no
other rule disputes (`Undisputed`: another rule with the same send name, or with the same
wire name into the same host); `ServiceReached` about services named once;
`SessionsSeparate` about configurations that do not themselves give the two TCP sessions one
port or one scouting address (`ConfiguredApart`; the defaults differ). `NothingUnrouted`,
`OneSource` and `QualityLimitsValid` hold without any such condition.

### EnvelopeCodec and PointCloudCodec

Bytes are digits of base `Base` (256 in the code); a 16-bit length has two digits and a 32-bit
one four, so that their limits are within reach, and `source_time_ns` is converted to and from
an unsigned number of eight digits. `AppendUnsigned` and `ReadUnsigned`, loops over the bytes
of their type in the code, are one operator per width, each made of the one of half the width;
`StringEnd` is the cursor that `ReadString` leaves, 0 when it fails, and `HostAt` to
`PayloadAt` are the cursors of one decoding. The link delivers, truncates, extends or changes
a byte. In
`PointCloudCodec` a message is a list of fields, two steps and the bytes, which are numbered
so that each can be told from every other. The Draco library (external) returns the points
in any order with their attributes, and quantises positions; `DecodeDamaged` decodes
packets another sender or a fault could have produced: another version or point type, another
width, a missing point, repeated or out-of-range indices, a sidecar with a byte too many.
The loops of `ExtractSidecar` and `RestoreSidecar` walk the bytes that are not encoded in
ascending order, so the sidecar is given by the set of their offsets (`SidecarOffsets`) and the
place of each, the number of offsets up to it (`SidecarPlace`).

### NodePresence, HostPresence and Monitor

Zenoh (external) delivers the samples of one key in order; a sample may be repeated, since
the history query and the live declaration both report a token. `OpenSession` is the
constructor, `OnLiveliness` its callback, `GetStats` the sampling of the diagnostics timer,
`CloseSession` is `Close` or the end of the process. The own token is announced and noticed
as any other. `ups` and `linkups` are history variables.

`Monitor` takes `HostPresence` for the session, which is sound because `NodePresence`
implements it. A frame is a list of reads of the cache, in the order of the code, each under
the cache's lock and each a step: the renderer of the selected tab, then the header.
Reports and the passing of time fall between them. `live` is a history variable: whether a
report was fresh at any moment since the frame was begun.

## Runs

| Run | Expect | Shows |
|---|---|---|
| `receiver` | pass | conservation of envelopes, drain on exit, publisher outlives worker, publication order, frame counters, refinement of `Mailbox`, queued envelopes are taken, `stopThread` returns unless its notification is lost |
| `receiver_stop` | violation | `stopThread` can hang: the notification is lost while the worker is about to block |
| `stream` | pass | losses inferred = losses that happened, epochs <= restarts, exact rate limit, exact window, quality range; a failing target costs no other its envelope, and the counters say what became of the messages |
| `sender_restart` | violation | a frame after a restart is not counted as complete |
| `clock_rollback` | violation | a rollback makes the rate limit hold back due messages |
| `services` | pass | own answers, truthful results, accepted requests answered once, no reply on a closed session |
| `services_liveness` | pass | accepted requests are answered and `Close` returns, if local services return |
| `service_teardown` | violation | a handler runs on a destroyed `ServiceFactory` |
| `routing` | pass | every route is carried by exactly one receiver and nothing else is; a receiver has the one source it is named after; proxies reach a server that accepts them; sessions of different kinds never link; JPEG limits are usable; the TUI looks for the rows the bridge reports |
| `codecs` | pass | envelopes and clouds come back as they were, resized or damaged ones are rejected, whatever is accepted is canonical |
| `presence` | pass | records are exact once events are handled, reconnects are real, refinement of `HostPresence` |
| `monitor` | pass | no frame presents expired data as current; what stays true of a host or the bridge is shown in the end |

Bounds and why they suffice:

* `receiver`: three hosts, one of them not allowed, so that two callbacks compete with each
  other and with the worker; capacity 2 for the reliable classes (64 in the code) and 1 for
  the keep-latest ones, so that both limits are reached with three envelopes; sequence
  numbers to 3 with gaps of one. Topics: fan-out command, bulk image, directed command and
  directed state.
* `stream`: three messages of 1 or 8 kbit in three seconds, a window of one second, target
  4 kbit/s and a quality that starts above its range: both bandwidth thresholds and both
  quality bounds are reached; one rollback, one restart at any point of a callback, messages
  that name no host, one or two, known or unknown, the same one twice included: a failure can
  come before or after another target. `SendAccounted` says that a held-back or unencodable
  message is one drop whatever hosts it names, as the code has it. `WindowIsExact` needs no
  condition on the clock: no send of the period is ever missing, and one stays too long only by
  the time that the clock was set back. Properties that a rollback or restart is known to
  break say so in their condition (`skew = 0`, `restarts = 0`); the two violation runs show
  that the condition is needed. 2,468,905 distinct states.
* `services`: an allowed client with two calls (so that a late answer meets the next call)
  and one that is not allowed, two workers, queue of one: the queue is full while workers
  are busy, and requests are queued, running and arriving when shutdown begins.
  `services_liveness` has one call of each of two allowed clients.

* `routing`: two drones and a ground station, every pair of four host selections (`all`,
  `all_drone`, one host, a list) for plain, `{id}` and directed topics, prefix options, two
  rules at a time with and without debug mode, sessions with right, wrong and missing
  endpoints and seeds, JPEG and cloud options with wrong types and crossed limits, services
  with allowed, unknown and misspelt hosts, and a host that is not configured. Two rules are
  enough for the collisions that the maps can have; three hosts tell *another host* from
  *every other host*. `MonitorFindsRows` is about rules that list their hosts by name (see
  the observations below).
* `codecs`: texts up to and beyond the largest length that two digits hold (63 in base 8),
  payloads to one more than `MaxPayload`, extreme times and counters; clouds of at most four
  points in nine layouts (packed and separate colours, padding within points and rows, other
  field orders), seven shapes and both byte orders, and nine messages that must be refused.
* `presence`: two other hosts, each declared at most twice in the life of a session, at most
  two samples of a key in flight: a host can go and return while its first sample is still
  travelling, and the link can be lost and regained between two samples of `Stats`.
* `monitor`: one other host, reports expire after two ticks, a ROS queue of one. Expiry and
  arrival can fall between any two reads of a frame. All reports carry an unhealthy topic
  (`Health = {TRUE}`): *STABLE* can then only come from reads that straddle the expiry.

Runs without a deadlock check (`routing`, `codecs`, and those above whose configuration says
so) are of systems that may come to an end.

Fairness: threads keep running (weak fairness on the steps of callbacks, workers and the
main thread once it is stopping); the operating system's scheduler justifies that. Nothing
is assumed of message arrival, delivery, spurious wakeups, or the decision to shut down. The
local timer of `wait_for` expires. Only `ResponsiveSpec` assumes that local ROS services
return: they are called without a timeout, so neither property of `services_liveness` could
hold without it. In `monitor` the diagnostics timer, the spinners of both processes, the
refresh thread and the UI thread keep running, Zenoh delivers a pending change, and the UI
completes at least one frame per tick of the freshness clock (a refresh event comes every
125 ms, a report expires after 2500 ms); operator and hosts need not do anything.

## Findings

1. *Lost wakeup on shutdown* (`topic_factory.cpp:693`, the same pattern at 676): the flag is
   cleared without `recv_mutex_`. Trace: the worker finds the flag set and the queue empty;
   `exchange(false)`; `notify_all`; the worker blocks; `join` never returns.
2. *Handler on a destroyed object* (`bridge_factory.cpp:733`): `service_servers_.clear()`
   comes before `control_transport_->Close()`, whose executor still holds tasks.
3. *Frame after a restart* (`topic_metrics.cpp:52`): a restarted sender's frame with the last
   sequence number is ignored, so `transport_complete_frames` misses it.
4. *Clock rollback* (`topic_factory.cpp:315`): a rate-limited topic is silent until the
   clock has caught up.

Observed in passing, without a run of their own:

* `service_clients_` and `service_servers_` are keyed by the service name: a second server of
  one name replaces the first's proxy (`bridge_factory.cpp:698-702`). `ServiceReached` is
  checked for configurations that name a service once.
* A directed topic has one receiver, created for the first source; its ROS name and
  `source` stay those of that host (`bridge_factory.cpp:622`). `OneSource` excludes it.
* Two rules that yield one send name overwrite each other in `send_topics_` without a
  message; the instances use distinct names per rule.
* `imgJpegQuality` is clamped to 10..100 but not to the adaptive limits; the first adaptation
  brings it in range (`QualityKeepsRange`).
* The aliases of the topics screen do not expand `all`, `all_drone` or `{id}`
  (`topics_screen.cpp:155`), so rows of such rules are not found by source host.
* The quit dialog takes the refresh event for an answer and closes within 125 ms
  (`app.cpp:350-357`), while the help says "Quit (press q twice)" (`app.cpp:156`).
* The overview reads the freshness of the report twice: when it expires in between, one
  frame shows the bridge as STABLE although a topic is unhealthy
  (`overview_screen.cpp:115-117`). The header reads `IsFresh` before `HasReceivedData`, so
  the first report can be announced as STALE for one frame (`app.cpp:71-75`).

## Proofs

Every theorem is of the form `Spec => []P` or `Spec => P` and holds for every value of the
constants that the named assumptions allow; the bounds (`MaxSeq`, `MaxCalls`, `MaxTime`, ...)
are constants as well and may be any natural number.

| Theorem | Property | Assumptions |
|---|---|---|
| `TopicReceiverProofs!TypeCorrect` | `TypeOK` | receiver |
| `TopicReceiverProofs!DrainedOnExit` | `WorkerExitsDrained` | receiver |
| `TopicReceiverProofs!PublisherOutlivesWorker` | `ShutdownAfterWorker` | receiver |
| `TopicReceiverProofs!Conservation` | `EveryEnvelopeAccounted` | receiver |
| `TopicReceiverProofs!PublishedInOrder` | `PublishInOrder` | receiver |
| `TopicReceiverProofs!ReceiverIsMailbox` | `ImplementsMailbox` | receiver |
| `TopicReceiverProofs!DecodedIsWithinComplete` | `DecodedWithinComplete` | receiver, image |
| `TopicStreamProofs!StreamTypes` | `TypeOK` | sender |
| `TopicStreamProofs!SendsAreAccounted` | `SendAccounted` | sender |
| `TopicStreamProofs!OtherTargetsAreSent` | `OthersAreSent` | sender |
| `TopicStreamProofs!WindowsAreExact` | `WindowIsExact` | sender |
| `TopicStreamProofs!RateLimitsAreExact` | `RateLimitIsExact` | sender |
| `TopicStreamProofs!QualityStaysInRange` | `QualityKeepsRange` | sender |
| `TopicStreamLossProofs!LossesAreExact` | `LossesExact` | sender |
| `TopicStreamLossProofs!ResetsAreBounded` | `ResetsAreRestarts` | sender |
| `ServiceBridgeProofs!ServiceTypes` | `TypeOK` | service |
| `ServiceBridgeProofs!AnswersAreOwn` | `AnswerIsOwn` | service |
| `ServiceBridgeProofs!ResultsAreTruthful` | `ResultIsTruthful` | service |
| `ServiceBridgeProofs!AcceptedAreAnswered` | `AcceptedIsAnswered` | service |
| `ServiceBridgeProofs!RepliesWhileOpen` | `ReplyWhileSessionOpen` | service |
| `NodePresenceProofs!PresenceIsExact` | `PresenceExact` | presence |
| `NodePresenceProofs!ReconnectsAreReal` | `ReconnectsReal` | presence |
| `NodePresenceProofs!PresenceImplements` | `ImplementsHostPresence` | presence |
| `MonitorProofs!FramesAreCurrent` | `FrameIsCurrent` | monitor |
| `RoutingProofs!RoutesAreCarried` | `EveryRouteCarried` | routing |
| `RoutingProofs!NoUnroutedTopic` | `NothingUnrouted` | routing |
| `RoutingProofs!FixedRouteHasOneSource` | `OneSource` (no run) | routing |
| `RoutingProofs!ServicesAreReached` | `ServiceReached` | routing |
| `RoutingProofs!SessionsStayApart` | `SessionsSeparate` | routing |
| `RoutingProofs!QualityLimitsAreValid` | `QualityLimitsValid` | routing |
| `RoutingProofs!MonitorFindsEveryRow` | `MonitorFindsRows` | routing |
| `CodecsProofs!IntactIsDecoded` | `EnvelopeRoundTrip` | envelopes |
| `CodecsProofs!ResizedIsRejected` | `ResizedRejected` | envelopes |
| `CodecsProofs!AcceptedIsEncoded` | `AcceptedIsCanonical` | envelopes |
| `CodecsProofs!CloudIsRestored` | `CloudRestored` | clouds |
| `CodecsProofs!DamagedIsRejected` | `DamagedRejected` | clouds |

`ReceiverInvariant`, `OrderInvariant`, `SenderInvariant`, `CounterInvariant`,
`ServiceInvariant`, `MonitorInvariant`, `TablesFromConfig`, `EnvelopesAsEncoded` and
`CloudsAsEncoded` state the inductive invariants.

Assumptions. *Receiver*: `ReliableCapacityAssumption` and `ReceiverAssumption` (hosts are a
finite set and their names differ from the two other values of `mutex`). *Image*:
`ImageAssumption`, no topic is both an image and directed; a topic is directed when its
message type has a member `to_drone_ids` (`bridge_factory.cpp:553-560`), which
`sensor_msgs/Image` has not. *Sender*: `SenderAssumption` (limits of the JPEG quality in
order, as `ImageOptions` leaves them; the same fact on images; the clock shows a positive time
also after a rollback, since a `ros::Time` is not negative) and `StreamAssumption`.
*Service*: `ServiceAssumption` (finitely many workers, at least one, and a queue of at least
one, as `AtLeast1` ensures). *Presence*: `PresenceAssumption`. *Monitor*: `MonitorAssumption`
(finitely many hosts). *Routing*: `HostsAssumption`, `HostNamesAssumption` and
`ConfigsAssumption`, see above. *Envelopes*: `CodecAssumption` (a byte has more than five
values, so that the magic, the version and the payload kinds are bytes) and
`EnvelopesAssumption` (each field of an envelope has a value of its type, and what the link
puts in place of a byte is a byte). Texts and payloads of any length are among them, those that
`EncodeEnvelope` must refuse included. *Clouds*: `CloudsAssumption` (a message is of type
`sensor_msgs/PointCloud2`: sizes and offsets are natural numbers); inconsistent messages, which
`Encode` must refuse, are among them.

### Receiving topic

`WorkerExitsDrained` is not inductive: that no callback pushes after the
worker has left depends on who holds the mutex when the worker looks at the queue, and on
the flag never being set again. `ThreadInv` adds just that: a callback is at its push if and
only if it owns the mutex, the worker is about to block if and only if it owns it; the flag
is true only between `CreateThread` and `ExchangeFlag`; without a worker nothing is queued
or being pushed. A worker that leaves holds the mutex with the flag false and the queue
empty, so no callback is at its push, and every later one finds the flag false. For
`Conservation` the queue lemma (a push lengthens the queue by one, or keeps its length
when an envelope is replaced or refused) and a lemma on the cardinality of the set of
callbacks under way balance each action; it needs the type invariant and `ThreadInv`.

`PublishInOrder` compares a publication with the one before it, so its invariant has to
follow an envelope along its whole way. `OrderInv` says that for every host the sequence
numbers increase from `lastPub` through `hand` and the queue (by position) to the envelope
in the callback, and none exceeds `sent`. The push is the hard step, because a keep-latest
topic gives up its oldest envelope and every other one moves up: the lemma `PushShape` says
that each place of the new queue holds the new envelope, at the end, or an old one, all of
them shifted by the same distance.

`ReceiverIsMailbox` maps the queue to the mailbox and maps the rest of the threads away. Two
facts are needed besides `ThreadInv`, and are `BoxInv`: the queue is never longer than its
class allows, so that a push is exactly one of the mailbox's three outcomes, and what a
callback is about to push was sent. For `DecodedWithinComplete` the frame counters, updated
before the lock, must be compared with counters updated after it; `FrameInv` does so through
the number of arrivals, and `Conservation` turns that into a bound on what was published or
displaced.

### Sending topic

`SenderInv` is `TypeOK` with six parts. `ClockInv` bounds the skew. `LoopInv` says that a
callback in its loop has taken a number and that an image has one destination. The two
properties about a message with several targets hold only between callbacks, so each has an
invariant that holds within the loop as well. `AccountInv` is the balance with the publications
still to be made: sent, dropped and these add up to what was asked for and turned away, where
`sent` is the length of `published`. `TargetsInv` compares two sets that are not counted by
the code: for every publisher, the envelopes of the latest message that reached its key are as
many as the positions *before* the loop's that name it, less those refused; a round adds one
element to both, to neither, or to the position and the refused. At the end of the loop the
positions before it are all of them, which is `OthersAreSent`. No envelope of the latest number
is there when a message passes, because `TargetsInv` bounds the numbers by `sequence`.

`RateInv` ties `sub_last_time_` to the real time of the last message that passed. `WindowInv`
says that the window is the log of all sends without its first `k` entries, as seen on the
clock (`Exact`), and that times in the log are in order and its skews never more than the
present one (`Ordered`). An entry looks younger than it is by just the time that the clock was
set back since (`AgeFacts`), so a prune removes none that is young, and leaves at the front one
that is at most `RateWindow` plus the skew old, and with it the later ones. The pruned prefix
is found through the least index that looks young enough: `LeastExists`, from the
well-foundedness of `<`, takes the place of induction over the sequence.

### Frame counters

An envelope does not say in which life of the sender it was published, so `ResetsAreRestarts`
cannot be followed step by step from the counters alone. `EpochInv` says that the envelopes on
the wire *can* be assigned to lives: lives follow each other, numbers rise within one, and no
envelope belongs to a life before the one the receiver has noticed, where a restart is noticed
as a reset or hides one frame (finding 3). Each delivery then uses up a life or stays in it.
`LossInv` concerns the first life: each number after the last one delivered is lost or on the
wire, never both, and the gaps counted so far are exactly the lost numbers between the first
and the last one delivered. The number of a callback that is in its loop is neither lost nor
on the wire yet; `Settled` is the last number before it. A gap of `n - last - 1` numbers at a delivery is a set of lost
numbers of that cardinality.

### Bridged service

`IInv` is `TypeOK` with four parts. `PlaceInv`, the heart, says that a request is in at most one
of: on the network, in the callback, in the queue, in the hands of one worker, answered; and
that a request not made yet is nowhere. `AcceptedIsAnswered` is a consequence but is not
inductive, because *once* depends on where the request has been. `TruthInv` says that every
answer under way, in a `QueryState` or returned makes a claim about the request that no later
step can falsify. `PoolInv` says that a worker leaves only when the executor is stopping and
the queue is empty, and that `Close` passes the join only when all have left; both follow from
`stopping_` and `tasks_` changing under one mutex. `CallsInv` bounds the numbers of calls.

### Presence

`PresenceExact` speaks of hosts without samples in flight only, so its invariant has to say
what the samples in flight will do. `IInv` is `TypeOK` with three parts. `HistoryTold` says
that handling the samples in flight one after the other, from the record as it is, leads to
the truth: the last one is about the host's present state, and the declarations told so far
and still to be told add up to `ups`, also when samples are repeated. `ClosedIsEmpty` says
that a closed session knows nothing and has nothing in flight, so that the history query
starts from a known record. `LinksCounted` bounds the sampled link state by the links that
were really gained, with the link of this moment in the balance. The refinement maps a host
to *pending* as long as some sample in flight will still change its record; each liveliness
callback is then a `Lag`, a `Settle` or a stutter.

### Screen

`FrameIsCurrent` speaks of a completed frame; `FrameInv` follows it read by read. Each read
that the picture of the tab needs is among those made or still to be made, so that no part
of the picture is undefined; and as long as no report was fresh since the frame was begun, no
report is fresh now and no answer so far claims one. A report that expires between two reads
makes the earlier answers true claims (`live` was set); one that arrives sets `live`.

### Routing

Hosts never look at each other: what makes a route work is that two of them compute
matching things from one configuration. `RoutingInv` says just that. In every phase, what a
host holds is what the operators of the model compute from `cfg` (nothing before, nothing
after a failure or a stop), and the checks that would have thrown have passed. It is
inductive; the properties are then facts about those operators, for any configuration.

The argument about topics goes from keys back to rules. A fan-out key and a directed
key never match each other, because their third chunks are *fanout* and *dst* (`KindsApart`).
A key matches the expression of a receiver only if the source is the receiver's, or the
destination is its host, and the wire names are equal up to slashes (`FanoutMatch`,
`DirectedMatch`; `MatchBehind` takes equal prefixes off both). The wildcard of a directed
subscription stands for the source only: a name that held one would not have been accepted
by ROS (`NoWildcard`). From there `OneSource` and `NothingUnrouted` follow at once. For
`EveryRouteCarried` the receiver of the route exists (`RouteTaken`; a directed topic has the one
of its first source, which is as good, as it hears any), and a second one would be that of
another rule with the same wire name, which `Undisputed` excludes; both ends choose
the same session because they look at the same type.

`SessionsSeparate` rests on what each kind of session has whatever else is configured: UDP
only for images, TCP for the others, and ports and addresses from two different structs
(`ControlApart`, `ImageApart`, `CloudApart`). `QualityLimitsValid` holds for integers of every
sign and size and for values of every wrong type, through the ranges of `Clamp` and
`AtLeast1`. For `MonitorFindsRows` the two readers of a member agree wherever the monitor's
cast does not throw (`SameBool`, `SameSession`, `SameCodec`).

### Envelopes

Encoder and decoder are compared through *pieces*: `Piece(d, at, p)` says that the bytes `p`
stand in `d` at position `at`, and a piece of two parts is two pieces (`PieceConcat`). Each
read of the decoder is about one piece: `ReadUnsigned` yields a value exactly when its digits
stand at the cursor (`Read16`, and the wider ones half by half), `ReadString` yields a text and
the cursor behind it exactly when the bytes of `AppendString` stand there. An envelope is
seven pieces, each at the place where the texts before it end (`EncodingPieces`). Read in one
direction these equivalences are the round trip, in the other the canonical form, where the
piece of the flags is the only one not read. That a longer or shorter envelope is rejected needs
nothing of the encoder but that its output is accepted: of a sequence of bytes and a
continuation of it only one can be, since both are read alike up to the length of the payload,
which has to end with the bytes (`PrefixRejected`). The invariant `EnvelopeInv` says what the
link may have made of an encoding; `AcceptedIsCanonical` is proved for any bytes at all, not only
for those that differ from an encoding in one place.

### Point clouds

The proof is about single bytes. `PointByte` and `ByteOwner` say that the byte `c` of a point
and an offset of the data determine each other by division with remainder, in a message with any
padding of its rows; `PositionAt` that an offset is one of a position exactly when it lies in
the span of x, y or z of its point, which is where `LayoutValid` is needed: without disjoint
spans a byte would have two owners (`EncodedBytes`). From these, every pair of an offset and a value that
`PointBytes` and `RestoreSidecar` write is right (`ReturnedBytes`, `SidecarBytes`), and every offset is
written by one of them; `WrittenBytes` concludes that the message is restored, whichever pair is
chosen for an offset. That the sidecar gives each byte back to the offset it came from
(`Sidecar`) needs places to be distinct, which follows from the cardinality of nested sets. That every
point comes back needs Draco's order to be onto: it is injective on a finite set
(`PointsReturned`). `DamagedRejected` has a lemma for each damage. The invariant `CloudInv` adds
that the packet in transit is an encoding of the published cloud.

### Checked by TLC only

Liveness (`QueuedIsTaken`, `StopReturnsUnlessParking`, `QueuedIsAnswered`, `CloseReturns`,
`ScreenFollows`) is out of the prover's reach. Every invariant and every action property
that a passing run checks has a theorem (and `OneSource` has one without a run); what the findings refute is shown by TLC.

## Plan

Done: all components of the inventory that carry state, and proofs for the receiving topic,
the sending topic, frame counters, services, presence, the screen, routing, the envelopes and
the point clouds. Left: what the next section lists.

## Hazards without a property

Some hazards that `PROJECT.json` lists, or a part of them, have no property, because the code has no defence that
could be stated, or relies on something outside it:

* A local ROS service that never returns (`service_factory.cpp:159`) blocks `Close` and, with
  all workers in it, every other service. The liveness properties assume that services return.
* The receiver of a directed topic is named after its first source (`bridge_factory.cpp:622`);
  `OneSource` is about all other topics.
* A service named twice keeps one proxy (`bridge_factory.cpp:698`); `ServiceReached` is about
  services named once.
* A liveliness sample handled after a later one of the same host reverses its state
  (`zenoh_transport.cpp:310`); Zenoh is assumed to keep the order of one key.
* Rows of a send and a receive topic of one name overwrite each other in the cache
  (`diagnostics_cache.cpp:10`).
* One frame may combine reads on both sides of the expiry of a report
  (`overview_screen.cpp:117`); `FrameIsCurrent` asks only that the report was fresh at some
  moment of the frame.
* After the clock is set back, bandwidth is computed over a span that is too short, at least
  1 ms (`topic_factory.cpp:606`); `WindowIsExact` is about which sends are in the window.

## Not modelled

* JPEG, PCL and Draco numerics, ROS serialisation: outcomes only.
* Metrics snapshot (`MakeTopicMetrics`, `ComputeStability`): floating-point formulas without
  state; the monitor sees their result as a healthy or unhealthy row.
* The `pcl_octree` branch and downsampling of `ptCloudProcess`: library calls.
* Layout of the screens, sparkline history, log view, alert texts, log output.
* The composition of all threads of one bridge in one model: each thread-level model has its
  own shutdown, since the product is beyond TLC and the parts share no state.
* `Session()` used by a proxy call while `Close` runs: whether the call can still be under
  way depends on `ros::ServiceServer::shutdown`.
* Parsing of YAML (`rosparam`) and third-party code (`third_party`,
  `cv_bridge_noetic_fit_version`, `zenoh-debs`). Zenoh and roscpp are external and modelled
  from how the code uses them.
