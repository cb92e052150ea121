---------------------------- MODULE TopicReceiver ----------------------------
(***************************************************************************)
(* One receiving topic (TopicFactory with send_or_recv_ = RECV): the Zenoh *)
(* callbacks that validate and enqueue envelopes, the worker thread that   *)
(* waits on recv_condition_, deserialises and publishes, and the main      *)
(* thread that runs createThread and stopThread.                           *)
(*                                                                         *)
(* Granularity.  A step is what a thread does between two points at which  *)
(* another thread can observe or change something it depends on.  Code     *)
(* under recv_mutex_ is one step, except where recv_thread_flag_, which is *)
(* atomic and written without the mutex, can change in between:            *)
(*   - enqueueEnvelope tests the flag, then pushes;                        *)
(*   - the worker evaluates its wait predicate, then blocks.               *)
(***************************************************************************)
EXTENDS BridgeTransport, FrameSequence, FiniteSets

CONSTANTS
  Hosts,      \* the sending hosts; each delivers through a callback thread of its own
  SrcHost,    \* topic_cfg_.src_hostname_
  Allowed,    \* hosts that src_hostname_map_ maps to true
  Topics,     \* the topic configurations to consider
  MaxSeq,     \* bound: highest sequence number a host sends
  MaxGap,     \* bound: how many numbers one loss may skip
  MaxArrived  \* bound: how many envelopes arrive in all

TopicCfg == [qos : {"command", "state", "bulk"}, image : BOOLEAN, dynamic_dst : BOOLEAN]

ASSUME ReceiverAssumption ==
  /\ IsFiniteSet(Hosts)
  /\ "free" \notin Hosts /\ "worker" \notin Hosts
  /\ SrcHost \in Hosts
  /\ Allowed \subseteq Hosts
  /\ Topics \subseteq TopicCfg
  /\ MaxSeq \in Nat
  /\ MaxGap \in Nat
  /\ MaxArrived \in Nat

\* A topic is dynamic when its type has a member to_drone_ids; image types do not.
ASSUME ImageAssumption == \A t \in Topics : ~(t.image /\ t.dynamic_dst)

VARIABLES
  cfg,         \* topic_cfg_, fixed when the factory is built
  flag,        \* recv_thread_flag_
  mutex,       \* owner of recv_mutex_
  queue,       \* recv_queue_
  subscribed,  \* subscription_ is declared
  advertised,  \* pub_ is advertised
  main,        \* main thread: where it is in createThread / stopThread
  worker,      \* recv_thread_: where it is in recvFunction
  hand,        \* the envelope the worker has popped, as a sequence of length at most 1
  callback,    \* [Hosts -> ...]: where each callback is in enqueueEnvelope
  incoming,    \* [Hosts -> Nat]: sequence of the envelope a callback is handling
  sent,        \* [Hosts -> Nat]: highest sequence delivered on each host's link
  received,    \* metrics_state_.total_received
  dropped,     \* metrics_state_.dropped_messages
  queueDrops,  \* metrics_state_.transport_queue_drops
  frames,      \* the frame counters of metrics_state_
  arrived,     \* history: envelopes handed to enqueueEnvelope
  late,        \* history: envelopes discarded because the flag was already false
  lastPub      \* history, [Hosts -> Nat]: sequence last published for each host

threadVars  == <<flag, mutex, subscribed, advertised, main>>
metricVars  == <<received, dropped, queueDrops, frames>>
historyVars == <<arrived, late, lastPub>>
vars == <<cfg, threadVars, queue, worker, hand, callback, incoming, sent,
          metricVars, historyVars>>

Envelope == [src : Hosts, seq : Nat]

MainPc     == {"new", "subscribe", "catchNotify", "catchJoin", "failed", "running",
               "exchange", "notify", "join", "shutdown", "stopped"}
WorkerPc   == {"none", "lock", "block", "waiting", "publish", "exited"}
CallbackPc == {"idle", "lock", "push", "notify"}

Init ==
  /\ cfg \in Topics
  /\ flag = FALSE
  /\ mutex = "free"
  /\ queue = <<>>
  /\ subscribed = FALSE
  /\ advertised = TRUE
  /\ main = "new"
  /\ worker = "none"
  /\ hand = <<>>
  /\ callback = [h \in Hosts |-> "idle"]
  /\ incoming = [h \in Hosts |-> 0]
  /\ sent = [h \in Hosts |-> 0]
  /\ received = 0 /\ dropped = 0 /\ queueDrops = 0
  /\ frames = NoFrames
  /\ arrived = 0 /\ late = 0
  /\ lastPub = [h \in Hosts |-> 0]

-----------------------------------------------------------------------------
(***************************************************************************)
(* Zenoh callbacks: enqueueEnvelope.                                       *)
(***************************************************************************)

\* The key expression a receiver subscribes to: one source's fan-out key, or
\* every source's directed key.
KeyMatches(h) == cfg.dynamic_dst \/ h = SrcHost

\* The four early returns of enqueueEnvelope; wellFormed stands for the payload
\* kind and ValidateEnvelopeMetadata.
Admissible(h, wellFormed) ==
  /\ wellFormed
  /\ cfg.dynamic_dst \/ h = SrcHost
  /\ h \in Allowed

\* A sample of host h arrives.  Samples of one host arrive in order, some of
\* them may have been lost before.  The checks run outside the mutex.
Deliver(h, seq, wellFormed) ==
  /\ subscribed
  /\ KeyMatches(h)
  /\ callback[h] = "idle"
  /\ sent' = [sent EXCEPT ![h] = seq]
  /\ arrived' = arrived + 1
  /\ \/ /\ ~Admissible(h, wellFormed)
        /\ dropped' = dropped + 1
        /\ UNCHANGED <<callback, incoming, frames>>
     \/ /\ Admissible(h, wellFormed)
        /\ callback' = [callback EXCEPT ![h] = "lock"]
        /\ incoming' = [incoming EXCEPT ![h] = seq]
        /\ frames' = IF cfg.image THEN ObserveCompleteFrameSequence(frames, seq)
                                  ELSE frames
        /\ UNCHANGED dropped
  /\ UNCHANGED <<cfg, threadVars, queue, worker, hand, received, queueDrops,
                 late, lastPub>>

\* lock_guard lock(recv_mutex_); if (!recv_thread_flag_.load()) return;
CallbackLock(h) ==
  /\ callback[h] = "lock"
  /\ mutex = "free"
  /\ \/ /\ flag
        /\ mutex' = h
        /\ callback' = [callback EXCEPT ![h] = "push"]
        /\ UNCHANGED late
     \/ /\ ~flag
        /\ late' = late + 1
        /\ callback' = [callback EXCEPT ![h] = "idle"]
        /\ UNCHANGED mutex
  /\ UNCHANGED <<cfg, flag, subscribed, advertised, main, queue, worker, hand,
                 incoming, sent, metricVars, arrived, lastPub>>

CallbackPushUncounted(h) ==  \* faulty variant: a replaced envelope is not counted
  LET result == PushResult(cfg.qos, queue)
      drop   == IF result = "rejected" THEN 1 ELSE 0
  IN  /\ callback[h] = "push"
      /\ queue' = PushToBoundedEnvelopeQueue(cfg.qos, [src |-> h, seq |-> incoming[h]], queue)
      /\ dropped' = dropped + drop
      /\ queueDrops' = queueDrops + drop
      /\ callback' = [callback EXCEPT ![h] = IF result = "rejected" THEN "idle" ELSE "notify"]
      /\ mutex' = "free"
      /\ UNCHANGED <<cfg, flag, subscribed, advertised, main, worker, hand, incoming,
                     sent, received, frames, historyVars>>

\* The push, its accounting and the unlock.  A rejected envelope returns without
\* notifying.
CallbackPush(h) ==
  LET result == PushResult(cfg.qos, queue)
      drop   == IF result = "enqueued" THEN 0 ELSE 1
  IN  /\ callback[h] = "push"
      /\ queue' = PushToBoundedEnvelopeQueue(cfg.qos, [src |-> h, seq |-> incoming[h]], queue)
      /\ dropped' = dropped + drop
      /\ queueDrops' = queueDrops + drop
      /\ callback' = [callback EXCEPT ![h] = IF result = "rejected" THEN "idle" ELSE "notify"]
      /\ mutex' = "free"
      /\ UNCHANGED <<cfg, flag, subscribed, advertised, main, worker, hand, incoming,
                     sent, received, frames, historyVars>>

\* The effect of notify_one and of notify_all on the only possible waiter: a
\* worker that is not blocked yet does not notice.
Notify == worker' = IF worker = "waiting" THEN "lock" ELSE worker

CallbackNotifyMissing(h) ==  \* faulty variant: enqueueEnvelope does not notify
  /\ callback[h] = "notify"
  /\ callback' = [callback EXCEPT ![h] = "idle"]
  /\ UNCHANGED <<cfg, threadVars, worker, queue, hand, incoming, sent, metricVars,
                 historyVars>>

CallbackNotify(h) ==
  /\ callback[h] = "notify"
  /\ Notify
  /\ callback' = [callback EXCEPT ![h] = "idle"]
  /\ UNCHANGED <<cfg, threadVars, queue, hand, incoming, sent, metricVars, historyVars>>

-----------------------------------------------------------------------------
(***************************************************************************)
(* The worker: recvFunction.                                               *)
(***************************************************************************)

WorkerLockNoDrain ==  \* faulty variant: the worker returns as soon as the flag is false
  /\ worker = "lock"
  /\ mutex = "free"
  /\ \/ /\ flag /\ queue = <<>>
        /\ worker' = "block"
        /\ mutex' = "worker"
        /\ UNCHANGED <<queue, hand>>
     \/ /\ ~flag
        /\ worker' = "exited"
        /\ UNCHANGED <<mutex, queue, hand>>
     \/ /\ flag /\ queue # <<>>
        /\ worker' = "publish"
        /\ hand' = <<Head(queue)>>
        /\ queue' = Tail(queue)
        /\ UNCHANGED mutex
  /\ UNCHANGED <<cfg, flag, subscribed, advertised, main, callback, incoming, sent,
                 metricVars, historyVars>>

\* Take the mutex and evaluate the wait predicate.  When it holds, return or pop
\* and unlock; when it does not, the mutex is kept until the thread blocks.
WorkerLock ==
  /\ worker = "lock"
  /\ mutex = "free"
  /\ \/ /\ flag /\ queue = <<>>
        /\ worker' = "block"
        /\ mutex' = "worker"
        /\ UNCHANGED <<queue, hand>>
     \/ /\ ~flag /\ queue = <<>>
        /\ worker' = "exited"
        /\ UNCHANGED <<mutex, queue, hand>>
     \/ /\ queue # <<>>
        /\ worker' = "publish"
        /\ hand' = <<Head(queue)>>
        /\ queue' = Tail(queue)
        /\ UNCHANGED mutex
  /\ UNCHANGED <<cfg, flag, subscribed, advertised, main, callback, incoming, sent,
                 metricVars, historyVars>>

\* The wait itself: release the mutex and start waiting, atomically.
WorkerBlock ==
  /\ worker = "block"
  /\ worker' = "waiting"
  /\ mutex' = "free"
  /\ UNCHANGED <<cfg, flag, subscribed, advertised, main, queue, hand, callback,
                 incoming, sent, metricVars, historyVars>>

\* A condition variable may wake without a notification.
SpuriousWakeup ==
  /\ worker = "waiting"
  /\ worker' = "lock"
  /\ UNCHANGED <<cfg, threadVars, queue, hand, callback, incoming, sent, metricVars,
                 historyVars>>

\* deserializePublish succeeds (publish, then recordReceive) or throws.
WorkerPublish(decodes) ==
  /\ worker = "publish"
  /\ \/ /\ decodes
        /\ lastPub' = [lastPub EXCEPT ![hand[1].src] = hand[1].seq]
        /\ received' = received + 1
        /\ UNCHANGED dropped
     \/ /\ ~decodes
        /\ dropped' = dropped + 1
        /\ UNCHANGED <<lastPub, received>>
  /\ worker' = "lock"
  /\ hand' = <<>>
  /\ UNCHANGED <<cfg, threadVars, queue, callback, incoming, sent, queueDrops, frames,
                 arrived, late>>

-----------------------------------------------------------------------------
(***************************************************************************)
(* The main thread: createThread and stopThread.                           *)
(***************************************************************************)
MainUnchanged == UNCHANGED <<cfg, mutex, queue, hand, callback, incoming, sent,
                             metricVars, historyVars>>

CreateThread ==
  /\ main = "new" /\ ~flag
  /\ flag' = TRUE
  /\ worker' = "lock"
  /\ main' = "subscribe"
  /\ UNCHANGED <<subscribed, advertised>>
  /\ MainUnchanged

SubscribeSucceeds ==
  /\ main = "subscribe"
  /\ subscribed' = TRUE
  /\ main' = "running"
  /\ UNCHANGED <<flag, worker, advertised>>
  /\ MainUnchanged

\* Subscribe throws: catch (...) { store(false); notify_all(); join(); throw; }
SubscribeThrows ==
  /\ main = "subscribe"
  /\ flag' = FALSE
  /\ main' = "catchNotify"
  /\ UNCHANGED <<worker, subscribed, advertised>>
  /\ MainUnchanged

\* stopThread: subscription_.reset() lets no new callback start; one that is
\* running goes on.  A receiver that was never created, or whose creation threw,
\* is stopped as well when the bridge is torn down.
ResetSubscription ==
  /\ main \in {"new", "failed", "running"}
  /\ subscribed' = FALSE
  /\ main' = "exchange"
  /\ UNCHANGED <<flag, worker, advertised>>
  /\ MainUnchanged

ExchangeFlag ==
  /\ main = "exchange"
  /\ flag' = FALSE
  /\ main' = IF flag THEN "notify" ELSE "shutdown"
  /\ UNCHANGED <<worker, subscribed, advertised>>
  /\ MainUnchanged

NotifyAllMissing ==  \* faulty variant: stopThread joins without notifying
  /\ main \in {"catchNotify", "notify"}
  /\ main' = IF main = "notify" THEN "join" ELSE "catchJoin"
  /\ UNCHANGED <<flag, worker, subscribed, advertised>>
  /\ MainUnchanged

NotifyAll ==
  /\ main \in {"catchNotify", "notify"}
  /\ Notify
  /\ main' = IF main = "notify" THEN "join" ELSE "catchJoin"
  /\ UNCHANGED <<flag, subscribed, advertised>>
  /\ MainUnchanged

JoinWorkerMissing ==  \* faulty variant: stopThread does not wait for the worker
  /\ main \in {"catchJoin", "join"}
  /\ main' = IF main = "join" THEN "shutdown" ELSE "failed"
  /\ UNCHANGED <<flag, worker, subscribed, advertised>>
  /\ MainUnchanged

JoinWorker ==
  /\ main \in {"catchJoin", "join"}
  /\ worker = "exited"
  /\ main' = IF main = "join" THEN "shutdown" ELSE "failed"
  /\ UNCHANGED <<flag, worker, subscribed, advertised>>
  /\ MainUnchanged

ShutdownPublisher ==
  /\ main = "shutdown"
  /\ advertised' = FALSE
  /\ main' = "stopped"
  /\ UNCHANGED <<flag, worker, subscribed>>
  /\ MainUnchanged

\* A stopped receiver whose threads have all returned does nothing any more.
Terminated ==
  /\ main = "stopped"
  /\ worker \in {"none", "exited"}
  /\ \A h \in Hosts : callback[h] = "idle"
  /\ UNCHANGED vars

-----------------------------------------------------------------------------
DeliverAny(h) ==
  /\ arrived < MaxArrived
  /\ \E seq \in (sent[h] + 1)..(sent[h] + 1 + MaxGap), wellFormed \in BOOLEAN :
       seq <= MaxSeq /\ Deliver(h, seq, wellFormed)

CallbackStep(h) == CallbackLock(h) \/ CallbackPush(h) \/ CallbackNotify(h)
WorkerStep == WorkerLock \/ WorkerBlock \/ \E decodes \in BOOLEAN : WorkerPublish(decodes)
StopStep == ExchangeFlag \/ NotifyAll \/ JoinWorker \/ ShutdownPublisher
MainStep == CreateThread \/ SubscribeSucceeds \/ SubscribeThrows \/ ResetSubscription \/ StopStep

Next ==
  \/ \E h \in Hosts : DeliverAny(h) \/ CallbackStep(h)
  \/ WorkerStep \/ SpuriousWakeup
  \/ MainStep
  \/ Terminated

\* Every thread that can run keeps running; nothing obliges samples to arrive,
\* the condition variable to wake spuriously or the node to be shut down.
Fairness ==
  /\ \A h \in Hosts : WF_vars(CallbackStep(h))
  /\ WF_vars(WorkerStep)
  /\ WF_vars(StopStep)

Spec == Init /\ [][Next]_vars /\ Fairness

-----------------------------------------------------------------------------
(***************************************************************************)
(* Properties.                                                             *)
(***************************************************************************)
TypeOK ==
  /\ cfg \in Topics
  /\ flag \in BOOLEAN
  /\ mutex \in {"free", "worker"} \cup Hosts
  /\ queue \in Seq(Envelope)
  /\ subscribed \in BOOLEAN
  /\ advertised \in BOOLEAN
  /\ main \in MainPc
  /\ worker \in WorkerPc
  /\ hand \in Seq(Envelope)
  /\ callback \in [Hosts -> CallbackPc]
  /\ incoming \in [Hosts -> Nat]
  /\ sent \in [Hosts -> Nat]
  /\ received \in Nat /\ dropped \in Nat /\ queueDrops \in Nat
  /\ frames \in FrameCounters
  /\ arrived \in Nat /\ late \in Nat
  /\ lastPub \in [Hosts -> Nat]

InFlight == {h \in Hosts : callback[h] \in {"lock", "push"}}

\* Conservation: every envelope handed to enqueueEnvelope is published, counted in
\* dropped_messages, discarded because the receiver had stopped, or still on its
\* way (in a callback, the queue or the worker), and is counted once whatever the
\* callbacks, the worker and stopThread do concurrently.
EveryEnvelopeAccounted ==
  arrived = received + dropped + late + Len(queue) + Len(hand) + Cardinality(InFlight)

\* An accepted envelope is never stranded: when the worker has left recvFunction the
\* queue is empty and no callback is past its test of recv_thread_flag_, although the
\* flag is cleared without recv_mutex_.
WorkerExitsDrained ==
  worker = "exited" => /\ queue = <<>> /\ hand = <<>>
                       /\ \A h \in Hosts : callback[h] # "push"

\* stopThread shuts the publisher down only after the worker is gone, so no
\* deserialised message is published on a publisher that was shut down.
ShutdownAfterWorker ==
  ~advertised => /\ worker \in {"none", "exited"}
                 /\ queue = <<>>

\* The inductive core of the two properties above: who holds recv_mutex_, what the
\* program counters say about the flag, and what each thread may rely on.
ThreadInv ==
  /\ (mutex = "worker") <=> (worker = "block")
  /\ \A h \in Hosts : (callback[h] = "push") <=> (mutex = h)
  /\ Len(hand) = IF worker = "publish" THEN 1 ELSE 0
  /\ subscribed => main = "running"
  /\ main \in {"subscribe", "running"} => flag
  /\ main \in MainPc \ {"subscribe", "running", "exchange"} => ~flag
  /\ main = "new" => worker = "none"
  /\ main = "exchange" /\ ~flag => worker \in {"none", "exited"}
  /\ main \in {"failed", "shutdown", "stopped"} => worker \in {"none", "exited"}
  /\ ~advertised => main = "stopped"
  /\ worker = "none" => /\ ~flag /\ queue = <<>>
                        /\ \A h \in Hosts : callback[h] = "idle"
  /\ worker = "exited" => /\ ~flag /\ queue = <<>>
                          /\ \A h \in Hosts : callback[h] # "push"

\* For image topics the decoded count plus what the queue displaced never exceeds
\* the complete frames, as long as a sender does not restart: the comparison of
\* transport_complete_frames with decoded_frames that the README recommends.
DecodedWithinComplete ==
  cfg.image => /\ received + queueDrops <= frames.complete
               /\ frames.expected = frames.complete + frames.lost
               /\ frames.expected <= sent[SrcHost]

\* Each publication carries a later sequence than the previous publication of the
\* same host: the queue, the replacement of old samples and the drain on shutdown
\* never publish an envelope twice or out of order.
PublishInOrder ==
  [][ received' # received =>
        \E h \in Hosts : /\ lastPub'[h] > lastPub[h]
                         /\ \A g \in Hosts \ {h} : lastPub'[g] = lastPub[g] ]_vars

\* The inductive core of PublishInOrder: the sequence numbers of each host increase from
\* the last publication through the worker's hand, the queue and the callback under way
\* to what was delivered.
Pending(e) ==
  /\ lastPub[e.src] < e.seq /\ e.seq <= sent[e.src]
  /\ callback[e.src] \in {"lock", "push"} => e.seq < incoming[e.src]
OrderInv ==
  /\ \A h \in Hosts : /\ lastPub[h] <= sent[h]
                      /\ callback[h] \in {"lock", "push"} =>
                           lastPub[h] < incoming[h] /\ incoming[h] <= sent[h]
  /\ \A i \in 1..Len(queue) : Pending(queue[i])
  /\ \A i, j \in 1..Len(queue) :
       i < j /\ queue[i].src = queue[j].src => queue[i].seq < queue[j].seq
  /\ \A k \in 1..Len(hand) :
       /\ Pending(hand[k])
       /\ \A i \in 1..Len(queue) :
            hand[k].src = queue[i].src => hand[k].seq < queue[i].seq

\* An envelope in the queue does not stay there: the notification that follows the
\* push cannot be lost, because the push happens under recv_mutex_.
QueuedIsTaken ==
  \A h \in Allowed, n \in 1..MaxSeq :
    (\E i \in 1..Len(queue) : queue[i] = [src |-> h, seq |-> n])
      ~> ~(\E i \in 1..Len(queue) : queue[i] = [src |-> h, seq |-> n])

\* stopThread returns if its notify_all does not fall between the worker's test of
\* the wait predicate and the moment it blocks.
StopReturnsUnlessParking ==
  (main = "notify" /\ worker # "block") ~> (main = "stopped")

\* stopThread returns: the worker can always be joined on exit.
StopReturns == (main = "notify") ~> (main = "stopped")

\* The receiver implements the mailbox: threads, mutex and condition variable add
\* nothing to what the abstract specification allows.
Box == INSTANCE Mailbox WITH
  Items  <- [src : Hosts, seq : 1..MaxSeq],
  policy <- [keep_latest |-> GetQosPolicy(cfg.qos).keep_latest,
             capacity    |-> Capacity(cfg.qos)],
  box    <- queue,
  hand   <- hand,
  phase  <- IF worker = "none" THEN "new"
            ELSE IF worker = "exited" THEN "gone"
            ELSE IF flag THEN "open" ELSE "closing"
ImplementsMailbox == Box!MailboxSpec
=============================================================================
