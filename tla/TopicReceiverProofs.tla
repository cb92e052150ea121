------------------------- MODULE TopicReceiverProofs -------------------------
(***************************************************************************)
(* Proofs about TopicReceiver for every set of hosts, every topic          *)
(* configuration, every queue capacity and every bound: nothing gets lost  *)
(* unseen, envelopes of one host are published in order and never twice,   *)
(* a receiver implements the mailbox, its image counters stay comparable.  *)
(***************************************************************************)
EXTENDS TopicReceiver, FiniteSetTheorems, TLAPS

-----------------------------------------------------------------------------
(***************************************************************************)
(* Lemmas about the operators the receiver is built from.                  *)
(***************************************************************************)

\* Observing a frame keeps the counters well typed.
LEMMA ObserveType ==
  ASSUME NEW f \in FrameCounters, NEW n \in Nat
  PROVE  ObserveCompleteFrameSequence(f, n) \in FrameCounters
<1>1. ASSUME NEW delta \in Nat \ {0}, NEW reset \in Nat
      PROVE  Counted(f, n, delta, reset) \in FrameCounters
  BY DEF Counted, FrameCounters
<1>2. f.last \in Nat /\ (n > f.last => n - f.last \in Nat \ {0})
  BY DEF FrameCounters
<1> QED
  BY <1>1, <1>2 DEF ObserveCompleteFrameSequence

\* The queue's capacity is positive for every class.
LEMMA CapacityPositive ==
  ASSUME NEW qos
  PROVE  Capacity(qos) \in Nat /\ Capacity(qos) >= 1
  BY ReliableCapacityAssumption DEF Capacity, GetQosPolicy

\* A push keeps the queue a sequence of envelopes; it makes it one longer when it
\* reports "enqueued" and leaves its length alone otherwise.
LEMMA PushKeepsQueue ==
  ASSUME NEW S, NEW q \in Seq(S), NEW e \in S, NEW qos
  PROVE  /\ PushResult(qos, q) \in {"enqueued", "replaced", "rejected"}
         /\ PushToBoundedEnvelopeQueue(qos, e, q) \in Seq(S)
         /\ Len(PushToBoundedEnvelopeQueue(qos, e, q))
              = Len(q) + (IF PushResult(qos, q) = "enqueued" THEN 1 ELSE 0)
<1>1. Capacity(qos) \in Nat /\ Capacity(qos) >= 1
  BY CapacityPositive
<1>2. PushResult(qos, q) \in {"enqueued", "replaced", "rejected"}
  BY DEF PushResult
<1>3. CASE PushResult(qos, q) = "enqueued"
  BY <1>3 DEF PushToBoundedEnvelopeQueue
<1>4. CASE PushResult(qos, q) = "replaced"
  <2>1. Len(q) >= 1
    BY <1>1, <1>4 DEF PushResult
  <2>2. PushToBoundedEnvelopeQueue(qos, e, q) = Append(Tail(q), e)
    BY <1>4 DEF PushToBoundedEnvelopeQueue
  <2>3. Tail(q) \in Seq(S) /\ Len(Tail(q)) = Len(q) - 1
    BY <2>1
  <2> QED
    BY <1>2, <1>4, <2>1, <2>2, <2>3
<1>5. CASE PushResult(qos, q) = "rejected"
  BY <1>5 DEF PushToBoundedEnvelopeQueue
<1> QED
  BY <1>2, <1>3, <1>4, <1>5
-----------------------------------------------------------------------------
(***************************************************************************)
(* Type correctness.                                                       *)
(***************************************************************************)

LEMMA TypeInit == Init => TypeOK
<1> SUFFICES ASSUME Init PROVE TypeOK
  OBVIOUS
<1>1. frames \in FrameCounters
  BY DEF Init, NoFrames, FrameCounters
<1>2. queue \in Seq(Envelope) /\ hand \in Seq(Envelope)
  BY DEF Init
<1>3. worker = "none" /\ mutex = "free" /\ main = "new"
  BY DEF Init
<1>4. /\ callback \in [Hosts -> CallbackPc] /\ incoming \in [Hosts -> Nat]
      /\ sent \in [Hosts -> Nat] /\ lastPub \in [Hosts -> Nat]
  BY DEF Init, CallbackPc
<1>5. /\ received \in Nat /\ dropped \in Nat /\ queueDrops \in Nat
      /\ arrived \in Nat /\ late \in Nat
  BY DEF Init
<1>6. flag \in BOOLEAN /\ subscribed \in BOOLEAN /\ advertised \in BOOLEAN /\ cfg \in Topics
  BY DEF Init
<1> QED
  BY <1>1, <1>2, <1>3, <1>4, <1>5, <1>6 DEF TypeOK, MainPc, WorkerPc

\* Head and tail of a queue that is not empty.
LEMMA NonEmptyQueue ==
  ASSUME NEW S, NEW q \in Seq(S), q # <<>>
  PROVE  Head(q) \in S /\ Tail(q) \in Seq(S) /\ Len(Tail(q)) = Len(q) - 1 /\ Len(q) >= 1
  OBVIOUS

\* The element of a one-element sequence.
LEMMA OnlyElement ==
  ASSUME NEW S, NEW q \in Seq(S), Len(q) = 1
  PROVE  q[1] \in S
  OBVIOUS

LEMMA TypeStep == TypeOK /\ ThreadInv /\ [Next]_vars => TypeOK'
<1> SUFFICES ASSUME TypeOK, ThreadInv, [Next]_vars PROVE TypeOK'
  OBVIOUS
<1>1. ASSUME NEW h \in Hosts, DeliverAny(h) PROVE TypeOK'
  <2>0. PICK seq \in (sent[h] + 1)..(sent[h] + 1 + MaxGap), wellFormed \in BOOLEAN :
          Deliver(h, seq, wellFormed)
    BY <1>1 DEF DeliverAny
  <2>1. seq \in Nat
    BY <2>0, ReceiverAssumption DEF TypeOK
  <2>2. frames' \in FrameCounters
    BY <2>0, <2>1, ObserveType DEF Deliver, TypeOK
  <2>3. /\ incoming' \in [Hosts -> Nat] /\ sent' \in [Hosts -> Nat]
        /\ dropped' \in Nat /\ arrived' \in Nat
    BY <2>0, <2>1 DEF Deliver, TypeOK
  <2>4. callback' \in [Hosts -> CallbackPc]
    BY <2>0 DEF Deliver, TypeOK, CallbackPc
  <2>5. UNCHANGED <<cfg, threadVars, queue, worker, hand, received, queueDrops, late, lastPub>>
    BY <2>0 DEF Deliver
  <2> QED
    BY <2>2, <2>3, <2>4, <2>5 DEF TypeOK, threadVars
<1>2. ASSUME NEW h \in Hosts, CallbackLock(h) PROVE TypeOK'
  <2>1. mutex' \in {"free", "worker"} \cup Hosts /\ late' \in Nat
    BY <1>2 DEF CallbackLock, TypeOK
  <2>2. callback' \in [Hosts -> CallbackPc]
    BY <1>2 DEF CallbackLock, TypeOK, CallbackPc
  <2>3. UNCHANGED <<cfg, flag, subscribed, advertised, main, queue, worker, hand,
                    incoming, sent, metricVars, arrived, lastPub>>
    BY <1>2 DEF CallbackLock
  <2> QED
    BY <2>1, <2>2, <2>3 DEF TypeOK, metricVars
<1>3. ASSUME NEW h \in Hosts, CallbackPush(h) PROVE TypeOK'
  <2>1. queue' \in Seq(Envelope)
    <3>1. [src |-> h, seq |-> incoming[h]] \in Envelope
      BY DEF TypeOK, Envelope
    <3> QED
      BY <1>3, <3>1, PushKeepsQueue DEF CallbackPush, TypeOK
  <2>2. dropped' \in Nat /\ queueDrops' \in Nat
    BY <1>3 DEF CallbackPush, TypeOK
  <2>3. callback' \in [Hosts -> CallbackPc]
    BY <1>3 DEF CallbackPush, TypeOK, CallbackPc
  <2>4. mutex' = "free" /\ UNCHANGED <<cfg, flag, subscribed, advertised, main, worker,
                                       hand, incoming, sent, received, frames, historyVars>>
    BY <1>3 DEF CallbackPush
  <2> QED
    BY <2>1, <2>2, <2>3, <2>4 DEF TypeOK, historyVars
<1>4. ASSUME NEW h \in Hosts, CallbackNotify(h) PROVE TypeOK'
  BY <1>4 DEF CallbackNotify, Notify, threadVars, metricVars, historyVars, TypeOK,
     CallbackPc, WorkerPc
<1>5. CASE WorkerLock
  <2>1. UNCHANGED <<cfg, flag, subscribed, advertised, main, callback, incoming, sent,
                    metricVars, historyVars>>
    BY <1>5 DEF WorkerLock
  <2>2. CASE queue = <<>>
    <3>1. /\ worker' \in {"block", "exited"} /\ mutex' \in {"free", "worker"} \cup Hosts
          /\ queue' = queue /\ hand' = hand
      BY <1>5, <2>2 DEF WorkerLock, TypeOK
    <3>2. worker = "lock"
      BY <1>5 DEF WorkerLock
    <3> QED
      BY <2>1, <3>1, <3>2 DEF TypeOK, WorkerPc, metricVars, historyVars
  <2>3. CASE queue # <<>>
    <3>1. Head(queue) \in Envelope /\ Tail(queue) \in Seq(Envelope)
      BY <2>3, NonEmptyQueue DEF TypeOK
    <3>2. worker' = "publish" /\ mutex' = mutex /\ hand' = <<Head(queue)>> /\ queue' = Tail(queue)
      BY <1>5, <2>3 DEF WorkerLock
    <3>3. hand' \in Seq(Envelope) /\ Len(hand') = 1
      BY <3>1, <3>2
    <3> QED
      BY <2>1, <3>1, <3>2, <3>3 DEF TypeOK, WorkerPc, metricVars, historyVars
  <2> QED
    BY <2>2, <2>3
<1>6. CASE WorkerBlock
  BY <1>6 DEF WorkerBlock, metricVars, historyVars, TypeOK, WorkerPc
<1>7. CASE SpuriousWakeup
  BY <1>7 DEF SpuriousWakeup, threadVars, metricVars, historyVars, TypeOK, WorkerPc
<1>8. ASSUME NEW decodes \in BOOLEAN, WorkerPublish(decodes) PROVE TypeOK'
  <2>1. hand[1].src \in Hosts /\ hand[1].seq \in Nat
    <3>1. hand \in Seq(Envelope) /\ Len(hand) = 1
      <4>1. worker = "publish"
        BY <1>8 DEF WorkerPublish
      <4>2. hand \in Seq(Envelope)
        BY DEF TypeOK
      <4>3. Len(hand) = 1
        BY <4>1 DEF ThreadInv
      <4> QED
        BY <4>2, <4>3
    <3>2. hand[1] \in Envelope
      BY <3>1, OnlyElement
    <3> QED
      BY <3>2 DEF Envelope
  <2>2. hand' = <<>> /\ worker' = "lock"
    BY <1>8 DEF WorkerPublish
  <2>3. lastPub' \in [Hosts -> Nat] /\ received' \in Nat /\ dropped' \in Nat
    <3>1. lastPub \in [Hosts -> Nat] /\ received \in Nat /\ dropped \in Nat
      BY DEF TypeOK
    <3>2. CASE /\ lastPub' = [lastPub EXCEPT ![hand[1].src] = hand[1].seq]
               /\ received' = received + 1 /\ dropped' = dropped
      BY <2>1, <3>1, <3>2
    <3>3. CASE lastPub' = lastPub /\ received' = received /\ dropped' = dropped + 1
      BY <3>1, <3>3
    <3> QED
      BY <1>8, <3>2, <3>3 DEF WorkerPublish
  <2>4. UNCHANGED <<cfg, threadVars, queue, callback, incoming, sent, queueDrops, frames,
                    arrived, late>>
    BY <1>8 DEF WorkerPublish
  <2> QED
    BY <2>2, <2>3, <2>4 DEF threadVars, TypeOK, WorkerPc
<1>9. CASE MainStep
  <2>1. main' \in MainPc
    BY <1>9 DEF MainStep, StopStep, CreateThread, SubscribeSucceeds, SubscribeThrows,
       ResetSubscription, ExchangeFlag, NotifyAll, JoinWorker, ShutdownPublisher, MainPc
  <2>2. flag' \in BOOLEAN /\ subscribed' \in BOOLEAN /\ advertised' \in BOOLEAN
    BY <1>9 DEF MainStep, StopStep, CreateThread, SubscribeSucceeds, SubscribeThrows,
       ResetSubscription, ExchangeFlag, NotifyAll, JoinWorker, ShutdownPublisher, TypeOK
  <2>3. MainUnchanged
    BY <1>9 DEF MainStep, StopStep, CreateThread, SubscribeSucceeds, SubscribeThrows,
       ResetSubscription, ExchangeFlag, NotifyAll, JoinWorker, ShutdownPublisher
  <2>4. worker' \in WorkerPc
    BY <1>9 DEF MainStep, StopStep, CreateThread, SubscribeSucceeds, SubscribeThrows,
       ResetSubscription, ExchangeFlag, NotifyAll, Notify, JoinWorker, ShutdownPublisher,
       TypeOK, WorkerPc
  <2> QED
    BY <2>1, <2>2, <2>3, <2>4 DEF MainUnchanged, TypeOK, metricVars, historyVars
<1>10. CASE Terminated \/ UNCHANGED vars
  BY <1>10 DEF Terminated, vars, threadVars, metricVars, historyVars, TypeOK
<1> QED
  BY <1>1, <1>2, <1>3, <1>4, <1>5, <1>6, <1>7, <1>8, <1>9, <1>10
     DEF Next, CallbackStep, WorkerStep

-----------------------------------------------------------------------------
(***************************************************************************)
(* Mutual exclusion and the hand-over between the three kinds of thread.   *)
(***************************************************************************)
LEMMA ThreadInit == Init => ThreadInv
  BY ReceiverAssumption DEF Init, ThreadInv, MainPc

LEMMA ThreadStep == TypeOK /\ ThreadInv /\ [Next]_vars => ThreadInv'
<1> SUFFICES ASSUME TypeOK, ThreadInv, [Next]_vars PROVE ThreadInv'
  OBVIOUS
<1> USE ReceiverAssumption
<1>1. ASSUME NEW h \in Hosts, DeliverAny(h) PROVE ThreadInv'
  <2>0. PICK seq \in (sent[h] + 1)..(sent[h] + 1 + MaxGap), wellFormed \in BOOLEAN :
          Deliver(h, seq, wellFormed)
    BY <1>1 DEF DeliverAny
  <2> QED
    BY <2>0 DEF Deliver, threadVars, ThreadInv, TypeOK
<1>2. ASSUME NEW h \in Hosts, CallbackLock(h) PROVE ThreadInv'
  BY <1>2 DEF CallbackLock, ThreadInv, TypeOK
<1>3. ASSUME NEW h \in Hosts, CallbackPush(h) PROVE ThreadInv'
  BY <1>3 DEF CallbackPush, ThreadInv, TypeOK
<1>4. ASSUME NEW h \in Hosts, CallbackNotify(h) PROVE ThreadInv'
  BY <1>4 DEF CallbackNotify, Notify, threadVars, ThreadInv, TypeOK
<1>5. CASE WorkerLock
  BY <1>5 DEF WorkerLock, ThreadInv, TypeOK
<1>6. CASE WorkerBlock
  BY <1>6 DEF WorkerBlock, ThreadInv, TypeOK
<1>7. CASE SpuriousWakeup
  BY <1>7 DEF SpuriousWakeup, threadVars, ThreadInv, TypeOK
<1>8. ASSUME NEW decodes \in BOOLEAN, WorkerPublish(decodes) PROVE ThreadInv'
  BY <1>8 DEF WorkerPublish, threadVars, ThreadInv, TypeOK
<1>9. CASE MainStep
  <2>1. CASE CreateThread
    BY <2>1 DEF CreateThread, MainUnchanged, ThreadInv, TypeOK, MainPc
  <2>2. CASE SubscribeSucceeds
    BY <2>2 DEF SubscribeSucceeds, MainUnchanged, ThreadInv, TypeOK, MainPc
  <2>3. CASE SubscribeThrows
    BY <2>3 DEF SubscribeThrows, MainUnchanged, ThreadInv, TypeOK, MainPc
  <2>4. CASE ResetSubscription
    BY <2>4 DEF ResetSubscription, MainUnchanged, ThreadInv, TypeOK, MainPc
  <2>5. CASE ExchangeFlag
    BY <2>5 DEF ExchangeFlag, MainUnchanged, ThreadInv, TypeOK, MainPc
  <2>6. CASE NotifyAll
    BY <2>6 DEF NotifyAll, Notify, MainUnchanged, ThreadInv, TypeOK, MainPc
  <2>7. CASE JoinWorker
    BY <2>7 DEF JoinWorker, MainUnchanged, ThreadInv, TypeOK, MainPc
  <2>8. CASE ShutdownPublisher
    BY <2>8 DEF ShutdownPublisher, MainUnchanged, ThreadInv, TypeOK, MainPc
  <2> QED
    BY <1>9, <2>1, <2>2, <2>3, <2>4, <2>5, <2>6, <2>7, <2>8 DEF MainStep, StopStep
<1>10. CASE Terminated \/ UNCHANGED vars
  BY <1>10 DEF Terminated, vars, threadVars, ThreadInv
<1> QED
  BY <1>1, <1>2, <1>3, <1>4, <1>5, <1>6, <1>7, <1>8, <1>9, <1>10
     DEF Next, CallbackStep, WorkerStep

\* The types and the thread invariant are inductive together.
THEOREM ReceiverInvariant == Spec => [](TypeOK /\ ThreadInv)
  BY TypeInit, TypeStep, ThreadInit, ThreadStep, PTL DEF Spec

\* Every variable of the receiver keeps its type under every interleaving.
THEOREM TypeCorrect == Spec => []TypeOK
  BY ReceiverInvariant, PTL

\* When the worker has returned, no accepted envelope is left in the queue or in a
\* callback that already passed its test of the flag.
THEOREM DrainedOnExit == Spec => []WorkerExitsDrained
<1>1. TypeOK /\ ThreadInv => WorkerExitsDrained
  <2> SUFFICES ASSUME TypeOK, ThreadInv, worker = "exited"
               PROVE  /\ queue = <<>> /\ hand = <<>>
                      /\ \A h \in Hosts : callback[h] # "push"
    BY DEF WorkerExitsDrained
  <2>1. hand \in Seq(Envelope) /\ Len(hand) = 0
    BY DEF TypeOK, ThreadInv
  <2> QED
    BY <2>1 DEF ThreadInv
<1> QED
  BY <1>1, ReceiverInvariant, PTL

\* stopThread shuts the publisher down only when the worker is gone and the queue
\* is empty.
THEOREM PublisherOutlivesWorker == Spec => []ShutdownAfterWorker
<1>1. TypeOK /\ ThreadInv => ShutdownAfterWorker
  BY DEF ThreadInv, ShutdownAfterWorker
<1> QED
  BY <1>1, ReceiverInvariant, PTL

-----------------------------------------------------------------------------
(***************************************************************************)
(* Conservation of envelopes.                                              *)
(***************************************************************************)

\* A callback that takes on an envelope adds one to the set in flight; one that
\* hands it over or discards it removes one.
LEMMA FlightCount ==
  ASSUME TypeOK, TypeOK', NEW h \in Hosts
  PROVE  /\ Cardinality(InFlight) \in Nat
         /\ /\ callback[h] = "idle"
            /\ callback' = [callback EXCEPT ![h] = "lock"]
            => Cardinality(InFlight') = Cardinality(InFlight) + 1
         /\ /\ callback[h] \in {"lock", "push"}
            /\ \E pc \in {"idle", "notify"} : callback' = [callback EXCEPT ![h] = pc]
            => Cardinality(InFlight') = Cardinality(InFlight) - 1
         /\ /\ callback[h] = "lock" /\ callback' = [callback EXCEPT ![h] = "push"]
            => InFlight' = InFlight
         /\ /\ callback[h] = "notify" /\ callback' = [callback EXCEPT ![h] = "idle"]
            => InFlight' = InFlight
<1>1. IsFiniteSet(InFlight)
  BY ReceiverAssumption, FS_Subset DEF InFlight
<1>2. Cardinality(InFlight) \in Nat
  BY <1>1, FS_CardinalityType
<1>3. ASSUME callback[h] = "idle", callback' = [callback EXCEPT ![h] = "lock"]
      PROVE  Cardinality(InFlight') = Cardinality(InFlight) + 1
  <2>1. h \notin InFlight /\ InFlight' = InFlight \cup {h}
    BY <1>3 DEF InFlight, TypeOK
  <2> QED
    BY <1>1, <2>1, FS_AddElement
<1>4. ASSUME callback[h] \in {"lock", "push"}, NEW pc \in {"idle", "notify"},
             callback' = [callback EXCEPT ![h] = pc]
      PROVE  Cardinality(InFlight') = Cardinality(InFlight) - 1
  <2>1. h \in InFlight /\ InFlight' = InFlight \ {h}
    BY <1>4 DEF InFlight, TypeOK
  <2> QED
    BY <1>1, <2>1, FS_RemoveElement
<1>5. ASSUME callback[h] = "lock", callback' = [callback EXCEPT ![h] = "push"]
      PROVE  InFlight' = InFlight
  BY <1>5 DEF InFlight, TypeOK
<1>6. ASSUME callback[h] = "notify", callback' = [callback EXCEPT ![h] = "idle"]
      PROVE  InFlight' = InFlight
  BY <1>6 DEF InFlight, TypeOK
<1> QED
  BY <1>2, <1>3, <1>4, <1>5, <1>6

LEMMA AccountedInit == Init => EveryEnvelopeAccounted
<1> SUFFICES ASSUME Init PROVE EveryEnvelopeAccounted
  OBVIOUS
<1>1. InFlight = {}
  BY DEF Init, InFlight
<1>2. Cardinality(InFlight) = 0
  BY <1>1, FS_EmptySet
<1> QED
  BY <1>2 DEF Init, EveryEnvelopeAccounted

LEMMA AccountedStep ==
  TypeOK /\ TypeOK' /\ ThreadInv /\ EveryEnvelopeAccounted /\ [Next]_vars
    => EveryEnvelopeAccounted'
<1> SUFFICES ASSUME TypeOK, TypeOK', ThreadInv, EveryEnvelopeAccounted, [Next]_vars
             PROVE  EveryEnvelopeAccounted'
  OBVIOUS
<1>0. /\ Len(queue) \in Nat /\ Len(hand) \in Nat
      /\ received \in Nat /\ dropped \in Nat /\ late \in Nat /\ arrived \in Nat
  BY DEF TypeOK
<1>1. ASSUME NEW h \in Hosts, DeliverAny(h) PROVE EveryEnvelopeAccounted'
  <2>0. PICK seq \in (sent[h] + 1)..(sent[h] + 1 + MaxGap), wellFormed \in BOOLEAN :
          Deliver(h, seq, wellFormed)
    BY <1>1 DEF DeliverAny
  <2>1. /\ callback[h] = "idle" /\ arrived' = arrived + 1
        /\ UNCHANGED <<queue, hand, received, late>>
        /\ \/ dropped' = dropped + 1 /\ callback' = callback
           \/ dropped' = dropped /\ callback' = [callback EXCEPT ![h] = "lock"]
    BY <2>0 DEF Deliver
  <2>2. CASE dropped' = dropped + 1 /\ callback' = callback
    <3>1. InFlight' = InFlight
      BY <2>2 DEF InFlight
    <3> QED
      BY <1>0, <2>1, <2>2, <3>1, FlightCount DEF EveryEnvelopeAccounted
  <2>3. CASE dropped' = dropped /\ callback' = [callback EXCEPT ![h] = "lock"]
    <3>1. Cardinality(InFlight') = Cardinality(InFlight) + 1 /\ Cardinality(InFlight) \in Nat
      BY <2>1, <2>3, FlightCount
    <3> QED
      BY <1>0, <2>1, <2>3, <3>1 DEF EveryEnvelopeAccounted
  <2> QED
    BY <2>1, <2>2, <2>3
<1>2. ASSUME NEW h \in Hosts, CallbackLock(h) PROVE EveryEnvelopeAccounted'
  <2>1. /\ callback[h] = "lock" /\ UNCHANGED <<queue, hand, received, dropped, arrived>>
        /\ \/ callback' = [callback EXCEPT ![h] = "push"] /\ late' = late
           \/ callback' = [callback EXCEPT ![h] = "idle"] /\ late' = late + 1
    BY <1>2 DEF CallbackLock, metricVars
  <2>2. CASE callback' = [callback EXCEPT ![h] = "push"] /\ late' = late
    <3>1. InFlight' = InFlight
      BY <2>1, <2>2, FlightCount
    <3> QED
      BY <2>1, <2>2, <3>1 DEF EveryEnvelopeAccounted
  <2>3. CASE callback' = [callback EXCEPT ![h] = "idle"] /\ late' = late + 1
    <3>1. Cardinality(InFlight') = Cardinality(InFlight) - 1 /\ Cardinality(InFlight) \in Nat
      BY <2>1, <2>3, FlightCount
    <3> QED
      BY <1>0, <2>1, <2>3, <3>1 DEF EveryEnvelopeAccounted
  <2> QED
    BY <2>1, <2>2, <2>3
<1>3. ASSUME NEW h \in Hosts, CallbackPush(h) PROVE EveryEnvelopeAccounted'
  <2>1. [src |-> h, seq |-> incoming[h]] \in Envelope
    BY DEF TypeOK, Envelope
  <2>2. Len(queue') = Len(queue) + (IF PushResult(cfg.qos, queue) = "enqueued" THEN 1 ELSE 0)
    BY <1>3, <2>1, PushKeepsQueue DEF CallbackPush, TypeOK
  <2>3. dropped' = dropped + (IF PushResult(cfg.qos, queue) = "enqueued" THEN 0 ELSE 1)
    BY <1>3 DEF CallbackPush
  <2>4. Cardinality(InFlight') = Cardinality(InFlight) - 1
    BY <1>3, FlightCount DEF CallbackPush
  <2>5. UNCHANGED <<hand, received, arrived, late>>
    BY <1>3 DEF CallbackPush, historyVars
  <2> QED
    BY <1>0, <2>2, <2>3, <2>4, <2>5, FlightCount DEF EveryEnvelopeAccounted
<1>4. ASSUME NEW h \in Hosts, CallbackNotify(h) PROVE EveryEnvelopeAccounted'
  <2>1. InFlight' = InFlight
    BY <1>4, FlightCount DEF CallbackNotify
  <2> QED
    BY <1>4, <2>1 DEF CallbackNotify, metricVars, historyVars, EveryEnvelopeAccounted
<1>5. ASSUME callback' = callback, arrived' = arrived, late' = late, NEW x \in Nat,
             received' + dropped' = received + dropped + x,
             Len(queue') + Len(hand') + x = Len(queue) + Len(hand)
      PROVE  EveryEnvelopeAccounted'
  <2>1. InFlight' = InFlight
    BY <1>5 DEF InFlight
  <2>2. Len(queue') \in Nat /\ Len(hand') \in Nat /\ received' \in Nat /\ dropped' \in Nat
    BY DEF TypeOK
  <2>3. Cardinality(InFlight) \in Nat /\ Cardinality(InFlight') = Cardinality(InFlight)
    BY <2>1, FlightCount, ReceiverAssumption
  <2> DEFINE q == Len(queue)  n == Len(hand)  q2 == Len(queue')  n2 == Len(hand')
             c == Cardinality(InFlight)  r2 == received'  d2 == dropped'
  <2>4. arrived = received + dropped + late + q + n + c
    BY DEF EveryEnvelopeAccounted
  <2>5. q \in Nat /\ n \in Nat /\ q2 \in Nat /\ n2 \in Nat /\ c \in Nat /\ r2 \in Nat /\ d2 \in Nat
    BY <1>0, <2>2, <2>3
  <2>6. r2 + d2 = received + dropped + x /\ q2 + n2 + x = q + n
    BY <1>5
  <2>7. arrived = r2 + d2 + late + q2 + n2 + c
    <3> HIDE DEF q, n, q2, n2, c, r2, d2
    <3> QED
      BY <1>0, <2>4, <2>5, <2>6
  <2> QED
    BY <1>5, <2>3, <2>7 DEF EveryEnvelopeAccounted
<1>6. CASE WorkerLock
  <2>1. UNCHANGED <<callback, arrived, late, received, dropped>>
    BY <1>6 DEF WorkerLock, metricVars, historyVars
  <2>2. Len(queue') + Len(hand') + 0 = Len(queue) + Len(hand)
    <3>1. CASE queue = <<>>
      BY <1>0, <1>6, <3>1 DEF WorkerLock
    <3>2. CASE queue # <<>>
      <4>1. Len(hand) = 0
        BY <1>6 DEF WorkerLock, ThreadInv
      <4>2. Len(Tail(queue)) = Len(queue) - 1
        BY <3>2, NonEmptyQueue DEF TypeOK
      <4>3. queue' = Tail(queue) /\ Len(hand') = 1
        BY <1>6, <3>2 DEF WorkerLock
      <4> QED
        BY <1>0, <4>1, <4>2, <4>3
    <3> QED
      BY <3>1, <3>2
  <2> QED
    BY <1>0, <1>5, <2>1, <2>2
<1>7. ASSUME NEW decodes \in BOOLEAN, WorkerPublish(decodes) PROVE EveryEnvelopeAccounted'
  <2>1. Len(hand) = 1 /\ Len(hand') = 0
    BY <1>7 DEF WorkerPublish, ThreadInv
  <2>2. received' + dropped' = received + dropped + 1 /\ UNCHANGED <<callback, arrived, late, queue>>
    BY <1>0, <1>7 DEF WorkerPublish
  <2> QED
    BY <1>0, <1>5, <2>1, <2>2
<1>8. CASE WorkerBlock \/ SpuriousWakeup \/ MainStep \/ Terminated \/ UNCHANGED vars
  <2>1. UNCHANGED <<callback, arrived, late, queue, hand, received, dropped>>
    BY <1>8 DEF WorkerBlock, SpuriousWakeup, MainStep, StopStep, CreateThread,
       SubscribeSucceeds, SubscribeThrows, ResetSubscription, ExchangeFlag, NotifyAll,
       JoinWorker, ShutdownPublisher, MainUnchanged, Terminated, vars, metricVars, historyVars
  <2> QED
    BY <1>0, <1>5, <2>1
<1> QED
  BY <1>1, <1>2, <1>3, <1>4, <1>6, <1>7, <1>8 DEF Next, CallbackStep, WorkerStep

\* Every envelope handed to enqueueEnvelope is accounted for exactly once.
THEOREM Conservation == Spec => []EveryEnvelopeAccounted
<1>1. Init => TypeOK /\ ThreadInv /\ EveryEnvelopeAccounted
  BY TypeInit, ThreadInit, AccountedInit
<1>2. TypeOK /\ ThreadInv /\ EveryEnvelopeAccounted /\ [Next]_vars
        => (TypeOK /\ ThreadInv /\ EveryEnvelopeAccounted)'
  BY TypeStep, ThreadStep, AccountedStep
<1> QED
  BY <1>1, <1>2, PTL DEF Spec

-----------------------------------------------------------------------------
(***************************************************************************)
(* What a push does to positions.                                          *)
(***************************************************************************)

\* The elements of a sequence after Append and after Tail.
LEMMA AppendAt ==
  ASSUME NEW S, NEW q \in Seq(S), NEW e \in S
  PROVE  /\ Len(Append(q, e)) = Len(q) + 1
         /\ Append(q, e)[Len(q) + 1] = e
         /\ \A i \in 1..Len(q) : Append(q, e)[i] = q[i]
  OBVIOUS

LEMMA TailAt ==
  ASSUME NEW S, NEW q \in Seq(S), Len(q) >= 1
  PROVE  /\ Tail(q) \in Seq(S)
         /\ Len(Tail(q)) = Len(q) - 1
         /\ \A i \in 1..Len(Tail(q)) : Tail(q)[i] = q[i + 1]
  OBVIOUS

\* After a push every position holds the new envelope, at the end, or an old one that
\* kept its place or moved up by one with all the others.
Shifted(q, new, e, d) ==
  \A i \in 1..Len(new) : \/ i = Len(new) /\ new[i] = e
                         \/ i + d \in 1..Len(q) /\ new[i] = q[i + d]

LEMMA PushShape ==
  ASSUME NEW S, NEW q \in Seq(S), NEW e \in S, NEW qos
  PROVE  \E d \in {0, 1} : Shifted(q, PushToBoundedEnvelopeQueue(qos, e, q), e, d)
<1>1. Capacity(qos) \in Nat /\ Capacity(qos) >= 1
  BY CapacityPositive
<1>2. CASE PushResult(qos, q) = "enqueued"
  <2>1. PushToBoundedEnvelopeQueue(qos, e, q) = Append(q, e)
    BY <1>2 DEF PushToBoundedEnvelopeQueue
  <2>2. Shifted(q, Append(q, e), e, 0)
    <3>1. Len(q) \in Nat
      OBVIOUS
    <3> QED
      BY <3>1, AppendAt DEF Shifted
  <2> QED
    BY <2>1, <2>2
<1>3. CASE PushResult(qos, q) = "replaced"
  <2>1. PushToBoundedEnvelopeQueue(qos, e, q) = Append(Tail(q), e)
    BY <1>3 DEF PushToBoundedEnvelopeQueue
  <2>2. Len(q) \in Nat /\ Len(q) >= 1
    BY <1>1, <1>3 DEF PushResult
  <2>3. Shifted(q, Append(Tail(q), e), e, 1)
    <3>1. /\ Tail(q) \in Seq(S) /\ Len(Tail(q)) = Len(q) - 1
          /\ \A i \in 1..Len(Tail(q)) : Tail(q)[i] = q[i + 1]
      BY <2>2, TailAt
    <3>2. /\ Len(Append(Tail(q), e)) = Len(Tail(q)) + 1
          /\ Append(Tail(q), e)[Len(Tail(q)) + 1] = e
          /\ \A i \in 1..Len(Tail(q)) : Append(Tail(q), e)[i] = Tail(q)[i]
      BY <3>1, AppendAt
    <3> DEFINE new == Append(Tail(q), e)
    <3>3. SUFFICES ASSUME NEW i \in 1..Len(new)
                   PROVE  \/ i = Len(new) /\ new[i] = e
                          \/ i + 1 \in 1..Len(q) /\ new[i] = q[i + 1]
      BY DEF Shifted
    <3>4. Len(new) = Len(q) /\ new[Len(q)] = e
      BY <2>2, <3>1, <3>2
    <3>5. ASSUME i # Len(q) PROVE i \in 1..Len(Tail(q)) /\ i + 1 \in 1..Len(q)
      <4> DEFINE n == Len(q)
      <4>1. n \in Nat /\ n >= 1 /\ i \in 1..n /\ i # n
        BY <2>2, <3>4, <3>5
      <4> HIDE DEF n
      <4>2. i \in 1..(n - 1) /\ i + 1 \in 1..n
        BY <4>1
      <4> QED
        BY <3>1, <4>2 DEF n
    <3>6. ASSUME i # Len(q) PROVE new[i] = q[i + 1]
      BY <3>1, <3>2, <3>5, <3>6
    <3> QED
      BY <3>4, <3>5, <3>6
  <2> QED
    BY <2>1, <2>3
<1>4. CASE PushResult(qos, q) = "rejected"
  <2>1. PushToBoundedEnvelopeQueue(qos, e, q) = q
    BY <1>4 DEF PushToBoundedEnvelopeQueue
  <2>2. Shifted(q, q, e, 0)
    BY DEF Shifted
  <2> QED
    BY <2>1, <2>2
<1> QED
  BY <1>2, <1>3, <1>4, PushKeepsQueue

-----------------------------------------------------------------------------
(***************************************************************************)
(* The invariant.                                                          *)
(***************************************************************************)
LEMMA OrderInit == Init => OrderInv
  BY DEF Init, OrderInv

\* Steps that touch neither an envelope's place nor the numbers it is compared with.
LEMMA OrderUnchanged ==
  ASSUME OrderInv, UNCHANGED <<queue, hand, callback, incoming, sent, lastPub>>
  PROVE  OrderInv'
  BY DEF OrderInv, Pending

\* The types that the order proof uses.
LEMMA OrderTypes ==
  ASSUME TypeOK
  PROVE  /\ queue \in Seq(Envelope) /\ hand \in Seq(Envelope)
         /\ Len(queue) \in Nat /\ Len(hand) \in Nat
         /\ callback \in [Hosts -> CallbackPc]
         /\ incoming \in [Hosts -> Nat] /\ sent \in [Hosts -> Nat] /\ lastPub \in [Hosts -> Nat]
         /\ \A i \in 1..Len(queue) : queue[i].src \in Hosts /\ queue[i].seq \in Nat
         /\ \A i \in 1..Len(hand) : hand[i].src \in Hosts /\ hand[i].seq \in Nat
<1>1. queue \in Seq(Envelope) /\ hand \in Seq(Envelope)
  BY DEF TypeOK
<1>2. /\ Len(queue) \in Nat /\ Len(hand) \in Nat
      /\ \A i \in 1..Len(queue) : queue[i] \in Envelope
      /\ \A i \in 1..Len(hand) : hand[i] \in Envelope
  BY <1>1
<1>3. \A e \in Envelope : e.src \in Hosts /\ e.seq \in Nat
  BY DEF Envelope
<1>4. /\ callback \in [Hosts -> CallbackPc]
      /\ incoming \in [Hosts -> Nat] /\ sent \in [Hosts -> Nat] /\ lastPub \in [Hosts -> Nat]
  BY DEF TypeOK
<1> QED
  BY <1>1, <1>2, <1>3, <1>4

\* A sample arrives: its number is higher than all that were delivered before.
LEMMA OrderDeliver ==
  ASSUME TypeOK, OrderInv, NEW h \in Hosts, DeliverAny(h)
  PROVE  OrderInv'
<1>0. PICK seq \in (sent[h] + 1)..(sent[h] + 1 + MaxGap), wellFormed \in BOOLEAN :
        Deliver(h, seq, wellFormed)
  BY DEF DeliverAny
<1>1. seq \in Nat /\ seq > sent[h] /\ sent[h] \in Nat
  BY <1>0, OrderTypes, ReceiverAssumption
<1>2. /\ queue' = queue /\ hand' = hand /\ lastPub' = lastPub
      /\ sent' = [sent EXCEPT ![h] = seq]
      /\ callback[h] = "idle"
  BY <1>0 DEF Deliver
<1>3. \/ callback' = callback /\ incoming' = incoming
      \/ /\ callback' = [callback EXCEPT ![h] = "lock"]
         /\ incoming' = [incoming EXCEPT ![h] = seq]
  BY <1>0 DEF Deliver
<1>4. \A g \in Hosts : /\ lastPub'[g] = lastPub[g] /\ sent[g] <= sent'[g]
                       /\ \/ callback'[g] = callback[g] /\ incoming'[g] = incoming[g]
                          \/ incoming'[g] = sent'[g] /\ sent[g] < incoming'[g]
  BY <1>1, <1>2, <1>3, OrderTypes
<1>5. \A g \in Hosts : sent'[g] \in Nat /\ sent[g] \in Nat /\ lastPub[g] \in Nat
  BY <1>1, <1>2, OrderTypes
<1>6. ASSUME NEW g \in Hosts
      PROVE  /\ lastPub'[g] <= sent'[g]
             /\ callback'[g] \in {"lock", "push"} =>
                  lastPub'[g] < incoming'[g] /\ incoming'[g] <= sent'[g]
  <2>1. lastPub[g] <= sent[g]
    BY DEF OrderInv
  <2>2. callback[g] \in {"lock", "push"} => lastPub[g] < incoming[g] /\ incoming[g] <= sent[g]
    BY DEF OrderInv
  <2>3. incoming[g] \in Nat /\ incoming'[g] \in Nat
    BY <1>1, <1>3, OrderTypes
  <2> QED
    BY <1>4, <1>5, <2>1, <2>2, <2>3
<1>7. ASSUME NEW e, e.src \in Hosts, e.seq \in Nat, Pending(e)
      PROVE  Pending(e)'
  <2>1. incoming[e.src] \in Nat /\ incoming'[e.src] \in Nat
    BY <1>1, <1>3, <1>7, OrderTypes
  <2>2. /\ lastPub[e.src] < e.seq /\ e.seq <= sent[e.src]
        /\ callback[e.src] \in {"lock", "push"} => e.seq < incoming[e.src]
    BY <1>7 DEF Pending
  <2>3. /\ lastPub'[e.src] < e.seq /\ e.seq <= sent'[e.src]
        /\ callback'[e.src] \in {"lock", "push"} => e.seq < incoming'[e.src]
    BY <1>4, <1>5, <1>7, <2>1, <2>2
  <2> QED
    BY <2>3 DEF Pending
<1>8. /\ \A i \in 1..Len(queue) : Pending(queue[i])'
      /\ \A k \in 1..Len(hand) : Pending(hand[k])'
  <2>1. \A i \in 1..Len(queue) : /\ queue'[i] = queue[i] /\ queue[i].src \in Hosts
                                 /\ queue[i].seq \in Nat /\ Pending(queue[i])
    BY <1>2, OrderTypes DEF OrderInv
  <2>2. \A k \in 1..Len(hand) : /\ hand'[k] = hand[k] /\ hand[k].src \in Hosts
                                /\ hand[k].seq \in Nat /\ Pending(hand[k])
    BY <1>2, OrderTypes DEF OrderInv
  <2> QED
    BY <1>2, <1>7, <2>1, <2>2 DEF Pending
<1> QED
  BY <1>2, <1>6, <1>8 DEF OrderInv

\* A callback finds the flag set, or gives up.
LEMMA OrderCallbackLock ==
  ASSUME TypeOK, OrderInv, NEW h \in Hosts, CallbackLock(h) \/ CallbackNotify(h)
  PROVE  OrderInv'
<1>1. UNCHANGED <<queue, hand, incoming, sent, lastPub>>
  BY DEF CallbackLock, CallbackNotify, historyVars
<1>2. \A g \in Hosts : callback'[g] \in {"lock", "push"} => callback[g] \in {"lock", "push"}
  <2>1. \/ callback[h] = "lock" /\ callback' = [callback EXCEPT ![h] = "push"]
        \/ callback' = [callback EXCEPT ![h] = "idle"]
    BY DEF CallbackLock, CallbackNotify
  <2> QED
    BY <2>1, OrderTypes
<1>3. ASSUME NEW e, e.src \in Hosts, Pending(e)
      PROVE  Pending(e)'
  BY <1>1, <1>2, <1>3 DEF Pending
<1>4. /\ \A i \in 1..Len(queue) : Pending(queue[i])'
      /\ \A k \in 1..Len(hand) : Pending(hand[k])'
  <2>1. \A i \in 1..Len(queue) : queue'[i] = queue[i] /\ queue[i].src \in Hosts /\ Pending(queue[i])
    BY <1>1, OrderTypes DEF OrderInv
  <2>2. \A k \in 1..Len(hand) : hand'[k] = hand[k] /\ hand[k].src \in Hosts /\ Pending(hand[k])
    BY <1>1, OrderTypes DEF OrderInv
  <2> QED
    BY <1>1, <1>3, <2>1, <2>2 DEF Pending
<1> QED
  BY <1>1, <1>2, <1>4 DEF OrderInv

\* The push: the new envelope is later than all that its host has on the path.
LEMMA OrderPush ==
  ASSUME TypeOK, OrderInv, NEW h \in Hosts, CallbackPush(h)
  PROVE  OrderInv'
<1> DEFINE e == [src |-> h, seq |-> incoming[h]]
<1>1. /\ UNCHANGED <<hand, incoming, sent, lastPub>>
      /\ callback[h] = "push"
      /\ queue' = PushToBoundedEnvelopeQueue(cfg.qos, e, queue)
  BY DEF CallbackPush, historyVars
<1>2. /\ callback'[h] \notin {"lock", "push"}
      /\ \A g \in Hosts \ {h} : callback'[g] = callback[g]
  BY OrderTypes DEF CallbackPush
<1>3. e \in Envelope /\ e.src = h /\ e.seq = incoming[h] /\ incoming[h] \in Nat
  BY OrderTypes DEF Envelope
<1>4. queue' \in Seq(Envelope) /\ Len(queue') \in Nat /\ Len(queue) \in Nat
  BY <1>1, <1>3, PushKeepsQueue, OrderTypes
<1>5. PICK d \in {0, 1} : Shifted(queue, queue', e, d)
  BY <1>1, <1>3, PushShape, OrderTypes
<1>6. ASSUME NEW x, x.src \in Hosts, Pending(x)
      PROVE  Pending(x)' /\ (x.src = h => x.seq < incoming[h])
  BY <1>1, <1>2, <1>6 DEF Pending
<1>7. /\ lastPub'[h] < e.seq /\ e.seq <= sent'[h]
  BY <1>1, <1>3 DEF OrderInv
<1>8. \A g \in Hosts : /\ lastPub'[g] <= sent'[g]
                       /\ callback'[g] \in {"lock", "push"} =>
                            lastPub'[g] < incoming'[g] /\ incoming'[g] <= sent'[g]
  BY <1>1, <1>2 DEF OrderInv
<1>9. \A i \in 1..Len(queue) : queue[i].src \in Hosts /\ Pending(queue[i])
  BY OrderTypes DEF OrderInv
<1>10. ASSUME NEW i \in 1..Len(queue')
       PROVE  Pending(queue[i])'
  <2>1. CASE i = Len(queue') /\ queue'[i] = e
    BY <1>2, <1>3, <1>7, <2>1 DEF Pending
  <2>2. CASE i + d \in 1..Len(queue) /\ queue'[i] = queue[i + d]
    BY <1>1, <1>2, <1>9, <2>2 DEF Pending
  <2> QED
    BY <1>5, <2>1, <2>2 DEF Shifted
<1>11. ASSUME NEW i \in 1..Len(queue'), NEW j \in 1..Len(queue'),
              i < j, queue'[i].src = queue'[j].src
       PROVE  queue'[i].seq < queue'[j].seq
  <2>1. i + d \in 1..Len(queue) /\ queue'[i] = queue[i + d]
    BY <1>4, <1>5, <1>11 DEF Shifted
  <2>2. CASE queue'[j] = e
    BY <1>3, <1>6, <1>9, <1>11, <2>1, <2>2
  <2>3. CASE j + d \in 1..Len(queue) /\ queue'[j] = queue[j + d]
    <3>1. i + d < j + d
      BY <1>11
    <3> QED
      BY <1>11, <2>1, <2>3, <3>1 DEF OrderInv
  <2> QED
    BY <1>5, <2>2, <2>3 DEF Shifted
<1>12. ASSUME NEW k \in 1..Len(hand)
       PROVE  /\ hand[k].src \in Hosts /\ Pending(hand[k]) /\ Pending(hand[k])'
              /\ \A i \in 1..Len(queue') :
                   hand[k].src = queue'[i].src => hand[k].seq < queue'[i].seq
  <2>1. hand[k].src \in Hosts /\ Pending(hand[k])
    BY OrderTypes DEF OrderInv
  <2>2. Pending(hand[k])'
    BY <1>1, <1>2, <2>1 DEF Pending
  <2>3. ASSUME NEW i \in 1..Len(queue'), hand[k].src = queue'[i].src
        PROVE  hand[k].seq < queue'[i].seq
    <3>1. CASE queue'[i] = e
      BY <1>3, <1>6, <2>1, <2>3, <3>1
    <3>2. CASE i + d \in 1..Len(queue) /\ queue'[i] = queue[i + d]
      BY <2>3, <3>2 DEF OrderInv
    <3> QED
      BY <1>5, <3>1, <3>2 DEF Shifted
  <2> QED
    BY <2>1, <2>2, <2>3
<1> QED
  BY <1>1, <1>8, <1>10, <1>11, <1>12 DEF OrderInv

\* The worker takes the head of the queue: the order along the path is the same.
LEMMA OrderWorkerLock ==
  ASSUME TypeOK, ThreadInv, OrderInv, WorkerLock
  PROVE  OrderInv'
<1>1. UNCHANGED <<callback, incoming, sent, lastPub>>
  BY DEF WorkerLock, historyVars
<1>2. CASE queue' = queue /\ hand' = hand
  BY <1>1, <1>2, OrderUnchanged
<1>3. CASE queue # <<>> /\ hand' = <<Head(queue)>> /\ queue' = Tail(queue)
  <2>1. queue \in Seq(Envelope) /\ Len(queue) \in Nat /\ Len(queue) >= 1
    BY <1>3, OrderTypes, NonEmptyQueue
  <2>2. /\ Len(queue') = Len(queue) - 1 /\ Len(queue') \in Nat
        /\ \A i \in 1..Len(queue') : queue'[i] = queue[i + 1]
    BY <1>3, <2>1, TailAt
  <2>3. Len(hand') = 1 /\ hand'[1] = queue[1]
    BY <1>3, <2>1
  <2>4. \A i \in 1..Len(queue') : i + 1 \in 1..Len(queue)
    <3> DEFINE m == Len(queue')
               n == Len(queue)
    <3>1. m \in Nat /\ n \in Nat /\ m = n - 1
      BY <2>1, <2>2
    <3> HIDE DEF m, n
    <3>2. \A i \in 1..m : i + 1 \in 1..n
      BY <3>1
    <3> QED
      BY <3>2 DEF m, n
  <2>5. 1 \in 1..Len(queue)
    BY <2>1
  <2>6. \A i \in 1..Len(queue) : Pending(queue[i])
    BY DEF OrderInv
  <2>7. \A i \in 1..Len(queue') : Pending(queue[i])'
    <3>1. \A i \in 1..Len(queue') : Pending(queue[i + 1]) /\ queue'[i] = queue[i + 1]
      BY <2>2, <2>4, <2>6
    <3> QED
      BY <1>1, <3>1 DEF Pending
  <2>8. \A i, j \in 1..Len(queue') :
          i < j /\ queue'[i].src = queue'[j].src => queue'[i].seq < queue'[j].seq
    <3>1. SUFFICES ASSUME NEW i \in 1..Len(queue'), NEW j \in 1..Len(queue'), i < j,
                          queue'[i].src = queue'[j].src
                   PROVE  queue'[i].seq < queue'[j].seq
      OBVIOUS
    <3>2. i + 1 < j + 1
      BY <3>1
    <3>3. /\ i + 1 \in 1..Len(queue) /\ queue'[i] = queue[i + 1]
          /\ j + 1 \in 1..Len(queue) /\ queue'[j] = queue[j + 1]
      BY <2>2, <2>4
    <3> QED
      BY <3>1, <3>2, <3>3 DEF OrderInv
  <2>9. /\ Pending(hand[1])'
        /\ \A i \in 1..Len(queue') :
             hand'[1].src = queue'[i].src => hand'[1].seq < queue'[i].seq
    <3>1. Pending(hand[1])'
      <4>1. Pending(queue[1])
        BY <2>5, <2>6
      <4> QED
        BY <1>1, <2>3, <4>1 DEF Pending
    <3>2. ASSUME NEW i \in 1..Len(queue'), hand'[1].src = queue'[i].src
          PROVE  hand'[1].seq < queue'[i].seq
      <4>1. i + 1 \in 1..Len(queue) /\ queue'[i] = queue[i + 1] /\ 1 < i + 1
        BY <2>2, <2>4
      <4> QED
        BY <2>3, <2>5, <3>2, <4>1 DEF OrderInv
    <3> QED
      BY <3>1, <3>2
  <2>10. \A g \in Hosts : /\ lastPub'[g] <= sent'[g]
                          /\ callback'[g] \in {"lock", "push"} =>
                               lastPub'[g] < incoming'[g] /\ incoming'[g] <= sent'[g]
    BY <1>1 DEF OrderInv
  <2>11. \A k \in 1..Len(hand') : k = 1
    BY <2>3
  <2> QED
    BY <2>7, <2>8, <2>9, <2>10, <2>11 DEF OrderInv
<1> QED
  BY <1>2, <1>3 DEF WorkerLock

\* The worker publishes what it holds, or drops it; the rest of the path is later.
LEMMA OrderPublish ==
  ASSUME TypeOK, ThreadInv, OrderInv, NEW decodes \in BOOLEAN, WorkerPublish(decodes)
  PROVE  /\ OrderInv'
         /\ received' # received =>
              \E h \in Hosts : /\ lastPub'[h] > lastPub[h]
                               /\ \A g \in Hosts \ {h} : lastPub'[g] = lastPub[g]
<1>1. UNCHANGED <<queue, callback, incoming, sent>> /\ hand' = <<>>
  BY DEF WorkerPublish
<1>2. Len(hand) = 1
  BY DEF WorkerPublish, ThreadInv
<1>3. 1 \in 1..Len(hand) /\ Len(hand') = 0
  BY <1>1, <1>2
<1>4. /\ hand[1].src \in Hosts /\ hand[1].seq \in Nat
      /\ lastPub[hand[1].src] < hand[1].seq /\ hand[1].seq <= sent[hand[1].src]
      /\ callback[hand[1].src] \in {"lock", "push"} => hand[1].seq < incoming[hand[1].src]
      /\ \A i \in 1..Len(queue) : hand[1].src = queue[i].src => hand[1].seq < queue[i].seq
  BY <1>3, OrderTypes DEF OrderInv, Pending
<1>5. \/ lastPub' = lastPub /\ received' = received
      \/ lastPub' = [lastPub EXCEPT ![hand[1].src] = hand[1].seq]
  BY DEF WorkerPublish
<1>6. CASE lastPub' = lastPub /\ received' = received
  <2>1. \A i \in 1..Len(queue) : Pending(queue[i])'
    BY <1>1, <1>6 DEF OrderInv, Pending
  <2>2. OrderInv'
    BY <1>1, <1>3, <1>6, <2>1 DEF OrderInv
  <2> QED
    BY <1>6, <2>2
<1>7. CASE lastPub' = [lastPub EXCEPT ![hand[1].src] = hand[1].seq]
  <2> DEFINE h == hand[1].src
  <2>1. lastPub'[h] = hand[1].seq /\ \A g \in Hosts \ {h} : lastPub'[g] = lastPub[g]
    BY <1>4, <1>7, OrderTypes
  <2>2. \A i \in 1..Len(queue) : Pending(queue[i])'
    <3>1. \A i \in 1..Len(queue) : Pending(queue[i]) /\ queue[i].src \in Hosts
      BY OrderTypes DEF OrderInv
    <3> QED
      BY <1>1, <1>4, <2>1, <3>1 DEF Pending
  <2>3. \A g \in Hosts : /\ lastPub'[g] <= sent'[g]
                         /\ callback'[g] \in {"lock", "push"} =>
                              lastPub'[g] < incoming'[g] /\ incoming'[g] <= sent'[g]
    <3>1. ASSUME NEW g \in Hosts
          PROVE  /\ lastPub[g] <= sent[g]
                 /\ callback[g] \in {"lock", "push"} =>
                      lastPub[g] < incoming[g] /\ incoming[g] <= sent[g]
      BY DEF OrderInv
    <3> QED
      BY <1>1, <1>4, <2>1, <3>1
  <2>4. OrderInv'
    BY <1>1, <1>3, <2>2, <2>3 DEF OrderInv
  <2>5. lastPub'[h] > lastPub[h]
    BY <1>4, <2>1, OrderTypes
  <2> QED
    BY <1>4, <2>1, <2>4, <2>5
<1> QED
  BY <1>5, <1>6, <1>7

\* What a step may do to the publication counters.
PublishStep ==
  received' # received =>
    \E h \in Hosts : /\ lastPub'[h] > lastPub[h]
                     /\ \A g \in Hosts \ {h} : lastPub'[g] = lastPub[g]

LEMMA OrderStep ==
  ASSUME TypeOK, ThreadInv, OrderInv, [Next]_vars
  PROVE  OrderInv' /\ PublishStep
<1>1. ASSUME NEW h \in Hosts, DeliverAny(h) PROVE OrderInv' /\ PublishStep
  <2>1. received' = received
    BY <1>1 DEF DeliverAny, Deliver
  <2> QED
    BY <1>1, <2>1, OrderDeliver DEF PublishStep
<1>2. ASSUME NEW h \in Hosts, CallbackLock(h) \/ CallbackNotify(h) PROVE OrderInv' /\ PublishStep
  <2>1. received' = received
    BY <1>2 DEF CallbackLock, CallbackNotify, metricVars
  <2> QED
    BY <1>2, <2>1, OrderCallbackLock DEF PublishStep
<1>3. ASSUME NEW h \in Hosts, CallbackPush(h) PROVE OrderInv' /\ PublishStep
  <2>1. received' = received
    BY <1>3 DEF CallbackPush
  <2> QED
    BY <1>3, <2>1, OrderPush DEF PublishStep
<1>4. CASE WorkerLock
  <2>1. received' = received
    BY <1>4 DEF WorkerLock, metricVars
  <2> QED
    BY <1>4, <2>1, OrderWorkerLock DEF PublishStep
<1>5. ASSUME NEW decodes \in BOOLEAN, WorkerPublish(decodes) PROVE OrderInv' /\ PublishStep
  BY <1>5, OrderPublish DEF PublishStep
<1>6. CASE UNCHANGED <<queue, hand, callback, incoming, sent, lastPub, received>>
  BY <1>6, OrderUnchanged DEF PublishStep
<1>7. CASE WorkerBlock \/ SpuriousWakeup
  BY <1>6, <1>7 DEF WorkerBlock, SpuriousWakeup, metricVars, historyVars
<1>8. CASE MainStep
  <2>1. MainUnchanged
    BY <1>8 DEF MainStep, StopStep, CreateThread, SubscribeSucceeds, SubscribeThrows,
       ResetSubscription, ExchangeFlag, NotifyAll, JoinWorker, ShutdownPublisher
  <2> QED
    BY <1>6, <2>1 DEF MainUnchanged, metricVars, historyVars
<1>9. CASE Terminated \/ UNCHANGED vars
  BY <1>6, <1>9 DEF Terminated, vars, metricVars, historyVars
<1> QED
  BY <1>1, <1>2, <1>3, <1>4, <1>5, <1>7, <1>8, <1>9 DEF Next, CallbackStep, WorkerStep

\* In every behaviour of the receiver the sequence numbers of each host increase from
\* the last publication through hand, queue and callback to what was delivered.
THEOREM OrderInvariant == Spec => []OrderInv
<1>1. TypeOK /\ ThreadInv /\ OrderInv /\ [Next]_vars => OrderInv'
  BY OrderStep
<1> QED
  BY <1>1, OrderInit, ReceiverInvariant, PTL DEF Spec

\* recvFunction publishes the envelopes of each host in the order of their sequence
\* numbers and never one twice, for any number of hosts and any queue capacity.
THEOREM PublishedInOrder == Spec => PublishInOrder
<1>1. TypeOK /\ ThreadInv /\ OrderInv /\ [Next]_vars =>
        [received' # received =>
           \E h \in Hosts : /\ lastPub'[h] > lastPub[h]
                            /\ \A g \in Hosts \ {h} : lastPub'[g] = lastPub[g]]_vars
  BY OrderStep DEF PublishStep
<1> QED
  BY <1>1, OrderInvariant, ReceiverInvariant, PTL DEF Spec, PublishInOrder

-----------------------------------------------------------------------------
(***************************************************************************)
(* The mailbox.  Besides ThreadInv the mapping needs two facts: the queue  *)
(* is never longer than its class allows, and a callback that may still    *)
(* push holds an envelope that was sent.                                   *)
(***************************************************************************)
BoxInv ==
  /\ Len(queue) <= Capacity(cfg.qos)
  /\ \A h \in Hosts : callback[h] \in {"lock", "push"} => incoming[h] \in 1..MaxSeq

\* A push is a step of the mailbox, or no step when the envelope is rejected.
LEMMA PushIsPut ==
  ASSUME NEW S, NEW q \in Seq(S), NEW e \in S, NEW qos, NEW c \in Nat, c = Capacity(qos),
         Len(q) <= c, NEW new, new = PushToBoundedEnvelopeQueue(qos, e, q)
  PROVE  /\ Len(new) <= c
         /\ \/ new = q
            \/ Len(q) < c /\ new = Append(q, e)
            \/ Len(q) = c /\ GetQosPolicy(qos).keep_latest /\ new = Append(Tail(q), e)
<1>0. c >= 1 /\ Len(q) \in Nat
  BY CapacityPositive
<1>1. CASE Len(q) < c
  <2>1. new = Append(q, e)
    BY <1>1 DEF PushToBoundedEnvelopeQueue, PushResult
  <2>2. Len(Append(q, e)) = Len(q) + 1
    OBVIOUS
  <2>3. Len(new) <= c
    BY <1>0, <1>1, <2>1, <2>2
  <2> QED
    BY <1>1, <2>1, <2>3
<1>2. CASE Len(q) = c /\ GetQosPolicy(qos).keep_latest
  <2>1. new = Append(Tail(q), e)
    BY <1>0, <1>2 DEF PushToBoundedEnvelopeQueue, PushResult
  <2>2. q # <<>>
    BY <1>0, <1>2
  <2>3. Tail(q) \in Seq(S) /\ Len(Tail(q)) = Len(q) - 1
    BY <2>2, NonEmptyQueue
  <2>4. Len(Append(Tail(q), e)) = Len(Tail(q)) + 1
    BY <2>3
  <2>5. Len(new) <= c
    BY <1>0, <1>2, <2>1, <2>3, <2>4
  <2> QED
    BY <1>2, <2>1, <2>5
<1>3. CASE Len(q) = c /\ ~GetQosPolicy(qos).keep_latest
  <2>1. new = q
    BY <1>0, <1>3 DEF PushToBoundedEnvelopeQueue, PushResult
  <2> QED
    BY <1>3, <2>1
<1> QED
  BY <1>0, <1>1, <1>2, <1>3

LEMMA BoxInit == Init => BoxInv
<1> SUFFICES ASSUME Init PROVE BoxInv
  OBVIOUS
<1>1. queue = <<>> /\ callback = [h \in Hosts |-> "idle"]
  BY DEF Init
<1>2. Len(queue) = 0 /\ Capacity(cfg.qos) \in Nat
  BY <1>1, CapacityPositive
<1>3. Len(queue) <= Capacity(cfg.qos)
  BY <1>2
<1> QED
  BY <1>1, <1>3 DEF BoxInv

LEMMA BoxStep == TypeOK /\ BoxInv /\ [Next]_vars => BoxInv'
<1> SUFFICES ASSUME TypeOK, BoxInv, [Next]_vars PROVE BoxInv'
  OBVIOUS
<1>0. /\ Capacity(cfg.qos) \in Nat /\ Len(queue) \in Nat /\ Len(queue) <= Capacity(cfg.qos)
      /\ callback \in [Hosts -> CallbackPc] /\ incoming \in [Hosts -> Nat]
  BY CapacityPositive DEF TypeOK, BoxInv
<1>1. UNCHANGED cfg
  BY DEF Next, DeliverAny, Deliver, CallbackStep, CallbackLock, CallbackPush, CallbackNotify,
     WorkerStep, WorkerLock, WorkerBlock, WorkerPublish, SpuriousWakeup, MainStep, StopStep,
     CreateThread, SubscribeSucceeds, SubscribeThrows, ResetSubscription, ExchangeFlag,
     NotifyAll, JoinWorker, ShutdownPublisher, MainUnchanged, Terminated, vars
<1>2. ASSUME NEW h \in Hosts, DeliverAny(h) PROVE BoxInv'
  <2>1. PICK seq \in (sent[h] + 1)..(sent[h] + 1 + MaxGap), wellFormed \in BOOLEAN :
          seq <= MaxSeq /\ Deliver(h, seq, wellFormed)
    BY <1>2 DEF DeliverAny
  <2>2. seq \in 1..MaxSeq
    BY <2>1, ReceiverAssumption DEF TypeOK
  <2>3. /\ UNCHANGED queue
        /\ \/ UNCHANGED <<callback, incoming>>
           \/ /\ callback' = [callback EXCEPT ![h] = "lock"]
              /\ incoming' = [incoming EXCEPT ![h] = seq]
    BY <2>1 DEF Deliver
  <2>4. \A g \in Hosts : callback'[g] \in {"lock", "push"} => incoming'[g] \in 1..MaxSeq
    BY <1>0, <2>2, <2>3 DEF BoxInv
  <2> QED
    BY <1>0, <1>1, <2>3, <2>4 DEF BoxInv
<1>3. ASSUME NEW h \in Hosts, CallbackPush(h) PROVE BoxInv'
  <2>1. [src |-> h, seq |-> incoming[h]] \in Envelope /\ queue \in Seq(Envelope)
    BY DEF TypeOK, Envelope
  <2>2. Len(queue') <= Capacity(cfg.qos)
    BY <1>0, <1>3, <2>1, PushIsPut DEF CallbackPush
  <2>3. \A g \in Hosts : callback'[g] \in {"lock", "push"} => incoming'[g] \in 1..MaxSeq
    BY <1>0, <1>3 DEF CallbackPush, BoxInv
  <2> QED
    BY <1>1, <2>2, <2>3 DEF BoxInv
<1>4. ASSUME UNCHANGED incoming,
             \A g \in Hosts : callback'[g] \in {"lock", "push"} => callback[g] \in {"lock", "push"},
             UNCHANGED queue \/ (queue # <<>> /\ queue' = Tail(queue))
      PROVE  BoxInv'
  <2>1. Len(queue') <= Capacity(cfg.qos)
    <3>1. CASE UNCHANGED queue
      BY <1>0, <3>1
    <3>2. CASE queue # <<>> /\ queue' = Tail(queue)
      <4>1. Len(Tail(queue)) = Len(queue) - 1
        BY <3>2, NonEmptyQueue DEF TypeOK
      <4>2. Len(Tail(queue)) <= Capacity(cfg.qos)
        BY <1>0, <4>1
      <4> QED
        BY <3>2, <4>2
    <3> QED
      BY <1>4, <3>1, <3>2
  <2> QED
    BY <1>1, <1>4, <2>1 DEF BoxInv
<1>5. ASSUME NEW h \in Hosts, CallbackLock(h) \/ CallbackNotify(h) PROVE BoxInv'
  <2>1. UNCHANGED <<incoming, queue>>
    BY <1>5 DEF CallbackLock, CallbackNotify
  <2>2. \A g \in Hosts : callback'[g] \in {"lock", "push"} => callback[g] \in {"lock", "push"}
    BY <1>0, <1>5 DEF CallbackLock, CallbackNotify
  <2> QED
    BY <1>4, <2>1, <2>2
<1>6. CASE WorkerLock
  <2>1. UNCHANGED <<incoming, callback>> /\ (UNCHANGED queue \/ (queue # <<>> /\ queue' = Tail(queue)))
    BY <1>6 DEF WorkerLock
  <2> QED
    BY <1>4, <2>1
<1>7. CASE \/ WorkerBlock \/ (\E decodes \in BOOLEAN : WorkerPublish(decodes))
           \/ SpuriousWakeup \/ MainStep \/ Terminated \/ UNCHANGED vars
  <2>1. UNCHANGED <<incoming, callback, queue>>
    BY <1>7 DEF WorkerBlock, WorkerPublish, SpuriousWakeup, MainStep, StopStep, CreateThread,
       SubscribeSucceeds, SubscribeThrows, ResetSubscription, ExchangeFlag, NotifyAll,
       JoinWorker, ShutdownPublisher, MainUnchanged, Terminated, vars
  <2> QED
    BY <1>4, <2>1
<1> QED
  BY <1>2, <1>3, <1>5, <1>6, <1>7 DEF Next, CallbackStep, WorkerStep

-----------------------------------------------------------------------------
(***************************************************************************)
(* The refinement: every step of the threads is a step of the mailbox or   *)
(* leaves it alone.                                                        *)
(***************************************************************************)
LEMMA MailboxStart == Init => Box!MailboxInit
<1> SUFFICES ASSUME Init PROVE Box!MailboxInit
  OBVIOUS
<1>1. queue = <<>> /\ hand = <<>> /\ worker = "none"
  BY DEF Init
<1>2. GetQosPolicy(cfg.qos).keep_latest \in BOOLEAN
  BY DEF GetQosPolicy
<1>3. Capacity(cfg.qos) \in Nat \ {0}
  BY CapacityPositive
<1> QED
  BY <1>1, <1>2, <1>3 DEF Box!MailboxInit

LEMMA MailboxStep ==
  TypeOK /\ ThreadInv /\ BoxInv /\ [Next]_vars => [Box!MailboxNext]_(Box!mailboxVars)
<1> SUFFICES ASSUME TypeOK, ThreadInv, BoxInv, [Next]_vars
             PROVE  Box!MailboxNext \/ UNCHANGED Box!mailboxVars
  OBVIOUS
<1>0. /\ queue \in Seq(Envelope) /\ hand \in Seq(Envelope) /\ Capacity(cfg.qos) \in Nat
      /\ flag \in BOOLEAN /\ worker \in WorkerPc
  BY CapacityPositive DEF TypeOK
<1>1. UNCHANGED cfg
  BY DEF Next, DeliverAny, Deliver, CallbackStep, CallbackLock, CallbackPush, CallbackNotify,
     WorkerStep, WorkerLock, WorkerBlock, WorkerPublish, SpuriousWakeup, MainStep, StopStep,
     CreateThread, SubscribeSucceeds, SubscribeThrows, ResetSubscription, ExchangeFlag,
     NotifyAll, JoinWorker, ShutdownPublisher, MainUnchanged, Terminated, vars
<1>2. ASSUME UNCHANGED <<queue, hand, flag>>,
             worker' = "none" <=> worker = "none", worker' = "exited" <=> worker = "exited"
      PROVE  UNCHANGED Box!mailboxVars
  BY <1>1, <1>2 DEF Box!mailboxVars
<1>3. ASSUME NEW h \in Hosts, DeliverAny(h) PROVE UNCHANGED Box!mailboxVars
  <2>1. UNCHANGED <<queue, hand, flag, worker>>
    BY <1>3 DEF DeliverAny, Deliver, threadVars
  <2> QED
    BY <1>2, <2>1
<1>4. ASSUME NEW h \in Hosts, CallbackLock(h) PROVE UNCHANGED Box!mailboxVars
  <2>1. UNCHANGED <<queue, hand, flag, worker>>
    BY <1>4 DEF CallbackLock
  <2> QED
    BY <1>2, <2>1
<1>5. ASSUME NEW h \in Hosts, CallbackNotify(h) PROVE UNCHANGED Box!mailboxVars
  <2>1. UNCHANGED <<queue, hand, flag>> /\ Notify
    BY <1>5 DEF CallbackNotify, threadVars
  <2>2. (worker' = "none" <=> worker = "none") /\ (worker' = "exited" <=> worker = "exited")
    BY <2>1 DEF Notify
  <2> QED
    BY <1>2, <2>1, <2>2
<1>6. ASSUME NEW h \in Hosts, CallbackPush(h) PROVE Box!MailboxNext \/ UNCHANGED Box!mailboxVars
  <2> DEFINE e == [src |-> h, seq |-> incoming[h]]
  <2>1. e \in Envelope /\ e \in [src : Hosts, seq : 1..MaxSeq]
    BY <1>6 DEF CallbackPush, BoxInv, TypeOK, Envelope
  <2>2. UNCHANGED <<hand, flag, worker>> /\ queue' = PushToBoundedEnvelopeQueue(cfg.qos, e, queue)
    BY <1>6 DEF CallbackPush
  <2>3. worker \notin {"none", "exited"}
    BY <1>6 DEF CallbackPush, ThreadInv
  <2> HIDE DEF e
  <2>4. \/ queue' = queue
        \/ Len(queue) < Capacity(cfg.qos) /\ queue' = Append(queue, e)
        \/ /\ Len(queue) = Capacity(cfg.qos) /\ GetQosPolicy(cfg.qos).keep_latest
           /\ queue' = Append(Tail(queue), e)
    <3>1. Len(queue) <= Capacity(cfg.qos)
      BY DEF BoxInv
    <3> QED
      BY <1>0, <2>1, <2>2, <3>1, PushIsPut
  <2>5. CASE queue' = queue
    BY <1>2, <2>2, <2>5
  <2>6. CASE Len(queue) < Capacity(cfg.qos) /\ queue' = Append(queue, e)
    <3>1. Box!Put(e)
      BY <1>1, <2>2, <2>3, <2>6 DEF Box!Put
    <3> QED
      BY <2>1, <3>1 DEF Box!MailboxNext
  <2>7. CASE /\ Len(queue) = Capacity(cfg.qos) /\ GetQosPolicy(cfg.qos).keep_latest
             /\ queue' = Append(Tail(queue), e)
    <3>1. Box!Put(e)
      BY <1>1, <2>2, <2>3, <2>7 DEF Box!Put
    <3> QED
      BY <2>1, <3>1 DEF Box!MailboxNext
  <2> QED
    BY <2>4, <2>5, <2>6, <2>7
<1>7. CASE WorkerLock
  <2>0. worker = "lock" /\ UNCHANGED flag /\ hand = <<>>
    BY <1>0, <1>7 DEF WorkerLock, ThreadInv
  <2>1. CASE worker' = "block" /\ UNCHANGED <<queue, hand>>
    BY <1>2, <2>0, <2>1
  <2>2. CASE ~flag /\ queue = <<>> /\ worker' = "exited" /\ UNCHANGED <<queue, hand>>
    <3>1. Box!Leave
      BY <1>1, <2>0, <2>2 DEF Box!Leave
    <3> QED
      BY <3>1 DEF Box!MailboxNext
  <2>3. CASE /\ queue # <<>> /\ worker' = "publish" /\ hand' = <<Head(queue)>>
             /\ queue' = Tail(queue)
    <3>1. Box!Take
      BY <1>1, <2>0, <2>3 DEF Box!Take
    <3> QED
      BY <3>1 DEF Box!MailboxNext
  <2> QED
    BY <1>7, <2>1, <2>2, <2>3 DEF WorkerLock
<1>8. ASSUME NEW decodes \in BOOLEAN, WorkerPublish(decodes) PROVE Box!MailboxNext
  <2>1. worker = "publish" /\ worker' = "lock" /\ hand' = <<>> /\ UNCHANGED <<queue, flag>>
    BY <1>8 DEF WorkerPublish, threadVars
  <2>2. hand # <<>>
    BY <1>0, <2>1, SMTT(60) DEF ThreadInv
  <2>3. Box!Finish
    BY <1>1, <2>1, <2>2 DEF Box!Finish
  <2> QED
    BY <2>3 DEF Box!MailboxNext
<1>9. CASE WorkerBlock \/ SpuriousWakeup
  <2>1. /\ UNCHANGED <<queue, hand, flag>>
        /\ worker \in {"block", "waiting"} /\ worker' \in {"waiting", "lock"}
    BY <1>9 DEF WorkerBlock, SpuriousWakeup, threadVars
  <2> QED
    BY <1>2, <2>1
<1>10. CASE CreateThread
  <2>1. worker = "none" /\ worker' = "lock" /\ flag' /\ UNCHANGED <<queue, hand>>
    BY <1>10 DEF CreateThread, MainUnchanged, ThreadInv
  <2>2. Box!Open
    BY <1>1, <2>1 DEF Box!Open
  <2> QED
    BY <2>2 DEF Box!MailboxNext
<1>11. CASE SubscribeThrows \/ ExchangeFlag
  <2>1. ~flag' /\ UNCHANGED <<queue, hand, worker>>
    BY <1>11 DEF SubscribeThrows, ExchangeFlag, MainUnchanged
  <2>2. CASE ~flag
    <3>1. flag' = flag
      BY <1>0, <2>1, <2>2, TypeStep DEF TypeOK
    <3> QED
      BY <1>2, <2>1, <3>1
  <2>3. CASE flag
    <3>1. worker \notin {"none", "exited"}
      BY <2>3 DEF ThreadInv
    <3>2. Box!Close
      BY <1>1, <2>1, <2>3, <3>1 DEF Box!Close
    <3> QED
      BY <3>2 DEF Box!MailboxNext
  <2> QED
    BY <2>2, <2>3
<1>12. CASE NotifyAll
  <2>1. UNCHANGED <<queue, hand, flag>> /\ Notify
    BY <1>12 DEF NotifyAll, MainUnchanged
  <2>2. (worker' = "none" <=> worker = "none") /\ (worker' = "exited" <=> worker = "exited")
    BY <2>1 DEF Notify
  <2> QED
    BY <1>2, <2>1, <2>2
<1>13. CASE \/ SubscribeSucceeds \/ ResetSubscription \/ JoinWorker \/ ShutdownPublisher
            \/ Terminated \/ UNCHANGED vars
  <2>1. UNCHANGED <<queue, hand, flag, worker>>
    BY <1>13 DEF SubscribeSucceeds, ResetSubscription, JoinWorker, ShutdownPublisher,
       MainUnchanged, Terminated, vars, threadVars
  <2> QED
    BY <1>2, <2>1
<1> QED
  BY <1>3, <1>4, <1>5, <1>6, <1>7, <1>8, <1>9, <1>10, <1>11, <1>12, <1>13
     DEF Next, CallbackStep, WorkerStep, MainStep, StopStep

\* The receive queue, its mutex and its condition variable, enqueueEnvelope, recvFunction,
\* createThread and stopThread together implement the mailbox: first in first out, bounded
\* as the QoS class says, drained before the worker leaves and closed to what comes later.
THEOREM ReceiverIsMailbox == Spec => ImplementsMailbox
<1>1. Init => TypeOK /\ ThreadInv /\ BoxInv
  BY TypeInit, ThreadInit, BoxInit
<1>2. TypeOK /\ ThreadInv /\ BoxInv /\ [Next]_vars => (TypeOK /\ ThreadInv /\ BoxInv)'
  BY TypeStep, ThreadStep, BoxStep
<1>3. Spec => [](TypeOK /\ ThreadInv /\ BoxInv)
  BY <1>1, <1>2, PTL DEF Spec
<1> QED
  BY <1>3, MailboxStart, MailboxStep, PTL DEF Spec, ImplementsMailbox, Box!MailboxSpec

-----------------------------------------------------------------------------
(***************************************************************************)
(* Image counters.                                                         *)
(***************************************************************************)

\* The frame counters of one sender in one life: what was expected is complete or lost,
\* and no more was expected than the last number says.
Consistent(f) ==
  /\ f.expected = f.complete + f.lost
  /\ f.expected <= f.last
  /\ ~f.initialized => f.last = 0

\* Conservation turns the first conjunct into a bound on what was published or displaced;
\* the others say that the numbers observed are those of the only source.
FrameInv ==
  cfg.image => /\ arrived + queueDrops <= (frames.complete + dropped) + late
               /\ Consistent(frames)
               /\ frames.last <= sent[SrcHost]

\* A number higher than the last one is one more complete frame.
OneMore(f, g, n) == g.complete = f.complete + 1 /\ g.last = n /\ Consistent(g)

LEMMA ObserveHigher ==
  ASSUME NEW f \in FrameCounters, NEW n \in Nat, Consistent(f), f.last < n
  PROVE  OneMore(f, ObserveCompleteFrameSequence(f, n), n)
<1>0. /\ f.last \in Nat /\ f.lost \in Nat /\ f.initialized \in BOOLEAN
      /\ f.complete \in Nat /\ f.resets \in Nat /\ f.expected \in Nat
  BY DEF FrameCounters
<1>1. CASE ~f.initialized
  <2>1. ObserveCompleteFrameSequence(f, n) = Counted(f, n, 1, 0)
    BY <1>1 DEF ObserveCompleteFrameSequence
  <2>2. OneMore(f, Counted(f, n, 1, 0), n)
    BY <1>0, <1>1 DEF OneMore, Counted, Consistent
  <2> QED
    BY <2>1, <2>2
<1>2. CASE f.initialized
  <2>1. ObserveCompleteFrameSequence(f, n) = Counted(f, n, n - f.last, 0)
    BY <1>0, <1>2 DEF ObserveCompleteFrameSequence
  <2>2. OneMore(f, Counted(f, n, n - f.last, 0), n)
    BY <1>0, <1>2 DEF OneMore, Counted, Consistent
  <2> QED
    BY <2>1, <2>2
<1> QED
  BY <1>1, <1>2

LEMMA FrameInit == Init => FrameInv
<1> SUFFICES ASSUME Init PROVE FrameInv
  OBVIOUS
<1>1. Consistent(NoFrames) /\ NoFrames.last = 0 /\ NoFrames.complete = 0
  BY DEF NoFrames, Consistent
<1>2. sent[SrcHost] = 0
  BY ReceiverAssumption DEF Init
<1> QED
  BY <1>1, <1>2 DEF Init, FrameInv

LEMMA FrameStep == TypeOK /\ FrameInv /\ [Next]_vars => FrameInv'
<1> SUFFICES ASSUME TypeOK, FrameInv, [Next]_vars, cfg'.image
             PROVE  /\ arrived' + queueDrops' <= (frames'.complete + dropped') + late'
                    /\ Consistent(frames')
                    /\ frames'.last <= sent'[SrcHost]
  BY DEF FrameInv
<1>0. /\ arrived \in Nat /\ queueDrops \in Nat /\ dropped \in Nat /\ late \in Nat
      /\ frames \in FrameCounters /\ frames.complete \in Nat /\ frames.last \in Nat
      /\ sent \in [Hosts -> Nat]
  BY DEF TypeOK, FrameCounters
<1>1. UNCHANGED cfg
  BY DEF Next, DeliverAny, Deliver, CallbackStep, CallbackLock, CallbackPush, CallbackNotify,
     WorkerStep, WorkerLock, WorkerBlock, WorkerPublish, SpuriousWakeup, MainStep, StopStep,
     CreateThread, SubscribeSucceeds, SubscribeThrows, ResetSubscription, ExchangeFlag,
     NotifyAll, JoinWorker, ShutdownPublisher, MainUnchanged, Terminated, vars
<1>2. /\ cfg.image /\ ~cfg.dynamic_dst
      /\ arrived + queueDrops <= (frames.complete + dropped) + late
      /\ Consistent(frames) /\ frames.last <= sent[SrcHost]
  BY <1>1, ImageAssumption DEF FrameInv, TypeOK
<1>3. ASSUME NEW h \in Hosts, DeliverAny(h)
      PROVE  /\ arrived' + queueDrops' <= (frames'.complete + dropped') + late'
             /\ Consistent(frames')
             /\ frames'.last <= sent'[SrcHost]
  <2>1. PICK seq \in (sent[h] + 1)..(sent[h] + 1 + MaxGap), wellFormed \in BOOLEAN :
          Deliver(h, seq, wellFormed)
    BY <1>3 DEF DeliverAny
  <2>2. h = SrcHost /\ seq \in Nat /\ sent[SrcHost] \in Nat /\ sent[SrcHost] < seq
    <3>1. h = SrcHost
      BY <1>2, <2>1 DEF Deliver, KeyMatches
    <3>2. sent[h] \in Nat /\ MaxGap \in Nat
      BY <1>0, ReceiverAssumption
    <3> QED
      BY <2>1, <3>1, <3>2
  <2>3. /\ arrived' = arrived + 1 /\ UNCHANGED <<queueDrops, late>> /\ sent'[SrcHost] = seq
        /\ \/ dropped' = dropped + 1 /\ UNCHANGED frames
           \/ UNCHANGED dropped /\ frames' = ObserveCompleteFrameSequence(frames, seq)
    BY <1>0, <1>2, <2>1, <2>2 DEF Deliver
  <2>4. CASE dropped' = dropped + 1 /\ UNCHANGED frames
    BY <1>0, <1>2, <2>2, <2>3, <2>4
  <2>5. CASE UNCHANGED dropped /\ frames' = ObserveCompleteFrameSequence(frames, seq)
    <3>1. frames.last < seq
      BY <1>0, <1>2, <2>2
    <3>2. OneMore(frames, frames', seq)
      BY <1>0, <1>2, <2>2, <2>5, <3>1, ObserveHigher
    <3>3. frames'.complete = frames.complete + 1 /\ frames'.last = seq /\ Consistent(frames')
      BY <3>2 DEF OneMore
    <3> QED
      BY <1>0, <1>2, <2>2, <2>3, <2>5, <3>3
  <2> QED
    BY <2>3, <2>4, <2>5
<1>4. ASSUME UNCHANGED <<arrived, frames, sent>>, NEW d \in Nat, NEW e \in Nat, NEW l \in Nat,
             queueDrops' = queueDrops + d, dropped' = dropped + d + e, late' = late + l
      PROVE  /\ arrived' + queueDrops' <= (frames'.complete + dropped') + late'
             /\ Consistent(frames')
             /\ frames'.last <= sent'[SrcHost]
  BY <1>0, <1>2, <1>4
<1>5. ASSUME NEW h \in Hosts, CallbackLock(h)
      PROVE  /\ arrived' + queueDrops' <= (frames'.complete + dropped') + late'
             /\ Consistent(frames')
             /\ frames'.last <= sent'[SrcHost]
  <2>1. /\ UNCHANGED <<arrived, frames, sent, queueDrops, dropped>>
        /\ late' = late + 0 \/ late' = late + 1
    BY <1>0, <1>5 DEF CallbackLock, metricVars
  <2>2. queueDrops' = queueDrops + 0 /\ dropped' = dropped + 0 + 0
    BY <1>0, <2>1
  <2> QED
    BY <1>4, <2>1, <2>2
<1>6. ASSUME NEW h \in Hosts, CallbackPush(h)
      PROVE  /\ arrived' + queueDrops' <= (frames'.complete + dropped') + late'
             /\ Consistent(frames')
             /\ frames'.last <= sent'[SrcHost]
  <2>1. PICK d \in Nat : queueDrops' = queueDrops + d /\ dropped' = dropped + d
    BY <1>6 DEF CallbackPush
  <2>2. UNCHANGED <<arrived, frames, sent, late>>
    BY <1>6 DEF CallbackPush, historyVars
  <2>3. late' = late + 0 /\ dropped' = dropped + d + 0
    BY <1>0, <2>1, <2>2
  <2> QED
    BY <1>4, <2>1, <2>2, <2>3
<1>7. ASSUME NEW decodes \in BOOLEAN, WorkerPublish(decodes)
      PROVE  /\ arrived' + queueDrops' <= (frames'.complete + dropped') + late'
             /\ Consistent(frames')
             /\ frames'.last <= sent'[SrcHost]
  <2>1. PICK e \in Nat : dropped' = dropped + 0 + e
    BY <1>0, <1>7 DEF WorkerPublish
  <2>2. UNCHANGED <<arrived, frames, sent, late, queueDrops>>
    BY <1>7 DEF WorkerPublish
  <2>3. late' = late + 0 /\ queueDrops' = queueDrops + 0
    BY <1>0, <2>2
  <2> QED
    BY <1>4, <2>1, <2>2, <2>3
<1>8. CASE \/ WorkerLock \/ WorkerBlock \/ (\E h \in Hosts : CallbackNotify(h))
           \/ SpuriousWakeup \/ MainStep \/ Terminated \/ UNCHANGED vars
  <2>1. UNCHANGED <<arrived, frames, sent, late, queueDrops, dropped>>
    BY <1>8 DEF WorkerLock, WorkerBlock, CallbackNotify, SpuriousWakeup, MainStep, StopStep,
       CreateThread, SubscribeSucceeds, SubscribeThrows, ResetSubscription, ExchangeFlag,
       NotifyAll, JoinWorker, ShutdownPublisher, MainUnchanged, Terminated, vars, metricVars,
       historyVars
  <2> QED
    BY <1>0, <1>2, <2>1
<1> QED
  BY <1>3, <1>5, <1>6, <1>7, <1>8 DEF Next, CallbackStep, WorkerStep

\* decoded_frames and transport_queue_drops together never exceed transport_complete_frames
\* of an image topic, and the frames expected never exceed what its source has sent, while
\* the sender lives, whatever the callbacks, the worker and stopThread do concurrently.
THEOREM DecodedIsWithinComplete == Spec => []DecodedWithinComplete
<1> DEFINE Inv == TypeOK /\ ThreadInv /\ EveryEnvelopeAccounted /\ FrameInv
<1>1. Init => Inv
  BY TypeInit, ThreadInit, AccountedInit, FrameInit
<1>2. Inv /\ [Next]_vars => Inv'
  BY TypeStep, ThreadStep, AccountedStep, FrameStep
<1>3. Inv => DecodedWithinComplete
  <2> SUFFICES ASSUME TypeOK, EveryEnvelopeAccounted, FrameInv, cfg.image
               PROVE  /\ received + queueDrops <= frames.complete
                      /\ frames.expected = frames.complete + frames.lost
                      /\ frames.expected <= sent[SrcHost]
    BY DEF DecodedWithinComplete
  <2>1. /\ arrived \in Nat /\ queueDrops \in Nat /\ dropped \in Nat /\ late \in Nat
        /\ received \in Nat /\ Len(queue) \in Nat /\ Len(hand) \in Nat
        /\ frames.complete \in Nat /\ frames.last \in Nat /\ frames.expected \in Nat
        /\ sent[SrcHost] \in Nat
    BY ReceiverAssumption DEF TypeOK, FrameCounters
  <2>2. Cardinality(InFlight) \in Nat
    <3>1. IsFiniteSet(InFlight)
      BY ReceiverAssumption, FS_Subset DEF InFlight
    <3> QED
      BY <3>1, FS_CardinalityType
  <2>3. /\ arrived + queueDrops <= (frames.complete + dropped) + late
        /\ frames.expected = frames.complete + frames.lost
        /\ frames.expected <= frames.last /\ frames.last <= sent[SrcHost]
    BY DEF FrameInv, Consistent
  <2>4. received + queueDrops <= frames.complete
    <3> DEFINE c == Cardinality(InFlight)  q == Len(queue)  n == Len(hand)
    <3>1. arrived = received + dropped + late + q + n + c
      BY DEF EveryEnvelopeAccounted
    <3>2. c \in Nat /\ q \in Nat /\ n \in Nat
      BY <2>1, <2>2
    <3> HIDE DEF c, q, n
    <3> QED
      BY <2>1, <2>3, <3>1, <3>2
  <2> QED
    BY <2>1, <2>3, <2>4
<1> QED
  BY <1>1, <1>2, <1>3, PTL DEF Spec
=============================================================================
