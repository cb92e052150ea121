--------------------------- MODULE BridgeTransport ---------------------------
(***************************************************************************)
(* The pure part of src/transport/bridge_transport.cpp that the runtime    *)
(* modules share: the QoS policy table and the bounded envelope queue.     *)
(***************************************************************************)
EXTENDS Integers, Sequences

CONSTANT
  ReliableCapacity   \* queue_capacity of "command" and "service" (64 in the code)

ASSUME ReliableCapacityAssumption == ReliableCapacity \in Nat

QosClass == {"command", "state", "bulk", "service"}

(***************************************************************************)
(* GetQosPolicy.  Reliability, congestion control, priority and the        *)
(* express flag select Zenoh's behaviour on the wire; the receive queue    *)
(* reads only the two fields below.                                        *)
(***************************************************************************)
GetQosPolicy(qos) ==
  IF qos \in {"state", "bulk"}
    THEN [keep_latest |-> TRUE,  queue_capacity |-> 1]
    ELSE [keep_latest |-> FALSE, queue_capacity |-> ReliableCapacity]

\* std::max<std::size_t>(1U, policy.queue_capacity)
Capacity(qos) ==
  LET c == GetQosPolicy(qos).queue_capacity IN IF c > 1 THEN c ELSE 1

(***************************************************************************)
(* PushToBoundedEnvelopeQueue: a full queue rejects the newest envelope,   *)
(* or, for a keep-latest class, gives up its oldest one.                   *)
(***************************************************************************)
PushResultOffByOne(qos, queue) ==  \* faulty variant: one envelope too many
  IF Len(queue) <= Capacity(qos) THEN "enqueued"
  ELSE IF GetQosPolicy(qos).keep_latest THEN "replaced" ELSE "rejected"

PushResult(qos, queue) ==
  IF Len(queue) < Capacity(qos) THEN "enqueued"
  ELSE IF GetQosPolicy(qos).keep_latest THEN "replaced" ELSE "rejected"

PushAtFront(qos, envelope, queue) ==  \* faulty variant: push_front
  CASE PushResult(qos, queue) = "enqueued" -> <<envelope>> \o queue
    [] PushResult(qos, queue) = "replaced" -> Append(Tail(queue), envelope)
    [] PushResult(qos, queue) = "rejected" -> queue

PushToBoundedEnvelopeQueue(qos, envelope, queue) ==
  CASE PushResult(qos, queue) = "enqueued" -> Append(queue, envelope)
    [] PushResult(qos, queue) = "replaced" -> Append(Tail(queue), envelope)
    [] PushResult(qos, queue) = "rejected" -> queue
=============================================================================
