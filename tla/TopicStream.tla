----------------------------- MODULE TopicStream -----------------------------
(***************************************************************************)
(* A sending topic, the network and the frame counters of its receiver.    *)
(* The link keeps the order of one publisher's envelopes and may lose any  *)
(* of them (best effort); the sending bridge may restart and then counts   *)
(* from one again.                                                         *)
(***************************************************************************)
EXTENDS TopicSender, FrameSequence

CONSTANT MaxRestarts   \* bound: restarts of the sending bridge

ASSUME StreamAssumption == MaxRestarts \in Nat

VARIABLES
  frames,     \* the receiver's frame counters
  restarts,   \* history: restarts of the sender
  delivered,  \* history: complete envelopes the receiver was handed
  first,      \* history: the first sequence number delivered, 0 before
  missing     \* history: sequence numbers of envelopes lost before the receiver

streamVars == <<frames, restarts, delivered, first, missing>>
vars == <<senderVars, streamVars>>

Init ==
  /\ SenderInit
  /\ frames = NoFrames
  /\ restarts = 0 /\ delivered = 0 /\ first = 0
  /\ missing = {}

\* A step of subCallback; a number that is taken and not published is lost.
Send ==
  /\ \/ EncodeFails /\ missing' = missing \cup {sequence'}
     \/ (TargetUnknown \/ PublishFails) /\ missing' = missing \cup {sequence}
     \/ /\ \/ SendFreqControl \/ PublishSucceeds
           \/ \E size \in Sizes, to \in Destinations : Encoded(size, to)
        /\ UNCHANGED missing
  /\ UNCHANGED <<frames, restarts, delivered, first>>

SenderStep == (GetMetricsSnapshot \/ Tick \/ ClockRollback) /\ UNCHANGED streamVars

Restart ==
  /\ restarts < MaxRestarts
  /\ restarts' = restarts + 1
  /\ RestartSender
  /\ UNCHANGED <<frames, delivered, first, missing>>

OffWire ==
  /\ wire # <<>>
  /\ wire' = Tail(wire)
  /\ UNCHANGED <<clockVars, last, sequence, dropped, metricVars, published, loopVars, countVars,
                 lastPass, restarts>>

\* recordCompleteImageEnvelope, for an image topic.
DeliverFrame ==
  /\ OffWire
  /\ frames' = IF topic.image THEN ObserveCompleteFrameSequence(frames, Head(wire).seq) ELSE frames
  /\ delivered' = delivered + 1
  /\ first' = IF first = 0 THEN Head(wire).seq ELSE first
  /\ UNCHANGED missing

LoseFrame ==
  /\ OffWire
  /\ missing' = missing \cup {Head(wire).seq}
  /\ UNCHANGED <<frames, delivered, first>>

Next == Send \/ SenderStep \/ Restart \/ DeliverFrame \/ LoseFrame

Spec == Init /\ [][Next]_vars

-----------------------------------------------------------------------------
TypeOK ==
  /\ topic \in Topics
  /\ elapsed \in Nat /\ skew \in Nat /\ last \in Nat
  /\ sequence \in Nat /\ sent \in Nat /\ dropped \in Nat
  /\ recent \in Seq([time : Nat, size : Nat])
  /\ log \in Seq([real : Nat, skew : Nat, size : Nat])
  /\ quality \in Nat /\ lastAdapt \in Nat
  /\ {wire, published} \subseteq Seq([to : Targets \cup {"all"}, seq : Nat \ {0}])
  /\ keys \in Seq(Targets \cup {Unknown, "all"})
  /\ at \in 1..(Len(keys) + 1) /\ refused \subseteq 1..(at - 1)
  /\ {messages, turnedAway, asked, payload, pruned} \subseteq Nat
  /\ lastPass \in Nat \cup {-1}
  /\ frames \in FrameCounters
  /\ {restarts, delivered, first} \subseteq Nat
  /\ missing \subseteq Nat \ {0}

\* While the sender does not restart, the receiver's counters are the truth: every
\* envelope handed to it is counted, and the losses it infers between the first and
\* the last frame are exactly the frames that were not encoded, not published or lost
\* on the way.
LossesExact ==
  topic.image /\ restarts = 0 =>
    /\ frames.complete = delivered
    /\ frames.lost = Cardinality({n \in missing : first < n /\ n < frames.last})

\* Whatever the network loses, the receiver never reports more sender epochs than
\* there were restarts, and each restart hides at most one complete frame.
ResetsAreRestarts ==
  topic.image => /\ frames.resets <= restarts
                 /\ delivered - frames.complete \in 0..restarts
                 /\ frames.expected = frames.complete + frames.lost

\* transport_complete_frames counts the complete envelopes received.
CompleteFramesCounted == topic.image => frames.complete = delivered
=============================================================================
