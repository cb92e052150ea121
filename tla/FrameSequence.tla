---------------------------- MODULE FrameSequence ----------------------------
(***************************************************************************)
(* The frame counters a receiver keeps for image topics, from              *)
(* src/diagnostics/topic_metrics.cpp.  A counter record is the part of     *)
(* TopicRuntimeState that ObserveCompleteFrameSequence reads and writes.   *)
(***************************************************************************)
EXTENDS Integers

FrameCounters == [initialized : BOOLEAN, last : Nat, expected : Nat,
                  complete : Nat, lost : Nat, resets : Nat]

NoFrames == [initialized |-> FALSE, last |-> 0, expected |-> 0,
             complete |-> 0, lost |-> 0, resets |-> 0]

\* Faulty variants of Counted: the frame itself is counted as lost, and the
\* difference is corrected twice.
CountedFrameAsLost(f, sequence, delta, reset) ==
  [initialized |-> TRUE, last |-> sequence, expected |-> f.expected + delta,
   complete |-> f.complete + 1, lost |-> f.lost + delta, resets |-> f.resets + reset]

CountedOffByTwo(f, sequence, delta, reset) ==
  [initialized |-> TRUE, last |-> sequence, expected |-> f.expected + delta,
   complete |-> f.complete + 1, lost |-> f.lost + (delta - 2), resets |-> f.resets + reset]

\* One complete frame that accounts for `delta` sequence numbers: itself and
\* delta - 1 inferred losses.
Counted(f, sequence, delta, reset) ==
  [initialized |-> TRUE, last |-> sequence, expected |-> f.expected + delta,
   complete |-> f.complete + 1, lost |-> f.lost + (delta - 1), resets |-> f.resets + reset]

ObserveGapAsReset(f, sequence) ==  \* faulty variant: a gap is taken for a new epoch
  IF ~f.initialized THEN Counted(f, sequence, 1, 0)
  ELSE IF sequence = f.last THEN f
  ELSE IF sequence = f.last + 1 THEN Counted(f, sequence, 1, 0)
  ELSE Counted(f, sequence, 1, 1)

\* A repeated sequence is ignored, a lower one starts a new sender epoch, a higher
\* one reveals the frames that were skipped.
ObserveCompleteFrameSequence(f, sequence) ==
  IF ~f.initialized THEN Counted(f, sequence, 1, 0)
  ELSE IF sequence = f.last THEN f
  ELSE IF sequence < f.last THEN Counted(f, sequence, 1, 1)
  ELSE Counted(f, sequence, sequence - f.last, 0)
=============================================================================
