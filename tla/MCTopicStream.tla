---------------------------- MODULE MCTopicStream ----------------------------
(***************************************************************************)
(* Small instances of TopicStream for TLC.                                 *)
(***************************************************************************)
EXTENDS TopicStream

\* An adaptive camera stream without rate limit: 4 kbit/s with frames of 1 or 8 kbit
\* crosses both thresholds; quality 90 with step 30 starts above the adaptive range and
\* reaches both of its bounds.
Camera == [interval |-> 0, dynamic_dst |-> FALSE, image |-> TRUE, adaptive |-> TRUE,
           quality |-> 90, min |-> 40, max |-> 80, step |-> 30, cooldown |-> 1, target |-> 4]

\* A state topic limited to one message in two seconds, and a directed one.
Limited == [Camera EXCEPT !.interval = 2, !.image = FALSE]
Directed == [Limited EXCEPT !.dynamic_dst = TRUE]

MCTopics == {Camera, Limited, Directed}
CameraOnly == {Camera}
LimitedOnly == {Limited}
=============================================================================
