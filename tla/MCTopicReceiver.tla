--------------------------- MODULE MCTopicReceiver ---------------------------
(***************************************************************************)
(* Small instances of TopicReceiver for TLC.                               *)
(***************************************************************************)
EXTENDS TopicReceiver

Topic(qos, image, dynamic) == [qos |-> qos, image |-> image, dynamic_dst |-> dynamic]

\* A fan-out command topic, a bulk image topic and directed topics with both
\* queue disciplines.
MCTopics == {Topic("command", FALSE, FALSE), Topic("bulk", TRUE, FALSE),
             Topic("command", FALSE, TRUE), Topic("state", FALSE, TRUE)}

FanoutTopics == {Topic("command", FALSE, FALSE)}
=============================================================================
