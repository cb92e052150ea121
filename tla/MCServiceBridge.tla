--------------------------- MODULE MCServiceBridge ---------------------------
(***************************************************************************)
(* Small instances of ServiceBridge for TLC.                               *)
(***************************************************************************)
EXTENDS ServiceBridge

\* The allowed client calls twice, so that a late answer can meet the next call;
\* the other one once.
MCCalls == [c \in Callers |-> IF c \in AllowedCallers THEN 2 ELSE 1]

OneCall == [c \in Callers |-> 1]
=============================================================================
