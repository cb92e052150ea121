---------------------------- MODULE HostPresence ----------------------------
(***************************************************************************)
(* What a bridge promises its users about the other hosts: a status per    *)
(* host that may lag behind the truth while a change is being noticed, and *)
(* is the truth once nothing is pending.  NodePresence implements it.      *)
(***************************************************************************)
CONSTANT Peers   \* the other hosts

VARIABLES
  alive,    \* [Peers -> BOOLEAN]: the host is there and reachable
  open,     \* the session of this bridge is open
  status,   \* [Peers -> Statuses]: what the session says of the host
  pending   \* [Peers -> BOOLEAN]: a change may not have been noticed yet

hvars == <<alive, open, status, pending>>

Statuses == {"UNKNOWN", "ONLINE", "OFFLINE"}
Truth(p) == IF alive[p] THEN "ONLINE" ELSE "OFFLINE"
Unknown == [p \in Peers |-> "UNKNOWN"]
Settled == [p \in Peers |-> FALSE]

HostInit ==
  /\ alive \in [Peers -> BOOLEAN]
  /\ open = FALSE
  /\ status = Unknown
  /\ pending = Settled

\* The session is opened: the hosts that are there will be noticed.
Open ==
  /\ ~open
  /\ open' = TRUE
  /\ pending' = alive
  /\ UNCHANGED <<alive, status>>

\* The session is closed or dies, and what it knew is lost.
Close ==
  /\ open
  /\ open' = FALSE
  /\ status' = Unknown
  /\ pending' = Settled
  /\ UNCHANGED alive

\* Host p comes or goes.
Change(p) ==
  /\ alive' = [alive EXCEPT ![p] = ~alive[p]]
  /\ pending' = IF open THEN [pending EXCEPT ![p] = TRUE] ELSE pending
  /\ UNCHANGED <<open, status>>

\* An earlier state of p is noticed; more is pending.
Lag(p) ==
  /\ pending[p]
  /\ status' = [status EXCEPT ![p] = "ONLINE"] \/ status' = [status EXCEPT ![p] = "OFFLINE"]
  /\ UNCHANGED <<alive, open, pending>>

\* The present state of p is noticed.
Settle(p) ==
  /\ pending[p]
  /\ status' = [status EXCEPT ![p] = Truth(p)]
  /\ pending' = [pending EXCEPT ![p] = FALSE]
  /\ UNCHANGED <<alive, open>>

HostNext ==
  \/ Open \/ Close
  \/ \E p \in Peers : Change(p) \/ Lag(p) \/ Settle(p)

HostSpec == HostInit /\ [][HostNext]_hvars

============================================================================
