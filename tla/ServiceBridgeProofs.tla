------------------------- MODULE ServiceBridgeProofs -------------------------
(***************************************************************************)
(* Proofs about ServiceBridge for every set of proxies and workers, every  *)
(* queue capacity and every number of calls.                               *)
(***************************************************************************)
EXTENDS ServiceBridge, FiniteSetTheorems, TLAPS

-----------------------------------------------------------------------------
(***************************************************************************)
(* The inductive invariant.                                                *)
(***************************************************************************)
Queued(id)  == \E i \in 1..Len(tasks) : tasks[i] = id
Running(id) == \E w \in Workers : job[w] = id

\* A call has a number its proxy has reached, and a call that waits is the last one.
CallsInv ==
  \A c \in Callers : /\ ncalls[c] <= MaxCalls[c]
                     /\ caller[c] = "waiting" => ncalls[c] >= 1

\* The executor: a worker leaves only when the executor is stopping and nothing is
\* queued, and Close goes past the join only when all have left.
PoolInv ==
  /\ Len(tasks) <= QueueCapacity
  /\ stopping <=> stop \in {"notify", "join", "closed"}
  /\ \A w \in Workers : worker[w] = "exited" => stopping /\ tasks = <<>>
  /\ stop = "closed" => \A w \in Workers : worker[w] = "exited"
  /\ session <=> stop # "closed"

\* A request is in one place at a time on its way from the query to the answer.
Place(id) ==
  /\ id \in queries => id \notin arriving
  /\ id \in queries \/ id \in arriving => ~Queued(id)
  /\ id \in queries \/ id \in arriving \/ Queued(id) => ~Running(id) /\ executed[id] = 0
  /\ id \in queries \/ id \in arriving \/ Queued(id) \/ Running(id) => answered[id] = 0
  /\ answered[id] <= 1 /\ executed[id] <= 1
  /\ executed[id] = 1 => answered[id] = 1 \/ Running(id)
  /\ id[2] > ncalls[id[1]] => /\ id \notin queries /\ id \notin arriving
                              /\ ~Queued(id) /\ ~Running(id)
                              /\ executed[id] = 0 /\ answered[id] = 0

PlaceInv ==
  /\ \A id \in Id : Place(id)
  /\ \A i, j \in 1..Len(tasks) : tasks[i] = tasks[j] => i = j
  /\ \A v, w \in Workers : job[v] = job[w] /\ job[v] # NoId => v = w
  /\ \A w \in Workers : /\ worker[w] = "handler" => executed[job[w]] = 0
                        /\ worker[w] = "local" => executed[job[w]] = 1

\* What an answer of this kind claims about the request, which no later step changes:
\* an answered request is not executed any more.
Claim(id, kind) ==
  /\ kind = "ok" => executed[id] = 1
  /\ kind \in {"rejected", "full"} => executed[id] = 0 /\ answered[id] = 1

\* Every answer on its way, in a QueryState or returned is true.
TruthInv ==
  /\ \A r \in replies : answered[r.id] = 1 /\ Claim(r.id, r.kind)
  /\ \A c \in Callers : caller[c] = "waiting" /\ state[c].received =>
       state[c].of = Current(c) /\ Claim(Current(c), state[c].kind)
  /\ \A id \in Id : Claim(id, result[id])

IInv == TypeOK /\ CallsInv /\ PoolInv /\ PlaceInv /\ TruthInv

-----------------------------------------------------------------------------
(***************************************************************************)
(* Facts about calls, queues and places.                                   *)
(***************************************************************************)

\* A call is a pair of a proxy and a number; no call is NoId.
LEMMA IdFacts ==
  /\ \A id \in Id : id[1] \in Callers /\ id[2] \in Nat /\ id[2] >= 1 /\ id = <<id[1], id[2]>>
                    /\ id # NoId
  /\ \A c \in Callers, n \in Nat : 1 <= n /\ n <= MaxCalls[c] => <<c, n>> \in Id
<1>1. ASSUME NEW id \in Id
      PROVE  id[1] \in Callers /\ id[2] \in Nat /\ id[2] >= 1 /\ id = <<id[1], id[2]>> /\ id # NoId
  <2>1. PICK c \in Callers : id \in {c} \X (1..MaxCalls[c])
    BY DEF Id
  <2>2. MaxCalls[c] \in Nat
    BY ServiceAssumption
  <2>3. PICK n \in 1..MaxCalls[c] : id = <<c, n>>
    BY <2>1
  <2>4. id # NoId
    BY <2>3 DEF NoId
  <2> QED
    BY <2>2, <2>3, <2>4
<1>2. ASSUME NEW c \in Callers, NEW n \in Nat, 1 <= n, n <= MaxCalls[c]
      PROVE  <<c, n>> \in Id
  <2>1. MaxCalls[c] \in Nat
    BY ServiceAssumption
  <2>2. <<c, n>> \in {c} \X (1..MaxCalls[c])
    BY <1>2, <2>1
  <2> QED
    BY <2>2 DEF Id
<1> QED
  BY <1>1, <1>2

\* The call that a waiting proxy waits for.
LEMMA CurrentIsId ==
  ASSUME TypeOK, CallsInv, NEW c \in Callers, caller[c] = "waiting"
  PROVE  Current(c) \in Id /\ Current(c)[1] = c /\ Current(c)[2] = ncalls[c]
<1>1. ncalls[c] \in Nat /\ 1 <= ncalls[c] /\ ncalls[c] <= MaxCalls[c]
  BY DEF TypeOK, CallsInv
<1> QED
  BY <1>1, IdFacts DEF Current

\* The call a proxy makes next.
LEMMA NextIsId ==
  ASSUME TypeOK, NEW c \in Callers, ncalls[c] < MaxCalls[c]
  PROVE  /\ <<c, ncalls[c] + 1>> \in Id
         /\ <<c, ncalls[c] + 1>>[1] = c /\ <<c, ncalls[c] + 1>>[2] = ncalls[c] + 1
<1>1. ncalls[c] \in Nat /\ MaxCalls[c] \in Nat
  BY ServiceAssumption DEF TypeOK
<1>2. ncalls[c] + 1 \in Nat /\ 1 <= ncalls[c] + 1 /\ ncalls[c] + 1 <= MaxCalls[c]
  BY <1>1
<1> QED
  BY <1>2, IdFacts

\* Appending puts one more element in a queue.
LEMMA AppendPlaces ==
  ASSUME NEW S, NEW q \in Seq(S), NEW e \in S
  PROVE  /\ Append(q, e) \in Seq(S) /\ Len(Append(q, e)) = Len(q) + 1
         /\ \A x : (\E i \in 1..Len(Append(q, e)) : Append(q, e)[i] = x)
                     <=> (x = e \/ \E i \in 1..Len(q) : q[i] = x)
<1>1. Append(q, e) \in Seq(S) /\ Len(Append(q, e)) = Len(q) + 1
  OBVIOUS
<1>2. Append(q, e)[Len(q) + 1] = e /\ \A i \in 1..Len(q) : Append(q, e)[i] = q[i]
  OBVIOUS
<1>3. Len(q) \in Nat /\ \A i \in 1..(Len(q) + 1) : i \in 1..Len(q) \/ i = Len(q) + 1
  OBVIOUS
<1>4. \A i \in 1..Len(q) : i \in 1..(Len(q) + 1)
  BY <1>3
<1>5. Len(q) + 1 \in 1..(Len(q) + 1)
  BY <1>3
<1> QED
  BY <1>1, <1>2, <1>3, <1>4, <1>5

\* Taking the head leaves the other elements in a queue.
LEMMA TailPlaces ==
  ASSUME NEW S, NEW q \in Seq(S), q # <<>>
  PROVE  /\ Head(q) \in S /\ Tail(q) \in Seq(S) /\ Len(Tail(q)) = Len(q) - 1
         /\ 1 \in 1..Len(q) /\ Head(q) = q[1]
         /\ \A i \in 1..Len(Tail(q)) : i + 1 \in 1..Len(q) /\ Tail(q)[i] = q[i + 1]
  OBVIOUS

-----------------------------------------------------------------------------
(***************************************************************************)
(* Type correctness.                                                       *)
(***************************************************************************)
LEMMA TypeInit == Init => TypeOK
<1> SUFFICES ASSUME Init PROVE TypeOK
  OBVIOUS
<1>1. state \in [Callers -> QueryState]
  BY DEF Init, FreshState, QueryState, ReplyKind
<1>2. tasks \in Seq(Id)
  BY DEF Init
<1>3. /\ ncalls \in [Callers -> Nat] /\ caller \in [Callers -> {"idle", "waiting"}]
      /\ worker \in [Workers -> {"lock", "waiting", "handler", "local", "exited"}]
      /\ job \in [Workers -> Id \cup {NoId}]
      /\ \A w \in Workers : (job[w] # NoId) <=> (worker[w] \in {"handler", "local"})
  BY DEF Init
<1>4. /\ executed \in [Id -> Nat] /\ answered \in [Id -> Nat]
      /\ result \in [Id -> ReplyKind \cup {"none"}]
  BY DEF Init
<1>5. /\ timeouts \in Nat /\ queueDrops \in Nat
      /\ queries \subseteq Id /\ arriving \subseteq Id
      /\ replies \subseteq [id : Id, kind : ReplyKind]
      /\ stop \in {"up", "clear", "close", "notify", "join", "closed"}
      /\ {queryable, stopping, session, factory, crashed} \subseteq BOOLEAN
  BY DEF Init
<1> QED
  BY <1>1, <1>2, <1>3, <1>4, <1>5 DEF TypeOK

\* A reply of a known kind keeps the types of what Reply changes.
LEMMA ReplyType ==
  ASSUME TypeOK, NEW id \in Id, NEW kind \in ReplyKind, Reply(id, kind)
  PROVE  replies' \subseteq [id : Id, kind : ReplyKind] /\ answered' \in [Id -> Nat]
<1>1. [id |-> id, kind |-> kind] \in [id : Id, kind : ReplyKind]
  OBVIOUS
<1> QED
  BY <1>1 DEF Reply, TypeOK

\* A worker with a task runs a call; finishing it keeps the types.
LEMMA FinishType ==
  ASSUME TypeOK, NEW w \in Workers, worker[w] \in {"handler", "local"},
         NEW kind \in ReplyKind, FinishTask(w, kind)
  PROVE  /\ job[w] \in Id
         /\ replies' \subseteq [id : Id, kind : ReplyKind] /\ answered' \in [Id -> Nat]
         /\ worker' \in [Workers -> {"lock", "waiting", "handler", "local", "exited"}]
         /\ job' \in [Workers -> Id \cup {NoId}]
         /\ \A v \in Workers : (job'[v] # NoId) <=> (worker'[v] \in {"handler", "local"})
<1>1. job[w] \in Id
  BY DEF TypeOK
<1>2. replies' \subseteq [id : Id, kind : ReplyKind] /\ answered' \in [Id -> Nat]
  BY <1>1, ReplyType DEF FinishTask
<1>3. /\ worker' = [worker EXCEPT ![w] = "lock"] /\ job' = [job EXCEPT ![w] = NoId]
  BY DEF FinishTask
<1>4. worker' \in [Workers -> {"lock", "waiting", "handler", "local", "exited"}]
  BY <1>3 DEF TypeOK
<1>5. job' \in [Workers -> Id \cup {NoId}]
  BY <1>3 DEF TypeOK
<1>6. \A v \in Workers : (job'[v] # NoId) <=> (worker'[v] \in {"handler", "local"})
  BY <1>3 DEF TypeOK
<1> QED
  BY <1>1, <1>2, <1>4, <1>5, <1>6

\* Waking workers that wait changes no task.
LEMMA WakeType ==
  ASSUME TypeOK, NEW S \in SUBSET Waiting,
         worker' = [w \in Workers |-> IF w \in S THEN "lock" ELSE worker[w]],
         UNCHANGED job
  PROVE  /\ worker' \in [Workers -> {"lock", "waiting", "handler", "local", "exited"}]
         /\ \A v \in Workers : (job'[v] # NoId) <=> (worker'[v] \in {"handler", "local"})
  BY DEF TypeOK, Waiting

LEMMA NotifyOneWakes ==
  ASSUME TypeOK, NotifyOne
  PROVE  \E S \in SUBSET Waiting :
           worker' = [w \in Workers |-> IF w \in S THEN "lock" ELSE worker[w]]
<1>1. CASE Waiting = {}
  <2>1. worker' = [w \in Workers |-> IF w \in {} THEN "lock" ELSE worker[w]]
    BY <1>1 DEF NotifyOne, TypeOK
  <2>2. {} \in SUBSET Waiting
    OBVIOUS
  <2> QED
    BY <2>1, <2>2
<1>2. CASE Waiting # {}
  <2>1. PICK v \in Waiting : worker' = [worker EXCEPT ![v] = "lock"]
    BY <1>2 DEF NotifyOne
  <2>2. worker' = [w \in Workers |-> IF w \in {v} THEN "lock" ELSE worker[w]]
    BY <2>1 DEF TypeOK, Waiting
  <2> QED
    BY <2>2
<1> QED
  BY <1>1, <1>2

LEMMA TypeStep == TypeOK /\ CallsInv /\ [Next]_vars => TypeOK'
<1> SUFFICES ASSUME TypeOK, CallsInv, [Next]_vars PROVE TypeOK'
  OBVIOUS
<1>1. ASSUME NEW c \in Callers, Call(c) PROVE TypeOK'
  <2>1. <<c, ncalls[c] + 1>> \in Id
    BY <1>1, NextIsId DEF Call
  <2>2. ncalls' \in [Callers -> Nat]
    BY <1>1 DEF Call, TypeOK
  <2>3. state' \in [Callers -> QueryState]
    <3>1. FreshState \in QueryState
      BY DEF FreshState, QueryState
    <3> QED
      BY <1>1, <3>1 DEF Call, TypeOK
  <2>4. caller' \in [Callers -> {"idle", "waiting"}] /\ queries' \subseteq Id
    BY <1>1, <2>1 DEF Call, TypeOK
  <2>5. result' \in [Id -> ReplyKind \cup {"none"}]
    BY <1>1, <2>1 DEF Call, TypeOK, ReplyKind
  <2>6. UNCHANGED <<timeouts, replies, serverVars>>
    BY <1>1 DEF Call
  <2> QED
    BY <2>2, <2>3, <2>4, <2>5, <2>6 DEF TypeOK, serverVars, poolVars
<1>2. ASSUME NEW c \in Callers, ZenohTimeout(c) PROVE TypeOK'
  <2>1. Current(c) \in Id
    BY <1>2, CurrentIsId DEF ZenohTimeout
  <2>2. [received |-> TRUE, of |-> Current(c), kind |-> "timeout"] \in QueryState
    BY <2>1 DEF QueryState, ReplyKind
  <2>3. state' \in [Callers -> QueryState]
    BY <1>2, <2>2 DEF ZenohTimeout, TypeOK
  <2>4. UNCHANGED <<ncalls, caller, timeouts, result, queries, replies, serverVars>>
    BY <1>2 DEF ZenohTimeout
  <2> QED
    BY <2>3, <2>4 DEF TypeOK, serverVars, poolVars
<1>3. ASSUME NEW c \in Callers, ReturnFromQuery(c) PROVE TypeOK'
  <2>1. Current(c) \in Id
    BY <1>3, CurrentIsId DEF ReturnFromQuery
  <2>2. Outcome(state[c]) \in ReplyKind \cup {"none"}
    BY DEF Outcome, TypeOK, QueryState, ReplyKind
  <2>3. result' \in [Id -> ReplyKind \cup {"none"}]
    BY <1>3, <2>1, <2>2 DEF ReturnFromQuery, TypeOK
  <2>4. caller' \in [Callers -> {"idle", "waiting"}] /\ timeouts' \in Nat
    BY <1>3 DEF ReturnFromQuery, TypeOK
  <2>5. UNCHANGED <<ncalls, state, queries, replies, serverVars>>
    BY <1>3 DEF ReturnFromQuery
  <2> QED
    BY <2>3, <2>4, <2>5 DEF TypeOK, serverVars, poolVars
<1>4. ASSUME NEW id \in queries, OnQuery(id) PROVE TypeOK'
  BY <1>4 DEF OnQuery, TypeOK, clientVars, poolVars
<1>5. ASSUME NEW reply \in replies, OnReply(reply) PROVE TypeOK'
  <2>1. reply.id \in Id /\ reply.kind \in ReplyKind
    BY DEF TypeOK
  <2>2. ASSUME NEW c \in Callers PROVE state'[c] \in QueryState
    <3>1. state[c] \in QueryState
      BY DEF TypeOK
    <3>2. [state[c] EXCEPT !.received = TRUE, !.of = reply.id, !.kind = reply.kind] \in QueryState
      BY <2>1, <3>1 DEF QueryState
    <3> QED
      BY <1>5, <3>1, <3>2 DEF OnReply
  <2>3. state' \in [Callers -> QueryState]
    BY <1>5, <2>2 DEF OnReply
  <2>4. replies' \subseteq [id : Id, kind : ReplyKind]
    BY <1>5 DEF OnReply, TypeOK
  <2>5. UNCHANGED <<ncalls, caller, timeouts, result, queries, serverVars>>
    BY <1>5 DEF OnReply
  <2> QED
    BY <2>3, <2>4, <2>5 DEF TypeOK, serverVars, poolVars
<1>6. ASSUME NEW id \in Id, DecodeFails(id) PROVE TypeOK'
  <2>1. replies' \subseteq [id : Id, kind : ReplyKind] /\ answered' \in [Id -> Nat]
    BY <1>6, ReplyType DEF DecodeFails, ReplyKind
  <2>2. arriving' \subseteq Id
    BY <1>6 DEF DecodeFails, TypeOK
  <2>3. UNCHANGED <<clientVars, queries, queryable, poolVars, queueDrops, session, factory,
                    stop, crashed, executed>>
    BY <1>6 DEF DecodeFails
  <2> QED
    BY <2>1, <2>2, <2>3 DEF TypeOK, clientVars, poolVars
<1>7. ASSUME NEW id \in Id, TrySubmit(id) PROVE TypeOK'
  <2>1. arriving' \subseteq Id
    BY <1>7 DEF TrySubmit, TypeOK
  <2>2. UNCHANGED <<clientVars, queries, queryable, job, stopping, session, factory, stop,
                    crashed, executed>>
    BY <1>7 DEF TrySubmit
  <2>3. CASE /\ tasks' = Append(tasks, id) /\ NotifyOne
             /\ UNCHANGED <<replies, queueDrops, answered>>
    <3>1. tasks' \in Seq(Id)
      BY <2>3 DEF TypeOK
    <3>2. /\ worker' \in [Workers -> {"lock", "waiting", "handler", "local", "exited"}]
          /\ \A v \in Workers : (job'[v] # NoId) <=> (worker'[v] \in {"handler", "local"})
      BY <2>2, <2>3, NotifyOneWakes, WakeType
    <3> QED
      BY <2>1, <2>2, <2>3, <3>1, <3>2 DEF TypeOK, clientVars
  <2>4. CASE queueDrops' = queueDrops + 1 /\ Reply(id, "full") /\ UNCHANGED <<tasks, worker>>
    <3>1. replies' \subseteq [id : Id, kind : ReplyKind] /\ answered' \in [Id -> Nat]
      BY <2>4, ReplyType DEF ReplyKind
    <3> QED
      BY <2>1, <2>2, <2>4, <3>1 DEF TypeOK, clientVars
  <2> QED
    BY <1>7, <2>3, <2>4 DEF TrySubmit
<1>8. ASSUME NEW w \in Workers, RunLock(w) PROVE TypeOK'
  <2>1. UNCHANGED <<clientVars, queries, replies, queryable, arriving, stopping, queueDrops,
                    session, factory, stop, crashed, executed, answered>>
    BY <1>8 DEF RunLock
  <2>2. CASE tasks # <<>> /\ worker' = [worker EXCEPT ![w] = "handler"]
             /\ job' = [job EXCEPT ![w] = Head(tasks)] /\ tasks' = Tail(tasks)
    <3>1. Head(tasks) \in Id /\ tasks' \in Seq(Id) /\ Head(tasks) # NoId
      BY <2>2, IdFacts DEF TypeOK
    <3>2. worker' \in [Workers -> {"lock", "waiting", "handler", "local", "exited"}]
      BY <2>2 DEF TypeOK
    <3>3. job' \in [Workers -> Id \cup {NoId}]
      BY <2>2, <3>1 DEF TypeOK
    <3>4. \A v \in Workers : (job'[v] # NoId) <=> (worker'[v] \in {"handler", "local"})
      BY <2>2, <3>1 DEF TypeOK
    <3> QED
      BY <2>1, <3>1, <3>2, <3>3, <3>4 DEF TypeOK, clientVars
  <2>3. CASE \E pc \in {"exited", "waiting"} : worker' = [worker EXCEPT ![w] = pc]
                                               /\ UNCHANGED <<job, tasks>>
    <3>1. PICK pc \in {"exited", "waiting"} : worker' = [worker EXCEPT ![w] = pc]
                                               /\ UNCHANGED <<job, tasks>>
      BY <2>3
    <3>2. worker' \in [Workers -> {"lock", "waiting", "handler", "local", "exited"}]
      BY <3>1 DEF TypeOK
    <3>3. \A v \in Workers : (job'[v] # NoId) <=> (worker'[v] \in {"handler", "local"})
      BY <1>8, <3>1 DEF TypeOK, RunLock
    <3> QED
      BY <2>1, <3>1, <3>2, <3>3 DEF TypeOK, clientVars
  <2> QED
    BY <1>8, <2>2, <2>3 DEF RunLock
<1>9. ASSUME NEW w \in Workers, NEW valid \in BOOLEAN, EnterHandler(w, valid) PROVE TypeOK'
  <2>1. UNCHANGED <<clientVars, queries, queryable, arriving, tasks, stopping, queueDrops,
                    session, factory, stop>>
    BY <1>9 DEF EnterHandler
  <2>2. crashed' \in BOOLEAN
    BY <1>9 DEF EnterHandler, TypeOK
  <2>3. CASE FinishTask(w, "rejected") /\ UNCHANGED executed
    <3>1. /\ replies' \subseteq [id : Id, kind : ReplyKind] /\ answered' \in [Id -> Nat]
          /\ worker' \in [Workers -> {"lock", "waiting", "handler", "local", "exited"}]
          /\ job' \in [Workers -> Id \cup {NoId}]
          /\ \A v \in Workers : (job'[v] # NoId) <=> (worker'[v] \in {"handler", "local"})
      BY <1>9, <2>3, FinishType DEF EnterHandler, ReplyKind
    <3> QED
      BY <2>1, <2>2, <2>3, <3>1 DEF TypeOK, clientVars
  <2>4. CASE /\ executed' = [executed EXCEPT ![job[w]] = @ + 1]
             /\ worker' = [worker EXCEPT ![w] = "local"]
             /\ UNCHANGED <<job, replies, answered>>
    <3>1. job[w] \in Id
      BY <1>9 DEF EnterHandler, TypeOK
    <3>2. executed' \in [Id -> Nat]
      BY <2>4, <3>1 DEF TypeOK
    <3>3. worker' \in [Workers -> {"lock", "waiting", "handler", "local", "exited"}]
      BY <2>4 DEF TypeOK
    <3>4. \A v \in Workers : (job'[v] # NoId) <=> (worker'[v] \in {"handler", "local"})
      BY <1>9, <2>4 DEF TypeOK, EnterHandler
    <3> QED
      BY <2>1, <2>2, <2>4, <3>2, <3>3, <3>4 DEF TypeOK, clientVars
  <2> QED
    BY <1>9, <2>3, <2>4 DEF EnterHandler
<1>10. ASSUME NEW w \in Workers, LocalServiceReturns(w) PROVE TypeOK'
  <2>1. PICK kind \in {"ok", "failed", "timeout"} : FinishTask(w, kind)
    BY <1>10 DEF LocalServiceReturns
  <2>2. /\ replies' \subseteq [id : Id, kind : ReplyKind] /\ answered' \in [Id -> Nat]
        /\ worker' \in [Workers -> {"lock", "waiting", "handler", "local", "exited"}]
        /\ job' \in [Workers -> Id \cup {NoId}]
        /\ \A v \in Workers : (job'[v] # NoId) <=> (worker'[v] \in {"handler", "local"})
    BY <1>10, <2>1, FinishType DEF LocalServiceReturns, ReplyKind
  <2>3. crashed' \in BOOLEAN
    BY <1>10 DEF LocalServiceReturns, TypeOK
  <2>4. UNCHANGED <<clientVars, queries, queryable, arriving, tasks, stopping, queueDrops,
                    session, factory, stop, executed>>
    BY <1>10 DEF LocalServiceReturns
  <2> QED
    BY <2>2, <2>3, <2>4 DEF TypeOK, clientVars
<1>11. CASE StopServerThread
  BY <1>11 DEF StopServerThread, StopUnchanged, TypeOK, clientVars
<1>12. CASE ClearServers
  BY <1>12 DEF ClearServers, StopUnchanged, TypeOK, clientVars
<1>13. CASE ExecutorStop
  BY <1>13 DEF ExecutorStop, StopUnchanged, TypeOK, clientVars
<1>14. CASE ExecutorNotifyAll
  <2>1. /\ worker' \in [Workers -> {"lock", "waiting", "handler", "local", "exited"}]
        /\ \A v \in Workers : (job'[v] # NoId) <=> (worker'[v] \in {"handler", "local"})
    BY <1>14, WakeType DEF ExecutorNotifyAll, StopUnchanged
  <2> QED
    BY <1>14, <2>1 DEF ExecutorNotifyAll, StopUnchanged, TypeOK, clientVars
<1>15. CASE JoinAndCloseSession
  BY <1>15 DEF JoinAndCloseSession, StopUnchanged, TypeOK, clientVars
<1>16. CASE UNCHANGED vars
  BY <1>16 DEF TypeOK, vars, clientVars, serverVars, poolVars
<1> QED
  BY <1>1, <1>2, <1>3, <1>4, <1>5, <1>6, <1>7, <1>8, <1>9, <1>10, <1>11, <1>12, <1>13, <1>14,
     <1>15, <1>16
     DEF Next, Network, QueryCallback, Serve, StopStep, Terminated

-----------------------------------------------------------------------------
(***************************************************************************)
(* The calls and the executor.                                             *)
(***************************************************************************)
LEMMA CallsStep == TypeOK /\ CallsInv /\ [Next]_vars => CallsInv'
<1> SUFFICES ASSUME TypeOK, CallsInv, [Next]_vars, NEW c \in Callers
             PROVE  ncalls'[c] <= MaxCalls[c] /\ (caller'[c] = "waiting" => ncalls'[c] >= 1)
  BY DEF CallsInv
<1>0. ncalls[c] \in Nat /\ MaxCalls[c] \in Nat
  BY ServiceAssumption DEF TypeOK
<1>1. ASSUME NEW d \in Callers, Call(d)
      PROVE  ncalls'[c] <= MaxCalls[c] /\ (caller'[c] = "waiting" => ncalls'[c] >= 1)
  BY <1>0, <1>1 DEF Call, CallsInv, TypeOK
<1>2. ASSUME NEW d \in Callers, ReturnFromQuery(d)
      PROVE  ncalls'[c] <= MaxCalls[c] /\ (caller'[c] = "waiting" => ncalls'[c] >= 1)
  BY <1>2 DEF ReturnFromQuery, CallsInv, TypeOK
<1>3. CASE UNCHANGED <<ncalls, caller>>
  BY <1>3 DEF CallsInv
<1>4. ASSUME NEW d \in Callers, ZenohTimeout(d) PROVE UNCHANGED <<ncalls, caller>>
  BY <1>4 DEF ZenohTimeout
<1>5. Network => UNCHANGED <<ncalls, caller>>
  BY DEF Network, OnQuery, OnReply, clientVars
<1>6. ASSUME NEW id \in Id, QueryCallback(id) PROVE UNCHANGED <<ncalls, caller>>
  BY <1>6 DEF QueryCallback, DecodeFails, TrySubmit, clientVars
<1>7. ASSUME NEW w \in Workers, Serve(w) \/ LocalServiceReturns(w)
      PROVE  UNCHANGED <<ncalls, caller>>
  BY <1>7 DEF Serve, RunLock, EnterHandler, LocalServiceReturns, clientVars
<1>8. StopServerThread \/ StopStep => UNCHANGED <<ncalls, caller>>
  BY DEF StopServerThread, StopStep, ExecutorStop, ExecutorNotifyAll, JoinAndCloseSession,
         ClearServers, StopUnchanged, clientVars
<1>9. UNCHANGED vars => UNCHANGED <<ncalls, caller>>
  BY DEF vars, clientVars
<1> QED
  BY <1>1, <1>2, <1>3, <1>4, <1>5, <1>6, <1>7, <1>8, <1>9 DEF Next, Terminated

\* The steps of the callers and the network leave the server's threads alone.
LEMMA OutsideServer ==
  ASSUME \/ \E c \in Callers : Call(c) \/ ZenohTimeout(c) \/ ReturnFromQuery(c)
         \/ Network
         \/ Terminated \/ UNCHANGED vars
  PROVE  UNCHANGED <<poolVars, queueDrops, session, factory, stop, crashed, executed, answered>>
  BY DEF Call, ZenohTimeout, ReturnFromQuery, Network, OnQuery, OnReply, Terminated, vars,
         serverVars

LEMMA PoolStep == TypeOK /\ PoolInv /\ [Next]_vars => PoolInv'
<1> SUFFICES ASSUME TypeOK, PoolInv, [Next]_vars PROVE PoolInv'
  OBVIOUS
<1>1. CASE UNCHANGED <<tasks, worker, stopping, session, stop>>
  BY <1>1 DEF PoolInv
<1>2. ASSUME NEW id \in Id, TrySubmit(id) PROVE PoolInv'
  <2>1. UNCHANGED <<stopping, session, stop>>
    BY <1>2 DEF TrySubmit
  <2>2. CASE ~stopping /\ Len(tasks) < QueueCapacity /\ tasks' = Append(tasks, id) /\ NotifyOne
    <3>1. Len(tasks') <= QueueCapacity
      BY <2>2, ServiceAssumption DEF TypeOK
    <3>2. \A w \in Workers : worker[w] # "exited"
      BY <2>2 DEF PoolInv
    <3>3. \A w \in Workers : worker'[w] # "exited"
      BY <2>2, <3>2, NotifyOneWakes
    <3>4. stop # "closed"
      BY <2>2 DEF PoolInv
    <3> QED
      BY <2>1, <3>1, <3>3, <3>4 DEF PoolInv
  <2>3. CASE UNCHANGED <<tasks, worker>>
    BY <1>1, <2>1, <2>3
  <2> QED
    BY <1>2, <2>2, <2>3 DEF TrySubmit
<1>3. ASSUME NEW w \in Workers, RunLock(w) PROVE PoolInv'
  <2>1. UNCHANGED <<stopping, session, stop>> /\ worker[w] = "lock"
    BY <1>3 DEF RunLock
  <2>2. stop # "closed"
    BY <2>1 DEF PoolInv
  <2>3. CASE tasks # <<>> /\ worker' = [worker EXCEPT ![w] = "handler"] /\ tasks' = Tail(tasks)
    <3>1. Len(tasks') <= QueueCapacity
      BY <2>3, ServiceAssumption DEF TypeOK, PoolInv
    <3>2. \A v \in Workers : worker'[v] # "exited"
      BY <2>3 DEF PoolInv, TypeOK
    <3> QED
      BY <2>1, <2>2, <3>1, <3>2 DEF PoolInv
  <2>4. CASE tasks = <<>> /\ stopping /\ worker' = [worker EXCEPT ![w] = "exited"]
             /\ UNCHANGED tasks
    BY <2>1, <2>2, <2>4 DEF PoolInv, TypeOK
  <2>5. CASE worker' = [worker EXCEPT ![w] = "waiting"] /\ UNCHANGED tasks
    BY <2>1, <2>2, <2>5 DEF PoolInv, TypeOK
  <2> QED
    BY <1>3, <2>3, <2>4, <2>5 DEF RunLock
<1>4. ASSUME NEW w \in Workers, worker[w] \in {"handler", "local"},
             NEW pc \in {"lock", "local"}, worker' = [worker EXCEPT ![w] = pc],
             UNCHANGED <<tasks, stopping, session, stop>>
      PROVE  PoolInv'
  <2>1. stop # "closed"
    BY <1>4 DEF PoolInv
  <2> QED
    BY <1>4, <2>1 DEF PoolInv, TypeOK
<1>5. ASSUME NEW w \in Workers, NEW valid \in BOOLEAN, EnterHandler(w, valid) PROVE PoolInv'
  BY <1>4, <1>5 DEF EnterHandler, FinishTask
<1>6. ASSUME NEW w \in Workers, LocalServiceReturns(w) PROVE PoolInv'
  BY <1>4, <1>6 DEF LocalServiceReturns, FinishTask
<1>7. CASE StopServerThread \/ ClearServers
  BY <1>7 DEF StopServerThread, ClearServers, StopUnchanged, PoolInv
<1>8. CASE ExecutorStop
  BY <1>8 DEF ExecutorStop, StopUnchanged, PoolInv
<1>9. CASE ExecutorNotifyAll
  <2>1. \A w \in Workers : worker'[w] = "exited" => worker[w] = "exited"
    BY <1>9 DEF ExecutorNotifyAll
  <2> QED
    BY <1>9, <2>1 DEF ExecutorNotifyAll, StopUnchanged, PoolInv
<1>10. CASE JoinAndCloseSession
  BY <1>10 DEF JoinAndCloseSession, StopUnchanged, PoolInv
<1>11. ASSUME NEW id \in Id, DecodeFails(id)
       PROVE  UNCHANGED <<tasks, worker, stopping, session, stop>>
  BY <1>11 DEF DecodeFails, poolVars
<1> QED
  BY <1>1, <1>2, <1>3, <1>5, <1>6, <1>7, <1>8, <1>9, <1>10, <1>11, OutsideServer
     DEF Next, QueryCallback, Serve, StopStep, poolVars

-----------------------------------------------------------------------------
(***************************************************************************)
(* A request is in one place.                                              *)
(***************************************************************************)

\* A queue without repetitions keeps none when a new element is appended or the head
\* is taken, and the head is gone from the rest.
LEMMA AppendDistinct ==
  ASSUME NEW S, NEW q \in Seq(S), NEW e \in S,
         \A i, j \in 1..Len(q) : q[i] = q[j] => i = j,
         ~ \E i \in 1..Len(q) : q[i] = e
  PROVE  \A i, j \in 1..Len(Append(q, e)) : Append(q, e)[i] = Append(q, e)[j] => i = j
<1>1. Append(q, e)[Len(q) + 1] = e /\ \A i \in 1..Len(q) : Append(q, e)[i] = q[i]
  OBVIOUS
<1>2. \A i \in 1..Len(Append(q, e)) : i \in 1..Len(q) \/ i = Len(q) + 1
  OBVIOUS
<1> QED
  BY <1>1, <1>2

LEMMA TailDistinct ==
  ASSUME NEW S, NEW q \in Seq(S), q # <<>>,
         \A i, j \in 1..Len(q) : q[i] = q[j] => i = j
  PROVE  /\ \A i, j \in 1..Len(Tail(q)) : Tail(q)[i] = Tail(q)[j] => i = j
         /\ \A x : (\E i \in 1..Len(Tail(q)) : Tail(q)[i] = x)
                     <=> (x # Head(q) /\ \E i \in 1..Len(q) : q[i] = x)
<1>1. Len(q) \in Nat /\ Len(q) >= 1 /\ Len(Tail(q)) = Len(q) - 1
  OBVIOUS
<1>2. \A i \in 1..Len(Tail(q)) : i + 1 \in 1..Len(q) /\ i + 1 # 1 /\ Tail(q)[i] = q[i + 1]
  OBVIOUS
<1>3. 1 \in 1..Len(q) /\ Head(q) = q[1]
  OBVIOUS
<1>4. \A i \in 1..Len(q) : i = 1 \/ (i - 1 \in 1..Len(Tail(q)) /\ Tail(q)[i - 1] = q[i])
  OBVIOUS
<1>5. \A i, j \in 1..Len(Tail(q)) : Tail(q)[i] = Tail(q)[j] => i = j
  <2> SUFFICES ASSUME NEW i \in 1..Len(Tail(q)), NEW j \in 1..Len(Tail(q)),
                      Tail(q)[i] = Tail(q)[j]
               PROVE  i = j
    OBVIOUS
  <2>1. i + 1 = j + 1
    BY <1>2
  <2> QED
    BY <2>1
<1>6. ASSUME NEW x
      PROVE  (\E i \in 1..Len(Tail(q)) : Tail(q)[i] = x)
               <=> (x # Head(q) /\ \E i \in 1..Len(q) : q[i] = x)
  <2>1. ASSUME NEW i \in 1..Len(Tail(q)), Tail(q)[i] = x
        PROVE  x # Head(q) /\ \E k \in 1..Len(q) : q[k] = x
    BY <1>2, <1>3, <2>1
  <2>2. ASSUME NEW i \in 1..Len(q), q[i] = x, x # Head(q)
        PROVE  \E k \in 1..Len(Tail(q)) : Tail(q)[k] = x
    BY <1>3, <1>4, <2>2
  <2> QED
    BY <2>1, <2>2
<1> QED
  BY <1>5, <1>6

\* Steps that move no request.
LEMMA PlaceSame ==
  ASSUME PlaceInv,
         UNCHANGED <<ncalls, queries, arriving, tasks, job, executed, answered>>,
         \A w \in Workers : worker'[w] \in {"handler", "local"} => worker'[w] = worker[w]
  PROVE  PlaceInv'
<1>1. \A id \in Id : Place(id)'
  BY DEF PlaceInv, Place, Queued, Running
<1> QED
  BY <1>1 DEF PlaceInv

\* A finished task: its request leaves the worker and is answered.
LEMMA PlaceFinish ==
  ASSUME TypeOK, PlaceInv, NEW w \in Workers, worker[w] \in {"handler", "local"},
         NEW kind \in ReplyKind, FinishTask(w, kind),
         UNCHANGED <<ncalls, queries, arriving, tasks, executed>>
  PROVE  PlaceInv'
<1>1. job[w] \in Id /\ job[w] # NoId
  BY IdFacts DEF TypeOK
<1>2. /\ worker' = [worker EXCEPT ![w] = "lock"] /\ job' = [job EXCEPT ![w] = NoId]
      /\ answered' = [answered EXCEPT ![job[w]] = @ + 1]
  BY DEF FinishTask, Reply
<1>3. Running(job[w])
  BY DEF Running
<1>4. answered[job[w]] = 0 /\ ~Queued(job[w]) /\ job[w] \notin queries /\ job[w] \notin arriving
  BY <1>1, <1>3 DEF PlaceInv, Place
<1>5. answered'[job[w]] = 1 /\ \A id \in Id : id # job[w] => answered'[id] = answered[id]
  BY <1>1, <1>2, <1>4 DEF TypeOK
<1>6. \A v \in Workers : job'[v] = IF v = w THEN NoId ELSE job[v]
  BY <1>2 DEF TypeOK
<1>7. \A id \in Id : Running(id)' <=> (Running(id) /\ id # job[w])
  <2>1. \A v \in Workers : v # w => job[v] # job[w]
    BY <1>1 DEF PlaceInv
  <2> QED
    BY <1>6, <2>1, IdFacts DEF Running
<1>8. \A id \in Id : Queued(id)' <=> Queued(id)
  BY DEF Queued
<1>9. ASSUME NEW id \in Id PROVE Place(id)'
  <2>1. Place(id)
    BY DEF PlaceInv
  <2>2. CASE id = job[w]
    <3>1. ~Running(id)' /\ ~Queued(id)' /\ id \notin queries' /\ id \notin arriving'
      BY <1>4, <1>7, <1>8, <2>2
    <3>2. id[2] <= ncalls[id[1]]
      <4>1. id[2] > ncalls[id[1]] => ~Running(id)
        BY <2>1 DEF Place
      <4>2. id[2] \in Nat /\ ncalls[id[1]] \in Nat
        BY IdFacts DEF TypeOK
      <4> QED
        BY <1>3, <2>2, <4>1, <4>2
    <3>3. id[2] \in Nat /\ ncalls[id[1]] \in Nat
      BY IdFacts DEF TypeOK
    <3> QED
      BY <1>5, <2>1, <2>2, <3>1, <3>2, <3>3 DEF Place
  <2>3. CASE id # job[w]
    BY <1>5, <1>7, <1>8, <2>1, <2>3 DEF Place
  <2> QED
    BY <2>2, <2>3
<1>10. \A u, v \in Workers : job'[u] = job'[v] /\ job'[u] # NoId => u = v
  BY <1>6 DEF PlaceInv
<1>11. \A v \in Workers : /\ worker'[v] = "handler" => executed'[job'[v]] = 0
                          /\ worker'[v] = "local" => executed'[job'[v]] = 1
  BY <1>2, <1>6 DEF PlaceInv, TypeOK
<1>12. \A i, j \in 1..Len(tasks') : tasks'[i] = tasks'[j] => i = j
  BY DEF PlaceInv
<1> QED
  BY <1>9, <1>10, <1>11, <1>12 DEF PlaceInv

LEMMA PlaceStep == TypeOK /\ CallsInv /\ PlaceInv /\ [Next]_vars => PlaceInv'
<1> SUFFICES ASSUME TypeOK, CallsInv, PlaceInv, [Next]_vars PROVE PlaceInv'
  OBVIOUS
<1>0. \A id \in Id : id[1] \in Callers /\ id[2] \in Nat /\ ncalls[id[1]] \in Nat
                     /\ id = <<id[1], id[2]>>
  BY IdFacts DEF TypeOK
<1>1. ASSUME NEW c \in Callers, Call(c) PROVE PlaceInv'
  <2> DEFINE new == <<c, ncalls[c] + 1>>
  <2>1. new \in Id /\ new[1] = c /\ new[2] = ncalls[c] + 1
    BY <1>1, NextIsId DEF Call
  <2>2. UNCHANGED <<arriving, tasks, worker, job, executed, answered>>
    BY <1>1 DEF Call, serverVars, poolVars
  <2>3. /\ ncalls'[c] = ncalls[c] + 1 /\ ncalls[c] \in Nat
        /\ \A d \in Callers : d # c => ncalls'[d] = ncalls[d]
    BY <1>1 DEF Call, TypeOK
  <2>4. queries' = queries \cup {new} \/ queries' = queries
    BY <1>1 DEF Call
  <2>5. Place(new) /\ new[2] > ncalls[new[1]]
    BY <2>1, <2>3 DEF PlaceInv
  <2> HIDE DEF new
  <2>6. ASSUME NEW id \in Id PROVE Place(id)'
    <3>1. Place(id)
      BY DEF PlaceInv
    <3>2. (Queued(id)' <=> Queued(id)) /\ (Running(id)' <=> Running(id))
      BY <2>2 DEF Queued, Running
    <3>3. CASE id = new
      <4>1. /\ id \notin arriving' /\ ~Queued(id)' /\ ~Running(id)'
            /\ executed'[id] = 0 /\ answered'[id] = 0
        BY <2>2, <2>5, <3>2, <3>3 DEF Place
      <4>2. ~(id[2] > ncalls'[id[1]])
        BY <2>1, <2>3, <3>3
      <4> QED
        BY <4>1, <4>2 DEF Place
    <3>4. CASE id # new
      <4>1. id \in queries' <=> id \in queries
        BY <2>4, <3>4
      <4>2. id[2] > ncalls'[id[1]] => id[2] > ncalls[id[1]]
        BY <1>0, <2>3
      <4> QED
        BY <2>2, <3>1, <3>2, <4>1, <4>2 DEF Place
    <3> QED
      BY <3>3, <3>4
  <2> QED
    BY <2>2, <2>6 DEF PlaceInv
<1>2. ASSUME NEW id \in queries, OnQuery(id) PROVE PlaceInv'
  <2>1. /\ queries' = queries \ {id} /\ arriving' = arriving \cup {id}
        /\ UNCHANGED <<ncalls, tasks, worker, job, executed, answered>>
    BY <1>2 DEF OnQuery, clientVars, poolVars
  <2>2. ASSUME NEW x \in Id PROVE Place(x)'
    <3>1. Place(x) /\ (Queued(x)' <=> Queued(x)) /\ (Running(x)' <=> Running(x))
      BY <2>1 DEF PlaceInv, Queued, Running
    <3> QED
      BY <2>1, <3>1 DEF Place
  <2> QED
    BY <2>1, <2>2 DEF PlaceInv
<1>3. ASSUME NEW id \in Id, id \in arriving, NEW kind \in ReplyKind, Reply(id, kind),
             arriving' = arriving \ {id},
             UNCHANGED <<ncalls, queries, tasks, worker, job, executed>>
      PROVE  PlaceInv'
  <2>1. Place(id)
    BY DEF PlaceInv
  <2>2. answered'[id] = 1 /\ \A x \in Id : x # id => answered'[x] = answered[x]
    BY <1>3, <2>1 DEF Reply, Place, TypeOK
  <2>3. ASSUME NEW x \in Id PROVE Place(x)'
    <3>1. Place(x) /\ (Queued(x)' <=> Queued(x)) /\ (Running(x)' <=> Running(x))
      BY <1>3 DEF PlaceInv, Queued, Running
    <3>2. CASE x = id
      BY <1>0, <1>3, <2>2, <3>1, <3>2 DEF Place
    <3>3. CASE x # id
      BY <1>3, <2>2, <3>1, <3>3 DEF Place
    <3> QED
      BY <3>2, <3>3
  <2> QED
    BY <1>3, <2>3 DEF PlaceInv
<1>4. ASSUME NEW id \in Id, DecodeFails(id) PROVE PlaceInv'
  <2>1. /\ id \in arriving /\ Reply(id, "rejected") /\ arriving' = arriving \ {id}
        /\ UNCHANGED <<ncalls, queries, tasks, worker, job, executed>>
    BY <1>4 DEF DecodeFails, clientVars, poolVars
  <2> QED
    BY <1>3, <2>1 DEF ReplyKind
<1>5. ASSUME NEW id \in Id, TrySubmit(id) PROVE PlaceInv'
  <2>1. /\ id \in arriving /\ arriving' = arriving \ {id}
        /\ UNCHANGED <<ncalls, queries, job, executed>>
    BY <1>5 DEF TrySubmit, clientVars
  <2>2. CASE tasks' = Append(tasks, id) /\ NotifyOne /\ UNCHANGED answered
    <3>1. Place(id) /\ tasks \in Seq(Id)
      BY DEF PlaceInv, TypeOK
    <3>2. \A i, j \in 1..Len(tasks') : tasks'[i] = tasks'[j] => i = j
      BY <2>1, <2>2, <3>1, AppendDistinct DEF PlaceInv, Place, Queued
    <3>3. \A x \in Id : Queued(x)' <=> (x = id \/ Queued(x))
      BY <2>2, <3>1, AppendPlaces DEF Queued
    <3>4. ASSUME NEW x \in Id PROVE Place(x)'
      <4>1. Place(x) /\ (Running(x)' <=> Running(x))
        BY <2>1 DEF PlaceInv, Running
      <4> QED
        BY <2>1, <2>2, <3>1, <3>3, <4>1 DEF Place
    <3>5. \A w \in Workers : worker'[w] \in {"handler", "local"} => worker'[w] = worker[w]
      BY <2>2, NotifyOneWakes
    <3> QED
      BY <2>1, <3>2, <3>4, <3>5 DEF PlaceInv
  <2>3. CASE Reply(id, "full") /\ UNCHANGED <<tasks, worker>>
    BY <1>3, <2>1, <2>3 DEF ReplyKind
  <2> QED
    BY <1>5, <2>2, <2>3 DEF TrySubmit
<1>6. ASSUME NEW w \in Workers, RunLock(w) PROVE PlaceInv'
  <2>1. /\ worker[w] = "lock"
        /\ UNCHANGED <<ncalls, queries, arriving, executed, answered>>
    BY <1>6 DEF RunLock, clientVars
  <2>2. CASE tasks # <<>> /\ worker' = [worker EXCEPT ![w] = "handler"]
             /\ job' = [job EXCEPT ![w] = Head(tasks)] /\ tasks' = Tail(tasks)
    <3>0. PICK h \in Id : h = Head(tasks)
      BY <2>2, TailPlaces DEF TypeOK
    <3>1. tasks \in Seq(Id) /\ Queued(h) /\ job[w] = NoId
      BY <2>1, <2>2, <3>0, TailPlaces DEF TypeOK, Queued
    <3>2. Place(h)
      BY <3>1 DEF PlaceInv
    <3>3. \A i, j \in 1..Len(tasks') : tasks'[i] = tasks'[j] => i = j
      BY <2>2, <3>1, TailDistinct DEF PlaceInv
    <3>4. \A x \in Id : Queued(x)' <=> (x # h /\ Queued(x))
      <4>1. \A i, j \in 1..Len(tasks) : tasks[i] = tasks[j] => i = j
        BY DEF PlaceInv
      <4>2. \A x : (\E i \in 1..Len(Tail(tasks)) : Tail(tasks)[i] = x)
                     <=> (x # Head(tasks) /\ \E i \in 1..Len(tasks) : tasks[i] = x)
        BY <2>2, <3>1, <4>1, TailDistinct, ZenonT(30)
      <4> QED
        BY <2>2, <3>0, <4>2 DEF Queued
    <3>5. \A v \in Workers : job'[v] = IF v = w THEN h ELSE job[v]
      BY <2>2, <3>0 DEF TypeOK
    <3>6. \A x \in Id : Running(x)' <=> (x = h \/ Running(x))
      <4>1. \A x \in Id : Running(x)' => (x = h \/ Running(x))
        BY <3>5 DEF Running
      <4>2. \A x \in Id : Running(x) => Running(x)'
        BY <3>1, <3>5, IdFacts DEF Running
      <4>3. Running(h)'
        BY <3>5 DEF Running
      <4> QED
        BY <4>1, <4>2, <4>3
    <3>7. ASSUME NEW x \in Id PROVE Place(x)'
      <4>1. Place(x)
        BY DEF PlaceInv
      <4>2. CASE x = h
        BY <1>0, <2>1, <3>1, <3>2, <3>4, <3>6, <4>2 DEF Place
      <4>3. CASE x # h
        BY <2>1, <3>4, <3>6, <4>1, <4>3 DEF Place
      <4> QED
        BY <4>2, <4>3
    <3>8. \A u, v \in Workers : job'[u] = job'[v] /\ job'[u] # NoId => u = v
      <4>1. \A v \in Workers : job[v] # h
        BY <3>1, <3>2 DEF Place, Running
      <4> QED
        BY <3>5, <4>1 DEF PlaceInv
    <3>9. ASSUME NEW v \in Workers
          PROVE  /\ worker'[v] = "handler" => executed'[job'[v]] = 0
                 /\ worker'[v] = "local" => executed'[job'[v]] = 1
      <4>1. CASE v = w
        <5>1. worker'[v] = "handler" /\ job'[v] = h
          BY <2>2, <3>5, <4>1 DEF TypeOK
        <5>2. executed[h] = 0
          BY <3>1, <3>2 DEF Place
        <5> QED
          BY <2>1, <5>1, <5>2
      <4>2. CASE v # w
        BY <2>1, <2>2, <3>5, <4>2 DEF PlaceInv, TypeOK
      <4> QED
        BY <4>1, <4>2
    <3> QED
      BY <3>3, <3>7, <3>8, <3>9 DEF PlaceInv
  <2>3. CASE \E pc \in {"exited", "waiting"} : worker' = [worker EXCEPT ![w] = pc]
                                               /\ UNCHANGED <<job, tasks>>
    <3>1. \A v \in Workers : worker'[v] \in {"handler", "local"} => worker'[v] = worker[v]
      BY <2>3 DEF TypeOK
    <3> QED
      BY <2>1, <2>3, <3>1, PlaceSame
  <2> QED
    BY <1>6, <2>2, <2>3 DEF RunLock
<1>7. ASSUME NEW w \in Workers, NEW valid \in BOOLEAN, EnterHandler(w, valid) PROVE PlaceInv'
  <2>1. /\ worker[w] = "handler"
        /\ UNCHANGED <<ncalls, queries, arriving, tasks>>
    BY <1>7 DEF EnterHandler, clientVars
  <2>2. CASE FinishTask(w, "rejected") /\ UNCHANGED executed
    BY <2>1, <2>2, PlaceFinish DEF ReplyKind
  <2>3. CASE /\ executed' = [executed EXCEPT ![job[w]] = @ + 1]
             /\ worker' = [worker EXCEPT ![w] = "local"]
             /\ UNCHANGED <<job, answered>>
    <3>1. job[w] \in Id /\ job[w] # NoId
      BY <2>1, IdFacts DEF TypeOK
    <3>2. executed[job[w]] = 0 /\ Running(job[w]) /\ Place(job[w])
      BY <2>1, <3>1 DEF PlaceInv, Running
    <3>3. executed'[job[w]] = 1 /\ \A x \in Id : x # job[w] => executed'[x] = executed[x]
      BY <2>3, <3>1, <3>2 DEF TypeOK
    <3>4. ASSUME NEW x \in Id PROVE Place(x)'
      <4>1. Place(x) /\ (Queued(x)' <=> Queued(x)) /\ (Running(x)' <=> Running(x))
        BY <2>1, <2>3 DEF PlaceInv, Queued, Running
      <4>2. CASE x = job[w]
        BY <1>0, <2>1, <2>3, <3>2, <3>3, <4>1, <4>2 DEF Place
      <4>3. CASE x # job[w]
        BY <2>1, <2>3, <3>3, <4>1, <4>3 DEF Place
      <4> QED
        BY <4>2, <4>3
    <3>5. ASSUME NEW v \in Workers
          PROVE  /\ worker'[v] = "handler" => executed'[job'[v]] = 0
                 /\ worker'[v] = "local" => executed'[job'[v]] = 1
      <4>1. CASE v = w
        BY <2>3, <3>3, <4>1 DEF TypeOK
      <4>2. CASE v # w
        <5>1. worker'[v] = worker[v] /\ job'[v] = job[v]
          BY <2>3, <4>2 DEF TypeOK
        <5>2. worker[v] \in {"handler", "local"} => job[v] \in Id /\ job[v] # job[w]
          BY <3>1, <4>2 DEF TypeOK, PlaceInv
        <5> QED
          BY <3>3, <5>1, <5>2 DEF PlaceInv
      <4> QED
        BY <4>1, <4>2
    <3> QED
      BY <2>1, <2>3, <3>4, <3>5 DEF PlaceInv
  <2> QED
    BY <1>7, <2>2, <2>3 DEF EnterHandler
<1>8. ASSUME NEW w \in Workers, LocalServiceReturns(w) PROVE PlaceInv'
  <2>1. /\ worker[w] = "local"
        /\ UNCHANGED <<ncalls, queries, arriving, tasks, executed>>
    BY <1>8 DEF LocalServiceReturns, clientVars
  <2>2. PICK kind \in ReplyKind : FinishTask(w, kind)
    BY <1>8 DEF LocalServiceReturns, ReplyKind
  <2> QED
    BY <2>1, <2>2, PlaceFinish
<1>9. ASSUME UNCHANGED <<ncalls, queries, arriving, tasks, worker, job, executed, answered>>
      PROVE  PlaceInv'
  BY <1>9, PlaceSame
<1>10. ASSUME NEW c \in Callers, ZenohTimeout(c) \/ ReturnFromQuery(c) PROVE PlaceInv'
  BY <1>9, <1>10 DEF ZenohTimeout, ReturnFromQuery, serverVars, poolVars
<1>11. ASSUME NEW reply \in replies, OnReply(reply) PROVE PlaceInv'
  BY <1>9, <1>11 DEF OnReply, serverVars, poolVars
<1>12. CASE StopServerThread \/ ExecutorStop \/ JoinAndCloseSession \/ ClearServers
  BY <1>9, <1>12 DEF StopServerThread, ExecutorStop, JoinAndCloseSession, ClearServers,
                     StopUnchanged, clientVars
<1>13. CASE ExecutorNotifyAll
  <2>1. \A w \in Workers : worker'[w] \in {"handler", "local"} => worker'[w] = worker[w]
    BY <1>13 DEF ExecutorNotifyAll
  <2> QED
    BY <1>13, <2>1, PlaceSame DEF ExecutorNotifyAll, StopUnchanged, clientVars
<1>14. CASE UNCHANGED vars
  BY <1>9, <1>14 DEF vars, clientVars, serverVars, poolVars
<1> QED
  BY <1>1, <1>2, <1>4, <1>5, <1>6, <1>7, <1>8, <1>10, <1>11, <1>12, <1>13, <1>14
     DEF Next, Network, QueryCallback, Serve, StopStep, Terminated

-----------------------------------------------------------------------------
(***************************************************************************)
(* What a caller is told stays true.                                       *)
(***************************************************************************)

\* Only a request without an answer is answered, or handed to the local service.
LEMMA HistoryStep ==
  ASSUME TypeOK, PlaceInv, [Next]_vars, NEW x \in Id
  PROVE  /\ answered[x] = 1 => answered'[x] = 1 /\ executed'[x] = executed[x]
         /\ executed[x] = 1 => executed'[x] = 1
<1> DEFINE Kept == /\ answered[x] = 1 => answered'[x] = 1 /\ executed'[x] = executed[x]
                   /\ executed[x] = 1 => executed'[x] = 1
<1>0. Place(x)
  BY DEF PlaceInv
<1>1. CASE UNCHANGED <<executed, answered>>
  BY <1>1
<1>2. ASSUME NEW id \in Id, answered[id] = 0, NEW kind, Reply(id, kind), UNCHANGED executed
      PROVE  Kept
  BY <1>2 DEF Reply, TypeOK
<1>3. ASSUME NEW id \in Id, id \in arriving PROVE answered[id] = 0
  BY <1>3 DEF PlaceInv, Place
<1>4. ASSUME NEW w \in Workers, worker[w] \in {"handler", "local"}
      PROVE  job[w] \in Id /\ answered[job[w]] = 0
  <2>1. job[w] \in Id
    BY <1>4 DEF TypeOK
  <2>2. Running(job[w])
    BY DEF Running
  <2> QED
    BY <2>1, <2>2 DEF PlaceInv, Place
<1>5. ASSUME NEW id \in Id, QueryCallback(id) PROVE Kept
  <2>1. id \in arriving /\ UNCHANGED executed
    BY <1>5 DEF QueryCallback, DecodeFails, TrySubmit
  <2>2. (\E kind \in ReplyKind : Reply(id, kind)) \/ UNCHANGED answered
    BY <1>5 DEF QueryCallback, DecodeFails, TrySubmit, ReplyKind
  <2> QED
    BY <1>1, <1>2, <1>3, <2>1, <2>2
<1>6. ASSUME NEW w \in Workers, RunLock(w) PROVE Kept
  BY <1>1, <1>6 DEF RunLock
<1>7. ASSUME NEW w \in Workers, NEW valid \in BOOLEAN, EnterHandler(w, valid) PROVE Kept
  <2>1. worker[w] = "handler"
    BY <1>7 DEF EnterHandler
  <2>2. job[w] \in Id /\ answered[job[w]] = 0 /\ executed[job[w]] = 0
    BY <1>4, <2>1 DEF PlaceInv
  <2>3. CASE FinishTask(w, "rejected") /\ UNCHANGED executed
    BY <1>2, <2>2, <2>3 DEF FinishTask
  <2>4. CASE executed' = [executed EXCEPT ![job[w]] = @ + 1] /\ UNCHANGED answered
    BY <2>2, <2>4 DEF TypeOK
  <2> QED
    BY <1>7, <2>3, <2>4 DEF EnterHandler
<1>8. ASSUME NEW w \in Workers, LocalServiceReturns(w) PROVE Kept
  <2>1. worker[w] = "local" /\ UNCHANGED executed
    BY <1>8 DEF LocalServiceReturns
  <2>2. PICK kind \in ReplyKind : Reply(job[w], kind)
    BY <1>8 DEF LocalServiceReturns, FinishTask, ReplyKind
  <2> QED
    BY <1>2, <1>4, <2>1, <2>2
<1>9. CASE StopServerThread \/ StopStep
  BY <1>1, <1>9 DEF StopServerThread, StopStep, ExecutorStop, ExecutorNotifyAll,
                    JoinAndCloseSession, ClearServers, StopUnchanged
<1> QED
  BY <1>1, <1>5, <1>6, <1>7, <1>8, <1>9, OutsideServer DEF Next, Serve

LEMMA ClaimStays ==
  ASSUME TypeOK, PlaceInv, [Next]_vars, NEW x \in Id, NEW kind, Claim(x, kind)
  PROVE  Claim(x, kind)'
  BY HistoryStep DEF Claim

\* A reply that is true joins replies that are true.
LEMMA ReplyTruth ==
  ASSUME TypeOK, PlaceInv, TruthInv, [Next]_vars, NEW x \in Id, NEW kind \in ReplyKind,
         answered[x] = 0, Reply(x, kind),
         kind = "ok" => executed'[x] = 1,
         kind \in {"rejected", "full"} => executed'[x] = 0
  PROVE  \A r \in replies' : answered'[r.id] = 1 /\ Claim(r.id, r.kind)'
<1>1. answered'[x] = 1
  BY DEF Reply, TypeOK
<1>2. Claim(x, kind)'
  BY <1>1 DEF Claim
<1>3. ASSUME NEW r \in replies PROVE answered'[r.id] = 1 /\ Claim(r.id, r.kind)'
  <2>1. r.id \in Id /\ answered[r.id] = 1 /\ Claim(r.id, r.kind)
    BY DEF TruthInv, TypeOK
  <2> QED
    BY <2>1, HistoryStep, ClaimStays
<1>4. replies' = replies \cup {[id |-> x, kind |-> kind]}
  BY DEF Reply
<1> QED
  BY <1>1, <1>2, <1>3, <1>4

\* The replies on their way stay true.
LEMMA RepliesStep ==
  ASSUME TypeOK, PlaceInv, TruthInv, [Next]_vars
  PROVE  \A r \in replies' : answered'[r.id] = 1 /\ Claim(r.id, r.kind)'
<1> DEFINE Goal == \A r \in replies' : answered'[r.id] = 1 /\ Claim(r.id, r.kind)'
<1>1. CASE replies' \subseteq replies
  <2> SUFFICES ASSUME NEW r \in replies PROVE answered'[r.id] = 1 /\ Claim(r.id, r.kind)'
    BY <1>1
  <2>1. r.id \in Id /\ answered[r.id] = 1 /\ Claim(r.id, r.kind)
    BY DEF TruthInv, TypeOK
  <2> QED
    BY <2>1, HistoryStep, ClaimStays
<1>2. ASSUME NEW id \in Id, QueryCallback(id) PROVE Goal
  <2>1. Place(id) /\ id \in arriving /\ UNCHANGED executed
    BY <1>2 DEF QueryCallback, DecodeFails, TrySubmit, PlaceInv
  <2>2. answered[id] = 0 /\ executed'[id] = 0
    BY <2>1 DEF Place
  <2>3. \/ Reply(id, "rejected") \/ Reply(id, "full") \/ UNCHANGED replies
    BY <1>2 DEF QueryCallback, DecodeFails, TrySubmit
  <2> QED
    BY <1>1, <2>2, <2>3, ReplyTruth DEF ReplyKind
<1>3. ASSUME NEW w \in Workers, worker[w] \in {"handler", "local"}
      PROVE  job[w] \in Id /\ answered[job[w]] = 0
  <2>1. job[w] \in Id
    BY <1>3 DEF TypeOK
  <2>2. Running(job[w])
    BY DEF Running
  <2> QED
    BY <2>1, <2>2 DEF PlaceInv, Place
<1>4. ASSUME NEW w \in Workers, NEW valid \in BOOLEAN, EnterHandler(w, valid) PROVE Goal
  <2>1. worker[w] = "handler"
    BY <1>4 DEF EnterHandler
  <2>2. job[w] \in Id /\ answered[job[w]] = 0 /\ executed[job[w]] = 0
    BY <1>3, <2>1 DEF PlaceInv
  <2>3. CASE FinishTask(w, "rejected") /\ UNCHANGED executed
    BY <2>2, <2>3, ReplyTruth DEF FinishTask, ReplyKind
  <2>4. CASE UNCHANGED replies
    BY <1>1, <2>4
  <2> QED
    BY <1>4, <2>3, <2>4 DEF EnterHandler
<1>5. ASSUME NEW w \in Workers, LocalServiceReturns(w) PROVE Goal
  <2>1. worker[w] = "local" /\ UNCHANGED executed
    BY <1>5 DEF LocalServiceReturns
  <2>2. job[w] \in Id /\ answered[job[w]] = 0 /\ executed'[job[w]] = 1
    BY <1>3, <2>1 DEF PlaceInv
  <2>3. PICK kind \in {"ok", "failed", "timeout"} : Reply(job[w], kind)
    BY <1>5 DEF LocalServiceReturns, FinishTask
  <2> QED
    BY <2>2, <2>3, ReplyTruth DEF ReplyKind
<1>6. ASSUME NEW w \in Workers, RunLock(w) PROVE Goal
  BY <1>1, <1>6 DEF RunLock
<1>7. CASE StopServerThread \/ StopStep
  BY <1>1, <1>7 DEF StopServerThread, StopStep, ExecutorStop, ExecutorNotifyAll,
                    JoinAndCloseSession, ClearServers, StopUnchanged
<1>8. ASSUME NEW c \in Callers, Call(c) \/ ZenohTimeout(c) \/ ReturnFromQuery(c) PROVE Goal
  BY <1>1, <1>8 DEF Call, ZenohTimeout, ReturnFromQuery
<1>9. CASE Network
  BY <1>1, <1>9 DEF Network, OnQuery, OnReply
<1>10. CASE UNCHANGED vars
  BY <1>1, <1>10 DEF vars
<1> QED
  BY <1>2, <1>4, <1>5, <1>6, <1>7, <1>8, <1>9, <1>10 DEF Next, Serve, Terminated

\* What a proxy that waits has received, and what calls returned, stay true.
LEMMA CallersStep ==
  ASSUME TypeOK, CallsInv, PlaceInv, TruthInv, [Next]_vars
  PROVE  /\ \A c \in Callers : caller'[c] = "waiting" /\ state'[c].received =>
              state'[c].of = Current(c)' /\ Claim(Current(c), state[c].kind)'
         /\ \A id \in Id : Claim(id, result[id])'
<1> DEFINE Holds(c) == caller[c] = "waiting" /\ state[c].received =>
                         state[c].of = Current(c) /\ Claim(Current(c), state[c].kind)
           Results == \A id \in Id : Claim(id, result[id])
<1>0. (\A c \in Callers : Holds(c)) /\ Results
  BY DEF TruthInv
<1>1. ASSUME NEW c \in Callers, caller'[c] = caller[c], state'[c] = state[c],
             ncalls'[c] = ncalls[c]
      PROVE  Holds(c)'
  <2> SUFFICES ASSUME caller'[c] = "waiting", state'[c].received
               PROVE  state'[c].of = Current(c)' /\ Claim(Current(c), state[c].kind)'
    OBVIOUS
  <2>1. caller[c] = "waiting" /\ state[c].received
    BY <1>1
  <2>2. PICK x \in Id, kind \in ReplyKind \cup {"none"} : x = Current(c) /\ kind = state[c].kind
    BY <2>1, CurrentIsId DEF TypeOK, QueryState
  <2>3. state[c].of = x /\ Claim(x, kind)
    BY <1>0, <2>1, <2>2
  <2>4. Claim(x, kind)'
    BY <2>3, ClaimStays
  <2>5. x = Current(c)' /\ kind = state'[c].kind
    BY <1>1, <2>2 DEF Current
  <2> QED
    BY <1>1, <2>3, <2>4, <2>5 DEF Claim
<1>2. ASSUME NEW id \in Id, result'[id] = result[id] PROVE Claim(id, result[id])'
  <2>1. PICK kind \in ReplyKind \cup {"none"} : kind = result[id]
    BY DEF TypeOK
  <2>2. Claim(id, kind)'
    BY <1>0, <2>1, ClaimStays
  <2> QED
    BY <1>2, <2>1, <2>2 DEF Claim
<1>3. CASE UNCHANGED <<ncalls, caller, state, result>>
  BY <1>1, <1>2, <1>3
<1>4. ASSUME NEW c \in Callers, Call(c) PROVE (\A d \in Callers : Holds(d)') /\ Results'
  <2>1. ASSUME NEW d \in Callers PROVE Holds(d)'
    <3>1. CASE d = c
      <4>1. ~state'[d].received
        BY <1>4, <3>1 DEF Call, TypeOK, FreshState
      <4> QED
        BY <4>1
    <3>2. CASE d # c
      <4>1. caller'[d] = caller[d] /\ state'[d] = state[d] /\ ncalls'[d] = ncalls[d]
        BY <1>4, <3>2 DEF Call, TypeOK
      <4> QED
        BY <1>1, <4>1
    <3> QED
      BY <3>1, <3>2
  <2>2. ASSUME NEW id \in Id PROVE Claim(id, result[id])'
    <3>1. result'[id] = result[id] \/ result'[id] = "failed"
      BY <1>4 DEF Call, TypeOK
    <3>2. CASE result'[id] = "failed"
      BY <3>2 DEF Claim
    <3> QED
      BY <1>2, <3>1, <3>2
  <2> QED
    BY <2>1, <2>2
<1>5. ASSUME NEW c \in Callers, ZenohTimeout(c)
      PROVE  (\A d \in Callers : Holds(d)') /\ Results'
  <2>0. UNCHANGED <<ncalls, caller, result>>
    BY <1>5 DEF ZenohTimeout
  <2>1. ASSUME NEW d \in Callers PROVE Holds(d)'
    <3>1. CASE d = c
      <4>1. state'[d].of = Current(d) /\ state'[d].kind = "timeout"
        BY <1>5, <3>1 DEF ZenohTimeout, TypeOK
      <4> QED
        BY <2>0, <4>1 DEF Claim, Current
    <3>2. CASE d # c
      <4>1. state'[d] = state[d]
        BY <1>5, <3>2 DEF ZenohTimeout, TypeOK
      <4> QED
        BY <1>1, <2>0, <4>1
    <3> QED
      BY <3>1, <3>2
  <2> QED
    BY <1>2, <2>0, <2>1
<1>6. ASSUME NEW c \in Callers, ReturnFromQuery(c)
      PROVE  (\A d \in Callers : Holds(d)') /\ Results'
  <2>0. UNCHANGED <<ncalls, state>> /\ caller[c] = "waiting"
    BY <1>6 DEF ReturnFromQuery
  <2>1. ASSUME NEW d \in Callers PROVE Holds(d)'
    <3>1. CASE caller'[d] # "waiting"
      BY <3>1
    <3>2. CASE caller'[d] = "waiting"
      <4>1. caller[d] = "waiting"
        BY <1>6, <3>2 DEF ReturnFromQuery, TypeOK
      <4> QED
        BY <1>1, <2>0, <3>2, <4>1
    <3> QED
      BY <3>1, <3>2
  <2>2. ASSUME NEW id \in Id PROVE Claim(id, result[id])'
    <3>1. CASE id = Current(c)
      <4>1. PICK kind \in ReplyKind \cup {"none"} : kind = Outcome(state[c])
        BY DEF Outcome, TypeOK, QueryState, ReplyKind
      <4>2. result'[id] = kind
        BY <1>6, <3>1, <4>1 DEF ReturnFromQuery, TypeOK
      <4>3. Claim(id, kind)
        <5>1. CASE state[c].received
          BY <1>0, <2>0, <3>1, <4>1, <5>1 DEF Outcome
        <5>2. CASE ~state[c].received
          BY <4>1, <5>2 DEF Outcome, Claim
        <5> QED
          BY <5>1, <5>2
      <4>4. Claim(id, kind)'
        BY <4>3, ClaimStays
      <4> QED
        BY <4>2, <4>4 DEF Claim
    <3>2. CASE id # Current(c)
      <4>1. result'[id] = result[id]
        BY <1>6, <3>2 DEF ReturnFromQuery, TypeOK
      <4> QED
        BY <1>2, <4>1
    <3> QED
      BY <3>1, <3>2
  <2> QED
    BY <2>1, <2>2
<1>7. ASSUME NEW reply \in replies, OnReply(reply)
      PROVE  (\A d \in Callers : Holds(d)') /\ Results'
  <2>0. UNCHANGED <<ncalls, caller, result>>
    BY <1>7 DEF OnReply
  <2>1. ASSUME NEW d \in Callers PROVE Holds(d)'
    <3>1. CASE d \in Owner(reply.id) /\ ~state[d].received
      <4>1. state[d] \in QueryState
        BY DEF TypeOK
      <4>2. state'[d] = [state[d] EXCEPT !.received = TRUE, !.of = reply.id, !.kind = reply.kind]
        BY <1>7, <3>1 DEF OnReply
      <4>3. state'[d].of = reply.id /\ state'[d].kind = reply.kind
        BY <4>1, <4>2 DEF QueryState
      <4>4. reply.id = Current(d) /\ Current(d)' = Current(d)
        BY <2>0, <3>1 DEF Owner, Current
      <4>5. reply.id \in Id /\ Claim(reply.id, reply.kind)
        BY DEF TruthInv, TypeOK
      <4>6. Claim(reply.id, reply.kind)'
        BY <4>5, ClaimStays
      <4> QED
        BY <4>3, <4>4, <4>6 DEF Claim
    <3>2. CASE ~(d \in Owner(reply.id) /\ ~state[d].received)
      <4>1. state'[d] = state[d]
        BY <1>7, <3>2 DEF OnReply
      <4> QED
        BY <1>1, <2>0, <4>1
    <3> QED
      BY <3>1, <3>2
  <2> QED
    BY <1>2, <2>0, <2>1
<1>8. ASSUME NEW id \in queries, OnQuery(id) PROVE UNCHANGED <<ncalls, caller, state, result>>
  BY <1>8 DEF OnQuery, clientVars
<1>9. ASSUME NEW id \in Id, QueryCallback(id) PROVE UNCHANGED <<ncalls, caller, state, result>>
  BY <1>9 DEF QueryCallback, DecodeFails, TrySubmit, clientVars
<1>10. ASSUME NEW w \in Workers, Serve(w) \/ LocalServiceReturns(w)
       PROVE  UNCHANGED <<ncalls, caller, state, result>>
  BY <1>10 DEF Serve, RunLock, EnterHandler, LocalServiceReturns, clientVars
<1>11. StopServerThread \/ StopStep => UNCHANGED <<ncalls, caller, state, result>>
  BY DEF StopServerThread, StopStep, ExecutorStop, ExecutorNotifyAll, JoinAndCloseSession,
         ClearServers, StopUnchanged, clientVars
<1>12. UNCHANGED vars => UNCHANGED <<ncalls, caller, state, result>>
  BY DEF vars, clientVars
<1>13. (\A d \in Callers : Holds(d)') /\ Results'
  BY <1>3, <1>4, <1>5, <1>6, <1>7, <1>8, <1>9, <1>10, <1>11, <1>12
     DEF Next, Network, Terminated
<1> QED
  BY <1>13

LEMMA TruthStep == TypeOK /\ CallsInv /\ PlaceInv /\ TruthInv /\ [Next]_vars => TruthInv'
  BY RepliesStep, CallersStep DEF TruthInv

-----------------------------------------------------------------------------
(***************************************************************************)
(* The theorems.                                                           *)
(***************************************************************************)
LEMMA InvariantInit == Init => IInv
<1> SUFFICES ASSUME Init PROVE IInv
  OBVIOUS
<1>1. TypeOK
  BY TypeInit
<1>2. CallsInv
  BY ServiceAssumption DEF Init, CallsInv
<1>3. PoolInv
  <2>1. tasks = <<>> /\ Len(tasks) = 0
    BY DEF Init
  <2> QED
    BY <2>1, ServiceAssumption DEF Init, PoolInv
<1>4. PlaceInv
  <2>1. Len(tasks) = 0 /\ \A w \in Workers : job[w] = NoId /\ worker[w] = "lock"
    BY DEF Init
  <2>2. \A id \in Id : ~Queued(id) /\ ~Running(id)
    BY <2>1, IdFacts DEF Queued, Running
  <2>3. queries = {} /\ arriving = {} /\ \A id \in Id : executed[id] = 0 /\ answered[id] = 0
    BY DEF Init
  <2> QED
    BY <2>1, <2>2, <2>3 DEF PlaceInv, Place
<1>5. TruthInv
  BY DEF Init, TruthInv, Claim
<1> QED
  BY <1>1, <1>2, <1>3, <1>4, <1>5 DEF IInv

\* The inductive invariant holds in every behaviour of the bridged service, whatever
\* Zenoh loses, delays or times out.
THEOREM ServiceInvariant == Spec => []IInv
<1>1. IInv /\ [Next]_vars => IInv'
  BY TypeStep, CallsStep, PoolStep, PlaceStep, TruthStep DEF IInv
<1> QED
  BY <1>1, InvariantInit, PTL DEF Spec

\* Every variable of the proxies, the executor and stopBridge keeps its type; a worker
\* holds a task exactly while it runs it.
THEOREM ServiceTypes == Spec => []TypeOK
<1>1. IInv => TypeOK
  BY DEF IInv
<1> QED
  BY <1>1, ServiceInvariant, PTL

\* on_reply only writes the QueryState of the call it was created for: a proxy never
\* takes the late answer to a call that timed out for the answer to its next call.
THEOREM AnswersAreOwn == Spec => []AnswerIsOwn
<1>1. IInv => AnswerIsOwn
  BY DEF IInv, TruthInv, AnswerIsOwn
<1> QED
  BY <1>1, ServiceInvariant, PTL

\* A call that returned success was executed exactly once, one that was refused by
\* handleRemoteRequest or by the executor is never executed, and none is executed twice.
THEOREM ResultsAreTruthful == Spec => []ResultIsTruthful
<1>1. IInv => ResultIsTruthful
  <2> SUFFICES ASSUME IInv, NEW id \in Id
               PROVE  /\ executed[id] <= 1
                      /\ result[id] = "ok" => executed[id] = 1
                      /\ result[id] \in {"rejected", "full"} => executed[id] = 0
    BY DEF ResultIsTruthful
  <2>1. Place(id) /\ Claim(id, result[id])
    BY DEF IInv, PlaceInv, TruthInv
  <2> QED
    BY <2>1 DEF Place, Claim
<1> QED
  BY <1>1, ServiceInvariant, PTL

\* A request that TrySubmit accepted is queued, run by one worker or answered, and only
\* once; Stop joins the workers only when nothing is queued or run any more.
THEOREM AcceptedAreAnswered == Spec => []AcceptedIsAnswered
<1>1. IInv => AcceptedIsAnswered
  <2> SUFFICES ASSUME IInv PROVE AcceptedIsAnswered
    OBVIOUS
  <2>0. TypeOK /\ PoolInv /\ PlaceInv
    BY DEF IInv
  <2>1. Len(tasks) <= QueueCapacity
    BY <2>0 DEF PoolInv
  <2>2. ASSUME NEW id \in Id
        PROVE  /\ answered[id] + Cardinality({w \in Workers : job[w] = id})
                    + Cardinality({i \in 1..Len(tasks) : tasks[i] = id}) <= 1
               /\ executed[id] = 1 => answered[id] = 1 \/ \E w \in Workers : job[w] = id
    <3> DEFINE A == {w \in Workers : job[w] = id}
               B == {i \in 1..Len(tasks) : tasks[i] = id}
    <3>1. Place(id) /\ answered[id] \in Nat
      BY <2>0 DEF PlaceInv, TypeOK
    <3>2. ~Running(id) => Cardinality(A) = 0
      <4>1. ~Running(id) => A = {}
        BY DEF Running
      <4> QED
        BY <4>1, FS_EmptySet
    <3>3. ~Queued(id) => Cardinality(B) = 0
      <4>1. ~Queued(id) => B = {}
        BY DEF Queued
      <4> QED
        BY <4>1, FS_EmptySet
    <3>4. Running(id) => Cardinality(A) = 1
      <4> SUFFICES ASSUME NEW w \in Workers, job[w] = id PROVE Cardinality(A) = 1
        BY DEF Running
      <4>1. A = {w}
        BY <2>0, IdFacts DEF PlaceInv
      <4> QED
        BY <4>1, FS_Singleton
    <3>5. Queued(id) => Cardinality(B) = 1
      <4> SUFFICES ASSUME NEW i \in 1..Len(tasks), tasks[i] = id PROVE Cardinality(B) = 1
        BY DEF Queued
      <4>1. B = {i}
        BY <2>0 DEF PlaceInv
      <4> QED
        BY <4>1, FS_Singleton
    <3>6. executed[id] = 1 => answered[id] = 1 \/ \E w \in Workers : job[w] = id
      BY <3>1 DEF Place, Running
    <3> HIDE DEF A, B
    <3>7. answered[id] + Cardinality(A) + Cardinality(B) <= 1
      BY <3>1, <3>2, <3>3, <3>4, <3>5 DEF Place
    <3> QED
      BY <3>6, <3>7 DEF A, B
  <2>3. ASSUME stop = "closed" PROVE tasks = <<>> /\ \A w \in Workers : job[w] = NoId
    <3>1. \A w \in Workers : worker[w] = "exited"
      BY <2>0, <2>3 DEF PoolInv
    <3>2. \A w \in Workers : job[w] = NoId
      BY <2>0, <3>1 DEF TypeOK
    <3>3. tasks = <<>>
      BY <2>0, <3>1, ServiceAssumption DEF PoolInv
    <3> QED
      BY <3>2, <3>3
  <2> QED
    BY <2>1, <2>2, <2>3 DEF AcceptedIsAnswered
<1> QED
  BY <1>1, ServiceInvariant, PTL

\* Close joins the executor's workers before it closes the session: a task never replies
\* on a closed session.
THEOREM RepliesWhileOpen == Spec => ReplyWhileSessionOpen
<1> DEFINE OpenStep == \A id \in Id : answered'[id] # answered[id] /\ id \notin arriving => session
<1>1. IInv /\ [Next]_vars => [OpenStep]_vars
  <2> SUFFICES ASSUME IInv, [Next]_vars PROVE OpenStep
    OBVIOUS
  <2>0. TypeOK /\ PoolInv
    BY DEF IInv
  <2>1. CASE UNCHANGED answered
    BY <2>1
  <2>2. ASSUME NEW x \in Id, QueryCallback(x) PROVE OpenStep
    <3>1. x \in arriving
      BY <2>2 DEF QueryCallback, DecodeFails, TrySubmit
    <3>2. \A id \in Id : id # x => answered'[id] = answered[id]
      BY <2>0, <2>2 DEF QueryCallback, DecodeFails, TrySubmit, Reply, TypeOK
    <3> QED
      BY <3>1, <3>2
  <2>3. ASSUME NEW w \in Workers, worker[w] \in {"handler", "local"} PROVE session
    BY <2>0, <2>3 DEF PoolInv
  <2>4. ASSUME NEW w \in Workers, Serve(w) \/ LocalServiceReturns(w) PROVE OpenStep
    <3>1. worker[w] \in {"handler", "local"} \/ UNCHANGED answered
      BY <2>4 DEF Serve, RunLock, EnterHandler, LocalServiceReturns
    <3> QED
      BY <2>1, <2>3, <3>1
  <2>5. CASE StopServerThread \/ StopStep
    BY <2>1, <2>5 DEF StopServerThread, StopStep, ExecutorStop, ExecutorNotifyAll,
                      JoinAndCloseSession, ClearServers, StopUnchanged
  <2> QED
    BY <2>1, <2>2, <2>4, <2>5, OutsideServer DEF Next
<1>2. Spec => [][OpenStep]_vars
  BY <1>1, ServiceInvariant, PTL DEF Spec
<1> QED
  BY <1>2 DEF ReplyWhileSessionOpen
=============================================================================
