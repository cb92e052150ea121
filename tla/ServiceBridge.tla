---------------------------- MODULE ServiceBridge ----------------------------
(***************************************************************************)
(* A bridged ROS service: client proxies on other hosts                    *)
(* (ServiceFactory::call, ZenohTransport::Query), the query/reply network, *)
(* and the server host (DeclareQueryable, BoundedExecutor,                 *)
(* handleRemoteRequest) with the part of BridgeFactory::stopBridge that    *)
(* tears it down.                                                          *)
(*                                                                         *)
(* A call is identified by <<caller, n>>: the n-th call of a proxy.  Zenoh *)
(* is external: it need not deliver a query or a reply (that is how a      *)
(* message is lost), may deliver a reply after the caller gave up, raise   *)
(* its own timeout, and report completion without a reply.  Time is        *)
(* abstract: a timer may expire whenever it is running.                    *)
(***************************************************************************)
EXTENDS Integers, Sequences, FiniteSets

CONSTANTS
  Callers,          \* client proxies
  AllowedCallers,   \* those that client_hostnames maps to true
  Workers,          \* threads of the BoundedExecutor
  QueueCapacity,    \* service_queue_capacity
  MaxCalls          \* bound: [Callers -> Nat], calls made by each proxy

ASSUME ServiceAssumption ==
  /\ AllowedCallers \subseteq Callers
  /\ IsFiniteSet(Workers) /\ Workers # {}
  /\ QueueCapacity \in Nat \ {0}
  /\ MaxCalls \in [Callers -> Nat]

VARIABLES
  ncalls,     \* [Callers -> Nat]: sequence_ of each proxy
  caller,     \* [Callers -> {"idle", "waiting"}]
  state,      \* [Callers -> QueryState]: the QueryState of the call under way
  timeouts,   \* service_timeouts_ of the callers' transports, in all
  queries,    \* queries on their way to the server
  replies,    \* replies on their way back: [id, kind]
  queryable,  \* queryable_ of the server's ServiceFactory is declared
  arriving,   \* queries whose on_query callback is running
  tasks,      \* executor_.tasks_
  worker,     \* [Workers -> ...]: where each worker is in Run
  job,        \* [Workers -> Id \cup {NoId}]: the task a worker runs
  stopping,   \* executor_.stopping_
  queueDrops, \* service_queue_drops_
  session,    \* the server's session is open
  factory,    \* the server's ServiceFactory exists
  stop,       \* main thread of the server: where it is in stopBridge
  crashed,    \* the server process died
  executed,   \* history, [Id -> Nat]: how often the request went to the local ROS service
  answered,   \* history, [Id -> Nat]: how many replies the server sent
  result      \* history, [Id -> ...]: what the call returned to its ROS caller

clientVars == <<ncalls, caller, state, timeouts, result>>
poolVars   == <<tasks, worker, job, stopping>>
serverVars == <<queryable, arriving, poolVars, queueDrops, session, factory, stop, crashed,
                executed, answered>>
vars == <<clientVars, queries, replies, serverVars>>

Id   == UNION {{c} \X (1..MaxCalls[c]) : c \in Callers}
NoId == <<>>

\* What a reply can be: the response, an error the server sent ("rejected" for a
\* request the handler refuses, "full" from the executor, "failed" for a local
\* failure), or an error whose text reads as a timeout, Zenoh's own above all.
ReplyKind  == {"ok", "rejected", "full", "failed", "timeout"}
QueryState == [received : BOOLEAN, of : Id \cup {NoId}, kind : ReplyKind \cup {"none"}]
FreshState == [received |-> FALSE, of |-> NoId, kind |-> "none"]

Current(c) == <<c, ncalls[c]>>

Init ==
  /\ ncalls = [c \in Callers |-> 0]
  /\ caller = [c \in Callers |-> "idle"]
  /\ state = [c \in Callers |-> FreshState]
  /\ timeouts = 0
  /\ queries = {} /\ replies = {} /\ arriving = {}
  /\ queryable = TRUE
  /\ tasks = <<>>
  /\ worker = [w \in Workers |-> "lock"]
  /\ job = [w \in Workers |-> NoId]
  /\ stopping = FALSE
  /\ queueDrops = 0
  /\ session = TRUE /\ factory = TRUE
  /\ stop = "up"
  /\ crashed = FALSE
  /\ executed = [i \in Id |-> 0]
  /\ answered = [i \in Id |-> 0]
  /\ result = [i \in Id |-> "none"]

-----------------------------------------------------------------------------
(***************************************************************************)
(* The client: ServiceFactory::call and ZenohTransport::Query.             *)
(***************************************************************************)

\* A ROS client calls the proxy.  Each call gets a QueryState of its own.
Call(c) ==
  /\ caller[c] = "idle" /\ ncalls[c] < MaxCalls[c]
  /\ ncalls' = [ncalls EXCEPT ![c] = @ + 1]
  /\ state' = [state EXCEPT ![c] = FreshState]
  /\ \/ /\ caller' = [caller EXCEPT ![c] = "waiting"]
        /\ queries' = queries \cup {<<c, ncalls[c] + 1>>}
        /\ UNCHANGED result
     \/ \* Session() or get() throws
        /\ result' = [result EXCEPT ![<<c, ncalls[c] + 1>>] = "failed"]
        /\ UNCHANGED <<caller, queries>>
  /\ UNCHANGED <<timeouts, replies, serverVars>>

\* on_reply holds the QueryState of the call it was created for.  A reply for a
\* call that has returned changes a state nobody reads any more.
OwnerIsProxy(id) ==  \* faulty variant: one QueryState for all calls of a proxy
  {c \in Callers : caller[c] = "waiting" /\ c = id[1]}

Owner(id) == {c \in Callers : caller[c] = "waiting" /\ Current(c) = id}

OnReply(reply) ==
  /\ reply \in replies
  /\ replies' = replies \ {reply}
  /\ state' = [c \in Callers |->
                 IF c \in Owner(reply.id) /\ ~state[c].received
                   THEN [state[c] EXCEPT !.received = TRUE, !.of = reply.id, !.kind = reply.kind]
                   ELSE state[c]]
  /\ UNCHANGED <<ncalls, caller, timeouts, result, queries, serverVars>>

\* Zenoh's own timeout: an error reply, unless a reply came first.
ZenohTimeout(c) ==
  /\ caller[c] = "waiting" /\ ~state[c].received
  /\ state' = [state EXCEPT ![c] = [received |-> TRUE, of |-> Current(c), kind |-> "timeout"]]
  /\ UNCHANGED <<ncalls, caller, timeouts, result, queries, replies, serverVars>>

\* wait_for returns: a reply was received, on_done said that there will be none, or
\* the local timer expired; either of the last two may come at any time.  Query and
\* call evaluate the state under its mutex.
Outcome(s) == IF s.received THEN s.kind ELSE "timeout"

ReturnFromQuery(c) ==
  LET outcome == Outcome(state[c])
  IN  /\ caller[c] = "waiting"
      /\ caller' = [caller EXCEPT ![c] = "idle"]
      /\ result' = [result EXCEPT ![Current(c)] = outcome]
      /\ timeouts' = timeouts + (IF outcome = "timeout" THEN 1 ELSE 0)
      /\ UNCHANGED <<ncalls, state, queries, replies, serverVars>>

-----------------------------------------------------------------------------
(***************************************************************************)
(* The server's queryable and its bounded executor.                        *)
(***************************************************************************)

Reply(id, kind) ==
  /\ replies' = replies \cup {[id |-> id, kind |-> kind]}
  /\ answered' = [answered EXCEPT ![id] = @ + 1]

\* Zenoh starts on_query for a query that reaches the declared queryable.
OnQuery(id) ==
  /\ ~crashed /\ queryable
  /\ id \in queries
  /\ queries' = queries \ {id}
  /\ arriving' = arriving \cup {id}
  /\ UNCHANGED <<clientVars, replies, queryable, poolVars, queueDrops, session, factory,
                 stop, crashed, executed, answered>>

\* The request envelope cannot be decoded: on_query replies at once.
DecodeFails(id) ==
  /\ ~crashed /\ id \in arriving
  /\ arriving' = arriving \ {id}
  /\ Reply(id, "rejected")
  /\ UNCHANGED <<clientVars, queries, queryable, poolVars, queueDrops, session, factory,
                 stop, crashed, executed>>

\* Workers blocked in condition_.wait; notify_one wakes one of them, if any.
Waiting == {w \in Workers : worker[w] = "waiting"}

NotifyOne == IF Waiting = {} THEN UNCHANGED worker
             ELSE \E w \in Waiting : worker' = [worker EXCEPT ![w] = "lock"]

TrySubmitSilent(id) ==  \* faulty variant: notify_one is missing
  /\ ~crashed /\ id \in arriving
  /\ arriving' = arriving \ {id}
  /\ \/ /\ ~stopping /\ Len(tasks) < QueueCapacity
        /\ tasks' = Append(tasks, id)
        /\ UNCHANGED <<worker, replies, queueDrops, answered>>
     \/ /\ stopping \/ Len(tasks) >= QueueCapacity
        /\ queueDrops' = queueDrops + 1
        /\ Reply(id, "full")
        /\ UNCHANGED <<tasks, worker>>
  /\ UNCHANGED <<clientVars, queries, queryable, job, stopping, session, factory, stop,
                 crashed, executed>>

\* TrySubmit, under the executor's mutex, and the reply when it is refused.
TrySubmit(id) ==
  /\ ~crashed /\ id \in arriving
  /\ arriving' = arriving \ {id}
  /\ \/ /\ ~stopping /\ Len(tasks) < QueueCapacity
        /\ tasks' = Append(tasks, id)
        /\ NotifyOne
        /\ UNCHANGED <<replies, queueDrops, answered>>
     \/ /\ stopping \/ Len(tasks) >= QueueCapacity
        /\ queueDrops' = queueDrops + 1
        /\ Reply(id, "full")
        /\ UNCHANGED <<tasks, worker>>
  /\ UNCHANGED <<clientVars, queries, queryable, job, stopping, session, factory, stop,
                 crashed, executed>>

RunLockNoDrain(w) ==  \* faulty variant: a worker leaves although tasks are queued
  /\ ~crashed /\ worker[w] = "lock"
  /\ \/ /\ tasks # <<>> /\ ~stopping
        /\ worker' = [worker EXCEPT ![w] = "handler"]
        /\ job' = [job EXCEPT ![w] = Head(tasks)]
        /\ tasks' = Tail(tasks)
     \/ /\ stopping
        /\ worker' = [worker EXCEPT ![w] = "exited"]
        /\ UNCHANGED <<job, tasks>>
     \/ /\ tasks = <<>> /\ ~stopping
        /\ worker' = [worker EXCEPT ![w] = "waiting"]
        /\ UNCHANGED <<job, tasks>>
  /\ UNCHANGED <<clientVars, queries, replies, queryable, arriving, stopping, queueDrops,
                 session, factory, stop, crashed, executed, answered>>

\* Run, up to the start of a task: stopping_ and tasks_ change only under the
\* mutex, so testing the predicate and blocking is one step, and a spurious wakeup
\* only tests it again.
RunLock(w) ==
  /\ ~crashed /\ worker[w] = "lock"
  /\ \/ /\ tasks # <<>>
        /\ worker' = [worker EXCEPT ![w] = "handler"]
        /\ job' = [job EXCEPT ![w] = Head(tasks)]
        /\ tasks' = Tail(tasks)
     \/ /\ tasks = <<>> /\ stopping
        /\ worker' = [worker EXCEPT ![w] = "exited"]
        /\ UNCHANGED <<job, tasks>>
     \/ /\ tasks = <<>> /\ ~stopping
        /\ worker' = [worker EXCEPT ![w] = "waiting"]
        /\ UNCHANGED <<job, tasks>>
  /\ UNCHANGED <<clientVars, queries, replies, queryable, arriving, stopping, queueDrops,
                 session, factory, stop, crashed, executed, answered>>

FinishTaskKeepsJob(w, kind) ==  \* faulty variant: the task object outlives its run
  /\ Reply(job[w], kind)
  /\ worker' = [worker EXCEPT ![w] = "lock"]
  /\ UNCHANGED job

\* The task is done with its reply.
FinishTask(w, kind) ==
  /\ Reply(job[w], kind)
  /\ worker' = [worker EXCEPT ![w] = "lock"]
  /\ job' = [job EXCEPT ![w] = NoId]

EnterHandlerLateCheck(w, valid) ==  \* faulty variant: the client is checked after the call
  /\ ~crashed /\ worker[w] = "handler"
  /\ crashed' \in {FALSE, ~factory}
  /\ executed' = [executed EXCEPT ![job[w]] = @ + 1]
  /\ \/ /\ ~valid \/ job[w][1] \notin AllowedCallers
        /\ FinishTask(w, "rejected")
     \/ /\ valid /\ job[w][1] \in AllowedCallers
        /\ worker' = [worker EXCEPT ![w] = "local"]
        /\ UNCHANGED <<job, replies, answered>>
  /\ UNCHANGED <<clientVars, queries, queryable, arriving, tasks, stopping, queueDrops,
                 session, factory, stop>>

\* handleRemoteRequest runs on the ServiceFactory that the task captured by
\* address; if that object is gone anything may happen: modelled as going on or
\* dying.  valid stands for the payload kind, the metadata and a usable local
\* client: the returns before the local ROS service is called.
EnterHandler(w, valid) ==
  /\ ~crashed /\ worker[w] = "handler"
  /\ crashed' \in {FALSE, ~factory}
  /\ \/ /\ ~valid \/ job[w][1] \notin AllowedCallers
        /\ FinishTask(w, "rejected")
        /\ UNCHANGED executed
     \/ /\ valid /\ job[w][1] \in AllowedCallers
        /\ executed' = [executed EXCEPT ![job[w]] = @ + 1]
        /\ worker' = [worker EXCEPT ![w] = "local"]
        /\ UNCHANGED <<job, replies, answered>>
  /\ UNCHANGED <<clientVars, queries, queryable, arriving, tasks, stopping, queueDrops,
                 session, factory, stop>>

\* The local ROS service returns, with a response (whose ok byte may say that the
\* call failed) or with an exception that the handler turns into an error, which the
\* client takes for a timeout when its text says so (IsTimeoutError).  The response
\* is built from config_, so the object is used again.
LocalServiceReturns(w) ==
  /\ ~crashed /\ worker[w] = "local"
  /\ crashed' \in {FALSE, ~factory}
  /\ \E kind \in {"ok", "failed", "timeout"} : FinishTask(w, kind)
  /\ UNCHANGED <<clientVars, queries, queryable, arriving, tasks, stopping, queueDrops,
                 session, factory, stop, executed>>

-----------------------------------------------------------------------------
(***************************************************************************)
(* The server's part of BridgeFactory::stopBridge.                         *)
(***************************************************************************)
StopUnchanged == UNCHANGED <<clientVars, queries, replies, arriving, tasks, job, queueDrops,
                             crashed, executed, answered>>

StopServerThread ==
  /\ ~crashed /\ stop = "up"
  /\ queryable' = FALSE
  /\ stop' = "clear"
  /\ UNCHANGED <<worker, stopping, session, factory>>
  /\ StopUnchanged

ClearServers ==
  /\ ~crashed /\ stop = "clear"
  /\ factory' = FALSE
  /\ stop' = "close"
  /\ UNCHANGED <<queryable, worker, stopping, session>>
  /\ StopUnchanged

\* Close: executor_.Stop() sets stopping_ under the mutex, notifies, joins ...
ExecutorStop ==
  /\ ~crashed /\ stop = "close"
  /\ stopping' = TRUE
  /\ stop' = "notify"
  /\ UNCHANGED <<queryable, worker, session, factory>>
  /\ StopUnchanged

ExecutorNotifiesOne ==  \* faulty variant: notify_one instead of notify_all
  /\ ~crashed /\ stop = "notify"
  /\ NotifyOne
  /\ stop' = "join"
  /\ UNCHANGED <<queryable, stopping, session, factory>>
  /\ StopUnchanged

ExecutorNotifyAll ==
  /\ ~crashed /\ stop = "notify"
  /\ worker' = [w \in Workers |-> IF w \in Waiting THEN "lock" ELSE worker[w]]
  /\ stop' = "join"
  /\ UNCHANGED <<queryable, stopping, session, factory>>
  /\ StopUnchanged

CloseWithoutJoin ==  \* faulty variant: the session is closed under the workers
  /\ ~crashed /\ stop = "join"
  /\ session' = FALSE
  /\ stop' = "closed"
  /\ UNCHANGED <<queryable, worker, stopping, factory>>
  /\ StopUnchanged

\* ... and then the session is closed.
JoinAndCloseSession ==
  /\ ~crashed /\ stop = "join"
  /\ \A w \in Workers : worker[w] = "exited"
  /\ session' = FALSE
  /\ stop' = "closed"
  /\ UNCHANGED <<queryable, worker, stopping, factory>>
  /\ StopUnchanged

\* Nothing is left to do once the calls have been made and the server is down.
Terminated ==
  /\ stop = "closed" \/ crashed
  /\ \A c \in Callers : caller[c] = "idle" /\ ncalls[c] = MaxCalls[c]
  /\ UNCHANGED vars

-----------------------------------------------------------------------------
StopStep == ExecutorStop \/ ExecutorNotifyAll \/ JoinAndCloseSession \/ ClearServers
Serve(w) == RunLock(w) \/ \E valid \in BOOLEAN : EnterHandler(w, valid)
Network  == \/ \E id \in queries : OnQuery(id)
            \/ \E reply \in replies : OnReply(reply)
QueryCallback(id) == DecodeFails(id) \/ TrySubmit(id)

Next ==
  \/ \E c \in Callers : Call(c) \/ ZenohTimeout(c) \/ ReturnFromQuery(c)
  \/ Network
  \/ \E id \in Id : QueryCallback(id)
  \/ \E w \in Workers : Serve(w) \/ LocalServiceReturns(w)
  \/ StopServerThread \/ StopStep
  \/ Terminated

\* Threads keep running and the local timer of wait_for expires.  Neither the
\* network nor the local ROS service is obliged to answer.
Fairness ==
  /\ \A c \in Callers : WF_vars(ReturnFromQuery(c))
  /\ \A id \in Id : WF_vars(QueryCallback(id))
  /\ \A w \in Workers : WF_vars(Serve(w))
  /\ WF_vars(StopStep)

Spec == Init /\ [][Next]_vars /\ Fairness

\* The same under the assumption that the local ROS services, which are not part of
\* the bridge and are called without a timeout, return.
ResponsiveSpec == Spec /\ \A w \in Workers : WF_vars(LocalServiceReturns(w))

-----------------------------------------------------------------------------
(***************************************************************************)
(* Properties.                                                             *)
(***************************************************************************)
TypeOK ==
  /\ ncalls \in [Callers -> Nat]
  /\ caller \in [Callers -> {"idle", "waiting"}]
  /\ state \in [Callers -> QueryState]
  /\ timeouts \in Nat /\ queueDrops \in Nat
  /\ queries \subseteq Id /\ arriving \subseteq Id
  /\ replies \subseteq [id : Id, kind : ReplyKind]
  /\ tasks \in Seq(Id)
  /\ worker \in [Workers -> {"lock", "waiting", "handler", "local", "exited"}]
  /\ job \in [Workers -> Id \cup {NoId}]
  /\ \A w \in Workers : (job[w] # NoId) <=> (worker[w] \in {"handler", "local"})
  /\ stop \in {"up", "clear", "close", "notify", "join", "closed"}
  /\ {queryable, stopping, session, factory, crashed} \subseteq BOOLEAN
  /\ executed \in [Id -> Nat] /\ answered \in [Id -> Nat]
  /\ result \in [Id -> ReplyKind \cup {"none"}]

\* A call only ever sees an answer to its own request, also when the answer to an
\* earlier call that timed out arrives while the next call of the same proxy waits.
AnswerIsOwn ==
  \A c \in Callers : caller[c] = "waiting" /\ state[c].received => state[c].of = Current(c)

\* What the ROS caller is told is true: a successful call was executed exactly once,
\* a call refused by the handler or by the full queue was not and will never be
\* executed, and no request is executed twice.
ResultIsTruthful ==
  \A id \in Id : /\ executed[id] <= 1
                 /\ result[id] = "ok" => executed[id] = 1
                 /\ result[id] \in {"rejected", "full"} => executed[id] = 0

\* A request that entered the executor's queue is in one place only and answered at
\* most once: it is queued, run by one worker, or answered, and a request that was
\* handed to the local service is answered or still run.  Close leaves none behind.
AcceptedIsAnswered ==
  /\ Len(tasks) <= QueueCapacity
  /\ \A id \in Id :
       /\ answered[id] + Cardinality({w \in Workers : job[w] = id})
            + Cardinality({i \in 1..Len(tasks) : tasks[i] = id}) <= 1
       /\ executed[id] = 1 => answered[id] = 1 \/ \E w \in Workers : job[w] = id
  /\ stop = "closed" => tasks = <<>> /\ \A w \in Workers : job[w] = NoId

\* Close joins the workers before it closes the session, so no task replies on a
\* session that is already closed.
ReplyWhileSessionOpen ==
  [][\A id \in Id : answered'[id] # answered[id] /\ id \notin arriving => session]_vars

\* If local ROS services return, every request the executor accepted is answered,
\* also one accepted while the workers are busy or just before Stop: notify_one and
\* notify_all never leave all workers asleep on a queue that is not empty.  (Only the
\* death of the process prevents it.)
QueuedIsAnswered ==
  \A id \in Id :
    (\E i \in 1..Len(tasks) : tasks[i] = id) ~> (answered[id] = 1 \/ crashed)

\* If local ROS services return, stopBridge gets through Close: stopping_ is set under
\* the executor's mutex, so no worker sleeps through it.
CloseReturns == (stop = "clear") ~> (stop = "closed" \/ crashed)

\* A request handler never runs on a ServiceFactory that stopBridge has destroyed.
HandlerOutlivesTasks ==
  \A w \in Workers : worker[w] \in {"handler", "local"} => factory
=============================================================================
