-------------------------- MODULE CreatorLifecycle --------------------------
(***************************************************************************)
(* The end of a query: the task creator's request queue, manager and pool  *)
(* (creator/task_creator.cpp), the completion handler, the workers of an   *)
(* executor that finish, fail or complete the query, and the query thread  *)
(* that quiesces everything before the operators are destroyed             *)
(* (task_scheduler::drain_after_error and wait_for_completion).            *)
(*                                                                         *)
(* A query is a number of units of work.  A lambda of the creator claims a *)
(* unit and schedules a task for it; a worker executes the task and        *)
(* schedules a consumer, which is one more request.  What a request makes  *)
(* of the plan is module Pipelines; here only its operator's query counts, *)
(* because operators are destroyed when sirius_engine::execute returns.    *)
(***************************************************************************)
EXTENDS Integers, Sequences, FiniteSets

CONSTANTS ClWorkers,     \* worker threads of the executor
          ClSlots,       \* threads of the creator's bounded_thread_pool
          ClUnits,       \* tasks a query needs
          LambdaFails,   \* TRUE: the body of a creation lambda may throw
          MaxClQueries, MaxClFaults

VARIABLES
  clmutex,     \* holder of _global_state_mutex, or NoThread
  clrunning,   \* task_creator::_running
  clopen,      \* _task_creation_queue._is_active
  clqueue,     \* requests: the query their operator belongs to
  clpool,      \* [up, interrupted] of _bounded_pool
  clmanager,   \* [at, req] of the manager thread
  clpc, clthen,  \* what each thread does, and what it returns to
  clbody,      \* the query whose operator a creation lambda works on
  clhandler,   \* the completion handler and its promise
  clexec,      \* the scheduler and executor: [up, open, tasks]
  clwork,      \* [claimed, done, faults] of the query
  clquery      \* queries started

clvars == <<clmutex, clrunning, clopen, clqueue, clpool, clmanager, clpc, clthen,
            clbody, clhandler, clexec, clwork, clquery>>
creator == <<clmutex, clrunning, clopen, clqueue, clpool, clmanager>>

NoThread == "none"
Engine == "engine"
ClThreads == ClWorkers \cup ClSlots \cup {Engine}

\* Every thread is one of a worker, a thread of the creator's pool, the engine's caller.
ASSUME CreatorAssumption ==
  /\ ClWorkers \cap ClSlots = {} /\ Engine \notin ClWorkers \cup ClSlots
  /\ NoThread \notin ClThreads /\ IsFiniteSet(ClSlots)

FreshHandler == [completed |-> FALSE, has_error |-> FALSE, promise |-> "none"]

\* Slots of the pool in use: the manager's between reserve() and dispatch(), and
\* those of the lambdas.
clactive == Cardinality({l \in ClSlots : clpc[l] # "idle"})
          + (IF clmanager.at \in {"pop", "walk"} THEN 1 ELSE 0)

Goto(t, l) == clpc' = [clpc EXCEPT ![t] = l]
Call(t, p, ret) == Goto(t, p) /\ clthen' = [clthen EXCEPT ![t] = ret]
Return(t) == Goto(t, clthen[t]) /\ UNCHANGED clthen

ClInit ==
  /\ clmutex = NoThread /\ clrunning = FALSE /\ clopen = TRUE /\ clqueue = <<>>
  /\ clpool = [up |-> FALSE, interrupted |-> FALSE]
  /\ clmanager = [at |-> "exited", req |-> 0]
  /\ clpc = [t \in ClThreads |-> IF t = Engine THEN "unborn" ELSE "idle"] /\ clthen = [t \in ClThreads |-> "idle"]
  /\ clbody = [l \in ClSlots |-> 0]
  /\ clhandler = FreshHandler
  /\ clexec = [up |-> TRUE, open |-> TRUE, tasks |-> 0]
  /\ clwork = [claimed |-> 0, done |-> 0, faults |-> 0]
  /\ clquery = 0

-----------------------------------------------------------------------------
(* task_creator::drain_pending_tasks, stop, stop_thread_pool, start_thread_pool *)

DrainLock(t) ==
  /\ clpc[t] = "drain" /\ clmutex = NoThread
  /\ clmutex' = t /\ clopen' = FALSE /\ clqueue' = <<>>
  /\ Goto(t, "drain_wait")
  /\ UNCHANGED <<clrunning, clpool, clmanager, clthen, clbody, clhandler, clexec, clwork, clquery>>

DrainWait(t) ==
  /\ clpc[t] = "drain_wait" /\ (clpool.up => clactive = 0)
  /\ clopen' = TRUE /\ clmutex' = NoThread
  /\ Return(t)
  /\ UNCHANGED <<clrunning, clqueue, clpool, clmanager, clbody, clhandler, clexec, clwork, clquery>>

\* do_stop_thread_pool() interrupts the queue, so that the manager's pop() returns.
QueueAfterStop_Open == clopen
QueueAfterStop == FALSE

\* stop() interrupts the queue even when the creator no longer runs.
StopLock(t) ==
  /\ clpc[t] \in {"stop", "stop_thread_pool"} /\ clmutex = NoThread
  /\ IF clrunning
     THEN /\ clmutex' = t /\ clrunning' = FALSE /\ clopen' = QueueAfterStop
          /\ clpool' = [clpool EXCEPT !.interrupted = TRUE]
          /\ Goto(t, "join") /\ UNCHANGED clthen
     ELSE /\ clopen' = (clopen /\ clpc[t] # "stop")
          /\ Return(t) /\ UNCHANGED <<clmutex, clrunning, clpool>>
  /\ UNCHANGED <<clqueue, clmanager, clbody, clhandler, clexec, clwork, clquery>>

StopJoin(t) ==
  /\ clpc[t] = "join" /\ clmanager.at = "exited"
  /\ Goto(t, "wait_all")
  /\ UNCHANGED <<creator, clthen, clbody, clhandler, clexec, clwork, clquery>>

StopWait(t) ==
  /\ clpc[t] = "wait_all" /\ clactive = 0
  /\ clpool' = [clpool EXCEPT !.up = FALSE] /\ clmutex' = NoThread
  /\ Return(t)
  /\ UNCHANGED <<clrunning, clopen, clqueue, clmanager, clbody, clhandler, clexec, clwork, clquery>>

StartPool(t) ==
  /\ clpc[t] = "start" /\ clmutex = NoThread
  /\ IF clrunning
     THEN UNCHANGED <<clrunning, clopen, clpool, clmanager>>
     ELSE /\ clrunning' = TRUE /\ clopen' = TRUE
          /\ clpool' = [up |-> TRUE, interrupted |-> FALSE]
          /\ clmanager' = [at |-> "loop", req |-> 0]
  /\ Return(t)
  /\ UNCHANGED <<clmutex, clqueue, clbody, clhandler, clexec, clwork, clquery>>

-----------------------------------------------------------------------------
(* task_creator::manager_loop *)

Manager(at, req) == clmanager' = [at |-> at, req |-> req]

ManagerTurn ==
  /\ clmanager.at = "loop"
  /\ Manager(IF clrunning THEN "reserve" ELSE "exited", 0)
  /\ UNCHANGED <<clmutex, clrunning, clopen, clqueue, clpool, clpc, clthen, clbody,
                 clhandler, clexec, clwork, clquery>>

ManagerReserve_ ==
  /\ clmanager.at = "reserve"
  /\ clpool.interrupted \/ clactive < Cardinality(ClSlots)
  /\ Manager(IF clpool.interrupted THEN "exited" ELSE "pop", 0)
  /\ UNCHANGED <<clmutex, clrunning, clopen, clqueue, clpool, clpc, clthen, clbody,
                 clhandler, clexec, clwork, clquery>>

\* pop() gives nothing once the queue is interrupted; the slot is released and
\* the loop goes on.
ManagerPop_ ==
  /\ clmanager.at = "pop"
  /\ \/ clopen /\ clqueue # <<>> /\ Manager("walk", Head(clqueue)) /\ clqueue' = Tail(clqueue)
     \/ ~clopen /\ Manager("loop", 0) /\ UNCHANGED clqueue
  /\ UNCHANGED <<clmutex, clrunning, clopen, clpool, clpc, clthen, clbody,
                 clhandler, clexec, clwork, clquery>>

\* get_operator_for_next_task() finds an operator that is ready, or none.
ManagerDispatch ==
  /\ clmanager.at = "walk"
  /\ IF clwork.claimed = ClUnits
     THEN UNCHANGED <<clpc, clbody>>
     ELSE \E l \in ClSlots :
            /\ clpc[l] = "idle"
            /\ Goto(l, "create") /\ clbody' = [clbody EXCEPT ![l] = clmanager.req]
  /\ Manager("loop", 0)
  /\ UNCHANGED <<clmutex, clrunning, clopen, clqueue, clpool, clthen,
                 clhandler, clexec, clwork, clquery>>

-----------------------------------------------------------------------------
(* A creation lambda: its body, and the catch that ends the query *)

LambdaCreate(l) ==
  /\ clpc[l] = "create"
  /\ IF clwork.claimed < ClUnits
     THEN /\ clwork' = [clwork EXCEPT !.claimed = @ + 1]
          /\ clexec' = [clexec EXCEPT !.tasks = @ + 1]
     ELSE UNCHANGED <<clwork, clexec>>
  /\ Goto(l, "idle") /\ clbody' = [clbody EXCEPT ![l] = 0]
  /\ UNCHANGED <<creator, clthen, clhandler, clquery>>

\* catch: terminate_query(), which reports the error and stops the scheduler,
\* then stop() on the creator itself.
LambdaThrows(l) ==
  /\ LambdaFails /\ clpc[l] = "create" /\ clwork.faults < MaxClFaults
  /\ clwork' = [clwork EXCEPT !.faults = @ + 1]
  /\ Call(l, "report", "halt")
  /\ UNCHANGED <<creator, clbody, clhandler, clexec, clquery>>

\* task_scheduler::stop() joins the executor's threads.
Halt(l) ==
  /\ clpc[l] = "halt"
  /\ clexec' = [clexec EXCEPT !.up = FALSE, !.open = FALSE]
  /\ IF clexec.up THEN Goto(l, "halt_wait") /\ UNCHANGED clthen ELSE Call(l, "stop", "idle")
  /\ UNCHANGED <<creator, clbody, clhandler, clwork, clquery>>

HaltWait(l) ==
  /\ clpc[l] = "halt_wait" /\ \A w \in ClWorkers : clpc[w] = "idle"
  /\ Call(l, "stop", "idle")
  /\ UNCHANGED <<creator, clbody, clhandler, clexec, clwork, clquery>>

-----------------------------------------------------------------------------
(* completion_handler::report_error and mark_completed, one store at a time *)

Report(t) ==
  \/ /\ clpc[t] = "report"
     /\ IF clhandler.completed THEN Return(t) ELSE Goto(t, "report_error") /\ UNCHANGED clthen
     /\ clhandler' = [clhandler EXCEPT !.completed = TRUE]
  \/ /\ clpc[t] = "report_error" /\ Goto(t, "report_future") /\ UNCHANGED clthen
     /\ clhandler' = [clhandler EXCEPT !.has_error = TRUE]
  \/ /\ clpc[t] = "report_future" /\ Return(t)
     /\ clhandler' = [clhandler EXCEPT !.promise = "error"]

Mark(t) ==
  \/ /\ clpc[t] = "mark"
     /\ Goto(t, IF clhandler.completed THEN "idle" ELSE "mark_future")
     /\ clhandler' = [clhandler EXCEPT !.completed = TRUE]
  \/ /\ clpc[t] = "mark_future" /\ Goto(t, "idle")
     /\ clhandler' = [clhandler EXCEPT !.promise = "value"]

Signal(t) ==
  /\ Report(t) \/ (Mark(t) /\ UNCHANGED clthen)
  /\ UNCHANGED <<creator, clbody, clexec, clwork, clquery>>

-----------------------------------------------------------------------------
(* A worker of the executor *)

TakeTask_(w) ==
  /\ clpc[w] = "idle" /\ clexec.open /\ clexec.tasks > 0
  /\ clexec' = [clexec EXCEPT !.tasks = @ - 1]
  /\ Goto(w, "execute")
  /\ UNCHANGED <<creator, clthen, clbody, clhandler, clwork, clquery>>

Executed(w) ==
  /\ clpc[w] = "execute"
  /\ clwork' = [clwork EXCEPT !.done = @ + 1]
  /\ Goto(w, "finished")
  /\ UNCHANGED <<creator, clthen, clbody, clhandler, clexec, clquery>>

\* An exception stops the creator, then reports.
ExecuteThrows(w) ==
  /\ clpc[w] = "execute" /\ clwork.faults < MaxClFaults
  /\ clwork' = [clwork EXCEPT !.faults = @ + 1]
  /\ Call(w, "stop", "failed")
  /\ UNCHANGED <<creator, clbody, clhandler, clexec, clquery>>

Failed(w) ==
  /\ clpc[w] = "failed" /\ Call(w, "report", "idle")
  /\ UNCHANGED <<creator, clbody, clhandler, clexec, clwork, clquery>>

\* Out of memory: the task is scheduled again unless the query has failed.
ExecuteOom(w) ==
  /\ clpc[w] = "execute" /\ clwork.faults < MaxClFaults
  /\ clwork' = [clwork EXCEPT !.faults = @ + 1]
  /\ IF clhandler.has_error \/ ~clexec.open
     THEN UNCHANGED clexec
     ELSE clexec' = [clexec EXCEPT !.tasks = @ + 1]
  /\ Goto(w, "idle")
  /\ UNCHANGED <<creator, clthen, clbody, clhandler, clquery>>

\* The last pipeline has finished: drain the requests, then complete; otherwise
\* schedule a consumer.  push() looks at _is_active before it enqueues.
Finished_(w) ==
  /\ clpc[w] = "finished"
  /\ IF clwork.done = ClUnits
     THEN Call(w, "drain", "mark")
     ELSE Goto(w, IF clopen THEN "push" ELSE "idle") /\ UNCHANGED clthen
  /\ UNCHANGED <<creator, clbody, clhandler, clexec, clwork, clquery>>

Enqueue_(w) ==
  /\ clpc[w] = "push"
  /\ clqueue' = Append(clqueue, clquery)
  /\ Goto(w, "idle")
  /\ UNCHANGED <<clmutex, clrunning, clopen, clpool, clmanager, clthen, clbody,
                 clhandler, clexec, clwork, clquery>>

-----------------------------------------------------------------------------
(* The query thread: start_query, the future, and the way out *)

\* sirius_context::initialize() starts the creator.
InitializeCreator ==
  /\ clpc[Engine] = "unborn" /\ Call(Engine, "start", "idle")
  /\ UNCHANGED <<creator, clbody, clhandler, clexec, clwork, clquery>>

\* At most two scans are scheduled at the start (k_initial_scans).
StartQuery_ ==
  /\ clpc[Engine] = "idle" /\ clquery < MaxClQueries
  /\ clquery' = clquery + 1
  /\ clhandler' = FreshHandler
  /\ clwork' = [claimed |-> 0, done |-> 0, faults |-> clwork.faults]
  /\ clqueue' = IF clopen THEN clqueue \o <<clquery', clquery'>> ELSE clqueue
  /\ Goto(Engine, "running")
  /\ UNCHANGED <<clmutex, clrunning, clopen, clpool, clmanager, clthen, clbody, clexec>>

\* Both ways out of the future stop the creator, quiesce the executor, drain the
\* requests and start the creator again, in this order.
FutureReady_ ==
  /\ clpc[Engine] = "running" /\ clhandler.promise # "none"
  /\ Call(Engine, "stop_thread_pool", "quiesce")
  /\ UNCHANGED <<creator, clbody, clhandler, clexec, clwork, clquery>>

\* drain_and_wait() does nothing when the executor has been stopped.
Quiesce ==
  /\ clpc[Engine] = "quiesce"
  /\ clexec' = [clexec EXCEPT !.open = FALSE]
  /\ Goto(Engine, "quiesced")
  /\ UNCHANGED <<creator, clthen, clbody, clhandler, clwork, clquery>>

\* The threads the query thread waits for before it goes on.
StillBusy_None == {}
StillBusy == {w \in ClWorkers : clpc[w] # "idle"}

Quiesced_ ==
  /\ clpc[Engine] = "quiesced" /\ (clexec.up => StillBusy = {})
  /\ clexec' = [clexec EXCEPT !.open = clexec.up, !.tasks = 0]
  /\ Call(Engine, "drain", "restart")
  /\ UNCHANGED <<creator, clbody, clhandler, clwork, clquery>>

Restart ==
  /\ clpc[Engine] = "restart" /\ Call(Engine, "start", "idle")
  /\ UNCHANGED <<creator, clbody, clhandler, clexec, clwork, clquery>>

-----------------------------------------------------------------------------
Procedures(t) ==
  DrainLock(t) \/ StopLock(t) \/ StopJoin(t) \/ StopWait(t) \/ StartPool(t) \/ Signal(t)

WorkerThread(w) ==
  TakeTask_(w) \/ Executed(w) \/ Failed(w) \/ Finished_(w) \/ Enqueue_(w)

Faults ==
  \/ \E w \in ClWorkers : ExecuteThrows(w) \/ ExecuteOom(w)
  \/ \E l \in ClSlots : LambdaThrows(l)

LambdaThread(l) == LambdaCreate(l) \/ Halt(l) \/ HaltWait(l)
EngineThread == FutureReady_ \/ Quiesce \/ Quiesced_ \/ Restart
ManagerThread == ManagerTurn \/ ManagerReserve_ \/ ManagerPop_ \/ ManagerDispatch

ClNext ==
  \/ \E t \in ClThreads : Procedures(t) \/ DrainWait(t)
  \/ \E w \in ClWorkers : WorkerThread(w)
  \/ \E l \in ClSlots : LambdaThread(l)
  \/ ManagerThread \/ EngineThread \/ InitializeCreator \/ StartQuery_ \/ Faults

\* Every thread runs on.  The wait of drain_pending_tasks() needs strong
\* fairness: with the queue interrupted and the pool not, the manager takes and
\* releases its slot over and over, and the waiter must get the mutex in one of
\* the moments without a taken slot.
ClFairness ==
  /\ \A t \in ClThreads : WF_clvars(Procedures(t)) /\ SF_clvars(DrainWait(t))
  /\ \A w \in ClWorkers : WF_clvars(WorkerThread(w))
  /\ \A l \in ClSlots : WF_clvars(LambdaThread(l))
  /\ WF_clvars(ManagerThread) /\ WF_clvars(EngineThread)

ClSpec == ClInit /\ [][ClNext]_clvars
ClFairSpec == ClSpec /\ ClFairness

-----------------------------------------------------------------------------
\* No operator is used after its plan is gone: the operators the manager walks
\* and the lambdas work on belong to the query that runs (the ordering that
\* drain_after_error() calls load-bearing).
OperatorsAlive ==
  LET Live(q) == q = clquery /\ clpc[Engine] # "idle"
  IN /\ clmanager.at = "walk" => Live(clmanager.req)
     /\ \A l \in ClSlots : clpc[l] = "create" => Live(clbody[l])

\* Between two queries nothing of the first is left in a queue or a thread, and
\* the creator is ready for the next: running, and its queue accepts requests.
CleanHandOver ==
  clpc[Engine] = "idle" =>
    /\ clqueue = <<>> /\ clexec.tasks = 0
    /\ \A t \in ClThreads : clpc[t] = "idle"
    /\ clrunning /\ clopen

\* When the query thread sees the exception of a future, every worker that asks
\* has_error() is told of it too; a future with a value never has the flag set,
\* although _completed is set before either.
FlagBeforeFuture ==
  /\ clhandler.promise = "error" => clhandler.has_error
  /\ clhandler.promise = "value" => ~clhandler.has_error

\* Every query ends, completed or failed: execute() returns to DuckDB.
QueriesReturn == clpc[Engine] = "running" ~> clpc[Engine] = "idle"

\* One query after another on the same task creator: no lambda or manager step
\* touches an operator of a plan that is gone, the creator is clean when the next
\* query starts, and the completion flags are set before the future is.
HandOverSound ==
    /\ OperatorsAlive
    /\ CleanHandOver
    /\ FlagBeforeFuture

=============================================================================
