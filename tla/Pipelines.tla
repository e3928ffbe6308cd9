----------------------------- MODULE Pipelines -----------------------------
(***************************************************************************)
(* One query of the Super Sirius engine, seen from its pipelines.          *)
(*                                                                         *)
(* A query is a DAG of pipelines.  A pipeline counts the tasks created and *)
(* completed for it and is finished when its input can never grow again    *)
(* and the two counters agree (sirius_pipeline::update_pipeline_status).   *)
(* Tasks are created by the lambdas of the task_creator's pool, run by the *)
(* worker threads of the GPU and scan executors, and drive the creation of *)
(* the next tasks from their destructors and from the executors' tails.    *)
(* The last pipeline, whose sink is the RESULT_COLLECTOR, completes the    *)
(* query; the engine thread then validates that nothing is left and tears  *)
(* the plan down.                                                          *)
(*                                                                         *)
(* Batches, splits and partitions are counted, not named: no decision of   *)
(* this code looks at one.  The way a task travels from schedule() to a    *)
(* worker is module PullDispatch; DUCKDB_SCAN is module DuckdbScan.        *)
(***************************************************************************)
EXTENDS Naturals, Sequences, FiniteSets

CONSTANTS
  Pipe,          \* the pipelines of the query
  None,          \* not a pipeline, not a thread
  Result,        \* the pipeline whose sink is the RESULT_COLLECTOR
  Kind,          \* [Pipe -> SourceKind]: what the pipeline's first operator reads
  Parents,       \* [Pipe -> Seq(Pipe)]: get_parents(), the pipelines downstream
  Full,          \* edges whose port is a FULL barrier
  NoRepo,        \* edges whose port is dependency-only (repo == nullptr)
  Inputs,        \* [Pipe -> Nat]: splits or partitions of a scan pipeline
  InitialScans,  \* the scans start_query() requests (at most k_initial_scans)
  SingleScan,    \* _num_scans_in_plan < 2
  LimitPipe,     \* pipelines with a STREAMING_LIMIT operator
  Outputs,       \* numbers of batches one task may publish
  Worker,        \* threads of the executors' bounded pools
  Creator,       \* threads of the task creator's bounded pool
  MaxCreated,    \* bound: no OOM reschedule once a pipeline created this many tasks
  FirstLoad      \* which operand of tasks_created.load() == tasks_completed.load()
                 \* the build may evaluate first: C++ leaves the order open

SourceKind == {"ports", "split", "iceberg", "cpu"}

Edge == {e \in Pipe \X Pipe :
           \E i \in DOMAIN Parents[e[1]] : Parents[e[1]][i] = e[2]}

Up(p) == {u \in Pipe : <<u, p>> \in Edge}

ASSUME PipeAssumption ==
  /\ Result \in Pipe
  /\ None \notin Pipe \cup Worker \cup Creator
  /\ Worker \cap Creator = {}
  /\ IsFiniteSet(Worker) /\ IsFiniteSet(Creator)

ASSUME PlanAssumption ==
  /\ Kind \in [Pipe -> SourceKind]
  /\ Parents \in [Pipe -> Seq(Pipe)]
  /\ Inputs \in [Pipe -> Nat]
  /\ LimitPipe \subseteq Pipe
  /\ Outputs \subseteq Nat
  /\ SingleScan \in BOOLEAN
  /\ MaxCreated \in Nat
  /\ FirstLoad \subseteq {"created", "completed"}
  /\ \A p \in Pipe : p \notin Up(p)
  /\ \A p \in Pipe : Kind[p] # "ports" => Up(p) = {}

(* Every pipeline feeds the result pipeline, directly or through others:    *)
(* the plan is the tree of operators under the RESULT_COLLECTOR.            *)
ASSUME FeedAssumption ==
  \A S \in SUBSET Pipe :
    (Result \in S /\ \A e \in Edge : e[2] \in S => e[1] \in S) => S = Pipe

VARIABLES
  finished,   \* pipeline_finished
  created,    \* tasks_created
  completed,  \* tasks_completed
  limited,    \* is_limit_exhausted() of some operator of the pipeline
  repo,       \* [Edge -> Nat]: batches in the port's shared_data_repository
  unpushed,   \* [Pipe -> Nat]: splits the scan manager has yet to push
  ready,      \* [Pipe -> Nat]: splits, partitions or CPU sources to claim
  closed,     \* [Pipe -> BOOLEAN]: the scan's source is drained
  lock,       \* [Pipe -> Creator \cup Worker \cup {None}]: who holds _status_mutex
  look,       \* [Worker -> where the thread is inside update_pipeline_status]
  requests,   \* [Pipe -> Nat]: task_creation_requests waiting, by node
  popped,     \* the request manager_loop has popped and not yet answered, or None
  qopen,      \* the creation queue accepts and delivers requests
  pool,       \* the task creator's pool and manager thread exist
  gmutex,     \* _global_state_mutex: the worker draining, or None
  lam,        \* [Creator -> task-creation lambda]
  queued,     \* [Pipe -> Nat]: tasks scheduled and not yet on a worker
  worker,     \* [Worker -> what the executor thread is doing]
  done,       \* completion_handler::_completed
  engine      \* where sirius_engine::execute() is

source  == <<unpushed, ready, closed>>
status  == <<lock, look>>
plan    == <<finished, created, completed, limited, repo, source, status>>
control == <<requests, popped, qopen, pool, gmutex, lam>>
vars    == <<plan, control, queued, worker, done, engine>>

-----------------------------------------------------------------------------
(* Calls a worker still has to make, in order, and its states.             *)

Push(p, cond)   == [op |-> "push",   pipe |-> p, flag |-> cond]
Update(p, orig) == [op |-> "update", pipe |-> p, flag |-> orig]

Call == [op : {"push", "update"}, pipe : Pipe, flag : BOOLEAN]

IdleWorker  == [pc |-> "idle", pipe |-> None, todo |-> <<>>]
IdleCreator == [pc |-> "idle", pipe |-> None]
Away        == [at |-> "away", first |-> "created", seen |-> 0]

WorkerPc  == {"idle", "run", "oom", "ran", "drop", "tail", "exit", "drain", "wait", "mark"}
CreatorPc == {"idle", "loop", "claim", "parked", "schedule"}
LookAt    == {"away", "producers", "ports", "counters", "compare"}

(* A worker in one of these states owns a task that is not yet destroyed.  *)
Holding == {"run", "oom", "ran", "drop"}

Init ==
  /\ finished  = [p \in Pipe |-> FALSE]
  /\ created   = [p \in Pipe |-> 0]
  /\ completed = [p \in Pipe |-> 0]
  /\ limited   = [p \in Pipe |-> FALSE]
  /\ repo      = [e \in Edge |-> 0]
  /\ unpushed  = [p \in Pipe |-> IF Kind[p] = "split" THEN Inputs[p] ELSE 0]
  /\ ready     = [p \in Pipe |-> CASE Kind[p] = "iceberg" -> Inputs[p]
                                   [] Kind[p] = "cpu"     -> 1
                                   [] OTHER               -> 0]
  /\ closed    = [p \in Pipe |-> FALSE]
  /\ lock      = [p \in Pipe |-> None]
  /\ look      = [w \in Worker |-> Away]
  /\ requests  = [p \in Pipe |-> IF p \in InitialScans THEN 1 ELSE 0]
  /\ popped    = None
  /\ qopen     = TRUE
  /\ pool      = TRUE
  /\ gmutex    = None
  /\ lam       = [c \in Creator |-> IdleCreator]
  /\ queued    = [p \in Pipe |-> 0]
  /\ worker    = [w \in Worker |-> IdleWorker]
  /\ done      = FALSE
  /\ engine    = "running"

-----------------------------------------------------------------------------
(* What operators and pipelines answer.                                    *)

Data(p) == {e \in Edge : e[2] = p /\ e \notin NoRepo}

(* sirius_physical_operator::all_ports_empty and its split-scan override.   *)
AllPortsEmpty(p) ==
  IF Kind[p] = "split" THEN closed[p] /\ ready[p] = 0
                       ELSE \A e \in Data(p) : repo[e] = 0

(* Producers behind a port of the given barrier type that can still push.   *)
Unfinished(p, barrier) == {u \in Up(p) : <<u, p>> \in barrier /\ ~finished[u]}

(* get_next_task_hint: READY ...                                            *)
Offers(p) ==
  CASE Kind[p] \in {"iceberg", "cpu"} -> ready[p] > 0
    [] Kind[p] = "split" -> ~AllPortsEmpty(p)
    [] OTHER -> /\ Up(p) # {}
                /\ Unfinished(p, Full) = {}
                /\ \A e \in Data(p) : repo[e] > 0

(* ... or WAITING_FOR_INPUT_DATA, with the producers it may name.  The code *)
(* names the first in the order of the ports; here any of them.             *)
WaitingFor(p) ==
  IF Kind[p] # "ports" \/ Offers(p) THEN {}
  ELSE IF Unfinished(p, Full) # {} THEN Unfinished(p, Full)
  ELSE Unfinished(p, Edge \ Full)

(* task_creator::get_operator_for_next_task follows the hints upstream.     *)
WalkEnds[p \in Pipe] ==
  IF WaitingFor(p) = {} THEN {p} ELSE UNION {WalkEnds[u] : u \in WaitingFor(p)}

-----------------------------------------------------------------------------
(* The scan manager feeds a split connector and closes it.                 *)

PushSplit(p) ==
  /\ Kind[p] = "split"
  /\ unpushed[p] > 0
  /\ unpushed' = [unpushed EXCEPT ![p] = @ - 1]
  /\ ready' = [ready EXCEPT ![p] = @ + 1]
  /\ UNCHANGED <<closed, finished, created, completed, limited, repo, status,
                 control, queued, worker, done, engine>>

CloseConnector(p) ==
  /\ Kind[p] = "split"
  /\ unpushed[p] = 0
  /\ ~closed[p]
  /\ closed' = [closed EXCEPT ![p] = TRUE]
  /\ UNCHANGED <<unpushed, ready, finished, created, completed, limited, repo, status,
                 control, queued, worker, done, engine>>

-----------------------------------------------------------------------------
(* The task creator: its manager thread and its lambdas.                   *)

(* manager_loop pops a request once it has reserved a slot ...              *)
PopRequest(p) ==
  /\ pool /\ qopen
  /\ requests[p] > 0
  /\ popped = None
  /\ \E c \in Creator : lam[c] = IdleCreator
  /\ requests' = [requests EXCEPT ![p] = @ - 1]
  /\ popped' = p
  /\ UNCHANGED <<plan, qopen, pool, gmutex, lam, queued, worker, done, engine>>

(* ... drops it when it leads to an operator without work ...               *)
DropRequest ==
  /\ popped # None
  /\ \E q \in WalkEnds[popped] : ~Offers(q)
  /\ popped' = None
  /\ UNCHANGED <<plan, requests, qopen, pool, gmutex, lam, queued, worker, done, engine>>

(* ... and otherwise dispatches a lambda for the node found.  The hint of a *)
(* CPU source closes its task_scheduled gate.                               *)
DispatchLambda(c, q) ==
  /\ popped # None
  /\ lam[c] = IdleCreator
  /\ q \in WalkEnds[popped] /\ Offers(q)
  /\ popped' = None
  /\ lam' = [lam EXCEPT ![c] =
       [pc |-> IF Kind[q] \in {"iceberg", "cpu"} THEN "claim" ELSE "loop", pipe |-> q]]
  /\ ready' = IF Kind[q] = "cpu" THEN [ready EXCEPT ![q] = 0] ELSE ready
  /\ UNCHANGED <<unpushed, closed, finished, created, completed, limited, repo, status,
                 requests, qopen, pool, gmutex, queued, worker, done, engine>>

(* while (!node->all_ports_empty()), read without the pipeline's lock.      *)
LambdaLoop(c) ==
  /\ lam[c].pc = "loop"
  /\ lam' = [lam EXCEPT ![c] = IF AllPortsEmpty(lam[c].pipe)
                                 THEN IdleCreator
                                 ELSE [@ EXCEPT !.pc = "claim"]]
  /\ UNCHANGED <<plan, requests, popped, qopen, pool, gmutex, queued, worker, done, engine>>

(* The lock is held from the claim of the input to mark_task_created().     *)
LockOf(c, p) == IF lam[c].pc = "parked" THEN lock[p] = c ELSE lock[p] = None

(* get_next_task_input_data takes one batch of each port that has one;      *)
(* get_next_split and claim_next_rg_partition take one input of the scan.   *)
TakeInput(p) ==
  CASE Kind[p] = "ports" ->
         /\ repo' = [e \in Edge |-> IF e \in Data(p) /\ repo[e] > 0
                                      THEN repo[e] - 1 ELSE repo[e]]
         /\ UNCHANGED <<ready, closed>>
    [] Kind[p] = "split" ->
         /\ ready' = [ready EXCEPT ![p] = @ - 1]
         /\ UNCHANGED <<closed, repo>>
    [] Kind[p] = "iceberg" ->
         /\ ready' = [ready EXCEPT ![p] = @ - 1]
         /\ closed' = [closed EXCEPT ![p] = (ready[p] = 1)]
         /\ UNCHANGED repo
    [] OTHER -> UNCHANGED <<ready, closed, repo>>

HasInput(p) ==
  CASE Kind[p] = "ports" -> \E e \in Data(p) : repo[e] > 0
    [] Kind[p] = "cpu"   -> TRUE
    [] OTHER             -> ready[p] > 0

LambdaClaim(c) ==
  LET p == lam[c].pipe IN
  /\ lam[c].pc \in {"claim", "parked"}
  /\ LockOf(c, p)
  /\ HasInput(p)
  /\ TakeInput(p)
  /\ created' = [created EXCEPT ![p] = @ + 1]
  /\ lam' = [lam EXCEPT ![c].pc = "schedule"]
  /\ lock' = [lock EXCEPT ![p] = None]
  /\ UNCHANGED <<unpushed, finished, completed, limited, look,
                 requests, popped, qopen, pool, gmutex, queued, worker, done, engine>>

(* Nothing to create a task for: the lambda ends and its lock is released.  *)
LambdaEmpty(c) ==
  LET p == lam[c].pipe IN
  /\ lam[c].pc \in {"claim", "parked"}
  /\ LockOf(c, p)
  /\ ~HasInput(p)
  /\ Kind[p] = "split" => closed[p]
  /\ lam' = [lam EXCEPT ![c] = IdleCreator]
  /\ lock' = [lock EXCEPT ![p] = None]
  /\ UNCHANGED <<finished, created, completed, limited, repo, source, look,
                 requests, popped, qopen, pool, gmutex, queued, worker, done, engine>>

(* get_next_split waits for a split or for close(), with the lock held.     *)
LambdaPark(c) ==
  LET p == lam[c].pipe IN
  /\ lam[c].pc = "claim"
  /\ Kind[p] = "split"
  /\ lock[p] = None
  /\ ~HasInput(p)
  /\ ~closed[p]
  /\ lam' = [lam EXCEPT ![c].pc = "parked"]
  /\ lock' = [lock EXCEPT ![p] = c]
  /\ UNCHANGED <<finished, created, completed, limited, repo, source, look,
                 requests, popped, qopen, pool, gmutex, queued, worker, done, engine>>

(* task_scheduler::schedule, then the next turn of the creation loop.       *)
LambdaSchedule(c) ==
  LET p == lam[c].pipe IN
  /\ lam[c].pc = "schedule"
  /\ queued' = [queued EXCEPT ![p] = @ + 1]
  /\ lam' = [lam EXCEPT ![c] =
       IF Kind[p] = "cpu" \/ (Kind[p] = "iceberg" /\ ~SingleScan)
         THEN IdleCreator
         ELSE [@ EXCEPT !.pc = IF Kind[p] = "iceberg" THEN "claim" ELSE "loop"]]
  /\ UNCHANGED <<plan, requests, popped, qopen, pool, gmutex, worker, done, engine>>

-----------------------------------------------------------------------------
(* The executors' worker threads.                                          *)

IsScan(p) == Kind[p] \in {"iceberg", "cpu"}

(* A task reaches a worker whatever the query thread does: the executors    *)
(* are quiesced one after the other, and restarted at once.                 *)
TakeTask(w, p) ==
  /\ worker[w] = IdleWorker
  /\ queued[p] > 0
  /\ queued' = [queued EXCEPT ![p] = @ - 1]
  /\ worker' = [worker EXCEPT ![w] = [pc |-> "run", pipe |-> p, todo |-> <<>>]]
  /\ UNCHANGED <<plan, control, done, engine>>

(* execute(): the operators run and the sink pushes every output batch to   *)
(* every port behind it.  A STREAMING_LIMIT may run out here, and a CPU     *)
(* source is exhausted when its one task has read it.                       *)
Execute(w, n) ==
  LET p == worker[w].pipe IN
  /\ worker[w].pc = "run"
  /\ repo' = [e \in Edge |-> IF e[1] = p /\ e \notin NoRepo THEN repo[e] + n ELSE repo[e]]
  /\ limited' \in {limited} \cup
       IF p \in LimitPipe THEN {[limited EXCEPT ![p] = TRUE]} ELSE {}
  /\ closed' = IF Kind[p] = "cpu" THEN [closed EXCEPT ![p] = TRUE] ELSE closed
  /\ worker' = [worker EXCEPT ![w].pc = "ran"]
  /\ UNCHANGED <<finished, created, completed, unpushed, ready, status,
                 control, queued, done, engine>>

(* oom_reschedule_exception: a new task takes over the input.  It is        *)
(* created without the pipeline's lock, while the old task still exists ... *)
OomCreate(w) ==
  LET p == worker[w].pipe IN
  /\ worker[w].pc = "run"
  /\ ~IsScan(p)
  /\ created[p] < MaxCreated
  /\ created' = [created EXCEPT ![p] = @ + 1]
  /\ worker' = [worker EXCEPT ![w].pc = "oom"]
  /\ UNCHANGED <<finished, completed, limited, repo, source, status,
                 control, queued, done, engine>>

(* ... and after the backoff it goes to the executor's own queue, or is     *)
(* destroyed when wait_and_validate_empty has interrupted that queue: then  *)
(* its destructor runs here, before the old task's.                         *)
OomSchedule(w) ==
  LET p == worker[w].pipe IN
  /\ worker[w].pc = "oom"
  /\ worker[w].todo = <<>>
  /\ \/ /\ queued' = [queued EXCEPT ![p] = @ + 1]
        /\ worker' = [worker EXCEPT ![w].pc = "drop"]
        /\ UNCHANGED completed
     \/ /\ engine = "idling"
        /\ completed' = [completed EXCEPT ![p] = @ + 1]
        /\ worker' = [worker EXCEPT ![w] =
             [pc |-> "drop", pipe |-> p, todo |-> <<Update(p, TRUE)>>]]
        /\ UNCHANGED queued
  /\ UNCHANGED <<finished, created, limited, repo, source, status, control, done, engine>>

(* The task's destructor: mark_task_completed, whose update of the status   *)
(* is the next call.  A rescheduled task's worker returns afterwards.       *)
DestroyTask(w) ==
  LET p == worker[w].pipe IN
  /\ worker[w].pc \in {"ran", "drop"}
  /\ worker[w].todo = <<>>
  /\ completed' = [completed EXCEPT ![p] = @ + 1]
  /\ worker' = [worker EXCEPT ![w] =
       [pc   |-> IF worker[w].pc = "ran" THEN "tail" ELSE "exit",
        pipe |-> p,
        todo |-> <<Update(p, TRUE)>>]]
  /\ UNCHANGED <<finished, created, limited, repo, source, status,
                 control, queued, done, engine>>

(* Mutant: only the statuses are updated.                                   *)
NotifyStatusOnly(q, orig) ==
  IF q = Result THEN <<>> ELSE [i \in DOMAIN Parents[q] |-> Update(Parents[q][i], FALSE)]

(* notify_downstream_pipelines: consumers of a pipeline finished on behalf  *)
(* of another are requested, then every parent's status is updated.         *)
Notify(q, orig) ==
  IF q = Result THEN <<>>
  ELSE (IF orig THEN <<>> ELSE [i \in DOMAIN Parents[q] |-> Push(Parents[q][i], TRUE)])
       \o [i \in DOMAIN Parents[q] |-> Update(Parents[q][i], FALSE)]

(* update_pipeline_status takes the pipeline's lock.  A finished pipeline   *)
(* notifies again; the flag of a scan or an exhausted limit leads to the    *)
(* task counters, everything else is asked its producers first.             *)
StatusEnter(w) ==
  LET call == Head(worker[w].todo)
      q    == call.pipe
  IN
  /\ worker[w].todo # <<>>
  /\ call.op = "update"
  /\ look[w] = Away
  /\ lock[q] = None
  /\ \/ /\ finished[q]
        /\ worker' = [worker EXCEPT ![w].todo = Notify(q, call.flag) \o Tail(@)]
        /\ UNCHANGED status
     \/ /\ ~finished[q]
        /\ IsScan(q) /\ ~closed[q]
        /\ worker' = [worker EXCEPT ![w].todo = Tail(@)]
        /\ UNCHANGED status
     \/ /\ ~finished[q]
        /\ IsScan(q) => closed[q]
        /\ lock' = [lock EXCEPT ![q] = w]
        /\ look' = [look EXCEPT ![w].at =
             IF IsScan(q) \/ limited[q] THEN "counters" ELSE "producers"]
        /\ UNCHANGED worker
  /\ UNCHANGED <<finished, created, completed, limited, repo, source,
                 control, queued, done, engine>>

(* Mutants: the ports are looked at before the producers' flags, the        *)
(* producers are not asked.                                                 *)
DrainedReversed(at, q) ==
  IF at = "ports" THEN \A u \in Up(q) : finished[u] ELSE AllPortsEmpty(q)

DrainedEarly(at, q) == at = "ports" => AllPortsEmpty(q)

(* is_source_pipeline_finished(), then all_ports_empty().                   *)
Drained(at, q) ==
  IF at = "producers" THEN \A u \in Up(q) : finished[u] ELSE AllPortsEmpty(q)

(* The lock is released and the thread goes on with its next calls.         *)
StatusLeave(w, q, calls) ==
  /\ lock' = [lock EXCEPT ![q] = None]
  /\ look' = [look EXCEPT ![w] = Away]
  /\ worker' = [worker EXCEPT ![w].todo = calls \o Tail(@)]

StatusSource(w) ==
  LET q == Head(worker[w].todo).pipe IN
  /\ look[w].at \in {"producers", "ports"}
  /\ IF Drained(look[w].at, q)
       THEN /\ look' = [look EXCEPT ![w].at = IF @ = "producers" THEN "ports" ELSE "counters"]
            /\ UNCHANGED <<lock, worker>>
       ELSE StatusLeave(w, q, <<>>)
  /\ UNCHANGED <<finished, created, completed, limited, repo, source,
                 control, queued, done, engine>>

Counter(name, q) == IF name = "created" THEN created[q] ELSE completed[q]

(* tasks_created.load() == tasks_completed.load(): one operand ...          *)
StatusLoad(w) ==
  LET q == Head(worker[w].todo).pipe IN
  /\ look[w].at = "counters"
  /\ \E f \in FirstLoad :
       look' = [look EXCEPT ![w] = [at |-> "compare", first |-> f, seen |-> Counter(f, q)]]
  /\ UNCHANGED <<finished, created, completed, limited, repo, source, lock,
                 control, queued, worker, done, engine>>

(* Mutant: one task more may be under way.                                  *)
SecondLoadLax(w, q) ==
  Counter(IF look[w].first = "created" THEN "completed" ELSE "created", q)
    \in {look[w].seen, look[w].seen + 1}

(* ... and then the other, in whatever state it finds.                      *)
SecondLoad(w, q) ==
  Counter(IF look[w].first = "created" THEN "completed" ELSE "created", q) = look[w].seen

(* When they agree the pipeline is finished; downstream is notified after   *)
(* the lock is released.                                                    *)
StatusCompare(w) ==
  LET call == Head(worker[w].todo)
      q    == call.pipe
  IN
  /\ look[w].at = "compare"
  /\ finished' = [finished EXCEPT ![q] = SecondLoad(w, q)]
  /\ StatusLeave(w, q, IF SecondLoad(w, q) THEN Notify(q, call.flag) ELSE <<>>)
  /\ UNCHANGED <<created, completed, limited, repo, source, control, queued, done, engine>>

UpdateStatus(w) ==
  StatusEnter(w) \/ StatusSource(w) \/ StatusLoad(w) \/ StatusCompare(w)

(* task_creator::schedule: dropped when the queue is interrupted.  A        *)
(* notifying pipeline skips consumers that are already finalized.           *)
PushRequest(w) ==
  LET call == Head(worker[w].todo) IN
  /\ worker[w].todo # <<>>
  /\ call.op = "push"
  /\ requests' = IF qopen /\ ~(call.flag /\ finished[call.pipe])
                   THEN [requests EXCEPT ![call.pipe] = @ + 1] ELSE requests
  /\ worker' = [worker EXCEPT ![w].todo = Tail(@)]
  /\ UNCHANGED <<plan, popped, qopen, pool, gmutex, lam, queued, done, engine>>

(* A scan worker requests nobody once the query is completed.               *)
ScanTailSilent(p) == IsScan(p) /\ done

(* After task.reset(): a GPU worker whose result pipeline is finished       *)
(* completes the query; every other worker requests the consumers.          *)
WorkerTail(w) ==
  LET p == worker[w].pipe
      complete == p = Result /\ finished[p] /\ ~IsScan(p)
  IN
  /\ worker[w].pc = "tail"
  /\ worker[w].todo = <<>>
  /\ worker' = [worker EXCEPT ![w] =
       [pc   |-> IF complete THEN "drain" ELSE "exit",
        pipe |-> p,
        todo |-> IF complete \/ ScanTailSilent(p) THEN <<>>
                 ELSE [i \in DOMAIN Parents[p] |-> Push(Parents[p][i], FALSE)]]]
  /\ UNCHANGED <<plan, control, queued, done, engine>>

WorkerExit(w) ==
  /\ worker[w].pc = "exit"
  /\ worker[w].todo = <<>>
  /\ worker' = [worker EXCEPT ![w] = IdleWorker]
  /\ UNCHANGED <<plan, control, queued, done, engine>>

-----------------------------------------------------------------------------
(* Completion: task_creator::drain_pending_tasks, then mark_completed.      *)

(* No slot of the creator's pool is taken (active_ == 0): no lambda runs and *)
(* no request is between pop() and dispatch().                              *)
NoLambda == popped = None /\ \A c \in Creator : lam[c] = IdleCreator

NoRequests == [p \in Pipe |-> 0]

DrainStart(w) ==
  /\ worker[w].pc = "drain"
  /\ gmutex = None
  /\ gmutex' = w
  /\ qopen' = FALSE
  /\ requests' = NoRequests
  /\ worker' = [worker EXCEPT ![w].pc = "wait"]
  /\ UNCHANGED <<plan, popped, pool, lam, queued, done, engine>>

(* _bounded_pool->wait_all() if the pool exists, then reactivate().         *)
DrainWait(w) ==
  /\ worker[w].pc = "wait"
  /\ pool => NoLambda
  /\ qopen' = TRUE
  /\ gmutex' = None
  /\ worker' = [worker EXCEPT ![w].pc = "mark"]
  /\ UNCHANGED <<plan, requests, popped, pool, lam, queued, done, engine>>

MarkCompleted(w) ==
  /\ worker[w].pc = "mark"
  /\ worker[w].todo = <<>>
  /\ done' = TRUE
  /\ worker' = [worker EXCEPT ![w] = IdleWorker]
  /\ UNCHANGED <<plan, control, queued, engine>>

-----------------------------------------------------------------------------
(* sirius_engine::execute after future.get(): wait_for_completion.          *)

EnginePc == {"running", "stopping", "validating", "idling", "draining",
             "returned", "failed"}

(* stop_thread_pool: the manager leaves, no lambda is left.                 *)
EngineStop ==
  /\ engine = "running"
  /\ done
  /\ gmutex = None
  /\ gmutex' = "engine"
  /\ qopen' = FALSE
  /\ engine' = "stopping"
  /\ UNCHANGED <<plan, requests, popped, pool, lam, queued, worker, done>>

EngineJoin ==
  /\ engine = "stopping"
  /\ NoLambda
  /\ pool' = FALSE
  /\ gmutex' = None
  /\ engine' = "validating"
  /\ UNCHANGED <<plan, requests, popped, qopen, lam, queued, worker, done>>

(* The scheduler's own queue is checked first; tasks may also sit in the    *)
(* executors' queues, which are checked once their workers are idle.        *)
EngineValidate ==
  /\ engine = "validating"
  /\ engine' \in {"idling"} \cup
       IF \E p \in Pipe : queued[p] > 0 THEN {"failed"} ELSE {}
  /\ UNCHANGED <<plan, control, queued, worker, done>>

(* Mutant: the workers are not waited for.                                  *)
EngineImpatient ==
  /\ engine = "idling"
  /\ engine' = IF \E p \in Pipe : queued[p] > 0 THEN "failed" ELSE "draining"
  /\ UNCHANGED <<plan, control, queued, worker, done>>

EngineIdle ==
  /\ engine = "idling"
  /\ \A w \in Worker : worker[w] = IdleWorker
  /\ engine' = IF \E p \in Pipe : queued[p] > 0 THEN "failed" ELSE "draining"
  /\ UNCHANGED <<plan, control, queued, worker, done>>

(* drain_pending_tasks without a pool, then start_thread_pool; execute()    *)
(* returns and the plan may be destroyed.                                   *)
EngineReturn ==
  /\ engine = "draining"
  /\ gmutex = None
  /\ requests' = NoRequests
  /\ qopen' = TRUE
  /\ pool' = TRUE
  /\ engine' = "returned"
  /\ UNCHANGED <<plan, popped, gmutex, lam, queued, worker, done>>

Terminated ==
  /\ engine \in {"returned", "failed"}
  /\ UNCHANGED vars

-----------------------------------------------------------------------------

CreatorStep(c) ==
  \/ LambdaLoop(c) \/ LambdaClaim(c) \/ LambdaEmpty(c) \/ LambdaPark(c)
  \/ LambdaSchedule(c)

ManagerStep ==
  \/ \E p \in Pipe : PopRequest(p)
  \/ DropRequest
  \/ \E c \in Creator, q \in Pipe : DispatchLambda(c, q)

WorkerRun(w) ==
  \/ \E n \in Outputs : Execute(w, n)
  \/ OomCreate(w) \/ OomSchedule(w) \/ DestroyTask(w)
  \/ UpdateStatus(w) \/ PushRequest(w)
  \/ WorkerTail(w) \/ WorkerExit(w)
  \/ DrainStart(w) \/ DrainWait(w) \/ MarkCompleted(w)

ScanManagerStep == \E p \in Pipe : PushSplit(p) \/ CloseConnector(p)

EngineStep ==
  EngineStop \/ EngineJoin \/ EngineValidate \/ EngineIdle \/ EngineReturn

Next ==
  \/ ScanManagerStep
  \/ ManagerStep
  \/ \E c \in Creator : CreatorStep(c)
  \/ \E w \in Worker, p \in Pipe : TakeTask(w, p)
  \/ \E w \in Worker : WorkerRun(w)
  \/ EngineStep
  \/ Terminated

Spec == Init /\ [][Next]_vars

(* Every thread keeps running: the operating system schedules them all, a   *)
(* task that waits is taken (module PullDispatch), and a task runs out of   *)
(* memory only finitely often (MaxCreated).                                 *)
Fairness ==
  /\ WF_vars(ScanManagerStep)
  /\ WF_vars(ManagerStep)
  /\ \A c \in Creator : WF_vars(CreatorStep(c))
  /\ \A w \in Worker : WF_vars(WorkerRun(w))
  /\ WF_vars(\E w \in Worker, p \in Pipe : TakeTask(w, p))
  /\ WF_vars(EngineStep)

FairSpec == Spec /\ Fairness

-----------------------------------------------------------------------------
(* Properties.                                                             *)

TypeOK ==
  /\ finished \in [Pipe -> BOOLEAN]
  /\ created \in [Pipe -> Nat]
  /\ completed \in [Pipe -> Nat]
  /\ limited \in [Pipe -> BOOLEAN]
  /\ repo \in [Edge -> Nat]
  /\ unpushed \in [Pipe -> Nat]
  /\ ready \in [Pipe -> Nat]
  /\ closed \in [Pipe -> BOOLEAN]
  /\ lock \in [Pipe -> Creator \cup Worker \cup {None}]
  /\ look \in [Worker -> [at : LookAt, first : {"created", "completed"}, seen : Nat]]
  /\ requests \in [Pipe -> Nat]
  /\ popped \in Pipe \cup {None}
  /\ qopen \in BOOLEAN
  /\ pool \in BOOLEAN
  /\ gmutex \in Worker \cup {None, "engine"}
  /\ lam \in [Creator -> [pc : CreatorPc, pipe : Pipe \cup {None}]]
  /\ queued \in [Pipe -> Nat]
  /\ worker \in [Worker -> [pc : WorkerPc, pipe : Pipe \cup {None}, todo : Seq(Call)]]
  /\ done \in BOOLEAN
  /\ engine \in EnginePc

(* The threads that own a task of p which is not in a queue: workers that   *)
(* have not destroyed it, workers about to reschedule a second one, and     *)
(* lambdas between mark_task_created and schedule.                          *)
Owners(p)       == {w \in Worker : worker[w].pc \in Holding /\ worker[w].pipe = p}
Reschedulers(p) == {w \in Worker : worker[w].pc = "oom" /\ worker[w].pipe = p}
Makers(p)       == {c \in Creator : lam[c].pc = "schedule" /\ lam[c].pipe = p}

(* The pipeline can never get another input: what update_pipeline_status    *)
(* looks for, step by step, before it compares the task counters.           *)
SourceDrained(p) ==
  IF IsScan(p) THEN closed[p]
  ELSE limited[p] \/ ((\A u \in Up(p) : finished[u]) /\ AllPortsEmpty(p))

(* A pipeline marked finished has no task left anywhere: none queued, none  *)
(* on a worker, none being made (the warning in mark_task_completed, and    *)
(* the comment on get_task_creation_lock).                                  *)
NoTaskAfterFinish ==
  \A p \in Pipe : finished[p] =>
    /\ queued[p] = 0
    /\ Owners(p) = {}
    /\ Makers(p) = {}

(* A finished pipeline has consumed everything it will ever be given: its   *)
(* producers are finished, its ports and its scan source are empty.         *)
NoInputLeftBehind ==
  \A p \in Pipe : finished[p] =>
    /\ \A u \in Up(p) : finished[u]
    /\ \A e \in Data(p) : repo[e] = 0
    /\ unpushed[p] = 0
    /\ Kind[p] # "cpu" => ready[p] = 0

(* "Once the query has signaled completion, NOTHING should still be         *)
(* queued": the validation in wait_for_completion never fails a query       *)
(* (task_scheduler.cpp:279).                                                *)
NothingQueuedAtCompletion == engine # "failed"

(* When execute() returns and the plan is destroyed, no request, task,      *)
(* lambda or worker still holds a pointer into it.                          *)
PlanOutlivesItsUsers ==
  engine = "returned" =>
    /\ requests = NoRequests
    /\ NoLambda
    /\ \A p \in Pipe : queued[p] = 0
    /\ \A w \in Worker : worker[w] = IdleWorker

(* Every query ends: the result pipeline completes it and execute()         *)
(* returns.                                                                 *)
QueryCompletes == <>(engine = "returned")

(* "When the final RESULT_COLLECTOR pipeline finishes, mark_completed()     *)
(* signals the future" (docs/super-sirius/architecture-overview.md:128).    *)
FinishedResultCompletes == finished[Result] ~> done

(* A pipeline whose source has no more input and whose tasks are all        *)
(* completed is noticed as finished: "Normal completion is fine - the       *)
(* split_provider closes the connector when it has no more splits"          *)
(* (sirius_gpu_parquet_scan_operator.cpp:120).                              *)
DrainedPipelineFinishes ==
  \A p \in Pipe :
    (created[p] > 0 /\ SourceDrained(p) /\ created[p] = completed[p]) ~> finished[p]

(* "Schedule output consumers via the task_creator so downstream pipelines  *)
(* whose FULL-barrier ports are now unblocked will get tasks created"       *)
(* (sirius_pipeline.cpp:338).                                               *)
UnblockedConsumerGetsTasks ==
  \A e \in Edge \cap Full : (finished[e[1]] /\ repo[e] > 0) ~> (created[e[2]] > 0)
=============================================================================
