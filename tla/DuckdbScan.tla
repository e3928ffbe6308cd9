----------------------------- MODULE DuckdbScan -----------------------------
(***************************************************************************)
(* A pipeline whose source is a DUCKDB_SCAN: a DuckDB table function read  *)
(* by several scan tasks at once.                                          *)
(*                                                                         *)
(* Every scan task continues one local table-function state.  The table is *)
(* drained when the last of the active local states has seen an empty      *)
(* chunk.  A task whose state is not drained creates its own continuation; *)
(* further states are started by the task creator, on the request of       *)
(* start_query() and of consumers that wait for input.  The pipeline is    *)
(* finished when the table is drained and every created task has completed.*)
(*                                                                         *)
(* The table is a sequence of ranges, numbered from 1; a local state holds *)
(* the range it has claimed and not yet returned.                          *)
(***************************************************************************)
EXTENDS Naturals, FiniteSets

CONSTANTS
  Ranges,       \* number of ranges of the table
  Batch,        \* bound: ranges that may fit into one batch
  MaxThreads,   \* duckdb_scan_task_global_state::_max_threads
  Id,           \* local table-function states, each used at most once
  Worker,       \* threads of the scan executor's pool
  None          \* no local state

ASSUME ScanAssumption ==
  /\ Ranges \in Nat /\ MaxThreads \in Nat /\ Batch \in Nat \ {0}
  /\ IsFiniteSet(Id) /\ IsFiniteSet(Worker) /\ None \notin Id

VARIABLES
  unclaimed,      \* ranges no local state has claimed (in the global_tf_state)
  held,           \* [Id -> set of ranges]: claimed by a local state, not returned
  local,          \* [Id -> where the local state is]
  active,         \* _active_local_states
  exhausted,      \* _source_drained, and the operator's `exhausted`
  total,          \* _total_task_count
  created,        \* tasks_created of the pipeline
  completed,      \* tasks_completed
  finished,       \* pipeline_finished
  requests,       \* requests for the scan in the task creator's queue
  queue,          \* local states of the tasks in the scan executor's queue
  task,           \* [Worker -> Id or None]: local state of the running task
  pc,             \* [Worker -> where the thread is]
  rows,           \* [Worker -> set of ranges]: read and not yet published
  published       \* ranges in the sink's repository

tableVars == <<unclaimed, held, local, active>>
pipeVars == <<created, completed, finished>>
workVars == <<task, pc, rows>>
vars == <<tableVars, exhausted, total, pipeVars, requests, queue, workVars, published>>

Init ==
  /\ unclaimed = 1 .. Ranges
  /\ held = [i \in Id |-> {}]
  /\ local = [i \in Id |-> "unborn"]
  /\ active = 0 /\ exhausted = FALSE /\ total = 0
  /\ created = 0 /\ completed = 0 /\ finished = FALSE
  /\ requests = 0 /\ queue = {}
  /\ task = [w \in Worker |-> None]
  /\ pc = [w \in Worker |-> "idle"]
  /\ rows = [w \in Worker |-> {}]
  /\ published = {}

-----------------------------------------------------------------------------
(* Task creator: get_operator_for_next_task, then a lambda of the pool.    *)

\* The query asks for the first task of the scan.  Later
\* a consumer that waits for input leads to the scan unless the table is
\* drained or _max_threads tasks were created.
ConsumerRequest ==
  /\ ~exhausted /\ total < MaxThreads
  /\ requests = 0
  /\ requests' = 1
  /\ UNCHANGED <<tableVars, exhausted, total, pipeVars, queue, workVars, published>>

\* get_next_task_hint(): READY unless exhausted.
TakeRequest(i) ==
  /\ requests > 0
  /\ requests' = requests - 1
  /\ \/ exhausted /\ UNCHANGED local
     \/ /\ ~exhausted /\ local[i] = "unborn"
        /\ local' = [local EXCEPT ![i] = "start"]
  /\ UNCHANGED <<unclaimed, held, active, exhausted, total, pipeVars, queue,
                 workVars, published>>

\* duckdb_scan_task_local_state(): counted first, then init_local() claims.
CountLocalState(i) ==
  /\ local[i] = "start"
  /\ active' = active + 1
  /\ local' = [local EXCEPT ![i] = "init"]
  /\ UNCHANGED <<unclaimed, held, exhausted, total, pipeVars, requests, queue,
                 workVars, published>>

\* External: DuckDB's init_local() and scan function claim the next range.
Claim(i) ==
  IF unclaimed # {} /\ held[i] = {}
  THEN \E r \in unclaimed :
         /\ \A s \in unclaimed : r <= s
         /\ unclaimed' = unclaimed \ {r}
         /\ held' = [held EXCEPT ![i] = {r}]
  ELSE UNCHANGED <<unclaimed, held>>

InitLocal(i) ==
  /\ local[i] = "init"
  /\ Claim(i)
  /\ local' = [local EXCEPT ![i] = "create"]
  /\ UNCHANGED <<active, exhausted, total, pipeVars, requests, queue, workVars, published>>

\* The task's constructor runs under the pipeline's status lock.
CreateTask(i) ==
  /\ local[i] = "create"
  /\ total' = total + 1
  /\ created' = created + 1
  /\ queue' = queue \cup {i}
  /\ local' = [local EXCEPT ![i] = "scan"]
  /\ UNCHANGED <<unclaimed, held, active, exhausted, completed, finished, requests,
                 workVars, published>>

-----------------------------------------------------------------------------
(* duckdb_scan_executor: manager_loop and the dispatched lambda.           *)

TakeTask(w, i) ==
  /\ pc[w] = "idle" /\ i \in queue
  /\ queue' = queue \ {i}
  /\ task' = [task EXCEPT ![w] = i]
  /\ pc' = [pc EXCEPT ![w] = "scan"]
  /\ UNCHANGED <<tableVars, exhausted, total, pipeVars, requests, rows, published>>

\* get_next_chunk() until the batch is full, which depends on the chunks'
\* sizes and happens after at most Batch ranges.
ReadChunk(w) ==
  LET i == task[w] IN
  /\ pc[w] = "scan"
  /\ IF held[i] # {}
     THEN /\ rows' = [rows EXCEPT ![w] = @ \cup held[i]]
          /\ held' = [held EXCEPT ![i] = {}]
          /\ UNCHANGED unclaimed
     ELSE \E r \in unclaimed :
            /\ \A s \in unclaimed : r <= s
            /\ unclaimed' = unclaimed \ {r}
            /\ rows' = [rows EXCEPT ![w] = @ \cup {r}]
            /\ UNCHANGED held
  /\ \/ pc' = [pc EXCEPT ![w] = "continue"]
     \/ Cardinality(rows[w]) + 1 < Batch /\ UNCHANGED pc
  /\ UNCHANGED <<local, active, exhausted, total, pipeVars, requests, queue, task, published>>

\* Wrong variant: the first state that sees the end of the table decides.
EmptyChunkDrains(w) ==
  LET i == task[w] IN
  /\ pc[w] = "scan" /\ held[i] = {} /\ unclaimed = {}
  /\ local' = [local EXCEPT ![i] = "drained"]
  /\ active' = active - 1
  /\ pc' = [pc EXCEPT ![w] = "drained"]
  /\ UNCHANGED <<unclaimed, held, exhausted, total, pipeVars, requests, queue,
                 task, rows, published>>

\* An empty chunk: _local_state_drained, decrement_local_states().
EmptyChunk(w) ==
  LET i == task[w] IN
  /\ pc[w] = "scan" /\ held[i] = {} /\ unclaimed = {}
  /\ local' = [local EXCEPT ![i] = "drained"]
  /\ active' = active - 1
  /\ pc' = [pc EXCEPT ![w] = IF active = 1 THEN "drained" ELSE "publish"]
  /\ UNCHANGED <<unclaimed, held, exhausted, total, pipeVars, requests, queue,
                 task, rows, published>>

SetSourceDrained(w) ==
  /\ pc[w] = "drained"
  /\ exhausted' = TRUE
  /\ pc' = [pc EXCEPT ![w] = "publish"]
  /\ UNCHANGED <<tableVars, total, pipeVars, requests, queue, task, rows, published>>

\* Wrong variant: the continuation is not counted as created.
ContinueUncounted(w) ==
  /\ pc[w] = "continue"
  /\ queue' = queue \cup {task[w]}
  /\ pc' = [pc EXCEPT ![w] = "publish"]
  /\ UNCHANGED <<tableVars, exhausted, total, pipeVars, requests, task, rows, published>>

\* The batch is full: the local state moves into a continuation task.
Continue(w) ==
  /\ pc[w] = "continue"
  /\ total' = total + 1
  /\ created' = created + 1
  /\ queue' = queue \cup {task[w]}
  /\ pc' = [pc EXCEPT ![w] = "publish"]
  /\ UNCHANGED <<tableVars, exhausted, completed, finished, requests, task, rows, published>>

Publish(w) ==
  /\ pc[w] = "publish"
  /\ published' = published \cup rows[w]
  /\ rows' = [rows EXCEPT ![w] = {}]
  /\ pc' = [pc EXCEPT ![w] = "destroy"]
  /\ UNCHANGED <<tableVars, exhausted, total, pipeVars, requests, queue, task>>

\* ~duckdb_scan_task(): mark_task_completed(), then update_pipeline_status().
DestroyTask(w) ==
  /\ pc[w] = "destroy"
  /\ completed' = completed + 1
  /\ task' = [task EXCEPT ![w] = None]
  /\ pc' = [pc EXCEPT ![w] = "status"]
  /\ UNCHANGED <<tableVars, exhausted, total, created, finished, requests, queue,
                 rows, published>>

\* The counters are compared in one step: once the table is drained, tasks are
\* created only under the status lock that this thread holds, so created does
\* not change between the two loads.
UpdateStatus(w) ==
  /\ pc[w] = "status"
  /\ finished' = (finished \/ (exhausted /\ created = completed))
  /\ pc' = [pc EXCEPT ![w] = "idle"]
  /\ UNCHANGED <<tableVars, exhausted, total, created, completed, requests, queue,
                 task, rows, published>>

CreatorStep(i) == CountLocalState(i) \/ InitLocal(i) \/ CreateTask(i)

WorkerStep(w) ==
  \/ \E i \in Id : TakeTask(w, i)
  \/ ReadChunk(w) \/ EmptyChunk(w) \/ SetSourceDrained(w) \/ Continue(w)
  \/ Publish(w) \/ DestroyTask(w) \/ UpdateStatus(w)

\* The pipeline is finished and no thread has anything left to do.
Terminated ==
  /\ finished /\ requests = 0 /\ queue = {}
  /\ \A w \in Worker : pc[w] = "idle"
  /\ \A i \in Id : local[i] \notin {"start", "init", "create"}
  /\ UNCHANGED vars

Next ==
  \/ ConsumerRequest
  \/ \E i \in Id : TakeRequest(i) \/ CreatorStep(i)
  \/ \E w \in Worker : WorkerStep(w)
  \/ Terminated

Spec == Init /\ [][Next]_vars

\* The pools' threads and the manager threads keep running; consumers may or
\* may not ask for more.
Fairness ==
  /\ WF_vars(\E i \in Id : TakeRequest(i))
  /\ \A i \in Id : WF_vars(CreatorStep(i))
  /\ \A w \in Worker : WF_vars(WorkerStep(w))

FairSpec == Spec /\ Fairness
-----------------------------------------------------------------------------
(* Properties.                                                             *)

\* The counters and the threads stay within the values the code can store.
TypeOK ==
  /\ unclaimed \subseteq 1 .. Ranges /\ held \in [Id -> SUBSET (1 .. Ranges)]
  /\ local \in [Id -> {"unborn", "start", "init", "create", "scan", "drained"}]
  /\ active \in Nat /\ exhausted \in BOOLEAN /\ total \in Nat
  /\ created \in Nat /\ completed \in Nat /\ finished \in BOOLEAN
  /\ requests \in 0 .. 1 /\ queue \subseteq Id
  /\ task \in [Worker -> Id \cup {None}]
  /\ pc \in [Worker -> {"idle", "scan", "drained", "continue", "publish",
                        "destroy", "status"}]
  /\ rows \in [Worker -> SUBSET (1 .. Ranges)] /\ published \subseteq 1 .. Ranges

\* _active_local_states: set_source_drained() is reached only when no local
\* state holds a range and none is left to claim, so that no row is lost by
\* requests that stop being answered.
ExhaustedMeansRead ==
  exhausted => unclaimed = {} /\ \A i \in Id : held[i] = {}

\* pipeline_finished implies that every range of the table is in the sink's
\* repository: downstream FULL barriers open on a complete input.
FinishedIsComplete == finished => published = 1 .. Ranges

\* A scan that has been asked for its first task always finishes.
ScanFinishes == requests = 1 ~> finished

=============================================================================
