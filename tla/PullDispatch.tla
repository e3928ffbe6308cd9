---------------------------- MODULE PullDispatch ----------------------------
(***************************************************************************)
(* How a GPU pipeline task travels from task_scheduler::schedule() to a    *)
(* worker thread, over several queries.                                    *)
(*                                                                         *)
(* The scheduler keeps every task in its own queue until a device asks for *)
(* one: the manager thread of a gpu_pipeline_executor first reserves a     *)
(* slot of its bounded pool, then sends device_ready, then blocks on the   *)
(* executor's queue.  The management thread of the scheduler matches ready *)
(* devices with queued tasks.  A downgrade executor may meanwhile borrow   *)
(* tasks from the scheduler's queue, a worker that runs out of memory puts *)
(* its task back into its executor's queue, and the query thread quiesces  *)
(* every executor between two queries, after a success by validating that  *)
(* the queues are empty, after an error by draining them.                  *)
(***************************************************************************)
EXTENDS Naturals, Sequences, FiniteSets, SequencesExt

CONSTANTS
  Task,        \* GPU pipeline tasks
  Device,      \* device ids of the GPU executors, naturals
  Pref,        \* [Task -> ...]: preferred_device_id; not in Device: none, or stale
  None,        \* no task
  Wake,        \* the task_available event
  Slot,        \* threads of one executor's bounded pool
  Faulty,      \* tasks that get no reservation, or whose execution throws
  MaxQuery,    \* bound: queries
  MaxRetry,    \* MAX_OOM_RETRIES
  MaxOom,      \* bound: out-of-memory exceptions
  MaxBorrow    \* bound: tasks the downgrade executors borrow

ASSUME DispatchAssumption ==
  /\ Device \subseteq Nat
  /\ Wake \notin Device /\ None \notin Task
  /\ IsFiniteSet(Slot) /\ IsFiniteSet(Device)
  /\ MaxQuery \in Nat /\ MaxRetry \in Nat /\ MaxOom \in Nat /\ MaxBorrow \in Nat

VARIABLES
  engine,         \* where the query thread is
  query,          \* number of queries started
  failed,         \* completion_handler::has_error()
  mode,           \* whether it validates the queues or drains them
  left,           \* executors the query thread has still to quiesce
  creating,       \* task_creator::_running
  born,           \* [Task -> Nat]: the query that scheduled the task, 0 before
  waking,         \* tasks pushed whose schedule() has not yet sent task_available
  task_queue,     \* task_scheduler::_task_queue
  borrowed,       \* tasks held by convertible_gpu_pipeline_task wrappers
  events,         \* _task_request_channel: kinds and devices of the queued events
  ready_devices,  \* task_scheduler::_ready_devices
  matcher,        \* where the management thread is
  pass,           \* devices it has still to look at in this pass
  hand,           \* the task it has popped and not yet dispatched
  queue,          \* [Device -> Seq(Task)]: itask_executor::_task_queue
  open,           \* [Device -> BOOLEAN]: that queue's _active
  paused,         \* [Device -> BOOLEAN]: bounded_thread_pool::interrupted_
  active,         \* [Device -> Nat]: bounded_thread_pool::active_
  manager,        \* [Device -> where its manager thread is]
  job,            \* [Device -> [Slot -> Task or None]]: the task of a lambda
  step,           \* [Device -> [Slot -> where the worker thread is]]
  retries,        \* [Task -> Nat]: retry_count
  done,           \* tasks that ran to their end
  ooms,           \* out-of-memory exceptions so far
  borrows         \* borrowings so far

queryVars == <<engine, query, failed, mode, left, creating>>
schedVars == <<born, waking, task_queue, borrowed, borrows>>
matchVars == <<events, ready_devices, matcher, pass, hand>>
execVars  == <<queue, open, paused, active, manager>>
workVars  == <<job, step, retries, done, ooms>>
vars == <<queryVars, schedVars, matchVars, execVars, workVars>>

\* The first position of s that holds an element of S, as pop_if() finds it.
IsFirst(s, i, S) ==
  /\ i \in DOMAIN s /\ s[i] \in S
  /\ \A j \in 1 .. (i - 1) : s[j] \notin S

\* inspectable_mpsc::push: an interrupted queue rejects (and destroys) the task.
Offer(d, t) == IF open[d] THEN [queue EXCEPT ![d] = Append(@, t)] ELSE queue

Busy(d) == {s \in Slot : step[d][s] # "idle"}

Init ==
  /\ engine = "idle" /\ query = 0 /\ failed = FALSE
  /\ mode = "validate" /\ left = {} /\ creating = TRUE
  /\ born = [t \in Task |-> 0] /\ waking = {} /\ task_queue = <<>>
  /\ borrowed = {} /\ borrows = 0
  /\ events = {} /\ ready_devices = {}
  /\ matcher = "get" /\ pass = {} /\ hand = None
  /\ queue = [d \in Device |-> <<>>]
  /\ open = [d \in Device |-> TRUE]
  /\ paused = [d \in Device |-> FALSE]
  /\ active = [d \in Device |-> 0]
  /\ manager = [d \in Device |-> "reserve"]
  /\ job = [d \in Device |-> [s \in Slot |-> None]]
  /\ step = [d \in Device |-> [s \in Slot |-> "idle"]]
  /\ retries = [t \in Task |-> 0]
  /\ done = {} /\ ooms = 0

-----------------------------------------------------------------------------
(* task_scheduler::schedule(), called by the lambdas of the task creator   *)
(* until they are joined: push, then send; the management thread may run   *)
(* in between.                                                             *)

SchedulePush(t) ==
  /\ creating /\ (engine = "running" \/ (engine = "stop" /\ failed))
  /\ born[t] = 0
  /\ born' = [born EXCEPT ![t] = query]
  /\ task_queue' = Append(task_queue, t)
  /\ waking' = waking \cup {t}
  /\ UNCHANGED <<queryVars, borrowed, borrows, matchVars, execVars, workVars>>

\* Wrong variant: the event is never sent.
ScheduleSilently(t) ==
  /\ t \in waking
  /\ waking' = waking \ {t}
  /\ UNCHANGED <<queryVars, born, task_queue, borrowed, borrows,
                 matchVars, execVars, workVars>>

ScheduleWake(t) ==
  /\ t \in waking
  /\ waking' = waking \ {t}
  /\ events' = events \cup {Wake}
  /\ UNCHANGED <<queryVars, born, task_queue, borrowed, borrows,
                 ready_devices, matcher, pass, hand, execVars, workVars>>

(* Tier 2 of downgrade_executor::processing_loop: any task with an idle     *)
(* batch on the device may be taken; the wrapper's destructor pushes it     *)
(* back, without an event.                                                  *)

Borrow(i) ==
  /\ engine # "end" /\ borrows < MaxBorrow
  /\ borrowed' = borrowed \cup {task_queue[i]}
  /\ task_queue' = RemoveAt(task_queue, i)
  /\ borrows' = borrows + 1
  /\ UNCHANGED <<queryVars, born, waking, matchVars, execVars, workVars>>

ReturnBorrowed(t) ==
  /\ t \in borrowed
  /\ borrowed' = borrowed \ {t}
  /\ task_queue' = Append(task_queue, t)
  /\ UNCHANGED <<queryVars, born, waking, borrows, matchVars, execVars, workVars>>

-----------------------------------------------------------------------------
(* task_scheduler::management_eventloop.  Events are only ever absorbed all *)
(* together and inserting a device twice is inserting it once, so the       *)
(* channel is the set of its events.                                        *)

\* Wrong variants: the ready set replaced instead of extended; only the newly
\* ready devices looked at.
AbsorbReplacing ==
  /\ matcher = "get" /\ events # {}
  /\ ready_devices' = events \ {Wake}
  /\ events' = {}
  /\ pass' = ready_devices'
  /\ matcher' = IF pass' = {} THEN "get" ELSE "exact"
  /\ UNCHANGED <<hand, queryVars, schedVars, execVars, workVars>>

AbsorbNewlyReady ==
  /\ matcher = "get" /\ events # {}
  /\ ready_devices' = ready_devices \cup (events \ {Wake})
  /\ events' = {}
  /\ pass' = events \ {Wake}
  /\ matcher' = IF pass' = {} THEN "get" ELSE "exact"
  /\ UNCHANGED <<hand, queryVars, schedVars, execVars, workVars>>

AbsorbEvents ==
  /\ matcher = "get" /\ events # {}
  /\ ready_devices' = ready_devices \cup (events \ {Wake})
  /\ events' = {}
  /\ pass' = ready_devices'
  /\ matcher' = IF pass' = {} THEN "get" ELSE "exact"
  /\ UNCHANGED <<hand, queryVars, schedVars, execVars, workVars>>

\* The iterator of the pass: std::set<int> is walked in ascending order.
Next_device == CHOOSE d \in pass : \A e \in pass : d <= e

\* ++it: the next device of the pass, or back to blocking on the channel.
Advance ==
  /\ pass' = pass \ {Next_device}
  /\ matcher' = IF pass' = {} THEN "get" ELSE "exact"

\* pop_if() finds a task of S, or no task of S is queued.
PopIf(S) ==
  \E i \in DOMAIN task_queue :
    /\ IsFirst(task_queue, i, S)
    /\ hand' = task_queue[i]
    /\ task_queue' = RemoveAt(task_queue, i)
    /\ matcher' = "dispatch"
    /\ UNCHANGED pass

Miss(S) == S \cap ToSet(task_queue) = {} /\ UNCHANGED <<hand, task_queue>>

MatchExact ==
  LET S == {t \in Task : Pref[t] = Next_device} IN
  /\ matcher = "exact"
  /\ \/ PopIf(S)
     \/ Miss(S) /\ matcher' = "any" /\ UNCHANGED pass
  /\ UNCHANGED <<events, ready_devices, born, waking, borrowed, borrows,
                 queryVars, execVars, workVars>>

\* Wrong variant: the fallback takes any task.
MatchIgnoringPreference ==
  /\ matcher = "any"
  /\ PopIf(Task) \/ (Miss(Task) /\ Advance)
  /\ UNCHANGED <<events, ready_devices, born, waking, borrowed, borrows,
                 queryVars, execVars, workVars>>

\* No preference, or a preference for a device that does not exist.
MatchAny ==
  LET S == {t \in Task : Pref[t] \notin Device} IN
  /\ matcher = "any"
  /\ PopIf(S) \/ (Miss(S) /\ Advance)
  /\ UNCHANGED <<events, ready_devices, born, waking, borrowed, borrows,
                 queryVars, execVars, workVars>>

Dispatch ==
  /\ matcher = "dispatch"
  /\ queue' = Offer(Next_device, hand)
  /\ ready_devices' = ready_devices \ {Next_device}
  /\ Advance
  /\ hand' = None
  /\ UNCHANGED <<events, queryVars, schedVars, open, paused, active, manager, workVars>>

-----------------------------------------------------------------------------
(* gpu_pipeline_executor::manager_loop.                                     *)

ManagerReserve(d) ==
  /\ manager[d] = "reserve"
  /\ \/ /\ paused[d]
        /\ manager' = [manager EXCEPT ![d] = "exited"]
        /\ UNCHANGED active
     \/ /\ ~paused[d] /\ active[d] < Cardinality(Slot)
        /\ manager' = [manager EXCEPT ![d] = "send"]
        /\ active' = [active EXCEPT ![d] = @ + 1]
  /\ UNCHANGED <<queryVars, schedVars, matchVars, queue, open, paused, workVars>>

ManagerSend(d) ==
  /\ manager[d] = "send"
  /\ events' = events \cup {d}
  /\ manager' = [manager EXCEPT ![d] = "pop"]
  /\ UNCHANGED <<queryVars, schedVars, ready_devices, matcher, pass, hand,
                 queue, open, paused, active, workVars>>

\* pop() still returns queued tasks after an interrupt; the slot moves into
\* the dispatched lambda.
ManagerPop(d, s) ==
  /\ manager[d] = "pop" /\ queue[d] # <<>> /\ step[d][s] = "idle"
  /\ queue' = [queue EXCEPT ![d] = Tail(@)]
  /\ job' = [job EXCEPT ![d][s] = Head(queue[d])]
  /\ step' = [step EXCEPT ![d][s] = "run"]
  /\ manager' = [manager EXCEPT ![d] = "reserve"]
  /\ UNCHANGED <<queryVars, schedVars, matchVars, open, paused, active, retries, done, ooms>>

\* Wrong variant: the manager leaves without releasing its slot.
ManagerKeepsSlot(d) ==
  /\ manager[d] = "pop" /\ queue[d] = <<>> /\ ~open[d]
  /\ manager' = [manager EXCEPT ![d] = "exited"]
  /\ UNCHANGED <<queryVars, schedVars, matchVars, queue, open, paused, active, workVars>>

\* pop() returns nullptr: the loop ends and the slot's destructor releases it.
ManagerInterrupted(d) ==
  /\ manager[d] = "pop" /\ queue[d] = <<>> /\ ~open[d]
  /\ manager' = [manager EXCEPT ![d] = "exited"]
  /\ active' = [active EXCEPT ![d] = @ - 1]
  /\ UNCHANGED <<queryVars, schedVars, matchVars, queue, open, paused, workVars>>

-----------------------------------------------------------------------------
(* The lambda on a pool thread.                                             *)

Execute(d, s) ==
  /\ step[d][s] = "run" /\ job[d][s] \notin Faulty
  /\ done' = done \cup {job[d][s]}
  /\ step' = [step EXCEPT ![d][s] = "exit"]
  /\ UNCHANGED <<queryVars, schedVars, matchVars, execVars, job, retries, ooms>>

\* report_error() has no effect once the promise is set: after a success, or
\* between two queries.
Report == failed' = IF engine = "running" THEN TRUE ELSE failed

\* acquire_and_set_reservation() gets none: report_error().
NoReservation(d, s) ==
  /\ step[d][s] = "run" /\ job[d][s] \in Faulty
  /\ Report
  /\ step' = [step EXCEPT ![d][s] = "exit"]
  /\ UNCHANGED <<engine, query, mode, left, creating, schedVars, matchVars, execVars,
                 job, retries, done, ooms>>

\* Its downgrade request is cancelled by QueryEnd(): the task is dropped and no
\* error is reported.
ExecuteCancelled(d, s) ==
  /\ step[d][s] = "run" /\ engine = "end"
  /\ step' = [step EXCEPT ![d][s] = "exit"]
  /\ UNCHANGED <<queryVars, schedVars, matchVars, execVars, job, retries, done, ooms>>

\* An exception other than OOM: task_creator::stop() joins the creator's
\* threads, and only then is the error reported.
ExecuteThrows(d, s) ==
  /\ step[d][s] = "run" /\ job[d][s] \in Faulty
  /\ waking = {}
  /\ creating' = FALSE
  /\ step' = [step EXCEPT ![d][s] = "report"]
  /\ UNCHANGED <<engine, query, failed, mode, left, schedVars, matchVars, execVars,
                 job, retries, done, ooms>>

ReportError(d, s) ==
  /\ step[d][s] = "report"
  /\ Report
  /\ step' = [step EXCEPT ![d][s] = "exit"]
  /\ UNCHANGED <<engine, query, mode, left, creating, schedVars, matchVars, execVars,
                 job, retries, done, ooms>>

\* oom_reschedule_exception: give up after an error or too many retries,
\* else push the rescheduled task into this executor's own queue.
OutOfMemory(d, s) ==
  LET t == job[d][s] IN
  /\ step[d][s] = "run" /\ ooms < MaxOom
  /\ ooms' = ooms + 1
  /\ step' = [step EXCEPT ![d][s] = "exit"]
  /\ \/ /\ failed
        /\ UNCHANGED <<failed, queue, retries>>
     \/ /\ ~failed /\ retries[t] + 1 > MaxRetry
        /\ Report
        /\ UNCHANGED <<queue, retries>>
     \/ /\ ~failed /\ retries[t] + 1 <= MaxRetry
        /\ retries' = [retries EXCEPT ![t] = @ + 1]
        /\ queue' = Offer(d, t)
        /\ UNCHANGED failed
  /\ UNCHANGED <<engine, query, mode, left, creating, schedVars, matchVars,
                 open, paused, active, manager, job, done>>

\* The lambda is destroyed, and with it the task, before the slot is released.
ReleaseSlot(d, s) ==
  /\ step[d][s] = "exit"
  /\ step' = [step EXCEPT ![d][s] = "idle"]
  /\ job' = [job EXCEPT ![d][s] = None]
  /\ active' = [active EXCEPT ![d] = @ - 1]
  /\ UNCHANGED <<queryVars, schedVars, matchVars, queue, open, paused, manager,
                 retries, done, ooms>>

-----------------------------------------------------------------------------
(* The query thread: SiriusContext::create_query, sirius_engine::execute,   *)
(* task_scheduler::wait_for_completion and drain_after_error, QueryEnd.     *)

\* prepare_for_query() drops what is left in the executors' queues.
StartQuery ==
  /\ engine = "idle" /\ query < MaxQuery
  /\ query' = query + 1
  /\ failed' = FALSE
  /\ queue' = [d \in Device |-> <<>>]
  /\ engine' = "running"
  /\ UNCHANGED <<left, mode, creating, schedVars, matchVars, open, paused, active, manager, workVars>>

\* mark_completed() is called when every task of the query has run (module
\* Pipelines: NothingQueuedAtCompletion); report_error() at any time.
FutureReady ==
  /\ engine = "running"
  /\ \/ /\ failed
        /\ mode' = "drain"
     \/ /\ ~failed /\ waking = {}
        /\ \A t \in Task : born[t] = query => t \in done
        /\ mode' = "validate"
  /\ engine' = "stop"
  /\ UNCHANGED <<query, failed, left, creating, schedVars, matchVars, execVars, workVars>>

\* The task creator's pool is stopped and joined first; then the scheduler's
\* queue is validated or drained.  A failed validation restarts the pool.
StopCreator ==
  /\ engine = "stop" /\ waking = {}
  /\ creating' = (mode = "validate" /\ task_queue # <<>>)
  /\ IF mode = "validate" /\ task_queue # <<>>
     THEN mode' = "drain" /\ UNCHANGED <<engine, left, task_queue>>
     ELSE /\ engine' = "quiesce"
          /\ left' = Device
          /\ task_queue' = <<>>
          /\ UNCHANGED mode
  /\ UNCHANGED <<query, failed, born, waking, borrowed, borrows,
                 matchVars, execVars, workVars>>

\* The executors are quiesced one after the other, in the order of the map.
Next_executor == CHOOSE d \in left : \A e \in left : d <= e

\* Wrong variant: only the pool is interrupted, not the queue.
InterruptPoolOnly ==
  /\ engine = "quiesce" /\ left # {}
  /\ paused' = [paused EXCEPT ![Next_executor] = TRUE]
  /\ engine' = "join"
  /\ UNCHANGED <<query, failed, left, mode, creating, schedVars, matchVars,
                 queue, open, active, manager, workVars>>

InterruptExecutor ==
  /\ engine = "quiesce" /\ left # {}
  /\ paused' = [paused EXCEPT ![Next_executor] = TRUE]
  /\ open' = [open EXCEPT ![Next_executor] = FALSE]
  /\ engine' = "join"
  /\ UNCHANGED <<query, failed, left, mode, creating, schedVars, matchVars,
                 queue, active, manager, workVars>>

\* The manager is joined, wait_all() returns, the queue is validated or
\* drained, and the executor is restarted in either case.
RestartExecutor ==
  LET d == Next_executor IN
  /\ engine = "join" /\ manager[d] = "exited" /\ active[d] = 0
  /\ paused' = [paused EXCEPT ![d] = FALSE]
  /\ open' = [open EXCEPT ![d] = TRUE]
  /\ manager' = [manager EXCEPT ![d] = "reserve"]
  /\ IF mode = "validate" /\ queue[d] # <<>>
     THEN /\ mode' = "drain" /\ engine' = "stop" /\ creating' = TRUE
          /\ UNCHANGED <<left, queue>>
     ELSE /\ queue' = [queue EXCEPT ![d] = <<>>]
          /\ left' = left \ {d}
          /\ engine' = "quiesce"
          /\ UNCHANGED <<mode, creating>>
  /\ UNCHANGED <<query, failed, schedVars, matchVars, active, workVars>>

\* drain_after_error() clears the scheduler's queue once more, and the task
\* creator's threads are started again.
Quiesced ==
  /\ engine = "quiesce" /\ left = {}
  /\ task_queue' = IF mode = "drain" THEN <<>> ELSE task_queue
  /\ creating' = TRUE
  /\ engine' = "end"
  /\ UNCHANGED <<query, failed, left, mode, born, waking, borrowed, borrows,
                 matchVars, execVars, workVars>>

\* QueryEnd() drains the downgrade executors, whose wrappers return their tasks.
EndQuery ==
  /\ engine = "end" /\ borrowed = {}
  /\ engine' = "idle"
  /\ UNCHANGED <<query, failed, left, mode, creating, schedVars, matchVars, execVars, workVars>>

Terminated == engine = "idle" /\ query = MaxQuery /\ UNCHANGED vars

MatcherStep == AbsorbEvents \/ MatchExact \/ MatchAny \/ Dispatch

ManagerStep(d) ==
  \/ ManagerReserve(d) \/ ManagerSend(d) \/ ManagerInterrupted(d)
  \/ \E s \in Slot : ManagerPop(d, s)

WorkerStep(d, s) ==
  \/ Execute(d, s) \/ NoReservation(d, s) \/ ExecuteCancelled(d, s)
  \/ ExecuteThrows(d, s) \/ ReportError(d, s)
  \/ OutOfMemory(d, s) \/ ReleaseSlot(d, s)

EngineStep ==
  FutureReady \/ StopCreator \/ InterruptExecutor \/ RestartExecutor
  \/ Quiesced \/ EndQuery

Next ==
  \/ \E t \in Task : SchedulePush(t) \/ ScheduleWake(t) \/ ReturnBorrowed(t)
  \/ \E i \in DOMAIN task_queue : Borrow(i)
  \/ MatcherStep
  \/ \E d \in Device : ManagerStep(d)
  \/ \E d \in Device, s \in Slot : WorkerStep(d, s)
  \/ StartQuery \/ EngineStep
  \/ Terminated

Spec == Init /\ [][Next]_vars

\* Every thread keeps running: the operating system schedules them all, and
\* none holds a lock while it waits.  Nothing forces new queries, new tasks
\* or borrowings.
Fairness ==
  /\ WF_vars(MatcherStep)
  /\ WF_vars(EngineStep)
  /\ \A t \in Task : WF_vars(ScheduleWake(t)) /\ WF_vars(ReturnBorrowed(t))
  /\ \A d \in Device : WF_vars(ManagerStep(d))
  /\ \A d \in Device, s \in Slot : WF_vars(WorkerStep(d, s))

FairSpec == Spec /\ Fairness

-----------------------------------------------------------------------------
(* Properties.                                                              *)

\* The state of the scheduler, of its executors and of the query thread stays
\* within the values the code can store.
TypeOK ==
  /\ engine \in {"idle", "running", "stop", "quiesce", "join", "end"}
  /\ mode \in {"validate", "drain"} /\ failed \in BOOLEAN
  /\ query \in 0 .. MaxQuery /\ left \subseteq Device /\ creating \in BOOLEAN
  /\ born \in [Task -> 0 .. MaxQuery] /\ waking \subseteq Task
  /\ task_queue \in Seq(Task) /\ borrowed \subseteq Task
  /\ events \subseteq Device \cup {Wake} /\ ready_devices \subseteq Device
  /\ matcher \in {"get", "exact", "any", "dispatch"}
  /\ pass \subseteq ready_devices /\ (pass = {} <=> matcher = "get")
  /\ hand \in Task \cup {None} /\ (hand = None <=> matcher # "dispatch")
  /\ queue \in [Device -> Seq(Task)]
  /\ open \in [Device -> BOOLEAN] /\ paused \in [Device -> BOOLEAN]
  /\ active \in [Device -> Nat]
  /\ manager \in [Device -> {"reserve", "send", "pop", "exited"}]
  /\ job \in [Device -> [Slot -> Task \cup {None}]]
  /\ step \in [Device -> [Slot -> {"idle", "run", "report", "exit"}]]
  /\ retries \in [Task -> 0 .. MaxRetry] /\ done \subseteq Task
  /\ ooms \in Nat /\ borrows \in Nat

\* bounded_thread_pool: active_ counts exactly the slot the manager holds
\* and the lambdas that have not been destroyed, so wait_all() returns only
\* when no task of the executor is alive, and the pool is never oversubscribed.
SlotsAccounted ==
  \A d \in Device :
    /\ active[d] = Cardinality(Busy(d))
                   + (IF manager[d] \in {"send", "pop"} THEN 1 ELSE 0)
    /\ active[d] <= Cardinality(Slot)

\* management_eventloop: a preference for an existing device is binding, also
\* for a task that was rescheduled after it ran out of memory.
PreferenceIsBinding ==
  \A d \in Device, t \in Task :
    /\ Pref[t] \in Device
    /\ t \in ToSet(queue[d]) \cup {job[d][s] : s \in Slot}
    => Pref[t] = d

Waits(d) == manager[d] = "pop" /\ queue[d] = <<>> /\ open[d]

Expected(d) ==
  d \in ready_devices \cup events \/ (matcher = "dispatch" /\ Next_device = d)

\* manager_loop waits on its queue only with a device_ready signal pending.  No
\* step leaves a manager waiting for a task that the scheduler does not know
\* of, but one: prepare_for_query() drops a task that was dispatched to the
\* device, and with it the answer to the only signal its manager sent.
DeviceIsForgottenOnlyByStart ==
  [][\A d \in Device : Waits(d)' /\ ~Expected(d)' /\ (Waits(d) => Expected(d))
       => engine = "idle" /\ engine' = "running" /\ queue[d] # <<>>]_vars

\* schedule() pushes a task and then wakes the management thread: when that
\* thread is blocked and no event is on its way, no ready device is left
\* without a queued task it could run.  (As long as no task was borrowed: a
\* wrapper returns its task without an event.)
NoMissedMatch ==
  matcher = "get" /\ events = {} /\ waking = {} /\ borrows = 0
    => \A d \in ready_devices : \A t \in ToSet(task_queue) :
         Pref[t] # d /\ Pref[t] \in Device

\* A worker only runs tasks of the query in progress: once the query thread
\* has quiesced an executor and returned, the plan and the repositories that
\* an older task points to are gone.
NoStaleTask ==
  \A d \in Device, s \in Slot :
    step[d][s] = "run" => /\ born[job[d][s]] = query
                          /\ engine \notin {"end", "idle"}

\* A scheduled task is run, unless the query fails first.
ScheduledTaskRuns ==
  \A t \in Task : t \in ToSet(task_queue) ~> (t \in done \/ failed)

\* wait_for_completion and drain_after_error return: interrupting pool and
\* queue always gets the manager out, whatever it was blocked on.
QuiesceReturns == engine = "stop" ~> engine = "idle"

=============================================================================
