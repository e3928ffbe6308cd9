------------------------------ MODULE Downgrade ------------------------------
(***************************************************************************)
(* One downgrade executor of a GPU memory space: its request queue, the    *)
(* processing thread that looks for batches to move to host or disk, first *)
(* in the repositories and then in the inputs of queued pipeline tasks,    *)
(* the bounded pool that converts them, drain() and stop(), the monitor,   *)
(* and the pipeline workers that wait on it for a reservation              *)
(* (downgrade/downgrade_executor.cpp, include/data/convertible_*.hpp,      *)
(* include/exec/, pipeline/gpu_pipeline_executor.cpp).                     *)
(*                                                                         *)
(* External: the memory spaces grant a reservation when there is room, a   *)
(* batch refuses the mutable lock while another task reads it.             *)
(***************************************************************************)
EXTENDS Integers, Sequences, FiniteSets, Functions, FiniteSetsExt

CONSTANTS RepoBatches,   \* the batches of the repositories, oldest first
          TaskBatches,   \* for each task, the batches of its input
          BatchSize,     \* the size of each batch
          QueuedTasks,   \* the pipeline task queue at the start, oldest first
          DgWorkers,     \* pipeline workers
          NeedBytes,     \* what a task must reserve
          GpuRoom, HostRoom, DiskRoom,  \* the capacities
          PoolSlots,     \* threads of the bounded pool
          MonitorBytes,  \* what the monitor asks to free
          MaxMonitor, MaxDrains \* bounds: monitor requests, calls of drain()

VARIABLES loc,        \* where every batch is
          reading,    \* the batches another task holds read locks on
          taskq,      \* the pipeline task queue
          dgrequests,   \* every downgrade_request made so far
          rqueue,     \* _request_queue: its elements and whether it is active
          processor,  \* the processing thread
          jobs,       \* what the pool was dispatched, each holding a slot
          dgpool,       \* whether the bounded pool is interrupted
          drainer,    \* the thread in drain() or stop()
          dgworker,     \* the pipeline workers
          done        \* the tasks executed

dgvars == <<loc, reading, taskq, dgrequests, rqueue, processor, jobs, dgpool, drainer, dgworker, done>>

DgTasks == DOMAIN TaskBatches
DgBatches == DOMAIN BatchSize

\* Every task is in the queue at the start, once.
ASSUME DowngradeAssumption ==
    /\ QueuedTasks \in Seq(DgTasks)
    /\ Range(QueuedTasks) = DgTasks
    /\ IsInjective(QueuedTasks)

NoReq == 0
Exited == [at |-> "exited", req |-> NoReq, cands |-> <<>>, left |-> 0]
Popping == [Exited EXCEPT !.at = "pop"]

DgInit ==
    /\ loc = [b \in DgBatches |-> "gpu"]
    /\ reading = {}
    /\ taskq = QueuedTasks
    /\ dgrequests = <<>>
    /\ rqueue = [items |-> <<>>, active |-> TRUE]
    /\ processor = Popping
    /\ jobs = {}
    /\ dgpool = [interrupted |-> FALSE]
    /\ drainer = [at |-> "idle", stops |-> FALSE, count |-> 0]
    /\ dgworker = [w \in DgWorkers |-> [at |-> "idle", task |-> <<>>, req |-> NoReq, held |-> 0]]
    /\ done = {}

Used(space) == MapThenSumSet(LAMBDA b : BatchSize[b], {b \in DgBatches : loc[b] = space})
Reserved == MapThenSumSet(LAMBDA w : dgworker[w].held, DgWorkers)
Granted == MapThenSumSet(LAMBDA r : dgrequests[r].taken, DOMAIN dgrequests)
GpuFree == GpuRoom - Used("gpu") - Reserved - Granted

NewRequest(kind, state) ==
    [kind |-> kind, state |-> state, freed |-> 0, moved |-> 0, satisfied |-> FALSE, taken |-> 0]

SetState(r, s) == [dgrequests EXCEPT ![r].state = s]

(***************************************************************************)
(* interruptible_mpmc::push tests the flag and enqueues afterwards: a      *)
(* request that passed the test may enter a queue interrupted meanwhile.   *)
(* A rejected request is destroyed, its future throws broken_promise.      *)
(***************************************************************************)
Push(kind) ==
    dgrequests' = Append(dgrequests, NewRequest(kind, IF rqueue.active THEN "pushing" ELSE "broken"))

Enqueue(r) ==
    /\ dgrequests[r].state = "pushing"
    /\ dgrequests' = SetState(r, "queued")
    /\ rqueue' = [rqueue EXCEPT !.items = Append(@, r)]
    /\ UNCHANGED <<loc, reading, taskq, processor, jobs, dgpool, drainer, dgworker, done>>

monitor_loop ==
    /\ drainer.at # "stopped"
    /\ Used("gpu") + Reserved + Granted >= GpuRoom             \* should_downgrade_memory
    /\ Cardinality({r \in DOMAIN dgrequests : dgrequests[r].kind = "monitor"}) < MaxMonitor
    /\ Push("monitor")
    /\ UNCHANGED <<loc, reading, taskq, rqueue, processor, jobs, dgpool, drainer, dgworker, done>>

(***************************************************************************)
(* The pipeline workers: acquire_and_set_reservation.                      *)
(***************************************************************************)
TakeDgTask(w) ==
    /\ dgworker[w].at = "idle" /\ taskq # <<>> /\ ~drainer.stops
    /\ dgworker' = [dgworker EXCEPT ![w].at = "reserve", ![w].task = <<Head(taskq)>>]
    /\ taskq' = Tail(taskq)
    /\ UNCHANGED <<loc, reading, dgrequests, rqueue, processor, jobs, dgpool, drainer, done>>

\* make_reservation: all that is asked for, or what is left (a partial one)
MakeReservation(w) == dgworker' = [dgworker EXCEPT ![w].at = "run",
                                               ![w].held = IF GpuFree >= NeedBytes THEN NeedBytes
                                                           ELSE Max({GpuFree, 0}),
                                               ![w].req = NoReq]

acquire_and_set_reservation(w) ==
    /\ dgworker[w].at = "reserve"
    /\ IF GpuFree >= NeedBytes
       THEN MakeReservation(w) /\ UNCHANGED dgrequests
       ELSE /\ Push("reserve")
            /\ dgworker' = [dgworker EXCEPT ![w].at = "wait", ![w].req = Len(dgrequests) + 1]
    /\ UNCHANGED <<loc, reading, taskq, rqueue, processor, jobs, dgpool, drainer, done>>

Fulfilled(r) == dgrequests[r].state \in {"resolved", "cancelled", "broken"}

\* .get() returns or throws; a cancelled request makes the worker skip its task
Answered(w) ==
    /\ dgworker[w].at = "wait" /\ Fulfilled(dgworker[w].req)
    /\ LET r == dgworker[w].req
           asked == dgrequests[r]
       IN CASE asked.state # "resolved" ->
                 /\ dgworker' = [dgworker EXCEPT ![w].at = "skipped", ![w].req = NoReq]
                 /\ UNCHANGED dgrequests
            [] asked.state = "resolved" /\ asked.taken > 0 ->
                 /\ dgworker' = [dgworker EXCEPT ![w].at = "run", ![w].held = asked.taken,
                                             ![w].req = NoReq]
                 /\ dgrequests' = [dgrequests EXCEPT ![r].taken = 0]
            [] OTHER -> MakeReservation(w) /\ UNCHANGED dgrequests
    /\ UNCHANGED <<loc, reading, taskq, rqueue, processor, jobs, dgpool, drainer, done>>

\* the task reads its input, runs, and its batches and its reservation are gone
RunTask(w) ==
    /\ dgworker[w].at = "run"
    /\ LET t == dgworker[w].task[1]
           mine == Range(TaskBatches[t])
       IN /\ dgworker' = [dgworker EXCEPT ![w].at = "idle", ![w].task = <<>>, ![w].held = 0]
          /\ loc' = [b \in DgBatches |-> IF b \in mine THEN "gone" ELSE loc[b]]
          /\ done' = done \cup {t}
    /\ UNCHANGED <<reading, taskq, dgrequests, rqueue, processor, jobs, dgpool, drainer>>

\* another operator reads a batch of a repository, or is done with it
ReadBatch(b) ==
    /\ loc[b] = "gpu" /\ b \in Range(RepoBatches)
    /\ \A j \in jobs : b \notin Range(j.batches)
    /\ reading' = (reading \cup {b}) \ (reading \cap {b})
    /\ UNCHANGED <<loc, taskq, dgrequests, rqueue, processor, jobs, dgpool, drainer, dgworker, done>>

(***************************************************************************)
(* processing_loop.                                                        *)
(***************************************************************************)
IdleOnGpu(b) == loc[b] = "gpu" /\ b \notin reading
BatchBytes(bs) == MapThenSumSet(LAMBDA b : BatchSize[b], {b \in Range(bs) : loc[b] = "gpu"})
NewestFirst(bs) == [i \in DOMAIN bs |-> bs[Len(bs) + 1 - i]]

Satisfied(r) == dgrequests[r].satisfied

\* pop() gives up once the queue is interrupted, or takes what its wait still found;
\* the candidates of the repositories are taken newest first
PopRequest ==
    /\ processor.at = "pop"
    /\ \/ /\ ~rqueue.active
          /\ processor' = Exited
          /\ UNCHANGED <<rqueue, dgrequests>>
       \/ /\ rqueue.items # <<>>
          /\ processor' = [at |-> "repos", req |-> Head(rqueue.items), left |-> 0,
                           cands |-> NewestFirst(SelectSeq(RepoBatches, IdleOnGpu))]
          /\ rqueue' = [rqueue EXCEPT !.items = Tail(@)]
          /\ dgrequests' = SetState(Head(rqueue.items), "processing")
    /\ UNCHANGED <<loc, reading, taskq, jobs, dgpool, drainer, dgworker, done>>

PoolHasSlot == Cardinality(jobs) < PoolSlots

Job(bs, task, bytes) ==
    [batches |-> bs, task |-> task, bytes |-> bytes, req |-> processor.req, at |-> "convert"]

\* the first tier: reserve a slot and dispatch the next candidate of the repositories
FromRepository ==
    /\ processor.at = "repos"
    /\ LET r == processor.req
           interrupted == dgpool.interrupted
           over == processor.cands = <<>> \/ Satisfied(r)
           second == [processor EXCEPT !.at = "tasks", !.left = Len(taskq), !.cands = <<>>]
       IN IF over \/ interrupted
          THEN /\ processor' = IF Satisfied(r) THEN [processor EXCEPT !.at = "wait"] ELSE second
               /\ UNCHANGED jobs
          ELSE /\ PoolHasSlot
               /\ jobs' = jobs \cup {Job(<<Head(processor.cands)>>, <<>>,
                                         BatchBytes(<<Head(processor.cands)>>))}
               /\ processor' = [processor EXCEPT !.cands = Tail(@)]
    /\ UNCHANGED <<loc, reading, taskq, dgrequests, rqueue, dgpool, drainer, dgworker, done>>

Matching(t) == \E b \in Range(TaskBatches[t]) : IdleOnGpu(b)
Newest(i) == Matching(taskq[i]) /\ \A k \in DOMAIN taskq : k > i => ~Matching(taskq[k])

\* the second tier: take the newest task with a batch here out of the queue
BorrowTask ==
    /\ processor.at = "tasks"
    /\ \/ /\ \/ Satisfied(processor.req) \/ processor.left = 0
             \/ \A i \in DOMAIN taskq : ~Matching(taskq[i])
          /\ processor' = [processor EXCEPT !.at = "wait"] /\ UNCHANGED taskq
       \/ \E i \in DOMAIN taskq :
            /\ ~Satisfied(processor.req) /\ processor.left # 0 /\ Newest(i)
            /\ processor' = [processor EXCEPT !.at = "dispatch", !.left = @ - 1,
                                              !.cands = <<taskq[i]>>]
            /\ taskq' = SubSeq(taskq, 1, i - 1) \o SubSeq(taskq, i + 1, Len(taskq))
    /\ UNCHANGED <<loc, reading, dgrequests, rqueue, jobs, dgpool, drainer, dgworker, done>>

\* the candidate's destructor returns its task to the queue
DispatchTask ==
    /\ processor.at = "dispatch"
    /\ LET t == processor.cands[1]
       IN IF dgpool.interrupted \/ (PoolHasSlot /\ Satisfied(processor.req))
          THEN /\ taskq' = Append(taskq, t)
               /\ processor' = [processor EXCEPT !.at = "wait", !.cands = <<>>]
               /\ UNCHANGED jobs
          ELSE /\ PoolHasSlot
               /\ jobs' = jobs \cup {Job(TaskBatches[t], <<t>>, BatchBytes(TaskBatches[t]))}
               /\ processor' = [processor EXCEPT !.at = "tasks", !.cands = <<>>]
               /\ UNCHANGED taskq
    /\ UNCHANGED <<loc, reading, dgrequests, rqueue, dgpool, drainer, dgworker, done>>

WaitsForJobs_Not == TRUE
WaitsForJobs == jobs = {}

\* wait_all, then the promise
SetValue ==
    /\ processor.at = "wait" /\ WaitsForJobs
    /\ dgrequests' = SetState(processor.req, "resolved")
    /\ processor' = IF drainer.stops THEN Exited ELSE Popping
    /\ UNCHANGED <<loc, reading, taskq, rqueue, jobs, dgpool, drainer, dgworker, done>>

(***************************************************************************)
(* The pool: convert every batch to the first target with room, count the  *)
(* candidate's bytes if one was converted, ask the predicate, destroy the  *)
(* candidate, release the slot.                                            *)
(***************************************************************************)
HasRoom(where, space, b) ==
    MapThenSumSet(LAMBDA x : BatchSize[x], {x \in DgBatches : where[x] = space}) + BatchSize[b]
       <= (IF space = "host" THEN HostRoom ELSE DiskRoom)

ConvertBatch(where, b) ==
    IF b \in reading \/ where[b] # "gpu" THEN where
    ELSE IF HasRoom(where, "host", b) THEN [where EXCEPT ![b] = "host"]
    ELSE IF HasRoom(where, "disk", b) THEN [where EXCEPT ![b] = "disk"]
    ELSE where

ConvertAll(bs) ==
    LET after[n \in 0..Len(bs)] == IF n = 0 THEN loc ELSE ConvertBatch(after[n - 1], bs[n])
    IN after[Len(bs)]

Became(j, k) == (jobs \ {j}) \cup {k}

Counts_Anyway(j, where) == j.bytes
Counts(j, where) == IF where # loc THEN j.bytes ELSE 0

Convert(j) ==
    /\ j.at = "convert"
    /\ LET r == j.req
           where == ConvertAll(j.batches)
           out == MapThenSumSet(LAMBDA b : BatchSize[b], {b \in DgBatches : where[b] # loc[b]})
       IN \/ /\ loc' = where
             /\ dgrequests' = [dgrequests EXCEPT ![r].freed = @ + Counts(j, where),
                                             ![r].moved = @ + out]
             /\ jobs' = Became(j, [j EXCEPT !.at = IF Counts(j, where) > 0 THEN "predicate"
                                                                            ELSE "destroy"])
          \/ /\ jobs' = Became(j, [j EXCEPT !.at = "destroy"])     \* the conversion throws
             /\ UNCHANGED <<loc, dgrequests>>
    /\ UNCHANGED <<reading, taskq, rqueue, processor, dgpool, drainer, dgworker, done>>

\* the worker's predicate takes the reservation itself, once; the monitor's counts bytes
Predicate(j) ==
    /\ j.at = "predicate"
    /\ LET r == j.req
           asked == dgrequests[r]
           takes == asked.kind = "reserve" /\ asked.taken = 0 /\ GpuFree >= NeedBytes
           holds == IF asked.kind = "monitor" THEN asked.freed >= MonitorBytes
                    ELSE takes \/ asked.taken > 0
       IN dgrequests' = [dgrequests EXCEPT ![r].taken = IF takes THEN NeedBytes ELSE @,
                                       ![r].satisfied = @ \/ holds]
    /\ jobs' = Became(j, [j EXCEPT !.at = "destroy"])
    /\ UNCHANGED <<loc, reading, taskq, rqueue, processor, dgpool, drainer, dgworker, done>>

Destroy(j) ==
    /\ j.at = "destroy"
    /\ taskq' = taskq \o j.task
    /\ jobs' = jobs \ {j}
    /\ UNCHANGED <<loc, reading, dgrequests, rqueue, processor, dgpool, drainer, dgworker, done>>

(***************************************************************************)
(* drain() by the thread that ends a query; stop() by terminate(), which   *)
(* has joined the pipeline workers before.                                 *)
(***************************************************************************)
Drainer(stage) == drainer' = [drainer EXCEPT !.at = stage]

StartDrain ==
    /\ drainer.at = "idle"
    /\ \/ /\ drainer.count < MaxDrains
          /\ drainer' = [drainer EXCEPT !.at = "queue", !.count = @ + 1]
       \/ /\ \A w \in DgWorkers : dgworker[w].at \in {"idle", "skipped"}
          /\ drainer' = [drainer EXCEPT !.at = "queue", !.stops = TRUE]
    /\ dgpool' = [dgpool EXCEPT !.interrupted = TRUE]
    /\ UNCHANGED <<loc, reading, taskq, dgrequests, rqueue, processor, jobs, dgworker, done>>

InterruptQueue ==
    /\ drainer.at = "queue"
    /\ rqueue' = [rqueue EXCEPT !.active = FALSE]
    /\ Drainer("join")
    /\ UNCHANGED <<loc, reading, taskq, dgrequests, processor, jobs, dgpool, dgworker, done>>

Cancels_Not(r) == dgrequests[r].state
Cancels(r) == "cancelled"

\* join, wait_all, cancel_pending_requests, and for drain() resume and restart
FinishDrain ==
    /\ drainer.at = "join" /\ processor.at = "exited" /\ jobs = {}
    /\ dgrequests' = [r \in DOMAIN dgrequests |->
                      IF r \in Range(rqueue.items) THEN [dgrequests[r] EXCEPT !.state = Cancels(r)]
                      ELSE dgrequests[r]]
    /\ rqueue' = [items |-> <<>>, active |-> ~drainer.stops]
    /\ dgpool' = [dgpool EXCEPT !.interrupted = drainer.stops]
    /\ processor' = IF drainer.stops THEN Exited ELSE Popping
    /\ Drainer(IF drainer.stops THEN "stopped" ELSE "idle")
    /\ UNCHANGED <<loc, reading, taskq, jobs, dgworker, done>>

Threads ==
    \/ PopRequest \/ FromRepository \/ BorrowTask \/ DispatchTask \/ SetValue
    \/ \E j \in jobs : Convert(j) \/ Predicate(j) \/ Destroy(j)
    \/ \E r \in DOMAIN dgrequests : Enqueue(r)
    \/ InterruptQueue \/ FinishDrain

DgWorker(w) == TakeDgTask(w) \/ acquire_and_set_reservation(w) \/ Answered(w) \/ RunTask(w)

DgNext ==
    \/ Threads \/ monitor_loop \/ StartDrain
    \/ \E w \in DgWorkers : DgWorker(w)
    \/ \E b \in DgBatches : ReadBatch(b)

DgSpec == DgInit /\ [][DgNext]_dgvars

\* every thread of the executor, and every worker, keeps running
DgFairness ==
    /\ WF_dgvars(PopRequest) /\ WF_dgvars(FromRepository) /\ WF_dgvars(BorrowTask)
    /\ WF_dgvars(DispatchTask) /\ WF_dgvars(SetValue)
    /\ WF_dgvars(\E j \in jobs : Convert(j) \/ Predicate(j) \/ Destroy(j))
    /\ WF_dgvars(\E r \in DOMAIN dgrequests : Enqueue(r))
    /\ WF_dgvars(InterruptQueue) /\ WF_dgvars(FinishDrain)
    /\ \A w \in DgWorkers : WF_dgvars(Answered(w))

DgFairSpec == DgSpec /\ DgFairness

(***************************************************************************)
(* A pipeline task is never lost or doubled by being borrowed for its      *)
(* batches: it is in the queue, with the processing thread or the pool,    *)
(* with a worker, or executed, and once a request's future is ready none   *)
(* of its borrowed tasks is still out.                                     *)
(***************************************************************************)
Places(t) ==
    {<<"queue", i>> : i \in {k \in DOMAIN taskq : taskq[k] = t}}
       \cup {<<"job", j>> : j \in {k \in jobs : k.task = <<t>>}}
       \cup {<<"worker", w>> : w \in {v \in DgWorkers : dgworker[v].task = <<t>>}}
       \cup {<<"hand", c>> : c \in {d \in {processor.cands} : processor.at = "dispatch" /\ d = <<t>>}}
       \cup {<<"done", d>> : d \in done \cap {t}}

TasksConserved ==
    \A t \in DgTasks :
       /\ Places(t) # {} /\ \A p, q \in Places(t) : p = q
       /\ processor.at \in {"pop", "exited"} => \A j \in jobs : j.task # <<t>>

(***************************************************************************)
(* The predicate of a worker's request refers to variables on that         *)
(* worker's stack: whenever the pool may still call it the worker is       *)
(* waiting for that very request.                                          *)
(***************************************************************************)
PredicateInScope ==
    \A j \in jobs :
       dgrequests[j.req].kind = "reserve" /\ j.at \in {"convert", "predicate"}
          => \E w \in DgWorkers : dgworker[w].at = "wait" /\ dgworker[w].req = j.req

(***************************************************************************)
(* The bytes a request reports as freed are the bytes its candidates moved *)
(* out of the memory space.                                                *)
(***************************************************************************)
FreedIsExact ==
    \A r \in DOMAIN dgrequests :
       dgrequests[r].state = "resolved" => dgrequests[r].freed = dgrequests[r].moved

(***************************************************************************)
(* A worker that asked for a downgrade gets an answer: its future becomes  *)
(* ready, with a value, with the cancellation of drain(), or broken, also  *)
(* when its push races drain().                                            *)
(***************************************************************************)
WorkersAnswered == \A w \in DgWorkers : (dgworker[w].at = "wait") ~> (dgworker[w].at # "wait")

(***************************************************************************)
(* A worker that skips its task has had the failure reported to the        *)
(* query's completion handler, so that the query is aborted and does not   *)
(* wait for the task.                                                      *)
(***************************************************************************)
SkippedMeansReported == \A w \in DgWorkers : dgworker[w].at # "skipped"

(***************************************************************************)
(* A request gives up only when no queued task is left that could still be *)
(* moved: candidates are exhausted.                                        *)
(***************************************************************************)
CandidatesExhausted ==
    processor.at = "wait" /\ ~Satisfied(processor.req) /\ ~dgpool.interrupted /\ jobs = {}
       => \A i \in DOMAIN taskq : \A b \in Range(TaskBatches[taskq[i]]) :
             IdleOnGpu(b) => ~HasRoom(loc, "host", b) /\ ~HasRoom(loc, "disk", b)

(***************************************************************************)
(* Tasks borrowed by the downgrade executor are safe: none is lost or      *)
(* doubled, and a request's predicate is evaluated only while the worker   *)
(* that made the request waits for it.                                     *)
(***************************************************************************)
BorrowingSound == TasksConserved /\ PredicateInScope

==============================================================================
