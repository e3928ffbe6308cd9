----------------------------- MODULE ScanSplits -----------------------------
(***************************************************************************)
(* How the row groups of a scan reach its source operator: the split       *)
(* providers of sirius_scan_manager, the scoped_dispatcher and the thread  *)
(* pool that run their batches, the split_connector between a provider and *)
(* an operator, the task creator's workers that pull the splits, and the   *)
(* end of the query, which destroys the operators with their connectors    *)
(* before it stops the providers.                                          *)
(*                                                                         *)
(* A provider's batch (a group of files or of row groups, or one pinned    *)
(* chunk) is a number, and every batch yields SplitsPer splits.  Reading   *)
(* a batch may fail at any time: a footer that cannot be fetched, a file   *)
(* that no backend serves.                                                 *)
(***************************************************************************)
EXTENDS Integers, Sequences, FiniteSets, Functions

CONSTANTS
    QueryScans,     \* per query, the scan operators in registration order
    ScanBatches,    \* the number of batches of every provider
    SplitsPer,      \* the splits of one batch
    PoolThreads,    \* the threads of the manager's pool
    MaxInflight,    \* the dispatcher's limit on concurrent tasks
    PullWorkers     \* the task creator's workers

\* A query has scans, and an operator belongs to the plan of one query.
ASSUME SplitsAssumption ==
    /\ MaxInflight \in Nat \ {0} /\ ScanBatches \in Nat /\ SplitsPer \in Nat \ {0}
    /\ IsFiniteSet(PoolThreads)
    /\ QueryScans \in Seq(Seq(Nat) \ {<<>>})
    /\ \A q \in 1 .. Len(QueryScans) : IsInjective(QueryScans[q])
    /\ \A p, q \in 1 .. Len(QueryScans) :
          p # q => Range(QueryScans[p]) \cap Range(QueryScans[q]) = {}

VARIABLES
    connector,  \* per scan, its split_connector, or that it is gone
    provider,   \* per scan, the next batch to claim
    holders,    \* per scan, who holds a reference to its worker_state
    failure,    \* per scan, whether a worker recorded an exception
    dispatcher, \* inflight, pending and stop of the scoped_dispatcher
    ssqueue,      \* the tasks queued on the thread pool
    thread,     \* per pool thread, the task it runs and how far it is
    manager,    \* the query thread inside the manager or the context
    puller,     \* per task creator worker, the scan it serves and where
    creation,   \* per scan, the holder of the pipeline's creation lock
    scanned     \* per scan, the splits taken and what the scan reported

ssvars == <<connector, provider, holders, failure, dispatcher, ssqueue, thread,
            manager, puller, creation, scanned>>

ScanIds == UNION {Range(QueryScans[q]) : q \in 1 .. Len(QueryScans)}
Batches == 1 .. ScanBatches
RunHolder == 0      \* run itself, beside the batches it has enqueued
Splits == Batches \X (1 .. SplitsPer)
SplitTasks == ScanIds \X Batches
OfQuery(q) == IF q = 0 THEN {} ELSE Range(QueryScans[q])

\* A source operator is built with a connector that is already closed.
ClosedConnector == [alive |-> TRUE, splits |-> <<>>, closed |-> TRUE, exc |-> FALSE]
FreshConnector == [ClosedConnector EXCEPT !.closed = FALSE]
NewDispatcher == [inflight |-> 0, pending |-> <<>>, stop |-> FALSE]
IdleThread == [pc |-> "idle", task |-> <<>>, left |-> 0]

SsInit ==
    /\ connector = [s \in ScanIds |-> ClosedConnector]
    /\ provider = [s \in ScanIds |-> 0]
    /\ holders = [s \in ScanIds |-> {}]
    /\ failure = [s \in ScanIds |-> FALSE]
    /\ dispatcher = NewDispatcher
    /\ ssqueue = <<>>
    /\ thread = [t \in PoolThreads |-> IdleThread]
    /\ manager = [pc |-> "idle", query |-> 0, at |-> 0]
    /\ puller = [w \in PullWorkers |-> [pc |-> "idle", scan |-> 0]]
    /\ creation = [s \in ScanIds |-> {}]
    /\ scanned = [s \in ScanIds |-> [taken |-> {}, error |-> FALSE, outcome |-> "none"]]

-----------------------------------------------------------------------------
(* split_connector *)

Close(c, exc) == [c EXCEPT !.closed = TRUE, !.exc = @ \/ exc]

is_closed_NotDrained(c) == c.closed
is_closed(c) == c.closed /\ c.splits = <<>>

push_split(c, x) == [c EXCEPT !.splits = Append(@, x)]

\* The last holder of a worker_state closes the connector it refers to.
Released_ByRunOnly(s, who) == who = {RunHolder} /\ holders[s] = who
LastHolder(s, who) == holders[s] = who

ReleaseAll(gone) ==
    /\ holders' = [s \in ScanIds |-> holders[s] \ gone[s]]
    /\ connector' = [s \in ScanIds |->
          IF gone[s] # {} /\ LastHolder(s, gone[s])
          THEN Close(connector[s], failure[s]) ELSE connector[s]]

ReleaseOne(s, h) == ReleaseAll([x \in ScanIds |-> IF x = s THEN {h} ELSE {}])

-----------------------------------------------------------------------------
(* The manager: prepare_for_query, start_metadata_processing and reset *)

\* QueryBegin and create_query: the manager first resets itself.
StartQuery ==
    /\ manager.pc = "idle" /\ manager.query < Len(QueryScans)
    /\ manager' = [pc |-> "stop", query |-> manager.query + 1, at |-> 0]
    /\ UNCHANGED <<connector, provider, holders, failure, dispatcher, ssqueue, thread,
                   puller, creation, scanned>>

\* request_stop drops the tasks that have not been handed to the pool; what
\* they hold of a worker_state goes with them.
RequestStop ==
    /\ manager.pc \in {"stop", "end_stop"}
    /\ dispatcher' = [dispatcher EXCEPT !.stop = TRUE, !.pending = <<>>]
    /\ ReleaseAll([s \in ScanIds |-> {b \in Batches : <<s, b>> \in Range(dispatcher.pending)}])
    /\ manager' = [manager EXCEPT !.pc = IF @ = "stop" THEN "wait" ELSE "end_wait"]
    /\ UNCHANGED <<provider, failure, ssqueue, thread, puller, creation, scanned>>

\* wait_for_all, then the providers are dropped and a new dispatcher is made.
Quiescent_NothingPending == dispatcher.pending = <<>>
Quiescent == dispatcher.inflight = 0 /\ dispatcher.pending = <<>>

WaitForAll ==
    /\ manager.pc \in {"wait", "end_wait"} /\ Quiescent
    /\ dispatcher' = NewDispatcher
    /\ manager' = [manager EXCEPT !.pc = IF @ = "wait" THEN "install" ELSE "idle"]
    /\ UNCHANGED <<connector, provider, holders, failure, ssqueue, thread, puller,
                   creation, scanned>>

\* Every scan source of the query gets a provider and a fresh connector.
Install ==
    /\ manager.pc = "install"
    /\ connector' = [s \in ScanIds |-> IF s \in OfQuery(manager.query)
                                       THEN FreshConnector ELSE connector[s]]
    /\ manager' = [manager EXCEPT !.pc = "drive", !.at = 1]
    /\ UNCHANGED <<provider, holders, failure, dispatcher, ssqueue, thread, puller,
                   creation, scanned>>

Driven == QueryScans[manager.query][manager.at]

\* split_provider::run creates the shared worker_state ...
CreateState ==
    /\ manager.pc = "drive"
    /\ holders' = [holders EXCEPT ![Driven] = {RunHolder}]
    /\ manager' = [manager EXCEPT !.pc = "run"]
    /\ UNCHANGED <<connector, provider, failure, dispatcher, ssqueue, thread, puller,
                   creation, scanned>>

HasSlot == dispatcher.inflight < MaxInflight

\* ... and, while has_more_splits, claims a batch and enqueues a task for it.
EnqueueBatch ==
    LET s == Driven   b == provider[s] + 1 IN
    /\ manager.pc = "run" /\ provider[s] < ScanBatches
    /\ provider' = [provider EXCEPT ![s] = b]
    /\ holders' = [holders EXCEPT ![s] = @ \cup {b}]
    /\ \/ /\ HasSlot
          /\ dispatcher' = [dispatcher EXCEPT !.inflight = @ + 1]
          /\ ssqueue' = Append(ssqueue, <<s, b>>)
       \/ /\ ~HasSlot
          /\ dispatcher' = [dispatcher EXCEPT !.pending = Append(@, <<s, b>>)]
          /\ ssqueue' = ssqueue
    /\ UNCHANGED <<connector, failure, thread, manager, puller, creation, scanned>>

\* run returns and lets go of the state; the manager turns to the next scan.
RunReturns ==
    LET last == manager.at = Len(QueryScans[manager.query]) IN
    /\ manager.pc = "run" /\ provider[Driven] = ScanBatches
    /\ ReleaseOne(Driven, RunHolder)
    /\ manager' = [manager EXCEPT !.pc = IF last THEN "query" ELSE "drive",
                                  !.at = IF last THEN 0 ELSE @ + 1]
    /\ UNCHANGED <<provider, failure, dispatcher, ssqueue, thread, puller, creation, scanned>>

-----------------------------------------------------------------------------
(* The pool's threads *)

PoolTake(t) ==
    /\ thread[t].pc = "idle" /\ ssqueue # <<>>
    /\ thread' = [thread EXCEPT ![t] = [pc |-> "begin", task |-> Head(ssqueue), left |-> 0]]
    /\ ssqueue' = Tail(ssqueue)
    /\ UNCHANGED <<connector, provider, holders, failure, dispatcher, manager, puller,
                   creation, scanned>>

\* A wrapped task runs its body unless the dispatcher has been stopped.  The
\* body reads the batch: the splits come back together or not at all.
BeginTask(t) ==
    LET s == thread[t].task[1] IN
    /\ thread[t].pc = "begin"
    /\ \/ /\ dispatcher.stop
          /\ thread' = [thread EXCEPT ![t].pc = "done"]
          /\ failure' = failure
       \/ /\ ~dispatcher.stop
          /\ thread' = [thread EXCEPT ![t].pc = "push", ![t].left = SplitsPer]
          /\ failure' = failure
       \/ /\ ~dispatcher.stop
          /\ thread' = [thread EXCEPT ![t].pc = "done"]
          /\ failure' = [failure EXCEPT ![s] = TRUE]
    /\ UNCHANGED <<connector, provider, holders, dispatcher, ssqueue, manager, puller,
                   creation, scanned>>

PushSplit(t) ==
    LET s == thread[t].task[1]   b == thread[t].task[2]   n == thread[t].left IN
    /\ thread[t].pc = "push"
    /\ connector' = [connector EXCEPT ![s] = push_split(@, <<b, SplitsPer + 1 - n>>)]
    /\ thread' = [thread EXCEPT ![t].left = n - 1, ![t].pc = IF n = 1 THEN "done" ELSE @]
    /\ UNCHANGED <<provider, holders, failure, dispatcher, ssqueue, manager, puller,
                   creation, scanned>>

\* on_task_done hands the slot to a pending task or gives it back.
OnTaskDone(t) ==
    /\ thread[t].pc = "done"
    /\ \/ /\ ~dispatcher.stop /\ dispatcher.pending # <<>>
          /\ ssqueue' = Append(ssqueue, Head(dispatcher.pending))
          /\ dispatcher' = [dispatcher EXCEPT !.pending = Tail(@)]
       \/ /\ dispatcher.stop \/ dispatcher.pending = <<>>
          /\ dispatcher' = [dispatcher EXCEPT !.inflight = @ - 1]
          /\ ssqueue' = ssqueue
    /\ thread' = [thread EXCEPT ![t].pc = "drop"]
    /\ UNCHANGED <<connector, provider, holders, failure, manager, puller, creation, scanned>>

\* The pool destroys the task after it has returned: only now does the batch
\* let go of the worker_state.
DropTask(t) ==
    /\ thread[t].pc = "drop"
    /\ ReleaseOne(thread[t].task[1], thread[t].task[2])
    /\ thread' = [thread EXCEPT ![t] = IdleThread]
    /\ UNCHANGED <<provider, failure, dispatcher, ssqueue, manager, puller, creation, scanned>>

-----------------------------------------------------------------------------
(* The task creator's workers and the scan operator they ask *)

\* get_next_task_hint is READY unless the connector is closed and drained.
BeginPull(w) ==
    \E s \in OfQuery(manager.query) :
        /\ manager.pc = "query" /\ puller[w].pc = "idle"
        /\ scanned[s].outcome = "none" /\ ~scanned[s].error
        /\ ~is_closed(connector[s])
        /\ puller' = [puller EXCEPT ![w] = [pc |-> "check", scan |-> s]]
        /\ UNCHANGED <<connector, provider, holders, failure, dispatcher, ssqueue, thread,
                       manager, creation, scanned>>

\* The worker's loop: while the ports are not empty, take the creation lock.
CheckPorts(w) ==
    LET s == puller[w].scan IN
    /\ puller[w].pc = "check"
    /\ \/ /\ is_closed(connector[s])
          /\ puller' = [puller EXCEPT ![w] = [pc |-> "idle", scan |-> 0]]
          /\ creation' = creation
       \/ /\ ~is_closed(connector[s]) /\ creation[s] = {}
          /\ puller' = [puller EXCEPT ![w].pc = "take"]
          /\ creation' = [creation EXCEPT ![s] = {w}]
    /\ UNCHANGED <<connector, provider, holders, failure, dispatcher, ssqueue, thread,
                   manager, scanned>>

\* get_next_split blocks until there is a split or the connector is closed;
\* a recorded exception is thrown and ends the query.
TakeSplit(w) ==
    LET s == puller[w].scan   c == connector[s] IN
    /\ puller[w].pc = "take" /\ (c.splits # <<>> \/ c.closed)
    /\ creation' = [creation EXCEPT ![s] = {}]
    /\ \/ /\ c.exc
          /\ scanned' = [scanned EXCEPT ![s].error = TRUE]
          /\ puller' = [puller EXCEPT ![w] = [pc |-> "idle", scan |-> 0]]
          /\ connector' = connector
       \/ /\ ~c.exc /\ c.splits # <<>>
          /\ connector' = [connector EXCEPT ![s].splits = Tail(@)]
          /\ scanned' = [scanned EXCEPT ![s].taken = @ \cup {Head(c.splits)}]
          /\ puller' = [puller EXCEPT ![w].pc = "check"]
       \/ /\ ~c.exc /\ c.splits = <<>>
          /\ puller' = [puller EXCEPT ![w] = [pc |-> "idle", scan |-> 0]]
          /\ UNCHANGED <<connector, scanned>>
    /\ UNCHANGED <<provider, holders, failure, dispatcher, ssqueue, thread, manager>>

\* A scan's pipeline is finished once its connector is closed and drained.
FinishScan(s) ==
    /\ manager.pc = "query" /\ s \in OfQuery(manager.query)
    /\ scanned[s].outcome = "none" /\ ~scanned[s].error
    /\ is_closed(connector[s])
    /\ scanned' = [scanned EXCEPT ![s].outcome = "finished"]
    /\ UNCHANGED <<connector, provider, holders, failure, dispatcher, ssqueue, thread,
                   manager, puller, creation>>

\* The query ends when every scan has, or after an error.  The task creator's
\* workers have been waited for.
\* query_.reset() destroys the operators and their connectors.
ScansFinished(q) == \A s \in OfQuery(q) : scanned[s].outcome = "finished"
ScanQueryEnd ==
    LET q == manager.query IN
    /\ manager.pc = "query"
    /\ \A w \in PullWorkers : puller[w].pc = "idle"
    /\ ScansFinished(q) \/ \E s \in OfQuery(q) : scanned[s].error
    /\ connector' = [s \in ScanIds |-> IF s \in OfQuery(q)
                                       THEN [connector[s] EXCEPT !.alive = FALSE]
                                       ELSE connector[s]]
    /\ scanned' = [s \in ScanIds |->
          IF s \in OfQuery(q) /\ ~ScansFinished(q) THEN [scanned[s] EXCEPT !.outcome = "ended"]
          ELSE scanned[s]]
    /\ manager' = [manager EXCEPT !.pc = "end_stop"]
    /\ UNCHANGED <<provider, holders, failure, dispatcher, ssqueue, thread, puller, creation>>

-----------------------------------------------------------------------------
ThreadStep(t) == PoolTake(t) \/ BeginTask(t) \/ PushSplit(t) \/ OnTaskDone(t) \/ DropTask(t)
PullerStep(w) == CheckPorts(w) \/ TakeSplit(w)
ManagerStep == RequestStop \/ WaitForAll \/ Install \/ CreateState \/ EnqueueBatch \/ RunReturns

SsNext ==
    \/ StartQuery \/ ManagerStep \/ ScanQueryEnd
    \/ \E t \in PoolThreads : ThreadStep(t)
    \/ \E w \in PullWorkers : BeginPull(w) \/ PullerStep(w)
    \/ \E s \in ScanIds : FinishScan(s)

\* The pool's threads, the query thread and the workers are operating system
\* threads; a ready scan is eventually asked for and a drained one noticed.
SsFairness ==
    /\ \A t \in PoolThreads : WF_ssvars(ThreadStep(t))
    /\ \A w \in PullWorkers : SF_ssvars(PullerStep(w)) /\ WF_ssvars(BeginPull(w))
    /\ WF_ssvars(ManagerStep)
    /\ \A s \in ScanIds : WF_ssvars(FinishScan(s))

SsSpec == SsInit /\ [][SsNext]_ssvars
SsFairSpec == SsSpec /\ SsFairness

-----------------------------------------------------------------------------
SsTypeOK ==
    /\ \A s \in ScanIds :
          /\ connector[s].splits \in Seq(Splits)
          /\ provider[s] \in 0 .. ScanBatches
          /\ holders[s] \subseteq Batches \cup {RunHolder}
          /\ scanned[s].taken \subseteq Splits
          /\ creation[s] \subseteq PullWorkers
    /\ dispatcher.inflight \in 0 .. MaxInflight
    /\ dispatcher.pending \in Seq(SplitTasks) /\ ssqueue \in Seq(SplitTasks)

\* split_connector asserts that nothing is pushed after close(): whatever the
\* order in which run, the dispatcher and the pool let go of a worker_state,
\* the connector of a running query is closed only when nobody can push.
ClosedMeansNoPusher ==
    \A s \in ScanIds : connector[s].closed /\ connector[s].alive =>
        \A t \in PoolThreads : thread[t].pc = "push" => thread[t].task[1] # s

\* A scan that finishes and of whose batches none failed has handed out every
\* split of every batch: no close overtakes a batch still queued, pending or
\* running, and no worker leaves while there is more to take.
AllSplitsScanned ==
    \A s \in ScanIds :
        scanned[s].outcome = "finished" /\ ~failure[s] => scanned[s].taken = Splits

\* wait_for_all returns only when no task body runs, so that dropping the
\* providers, whose this pointer the bodies use, is safe.
ProvidersOutliveBodies ==
    manager.pc \in {"install", "idle"} =>
        \A t \in PoolThreads : thread[t].pc \notin {"begin", "push", "done"}

\* inflight_ counts exactly the tasks handed to the pool and not done, over
\* stops, hand-overs and new dispatchers, and stays within the limit.
InflightExact ==
    /\ dispatcher.inflight <= MaxInflight
    /\ Len(ssqueue) + Cardinality({t \in PoolThreads : thread[t].pc \in {"begin", "push", "done"}})
            = dispatcher.inflight

\* A batch is claimed once and runs once, so that no split is queued on a
\* connector twice or again after the operator has taken it.
SplitsUnique ==
    \A s \in ScanIds :
        /\ IsInjective(connector[s].splits)
        /\ Range(connector[s].splits) \cap scanned[s].taken = {}

\* A worker parked in get_next_split is woken: the provider closes the
\* connector on every termination path, so every query ends.
ScansEnd == \A q \in 1 .. Len(QueryScans) :
    (manager.pc = "query" /\ manager.query = q) ~>
        (\/ \A s \in OfQuery(q) : scanned[s].outcome = "finished"
         \/ \E s \in OfQuery(q) : scanned[s].error)

\* The providers, the dispatcher, the pool and the connectors together implement
\* the stream of splits that module SplitStream specifies: every split at most
\* once, all of them before a stream ends that no failure broke, none after.
Stream == INSTANCE SplitStream WITH
    Streams <- ScanIds,
    AllSplits <- Splits,
    delivered <- [s \in ScanIds |-> scanned[s].taken],
    broken <- failure,
    ended <- [s \in ScanIds |-> scanned[s].outcome # "none"]

ImplementsStream == Stream!StSpec

\* "any captured exception is forwarded so consumers see the failure through
\* split_connector::get_next_split": a scan one of whose batches failed is
\* not reported as finished.
FailureSeen == \A s \in ScanIds : scanned[s].outcome = "finished" => ~failure[s]

\* A worker_state refers to its connector, and the operator that owns the
\* connector is still there when the reference is used.
ConnectorOutlivesProvider == \A s \in ScanIds : connector[s].alive \/ holders[s] = {}

\* Split providers, their workers and the dispatcher together: no split is pushed
\* after a connector is closed, every split is scanned when the scan ends in
\* success, providers outlive the bodies that use them, and the dispatcher's
\* in-flight count is the number of bodies under way; and no split is handed
\* out twice.
DispatchSound ==
    /\ SplitsUnique
    /\ ClosedMeansNoPusher
    /\ AllSplitsScanned
    /\ ProvidersOutliveBodies
    /\ InflightExact

=============================================================================
