--------------------------- MODULE CreatorProofs ---------------------------
(***************************************************************************)
(* Proofs about CreatorLifecycle, for any number of workers, pool threads, *)
(* queries and faults: what one query hands over to the next when it ends, *)
(* whether it completes, fails in a worker, fails in a creation lambda, or *)
(* is stopped (creator/task_creator.cpp, pipeline/task_scheduler.cpp,      *)
(* include/pipeline/completion_handler.hpp).                               *)
(*                                                                         *)
(* HandOverSound speaks of the operators a lambda works on, of the state   *)
(* between two queries and of the completion handler. None of the three is *)
(* inductive. ClInv adds where each kind of thread can be, who holds       *)
(* _global_state_mutex, that a thread between stop() and the return of     *)
(* wait_all() keeps the creator stopped, that every request in the queue   *)
(* belongs to the query that runs, what the engine's position in quiesce   *)
(* says about the creator and the executor, and that one thread at a time  *)
(* sets the result of the handler.                                         *)
(*                                                                         *)
(* The last part is about ContextStartup (sirius_context.cpp), for any     *)
(* configuration and any step of initialize() that throws: the order in    *)
(* which the members of the context, the task creator and the executors    *)
(* among them, are built and destroyed.                                    *)
(***************************************************************************)
EXTENDS CreatorLifecycle, ContextStartup, FiniteSetTheorems, TLAPS

\* The first element and the rest of a queue that is not empty.
LEMMA RestOfSeq ==
  ASSUME NEW S, NEW s \in Seq(S), s # <<>>
  PROVE  /\ Head(s) \in S /\ Head(s) = s[1]
         /\ Tail(s) \in Seq(S) /\ Len(Tail(s)) = Len(s) - 1
         /\ \A i \in 1 .. Len(Tail(s)) : Tail(s)[i] = s[i + 1]
OBVIOUS

\* One queue behind another.
LEMMA JoinedSeq ==
  ASSUME NEW S, NEW s \in Seq(S), NEW t \in Seq(S)
  PROVE  /\ s \o t \in Seq(S) /\ Len(s \o t) = Len(s) + Len(t)
         /\ \A i \in 1 .. Len(s) + Len(t) :
               (s \o t)[i] = IF i <= Len(s) THEN s[i] ELSE t[i - Len(s)]
OBVIOUS

\* Where a thread holds _global_state_mutex: in drain() and in stop().
Locking == {"drain_wait", "join", "wait_all"}

\* In stop(), between the first assignment of _running and the return.
Stopping == {"join", "wait_all"}

\* Between the exchange of `completed` and the promise of the completion handler.
Setting == {"report_error", "report_future", "mark_future"}
Reporting == {"report", "report_error", "report_future"}

\* What stop() leaves behind: no manager, no pool, no lambda, nobody inside stop().
CreatorDown ==
  /\ ~clrunning /\ clmanager.at = "exited" /\ ~clpool.up
  /\ \A l \in ClSlots : clpc[l] = "idle"
  /\ \A t \in ClThreads : clpc[t] \notin Stopping

\* The records and functions have the fields and the domains they are declared with.
ClShapes ==
  /\ clpool = [up |-> clpool.up, interrupted |-> clpool.interrupted]
  /\ clbody = [l \in ClSlots |-> clbody[l]]
  /\ clexec = [up |-> clexec.up, open |-> clexec.open, tasks |-> clexec.tasks]
  /\ clhandler = [completed |-> clhandler.completed, has_error |-> clhandler.has_error,
                  promise |-> clhandler.promise]
  /\ clpc = [t \in ClThreads |-> clpc[t]] /\ clthen = [t \in ClThreads |-> clthen[t]]

\* Where a worker may be, with the place each procedure it called returns to.
WorkerAt(pc, then) ==
  \/ pc \in {"idle", "execute", "finished", "push", "failed", "mark", "mark_future"}
  \/ pc \in {"stop", "join", "wait_all"} /\ then = "failed"
  \/ pc \in {"drain", "drain_wait"} /\ then = "mark"
  \/ pc \in Reporting /\ then = "idle"

\* ... a thread of the creator's pool,
LambdaAt(pc, then) ==
  \/ pc \in {"idle", "create", "halt", "halt_wait"}
  \/ pc \in Reporting /\ then = "halt"
  \/ pc \in {"stop", "join", "wait_all"} /\ then = "idle"

\* ... and the thread that executes queries.
EngineAt(pc, then) ==
  \/ pc \in {"unborn", "idle", "running", "quiesce", "quiesced", "restart"}
  \/ pc \in {"stop_thread_pool", "join", "wait_all"} /\ then = "quiesce"
  \/ pc \in {"drain", "drain_wait"} /\ then = "restart"
  \/ pc = "start" /\ then = "idle"

\* Every thread is where its code can be.
ControlInv ==
  /\ \A w \in ClWorkers : WorkerAt(clpc[w], clthen[w])
  /\ \A l \in ClSlots : LambdaAt(clpc[l], clthen[l])
  /\ EngineAt(clpc[Engine], clthen[Engine])

\* _global_state_mutex is held by the thread that is inside drain() or stop(), and by no
\* other.
MutexInv ==
  /\ \A t \in ClThreads : clpc[t] \in Locking => clmutex = t
  /\ clmutex # NoThread => clmutex \in ClThreads /\ clpc[clmutex] \in Locking

\* The creator runs, or is down, or a thread is taking it down; whoever waits for the pool
\* has joined the manager before.
StopInv ==
  /\ clrunning \/ CreatorDown \/ \E t \in ClThreads : clpc[t] \in Stopping
  /\ \A t \in ClThreads :
        /\ clpc[t] \in Stopping => ~clrunning
        /\ clpc[t] = "wait_all" => clmanager.at = "exited"

\* The steps of quiesce and of the start of the next query.
Quiescing == {"unborn", "quiesce", "quiesced", "drain", "drain_wait", "restart", "start"}

\* Every request, in the queue, in the manager's hands or in a lambda's, names the query
\* that runs: an operator of an earlier query is not touched.
RequestInv ==
  /\ clqueue \in Seq({clquery})
  /\ clmanager.at = "walk" => clmanager.req = clquery
  /\ \A l \in ClSlots : clpc[l] = "create" => clbody[l] = clquery

\* What the engine's position says: from quiesce to the next start the creator is down,
\* before a query starts the queue is empty and no task or worker is left, after quiesce()
\* the executor's queue is closed.
PhaseInv ==
  /\ clpc[Engine] \in Quiescing => CreatorDown
  /\ clpc[Engine] = "idle" => /\ clrunning /\ clopen /\ clmanager.at # "walk"
                              /\ \A l \in ClSlots : clpc[l] = "idle"
  /\ clpc[Engine] \in {"unborn", "drain", "drain_wait", "restart", "start", "idle"} =>
        clexec.tasks = 0 /\ \A w \in ClWorkers : clpc[w] = "idle"
  /\ clpc[Engine] \in {"unborn", "drain_wait", "restart", "start", "idle"} => clqueue = <<>>
  /\ clpc[Engine] = "quiesced" => ~clexec.open
  /\ clexec.up \/ \E l \in ClSlots : clpc[l] \notin {"idle", "create"}

\* The completion handler: the flag is set before the result, by one thread, and the
\* promise is set last.
HandlerInv ==
  /\ ~clhandler.completed => /\ ~clhandler.has_error /\ clhandler.promise = "none"
                             /\ \A t \in ClThreads : clpc[t] \notin Setting
  /\ \A t, u \in ClThreads : clpc[t] \in Setting /\ clpc[u] \in Setting => t = u
  /\ \A t \in ClThreads : clpc[t] \in Setting =>
        /\ clhandler.promise = "none"
        /\ clhandler.has_error <=> clpc[t] = "report_future"
  /\ FlagBeforeFuture

\* The inductive invariant.
ClInv == ClShapes /\ ControlInv /\ MutexInv /\ StopInv /\ RequestInv /\ PhaseInv /\ HandlerInv

\* Thread t goes to l and will return to r; nobody else moves.
PcMoves(t, l, r) ==
  /\ clpc' = [u \in ClThreads |-> clpc'[u]] /\ clthen' = [u \in ClThreads |-> clthen'[u]]
  /\ clpc'[t] = l /\ clthen'[t] = r
  /\ \A u \in ClThreads : u # t => clpc'[u] = clpc[u] /\ clthen'[u] = clthen[u]

\* The ways a thread moves in the model, as facts about its position alone.
LEMMA Moves ==
  ASSUME ClShapes, NEW t \in ClThreads, NEW l, NEW r
  PROVE  /\ Goto(t, l) /\ UNCHANGED clthen => PcMoves(t, l, clthen[t])
         /\ Call(t, l, r) => PcMoves(t, l, r)
         /\ Return(t) => PcMoves(t, clthen[t], clthen[t])
BY DEF ClShapes, Goto, Call, Return, PcMoves

\* A thread that goes to a place of its own kind leaves ControlInv true.
LEMMA ControlKept ==
  ASSUME ControlInv, NEW t \in ClThreads, NEW l, NEW r, PcMoves(t, l, r),
         t \in ClWorkers => WorkerAt(l, r),
         t \in ClSlots => LambdaAt(l, r),
         t = Engine => EngineAt(l, r)
  PROVE  ControlInv'
<1>1. ASSUME NEW u \in ClThreads
      PROVE  /\ u = t => clpc'[u] = l /\ clthen'[u] = r
             /\ u # t => clpc'[u] = clpc[u] /\ clthen'[u] = clthen[u]
  BY DEF PcMoves
<1>2. ASSUME NEW w \in ClWorkers PROVE WorkerAt(clpc'[w], clthen'[w])
  BY <1>1 DEF ControlInv, ClThreads
<1>3. ASSUME NEW x \in ClSlots PROVE LambdaAt(clpc'[x], clthen'[x])
  BY <1>1 DEF ControlInv, ClThreads
<1>4. EngineAt(clpc'[Engine], clthen'[Engine])
  BY <1>1 DEF ControlInv, ClThreads
<1> QED BY <1>2, <1>3, <1>4 DEF ControlInv

\* wait_all() returns when the pool counts nobody: then no lambda runs.
LEMMA NoneActive == clactive = 0 => \A l \in ClSlots : clpc[l] = "idle"
<1> DEFINE S == {l \in ClSlots : clpc[l] # "idle"}
<1>1. IsFiniteSet(S)
  BY CreatorAssumption, FS_Subset
<1>2. Cardinality(S) \in Nat /\ (Cardinality(S) = 0 <=> S = {})
  BY <1>1, FS_CardinalityType, FS_EmptySet
<1>3. clactive = Cardinality(S) + (IF clmanager.at \in {"pop", "walk"} THEN 1 ELSE 0)
  BY DEF clactive
<1> HIDE DEF S
<1>4. clactive = 0 => S = {}
  BY <1>2, <1>3
<1> QED BY <1>4 DEF S

\* A step that neither touches the handler nor enters its critical part leaves HandlerInv
\* true.
LEMMA HandlerKept ==
  ASSUME HandlerInv, UNCHANGED clhandler,
         NEW t \in ClThreads, NEW l, NEW r, PcMoves(t, l, r), l \notin Setting
  PROVE  HandlerInv'
<1>1. \A u \in ClThreads : clpc'[u] \in Setting => u # t /\ clpc'[u] = clpc[u]
  BY DEF PcMoves
<1> QED BY <1>1 DEF HandlerInv, FlagBeforeFuture

\* A creator that is down stays down while no lambda starts and nobody enters stop().
LEMMA DownKept ==
  ASSUME CreatorDown, UNCHANGED <<clrunning, clmanager, clpool>>,
         NEW t \in ClThreads, NEW l, NEW r, PcMoves(t, l, r),
         l \notin Stopping, t \in ClSlots => l = "idle"
  PROVE  CreatorDown'
BY DEF CreatorDown, PcMoves, ClThreads

\* Where no worker runs a task of a query.
Idling == {"unborn", "drain", "drain_wait", "restart", "start", "idle"}

\* A step of a worker outside stop() leaves PhaseInv true.
LEMMA WorkerPhase ==
  ASSUME PhaseInv, UNCHANGED <<clrunning, clmanager, clpool>>,
         clexec'.up = clexec.up, clexec'.open = clexec.open,
         NEW t \in ClWorkers, NEW l, NEW r, PcMoves(t, l, r),
         l \notin Stopping, clpc[Engine] \notin Idling
  PROVE  PhaseInv'
<1>1. t \in ClThreads /\ t # Engine /\ t \notin ClSlots
  BY CreatorAssumption DEF ClThreads
<1>2. clpc'[Engine] = clpc[Engine] /\ \A x \in ClSlots : clpc'[x] = clpc[x]
  BY <1>1 DEF PcMoves, ClThreads
<1>3. CreatorDown => CreatorDown'
  BY <1>1, DownKept
<1> QED BY <1>2, <1>3 DEF PhaseInv, Idling

\* drain_pending_tasks() takes the mutex, closes the queue and empties it.
LEMMA DrainLockKeeps ==
  ASSUME ClInv, NEW t \in ClThreads, DrainLock(t)
  PROVE  ClInv'
<1> USE CreatorAssumption DEF ClThreads, ClInv
<1>1. PcMoves(t, "drain_wait", clthen[t])
  BY Moves DEF DrainLock
<1>control. ControlInv'
  BY <1>1, ControlKept DEF DrainLock, ControlInv, WorkerAt, LambdaAt, EngineAt, Reporting
<1>shapes. ClShapes'
  BY <1>1 DEF DrainLock, ClShapes, PcMoves
<1>mutex. MutexInv'
  BY <1>1 DEF DrainLock, MutexInv, Locking, ControlInv, WorkerAt, LambdaAt, EngineAt, Reporting, PcMoves
<1>stop. StopInv'
  BY <1>1 DEF DrainLock, StopInv, CreatorDown, MutexInv, ControlInv, WorkerAt, LambdaAt, EngineAt,
     Reporting, Locking, Stopping, PcMoves, clactive
<1>request. RequestInv'
  BY <1>1 DEF DrainLock, RequestInv, PcMoves, ControlInv, WorkerAt, LambdaAt, EngineAt, Reporting
<1>phase. PhaseInv'
  <2>1. t \notin ClSlots
    BY DEF DrainLock, ControlInv, LambdaAt, Reporting
  <2>2. CreatorDown => CreatorDown'
    BY <1>1, <2>1, DownKept DEF DrainLock, Stopping
  <2>3. CASE t = Engine
    <3>1. /\ clpc'[Engine] = "drain_wait" /\ \A x \in ClSlots : clpc'[x] = clpc[x]
          /\ \A w \in ClWorkers : clpc'[w] = clpc[w]
      BY <1>1, <2>3 DEF PcMoves
    <3> QED BY <2>2, <2>3, <3>1 DEF PhaseInv, DrainLock, Quiescing
  <2>4. CASE t \in ClWorkers
    <3>1. clpc[Engine] \notin Idling
      BY <2>4 DEF DrainLock, PhaseInv, Idling
    <3> QED BY <1>1, <2>4, <3>1, WorkerPhase DEF DrainLock, Stopping
  <2> QED BY <2>1, <2>3, <2>4
<1>handler. HandlerInv'
  BY <1>1, HandlerKept DEF DrainLock, Setting, ControlInv, WorkerAt, LambdaAt, EngineAt, Reporting
<1> QED BY <1>shapes, <1>mutex, <1>stop, <1>request, <1>phase, <1>handler, <1>control

\* It waits for the lambdas, reopens the queue and gives the mutex back.
LEMMA DrainWaitKeeps ==
  ASSUME ClInv, NEW t \in ClThreads, DrainWait(t)
  PROVE  ClInv'
<1> USE CreatorAssumption DEF ClThreads, ClInv
<1>1. PcMoves(t, clthen[t], clthen[t])
  BY Moves DEF DrainWait
<1>control. ControlInv'
  BY <1>1, ControlKept DEF DrainWait, ControlInv, WorkerAt, LambdaAt, EngineAt, Reporting
<1>shapes. ClShapes'
  BY <1>1 DEF DrainWait, ClShapes, PcMoves
<1>mutex. MutexInv'
  BY <1>1 DEF DrainWait, MutexInv, Locking, ControlInv, WorkerAt, LambdaAt, EngineAt, Reporting, PcMoves
<1>stop. StopInv'
  BY <1>1 DEF DrainWait, StopInv, CreatorDown, MutexInv, ControlInv, WorkerAt, LambdaAt, EngineAt,
     Reporting, Locking, Stopping, PcMoves, clactive
<1>request. RequestInv'
  BY <1>1 DEF DrainWait, RequestInv, PcMoves, ControlInv, WorkerAt, LambdaAt, EngineAt, Reporting
<1>phase. PhaseInv'
  <2>1. t \notin ClSlots
    BY DEF DrainWait, ControlInv, LambdaAt, Reporting
  <2>2. clthen[t] \in {"mark", "restart"} /\ (t = Engine => clthen[t] = "restart")
    BY <2>1 DEF DrainWait, ControlInv, WorkerAt, EngineAt, Reporting
  <2>3. CreatorDown => CreatorDown'
    BY <1>1, <2>1, <2>2, DownKept DEF DrainWait, Stopping
  <2>4. CASE t = Engine
    <3>1. /\ clpc'[Engine] = "restart" /\ \A x \in ClSlots : clpc'[x] = clpc[x]
          /\ \A w \in ClWorkers : clpc'[w] = clpc[w]
      BY <1>1, <2>2, <2>4 DEF PcMoves
    <3> QED BY <2>3, <2>4, <3>1 DEF PhaseInv, DrainWait, Quiescing
  <2>5. CASE t \in ClWorkers
    <3>1. clpc[Engine] \notin Idling
      BY <2>5 DEF DrainWait, PhaseInv, Idling
    <3> QED BY <1>1, <2>2, <2>5, <3>1, WorkerPhase DEF DrainWait, Stopping
  <2> QED BY <2>1, <2>4, <2>5
<1>handler. HandlerInv'
  BY <1>1, HandlerKept DEF DrainWait, Setting, ControlInv, WorkerAt, LambdaAt, EngineAt, Reporting
<1> QED BY <1>shapes, <1>mutex, <1>stop, <1>request, <1>phase, <1>handler, <1>control

\* stop() and stop_thread_pool() take the mutex, clear _running and interrupt the queue and
\* the pool, or return when the creator no longer runs.
LEMMA StopLockKeeps ==
  ASSUME ClInv, NEW t \in ClThreads, StopLock(t)
  PROVE  ClInv'
<1> USE CreatorAssumption DEF ClThreads, ClInv
<1>1. clrunning => PcMoves(t, "join", clthen[t])
  BY Moves DEF StopLock
<1>2. ~clrunning => PcMoves(t, clthen[t], clthen[t])
  BY Moves DEF StopLock
<1>control. ControlInv'
  BY <1>1, <1>2, ControlKept DEF StopLock, ControlInv, WorkerAt, LambdaAt, EngineAt, Reporting
<1>shapes. ClShapes'
  BY <1>1, <1>2 DEF StopLock, QueueAfterStop, ClShapes, PcMoves
<1>mutex. MutexInv'
  BY <1>1, <1>2 DEF StopLock, QueueAfterStop, MutexInv, Locking, ControlInv, WorkerAt, LambdaAt,
     EngineAt, Reporting, PcMoves
<1>stop. StopInv'
  BY <1>1, <1>2 DEF StopLock, QueueAfterStop, StopInv, CreatorDown, MutexInv, ControlInv, WorkerAt,
     LambdaAt, EngineAt, Reporting, Locking, Stopping, PcMoves, clactive
<1>request. RequestInv'
  BY <1>1, <1>2 DEF StopLock, QueueAfterStop, RequestInv, PcMoves, ControlInv, WorkerAt, LambdaAt,
     EngineAt, Reporting
<1>phase. PhaseInv'
  <2>1. \A u \in ClThreads : clpc[u] \notin Stopping
    BY DEF StopLock, MutexInv, Locking, Stopping
  <2>2. ~clrunning => CreatorDown
    BY <2>1 DEF StopInv
  <2>3. CASE clrunning
    <3>1. clpc[Engine] \notin Quiescing /\ clpc[Engine] # "idle"
      BY <2>3 DEF PhaseInv, CreatorDown, StopLock
    <3>2. clpc'[Engine] \notin Quiescing \cup Idling /\ clpc'[Engine] # "quiesced"
      BY <1>1, <2>3, <3>1 DEF PcMoves, Quiescing, Idling
    <3>3. \A x \in ClSlots : clpc[x] \notin {"idle", "create"} => clpc'[x] \notin {"idle", "create"}
      BY <1>1, <2>3 DEF PcMoves
    <3> QED BY <3>2, <3>3 DEF PhaseInv, Idling, StopLock
  <2>4. CASE ~clrunning
    <3>1. t \notin ClSlots
      BY <2>2, <2>4 DEF CreatorDown, StopLock
    <3>2. clthen[t] \in {"failed", "quiesce"} /\ (t = Engine => clthen[t] = "quiesce")
      BY <3>1 DEF StopLock, ControlInv, WorkerAt, EngineAt, Reporting
    <3>3. CreatorDown'
      BY <1>2, <2>2, <2>4, <3>1, <3>2, DownKept DEF StopLock, Stopping
    <3>4. \A x \in ClSlots : clpc'[x] = clpc[x]
      BY <1>2, <2>4, <3>1 DEF PcMoves
    <3>5. CASE t = Engine
      <4>1. clpc'[Engine] = "quiesce"
        BY <1>2, <2>4, <3>2, <3>5 DEF PcMoves
      <4> QED BY <3>3, <3>4, <4>1 DEF PhaseInv, StopLock
    <3>6. CASE t \in ClWorkers
      <4>1. clpc[Engine] \notin Idling /\ clpc'[Engine] = clpc[Engine]
        BY <1>2, <2>4, <3>6 DEF StopLock, PhaseInv, Idling, PcMoves
      <4> QED BY <3>3, <3>4, <4>1 DEF PhaseInv, StopLock, Idling
    <3> QED BY <3>1, <3>5, <3>6
  <2> QED BY <2>3, <2>4
<1>handler. HandlerInv'
  BY <1>1, <1>2, HandlerKept DEF StopLock, Setting, ControlInv, WorkerAt, LambdaAt, EngineAt, Reporting
<1> QED BY <1>shapes, <1>mutex, <1>stop, <1>request, <1>phase, <1>handler, <1>control

\* stop() joins the manager thread.
LEMMA StopJoinKeeps ==
  ASSUME ClInv, NEW t \in ClThreads, StopJoin(t)
  PROVE  ClInv'
<1> USE CreatorAssumption DEF ClThreads, ClInv
<1>1. PcMoves(t, "wait_all", clthen[t])
  BY Moves, SMTT(30), Zenon DEF StopJoin
<1>control. ControlInv'
  BY <1>1, ControlKept, SMTT(30) DEF StopJoin, ControlInv, WorkerAt, LambdaAt, EngineAt, Reporting
<1>shapes. ClShapes'
  BY <1>1 DEF StopJoin, creator, ClShapes, PcMoves
<1>mutex. MutexInv'
  BY <1>1 DEF StopJoin, creator, MutexInv, Locking, ControlInv, WorkerAt, LambdaAt, EngineAt, Reporting,
     PcMoves
<1>stop. StopInv'
  BY <1>1 DEF StopJoin, creator, StopInv, CreatorDown, MutexInv, ControlInv, WorkerAt, LambdaAt,
     EngineAt, Reporting, Locking, Stopping, PcMoves, clactive
<1>request. RequestInv'
  BY <1>1 DEF StopJoin, creator, RequestInv, PcMoves, ControlInv, WorkerAt, LambdaAt, EngineAt,
     Reporting
<1>phase. PhaseInv'
  BY <1>1, ZenonT(30) DEF StopJoin, creator, ClShapes, PhaseInv, CreatorDown, StopInv, MutexInv, ControlInv,
     WorkerAt, LambdaAt, EngineAt, Reporting, Locking, Stopping, Quiescing, PcMoves
<1>handler. HandlerInv'
  BY <1>1, HandlerKept DEF StopJoin, Setting, ControlInv, WorkerAt, LambdaAt, EngineAt, Reporting
<1> QED BY <1>shapes, <1>mutex, <1>stop, <1>request, <1>phase, <1>handler, <1>control

\* stop() waits for the lambdas and resets the pool.
LEMMA StopWaitKeeps ==
  ASSUME ClInv, NEW t \in ClThreads, StopWait(t)
  PROVE  ClInv'
<1> USE CreatorAssumption DEF ClThreads, ClInv
<1>1. PcMoves(t, clthen[t], clthen[t])
  BY Moves DEF StopWait
<1>control. ControlInv'
  BY <1>1, ControlKept DEF StopWait, ControlInv, WorkerAt, LambdaAt, EngineAt, Reporting
<1>shapes. ClShapes'
  BY <1>1, Zenon DEF StopWait, ClShapes, PcMoves
<1>mutex. MutexInv'
  BY <1>1 DEF StopWait, MutexInv, Locking, ControlInv, WorkerAt, LambdaAt, EngineAt, Reporting, PcMoves
<1>stop. StopInv'
  <2>1. \A l \in ClSlots : clpc[l] = "idle"
    BY NoneActive DEF StopWait
  <2>2. clmanager.at = "exited" /\ ~clrunning
    BY DEF StopWait, StopInv, Stopping
  <2>3. \A u \in ClThreads : clpc[u] \in Stopping => u = t
    BY DEF StopWait, MutexInv, Locking, Stopping
  <2>4. clthen[t] \notin Stopping
    BY DEF StopWait, ControlInv, WorkerAt, LambdaAt, EngineAt, Reporting, Stopping
  <2>5. \A u \in ClThreads : clpc'[u] \notin Stopping
    BY <1>1, <2>3, <2>4 DEF PcMoves
  <2>6. t \notin ClSlots
    BY <2>1 DEF StopWait
  <2>7. CreatorDown'
    BY <1>1, <2>1, <2>2, <2>5, <2>6, Zenon DEF StopWait, CreatorDown, PcMoves, ClShapes
  <2> QED BY <2>5, <2>7 DEF StopInv, Stopping
<1>request. RequestInv'
  BY <1>1 DEF StopWait, RequestInv, PcMoves, ControlInv, WorkerAt, LambdaAt, EngineAt, Reporting
<1>phase. PhaseInv'
  <2>1. CreatorDown' /\ t \notin ClSlots
    <3>1. \A l \in ClSlots : clpc[l] = "idle"
      BY NoneActive DEF StopWait
    <3>2. ~clrunning'
      BY DEF StopWait, StopInv, Stopping
    <3>3. \A u \in ClThreads : clpc'[u] \notin Stopping
      <4>1. \A u \in ClThreads : clpc[u] \in Stopping => u = t
        BY DEF StopWait, MutexInv, Locking, Stopping
      <4>2. clthen[t] \notin Stopping
        BY DEF StopWait, ControlInv, WorkerAt, LambdaAt, EngineAt, Reporting, Stopping
      <4> QED BY <1>1, <4>1, <4>2 DEF PcMoves
    <3> QED BY <1>stop, <3>1, <3>2, <3>3 DEF StopInv, StopWait
  <2>2. CASE t = Engine
    <3>1. clpc'[Engine] = "quiesce" /\ \A x \in ClSlots : clpc'[x] = clpc[x]
      BY <1>1, <2>2, SMTT(30) DEF PcMoves, StopWait, ControlInv, EngineAt
    <3> QED BY <2>1, <3>1 DEF PhaseInv, StopWait
  <2>3. CASE t \in ClWorkers
    <3>1. clpc'[Engine] = clpc[Engine] /\ \A x \in ClSlots : clpc'[x] = clpc[x]
      BY <1>1, <2>3, SMTT(30) DEF PcMoves
    <3>2. clpc[Engine] \notin Idling
      BY <2>3, SMTT(30) DEF StopWait, PhaseInv, Idling
    <3> QED BY <2>1, <3>1, <3>2, SMTT(30) DEF PhaseInv, StopWait, Idling
  <2> QED BY <2>1, <2>2, <2>3
<1>handler. HandlerInv'
  BY <1>1, HandlerKept, Zenon DEF StopWait, Setting, ControlInv, WorkerAt, LambdaAt, EngineAt, Reporting
<1> QED BY <1>shapes, <1>mutex, <1>stop, <1>request, <1>phase, <1>handler, <1>control

\* start_thread_pool() makes a pool and a manager.
LEMMA StartPoolKeeps ==
  ASSUME ClInv, NEW t \in ClThreads, StartPool(t)
  PROVE  ClInv'
<1> USE CreatorAssumption DEF ClThreads, ClInv
<1>1. PcMoves(t, clthen[t], clthen[t])
  BY Moves, SMTT(30) DEF StartPool
<1>control. ControlInv'
  BY <1>1, ControlKept, ZenonT(30) DEF StartPool, ControlInv, WorkerAt, LambdaAt, EngineAt, Reporting
<1>shapes. ClShapes'
  BY <1>1, SMTT(30) DEF StartPool, ClShapes, PcMoves
<1>mutex. MutexInv'
  BY <1>1, SMTT(30) DEF StartPool, MutexInv, Locking, ControlInv, WorkerAt, LambdaAt, EngineAt, Reporting, PcMoves
<1>stop. StopInv'
  BY <1>1 DEF StartPool, StopInv, CreatorDown, MutexInv, ControlInv, WorkerAt, LambdaAt, EngineAt,
     Reporting, Locking, Stopping, PcMoves, clactive
<1>request. RequestInv'
  BY <1>1, SMTT(30) DEF StartPool, RequestInv, PcMoves, ControlInv, WorkerAt, LambdaAt, EngineAt, Reporting
<1>phase. PhaseInv'
  <2>1. t = Engine /\ clthen[Engine] = "idle"
    BY DEF StartPool, ControlInv, WorkerAt, LambdaAt, EngineAt, Reporting
  <2>2. CreatorDown
    BY <2>1 DEF StartPool, PhaseInv, Quiescing
  <2>3. /\ clpc'[Engine] = "idle" /\ \A x \in ClSlots : clpc'[x] = clpc[x]
        /\ \A w \in ClWorkers : clpc'[w] = clpc[w]
    BY <1>1, <2>1 DEF PcMoves
  <2>4. clrunning' /\ clopen' /\ clmanager'.at # "walk"
    BY <2>2 DEF StartPool, CreatorDown
  <2> QED BY <2>1, <2>2, <2>3, <2>4, SMTT(30), Zenon DEF PhaseInv, StartPool, CreatorDown, Quiescing
<1>handler. HandlerInv'
  BY <1>1, HandlerKept DEF StartPool, Setting, ControlInv, WorkerAt, LambdaAt, EngineAt, Reporting
<1> QED BY <1>shapes, <1>mutex, <1>stop, <1>request, <1>phase, <1>handler, <1>control

\* A worker takes a task of the executor's queue.
LEMMA TakeTaskKeeps ==
  ASSUME ClInv, NEW t \in ClWorkers, TakeTask_(t)
  PROVE  ClInv'
<1> USE CreatorAssumption DEF ClThreads, ClInv
<1>1. PcMoves(t, "execute", clthen[t])
  BY Moves DEF TakeTask_
<1>control. ControlInv'
  BY <1>1, ControlKept DEF TakeTask_, ControlInv, WorkerAt, LambdaAt, EngineAt, Reporting
<1>shapes. ClShapes'
  BY <1>1 DEF TakeTask_, creator, ClShapes, PcMoves
<1>mutex. MutexInv'
  BY <1>1 DEF TakeTask_, creator, MutexInv, Locking, ControlInv, WorkerAt, LambdaAt, EngineAt,
     Reporting, PcMoves
<1>stop. StopInv'
  BY <1>1 DEF TakeTask_, creator, StopInv, CreatorDown, MutexInv, ControlInv, WorkerAt, LambdaAt,
     EngineAt, Reporting, Locking, Stopping, PcMoves, clactive
<1>request. RequestInv'
  BY <1>1 DEF TakeTask_, creator, RequestInv, PcMoves, ControlInv, WorkerAt, LambdaAt, EngineAt,
     Reporting
<1>busy. clpc[Engine] \notin Idling
  BY DEF TakeTask_, PhaseInv, Idling
<1>phase. PhaseInv'
  BY <1>1, <1>busy, WorkerPhase, Zenon DEF TakeTask_, creator, Stopping, ClShapes
<1>handler. HandlerInv'
  BY <1>1, HandlerKept DEF TakeTask_, Setting, ControlInv, WorkerAt, LambdaAt, EngineAt, Reporting
<1> QED BY <1>shapes, <1>mutex, <1>stop, <1>request, <1>phase, <1>handler, <1>control

\* A worker has executed its task.
LEMMA ExecutedKeeps ==
  ASSUME ClInv, NEW t \in ClWorkers, Executed(t)
  PROVE  ClInv'
<1> USE CreatorAssumption DEF ClThreads, ClInv
<1>1. PcMoves(t, "finished", clthen[t])
  BY Moves DEF Executed
<1>control. ControlInv'
  BY <1>1, ControlKept DEF Executed, ControlInv, WorkerAt, LambdaAt, EngineAt, Reporting
<1>shapes. ClShapes'
  BY <1>1 DEF Executed, creator, ClShapes, PcMoves
<1>mutex. MutexInv'
  BY <1>1 DEF Executed, creator, MutexInv, Locking, ControlInv, WorkerAt, LambdaAt, EngineAt, Reporting,
     PcMoves
<1>stop. StopInv'
  BY <1>1 DEF Executed, creator, StopInv, CreatorDown, MutexInv, ControlInv, WorkerAt, LambdaAt,
     EngineAt, Reporting, Locking, Stopping, PcMoves, clactive
<1>request. RequestInv'
  BY <1>1 DEF Executed, creator, RequestInv, PcMoves, ControlInv, WorkerAt, LambdaAt, EngineAt,
     Reporting
<1>busy. clpc[Engine] \notin Idling
  BY DEF Executed, PhaseInv, Idling
<1>phase. PhaseInv'
  BY <1>1, <1>busy, WorkerPhase DEF Executed, creator, Stopping, ClShapes
<1>handler. HandlerInv'
  BY <1>1, HandlerKept DEF Executed, Setting, ControlInv, WorkerAt, LambdaAt, EngineAt, Reporting
<1> QED BY <1>shapes, <1>mutex, <1>stop, <1>request, <1>phase, <1>handler, <1>control

\* A task throws.
LEMMA ExecuteThrowsKeeps ==
  ASSUME ClInv, NEW t \in ClWorkers, ExecuteThrows(t)
  PROVE  ClInv'
<1> USE CreatorAssumption DEF ClThreads, ClInv
<1>1. PcMoves(t, "stop", "failed")
  BY Moves DEF ExecuteThrows
<1>control. ControlInv'
  BY <1>1, ControlKept DEF ExecuteThrows, ControlInv, WorkerAt, LambdaAt, EngineAt, Reporting
<1>shapes. ClShapes'
  BY <1>1 DEF ExecuteThrows, creator, ClShapes, PcMoves
<1>mutex. MutexInv'
  BY <1>1 DEF ExecuteThrows, creator, MutexInv, Locking, ControlInv, WorkerAt, LambdaAt, EngineAt,
     Reporting, PcMoves
<1>stop. StopInv'
  BY <1>1 DEF ExecuteThrows, creator, StopInv, CreatorDown, MutexInv, ControlInv, WorkerAt, LambdaAt,
     EngineAt, Reporting, Locking, Stopping, PcMoves, clactive
<1>request. RequestInv'
  BY <1>1 DEF ExecuteThrows, creator, RequestInv, PcMoves, ControlInv, WorkerAt, LambdaAt, EngineAt,
     Reporting
<1>busy. clpc[Engine] \notin Idling
  BY DEF ExecuteThrows, PhaseInv, Idling
<1>phase. PhaseInv'
  BY <1>1, <1>busy, WorkerPhase DEF ExecuteThrows, creator, Stopping, ClShapes
<1>handler. HandlerInv'
  BY <1>1, HandlerKept, Zenon DEF ExecuteThrows, Setting, ControlInv, WorkerAt, LambdaAt, EngineAt, Reporting
<1> QED BY <1>shapes, <1>mutex, <1>stop, <1>request, <1>phase, <1>handler, <1>control

\* The worker that caught the exception has stopped the creator and reports the error.
LEMMA FailedKeeps ==
  ASSUME ClInv, NEW t \in ClWorkers, Failed(t)
  PROVE  ClInv'
<1> USE CreatorAssumption DEF ClThreads, ClInv
<1>1. PcMoves(t, "report", "idle")
  BY Moves, SMTT(30), Zenon DEF Failed
<1>control. ControlInv'
  BY <1>1, ControlKept DEF Failed, ControlInv, WorkerAt, LambdaAt, EngineAt, Reporting
<1>shapes. ClShapes'
  BY <1>1 DEF Failed, creator, ClShapes, PcMoves
<1>mutex. MutexInv'
  BY <1>1 DEF Failed, creator, MutexInv, Locking, ControlInv, WorkerAt, LambdaAt, EngineAt, Reporting,
     PcMoves
<1>stop. StopInv'
  BY <1>1 DEF Failed, creator, StopInv, CreatorDown, MutexInv, ControlInv, WorkerAt, LambdaAt, EngineAt,
     Reporting, Locking, Stopping, PcMoves, clactive
<1>request. RequestInv'
  BY <1>1 DEF Failed, creator, RequestInv, PcMoves, ControlInv, WorkerAt, LambdaAt, EngineAt, Reporting
<1>busy. clpc[Engine] \notin Idling
  BY DEF Failed, PhaseInv, Idling
<1>phase. PhaseInv'
  BY <1>1, <1>busy, WorkerPhase DEF Failed, creator, Stopping, ClShapes
<1>handler. HandlerInv'
  BY <1>1, HandlerKept DEF Failed, Setting, ControlInv, WorkerAt, LambdaAt, EngineAt, Reporting
<1> QED BY <1>shapes, <1>mutex, <1>stop, <1>request, <1>phase, <1>handler, <1>control

\* A task runs out of memory and goes back to the queue, unless the query has failed.
LEMMA ExecuteOomKeeps ==
  ASSUME ClInv, NEW t \in ClWorkers, ExecuteOom(t)
  PROVE  ClInv'
<1> USE CreatorAssumption DEF ClThreads, ClInv
<1>1. PcMoves(t, "idle", clthen[t])
  BY Moves DEF ExecuteOom
<1>control. ControlInv'
  BY <1>1, ControlKept DEF ExecuteOom, ControlInv, WorkerAt, LambdaAt, EngineAt, Reporting
<1>shapes. ClShapes'
  BY <1>1 DEF ExecuteOom, creator, ClShapes, PcMoves
<1>mutex. MutexInv'
  BY <1>1 DEF ExecuteOom, creator, MutexInv, Locking, ControlInv, WorkerAt, LambdaAt, EngineAt,
     Reporting, PcMoves
<1>stop. StopInv'
  BY <1>1 DEF ExecuteOom, creator, StopInv, CreatorDown, MutexInv, ControlInv, WorkerAt, LambdaAt,
     EngineAt, Reporting, Locking, Stopping, PcMoves, clactive
<1>request. RequestInv'
  BY <1>1 DEF ExecuteOom, creator, RequestInv, PcMoves, ControlInv, WorkerAt, LambdaAt, EngineAt,
     Reporting
<1>busy. clpc[Engine] \notin Idling
  BY DEF ExecuteOom, PhaseInv, Idling
<1>phase. PhaseInv'
  BY <1>1, <1>busy, WorkerPhase DEF ExecuteOom, creator, Stopping, ClShapes
<1>handler. HandlerInv'
  BY <1>1, HandlerKept, SMTT(30) DEF ExecuteOom, Setting, ControlInv, WorkerAt, LambdaAt, EngineAt, Reporting
<1> QED BY <1>shapes, <1>mutex, <1>stop, <1>request, <1>phase, <1>handler, <1>control

\* After the last task of a query the worker drains the requests and marks completion;
\* after another it schedules a consumer.
LEMMA FinishedKeeps ==
  ASSUME ClInv, NEW t \in ClWorkers, Finished_(t)
  PROVE  ClInv'
<1> USE CreatorAssumption DEF ClThreads, ClInv
<1>1. clwork.done = ClUnits => PcMoves(t, "drain", "mark")
  BY Moves DEF Finished_
<1>2. clwork.done # ClUnits => PcMoves(t, IF clopen THEN "push" ELSE "idle", clthen[t])
  BY Moves, SMTT(30), Zenon DEF Finished_
<1>control. ControlInv'
  BY <1>1, <1>2, ControlKept DEF Finished_, ControlInv, WorkerAt, LambdaAt, EngineAt, Reporting
<1>shapes. ClShapes'
  BY <1>1, <1>2 DEF Finished_, creator, ClShapes, PcMoves
<1>mutex. MutexInv'
  BY <1>1, <1>2 DEF Finished_, creator, MutexInv, Locking, ControlInv, WorkerAt, LambdaAt, EngineAt,
     Reporting, PcMoves
<1>stop. StopInv'
  BY <1>1, <1>2 DEF Finished_, creator, StopInv, CreatorDown, MutexInv, ControlInv, WorkerAt, LambdaAt,
     EngineAt, Reporting, Locking, Stopping, PcMoves, clactive
<1>request. RequestInv'
  BY <1>1, <1>2 DEF Finished_, creator, RequestInv, PcMoves, ControlInv, WorkerAt, LambdaAt, EngineAt,
     Reporting
<1>busy. clpc[Engine] \notin Idling
  BY DEF Finished_, PhaseInv, Idling
<1>phase. PhaseInv'
  BY <1>1, <1>2, <1>busy, WorkerPhase DEF Finished_, creator, Stopping, ClShapes
<1>handler. HandlerInv'
  BY <1>1, <1>2, HandlerKept, SMTT(30), Zenon DEF Finished_, Setting, ControlInv, WorkerAt, LambdaAt, EngineAt, Reporting
<1> QED BY <1>shapes, <1>mutex, <1>stop, <1>request, <1>phase, <1>handler, <1>control

\* push(): the request enters the queue, which may have been closed since it was looked at.
LEMMA EnqueueKeeps ==
  ASSUME ClInv, NEW t \in ClWorkers, Enqueue_(t)
  PROVE  ClInv'
<1> USE CreatorAssumption DEF ClThreads, ClInv
<1>1. PcMoves(t, "idle", clthen[t])
  BY Moves, Zenon DEF Enqueue_
<1>control. ControlInv'
  BY <1>1, ControlKept DEF Enqueue_, ControlInv, WorkerAt, LambdaAt, EngineAt, Reporting
<1>shapes. ClShapes'
  BY <1>1 DEF Enqueue_, ClShapes, PcMoves
<1>mutex. MutexInv'
  BY <1>1 DEF Enqueue_, MutexInv, Locking, ControlInv, WorkerAt, LambdaAt, EngineAt, Reporting, PcMoves
<1>stop. StopInv'
  BY <1>1 DEF Enqueue_, StopInv, CreatorDown, MutexInv, ControlInv, WorkerAt, LambdaAt, EngineAt,
     Reporting, Locking, Stopping, PcMoves, clactive
<1>request. RequestInv'
  BY <1>1 DEF Enqueue_, RequestInv, PcMoves, ControlInv, WorkerAt, LambdaAt, EngineAt, Reporting
<1>busy. clpc[Engine] \notin Idling
  BY DEF Enqueue_, PhaseInv, Idling
<1>phase. PhaseInv'
  BY <1>1, <1>busy, WorkerPhase, SMTT(30) DEF Enqueue_, Stopping, ClShapes
<1>handler. HandlerInv'
  BY <1>1, HandlerKept, SMTT(30) DEF Enqueue_, Setting, ControlInv, WorkerAt, LambdaAt, EngineAt, Reporting
<1> QED BY <1>shapes, <1>mutex, <1>stop, <1>request, <1>phase, <1>handler, <1>control

\* A creation lambda makes its task.
LEMMA LambdaCreateKeeps ==
  ASSUME ClInv, NEW t \in ClSlots, LambdaCreate(t)
  PROVE  ClInv'
<1> USE CreatorAssumption DEF ClThreads, ClInv
<1>1. PcMoves(t, "idle", clthen[t])
  BY Moves, SMTT(30) DEF LambdaCreate
<1>control. ControlInv'
  BY <1>1, ControlKept, SMTT(30) DEF LambdaCreate, ControlInv, WorkerAt, LambdaAt, EngineAt, Reporting
<1>shapes. ClShapes'
  BY <1>1 DEF LambdaCreate, creator, ClShapes, PcMoves
<1>mutex. MutexInv'
  BY <1>1, SMTT(30) DEF LambdaCreate, creator, MutexInv, Locking, ControlInv, WorkerAt, LambdaAt, EngineAt,
     Reporting, PcMoves
<1>stop. StopInv'
  BY <1>1 DEF LambdaCreate, creator, StopInv, CreatorDown, MutexInv, ControlInv, WorkerAt, LambdaAt,
     EngineAt, Reporting, Locking, Stopping, PcMoves, clactive
<1>request. RequestInv'
  BY <1>1, SMTT(30) DEF LambdaCreate, creator, RequestInv, PcMoves, ControlInv, WorkerAt, LambdaAt, EngineAt,
     Reporting
<1>phase. PhaseInv'
  BY <1>1, ZenonT(60) DEF LambdaCreate, creator, ClShapes, PhaseInv, CreatorDown, StopInv, MutexInv, ControlInv,
     WorkerAt, LambdaAt, EngineAt, Reporting, Locking, Stopping, Quiescing, PcMoves
<1>handler. HandlerInv'
  BY <1>1, HandlerKept DEF LambdaCreate, Setting, ControlInv, WorkerAt, LambdaAt, EngineAt, Reporting
<1> QED BY <1>shapes, <1>mutex, <1>stop, <1>request, <1>phase, <1>handler, <1>control

\* A creation lambda throws.
LEMMA LambdaThrowsKeeps ==
  ASSUME ClInv, NEW t \in ClSlots, LambdaThrows(t)
  PROVE  ClInv'
<1> USE CreatorAssumption DEF ClThreads, ClInv
<1>1. PcMoves(t, "report", "halt")
  BY Moves DEF LambdaThrows
<1>control. ControlInv'
  BY <1>1, ControlKept, SMTT(30) DEF LambdaThrows, ControlInv, WorkerAt, LambdaAt, EngineAt, Reporting
<1>shapes. ClShapes'
  BY <1>1 DEF LambdaThrows, creator, ClShapes, PcMoves
<1>mutex. MutexInv'
  BY <1>1 DEF LambdaThrows, creator, MutexInv, Locking, ControlInv, WorkerAt, LambdaAt, EngineAt,
     Reporting, PcMoves
<1>stop. StopInv'
  BY <1>1 DEF LambdaThrows, creator, StopInv, CreatorDown, MutexInv, ControlInv, WorkerAt, LambdaAt,
     EngineAt, Reporting, Locking, Stopping, PcMoves, clactive
<1>request. RequestInv'
  BY <1>1 DEF LambdaThrows, creator, RequestInv, PcMoves, ControlInv, WorkerAt, LambdaAt, EngineAt,
     Reporting
<1>phase. PhaseInv'
  BY <1>1, Zenon DEF LambdaThrows, creator, ClShapes, PhaseInv, CreatorDown, StopInv, MutexInv, ControlInv,
     WorkerAt, LambdaAt, EngineAt, Reporting, Locking, Stopping, Quiescing, PcMoves
<1>handler. HandlerInv'
  BY <1>1, HandlerKept DEF LambdaThrows, Setting, ControlInv, WorkerAt, LambdaAt, EngineAt, Reporting
<1> QED BY <1>shapes, <1>mutex, <1>stop, <1>request, <1>phase, <1>handler, <1>control

\* The lambda that reported an error stops the scheduler, and then the creator from inside
\* its own pool.
LEMMA HaltKeeps ==
  ASSUME ClInv, NEW t \in ClSlots, Halt(t)
  PROVE  ClInv'
<1> USE CreatorAssumption DEF ClThreads, ClInv
<1>1. clexec.up => PcMoves(t, "halt_wait", clthen[t])
  BY Moves DEF Halt
<1>2. ~clexec.up => PcMoves(t, "stop", "idle")
  BY Moves DEF Halt
<1>control. ControlInv'
  BY <1>1, <1>2, ControlKept DEF Halt, ControlInv, WorkerAt, LambdaAt, EngineAt, Reporting
<1>shapes. ClShapes'
  BY <1>1, <1>2, Zenon DEF Halt, creator, ClShapes, PcMoves
<1>mutex. MutexInv'
  BY <1>1, <1>2 DEF Halt, creator, MutexInv, Locking, ControlInv, WorkerAt, LambdaAt, EngineAt,
     Reporting, PcMoves
<1>stop. StopInv'
  BY <1>1, <1>2 DEF Halt, creator, StopInv, CreatorDown, MutexInv, ControlInv, WorkerAt, LambdaAt,
     EngineAt, Reporting, Locking, Stopping, PcMoves, clactive
<1>request. RequestInv'
  BY <1>1, <1>2 DEF Halt, creator, RequestInv, PcMoves, ControlInv, WorkerAt, LambdaAt, EngineAt,
     Reporting
<1>phase. PhaseInv'
  BY <1>1, <1>2, Zenon DEF Halt, creator, ClShapes, PhaseInv, CreatorDown, StopInv, MutexInv, ControlInv,
     WorkerAt, LambdaAt, EngineAt, Reporting, Locking, Stopping, Quiescing, PcMoves
<1>handler. HandlerInv'
  BY <1>1, <1>2, HandlerKept DEF Halt, Setting, ControlInv, WorkerAt, LambdaAt, EngineAt, Reporting
<1> QED BY <1>shapes, <1>mutex, <1>stop, <1>request, <1>phase, <1>handler, <1>control

\* It joins the executor's workers.
LEMMA HaltWaitKeeps ==
  ASSUME ClInv, NEW t \in ClSlots, HaltWait(t)
  PROVE  ClInv'
<1> USE CreatorAssumption DEF ClThreads, ClInv
<1>1. PcMoves(t, "stop", "idle")
  BY Moves, SMTT(30) DEF HaltWait
<1>control. ControlInv'
  BY <1>1, ControlKept, ZenonT(30) DEF HaltWait, ControlInv, WorkerAt, LambdaAt, EngineAt, Reporting
<1>shapes. ClShapes'
  BY <1>1 DEF HaltWait, creator, ClShapes, PcMoves
<1>mutex. MutexInv'
  BY <1>1 DEF HaltWait, creator, MutexInv, Locking, ControlInv, WorkerAt, LambdaAt, EngineAt, Reporting,
     PcMoves
<1>stop. StopInv'
  BY <1>1 DEF HaltWait, creator, StopInv, CreatorDown, MutexInv, ControlInv, WorkerAt, LambdaAt,
     EngineAt, Reporting, Locking, Stopping, PcMoves, clactive
<1>request. RequestInv'
  BY <1>1, SMTT(30) DEF HaltWait, creator, RequestInv, PcMoves, ControlInv, WorkerAt, LambdaAt, EngineAt,
     Reporting
<1>phase. PhaseInv'
  BY <1>1, ZenonT(30) DEF HaltWait, creator, ClShapes, PhaseInv, CreatorDown, StopInv, MutexInv, ControlInv,
     WorkerAt, LambdaAt, EngineAt, Reporting, Locking, Stopping, Quiescing, PcMoves
<1>handler. HandlerInv'
  BY <1>1, HandlerKept DEF HaltWait, Setting, ControlInv, WorkerAt, LambdaAt, EngineAt, Reporting
<1> QED BY <1>shapes, <1>mutex, <1>stop, <1>request, <1>phase, <1>handler, <1>control

\* initialize() starts the first pool.
LEMMA InitializeCreatorKeeps ==
  ASSUME ClInv, InitializeCreator
  PROVE  ClInv'
<1> USE CreatorAssumption DEF ClThreads, ClInv
<1>1. PcMoves(Engine, "start", "idle")
  BY Moves, SMTT(30) DEF InitializeCreator
<1>control. ControlInv'
  BY <1>1, ControlKept, Zenon DEF InitializeCreator, ControlInv, WorkerAt, LambdaAt, EngineAt, Reporting
<1>shapes. ClShapes'
  BY <1>1 DEF InitializeCreator, creator, ClShapes, PcMoves
<1>mutex. MutexInv'
  BY <1>1, SMTT(30) DEF InitializeCreator, creator, MutexInv, Locking, ControlInv, WorkerAt, LambdaAt, EngineAt,
     Reporting, PcMoves
<1>stop. StopInv'
  BY <1>1 DEF InitializeCreator, creator, StopInv, CreatorDown, MutexInv, ControlInv, WorkerAt,
     LambdaAt, EngineAt, Reporting, Locking, Stopping, PcMoves, clactive
<1>request. RequestInv'
  BY <1>1 DEF InitializeCreator, creator, RequestInv, PcMoves, ControlInv, WorkerAt, LambdaAt, EngineAt,
     Reporting
<1>phase. PhaseInv'
  <2>1. CreatorDown'
    BY <1>1, DownKept DEF InitializeCreator, creator, PhaseInv, Quiescing, Stopping
  <2>2. /\ clpc'[Engine] = "start" /\ \A x \in ClSlots : clpc'[x] = clpc[x]
        /\ \A w \in ClWorkers : clpc'[w] = clpc[w]
    BY <1>1 DEF PcMoves
  <2> QED BY <2>1, <2>2 DEF PhaseInv, InitializeCreator, creator, ClShapes
<1>handler. HandlerInv'
  BY <1>1, HandlerKept, SMTT(30), Zenon DEF InitializeCreator, Setting, ControlInv, WorkerAt, LambdaAt, EngineAt,
     Reporting
<1> QED BY <1>shapes, <1>mutex, <1>stop, <1>request, <1>phase, <1>handler, <1>control

\* A query starts: the requests for its first scans enter the queue.
LEMMA StartQueryKeeps ==
  ASSUME ClInv, StartQuery_
  PROVE  ClInv'
<1> USE CreatorAssumption DEF ClThreads, ClInv
<1>1. PcMoves(Engine, "running", clthen[Engine])
  BY Moves, SMTT(30), Zenon DEF StartQuery_
<1>control. ControlInv'
  BY <1>1, ControlKept DEF StartQuery_, ControlInv, WorkerAt, LambdaAt, EngineAt, Reporting
<1>shapes. ClShapes'
  BY <1>1 DEF StartQuery_, FreshHandler, ClShapes, PcMoves
<1>mutex. MutexInv'
  BY <1>1 DEF StartQuery_, FreshHandler, MutexInv, Locking, ControlInv, WorkerAt, LambdaAt, EngineAt,
     Reporting, PcMoves
<1>stop. StopInv'
  BY <1>1 DEF StartQuery_, StopInv, PhaseInv, PcMoves, Stopping
<1>request. RequestInv'
  <2>1. clqueue = <<>> /\ clmanager.at # "walk"
    BY DEF StartQuery_, PhaseInv
  <2>2. \A l \in ClSlots : clpc'[l] = "idle"
    BY <1>1 DEF StartQuery_, PhaseInv, PcMoves
  <2>3. clqueue' = <<>> \/ clqueue' = <<>> \o <<clquery', clquery'>>
    BY <2>1 DEF StartQuery_
  <2>4. clqueue' \in Seq({clquery'})
    <3>1. <<clquery', clquery'>> \in Seq({clquery'}) /\ <<>> \in Seq({clquery'})
      OBVIOUS
    <3> QED BY <2>3, <3>1, JoinedSeq, Zenon
  <2> QED BY <2>1, <2>2, <2>4 DEF StartQuery_, RequestInv
<1>phase. PhaseInv'
  BY <1>1 DEF StartQuery_, FreshHandler, ClShapes, PhaseInv, CreatorDown, StopInv, MutexInv, ControlInv,
     WorkerAt, LambdaAt, EngineAt, Reporting, Locking, Stopping, Quiescing, PcMoves
<1>handler. HandlerInv'
  <2>1. \A u \in ClThreads : clpc'[u] \in {"idle", "running"}
    BY <1>1, Zenon DEF StartQuery_, PhaseInv, PcMoves
  <2> QED BY <2>1 DEF StartQuery_, FreshHandler, HandlerInv, FlagBeforeFuture, Setting
<1> QED BY <1>shapes, <1>mutex, <1>stop, <1>request, <1>phase, <1>handler, <1>control

\* The caller of execute() wakes up and stops the creator.
LEMMA FutureReadyKeeps ==
  ASSUME ClInv, FutureReady_
  PROVE  ClInv'
<1> USE CreatorAssumption DEF ClThreads, ClInv
<1>1. PcMoves(Engine, "stop_thread_pool", "quiesce")
  BY Moves, SMTT(30) DEF FutureReady_
<1>control. ControlInv'
  BY <1>1, ControlKept, ZenonT(30) DEF FutureReady_, ControlInv, WorkerAt, LambdaAt, EngineAt, Reporting
<1>shapes. ClShapes'
  BY <1>1, SMTT(30) DEF FutureReady_, creator, ClShapes, PcMoves
<1>mutex. MutexInv'
  BY <1>1, SMTT(30) DEF FutureReady_, creator, MutexInv, Locking, ControlInv, WorkerAt, LambdaAt, EngineAt,
     Reporting, PcMoves
<1>stop. StopInv'
  BY <1>1, SMTT(30) DEF FutureReady_, creator, StopInv, CreatorDown, MutexInv, ControlInv, WorkerAt, LambdaAt,
     EngineAt, Reporting, Locking, Stopping, PcMoves, clactive
<1>request. RequestInv'
  BY <1>1 DEF FutureReady_, creator, RequestInv, PcMoves, ControlInv, WorkerAt, LambdaAt, EngineAt,
     Reporting
<1>phase. PhaseInv'
  BY <1>1, ZenonT(30) DEF FutureReady_, creator, ClShapes, PhaseInv, CreatorDown, StopInv, MutexInv, ControlInv,
     WorkerAt, LambdaAt, EngineAt, Reporting, Locking, Stopping, Quiescing, PcMoves
<1>handler. HandlerInv'
  BY <1>1, HandlerKept DEF FutureReady_, Setting, ControlInv, WorkerAt, LambdaAt, EngineAt, Reporting
<1> QED BY <1>shapes, <1>mutex, <1>stop, <1>request, <1>phase, <1>handler, <1>control

\* The executor's queue is closed;
LEMMA QuiesceKeeps ==
  ASSUME ClInv, Quiesce
  PROVE  ClInv'
<1> USE CreatorAssumption DEF ClThreads, ClInv
<1>1. PcMoves(Engine, "quiesced", clthen[Engine])
  BY Moves DEF Quiesce
<1>control. ControlInv'
  BY <1>1, ControlKept, SMTT(30) DEF Quiesce, ControlInv, WorkerAt, LambdaAt, EngineAt, Reporting
<1>shapes. ClShapes'
  BY <1>1, Zenon DEF Quiesce, creator, ClShapes, PcMoves
<1>mutex. MutexInv'
  BY <1>1 DEF Quiesce, creator, MutexInv, Locking, ControlInv, WorkerAt, LambdaAt, EngineAt, Reporting,
     PcMoves
<1>stop. StopInv'
  BY <1>1 DEF Quiesce, creator, StopInv, CreatorDown, MutexInv, ControlInv, WorkerAt, LambdaAt,
     EngineAt, Reporting, Locking, Stopping, PcMoves, clactive
<1>request. RequestInv'
  BY <1>1 DEF Quiesce, creator, RequestInv, PcMoves, ControlInv, WorkerAt, LambdaAt, EngineAt, Reporting
<1>phase. PhaseInv'
  <2>1. CreatorDown'
    BY <1>1, DownKept DEF Quiesce, creator, PhaseInv, Quiescing, Stopping
  <2>2. /\ clpc'[Engine] = "quiesced" /\ \A x \in ClSlots : clpc'[x] = clpc[x]
        /\ \A w \in ClWorkers : clpc'[w] = clpc[w]
    BY <1>1 DEF PcMoves
  <2> QED BY <2>1, <2>2 DEF PhaseInv, Quiesce, creator, ClShapes
<1>handler. HandlerInv'
  BY <1>1, HandlerKept DEF Quiesce, Setting, ControlInv, WorkerAt, LambdaAt, EngineAt, Reporting
<1> QED BY <1>shapes, <1>mutex, <1>stop, <1>request, <1>phase, <1>handler, <1>control

\* when its workers are idle it is emptied, and the requests are drained;
LEMMA QuiescedKeeps ==
  ASSUME ClInv, Quiesced_
  PROVE  ClInv'
<1> USE CreatorAssumption DEF ClThreads, ClInv
<1>1. PcMoves(Engine, "drain", "restart")
  BY Moves DEF Quiesced_
<1>control. ControlInv'
  BY <1>1, ControlKept DEF Quiesced_, ControlInv, WorkerAt, LambdaAt, EngineAt, Reporting
<1>shapes. ClShapes'
  BY <1>1, Zenon DEF Quiesced_, creator, StillBusy, ClShapes, PcMoves
<1>mutex. MutexInv'
  BY <1>1 DEF Quiesced_, creator, StillBusy, MutexInv, Locking, ControlInv, WorkerAt, LambdaAt,
     EngineAt, Reporting, PcMoves
<1>stop. StopInv'
  BY <1>1 DEF Quiesced_, creator, StillBusy, StopInv, CreatorDown, MutexInv, ControlInv, WorkerAt,
     LambdaAt, EngineAt, Reporting, Locking, Stopping, PcMoves, clactive
<1>request. RequestInv'
  BY <1>1 DEF Quiesced_, creator, StillBusy, RequestInv, PcMoves, ControlInv, WorkerAt, LambdaAt,
     EngineAt, Reporting
<1>phase. PhaseInv'
  <2>1. CreatorDown
    BY DEF Quiesced_, PhaseInv, Quiescing
  <2>2. CreatorDown'
    BY <1>1, <2>1, DownKept DEF Quiesced_, creator, Stopping
  <2>3. clexec.up /\ StillBusy = {}
    BY <2>1 DEF Quiesced_, PhaseInv, CreatorDown
  <2>4. /\ clpc'[Engine] = "drain" /\ \A x \in ClSlots : clpc'[x] = clpc[x]
        /\ \A w \in ClWorkers : clpc'[w] = clpc[w]
    BY <1>1 DEF PcMoves
  <2>5. \A w \in ClWorkers : clpc[w] = "idle"
    BY <2>3 DEF StillBusy
  <2> QED BY <2>2, <2>3, <2>4, <2>5 DEF PhaseInv, Quiesced_, ClShapes
<1>handler. HandlerInv'
  BY <1>1, HandlerKept, SMTT(30), Zenon DEF Quiesced_, Setting, ControlInv, WorkerAt, LambdaAt, EngineAt, Reporting
<1> QED BY <1>shapes, <1>mutex, <1>stop, <1>request, <1>phase, <1>handler, <1>control

\* the creator is started again.
LEMMA RestartKeeps ==
  ASSUME ClInv, Restart
  PROVE  ClInv'
<1> USE CreatorAssumption DEF ClThreads, ClInv
<1>1. PcMoves(Engine, "start", "idle")
  BY Moves, SMTT(30), Zenon DEF Restart
<1>control. ControlInv'
  BY <1>1, ControlKept DEF Restart, ControlInv, WorkerAt, LambdaAt, EngineAt, Reporting
<1>shapes. ClShapes'
  BY <1>1 DEF Restart, creator, ClShapes, PcMoves
<1>mutex. MutexInv'
  BY <1>1 DEF Restart, creator, MutexInv, Locking, ControlInv, WorkerAt, LambdaAt, EngineAt, Reporting,
     PcMoves
<1>stop. StopInv'
  BY <1>1 DEF Restart, creator, StopInv, CreatorDown, MutexInv, ControlInv, WorkerAt, LambdaAt,
     EngineAt, Reporting, Locking, Stopping, PcMoves, clactive
<1>request. RequestInv'
  BY <1>1 DEF Restart, creator, RequestInv, PcMoves, ControlInv, WorkerAt, LambdaAt, EngineAt, Reporting
<1>phase. PhaseInv'
  <2>1. CreatorDown'
    BY <1>1, DownKept, SMTT(30) DEF Restart, creator, PhaseInv, Quiescing, Stopping
  <2>2. /\ clpc'[Engine] = "start" /\ \A x \in ClSlots : clpc'[x] = clpc[x]
        /\ \A w \in ClWorkers : clpc'[w] = clpc[w]
    BY <1>1 DEF PcMoves
  <2> QED BY <2>1, <2>2 DEF PhaseInv, Restart, creator, ClShapes
<1>handler. HandlerInv'
  BY <1>1, HandlerKept DEF Restart, Setting, ControlInv, WorkerAt, LambdaAt, EngineAt, Reporting
<1> QED BY <1>shapes, <1>mutex, <1>stop, <1>request, <1>phase, <1>handler, <1>control

\* report_error() and mark_completed(), in their three steps each.
LEMMA SignalKeeps ==
  ASSUME ClInv, NEW t \in ClThreads, Signal(t)
  PROVE  ClInv'
<1> USE CreatorAssumption DEF ClInv
<1>1. PICK l : PcMoves(t, l, clthen[t]) /\ l \notin Locking \cup {"create"}
               /\ (t \in ClWorkers => WorkerAt(l, clthen[t])) /\ (t \in ClSlots => LambdaAt(l, clthen[t]) /\ l # "idle")
  <2>1. clpc[t] \in {"report", "report_error", "report_future", "mark", "mark_future"}
    BY DEF Signal, Report, Mark
  <2>2. t # Engine
    BY <2>1 DEF ControlInv, EngineAt
  <2>3. CASE clpc[t] = "report" \/ clpc[t] = "report_future"
    BY <2>2, <2>3, Moves DEF Signal, Report, Mark, ControlInv, WorkerAt, LambdaAt, Reporting, Locking,
       ClThreads
  <2>4. CASE clpc[t] = "report_error"
    BY <2>2, <2>4, Moves, Zenon DEF Signal, Report, Mark, ControlInv, WorkerAt, LambdaAt, Reporting, Locking,
       ClThreads
  <2>5. CASE clpc[t] = "mark" \/ clpc[t] = "mark_future"
    BY <2>2, <2>5, Moves DEF Signal, Report, Mark, ControlInv, WorkerAt, LambdaAt, Reporting, Locking,
       ClThreads
  <2> QED BY <2>1, <2>3, <2>4, <2>5
<1>2. t # Engine /\ clpc[t] \in Reporting \cup {"mark", "mark_future"}
  BY DEF Signal, Report, Mark, ControlInv, EngineAt, Reporting
<1>3. UNCHANGED <<creator, clbody, clexec, clquery>>
  BY DEF Signal
<1>control. ControlInv'
  BY <1>1, <1>2, ControlKept
<1>s. ClShapes'
  <2>1. clhandler' = [completed |-> clhandler'.completed, has_error |-> clhandler'.has_error,
                      promise |-> clhandler'.promise]
    BY DEF ClShapes, Signal, Report, Mark
  <2>2. clpool' = clpool /\ clbody' = clbody /\ clexec' = clexec
    BY <1>3 DEF creator
  <2> QED BY <1>1, <2>1, <2>2 DEF ClShapes, PcMoves
<1>m. MutexInv'
  BY <1>1, <1>2, <1>3 DEF MutexInv, PcMoves, Locking, Reporting, creator
<1>t. StopInv'
  <2>1. \A u \in ClThreads : clpc'[u] \in Stopping <=> clpc[u] \in Stopping
    BY <1>1, <1>2 DEF PcMoves, Locking, Stopping, Reporting
  <2>2. \A u \in ClThreads : clpc'[u] = "wait_all" <=> clpc[u] = "wait_all"
    BY <1>1, <1>2 DEF PcMoves, Locking, Reporting
  <2>3. CreatorDown => CreatorDown'
    <3>1. CreatorDown => t \notin ClSlots
      BY <1>2 DEF CreatorDown, Reporting
    <3> QED BY <1>1, <1>3, <3>1, DownKept DEF creator, Locking, Stopping
  <2> QED BY <1>3, <2>1, <2>2, <2>3 DEF StopInv, creator
<1>r. RequestInv'
  BY <1>1, <1>3 DEF RequestInv, PcMoves, creator, ClThreads
<1>p. PhaseInv'
  <2>1. CASE t \in ClWorkers
    <3>1. clpc[Engine] \notin Idling
      BY <1>2, <2>1, SMTT(30) DEF PhaseInv, Idling, Reporting
    <3> QED BY <1>1, <1>3, <2>1, <3>1, WorkerPhase DEF creator, Locking, Stopping
  <2>2. CASE t \in ClSlots
    <3>1. clpc'[Engine] = clpc[Engine] /\ \A x \in ClSlots : x # t => clpc'[x] = clpc[x]
      BY <1>1, <1>2 DEF PcMoves, ClThreads
    <3>2. clpc[t] # "idle" /\ clpc'[t] \notin {"idle", "create"}
      BY <1>1, <1>2, <2>2, SMTT(30) DEF PcMoves, Reporting
    <3>3. clpc[Engine] \notin Quiescing /\ clpc[Engine] # "idle"
      BY <2>2, <3>2 DEF PhaseInv, CreatorDown
    <3> QED BY <1>3, <2>2, <3>1, <3>2, <3>3, Zenon DEF PhaseInv, Quiescing, creator
  <2> QED BY <1>2, <2>1, <2>2, SMTT(30) DEF ClThreads
<1>h. HandlerInv'
  <2>1. ASSUME NEW u \in ClThreads, u # t PROVE clpc'[u] = clpc[u]
    BY <1>1, <2>1, SMTT(30) DEF PcMoves
  <2>2. clpc[t] \in Reporting => clthen[t] \notin Setting
    BY <1>2, SMTT(30) DEF ControlInv, WorkerAt, LambdaAt, Reporting, Setting, ClThreads
  <2>3. CASE clpc[t] = "report"
    <3>1. clpc'[t] = IF clhandler.completed THEN clthen[t] ELSE "report_error"
      BY <2>3, Moves, Zenon DEF Signal, Report, Mark, PcMoves
    <3>2. clhandler' = [clhandler EXCEPT !.completed = TRUE]
      BY <2>3 DEF Signal, Report, Mark
    <3>3. clhandler'.completed /\ clhandler'.has_error = clhandler.has_error /\ clhandler'.promise = clhandler.promise
      BY <3>2 DEF ClShapes
    <3> QED BY <2>1, <2>2, <2>3, <3>1, <3>3, ZenonT(30) DEF HandlerInv, FlagBeforeFuture, Setting, Reporting
  <2>4. CASE clpc[t] = "report_error"
    <3>1. clpc'[t] = "report_future"
      BY <2>4, Moves, ZenonT(30) DEF Signal, Report, Mark, PcMoves
    <3>2. clhandler' = [clhandler EXCEPT !.has_error = TRUE]
      BY <2>4 DEF Signal, Report, Mark
    <3>3. clhandler'.completed = clhandler.completed /\ clhandler'.has_error /\ clhandler'.promise = clhandler.promise
      BY <3>2 DEF ClShapes
    <3>4. clhandler.completed /\ clhandler.promise = "none" /\ \A u \in ClThreads : u # t => clpc[u] \notin Setting
      BY <2>4 DEF HandlerInv, Setting
    <3> QED BY <2>1, <2>4, <3>1, <3>3, <3>4 DEF HandlerInv, FlagBeforeFuture, Setting
  <2>5. CASE clpc[t] = "report_future" \/ clpc[t] = "mark_future"
    <3>1. clpc'[t] \notin Setting
      <4>1. CASE clpc[t] = "report_future"
        BY <2>2, <4>1, Moves DEF Signal, Report, Mark, PcMoves, Reporting
      <4>2. CASE clpc[t] = "mark_future"
        BY <4>2, Moves, SMTT(30), Zenon DEF Signal, Report, Mark, PcMoves, Setting
      <4> QED BY <2>5, <4>1, <4>2
    <3>2. clhandler' = [clhandler EXCEPT !.promise = IF clpc[t] = "report_future" THEN "error" ELSE "value"]
      BY <2>5 DEF Signal, Report, Mark
    <3>3. /\ clhandler'.completed = clhandler.completed /\ clhandler'.has_error = clhandler.has_error
          /\ clhandler'.promise = IF clpc[t] = "report_future" THEN "error" ELSE "value"
      BY <3>2 DEF ClShapes
    <3>4. /\ clhandler.completed /\ (clhandler.has_error <=> clpc[t] = "report_future")
          /\ \A u \in ClThreads : u # t => clpc[u] \notin Setting
      BY <2>5 DEF HandlerInv, Setting
    <3> QED BY <2>1, <2>5, <3>1, <3>3, <3>4, ZenonT(30) DEF HandlerInv, FlagBeforeFuture
  <2>6. CASE clpc[t] = "mark"
    <3>1. clpc'[t] = IF clhandler.completed THEN "idle" ELSE "mark_future"
      BY <2>6, Moves, Zenon DEF Signal, Report, Mark, PcMoves
    <3>2. clhandler' = [clhandler EXCEPT !.completed = TRUE]
      BY <2>6 DEF Signal, Report, Mark
    <3>3. clhandler'.completed /\ clhandler'.has_error = clhandler.has_error /\ clhandler'.promise = clhandler.promise
      BY <3>2 DEF ClShapes
    <3> QED BY <2>1, <2>6, <3>1, <3>3, ZenonT(30) DEF HandlerInv, FlagBeforeFuture, Setting
  <2> QED BY <1>2, <2>3, <2>4, <2>5, <2>6 DEF Reporting
<1> QED BY <1>control, <1>s, <1>m, <1>t, <1>r, <1>p, <1>h, SMTT(30)

\* The manager thread looks at _running, reserves a slot and pops a request, or exits.
LEMMA ManagerKeeps ==
  ASSUME ClInv, ManagerTurn \/ ManagerReserve_ \/ ManagerPop_
  PROVE  ClInv'
<1> USE DEF ClInv
<1>1. UNCHANGED <<clmutex, clrunning, clopen, clpool, clpc, clthen, clbody, clhandler, clexec, clquery>>
  BY SMTT(30) DEF ManagerTurn, ManagerReserve_, ManagerPop_
<1>2. clmanager.at # "exited" /\ ~CreatorDown
  BY ZenonT(30) DEF ManagerTurn, ManagerReserve_, ManagerPop_, CreatorDown
<1>3. ClShapes' /\ ControlInv' /\ MutexInv' /\ HandlerInv'
  BY <1>1, Zenon DEF ClShapes, ControlInv, MutexInv, HandlerInv, FlagBeforeFuture
<1>4. StopInv'
  BY <1>1, <1>2, SMTT(30) DEF StopInv
<1>5. clqueue' \in Seq({clquery}) /\ (clmanager'.at = "walk" => clmanager'.req = clquery /\ clqueue # <<>>)
  BY RestOfSeq, SMTT(30) DEF ManagerTurn, ManagerReserve_, ManagerPop_, Manager, RequestInv
<1>6. RequestInv'
  BY <1>1, <1>5 DEF RequestInv
<1>7. PhaseInv'
  <2>1. clqueue = <<>> => clqueue' = <<>> /\ clmanager'.at # "walk"
    BY DEF ManagerTurn, ManagerReserve_, ManagerPop_, Manager
  <2>2. clpc[Engine] \notin Quiescing
    BY <1>2, SMTT(30) DEF PhaseInv
  <2> QED BY <1>1, <2>1, <2>2 DEF PhaseInv, Quiescing
<1> QED BY <1>3, <1>4, <1>6, <1>7, SMTT(30)

\* The manager hands the operator it found to a thread of the pool, or has found none.
LEMMA DispatchKeeps ==
  ASSUME ClInv, ManagerDispatch
  PROVE  ClInv'
<1> USE CreatorAssumption DEF ClInv
<1>1. /\ UNCHANGED <<clmutex, clrunning, clopen, clqueue, clpool, clthen, clhandler, clexec, clquery>>
      /\ clmanager' = [at |-> "loop", req |-> 0]
  BY DEF ManagerDispatch, Manager
<1>2. clmanager.at = "walk" /\ clmanager.req = clquery /\ ~CreatorDown
  BY DEF ManagerDispatch, CreatorDown, RequestInv
<1>3. clpc[Engine] \notin Quiescing /\ clpc[Engine] # "idle"
  BY <1>2 DEF PhaseInv
<1>4. CASE UNCHANGED <<clpc, clbody>>
  <2>1. ClShapes' /\ ControlInv' /\ MutexInv' /\ HandlerInv'
    BY <1>1, <1>4, Zenon DEF ClShapes, ControlInv, MutexInv, HandlerInv, FlagBeforeFuture
  <2>2. StopInv'
    BY <1>1, <1>2, <1>4, SMTT(30) DEF StopInv
  <2>3. RequestInv' /\ PhaseInv'
    BY <1>1, <1>3, <1>4, Zenon DEF RequestInv, PhaseInv, Quiescing
  <2> QED BY <2>1, <2>2, <2>3, SMTT(30)
<1>5. ASSUME NEW l \in ClSlots, clpc[l] = "idle", Goto(l, "create"),
             clbody' = [clbody EXCEPT ![l] = clmanager.req]
      PROVE  ClInv'
  <2>1. l \in ClThreads /\ l # Engine /\ l \notin ClWorkers
    BY SMTT(30) DEF ClThreads
  <2>2. PcMoves(l, "create", clthen[l])
    BY <1>1, <1>5, <2>1, Moves, Zenon
  <2>3. ControlInv'
    BY <2>1, <2>2, ControlKept, Zenon DEF LambdaAt
  <2>4. HandlerInv'
    BY <1>1, <2>1, <2>2, HandlerKept, SMTT(30), Zenon DEF Setting
  <2>5. ClShapes'
    BY <1>1, <1>5, <2>2, Zenon DEF ClShapes, PcMoves
  <2>6. MutexInv'
    BY <1>1, <1>5, <2>2, Zenon DEF MutexInv, Locking, PcMoves
  <2>7. StopInv'
    BY <1>1, <1>2, <1>5, <2>1, <2>2, SMTT(30) DEF StopInv, Stopping, PcMoves
  <2>8. RequestInv'
    BY <1>1, <1>2, <1>5, <2>1, <2>2, ZenonT(30) DEF RequestInv, PcMoves, ClShapes, ClThreads
  <2>9. PhaseInv'
    BY <1>1, <1>3, <1>5, <2>1, <2>2, Zenon DEF PhaseInv, PcMoves, Quiescing, ClThreads
  <2> QED BY <2>3, <2>4, <2>5, <2>6, <2>7, <2>8, <2>9
<1> QED BY <1>4, <1>5, SMTT(30) DEF ManagerDispatch

\* The invariant holds before the creator is initialized.
LEMMA HandOverInit == ClInit => ClInv
<1> SUFFICES ASSUME ClInit PROVE ClInv
  BY Zenon
<1> USE CreatorAssumption DEF ClInit
<1>1. clpc[Engine] = "unborn" /\ \A t \in ClThreads : t # Engine => clpc[t] = "idle"
  BY Zenon DEF ClThreads
<1>2. ClShapes
  BY Zenon DEF ClShapes, FreshHandler
<1>3. ControlInv /\ MutexInv
  BY <1>1, Zenon DEF ControlInv, WorkerAt, LambdaAt, EngineAt, MutexInv, Locking, ClThreads
<1>4. CreatorDown
  BY <1>1, Zenon DEF CreatorDown, Stopping, ClThreads
<1>5. StopInv /\ RequestInv
  BY <1>1, <1>4 DEF StopInv, RequestInv, ClThreads, CreatorDown, Stopping
<1>6. PhaseInv
  BY <1>1, <1>4, Zenon DEF PhaseInv, ClThreads
<1>7. HandlerInv
  BY <1>1 DEF HandlerInv, FlagBeforeFuture, FreshHandler, Setting
<1> QED BY <1>2, <1>3, <1>5, <1>6, <1>7 DEF ClInv

\* The invariant implies what the run checks.
LEMMA HandOverFollows == ClInv => HandOverSound
<1> SUFFICES ASSUME ClInv PROVE HandOverSound
  BY Zenon
<1>1. OperatorsAlive
  BY DEF ClInv, RequestInv, PhaseInv, OperatorsAlive
<1>2. CleanHandOver
  BY DEF ClInv, PhaseInv, CleanHandOver, ClThreads
<1>3. FlagBeforeFuture
  BY DEF ClInv, HandlerInv
<1> QED BY <1>1, <1>2, <1>3 DEF HandOverSound

\* A creation lambda works only on operators of the query that runs; when a query starts,
\* nothing of the earlier one is left in the queue, the pool, the executor or the workers;
\* the error flag of the completion handler is set before its future is ready. For every
\* number of workers, pool threads, queries and failures (task_creator.cpp,
\* completion_handler.hpp).
THEOREM HandOverIsSound == ClSpec => []HandOverSound
<1>1. ClInv /\ [ClNext]_clvars => ClInv'
  <2> SUFFICES ASSUME ClInv, [ClNext]_clvars PROVE ClInv'
    BY SMTT(30)
  <2>1. CASE UNCHANGED clvars
    BY <2>1, ZenonT(30) DEF clvars, ClInv, ClShapes, ControlInv, MutexInv, StopInv, CreatorDown, RequestInv,
       PhaseInv, HandlerInv, FlagBeforeFuture
  <2>2. ASSUME NEW t \in ClThreads, Procedures(t) \/ DrainWait(t) PROVE ClInv'
    BY <2>2, DrainLockKeeps, DrainWaitKeeps, StopLockKeeps, StopJoinKeeps, StopWaitKeeps,
       StartPoolKeeps, SignalKeeps DEF Procedures
  <2>3. ASSUME NEW w \in ClWorkers, WorkerThread(w) PROVE ClInv'
    BY <2>3, TakeTaskKeeps, ExecutedKeeps, FailedKeeps, FinishedKeeps, EnqueueKeeps DEF WorkerThread
  <2>4. ASSUME NEW l \in ClSlots, LambdaThread(l) PROVE ClInv'
    BY <2>4, LambdaCreateKeeps, HaltKeeps, HaltWaitKeeps DEF LambdaThread
  <2>5. CASE ManagerThread
    BY <2>5, ManagerKeeps, DispatchKeeps DEF ManagerThread
  <2>6. CASE EngineThread \/ InitializeCreator \/ StartQuery_
    BY <2>6, FutureReadyKeeps, QuiesceKeeps, QuiescedKeeps, RestartKeeps, InitializeCreatorKeeps,
       StartQueryKeeps DEF EngineThread
  <2>7. CASE Faults
    BY <2>7, ExecuteThrowsKeeps, ExecuteOomKeeps, LambdaThrowsKeeps DEF Faults
  <2> QED BY <2>1, <2>2, <2>3, <2>4, <2>5, <2>6, <2>7 DEF ClNext
<1> QED BY <1>1, HandOverInit, HandOverFollows, PTL DEF ClSpec

-----------------------------------------------------------------------------
(*****************************************************************************)
(* Construction and destruction. The inductive invariant says which members  *)
(* are up: those the steps of initialize() have built, without those the     *)
(* steps of terminate(), or of the destruction after an exception, have      *)
(* taken down. Whether a member may be taken down is then a question about   *)
(* the order of the steps alone.                                             *)
(*****************************************************************************)
\* The steps taken when n of them are.
Done(steps, n) == {steps[i] : i \in 1 .. n}

\* The members that are up, when the first k steps of initialize() were done.
Up(k) ==
    (Done(InitSteps, k) \cap Members)
      \ (CASE stage = "terminating" -> Done(TerminateSteps, step)
           [] stage = "unwinding" -> Done(UnwindSteps, step)
           [] OTHER -> {})

\* Each member that is up owns what it built, the prefetching cache is there from step 14
\* on, and copies are in flight only after the last step.
Holds(k) ==
    /\ owns = [m \in Members |-> IF m \in Up(k) THEN Builds(m, config[1]) ELSE {}]
    /\ cached # {} => k >= 14 /\ cached = Caches(config[1])
    /\ copies => k = 15

\* The inductive invariant: at each stage, how far initialize() came, and when the copies
\* have been waited for.
SuInv ==
    /\ stage \in {"none", "building", "ready", "terminating", "unwinding"} /\ step \in Nat
    /\ stage = "none" => owns = [m \in Members |-> {}] /\ cached = {} /\ ~copies
    /\ stage = "building" => step \in 0 .. 15 /\ Holds(step) /\ ~copies
    /\ stage = "ready" => Holds(15)
    /\ stage = "terminating" => step \in 0 .. 16 /\ Holds(15) /\ (copies => step < 8)
    /\ stage = "unwinding" => step \in 0 .. 14 /\ ~copies /\ \E k \in 0 .. 15 : Holds(k)

\* The steps of initialize() up to the pinned allocator.
EarlySteps == {"telemetry", "memory", "numa", "gpu", "registry", "pinned"}

\* cuDF's pinned resource: Sirius's allocator from step 6 of initialize() to step 15 of
\* terminate().
CudfInv ==
    /\ stage \in {"none", "unwinding"} => cudf = "cudf"
    /\ stage = "building" => cudf = "cudf" \/ (cudf = "pinned" /\ step >= 6)
    /\ stage \in {"ready", "terminating"} => cudf \in {"cudf", "pinned"}
    /\ stage = "terminating" => (cudf = "pinned" => step < 15)
CsInv == SuInv /\ CudfInv

\* Taking one more step.
LEMMA DoneFacts ==
    ASSUME NEW steps, NEW n \in Nat
    PROVE  Done(steps, 0) = {} /\ Done(steps, n + 1) = Done(steps, n) \cup {steps[n + 1]}
<1>1. 1 .. n + 1 = (1 .. n) \cup {n + 1} /\ 1 .. 0 = {}
  OBVIOUS
<1> QED BY <1>1 DEF Done

\* The members, as a set,
LEMMA MembersAre ==
    Members = {"memory", "pool", "s3_pool", "s3", "gcs", "numa", "gpu", "registry", "pinned",
               "telemetry", "repos", "scheduler", "downgrade", "creator", "scans"}
<1>1. DOMAIN Declared = 1 .. 15
  BY DEF Declared
<1>2. 1 .. 15 = {1, 2, 3, 4, 5, 6, 7, 8, 9, 10, 11, 12, 13, 14, 15}
  OBVIOUS
<1> QED BY <1>1, <1>2 DEF Members, Declared

\* ... and the reverse order of their declaration.
LEMMA UnwindTable ==
    UnwindSteps = <<"scans", "creator", "downgrade", "scheduler", "repos", "telemetry", "pinned",
                    "registry", "gpu", "numa", "gcs", "s3", "s3_pool", "pool", "memory">>
  BY DEF UnwindSteps, Declared

\* The order of initialize(): the threads start last, and cuDF's resource is set at step 6.
LEMMA InitOrder ==
    /\ InitSteps[16] = "start"
    /\ \A i \in 1 .. 15 : InitSteps[i] \in Members /\ InitSteps[i] # "start"
    /\ \A i \in 1 .. 16 : /\ InitSteps[i] = "pool" => i = 14
                          /\ InitSteps[i] = "pinned" => i = 6
                          /\ InitSteps[i] \in EarlySteps => i <= 6
    /\ Members \subseteq Done(InitSteps, 15)
<1>1. 1 .. 15 = {1, 2, 3, 4, 5, 6, 7, 8, 9, 10, 11, 12, 13, 14, 15} /\ 1 .. 16 = 1 .. 15 \cup {16}
  OBVIOUS
<1>2. \A i \in 1 .. 15 : InitSteps[i] \in Members /\ InitSteps[i] # "start"
  BY <1>1, MembersAre DEF InitSteps
<1>3. InitSteps[16] = "start"
  BY DEF InitSteps
<1>4. \A i \in 1 .. 16 : /\ InitSteps[i] = "pool" => i = 14
                         /\ InitSteps[i] = "pinned" => i = 6
                         /\ InitSteps[i] \in EarlySteps => i <= 6
  BY <1>1 DEF InitSteps, EarlySteps
<1>5. Done(InitSteps, 15) = Members
  BY <1>1, MembersAre DEF InitSteps, Done
<1> QED BY <1>2, <1>3, <1>4, <1>5

\* The order of terminate(): the devices are synchronised at step 8 and cuDF's resource is
\* restored at step 15; every member is taken down.
LEMMA TerminateOrder ==
    /\ Len(TerminateSteps) = 17
    /\ \A i \in 1 .. 17 : /\ TerminateSteps[i] = "sync" <=> i = 8
                          /\ TerminateSteps[i] = "restore" <=> i = 15
    /\ Members \subseteq Done(TerminateSteps, 17)
<1>1. 1 .. 17 = {1, 2, 3, 4, 5, 6, 7, 8, 9, 10, 11, 12, 13, 14, 15, 16, 17}
  OBVIOUS
<1>2. Done(TerminateSteps, 17) = Members \cup {"sync", "restore"}
  BY <1>1, MembersAre DEF TerminateSteps, Done
<1>3. \A i \in 1 .. 17 : /\ TerminateSteps[i] = "sync" <=> i = 8
                         /\ TerminateSteps[i] = "restore" <=> i = 15
  BY <1>1 DEF TerminateSteps
<1> QED BY <1>2, <1>3 DEF TerminateSteps

\* The destruction of a context whose initialize() threw takes every member down.
LEMMA UnwindOrder ==
    /\ Len(UnwindSteps) = 15
    /\ \A i \in 1 .. 15 : UnwindSteps[i] # "sync"
    /\ Members \subseteq Done(UnwindSteps, 15)
<1>1. 1 .. 15 = {1, 2, 3, 4, 5, 6, 7, 8, 9, 10, 11, 12, 13, 14, 15}
  OBVIOUS
<1>2. Done(UnwindSteps, 15) = Members
  BY <1>1, MembersAre, UnwindTable DEF Done
<1>3. \A i \in 1 .. 15 : UnwindSteps[i] # "sync"
  BY <1>1, UnwindTable
<1> QED BY <1>2, <1>3, UnwindTable

\* The construction of a context keeps the invariant.
LEMMA StartKeeps ==
    ASSUME SuInv, Construct
    PROVE  SuInv'
<1>1. /\ stage = "none" /\ stage' = "building" /\ step' = 0 /\ UNCHANGED <<owns, cached, cudf, copies>>
      /\ owns = [m \in Members |-> {}] /\ cached = {} /\ ~copies
  BY DEF Construct, SuInv
<1>2. Up(0)' = {}
  BY <1>1, DoneFacts, Zenon DEF Up
<1>3. Holds(0)'
  <2> SUFFICES /\ owns = [m \in Members |-> IF m \in Up(0)' THEN Builds(m, config'[1]) ELSE {}]
               /\ cached = {} /\ ~copies
    BY <1>1 DEF Holds
  <2> QED BY <1>1, <1>2
<1> QED BY <1>1, <1>3 DEF SuInv

\* A step of initialize(), whether it succeeds, throws or starts the threads.
LEMMA InitializeKeeps ==
    ASSUME SuInv, initialize
    PROVE  SuInv'
<1>1. stage = "building" /\ step \in 0 .. 15 /\ Holds(step) /\ ~copies /\ config' = config
  BY DEF initialize, SuInv
<1>2. PICK k \in 0 .. 15 : k = step
  BY <1>1
<1>7. PICK m : m = InitSteps[step + 1]
  OBVIOUS
<1>3. CASE m = "start" /\ stage' = "ready" /\ copies' = TRUE /\ UNCHANGED <<step, owns, cached, cudf>>
  <2>1. k = 15
    <3>1. k = 15 \/ k + 1 \in 1 .. 15
      OBVIOUS
    <3> QED BY <1>2, <1>7, <1>3, <3>1, InitOrder, ZenonT(30)
  <2>2. Up(15)' = Up(15)
    BY <1>1, <1>3 DEF Up
  <2>3. Holds(15)'
    BY <1>1, <1>2, <1>7, <1>3, <2>1, <2>2, Zenon DEF Holds
  <2> QED BY <1>1, <1>3, <2>3 DEF SuInv
<1>4. CASE /\ m # "start" /\ step' = step + 1 /\ owns' = [owns EXCEPT ![m] = Builds(m, config[1])]
           /\ cached' = IF m = "pool" THEN Caches(config[1]) ELSE cached
           /\ UNCHANGED <<stage, copies>>
  <2>1. k < 15 /\ m \in Members /\ (m = "pool" => k + 1 = 14)
    BY <1>1, <1>2, <1>7, <1>4, InitOrder
  <2>2. Up(k + 1)' = Up(k) \cup {m}
    BY <1>1, <1>2, <1>7, <1>4, <2>1, DoneFacts DEF Up
  <2>3. Holds(k)
    BY <1>1, <1>2
  <2>4. owns' = [x \in Members |-> IF x \in Up(k + 1)' THEN Builds(x, config[1]) ELSE {}]
    BY <1>4, <2>1, <2>2, <2>3 DEF Holds
  <2>5. cached' # {} => k + 1 >= 14 /\ cached' = Caches(config[1])
    BY <1>4, <2>1, <2>3 DEF Holds
  <2>6. Holds(k + 1)'
    BY <1>1, <1>4, <2>4, <2>5, SMTT(30) DEF Holds
  <2>7. step' = k + 1 /\ k + 1 \in 0 .. 15
    BY <1>2, <1>7, <1>4, <2>1
  <2> QED BY <1>1, <1>4, <2>6, <2>7 DEF SuInv
<1>5. CASE stage' = "unwinding" /\ step' = 0 /\ UNCHANGED <<owns, cached, cudf, copies>>
  <2>1. Up(k)' = Up(k)
    BY <1>1, <1>5, DoneFacts DEF Up
  <2>2. Holds(k)'
    BY <1>1, <1>2, <1>7, <1>5, <2>1, SMTT(30) DEF Holds
  <2> QED BY <1>1, <1>5, <2>2 DEF SuInv
<1>6. \/ m = "start" /\ stage' = "ready" /\ copies' = TRUE /\ UNCHANGED <<step, owns, cached, cudf>>
      \/ /\ m # "start" /\ step' = step + 1 /\ owns' = [owns EXCEPT ![m] = Builds(m, config[1])]
         /\ cached' = IF m = "pool" THEN Caches(config[1]) ELSE cached
         /\ UNCHANGED <<stage, copies>>
      \/ stage' = "unwinding" /\ step' = 0 /\ UNCHANGED <<owns, cached, cudf, copies>>
  BY <1>7 DEF initialize
<1> QED BY <1>3, <1>4, <1>5, <1>6, Zenon

\* The first step of terminate().
LEMMA StartTerminateKeeps ==
    ASSUME SuInv, StartTerminate
    PROVE  SuInv'
<1>1. /\ stage = "ready" /\ stage' = "terminating" /\ step' = 0 /\ Holds(15)
      /\ UNCHANGED <<config, owns, cached, cudf, copies>>
  BY DEF StartTerminate, SuInv
<1>2. Up(15)' = Up(15)
  BY <1>1, DoneFacts DEF Up
<1>3. Holds(15)'
  BY <1>1, <1>2 DEF Holds
<1> QED BY <1>1, <1>3 DEF SuInv

\* A step of a teardown takes one member down: what is left is what the other steps will
\* take.
LEMMA TakenKeeps ==
    ASSUME NEW steps, NEW k \in 0 .. 15, NEW restored, step \in Nat, Len(steps) \in Nat,
           Members \subseteq Done(steps, Len(steps)),
           (stage = "terminating" /\ steps = TerminateSteps) \/ (stage = "unwinding" /\ steps = UnwindSteps),
           Taken(steps, steps[step + 1], restored), Holds(k)
    PROVE  /\ stage' = stage /\ (copies' => copies) => Holds(k)'
           /\ stage' = "none" => owns' = [m \in Members |-> {}] /\ cached' = {}
<1>1. PICK n, x : n = step /\ x = steps[step + 1]
  OBVIOUS
<1>2. /\ owns' = IF x \in Members THEN [owns EXCEPT ![x] = {}] ELSE owns
      /\ IF n + 1 = Len(steps)
         THEN stage' = "none" /\ step' = 0 /\ cached' = {}
         ELSE step' = n + 1 /\ UNCHANGED <<stage, cached>>
      /\ config' = config
  BY <1>1 DEF Taken
<1>3. Up(k) = (Done(InitSteps, k) \cap Members) \ Done(steps, n)
  BY <1>1 DEF Up
<1>4. Done(steps, n + 1) = Done(steps, n) \cup {x}
  BY <1>1, DoneFacts, Zenon
<1>5. owns' = [m \in Members |-> IF m \in Up(k) \ {x} THEN Builds(m, config[1]) ELSE {}]
  <2>1. owns = [m \in Members |-> IF m \in Up(k) THEN Builds(m, config[1]) ELSE {}]
    BY DEF Holds
  <2> QED BY <1>2, <2>1, ZenonT(30)
<1>6. ASSUME stage' = stage, copies' => copies PROVE Holds(k)'
  <2>1. step' = n + 1 /\ cached' = cached
    BY <1>2, <1>6
  <2>2. Up(k)' = Up(k) \ {x}
    BY <1>3, <1>4, <1>6, <2>1, SMTT(30) DEF Up
  <2> QED BY <1>2, <1>5, <1>6, <2>1, <2>2, Zenon DEF Holds
<1>7. ASSUME stage' = "none" PROVE owns' = [m \in Members |-> {}] /\ cached' = {}
  <2>1. n + 1 = Len(steps) /\ cached' = {}
    BY <1>2, <1>7, SMTT(30)
  <2>2. Up(k) \ {x} = {}
    BY <1>3, <1>4, <2>1
  <2> QED BY <1>5, <2>1, <2>2, SMTT(30)
<1> QED BY <1>6, <1>7

\* A step of terminate().
LEMMA TerminateKeeps ==
    ASSUME SuInv, terminate
    PROVE  SuInv'
<1>1. /\ stage = "terminating" /\ step \in 0 .. 16 /\ Holds(15) /\ (copies => step < 8)
  BY DEF SuInv, terminate
<1>2. PICK x, restored : /\ x = TerminateSteps[step + 1] /\ restored = RestoresCudf(x)
  OBVIOUS
<1>3. Taken(TerminateSteps, TerminateSteps[step + 1], restored)
  BY <1>2, SMTT(30) DEF terminate
<1>4. /\ copies' = IF x = "sync" THEN FALSE ELSE copies
      /\ IF step = 16 THEN stage' = "none" /\ step' = 0
         ELSE step' = step + 1 /\ stage' = stage
  BY <1>1, <1>2, <1>3, TerminateOrder, SMTT(30) DEF Taken
<1>5. (copies' => copies) /\ (copies' => step # 7)
  BY <1>1, <1>2, <1>4, TerminateOrder, SMTT(30)
<1>6. /\ stage' = stage => Holds(15)'
      /\ stage' = "none" => owns' = [m \in Members |-> {}] /\ cached' = {}
  <2>1. Len(TerminateSteps) \in Nat /\ Members \subseteq Done(TerminateSteps, Len(TerminateSteps)) /\ step \in Nat
    BY <1>1, TerminateOrder
  <2>2. 15 \in 0 .. 15
    BY SMTT(30)
  <2> QED BY <1>1, <1>3, <1>5, <2>1, <2>2, TakenKeeps, Zenon
<1>7. CASE step = 16
  <2>1. stage' = "none" /\ step' = 0 /\ ~copies'
    BY <1>1, <1>4, <1>5, <1>7, SMTT(30)
  <2> QED BY <1>6, <2>1 DEF SuInv
<1>8. CASE step # 16
  <2>1. stage' = "terminating" /\ step' \in 0 .. 16 /\ (copies' => step' < 8)
    BY <1>1, <1>4, <1>5, <1>8
  <2> QED BY <1>1, <1>6, <2>1, SMTT(30) DEF SuInv
<1> QED BY <1>7, <1>8, SMTT(30)

\* A step of the destruction after initialize() threw.
LEMMA UnwindKeeps ==
    ASSUME SuInv, Unwind
    PROVE  SuInv'
<1>1. stage = "unwinding" /\ step \in 0 .. 14 /\ ~copies
  BY DEF SuInv, Unwind
<1>2. PICK k \in 0 .. 15 : Holds(k)
  BY <1>1 DEF SuInv
<1>3. PICK restored : restored = cudf
  OBVIOUS
<1>4. Taken(UnwindSteps, UnwindSteps[step + 1], restored)
  BY <1>3, SMTT(30) DEF Unwind
<1>5. /\ ~copies'
      /\ IF step = 14 THEN stage' = "none" /\ step' = 0
         ELSE step' = step + 1 /\ stage' = stage
  BY <1>1, <1>4, UnwindOrder, SMTT(30) DEF Taken
<1>6. /\ stage' = stage => Holds(k)'
      /\ stage' = "none" => owns' = [m \in Members |-> {}] /\ cached' = {}
  <2>1. Len(UnwindSteps) \in Nat /\ Members \subseteq Done(UnwindSteps, Len(UnwindSteps)) /\ step \in Nat
    BY <1>1, UnwindOrder
  <2> QED BY <1>1, <1>2, <1>4, <1>5, <2>1, TakenKeeps, Zenon
<1>7. CASE step = 14
  <2>1. stage' = "none" /\ step' = 0 /\ ~copies'
    BY <1>1, <1>5, <1>7, SMTT(30), Zenon
  <2> QED BY <1>6, <2>1 DEF SuInv
<1>8. CASE step # 14
  <2>1. stage' = "unwinding" /\ step' \in 0 .. 14
    BY <1>1, <1>5, <1>8
  <2> QED BY <1>1, <1>5, <1>6, <2>1 DEF SuInv
<1> QED BY <1>7, <1>8

\* What must be down before a member may be taken down.
DownClosed(D) ==
    /\ "memory" \in D => Members \subseteq D
    /\ "s3_pool" \in D => {"s3", "scans"} \subseteq D
    /\ "repos" \in D => "downgrade" \in D
    /\ "pool" \in D => {"numa", "gpu", "registry", "s3", "gcs", "scans"} \subseteq D

\* initialize() builds a member after what it uses.
LEMMA InitClosed ==
    ASSUME NEW k \in 0 .. 15
    PROVE  /\ {"s3", "scans"} \cap Done(InitSteps, k) # {} => "s3_pool" \in Done(InitSteps, k)
           /\ "downgrade" \in Done(InitSteps, k) => "repos" \in Done(InitSteps, k)
           /\ k >= 14 => "pool" \in Done(InitSteps, k)
           /\ k >= 6 => {"memory", "pinned"} \subseteq Done(InitSteps, k)
           /\ \A m \in Done(InitSteps, k) : m \notin {"memory", "telemetry"} => "memory" \in Done(InitSteps, k)
<1>1. 0 .. 15 = {0, 1, 2, 3, 4, 5, 6, 7, 8, 9, 10, 11, 12, 13, 14, 15}
  OBVIOUS
<1> QED BY <1>1 DEF Done, InitSteps

\* terminate() takes a member down before what it uses,
LEMMA TerminateClosed ==
    ASSUME NEW n \in 0 .. 16
    PROVE  /\ DownClosed(Done(TerminateSteps, n))
           /\ n < 8 => "memory" \notin Done(TerminateSteps, n)
           /\ n < 15 => "pinned" \notin Done(TerminateSteps, n)
<1>1. 0 .. 16 = {0, 1, 2, 3, 4, 5, 6, 7, 8, 9, 10, 11, 12, 13, 14, 15, 16}
  OBVIOUS
<1>2. /\ "memory" \notin Done(TerminateSteps, n)
      /\ n < 15 => "pinned" \notin Done(TerminateSteps, n)
      /\ "s3_pool" \in Done(TerminateSteps, n) => {"s3", "scans"} \subseteq Done(TerminateSteps, n)
      /\ "repos" \in Done(TerminateSteps, n) => "downgrade" \in Done(TerminateSteps, n)
  BY <1>1 DEF Done, TerminateSteps
<1>3. "pool" \in Done(TerminateSteps, n)
        => {"numa", "gpu", "registry", "s3", "gcs", "scans"} \subseteq Done(TerminateSteps, n)
  BY <1>1 DEF Done, TerminateSteps
<1> QED BY <1>2, <1>3 DEF DownClosed

\* ... and so does the destruction in the reverse order of declaration.
LEMMA UnwindClosed ==
    ASSUME NEW n \in 0 .. 14
    PROVE  DownClosed(Done(UnwindSteps, n))
<1>1. 0 .. 14 = {0, 1, 2, 3, 4, 5, 6, 7, 8, 9, 10, 11, 12, 13, 14}
  OBVIOUS
<1>2. /\ "memory" \notin Done(UnwindSteps, n)
      /\ "s3_pool" \in Done(UnwindSteps, n) => {"s3", "scans"} \subseteq Done(UnwindSteps, n)
      /\ "repos" \in Done(UnwindSteps, n) => "downgrade" \in Done(UnwindSteps, n)
  BY <1>1, UnwindTable DEF Done
<1>3. "pool" \in Done(UnwindSteps, n)
        => {"numa", "gpu", "registry", "s3", "gcs", "scans"} \subseteq Done(UnwindSteps, n)
  BY <1>1, UnwindTable DEF Done
<1> QED BY <1>2, <1>3 DEF DownClosed

\* In every order the steps are taken, what a member that is up uses is up.
LEMMA UpIsClosed ==
    ASSUME SuInv, stage # "none", NEW k \in 0 .. 15
    PROVE  /\ \A m \in Up(k) : m \notin {"memory", "telemetry"} => "memory" \in Up(k)
           /\ {"s3", "scans"} \cap Up(k) # {} => "s3_pool" \in Up(k)
           /\ "downgrade" \in Up(k) => "repos" \in Up(k)
           /\ k >= 14 /\ {"numa", "gpu", "registry", "s3", "gcs", "scans"} \cap Up(k) # {} => "pool" \in Up(k)
<1>1. PICK D : Up(k) = (Done(InitSteps, k) \cap Members) \ D /\ DownClosed(D)
  <2>1. CASE stage = "terminating"
    BY <2>1, TerminateClosed DEF Up, SuInv
  <2>2. CASE stage = "unwinding"
    BY <2>2, UnwindClosed DEF Up, SuInv
  <2>3. CASE stage \notin {"terminating", "unwinding"}
    <3>1. Up(k) = (Done(InitSteps, k) \cap Members) \ {} /\ DownClosed({})
      BY <2>3 DEF Up, DownClosed
    <3> QED BY <3>1
  <2> QED BY <2>1, <2>2, <2>3
<1>2. {"memory", "s3_pool", "repos", "pool"} \subseteq Members
  BY MembersAre
<1>3. /\ \A m \in Up(k) : m \notin {"memory", "telemetry"} => "memory" \in Up(k)
      /\ {"s3", "scans"} \cap Up(k) # {} => "s3_pool" \in Up(k)
  BY <1>1, <1>2, InitClosed DEF DownClosed
<1>4. "downgrade" \in Up(k) => "repos" \in Up(k)
  BY <1>1, <1>2, InitClosed DEF DownClosed
<1>5. k >= 14 /\ {"numa", "gpu", "registry", "s3", "gcs", "scans"} \cap Up(k) # {} => "pool" \in Up(k)
  BY <1>1, <1>2, InitClosed DEF DownClosed
<1> QED BY <1>3, <1>4, <1>5

\* The members that hold an object, by what the object is.
LEMMA Holders ==
    ASSUME NEW m \in Members, NEW c, NEW o \in Builds(m, c)
    PROVE  /\ o \in {"uring1", "uring2", "s3", "gcs"} => m \in {"numa", "gpu", "registry", "s3", "gcs", "scans"}
           /\ o = "s3" => m \in {"s3", "scans"} /\ HasS3(c)
           /\ o = "downgrade" => m = "downgrade"
           /\ m = "memory" => o = "memory"
           /\ m = "telemetry" => o = "telemetry"
  BY MembersAre DEF Builds, Borrowed

\* The invariant implies that nothing is freed in use.
LEMMA NothingFreed ==
    ASSUME SuInv
    PROVE  NothingFreedInUse
<1>1. CASE stage = "none"
  <2>1. owns = [m \in Members |-> {}] /\ ~copies
    BY <1>1 DEF SuInv
  <2>2. Alive = {}
    BY <2>1 DEF Alive
  <2> QED BY <2>1, <2>2 DEF NothingFreedInUse
<1>2. CASE stage # "none"
  <2>1. PICK k \in 0 .. 15 : Holds(k) /\ (stage \in {"ready", "terminating"} => k = 15)
    <3>1. 15 \in 0 .. 15
      OBVIOUS
    <3> QED BY <1>2, <3>1 DEF SuInv
  <2>2. PICK c : c = config[1]
    OBVIOUS
  <2>3. \A m \in Members : owns[m] = IF m \in Up(k) THEN Builds(m, c) ELSE {}
    BY <2>1, <2>2, SMTT(30), Zenon DEF Holds
  <2>4. \A m \in Up(k) : Builds(m, c) \subseteq Alive
    <3>1. Up(k) \subseteq Members
      BY DEF Up
    <3> QED BY <2>3, <3>1 DEF Alive
  <2>5. /\ "memory" \in Up(k) => "memory" \in Alive
        /\ "repos" \in Up(k) => "repos" \in Alive
        /\ "pinned" \in Up(k) => "pinned" \in Alive
        /\ "s3_pool" \in Up(k) /\ c.s3 = "blocking" => "s3_pool" \in Alive
        /\ "pool" \in Up(k) /\ c.cache # "none" => "pool" \in Alive
    BY <2>4 DEF Builds
  <2>6. ASSUME NEW o \in Alive PROVE Touches(o) \subseteq Alive
    <3>1. PICK m \in Up(k) : o \in Builds(m, c) /\ m \in Members
      BY <2>3, <2>6 DEF Alive
    <3>2. o \in cached => "pool" \in Alive
      <4> SUFFICES ASSUME o \in cached PROVE "pool" \in Alive
        OBVIOUS
      <4>1. k >= 14 /\ o \in Caches(c)
        BY <2>1, <2>2 DEF Holds
      <4>2. o \in {"uring1", "uring2", "s3", "gcs"} /\ c.cache # "none"
        BY <4>1 DEF Caches, Borrowed
      <4>3. m \in {"numa", "gpu", "registry", "s3", "gcs", "scans"}
        BY <3>1, <4>2, Holders, Zenon
      <4>4. "pool" \in Up(k)
        BY <1>2, <3>1, <4>1, <4>3, UpIsClosed, Zenon
      <4> QED BY <2>5, <4>2, <4>4
    <3>3. o = "s3" /\ c.s3 = "blocking" => "s3_pool" \in Alive
      BY <1>2, <2>5, <3>1, Holders, UpIsClosed, Zenon
    <3>4. o = "downgrade" => "repos" \in Alive
      BY <1>2, <2>5, <3>1, Holders, UpIsClosed, Zenon
    <3>5. o \notin {"memory", "telemetry"} => "memory" \in Alive
      BY <1>2, <2>5, <3>1, Holders, UpIsClosed
    <3> QED BY <2>2, <3>2, <3>3, <3>4, <3>5, Zenon DEF Touches
  <2>7. copies => {"memory", "pinned"} \subseteq Alive
    <3> SUFFICES ASSUME copies PROVE {"memory", "pinned"} \subseteq Up(15) /\ k = 15
      BY <2>5
    <3>1. k = 15 /\ stage \in {"ready", "terminating"} /\ (stage = "terminating" => step \in 0 .. 16 /\ step < 8)
      BY <1>2, <2>1, Zenon DEF SuInv
    <3>2. {"memory", "pinned"} \subseteq Done(InitSteps, 15) \cap Members
      BY MembersAre, InitOrder
    <3>3. stage = "terminating" => {"memory", "pinned"} \cap Done(TerminateSteps, step) = {}
      BY <3>1, TerminateClosed
    <3> QED BY <3>1, <3>2, <3>3 DEF Up
  <2> QED BY <2>6, <2>7 DEF NothingFreedInUse
<1> QED BY <1>1, <1>2

\* ... and that cuDF's resource is alive,
LEMMA CudfLives ==
    ASSUME SuInv, CudfInv
    PROVE  CudfResourceLives
<1> SUFFICES ASSUME cudf = "pinned" PROVE "pinned" \in Alive
  BY Zenon DEF CudfResourceLives
<1>1. /\ stage \in {"building", "ready", "terminating"}
      /\ stage = "building" => step >= 6 /\ step \in 0 .. 15
      /\ stage = "terminating" => step < 15 /\ step \in 0 .. 16
  BY DEF SuInv, CudfInv
<1>2. PICK k \in 0 .. 15 : k >= 6 /\ Holds(k)
  <2>1. 15 \in 0 .. 15 /\ 15 >= 6
    OBVIOUS
  <2> QED BY <1>1, <2>1 DEF SuInv
<1>3. "pinned" \in Done(InitSteps, k) /\ "pinned" \in Members
  BY <1>2, InitClosed, MembersAre
<1>4. stage = "terminating" => "pinned" \notin Done(TerminateSteps, step)
  BY <1>1, TerminateClosed
<1>5. "pinned" \in Up(k)
  BY <1>1, <1>3, <1>4 DEF Up
<1>6. owns["pinned"] = {"pinned"}
  BY <1>2, <1>3, <1>5 DEF Holds, Builds
<1> QED BY <1>3, <1>6 DEF Alive

\* ... as long as nothing throws after cuDF's resource was set.
LEMMA CudfKept ==
    ASSUME SuInv, CudfInv, [SuNext]_suvars, FailingSteps \subseteq EarlySteps
    PROVE  CudfInv'
<1>1. CASE UNCHANGED suvars
  BY <1>1 DEF suvars, CudfInv
<1>2. CASE Construct
  BY <1>2 DEF Construct, CudfInv
<1>3. CASE initialize
  <2>1. stage = "building" /\ step \in 0 .. 15 /\ (cudf = "cudf" \/ (cudf = "pinned" /\ step >= 6))
    BY <1>3 DEF initialize, SuInv, CudfInv
  <2>2. PICK m : m = InitSteps[step + 1]
    OBVIOUS
  <2>3. (m = "pinned" => step + 1 = 6) /\ (m \in FailingSteps => step + 1 <= 6)
    BY <2>1, <2>2, InitOrder
  <2>4. \/ m = "start" /\ stage' = "ready" /\ cudf' = cudf
        \/ /\ step' = step + 1 /\ stage' = stage
           /\ cudf' = IF m = "pinned" THEN "pinned" ELSE cudf
        \/ m \in FailingSteps /\ stage' = "unwinding" /\ cudf' = cudf
    BY <1>3, <2>2 DEF initialize
  <2> QED BY <2>1, <2>3, <2>4 DEF CudfInv
<1>4. CASE StartTerminate
  BY <1>4 DEF StartTerminate, CudfInv
<1>5. CASE terminate
  <2>1. stage = "terminating" /\ step \in 0 .. 16 /\ cudf \in {"cudf", "pinned"} /\ (cudf = "pinned" => step < 15)
    BY <1>5, Zenon DEF terminate, SuInv, CudfInv
  <2>2. PICK x : x = TerminateSteps[step + 1]
    OBVIOUS
  <2>3. /\ cudf' = IF x = "restore" THEN "cudf" ELSE cudf
        /\ IF step + 1 = 17 THEN stage' = "none" ELSE step' = step + 1 /\ stage' = stage
    BY <1>5, <2>2, TerminateOrder, Zenon DEF terminate, Taken, RestoresCudf
  <2>4. step + 1 = 15 <=> x = "restore"
    BY <2>1, <2>2, TerminateOrder
  <2>5. cudf' \in {"cudf", "pinned"} /\ (cudf' = "pinned" => cudf = "pinned" /\ step + 1 < 15)
    BY <2>1, <2>3, <2>4
  <2> QED BY <2>1, <2>3, <2>5 DEF CudfInv
<1>6. CASE Unwind
  BY <1>6 DEF Unwind, Taken, CudfInv
<1> QED BY <1>1, <1>2, <1>3, <1>4, <1>5, <1>6, Zenon DEF SuNext

\* The invariant always holds: initialize() may throw at any step.
THEOREM StartupInvariant == SuSpec => []SuInv
<1>1. SuInit => SuInv
  BY DEF SuInit, SuInv
<1>2. SuInv /\ [SuNext]_suvars => SuInv'
  <2> SUFFICES ASSUME SuInv, [SuNext]_suvars PROVE SuInv'
    OBVIOUS
  <2>1. CASE UNCHANGED suvars
    <3>1. \A k : (Holds(k))' <=> Holds(k)
      BY <2>1 DEF suvars, Holds, Up
    <3> QED BY <2>1, <3>1 DEF suvars, SuInv
  <2> QED BY <2>1, StartKeeps, InitializeKeeps, StartTerminateKeeps, TerminateKeeps, UnwindKeeps, Zenon
             DEF SuNext
<1> QED BY <1>1, <1>2, PTL DEF SuSpec

\* initialize(), terminate() and the destructor: whichever step of initialize() throws, and
\* however the backends are shared, no object is destroyed while a living one still touches
\* it, and no pinned memory is freed under a copy in flight.
THEOREM NothingIsFreedInUse == SuSpec => []NothingFreedInUse
  BY StartupInvariant, NothingFreed, PTL

\* ... and cuDF's global pinned resource is always an allocator that is alive, if what
\* throws is a step before it is set. (When a later step throws, the destruction of the
\* members does not restore it: the README shows the run.)
THEOREM TeardownIsSound ==
    ASSUME FailingSteps \subseteq EarlySteps
    PROVE  SuSpec => []TeardownSound
<1>1. SuInit => CudfInv
  BY DEF SuInit, CudfInv
<1>2. SuInv /\ CudfInv => TeardownSound
  BY NothingFreed, CudfLives DEF TeardownSound
<1>3. SuInv /\ CudfInv /\ [SuNext]_suvars => CudfInv'
  BY CudfKept
<1> QED BY <1>1, <1>2, <1>3, StartupInvariant, PTL DEF SuSpec

=============================================================================
