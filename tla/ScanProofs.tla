---------------------------- MODULE ScanProofs ----------------------------
(***************************************************************************)
(* Proofs about two components a scan reads through: the DuckDB scan with  *)
(* its local states (DuckdbScan) and the prefetching cache of the I/O      *)
(* layer, whose evictor takes chunks from loaded ranges (PrefetchCache).   *)
(* They hold for any number of ranges, local states, threads, chunks and   *)
(* readers.                                                                *)
(*                                                                         *)
(* ScanInv is the inductive invariant of the first. ReadersProtected       *)
(* speaks of entries and readers; CaInv adds the batches at the I/O        *)
(* backend - until the destructor starts an entry is loading exactly while *)
(* one batch has it, which fails afterwards - and what the worker took     *)
(* chunks for. The eviction theorem needs the ages.                        *)
(***************************************************************************)
EXTENDS DuckdbScan, PrefetchCache, FiniteSetTheorems, TLAPS

-----------------------------------------------------------------------------
(*****************************************************************************)
(* A DuckDB table scanned by several local states                            *)
(* (op/scan/duckdb_scan_task.cpp). The counters of the scan state are the    *)
(* cardinalities of sets of local states and of tasks; that the source is    *)
(* drained says something of every local state; and a finished pipeline has  *)
(* no task left that could still hold rows.                                  *)
(*****************************************************************************)
\* The local states _active_local_states counts: started and not drained.
CountedStates == {i \in Id : local[i] \in {"init", "create", "scan"}}

\* The threads that run a task.
BusyWorkers == {w \in Worker : task[w] # None}

\* Thread w owns the local state of its task: nobody else may read from it.
Reading(w) == pc[w] \in {"scan", "continue"}

\* The counters are what they count: _active_local_states, and the tasks created as those
\* completed, queued or running.
CountersInv ==
  /\ active = Cardinality(CountedStates)
  /\ created = completed + Cardinality(queue) + Cardinality(BusyWorkers)

\* Who has a task, whose local state is read by whom, and where rows and claimed ranges can
\* be: one task at a time continues a local state, and rows are dropped by no step after
\* the publication.
TasksInv ==
  /\ \A w \in Worker :
       /\ (task[w] # None) <=> (pc[w] \in {"scan", "drained", "continue", "publish", "destroy"})
       /\ Reading(w) => local[task[w]] = "scan" /\ task[w] \notin queue
       /\ rows[w] # {} => pc[w] \in {"scan", "drained", "continue", "publish"}
  /\ \A i \in queue : local[i] = "scan"
  /\ \A v, w \in Worker : v # w /\ Reading(v) /\ Reading(w) => task[v] # task[w]
  /\ \A i \in Id : held[i] # {} => local[i] \in {"create", "scan"}

\* From the moment a thread is about to set the source drained, nothing is left to read.
\* (Stronger than ExhaustedMeansRead, which speaks of the flag only.)
DrainedInv ==
  exhausted \/ (\E w \in Worker : pc[w] = "drained")
    => unclaimed = {} /\ \A i \in Id : held[i] = {}

\* No range of the table is lost.
RangesCovered ==
  \A r \in 1 .. Ranges :
    \/ r \in unclaimed \cup published
    \/ \E i \in Id : r \in held[i]
    \/ \E w \in Worker : r \in rows[w]

\* The inductive invariant of the scan.
ScanInv == TypeOK /\ CountersInv /\ TasksInv /\ DrainedInv /\ RangesCovered /\ FinishedIsComplete

\* Adding an element to a finite set or taking one away changes its cardinality by one.
LEMMA CountUp ==
  ASSUME NEW S, NEW x, IsFiniteSet(S)
  PROVE  /\ x \notin S => Cardinality(S \cup {x}) = Cardinality(S) + 1
         /\ x \in S => Cardinality(S \ {x}) = Cardinality(S) - 1
         /\ Cardinality(S) \in Nat
         /\ Cardinality(S) = 0 <=> S = {}
BY FS_AddElement, FS_RemoveElement, FS_CardinalityType, FS_EmptySet, Zenon

\* The sets the counters count are finite, before and after a step.
LEMMA ScanFinite ==
  ASSUME TypeOK
  PROVE  /\ IsFiniteSet(CountedStates) /\ IsFiniteSet(queue) /\ IsFiniteSet(BusyWorkers)
         /\ IsFiniteSet(CountedStates)' /\ (TypeOK' => IsFiniteSet(queue')) /\ IsFiniteSet(BusyWorkers)'
<1>1. /\ CountedStates \subseteq Id /\ queue \subseteq Id /\ BusyWorkers \subseteq Worker
      /\ CountedStates' \subseteq Id /\ (TypeOK' => queue' \subseteq Id) /\ BusyWorkers' \subseteq Worker
  BY DEF TypeOK, CountedStates, BusyWorkers
<1> QED BY <1>1, FS_Subset, ScanAssumption

\* The sizes of these sets are numbers.
LEMMA CountsAreNumbers ==
  ASSUME TypeOK
  PROVE  Cardinality(queue) \in Nat /\ Cardinality(BusyWorkers) \in Nat
<1>1. IsFiniteSet(queue) /\ IsFiniteSet(BusyWorkers)
  BY ScanFinite
<1> QED BY <1>1, FS_CardinalityType


\* A thread inside a task has one.
LEMMA ReaderHasTask ==
  ASSUME TypeOK, TasksInv, NEW w \in Worker, pc[w] \in {"scan", "drained", "continue", "publish", "destroy"}
  PROVE  task[w] \in Id
BY DEF TypeOK, TasksInv

\* Requests for the scan, and steps that change nothing, keep the invariant.
LEMMA RequestStep ==
  ASSUME ScanInv,
         \/ ConsumerRequest
         \/ \E i \in Id : TakeRequest(i)
         \/ UNCHANGED vars
  PROVE  ScanInv'
<1>1. /\ UNCHANGED <<unclaimed, held, active, exhausted, total, pipeVars, queue, workVars, published>>
      /\ \/ UNCHANGED local
         \/ \E i \in Id : local[i] = "unborn" /\ local' = [local EXCEPT ![i] = "start"]
  BY DEF ConsumerRequest, TakeRequest, vars, tableVars
<1> USE <1>1 DEF pipeVars, workVars
<1>2. TypeOK'
  BY DEF ScanInv, TypeOK, ConsumerRequest, TakeRequest, vars, tableVars
<1>3. CountersInv'
  <2>1. CountedStates' = CountedStates
    BY DEF ScanInv, TypeOK, CountedStates
  <2>2. BusyWorkers' = BusyWorkers
    BY DEF BusyWorkers
  <2> QED BY <2>1, <2>2 DEF ScanInv, CountersInv
<1>4. TasksInv'
  BY DEF ScanInv, TypeOK, TasksInv, Reading
<1>5. DrainedInv' /\ RangesCovered' /\ FinishedIsComplete'
  BY DEF ScanInv, DrainedInv, RangesCovered, FinishedIsComplete
<1> QED BY <1>2, <1>3, <1>4, <1>5 DEF ScanInv

\* The creator counts a new local state in _active_local_states before it initialises it:
\* nothing can drain the source in between.
LEMMA CountLocalStateStep ==
  ASSUME ScanInv, NEW i \in Id, CountLocalState(i)
  PROVE  ScanInv'
<1> USE DEF CountLocalState, pipeVars, workVars
<1>1. TypeOK'
  BY DEF ScanInv, TypeOK
<1>2. CountersInv'
  <2>1. CountedStates' = CountedStates \cup {i} /\ i \notin CountedStates
    BY DEF ScanInv, TypeOK, CountedStates
  <2>2. BusyWorkers' = BusyWorkers
    BY DEF BusyWorkers
  <2> QED BY <2>1, <2>2, ScanFinite, CountUp DEF ScanInv, CountersInv
<1>3. TasksInv'
  BY DEF ScanInv, TypeOK, TasksInv, Reading
<1>4. DrainedInv' /\ RangesCovered' /\ FinishedIsComplete'
  BY DEF ScanInv, DrainedInv, RangesCovered, FinishedIsComplete
<1> QED BY <1>1, <1>2, <1>3, <1>4 DEF ScanInv

\* The initialisation of a local state, which claims its first range, keeps the invariant.
LEMMA InitLocalStep ==
  ASSUME ScanInv, NEW i \in Id, InitLocal(i)
  PROVE  ScanInv'
<1> USE DEF InitLocal, pipeVars, workVars
<1>0. \/ UNCHANGED <<unclaimed, held>>
      \/ \E r \in unclaimed : /\ unclaimed' = unclaimed \ {r}
                              /\ held[i] = {}
                              /\ held' = [held EXCEPT ![i] = {r}]
  BY DEF Claim
<1>1. TypeOK'
  <2>1. CASE UNCHANGED <<unclaimed, held>>
    BY <2>1 DEF ScanInv, TypeOK
  <2>2. ASSUME NEW r \in unclaimed, unclaimed' = unclaimed \ {r}, held' = [held EXCEPT ![i] = {r}]
        PROVE  TypeOK'
    BY <2>2 DEF ScanInv, TypeOK
  <2> QED BY <1>0, <2>1, <2>2
<1>2. CountersInv'
  <2>1. CountedStates' = CountedStates
    BY DEF ScanInv, TypeOK, CountedStates
  <2>2. BusyWorkers' = BusyWorkers
    BY DEF BusyWorkers
  <2> QED BY <2>1, <2>2 DEF ScanInv, CountersInv
<1>3. TasksInv'
  <2>1. \A j \in Id : j # i => local'[j] = local[j] /\ held'[j] = held[j]
    BY <1>0 DEF ScanInv, TypeOK
  <2>2. local[i] = "init" /\ local'[i] = "create"
    BY DEF ScanInv, TypeOK
  <2> QED BY <2>1, <2>2 DEF ScanInv, TypeOK, TasksInv, Reading
<1>4. DrainedInv'
  <2>1. unclaimed = {} => UNCHANGED <<unclaimed, held>>
    BY <1>0
  <2> QED BY <2>1 DEF ScanInv, DrainedInv
<1>5. RangesCovered'
  <2>1. CASE UNCHANGED <<unclaimed, held>>
    BY <2>1 DEF ScanInv, RangesCovered
  <2>2. ASSUME NEW r \in unclaimed, unclaimed' = unclaimed \ {r}, held[i] = {},
               held' = [held EXCEPT ![i] = {r}]
        PROVE  RangesCovered'
    <3>1. held'[i] = {r} /\ \A j \in Id : j # i => held'[j] = held[j]
      BY <2>2 DEF ScanInv, TypeOK
    <3> QED BY <2>2, <3>1 DEF ScanInv, RangesCovered
  <2> QED BY <1>0, <2>1, <2>2
<1>6. FinishedIsComplete'
  BY DEF ScanInv, FinishedIsComplete
<1> QED BY <1>1, <1>2, <1>3, <1>4, <1>5, <1>6 DEF ScanInv

\* The creation of the task for a new local state keeps the invariant.
LEMMA CreateTaskStep ==
  ASSUME ScanInv, NEW i \in Id, CreateTask(i)
  PROVE  ScanInv'
<1> USE DEF CreateTask, workVars
<1>1. TypeOK'
  BY DEF ScanInv, TypeOK
<1>2. CountersInv'
  <2>1. CountedStates' = CountedStates
    BY DEF ScanInv, TypeOK, CountedStates
  <2>2. BusyWorkers' = BusyWorkers /\ i \notin queue
    BY DEF BusyWorkers, ScanInv, TasksInv
  <2>3. Cardinality(queue') = Cardinality(queue) + 1
    BY <2>2, ScanFinite, CountUp DEF ScanInv
  <2>4. Cardinality(queue) \in Nat /\ Cardinality(BusyWorkers) \in Nat
    BY CountsAreNumbers DEF ScanInv
  <2> QED BY <2>1, <2>2, <2>3, <2>4 DEF ScanInv, CountersInv, TypeOK
<1>3. TasksInv'
  <2>1. \A j \in Id : j # i => local'[j] = local[j]
    BY DEF ScanInv, TypeOK
  <2>2. local[i] = "create" /\ local'[i] = "scan"
    BY DEF ScanInv, TypeOK
  <2>3. \A w \in Worker : Reading(w) => task[w] \in Id /\ task[w] # i
    BY <2>2, ReaderHasTask DEF ScanInv, TasksInv, Reading
  <2> QED BY <2>1, <2>2, <2>3 DEF ScanInv, TypeOK, TasksInv, Reading
<1>4. DrainedInv' /\ RangesCovered' /\ FinishedIsComplete'
  BY DEF ScanInv, DrainedInv, RangesCovered, FinishedIsComplete
<1> QED BY <1>1, <1>2, <1>3, <1>4 DEF ScanInv

\* A thread that takes a task out of the queue keeps the invariant.
LEMMA TakeTaskStep ==
  ASSUME ScanInv, NEW w \in Worker, NEW i \in Id, TakeTask(w, i)
  PROVE  ScanInv'
<1> USE DEF TakeTask, tableVars, pipeVars
<1>1. TypeOK'
  BY DEF ScanInv, TypeOK
<1>2. /\ task'[w] = i /\ pc'[w] = "scan"
      /\ \A v \in Worker : v # w => task'[v] = task[v] /\ pc'[v] = pc[v]
      /\ task[w] = None /\ i # None
  BY ScanAssumption DEF ScanInv, TypeOK, TasksInv
<1>3. CountersInv'
  <2>1. CountedStates' = CountedStates
    BY DEF CountedStates
  <2>2. BusyWorkers' = BusyWorkers \cup {w} /\ w \notin BusyWorkers
    BY <1>2 DEF BusyWorkers
  <2>3. Cardinality(queue') = Cardinality(queue) - 1 /\ Cardinality(BusyWorkers') = Cardinality(BusyWorkers) + 1
    BY <2>2, ScanFinite, CountUp DEF ScanInv
  <2>4. Cardinality(queue) \in Nat /\ Cardinality(BusyWorkers) \in Nat
    BY CountsAreNumbers DEF ScanInv
  <2> QED BY <2>1, <2>3, <2>4 DEF ScanInv, CountersInv, TypeOK
<1>4. TasksInv'
  BY <1>2 DEF ScanInv, TypeOK, TasksInv, Reading
<1>5. DrainedInv' /\ RangesCovered' /\ FinishedIsComplete'
  BY <1>2 DEF ScanInv, DrainedInv, RangesCovered, FinishedIsComplete
<1> QED BY <1>1, <1>3, <1>4, <1>5 DEF ScanInv

\* A chunk with rows moves a range from its local state to the batch of the task.
LEMMA ReadChunkStep ==
  ASSUME ScanInv, NEW w \in Worker, ReadChunk(w)
  PROVE  ScanInv'
<1> USE DEF ReadChunk, pipeVars
<1> DEFINE i == task[w]
<1>0. i \in Id /\ pc[w] = "scan"
  BY ReaderHasTask DEF ScanInv
<1>1. \E R \in SUBSET (1 .. Ranges) :
        /\ \/ R = held[i] /\ held' = [held EXCEPT ![i] = {}] /\ UNCHANGED unclaimed
           \/ held[i] = {} /\ R \subseteq unclaimed /\ unclaimed' = unclaimed \ R /\ UNCHANGED held
        /\ rows' = [rows EXCEPT ![w] = @ \cup R]
        /\ R # {}
  <2>1. CASE held[i] # {}
    BY <1>0, <2>1 DEF ScanInv, TypeOK
  <2>2. CASE held[i] = {}
    <3>1. PICK r \in unclaimed : /\ unclaimed' = unclaimed \ {r}
                                 /\ rows' = [rows EXCEPT ![w] = @ \cup {r}]
                                 /\ UNCHANGED held
      BY <2>2
    <3>2. {r} \in SUBSET (1 .. Ranges)
      BY DEF ScanInv, TypeOK
    <3> QED BY <2>2, <3>1, <3>2, Zenon
  <2> QED BY <2>1, <2>2
<1>2. PICK R \in SUBSET (1 .. Ranges) :
        /\ \/ R = held[i] /\ held' = [held EXCEPT ![i] = {}] /\ UNCHANGED unclaimed
           \/ held[i] = {} /\ R \subseteq unclaimed /\ unclaimed' = unclaimed \ R /\ UNCHANGED held
        /\ rows' = [rows EXCEPT ![w] = @ \cup R]
        /\ R # {}
  BY <1>1, Zenon
<1>3. /\ pc'[w] \in {"scan", "continue"}
      /\ \A v \in Worker : v # w => pc'[v] = pc[v] /\ rows'[v] = rows[v]
      /\ rows'[w] = rows[w] \cup R
      /\ held'[i] = {} /\ \A j \in Id : j # i => held'[j] = held[j]
  BY <1>0, <1>2, Zenon DEF ScanInv, TypeOK
<1>4. TypeOK'
  <2>1. unclaimed' \subseteq 1 .. Ranges /\ held' \in [Id -> SUBSET (1 .. Ranges)]
    BY <1>0, <1>2, Zenon DEF ScanInv, TypeOK
  <2>2. rows' \in [Worker -> SUBSET (1 .. Ranges)]
    BY <1>2, Zenon DEF ScanInv, TypeOK
  <2> QED BY <2>1, <2>2 DEF ScanInv, TypeOK
<1>5. CountersInv'
  BY DEF ScanInv, CountersInv, CountedStates, BusyWorkers
<1>6. TasksInv'
  BY <1>0, <1>3 DEF ScanInv, TypeOK, TasksInv, Reading
<1>7. DrainedInv'
  <2>1. ~exhausted /\ \A v \in Worker : pc[v] # "drained"
    BY <1>0, <1>2, Zenon DEF ScanInv, DrainedInv
  <2> QED BY <2>1, <1>3 DEF DrainedInv
<1>8. RangesCovered'
  <2> USE <1>0, <1>3 DEF ScanInv, TypeOK, RangesCovered
  <2>1. CASE R = held[i] /\ UNCHANGED unclaimed
    BY <2>1, SMTT(30)
  <2>2. CASE held[i] = {} /\ R \subseteq unclaimed /\ unclaimed' = unclaimed \ R
    BY <2>2, SMTT(30)
  <2> QED BY <2>1, <2>2, <1>2, Zenon
<1>9. FinishedIsComplete'
  BY DEF ScanInv, FinishedIsComplete
<1> QED BY <1>4, <1>5, <1>6, <1>7, <1>8, <1>9, Zenon DEF ScanInv

\* An empty chunk ends a local state; the last of the counted ones finds the table read.
LEMMA EmptyChunkStep ==
  ASSUME ScanInv, NEW w \in Worker, EmptyChunk(w)
  PROVE  ScanInv'
<1> USE DEF EmptyChunk, pipeVars
<1> DEFINE i == task[w]
<1>0. i \in Id /\ pc[w] = "scan" /\ local[i] = "scan"
  BY ReaderHasTask, Zenon DEF ScanInv, TasksInv, Reading
<1>1. /\ pc'[w] \in {"drained", "publish"}
      /\ \A v \in Worker : v # w => pc'[v] = pc[v]
      /\ local'[i] = "drained" /\ \A j \in Id : j # i => local'[j] = local[j]
  BY <1>0, SMTT(30), Zenon DEF ScanInv, TypeOK
<1>2. /\ i \in CountedStates /\ CountedStates' = CountedStates \ {i}
      /\ IsFiniteSet(CountedStates)
  BY <1>0, <1>1, ScanFinite, SMTT(30) DEF CountedStates, ScanInv
<1>3. active = Cardinality(CountedStates) /\ active \in Nat \ {0}
  BY <1>2, CountUp, ZenonT(30) DEF ScanInv, CountersInv
<1>4. TypeOK'
  <2>1. active' \in Nat
    BY <1>3, SMTT(30)
  <2>2. local' \in [Id -> {"unborn", "start", "init", "create", "scan", "drained"}]
    BY <1>0 DEF ScanInv, TypeOK
  <2>3. pc' \in [Worker -> {"idle", "scan", "drained", "continue", "publish", "destroy", "status"}]
    BY DEF ScanInv, TypeOK
  <2> QED BY <2>1, <2>2, <2>3, Zenon DEF ScanInv, TypeOK
<1>5. CountersInv'
  <2>1. active' = Cardinality(CountedStates')
    BY <1>2, <1>3, CountUp
  <2>2. BusyWorkers' = BusyWorkers
    BY SMTT(30), Zenon DEF BusyWorkers
  <2> QED BY <2>1, <2>2 DEF ScanInv, CountersInv
<1>6. TasksInv'
  <2>1. i \notin queue /\ \A v \in Worker : v # w /\ Reading(v) => task[v] # i
    BY <1>0, SMTT(30) DEF ScanInv, TasksInv, Reading
  <2> QED BY <1>0, <1>1, <2>1, ReaderHasTask, SMTT(30), Zenon DEF ScanInv, TypeOK, TasksInv, Reading
<1>7. DrainedInv'
  <2>1. CASE active = 1
    <3>1. CountedStates' = {}
      <4>1. Cardinality(CountedStates \ {i}) = 0
        BY <2>1, <1>2, <1>3, CountUp
      <4>2. IsFiniteSet(CountedStates \ {i})
        BY <1>2, FS_RemoveElement, Zenon
      <4> QED BY <4>1, <4>2, <1>2, CountUp, Zenon
    <3>2. \A j \in Id : held[j] = {}
      BY <3>1, <1>0, <1>1 DEF CountedStates, ScanInv, TasksInv
    <3> QED BY <3>2 DEF DrainedInv
  <2>2. CASE active # 1
    <3>1. pc'[w] = "publish"
      BY <2>2 DEF ScanInv, TypeOK
    <3> QED BY <1>1, <3>1 DEF ScanInv, DrainedInv
  <2> QED BY <2>1, <2>2, Zenon
<1>8. RangesCovered' /\ FinishedIsComplete'
  BY DEF ScanInv, RangesCovered, FinishedIsComplete
<1> QED BY <1>4, <1>5, <1>6, <1>7, <1>8, Zenon DEF ScanInv

\* set_source_drained() keeps the invariant.
LEMMA SetSourceDrainedStep ==
  ASSUME ScanInv, NEW w \in Worker, SetSourceDrained(w)
  PROVE  ScanInv'
<1> USE DEF SetSourceDrained, tableVars, pipeVars
<1>1. TypeOK'
  BY DEF ScanInv, TypeOK
<1>2. /\ pc[w] = "drained" /\ pc'[w] = "publish"
      /\ \A v \in Worker : v # w => pc'[v] = pc[v]
  BY DEF ScanInv, TypeOK
<1>3. CountersInv'
  BY Zenon DEF ScanInv, CountersInv, CountedStates, BusyWorkers
<1>4. TasksInv'
  <2>1. UNCHANGED <<queue, task, rows, local, held>>
    BY Zenon DEF ScanInv
  <2>2. ASSUME NEW v \in Worker
        PROVE  /\ Reading(v)' => Reading(v)
               /\ pc'[v] = pc[v] \/ (pc[v] = "drained" /\ pc'[v] = "publish")
    BY <1>2, ZenonT(30) DEF Reading
  <2> QED BY <2>1, <2>2 DEF ScanInv, TasksInv
<1>5. DrainedInv'
  BY <1>2 DEF ScanInv, DrainedInv
<1>6. RangesCovered' /\ FinishedIsComplete'
  BY DEF ScanInv, RangesCovered, FinishedIsComplete
<1> QED BY <1>1, <1>3, <1>4, <1>5, <1>6, Zenon DEF ScanInv

\* A task that creates its continuation hands its local state over to it.
LEMMA ContinueStep ==
  ASSUME ScanInv, NEW w \in Worker, Continue(w)
  PROVE  ScanInv'
<1> USE DEF Continue, tableVars
<1>0. task[w] \in Id /\ pc[w] = "continue" /\ local[task[w]] = "scan" /\ task[w] \notin queue
  BY ReaderHasTask DEF ScanInv, TasksInv, Reading
<1>1. TypeOK'
  BY <1>0 DEF ScanInv, TypeOK
<1>2. pc'[w] = "publish" /\ \A v \in Worker : v # w => pc'[v] = pc[v]
  BY DEF ScanInv, TypeOK
<1>3. CountersInv'
  <2>1. CountedStates' = CountedStates /\ BusyWorkers' = BusyWorkers
    BY SMTT(30) DEF CountedStates, BusyWorkers
  <2>2. Cardinality(queue') = Cardinality(queue) + 1
    BY <1>0, ScanFinite, CountUp, ZenonT(30) DEF ScanInv
  <2>3. Cardinality(queue) \in Nat /\ Cardinality(BusyWorkers) \in Nat
    BY CountsAreNumbers, Zenon DEF ScanInv
  <2> QED BY <2>1, <2>2, <2>3 DEF ScanInv, CountersInv, TypeOK
<1>4. TasksInv'
  <2>1. \A v \in Worker : v # w /\ Reading(v) => task[v] # task[w]
    BY <1>0 DEF ScanInv, TasksInv, Reading
  <2>2. \A v \in Worker : Reading(v)' => v # w /\ Reading(v)
    BY <1>2, SMTT(30), Zenon DEF Reading
  <2>3. \A v \in Worker : Reading(v)' => local'[task'[v]] = "scan" /\ task'[v] \notin queue'
    BY <2>1, <2>2, Zenon DEF ScanInv, TasksInv
  <2>4. /\ \A i \in queue' : local'[i] = "scan"
        /\ \A i \in Id : held'[i] # {} => local'[i] \in {"create", "scan"}
    BY <1>0, Zenon DEF ScanInv, TasksInv
  <2>5. \A v, u \in Worker : v # u /\ Reading(v)' /\ Reading(u)' => task'[v] # task'[u]
    BY <2>2, Zenon DEF ScanInv, TasksInv
  <2>6. \A v \in Worker :
          /\ task'[v] # None <=> pc'[v] \in {"scan", "drained", "continue", "publish", "destroy"}
          /\ rows'[v] # {} => pc'[v] \in {"scan", "drained", "continue", "publish"}
    BY <1>0, <1>2 DEF ScanInv, TasksInv
  <2> QED BY <2>3, <2>4, <2>5, <2>6, SMTT(30), Zenon DEF TasksInv
<1>5. DrainedInv' /\ RangesCovered' /\ FinishedIsComplete'
  BY <1>2 DEF ScanInv, DrainedInv, RangesCovered, FinishedIsComplete
<1> QED BY <1>1, <1>3, <1>4, <1>5, SMTT(30), Zenon DEF ScanInv

\* The publication of a batch moves its ranges to the repository.
LEMMA PublishStep ==
  ASSUME ScanInv, NEW w \in Worker, Publish(w)
  PROVE  ScanInv'
<1> USE DEF Publish, tableVars, pipeVars
<1>1. TypeOK'
  BY Zenon DEF ScanInv, TypeOK
<1>2. /\ pc[w] = "publish" /\ pc'[w] = "destroy" /\ rows'[w] = {}
      /\ \A v \in Worker : v # w => pc'[v] = pc[v] /\ rows'[v] = rows[v]
      /\ rows[w] \subseteq 1 .. Ranges
  BY Zenon DEF ScanInv, TypeOK
<1>3. CountersInv'
  BY Zenon DEF ScanInv, CountersInv, CountedStates, BusyWorkers
<1>4. TasksInv'
  BY <1>2 DEF ScanInv, TasksInv, Reading
<1>5. DrainedInv' /\ RangesCovered'
  BY <1>2 DEF ScanInv, DrainedInv, RangesCovered
<1>6. FinishedIsComplete'
  BY <1>2 DEF ScanInv, FinishedIsComplete
<1> QED BY <1>1, <1>3, <1>4, <1>5, <1>6 DEF ScanInv

\* The end of a task is counted once.
LEMMA DestroyTaskStep ==
  ASSUME ScanInv, NEW w \in Worker, DestroyTask(w)
  PROVE  ScanInv'
<1> USE DEF DestroyTask, tableVars
<1>1. TypeOK'
  BY DEF ScanInv, TypeOK
<1>2. /\ pc[w] = "destroy" /\ pc'[w] = "status" /\ task[w] # None /\ task'[w] = None
      /\ \A v \in Worker : v # w => pc'[v] = pc[v] /\ task'[v] = task[v]
  BY DEF ScanInv, TypeOK, TasksInv
<1>3. CountersInv'
  <2>1. CountedStates' = CountedStates
    BY DEF CountedStates
  <2>2. BusyWorkers' = BusyWorkers \ {w} /\ w \in BusyWorkers
    BY <1>2, Zenon DEF BusyWorkers
  <2>3. Cardinality(BusyWorkers') = Cardinality(BusyWorkers) - 1
    BY <2>2, ScanFinite, CountUp DEF ScanInv
  <2>4. Cardinality(queue) \in Nat /\ Cardinality(BusyWorkers) \in Nat
    BY CountsAreNumbers, Zenon DEF ScanInv
  <2> QED BY <2>1, <2>3, <2>4 DEF ScanInv, CountersInv, TypeOK
<1>4. TasksInv'
  BY <1>2 DEF ScanInv, TasksInv, Reading
<1>5. DrainedInv' /\ RangesCovered' /\ FinishedIsComplete'
  BY <1>2 DEF ScanInv, DrainedInv, RangesCovered, FinishedIsComplete
<1> QED BY <1>1, <1>3, <1>4, <1>5, Zenon DEF ScanInv

\* update_pipeline_status() declares the pipeline finished only when every task has
\* published.
LEMMA UpdateStatusStep ==
  ASSUME ScanInv, NEW w \in Worker, UpdateStatus(w)
  PROVE  ScanInv'
<1> USE DEF UpdateStatus, tableVars
<1>1. TypeOK'
  BY DEF ScanInv, TypeOK
<1>2. /\ pc[w] = "status" /\ pc'[w] = "idle"
      /\ \A v \in Worker : v # w => pc'[v] = pc[v]
  BY Zenon DEF ScanInv, TypeOK
<1>3. CountersInv'
  BY Zenon DEF ScanInv, CountersInv, CountedStates, BusyWorkers
<1>4. TasksInv'
  <2>1. UNCHANGED <<queue, task, rows, local, held>>
    BY Zenon DEF ScanInv
  <2>2. ASSUME NEW v \in Worker
        PROVE  /\ Reading(v)' => Reading(v)
               /\ pc'[v] # "idle" => pc'[v] = pc[v]
               /\ pc[v] \in {"scan", "drained", "continue", "publish", "destroy"}
                    => pc'[v] = pc[v]
    BY <1>2 DEF Reading
  <2> QED BY <2>1, <2>2 DEF ScanInv, TasksInv
<1>5. DrainedInv' /\ RangesCovered'
  BY <1>2, Zenon DEF ScanInv, DrainedInv, RangesCovered
<1>6. FinishedIsComplete'
  <2>1. ASSUME exhausted, created = completed PROVE published = 1 .. Ranges
    <3>1. Cardinality(queue) \in Nat /\ Cardinality(BusyWorkers) \in Nat
      BY CountsAreNumbers, Zenon DEF ScanInv
    <3>2. Cardinality(BusyWorkers) = 0
      BY <2>1, <3>1, SMTT(30), Zenon DEF ScanInv, CountersInv, TypeOK
    <3>3. \A v \in Worker : rows[v] = {}
      <4>1. BusyWorkers = {}
        BY <3>2, ScanFinite, CountUp, Zenon DEF ScanInv
      <4> QED BY <4>1 DEF BusyWorkers, ScanInv, TasksInv
    <3>4. unclaimed = {} /\ \A i \in Id : held[i] = {}
      BY <2>1 DEF ScanInv, DrainedInv
    <3> QED BY <3>3, <3>4, Zenon DEF ScanInv, RangesCovered, TypeOK
  <2> QED BY <2>1, Zenon DEF ScanInv, FinishedIsComplete
<1> QED BY <1>1, <1>3, <1>4, <1>5, <1>6, Zenon DEF ScanInv

\* The invariant holds when the scan starts,
LEMMA ScanInit == Init => ScanInv
<1> SUFFICES ASSUME Init PROVE ScanInv
  OBVIOUS
<1> USE DEF Init
<1>1. TypeOK
  <2>1. held \in [Id -> SUBSET (1 .. Ranges)] /\ rows \in [Worker -> SUBSET (1 .. Ranges)]
    BY Zenon
  <2>2. task \in [Worker -> Id \cup {None}]
    BY Zenon
  <2>3. /\ local \in [Id -> {"unborn", "start", "init", "create", "scan", "drained"}]
        /\ pc \in [Worker -> {"idle", "scan", "drained", "continue", "publish", "destroy", "status"}]
    OBVIOUS
  <2>4. /\ unclaimed \subseteq 1 .. Ranges /\ published \subseteq 1 .. Ranges /\ queue \subseteq Id
        /\ active \in Nat /\ total \in Nat /\ created \in Nat /\ completed \in Nat
        /\ requests \in 0 .. 1
    OBVIOUS
  <2>5. exhausted \in BOOLEAN /\ finished \in BOOLEAN
    BY Zenon
  <2> QED BY <2>1, <2>2, <2>3, <2>4, <2>5, Zenon DEF TypeOK
<1>2. CountersInv
  <2>1. CountedStates = {} /\ BusyWorkers = {}
    BY DEF CountedStates, BusyWorkers
  <2> QED BY <2>1, FS_EmptySet DEF CountersInv
<1>3. TasksInv
  BY DEF TasksInv, Reading
<1>4. DrainedInv /\ FinishedIsComplete
  BY DEF DrainedInv, FinishedIsComplete
<1>5. RangesCovered
  BY DEF RangesCovered
<1> QED BY <1>1, <1>2, <1>3, <1>4, <1>5 DEF ScanInv

\* ... and every step keeps it.
LEMMA ScanStep == ScanInv /\ [Next]_vars => ScanInv'
<1> SUFFICES ASSUME ScanInv, [Next]_vars PROVE ScanInv'
  OBVIOUS
<1>1. CASE ConsumerRequest \/ (\E i \in Id : TakeRequest(i)) \/ Terminated \/ UNCHANGED vars
  BY <1>1, RequestStep DEF Terminated
<1>2. CASE \E i \in Id : CreatorStep(i)
  BY <1>2, CountLocalStateStep, InitLocalStep, CreateTaskStep, Zenon DEF CreatorStep
<1>3. CASE \E w \in Worker : WorkerStep(w)
  BY <1>3, TakeTaskStep, ReadChunkStep, EmptyChunkStep, SetSourceDrainedStep, ContinueStep,
     PublishStep, DestroyTaskStep, UpdateStatusStep, Zenon DEF WorkerStep
<1> QED BY <1>1, <1>2, <1>3 DEF Next

\* ... so that it always holds.
LEMMA ScanInvariant == Spec => []ScanInv
BY ScanInit, ScanStep, PTL DEF Spec

\* update_pipeline_status(): when the pipeline of the scan is declared finished, every
\* range of the table has been published to the sink's repository.
THEOREM FinishedScanIsComplete == Spec => []FinishedIsComplete
<1>1. ScanInv => FinishedIsComplete
  BY Zenon DEF ScanInv
<1> QED BY <1>1, ScanInvariant, PTL

\* set_source_drained(): when the source is declared drained no range is unclaimed and no
\* local state holds one.
THEOREM ExhaustedScanIsRead == Spec => []ExhaustedMeansRead
<1>1. ScanInv => ExhaustedMeansRead
  BY SMTT(30) DEF ScanInv, DrainedInv, ExhaustedMeansRead
<1> QED BY <1>1, ScanInvariant, PTL

-----------------------------------------------------------------------------
\* A sequence of anything.
IsSeq(s) == \E S : s \in Seq(S)

\* A queue without its element at position i, as IoDone leaves it.
Without(s, i) == SubSeq(s, 1, i - 1) \o SubSeq(s, i + 1, Len(s))

\* Append.
LEMMA AppendFacts ==
  ASSUME NEW S, NEW s \in Seq(S), NEW x \in S
  PROVE  /\ Append(s, x) \in Seq(S) /\ Len(Append(s, x)) = Len(s) + 1
         /\ \A i \in 1 .. Len(s) : Append(s, x)[i] = s[i]
         /\ Append(s, x)[Len(s) + 1] = x
OBVIOUS

\* SubSeq.
LEMMA SubSeqFacts ==
  ASSUME NEW S, NEW s \in Seq(S), NEW m \in 1 .. Len(s) + 1, NEW n \in m - 1 .. Len(s)
  PROVE  /\ SubSeq(s, m, n) \in Seq(S) /\ Len(SubSeq(s, m, n)) = n - m + 1
         /\ \A i \in 1 .. n - m + 1 : SubSeq(s, m, n)[i] = s[m + i - 1]
OBVIOUS

\* Concatenation.
LEMMA ConcatFacts ==
  ASSUME NEW S, NEW s \in Seq(S), NEW t \in Seq(S)
  PROVE  /\ s \o t \in Seq(S) /\ Len(s \o t) = Len(s) + Len(t)
         /\ \A i \in 1 .. Len(s) + Len(t) : (s \o t)[i] = IF i <= Len(s) THEN s[i] ELSE t[i - Len(s)]
         /\ s \o <<>> = s
OBVIOUS

\* up says at which position of s the elements of u were: at every position but i.
Shifted(u, s, i, up) ==
    /\ \A k \in DOMAIN u : up[k] \in DOMAIN s /\ up[k] # i /\ u[k] = s[up[k]]
    /\ \A j, k \in DOMAIN u : up[j] = up[k] => j = k
    /\ \A m \in DOMAIN s : m # i => \E k \in DOMAIN u : up[k] = m

\* Removing one position keeps the other elements, each at one position.
LEMMA OneRemoved ==
  ASSUME NEW S, NEW s \in Seq(S), NEW i \in DOMAIN s, NEW u, u = Without(s, i)
  PROVE  /\ u \in Seq(S)
         /\ \E up : Shifted(u, s, i, up)
<1> DEFINE a == SubSeq(s, 1, i - 1)
           b == SubSeq(s, i + 1, Len(s))
<1>1. i \in 1 .. Len(s) /\ Len(s) \in Nat /\ DOMAIN s = 1 .. Len(s)
  OBVIOUS
<1>2. a \in Seq(S) /\ Len(a) = i - 1 /\ \A j \in 1 .. i - 1 : a[j] = s[j]
  BY <1>1, SubSeqFacts
<1>3. b \in Seq(S) /\ Len(b) = Len(s) - i /\ \A j \in 1 .. Len(s) - i : b[j] = s[i + j]
  <2>1. i + 1 \in 1 .. Len(s) + 1 /\ Len(s) \in (i + 1) - 1 .. Len(s)
    BY <1>1
  <2>2. /\ b \in Seq(S) /\ Len(b) = Len(s) - (i + 1) + 1
        /\ \A j \in 1 .. Len(s) - (i + 1) + 1 : b[j] = s[(i + 1) + j - 1]
    BY <2>1, SubSeqFacts, Zenon
  <2> QED BY <1>1, <2>2
<1>4. u = a \o b
  BY DEF Without
<1> HIDE DEF a, b
<1>5. /\ u \in Seq(S) /\ Len(u) = Len(a) + Len(b)
      /\ \A j \in 1 .. Len(a) + Len(b) : u[j] = IF j <= Len(a) THEN a[j] ELSE b[j - Len(a)]
  <2>1. /\ a \o b \in Seq(S) /\ Len(a \o b) = Len(a) + Len(b)
        /\ \A j \in 1 .. Len(a) + Len(b) : (a \o b)[j] = IF j <= Len(a) THEN a[j] ELSE b[j - Len(a)]
    BY <1>2, <1>3, ConcatFacts, Zenon
  <2> QED BY <1>4, <2>1, Zenon
<1>6. Len(u) = Len(s) - 1 /\ DOMAIN u = 1 .. Len(s) - 1
  BY <1>1, <1>2, <1>3, <1>5
<1>7. ASSUME NEW j \in 1 .. Len(s) - 1
      PROVE  u[j] = IF j < i THEN s[j] ELSE s[j + 1]
  <2>1. CASE j < i
    BY <2>1, <1>1, <1>2, <1>5, <1>6
  <2>2. CASE ~(j < i)
    <3>1. j - Len(a) \in 1 .. Len(s) - i /\ i + (j - Len(a)) = j + 1
      BY <2>2, <1>1, <1>2
    <3>2. u[j] = b[j - Len(a)]
      BY <2>2, <1>1, <1>2, <1>5, <1>6
    <3> QED BY <2>2, <3>1, <3>2, <1>3, Zenon
  <2> QED BY <2>1, <2>2, Zenon
<1>8. PICK up : up = [k \in 1 .. Len(s) - 1 |-> IF k < i THEN k ELSE k + 1]
  BY Zenon
<1>9. \A k \in DOMAIN u : up[k] \in DOMAIN s /\ up[k] # i /\ u[k] = s[up[k]]
  BY <1>1, <1>6, <1>7, <1>8
<1>10. \A j, k \in DOMAIN u : up[j] = up[k] => j = k
  BY <1>1, <1>6, <1>8
<1>11. ASSUME NEW m \in DOMAIN s, m # i PROVE \E k \in DOMAIN u : up[k] = m
  <2>1. CASE m < i
    BY <1>1, <1>6, <1>8, <2>1
  <2>2. CASE m > i
    <3>1. m - 1 \in DOMAIN u /\ up[m - 1] = m
      BY <1>1, <1>6, <1>8, <2>2
    <3> QED BY <3>1, Zenon
  <2> QED BY <1>1, <1>11, <2>1, <2>2
<1>12. Shifted(u, s, i, up)
  BY <1>9, <1>10, <1>11, Zenon DEF Shifted
<1> QED BY <1>5, <1>12, Zenon

-----------------------------------------------------------------------------
(* The prefetching cache *)

\* A cache entry; "queued" is declared and tested for but never set.
EntryShape(x) ==
    /\ x = [st |-> x.st, pins |-> x.pins, chunks |-> x.chunks, data |-> x.data, ntot |-> x.ntot,
            nreq |-> x.nreq, rts |-> x.rts, cts |-> x.cts, inLru |-> x.inLru]
    /\ x.st \in {"empty", "loading", "cached", "in_use"} /\ x.rts \in Nat

\* The entries, the readers, both threads and the batches at the backend.
CacheShapes ==
    /\ ent = [e \in Entries |-> ent[e]] /\ \A e \in Entries : EntryShape(ent[e])
    /\ rd = [r \in PReaders |-> rd[r]]
    /\ \A r \in PReaders : rd[r] = [pc |-> rd[r].pc, e |-> rd[r].e] /\ rd[r].e \in Entries
    /\ wk = [pc |-> wk.pc, item |-> wk.item, need |-> wk.need, ptrs |-> wk.ptrs]
    /\ ev = [pc |-> ev.pc, got |-> ev.got, age |-> ev.age, pos |-> ev.pos, cur |-> ev.cur]
    /\ IsSeq(pio)
    /\ \A i \in DOMAIN pio : pio[i].es \subseteq Entries

\* The age an eviction pass works with is never ahead of the cache.
AgeInv ==
    /\ age \in Nat /\ ev.age \in Nat /\ ev.age <= age
    /\ ins = [pc |-> ins.pc, tick |-> ins.tick, n |-> ins.n] /\ ins.tick \in Nat

\* The readers with a pin on an entry.
Pinning(e) == {r \in PReaders : rd[r].e = e /\ rd[r].pc \in {"pinned", "releasing"}}

\* An entry is in use exactly while a reader, or the stream of one, holds it.
PinsInv ==
    \A e \in Entries : /\ ent[e].pins = Cardinality(Pinning(e))
                       /\ ent[e].st = "in_use" <=> Pinning(e) # {}

\* Until the destructor starts an entry is loading exactly while a batch with it is
\* at the backend, one batch.
LoadInv ==
    pd = "no" =>
       /\ \A e \in Entries : ent[e].st = "loading" <=> \E i \in DOMAIN pio : e \in pio[i].es
       /\ \A i, k \in DOMAIN pio : pio[i].es \cap pio[k].es # {} => i = k
       /\ \A e \in Entries : /\ ent[e].st # "empty" => ent[e].chunks = ChunksOf[e]
                             /\ ent[e].st \in {"cached", "in_use"} => ent[e].data

\* The worker took chunks for whole ranges.
NeedInv == wk.pc = "admit" \/ wk.pc = "evict" => \A e \in Entries : wk.need[e] \in {0, ChunksOf[e]}

\* The inductive invariant of the cache.
CaInv == CacheShapes /\ AgeInv /\ PinsInv /\ LoadInv /\ NeedInv /\ pd \in {"no", "stop", "done"}

\* No entry is loaded at first.
LEMMA InitialCache == PInit => CaInv
<1> SUFFICES ASSUME PInit PROVE CaInv
  OBVIOUS
<1>1. pd = "no" /\ pio = <<>> /\ age = 1
  BY ZenonT(30) DEF PInit
<1>2. \A e \in Entries : ent[e] = NewEntry
  <2>1. ent = [e \in Entries |-> NewEntry]
    BY ZenonT(30) DEF PInit
  <2> QED BY <2>1, Zenon
<1>3. \A e \in Entries : EntryShape(ent[e]) /\ ent[e].st = "empty" /\ ent[e].pins = 0
  BY <1>2, SMTT(30) DEF NewEntry, EntryShape
<1>4. (CHOOSE e \in Entries : TRUE) \in Entries
  BY EntriesAssumption
<1>5. PICK c \in Entries : rd = [r \in PReaders |-> [pc |-> "idle", e |-> c]]
  BY <1>4, Zenon DEF PInit
<1>6. \A r \in PReaders : rd[r] = [pc |-> "idle", e |-> c]
  BY <1>5, SMTT(30), Zenon
<1>7. CacheShapes
  <2>1. ent = [e \in Entries |-> ent[e]] /\ rd = [r \in PReaders |-> rd[r]]
    BY <1>5, Zenon DEF PInit
  <2>2. IsSeq(pio) /\ DOMAIN pio = {}
    <3>1. <<>> \in Seq({}) /\ DOMAIN <<>> = {}
      OBVIOUS
    <3> QED BY <1>1, <3>1, Zenon DEF IsSeq
  <2>3. wk = [pc |-> wk.pc, item |-> wk.item, need |-> wk.need, ptrs |-> wk.ptrs]
    BY Zenon DEF PInit
  <2>4. ev = [pc |-> ev.pc, got |-> ev.got, age |-> ev.age, pos |-> ev.pos, cur |-> ev.cur]
    BY Zenon DEF PInit
  <2> QED BY <1>3, <1>6, <2>1, <2>2, <2>3, <2>4, SMTT(30), Zenon DEF CacheShapes
<1>8. PinsInv
  <2>1. \A e \in Entries : Pinning(e) = {}
    BY <1>6, SMTT(30), Zenon DEF Pinning
  <2> QED BY <1>3, <2>1, FS_EmptySet, ZenonT(30) DEF PinsInv
<1>9. LoadInv
  <2>1. DOMAIN pio = {}
    <3>1. DOMAIN <<>> = {}
      OBVIOUS
    <3> QED BY <1>1, <3>1, Zenon
  <2>2. \A e \in Entries : ent[e].st = "empty"
    BY <1>3, ZenonT(30)
  <2> QED BY <2>1, <2>2, SMTT(30) DEF LoadInv
<1>10. AgeInv /\ NeedInv
  <2>1. /\ ins = [pc |-> "idle", tick |-> 0, n |-> 0]
        /\ wk = [pc |-> "unborn", item |-> {}, need |-> [e \in Entries |-> 0], ptrs |-> 0]
        /\ ev = [pc |-> "unborn", got |-> 0, age |-> 0, pos |-> 1, cur |-> 1]
    BY Zenon DEF PInit
  <2> QED BY <1>1, <2>1 DEF AgeInv, NeedInv
<1> QED BY <1>1, <1>7, <1>8, <1>9, <1>10, SMTT(30), Zenon DEF CaInv

\* The invariant says what a reader relies on: an entry it can see is filled, and one it
\* holds is pinned by it (VisibleIsLoaded and PinsProtect).
LEMMA CacheInvariantSuffices == CaInv => ReadersProtected
<1> SUFFICES ASSUME CaInv, pd = "no", NEW e \in Entries
             PROVE  /\ ent[e].st \in {"cached", "in_use"} => ent[e].chunks = ChunksOf[e] /\ ent[e].data
                    /\ ent[e].pins > 0 => ent[e].st = "in_use" /\ ent[e].chunks = ChunksOf[e]
                    /\ ent[e].pins = Cardinality(Pinning(e))
  BY Zenon DEF ReadersProtected, VisibleIsLoaded, PinsProtect, Pinning
<1>1. ent[e].pins = Cardinality(Pinning(e)) /\ (ent[e].st = "in_use" <=> Pinning(e) # {})
  BY DEF CaInv, PinsInv
<1>2. Pinning(e) = {} => Cardinality(Pinning(e)) = 0
  BY FS_EmptySet, Zenon
<1>3. /\ ent[e].st # "empty" => ent[e].chunks = ChunksOf[e]
      /\ ent[e].st \in {"cached", "in_use"} => ent[e].data
  BY DEF CaInv, LoadInv
<1> QED BY <1>1, <1>2, <1>3, SMTT(30)

\* A step in which no cached entry is emptied.
NoneEvicted == \A e \in Entries : ent[e].st = "cached" => ent'[e].st # "empty"

\* Steps that leave the visible part of the entries, the readers and the batches alone.
LEMMA QuietEntries ==
  ASSUME CaInv, rd' = rd, pio' = pio, pd' = pd,
         \A e \in Entries : /\ ent'[e].st = ent[e].st /\ ent'[e].pins = ent[e].pins
                            /\ ent'[e].chunks = ent[e].chunks /\ ent'[e].data = ent[e].data
  PROVE  PinsInv' /\ LoadInv' /\ NoneEvicted
<1>1. \A e \in Entries : Pinning(e)' = Pinning(e)
  BY Zenon DEF Pinning
<1>2. PinsInv' /\ NoneEvicted
  BY <1>1, Zenon DEF CaInv, PinsInv, NoneEvicted
<1>3. LoadInv'
  BY DEF CaInv, LoadInv
<1> QED BY <1>2, <1>3, Zenon

\* Steps that leave the entries, the readers and the batches alone.
LEMMA NothingMoves ==
  ASSUME CaInv, UNCHANGED <<ent, rd, pio, pd>>, AgeInv', NeedInv',
         wk' = [pc |-> wk'.pc, item |-> wk'.item, need |-> wk'.need, ptrs |-> wk'.ptrs],
         ev' = [pc |-> ev'.pc, got |-> ev'.got, age |-> ev'.age, pos |-> ev'.pos, cur |-> ev'.cur]
  PROVE  CaInv' /\ NoneEvicted
<1>1. CacheShapes'
  BY Zenon DEF CaInv, CacheShapes
<1>2. PinsInv' /\ LoadInv' /\ NoneEvicted
  BY QuietEntries, Zenon
<1> QED BY <1>1, <1>2, SMTT(30), Zenon DEF CaInv

\* Steps that change only what the eviction policy reads of the entries.
LEMMA OnlyPolicy ==
  ASSUME CaInv, UNCHANGED <<rd, pio, pd, wk>>, AgeInv',
         ev' = [pc |-> ev'.pc, got |-> ev'.got, age |-> ev'.age, pos |-> ev'.pos, cur |-> ev'.cur],
         ent' = [e \in Entries |-> ent'[e]], \A e \in Entries : EntryShape(ent'[e]),
         \A e \in Entries : /\ ent'[e].st = ent[e].st /\ ent'[e].pins = ent[e].pins
                            /\ ent'[e].chunks = ent[e].chunks /\ ent'[e].data = ent[e].data
  PROVE  CaInv' /\ NoneEvicted
<1>1. CacheShapes' /\ NeedInv'
  BY Zenon DEF CaInv, CacheShapes, NeedInv
<1>2. PinsInv' /\ LoadInv' /\ NoneEvicted
  BY QuietEntries
<1> QED BY <1>1, <1>2, SMTT(30), Zenon DEF CaInv

\* What the invariant says of the shapes, in one place.
LEMMA ShapeFacts ==
  ASSUME CaInv
  PROVE  /\ ent = [e \in Entries |-> ent[e]] /\ \A e \in Entries : EntryShape(ent[e])
         /\ rd = [r \in PReaders |-> rd[r]]
         /\ \A r \in PReaders : rd[r] = [pc |-> rd[r].pc, e |-> rd[r].e] /\ rd[r].e \in Entries
         /\ wk = [pc |-> wk.pc, item |-> wk.item, need |-> wk.need, ptrs |-> wk.ptrs]
         /\ ev = [pc |-> ev.pc, got |-> ev.got, age |-> ev.age, pos |-> ev.pos, cur |-> ev.cur]
BY ZenonT(30) DEF CaInv, CacheShapes

\* insert() touches the request counters and ticks.
LEMMA InsertKeeps ==
  ASSUME CaInv, NEW S, PInsert(S)
  PROVE  CaInv' /\ NoneEvicted
<1>1. UNCHANGED <<age, rd, wk, ev, pio, pd>>
  BY Zenon DEF PInsert
<1>2. ASSUME NEW e \in Entries
      PROVE  /\ EntryShape(ent'[e])
             /\ ent'[e].st = ent[e].st /\ ent'[e].pins = ent[e].pins
             /\ ent'[e].chunks = ent[e].chunks /\ ent'[e].data = ent[e].data
  <2>1. EntryShape(ent[e])
    BY ShapeFacts
  <2>2. PICK n : ent'[e] = ent[e] \/ ent'[e] = [ent[e] EXCEPT !.ntot = @ + 1, !.rts = ins.tick, !.nreq = n]
    BY Zenon DEF PInsert
  <2>3. ins.tick \in Nat
    BY SMTT(30) DEF CaInv, AgeInv
  <2> QED BY <2>1, <2>2, <2>3, Zenon DEF EntryShape
<1>3. ent' = [e \in Entries |-> ent'[e]]
  BY ZenonT(30) DEF PInsert
<1>4. AgeInv'
  BY <1>1, Zenon DEF CaInv, AgeInv, PInsert
<1> QED BY <1>1, <1>2, <1>3, <1>4, ShapeFacts, OnlyPolicy, SMTT(30), Zenon

\* refresh_cache() drops the work items; no entry is in state "queued".
LEMMA RefreshKeeps ==
  ASSUME CaInv, PRefresh
  PROVE  CaInv' /\ NoneEvicted
<1>1. UNCHANGED <<ins, rd, wk, ev, pio, pd>> /\ age' = age + 1
  BY DEF PRefresh
<1>2. ASSUME NEW e \in Entries PROVE ent'[e] = ent[e]
  BY ShapeFacts, Zenon DEF PRefresh, TryCancelQueued, EntryShape
<1>3. ent' = [e \in Entries |-> ent'[e]]
  BY Zenon DEF PRefresh
<1>4. AgeInv'
  BY <1>1 DEF CaInv, AgeInv
<1> QED BY <1>1, <1>2, <1>3, <1>4, ShapeFacts, OnlyPolicy, SMTT(30), Zenon

\* The evictor files its candidates.
LEMMA RefileKeeps ==
  ASSUME CaInv, EvPoll \/ EvRound
  PROVE  CaInv' /\ NoneEvicted
<1>1. UNCHANGED <<age, ins, rd, wk, pio, pd>> /\ Refile
  BY DEF EvPoll, EvRound
<1>2. ASSUME NEW e \in Entries
      PROVE  /\ EntryShape(ent'[e])
             /\ ent'[e].st = ent[e].st /\ ent'[e].pins = ent[e].pins
             /\ ent'[e].chunks = ent[e].chunks /\ ent'[e].data = ent[e].data
  <2>1. EntryShape(ent[e])
    BY ShapeFacts
  <2>2. ent'[e] = ent[e] \/ ent'[e] = [ent[e] EXCEPT !.inLru = TRUE]
    BY <1>1 DEF Refile
  <2> QED BY <2>1, <2>2 DEF EntryShape
<1>3. ent' = [e \in Entries |-> ent'[e]]
  BY <1>1 DEF Refile
<1>4. /\ ev' = [pc |-> ev'.pc, got |-> ev'.got, age |-> ev'.age, pos |-> ev'.pos, cur |-> ev'.cur]
      /\ ev'.age \in {ev.age, age}
  BY ShapeFacts, Zenon DEF EvPoll, EvRound
<1>5. AgeInv'
  BY <1>1, <1>4 DEF CaInv, AgeInv
<1> QED BY <1>1, <1>2, <1>3, <1>4, <1>5, OnlyPolicy

\* A reader that is done keeps its place.
LEMMA ReaderIdles ==
  ASSUME CaInv, NEW r \in PReaders, rd' = [rd EXCEPT ![r].pc = "idle"]
  PROVE  /\ rd' = [q \in PReaders |-> rd'[q]] /\ rd'[r] = [pc |-> "idle", e |-> rd[r].e]
         /\ \A q \in PReaders : q # r => rd'[q] = rd[q]
<1>1. rd = [q \in PReaders |-> rd[q]]
  BY ShapeFacts
<1>2. rd[r] = [pc |-> rd[r].pc, e |-> rd[r].e]
  BY ShapeFacts
<1>3. /\ rd' = [q \in PReaders |-> rd'[q]] /\ rd'[r] = [rd[r] EXCEPT !.pc = "idle"]
      /\ \A q \in PReaders : q # r => rd'[q] = rd[q]
  BY <1>1
<1>4. rd'[r] = [pc |-> "idle", e |-> rd[r].e]
  BY <1>2, <1>3
<1> QED BY <1>3, <1>4

\* A reader that finds an entry cached pins it; one that finds it loading waits.
LEMMA LookKeeps ==
  ASSUME CaInv, NEW r \in PReaders, NEW e \in Entries, rd[r].pc \in {"idle", "waiting"},
         PLook(r, e), UNCHANGED <<age, ins, wk, ev, pio, pd>>
  PROVE  CaInv' /\ NoneEvicted
<1>1. EntryShape(ent[e]) /\ \A x \in Entries : r \notin Pinning(x)
  BY ShapeFacts, Zenon DEF Pinning
<1>2. AgeInv' /\ NeedInv' /\ pd' \in {"no", "stop", "done"}
  BY Zenon DEF CaInv, AgeInv, NeedInv
<1>3. CASE /\ CanAcquire(ent[e])
           /\ ent' = [ent EXCEPT ![e] = [Acquired(ent[e]) EXCEPT !.cts = age, !.nreq = @ - 1]]
           /\ rd' = [rd EXCEPT ![r] = [pc |-> "pinned", e |-> e]]
  <2>1. PICK y : y = [Acquired(ent[e]) EXCEPT !.cts = age, !.nreq = @ - 1]
    BY Zenon
  <2>2. /\ EntryShape(y) /\ y.st = "in_use" /\ y.pins = ent[e].pins + 1
        /\ y.chunks = ent[e].chunks /\ y.data = ent[e].data
    BY <1>1, <2>1, Zenon DEF EntryShape, Acquired
  <2>3. /\ ent' = [x \in Entries |-> ent'[x]] /\ ent'[e] = y
        /\ \A x \in Entries : x # e => ent'[x] = ent[x]
    BY <1>3, <2>1, ShapeFacts, Zenon
  <2>4. /\ rd' = [q \in PReaders |-> rd'[q]] /\ rd'[r] = [pc |-> "pinned", e |-> e]
        /\ \A q \in PReaders : q # r => rd'[q] = rd[q]
    BY <1>3, ShapeFacts, ZenonT(30)
  <2>5. CacheShapes'
    BY <2>2, <2>3, <2>4 DEF CaInv, CacheShapes
  <2>6. /\ Pinning(e)' = Pinning(e) \cup {r}
        /\ \A x \in Entries : x # e => Pinning(x)' = Pinning(x)
    BY <1>1, <2>4, SMTT(30) DEF Pinning
  <2>7. IsFiniteSet(Pinning(e)) /\ Cardinality(Pinning(e)) + 1 = Cardinality(Pinning(e)')
    BY <1>1, <2>6, EntriesAssumption, FS_Subset, FS_AddElement, Zenon DEF Pinning
  <2>8. PinsInv'
    BY <2>2, <2>3, <2>6, <2>7, Zenon DEF CaInv, PinsInv
  <2>9. ent[e].st \in {"cached", "in_use"} /\ NoneEvicted
    BY <1>3, <2>2, <2>3, ZenonT(30) DEF CanAcquire, NoneEvicted
  <2>10. ASSUME pd = "no", NEW x \in Entries
         PROVE  /\ ent'[x].st = "loading" <=> ent[x].st = "loading"
                /\ ent'[x].st # "empty" => ent'[x].chunks = ChunksOf[x]
                /\ ent'[x].st \in {"cached", "in_use"} => ent'[x].data
    <3>1. /\ ent[x].st # "empty" => ent[x].chunks = ChunksOf[x]
          /\ ent[x].st \in {"cached", "in_use"} => ent[x].data
      BY <2>10, Zenon DEF CaInv, LoadInv
    <3> QED BY <2>2, <2>3, <2>9, <3>1
  <2>11. LoadInv'
    BY <2>10, Zenon DEF CaInv, LoadInv
  <2> QED BY <1>2, <2>5, <2>8, <2>9, <2>11, Zenon DEF CaInv
<1>4. CASE rd' = [rd EXCEPT ![r] = [pc |-> "waiting", e |-> e]] /\ UNCHANGED ent
  <2>1. /\ rd' = [q \in PReaders |-> rd'[q]] /\ rd'[r] = [pc |-> "waiting", e |-> e]
        /\ \A q \in PReaders : q # r => rd'[q] = rd[q]
    BY <1>4, ShapeFacts, ZenonT(30)
  <2>2. CacheShapes'
    BY <1>4, <2>1, Zenon DEF CaInv, CacheShapes
  <2>3. \A x \in Entries : Pinning(x)' = Pinning(x)
    BY <1>1, <2>1, SMTT(30) DEF Pinning
  <2>4. PinsInv' /\ LoadInv' /\ NoneEvicted
    <3>1. PinsInv'
      BY <1>4, <2>3, Zenon DEF CaInv, PinsInv
    <3>2. LoadInv'
      BY <1>4, ZenonT(30) DEF CaInv, LoadInv
    <3>3. NoneEvicted
      BY <1>4, Zenon DEF NoneEvicted
    <3> QED BY <3>1, <3>2, <3>3, Zenon
  <2> QED BY <1>2, <2>2, <2>4, Zenon DEF CaInv
<1>5. CASE ent' = [ent EXCEPT ![e].nreq = @ - 1] /\ rd' = [rd EXCEPT ![r].pc = "idle"]
  <2>1. /\ rd' = [q \in PReaders |-> rd'[q]] /\ rd'[r] = [pc |-> "idle", e |-> rd[r].e]
        /\ \A q \in PReaders : q # r => rd'[q] = rd[q]
    BY <1>5, ReaderIdles, Zenon
  <2>2. PICK y : y = [ent[e] EXCEPT !.nreq = @ - 1]
    BY Zenon
  <2>3. /\ EntryShape(y) /\ y.st = ent[e].st /\ y.pins = ent[e].pins
        /\ y.chunks = ent[e].chunks /\ y.data = ent[e].data
    BY <1>1, <2>2 DEF EntryShape
  <2>4. /\ ent' = [x \in Entries |-> ent'[x]] /\ ent'[e] = y
        /\ \A x \in Entries : x # e => ent'[x] = ent[x]
    BY <1>5, <2>2, ShapeFacts, ZenonT(30)
  <2>5. CacheShapes'
    BY <2>1, <2>3, <2>4, SMTT(30), Zenon DEF CaInv, CacheShapes
  <2>6. \A x \in Entries : Pinning(x)' = Pinning(x)
    BY <1>1, <2>1 DEF Pinning
  <2>7. PinsInv' /\ LoadInv' /\ NoneEvicted
    <3>1. \A x \in Entries : /\ ent'[x].st = ent[x].st /\ ent'[x].pins = ent[x].pins
                             /\ ent'[x].chunks = ent[x].chunks /\ ent'[x].data = ent[x].data
      BY <2>3, <2>4, Zenon
    <3>2. PinsInv'
      BY <2>6, <3>1, ZenonT(30) DEF CaInv, PinsInv
    <3>3. LoadInv'
      BY <3>1, ZenonT(30) DEF CaInv, LoadInv
    <3>4. NoneEvicted
      BY <3>1, ZenonT(30) DEF NoneEvicted
    <3> QED BY <3>2, <3>3, <3>4, Zenon
  <2> QED BY <1>2, <2>5, <2>7, Zenon DEF CaInv
<1> QED BY <1>3, <1>4, <1>5, Zenon DEF PLook

\* Released: the last pin makes the entry evictable again.
LEMMA ReleaseKeeps ==
  ASSUME CaInv, NEW r \in PReaders, rd[r].pc \in {"pinned", "releasing"},
         rd' = [rd EXCEPT ![r].pc = "idle"], ent' = [ent EXCEPT ![rd[r].e] = Released(@)],
         UNCHANGED <<age, ins, wk, ev, pio, pd>>
  PROVE  CaInv' /\ NoneEvicted
<1>1. PICK e \in Entries : e = rd[r].e
  BY ShapeFacts
<1>2. EntryShape(ent[e]) /\ r \in Pinning(e)
  BY <1>1, ShapeFacts DEF Pinning
<1>3. AgeInv' /\ NeedInv'
  BY DEF CaInv, AgeInv, NeedInv
<1>4. ent[e].st = "in_use" /\ ent[e].pins = Cardinality(Pinning(e))
  BY <1>2 DEF CaInv, PinsInv
<1>5. PICK y : y = Released(ent[e])
  BY Zenon
<1>6. /\ EntryShape(y) /\ y.st = (IF ent[e].pins = 1 THEN "cached" ELSE "in_use")
      /\ y.pins = ent[e].pins - 1 /\ y.chunks = ent[e].chunks /\ y.data = ent[e].data
  BY <1>2, <1>5, Zenon DEF EntryShape, Released
<1>7. /\ ent' = [x \in Entries |-> ent'[x]] /\ ent'[e] = y
      /\ \A x \in Entries : x # e => ent'[x] = ent[x]
  BY <1>1, <1>5, ShapeFacts, Zenon
<1>8. /\ rd' = [q \in PReaders |-> rd'[q]] /\ rd'[r] = [pc |-> "idle", e |-> rd[r].e]
      /\ \A q \in PReaders : q # r => rd'[q] = rd[q]
  BY ReaderIdles, ZenonT(30)
<1>9. CacheShapes'
  BY <1>1, <1>6, <1>7, <1>8 DEF CaInv, CacheShapes
<1>10. /\ Pinning(e)' = Pinning(e) \ {r}
       /\ \A x \in Entries : x # e => Pinning(x)' = Pinning(x)
  BY <1>1, <1>8 DEF Pinning
<1>11. /\ IsFiniteSet(Pinning(e)) /\ Cardinality(Pinning(e)) \in Nat
       /\ Cardinality(Pinning(e)') = Cardinality(Pinning(e)) - 1
       /\ Pinning(e)' = {} <=> Cardinality(Pinning(e)') = 0
  <2>1. IsFiniteSet(Pinning(e))
    BY EntriesAssumption, FS_Subset DEF Pinning
  <2>2. Cardinality(Pinning(e) \ {r}) = Cardinality(Pinning(e)) - 1 /\ IsFiniteSet(Pinning(e) \ {r})
    BY <1>2, <2>1, FS_RemoveElement
  <2> QED BY <1>10, <2>1, <2>2, FS_CardinalityType, FS_EmptySet, Zenon
<1>12. y.st = "in_use" <=> Pinning(e)' # {}
  BY <1>4, <1>6, <1>11
<1>13. PinsInv'
  <2>1. ent'[e].pins = Cardinality(Pinning(e)') /\ (ent'[e].st = "in_use" <=> Pinning(e)' # {})
    BY <1>4, <1>6, <1>7, <1>11, <1>12, SMTT(30), Zenon
  <2>2. ASSUME NEW x \in Entries, x # e
        PROVE  /\ ent'[x].pins = Cardinality(Pinning(x)')
               /\ ent'[x].st = "in_use" <=> Pinning(x)' # {}
    BY <1>7, <1>10, <2>2 DEF CaInv, PinsInv
  <2> QED BY <2>1, <2>2 DEF PinsInv
<1>14. NoneEvicted
  BY <1>4, <1>7, Zenon DEF NoneEvicted
<1>15. ASSUME pd = "no", NEW x \in Entries
       PROVE  /\ ent'[x].st = "loading" <=> ent[x].st = "loading"
              /\ ent'[x].st # "empty" => ent'[x].chunks = ChunksOf[x]
              /\ ent'[x].st \in {"cached", "in_use"} => ent'[x].data
  BY <1>4, <1>6, <1>7, <1>15, SMTT(30), Zenon DEF CaInv, LoadInv
<1>16. LoadInv'
  BY <1>15 DEF CaInv, LoadInv
<1> QED BY <1>3, <1>9, <1>13, <1>14, <1>16, Zenon DEF CaInv

\* unpin(), and the release a stream runs later.
LEMMA UnpinKeeps ==
  ASSUME CaInv, NEW r \in PReaders, NEW device \in BOOLEAN, PUnpin(r, device)
  PROVE  CaInv' /\ NoneEvicted
<1>1. rd[r].pc = "pinned" /\ UNCHANGED <<age, ins, wk, ev, pio, pd>> /\ rd[r].e \in Entries
  BY ShapeFacts DEF PUnpin
<1>2. CASE ~device
  BY <1>1, <1>2, ReleaseKeeps, Zenon DEF PUnpin
<1>3. CASE device
  <2>1. ent' = ent
    BY <1>1, <1>3, ShapeFacts, Zenon DEF PUnpin
  <2>2. rd = [q \in PReaders |-> rd[q]] /\ rd[r] = [pc |-> rd[r].pc, e |-> rd[r].e]
    BY ShapeFacts
  <2>3. /\ rd' = [q \in PReaders |-> rd'[q]] /\ rd'[r] = [rd[r] EXCEPT !.pc = "releasing"]
        /\ \A q \in PReaders : q # r => rd'[q] = rd[q]
    BY <1>3, <2>2, Zenon DEF PUnpin
  <2>4. rd'[r] = [pc |-> "releasing", e |-> rd[r].e]
    BY <2>2, <2>3
  <2>5. CacheShapes'
    BY <1>1, <2>1, <2>3, <2>4 DEF CaInv, CacheShapes
  <2>6. \A x \in Entries : Pinning(x)' = Pinning(x)
    BY <1>1, <2>3, <2>4 DEF Pinning
  <2>7. PinsInv' /\ LoadInv' /\ NoneEvicted /\ AgeInv' /\ NeedInv'
    BY <1>1, <2>1, <2>6 DEF CaInv, PinsInv, LoadInv, NoneEvicted, AgeInv, NeedInv
  <2> QED BY <1>1, <2>5, <2>7, Zenon DEF CaInv
<1> QED BY <1>2, <1>3

\* The worker takes chunks, or gives them back, without touching an entry.
LEMMA WorkerKeeps ==
  ASSUME CaInv, PCreate \/ PInsertBegin \/ WExit \/ \E most \in 0 .. MaxSlabs : WDequeue(most) \/ WEvicted(most)
  PROVE  CaInv' /\ NoneEvicted
<1>1. UNCHANGED <<age, ent, rd, pio, pd>>
  BY DEF PCreate, PInsertBegin, WExit, WDequeue, WEvicted
<1>2. wk = [pc |-> wk.pc, item |-> wk.item, need |-> wk.need, ptrs |-> wk.ptrs]
  BY ShapeFacts, Zenon
<1>3. ev = [pc |-> ev.pc, got |-> ev.got, age |-> ev.age, pos |-> ev.pos, cur |-> ev.cur]
  BY ShapeFacts
<1>4. /\ ev' = [pc |-> ev'.pc, got |-> ev'.got, age |-> ev'.age, pos |-> ev'.pos, cur |-> ev'.cur]
      /\ ev'.age = ev.age
  <2>1. ev' = ev \/ ev' = [ev EXCEPT !.pc = "idle"]
    BY DEF PCreate, PInsertBegin, WExit, WDequeue, WEvicted
  <2> QED BY <1>3, <2>1
<1>5. /\ wk' = [pc |-> wk'.pc, item |-> wk'.item, need |-> wk'.need, ptrs |-> wk'.ptrs]
      /\ NeedInv'
  <2>1. CASE PCreate \/ PInsertBegin \/ WExit
    <3>1. wk' = wk \/ wk' = [wk EXCEPT !.pc = "idle"] \/ wk' = [wk EXCEPT !.pc = "exited", !.ptrs = 0]
      BY <2>1, Zenon DEF PCreate, PInsertBegin, WExit
    <3> QED BY <1>2, <3>1, Zenon DEF CaInv, NeedInv
  <2>2. ASSUME NEW most, WDequeue(most)
        PROVE  /\ wk' = [pc |-> wk'.pc, item |-> wk'.item, need |-> wk'.need, ptrs |-> wk'.ptrs]
               /\ NeedInv'
    <3>1. PICK p, q, i : wk' = wk \/ wk' = [pc |-> p, item |-> i, need |-> Needs(Head(work)), ptrs |-> q]
      BY <2>2, Zenon DEF WDequeue
    <3>2. \A e \in Entries : Needs(Head(work))[e] \in {0, ChunksOf[e]}
      BY DEF Needs
    <3> QED BY <1>2, <3>1, <3>2 DEF CaInv, NeedInv
  <2>3. ASSUME NEW most, WEvicted(most)
        PROVE  /\ wk' = [pc |-> wk'.pc, item |-> wk'.item, need |-> wk'.need, ptrs |-> wk'.ptrs]
               /\ NeedInv'
    <3>1. wk.pc = "evict"
      BY <2>3 DEF WEvicted
    <3>2. PICK p, q : wk' = [wk EXCEPT !.pc = p, !.ptrs = q]
      BY <2>3, Zenon DEF WEvicted
    <3> QED BY <1>2, <3>1, <3>2, Zenon DEF CaInv, NeedInv
  <2> QED BY <2>1, <2>2, <2>3
<1>6. ins' = ins \/ \E n : ins' = [pc |-> "tick", tick |-> age, n |-> n]
  BY Zenon DEF PCreate, PInsertBegin, WExit, WDequeue, WEvicted
<1>7. AgeInv'
  BY <1>1, <1>4, <1>6 DEF CaInv, AgeInv
<1> QED BY <1>1, <1>4, <1>5, <1>7, NothingMoves, Zenon

\* The worker starts the loads of the entries that are still empty and still wanted.
LEMMA StartKeeps ==
  ASSUME CaInv, WStart
  PROVE  CaInv' /\ NoneEvicted
<1>1. wk.pc = "admit" /\ UNCHANGED <<age, ins, rd, ev, pd>>
  BY Zenon DEF WStart
<1>2. PICK b : b = {e \in Entries : Loading(e)}
  BY ZenonT(30)
<1>3. \A e \in Entries : e \in b => ent[e].st = "empty" /\ wk.need[e] = ChunksOf[e]
  <2> SUFFICES ASSUME NEW e \in Entries, Loading(e)
               PROVE  ent[e].st = "empty" /\ wk.need[e] = ChunksOf[e]
    BY <1>2, Zenon
  <2>1. EntryShape(ent[e]) /\ wk.need[e] \in {0, ChunksOf[e]}
    BY <1>1, ShapeFacts DEF CaInv, NeedInv
  <2> QED BY <2>1 DEF Loading, CanLoad, EntryShape
<1>4. ent' = [e \in Entries |-> IF e \in b
       THEN [ent[e] EXCEPT !.st = "loading", !.chunks = wk.need[e], !.data = FALSE] ELSE ent[e]]
  BY <1>2, ZenonT(30) DEF WStart
<1>5. ASSUME NEW e \in Entries
      PROVE  /\ EntryShape(ent'[e]) /\ ent'[e].pins = ent[e].pins
             /\ e \notin b => ent'[e] = ent[e]
             /\ e \in b => ent'[e].st = "loading" /\ ent'[e].chunks = ChunksOf[e]
  <2>1. EntryShape(ent[e])
    BY ShapeFacts
  <2>2. PICK y : y = [ent[e] EXCEPT !.st = "loading", !.chunks = wk.need[e], !.data = FALSE]
    BY Zenon
  <2>3. EntryShape(y) /\ y.pins = ent[e].pins /\ y.st = "loading" /\ y.chunks = wk.need[e]
    BY <2>1, <2>2, Zenon DEF EntryShape
  <2>4. ent'[e] = IF e \in b THEN y ELSE ent[e]
    BY <1>4, <2>2, Zenon
  <2> QED BY <1>3, <2>1, <2>3, <2>4, Zenon
<1>6. \/ pio' = pio /\ b = {}
      \/ \E s : pio' = Append(pio, [es |-> b, slot |-> s])
  BY <1>2, Zenon DEF WStart
<1>7. PICK S : pio \in Seq(S)
  BY Zenon DEF CaInv, CacheShapes, IsSeq
<1>8. /\ \E T : pio' \in Seq(T)
      /\ DOMAIN pio \subseteq DOMAIN pio' /\ \A i \in DOMAIN pio : pio'[i] = pio[i]
      /\ \A i \in DOMAIN pio' : i \notin DOMAIN pio => pio'[i].es = b
      /\ b # {} => \E i \in DOMAIN pio' : i \notin DOMAIN pio
      /\ \A i, k \in DOMAIN pio' : i \notin DOMAIN pio /\ k \notin DOMAIN pio => i = k
  <2>1. CASE pio' = pio /\ b = {}
    BY <1>7, <2>1, Zenon
  <2>2. ASSUME NEW s, pio' = Append(pio, [es |-> b, slot |-> s])
        PROVE  /\ \E T : pio' \in Seq(T)
               /\ DOMAIN pio \subseteq DOMAIN pio' /\ \A i \in DOMAIN pio : pio'[i] = pio[i]
               /\ \A i \in DOMAIN pio' : i \notin DOMAIN pio => pio'[i].es = b
               /\ b # {} => \E i \in DOMAIN pio' : i \notin DOMAIN pio
               /\ \A i, k \in DOMAIN pio' : i \notin DOMAIN pio /\ k \notin DOMAIN pio => i = k
    <3>1. PICK x : x = [es |-> b, slot |-> s]
      BY Zenon
    <3>2. pio \in Seq(S \cup {x}) /\ x \in S \cup {x} /\ x.es = b
      BY <1>7, <3>1, SMTT(30), Zenon
    <3>3. /\ pio' \in Seq(S \cup {x}) /\ Len(pio') = Len(pio) + 1 /\ Len(pio) \in Nat
          /\ \A i \in 1 .. Len(pio) : pio'[i] = pio[i]
          /\ pio'[Len(pio) + 1] = x
      BY <2>2, <3>1, <3>2, AppendFacts
    <3>4. DOMAIN pio = 1 .. Len(pio) /\ DOMAIN pio' = 1 .. Len(pio) + 1
      BY <3>2, <3>3
    <3>5. \A i \in DOMAIN pio' : i \notin DOMAIN pio => i = Len(pio) + 1
      BY <3>3, <3>4
    <3>6. Len(pio) + 1 \in DOMAIN pio' /\ Len(pio) + 1 \notin DOMAIN pio
      BY <3>3, <3>4
    <3>7. DOMAIN pio \subseteq DOMAIN pio' /\ \A i \in DOMAIN pio : pio'[i] = pio[i]
      BY <3>3, <3>4
    <3> QED BY <3>2, <3>3, <3>5, <3>6, <3>7
  <2> QED BY <1>6, <2>1, <2>2, Zenon
<1>9. b \subseteq Entries
  BY <1>2
<1>10. wk' = [pc |-> "idle", item |-> wk.item, need |-> wk.need, ptrs |-> 0]
  BY ShapeFacts, ZenonT(30) DEF WStart
<1>11. CacheShapes'
  <2>1. ent' = [e \in Entries |-> ent'[e]]
    BY <1>4, ZenonT(30)
  <2>2. \A i \in DOMAIN pio' : pio'[i].es \subseteq Entries
    BY <1>8, <1>9 DEF CaInv, CacheShapes
  <2>3. IsSeq(pio')
    BY <1>8, Zenon DEF IsSeq
  <2> QED BY <1>1, <1>5, <1>10, <2>1, <2>2, <2>3, SMTT(30), Zenon DEF CaInv, CacheShapes
<1>12. AgeInv' /\ NeedInv' /\ pd' = pd
  BY <1>1, <1>10, Zenon DEF CaInv, AgeInv, NeedInv
<1>13. PinsInv'
  <2>1. \A e \in Entries : Pinning(e)' = Pinning(e)
    BY <1>1, Zenon DEF Pinning
  <2>2. \A e \in Entries : ent'[e].st = "in_use" <=> ent[e].st = "in_use"
    BY <1>3, <1>5, Zenon
  <2> QED BY <1>5, <2>1, <2>2, Zenon DEF CaInv, PinsInv
<1>14. NoneEvicted
  BY <1>3, <1>5, Zenon DEF NoneEvicted
<1>15. ASSUME pd = "no" PROVE LoadInv'
  <2>1. ASSUME NEW e \in Entries
        PROVE  ent'[e].st = "loading" <=> \E i \in DOMAIN pio' : e \in pio'[i].es
    <3>1. ent[e].st = "loading" <=> \E i \in DOMAIN pio : e \in pio[i].es
      BY <1>15, Zenon DEF CaInv, LoadInv
    <3>2. (\E i \in DOMAIN pio' : e \in pio'[i].es) <=> e \in b \/ \E i \in DOMAIN pio : e \in pio[i].es
      BY <1>8, Zenon
    <3> QED BY <1>5, <3>1, <3>2, Zenon
  <2>2. \A i, k \in DOMAIN pio' : pio'[i].es \cap pio'[k].es # {} => i = k
    <3> SUFFICES ASSUME NEW i \in DOMAIN pio', NEW k \in DOMAIN pio', NEW e, e \in pio'[i].es, e \in pio'[k].es
                 PROVE  i = k
      BY Zenon
    <3>1. \A m \in DOMAIN pio : e \in pio[m].es => e \notin b
      BY <1>3, <1>9, <1>15, SMTT(30), Zenon DEF CaInv, LoadInv
    <3>2. CASE i \in DOMAIN pio /\ k \in DOMAIN pio
      BY <1>8, <1>15, <3>2, SMTT(30), Zenon DEF CaInv, LoadInv
    <3> QED BY <1>8, <3>1, <3>2, Zenon
  <2>3. \A e \in Entries : /\ ent'[e].st # "empty" => ent'[e].chunks = ChunksOf[e]
                           /\ ent'[e].st \in {"cached", "in_use"} => ent'[e].data
    BY <1>5, <1>15, SMTT(30), Zenon DEF CaInv, LoadInv
  <2> QED BY <2>1, <2>2, <2>3, Zenon DEF LoadInv
<1>16. LoadInv'
  BY <1>12, <1>15, Zenon DEF LoadInv
<1> QED BY <1>11, <1>12, <1>13, <1>14, <1>16 DEF CaInv

\* The completion callback of a batch.
LEMMA IoDoneKeeps ==
  ASSUME CaInv, NEW i \in DOMAIN pio, NEW ok \in BOOLEAN, IoDone(i, ok)
  PROVE  CaInv' /\ NoneEvicted
<1>1. PICK b : b = pio[i].es
  BY Zenon
<1>2. UNCHANGED <<age, ins, rd, wk, ev, pd>> /\ pio' = Without(pio, i)
  BY Zenon DEF IoDone, Without
<1>3. ent' = [e \in Entries |-> IF e \in b THEN AfterLoad(ent[e], ok) ELSE ent[e]]
  BY <1>1, ZenonT(30) DEF IoDone
<1>4. ASSUME NEW e \in Entries
      PROVE  /\ EntryShape(ent'[e]) /\ ent'[e].pins = ent[e].pins
             /\ e \notin b => ent'[e] = ent[e]
             /\ ent[e].st # "loading" => ent'[e].st = ent[e].st
             /\ e \in b /\ ent[e].st = "loading" =>
                   \/ ent'[e].st = "empty"
                   \/ ent'[e].st = "cached" /\ ent'[e].chunks = ent[e].chunks /\ ent'[e].data
  <2>1. EntryShape(ent[e])
    BY ShapeFacts
  <2>2. PICK y : y = AfterLoad(ent[e], ok)
    BY ZenonT(30)
  <2>3. CASE ok
    <3>1. PICK s : s = IF ent[e].st = "loading" THEN "cached" ELSE ent[e].st
      BY Zenon
    <3>2. y = [ent[e] EXCEPT !.data = TRUE, !.st = s]
      BY <2>1, <2>2, <2>3, <3>1 DEF AfterLoad, EntryShape
    <3>3. EntryShape(y) /\ y.pins = ent[e].pins /\ y.st = s /\ y.chunks = ent[e].chunks /\ y.data
      BY <2>1, <3>1, <3>2, Zenon DEF EntryShape
    <3>4. ent'[e] = IF e \in b THEN y ELSE ent[e]
      BY <1>3, <2>2, ZenonT(30)
    <3> QED BY <2>1, <3>1, <3>3, <3>4, Zenon
  <2>4. CASE ~ok
    <3>1. PICK s : s = IF ent[e].st = "loading" THEN "empty" ELSE ent[e].st
      BY Zenon
    <3>2. y = [ent[e] EXCEPT !.chunks = 0, !.st = s]
      BY <2>1, <2>2, <2>4, <3>1 DEF AfterLoad, EntryShape
    <3>3. EntryShape(y) /\ y.pins = ent[e].pins /\ y.st = s
      BY <2>1, <3>1, <3>2, ZenonT(30) DEF EntryShape
    <3>4. ent'[e] = IF e \in b THEN y ELSE ent[e]
      BY <1>3, <2>2
    <3> QED BY <2>1, <3>1, <3>3, <3>4
  <2> QED BY <2>3, <2>4, Zenon
<1>5. PICK S : pio \in Seq(S)
  BY DEF CaInv, CacheShapes, IsSeq
<1>6. pio' \in Seq(S) /\ \E up : Shifted(pio', pio, i, up)
  <2>1. PICK u : u = Without(pio, i)
    BY Zenon
  <2>2. u \in Seq(S) /\ \E up : Shifted(u, pio, i, up)
    BY <1>5, <2>1, OneRemoved
  <2>3. pio' = u
    BY <1>2, <2>1, Zenon
  <2> QED BY <2>2, <2>3
<1>7. PICK up : /\ \A k \in DOMAIN pio' : up[k] \in DOMAIN pio /\ up[k] # i /\ pio'[k] = pio[up[k]]
                /\ \A j, k \in DOMAIN pio' : up[j] = up[k] => j = k
                /\ \A m \in DOMAIN pio : m # i => \E k \in DOMAIN pio' : up[k] = m
  BY <1>6, ZenonT(30) DEF Shifted
<1>8. CacheShapes'
  <2>1. ent' = [e \in Entries |-> ent'[e]]
    BY <1>3, ZenonT(30)
  <2>2. \A k \in DOMAIN pio' : pio'[k].es \subseteq Entries
    BY <1>7 DEF CaInv, CacheShapes
  <2>3. IsSeq(pio')
    BY <1>6, Zenon DEF IsSeq
  <2> QED BY <1>2, <1>4, <2>1, <2>2, <2>3, Zenon DEF CaInv, CacheShapes
<1>9. AgeInv' /\ NeedInv'
  BY <1>2, ZenonT(30) DEF CaInv, AgeInv, NeedInv
<1>10. PinsInv'
  <2>1. \A e \in Entries : Pinning(e)' = Pinning(e)
    BY <1>2, ZenonT(30) DEF Pinning
  <2>2. ASSUME NEW e \in Entries PROVE ent'[e].st = "in_use" <=> ent[e].st = "in_use"
    BY <1>4, Zenon
  <2> QED BY <1>4, <2>1, <2>2, ZenonT(30) DEF CaInv, PinsInv
<1>11. NoneEvicted
  BY <1>4, ZenonT(30) DEF NoneEvicted
<1>12. ASSUME pd = "no" PROVE LoadInv'
  <2>1. \A m, k \in DOMAIN pio : pio[m].es \cap pio[k].es # {} => m = k
    BY <1>12, ZenonT(30) DEF CaInv, LoadInv
  <2>2. \A k \in DOMAIN pio' : pio'[k].es \cap b = {}
    BY <1>1, <1>7, <2>1, ZenonT(30)
  <2>3. ASSUME NEW e \in Entries
        PROVE  ent'[e].st = "loading" <=> \E k \in DOMAIN pio' : e \in pio'[k].es
    <3>1. ent[e].st = "loading" <=> \E k \in DOMAIN pio : e \in pio[k].es
      BY <1>12, ZenonT(30) DEF CaInv, LoadInv
    <3>2. CASE e \in b
      BY <1>1, <1>4, <2>2, <3>1, <3>2, ZenonT(30)
    <3>3. CASE e \notin b
      <4>1. ent'[e] = ent[e]
        BY <1>4, <3>3, Zenon
      <4>2. ASSUME NEW k \in DOMAIN pio', e \in pio'[k].es
            PROVE  \E m \in DOMAIN pio : e \in pio[m].es
        BY <1>7, <4>2, Zenon
      <4>3. ASSUME NEW m \in DOMAIN pio, e \in pio[m].es
            PROVE  \E k \in DOMAIN pio' : e \in pio'[k].es
        <5>1. m # i
          BY <1>1, <3>3, <4>3, Zenon
        <5>2. PICK k \in DOMAIN pio' : up[k] = m
          BY <1>7, <5>1, Zenon
        <5> QED BY <1>7, <4>3, <5>2, Zenon
      <4> QED BY <3>1, <4>1, <4>2, <4>3, Zenon
    <3> QED BY <3>2, <3>3, Zenon
  <2>4. ASSUME NEW j \in DOMAIN pio', NEW k \in DOMAIN pio', pio'[j].es \cap pio'[k].es # {}
        PROVE  j = k
    <3>1. /\ up[j] \in DOMAIN pio /\ pio'[j] = pio[up[j]]
          /\ up[k] \in DOMAIN pio /\ pio'[k] = pio[up[k]]
      BY <1>7, Zenon
    <3>2. up[j] = up[k]
      BY <2>1, <2>4, <3>1, Zenon
    <3> QED BY <1>7, <3>2, Zenon
  <2>5. ASSUME NEW e \in Entries
        PROVE  /\ ent'[e].st # "empty" => ent'[e].chunks = ChunksOf[e]
               /\ ent'[e].st \in {"cached", "in_use"} => ent'[e].data
    <3>1. /\ ent[e].st # "empty" => ent[e].chunks = ChunksOf[e]
          /\ ent[e].st \in {"cached", "in_use"} => ent[e].data
          /\ e \in b => ent[e].st = "loading"
      BY <1>1, <1>12, ZenonT(30) DEF CaInv, LoadInv
    <3> QED BY <1>4, <3>1, ZenonT(30)
  <2> QED BY <2>3, <2>4, <2>5, ZenonT(30) DEF LoadInv
<1>13. LoadInv'
  BY <1>2, <1>12, Zenon DEF LoadInv
<1> QED BY <1>2, <1>8, <1>9, <1>10, <1>11, <1>13, Zenon DEF CaInv

\* abort_pending_entries: the destructor declares the pending entries empty.
LEMMA AbortKeeps ==
  ASSUME CaInv, PStop \/ PJoined
  PROVE  CaInv' /\ NoneEvicted
<1>1. UNCHANGED <<age, ins, rd, wk, ev, pio>> /\ pd' \in {"stop", "done"} /\ AbortPending
  BY Zenon DEF PStop, PJoined
<1>2. ASSUME NEW e \in Entries
      PROVE  /\ EntryShape(ent'[e]) /\ ent'[e].pins = ent[e].pins
             /\ ent'[e] = ent[e] \/ (ent[e].st = "loading" /\ ent'[e].st = "empty")
  <2>1. EntryShape(ent[e])
    BY ShapeFacts
  <2>2. PICK y : y = [ent[e] EXCEPT !.st = "empty"]
    BY Zenon
  <2>3. EntryShape(y) /\ y.pins = ent[e].pins /\ y.st = "empty"
    BY <2>1, <2>2 DEF EntryShape
  <2>4. ent'[e] = IF ent[e].st \in {"queued", "loading"} THEN y ELSE ent[e]
    BY <1>1, <2>2, SMTT(30) DEF AbortPending, TryAbortPending
  <2> QED BY <2>1, <2>3, <2>4, Zenon DEF EntryShape
<1>3. CacheShapes'
  <2>1. ent' = [e \in Entries |-> ent'[e]]
    BY <1>1, Zenon DEF AbortPending
  <2> QED BY <1>1, <1>2, <2>1, Zenon DEF CaInv, CacheShapes
<1>4. PinsInv'
  <2>1. \A e \in Entries : Pinning(e)' = Pinning(e)
    BY <1>1, SMTT(30), Zenon DEF Pinning
  <2> QED BY <1>2, <2>1, Zenon DEF CaInv, PinsInv
<1>5. AgeInv' /\ NeedInv' /\ LoadInv'
  BY <1>1, Zenon DEF CaInv, AgeInv, NeedInv, LoadInv
<1>6. NoneEvicted
  BY <1>2, Zenon DEF NoneEvicted
<1> QED BY <1>1, <1>3, <1>4, <1>5, <1>6, Zenon DEF CaInv

\* The evictor takes a request, sleeps and answers.
LEMMA EvictorKeeps ==
  ASSUME CaInv, EvTake \/ EvWalked \/ EvSlept \/ EvExit
  PROVE  CaInv' /\ NoneEvicted
<1>1. UNCHANGED <<age, ins, ent, rd, wk, pio, pd>>
  BY DEF EvTake, EvWalked, EvSlept, EvExit
<1>2. /\ ev' = [pc |-> ev'.pc, got |-> ev'.got, age |-> ev'.age, pos |-> ev'.pos, cur |-> ev'.cur]
      /\ ev'.age = ev.age
  <2>1. \E p, g : ev' = [ev EXCEPT !.pc = p, !.got = g] \/ ev' = [ev EXCEPT !.pc = p]
    BY ZenonT(30) DEF EvTake, EvWalked, EvSlept, EvExit
  <2> QED BY <2>1, ShapeFacts, ZenonT(30)
<1>3. AgeInv' /\ NeedInv'
  BY <1>1, <1>2 DEF CaInv, AgeInv, NeedInv
<1> QED BY <1>1, <1>2, <1>3, ShapeFacts, NothingMoves, Zenon

\* The one step that evicts.
LEMMA WalkKeeps ==
  ASSUME CaInv, EvWalk
  PROVE  /\ CaInv'
         /\ \A e \in Entries : ent[e].st = "cached" /\ ent'[e].st = "empty"
               => ent[e].cts >= ent[e].rts \/ ent[e].rts < ev.age
<1> DEFINE e == lru.list[ev.pos]
<1>1. UNCHANGED <<age, ins, rd, wk, pio, pd>>
  BY Zenon DEF EvWalk
<1>2. /\ ev' = [pc |-> ev'.pc, got |-> ev'.got, age |-> ev'.age, pos |-> ev'.pos, cur |-> ev'.cur]
      /\ ev'.age = ev.age
  <2>1. PICK p, g, c : \/ ev' = [ev EXCEPT !.pos = p, !.cur = c]
                       \/ ev' = [ev EXCEPT !.cur = c]
                       \/ ev' = [ev EXCEPT !.got = g, !.cur = c]
    BY Zenon DEF EvWalk
  <2> QED BY <2>1, ShapeFacts, Zenon
<1>3. AgeInv' /\ NeedInv'
  BY <1>1, <1>2, Zenon DEF CaInv, AgeInv, NeedInv
<1>4. CASE UNCHANGED ent
  <2>1. CaInv' /\ NoneEvicted
    BY <1>1, <1>2, <1>3, <1>4, ShapeFacts, NothingMoves, SMTT(30), Zenon
  <2> QED BY <2>1, Zenon DEF NoneEvicted
<1>5. CASE /\ ConsumedOrStale(ent[e], ev.age) /\ Evictable(ent[e])
           /\ ent' = [ent EXCEPT ![e].st = "empty", ![e].chunks = 0, ![e].data = FALSE,
                                 ![e].inLru = FALSE]
  <2>0. ent = [x \in Entries |-> ent[x]]
    BY ShapeFacts, Zenon
  <2>1. CASE e \notin Entries
    <3>1. ent' = ent
      BY <1>5, <2>0, <2>1, ZenonT(30)
    <3> QED BY <1>4, <3>1, SMTT(30)
  <2>2. CASE e \in Entries
    <3>1. EntryShape(ent[e]) /\ ent[e].st = "cached"
      BY <1>5, <2>2, ShapeFacts DEF Evictable
    <3>2. PICK y : y = [ent[e] EXCEPT !.st = "empty", !.chunks = 0, !.data = FALSE, !.inLru = FALSE]
      BY Zenon
    <3>3. EntryShape(y) /\ y.st = "empty" /\ y.pins = ent[e].pins
      BY <3>1, <3>2, Zenon DEF EntryShape
    <3>4. /\ ent' = [x \in Entries |-> ent'[x]] /\ ent'[e] = y
          /\ \A x \in Entries : x # e => ent'[x] = ent[x]
      BY <1>5, <2>0, <2>2, <3>2, ZenonT(30)
    <3>5. CacheShapes'
      BY <1>1, <1>2, <3>3, <3>4, SMTT(30), Zenon DEF CaInv, CacheShapes
    <3>6. PinsInv'
      <4>1. \A x \in Entries : Pinning(x)' = Pinning(x)
        BY <1>1, SMTT(30), Zenon DEF Pinning
      <4> QED BY <3>1, <3>3, <3>4, <4>1, SMTT(30), Zenon DEF CaInv, PinsInv
    <3>7. ASSUME pd = "no" PROVE LoadInv'
      <4>1. ASSUME NEW x \in Entries
            PROVE  /\ ent'[x].st = "loading" <=> ent[x].st = "loading"
                   /\ ent'[x].st # "empty" => ent'[x].chunks = ChunksOf[x]
                   /\ ent'[x].st \in {"cached", "in_use"} => ent'[x].data
        BY <3>1, <3>3, <3>4, <3>7, SMTT(30), Zenon DEF CaInv, LoadInv
      <4> QED BY <1>1, <3>7, <4>1, SMTT(30), Zenon DEF CaInv, LoadInv
    <3>8. LoadInv'
      BY <1>1, <3>7, SMTT(30), Zenon DEF LoadInv
    <3>9. \A x \in Entries : ent[x].st = "cached" /\ ent'[x].st = "empty"
             => ent[x].cts >= ent[x].rts \/ ent[x].rts < ev.age
      BY <1>5, <3>4, Zenon DEF ConsumedOrStale
    <3> QED BY <1>1, <1>3, <3>5, <3>6, <3>8, <3>9, SMTT(30), Zenon DEF CaInv
  <2> QED BY <2>1, <2>2, Zenon
<1> QED BY <1>4, <1>5, Zenon DEF EvWalk

\* Every step keeps the invariant, and only the evictor's pass empties a cached entry.
LEMMA CacheStep ==
  ASSUME CaInv, [PNext]_pVars
  PROVE  CaInv' /\ (NoneEvicted \/ EvWalk)
<1>1. CASE PCreate \/ PInsertBegin \/ WExit \/ \E most \in 0 .. MaxSlabs : WDequeue(most) \/ WEvicted(most)
  BY <1>1, WorkerKeeps
<1>2. CASE PRefresh \/ PStop \/ PJoined \/ WStart
  BY <1>2, RefreshKeeps, AbortKeeps, StartKeeps, Zenon
<1>3. CASE EvPoll \/ EvTake \/ EvRound \/ EvWalk \/ EvWalked \/ EvSlept \/ EvExit
  BY <1>3, RefileKeeps, EvictorKeeps, WalkKeeps, Zenon
<1>4. ASSUME NEW S, PInsert(S) PROVE CaInv' /\ NoneEvicted
  BY <1>4, InsertKeeps, SMTT(30), Zenon
<1>5. ASSUME NEW r \in PReaders, PWoken(r) PROVE CaInv' /\ NoneEvicted
  BY <1>5, ShapeFacts, LookKeeps, SMTT(30) DEF PWoken
<1>6. ASSUME NEW r \in PReaders, NEW e \in Entries, PRead(r, e) PROVE CaInv' /\ NoneEvicted
  BY <1>6, LookKeeps, Zenon DEF PRead
<1>7. ASSUME NEW r \in PReaders, PStreamRelease(r) PROVE CaInv' /\ NoneEvicted
  BY <1>7, ReleaseKeeps, Zenon DEF PStreamRelease
<1>8. ASSUME NEW r \in PReaders, NEW device \in BOOLEAN, PUnpin(r, device) PROVE CaInv' /\ NoneEvicted
  BY <1>8, UnpinKeeps, Zenon
<1>9. ASSUME NEW i \in DOMAIN pio, NEW ok \in BOOLEAN, IoDone(i, ok) PROVE CaInv' /\ NoneEvicted
  BY <1>9, IoDoneKeeps, Zenon
<1>10. CASE UNCHANGED pVars
  <2>1. UNCHANGED <<ent, rd, pio, pd, wk, ev, age, ins>>
    BY <1>10, Zenon DEF pVars
  <2>2. AgeInv' /\ NeedInv'
    BY <2>1 DEF CaInv, AgeInv, NeedInv
  <2> QED BY <2>1, <2>2, ShapeFacts, NothingMoves, Zenon
<1> QED BY <1>1, <1>2, <1>3, <1>4, <1>5, <1>6, <1>7, <1>8, <1>9, <1>10, Zenon DEF PNext, PWorker, PEvictor

\* For any set of ranges, any chunk and slab counts and any number of readers: until the
\* destructor starts, an entry a reader can see has all its chunks, filled, and its pins
\* are exactly those of the readers and streams that hold it, so try_evict_raw cannot take
\* chunks somebody reads.
THEOREM ReadersAreProtected == PSpec => []ReadersProtected
<1>1. PInit => CaInv
  BY InitialCache
<1>2. CaInv /\ [PNext]_pVars => CaInv'
  BY CacheStep, Zenon
<1>3. CaInv => ReadersProtected
  BY CacheInvariantSuffices
<1> QED BY <1>1, <1>2, <1>3, PTL DEF PSpec

\* The evictor empties a cached entry only if it was read since it was last asked for or
\* its epoch has passed - with the age of the moment, though the pass uses the age it began
\* with.
THEOREM EvictionsAreJustified == PSpec => EvictsOnlyUsed
<1>1. PInit => CaInv
  BY InitialCache
<1>2. CaInv /\ [PNext]_pVars => CaInv'
  BY CacheStep, Zenon
<1>3. ASSUME CaInv, [PNext]_pVars
      PROVE  \A e \in Entries : ent[e].st = "cached" /\ ent'[e].st = "empty"
                => ent[e].cts >= ent[e].rts \/ ent[e].rts < age
  <2>1. CASE NoneEvicted
    BY <2>1 DEF NoneEvicted
  <2>2. CASE EvWalk
    <3> SUFFICES ASSUME NEW e \in Entries, ent[e].st = "cached", ent'[e].st = "empty"
                 PROVE  ent[e].cts >= ent[e].rts \/ ent[e].rts < age
      BY Zenon
    <3>1. ent[e].cts >= ent[e].rts \/ ent[e].rts < ev.age
      BY <1>3, <2>2, WalkKeeps, SMTT(30)
    <3>2. ent[e].rts \in Nat /\ age \in Nat /\ ev.age \in Nat /\ ev.age <= age
      BY <1>3, ShapeFacts, Zenon DEF CaInv, AgeInv, EntryShape
    <3>3. ent[e].rts < ev.age => ent[e].rts < age
      BY <3>2
    <3> QED BY <3>1, <3>3, Zenon
  <2> QED BY <1>3, <2>1, <2>2, CacheStep, Zenon
<1> QED BY <1>1, <1>2, <1>3, PTL DEF PSpec, EvictsOnlyUsed

=============================================================================
