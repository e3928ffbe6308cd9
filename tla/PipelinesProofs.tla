-------------------------- MODULE PipelinesProofs --------------------------
(***************************************************************************)
(* Proofs about module Pipelines, for every plan of that module (no        *)
(* DUCKDB_SCAN source), every number of threads and every number of        *)
(* batches, under two premises: no pipeline holds a STREAMING_LIMIT, and   *)
(* either no task is rescheduled after an OOM or the two counters are      *)
(* loaded with tasks_completed first (CountersAgree).  Without the second  *)
(* premise run pipelines_race violates NoTaskAfterFinish; without the      *)
(* first a streaming limit finishes its pipeline with tasks still queued.  *)
(*                                                                         *)
(* The argument: a task is always counted in tasks_created and, until its  *)
(* destructor ran, not in tasks_completed.  So the difference of the two   *)
(* counters is the number of tasks that exist (TaskCount).  A pipeline is  *)
(* finished only when the difference is zero and its source is drained     *)
(* (FinishedInv): what the thread in update_pipeline_status saw, step by   *)
(* step, is still so when it compares (SeenInv).  And a drained source     *)
(* stays drained because whatever could refill it belongs to a pipeline    *)
(* with a live task, which is not finished.                                *)
(***************************************************************************)
EXTENDS Pipelines, FiniteSetTheorems, TLAPS

\* The first element and the rest of a queue that is not empty.
LEMMA RestOfSeq ==
  ASSUME NEW S, NEW s \in Seq(S), s # <<>>
  PROVE  /\ Head(s) \in S /\ Head(s) = s[1]
         /\ Tail(s) \in Seq(S) /\ Len(Tail(s)) = Len(s) - 1
         /\ \A i \in 1 .. Len(Tail(s)) : Tail(s)[i] = s[i + 1]
OBVIOUS

\* One queue behind another.
LEMMA JoinedSeq ==
  ASSUME NEW S, NEW s \in Seq(S), NEW t \in Seq(S)
  PROVE  /\ s \o t \in Seq(S) /\ Len(s \o t) = Len(s) + Len(t)
         /\ \A i \in 1 .. Len(s) + Len(t) :
               (s \o t)[i] = IF i <= Len(s) THEN s[i] ELSE t[i - Len(s)]
OBVIOUS

\* What a sequence is.
LEMMA SeqAsFunction == \A S : Seq(S) = UNION {[1 .. n -> S] : n \in Nat}
OBVIOUS

(* A thread that does something does it for a pipeline.                    *)
ThreadInv ==
  /\ \A w \in Worker : worker[w].pc # "idle" => worker[w].pipe \in Pipe
  /\ \A w \in Worker : worker[w].pc = "idle" => worker[w] = IdleWorker
  /\ \A c \in Creator : lam[c].pc # "idle" => lam[c].pipe \in Pipe

(* A thread inside update_pipeline_status holds the lock of the pipeline its *)
(* call is about.                                                           *)
LookInv ==
  \A w \in Worker : look[w].at # "away" =>
    /\ worker[w].todo # <<>>
    /\ Head(worker[w].todo).op = "update"
    /\ lock[Head(worker[w].todo).pipe] = w

(* The two task counters differ by the number of tasks that exist.         *)
TaskCount ==
  \A p \in Pipe :
    created[p] = completed[p] + queued[p] + Cardinality(Owners(p))
                 + Cardinality(Reschedulers(p)) + Cardinality(Makers(p))

(* What the scan sources have handed out.                                  *)
SourceInv ==
  \A p \in Pipe :
    /\ Kind[p] # "split" => unpushed[p] = 0
    /\ Kind[p] = "ports" => ready[p] = 0
    /\ Kind[p] = "split" /\ closed[p] => unpushed[p] = 0
    /\ Kind[p] = "iceberg" /\ closed[p] => ready[p] = 0

(* A CPU source hands out one task: while its lambda has not created it,    *)
(* there is no other.                                                       *)
CpuInv ==
  \A p \in Pipe : Kind[p] = "cpu" =>
    /\ ready[p] > 0 =>
         created[p] = 0 /\ \A c \in Creator : lam[c].pipe # p
    /\ \A c \in Creator : lam[c].pipe = p /\ lam[c].pc # "schedule" =>
         /\ created[p] = 0
         /\ \A d \in Creator : lam[d].pipe = p => d = c
    /\ closed[p] => created[p] > 0

FinishedInv ==
  \A p \in Pipe : finished[p] => SourceDrained(p) /\ created[p] = completed[p]

(* What a thread inside update_pipeline_status has seen is still so: the    *)
(* producers are finished, the source is drained, and the counter it loaded *)
(* has not moved (created) or only grown (completed).                       *)
SeenInv ==
  \A w \in Worker : LET q == Head(worker[w].todo).pipe IN
    /\ look[w].at # "away" => ~finished[q]
    /\ look[w].at \in {"producers", "ports"} => ~IsScan(q)
    /\ look[w].at = "ports" => \A u \in Up(q) : finished[u]
    /\ look[w].at \in {"counters", "compare"} => SourceDrained(q)
    /\ look[w].at = "compare" =>
         /\ look[w].first \in FirstLoad
         /\ IF look[w].first = "created" THEN look[w].seen = created[q]
                                         ELSE look[w].seen <= completed[q]

NoLimit == \A p \in Pipe : ~limited[p]

(* No task is created without the pipeline's lock, or the build loads       *)
(* tasks_completed before tasks_created.                                    *)
CountersAgree == MaxCreated = 0 \/ "created" \notin FirstLoad

IInv == /\ TypeOK /\ ThreadInv /\ LookInv /\ TaskCount /\ SourceInv /\ CpuInv
        /\ FinishedInv /\ SeenInv /\ NoLimit

(* The end of the query.                                                   *)
CompletionInv ==
  /\ \A w \in Worker : worker[w].pc \in {"drain", "wait", "mark"} => finished[Result]
  /\ done => finished[Result]
  /\ engine # "running" => done
  /\ engine # "failed"
  /\ engine \in {"validating", "idling", "draining"} => ~pool /\ NoLambda
  /\ engine \in {"draining", "returned"} => \A w \in Worker : worker[w] = IdleWorker
  /\ engine = "returned" => requests = NoRequests /\ NoLambda

-----------------------------------------------------------------------------
(* Types.                                                                  *)

(* A function on 1..n is a sequence.                                       *)
LEMMA FunctionIsSeq ==
  ASSUME NEW S, NEW n \in Nat, NEW f \in [1..n -> S]
  PROVE  f \in Seq(S)
BY SeqAsFunction

(* The calls of notify_downstream_pipelines are calls on pipelines.        *)
LEMMA NotifyType ==
  ASSUME NEW q \in Pipe, NEW orig \in BOOLEAN
  PROVE  Notify(q, orig) \in Seq(Call)
<1> DEFINE N == Len(Parents[q])
           A == [i \in DOMAIN Parents[q] |-> Push(Parents[q][i], TRUE)]
           B == [i \in DOMAIN Parents[q] |-> Update(Parents[q][i], FALSE)]
<1>1. Parents[q] \in Seq(Pipe)
  BY PlanAssumption
<1>2. N \in Nat /\ DOMAIN Parents[q] = 1..N
  BY <1>1
<1>3. \A i \in 1..N : Parents[q][i] \in Pipe
  BY <1>1, <1>2
<1>4. \A i \in 1..N : Push(Parents[q][i], TRUE) \in Call /\ Update(Parents[q][i], FALSE) \in Call
  BY <1>3 DEF Push, Update, Call
<1>5. A \in Seq(Call) /\ B \in Seq(Call)
  <2>1. A \in [1..N -> Call] /\ B \in [1..N -> Call]
    BY <1>2, <1>4, Zenon
  <2> QED BY <1>2, <2>1, FunctionIsSeq, Zenon
<1>6. A \o B \in Seq(Call) /\ <<>> \o B \in Seq(Call) /\ <<>> \in Seq(Call)
  BY <1>5
<1> QED BY <1>6 DEF Notify

(* The consumers an executor requests are calls on pipelines.              *)
LEMMA ConsumersType ==
  ASSUME NEW p \in Pipe
  PROVE  [i \in DOMAIN Parents[p] |-> Push(Parents[p][i], FALSE)] \in Seq(Call)
<1> DEFINE N == Len(Parents[p])
           A == [i \in DOMAIN Parents[p] |-> Push(Parents[p][i], FALSE)]
<1>1. Parents[p] \in Seq(Pipe)
  BY PlanAssumption
<1>2. N \in Nat /\ DOMAIN Parents[p] = 1..N
  BY <1>1
<1>3. \A i \in 1..N : Push(Parents[p][i], FALSE) \in Call
  BY <1>1, <1>2 DEF Push, Call
<1>4. A \in [1..N -> Call]
  BY <1>2, <1>3, Zenon
<1> QED BY <1>2, <1>4, FunctionIsSeq, Zenon

USE DEF Call, EnginePc, WorkerPc, CreatorPc, LookAt, status

(* The initial state is well typed and every thread is idle.               *)
LEMMA TypeInit == Init => TypeOK /\ ThreadInv /\ LookInv
<1> SUFFICES ASSUME Init PROVE TypeOK /\ ThreadInv /\ LookInv
  OBVIOUS
<1> USE PlanAssumption, PipeAssumption DEF Init, IdleWorker, IdleCreator, Away
<1>1. unpushed \in [Pipe -> Nat] /\ ready \in [Pipe -> Nat]
  BY DEF SourceKind
<1>2. worker \in [Worker -> [pc : WorkerPc, pipe : Pipe \cup {None}, todo : Seq(Call)]]
  OBVIOUS
<1>3. lam \in [Creator -> [pc : CreatorPc, pipe : Pipe \cup {None}]]
  OBVIOUS
<1>4. look \in [Worker -> [at : LookAt, first : {"created", "completed"}, seen : Nat]]
  OBVIOUS
<1>5. LookInv
  BY DEF LookInv
<1> QED BY <1>1, <1>2, <1>3, <1>4, <1>5, ZenonT(60) DEF TypeOK, ThreadInv

(* The threads of the task creator keep their types.                       *)
LEMMA TypeCreator ==
  ASSUME TypeOK, ThreadInv, NEW c \in Creator, CreatorStep(c)
  PROVE  TypeOK' /\ ThreadInv'
<1> DEFINE p  == lam[c].pipe
           LT == /\ lam' \in [Creator -> [pc : CreatorPc, pipe : Pipe \cup {None}]]
                 /\ \A d \in Creator : lam'[d].pc # "idle" => lam'[d].pipe \in Pipe
<1>t. /\ lam \in [Creator -> [pc : CreatorPc, pipe : Pipe \cup {None}]]
      /\ \A d \in Creator : lam[d].pc # "idle" => lam[d].pipe \in Pipe
  BY DEF TypeOK, ThreadInv
<1>n. created \in [Pipe -> Nat] /\ ready \in [Pipe -> Nat] /\ queued \in [Pipe -> Nat]
  BY DEF TypeOK
<1>r. repo \in [Edge -> Nat]
  BY DEF TypeOK
<1>b. closed \in [Pipe -> BOOLEAN]
  BY DEF TypeOK
<1>l. lock \in [Pipe -> Creator \cup Worker \cup {None}]
  BY DEF TypeOK
<1>1. CASE LambdaLoop(c)
  <2>1. LT
    BY <1>1, <1>t DEF LambdaLoop, IdleCreator
  <2> QED BY <1>1, <2>1, ZenonT(60) DEF LambdaLoop, TypeOK, ThreadInv, plan, source
<1>2. CASE LambdaClaim(c)
  <2>1. p \in Pipe /\ HasInput(p) /\ TakeInput(p)
    BY <1>2, <1>t DEF LambdaClaim
  <2>2. ready' \in [Pipe -> Nat] /\ closed' \in [Pipe -> BOOLEAN] /\ repo' \in [Edge -> Nat]
    <3>1. CASE Kind[p] = "ports"
      <4>1. ready' = ready /\ closed' = closed
        BY <2>1, <3>1 DEF TakeInput
      <4>2. repo' = [e \in Edge |-> IF e \in Data(p) /\ repo[e] > 0
                                      THEN repo[e] - 1 ELSE repo[e]]
        BY <2>1, <3>1 DEF TakeInput
      <4>3. repo' \in [Edge -> Nat]
        BY <4>2, <1>r
      <4> QED BY <4>1, <4>3, <1>n, <1>b
    <3>2. CASE Kind[p] \in {"split", "iceberg"}
      <4>1. ready[p] > 0
        BY <2>1, <3>2 DEF HasInput
      <4>2. ready' = [ready EXCEPT ![p] = @ - 1] /\ repo' = repo
        BY <2>1, <3>2 DEF TakeInput
      <4>3. closed' \in [Pipe -> BOOLEAN]
        BY <2>1, <3>2, <1>b, Zenon DEF TakeInput
      <4>4. ready' \in [Pipe -> Nat]
        BY <2>1, <4>1, <4>2, <1>n
      <4> QED BY <4>2, <4>3, <4>4, <1>r
    <3>3. CASE Kind[p] \notin {"ports", "split", "iceberg"}
      BY <2>1, <3>3, <1>n, <1>b, <1>r DEF TakeInput
    <3> QED BY <3>1, <3>2, <3>3
  <2>3. created' \in [Pipe -> Nat] /\ lock' \in [Pipe -> Creator \cup Worker \cup {None}]
    BY <1>2, <2>1, <1>n, <1>l DEF LambdaClaim
  <2>4. LT
    BY <1>2, <2>1, <1>t DEF LambdaClaim
  <2> QED BY <1>2, <2>2, <2>3, <2>4, ZenonT(60) DEF LambdaClaim, TypeOK, ThreadInv
<1>3. CASE LambdaEmpty(c)
  <2>1. LT
    BY <1>3, <1>t DEF LambdaEmpty, IdleCreator
  <2>2. lock' \in [Pipe -> Creator \cup Worker \cup {None}]
    BY <1>3, <1>l, Zenon DEF LambdaEmpty
  <2> QED BY <1>3, <2>1, <2>2, ZenonT(60) DEF LambdaEmpty, TypeOK, ThreadInv, source
<1>4. CASE LambdaPark(c)
  <2>1. LT
    BY <1>4, <1>t DEF LambdaPark
  <2>2. lock' \in [Pipe -> Creator \cup Worker \cup {None}]
    BY <1>4, <1>l, Zenon DEF LambdaPark
  <2> QED BY <1>4, <2>1, <2>2, ZenonT(60) DEF LambdaPark, TypeOK, ThreadInv, source
<1>5. CASE LambdaSchedule(c)
  <2>1. LT
    BY <1>5, <1>t DEF LambdaSchedule, IdleCreator
  <2>2. queued' \in [Pipe -> Nat]
    <3>1. p \in Pipe /\ queued' = [queued EXCEPT ![p] = @ + 1]
      BY <1>5, <1>t DEF LambdaSchedule
    <3> QED BY <3>1, <1>n
  <2> QED BY <1>5, <2>1, <2>2, ZenonT(60) DEF LambdaSchedule, TypeOK, ThreadInv, plan, source
<1> QED BY <1>1, <1>2, <1>3, <1>4, <1>5 DEF CreatorStep

(* So do the scan manager, the creator's manager and the engine.           *)
LEMMA TypeOther ==
  ASSUME TypeOK, ThreadInv, ScanManagerStep \/ ManagerStep \/ EngineStep \/ Terminated
  PROVE  TypeOK' /\ ThreadInv'
<1>n. unpushed \in [Pipe -> Nat] /\ ready \in [Pipe -> Nat] /\ requests \in [Pipe -> Nat]
  BY DEF TypeOK
<1>b. closed \in [Pipe -> BOOLEAN]
  BY DEF TypeOK
<1>l. /\ lam \in [Creator -> [pc : CreatorPc, pipe : Pipe \cup {None}]]
      /\ \A d \in Creator : lam[d].pc # "idle" => lam[d].pipe \in Pipe
  BY DEF TypeOK, ThreadInv
<1>1. ASSUME NEW p \in Pipe, PushSplit(p) PROVE TypeOK' /\ ThreadInv'
  <2>1. unpushed' \in [Pipe -> Nat] /\ ready' \in [Pipe -> Nat]
    BY <1>1, <1>n DEF PushSplit
  <2> QED BY <1>1, <2>1, ZenonT(60) DEF PushSplit, TypeOK, ThreadInv, control
<1>2. ASSUME NEW p \in Pipe, CloseConnector(p) PROVE TypeOK' /\ ThreadInv'
  <2>1. closed' \in [Pipe -> BOOLEAN]
    BY <1>2, <1>b DEF CloseConnector
  <2> QED BY <1>2, <2>1, ZenonT(60) DEF CloseConnector, TypeOK, ThreadInv, control
<1>3. ASSUME NEW p \in Pipe, PopRequest(p) PROVE TypeOK' /\ ThreadInv'
  <2>1. requests' \in [Pipe -> Nat] /\ popped' \in Pipe \cup {None}
    BY <1>3, <1>n DEF PopRequest
  <2> QED BY <1>3, <2>1, ZenonT(60) DEF PopRequest, TypeOK, ThreadInv, plan, source
<1>7. CASE DropRequest
  <2>1. popped' \in Pipe \cup {None}
    BY <1>7 DEF DropRequest
  <2> QED BY <1>7, <2>1, ZenonT(60) DEF DropRequest, TypeOK, ThreadInv, plan, source
<1>4. ASSUME NEW q \in Pipe, NEW c \in Creator, DispatchLambda(c, q)
      PROVE  TypeOK' /\ ThreadInv'
  <2>1. /\ lam' \in [Creator -> [pc : CreatorPc, pipe : Pipe \cup {None}]]
        /\ \A d \in Creator : lam'[d].pc # "idle" => lam'[d].pipe \in Pipe
    BY <1>4, <1>l DEF DispatchLambda
  <2>2. ready' \in [Pipe -> Nat]
    BY <1>4, <1>n DEF DispatchLambda
  <2>3. popped' \in Pipe \cup {None}
    BY <1>4 DEF DispatchLambda
  <2> QED BY <1>4, <2>1, <2>2, <2>3, ZenonT(60) DEF DispatchLambda, TypeOK, ThreadInv
<1>5. CASE EngineStep
  <2>1. /\ gmutex' \in Worker \cup {None, "engine"} /\ engine' \in EnginePc
        /\ qopen' \in BOOLEAN /\ pool' \in BOOLEAN
    BY <1>5, Zenon DEF EngineStep, EngineStop, EngineJoin, EngineValidate, EngineIdle, EngineReturn,
                TypeOK, control
  <2>2. requests' \in [Pipe -> Nat]
    BY <1>5, <1>n DEF EngineStep, EngineStop, EngineJoin, EngineValidate, EngineIdle,
                      EngineReturn, NoRequests, control
  <2>3. /\ plan' = plan /\ lam' = lam /\ popped' = popped
        /\ queued' = queued /\ worker' = worker /\ done' = done
    BY <1>5, Zenon DEF EngineStep, EngineStop, EngineJoin, EngineValidate, EngineIdle,
                       EngineReturn, control
  <2> QED BY <2>1, <2>2, <2>3, ZenonT(60) DEF TypeOK, ThreadInv, plan, source
<1>6. CASE Terminated
  BY <1>6, ZenonT(60) DEF Terminated, vars, plan, control, source, TypeOK, ThreadInv
<1> QED BY <1>1, <1>2, <1>3, <1>4, <1>5, <1>6, <1>7 DEF ScanManagerStep, ManagerStep

(* What the steps of update_pipeline_status leave alone, and the types of   *)
(* what they change.                                                        *)
LEMMA UpdateFrame ==
  ASSUME TypeOK, LookInv, NEW w \in Worker, UpdateStatus(w)
  PROVE  /\ UNCHANGED <<created, completed, limited, repo, source, control, queued, done, engine>>
         /\ worker[w].todo # <<>> /\ Head(worker[w].todo) \in Call
         /\ Head(worker[w].todo).op = "update"
         /\ \E t \in Seq(Call) : worker' = [worker EXCEPT ![w].todo = t]
         /\ finished' \in [Pipe -> BOOLEAN]
         /\ lock' \in [Pipe -> Creator \cup Worker \cup {None}]
         /\ look' \in [Worker -> [at : LookAt, first : {"created", "completed"}, seen : Nat]]
<1> DEFINE call == Head(worker[w].todo)
           q    == call.pipe
           rest == Tail(worker[w].todo)
           WorkerType == [pc : WorkerPc, pipe : Pipe \cup {None}, todo : Seq(Call)]
           LookType == [at : LookAt, first : {"created", "completed"}, seen : Nat]
<1>f. finished \in [Pipe -> BOOLEAN]
  BY DEF TypeOK
<1>w. worker \in [Worker -> WorkerType]
  BY Zenon DEF TypeOK
<1>l. lock \in [Pipe -> Creator \cup Worker \cup {None}]
  BY DEF TypeOK
<1>k. look \in [Worker -> LookType]
  BY Zenon DEF TypeOK
<1>n. created \in [Pipe -> Nat] /\ completed \in [Pipe -> Nat]
  BY DEF TypeOK
<1>0. worker[w].todo \in Seq(Call) /\ worker[w].todo # <<>> /\ call.op = "update"
  <2>1. worker[w].todo \in Seq(Call)
    BY <1>w, Zenon
  <2>2. \/ worker[w].todo # <<>> /\ call.op = "update"
        \/ look[w].at \in {"producers", "ports", "counters", "compare"}
    BY Zenon DEF UpdateStatus, StatusEnter, StatusSource, StatusLoad, StatusCompare
  <2>3. look[w].at \in {"producers", "ports", "counters", "compare"} => look[w].at # "away"
    OBVIOUS
  <2> QED BY <2>1, <2>2, <2>3, Zenon DEF LookInv
<1>1. call \in Call /\ rest \in Seq(Call)
  BY <1>0, RestOfSeq, Zenon
<1>2. q \in Pipe /\ call.flag \in BOOLEAN
  BY <1>1
<1>3. Notify(q, call.flag) \in Seq(Call) /\ <<>> \in Seq(Call)
  <2>1. <<>> \in Seq(Call)
    OBVIOUS
  <2> QED BY <2>1, <1>2, NotifyType, Zenon
<1>4. Notify(q, call.flag) \o rest \in Seq(Call) /\ <<>> \o rest \in Seq(Call)
  BY <1>1, <1>3, JoinedSeq
<1>5. worker = [worker EXCEPT ![w].todo = worker[w].todo]
  BY <1>w
<1>6. Away \in LookType
  BY DEF Away
<1> HIDE DEF LookType, WorkerType
<1>7. CASE StatusEnter(w)
  <2>1. \E t \in Seq(Call) : worker' = [worker EXCEPT ![w].todo = t]
    BY <1>7, <1>0, <1>1, <1>4, <1>5, Zenon DEF StatusEnter
  <2>2. lock' \in [Pipe -> Creator \cup Worker \cup {None}]
    <3>1. lock' = lock \/ lock' = [lock EXCEPT ![q] = w]
      BY <1>7, Zenon DEF StatusEnter
    <3> QED BY <3>1, <1>l, <1>2
  <2>3. look' \in [Worker -> LookType]
    <3>1. \/ look' = look
          \/ look' = [look EXCEPT ![w].at = IF IsScan(q) \/ limited[q] THEN "counters"
                                                                      ELSE "producers"]
      BY <1>7, Zenon DEF StatusEnter
    <3>2. \/ look' = look
          \/ look' = [look EXCEPT ![w].at = "counters"]
          \/ look' = [look EXCEPT ![w].at = "producers"]
      BY <3>1, Zenon
    <3> QED BY <3>2, <1>k DEF LookType
  <2>4. finished' \in [Pipe -> BOOLEAN]
    BY <1>7, <1>f, Zenon DEF StatusEnter
  <2> QED BY <1>7, <1>0, <1>1, <2>1, <2>2, <2>3, <2>4, Zenon DEF StatusEnter, LookType
<1>8. CASE StatusSource(w)
  <2>1. \E t \in Seq(Call) : worker' = [worker EXCEPT ![w].todo = t]
    BY <1>8, <1>0, <1>4, <1>5, Zenon DEF StatusSource, StatusLeave
  <2>2. lock' \in [Pipe -> Creator \cup Worker \cup {None}]
    <3>1. lock' = lock \/ lock' = [lock EXCEPT ![q] = None]
      BY <1>8, Zenon DEF StatusSource, StatusLeave
    <3> QED BY <3>1, <1>l, <1>2
  <2>3. look' \in [Worker -> LookType]
    <3>1. \/ look' = [look EXCEPT ![w].at = "ports"]
          \/ look' = [look EXCEPT ![w].at = "counters"]
          \/ look' = [look EXCEPT ![w] = Away]
      BY <1>8, Zenon DEF StatusSource, StatusLeave
    <3>2. CASE look' = [look EXCEPT ![w] = Away]
      BY <3>2, <1>6, <1>k, Zenon
    <3>3. CASE look' # [look EXCEPT ![w] = Away]
      BY <3>1, <3>3, <1>k DEF LookType
    <3> QED BY <3>2, <3>3
  <2>4. finished' \in [Pipe -> BOOLEAN]
    BY <1>8, <1>f, Zenon DEF StatusSource
  <2> QED BY <1>8, <1>0, <1>1, <2>1, <2>2, <2>3, <2>4, Zenon DEF StatusSource, LookType
<1>9. CASE StatusLoad(w)
  <2>1. look' \in [Worker -> LookType]
    <3>1. PICK f \in FirstLoad :
            look' = [look EXCEPT ![w] = [at |-> "compare", first |-> f, seen |-> Counter(f, q)]]
      BY <1>9, Zenon DEF StatusLoad
    <3>2. f \in {"created", "completed"} /\ Counter(f, q) \in Nat
      <4>1. f \in {"created", "completed"}
        BY PlanAssumption, Zenon
      <4> QED BY <4>1, <1>2, <1>n DEF Counter
    <3>3. [at |-> "compare", first |-> f, seen |-> Counter(f, q)] \in LookType
      BY <3>2 DEF LookType
    <3> QED BY <3>1, <3>3, <1>k, Zenon
  <2> QED BY <1>9, <1>0, <1>1, <1>5, <1>f, <1>l, <2>1, Zenon DEF StatusLoad, LookType
<1>10. CASE StatusCompare(w)
  <2>1. \E t \in Seq(Call) : worker' = [worker EXCEPT ![w].todo = t]
    BY <1>10, <1>4, Zenon DEF StatusCompare, StatusLeave
  <2>2. lock' \in [Pipe -> Creator \cup Worker \cup {None}]
    <3>1. lock' = [lock EXCEPT ![q] = None]
      BY <1>10, Zenon DEF StatusCompare, StatusLeave
    <3> QED BY <3>1, <1>l, <1>2
  <2>3. look' \in [Worker -> LookType]
    BY <1>10, <1>k, <1>6, Zenon DEF StatusCompare, StatusLeave
  <2>4. finished' \in [Pipe -> BOOLEAN]
    <3>1. SecondLoad(w, q) \in BOOLEAN
      BY DEF SecondLoad
    <3> QED BY <1>10, <1>f, <3>1, Zenon DEF StatusCompare
  <2> QED BY <1>10, <1>0, <1>1, <2>1, <2>2, <2>3, <2>4, Zenon DEF StatusCompare, LookType
<1> QED BY <1>7, <1>8, <1>9, <1>10, Zenon DEF UpdateStatus

(* And so do the executors' workers.                                       *)
LEMMA TypeWorker ==
  ASSUME TypeOK, ThreadInv, LookInv, NEW w \in Worker,
         WorkerRun(w) \/ \E p \in Pipe : TakeTask(w, p)
  PROVE  TypeOK' /\ ThreadInv'
<1> DEFINE WorkerType == [pc : WorkerPc, pipe : Pipe \cup {None}, todo : Seq(Call)]
           WT == /\ worker' \in [Worker -> WorkerType]
                 /\ \A v \in Worker : worker'[v].pc # "idle" => worker'[v].pipe \in Pipe
                 /\ \A v \in Worker : worker'[v].pc = "idle" => worker'[v] = IdleWorker
<1>t. /\ worker \in [Worker -> WorkerType]
      /\ \A v \in Worker : worker[v].pc # "idle" => worker[v].pipe \in Pipe
      /\ \A v \in Worker : worker[v].pc = "idle" => worker[v] = IdleWorker
  BY Zenon DEF TypeOK, ThreadInv
<1>n. /\ created \in [Pipe -> Nat] /\ completed \in [Pipe -> Nat]
      /\ queued \in [Pipe -> Nat] /\ requests \in [Pipe -> Nat]
  BY DEF TypeOK
<1>i. IdleWorker \in WorkerType
  BY DEF IdleWorker
(* A step that gives the worker a new state.                               *)
<1>s. ASSUME NEW r \in WorkerType, worker' = [worker EXCEPT ![w] = r],
             r.pc # "idle" => r.pipe \in Pipe, r.pc = "idle" => r = IdleWorker
      PROVE  WT
  <2> HIDE DEF WorkerType
  <2> QED BY <1>s, <1>t
<1>w. worker[w] \in WorkerType
  BY <1>t, Zenon
<1>1. ASSUME NEW p \in Pipe, TakeTask(w, p) PROVE TypeOK' /\ ThreadInv'
  <2>1. WT
    <3>1. worker' = [worker EXCEPT ![w] = [pc |-> "run", pipe |-> p, todo |-> <<>>]]
      BY <1>1 DEF TakeTask
    <3>2. [pc |-> "run", pipe |-> p, todo |-> <<>>] \in WorkerType
      OBVIOUS
    <3> HIDE DEF WT, WorkerType
    <3> QED BY <3>1, <3>2, <1>s, Zenon
  <2>2. queued' \in [Pipe -> Nat]
    BY <1>1, <1>n DEF TakeTask
  <2> QED BY <1>1, <2>1, <2>2, ZenonT(60) DEF TakeTask, TypeOK, ThreadInv, plan, control, source
(* A step that only moves the worker to another state with the same task.  *)
<1>m. ASSUME NEW pc \in WorkerPc \ {"idle"}, worker[w].pc # "idle",
             worker' = [worker EXCEPT ![w].pc = pc]
      PROVE  WT
  <2>1. worker' = [worker EXCEPT ![w] = [worker[w] EXCEPT !.pc = pc]]
    BY <1>m, <1>t
  <2>2. [worker[w] EXCEPT !.pc = pc] \in WorkerType
    BY <1>w
  <2>3. [worker[w] EXCEPT !.pc = pc].pc # "idle" /\ [worker[w] EXCEPT !.pc = pc].pipe \in Pipe
    BY <1>m, <1>t, <1>w
  <2> HIDE DEF WT, WorkerType
  <2> QED BY <2>1, <2>2, <2>3, <1>s, Zenon
(* A step that only changes the calls the worker has to make.              *)
<1>c. ASSUME NEW t \in Seq(Call), worker[w].todo # <<>>,
             worker' = [worker EXCEPT ![w].todo = t]
      PROVE  WT
  <2>1. worker' = [worker EXCEPT ![w] = [worker[w] EXCEPT !.todo = t]]
    BY <1>c, <1>t
  <2>2. [worker[w] EXCEPT !.todo = t] \in WorkerType
    BY <1>w
  <2>3. worker[w].pc # "idle"
    BY <1>c, <1>t DEF IdleWorker
  <2>4. [worker[w] EXCEPT !.todo = t].pc # "idle" /\ [worker[w] EXCEPT !.todo = t].pipe \in Pipe
    BY <2>3, <1>t, <1>w, Zenon
  <2> HIDE DEF WT, WorkerType
  <2> QED BY <2>1, <2>2, <2>4, <1>s, Zenon
<1> HIDE DEF WT
<1>2. ASSUME NEW n \in Outputs, Execute(w, n) PROVE TypeOK' /\ ThreadInv'
  <2>1. WT
    BY <1>2, <1>m, Zenon DEF Execute
  <2>2. n \in Nat
    BY PlanAssumption
  <2>3. limited' \in [Pipe -> BOOLEAN]
    <3>1. limited \in [Pipe -> BOOLEAN]
      BY DEF TypeOK
    <3> QED BY <1>2, <3>1, Zenon DEF Execute
  <2>4. closed' \in [Pipe -> BOOLEAN]
    <3>1. closed \in [Pipe -> BOOLEAN]
      BY DEF TypeOK
    <3> QED BY <1>2, <3>1, Zenon DEF Execute
  <2>5. repo' \in [Edge -> Nat]
    <3>1. repo \in [Edge -> Nat]
      BY DEF TypeOK
    <3> QED BY <1>2, <2>2, <3>1 DEF Execute
  <2> QED BY <1>2, <2>1, <2>3, <2>4, <2>5, ZenonT(60) DEF WT, Execute, TypeOK, ThreadInv, control
<1>3. CASE OomCreate(w)
  <2>1. WT
    BY <1>3, <1>m, Zenon DEF OomCreate
  <2>2. created' \in [Pipe -> Nat]
    <3>1. /\ worker[w].pipe \in Pipe
          /\ created' = [created EXCEPT ![worker[w].pipe] = @ + 1]
      BY <1>3, <1>t DEF OomCreate
    <3> QED BY <3>1, <1>n
  <2> QED BY <1>3, <2>1, <2>2, ZenonT(60) DEF WT, OomCreate, TypeOK, ThreadInv, control, source
<1>4. CASE OomSchedule(w)
  <2>1. WT
    <3> DEFINE p == worker[w].pipe
               r == [pc |-> "drop", pipe |-> p, todo |-> <<Update(p, TRUE)>>]
    <3>0. p \in Pipe /\ worker[w].pc # "idle"
      BY <1>4, <1>t DEF OomSchedule
    <3>1. worker' = [worker EXCEPT ![w].pc = "drop"] \/ worker' = [worker EXCEPT ![w] = r]
      BY <1>4, Zenon DEF OomSchedule
    <3>2. <<Update(p, TRUE)>> \in Seq(Call)
      BY <3>0 DEF Update
    <3>3. r \in WorkerType /\ r.pc # "idle" /\ r.pipe \in Pipe
      BY <3>0, <3>2, Zenon
    <3> HIDE DEF WorkerType, r
    <3> QED BY <3>0, <3>1, <3>3, <1>m, <1>s, Zenon
  <2>2. completed' \in [Pipe -> Nat] /\ queued' \in [Pipe -> Nat]
    <3>1. \/ queued' = [queued EXCEPT ![worker[w].pipe] = @ + 1] /\ completed' = completed
          \/ completed' = [completed EXCEPT ![worker[w].pipe] = @ + 1] /\ queued' = queued
      BY <1>4, Zenon DEF OomSchedule
    <3> QED BY <3>1, <1>n
  <2> QED BY <1>4, <2>1, <2>2, ZenonT(60) DEF WT, OomSchedule, TypeOK, ThreadInv, control, source
<1>5. CASE DestroyTask(w)
  <2>0. worker[w].pipe \in Pipe
    BY <1>5, <1>t DEF DestroyTask
  <2>1. WT
    <3> DEFINE r == [pc   |-> IF worker[w].pc = "ran" THEN "tail" ELSE "exit",
                     pipe |-> worker[w].pipe,
                     todo |-> <<Update(worker[w].pipe, TRUE)>>]
    <3>1. worker' = [worker EXCEPT ![w] = r]
      BY <1>5 DEF DestroyTask
    <3>2. <<Update(worker[w].pipe, TRUE)>> \in Seq(Call)
      BY <2>0 DEF Update
    <3>3. r \in WorkerType /\ r.pc # "idle" /\ r.pipe \in Pipe
      BY <2>0, <3>2, Zenon
    <3> HIDE DEF WorkerType, r
    <3> QED BY <3>1, <3>3, <1>s, Zenon
  <2>2. completed' \in [Pipe -> Nat]
    <3>1. completed' = [completed EXCEPT ![worker[w].pipe] = @ + 1]
      BY <1>5 DEF DestroyTask
    <3> QED BY <2>0, <3>1, <1>n
  <2> QED BY <1>5, <2>1, <2>2, ZenonT(60) DEF WT, DestroyTask, TypeOK, ThreadInv, control, source
<1>6. CASE UpdateStatus(w)
  <2>1. WT
    BY <1>6, <1>c, UpdateFrame, Zenon
  <2> QED BY <1>6, <2>1, UpdateFrame, ZenonT(60) DEF WT, TypeOK, ThreadInv, control, source
<1>7. CASE PushRequest(w)
  <2>0. worker[w].todo \in Seq(Call) /\ worker[w].todo # <<>>
    BY <1>7, <1>t, Zenon DEF PushRequest
  <2>1. Head(worker[w].todo) \in Call /\ Tail(worker[w].todo) \in Seq(Call)
    BY <2>0, RestOfSeq, Zenon
  <2>2. WT
    BY <1>7, <2>0, <2>1, <1>c, Zenon DEF PushRequest
  <2>3. requests' \in [Pipe -> Nat]
    <3>1. Head(worker[w].todo).pipe \in Pipe
      BY <2>1, Zenon
    <3>2. \/ requests' = [requests EXCEPT ![Head(worker[w].todo).pipe] = @ + 1]
          \/ requests' = requests
      BY <1>7 DEF PushRequest
    <3> QED BY <3>1, <3>2, <1>n
  <2> QED BY <1>7, <2>2, <2>3, ZenonT(60) DEF WT, PushRequest, TypeOK, ThreadInv, plan, source
<1>8. CASE WorkerTail(w)
  <2>0. worker[w].pipe \in Pipe
    BY <1>8, <1>t DEF WorkerTail
  <2>1. WT
    <3>0. <<>> \in Seq(Call)
      OBVIOUS
    <3>1. PICK t \in Seq(Call), pc \in {"drain", "exit"} :
            worker' = [worker EXCEPT ![w] = [pc |-> pc, pipe |-> worker[w].pipe, todo |-> t]]
      BY <1>8, <2>0, <3>0, ConsumersType, Zenon DEF WorkerTail
    <3> DEFINE r == [pc |-> pc, pipe |-> worker[w].pipe, todo |-> t]
    <3>2. r \in WorkerType /\ r.pc # "idle" /\ r.pipe \in Pipe
      BY <2>0
    <3>3. worker' = [worker EXCEPT ![w] = r]
      BY <3>1
    <3> HIDE DEF WorkerType, r
    <3> QED BY <3>2, <3>3, <1>s, Zenon
  <2> QED BY <1>8, <2>1, ZenonT(60) DEF WT, WorkerTail, TypeOK, ThreadInv, plan, control, source
<1>9. ASSUME worker' = [worker EXCEPT ![w] = IdleWorker] PROVE WT
  <2> HIDE DEF WorkerType
  <2>1. IdleWorker.pc = "idle"
    BY DEF IdleWorker
  <2> QED BY <1>9, <1>i, <1>s, <2>1, Zenon
<1>10. CASE WorkerExit(w)
  BY <1>9, <1>10, ZenonT(60) DEF WT, WorkerExit, TypeOK, ThreadInv, plan, control, source
<1>11. CASE DrainStart(w)
  <2>1. WT
    BY <1>11, <1>m, Zenon DEF DrainStart
  <2> QED BY <1>11, <2>1, ZenonT(60) DEF WT, DrainStart, TypeOK, ThreadInv, plan, source, NoRequests
<1>12. CASE DrainWait(w)
  <2>1. WT
    BY <1>12, <1>m, Zenon DEF DrainWait
  <2> QED BY <1>12, <2>1, ZenonT(60) DEF WT, DrainWait, TypeOK, ThreadInv, plan, source
<1>13. CASE MarkCompleted(w)
  BY <1>9, <1>13, ZenonT(60) DEF WT, MarkCompleted, TypeOK, ThreadInv, plan, control, source
<1> QED BY <1>1, <1>2, <1>3, <1>4, <1>5, <1>6, <1>7, <1>8, <1>10, <1>11, <1>12, <1>13, Zenon DEF WorkerRun

(* A thread keeps the lock it looks under: nobody else takes it, and only   *)
(* its own step releases it.                                               *)
LEMMA LookStep ==
  ASSUME TypeOK, LookInv, [Next]_vars
  PROVE  LookInv'
<1> DEFINE at(v)   == Head(worker[v].todo).pipe
           Busy(v) == look[v].at # "away"
           Kept(v) == /\ worker'[v].todo = worker[v].todo
                      /\ lock'[at(v)] = lock[at(v)]
           Good(v) == look'[v].at # "away" =>
                        /\ worker'[v].todo # <<>>
                        /\ Head(worker'[v].todo).op = "update"
                        /\ lock'[Head(worker'[v].todo).pipe] = v
<1>t. /\ lock \in [Pipe -> Creator \cup Worker \cup {None}]
      /\ look \in [Worker -> [at : LookAt, first : {"created", "completed"}, seen : Nat]]
      /\ worker \in [Worker -> [pc : WorkerPc, pipe : Pipe \cup {None}, todo : Seq(Call)]]
  BY Zenon DEF TypeOK
<1>p. ASSUME NEW v \in Worker, Busy(v) PROVE at(v) \in Pipe
  <2>1. worker[v].todo \in Seq(Call) /\ worker[v].todo # <<>>
    BY <1>p, <1>t, Zenon DEF LookInv
  <2>2. Head(worker[v].todo) \in Call
    BY <2>1, RestOfSeq, Zenon
  <2> QED BY <2>2
<1>k. ASSUME NEW v \in Worker, look'[v] = look[v], Busy(v) => Kept(v) PROVE Good(v)
  BY <1>k, Zenon DEF LookInv
<1>g. ASSUME \A v \in Worker : Good(v) PROVE LookInv'
  BY <1>g, Zenon DEF LookInv
<1> HIDE DEF Good
<1>u. ASSUME look' = look, lock' = lock,
             \A v \in Worker : Busy(v) => worker'[v].todo = worker[v].todo
      PROVE  LookInv'
  BY <1>u, <1>k, <1>g, Zenon
(* A step of a worker without calls to make.                               *)
<1>i. ASSUME look' = look, lock' = lock, NEW w \in Worker, worker[w].todo = <<>>,
             NEW r, worker' = [worker EXCEPT ![w] = r]
      PROVE  LookInv'
  <2>1. ~Busy(w)
    BY <1>i, Zenon DEF LookInv
  <2>2. \A v \in Worker : Busy(v) => worker'[v] = worker[v]
    BY <1>i, <1>t, <2>1, Zenon
  <2> QED BY <1>i, <1>u, <2>2, Zenon
(* A step that moves a worker on and leaves its calls alone.               *)
<1>m. ASSUME look' = look, lock' = lock, NEW w \in Worker,
             NEW pc, worker' = [worker EXCEPT ![w].pc = pc]
      PROVE  LookInv'
  <2>1. \A v \in Worker : worker'[v].todo = worker[v].todo
    BY <1>m, <1>t
  <2> QED BY <1>m, <1>u, <2>1, Zenon
<1>1. ASSUME NEW c \in Creator, CreatorStep(c) PROVE LookInv'
  <2> DEFINE p == lam[c].pipe
  <2>1. look' = look /\ worker' = worker
    BY <1>1, Zenon DEF CreatorStep, LambdaLoop, LambdaClaim, LambdaEmpty, LambdaPark,
                       LambdaSchedule, plan
  <2>2. lock' = lock \/ /\ lock[p] \in {None, c}
                        /\ lock' = [lock EXCEPT ![p] = None] \/ lock' = [lock EXCEPT ![p] = c]
    BY <1>1, Zenon DEF CreatorStep, LambdaLoop, LambdaClaim, LambdaEmpty, LambdaPark,
                       LambdaSchedule, LockOf, plan
  <2>3. ASSUME NEW v \in Worker, Busy(v) PROVE lock'[at(v)] = lock[at(v)]
    <3>1. lock[at(v)] = v /\ v \notin {None, c}
      BY <2>3, PipeAssumption DEF LookInv
    <3> QED BY <2>2, <2>3, <3>1, <1>p, <1>t, Zenon
  <2> QED BY <2>1, <2>3, <1>k, <1>g, Zenon
<1>2. CASE ScanManagerStep \/ ManagerStep \/ EngineStep \/ Terminated \/ UNCHANGED vars
  <2>1. look' = look /\ worker' = worker /\ lock' = lock
    BY <1>2, Zenon DEF ScanManagerStep, PushSplit, CloseConnector, ManagerStep, PopRequest,
         DropRequest, DispatchLambda, EngineStep, EngineStop, EngineJoin, EngineValidate,
         EngineIdle, EngineReturn, Terminated, vars, plan
  <2> QED BY <2>1, <1>u, Zenon
<1>3. ASSUME NEW w \in Worker, NEW p \in Pipe, TakeTask(w, p) PROVE LookInv'
  <2>1. worker[w].todo = <<>>
    BY <1>3 DEF TakeTask, IdleWorker
  <2> QED BY <1>3, <2>1, <1>i, Zenon DEF TakeTask, plan
<1>4. ASSUME NEW w \in Worker, WorkerRun(w), ~UpdateStatus(w) PROVE LookInv'
  <2>1. CASE (\E n \in Outputs : Execute(w, n)) \/ OomCreate(w) \/ DrainStart(w) \/ DrainWait(w)
    BY <2>1, <1>m, Zenon DEF Execute, OomCreate, DrainStart, DrainWait, plan
  <2>2. CASE DestroyTask(w) \/ WorkerTail(w) \/ WorkerExit(w) \/ MarkCompleted(w)
    BY <2>2, <1>i, Zenon DEF DestroyTask, WorkerTail, WorkerExit, MarkCompleted, plan
  <2>3. CASE OomSchedule(w)
    BY <2>3, <1>i, <1>m, Zenon DEF OomSchedule
  <2>4. CASE PushRequest(w)
    <3>1. ~Busy(w)
      <4>1. Head(worker[w].todo).op # "update"
        BY <2>4 DEF PushRequest
      <4> QED BY <4>1, Zenon DEF LookInv
    <3>2. \A v \in Worker : Busy(v) => worker'[v] = worker[v]
      BY <2>4, <3>1, <1>t, Zenon DEF PushRequest
    <3> QED BY <2>4, <3>2, <1>u, Zenon DEF PushRequest, plan
  <2> QED BY <1>4, <2>1, <2>2, <2>3, <2>4, Zenon DEF WorkerRun
<1>5. ASSUME NEW w \in Worker, UpdateStatus(w) PROVE LookInv'
  <2> DEFINE q == at(w)
             Looking == look[w].at \in {"producers", "ports", "counters", "compare"}
  <2>0. Looking => Busy(w)
    OBVIOUS
  <2>1. q \in Pipe
    <3>1. Head(worker[w].todo) \in Call
      BY <1>5, UpdateFrame, Zenon
    <3> QED BY <3>1
  <2>2. /\ lock[q] \in {None, w}
        /\ lock' = lock \/ lock' = [lock EXCEPT ![q] = None] \/ lock' = [lock EXCEPT ![q] = w]
    <3>1. lock[q] = None \/ Looking
      BY <1>5, Zenon DEF UpdateStatus, StatusEnter, StatusSource, StatusLoad, StatusCompare
    <3>2. lock[q] \in {None, w}
      BY <3>1, <2>0, Zenon DEF LookInv
    <3>3. lock' = lock \/ lock' = [lock EXCEPT ![q] = None] \/ lock' = [lock EXCEPT ![q] = w]
      BY <1>5, Zenon DEF UpdateStatus, StatusEnter, StatusSource, StatusLoad, StatusCompare,
                         StatusLeave
    <3> QED BY <3>2, <3>3
  <2>3. ASSUME NEW v \in Worker, v # w PROVE Good(v)
    <3>1. worker'[v] = worker[v] /\ look'[v] = look[v]
      BY <1>5, <2>3, <1>t, Zenon DEF UpdateStatus, StatusEnter, StatusSource, StatusLoad,
                                     StatusCompare, StatusLeave
    <3>2. ASSUME Busy(v) PROVE lock'[at(v)] = lock[at(v)]
      <4>1. lock[at(v)] = v /\ v \notin {None, w}
        BY <2>3, <3>2, PipeAssumption DEF LookInv
      <4> QED BY <2>1, <2>2, <4>1, <3>2, <1>p, <1>t, Zenon
    <3> QED BY <3>1, <3>2, <1>k, Zenon
  <2>4. Good(w)
    <3>1. CASE look'[w] = Away
      BY <3>1 DEF Good, Away
    <3>2. CASE look'[w] # Away /\ StatusEnter(w)
      <4>1. look[w] = Away /\ (look' = look \/ (lock' = [lock EXCEPT ![q] = w] /\ worker' = worker))
        BY <3>2, Zenon DEF StatusEnter
      <4>2. lock' = [lock EXCEPT ![q] = w] /\ worker' = worker
        BY <3>2, <4>1, Zenon
      <4>3. lock'[q] = w
        BY <4>2, <2>1, <1>t, Zenon
      <4>4. worker[w].todo # <<>> /\ Head(worker[w].todo).op = "update"
        BY <3>2, Zenon DEF StatusEnter
      <4> QED BY <4>2, <4>3, <4>4, Zenon DEF Good
    <3>3. CASE look'[w] # Away /\ ~StatusEnter(w)
      <4>1. look' # [look EXCEPT ![w] = Away]
        BY <3>3, <1>t, Zenon
      <4>2. Looking /\ worker' = worker /\ lock' = lock
        BY <1>5, <3>3, <4>1, Zenon DEF UpdateStatus, StatusSource, StatusLoad, StatusCompare,
                                       StatusLeave
      <4> QED BY <2>0, <4>2, Zenon DEF Good, LookInv
    <3> QED BY <3>1, <3>2, <3>3, Zenon
  <2> QED BY <2>3, <2>4, <1>g, Zenon
<1> QED BY <1>1, <1>2, <1>3, <1>4, <1>5, Zenon DEF Next

(* Type correctness of the pipelines, for every plan.                      *)
THEOREM TypeCorrect == Spec => [](TypeOK /\ ThreadInv /\ LookInv)
<1>1. ASSUME TypeOK /\ ThreadInv /\ LookInv, [Next]_vars PROVE TypeOK' /\ ThreadInv' /\ LookInv'
  <2>1. CASE UNCHANGED vars
    BY <1>1, <2>1, LookStep, ZenonT(60) DEF TypeOK, ThreadInv, vars, plan, control, source
  <2> QED BY <1>1, <2>1, LookStep, TypeCreator, TypeOther, TypeWorker, Zenon DEF Next
<1> QED BY <1>1, TypeInit, PTL DEF Spec

-----------------------------------------------------------------------------
(* The task counters.                                                      *)

(* The threads that own tasks of a pipeline are finitely many.             *)
LEMMA FiniteThreads ==
  ASSUME NEW p
  PROVE  /\ IsFiniteSet(Owners(p)) /\ Cardinality(Owners(p)) \in Nat
         /\ IsFiniteSet(Reschedulers(p)) /\ Cardinality(Reschedulers(p)) \in Nat
         /\ IsFiniteSet(Makers(p)) /\ Cardinality(Makers(p)) \in Nat
<1>1. Owners(p) \subseteq Worker /\ Reschedulers(p) \subseteq Worker /\ Makers(p) \subseteq Creator
  BY DEF Owners, Reschedulers, Makers
<1>2. IsFiniteSet(Owners(p)) /\ IsFiniteSet(Reschedulers(p)) /\ IsFiniteSet(Makers(p))
  BY <1>1, PipeAssumption, FS_Subset
<1> QED BY <1>2, FS_CardinalityType

(* One thread more, and one thread less.                                   *)
LEMMA OneMore ==
  ASSUME NEW S, IsFiniteSet(S), NEW x, x \notin S, NEW T, T = S \cup {x}
  PROVE  Cardinality(T) = Cardinality(S) + 1
BY FS_AddElement

LEMMA OneLess ==
  ASSUME NEW S, IsFiniteSet(S), NEW x, x \in S, NEW T, T = S \ {x}
  PROVE  Cardinality(S) = Cardinality(T) + 1
<1>1. IsFiniteSet(T) /\ x \notin T /\ S = T \cup {x}
  BY FS_Subset
<1> QED BY <1>1, OneMore

(* Initially there are no tasks.                                           *)
LEMMA CountInit == Init => TaskCount
<1> SUFFICES ASSUME Init, NEW p \in Pipe
             PROVE  created[p] = completed[p] + queued[p] + Cardinality(Owners(p))
                                 + Cardinality(Reschedulers(p)) + Cardinality(Makers(p))
  BY DEF TaskCount
<1>1. Owners(p) = {} /\ Reschedulers(p) = {} /\ Makers(p) = {}
  BY DEF Init, Owners, Reschedulers, Makers, IdleWorker, IdleCreator, Holding
<1>2. created[p] = 0 /\ completed[p] = 0 /\ queued[p] = 0
  BY DEF Init
<1> QED BY <1>1, <1>2, FS_EmptySet

(* Creation of a task keeps the counts.                                    *)
LEMMA CountCreator ==
  ASSUME TypeOK, ThreadInv, TaskCount, NEW c \in Creator, CreatorStep(c)
  PROVE  TaskCount'
<1> DEFINE p == lam[c].pipe
<1>t. /\ lam \in [Creator -> [pc : CreatorPc, pipe : Pipe \cup {None}]]
      /\ \A d \in Creator : lam[d].pc # "idle" => lam[d].pipe \in Pipe
  BY DEF TypeOK, ThreadInv
<1>n. created \in [Pipe -> Nat] /\ completed \in [Pipe -> Nat] /\ queued \in [Pipe -> Nat]
  BY Zenon DEF TypeOK
<1>c. worker' = worker /\ completed' = completed
  BY DEF CreatorStep, LambdaLoop, LambdaClaim, LambdaEmpty, LambdaPark, LambdaSchedule, plan
<1>o. \A q \in Pipe : Owners(q)' = Owners(q) /\ Reschedulers(q)' = Reschedulers(q)
  BY <1>c, Zenon DEF Owners, Reschedulers
<1> SUFFICES ASSUME NEW q \in Pipe
             PROVE  created'[q] = completed'[q] + queued'[q] + Cardinality(Owners(q))
                                  + Cardinality(Reschedulers(q)) + Cardinality(Makers(q)')
  BY <1>o, Zenon DEF TaskCount
<1>q. created[q] = completed[q] + queued[q] + Cardinality(Owners(q))
                   + Cardinality(Reschedulers(q)) + Cardinality(Makers(q))
  BY DEF TaskCount
<1>f. /\ Cardinality(Owners(q)) \in Nat /\ Cardinality(Reschedulers(q)) \in Nat
      /\ Cardinality(Makers(q)) \in Nat /\ IsFiniteSet(Makers(q))
  BY FiniteThreads
<1>1. CASE LambdaClaim(c)
  <2>0. p \in Pipe
    BY <1>1, <1>t DEF LambdaClaim
  <2>1. created' = [created EXCEPT ![p] = @ + 1] /\ queued' = queued
    BY <1>1 DEF LambdaClaim
  <2>2. lam' = [lam EXCEPT ![c].pc = "schedule"] /\ lam[c].pc # "schedule"
    BY <1>1, Zenon DEF LambdaClaim
  <2>3. CASE q = p
    <3>1. c \notin Makers(q) /\ Makers(q)' = Makers(q) \cup {c}
      BY <2>2, <2>3, <1>t DEF Makers
    <3>2. Cardinality(Makers(q)') = Cardinality(Makers(q)) + 1
      BY <3>1, <1>f, OneMore, Zenon
    <3> QED BY <2>0, <2>1, <2>3, <3>2, <1>q, <1>f, <1>n, <1>c
  <2>4. CASE q # p
    <3>1. Makers(q)' = Makers(q)
      BY <2>2, <2>4, <1>t, Zenon DEF Makers
    <3> QED BY <2>1, <2>4, <3>1, <1>q, <1>n, <1>c, Zenon
  <2> QED BY <2>3, <2>4
<1>2. CASE LambdaSchedule(c)
  <2>0. p \in Pipe
    BY <1>2, <1>t DEF LambdaSchedule
  <2>1. queued' = [queued EXCEPT ![p] = @ + 1] /\ created' = created
    BY <1>2 DEF LambdaSchedule, plan
  <2>2. lam[c].pc = "schedule" /\ \E r : r.pc # "schedule" /\ lam' = [lam EXCEPT ![c] = r]
    <3>1. IdleCreator.pc # "schedule"
      BY DEF IdleCreator
    <3>2. \A pc : [lam[c] EXCEPT !.pc = pc].pc = pc
      BY <1>t, Zenon
    <3> QED BY <1>2, <3>1, <3>2, Zenon DEF LambdaSchedule
  <2>3. CASE q = p
    <3>1. c \in Makers(q) /\ Makers(q)' = Makers(q) \ {c}
      BY <2>2, <2>3, <1>t DEF Makers
    <3>2. Cardinality(Makers(q)) = Cardinality(Makers(q)') + 1
      BY <3>1, <1>f, OneLess
    <3>3. Cardinality(Makers(q)') \in Nat
      BY <3>1, <1>f, FS_Subset, FS_CardinalityType, SMTT(30), Zenon
    <3> QED BY <2>0, <2>1, <2>3, <3>2, <3>3, <1>q, <1>f, <1>n, <1>c
  <2>4. CASE q # p
    <3>1. Makers(q)' = Makers(q)
      BY <2>2, <2>4, <1>t, Zenon DEF Makers
    <3> QED BY <2>1, <2>4, <3>1, <1>q, <1>n, <1>c, SMTT(30), Zenon
  <2> QED BY <2>3, <2>4
<1>3. CASE LambdaLoop(c) \/ LambdaEmpty(c) \/ LambdaPark(c)
  <2>1. created' = created /\ queued' = queued
    BY <1>3 DEF LambdaLoop, LambdaEmpty, LambdaPark, plan
  <2>2. /\ lam[c].pc # "schedule"
        /\ \E r : r.pc # "schedule" /\ lam' = [lam EXCEPT ![c] = r]
    <3>1. IdleCreator.pc # "schedule"
      BY DEF IdleCreator
    <3>2. \A pc : [lam[c] EXCEPT !.pc = pc].pc = pc
      BY <1>t
    <3>3. CASE LambdaLoop(c)
      BY <3>1, <3>2, <3>3, Zenon DEF LambdaLoop
    <3>4. CASE LambdaEmpty(c)
      BY <3>1, <3>4, Zenon DEF LambdaEmpty
    <3>5. CASE LambdaPark(c)
      <4>1. lam' = [lam EXCEPT ![c] = [lam[c] EXCEPT !.pc = "parked"]]
        BY <3>5, <1>t DEF LambdaPark
      <4> QED BY <3>5, <4>1, <3>2, ZenonT(30) DEF LambdaPark
    <3> QED BY <1>3, <3>3, <3>4, <3>5
  <2>3. Makers(q)' = Makers(q)
    BY <2>2, <1>t DEF Makers
  <2> QED BY <2>1, <2>3, <1>q, <1>c, SMTT(30), Zenon
<1> QED BY <1>1, <1>2, <1>3, Zenon DEF CreatorStep

(* Running, rescheduling and destroying a task keep the counts.            *)
LEMMA CountWorker ==
  ASSUME TypeOK, ThreadInv, LookInv, TaskCount, NEW w \in Worker,
         WorkerRun(w) \/ \E p \in Pipe : TakeTask(w, p)
  PROVE  TaskCount'
<1> DEFINE p == worker[w].pipe
<1>t. /\ worker \in [Worker -> [pc : WorkerPc, pipe : Pipe \cup {None}, todo : Seq(Call)]]
      /\ \A v \in Worker : worker[v].pc # "idle" => worker[v].pipe \in Pipe
      /\ \A v \in Worker : worker[v].pc = "idle" => worker[v] = IdleWorker
  BY Zenon DEF TypeOK, ThreadInv
<1>n. created \in [Pipe -> Nat] /\ completed \in [Pipe -> Nat] /\ queued \in [Pipe -> Nat]
  BY Zenon DEF TypeOK
<1>l. lam' = lam
  <2>1. CASE UpdateStatus(w)
    BY <2>1, UpdateFrame, Zenon DEF control
  <2> QED BY <2>1, Zenon DEF WorkerRun, TakeTask, Execute, OomCreate, OomSchedule, DestroyTask,
         PushRequest, WorkerTail, WorkerExit, DrainStart, DrainWait, MarkCompleted, control
<1>m. \A q \in Pipe : Makers(q)' = Makers(q)
  BY <1>l, SMTT(30), Zenon DEF Makers
<1> SUFFICES ASSUME NEW q \in Pipe
             PROVE  created'[q] = completed'[q] + queued'[q] + Cardinality(Owners(q)')
                                  + Cardinality(Reschedulers(q)') + Cardinality(Makers(q))
  BY <1>m, SMTT(30) DEF TaskCount
<1>q. created[q] = completed[q] + queued[q] + Cardinality(Owners(q))
                   + Cardinality(Reschedulers(q)) + Cardinality(Makers(q))
  BY Zenon DEF TaskCount
<1>f. /\ Cardinality(Owners(q)) \in Nat /\ IsFiniteSet(Owners(q))
      /\ Cardinality(Reschedulers(q)) \in Nat /\ IsFiniteSet(Reschedulers(q))
      /\ Cardinality(Makers(q)) \in Nat
  BY FiniteThreads, Zenon
<1>1. ASSUME NEW t \in Pipe, TakeTask(w, t)
      PROVE  created'[q] = completed'[q] + queued'[q] + Cardinality(Owners(q)')
                           + Cardinality(Reschedulers(q)') + Cardinality(Makers(q))
  <2>1. /\ worker[w] = IdleWorker
        /\ worker' = [worker EXCEPT ![w] = [pc |-> "run", pipe |-> t, todo |-> <<>>]]
    BY <1>1, Zenon DEF TakeTask
  <2>2. created' = created /\ completed' = completed
    BY <1>1 DEF TakeTask, plan
  <2>3. queued[t] > 0 /\ queued' = [queued EXCEPT ![t] = @ - 1]
    BY <1>1, Zenon DEF TakeTask
  <2>7. /\ worker[w].pc = "idle" /\ worker'[w].pc = "run" /\ worker'[w].pipe = t
        /\ \A v \in Worker \ {w} : worker'[v] = worker[v]
    BY <2>1, <1>t DEF IdleWorker
  <2>8. "idle" \notin Holding /\ "run" \in Holding /\ "idle" # "oom" /\ "run" # "oom"
    BY DEF Holding
  <2>4. Reschedulers(q)' = Reschedulers(q)
    BY <2>7, <2>8, ZenonT(60) DEF Reschedulers
  <2>5. CASE q = t
    <3>1. w \notin Owners(q) /\ Owners(q)' = Owners(q) \cup {w}
      BY <2>7, <2>8, <2>5, ZenonT(60) DEF Owners
    <3>2. Cardinality(Owners(q)') = Cardinality(Owners(q)) + 1
      BY <3>1, <1>f, OneMore, SMTT(30), Zenon
    <3> QED BY <2>2, <2>3, <2>4, <2>5, <3>2, <1>q, <1>f, <1>n
  <2>6. CASE q # t
    <3>1. Owners(q)' = Owners(q)
      BY <2>7, <2>8, <2>6, ZenonT(60) DEF Owners
    <3> QED BY <2>2, <2>3, <2>4, <2>6, <3>1, <1>q, <1>n, Zenon
  <2> QED BY <2>5, <2>6, SMTT(30), Zenon
<1>2. CASE OomCreate(w)
  <2>0. p \in Pipe
    BY <1>2, <1>t DEF OomCreate
  <2>1. worker[w].pc = "run" /\ worker' = [worker EXCEPT ![w].pc = "oom"]
    BY <1>2 DEF OomCreate
  <2>2. completed' = completed /\ queued' = queued /\ created' = [created EXCEPT ![p] = @ + 1]
    BY <1>2 DEF OomCreate
  <2>3. Owners(q)' = Owners(q)
    BY <2>1, <1>t, SMTT(30), Zenon DEF Owners, Holding
  <2>4. CASE q = p
    <3>1. w \notin Reschedulers(q) /\ Reschedulers(q)' = Reschedulers(q) \cup {w}
      BY <2>1, <2>4, <1>t, Zenon DEF Reschedulers
    <3>2. Cardinality(Reschedulers(q)') = Cardinality(Reschedulers(q)) + 1
      BY <3>1, <1>f, OneMore, SMTT(30), Zenon
    <3> QED BY <2>2, <2>3, <2>4, <3>2, <1>q, <1>f, <1>n
  <2>5. CASE q # p
    <3>1. Reschedulers(q)' = Reschedulers(q)
      BY <2>1, <2>5, <1>t, Zenon DEF Reschedulers
    <3> QED BY <2>2, <2>3, <2>5, <3>1, <1>q, <1>n, Zenon
  <2> QED BY <2>4, <2>5
<1>3. CASE OomSchedule(w)
  <2>0. p \in Pipe
    BY <1>3, <1>t DEF OomSchedule
  <2>1. /\ worker[w].pc = "oom" /\ worker'[w].pc = "drop" /\ worker'[w].pipe = p
        /\ \A v \in Worker \ {w} : worker'[v] = worker[v]
    <3>1. /\ worker[w].pc = "oom"
          /\ \/ worker' = [worker EXCEPT ![w].pc = "drop"]
             \/ worker' = [worker EXCEPT ![w] =
                  [pc |-> "drop", pipe |-> p, todo |-> <<Update(p, TRUE)>>]]
      BY <1>3, Zenon DEF OomSchedule
    <3>2. CASE worker' = [worker EXCEPT ![w].pc = "drop"]
      BY <3>1, <3>2, <1>t, Zenon
    <3>3. CASE worker' # [worker EXCEPT ![w].pc = "drop"]
      <4>1. worker'[w] = [pc |-> "drop", pipe |-> p, todo |-> <<Update(p, TRUE)>>]
        BY <3>1, <3>3, <1>t, Zenon
      <4>2. \A v \in Worker \ {w} : worker'[v] = worker[v]
        BY <3>1, <3>3, <1>t, Zenon
      <4>3. worker'[w].pc = "drop" /\ worker'[w].pipe = p
        BY <4>1
      <4>4. worker[w].pc = "oom"
        BY <3>1
      <4> QED BY <4>2, <4>3, <4>4
    <3> QED BY <3>2, <3>3
  <2>2. /\ created' = created
        /\ \/ completed' = [completed EXCEPT ![p] = @ + 1] /\ queued' = queued
           \/ queued' = [queued EXCEPT ![p] = @ + 1] /\ completed' = completed
    BY <1>3, Zenon DEF OomSchedule
  <2>3. Owners(q)' = Owners(q)
    BY <2>1, <1>t, SMTT(30), Zenon DEF Owners, Holding
  <2>4. CASE q = p
    <3>1. w \in Reschedulers(q) /\ Reschedulers(q)' = Reschedulers(q) \ {w}
      BY <2>1, <2>4, <1>t DEF Reschedulers
    <3>2. Cardinality(Reschedulers(q)) = Cardinality(Reschedulers(q)') + 1
      BY <3>1, <1>f, OneLess
    <3>3. Cardinality(Reschedulers(q)') \in Nat
      BY <3>1, <1>f, FS_Subset, FS_CardinalityType, SMTT(30), Zenon
    <3> QED BY <2>2, <2>3, <2>4, <3>2, <3>3, <1>q, <1>f, <1>n
  <2>5. CASE q # p
    <3>1. Reschedulers(q)' = Reschedulers(q)
      BY <2>1, <2>5, <1>t DEF Reschedulers
    <3> QED BY <2>2, <2>3, <2>5, <3>1, <1>q, <1>n, Zenon
  <2> QED BY <2>4, <2>5
<1>4. CASE DestroyTask(w)
  <2>0. p \in Pipe
    BY <1>4, <1>t, ZenonT(60) DEF DestroyTask
  <2>1. /\ worker[w].pc \in {"ran", "drop"}
        /\ worker'[w].pc \in {"tail", "exit"}
        /\ \A v \in Worker \ {w} : worker'[v] = worker[v]
    BY <1>4, <1>t, Zenon DEF DestroyTask
  <2>2. created' = created /\ queued' = queued /\ completed' = [completed EXCEPT ![p] = @ + 1]
    BY <1>4 DEF DestroyTask
  <2>3. Reschedulers(q)' = Reschedulers(q)
    BY <2>1, <1>t, ZenonT(30) DEF Reschedulers
  <2>4. CASE q = p
    <3>1. w \in Owners(q) /\ Owners(q)' = Owners(q) \ {w}
      BY <2>1, <2>4, <1>t, Zenon DEF Owners, Holding
    <3>2. Cardinality(Owners(q)) = Cardinality(Owners(q)') + 1
      BY <3>1, <1>f, OneLess, Zenon
    <3>3. Cardinality(Owners(q)') \in Nat
      BY <3>1, <1>f, FS_Subset, FS_CardinalityType, Zenon
    <3> QED BY <2>2, <2>3, <2>4, <3>2, <3>3, <1>q, <1>f, <1>n
  <2>5. CASE q # p
    <3>1. Owners(q)' = Owners(q)
      BY <2>1, <2>5, <1>t, SMTT(30), Zenon DEF Owners, Holding
    <3> QED BY <2>2, <2>3, <2>5, <3>1, <1>q, <1>n, SMTT(30), Zenon
  <2> QED BY <2>4, <2>5
(* The other steps move no task.                                           *)
<1>5. ASSUME created' = created, completed' = completed, queued' = queued,
             \A v \in Worker \ {w} : worker'[v] = worker[v],
             worker'[w].pc = "oom" <=> worker[w].pc = "oom",
             worker'[w].pc \in Holding <=> worker[w].pc \in Holding,
             worker'[w].pc \in Holding => worker'[w].pipe = p
      PROVE  created'[q] = completed'[q] + queued'[q] + Cardinality(Owners(q)')
                           + Cardinality(Reschedulers(q)') + Cardinality(Makers(q))
  <2>1. Owners(q)' = Owners(q)
    BY <1>5, <1>t, Zenon DEF Owners
  <2>2. Reschedulers(q)' = Reschedulers(q)
    <3>1. worker'[w].pc = "oom" => worker'[w].pipe = p
      BY <1>5, ZenonT(30) DEF Holding
    <3> QED BY <1>5, <3>1, Zenon DEF Reschedulers
  <2> QED BY <1>5, <2>1, <2>2, <1>q, Zenon
<1>6. CASE \E n \in Outputs : Execute(w, n)
  <2>1. /\ worker[w].pc = "run" /\ worker'[w].pc = "ran" /\ worker'[w].pipe = p
        /\ \A v \in Worker \ {w} : worker'[v] = worker[v]
    BY <1>6, <1>t DEF Execute
  <2>2. created' = created /\ completed' = completed /\ queued' = queued
    BY <1>6, Zenon DEF Execute
  <2> QED BY <1>5, <2>1, <2>2, Zenon DEF Holding
<1>7. CASE UpdateStatus(w) \/ PushRequest(w)
  <2>1. /\ worker'[w].pc = worker[w].pc /\ worker'[w].pipe = p
        /\ \A v \in Worker \ {w} : worker'[v] = worker[v]
    <3>1. PICK t : worker' = [worker EXCEPT ![w].todo = t]
      BY <1>7, UpdateFrame, Zenon DEF PushRequest
    <3>2. worker'[w] = [worker[w] EXCEPT !.todo = t]
      BY <3>1, <1>t, Zenon
    <3>3. worker[w] \in [pc : WorkerPc, pipe : Pipe \cup {None}, todo : Seq(Call)]
      BY <1>t, Zenon
    <3>4. [worker[w] EXCEPT !.todo = t].pc = worker[w].pc /\ [worker[w] EXCEPT !.todo = t].pipe = p
      BY <3>3
    <3> QED BY <3>1, <3>2, <3>4, <1>t, Zenon
  <2>2. created' = created /\ completed' = completed /\ queued' = queued
    BY <1>7, UpdateFrame, Zenon DEF PushRequest, plan
  <2> QED BY <1>5, <2>1, <2>2
<1>8. CASE WorkerTail(w) \/ WorkerExit(w) \/ MarkCompleted(w)
  <2>1. /\ worker[w].pc \in {"tail", "exit", "mark"}
        /\ worker'[w].pc \in {"drain", "exit", "idle"}
        /\ \A v \in Worker \ {w} : worker'[v] = worker[v]
    <3>1. CASE WorkerTail(w)
      BY <3>1, <1>t, Zenon DEF WorkerTail
    <3>2. CASE WorkerExit(w) \/ MarkCompleted(w)
      BY <3>2, <1>t DEF WorkerExit, MarkCompleted, IdleWorker
    <3> QED BY <1>8, <3>1, <3>2, SMTT(30)
  <2>2. created' = created /\ completed' = completed /\ queued' = queued
    BY <1>8, ZenonT(30) DEF WorkerTail, WorkerExit, MarkCompleted, plan
  <2> QED BY <1>5, <2>1, <2>2, SMTT(30), Zenon DEF Holding
<1>9. CASE DrainStart(w) \/ DrainWait(w)
  <2>1. /\ worker[w].pc \in {"drain", "wait"} /\ worker'[w].pc \in {"wait", "mark"}
        /\ \A v \in Worker \ {w} : worker'[v] = worker[v]
    BY <1>9, <1>t DEF DrainStart, DrainWait
  <2>2. created' = created /\ completed' = completed /\ queued' = queued
    BY <1>9 DEF DrainStart, DrainWait, plan
  <2> QED BY <1>5, <2>1, <2>2 DEF Holding
<1> QED BY <1>1, <1>2, <1>3, <1>4, <1>6, <1>7, <1>8, <1>9, Zenon DEF WorkerRun

(* The manager, the scan manager and the engine move no task.              *)
LEMMA CountOther ==
  ASSUME TypeOK, ThreadInv, TaskCount,
         ScanManagerStep \/ ManagerStep \/ EngineStep \/ UNCHANGED vars
  PROVE  TaskCount'
<1>1. created' = created /\ completed' = completed /\ queued' = queued /\ worker' = worker
  BY Zenon DEF ScanManagerStep, PushSplit, CloseConnector, ManagerStep, PopRequest, DropRequest,
         DispatchLambda,
         EngineStep, EngineStop, EngineJoin, EngineValidate, EngineIdle, EngineReturn,
         vars, plan, control
<1>2. \A q \in Pipe : Makers(q)' = Makers(q)
  <2>1. CASE lam' = lam
    BY <2>1 DEF Makers
  <2>2. CASE lam' # lam
    <3>1. PICK c \in Creator, q \in Pipe : DispatchLambda(c, q)
      <4>1. ~ScanManagerStep
        BY <2>2, Zenon DEF ScanManagerStep, PushSplit, CloseConnector, control
      <4>2. ~EngineStep
        BY <2>2 DEF EngineStep, EngineStop, EngineJoin, EngineValidate, EngineIdle,
                    EngineReturn, control
      <4>3. ~UNCHANGED vars
        BY <2>2, Zenon DEF vars, control
      <4>4. ~DropRequest /\ \A p \in Pipe : ~PopRequest(p)
        BY <2>2, Zenon DEF DropRequest, PopRequest
      <4> QED BY <4>1, <4>2, <4>3, <4>4, Zenon DEF ManagerStep
    <3>2. lam \in [Creator -> [pc : CreatorPc, pipe : Pipe \cup {None}]]
      BY DEF TypeOK
    <3>3. /\ lam[c].pc = "idle" /\ lam'[c].pc \in {"claim", "loop"}
          /\ \A d \in Creator \ {c} : lam'[d] = lam[d]
      <4>1. /\ lam[c] = IdleCreator
            /\ lam' = [lam EXCEPT ![c] =
                 [pc   |-> IF Kind[q] \in {"iceberg", "cpu"} THEN "claim" ELSE "loop",
                  pipe |-> q]]
        BY <3>1, Zenon DEF DispatchLambda
      <4> QED BY <4>1, <3>2 DEF IdleCreator
    <3> QED BY <3>3 DEF Makers
  <2> QED BY <2>1, <2>2
<1>3. \A q \in Pipe : Owners(q)' = Owners(q) /\ Reschedulers(q)' = Reschedulers(q)
  BY <1>1 DEF Owners, Reschedulers
<1> QED BY <1>1, <1>2, <1>3, ZenonT(60) DEF TaskCount

(* The two counters of a pipeline always differ by its live tasks.         *)
THEOREM TasksAreCounted == Spec => []TaskCount
<1>1. ASSUME TypeOK, ThreadInv, LookInv, TaskCount, [Next]_vars PROVE TaskCount'
  BY <1>1, CountCreator, CountWorker, CountOther, Zenon DEF Next, Terminated
<1> QED BY <1>1, CountInit, TypeCorrect, PTL DEF Spec

-----------------------------------------------------------------------------
(* Finished pipelines.                                                     *)

Quiet == UNCHANGED <<finished, created, completed, limited, repo, source>>

(* The steps that touch what a pipeline's status depends on.               *)
LEMMA StatusSteps ==
  ASSUME [Next]_vars
  PROVE  \/ Quiet
         \/ \E p \in Pipe : PushSplit(p) \/ CloseConnector(p)
         \/ \E c \in Creator, q \in Pipe : DispatchLambda(c, q)
         \/ \E c \in Creator : LambdaClaim(c)
         \/ \E w \in Worker : \/ \E n \in Outputs : Execute(w, n)
                              \/ OomCreate(w) \/ OomSchedule(w)
                              \/ DestroyTask(w) \/ StatusCompare(w)
<1>1. ASSUME NEW c \in Creator, LambdaLoop(c) \/ LambdaEmpty(c) \/ LambdaPark(c) \/ LambdaSchedule(c)
      PROVE  Quiet
  BY <1>1 DEF LambdaLoop, LambdaEmpty, LambdaPark, LambdaSchedule, Quiet, plan, source
<1>2. ASSUME NEW w \in Worker,
             \/ \E p \in Pipe : TakeTask(w, p)
             \/ PushRequest(w) \/ WorkerTail(w) \/ WorkerExit(w)
             \/ DrainStart(w) \/ DrainWait(w) \/ MarkCompleted(w)
      PROVE  Quiet
  BY <1>2, Zenon DEF TakeTask, PushRequest, WorkerTail, WorkerExit, DrainStart, DrainWait,
              MarkCompleted, Quiet, plan, source
<1>3. ASSUME EngineStep \/ Terminated \/ UNCHANGED vars
             \/ DropRequest \/ \E p \in Pipe : PopRequest(p)
      PROVE  Quiet
  BY <1>3 DEF EngineStep, EngineStop, EngineJoin, EngineValidate, EngineIdle, EngineReturn,
              Terminated, PopRequest, DropRequest, Quiet, vars, plan, source
<1>4. ASSUME NEW w \in Worker, StatusEnter(w) \/ StatusSource(w) \/ StatusLoad(w) PROVE Quiet
  BY <1>4, Zenon DEF StatusEnter, StatusSource, StatusLoad, Quiet
<1> QED BY <1>1, <1>2, <1>3, <1>4, Zenon DEF Next, CreatorStep, ManagerStep, ScanManagerStep, WorkerRun,
                                      UpdateStatus

(* Without a STREAMING_LIMIT no pipeline is ever cut short.                *)
LEMMA NoLimitStep ==
  ASSUME LimitPipe = {}, TypeOK, NoLimit, [Next]_vars
  PROVE  NoLimit'
<1>1. limited' = limited
  BY StatusSteps, Zenon DEF Quiet, PushSplit, CloseConnector, DispatchLambda, LambdaClaim, Execute,
                     OomCreate, OomSchedule, DestroyTask, StatusCompare
<1> QED BY <1>1 DEF NoLimit

(* A closed source has nothing left.                                       *)
LEMMA SourceStep ==
  ASSUME TypeOK, ThreadInv, SourceInv, [Next]_vars
  PROVE  SourceInv'
<1>n. unpushed \in [Pipe -> Nat] /\ ready \in [Pipe -> Nat]
  BY DEF TypeOK
<1>b. closed \in [Pipe -> BOOLEAN]
  BY DEF TypeOK
<1>1. CASE source' = source
  BY <1>1 DEF SourceInv, source
<1>2. ASSUME NEW p \in Pipe, PushSplit(p) PROVE SourceInv'
  BY <1>2, <1>n, <1>b DEF PushSplit, SourceInv
<1>3. ASSUME NEW p \in Pipe, CloseConnector(p) PROVE SourceInv'
  BY <1>3, <1>n, <1>b, Zenon DEF CloseConnector, SourceInv
<1>4. ASSUME NEW c \in Creator, NEW q \in Pipe, DispatchLambda(c, q)
      PROVE  SourceInv'
  BY <1>4, <1>n, <1>b DEF DispatchLambda, SourceInv
<1>5. ASSUME NEW c \in Creator, LambdaClaim(c) PROVE SourceInv'
  <2> DEFINE p == lam[c].pipe
  <2>1. p \in Pipe /\ HasInput(p) /\ TakeInput(p) /\ unpushed' = unpushed
    BY <1>5 DEF LambdaClaim, ThreadInv
  <2>2. CASE Kind[p] = "split"
    BY <2>1, <2>2, <1>n, <1>b, Zenon DEF TakeInput, HasInput, SourceInv
  <2>3. CASE Kind[p] = "iceberg"
    BY <2>1, <2>3, <1>n, <1>b DEF TakeInput, HasInput, SourceInv
  <2>4. CASE Kind[p] \notin {"split", "iceberg"}
    BY <2>1, <2>4 DEF TakeInput, SourceInv
  <2> QED BY <2>2, <2>3, <2>4
<1>6. ASSUME NEW w \in Worker, NEW n \in Outputs, Execute(w, n) PROVE SourceInv'
  BY <1>6, <1>n, <1>b DEF Execute, SourceInv
<1>7. ASSUME NEW w \in Worker, OomCreate(w) \/ OomSchedule(w) \/ DestroyTask(w) \/ StatusCompare(w)
      PROVE  source' = source
  BY <1>7, Zenon DEF OomCreate, OomSchedule, DestroyTask, StatusCompare
<1> QED BY <1>1, <1>2, <1>3, <1>4, <1>5, <1>6, <1>7, StatusSteps, Zenon DEF Quiet

(* A worker that holds a task: the pipeline has created it.                *)
LEMMA OwnerCounted ==
  ASSUME TypeOK, TaskCount, NEW w \in Worker, worker[w].pc \in Holding, worker[w].pipe \in Pipe
  PROVE  created[worker[w].pipe] > completed[worker[w].pipe]
<1> DEFINE p == worker[w].pipe
<1>1. Owners(p) # {}
  BY DEF Owners
<1>2. Cardinality(Owners(p)) > 0
  BY <1>1, FiniteThreads, FS_EmptySet
<1>3. /\ Cardinality(Owners(p)) \in Nat /\ Cardinality(Reschedulers(p)) \in Nat
      /\ Cardinality(Makers(p)) \in Nat
  BY FiniteThreads, Zenon
<1>4. created[p] \in Nat /\ completed[p] \in Nat /\ queued[p] \in Nat
  BY Zenon DEF TypeOK
<1>5. created[p] = completed[p] + queued[p] + Cardinality(Owners(p))
                   + Cardinality(Reschedulers(p)) + Cardinality(Makers(p))
  BY DEF TaskCount
<1>6. \A a, b, q, o, r, m \in Nat : a = b + q + o + r + m /\ o > 0 => a > b
  OBVIOUS
<1> QED BY <1>2, <1>3, <1>4, <1>5, <1>6, Zenon

(* A finished pipeline has no task anywhere.                               *)
LEMMA FinishedIdle ==
  ASSUME TypeOK, TaskCount, FinishedInv, NEW p \in Pipe, finished[p]
  PROVE  queued[p] = 0 /\ Owners(p) = {} /\ Reschedulers(p) = {} /\ Makers(p) = {}
<1>1. created[p] = completed[p]
  BY DEF FinishedInv
<1>2. /\ Cardinality(Owners(p)) \in Nat /\ Cardinality(Reschedulers(p)) \in Nat
      /\ Cardinality(Makers(p)) \in Nat
  BY FiniteThreads, Zenon
<1>3. created[p] \in Nat /\ completed[p] \in Nat /\ queued[p] \in Nat
  BY Zenon DEF TypeOK
<1>4. created[p] = completed[p] + queued[p] + Cardinality(Owners(p))
                   + Cardinality(Reschedulers(p)) + Cardinality(Makers(p))
  BY Zenon DEF TaskCount
<1>5. /\ queued[p] = 0 /\ Cardinality(Owners(p)) = 0
      /\ Cardinality(Reschedulers(p)) = 0 /\ Cardinality(Makers(p)) = 0
  BY <1>1, <1>2, <1>3, <1>4
<1> QED BY <1>5, FiniteThreads, FS_EmptySet, Zenon

(* The one task of a CPU source is created once, before the source closes. *)
LEMMA CpuStep ==
  ASSUME TypeOK, ThreadInv, LookInv, TaskCount, CpuInv, [Next]_vars
  PROVE  CpuInv'
<1>n. created \in [Pipe -> Nat] /\ completed \in [Pipe -> Nat] /\ ready \in [Pipe -> Nat]
  BY Zenon DEF TypeOK
<1>b. closed \in [Pipe -> BOOLEAN]
  BY Zenon DEF TypeOK
<1>t. /\ lam \in [Creator -> [pc : CreatorPc, pipe : Pipe \cup {None}]]
      /\ \A d \in Creator : lam[d].pc # "idle" => lam[d].pipe \in Pipe
  BY Zenon DEF TypeOK, ThreadInv
<1> SUFFICES ASSUME NEW k \in Pipe, Kind[k] = "cpu"
             PROVE  /\ ready'[k] > 0 => created'[k] = 0 /\ \A c \in Creator : lam'[c].pipe # k
                    /\ \A c \in Creator : lam'[c].pipe = k /\ lam'[c].pc # "schedule" =>
                         /\ created'[k] = 0
                         /\ \A d \in Creator : lam'[d].pipe = k => d = c
                    /\ closed'[k] => created'[k] > 0
  BY Zenon DEF CpuInv
<1> DEFINE Goal == /\ ready'[k] > 0 => created'[k] = 0 /\ \A c \in Creator : lam'[c].pipe # k
                   /\ \A c \in Creator : lam'[c].pipe = k /\ lam'[c].pc # "schedule" =>
                        /\ created'[k] = 0
                        /\ \A d \in Creator : lam'[d].pipe = k => d = c
                   /\ closed'[k] => created'[k] > 0
<1>k. /\ ready[k] > 0 => created[k] = 0 /\ \A c \in Creator : lam[c].pipe # k
      /\ \A c \in Creator : lam[c].pipe = k /\ lam[c].pc # "schedule" =>
           /\ created[k] = 0
           /\ \A d \in Creator : lam[d].pipe = k => d = c
      /\ closed[k] => created[k] > 0
  BY Zenon DEF CpuInv
(* Steps that neither create, claim nor close, and release lambdas only.   *)
<1>q. ASSUME ready'[k] = ready[k], created'[k] = created[k], closed'[k] = closed[k],
             \A c \in Creator : lam'[c].pipe = k =>
               lam[c].pipe = k /\ (lam'[c].pc # "schedule" => lam[c].pc # "schedule")
      PROVE  Goal
  BY <1>q, <1>k, Zenon
<1>1. ASSUME Quiet /\ lam' = lam PROVE Goal
  BY <1>1, <1>q, Zenon DEF Quiet, source
<1>2. ASSUME NEW c \in Creator, LambdaLoop(c) \/ LambdaEmpty(c) \/ LambdaPark(c) \/ LambdaSchedule(c)
      PROVE  Goal
  <2>1. ready' = ready /\ created' = created /\ closed' = closed
    BY <1>2 DEF LambdaLoop, LambdaEmpty, LambdaPark, LambdaSchedule, plan, source
  <2>2. \A d \in Creator \ {c} : lam'[d] = lam[d]
    BY <1>2, <1>t, SMTT(30), Zenon DEF LambdaLoop, LambdaEmpty, LambdaPark, LambdaSchedule
  <2>3. lam'[c].pipe = k => lam[c].pipe = k /\ (lam'[c].pc # "schedule" => lam[c].pc # "schedule")
    <3>1. k # None
      BY PipeAssumption
    <3>2. CASE LambdaLoop(c)
      BY <3>1, <3>2, <1>t, Zenon DEF LambdaLoop, IdleCreator
    <3>3. CASE LambdaEmpty(c)
      BY <3>1, <3>3, <1>t, Zenon DEF LambdaEmpty, IdleCreator
    <3>4. CASE LambdaPark(c)
      BY <3>4, <1>t, Zenon DEF LambdaPark
    <3>5. CASE LambdaSchedule(c)
      <4>1. CASE lam[c].pipe = k
        BY <3>1, <3>5, <4>1, <1>t, Zenon DEF LambdaSchedule, IdleCreator
      <4>2. CASE lam[c].pipe # k
        BY <3>1, <3>5, <4>2, <1>t, SMTT(30), Zenon DEF LambdaSchedule, IdleCreator
      <4> QED BY <4>1, <4>2
    <3> QED BY <1>2, <3>2, <3>3, <3>4, <3>5, Zenon
  <2> QED BY <2>1, <2>2, <2>3, <1>q, Zenon
<1>3. ASSUME NEW p \in Pipe, PushSplit(p) \/ CloseConnector(p) PROVE Goal
  BY <1>3, <1>q, <1>n, <1>b, Zenon DEF PushSplit, CloseConnector, control
<1>4. ASSUME NEW c \in Creator, NEW q \in Pipe, DispatchLambda(c, q)
      PROVE  Goal
  <2>1. created' = created /\ closed' = closed
    BY <1>4, Zenon DEF DispatchLambda
  <2>2. /\ lam'[c].pipe = q /\ lam'[c].pc # "schedule"
        /\ \A d \in Creator \ {c} : lam'[d] = lam[d]
    <3>1. lam' = [lam EXCEPT ![c] =
             [pc   |-> IF Kind[q] \in {"iceberg", "cpu"} THEN "claim" ELSE "loop", pipe |-> q]]
      BY <1>4, Zenon DEF DispatchLambda
    <3> QED BY <3>1, <1>t
  <2>3. CASE q = k
    <3>1. ready[k] > 0
      BY <1>4, <2>3, Zenon DEF DispatchLambda, Offers
    <3>2. ready'[k] = 0
      <4>1. Kind[q] = "cpu" => ready' = [ready EXCEPT ![q] = 0]
        BY <1>4, Zenon DEF DispatchLambda
      <4> QED BY <4>1, <2>3, <1>n, <1>k
    <3> QED BY <2>1, <2>2, <2>3, <3>1, <3>2, <1>k, SMTT(60), Zenon
  <2>4. CASE q # k
    <3>1. ready'[k] = ready[k]
      BY <1>4, <2>4, <1>n, SMTT(60), Zenon DEF DispatchLambda
    <3> QED BY <2>1, <2>2, <2>4, <3>1, <1>q, Zenon
  <2> QED BY <2>3, <2>4, Zenon
<1>5. ASSUME NEW c \in Creator, LambdaClaim(c) PROVE Goal
  <2> DEFINE p == lam[c].pipe
  <2>1. /\ p \in Pipe /\ TakeInput(p) /\ lam[c].pc # "schedule"
        /\ created' = [created EXCEPT ![p] = @ + 1]
    BY <1>5, <1>t DEF LambdaClaim
  <2>2. /\ lam'[c].pipe = p /\ lam'[c].pc = "schedule"
        /\ \A d \in Creator \ {c} : lam'[d] = lam[d]
    BY <1>5, <1>t, SMTT(60), Zenon DEF LambdaClaim
  <2>3. CASE p = k
    <3>1. ready' = ready /\ closed' = closed
      BY <2>1, <2>3, Zenon DEF TakeInput
    <3>2. created'[k] > 0
      BY <2>1, <2>3, <1>n, SMTT(60), Zenon
    <3>3. /\ ~(ready[k] > 0)
          /\ \A d \in Creator \ {c} : lam[d].pipe = k => lam[d].pc = "schedule"
      BY <2>1, <2>3, <1>k, Zenon
    <3> QED BY <2>2, <3>1, <3>2, <3>3
  <2>4. CASE p # k
    <3>1. created'[k] = created[k]
      BY <2>1, <2>4, <1>n, Zenon
    <3>2. ready'[k] = ready[k] /\ closed'[k] = closed[k]
      BY <2>1, <2>4, <1>n, <1>b, SMTT(60), Zenon DEF TakeInput
    <3> QED BY <2>2, <2>4, <3>1, <3>2, <1>q, Zenon
  <2> QED BY <2>3, <2>4
<1>6. ASSUME NEW w \in Worker, NEW n \in Outputs, Execute(w, n) PROVE Goal
  <2>1. ready' = ready /\ created' = created /\ lam' = lam
    BY <1>6, Zenon DEF Execute, control
  <2>2. CASE worker[w].pipe = k
    <3>1. created[k] > completed[k]
      BY <1>6, <2>2, OwnerCounted DEF Execute, Holding
    <3>2. created[k] > 0
      BY <3>1, <1>n
    <3> QED BY <2>1, <3>2, <1>k
  <2>3. CASE worker[w].pipe # k
    <3>1. closed'[k] = closed[k]
      BY <1>6, <2>3, <1>b, Zenon DEF Execute
    <3> QED BY <2>1, <3>1, <1>q
  <2> QED BY <2>2, <2>3
<1>7. ASSUME NEW w \in Worker, OomCreate(w) PROVE Goal
  <2>1. ready' = ready /\ closed' = closed /\ lam' = lam
    BY <1>7 DEF OomCreate, control, source
  <2>2. created'[k] = created[k]
    BY <1>7, <1>n, Zenon DEF OomCreate, IsScan
  <2> QED BY <2>1, <2>2, <1>q
<1>8. ASSUME NEW w \in Worker, OomSchedule(w) \/ DestroyTask(w) \/ UpdateStatus(w) PROVE Goal
  <2>1. ready' = ready /\ closed' = closed /\ created' = created /\ lam' = lam
    BY <1>8, UpdateFrame, Zenon DEF OomSchedule, DestroyTask, control, source
  <2> QED BY <2>1, <1>q
<1>9. ASSUME NEW w \in Worker,
             \/ \E p \in Pipe : TakeTask(w, p)
             \/ PushRequest(w) \/ WorkerTail(w) \/ WorkerExit(w)
             \/ DrainStart(w) \/ DrainWait(w) \/ MarkCompleted(w)
      PROVE  Quiet /\ lam' = lam
  BY <1>9, ZenonT(60) DEF TakeTask, PushRequest, WorkerTail, WorkerExit, DrainStart, DrainWait,
              MarkCompleted, Quiet, plan, control, source
<1>10. ASSUME EngineStep \/ Terminated \/ UNCHANGED vars
             \/ DropRequest \/ \E p \in Pipe : PopRequest(p)
       PROVE  Quiet /\ lam' = lam
  BY <1>10 DEF EngineStep, EngineStop, EngineJoin, EngineValidate, EngineIdle, EngineReturn,
               Terminated, PopRequest, DropRequest, Quiet, vars, plan, control, source
<1> HIDE DEF Goal
<1>11. ASSUME NEW w \in Worker, WorkerRun(w) \/ \E p \in Pipe : TakeTask(w, p) PROVE Goal
  BY <1>1, <1>6, <1>7, <1>8, <1>9, <1>11, Zenon DEF WorkerRun
<1>12. ASSUME NEW c \in Creator, CreatorStep(c) PROVE Goal
  BY <1>2, <1>5, <1>12 DEF CreatorStep
<1>13. ASSUME ManagerStep \/ ScanManagerStep PROVE Goal
  BY <1>1, <1>3, <1>4, <1>10, <1>13, Zenon DEF ManagerStep, ScanManagerStep
<1>14. ASSUME EngineStep \/ Terminated \/ UNCHANGED vars PROVE Goal
  BY <1>1, <1>10, <1>14
<1>g. Goal
  BY <1>11, <1>12, <1>13, <1>14, SMTT(60) DEF Next
<1> QED BY <1>g, Zenon DEF Goal

(* Another thread's step leaves a thread where it is, and a looking thread  *)
(* keeps its calls.                                                        *)
LEMMA OthersLook ==
  ASSUME TypeOK, LookInv, [Next]_vars, NEW w \in Worker, ~UpdateStatus(w)
  PROVE  /\ look'[w] = look[w]
         /\ look[w].at # "away" => worker'[w].todo = worker[w].todo
<1> DEFINE Busy == look[w].at # "away"
<1>t. /\ look \in [Worker -> [at : LookAt, first : {"created", "completed"}, seen : Nat]]
      /\ worker \in [Worker -> [pc : WorkerPc, pipe : Pipe \cup {None}, todo : Seq(Call)]]
  BY Zenon DEF TypeOK
<1>w. Busy => worker[w].todo # <<>> /\ Head(worker[w].todo).op = "update"
  BY Zenon DEF LookInv
<1>1. ASSUME NEW v \in Worker, UpdateStatus(v) PROVE look'[w] = look[w] /\ worker'[w] = worker[w]
  <2>1. v # w
    BY <1>1
  <2> QED BY <1>1, <2>1, <1>t, Zenon DEF UpdateStatus, StatusEnter, StatusSource, StatusLoad,
                                         StatusCompare, StatusLeave
<1>2. ASSUME NEW v \in Worker, NEW p \in Pipe, TakeTask(v, p)
      PROVE  look' = look /\ (Busy => worker'[w] = worker[w])
  <2>1. Busy => v # w
    <3>1. worker[v].todo = <<>>
      BY <1>2 DEF TakeTask, IdleWorker
    <3> QED BY <3>1, <1>w, Zenon
  <2> QED BY <1>2, <2>1, <1>t, Zenon DEF TakeTask, plan
<1>3. ASSUME NEW v \in Worker, DestroyTask(v) \/ WorkerTail(v) \/ WorkerExit(v) \/ MarkCompleted(v)
                               \/ OomSchedule(v)
      PROVE  look' = look /\ (Busy => worker'[w] = worker[w])
  <2>1. Busy => v # w
    BY <1>3, <1>w, Zenon DEF DestroyTask, WorkerTail, WorkerExit, MarkCompleted, OomSchedule
  <2> QED BY <1>3, <2>1, <1>t, Zenon DEF DestroyTask, WorkerTail, WorkerExit, MarkCompleted,
                                         OomSchedule, plan
<1>4. ASSUME NEW v \in Worker, PushRequest(v) PROVE look' = look /\ (Busy => worker'[w] = worker[w])
  <2>1. Busy => v # w
    <3>1. Head(worker[v].todo).op # "update"
      BY <1>4 DEF PushRequest
    <3> QED BY <3>1, <1>w, Zenon
  <2> QED BY <1>4, <2>1, <1>t, Zenon DEF PushRequest, plan
<1>5. ASSUME NEW v \in Worker, (\E n \in Outputs : Execute(v, n)) \/ OomCreate(v)
                               \/ DrainStart(v) \/ DrainWait(v)
      PROVE  look' = look /\ worker'[w].todo = worker[w].todo
  <2>1. look' = look /\ \E pc : worker' = [worker EXCEPT ![v].pc = pc]
    BY <1>5, Zenon DEF Execute, OomCreate, DrainStart, DrainWait, plan
  <2> QED BY <2>1, <1>t
<1>6. ASSUME \/ ScanManagerStep \/ ManagerStep \/ EngineStep \/ Terminated \/ UNCHANGED vars
             \/ \E c \in Creator : CreatorStep(c)
      PROVE  look' = look /\ worker' = worker
  BY <1>6, Zenon DEF ScanManagerStep, PushSplit, CloseConnector, ManagerStep, PopRequest,
       DropRequest, DispatchLambda, EngineStep, EngineStop, EngineJoin, EngineValidate,
       EngineIdle, EngineReturn, Terminated, CreatorStep, LambdaLoop, LambdaClaim,
       LambdaEmpty, LambdaPark, LambdaSchedule, vars, plan
<1> QED BY <1>1, <1>2, <1>3, <1>4, <1>5, <1>6, Zenon DEF Next, WorkerRun

(* The pipeline of a worker that holds a task is not finished.             *)
LEMMA HolderUnfinished ==
  ASSUME TypeOK, ThreadInv, TaskCount, FinishedInv, NEW w \in Worker, worker[w].pc \in Holding
  PROVE  worker[w].pipe \in Pipe /\ ~finished[worker[w].pipe]
<1>1. worker[w].pipe \in Pipe
  BY DEF ThreadInv, Holding
<1>2. w \in Owners(worker[w].pipe)
  BY Zenon DEF Owners
<1> QED BY <1>1, <1>2, FinishedIdle, Zenon

(* What a drained source is, without a limit.                              *)
LEMMA DrainedForm ==
  ASSUME NoLimit, NEW q \in Pipe
  PROVE  SourceDrained(q) <=>
           IF Kind[q] \in {"iceberg", "cpu"} THEN closed[q]
           ELSE /\ \A u \in Up(q) : finished[u]
                /\ IF Kind[q] = "split" THEN closed[q] /\ ready[q] = 0
                                        ELSE \A e \in Data(q) : repo[e] = 0
BY DEF SourceDrained, AllPortsEmpty, NoLimit, IsScan

(* The same after a step.                                                  *)
LEMMA DrainedNext ==
  ASSUME NoLimit', NEW q \in Pipe
  PROVE  SourceDrained(q)' <=>
           IF Kind[q] \in {"iceberg", "cpu"} THEN closed'[q]
           ELSE /\ \A u \in Up(q) : finished'[u]
                /\ IF Kind[q] = "split" THEN closed'[q] /\ ready'[q] = 0
                                        ELSE \A e \in Data(q) : repo'[e] = 0
<1>1. ~limited'[q]
  BY DEF NoLimit
<1>2. AllPortsEmpty(q)' <=> IF Kind[q] = "split" THEN closed'[q] /\ ready'[q] = 0
                                                ELSE \A e \in Data(q) : repo'[e] = 0
  BY Zenon DEF AllPortsEmpty, Data, Edge
<1>3. (\A u \in Up(q) : finished[u])' <=> \A u \in Up(q) : finished'[u]
  BY Zenon DEF Up, Edge
<1> QED BY <1>1, <1>2, <1>3, Zenon DEF SourceDrained, IsScan

(* No task is claimed from a drained source.                               *)
LEMMA ClaimNeedsInput ==
  ASSUME TypeOK, ThreadInv, SourceInv, CpuInv, NoLimit, NEW c \in Creator, LambdaClaim(c)
  PROVE  lam[c].pipe \in Pipe /\ ~SourceDrained(lam[c].pipe)
<1> DEFINE p == lam[c].pipe
<1>1. p \in Pipe /\ HasInput(p) /\ lam[c].pc # "schedule"
  BY Zenon DEF LambdaClaim, ThreadInv
<1> SUFFICES ASSUME SourceDrained(p) PROVE FALSE
  BY <1>1, Zenon
<1>2. CASE Kind[p] = "cpu"
  <2>1. closed[p]
    BY <1>1, <1>2, DrainedForm, Zenon
  <2>2. closed[p] => created[p] > 0
    BY <1>1, <1>2, Zenon DEF CpuInv
  <2>3. created[p] = 0
    BY <1>1, <1>2, Zenon DEF CpuInv
  <2> QED BY <2>1, <2>2, <2>3
<1>3. CASE Kind[p] = "iceberg"
  BY <1>1, <1>3, DrainedForm DEF SourceInv, HasInput
<1>4. CASE Kind[p] = "split"
  BY <1>1, <1>4, DrainedForm DEF HasInput
<1>5. CASE Kind[p] = "ports"
  BY <1>1, <1>5, DrainedForm DEF HasInput
<1> QED BY <1>1, <1>2, <1>3, <1>4, <1>5, PlanAssumption, Zenon DEF SourceKind

(* The comparison of the counters finishes a pipeline only when its source *)
(* is drained and the counters are equal at that moment.                   *)
LEMMA CompareSees ==
  ASSUME TypeOK, LookInv, TaskCount, SeenInv, NEW w \in Worker, StatusCompare(w),
         NEW t, t = Head(worker[w].todo).pipe
  PROVE  /\ t \in Pipe /\ ~finished[t] /\ lock[t] = w
         /\ finished' = [finished EXCEPT ![t] = SecondLoad(w, t)]
         /\ SecondLoad(w, t) => SourceDrained(t) /\ created[t] = completed[t]
<1>1. look[w].at = "compare" /\ look[w].at # "away" /\ look[w].at \in {"counters", "compare"}
  BY Zenon DEF StatusCompare
<1>2. worker[w].todo # <<>> /\ lock[t] = w
  BY <1>1, Zenon DEF LookInv
<1>3. t \in Pipe
  <2>1. UpdateStatus(w)
    BY DEF UpdateStatus
  <2>2. Head(worker[w].todo) \in Call
    BY <2>1, UpdateFrame, Zenon
  <2> QED BY <2>2
<1>4. /\ ~finished[t] /\ SourceDrained(t)
      /\ IF look[w].first = "created" THEN look[w].seen = created[t]
                                      ELSE look[w].seen <= completed[t]
  BY <1>1, Zenon DEF SeenInv
<1>5. finished' = [finished EXCEPT ![t] = SecondLoad(w, t)]
  BY Zenon DEF StatusCompare
<1>6. ASSUME SecondLoad(w, t) PROVE created[t] = completed[t]
  <2>1. created[t] \in Nat /\ completed[t] \in Nat /\ queued[t] \in Nat /\ look[w].seen \in Nat
    BY <1>3, Zenon DEF TypeOK
  <2>2. /\ Cardinality(Owners(t)) \in Nat /\ Cardinality(Reschedulers(t)) \in Nat
        /\ Cardinality(Makers(t)) \in Nat
    BY FiniteThreads
  <2>3. created[t] = completed[t] + queued[t] + Cardinality(Owners(t))
                     + Cardinality(Reschedulers(t)) + Cardinality(Makers(t))
    BY <1>3, Zenon DEF TaskCount
  <2>4. created[t] >= completed[t]
    BY <2>1, <2>2, <2>3
  <2>5. IF look[w].first = "created" THEN completed[t] = look[w].seen
                                     ELSE created[t] = look[w].seen
    BY <1>6 DEF SecondLoad, Counter
  <2>6. CASE look[w].first = "created"
    BY <1>4, <2>5, <2>6, Zenon
  <2>7. CASE look[w].first # "created"
    <3>1. created[t] <= completed[t]
      BY <1>4, <2>5, <2>7, Zenon
    <3> QED BY <2>1, <2>4, <3>1
  <2> QED BY <2>6, <2>7, Zenon
<1> QED BY <1>2, <1>3, <1>4, <1>5, <1>6, Zenon

(* A finished pipeline stays finished.                                     *)
LEMMA FinishedStays ==
  ASSUME TypeOK, LookInv, TaskCount, SeenInv, [Next]_vars, NEW u \in Pipe, finished[u]
  PROVE  finished'[u]
<1>b. finished \in [Pipe -> BOOLEAN]
  BY DEF TypeOK
<1>1. finished' = finished \/ \E w \in Worker : StatusCompare(w)
  BY StatusSteps, Zenon DEF Quiet, PushSplit, CloseConnector, DispatchLambda, LambdaClaim, Execute,
                     OomCreate, OomSchedule, DestroyTask
<1>2. ASSUME NEW w \in Worker, StatusCompare(w) PROVE finished'[u]
  <2> DEFINE t == Head(worker[w].todo).pipe
  <2>1. ~finished[t] /\ finished' = [finished EXCEPT ![t] = SecondLoad(w, t)]
    BY <1>2, CompareSees, Zenon
  <2> QED BY <2>1, <1>b, Zenon
<1> QED BY <1>1, <1>2, Zenon

(* A drained source stays drained: whatever could refill it belongs to a   *)
(* pipeline with a live task, which is not finished.                       *)
LEMMA DrainedStays ==
  ASSUME TypeOK, ThreadInv, LookInv, TaskCount, SourceInv, CpuInv, FinishedInv, SeenInv,
         NoLimit, NoLimit', [Next]_vars, NEW q \in Pipe, SourceDrained(q)
  PROVE  SourceDrained(q)'
<1>n. ready \in [Pipe -> Nat]
  BY Zenon DEF TypeOK
<1>b. closed \in [Pipe -> BOOLEAN]
  BY Zenon DEF TypeOK
<1>r. repo \in [Edge -> Nat]
  BY DEF TypeOK
<1>u. Up(q) \subseteq Pipe
  BY DEF Up
<1>f. \A u \in Up(q) : finished[u] => finished'[u]
  BY <1>u, FinishedStays, Zenon
(* Steps that take nothing away from q's drained source.                   *)
<1>k. ASSUME closed[q] => closed'[q],
             Kind[q] = "split" => (ready'[q] = ready[q] \/ ready[q] # 0),
             Kind[q] \notin {"iceberg", "cpu", "split"} /\ (\A u \in Up(q) : finished[u]) =>
               \A e \in Data(q) : repo[e] = 0 => repo'[e] = 0
      PROVE  SourceDrained(q)'
  BY <1>k, <1>f, DrainedForm, DrainedNext, Zenon
<1>1. CASE Quiet \/ \E w \in Worker : OomCreate(w) \/ OomSchedule(w) \/ DestroyTask(w) \/ StatusCompare(w)
  <2>1. closed' = closed /\ ready' = ready /\ repo' = repo
    BY <1>1, Zenon DEF Quiet, OomCreate, OomSchedule, DestroyTask, StatusCompare, source
  <2> QED BY <2>1, <1>k, Zenon
<1>2. ASSUME NEW p \in Pipe, PushSplit(p) PROVE SourceDrained(q)'
  <2>1. closed' = closed /\ repo' = repo
    BY <1>2, Zenon DEF PushSplit
  <2>2. Kind[q] = "split" => ready'[q] = ready[q]
    <3>1. SUFFICES ASSUME q = p PROVE FALSE
      BY <1>2, <1>n, Zenon DEF PushSplit
    <3>2. Kind[p] = "split" /\ unpushed[p] > 0
      BY <1>2, Zenon DEF PushSplit
    <3>3. closed[p]
      BY <3>1, <3>2, DrainedForm, Zenon
    <3>4. unpushed[p] = 0
      BY <3>2, <3>3 DEF SourceInv
    <3> QED BY <3>2, <3>4
  <2> QED BY <2>1, <2>2, <1>k
<1>3. ASSUME NEW p \in Pipe, CloseConnector(p) PROVE SourceDrained(q)'
  BY <1>3, <1>k, <1>b, ZenonT(60) DEF CloseConnector
<1>4. ASSUME NEW c \in Creator, NEW t \in Pipe, DispatchLambda(c, t) PROVE SourceDrained(q)'
  BY <1>4, <1>k, <1>n, Zenon DEF DispatchLambda
<1>5. ASSUME NEW c \in Creator, LambdaClaim(c) PROVE SourceDrained(q)'
  <2> DEFINE p == lam[c].pipe
  <2>1. p \in Pipe /\ TakeInput(p)
    BY <1>5, ClaimNeedsInput, Zenon DEF LambdaClaim
  <2>2. q # p
    BY <1>5, ClaimNeedsInput, Zenon
  <2>4. closed'[q] = closed[q] /\ ready'[q] = ready[q]
    BY <2>1, <2>2, <1>n, <1>b, Zenon DEF TakeInput
  <2>5. \A e \in Data(q) : repo'[e] = repo[e]
    <3>1. \A e \in Data(q) : e \in Edge /\ e \notin Data(p)
      BY <2>2 DEF Data
    <3> QED BY <2>1, <3>1, <1>r, Zenon DEF TakeInput
  <2> QED BY <2>4, <2>5, <1>k, Zenon
<1>6. ASSUME NEW w \in Worker, NEW n \in Outputs, Execute(w, n) PROVE SourceDrained(q)'
  <2> DEFINE p == worker[w].pipe
  <2>1. p \in Pipe /\ ~finished[p]
    BY <1>6, HolderUnfinished DEF Execute, Holding
  <2>2. ready' = ready
    BY <1>6 DEF Execute
  <2>3. closed[q] => closed'[q]
    BY <1>6, <1>b DEF Execute
  <2>4. ASSUME \A u \in Up(q) : finished[u], NEW e \in Data(q) PROVE repo'[e] = repo[e]
    <3>1. e \in Edge /\ e[2] = q /\ e[1] \in Pipe /\ e = <<e[1], e[2]>>
      <4>1. e \in Edge /\ e[2] = q
        BY Zenon DEF Data
      <4>2. e \in Pipe \X Pipe
        BY <4>1, Zenon DEF Edge
      <4> QED BY <4>1, <4>2
    <3>2. e[1] # p
      BY <2>1, <2>4, <3>1 DEF Up
    <3> QED BY <1>6, <3>1, <3>2, Zenon DEF Execute
  <2> QED BY <2>2, <2>3, <2>4, <1>k, Zenon
<1> QED BY <1>1, <1>2, <1>3, <1>4, <1>5, <1>6, StatusSteps, Zenon

(* A finished pipeline stays drained and complete, and becomes finished    *)
(* only when it is.                                                        *)
LEMMA FinishedStep ==
  ASSUME TypeOK, ThreadInv, LookInv, TaskCount, SourceInv, CpuInv, FinishedInv, SeenInv,
         NoLimit, NoLimit', [Next]_vars
  PROVE  FinishedInv'
<1>n. created \in [Pipe -> Nat] /\ completed \in [Pipe -> Nat]
  BY Zenon DEF TypeOK
<1>b. finished \in [Pipe -> BOOLEAN]
  BY Zenon DEF TypeOK
<1> SUFFICES ASSUME NEW q \in Pipe, finished'[q]
             PROVE  SourceDrained(q)' /\ created'[q] = completed'[q]
  BY DEF FinishedInv
<1> DEFINE Equal == created'[q] = created[q] /\ completed'[q] = completed[q]
<1>k. ASSUME SourceDrained(q), created[q] = completed[q], Equal
      PROVE  SourceDrained(q)' /\ created'[q] = completed'[q]
  BY <1>k, DrainedStays, Zenon
<1>f. finished[q] => SourceDrained(q) /\ created[q] = completed[q]
  BY Zenon DEF FinishedInv
<1>1. ASSUME NEW w \in Worker, StatusCompare(w)
      PROVE  SourceDrained(q)' /\ created'[q] = completed'[q]
  <2> DEFINE t == Head(worker[w].todo).pipe
  <2>1. /\ finished' = [finished EXCEPT ![t] = SecondLoad(w, t)]
        /\ SecondLoad(w, t) => SourceDrained(t) /\ created[t] = completed[t]
    BY <1>1, CompareSees, Zenon
  <2>2. Equal
    BY <1>1, Zenon DEF StatusCompare
  <2>3. SourceDrained(q) /\ created[q] = completed[q]
    BY <2>1, <1>b, <1>f, Zenon
  <2> QED BY <2>2, <2>3, <1>k, Zenon
<1>2. ASSUME finished' = finished, Equal PROVE SourceDrained(q)' /\ created'[q] = completed'[q]
  BY <1>2, <1>k, <1>f, Zenon
<1>3. ASSUME \/ Quiet \/ \E p \in Pipe : PushSplit(p) \/ CloseConnector(p)
             \/ \E c \in Creator, t \in Pipe : DispatchLambda(c, t)
             \/ \E w \in Worker, n \in Outputs : Execute(w, n)
      PROVE  finished' = finished /\ Equal
  BY <1>3, Zenon DEF Quiet, PushSplit, CloseConnector, DispatchLambda, Execute
<1>4. ASSUME NEW c \in Creator, LambdaClaim(c) PROVE finished' = finished /\ Equal
  <2> DEFINE p == lam[c].pipe
  <2>1. /\ p \in Pipe /\ ~SourceDrained(p)
        /\ finished' = finished /\ completed' = completed
        /\ created' = [created EXCEPT ![p] = @ + 1]
    BY <1>4, ClaimNeedsInput, Zenon DEF LambdaClaim
  <2>2. q # p
    BY <2>1, <1>f, Zenon
  <2> QED BY <2>1, <2>2, <1>n, Zenon
<1>5. ASSUME NEW w \in Worker, OomCreate(w) \/ OomSchedule(w) \/ DestroyTask(w)
      PROVE  finished' = finished /\ Equal
  <2>1. worker[w].pc \in Holding
    BY <1>5, Zenon DEF OomCreate, OomSchedule, DestroyTask, Holding
  <2>2. finished' = finished
    BY <1>5, Zenon DEF OomCreate, OomSchedule, DestroyTask
  <2>3. q # worker[w].pipe
    BY <2>1, <2>2, HolderUnfinished, Zenon
  <2>4. Equal
    BY <1>5, <2>3, <1>n, ZenonT(60) DEF OomCreate, OomSchedule, DestroyTask
  <2> QED BY <2>2, <2>4
<1> QED BY <1>1, <1>2, <1>3, <1>4, <1>5, StatusSteps, Zenon

(* What a looking thread has seen stays so while it looks.                 *)
LEMMA SeenStep ==
  ASSUME CountersAgree, IInv, TypeOK', NoLimit', [Next]_vars
  PROVE  SeenInv'
<1>i. TypeOK /\ ThreadInv /\ LookInv /\ TaskCount /\ SourceInv /\ CpuInv /\ FinishedInv /\ SeenInv
      /\ NoLimit
  BY Zenon DEF IInv
<1>t. /\ look \in [Worker -> [at : LookAt, first : {"created", "completed"}, seen : Nat]]
      /\ finished \in [Pipe -> BOOLEAN]
  BY <1>i, Zenon DEF TypeOK
<1>n. created \in [Pipe -> Nat] /\ completed \in [Pipe -> Nat]
  BY <1>i, Zenon DEF TypeOK
<1> DEFINE Seen(k, q) ==
      /\ k.at # "away" => ~finished[q]
      /\ k.at \in {"producers", "ports"} => ~IsScan(q)
      /\ k.at = "ports" => \A u \in Up(q) : finished[u]
      /\ k.at \in {"counters", "compare"} => SourceDrained(q)
      /\ k.at = "compare" =>
           /\ k.first \in FirstLoad
           /\ IF k.first = "created" THEN k.seen = created[q] ELSE k.seen <= completed[q]
    DrainedAfter(q) ==
      IF Kind[q] \in {"iceberg", "cpu"} THEN closed'[q]
      ELSE /\ \A u \in Up(q) : finished'[u]
           /\ IF Kind[q] = "split" THEN closed'[q] /\ ready'[q] = 0
                                   ELSE \A e \in Data(q) : repo'[e] = 0
    SeenNext(k, q) ==
      /\ k.at # "away" => ~finished'[q]
      /\ k.at \in {"producers", "ports"} => ~IsScan(q)
      /\ k.at = "ports" => \A u \in Up(q) : finished'[u]
      /\ k.at \in {"counters", "compare"} => DrainedAfter(q)
      /\ k.at = "compare" =>
           /\ k.first \in FirstLoad
           /\ IF k.first = "created" THEN k.seen = created'[q] ELSE k.seen <= completed'[q]
<1>s. \A w \in Worker : Seen(look[w], Head(worker[w].todo).pipe)
  BY <1>i, Zenon DEF SeenInv
<1> SUFFICES ASSUME NEW w \in Worker, look'[w].at # "away"
             PROVE  SeenNext(look'[w], Head(worker'[w].todo).pipe)
  <2>1. ASSUME NEW w \in Worker, look'[w].at = "away"
        PROVE  SeenNext(look'[w], Head(worker'[w].todo).pipe)
    BY <2>1, Zenon
  <2>2. (\A w \in Worker : SeenNext(look'[w], Head(worker'[w].todo).pipe)) => SeenInv'
    BY Zenon DEF SeenInv, SourceDrained, AllPortsEmpty, IsScan, Data, Up, Edge
  <2> HIDE DEF SeenNext
  <2> QED BY <2>1, <2>2, Zenon
<1> DEFINE q == Head(worker[w].todo).pipe
<1>d. ASSUME SourceDrained(q), q \in Pipe PROVE DrainedAfter(q)
  <2>1. ASSUME NEW x \in Pipe, SourceDrained(x) PROVE DrainedAfter(x)
    <3>1. SourceDrained(x)'
      BY <2>1, <1>i, DrainedStays, Zenon
    <3> QED BY <3>1, DrainedNext, Zenon
  <2> HIDE DEF DrainedAfter, q
  <2> QED BY <1>d, <2>1, Zenon
<1> HIDE DEF DrainedAfter
<1>1. CASE UpdateStatus(w)
  <2>0. q \in Pipe
    <3>1. Head(worker[w].todo) \in Call
      BY <1>1, <1>i, UpdateFrame, Zenon
    <3> QED BY <3>1
  <2>l. ~limited[q]
    BY <1>i, <2>0 DEF NoLimit
  <2>a. look' # [look EXCEPT ![w] = Away]
    <3>1. [look EXCEPT ![w] = Away][w].at = "away"
      BY <1>t, Zenon DEF Away
    <3> QED BY <3>1, Zenon
  <2>1. CASE StatusEnter(w)
    <3>1. /\ ~finished[q] /\ worker' = worker /\ finished' = finished
          /\ IsScan(q) => closed[q]
          /\ look' = [look EXCEPT ![w].at = IF IsScan(q) \/ limited[q] THEN "counters"
                                                                      ELSE "producers"]
      <4>1. look' # look
        <5>1. look[w].at = "away"
          <6>1. look[w] = Away
            BY <2>1, Zenon DEF StatusEnter
          <6> QED BY <6>1 DEF Away
        <5> QED BY <5>1, Zenon
      <4> QED BY <2>1, <4>1, Zenon DEF StatusEnter
    <3>2. look'[w].at = IF IsScan(q) THEN "counters" ELSE "producers"
      BY <3>1, <2>l, <1>t
    <3>3. IsScan(q) => SourceDrained(q)
      BY <3>1, Zenon DEF SourceDrained
    <3> QED BY <3>1, <3>2, <3>3, <2>0, <1>d
  <2>2. CASE StatusSource(w)
    <3>1. /\ look[w].at \in {"producers", "ports"} /\ Drained(look[w].at, q)
          /\ look' = [look EXCEPT ![w].at = IF look[w].at = "producers" THEN "ports" ELSE "counters"]
          /\ worker' = worker /\ finished' = finished
      BY <2>2, <2>a, Zenon DEF StatusSource, StatusLeave
    <3>2. look'[w].at = IF look[w].at = "producers" THEN "ports" ELSE "counters"
      BY <3>1, <1>t, Zenon
    <3>3. ~finished[q] /\ ~IsScan(q)
      BY <1>s, <3>1, Zenon
    <3>4. CASE look[w].at = "producers"
      <4>1. \A u \in Up(q) : finished[u]
        BY <3>1, <3>4, Zenon DEF Drained
      <4> QED BY <3>1, <3>2, <3>3, <3>4, <4>1
    <3>5. CASE look[w].at = "ports"
      <4>1. AllPortsEmpty(q)
        BY <3>1, <3>5 DEF Drained
      <4>2. \A u \in Up(q) : finished[u]
        BY <1>s, <3>5, Zenon
      <4>3. SourceDrained(q)
        BY <3>3, <4>1, <4>2, Zenon DEF SourceDrained
      <4> QED BY <3>1, <3>2, <3>3, <3>5, <4>3, <2>0, <1>d
    <3> QED BY <3>1, <3>4, <3>5
  <2>3. CASE StatusLoad(w)
    <3>1. PICK f \in FirstLoad : look' = [look EXCEPT ![w] =
                                   [at |-> "compare", first |-> f, seen |-> Counter(f, q)]]
      BY <2>3, Zenon DEF StatusLoad
    <3>2. /\ look[w].at = "counters" /\ worker' = worker /\ finished' = finished
          /\ created' = created /\ completed' = completed
      BY <2>3, Zenon DEF StatusLoad
    <3>3. look'[w] = [at |-> "compare", first |-> f, seen |-> Counter(f, q)]
      BY <3>1, <1>t, Zenon
    <3>4. ~finished[q] /\ SourceDrained(q)
      BY <1>s, <3>2, Zenon
    <3>5. completed[q] <= completed[q]
      BY <2>0, <1>n
    <3>6. /\ look'[w].at = "compare" /\ look'[w].first = f /\ look'[w].seen = Counter(f, q)
          /\ look'[w].at \notin {"away", "producers", "ports"}
      BY <3>3
    <3>7. IF f = "created" THEN Counter(f, q) = created'[q] ELSE Counter(f, q) <= completed'[q]
      BY <3>2, <3>5, Zenon DEF Counter
    <3>8. DrainedAfter(q) /\ ~finished'[q]
      BY <3>2, <3>4, <2>0, <1>d, Zenon
    <3> HIDE DEF DrainedAfter
    <3> QED BY <3>1, <3>2, <3>6, <3>7, <3>8, Zenon
  <2>4. CASE StatusCompare(w)
    BY <2>4, <2>a, Zenon DEF StatusCompare, StatusLeave
  <2> QED BY <1>1, <2>1, <2>2, <2>3, <2>4, Zenon DEF UpdateStatus
<1>2. CASE ~UpdateStatus(w)
  <2>1. look[w].at # "away" /\ look'[w] = look[w] /\ worker'[w].todo = worker[w].todo
    BY <1>2, <1>i, OthersLook, Zenon
  <2>0. q \in Pipe /\ lock[q] = w
    <3>1. worker[w].todo # <<>> /\ lock[q] = w
      BY <1>i, <2>1, Zenon DEF LookInv
    <3>2. worker[w].todo \in Seq(Call)
      BY <1>i, Zenon DEF TypeOK
    <3>3. Head(worker[w].todo) \in Call
      BY <3>1, <3>2, RestOfSeq, Zenon
    <3> QED BY <3>1, <3>3
  <2>s. Seen(look[w], q)
    BY <1>s, Zenon
  <2>2. ~finished'[q]
    <3>0. ~finished[q]
      BY <2>1, <2>s
    <3>1. finished' = finished \/ \E v \in Worker : StatusCompare(v)
      BY StatusSteps, Zenon DEF Quiet, PushSplit, CloseConnector, DispatchLambda, LambdaClaim,
                         Execute, OomCreate, OomSchedule, DestroyTask
    <3>2. ASSUME NEW v \in Worker, StatusCompare(v) PROVE ~finished'[q]
      <4> DEFINE t == Head(worker[v].todo).pipe
      <4>1. lock[t] = v /\ finished' = [finished EXCEPT ![t] = SecondLoad(v, t)]
        BY <3>2, <1>i, CompareSees, Zenon
      <4>2. v # w
        BY <3>2, <1>2, Zenon DEF UpdateStatus
      <4>3. t # q
        BY <4>1, <4>2, <2>0, Zenon
      <4> QED BY <4>1, <4>3, <3>0, <1>t, <2>0, Zenon
    <3> QED BY <3>0, <3>1, <3>2, Zenon
  <2>3. \A u \in Up(q) : finished[u] => finished'[u]
    <3>1. Up(q) \subseteq Pipe
      BY DEF Up
    <3> QED BY <3>1, <1>i, FinishedStays, Zenon
  <2>4. ASSUME look[w].at = "compare"
        PROVE  /\ look[w].first = "created" => created'[q] = created[q]
               /\ completed'[q] >= completed[q]
    <3>d. SourceDrained(q) /\ look[w].first \in FirstLoad
      BY <2>4, <2>s, Zenon
    <3>n. created[q] \in Nat /\ completed[q] \in Nat
      BY <1>n, <2>0
    <3>1. ASSUME NEW c \in Creator, LambdaClaim(c) PROVE created'[q] = created[q] /\ completed' = completed
      <4>1. lam[c].pipe \in Pipe /\ lam[c].pipe # q
        BY <3>1, <3>d, <1>i, ClaimNeedsInput, Zenon
      <4> QED BY <3>1, <4>1, <1>n, <2>0, Zenon DEF LambdaClaim
    <3>2. ASSUME NEW v \in Worker, OomCreate(v)
          PROVE  completed' = completed /\ look[w].first # "created"
      <4>1. worker[v].pc = "run"
        BY <3>2, Zenon DEF OomCreate
      <4>2. worker[v].pipe \in Pipe
        BY <4>1, <1>i, Zenon DEF ThreadInv
      <4>3. created[worker[v].pipe] \in Nat /\ created[worker[v].pipe] < MaxCreated
        BY <3>2, <4>2, <1>n, Zenon DEF OomCreate
      <4>4. MaxCreated # 0
        BY <4>3
      <4> QED BY <3>2, <4>4, <3>d, Zenon DEF OomCreate, CountersAgree
    <3>3. ASSUME NEW v \in Worker, OomSchedule(v) \/ DestroyTask(v)
          PROVE  created' = created /\ completed'[q] >= completed[q]
      <4>1. /\ created' = created
            /\ completed' = completed \/ completed' = [completed EXCEPT ![worker[v].pipe] = @ + 1]
        BY <3>3, Zenon DEF OomSchedule, DestroyTask
      <4> QED BY <4>1, <1>n, <2>0
    <3>4. ASSUME \/ Quiet \/ \E p \in Pipe : PushSplit(p) \/ CloseConnector(p)
                 \/ \E c \in Creator, t \in Pipe : DispatchLambda(c, t)
                 \/ \E v \in Worker : StatusCompare(v) \/ \E n \in Outputs : Execute(v, n)
          PROVE  created' = created /\ completed' = completed
      BY <3>4, Zenon DEF Quiet, PushSplit, CloseConnector, DispatchLambda, Execute, StatusCompare
    <3>5. completed[q] >= completed[q]
      BY <3>n
    <3> QED BY <3>1, <3>2, <3>3, <3>4, <3>5, StatusSteps, Zenon
  <2>5. look[w].at = "compare" =>
          IF look[w].first = "created" THEN look[w].seen = created'[q]
                                       ELSE look[w].seen <= completed'[q]
    <3>1. look[w].seen \in Nat /\ completed[q] \in Nat /\ completed'[q] \in Nat
      <4>1. completed' \in [Pipe -> Nat]
        BY DEF TypeOK
      <4> QED BY <4>1, <1>t, <1>n, <2>0, Zenon
    <3> QED BY <2>4, <2>s, <3>1
  <2> QED BY <2>0, <2>1, <2>2, <2>3, <2>5, <2>s, <1>d, Zenon
<1> QED BY <1>1, <1>2, Zenon

(* Initially nothing is finished.                                          *)
LEMMA InvInit == Init => IInv
<1> SUFFICES ASSUME Init PROVE IInv
  OBVIOUS
<1>1. TypeOK /\ ThreadInv /\ LookInv /\ TaskCount
  BY TypeInit, CountInit
<1>2. SourceInv
  BY PlanAssumption DEF Init, SourceInv, SourceKind
<1>3. CpuInv
  BY PipeAssumption DEF Init, CpuInv, IdleCreator
<1>4. FinishedInv /\ NoLimit
  BY DEF Init, FinishedInv, NoLimit
<1>5. SeenInv
  BY DEF Init, SeenInv, Away
<1> QED BY <1>1, <1>2, <1>3, <1>4, <1>5, Zenon DEF IInv

(* IInv is an inductive invariant of plans without a STREAMING_LIMIT.      *)
LEMMA InvStep ==
  ASSUME LimitPipe = {}, CountersAgree, IInv, [Next]_vars
  PROVE  IInv'
<1>0. LookInv'
  BY LookStep, Zenon DEF IInv
<1>1. TypeOK' /\ ThreadInv' /\ TaskCount'
  <2>1. CASE UNCHANGED vars
    <3>1. TaskCount'
      BY <2>1, CountOther, Zenon DEF IInv
    <3>2. TypeOK'
      BY <2>1, Zenon DEF IInv, TypeOK, vars, plan, control, source
    <3>3. ThreadInv'
      BY <2>1, Zenon DEF IInv, ThreadInv, vars, control
    <3> QED BY <3>1, <3>2, <3>3
  <2>2. CASE Next
    BY <2>2, TypeCreator, TypeOther, TypeWorker, CountCreator, CountWorker, CountOther
       DEF IInv, Next, Terminated
  <2> QED BY <2>1, <2>2
<1>2. SourceInv' /\ CpuInv' /\ NoLimit'
  BY SourceStep, CpuStep, NoLimitStep DEF IInv
<1>3. FinishedInv'
  BY <1>2, FinishedStep, Zenon DEF IInv
<1>4. SeenInv'
  BY <1>1, <1>2, SeenStep, Zenon
<1> QED BY <1>0, <1>1, <1>2, <1>3, <1>4, Zenon DEF IInv

(* In a plan without a STREAMING_LIMIT a pipeline is marked finished only   *)
(* when no task of it is left, as long as an OOM reschedule cannot slip     *)
(* between the two loads of update_pipeline_status (CountersAgree): a task  *)
(* creator's mark_task_created never does, because the source is drained.   *)
THEOREM FinishedHasNoTask ==
  ASSUME LimitPipe = {}, CountersAgree
  PROVE  Spec => []NoTaskAfterFinish
<1>1. IInv => NoTaskAfterFinish
  BY FinishedIdle, Zenon DEF IInv, NoTaskAfterFinish
<1>2. IInv /\ [Next]_vars => IInv'
  BY InvStep
<1> QED BY <1>1, <1>2, InvInit, PTL DEF Spec

(* ... and only when everything it will ever be given is consumed.          *)
THEOREM FinishedConsumedAll ==
  ASSUME LimitPipe = {}, CountersAgree
  PROVE  Spec => []NoInputLeftBehind
<1>1. ASSUME IInv PROVE NoInputLeftBehind
  <2> SUFFICES ASSUME NEW p \in Pipe, finished[p]
               PROVE  /\ \A u \in Up(p) : finished[u]
                      /\ \A e \in Data(p) : repo[e] = 0
                      /\ unpushed[p] = 0
                      /\ Kind[p] # "cpu" => ready[p] = 0
    BY Zenon DEF NoInputLeftBehind
  <2>1. SourceDrained(p) /\ ~limited[p] /\ SourceInv
    BY <1>1, Zenon DEF IInv, FinishedInv, NoLimit
  <2>2. Kind[p] \in SourceKind /\ (Kind[p] # "ports" => Up(p) = {})
    BY PlanAssumption
  <2>3. CASE Kind[p] = "ports"
    <3>1. Kind[p] \notin {"iceberg", "cpu"} /\ Kind[p] # "split" /\ Kind[p] # "cpu"
      BY <2>3
    <3>2. (\A u \in Up(p) : finished[u]) /\ (\A e \in Data(p) : repo[e] = 0)
      BY <2>1, <3>1, Zenon DEF SourceDrained, AllPortsEmpty, IsScan
    <3>3. unpushed[p] = 0 /\ ready[p] = 0
      BY <2>1, <2>3, <3>1, Zenon DEF SourceInv
    <3> QED BY <3>2, <3>3, Zenon
  <2>4. CASE Kind[p] # "ports"
    <3>1. Up(p) = {} /\ Data(p) = {}
      <4>1. Up(p) = {}
        BY <2>2, <2>4, Zenon
      <4>2. ASSUME NEW e \in Data(p) PROVE e[1] \in Up(p)
        BY <4>2 DEF Data, Up, Edge
      <4> QED BY <4>1, <4>2, Zenon
    <3>2. CASE Kind[p] = "split"
      <4>1. closed[p] /\ ready[p] = 0
        BY <2>1, <3>2, Zenon DEF SourceDrained, AllPortsEmpty, IsScan
      <4>2. unpushed[p] = 0
        BY <2>1, <3>2, <4>1, Zenon DEF SourceInv
      <4> QED BY <3>1, <4>1, <4>2, Zenon
    <3>3. CASE Kind[p] \in {"iceberg", "cpu"}
      BY <2>1, <3>1, <3>3, Zenon DEF SourceDrained, SourceInv, IsScan
    <3>4. Kind[p] \in {"split", "iceberg", "cpu"}
      BY <2>2, <2>4, Zenon DEF SourceKind
    <3> QED BY <3>2, <3>3, <3>4, Zenon
  <2> QED BY <2>3, <2>4, Zenon
<1>2. IInv /\ [Next]_vars => IInv'
  BY InvStep
<1> QED BY <1>1, <1>2, InvInit, PTL DEF Spec

-----------------------------------------------------------------------------
(* The end of the query.                                                   *)

(* When the result pipeline is finished, so are all the others.            *)
LEMMA ResultIsLast ==
  ASSUME IInv, finished[Result]
  PROVE  \A p \in Pipe : finished[p]
<1> DEFINE S == {p \in Pipe : finished[p]}
<1>1. Result \in S
  BY PipeAssumption, Zenon
<1>2. ASSUME NEW e \in Edge, e[2] \in S PROVE e[1] \in S
  <2>1. e[1] \in Pipe /\ e[2] \in Pipe /\ e = <<e[1], e[2]>>
    BY DEF Edge
  <2>2. e[1] \in Up(e[2])
    BY <2>1, Zenon DEF Up
  <2>3. SourceDrained(e[2]) /\ ~limited[e[2]]
    BY <1>2, <2>1, Zenon DEF IInv, FinishedInv, NoLimit
  <2>4. Kind[e[2]] = "ports"
    BY <2>1, <2>2, PlanAssumption, Zenon
  <2>5. finished[e[1]]
    BY <2>2, <2>3, <2>4 DEF SourceDrained, IsScan
  <2> QED BY <2>1, <2>5, Zenon
<1>3. S = Pipe
  BY <1>1, <1>2, FeedAssumption, Zenon
<1> QED BY <1>3, Zenon

(* CompletionInv is inductive relative to IInv.                            *)
LEMMA CompletionStep ==
  ASSUME IInv, CompletionInv, [Next]_vars
  PROVE  CompletionInv'
<1>i. TypeOK /\ ThreadInv /\ LookInv
  BY DEF IInv
<1>f. finished[Result] => finished'[Result]
  BY FinishedStays, PipeAssumption, Zenon DEF IInv
<1>z. done => \A p \in Pipe : queued[p] = 0
  <2>1. finished[Result] => \A p \in Pipe : finished[p]
    BY ResultIsLast DEF IInv
  <2>2. \A p \in Pipe : finished[p] => queued[p] = 0
    BY FinishedIdle, Zenon DEF IInv
  <2> QED BY <2>1, <2>2, Zenon DEF CompletionInv
<1>y. done => ~\E p \in Pipe : queued[p] > 0
  BY <1>z
<1>1. ASSUME NEW c \in Creator, CreatorStep(c) PROVE CompletionInv'
  <2>1. lam[c] # IdleCreator
    BY <1>1 DEF CreatorStep, LambdaLoop, LambdaClaim, LambdaEmpty, LambdaPark, LambdaSchedule,
                IdleCreator
  <2>2. ~NoLambda
    BY <2>1, Zenon DEF NoLambda
  <2>3. worker' = worker /\ done' = done /\ engine' = engine
    BY <1>1, Zenon DEF CreatorStep, LambdaLoop, LambdaClaim, LambdaEmpty, LambdaPark, LambdaSchedule
  <2> QED BY <2>2, <2>3, <1>f, Zenon DEF CompletionInv
<1>2. ASSUME ManagerStep PROVE CompletionInv'
  <2>1. ~NoLambda \/ (pool /\ requests # NoRequests)
    <3>1. popped # None \/ \E p \in Pipe : requests[p] > 0 /\ pool
      BY <1>2, ZenonT(30) DEF ManagerStep, PopRequest, DropRequest, DispatchLambda
    <3> QED BY <3>1 DEF NoRequests, NoLambda
  <2>2. worker' = worker /\ done' = done /\ engine' = engine
    BY <1>2, Zenon DEF ManagerStep, PopRequest, DropRequest, DispatchLambda
  <2> QED BY <2>1, <2>2, <1>f, Zenon DEF CompletionInv
<1>3. ASSUME ScanManagerStep \/ UNCHANGED vars \/ Terminated PROVE CompletionInv'
  <2>1. /\ worker' = worker /\ done' = done /\ engine' = engine
        /\ lam' = lam /\ popped' = popped /\ pool' = pool /\ requests' = requests
    BY <1>3, Zenon DEF ScanManagerStep, PushSplit, CloseConnector, Terminated, vars, control
  <2>2. NoLambda' <=> NoLambda
    BY <2>1 DEF NoLambda
  <2>3. NoRequests' = NoRequests
    BY DEF NoRequests
  <2> QED BY <2>1, <2>2, <2>3, <1>f, ZenonT(60) DEF CompletionInv
<1>4. ASSUME NEW w \in Worker, NEW p \in Pipe, TakeTask(w, p) PROVE CompletionInv'
  <2>1. ~done
    BY <1>4, <1>z DEF TakeTask
  <2>2. engine = "running" /\ engine' = engine /\ done' = done
    BY <1>4, <2>1, ZenonT(30) DEF TakeTask, CompletionInv
  <2>3. worker'[w].pc = "run" /\ \A v \in Worker \ {w} : worker'[v] = worker[v]
    <3>1. worker \in [Worker -> [pc : WorkerPc, pipe : Pipe \cup {None}, todo : Seq(Call)]]
      BY <1>i, Zenon DEF TypeOK
    <3>2. worker' = [worker EXCEPT ![w] = [pc |-> "run", pipe |-> p, todo |-> <<>>]]
      BY <1>4, Zenon DEF TakeTask
    <3> QED BY <3>1, <3>2, Zenon
  <2> QED BY <2>1, <2>2, <2>3, <1>f, Zenon DEF CompletionInv
<1>5. ASSUME NEW w \in Worker, WorkerRun(w) PROVE CompletionInv'
  <2>t. worker \in [Worker -> [pc : WorkerPc, pipe : Pipe \cup {None}, todo : Seq(Call)]]
    BY <1>i, Zenon DEF TypeOK
  <2>1. worker[w] # IdleWorker
    <3>1. worker[w].pc # "idle" \/ worker[w].todo # <<>>
      BY <1>5, <1>i, UpdateFrame, Zenon DEF WorkerRun, Execute, OomCreate, OomSchedule, DestroyTask,
                  PushRequest, WorkerTail, WorkerExit, DrainStart, DrainWait, MarkCompleted
    <3>2. IdleWorker.pc = "idle" /\ IdleWorker.todo = <<>>
      BY DEF IdleWorker
    <3> QED BY <3>1, <3>2, Zenon
  <2>2. lam' = lam /\ popped' = popped /\ pool' = pool /\ engine' = engine
    BY <1>5, <1>i, UpdateFrame, Zenon DEF WorkerRun, Execute, OomCreate, OomSchedule, DestroyTask,
                PushRequest, WorkerTail, WorkerExit, DrainStart, DrainWait, MarkCompleted, control
  <2>3. NoLambda' <=> NoLambda
    BY <2>2 DEF NoLambda
  <2>4. /\ \A v \in Worker \ {w} : worker'[v] = worker[v]
        /\ worker'[w].pc \in {"drain", "wait", "mark"} => finished[Result]
    <3>1. CASE \/ \E n \in Outputs : Execute(w, n)
               \/ OomCreate(w) \/ OomSchedule(w) \/ DestroyTask(w)
      <4>1. CASE \E n \in Outputs : Execute(w, n)
        BY <4>1, <2>t DEF Execute
      <4>2. CASE OomCreate(w)
        BY <4>2, <2>t DEF OomCreate
      <4>3. CASE OomSchedule(w)
        <5>1. \/ worker' = [worker EXCEPT ![w].pc = "drop"]
              \/ worker' = [worker EXCEPT ![w] = [pc |-> "drop", pipe |-> worker[w].pipe,
                                                  todo |-> <<Update(worker[w].pipe, TRUE)>>]]
          BY <4>3, Zenon DEF OomSchedule
        <5>2. CASE worker' = [worker EXCEPT ![w].pc = "drop"]
          BY <5>2, <2>t, Zenon
        <5>3. CASE worker' # [worker EXCEPT ![w].pc = "drop"]
          <6>1. worker'[w] = [pc |-> "drop", pipe |-> worker[w].pipe,
                              todo |-> <<Update(worker[w].pipe, TRUE)>>]
            BY <5>1, <5>3, <2>t, Zenon
          <6>2. \A v \in Worker \ {w} : worker'[v] = worker[v]
            BY <5>1, <5>3, <2>t, Zenon
          <6>3. worker'[w].pc = "drop"
            BY <6>1
          <6> QED BY <6>2, <6>3
        <5> QED BY <5>2, <5>3, Zenon
      <4>4. CASE DestroyTask(w)
        BY <4>4, <2>t, Zenon DEF DestroyTask
      <4> QED BY <3>1, <4>1, <4>2, <4>3, <4>4, Zenon
    <3>2. CASE UpdateStatus(w) \/ PushRequest(w)
      <4>1. worker'[w].pc = worker[w].pc /\ \A v \in Worker \ {w} : worker'[v] = worker[v]
        <5>1. PICK t : worker' = [worker EXCEPT ![w].todo = t]
          BY <3>2, <1>i, UpdateFrame, Zenon DEF PushRequest
        <5>2. worker'[w] = [worker[w] EXCEPT !.todo = t]
          BY <5>1, <2>t, Zenon
        <5>3. [worker[w] EXCEPT !.todo = t].pc = worker[w].pc
          BY <2>t, Zenon
        <5> QED BY <5>1, <5>2, <5>3, <2>t, Zenon
      <4> QED BY <4>1 DEF CompletionInv
    <3>3. CASE WorkerTail(w)
      <4> DEFINE complete == worker[w].pipe = Result /\ finished[worker[w].pipe]
                               /\ ~IsScan(worker[w].pipe)
      <4>1. /\ complete => finished[Result]
            /\ worker' = [worker EXCEPT ![w] =
                 [pc   |-> IF complete THEN "drain" ELSE "exit",
                  pipe |-> worker[w].pipe,
                  todo |-> IF complete \/ ScanTailSilent(worker[w].pipe) THEN <<>>
                           ELSE [i \in DOMAIN Parents[worker[w].pipe] |->
                                   Push(Parents[worker[w].pipe][i], FALSE)]]]
        BY <3>3, Zenon DEF WorkerTail
      <4> HIDE DEF complete
      <4>2. worker'[w].pc = IF complete THEN "drain" ELSE "exit"
        BY <4>1, <2>t, Zenon
      <4>3. \A v \in Worker \ {w} : worker'[v] = worker[v]
        BY <4>1, <2>t, Zenon
      <4> QED BY <4>1, <4>2, <4>3
    <3>4. CASE WorkerExit(w) \/ MarkCompleted(w)
      <4>1. worker' = [worker EXCEPT ![w] = IdleWorker]
        BY <3>4, Zenon DEF WorkerExit, MarkCompleted
      <4> QED BY <4>1, <2>t, Zenon DEF IdleWorker
    <3>5. CASE DrainStart(w) \/ DrainWait(w)
      <4>1. worker[w].pc \in {"drain", "wait"} /\ \A v \in Worker \ {w} : worker'[v] = worker[v]
        BY <3>5, <2>t, Zenon DEF DrainStart, DrainWait
      <4> QED BY <4>1 DEF CompletionInv
    <3> QED BY <1>5, <3>1, <3>2, <3>3, <3>4, <3>5, Zenon DEF WorkerRun
  <2>5. done' => finished[Result]
    <3>1. CASE MarkCompleted(w)
      BY <3>1, Zenon DEF MarkCompleted, CompletionInv
    <3>2. CASE ~MarkCompleted(w)
      <4>1. done' = done
        BY <1>5, <1>i, <3>2, UpdateFrame, Zenon DEF WorkerRun, Execute, OomCreate, OomSchedule,
                          DestroyTask, PushRequest, WorkerTail, WorkerExit, DrainStart, DrainWait
      <4> QED BY <4>1 DEF CompletionInv
    <3> QED BY <3>1, <3>2, SMTT(30), Zenon
  <2>6. done => done'
    BY <1>5, <1>i, UpdateFrame, Zenon DEF WorkerRun, Execute, OomCreate, OomSchedule, DestroyTask,
                PushRequest, WorkerTail, WorkerExit, DrainStart, DrainWait, MarkCompleted
  <2>7. engine \notin {"draining", "returned"}
    BY <2>1 DEF CompletionInv
  <2> QED BY <2>2, <2>3, <2>4, <2>5, <2>6, <2>7, <1>f, Zenon DEF CompletionInv
<1>6. ASSUME EngineStep PROVE CompletionInv'
  <2>1. /\ worker' = worker /\ done' = done /\ finished' = finished
        /\ lam' = lam /\ popped' = popped
    BY <1>6, Zenon DEF EngineStep, EngineStop, EngineJoin, EngineValidate, EngineIdle, EngineReturn,
                plan, control
  <2>2. NoLambda' <=> NoLambda
    BY <2>1, SMTT(60) DEF NoLambda
  <2>3. CASE EngineStop
    <3>1. done /\ engine' = "stopping"
      BY <2>3, SMTT(30) DEF EngineStop
    <3> QED BY <2>1, <3>1, Zenon DEF CompletionInv
  <2>4. CASE EngineJoin
    <3>1. /\ engine = "stopping" /\ NoLambda
          /\ pool' = FALSE /\ engine' = "validating"
      BY <2>4, Zenon DEF EngineJoin
    <3> QED BY <2>1, <2>2, <3>1, Zenon DEF CompletionInv
  <2>5. CASE EngineValidate
    <3>1. ~\E p \in Pipe : queued[p] > 0
      BY <2>5, <1>y, Zenon DEF EngineValidate, CompletionInv
    <3>2. engine = "validating" /\ engine' = "idling" /\ pool' = pool
      BY <2>5, <3>1, Zenon DEF EngineValidate, control
    <3> QED BY <2>1, <2>2, <3>2, Zenon DEF CompletionInv
  <2>6. CASE EngineIdle
    <3>1. ~\E p \in Pipe : queued[p] > 0
      BY <2>6, <1>y, Zenon DEF EngineIdle, CompletionInv
    <3>2. /\ engine = "idling" /\ engine' = "draining" /\ pool' = pool
          /\ \A w \in Worker : worker[w] = IdleWorker
      BY <2>6, <3>1, Zenon DEF EngineIdle, control
    <3> QED BY <2>1, <2>2, <3>2, Zenon DEF CompletionInv
  <2>7. CASE EngineReturn
    <3>1. engine = "draining" /\ engine' = "returned" /\ requests' = NoRequests
      BY <2>7 DEF EngineReturn
    <3>2. NoRequests' = NoRequests
      BY DEF NoRequests
    <3> QED BY <2>1, <2>2, <3>1, <3>2, Zenon DEF CompletionInv
  <2> QED BY <1>6, <2>3, <2>4, <2>5, <2>6, <2>7, SMTT(30), Zenon DEF EngineStep
<1> QED BY <1>1, <1>2, <1>3, <1>4, <1>5, <1>6, Zenon DEF Next

(* Initially the query is not done.                                        *)
LEMMA CompletionInit == Init => CompletionInv
BY DEF Init, CompletionInv, IdleWorker

(* "Once the query has signaled completion, NOTHING should still be queued" *)
(* (task_scheduler.cpp:279) holds of every plan without a STREAMING_LIMIT   *)
(* when the counters are loaded in the safe order: wait_for_completion      *)
(* never fails a query that completed.                                      *)
THEOREM CompletionIsClean ==
  ASSUME LimitPipe = {}, CountersAgree
  PROVE  Spec => []NothingQueuedAtCompletion
<1>1. CompletionInv => NothingQueuedAtCompletion
  BY DEF CompletionInv, NothingQueuedAtCompletion
<1>2. IInv /\ [Next]_vars => IInv'
  BY InvStep
<1>3. IInv /\ CompletionInv /\ [Next]_vars => CompletionInv'
  BY CompletionStep
<1> QED BY <1>1, <1>2, <1>3, InvInit, CompletionInit, PTL DEF Spec

(* The plan is destroyed only after its last user: when execute() returns   *)
(* there is no request, lambda, task or busy worker, under the same         *)
(* premises.                                                                *)
THEOREM PlanIsReleasedLast ==
  ASSUME LimitPipe = {}, CountersAgree
  PROVE  Spec => []PlanOutlivesItsUsers
<1>1. ASSUME IInv, CompletionInv PROVE PlanOutlivesItsUsers
  <2> SUFFICES ASSUME engine = "returned"
               PROVE  /\ requests = NoRequests /\ NoLambda
                      /\ \A p \in Pipe : queued[p] = 0
                      /\ \A w \in Worker : worker[w] = IdleWorker
    BY Zenon DEF PlanOutlivesItsUsers
  <2>1. finished[Result]
    BY <1>1, Zenon DEF CompletionInv
  <2>2. \A p \in Pipe : queued[p] = 0
    BY <1>1, <2>1, ResultIsLast, FinishedIdle, Zenon DEF IInv
  <2> QED BY <1>1, <2>2, Zenon DEF CompletionInv
<1>2. IInv /\ [Next]_vars => IInv'
  BY InvStep
<1>3. IInv /\ CompletionInv /\ [Next]_vars => CompletionInv'
  BY CompletionStep
<1> QED BY <1>1, <1>2, <1>3, InvInit, CompletionInit, PTL DEF Spec

=============================================================================
