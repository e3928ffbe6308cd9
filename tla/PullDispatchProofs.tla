------------------------ MODULE PullDispatchProofs -------------------------
(***************************************************************************)
(* Proofs about PullDispatch, for any finite sets of devices, slots and    *)
(* tasks, any preferences, and any number of queries, retries and borrowed *)
(* tasks (pipeline/task_scheduler.cpp, pipeline/gpu_pipeline_executor.cpp  *)
(* and the queues they share).                                             *)
(*                                                                         *)
(* The inductive invariant DispatchInv adds to the properties the types,   *)
(* that a slot is busy exactly when it has a job, that a task in the hands *)
(* of the management thread fits the device it is matched with, and        *)
(* MatchInv: of every queued task that could run on a ready device, either *)
(* the device has still to be looked at in this pass, or an event is on    *)
(* its way.                                                                *)
(***************************************************************************)
EXTENDS PullDispatch, FiniteSetTheorems, TLAPS

\* The empty sequence is the one of length 0.
LEMMA EmptyIsShort ==
  ASSUME NEW S
  PROVE  /\ <<>> \in Seq(S) /\ Len(<<>>) = 0
         /\ \A s \in Seq(S) : s # <<>> => Len(s) \in Nat \ {0}
OBVIOUS

\* The first element and the rest of a queue that is not empty.
LEMMA RestOfSeq ==
  ASSUME NEW S, NEW s \in Seq(S), s # <<>>
  PROVE  /\ Head(s) \in S /\ Head(s) = s[1]
         /\ Tail(s) \in Seq(S) /\ Len(Tail(s)) = Len(s) - 1
         /\ \A i \in 1 .. Len(Tail(s)) : Tail(s)[i] = s[i + 1]
OBVIOUS

\* A queue with one more element at its end.
LEMMA AppendedSeq ==
  ASSUME NEW S, NEW s \in Seq(S), NEW x \in S
  PROVE  /\ Append(s, x) \in Seq(S) /\ Append(s, x) # <<>>
         /\ Len(Append(s, x)) = Len(s) + 1 /\ Append(s, x)[Len(s) + 1] = x
         /\ \A i \in 1 .. Len(s) : Append(s, x)[i] = s[i]
OBVIOUS

\* One queue behind another.
LEMMA JoinedSeq ==
  ASSUME NEW S, NEW s \in Seq(S), NEW t \in Seq(S)
  PROVE  /\ s \o t \in Seq(S) /\ Len(s \o t) = Len(s) + Len(t)
         /\ \A i \in 1 .. Len(s) + Len(t) :
               (s \o t)[i] = IF i <= Len(s) THEN s[i] ELSE t[i - Len(s)]
OBVIOUS

\* A part of a queue.
LEMMA PartOfSeq ==
  ASSUME NEW S, NEW s, NEW m \in Int, NEW n \in Int, \A i \in m .. n : s[i] \in S
  PROVE  /\ SubSeq(s, m, n) \in Seq(S)
         /\ Len(SubSeq(s, m, n)) = IF m <= n THEN n - m + 1 ELSE 0
         /\ \A i \in 1 .. n - m + 1 : SubSeq(s, m, n)[i] = s[m + i - 1]
OBVIOUS

\* Every nonempty set of device numbers has a smallest one: a pass goes through the ready
\* devices in order.
LEMMA NatMin ==
  ASSUME NEW S, S \subseteq Nat, S # {}
  PROVE  \E x \in S : \A y \in S : x <= y
<1>1. PICK x \in S : \A y \in S : ~(<<y, x>> \in OpToRel(<, Nat))
  BY NatLessThanWellFounded, WFMin, Zenon
<1>2. \A y \in S : ~(y < x)
  BY <1>1, Zenon DEF OpToRel
<1> QED BY <1>2

\* What is left of a queue when its i-th element is taken out.
LEMMA RemoveAtFacts ==
  ASSUME NEW S, NEW s \in Seq(S), NEW i \in DOMAIN s
  PROVE  /\ RemoveAt(s, i) \in Seq(S)
         /\ Len(RemoveAt(s, i)) = Len(s) - 1
         /\ \A j \in 1 .. Len(s) - 1 : RemoveAt(s, i)[j] = IF j < i THEN s[j] ELSE s[j + 1]
         /\ ToSet(RemoveAt(s, i)) \subseteq ToSet(s)
<1> DEFINE a == SubSeq(s, 1, i - 1)
           b == SubSeq(s, i + 1, Len(s))
<1>1. i \in 1 .. Len(s) /\ Len(s) \in Nat
  OBVIOUS
<1>2. a \in Seq(S) /\ Len(a) = i - 1 /\ \A j \in 1 .. i - 1 : a[j] = s[j]
  BY <1>1, PartOfSeq
<1>3. b \in Seq(S) /\ Len(b) = Len(s) - i /\ \A j \in 1 .. Len(s) - i : b[j] = s[i + j]
  BY <1>1, PartOfSeq
<1>4. /\ RemoveAt(s, i) \in Seq(S)
      /\ Len(RemoveAt(s, i)) = Len(s) - 1
      /\ \A j \in 1 .. Len(s) - 1 : RemoveAt(s, i)[j] = IF j < i THEN s[j] ELSE s[j + 1]
  <2>1. /\ a \o b \in Seq(S) /\ Len(a \o b) = Len(a) + Len(b)
        /\ \A j \in 1 .. Len(a) + Len(b) : (a \o b)[j] = IF j <= Len(a) THEN a[j] ELSE b[j - Len(a)]
    BY <1>2, <1>3, JoinedSeq, Zenon
  <2>2. RemoveAt(s, i) = a \o b
    BY DEF RemoveAt
  <2> HIDE DEF a, b
  <2>3. Len(a) + Len(b) = Len(s) - 1
    BY <1>1, <1>2, <1>3
  <2>4. ASSUME NEW j \in 1 .. Len(s) - 1
        PROVE  (a \o b)[j] = IF j < i THEN s[j] ELSE s[j + 1]
    <3>1. CASE j < i
      BY <3>1, <1>1, <1>2, <2>1, <2>3
    <3>2. CASE ~(j < i)
      <4>1. j - Len(a) \in 1 .. Len(s) - i /\ i + (j - Len(a)) = j + 1
        BY <3>2, <1>1, <1>2
      <4>2. (a \o b)[j] = b[j - Len(a)]
        BY <3>2, <1>1, <1>2, <2>1, <2>3, SMTT(30)
      <4> QED BY <3>2, <4>1, <4>2, <1>3
    <3> QED BY <3>1, <3>2, Zenon
  <2> QED BY <2>1, <2>2, <2>3, <2>4
<1>5. ToSet(RemoveAt(s, i)) \subseteq ToSet(s)
  BY <1>1, <1>4 DEF ToSet
<1> QED BY <1>4, <1>5

\* A push adds its element,
LEMMA AppendFacts ==
  ASSUME NEW S, NEW s \in Seq(S), NEW x \in S
  PROVE  Append(s, x) \in Seq(S) /\ ToSet(Append(s, x)) = ToSet(s) \cup {x}
BY AppendedSeq DEF ToSet

\* ... and a pop takes the first one.
LEMMA TailFacts ==
  ASSUME NEW S, NEW s \in Seq(S), s # <<>>
  PROVE  /\ Tail(s) \in Seq(S) /\ ToSet(Tail(s)) \subseteq ToSet(s)
         /\ Head(s) \in S /\ Head(s) \in ToSet(s)
BY RestOfSeq DEF ToSet

\* The parts of the type invariant: the query thread,
QueryType ==
  /\ engine \in {"idle", "running", "stop", "quiesce", "join", "end"}
  /\ mode \in {"validate", "drain"} /\ failed \in BOOLEAN
  /\ query \in 0 .. MaxQuery /\ left \subseteq Device /\ creating \in BOOLEAN

\* ... the scheduler's queue,
SchedType ==
  /\ born \in [Task -> 0 .. MaxQuery] /\ waking \subseteq Task
  /\ task_queue \in Seq(Task) /\ borrowed \subseteq Task /\ borrows \in Nat

\* ... its management thread,
MatchType ==
  /\ events \subseteq Device \cup {Wake} /\ ready_devices \subseteq Device
  /\ matcher \in {"get", "exact", "any", "dispatch"}
  /\ pass \subseteq ready_devices /\ (pass = {} <=> matcher = "get")
  /\ hand \in Task \cup {None} /\ (hand = None <=> matcher # "dispatch")

\* ... the executors and their managers,
ExecType ==
  /\ queue \in [Device -> Seq(Task)]
  /\ open \in [Device -> BOOLEAN] /\ paused \in [Device -> BOOLEAN]
  /\ active \in [Device -> Nat]
  /\ manager \in [Device -> {"reserve", "send", "pop", "exited"}]

\* ... and the worker threads.
WorkType ==
  /\ job \in [Device -> [Slot -> Task \cup {None}]]
  /\ step \in [Device -> [Slot -> {"idle", "run", "report", "exit"}]]
  /\ retries \in [Task -> 0 .. MaxRetry] /\ done \subseteq Task /\ ooms \in Nat

\* The device a pass is at is one of those it has to look at.
LEMMA NextDeviceFacts ==
  ASSUME MatchType, matcher # "get"
  PROVE  Next_device \in pass /\ Next_device \in Device
<1>1. pass # {} /\ pass \subseteq Device
  BY DEF MatchType
<1> QED BY <1>1, NatMin, DispatchAssumption, Zenon DEF Next_device

\* The executor the query thread is at is one it has not quiesced.
LEMMA NextExecutorFacts ==
  ASSUME QueryType, left # {}
  PROVE  Next_executor \in left /\ Next_executor \in Device
<1>1. left \subseteq Device
  BY DEF QueryType
<1> QED BY <1>1, NatMin, DispatchAssumption, Zenon DEF Next_executor

\* A push into an executor's queue, which an interrupted queue refuses.
LEMMA OfferFacts ==
  ASSUME ExecType, NEW d \in Device, NEW t \in Task
  PROVE  /\ Offer(d, t) \in [Device -> Seq(Task)]
         /\ \A e \in Device : e # d => Offer(d, t)[e] = queue[e]
         /\ Offer(d, t)[d] = IF open[d] THEN Append(queue[d], t) ELSE queue[d]
BY AppendFacts DEF ExecType, Offer

\* A slot is idle exactly when it has no job.
JobInv == \A d \in Device, s \in Slot : step[d][s] = "idle" <=> job[d][s] = None


\* The parts make up the type invariant.
LEMMA TypeGroups == TypeOK <=> QueryType /\ SchedType /\ MatchType /\ ExecType /\ WorkType
BY Zenon DEF TypeOK, QueryType, SchedType, MatchType, ExecType, WorkType

\* A step keeps the part whose variables it leaves alone.
LEMMA GroupsKept ==
  /\ QueryType /\ UNCHANGED queryVars => QueryType'
  /\ SchedType /\ UNCHANGED schedVars => SchedType'
  /\ MatchType /\ UNCHANGED matchVars => MatchType'
  /\ ExecType /\ UNCHANGED execVars => ExecType'
  /\ WorkType /\ UNCHANGED workVars => WorkType'
<1>1. QueryType /\ UNCHANGED queryVars => QueryType'
  BY Zenon DEF QueryType, queryVars
<1>2. SchedType /\ UNCHANGED schedVars => SchedType'
  BY Zenon DEF SchedType, schedVars
<1>3. MatchType /\ UNCHANGED matchVars => MatchType'
  BY Zenon DEF MatchType, matchVars
<1>4. ExecType /\ UNCHANGED execVars => ExecType'
  BY Zenon DEF ExecType, execVars
<1>5. WorkType /\ UNCHANGED workVars => WorkType'
  BY Zenon DEF WorkType, workVars
<1> QED BY <1>1, <1>2, <1>3, <1>4, <1>5

\* The steps of those who schedule, borrow and return tasks.
SchedStep ==
  \/ \E t \in Task : SchedulePush(t) \/ ScheduleWake(t) \/ ReturnBorrowed(t)
  \/ \E i \in DOMAIN task_queue : Borrow(i)

\* A task ends, or its failure is reported: no queue and no slot is touched.
Settle(d, s) ==
  \/ Execute(d, s) \/ NoReservation(d, s) \/ ExecuteCancelled(d, s)
  \/ ExecuteThrows(d, s) \/ ReportError(d, s)

\* What a worker may do,
LEMMA WorkerKinds ==
  ASSUME NEW d \in Device, NEW s \in Slot, WorkerStep(d, s)
  PROVE  Settle(d, s) \/ OutOfMemory(d, s) \/ ReleaseSlot(d, s)
BY Zenon DEF WorkerStep, Settle

\* ... and what it changes when a task ends or fails.
LEMMA SettleFacts ==
  ASSUME NEW d \in Device, NEW s \in Slot, Settle(d, s)
  PROVE  /\ UNCHANGED <<engine, query, mode, left, schedVars, matchVars, execVars, job, retries, ooms>>
         /\ failed' = TRUE \/ UNCHANGED failed
         /\ creating' = FALSE \/ UNCHANGED creating
         /\ step[d][s] # "idle"
         /\ step' = [step EXCEPT ![d][s] = "exit"] \/ step' = [step EXCEPT ![d][s] = "report"]
         /\ done' = done \/ done' = done \cup {job[d][s]}
<1>1. CASE Execute(d, s) \/ ExecuteCancelled(d, s)
  BY <1>1 DEF Execute, ExecuteCancelled, queryVars
<1>2. CASE ExecuteThrows(d, s)
  BY <1>2 DEF ExecuteThrows
<1>3. Report => failed' = TRUE \/ UNCHANGED failed
  BY Zenon DEF Report
<1>4. CASE NoReservation(d, s)
  BY <1>3, <1>4 DEF NoReservation
<1>5. CASE ReportError(d, s)
  BY <1>3, <1>5 DEF ReportError
<1> QED BY <1>1, <1>2, <1>4, <1>5, Zenon DEF Settle

\* Who changes what: each kind of step leaves the state of the others alone.
LEMMA Frames ==
  ASSUME Next
  PROVE  \/ SchedStep /\ UNCHANGED <<queryVars, execVars, workVars, ready_devices, matcher, pass, hand>>
         \/ MatcherStep /\ UNCHANGED <<queryVars, workVars, open, paused, active, manager,
                                       born, waking, borrowed, borrows>>
         \/ \E d \in Device : ManagerStep(d) /\ UNCHANGED <<queryVars, schedVars, ready_devices,
                                       matcher, pass, hand, open, paused, retries, done, ooms>>
         \/ \E d \in Device, s \in Slot :
               WorkerStep(d, s) /\ UNCHANGED <<engine, query, mode, left, schedVars, matchVars,
                                               open, paused, manager>>
         \/ (StartQuery \/ EngineStep)
              /\ UNCHANGED <<matchVars, workVars, active, born, waking, borrowed, borrows>>
         \/ UNCHANGED vars
<1>1. CASE SchedStep
  BY <1>1, ZenonT(30) DEF SchedStep, SchedulePush, ScheduleWake, ReturnBorrowed, Borrow, matchVars
<1>2. CASE MatcherStep
  <2>1. CASE AbsorbEvents
    BY <1>2, <2>1, Zenon DEF AbsorbEvents, schedVars, execVars
  <2>2. CASE MatchExact
    BY <1>2, <2>2, Zenon DEF MatchExact, schedVars, execVars
  <2>3. CASE MatchAny
    BY <1>2, <2>3, Zenon DEF MatchAny, schedVars, execVars
  <2>4. CASE Dispatch
    BY <1>2, <2>4, Zenon DEF Dispatch, schedVars, execVars
  <2> QED BY <1>2, <2>1, <2>2, <2>3, <2>4 DEF MatcherStep
<1>3. ASSUME NEW d \in Device, ManagerStep(d)
      PROVE  UNCHANGED <<queryVars, schedVars, ready_devices,
                         matcher, pass, hand, open, paused, retries, done, ooms>>
  BY <1>3, Zenon DEF ManagerStep, ManagerReserve, ManagerSend, ManagerPop, ManagerInterrupted,
                     matchVars, workVars
<1>4. ASSUME NEW d \in Device, NEW s \in Slot, WorkerStep(d, s)
      PROVE  UNCHANGED <<engine, query, mode, left, schedVars, matchVars, open, paused, manager>>
  BY <1>4, WorkerKinds, SettleFacts, Zenon DEF OutOfMemory, ReleaseSlot, execVars, queryVars
<1>5. ASSUME StartQuery \/ EngineStep
      PROVE  UNCHANGED <<matchVars, workVars, active, born, waking, borrowed, borrows>>
  BY <1>5, Zenon DEF StartQuery, EngineStep, FutureReady, StopCreator, InterruptExecutor,
                     RestartExecutor, Quiesced, EndQuery, execVars, schedVars
<1> QED BY <1>1, <1>2, <1>3, <1>4, <1>5 DEF Next, SchedStep, Terminated

\* The steps of the query thread keep its types.
LEMMA QueryTypeStep ==
  ASSUME QueryType, Next PROVE QueryType'
<1>1. CASE UNCHANGED queryVars
  BY <1>1, GroupsKept
<1>2. ASSUME NEW d \in Device, NEW s \in Slot, WorkerStep(d, s),
             UNCHANGED <<engine, query, mode, left>>
      PROVE  QueryType'
  <2>1. failed' \in BOOLEAN /\ creating' \in BOOLEAN
    <3>1. (failed' = TRUE \/ UNCHANGED failed) /\ (creating' = FALSE \/ UNCHANGED creating)
      BY <1>2, WorkerKinds, SettleFacts, Zenon DEF OutOfMemory, Report, ReleaseSlot, queryVars
    <3> QED BY <3>1, Zenon DEF QueryType
  <2> QED BY <1>2, <2>1, Zenon DEF QueryType
<1>3. CASE StartQuery
  <2>1. query' \in 0 .. MaxQuery
    BY <1>3, DispatchAssumption DEF StartQuery, QueryType
  <2> QED BY <1>3, <2>1, Zenon DEF StartQuery, QueryType
<1>4. CASE FutureReady
  BY <1>4, Zenon DEF FutureReady, QueryType
<1>5. CASE StopCreator
  <2>1. left' \subseteq Device
    BY <1>5, Zenon DEF StopCreator, QueryType
  <2> QED BY <1>5, <2>1, Zenon DEF StopCreator, QueryType
<1>6. CASE InterruptExecutor \/ Quiesced \/ EndQuery
  BY <1>6, Zenon DEF InterruptExecutor, Quiesced, EndQuery, QueryType
<1>7. CASE RestartExecutor
  <2>1. left' \subseteq Device
    BY <1>7 DEF RestartExecutor, QueryType
  <2> QED BY <1>7, <2>1, Zenon DEF RestartExecutor, QueryType
<1> QED BY <1>1, <1>2, <1>3, <1>4, <1>5, <1>6, <1>7, Frames, Zenon DEF EngineStep, vars

\* pop_if() hands out a task of the queue that satisfies its condition.
LEMMA PopIfFacts ==
  ASSUME SchedType, NEW S, PopIf(S)
  PROVE  /\ hand' \in S /\ hand' \in Task /\ hand' \in ToSet(task_queue)
         /\ task_queue' \in Seq(Task) /\ ToSet(task_queue') \subseteq ToSet(task_queue)
         /\ matcher' = "dispatch" /\ pass' = pass
<1>1. PICK i \in DOMAIN task_queue : /\ IsFirst(task_queue, i, S)
                                     /\ hand' = task_queue[i]
                                     /\ task_queue' = RemoveAt(task_queue, i)
                                     /\ matcher' = "dispatch" /\ UNCHANGED pass
  BY DEF PopIf
<1>2. task_queue \in Seq(Task)
  BY DEF SchedType
<1>3. hand' \in S
  BY <1>1 DEF IsFirst
<1>4. hand' \in Task /\ hand' \in ToSet(task_queue)
  BY <1>1, <1>2 DEF ToSet
<1>5. task_queue' \in Seq(Task) /\ ToSet(task_queue') \subseteq ToSet(task_queue)
  BY <1>1, <1>2, RemoveAtFacts
<1> QED BY <1>1, <1>3, <1>4, <1>5

\* Every step keeps the types of the scheduler's queue,
LEMMA SchedTypeStep ==
  ASSUME SchedType, QueryType, Next PROVE SchedType'
<1>1. CASE UNCHANGED schedVars
  BY <1>1, GroupsKept
<1>2. ASSUME NEW t \in Task, SchedulePush(t) PROVE SchedType'
  BY <1>2, AppendFacts DEF SchedulePush, SchedType, QueryType
<1>3. ASSUME NEW t \in Task, ScheduleWake(t) PROVE SchedType'
  BY <1>3 DEF ScheduleWake, SchedType
<1>4. ASSUME NEW t \in Task, ReturnBorrowed(t) PROVE SchedType'
  BY <1>4, AppendFacts DEF ReturnBorrowed, SchedType
<1>5. ASSUME NEW i \in DOMAIN task_queue, Borrow(i) PROVE SchedType'
  <2>1. task_queue[i] \in Task /\ RemoveAt(task_queue, i) \in Seq(Task)
    BY RemoveAtFacts DEF SchedType
  <2>2. borrowed' \subseteq Task /\ borrows' \in Nat
    BY <1>5, <2>1 DEF Borrow, SchedType
  <2> QED BY <1>5, <2>1, <2>2, Zenon DEF Borrow, SchedType
<1>6. ASSUME task_queue' \in Seq(Task), UNCHANGED <<born, waking, borrowed, borrows>>
      PROVE  SchedType'
  BY <1>6, Zenon DEF SchedType
<1>7. ASSUME MatcherStep, UNCHANGED <<born, waking, borrowed, borrows>> PROVE SchedType'
  <2>1. CASE UNCHANGED task_queue
    BY <1>6, <1>7, <2>1, Zenon DEF SchedType
  <2>2. ASSUME NEW S, PopIf(S) PROVE SchedType'
    BY <1>6, <1>7, <2>2, PopIfFacts, SMTT(30)
  <2> QED BY <1>7, <2>1, <2>2, Zenon DEF MatcherStep, AbsorbEvents, MatchExact, MatchAny, Dispatch,
                                         Miss, schedVars
<1>8. ASSUME StartQuery \/ EngineStep, UNCHANGED <<born, waking, borrowed, borrows>>
      PROVE  SchedType'
  <2>1. task_queue' = <<>> \/ UNCHANGED task_queue
    BY <1>8, Zenon DEF StartQuery, EngineStep, FutureReady, StopCreator, InterruptExecutor,
                       RestartExecutor, Quiesced, EndQuery, schedVars
  <2>2. task_queue' \in Seq(Task)
    BY <2>1, EmptyIsShort, Zenon DEF SchedType
  <2> QED BY <1>6, <1>8, <2>2
<1> QED BY <1>1, <1>2, <1>3, <1>4, <1>5, <1>7, <1>8, Frames, Zenon DEF SchedStep, vars

\* ... of the management thread,
LEMMA MatchTypeStep ==
  ASSUME MatchType, SchedType, Next PROVE MatchType'
<1> USE DispatchAssumption
<1>1. CASE UNCHANGED matchVars
  BY <1>1, GroupsKept
<1>2. ASSUME events' \subseteq Device \cup {Wake}, UNCHANGED <<ready_devices, matcher, pass, hand>>
      PROVE  MatchType'
  BY <1>2, Zenon DEF MatchType
<1>3. CASE SchedStep /\ UNCHANGED <<ready_devices, matcher, pass, hand>>
  <2>1. events' = events \cup {Wake} \/ UNCHANGED events
    BY <1>3, Zenon DEF SchedStep, SchedulePush, ScheduleWake, ReturnBorrowed, Borrow, matchVars
  <2> QED BY <1>2, <1>3, <2>1, Zenon DEF MatchType
<1>4. ASSUME NEW d \in Device, ManagerStep(d), UNCHANGED <<ready_devices, matcher, pass, hand>>
      PROVE  MatchType'
  <2>1. events' = events \cup {d} \/ UNCHANGED events
    BY <1>4, Zenon DEF ManagerStep, ManagerReserve, ManagerSend, ManagerPop, ManagerInterrupted,
       matchVars
  <2> QED BY <1>2, <1>4, <2>1, Zenon DEF MatchType
<1>5. CASE AbsorbEvents
  BY <1>5, Zenon DEF AbsorbEvents, MatchType
<1>6. ASSUME NEW S, PopIf(S), UNCHANGED <<events, ready_devices>>, matcher # "get"
      PROVE  MatchType'
  <2>1. hand' \in Task /\ hand' # None /\ matcher' = "dispatch" /\ pass' = pass
    BY <1>6, PopIfFacts
  <2> QED BY <1>6, <2>1 DEF MatchType
<1>7. CASE MatchExact
  <2>1. CASE matcher' = "any" /\ UNCHANGED pass /\ UNCHANGED hand
    BY <1>7, <2>1 DEF MatchExact, MatchType
  <2> QED BY <1>6, <1>7, <2>1 DEF MatchExact, Miss
<1>8. ASSUME Advance, hand' = None, events' = events,
             ready_devices' = ready_devices \/ ready_devices' = ready_devices \ {Next_device}
      PROVE  MatchType'
  <2>1. pass' \subseteq ready_devices' /\ ready_devices' \subseteq Device
    BY <1>8, Zenon DEF Advance, MatchType
  <2>2. matcher' = IF pass' = {} THEN "get" ELSE "exact"
    BY <1>8 DEF Advance
  <2> QED BY <1>8, <2>1, <2>2, SMTT(30) DEF MatchType
<1>9. CASE MatchAny
  <2>1. CASE Advance /\ UNCHANGED hand
    BY <1>8, <1>9, <2>1, SMTT(30) DEF MatchAny, MatchType
  <2> QED BY <1>6, <1>9, <2>1 DEF MatchAny, Miss
<1>10. CASE Dispatch
  BY <1>8, <1>10 DEF Dispatch
<1> QED BY <1>1, <1>3, <1>4, <1>5, <1>7, <1>9, <1>10, Frames, Zenon DEF MatcherStep, vars, matchVars

\* ... of the worker threads,
LEMMA WorkTypeStep ==
  ASSUME WorkType, ExecType, JobInv, Next PROVE WorkType' /\ JobInv'
<1> USE DispatchAssumption
<1>1. ASSUME UNCHANGED workVars PROVE WorkType' /\ JobInv'
  <2>1. JobInv'
    BY <1>1, Zenon DEF JobInv, workVars
  <2> QED BY <1>1, <2>1, GroupsKept
<1>2. ASSUME NEW d \in Device, ManagerStep(d), UNCHANGED <<retries, done, ooms>>
      PROVE  WorkType' /\ JobInv'
  <2>1. ASSUME NEW s \in Slot, ManagerPop(d, s) PROVE WorkType' /\ JobInv'
    <3>1. Head(queue[d]) \in Task
      BY <2>1, TailFacts DEF ManagerPop, ExecType
    <3>2. /\ job' \in [Device -> [Slot -> Task \cup {None}]]
          /\ step' \in [Device -> [Slot -> {"idle", "run", "report", "exit"}]]
      BY <2>1, <3>1 DEF ManagerPop, WorkType
    <3>3. /\ job'[d][s] = Head(queue[d]) /\ step'[d][s] = "run"
          /\ \A e \in Device, r \in Slot : <<e, r>> # <<d, s>> =>
                job'[e][r] = job[e][r] /\ step'[e][r] = step[e][r]
      BY <2>1 DEF ManagerPop, WorkType
    <3>4. JobInv'
      <4>1. job'[d][s] # None /\ step'[d][s] # "idle"
        BY <3>1, <3>3
      <4>2. \A e \in Device, r \in Slot : (e # d \/ r # s) =>
              job'[e][r] = job[e][r] /\ step'[e][r] = step[e][r]
        BY <3>3
      <4> QED BY <4>1, <4>2 DEF JobInv
    <3> QED BY <1>2, <3>2, <3>4, ZenonT(30) DEF WorkType
  <2>2. CASE UNCHANGED <<job, step>>
    BY <1>1, <1>2, <2>2 DEF workVars
  <2> QED BY <1>2, <2>1, <2>2, Zenon DEF ManagerStep, ManagerReserve, ManagerSend, ManagerInterrupted,
             workVars
<1>3. ASSUME NEW d \in Device, NEW s \in Slot, WorkerStep(d, s)
      PROVE  WorkType' /\ JobInv'
  <2>1. job[d][s] \in Task /\ step[d][s] # "idle"
    <3>1. step[d][s] # "idle"
      <4>1. OutOfMemory(d, s) \/ ReleaseSlot(d, s) => step[d][s] # "idle"
        BY DEF OutOfMemory, ReleaseSlot
      <4> QED BY <1>3, <4>1, WorkerKinds, SettleFacts, Zenon
    <3> QED BY <3>1 DEF JobInv, WorkType
  <2>2. /\ \/ job' = job /\ step' = [step EXCEPT ![d][s] = "exit"]
           \/ job' = job /\ step' = [step EXCEPT ![d][s] = "report"]
           \/ job' = [job EXCEPT ![d][s] = None] /\ step' = [step EXCEPT ![d][s] = "idle"]
        /\ done' = done \/ done' = done \cup {job[d][s]}
        /\ ooms' = ooms \/ ooms' = ooms + 1
        /\ \/ retries' = retries
           \/ /\ retries[job[d][s]] + 1 <= MaxRetry
              /\ retries' = [retries EXCEPT ![job[d][s]] = @ + 1]
    <3>1. CASE Settle(d, s)
      BY <3>1, SettleFacts, Zenon
    <3>2. CASE OutOfMemory(d, s)
      BY <3>2, Zenon DEF OutOfMemory
    <3>3. CASE ReleaseSlot(d, s)
      BY <3>3, Zenon DEF ReleaseSlot
    <3> QED BY <1>3, <3>1, <3>2, <3>3, WorkerKinds
  <2>3. /\ job' \in [Device -> [Slot -> Task \cup {None}]]
        /\ step' \in [Device -> [Slot -> {"idle", "run", "report", "exit"}]]
    BY <2>2 DEF WorkType
  <2>4. done' \subseteq Task /\ ooms' \in Nat
    BY <2>1, <2>2 DEF WorkType
  <2>5. retries' \in [Task -> 0 .. MaxRetry]
    <3>1. retries[job[d][s]] \in 0 .. MaxRetry
      BY <2>1 DEF WorkType
    <3> QED BY <2>1, <2>2, <3>1 DEF WorkType
  <2>6. JobInv'
    <3>1. /\ (job'[d][s] = job[d][s] /\ step'[d][s] # "idle") \/ (job'[d][s] = None /\ step'[d][s] = "idle")
          /\ \A e \in Device, r \in Slot : <<e, r>> # <<d, s>> =>
                job'[e][r] = job[e][r] /\ step'[e][r] = step[e][r]
      BY <2>2 DEF WorkType
    <3> QED BY <2>1, <3>1 DEF JobInv
  <2> QED BY <2>3, <2>4, <2>5, <2>6, Zenon DEF WorkType
<1> QED BY <1>1, <1>2, <1>3, Frames, Zenon DEF vars, workVars

\* The busy slots of a device are counted one by one.
LEMMA BusyFacts ==
  ASSUME WorkType, NEW d \in Device, NEW s \in Slot
  PROVE  /\ IsFiniteSet(Busy(d)) /\ Cardinality(Busy(d)) \in Nat
         /\ step[d][s] # "idle" => Cardinality(Busy(d)) # 0 /\ Cardinality(Busy(d) \ {s}) = Cardinality(Busy(d)) - 1
         /\ step[d][s] = "idle" => Cardinality(Busy(d) \cup {s}) = Cardinality(Busy(d)) + 1
<1>1. IsFiniteSet(Busy(d))
  BY DispatchAssumption, FS_Subset DEF Busy
<1>2. step[d][s] # "idle" <=> s \in Busy(d)
  BY DEF Busy
<1> QED BY <1>1, <1>2, FS_CardinalityType, FS_EmptySet, FS_AddElement, FS_RemoveElement, Zenon

\* ... and of the executors.
LEMMA ExecTypeStep ==
  ASSUME ExecType, WorkType, MatchType, QueryType, SlotsAccounted, JobInv, Next PROVE ExecType'
<1>1. CASE UNCHANGED execVars
  BY <1>1, GroupsKept
<1>2. CASE Dispatch
  <2>1. queue' \in [Device -> Seq(Task)]
    BY <1>2, NextDeviceFacts, OfferFacts DEF Dispatch, MatchType
  <2> QED BY <1>2, <2>1, ZenonT(30) DEF Dispatch, ExecType
<1>3. ASSUME NEW d \in Device, ManagerStep(d), UNCHANGED <<open, paused>> PROVE ExecType'
  <2>1. manager' \in [Device -> {"reserve", "send", "pop", "exited"}]
    <3>1. \E m \in {"reserve", "send", "pop", "exited"} : manager' = [manager EXCEPT ![d] = m]
      BY <1>3, Zenon DEF ManagerStep, ManagerReserve, ManagerSend, ManagerPop, ManagerInterrupted
    <3> QED BY <3>1 DEF ExecType
  <2>2. active' \in [Device -> Nat]
    <3>1. CASE UNCHANGED active
      BY <3>1 DEF ExecType
    <3>2. CASE active' = [active EXCEPT ![d] = @ + 1]
      BY <3>2 DEF ExecType
    <3>3. CASE ManagerInterrupted(d)
      <4>1. Cardinality(Busy(d)) \in Nat
        BY FS_CardinalityType, FS_Subset, DispatchAssumption DEF Busy
      <4>2. active[d] - 1 \in Nat
        BY <3>3, <4>1 DEF ManagerInterrupted, SlotsAccounted
      <4> QED BY <3>3, <4>2 DEF ManagerInterrupted, ExecType
    <3> QED BY <1>3, <3>1, <3>2, <3>3, Zenon DEF ManagerStep, ManagerReserve, ManagerSend, ManagerPop
  <2>3. queue' \in [Device -> Seq(Task)]
    <3>1. CASE UNCHANGED queue
      BY <3>1 DEF ExecType
    <3>2. CASE queue[d] # <<>> /\ queue' = [queue EXCEPT ![d] = Tail(@)]
      BY <3>2, TailFacts DEF ExecType
    <3> QED BY <1>3, <3>1, <3>2, Zenon DEF ManagerStep, ManagerReserve, ManagerSend, ManagerPop,
               ManagerInterrupted
  <2> QED BY <1>3, <2>1, <2>2, <2>3, Zenon DEF ExecType
<1>4. ASSUME NEW d \in Device, NEW s \in Slot, WorkerStep(d, s), UNCHANGED <<open, paused, manager>>
      PROVE  ExecType'
  <2>1. queue' \in [Device -> Seq(Task)]
    <3>1. CASE UNCHANGED queue
      BY <3>1 DEF ExecType
    <3>2. CASE step[d][s] = "run" /\ queue' = Offer(d, job[d][s])
      <4>1. job[d][s] \in Task
        BY <3>2 DEF JobInv, WorkType
      <4> QED BY <3>2, <4>1, OfferFacts
    <3> QED BY <1>4, <3>1, <3>2, WorkerKinds, SettleFacts, Zenon DEF OutOfMemory, ReleaseSlot,
               execVars
  <2>2. active' \in [Device -> Nat]
    <3>1. CASE UNCHANGED active
      BY <3>1 DEF ExecType
    <3>2. CASE step[d][s] # "idle" /\ active' = [active EXCEPT ![d] = @ - 1]
      <4>1. active[d] - 1 \in Nat
        <5>1. Cardinality(Busy(d)) \in Nat \ {0}
          BY <3>2, BusyFacts, Zenon
        <5>2. active[d] = Cardinality(Busy(d)) + (IF manager[d] \in {"send", "pop"} THEN 1 ELSE 0)
          BY DEF SlotsAccounted
        <5> QED BY <5>1, <5>2
      <4> QED BY <3>2, <4>1 DEF ExecType
    <3>3. ReleaseSlot(d, s) => step[d][s] # "idle" /\ active' = [active EXCEPT ![d] = @ - 1]
      BY DEF ReleaseSlot
    <3> QED BY <1>4, <3>1, <3>2, <3>3, WorkerKinds, SettleFacts, Zenon DEF OutOfMemory,
               execVars
  <2> QED BY <1>4, <2>1, <2>2, Zenon DEF ExecType
<1>5. ASSUME queue' \in [Device -> Seq(Task)], open' \in [Device -> BOOLEAN],
             paused' \in [Device -> BOOLEAN], UNCHANGED <<active, manager>>
      PROVE  ExecType'
  BY <1>5, Zenon DEF ExecType
<1>6. CASE StartQuery
  <2>1. queue' \in [Device -> Seq(Task)]
    BY <1>6, EmptyIsShort DEF StartQuery
  <2> QED BY <1>6, <2>1, Zenon DEF StartQuery, ExecType
<1>7. CASE InterruptExecutor
  BY <1>7, Zenon DEF InterruptExecutor, ExecType
<1>8. CASE RestartExecutor
  <2>1. queue' \in [Device -> Seq(Task)]
    BY <1>8, EmptyIsShort, Zenon DEF RestartExecutor, ExecType
  <2>2. /\ paused' \in [Device -> BOOLEAN] /\ open' \in [Device -> BOOLEAN]
        /\ manager' \in [Device -> {"reserve", "send", "pop", "exited"}]
    <3>1. \A f \in [Device -> BOOLEAN], b \in BOOLEAN : [f EXCEPT ![Next_executor] = b] \in [Device -> BOOLEAN]
      BY Zenon
    <3>2. [manager EXCEPT ![Next_executor] = "reserve"] \in [Device -> {"reserve", "send", "pop", "exited"}]
      BY Zenon DEF ExecType
    <3> QED BY <1>8, <3>1, <3>2, Zenon DEF RestartExecutor, ExecType
  <2> QED BY <1>8, <2>1, <2>2, Zenon DEF RestartExecutor, ExecType
<1>9. StopCreator \/ FutureReady \/ Quiesced \/ EndQuery => UNCHANGED execVars
  BY Zenon DEF StopCreator, FutureReady, Quiesced, EndQuery
<1>10. AbsorbEvents \/ MatchExact \/ MatchAny => UNCHANGED execVars
  BY Zenon DEF AbsorbEvents, MatchExact, MatchAny
<1> QED BY <1>1, <1>2, <1>3, <1>4, <1>6, <1>7, <1>8, <1>9, <1>10, Frames, Zenon
        DEF MatcherStep, EngineStep, vars

\* reserve_slot() and the release at the end of a job: every step keeps the number of
\* active slots equal to the busy ones and the one the manager reserved.
LEMMA SlotsStep ==
  ASSUME ExecType, WorkType, MatchType, JobInv, SlotsAccounted, Next PROVE SlotsAccounted'
<1> DEFINE held(d) == IF manager[d] \in {"send", "pop"} THEN 1 ELSE 0
<1>1. CASE UNCHANGED <<active, manager, step>>
  BY <1>1, Zenon DEF SlotsAccounted, Busy
<1>2. ASSUME NEW d \in Device,
             \A e \in Device : e # d => /\ active'[e] = active[e] /\ manager'[e] = manager[e]
                                        /\ step'[e] = step[e],
             active'[d] = Cardinality(Busy(d)') + held(d)', active'[d] <= Cardinality(Slot)
      PROVE  SlotsAccounted'
  <2>1. \A e \in Device : e # d => Busy(e)' = Busy(e)
    BY <1>2 DEF Busy
  <2> QED BY <1>2, <2>1 DEF SlotsAccounted
<1>3. ASSUME NEW d \in Device PROVE Cardinality(Slot) \in Nat /\ Cardinality(Busy(d)) <= Cardinality(Slot)
  BY FS_Subset, FS_CardinalityType, DispatchAssumption, SMTT(30) DEF Busy
<1>4. ASSUME NEW d \in Device, ManagerReserve(d) \/ ManagerSend(d) \/ ManagerInterrupted(d)
      PROVE  SlotsAccounted'
  <2>1. step' = step /\ Busy(d)' = Busy(d)
    BY <1>4 DEF ManagerReserve, ManagerSend, ManagerInterrupted, workVars, Busy
  <2>2. \A e \in Device : e # d => active'[e] = active[e] /\ manager'[e] = manager[e]
    BY <1>4 DEF ManagerReserve, ManagerSend, ManagerInterrupted, ExecType
  <2>3. active[d] = Cardinality(Busy(d)) + held(d) /\ active[d] <= Cardinality(Slot) /\ active[d] \in Nat
    BY DEF SlotsAccounted, ExecType
  <2>4. active'[d] = Cardinality(Busy(d)) + held(d)' /\ active'[d] <= Cardinality(Slot)
    <3>1. CASE ManagerReserve(d)
      <4>1. /\ manager[d] = "reserve"
            /\ \/ manager'[d] = "exited" /\ active'[d] = active[d]
               \/ manager'[d] = "send" /\ active'[d] = active[d] + 1 /\ active[d] < Cardinality(Slot)
        BY <3>1 DEF ManagerReserve, ExecType
      <4>2. Cardinality(Slot) \in Nat /\ Cardinality(Busy(d)) \in Nat
        BY <1>3, FS_CardinalityType, FS_Subset, DispatchAssumption DEF Busy
      <4> QED BY <2>3, <4>1, <4>2
    <3>2. CASE ManagerSend(d)
      BY <3>2, <2>3 DEF ManagerSend, ExecType
    <3>3. CASE ManagerInterrupted(d)
      <4>1. manager[d] = "pop" /\ manager'[d] = "exited" /\ active'[d] = active[d] - 1
        BY <3>3 DEF ManagerInterrupted, ExecType
      <4>2. Cardinality(Slot) \in Nat /\ Cardinality(Busy(d)) \in Nat
        BY <1>3, FS_CardinalityType, FS_Subset, DispatchAssumption DEF Busy
      <4> QED BY <2>3, <4>1, <4>2
    <3> QED BY <1>4, <3>1, <3>2, <3>3, SMTT(30)
  <2> QED BY <1>2, <2>1, <2>2, <2>4
<1>5. ASSUME NEW d \in Device, NEW s \in Slot, ManagerPop(d, s) PROVE SlotsAccounted'
  <2>1. Busy(d)' = Busy(d) \cup {s} /\ step[d][s] = "idle"
    BY <1>5 DEF ManagerPop, Busy, WorkType
  <2>2. \A e \in Device : e # d => manager'[e] = manager[e] /\ step'[e] = step[e]
    BY <1>5 DEF ManagerPop, ExecType, WorkType
  <2>3. active' = active /\ held(d) = 1 /\ held(d)' = 0
    BY <1>5 DEF ManagerPop, ExecType
  <2>4. active[d] = Cardinality(Busy(d)) + held(d) /\ active[d] <= Cardinality(Slot)
    BY DEF SlotsAccounted
  <2>5. Cardinality(Busy(d)') = Cardinality(Busy(d)) + 1 /\ Cardinality(Busy(d)) \in Nat
    BY <2>1, BusyFacts, Zenon
  <2> HIDE DEF held
  <2>6. active'[d] = Cardinality(Busy(d)') + held(d)' /\ active'[d] <= Cardinality(Slot)
    BY <2>3, <2>4, <2>5
  <2> QED BY <1>2, <2>2, <2>3, <2>6
<1>6. ASSUME NEW d \in Device, NEW s \in Slot, Settle(d, s) \/ OutOfMemory(d, s)
      PROVE  SlotsAccounted'
  <2>1. /\ step[d][s] # "idle" /\ UNCHANGED <<active, manager>>
        /\ step' = [step EXCEPT ![d][s] = "exit"] \/ step' = [step EXCEPT ![d][s] = "report"]
    <3>1. CASE Settle(d, s)
      BY <3>1, SettleFacts, Zenon DEF execVars
    <3>2. CASE OutOfMemory(d, s)
      BY <3>2 DEF OutOfMemory
    <3> QED BY <1>6, <3>1, <3>2
  <2>2. \A e \in Device : Busy(e)' = Busy(e)
    BY <2>1 DEF Busy, WorkType
  <2> QED BY <2>1, <2>2 DEF SlotsAccounted
<1>7. ASSUME NEW d \in Device, NEW s \in Slot, ReleaseSlot(d, s) PROVE SlotsAccounted'
  <2>1. Busy(d)' = Busy(d) \ {s} /\ step[d][s] # "idle"
    BY <1>7 DEF ReleaseSlot, Busy, WorkType
  <2>2. \A e \in Device : e # d => active'[e] = active[e] /\ step'[e] = step[e]
    BY <1>7 DEF ReleaseSlot, ExecType, WorkType
  <2>3. manager' = manager /\ held(d)' = held(d) /\ active'[d] = active[d] - 1
    BY <1>7 DEF ReleaseSlot, ExecType
  <2>4. active[d] = Cardinality(Busy(d)) + held(d) /\ active[d] <= Cardinality(Slot) /\ active[d] \in Nat
    BY DEF SlotsAccounted, ExecType
  <2>5. Cardinality(Busy(d)') = Cardinality(Busy(d)) - 1 /\ Cardinality(Busy(d)) \in Nat /\ held(d) \in Nat
    BY <2>1, BusyFacts, ZenonT(30)
  <2> HIDE DEF held
  <2>6. active'[d] = Cardinality(Busy(d)') + held(d)' /\ active'[d] <= Cardinality(Slot)
    BY <2>3, <2>4, <2>5, <1>3
  <2> QED BY <1>2, <2>2, <2>3, <2>6
<1>8. CASE RestartExecutor
  <2>1. /\ manager' = [manager EXCEPT ![Next_executor] = "reserve"]
        /\ manager[Next_executor] = "exited" /\ UNCHANGED <<active, step>>
    BY <1>8 DEF RestartExecutor, workVars
  <2>2. \A e \in Device : Busy(e)' = Busy(e) /\ held(e)' = held(e)
    BY <2>1 DEF Busy, ExecType
  <2> QED BY <2>1, <2>2, SMTT(30) DEF SlotsAccounted
<1>9. StartQuery \/ StopCreator \/ FutureReady \/ Quiesced \/ EndQuery \/ InterruptExecutor => UNCHANGED manager
  BY Zenon DEF StartQuery, StopCreator, FutureReady, Quiesced, EndQuery, InterruptExecutor, execVars
<1> QED BY <1>1, <1>4, <1>5, <1>6, <1>7, <1>8, <1>9, Frames, WorkerKinds, Zenon
        DEF EngineStep, ManagerStep, vars, execVars, workVars

\* A task on its way to a device either prefers that device or has no preference among the
\* existing ones.
HandBinding == matcher = "dispatch" /\ Pref[hand] \in Device => Pref[hand] = Next_device

\* pop_if() with the device's own tasks first, then with those that prefer none, keeps it.
LEMMA HandStep ==
  ASSUME MatchType, SchedType, HandBinding, Next PROVE HandBinding'
<1>1. CASE UNCHANGED <<matcher, hand, pass>>
  BY <1>1, Zenon DEF HandBinding, Next_device
<1>2. CASE AbsorbEvents \/ Dispatch
  <2>1. matcher' # "dispatch"
    BY <1>2 DEF AbsorbEvents, Dispatch, Advance
  <2> QED BY <2>1 DEF HandBinding
<1>3. CASE MatchExact
  <2>1. CASE PopIf({t \in Task : Pref[t] = Next_device})
    <3>1. Pref[hand'] = Next_device /\ pass' = pass
      BY <2>1, PopIfFacts
    <3> QED BY <3>1, Zenon DEF HandBinding, Next_device
  <2>2. CASE matcher' = "any"
    BY <2>2 DEF HandBinding
  <2> QED BY <1>3, <2>1, <2>2 DEF MatchExact
<1>4. CASE MatchAny
  <2>1. CASE PopIf({t \in Task : Pref[t] \notin Device})
    <3>1. Pref[hand'] \notin Device
      BY <2>1, PopIfFacts
    <3> QED BY <3>1, Zenon DEF HandBinding
  <2>2. CASE Advance
    BY <2>2 DEF HandBinding, Advance
  <2> QED BY <1>4, <2>1, <2>2 DEF MatchAny
<1> QED BY <1>1, <1>2, <1>3, <1>4, Frames, Zenon DEF MatcherStep, vars, matchVars

\* A task reaches only the device it prefers, through the queue, the worker and the retry
\* after it ran out of memory.
LEMMA PreferenceStep ==
  ASSUME ExecType, WorkType, MatchType, QueryType, JobInv, HandBinding, PreferenceIsBinding, Next
  PROVE  PreferenceIsBinding'
<1>1. ASSUME \A e \in Device, t \in Task :
               t \in ToSet(queue'[e]) => t \in ToSet(queue[e]) \/ (Pref[t] \in Device => Pref[t] = e),
             \A e \in Device, r \in Slot, t \in Task :
               job'[e][r] = t => job[e][r] = t \/ (Pref[t] \in Device => Pref[t] = e)
      PROVE  PreferenceIsBinding'
  BY <1>1 DEF PreferenceIsBinding
<1>2. CASE UNCHANGED <<queue, job>>
  BY <1>1, <1>2, SMTT(30)
<1>3. CASE Dispatch
  <2>1. hand \in Task /\ Next_device \in Device
    BY <1>3, NextDeviceFacts, SMTT(30) DEF Dispatch, MatchType
  <2>2. Pref[hand] \in Device => Pref[hand] = Next_device
    BY <1>3, SMTT(30) DEF Dispatch, HandBinding
  <2>3. /\ \A e \in Device : e # Next_device => queue'[e] = queue[e]
        /\ queue'[Next_device] \in {queue[Next_device], Append(queue[Next_device], hand)}
    BY <1>3, <2>1, OfferFacts, Zenon DEF Dispatch
  <2>4. ToSet(queue'[Next_device]) \subseteq ToSet(queue[Next_device]) \cup {hand}
    <3>1. queue[Next_device] \in Seq(Task)
      BY <2>1 DEF ExecType
    <3>2. ToSet(Append(queue[Next_device], hand)) = ToSet(queue[Next_device]) \cup {hand}
      BY <2>1, <3>1, AppendFacts
    <3> QED BY <2>3, <3>2, ZenonT(30)
  <2>5. job' = job
    BY <1>3, SMTT(30) DEF Dispatch, workVars
  <2> QED BY <1>1, <2>1, <2>2, <2>3, <2>4, <2>5, SMTT(30)
<1>4. ASSUME NEW d \in Device, NEW s \in Slot, ManagerPop(d, s) PROVE PreferenceIsBinding'
  <2>1. Head(queue[d]) \in ToSet(queue[d]) /\ ToSet(Tail(queue[d])) \subseteq ToSet(queue[d])
    BY <1>4, TailFacts, SMTT(30) DEF ManagerPop, ExecType
  <2>2. /\ queue'[d] = Tail(queue[d]) /\ \A e \in Device : e # d => queue'[e] = queue[e]
        /\ job'[d][s] = Head(queue[d])
        /\ \A e \in Device, r \in Slot : (e # d \/ r # s) => job'[e][r] = job[e][r]
    BY <1>4 DEF ManagerPop, ExecType, WorkType
  <2>3. \A t \in Task : t \in ToSet(queue[d]) => (Pref[t] \in Device => Pref[t] = d)
    BY SMTT(30) DEF PreferenceIsBinding
  <2> QED BY <1>1, <2>1, <2>2, <2>3, ZenonT(30)
<1>5. ASSUME NEW d \in Device, NEW s \in Slot, WorkerStep(d, s) PROVE PreferenceIsBinding'
  <2>1. job' = job \/ job' = [job EXCEPT ![d][s] = None]
    BY <1>5, WorkerKinds, SettleFacts, ZenonT(30) DEF OutOfMemory, ReleaseSlot
  <2>2. \A e \in Device, r \in Slot, t \in Task : job'[e][r] = t => job[e][r] = t
    BY <2>1, DispatchAssumption DEF WorkType
  <2>3. queue' = queue \/ (step[d][s] = "run" /\ queue' = Offer(d, job[d][s]))
    BY <1>5, WorkerKinds, SettleFacts, Zenon DEF OutOfMemory, ReleaseSlot, execVars
  <2>4. CASE queue' = queue
    BY <1>1, <2>2, <2>4
  <2>5. CASE step[d][s] = "run" /\ queue' = Offer(d, job[d][s])
    <3>1. job[d][s] \in Task
      BY <2>5 DEF JobInv, WorkType
    <3>2. /\ \A e \in Device : e # d => queue'[e] = queue[e]
          /\ queue'[d] \in {queue[d], Append(queue[d], job[d][s])}
      BY <2>5, <3>1, OfferFacts, Zenon
    <3>3. ToSet(queue'[d]) \subseteq ToSet(queue[d]) \cup {job[d][s]}
      <4>1. queue[d] \in Seq(Task)
        BY DEF ExecType
      <4>2. ToSet(Append(queue[d], job[d][s])) = ToSet(queue[d]) \cup {job[d][s]}
        BY <3>1, <4>1, AppendFacts
      <4> QED BY <3>2, <4>2, ZenonT(30)
    <3>4. Pref[job[d][s]] \in Device => Pref[job[d][s]] = d
      BY <3>1 DEF PreferenceIsBinding
    <3> QED BY <1>1, <2>2, <3>2, <3>3, <3>4
  <2> QED BY <2>3, <2>4, <2>5
<1>6. CASE (StartQuery \/ EngineStep) /\ UNCHANGED workVars
  <2>1. \/ queue' = queue
        \/ queue' = [d \in Device |-> <<>>]
        \/ queue' = [queue EXCEPT ![Next_executor] = <<>>]
    BY <1>6, Zenon DEF StartQuery, EngineStep, FutureReady, StopCreator, InterruptExecutor,
                       RestartExecutor, Quiesced, EndQuery, execVars
  <2>2. \A e \in Device : queue'[e] \in {queue[e], <<>>}
    BY <2>1 DEF ExecType
  <2>3. \A e \in Device : ToSet(queue'[e]) \subseteq ToSet(queue[e])
    BY <2>2 DEF ToSet
  <2> QED BY <1>1, <1>6, <2>3 DEF workVars
<1>7. AbsorbEvents \/ MatchExact \/ MatchAny => UNCHANGED execVars
  BY Zenon DEF AbsorbEvents, MatchExact, MatchAny
<1>8. ASSUME NEW d \in Device, ManagerReserve(d) \/ ManagerSend(d) \/ ManagerInterrupted(d)
      PROVE  UNCHANGED <<queue, job>>
  BY <1>8, Zenon DEF ManagerReserve, ManagerSend, ManagerInterrupted, workVars
<1> QED BY <1>2, <1>3, <1>4, <1>5, <1>6, <1>7, <1>8, Frames, Zenon
        DEF MatcherStep, ManagerStep, vars, execVars, workVars

\* An event for the queued task t is on its way: the wake-up is in the channel, or its
\* sender has still to send it.
Served(t) == Wake \in events \/ t \in waking

\* Unless tasks were borrowed: a queued task that a ready device outside the pass could
\* take has an event on its way, and so has one that the device of the pass was already
\* asked for.
MatchInv ==
  borrows = 0 =>
    /\ borrowed = {}
    /\ \A t \in ToSet(task_queue), d \in ready_devices \ pass :
         (Pref[t] = d \/ Pref[t] \notin Device) => Served(t)
    /\ matcher = "any" => \A t \in ToSet(task_queue) : Pref[t] = Next_device => Served(t)

\* Every step keeps it: a push is followed by its wake-up, a ready device joins the next
\* pass, a pass ends when every ready device was asked for both kinds of tasks.
LEMMA MatchStep ==
  ASSUME MatchType, SchedType, MatchInv, Next PROVE MatchInv'
<1>1. ASSUME UNCHANGED <<borrows, borrowed, ready_devices, pass, matcher>>,
             \A t \in ToSet(task_queue') : Served(t)' \/ (t \in ToSet(task_queue) /\ ~Served(t))
      PROVE  MatchInv'
  <2>1. Next_device' = Next_device
    BY <1>1, ZenonT(30) DEF Next_device
  <2> QED BY <1>1, <2>1 DEF MatchInv
<1>2. CASE UNCHANGED <<borrows, borrowed, ready_devices, pass, matcher, task_queue, events, waking>>
  BY <1>1, <1>2, SMTT(30) DEF Served
<1>3. ASSUME NEW t \in Task, SchedulePush(t) PROVE MatchInv'
  <2>1. ToSet(task_queue') = ToSet(task_queue) \cup {t}
    BY <1>3, AppendFacts, SMTT(30) DEF SchedulePush, SchedType
  <2> QED BY <1>1, <1>3, <2>1, SMTT(30) DEF SchedulePush, Served, matchVars
<1>4. ASSUME NEW t \in Task, ScheduleWake(t) PROVE MatchInv'
  BY <1>1, <1>4, SMTT(30) DEF ScheduleWake, Served
<1>5. ASSUME NEW t \in Task, ReturnBorrowed(t) PROVE MatchInv'
  BY <1>5 DEF ReturnBorrowed, MatchInv
<1>6. ASSUME NEW i \in DOMAIN task_queue, Borrow(i) PROVE MatchInv'
  <2>1. borrows' # 0
    BY <1>6 DEF Borrow, SchedType
  <2> QED BY <2>1 DEF MatchInv
<1>7. CASE AbsorbEvents
  <2>1. ready_devices' \ pass' = {} /\ matcher' # "any" /\ UNCHANGED <<borrows, borrowed>>
    BY <1>7 DEF AbsorbEvents, schedVars
  <2> QED BY <2>1 DEF MatchInv
<1>8. ASSUME NEW S, PopIf(S), UNCHANGED <<events, ready_devices, waking, borrowed, borrows>>
      PROVE  MatchInv'
  <2>1. ToSet(task_queue') \subseteq ToSet(task_queue) /\ matcher' = "dispatch" /\ pass' = pass
    BY <1>8, PopIfFacts
  <2> QED BY <1>8, <2>1 DEF MatchInv, Served
<1>9. CASE MatchExact
  <2> DEFINE S == {t \in Task : Pref[t] = Next_device}
  <2>1. UNCHANGED <<events, ready_devices, waking, borrowed, borrows>>
    BY <1>9 DEF MatchExact
  <2>2. CASE Miss(S) /\ matcher' = "any" /\ UNCHANGED pass
    <3>1. Next_device' = Next_device
      BY <2>2, Zenon DEF Next_device
    <3>2. ToSet(task_queue) \subseteq Task
      BY DEF SchedType, ToSet
    <3>3. \A t \in ToSet(task_queue) : Pref[t] # Next_device
      BY <2>2, <3>2 DEF Miss
    <3> QED BY <2>1, <2>2, <3>1, <3>3 DEF MatchInv, Served, Miss
  <2> QED BY <1>8, <1>9, <2>1, <2>2 DEF MatchExact
<1>10. CASE MatchAny
  <2> DEFINE S == {t \in Task : Pref[t] \notin Device}
  <2>1. UNCHANGED <<events, ready_devices, waking, borrowed, borrows>> /\ matcher = "any"
    BY <1>10 DEF MatchAny
  <2>2. CASE Miss(S) /\ Advance
    <3>1. pass' = pass \ {Next_device} /\ matcher' # "any"
      BY <2>2 DEF Advance
    <3>2. ToSet(task_queue) \subseteq Task
      BY DEF SchedType, ToSet
    <3>3. \A t \in ToSet(task_queue) : Pref[t] \in Device
      BY <2>2, <3>2 DEF Miss
    <3>4. ready_devices' \ pass' \subseteq (ready_devices \ pass) \cup {Next_device}
      BY <2>1, <3>1
    <3> QED BY <2>1, <2>2, <3>1, <3>3, <3>4 DEF MatchInv, Served, Miss
  <2> QED BY <1>8, <1>10, <2>1, <2>2 DEF MatchAny
<1>11. CASE Dispatch
  <2>1. /\ ready_devices' \ pass' \subseteq ready_devices \ pass /\ matcher' # "any"
        /\ UNCHANGED <<events, borrows, borrowed, task_queue, waking>>
    BY <1>11 DEF Dispatch, Advance, schedVars
  <2> QED BY <2>1 DEF MatchInv, Served
<1>12. ASSUME NEW d \in Device, ManagerStep(d),
              UNCHANGED <<schedVars, ready_devices, matcher, pass, hand>>
       PROVE  MatchInv'
  <2>1. events \subseteq events'
    BY <1>12, Zenon DEF ManagerStep, ManagerReserve, ManagerSend, ManagerPop, ManagerInterrupted,
       matchVars
  <2> QED BY <1>1, <1>12, <2>1 DEF Served, schedVars
<1>13. ASSUME StartQuery \/ EngineStep, UNCHANGED <<matchVars, born, waking, borrowed, borrows>>
       PROVE  MatchInv'
  <2>1. task_queue' = <<>> \/ UNCHANGED task_queue
    BY <1>13, Zenon DEF StartQuery, EngineStep, FutureReady, StopCreator, InterruptExecutor,
                       RestartExecutor, Quiesced, EndQuery, schedVars
  <2>2. ToSet(task_queue') \subseteq ToSet(task_queue)
    BY <2>1 DEF ToSet
  <2> QED BY <1>1, <1>13, <2>2 DEF Served, matchVars
<1> QED BY <1>2, <1>3, <1>4, <1>5, <1>6, <1>7, <1>9, <1>10, <1>11, <1>12, <1>13, Frames, Zenon
        DEF SchedStep, MatcherStep, vars, matchVars, schedVars

\* After a step a waiting manager is known to the scheduler, unless it waited unknown before.
Kept == \A d \in Device : Waits(d)' => Expected(d)' \/ (Waits(d) /\ ~Expected(d))

\* Every step but the start of a query keeps a waiting manager known to the scheduler: its
\* device is ready, its signal is in the channel, or a task is on its way to it.
LEMMA WaitingStep ==
  ASSUME MatchType, ExecType, WorkType, JobInv, Next, ~StartQuery
  PROVE  Kept
<1>1. ASSUME \A d \in Device : Waits(d)' => Expected(d)' \/ (Waits(d) /\ ~Expected(d))
      PROVE  Kept
  BY <1>1 DEF Kept
<1>2. ASSUME UNCHANGED matchVars PROVE \A d \in Device : Expected(d)' = Expected(d)
  BY <1>2, ZenonT(30) DEF matchVars, Next_device, Expected
<1>3. CASE UNCHANGED <<matchVars, execVars>>
  <2>1. \A d \in Device : Waits(d)' = Waits(d)
    BY <1>3, Zenon DEF Waits, execVars
  <2> QED BY <1>1, <1>2, <1>3, <2>1
<1>4. ASSUME UNCHANGED execVars, \A d \in Device : Expected(d) => Expected(d)'
      PROVE  Kept
  <2>1. \A d \in Device : Waits(d)' = Waits(d)
    BY <1>4, Zenon DEF Waits, execVars
  <2> QED BY <1>1, <1>4, <2>1
<1>5. CASE SchedStep /\ UNCHANGED <<execVars, ready_devices, matcher, pass, hand>>
  <2>1. events \subseteq events'
    BY <1>5, ZenonT(30) DEF SchedStep, SchedulePush, ScheduleWake, ReturnBorrowed, Borrow, matchVars
  <2> QED BY <1>4, <1>5, <2>1, SMTT(30) DEF Expected, Next_device
<1>6. CASE AbsorbEvents
  <2>1. \A d \in Device : d \in events \ {Wake} \/ d \notin events
    BY DispatchAssumption
  <2> QED BY <1>4, <1>6, <2>1, SMTT(30) DEF Expected, AbsorbEvents
<1>7. CASE MatchExact \/ MatchAny
  <2>1. UNCHANGED <<execVars, ready_devices, events>> /\ matcher # "dispatch"
    BY <1>7 DEF MatchExact, MatchAny
  <2> QED BY <1>4, <2>1, SMTT(30) DEF Expected
<1>8. CASE Dispatch
  <2>1. hand \in Task /\ Next_device \in Device
    BY <1>8, NextDeviceFacts DEF Dispatch, MatchType
  <2>2. PICK n \in Device : n = Next_device
    BY <2>1
  <2>3. /\ \A e \in Device : e # n => queue'[e] = queue[e]
        /\ queue'[n] = IF open[n] THEN Append(queue[n], hand) ELSE queue[n]
    BY <1>8, <2>1, <2>2, OfferFacts, SMTT(30) DEF Dispatch
  <2>4. /\ open' = open /\ manager' = manager /\ events' = events
        /\ ready_devices' = ready_devices \ {n} /\ matcher = "dispatch"
    BY <1>8, <2>2, SMTT(30) DEF Dispatch
  <2>5. ~Waits(n)'
    <3>1. queue[n] \in Seq(Task)
      BY DEF ExecType
    <3>2. Append(queue[n], hand) # <<>>
      BY <2>1, <3>1, AppendedSeq, SMTT(30)
    <3> QED BY <2>3, <2>4, <3>2, SMTT(30) DEF Waits
  <2>6. ASSUME NEW d \in Device, d # n PROVE Waits(d)' => Expected(d)' \/ (Waits(d) /\ ~Expected(d))
    BY <2>2, <2>3, <2>4, <2>6 DEF Waits, Expected
  <2>7. \A d \in Device : Waits(d)' => Expected(d)' \/ (Waits(d) /\ ~Expected(d))
    BY <2>5, <2>6, Zenon
  <2> QED BY <1>1, <2>7, SMTT(30)
<1>9. ASSUME NEW d \in Device, ManagerStep(d), UNCHANGED <<ready_devices, matcher, pass, hand, open>>
      PROVE  Kept
  <2>1. events \subseteq events' /\ \A e \in Device : Expected(e) => Expected(e)'
    <3>1. events \subseteq events'
      BY <1>9, ZenonT(30) DEF ManagerStep, ManagerReserve, ManagerSend, ManagerPop, ManagerInterrupted,
         matchVars
    <3> QED BY <1>9, <3>1 DEF Expected, Next_device
  <2>2. \A e \in Device : e # d => (Waits(e)' => Waits(e))
    <3>1. \A e \in Device : e # d => manager'[e] = manager[e] /\ queue'[e] = queue[e]
      BY <1>9 DEF ManagerStep, ManagerReserve, ManagerSend, ManagerPop, ManagerInterrupted, ExecType
    <3> QED BY <1>9, <3>1, SMTT(30) DEF Waits
  <2>3. Waits(d)' => Expected(d)'
    <3>1. CASE ManagerSend(d)
      BY <3>1 DEF ManagerSend, Expected
    <3>2. CASE ~ManagerSend(d)
      <4>1. manager'[d] # "pop"
        BY <1>9, <3>2, SMTT(30) DEF ManagerStep, ManagerReserve, ManagerPop, ManagerInterrupted, ExecType
      <4> QED BY <4>1, SMTT(30) DEF Waits
    <3> QED BY <3>1, <3>2
  <2> QED BY <1>1, <2>1, <2>2, <2>3
<1>10. ASSUME NEW d \in Device, NEW s \in Slot, WorkerStep(d, s), UNCHANGED <<matchVars, open, paused, manager>>
       PROVE  Kept
  <2>1. \A e \in Device : queue'[e] = <<>> => queue[e] = <<>>
    <3>1. queue' = queue \/ (queue' = Offer(d, job[d][s]) /\ step[d][s] = "run")
      BY <1>10, WorkerKinds, SettleFacts, Zenon DEF OutOfMemory, ReleaseSlot, execVars
    <3>2. CASE queue' = Offer(d, job[d][s]) /\ step[d][s] = "run"
      <4>1. job[d][s] \in Task
        BY <3>2 DEF JobInv, WorkType
      <4>2. queue[d] \in Seq(Task)
        BY DEF ExecType
      <4>3. Append(queue[d], job[d][s]) # <<>>
        BY <4>1, <4>2, AppendedSeq, SMTT(30)
      <4>4. /\ \A e \in Device : e # d => queue'[e] = queue[e]
            /\ queue'[d] \in {queue[d], Append(queue[d], job[d][s])}
        BY <3>2, <4>1, OfferFacts, Zenon
      <4> QED BY <4>3, <4>4
    <3> QED BY <3>1, <3>2
  <2> QED BY <1>1, <1>2, <1>10, <2>1, ZenonT(30) DEF Waits
<1>11. CASE InterruptExecutor
  <2>1. UNCHANGED <<queue, manager, matchVars>> /\ \A e \in Device : open'[e] => open[e]
    BY <1>11 DEF InterruptExecutor, ExecType
  <2> QED BY <1>1, <1>2, <2>1 DEF Waits
<1>12. CASE RestartExecutor
  <2>1. /\ UNCHANGED matchVars
        /\ \A e \in Device : e # Next_executor => /\ open'[e] = open[e] /\ manager'[e] = manager[e]
                                                  /\ queue'[e] = queue[e]
        /\ Next_executor \in Device => manager'[Next_executor] # "pop"
    BY <1>12 DEF RestartExecutor, ExecType
  <2> QED BY <1>1, <1>2, <2>1, SMTT(30) DEF Waits
<1>13. StopCreator \/ FutureReady \/ Quiesced \/ EndQuery => UNCHANGED <<matchVars, execVars>>
  BY Zenon DEF StopCreator, FutureReady, Quiesced, EndQuery
<1> QED BY <1>3, <1>5, <1>6, <1>7, <1>8, <1>9, <1>10, <1>11, <1>12, <1>13, Frames, Zenon
        DEF MatcherStep, EngineStep, vars

\* The inductive invariant.
DispatchInv ==
  /\ QueryType /\ SchedType /\ MatchType /\ ExecType /\ WorkType
  /\ JobInv /\ SlotsAccounted /\ HandBinding /\ PreferenceIsBinding /\ MatchInv

\* The invariant holds at the start,
LEMMA DispatchInit == Init => DispatchInv
<1> SUFFICES ASSUME Init PROVE DispatchInv
  OBVIOUS
<1> USE DispatchAssumption
<1>1. QueryType
  <2>1. engine = "idle" /\ query = 0 /\ mode = "validate" /\ left = {}
    BY DEF Init
  <2>2. failed \in BOOLEAN /\ creating \in BOOLEAN
    BY Zenon DEF Init
  <2>3. query \in 0 .. MaxQuery
    BY <2>1
  <2> QED BY <2>1, <2>2, <2>3, Zenon DEF QueryType
<1>2. SchedType
  BY EmptyIsShort DEF SchedType, Init
<1>3. MatchType
  BY DEF MatchType, Init
<1>4. ExecType
  <2>1. queue \in [Device -> Seq(Task)]
    BY EmptyIsShort DEF Init
  <2>2. /\ open \in [Device -> BOOLEAN] /\ paused \in [Device -> BOOLEAN]
    BY Zenon DEF Init
  <2>3. active \in [Device -> Nat] /\ manager \in [Device -> {"reserve", "send", "pop", "exited"}]
    BY DEF Init
  <2> QED BY <2>1, <2>2, <2>3, ZenonT(30) DEF ExecType
<1>5. WorkType
  <2>1. job \in [Device -> [Slot -> Task \cup {None}]]
    BY DEF Init
  <2>2. step \in [Device -> [Slot -> {"idle", "run", "report", "exit"}]]
    BY DEF Init
  <2>3. retries \in [Task -> 0 .. MaxRetry] /\ done \subseteq Task /\ ooms \in Nat
    BY SMTT(30) DEF Init
  <2> QED BY <2>1, <2>2, <2>3, Zenon DEF WorkType
<1>6. JobInv
  BY DEF JobInv, Init
<1>7. SlotsAccounted
  <2>1. \A d \in Device : Busy(d) = {}
    BY DEF Busy, Init
  <2>2. Cardinality({}) = 0 /\ Cardinality(Slot) \in Nat
    BY FS_EmptySet, FS_CardinalityType
  <2>3. \A d \in Device : active[d] = 0 /\ manager[d] = "reserve"
    BY DEF Init
  <2> QED BY <2>1, <2>2, <2>3 DEF SlotsAccounted
<1>8. HandBinding /\ MatchInv
  BY DEF HandBinding, MatchInv, Init
<1>9. PreferenceIsBinding
  BY DEF PreferenceIsBinding, ToSet, Init
<1> QED BY <1>1, <1>2, <1>3, <1>4, <1>5, <1>6, <1>7, <1>8, <1>9 DEF DispatchInv

\* ... and every step keeps it.
LEMMA DispatchStep == DispatchInv /\ [Next]_vars => DispatchInv'
<1> SUFFICES ASSUME DispatchInv, [Next]_vars PROVE DispatchInv'
  OBVIOUS
<1>1. CASE Next
  BY <1>1, QueryTypeStep, SchedTypeStep, MatchTypeStep, ExecTypeStep, WorkTypeStep, SlotsStep,
     HandStep, PreferenceStep, MatchStep DEF DispatchInv
<1>2. CASE UNCHANGED vars
  <2>1. QueryType' /\ SchedType' /\ MatchType' /\ ExecType' /\ WorkType'
    BY <1>2, GroupsKept DEF DispatchInv, vars
  <2>2. JobInv' /\ SlotsAccounted' /\ HandBinding' /\ PreferenceIsBinding' /\ MatchInv'
    <3>1. JobInv' /\ SlotsAccounted' /\ PreferenceIsBinding'
      BY <1>2, Zenon DEF DispatchInv, vars, execVars, workVars, JobInv, SlotsAccounted, Busy,
                         PreferenceIsBinding
    <3>2. HandBinding'
      BY <1>2, Zenon DEF DispatchInv, vars, matchVars, HandBinding, Next_device
    <3>3. MatchInv'
      BY <1>2, Zenon DEF DispatchInv, vars, matchVars, schedVars, MatchInv, Served, Next_device
    <3> QED BY <3>1, <3>2, <3>3
  <2> QED BY <2>1, <2>2 DEF DispatchInv
<1> QED BY <1>1, <1>2

\* ... so that it always holds.
THEOREM DispatchInvariant == Spec => []DispatchInv
BY DispatchInit, DispatchStep, PTL DEF Spec

\* Every variable keeps its type.
THEOREM DispatchTypes == Spec => []TypeOK
<1>1. DispatchInv => TypeOK
  BY TypeGroups DEF DispatchInv
<1> QED BY <1>1, DispatchInvariant, PTL

\* reserve_slot(), the manager loop and the end of a job: the executor never has more jobs
\* than slots, and a reserved slot is never lost, through interrupts, drains and failures,
\* for any number of slots and devices.
THEOREM PoolIsAccounted == Spec => []SlotsAccounted
<1>1. DispatchInv => SlotsAccounted
  BY DEF DispatchInv
<1> QED BY <1>1, DispatchInvariant, PTL

\* management_eventloop(): a task that prefers an existing device is queued and run on that
\* device only, whatever the preferences, the devices and the retries are.
THEOREM PreferencesBind == Spec => []PreferenceIsBinding
<1>1. DispatchInv => PreferenceIsBinding
  BY SMTT(30) DEF DispatchInv
<1> QED BY <1>1, DispatchInvariant, PTL

\* schedule() and management_eventloop(): when the management thread blocks and no event is
\* on its way, no ready device is left without a queued task it could run, unless tasks
\* were borrowed.
THEOREM MatchesAreMade == Spec => []NoMissedMatch
<1>1. DispatchInv => NoMissedMatch
  BY DEF DispatchInv, MatchInv, MatchType, NoMissedMatch, Served
<1> QED BY <1>1, DispatchInvariant, PTL

\* manager_loop(): no step leaves a manager waiting for a task the scheduler does not know
\* of, for any devices, failures, retries and borrowed tasks, but a prepare_for_query() that
\* drops a task dispatched to the device.
THEOREM DevicesAreKept == Spec => DeviceIsForgottenOnlyByStart
<1> DEFINE Forgets == \A d \in Device : Waits(d)' /\ ~Expected(d)' /\ (Waits(d) => Expected(d))
                        => engine = "idle" /\ engine' = "running" /\ queue[d] # <<>>
<1>1. ASSUME DispatchInv, Next PROVE Forgets
  <2>1. CASE StartQuery
    <3>1. /\ engine = "idle" /\ engine' = "running" /\ manager' = manager /\ open' = open
          /\ UNCHANGED matchVars
      BY <2>1, Zenon DEF StartQuery
    <3>2. \A d \in Device : Expected(d)' = Expected(d)
      BY <3>1, ZenonT(30) DEF matchVars, Next_device, Expected
    <3> QED BY <3>1, <3>2, Zenon DEF Waits
  <2>2. CASE ~StartQuery
    BY <1>1, <2>2, WaitingStep, Zenon DEF DispatchInv, Kept
  <2> QED BY <2>1, <2>2
<1>2. DispatchInv /\ [Next]_vars => [Forgets]_vars
  BY <1>1
<1> QED BY <1>2, DispatchInvariant, PTL DEF Spec, DeviceIsForgottenOnlyByStart
=============================================================================
