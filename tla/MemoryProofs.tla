--------------------------- MODULE MemoryProofs ---------------------------
(***************************************************************************)
(* Proofs about what happens to tasks when memory runs out: a task that    *)
(* fails is rescheduled and resumed (TaskResume), and the downgrade        *)
(* executor borrows queued tasks to move their batches off the device      *)
(* (Downgrade). They hold for any number of tasks, operators, workers,     *)
(* requests and faults.                                                    *)
(*                                                                         *)
(* BorrowingSound counts the places a task is in and looks at the jobs of  *)
(* the pool, which is not inductive. DgInv adds what processing_loop holds *)
(* between taking a task out of the queue and giving it to the pool, that  *)
(* every job belongs to the request being served, in which state a request *)
(* is while it is queued or served, and that an unanswered reservation     *)
(* request has its worker waiting.                                         *)
(***************************************************************************)
EXTENDS TaskResume, Downgrade, TLAPS

\* A sequence of anything.
IsSeq(s) == \E S : s \in Seq(S)

\* A queue without its element at position i, as BorrowTask and IoDone leave it.
Without(s, i) == SubSeq(s, 1, i - 1) \o SubSeq(s, i + 1, Len(s))

\* Append.
LEMMA AppendFacts ==
  ASSUME NEW S, NEW s \in Seq(S), NEW x \in S
  PROVE  /\ Append(s, x) \in Seq(S) /\ Len(Append(s, x)) = Len(s) + 1
         /\ \A i \in 1 .. Len(s) : Append(s, x)[i] = s[i]
         /\ Append(s, x)[Len(s) + 1] = x
OBVIOUS

\* Head and Tail.
LEMMA TailFacts ==
  ASSUME NEW S, NEW s \in Seq(S), s # <<>>
  PROVE  /\ Head(s) \in S /\ Head(s) = s[1] /\ Len(s) > 0
         /\ Tail(s) \in Seq(S) /\ Len(Tail(s)) = Len(s) - 1
         /\ \A i \in 1 .. Len(s) - 1 : Tail(s)[i] = s[i + 1]
OBVIOUS

\* SubSeq.
LEMMA SubSeqFacts ==
  ASSUME NEW S, NEW s \in Seq(S), NEW m \in 1 .. Len(s) + 1, NEW n \in m - 1 .. Len(s)
  PROVE  /\ SubSeq(s, m, n) \in Seq(S) /\ Len(SubSeq(s, m, n)) = n - m + 1
         /\ \A i \in 1 .. n - m + 1 : SubSeq(s, m, n)[i] = s[m + i - 1]
OBVIOUS

\* Concatenation.
LEMMA ConcatFacts ==
  ASSUME NEW S, NEW s \in Seq(S), NEW t \in Seq(S)
  PROVE  /\ s \o t \in Seq(S) /\ Len(s \o t) = Len(s) + Len(t)
         /\ \A i \in 1 .. Len(s) + Len(t) : (s \o t)[i] = IF i <= Len(s) THEN s[i] ELSE t[i - Len(s)]
         /\ s \o <<>> = s
OBVIOUS

\* up says at which position of s the elements of u were: at every position but i.
Shifted(u, s, i, up) ==
    /\ \A k \in DOMAIN u : up[k] \in DOMAIN s /\ up[k] # i /\ u[k] = s[up[k]]
    /\ \A j, k \in DOMAIN u : up[j] = up[k] => j = k
    /\ \A m \in DOMAIN s : m # i => \E k \in DOMAIN u : up[k] = m

\* Removing one position keeps the other elements, each at one position.
LEMMA OneRemoved ==
  ASSUME NEW S, NEW s \in Seq(S), NEW i \in DOMAIN s, NEW u, u = Without(s, i)
  PROVE  /\ u \in Seq(S)
         /\ \E up : Shifted(u, s, i, up)
<1> DEFINE a == SubSeq(s, 1, i - 1)
           b == SubSeq(s, i + 1, Len(s))
<1>1. i \in 1 .. Len(s) /\ Len(s) \in Nat /\ DOMAIN s = 1 .. Len(s)
  OBVIOUS
<1>2. a \in Seq(S) /\ Len(a) = i - 1 /\ \A j \in 1 .. i - 1 : a[j] = s[j]
  BY <1>1, SubSeqFacts
<1>3. b \in Seq(S) /\ Len(b) = Len(s) - i /\ \A j \in 1 .. Len(s) - i : b[j] = s[i + j]
  <2>1. i + 1 \in 1 .. Len(s) + 1 /\ Len(s) \in (i + 1) - 1 .. Len(s)
    BY <1>1
  <2>2. /\ b \in Seq(S) /\ Len(b) = Len(s) - (i + 1) + 1
        /\ \A j \in 1 .. Len(s) - (i + 1) + 1 : b[j] = s[(i + 1) + j - 1]
    BY <2>1, SubSeqFacts, Zenon
  <2> QED BY <1>1, <2>2
<1>4. u = a \o b
  BY DEF Without
<1> HIDE DEF a, b
<1>5. /\ u \in Seq(S) /\ Len(u) = Len(a) + Len(b)
      /\ \A j \in 1 .. Len(a) + Len(b) : u[j] = IF j <= Len(a) THEN a[j] ELSE b[j - Len(a)]
  <2>1. /\ a \o b \in Seq(S) /\ Len(a \o b) = Len(a) + Len(b)
        /\ \A j \in 1 .. Len(a) + Len(b) : (a \o b)[j] = IF j <= Len(a) THEN a[j] ELSE b[j - Len(a)]
    BY <1>2, <1>3, ConcatFacts, Zenon
  <2> QED BY <1>4, <2>1, Zenon
<1>6. Len(u) = Len(s) - 1 /\ DOMAIN u = 1 .. Len(s) - 1
  BY <1>1, <1>2, <1>3, <1>5
<1>7. ASSUME NEW j \in 1 .. Len(s) - 1
      PROVE  u[j] = IF j < i THEN s[j] ELSE s[j + 1]
  <2>1. CASE j < i
    BY <2>1, <1>1, <1>2, <1>5, <1>6
  <2>2. CASE ~(j < i)
    <3>1. j - Len(a) \in 1 .. Len(s) - i /\ i + (j - Len(a)) = j + 1
      BY <2>2, <1>1, <1>2
    <3>2. u[j] = b[j - Len(a)]
      BY <2>2, <1>1, <1>2, <1>5, <1>6
    <3> QED BY <2>2, <3>1, <3>2, <1>3
  <2> QED BY <2>1, <2>2
<1>8. PICK up : up = [k \in 1 .. Len(s) - 1 |-> IF k < i THEN k ELSE k + 1]
  BY Zenon
<1>9. \A k \in DOMAIN u : up[k] \in DOMAIN s /\ up[k] # i /\ u[k] = s[up[k]]
  BY <1>1, <1>6, <1>7, <1>8
<1>10. \A j, k \in DOMAIN u : up[j] = up[k] => j = k
  BY <1>1, <1>6, <1>8
<1>11. ASSUME NEW m \in DOMAIN s, m # i PROVE \E k \in DOMAIN u : up[k] = m
  <2>1. CASE m < i
    BY <1>1, <1>6, <1>8, <2>1
  <2>2. CASE m > i
    <3>1. m - 1 \in DOMAIN u /\ up[m - 1] = m
      BY <1>1, <1>6, <1>8, <2>2
    <3> QED BY <3>1, Zenon
  <2> QED BY <1>1, <1>11, <2>1, <2>2
<1>12. Shifted(u, s, i, up)
  BY <1>9, <1>10, <1>11, Zenon DEF Shifted
<1> QED BY <1>5, <1>12, Zenon

-----------------------------------------------------------------------------
(*****************************************************************************)
(* Tasks that are resumed after running out of memory                        *)
(* (pipeline/gpu_pipeline_task.cpp). The data of a task is what the          *)
(* operators before its index made of its input.                             *)
(*****************************************************************************)
\* The functions of the model have their domains and ranges.
RsType ==
  /\ rsat \in [RsTasks -> {"queued", "prepare", "run", "published", "dropped"}]
  /\ rsindex \in [RsTasks -> Nat]
  /\ rsdata \in [RsTasks -> Seq(Nat)]
  /\ rslocked \in [RsTasks -> BOOLEAN]

\* The data of a task went through the operators before its index, in order and once each;
\* a published task has no operator left; a task in the queue holds no lock.
ResumeInv ==
  /\ RsType
  /\ \A t \in RsTasks :
        /\ rsindex[t] <= RsOperators
        /\ rsdata[t] = [i \in 1 .. rsindex[t] |-> i - 1]
        /\ rsat[t] = "published" => rsindex[t] = RsOperators
        /\ rsat[t] = "queued" => ~rslocked[t]

\* Applying operator n to what the first n operators made extends the sequence by one.
LEMMA NextOperator ==
  ASSUME NEW n \in Nat, NEW s, s = [i \in 1 .. n |-> i - 1]
  PROVE  Append(s, n) = [i \in 1 .. n + 1 |-> i - 1]
<1>1. s \in Seq(Nat) /\ Len(s) = n
  BY SMTT(30)
<1>2. /\ Append(s, n) \in Seq(Nat) /\ Len(Append(s, n)) = n + 1
      /\ \A i \in 1 .. n : Append(s, n)[i] = i - 1
      /\ Append(s, n)[n + 1] = n
  BY <1>1, AppendFacts, SMTT(30)
<1> QED BY <1>2

\* A task that is rescheduled at the index it had, with the data it had, keeps the
\* invariant: it is queued again without its locks, or it is dropped.
LEMMA RescheduleKeeps ==
  ASSUME ResumeInv, NEW t \in RsTasks, Reschedule(t, rsindex[t]), UNCHANGED rsdata
  PROVE  ResumeInv'
<1>1. rsindex' = rsindex
  BY DEF Reschedule, ResumeInv, RsType
<1>2. /\ rsat' \in [RsTasks -> {"queued", "prepare", "run", "published", "dropped"}]
      /\ \A u \in RsTasks \ {t} : rsat'[u] = rsat[u]
      /\ rsat'[t] \in {"queued", "dropped"}
  BY Zenon DEF Reschedule, ResumeInv, RsType
<1>3. rslocked' = [rslocked EXCEPT ![t] = FALSE]
  BY DEF Reschedule, LocksKept
<1>4. /\ rslocked' \in [RsTasks -> BOOLEAN] /\ rslocked'[t] = FALSE
      /\ \A u \in RsTasks \ {t} : rslocked'[u] = rslocked[u]
  BY <1>3 DEF ResumeInv, RsType
<1> QED BY <1>1, <1>2, <1>4, Zenon DEF ResumeInv, RsType

\* gpu_pipeline_task::execute() and the out-of-memory handler: however often a task runs
\* out of memory, in the preparation of its input or in any operator, what it publishes
\* went through every operator once and in order, and a task that waits has released its
\* locks. The hypothesis ResumedOom = FALSE says that the preparation of a task that
\* already resumed does not fail: there the code restarts at operator 0 with the
\* intermediate data, as the README shows.
THEOREM ResumedTasksAreExact ==
  ASSUME RsOperators \in Nat, ResumedOom = FALSE
  PROVE  RsSpec => []ResumeSound
<1>1. RsInit => ResumeInv
  <2>1. <<>> = [i \in 1 .. 0 |-> i - 1]
    OBVIOUS
  <2> QED BY <2>1 DEF RsInit, ResumeInv, RsType
<1>2. ResumeInv /\ [RsNext]_rsvars => ResumeInv'
  <2> SUFFICES ASSUME ResumeInv, [RsNext]_rsvars PROVE ResumeInv'
    BY SMTT(30)
  <2>1. CASE UNCHANGED rsvars
    BY <2>1, SMTT(30) DEF rsvars, ResumeInv, RsType
  <2>2. ASSUME NEW t \in RsTasks, RsTake(t) PROVE ResumeInv'
    BY <2>2, SMTT(30) DEF RsTake, ResumeInv, RsType
  <2>3. ASSUME NEW t \in RsTasks, RsDowngrade(t) PROVE ResumeInv'
    BY <2>3, SMTT(30) DEF RsDowngrade, ResumeInv, RsType
  <2>4. ASSUME NEW t \in RsTasks, RsPrepare(t) PROVE ResumeInv'
    BY <2>4, SMTT(30) DEF RsPrepare, ResumeInv, RsType
  <2>5. ASSUME NEW t \in RsTasks, RsPrepareOom(t) PROVE ResumeInv'
    <3>1. rsindex[t] = 0
      BY <2>5, SMTT(30) DEF RsPrepareOom
    <3> QED BY <2>5, <3>1, RescheduleKeeps, ZenonT(30) DEF RsPrepareOom
  <2>6. ASSUME NEW t \in RsTasks, RsOperator(t) PROVE ResumeInv'
    <3>1. rsindex[t] \in Nat /\ rsindex[t] < RsOperators
      BY <2>6 DEF RsOperator, ResumeInv, RsType
    <3>2. /\ rsindex' \in [RsTasks -> Nat] /\ rsindex'[t] = rsindex[t] + 1
          /\ \A u \in RsTasks \ {t} : rsindex'[u] = rsindex[u]
      BY <2>6, <3>1, SMTT(30) DEF RsOperator, ResumeInv, RsType
    <3>3. rsdata[t] = [i \in 1 .. rsindex[t] |-> i - 1]
      BY SMTT(30) DEF ResumeInv
    <3>4. Append(rsdata[t], rsindex[t]) = [i \in 1 .. rsindex[t] + 1 |-> i - 1]
      BY <3>1, <3>3, NextOperator, SMTT(30)
    <3>5. /\ rsdata'[t] = [i \in 1 .. rsindex'[t] |-> i - 1]
          /\ rsdata' \in [RsTasks -> Seq(Nat)]
          /\ \A u \in RsTasks \ {t} : rsdata'[u] = rsdata[u]
      <4>1. Append(rsdata[t], rsindex[t]) \in Seq(Nat)
        BY <3>1, SMTT(30) DEF ResumeInv, RsType
      <4> QED BY <2>6, <3>2, <3>4, <4>1, SMTT(30) DEF RsOperator, ResumeInv, RsType
    <3>6. /\ rslocked' \in [RsTasks -> BOOLEAN] /\ UNCHANGED rsat
          /\ \A u \in RsTasks \ {t} : rslocked'[u] = rslocked[u]
      BY <2>6, ZenonT(30) DEF RsOperator, ResumeInv, RsType
    <3>7. rsat[t] = "run"
      BY <2>6, ZenonT(30) DEF RsOperator
    <3> QED BY <3>1, <3>2, <3>5, <3>6, <3>7, SMTT(30) DEF ResumeInv, RsType
  <2>7. ASSUME NEW t \in RsTasks, RsOperatorOom(t) PROVE ResumeInv'
    BY <2>7, RescheduleKeeps, ZenonT(30) DEF RsOperatorOom, ResumeIndex
  <2>8. ASSUME NEW t \in RsTasks, RsPublish(t) PROVE ResumeInv'
    BY <2>8 DEF RsPublish, ResumeInv, RsType
  <2> QED BY <2>1, <2>2, <2>3, <2>4, <2>5, <2>6, <2>7, <2>8 DEF RsNext
<1>3. ResumeInv => ResumeSound
  BY DEF ResumeInv, RsType, ResumeSound, EachOperatorOnce, WaitingIsDowngradable
<1> QED BY <1>1, <1>2, <1>3, PTL DEF RsSpec

-----------------------------------------------------------------------------
(* The downgrade executor *)

\* A request in the queue of the downgrade executor, and the states of its promise.
RequestShape(q) ==
    /\ q = [kind |-> q.kind, state |-> q.state, freed |-> q.freed, moved |-> q.moved,
            satisfied |-> q.satisfied, taken |-> q.taken]
    /\ q.state \in {"pushing", "queued", "processing", "resolved", "cancelled", "broken"}

\* The requests made so far.
RequestsInv ==
    /\ IsSeq(dgrequests)
    /\ \A r \in DOMAIN dgrequests : RequestShape(dgrequests[r])

\* The request queue holds each request once, and only requests nobody has taken up.
QueueInv ==
    /\ rqueue = [items |-> rqueue.items, active |-> rqueue.active]
    /\ rqueue.items \in Seq(DOMAIN dgrequests) /\ IsInjective(rqueue.items)
    /\ \A i \in DOMAIN rqueue.items : dgrequests[rqueue.items[i]].state = "queued"

\* Where processing_loop is while it serves a request.
Serving == {"repos", "tasks", "dispatch", "wait"}

\* processing_loop serves one request at a time, which stays in state "processing", and
\* between its two tiers holds the one task it took out of the queue.
ProcessorInv ==
    /\ processor = [at |-> processor.at, req |-> processor.req, cands |-> processor.cands,
                    left |-> processor.left]
    /\ processor.at \in {"pop", "exited"} \cup Serving
    /\ processor.at \in Serving =>
          processor.req \in DOMAIN dgrequests /\ dgrequests[processor.req].state = "processing"
    /\ processor.at = "dispatch" => \E t \in DgTasks : processor.cands = <<t>>

\* A job of the pool works for the request that processing_loop serves: wait_all keeps
\* it there until the job is gone.
JobsInv ==
    \A j \in jobs :
       /\ j = [batches |-> j.batches, task |-> j.task, bytes |-> j.bytes, req |-> j.req, at |-> j.at]
       /\ j.task = <<>> \/ \E t \in DgTasks : j.task = <<t>>
       /\ j.req = processor.req /\ processor.at \in Serving

\* A worker of the GPU executor has a task everywhere but in its idle state.
WorkersInv ==
    /\ dgworker = [w \in DgWorkers |-> dgworker[w]]
    /\ \A w \in DgWorkers :
          /\ dgworker[w] = [at |-> dgworker[w].at, task |-> dgworker[w].task, req |-> dgworker[w].req,
                            held |-> dgworker[w].held]
          /\ dgworker[w].at \in {"idle", "reserve", "wait", "run", "skipped"}
          /\ IF dgworker[w].at = "idle" THEN dgworker[w].task = <<>>
             ELSE \E t \in DgTasks : dgworker[w].task = <<t>>

\* A reservation request that has no answer has a worker waiting for it.
Awaited ==
    \A r \in DOMAIN dgrequests :
       dgrequests[r].kind = "reserve" /\ ~Fulfilled(r)
          => \E w \in DgWorkers : dgworker[w].at = "wait" /\ dgworker[w].req = r

\* The places a task can be in: with a job of the pool, ...
OnJob(t) == \E j \in jobs : j.task = <<t>>
InHand(t) == processor.at = "dispatch" /\ processor.cands = <<t>>
WithWorker(t) == \E w \in DgWorkers : dgworker[w].task = <<t>>

\* Every task is in one place: the queue, a job, the hand of processing_loop, a worker,
\* or done.
OnePlace ==
    \A t \in DgTasks :
       /\ t \in Range(taskq) \/ OnJob(t) \/ InHand(t) \/ WithWorker(t) \/ t \in done
       /\ t \in Range(taskq) => ~OnJob(t) /\ ~InHand(t) /\ ~WithWorker(t) /\ t \notin done
       /\ OnJob(t) => ~InHand(t) /\ ~WithWorker(t) /\ t \notin done
       /\ InHand(t) => ~WithWorker(t) /\ t \notin done
       /\ WithWorker(t) => t \notin done

\* No place holds a task twice.
Once ==
    /\ taskq \in Seq(DgTasks) /\ IsInjective(taskq)
    /\ \A j, k \in jobs : j.task = k.task /\ j.task # <<>> => j = k
    /\ \A u, v \in DgWorkers : dgworker[u].task = dgworker[v].task /\ dgworker[u].task # <<>> => u = v

\* The inductive invariant of the downgrade executor.
DgInv ==
    /\ RequestsInv /\ QueueInv /\ ProcessorInv /\ JobsInv /\ WorkersInv /\ Awaited
    /\ OnePlace /\ Once

\* The domain of a sequence.
LEMMA SeqFacts ==
  ASSUME NEW s, IsSeq(s)
  PROVE  Len(s) \in Nat /\ DOMAIN s = 1 .. Len(s)
BY DEF IsSeq

\* Push: a new request is the last one and leaves the others as they were.
LEMMA RequestPushed ==
  ASSUME RequestsInv, NEW k, Push(k)
  PROVE  /\ RequestsInv' /\ Len(dgrequests) + 1 \notin DOMAIN dgrequests
         /\ DOMAIN dgrequests' = DOMAIN dgrequests \cup {Len(dgrequests) + 1}
         /\ \A r \in DOMAIN dgrequests : dgrequests'[r] = dgrequests[r]
         /\ dgrequests'[Len(dgrequests) + 1].kind = k
         /\ dgrequests'[Len(dgrequests) + 1].state \in {"pushing", "broken"}
<1>1. PICK S : dgrequests \in Seq(S)
  BY DEF RequestsInv, IsSeq
<1>2. PICK q : q = NewRequest(k, IF rqueue.active THEN "pushing" ELSE "broken")
  BY Zenon
<1>3. dgrequests' = Append(dgrequests, q)
  BY <1>2 DEF Push
<1>4. RequestShape(q) /\ q.kind = k /\ q.state \in {"pushing", "broken"}
  BY <1>2 DEF RequestShape, NewRequest
<1>5. dgrequests \in Seq(S \cup {q}) /\ q \in S \cup {q}
  BY <1>1
<1>6. /\ dgrequests' \in Seq(S \cup {q}) /\ Len(dgrequests') = Len(dgrequests) + 1
      /\ \A i \in 1 .. Len(dgrequests) : dgrequests'[i] = dgrequests[i]
      /\ dgrequests'[Len(dgrequests) + 1] = q
  BY <1>3, <1>5, AppendFacts
<1>7. /\ Len(dgrequests) \in Nat /\ DOMAIN dgrequests = 1 .. Len(dgrequests)
      /\ DOMAIN dgrequests' = 1 .. Len(dgrequests) + 1
  BY <1>1, <1>6
<1>8. 1 .. Len(dgrequests) + 1 = (1 .. Len(dgrequests)) \cup {Len(dgrequests) + 1}
      /\ Len(dgrequests) + 1 \notin 1 .. Len(dgrequests)
  BY <1>7
<1>9. IsSeq(dgrequests')
  BY <1>6 DEF IsSeq
<1>10. \A r \in DOMAIN dgrequests' : RequestShape(dgrequests'[r])
  BY <1>4, <1>6, <1>7, <1>8 DEF RequestsInv
<1> QED BY <1>4, <1>6, <1>7, <1>8, <1>9, <1>10 DEF RequestsInv

\* A change of one request leaves the others as they were.
LEMMA RequestChanged ==
  ASSUME RequestsInv, NEW r \in DOMAIN dgrequests, NEW q, RequestShape(q),
         dgrequests' = [dgrequests EXCEPT ![r] = q]
  PROVE  /\ RequestsInv' /\ DOMAIN dgrequests' = DOMAIN dgrequests /\ dgrequests'[r] = q
         /\ \A i \in DOMAIN dgrequests : i # r => dgrequests'[i] = dgrequests[i]
<1>1. PICK S : dgrequests \in Seq(S)
  BY DEF RequestsInv, IsSeq
<1>2. dgrequests \in [1 .. Len(dgrequests) -> S \cup {q}] /\ Len(dgrequests) \in Nat
  BY <1>1
<1>3. dgrequests' \in [1 .. Len(dgrequests) -> S \cup {q}]
  BY <1>2
<1>4. dgrequests' \in Seq(S \cup {q})
  BY <1>2, <1>3
<1>5. /\ DOMAIN dgrequests' = DOMAIN dgrequests /\ dgrequests'[r] = q
      /\ \A i \in DOMAIN dgrequests : i # r => dgrequests'[i] = dgrequests[i]
  BY <1>2
<1>6. \A i \in DOMAIN dgrequests' : RequestShape(dgrequests'[i])
  BY <1>5 DEF RequestsInv
<1> QED BY <1>4, <1>5, <1>6 DEF RequestsInv, IsSeq

\* A task held is a tuple of one.
LEMMA TaskTuple == \A t, u : (<<t>> = <<u>> <=> t = u) /\ <<t>> # <<>> /\ <<t>>[1] = t
OBVIOUS

\* The return of a task, or a new request, at the end of a queue that does not hold it.
LEMMA QueuedOnce ==
  ASSUME NEW S, NEW s \in Seq(S), IsInjective(s), NEW x \in S, x \notin Range(s)
  PROVE  /\ Append(s, x) \in Seq(S) /\ IsInjective(Append(s, x))
         /\ Range(Append(s, x)) = Range(s) \cup {x}
<1>1. /\ Append(s, x) \in Seq(S) /\ Len(Append(s, x)) = Len(s) + 1 /\ Len(s) \in Nat
      /\ \A i \in 1 .. Len(s) : Append(s, x)[i] = s[i]
      /\ Append(s, x)[Len(s) + 1] = x
  BY AppendFacts
<1>2. PICK u : u = Append(s, x)
  BY Zenon
<1>3. DOMAIN u = 1 .. Len(s) + 1 /\ DOMAIN s = 1 .. Len(s)
  BY <1>1, <1>2
<1>4. ASSUME NEW i \in DOMAIN u, NEW k \in DOMAIN u, u[i] = u[k] PROVE i = k
  <2>1. \A m \in 1 .. Len(s) : s[m] # x
    BY <1>3 DEF Range
  <2> QED BY <1>1, <1>2, <1>3, <1>4, <2>1 DEF IsInjective
<1>5. Range(u) = Range(s) \cup {x}
  BY <1>1, <1>2, <1>3 DEF Range
<1> QED BY <1>1, <1>2, <1>4, <1>5 DEF IsInjective

\* The head of a queue that holds nothing twice is no longer in it once popped.
LEMMA QueuePopped ==
  ASSUME NEW S, NEW s \in Seq(S), IsInjective(s), s # <<>>
  PROVE  /\ Head(s) \in S /\ Head(s) \in Range(s) /\ Tail(s) \in Seq(S) /\ IsInjective(Tail(s))
         /\ Range(Tail(s)) = Range(s) \ {Head(s)}
<1>1. /\ Tail(s) \in Seq(S) /\ Len(Tail(s)) = Len(s) - 1 /\ Len(s) \in Nat /\ Len(s) > 0
      /\ \A i \in 1 .. Len(s) - 1 : Tail(s)[i] = s[i + 1]
      /\ Head(s) = s[1] /\ Head(s) \in S
  BY TailFacts
<1>2. PICK u : u = Tail(s)
  BY Zenon
<1>3. DOMAIN u = 1 .. Len(s) - 1 /\ DOMAIN s = 1 .. Len(s) /\ 1 \in DOMAIN s
  BY <1>1, <1>2
<1>4. IsInjective(u)
  BY <1>1, <1>2, <1>3 DEF IsInjective
<1>5. Range(u) \subseteq Range(s) \ {Head(s)}
  BY <1>1, <1>2, <1>3 DEF Range, IsInjective
<1>6. ASSUME NEW x \in Range(s), x # Head(s) PROVE x \in Range(u)
  <2>1. PICK i \in 1 .. Len(s) : x = s[i]
    BY <1>3 DEF Range
  <2>2. i - 1 \in 1 .. Len(s) - 1 /\ u[i - 1] = s[(i - 1) + 1] /\ (i - 1) + 1 = i
    BY <1>1, <1>2, <1>6, <2>1
  <2> QED BY <1>3, <2>1, <2>2 DEF Range
<1>7. Range(u) = Range(s) \ {Head(s)}
  BY <1>5, <1>6, Zenon
<1>8. Head(s) \in Range(s)
  BY <1>1, <1>3 DEF Range
<1> QED BY <1>1, <1>2, <1>4, <1>7, <1>8, Zenon

\* BorrowTask takes the task at one position out of the queue, and no other.
LEMMA QueueWithout ==
  ASSUME NEW S, NEW s \in Seq(S), IsInjective(s), NEW i \in DOMAIN s, NEW u, u = Without(s, i)
  PROVE  /\ u \in Seq(S) /\ IsInjective(u)
         /\ Range(u) = Range(s) \ {s[i]} /\ s[i] \in S
<1>1. u \in Seq(S)
  BY OneRemoved, Zenon
<1>2. PICK up : Shifted(u, s, i, up)
  BY OneRemoved, Zenon
<1>3. ASSUME NEW j \in DOMAIN u, NEW k \in DOMAIN u, u[j] = u[k] PROVE j = k
  <2>1. /\ up[j] \in DOMAIN s /\ up[k] \in DOMAIN s /\ u[j] = s[up[j]] /\ u[k] = s[up[k]]
        /\ up[j] = up[k] => j = k
    BY <1>2, Zenon DEF Shifted
  <2>2. s[up[j]] = s[up[k]]
    BY <1>3, <2>1, Zenon
  <2> QED BY <2>1, <2>2, Zenon DEF IsInjective
<1>4. ASSUME NEW x \in Range(u) PROVE x \in Range(s) \ {s[i]}
  <2>1. PICK k \in DOMAIN u : x = u[k]
    BY <1>4, Zenon DEF Range
  <2>2. up[k] \in DOMAIN s /\ up[k] # i /\ x = s[up[k]]
    BY <1>2, <2>1, Zenon DEF Shifted
  <2>3. x # s[i]
    BY <2>2, Zenon DEF IsInjective
  <2> QED BY <2>2, <2>3, Zenon DEF Range
<1>5. ASSUME NEW x \in Range(s), x # s[i] PROVE x \in Range(u)
  <2>1. PICK m \in DOMAIN s : x = s[m]
    BY <1>5, Zenon DEF Range
  <2>2. PICK k \in DOMAIN u : up[k] = m
    BY <1>2, <1>5, <2>1, Zenon DEF Shifted
  <2> QED BY <1>2, <2>1, <2>2, ZenonT(30) DEF Range, Shifted
<1>6. IsInjective(u)
  BY <1>3, Zenon DEF IsInjective
<1>7. s[i] \in S
  BY SMT
<1> QED BY <1>1, <1>4, <1>5, <1>6, <1>7, Zenon

\* SetState: only the state of one request changes.
LEMMA StateSet ==
  ASSUME RequestsInv, NEW r \in DOMAIN dgrequests,
         NEW s \in {"pushing", "queued", "processing", "resolved", "cancelled", "broken"},
         dgrequests' = SetState(r, s)
  PROVE  /\ RequestsInv' /\ DOMAIN dgrequests' = DOMAIN dgrequests
         /\ \A i \in DOMAIN dgrequests : i # r => dgrequests'[i] = dgrequests[i]
         /\ dgrequests'[r].state = s /\ dgrequests'[r].kind = dgrequests[r].kind
<1>1. PICK q : q = [dgrequests[r] EXCEPT !.state = s]
  BY Zenon
<1>2. RequestShape(dgrequests[r])
  BY DEF RequestsInv
<1>3. RequestShape(q) /\ q.state = s /\ q.kind = dgrequests[r].kind
  BY <1>1, <1>2 DEF RequestShape
<1>4. dgrequests' = [dgrequests EXCEPT ![r] = q]
  BY <1>1 DEF SetState
<1> QED BY <1>3, <1>4, RequestChanged, Zenon

\* The request queue stands while the requests in it stay queued.
LEMMA QueueFrame ==
  ASSUME QueueInv, rqueue' = rqueue, DOMAIN dgrequests \subseteq DOMAIN dgrequests',
         \A i \in DOMAIN dgrequests :
            dgrequests[i].state = "queued" => dgrequests'[i].state = "queued"
  PROVE  QueueInv'
<1>1. PICK s : s = rqueue.items
  BY Zenon
<1>2. s \in Seq(DOMAIN dgrequests) /\ rqueue'.items = s
  BY <1>1 DEF QueueInv
<1>3. s \in Seq(DOMAIN dgrequests') /\ \A i \in DOMAIN s : s[i] \in DOMAIN dgrequests
  BY <1>2
<1>4. \A i \in DOMAIN s : dgrequests'[s[i]].state = "queued"
  BY <1>1, <1>3 DEF QueueInv
<1> QED BY <1>1, <1>2, <1>3, <1>4 DEF QueueInv

\* processing_loop goes on while its request stays in processing.
LEMMA ProcessorFrame ==
  ASSUME ProcessorInv, processor' = processor, DOMAIN dgrequests \subseteq DOMAIN dgrequests',
         \A i \in DOMAIN dgrequests :
            dgrequests[i].state = "processing" => dgrequests'[i].state = "processing"
  PROVE  ProcessorInv'
BY DEF ProcessorInv, Serving

\* An answer given takes no answer back.
LEMMA AwaitedFrame ==
  ASSUME Awaited, dgworker' = dgworker, DOMAIN dgrequests' = DOMAIN dgrequests,
         \A i \in DOMAIN dgrequests :
            /\ dgrequests'[i].kind = dgrequests[i].kind
            /\ dgrequests'[i].state = dgrequests[i].state \/ ~Fulfilled(i) \/ Fulfilled(i)'
  PROVE  Awaited'
<1> SUFFICES ASSUME NEW r \in DOMAIN dgrequests, dgrequests'[r].kind = "reserve", ~Fulfilled(r)'
             PROVE  \E w \in DgWorkers : dgworker'[w].at = "wait" /\ dgworker'[w].req = r
  BY DEF Awaited
<1>1. ~Fulfilled(r)
  BY DEF Fulfilled
<1> QED BY <1>1 DEF Awaited

\* Steps that move no task.
LEMMA PlacesFrame ==
  ASSUME OnePlace, Once, taskq' = taskq, done' = done,
         \A t \in DgTasks : /\ OnJob(t)' <=> OnJob(t)
                            /\ InHand(t)' <=> InHand(t)
                            /\ WithWorker(t)' <=> WithWorker(t)
  PROVE  OnePlace'
BY Zenon DEF OnePlace

\* The second half of a push.
LEMMA EnqueueKeeps ==
  ASSUME DgInv, NEW r \in DOMAIN dgrequests, Enqueue(r)
  PROVE  DgInv'
<1>1. /\ RequestsInv' /\ DOMAIN dgrequests' = DOMAIN dgrequests
      /\ \A i \in DOMAIN dgrequests : i # r => dgrequests'[i] = dgrequests[i]
      /\ dgrequests'[r].state = "queued" /\ dgrequests'[r].kind = dgrequests[r].kind
  BY StateSet DEF DgInv, Enqueue
<1>2. dgrequests[r].state = "pushing"
  BY DEF Enqueue
<1>3. ProcessorInv' /\ JobsInv' /\ WorkersInv'
  BY <1>1, <1>2, ProcessorFrame DEF DgInv, Enqueue, JobsInv, WorkersInv
<1>4. Awaited'
  BY <1>1, <1>2, AwaitedFrame DEF DgInv, Enqueue, Fulfilled
<1>5. OnePlace' /\ Once'
  BY Zenon DEF DgInv, Enqueue, OnePlace, Once, OnJob, InHand, WithWorker
<1>6. QueueInv'
  <2>1. PICK s : s = rqueue.items
    BY Zenon
  <2>2. s \in Seq(DOMAIN dgrequests) /\ IsInjective(s) /\ r \notin Range(s)
    BY <1>2, <2>1 DEF DgInv, QueueInv, Range
  <2>3. /\ Append(s, r) \in Seq(DOMAIN dgrequests) /\ IsInjective(Append(s, r))
        /\ Range(Append(s, r)) = Range(s) \cup {r}
    BY <2>2, QueuedOnce
  <2>4. rqueue' = [rqueue EXCEPT !.items = Append(s, r)]
    BY <2>1 DEF Enqueue
  <2>5. rqueue' = [items |-> Append(s, r), active |-> rqueue.active]
    BY <2>4, Zenon DEF DgInv, QueueInv
  <2>6. \A q \in Range(s) : q \in DOMAIN dgrequests /\ dgrequests[q].state = "queued"
    BY <2>1, <2>2 DEF DgInv, QueueInv, Range
  <2>7. \A q \in Range(Append(s, r)) : dgrequests'[q].state = "queued"
    BY <1>1, <2>3, <2>6
  <2>8. \A i \in DOMAIN Append(s, r) : Append(s, r)[i] \in Range(Append(s, r))
    BY Zenon DEF Range
  <2> QED BY <1>1, <2>3, <2>5, <2>7, <2>8 DEF QueueInv
<1> QED BY <1>1, <1>3, <1>4, <1>5, <1>6, Zenon DEF DgInv

\* monitor_loop pushes a request of its own.
LEMMA MonitorKeeps ==
  ASSUME DgInv, monitor_loop
  PROVE  DgInv'
<1>1. Push("monitor")
  BY DEF monitor_loop
<1>2. /\ RequestsInv' /\ Len(dgrequests) + 1 \notin DOMAIN dgrequests
      /\ DOMAIN dgrequests' = DOMAIN dgrequests \cup {Len(dgrequests) + 1}
      /\ \A r \in DOMAIN dgrequests : dgrequests'[r] = dgrequests[r]
      /\ dgrequests'[Len(dgrequests) + 1].kind = "monitor"
  BY <1>1, RequestPushed, Zenon DEF DgInv
<1>3. QueueInv' /\ ProcessorInv'
  BY <1>2, QueueFrame, ProcessorFrame DEF DgInv, monitor_loop
<1>4. JobsInv' /\ WorkersInv' /\ OnePlace' /\ Once'
  BY Zenon DEF DgInv, monitor_loop, JobsInv, WorkersInv, OnePlace, Once, OnJob, InHand, WithWorker
<1>5. Awaited'
  BY <1>2 DEF DgInv, monitor_loop, Awaited, Fulfilled
<1> QED BY <1>2, <1>3, <1>4, <1>5, Zenon DEF DgInv

\* A worker whose task stays with it.
LEMMA WorkerMoves ==
  ASSUME DgInv, NEW w \in DgWorkers, NEW a \in {"wait", "run", "skipped"}, NEW q, NEW h,
         dgworker[w].at # "idle",
         dgworker' = [v \in DgWorkers |-> dgworker'[v]],
         \A v \in DgWorkers : v # w => dgworker'[v] = dgworker[v],
         dgworker'[w] = [at |-> a, task |-> dgworker[w].task, req |-> q, held |-> h]
  PROVE  /\ WorkersInv'
         /\ \A v \in DgWorkers : dgworker'[v].task = dgworker[v].task /\ (v # w => dgworker'[v] = dgworker[v])
         /\ dgworker'[w].at = a /\ dgworker'[w].req = q
BY DEF DgInv, WorkersInv

\* A task is with one worker.
LEMMA OneWorkerEach ==
  ASSUME Once, NEW v \in DgWorkers, NEW w \in DgWorkers, NEW t,
         dgworker[v].task = <<t>>, dgworker[w].task = <<t>>
  PROVE  v = w
<1>1. <<t>> # <<>>
  BY TaskTuple, Zenon
<1> QED BY <1>1, Zenon DEF Once

\* A worker takes the first task of the queue.
LEMMA TakeDgTaskKeeps ==
  ASSUME DgInv, NEW w \in DgWorkers, TakeDgTask(w)
  PROVE  DgInv'
<1>1. PICK t : t = Head(taskq)
  BY Zenon
<1>2. /\ t \in DgTasks /\ t \in Range(taskq) /\ taskq' \in Seq(DgTasks) /\ IsInjective(taskq')
      /\ Range(taskq') = Range(taskq) \ {t}
  BY <1>1, QueuePopped DEF DgInv, Once, TakeDgTask
<1>3. /\ dgworker'[w] = [dgworker[w] EXCEPT !.at = "reserve", !.task = <<t>>]
      /\ dgworker' = [v \in DgWorkers |-> dgworker'[v]]
      /\ \A v \in DgWorkers : v # w => dgworker'[v] = dgworker[v]
  BY <1>1, Zenon DEF DgInv, WorkersInv, TakeDgTask
<1>4. dgworker[w].at = "idle" /\ dgworker[w].task = <<>>
  BY DEF DgInv, WorkersInv, TakeDgTask
<1>5. /\ dgworker'[w].at = "reserve" /\ dgworker'[w].task = <<t>>
      /\ dgworker'[w] = [at |-> "reserve", task |-> <<t>>, req |-> dgworker'[w].req,
                         held |-> dgworker'[w].held]
  BY <1>3, Zenon DEF DgInv, WorkersInv
<1>6. WorkersInv'
  BY <1>2, <1>3, <1>5 DEF DgInv, WorkersInv
<1>7. RequestsInv' /\ QueueInv' /\ ProcessorInv' /\ JobsInv'
  BY DEF DgInv, TakeDgTask, RequestsInv, QueueInv, ProcessorInv, JobsInv
<1>8. Awaited'
  BY <1>3, <1>4, Zenon DEF DgInv, TakeDgTask, Awaited, Fulfilled
<1>9. \A u \in DgTasks : WithWorker(u)' <=> WithWorker(u) \/ u = t
  <2> TAKE u \in DgTasks
  <2>1. (<<t>> = <<u>> <=> t = u) /\ <<u>> # <<>>
    BY TaskTuple, Zenon
  <2>2. ASSUME NEW v \in DgWorkers PROVE dgworker'[v].task = <<u>> <=> dgworker[v].task = <<u>> \/ (v = w /\ u = t)
    BY <1>3, <1>4, <1>5, <2>1
  <2> QED BY <2>2, Zenon DEF WithWorker
<1>10. \A u \in DgTasks : (OnJob(u)' <=> OnJob(u)) /\ (InHand(u)' <=> InHand(u))
  BY DEF TakeDgTask, OnJob, InHand
<1>11. done' = done
  BY DEF TakeDgTask
<1>12. OnePlace'
  BY <1>2, <1>9, <1>10, <1>11, Zenon DEF DgInv, OnePlace
<1>13. ~WithWorker(t)
  BY <1>2, Zenon DEF DgInv, OnePlace
<1>14. \A u, v \in DgWorkers :
          dgworker'[u].task = dgworker'[v].task /\ dgworker'[u].task # <<>> => u = v
  <2>1. \A v \in DgWorkers : dgworker[v].task # <<t>>
    BY <1>13, Zenon DEF WithWorker
  <2>2. \A u, v \in DgWorkers :
          dgworker[u].task = dgworker[v].task /\ dgworker[u].task # <<>> => u = v
    BY Zenon DEF DgInv, Once
  <2> QED BY <1>3, <1>5, <2>1, <2>2
<1>15. Once'
  BY <1>2, <1>14, Zenon DEF DgInv, Once, TakeDgTask
<1> QED BY <1>6, <1>7, <1>8, <1>12, <1>15, Zenon DEF DgInv

\* A step of a worker that leaves its task with it.
LEMMA WorkerKeepsPlaces ==
  ASSUME DgInv, \A v \in DgWorkers : dgworker'[v].task = dgworker[v].task,
         UNCHANGED <<taskq, processor, jobs, done>>
  PROVE  JobsInv' /\ OnePlace' /\ Once'
<1>1. \A t \in DgTasks : /\ OnJob(t)' <=> OnJob(t)
                         /\ InHand(t)' <=> InHand(t)
                         /\ WithWorker(t)' <=> WithWorker(t)
  BY DEF OnJob, InHand, WithWorker
<1>2. OnePlace'
  BY <1>1, PlacesFrame DEF DgInv
<1>3. Once' /\ JobsInv'
  BY DEF DgInv, Once, JobsInv
<1> QED BY <1>2, <1>3

\* MakeReservation takes what the device has left.
LEMMA Reserves ==
  ASSUME DgInv, NEW w \in DgWorkers, MakeReservation(w),
         NEW h, h = IF GpuFree >= NeedBytes THEN NeedBytes ELSE Max({GpuFree, 0})
  PROVE  /\ dgworker' = [v \in DgWorkers |-> dgworker'[v]]
         /\ \A v \in DgWorkers : v # w => dgworker'[v] = dgworker[v]
         /\ dgworker'[w] = [at |-> "run", task |-> dgworker[w].task, req |-> NoReq, held |-> h]
<1>1. dgworker' = [dgworker EXCEPT ![w].at = "run", ![w].held = h, ![w].req = NoReq]
  BY DEF MakeReservation
<1>2. /\ dgworker' = [v \in DgWorkers |-> dgworker'[v]]
      /\ \A v \in DgWorkers : v # w => dgworker'[v] = dgworker[v]
      /\ dgworker'[w] = [dgworker[w] EXCEPT !.at = "run", !.held = h, !.req = NoReq]
  BY <1>1, Zenon DEF DgInv, WorkersInv
<1>3. dgworker[w] = [at |-> dgworker[w].at, task |-> dgworker[w].task, req |-> dgworker[w].req,
                     held |-> dgworker[w].held]
  BY DEF DgInv, WorkersInv
<1> QED BY <1>2, <1>3, Zenon

\* acquire_and_set_reservation: the worker reserves, or asks for room and waits.
LEMMA AcquireKeeps ==
  ASSUME DgInv, NEW w \in DgWorkers, acquire_and_set_reservation(w)
  PROVE  DgInv'
<1>1. dgworker[w].at = "reserve"
  BY DEF acquire_and_set_reservation
<1>2. dgworker[w] = [at |-> dgworker[w].at, task |-> dgworker[w].task, req |-> dgworker[w].req,
                     held |-> dgworker[w].held] /\ w \in DOMAIN dgworker
  BY DEF DgInv, WorkersInv
<1>3. UNCHANGED <<loc, reading, taskq, rqueue, processor, jobs, dgpool, drainer, done>>
  BY DEF acquire_and_set_reservation
<1>4. CASE MakeReservation(w) /\ UNCHANGED dgrequests
  <2>1. PICK h : h = IF GpuFree >= NeedBytes THEN NeedBytes ELSE Max({GpuFree, 0})
    BY Zenon
  <2>2. /\ dgworker' = [v \in DgWorkers |-> dgworker'[v]]
        /\ \A v \in DgWorkers : v # w => dgworker'[v] = dgworker[v]
        /\ dgworker'[w] = [at |-> "run", task |-> dgworker[w].task, req |-> NoReq, held |-> h]
    BY <1>4, <2>1, Reserves
  <2>3. /\ WorkersInv'
        /\ \A v \in DgWorkers : dgworker'[v].task = dgworker[v].task
                                /\ (v # w => dgworker'[v] = dgworker[v])
    BY <1>1, <2>2, WorkerMoves
  <2>4. RequestsInv' /\ QueueInv' /\ ProcessorInv'
    BY <1>3, <1>4 DEF DgInv, RequestsInv, QueueInv, ProcessorInv
  <2>5. Awaited'
    BY <1>1, <1>4, <2>3 DEF DgInv, Awaited, Fulfilled
  <2> QED BY <1>3, <2>3, <2>4, <2>5, WorkerKeepsPlaces DEF DgInv
<1>5. CASE /\ Push("reserve")
           /\ dgworker' = [dgworker EXCEPT ![w].at = "wait", ![w].req = Len(dgrequests) + 1]
  <2>1. PICK n : n = Len(dgrequests) + 1
    BY Zenon
  <2>2. /\ dgworker' = [v \in DgWorkers |-> dgworker'[v]]
        /\ \A v \in DgWorkers : v # w => dgworker'[v] = dgworker[v]
        /\ dgworker'[w] = [at |-> "wait", task |-> dgworker[w].task, req |-> n,
                           held |-> dgworker[w].held]
    <3>1. /\ dgworker' = [v \in DgWorkers |-> dgworker'[v]]
          /\ \A v \in DgWorkers : v # w => dgworker'[v] = dgworker[v]
          /\ dgworker'[w] = [dgworker[w] EXCEPT !.at = "wait", !.req = n]
      BY <1>5, <2>1 DEF DgInv, WorkersInv
    <3> QED BY <1>2, <3>1, Zenon
  <2>3. /\ WorkersInv'
        /\ \A v \in DgWorkers : dgworker'[v].task = dgworker[v].task
                                /\ (v # w => dgworker'[v] = dgworker[v])
        /\ dgworker'[w].at = "wait" /\ dgworker'[w].req = n
    BY <1>1, <2>2, WorkerMoves
  <2>4. /\ RequestsInv' /\ n \notin DOMAIN dgrequests
        /\ DOMAIN dgrequests' = DOMAIN dgrequests \cup {n}
        /\ \A r \in DOMAIN dgrequests : dgrequests'[r] = dgrequests[r]
    BY <1>5, <2>1, RequestPushed, Zenon DEF DgInv
  <2>5. QueueInv' /\ ProcessorInv'
    BY <1>3, <2>4, QueueFrame, ProcessorFrame DEF DgInv
  <2>6. Awaited'
    BY <1>1, <2>3, <2>4 DEF DgInv, Awaited, Fulfilled
  <2> QED BY <1>3, <2>3, <2>4, <2>5, <2>6, WorkerKeepsPlaces DEF DgInv
<1> QED BY <1>4, <1>5 DEF acquire_and_set_reservation

\* A change of a request that keeps its kind and its state.
LEMMA FieldsChanged ==
  ASSUME DgInv, rqueue' = rqueue, RequestsInv', DOMAIN dgrequests' = DOMAIN dgrequests,
         \A i \in DOMAIN dgrequests : /\ dgrequests'[i].state = dgrequests[i].state
                                      /\ dgrequests'[i].kind = dgrequests[i].kind
  PROVE  /\ QueueInv'
         /\ processor' = processor => ProcessorInv'
         /\ dgworker' = dgworker => Awaited'
<1>1. QueueInv'
  BY QueueFrame DEF DgInv
<1>2. processor' = processor => ProcessorInv'
  BY ProcessorFrame DEF DgInv
<1>3. dgworker' = dgworker => Awaited'
  BY AwaitedFrame DEF DgInv
<1> QED BY <1>1, <1>2, <1>3

\* The worker that waits takes the reservation made for it, skips its task, or reserves.
LEMMA AnsweredKeeps ==
  ASSUME DgInv, NEW w \in DgWorkers, Answered(w)
  PROVE  DgInv'
<1> DEFINE r == dgworker[w].req
<1>1. dgworker[w].at = "wait" /\ Fulfilled(r)
  BY DEF Answered
<1>2. dgworker[w] = [at |-> dgworker[w].at, task |-> dgworker[w].task, req |-> dgworker[w].req,
                     held |-> dgworker[w].held] /\ w \in DOMAIN dgworker
  BY DEF DgInv, WorkersInv
<1>3. UNCHANGED <<loc, reading, taskq, rqueue, processor, jobs, dgpool, drainer, done>>
  BY DEF Answered
<1>4. /\ RequestsInv' /\ DOMAIN dgrequests' = DOMAIN dgrequests
      /\ \A i \in DOMAIN dgrequests : /\ dgrequests'[i].state = dgrequests[i].state
                                      /\ dgrequests'[i].kind = dgrequests[i].kind
  <2>1. CASE UNCHANGED dgrequests
    BY <2>1 DEF DgInv, RequestsInv
  <2>2. CASE dgrequests' = [dgrequests EXCEPT ![r].taken = 0] /\ r \in DOMAIN dgrequests
    <3>1. PICK q : q = [dgrequests[r] EXCEPT !.taken = 0]
      BY Zenon
    <3>2. RequestShape(dgrequests[r])
      BY <2>2 DEF DgInv, RequestsInv
    <3>3. RequestShape(q) /\ q.state = dgrequests[r].state /\ q.kind = dgrequests[r].kind
      BY <3>1, <3>2 DEF RequestShape
    <3>4. dgrequests' = [dgrequests EXCEPT ![r] = q]
      BY <2>2, <3>1
    <3> QED BY <2>2, <3>3, <3>4, RequestChanged, Zenon DEF DgInv
  <2>3. CASE dgrequests' = [dgrequests EXCEPT ![r].taken = 0] /\ r \notin DOMAIN dgrequests
    <3>1. dgrequests = [i \in DOMAIN dgrequests |-> dgrequests[i]]
      BY DEF DgInv, RequestsInv, IsSeq
    <3>2. dgrequests' = dgrequests
      BY <2>3, <3>1
    <3> QED BY <2>1, <3>2
  <2> QED BY <2>1, <2>2, <2>3 DEF Answered
<1>5. /\ dgworker' = [v \in DgWorkers |-> dgworker'[v]]
      /\ \A v \in DgWorkers : v # w => dgworker'[v] = dgworker[v]
      /\ \E a \in {"run", "skipped"} : \E h :
            dgworker'[w] = [at |-> a, task |-> dgworker[w].task, req |-> NoReq, held |-> h]
  <2>1. CASE dgworker' = [dgworker EXCEPT ![w].at = "skipped", ![w].req = NoReq]
    <3>1. /\ dgworker' = [v \in DgWorkers |-> dgworker'[v]]
          /\ \A v \in DgWorkers : v # w => dgworker'[v] = dgworker[v]
          /\ dgworker'[w] = [dgworker[w] EXCEPT !.at = "skipped", !.req = NoReq]
      BY <2>1 DEF DgInv, WorkersInv
    <3>2. dgworker'[w] = [at |-> "skipped", task |-> dgworker[w].task, req |-> NoReq,
                          held |-> dgworker[w].held]
      BY <1>2, <3>1, Zenon
    <3> QED BY <3>1, <3>2, Zenon
  <2>2. CASE dgworker' = [dgworker EXCEPT ![w].at = "run", ![w].held = dgrequests[r].taken,
                                             ![w].req = NoReq]
    <3>1. PICK h : h = dgrequests[r].taken
      BY Zenon
    <3>2. /\ dgworker' = [v \in DgWorkers |-> dgworker'[v]]
          /\ \A v \in DgWorkers : v # w => dgworker'[v] = dgworker[v]
          /\ dgworker'[w] = [dgworker[w] EXCEPT !.at = "run", !.held = h, !.req = NoReq]
      BY <2>2, <3>1, Zenon DEF DgInv, WorkersInv
    <3>3. dgworker'[w] = [at |-> "run", task |-> dgworker[w].task, req |-> NoReq, held |-> h]
      BY <1>2, <3>2, Zenon
    <3> QED BY <3>2, <3>3, Zenon
  <2>3. CASE MakeReservation(w)
    <3>1. PICK h : h = IF GpuFree >= NeedBytes THEN NeedBytes ELSE Max({GpuFree, 0})
      BY Zenon
    <3>2. /\ dgworker' = [v \in DgWorkers |-> dgworker'[v]]
          /\ \A v \in DgWorkers : v # w => dgworker'[v] = dgworker[v]
          /\ dgworker'[w] = [at |-> "run", task |-> dgworker[w].task, req |-> NoReq, held |-> h]
      BY <2>3, <3>1, Reserves
    <3> QED BY <3>2, Zenon
  <2> QED BY <2>1, <2>2, <2>3, Zenon DEF Answered
<1>6. /\ WorkersInv'
      /\ \A v \in DgWorkers : dgworker'[v].task = dgworker[v].task
                              /\ (v # w => dgworker'[v] = dgworker[v])
  BY <1>1, <1>5, WorkerMoves
<1>7. QueueInv' /\ ProcessorInv'
  BY <1>3, <1>4, FieldsChanged
<1>8. Awaited'
  <2> SUFFICES ASSUME NEW i \in DOMAIN dgrequests, dgrequests'[i].kind = "reserve", ~Fulfilled(i)'
               PROVE  \E v \in DgWorkers : dgworker'[v].at = "wait" /\ dgworker'[v].req = i
    BY <1>4 DEF Awaited
  <2>1. ~Fulfilled(i) /\ dgrequests[i].kind = "reserve"
    BY <1>4 DEF Fulfilled
  <2>2. PICK v \in DgWorkers : dgworker[v].at = "wait" /\ dgworker[v].req = i
    BY <2>1 DEF DgInv, Awaited
  <2>3. v # w
    BY <1>1, <2>1, <2>2
  <2> QED BY <1>6, <2>2, <2>3
<1> QED BY <1>3, <1>4, <1>6, <1>7, <1>8, WorkerKeepsPlaces DEF DgInv

\* A task that ran is done.
LEMMA RunTaskKeeps ==
  ASSUME DgInv, NEW w \in DgWorkers, RunTask(w)
  PROVE  DgInv'
<1>1. dgworker[w].at = "run"
  BY DEF RunTask
<1>2. PICK t \in DgTasks : dgworker[w].task = <<t>>
  BY <1>1 DEF DgInv, WorkersInv
<1>3. done' = done \cup {t}
  BY <1>2 DEF RunTask
<1>4. /\ dgworker'[w] = [dgworker[w] EXCEPT !.at = "idle", !.task = <<>>, !.held = 0]
      /\ dgworker' = [v \in DgWorkers |-> dgworker'[v]]
      /\ \A v \in DgWorkers : v # w => dgworker'[v] = dgworker[v]
  BY Zenon DEF DgInv, WorkersInv, RunTask
<1>5. /\ dgworker'[w].at = "idle" /\ dgworker'[w].task = <<>>
      /\ dgworker'[w] = [at |-> "idle", task |-> <<>>, req |-> dgworker'[w].req,
                         held |-> dgworker'[w].held]
  BY <1>4, Zenon DEF DgInv, WorkersInv
<1>6. WorkersInv'
  BY <1>4, <1>5 DEF DgInv, WorkersInv
<1>7. RequestsInv' /\ QueueInv' /\ ProcessorInv' /\ JobsInv'
  BY DEF DgInv, RunTask, RequestsInv, QueueInv, ProcessorInv, JobsInv
<1>8. Awaited'
  BY <1>1, <1>4, Zenon DEF DgInv, RunTask, Awaited, Fulfilled
<1>9. \A v \in DgWorkers : dgworker[v].task = <<t>> => v = w
  BY <1>2, OneWorkerEach DEF DgInv
<1>10. \A u \in DgTasks : WithWorker(u)' <=> WithWorker(u) /\ u # t
  <2> TAKE u \in DgTasks
  <2>1. (<<t>> = <<u>> <=> t = u) /\ <<u>> # <<>>
    BY TaskTuple, Zenon
  <2>2. ASSUME NEW v \in DgWorkers
        PROVE  dgworker'[v].task = <<u>> <=> dgworker[v].task = <<u>> /\ u # t
    BY <1>2, <1>4, <1>5, <1>9, <2>1
  <2> QED BY <2>2, Zenon DEF WithWorker
<1>11. \A u \in DgTasks : (OnJob(u)' <=> OnJob(u)) /\ (InHand(u)' <=> InHand(u))
  BY DEF RunTask, OnJob, InHand
<1>12. taskq' = taskq /\ WithWorker(t)
  BY <1>2 DEF RunTask, WithWorker
<1>13. OnePlace'
  BY <1>3, <1>10, <1>11, <1>12, Zenon DEF DgInv, OnePlace
<1>14. \A u, v \in DgWorkers :
          dgworker'[u].task = dgworker'[v].task /\ dgworker'[u].task # <<>> => u = v
  <2>1. \A u, v \in DgWorkers :
          dgworker[u].task = dgworker[v].task /\ dgworker[u].task # <<>> => u = v
    BY Zenon DEF DgInv, Once
  <2> QED BY <1>4, <1>5, <2>1
<1>15. Once'
  BY <1>14, Zenon DEF DgInv, Once, RunTask
<1> QED BY <1>6, <1>7, <1>8, <1>13, <1>15, Zenon DEF DgInv

\* processing_loop takes up the next request.
LEMMA PopRequestKeeps ==
  ASSUME DgInv, PopRequest
  PROVE  DgInv'
<1>1. processor.at = "pop" /\ jobs = {}
  BY DEF DgInv, PopRequest, JobsInv, Serving
<1>2. UNCHANGED <<loc, reading, taskq, jobs, dgpool, drainer, dgworker, done>>
  BY DEF PopRequest
<1>3. processor'.at \in {"exited", "repos"}
  BY DEF PopRequest, Exited
<1>4. JobsInv' /\ WorkersInv' /\ Once'
  BY <1>1, <1>2 DEF DgInv, JobsInv, WorkersInv, Once
<1>5. OnePlace'
  <2>1. \A t \in DgTasks : /\ OnJob(t)' <=> OnJob(t)
                           /\ InHand(t)' <=> InHand(t)
                           /\ WithWorker(t)' <=> WithWorker(t)
    BY <1>1, <1>2, <1>3 DEF OnJob, InHand, WithWorker
  <2> QED BY <1>2, <2>1, PlacesFrame DEF DgInv
<1>6. CASE processor' = Exited /\ UNCHANGED <<rqueue, dgrequests>>
  <2>1. RequestsInv' /\ QueueInv' /\ Awaited'
    BY <1>2, <1>6 DEF DgInv, RequestsInv, QueueInv, Awaited, Fulfilled
  <2>2. ProcessorInv'
    BY <1>6 DEF ProcessorInv, Exited, Serving
  <2> QED BY <1>4, <1>5, <2>1, <2>2, Zenon DEF DgInv
<1>7. CASE /\ rqueue.items # <<>>
           /\ processor' = [at |-> "repos", req |-> Head(rqueue.items), left |-> 0,
                           cands |-> NewestFirst(SelectSeq(RepoBatches, IdleOnGpu))]
           /\ rqueue' = [rqueue EXCEPT !.items = Tail(@)]
           /\ dgrequests' = SetState(Head(rqueue.items), "processing")
  <2>1. PICK s : s = rqueue.items
    BY Zenon
  <2>2. s \in Seq(DOMAIN dgrequests) /\ IsInjective(s) /\ s # <<>>
    BY <1>7, <2>1 DEF DgInv, QueueInv
  <2>3. PICK r : r = Head(s)
    BY Zenon
  <2>4. /\ r \in DOMAIN dgrequests /\ r \in Range(s) /\ Tail(s) \in Seq(DOMAIN dgrequests)
        /\ IsInjective(Tail(s)) /\ Range(Tail(s)) = Range(s) \ {r}
    BY <2>2, <2>3, QueuePopped
  <2>5. dgrequests' = SetState(r, "processing")
    BY <1>7, <2>1, <2>3
  <2>6. /\ RequestsInv' /\ DOMAIN dgrequests' = DOMAIN dgrequests
        /\ \A i \in DOMAIN dgrequests : i # r => dgrequests'[i] = dgrequests[i]
        /\ dgrequests'[r].state = "processing" /\ dgrequests'[r].kind = dgrequests[r].kind
    BY <2>4, <2>5, StateSet DEF DgInv
  <2>7. \A q \in Range(s) : q \in DOMAIN dgrequests /\ dgrequests[q].state = "queued"
    BY <2>1, <2>2 DEF DgInv, QueueInv, Range
  <2>8. QueueInv'
    <3>1. rqueue' = [items |-> Tail(s), active |-> rqueue.active]
      BY <1>7, <2>1, Zenon DEF DgInv, QueueInv
    <3>2. \A i \in DOMAIN Tail(s) : Tail(s)[i] \in Range(Tail(s))
      BY Zenon DEF Range
    <3> QED BY <2>4, <2>6, <2>7, <3>1, <3>2 DEF QueueInv
  <2>9. ProcessorInv'
    <3>1. PICK c : processor' = [at |-> "repos", req |-> r, left |-> 0, cands |-> c]
      BY <1>7, <2>1, <2>3, Zenon
    <3> QED BY <2>4, <2>6, <3>1 DEF ProcessorInv, Serving
  <2>10. Awaited'
    BY <1>2, <2>4, <2>6, <2>7, AwaitedFrame DEF DgInv, Fulfilled
  <2> QED BY <1>4, <1>5, <2>6, <2>8, <2>9, <2>10, Zenon DEF DgInv
<1> QED BY <1>6, <1>7 DEF PopRequest

\* A step of the processing thread that takes up or puts down no task.
LEMMA ProcessorMoves ==
  ASSUME DgInv, UNCHANGED <<taskq, dgrequests, rqueue, dgworker, done>>, ProcessorInv',
         processor.at # "dispatch", processor'.at \in Serving \ {"dispatch"},
         processor'.req = processor.req,
         jobs' = jobs \/ \E k : /\ jobs' = jobs \cup {k} /\ k.task = <<>> /\ k.req = processor.req
                                /\ k = [batches |-> k.batches, task |-> k.task, bytes |-> k.bytes,
                                        req |-> k.req, at |-> k.at]
  PROVE  DgInv'
<1>1. RequestsInv' /\ QueueInv' /\ WorkersInv' /\ Awaited'
  BY DEF DgInv, RequestsInv, QueueInv, WorkersInv, Awaited, Fulfilled
<1>2. JobsInv' /\ \A j \in jobs' : j.task # <<>> => j \in jobs
  BY DEF DgInv, JobsInv
<1>3. jobs \subseteq jobs'
  OBVIOUS
<1>4. \A t \in DgTasks : OnJob(t)' <=> OnJob(t)
  BY <1>2, <1>3, TaskTuple, Zenon DEF OnJob
<1>5. \A t \in DgTasks : (InHand(t)' <=> InHand(t)) /\ (WithWorker(t)' <=> WithWorker(t))
  BY DEF InHand, WithWorker
<1>6. OnePlace'
  BY <1>4, <1>5, PlacesFrame DEF DgInv
<1>7. Once'
  BY <1>2 DEF DgInv, Once
<1> QED BY <1>1, <1>2, <1>6, <1>7, ZenonT(30) DEF DgInv

\* The first tier gives the pool batches of the repositories.
LEMMA FromRepositoryKeeps ==
  ASSUME DgInv, FromRepository
  PROVE  DgInv'
<1>1. processor.at = "repos" /\ UNCHANGED <<taskq, dgrequests, rqueue, dgworker, done>>
  BY DEF FromRepository
<1>2. processor = [at |-> processor.at, req |-> processor.req, cands |-> processor.cands,
                   left |-> processor.left]
  BY DEF DgInv, ProcessorInv
<1>3. PICK a \in {"repos", "tasks", "wait"} : \E c : \E l :
         processor' = [at |-> a, req |-> processor.req, cands |-> c, left |-> l]
  <2>1. CASE processor' = [processor EXCEPT !.at = "wait"]
    BY <1>2, <2>1, Zenon
  <2>2. CASE processor' = [processor EXCEPT !.at = "tasks", !.left = Len(taskq), !.cands = <<>>]
    BY <1>2, <2>2, Zenon
  <2>3. CASE processor' = [processor EXCEPT !.cands = Tail(@)]
    BY <1>1, <1>2, <2>3, Zenon
  <2> QED BY <2>1, <2>2, <2>3 DEF FromRepository
<1>4. ProcessorInv' /\ processor'.at \in Serving \ {"dispatch"} /\ processor'.req = processor.req
  BY <1>1, <1>3 DEF DgInv, ProcessorInv, Serving
<1>5. jobs' = jobs \/ \E k : /\ jobs' = jobs \cup {k} /\ k.task = <<>> /\ k.req = processor.req
                             /\ k = [batches |-> k.batches, task |-> k.task, bytes |-> k.bytes,
                                     req |-> k.req, at |-> k.at]
  <2>1. PICK n : n = BatchBytes(<<Head(processor.cands)>>)
    BY Zenon
  <2>2. jobs' = jobs \/ jobs' = jobs \cup {Job(<<Head(processor.cands)>>, <<>>, n)}
    BY <2>1 DEF FromRepository
  <2> QED BY <2>2, ZenonT(30) DEF Job
<1> QED BY <1>1, <1>4, <1>5, ProcessorMoves

\* The second tier takes the newest task with a batch on the device out of the queue.
LEMMA BorrowTaskKeeps ==
  ASSUME DgInv, BorrowTask
  PROVE  DgInv'
<1>1. /\ processor.at = "tasks"
      /\ UNCHANGED <<loc, reading, dgrequests, rqueue, jobs, dgpool, drainer, dgworker, done>>
  BY Zenon DEF BorrowTask
<1>2. processor = [at |-> processor.at, req |-> processor.req, cands |-> processor.cands,
                   left |-> processor.left]
  BY DEF DgInv, ProcessorInv
<1>3. CASE processor' = [processor EXCEPT !.at = "wait"] /\ UNCHANGED taskq
  <2>1. processor' = [at |-> "wait", req |-> processor.req, cands |-> processor.cands,
                      left |-> processor.left]
    BY <1>2, <1>3
  <2>2. ProcessorInv' /\ processor'.at \in Serving \ {"dispatch"} /\ processor'.req = processor.req
    BY <1>1, <2>1 DEF DgInv, ProcessorInv, Serving
  <2> QED BY <1>1, <1>3, <2>2, ProcessorMoves
<1>4. ASSUME NEW i \in DOMAIN taskq,
             processor' = [processor EXCEPT !.at = "dispatch", !.left = @ - 1, !.cands = <<taskq[i]>>],
             taskq' = Without(taskq, i)
      PROVE  DgInv'
  <2>1. PICK t : t = taskq[i]
    BY Zenon
  <2>2. /\ t \in DgTasks /\ taskq' \in Seq(DgTasks) /\ IsInjective(taskq')
        /\ Range(taskq') = Range(taskq) \ {t} /\ t \in Range(taskq)
    <3>1. taskq \in Seq(DgTasks) /\ IsInjective(taskq)
      BY DEF DgInv, Once
    <3>2. t \in Range(taskq)
      BY <2>1, Zenon DEF Range
    <3> QED BY <1>4, <2>1, <3>1, <3>2, QueueWithout
  <2>3. PICK l : processor' = [at |-> "dispatch", req |-> processor.req, cands |-> <<t>>, left |-> l]
    BY <1>2, <1>4, <2>1, Zenon
  <2>4. ProcessorInv'
    BY <1>1, <2>2, <2>3 DEF DgInv, ProcessorInv, Serving
  <2>5. JobsInv'
    BY <1>1, <2>3 DEF DgInv, JobsInv, Serving
  <2>6. RequestsInv' /\ QueueInv' /\ WorkersInv' /\ Awaited'
    BY <1>1 DEF DgInv, RequestsInv, QueueInv, WorkersInv, Awaited, Fulfilled
  <2>7. Once'
    BY <1>1, <2>2 DEF DgInv, Once
  <2>8. \A u \in DgTasks : /\ OnJob(u)' <=> OnJob(u)
                           /\ WithWorker(u)' <=> WithWorker(u)
                           /\ ~InHand(u) /\ (InHand(u)' <=> u = t)
    BY <1>1, <2>3, TaskTuple DEF OnJob, WithWorker, InHand
  <2>9. OnePlace'
    BY <1>1, <2>2, <2>8, Zenon DEF DgInv, OnePlace
  <2> QED BY <2>4, <2>5, <2>6, <2>7, <2>9, Zenon DEF DgInv
<1> QED BY <1>3, <1>4, Zenon DEF BorrowTask, Without

\* The task goes to the pool, or back to the queue.
LEMMA DispatchTaskKeeps ==
  ASSUME DgInv, DispatchTask
  PROVE  DgInv'
<1>1. /\ processor.at = "dispatch"
      /\ UNCHANGED <<loc, reading, dgrequests, rqueue, dgpool, drainer, dgworker, done>>
  BY DEF DispatchTask
<1>2. processor = [at |-> processor.at, req |-> processor.req, cands |-> processor.cands,
                   left |-> processor.left]
  BY DEF DgInv, ProcessorInv
<1>3. PICK t \in DgTasks : processor.cands = <<t>>
  BY <1>1 DEF DgInv, ProcessorInv
<1>4. InHand(t) /\ \A u \in DgTasks : InHand(u) <=> u = t
  BY <1>1, <1>3, TaskTuple DEF InHand
<1>5. t \notin Range(taskq) /\ ~OnJob(t)
  BY <1>4, Zenon DEF DgInv, OnePlace
<1>6. RequestsInv' /\ QueueInv' /\ WorkersInv' /\ Awaited'
  BY <1>1 DEF DgInv, RequestsInv, QueueInv, WorkersInv, Awaited, Fulfilled
<1>7. ASSUME NEW a \in {"wait", "tasks"}, processor' = [processor EXCEPT !.at = a, !.cands = <<>>]
      PROVE  /\ ProcessorInv' /\ processor'.at \in Serving /\ processor'.req = processor.req
             /\ \A u \in DgTasks : ~InHand(u)'
  <2>1. processor' = [at |-> a, req |-> processor.req, cands |-> <<>>, left |-> processor.left]
    BY <1>2, <1>7, Zenon
  <2> QED BY <1>1, <2>1 DEF DgInv, ProcessorInv, Serving, InHand
<1>8. \A u \in DgTasks : WithWorker(u)' <=> WithWorker(u)
  BY <1>1 DEF WithWorker
<1>9. CASE /\ taskq' = Append(taskq, processor.cands[1])
           /\ processor' = [processor EXCEPT !.at = "wait", !.cands = <<>>]
           /\ UNCHANGED jobs
  <2>1. taskq' = Append(taskq, t)
    BY <1>3, <1>9
  <2>2. /\ taskq' \in Seq(DgTasks) /\ IsInjective(taskq')
        /\ Range(taskq') = Range(taskq) \cup {t}
    BY <1>5, <2>1, QueuedOnce DEF DgInv, Once
  <2>3. \A u \in DgTasks : (OnJob(u)' <=> OnJob(u)) /\ ~InHand(u)'
    BY <1>7, <1>9 DEF OnJob
  <2>4. OnePlace'
    BY <1>1, <1>4, <1>8, <2>2, <2>3, Zenon DEF DgInv, OnePlace
  <2>5. Once' /\ JobsInv'
    BY <1>1, <1>7, <1>9, <2>2 DEF DgInv, Once, JobsInv
  <2> QED BY <1>6, <1>7, <1>9, <2>4, <2>5 DEF DgInv
<1>10. CASE /\ jobs' = jobs \cup {Job(TaskBatches[processor.cands[1]], <<processor.cands[1]>>,
                                      BatchBytes(TaskBatches[processor.cands[1]]))}
            /\ processor' = [processor EXCEPT !.at = "tasks", !.cands = <<>>]
            /\ UNCHANGED taskq
  <2>1. PICK n : n = BatchBytes(TaskBatches[t])
    BY Zenon
  <2>2. PICK k : k = Job(TaskBatches[t], <<t>>, n)
    BY Zenon
  <2>3. jobs' = jobs \cup {k}
    BY <1>3, <1>10, <2>1, <2>2
  <2>4. /\ k = [batches |-> k.batches, task |-> k.task, bytes |-> k.bytes, req |-> k.req, at |-> k.at]
        /\ k.task = <<t>> /\ k.req = processor.req
    BY <2>2 DEF Job
  <2>5. JobsInv'
    BY <1>7, <1>10, <2>3, <2>4 DEF DgInv, JobsInv
  <2>6. \A j \in jobs : j.task # <<t>>
    BY <1>5, Zenon DEF OnJob
  <2>7. \A i, j \in jobs : i.task = j.task /\ i.task # <<>> => i = j
    BY Zenon DEF DgInv, Once
  <2>8. \A i, j \in jobs' : i.task = j.task /\ i.task # <<>> => i = j
    BY <2>3, <2>4, <2>6, <2>7
  <2>9. Once'
    BY <1>1, <1>10, <2>8 DEF DgInv, Once
  <2>10. \A u \in DgTasks : (OnJob(u)' <=> OnJob(u) \/ u = t) /\ ~InHand(u)'
    <3> TAKE u \in DgTasks
    <3>1. ~InHand(u)'
      BY <1>7, <1>10
    <3>2. <<t>> = <<u>> <=> t = u
      BY TaskTuple, Zenon
    <3>3. k.task = <<u>> <=> u = t
      BY <2>4, <3>2
    <3> QED BY <2>3, <3>1, <3>3, Zenon DEF OnJob
  <2>11. OnePlace'
    BY <1>1, <1>4, <1>8, <1>10, <2>10, Zenon DEF DgInv, OnePlace
  <2> QED BY <1>6, <1>7, <1>10, <2>5, <2>9, <2>11 DEF DgInv
<1> QED BY <1>9, <1>10 DEF DispatchTask

\* The promise is set once the pool has no job.
LEMMA SetValueKeeps ==
  ASSUME DgInv, SetValue
  PROVE  DgInv'
<1>1. /\ processor.at = "wait" /\ jobs = {}
      /\ UNCHANGED <<loc, reading, taskq, rqueue, jobs, dgpool, drainer, dgworker, done>>
  BY DEF SetValue, WaitsForJobs
<1>2. PICK r \in DOMAIN dgrequests : r = processor.req /\ dgrequests[r].state = "processing"
  BY <1>1 DEF DgInv, ProcessorInv, Serving
<1>3. dgrequests' = SetState(r, "resolved")
  BY <1>2 DEF SetValue
<1>4. /\ RequestsInv' /\ DOMAIN dgrequests' = DOMAIN dgrequests
      /\ \A i \in DOMAIN dgrequests : i # r => dgrequests'[i] = dgrequests[i]
      /\ dgrequests'[r].state = "resolved" /\ dgrequests'[r].kind = dgrequests[r].kind
  BY <1>3, StateSet DEF DgInv
<1>5. QueueInv'
  BY <1>1, <1>2, <1>4, QueueFrame DEF DgInv
<1>6. Awaited'
  BY <1>1, <1>2, <1>4, AwaitedFrame DEF DgInv, Fulfilled
<1>7. processor' = Exited \/ processor' = Popping
  BY DEF SetValue
<1>8. ProcessorInv' /\ JobsInv' /\ \A t \in DgTasks : ~InHand(t)' /\ ~InHand(t)
  BY <1>1, <1>7 DEF ProcessorInv, JobsInv, Serving, InHand, Exited, Popping
<1>9. WorkersInv' /\ Once'
  BY <1>1 DEF DgInv, WorkersInv, Once
<1>10. \A t \in DgTasks : (OnJob(t)' <=> OnJob(t)) /\ (WithWorker(t)' <=> WithWorker(t))
  BY <1>1 DEF OnJob, WithWorker
<1>11. OnePlace'
  BY <1>1, <1>8, <1>10, PlacesFrame DEF DgInv
<1> QED BY <1>4, <1>5, <1>6, <1>8, <1>9, <1>11, Zenon DEF DgInv

\* A job of the pool goes on with the task it holds.
LEMMA JobMoves ==
  ASSUME DgInv, NEW j \in jobs, NEW a, jobs' = Became(j, [j EXCEPT !.at = a]),
         UNCHANGED <<taskq, rqueue, processor, dgworker, done>>
  PROVE  JobsInv' /\ WorkersInv' /\ OnePlace' /\ Once'
<1>1. PICK k : k = [j EXCEPT !.at = a]
  BY Zenon
<1>2. /\ k = [batches |-> j.batches, task |-> j.task, bytes |-> j.bytes, req |-> j.req, at |-> a]
      /\ k.task = j.task /\ k.req = j.req
  BY <1>1 DEF DgInv, JobsInv
<1>3. jobs' = (jobs \ {j}) \cup {k}
  BY <1>1 DEF Became
<1>4. JobsInv'
  BY <1>2, <1>3 DEF DgInv, JobsInv
<1>5. \A t \in DgTasks : OnJob(t)' <=> OnJob(t)
  BY <1>2, <1>3, Zenon DEF OnJob
<1>6. \A t \in DgTasks : (InHand(t)' <=> InHand(t)) /\ (WithWorker(t)' <=> WithWorker(t))
  BY DEF InHand, WithWorker
<1>7. OnePlace'
  BY <1>5, <1>6, PlacesFrame DEF DgInv
<1>8. \A i, l \in jobs : i.task = l.task /\ i.task # <<>> => i = l
  BY Zenon DEF DgInv, Once
<1>9. \A i, l \in jobs' : i.task = l.task /\ i.task # <<>> => i = l
  BY <1>2, <1>3, <1>8
<1>10. Once' /\ WorkersInv'
  BY <1>9 DEF DgInv, Once, WorkersInv
<1> QED BY <1>4, <1>7, <1>10

\* The request a job works for is being served.
LEMMA JobRequest ==
  ASSUME DgInv, NEW j \in jobs
  PROVE  /\ j.req \in DOMAIN dgrequests /\ dgrequests[j.req].state = "processing"
         /\ RequestShape(dgrequests[j.req])
BY DEF DgInv, JobsInv, ProcessorInv, RequestsInv

\* A job converts its batches and counts their bytes.
LEMMA ConvertKeeps ==
  ASSUME DgInv, NEW j \in jobs, Convert(j)
  PROVE  DgInv'
<1> DEFINE r == j.req
<1>1. UNCHANGED <<reading, taskq, rqueue, processor, dgpool, drainer, dgworker, done>>
  BY DEF Convert
<1>2. r \in DOMAIN dgrequests /\ RequestShape(dgrequests[r])
  BY JobRequest
<1>3. \E a : jobs' = Became(j, [j EXCEPT !.at = a])
  BY Zenon DEF Convert
<1>4. JobsInv' /\ WorkersInv' /\ OnePlace' /\ Once'
  BY <1>1, <1>3, JobMoves
<1>5. /\ RequestsInv' /\ DOMAIN dgrequests' = DOMAIN dgrequests
      /\ \A i \in DOMAIN dgrequests : /\ dgrequests'[i].state = dgrequests[i].state
                                      /\ dgrequests'[i].kind = dgrequests[i].kind
  <2>1. CASE UNCHANGED dgrequests
    BY <2>1 DEF DgInv, RequestsInv
  <2>2. ASSUME NEW f, NEW m,
               dgrequests' = [dgrequests EXCEPT ![r].freed = @ + f, ![r].moved = @ + m]
        PROVE  /\ RequestsInv' /\ DOMAIN dgrequests' = DOMAIN dgrequests
               /\ \A i \in DOMAIN dgrequests : /\ dgrequests'[i].state = dgrequests[i].state
                                               /\ dgrequests'[i].kind = dgrequests[i].kind
    <3>1. PICK p : p = dgrequests[r]
      BY Zenon
    <3>2. PICK q : q = [p EXCEPT !.freed = p.freed + f, !.moved = p.moved + m]
      BY Zenon
    <3>3. RequestShape(q) /\ q.state = p.state /\ q.kind = p.kind
      BY <1>2, <3>1, <3>2, Zenon DEF RequestShape
    <3>4. dgrequests' = [dgrequests EXCEPT ![r] = q]
      <4>1. p = [kind |-> p.kind, state |-> p.state, freed |-> p.freed, moved |-> p.moved,
                 satisfied |-> p.satisfied, taken |-> p.taken]
        BY <1>2, <3>1 DEF RequestShape
      <4>2. dgrequests = [i \in DOMAIN dgrequests |-> dgrequests[i]]
        BY DEF DgInv, RequestsInv, IsSeq
      <4> QED BY <1>2, <2>2, <3>1, <3>2, <4>1, <4>2, Zenon
    <3> QED BY <1>2, <3>1, <3>3, <3>4, RequestChanged, Zenon DEF DgInv
  <2>3. \/ UNCHANGED dgrequests
        \/ \E f, m : dgrequests' = [dgrequests EXCEPT ![r].freed = @ + f, ![r].moved = @ + m]
    BY Zenon DEF Convert
  <2> QED BY <2>1, <2>2, <2>3, Zenon
<1>6. QueueInv' /\ ProcessorInv' /\ Awaited'
  BY <1>1, <1>5, FieldsChanged
<1> QED BY <1>4, <1>5, <1>6 DEF DgInv

\* A job asks the predicate, which may take the reservation.
LEMMA PredicateKeeps ==
  ASSUME DgInv, NEW j \in jobs, Predicate(j)
  PROVE  DgInv'
<1> DEFINE r == j.req
<1>1. UNCHANGED <<loc, reading, taskq, rqueue, processor, dgpool, drainer, dgworker, done>>
  BY DEF Predicate
<1>2. r \in DOMAIN dgrequests /\ RequestShape(dgrequests[r])
  BY JobRequest
<1>3. JobsInv' /\ WorkersInv' /\ OnePlace' /\ Once'
  BY <1>1, JobMoves DEF Predicate
<1>4. PICK k, h : dgrequests' = [dgrequests EXCEPT ![r].taken = k, ![r].satisfied = h]
  BY Zenon DEF Predicate
<1>5. PICK p : p = dgrequests[r]
  BY Zenon
<1>6. PICK q : q = [p EXCEPT !.taken = k, !.satisfied = h]
  BY Zenon
<1>7. RequestShape(q) /\ q.state = p.state /\ q.kind = p.kind
  BY <1>2, <1>5, <1>6, Zenon DEF RequestShape
<1>8. dgrequests' = [dgrequests EXCEPT ![r] = q]
  <2>1. dgrequests = [i \in DOMAIN dgrequests |-> dgrequests[i]]
    BY DEF DgInv, RequestsInv, IsSeq
  <2> QED BY <1>2, <1>4, <1>5, <1>6, <2>1, Zenon
<1>9. /\ RequestsInv' /\ DOMAIN dgrequests' = DOMAIN dgrequests
      /\ \A i \in DOMAIN dgrequests : /\ dgrequests'[i].state = dgrequests[i].state
                                      /\ dgrequests'[i].kind = dgrequests[i].kind
  BY <1>2, <1>5, <1>7, <1>8, RequestChanged, Zenon DEF DgInv
<1>10. QueueInv' /\ ProcessorInv' /\ Awaited'
  BY <1>1, <1>9, FieldsChanged
<1> QED BY <1>3, <1>9, <1>10 DEF DgInv

\* The destructor of a candidate returns its task to the queue.
LEMMA DestroyKeeps ==
  ASSUME DgInv, NEW j \in jobs, Destroy(j)
  PROVE  DgInv'
<1>1. /\ taskq' = taskq \o j.task /\ jobs' = jobs \ {j}
      /\ UNCHANGED <<loc, reading, dgrequests, rqueue, processor, dgpool, drainer, dgworker, done>>
  BY SMTT(30) DEF Destroy
<1>2. RequestsInv' /\ QueueInv' /\ ProcessorInv' /\ JobsInv' /\ WorkersInv' /\ Awaited'
  BY <1>1 DEF DgInv, RequestsInv, QueueInv, ProcessorInv, JobsInv, WorkersInv, Awaited, Fulfilled
<1>3. \A i, l \in jobs : i.task = l.task /\ i.task # <<>> => i = l
  BY Zenon DEF DgInv, Once
<1>4. \A t \in DgTasks : (InHand(t)' <=> InHand(t)) /\ (WithWorker(t)' <=> WithWorker(t))
  BY <1>1 DEF InHand, WithWorker
<1>5. CASE j.task = <<>>
  <2>1. taskq' = taskq
    <3>1. taskq \in Seq(DgTasks) /\ taskq' = taskq \o <<>>
      BY <1>1, <1>5, Zenon DEF DgInv, Once
    <3> QED BY <3>1, ConcatFacts
  <2>2. \A t \in DgTasks : OnJob(t)' <=> OnJob(t)
    BY <1>1, <1>5, TaskTuple, Zenon DEF OnJob
  <2>3. OnePlace'
    BY <1>1, <1>4, <2>1, <2>2, PlacesFrame DEF DgInv
  <2>4. Once'
    BY <1>1, <1>3, <2>1 DEF DgInv, Once
  <2> QED BY <1>2, <2>3, <2>4, SMTT(30) DEF DgInv
<1>6. ASSUME NEW t \in DgTasks, j.task = <<t>> PROVE DgInv'
  <2>1. OnJob(t)
    BY <1>6 DEF OnJob
  <2>2. t \notin Range(taskq)
    BY <2>1, Zenon DEF DgInv, OnePlace
  <2>3. taskq' = Append(taskq, t)
    BY <1>1, <1>6 DEF DgInv, Once
  <2>4. /\ taskq' \in Seq(DgTasks) /\ IsInjective(taskq')
        /\ Range(taskq') = Range(taskq) \cup {t}
    BY <2>2, <2>3, QueuedOnce DEF DgInv, Once
  <2>5. <<t>> # <<>>
    BY TaskTuple, Zenon
  <2>6. \A u \in DgTasks : OnJob(u)' <=> OnJob(u) /\ u # t
    <3> TAKE u \in DgTasks
    <3>1. (<<t>> = <<u>> <=> t = u) /\ <<u>> # <<>>
      BY TaskTuple, Zenon
    <3>2. ASSUME NEW i \in jobs, i.task = <<u>> PROVE i \in jobs' <=> u # t
      BY <1>1, <1>3, <1>6, <3>1, <3>2, <2>5, Zenon
    <3> QED BY <1>1, <3>2, Zenon DEF OnJob
  <2>7. OnePlace'
    BY <1>1, <1>4, <2>1, <2>4, <2>6, ZenonT(30) DEF DgInv, OnePlace
  <2>8. Once'
    BY <1>1, <1>3, <2>4 DEF DgInv, Once
  <2> QED BY <1>2, <2>7, <2>8 DEF DgInv
<1> QED BY <1>5, <1>6 DEF DgInv, JobsInv

\* drain() cancels the requests that are still queued.
LEMMA FinishDrainKeeps ==
  ASSUME DgInv, FinishDrain
  PROVE  DgInv'
<1>1. /\ processor.at = "exited" /\ jobs = {}
      /\ UNCHANGED <<loc, reading, taskq, jobs, dgworker, done>>
  BY DEF FinishDrain
<1>2. processor' = Exited \/ processor' = Popping
  BY DEF FinishDrain
<1>3. ProcessorInv' /\ JobsInv' /\ \A t \in DgTasks : ~InHand(t)' /\ ~InHand(t)
  BY <1>1, <1>2 DEF ProcessorInv, JobsInv, Serving, InHand, Exited, Popping
<1>4. WorkersInv' /\ Once'
  BY <1>1 DEF DgInv, WorkersInv, Once
<1>5. \A t \in DgTasks : (OnJob(t)' <=> OnJob(t)) /\ (WithWorker(t)' <=> WithWorker(t))
  BY <1>1 DEF OnJob, WithWorker
<1>6. OnePlace'
  BY <1>1, <1>3, <1>5, PlacesFrame DEF DgInv
<1>7. QueueInv'
  <2>1. PICK a : rqueue' = [items |-> <<>>, active |-> a]
    BY Zenon DEF FinishDrain
  <2> QED BY <2>1 DEF QueueInv, IsInjective
<1>8. dgrequests' = [r \in DOMAIN dgrequests |->
                      IF r \in Range(rqueue.items) THEN [dgrequests[r] EXCEPT !.state = "cancelled"]
                      ELSE dgrequests[r]]
  BY DEF FinishDrain, Cancels
<1>9. DOMAIN dgrequests' = DOMAIN dgrequests
  BY <1>8
<1>10. ASSUME NEW r \in DOMAIN dgrequests
       PROVE  /\ RequestShape(dgrequests'[r]) /\ dgrequests'[r].kind = dgrequests[r].kind
              /\ dgrequests'[r].state = dgrequests[r].state \/ dgrequests'[r].state = "cancelled"
  <2>1. RequestShape(dgrequests[r])
    BY DEF DgInv, RequestsInv
  <2>2. PICK q : q = [dgrequests[r] EXCEPT !.state = "cancelled"]
    BY Zenon
  <2>3. RequestShape(q) /\ q.kind = dgrequests[r].kind /\ q.state = "cancelled"
    BY <2>1, <2>2 DEF RequestShape
  <2>4. dgrequests'[r] = q \/ dgrequests'[r] = dgrequests[r]
    BY <1>8, <2>2
  <2> QED BY <2>1, <2>3, <2>4
<1>11. IsSeq(dgrequests')
  <2>1. PICK n \in Nat : DOMAIN dgrequests = 1 .. n
    BY DEF DgInv, RequestsInv, IsSeq
  <2>2. dgrequests' \in [1 .. n -> {dgrequests'[i] : i \in 1 .. n}]
    BY <1>8, <2>1
  <2>3. dgrequests' \in Seq({dgrequests'[i] : i \in 1 .. n})
    BY <2>1, <2>2
  <2> QED BY <2>3 DEF IsSeq
<1>12. RequestsInv'
  BY <1>9, <1>10, <1>11 DEF RequestsInv
<1>13. Awaited'
  BY <1>1, <1>9, <1>10, AwaitedFrame DEF DgInv, Fulfilled
<1> QED BY <1>3, <1>4, <1>6, <1>7, <1>12, <1>13, Zenon DEF DgInv

\* Readers, and the thread in drain() until it joins, touch none of this.
LEMMA OthersKeep ==
  ASSUME DgInv, StartDrain \/ InterruptQueue \/ (\E b \in DgBatches : ReadBatch(b)) \/ UNCHANGED dgvars
  PROVE  DgInv'
<1>1. UNCHANGED <<taskq, dgrequests, processor, jobs, dgworker, done>>
  BY DEF StartDrain, InterruptQueue, ReadBatch, dgvars
<1>2. rqueue' = rqueue \/ rqueue' = [rqueue EXCEPT !.active = FALSE]
  BY DEF StartDrain, InterruptQueue, ReadBatch, dgvars
<1>3. QueueInv'
  BY <1>1, <1>2, SMTT(30) DEF DgInv, QueueInv
<1>4. RequestsInv' /\ ProcessorInv' /\ JobsInv' /\ WorkersInv' /\ Awaited'
  BY <1>1, SMTT(30) DEF DgInv, RequestsInv, ProcessorInv, JobsInv, WorkersInv, Awaited, Fulfilled
<1>5. OnePlace' /\ Once'
  BY <1>1, Zenon DEF DgInv, OnePlace, Once, OnJob, InHand, WithWorker
<1> QED BY <1>3, <1>4, <1>5 DEF DgInv

\* Every task starts in the queue.
LEMMA InitialDowngrade == DgInit => DgInv
<1> SUFFICES ASSUME DgInit PROVE DgInv
  OBVIOUS
<1>1. dgrequests = <<>> /\ jobs = {} /\ done = {} /\ taskq = QueuedTasks
  BY DEF DgInit
<1>2. RequestsInv /\ Awaited
  BY <1>1 DEF RequestsInv, Awaited, IsSeq
<1>3. QueueInv
  BY DEF DgInit, QueueInv, IsInjective
<1>4. ProcessorInv /\ JobsInv
  BY <1>1 DEF DgInit, ProcessorInv, JobsInv, Serving, Popping, Exited
<1>5. WorkersInv /\ \A w \in DgWorkers : dgworker[w].task = <<>>
  BY DEF DgInit, WorkersInv
<1>6. \A t \in DgTasks : ~OnJob(t) /\ ~WithWorker(t) /\ ~InHand(t) /\ t \in Range(taskq)
  <2>1. processor.at = "pop"
    BY DEF DgInit, Popping, Exited
  <2>2. \A t \in DgTasks : ~WithWorker(t)
    BY <1>5, TaskTuple, Zenon DEF WithWorker
  <2> QED BY <1>1, <2>1, <2>2, DowngradeAssumption DEF OnJob, InHand
<1>7. OnePlace
  BY <1>1, <1>6, Zenon DEF OnePlace
<1>8. Once
  BY <1>1, <1>5, DowngradeAssumption DEF Once
<1> QED BY <1>2, <1>3, <1>4, <1>5, <1>7, <1>8 DEF DgInv

\* Every step of the downgrade executor and of the workers keeps the invariant.
LEMMA DowngradeStep == DgInv /\ [DgNext]_dgvars => DgInv'
<1> SUFFICES ASSUME DgInv, [DgNext]_dgvars PROVE DgInv'
  OBVIOUS
<1>1. CASE Threads
  <2>1. CASE PopRequest \/ FromRepository \/ BorrowTask \/ DispatchTask \/ SetValue
    BY <2>1, PopRequestKeeps, FromRepositoryKeeps, BorrowTaskKeeps, DispatchTaskKeeps, SetValueKeeps
  <2>2. CASE \E j \in jobs : Convert(j) \/ Predicate(j) \/ Destroy(j)
    BY <2>2, ConvertKeeps, PredicateKeeps, DestroyKeeps
  <2>3. CASE \E r \in DOMAIN dgrequests : Enqueue(r)
    BY <2>3, EnqueueKeeps
  <2>4. CASE InterruptQueue \/ FinishDrain
    BY <2>4, FinishDrainKeeps, OthersKeep
  <2> QED BY <1>1, <2>1, <2>2, <2>3, <2>4 DEF Threads
<1>2. CASE monitor_loop
  BY <1>2, MonitorKeeps
<1>3. ASSUME NEW w \in DgWorkers, DgWorker(w) PROVE DgInv'
  BY <1>3, TakeDgTaskKeeps, AcquireKeeps, AnsweredKeeps, RunTaskKeeps DEF DgWorker
<1>4. CASE StartDrain \/ (\E b \in DgBatches : ReadBatch(b)) \/ UNCHANGED dgvars
  BY <1>4, OthersKeep
<1> QED BY <1>1, <1>2, <1>3, <1>4 DEF DgNext

\* A place says which kind of place it is and, but for the last two, which one.
LEMMA PlaceKinds ==
  ASSUME NEW t, NEW p
  PROVE  p \in Places(t) <=>
            \/ \E i \in DOMAIN taskq : taskq[i] = t /\ p = <<"queue", i>>
            \/ \E j \in jobs : j.task = <<t>> /\ p = <<"job", j>>
            \/ \E w \in DgWorkers : dgworker[w].task = <<t>> /\ p = <<"worker", w>>
            \/ InHand(t) /\ p = <<"hand", <<t>>>>
            \/ t \in done /\ p = <<"done", t>>
BY Zenon DEF Places, InHand

\* The invariant gives the property.
LEMMA DowngradeInvariantSuffices == DgInv => BorrowingSound
<1> SUFFICES ASSUME DgInv PROVE BorrowingSound
  OBVIOUS
<1>1. TasksConserved
  <2> SUFFICES ASSUME NEW t \in DgTasks
               PROVE  /\ Places(t) # {} /\ \A p, q \in Places(t) : p = q
                      /\ processor.at \in {"pop", "exited"} => \A j \in jobs : j.task # <<t>>
    BY Zenon DEF TasksConserved
  <2>1. /\ t \in Range(taskq) \/ OnJob(t) \/ InHand(t) \/ WithWorker(t) \/ t \in done
        /\ t \in Range(taskq) => ~OnJob(t) /\ ~InHand(t) /\ ~WithWorker(t) /\ t \notin done
        /\ OnJob(t) => ~InHand(t) /\ ~WithWorker(t) /\ t \notin done
        /\ InHand(t) => ~WithWorker(t) /\ t \notin done
        /\ WithWorker(t) => t \notin done
    BY Zenon DEF DgInv, OnePlace
  <2>2. Places(t) # {}
    <3>1. \E p : p \in Places(t)
      <4>1. CASE t \in Range(taskq)
        <5>1. PICK i \in DOMAIN taskq : taskq[i] = t
          BY <4>1, Zenon DEF Range
        <5> QED BY <5>1, PlaceKinds, Zenon
      <4>2. CASE OnJob(t)
        BY <4>2, PlaceKinds, Zenon DEF OnJob
      <4>3. CASE WithWorker(t)
        BY <4>3, PlaceKinds, Zenon DEF WithWorker
      <4>4. CASE InHand(t) \/ t \in done
        BY <4>4, PlaceKinds, Zenon
      <4> QED BY <2>1, <4>1, <4>2, <4>3, <4>4, Zenon
    <3> QED BY <3>1, Zenon
  <2>3. ASSUME NEW p \in Places(t), NEW q \in Places(t) PROVE p = q
    <3>1. <<t>> # <<>>
      BY TaskTuple, Zenon
    <3>2. CASE t \in Range(taskq)
      <4>1. PICK i \in DOMAIN taskq : taskq[i] = t /\ p = <<"queue", i>>
        BY <2>1, <3>2, PlaceKinds, ZenonT(30) DEF OnJob, WithWorker
      <4>2. PICK k \in DOMAIN taskq : taskq[k] = t /\ q = <<"queue", k>>
        BY <2>1, <3>2, PlaceKinds, ZenonT(30) DEF OnJob, WithWorker
      <4>3. i = k
        BY <4>1, <4>2, Zenon DEF DgInv, Once, IsInjective
      <4> QED BY <4>1, <4>2, <4>3, Zenon
    <3>3. CASE OnJob(t)
      <4>1. PICK j \in jobs : j.task = <<t>> /\ p = <<"job", j>>
        BY <2>1, <3>3, PlaceKinds, Zenon DEF Range, WithWorker
      <4>2. PICK k \in jobs : k.task = <<t>> /\ q = <<"job", k>>
        BY <2>1, <3>3, PlaceKinds, Zenon DEF Range, WithWorker
      <4>3. \A x, y \in jobs : x.task = y.task /\ x.task # <<>> => x = y
        BY Zenon DEF DgInv, Once
      <4>4. j = k
        BY <3>1, <4>1, <4>2, <4>3, Zenon
      <4> QED BY <4>1, <4>2, <4>4, Zenon
    <3>4. CASE WithWorker(t)
      <4>1. PICK w \in DgWorkers : dgworker[w].task = <<t>> /\ p = <<"worker", w>>
        BY <2>1, <3>4, PlaceKinds, Zenon DEF Range, OnJob
      <4>2. PICK v \in DgWorkers : dgworker[v].task = <<t>> /\ q = <<"worker", v>>
        BY <2>1, <3>4, PlaceKinds, ZenonT(30) DEF Range, OnJob
      <4>3. w = v
        BY <4>1, <4>2, OneWorkerEach, Zenon DEF DgInv
      <4> QED BY <4>1, <4>2, <4>3, Zenon
    <3>5. CASE InHand(t)
      <4>1. ASSUME NEW x \in Places(t) PROVE x = <<"hand", <<t>>>>
        <5>1. \A i \in DOMAIN taskq : taskq[i] # t
          BY <2>1, <3>5, Zenon DEF Range
        <5>2. ~OnJob(t) /\ ~WithWorker(t) /\ ~(t \in done)
          BY <2>1, <3>5, Zenon
        <5> QED BY <4>1, <5>1, <5>2, PlaceKinds, Zenon DEF OnJob, WithWorker
      <4> QED BY <2>3, <4>1, Zenon
    <3>6. CASE t \in done
      <4>1. ASSUME NEW x \in Places(t) PROVE x = <<"done", t>>
        <5>1. \A i \in DOMAIN taskq : taskq[i] # t
          BY <2>1, <3>6, Zenon DEF Range
        <5>2. ~OnJob(t) /\ ~WithWorker(t) /\ ~InHand(t)
          BY <2>1, <3>6, Zenon
        <5> QED BY <4>1, <5>1, <5>2, PlaceKinds, Zenon DEF OnJob, WithWorker
      <4> QED BY <2>3, <4>1, Zenon
    <3> QED BY <2>1, <3>2, <3>3, <3>4, <3>5, <3>6, Zenon
  <2>4. processor.at \in {"pop", "exited"} => \A j \in jobs : j.task # <<t>>
    BY DEF DgInv, JobsInv, Serving
  <2> QED BY <2>2, <2>3, <2>4, Zenon
<1>2. PredicateInScope
  <2> SUFFICES ASSUME NEW j \in jobs, dgrequests[j.req].kind = "reserve"
               PROVE  \E w \in DgWorkers : dgworker[w].at = "wait" /\ dgworker[w].req = j.req
    BY DEF PredicateInScope
  <2>1. j.req \in DOMAIN dgrequests /\ dgrequests[j.req].state = "processing"
    BY JobRequest
  <2> QED BY <2>1 DEF DgInv, Awaited, Fulfilled
<1> QED BY <1>1, <1>2 DEF BorrowingSound

\* Under any interleaving of workers, processing_loop, the pool and drain(), every task
\* is at exactly one place - borrowed ones come back once, none is lost or run twice - and
\* a predicate that captures the variables of a waiting worker runs only while it waits.
THEOREM BorrowedTasksAreSafe == DgSpec => []BorrowingSound
<1>1. DgInit => DgInv
  BY InitialDowngrade
<1>2. DgInv /\ [DgNext]_dgvars => DgInv'
  BY DowngradeStep
<1>3. DgInv => BorrowingSound
  BY DowngradeInvariantSuffices
<1> QED BY <1>1, <1>2, <1>3, PTL DEF DgSpec

=============================================================================
