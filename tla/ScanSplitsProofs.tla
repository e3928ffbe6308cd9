------------------------- MODULE ScanSplitsProofs --------------------------
(***************************************************************************)
(* The rest of the proof that SsInv is an invariant of ScanSplits (the     *)
(* pool's threads, the workers that pull splits and the end of a query),   *)
(* and what follows from it: DispatchIsSound, and SplitsImplementStream,   *)
(* the refinement of the abstract stream of splits.  ScanSplitsInvariant   *)
(* defines the invariant and has the steps of the query's start.           *)
(***************************************************************************)
EXTENDS ScanSplitsInvariant

\* A step inside a body leaves its batch with its thread.
LEMMA BodyStep ==
  ASSUME SsInv, NEW t \in PoolThreads, NEW p, NEW n, ThreadMoves(t, p, thread[t].task, n),
         p \in {"push", "done", "drop"}, thread[t].pc \in {"begin", "push", "done"},
         p = "push" => n \in 1 .. SplitsPer
  PROVE  /\ \A u \in PoolThreads :
               /\ thread'[u] = [pc |-> thread'[u].pc, task |-> thread'[u].task, left |-> thread'[u].left]
               /\ thread'[u].pc \in {"idle", "begin", "push", "done", "drop"}
               /\ Live(u)' => thread'[u].task \in SplitTasks
               /\ thread'[u].pc = "push" => thread'[u].left \in 1 .. SplitsPer
         /\ thread' = [u \in PoolThreads |-> thread'[u]]
         /\ \A u \in PoolThreads : (Live(u)' <=> Live(u)) /\ thread'[u].task = thread[u].task
<1>1. /\ thread' = [u \in PoolThreads |-> thread'[u]]
      /\ thread'[t] = [pc |-> p, task |-> thread[t].task, left |-> n]
      /\ \A u \in PoolThreads : u # t => thread'[u] = thread[u]
  BY DEF ThreadMoves
<1> QED BY <1>1 DEF SsInv, PoolShapes, Live

\* A body starts: the batch is read, or the read fails, or the stop is seen.
LEMMA BeginTaskKeeps == ASSUME SsInv, NEW t \in PoolThreads, BeginTask(t) PROVE SsInv'
<1> USE DEF SsInv
<1>1. /\ thread[t].pc = "begin"
      /\ UNCHANGED <<connector, provider, holders, dispatcher, ssqueue, manager, puller, creation, scanned>>
  BY DEF BeginTask
<1>2. PICK y \in SplitTasks : y = thread[t].task
  BY <1>1 DEF PoolShapes, Live
<1>3. PICK s \in ScanIds : s = y[1]
  BY TaskFacts
<1>4. PICK p, n : /\ ThreadMoves(t, p, thread[t].task, n) /\ p \in {"push", "done"}
                  /\ p = "push" => n = SplitsPer
  BY <1>1, ThreadFacts
<1>5. \/ p = "done" /\ dispatcher.stop /\ failure' = failure
      \/ p = "push" /\ failure' = failure
      \/ p = "done" /\ failure' = [failure EXCEPT ![s] = TRUE]
  <2>1. thread'[t].pc = p
    BY <1>4 DEF ThreadMoves
  <2>2. thread = [u \in PoolThreads |-> thread[u]]
    BY DEF PoolShapes
  <2>3. thread[t] = [pc |-> thread[t].pc, task |-> thread[t].task, left |-> thread[t].left]
    BY DEF PoolShapes
  <2> QED BY <1>2, <1>3, <1>4, <2>1, <2>2, <2>3 DEF BeginTask
<1>6. failure' = [r \in ScanIds |-> failure'[r]] /\ \A r \in ScanIds : failure[r] => failure'[r]
  BY <1>5, Zenon DEF SsShapes
<1>7. /\ \A u \in PoolThreads :
             /\ thread'[u] = [pc |-> thread'[u].pc, task |-> thread'[u].task, left |-> thread'[u].left]
             /\ thread'[u].pc \in {"idle", "begin", "push", "done", "drop"}
             /\ Live(u)' => thread'[u].task \in SplitTasks
             /\ thread'[u].pc = "push" => thread'[u].left \in 1 .. SplitsPer
      /\ thread' = [u \in PoolThreads |-> thread'[u]]
      /\ \A u \in PoolThreads : (Live(u)' <=> Live(u)) /\ thread'[u].task = thread[u].task
  <2>1. SplitsPer \in 1 .. SplitsPer
    BY SplitsAssumption
  <2> QED BY <1>1, <1>4, <2>1, BodyStep, Zenon
<1>8. Waiting' = Waiting
  BY <1>1 DEF Waiting
<1>9. SsShapes' /\ ManagerShape' /\ DispatcherInv' /\ DriveInv' /\ OutcomeInv'
  <2>1. SsShapes'
    BY <1>1, <1>6 DEF SsShapes
  <2>2. ManagerShape' /\ DispatcherInv' /\ DriveInv' /\ OutcomeInv'
    BY <1>1 DEF ManagerShape, DispatcherInv, DriveInv, OutcomeInv
  <2> QED BY <2>1, <2>2
<1>10. ErrorInv' /\ AllSplitsScanned'
  BY <1>1, <1>6 DEF ErrorInv, AllSplitsScanned
<1>11. PoolShapes' /\ PlacesInv'
  BY <1>1, <1>7, <1>8 DEF PoolShapes, PlacesInv
<1>12. HoldInv'
  BY <1>1, <1>7, <1>8 DEF HoldInv, Held
<1>13. \A r \in ScanIds : \A x \in Splits :
          /\ Arrived(r, x)' <=> Arrived(r, x)
          /\ Coming(r, x)' => Coming(r, x)
          /\ p = "push" \/ r # s => (Coming(r, x) => Coming(r, x)')
  <2> TAKE r \in ScanIds
  <2> TAKE x \in Splits
  <2>1. Arrived(r, x)' <=> Arrived(r, x)
    BY <1>1 DEF Arrived
  <2>2. ComingBy(thread[t].pc, y, thread[t].left, r, x) <=> y = <<r, x[1]>>
    BY <1>1 DEF ComingBy
  <2>3. ComingBy(p, y, n, r, x) => y = <<r, x[1]>>
    BY DEF ComingBy
  <2>4. y = <<r, x[1]>> => r = s
    BY <1>3
  <2>5. p = "push" /\ y = <<r, x[1]>> => ComingBy(p, y, n, r, x)
    <3>1. x[2] \in 1 .. SplitsPer /\ SplitsPer \in Nat
      BY SplitsAssumption DEF Splits
    <3>2. x[2] >= SplitsPer + 1 - SplitsPer
      BY <3>1
    <3> QED BY <1>4, <3>2 DEF ComingBy
  <2>6. ThreadMoves(t, p, y, n)
    BY <1>2, <1>4
  <2>7. /\ Coming(r, x) <=> \/ <<r, x[1]>> \in Waiting \/ ComingElse(t, r, x)
                            \/ ComingBy(thread[t].pc, y, thread[t].left, r, x)
        /\ Coming(r, x)' <=> \/ <<r, x[1]>> \in Waiting' \/ ComingElse(t, r, x)
                             \/ ComingBy(p, y, n, r, x)
    BY <1>2, <2>6, ComingMoves
  <2> QED BY <1>8, <2>1, <2>2, <2>3, <2>4, <2>5, <2>7, Zenon
<1>14. UniqueInv'
  <2>1. SplitsUnique'
    BY <1>1 DEF UniqueInv, SplitsUnique
  <2> QED BY <1>1, <1>13, <2>1 DEF UniqueInv
<1>15. ConserveInv'
  <2>1. CASE p = "push"
    BY <1>1, <1>6, <1>13, <2>1 DEF ConserveInv
  <2>2. CASE dispatcher.stop
    <3>1. \A r \in ScanIds : provider[r] = 0 \/ scanned[r].outcome # "none"
      BY <2>2, Settled DEF DispatcherInv, Ahead, Over
    <3>2. \A x \in Splits : x[1] > 0
      BY DEF Splits, Batches
    <3> QED BY <1>1, <3>1, <3>2 DEF ConserveInv
  <2>3. CASE failure' = [failure EXCEPT ![s] = TRUE]
    <3>1. failure'[s]
      BY <2>3 DEF SsShapes
    <3> QED BY <1>1, <1>6, <1>13, <3>1 DEF ConserveInv
  <2> QED BY <1>5, <2>1, <2>2, <2>3
<1>16. InflightExact'
  <2>1. /\ Cardinality(Busy) \in Nat /\ Cardinality(Busy') \in Nat
        /\ Cardinality(Busy') = Cardinality(Busy)
    BY <1>1, <1>4, CountMoves
  <2>2. Len(ssqueue) \in Nat /\ ssqueue' = ssqueue
    BY <1>1, LenOfSeq DEF PoolShapes
  <2>3. Len(ssqueue') + Cardinality(Busy') = Len(ssqueue) + Cardinality(Busy) + 0
    BY <2>1, <2>2
  <2>4. dispatcher'.inflight = dispatcher.inflight + 0 /\ dispatcher'.inflight <= MaxInflight
    BY <1>1 DEF PoolShapes, InflightExact
  <2> QED BY <1>11, <2>1, <2>3, <2>4, CountsKept
<1> QED BY <1>9, <1>10, <1>11, <1>12, <1>14, <1>15, <1>16

\* A split is pushed into the connector, which is open because the body holds it.
LEMMA PushSplitKeeps == ASSUME SsInv, NEW t \in PoolThreads, PushSplit(t) PROVE SsInv'
<1> USE DEF SsInv
<1>1. /\ thread[t].pc = "push"
      /\ UNCHANGED <<provider, holders, failure, dispatcher, ssqueue, manager, puller, creation, scanned>>
  BY DEF PushSplit
<1>2. PICK y \in SplitTasks : y = thread[t].task
  BY <1>1 DEF PoolShapes, Live
<1>3. PICK s \in ScanIds, b \in Batches : y = <<s, b>> /\ s = y[1] /\ b = y[2]
  BY TaskFacts
<1>4. PICK n \in 1 .. SplitsPer : n = thread[t].left
  BY <1>1 DEF PoolShapes
<1>5. SplitsPer \in Nat /\ n \in Nat /\ SplitsPer + 1 - n \in 1 .. SplitsPer
  BY SplitsAssumption
<1>6. PICK k \in 1 .. SplitsPer : k = SplitsPer + 1 - n
  BY <1>5
<1>7. PICK z \in Splits : z = <<b, k>> /\ z[1] = b /\ z[2] = k
  <2>1. <<b, k>> \in Splits /\ <<b, k>>[1] = b /\ <<b, k>>[2] = k
    BY DEF Splits
  <2> QED BY <2>1
<1>8. PICK p : p = IF n = 1 THEN "done" ELSE "push"
  OBVIOUS
<1>9. ThreadMoves(t, p, y, n - 1)
  BY <1>2, <1>4, <1>8, ThreadFacts
<1>10. connector' = [connector EXCEPT ![s] = push_split(@, z)]
  BY <1>2, <1>3, <1>4, <1>6, <1>7 DEF PushSplit
<1>11. /\ connector' = [r \in ScanIds |-> connector'[r]]
       /\ \A r \in ScanIds : r # s => connector'[r] = connector[r]
       /\ connector'[s] = [alive |-> connector[s].alive, splits |-> Append(connector[s].splits, z),
                           closed |-> connector[s].closed, exc |-> connector[s].exc]
  <2>1. /\ connector = [r \in ScanIds |-> connector[r]]
        /\ connector[s] = [alive |-> connector[s].alive, splits |-> connector[s].splits,
                           closed |-> connector[s].closed, exc |-> connector[s].exc]
    BY DEF SsShapes
  <2> QED BY <1>10, <2>1, Zenon DEF push_split
<1>12. \A r \in ScanIds : /\ connector'[r].closed = connector[r].closed
                          /\ connector'[r].exc = connector[r].exc
  BY <1>11
<1>13. connector[s].splits \in Seq(Splits) /\ IsInjective(connector[s].splits)
  BY DEF SsShapes, UniqueInv, SplitsUnique
<1>14. Held(y)
  BY <1>1, <1>2, HeldTasks, Zenon DEF Live
<1>15. b \in holders[s] /\ b <= provider[s] /\ ~connector[s].closed
  BY <1>3, <1>14 DEF Held, HoldInv
<1>16. ComingBy(thread[t].pc, y, n, s, z)
  <2>1. z[2] >= SplitsPer + 1 - n
    BY <1>5, <1>6, <1>7
  <2> QED BY <1>1, <1>3, <1>7, <2>1 DEF ComingBy
<1>17. \A r \in ScanIds : \A x \in Splits :
          /\ Coming(r, x) <=> \/ <<r, x[1]>> \in Waiting \/ ComingElse(t, r, x)
                              \/ ComingBy(thread[t].pc, y, n, r, x)
          /\ Coming(r, x)' <=> \/ <<r, x[1]>> \in Waiting' \/ ComingElse(t, r, x)
                               \/ ComingBy(p, y, n - 1, r, x)
  BY <1>2, <1>4, <1>9, ComingMoves, Zenon
<1>18. Waiting' = Waiting
  BY <1>1 DEF Waiting
<1>19. ~Arrived(s, z)
  BY <1>16, <1>17, Zenon DEF UniqueInv
<1>20. /\ Append(connector[s].splits, z) \in Seq(Splits) /\ IsInjective(Append(connector[s].splits, z))
       /\ Range(Append(connector[s].splits, z)) = Range(connector[s].splits) \cup {z}
  BY <1>13, <1>19, AppendFacts DEF Arrived
<1>21. \A r \in ScanIds : \A x \in Splits : Arrived(r, x)' <=> Arrived(r, x) \/ (r = s /\ x = z)
  <2> TAKE r \in ScanIds
  <2> TAKE x \in Splits
  <2>1. CASE r = s
    <3>1. connector'[s].splits = Append(connector[s].splits, z)
      BY <1>11
    <3> QED BY <1>1, <1>20, <2>1, <3>1, Zenon DEF Arrived
  <2>2. CASE r # s
    BY <1>1, <1>11, <2>2 DEF Arrived
  <2> QED BY <2>1, <2>2
<1>22. \A r \in ScanIds : \A x \in Splits :
          /\ Coming(r, x)' => Coming(r, x)
          /\ Coming(r, x) => Coming(r, x)' \/ (r = s /\ x = z)
  <2> TAKE r \in ScanIds
  <2> TAKE x \in Splits
  <2>1. x[2] \in 1 .. SplitsPer /\ x[1] \in Batches /\ x = <<x[1], x[2]>>
    BY DEF Splits
  <2>2. CASE y # <<r, x[1]>>
    BY <1>17, <1>18, <2>2, Zenon DEF ComingBy
  <2>3. CASE y = <<r, x[1]>>
    <3>1. r = s /\ x[1] = b
      BY <1>3, <2>3
    <3>2. x[2] = k => x = z
      BY <1>7, <2>1, <3>1
    <3>3. ComingBy(thread[t].pc, y, n, r, x) <=> x[2] >= SplitsPer + 1 - n
      BY <1>1, <2>3 DEF ComingBy
    <3>4. ComingBy(p, y, n - 1, r, x) <=> p = "push" /\ x[2] >= SplitsPer + 1 - (n - 1)
      BY <1>8, <2>3 DEF ComingBy
    <3>5. /\ x[2] >= SplitsPer + 1 - (n - 1) => x[2] >= SplitsPer + 1 - n
          /\ x[2] >= SplitsPer + 1 - n => x[2] = k \/ x[2] >= SplitsPer + 1 - (n - 1)
          /\ x[2] >= SplitsPer + 1 - (n - 1) => n # 1
      BY <1>4, <1>5, <1>6, <2>1
    <3> QED BY <1>8, <1>17, <1>18, <3>1, <3>2, <3>3, <3>4, <3>5, Zenon
  <2> QED BY <2>2, <2>3
<1>23. ~Coming(s, z)'
  <2>1. <<s, b>> \notin Waiting
    BY <1>1, <1>2, <1>3, ZenonT(30) DEF PlacesInv, Live
  <2>2. ~ComingElse(t, s, z)
    <3>1. ASSUME NEW u \in PoolThreads, u # t, Live(u) PROVE thread[u].task # <<s, b>>
      BY <1>1, <1>2, <1>3, <3>1, Zenon DEF PlacesInv, Live
    <3> QED BY <1>7, <3>1 DEF ComingElse, ToRead, ToPush, Live
  <2>3. ~ComingBy(p, y, n - 1, s, z)
    <3>1. ~(k >= SplitsPer + 1 - (n - 1))
      BY <1>5, <1>6
    <3> QED BY <1>7, <1>8, <3>1 DEF ComingBy
  <2> QED BY <1>7, <1>17, <1>18, <2>1, <2>2, <2>3
<1>24. SsShapes'
  <2>1. \A r \in ScanIds :
           /\ connector'[r] = [alive |-> connector'[r].alive, splits |-> connector'[r].splits,
                               closed |-> connector'[r].closed, exc |-> connector'[r].exc]
           /\ connector'[r].splits \in Seq(Splits)
    <3> TAKE r \in ScanIds
    <3>1. CASE r = s
      <4>1. connector'[s].splits = Append(connector[s].splits, z)
        BY <1>11
      <4>2. connector'[s] = [alive |-> connector'[s].alive, splits |-> connector'[s].splits,
                             closed |-> connector'[s].closed, exc |-> connector'[s].exc]
        BY <1>11, SMTT(30)
      <4> QED BY <1>20, <3>1, <4>1, <4>2, SMTT(30)
    <3>2. CASE r # s
      BY <1>11, <3>2 DEF SsShapes
    <3> QED BY <3>1, <3>2
  <2> QED BY <1>1, <1>11, <2>1, SMTT(30) DEF SsShapes
<1>25. ManagerShape' /\ DispatcherInv' /\ AllSplitsScanned'
  BY <1>1, SMTT(30) DEF ManagerShape, DispatcherInv, AllSplitsScanned
<1>26. DriveInv'
  <2>1. \A q \in 1 .. Len(QueryScans) : \A j \in 1 .. Len(QueryScans[q]) : ScanAt(q, j) \in ScanIds
    BY ScanFacts
  <2> QED BY <1>1, <1>12, <2>1 DEF DriveInv
<1>27. OutcomeInv'
  <2>1. \A r \in ScanIds : scanned'[r].outcome = "finished" =>
                               connector'[r].closed /\ connector'[r].splits = <<>>
    BY <1>1, <1>11, <1>15, SMTT(30), Zenon DEF OutcomeInv
  <2> QED BY <1>1, <2>1 DEF OutcomeInv
<1>28. ErrorInv'
  BY <1>1, <1>12 DEF ErrorInv
<1>29. /\ \A u \in PoolThreads :
             /\ thread'[u] = [pc |-> thread'[u].pc, task |-> thread'[u].task, left |-> thread'[u].left]
             /\ thread'[u].pc \in {"idle", "begin", "push", "done", "drop"}
             /\ Live(u)' => thread'[u].task \in SplitTasks
             /\ thread'[u].pc = "push" => thread'[u].left \in 1 .. SplitsPer
      /\ thread' = [u \in PoolThreads |-> thread'[u]]
      /\ \A u \in PoolThreads : (Live(u)' <=> Live(u)) /\ thread'[u].task = thread[u].task
  <2>1. p = "push" => n - 1 \in 1 .. SplitsPer
    BY <1>5, <1>8
  <2>2. p \in {"push", "done", "drop"}
    BY <1>8
  <2> QED BY <1>1, <1>2, <1>9, <2>1, <2>2, BodyStep, Zenon
<1>30. PoolShapes' /\ PlacesInv'
  BY <1>1, <1>18, <1>29, SMTT(30) DEF PoolShapes, PlacesInv
<1>31. HoldInv'
  BY <1>1, <1>12, <1>18, <1>29 DEF HoldInv, Held
<1>32. ConserveInv'
  BY <1>1, <1>21, <1>22, ZenonT(30) DEF ConserveInv
<1>33. UniqueInv'
  <2>1. SplitsUnique'
    <3> SUFFICES ASSUME NEW r \in ScanIds
                 PROVE  /\ IsInjective(connector'[r].splits)
                        /\ Range(connector'[r].splits) \cap scanned'[r].taken = {}
      BY DEF SplitsUnique
    <3>1. CASE r = s
      <4>1. connector'[r].splits = Append(connector[s].splits, z)
        BY <1>11, <3>1, SMTT(30)
      <4> QED BY <1>1, <1>19, <1>20, <3>1, <4>1 DEF UniqueInv, SplitsUnique, Arrived
    <3>2. CASE r # s
      BY <1>1, <1>11, <3>2, SMTT(30) DEF UniqueInv, SplitsUnique
    <3> QED BY <3>1, <3>2
  <2>2. \A r \in ScanIds : \A x \in Splits : Arrived(r, x)' => x[1] <= provider[r] /\ ~Coming(r, x)'
    BY <1>7, <1>15, <1>21, <1>22, <1>23 DEF UniqueInv
  <2> QED BY <1>1, <2>1, <2>2, Zenon DEF UniqueInv
<1>34. InflightExact'
  <2>1. /\ Cardinality(Busy) \in Nat /\ Cardinality(Busy') \in Nat
        /\ Cardinality(Busy') = Cardinality(Busy)
    BY <1>1, <1>8, <1>9, CountMoves, SMTT(30), Zenon
  <2>2. Len(ssqueue) \in Nat /\ ssqueue' = ssqueue
    BY <1>1, LenOfSeq DEF PoolShapes
  <2>3. Len(ssqueue') + Cardinality(Busy') = Len(ssqueue) + Cardinality(Busy) + 0
    BY <2>1, <2>2
  <2>4. dispatcher'.inflight = dispatcher.inflight + 0 /\ dispatcher'.inflight <= MaxInflight
    BY <1>1 DEF PoolShapes, InflightExact
  <2> QED BY <1>30, <2>1, <2>3, <2>4, CountsKept
<1> QED BY <1>24, <1>25, <1>26, <1>27, <1>28, <1>30, <1>31, <1>32, <1>33, <1>34, Zenon

\* on_task_done(): the count goes down and a pending batch takes the place.
LEMMA OnTaskDoneKeeps == ASSUME SsInv, NEW t \in PoolThreads, OnTaskDone(t) PROVE SsInv'
<1> USE DEF SsInv
<1>1. /\ thread[t].pc = "done"
      /\ UNCHANGED <<connector, provider, holders, failure, manager, puller, creation, scanned>>
  BY DEF OnTaskDone
<1>2. PICK y : y = thread[t].task
  OBVIOUS
<1>3. ThreadMoves(t, "drop", y, thread[t].left)
  BY <1>2, ThreadFacts
<1>4. /\ dispatcher.pending \in Seq(SplitTasks) /\ ssqueue \in Seq(SplitTasks) /\ dispatcher.inflight \in Nat
      /\ IsInjective(ssqueue) /\ IsInjective(dispatcher.pending)
      /\ Range(ssqueue) \cap Range(dispatcher.pending) = {}
      /\ Len(ssqueue) \in Nat
  BY LenOfSeq DEF PoolShapes, PlacesInv
<1>5. /\ dispatcher' = [inflight |-> dispatcher'.inflight, pending |-> dispatcher'.pending,
                        stop |-> dispatcher'.stop]
      /\ dispatcher'.stop = dispatcher.stop
      /\ \/ /\ dispatcher.pending # <<>> /\ ssqueue' = Append(ssqueue, Head(dispatcher.pending))
            /\ dispatcher'.pending = Tail(dispatcher.pending) /\ dispatcher'.inflight = dispatcher.inflight
         \/ /\ dispatcher'.pending = dispatcher.pending /\ ssqueue' = ssqueue
            /\ dispatcher'.inflight = dispatcher.inflight - 1
  <2>1. dispatcher = [inflight |-> dispatcher.inflight, pending |-> dispatcher.pending, stop |-> dispatcher.stop]
    BY DEF PoolShapes
  <2> QED BY <2>1 DEF OnTaskDone
<1>6. dispatcher.inflight # 0
  BY <1>1, NoneBusy
<1>7. /\ ssqueue' \in Seq(SplitTasks) /\ dispatcher'.pending \in Seq(SplitTasks)
      /\ IsInjective(ssqueue') /\ IsInjective(dispatcher'.pending)
      /\ Range(ssqueue') \cap Range(dispatcher'.pending) = {}
      /\ Waiting' = Waiting
      /\ \/ Len(ssqueue') = Len(ssqueue) + 1 /\ dispatcher'.inflight = dispatcher.inflight
         \/ Len(ssqueue') = Len(ssqueue) /\ dispatcher'.inflight = dispatcher.inflight - 1
  <2>1. CASE dispatcher.pending # <<>> /\ ssqueue' = Append(ssqueue, Head(dispatcher.pending))
             /\ dispatcher'.pending = Tail(dispatcher.pending) /\ dispatcher'.inflight = dispatcher.inflight
    <3>1. PICK h : h = Head(dispatcher.pending)
      OBVIOUS
    <3>2. /\ dispatcher'.pending \in Seq(SplitTasks) /\ IsInjective(dispatcher'.pending)
          /\ Range(dispatcher'.pending) = Range(dispatcher.pending) \ {h}
          /\ h \in SplitTasks /\ h \in Range(dispatcher.pending)
      BY <1>4, <2>1, <3>1, TailFacts
    <3>3. h \notin Range(ssqueue)
      BY <1>4, <3>2
    <3>4. /\ ssqueue' \in Seq(SplitTasks) /\ IsInjective(ssqueue') /\ Range(ssqueue') = Range(ssqueue) \cup {h}
          /\ Len(ssqueue') = Len(ssqueue) + 1
      BY <1>4, <2>1, <3>1, <3>2, <3>3, AppendFacts
    <3> QED BY <1>4, <2>1, <3>2, <3>4 DEF Waiting
  <2>2. CASE dispatcher'.pending = dispatcher.pending /\ ssqueue' = ssqueue
             /\ dispatcher'.inflight = dispatcher.inflight - 1
    BY <1>4, <2>2 DEF Waiting
  <2> QED BY <1>5, <2>1, <2>2
<1>8. /\ \A u \in PoolThreads :
             /\ thread'[u] = [pc |-> thread'[u].pc, task |-> thread'[u].task, left |-> thread'[u].left]
             /\ thread'[u].pc \in {"idle", "begin", "push", "done", "drop"}
             /\ Live(u)' => thread'[u].task \in SplitTasks
             /\ thread'[u].pc = "push" => thread'[u].left \in 1 .. SplitsPer
      /\ thread' = [u \in PoolThreads |-> thread'[u]]
      /\ \A u \in PoolThreads : (Live(u)' <=> Live(u)) /\ thread'[u].task = thread[u].task
  BY <1>1, <1>2, <1>3, BodyStep, Zenon
<1>9. SsShapes' /\ ManagerShape' /\ DriveInv' /\ OutcomeInv' /\ ErrorInv' /\ AllSplitsScanned'
  <2>1. SsShapes' /\ ManagerShape'
    BY <1>1 DEF SsShapes, ManagerShape
  <2>2. DriveInv' /\ OutcomeInv'
    BY <1>1, ZenonT(30) DEF DriveInv, OutcomeInv
  <2>3. ErrorInv' /\ AllSplitsScanned'
    BY <1>1, Zenon DEF ErrorInv, AllSplitsScanned
  <2> QED BY <2>1, <2>2, <2>3
<1>10. PoolShapes'
  <2>1. dispatcher'.inflight \in Nat
    BY <1>4, <1>6, <1>7
  <2> QED BY <1>5, <1>7, <1>8, <2>1 DEF PoolShapes
<1>11. PlacesInv'
  BY <1>7, <1>8 DEF PlacesInv
<1>12. HoldInv'
  BY <1>1, <1>7, <1>8 DEF HoldInv, Held
<1>13. DispatcherInv'
  BY <1>1, <1>5, <1>6 DEF DispatcherInv
<1>14. \A s \in ScanIds : \A x \in Splits :
          (Arrived(s, x)' <=> Arrived(s, x)) /\ (Coming(s, x)' <=> Coming(s, x))
  <2> TAKE s \in ScanIds
  <2> TAKE x \in Splits
  <2>1. Arrived(s, x)' <=> Arrived(s, x)
    BY <1>1 DEF Arrived
  <2>2. ~ComingBy(thread[t].pc, thread[t].task, thread[t].left, s, x)
    BY <1>1 DEF ComingBy
  <2>3. ~ComingBy("drop", y, thread[t].left, s, x)
    BY DEF ComingBy
  <2> QED BY <1>3, <1>7, <2>1, <2>2, <2>3, ComingMoves, Zenon
<1>15. ConserveInv' /\ UniqueInv'
  <2>1. SplitsUnique'
    BY <1>1 DEF UniqueInv, SplitsUnique
  <2> QED BY <1>1, <1>14, <2>1 DEF ConserveInv, UniqueInv
<1>16. InflightExact'
  <2>1. /\ Cardinality(Busy) \in Nat /\ Cardinality(Busy') \in Nat
        /\ Cardinality(Busy') = Cardinality(Busy) - 1
    BY <1>1, <1>3, CountMoves
  <2>2. dispatcher.inflight <= MaxInflight /\ MaxInflight \in Nat
    BY SplitsAssumption DEF InflightExact
  <2>3. PICK d \in Int : /\ dispatcher'.inflight = dispatcher.inflight + d /\ d <= 0
                         /\ Len(ssqueue') = Len(ssqueue) + 1 + d
    <3>1. CASE Len(ssqueue') = Len(ssqueue) + 1 /\ dispatcher'.inflight = dispatcher.inflight
      <4> WITNESS 0 \in Int
      <4> QED BY <1>4, <3>1
    <3>2. CASE Len(ssqueue') = Len(ssqueue) /\ dispatcher'.inflight = dispatcher.inflight - 1
      <4> WITNESS -1 \in Int
      <4> QED BY <1>4, <3>2
    <3> QED BY <1>7, <3>1, <3>2
  <2>4. /\ Len(ssqueue') + Cardinality(Busy') = Len(ssqueue) + Cardinality(Busy) + d
        /\ dispatcher'.inflight <= MaxInflight
    BY <1>4, <2>1, <2>2, <2>3
  <2> QED BY <1>10, <2>1, <2>3, <2>4, CountsKept, SMTT(30)
<1> QED BY <1>9, <1>10, <1>11, <1>12, <1>13, <1>15, <1>16

\* The body is destroyed, and with it its hold on the provider's state.
LEMMA DropTaskKeeps == ASSUME SsInv, NEW t \in PoolThreads, DropTask(t) PROVE SsInv'
<1> USE DEF SsInv
<1>1. /\ thread[t].pc = "drop"
      /\ UNCHANGED <<provider, failure, dispatcher, ssqueue, manager, puller, creation, scanned>>
  BY DEF DropTask
<1>2. PICK y \in SplitTasks : y = thread[t].task
  BY <1>1 DEF PoolShapes, Live
<1>3. PICK s \in ScanIds, b \in Batches : y = <<s, b>> /\ s = y[1] /\ b = y[2] /\ b \in Nat \ {0}
  BY TaskFacts
<1>4. ThreadMoves(t, "idle", <<>>, 0)
  BY ThreadFacts
<1>5. /\ thread' = [u \in PoolThreads |-> thread'[u]]
      /\ thread'[t] = [pc |-> "idle", task |-> <<>>, left |-> 0]
      /\ \A u \in PoolThreads : u # t => thread'[u] = thread[u]
  BY <1>4 DEF ThreadMoves
<1>6. ReleaseOne(s, b)
  BY <1>2, <1>3 DEF DropTask
<1>7. /\ holders' = [r \in ScanIds |-> holders'[r]]
      /\ connector' = [r \in ScanIds |-> connector'[r]]
      /\ \A r \in ScanIds :
            /\ r # s => holders'[r] = holders[r] /\ connector'[r] = connector[r]
            /\ r = s => holders'[r] = holders[r] \ {b}
            /\ connector'[r] = [alive |-> connector'[r].alive, splits |-> connector'[r].splits,
                                closed |-> connector'[r].closed, exc |-> connector'[r].exc]
            /\ connector'[r].splits = connector[r].splits
            /\ connector[r].closed => connector'[r].closed
            /\ connector'[r].closed => holders'[r] = {}
            /\ connector'[r].exc => connector[r].exc \/ failure[r]
  BY <1>6, ReleaseOneFacts, Zenon
<1>8. Held(y) /\ y \notin Waiting
  BY <1>1, <1>2, HeldTasks DEF Live, PlacesInv
<1>9. provider[s] # 0
  <2>1. b <= provider[s] /\ provider[s] \in Nat
    BY <1>3, <1>8 DEF Held, SsShapes
  <2> QED BY <1>3, <2>1
<1>10. Waiting' = Waiting
  BY <1>1, ZenonT(30) DEF Waiting
<1>11. SsShapes' /\ ManagerShape'
  BY <1>1, <1>7 DEF SsShapes, ManagerShape
<1>12. DispatcherInv' /\ AllSplitsScanned' /\ ErrorInv'
  BY <1>1, <1>7 DEF DispatcherInv, AllSplitsScanned, ErrorInv
<1>13. PoolShapes'
  BY <1>1, <1>5 DEF PoolShapes, Live
<1>14. PlacesInv'
  BY <1>1, <1>5, <1>10 DEF PlacesInv, Live
<1>15. HoldInv'
  <2>1. ASSUME NEW x \in SplitTasks, Held(x), x # y PROVE Held(x)'
    <3>1. x[1] \in ScanIds /\ x = <<x[1], x[2]>>
      BY TaskFacts
    <3>2. CASE x[1] = s
      <4>1. x[2] # b
        BY <1>3, <2>1, <3>1, <3>2
      <4> QED BY <1>1, <1>7, <2>1, <3>1, <3>2, <4>1 DEF Held
    <3>3. CASE x[1] # s
      BY <1>1, <1>7, <2>1, <3>1, <3>3 DEF Held
    <3> QED BY <3>2, <3>3
  <2>2. \A x \in Waiting' : Held(x)'
    BY <1>8, <1>10, <2>1, HeldTasks
  <2>3. ASSUME NEW u \in PoolThreads, Live(u)' PROVE Held(thread[u].task)'
    <3>1. u # t /\ Live(u) /\ thread'[u].task = thread[u].task
      BY <1>5, <2>3 DEF Live
    <3>2. PICK x : x = thread[u].task
      OBVIOUS
    <3>3. x # y
      BY <1>1, <1>2, <3>1, <3>2, Zenon DEF PlacesInv, Live
    <3>4. Held(x)'
      BY <2>1, <3>1, <3>2, <3>3, HeldTasks, SMTT(30), Zenon
    <3> QED BY <3>1, <3>2, <3>4 DEF Held
  <2> QED BY <1>7, <2>2, <2>3 DEF HoldInv
<1>16. DriveInv'
  <2>1. ASSUME NEW q \in 1 .. Len(QueryScans), NEW j \in 1 .. Len(QueryScans[q])
        PROVE  /\ provider[ScanAt(q, j)] = 0 => connector'[ScanAt(q, j)] = connector[ScanAt(q, j)]
               /\ RunHolder \in holders[ScanAt(q, j)] => RunHolder \in holders'[ScanAt(q, j)]
    <3>1. ScanAt(q, j) \in ScanIds /\ b # RunHolder
      BY <1>3, ScanFacts, Zenon DEF RunHolder
    <3> QED BY <1>7, <1>9, <3>1
  <2> QED BY <1>1, <2>1 DEF DriveInv
<1>17. OutcomeInv'
  <2>1. \A r \in ScanIds : scanned'[r].outcome = "finished" =>
                               connector'[r].closed /\ connector'[r].splits = <<>>
    BY <1>1, <1>7 DEF OutcomeInv
  <2> QED BY <1>1, <2>1 DEF OutcomeInv
<1>18. \A r \in ScanIds : \A x \in Splits :
          (Arrived(r, x)' <=> Arrived(r, x)) /\ (Coming(r, x)' <=> Coming(r, x))
  <2> TAKE r \in ScanIds
  <2> TAKE x \in Splits
  <2>1. Arrived(r, x)' <=> Arrived(r, x)
    BY <1>1, <1>7 DEF Arrived
  <2>2. ~ComingBy(thread[t].pc, thread[t].task, thread[t].left, r, x)
    BY <1>1 DEF ComingBy
  <2>3. ~ComingBy("idle", <<>>, 0, r, x)
    BY DEF ComingBy
  <2> QED BY <1>4, <1>10, <2>1, <2>2, <2>3, ComingMoves, Zenon
<1>19. ConserveInv' /\ UniqueInv'
  <2>1. SplitsUnique'
    BY <1>1, <1>7 DEF UniqueInv, SplitsUnique
  <2> QED BY <1>1, <1>18, <2>1 DEF ConserveInv, UniqueInv
<1>20. InflightExact'
  <2>1. /\ Cardinality(Busy) \in Nat /\ Cardinality(Busy') \in Nat
        /\ Cardinality(Busy') = Cardinality(Busy)
    BY <1>1, <1>4, CountMoves
  <2>2. Len(ssqueue) \in Nat /\ ssqueue' = ssqueue
    BY <1>1, LenOfSeq DEF PoolShapes
  <2>3. Len(ssqueue') + Cardinality(Busy') = Len(ssqueue) + Cardinality(Busy) + 0
    BY <2>1, <2>2
  <2>4. dispatcher'.inflight = dispatcher.inflight + 0 /\ dispatcher'.inflight <= MaxInflight
    BY <1>1 DEF PoolShapes, InflightExact
  <2> QED BY <1>13, <2>1, <2>3, <2>4, CountsKept
<1> QED BY <1>11, <1>12, <1>13, <1>14, <1>15, <1>16, <1>17, <1>19, <1>20

\* A step of a pulling worker that takes nothing keeps the invariant.
LEMMA PullFrame ==
  ASSUME SsInv, UNCHANGED <<connector, provider, holders, failure, dispatcher, ssqueue, thread,
                            manager, scanned>>,
         puller' = [w \in PullWorkers |-> puller'[w]],
         \A w \in PullWorkers : puller'[w] = [pc |-> puller'[w].pc, scan |-> puller'[w].scan],
         \A w \in PullWorkers : puller'[w].pc # "idle" =>
             manager.pc = "query" /\ puller'[w].scan \in OfQuery(manager.query)
  PROVE  SsInv'
<1> USE DEF SsInv
<1>1. SsShapes' /\ PoolShapes' /\ ManagerShape'
  BY DEF SsShapes, PoolShapes, ManagerShape, Live
<1>2. PlacesInv' /\ HoldInv' /\ DispatcherInv'
  BY DEF PlacesInv, HoldInv, DispatcherInv, Held, Waiting, Live
<1>3. DriveInv' /\ ErrorInv' /\ InflightExact' /\ AllSplitsScanned'
  BY DEF DriveInv, ErrorInv, InflightExact, AllSplitsScanned
<1>4. OutcomeInv'
  BY DEF OutcomeInv
<1>5. ConserveInv' /\ UniqueInv'
  BY ZenonT(30) DEF ConserveInv, UniqueInv, SplitsUnique, Coming, ToRead, ToPush, Arrived, Waiting
<1> QED BY <1>1, <1>2, <1>3, <1>4, <1>5, SMTT(30), Zenon

\* A worker starts to pull,
LEMMA BeginPullKeeps == ASSUME SsInv, NEW w \in PullWorkers, BeginPull(w) PROVE SsInv'
<1>1. PICK s \in OfQuery(manager.query) :
          /\ manager.pc = "query"
          /\ puller' = [puller EXCEPT ![w] = [pc |-> "check", scan |-> s]]
          /\ UNCHANGED <<connector, provider, holders, failure, dispatcher, ssqueue, thread,
                         manager, creation, scanned>>
  BY Zenon DEF BeginPull
<1>2. puller = [v \in PullWorkers |-> puller[v]]
  BY DEF SsInv, SsShapes
<1>3. /\ puller' = [v \in PullWorkers |-> puller'[v]] /\ puller'[w] = [pc |-> "check", scan |-> s]
      /\ \A v \in PullWorkers : v # w => puller'[v] = puller[v]
  BY <1>1, <1>2
<1>4. \A v \in PullWorkers : puller'[v].pc # "idle" =>
          manager.pc = "query" /\ puller'[v].scan \in OfQuery(manager.query)
  BY <1>1, <1>3 DEF SsInv, OutcomeInv
<1>5. \A v \in PullWorkers : puller'[v] = [pc |-> puller'[v].pc, scan |-> puller'[v].scan]
  BY <1>3, Zenon DEF SsInv, SsShapes
<1> QED BY <1>1, <1>3, <1>4, <1>5, PullFrame

\* ... and looks whether the connector has a split.
LEMMA CheckPortsKeeps == ASSUME SsInv, NEW w \in PullWorkers, CheckPorts(w) PROVE SsInv'
<1>1. /\ puller[w].pc = "check"
      /\ \/ puller' = [puller EXCEPT ![w] = [pc |-> "idle", scan |-> 0]]
         \/ puller' = [puller EXCEPT ![w].pc = "take"]
      /\ UNCHANGED <<connector, provider, holders, failure, dispatcher, ssqueue, thread, manager, scanned>>
  BY DEF CheckPorts
<1>2. /\ puller = [v \in PullWorkers |-> puller[v]]
      /\ \A v \in PullWorkers : puller[v] = [pc |-> puller[v].pc, scan |-> puller[v].scan]
  BY DEF SsInv, SsShapes
<1>3. puller' = [v \in PullWorkers |-> puller'[v]] /\ \A v \in PullWorkers : v # w => puller'[v] = puller[v]
  BY <1>1, <1>2
<1>4. /\ puller'[w].pc = "idle" \/ puller'[w].scan = puller[w].scan
      /\ puller'[w] = [pc |-> puller'[w].pc, scan |-> puller'[w].scan]
  BY <1>1, <1>2
<1>5. \A v \in PullWorkers : puller'[v].pc # "idle" =>
          manager.pc = "query" /\ puller'[v].scan \in OfQuery(manager.query)
  BY <1>1, <1>3, <1>4 DEF SsInv, OutcomeInv
<1>6. \A v \in PullWorkers : puller'[v] = [pc |-> puller'[v].pc, scan |-> puller'[v].scan]
  BY <1>2, <1>3, <1>4
<1> QED BY <1>1, <1>3, <1>5, <1>6, PullFrame

\* While a query runs, its scans are those listed for it.
LEMMA OfQueryFacts ==
  ASSUME ManagerShape, manager.pc = "query"
  PROVE  /\ OfQuery(manager.query) = Range(QueryScans[manager.query])
         /\ manager.query \in 1 .. Len(QueryScans) /\ OfQuery(manager.query) \subseteq ScanIds
<1>1. manager.query \in 1 .. Len(QueryScans)
  BY DEF ManagerShape
<1>2. manager.query # 0
  BY <1>1
<1>3. OfQuery(manager.query) = Range(QueryScans[manager.query])
  BY <1>2, SMTT(30), Zenon DEF OfQuery
<1> QED BY <1>1, <1>3, ScanFacts

\* What get_next_split() does: it rethrows, finds nothing, or takes the first split.
LEMMA TakeSplitFacts ==
  ASSUME SsInv, NEW w \in PullWorkers, TakeSplit(w)
  PROVE  \E s \in ScanIds :
           /\ s \in OfQuery(manager.query) /\ manager.pc = "query"
           /\ \/ /\ connector[s].exc /\ connector' = connector
                 /\ scanned' = [scanned EXCEPT ![s].error = TRUE]
              \/ UNCHANGED <<connector, scanned>>
              \/ /\ connector[s].splits # <<>>
                 /\ connector' = [connector EXCEPT ![s].splits = Tail(@)]
                 /\ scanned' = [scanned EXCEPT ![s].taken = @ \cup {Head(connector[s].splits)}]
<1>1. puller[w].pc = "take"
  BY DEF TakeSplit
<1>2. manager.pc = "query" /\ puller[w].scan \in OfQuery(manager.query)
  BY <1>1 DEF SsInv, OutcomeInv
<1>3. puller[w].scan \in ScanIds
  BY <1>2, OfQueryFacts DEF SsInv
<1> QED BY <1>2, <1>3, Zenon DEF TakeSplit

\* get_next_split() keeps the invariant: a split moves from the connector to the operator.
LEMMA TakeSplitKeeps == ASSUME SsInv, NEW w \in PullWorkers, TakeSplit(w) PROVE SsInv'
<1> USE DEF SsInv
<1>1. UNCHANGED <<provider, holders, failure, dispatcher, ssqueue, thread, manager>>
  BY DEF TakeSplit
<1>2. PICK s \in ScanIds :
        /\ s \in OfQuery(manager.query) /\ manager.pc = "query"
        /\ \/ /\ connector[s].exc /\ connector' = connector
              /\ scanned' = [scanned EXCEPT ![s].error = TRUE]
           \/ UNCHANGED <<connector, scanned>>
           \/ /\ connector[s].splits # <<>>
              /\ connector' = [connector EXCEPT ![s].splits = Tail(@)]
              /\ scanned' = [scanned EXCEPT ![s].taken = @ \cup {Head(connector[s].splits)}]
  BY TakeSplitFacts
<1>3. /\ puller' = [v \in PullWorkers |-> puller'[v]]
      /\ \A v \in PullWorkers : puller'[v] = [pc |-> puller'[v].pc, scan |-> puller'[v].scan]
      /\ \A v \in PullWorkers : puller'[v].pc # "idle" =>
             manager.pc = "query" /\ puller'[v].scan \in OfQuery(manager.query)
  <2>1. /\ puller[w].pc = "take"
        /\ \/ puller' = [puller EXCEPT ![w] = [pc |-> "idle", scan |-> 0]]
           \/ puller' = [puller EXCEPT ![w].pc = "check"]
    BY DEF TakeSplit
  <2>2. /\ puller = [v \in PullWorkers |-> puller[v]]
        /\ \A v \in PullWorkers : puller[v] = [pc |-> puller[v].pc, scan |-> puller[v].scan]
    BY DEF SsShapes
  <2>3. puller' = [v \in PullWorkers |-> puller'[v]] /\ \A v \in PullWorkers : v # w => puller'[v] = puller[v]
    BY <2>1, <2>2
  <2>4. /\ puller'[w].pc = "idle" \/ puller'[w].scan = puller[w].scan
        /\ puller'[w] = [pc |-> puller'[w].pc, scan |-> puller'[w].scan]
    BY <2>1, <2>2
  <2> QED BY <2>1, <2>2, <2>3, <2>4, SMTT(30), Zenon DEF OutcomeInv
<1>4. /\ connector = [r \in ScanIds |-> connector[r]] /\ scanned = [r \in ScanIds |-> scanned[r]]
      /\ connector[s] = [alive |-> connector[s].alive, splits |-> connector[s].splits,
                         closed |-> connector[s].closed, exc |-> connector[s].exc]
      /\ scanned[s] = [taken |-> scanned[s].taken, error |-> scanned[s].error,
                       outcome |-> scanned[s].outcome]
      /\ connector[s].splits \in Seq(Splits) /\ scanned[s].taken \subseteq Splits
  BY DEF SsShapes
<1>5. PICK h : h = Head(connector[s].splits)
  OBVIOUS
<1>6. connector[s].splits # <<>> =>
         /\ Tail(connector[s].splits) \in Seq(Splits) /\ h \in Splits /\ h \in Range(connector[s].splits)
         /\ IsInjective(Tail(connector[s].splits))
         /\ Range(Tail(connector[s].splits)) = Range(connector[s].splits) \ {h}
  BY <1>4, <1>5, TailFacts DEF UniqueInv, SplitsUnique
<1>7. /\ connector' = [r \in ScanIds |-> connector'[r]] /\ scanned' = [r \in ScanIds |-> scanned'[r]]
      /\ \A r \in ScanIds : r # s => connector'[r] = connector[r] /\ scanned'[r] = scanned[r]
  BY <1>2, <1>4
<1>8. /\ connector'[s] = [alive |-> connector'[s].alive, splits |-> connector'[s].splits,
                          closed |-> connector'[s].closed, exc |-> connector'[s].exc]
      /\ connector'[s].closed = connector[s].closed /\ connector'[s].exc = connector[s].exc
      /\ \/ connector'[s].splits = connector[s].splits /\ scanned'[s].taken = scanned[s].taken
         \/ /\ connector[s].splits # <<>> /\ connector'[s].splits = Tail(connector[s].splits)
            /\ scanned'[s].taken = scanned[s].taken \cup {h}
  BY <1>2, <1>4, <1>5
<1>9. /\ scanned'[s] = [taken |-> scanned'[s].taken, error |-> scanned'[s].error,
                        outcome |-> scanned'[s].outcome]
      /\ scanned'[s].outcome = scanned[s].outcome
      /\ scanned'[s].error = scanned[s].error \/ connector[s].exc
  BY <1>2, <1>4
<1>10. \A r \in ScanIds : \A x \in Splits : Arrived(r, x)' <=> Arrived(r, x)
  <2> TAKE r \in ScanIds
  <2> TAKE x \in Splits
  <2>1. CASE r = s
    BY <1>6, <1>8, <2>1 DEF Arrived
  <2>2. CASE r # s
    BY <1>7, <2>2 DEF Arrived
  <2> QED BY <2>1, <2>2
<1>11. SsShapes'
  <2>1. connector'[s].splits \in Seq(Splits) /\ scanned'[s].taken \subseteq Splits
    BY <1>4, <1>6, <1>8, Zenon
  <2> QED BY <1>1, <1>3, <1>7, <1>8, <1>9, <2>1, ZenonT(30) DEF SsShapes
<1>12. PoolShapes' /\ ManagerShape' /\ PlacesInv' /\ DispatcherInv' /\ InflightExact'
  BY <1>1, Zenon DEF PoolShapes, ManagerShape, PlacesInv, DispatcherInv, InflightExact, Waiting, Live
<1>13. \A r \in ScanIds : connector'[r].closed = connector[r].closed /\ connector'[r].exc = connector[r].exc
  BY <1>7, <1>8
<1>14. HoldInv'
  BY <1>1, <1>13, ZenonT(30) DEF HoldInv, Held, Waiting, Live
<1>15. DriveInv'
  <2>1. \A q \in 1 .. Len(QueryScans) : \A j \in 1 .. Len(QueryScans[q]) : ScanAt(q, j) \in ScanIds
    BY ScanFacts
  <2> QED BY <1>1, <1>13, <2>1, SMTT(30) DEF DriveInv
<1>16. OutcomeInv'
  <2>1. \A r \in ScanIds : scanned'[r].outcome = scanned[r].outcome
    BY <1>7, <1>9
  <2>2. \A q \in 1 .. Len(QueryScans) : Range(QueryScans[q]) \subseteq ScanIds
    BY ScanFacts, SMTT(30)
  <2>3. \A r \in ScanIds : scanned[r].outcome = "finished" => connector'[r].splits = connector[r].splits
    BY <1>7, <1>8, SMTT(30), Zenon DEF OutcomeInv
  <2> QED BY <1>1, <1>3, <1>13, <2>1, <2>2, <2>3, Zenon DEF OutcomeInv
<1>17. ErrorInv'
  <2>1. ASSUME NEW r \in ScanIds, scanned'[r].error PROVE failure[r]
    <3>1. CASE r = s
      BY <1>9, <2>1, <3>1 DEF ErrorInv
    <3>2. CASE r # s
      BY <1>7, <2>1, <3>2, SMTT(30), Zenon DEF ErrorInv
    <3> QED BY <3>1, <3>2
  <2> QED BY <1>1, <1>13, <2>1 DEF ErrorInv
<1>18. \A r \in ScanIds : \A x \in Splits : Coming(r, x)' <=> Coming(r, x)
  BY <1>1 DEF Coming, ToRead, ToPush, Waiting
<1>19. ConserveInv'
  BY <1>1, <1>7, <1>9, <1>10, <1>18, SMTT(30) DEF ConserveInv
<1>20. UniqueInv'
  <2>1. SplitsUnique'
    <3> SUFFICES ASSUME NEW r \in ScanIds
                 PROVE  /\ IsInjective(connector'[r].splits)
                        /\ Range(connector'[r].splits) \cap scanned'[r].taken = {}
      BY SMTT(30), Zenon DEF SplitsUnique
    <3>1. CASE r = s
      BY <1>6, <1>8, <3>1 DEF UniqueInv, SplitsUnique
    <3>2. CASE r # s
      BY <1>7, <3>2, SMTT(30), Zenon DEF UniqueInv, SplitsUnique
    <3> QED BY <3>1, <3>2
  <2> QED BY <1>1, <1>10, <1>18, <2>1, SMTT(30), Zenon DEF UniqueInv
<1>21. AllSplitsScanned'
  <2>1. scanned[s].outcome = "finished" => scanned'[s].taken = scanned[s].taken
    BY <1>8 DEF OutcomeInv
  <2> QED BY <1>1, <1>7, <1>9, <2>1, SMTT(30), Zenon DEF AllSplitsScanned
<1> QED BY <1>11, <1>12, <1>14, <1>15, <1>16, <1>17, <1>19, <1>20, <1>21, SMTT(30), Zenon

\* A scan that is found closed and empty has delivered every split, unless one of its
\* batches failed.
LEMMA FinishedHasAll ==
  ASSUME SsInv, NEW s \in ScanIds, FinishScan(s)
  PROVE  failure[s] \/ scanned[s].taken = Splits
<1> USE DEF SsInv
<1>1. /\ manager.pc = "query" /\ s \in OfQuery(manager.query) /\ scanned[s].outcome = "none"
      /\ connector[s].closed /\ connector[s].splits = <<>>
  BY DEF FinishScan, is_closed
<1>2. provider[s] = ScanBatches
  <2>1. PICK q \in 1 .. Len(QueryScans) : q = manager.query /\ s \in Range(QueryScans[q])
    BY <1>1, OfQueryFacts
  <2>2. PICK j \in 1 .. Len(QueryScans[q]) : s = ScanAt(q, j)
    BY <2>1, ScanFacts, Zenon
  <2> QED BY <1>1, <2>1, <2>2, Zenon DEF DriveInv
<1>3. holders[s] = {}
  BY <1>1 DEF HoldInv
<1>4. ASSUME NEW x \in Splits PROVE ~Coming(s, x)
  <2>1. ~Held(<<s, x[1]>>)
    BY <1>3 DEF Held
  <2>2. <<s, x[1]>> \notin Waiting
    BY <2>1, HeldTasks
  <2>3. \A t \in PoolThreads : Live(t) => thread[t].task # <<s, x[1]>>
    BY <2>1, HeldTasks
  <2> QED BY <2>2, <2>3 DEF Coming, ToRead, ToPush, Live
<1>5. ASSUME NEW x \in Splits, ~failure[s] PROVE x \in scanned[s].taken
  <2>1. ~(x[1] > ScanBatches)
    BY SplitsAssumption DEF Splits, Batches
  <2>2. Arrived(s, x)
    BY <1>1, <1>2, <1>4, <1>5, <2>1 DEF ConserveInv
  <2> QED BY <1>1, <2>2, EmptyFacts DEF Arrived
<1> QED BY <1>5, Zenon DEF SsShapes

\* The scan is declared finished.
LEMMA FinishScanKeeps == ASSUME SsInv, NEW s \in ScanIds, FinishScan(s) PROVE SsInv'
<1> USE DEF SsInv
<1>1. /\ manager.pc = "query" /\ s \in OfQuery(manager.query) /\ scanned[s].outcome = "none"
      /\ connector[s].closed /\ connector[s].splits = <<>>
      /\ UNCHANGED <<connector, provider, holders, failure, dispatcher, ssqueue, thread,
                     manager, puller, creation>>
  BY DEF FinishScan, is_closed
<1>2. /\ scanned' = [r \in ScanIds |-> scanned'[r]]
      /\ \A r \in ScanIds : r # s => scanned'[r] = scanned[r]
      /\ scanned'[s] = [taken |-> scanned[s].taken, error |-> scanned[s].error, outcome |-> "finished"]
  <2>1. /\ scanned = [r \in ScanIds |-> scanned[r]]
        /\ scanned[s] = [taken |-> scanned[s].taken, error |-> scanned[s].error,
                         outcome |-> scanned[s].outcome]
    BY DEF SsShapes
  <2> QED BY <2>1 DEF FinishScan
<1>3. \A r \in ScanIds : scanned'[r].taken = scanned[r].taken /\ scanned'[r].error = scanned[r].error
  BY <1>2
<1>4. SsShapes'
  BY <1>1, <1>2, <1>3, ZenonT(30) DEF SsShapes
<1>5. PoolShapes' /\ ManagerShape' /\ PlacesInv' /\ DispatcherInv' /\ InflightExact'
  BY <1>1 DEF PoolShapes, ManagerShape, PlacesInv, DispatcherInv, InflightExact, Waiting, Live
<1>6. HoldInv' /\ DriveInv' /\ ErrorInv'
  BY <1>1, <1>3, ZenonT(30) DEF HoldInv, DriveInv, ErrorInv, Held, Waiting, Live
<1>7. OutcomeInv'
  <2>1. /\ OfQuery(manager.query) = Range(QueryScans[manager.query])
        /\ manager.query \in 1 .. Len(QueryScans)
    BY <1>1, OfQueryFacts, Zenon
  <2>2. \A q \in 1 .. Len(QueryScans) : Range(QueryScans[q]) \subseteq ScanIds
                                        /\ (s \in Range(QueryScans[q]) => q = manager.query)
    <3>1. PICK p \in 1 .. Len(QueryScans) : p = manager.query /\ s \in Range(QueryScans[p])
      BY <1>1, <2>1
    <3>2. \A q \in 1 .. Len(QueryScans) : s \in Range(QueryScans[q]) => p = q
      BY <3>1, ScanFacts, Zenon
    <3>3. \A q \in 1 .. Len(QueryScans) : Range(QueryScans[q]) \subseteq ScanIds
      BY ScanFacts
    <3> QED BY <3>1, <3>2, <3>3
  <2>3. \A q \in 1 .. Len(QueryScans) : q > manager.query \/ q < manager.query => q # manager.query
    BY <2>1
  <2>4. \A q \in 1 .. Len(QueryScans) : \A r \in Range(QueryScans[q]) :
          /\ q # manager.query => scanned'[r].outcome = scanned[r].outcome
          /\ q = manager.query => scanned'[r].outcome \in {"none", "finished"}
    BY <1>1, <1>2, <2>2 DEF OutcomeInv
  <2>5. \A r \in ScanIds : scanned'[r].outcome = "finished" => connector[r].closed /\ connector[r].splits = <<>>
    BY <1>1, <1>2 DEF OutcomeInv
  <2> QED BY <1>1, <2>3, <2>4, <2>5, Zenon DEF OutcomeInv, Ahead, Running, Over
<1>8. \A r \in ScanIds : \A x \in Splits :
         (Arrived(r, x)' <=> Arrived(r, x)) /\ (Coming(r, x)' <=> Coming(r, x))
  BY <1>1, <1>3, Zenon DEF Arrived, Coming, ToRead, ToPush, Waiting
<1>9. ConserveInv'
  BY <1>1, <1>2, <1>8, SMTT(30), Zenon DEF ConserveInv
<1>10. UniqueInv'
  <2>1. SplitsUnique'
    BY <1>1, <1>3, SMTT(30), Zenon DEF UniqueInv, SplitsUnique
  <2> QED BY <1>1, <1>8, <2>1, SMTT(30), Zenon DEF UniqueInv
<1>11. AllSplitsScanned'
  BY <1>1, <1>2, <1>3, FinishedHasAll DEF AllSplitsScanned
<1> QED BY <1>4, <1>5, <1>6, <1>7, <1>9, <1>10, <1>11

\* The end of the query destroys the operators with their connectors.
LEMMA ScanQueryEndKeeps == ASSUME SsInv, ScanQueryEnd PROVE SsInv'
<1> USE DEF SsInv
<1>1. /\ manager.pc = "query" /\ \A w \in PullWorkers : puller[w].pc = "idle"
      /\ UNCHANGED <<provider, holders, failure, dispatcher, ssqueue, thread, puller, creation>>
  BY DEF ScanQueryEnd
<1>2. /\ manager' = [pc |-> manager'.pc, query |-> manager'.query, at |-> manager'.at]
      /\ manager'.query = manager.query /\ manager'.pc = "end_stop"
  BY DEF ScanQueryEnd, ManagerShape
<1>3. /\ OfQuery(manager.query) = Range(QueryScans[manager.query])
      /\ manager.query \in 1 .. Len(QueryScans) /\ OfQuery(manager.query) \subseteq ScanIds
  BY <1>1, OfQueryFacts
<1>4. /\ connector' = [r \in ScanIds |-> connector'[r]]
      /\ \A r \in ScanIds :
           /\ connector'[r] = [alive |-> connector'[r].alive, splits |-> connector'[r].splits,
                               closed |-> connector'[r].closed, exc |-> connector'[r].exc]
           /\ connector'[r].splits = connector[r].splits
           /\ connector'[r].closed = connector[r].closed /\ connector'[r].exc = connector[r].exc
  <2>1. \A r \in ScanIds : connector[r] = [alive |-> connector[r].alive, splits |-> connector[r].splits,
                                           closed |-> connector[r].closed, exc |-> connector[r].exc]
    BY DEF SsShapes
  <2>2. /\ connector' = [r \in ScanIds |-> connector'[r]]
        /\ \A r \in ScanIds : \/ connector'[r] = [connector[r] EXCEPT !.alive = FALSE]
                              \/ connector'[r] = connector[r]
    BY DEF ScanQueryEnd
  <2>3. ASSUME NEW r \in ScanIds
        PROVE  \E f : connector'[r] =
            [alive |-> f, splits |-> connector[r].splits, closed |-> connector[r].closed, exc |-> connector[r].exc]
    <3>1. PICK f, c : /\ f = FALSE /\ c = connector[r]
                      /\ c = [alive |-> c.alive, splits |-> c.splits, closed |-> c.closed, exc |-> c.exc]
      BY <2>1, Zenon
    <3>2. [c EXCEPT !.alive = f] = [alive |-> f, splits |-> c.splits, closed |-> c.closed, exc |-> c.exc]
      BY <3>1
    <3>3. connector'[r] = [c EXCEPT !.alive = f] \/ connector'[r] = c
      BY <2>2, <3>1, Zenon
    <3> QED BY <3>1, <3>2, <3>3, Zenon
  <2> QED BY <2>2, <2>3, SMTT(30), Zenon
<1>5. /\ scanned' = [r \in ScanIds |-> scanned'[r]]
      /\ \A r \in ScanIds :
           \/ /\ scanned'[r] = [taken |-> scanned[r].taken, error |-> scanned[r].error, outcome |-> "ended"]
              /\ r \in OfQuery(manager.query)
           \/ /\ scanned'[r] = scanned[r]
              /\ r \in OfQuery(manager.query) => scanned[r].outcome = "finished"
  <2>1. \A r \in ScanIds : scanned[r] = [taken |-> scanned[r].taken, error |-> scanned[r].error,
                                         outcome |-> scanned[r].outcome]
    BY Zenon DEF SsShapes
  <2>2. \A r \in ScanIds : [scanned[r] EXCEPT !.outcome = "ended"] =
            [taken |-> scanned[r].taken, error |-> scanned[r].error, outcome |-> "ended"]
    <3> TAKE r \in ScanIds
    <3>1. PICK c : c = scanned[r] /\ c = [taken |-> c.taken, error |-> c.error, outcome |-> c.outcome]
      BY <2>1, Zenon
    <3>2. [c EXCEPT !.outcome = "ended"] = [taken |-> c.taken, error |-> c.error, outcome |-> "ended"]
      BY <3>1
    <3> QED BY <3>1, <3>2
  <2>3. /\ scanned' = [r \in ScanIds |-> scanned'[r]]
        /\ \A r \in ScanIds :
             \/ scanned'[r] = [scanned[r] EXCEPT !.outcome = "ended"] /\ r \in OfQuery(manager.query)
             \/ scanned'[r] = scanned[r] /\ ~(r \in OfQuery(manager.query) /\ ~ScansFinished(manager.query))
    BY DEF ScanQueryEnd
  <2> QED BY <2>2, <2>3, ZenonT(30) DEF ScansFinished
<1>6. \A r \in ScanIds :
         /\ scanned'[r].taken = scanned[r].taken /\ scanned'[r].error = scanned[r].error
         /\ scanned'[r].outcome = "finished" => scanned[r].outcome = "finished"
         /\ scanned[r].outcome # "none" => scanned'[r].outcome # "none"
         /\ r \in OfQuery(manager.query) => scanned'[r].outcome # "none"
         /\ r \notin OfQuery(manager.query) => scanned'[r].outcome = scanned[r].outcome
  BY <1>5, SMTT(30)
<1>7. SsShapes'
  <2>1. \A r \in ScanIds : scanned'[r] = [taken |-> scanned'[r].taken, error |-> scanned'[r].error,
                                          outcome |-> scanned'[r].outcome]
    BY <1>5, SMTT(30), Zenon DEF SsShapes
  <2> QED BY <1>1, <1>4, <1>5, <1>6, <2>1, Zenon DEF SsShapes
<1>8. ManagerShape' /\ DispatcherInv'
  BY <1>1, <1>2, <1>3, SMTT(30), Zenon DEF ManagerShape, DispatcherInv
<1>9. PoolShapes' /\ PlacesInv' /\ InflightExact'
  BY <1>1, SMTT(30), Zenon DEF PoolShapes, PlacesInv, InflightExact, Waiting, Live
<1>10. HoldInv' /\ ErrorInv'
  BY <1>1, <1>4, <1>6, SMTT(30), Zenon DEF HoldInv, ErrorInv, Held, Waiting, Live
<1>11. DriveInv'
  BY <1>1, <1>2, SMTT(30), Zenon DEF DriveInv, Ahead, Running
<1>12. OutcomeInv'
  <2>1. \A q \in 1 .. Len(QueryScans) : \A r \in Range(QueryScans[q]) :
          /\ r \in ScanIds
          /\ q # manager.query => r \notin OfQuery(manager.query)
          /\ q = manager.query => r \in OfQuery(manager.query)
    <3>1. PICK p \in 1 .. Len(QueryScans) : p = manager.query /\ OfQuery(manager.query) = Range(QueryScans[p])
      BY <1>3
    <3>2. \A q \in 1 .. Len(QueryScans) : \A r \in Range(QueryScans[q]) :
             r \in ScanIds /\ (r \in Range(QueryScans[p]) => p = q)
      BY ScanFacts, Zenon
    <3> QED BY <3>1, <3>2
  <2>2. \A q \in 1 .. Len(QueryScans) : q > manager.query \/ q < manager.query => q # manager.query
    BY <1>3
  <2>3. \A q \in 1 .. Len(QueryScans) : \A r \in Range(QueryScans[q]) :
          /\ q # manager.query => scanned'[r].outcome = scanned[r].outcome
          /\ q = manager.query => scanned'[r].outcome # "none"
    BY <1>6, <2>1, SMTT(30), Zenon
  <2>4. \A r \in ScanIds : scanned'[r].outcome = "finished" => connector'[r].closed /\ connector'[r].splits = <<>>
    BY <1>4, <1>6, SMTT(30), Zenon DEF OutcomeInv
  <2> QED BY <1>1, <1>2, <2>2, <2>3, <2>4 DEF OutcomeInv, Ahead, Running, Over
<1>13. \A r \in ScanIds : \A x \in Splits :
         (Arrived(r, x)' <=> Arrived(r, x)) /\ (Coming(r, x)' <=> Coming(r, x))
  BY <1>1, <1>4, <1>6 DEF Arrived, Coming, ToRead, ToPush, Waiting
<1>14. ConserveInv'
  BY <1>1, <1>6, <1>13, Zenon DEF ConserveInv
<1>15. UniqueInv'
  <2>1. SplitsUnique'
    BY <1>1, <1>4, <1>6, SMTT(30), Zenon DEF UniqueInv, SplitsUnique
  <2> QED BY <1>1, <1>13, <2>1, ZenonT(30) DEF UniqueInv
<1>16. AllSplitsScanned'
  BY <1>1, <1>6 DEF AllSplitsScanned
<1> QED BY <1>7, <1>8, <1>9, <1>10, <1>11, <1>12, <1>14, <1>15, <1>16

\* The connector before its scan is installed is empty and without an exception.
LEMMA ClosedFacts ==
  /\ ClosedConnector = [alive |-> ClosedConnector.alive, splits |-> ClosedConnector.splits,
                        closed |-> ClosedConnector.closed, exc |-> ClosedConnector.exc]
  /\ ClosedConnector.splits = <<>> /\ ~ClosedConnector.exc
BY SMTT(30) DEF ClosedConnector

\* The invariant holds at the start,
LEMMA SplitsInit == SsInit => SsInv
<1> SUFFICES ASSUME SsInit PROVE SsInv
  BY SMTT(30)
<1> USE DEF SsInit
<1>1. SsShapes
  <2>1. \A s \in ScanIds : connector[s] = ClosedConnector /\ scanned[s].taken = {} /\ provider[s] = 0
    OBVIOUS
  <2>2. connector = [s \in ScanIds |-> connector[s]] /\ provider = [s \in ScanIds |-> provider[s]]
    OBVIOUS
  <2>3. holders = [s \in ScanIds |-> holders[s]] /\ failure = [s \in ScanIds |-> failure[s]]
    BY SMTT(30)
  <2>4. scanned = [s \in ScanIds |-> scanned[s]] /\ puller = [w \in PullWorkers |-> puller[w]]
    OBVIOUS
  <2>5. \A s \in ScanIds : scanned[s] = [taken |-> scanned[s].taken, error |-> scanned[s].error,
                                         outcome |-> scanned[s].outcome]
    OBVIOUS
  <2>6. \A w \in PullWorkers : puller[w] = [pc |-> puller[w].pc, scan |-> puller[w].scan]
    BY SMTT(30)
  <2>7. 0 \in 0 .. ScanBatches /\ <<>> \in Seq(Splits)
    BY SplitsAssumption, EmptyIsShort
  <2>8. \A s \in ScanIds :
          /\ connector[s] = [alive |-> connector[s].alive, splits |-> connector[s].splits,
                             closed |-> connector[s].closed, exc |-> connector[s].exc]
          /\ connector[s].splits \in Seq(Splits)
    BY <2>1, <2>7, ClosedFacts, Zenon
  <2> HIDE DEF SsInit
  <2> QED BY <2>1, <2>2, <2>3, <2>4, <2>5, <2>6, <2>7, <2>8, Zenon DEF SsShapes
<1>2. PoolShapes
  <2>1. dispatcher.inflight = 0 /\ dispatcher.pending = <<>> /\ dispatcher.stop = FALSE
    BY ZenonT(30) DEF NewDispatcher
  <2>2. dispatcher = [inflight |-> dispatcher.inflight, pending |-> dispatcher.pending, stop |-> dispatcher.stop]
    BY ZenonT(30) DEF NewDispatcher
  <2>3. <<>> \in Seq(SplitTasks)
    BY EmptyIsShort, ZenonT(30)
  <2> QED BY <2>1, <2>2, <2>3, SMTT(30) DEF PoolShapes, Live, IdleThread
<1>3. ManagerShape
  BY ScanFacts, SMTT(30), Zenon DEF ManagerShape
<1>4. ssqueue = <<>> /\ dispatcher.pending = <<>> /\ dispatcher.inflight = 0 /\ ~dispatcher.stop
  BY SMTT(30) DEF NewDispatcher
<1>5. Waiting = {}
  BY <1>4, EmptyFacts, ZenonT(30) DEF Waiting
<1>6. \A t \in PoolThreads : thread[t].pc = "idle"
  BY DEF IdleThread
<1>7. PlacesInv
  BY <1>4, <1>5, <1>6, EmptyFacts, ZenonT(30) DEF PlacesInv, Live
<1>8. HoldInv /\ DispatcherInv
  BY <1>4, <1>5, <1>6, ZenonT(30) DEF HoldInv, DispatcherInv, Live
<1>9. \A s \in ScanIds : /\ provider[s] = 0 /\ scanned[s].outcome = "none" /\ ~scanned[s].error
                         /\ scanned[s].taken = {} /\ connector[s].splits = <<>> /\ ~connector[s].exc
  BY ClosedFacts
<1>10. DriveInv
  <2>1. \A q \in 1 .. Len(QueryScans) : \A j \in 1 .. Len(QueryScans[q]) : ScanAt(q, j) \in ScanIds
    BY ScanFacts, SMTT(30)
  <2>2. \A q \in 1 .. Len(QueryScans) : q # 0
    BY SMTT(30)
  <2> QED BY <1>9, <2>1, <2>2, ZenonT(30) DEF DriveInv
<1>11. OutcomeInv
  <2>1. \A q \in 1 .. Len(QueryScans) : q > 0 /\ ~(q < 0) /\ q # 0 /\ Range(QueryScans[q]) \subseteq ScanIds
    BY ScanFacts
  <2>2. \A w \in PullWorkers : puller[w].pc = "idle"
    OBVIOUS
  <2> QED BY <1>9, <2>1, <2>2, ZenonT(30) DEF OutcomeInv
<1>12. ErrorInv /\ AllSplitsScanned
  BY <1>9, ZenonT(30) DEF ErrorInv, AllSplitsScanned
<1>13. ConserveInv
  <2>1. \A x \in Splits : x[1] > 0
    BY DEF Splits, Batches
  <2> QED BY <1>9, <2>1, Zenon DEF ConserveInv
<1>14. UniqueInv
  BY <1>9, EmptyFacts, Zenon DEF UniqueInv, SplitsUnique, Arrived
<1>15. InflightExact
  <2>1. Busy = {}
    BY <1>6, SMTT(30), Zenon DEF Busy
  <2>2. Cardinality(Busy) = 0 /\ Len(ssqueue) = 0
    BY <1>4, <2>1, FS_EmptySet, EmptyFacts, SMTT(30), Zenon
  <2>3. 0 <= MaxInflight
    BY SplitsAssumption, SMTT(30)
  <2>4. Busy = {t \in PoolThreads : thread[t].pc \in {"begin", "push", "done"}}
    BY DEF Busy
  <2> HIDE DEF SsInit
  <2> QED BY <1>4, <2>2, <2>3, <2>4, SMTT(30), Zenon DEF InflightExact
<1> QED BY <1>1, <1>2, <1>3, <1>7, <1>8, <1>10, <1>11, <1>12, <1>13, <1>14, <1>15 DEF SsInv

\* A step that changes nothing keeps the invariant,
LEMMA SplitsStutter == ASSUME SsInv, UNCHANGED ssvars PROVE SsInv'
<1>1. UNCHANGED <<connector, provider, holders, failure, dispatcher, ssqueue, thread, manager, scanned>>
      /\ UNCHANGED puller
  BY SMTT(30) DEF ssvars
<1>2. /\ puller' = [w \in PullWorkers |-> puller'[w]]
      /\ \A w \in PullWorkers : puller'[w] = [pc |-> puller'[w].pc, scan |-> puller'[w].scan]
      /\ \A w \in PullWorkers : puller'[w].pc # "idle" =>
             manager.pc = "query" /\ puller'[w].scan \in OfQuery(manager.query)
  BY <1>1, Zenon DEF SsInv, SsShapes, OutcomeInv
<1> QED BY <1>1, <1>2, PullFrame

\* ... and every step keeps it,
LEMMA SplitsNext == SsInv /\ [SsNext]_ssvars => SsInv'
<1> SUFFICES ASSUME SsInv, [SsNext]_ssvars PROVE SsInv'
  OBVIOUS
<1>1. CASE StartQuery \/ ManagerStep \/ ScanQueryEnd
  BY <1>1, StartQueryKeeps, RequestStopKeeps, WaitForAllKeeps, InstallKeeps, CreateStateKeeps,
     EnqueueBatchKeeps, RunReturnsKeeps, ScanQueryEndKeeps DEF ManagerStep
<1>2. ASSUME NEW t \in PoolThreads, ThreadStep(t) PROVE SsInv'
  BY <1>2, PoolTakeKeeps, BeginTaskKeeps, PushSplitKeeps, OnTaskDoneKeeps, DropTaskKeeps DEF ThreadStep
<1>3. ASSUME NEW w \in PullWorkers, BeginPull(w) \/ PullerStep(w) PROVE SsInv'
  BY <1>3, BeginPullKeeps, CheckPortsKeeps, TakeSplitKeeps DEF PullerStep
<1>4. ASSUME NEW s \in ScanIds, FinishScan(s) PROVE SsInv'
  BY <1>4, FinishScanKeeps
<1>5. CASE UNCHANGED ssvars
  BY <1>5, SplitsStutter
<1> QED BY <1>1, <1>2, <1>3, <1>4, <1>5 DEF SsNext

\* ... so that it always holds.
LEMMA SplitsInvariant == SsSpec => []SsInv
BY SplitsInit, SplitsNext, PTL DEF SsSpec

\* The invariant implies the safety of the dispatch.
LEMMA DispatchFollows == SsInv => DispatchSound
<1> SUFFICES ASSUME SsInv PROVE DispatchSound
  OBVIOUS
<1> USE DEF SsInv
<1>1. ClosedMeansNoPusher
  <2> SUFFICES ASSUME NEW s \in ScanIds, connector[s].closed,
                      NEW t \in PoolThreads, thread[t].pc = "push"
               PROVE  thread[t].task[1] # s
    BY DEF ClosedMeansNoPusher
  <2>1. Held(thread[t].task)
    BY HeldTasks DEF Live
  <2>2. holders[s] = {}
    BY DEF HoldInv
  <2> QED BY <2>1, <2>2 DEF Held
<1>2. ProvidersOutliveBodies
  BY NoneBusy DEF DispatcherInv, ProvidersOutliveBodies
<1> QED BY <1>1, <1>2 DEF DispatchSound, UniqueInv

\* sirius_scan_manager, split_provider and scoped_dispatcher: no split is handed out twice,
\* none is pushed after its connector was closed, a scan that ends in success without a
\* failed batch has delivered every split, a provider is replaced only when no body uses
\* it, and the in-flight count is the number of bodies queued or running, for any number of
\* scans, batches, splits and threads.
THEOREM DispatchIsSound == SsSpec => []DispatchSound
BY SplitsInvariant, DispatchFollows, PTL

\* The initial states of the dispatch are initial states of the stream.
LEMMA StreamInit == SsInit => Stream!StInit
<1> SUFFICES ASSUME SsInit PROVE Stream!StInit
  OBVIOUS
<1>1. \A s \in ScanIds : scanned[s].taken = {} /\ scanned[s].outcome = "none"
  BY DEF SsInit
<1>2. [s \in ScanIds |-> scanned[s].taken] = [s \in ScanIds |-> {}]
  BY <1>1
<1>3. [s \in ScanIds |-> scanned[s].outcome # "none"] = [s \in ScanIds |-> FALSE]
  <2>1. \A s \in ScanIds : (scanned[s].outcome # "none") = FALSE
    BY <1>1
  <2> QED BY <2>1, Zenon
<1>4. failure = [s \in ScanIds |-> FALSE]
  BY DEF SsInit
<1> QED BY <1>2, <1>3, <1>4, Zenon DEF Stream!StInit

\* A step that delivers nothing and ends nothing is no step of the stream.
LEMMA StreamStutter ==
  ASSUME UNCHANGED failure,
         \A s \in ScanIds : scanned'[s].taken = scanned[s].taken
                            /\ (scanned'[s].outcome # "none" <=> scanned[s].outcome # "none")
  PROVE  UNCHANGED Stream!stvars
BY DEF Stream!stvars

\* get_next_split() that takes a split delivers one that was not delivered before, to a
\* stream that has not ended.
LEMMA StreamTake ==
  ASSUME SsInv, NEW w \in PullWorkers, TakeSplit(w)
  PROVE  [Stream!StNext]_(Stream!stvars)
<1> USE DEF SsInv
<1>1. UNCHANGED failure
  BY SMTT(30) DEF TakeSplit
<1>2. PICK s \in ScanIds :
        /\ s \in OfQuery(manager.query) /\ manager.pc = "query"
        /\ \/ /\ connector[s].exc /\ connector' = connector
              /\ scanned' = [scanned EXCEPT ![s].error = TRUE]
           \/ UNCHANGED <<connector, scanned>>
           \/ /\ connector[s].splits # <<>>
              /\ connector' = [connector EXCEPT ![s].splits = Tail(@)]
              /\ scanned' = [scanned EXCEPT ![s].taken = @ \cup {Head(connector[s].splits)}]
  BY TakeSplitFacts
<1>3. /\ scanned = [r \in ScanIds |-> scanned[r]] /\ connector[s].splits \in Seq(Splits)
      /\ \A r \in ScanIds : scanned[r] = [taken |-> scanned[r].taken, error |-> scanned[r].error,
                                          outcome |-> scanned[r].outcome]
  BY SMTT(30) DEF SsShapes
<1>4. CASE UNCHANGED scanned \/ scanned' = [scanned EXCEPT ![s].error = TRUE]
  <2>1. \A r \in ScanIds : scanned'[r].taken = scanned[r].taken /\ scanned'[r].outcome = scanned[r].outcome
    BY <1>3, <1>4
  <2> QED BY <1>1, <2>1, StreamStutter
<1>5. CASE /\ connector[s].splits # <<>>
           /\ scanned' = [scanned EXCEPT ![s].taken = @ \cup {Head(connector[s].splits)}]
  <2>1. PICK h : h = Head(connector[s].splits)
    OBVIOUS
  <2>2. h \in Splits /\ h \in Range(connector[s].splits)
    BY <1>3, <1>5, <2>1, TailFacts
  <2>3. h \in Splits \ scanned[s].taken
    BY <2>2, Zenon DEF UniqueInv, SplitsUnique
  <2>4. scanned[s].outcome = "none"
    <3>1. scanned[s].outcome \in {"none", "finished"}
      BY <1>2, OfQueryFacts DEF OutcomeInv
    <3> QED BY <1>5, <3>1 DEF OutcomeInv
  <2>5. /\ scanned'[s].taken = scanned[s].taken \cup {h}
        /\ \A r \in ScanIds : r # s => scanned'[r].taken = scanned[r].taken
        /\ \A r \in ScanIds : scanned'[r].outcome = scanned[r].outcome
    BY <1>3, <1>5, <2>1
  <2>6. /\ [r \in ScanIds |-> scanned'[r].taken] =
              [[r \in ScanIds |-> scanned[r].taken] EXCEPT ![s] = @ \cup {h}]
        /\ [r \in ScanIds |-> scanned'[r].outcome # "none"] = [r \in ScanIds |-> scanned[r].outcome # "none"]
    BY <2>5, Zenon
  <2>7. Stream!Deliver(s)
    BY <1>1, <2>3, <2>4, <2>6, Zenon DEF Stream!Deliver
  <2> QED BY <2>7 DEF Stream!StNext
<1> QED BY <1>2, <1>4, <1>5, SMTT(30), Zenon

\* A scan that is found closed and empty ends its stream, which has delivered everything or
\* is broken.
LEMMA StreamFinish ==
  ASSUME SsInv, NEW s \in ScanIds, FinishScan(s)
  PROVE  Stream!StNext
<1> USE DEF SsInv
<1>1. UNCHANGED failure
  BY DEF FinishScan
<1>2. failure[s] \/ scanned[s].taken = Splits
  BY FinishedHasAll, SMTT(30)
<1>3. /\ scanned = [r \in ScanIds |-> scanned[r]]
      /\ \A r \in ScanIds : scanned[r] = [taken |-> scanned[r].taken, error |-> scanned[r].error,
                                          outcome |-> scanned[r].outcome]
  BY Zenon DEF SsShapes
<1>4. /\ scanned'[s].outcome = "finished"
      /\ \A r \in ScanIds : r # s => scanned'[r].outcome = scanned[r].outcome
      /\ \A r \in ScanIds : scanned'[r].taken = scanned[r].taken
  BY <1>3 DEF FinishScan
<1>5. /\ [r \in ScanIds |-> scanned'[r].taken] = [r \in ScanIds |-> scanned[r].taken]
      /\ [r \in ScanIds |-> scanned'[r].outcome # "none"] =
              [[r \in ScanIds |-> scanned[r].outcome # "none"] EXCEPT ![s] = TRUE]
  BY <1>4, ZenonT(30)
<1>6. Stream!End(s)
  BY <1>1, <1>2, <1>5, Zenon DEF Stream!End
<1> QED BY <1>6 DEF Stream!StNext

\* The end of the query gives up the streams that have not ended.
LEMMA StreamEnd ==
  ASSUME SsInv, ScanQueryEnd
  PROVE  [Stream!StNext]_(Stream!stvars)
<1> USE DEF SsInv
<1>1. manager.pc = "query" /\ UNCHANGED failure
  BY DEF ScanQueryEnd
<1>2. PICK S : S = OfQuery(manager.query) /\ S \subseteq ScanIds
  BY <1>1, OfQueryFacts, SMTT(30), Zenon
<1>3. \A r \in ScanIds : scanned[r] = [taken |-> scanned[r].taken, error |-> scanned[r].error,
                                       outcome |-> scanned[r].outcome]
  BY DEF SsShapes
<1>4. CASE ScansFinished(manager.query)
  <2>1. \A r \in ScanIds : scanned'[r] = scanned[r]
    BY <1>4 DEF ScanQueryEnd
  <2> QED BY <1>1, <2>1, StreamStutter
<1>5. CASE ~ScansFinished(manager.query)
  <2>1. PICK s \in S : failure[s]
    BY <1>2, <1>5 DEF ScanQueryEnd, ErrorInv
  <2>2. \A r \in ScanIds : /\ r \in S => scanned'[r] = [scanned[r] EXCEPT !.outcome = "ended"]
                           /\ r \notin S => scanned'[r] = scanned[r]
    BY <1>2, <1>5 DEF ScanQueryEnd
  <2>3. \A r \in ScanIds : /\ scanned'[r].taken = scanned[r].taken
                           /\ scanned'[r].outcome # "none" <=> scanned[r].outcome # "none" \/ r \in S
    <3> TAKE r \in ScanIds
    <3>1. PICK c : c = scanned[r] /\ c = [taken |-> c.taken, error |-> c.error, outcome |-> c.outcome]
      BY <1>3, Zenon
    <3>2. /\ [c EXCEPT !.outcome = "ended"].outcome = "ended"
          /\ [c EXCEPT !.outcome = "ended"].taken = c.taken
      BY <3>1
    <3> QED BY <2>2, <3>1, <3>2, ZenonT(30)
  <2>4. /\ [r \in ScanIds |-> scanned'[r].taken] = [r \in ScanIds |-> scanned[r].taken]
        /\ [r \in ScanIds |-> scanned'[r].outcome # "none"] =
              [r \in ScanIds |-> [q \in ScanIds |-> scanned[q].outcome # "none"][r] \/ r \in S]
    BY <2>3, ZenonT(30)
  <2>5. Stream!GiveUp(S)
    BY <1>1, <2>1, <2>4, Zenon DEF Stream!GiveUp
  <2> QED BY <1>2, <2>5 DEF Stream!StNext
<1> QED BY <1>4, <1>5

\* A batch whose read fails breaks its stream.
LEMMA StreamBegin ==
  ASSUME SsInv, NEW t \in PoolThreads, BeginTask(t)
  PROVE  [Stream!StNext]_(Stream!stvars)
<1>1. UNCHANGED scanned
  BY DEF BeginTask
<1>2. PICK s \in ScanIds : s = thread[t].task[1]
  <2>1. thread[t].task \in SplitTasks
    BY DEF BeginTask, SsInv, PoolShapes, Live
  <2> QED BY <2>1, TaskFacts
<1>3. CASE failure' = failure
  BY <1>1, <1>3, StreamStutter
<1>4. CASE failure' = [failure EXCEPT ![s] = TRUE]
  <2>1. Stream!Break(s)
    BY <1>1, <1>4 DEF Stream!Break
  <2> QED BY <2>1 DEF Stream!StNext
<1> QED BY <1>2, <1>3, <1>4 DEF BeginTask

\* ScanSplits implements SplitStream: what the providers, the dispatcher, the pool and the
\* connectors do together looks to the source operator like a stream that delivers each
\* split at most once, ends after all of them unless it is broken or given up, and delivers
\* nothing after its end.
THEOREM SplitsImplementStream == SsSpec => ImplementsStream
<1>1. SsInv /\ [SsNext]_ssvars => [Stream!StNext]_(Stream!stvars)
  <2> SUFFICES ASSUME SsInv, [SsNext]_ssvars PROVE [Stream!StNext]_(Stream!stvars)
    OBVIOUS
  <2>1. CASE UNCHANGED <<failure, scanned>>
    BY <2>1, StreamStutter
  <2>2. CASE StartQuery \/ ManagerStep
    BY <2>1, <2>2 DEF StartQuery, ManagerStep, RequestStop, WaitForAll, Install, CreateState,
                      EnqueueBatch, RunReturns
  <2>3. ASSUME NEW t \in PoolThreads, ThreadStep(t) PROVE [Stream!StNext]_(Stream!stvars)
    <3>1. CASE BeginTask(t)
      BY <3>1, StreamBegin
    <3>2. CASE PoolTake(t) \/ PushSplit(t) \/ OnTaskDone(t) \/ DropTask(t)
      BY <2>1, <3>2 DEF PoolTake, PushSplit, OnTaskDone, DropTask
    <3> QED BY <2>3, <3>1, <3>2 DEF ThreadStep
  <2>4. ASSUME NEW w \in PullWorkers, BeginPull(w) \/ PullerStep(w) PROVE [Stream!StNext]_(Stream!stvars)
    <3>1. CASE TakeSplit(w)
      BY <3>1, StreamTake
    <3>2. CASE BeginPull(w) \/ CheckPorts(w)
      BY <2>1, <3>2 DEF BeginPull, CheckPorts
    <3> QED BY <2>4, <3>1, <3>2 DEF PullerStep
  <2>5. ASSUME NEW s \in ScanIds, FinishScan(s) PROVE [Stream!StNext]_(Stream!stvars)
    BY <2>5, StreamFinish
  <2>6. CASE ScanQueryEnd
    BY <2>6, StreamEnd
  <2>7. CASE UNCHANGED ssvars
    BY <2>1, <2>7 DEF ssvars
  <2> QED BY <2>2, <2>3, <2>4, <2>5, <2>6, <2>7 DEF SsNext
<1> QED BY <1>1, StreamInit, SplitsInvariant, PTL DEF SsSpec, ImplementsStream, Stream!StSpec
=============================================================================
