------------------------ MODULE ScanSplitsInvariant ------------------------
(***************************************************************************)
(* The inductive invariant of ScanSplits, for any number of queries,       *)
(* scans, batches, splits per batch, pool threads and pulling workers, and *)
(* that the steps which start a query and drive its providers preserve it  *)
(* (scan_manager/, include/exec/scoped_dispatcher.hpp and the              *)
(* split_connector).  ScanSplitsProofs has the other steps and the         *)
(* theorems.                                                               *)
(*                                                                         *)
(* SsInv follows a batch of a scan from the loop                           *)
(* that drives its provider through the dispatcher's pending list, the     *)
(* pool's queue and a thread that pushes its splits one after the other: a *)
(* batch is in one place at a time (PlacesInv), wherever it is it holds    *)
(* its provider's state and with it the connector open (HoldInv), and a    *)
(* split is still to come or has arrived, and not both (ConserveInv and    *)
(* UniqueInv).                                                             *)
(***************************************************************************)
EXTENDS ScanSplits, FiniteSetTheorems, TLAPS

\* The length, the domain and the elements of a sequence.
LEMMA LenOfSeq ==
  ASSUME NEW S, NEW s \in Seq(S)
  PROVE  /\ Len(s) \in Nat /\ DOMAIN s = 1 .. Len(s)
         /\ s \in [1 .. Len(s) -> S]
OBVIOUS

\* Every element of a sequence over S is in S.
LEMMA ElementInSeq ==
  ASSUME NEW S, NEW s \in Seq(S), NEW n \in 1 .. Len(s)
  PROVE  s[n] \in S
OBVIOUS

\* The empty sequence is the one of length 0.
LEMMA EmptyIsShort ==
  ASSUME NEW S
  PROVE  /\ <<>> \in Seq(S) /\ Len(<<>>) = 0
         /\ \A s \in Seq(S) : s # <<>> => Len(s) \in Nat \ {0}
OBVIOUS

\* The first element and the rest of a queue that is not empty.
LEMMA RestOfSeq ==
  ASSUME NEW S, NEW s \in Seq(S), s # <<>>
  PROVE  /\ Head(s) \in S /\ Head(s) = s[1]
         /\ Tail(s) \in Seq(S) /\ Len(Tail(s)) = Len(s) - 1
         /\ \A i \in 1 .. Len(Tail(s)) : Tail(s)[i] = s[i + 1]
OBVIOUS

\* A queue with one more element at its end.
LEMMA AppendedSeq ==
  ASSUME NEW S, NEW s \in Seq(S), NEW x \in S
  PROVE  /\ Append(s, x) \in Seq(S) /\ Append(s, x) # <<>>
         /\ Len(Append(s, x)) = Len(s) + 1 /\ Append(s, x)[Len(s) + 1] = x
         /\ \A i \in 1 .. Len(s) : Append(s, x)[i] = s[i]
OBVIOUS

\* The batches in the pool's queue and in the dispatcher's pending list,
Waiting == Range(ssqueue) \cup Range(dispatcher.pending)

\* ... and the threads that have one.
Live(t) == thread[t].pc # "idle"

\* The threads whose body the dispatcher counts as in flight.
Busy == {t \in PoolThreads : thread[t].pc \in {"begin", "push", "done"}}

\* The records and functions of the connectors, providers and scans have their fields and
\* domains,
SsShapes ==
    /\ connector = [s \in ScanIds |-> connector[s]]
    /\ \A s \in ScanIds :
          /\ connector[s] = [alive |-> connector[s].alive, splits |-> connector[s].splits,
                             closed |-> connector[s].closed, exc |-> connector[s].exc]
          /\ connector[s].splits \in Seq(Splits)
    /\ provider = [s \in ScanIds |-> provider[s]]
    /\ \A s \in ScanIds : provider[s] \in 0 .. ScanBatches
    /\ holders = [s \in ScanIds |-> holders[s]]
    /\ failure = [s \in ScanIds |-> failure[s]]
    /\ scanned = [s \in ScanIds |-> scanned[s]]
    /\ \A s \in ScanIds :
          /\ scanned[s] = [taken |-> scanned[s].taken, error |-> scanned[s].error,
                           outcome |-> scanned[s].outcome]
          /\ scanned[s].taken \subseteq Splits
    /\ puller = [w \in PullWorkers |-> puller[w]]
    /\ \A w \in PullWorkers : puller[w] = [pc |-> puller[w].pc, scan |-> puller[w].scan]

\* ... those of the dispatcher and the threads,
PoolShapes ==
    /\ dispatcher = [inflight |-> dispatcher.inflight, pending |-> dispatcher.pending,
                     stop |-> dispatcher.stop]
    /\ dispatcher.inflight \in Nat
    /\ dispatcher.pending \in Seq(SplitTasks) /\ ssqueue \in Seq(SplitTasks)
    /\ thread = [t \in PoolThreads |-> thread[t]]
    /\ \A t \in PoolThreads :
          /\ thread[t] = [pc |-> thread[t].pc, task |-> thread[t].task, left |-> thread[t].left]
          /\ thread[t].pc \in {"idle", "begin", "push", "done", "drop"}
          /\ Live(t) => thread[t].task \in SplitTasks
          /\ thread[t].pc = "push" => thread[t].left \in 1 .. SplitsPer

\* ... and the query thread is at a step of its code.
ManagerShape ==
    /\ manager = [pc |-> manager.pc, query |-> manager.query, at |-> manager.at]
    /\ manager.pc \in {"idle", "stop", "wait", "install", "drive", "run", "query",
                       "end_stop", "end_wait"}
    /\ manager.query \in 0 .. Len(QueryScans)
    /\ manager.pc # "idle" => manager.query \in 1 .. Len(QueryScans)
    /\ manager.pc \in {"drive", "run"} => manager.at \in 1 .. Len(QueryScans[manager.query])

\* A batch is queued, pending or run by one thread, and only one of these.
PlacesInv ==
    /\ IsInjective(ssqueue) /\ IsInjective(dispatcher.pending)
    /\ Range(ssqueue) \cap Range(dispatcher.pending) = {}
    /\ \A t \in PoolThreads : Live(t) => thread[t].task \notin Waiting
    /\ \A t, u \in PoolThreads : Live(t) /\ Live(u) /\ thread[t].task = thread[u].task => t = u

\* The batch holds the state of its provider, and the provider has produced it.
Held(x) == x[2] \in holders[x[1]] /\ x[2] <= provider[x[1]]

\* Every batch that waits or runs holds its provider's state; a connector is closed when
\* nobody holds it any more.
HoldInv ==
    /\ \A x \in Waiting : Held(x)
    /\ \A t \in PoolThreads : Live(t) => Held(thread[t].task)
    /\ \A s \in ScanIds : connector[s].closed => holders[s] = {}

\* A stop is requested only while somebody waits for it, and between two queries no body is
\* in flight.
DispatcherInv ==
    /\ dispatcher.stop => manager.pc \in {"wait", "end_wait"}
    /\ manager.pc \in {"install", "idle"} => dispatcher.inflight = 0

\* Where the query thread is: before it drives the providers,
Ahead == {"stop", "wait", "install"}

\* ... while it does,
Running == {"drive", "run"}

\* ... and after the query.
Over == {"end_stop", "end_wait", "idle"}
ScanAt(q, j) == QueryScans[q][j]

\* The providers are driven one after the other: those ahead have produced nothing and are
\* open, those behind have produced everything.
DriveInv ==
    \A q \in 1 .. Len(QueryScans) : \A j \in 1 .. Len(QueryScans[q]) :
        LET s == ScanAt(q, j) IN
        /\ q > manager.query \/ (q = manager.query /\ manager.pc \in Ahead) => provider[s] = 0
        /\ q = manager.query /\ manager.pc = "drive" /\ j >= manager.at =>
              provider[s] = 0 /\ ~connector[s].closed
        /\ q = manager.query /\ manager.pc = "run" /\ j > manager.at =>
              provider[s] = 0 /\ ~connector[s].closed
        /\ q = manager.query /\ manager.pc = "run" /\ j = manager.at => RunHolder \in holders[s]
        /\ q = manager.query /\ manager.pc \in Running /\ j < manager.at => provider[s] = ScanBatches
        /\ q = manager.query /\ manager.pc = "query" => provider[s] = ScanBatches

\* A scan has an outcome when its query is over, and not before its providers were driven;
\* a scan that finished was closed and empty; only the scans of the query that runs are
\* pulled.
OutcomeInv ==
    /\ \A q \in 1 .. Len(QueryScans) : \A s \in Range(QueryScans[q]) :
          /\ q > manager.query \/ (q = manager.query /\ manager.pc \in Ahead \cup Running) =>
                scanned[s].outcome = "none"
          /\ q = manager.query /\ manager.pc = "query" => scanned[s].outcome \in {"none", "finished"}
          /\ q < manager.query \/ (q = manager.query /\ manager.pc \in Over) =>
                scanned[s].outcome # "none"
    /\ \A s \in ScanIds : scanned[s].outcome = "finished" =>
                              connector[s].closed /\ connector[s].splits = <<>>
    /\ \A w \in PullWorkers : puller[w].pc # "idle" =>
          manager.pc = "query" /\ puller[w].scan \in OfQuery(manager.query)

\* An exception comes from a batch that failed.
ErrorInv ==
    \A s \in ScanIds : /\ connector[s].exc => failure[s]
                       /\ scanned[s].error => failure[s]

\* Split x of scan s is one that thread t has still to push,
ToPush(t, s, x) ==
    thread[t].pc = "push" /\ thread[t].task = <<s, x[1]>> /\ x[2] >= SplitsPer + 1 - thread[t].left

\* ... or belongs to a batch that t has still to read.
ToRead(t, s, x) == thread[t].pc = "begin" /\ thread[t].task = <<s, x[1]>>

\* The split is still to come,
Coming(s, x) ==
    \/ <<s, x[1]>> \in Waiting
    \/ \E t \in PoolThreads : ToRead(t, s, x) \/ ToPush(t, s, x)

\* ... or it is in the connector or was taken by the operator.
Arrived(s, x) == x \in Range(connector[s].splits) \cup scanned[s].taken

\* A split of a batch that was produced has arrived or is still to come, unless a batch of
\* its scan failed or the scan is over,
ConserveInv ==
    \A s \in ScanIds : \A x \in Splits :
        \/ x[1] > provider[s] \/ failure[s] \/ scanned[s].outcome # "none"
        \/ Arrived(s, x) \/ Coming(s, x)

\* ... and not both; no split arrives twice.
UniqueInv ==
    /\ SplitsUnique
    /\ \A s \in ScanIds : \A x \in Splits :
          Arrived(s, x) => x[1] <= provider[s] /\ ~Coming(s, x)

\* The inductive invariant.
SsInv ==
    /\ SsShapes /\ PoolShapes /\ ManagerShape /\ PlacesInv /\ HoldInv /\ DispatcherInv /\ DriveInv
    /\ OutcomeInv /\ ErrorInv /\ ConserveInv /\ UniqueInv /\ InflightExact /\ AllSplitsScanned

-----------------------------------------------------------------------------

\* A push adds its element at the end; a sequence without repetitions stays one if the
\* element is new.
LEMMA AppendFacts ==
  ASSUME NEW S, NEW q \in Seq(S), NEW x \in S
  PROVE  /\ Append(q, x) \in Seq(S) /\ Len(Append(q, x)) = Len(q) + 1
         /\ Range(Append(q, x)) = Range(q) \cup {x}
         /\ IsInjective(q) /\ x \notin Range(q) => IsInjective(Append(q, x))
<1>1. /\ Append(q, x) \in Seq(S) /\ Len(Append(q, x)) = Len(q) + 1 /\ Len(q) \in Nat
      /\ \A i \in 1 .. Len(q) : Append(q, x)[i] = q[i]
      /\ Append(q, x)[Len(q) + 1] = x
  BY AppendedSeq, LenOfSeq
<1>2. DOMAIN q = 1 .. Len(q) /\ DOMAIN Append(q, x) = 1 .. Len(q) + 1
  BY <1>1, LenOfSeq
<1>3. Range(Append(q, x)) = Range(q) \cup {x}
  <2>1. ASSUME NEW y \in Range(Append(q, x)) PROVE y \in Range(q) \cup {x}
    <3>1. PICK i \in 1 .. Len(q) + 1 : Append(q, x)[i] = y
      BY <1>2, <2>1 DEF Range
    <3>2. i \in 1 .. Len(q) \/ i = Len(q) + 1
      BY <1>1
    <3> QED BY <1>1, <1>2, <3>1, <3>2 DEF Range
  <2>2. ASSUME NEW y \in Range(q) PROVE y \in Range(Append(q, x))
    <3>1. PICK i \in 1 .. Len(q) : q[i] = y
      BY <1>2, <2>2 DEF Range
    <3>2. i \in 1 .. Len(q) + 1 /\ Append(q, x)[i] = y
      BY <1>1, <3>1
    <3> QED BY <1>2, <3>2 DEF Range
  <2>3. x \in Range(Append(q, x))
    <3>1. Len(q) + 1 \in 1 .. Len(q) + 1
      BY <1>1
    <3> QED BY <1>1, <1>2, <3>1 DEF Range
  <2> QED BY <2>1, <2>2, <2>3
<1>4. ASSUME IsInjective(q), x \notin Range(q) PROVE IsInjective(Append(q, x))
  <2> SUFFICES ASSUME NEW i \in 1 .. Len(q) + 1, NEW j \in 1 .. Len(q) + 1,
                      Append(q, x)[i] = Append(q, x)[j]
               PROVE  i = j
    BY <1>2 DEF IsInjective
  <2>1. \A n \in 1 .. Len(q) : q[n] # x
    BY <1>2, <1>4 DEF Range
  <2>2. (i \in 1 .. Len(q) \/ i = Len(q) + 1) /\ (j \in 1 .. Len(q) \/ j = Len(q) + 1)
    BY <1>1
  <2> QED BY <1>1, <1>2, <1>4, <2>1, <2>2 DEF IsInjective
<1> QED BY <1>1, <1>3, <1>4

\* A pop takes the first element, which a sequence without repetitions does not contain
\* again.
LEMMA TailFacts ==
  ASSUME NEW S, NEW q \in Seq(S), q # <<>>
  PROVE  /\ Tail(q) \in Seq(S) /\ Len(Tail(q)) = Len(q) - 1 /\ Len(q) > 0
         /\ Head(q) \in S /\ Head(q) \in Range(q)
         /\ IsInjective(q) => /\ IsInjective(Tail(q))
                              /\ Range(Tail(q)) = Range(q) \ {Head(q)}
<1>1. /\ Tail(q) \in Seq(S) /\ Len(Tail(q)) = Len(q) - 1 /\ Len(q) \in Nat /\ Len(q) > 0
      /\ Head(q) = q[1] /\ \A i \in 1 .. Len(q) - 1 : Tail(q)[i] = q[i + 1]
  BY RestOfSeq, LenOfSeq, EmptyIsShort
<1>2. DOMAIN q = 1 .. Len(q) /\ DOMAIN Tail(q) = 1 .. Len(q) - 1
  BY <1>1, LenOfSeq
<1>3. 1 \in 1 .. Len(q) /\ q[1] \in S
  BY <1>1, ElementInSeq
<1>4. Head(q) \in S /\ Head(q) \in Range(q)
  BY <1>1, <1>2, <1>3 DEF Range
<1>5. ASSUME IsInjective(q) PROVE IsInjective(Tail(q)) /\ Range(Tail(q)) = Range(q) \ {Head(q)}
  <2>1. IsInjective(Tail(q))
    BY <1>1, <1>2, <1>5 DEF IsInjective
  <2>2. ASSUME NEW y \in Range(Tail(q)) PROVE y \in Range(q) /\ y # Head(q)
    <3>1. PICK i \in 1 .. Len(q) - 1 : Tail(q)[i] = y
      BY <1>2, <2>2 DEF Range
    <3>2. i + 1 \in 1 .. Len(q) /\ i + 1 # 1 /\ q[i + 1] = y
      BY <1>1, <3>1
    <3> QED BY <1>1, <1>2, <1>3, <1>5, <3>2 DEF Range, IsInjective
  <2>3. ASSUME NEW y \in Range(q), y # Head(q) PROVE y \in Range(Tail(q))
    <3>1. PICK i \in 1 .. Len(q) : q[i] = y
      BY <1>2, <2>3 DEF Range
    <3>2. i - 1 \in 1 .. Len(q) - 1 /\ Tail(q)[i - 1] = y
      BY <1>1, <2>3, <3>1
    <3> QED BY <1>2, <3>2, Zenon DEF Range
  <2> QED BY <2>1, <2>2, <2>3
<1> QED BY <1>1, <1>4, <1>5

\* The empty sequence has no element and no repetition.
LEMMA EmptyFacts == Range(<<>>) = {} /\ IsInjective(<<>>) /\ Len(<<>>) = 0
<1>1. DOMAIN <<>> = {}
  OBVIOUS
<1> QED BY <1>1 DEF Range, IsInjective

\* The elements of a sequence over S are in S.
LEMMA MemberFacts ==
  ASSUME NEW S, NEW q \in Seq(S), NEW x \in Range(q)
  PROVE  x \in S
BY LenOfSeq, ElementInSeq DEF Range

\* The scans of a query are listed once, and belong to one query.
LEMMA ScanFacts ==
  /\ \A q \in 1 .. Len(QueryScans) :
        /\ Len(QueryScans[q]) \in Nat \ {0}
        /\ Range(QueryScans[q]) \subseteq ScanIds
        /\ \A j \in 1 .. Len(QueryScans[q]) : ScanAt(q, j) \in Range(QueryScans[q])
        /\ \A s \in Range(QueryScans[q]) : \E j \in 1 .. Len(QueryScans[q]) : s = ScanAt(q, j)
        /\ \A i, j \in 1 .. Len(QueryScans[q]) : ScanAt(q, i) = ScanAt(q, j) => i = j
  /\ \A s \in ScanIds : \E q \in 1 .. Len(QueryScans) : s \in Range(QueryScans[q])
  /\ \A p, q \in 1 .. Len(QueryScans) : \A s \in Range(QueryScans[p]) :
        s \in Range(QueryScans[q]) => p = q
  /\ Len(QueryScans) \in Nat
<1>1. /\ QueryScans \in Seq(Seq(Nat) \ {<<>>})
      /\ \A q \in 1 .. Len(QueryScans) : IsInjective(QueryScans[q])
      /\ \A p, q \in 1 .. Len(QueryScans) :
            p # q => Range(QueryScans[p]) \cap Range(QueryScans[q]) = {}
  BY SplitsAssumption, Zenon
<1>2. Len(QueryScans) \in Nat
  BY <1>1, LenOfSeq
<1>3. ASSUME NEW q \in 1 .. Len(QueryScans)
      PROVE  QueryScans[q] \in Seq(Nat) /\ QueryScans[q] # <<>>
  BY <1>1, ElementInSeq
<1>4. ASSUME NEW q \in 1 .. Len(QueryScans)
      PROVE  Len(QueryScans[q]) \in Nat \ {0} /\ DOMAIN QueryScans[q] = 1 .. Len(QueryScans[q])
  BY <1>3, LenOfSeq, EmptyIsShort
<1>5. ASSUME NEW q \in 1 .. Len(QueryScans)
      PROVE  /\ Range(QueryScans[q]) \subseteq ScanIds
             /\ \A j \in 1 .. Len(QueryScans[q]) : ScanAt(q, j) \in Range(QueryScans[q])
             /\ \A s \in Range(QueryScans[q]) : \E j \in 1 .. Len(QueryScans[q]) : s = ScanAt(q, j)
             /\ \A i, j \in 1 .. Len(QueryScans[q]) : ScanAt(q, i) = ScanAt(q, j) => i = j
  <2>1. Range(QueryScans[q]) \subseteq ScanIds
    BY DEF ScanIds
  <2>2. IsInjective(QueryScans[q])
    BY <1>1
  <2> QED BY <1>4, <2>1, <2>2 DEF Range, ScanAt, IsInjective
<1>6. \A s \in ScanIds : \E q \in 1 .. Len(QueryScans) : s \in Range(QueryScans[q])
  BY DEF ScanIds
<1> QED BY <1>1, <1>2, <1>4, <1>5, <1>6, Zenon

\* Thread t goes to p, with batch x and n splits to push; no other thread moves.
ThreadMoves(t, p, x, n) ==
    /\ thread' = [u \in PoolThreads |-> thread'[u]]
    /\ thread'[t] = [pc |-> p, task |-> x, left |-> n]
    /\ \A u \in PoolThreads : u # t => thread'[u] = thread[u]

\* The provider that is driven is one of the query that runs.
LEMMA DrivenFacts ==
  ASSUME ManagerShape, manager.pc \in Running
  PROVE  /\ Driven = ScanAt(manager.query, manager.at) /\ Driven \in ScanIds
         /\ manager.query \in 1 .. Len(QueryScans)
         /\ manager.at \in 1 .. Len(QueryScans[manager.query])
         /\ Driven \in Range(QueryScans[manager.query])
BY ScanFacts DEF ManagerShape, Running, Driven, ScanAt

\* Giving up holders closes the connectors nobody holds any more, and no other; the
\* exception the last one leaves there is that of its provider.
LEMMA ReleaseFacts ==
  ASSUME SsShapes, HoldInv, NEW gone, ReleaseAll(gone)
  PROVE  /\ holders' = [s \in ScanIds |-> holders'[s]]
         /\ connector' = [s \in ScanIds |-> connector'[s]]
         /\ \A s \in ScanIds :
               /\ holders'[s] = holders[s] \ gone[s]
               /\ connector'[s] = [alive |-> connector'[s].alive, splits |-> connector'[s].splits,
                                   closed |-> connector'[s].closed, exc |-> connector'[s].exc]
               /\ connector'[s].splits = connector[s].splits
               /\ gone[s] = {} => connector'[s] = connector[s]
               /\ connector[s].closed => connector'[s].closed
               /\ connector'[s].closed => holders'[s] = {}
               /\ connector'[s].exc => connector[s].exc \/ failure[s]
<1>1. /\ holders' = [s \in ScanIds |-> holders'[s]]
      /\ connector' = [s \in ScanIds |-> connector'[s]]
      /\ \A s \in ScanIds : holders'[s] = holders[s] \ gone[s]
  BY DEF ReleaseAll
<1>2. ASSUME NEW s \in ScanIds
      PROVE  /\ connector'[s] = [alive |-> connector'[s].alive, splits |-> connector'[s].splits,
                                 closed |-> connector'[s].closed, exc |-> connector'[s].exc]
             /\ connector'[s].splits = connector[s].splits
             /\ gone[s] = {} => connector'[s] = connector[s]
             /\ connector[s].closed => connector'[s].closed
             /\ connector'[s].closed => holders'[s] = {}
             /\ connector'[s].exc => connector[s].exc \/ failure[s]
  <2>1. /\ connector[s] = [alive |-> connector[s].alive, splits |-> connector[s].splits,
                           closed |-> connector[s].closed, exc |-> connector[s].exc]
        /\ connector[s].closed => holders[s] = {}
    BY DEF SsShapes, HoldInv
  <2>2. CASE gone[s] # {} /\ LastHolder(s, gone[s])
    <3>1. connector'[s] = Close(connector[s], failure[s])
      BY <2>2 DEF ReleaseAll
    <3>2. connector'[s] = [alive |-> connector[s].alive, splits |-> connector[s].splits,
                           closed |-> TRUE, exc |-> connector[s].exc \/ failure[s]]
      BY <2>1, <3>1, Zenon DEF Close
    <3>3. holders'[s] = {}
      BY <1>1, <2>2 DEF LastHolder
    <3>4. connector'[s].exc = (connector[s].exc \/ failure[s])
      BY <3>2
    <3>5. connector'[s].exc => connector[s].exc \/ failure[s]
      BY <3>4, Zenon
    <3>6. connector'[s].splits = connector[s].splits /\ connector'[s].closed
      BY <3>2
    <3> QED BY <2>2, <3>2, <3>3, <3>5, <3>6
  <2>3. CASE ~(gone[s] # {} /\ LastHolder(s, gone[s]))
    <3>1. connector'[s] = connector[s]
      BY <2>3 DEF ReleaseAll
    <3> QED BY <1>1, <2>1, <3>1
  <2> QED BY <2>2, <2>3
<1> QED BY <1>1, <1>2

\* Where each step of a pool thread takes it.
LEMMA ThreadFacts ==
  ASSUME PoolShapes, NEW t \in PoolThreads
  PROVE  /\ PoolTake(t) => ThreadMoves(t, "begin", Head(ssqueue), 0)
         /\ BeginTask(t) => \/ ThreadMoves(t, "done", thread[t].task, thread[t].left)
                            \/ ThreadMoves(t, "push", thread[t].task, SplitsPer)
         /\ PushSplit(t) => ThreadMoves(t, IF thread[t].left = 1 THEN "done" ELSE "push",
                                        thread[t].task, thread[t].left - 1)
         /\ OnTaskDone(t) => ThreadMoves(t, "drop", thread[t].task, thread[t].left)
         /\ DropTask(t) => ThreadMoves(t, "idle", <<>>, 0)
<1>1. thread = [u \in PoolThreads |-> thread[u]]
  BY DEF PoolShapes
<1>2. thread[t] = [pc |-> thread[t].pc, task |-> thread[t].task, left |-> thread[t].left]
  BY DEF PoolShapes
<1>3. PoolTake(t) => ThreadMoves(t, "begin", Head(ssqueue), 0)
  BY <1>1, <1>2, Zenon DEF PoolTake, ThreadMoves
<1>4. BeginTask(t) => \/ ThreadMoves(t, "done", thread[t].task, thread[t].left)
                      \/ ThreadMoves(t, "push", thread[t].task, SplitsPer)
  BY <1>1, <1>2, Zenon DEF BeginTask, ThreadMoves
<1>5. PushSplit(t) => ThreadMoves(t, IF thread[t].left = 1 THEN "done" ELSE "push",
                                  thread[t].task, thread[t].left - 1)
  <2>1. CASE thread[t].left = 1
    BY <1>1, <1>2, <2>1, Zenon DEF PushSplit, ThreadMoves
  <2>2. CASE thread[t].left # 1
    BY <1>1, <1>2, <2>2 DEF PushSplit, ThreadMoves
  <2> QED BY <2>1, <2>2
<1>6. OnTaskDone(t) => ThreadMoves(t, "drop", thread[t].task, thread[t].left)
  BY <1>1, <1>2, Zenon DEF OnTaskDone, ThreadMoves
<1>7. DropTask(t) => ThreadMoves(t, "idle", <<>>, 0)
  BY <1>1, <1>2, Zenon DEF DropTask, ThreadMoves, IdleThread
<1> QED BY <1>3, <1>4, <1>5, <1>6, <1>7

\* The number of bodies in flight changes by what one thread's move says.
LEMMA CountMoves ==
  ASSUME PoolShapes, InflightExact, NEW t \in PoolThreads, NEW p, NEW x, NEW n, ThreadMoves(t, p, x, n)
  PROVE  LET busy == {"begin", "push", "done"}
             now == Cardinality(Busy)   next == Cardinality(Busy') IN
         /\ now \in Nat /\ next \in Nat
         /\ (p \in busy <=> thread[t].pc \in busy) => next = now
         /\ p \in busy /\ thread[t].pc \notin busy => next = now + 1
         /\ p \notin busy /\ thread[t].pc \in busy => next = now - 1 /\ now > 0
<1> DEFINE busy == {"begin", "push", "done"}
<1>1. IsFiniteSet(Busy) /\ IsFiniteSet(Busy')
  <2>1. Busy \subseteq PoolThreads /\ Busy' \subseteq PoolThreads
    BY DEF Busy
  <2> QED BY <2>1, FS_Subset, SplitsAssumption
<1>2. thread'[t].pc = p /\ \A u \in PoolThreads : u # t => thread'[u].pc = thread[u].pc
  BY DEF ThreadMoves
<1>3. (p \in busy <=> thread[t].pc \in busy) => Busy' = Busy
  BY <1>2 DEF Busy
<1>4. p \in busy /\ thread[t].pc \notin busy => Busy' = Busy \cup {t} /\ t \notin Busy
  BY <1>2 DEF Busy
<1>5. p \notin busy /\ thread[t].pc \in busy => Busy' = Busy \ {t} /\ t \in Busy
  BY <1>2 DEF Busy
<1>6. Cardinality(Busy) \in Nat /\ Cardinality(Busy') \in Nat
  BY <1>1, FS_CardinalityType
<1>7. p \in busy /\ thread[t].pc \notin busy => Cardinality(Busy') = Cardinality(Busy) + 1
  BY <1>1, <1>4, FS_AddElement
<1>8. p \notin busy /\ thread[t].pc \in busy => Cardinality(Busy') = Cardinality(Busy) - 1
  BY <1>1, <1>5, FS_RemoveElement
<1> HIDE DEF busy
<1>9. (p \in busy <=> thread[t].pc \in busy) => Cardinality(Busy') = Cardinality(Busy)
  BY <1>3
<1> QED BY <1>6, <1>7, <1>8, <1>9 DEF busy

\* When nothing is in flight, nothing is queued and no thread runs a body.
LEMMA NoneBusy ==
  ASSUME PoolShapes, InflightExact, dispatcher.inflight = 0
  PROVE  ssqueue = <<>> /\ \A t \in PoolThreads : thread[t].pc \notin {"begin", "push", "done"}
<1>1. IsFiniteSet(Busy)
  <2>1. Busy \subseteq PoolThreads
    BY DEF Busy
  <2> QED BY <2>1, FS_Subset, SplitsAssumption
<1>2. Cardinality(Busy) \in Nat /\ Len(ssqueue) \in Nat
  BY <1>1, FS_CardinalityType, LenOfSeq DEF PoolShapes
<1>3. Len(ssqueue) + Cardinality(Busy) = 0
  BY DEF InflightExact, Busy
<1>4. Len(ssqueue) = 0 /\ Cardinality(Busy) = 0
  BY <1>2, <1>3
<1>5. ssqueue = <<>>
  BY <1>4, EmptyIsShort DEF PoolShapes
<1>6. Busy = {}
  BY <1>1, <1>4, FS_EmptySet
<1> QED BY <1>5, <1>6 DEF Busy

\* Outside the query, a scan has produced nothing or is over.
LEMMA Settled ==
  ASSUME SsInv, manager.pc \in Ahead \cup Over, NEW s \in ScanIds
  PROVE  provider[s] = 0 \/ scanned[s].outcome # "none"
<1>1. PICK q \in 1 .. Len(QueryScans) : s \in Range(QueryScans[q])
  BY ScanFacts
<1>2. PICK j \in 1 .. Len(QueryScans[q]) : s = ScanAt(q, j)
  BY <1>1, ScanFacts, Zenon
<1>3. CASE q > manager.query \/ (q = manager.query /\ manager.pc \in Ahead)
  BY <1>2, <1>3 DEF SsInv, DriveInv
<1>4. CASE q < manager.query \/ (q = manager.query /\ manager.pc \in Over)
  BY <1>1, <1>4 DEF SsInv, OutcomeInv
<1>5. q \in Int /\ manager.query \in Int
  BY ScanFacts DEF SsInv, ManagerShape
<1> QED BY <1>3, <1>4, <1>5

\* The start of a query keeps the invariant.
LEMMA StartQueryKeeps == ASSUME SsInv, StartQuery PROVE SsInv'
<1> USE DEF SsInv
<1>1. /\ manager.pc = "idle" /\ manager.query < Len(QueryScans)
      /\ UNCHANGED <<connector, provider, holders, failure, dispatcher, ssqueue, thread,
                     puller, creation, scanned>>
  BY DEF StartQuery
<1>2. /\ manager'.pc = "stop" /\ manager'.query = manager.query + 1 /\ manager'.at = 0
      /\ manager' = [pc |-> manager'.pc, query |-> manager'.query, at |-> manager'.at]
  BY DEF StartQuery
<1>3. manager.query \in Nat /\ Len(QueryScans) \in Nat
  BY ScanFacts DEF ManagerShape
<1>4. ManagerShape'
  BY <1>1, <1>2, <1>3 DEF ManagerShape
<1>5. SsShapes' /\ PoolShapes' /\ PlacesInv' /\ HoldInv' /\ ErrorInv'
  BY <1>1 DEF SsShapes, PoolShapes, PlacesInv, HoldInv, ErrorInv, Held, Waiting, Live
<1>6. ConserveInv' /\ UniqueInv' /\ InflightExact' /\ AllSplitsScanned'
  BY <1>1, ZenonT(30) DEF ConserveInv, UniqueInv, SplitsUnique, InflightExact, AllSplitsScanned, Coming, ToRead,
              ToPush, Arrived, Waiting
<1>7. DispatcherInv'
  BY <1>1, <1>2 DEF DispatcherInv
<1>8. DriveInv'
  <2>1. \A q \in 1 .. Len(QueryScans) : q >= manager.query + 1 => q > manager.query
    BY <1>3
  <2> QED BY <1>1, <1>2, <1>3, <2>1 DEF DriveInv, Ahead, Running
<1>9. OutcomeInv'
  <2>1. \A q \in 1 .. Len(QueryScans) : /\ q >= manager.query + 1 => q > manager.query
                                        /\ q < manager.query + 1 => q <= manager.query
    BY <1>3
  <2>2. \A q \in 1 .. Len(QueryScans) : \A s \in Range(QueryScans[q]) :
          /\ q > manager.query => scanned[s].outcome = "none"
          /\ q <= manager.query => scanned[s].outcome # "none"
    BY <1>1, <1>3 DEF OutcomeInv, Over
  <2> QED BY <1>1, <1>2, <1>3, <2>1, <2>2 DEF OutcomeInv, Ahead, Running, Over
<1> QED BY <1>4, <1>5, <1>6, <1>7, <1>8, <1>9

\* request_stop() drops what is pending, which gives up the holders of those batches.
LEMMA RequestStopKeeps == ASSUME SsInv, RequestStop PROVE SsInv'
<1> USE DEF SsInv
<1> DEFINE gone == [s \in ScanIds |-> {b \in Batches : <<s, b>> \in Range(dispatcher.pending)}]
<1>1. /\ manager.pc \in {"stop", "end_stop"}
      /\ UNCHANGED <<provider, failure, ssqueue, thread, puller, creation, scanned>>
      /\ ReleaseAll(gone)
  BY DEF RequestStop
<1>2. /\ dispatcher' = [inflight |-> dispatcher'.inflight, pending |-> dispatcher'.pending,
                        stop |-> dispatcher'.stop]
      /\ dispatcher'.inflight = dispatcher.inflight /\ dispatcher'.pending = <<>>
  BY Zenon DEF RequestStop, PoolShapes
<1>3. /\ manager' = [pc |-> manager'.pc, query |-> manager'.query, at |-> manager'.at]
      /\ manager'.query = manager.query
      /\ manager'.pc = IF manager.pc = "stop" THEN "wait" ELSE "end_wait"
  BY DEF RequestStop, ManagerShape
<1>4. \A s \in ScanIds :
         /\ holders'[s] = holders[s] \ gone[s]
         /\ connector'[s].splits = connector[s].splits
         /\ connector[s].closed => connector'[s].closed
         /\ connector'[s].closed => holders'[s] = {}
         /\ connector'[s].exc => connector[s].exc \/ failure[s]
  BY <1>1, ReleaseFacts, ZenonT(30)
<1>5. Waiting' = Range(ssqueue) /\ Waiting' \subseteq Waiting
  BY <1>1, <1>2, EmptyFacts DEF Waiting
<1>6. SsShapes'
  <2>1. /\ connector' = [s \in ScanIds |-> connector'[s]] /\ holders' = [s \in ScanIds |-> holders'[s]]
        /\ \A s \in ScanIds :
              connector'[s] = [alive |-> connector'[s].alive, splits |-> connector'[s].splits,
                               closed |-> connector'[s].closed, exc |-> connector'[s].exc]
    BY <1>1, ReleaseFacts
  <2> QED BY <1>1, <1>4, <2>1 DEF SsShapes
<1>7. PoolShapes'
  BY <1>1, <1>2, EmptyIsShort DEF PoolShapes, Live
<1>8. ManagerShape'
  BY <1>1, <1>3 DEF ManagerShape
<1>9. PlacesInv'
  BY <1>1, <1>2, <1>5, EmptyFacts DEF PlacesInv, Live
<1>10. HoldInv'
  <2>1. ASSUME NEW x \in SplitTasks, x \notin Range(dispatcher.pending), Held(x) PROVE Held(x)'
    <3>1. x[1] \in ScanIds /\ x[2] \in Batches /\ x = <<x[1], x[2]>>
      BY DEF SplitTasks
    <3>2. x[2] \notin gone[x[1]]
      BY <2>1, <3>1
    <3> QED BY <1>1, <1>4, <2>1, <3>1, <3>2 DEF Held
  <2>2. \A x \in Waiting' : x \in SplitTasks /\ x \notin Range(dispatcher.pending) /\ Held(x)
    BY <1>5, MemberFacts DEF PlacesInv, HoldInv, PoolShapes
  <2>3. \A t \in PoolThreads : Live(t) =>
            thread[t].task \in SplitTasks /\ thread[t].task \notin Range(dispatcher.pending) /\ Held(thread[t].task)
    BY DEF PlacesInv, HoldInv, PoolShapes, Waiting
  <2>4. \A x \in Waiting' : Held(x)'
    BY <2>1, <2>2
  <2>5. \A t \in PoolThreads : Live(t)' => Held(thread[t].task)'
    <3>1. ASSUME NEW t \in PoolThreads, Live(t)' PROVE Held(thread[t].task)'
      <4>1. PICK x : x = thread[t].task
        BY SMTT(30)
      <4>2. x \in SplitTasks /\ x \notin Range(dispatcher.pending) /\ Held(x)
        BY <1>1, <2>3, <3>1, <4>1 DEF Live
      <4>3. Held(x)'
        BY <2>1, <4>2
      <4> QED BY <1>1, <4>1, <4>3 DEF Held
    <3> QED BY <3>1
  <2> QED BY <1>4, <2>4, <2>5 DEF HoldInv
<1>11. DispatcherInv'
  BY <1>1, <1>3 DEF DispatcherInv
<1>12. DriveInv'
  BY <1>1, <1>3 DEF DriveInv, Ahead, Running
<1>13. OutcomeInv'
  <2>1. \A s \in ScanIds : scanned'[s].outcome = "finished" =>
                                connector'[s].closed /\ connector'[s].splits = <<>>
    BY <1>1, <1>4 DEF OutcomeInv
  <2>2. \A w \in PullWorkers : puller'[w].pc = "idle"
    BY <1>1, SMTT(30) DEF OutcomeInv
  <2> QED BY <1>1, <1>3, <2>1, <2>2, SMTT(30) DEF OutcomeInv, Ahead, Running, Over
<1>14. ErrorInv'
  BY <1>1, <1>4 DEF ErrorInv
<1>15. ConserveInv'
  <2>1. \A s \in ScanIds : provider[s] = 0 \/ scanned[s].outcome # "none"
    BY <1>1, Settled DEF Ahead, Over
  <2>2. \A x \in Splits : x[1] > 0
    BY DEF Splits, Batches
  <2> QED BY <1>1, <2>1, <2>2 DEF ConserveInv
<1>16. UniqueInv'
  BY <1>1, <1>4, <1>5 DEF UniqueInv, SplitsUnique, Arrived, Coming, ToRead, ToPush
<1>17. InflightExact' /\ AllSplitsScanned'
  BY <1>1, <1>2 DEF InflightExact, AllSplitsScanned
<1> QED BY <1>6, <1>7, <1>8, <1>9, <1>10, <1>11, <1>12, <1>13, <1>14, <1>15, <1>16, <1>17

\* wait_for_all() returns when nothing is in flight.
LEMMA WaitForAllKeeps == ASSUME SsInv, WaitForAll PROVE SsInv'
<1> USE DEF SsInv
<1>1. /\ manager.pc \in {"wait", "end_wait"} /\ dispatcher.inflight = 0 /\ dispatcher.pending = <<>>
      /\ UNCHANGED <<connector, provider, holders, failure, ssqueue, thread, puller, creation, scanned>>
  BY DEF WaitForAll, Quiescent
<1>2. /\ dispatcher' = [inflight |-> dispatcher'.inflight, pending |-> dispatcher'.pending,
                        stop |-> dispatcher'.stop]
      /\ dispatcher'.inflight = dispatcher.inflight /\ dispatcher'.pending = dispatcher.pending
      /\ dispatcher'.stop = FALSE
  BY <1>1 DEF WaitForAll, NewDispatcher
<1>3. /\ manager' = [pc |-> manager'.pc, query |-> manager'.query, at |-> manager'.at]
      /\ manager'.query = manager.query
      /\ manager'.pc = IF manager.pc = "wait" THEN "install" ELSE "idle"
  BY DEF WaitForAll, ManagerShape
<1>4. SsShapes' /\ PoolShapes' /\ PlacesInv' /\ HoldInv' /\ ErrorInv'
  <2>1. SsShapes'
    BY <1>1 DEF SsShapes
  <2>2. PoolShapes'
    BY <1>1, <1>2 DEF PoolShapes, Live
  <2>3. PlacesInv'
    BY <1>1, <1>2, ZenonT(60) DEF PlacesInv, Live, Waiting
  <2>4. HoldInv' /\ ErrorInv'
    BY <1>1, <1>2, Zenon DEF HoldInv, ErrorInv, Held, Waiting, Live
  <2> QED BY <2>1, <2>2, <2>3, <2>4
<1>5. ConserveInv' /\ UniqueInv' /\ InflightExact' /\ AllSplitsScanned'
  BY <1>1, <1>2, ZenonT(60) DEF ConserveInv, UniqueInv, SplitsUnique, InflightExact, AllSplitsScanned, Coming,
                    ToRead, ToPush, Arrived, Waiting
<1>6. ManagerShape'
  BY <1>1, <1>3 DEF ManagerShape
<1>7. DispatcherInv'
  BY <1>1, <1>2 DEF DispatcherInv
<1>8. DriveInv'
  BY <1>1, <1>3 DEF DriveInv, Ahead, Running
<1>9. OutcomeInv'
  <2>1. \A w \in PullWorkers : puller'[w].pc = "idle"
    BY <1>1 DEF OutcomeInv
  <2> QED BY <1>1, <1>3, <2>1, SMTT(30) DEF OutcomeInv, Ahead, Running, Over
<1> QED BY <1>4, <1>5, <1>6, <1>7, <1>8, <1>9

\* A new connector is open and empty.
LEMMA FreshFacts ==
  /\ FreshConnector = [alive |-> FreshConnector.alive, splits |-> FreshConnector.splits,
                       closed |-> FreshConnector.closed, exc |-> FreshConnector.exc]
  /\ FreshConnector.splits = <<>> /\ ~FreshConnector.closed /\ ~FreshConnector.exc
<1>1. PICK r : r = ClosedConnector
  OBVIOUS
<1>2. r = [alive |-> r.alive, splits |-> r.splits, closed |-> r.closed, exc |-> r.exc]
  BY <1>1 DEF ClosedConnector
<1>3. PICK f : f = FALSE
  BY Zenon
<1>4. FreshConnector = [r EXCEPT !.closed = f]
  BY <1>1, <1>3, Zenon DEF FreshConnector
<1>5. FreshConnector = [alive |-> r.alive, splits |-> r.splits, closed |-> f, exc |-> r.exc]
  BY <1>2, <1>4
<1>6. ~FreshConnector.closed
  BY DEF FreshConnector, ClosedConnector
<1>7. ~FreshConnector.exc
  BY DEF FreshConnector, ClosedConnector
<1>8. FreshConnector.splits = <<>>
  BY DEF FreshConnector, ClosedConnector
<1> QED BY <1>5, <1>6, <1>7, <1>8

\* The installation of the new providers and connectors.
LEMMA InstallKeeps == ASSUME SsInv, Install PROVE SsInv'
<1> USE DEF SsInv
<1>1. /\ manager.pc = "install"
      /\ UNCHANGED <<provider, holders, failure, dispatcher, ssqueue, thread, puller, creation, scanned>>
  BY DEF Install
<1>2. /\ manager' = [pc |-> manager'.pc, query |-> manager'.query, at |-> manager'.at]
      /\ manager'.query = manager.query /\ manager'.pc = "drive" /\ manager'.at = 1
      /\ manager.query \in 1 .. Len(QueryScans)
  BY <1>1, Zenon DEF Install, ManagerShape
<1>3. /\ connector' = [s \in ScanIds |-> connector'[s]]
      /\ \A s \in ScanIds :
            /\ s \in OfQuery(manager.query) => connector'[s] = FreshConnector
            /\ s \notin OfQuery(manager.query) => connector'[s] = connector[s]
  BY DEF Install
<1>4. OfQuery(manager.query) = Range(QueryScans[manager.query])
  <2>1. manager.query # 0
    BY <1>2
  <2> QED BY <2>1 DEF OfQuery
<1>5. /\ FreshConnector = [alive |-> FreshConnector.alive, splits |-> FreshConnector.splits,
                           closed |-> FreshConnector.closed, exc |-> FreshConnector.exc]
      /\ FreshConnector.splits = <<>> /\ ~FreshConnector.closed /\ ~FreshConnector.exc
  BY FreshFacts
<1>6. \A s \in OfQuery(manager.query) : provider[s] = 0 /\ scanned[s].outcome = "none"
  <2>1. \A s \in OfQuery(manager.query) : \E j \in 1 .. Len(QueryScans[manager.query]) : s = ScanAt(manager.query, j)
    <3>1. PICK q \in 1 .. Len(QueryScans) : q = manager.query
      BY <1>2
    <3>2. \A s \in Range(QueryScans[q]) : \E j \in 1 .. Len(QueryScans[q]) : s = ScanAt(q, j)
      BY ScanFacts, Zenon
    <3> QED BY <1>4, <3>1, <3>2
  <2>2. \A j \in 1 .. Len(QueryScans[manager.query]) : provider[ScanAt(manager.query, j)] = 0
    BY <1>1, <1>2 DEF DriveInv, Ahead
  <2> QED BY <1>1, <1>2, <1>4, <2>1, <2>2 DEF OutcomeInv, Ahead
<1>7. SsShapes'
  <2>1. \A s \in ScanIds :
          /\ connector'[s] = [alive |-> connector'[s].alive, splits |-> connector'[s].splits,
                              closed |-> connector'[s].closed, exc |-> connector'[s].exc]
          /\ connector'[s].splits \in Seq(Splits)
    <3> TAKE s \in ScanIds
    <3>1. CASE s \in OfQuery(manager.query)
      BY <1>3, <1>5, <3>1, EmptyIsShort, Zenon
    <3>2. CASE s \notin OfQuery(manager.query)
      BY <1>3, <3>2 DEF SsShapes
    <3> QED BY <3>1, <3>2
  <2> QED BY <1>1, <1>3, <2>1 DEF SsShapes
<1>8. ManagerShape'
  BY <1>1, <1>2, ScanFacts DEF ManagerShape
<1>9. PoolShapes' /\ PlacesInv' /\ InflightExact' /\ AllSplitsScanned' /\ DispatcherInv'
  BY <1>1, <1>2 DEF PoolShapes, PlacesInv, InflightExact, AllSplitsScanned, DispatcherInv, Waiting, Live
<1>10. HoldInv'
  <2>1. \A s \in ScanIds : connector'[s].closed => connector[s].closed
    BY <1>3, <1>5
  <2> QED BY <1>1, <2>1 DEF HoldInv, Held, Waiting, Live
<1>11. DriveInv'
  <2>1. \A j \in 1 .. Len(QueryScans[manager.query]) :
           ScanAt(manager.query, j) \in OfQuery(manager.query) /\ ScanAt(manager.query, j) \in ScanIds
    BY <1>2, <1>4, ScanFacts
  <2>2. \A j \in 1 .. Len(QueryScans[manager.query]) :
           ~connector'[ScanAt(manager.query, j)].closed /\ provider[ScanAt(manager.query, j)] = 0 /\ ~(j < 1)
    BY <1>3, <1>5, <1>6, <2>1, ScanFacts
  <2> QED BY <1>1, <1>2, <2>2 DEF DriveInv, Ahead, Running
<1>12. OutcomeInv'
  <2>1. \A s \in ScanIds : scanned[s].outcome = "finished" => connector'[s] = connector[s]
    BY <1>3, <1>6
  <2>2. \A w \in PullWorkers : puller'[w].pc = "idle"
    BY <1>1 DEF OutcomeInv
  <2> QED BY <1>1, <1>2, <2>1, <2>2 DEF OutcomeInv, Ahead, Running, Over
<1>13. ErrorInv'
  <2>1. \A s \in ScanIds : connector'[s].exc => connector[s].exc
    BY <1>3, <1>5
  <2> QED BY <1>1, <2>1 DEF ErrorInv
<1>14. ConserveInv'
  <2>1. \A x \in Splits : x[1] > 0
    BY DEF Splits, Batches
  <2>2. ASSUME NEW s \in ScanIds, NEW x \in Splits
        PROVE  \/ x[1] > provider[s] \/ failure[s] \/ scanned[s].outcome # "none"
               \/ Arrived(s, x)' \/ Coming(s, x)
    BY <1>1, <1>3, <1>6, <2>1 DEF ConserveInv, Arrived
  <2> QED BY <1>1, <2>2, Zenon DEF ConserveInv, Coming, ToRead, ToPush, Waiting
<1>15. UniqueInv'
  <2>1. ASSUME NEW s \in ScanIds
        PROVE  connector'[s].splits = connector[s].splits \/ connector'[s].splits = <<>>
    BY <1>3, <1>5
  <2>2. SplitsUnique'
    BY <1>1, <2>1, EmptyFacts DEF UniqueInv, SplitsUnique
  <2>3. \A s \in ScanIds : \A x \in Splits : Arrived(s, x)' => Arrived(s, x)
    BY <1>1, <2>1, EmptyFacts DEF Arrived
  <2> QED BY <1>1, <2>2, <2>3 DEF UniqueInv, Coming, ToRead, ToPush, Waiting
<1> QED BY <1>7, <1>8, <1>9, <1>10, <1>11, <1>12, <1>13, <1>14, <1>15

\* The creation of a provider's shared state, which its driver holds.
LEMMA CreateStateKeeps == ASSUME SsInv, CreateState PROVE SsInv'
<1> USE DEF SsInv
<1>1. /\ manager.pc = "drive"
      /\ UNCHANGED <<connector, provider, failure, dispatcher, ssqueue, thread, puller, creation, scanned>>
  BY DEF CreateState
<1>2. /\ manager' = [pc |-> manager'.pc, query |-> manager'.query, at |-> manager'.at]
      /\ manager'.query = manager.query /\ manager'.pc = "run" /\ manager'.at = manager.at
  BY DEF CreateState, ManagerShape
<1>3. /\ Driven = ScanAt(manager.query, manager.at) /\ Driven \in ScanIds
      /\ manager.query \in 1 .. Len(QueryScans) /\ manager.at \in 1 .. Len(QueryScans[manager.query])
  BY <1>1, DrivenFacts DEF Running
<1>4. provider[Driven] = 0 /\ ~connector[Driven].closed
  BY <1>1, <1>3, ScanFacts DEF DriveInv
<1>5. /\ holders' = [s \in ScanIds |-> holders'[s]]
      /\ RunHolder \in holders'[Driven] /\ \A s \in ScanIds : s # Driven => holders'[s] = holders[s]
  BY <1>3, Zenon DEF CreateState, SsShapes
<1>6. SsShapes' /\ ManagerShape'
  BY <1>1, <1>2, <1>3, <1>5, Zenon DEF SsShapes, ManagerShape
<1>7. PoolShapes' /\ PlacesInv' /\ InflightExact' /\ AllSplitsScanned' /\ DispatcherInv' /\ ErrorInv'
  BY <1>1, <1>2 DEF PoolShapes, PlacesInv, InflightExact, AllSplitsScanned, DispatcherInv, ErrorInv,
     Waiting, Live
<1>8. ConserveInv' /\ UniqueInv'
  BY <1>1, ZenonT(30) DEF ConserveInv, UniqueInv, SplitsUnique, Coming, ToRead, ToPush, Arrived, Waiting
<1>9. HoldInv'
  <2>1. ASSUME NEW x \in SplitTasks, Held(x) PROVE Held(x)'
    <3>1. x[1] \in ScanIds /\ x[2] \in Batches
      BY DEF SplitTasks
    <3>2. x[2] > 0 /\ ~(x[2] <= 0)
      BY <3>1 DEF Batches
    <3>3. x[1] # Driven
      BY <1>4, <2>1, <3>2 DEF Held
    <3> QED BY <1>1, <1>5, <2>1, <3>1, <3>3 DEF Held
  <2>2. \A x \in Waiting : x \in SplitTasks /\ Held(x)
    BY MemberFacts DEF HoldInv, PoolShapes, Waiting
  <2>3. \A x \in Waiting : Held(x)'
    BY <2>1, <2>2
  <2>4. ASSUME NEW t \in PoolThreads, Live(t) PROVE Held(thread[t].task)'
    <3>1. PICK x : x = thread[t].task
      OBVIOUS
    <3>2. x \in SplitTasks /\ Held(x)
      BY <2>4, <3>1 DEF HoldInv, PoolShapes
    <3>3. Held(x)'
      BY <2>1, <3>2
    <3> QED BY <1>1, <3>1, <3>3 DEF Held
  <2>5. \A s \in ScanIds : connector[s].closed => holders'[s] = {}
    BY <1>4, <1>5 DEF HoldInv
  <2> QED BY <1>1, <2>3, <2>4, <2>5 DEF HoldInv, Waiting, Live
<1>10. DriveInv'
  BY <1>1, <1>2, <1>3, <1>5, ScanFacts DEF DriveInv, Ahead, Running
<1>11. OutcomeInv'
  <2>1. \A w \in PullWorkers : puller'[w].pc = "idle"
    BY <1>1 DEF OutcomeInv
  <2> QED BY <1>1, <1>2, <2>1, SMTT(30), Zenon DEF OutcomeInv, Ahead, Running, Over
<1> QED BY <1>6, <1>7, <1>8, <1>9, <1>10, <1>11

\* enqueue() of a batch: run at once when there is room, pending otherwise, dropped when
\* the dispatcher stops.
LEMMA EnqueueBatchKeeps == ASSUME SsInv, EnqueueBatch PROVE SsInv'
<1> USE DEF SsInv
<1>1. /\ manager.pc = "run"
      /\ UNCHANGED <<connector, failure, thread, manager, puller, creation, scanned>>
  BY DEF EnqueueBatch
<1>2. PICK s \in ScanIds : s = Driven
  BY <1>1, DrivenFacts DEF Running
<1>3. PICK b : b = provider[s] + 1
  OBVIOUS
<1>4. /\ s = ScanAt(manager.query, manager.at) /\ s \in Range(QueryScans[manager.query])
      /\ manager.query \in 1 .. Len(QueryScans) /\ manager.at \in 1 .. Len(QueryScans[manager.query])
  BY <1>1, <1>2, DrivenFacts DEF Running
<1>5. /\ provider' = [provider EXCEPT ![s] = b] /\ holders' = [holders EXCEPT ![s] = @ \cup {b}]
      /\ provider[s] < ScanBatches
  BY <1>2, <1>3 DEF EnqueueBatch
<1>6. /\ provider[s] \in Nat /\ b \in Batches /\ b \in Nat
      /\ <<s, b>> \in SplitTasks /\ <<s, b>>[1] = s /\ <<s, b>>[2] = b
  <2>1. provider[s] \in 0 .. ScanBatches /\ ScanBatches \in Nat
    BY SplitsAssumption DEF SsShapes
  <2>2. b \in Batches /\ b \in Nat /\ provider[s] \in Nat
    BY <1>3, <1>5, <2>1 DEF Batches
  <2> QED BY <2>2 DEF SplitTasks
<1>7. /\ provider' = [x \in ScanIds |-> provider'[x]] /\ provider'[s] = b
      /\ \A x \in ScanIds : x # s => provider'[x] = provider[x]
      /\ holders' = [x \in ScanIds |-> holders'[x]] /\ holders'[s] = holders[s] \cup {b}
      /\ \A x \in ScanIds : x # s => holders'[x] = holders[x]
  BY <1>5, Zenon DEF SsShapes
<1>8. \/ /\ dispatcher.inflight < MaxInflight
         /\ dispatcher' = [dispatcher EXCEPT !.inflight = @ + 1]
         /\ ssqueue' = Append(ssqueue, <<s, b>>)
      \/ /\ dispatcher' = [dispatcher EXCEPT !.pending = Append(@, <<s, b>>)]
         /\ ssqueue' = ssqueue
  BY <1>2, <1>3 DEF EnqueueBatch, HasSlot
<1>9. /\ dispatcher' = [inflight |-> dispatcher'.inflight, pending |-> dispatcher'.pending,
                        stop |-> dispatcher'.stop]
      /\ dispatcher'.stop = dispatcher.stop
      /\ \/ /\ dispatcher.inflight < MaxInflight /\ dispatcher'.inflight = dispatcher.inflight + 1
            /\ dispatcher'.pending = dispatcher.pending /\ ssqueue' = Append(ssqueue, <<s, b>>)
         \/ /\ dispatcher'.inflight = dispatcher.inflight /\ ssqueue' = ssqueue
            /\ dispatcher'.pending = Append(dispatcher.pending, <<s, b>>)
  <2>1. /\ dispatcher = [inflight |-> dispatcher.inflight, pending |-> dispatcher.pending, stop |-> dispatcher.stop]
    BY DEF PoolShapes
  <2> QED BY <1>8, <2>1
<1>10. ssqueue \in Seq(SplitTasks) /\ dispatcher.pending \in Seq(SplitTasks) /\ dispatcher.inflight \in Nat
  BY DEF PoolShapes
<1>11. ASSUME NEW x \in SplitTasks, Held(x) PROVE x # <<s, b>>
  BY <1>3, <1>6, <1>11 DEF Held
<1>12. /\ <<s, b>> \notin Waiting
       /\ \A t \in PoolThreads : Live(t) => thread[t].task # <<s, b>>
  <2>1. \A x \in Waiting : x \in SplitTasks /\ Held(x)
    BY <1>10, MemberFacts DEF HoldInv, Waiting
  <2>2. \A t \in PoolThreads : Live(t) => thread[t].task \in SplitTasks /\ Held(thread[t].task)
    BY DEF HoldInv, PoolShapes
  <2> QED BY <1>11, <2>1, <2>2
<1>13. /\ Range(Append(ssqueue, <<s, b>>)) = Range(ssqueue) \cup {<<s, b>>}
       /\ Range(Append(dispatcher.pending, <<s, b>>)) = Range(dispatcher.pending) \cup {<<s, b>>}
       /\ Append(ssqueue, <<s, b>>) \in Seq(SplitTasks) /\ Append(dispatcher.pending, <<s, b>>) \in Seq(SplitTasks)
       /\ Len(Append(ssqueue, <<s, b>>)) = Len(ssqueue) + 1
  <2>1. PICK e \in SplitTasks : e = <<s, b>>
    BY <1>6
  <2>2. /\ Range(Append(ssqueue, e)) = Range(ssqueue) \cup {e} /\ Append(ssqueue, e) \in Seq(SplitTasks)
        /\ Len(Append(ssqueue, e)) = Len(ssqueue) + 1
    BY <1>10, AppendFacts
  <2>3. /\ Range(Append(dispatcher.pending, e)) = Range(dispatcher.pending) \cup {e}
        /\ Append(dispatcher.pending, e) \in Seq(SplitTasks)
    BY <1>10, AppendFacts
  <2> QED BY <2>1, <2>2, <2>3, Zenon
<1>14. IsInjective(Append(ssqueue, <<s, b>>)) /\ IsInjective(Append(dispatcher.pending, <<s, b>>))
  BY <1>6, <1>10, <1>12, AppendFacts DEF Waiting, PlacesInv
<1>15. Waiting' = Waiting \cup {<<s, b>>}
  BY <1>9, <1>13, Zenon DEF Waiting
<1>16. SsShapes' /\ ManagerShape'
  <2>1. \A x \in ScanIds : provider'[x] \in 0 .. ScanBatches
    <3>1. b \in 0 .. ScanBatches
      BY <1>6, SplitsAssumption DEF Batches
    <3>2. \A x \in ScanIds : provider[x] \in 0 .. ScanBatches
      BY DEF SsShapes
    <3> QED BY <1>7, <3>1, <3>2
  <2> QED BY <1>1, <1>7, <2>1 DEF SsShapes, ManagerShape
<1>17. PoolShapes'
  <2>1. dispatcher'.inflight \in Nat
    BY <1>9, <1>10
  <2>2. dispatcher'.pending \in Seq(SplitTasks) /\ ssqueue' \in Seq(SplitTasks)
    BY <1>9, <1>10, <1>13, Zenon
  <2> QED BY <1>1, <1>9, <2>1, <2>2 DEF PoolShapes, Live
<1>18. PlacesInv'
  <2>1. IsInjective(ssqueue') /\ IsInjective(dispatcher'.pending)
    BY <1>9, <1>14, Zenon DEF PlacesInv
  <2>2. Range(ssqueue') \cap Range(dispatcher'.pending) = {}
    BY <1>9, <1>12, <1>13, Zenon DEF PlacesInv, Waiting
  <2> QED BY <1>1, <1>12, <1>15, <2>1, <2>2 DEF PlacesInv, Live
<1>19. HoldInv'
  <2>1. ASSUME NEW x \in SplitTasks, Held(x) PROVE Held(x)'
    <3>1. x[1] \in ScanIds /\ x[2] \in Nat
      BY DEF SplitTasks, Batches
    <3>2. CASE x[1] = s
      BY <1>3, <1>6, <1>7, <2>1, <3>1, <3>2 DEF Held
    <3>3. CASE x[1] # s
      BY <1>7, <2>1, <3>1, <3>3 DEF Held
    <3> QED BY <3>2, <3>3
  <2>2. Held(<<s, b>>)'
    <3>1. PICK y : y = <<s, b>>
      BY Zenon
    <3>2. y[1] = s /\ y[2] = b
      BY <1>6, <3>1
    <3>3. Held(y)'
      BY <1>6, <1>7, <3>2 DEF Held
    <3> QED BY <3>1, <3>3
  <2>3. \A x \in Waiting : x \in SplitTasks /\ Held(x)
    BY <1>10, MemberFacts DEF HoldInv, Waiting
  <2>4. \A x \in Waiting' : Held(x)'
    BY <1>15, <2>1, <2>2, <2>3
  <2>5. ASSUME NEW t \in PoolThreads, Live(t) PROVE Held(thread[t].task)'
    <3>1. PICK x : x = thread[t].task
      OBVIOUS
    <3>2. x \in SplitTasks /\ Held(x)
      BY <2>5, <3>1 DEF HoldInv, PoolShapes
    <3>3. Held(x)'
      BY <2>1, <3>2
    <3> QED BY <1>1, <3>1, <3>3 DEF Held
  <2>6. \A x \in ScanIds : connector[x].closed => holders'[x] = {}
    <3>1. RunHolder \in holders[s]
      BY <1>1, <1>4 DEF DriveInv
    <3> QED BY <1>7, <3>1 DEF HoldInv
  <2> QED BY <1>1, <2>4, <2>5, <2>6 DEF HoldInv, Live
<1>20. DispatcherInv'
  BY <1>1, <1>9, Zenon DEF DispatcherInv
<1>21. DriveInv'
  <2>1. ASSUME NEW q \in 1 .. Len(QueryScans), NEW j \in 1 .. Len(QueryScans[q])
        PROVE  /\ ScanAt(q, j) \in ScanIds
               /\ ScanAt(q, j) = s => q = manager.query /\ j = manager.at
    BY <1>4, ScanFacts, Zenon
  <2>2. ASSUME NEW q \in 1 .. Len(QueryScans), NEW j \in 1 .. Len(QueryScans[q])
        PROVE  /\ ScanAt(q, j) # s => provider'[ScanAt(q, j)] = provider[ScanAt(q, j)]
               /\ q = manager.query /\ j = manager.at => RunHolder \in holders'[ScanAt(q, j)]
    BY <1>1, <1>4, <1>7, <2>1 DEF DriveInv
  <2>3. \A q \in 1 .. Len(QueryScans) : \A j \in 1 .. Len(QueryScans[q]) :
          /\ q > manager.query => q # manager.query
          /\ j > manager.at \/ j < manager.at => j # manager.at
    BY <1>4, ScanFacts
  <2> QED BY <1>1, <2>1, <2>2, <2>3 DEF DriveInv, Ahead, Running
<1>22. OutcomeInv' /\ ErrorInv' /\ AllSplitsScanned'
  BY <1>1, Zenon DEF OutcomeInv, ErrorInv, AllSplitsScanned
<1>23. ConserveInv'
  <2> SUFFICES ASSUME NEW r \in ScanIds, NEW x \in Splits
               PROVE  \/ x[1] > provider'[r] \/ failure'[r] \/ scanned'[r].outcome # "none"
                      \/ Arrived(r, x)' \/ Coming(r, x)'
    BY Zenon DEF ConserveInv
  <2>1. x[1] \in Nat
    BY DEF Splits, Batches
  <2>2. Arrived(r, x)' <=> Arrived(r, x)
    BY <1>1 DEF Arrived
  <2>3. Coming(r, x) => Coming(r, x)'
    BY <1>1, <1>15 DEF Coming, ToRead, ToPush
  <2>4. CASE r = s /\ x[1] = b
    BY <1>15, <2>4, Zenon DEF Coming
  <2>5. CASE r = s /\ x[1] # b
    <3>1. x[1] > provider[r] => x[1] > provider'[r]
      BY <1>3, <1>6, <1>7, <2>1, <2>5
    <3> QED BY <1>1, <2>2, <2>3, <3>1 DEF ConserveInv
  <2>6. CASE r # s
    BY <1>1, <1>7, <2>2, <2>3, <2>6 DEF ConserveInv
  <2> QED BY <2>4, <2>5, <2>6
<1>24. UniqueInv'
  <2>1. SplitsUnique'
    BY <1>1, Zenon DEF UniqueInv, SplitsUnique
  <2>2. ASSUME NEW r \in ScanIds, NEW x \in Splits, Arrived(r, x)'
        PROVE  x[1] <= provider'[r] /\ ~Coming(r, x)'
    <3>1. Arrived(r, x)
      BY <1>1, <2>2 DEF Arrived
    <3>2. x[1] <= provider[r] /\ ~Coming(r, x) /\ x[1] \in Nat /\ provider[r] \in Nat
      BY <3>1 DEF UniqueInv, Splits, Batches, SsShapes
    <3>3. <<r, x[1]>> # <<s, b>>
      BY <1>3, <1>6, <3>2
    <3>4. x[1] <= provider'[r]
      BY <1>3, <1>6, <1>7, <3>2
    <3> QED BY <1>1, <1>15, <3>2, <3>3, <3>4 DEF Coming, ToRead, ToPush
  <2> QED BY <2>1, <2>2 DEF UniqueInv
<1>25. InflightExact'
  <2>1. Busy' = Busy
    BY <1>1 DEF Busy
  <2>2. /\ dispatcher.inflight <= MaxInflight /\ MaxInflight \in Nat
        /\ Len(ssqueue) + Cardinality(Busy) = dispatcher.inflight
    BY SplitsAssumption DEF InflightExact, Busy
  <2>3. IsFiniteSet(Busy)
    <3>1. Busy \subseteq PoolThreads
      BY DEF Busy
    <3> QED BY <3>1, FS_Subset, SplitsAssumption
  <2>4. Cardinality(Busy) \in Nat /\ Len(ssqueue) \in Nat
    BY <1>10, <2>3, FS_CardinalityType, LenOfSeq
  <2>5. dispatcher'.inflight <= MaxInflight /\ Len(ssqueue') + Cardinality(Busy) = dispatcher'.inflight
    <3>1. CASE ssqueue' = ssqueue /\ dispatcher'.inflight = dispatcher.inflight
      BY <2>2, <3>1
    <3>2. CASE /\ dispatcher.inflight < MaxInflight /\ dispatcher'.inflight = dispatcher.inflight + 1
               /\ Len(ssqueue') = Len(ssqueue) + 1
      BY <1>10, <2>2, <2>4, <3>2
    <3> QED BY <1>9, <1>13, <3>1, <3>2
  <2>6. Busy' = {t \in PoolThreads : thread'[t].pc \in {"begin", "push", "done"}}
    BY DEF Busy
  <2> QED BY <2>1, <2>5, <2>6, Zenon DEF InflightExact
<1> QED BY <1>16, <1>17, <1>18, <1>19, <1>20, <1>21, <1>22, <1>23, <1>24, <1>25

\* Every batch that waits or runs is one, and holds its provider's state.
LEMMA HeldTasks ==
  ASSUME SsInv
  PROVE  /\ \A x \in Waiting : x \in SplitTasks /\ Held(x)
         /\ \A t \in PoolThreads : Live(t) => thread[t].task \in SplitTasks /\ Held(thread[t].task)
BY MemberFacts DEF SsInv, HoldInv, PoolShapes, Waiting

\* A batch is named by its scan and its number, which starts at 1.
LEMMA TaskFacts ==
  ASSUME NEW x \in SplitTasks
  PROVE  x[1] \in ScanIds /\ x[2] \in Batches /\ x[2] \in Nat \ {0} /\ x = <<x[1], x[2]>>
BY DEF SplitTasks, Batches

\* Giving up one holder of one scan.
LEMMA ReleaseOneFacts ==
  ASSUME SsShapes, HoldInv, NEW s, NEW h, ReleaseOne(s, h)
  PROVE  /\ holders' = [r \in ScanIds |-> holders'[r]]
         /\ connector' = [r \in ScanIds |-> connector'[r]]
         /\ \A r \in ScanIds :
               /\ r # s => holders'[r] = holders[r] /\ connector'[r] = connector[r]
               /\ r = s => holders'[r] = holders[r] \ {h}
               /\ connector'[r] = [alive |-> connector'[r].alive, splits |-> connector'[r].splits,
                                   closed |-> connector'[r].closed, exc |-> connector'[r].exc]
               /\ connector'[r].splits = connector[r].splits
               /\ connector[r].closed => connector'[r].closed
               /\ connector'[r].closed => holders'[r] = {}
               /\ connector'[r].exc => connector[r].exc \/ failure[r]
<1>1. PICK gone : gone = [x \in ScanIds |-> IF x = s THEN {h} ELSE {}]
  BY Zenon
<1>2. ReleaseAll(gone)
  BY <1>1 DEF ReleaseOne
<1>3. \A r \in ScanIds : (r # s => gone[r] = {}) /\ (r = s => gone[r] = {h})
  BY <1>1
<1>4. /\ holders' = [r \in ScanIds |-> holders'[r]]
      /\ connector' = [r \in ScanIds |-> connector'[r]]
      /\ \A r \in ScanIds :
            /\ holders'[r] = holders[r] \ gone[r]
            /\ connector'[r] = [alive |-> connector'[r].alive, splits |-> connector'[r].splits,
                                closed |-> connector'[r].closed, exc |-> connector'[r].exc]
            /\ connector'[r].splits = connector[r].splits
            /\ gone[r] = {} => connector'[r] = connector[r]
            /\ connector[r].closed => connector'[r].closed
            /\ connector'[r].closed => holders'[r] = {}
            /\ connector'[r].exc => connector[r].exc \/ failure[r]
  BY <1>2, ReleaseFacts
<1>5. \A r \in ScanIds : (r # s => holders'[r] = holders[r]) /\ (r = s => holders'[r] = holders[r] \ {h})
  BY <1>3, <1>4, ZenonT(30)
<1>6. \A r \in ScanIds : r # s => connector'[r] = connector[r]
  BY <1>3, <1>4
<1> QED BY <1>4, <1>5, <1>6

\* run() of a provider returns: its driver gives up the state.
LEMMA RunReturnsKeeps == ASSUME SsInv, RunReturns PROVE SsInv'
<1> USE DEF SsInv
<1>1. /\ manager.pc = "run" /\ provider[Driven] = ScanBatches
      /\ UNCHANGED <<provider, failure, dispatcher, ssqueue, thread, puller, creation, scanned>>
  BY DEF RunReturns
<1>2. PICK s \in ScanIds : s = Driven
  BY <1>1, DrivenFacts DEF Running
<1>3. /\ s = ScanAt(manager.query, manager.at) /\ s \in Range(QueryScans[manager.query])
      /\ manager.query \in 1 .. Len(QueryScans) /\ manager.at \in 1 .. Len(QueryScans[manager.query])
      /\ Len(QueryScans[manager.query]) \in Nat
  BY <1>1, <1>2, DrivenFacts, ScanFacts DEF Running
<1>4. PICK last \in BOOLEAN : last <=> (manager.at = Len(QueryScans[manager.query]))
  BY Zenon
<1>5. /\ manager' = [pc |-> manager'.pc, query |-> manager'.query, at |-> manager'.at]
      /\ manager'.query = manager.query
      /\ last => manager'.pc = "query"
      /\ ~last => manager'.pc = "drive" /\ manager'.at = manager.at + 1
  BY <1>4, Zenon DEF RunReturns, ManagerShape
<1>6. ReleaseOne(s, RunHolder)
  BY <1>2 DEF RunReturns
<1>7. /\ holders' = [r \in ScanIds |-> holders'[r]]
      /\ connector' = [r \in ScanIds |-> connector'[r]]
      /\ \A r \in ScanIds :
            /\ r # s => holders'[r] = holders[r] /\ connector'[r] = connector[r]
            /\ r = s => holders'[r] = holders[r] \ {RunHolder}
            /\ connector'[r] = [alive |-> connector'[r].alive, splits |-> connector'[r].splits,
                                closed |-> connector'[r].closed, exc |-> connector'[r].exc]
            /\ connector'[r].splits = connector[r].splits
            /\ connector[r].closed => connector'[r].closed
            /\ connector'[r].closed => holders'[r] = {}
            /\ connector'[r].exc => connector[r].exc \/ failure[r]
  BY <1>6, ReleaseOneFacts, Zenon
<1>8. SsShapes'
  BY <1>1, <1>7 DEF SsShapes
<1>9. ManagerShape'
  <2>1. ~last => manager.at + 1 \in 1 .. Len(QueryScans[manager.query])
    BY <1>3, <1>4
  <2>2. manager'.pc \in {"query", "drive"}
    BY <1>5, Zenon
  <2> QED BY <1>3, <1>5, <2>1, <2>2 DEF ManagerShape
<1>10. PoolShapes' /\ PlacesInv' /\ InflightExact' /\ AllSplitsScanned'
  BY <1>1, Zenon DEF PoolShapes, PlacesInv, InflightExact, AllSplitsScanned, Waiting, Live
<1>11. ErrorInv' /\ DispatcherInv'
  BY <1>1, <1>5, <1>7 DEF ErrorInv, DispatcherInv
<1>12. HoldInv'
  <2>1. ASSUME NEW x \in SplitTasks, Held(x) PROVE Held(x)'
    <3>1. x[1] \in ScanIds /\ x[2] # RunHolder
      BY TaskFacts DEF RunHolder
    <3> QED BY <1>1, <1>7, <2>1, <3>1 DEF Held
  <2>2. \A x \in Waiting : Held(x)'
    BY <2>1, HeldTasks
  <2>3. ASSUME NEW t \in PoolThreads, Live(t) PROVE Held(thread[t].task)'
    <3>1. PICK x : x = thread[t].task
      OBVIOUS
    <3>2. Held(x)'
      BY <2>1, <2>3, <3>1, HeldTasks
    <3> QED BY <1>1, <3>1, <3>2 DEF Held
  <2> QED BY <1>1, <1>7, <2>2, <2>3 DEF HoldInv, Waiting, Live
<1>13. DriveInv'
  <2>1. ASSUME NEW j \in 1 .. Len(QueryScans[manager.query]), j > manager.at
        PROVE  /\ provider[ScanAt(manager.query, j)] = 0
               /\ ~connector'[ScanAt(manager.query, j)].closed
    <3>1. ScanAt(manager.query, j) \in ScanIds /\ ScanAt(manager.query, j) # s
      BY <1>3, <2>1, ScanFacts, SMTT(30), Zenon
    <3> QED BY <1>1, <1>3, <1>7, <2>1, <3>1, SMTT(30), Zenon DEF DriveInv
  <2>2. ASSUME NEW j \in 1 .. Len(QueryScans[manager.query]), j <= manager.at
        PROVE  provider[ScanAt(manager.query, j)] = ScanBatches
    BY <1>1, <1>2, <1>3, <2>2 DEF DriveInv, Running
  <2>3. /\ last => \A j \in 1 .. Len(QueryScans[manager.query]) : j <= manager.at
        /\ \A j \in 1 .. Len(QueryScans[manager.query]) :
             (j >= manager.at + 1 => j > manager.at) /\ (j < manager.at + 1 => j <= manager.at)
    <3>1. last => manager.at = Len(QueryScans[manager.query])
      BY <1>4, SMTT(30), Zenon
    <3> QED BY <1>3, <3>1
  <2>4. \A q \in 1 .. Len(QueryScans) : \A j \in 1 .. Len(QueryScans[q]) :
           q > manager.query => provider[ScanAt(q, j)] = 0
    BY SMTT(30), Zenon DEF DriveInv
  <2>5. CASE last
    BY <1>1, <1>5, <2>2, <2>3, <2>4, <2>5 DEF DriveInv, Ahead, Running
  <2>6. CASE ~last
    BY <1>1, <1>5, <2>1, <2>2, <2>3, <2>4, <2>6, ZenonT(30) DEF DriveInv, Ahead, Running
  <2> QED BY <2>5, <2>6, SMTT(30), Zenon
<1>14. OutcomeInv'
  <2>1. \A w \in PullWorkers : puller'[w].pc = "idle"
    BY <1>1, ZenonT(30) DEF OutcomeInv
  <2>2. \A r \in ScanIds : scanned'[r].outcome = "finished" =>
                                connector'[r].closed /\ connector'[r].splits = <<>>
    BY <1>1, <1>7 DEF OutcomeInv
  <2>3. manager'.pc \in {"query", "drive"}
    BY <1>5
  <2> QED BY <1>1, <1>5, <2>1, <2>2, <2>3, ZenonT(30) DEF OutcomeInv, Ahead, Running, Over
<1>15. ConserveInv' /\ UniqueInv'
  <2>1. \A r \in ScanIds : \A x \in Splits :
           (Arrived(r, x)' <=> Arrived(r, x)) /\ (Coming(r, x)' <=> Coming(r, x))
    BY <1>1, <1>7, SMTT(30) DEF Coming, ToRead, ToPush, Arrived, Waiting
  <2>2. SplitsUnique'
    BY <1>1, <1>7 DEF UniqueInv, SplitsUnique
  <2> QED BY <1>1, <2>1, <2>2, ZenonT(30) DEF ConserveInv, UniqueInv
<1> QED BY <1>8, <1>9, <1>10, <1>11, <1>12, <1>13, <1>14, <1>15

\* A split is to come from another thread than t,
ComingElse(t, s, x) == \E u \in PoolThreads : u # t /\ (ToRead(u, s, x) \/ ToPush(u, s, x))

\* ... or from a thread at p with batch y and n splits to push.
ComingBy(p, y, n, s, x) ==
    y = <<s, x[1]>> /\ (p = "begin" \/ (p = "push" /\ x[2] >= SplitsPer + 1 - n))

\* When a thread moves, a split is still to come because of the queues, of the other
\* threads or of that thread.
LEMMA ComingMoves ==
  ASSUME NEW t \in PoolThreads, NEW p, NEW y, NEW n, ThreadMoves(t, p, y, n), NEW s, NEW x
  PROVE  /\ Coming(s, x) <=> \/ <<s, x[1]>> \in Waiting \/ ComingElse(t, s, x)
                             \/ ComingBy(thread[t].pc, thread[t].task, thread[t].left, s, x)
         /\ Coming(s, x)' <=> \/ <<s, x[1]>> \in Waiting' \/ ComingElse(t, s, x)
                              \/ ComingBy(p, y, n, s, x)
<1>1. /\ thread'[t].pc = p /\ thread'[t].task = y /\ thread'[t].left = n
      /\ \A u \in PoolThreads : u # t => thread'[u] = thread[u]
  BY SMTT(30), Zenon DEF ThreadMoves
<1>2. Coming(s, x) <=> \/ <<s, x[1]>> \in Waiting \/ ComingElse(t, s, x)
                       \/ ComingBy(thread[t].pc, thread[t].task, thread[t].left, s, x)
  BY DEF Coming, ComingElse, ComingBy, ToRead, ToPush
<1>3. Coming(s, x)' <=> \/ <<s, x[1]>> \in Waiting' \/ ComingElse(t, s, x)
                        \/ ComingBy(p, y, n, s, x)
  <2>1. \A u \in PoolThreads : u # t => (ToRead(u, s, x)' <=> ToRead(u, s, x)) /\ (ToPush(u, s, x)' <=> ToPush(u, s, x))
    BY <1>1 DEF ToRead, ToPush
  <2>2. ToRead(t, s, x)' \/ ToPush(t, s, x)' <=> ComingBy(p, y, n, s, x)
    BY <1>1 DEF ToRead, ToPush, ComingBy
  <2>3. Coming(s, x)' <=> <<s, x[1]>> \in Waiting' \/ \E u \in PoolThreads : ToRead(u, s, x)' \/ ToPush(u, s, x)'
    BY DEF Coming
  <2> QED BY <2>1, <2>2, <2>3, Zenon DEF ComingElse
<1> QED BY <1>2, <1>3

\* The in-flight count stays exact when it changes with the queue and the threads.
LEMMA CountsKept ==
  ASSUME InflightExact, PoolShapes, PoolShapes', NEW d \in Int,
         dispatcher'.inflight <= MaxInflight,
         Cardinality(Busy) \in Nat, Cardinality(Busy)' \in Nat,
         Len(ssqueue') + Cardinality(Busy') = Len(ssqueue) + Cardinality(Busy) + d,
         dispatcher'.inflight = dispatcher.inflight + d
  PROVE  InflightExact'
<1>1. Len(ssqueue) \in Nat /\ Len(ssqueue') \in Nat
  BY LenOfSeq DEF PoolShapes
<1>2. Len(ssqueue) + Cardinality(Busy) = dispatcher.inflight
  BY DEF InflightExact, Busy
<1>3. Len(ssqueue') + Cardinality(Busy') = dispatcher'.inflight
  BY <1>1, <1>2
<1>4. Busy' = {t \in PoolThreads : thread'[t].pc \in {"begin", "push", "done"}}
  BY DEF Busy
<1> QED BY <1>3, <1>4 DEF InflightExact

\* A pool thread takes a batch.
LEMMA PoolTakeKeeps == ASSUME SsInv, NEW t \in PoolThreads, PoolTake(t) PROVE SsInv'
<1> USE DEF SsInv
<1>1. /\ thread[t].pc = "idle" /\ ssqueue # <<>> /\ ssqueue' = Tail(ssqueue)
      /\ UNCHANGED <<connector, provider, holders, failure, dispatcher, manager, puller, creation, scanned>>
  BY DEF PoolTake
<1>2. PICK y : y = Head(ssqueue)
  BY SMTT(30), Zenon
<1>3. ThreadMoves(t, "begin", y, 0)
  BY <1>2, ThreadFacts
<1>4. /\ thread' = [u \in PoolThreads |-> thread'[u]]
      /\ thread'[t] = [pc |-> "begin", task |-> y, left |-> 0]
      /\ \A u \in PoolThreads : u # t => thread'[u] = thread[u]
  BY <1>3 DEF ThreadMoves
<1>5. ssqueue \in Seq(SplitTasks) /\ IsInjective(ssqueue) /\ Range(ssqueue) \cap Range(dispatcher.pending) = {}
  BY DEF PoolShapes, PlacesInv
<1>6. /\ ssqueue' \in Seq(SplitTasks) /\ Len(ssqueue') = Len(ssqueue) - 1 /\ Len(ssqueue) > 0
      /\ y \in SplitTasks /\ y \in Range(ssqueue)
      /\ IsInjective(ssqueue') /\ Range(ssqueue') = Range(ssqueue) \ {y}
  BY <1>1, <1>2, <1>5, TailFacts, ZenonT(30)
<1>7. Waiting' = Waiting \ {y} /\ y \in Waiting
  BY <1>1, <1>5, <1>6 DEF Waiting
<1>8. SsShapes' /\ ManagerShape' /\ DispatcherInv' /\ DriveInv' /\ OutcomeInv' /\ ErrorInv' /\ AllSplitsScanned'
  <2>1. SsShapes' /\ ManagerShape' /\ DispatcherInv'
    BY <1>1 DEF SsShapes, ManagerShape, DispatcherInv
  <2>2. DriveInv' /\ OutcomeInv'
    BY <1>1, ZenonT(30) DEF DriveInv, OutcomeInv
  <2>3. ErrorInv' /\ AllSplitsScanned'
    BY <1>1, Zenon DEF ErrorInv, AllSplitsScanned
  <2> QED BY <2>1, <2>2, <2>3, SMTT(30), Zenon
<1>9. PoolShapes'
  BY <1>1, <1>4, <1>6 DEF PoolShapes, Live
<1>10. PlacesInv'
  <2>1. IsInjective(dispatcher'.pending) /\ Range(ssqueue') \cap Range(dispatcher'.pending) = {}
    BY <1>1, <1>6, Zenon DEF PlacesInv
  <2>2. \A u \in PoolThreads : u # t /\ Live(u)' => Live(u) /\ thread'[u].task \notin Waiting
    BY <1>4 DEF PlacesInv, Live
  <2>3. thread'[t].task = y
    BY <1>4
  <2>4. \A u \in PoolThreads : Live(u)' => thread'[u].task \notin Waiting'
    BY <1>7, <2>2, <2>3
  <2>5. \A u, v \in PoolThreads : Live(u)' /\ Live(v)' /\ thread'[u].task = thread'[v].task => u = v
    <3>1. \A u \in PoolThreads : u # t /\ Live(u)' => thread'[u].task # y
      BY <1>7, <2>2
    <3> QED BY <1>4, <2>2, <2>3, <3>1 DEF PlacesInv
  <2> QED BY <1>6, <2>1, <2>4, <2>5, ZenonT(30) DEF PlacesInv
<1>11. HoldInv'
  <2>1. \A x \in Waiting' : Held(x)'
    BY <1>1, <1>7, HeldTasks DEF Held
  <2>2. Held(y)
    BY <1>7, HeldTasks
  <2>3. ASSUME NEW u \in PoolThreads, Live(u)' PROVE Held(thread[u].task)'
    <3>1. CASE u = t
      BY <1>1, <1>4, <2>2, <3>1 DEF Held
    <3>2. CASE u # t
      BY <1>1, <1>4, <2>3, <3>2, HeldTasks DEF Held, Live
    <3> QED BY <3>1, <3>2
  <2> QED BY <1>1, <2>1, <2>3 DEF HoldInv
<1>12. \A s \in ScanIds : \A x \in Splits :
          (Arrived(s, x)' <=> Arrived(s, x)) /\ (Coming(s, x)' <=> Coming(s, x))
  <2> TAKE s \in ScanIds
  <2> TAKE x \in Splits
  <2>1. Arrived(s, x)' <=> Arrived(s, x)
    BY <1>1 DEF Arrived
  <2>2. ~ComingBy(thread[t].pc, thread[t].task, thread[t].left, s, x)
    BY <1>1 DEF ComingBy
  <2>3. ComingBy("begin", y, 0, s, x) <=> y = <<s, x[1]>>
    BY DEF ComingBy
  <2> QED BY <1>3, <1>7, <2>1, <2>2, <2>3, ComingMoves, Zenon
<1>13. ConserveInv' /\ UniqueInv'
  <2>1. SplitsUnique'
    BY <1>1, Zenon DEF UniqueInv, SplitsUnique
  <2> QED BY <1>1, <1>12, <2>1, ZenonT(30) DEF ConserveInv, UniqueInv
<1>14. InflightExact'
  <2>1. /\ Cardinality(Busy) \in Nat /\ Cardinality(Busy') \in Nat
        /\ Cardinality(Busy') = Cardinality(Busy) + 1
    BY <1>1, <1>3, CountMoves
  <2>2. Len(ssqueue) \in Nat
    BY <1>5, LenOfSeq
  <2>3. Len(ssqueue') + Cardinality(Busy') = Len(ssqueue) + Cardinality(Busy) + 0
    BY <1>6, <2>1, <2>2
  <2>4. dispatcher'.inflight = dispatcher.inflight + 0 /\ dispatcher'.inflight <= MaxInflight
    BY <1>1 DEF PoolShapes, InflightExact
  <2> QED BY <1>9, <2>1, <2>3, <2>4, CountsKept, SMTT(30), Zenon
<1> QED BY <1>8, <1>9, <1>10, <1>11, <1>13, <1>14
============================================================================
