------------------------- MODULE LifecycleProofs -------------------------
(***************************************************************************)
(* Proofs about what the statements of a database share and what outlives  *)
(* them: the state of SiriusContext that all connections use               *)
(* (QueryLifecycle), and the cache of scan results that one statement      *)
(* records and a later one replays (ScanCache). They hold for any number   *)
(* of connections, statements, partitions, writes and faults.              *)
(***************************************************************************)
EXTENDS QueryLifecycle, ScanCache, TLAPS

-----------------------------------------------------------------------------
(*****************************************************************************)
(* Statements. The context keeps one slot, one count of internal queries,    *)
(* one set of disabled optimizers with the value to restore, and one         *)
(* captured plan, for every connection. What makes the statements            *)
(* independent is that at most one that touches this state is under way;     *)
(* Shared says what the state is at each step of that one, Unshared what it  *)
(* is between two.                                                           *)
(*****************************************************************************)
\* The statements that are not run through a second connection or a plan made earlier.
PlainKinds == {"cpu", "other", "select", "unsupported", "aborted"}

\* One connection issues statements, or every connection issues plain ones.
ExclusiveWorkloads ==
  \A w \in LcWorkloads : \A c, d \in LcConns :
     c # d /\ w[c] # {} /\ w[d] # {} => w[c] \subseteq PlainKinds

\* Connection c is past QueryBegin.
Busy(c) == conn[c].at \notin {"idle", "begin"}

\* The steps inside an internal_query_guard,
Guarded == {"replan", "replan_run", "prefetch_begin", "prefetch_end", "fallback_begin", "fallback_end"}

\* ... the steps of the bind of gpu_execution(),
Binding == {"bind", "inner_pre", "inner_post", "cleanup"}

\* ... and those of the statement it binds.
Bound == {"inner_pre", "inner_post", "cleanup"}

\* The plan of statement n of connection c,
Own(c, n) == [conn |-> c, number |-> n, inner |-> FALSE]

\* ... and of the statement gpu_execution() binds inside it.
OwnInner(c, n) == [conn |-> c, number |-> n, inner |-> TRUE]
ConnRecord(r) ==
  r = [at |-> r.at, kind |-> r.kind, number |-> r.number, saved |-> r.saved, plan |-> r.plan,
       copied |-> r.copied, ran |-> r.ran, prepared |-> r.prepared]

\* The records have their fields.
ConnShape ==
  /\ conn = [c \in LcConns |-> conn[c]]
  /\ \A c \in LcConns : ConnRecord(conn[c])

\* The kinds of statements that reach a step.
StageFits(at, k) ==
  /\ at \in Binding => k = "function"
  /\ k = "aborted" => at \in {"pre", "post", "end"}
  /\ k = "prepare" => at \in {"pre", "post", "finalize", "validate"}
  /\ k = "execute" => at \in {"execute", "running", "end"}
  /\ at \in {"replan_run", "prefetch", "prefetch_begin", "prefetch_end"} => k = "iceberg"
  /\ at \in {"fallback", "fallback_begin", "fallback_end"} => k = "function"
  /\ at = "replan" => k \notin PlainKinds

\* Between the pre-optimizer hook and the place that restores the optimizers.
HookOn(at, k) == (at \in {"post", "inner_post"} /\ Transparent(k)) \/ (at = "end" /\ k = "aborted")

\* The optimizers bind() switched off for its own connection.
BoundSet(at) == IF at \in Bound THEN {"bind"} ELSE {}

\* The state of the context when c is at step `at` of a statement of kind k: who holds the
\* slot, whether an internal query is counted, what is switched off and what will be
\* restored, and whose plan is captured.
Shared(c, at, k) ==
  /\ StageFits(at, k)
  /\ slot = IF InCycle(k) THEN c ELSE NoConn
  /\ internal = IF at \in Guarded THEN 1 ELSE 0
  /\ disabled = BoundSet(at) \cup (IF HookOn(at, k) THEN {"hook"} ELSE {})
  /\ original = IF HookOn(at, k) THEN <<BoundSet(at)>> ELSE <<>>
  /\ at \in Bound => conn[c].saved = {}
  /\ \/ captured = <<>>
     \/ at \in {"cleanup", "pre", "post"} /\ k = "function"
     \/ at = "finalize" /\ captured = <<Own(c, conn[c].number)>>
  /\ at = "finalize" /\ k \in {"select", "unsupported"} => captured # <<>>
  /\ at = "running" => engine = c

\* The state of the context between two statements.
Unshared == slot = NoConn /\ internal = 0 /\ disabled = {} /\ original = <<>> /\ captured = <<>>

\* The plans connection c holds, has run and has prepared are its own.
PlansOf(c, n, k) ==
  /\ conn[c].plan = <<>> \/ conn[c].plan = <<Own(c, n)>>
  /\ k = "execute" \/ conn[c].ran = <<>> \/ conn[c].ran = <<Own(c, n)>> \/ conn[c].ran = <<OwnInner(c, n)>>
  /\ conn[c].prepared = <<>> \/ conn[c].prepared = <<Own(c, conn[c].prepared[1].number)>>
PlansInv == \A c \in LcConns : PlansOf(c, conn[c].number, conn[c].kind)

\* Every statement comes from the workload.
WorkInv ==
  /\ workload = <<>> \/ \E w \in LcWorkloads : workload = <<w>>
  /\ \A c \in LcConns : conn[c].at # "idle" => workload # <<>> /\ conn[c].kind \in workload[1][c]

\* At most one connection is past QueryBegin, and the context is in the state that
\* connection's step says.
SharedInv ==
  /\ \A c, d \in LcConns : Busy(c) /\ Busy(d) => c = d
  /\ \A c \in LcConns : Busy(c) => Shared(c, conn[c].at, conn[c].kind)
  /\ (\A c \in LcConns : ~Busy(c)) => Unshared
  /\ \A c \in LcConns : conn[c].at = "begin" => InCycle(conn[c].kind)

\* The inductive invariant.
LcInv == ConnShape /\ PlansInv /\ WorkInv /\ SharedInv

\* Connection c goes to step `at` of the same statement, no other connection moves,
Moved(c, at) ==
  /\ ConnShape'
  /\ \A d \in LcConns \ {c} : conn'[d] = conn[d]
  /\ conn'[c].at = at /\ conn'[c].kind = conn[c].kind /\ conn'[c].number = conn[c].number

\* ... and c keeps its plans.
Kept(c) ==
  /\ conn'[c].saved = conn[c].saved /\ conn'[c].plan = conn[c].plan
  /\ conn'[c].ran = conn[c].ran /\ conn'[c].prepared = conn[c].prepared

\* A connection whose record is replaced moves.
LEMMA Becomes ==
  ASSUME ConnShape, NEW c \in LcConns, NEW r, conn' = [conn EXCEPT ![c] = r],
         ConnRecord(r), r.kind = conn[c].kind, r.number = conn[c].number
  PROVE  Moved(c, r.at) /\ conn'[c] = r
<1>1. conn'[c] = r /\ conn' = [d \in LcConns |-> conn'[d]] /\ \A d \in LcConns \ {c} : conn'[d] = conn[d]
  BY DEF ConnShape
<1>2. ConnShape'
  BY <1>1 DEF ConnShape
<1> QED BY <1>1, <1>2 DEF Moved

\* A step that only changes the place.
LEMMA GoMoves ==
  ASSUME ConnShape, NEW c \in LcConns, NEW at, Go(c, at)
  PROVE  Moved(c, at) /\ Kept(c)
<1>1. PICK s : s = conn[c]
  OBVIOUS
<1>2. PICK r : r = [s EXCEPT !.at = at]
  BY Zenon
<1>3. conn' = [conn EXCEPT ![c] = r]
  BY <1>1, <1>2 DEF Go, ConnShape
<1>4. ConnRecord(s)
  BY <1>1 DEF ConnShape
<1>5. /\ ConnRecord(r) /\ r.at = at /\ r.kind = s.kind /\ r.number = s.number /\ r.saved = s.saved
      /\ r.plan = s.plan /\ r.ran = s.ran /\ r.prepared = s.prepared
  BY <1>2, <1>4 DEF ConnRecord
<1>6. Moved(c, r.at) /\ conn'[c] = r
  BY <1>1, <1>3, <1>5, Becomes, Zenon
<1> QED BY <1>1, <1>5, <1>6 DEF Kept

\* A step of the statement under way keeps the invariant if it leaves the context in the
\* state of the step it goes to.
LEMMA BusyStep ==
  ASSUME LcInv, NEW c \in LcConns, Busy(c), NEW at, Moved(c, at), UNCHANGED workload,
         PlansOf(c, conn[c].number, conn[c].kind)',
         \/ at = "idle" /\ Unshared'
         \/ at \notin {"idle", "begin"} /\ Shared(c, at, conn[c].kind)'
  PROVE  LcInv'
<1> USE DEF LcInv
<1>1. /\ conn'[c].at = at /\ conn'[c].kind = conn[c].kind /\ conn'[c].number = conn[c].number
      /\ \A d \in LcConns : d # c => conn'[d] = conn[d]
  BY DEF Moved
<1>2. \A d \in LcConns : d # c => ~Busy(d) /\ ~Busy(d)'
  BY <1>1 DEF SharedInv, Busy
<1>3. PlansInv'
  BY <1>1 DEF PlansInv, PlansOf
<1>4. WorkInv'
  BY <1>1 DEF WorkInv, Busy
<1>5. SharedInv'
  <2>1. Busy(c)' <=> at \notin {"idle", "begin"}
    BY <1>1 DEF Busy
  <2>2. \A d \in LcConns : Busy(d)' => d = c
    BY <1>2
  <2>3. \A d \in LcConns : conn'[d].at = "begin" => d # c
    BY <1>1
  <2> QED BY <1>1, <2>1, <2>2, <2>3 DEF SharedInv
<1> QED BY <1>3, <1>4, <1>5 DEF Moved

\* The first step of a statement, while none is under way.
LEMMA BeginStep ==
  ASSUME LcInv, NEW c \in LcConns, \A d \in LcConns : ~Busy(d), NEW at, Moved(c, at), UNCHANGED workload,
         conn[c].at # "idle", PlansOf(c, conn[c].number, conn[c].kind)',
         at \notin {"idle", "begin"} /\ Shared(c, at, conn[c].kind)'
  PROVE  LcInv'
<1> USE DEF LcInv
<1>1. /\ conn'[c].at = at /\ conn'[c].kind = conn[c].kind /\ conn'[c].number = conn[c].number
      /\ \A d \in LcConns : d # c => conn'[d] = conn[d]
  BY DEF Moved
<1>2. Busy(c)' /\ \A d \in LcConns : Busy(d)' => d = c
  BY <1>1 DEF Busy
<1>3. PlansInv'
  BY <1>1 DEF PlansInv, PlansOf
<1>4. WorkInv'
  BY <1>1 DEF WorkInv
<1>5. SharedInv'
  BY <1>1, <1>2 DEF SharedInv
<1> QED BY <1>3, <1>4, <1>5 DEF Moved

\* A step that changes nothing keeps the invariant.
LEMMA LcUnchanged == LcInv /\ UNCHANGED lcvars => LcInv'
BY DEF lcvars, LcInv, ConnShape, PlansInv, PlansOf, WorkInv, SharedInv, Busy, Shared, Unshared

\* The shared state belongs to the statement under way.
LEMMA UnderWay ==
  ASSUME LcInv, NEW c \in LcConns, Busy(c)
  PROVE  Shared(c, conn[c].at, conn[c].kind) /\ PlansOf(c, conn[c].number, conn[c].kind)
BY DEF LcInv, SharedInv, PlansInv

\* A step that keeps the plans of its connection keeps them its own.
LEMMA PlansKept ==
  ASSUME LcInv, NEW c \in LcConns, NEW at, Moved(c, at), Kept(c)
  PROVE  PlansOf(c, conn[c].number, conn[c].kind)'
BY DEF LcInv, PlansInv, PlansOf, Moved, Kept

\* The choice of the workload keeps the invariant.
LEMMA OpenDatabaseKeeps == LcInv /\ OpenDatabase => LcInv'
<1> SUFFICES ASSUME LcInv, OpenDatabase PROVE LcInv'
  OBVIOUS
<1>1. WorkInv'
  BY DEF LcInv, WorkInv, OpenDatabase
<1> QED BY <1>1 DEF OpenDatabase, LcInv, ConnShape, PlansInv, PlansOf, SharedInv, Busy, Shared, Unshared

\* PrepareConnection(), which saves and changes disabled_optimizers for bind().
LEMMA PrepareConnectionKeeps ==
  ASSUME LcInv, NEW c \in LcConns, PrepareConnection(c)
  PROVE  LcInv'
<1>1. conn[c].at = "bind" /\ Busy(c)
  BY DEF PrepareConnection, Busy
<1>2. PICK D : D = disabled
  OBVIOUS
<1>3. /\ Moved(c, "inner_pre") /\ conn'[c].saved = D /\ conn'[c].plan = conn[c].plan
      /\ conn'[c].ran = conn[c].ran /\ conn'[c].prepared = conn[c].prepared
  <2>1. PICK s : s = conn[c]
    OBVIOUS
  <2>2. PICK r : r = [s EXCEPT !.at = "inner_pre", !.saved = D]
    OBVIOUS
  <2>3. conn' = [conn EXCEPT ![c] = r]
    BY <1>2, <2>1, <2>2, Zenon DEF PrepareConnection, LcInv, ConnShape
  <2>4. ConnRecord(s)
    BY <2>1 DEF LcInv, ConnShape
  <2>5. /\ ConnRecord(r) /\ r.at = "inner_pre" /\ r.kind = s.kind /\ r.number = s.number /\ r.saved = D
        /\ r.plan = s.plan /\ r.ran = s.ran /\ r.prepared = s.prepared
    BY <2>2, <2>4, Zenon DEF ConnRecord
  <2> QED BY <2>1, <2>3, <2>5, Becomes, Zenon DEF LcInv
<1>4. Shared(c, "bind", conn[c].kind)
  BY <1>1, UnderWay
<1>5. PlansOf(c, conn[c].number, conn[c].kind)'
  BY <1>3 DEF Moved, LcInv, PlansInv, PlansOf
<1>6. Shared(c, "inner_pre", conn[c].kind)'
  BY <1>2, <1>3, <1>4, Zenon DEF Shared, PrepareConnection, Moved, StageFits, PlainKinds, HookOn, BoundSet,
     Guarded, Binding, Bound, InCycle
<1> QED BY <1>1, <1>3, <1>5, <1>6, BusyStep, Zenon DEF PrepareConnection

\* CleanupConnection(), which puts back what PrepareConnection() saved.
LEMMA CleanupConnectionKeeps ==
  ASSUME LcInv, NEW c \in LcConns, CleanupConnection(c)
  PROVE  LcInv'
<1>1. conn[c].at = "cleanup" /\ Busy(c)
  BY DEF CleanupConnection, Busy
<1>2. Moved(c, "pre") /\ Kept(c)
  BY GoMoves DEF CleanupConnection, LcInv
<1>3. Shared(c, "cleanup", conn[c].kind)
  BY <1>1, UnderWay
<1>4. Shared(c, "pre", conn[c].kind)'
  BY <1>2, <1>3 DEF Shared, CleanupConnection, Moved, StageFits, PlainKinds, HookOn, BoundSet, Guarded,
     Binding, Bound, InCycle
<1> QED BY <1>1, <1>2, <1>4, PlansKept, BusyStep DEF CleanupConnection

\* The pre-optimizer hook: it records what is disabled before it disables more.
LEMMA PreOptimizerKeeps ==
  ASSUME LcInv, NEW c \in LcConns, sirius_pre_optimizer_hook(c)
  PROVE  LcInv'
<1>1. conn[c].at \in {"pre", "inner_pre"} /\ Busy(c)
  BY DEF sirius_pre_optimizer_hook, Busy
<1>2. Shared(c, conn[c].at, conn[c].kind) /\ internal = 0
  BY <1>1, UnderWay DEF Shared, Guarded
<1>3. PICK at : at = IF conn[c].at = "pre" THEN "post" ELSE "inner_post"
  OBVIOUS
<1>4. Moved(c, at) /\ Kept(c)
  BY <1>3, GoMoves DEF sirius_pre_optimizer_hook, LcInv
<1>5. at \notin {"idle", "begin"} /\ Shared(c, at, conn[c].kind)'
  <2>1. CASE Transparent(conn[c].kind)
    <3>1. original' = <<disabled>> /\ disabled' = disabled \cup {"hook"}
      BY <1>2, <2>1 DEF sirius_pre_optimizer_hook, is_internal_query_active
    <3> QED BY <1>1, <1>2, <1>3, <1>4, <2>1, <3>1 DEF Shared, sirius_pre_optimizer_hook, Moved, Kept,
               StageFits, PlainKinds, HookOn, BoundSet, Guarded, Binding, Bound, InCycle, Transparent
  <2>2. CASE ~Transparent(conn[c].kind)
    BY <1>1, <1>2, <1>3, <1>4, <2>2 DEF Shared, sirius_pre_optimizer_hook, Moved, Kept, StageFits,
       PlainKinds, HookOn, BoundSet, Guarded, Binding, Bound, InCycle, Transparent
  <2> QED BY <2>1, <2>2, SMTT(30)
<1> QED BY <1>1, <1>4, <1>5, PlansKept, BusyStep DEF sirius_pre_optimizer_hook

\* An optimizer throws between the two hooks: QueryEnd is what restores.
LEMMA OptimizerThrowsKeeps ==
  ASSUME LcInv, NEW c \in LcConns, OptimizerThrows(c)
  PROVE  LcInv'
<1>1. conn[c].at = "post" /\ conn[c].kind = "aborted" /\ Busy(c)
  BY DEF OptimizerThrows, Busy
<1>2. Moved(c, "end") /\ Kept(c)
  BY GoMoves DEF OptimizerThrows, LcInv
<1>3. Shared(c, "post", "aborted")
  BY <1>1, UnderWay
<1>4. Shared(c, "end", conn[c].kind)'
  BY <1>1, <1>2, <1>3 DEF Shared, OptimizerThrows, Moved, StageFits, PlainKinds, HookOn, BoundSet,
     Guarded, Binding, Bound, InCycle, Transparent
<1> QED BY <1>1, <1>2, <1>4, PlansKept, BusyStep DEF OptimizerThrows

\* The post-optimizer hook: it restores and captures the plan.
LEMMA OptimizerHookKeeps ==
  ASSUME LcInv, NEW c \in LcConns, sirius_optimizer_hook(c)
  PROVE  LcInv'
<1>1. conn[c].at \in {"post", "inner_post"} /\ conn[c].kind # "aborted" /\ Busy(c)
  BY SMTT(30) DEF sirius_optimizer_hook, Busy
<1>2. Shared(c, conn[c].at, conn[c].kind) /\ internal = 0
  BY <1>1, UnderWay DEF Shared, Guarded
<1>3. PICK at : at = IF conn[c].at = "inner_post" THEN "cleanup" ELSE "finalize"
  OBVIOUS
<1>4. Moved(c, at) /\ Kept(c)
  BY <1>3, GoMoves, SMTT(30) DEF sirius_optimizer_hook, LcInv
<1>5. at \notin {"idle", "begin"} /\ Shared(c, at, conn[c].kind)'
  <2>1. CASE Transparent(conn[c].kind)
    <3>1. /\ original' = <<>> /\ disabled' = Restored
          /\ captured' = IF Copyable(conn[c].kind)
                         THEN <<IF conn[c].at = "inner_post" THEN InnerPlanOf(c) ELSE PlanOf(c)>> ELSE captured
      BY <1>2, <2>1, SMTT(30) DEF sirius_optimizer_hook, is_internal_query_active
    <3>2. PlanOf(c) = Own(c, conn'[c].number)
      BY <1>4, SMTT(30) DEF PlanOf, Own, Moved
    <3>3. disabled' = BoundSet(conn[c].at)
      BY <1>1, <1>2, <2>1, <3>1, SMTT(30) DEF Shared, Restored, HookOn
    <3>4. \/ captured' = <<>>
          \/ at = "cleanup" /\ conn[c].kind = "function"
          \/ at = "finalize" /\ conn[c].kind = "function"
          \/ at = "finalize" /\ captured' = <<Own(c, conn'[c].number)>>
      BY <1>1, <1>2, <1>3, <3>1, <3>2 DEF Shared, StageFits, Binding
    <3>5. at = "finalize" /\ conn[c].kind # "iceberg" =>
            captured' = <<Own(c, conn'[c].number)>> /\ captured' # <<>>
      BY <1>1, <1>3, <3>1, <3>2, SMTT(30) DEF Copyable
    <3> QED BY <1>1, <1>2, <1>3, <1>4, <2>1, <3>1, <3>3, <3>4, <3>5, ZenonT(30) DEF Shared, sirius_optimizer_hook,
               Moved, Kept, StageFits, PlainKinds, HookOn, BoundSet, Guarded, Binding, Bound, InCycle
  <2>2. CASE ~Transparent(conn[c].kind)
    <3>1. conn[c].kind = "cpu" /\ UNCHANGED <<original, disabled, captured>>
      BY <2>2, Zenon DEF sirius_optimizer_hook, Transparent
    <3> QED BY <1>1, <1>2, <1>3, <1>4, <2>2, <3>1, ZenonT(30) DEF Shared, sirius_optimizer_hook, Moved, Kept,
               StageFits, PlainKinds, HookOn, BoundSet, Guarded, Binding, Bound, InCycle
  <2> QED BY <2>1, <2>2
<1> QED BY <1>1, <1>4, <1>5, PlansKept, BusyStep DEF sirius_optimizer_hook

\* The four ways a step changes the plans of a connection.
Replans(c, at, p) == conn' = [conn EXCEPT ![c].at = at, ![c].plan = p]
Copies(c, at, p, b) == conn' = [conn EXCEPT ![c].at = at, ![c].plan = p, ![c].copied = b]
Rebinds(c, at, p, b) == conn' = [conn EXCEPT ![c].at = at, ![c].plan = p, ![c].prepared = b]
Runs(c, at, p) == conn' = [conn EXCEPT ![c].at = at, ![c].ran = p]

\* A step that takes or drops the plan,
LEMMA PlanMoves ==
  ASSUME ConnShape, NEW c \in LcConns, NEW at, NEW p,
         Replans(c, at, p)
  PROVE  /\ Moved(c, at) /\ conn'[c].plan = p
         /\ conn'[c].saved = conn[c].saved /\ conn'[c].ran = conn[c].ran /\ conn'[c].prepared = conn[c].prepared
<1>1. PICK s : s = conn[c]
  OBVIOUS
<1>2. PICK r : r = [s EXCEPT !.at = at, !.plan = p]
  OBVIOUS
<1>3. conn' = [conn EXCEPT ![c] = r]
  BY <1>1, <1>2, Zenon DEF ConnShape, Replans
<1>4. ConnRecord(s)
  BY <1>1 DEF ConnShape
<1>5. /\ ConnRecord(r) /\ r.kind = s.kind /\ r.number = s.number /\ r.at = at /\ r.plan = p
      /\ r.saved = s.saved /\ r.ran = s.ran /\ r.prepared = s.prepared
  BY <1>2, <1>4, Zenon DEF ConnRecord
<1> QED BY <1>1, <1>3, <1>5, Becomes, Zenon

\* ... one that copies it,
LEMMA CopyMoves ==
  ASSUME ConnShape, NEW c \in LcConns, NEW at, NEW p, NEW b,
         Copies(c, at, p, b)
  PROVE  /\ Moved(c, at) /\ conn'[c].plan = p
         /\ conn'[c].saved = conn[c].saved /\ conn'[c].ran = conn[c].ran /\ conn'[c].prepared = conn[c].prepared
<1>1. PICK s : s = conn[c]
  OBVIOUS
<1>2. PICK r : r = [s EXCEPT !.at = at, !.plan = p, !.copied = b]
  OBVIOUS
<1>3. conn' = [conn EXCEPT ![c] = r]
  BY <1>1, <1>2, Zenon DEF ConnShape, Copies
<1>4. ConnRecord(s)
  BY <1>1 DEF ConnShape
<1>5. /\ ConnRecord(r) /\ r.kind = s.kind /\ r.number = s.number /\ r.at = at /\ r.plan = p /\ r.copied = b
      /\ r.saved = s.saved /\ r.ran = s.ran /\ r.prepared = s.prepared
  BY <1>2, <1>4, Zenon DEF ConnRecord
<1> QED BY <1>1, <1>3, <1>5, Becomes, Zenon

\* ... one that keeps it in a prepared statement,
LEMMA ValidateMoves ==
  ASSUME ConnShape, NEW c \in LcConns, NEW at, NEW p, NEW b,
         Rebinds(c, at, p, b)
  PROVE  /\ Moved(c, at) /\ conn'[c].plan = p /\ conn'[c].prepared = b
         /\ conn'[c].saved = conn[c].saved /\ conn'[c].ran = conn[c].ran
<1>1. PICK s : s = conn[c]
  OBVIOUS
<1>2. PICK r : r = [s EXCEPT !.at = at, !.plan = p, !.prepared = b]
  OBVIOUS
<1>3. conn' = [conn EXCEPT ![c] = r]
  BY <1>1, <1>2, Zenon DEF ConnShape, Rebinds
<1>4. ConnRecord(s)
  BY <1>1 DEF ConnShape
<1>5. /\ ConnRecord(r) /\ r.kind = s.kind /\ r.number = s.number /\ r.at = at /\ r.plan = p /\ r.prepared = b
      /\ r.saved = s.saved /\ r.ran = s.ran
  BY <1>2, <1>4, Zenon DEF ConnRecord
<1> QED BY <1>1, <1>3, <1>5, Becomes, Zenon

\* ... and one that runs it.
LEMMA RanMoves ==
  ASSUME ConnShape, NEW c \in LcConns, NEW at, NEW p,
         Runs(c, at, p)
  PROVE  /\ Moved(c, at) /\ conn'[c].ran = p
         /\ conn'[c].saved = conn[c].saved /\ conn'[c].plan = conn[c].plan /\ conn'[c].prepared = conn[c].prepared
<1>1. PICK s : s = conn[c]
  OBVIOUS
<1>2. PICK r : r = [s EXCEPT !.at = at, !.ran = p]
  OBVIOUS
<1>3. conn' = [conn EXCEPT ![c] = r]
  BY <1>1, <1>2, Zenon DEF ConnShape, Runs
<1>4. ConnRecord(s)
  BY <1>1 DEF ConnShape
<1>5. /\ ConnRecord(r) /\ r.kind = s.kind /\ r.number = s.number /\ r.at = at /\ r.ran = p
      /\ r.saved = s.saved /\ r.plan = s.plan /\ r.prepared = s.prepared
  BY <1>2, <1>4, Zenon DEF ConnRecord
<1> QED BY <1>1, <1>3, <1>5, Becomes, Zenon

\* OnFinalizePrepare takes the captured plan: it is the plan of its own connection.
LEMMA FinalizePrepareKeeps ==
  ASSUME LcInv, NEW c \in LcConns, FinalizePrepare(c)
  PROVE  LcInv'
<1>1. conn[c].at = "finalize" /\ Busy(c)
  BY SMTT(30) DEF FinalizePrepare, Busy
<1>2. Shared(c, "finalize", conn[c].kind) /\ PlansOf(c, conn[c].number, conn[c].kind)
  BY <1>1, UnderWay, SMTT(30)
<1>3. internal = 0 /\ ~is_internal_query_active /\ conn[c].kind # "aborted" /\ conn[c].kind # "execute"
  BY <1>2, SMTT(30) DEF Shared, Guarded, is_internal_query_active, StageFits
<1>4. UNCHANGED <<slot, original, disabled, engine, workload>>
  BY DEF FinalizePrepare
<1>5. CASE ~Rebindable(conn[c].kind)
  <2>1. Go(c, AfterPrepare(c)) /\ captured' = <<>> /\ UNCHANGED internal
    BY <1>3, <1>5 DEF FinalizePrepare
  <2>2. AfterPrepare(c) = "execute" /\ conn[c].kind \in {"cpu", "other"}
    BY <1>5 DEF AfterPrepare, Rebindable, InCycle
  <2>3. Moved(c, "execute") /\ Kept(c)
    BY <2>1, <2>2, GoMoves, SMTT(30) DEF LcInv
  <2>4. Shared(c, "execute", conn[c].kind)'
    BY <1>2, <1>4, <2>1, <2>2, <2>3, ZenonT(30) DEF Shared, Moved, StageFits, PlainKinds, HookOn, BoundSet, Guarded,
       Binding, Bound, InCycle
  <2> QED BY <1>1, <1>4, <2>3, <2>4, PlansKept, BusyStep, Zenon
<1>6. CASE Rebindable(conn[c].kind) /\ captured # <<>>
  <2>1. /\ conn' = [conn EXCEPT ![c].at = "validate", ![c].plan = captured, ![c].copied = TRUE]
        /\ captured' = <<>> /\ UNCHANGED internal
    BY <1>3, <1>6 DEF FinalizePrepare
  <2>2. captured = <<Own(c, conn[c].number)>>
    BY <1>2, <1>6 DEF Shared
  <2>3. PICK p, b : p = captured /\ b = TRUE
    OBVIOUS
  <2>4. conn' = [conn EXCEPT ![c].at = "validate", ![c].plan = p, ![c].copied = b]
    BY <2>1, <2>3
  <2>5. /\ Moved(c, "validate") /\ conn'[c].plan = p /\ conn'[c].saved = conn[c].saved
        /\ conn'[c].ran = conn[c].ran /\ conn'[c].prepared = conn[c].prepared
    <3>1. ConnShape
      BY DEF LcInv
    <3>2. Copies(c, "validate", p, b)
      BY <2>4, SMTT(30) DEF Copies
    <3> QED BY <3>1, <3>2, CopyMoves
  <2>6. PlansOf(c, conn[c].number, conn[c].kind)'
    BY <1>2, <2>2, <2>3, <2>5 DEF PlansOf, Moved
  <2>7. Shared(c, "validate", conn[c].kind)'
    BY <1>2, <1>3, <1>4, <2>1, <2>5 DEF Shared, Moved, StageFits, PlainKinds, HookOn, BoundSet, Guarded,
       Binding, Bound, InCycle
  <2> QED BY <1>1, <1>4, <2>5, <2>6, <2>7, BusyStep, Zenon
<1>7. CASE Rebindable(conn[c].kind) /\ captured = <<>>
  <2>1. PICK sql \in BOOLEAN : sql <=> InCycle(conn[c].kind)
    BY Zenon
  <2>2. /\ Go(c, IF sql THEN "replan" ELSE AfterPrepare(c))
        /\ internal' = IF sql THEN internal + 1 ELSE internal
        /\ UNCHANGED captured
    BY <1>3, <1>7, <2>1 DEF FinalizePrepare
  <2>3. CASE sql
    <3>1. Moved(c, "replan") /\ Kept(c)
      BY <2>2, <2>3, GoMoves DEF LcInv
    <3>2. conn[c].kind \notin PlainKinds
      BY <1>2, <1>3, <1>7, SMTT(30) DEF Shared, PlainKinds, Rebindable
    <3>3. Shared(c, "replan", conn[c].kind)'
      BY <1>2, <1>3, <1>4, <1>7, <2>1, <2>2, <2>3, <3>1, <3>2, SMTT(30) DEF Shared, Moved, StageFits, PlainKinds,
         HookOn, BoundSet, Guarded, Binding, Bound, InCycle
    <3> QED BY <1>1, <1>4, <3>1, <3>3, PlansKept, BusyStep
  <2>4. CASE ~sql
    <3>1. Moved(c, "idle") /\ Kept(c)
      BY <2>1, <2>2, <2>4, GoMoves DEF LcInv, AfterPrepare
    <3>2. Unshared'
      BY <1>2, <1>3, <1>4, <1>7, <2>1, <2>2, <2>4 DEF Shared, Unshared, StageFits, PlainKinds, HookOn,
         BoundSet, Guarded, Binding, Bound, InCycle
    <3> QED BY <1>1, <1>4, <3>1, <3>2, PlansKept, BusyStep
  <2> QED BY <2>3, <2>4
<1> QED BY <1>5, <1>6, <1>7

\* The plan is made again under an internal_query_guard.
LEMMA ReplanKeeps ==
  ASSUME LcInv, NEW c \in LcConns, Replan(c)
  PROVE  LcInv'
<1>1. conn[c].at = "replan" /\ Busy(c)
  BY DEF Replan, Busy
<1>2. Shared(c, "replan", conn[c].kind) /\ PlansOf(c, conn[c].number, conn[c].kind)
  BY <1>1, UnderWay
<1>3. UNCHANGED <<slot, captured, original, disabled, engine, workload>> /\ internal' = 0
  BY <1>2 DEF Replan, Shared, Guarded
<1>4. InCycle(conn[c].kind) /\ AfterPrepare(c) = "execute" /\ conn[c].kind \notin {"aborted", "execute"}
  BY <1>2 DEF Shared, StageFits, InCycle, AfterPrepare
<1>5. CASE conn' = [conn EXCEPT ![c].at = "validate", ![c].plan = <<PlanOf(c)>>]
  <2>1. PICK p : p = <<PlanOf(c)>>
    BY ZenonT(30)
  <2>2. conn' = [conn EXCEPT ![c].at = "validate", ![c].plan = p]
    BY <1>5, <2>1
  <2>3. /\ Moved(c, "validate") /\ conn'[c].plan = p /\ conn'[c].saved = conn[c].saved
        /\ conn'[c].ran = conn[c].ran /\ conn'[c].prepared = conn[c].prepared
    <3>1. ConnShape
      BY DEF LcInv
    <3>2. Replans(c, "validate", p)
      BY <2>2 DEF Replans
    <3> QED BY <3>1, <3>2, PlanMoves
  <2>4. p = <<Own(c, conn[c].number)>>
    BY <2>1 DEF PlanOf, Own
  <2>5. PlansOf(c, conn[c].number, conn[c].kind)'
    BY <1>2, <2>3, <2>4 DEF PlansOf, Moved
  <2>6. Shared(c, "validate", conn[c].kind)'
    BY <1>2, <1>3, <1>4, <2>3, ZenonT(30) DEF Shared, Moved, StageFits, PlainKinds, HookOn, BoundSet, Guarded,
       Binding, Bound, InCycle
  <2> QED BY <1>1, <1>3, <2>3, <2>5, <2>6, BusyStep
<1>6. CASE Go(c, AfterPrepare(c))
  <2>1. Moved(c, "execute") /\ Kept(c)
    BY <1>4, <1>6, GoMoves, SMTT(30) DEF LcInv
  <2>2. Shared(c, "execute", conn[c].kind)'
    BY <1>2, <1>3, <1>4, <2>1, SMTT(30) DEF Shared, Moved, StageFits, PlainKinds, HookOn, BoundSet, Guarded,
       Binding, Bound, InCycle
  <2> QED BY <1>1, <1>3, <2>1, <2>2, PlansKept, BusyStep, ZenonT(30)
<1> QED BY <1>5, <1>6 DEF Replan

\* The validation of a plan, which rebinds or gives it up.
LEMMA ValidateKeeps ==
  ASSUME LcInv, NEW c \in LcConns, Validate(c)
  PROVE  LcInv'
<1>1. conn[c].at = "validate" /\ Busy(c)
  BY DEF Validate, Busy
<1>2. Shared(c, "validate", conn[c].kind) /\ PlansOf(c, conn[c].number, conn[c].kind)
  BY <1>1, UnderWay
<1>3. UNCHANGED <<slot, internal, captured, original, disabled, engine, workload>>
  BY DEF Validate
<1>4. PICK p, b : /\ p = IF conn[c].kind = "unsupported" THEN <<>> ELSE conn[c].plan
                  /\ b = IF conn[c].kind = "prepare" THEN p ELSE conn[c].prepared
  OBVIOUS
<1>5. PICK at : at = AfterPrepare(c)
  OBVIOUS
<1>6. conn' = [conn EXCEPT ![c].at = at, ![c].plan = p, ![c].prepared = b]
  BY <1>4, <1>5 DEF Validate
<1>7. /\ Moved(c, at) /\ conn'[c].plan = p /\ conn'[c].prepared = b
      /\ conn'[c].saved = conn[c].saved /\ conn'[c].ran = conn[c].ran
  <2>1. ConnShape
    BY DEF LcInv
  <2>2. Rebinds(c, at, p, b)
    BY <1>6, SMTT(30) DEF Rebinds
  <2> QED BY <2>1, <2>2, ValidateMoves
<1>8. PlansOf(c, conn[c].number, conn[c].kind)'
  <2>1. p = <<>> \/ p = <<Own(c, conn[c].number)>>
    BY <1>2, <1>4 DEF PlansOf
  <2>2. \A n : Own(c, n).number = n
    BY DEF Own
  <2>3. b = <<>> \/ b = <<Own(c, b[1].number)>>
    BY <1>2, <1>4, <2>1, <2>2, SMTT(30) DEF PlansOf
  <2> QED BY <1>2, <1>7, <2>1, <2>3, ZenonT(30) DEF PlansOf, Moved
<1>9. \/ at = "idle" /\ Unshared'
      \/ at \notin {"idle", "begin"} /\ Shared(c, at, conn[c].kind)'
  BY <1>2, <1>3, <1>5, <1>7 DEF AfterPrepare, Shared, Unshared, Moved, StageFits, PlainKinds, HookOn,
     BoundSet, Guarded, Binding, Bound, InCycle
<1> QED BY <1>1, <1>3, <1>7, <1>8, <1>9, BusyStep

\* The source operator runs the plan of its statement.
LEMMA ExecuteKeeps ==
  ASSUME LcInv, NEW c \in LcConns, Execute(c)
  PROVE  LcInv'
<1>1. conn[c].at = "execute" /\ Busy(c)
  BY DEF Execute, Busy
<1>2. Shared(c, "execute", conn[c].kind) /\ PlansOf(c, conn[c].number, conn[c].kind)
  BY <1>1, UnderWay
<1>3. UNCHANGED <<slot, captured, original, disabled, workload>>
  BY DEF Execute
<1>4. internal = 0 /\ InCycle(conn[c].kind) /\ conn[c].kind # "aborted"
  BY <1>2 DEF Shared, StageFits, InCycle, Guarded
<1>5. PICK plan : plan = IF conn[c].kind = "execute" THEN conn[c].prepared ELSE conn[c].plan
  OBVIOUS
<1>6. ASSUME NEW at, at \in {"fallback", "end"}, Go(c, at), UNCHANGED internal,
             at = "fallback" => conn[c].kind = "function"
      PROVE  LcInv'
  <2>1. Moved(c, at) /\ Kept(c)
    BY <1>6, GoMoves DEF LcInv
  <2>2. Shared(c, at, conn[c].kind)'
    BY <1>2, <1>3, <1>4, <1>6, <2>1, SMTT(30) DEF Shared, Moved, StageFits, PlainKinds, HookOn, BoundSet, Guarded,
       Binding, Bound, InCycle
  <2> QED BY <1>1, <1>3, <1>6, <2>1, <2>2, PlansKept, BusyStep
<1>7. ASSUME Go(c, "replan_run"), internal' = internal + 1, conn[c].kind = "iceberg"
      PROVE  LcInv'
  <2>1. Moved(c, "replan_run") /\ Kept(c)
    BY <1>7, GoMoves DEF LcInv
  <2>2. Shared(c, "replan_run", conn[c].kind)'
    BY <1>2, <1>3, <1>4, <1>7, <2>1 DEF Shared, Moved, StageFits, PlainKinds, HookOn, BoundSet, Guarded,
       Binding, Bound, InCycle
  <2> QED BY <1>1, <1>3, <2>1, <2>2, PlansKept, BusyStep
<1>8. ASSUME NEW p, conn' = [conn EXCEPT ![c].at = "running", ![c].ran = p], engine' = c, UNCHANGED internal,
             conn[c].kind # "execute" => p = <<>> \/ p = <<Own(c, conn[c].number)>> \/ p = <<OwnInner(c, conn[c].number)>>
      PROVE  LcInv'
  <2>1. /\ Moved(c, "running") /\ conn'[c].ran = p /\ conn'[c].saved = conn[c].saved
        /\ conn'[c].plan = conn[c].plan /\ conn'[c].prepared = conn[c].prepared
    <3>1. ConnShape
      BY DEF LcInv
    <3>2. Runs(c, "running", p)
      BY <1>8 DEF Runs
    <3> QED BY <3>1, <3>2, RanMoves
  <2>2. PlansOf(c, conn[c].number, conn[c].kind)'
    BY <1>2, <1>8, <2>1, Zenon DEF PlansOf, Moved
  <2>3. Shared(c, "running", conn[c].kind)'
    BY <1>2, <1>3, <1>4, <1>8, <2>1 DEF Shared, Moved, StageFits, PlainKinds, HookOn, BoundSet, Guarded,
       Binding, Bound, InCycle
  <2> QED BY <1>1, <1>3, <2>1, <2>2, <2>3, BusyStep
<1>9. CASE conn[c].kind = "function"
  <2>1. InnerPlanOf(c) = OwnInner(c, conn[c].number)
    <3>1. PICK f, g : f = FALSE /\ g = TRUE
      BY Zenon
    <3>2. PICK r : r = [conn |-> c, number |-> conn[c].number, inner |-> f]
      BY Zenon
    <3>3. [r EXCEPT !.inner = g] = [conn |-> c, number |-> conn[c].number, inner |-> g]
      BY <3>2
    <3> QED BY <3>1, <3>2, <3>3, Zenon DEF InnerPlanOf, PlanOf, OwnInner
  <2>2. PICK p : p = <<InnerPlanOf(c)>>
    BY Zenon
  <2>3. UNCHANGED internal
    BY <1>9 DEF Execute
  <2>4. \/ conn' = [conn EXCEPT ![c].at = "running", ![c].ran = p] /\ engine' = c
        \/ Go(c, "fallback")
    BY <1>9, <2>2 DEF Execute
  <2> QED BY <1>6, <1>8, <1>9, <2>1, <2>2, <2>3, <2>4
<1>10. CASE conn[c].kind # "function" /\ plan = <<>>
  <2>1. Go(c, "end") /\ UNCHANGED internal
    BY <1>5, <1>10 DEF Execute
  <2> QED BY <1>6, <2>1
<1>11. CASE conn[c].kind = "iceberg" /\ plan # <<>>
  <2>1. Go(c, "replan_run") /\ internal' = internal + 1
    BY <1>5, <1>11 DEF Execute
  <2> QED BY <1>7, <1>11, <2>1
<1>12. CASE conn[c].kind \notin {"function", "iceberg"} /\ plan # <<>>
  <2>1. conn' = [conn EXCEPT ![c].at = "running", ![c].ran = plan] /\ engine' = c /\ UNCHANGED internal
    BY <1>5, <1>12 DEF Execute
  <2>2. conn[c].kind # "execute" => plan = <<>> \/ plan = <<Own(c, conn[c].number)>>
    BY <1>2, <1>5, Zenon DEF PlansOf
  <2> QED BY <1>8, <2>1, <2>2, ZenonT(30)
<1> QED BY <1>9, <1>10, <1>11, <1>12

\* A statement over iceberg tables is planned again when it runs.
LEMMA ReplanForRunKeeps ==
  ASSUME LcInv, NEW c \in LcConns, ReplanForRun(c)
  PROVE  LcInv'
<1>1. conn[c].at = "replan_run" /\ Busy(c)
  BY SMTT(30) DEF ReplanForRun, Busy
<1>2. Shared(c, "replan_run", conn[c].kind) /\ PlansOf(c, conn[c].number, conn[c].kind)
  BY <1>1, UnderWay
<1>3. UNCHANGED <<slot, captured, original, disabled, engine, workload>> /\ internal' = 0
  BY <1>2, SMTT(30) DEF ReplanForRun, Shared, Guarded
<1>4. PICK p : p = <<PlanOf(c)>>
  BY Zenon
<1>5. /\ Moved(c, "prefetch") /\ conn'[c].ran = p /\ conn'[c].saved = conn[c].saved
      /\ conn'[c].plan = conn[c].plan /\ conn'[c].prepared = conn[c].prepared
  <2>1. ConnShape
    BY DEF LcInv
  <2>2. Runs(c, "prefetch", p)
    BY <1>4, SMTT(30) DEF ReplanForRun, Runs
  <2> QED BY <2>1, <2>2, RanMoves
<1>6. p = <<Own(c, conn[c].number)>>
  BY <1>4 DEF PlanOf, Own
<1>7. PlansOf(c, conn[c].number, conn[c].kind)'
  BY <1>2, <1>5, <1>6, ZenonT(30) DEF PlansOf, Moved
<1>8. Shared(c, "prefetch", conn[c].kind)'
  BY <1>2, <1>3, <1>5, ZenonT(30) DEF Shared, Moved, StageFits, PlainKinds, HookOn, BoundSet, Guarded, Binding,
     Bound, InCycle
<1> QED BY <1>1, <1>3, <1>5, <1>7, <1>8, BusyStep, Zenon

\* A second connection is opened for prefetching or for the fallback.
LEMMA InternalConnectionKeeps ==
  ASSUME LcInv, NEW c \in LcConns, NEW from \in {"prefetch", "fallback"}, InternalConnection(c, from)
  PROVE  LcInv'
<1>1. conn[c].at = from /\ Busy(c)
  BY ZenonT(30) DEF InternalConnection, Busy
<1>2. Shared(c, from, conn[c].kind)
  BY <1>1, UnderWay, Zenon
<1>3. PICK at : at = IF from = "prefetch" THEN "prefetch_begin" ELSE "fallback_begin"
  BY SMTT(30)
<1>4. Moved(c, at) /\ Kept(c)
  BY <1>3, GoMoves, ZenonT(30) DEF InternalConnection, LcInv
<1>5. UNCHANGED <<slot, captured, original, disabled, engine, workload>> /\ internal' = 1
  BY <1>2, SMTT(30) DEF InternalConnection, Shared, Guarded
<1>6. at \notin {"idle", "begin"} /\ Shared(c, at, conn[c].kind)'
  BY <1>2, <1>3, <1>4, <1>5, ZenonT(30) DEF Shared, Moved, StageFits, PlainKinds, HookOn, BoundSet, Guarded,
     Binding, Bound, InCycle
<1> QED BY <1>1, <1>4, <1>5, <1>6, PlansKept, BusyStep, ZenonT(30)

\* QueryBegin of an internal statement returns at once: it does not wait for the slot.
LEMMA InternalBeginKeeps ==
  ASSUME LcInv, NEW c \in LcConns, InternalBegin(c)
  PROVE  LcInv'
<1>1. conn[c].at \in {"prefetch_begin", "fallback_begin"} /\ Busy(c)
  BY SMTT(30) DEF InternalBegin, Busy
<1>2. Shared(c, conn[c].at, conn[c].kind) /\ internal = 1
  BY <1>1, UnderWay, Zenon DEF Shared, Guarded
<1>3. PICK at : at = IF conn[c].at = "prefetch_begin" THEN "prefetch_end" ELSE "fallback_end"
  OBVIOUS
<1>4. Moved(c, at) /\ Kept(c)
  BY <1>3, GoMoves DEF InternalBegin, LcInv
<1>5. UNCHANGED <<slot, internal, captured, original, disabled, engine, workload>>
  BY <1>2, SMTT(30) DEF InternalBegin, is_internal_query_active
<1>6. at \notin {"idle", "begin"} /\ Shared(c, at, conn[c].kind)'
  BY <1>1, <1>2, <1>3, <1>4, <1>5, ZenonT(30) DEF Shared, Moved, StageFits, PlainKinds, HookOn, BoundSet, Guarded,
     Binding, Bound, InCycle
<1> QED BY <1>1, <1>4, <1>5, <1>6, PlansKept, BusyStep, Zenon

\* QueryEnd of an internal statement leaves the slot alone.
LEMMA InternalEndKeeps ==
  ASSUME LcInv, NEW c \in LcConns, InternalEnd(c)
  PROVE  LcInv'
<1>1. conn[c].at \in {"prefetch_end", "fallback_end"} /\ Busy(c)
  BY SMTT(30) DEF InternalEnd, Busy
<1>2. Shared(c, conn[c].at, conn[c].kind) /\ internal = 1
  BY <1>1, UnderWay, Zenon DEF Shared, Guarded
<1>3. UNCHANGED <<slot, captured, original, disabled, workload>> /\ internal' = 0
  BY <1>2 DEF InternalEnd, is_internal_query_active
<1>4. PICK at : at = IF conn[c].at = "prefetch_end" THEN "running" ELSE "end"
  OBVIOUS
<1>5. Go(c, at) /\ (at = "running" => engine' = c)
  BY <1>1, <1>4 DEF InternalEnd
<1>6. Moved(c, at) /\ Kept(c)
  BY <1>5, GoMoves, SMTT(30) DEF LcInv
<1>7. at \notin {"idle", "begin"} /\ Shared(c, at, conn[c].kind)'
  BY <1>1, <1>2, <1>3, <1>4, <1>5, <1>6, ZenonT(30) DEF Shared, Moved, StageFits, PlainKinds, HookOn, BoundSet,
     Guarded, Binding, Bound, InCycle
<1> QED BY <1>1, <1>3, <1>6, <1>7, PlansKept, BusyStep

\* The engine is done with the plan.
LEMMA RanKeeps ==
  ASSUME LcInv, NEW c \in LcConns, Ran(c)
  PROVE  LcInv'
<1>1. conn[c].at = "running" /\ Busy(c)
  BY DEF Ran, Busy
<1>2. Shared(c, "running", conn[c].kind)
  BY <1>1, UnderWay
<1>3. PICK at \in {"end", "fallback"} : Go(c, at) /\ (at = "fallback" => conn[c].kind = "function")
  BY SMTT(30) DEF Ran
<1>4. Moved(c, at) /\ Kept(c)
  BY <1>3, GoMoves DEF LcInv
<1>5. UNCHANGED <<slot, internal, captured, original, disabled, engine, workload>>
  BY SMTT(30) DEF Ran
<1>6. Shared(c, at, conn[c].kind)'
  BY <1>2, <1>3, <1>4, <1>5, ZenonT(30) DEF Shared, Moved, StageFits, PlainKinds, HookOn, BoundSet, Guarded,
     Binding, Bound, InCycle
<1> QED BY <1>1, <1>3, <1>4, <1>5, <1>6, PlansKept, BusyStep, Zenon

\* QueryEnd restores the optimizers, drops the captured plan and releases the slot.
LEMMA QueryEndKeeps ==
  ASSUME LcInv, NEW c \in LcConns, QueryEnd(c)
  PROVE  LcInv'
<1>1. conn[c].at = "end" /\ Busy(c)
  BY DEF QueryEnd, Busy
<1>2. Shared(c, "end", conn[c].kind)
  BY <1>1, UnderWay
<1>3. internal = 0 /\ InCycle(conn[c].kind)
  BY <1>2 DEF Shared, Guarded, StageFits, InCycle
<1>4. Moved(c, "idle") /\ Kept(c)
  BY GoMoves DEF QueryEnd, LcInv
<1>5. /\ disabled' = Restored /\ original' = <<>> /\ captured' = <<>> /\ slot' = NoConn
      /\ UNCHANGED <<internal, workload>>
  BY <1>3 DEF QueryEnd, is_internal_query_active, EndRestores
<1>6. disabled' = {}
  BY <1>2, <1>5 DEF Restored, Shared, HookOn, BoundSet, Bound
<1>7. Unshared'
  BY <1>3, <1>5, <1>6 DEF Unshared
<1> QED BY <1>1, <1>4, <1>5, <1>7, PlansKept, BusyStep, Zenon

\* QueryBegin of a statement waits until the slot is free.
LEMMA QueryBeginKeeps ==
  ASSUME LcInv, NEW c \in LcConns, QueryBegin(c), ExclusiveWorkloads
  PROVE  LcInv'
<1>1. conn[c].at = "begin" /\ InCycle(conn[c].kind) /\ UNCHANGED <<internal, original, disabled, engine, workload>>
  BY DEF QueryBegin, LcInv, SharedInv
<1>2. \A d \in LcConns : ~Busy(d)
  <2> SUFFICES ASSUME NEW d \in LcConns, Busy(d) PROVE FALSE
    BY Zenon
  <2>1. d # c /\ conn[d].at # "idle"
    BY <1>1 DEF Busy
  <2>2. PICK w \in LcWorkloads : workload = <<w>>
    BY <1>1 DEF LcInv, WorkInv
  <2>3. conn[c].kind \in w[c] /\ conn[d].kind \in w[d]
    BY <1>1, <2>1, <2>2 DEF LcInv, WorkInv
  <2>4. conn[d].kind \in PlainKinds
    BY <2>1, <2>3 DEF ExclusiveWorkloads
  <2>5. Shared(d, conn[d].at, conn[d].kind)
    BY UnderWay
  <2>6. slot = d
    BY <2>4, <2>5 DEF Shared, InCycle, PlainKinds
  <2>7. internal # 0
    BY <2>6, LifecycleAssumption DEF QueryBegin, SlotFree, is_internal_query_active
  <2> QED BY <2>4, <2>5, <2>7 DEF Shared, StageFits, Guarded, PlainKinds
<1>3. Unshared
  BY <1>2 DEF LcInv, SharedInv
<1>4. PICK at : at = AfterBegin(c)
  OBVIOUS
<1>5. Moved(c, at) /\ Kept(c)
  BY <1>4, GoMoves DEF QueryBegin, LcInv
<1>6. slot' = c /\ captured' = <<>>
  BY <1>3 DEF QueryBegin, Unshared, is_internal_query_active
<1>7. at \notin {"idle", "begin"} /\ Shared(c, at, conn[c].kind)'
  <2>1. /\ conn[c].kind = "function" => at = "bind"
        /\ conn[c].kind = "execute" => at = "execute"
        /\ conn[c].kind \notin {"function", "execute"} => at = "pre"
    BY <1>4 DEF AfterBegin
  <2> QED BY <1>1, <1>3, <1>5, <1>6, <2>1 DEF Shared, Unshared, Moved, StageFits, PlainKinds, HookOn,
             BoundSet, Guarded, Binding, Bound, InCycle
<1>8. PlansOf(c, conn[c].number, conn[c].kind)'
  BY <1>5, PlansKept
<1> QED BY <1>1, <1>2, <1>5, <1>7, <1>8, BeginStep

\* A connection issues a statement: it enters QueryBegin, or starts at once when it has
\* none.
LEMMA IssueKeeps ==
  ASSUME LcInv, NEW c \in LcConns, Issue(c), ExclusiveWorkloads
  PROVE  LcInv'
<1>1. /\ workload # <<>> /\ conn[c].at = "idle"
      /\ UNCHANGED <<slot, internal, captured, original, disabled, engine, workload>>
  BY DEF Issue
<1>2. PICK w \in LcWorkloads : workload = <<w>>
  BY <1>1, SMTT(30) DEF LcInv, WorkInv
<1>3. PICK k \in w[c] :
         conn' = [conn EXCEPT ![c].kind = k, ![c].number = @ + 1, ![c].plan = <<>>,
                              ![c].copied = FALSE, ![c].ran = <<>>,
                              ![c].at = IF InCycle(k) THEN "begin" ELSE "pre"]
  BY <1>2, Zenon DEF Issue
<1>4. PICK s, n, e, f, at : /\ s = conn[c] /\ n = conn[c].number + 1 /\ e = <<>> /\ f = FALSE
                            /\ at = IF InCycle(k) THEN "begin" ELSE "pre"
  BY Zenon
<1>5. conn' = [conn EXCEPT ![c].kind = k, ![c].number = n, ![c].plan = e, ![c].copied = f,
                           ![c].ran = e, ![c].at = at]
  BY <1>3, <1>4, Zenon
<1>6. PICK r : r = [s EXCEPT !.kind = k, !.number = n, !.plan = e, !.copied = f, !.ran = e, !.at = at]
  OBVIOUS
<1>7. ConnRecord(s) /\ conn = [d \in LcConns |-> conn[d]]
  BY <1>4 DEF LcInv, ConnShape
<1>8. ConnRecord(r)
  BY <1>6, <1>7, Zenon DEF ConnRecord
<1>9. r.kind = k /\ r.number = n /\ r.plan = e /\ r.ran = e /\ r.at = at /\ r.saved = s.saved /\ r.prepared = s.prepared
  BY <1>6, <1>7 DEF ConnRecord
<1>10. conn' = [conn EXCEPT ![c] = r]
  BY <1>4, <1>5, <1>6, <1>7, ZenonT(30)
<1>11. conn'[c] = r /\ conn' = [d \in LcConns |-> conn'[d]] /\ \A d \in LcConns : d # c => conn'[d] = conn[d]
  BY <1>7, <1>10
<1>12. ConnShape'
  BY <1>8, <1>11 DEF LcInv, ConnShape
<1>13. PlansInv'
  <2>1. PlansOf(c, conn[c].number, conn[c].kind)'
    BY <1>4, <1>9, <1>11, SMTT(30) DEF PlansOf, LcInv, PlansInv
  <2>2. ASSUME NEW d \in LcConns, d # c PROVE PlansOf(d, conn[d].number, conn[d].kind)'
    BY <1>11, <2>2 DEF PlansOf, LcInv, PlansInv
  <2> QED BY <2>1, <2>2, SMTT(30) DEF PlansInv
<1>14. WorkInv'
  BY <1>1, <1>2, <1>9, <1>11 DEF LcInv, WorkInv
<1>15. ~Busy(c) /\ \A d \in LcConns : d # c => (Busy(d)' <=> Busy(d))
  BY <1>1, <1>11 DEF Busy
<1>16. SharedInv'
  <2>1. CASE InCycle(k)
    <3>1. conn'[c].at = "begin" /\ ~Busy(c)' /\ conn'[c].kind = k
      BY <1>4, <1>9, <1>11, <2>1, SMTT(30) DEF Busy
    <3>2. \A d \in LcConns : Busy(d)' <=> Busy(d)
      BY <1>15, <3>1, SMTT(30)
    <3>3. ASSUME NEW d \in LcConns, Busy(d)' PROVE Shared(d, conn[d].at, conn[d].kind)'
      <4>1. d # c /\ Busy(d) /\ conn'[d] = conn[d]
        BY <1>11, <3>1, <3>2, <3>3, SMTT(30)
      <4>2. Shared(d, conn[d].at, conn[d].kind)
        BY <4>1, UnderWay
      <4>3. UNCHANGED <<slot, internal, disabled, original, captured, engine>>
        BY <1>1, SMTT(30)
      <4> QED BY <4>1, <4>2, <4>3, SMTT(30) DEF Shared
    <3>4. (\A d \in LcConns : ~Busy(d)) => Unshared'
      BY <1>1, SMTT(30) DEF LcInv, SharedInv, Unshared
    <3>5. \A d, b \in LcConns : Busy(d)' /\ Busy(b)' => d = b
      BY <3>2, Zenon DEF LcInv, SharedInv
    <3>6. \A d \in LcConns : conn'[d].at = "begin" => InCycle(conn'[d].kind)
      BY <1>11, <2>1, <3>1, SMTT(30) DEF LcInv, SharedInv
    <3> QED BY <3>2, <3>3, <3>4, <3>5, <3>6, ZenonT(30) DEF SharedInv
  <2>2. CASE ~InCycle(k)
    <3>1. conn'[c].at = "pre" /\ conn'[c].kind = "prepare" /\ k = "prepare" /\ Busy(c)'
      BY <1>4, <1>9, <1>11, <2>2 DEF Busy, InCycle
    <3>2. ASSUME NEW d \in LcConns, d # c PROVE ~Busy(d)
      <4>1. conn[d].at # "idle" => conn[d].kind \in w[d]
        BY <1>2 DEF LcInv, WorkInv
      <4>2. w[d] # {} => w[c] \subseteq PlainKinds
        BY <3>2 DEF ExclusiveWorkloads
      <4> QED BY <3>1, <4>1, <4>2 DEF Busy, PlainKinds
    <3>3. Unshared
      BY <1>15, <3>2 DEF LcInv, SharedInv
    <3>4. Shared(c, "pre", "prepare")'
      BY <1>1, <3>3 DEF Shared, Unshared, StageFits, PlainKinds, HookOn, BoundSet, Guarded, Binding,
         Bound, InCycle
    <3>5. \A d \in LcConns : Busy(d)' => d = c
      BY <1>15, <3>2
    <3>6. \A d \in LcConns : conn'[d].at = "begin" => InCycle(conn'[d].kind)
      BY <1>11, <3>1 DEF LcInv, SharedInv
    <3> QED BY <3>1, <3>4, <3>5, <3>6 DEF SharedInv
  <2> QED BY <2>1, <2>2, SMTT(30)
<1> QED BY <1>12, <1>13, <1>14, <1>16 DEF LcInv

\* QueryBegin, QueryEnd and the hooks of one context shared by many connections: a
\* statement uses the engine only while it holds the slot, runs the plan it prepared and no
\* other connection's, and leaves no optimizer switched off and no plan captured behind.
\* The hypothesis excludes the statements of DuckDB that reach the hooks without QueryBegin
\* while another connection is active; for those the property is false, as the README
\* shows.
THEOREM StatementsAreIsolated ==
  ASSUME ExclusiveWorkloads
  PROVE  LcSpec => []StatementsIsolated
<1>1. LcInit => LcInv
  <2> SUFFICES ASSUME LcInit PROVE LcInv
    OBVIOUS
  <2>1. \A c \in LcConns : /\ conn[c] = Resting /\ conn[c].at = "idle" /\ conn[c].plan = <<>>
                           /\ conn[c].ran = <<>> /\ conn[c].prepared = <<>>
    BY Zenon DEF LcInit, Resting
  <2>2. ConnRecord(Resting)
    BY DEF ConnRecord, Resting
  <2> QED BY <2>1, <2>2 DEF LcInit, LcInv, ConnShape, PlansInv, PlansOf, WorkInv, SharedInv, Busy,
             Unshared
<1>2. LcInv /\ [LcNext]_lcvars => LcInv'
  <2> SUFFICES ASSUME LcInv, LcNext PROVE LcInv'
    BY LcUnchanged
  <2>1. ASSUME NEW c \in LcConns, Statement(c) PROVE LcInv'
    BY <2>1, QueryBeginKeeps, PrepareConnectionKeeps, CleanupConnectionKeeps, PreOptimizerKeeps,
       OptimizerThrowsKeeps, OptimizerHookKeeps, FinalizePrepareKeeps, ReplanKeeps, ValidateKeeps,
       ExecuteKeeps, ReplanForRunKeeps, InternalConnectionKeeps, InternalBeginKeeps,
       InternalEndKeeps, RanKeeps, QueryEndKeeps DEF Statement
  <2> QED BY <2>1, OpenDatabaseKeeps, IssueKeeps DEF LcNext
<1>3. LcInv => StatementsIsolated
  <2> SUFFICES ASSUME LcInv PROVE StatementsIsolated
    OBVIOUS
  <2>1. QueriesSerialized
    <3> SUFFICES ASSUME NEW c \in LcConns
                 PROVE  (InQuery(c) => slot = c) /\ (conn[c].at = "running" => engine = c)
      BY Zenon DEF QueriesSerialized
    <3>1. Busy(c) => Shared(c, conn[c].at, conn[c].kind)
      BY UnderWay
    <3> QED BY <3>1 DEF InQuery, Busy, Shared
  <2>2. RunsItsOwnPlan
    <3> SUFFICES ASSUME NEW c \in LcConns
                 PROVE  /\ conn[c].ran # <<>> /\ conn[c].kind # "execute" =>
                             conn[c].ran[1].conn = c /\ conn[c].ran[1].number = conn[c].number
                        /\ conn[c].prepared # <<>> => conn[c].prepared[1].conn = c
                        /\ conn[c].plan # <<>> => ~conn[c].plan[1].inner
      BY Zenon DEF RunsItsOwnPlan
    <3>1. PlansOf(c, conn[c].number, conn[c].kind)
      BY DEF LcInv, PlansInv
    <3>2. ASSUME NEW n
          PROVE  /\ Own(c, n).conn = c /\ Own(c, n).number = n /\ ~Own(c, n).inner
                 /\ OwnInner(c, n).conn = c /\ OwnInner(c, n).number = n
      BY DEF Own, OwnInner
    <3> QED BY <3>1, <3>2 DEF PlansOf
  <2>3. NothingLeftBehind
    BY DEF LcInv, SharedInv, Unshared, NothingLeftBehind, Busy
  <2> QED BY <2>1, <2>2, <2>3 DEF StatementsIsolated
<1> QED BY <1>1, <1>2, <1>3, PTL DEF LcSpec

-----------------------------------------------------------------------------
\* A queue with one more element at its end.
LEMMA AppendedSeq ==
  ASSUME NEW S, NEW s \in Seq(S), NEW x \in S
  PROVE  /\ Append(s, x) \in Seq(S) /\ Append(s, x) # <<>>
         /\ Len(Append(s, x)) = Len(s) + 1 /\ Append(s, x)[Len(s) + 1] = x
         /\ \A i \in 1 .. Len(s) : Append(s, x)[i] = s[i]
OBVIOUS

\* Sequences with the same elements are the same.
LEMMA SameSeq ==
  ASSUME NEW S, NEW s \in Seq(S), NEW t \in Seq(S), Len(s) = Len(t),
         \A i \in 1 .. Len(s) : s[i] = t[i]
  PROVE  s = t
OBVIOUS

-----------------------------------------------------------------------------
(*****************************************************************************)
(* The cache of scan results (op/scan/duckdb_scan_executor.cpp). What the    *)
(* cache holds is the beginning of one scan, of one text and of one version  *)
(* of the table; it is all of that scan unless an execution failed. The      *)
(* level of the cache, the text it is for and the preload flag decide        *)
(* whether a query computes or replays.                                      *)
(*****************************************************************************)
\* The first n batches of the scan of text t over version v of the table.
Recorded(t, v, n) == [i \in 1 .. n |-> <<t, v, i>>]

\* The statement under way replays the cache (the preload flag counts only with a cache
\* level),
Replaying == sclevel # "NONE" /\ scpreload

\* ... or it reads the table.
Computing == ~scrun.done /\ ~Replaying /\ scrun.failed = "no"
CacheRecord(c) == c = [present |-> c.present, batches |-> c.batches, index |-> c.index]
RunRecord(r) ==
  r = [text |-> r.text, todo |-> r.todo, next |-> r.next, drained |-> r.drained,
       failed |-> r.failed, rows |-> r.rows, done |-> r.done]

\* The records have their fields; a statement that runs has a text.
ScShapes ==
  /\ CacheRecord(sccache) /\ RunRecord(scrun)
  /\ scstats = [runs |-> scstats.runs, faults |-> scstats.faults]
  /\ scversion \in Nat /\ scstats.faults \in Nat
  /\ ~scrun.done => scrun.text \in ScQueries

\* Without a level there is no cache and no text it could be for.
LevelInv ==
  /\ scset = "NONE" => sclevel = "NONE"
  /\ sclevel = "NONE" => sctext = NoText /\ ~sccache.present

\* What the cache holds is the beginning of one scan of one text over one version of the
\* table: of the text it is compared with, of the statement under way when it replays, and
\* exactly what was read so far when it computes. It is the whole scan unless an execution
\* failed.
RecordInv ==
  sccache.present =>
    \E t \in ScQueries, v \in 0 .. scversion, n \in 0 .. ScParts :
      /\ sccache.batches = Recorded(t, v, n)
      /\ sctext \in {t, NoText}
      /\ Replaying /\ ~scrun.done => t = scrun.text
      /\ Computing => t = scrun.text /\ v = scversion /\ n = scrun.next - 1
      /\ Computing \/ n = ScParts \/ scstats.faults > 0

\* A statement that reads the table has seen the partitions before the next one, once each,
\* and has as many tasks to run as partitions are left (a parquet scan) or one that
\* continues itself (a DuckDB scan).
ComputeInv ==
  Computing =>
    /\ scrun.next \in 1 .. ScParts + 1
    /\ sclevel # "NONE" => sccache.present
    /\ scrun.rows = {<<scrun.text, scversion, p>> : p \in 1 .. scrun.next - 1}
    /\ IF ScKind[scrun.text] = "parquet"
       THEN scrun.todo = ScParts - (scrun.next - 1)
       ELSE \/ scrun.todo = 1 /\ scrun.next <= ScParts /\ ~scrun.drained
            \/ scrun.todo = 0 /\ scrun.next = ScParts + 1

\* A statement that replays has seen the batches before the cache's index, and has a task
\* for each batch it expects.
ReplayInv ==
  Replaying /\ ~scrun.done /\ scrun.failed = "no" =>
    /\ sccache.present /\ ~scrun.drained
    /\ sccache.index \in 0 .. Len(sccache.batches)
    /\ scrun.rows = {sccache.batches[i] : i \in 1 .. sccache.index}
    /\ scrun.todo = (IF ScKind[scrun.text] = "parquet" THEN ScParts ELSE 1) - sccache.index

\* The inductive invariant of the cache.
ScInv == ScShapes /\ LevelInv /\ RecordInv /\ ComputeInv /\ ReplayInv /\ ReplaySound

\* The length and the elements of a recorded scan, and that reading its next partition
\* extends it.
LEMMA RecordedFacts ==
  ASSUME NEW x, NEW v, NEW n \in Nat
  PROVE  /\ Len(Recorded(x, v, n)) = n /\ Recorded(x, v, n) \in Seq({<<x, v, i>> : i \in Nat})
         /\ \A i \in 1 .. n : Recorded(x, v, n)[i] = <<x, v, i>>
         /\ Append(Recorded(x, v, n), <<x, v, n + 1>>) = Recorded(x, v, n + 1)
<1>1. /\ Recorded(x, v, n) \in Seq({<<x, v, i>> : i \in Nat}) /\ Len(Recorded(x, v, n)) = n
      /\ \A i \in 1 .. n : Recorded(x, v, n)[i] = <<x, v, i>>
  BY DEF Recorded
<1>2. DEFINE S == {<<x, v, i>> : i \in Nat}
<1>3. <<x, v, n + 1>> \in S
  OBVIOUS
<1>4. /\ Append(Recorded(x, v, n), <<x, v, n + 1>>) \in Seq(S)
      /\ Len(Append(Recorded(x, v, n), <<x, v, n + 1>>)) = n + 1
      /\ \A i \in 1 .. n : Append(Recorded(x, v, n), <<x, v, n + 1>>)[i] = Recorded(x, v, n)[i]
      /\ Append(Recorded(x, v, n), <<x, v, n + 1>>)[n + 1] = <<x, v, n + 1>>
  BY <1>1, <1>3, AppendedSeq
<1>5. Recorded(x, v, n + 1) \in Seq(S) /\ Len(Recorded(x, v, n + 1)) = n + 1
      /\ \A i \in 1 .. n + 1 : Recorded(x, v, n + 1)[i] = <<x, v, i>>
  BY DEF Recorded
<1> HIDE DEF S
<1>6. Append(Recorded(x, v, n), <<x, v, n + 1>>) = Recorded(x, v, n + 1)
  <2>1. PICK a, b : a = Append(Recorded(x, v, n), <<x, v, n + 1>>) /\ b = Recorded(x, v, n + 1)
    BY ZenonT(30)
  <2>2. a \in Seq(S) /\ b \in Seq(S) /\ Len(a) = Len(b)
    BY <1>4, <1>5, <2>1
  <2>3. \A i \in 1 .. n + 1 : a[i] = <<x, v, i>> /\ b[i] = <<x, v, i>>
    BY <1>1, <1>4, <1>5, <2>1
  <2>4. \A i \in 1 .. Len(a) : a[i] = b[i]
    BY <1>4, <2>1, <2>3, Zenon
  <2> QED BY <2>1, <2>2, <2>4, SameSeq
<1> QED BY <1>1, <1>6 DEF S

\* SET of the cache level keeps the invariant.
LEMMA SetLevelKeeps ==
  ASSUME ScInv, NEW l \in ScLevels, l # "NONE", SetLevel(l)
  PROVE  ScInv'
<1>1. scset' # "NONE" /\ UNCHANGED <<sccache, sctext, sclevel, scpreload, scrun, scversion, scstats>>
  BY DEF SetLevel
<1>2. ScShapes' /\ LevelInv'
  BY <1>1 DEF ScInv, ScShapes, LevelInv
<1>3. (Replaying' <=> Replaying) /\ (Computing' <=> Computing)
  BY <1>1, SMTT(30) DEF Replaying, Computing
<1>4. RecordInv'
  BY <1>1, <1>3, SMTT(30) DEF ScInv, RecordInv
<1>5. ComputeInv' /\ ReplayInv'
  BY <1>1, <1>3, ZenonT(30) DEF ScInv, ComputeInv, ReplayInv
<1>6. ReplaySound'
  BY <1>1, ZenonT(30) DEF ScInv, ReplaySound, ReplayExact, CacheFailsAfterFault
<1> QED BY <1>2, <1>4, <1>5, <1>6 DEF ScInv

\* A change of the table makes a new version; what was recorded stays of the old one.
LEMMA WriteTableKeeps ==
  ASSUME ScInv, WriteTable
  PROVE  ScInv'
<1>1. /\ scrun.done /\ scversion' = scversion + 1
      /\ UNCHANGED <<sccache, sctext, sclevel, scset, scpreload, scrun, scstats>>
  BY DEF WriteTable
<1>2. scversion \in Nat /\ 0 .. scversion \subseteq 0 .. scversion'
  BY <1>1 DEF ScInv, ScShapes
<1>3. ScShapes' /\ LevelInv'
  BY <1>1, <1>2 DEF ScInv, ScShapes, LevelInv
<1>4. RecordInv'
  <2> SUFFICES ASSUME sccache.present
               PROVE \E x \in ScQueries, v \in 0 .. scversion', n \in 0 .. ScParts :
                        /\ sccache.batches = Recorded(x, v, n) /\ sctext \in {x, NoText}
                        /\ n = ScParts \/ scstats.faults > 0
    BY <1>1 DEF RecordInv, Computing
  <2>1. PICK x \in ScQueries, v \in 0 .. scversion, n \in 0 .. ScParts :
              /\ sccache.batches = Recorded(x, v, n) /\ sctext \in {x, NoText}
              /\ n = ScParts \/ scstats.faults > 0
    BY <1>1, SMTT(30) DEF ScInv, RecordInv, Computing
  <2> QED BY <1>2, <2>1
<1>5. ComputeInv' /\ ReplayInv'
  BY <1>1 DEF ComputeInv, ReplayInv, Computing
<1>6. ReplaySound'
  <2>1. CacheFailsAfterFault'
    BY <1>1, Zenon DEF ScInv, ReplaySound, CacheFailsAfterFault
  <2>2. ReplayExact'
    <3> SUFFICES ASSUME scrun.failed = "no", scrun.text # NoText
                 PROVE  \E v \in 0 .. scversion' : scrun.rows = {<<scrun.text, v, p>> : p \in 1 .. ScParts}
      BY <1>1 DEF ReplayExact
    <3>1. PICK v \in 0 .. scversion : scrun.rows = {<<scrun.text, v, p>> : p \in 1 .. ScParts}
      BY <1>1 DEF ScInv, ReplaySound, ReplayExact
    <3> QED BY <1>2, <3>1
  <2> QED BY <2>1, <2>2 DEF ReplaySound
<1> QED BY <1>3, <1>4, <1>5, <1>6 DEF ScInv

\* A scan task that fails leaves an incomplete record, and the failure is counted.
LEMMA ScanFaultKeeps ==
  ASSUME ScInv, ScanFault
  PROVE  ScInv'
<1>1. /\ ~scrun.done /\ ~Replaying /\ scrun.failed = "no"
      /\ UNCHANGED <<sccache, sctext, sclevel, scset, scpreload, scversion>>
  BY DEF ScanFault, Replaying
<1>2. PICK r, s : r = scrun /\ s = scstats
  OBVIOUS
<1>3. scrun' = [r EXCEPT !.failed = "fault"] /\ RunRecord(r) /\ scstats' = [s EXCEPT !.faults = s.faults + 1]
  BY <1>2 DEF ScanFault, ScInv, ScShapes
<1>4. /\ RunRecord(scrun') /\ scrun'.failed = "fault" /\ scrun'.text = r.text /\ (scrun'.done <=> r.done)
  BY <1>3 DEF RunRecord
<1>5. scstats' = [runs |-> scstats'.runs, faults |-> scstats'.faults] /\ scstats'.faults = s.faults + 1
  BY <1>2, <1>3 DEF ScInv, ScShapes
<1>6. scstats'.faults \in Nat /\ scstats'.faults > 0
  BY <1>2, <1>5 DEF ScInv, ScShapes
<1>7. ScShapes' /\ LevelInv'
  BY <1>1, <1>2, <1>4, <1>5, <1>6 DEF ScInv, ScShapes, LevelInv
<1>8. RecordInv'
  <2> SUFFICES ASSUME sccache.present
               PROVE \E x \in ScQueries, v \in 0 .. scversion, n \in 0 .. ScParts :
                        sccache.batches = Recorded(x, v, n) /\ sctext \in {x, NoText}
    BY <1>1, <1>4, <1>6, Zenon DEF RecordInv, Computing, Replaying
  <2> QED BY SMTT(30) DEF ScInv, RecordInv
<1>9. ComputeInv' /\ ReplayInv' /\ ReplaySound'
  BY <1>4, <1>6 DEF ComputeInv, ReplayInv, Computing, ReplaySound, ReplayExact, CacheFailsAfterFault
<1> QED BY <1>7, <1>8, <1>9 DEF ScInv

\* The end of a statement: what it has recorded is a whole scan, or it failed.
LEMMA CachedQueryEndKeeps ==
  ASSUME ScInv, EndQuery_Sc
  PROVE  ScInv'
<1>1. /\ ~scrun.done /\ (scrun.failed # "no" \/ Exhausted)
      /\ UNCHANGED <<sccache, sctext, sclevel, scset, scpreload, scversion, scstats>>
  BY DEF EndQuery_Sc
<1>2. PICK r, b : r = scrun /\ b = TRUE
  OBVIOUS
<1>3. scrun' = [r EXCEPT !.done = b] /\ RunRecord(r)
  BY <1>2 DEF EndQuery_Sc, ScInv, ScShapes
<1>4. /\ RunRecord(scrun') /\ scrun'.failed = scrun.failed /\ scrun'.text = scrun.text /\ scrun'.done
      /\ scrun'.rows = scrun.rows
  BY <1>2, <1>3, Zenon DEF RunRecord
<1>5. ScShapes' /\ LevelInv' /\ ComputeInv' /\ ReplayInv'
  BY <1>1, <1>4 DEF ScInv, ScShapes, LevelInv, ComputeInv, ReplayInv, Computing
<1>6. Computing => scrun.next = ScParts + 1
  BY <1>1, CacheAssumption DEF ScInv, ComputeInv, Exhausted, Computing, ScShapes
<1>7. RecordInv'
  <2> SUFFICES ASSUME sccache.present
               PROVE \E x \in ScQueries, v \in 0 .. scversion, n \in 0 .. ScParts :
                        /\ sccache.batches = Recorded(x, v, n) /\ sctext \in {x, NoText}
                        /\ n = ScParts \/ scstats.faults > 0
    BY <1>1, <1>4, Zenon DEF RecordInv, Computing
  <2>1. PICK x \in ScQueries, v \in 0 .. scversion, n \in 0 .. ScParts :
              /\ sccache.batches = Recorded(x, v, n) /\ sctext \in {x, NoText}
              /\ Computing => n = scrun.next - 1
              /\ Computing \/ n = ScParts \/ scstats.faults > 0
    BY DEF ScInv, RecordInv
  <2>2. n = ScParts \/ scstats.faults > 0
    BY <1>6, <2>1, CacheAssumption
  <2> QED BY <2>1, <2>2, SMTT(30)
<1>8. CacheFailsAfterFault'
  BY <1>1, <1>4, Zenon DEF ScInv, ReplaySound, CacheFailsAfterFault
<1>9. ReplayExact'
  <2> SUFFICES ASSUME scrun.failed = "no"
               PROVE  \E v \in 0 .. scversion : scrun.rows = {<<scrun.text, v, p>> : p \in 1 .. ScParts}
    BY <1>1, <1>4 DEF ReplayExact
  <2>1. CASE ~Replaying
    <3>1. Computing
      BY <1>1, <2>1 DEF Computing
    <3>2. scrun.rows = {<<scrun.text, scversion, p>> : p \in 1 .. scrun.next - 1} /\ scrun.next - 1 = ScParts
      BY <1>6, <3>1, CacheAssumption DEF ScInv, ComputeInv
    <3>3. scversion \in 0 .. scversion
      BY DEF ScInv, ScShapes
    <3> QED BY <3>2, <3>3
  <2>2. CASE Replaying
    <3>1. /\ sccache.present /\ ~scrun.drained /\ sccache.index \in 0 .. Len(sccache.batches)
          /\ scrun.rows = {sccache.batches[i] : i \in 1 .. sccache.index}
          /\ scrun.todo = (IF ScKind[scrun.text] = "parquet" THEN ScParts ELSE 1) - sccache.index
      BY <1>1, <2>2, SMTT(30) DEF ScInv, ReplayInv
    <3>2. PICK x \in ScQueries, v \in 0 .. scversion, n \in 0 .. ScParts :
                sccache.batches = Recorded(x, v, n) /\ x = scrun.text
      BY <1>1, <2>2, <3>1 DEF ScInv, RecordInv
    <3>3. ScKind[scrun.text] = "parquet" /\ scrun.todo = 0
      BY <1>1, <3>1, CacheAssumption, SMTT(30) DEF Exhausted, ScInv, ScShapes
    <3>4. Len(sccache.batches) = n /\ n \in Nat /\ \A i \in 1 .. n : sccache.batches[i] = <<x, v, i>>
      <4>1. n \in Nat
        BY CacheAssumption
      <4>2. PICK w : w = Recorded(x, v, n)
        OBVIOUS
      <4>3. Len(w) = n /\ \A i \in 1 .. n : w[i] = <<x, v, i>>
        BY <4>1, <4>2, RecordedFacts, ZenonT(30)
      <4> QED BY <3>2, <4>1, <4>2, <4>3
    <3>5. sccache.index = ScParts /\ n = ScParts
      BY <3>1, <3>3, <3>4, CacheAssumption
    <3>6. scrun.rows = {<<scrun.text, v, i>> : i \in 1 .. ScParts}
      <4>1. \A i \in 1 .. ScParts : sccache.batches[i] = <<scrun.text, v, i>>
        BY <3>2, <3>4, <3>5
      <4> QED BY <3>1, <3>5, <4>1, ZenonT(30)
    <3> QED BY <3>6
  <2> QED BY <2>1, <2>2
<1> QED BY <1>5, <1>7, <1>8, <1>9 DEF ScInv, ReplaySound

\* The start of a statement: the same text replays from the first batch, another text, or a
\* level that changed, starts with a new record.
LEMMA CachedQueryStartKeeps ==
  ASSUME ScInv, NEW q \in ScQueries, StartQuery_Sc(q)
  PROVE  ScInv'
<1>0. q # NoText
  BY CacheAssumption
<1>1. PICK cache : cache = AfterLevel(IF scset = "NONE" THEN sccache ELSE AfterText(q, sccache))
  OBVIOUS
<1>2. /\ scrun.done /\ UNCHANGED <<scset, scversion>> /\ sclevel' = scset
      /\ sctext' = IF scset # "NONE" /\ sclevel # "NONE" THEN q ELSE sctext
      /\ scset = "NONE" => sccache' = cache /\ scpreload' = scpreload
      /\ scset # "NONE" => /\ scpreload' = cache.present
                           /\ sccache' = IF cache.present THEN Rewound(cache) ELSE EmptyEntry
      /\ scrun' = [text |-> q, todo |-> IF ScKind[q] = "parquet" THEN ScParts ELSE 1,
                   next |-> 1, drained |-> FALSE, failed |-> "no", rows |-> {}, done |-> FALSE]
      /\ scstats' = [scstats EXCEPT !.runs = scstats.runs + 1]
  BY <1>1 DEF StartQuery_Sc
<1>3. /\ RunRecord(scrun') /\ scrun'.text = q /\ scrun'.todo = (IF ScKind[q] = "parquet" THEN ScParts ELSE 1)
      /\ scrun'.next = 1 /\ ~scrun'.drained /\ scrun'.failed = "no" /\ scrun'.rows = {} /\ ~scrun'.done
  BY <1>2 DEF RunRecord
<1>4. scstats' = [runs |-> scstats'.runs, faults |-> scstats'.faults] /\ scstats'.faults = scstats.faults
  BY <1>2 DEF ScInv, ScShapes
<1>5. /\ CacheRecord(NoCache) /\ ~NoCache.present
      /\ CacheRecord(EmptyEntry) /\ EmptyEntry.present /\ EmptyEntry.batches = <<>> /\ EmptyEntry.index = 0
  BY DEF CacheRecord, NoCache, EmptyEntry
<1>6. /\ CacheRecord(cache)
      /\ cache.present => cache = sccache /\ scset = sclevel /\ (scset = "NONE" \/ sctext = q)
  BY <1>1, <1>5 DEF AfterLevel, AfterText, ScInv, ScShapes
<1>7. /\ CacheRecord(Rewound(cache)) /\ Rewound(cache).batches = cache.batches /\ Rewound(cache).index = 0
      /\ Rewound(cache).present <=> cache.present
  BY <1>6, SMTT(30) DEF CacheRecord, Rewound
<1>8. /\ CacheRecord(sccache')
      /\ scset = "NONE" => ~sccache'.present
      /\ scset # "NONE" => /\ sccache'.present /\ sccache'.index = 0
                           /\ IF cache.present THEN sccache'.batches = sccache.batches
                              ELSE sccache'.batches = <<>>
  <2>1. CASE scset = "NONE"
    BY <1>2, <1>6, <2>1 DEF ScInv, LevelInv
  <2>2. CASE scset # "NONE" /\ cache.present
    BY <1>2, <1>6, <1>7, <2>2
  <2>3. CASE scset # "NONE" /\ ~cache.present
    BY <1>2, <1>5, <2>3
  <2> QED BY <2>1, <2>2, <2>3
<1>9. /\ Replaying' <=> (scset # "NONE" /\ cache.present)
      /\ Computing' <=> ~(scset # "NONE" /\ cache.present)
  <2>1. CASE scset = "NONE"
    BY <1>2, <1>3, <2>1 DEF Replaying, Computing
  <2>2. CASE scset # "NONE"
    BY <1>2, <1>3, <2>2 DEF Replaying, Computing
  <2> QED BY <2>1, <2>2
<1>10. ScShapes'
  BY <1>2, <1>3, <1>4, <1>8 DEF ScInv, ScShapes
<1>11. LevelInv'
  BY <1>2, <1>8 DEF ScInv, LevelInv
<1>12. RecordInv'
  <2> SUFFICES ASSUME sccache'.present
               PROVE  \E t \in ScQueries, v \in 0 .. scversion, n \in 0 .. ScParts :
                        /\ sccache'.batches = Recorded(t, v, n) /\ sctext' \in {t, NoText}
                        /\ Replaying' => t = q
                        /\ Computing' => t = q /\ v = scversion /\ n = 0
                        /\ Computing' \/ n = ScParts \/ scstats.faults > 0
    BY <1>2, <1>3, <1>4 DEF RecordInv
  <2>1. scset # "NONE"
    BY <1>8, SMTT(30)
  <2>2. CASE cache.present
    <3>1. Replaying' /\ ~Computing' /\ sctext = q /\ sctext' = q /\ sccache.present
      BY <1>2, <1>6, <1>9, <2>1, <2>2
    <3>2. PICK t \in ScQueries, v \in 0 .. scversion, n \in 0 .. ScParts :
                /\ sccache.batches = Recorded(t, v, n) /\ sctext \in {t, NoText}
                /\ n = ScParts \/ scstats.faults > 0
      BY <1>2, <3>1 DEF ScInv, RecordInv, Computing
    <3> QED BY <1>0, <1>8, <2>1, <2>2, <3>1, <3>2, Zenon
  <2>3. CASE ~cache.present
    <3>1. Computing' /\ ~Replaying' /\ sccache'.batches = Recorded(q, scversion, 0)
      BY <1>8, <1>9, <2>1, <2>3 DEF Recorded
    <3>2. sctext' \in {q, NoText}
      BY <1>2, <2>1 DEF ScInv, LevelInv
    <3>3. scversion \in 0 .. scversion /\ 0 \in 0 .. ScParts
      BY CacheAssumption DEF ScInv, ScShapes
    <3> QED BY <3>1, <3>2, <3>3, SMTT(30)
  <2> QED BY <2>2, <2>3
<1>13. ComputeInv'
  <2> SUFFICES ASSUME Computing'
               PROVE  /\ 1 \in 1 .. ScParts + 1
                      /\ sclevel' # "NONE" => sccache'.present
                      /\ {} = {<<q, scversion, p>> : p \in 1 .. 0}
                      /\ IF ScKind[q] = "parquet" THEN ScParts = ScParts - 0 ELSE 1 <= ScParts
    BY <1>2, <1>3 DEF ComputeInv
  <2> QED BY <1>2, <1>8, CacheAssumption
<1>14. ReplayInv'
  <2> SUFFICES ASSUME Replaying'
               PROVE  /\ sccache'.present /\ sccache'.index \in 0 .. Len(sccache'.batches)
                      /\ {} = {sccache'.batches[i] : i \in 1 .. sccache'.index}
                      /\ (IF ScKind[q] = "parquet" THEN ScParts ELSE 1)
                          = (IF ScKind[q] = "parquet" THEN ScParts ELSE 1) - sccache'.index
    BY <1>3, Zenon DEF ReplayInv
  <2>1. sccache'.present /\ sccache'.index = 0
    BY <1>8, <1>9
  <2>2. PICK t \in ScQueries, v \in 0 .. scversion', n \in 0 .. ScParts : sccache'.batches = Recorded(t, v, n)
    BY <1>12, <2>1 DEF RecordInv
  <2>3. Len(sccache'.batches) \in Nat
    BY <2>2, CacheAssumption, RecordedFacts
  <2> QED BY <2>1, <2>3, CacheAssumption, SMTT(30)
<1>15. ReplaySound'
  BY <1>3 DEF ReplaySound, ReplayExact, CacheFailsAfterFault
<1> QED BY <1>10, <1>11, <1>12, <1>13, <1>14, <1>15 DEF ScInv

\* A task that takes its batch from the cache advances the index by one.
LEMMA ReplayStepKeeps ==
  ASSUME ScInv, RunScanTask, Replaying
  PROVE  ScInv'
<1>1. /\ ~scrun.done /\ scrun.failed = "no" /\ scrun.todo > 0
      /\ UNCHANGED <<sctext, sclevel, scset, scpreload, scversion, scstats>>
      /\ Replaying' /\ ~Computing' /\ ~Computing
  BY ZenonT(30) DEF RunScanTask, Replaying, Computing
<1>2. /\ sccache.present /\ ~scrun.drained /\ sccache.index \in 0 .. Len(sccache.batches)
      /\ scrun.rows = {sccache.batches[i] : i \in 1 .. sccache.index}
      /\ scrun.todo = (IF ScKind[scrun.text] = "parquet" THEN ScParts ELSE 1) - sccache.index
  BY <1>1, Zenon DEF ScInv, ReplayInv
<1>3. PICK t \in ScQueries, v \in 0 .. scversion, n \in 0 .. ScParts :
            /\ sccache.batches = Recorded(t, v, n) /\ sctext \in {t, NoText} /\ t = scrun.text
            /\ n = ScParts \/ scstats.faults > 0
  BY <1>1, <1>2 DEF ScInv, RecordInv
<1>4. Len(sccache.batches) = n /\ n \in Nat
  <2>1. n \in Nat
    BY CacheAssumption
  <2>2. Len(Recorded(t, v, n)) = n
    BY <2>1, RecordedFacts, Zenon
  <2> QED BY <1>3, <2>1, <2>2
<1>5. PICK c, r : c = sccache /\ r = scrun
  OBVIOUS
<1>6. CacheRecord(c) /\ RunRecord(r) /\ scrun.text \in ScQueries
  BY <1>1, <1>5 DEF ScInv, ScShapes
<1>7. CASE sccache.index >= Len(sccache.batches)
  <2>1. scrun' = [r EXCEPT !.failed = "not cached"] /\ sccache' = sccache
    BY <1>5, <1>7, Zenon DEF RunScanTask, Replaying
  <2>2. RunRecord(scrun') /\ scrun'.failed = "not cached" /\ scrun'.text = scrun.text /\ (scrun'.done <=> scrun.done)
    BY <1>5, <1>6, <2>1, Zenon DEF RunRecord
  <2>3. n # ScParts
    <3>1. PICK i, k, todo : i = sccache.index /\ k = Len(sccache.batches) /\ todo = scrun.todo
      BY Zenon
    <3>2. i \in 0 .. k /\ i >= k /\ k = n /\ todo > 0
      BY <1>1, <1>2, <1>4, <1>7, <3>1, SMTT(30)
    <3>3. i = n
      BY <1>4, <3>2, SMTT(30)
    <3>4. ScKind[scrun.text] = "parquet" => todo = ScParts - i
      BY <1>2, <3>1, SMTT(30)
    <3>5. ScKind[scrun.text] # "parquet" => todo = 1 - i
      BY <1>2, <3>1
    <3>6. ScParts \in Nat \ {0}
      BY CacheAssumption
    <3> QED BY <1>4, <3>2, <3>3, <3>4, <3>5, <3>6
  <2>4. scstats.faults > 0
    BY <1>3, <2>3
  <2>5. ScShapes' /\ LevelInv'
    BY <1>1, <1>6, <2>1, <2>2, Zenon DEF ScInv, ScShapes, LevelInv
  <2>6. RecordInv'
    BY <1>1, <1>3, <2>1, <2>2, <2>4, ZenonT(30) DEF RecordInv
  <2>7. ComputeInv' /\ ReplayInv' /\ ReplaySound'
    BY <1>1, <2>2, <2>4, Zenon DEF ComputeInv, ReplayInv, ReplaySound, ReplayExact, CacheFailsAfterFault
  <2> QED BY <2>5, <2>6, <2>7 DEF ScInv
<1>8. CASE ~(sccache.index >= Len(sccache.batches))
  <2>1. PICK seen, left, k : /\ seen = scrun.rows \cup {sccache.batches[sccache.index + 1]}
                             /\ left = scrun.todo - 1 /\ k = sccache.index + 1
    BY Zenon
  <2>2. scrun' = [r EXCEPT !.rows = seen, !.todo = left] /\ sccache' = [c EXCEPT !.index = k]
    BY <1>5, <1>8, <2>1 DEF RunScanTask, Replaying
  <2>3. /\ RunRecord(scrun') /\ scrun'.failed = "no" /\ scrun'.text = scrun.text /\ ~scrun'.done /\ ~scrun'.drained
        /\ scrun'.rows = seen /\ scrun'.todo = left
    BY <1>1, <1>2, <1>5, <1>6, <2>2, ZenonT(30) DEF RunRecord
  <2>4. CacheRecord(sccache') /\ sccache'.present /\ sccache'.batches = sccache.batches /\ sccache'.index = k
    BY <1>2, <1>5, <1>6, <2>2 DEF CacheRecord
  <2>5. ScShapes' /\ LevelInv'
    BY <1>1, <1>2, <1>6, <2>3, <2>4, ZenonT(30) DEF ScInv, ScShapes, LevelInv
  <2>6. RecordInv'
    BY <1>1, <1>3, <2>3, <2>4, Zenon DEF RecordInv
  <2>7. k \in 0 .. Len(sccache.batches) /\ seen = {sccache.batches[i] : i \in 1 .. k}
    <3>1. k \in 0 .. n /\ 1 .. k = (1 .. sccache.index) \cup {k}
      BY <1>2, <1>4, <1>8, <2>1
    <3> QED BY <1>2, <1>4, <2>1, <3>1, SMTT(30)
  <2>8. left = (IF ScKind[scrun.text] = "parquet" THEN ScParts ELSE 1) - k
    BY <1>2, <1>4, <2>1, CacheAssumption, SMTT(30)
  <2>9. ReplayInv'
    <3> SUFFICES /\ sccache'.present /\ ~scrun'.drained /\ sccache'.index \in 0 .. Len(sccache'.batches)
                 /\ scrun'.rows = {sccache'.batches[i] : i \in 1 .. sccache'.index}
                 /\ scrun'.todo = (IF ScKind[scrun'.text] = "parquet" THEN ScParts ELSE 1) - sccache'.index
      BY ZenonT(30) DEF ReplayInv
    <3> QED BY <2>3, <2>4, <2>7, <2>8, SMTT(30)
  <2>10. ComputeInv' /\ ReplaySound'
    BY <1>1, <2>3, Zenon DEF ComputeInv, ReplaySound, ReplayExact, CacheFailsAfterFault
  <2> QED BY <2>5, <2>6, <2>9, <2>10, SMTT(30) DEF ScInv
<1> QED BY <1>7, <1>8

\* A task that reads its partition records it.
LEMMA ComputeStepKeeps ==
  ASSUME ScInv, RunScanTask, ~Replaying
  PROVE  ScInv'
<1>1. /\ ~scrun.done /\ scrun.failed = "no" /\ scrun.todo > 0 /\ Computing /\ ~Replaying'
      /\ UNCHANGED <<sctext, sclevel, scset, scpreload, scversion, scstats>>
      /\ scrun' = Compute(scrun)
      /\ sccache' = IF sclevel = "NONE" THEN sccache
                    ELSE [sccache EXCEPT !.batches = Append(sccache.batches, <<scrun.text, scversion, scrun.next>>)]
  BY Zenon DEF RunScanTask, Replaying, Computing
<1>2. /\ scrun.next \in 1 .. ScParts + 1
      /\ sclevel # "NONE" => sccache.present
      /\ scrun.rows = {<<scrun.text, scversion, p>> : p \in 1 .. scrun.next - 1}
      /\ IF ScKind[scrun.text] = "parquet"
         THEN scrun.todo = ScParts - (scrun.next - 1)
         ELSE \/ scrun.todo = 1 /\ scrun.next <= ScParts /\ ~scrun.drained
              \/ scrun.todo = 0 /\ scrun.next = ScParts + 1
  BY <1>1 DEF ScInv, ComputeInv
<1>3. scrun.text \in ScQueries /\ ScKind[scrun.text] \in {"parquet", "duckdb"} /\ scrun.next \in 1 .. ScParts
  BY <1>1, <1>2, CacheAssumption DEF ScInv, ScShapes
<1>4. PICK r, seen, nxt, left, dry :
        /\ r = scrun /\ seen = r.rows \cup {<<r.text, scversion, r.next>>} /\ nxt = r.next + 1
        /\ left = IF ScKind[r.text] = "duckdb" /\ r.next < ScParts THEN r.todo ELSE r.todo - 1
        /\ dry = (ScKind[r.text] = "duckdb" /\ r.next >= ScParts)
  BY Zenon
<1>5. scrun' = [r EXCEPT !.rows = seen, !.next = nxt, !.todo = left, !.drained = dry] /\ RunRecord(r)
  BY <1>1, <1>4 DEF Compute, ScInv, ScShapes
<1>6. /\ RunRecord(scrun') /\ scrun'.failed = "no" /\ scrun'.text = scrun.text /\ ~scrun'.done
      /\ scrun'.rows = seen /\ scrun'.todo = left /\ scrun'.next = nxt /\ (scrun'.drained <=> dry)
  BY <1>1, <1>4, <1>5, Zenon DEF RunRecord
<1>7. Computing'
  BY <1>1, <1>6 DEF Computing
<1>8. /\ CacheRecord(sccache') /\ (sccache'.present <=> sccache.present)
      /\ sclevel # "NONE" => sccache'.batches = Append(sccache.batches, <<scrun.text, scversion, scrun.next>>)
  <2>1. PICK c, b : c = sccache /\ b = Append(sccache.batches, <<scrun.text, scversion, scrun.next>>)
    BY Zenon
  <2>2. CacheRecord(c) /\ (sccache' = IF sclevel = "NONE" THEN c ELSE [c EXCEPT !.batches = b])
    BY <1>1, <2>1 DEF ScInv, ScShapes
  <2> QED BY <2>1, <2>2, Zenon DEF CacheRecord
<1>9. ScShapes' /\ LevelInv'
  BY <1>1, <1>3, <1>6, <1>8, SMTT(30) DEF ScInv, ScShapes, LevelInv
<1>10. RecordInv'
  <2> SUFFICES ASSUME sccache.present
               PROVE  \E t \in ScQueries, v \in 0 .. scversion, n \in 0 .. ScParts :
                        /\ sccache'.batches = Recorded(t, v, n) /\ sctext \in {t, NoText}
                        /\ t = scrun.text /\ v = scversion /\ n = nxt - 1
    BY <1>1, <1>6, <1>7, <1>8 DEF RecordInv
  <2>1. PICK t \in ScQueries, v \in 0 .. scversion, n \in 0 .. ScParts :
              /\ sccache.batches = Recorded(t, v, n) /\ sctext \in {t, NoText}
              /\ t = scrun.text /\ v = scversion /\ n = scrun.next - 1
    BY <1>1, SMTT(30) DEF ScInv, RecordInv
  <2>2. n \in Nat /\ n + 1 = scrun.next /\ n + 1 = nxt - 1 /\ n + 1 \in 0 .. ScParts
    BY <1>3, <1>4, <2>1, CacheAssumption
  <2>3. sclevel # "NONE"
    BY SMTT(30) DEF ScInv, LevelInv
  <2>4. sccache'.batches = Recorded(t, v, n + 1)
    <3>1. Append(Recorded(t, v, n), <<t, v, n + 1>>) = Recorded(t, v, n + 1)
      BY <2>2, RecordedFacts, Zenon
    <3> QED BY <1>8, <2>1, <2>2, <2>3, <3>1, ZenonT(30)
  <2> QED BY <2>1, <2>2, <2>4
<1>11. ComputeInv'
  <2>1. seen = {<<scrun.text, scversion, p>> : p \in 1 .. nxt - 1}
    <3>1. 1 .. nxt - 1 = (1 .. scrun.next - 1) \cup {scrun.next}
      BY <1>3, <1>4, CacheAssumption, SMTT(30)
    <3> QED BY <1>2, <1>4, <3>1, SMTT(30)
  <2>2. nxt \in 1 .. ScParts + 1
    BY <1>3, <1>4, CacheAssumption, SMTT(30)
  <2>3. IF ScKind[scrun.text] = "parquet"
        THEN left = ScParts - (nxt - 1)
        ELSE \/ left = 1 /\ nxt <= ScParts /\ ~dry
             \/ left = 0 /\ nxt = ScParts + 1
    <3>1. CASE ScKind[scrun.text] = "parquet"
      BY <1>2, <1>3, <1>4, <3>1, CacheAssumption, SMTT(30)
    <3>2. CASE ScKind[scrun.text] = "duckdb" /\ scrun.next < ScParts
      <4>1. ~(r.next >= ScParts)
        BY <1>3, <1>4, <3>2, CacheAssumption, SMTT(30)
      <4>2. ~dry
        BY <1>4, <4>1, Zenon
      <4> QED BY <1>2, <1>3, <1>4, <3>2, <4>2, CacheAssumption, SMTT(30)
    <3>3. CASE ScKind[scrun.text] = "duckdb" /\ scrun.next = ScParts
      BY <1>2, <1>3, <1>4, <3>3, CacheAssumption, SMTT(30)
    <3> QED BY <1>3, <3>1, <3>2, <3>3, CacheAssumption, SMTT(30)
  <2> SUFFICES /\ scrun'.next \in 1 .. ScParts + 1
               /\ sclevel' # "NONE" => sccache'.present
               /\ scrun'.rows = {<<scrun'.text, scversion', p>> : p \in 1 .. scrun'.next - 1}
               /\ IF ScKind[scrun'.text] = "parquet"
                  THEN scrun'.todo = ScParts - (scrun'.next - 1)
                  ELSE \/ scrun'.todo = 1 /\ scrun'.next <= ScParts /\ ~scrun'.drained
                       \/ scrun'.todo = 0 /\ scrun'.next = ScParts + 1
    BY Zenon DEF ComputeInv
  <2> QED BY <1>1, <1>2, <1>6, <1>8, <2>1, <2>2, <2>3
<1>12. ReplayInv' /\ ReplaySound'
  BY <1>1, <1>6 DEF ReplayInv, ReplaySound, ReplayExact, CacheFailsAfterFault
<1> QED BY <1>9, <1>10, <1>11, <1>12 DEF ScInv

\* duckdb_scan_executor::prepare_for_query() and the cache it keeps: over any sequence of
\* statements, changes of the table, changes of the level and failures, a statement that
\* succeeds has seen each partition of its own scan once, all of one version, and a replay
\* runs out of batches only after an execution that failed. The hypothesis is that the
\* level is never set back to NONE in between: with it the theorem is false, as the README
\* shows.
THEOREM ReplaysAreSound ==
  ASSUME "NONE" \notin ScLevels
  PROVE  ScSpec => []ReplaySound
<1>1. ScInit => ScInv
  <2> SUFFICES ASSUME ScInit PROVE ScInv
    BY SMTT(30)
  <2>1. CacheRecord(sccache) /\ ~sccache.present
    BY ZenonT(30) DEF ScInit, NoCache, CacheRecord
  <2>2. RunRecord(scrun) /\ scrun.done /\ scrun.text = NoText /\ scrun.failed = "no"
    BY ZenonT(30) DEF ScInit, NotRunning, RunRecord
  <2> QED BY <2>1, <2>2, Zenon DEF ScInit, ScInv, ScShapes, LevelInv, RecordInv, ComputeInv, ReplayInv,
             Computing,
                            ReplaySound, ReplayExact, CacheFailsAfterFault
<1>2. ScInv /\ [ScNext]_scvars => ScInv'
  <2> SUFFICES ASSUME ScInv, [ScNext]_scvars PROVE ScInv'
    BY SMTT(30)
  <2>1. CASE UNCHANGED scvars
    <3>1. UNCHANGED <<sccache, sctext, sclevel, scset, scpreload, scrun, scversion, scstats>>
      BY <2>1, SMTT(30) DEF scvars
    <3>2. (Replaying' <=> Replaying) /\ (Computing' <=> Computing)
      BY <3>1, SMTT(30) DEF Replaying, Computing
    <3>3. ScShapes' /\ LevelInv' /\ RecordInv'
      BY <3>1, <3>2, ZenonT(30) DEF ScInv, ScShapes, LevelInv, RecordInv
    <3>4. ComputeInv' /\ ReplayInv'
      BY <3>1, <3>2, ZenonT(30) DEF ScInv, ComputeInv, ReplayInv
    <3>5. ReplaySound'
      <4>1. CacheFailsAfterFault'
        BY <3>1, ZenonT(30) DEF ScInv, ReplaySound, CacheFailsAfterFault
      <4>2. ReplayExact'
        <5>1. scrun' = scrun /\ scversion' = scversion
          BY <3>1, Zenon
        <5>2. ReplayExact
          BY Zenon DEF ScInv, ReplaySound
        <5> QED BY <5>1, <5>2, ZenonT(30) DEF ReplayExact
      <4> QED BY <4>1, <4>2, Zenon DEF ReplaySound
    <3> QED BY <3>3, <3>4, <3>5, SMTT(30) DEF ScInv
  <2>2. ASSUME NEW l \in ScLevels, SetLevel(l) PROVE ScInv'
    BY <2>2, SetLevelKeeps
  <2>3. CASE WriteTable
    BY <2>3, WriteTableKeeps
  <2>4. CASE RunScanTask
    BY <2>4, ReplayStepKeeps, ComputeStepKeeps
  <2>5. CASE EndQuery_Sc
    BY <2>5, CachedQueryEndKeeps
  <2>6. ASSUME NEW q \in ScQueries, StartQuery_Sc(q) PROVE ScInv'
    BY <2>6, CachedQueryStartKeeps, SMTT(30)
  <2>7. CASE ScanFault
    BY <2>7, ScanFaultKeeps
  <2> QED BY <2>1, <2>2, <2>3, <2>4, <2>5, <2>6, <2>7 DEF ScNext
<1>3. ScInv => ReplaySound
  BY DEF ScInv
<1> QED BY <1>1, <1>2, <1>3, PTL DEF ScSpec

=============================================================================
