--------------------------- MODULE QueryLifecycle ---------------------------
(***************************************************************************)
(* The life of a statement in SiriusContext, which every connection of the *)
(* database shares: the QueryBegin and QueryEnd callbacks and the slot     *)
(* they hold, the optimizer hooks that capture the plan and switch         *)
(* optimizers off for the whole database, OnFinalizePrepare, the operator  *)
(* that runs the rebound plan, and the gpu_execution table function with   *)
(* its fallback on a second connection (sirius_context.cpp, transparent/   *)
(* and sirius_extension.cpp).                                              *)
(*                                                                         *)
(* DuckDB is external: it calls QueryBegin, the two optimizer hooks,       *)
(* OnFinalizePrepare, the source operator and QueryEnd in that order, and  *)
(* a plain Prepare() without QueryBegin and QueryEnd.  Its configuration   *)
(* (disabled_optimizers) belongs to the database, not to a connection.     *)
(***************************************************************************)
EXTENDS Integers, Sequences

CONSTANTS LcConns,        \* the connections of the database
          LcWorkloads,    \* functions from connections to the kinds of statements they issue
          MaxStatements   \* how many statements a connection issues

VARIABLES slot,       \* the connection that holds query_lifecycle_mutex_
          internal,   \* _internal_query_depth
          captured,   \* captured_logical_plan_, as a sequence of at most one plan
          original,   \* transparent_original_disabled_optimizers_, at most one set
          disabled,   \* DBConfig disabled_optimizers beyond the user's own
          engine,     \* whose query is query_ and fills the repositories
          conn,       \* what every connection is doing
          workload    \* the workload chosen, none before the database is opened

lcvars == <<slot, internal, captured, original, disabled, engine, conn, workload>>

NoConn == "none"

ASSUME LifecycleAssumption == NoConn \notin LcConns

(***************************************************************************)
(* The statements a connection issues:                                     *)
(*   cpu          gpu_execution is off                                     *)
(*   other        gpu_execution is on, the statement is no SELECT          *)
(*   select       its plan can be copied and planned for the GPU           *)
(*   unsupported  create_plan throws                                       *)
(*   iceberg      its plan cannot be copied; the engine reads delete files *)
(*                over a connection of its own                             *)
(*   function     gpu_execution('...'), which may fail on the GPU          *)
(*   aborted      the optimizer throws between the two hooks               *)
(*   prepare      a plain Prepare(), outside any query                     *)
(*   execute      runs what the last prepare left                          *)
(***************************************************************************)
Transparent(k) == k # "cpu"
Rebindable(k) == k \notin {"cpu", "other"}
InCycle(k) == k # "prepare"
Copyable(k) == k # "iceberg"

PlanOf(c) == [conn |-> c, number |-> conn[c].number, inner |-> FALSE]
InnerPlanOf(c) == [PlanOf(c) EXCEPT !.inner = TRUE]

Resting == [at |-> "idle", kind |-> "cpu", number |-> 0, saved |-> {}, plan |-> <<>>,
            copied |-> FALSE, ran |-> <<>>, prepared |-> <<>>]

LcInit ==
    /\ slot = NoConn
    /\ internal = 0
    /\ captured = <<>>
    /\ original = <<>>
    /\ disabled = {}
    /\ engine = NoConn
    /\ conn = [c \in LcConns |-> Resting]
    /\ workload = <<>>

\* SiriusContextExtensionCallback gives every connection the one context
OpenDatabase ==
    /\ workload = <<>>
    /\ \E w \in LcWorkloads : workload' = <<w>>
    /\ UNCHANGED <<slot, internal, captured, original, disabled, engine, conn>>

Go(c, stage) == conn' = [conn EXCEPT ![c].at = stage]

Issue(c) ==
    /\ workload # <<>>
    /\ conn[c].at = "idle"
    /\ conn[c].number < MaxStatements
    /\ \E k \in workload[1][c] :
          /\ k = "execute" => conn[c].prepared # <<>>
          /\ conn' = [conn EXCEPT ![c].kind = k, ![c].number = @ + 1, ![c].plan = <<>>,
                                  ![c].copied = FALSE, ![c].ran = <<>>,
                                  ![c].at = IF InCycle(k) THEN "begin" ELSE "pre"]
    /\ UNCHANGED <<slot, internal, captured, original, disabled, engine, workload>>

is_internal_query_active == internal > 0

AfterBegin(c) ==
    CASE conn[c].kind = "function" -> "bind"
      [] conn[c].kind = "execute" -> "execute"
      [] OTHER -> "pre"

\* acquire_query_lifecycle_slot waits for the mutex
SlotFree == slot = NoConn

QueryBegin(c) ==
    /\ conn[c].at = "begin"
    /\ Go(c, AfterBegin(c))
    /\ IF is_internal_query_active
       THEN UNCHANGED <<slot, captured>>
       ELSE /\ SlotFree
            /\ slot' = c
            /\ captured' = <<>>
    /\ UNCHANGED <<internal, original, disabled, engine, workload>>

(***************************************************************************)
(* gpu_execution: the bind callback plans the inner query itself, between  *)
(* PrepareConnection and CleanupConnection.                                *)
(***************************************************************************)
PrepareConnection(c) ==
    /\ conn[c].at = "bind"
    /\ conn' = [conn EXCEPT ![c].at = "inner_pre", ![c].saved = disabled]
    /\ disabled' = disabled \cup {"bind"}
    /\ UNCHANGED <<slot, internal, captured, original, engine, workload>>

CleanupConnection(c) ==
    /\ conn[c].at = "cleanup"
    /\ Go(c, "pre")
    /\ disabled' = conn[c].saved
    /\ UNCHANGED <<slot, internal, captured, original, engine, workload>>

(***************************************************************************)
(* sirius_pre_optimizer_hook and sirius_optimizer_hook.                    *)
(***************************************************************************)
sirius_pre_optimizer_hook(c) ==
    /\ conn[c].at \in {"pre", "inner_pre"}
    /\ Go(c, IF conn[c].at = "pre" THEN "post" ELSE "inner_post")
    /\ IF ~Transparent(conn[c].kind) \/ is_internal_query_active
       THEN UNCHANGED <<original, disabled>>
       ELSE /\ original' = <<disabled>>
            /\ disabled' = disabled \cup {"hook"}
    /\ UNCHANGED <<slot, internal, captured, engine, workload>>

\* restore_transparent_disabled_optimizers
Restored == IF original = <<>> THEN disabled ELSE original[1]

\* the optimizer throws: sirius_optimizer_hook is not called
OptimizerThrows(c) ==
    /\ conn[c].at = "post" /\ conn[c].kind = "aborted"
    /\ Go(c, "end")
    /\ UNCHANGED <<slot, internal, captured, original, disabled, engine, workload>>

sirius_optimizer_hook(c) ==
    /\ conn[c].at \in {"post", "inner_post"} /\ conn[c].kind # "aborted"
    /\ LET inner == conn[c].at = "inner_post"
           plan == IF inner THEN InnerPlanOf(c) ELSE PlanOf(c)
       IN /\ Go(c, IF inner THEN "cleanup" ELSE "finalize")
          /\ IF ~Transparent(conn[c].kind) \/ is_internal_query_active
             THEN UNCHANGED <<original, disabled, captured>>
             ELSE /\ disabled' = Restored
                  /\ original' = <<>>
                  /\ captured' = IF Copyable(conn[c].kind) THEN <<plan>> ELSE captured
    /\ UNCHANGED <<slot, internal, engine, workload>>

(***************************************************************************)
(* OnFinalizePrepare: take the captured plan, or plan the SQL text again   *)
(* under an InternalQueryGuard; try create_plan; replace the physical plan.*)
(***************************************************************************)
AfterPrepare(c) == IF InCycle(conn[c].kind) THEN "execute" ELSE "idle"

FinalizePrepare(c) ==
    /\ conn[c].at = "finalize"
    /\ LET k == conn[c].kind
           sql == InCycle(k)                    \* GetCurrentQuery() throws outside a query
       IN CASE is_internal_query_active ->
                 /\ Go(c, AfterPrepare(c))
                 /\ UNCHANGED <<captured, internal>>
            [] ~is_internal_query_active /\ ~Rebindable(k) ->
                 /\ Go(c, AfterPrepare(c))
                 /\ captured' = <<>>
                 /\ UNCHANGED internal
            [] ~is_internal_query_active /\ Rebindable(k) /\ captured # <<>> ->
                 /\ conn' = [conn EXCEPT ![c].at = "validate", ![c].plan = captured,
                                         ![c].copied = TRUE]
                 /\ captured' = <<>>
                 /\ UNCHANGED internal
            [] OTHER ->
                 /\ Go(c, IF sql THEN "replan" ELSE AfterPrepare(c))
                 /\ internal' = IF sql THEN internal + 1 ELSE internal
                 /\ UNCHANGED captured
    /\ UNCHANGED <<slot, original, disabled, engine, workload>>

\* the guarded second planning, which may throw and leave the plan to the CPU
Replan(c) ==
    /\ conn[c].at = "replan"
    /\ internal' = internal - 1
    /\ \/ conn' = [conn EXCEPT ![c].at = "validate", ![c].plan = <<PlanOf(c)>>]
       \/ Go(c, AfterPrepare(c))
    /\ UNCHANGED <<slot, captured, original, disabled, engine, workload>>

Validate(c) ==
    /\ conn[c].at = "validate"
    /\ LET rebound == IF conn[c].kind = "unsupported" THEN <<>> ELSE conn[c].plan
       IN conn' = [conn EXCEPT ![c].at = AfterPrepare(c), ![c].plan = rebound,
                               ![c].prepared = IF conn[c].kind = "prepare" THEN rebound ELSE @]
    /\ UNCHANGED <<slot, internal, captured, original, disabled, engine, workload>>

(***************************************************************************)
(* Execution.  Without a rebound plan DuckDB's own plan runs; gpu_execution*)
(* runs the plan its bind made.  A plan that cannot be copied is planned   *)
(* again from its SQL text, under a guard.                                 *)
(***************************************************************************)
Execute(c) ==
    /\ conn[c].at = "execute"
    /\ LET k == conn[c].kind
           plan == IF k = "execute" THEN conn[c].prepared ELSE conn[c].plan
       IN CASE k = "function" ->
                 /\ \/ /\ conn' = [conn EXCEPT ![c].at = "running",
                                               ![c].ran = <<InnerPlanOf(c)>>]
                       /\ engine' = c
                    \/ /\ Go(c, "fallback")     \* plan_error: its bind found no plan
                       /\ UNCHANGED engine
                 /\ UNCHANGED internal
            [] k # "function" /\ plan = <<>> ->
                 /\ Go(c, "end")
                 /\ UNCHANGED <<engine, internal>>
            [] k = "iceberg" /\ plan # <<>> ->
                 /\ Go(c, "replan_run")
                 /\ internal' = internal + 1
                 /\ UNCHANGED engine
            [] OTHER ->
                 /\ conn' = [conn EXCEPT ![c].at = "running", ![c].ran = plan]
                 /\ engine' = c
                 /\ UNCHANGED internal
    /\ UNCHANGED <<slot, captured, original, disabled, workload>>

ReplanForRun(c) ==
    /\ conn[c].at = "replan_run"
    /\ internal' = internal - 1
    /\ conn' = [conn EXCEPT ![c].at = "prefetch", ![c].ran = <<PlanOf(c)>>]
    /\ UNCHANGED <<slot, captured, original, disabled, engine, workload>>

(***************************************************************************)
(* A connection opened while the statement runs: the engine reads iceberg  *)
(* delete files, gpu_execution repeats a failed query on the CPU.  The     *)
(* guard must keep the callbacks of that connection away from the state of *)
(* the outer query.                                                        *)
(***************************************************************************)
InternalConnection(c, from) ==
    /\ conn[c].at = from
    /\ Go(c, IF from = "prefetch" THEN "prefetch_begin" ELSE "fallback_begin")
    /\ internal' = internal + 1
    /\ UNCHANGED <<slot, captured, original, disabled, engine, workload>>

InternalBegin(c) ==
    /\ conn[c].at \in {"prefetch_begin", "fallback_begin"}
    /\ Go(c, IF conn[c].at = "prefetch_begin" THEN "prefetch_end" ELSE "fallback_end")
    /\ IF is_internal_query_active
       THEN UNCHANGED slot
       ELSE SlotFree /\ slot' = c
    /\ UNCHANGED <<internal, captured, original, disabled, engine, workload>>

InternalEnd(c) ==
    /\ conn[c].at \in {"prefetch_end", "fallback_end"}
    /\ internal' = internal - 1
    /\ slot' = IF is_internal_query_active THEN slot ELSE NoConn
    /\ IF conn[c].at = "prefetch_end"
       THEN /\ Go(c, "running")
            /\ engine' = c
       ELSE /\ Go(c, "end")
            /\ UNCHANGED engine
    /\ UNCHANGED <<captured, original, disabled, workload>>

\* the engine is done with the query: the result is materialized, or it failed
Ran(c) ==
    /\ conn[c].at = "running"
    /\ \/ Go(c, "end")
       \/ conn[c].kind = "function" /\ Go(c, "fallback")
    /\ UNCHANGED <<slot, internal, captured, original, disabled, engine, workload>>

EndRestores_Not == disabled
EndRestores == Restored

\* QueryEnd restores the optimizers, drops the query and releases the slot
QueryEnd(c) ==
    /\ conn[c].at = "end"
    /\ Go(c, "idle")
    /\ IF is_internal_query_active \/ ~InCycle(conn[c].kind)
       THEN UNCHANGED <<slot, captured, original, disabled, engine>>
       ELSE /\ disabled' = EndRestores
            /\ original' = <<>>
            /\ captured' = <<>>
            /\ engine' = NoConn
            /\ slot' = NoConn
    /\ UNCHANGED <<internal, workload>>

Statement(c) ==
    \/ QueryBegin(c) \/ PrepareConnection(c) \/ CleanupConnection(c)
    \/ sirius_pre_optimizer_hook(c) \/ OptimizerThrows(c) \/ sirius_optimizer_hook(c)
    \/ FinalizePrepare(c) \/ Replan(c) \/ Validate(c)
    \/ Execute(c) \/ ReplanForRun(c)
    \/ InternalConnection(c, "prefetch") \/ InternalConnection(c, "fallback")
    \/ InternalBegin(c) \/ InternalEnd(c) \/ Ran(c) \/ QueryEnd(c)

LcNext == OpenDatabase \/ \E c \in LcConns : Issue(c) \/ Statement(c)

LcSpec == LcInit /\ [][LcNext]_lcvars

\* a connection's thread keeps running its statement
LcFairness == \A c \in LcConns : WF_lcvars(Statement(c))
LcFairSpec == LcSpec /\ LcFairness

InQuery(c) == conn[c].at \notin {"idle", "begin"} /\ InCycle(conn[c].kind)

(***************************************************************************)
(* Between its QueryBegin and its QueryEnd a statement holds the slot, and *)
(* while it runs the shared query and its repositories are its own: no     *)
(* other connection's callback took them away.                             *)
(***************************************************************************)
QueriesSerialized ==
    \A c \in LcConns :
       /\ InQuery(c) => slot = c
       /\ conn[c].at = "running" => engine = c

(***************************************************************************)
(* What a statement runs on the GPU is the plan of that statement: the plan*)
(* that passes from the optimizer hook to OnFinalizePrepare through the    *)
(* shared captured_logical_plan_ is never another statement's.             *)
(***************************************************************************)
RunsItsOwnPlan ==
    \A c \in LcConns :
       /\ conn[c].ran # <<>> /\ conn[c].kind # "execute" =>
             conn[c].ran[1].conn = c /\ conn[c].ran[1].number = conn[c].number
       /\ conn[c].prepared # <<>> => conn[c].prepared[1].conn = c
       /\ conn[c].plan # <<>> => ~conn[c].plan[1].inner

(***************************************************************************)
(* When no statement is under way the database's disabled optimizers are   *)
(* the user's own, the slot is free and no plan or guard is left behind:   *)
(* every path through the hooks, gpu_execution's bind and their errors     *)
(* undoes what it did.                                                     *)
(***************************************************************************)
NothingLeftBehind ==
    (\A c \in LcConns : conn[c].at = "idle")
       => slot = NoConn /\ disabled = {} /\ internal = 0 /\ original = <<>>

(***************************************************************************)
(* Every statement issued ends: no connection waits for ever for the slot, *)
(* and the query that gpu_execution repeats on a second connection does    *)
(* not wait for the slot its own statement holds.                          *)
(***************************************************************************)
StatementsEnd == \A c \in LcConns : (conn[c].at = "begin") ~> (conn[c].at = "idle")

\* Statements of several connections: at most one uses the engine, each runs the plan
\* it prepared, and none leaves state behind for the next.
StatementsIsolated ==
    /\ QueriesSerialized
    /\ RunsItsOwnPlan
    /\ NothingLeftBehind

=============================================================================
