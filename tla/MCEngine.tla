------------------------------ MODULE MCEngine ------------------------------
(***************************************************************************)
(* The threads and the life of the engine.  The modules are views of it    *)
(* that share no state, so one run checks them side by side: the first     *)
(* step decides which of EngineParts the behaviour is about, and nothing   *)
(* else moves.                                                             *)
(***************************************************************************)
EXTENDS ScanSplits, ScanCache, CreatorLifecycle, TaskResume, Downgrade, QueryLifecycle,
        ContextStartup, DuckdbScan

CONSTANT EngineParts   \* the parts to check
VARIABLE enginepart    \* the part that moves, "none" before the first step

engineVars == <<enginepart, ssvars, scvars, clvars, rsvars, dgvars, lcvars, suvars, vars>>

EngineOnly(p, others) ==
    /\ p \in EngineParts /\ enginepart \in {"none", p}
    /\ enginepart' = p
    /\ UNCHANGED others

EngineInit ==
    /\ enginepart = "none"
    /\ SsInit /\ ScInit /\ ClInit /\ RsInit /\ DgInit /\ LcInit /\ SuInit /\ Init

EngineNext ==
    \/ EngineOnly("splits", <<scvars, clvars, rsvars, dgvars, lcvars, suvars, vars>>) /\ SsNext
    \/ EngineOnly("scan_cache", <<ssvars, clvars, rsvars, dgvars, lcvars, suvars, vars>>) /\ ScNext
    \/ EngineOnly("creator", <<ssvars, scvars, rsvars, dgvars, lcvars, suvars, vars>>) /\ ClNext
    \/ EngineOnly("resume", <<ssvars, scvars, clvars, dgvars, lcvars, suvars, vars>>) /\ RsNext
    \/ EngineOnly("downgrade", <<ssvars, scvars, clvars, rsvars, lcvars, suvars, vars>>) /\ DgNext
    \/ EngineOnly("lifecycle", <<ssvars, scvars, clvars, rsvars, dgvars, suvars, vars>>) /\ LcNext
    \/ EngineOnly("startup", <<ssvars, scvars, clvars, rsvars, dgvars, lcvars, vars>>) /\ SuNext
    \/ EngineOnly("duckdb_scan", <<ssvars, scvars, clvars, rsvars, dgvars, lcvars, suvars>>) /\ Next

EngineSpec == EngineInit /\ [][EngineNext]_engineVars

\* No fair action of a part is enabled before its first step.
EngineFairness == SsFairness /\ ClFairness /\ DgFairness /\ LcFairness /\ Fairness

EngineFairSpec == EngineSpec /\ EngineFairness

MCQueryScans == << <<1, 2>>, <<3>> >>

MCScKind == [q \in ScQueries |-> IF q = "q3" THEN "duckdb" ELSE "parquet"]

(* A downgrade executor with one batch in a repository and two queued tasks. *)

MCRepo == <<"r1">>
MCTaskBatches == [t1 |-> <<"b1">>, t2 |-> <<"b2">>]
MCSizes == [r1 |-> 1, b1 |-> 1, b2 |-> 2]
MCQueue == <<"t1", "t2">>

\* a task whose input is two batches
PairedBatches == [t1 |-> <<"b1">>, t2 |-> <<"b2", "b3">>]
PairedSizes == [r1 |-> 1, b1 |-> 1, b2 |-> 1, b3 |-> 1]

(* Instances of QueryLifecycle: one connection that issues every kind of   *)
(* statement, and two connections whose statements need no guard.          *)

Plain == {"cpu", "other", "select", "unsupported", "aborted"}

MCLcConns == {"a", "b"}

MCWorkloads ==
    { [c \in MCLcConns |-> IF c = "a" THEN Plain \cup {"iceberg", "function", "prepare", "execute"}
                                      ELSE {}],
      [c \in MCLcConns |-> Plain] }

\* a connection that opens internal connections next to one that does not
GuardedWorkloads == { [c \in MCLcConns |-> IF c = "a" THEN {"iceberg"} ELSE {"select"}] }

\* a connection that prepares next to one that queries
PreparingWorkloads == { [c \in MCLcConns |-> IF c = "a" THEN {"select"} ELSE {"prepare"}] }

(* ContextStartup over every combination of backends and caches. *)

MCStartConfigs == [datasource : BOOLEAN, s3 : {"none", "blocking", "async"}, gcs : BOOLEAN,
                   cache : {"none", "metadata", "full"}]

\* the constructions before cuDF's pinned resource is replaced
EarlySteps == {"telemetry", "memory", "numa", "gpu", "registry"}

\* an unknown grpc_bidi_reads throws
GcsStep == {"gcs"}

\* Scans over split providers end, statements end, and a DuckDB scan that was asked
\* for its first task finishes.
EngineEnds ==
    /\ ScansEnd
    /\ StatementsEnd
    /\ ScanFinishes

=============================================================================
