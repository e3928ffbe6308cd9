------------------------------ MODULE ScanCache ------------------------------
(***************************************************************************)
(* The scan executor's cache of scan results (op/scan/duckdb_scan_executor *)
(* .cpp): the first execution of a query records the batches of each scan, *)
(* a repetition of the same text replays them ("preload").  One scan       *)
(* pipeline per query; a parquet scan has one task per partition, a DuckDB *)
(* scan one task that creates its own continuation.                        *)
(***************************************************************************)
EXTENDS Integers, Sequences, FiniteSets

CONSTANTS ScQueries,     \* texts of SELECT statements
          ScKind,        \* [ScQueries -> {"parquet", "duckdb"}]
          ScParts,       \* partitions (batches) a scan yields
          ScLevels,      \* cache levels the setting takes
          MaxScRuns,     \* statements executed
          MaxScWrites,   \* changes of the scanned table
          MaxScFaults    \* scan tasks that throw

VARIABLES
  sccache,    \* "none" or [batches, index]: _cache, one scan per query
  sctext,     \* _query_hash: the text of the last cacheable statement
  sclevel,    \* _cache_level; scset: the setting in the configuration
  scset, scpreload,
  scrun,      \* the statement that runs: its text, tasks to do, drained, failed, rows
  scversion,  \* version of the table's contents
  scstats     \* [runs, faults]

scvars == <<sccache, sctext, sclevel, scset, scpreload, scrun, scversion, scstats>>

NoText == "none"

ASSUME CacheAssumption ==
  /\ NoText \notin ScQueries
  /\ ScParts \in Nat \ {0} /\ MaxScFaults \in Nat
  /\ ScKind \in [ScQueries -> {"parquet", "duckdb"}]
NoCache == [present |-> FALSE, batches |-> <<>>, index |-> 0]
EmptyEntry == [present |-> TRUE, batches |-> <<>>, index |-> 0]
NotRunning == [text |-> NoText, todo |-> 0, next |-> 0, drained |-> FALSE,
               failed |-> "no", rows |-> {}, done |-> TRUE]

ScInit ==
  /\ sccache = NoCache /\ sctext = NoText
  /\ sclevel = "NONE" /\ scset = "NONE" /\ scpreload = FALSE
  /\ scrun = NotRunning /\ scversion = 0
  /\ scstats = [runs |-> 0, faults |-> 0]

-----------------------------------------------------------------------------
\* SET scan_cache_level: the executor learns of it at the next statement.
SetLevel(l) ==
  /\ scrun.done /\ l # scset /\ scset' = l
  /\ UNCHANGED <<sccache, sctext, sclevel, scpreload, scrun, scversion, scstats>>

\* INSERT, UPDATE or DELETE: no cacheable text, and no scan of Sirius.
WriteTable ==
  /\ scrun.done /\ scversion < MaxScWrites
  /\ scversion' = scversion + 1
  /\ UNCHANGED <<sccache, sctext, sclevel, scset, scpreload, scrun, scstats>>

\* The cache after cache_scan_results_for_query(): a new text clears it.
AfterText_Kept(q, cache) == cache
AfterText(q, cache) == IF sclevel # "NONE" /\ sctext # q THEN NoCache ELSE cache

\* ... and after set_scan_caching_enabled(): a new level clears it.
AfterLevel(cache) == IF scset # sclevel THEN NoCache ELSE cache

\* prepare_cache_for_scan_operators(): record into empty entries, or replay.
Rewound(cache) == [cache EXCEPT !.index = 0]

StartQuery_Sc(q) ==
  LET cache == AfterLevel(IF scset = "NONE" THEN sccache ELSE AfterText(q, sccache))
      hit == cache.present
  IN /\ scrun.done /\ scstats.runs < MaxScRuns
     /\ sctext' = IF scset # "NONE" /\ sclevel # "NONE" THEN q ELSE sctext
     /\ sclevel' = scset
     /\ IF scset = "NONE"
        THEN sccache' = cache /\ UNCHANGED scpreload
        ELSE /\ scpreload' = hit
             /\ sccache' = IF hit THEN Rewound(cache) ELSE EmptyEntry
     /\ scrun' = [text |-> q, todo |-> IF ScKind[q] = "parquet" THEN ScParts ELSE 1,
                  next |-> 1, drained |-> FALSE, failed |-> "no", rows |-> {}, done |-> FALSE]
     /\ scstats' = [scstats EXCEPT !.runs = @ + 1]
     /\ UNCHANGED <<scset, scversion>>

\* compute_task(): the next partition; a DuckDB scan notices the end of its
\* source and until then schedules a task that goes on where it stopped.
Compute(run) ==
  [run EXCEPT !.rows = @ \cup {<<run.text, scversion, run.next>>}, !.next = @ + 1,
              !.todo = IF ScKind[run.text] = "duckdb" /\ run.next < ScParts THEN @ ELSE @ - 1,
              !.drained = ScKind[run.text] = "duckdb" /\ run.next >= ScParts]

\* get_scan_output() and publish_output() of one task, under _cache_mutex.
RunScanTask ==
  /\ ~scrun.done /\ scrun.failed = "no" /\ scrun.todo > 0
  /\ IF sclevel # "NONE" /\ scpreload
     THEN IF sccache.index >= Len(sccache.batches)
          THEN scrun' = [scrun EXCEPT !.failed = "not cached"] /\ UNCHANGED sccache
          ELSE /\ scrun' = [scrun EXCEPT !.rows = @ \cup {sccache.batches[sccache.index + 1]},
                                         !.todo = @ - 1]
               /\ sccache' = [sccache EXCEPT !.index = @ + 1]
     ELSE /\ scrun' = Compute(scrun)
          /\ sccache' = IF sclevel = "NONE" THEN sccache
                        ELSE [sccache EXCEPT !.batches = Append(@, <<scrun.text, scversion, scrun.next>>)]
  /\ UNCHANGED <<sctext, sclevel, scset, scpreload, scversion, scstats>>

\* A task throws while it reads, and the query fails; what was recorded stays.
ScanFault ==
  /\ ~scrun.done /\ scrun.failed = "no" /\ scrun.todo > 0 /\ scstats.faults < MaxScFaults
  /\ ~(sclevel # "NONE" /\ scpreload)
  /\ scrun' = [scrun EXCEPT !.failed = "fault"]
  /\ scstats' = [scstats EXCEPT !.faults = @ + 1]
  /\ UNCHANGED <<sccache, sctext, sclevel, scset, scpreload, scversion>>

\* The scan pipeline is finished when its partitions are used up, or when its
\* DuckDB source is drained.
Exhausted == scrun.todo = 0 /\ (ScKind[scrun.text] = "duckdb" => scrun.drained)

EndQuery_Sc ==
  /\ ~scrun.done /\ (scrun.failed # "no" \/ Exhausted)
  /\ scrun' = [scrun EXCEPT !.done = TRUE]
  /\ UNCHANGED <<sccache, sctext, sclevel, scset, scpreload, scversion, scstats>>

ScNext ==
  \/ \E l \in ScLevels : SetLevel(l)
  \/ WriteTable \/ RunScanTask \/ EndQuery_Sc
  \/ \E q \in ScQueries : StartQuery_Sc(q)
  \/ ScanFault

ScSpec == ScInit /\ [][ScNext]_scvars

-----------------------------------------------------------------------------
\* A query that succeeds has seen its own scan, each partition once and all of
\* one version of the table, whether its batches were read or replayed.
ReplayExact ==
  (scrun.done /\ scrun.failed = "no" /\ scrun.text # NoText) =>
    \E v \in 0..scversion : scrun.rows = {<<scrun.text, v, p>> : p \in 1..ScParts}

\* A replay runs out of batches only when the execution that recorded them failed.
CacheFailsAfterFault == scrun.failed = "not cached" => scstats.faults > 0

\* ... it sees the table as it is now.
ReplayFresh ==
  (scrun.done /\ scrun.failed = "no" /\ scrun.text # NoText) =>
    \A row \in scrun.rows : row[2] = scversion

\* A query that has no task left to run is finished: its scan is not left
\* waiting for a source that no task will drain.
ReplayEnds == (~scrun.done /\ scrun.failed = "no" /\ scrun.todo = 0) => Exhausted

\* The scan result cache over a sequence of queries: a replayed query returns the
\* rows of its own scan, and one that runs out of batches follows a failed execution.
ReplaySound ==
    /\ ReplayExact
    /\ CacheFailsAfterFault

=============================================================================
