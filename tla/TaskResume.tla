----------------------------- MODULE TaskResume -----------------------------
(***************************************************************************)
(* GPU pipeline tasks that run out of memory (pipeline/gpu_pipeline_task   *)
(* .cpp and the handler in gpu_pipeline_executor::manager_loop): a task    *)
(* applies the operators of its pipeline one after the other; when one of  *)
(* them, or the preparation of the input, runs out of memory, a new task   *)
(* with the intermediate data and the index to resume from is scheduled.   *)
(* While it waits in the scheduler's queue its data may be downgraded, so  *)
(* that the input of a resumed task may have to be prepared again.         *)
(***************************************************************************)
EXTENDS Integers, Sequences, FiniteSets

CONSTANTS RsTasks,          \* the batches of input: one task each at the start
          RsOperators,      \* operators of the pipeline
          MAX_OOM_RETRIES,  \* attempts after the first
          MaxRsOom,         \* bound: allocation failures
          ResumedOom        \* TRUE: also preparing resumed input may fail

VARIABLES
  rsat,      \* "queued", "prepare", "run", "published", "dropped"
  rsdata,    \* the operators applied to the task's data, in order
  rsindex,   \* _start_operator_index, then the next operator to run
  rstier,    \* where the data is
  rsretry,   \* retry_count
  rsstats,   \* [error, ooms]: completion handler, failures so far
  rslocked   \* TRUE: the task holds read-only locks on its batches

rsvars == <<rsat, rsdata, rsindex, rstier, rsretry, rsstats, rslocked>>

RsInit ==
  /\ rsat = [t \in RsTasks |-> "queued"]
  /\ rsdata = [t \in RsTasks |-> <<>>]
  /\ rsindex = [t \in RsTasks |-> 0]
  /\ rstier = [t \in RsTasks |-> "host"]
  /\ rsretry = [t \in RsTasks |-> 0]
  /\ rsstats = [error |-> FALSE, ooms |-> 0]
  /\ rslocked = [t \in RsTasks |-> FALSE]

\* A worker takes the task; a reservation is made before execute().
RsTake(t) ==
  /\ rsat[t] = "queued"
  /\ rsat' = [rsat EXCEPT ![t] = "prepare"]
  /\ UNCHANGED <<rsdata, rsindex, rstier, rsretry, rsstats, rslocked>>

\* The downgrade executor moves data nobody has locked to the host.
RsDowngrade(t) ==
  /\ rsat[t] = "queued" /\ rstier[t] = "gpu" /\ ~rslocked[t]
  /\ rstier' = [rstier EXCEPT ![t] = "host"]
  /\ UNCHANGED <<rsat, rsdata, rsindex, rsretry, rsstats, rslocked>>

\* Where the new task starts: the operator that failed.
ResumeIndex_Next(i) == i + 1
ResumeIndex(i) == i

\* The locks the rescheduled data keeps.
LocksKept(t) == FALSE

\* catch (oom_reschedule_exception): drop after an error, give up after
\* MAX_OOM_RETRIES, otherwise schedule a task that resumes at operator i.
Reschedule(t, i) ==
  /\ rslocked' = [rslocked EXCEPT ![t] = LocksKept(t)]
  /\ IF rsstats.error \/ rsretry[t] + 1 > MAX_OOM_RETRIES
     THEN /\ rsat' = [rsat EXCEPT ![t] = "dropped"]
          /\ rsstats' = [error |-> TRUE, ooms |-> rsstats.ooms + 1]
          /\ UNCHANGED <<rsindex, rsretry>>
     ELSE /\ rsat' = [rsat EXCEPT ![t] = "queued"]
          /\ rsindex' = [rsindex EXCEPT ![t] = i]
          /\ rsretry' = [rsretry EXCEPT ![t] = @ + 1]
          /\ rsstats' = [rsstats EXCEPT !.ooms = @ + 1]

\* prepare_for_processing() locks the batches and brings them to the GPU.
RsPrepare(t) ==
  /\ rsat[t] = "prepare"
  /\ rsat' = [rsat EXCEPT ![t] = "run"]
  /\ rstier' = [rstier EXCEPT ![t] = "gpu"]
  /\ rslocked' = [rslocked EXCEPT ![t] = TRUE]
  /\ UNCHANGED <<rsdata, rsindex, rsretry, rsstats>>

\* Out of memory in prepare_for_processing(): the new task starts at operator 0.
RsPrepareOom(t) ==
  /\ rsat[t] = "prepare" /\ rstier[t] = "host" /\ rsstats.ooms < MaxRsOom
  /\ rsindex[t] = 0 \/ ResumedOom
  /\ Reschedule(t, 0)
  /\ UNCHANGED <<rsdata, rstier>>

\* One turn of the loop of compute_task().
RsOperator(t) ==
  /\ rsat[t] = "run" /\ rsindex[t] < RsOperators
  /\ rsdata' = [rsdata EXCEPT ![t] = Append(@, rsindex[t])]
  /\ rsindex' = [rsindex EXCEPT ![t] = @ + 1]
  /\ rslocked' = [rslocked EXCEPT ![t] = FALSE]
  /\ UNCHANGED <<rsat, rstier, rsretry, rsstats>>

RsOperatorOom(t) ==
  /\ rsat[t] = "run" /\ rsindex[t] < RsOperators /\ rsstats.ooms < MaxRsOom
  /\ Reschedule(t, ResumeIndex(rsindex[t]))
  /\ UNCHANGED <<rsdata, rstier>>

\* publish_output(): the sink receives the data.
RsPublish(t) ==
  /\ rsat[t] = "run" /\ rsindex[t] >= RsOperators
  /\ rsat' = [rsat EXCEPT ![t] = "published"]
  /\ UNCHANGED <<rsdata, rsindex, rstier, rsretry, rsstats, rslocked>>

RsNext ==
  \E t \in RsTasks :
    \/ RsTake(t) \/ RsDowngrade(t) \/ RsPrepare(t) \/ RsPrepareOom(t)
    \/ RsOperator(t) \/ RsOperatorOom(t) \/ RsPublish(t)

RsSpec == RsInit /\ [][RsNext]_rsvars

-----------------------------------------------------------------------------
\* However often a task runs out of memory, what reaches the sink went through
\* every operator of the pipeline once and in order.
EachOperatorOnce ==
  \A t \in RsTasks :
    rsat[t] = "published" => rsdata[t] = [i \in 1..RsOperators |-> i - 1]

\* The data of a task that waits to be retried is not locked, so that it can be
\* downgraded to make room for the others.
WaitingIsDowngradable ==
  \A t \in RsTasks : rsat[t] = "queued" => ~rslocked[t]

\* A task that ran out of memory and was rescheduled: it applies every operator to
\* its batches exactly once, and while it waits its batches can be downgraded.
ResumeSound ==
    /\ EachOperatorOnce
    /\ WaitingIsDowngradable

=============================================================================
