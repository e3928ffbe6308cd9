--------------------------- MODULE ContextStartup ---------------------------
(***************************************************************************)
(* What SiriusContext owns: initialize() builds the memory manager, the IO *)
(* backends, cuDF's pinned allocator, the executors and the scan manager   *)
(* one after the other, any of them may throw; terminate() takes them down *)
(* in an order of its own; a context whose initialize() threw is destroyed *)
(* member by member, in the reverse of their declaration                   *)
(* (sirius_context.cpp, include/sirius_context.hpp).                       *)
(***************************************************************************)
EXTENDS Integers, Sequences, FiniteSets

CONSTANTS StartConfigs,   \* records [datasource, s3, gcs, cache]
          FailingSteps,   \* the members whose construction may throw
          MaxLives        \* how many contexts the process builds in turn

VARIABLES config,   \* the configuration of this context, at most one
          stage,    \* "none", "building", "ready", "terminating", "unwinding"
          step,     \* how many steps of the stage are done
          owns,     \* what each member holds: shared pointers are held by several
          cached,   \* the IO contexts with a prefetching cache
          cudf,     \* cuDF's global pinned resource: its own, or "pinned"
          copies,   \* copies into pinned memory may be in flight
          lives     \* how many contexts were built

suvars == <<config, stage, step, owns, cached, cudf, copies, lives>>

\* in the order of their declaration; uring1 serves the lowest GPU
Declared == <<"memory", "pool", "s3_pool", "s3", "gcs", "numa", "gpu", "registry", "pinned",
              "telemetry", "repos", "scheduler", "downgrade", "creator", "scans">>

Members == {Declared[i] : i \in DOMAIN Declared}

InitSteps == <<"telemetry", "memory", "numa", "gpu", "registry", "pinned", "repos", "downgrade",
               "scheduler", "creator", "s3_pool", "s3", "gcs", "pool", "scans", "start">>

TerminateSteps_MemoryEarly ==
    <<"scheduler", "creator", "downgrade", "telemetry", "registry", "gpu", "numa", "sync",
      "s3", "gcs", "s3_pool", "pool", "repos", "restore", "pinned", "memory", "scans">>

TerminateSteps ==
    <<"scheduler", "creator", "downgrade", "telemetry", "registry", "gpu", "numa", "sync",
      "scans", "s3", "gcs", "s3_pool", "pool", "repos", "restore", "pinned", "memory">>

UnwindSteps == [i \in DOMAIN Declared |-> Declared[Len(Declared) + 1 - i]]

SuInit ==
    /\ config = <<>>
    /\ stage = "none"
    /\ step = 0
    /\ owns = [m \in Members |-> {}]
    /\ cached = {}
    /\ cudf = "cudf"
    /\ copies = FALSE
    /\ lives = 0

Construct ==
    /\ stage = "none" /\ lives < MaxLives
    /\ \E c \in StartConfigs : config' = <<c>>
    /\ stage' = "building"
    /\ step' = 0
    /\ lives' = lives + 1
    /\ UNCHANGED <<owns, cached, cudf, copies>>

HasS3(c) == c.s3 # "none"

\* the backends the scan manager borrows: the lowest GPU's, and the object stores
Borrowed(c) == (IF c.datasource THEN {"uring1"} ELSE {})
               \cup (IF HasS3(c) THEN {"s3"} ELSE {})
               \cup (IF c.gcs THEN {"gcs"} ELSE {})

Builds(m, c) ==
    CASE m \in {"numa", "gpu"} -> {"uring1", "uring2"}
      [] m = "registry" -> {"uring1"}
      [] m = "s3_pool" -> IF c.s3 = "blocking" THEN {"s3_pool"} ELSE {}
      [] m = "s3" -> IF HasS3(c) THEN {"s3"} ELSE {}
      [] m = "gcs" -> IF c.gcs THEN {"gcs"} ELSE {}
      [] m = "pool" -> IF c.cache = "none" THEN {} ELSE {"pool"}
      [] m = "scans" -> {"scans"} \cup Borrowed(c)
      [] OTHER -> {m}

\* the caches created over the pool: metadata_only serves the object stores alone
Caches(c) ==
    LET stores == Borrowed(c) \ {"uring1"}
    IN CASE c.cache = "none" -> {}
         [] c.cache = "metadata" -> stores
         [] OTHER -> stores \cup (IF c.datasource THEN {"uring1", "uring2"} ELSE {})

initialize ==
    /\ stage = "building"
    /\ LET m == InitSteps[step + 1]
           c == config[1]
       IN \/ /\ m = "start"
             /\ stage' = "ready"
             /\ copies' = TRUE
             /\ UNCHANGED <<step, owns, cached, cudf>>
          \/ /\ m # "start"
             /\ step' = step + 1
             /\ owns' = [owns EXCEPT ![m] = Builds(m, c)]
             /\ cudf' = IF m = "pinned" THEN "pinned" ELSE cudf
             /\ cached' = IF m = "pool" THEN Caches(c) ELSE cached
             /\ UNCHANGED <<stage, copies>>
          \/ /\ m \in FailingSteps                  \* ~SiriusContext without terminate()
             /\ stage' = "unwinding"
             /\ step' = 0
             /\ UNCHANGED <<owns, cached, cudf, copies>>
    /\ UNCHANGED <<config, lives>>

StartTerminate ==
    /\ stage = "ready"
    /\ stage' = "terminating"
    /\ step' = 0
    /\ UNCHANGED <<config, owns, cached, cudf, copies, lives>>

Taken(steps, m, restored) ==
    /\ owns' = IF m \in Members THEN [owns EXCEPT ![m] = {}] ELSE owns
    /\ cudf' = restored
    /\ copies' = IF m = "sync" THEN FALSE ELSE copies
    /\ IF step + 1 = Len(steps)
       THEN stage' = "none" /\ step' = 0 /\ cached' = {}
       ELSE step' = step + 1 /\ UNCHANGED <<stage, cached>>
    /\ UNCHANGED <<config, lives>>

RestoresCudf(m) == IF m = "restore" THEN "cudf" ELSE cudf

terminate ==
    /\ stage = "terminating"
    /\ LET m == TerminateSteps[step + 1] IN Taken(TerminateSteps, m, RestoresCudf(m))

Unwind ==
    /\ stage = "unwinding"
    /\ Taken(UnwindSteps, UnwindSteps[step + 1], cudf)

SuNext == Construct \/ initialize \/ StartTerminate \/ terminate \/ Unwind

SuSpec == SuInit /\ [][SuNext]_suvars

Alive == UNION {owns[m] : m \in Members}

(***************************************************************************)
(* What the threads or the destructor of an object still touch: a cache    *)
(* returns its blocks to the pool, the blocking S3 backend runs on its     *)
(* thread pool, the pools and the batches live in the memory manager's     *)
(* spaces, a uring frees its bounce buffers while CUDA is up.              *)
(***************************************************************************)
Touches(o) ==
    (IF o \in cached THEN {"pool"} ELSE {})
    \cup (IF o = "s3" /\ config[1].s3 = "blocking" THEN {"s3_pool"} ELSE {})
    \cup (IF o = "downgrade" THEN {"repos"} ELSE {})
    \cup (IF o \in {"memory", "telemetry", "s3_pool"} THEN {} ELSE {"memory"})

(***************************************************************************)
(* terminate(), and the implicit destruction after a failed initialize(),  *)
(* destroy nothing that a living object still touches, however the backends*)
(* are shared between the registry, the per-device view and the scan       *)
(* manager; and pinned memory is not freed under a copy in flight.         *)
(***************************************************************************)
NothingFreedInUse ==
    /\ \A o \in Alive : Touches(o) \subseteq Alive
    /\ copies => {"memory", "pinned"} \subseteq Alive

(***************************************************************************)
(* cuDF's global pinned resource is an allocator that exists: it is        *)
(* restored before Sirius's allocator is destroyed, in every life of a     *)
(* context.                                                                *)
(***************************************************************************)
CudfResourceLives == cudf = "pinned" => "pinned" \in Alive

\* Initialisation that may fail at any step, then teardown: no member is freed while
\* another still uses it, and cuDF's current resource is one that lives.
TeardownSound ==
    /\ NothingFreedInUse
    /\ CudfResourceLives

=============================================================================
