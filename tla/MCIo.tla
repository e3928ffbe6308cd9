-------------------------------- MODULE MCIo --------------------------------
(***************************************************************************)
(* The I/O layer.  The backends and the cache are alternatives that share  *)
(* no state, so one run checks them side by side: the first step decides   *)
(* which of IoParts the behaviour is about, and nothing else moves.        *)
(***************************************************************************)
EXTENDS GcsReactor, UringReactor, S3Backends, PrefetchCache, IoRanges, TLC

CONSTANT IoParts   \* the parts to check
VARIABLE iopart    \* the part that moves, "none" before the first step

ioVars == <<iopart, gcsVars, uVars, sVars, blvars, pVars, rVars>>

IoOnly(p, others) ==
    /\ p \in IoParts /\ iopart \in {"none", p}
    /\ iopart' = p
    /\ UNCHANGED others

IoInit ==
    /\ iopart = "none"
    /\ GcsInit /\ UInit /\ SInit /\ BlInit /\ PInit /\ RInit

IoNext ==
    \/ IoOnly("gcs", <<uVars, sVars, blvars, pVars, rVars>>) /\ GcsNext
    \/ IoOnly("uring", <<gcsVars, sVars, blvars, pVars, rVars>>) /\ UNext
    \/ IoOnly("s3", <<gcsVars, uVars, blvars, pVars, rVars>>) /\ SNext
    \/ IoOnly("blocking", <<gcsVars, uVars, sVars, pVars, rVars>>) /\ BlNext
    \/ IoOnly("cache", <<gcsVars, uVars, sVars, blvars, rVars>>) /\ PNext
    \/ IoOnly("ranges", <<gcsVars, uVars, sVars, blvars, pVars>>) /\ RNext

IoSpec == IoInit /\ [][IoNext]_ioVars

\* No fair action of a part is enabled before its first step.
IoFairness == GcsFairness /\ UFairness /\ SFairness /\ BlFairness /\ PFairness

IoFairSpec == IoSpec /\ IoFairness

\* GCS: two ranges of two objects; one session at most, so the second session
\* evicts the first when that one is idle.
GcsObjectOf == ("r1" :> "o1") @@ ("r2" :> "o2")
GcsTotal == ("r1" :> 2) @@ ("r2" :> 1)

\* io_uring: a host read, and a device read whose first chunk is longer than
\* one short read and starts with a byte that is not wanted.
UringReadOf == ("h1" :> "q1") @@ ("d1" :> "q2") @@ ("d2" :> "q2")
UringSize == ("h1" :> 1) @@ ("d1" :> 2) @@ ("d2" :> 1)
UringAvail == UringSize
UringOff == ("h1" :> 0) @@ ("d1" :> 1) @@ ("d2" :> 0)
UringWanted == UringSize

\* libcurl: a device read of two chunks, and a host read.
CurlReadOf == ("t1" :> "v1") @@ ("t2" :> "v1") @@ ("t3" :> "v2")

\* The blocking backend: an object of four bytes.
BlockingReads ==
    { [kind |-> "host", ranges |-> <<>>],
      [kind |-> "host", ranges |-> << <<0, 2>>, <<3, 2>> >>],
      [kind |-> "host", ranges |-> << <<0, 4>>, <<5, 1>> >>],
      [kind |-> "device", ranges |-> << <<1, 4>> >>] }

\* The cache: ranges of one and of two chunks compete for a pool of two slabs.
CacheChunksOf == ("e1" :> 1) @@ ("e2" :> 2)

\* What the four readers (GCS, io_uring, S3 reactor, blocking S3) report: a value is
\* reported once, after all its bytes were delivered to their places, and a
\* failure only after a cause; and the ranges they are given, coalesced, aligned,
\* cut and scattered, are those of the request and lie within the file.
ReadsExact ==
    /\ DeliveredInOrder
    /\ FailureHasCause
    /\ ValueMeansRead
    /\ NotFiredEarly
    /\ SValueMeansRead
    /\ ReadsAreExact
    /\ RangesExact

\* What the readers hold: window slots, staging slots, blocks and connection handles
\* are conserved, within their limits, and not freed under a copy.
BuffersHeld ==
    /\ WindowAccounted
    /\ SlotsConserved
    /\ SlotsBounded
    /\ FootprintBounded
    /\ BlockOutlivesCopy
    /\ HandlesConserved

\* Every read is resolved, its handler runs, threads waiting for a loading cache
\* entry wake up, and the shutdown of the GCS reactor ends.
ReadsEnd ==
    /\ EveryRangeResolved
    /\ ShutdownEnds
    /\ ReadsResolve
    /\ SReadsResolve
    /\ HandlerRuns
    /\ WaitersWake

=============================================================================
