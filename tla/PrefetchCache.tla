---------------------------- MODULE PrefetchCache ----------------------------
(* The prefetching cache (io/prefetching_cache.cpp): byte ranges registered   *)
(* by scans are loaded ahead of their readers into pinned chunks by a worker  *)
(* thread, and an evictor thread takes chunks back from ranges that have been *)
(* read or whose epoch has passed.  One file; the I/O backend, the host       *)
(* memory resource and CUDA streams are external.                             *)
EXTENDS Integers, Sequences, FiniteSets, Functions, FiniteSetsExt

CONSTANTS Entries,      \* the ranges of the file, one cache_entry each
          ChunksOf,     \* [Entries -> Nat \ {0}]: chunks of the physical range
          PReaders,     \* concurrent readers
          SlabChunks,   \* CHUNKS_PER_SLAB
          MaxSlabs,     \* _max_slabs
          Budget,       \* the budget of admission_control
          MaxInserts,   \* bound: insert() calls
          MaxReads,     \* bound: read() calls
          MaxAge        \* bound: refresh_cache() calls + 1

ASSUME EntriesAssumption == IsFiniteSet(PReaders) /\ Entries # {}

NBuckets == 5           \* N_LRU_BUCKETS

VARIABLES ent,     \* Entries -> [st, pins, chunks, data, ntot, nreq, rts, cts, inLru]
          pool,    \* [free, slabs]
          age,     \* _cache_age
          ins,     \* the inserting thread: [pc, tick, n]
          rd,      \* PReaders -> [pc, e]; nreads counts the calls
          nreads,
          work,    \* _work_queue
          cands,   \* _candidate_queue
          req,     \* the worker's eviction request: [st, n]
          wk,      \* the worker: [pc, item, need, ptrs]
          ev,      \* the evictor: [pc, got, age, pos, cur]
          lru,     \* [list, sep, seen]: _lru_list, _lru_buckets as positions, _last_seen_age
          pio,     \* batches at the I/O backend
          adm,     \* admission_control: [used, active]
          pd       \* the destructor: "no", "stop", "done"

pVars == <<ent, pool, age, ins, rd, nreads, work, cands, req, wk, ev, lru, pio, adm, pd>>

NewEntry == [st |-> "empty", pins |-> 0, chunks |-> 0, data |-> FALSE, ntot |-> 0, nreq |-> 0,
             rts |-> 0, cts |-> 0, inLru |-> FALSE]
PInit ==
  /\ ent = [e \in Entries |-> NewEntry]
  /\ pool = [free |-> 0, slabs |-> 0] /\ age = 1
  /\ ins = [pc |-> "idle", tick |-> 0, n |-> 0]
  /\ rd = [r \in PReaders |-> [pc |-> "idle", e |-> CHOOSE e \in Entries : TRUE]] /\ nreads = 0
  /\ work = <<>> /\ cands = <<>> /\ req = [st |-> "none", n |-> 0]
  /\ wk = [pc |-> "unborn", item |-> {}, need |-> [e \in Entries |-> 0], ptrs |-> 0]
  /\ ev = [pc |-> "unborn", got |-> 0, age |-> 0, pos |-> 1, cur |-> 1]
  /\ lru = [list |-> <<>>, sep |-> [i \in 1..NBuckets |-> 1], seen |-> 0]
  /\ pio = <<>> /\ adm = [used |-> 0, active |-> 0] /\ pd = "no"

(* The constructor starts both threads; the pool takes a first slab if the    *)
(* memory resource has one. *)
PCreate ==
  /\ wk.pc = "unborn"
  /\ \E s \in 0..1 : pool' = [free |-> s * SlabChunks, slabs |-> s]
  /\ wk' = [wk EXCEPT !.pc = "idle"] /\ ev' = [ev EXCEPT !.pc = "idle"]
  /\ UNCHANGED <<ent, age, ins, rd, nreads, work, cands, req, lru, pio, adm, pd>>

PAlive == wk.pc # "unborn" /\ pd # "done"
Known(e) == ent[e].rts > 0
Stopped == pd # "no"

-----------------------------------------------------------------------------
(* entry_state: one compare-and-swap each *)

CanAcquire(x) == x.st \in {"cached", "in_use"}
Acquired(x) == [x EXCEPT !.st = "in_use", !.pins = @ + 1]
Released(x) == [x EXCEPT !.pins = @ - 1, !.st = IF x.pins = 1 THEN "cached" ELSE "in_use"]
CanLoad(x) == x.st \in {"empty", "queued"}
TryCancelQueued(x) == IF x.st = "queued" THEN [x EXCEPT !.st = "empty"] ELSE x
TryAbortPending(x) == IF x.st \in {"queued", "loading"} THEN [x EXCEPT !.st = "empty"] ELSE x

ConsumedOrStale_Any(x, a) == TRUE
ConsumedOrStale(x, a) == x.cts >= x.rts \/ x.rts < a

-----------------------------------------------------------------------------
(* callers *)

(* insert() samples the age before it takes the locks *)
PInsertBegin ==
  /\ PAlive /\ ~Stopped /\ ins.pc = "idle" /\ ins.n < MaxInserts
  /\ ins' = [pc |-> "tick", tick |-> age, n |-> ins.n + 1]
  /\ UNCHANGED <<ent, pool, age, rd, nreads, work, cands, req, wk, ev, lru, pio, adm, pd>>

(* ... and registers the ranges S, new or known, as one work item *)
PInsert(S) ==
  /\ ins.pc = "tick" /\ S # {}
  /\ ent' = [e \in Entries |->
       IF e \notin S THEN ent[e]
       ELSE [ent[e] EXCEPT !.ntot = @ + 1, !.rts = ins.tick,
                           !.nreq = IF Known(e) /\ ent[e].rts = ins.tick THEN @ + 1 ELSE 1]]
  /\ work' = Append(work, S) /\ ins' = [ins EXCEPT !.pc = "idle"]
  /\ UNCHANGED <<pool, age, rd, nreads, cands, req, wk, ev, lru, pio, adm, pd>>

(* read(), read_ranges(): a hit pins the entry, a load under way is waited    *)
(* for, anything else is a miss *)
PLook(r, e) ==
  CASE CanAcquire(ent[e]) ->
         /\ ent' = [ent EXCEPT ![e] = [Acquired(ent[e]) EXCEPT !.cts = age, !.nreq = @ - 1]]
         /\ rd' = [rd EXCEPT ![r] = [pc |-> "pinned", e |-> e]]
    [] ent[e].st = "loading" ->
         rd' = [rd EXCEPT ![r] = [pc |-> "waiting", e |-> e]] /\ UNCHANGED ent
    [] OTHER -> /\ ent' = [ent EXCEPT ![e].nreq = @ - 1]
                /\ rd' = [rd EXCEPT ![r].pc = "idle"]
PRead(r, e) ==
  /\ PAlive /\ ~Stopped /\ rd[r].pc = "idle" /\ Known(e) /\ nreads < MaxReads
  /\ PLook(r, e) /\ nreads' = nreads + 1
  /\ UNCHANGED <<pool, age, ins, work, cands, req, wk, ev, lru, pio, adm, pd>>
PWoken(r) ==      \* wait_while_loading returns
  /\ rd[r].pc = "waiting" /\ ent[rd[r].e].st # "loading"
  /\ PLook(r, rd[r].e)
  /\ UNCHANGED <<pool, age, ins, nreads, work, cands, req, wk, ev, lru, pio, adm, pd>>

(* unpin() posts the candidate first; a host read releases at once, a device  *)
(* read when its stream gets there *)
PUnpin(r, device) ==
  /\ rd[r].pc = "pinned" /\ cands' = Append(cands, rd[r].e)
  /\ rd' = [rd EXCEPT ![r].pc = IF device THEN "releasing" ELSE "idle"]
  /\ ent' = [ent EXCEPT ![rd[r].e] = IF device THEN @ ELSE Released(@)]
  /\ UNCHANGED <<pool, age, ins, nreads, work, req, wk, ev, lru, pio, adm, pd>>
PStreamRelease(r) ==
  /\ rd[r].pc = "releasing"
  /\ rd' = [rd EXCEPT ![r].pc = "idle"] /\ ent' = [ent EXCEPT ![rd[r].e] = Released(@)]
  /\ UNCHANGED <<pool, age, ins, nreads, work, cands, req, wk, ev, lru, pio, adm, pd>>

PRefresh ==
  /\ PAlive /\ ~Stopped /\ age < MaxAge /\ age' = age + 1
  /\ work' = <<>>
  /\ ent' = [e \in Entries |-> IF \E i \in DOMAIN work : e \in work[i]
                               THEN TryCancelQueued(ent[e]) ELSE ent[e]]
  /\ UNCHANGED <<pool, ins, rd, nreads, cands, req, wk, ev, lru, pio, adm, pd>>

-----------------------------------------------------------------------------
(* the worker *)

Needs(S) == [e \in Entries |-> IF e \in S /\ ent[e].nreq > 0 /\ CanLoad(ent[e])
                               THEN ChunksOf[e] ELSE 0]
TotalChunks(need) == FoldSet(LAMBDA e, acc : acc + need[e], 0, Entries)

(* buffer_pool::allocate_bulk: takes what is free and grows slab by slab, as  *)
(* far as the host memory resource gives slabs (`most` of them in all) *)
Slabs(n, most) == LET lack == n - pool.free
                  IN IF lack <= 0 THEN 0
                     ELSE Min({most - pool.slabs, (lack + SlabChunks - 1) \div SlabChunks})
Got(n, most) == Min({n, pool.free + Slabs(n, most) * SlabChunks})
AllocateBulk(n, most) ==
  pool' = [free |-> pool.free + Slabs(n, most) * SlabChunks - Got(n, most),
           slabs |-> pool.slabs + Slabs(n, most)]
Dealloc(n) == pool' = [pool EXCEPT !.free = @ + n]

(* Phases 1 and 2: count the chunks the item may need and take them, or ask   *)
(* the evictor for the shortfall *)
WDequeue(most) ==
  LET need == Needs(Head(work)) n == TotalChunks(need) IN
  /\ wk.pc = "idle" /\ work # <<>> /\ most \in pool.slabs..MaxSlabs
  /\ work' = Tail(work)
  /\ IF n = 0 THEN UNCHANGED <<wk, pool, req>>
     ELSE /\ AllocateBulk(n, most)
          /\ wk' = [pc |-> IF Got(n, most) < n THEN "evict" ELSE "admit",
                    item |-> Head(work), need |-> need, ptrs |-> Got(n, most)]
          /\ req' = IF Got(n, most) < n THEN [st |-> "asked", n |-> n - Got(n, most)] ELSE req
  /\ UNCHANGED <<ent, age, ins, rd, nreads, cands, ev, lru, pio, adm, pd>>

(* the future resolves: give up the item, or take the chunks the evictor freed *)
WEvicted(most) ==
  /\ wk.pc = "evict" /\ req.st \in {"granted", "refused"} /\ most \in pool.slabs..MaxSlabs
  /\ req' = [st |-> "none", n |-> 0]
  /\ IF req.st = "granted" /\ Got(req.n, most) = req.n
     THEN AllocateBulk(req.n, most) /\ wk' = [wk EXCEPT !.pc = "admit", !.ptrs = @ + req.n]
     ELSE Dealloc(wk.ptrs) /\ wk' = [wk EXCEPT !.pc = "idle", !.ptrs = 0]
  /\ UNCHANGED <<ent, age, ins, rd, nreads, work, cands, ev, lru, pio, adm, pd>>

Fits == adm.used + TotalChunks(wk.need) <= Budget \/ adm.active = 0
Loading(e) == wk.need[e] > 0 /\ ent[e].nreq > 0 /\ CanLoad(ent[e])

Unused_Kept(ptrs, used) == 0
Unused(ptrs, used) == ptrs - used

(* Phases 3 to 5: a slot of the in-flight budget (all of it for an item that  *)
(* is larger), then the entries that are still wanted and still empty start   *)
(* loading; the chunks of the others go back *)
WStart ==
  LET batch == {e \in Entries : Loading(e)}
      used == FoldSet(LAMBDA e, acc : acc + wk.need[e], 0, batch)
      slot == IF adm.used + TotalChunks(wk.need) <= Budget THEN TotalChunks(wk.need) ELSE Budget
  IN
  /\ wk.pc = "admit" /\ Fits
  /\ ent' = [e \in Entries |-> IF e \in batch
       THEN [ent[e] EXCEPT !.st = "loading", !.chunks = wk.need[e], !.data = FALSE] ELSE ent[e]]
  /\ Dealloc(Unused(wk.ptrs, used))
  /\ wk' = [wk EXCEPT !.pc = "idle", !.ptrs = 0]
  /\ IF batch = {} THEN UNCHANGED <<pio, adm>>
     ELSE /\ pio' = Append(pio, [es |-> batch, slot |-> slot])
          /\ adm' = [used |-> adm.used + slot, active |-> adm.active + 1]
  /\ UNCHANGED <<age, ins, rd, nreads, work, cands, req, ev, lru, pd>>

(* acquire() comes back empty-handed, or the loop sees the stop request *)
WExit ==
  /\ Stopped /\ (wk.pc = "idle" \/ (wk.pc = "admit" /\ ~Fits))
  /\ wk' = [wk EXCEPT !.pc = "exited", !.ptrs = 0] /\ Dealloc(wk.ptrs)
  /\ UNCHANGED <<ent, age, ins, rd, nreads, work, cands, req, ev, lru, pio, adm, pd>>

(* the completion callback of a batch *)
AfterLoad(x, ok) ==
  IF ok THEN [x EXCEPT !.data = TRUE, !.st = IF @ = "loading" THEN "cached" ELSE @]
  ELSE [x EXCEPT !.chunks = 0, !.st = IF @ = "loading" THEN "empty" ELSE @]
IoDone(i, ok) ==
  LET b == pio[i].es IN
  /\ i \in DOMAIN pio /\ pio' = SubSeq(pio, 1, i - 1) \o SubSeq(pio, i + 1, Len(pio))
  /\ adm' = [used |-> adm.used - pio[i].slot, active |-> adm.active - 1]
  /\ ent' = [e \in Entries |->
       IF e \in b THEN AfterLoad(ent[e], ok) ELSE ent[e]]
  /\ IF ok THEN UNCHANGED pool ELSE Dealloc(FoldSet(LAMBDA e, acc : acc + ent[e].chunks, 0, b))
  /\ UNCHANGED <<age, ins, rd, nreads, work, cands, req, wk, ev, lru, pd>>

-----------------------------------------------------------------------------
(* the evictor and its bucketed list *)

BucketFor(e, a) == Max({1, Min({NBuckets, NBuckets + ent[e].ntot - a})})

(* lru_insert: at the tail of bucket b; lower separators that stood at the    *)
(* same place now point at the new element *)
LruInsert(l, e, b) ==
  [l EXCEPT !.list = SubSeq(@, 1, l.sep[b] - 1) \o <<e>> \o SubSeq(@, l.sep[b], Len(@)),
            !.sep = [i \in 1..NBuckets |->
                       IF i >= b \/ l.sep[i] > l.sep[b] THEN l.sep[i] + 1 ELSE l.sep[i]]]
LruErase(l, p) ==
  [l EXCEPT !.list = SubSeq(@, 1, p - 1) \o SubSeq(@, p + 1, Len(@)),
            !.sep = [i \in 1..NBuckets |-> IF l.sep[i] > p THEN l.sep[i] - 1 ELSE l.sep[i]]]

(* age_lru_buckets: bucket i absorbs bucket i + 1, the topmost keeps one *)
AgeOnce(l) ==
  IF l.list = <<>> THEN l
  ELSE LET last == Len(l.list)
           shifted(i) == IF i >= NBuckets - 1 THEN last ELSE l.sep[i + 1]
       IN [l EXCEPT !.sep = [i \in 1..NBuckets |-> IF i = NBuckets THEN l.sep[i]
                               ELSE IF shifted(i) > last THEN last ELSE shifted(i)]]
CatchUp(l) == IF age <= l.seen THEN l
              ELSE LET aged[n \in 0..NBuckets] == IF n = 0 THEN l ELSE AgeOnce(aged[n - 1])
                   IN [aged[Min({age - l.seen, NBuckets})] EXCEPT !.seen = age]

(* drain_candidates_into_lru: files each candidate once; then catch_up_age *)
Filed ==
  LET isFiled(n) == ent[cands[n]].inLru \/ \E m \in 1..(n - 1) : cands[m] = cands[n]
      after[n \in 0..Len(cands)] ==
        IF n = 0 THEN lru
        ELSE IF isFiled(n) THEN after[n - 1]
        ELSE LruInsert(after[n - 1], cands[n], BucketFor(cands[n], age))
  IN after[Len(cands)]
Refile == /\ lru' = CatchUp(Filed)
          /\ ent' = [e \in Entries |-> IF e \in Range(cands) THEN [ent[e] EXCEPT !.inLru = TRUE]
                                       ELSE ent[e]]
          /\ cands' = <<>>

EvPoll ==                                                    \* the 50 ms poll
  /\ ev.pc = "idle" /\ ~Stopped /\ req.st # "asked" /\ (cands # <<>> \/ lru.seen < age)
  /\ Refile
  /\ UNCHANGED <<pool, age, ins, rd, nreads, work, req, wk, ev, pio, adm, pd>>
EvTake ==
  /\ ev.pc = "idle" /\ ~Stopped /\ req.st = "asked"
  /\ req' = [req EXCEPT !.st = "taken"] /\ ev' = [ev EXCEPT !.pc = "round", !.got = 0]
  /\ UNCHANGED <<ent, pool, age, ins, rd, nreads, work, cands, wk, lru, pio, adm, pd>>
EvRound ==                                                   \* a pass over the list begins
  /\ ev.pc = "round" /\ Refile
  /\ ev' = [ev EXCEPT !.pc = "walk", !.age = age, !.pos = 1, !.cur = 1]
  /\ UNCHANGED <<pool, age, ins, rd, nreads, work, req, wk, pio, adm, pd>>

CurBucket == LET s == {b \in ev.cur..NBuckets : lru.sep[b] # ev.pos}
             IN IF s = {} THEN NBuckets + 1 ELSE Min(s)
Walking == ev.pos <= Len(lru.list) /\ ev.got < req.n /\ CurBucket <= NBuckets

(* try_evict_raw: only a cached entry no reader holds *)
Evictable_Pinned(x) == x.st \in {"cached", "in_use"}
Evictable(x) == x.st = "cached"

(* one element of the pass: skip it, evict it, or file it in a later bucket *)
EvWalk ==
  LET e == lru.list[ev.pos]
      intended == BucketFor(e, ev.age)
      skip == /\ ev' = [ev EXCEPT !.pos = @ + 1, !.cur = CurBucket]
              /\ UNCHANGED <<ent, pool, lru>>
  IN
  /\ ev.pc = "walk" /\ Walking
  /\ IF ~ConsumedOrStale(ent[e], ev.age) THEN skip
     ELSE IF intended > CurBucket
     THEN /\ lru' = LruInsert(LruErase(lru, ev.pos), e, intended)
          /\ ev' = [ev EXCEPT !.cur = CurBucket] /\ UNCHANGED <<ent, pool>>
     ELSE IF ~Evictable(ent[e]) THEN skip
     ELSE /\ ent' = [ent EXCEPT ![e].st = "empty", ![e].chunks = 0, ![e].data = FALSE,
                                ![e].inLru = FALSE]
          /\ Dealloc(ent[e].chunks) /\ lru' = LruErase(lru, ev.pos)
          /\ ev' = [ev EXCEPT !.got = @ + ent[e].chunks, !.cur = CurBucket]
  /\ UNCHANGED <<age, ins, rd, nreads, work, cands, req, wk, pio, adm, pd>>

(* the pass is over: answer, or sleep 50 ms and look again unless the cache   *)
(* aged or is being destroyed *)
Enough(got, n) == got >= n
EvWalked ==
  /\ ev.pc = "walk" /\ ~Walking
  /\ IF Enough(ev.got, req.n) THEN req' = [req EXCEPT !.st = "granted"] /\ ev' = [ev EXCEPT !.pc = "idle"]
     ELSE ev' = [ev EXCEPT !.pc = "sleep"] /\ UNCHANGED req
  /\ UNCHANGED <<ent, pool, age, ins, rd, nreads, work, cands, wk, lru, pio, adm, pd>>
EvSlept ==
  /\ ev.pc = "sleep"
  /\ IF Stopped \/ age # ev.age
     THEN req' = [req EXCEPT !.st = "refused"] /\ ev' = [ev EXCEPT !.pc = "idle"]
     ELSE ev' = [ev EXCEPT !.pc = "round"] /\ UNCHANGED req
  /\ UNCHANGED <<ent, pool, age, ins, rd, nreads, work, cands, wk, lru, pio, adm, pd>>
EvExit ==            \* refuses the request it did not pick up
  /\ ev.pc = "idle" /\ Stopped /\ ev' = [ev EXCEPT !.pc = "exited"]
  /\ req' = IF req.st = "asked" THEN [req EXCEPT !.st = "refused"] ELSE req
  /\ UNCHANGED <<ent, pool, age, ins, rd, nreads, work, cands, wk, lru, pio, adm, pd>>

-----------------------------------------------------------------------------
(* the destructor: stop both threads, wake the readers, join, wake again *)
AbortPending == ent' = [e \in Entries |-> TryAbortPending(ent[e])]
PStop ==
  /\ wk.pc # "unborn" /\ pd = "no" /\ ins.pc = "idle" /\ pd' = "stop" /\ AbortPending
  /\ UNCHANGED <<pool, age, ins, rd, nreads, work, cands, req, wk, ev, lru, pio, adm>>
PJoined ==
  /\ pd = "stop" /\ wk.pc = "exited" /\ ev.pc = "exited" /\ pd' = "done" /\ AbortPending
  /\ UNCHANGED <<pool, age, ins, rd, nreads, work, cands, req, wk, ev, lru, pio, adm>>

PWorker == (\E most \in 0..MaxSlabs : WDequeue(most) \/ WEvicted(most)) \/ WStart \/ WExit
PEvictor == EvPoll \/ EvTake \/ EvRound \/ EvWalk \/ EvWalked \/ EvSlept \/ EvExit
PNext ==
  \/ PCreate \/ PInsertBegin \/ PRefresh \/ PStop \/ PJoined \/ PWorker \/ PEvictor
  \/ \E S \in SUBSET Entries : PInsert(S)
  \/ \E r \in PReaders : \/ PWoken(r) \/ PStreamRelease(r)
                         \/ \E e \in Entries : PRead(r, e)
                         \/ \E device \in BOOLEAN : PUnpin(r, device)
  \/ \E i \in DOMAIN pio, ok \in BOOLEAN : IoDone(i, ok)
PSpec == PInit /\ [][PNext]_pVars

(* Both threads run, the backend answers every request (its contexts do),     *)
(* streams advance, and a reader that holds a view lets go of it. *)
PFairness ==
  /\ WF_pVars(PWorker) /\ WF_pVars(PEvictor) /\ WF_pVars(PJoined)
  /\ WF_pVars(\E i \in DOMAIN pio, ok \in BOOLEAN : IoDone(i, ok))
  /\ \A r \in PReaders : /\ WF_pVars(PWoken(r)) /\ WF_pVars(PStreamRelease(r))
                         /\ WF_pVars(PUnpin(r, FALSE))

-----------------------------------------------------------------------------
(* Properties *)

\* Every chunk of the slabs is free, belongs to an entry or is in the worker's
\* hands; failed loads, refused evictions and races return it.
ChunksConserved ==
  pool.slabs * SlabChunks
    = pool.free + wk.ptrs + FoldSet(LAMBDA e, acc : acc + ent[e].chunks, 0, Entries)

\* What a reader can see is loaded: a cached or pinned entry has all its chunks
\* and the backend has filled them.
VisibleIsLoaded ==
  \A e \in Entries : ent[e].st \in {"cached", "in_use"} =>
    ent[e].chunks = ChunksOf[e] /\ ent[e].data

\* The view of a reader, and the copies its stream still runs, keep the entry
\* pinned, so the evictor cannot take the chunks away.
PinsProtect ==
  \A e \in Entries :
    /\ ent[e].pins > 0 => ent[e].st = "in_use" /\ ent[e].chunks = ChunksOf[e]
    /\ ent[e].pins = Cardinality({r \in PReaders : rd[r].e = e /\ rd[r].pc \in {"pinned", "releasing"}})

\* The bucket separators of the eviction list stay ordered, the last one is the
\* end of the list, and the list holds each filed entry once.
LruWellFormed ==
  /\ lru.sep[NBuckets] = Len(lru.list) + 1
  /\ \A i \in 1..(NBuckets - 1) : lru.sep[i] <= lru.sep[i + 1]
  /\ IsInjective(lru.list)
  /\ \A e \in Entries : ent[e].inLru <=> e \in Range(lru.list)

\* Chunks the evictor reports as freed are there when the worker comes for them.
GrantIsGood == req.st = "granted" => pool.free >= req.n

\* Nothing a reader of the current epoch still waits for is evicted: an entry
\* loses its chunks only if it was read since its last request or is stale.
EvictsOnlyUsed ==
  [][\A e \in Entries : ent[e].st = "cached" /\ ent'[e].st = "empty"
        => ent[e].cts >= ent[e].rts \/ ent[e].rts < age]_pVars

\* A reader that waits for a load is always woken: by the data, by the failure
\* of the load, or by the destructor.
WaitersWake == \A r \in PReaders : rd[r].pc = "waiting" ~> rd[r].pc # "waiting"

\* The destructor returns: the worker and the evictor notice the stop request
\* wherever they are.
CacheShutdownEnds == pd = "stop" ~> pd = "done"

\* What a reader holds or can reach is safe until the destructor starts: a cached
\* or pinned entry has all its chunks, filled, and the pins are those of the readers.
\* (The destructor's abort_pending_entries declares entries empty whose batch is
\* still at the backend; a worker past its stop test may load them again.)
ReadersProtected == pd = "no" => VisibleIsLoaded /\ PinsProtect

\* The prefetching cache under readers, worker and evictor: chunks are conserved
\* until the destructor starts, the list with its bucket separators is well formed
\* and a granted request has its chunks.
CacheSound ==
    /\ pd = "no" => ChunksConserved
    /\ LruWellFormed
    /\ GrantIsGood

=============================================================================
