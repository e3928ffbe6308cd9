------------------------------- MODULE S3Backends -------------------------------
EXTENDS IoRanges, Integers, Sequences, FiniteSets, SequencesExt

(* The libcurl reactor of the S3 and GCS-over-HTTP backends                   *)
(* (io/s3/s3_reactor.cpp): one worker loop over the submitted reads, at most  *)
(* MaxConnections transfers, retries with a delay, and for device reads a     *)
(* staging block and an asynchronous copy.  Servers, CUDA and the pool of     *)
(* staging blocks are external.                                               *)

CONSTANTS Transfers,       \* the chunks of all reads
          SReads,          \* the reads
          SReadOf,         \* [Transfers -> SReads]
          SDevice,         \* the transfers that end in device memory
          MaxConnections,  \* _cfg.max_connections, at least 1
          MaxAttempts      \* _cfg.max_retry_attempts, at least 1

VARIABLES xfer,      \* Transfers -> [loc, attempt, staged, res, gpu]
          sctx,      \* SReads -> request_context
          spending,  \* _pending
          sphase,    \* where the worker loop is
          sstop,     \* _stop
          scrashed   \* a staging block was freed under a copy

sVars == <<xfer, sctx, spending, sphase, sstop, scrashed>>

SAt(S) == {t \in Transfers : xfer[t].loc \in S}
Inflight == SAt({"inflight"})
Copying == SAt({"copying"})
DeviceBlocksInFlight == Cardinality(Copying) + Cardinality(Inflight \cap SDevice)

SInit ==
  /\ xfer = [t \in Transfers |-> [loc |-> "new", attempt |-> 1, staged |-> FALSE,
                                  res |-> "none", gpu |-> "idle"]]
  /\ sctx = [q \in SReads |-> NewContext(Cardinality({t \in Transfers : SReadOf[t] = q}))]
  /\ spending = <<>> /\ sphase = "unborn" /\ sstop = FALSE /\ scrashed = FALSE

(* A transfer ends: its read hears of it, it is deleted, and ~transfer returns *)
(* the staging block. *)
End(t, f, ok) ==
  /\ xfer' = [f EXCEPT ![t].loc = "gone", ![t].staged = FALSE]
  /\ sctx' = [sctx EXCEPT ![SReadOf[t]] = IF ok THEN ChunkDone(@) ELSE ChunkFailed(@)]
  /\ scrashed' = (scrashed \/ f[t].gpu = "busy")

(* The constructor starts the worker thread. *)
SStart ==
  /\ sphase = "unborn" /\ sphase' = "drain"
  /\ UNCHANGED <<xfer, sctx, spending, sstop, scrashed>>

-----------------------------------------------------------------------------
(* callers, servers and CUDA *)

(* host_read_async, host_enqueue_bulk, enqueue_bulk: also after the shutdown *)
SEnqueue(q) ==
  /\ sphase \notin {"unborn", "destroyed"} /\ \A t \in Transfers : SReadOf[t] = q => xfer[t].loc = "new"
  /\ xfer' = [t \in Transfers |-> IF SReadOf[t] = q THEN [xfer[t] EXCEPT !.loc = "incoming"]
                                                   ELSE xfer[t]]
  /\ UNCHANGED <<sctx, spending, sphase, sstop, scrashed>>

Results == {"good", "bad range", "retriable", "fatal"}
Respond(t, r) ==
  /\ xfer[t].loc = "inflight" /\ xfer[t].res = "none"
  /\ xfer' = [xfer EXCEPT ![t].res = r]
  /\ UNCHANGED <<sctx, spending, sphase, sstop, scrashed>>

CudaCopyDone(t, st) ==
  /\ xfer[t].gpu = "busy"
  /\ xfer' = [xfer EXCEPT ![t].gpu = st]
  /\ UNCHANGED <<sctx, spending, sphase, sstop, scrashed>>

-----------------------------------------------------------------------------
(* worker_loop *)

Then(p) == sphase' = p

(* drain_incoming and drain_incoming_device take the submitted reads in the   *)
(* order they were pushed; the model lets them come in any order. *)
SDrain ==
  /\ sphase = "drain"
  /\ \/ \E t \in SAt({"incoming"}) : /\ xfer' = [xfer EXCEPT ![t].loc = "pending"]
                                     /\ spending' = Append(spending, t)
                                     /\ UNCHANGED sphase
     \/ /\ SAt({"incoming"}) = {} /\ Then(IF sstop THEN "cancel" ELSE "promote")
        /\ UNCHANGED <<xfer, spending>>
  /\ UNCHANGED <<sctx, sstop, scrashed>>

(* promote_due_retries: those whose time has come go to the front *)
SPromote ==
  /\ sphase = "promote"
  /\ \/ \E t \in SAt({"backoff"}) : /\ xfer' = [xfer EXCEPT ![t].loc = "pending"]
                                    /\ spending' = <<t>> \o spending
                                    /\ UNCHANGED sphase
     \/ Then("submit") /\ UNCHANGED <<xfer, spending>>
  /\ UNCHANGED <<sctx, sstop, scrashed>>

NextPhase == CASE sphase = "submit" -> "perform" [] sphase = "resubmit" -> "copies"
               [] OTHER -> "drain"

WindowOpen == DeviceBlocksInFlight < MaxConnections

(* submit_pending, one transfer: a device transfer first borrows a staging    *)
(* block (`pool` says whether there is one); `auth` says whether build_and_add *)
(* succeeds.  When no block can be had now the loop stops, unless nothing in  *)
(* flight could ever free one. *)
SSubmit(pool, auth) ==
  /\ sphase \in {"submit", "resubmit", "rearm"}
  /\ spending # <<>> /\ Cardinality(Inflight) < MaxConnections
  /\ LET t == Head(spending)
         borrows == t \in SDevice /\ ~xfer[t].staged
     IN
     /\ borrows => WindowOpen
     /\ borrows /\ ~pool => Inflight \cap SDevice = {} /\ Copying = {}
     /\ spending' = Tail(spending)
     /\ IF (borrows /\ ~pool) \/ ~auth THEN End(t, xfer, FALSE)
        ELSE /\ xfer' = [xfer EXCEPT ![t].loc = "inflight", ![t].res = "none",
                                     ![t].staged = t \in SDevice]
             /\ UNCHANGED <<sctx, scrashed>>
  /\ UNCHANGED <<sphase, sstop>>

SSubmitted(pool) ==
  /\ sphase \in {"submit", "resubmit", "rearm"}
  /\ \/ spending = <<>> \/ Cardinality(Inflight) >= MaxConnections
     \/ /\ spending # <<>> /\ Head(spending) \in SDevice /\ ~xfer[Head(spending)].staged
        /\ ~WindowOpen \/ (~pool /\ (Inflight \cap SDevice # {} \/ Copying # {}))
  /\ Then(NextPhase)
  /\ UNCHANGED <<xfer, sctx, spending, sstop, scrashed>>

(* schedule_retry gives the staging block back during the delay *)
Backoff(t) == [xfer[t] EXCEPT !.loc = "backoff", !.attempt = @ + 1, !.staged = FALSE]

(* a completion libcurl reports after curl_multi_perform *)
SPerform(t) ==
  /\ sphase = "perform" /\ t \in Inflight
  /\ \/ /\ xfer[t].res = "retriable" /\ xfer[t].attempt < MaxAttempts
        /\ xfer' = [xfer EXCEPT ![t] = Backoff(t)]
        /\ UNCHANGED <<sctx, scrashed>>
     \/ /\ \/ xfer[t].res = "retriable" /\ xfer[t].attempt >= MaxAttempts
           \/ xfer[t].res \in {"fatal", "bad range"}
        /\ End(t, xfer, FALSE)
     \/ xfer[t].res = "good" /\ t \notin SDevice /\ End(t, xfer, TRUE)
     \/ \* start_device_copy: skipped when a sibling chunk has failed
        /\ xfer[t].res = "good" /\ t \in SDevice
        /\ IF sctx[SReadOf[t]].failed THEN End(t, xfer, TRUE)
           ELSE \/ End(t, xfer, FALSE)          \* CUDA refuses; the stream is drained
                \/ /\ xfer' = [xfer EXCEPT ![t].loc = "copying", ![t].gpu = "busy"]
                   /\ UNCHANGED <<sctx, scrashed>>
  /\ UNCHANGED <<spending, sphase, sstop>>

(* poll_device_copies, one transfer whose callback has run *)
SPollCopy(t) ==
  /\ sphase = "copies" /\ t \in Copying /\ xfer[t].gpu # "busy"
  /\ End(t, xfer, xfer[t].gpu = "ok")
  /\ UNCHANGED <<spending, sphase, sstop>>

SPhaseEnds ==
  /\ \/ sphase = "perform" /\ (\A t \in Inflight : xfer[t].res = "none") /\ Then("resubmit")
     \/ sphase = "copies" /\ (\A t \in Copying : xfer[t].gpu = "busy") /\ Then("rearm")
  /\ UNCHANGED <<xfer, sctx, spending, sstop, scrashed>>

(* cancel_all_on_shutdown: every stream with a copy under way is synchronised *)
(* before its staging block goes. *)
Synced_NoWait == TRUE
Synced == \A t \in Copying : xfer[t].gpu # "busy"
Cancelled == SAt({"inflight", "backoff", "pending", "copying", "incoming"})
SCancelAll ==
  LET live == Cancelled
      failed(q) == Cardinality({t \in live : SReadOf[t] = q})
  IN
  /\ sphase = "cancel" /\ Synced
  /\ xfer' = [t \in Transfers |-> IF t \in live THEN [xfer[t] EXCEPT !.loc = "gone", !.staged = FALSE]
                                              ELSE xfer[t]]
  /\ sctx' = [q \in SReads |->
       IF failed(q) = 0 THEN sctx[q]
       ELSE ChunkFailed([sctx[q] EXCEPT !.pending = @ - failed(q) + 1])]
  /\ scrashed' = (scrashed \/ \E t \in Copying : xfer[t].gpu = "busy")
  /\ spending' = <<>> /\ Then("exited")
  /\ UNCHANGED sstop

SShutdown ==
  /\ sphase # "unborn" /\ ~sstop /\ sstop' = TRUE
  /\ UNCHANGED <<xfer, sctx, spending, sphase, scrashed>>

(* The destructor has joined the worker; what was submitted too late is       *)
(* dropped with the queues, and the contexts' safety net answers. *)
SDestroy ==
  /\ sphase = "exited" /\ Then("destroyed")
  /\ xfer' = [t \in Transfers |-> IF xfer[t].loc = "incoming" THEN [xfer[t] EXCEPT !.loc = "gone"]
                                                            ELSE xfer[t]]
  /\ sctx' = [q \in SReads |-> IF \E t \in SAt({"incoming"}) : SReadOf[t] = q
                              THEN Destruct(sctx[q]) ELSE sctx[q]]
  /\ UNCHANGED <<spending, sstop, scrashed>>

-----------------------------------------------------------------------------
SWorker == \/ SDrain \/ SPromote \/ SPhaseEnds \/ SCancelAll
           \/ \E pool \in BOOLEAN : SSubmitted(pool) \/ \E auth \in BOOLEAN : SSubmit(pool, auth)
           \/ \E t \in Transfers : SPerform(t) \/ SPollCopy(t)
SOutside == \E t \in Transfers : \/ \E r \in Results : Respond(t, r)
                                \/ \E st \in {"ok", "error"} : CudaCopyDone(t, st)
SNext == \/ SStart
         \/ \E q \in SReads : SEnqueue(q)
         \/ SOutside \/ SWorker \/ SShutdown \/ SDestroy

(* The worker loop turns, a request gets its answer (libcurl has a time-out), *)
(* a copy ends, and a retry that is due is promoted sooner or later. *)
SFairness ==
  /\ WF_sVars(SWorker) /\ WF_sVars(SDestroy)
  /\ \A t \in Transfers :
       /\ WF_sVars(\E r \in Results : Respond(t, r))
       /\ WF_sVars(\E st \in {"ok", "error"} : CudaCopyDone(t, st))
       /\ SF_sVars(SPromote /\ xfer[t].loc = "backoff" /\ xfer'[t].loc = "pending")
       /\ SF_sVars(\E auth \in BOOLEAN : SSubmit(TRUE, auth) /\ Head(spending) = t)
SSpec == SInit /\ [][SNext]_sVars /\ SFairness

-----------------------------------------------------------------------------
(* Properties *)

\* those waiting for a retry included, never exceed the connection limit.
FootprintBounded == Cardinality({t \in Transfers : xfer[t].staged}) <= MaxConnections

\* A read is reported as successful only if every one of its chunks was
\* received whole and, for the device, copied without an error.
SValueMeansRead ==
  \A t \in Transfers : sctx[SReadOf[t]].fired = "value" =>
    /\ xfer[t].loc = "gone" /\ xfer[t].res = "good"
    /\ t \in SDevice => xfer[t].gpu = "ok"

\* No staging block is returned while the copy engine still reads it, neither
\* when a transfer ends nor when the shutdown cancels it.
BlockOutlivesCopy == ~scrashed

\* Every read issued before the reactor is destroyed gets its answer.
SReadsResolve ==
  \A q \in SReads : (\E t \in Transfers : SReadOf[t] = q /\ xfer[t].loc = "incoming")
     ~> sctx[q].fired # "no"

-----------------------------------------------------------------------------
(***************************************************************************)
(* The blocking S3 backend: range GETs over a bounded pool of libcurl      *)
(* handles, with the validation of every answer and its retries; the       *)
(* fan-out of a multi-range read over a thread pool with one completion    *)
(* handler; device reads through one staging block; shutdown()             *)
(* (io/s3/s3_blocking_ioctx.cpp).                                          *)
(*                                                                         *)
(* External: the store's answers.  Byte i of the object has the value i.   *)
(***************************************************************************)

CONSTANTS BlkObject,       \* the size of the object at HEAD
          BlkReads,        \* the calls: records [kind, ranges]
          BlkConnections,  \* _cfg.max_connections
          BlkThreads,      \* threads of async_thread_pool
          BlkRetries,        \* _cfg.max_retry_attempts
          BlkAnswers,      \* the ways the store may answer
          StagingBlock,    \* block size of the host memory resource
          MaxBlkCalls      \* how many calls are made

VARIABLES handles,  \* [free, total, shut]: the pool of curl handles
          calls,    \* the calls made
          tasks,    \* the tasks scheduled on the thread pool
          opened    \* create_io_object: [size, attempt, error]

blvars == <<handles, calls, tasks, opened>>

Junk == 99

BlInit ==
    /\ handles = [free |-> 0, total |-> 0, shut |-> FALSE]
    /\ calls = <<>>
    /\ tasks = {}
    /\ opened = [size |-> 0, attempt |-> 0, at |-> "closed"]

BlkRetriable == {"503", "dropped"}

\* the answer to a ranged GET: the curl result, the status, the body and Content-Range
Answer(kind, off, n) ==
    LET body(from, k) == [i \in 1..k |-> from + i - 1]
        ok(status, b, range) == [curl |-> "ok", http |-> status, body |-> b, range |-> range]
    IN CASE kind = "206" -> ok(206, body(off, n), <<off, off + n - 1>>)
         [] kind = "bare" -> ok(206, body(off, n), <<>>)
         [] kind = "short" -> ok(206, body(off, n - 1), <<off, off + n - 1>>)
         [] kind = "long" -> ok(206, body(off, n + 1), <<off, off + n - 1>>)
         [] kind = "shifted" -> ok(206, body(off + 1, n), <<off + 1, off + n>>)
         [] kind = "200" -> ok(200, body(0, BlkObject), <<>>)
         [] kind = "503" -> ok(503, <<Junk, Junk>>, <<>>)
         [] kind = "404" -> ok(404, <<Junk>>, <<>>)
         [] OTHER -> [curl |-> kind, http |-> 0, body |-> body(off, 1), range |-> <<>>]

\* curl_write_buf: what does not fit is received and dropped
Written(dst, body) == [i \in DOMAIN dst |-> IF i <= Len(body) THEN body[i] ELSE dst[i]]

Accepts200(a, off, n) == a.http = 200 /\ off = 0 /\ Len(a.body) = n

Accepts206(a, off, n) ==
    /\ a.http = 206
    /\ Len(a.body) = n
    /\ a.range # <<>> => a.range[1] = off /\ (a.range[2] - a.range[1]) + 1 = n

\* the body of range_get's loop after curl_easy_perform
Verdict(a, kind, off, n, attempt) ==
    CASE a.curl = "ok" /\ a.http = 206 -> IF Accepts206(a, off, n) THEN "done" ELSE "failed"
      [] a.curl = "ok" /\ a.http = 200 -> IF Accepts200(a, off, n) THEN "done" ELSE "failed"
      [] OTHER -> IF kind \in BlkRetriable /\ attempt < BlkRetries THEN "again" ELSE "failed"

(***************************************************************************)
(* create_io_object: HEAD with the same retries; the size it gives clips   *)
(* every later read.                                                       *)
(***************************************************************************)
head_object_size ==
    /\ opened.at = "closed"
    /\ \E kind \in {"206", "503", "404"} \cap BlkAnswers :
          CASE kind = "206" -> opened' = [opened EXCEPT !.size = BlkObject, !.at = "open"]
            [] kind = "503" /\ opened.attempt + 1 < BlkRetries ->
                  opened' = [opened EXCEPT !.attempt = @ + 1]
            [] OTHER -> opened' = [opened EXCEPT !.at = "failed"]
    /\ UNCHANGED <<handles, calls, tasks>>

BlkClip(off, n) == IF opened.size > off THEN (IF n < opened.size - off THEN n ELSE opened.size - off)
                                     ELSE 0

Task(c, r, off, n) == [call |-> c, range |-> r, off |-> off, size |-> n, at |-> "queued",
                       attempt |-> 1, buf |-> [i \in 1..n |-> Junk], done |-> 0]

(***************************************************************************)
(* host_read_ranges_async_io: one task for every range, validation errors  *)
(* and the empty list as one task each; device_read_async_io: one task.    *)
(***************************************************************************)
NewCall(c, read) ==
    [kind |-> read.kind, ranges |-> read.ranges,
     pending |-> IF Len(read.ranges) > 1 THEN Len(read.ranges) ELSE 1,
     bytes |-> 0, error |-> FALSE, fired |-> <<>>,
     out |-> [r \in DOMAIN read.ranges |-> [i \in 1..read.ranges[r][2] |-> Junk]]]

CallRead ==
    /\ opened.at = "open" /\ Len(calls) < MaxBlkCalls
    /\ \E read \in BlkReads :
          LET c == Len(calls) + 1
              clipped(r) == BlkClip(read.ranges[r][1], read.ranges[r][2])
          IN /\ calls' = Append(calls, NewCall(c, read))
             /\ tasks' = tasks \cup
                   (IF read.ranges = <<>>
                    THEN {[Task(c, 0, 0, 0) EXCEPT !.at = "empty"]}
                    ELSE IF read.kind = "host"
                    THEN {Task(c, r, read.ranges[r][1], clipped(r)) : r \in DOMAIN read.ranges}
                    ELSE {[Task(c, 1, read.ranges[1][1], read.ranges[1][2])
                             EXCEPT !.buf = [i \in 1..StagingBlock |-> Junk]]})
    /\ UNCHANGED <<handles, opened>>

TaskBecomes(t, u) == tasks' = (tasks \ {t}) \cup {u}

RunningTasks == {t \in tasks : t.at \notin {"queued", "empty"}}

IsDevice(t) == calls[t.call].kind = "device"

\* what the next range_get of a task asks for: a device read goes block by block
Todo(t) == IF IsDevice(t) THEN (IF StagingBlock < t.size - t.done THEN StagingBlock
                                                                 ELSE t.size - t.done)
           ELSE t.size

Asked(t) == BlkClip(t.off + t.done, Todo(t))

\* a thread takes the task: nothing to read, or a handle is needed; a device read may find
\* no staging block
Take(t) ==
    /\ t.at = "queued" /\ Cardinality(RunningTasks) < BlkThreads
    /\ \/ TaskBecomes(t, [t EXCEPT !.at = IF Asked(t) = 0 THEN "finish" ELSE "acquire"])
       \/ IsDevice(t) /\ TaskBecomes(t, [t EXCEPT !.at = "throw"])
    /\ UNCHANGED <<handles, calls, opened>>

MayGrow(h) == h.total < BlkConnections

acquire_handle(t) ==
    /\ t.at = "acquire"
    /\ handles.shut \/ handles.free > 0 \/ MayGrow(handles)
    /\ IF handles.shut
       THEN TaskBecomes(t, [t EXCEPT !.at = "throw"]) /\ UNCHANGED handles
       ELSE /\ TaskBecomes(t, [t EXCEPT !.at = "perform"])
            /\ handles' = IF handles.free > 0 THEN [handles EXCEPT !.free = @ - 1]
                                              ELSE [handles EXCEPT !.total = @ + 1]
    /\ UNCHANGED <<calls, opened>>

\* the handle goes back when range_get returns or throws; after shutdown it is freed
Release(h) == IF h.shut THEN h ELSE [h EXCEPT !.free = @ + 1]

ReleaseOnThrow(h) == Release(h)

range_get(t) ==
    /\ t.at = "perform"
    /\ \E kind \in BlkAnswers :
          LET n == Asked(t)
              a == Answer(kind, t.off + t.done, n)
              buf == Written(t.buf, SubSeq(a.body, 1, IF Len(a.body) < n THEN Len(a.body) ELSE n))
              v == Verdict(a, kind, t.off + t.done, n, t.attempt)
          IN CASE v = "again" ->
                    /\ TaskBecomes(t, [t EXCEPT !.attempt = @ + 1, !.buf = buf])
                    /\ UNCHANGED handles
               [] v = "done" ->
                    /\ TaskBecomes(t, [t EXCEPT !.at = IF IsDevice(t) THEN "sync" ELSE "finish",
                                            !.buf = buf])
                    /\ handles' = Release(handles)
               [] OTHER ->
                    /\ TaskBecomes(t, [t EXCEPT !.at = "throw", !.buf = buf])
                    /\ handles' = ReleaseOnThrow(handles)
    /\ UNCHANGED <<calls, opened>>

Placed(out, from, bytes, n) ==
    [i \in DOMAIN out |-> IF i > from /\ i <= from + n THEN bytes[i - from] ELSE out[i]]

DstOffset(t) == t.done

\* device_read_io: the copy is waited for before the staging block is used again
CopyToDevice(t) ==
    /\ t.at = "sync"
    /\ LET got == Asked(t)
           more == t.done + got < t.size /\ got = Todo(t)
       IN /\ calls' = [calls EXCEPT ![t.call].out[1] = Placed(@, DstOffset(t), t.buf, got)]
          /\ TaskBecomes(t, [t EXCEPT !.done = @ + got, !.attempt = 1,
                                  !.at = IF more /\ BlkClip(t.off + t.done + got, 1) > 0
                                         THEN "acquire" ELSE "finish"])
    /\ UNCHANGED <<handles, opened>>

\* fetch_sub and the handler of the last task
CompleteCall(c, k, err, out) ==
    LET call == [calls[c] EXCEPT !.pending = @ - 1, !.bytes = @ + k, !.error = @ \/ err, !.out = out]
    IN calls' = [calls EXCEPT ![c] =
          IF call.pending = 0
          THEN [call EXCEPT !.fired = Append(@, [error |-> call.error,
                                                bytes |-> IF call.error THEN 0 ELSE call.bytes])]
          ELSE call]

Finish(t) ==
    /\ t.at \in {"finish", "throw", "empty"}
    /\ t.at = "empty" => Cardinality(RunningTasks) < BlkThreads
    /\ tasks' = tasks \ {t}
    /\ LET out == calls[t.call].out
       IN IF t.at # "finish" THEN CompleteCall(t.call, 0, t.at = "throw", out)
          ELSE IF IsDevice(t) THEN CompleteCall(t.call, t.done, FALSE, out)
          ELSE CompleteCall(t.call, t.size, FALSE,
                        [out EXCEPT ![t.range] = Placed(@, 0, t.buf, t.size)])
    /\ UNCHANGED <<handles, opened>>

shutdown ==
    /\ opened.at = "open" /\ ~handles.shut
    /\ handles' = [handles EXCEPT !.shut = TRUE, !.free = 0]
    /\ UNCHANGED <<calls, tasks, opened>>

BlThread == \E t \in tasks : Take(t) \/ acquire_handle(t) \/ range_get(t) \/ CopyToDevice(t)
                             \/ Finish(t)

BlNext == head_object_size \/ CallRead \/ BlThread \/ shutdown

BlSpec == BlInit /\ [][BlNext]_blvars

\* the threads of the pool keep running, every request ends (request_timeout_s)
BlFairness == WF_blvars(BlThread)
BlFairSpec == BlSpec /\ BlFairness

(***************************************************************************)
(* A completion without an error means that every range, clipped to the    *)
(* object, was read from the offset asked for, whatever the store answered *)
(* on the way: error bodies, short, long and shifted answers and retries   *)
(* leave nothing in the destination, and the count is the sum of the       *)
(* clipped sizes.                                                          *)
(***************************************************************************)
ReadsAreExact ==
    \A c \in DOMAIN calls :
       \A f \in ToSet(calls[c].fired) : ~f.error =>
          LET rs == calls[c].ranges
              n(r) == BlkClip(rs[r][1], rs[r][2])
          IN /\ \A r \in DOMAIN rs : \A i \in 1..n(r) : calls[c].out[r][i] = rs[r][1] + i - 1
             /\ f.bytes = FoldLeft(LAMBDA s, r : s + BlkClip(r[1], r[2]), 0, rs)

(***************************************************************************)
(* There are never more curl handles than max_connections, and every       *)
(* handle that exists is free or with one request: an attempt that throws  *)
(* gives its handle back.                                                  *)
(***************************************************************************)
HandlesConserved ==
    /\ handles.total <= BlkConnections
    /\ ~handles.shut => handles.free + Cardinality({t \in tasks : t.at = "perform"}) = handles.total

(***************************************************************************)
(* Every call's completion handler runs, exactly once, also when ranges of *)
(* the same call fail, when the store only refuses and when shutdown() is  *)
(* called while requests wait for a handle.                                *)
(***************************************************************************)
HandlerRuns ==
    /\ [](\A c \in DOMAIN calls : Len(calls[c].fired) <= 1)
    /\ \A k \in 1..MaxBlkCalls : (Len(calls) = k) ~> (Len(calls) >= k /\ Len(calls[k].fired) = 1)
=============================================================================
