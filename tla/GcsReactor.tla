----------------------------- MODULE GcsReactor -----------------------------
(* One lane of the GCS gRPC reactor (io/gcs/gcs_grpc_reactor.cpp): a channel *)
(* with its completion queue and worker thread, the unary ReadObject calls   *)
(* and the BidiReadObject sessions that share the lane's window, the retries *)
(* and redirects, the device reads' staging slots and the shutdown thread.   *)
(* Lanes share nothing but what a bucket is known to support.  The server    *)
(* and gRPC are external: every event the completion queue may deliver is a  *)
(* choice.  A range delivers Total units; the units delivered so far are     *)
(* kept in buf, so a lost, repeated or misplaced unit shows.                 *)
EXTENDS Naturals, Sequences, FiniteSets

CONSTANTS GcsRanges,          \* the range reads submitted to the lane
          Objects,         \* the objects (bucket/key@generation) they read
          ObjectOf,        \* [GcsRanges -> Objects]
          Total,           \* [GcsRanges -> Nat], units to deliver
          Device,          \* the ranges whose destination is device memory
          BidiMode,        \* cfg.bidi_reads: "off", "on" or "auto"
          DirectPath,      \* cfg.directpath
          Window,          \* streams per lane
          MaxRetry,        \* cfg.max_retry_attempts
          MaxRedirects,    \* kMaxBidiRedirects
          MaxOutstanding,  \* kBidiMaxOutstandingPerSession
          MaxPerWrite,     \* kMaxRangesPerWrite
          MaxSessions,     \* kMaxSessionsPerLane
          DeviceWindow,    \* staging slots of the device path
          LateWriteOk,     \* may gRPC report a Write done after the Read has failed?
          DeadlineFires    \* may the shutdown deadline pass before the lane drains?

VARIABLES rng,         \* GcsRanges -> where the range is, and its range_state
          incoming,    \* lane.incoming
          kickArmed,   \* lane.kick_armed, with its alarm in the queue
          worker,      \* what the lane's worker thread is doing
          pendingOps,  \* lane.pending_ops
          sess,        \* Objects -> the session open on the object
          waiting,     \* lane.sessions_waiting
          inflight,    \* lane.inflight
          bidiOk,      \* bucket_bidi_ok of the bucket: "unknown", "yes", "no"
          slots,       \* device_slots
          stopping,
          down         \* the thread in shutdown()

gcsVars == <<rng, incoming, kickArmed, worker, pendingOps, sess, waiting,
             inflight, bidiOk, slots, stopping, down>>

LastOf(a, b) == IF a < b THEN a ELSE b
SeqSet(s) == {s[i] : i \in DOMAIN s}
InStream == {"start", "reading", "finish"}
Queued(r) == r \in SeqSet(incoming) \/ r \in SeqSet(worker.work)

-----------------------------------------------------------------------------
(* range_state, the sessions and the initial state *)

NewRange == [loc |-> "new", buf |-> <<>>, next |-> 1, attempts |-> 0,
             cancelled |-> FALSE, why |-> "none"]
NoSession == [st |-> "none", reading |-> FALSE, writing |-> FALSE,
              counted |-> FALSE, saw |-> FALSE, attempts |-> 0,
              redirects |-> 0, pend |-> <<>>, out |-> {},
              hasCtx |-> FALSE, cancelled |-> FALSE]
HasWork(s) == s.pend # <<>> \/ s.out # {}
Idle == [pc |-> "wait", work |-> <<>>, who |-> "none"]
Pumping == [Idle EXCEPT !.pc = "pump"]

Remaining(r) == Total[r] - Len(rng[r].buf)

(* append(): bytes past the total are ignored. *)
AppendUnits(r, rec) ==
  [rec EXCEPT !.buf = IF Len(@) < Total[r] THEN Append(@, rec.next) ELSE @, !.next = @ + 1]

(* resume_offset(): where a stream that is (re)started begins to deliver. *)
ResumeAt_Start(rec) == 1
ResumeAt(rec) == Len(rec.buf) + 1

GcsInit ==
  /\ rng = [r \in GcsRanges |-> NewRange]
  /\ incoming = <<>> /\ kickArmed = FALSE /\ worker = Idle
  /\ pendingOps = <<>> /\ sess = [o \in Objects |-> NoSession] /\ waiting = <<>>
  /\ inflight = 0 /\ bidiOk = "unknown" /\ slots = DeviceWindow
  /\ stopping = FALSE /\ down = "up"

-----------------------------------------------------------------------------
(* completion and failure of ranges *)

(* complete_range fires the caller's completion; for a device range the      *)
(* staged bytes are first copied to the device, unless CUDA refuses (cudaOk).*)
Complete(r, rec, cudaOk) ==
  [rec EXCEPT !.loc = IF r \notin Device THEN "done" ELSE IF cudaOk THEN "copy" ELSE "failed",
              !.why = IF r \in Device /\ ~cudaOk THEN "cuda" ELSE @]
Freed(S) == Cardinality(S \cap Device)
FailAll(f, S, why) ==
  [r \in GcsRanges |-> IF r \in S THEN [f[r] EXCEPT !.loc = "failed", !.why = why] ELSE f[r]]

(* device_op_done: the host function queued behind the copies. *)
DeviceOpDone(r) ==
  /\ rng[r].loc = "copy"
  /\ rng' = [rng EXCEPT ![r].loc = "done"]
  /\ slots' = slots + 1
  /\ UNCHANGED <<incoming, kickArmed, worker, pendingOps, sess, waiting, inflight,
                 bidiOk, stopping, down>>

-----------------------------------------------------------------------------
(* submission, on any thread *)

(* host_read_async, host_read_sg_async and enqueue_bulk end in submit_range.  *)
(* A device range first takes a staging slot, and fails when none comes free. *)
SubmitRange(r) ==
  /\ rng[r].loc = "new" /\ down # "done"
  /\ IF r \in Device /\ slots = 0
     THEN /\ rng' = FailAll(rng, {r}, "no slot")
          /\ UNCHANGED <<incoming, kickArmed, slots>>
     ELSE IF Total[r] = 0
     THEN /\ \E c \in BOOLEAN : rng' = [rng EXCEPT ![r] = Complete(r, @, c)]
          /\ slots' = slots - (IF rng'[r].loc = "copy" THEN 1 ELSE 0)
          /\ UNCHANGED <<incoming, kickArmed>>
     ELSE IF stopping
     THEN /\ rng' = FailAll(rng, {r}, "stop")
          /\ UNCHANGED <<incoming, kickArmed, slots>>
     ELSE /\ rng' = [rng EXCEPT ![r].loc = "incoming"]
          /\ incoming' = Append(incoming, r) /\ kickArmed' = TRUE
          /\ slots' = slots - Cardinality({r} \cap Device)
  /\ UNCHANGED <<worker, pendingOps, sess, waiting, inflight, bidiOk, stopping, down>>

-----------------------------------------------------------------------------
(* routing and the window, on the worker thread *)

(* kick_tag: the worker takes everything submitted so far. *)
DrainIncoming ==
  /\ worker.pc = "wait" /\ kickArmed
  /\ worker' = [Idle EXCEPT !.pc = "route", !.work = incoming]
  /\ incoming' = <<>> /\ kickArmed' = FALSE
  /\ UNCHANGED <<rng, pendingOps, sess, waiting, inflight, bidiOk, slots, stopping, down>>

WantBidi == \/ BidiMode = "on"
            \/ BidiMode = "auto" /\ DirectPath /\ bidiOk # "no"

Open == {o \in Objects : sess[o].st # "none"}

(* evict_idle_session: some idle session is cancelled; it goes away when its *)
(* stream has been reaped. *)
Evicted(o) ==
  LET idle == {p \in Open : ~sess[p].counted /\ ~HasWork(sess[p]) /\ sess[p].st = "ready"}
  IN  IF o \in Open \/ Cardinality(Open) < MaxSessions \/ idle = {} THEN {sess}
      ELSE {[sess EXCEPT ![p].st = "closing", ![p].cancelled = TRUE] : p \in idle}

RouteBidi(r) ==
  LET o == ObjectOf[r] IN
  \E ss \in Evicted(o) :
    LET s == IF o \in Open THEN ss[o] ELSE [NoSession EXCEPT !.st = "idle"] IN
    /\ sess' = [ss EXCEPT ![o] = [s EXCEPT !.pend = Append(@, r)]]
    /\ waiting' = IF ~s.counted /\ s.st \in {"idle", "ready"} THEN Append(waiting, o)
                                                              ELSE waiting
    /\ rng' = [rng EXCEPT ![r].loc = "session"]
    /\ UNCHANGED <<pendingOps, slots>>

RouteUnary(r) ==
  /\ pendingOps' = Append(pendingOps, r)
  /\ rng' = [rng EXCEPT ![r].loc = "pending"]
  /\ UNCHANGED <<sess, waiting, slots>>

Route ==
  /\ worker.pc = "route" /\ worker.work # <<>>
  /\ LET r == Head(worker.work) IN
       \/ /\ stopping
          /\ rng' = FailAll(rng, {r}, "stop") /\ slots' = slots + Freed({r})
          /\ UNCHANGED <<pendingOps, sess, waiting>>
       \/ ~stopping /\ WantBidi /\ RouteBidi(r)
       \/ ~stopping /\ ~WantBidi /\ RouteUnary(r)
  /\ worker' = IF Len(worker.work) = 1 THEN Pumping
                                       ELSE [worker EXCEPT !.work = Tail(@)]
  /\ UNCHANGED <<incoming, kickArmed, inflight, bidiOk, stopping, down>>

(* pump_session_writes: pending ranges go out in one request, within the flow *)
(* control; the server resumes each one where its buffer ends. *)
PumpWrites(s) ==
  IF stopping \/ s.st # "ready" \/ s.writing THEN s
  ELSE LET n == LastOf(LastOf(Len(s.pend), MaxPerWrite), MaxOutstanding - Cardinality(s.out))
       IN  [s EXCEPT !.out = @ \cup SeqSet(SubSeq(s.pend, 1, n)),
                     !.pend = SubSeq(@, n + 1, Len(@)),
                     !.writing = n > 0]
Requested(f, s, t) ==
  [r \in GcsRanges |-> IF r \in t.out \ s.out THEN [f[r] EXCEPT !.next = ResumeAt(f[r])] ELSE f[r]]

(* pump(): one turn of its loop.  A session that has a slot but neither an    *)
(* idle nor a ready stream waits for its stream to be reaped. *)
PumpSession ==
  /\ worker.pc = "pump" /\ ~stopping /\ inflight < Window /\ waiting # <<>>
  /\ LET o == Head(waiting)
         s == sess[o]
         t == PumpWrites([s EXCEPT !.counted = TRUE]) IN
     /\ waiting' = Tail(waiting)
     /\ IF s.counted \/ ~HasWork(s) THEN UNCHANGED <<sess, inflight, worker, rng>>
        ELSE /\ inflight' = inflight + 1
             /\ sess' = [sess EXCEPT ![o] = t]
             /\ rng' = Requested(rng, s, t)
             /\ worker' = IF s.st = "idle" THEN [worker EXCEPT !.pc = "start", !.who = o]
                                           ELSE worker
  /\ UNCHANGED <<incoming, kickArmed, pendingOps, bidiOk, slots, stopping, down>>

PumpUnary ==
  /\ worker.pc = "pump" /\ ~stopping /\ inflight < Window
  /\ waiting = <<>> /\ pendingOps # <<>>
  /\ pendingOps' = Tail(pendingOps)
  /\ inflight' = inflight + 1
  /\ worker' = [worker EXCEPT !.pc = "start", !.who = Head(pendingOps)]
  /\ UNCHANGED <<rng, incoming, kickArmed, sess, waiting, bidiOk, slots, stopping, down>>

PumpEnd ==
  /\ worker.pc = "pump"
  /\ stopping \/ inflight >= Window \/ (waiting = <<>> /\ pendingOps = <<>>)
  /\ worker' = Idle
  /\ UNCHANGED <<rng, incoming, kickArmed, pendingOps, sess, waiting, inflight,
                 bidiOk, slots, stopping, down>>

(* start_unary / start_session: the context exists, and can be cancelled, only *)
(* from here on.  pump() has tested `stopping` before. *)
StartUnary ==
  /\ worker.pc = "start" /\ worker.who \in GcsRanges
  /\ rng' = [rng EXCEPT ![worker.who] =
               [@ EXCEPT !.loc = "start", !.next = ResumeAt(rng[worker.who]), !.cancelled = FALSE]]
  /\ worker' = Pumping
  /\ UNCHANGED <<incoming, kickArmed, pendingOps, sess, waiting, inflight, bidiOk,
                 slots, stopping, down>>
StartSession ==
  /\ worker.pc = "start" /\ worker.who \in Objects
  /\ sess' = [sess EXCEPT ![worker.who] =
                [@ EXCEPT !.st = "starting", !.saw = FALSE, !.hasCtx = TRUE,
                          !.cancelled = FALSE]]
  /\ worker' = Pumping
  /\ UNCHANGED <<rng, incoming, kickArmed, pendingOps, waiting, inflight, bidiOk,
                 slots, stopping, down>>

-----------------------------------------------------------------------------
(* handle_unary_event; `ok` and the status are what gRPC reports *)

Retriable(st) == st \in {"retriable", "redirect"}    \* a redirect comes as ABORTED

(* A call that did not start, or whose stream ended, is finished to get its   *)
(* status; gRPC delivers no OK status before the whole range. *)
UnaryStarted(r, ok) ==
  /\ worker.pc = "wait" /\ rng[r].loc = "start"
  /\ rng' = [rng EXCEPT ![r].loc = IF ok THEN "reading" ELSE "finish"]
  /\ UNCHANGED <<incoming, kickArmed, worker, pendingOps, sess, waiting, inflight,
                 bidiOk, slots, stopping, down>>

UnaryRead(r, ok) ==
  /\ worker.pc = "wait" /\ rng[r].loc = "reading"
  /\ ok => rng[r].next <= Total[r] + 1
  /\ rng' = [rng EXCEPT ![r] = IF ok THEN AppendUnits(r, @) ELSE [@ EXCEPT !.loc = "finish"]]
  /\ UNCHANGED <<incoming, kickArmed, worker, pendingOps, sess, waiting, inflight,
                 bidiOk, slots, stopping, down>>

Retries(n) == n < MaxRetry

UnaryFinish(r, status, cudaOk) ==
  /\ worker.pc = "wait" /\ rng[r].loc = "finish"
  /\ status = "ok" => Remaining(r) = 0
  /\ status = "cancelled" => rng[r].cancelled
  /\ inflight' = inflight - 1
  /\ worker' = Pumping
  /\ IF status = "ok" \/ (Remaining(r) = 0 /\ Total[r] > 0)
     THEN rng' = [rng EXCEPT ![r] = Complete(r, @, cudaOk)]
     ELSE IF ~stopping /\ Retriable(status) /\ Retries(rng[r].attempts)
     THEN rng' = [rng EXCEPT ![r].loc = "backoff", ![r].attempts = @ + 1,
                             ![r].cancelled = FALSE]
     ELSE rng' = FailAll(rng, {r}, IF stopping THEN "stop"
                                 ELSE IF Retriable(status) THEN "exhausted" ELSE status)
  /\ slots' = slots + (IF rng'[r].loc = "failed" THEN Freed({r}) ELSE 0)
  /\ UNCHANGED <<incoming, kickArmed, pendingOps, sess, waiting, bidiOk, stopping, down>>

(* The retry alarm fires, or shutdown has cancelled it. *)
UnaryBackoff(r) ==
  /\ worker.pc = "wait" /\ rng[r].loc = "backoff"
  /\ IF rng[r].cancelled \/ stopping
     THEN /\ rng' = FailAll(rng, {r}, "stop") /\ slots' = slots + Freed({r})
          /\ UNCHANGED <<pendingOps, worker>>
     ELSE /\ rng' = [rng EXCEPT ![r].loc = "pending"]
          /\ pendingOps' = <<r>> \o pendingOps
          /\ worker' = Pumping
          /\ UNCHANGED slots
  /\ UNCHANGED <<incoming, kickArmed, sess, waiting, inflight, bidiOk, stopping, down>>

-----------------------------------------------------------------------------
(* handle_bidi_event *)

(* maybe_finish: Finish is posted only with no read or write outstanding. *)
MaybeFinish(s) ==
  IF s.st = "closing" /\ ~s.reading /\ ~s.writing THEN [s EXCEPT !.st = "finishing"] ELSE s

BidiStarted(o, ok) ==
  /\ worker.pc = "wait" /\ sess[o].st = "starting"
  /\ LET s == sess[o]
         t == IF ok /\ ~stopping
              THEN PumpWrites([s EXCEPT !.st = "ready", !.reading = TRUE])
              ELSE [s EXCEPT !.st = "finishing"]
     IN sess' = [sess EXCEPT ![o] = t] /\ rng' = Requested(rng, s, t)
  /\ UNCHANGED <<incoming, kickArmed, worker, pendingOps, waiting, inflight, bidiOk,
                 slots, stopping, down>>

BidiWritten(o, ok) ==
  /\ worker.pc = "wait" /\ sess[o].writing
  /\ ok => LateWriteOk \/ sess[o].reading
  /\ LET s == [sess[o] EXCEPT !.writing = FALSE]
         t == IF ok THEN PumpWrites(s) ELSE MaybeFinish([s EXCEPT !.st = "closing"])
     IN sess' = [sess EXCEPT ![o] = t] /\ rng' = Requested(rng, s, t)
  /\ UNCHANGED <<incoming, kickArmed, worker, pendingOps, waiting, inflight, bidiOk,
                 slots, stopping, down>>

(* READ fails, or delivers a frame that does not parse. *)
BidiReadFails(o) ==
  /\ worker.pc = "wait" /\ sess[o].reading
  /\ sess' = [sess EXCEPT ![o] = MaybeFinish([@ EXCEPT !.reading = FALSE, !.st = "closing"])]
  /\ UNCHANGED <<rng, incoming, kickArmed, worker, pendingOps, waiting, inflight,
                 bidiOk, slots, stopping, down>>

(* READ delivers a unit of one of the requested ranges.  A session that has   *)
(* served everything gives its slot back and keeps its stream. *)
BidiRead(o, r, cudaOk) ==
  /\ worker.pc = "wait" /\ sess[o].reading /\ r \in sess[o].out
  /\ LET rec  == AppendUnits(r, rng[r])
         full == Len(rec.buf) >= Total[r]
         s    == [sess[o] EXCEPT !.saw = TRUE, !.out = IF full THEN @ \ {r} ELSE @]
         t    == IF stopping
                 THEN MaybeFinish([s EXCEPT !.reading = FALSE, !.st = "closing"])
                 ELSE PumpWrites(s)
         rest == ~stopping /\ t.counted /\ ~HasWork(t)
         f    == [rng EXCEPT ![r] = IF full THEN Complete(r, rec, cudaOk) ELSE rec]
     IN /\ rng' = Requested(f, s, t)
        /\ slots' = slots + (IF f[r].loc = "failed" THEN 1 ELSE 0)
        /\ sess' = [sess EXCEPT ![o] = IF rest THEN [t EXCEPT !.counted = FALSE] ELSE t]
        /\ inflight' = IF rest THEN inflight - 1 ELSE inflight
        /\ worker' = IF rest THEN Pumping ELSE worker
  /\ bidiOk' = IF ~sess[o].saw /\ BidiMode = "auto" THEN "yes" ELSE bidiOk
  /\ UNCHANGED <<incoming, kickArmed, pendingOps, waiting, stopping, down>>

(* The order in which the ranges a session still holds are taken over: the    *)
(* outstanding ones, a hash map's, in some order, then the pending ones. *)
Leftovers(s) == {p \o s.pend : p \in {q \in [1..Cardinality(s.out) -> s.out] : SeqSet(q) = s.out}}

(* reset_session_stream *)
ResetStream(s, left) ==
  [s EXCEPT !.st = "idle", !.reading = FALSE, !.writing = FALSE, !.hasCtx = FALSE,
            !.cancelled = FALSE, !.out = {}, !.pend = left, !.counted = FALSE]

Redirects(n) == n < MaxRedirects

(* FINISH: reap_session follows a redirect, falls back to unary reads,        *)
(* restarts the stream or fails what the session holds. *)
ReapSession(o, status) ==
  /\ worker.pc = "wait" /\ sess[o].st = "finishing"
  /\ status = "cancelled" => sess[o].cancelled
  /\ inflight' = inflight - (IF sess[o].counted THEN 1 ELSE 0)
  /\ worker' = Pumping
  /\ \E left \in Leftovers(sess[o]) :
       LET s == sess[o]
           held == SeqSet(left)
           others == SelectSeq(waiting, LAMBDA p : p # o)
       IN
       \/ /\ stopping
          /\ rng' = FailAll(rng, held, "stop") /\ slots' = slots + Freed(held)
          /\ sess' = [sess EXCEPT ![o] = NoSession] /\ waiting' = others
          /\ UNCHANGED <<pendingOps, bidiOk>>
       \/ /\ ~stopping /\ left # <<>> /\ status = "redirect" /\ Redirects(s.redirects)
          /\ sess' = [sess EXCEPT ![o] = [ResetStream(s, left) EXCEPT !.redirects = @ + 1]]
          /\ waiting' = Append(waiting, o)
          /\ UNCHANGED <<rng, slots, pendingOps, bidiOk>>
       \/ /\ ~stopping /\ ~s.saw /\ BidiMode = "auto" /\ status = "unsupported"
          /\ bidiOk' = "no"
          /\ pendingOps' = pendingOps \o left
          /\ rng' = [r \in GcsRanges |-> IF r \in held THEN [rng[r] EXCEPT !.loc = "pending"]
                                                   ELSE rng[r]]
          /\ sess' = [sess EXCEPT ![o] = NoSession] /\ waiting' = others
          /\ UNCHANGED slots
       \/ /\ ~stopping /\ left # <<>> /\ (status = "ok" \/ Retriable(status))
          /\ ~(status = "redirect" /\ Redirects(s.redirects))
          /\ Retries(s.attempts)
          /\ sess' = [sess EXCEPT ![o] = [ResetStream(s, left) EXCEPT !.attempts = @ + 1]]
          /\ rng' = [r \in GcsRanges |-> IF r \in held /\ status # "ok"
                                     THEN [rng[r] EXCEPT !.attempts = @ + 1] ELSE rng[r]]
          /\ waiting' = Append(waiting, o)
          /\ UNCHANGED <<slots, pendingOps, bidiOk>>
       \/ /\ ~stopping
          /\ ~(~s.saw /\ BidiMode = "auto" /\ status = "unsupported")
          /\ left # <<>> => /\ ~(status = "redirect" /\ Redirects(s.redirects))
                           /\ ~((status = "ok" \/ Retriable(status)) /\ Retries(s.attempts))
          /\ rng' = FailAll(rng, held, IF status = "ok" \/ Retriable(status) THEN "restarts" ELSE status)
          /\ slots' = slots + Freed(held)
          /\ sess' = [sess EXCEPT ![o] = NoSession] /\ waiting' = others
          /\ UNCHANGED <<pendingOps, bidiOk>>
  /\ UNCHANGED <<incoming, kickArmed, stopping, down>>

-----------------------------------------------------------------------------
(* shutdown(), on the thread that calls it *)

Stop ==
  /\ down = "up" /\ stopping' = TRUE /\ down' = "stopping"
  /\ UNCHANGED <<rng, incoming, kickArmed, worker, pendingOps, sess, waiting, inflight,
                 bidiOk, slots>>

CancelAll ==
  /\ down = "stopping" /\ down' = "draining"
  /\ rng' = [r \in GcsRanges |-> IF rng[r].loc \in InStream \cup {"backoff"}
                             THEN [rng[r] EXCEPT !.cancelled = TRUE] ELSE rng[r]]
  /\ sess' = [o \in Objects |-> IF sess[o].hasCtx THEN [sess[o] EXCEPT !.cancelled = TRUE]
                                                ELSE sess[o]]
  /\ UNCHANGED <<incoming, kickArmed, worker, pendingOps, waiting, inflight, bidiOk,
                 slots, stopping>>

Drained ==
  /\ incoming = <<>>
  /\ \A r \in GcsRanges : rng[r].loc \notin InStream \cup {"backoff"}
  /\ \A o \in Objects : sess[o].st \in {"none", "idle"}

(* steps 2 and 3: the lane has drained, then no copy to the device is left *)
WaitDrained ==
  /\ \/ down = "draining" /\ (Drained \/ DeadlineFires) /\ down' = "copies"
     \/ /\ down = "copies" /\ (DeadlineFires \/ \A r \in GcsRanges : rng[r].loc # "copy")
        /\ down' = "shut"
  /\ UNCHANGED <<rng, incoming, kickArmed, worker, pendingOps, sess, waiting, inflight,
                 bidiOk, slots, stopping>>

(* what the completion queue still owes the worker *)
EventsDue ==
  \/ kickArmed \/ worker.pc # "wait"
  \/ \E r \in GcsRanges : rng[r].loc \in InStream \cup {"backoff"}
  \/ \E o \in Objects : sess[o].st \in {"starting", "finishing"} \/ sess[o].reading \/ sess[o].writing

(* steps 4 and 5: the worker has left, and what never reached a stream fails *)
FailTheRest ==
  LET rest == {r \in GcsRanges : rng[r].loc \in {"incoming", "pending", "session"}} IN
  /\ down = "shut" /\ ~EventsDue /\ down' = "done"
  /\ rng' = FailAll(rng, rest, "stop") /\ slots' = slots + Freed(rest)
  /\ incoming' = <<>> /\ pendingOps' = <<>> /\ sess' = [o \in Objects |-> NoSession]
  /\ waiting' = <<>>
  /\ UNCHANGED <<kickArmed, worker, inflight, bidiOk, stopping>>

-----------------------------------------------------------------------------
Statuses == {"ok", "retriable", "redirect", "unsupported", "fatal", "cancelled"}

UnaryEvent(r) ==
  \/ \E ok \in BOOLEAN : UnaryStarted(r, ok) \/ UnaryRead(r, ok)
  \/ \E st \in Statuses, c \in BOOLEAN : UnaryFinish(r, st, c)
  \/ UnaryBackoff(r)
BidiEvent(o) ==
  \/ \E ok \in BOOLEAN : BidiStarted(o, ok) \/ BidiWritten(o, ok)
  \/ \E r \in GcsRanges, c \in BOOLEAN : BidiRead(o, r, c)
  \/ \E st \in Statuses : ReapSession(o, st)
GcsWorkerStep == DrainIncoming \/ Route \/ PumpSession \/ PumpUnary \/ PumpEnd
              \/ StartUnary \/ StartSession
ShutdownStep == CancelAll \/ WaitDrained \/ FailTheRest

GcsNext ==
  \/ \E r \in GcsRanges : SubmitRange(r) \/ UnaryEvent(r) \/ DeviceOpDone(r)
  \/ \E o \in Objects : BidiEvent(o) \/ BidiReadFails(o)
  \/ GcsWorkerStep \/ Stop \/ ShutdownStep

(* The worker serves its queue, and every call gRPC has accepted gets its     *)
(* events: requested ranges are answered and a cancelled stream's read fails. *)
GcsFairness ==
  /\ WF_gcsVars(GcsWorkerStep) /\ WF_gcsVars(ShutdownStep)
  /\ \A r \in GcsRanges : WF_gcsVars(UnaryEvent(r)) /\ WF_gcsVars(DeviceOpDone(r))
  /\ \A o \in Objects : /\ WF_gcsVars(BidiEvent(o))
                        /\ WF_gcsVars(sess[o].cancelled /\ BidiReadFails(o))

GcsSpec == GcsInit /\ [][GcsNext]_gcsVars /\ GcsFairness

-----------------------------------------------------------------------------
(* Properties *)

Resolved == {"done", "failed"}

\* session to a unary call, the units in its destination are the first ones of
\* the range in order, each once, and a range reported done has all of them.
DeliveredInOrder ==
  \A r \in GcsRanges :
    /\ rng[r].buf = [i \in 1..Len(rng[r].buf) |-> i]
    /\ Len(rng[r].buf) <= Total[r]
    /\ rng[r].loc \in {"copy", "done"} => Len(rng[r].buf) = Total[r]

\* The window counts exactly the unary streams and the sessions that hold a
\* slot, the one being started included, and is never exceeded.
WindowAccounted ==
  /\ inflight <= Window
  /\ inflight = Cardinality({r \in GcsRanges : rng[r].loc \in InStream})
                + Cardinality({o \in Objects : sess[o].counted})
                + (IF worker.pc = "start" /\ worker.who \in GcsRanges THEN 1 ELSE 0)

\* A range fails only for a reason: the reactor is stopping, its own retries or
\* its session's restarts are used up, CUDA or the staging slots refused it, the
\* server answered with an error that is not retried -- or it reached a session
\* whose stream had been cancelled to make room for another one.
FailureHasCause ==
  \A r \in GcsRanges : rng[r].loc = "failed" =>
    /\ rng[r].why = "stop" => stopping
    /\ rng[r].why = "exhausted" => rng[r].attempts >= MaxRetry
    /\ rng[r].why = "cancelled" => Cardinality(Objects) > MaxSessions
    /\ rng[r].why = "no slot" => Cardinality(Device) > DeviceWindow

\* Staging slots are conserved: every slot taken is held by a device range that
\* is not resolved yet.
SlotsConserved ==
  slots + Cardinality({r \in Device : rng[r].loc \notin Resolved \cup {"new"}}) = DeviceWindow

\* When the completion queue is shut down the lane is quiescent: no call is
\* outstanding and the worker is not about to start one.
QuiescentAtCqShutdown == down \in {"shut", "done"} => ~EventsDue

\* Every range submitted is resolved.
EveryRangeResolved ==
  \A r \in GcsRanges : rng[r].loc = "incoming" ~> rng[r].loc \in Resolved

\* A shutdown that has begun ends.
ShutdownEnds == (down = "stopping") ~> (down = "done")
=============================================================================
