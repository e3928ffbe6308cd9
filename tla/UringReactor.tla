---------------------------- MODULE UringReactor ----------------------------
(* The io_uring reactor (io/uring/uring_reactor.cpp): one worker thread, a    *)
(* ring, bounce slots for device reads, the CUDA callback that retires a      *)
(* slot, the sequence counter the worker parks on, and the shutdown.  The     *)
(* kernel (results of the reads) and CUDA are external.                       *)
EXTENDS IoRanges, Integers, FiniteSets, FiniteSetsExt

CONSTANTS UChunks,      \* the chunks of all reads
          UReads,       \* the reads (calls of the io context)
          UReadOf,      \* [UChunks -> UReads]
          UHost,        \* the chunks read straight into host memory
          USize,        \* [UChunks -> Nat], io_size of the chunk
          UAvail,       \* [UChunks -> Nat], how much of it lies before the end of the file
          UOff,         \* [UChunks -> Nat], data_off: where the wanted bytes start
          UWanted,      \* [UChunks -> Nat], data_off + data_size
          NumSlots,     \* NUM_CHUNKS
          RingEntries,  \* _ring_entries
          UStops        \* is the reactor shut down while reads are under way?

VARIABLES uchunk,   \* UChunks -> [loc, got, cqe, gpu]
          uctx,     \* UReads -> request_context
          uworker,  \* the worker thread: pc, seq it parks on, SQEs left, CQE batch
          wakeSeq,  \* _wake_seq
          owed,     \* wake-ups whose cause has happened and whose increment has not
          ustop,    \* _stop
          ualive    \* the reactor has not been destroyed

uVars == <<uchunk, uctx, uworker, wakeSeq, owed, ustop, ualive>>

NoCqe == -2        \* no completion yet; -1 is an error

UAt(S) == {c \in UChunks : uchunk[c].loc \in S}
Slots == UAt({"reading", "copying"}) \ UHost
InKernel == UAt({"reading"})
CopiesDone == {c \in UAt({"copying"}) : uchunk[c].gpu # "busy"}

UInit ==
  /\ uchunk = [c \in UChunks |-> [loc |-> "new", got |-> 0, cqe |-> NoCqe, gpu |-> "idle"]]
  /\ uctx = [q \in UReads |-> NewContext(Cardinality({c \in UChunks : UReadOf[c] = q}))]
  /\ uworker = [pc |-> "unborn", seq |-> 0, sqes |-> 0, batch |-> {}]
  /\ wakeSeq = 0 /\ owed = {} /\ ustop = FALSE /\ ualive = TRUE

(* The constructor starts the worker thread. *)
UStart ==
  /\ uworker.pc = "unborn" /\ uworker' = [uworker EXCEPT !.pc = "top"]
  /\ UNCHANGED <<uchunk, uctx, wakeSeq, owed, ustop, ualive>>

-----------------------------------------------------------------------------
(* callers: enqueue, then advance the sequence and notify *)

UEnqueue(q) ==
  /\ ualive /\ uworker.pc # "unborn"
  /\ \A c \in UChunks : UReadOf[c] = q => uchunk[c].loc = "new"
  /\ uchunk' = [c \in UChunks |-> IF UReadOf[c] = q THEN [uchunk[c] EXCEPT !.loc = "queued"]
                                                    ELSE uchunk[c]]
  /\ owed' = owed \cup {q}
  /\ UNCHANGED <<uctx, uworker, wakeSeq, ustop, ualive>>

Wake(x) ==
  /\ x \in owed /\ owed' = owed \ {x}
  /\ wakeSeq' = wakeSeq + 1
  /\ UNCHANGED <<uchunk, uctx, uworker, ustop, ualive>>

(* the kernel answers a read: an error, or some of the bytes before the end *)
KernelReads(c, res) ==
  /\ uchunk[c].loc = "reading" /\ uchunk[c].cqe = NoCqe
  /\ res <= UAvail[c] - uchunk[c].got
  /\ res = 0 => uchunk[c].got = UAvail[c]
  /\ uchunk' = [uchunk EXCEPT ![c].cqe = res]
  /\ UNCHANGED <<uctx, uworker, wakeSeq, owed, ustop, ualive>>

(* cuda_copy_cb *)
CopyDone(c, status) ==
  /\ uchunk[c].gpu = "busy"
  /\ uchunk' = [uchunk EXCEPT ![c].gpu = status]
  /\ owed' = IF ualive THEN owed \cup {c} ELSE owed
  /\ UNCHANGED <<uctx, uworker, wakeSeq, ustop, ualive>>

-----------------------------------------------------------------------------
(* worker_loop *)

(* drain_queue and poll_cuda, which the loop runs at its top and again after  *)
(* it has read the sequence number *)
UDrained(f) ==
  [c \in UChunks |-> IF f[c].loc = "queued" THEN [f[c] EXCEPT !.loc = "pending"]
                ELSE IF c \in CopiesDone THEN [f[c] EXCEPT !.loc = "done"] ELSE f[c]]
Retire(c, ctx) == IF uchunk[c].gpu = "error" THEN ChunkFailed(ctx) ELSE ChunkDone(ctx)
Retired == [q \in UReads |-> FoldSet(Retire, uctx[q], {c \in CopiesDone : UReadOf[c] = q})]
NoWork(f) == \A c \in UChunks : f[c].loc \notin {"pending", "reading", "copying"}

UTop ==
  /\ uworker.pc = "top"
  /\ uchunk' = UDrained(uchunk) /\ uctx' = Retired
  /\ uworker' = [uworker EXCEPT !.pc = IF ustop THEN "break"
                                       ELSE IF NoWork(uchunk') THEN "idle" ELSE "submit",
                                !.sqes = RingEntries]
  /\ UNCHANGED <<wakeSeq, owed, ustop, ualive>>

(* the sequence is read before the queues are looked at again *)
UReadSeq ==
  /\ uworker.pc \in {"idle", "copies"}
  /\ uworker' = [uworker EXCEPT !.pc = IF @ = "idle" THEN "guard" ELSE "copyguard",
                                !.seq = wakeSeq]
  /\ UNCHANGED <<uchunk, uctx, wakeSeq, owed, ustop, ualive>>

MayPark(f) == IF uworker.pc = "guard" THEN NoWork(f)
              ELSE /\ \A c \in UChunks : f[c].loc # "pending"
                   /\ \E c \in UChunks : f[c].loc = "copying"
UGuard_NoSecondLook ==
  /\ uworker.pc \in {"guard", "copyguard"}
  /\ uworker' = [uworker EXCEPT !.pc = IF MayPark(uchunk) /\ ~ustop THEN "park" ELSE "top"]
  /\ UNCHANGED <<uchunk, uctx, wakeSeq, owed, ustop, ualive>>
UGuard ==
  /\ uworker.pc \in {"guard", "copyguard"}
  /\ uchunk' = UDrained(uchunk) /\ uctx' = Retired
  /\ uworker' = [uworker EXCEPT !.pc = IF MayPark(uchunk') /\ ~ustop THEN "park" ELSE "top"]
  /\ UNCHANGED <<wakeSeq, owed, ustop, ualive>>

UPark ==
  /\ uworker.pc = "park" /\ wakeSeq # uworker.seq
  /\ uworker' = [uworker EXCEPT !.pc = "top"]
  /\ UNCHANGED <<uchunk, uctx, wakeSeq, owed, ustop, ualive>>

(* submit_pending: device reads while there is a slot, then host reads; both  *)
(* need a free SQE.  The sequence of SQEs is handed to the kernel at the end. *)
Submittable ==
  IF uworker.sqes = 0 THEN {}
  ELSE LET dev == UAt({"pending"}) \ UHost
       IN IF dev # {} /\ Cardinality(Slots) < NumSlots THEN dev ELSE UAt({"pending"}) \cap UHost
USubmit ==
  /\ uworker.pc = "submit"
  /\ \/ \E c \in Submittable :
          /\ uchunk' = [uchunk EXCEPT ![c].loc = "reading", ![c].got = 0]
          /\ uworker' = [uworker EXCEPT !.sqes = @ - 1]
     \/ /\ Submittable = {} /\ UNCHANGED uchunk
        /\ uworker' = [uworker EXCEPT !.pc = IF InKernel # {} THEN "wait" ELSE "copies"]
  /\ UNCHANGED <<uctx, wakeSeq, owed, ustop, ualive>>

(* wait for a completion, or 100 ms, then reap what is there *)
UWait ==
  /\ uworker.pc = "wait"
  /\ uworker' = [uworker EXCEPT !.pc = "reap", !.sqes = RingEntries,
                                !.batch = {c \in InKernel : uchunk[c].cqe # NoCqe}]
  /\ UNCHANGED <<uchunk, uctx, wakeSeq, owed, ustop, ualive>>

Read(c) == uchunk[c].got + uchunk[c].cqe
Finished(c) == Read(c) >= USize[c] \/ uchunk[c].cqe = 0

(* A short read goes on with an SQE of its own. *)
UResume(c) == [uchunk[c] EXCEPT !.got = Read(c), !.cqe = NoCqe]

NeedsCopy(c) == c \notin UHost /\ Read(c) > UOff[c] /\ ~uctx[UReadOf[c]].failed

(* reap_cqes, one completion: an error; a short read that goes on; the copy   *)
(* to the device, which CUDA may refuse; or the end of the chunk.  Without an *)
(* SQE for the rest a short read ends like a complete one. *)
UReap(c) ==
  LET q == UReadOf[c]
      more == ~Finished(c) /\ uworker.sqes > 0
  IN
  /\ uworker.pc = "reap" /\ c \in uworker.batch
  /\ \/ /\ uchunk[c].cqe < 0
        /\ uctx' = [uctx EXCEPT ![q] = ChunkFailed(@)]
        /\ uchunk' = [uchunk EXCEPT ![c].loc = "done"]
        /\ uworker' = [uworker EXCEPT !.batch = @ \ {c}]
     \/ /\ uchunk[c].cqe >= 0 /\ more
        /\ uchunk' = [uchunk EXCEPT ![c] = UResume(c)]
        /\ uworker' = [uworker EXCEPT !.sqes = @ - 1, !.batch = @ \ {c}]
        /\ UNCHANGED uctx
     \/ /\ uchunk[c].cqe >= 0 /\ ~more /\ NeedsCopy(c)
        /\ \E cudaOk \in BOOLEAN :
             /\ uctx' = IF cudaOk THEN uctx ELSE [uctx EXCEPT ![q] = ChunkFailed(@)]
             /\ uchunk' = [uchunk EXCEPT ![c] =
                  [@ EXCEPT !.got = Read(c), !.loc = IF cudaOk THEN "copying" ELSE "done",
                            !.gpu = IF cudaOk THEN "busy" ELSE @]]
        /\ uworker' = [uworker EXCEPT !.batch = @ \ {c}]
     \/ /\ uchunk[c].cqe >= 0 /\ ~more /\ ~NeedsCopy(c)
        /\ uctx' = [uctx EXCEPT ![q] = ChunkDone(@)]
        /\ uchunk' = [uchunk EXCEPT ![c] = [@ EXCEPT !.got = Read(c), !.loc = "done"]]
        /\ uworker' = [uworker EXCEPT !.batch = @ \ {c}]
  /\ UNCHANGED <<wakeSeq, owed, ustop, ualive>>

UReaped ==
  /\ uworker.pc = "reap" /\ uworker.batch = {}
  /\ uworker' = [uworker EXCEPT !.pc = "top"]
  /\ UNCHANGED <<uchunk, uctx, wakeSeq, owed, ustop, ualive>>

-----------------------------------------------------------------------------
(* shutdown *)

(* Dropping a request releases its context; the last one to do so fires the   *)
(* safety net. *)
Drop(S) ==
  LET f == [c \in UChunks |-> IF c \in S THEN [uchunk[c] EXCEPT !.loc = "dropped"]
                                        ELSE uchunk[c]]
      gone(q) == \A c \in UChunks : UReadOf[c] = q => f[c].loc \in {"done", "dropped"}
  IN  /\ uchunk' = [c \in UChunks |-> IF c \in UHost \cap InKernel /\ c \notin S /\ uworker.pc = "break"
                                     THEN [f[c] EXCEPT !.loc = "leaked"] ELSE f[c]]
      /\ uctx' = [q \in UReads |-> IF gone(q) THEN Destruct(uctx[q]) ELSE uctx[q]]

UStop ==
  /\ UStops /\ ~ustop /\ uworker.pc # "unborn" /\ ustop' = TRUE /\ owed' = owed \cup {"stop"}
  /\ UNCHANGED <<uchunk, uctx, uworker, wakeSeq, ualive>>

(* The loop ends: its deques and slots are destroyed, but nobody owns the     *)
(* wrappers of host reads the kernel has not completed. *)
UBreak ==
  /\ uworker.pc = "break" /\ Drop(UAt({"pending"}) \cup Slots)
  /\ uworker' = [uworker EXCEPT !.pc = "gone"]
  /\ UNCHANGED <<wakeSeq, owed, ustop, ualive>>

(* shutdown() has joined the worker; the destructor frees the bounce slots    *)
(* and the queues. *)
UDestroy ==
  /\ uworker.pc = "gone" /\ ualive /\ "stop" \notin owed
  /\ ualive' = FALSE /\ Drop(UAt({"queued"}))
  /\ UNCHANGED <<uworker, wakeSeq, owed, ustop>>

-----------------------------------------------------------------------------
UWorker == UTop \/ UReadSeq \/ UGuard \/ UPark \/ USubmit \/ UWait \/ UReaped \/ UBreak
           \/ \E c \in UChunks : UReap(c)
UKernel == \E c \in UChunks : \/ \E res \in -1..USize[c] : KernelReads(c, res)
                             \/ \E st \in {"ok", "error"} : CopyDone(c, st)

UNext == \/ UStart
         \/ \E q \in UReads : UEnqueue(q)
         \/ \E x \in owed : Wake(x)
         \/ UKernel \/ UWorker \/ UStop \/ UDestroy

UFairness == /\ WF_uVars(UWorker) /\ WF_uVars(UKernel) /\ WF_uVars(\E x \in owed : Wake(x))
             /\ WF_uVars(UDestroy)
USpec == UInit /\ [][UNext]_uVars /\ UFairness

-----------------------------------------------------------------------------
(* Properties *)

\* it wanted (short reads are resumed where they stopped), and its copies to
\* the device have ended without an error.
ValueMeansRead ==
  \A c \in UChunks : uctx[UReadOf[c]].fired = "value" =>
    /\ uchunk[c].got >= UWanted[c]
    /\ uchunk[c].gpu \in {"idle", "ok"}
    /\ c \notin UHost => uchunk[c].gpu = "ok"

\* A read's handler is called no earlier than its last chunk is resolved: until
\* then the kernel or the copy engine may still write into the destination.
NotFiredEarly ==
  \A c \in UChunks : uctx[UReadOf[c]].fired \in {"value", "error"} => uchunk[c].loc = "done"

\* At most one chunk uses a bounce slot at a time, and the worker never holds
\* more than there are.
SlotsBounded == Cardinality(Slots) <= NumSlots

\* A bounce slot is not freed while the copy engine still reads it.
NoFreeUnderCopy == ~ualive => \A c \in UChunks : uchunk[c].gpu # "busy"

\* Every read that is issued gets its handler called -- also across a shutdown,
\* unless one of its host chunks was with the kernel when the worker left.
ReadsResolve ==
  \A q \in UReads : (\E c \in UChunks : UReadOf[c] = q /\ uchunk[c].loc = "queued")
     ~> (uctx[q].fired # "no" \/ \E c \in UChunks : UReadOf[c] = q /\ uchunk[c].loc = "leaked")

\* Every read that is issued gets its handler called, whatever happens.
SafetyNetCatchesAll ==
  \A q \in UReads : (\E c \in UChunks : UReadOf[c] = q /\ uchunk[c].loc = "queued")
     ~> uctx[q].fired # "no"
=============================================================================
