------------------------------- MODULE IoRanges -------------------------------
(* The byte-range arithmetic of the I/O layer: merging and intersecting lists *)
(* of ranges (include/io/io_utils.hpp), cutting a device read into aligned    *)
(* chunks and spreading it over the reactors (include/io/templated_ioctx.hpp),*)
(* scattering one read over several destinations (include/io/types.hpp,       *)
(* io/gcs/gcs_grpc_reactor.cpp) and slicing a cached range                    *)
(* (io/prefetching_cache.cpp).  Each is an operator; the state is a request,  *)
(* and the properties compare what the operator returns with the bytes asked. *)
(* The last part is the completion state the chunks of one read share, which  *)
(* the reactors' modules use.                                                 *)
EXTENDS Integers, Sequences, FiniteSets, SequencesExt, FiniteSetsExt

CONSTANTS FileSizes,   \* file sizes to try
          Block,       \* IO_BLOCK_SIZE, a power of two
          Chunk,       \* CHUNK_SIZE, a multiple of Block
          MaxOffset,   \* bound: offsets of ranges
          MaxLen       \* bound: number of ranges in a list

VARIABLES rg,   \* two sorted lists of disjoint ranges and a gap: [a, b, gap]
          rq    \* a read: [kind, file, off, segs, cut]
rVars == <<rg, rq>>

ByteRange(o, n) == [off |-> o, size |-> n]
EndOf(r) == r.off + r.size
Bytes(s) == UNION {s[i].off..(EndOf(s[i]) - 1) : i \in DOMAIN s}
Lesser(x, y) == IF x < y THEN x ELSE y
Larger(x, y) == IF x > y THEN x ELSE y
CeilDiv(n, d) == (n + d - 1) \div d
SumSeq(s) == FoldLeft(LAMBDA acc, n : acc + n, 0, s)

-----------------------------------------------------------------------------
(* io_utils *)

AlignRanges(s, al) ==
  [i \in DOMAIN s |-> LET from == (s[i].off \div al) * al
                      IN ByteRange(from, CeilDiv(EndOf(s[i]), al) * al - from)]

(* coalesce_sorted_ranges: the last range of the result is still growing *)
Joins(out, r, gap) == r.off <= EndOf(out) + gap
CoalesceSorted(s, gap) ==
  FoldLeft(LAMBDA out, r :
             IF out # <<>> /\ Joins(Last(out), r, gap)
             THEN Append(Front(out), ByteRange(Last(out).off,
                                           Larger(EndOf(Last(out)), EndOf(r)) - Last(out).off))
             ELSE Append(out, r),
           <<>>, s)
SortRanges(s) == SortSeq(s, LAMBDA x, y : x.off < y.off)
CoalesceRanges(s, gap) == CoalesceSorted(SortRanges(s), gap)
UnionSorted(a, b, gap) == CoalesceSorted(SortRanges(a \o b), gap)

PassFirst_ByOffset(x, y) == x.off < y.off
PassFirst(x, y) == EndOf(x) < EndOf(y)

(* common_sorted_ranges: two cursors, the range that ends first is passed *)
CommonSorted(a, b) ==
  LET from[i \in 1..(Len(a) + 1), j \in 1..(Len(b) + 1)] ==
        IF i > Len(a) \/ j > Len(b) THEN <<>>
        ELSE LET lo == Larger(a[i].off, b[j].off)
                 hi == Lesser(EndOf(a[i]), EndOf(b[j]))
                 rest == CASE PassFirst(a[i], b[j]) -> from[i + 1, j]
                           [] PassFirst(b[j], a[i]) -> from[i, j + 1]
                           [] OTHER -> from[i + 1, j + 1]
             IN (IF lo < hi THEN <<ByteRange(lo, hi - lo)>> ELSE <<>>) \o rest
  IN from[1, 1]

(* missing_sorted_ranges: per source range, walk the coverage with a cursor *)
Uncovered(r, cov) ==
  LET walk == FoldLeft(LAMBDA st, c :
                IF EndOf(c) <= r.off \/ c.off >= EndOf(r) THEN st
                ELSE [cur |-> Larger(st.cur, EndOf(c)),
                      out |-> IF st.cur < c.off THEN Append(st.out, ByteRange(st.cur, c.off - st.cur))
                              ELSE st.out],
                [cur |-> r.off, out |-> <<>>], cov)
  IN IF walk.cur < EndOf(r) THEN Append(walk.out, ByteRange(walk.cur, EndOf(r) - walk.cur)) ELSE walk.out
MissingSorted(src, cov) == FlattenSeq([i \in DOMAIN src |-> Uncovered(src[i], cov)])

-----------------------------------------------------------------------------
(* one device read: align, cut into chunks, spread over the reactors *)

Clip(off, size, file) == Lesser(size, IF file > off THEN file - off ELSE 0)

UringAlign(off, size, file) ==
  LET from == (off \div Block) * Block
      to == Lesser(CeilDiv(off + size, Block) * Block, CeilDiv(file, Block) * Block)
  IN ByteRange(from, to - from)
GcsAlign(off, size, file) == ByteRange(Lesser(off, file), Lesser(off + size, file) - Lesser(off, file))

(* enqueue_device_read *)
DataSize(io, dataOff, left) == Lesser(io - dataOff, left)
DeviceChunks(off, asked, file, aligned) ==
  IF asked = 0 \/ off >= file THEN <<>>
  ELSE LET size == Clip(off, asked, file)
           phys == IF aligned THEN UringAlign(off, size, file) ELSE GcsAlign(off, size, file)
           cut[k \in 0..CeilDiv(phys.size, Chunk)] ==      \* the chunks from the k-th on
             IF k = 0 THEN <<>>
             ELSE LET before == cut[k - 1]
                      at == phys.off + (k - 1) * Chunk
                      produced == SumSeq([i \in DOMAIN before |-> before[i].dataSize])
                      io == Lesser(Chunk, EndOf(phys) - at)
                      dataOff == IF k = 1 THEN off - phys.off ELSE 0
                  IN Append(before, [off |-> at, size |-> io, dataOff |-> dataOff, dst |-> produced,
                                     dataSize |-> DataSize(io, dataOff, size - produced)])
       IN cut[CeilDiv(phys.size, Chunk)]

(* contiguous groups of n requests for m reactors, starting at a rotating one *)
Groups(n, m) == [k \in 1..m |-> (n \div m) + (IF k - 1 < n % m THEN 1 ELSE 0)]
GroupStart(n, m, k) == SumSeq(SubSeq(Groups(n, m), 1, k - 1))
ReactorOf(n, m, start, i) ==
  LET k == CHOOSE k \in 1..m : GroupStart(n, m, k) < i /\ i <= GroupStart(n, m, k) + Groups(n, m)[k]
  IN (start + k - 1) % m

-----------------------------------------------------------------------------
(* one read into several segments *)

(* host_read_segments_async_io: segments that overrun the file are cut *)
TrimSegments(segs, capacity) ==
  FoldLeft(LAMBDA out, n : Append(out, Lesser(n, Larger(capacity - SumSeq(out), 0))), <<>>, segs)

(* a destination is <<segment, byte>>; a cursor is <<segment, offset>> *)
Advance(segs, c) == IF c[2] = segs[c[1]] THEN <<c[1] + 1, 0>> ELSE c
(* the bytes a run of n starting at cursor c lands on: sg_write_cursor::append *)
Land(segs, c, n) ==
  LET f[k \in 0..n, i \in 1..(Len(segs) + 1), o \in 0..Larger(1, MaxOffset)] ==
        IF k = 0 \/ i > Len(segs) THEN [at |-> <<i, o>>, bytes |-> <<>>]
        ELSE LET take == Lesser(k, segs[i] - o)
                 next == Advance(segs, <<i, o + take>>)
                 more == f[k - take, next[1], next[2]]
             IN [at |-> more.at, bytes |-> [b \in 1..take |-> <<i, o + b - 1>>] \o more.bytes]
  IN f[n, c[1], c[2]]

(* host_read_sg_async: sub-reads of at most `target` bytes, each with its own *)
(* part of the segments *)
SubRead(segs, st, n) == Land(segs, st, n)
SgSplit(off, segs, target) ==
  LET total == SumSeq(segs)
      cut[k \in 0..CeilDiv(total, target)] ==
        IF k = 0 THEN [at |-> <<1, 0>>, subs |-> <<>>]
        ELSE LET before == cut[k - 1]
                 done == (k - 1) * target
                 n == Lesser(target, total - done)
                 part == SubRead(segs, before.at, n)
             IN [at |-> part.at,
                 subs |-> Append(before.subs, [off |-> off + done, size |-> n, dst |-> part.bytes])]
  IN cut[CeilDiv(total, target)].subs

(* pinned_view::slice: the chunks of an entry that hold [off, off + size), as *)
(* file offsets *)
SliceStart(off, logical, phys) == (off - logical.off) + (logical.off - phys.off)
Slice(off, size, logical, phys, chunk) ==
  LET first == SliceStart(off, logical, phys)
      f[left \in 0..size, idx \in 0..CeilDiv(phys.size, chunk), o \in 0..(chunk - 1)] ==
        IF left = 0 \/ idx >= CeilDiv(phys.size, chunk) THEN <<>>
        ELSE LET avail == Lesser(chunk - o, phys.size - idx * chunk - o)
                 n == Lesser(left, avail)
             IN [b \in 1..n |-> phys.off + idx * chunk + o + b - 1] \o f[left - n, idx + 1, 0]
  IN f[size, first \div chunk, first % chunk]

(* the H2D copies of a staged GCS chunk (enqueue_bulk): skip data_off bytes,  *)
(* copy data_size, block by block *)
StagedCopy(io, dataOff, dataSize, blk) ==
  LET f[b \in 0..CeilDiv(io, blk), skip \in 0..dataOff, left \in 0..dataSize] ==
        IF left = 0 \/ b * blk >= io THEN <<>>
        ELSE LET len == Lesser(blk, io - b * blk) IN
             IF skip >= len THEN f[b + 1, skip - len, left]
             ELSE LET take == Lesser(len - skip, left)
                  IN [x \in 1..take |-> b * blk + skip + x - 1] \o f[b + 1, 0, left - take]
  IN f[0, dataOff, dataSize]

-----------------------------------------------------------------------------
NoRead == [kind |-> "none", file |-> 0, off |-> 0, segs |-> <<>>, cut |-> 1]
RInit == rg = [a |-> <<>>, b |-> <<>>, gap |-> 0] /\ rq = NoRead

AfterLast(s) == IF s = <<>> THEN 0 ELSE EndOf(Last(s))
RAdd(which) ==          \* a further range, after the last one
  /\ rq = NoRead /\ Len(rg[which]) < MaxLen
  /\ \E o \in AfterLast(rg[which])..MaxOffset, n \in 1..2 :
       rg' = [rg EXCEPT ![which] = Append(@, ByteRange(o, n))]
  /\ UNCHANGED rq
RGap == rg = [a |-> <<>>, b |-> <<>>, gap |-> 0] /\ rq = NoRead /\ rg' = [rg EXCEPT !.gap = 2] /\ UNCHANGED rq
RRead ==                \* a read request
  /\ rg = [a |-> <<>>, b |-> <<>>, gap |-> 0] /\ rq = NoRead /\ UNCHANGED rg
  /\ \E f \in FileSizes, o \in 0..MaxOffset, c \in 1..3 :
       rq' = [kind |-> "read", file |-> f, off |-> o, segs |-> <<>>, cut |-> c]
RSegment ==             \* a further destination segment, possibly empty
  /\ rq.kind = "read" /\ Len(rq.segs) < MaxLen
  /\ \E n \in 0..3 : rq' = [rq EXCEPT !.segs = Append(@, n)]
  /\ UNCHANGED rg
RNext == RAdd("a") \/ RAdd("b") \/ RGap \/ RRead \/ RSegment

-----------------------------------------------------------------------------
(* Properties *)

\* Coalescing (coalesce_ranges, union_sorted_ranges, in any input order) returns
\* sorted ranges further apart than the gap, covers every input byte, and
\* bridges only holes of at most the gap.
CoalesceCovers ==
  LET in == rg.a \o rg.b
      out == CoalesceRanges(in, rg.gap)
      holes == Bytes(out) \ Bytes(in)
      Bridged(x) == \E lo, hi \in Bytes(in) : lo < x /\ x < hi /\ hi - lo - 1 <= rg.gap
  IN
  /\ out = UnionSorted(rg.a, rg.b, rg.gap) /\ out = CoalesceRanges(Reverse(in), rg.gap)
  /\ Bytes(in) \subseteq Bytes(out) /\ \A x \in holes : Bridged(x)
  /\ \A i \in 1..(Len(out) - 1) : EndOf(out[i]) + rg.gap < out[i + 1].off

\* Ranges aligned and then coalesced are disjoint, aligned and contain the input.
AlignCovers ==
  LET out == CoalesceRanges(AlignRanges(rg.a, Block), rg.gap) IN
  /\ Bytes(rg.a) \subseteq Bytes(out)
  /\ \A i \in DOMAIN out : out[i].off % Block = 0 /\ out[i].size % Block = 0
  /\ \A i \in 1..(Len(out) - 1) : EndOf(out[i]) < out[i + 1].off

\* common_sorted_ranges and missing_sorted_ranges split the first list exactly
\* into the bytes the second covers and the bytes it does not.
SplitExact ==
  /\ Bytes(CommonSorted(rg.a, rg.b)) = Bytes(rg.a) \cap Bytes(rg.b)
  /\ Bytes(MissingSorted(rg.a, rg.b)) = Bytes(rg.a) \ Bytes(rg.b)

\* The chunks of a device read deliver every requested byte that the file has,
\* once, in order and at the right place; each chunk's I/O is aligned and at
\* most a chunk long, and each chunk goes to exactly one reactor.
DeviceReadExact ==
  rq.kind = "read" => \A aligned \in BOOLEAN :
    LET asked == SumSeq(rq.segs)
        chunks == DeviceChunks(rq.off, asked, rq.file, aligned)
        n == Len(chunks)
    IN
    /\ SumSeq([i \in 1..n |-> chunks[i].dataSize]) = Clip(rq.off, asked, rq.file)
    /\ \A m \in 1..3 : /\ SumSeq(Groups(n, m)) = n
                       /\ \A i \in 1..n : ReactorOf(n, m, rq.off, i) \in 0..(m - 1)
    /\ \A i \in 1..n : LET c == chunks[i] IN
         /\ c.off + c.dataOff = rq.off + c.dst /\ c.dataOff + c.dataSize <= c.size
         /\ c.size <= Chunk /\ (aligned => c.off % Block = 0)
         /\ i > 1 => c.dst = chunks[i - 1].dst + chunks[i - 1].dataSize
         /\ StagedCopy(c.size, c.dataOff, c.dataSize, rq.cut)
              = [k \in 1..c.dataSize |-> c.dataOff + k - 1]

\* A scatter read split into sub-reads writes the bytes of the file to the same
\* places, in the same order, as the unsplit read would.
ScatterExact ==
  LET segs == TrimSegments(rq.segs, IF rq.file > rq.off THEN rq.file - rq.off ELSE 0)
      subs == SgSplit(rq.off, segs, rq.cut)
      whole == Land(segs, <<1, 0>>, SumSeq(segs)).bytes
  IN rq.kind = "read" =>
  /\ SumSeq(segs) = Clip(rq.off, SumSeq(rq.segs), rq.file)
  /\ Len(whole) = SumSeq(segs) /\ IsInjective(whole)
  /\ FlattenSeq([i \in DOMAIN subs |-> subs[i].dst]) = whole
  /\ \A i \in DOMAIN subs : Len(subs[i].dst) = subs[i].size

\* A slice of a cached range is exactly the requested bytes, whatever the
\* alignment of the physical range and the size of the pool's chunks.
SliceExact ==
  LET size == Clip(rq.off, SumSeq(rq.segs), rq.file)
      logical == ByteRange(rq.off - (rq.off % 3), size + (rq.off % 3))
      phys == UringAlign(logical.off, logical.size, rq.file)
  IN rq.kind = "read" /\ size > 0 =>
       Slice(rq.off, size, logical, phys, rq.cut) = [k \in 1..size |-> rq.off + k - 1]

\* Coalescing, aligning, splitting, device reads, scattering and slicing together
\* read every requested byte to its place and no byte outside the file.
RangesExact ==
    /\ CoalesceCovers
    /\ AlignCovers
    /\ SplitExact
    /\ DeviceReadExact
    /\ ScatterExact
    /\ SliceExact

-----------------------------------------------------------------------------
(* request_context of include/io/types.hpp: what the chunks of one read share. *)
(* `fired` is what the caller's handler was called with: a byte count, the     *)
(* first error, or the safety net's error.                                     *)

NewContext(n) == [pending |-> n, failed |-> FALSE, fired |-> IF n = 0 THEN "value" ELSE "no"]

Fire(c, how) == [c EXCEPT !.fired = IF @ = "no" THEN how ELSE @]

ChunkDone(c) ==
  LET d == [c EXCEPT !.pending = @ - 1]
  IN  IF c.pending = 1 THEN Fire(d, IF d.failed THEN "error" ELSE "value") ELSE d
ChunkFailed(c) == ChunkDone([c EXCEPT !.failed = TRUE])

(* the destructor, when the last chunk has let go of the context *)
Destruct(c) == Fire(c, "net")
=============================================================================
