------------------------------- MODULE HostMemory -------------------------------
EXTENDS Integers, Sequences, SequencesExt, FiniteSets

(***************************************************************************)
(* Parquet bytes in host memory: a scan task reads the byte ranges of its  *)
(* column chunks into the blocks of an allocation                          *)
(* (op/scan/parquet_scan_task.cpp), a converter may copy them to blocks of *)
(* another size (data/host_parquet_representation_converters.cpp), and the *)
(* parquet reader reads the file back through a data source that answers   *)
(* from the blocks (op/scan/cached_ranges.cpp,                             *)
(* op/scan/prefetched_data_source.cpp).  The accessor of such allocations  *)
(* (include/memory/multiple_blocks_allocation_accessor.hpp) is here too.   *)
(*                                                                         *)
(* Byte i of the file is the number i; a range is <<offset, size>>.  A     *)
(* block holds cells, Unwritten before something is written.               *)
(***************************************************************************)

CONSTANTS FileSize,        \* bytes of the file: the header, chunks, and the footer
          HeaderSize,      \* 4: PAR1
          FooterAt,        \* offset of the footer
          BlockSizes,      \* sizes an allocation's blocks may have
          MaxChunks,       \* column chunks of a task
          MaxChunk         \* bytes of a chunk

ASSUME HostAssumption ==
  /\ {FileSize, HeaderSize, FooterAt, MaxChunks, MaxChunk} \subseteq Nat
  /\ HeaderSize <= FooterAt /\ FooterAt < FileSize
  /\ BlockSizes \subseteq Nat \ {0}

VARIABLES chunks,          \* the column chunks of the task, as the reader lists them
          host,            \* the representation: [ranges, blocks, size], <<>> before the read
          reads            \* what was read back: [offset, size, bytes, from], in order
hpvars == <<chunks, host, reads>>

Unwritten == -1
HpInit == chunks = <<>> /\ host = <<>> /\ reads = <<>>

End(r) == r[1] + r[2]
MaxOf(a, b) == IF a > b THEN a ELSE b
MinOf(a, b) == IF a < b THEN a ELSE b
TotalSize(ranges) == FoldLeft(LAMBDA n, r : n + r[2], 0, ranges)

-----------------------------------------------------------------------------
(* Blocks and the cursor that walks them.                                  *)

Blocks(total, size) ==
  [b \in 1 .. (total + size - 1) \div size |-> [i \in 1 .. size |-> Unwritten]]

set_cursor(byte, size) == [index |-> byte \div size, offset |-> byte % size]

\* The pieces <<block, offset, length>> that n bytes from a cursor on fall into.
RECURSIVE Pieces(_, _, _)
Pieces(cursor, size, n) ==
  LET take == MinOf(n, size - cursor.offset)
      after == cursor.offset + take
  IN IF n = 0 THEN <<>>
     ELSE <<[block |-> cursor.index, offset |-> cursor.offset, length |-> take]>>
          \o Pieces(IF after = size THEN [index |-> cursor.index + 1, offset |-> 0]
                    ELSE [cursor EXCEPT !.offset = after],
                    size, n - take)
MoveBy(cursor, size, n) == set_cursor(cursor.index * size + cursor.offset + n, size)

Store(blocks, piece, bytes) ==
  [blocks EXCEPT ![piece.block + 1] =
     [i \in DOMAIN @ |-> IF i \in piece.offset + 1 .. piece.offset + piece.length
                         THEN bytes[i - piece.offset] ELSE @[i]]]
\* memcpy_from and memcpy_to of the accessor: both walk the blocks from the cursor.
memcpy_from(blocks, size, cursor, bytes) ==
  FoldLeft(LAMBDA a, p : [blocks |-> Store(a.blocks, p, SubSeq(bytes, a.done + 1, a.done + p.length)),
                          done |-> a.done + p.length],
           [blocks |-> blocks, done |-> 0], Pieces(cursor, size, Len(bytes))).blocks
memcpy_to(blocks, size, cursor, n) ==
  FlattenSeq([k \in DOMAIN Pieces(cursor, size, n) |->
                LET p == Pieces(cursor, size, n)[k]
                IN SubSeq(blocks[p.block + 1], p.offset + 1, p.offset + p.length)])

-----------------------------------------------------------------------------
(* The scan task's read.                                                   *)

\* Ranges sorted by offset; one that touches or overlaps the current one extends it.
Extended(end, range) == MaxOf(end, End(range))
merge_byte_ranges(ranges) ==
  LET step(a, r) ==
        IF r[1] <= a.end THEN [a EXCEPT !.end = Extended(@, r)]
        ELSE [out |-> Append(a.out, <<a.start, a.end - a.start>>), start |-> r[1], end |-> End(r)]
      sorted == SortSeq(ranges, LAMBDA a, b : a[1] < b[1])
      all == FoldLeft(step, [out |-> <<>>, start |-> sorted[1][1], end |-> End(sorted[1])], sorted)
  IN IF ranges = <<>> THEN <<>> ELSE Append(all.out, <<all.start, all.end - all.start>>)

byte_ranges(cs) ==
  << <<0, HeaderSize>> >> \o merge_byte_ranges(cs) \o << <<FooterAt, FileSize - FooterAt>> >>

FileBytes(r) == [i \in 1 .. r[2] |-> r[1] + i - 1]
read_range_into_allocation(a, size, r) ==
  [blocks |-> memcpy_from(a.blocks, size, a.cursor, FileBytes(r)), cursor |-> MoveBy(a.cursor, size, r[2])]

ReadRanges(cs, size) ==
  LET ranges == byte_ranges(cs)
      start == [blocks |-> Blocks(TotalSize(ranges), size), cursor |-> set_cursor(0, size)]
  IN [ranges |-> ranges, size |-> size,
      blocks |-> FoldLeft(LAMBDA a, r : read_range_into_allocation(a, size, r), start, ranges).blocks]

\* Host to host: pieces no longer than what is left in either block.
RECURSIVE CopyBlocks(_, _, _, _, _, _)
CopyBlocks(src, srcSize, dst, dstSize, done, total) ==
  LET from == set_cursor(done, srcSize)
      to == set_cursor(done, dstSize)
      n == MinOf(total - done, MinOf(srcSize - from.offset, dstSize - to.offset))
      piece == [block |-> to.index, offset |-> to.offset, length |-> n]
  IN IF done = total THEN dst
     ELSE CopyBlocks(src, srcSize,
                     Store(dst, piece, SubSeq(src[from.index + 1], from.offset + 1, from.offset + n)),
                     dstSize, done + n, total)
convert_host_parquet_to_host_parquet(h, size) ==
  LET total == TotalSize(h.ranges)
  IN [ranges |-> h.ranges, size |-> size,
      blocks |-> CopyBlocks(h.blocks, h.size, Blocks(total, size), size, 0, total)]

-----------------------------------------------------------------------------
(* Reading through the cached ranges.                                      *)

\* Neighbouring ranges that touch become one, in the order they are packed.
cache_ranges(ranges) ==
  FoldLeft(LAMBDA out, r : IF out # <<>> /\ End(Last(out)) = r[1]
                           THEN [out EXCEPT ![Len(out)] = <<@[1], @[2] + r[2]>>]
                           ELSE Append(out, r),
           <<>>, ranges)
pack_offset_NoHeader(ranges, i) == TotalSize(SubSeq(ranges, 2, i - 1))
pack_offset(ranges, i) == TotalSize(SubSeq(ranges, 1, i - 1))

\* The range that holds an offset, 0 when none does.
find_range(ranges, offset) ==
  LET at == Cardinality({i \in DOMAIN ranges : ranges[i][1] <= offset})
  IN IF at # 0 /\ offset < End(ranges[at]) THEN at ELSE 0

\* The bytes of a query inside one range, or nothing.
get_ranges(h, offset, n) ==
  LET ranges == cache_ranges(h.ranges)
      at == find_range(ranges, offset)
  IN IF at = 0 THEN <<>>
     ELSE IF offset + n > End(ranges[at]) THEN <<>>
     ELSE <<memcpy_to(h.blocks, h.size,
                      set_cursor(pack_offset(ranges, at) + (offset - ranges[at][1]), h.size), n)>>

\* Host and device reads alike: the cached bytes, or the fallback's.
host_read(h, offset, n) ==
  LET spans == get_ranges(h, offset, n)
  IN IF spans # <<>> THEN [offset |-> offset, size |-> n, bytes |-> spans[1], from |-> "cache"]
     ELSE [offset |-> offset, size |-> n, bytes |-> FileBytes(<<offset, n>>), from |-> "fallback"]

-----------------------------------------------------------------------------
ListChunk ==
  /\ host = <<>> /\ Len(chunks) < MaxChunks
  /\ \E offset \in HeaderSize .. FooterAt - 1, n \in 1 .. MaxChunk :
       offset + n <= FooterAt /\ chunks' = Append(chunks, <<offset, n>>)
  /\ UNCHANGED <<host, reads>>

ReadTask ==
  /\ host = <<>>
  /\ \E size \in BlockSizes : host' = <<ReadRanges(chunks, size)>>
  /\ UNCHANGED <<chunks, reads>>

CopyHost ==
  /\ host # <<>> /\ reads = <<>>
  /\ \E size \in BlockSizes \ {host[1].size} :
       host' = <<convert_host_parquet_to_host_parquet(host[1], size)>>
  /\ UNCHANGED <<chunks, reads>>

ReadBack ==
  /\ host # <<>> /\ reads = <<>>
  /\ \E offset \in 0 .. FileSize - 1, n \in 1 .. FileSize :
       offset + n <= FileSize /\ reads' = <<host_read(host[1], offset, n)>>
  /\ UNCHANGED <<chunks, host>>

HpNext == ListChunk \/ ReadTask \/ CopyHost \/ ReadBack
HpSpec == HpInit /\ [][HpNext]_hpvars

-----------------------------------------------------------------------------
\* A read through the prefetched source returns the file's own bytes, wherever the ranges were
\* merged, packed, cut into blocks and copied.
HostReadExact == \A r \in ToSet(reads) : r.bytes = FileBytes(<<r.offset, r.size>>)

\* A read inside one of the column chunks of the task, the header or the footer is answered from
\* memory: the parquet reader does not go back to the file.
ChunksFromCache ==
  \A r \in ToSet(reads) :
    (\E c \in ToSet(chunks) \cup {<<0, HeaderSize>>, <<FooterAt, FileSize - FooterAt>>} :
       c[1] <= r.offset /\ r.offset + r.size <= End(c)) => r.from = "cache"

-----------------------------------------------------------------------------
(***************************************************************************)
(* Rows in host memory, both ways.  A DuckDB scan task copies the vectors  *)
(* DuckDB returns into one allocation: per column the offsets of its       *)
(* strings, the data and a bit mask of the valid rows                      *)
(* (op/scan/duckdb_scan_task.cpp).  The result collector reads such a      *)
(* table back, a vector at a time (op/result/host_table_chunk_reader.cpp,  *)
(* op/sirius_physical_result_collector.cpp).                               *)
(*                                                                         *)
(* Rows are numbered from 0 in the order they are scanned; row r of a      *)
(* VARCHAR column is a string of r % 3 characters <<r, k>>, of another     *)
(* column the value r.  A byte of the mask is the set of its one bits.     *)
(***************************************************************************)

CONSTANTS MaskByte,        \* bits of a byte
          VectorSize,      \* STANDARD_VECTOR_SIZE
          TableBlock,      \* bytes of a block of the allocation
          OffsetBytes,     \* bytes of a string offset
          ColumnAlign,     \* alignment of a column in the allocation
          VarcharSize,     \* default_varchar_size
          TableTypes,      \* sequences of column types: 0 is VARCHAR, n a width
          BatchSizes,      \* values of approximate_batch_size
          ChunkSizes       \* rows the table function may return at once

ASSUME HostTablesAssumption ==
  /\ {MaskByte, VectorSize, TableBlock, OffsetBytes, ColumnAlign} \subseteq Nat \ {0}
  /\ VarcharSize \in Nat /\ VectorSize % MaskByte = 0 /\ TableBlock % OffsetBytes = 0
  /\ ChunkSizes \subseteq 1 .. VectorSize

VARIABLES builders,        \* the local state of the task: <<>> before it is constructed
          scanned,         \* validity of the rows scanned so far
          reader           \* the reader and what it gave: <<>> before the batch is made
htvars == <<builders, scanned, reader>>

HtInit == builders = <<>> /\ scanned = <<>> /\ reader = <<>>

-----------------------------------------------------------------------------
(* The layout of a batch.                                                  *)

SumSeq(s) == FoldLeft(LAMBDA a, b : a + b, 0, s)
CeilDiv(a, b) == (a + b - 1) \div b
IsVarchar(t) == t = 0
AtLeast(a, b) == IF a > b THEN a ELSE b
AtMost(a, b) == IF a < b THEN a ELSE b

estimate_rows_per_batch(types, size) ==
  LET row == SumSeq([c \in DOMAIN types |->
                       IF IsVarchar(types[c]) THEN OffsetBytes + VarcharSize ELSE types[c]])
             + CeilDiv(Len(types), MaskByte)
      extra == OffsetBytes * Len(SelectSeq(types, IsVarchar))
  IN AtLeast((size - extra) \div row, VectorSize)

DataBytes(t, rows) == rows * (IF IsVarchar(t) THEN VarcharSize ELSE t)
OffsetsBytes(t, rows) == IF IsVarchar(t) THEN (rows + 1) * OffsetBytes ELSE 0
ColumnBytes(t, rows) == OffsetsBytes(t, rows) + DataBytes(t, rows) + CeilDiv(rows, MaskByte)
AlignUp(n) == ColumnAlign * CeilDiv(n, ColumnAlign)

\* initialize_builders: where each column begins.
column_starts(types, rows) ==
  FoldLeft(LAMBDA s, t : Append(s, AlignUp(Last(s)) + ColumnBytes(t, rows)), <<0>>, types)
LayoutEnd(types, rows) == Last(column_starts(types, rows))
ColumnStart(types, rows, c) == AlignUp(column_starts(types, rows)[c])
AllocationBytes(size) == TableBlock * CeilDiv(size, TableBlock)

\* Memory is not cleared: the mask bytes hold what was there.
StartBatch(types, size, garbage) ==
  /\ builders = <<>>
  /\ LET rows == estimate_rows_per_batch(types, size)
     IN builders' = <<[types |-> types, rows |-> rows, size |-> size, failed |-> FALSE,
                       col |-> [c \in DOMAIN types |->
                                  [data |-> <<>>, offsets |-> <<0>>, nulls |-> 0, at |-> 0,
                                   mask |-> [b \in 0 .. CeilDiv(rows, MaskByte) |-> garbage]]]]>>
  /\ UNCHANGED <<scanned, reader>>

-----------------------------------------------------------------------------
(* Copying a chunk.  valid is <<>> when the vector has no mask, else       *)
(* <<the rows that are valid>>.                                            *)

make_mask(n) == 0 .. n - 1
ShiftLeft(byte, k) == {b + k : b \in byte} \cap make_mask(MaskByte)
ShiftRight(byte, k) == {b - k : b \in {x \in byte : x >= k}}
SrcByte(valid, k) == {b \in make_mask(MaskByte) : k * MaskByte + b \in valid}
Put(col, at, byte) == [col EXCEPT !.mask = [@ EXCEPT ![at] = byte]]
IsValid(valid, i) == \A k \in DOMAIN valid : i \in valid[k]

SetBytes(col, n) ==
  [col EXCEPT !.mask = [b \in DOMAIN @ |-> IF b \in col.at .. col.at + n - 1
                                           THEN make_mask(MaskByte) ELSE @[b]],
              !.at = @ + n]

\* process_mask_for_column, no mask: every row is valid.
AllValid(col, n, row_offset) ==
  LET cur == row_offset % MaskByte
      now == IF cur = 0 THEN 0 ELSE AtMost(MaskByte - cur, n)
      first == IF cur = 0 THEN col
               ELSE [Put(col, col.at, col.mask[col.at] \cup ShiftLeft(make_mask(now), cur))
                       EXCEPT !.at = IF now + cur = MaskByte THEN @ + 1 ELSE @]
      full == SetBytes(first, (n - now) \div MaskByte)
      tail == (n - now) % MaskByte
  IN IF tail = 0 THEN full ELSE Put(full, full.at, make_mask(tail))

\* With a mask and the next row at the start of a byte: copy the bytes.
CopyAligned(col, valid, n) ==
  LET full == n \div MaskByte
      tail == n % MaskByte
      copied == [col EXCEPT !.mask = [b \in DOMAIN @ |->
                                        IF b \in col.at .. col.at + full - 1
                                        THEN SrcByte(valid, b - col.at) ELSE @[b]],
                            !.at = @ + full]
  IN IF tail = 0 THEN copied
     ELSE Put(copied, copied.at, SrcByte(valid, full) \cap make_mask(tail))

\* Otherwise every source byte is divided between two bytes of the mask.
DivideByte(acc, src, cur) ==
  LET next == MaskByte - cur
  IN [col |-> [Put(acc.col, acc.col.at, acc.byte \cup ShiftLeft(src \cap make_mask(next), cur))
                 EXCEPT !.at = @ + 1],
      byte |-> ShiftRight(src, next) \cap make_mask(cur)]
CopyUnaligned(col, valid, n, cur) ==
  LET full == n \div MaskByte
      tail == n % MaskByte
      next == MaskByte - cur
      src == SrcByte(valid, full) \cap make_mask(tail)
      acc == FoldLeft(LAMBDA a, k : DivideByte(a, SrcByte(valid, k - 1), cur),
                      [col |-> col, byte |-> col.mask[col.at]], [k \in 1 .. full |-> k])
      low == Put(acc.col, acc.col.at, acc.byte \cup ShiftLeft(src \cap make_mask(next), cur))
  IN IF tail = 0 THEN acc.col
     ELSE IF tail < next THEN low
     ELSE [Put(low, low.at + 1, ShiftRight(src, next) \cap make_mask(cur)) EXCEPT !.at = @ + 1]

process_mask_for_column(col, valid, n, row_offset) ==
  IF valid = <<>> THEN AllValid(col, n, row_offset)
  ELSE LET counted == [col EXCEPT !.nulls = @ + n - Cardinality(valid[1])]
       IN IF row_offset % MaskByte = 0 THEN CopyAligned(counted, valid[1], n)
          ELSE CopyUnaligned(counted, valid[1], n, row_offset % MaskByte)

Length(r) == r % 3
StringBytes(valid, n, row_offset) ==
  SumSeq([i \in 1 .. n |-> IF IsValid(valid, i - 1) THEN Length(row_offset + i - 1) ELSE 0])
sufficient_space(t, col, valid, n, row_offset, rows) ==
  ~IsVarchar(t) \/ StringBytes(valid, n, row_offset) + Len(col.data) <= DataBytes(t, rows)

AppendString(col, valid, i, r) ==
  IF IsValid(valid, i)
  THEN [col EXCEPT !.data = @ \o [k \in 1 .. Length(r) |-> <<r, k>>],
                   !.offsets = Append(@, Last(@) + Length(r))]
  ELSE [col EXCEPT !.offsets = Append(@, Last(@))]
process_column(t, col, valid, n, row_offset) ==
  LET copied == IF IsVarchar(t)
                THEN FoldLeft(LAMBDA c, i : AppendString(c, valid, i - 1, row_offset + i - 1),
                              col, [i \in 1 .. n |-> i])
                ELSE [col EXCEPT !.data = @ \o [i \in 1 .. n |-> row_offset + i - 1]]
  IN process_mask_for_column(copied, valid, n, row_offset)

\* Another chunk is asked for while a whole vector still fits.
BatchFull(b) == VectorSize + Len(scanned) >= b.rows
chunk_fits(b, valid, n) ==
  \A c \in DOMAIN b.types :
    sufficient_space(b.types[c], b.col[c], valid, n, Len(scanned), b.rows)

ProcessChunk(n, valid) ==
  /\ builders # <<>> /\ reader = <<>>
  /\ LET b == builders[1]
     IN /\ ~b.failed /\ (scanned = <<>> \/ ~BatchFull(b))
        /\ IF chunk_fits(b, valid, n)
           THEN /\ builders' = <<[b EXCEPT !.col = [c \in DOMAIN @ |->
                      process_column(b.types[c], @[c], valid, n, Len(scanned))]]>>
                /\ scanned' = scanned \o [i \in 1 .. n |-> IsValid(valid, i - 1)]
           ELSE builders' = <<[b EXCEPT !.failed = TRUE]>> /\ UNCHANGED scanned
  /\ UNCHANGED reader

-----------------------------------------------------------------------------
(* Reading the batch.                                                      *)

\* make_data_batch and the column readers: the mask is there when a row is NULL.
MakeBatch ==
  /\ builders # <<>> /\ scanned # <<>> /\ reader = <<>> /\ ~builders[1].failed
  /\ reader' = <<[row |-> 0, rows |-> [c \in DOMAIN builders[1].types |-> <<>>],
                  col |-> [c \in DOMAIN builders[1].types |->
                             LET at == ColumnStart(builders[1].types, builders[1].rows, c)
                             IN [data |-> 0, mask |-> 0, start |-> at,
                                 block |-> at \div TableBlock, offset |-> at % TableBlock]]]>>
  /\ UNCHANGED <<builders, scanned>>

\* The mask bits of the next count rows.
Validity(col, cur, count) ==
  [i \in 1 .. count |->
     col.nulls = 0 \/ (i - 1) % MaskByte \in col.mask[cur.mask + (i - 1) \div MaskByte]]

OffsetIndex(cur) == (cur.block * TableBlock + cur.offset - cur.start) \div OffsetBytes + 1
AdvanceOffset(cur) ==
  IF cur.offset + OffsetBytes >= TableBlock
  THEN [cur EXCEPT !.block = @ + 1, !.offset = 0] ELSE [cur EXCEPT !.offset = @ + OffsetBytes]

\* make_duckdb_strings: the ends of the strings, a block of offsets at a time; the cursor
\* is left on the last one.
KeepLast(cur) == [cur EXCEPT !.offset = @ - OffsetBytes]
RECURSIVE StringEnds(_, _, _, _)
StringEnds(col, cur, count, ends) ==
  LET here == AtMost(count - Len(ends), (TableBlock - cur.offset) \div OffsetBytes)
      more == ends \o [i \in 1 .. here |-> col.offsets[OffsetIndex(cur) + i - 1]]
      moved == [cur EXCEPT !.offset = @ + here * OffsetBytes]
      left == IF Len(more) = count THEN KeepLast(moved) ELSE moved
      next == IF left.offset = TableBlock THEN [left EXCEPT !.block = @ + 1, !.offset = 0] ELSE left
  IN IF Len(ends) = count THEN [ends |-> ends, cur |-> cur]
     ELSE StringEnds(col, next, count, more)

copy_string(col, cur, row, count) ==
  LET start == col.offsets[OffsetIndex(cur)]
      end == col.offsets[row + count + 1]
      buffer == SubSeq(col.data, cur.data + 1, cur.data + end - start)
      walk == StringEnds(col, AdvanceOffset(cur), count, <<>>)
      from(i) == IF i = 1 THEN start ELSE walk.ends[i - 1]
      valid == Validity(col, cur, count)
  IN [values |-> [i \in 1 .. count |->
                    IF valid[i] THEN <<SubSeq(buffer, from(i) - start + 1, walk.ends[i] - start)>>
                    ELSE <<>>],
      cur |-> [walk.cur EXCEPT !.data = @ + end - start, !.mask = @ + CeilDiv(count, MaskByte)]]
copy_fixed_width(col, cur, count) ==
  LET valid == Validity(col, cur, count)
  IN [values |-> [i \in 1 .. count |->
                    IF valid[i] THEN <<col.data[cur.data + i]>> ELSE <<>>],
      cur |-> [cur EXCEPT !.data = @ + count, !.mask = @ + CeilDiv(count, MaskByte)]]

GetNextChunk ==
  /\ reader # <<>>
  /\ LET r == reader[1]
         b == builders[1]
         count == AtMost(Len(scanned) - r.row, VectorSize)
         got == [c \in DOMAIN b.types |->
                   IF IsVarchar(b.types[c]) THEN copy_string(b.col[c], r.col[c], r.row, count)
                   ELSE copy_fixed_width(b.col[c], r.col[c], count)]
     IN /\ r.row < Len(scanned)
        /\ reader' = <<[row |-> r.row + count,
                        rows |-> [c \in DOMAIN r.rows |-> r.rows[c] \o got[c].values],
                        col |-> [c \in DOMAIN r.col |-> got[c].cur]]>>
  /\ UNCHANGED <<builders, scanned>>

\* Vectors without a mask, with one and no NULL, and with a NULL at some row.
Masks(n) == {<<>>, <<0 .. n - 1>>} \cup {<<(0 .. n - 1) \ {i}>> : i \in 0 .. n - 1}

HtNext ==
  \/ \E types \in TableTypes, size \in BatchSizes, garbage \in {{}, make_mask(MaskByte)} :
       StartBatch(types, size, garbage)
  \/ \E n \in ChunkSizes : \E valid \in Masks(n) : ProcessChunk(n, valid)
  \/ MakeBatch
  \/ GetNextChunk

HtSpec == HtInit /\ [][HtNext]_htvars

-----------------------------------------------------------------------------
(* Properties.                                                             *)

RowValue(t, r) == IF IsVarchar(t) THEN [k \in 1 .. Length(r) |-> <<r, k>>] ELSE r

\* What the collector reads back is what the table function returned: each row once, in
\* order, with its value, and NULL exactly where the vector said so, however the vectors
\* fall over bytes of the mask and blocks of the allocation.
TableRoundTrip ==
  \A k \in DOMAIN reader : \A c \in DOMAIN reader[k].rows :
    reader[k].rows[c] = [i \in 1 .. reader[k].row |->
                           IF scanned[i] THEN <<RowValue(builders[1].types[c], i - 1)>> ELSE <<>>]

\* The rows of a batch never exceed the rows its columns were laid out for, so that no
\* column is written over the next ("We know a priori that the fixed-width columns and
\* masks will fit in the allocated buffers").
RowsWithinLayout ==
  \A k \in DOMAIN builders :
    /\ Len(scanned) <= builders[k].rows
    /\ \A c \in DOMAIN builders[k].col :
         Len(builders[k].col[c].data) <=
           builders[k].rows * (IF IsVarchar(builders[k].types[c]) THEN VarcharSize ELSE 1)

\* ... and the columns laid out lie within the allocation.
LayoutFits ==
  \A k \in DOMAIN builders :
    builders[k].size >= VectorSize * SumSeq(builders[k].types)
      => LayoutEnd(builders[k].types, builders[k].rows) <= AllocationBytes(builders[k].size)
=============================================================================
