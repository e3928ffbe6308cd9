----------------------------- MODULE LegacyScan -----------------------------
(***************************************************************************)
(* The table scan of the gpu_processing engine: columns of a DuckDB table  *)
(* are loaded by parallel tasks into a host buffer, copied to the caching  *)
(* region of the GPU, put in storage order and registered, and later scans *)
(* of the same table use them (legacy/operator/gpu_physical_table_scan.cpp,*)
(* legacy/gpu_buffer_manager.cpp).  The filters of a scan run as one       *)
(* kernel whose blocks append the row numbers they select                  *)
(* (legacy/cuda/operator/arbitrary_expression.cu).                         *)
(*                                                                         *)
(* A row of the table is its number; what its cells hold is a function of  *)
(* it.  A cell is <<>> when NULL and <<value>> otherwise; a string is a    *)
(* sequence of characters.  A column in a buffer is a record: "data" by    *)
(* row (or by character for the VARCHAR column "s"), "lens" the lengths    *)
(* (after the prefix sum the offsets) of the strings, "mask" the validity  *)
(* bits.                                                                   *)
(***************************************************************************)
EXTENDS Integers, Sequences, FiniteSets, SequencesExt

CONSTANTS LgBits,          \* bits of a byte of a validity mask
          LgTables,        \* the table: its chunks, deleted rows, NULLs and strings
          LgQueries,       \* scans a query may ask for
          LgThreads,       \* threads of DuckDB's scheduler
          LgWidth,         \* bytes of a fixed-width value, of an offset
          LgPad,           \* bytes a mask is padded to
          LgAlign,         \* alignment of an allocation
          GpuCache,        \* bytes of the caching region on the GPU
          CpuCache,        \* bytes of it that spilled to the host
          LgBlock, LgItems,\* threads of a block, rows of a thread
          MaxLgScans       \* bound: scans of a behaviour

ASSUME LegacyScanAssumption ==
  /\ {LgBits, LgWidth, LgPad, LgAlign, LgBlock, LgItems} \subseteq Nat \ {0}
  /\ {GpuCache, CpuCache, MaxLgScans} \subseteq Nat

VARIABLES lgtab,           \* the DuckDB table: <<>> before there is one
          lgcols,          \* GPUBufferManager::tables: the registered columns
          lgheap,          \* gpuCachingPointer, cpuCachingPointer
          lgscan,          \* the scan operator
          lgcur,           \* the global source state: offset_info_*, mask position
          lgbuf,           \* the host buffers, by column; "rows" the storage row ids
          lgtask           \* the coalesce tasks
lgvars == <<lgtab, lgcols, lgheap, lgscan, lgcur, lgbuf, lgtask>>

-----------------------------------------------------------------------------
(* The table and what DuckDB returns for it.                               *)

Rows == 1 .. Len(lgtab.ids)
ChunkFirst(i) == FoldLeft(LAMBDA a, b : a + b, 1, SubSeq(lgtab.chunks, 1, i - 1))
ChunkRows(i) == ChunkFirst(i) .. ChunkFirst(i) + lgtab.chunks[i] - 1
IsText(c) == c = "s"
Text(r) == [k \in 1 .. lgtab.len[r] |-> (r + k) % 3]
IsNull(c, r) == r \in lgtab.nulls[c]
\* What a vector holds for a row, NULL or not.
Slot(c, r) == IF c = "a" THEN r % 3 ELSE r
Cell(c, r) == IF IsNull(c, r) THEN <<>>
              ELSE IF IsText(c) THEN <<Text(r)>> ELSE <<Slot(c, r)>>

NumRows == Len(lgtab.ids)
SumOver(S, f(_)) == MapThenSumSet(f, S)
TextBytes(r) == IF IsNull("s", r) THEN 0 ELSE lgtab.len[r]
\* GetChunkDataByteSize, and the sum of the lengths for strings.
BytesOf(c, S) == IF IsText(c) THEN SumOver(S, TextBytes) ELSE LgWidth * Cardinality(S)
\* TableScanGetSizeTask.
column_size(c) == BytesOf(c, Rows)
getMaskBytesSize == LgPad * ((((NumRows + LgBits - 1) \div LgBits) + LgPad - 1) \div LgPad)
OffsetSize(c) == IF IsText(c) THEN LgWidth * (NumRows + 1) ELSE 0

-----------------------------------------------------------------------------
(* The caching region.                                                     *)

CacheSize == GpuCache + CpuCache
Aligned(n) == LgAlign * ((n + LgAlign - 1) \div LgAlign)
\* customCudaMalloc(size, 0, caching = 1).
customCudaMalloc(heap, size) ==
  LET n == Aligned(size)
  IN IF ~heap.ok THEN heap
     ELSE IF heap.gpu + n <= GpuCache THEN [heap EXCEPT !.gpu = @ + n]
     ELSE IF heap.cpu + n <= CpuCache THEN [heap EXCEPT !.cpu = @ + n]
     ELSE [heap EXCEPT !.ok = FALSE]
\* ScanDataDuckDBOpt: data, mask and offsets of the columns, in their order.
DeviceSizes(cols) ==
  FlattenSeq([i \in DOMAIN cols |->
    <<column_size(cols[i]), getMaskBytesSize>>
    \o (IF IsText(cols[i]) THEN <<OffsetSize(cols[i])>> ELSE <<>>)])
Allocate(heap, cols) == FoldLeft(customCudaMalloc, heap, DeviceSizes(cols))

NewColumn == [len |-> 0, data |-> <<>>, lens |-> <<>>, mask |-> <<>>]
checkIfColumnCached(c) == c \in DOMAIN lgcols
WithColumns(cols, new) == [c \in DOMAIN cols \cup Range(new) |->
                             IF c \in Range(new) THEN NewColumn ELSE cols[c]]
TotalSize(cols) == SumOver(Range(cols), LAMBDA c : column_size(c) + getMaskBytesSize + OffsetSize(c))

-----------------------------------------------------------------------------
(* One scan.                                                               *)

NoCur == [rowA |-> 0, offA |-> 0, rowU |-> 0, offU |-> 0, bytePos |-> 0, inByte |-> 0]
NoTask == [at |-> "none", chunk |-> 0, rowA |-> 0, offA |-> 0, rowU |-> 0, offU |-> 0]
NoScan == [at |-> "idle", q |-> <<>>, uncached |-> <<>>, rows |-> 0, next |-> 1, out |-> <<>>, n |-> 0]

LgInit ==
  /\ lgtab = <<>> /\ lgcols = <<>> /\ lgbuf = <<>>
  /\ lgheap = [gpu |-> 0, cpu |-> 0, ok |-> TRUE]
  /\ lgscan = NoScan /\ lgcur = NoCur
  /\ lgtask = [t \in LgThreads |-> NoTask]

\* The database and the buffer manager exist.
LgStart ==
  /\ lgtab = <<>>
  /\ \E t \in LgTables : lgtab' = t
  /\ UNCHANGED <<lgcols, lgheap, lgscan, lgcur, lgbuf, lgtask>>

\* InitForTableScanCoalesceTask: the aligned rows grow from the front of the buffers,
\* the others from their end.
InitCursors ==
  LET inByte == NumRows % LgBits
  IN [rowA |-> 0, offA |-> 0, rowU |-> NumRows, offU |-> column_size("s"),
      bytePos |-> IF inByte = 0 THEN (NumRows \div LgBits) - 1 ELSE NumRows \div LgBits,
      inByte |-> IF inByte = 0 THEN LgBits ELSE inByte]

\* The host buffers come from the CPU processing region and hold what was there.
HostBuffers(cols, junk) ==
  [c \in Range(cols) \cup {"rows"} |->
    [data |-> [i \in 0 .. (IF IsText(c) THEN column_size(c) ELSE NumRows) - 1 |-> 0],
     lens |-> [i \in 0 .. (IF IsText(c) THEN NumRows ELSE 0) |-> 0],
     mask |-> [i \in 0 .. getMaskBytesSize * LgBits - 1 |-> junk]]]

\* GetDataDuckDBOpt up to the parallel scan: the columns are registered before they
\* are loaded.
GetDataDuckDB(q) ==
  /\ lgscan.at = "idle" /\ lgscan.n < MaxLgScans
  /\ lgtab # <<>> /\ Range(q.cols) \subseteq lgtab.cols
  /\ LET missing == SelectSeq(q.cols, LAMBDA c : ~checkIfColumnCached(c))
         total == TotalSize(missing)
         full == lgheap.gpu + lgheap.cpu + total >= CacheSize
         load == IF full THEN q.cols ELSE missing
         begin == [NoScan EXCEPT !.q = q, !.n = lgscan.n + 1]
     IN IF q.cols # <<>> /\ missing = <<>>
        THEN /\ lgscan' = [begin EXCEPT !.at = "ready"]
             /\ UNCHANGED <<lgcols, lgheap, lgcur, lgbuf, lgtask>>
        ELSE IF full /\ total > CacheSize
        THEN /\ lgscan' = [begin EXCEPT !.at = "failed"]
             /\ UNCHANGED <<lgcols, lgheap, lgcur, lgbuf, lgtask>>
        ELSE /\ lgscan' = [begin EXCEPT !.at = IF q.cols = <<>> THEN "ready" ELSE "load",
                                        !.uncached = load, !.rows = NumRows]
             /\ lgcols' = WithColumns(IF full THEN <<>> ELSE lgcols, load)
             /\ lgheap' = IF full THEN [gpu |-> 0, cpu |-> 0, ok |-> TRUE] ELSE lgheap
             /\ lgcur' = InitCursors
             /\ \E junk \in BOOLEAN : lgbuf' = HostBuffers(load, junk)
             /\ lgtask' = [t \in LgThreads |-> [NoTask EXCEPT !.at = "take"]]
  /\ UNCHANGED lgtab

-----------------------------------------------------------------------------
(* TableScanCoalesceTask::ExecuteTask.                                     *)

NumUnaligned(i) == lgtab.chunks[i] % LgBits
NumAligned(i) == lgtab.chunks[i] - NumUnaligned(i)
AlignedRows(i) == ChunkFirst(i) .. ChunkFirst(i) + NumAligned(i) - 1
UnalignedRows(i) == ChunkRows(i) \ AlignedRows(i)
After(at, i) ==
  IF at = "take" /\ NumAligned(i) > 0 THEN "aligned"
  ELSE IF at \in {"take", "aligned"} /\ NumUnaligned(i) > 0 THEN "unaligned"
  ELSE "write"

\* function.function: DuckDB gives the next chunk to whichever thread asks.
TakeChunk(t) ==
  /\ lgscan.at = "load" /\ lgtask[t].at = "take"
  /\ LET i == lgscan.next
     IN IF i > Len(lgtab.chunks)
        THEN lgtask' = [lgtask EXCEPT ![t].at = "done"] /\ UNCHANGED lgscan
        ELSE /\ lgtask' = [lgtask EXCEPT ![t].at = After("take", i), ![t].chunk = i]
             /\ lgscan' = [lgscan EXCEPT !.next = i + 1]
  /\ UNCHANGED <<lgtab, lgcols, lgheap, lgcur, lgbuf>>

NextChunkOffsetsAligned(t) ==
  /\ lgtask[t].at = "aligned"
  /\ LET i == lgtask[t].chunk
     IN /\ lgtask' = [lgtask EXCEPT ![t].at = After("aligned", i),
                                    ![t].rowA = lgcur.rowA, ![t].offA = lgcur.offA]
        /\ lgcur' = [lgcur EXCEPT !.rowA = @ + NumAligned(i),
                                  !.offA = @ + BytesOf("s", AlignedRows(i))]
  /\ UNCHANGED <<lgtab, lgcols, lgheap, lgscan, lgbuf>>

\* AssignBits: n bits of a source byte from bit "from" on, to bit "to" of the mask.
AssignBits(mask, bit(_), from, to, n) ==
  [p \in DOMAIN mask |-> IF p \in to .. to + n - 1 THEN bit(from + p - to) ELSE mask[p]]

\* The byte of the chunk's own mask that holds its unaligned rows; bits past the
\* chunk's rows are whatever DuckDB left there.
UnalignedBit(c, i, b) ==
  LET r == ChunkFirst(i) + NumAligned(i) + b IN r \in ChunkRows(i) => ~IsNull(c, r)

PackBits(mask, c, i) ==
  LET n == NumUnaligned(i)
      bit(b) == UnalignedBit(c, i, b)
      at == lgcur.bytePos * LgBits
      n1 == lgcur.inByte
      n2 == n - n1
  IN IF lgcur.inByte >= n THEN AssignBits(mask, bit, 0, at + lgcur.inByte - n, n)
     ELSE AssignBits(AssignBits(mask, bit, n2, at, n1), bit, 0, at - LgBits + LgBits - n2, n2)

NextChunkOffsetsUnaligned(t) ==
  /\ lgtask[t].at = "unaligned"
  /\ LET i == lgtask[t].chunk
         n == NumUnaligned(i)
         cur == [lgcur EXCEPT !.rowU = @ - n, !.offU = @ - BytesOf("s", UnalignedRows(i))]
         left == lgcur.inByte - n
     IN /\ lgtask' = [lgtask EXCEPT ![t].at = "write", ![t].rowU = cur.rowU, ![t].offU = cur.offU]
        /\ lgbuf' = [c \in DOMAIN lgbuf |-> IF c = "rows" THEN lgbuf[c]
                      ELSE [lgbuf[c] EXCEPT !.mask = PackBits(@, c, i)]]
        /\ lgcur' = IF left > 0 THEN [cur EXCEPT !.inByte = left]
                    ELSE [cur EXCEPT !.bytePos = @ - 1, !.inByte = left + LgBits]
  /\ UNCHANGED <<lgtab, lgcols, lgheap, lgscan>>

\* Where row r of a chunk and its characters go.
RowAt(k, r) == IF r \in AlignedRows(k.chunk) THEN k.rowA + r - ChunkFirst(k.chunk)
               ELSE k.rowU + r - ChunkFirst(k.chunk) - NumAligned(k.chunk)
TextAt(k, r) ==
  LET part == IF r \in AlignedRows(k.chunk) THEN AlignedRows(k.chunk) ELSE UnalignedRows(k.chunk)
  IN (IF r \in AlignedRows(k.chunk) THEN k.offA ELSE k.offU)
     + BytesOf("s", {x \in part : x < r})

\* The rows of a chunk in a buffer: data by row, strings by character, lengths, and
\* the bits of the aligned rows, byte by byte.
Fill(c, b, k) ==
  LET rowOf == [p \in {RowAt(k, r) : r \in ChunkRows(k.chunk)} |->
                  CHOOSE r \in ChunkRows(k.chunk) : RowAt(k, r) = p]
      chars == [r \in {x \in ChunkRows(k.chunk) : ~IsNull("s", x)} |->
                  TextAt(k, r) .. TextAt(k, r) + lgtab.len[r] - 1]
      owner(p) == {r \in DOMAIN chars : p \in chars[r]}
  IN IF c = "rows"
     THEN [b EXCEPT !.data = [p \in DOMAIN @ |-> IF p \in DOMAIN rowOf
                                                 THEN lgtab.ids[rowOf[p]] ELSE @[p]]]
     ELSE [data |-> IF IsText(c)
                    THEN [p \in DOMAIN b.data |->
                            IF owner(p) = {} THEN b.data[p]
                            ELSE LET r == CHOOSE x \in owner(p) : TRUE
                                 IN Text(r)[p - TextAt(k, r) + 1]]
                    ELSE [p \in DOMAIN b.data |->
                            IF p \in DOMAIN rowOf THEN Slot(c, rowOf[p]) ELSE b.data[p]],
           lens |-> [p \in DOMAIN b.lens |->
                       IF p - 1 \in DOMAIN rowOf THEN TextBytes(rowOf[p - 1]) ELSE b.lens[p]],
           mask |-> [p \in DOMAIN b.mask |->
                       IF p \in DOMAIN rowOf /\ rowOf[p] \in AlignedRows(k.chunk)
                       THEN ~IsNull(c, rowOf[p]) ELSE b.mask[p]]]

WriteChunk(t) ==
  /\ lgtask[t].at = "write"
  /\ lgbuf' = [c \in DOMAIN lgbuf |-> Fill(c, lgbuf[c], lgtask[t])]
  /\ lgtask' = [lgtask EXCEPT ![t] = [NoTask EXCEPT !.at = "take"]]
  /\ UNCHANGED <<lgtab, lgcols, lgheap, lgscan, lgcur>>

-----------------------------------------------------------------------------
(* The rest of ScanDataDuckDBOpt.                                          *)

\* callCubPrefixSum over the lengths.
LgOffsets(lens) == [i \in DOMAIN lens |-> SumOver(0 .. i, LAMBDA j : lens[j])]
OnDevice(c) == [len |-> NumRows, data |-> lgbuf[c].data, mask |-> lgbuf[c].mask,
                lens |-> LgOffsets(lgbuf[c].lens)]

\* reorderRowIds: entry id of the result is the position the row with that storage id
\* was loaded at; an entry no id names keeps what the memory held.
reorderRowIds(ids, junk) ==
  [i \in 0 .. NumRows - 1 |->
    LET at == {p \in DOMAIN ids : ids[p] = i}
    IN IF at = {} THEN junk ELSE CHOOSE p \in at : TRUE]

\* materializeExpression and materializeString: the column gathered through row ids.
materialize_offset(col, ids) ==
  LET size(i) == col.lens[ids[i] + 1] - col.lens[ids[i]]
  IN LgOffsets([i \in 0 .. Cardinality(DOMAIN ids) |-> IF i = 0 THEN 0 ELSE size(i - 1)])
materialize_string(col, ids, off) ==
  LET row(p) == CHOOSE i \in DOMAIN ids : off[i] <= p /\ p < off[i + 1]
  IN [p \in 0 .. off[Cardinality(DOMAIN ids)] - 1 |->
        col.data[col.lens[ids[row(p)]] + p - off[row(p)]]]
Gather(c, col, ids) ==
  LET off == materialize_offset(col, ids)
  IN [len |-> Cardinality(DOMAIN ids),
      data |-> IF IsText(c) THEN materialize_string(col, ids, off)
               ELSE [i \in DOMAIN ids |-> col.data[ids[i]]],
      lens |-> IF IsText(c) THEN off ELSE col.lens,
      mask |-> [i \in DOMAIN col.mask |-> i \in DOMAIN ids /\ col.mask[ids[i]]]]

\* The loaded column, put in the order of the storage row ids.
InStorageOrder(c, junk) == Gather(c, OnDevice(c), reorderRowIds(lgbuf["rows"].data, junk))

ScansRowIds == NumRows > 1 /\ Len(lgscan.uncached) < Cardinality(lgtab.cols)

LoadColumns ==
  /\ lgscan.at = "load" /\ \A t \in LgThreads : lgtask[t].at = "done"
  /\ LET heap == Allocate(lgheap, lgscan.uncached)
     IN IF ~heap.ok
        THEN /\ lgscan' = [lgscan EXCEPT !.at = "failed"]
             /\ lgheap' = [heap EXCEPT !.ok = TRUE]
             /\ UNCHANGED lgcols
        ELSE /\ lgscan' = [lgscan EXCEPT !.at = "ready"]
             /\ lgheap' = heap
             /\ \E junk \in IF ScansRowIds /\ Range(lgtab.ids) # 0 .. NumRows - 1
                            THEN 0 .. NumRows - 1 ELSE {0} :
                  lgcols' = [c \in DOMAIN lgcols |->
                    IF c \notin Range(lgscan.uncached) THEN lgcols[c]
                    ELSE IF ScansRowIds
                    THEN InStorageOrder(c, junk)
                    ELSE OnDevice(c)]
  /\ lgbuf' = <<>> /\ lgcur' = NoCur /\ lgtask' = [t \in LgThreads |-> NoTask]
  /\ UNCHANGED lgtab

-----------------------------------------------------------------------------
(* GetData: the filters and the output columns.                            *)

Valid(c, i) == lgcols[c].mask[i]
ReadText(c, i) == [k \in 1 .. lgcols[c].lens[i + 1] - lgcols[c].lens[i] |->
                     lgcols[c].data[lgcols[c].lens[i] + k - 1]]
ReadCell(c, i) == IF ~Valid(c, i) THEN <<>>
                  ELSE IF IsText(c) THEN <<ReadText(c, i)>> ELSE <<lgcols[c].data[i]>>

device_comparison(x, y, cmp) ==
  CASE cmp = "=" -> x = y [] cmp = "<>" -> x # y [] cmp = ">" -> x > y
    [] cmp = ">=" -> x >= y [] cmp = "<" -> x < y [] cmp = "<=" -> x <= y
\* The first character that differs decides; without one the lengths are compared
\* with the shorter of the two.
device_comparison_string(s, const, cmp) ==
  LET n == IF Len(s) < Len(const) THEN Len(s) ELSE Len(const)
      differ == {j \in 1 .. n : s[j] # const[j]}
      greater == cmp \in {">", ">="}
      first == CHOOSE j \in differ : \A k \in differ : j <= k
  IN IF cmp = "=" THEN s = const
     ELSE IF cmp = "<>" THEN s # const
     ELSE IF differ # {} THEN IF greater THEN s[first] > const[first] ELSE s[first] < const[first]
     ELSE \/ cmp \in {">=", "<="} /\ Len(s) = n
          \/ greater /\ Len(s) > n
          \/ ~greater /\ Len(s) < n
\* HandleArbitraryConstantExpression: the constants one behind the other, and where
\* each begins; a NULL takes the room of a number.
DataType(f) == IF f.const = <<>> THEN "SQLNULL" ELSE IF IsText(f.col) THEN "VARCHAR" ELSE "INT64"
ConstantBytes(f) == CASE DataType(f) = "SQLNULL" -> <<-1>>
                      [] DataType(f) = "VARCHAR" -> f.const[1] [] OTHER -> f.const
constant_compare(fs) == FlattenSeq([e \in DOMAIN fs |-> ConstantBytes(fs[e])])
constant_offset(fs, e) == Len(constant_compare(SubSeq(fs, 1, e - 1)))
ConstantText(fs, e) == SubSeq(constant_compare(fs), constant_offset(fs, e) + 1, constant_offset(fs, e + 1))

\* Comparison e of the fused kernel on row i.
Passes(fs, e, i) ==
  LET f == fs[e]
  IN IF DataType(f) = "SQLNULL" \/ ~Valid(f.col, i) THEN FALSE
     ELSE IF DataType(f) = "VARCHAR"
     THEN device_comparison_string(ReadText(f.col, i), ConstantText(fs, e), f.cmp)
     ELSE device_comparison(lgcols[f.col].data[i],
                            constant_compare(fs)[constant_offset(fs, e) + 1], f.cmp)

\* The filters that are evaluated: IS_NOT_NULL and optional ones are skipped.
Evaluated(fs) == SelectSeq(fs, LAMBDA f : f.cmp \notin {"is not null", "optional"})
FilterLength(fs) == lgcols[fs[1].col].len

\* table_scan_expression: the rows of a block in the order of its threads, each of
\* which looks at every LgBlock-th row of the tile; the block reserves room for them
\* with one atomicAdd, so the blocks appear in any order.
TileRows(b, n) ==
  SelectSeq([k \in 1 .. LgBlock * LgItems |->
               b * LgBlock * LgItems + ((k - 1) \div LgItems) + ((k - 1) % LgItems) * LgBlock],
            LAMBDA i : i < n)
SelectedBy(fs, b) ==
  SelectSeq(TileRows(b, FilterLength(fs)), LAMBDA i : \A e \in DOMAIN fs : Passes(fs, e, i))
FilterTiles(n) == 0 .. ((n + LgBlock * LgItems - 1) \div (LgBlock * LgItems)) - 1
Orders(S) == {f \in [1 .. Cardinality(S) -> S] : Range(f) = S}

\* The output columns, late materialized through the row ids the filter selected, and
\* the row id column.
OutputRows(q, rows) ==
  [j \in DOMAIN rows |->
    [c \in q.out \cup (IF q.gen THEN {"row"} ELSE {}) |->
       IF c = "row" THEN <<rows[j]>> ELSE ReadCell(c, rows[j])]]
AllRows(q) ==
  LET n == IF q.out = {} THEN lgscan.rows ELSE lgcols[CHOOSE c \in q.out : TRUE].len
  IN [j \in 1 .. n |-> j - 1]

LgGetData ==
  /\ lgscan.at = "ready"
  /\ LET q == lgscan.q
         fs == Evaluated(q.filters)
     IN IF fs = <<>>
        THEN lgscan' = [lgscan EXCEPT !.at = "done", !.out = OutputRows(q, AllRows(q))]
        ELSE \E order \in Orders(FilterTiles(FilterLength(fs))) :
               lgscan' = [lgscan EXCEPT !.at = "done",
                 !.out = OutputRows(q, FlattenSeq([k \in DOMAIN order |-> SelectedBy(fs, order[k])]))]
  /\ UNCHANGED <<lgtab, lgcols, lgheap, lgcur, lgbuf, lgtask>>

\* The query is over; ResetBuffer leaves the cached columns.
LgEnd ==
  /\ lgscan.at \in {"done", "failed"}
  /\ lgscan' = [NoScan EXCEPT !.n = lgscan.n]
  /\ UNCHANGED <<lgtab, lgcols, lgheap, lgcur, lgbuf, lgtask>>

LgNext ==
  \/ LgStart
  \/ \E q \in LgQueries : GetDataDuckDB(q)
  \/ \E t \in LgThreads : \/ TakeChunk(t) \/ NextChunkOffsetsAligned(t)
                          \/ NextChunkOffsetsUnaligned(t) \/ WriteChunk(t)
  \/ LoadColumns
  \/ LgGetData
  \/ LgEnd
LgSpec == LgInit /\ [][LgNext]_lgvars

-----------------------------------------------------------------------------
(* What the scan promises.                                                 *)

Less(s, t) ==
  \/ Len(s) < Len(t) /\ SubSeq(t, 1, Len(s)) = s
  \/ \E j \in DOMAIN s \cap DOMAIN t : /\ s[j] < t[j]
                                       /\ SubSeq(s, 1, j - 1) = SubSeq(t, 1, j - 1)
TrueFor(f, r) ==
  LET x == Cell(f.col, r)
      lt == IF IsText(f.col) THEN Less(x[1], f.const[1]) ELSE x[1] < f.const[1]
      eq == x = f.const
  IN IF f.cmp = "optional" THEN TRUE
     ELSE IF f.cmp = "is not null" THEN x # <<>>
     ELSE IF x = <<>> \/ f.const = <<>> THEN FALSE
     ELSE CASE f.cmp = "=" -> eq [] f.cmp = "<>" -> ~eq [] f.cmp = "<" -> lt
            [] f.cmp = "<=" -> lt \/ eq [] f.cmp = ">" -> ~lt /\ ~eq [] f.cmp = ">=" -> ~lt
WantedRows(q) == {r \in Rows : \A k \in DOMAIN q.filters : TrueFor(q.filters[k], r)}
Count(s, x) == Cardinality({i \in DOMAIN s : s[i] = x})

\* Whatever the threads' order, whichever columns were cached by earlier scans and
\* whatever was evicted in between, a scan returns the rows of the table that pass its
\* filters, each once and with all its cells from that one row
\* (gpu_physical_table_scan.cpp:1170: the row orders of different columns are kept
\* consistent).
ScanExact ==
  lgscan.at = "done" =>
    LET q == lgscan.q
        want == [r \in WantedRows(q) |-> [c \in q.out |-> Cell(c, r)]]
        got == [j \in DOMAIN lgscan.out |-> [c \in q.out |-> lgscan.out[j][c]]]
    IN /\ Len(got) = Cardinality(WantedRows(q))
       /\ \A x \in Range(got) : Count(got, x) = Cardinality({r \in WantedRows(q) : want[r] = x})

\* Between scans a registered column has been loaded with all rows of the table: a
\* later scan that finds it registered reads it without looking further
\* (GPUBufferManager::checkIfColumnCached, gpu_physical_table_scan.cpp:1088 "Create
\* table/columns in gpu and check OOM").
CachedMeansLoaded ==
  lgscan.at = "idle" /\ lgtab # <<>> => \A c \in DOMAIN lgcols : lgcols[c].len = NumRows

=============================================================================
