---------------------------- MODULE LegacyTopN ----------------------------
(***************************************************************************)
(* ORDER BY ... LIMIT on the legacy GPU path: GPUPhysicalTopN::Sink and    *)
(* ::GetData, and the router cudf_orderby with its three engines: a heap   *)
(* per thread merged per block and then globally (num_results <=           *)
(* MAX_THREAD_TOP_K), a radix sort on a one-word key prefix followed by an *)
(* exact sort of the candidates (one key column), and the full sort of     *)
(* libcudf (external).                                                     *)
(*                                                                         *)
(* A key column is [type, cells]; a cell is <<>> (NULL) or <<raw>>.  The   *)
(* word that a raw value is mapped to has KeyWord values instead of 2^64.  *)
(* Raw values: an integer (INT_64, and INT_32 with half of the bits), the  *)
(* bits of a floating point number (DOUBLE), <<high, low>> (INT_128), a    *)
(* sequence of bytes (STRING).                                             *)
(***************************************************************************)
EXTENDS Integers, Sequences, FiniteSets, SequencesExt

CONSTANTS
  KeyBits,        \* bits of the primary key word (64 in the code)
  ByteValues,     \* values of one byte of a string
  PrefixBytes,    \* bytes of a string that the key word holds (8)
  MAX_THREAD_TOP_K,
  TopThreads,     \* threads per block of the first heap kernel (256)
  TopBlocks,      \* most blocks of the first heap kernel (256)
  TopQueries      \* the queries: [keys, asc, text, limit, offset]

ASSUME PrefixFitsWord == ByteValues ^ PrefixBytes = 2 ^ KeyBits

VARIABLES
  topq,           \* the running query, <<>> before it starts
  topstep,        \* what the host does next
  cands,          \* the record buffers of the running engine
  sorted,         \* sort_result: [rows, text] of the materialized rows
  topout          \* the relation GetData returned

topvars == <<topq, topstep, cands, sorted, topout>>

KeyWord == 2 ^ KeyBits
SignBit == 2 ^ (KeyBits - 1)
AllOnes == KeyWord - 1
HalfBits == KeyBits \div 2

\* row_id 0xFFFFFFFF of an unused slot of a candidate buffer
NoRecord == [row |-> -1, pk |-> 0]

NumRecords(q) == Len(q.keys[1].cells)

is_row_null(col, row) == col.cells[row] = <<>>

(***************************************************************************)
(* load_primary_key_as_u64: an order preserving word for each type, equal  *)
(* for values that only the exact comparison can tell apart.               *)
(***************************************************************************)
StringPrefix(s) ==
  LET byte(i) == IF i <= Len(s) THEN s[i] ELSE 0
  IN  FoldLeft(LAMBDA word, i : word * ByteValues + byte(i), 0,
               [i \in 1..PrefixBytes |-> i])

\* bits ^ ((int64_t(bits) >> 63) | 0x8000...): flips every bit of a negative
\* number and the sign bit of the others.
DoubleKey(bits) ==
  IF bits >= SignBit THEN AllOnes - bits ELSE bits + SignBit

load_primary_key(col, row) ==
  LET raw == col.cells[row][1]
  IN  IF is_row_null(col, row)
      THEN AllOnes
      ELSE CASE col.type = "INT_64"  -> (raw + SignBit) % KeyWord
             [] col.type = "INT_32"  ->
                  ((raw + 2 ^ (HalfBits - 1)) % 2 ^ HalfBits)
                    * 2 ^ (KeyBits - HalfBits)
             [] col.type = "DOUBLE"  -> DoubleKey(raw)
             [] col.type = "INT_128" -> (raw[1] + SignBit) % KeyWord
             [] col.type = "STRING"  -> StringPrefix(raw)

(***************************************************************************)
(* compare_rows_multi_col: -1, 0 or 1.                                     *)
(***************************************************************************)
Sign(a, b) == IF a > b THEN 1 ELSE IF a < b THEN -1 ELSE 0

FloatValue(bits) == IF bits >= SignBit THEN SignBit - bits ELSE bits

CompareBytes(s, t) ==
  LET common == IF Len(s) < Len(t) THEN Len(s) ELSE Len(t)
      differ == {k \in 1..common : s[k] # t[k]}
  IN  IF differ = {}
      THEN Sign(Len(s), Len(t))
      ELSE LET k == CHOOSE k \in differ : \A d \in differ : k <= d
           IN  Sign(s[k], t[k])

CompareRaw(type, a, b) ==
  CASE type \in {"INT_64", "INT_32"} -> Sign(a, b)
    [] type = "DOUBLE"  -> Sign(FloatValue(a), FloatValue(b))
    [] type = "INT_128" -> IF a[1] # b[1] THEN Sign(a[1], b[1])
                                          ELSE Sign(a[2], b[2])
    [] type = "STRING"  -> CompareBytes(a, b)

CompareCells(col, a, b) ==
  CASE is_row_null(col, a) /\ is_row_null(col, b) -> 0
    [] is_row_null(col, a) /\ ~is_row_null(col, b) -> 1
    [] ~is_row_null(col, a) /\ is_row_null(col, b) -> -1
    [] OTHER -> CompareRaw(col.type, col.cells[a][1], col.cells[b][1])

compare_rows_multi_col(q, a, b) ==
  LET cmp(i)  == IF q.asc[i] THEN CompareCells(q.keys[i], a, b)
                             ELSE -CompareCells(q.keys[i], a, b)
      differ  == {i \in DOMAIN q.keys : cmp(i) # 0}
  IN  IF differ = {}
      THEN 0
      ELSE cmp(CHOOSE i \in differ : \A d \in differ : i <= d)

\* CustomExactSortComparator, and the swap test of insert_into_heap
Precedes(q, r, s) ==
  IF r.pk # s.pk
  THEN IF q.asc[1] THEN r.pk < s.pk ELSE r.pk > s.pk
  ELSE compare_rows_multi_col(q, r.row, s.row) < 0

(***************************************************************************)
(* Engine A.  insert_into_heap keeps at most "limit" records sorted; a     *)
(* record that does not precede the worst one of a full heap is dropped.   *)
(***************************************************************************)
HeapPos(q, heap, rec) ==
  1 + Max({0} \cup {i \in DOMAIN heap : ~Precedes(q, rec, heap[i])})

insert_into_heap(q, heap, rec, limit) ==
  LET kept == IF Len(heap) < limit THEN heap ELSE Front(heap)
  IN  IF Len(heap) < limit \/ Precedes(q, rec, heap[limit])
      THEN InsertAt(kept, HeapPos(q, kept, rec), rec)
      ELSE heap

\* The records of one heap, padded with unused slots.
Padded(heap, limit) ==
  [i \in 1..limit |-> IF i <= Len(heap) THEN heap[i] ELSE NoRecord]

\* Runs every used record through one heap.
TopOf(q, records, limit) ==
  Padded(FoldLeft(LAMBDA heap, rec : IF rec.row = NoRecord.row THEN heap
                                     ELSE insert_into_heap(q, heap, rec, limit),
                  <<>>, records), limit)

RecordOf(q, row) == [row |-> row, pk |-> load_primary_key(q.keys[1], row)]

\* limit + offset: how many rows the sort has to deliver
NumResults(q) == q.limit + q.offset

Least(a, b) == IF a < b THEN a ELSE b

NumBlocks(q) == Least((NumRecords(q) + TopThreads - 1) \div TopThreads, TopBlocks)

\* The rows tid, tid + stride, ... of thread tid (1-based)
ThreadRecords(q, tid) ==
  LET stride == TopThreads * NumBlocks(q)
  IN  [i \in 1..((NumRecords(q) - tid + stride) \div stride) |->
         RecordOf(q, tid + (i - 1) * stride)]

(***************************************************************************)
(* The router.                                                             *)
(***************************************************************************)
UsesHeaps(q) == NumResults(q) <= MAX_THREAD_TOP_K
UsesRadix(q) == ~UsesHeaps(q) /\ Len(q.keys) = 1

TnInit ==
  /\ topq = <<>>
  /\ topstep = "idle"
  /\ cands = <<>>
  /\ sorted = <<>>
  /\ topout = <<>>

\* GPUPhysicalTopN::Sink up to the call of an engine
TopSink ==
  /\ topstep = "idle"
  /\ \E q \in TopQueries :
       /\ topq' = <<q>>
       /\ topstep' = CASE UsesHeaps(q) -> "threads"
                       [] UsesRadix(q) -> "radix"
                       [] OTHER        -> "cudf"
  /\ UNCHANGED <<cands, sorted, topout>>

per_thread_multi_col_top_k_kernel ==
  /\ topstep = "threads"
  /\ LET q == topq[1]
         k == NumResults(q)
     IN  cands' = FlattenSeq([tid \in 1..(TopThreads * NumBlocks(q)) |->
                                TopOf(q, ThreadRecords(q, tid), k)])
  /\ topstep' = "blocks"
  /\ UNCHANGED <<topq, sorted, topout>>

\* Block b reads the slots of its own threads only.
per_block_multi_col_top_k_kernel ==
  /\ topstep = "blocks"
  /\ LET q    == topq[1]
         k    == NumResults(q)
         mine == TopThreads * k
     IN  cands' = FlattenSeq([b \in 1..NumBlocks(q) |->
                    TopOf(q, SubSeq(cands, (b - 1) * mine + 1, b * mine), k)])
  /\ topstep' = "global"
  /\ UNCHANGED <<topq, sorted, topout>>

global_final_multi_col_top_k_kernel ==
  /\ topstep = "global"
  /\ LET q == topq[1]
     IN  cands' = TopOf(q, cands, Least(NumResults(q), NumRecords(q)))
  /\ topstep' = "materialize"
  /\ UNCHANGED <<topq, sorted, topout>>

(***************************************************************************)
(* Engine B.  The stable radix sort orders by the key word only; the       *)
(* candidates are the first num_results records and everything that ties   *)
(* with the last of them.                                                  *)
(***************************************************************************)
find_candidate_cutoff(recs, limit) ==
  IF limit >= Len(recs)
  THEN Len(recs)
  ELSE Max({i \in limit..Len(recs) :
              \A j \in limit..i : recs[j].pk = recs[limit].pk})

RadixSorted(q) ==
  SortSeq([row \in 1..NumRecords(q) |-> RecordOf(q, row)],
          LAMBDA r, s : \/ (IF q.asc[1] THEN r.pk < s.pk ELSE r.pk > s.pk)
                        \/ r.pk = s.pk /\ r.row < s.row)

CustomSingleColumnRadixTopN ==
  /\ topstep = "radix"
  /\ LET q      == topq[1]
         recs   == RadixSorted(q)
         cutoff == find_candidate_cutoff(recs, NumResults(q))
         exact  == SortSeq(SubSeq(recs, 1, cutoff),
                           LAMBDA r, s : Precedes(q, r, s))
     IN  cands' = SubSeq(exact, 1, Least(NumResults(q), cutoff))
  /\ topstep' = "materialize"
  /\ UNCHANGED <<topq, sorted, topout>>

\* The full sort of libcudf, NULLs after in ascending order and before in
\* descending order.  It delivers every row.
sorted_order ==
  /\ topstep = "cudf"
  /\ LET q == topq[1]
     IN  cands' = SortSeq([row \in 1..NumRecords(q) |-> RecordOf(q, row)],
                          LAMBDA r, s : compare_rows_multi_col(q, r.row, s.row) < 0)
  /\ topstep' = "materialize"
  /\ UNCHANGED <<topq, sorted, topout>>

(***************************************************************************)
(* MaterializeResults: a VARCHAR payload is [offsets, chars, valid].       *)
(***************************************************************************)
Offsets(strings) ==
  [i \in 1..(Len(strings) + 1) |->
     FoldLeft(LAMBDA n, s : n + Len(s), 0, SubSeq(strings, 1, i - 1))]

Varchar(cells) ==
  LET strings == [i \in DOMAIN cells |-> IF cells[i] = <<>> THEN <<>> ELSE cells[i][1]]
  IN  [offsets |-> Offsets(strings),
       chars   |-> FlattenSeq(strings),
       valid   |-> [i \in DOMAIN cells |-> cells[i] # <<>>]]

MaterializeResults ==
  /\ topstep = "materialize"
  /\ LET q == topq[1]
     IN  sorted' = <<[rows |-> [i \in DOMAIN cands |-> cands[i].row],
                      text |-> Varchar([i \in DOMAIN cands |-> q.text[cands[i].row]])]>>
  /\ topstep' = "source"
  /\ UNCHANGED <<topq, cands, topout>>

(***************************************************************************)
(* GPUPhysicalTopN::GetData: skips "offset" rows by moving the pointers,   *)
(* rebases the string offsets and copies the validity bits.                *)
(***************************************************************************)
Rebased(offsets, skipped) == [i \in DOMAIN offsets |-> offsets[i] - skipped]

GetData ==
  /\ topstep = "source"
  /\ LET q     == topq[1]
         rows  == sorted[1].rows
         text  == sorted[1].text
         take  == Least(q.limit, Len(rows) - q.offset)
         moved == SubSeq(text.offsets, q.offset + 1, q.offset + take + 1)
     IN  topout' =
           IF q.offset >= Len(rows)
           THEN <<[rows |-> <<>>, text |-> Varchar(<<>>)]>>
           ELSE <<[rows |-> SubSeq(rows, q.offset + 1, q.offset + take),
                   text |-> [offsets |-> Rebased(moved, moved[1]),
                             chars   |-> SubSeq(text.chars, moved[1] + 1, Len(text.chars)),
                             valid   |-> SubSeq(text.valid, q.offset + 1, q.offset + take)]]>>
  /\ topstep' = "done"
  /\ UNCHANGED <<topq, cands, sorted>>

TnNext ==
  \/ TopSink
  \/ per_thread_multi_col_top_k_kernel
  \/ per_block_multi_col_top_k_kernel
  \/ global_final_multi_col_top_k_kernel
  \/ CustomSingleColumnRadixTopN
  \/ sorted_order
  \/ MaterializeResults
  \/ GetData

TnSpec == TnInit /\ [][TnNext]_topvars

(***************************************************************************)
(* The reference.  ORDER BY leaves the order of equal rows open.           *)
(***************************************************************************)
SqlLess(q, a, b) ==
  LET cmp(i) == IF q.asc[i] THEN CompareCells(q.keys[i], a, b)
                            ELSE CompareCells(q.keys[i], b, a)
  IN  \E i \in DOMAIN q.keys : cmp(i) < 0 /\ \A j \in 1..(i - 1) : cmp(j) = 0

\* The rows before and in the output of a query, as sets that a correct
\* sort could have put there.
IsTopN(q, out) ==
  LET n      == NumRecords(q)
      rank(r) == {s \in 1..n : SqlLess(q, s, r)}
      ties(r) == {s \in 1..n : ~SqlLess(q, s, r) /\ ~SqlLess(q, r, s)}
  IN  /\ Len(out) = Max({0, Least(q.limit, n - q.offset)})
      /\ IsInjective(out)
      /\ \A i \in DOMAIN out :
           /\ Cardinality(rank(out[i])) < q.offset + i
           /\ q.offset + i <= Cardinality(rank(out[i])) + Cardinality(ties(out[i]))

CellOf(text, i) ==
  IF text.valid[i]
  THEN <<SubSeq(text.chars, text.offsets[i] + 1, text.offsets[i + 1])>>
  ELSE <<>>

\* Whichever engine the router picks, the rows of the output are rows
\* offset + 1 .. offset + limit of some sort of the input by the ORDER BY
\* keys, NULL being the largest value: the one-word key of
\* load_primary_key_as_u64 never hides a row that precedes one that is kept.
TopNExact ==
  topstep = "done" => IsTopN(topq[1], topout[1].rows)

\* The strings and NULLs of the output are those of the output's rows after
\* MaterializeResults gathered them and GetData moved data, offset and
\* validity pointers past the skipped rows.
TopNPayload ==
  topstep = "done" =>
    \A i \in DOMAIN topout[1].rows :
      CellOf(topout[1].text, i) = topq[1].text[topout[1].rows[i]]
=============================================================================
