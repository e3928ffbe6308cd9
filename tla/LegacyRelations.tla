--------------------------- MODULE LegacyRelations ---------------------------
(***************************************************************************)
(* Late materialization in the legacy engine.  A pipeline does not move    *)
(* rows: a scan hands out the cached columns with a buffer of row ids, and *)
(* filters and joins compose row ids with row ids.  The buffers are        *)
(* allocations of the GPUBufferManager: composing frees the old buffer     *)
(* unless it is locked, and CTEs and hash tables share columns between     *)
(* pipelines.  Values are gathered where an expression, a join key, a sort *)
(* or a limit needs them, and at the end by the result collector, which    *)
(* packs strings into one host buffer and hands out DuckDB vectors.        *)
(*                                                                         *)
(* Beside every relation the model keeps `want', the rows an eager         *)
(* evaluation of the same operators gives, with SQL's NULLs.  `lmdep'      *)
(* names the situations met so far in which the code departs from them.    *)
(***************************************************************************)
EXTENDS Integers, Sequences, FiniteSets, SequencesExt, FiniteSetsExt

CONSTANTS
  LmTables,   \* base tables: sequences of columns [text, cells]; a cell is <<>> or <<v>>
  LmKinds,    \* join kinds tried
  LmVector,   \* STANDARD_VECTOR_SIZE
  LmSteps     \* bound on the operators of a query

VARIABLES
  lmrel,      \* the relation flowing through the current pipeline
  lmside,     \* hash_table_result and materialized_build_key of the join
  lmcte,      \* working_table_gpu of the CTE
  lmbuf,      \* the row id buffers allocated so far
  lmdep,      \* departures from SQL met so far (ghost)
  lmout       \* the rows handed to DuckDB

lmvars == <<lmrel, lmside, lmcte, lmbuf, lmdep, lmout>>

\* cudf::JoinNoMatch, sign-extended: the row id of an unmatched row.
INVALID_ROW_ID == -1
NoBuffer == 0

Nth(s, i) == IF i \in DOMAIN s THEN s[i] ELSE 0
SumUp(s) == FoldLeft(LAMBDA a, b : a + b, 0, s)

-----------------------------------------------------------------------------
(* Columns *)

\* A GPUColumn.  mask = <<>> is a null pointer; ids = NoBuffer when materialized.
Column(text, data, mask) ==
  [text |-> text, data |-> data, mask |-> mask, n |-> Len(data),
   bytes |-> IF text THEN SumUp(data) ELSE 0, ids |-> NoBuffer, count |-> 0]
EmptyColumn(text) == Column(text, <<>>, <<>>)

\* A column of the cache: a NULL is stored as a zero or an empty string.
CachedColumn(c) ==
  Column(c.text, [i \in DOMAIN c.cells |-> IF c.cells[i] = <<>> THEN 0 ELSE c.cells[i][1]],
         [i \in DOMAIN c.cells |-> c.cells[i] # <<>>])

LengthOf(c) == IF c.ids = NoBuffer THEN c.n ELSE c.count
IsValidAt(c, i) == c.mask = <<>> \/ (i \in DOMAIN c.mask /\ c.mask[i])
CellsOf(c) == [i \in 1 .. c.n |-> IF IsValidAt(c, i) THEN <<Nth(c.data, i)>> ELSE <<>>]

\* The materialize kernels: an unmatched row is zero, and NULL if the column has a mask.
Gathered(c, ids) ==
  Column(c.text,
    [i \in DOMAIN ids |-> IF ids[i] = INVALID_ROW_ID THEN 0 ELSE Nth(c.data, ids[i] + 1)],
    IF c.mask = <<>> THEN <<>>
    ELSE [i \in DOMAIN ids |-> ids[i] # INVALID_ROW_ID /\ IsValidAt(c, ids[i] + 1)])

HandleMaterializeExpression(c, bufs) ==
  CASE c.n = 0 \/ (c.ids # NoBuffer /\ c.count = 0) -> EmptyColumn(c.text)
    [] c.n # 0 /\ c.ids # NoBuffer /\ c.count # 0 -> Gathered(c, bufs[c.ids].ids)
    [] OTHER -> [c EXCEPT !.count = 0]

\* FinalMaterialize gathers whenever there are row ids.
FinalMaterialize(c, bufs) ==
  IF c.ids # NoBuffer THEN Gathered(c, bufs[c.ids].ids) ELSE c

-----------------------------------------------------------------------------
(* Row id buffers *)

Buffer(ids) == [ids |-> ids, state |-> "live"]
BuffersOf(cols) == {cols[i].ids : i \in DOMAIN cols} \ {NoBuffer}

\* A locked allocation moves to the table that customCudaFree leaves alone.
lockAllocation(bufs, bs) ==
  [b \in DOMAIN bufs |->
     IF b \in bs /\ bufs[b].state = "live" THEN [bufs[b] EXCEPT !.state = "locked"] ELSE bufs[b]]

customCudaFree(bufs, bs) ==
  [b \in DOMAIN bufs |->
     IF b \in bs /\ bufs[b].state = "live" THEN [bufs[b] EXCEPT !.state = "freed"] ELSE bufs[b]]

\* The buffer a column of the output refers to: the new row ids, or the composition
\* of the column's old row ids with them, made once per old buffer.
ComposedIds(c, r, prevs, n) ==
  IF c.ids = NoBuffer THEN r ELSE n + SelectInSeq(prevs, LAMBDA p : p = c.ids)

\* materializeWithoutNull over a row id buffer: an unmatched row becomes row id 0.
Composed(old, ids) ==
  [i \in DOMAIN ids |-> IF ids[i] = INVALID_ROW_ID THEN 0 ELSE Nth(old, ids[i] + 1)]

\* HandleMaterializeRowIDs, ...LHS and ...RHS: bufs already holds the new row ids at r.
HandleMaterializeRowIDs(cols, count, r, bufs) ==
  IF count = 0
  THEN [cols |-> [i \in DOMAIN cols |-> EmptyColumn(cols[i].text)], bufs |-> bufs]
  ELSE LET prevs == SetToSeq(BuffersOf(cols))
       IN [cols |-> [i \in DOMAIN cols |->
                       [cols[i] EXCEPT !.ids = ComposedIds(cols[i], r, prevs, Len(bufs)),
                                       !.count = count]],
           bufs |-> customCudaFree(bufs, BuffersOf(cols))
                      \o [k \in DOMAIN prevs |->
                            Buffer(Composed(bufs[prevs[k]].ids, bufs[r].ids))]]
\* The same for the output columns of one side of a join.
HandleMaterializeRowIDsLHS(cols, count, r, bufs) == HandleMaterializeRowIDs(cols, count, r, bufs)
HandleMaterializeRowIDsRHS(cols, count, r, bufs) == HandleMaterializeRowIDs(cols, count, r, bufs)

-----------------------------------------------------------------------------
(* Rows of an eager evaluation *)

RowsOf(cols) ==
  [i \in 1 .. (IF cols = <<>> THEN 0 ELSE cols[1].n) |->
     [k \in DOMAIN cols |-> IF IsValidAt(cols[k], i) THEN <<Nth(cols[k].data, i)>> ELSE <<>>]]
NullsRow(k) == [i \in 1 .. k |-> <<>>]

KeyEqual(a, b) == a # <<>> /\ b # <<>> /\ a = b

\* Row i of the left rows with each of its matches, or with NULLs for an outer join.
JoinedRow(kind, left, right, width, i) ==
  LET hits == SelectSeq([j \in DOMAIN right |-> j], LAMBDA j : KeyEqual(left[i][1], right[j][1]))
  IN IF hits = <<>>
     THEN IF kind = "INNER" THEN <<>> ELSE <<left[i] \o NullsRow(width)>>
     ELSE [h \in DOMAIN hits |-> left[i] \o right[hits[h]]]
Unmatched(left, right, width) ==
  LET js == SelectSeq([j \in DOMAIN right |-> j],
                      LAMBDA j : \A i \in DOMAIN left : ~KeyEqual(left[i][1], right[j][1]))
  IN [h \in DOMAIN js |-> NullsRow(width) \o right[js[h]]]

MarkOf(row, right) ==
  IF \E j \in DOMAIN right : KeyEqual(row[1], right[j][1]) THEN <<1>>
  ELSE IF right # <<>> /\ (row[1] = <<>> \/ \E j \in DOMAIN right : right[j][1] = <<>>) THEN <<>>
  ELSE <<0>>

WantedJoin(kind, left, right, lw, rw) ==
  IF kind = "MARK" THEN [i \in DOMAIN left |-> Append(left[i], MarkOf(left[i], right))]
  ELSE FlattenSeq([i \in DOMAIN left |-> JoinedRow(kind, left, right, rw, i)])
         \o (IF kind = "OUTER" THEN Unmatched(left, right, lw) ELSE <<>>)

\* Positions of rows sorted ascending by the key, NULLs last, ties in row order.
SortedBy(keys) ==
  LET before(i, j) ==
        \/ keys[i] # <<>> /\ keys[j] = <<>>
        \/ keys[i] # <<>> /\ keys[j] # <<>> /\ keys[i][1] < keys[j][1]
        \/ keys[i] = keys[j] /\ i < j
  IN SetToSortSeq(DOMAIN keys, before)

-----------------------------------------------------------------------------
Idle == [at |-> "idle", cols |-> <<>>, want |-> <<>>, steps |-> 0]
Nothing == [held |-> FALSE, cols |-> <<>>, key |-> EmptyColumn(FALSE), want |-> <<>>]

LmInit ==
  /\ lmrel = [Idle EXCEPT !.at = "unborn"]
  /\ lmside = Nothing /\ lmcte = Nothing
  /\ lmbuf = <<>> /\ lmdep = {} /\ lmout = <<>>

Running == lmrel.at = "run" /\ lmrel.steps < LmSteps
Becomes(cols, want) ==
  lmrel' = [at |-> "run", cols |-> cols, want |-> want, steps |-> lmrel.steps + 1]
Ends == lmrel' = [Idle EXCEPT !.steps = lmrel.steps + 1]

LmBegin == lmrel.at = "unborn" /\ lmrel' = Idle /\ UNCHANGED <<lmside, lmcte, lmbuf, lmdep, lmout>>

Selected(keys, p) == SelectSeq([i \in DOMAIN keys |-> i - 1],
                               LAMBDA i : keys[i + 1] # <<>> /\ keys[i + 1][1] >= p)
At(rows, ids) == [i \in DOMAIN ids |-> Nth(rows, ids[i] + 1)]

\* GPUPhysicalTableScan::GetData: the cached columns, all with the row ids of the
\* table filter (key >= p) when there is one.
TableScan(t, filtered, p) ==
  /\ lmrel.at = "idle" /\ lmrel.steps < LmSteps
  /\ LET cols == [k \in DOMAIN LmTables[t] |-> CachedColumn(LmTables[t][k])]
         ids == Selected(CellsOf(cols[1]), p)
         r == Len(lmbuf) + 1
     IN IF filtered
        THEN /\ lmbuf' = Append(lmbuf, Buffer(ids))
             /\ Becomes([k \in DOMAIN cols |-> [cols[k] EXCEPT !.ids = r, !.count = Len(ids)]],
                        At(RowsOf(cols), ids))
        ELSE Becomes(cols, RowsOf(cols)) /\ UNCHANGED lmbuf
  /\ UNCHANGED <<lmside, lmcte, lmdep, lmout>>

\* GpuExpressionExecutor::Select with the predicate column k >= p.
Filter(k, p) ==
  /\ Running /\ k \in DOMAIN lmrel.cols
  /\ LET keys == CellsOf(HandleMaterializeExpression(lmrel.cols[k], lmbuf))
         ids == Selected(keys, p)
         bufs == Append(lmbuf, Buffer(ids))
         out == HandleMaterializeRowIDs(lmrel.cols, Len(ids), Len(bufs), bufs)
     IN /\ Becomes(out.cols, SelectSeq(lmrel.want, LAMBDA w : w[k] # <<>> /\ w[k][1] >= p))
        /\ lmbuf' = out.bufs
  /\ UNCHANGED <<lmside, lmcte, lmdep, lmout>>

\* GPUPhysicalProjection: the first column computed anew, the others shared in
\* reverse order.
Computed(c, bufs) ==
  LET m == HandleMaterializeExpression(c, bufs)
  IN IF LengthOf(c) = 0 THEN EmptyColumn(FALSE)
     ELSE Column(FALSE, [i \in 1 .. m.n |-> IF IsValidAt(m, i) THEN m.data[i] + 1 ELSE 0],
                 [i \in 1 .. m.n |-> IsValidAt(m, i)])
Project ==
  /\ Running /\ ~lmrel.cols[1].text
  /\ LET rest == Reverse(Tail(lmrel.cols))
         add(v) == IF v = <<>> THEN <<>> ELSE <<v[1] + 1>>
     IN Becomes(<<Computed(lmrel.cols[1], lmbuf)>> \o rest,
                [i \in DOMAIN lmrel.want |->
                   <<add(lmrel.want[i][1])>> \o Reverse(Tail(lmrel.want[i]))])
  /\ UNCHANGED <<lmside, lmcte, lmbuf, lmdep, lmout>>

\* GPUPhysicalHashJoin::Sink keeps the columns of the build side and its key, materialized.
JoinSink ==
  /\ Running /\ ~lmside.held /\ ~lmrel.cols[1].text
  /\ lmside' = [held |-> TRUE, cols |-> lmrel.cols, want |-> lmrel.want,
                key |-> HandleMaterializeExpression(lmrel.cols[1], lmbuf)]
  /\ Ends
  /\ UNCHANGED <<lmcte, lmbuf, lmdep, lmout>>

\* The cuDF joins: NULL keys are equal (null_equality::EQUAL).
PairsFor(kind, left, right) ==
  LET hits(i) == SelectSeq([j \in DOMAIN right |-> j - 1], LAMBDA j : right[j + 1] = left[i])
      row(i) == IF hits(i) # <<>> THEN [h \in DOMAIN hits(i) |-> <<i - 1, hits(i)[h]>>]
                ELSE IF kind = "INNER" THEN <<>> ELSE << <<i - 1, INVALID_ROW_ID>> >>
      lone == SelectSeq([j \in DOMAIN right |-> j - 1],
                        LAMBDA j : \A i \in DOMAIN left : left[i] # right[j + 1])
  IN FlattenSeq([i \in DOMAIN left |-> row(i)])
       \o (IF kind = "OUTER" THEN [h \in DOMAIN lone |-> <<INVALID_ROW_ID, lone[h]>>] ELSE <<>>)

\* cudf_hash_inner_join and cudf_hash_left_join answer an empty side with no rows,
\* cudf_hash_full_join only when both are empty.
CudfJoin(kind, left, right) ==
  IF (kind # "OUTER" /\ (left = <<>> \/ right = <<>>)) \/ (left = <<>> /\ right = <<>>)
  THEN <<>> ELSE PairsFor(kind, left, right)

\* Where an unmatched row does not come out as NULL: its column already has row ids,
\* or no validity mask.
LosesNulls(cols, ids) ==
  INVALID_ROW_ID \in ToSet(ids)
    /\ \E i \in DOMAIN cols : cols[i].ids # NoBuffer \/ cols[i].mask = <<>>
JoinDepartures(kind, left, right, lcols, rcols, pairs) ==
  LET nulls(keys) == \E i \in DOMAIN keys : keys[i] = <<>>
      ids(s) == [i \in DOMAIN pairs |-> pairs[i][s]]
  IN (IF nulls(left) /\ nulls(right) THEN {"null_keys"} ELSE {})
       \cup (IF kind = "LEFT" /\ right = <<>> /\ left # <<>> THEN {"empty_build"} ELSE {})
       \cup (IF LosesNulls(lcols, ids(1)) \/ LosesNulls(rcols, ids(2))
             THEN {"unmatched_not_null"} ELSE {})

\* GPUPhysicalHashJoin::Execute, INNER, LEFT and OUTER: the left columns are composed,
\* the build side is locked, then its columns are composed.
JoinExecute(kind) ==
  /\ Running /\ lmside.held /\ ~lmrel.cols[1].text /\ kind # "MARK"
  /\ LET left == CellsOf(HandleMaterializeExpression(lmrel.cols[1], lmbuf))
         right == CellsOf(lmside.key)
         pairs == CudfJoin(kind, left, right)
         ids(s) == [i \in DOMAIN pairs |-> pairs[i][s]]
         bufs == lmbuf \o <<Buffer(ids(1)), Buffer(ids(2))>>
         lhs == HandleMaterializeRowIDsLHS(lmrel.cols, Len(pairs), Len(lmbuf) + 1, bufs)
         held == lockAllocation(lhs.bufs, BuffersOf(lmside.cols))
         rhs == HandleMaterializeRowIDsRHS(lmside.cols, Len(pairs), Len(lmbuf) + 2, held)
     IN /\ Becomes(lhs.cols \o rhs.cols,
                   WantedJoin(kind, lmrel.want, lmside.want, Len(lmrel.cols), Len(lmside.cols)))
        /\ lmbuf' = rhs.bufs
        /\ lmdep' = lmdep \cup JoinDepartures(kind, left, right, lmrel.cols, lmside.cols, pairs)
  /\ lmside' = [lmside EXCEPT !.held = FALSE]
  /\ UNCHANGED <<lmcte, lmout>>

\* MARK: the left columns keep their row ids and a BOOLEAN column with an all-valid mask
\* is added; the hash table compares the stored key words and knows no NULLs.
JoinMark ==
  /\ Running /\ lmside.held /\ ~lmrel.cols[1].text /\ "MARK" \in LmKinds
  /\ LET key == HandleMaterializeExpression(lmrel.cols[1], lmbuf)
         mark == [i \in 1 .. key.n |-> IF key.data[i] \in ToSet(lmside.key.data) THEN 1 ELSE 0]
         nulls == \E c \in {key, lmside.key} : \E i \in 1 .. c.n : ~IsValidAt(c, i)
     IN /\ Becomes(Append(lmrel.cols, Column(FALSE, mark, [i \in DOMAIN mark |-> TRUE])),
                   WantedJoin("MARK", lmrel.want, lmside.want, Len(lmrel.cols), 0))
        /\ lmdep' = lmdep \cup (IF nulls THEN {"null_marks"} ELSE {})
  /\ lmside' = [lmside EXCEPT !.held = FALSE]
  /\ UNCHANGED <<lmcte, lmbuf, lmout>>

\* GPUPhysicalCTE::Sink copies the columns and locks their allocations.
CteSink ==
  /\ Running /\ ~lmcte.held
  /\ lmcte' = [Nothing EXCEPT !.held = TRUE, !.cols = lmrel.cols, !.want = lmrel.want]
  /\ lmbuf' = lockAllocation(lmbuf, BuffersOf(lmrel.cols))
  /\ Ends
  /\ UNCHANGED <<lmside, lmdep, lmout>>

CteScan ==
  /\ lmrel.at = "idle" /\ lmcte.held /\ lmrel.steps < LmSteps
  /\ Becomes(lmcte.cols, lmcte.want)
  /\ UNCHANGED <<lmside, lmcte, lmbuf, lmdep, lmout>>

\* GPUPhysicalStreamingLimit::Execute: the data moves by the offset, the mask does not.
Limited(c, limit, offset) ==
  LET skip == Min({offset, c.n})
      take == Min({limit, c.n - skip})
  IN [c EXCEPT !.data = SubSeq(@, skip + 1, skip + take), !.n = take,
               !.bytes = IF ~c.text THEN 0
                         ELSE IF take = 0 THEN @ ELSE SumUp(SubSeq(c.data, 1, skip + take))]
Limit(limit, offset) ==
  /\ Running
  /\ LET cols == [k \in DOMAIN lmrel.cols |-> HandleMaterializeExpression(lmrel.cols[k], lmbuf)]
         shifted == \E k \in DOMAIN cols : cols[k].n > 0 /\ offset > 0 /\ FALSE \in ToSet(cols[k].mask)
     IN /\ Becomes([k \in DOMAIN cols |-> Limited(cols[k], limit, offset)],
                   SubSeq(lmrel.want, offset + 1, Min({offset + limit, Len(lmrel.want)})))
        /\ lmdep' = lmdep \cup (IF shifted THEN {"mask_not_shifted"} ELSE {})
  /\ UNCHANGED <<lmside, lmcte, lmbuf, lmout>>

\* GPUPhysicalOrder::Sink and GetData: every column materialized and gathered in the
\* order of the first, which setFromCudfColumn always gives a mask.
Sorted(c, perm) ==
  IF perm = <<>> THEN EmptyColumn(c.text)
  ELSE Column(c.text, [i \in DOMAIN perm |-> Nth(c.data, perm[i])],
              [i \in DOMAIN perm |-> IsValidAt(c, perm[i])])
Order ==
  /\ Running
  /\ LET cols == [k \in DOMAIN lmrel.cols |-> HandleMaterializeExpression(lmrel.cols[k], lmbuf)]
         perm == SortedBy(CellsOf(cols[1]))
         want == SortedBy([i \in DOMAIN lmrel.want |-> lmrel.want[i][1]])
     IN Becomes([k \in DOMAIN cols |-> Sorted(cols[k], perm)],
                [i \in DOMAIN want |-> lmrel.want[want[i]]])
  /\ UNCHANGED <<lmside, lmcte, lmbuf, lmdep, lmout>>

-----------------------------------------------------------------------------
(* The result collector *)

\* The mask of a vector starts at the mask of the column, whichever vector it is.
VectorCell(c, i) ==
  LET bit == ((i - 1) % LmVector) + 1
  IN IF IsValidAt(c, bit) THEN <<Nth(c.data, i)>> ELSE <<>>
VectorRows(cols) ==
  [i \in 1 .. cols[1].n |-> [k \in DOMAIN cols |-> VectorCell(cols[k], i)]]

\* The host buffer for strings is sized from the columns before they are materialized.
Texts(cols) == SelectSeq(cols, LAMBDA c : c.text)
StringRoom(cols) == SumUp([i \in DOMAIN Texts(cols) |-> Texts(cols)[i].n])
CharRoom(cols) == SumUp([i \in DOMAIN Texts(cols) |-> Texts(cols)[i].bytes])

\* ConvertGPUTableToCPUCollection: a column without rows ends the conversion.
Collect ==
  /\ lmrel.at = "run"
  /\ LET cols == [k \in DOMAIN lmrel.cols |-> FinalMaterialize(lmrel.cols[k], lmbuf)]
         none == \E k \in DOMAIN lmrel.cols : LengthOf(lmrel.cols[k]) = 0
         short == StringRoom(cols) > StringRoom(lmrel.cols) \/ CharRoom(cols) > CharRoom(lmrel.cols)
         vectors == \E k \in DOMAIN cols : cols[k].n > LmVector /\ FALSE \in ToSet(cols[k].mask)
     IN /\ lmout' = (IF none THEN <<>> ELSE VectorRows(cols))
        /\ lmdep' = lmdep \cup (IF none THEN {} ELSE
             (IF short THEN {"strings_overflow"} ELSE {}) \cup (IF vectors THEN {"vector_masks"} ELSE {}))
  /\ lmrel' = [lmrel EXCEPT !.at = "done"]
  /\ UNCHANGED <<lmside, lmcte, lmbuf>>

LmNext ==
  \/ LmBegin
  \/ \E t \in DOMAIN LmTables, f \in BOOLEAN : TableScan(t, f, 1)
  \/ \E k \in 1 .. 3 : Filter(k, 1)
  \/ Project \/ JoinSink \/ JoinMark \/ CteSink \/ CteScan \/ Order \/ Collect
  \/ \E kind \in LmKinds : JoinExecute(kind)
  \/ \E limit \in 1 .. 2, offset \in 0 .. 1 : Limit(limit, offset)

LmSpec == LmInit /\ [][LmNext]_lmvars

-----------------------------------------------------------------------------
\* The rows the result collector hands out are those of an eager evaluation of the same
\* operators: composing row ids, sharing columns and gathering late lose, repeat or
\* mix up no value, unless the query met one of the situations in lmdep.
CollectedExact == (lmrel.at = "done" /\ lmdep = {}) => lmout = lmrel.want

\* No column that a pipeline can still read (the current relation, the build side of
\* a join, the working table of a CTE) refers to a row id buffer that was freed.
NoDanglingRowIds ==
  \A b \in BuffersOf(lmrel.cols) \cup BuffersOf(lmcte.cols)
             \cup (IF lmside.held THEN BuffersOf(lmside.cols) ELSE {}) :
    lmbuf[b].state # "freed"

\* Unmatched rows of an outer join come out as NULLs.
UnmatchedRowsAreNull == lmrel.at = "done" /\ lmdep \subseteq {"unmatched_not_null"} => lmout = lmrel.want

\* Every vector of a result has the NULLs of its own rows.
VectorsHaveTheirNulls == lmrel.at = "done" /\ lmdep \subseteq {"vector_masks"} => lmout = lmrel.want

\* The strings of the result fit the buffer allocated for them.
StringsFit == "strings_overflow" \notin lmdep
=============================================================================
