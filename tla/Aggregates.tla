------------------------------- MODULE Aggregates -------------------------------
(***************************************************************************)
(* Aggregation: the planner's projection of the aggregate arguments, the   *)
(* local aggregation of every batch, the hash partitioning of the partial  *)
(* rows and the merge.  A cell is <<>> (NULL) or <<v>>; a row is a         *)
(* sequence of cells, a column one cell per row.                           *)
(*                                                                         *)
(* An aggregate expression is [fn, arg, distinct, filter]: arg and filter  *)
(* are source columns, 0 for none.                                         *)
(***************************************************************************)
EXTENDS Integers, Sequences, SequencesExt, FiniteSets

CONSTANTS
    AggCells,      \* the cells a source column may hold
    AggGroups,     \* the group-by lists explored (sequences of source columns)
    AggLists,      \* the lists of aggregate expressions explored
    MaxAggRows,    \* rows over all batches
    MaxAggBatches, \* batches
    MaxPartitions, \* partitions of a grouped aggregate
    SumBits        \* width of BIGINT

VARIABLES
    aplan,   \* the physical operator: groups, aggregates and the projection below it
    abatch,  \* the batches of the operator below, each a sequence of source rows
    alocal,  \* the partial result of each batch that was aggregated
    amerged  \* the merged rows of each partition that was merged

avars == <<aplan, abatch, alocal, amerged>>

NullAgg == <<>>
SourceColumns == 1 .. 2

AInit ==
    /\ aplan = [stage |-> "none"]
    /\ abatch = <<>>
    /\ alocal = <<>>
    /\ amerged = <<>>

-----------------------------------------------------------------------------
(* Planning *)

\* What an aggregate adds to the projection: its argument, then its filter.
ArgumentsOf(a) ==
    (IF a.arg = 0 THEN <<>> ELSE <<a.arg>>) \o (IF a.filter = 0 THEN <<>> ELSE <<a.filter>>)

\* extract_aggregate_expressions: groups first, then each aggregate's arguments;
\* the expressions are replaced by references to the projected columns.
ProjectionOf(groups, aggs) ==
    groups \o FlattenSeq([i \in DOMAIN aggs |-> ArgumentsOf(aggs[i])])

ArgumentRef(groups, aggs, i) ==
    Len(groups) + Len(FlattenSeq([j \in 1 .. (i - 1) |-> ArgumentsOf(aggs[j])])) + 1

\* The aggregate expression after translation: the filter is not part of it.
GroupByTranslated(groups, aggs) ==
    [i \in DOMAIN aggs |->
        [fn |-> aggs[i].fn, distinct |-> aggs[i].distinct,
         col |-> IF aggs[i].arg = 0 THEN 0 ELSE ArgumentRef(groups, aggs, i)]]

\* A distinct ungrouped aggregate and a grouped first() are refused.
Supported(groups, aggs) ==
    IF groups = <<>>
    THEN \A i \in DOMAIN aggs : ~aggs[i].distinct
    ELSE \A i \in DOMAIN aggs : aggs[i].fn # "first"

PlanAggregate(groups, aggs) ==
    /\ aplan.stage = "none"
    /\ Supported(groups, aggs)
    /\ aplan' = [stage |-> "input", groups |-> groups, aggs |-> aggs,
                 exprs |-> GroupByTranslated(groups, aggs),
                 projection |-> ProjectionOf(groups, aggs)]
    /\ UNCHANGED <<abatch, alocal, amerged>>

-----------------------------------------------------------------------------
(* Input *)

RowCount == Len(FlattenSeq(abatch))

OpenBatch ==
    /\ aplan.stage = "input" /\ Len(abatch) < MaxAggBatches
    /\ abatch' = Append(abatch, <<>>)
    /\ UNCHANGED <<aplan, alocal, amerged>>

\* A row enters the last open batch.
AddRow(row) ==
    /\ aplan.stage = "input" /\ abatch # <<>> /\ RowCount < MaxAggRows
    /\ abatch' = [abatch EXCEPT ![Len(abatch)] = Append(@, row)]
    /\ UNCHANGED <<aplan, alocal, amerged>>

-----------------------------------------------------------------------------
(* Reductions *)

ValidCells(col) == SelectSeq(col, LAMBDA c : c # NullAgg)

\* Two's complement addition on SumBits bits.
Wrapped(n) ==
    LET m == 2 ^ SumBits
        r == n % m
    IN  IF r >= m \div 2 THEN r - m ELSE r

SumOf(col) == FoldLeft(LAMBDA s, c : s + c[1], 0, col)
LeastOf(col) == CHOOSE m \in ToSet(col) : \A c \in ToSet(col) : m[1] <= c[1]
GreatestOf(col) == CHOOSE m \in ToSet(col) : \A c \in ToSet(col) : m[1] >= c[1]

\* cudf::reduce and the groupby aggregations: NULLs are skipped, no value gives NULL.
Reduce(kind, col) ==
    LET v == ValidCells(col)
    IN  CASE kind = "COUNT_ALL"   -> <<Len(col)>>
          [] kind = "COUNT_VALID" -> <<Len(v)>>
          [] kind = "COLLECT_SET" -> <<{c[1] : c \in ToSet(v)}>>
          [] kind = "MERGE_SETS"  -> <<UNION {c[1] : c \in ToSet(v)}>>
          [] kind = "NTH_ELEMENT" -> IF col = <<>> THEN NullAgg ELSE col[1]
          [] v = <<>>             -> NullAgg
          [] kind = "SUM"         -> <<Wrapped(SumOf(v))>>
          [] kind = "MIN"         -> LeastOf(v)
          [] kind = "MAX"         -> GreatestOf(v)

ColumnOf(rows, c) == [r \in DOMAIN rows |-> rows[r][c]]

-----------------------------------------------------------------------------
(* Ungrouped aggregation *)

\* build_aggregate_layout: the partial columns of an aggregate, as the local and
\* the merging aggregation of each.  avg keeps a sum and a count.
LayoutOf(e) ==
    CASE e.fn = "count_star" -> <<[local |-> "COUNT_ALL", merge |-> "SUM"]>>
      [] e.fn = "count"      -> <<[local |-> "COUNT_VALID", merge |-> "SUM"]>>
      [] e.fn = "sum"        -> <<[local |-> "SUM", merge |-> "SUM"]>>
      [] e.fn = "min"        -> <<[local |-> "MIN", merge |-> "MIN"]>>
      [] e.fn = "max"        -> <<[local |-> "MAX", merge |-> "MAX"]>>
      [] e.fn = "avg"        -> <<[local |-> "SUM", merge |-> "SUM"],
                                  [local |-> "COUNT_ALL", merge |-> "SUM"]>>
      [] e.fn = "first"      -> <<[local |-> "NTH_ELEMENT", merge |-> "NTH_ELEMENT"]>>

Layout(exprs) == FlattenSeq([i \in DOMAIN exprs |-> LayoutOf(exprs[i])])

\* local_sum_idx of aggregate i: the partial columns before it.
LocalIndex(exprs, i) == Len(Layout(SubSeq(exprs, 1, i - 1))) + 1

\* The partial row of one batch; counting rows needs no column.
UngroupedLocal(exprs, rows) ==
    FlattenSeq([i \in DOMAIN exprs |->
        [j \in DOMAIN LayoutOf(exprs[i]) |->
            IF LayoutOf(exprs[i])[j].local = "COUNT_ALL" THEN <<Len(rows)>>
            ELSE Reduce(LayoutOf(exprs[i])[j].local, ColumnOf(rows, exprs[i].col))]])

\* merge_ungrouped_aggregate: the partial rows are concatenated and reduced by
\* column; a single batch is taken as it is.
MergedPartials(exprs, partials) ==
    IF Len(partials) = 1 THEN partials[1]
    ELSE [c \in DOMAIN Layout(exprs) |-> Reduce(Layout(exprs)[c].merge, ColumnOf(partials, c))]

\* make_avg_column: sum over count; an average of no rows is 0, and an invalid
\* sum scalar has no defined value.
Average(sum, count, junk) ==
    IF count[1] = 0 THEN <<0, 1>>
    ELSE <<IF sum = NullAgg THEN junk ELSE sum[1], count[1]>>

UngroupedResult(exprs, partials, junk) ==
    LET m == MergedPartials(exprs, partials)
    IN  [i \in DOMAIN exprs |->
            LET c == LocalIndex(exprs, i)
            IN  IF exprs[i].fn = "avg" THEN Average(m[c], m[c + 1], junk) ELSE m[c]]

-----------------------------------------------------------------------------
(* Grouped aggregation *)

\* convert_duckdb_aggregates_to_cudf: the cudf aggregates of an expression; only
\* count looks at DISTINCT.
KindsOf(e) ==
    CASE e.fn = "avg"                  -> <<"SUM", "COUNT_VALID">>
      [] e.fn = "count" /\ e.distinct  -> <<"COLLECT_SET">>
      [] e.fn = "count" /\ ~e.distinct -> <<"COUNT_VALID">>
      [] e.fn = "count_star"           -> <<"COUNT_ALL">>
      [] e.fn = "sum"                  -> <<"SUM">>
      [] e.fn = "min"                  -> <<"MIN">>
      [] e.fn = "max"                  -> <<"MAX">>

CudfAggregates(exprs) == FlattenSeq([i \in DOMAIN exprs |-> KindsOf(exprs[i])])

\* cudf_idx of an expression's slot.
CudfSlot(exprs, i) == Len(CudfAggregates(SubSeq(exprs, 1, i - 1))) + 1

\* The input column of each cudf aggregate; count(*) counts the first column's rows.
CudfInputs(exprs) ==
    FlattenSeq([i \in DOMAIN exprs |->
        [j \in DOMAIN KindsOf(exprs[i]) |-> IF exprs[i].col = 0 THEN 1 ELSE exprs[i].col]])

MergeKind(kind) ==
    CASE kind \in {"COUNT_ALL", "COUNT_VALID"} -> "SUM"
      [] kind = "COLLECT_SET" -> "MERGE_SETS"
      [] OTHER -> kind

GroupKey(row, n) == SubSeq(row, 1, n)

\* groupby: one row per key, NULL being a key.
GroupBy(rows, n, kinds, inputs) ==
    LET keys == {GroupKey(rows[r], n) : r \in DOMAIN rows}
        of(k) == SelectSeq(rows, LAMBDA r : GroupKey(r, n) = k)
        cells(k) == [a \in DOMAIN kinds |-> Reduce(kinds[a], ColumnOf(of(k), inputs[a]))]
    IN  {k \o cells(k) : k \in keys}

\* local_grouped_aggregate.
GroupedLocal(plan, rows) ==
    GroupBy(rows, Len(plan.groups), CudfAggregates(plan.exprs), CudfInputs(plan.exprs))

\* merge_grouped_aggregate over the partial rows of a partition.
GroupedMerge(plan, partials) ==
    LET n == Len(plan.groups)
        kinds == CudfAggregates(plan.exprs)
    IN  IF Len(partials) = 1 THEN partials[1]
        ELSE GroupBy(FlattenSeq([b \in DOMAIN partials |-> SetToSeq(partials[b])]), n,
                     [a \in DOMAIN kinds |-> MergeKind(kinds[a])],
                     [a \in DOMAIN kinds |-> n + a])

\* The output columns of a merged row: group keys, then one column per expression.
Finished(plan, row) ==
    LET n == Len(plan.groups)
        cell(i) ==
            LET e == plan.exprs[i]
                c == row[n + CudfSlot(plan.exprs, i)]
            IN  IF e.fn = "avg"
                THEN IF c = NullAgg THEN NullAgg ELSE c \o row[n + CudfSlot(plan.exprs, i) + 1]
                ELSE IF e.fn = "count" /\ e.distinct THEN <<Cardinality(c[1])>>
                ELSE c
    IN  GroupKey(row, n) \o [i \in DOMAIN plan.exprs |-> cell(i)]

-----------------------------------------------------------------------------
(* Execution *)

\* The projection below the aggregate.
ProjectedRows(rows) ==
    [r \in DOMAIN rows |->
        [c \in DOMAIN aplan.projection |-> rows[r][aplan.projection[c]]]]

\* The local operator aggregates the next batch.
LocalTask ==
    /\ aplan.stage = "input" /\ Len(alocal) < Len(abatch)
    /\ LET rows == ProjectedRows(abatch[Len(alocal) + 1])
       IN  alocal' = Append(alocal, IF aplan.groups = <<>> THEN UngroupedLocal(aplan.exprs, rows)
                                                           ELSE GroupedLocal(aplan, rows))
    /\ aplan' = [aplan EXCEPT !.stage = IF Len(alocal') = Len(abatch) THEN "merge" ELSE "input"]
    /\ UNCHANGED <<abatch, amerged>>

\* The merge of an ungrouped aggregate drains every partial row.
MergeUngrouped(junk) ==
    /\ aplan.stage = "merge" /\ aplan.groups = <<>>
    /\ amerged' = <<{UngroupedResult(aplan.exprs, alocal, junk)}>>
    /\ aplan' = [aplan EXCEPT !.stage = "done"]
    /\ UNCHANGED <<abatch, alocal>>

\* Partial rows are partitioned by their keys (hash is cudf's, any function).
ChooseHash(hash) ==
    /\ aplan.stage = "merge" /\ aplan.groups # <<>>
    /\ "hash" \notin DOMAIN aplan
    /\ aplan' = ("hash" :> hash) @@ aplan
    /\ UNCHANGED <<abatch, alocal, amerged>>

LocalKeys(locals) ==
    {GroupKey(r, Len(aplan.groups)) : r \in UNION ToSet(locals)}

PartitionRows(hash, rows, p) ==
    {r \in rows : hash[GroupKey(r, Len(aplan.groups))] = p}

\* A merge task takes every batch of the next partition.
MergePartition ==
    /\ aplan.stage = "merge" /\ "hash" \in DOMAIN aplan
    /\ LET p == Len(amerged) + 1
           partials == [b \in DOMAIN alocal |-> PartitionRows(aplan.hash, alocal[b], p)]
       IN  amerged' = Append(amerged, {Finished(aplan, r) : r \in GroupedMerge(aplan, partials)})
    /\ aplan' = [aplan EXCEPT !.stage = IF Len(amerged') = MaxPartitions THEN "done" ELSE "merge"]
    /\ UNCHANGED <<abatch, alocal>>

ANext ==
    \/ \E g \in AggGroups, a \in AggLists : PlanAggregate(g, a)
    \/ OpenBatch
    \/ \E row \in [SourceColumns -> AggCells] : AddRow(row)
    \/ LocalTask
    \/ \E junk \in 0 .. 1 : MergeUngrouped(junk)
    \/ \E hash \in [LocalKeys(IF aplan.stage = "merge" /\ aplan.groups # <<>> THEN alocal ELSE <<>>)
                     -> 1 .. MaxPartitions] : ChooseHash(hash)
    \/ MergePartition

ASpec == AInit /\ [][ANext]_avars

-----------------------------------------------------------------------------
(* What SQL asks for *)

\* The rows an aggregate sees: those its FILTER accepts (cell 1 is true).
SeenBy(a, rows) ==
    IF a.filter = 0 THEN rows ELSE SelectSeq(rows, LAMBDA r : r[a.filter] = <<1>>)

SqlColumn(a, rows) ==
    LET v == ValidCells(ColumnOf(SeenBy(a, rows), a.arg))
    IN  IF a.distinct THEN SetToSeq(ToSet(v)) ELSE v

\* Does cell answer aggregate a over source rows?  Averages are compared as fractions,
\* first() may be the value of any row, and a sum or average is only compared
\* when the exact sum fits BIGINT.
Answers(cell, a, rows) ==
    LET fn == a.fn
    IN  IF fn = "count_star" THEN cell = <<Len(SeenBy(a, rows))>>
        ELSE IF fn = "first"
             THEN IF rows = <<>> THEN cell = NullAgg
                  ELSE cell \in ToSet(ColumnOf(rows, a.arg))
        ELSE LET v == SqlColumn(a, rows)
             IN  CASE fn = "count" -> cell = <<Len(v)>>
                   [] v = <<>> -> cell = NullAgg
                   [] fn = "sum" -> Wrapped(SumOf(v)) = SumOf(v) => cell = <<SumOf(v)>>
                   [] fn = "min" -> cell = LeastOf(v)
                   [] fn = "max" -> cell = GreatestOf(v)
                   [] fn = "avg" -> Wrapped(SumOf(v)) = SumOf(v) =>
                                    cell[1] * Len(v) = SumOf(v) * cell[2]

AggRows == FlattenSeq(abatch)

\* Where the operators depart from SQL by design of the code: a FILTER is not
\* carried over, DISTINCT only by count; an ungrouped avg divides by the number of
\* rows, NULLs included, and is 0 when there are none; an ungrouped first() takes
\* the NULL of an empty batch.
KnownDeparture(i) ==
    LET a == aplan.aggs[i]
        col == IF a.arg = 0 THEN <<>> ELSE ColumnOf(AggRows, aplan.aggs[i].arg)
    IN  \/ a.filter # 0
        \/ a.distinct /\ a.fn # "count"
        \/ aplan.groups = <<>> /\ a.fn = "avg" /\ (col = <<>> \/ NullAgg \in ToSet(col))
        \/ aplan.groups = <<>> /\ a.fn = "first" /\ <<>> \in ToSet(abatch)

\* Every group of the input has exactly one output row, with the aggregates of
\* exactly its rows: splitting the input into batches, aggregating each, hash
\* partitioning the partial rows and merging a partition at a time neither loses
\* nor doubles a row, whatever the hash (grouped aggregate, partition and merge).
GroupedCorrect ==
    (aplan.stage = "done" /\ aplan.groups # <<>>) =>
        LET n == Len(aplan.groups)
            out == FlattenSeq([p \in DOMAIN amerged |-> SetToSeq(amerged[p])])
            key(x) == [g \in 1 .. n |-> x[aplan.groups[g]]]
            group(r) == SelectSeq(AggRows, LAMBDA x : key(x) = GroupKey(out[r], n))
        IN  /\ {GroupKey(out[r], n) : r \in DOMAIN out} = {key(x) : x \in ToSet(AggRows)}
            /\ \A r, s \in DOMAIN out : GroupKey(out[r], n) = GroupKey(out[s], n) => r = s
            /\ \A r \in DOMAIN out : \A i \in DOMAIN aplan.aggs :
                  KnownDeparture(i) \/ Answers(out[r][n + i], aplan.aggs[i], group(r))

\* An ungrouped aggregate gives one row, and each of its aggregates is SQL's over
\* all batches (outside the departures above): partial sums may wrap around on the
\* way and still add up (ungrouped aggregate and its merge).
UngroupedCorrect ==
    (aplan.stage = "done" /\ aplan.groups = <<>>) =>
        \A row \in amerged[1] : \A i \in DOMAIN aplan.aggs :
            KnownDeparture(i) \/ Answers(row[i], aplan.aggs[i], AggRows)

\* docs/super-sirius/operators.md:190 says of BIGINT sums that they fall back to the
\* CPU because "silent overflow produces incorrect results": no sum differs from the
\* exact one.
SumIsExact ==
    (aplan.stage = "done" /\ aplan.groups = <<>>) =>
        \A row \in amerged[1] : \A i \in DOMAIN aplan.aggs :
            (aplan.aggs[i].fn = "sum" /\ row[i] # NullAgg) =>
                row[i] = <<SumOf(ValidCells(ColumnOf(AggRows, aplan.aggs[i].arg)))>>

================================================================================
