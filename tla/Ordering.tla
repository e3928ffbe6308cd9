-------------------------------- MODULE Ordering --------------------------------
(***************************************************************************)
(* ORDER BY, top-N and LIMIT.  ORDER BY is four operators in three         *)
(* pipelines: every batch is sorted; the first sample task to claim the    *)
(* boundary state computes range boundaries from its batches while other   *)
(* tasks pass through; sort_partition slices sorted batches at the         *)
(* boundaries; one merge task merges everything.  Top-N keeps the best     *)
(* rows of every batch and merges them.  LIMIT tasks claim rows from two   *)
(* shared counters.  A row is <<key, id>>; a key is NULL (0) or positive.  *)
(***************************************************************************)
EXTENDS Integers, Sequences, SequencesExt, FiniteSets

CONSTANTS
    OrdPlans,      \* the plans explored, see PlanOrdering
    MaxKey,        \* keys 0 .. MaxKey, 0 being NULL
    MaxOrdRows,    \* rows over all batches
    MaxOrdBatches, \* batches
    SizeBits       \* width of cudf::size_type

VARIABLES
    oplan,   \* the plan and its stage: none, input, run, done
    obatch,  \* batches the operator below delivered
    orepo,   \* batches in front of the next pipeline: of sample and of merge
    osample, \* boundary state (0 none, 1 computing, 2 computed), partitions, boundaries
    otask,   \* tasks in flight, by the number of the task
    oclaim,  \* LIMIT's two counters
    oout     \* batches delivered to the operator above

ovars == <<oplan, obatch, orepo, osample, otask, oclaim, oout>>

NoBoundaries == [state |-> 0, parts |-> 1, rows |-> <<>>]

OInit ==
    /\ oplan = [stage |-> "none"]
    /\ obatch = <<>>
    /\ orepo = [sample |-> <<>>, merge |-> <<>>]
    /\ osample = NoBoundaries
    /\ otask = <<>>
    /\ oclaim = [offset |-> 0, limit |-> 0]
    /\ oout = <<>>

\* A plan: op is "sort", "topn" or "limit"; asc and nulls_first give the order;
\* limit and offset the row range; sample_bytes, max_bytes and cardinality the
\* numbers the sample works with (a row has one byte).
PlanOrdering(p) ==
    /\ oplan.stage = "none"
    /\ oplan' = p @@ [stage |-> "input", sorted |-> 0]
    /\ oclaim' = IF p.op = "limit" THEN [offset |-> p.offset, limit |-> p.limit] ELSE oclaim
    /\ UNCHANGED <<obatch, orepo, osample, otask, oout>>

NewBatch ==
    /\ oplan.stage = "input" /\ Len(obatch) < MaxOrdBatches
    /\ obatch' = Append(obatch, <<>>)
    /\ UNCHANGED <<oplan, orepo, osample, otask, oclaim, oout>>

InputRows == FlattenSeq(obatch)

NewRow(key) ==
    /\ oplan.stage = "input" /\ obatch # <<>> /\ Len(InputRows) < MaxOrdRows
    /\ obatch' = [obatch EXCEPT ![Len(obatch)] = Append(@, <<key, Len(InputRows) + 1>>)]
    /\ UNCHANGED <<oplan, orepo, osample, otask, oclaim, oout>>

-----------------------------------------------------------------------------
(* The order *)

\* to_cudf_order and to_cudf_null_order: cudf's null order is before or after the
\* values of an ascending column, and turns around with a descending one.
NullPrecedence ==
    IF oplan.nulls_first = oplan.asc THEN "BEFORE" ELSE "AFTER"

CudfLess(a, b) ==
    LET asc == CASE a[1] = 0 -> b[1] # 0 /\ NullPrecedence = "BEFORE"
                 [] b[1] = 0 -> NullPrecedence = "AFTER"
                 [] OTHER    -> a[1] < b[1]
        dsc == CASE a[1] = 0 -> b[1] # 0 /\ NullPrecedence = "AFTER"
                 [] b[1] = 0 -> NullPrecedence = "BEFORE"
                 [] OTHER    -> b[1] < a[1]
    IN  IF oplan.asc THEN asc ELSE dsc

\* sort_by_key: any order of equal keys will do, this one is by id.
Before(a, b) == CudfLess(a, b) \/ (~CudfLess(b, a) /\ a[2] < b[2])
SortedRows(rows) == SetToSortSeq(ToSet(rows), Before)

-----------------------------------------------------------------------------
(* ORDER BY *)

\* sirius_physical_order: one batch sorted and pushed to the sample's repository;
\* the first one ends the input stage.
OrderTask ==
    /\ oplan.stage \in {"input", "run"} /\ oplan.op = "sort" /\ oplan.sorted < Len(obatch)
    /\ oplan' = [oplan EXCEPT !.stage = "run", !.sorted = @ + 1]
    /\ orepo' = [orepo EXCEPT !.sample = Append(@, SortedRows(obatch[oplan.sorted + 1]))]
    /\ UNCHANGED <<obatch, osample, otask, oclaim, oout>>

UpstreamDone == oplan.sorted = Len(obatch)

RepoBytes(batches) == Len(FlattenSeq(batches))

\* How many batches a sampling task takes: until they hold the sample's bytes.
SampleTake(batches) ==
    LET enough == {n \in 1 .. Len(batches) : RepoBytes(SubSeq(batches, 1, n)) >= oplan.sample_bytes}
    IN  IF enough = {} THEN Len(batches) ELSE CHOOSE n \in enough : \A m \in enough : n <= m

\* The task creator makes a sample task when the hint says READY: enough bytes or
\* no more to come; once the boundaries are there, one batch at a time.
TakeSample ==
    /\ oplan.stage = "run" /\ oplan.op = "sort" /\ orepo.sample # <<>>
    /\ osample.state # 2 =>
         UpstreamDone \/ RepoBytes(orepo.sample) >= oplan.sample_bytes
    /\ LET n == IF osample.state = 2 THEN 1 ELSE SampleTake(orepo.sample)
       IN  /\ otask' = Append(otask, [pc |-> "sample", in |-> SubSeq(orepo.sample, 1, n)])
           /\ orepo' = [orepo EXCEPT !.sample = SubSeq(@, n + 1, Len(@))]
    /\ UNCHANGED <<oplan, obatch, osample, oclaim, oout>>

\* sort_sample's execute: pass through, or claim the computation.
ClaimBoundaries(t) ==
    /\ otask[t].pc = "sample"
    /\ otask' = [otask EXCEPT ![t].pc = IF osample.state = 0 THEN "compute" ELSE "partition"]
    /\ osample' = [osample EXCEPT !.state = IF @ = 0 THEN 1 ELSE @]
    /\ UNCHANGED <<oplan, obatch, orepo, oclaim, oout>>

CeilDiv(a, b) == (a + b - 1) \div b

\* The number of range partitions estimated from the sample.
NumParts(batches) ==
    LET rows == RepoBytes(batches)
        avg == rows \div Len(batches)
        total == avg * CeilDiv(oplan.cardinality, avg)
    IN  IF oplan.cardinality = 0 \/ avg = 0 THEN 1
        ELSE IF oplan.max_bytes > 0 /\ total > oplan.max_bytes
             THEN CeilDiv(total, oplan.max_bytes) ELSE 1

\* Index of boundary i in the merged sample, counted from 0.
BoundaryIndex(i, rows, parts) ==
    LET idx == (i * rows) \div parts
    IN  IF idx >= rows THEN rows - 1 ELSE idx

ComputeBoundaries(t) ==
    /\ otask[t].pc = "compute"
    /\ LET merged == SortedRows(FlattenSeq(otask[t].in))
           parts == NumParts(otask[t].in)
       IN  osample' = IF parts <= 1 \/ merged = <<>>
                      THEN [state |-> 2, parts |-> 1, rows |-> <<>>]
                      ELSE [state |-> 2, parts |-> parts,
                            rows |-> [i \in 1 .. (parts - 1) |->
                                        merged[BoundaryIndex(i, Len(merged), parts) + 1]]]
    /\ otask' = [otask EXCEPT ![t].pc = "partition"]
    /\ UNCHANGED <<oplan, obatch, orepo, oclaim, oout>>

\* An allocation failure: the state is given back and the task runs again.
ComputeFails(t) ==
    /\ otask[t].pc = "compute"
    /\ osample' = [osample EXCEPT !.state = 0]
    /\ otask' = [otask EXCEPT ![t].pc = "sample"]
    /\ UNCHANGED <<oplan, obatch, orepo, oclaim, oout>>

\* lower_bound: the rows of a sorted batch that come before a boundary.
SplitAt_Upper(batch, row) == Len(SelectSeq(batch, LAMBDA r : ~CudfLess(row, r)))

SplitAt(batch, row) == Len(SelectSeq(batch, LAMBDA r : CudfLess(r, row)))

\* The non-empty slices of a sorted batch.
Slices(batch) ==
    LET n == Len(osample.rows)
        cut(i) == IF i = 0 THEN 0 ELSE IF i > n THEN Len(batch) ELSE SplitAt(batch, osample.rows[i])
        slice(i) == SubSeq(batch, cut(i - 1) + 1, cut(i))
    IN  SelectSeq([i \in 1 .. (n + 1) |-> slice(i)], LAMBDA s : s # <<>>)

\* sort_partition's execute, then its sink: every batch into partition 0 of merge.
SortPartitionTask(t) ==
    /\ otask[t].pc = "partition"
    /\ orepo' = [orepo EXCEPT !.merge = @ \o
                    IF osample.state # 2 \/ osample.parts <= 1 THEN otask[t].in
                    ELSE FlattenSeq([b \in DOMAIN otask[t].in |-> Slices(otask[t].in[b])])]
    /\ otask' = [otask EXCEPT ![t].pc = "done"]
    /\ UNCHANGED <<oplan, obatch, osample, oclaim, oout>>

SamplingOver ==
    /\ UpstreamDone /\ orepo.sample = <<>>
    /\ \A t \in DOMAIN otask : otask[t].pc = "done"

\* merge_sort behind its barrier: the finished pipeline has cleared the boundaries;
\* the one partition is drained and merged.
MergeSortTask ==
    /\ oplan.stage = "run" /\ oplan.op = "sort" /\ SamplingOver
    /\ osample' = [osample EXCEPT !.rows = <<>>]
    /\ oout' = IF orepo.merge = <<>> THEN <<>>
               ELSE IF Len(orepo.merge) = 1 THEN orepo.merge
               ELSE <<SortedRows(FlattenSeq(orepo.merge))>>
    /\ orepo' = [orepo EXCEPT !.merge = <<>>]
    /\ oplan' = [oplan EXCEPT !.stage = "done"]
    /\ UNCHANGED <<obatch, otask, oclaim>>

-----------------------------------------------------------------------------
(* Top-N *)

Signed(n) == LET m == 2 ^ SizeBits IN IF n % m >= m \div 2 THEN (n % m) - m ELSE n % m

\* compute_top_n_table: the first offset + limit rows.
KeepRows(n) ==
    LET keep == Signed(oplan.offset + oplan.limit) IN IF n < keep THEN n ELSE keep

TopNTable(rows) ==
    IF oplan.limit = 0 \/ rows = <<>> THEN <<>>
    ELSE SubSeq(SortedRows(rows), 1, KeepRows(Len(rows)))

\* Every batch loses its hopeless rows; the merge takes all, and drops the offset.
TopNTask ==
    /\ oplan.stage = "input" /\ oplan.op = "topn" /\ obatch # <<>>
    /\ orepo' = [orepo EXCEPT !.merge =
                    IF oplan.limit = 0 THEN <<>> ELSE [b \in DOMAIN obatch |-> TopNTable(obatch[b])]]
    /\ oplan' = [oplan EXCEPT !.stage = "run"]
    /\ UNCHANGED <<obatch, osample, otask, oclaim, oout>>

TopNMerge ==
    /\ oplan.stage = "run" /\ oplan.op = "topn"
    /\ LET top == TopNTable(FlattenSeq(orepo.merge))
       IN  oout' = IF orepo.merge = <<>> THEN <<>>
                   ELSE <<SubSeq(top, oplan.offset + 1, Len(top))>>
    /\ oplan' = [oplan EXCEPT !.stage = "done"]
    /\ UNCHANGED <<obatch, orepo, osample, otask, oclaim>>

-----------------------------------------------------------------------------
(* LIMIT *)

\* One task per batch, all in flight at once.
LimitStart ==
    /\ oplan.stage = "input" /\ oplan.op = "limit" /\ obatch # <<>>
    /\ otask' = [b \in DOMAIN obatch |-> [pc |-> "check", in |-> obatch[b], skip |-> 0]]
    /\ oplan' = [oplan EXCEPT !.stage = "run"]
    /\ UNCHANGED <<obatch, orepo, osample, oclaim, oout>>

\* claim: an atomic compare-and-swap takes at most max from a counter.
Claimed(counter, max) == IF counter <= 0 THEN 0 ELSE IF counter < max THEN counter ELSE max

LimitCheck(t) ==
    /\ otask[t].pc = "check"
    /\ otask' = [otask EXCEPT ![t].pc = IF oclaim.limit <= 0 \/ otask[t].in = <<>> THEN "done" ELSE "skip"]
    /\ UNCHANGED <<oplan, obatch, orepo, osample, oclaim, oout>>

LimitSkip(t) ==
    /\ otask[t].pc = "skip"
    /\ LET skip == Claimed(oclaim.offset, Len(otask[t].in))
       IN  /\ oclaim' = [oclaim EXCEPT !.offset = @ - skip]
           /\ otask' = [otask EXCEPT ![t] =
                [@ EXCEPT !.skip = skip, !.pc = IF skip = Len(otask[t].in) THEN "done" ELSE "take"]]
    /\ UNCHANGED <<oplan, obatch, orepo, osample, oout>>

LimitTake(t) ==
    /\ otask[t].pc = "take"
    /\ LET in == otask[t].in
           take == Claimed(oclaim.limit, Len(in) - otask[t].skip)
       IN  /\ oclaim' = [oclaim EXCEPT !.limit = @ - take]
           /\ oout' = IF take = 0 THEN oout
                      ELSE Append(oout, SubSeq(in, otask[t].skip + 1, otask[t].skip + take))
    /\ otask' = [otask EXCEPT ![t].pc = "done"]
    /\ UNCHANGED <<oplan, obatch, orepo, osample>>

LimitEnd ==
    /\ oplan.stage = "run" /\ oplan.op = "limit"
    /\ \A t \in DOMAIN otask : otask[t].pc = "done"
    /\ oplan' = [oplan EXCEPT !.stage = "done"]
    /\ UNCHANGED <<obatch, orepo, osample, otask, oclaim, oout>>

-----------------------------------------------------------------------------
ONext ==
    \/ \E p \in OrdPlans : PlanOrdering(p)
    \/ NewBatch
    \/ \E k \in 0 .. MaxKey : NewRow(k)
    \/ OrderTask \/ TakeSample \/ MergeSortTask
    \/ TopNTask \/ TopNMerge \/ LimitStart \/ LimitEnd
    \/ \E t \in DOMAIN otask :
         \/ ClaimBoundaries(t) \/ ComputeBoundaries(t) \/ ComputeFails(t) \/ SortPartitionTask(t)
         \/ LimitCheck(t) \/ LimitSkip(t) \/ LimitTake(t)

OSpec == OInit /\ [][ONext]_ovars

-----------------------------------------------------------------------------
(* What SQL asks for *)

\* The SQL order: NULLS FIRST or LAST whatever the direction.
SqlLeq(a, b) ==
    CASE a[1] = 0 /\ b[1] = 0 -> TRUE
      [] a[1] = 0 -> oplan.nulls_first
      [] b[1] = 0 -> ~oplan.nulls_first
      [] OTHER -> IF oplan.asc THEN a[1] <= b[1] ELSE a[1] >= b[1]

SqlSorted(rows) == \A i, j \in DOMAIN rows : i < j => SqlLeq(rows[i], rows[j])

OrdRows == FlattenSeq(oout)

\* The rows asked for, as a number.
OrdWanted ==
    LET rest == Len(InputRows) - oplan.offset
    IN  IF rest <= 0 THEN 0 ELSE IF rest < oplan.limit THEN rest ELSE oplan.limit

\* ORDER BY delivers every input row exactly once, in SQL's order and in one
\* batch, however sampling tasks interleave, fail and are run again, and whether
\* or not a batch went through the boundaries (sort_sample, sort_partition, merge_sort).
SortCorrect ==
    (oplan.stage = "done" /\ oplan.op = "sort") =>
        /\ Len(oout) <= 1
        /\ SqlSorted(OrdRows)
        /\ Len(OrdRows) = Len(InputRows) /\ ToSet(OrdRows) = ToSet(InputRows)

\* The slices of a batch fall between the boundaries: slice i of every batch is
\* wholly before slice i + 1 of every other, which is what range partitioning
\* needs.  Computed boundaries are sorted, and one fewer than the partitions.
BoundariesPartition ==
    (osample.state = 2 /\ osample.rows # <<>>) =>
        /\ Len(osample.rows) = osample.parts - 1
        /\ SqlSorted(osample.rows)
        /\ \A t \in DOMAIN otask : otask[t].pc = "partition" =>
             \A b \in DOMAIN otask[t].in :
                /\ FlattenSeq(Slices(otask[t].in[b])) = otask[t].in[b]
                /\ \A i \in DOMAIN osample.rows : \A r \in ToSet(otask[t].in[b]) :
                      LET n == SplitAt(otask[t].in[b], osample.rows[i])
                      IN  r \in ToSet(SubSeq(otask[t].in[b], 1, n)) <=> CudfLess(r, osample.rows[i])

\* Top-N delivers rows offset + 1 .. offset + limit of a sorted arrangement of the
\* input: as many as asked for, in order, and no omitted row belongs between them.
TopNCorrect ==
    (oplan.stage = "done" /\ oplan.op = "topn" /\ oplan.limit > 0) =>
        LET strictly(r, s) == SqlLeq(r, s) /\ ~SqlLeq(s, r)
            left == ToSet(InputRows) \ ToSet(OrdRows)
        IN  /\ Len(OrdRows) = OrdWanted /\ Cardinality(ToSet(OrdRows)) = OrdWanted
            /\ SqlSorted(OrdRows)
            /\ OrdRows # <<>> =>
                 /\ Cardinality({r \in left : strictly(r, OrdRows[1])}) <= oplan.offset
                 /\ Cardinality({r \in left : strictly(r, Last(OrdRows))}) <= oplan.offset
                 /\ Cardinality({r \in left : SqlLeq(r, OrdRows[1])}) >= oplan.offset

\* Concurrent LIMIT tasks together deliver exactly the number of rows asked for,
\* each an input row, none twice, however their two claims interleave.
LimitCorrect ==
    (oplan.stage = "done" /\ oplan.op = "limit") =>
        /\ Len(OrdRows) = OrdWanted
        /\ Cardinality(ToSet(OrdRows)) = OrdWanted
        /\ ToSet(OrdRows) \subseteq ToSet(InputRows)

================================================================================
