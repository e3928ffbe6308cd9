------------------------------ MODULE ScanPlans ------------------------------
(***************************************************************************)
(* How a scan is planned: which columns a scan reads and in which order,   *)
(* which batch column each pushed-down filter looks at, what the operator  *)
(* hands on (planner/sirius_plan_get.cpp, op/scan/scan_plan.cpp, the three *)
(* scan operators), and how row groups are bundled into splits             *)
(* (scan_manager/parquet_split_provider.cpp,                               *)
(* scan_manager/duckdb_native_split_provider.cpp).                         *)
(*                                                                         *)
(* A column is its index in the table, 1..NumColumns, and Virtual is the   *)
(* row identifier.  A column of a batch is represented by the table column *)
(* whose values it holds.  Positions count from 1; 0 is std::nullopt.      *)
(***************************************************************************)
EXTENDS Integers, Sequences, FiniteSets, SequencesExt

CONSTANTS NumColumns,      \* columns of the scanned table
          MaxIds,          \* longest column_ids
          ApproxSize,      \* approximate_batch_size
          StringLimit,     \* kCudfInt32StringsThreshold
          MaxFiles,        \* files of a table
          MaxGroups,       \* row groups of a table, over all its files
          GroupSizes       \* sizes a row group may have

ASSUME ScanPlansAssumption ==
  /\ {NumColumns, MaxIds, ApproxSize, StringLimit, MaxFiles, MaxGroups} \subseteq Nat
  /\ GroupSizes \subseteq Nat

VARIABLES get,             \* the LogicalGet being planned
          read,            \* what a scan operator handed on for one split
          files,           \* files of the table, with the row groups left after pruning
          splits           \* the splits they were bundled into
spvars == <<get, read, files, splits>>

Virtual == 0
Columns == 1 .. NumColumns
Paths == {"parquet", "native", "cpu"}
Ascending(S) == SetToSortSeq(S, <)
NoRead == [columns |-> <<>>, filters |-> {}, stage |-> "none"]
NoGet == [path |-> "none", column_ids |-> <<>>, projection_ids |-> <<>>, filters |-> {},
          optional |-> {}, partitions |-> {}]

SpInit == get = NoGet /\ read = NoRead /\ files = <<>> /\ splits = <<>>

-----------------------------------------------------------------------------
(* The plan of a LogicalGet.                                               *)

\* A filter is keyed by the table column; the scan keys it by the first position of column_ids.
create_table_filter_set(filters, column_ids) ==
  {SelectInSeq(column_ids, LAMBDA c : c = f) : f \in filters}

\* Filter columns that are not projected are read after the projected ones.
extended_projection(projection_ids, filterPositions) ==
  projection_ids \o Ascending(filterPositions \ ToSet(projection_ids))

\* The columns a LogicalGet produces: all of column_ids when nothing is projected out.
ResolveTypes(column_ids, projection_ids) ==
  IF projection_ids = <<>> THEN column_ids
  ELSE [i \in DOMAIN projection_ids |-> column_ids[projection_ids[i]]]

\* The TABLE_SCAN node: the types of the original projection, the extended projection.
create_plan(g) ==
  LET table_filters == create_table_filter_set(g.filters, g.column_ids)
  IN [path           |-> g.path,
      column_ids     |-> g.column_ids,
      types          |-> ResolveTypes(g.column_ids, g.projection_ids),
      projection_ids |-> extended_projection(g.projection_ids, table_filters),
      table_filters  |-> table_filters,
      optional       |-> g.optional,
      partitions     |-> g.partitions]

-----------------------------------------------------------------------------
(* Batch positions.                                                        *)

\* The host scan emits the projected columns in the order of column_ids.
scan_order_AsGiven(projection_ids) == projection_ids
scan_order(projection_ids) == Ascending(ToSet(projection_ids))

build_batch_column_map(projection_ids, count) ==
  IF projection_ids = <<>> THEN [c \in 1 .. count |-> c]
  ELSE [c \in 1 .. count |-> SelectInSeq(scan_order(projection_ids), LAMBDA p : p = c)]

\* The native scan emits them in the order of projection_ids.
emission_order_map(projection_ids, count) ==
  IF projection_ids = <<>> THEN [c \in 1 .. count |-> c]
  ELSE [c \in 1 .. count |-> SelectInSeq(projection_ids, LAMBDA p : p = c)]

\* The filters that become expressions: <<table column, batch position it refers to>>.  A hint
\* (OPTIONAL_FILTER, IS_NOT_NULL) and a filter on a partition column are left out.
convert_table_filters(node, position, skip) ==
  {<<node.column_ids[c], position[c]>> :
     c \in {p \in node.table_filters : node.column_ids[p] \notin node.optional \cup skip}}

-----------------------------------------------------------------------------
(* The plan of a parquet scan.                                             *)

EmptyPlan == [data_columns |-> <<>>, partition_columns |-> <<>>, output_layout |-> <<>>]

DataEntry(i) == [source |-> "DATA", idx |-> i]
PartitionEntry(i) == [source |-> "PARTITION", idx |-> i]

is_output_position(i, arity) == i <= arity

\* One position of the projection: each table column once, virtual columns never, and a
\* partition column only when it is an output.
handle_position(plan, primary, partitions, is_output) ==
  IF \/ primary = Virtual
     \/ primary \in ToSet(plan.data_columns) \cup ToSet(plan.partition_columns)
     \/ primary \in partitions /\ ~is_output
  THEN plan
  ELSE LET isPartition == primary \in partitions
           data  == IF isPartition THEN plan.data_columns ELSE Append(plan.data_columns, primary)
           parts == IF isPartition THEN Append(plan.partition_columns, primary)
                                   ELSE plan.partition_columns
           entry == IF isPartition THEN PartitionEntry(Len(parts)) ELSE DataEntry(Len(data))
       IN [data_columns      |-> data,
           partition_columns |-> parts,
           output_layout     |-> IF is_output THEN Append(plan.output_layout, entry)
                                              ELSE plan.output_layout]

build_scan_plan(node) ==
  LET positions == IF node.projection_ids = <<>> THEN [c \in DOMAIN node.column_ids |-> c]
                                                 ELSE node.projection_ids
      isOutput(i) == node.projection_ids = <<>> \/ is_output_position(i, Len(node.types))
      step(plan, i) == handle_position(plan, node.column_ids[positions[i]], node.partitions,
                                       isOutput(i))
      plan == FoldLeft(step, EmptyPlan, [i \in DOMAIN positions |-> i])
  IN [data_columns      |-> plan.data_columns,
      partition_columns |-> plan.partition_columns,
      output_layout     |-> plan.output_layout,
      is_projected      |-> node.projection_ids # <<>> \/ node.partitions # {},
      batch_position_by_column_id |->
        [c \in DOMAIN node.column_ids |->
           SelectInSeq(plan.data_columns, LAMBDA p : p = node.column_ids[c])]]

\* Reader output and output differ unless the layout is the identity on the data columns.
needs_output_assembly(plan) ==
  /\ plan.output_layout # <<>>
  /\ \/ plan.partition_columns # <<>>
     \/ plan.output_layout # [i \in DOMAIN plan.data_columns |-> DataEntry(i)]

assemble_scan_output(plan, columns) ==
  [i \in DOMAIN plan.output_layout |->
     LET entry == plan.output_layout[i]
     IN IF entry.source = "DATA" THEN columns[entry.idx] ELSE plan.partition_columns[entry.idx]]

\* Columns that are read for a filter only.
pure_filter_columns(plan) ==
  ToSet(plan.data_columns) \
    {plan.data_columns[e.idx] : e \in {x \in ToSet(plan.output_layout) : x.source = "DATA"}}

-----------------------------------------------------------------------------
(* The operators.                                                          *)

\* Where a parquet filter is evaluated: by the reader, or on the decoded table when the file
\* has decimals the reader's statistics cannot handle or the translation to a cudf AST failed.
FilterStage(refs, flba, translated) ==
  IF refs = {} THEN "none" ELSE IF translated /\ ~flba THEN "reader" ELSE "decoded"

read_parquet(node, flba, translated) ==
  LET plan == build_scan_plan(node)
      file == IF plan.is_projected THEN plan.data_columns ELSE Ascending(Columns)
      refs == convert_table_filters(node, plan.batch_position_by_column_id, node.partitions)
  IN [columns |-> IF needs_output_assembly(plan) THEN assemble_scan_output(plan, file) ELSE file,
      filters |-> {<<r[1], IF r[2] = 0 THEN 0 ELSE file[r[2]]>> : r \in refs},
      stage   |-> FilterStage(refs, flba, translated)]

\* The native decoder emits the projected columns in order; the operator keeps the leading ones.
read_native(node) ==
  LET batch == ResolveTypes(node.column_ids, node.projection_ids)
      refs  == convert_table_filters(node,
                 emission_order_map(node.projection_ids, Len(node.column_ids)), {})
  IN [columns |-> IF Len(batch) > Len(node.types) THEN SubSeq(batch, 1, Len(node.types)) ELSE batch,
      filters |-> {<<r[1], batch[r[2]]>> : r \in refs},
      stage   |-> IF refs = {} THEN "none" ELSE "decoded"]

\* The host scan's batches hold the columns in column_ids order; TABLE_SCAN filters them and
\* picks the outputs by position when there are more columns than outputs.
execute_table_scan(node) ==
  LET position == build_batch_column_map(node.projection_ids, Len(node.column_ids))
      ids   == IF node.projection_ids = <<>> THEN Ascending(DOMAIN node.column_ids)
               ELSE Ascending(ToSet(node.projection_ids))
      batch == [i \in DOMAIN ids |-> node.column_ids[ids[i]]]
      refs  == convert_table_filters(node, position, {})
  IN [columns |-> IF Len(batch) > Len(node.types)
                  THEN [i \in DOMAIN node.types |-> batch[position[node.projection_ids[i]]]]
                  ELSE batch,
      filters |-> {<<r[1], batch[r[2]]>> : r \in refs},
      stage   |-> IF refs = {} THEN "none" ELSE "decoded"]

\* DuckDB's column pruning: the projected positions ascend, every position is projected or
\* filtered, and nothing projected leaves only filter columns or the row identifier.
Pruned(column_ids, projection_ids, filters) ==
  /\ \A c \in DOMAIN column_ids : c \in ToSet(projection_ids) \/ column_ids[c] \in filters
                                  \/ column_ids = <<Virtual>>
  /\ filters \subseteq ToSet(column_ids) \ {Virtual}

ColumnIds == {s \in UNION {[1 .. n -> {Virtual} \cup Columns] : n \in 1 .. MaxIds} :
                IsInjective(s)}

\* A parquet scan is offered no virtual column beside others: see the README.
BindScan(path) ==
  /\ get = NoGet /\ files = <<>>
  /\ \E column_ids \in ColumnIds, filters \in SUBSET Columns :
       \E projected \in SUBSET (DOMAIN column_ids), optional \in SUBSET filters,
          partitions \in IF path = "parquet" THEN SUBSET Columns ELSE {{}} :
         /\ Pruned(column_ids, Ascending(projected), filters)
         /\ path = "parquet" /\ Virtual \in ToSet(column_ids) => column_ids = <<Virtual>>
         /\ get' = [path |-> path, column_ids |-> column_ids, filters |-> filters,
                    projection_ids |-> Ascending(projected), optional |-> optional,
                    partitions |-> partitions]
  /\ UNCHANGED <<read, files, splits>>

ExecuteScan ==
  /\ get # NoGet /\ read = NoRead
  /\ LET node == create_plan(get)
     IN \/ /\ get.path = "parquet"
           /\ \E flba, translated \in BOOLEAN : read' = read_parquet(node, flba, translated)
        \/ get.path = "native" /\ read' = read_native(node)
        \/ get.path = "cpu" /\ read' = execute_table_scan(node)
  /\ UNCHANGED <<get, files, splits>>

-----------------------------------------------------------------------------
(* Bundling parquet row groups into splits.                                *)

\* A row group that survived pruning: its number in its file, the bytes of its output columns and
\* of its filter-only columns.  A file has partition values and such row groups, possibly none.
rg_contribution(g) == g.output

NoBundle == [slices |-> <<>>, total |-> 0, pv |-> <<>>, out |-> <<>>]

flush(a) ==
  IF a.slices = <<>> THEN a
  ELSE [a EXCEPT !.out = Append(@, [slices |-> a.slices, pv |-> a.pv]), !.slices = <<>>, !.total = 0]

\* A new file with other partition values ends the split.
EnterFile(a, pv) ==
  [(IF a.pv # <<>> /\ a.pv # <<pv>> THEN flush(a) ELSE a) EXCEPT !.pv = <<pv>>]

exceeds(total, size) == total + size > ApproxSize

\* A row group that would exceed the target closes the split, unless the split is empty.
AddGroup(a, f, g) ==
  LET sealed == IF a.slices # <<>> /\ exceeds(a.total, rg_contribution(g)) THEN flush(a) ELSE a
  IN [sealed EXCEPT !.slices = Append(@, <<f, g>>), !.total = @ + rg_contribution(g)]

\* One file batch: its files in order, each file's groups in order; with several GPUs every file
\* ends its split.
run_batch(fs, severalGpus) ==
  LET file(a, f) == FoldLeft(LAMBDA b, g : AddGroup(b, f, g), EnterFile(a, f.pv), f.groups)
      step(a, f) == IF severalGpus THEN flush(file(a, f)) ELSE file(a, f)
  IN flush(FoldLeft(step, NoBundle, fs)).out

\* The provider's file batches of max_file_processed files, each bundled on its own.
parquet_splits(fs, perBatch, severalGpus) ==
  LET batch(b) == SubSeq(fs, (b - 1) * perBatch + 1,
                         IF b * perBatch < Len(fs) THEN b * perBatch ELSE Len(fs))
  IN FlattenSeq([b \in 1 .. ((Len(fs) + perBatch - 1) \div perBatch) |->
                   run_batch(batch(b), severalGpus)])

NumGroups == FoldLeft(LAMBDA n, f : n + Len(f.groups), 0, files)

ListFile ==
  /\ get = NoGet /\ splits = <<>> /\ Len(files) < MaxFiles
  /\ \E pv \in {1, 2} : files' = Append(files, [id |-> Len(files) + 1, pv |-> pv, groups |-> <<>>])
  /\ UNCHANGED <<get, read, splits>>

ListGroup ==
  /\ files # <<>> /\ splits = <<>> /\ NumGroups < MaxGroups
  /\ \E size \in GroupSizes, extra \in {0, 1} :
       files' = [files EXCEPT ![Len(files)].groups =
                   Append(@, [rg |-> Len(@) + 1, output |-> size, filter |-> extra])]
  /\ UNCHANGED <<get, read, splits>>

BundleParquet ==
  /\ files # <<>> /\ splits = <<>>
  /\ \E perBatch \in {1, 2}, severalGpus \in BOOLEAN :
       splits' = [kind   |-> "parquet",
                  chosen |-> parquet_splits(files, perBatch, severalGpus)]
  /\ UNCHANGED <<get, read, files>>

-----------------------------------------------------------------------------
(* Batches of native row groups: `output` is the decoded budget, `filter`  *)
(* the bytes of the string column.                                         *)

would_exceed_total(bytes, g) == ApproxSize > 0 /\ bytes + g.output > ApproxSize
would_exceed_varchar(chars, g) == chars + g.filter >= StringLimit

NoBatch == [first |-> 1, bytes |-> 0, chars |-> 0, out |-> <<>>]

partition_row_groups_into_batches(gs) ==
  LET step(a, i) ==
        LET cut == /\ i > a.first
                   /\ would_exceed_total(a.bytes, gs[i]) \/ would_exceed_varchar(a.chars, gs[i])
        IN IF cut THEN [first |-> i, bytes |-> gs[i].output, chars |-> gs[i].filter,
                        out |-> Append(a.out, <<a.first, i - a.first>>)]
           ELSE [a EXCEPT !.bytes = @ + gs[i].output, !.chars = @ + gs[i].filter]
      all == FoldLeft(step, NoBatch, [i \in DOMAIN gs |-> i])
  IN Append(all.out, <<all.first, Len(gs) + 1 - all.first>>)

BundleNative ==
  /\ Len(files) = 1 /\ files[1].groups # <<>> /\ splits = <<>>
  /\ splits' = [kind |-> "native", chosen |-> partition_row_groups_into_batches(files[1].groups)]
  /\ UNCHANGED <<get, read, files>>

SpNext ==
  \/ \E path \in Paths : BindScan(path)
  \/ ExecuteScan
  \/ ListFile
  \/ ListGroup
  \/ BundleParquet
  \/ BundleNative

SpSpec == SpInit /\ [][SpNext]_spvars

-----------------------------------------------------------------------------
Executed == read # NoRead

\* Whatever filter columns a scan reads besides, and in whatever order the path emits them, the
\* operator hands on exactly the columns the logical plan expects, in its order.  A scan of the
\* row identifier alone through parquet only counts rows.
ScanOutputExact ==
  Executed /\ ~(get.path = "parquet" /\ get.column_ids = <<Virtual>>) =>
    read.columns = ResolveTypes(get.column_ids, get.projection_ids)

\* Every pushed-down comparison is evaluated, on the very column it was written for, although
\* the batch position is computed differently on the three paths.  A filter on a partition
\* column is settled by choosing files.
FilterReadsItsColumn ==
  Executed =>
    /\ read.filters = {<<f, f>> : f \in get.filters \ (get.optional \cup get.partitions)}
    /\ (read.stage = "none") <=> (read.filters = {})

Slices == [i \in DOMAIN splits.chosen |-> splits.chosen[i].slices]

\* Every row group left after pruning is in exactly one split, and reading the splits in order
\* reads the row groups in file order.
SplitsCoverOnce ==
  splits # <<>> /\ splits.kind = "parquet" =>
    FlattenSeq(Slices) =
      FlattenSeq([f \in DOMAIN files |->
                    [i \in DOMAIN files[f].groups |-> <<files[f], files[f].groups[i]>>]])

\* All files of a split have the partition values the split carries: they become constant columns.
OnePartitionPerSplit ==
  splits # <<>> /\ splits.kind = "parquet" =>
    \A s \in ToSet(splits.chosen) : \A x \in ToSet(s.slices) : <<x[1].pv>> = s.pv

\* A split of more than one row group decodes to at most approximate_batch_size output bytes.
SplitWithinTarget ==
  splits # <<>> /\ splits.kind = "parquet" =>
    \A s \in ToSet(splits.chosen) :
      Len(s.slices) > 1 =>
        FoldLeft(LAMBDA n, x : n + x[2].output, 0, s.slices) <= ApproxSize

\* Native batches are consecutive, cover all row groups, and one of several row groups stays
\* within the byte target and strictly below cudf's 32-bit string limit.
NativeBatchesFit ==
  splits # <<>> /\ splits.kind = "native" =>
    LET b == splits.chosen
        groups == files[1].groups
        Bytes(r, f(_)) == FoldLeft(LAMBDA n, i : n + f(groups[i]), 0,
                                   [k \in 1 .. r[2] |-> r[1] + k - 1])
    IN /\ b[1][1] = 1 /\ b[Len(b)][1] + b[Len(b)][2] = Len(groups) + 1
       /\ \A i \in 1 .. Len(b) - 1 : b[i + 1][1] = b[i][1] + b[i][2]
       /\ \A i \in DOMAIN b : b[i][2] > 1 =>
            /\ ApproxSize > 0 => Bytes(b[i], LAMBDA g : g.output) <= ApproxSize
            /\ Bytes(b[i], LAMBDA g : g.filter) < StringLimit

\* A parquet scan from its bound columns to its splits: the output columns and the
\* column a filter reads are those of the query, and row groups are packed into
\* splits once, by partition and within the targets.
ScanPlanExact ==
    /\ ScanOutputExact
    /\ FilterReadsItsColumn
    /\ SplitsCoverOnce
    /\ OnePartitionPerSplit
    /\ SplitWithinTarget
    /\ NativeBatchesFit

=============================================================================
