------------------------------ MODULE IcebergScan ------------------------------
(***************************************************************************)
(* The scan of an Iceberg table through host memory: planning the tasks of *)
(* a data file (op/scan/parquet_scan_task.cpp), the delete data of the     *)
(* snapshot (op/scan/iceberg_metadata_reader.cpp), the delete filters that *)
(* run on each decoded batch (op/scan/iceberg_scan_task.cpp and the filter *)
(* files), the conversion of a host batch to the GPU                       *)
(* (data/host_parquet_representation_converters.cpp) and the TABLE_SCAN    *)
(* above it.                                                               *)
(*                                                                         *)
(* A data file is a sequence of row groups, a row group a sequence of      *)
(* rows, a row a tuple of values, one per table column.  A filter is       *)
(* <<column, value>>, "the column has this value".                         *)
(***************************************************************************)
EXTENDS ScanPlans

CONSTANTS IceValues,       \* values of a cell
          MaxIceRows,      \* rows of the data file
          IceBatch,        \* approximate batch size, a projected cell being one byte
          Translations     \* whether the reader can evaluate the filter: a set of Booleans

ASSUME IcebergAssumption ==
  IceValues \subseteq Nat /\ MaxIceRows \in Nat /\ IceBatch \in Nat /\ Translations \subseteq BOOLEAN

VARIABLES ice,             \* the table: [groups, seq, positions, vector, equality]
          query,           \* the scan: [get, filter, translated]
          rows             \* what TABLE_SCAN handed on, per task: <<>> before the run
icvars == <<ice, query, rows>>

NoQuery == [get |-> NoGet, filter |-> <<>>, translated |-> FALSE]
IceTable == [groups |-> <<>>, seq |-> 1, positions |-> {}, vector |-> <<>>, equality |-> {}]

IcInit == ice = IceTable /\ query = NoQuery /\ rows = <<>>

-----------------------------------------------------------------------------
(* The table's delete data.                                                *)

\* The positions of the delete files; a deletion vector replaces what they say of its file.
materialize_positional_deletes(t) == IF t.vector # <<>> THEN t.vector[1] ELSE t.positions

\* Delete files with equal keys and sequence number form a group; its rows are deduplicated.
SameGroup(a, b) == a.key = b.key /\ a.seq = b.seq
materialize_equality_deletes(entries) ==
  FoldLeft(LAMBDA gs, e :
             LET at == SelectInSeq(gs, LAMBDA g : SameGroup(g, e))
             IN IF at = 0 THEN Append(gs, [key |-> e.key, seq |-> e.seq, values |-> {e.value}])
                ELSE [gs EXCEPT ![at].values = @ \cup {e.value}],
           <<>>, SetToSeq(entries))

-----------------------------------------------------------------------------
(* Planning the tasks.                                                     *)

Unique(s) == FoldLeft(LAMBDA out, x : IF x \in ToSet(out) THEN out ELSE Append(out, x), <<>>, s)

\* The projected columns in the order of column_ids.
make_selected_column_indices(node) ==
  LET kept == SelectSeq([c \in DOMAIN node.column_ids |-> c],
                        LAMBDA c : node.projection_ids = <<>> \/ c \in ToSet(node.projection_ids))
  IN Unique(SelectSeq([i \in DOMAIN kept |-> node.column_ids[kept[i]]], LAMBDA p : p # Virtual))

\* Key columns of equality deletes that the query does not read are read after the others.
prepare(selected, eqGroups) ==
  FoldLeft(LAMBDA s, g : IF g.key \in ToSet(s) THEN s ELSE Append(s, g.key), selected, eqGroups)

\* A scan without columns still reads one, for the row count.
carrier(selected) == IF selected = <<>> THEN <<1>> ELSE selected

is_projected(node) == node.projection_ids # <<>>
do_filter(q) == q.filter # <<>> /\ q.translated

\* Columns the parquet reader is told to read: without a projection it reads the whole file.
reader_columns(node, selected) ==
  IF is_projected(node) \/ selected = <<>> THEN carrier(selected) ELSE Ascending(Columns)

\* The columns of the decoded table that the converter keeps after the filter was evaluated.
post_filter_projection_ids(node, q) ==
  IF do_filter(q) /\ is_projected(node)
  THEN SubSeq(node.projection_ids, 1, Len(node.types)) ELSE <<>>
pure_filter_column_indices(node, q) ==
  IF do_filter(q) /\ is_projected(node)
  THEN {node.column_ids[node.projection_ids[i]] :
          i \in Len(node.types) + 1 .. Len(node.projection_ids)}
  ELSE {}

Matches(row, filter) == filter = <<>> \/ row[filter[1]] = filter[2]

\* Statistics rule a row group out when no row of it can match; only a translated filter prunes.
row_group_indices(t, q) ==
  SelectSeq([i \in DOMAIN t.groups |-> i],
            LAMBDA i : do_filter(q) => \E r \in ToSet(t.groups[i]) : Matches(r, q.filter))

\* Consecutive row groups form a task until their output columns reach the batch size.
row_group_partitions(t, q, selected, pure) ==
  LET width == Cardinality(ToSet(selected) \ pure)
      step(a, i) ==
        LET cur == Append(a.cur, i)
            bytes == a.bytes + width * Len(t.groups[i])
        IN IF bytes >= IceBatch THEN [cur |-> <<>>, bytes |-> 0, out |-> Append(a.out, cur)]
           ELSE [a EXCEPT !.cur = cur, !.bytes = bytes]
      all == FoldLeft(step, [cur |-> <<>>, bytes |-> 0, out |-> <<>>], row_group_indices(t, q))
  IN IF all.cur = <<>> THEN all.out ELSE Append(all.out, all.cur)

-----------------------------------------------------------------------------
(* One task: read, convert, delete.  A table is a sequence of rows, each a *)
(* sequence of the cells of the columns read.                              *)

Table(s, width) == [error |-> "none", width |-> width, rows |-> s]
Failed(why) == [error |-> why, width |-> 0, rows |-> <<>>]
Keep(s, test(_)) == SelectSeq(s, test)
RowsOf(t, part) == FlattenSeq([k \in DOMAIN part |-> t.groups[part[k]]])
Cells(s, columns) == [i \in DOMAIN s |-> [k \in DOMAIN columns |-> s[i][columns[k]]]]

compute_first_row_offset_Batch(t, part) == 0
compute_first_row_offset(t, part) ==
  FoldLeft(LAMBDA n, i : n + Len(t.groups[i]), 0, [k \in 1 .. part[1] - 1 |-> k])

\* The mask is built from the positions in [first_row, first_row + rows of the batch).
positional_apply(tbl, positions, first_row) ==
  LET kept == SelectSeq([i \in DOMAIN tbl |-> i], LAMBDA i : (first_row + i - 1) \notin positions)
  IN [k \in DOMAIN kept |-> tbl[kept[k]]]

\* A group written no later than the data file leaves it alone.
applies(g, seq) == seq < g.seq

equality_apply(tbl, g, columns, seq) ==
  LET at == SelectInSeq(columns, LAMBDA c : c = g.key)
  IN IF at = 0 \/ ~applies(g, seq) THEN tbl
     ELSE Keep(tbl, LAMBDA r : r[at] \notin g.values)

\* The hook: positional deletes, each equality group, then the extra columns are dropped.
extra(columns, selected) == Len(columns) - Len(selected)
NoDeletes(t) == t.vector = <<>> /\ t.positions = {} /\ t.equality = {}
kept_columns(t, columns, selected) ==
  LET keep == Len(columns) - extra(columns, selected)
  IN IF NoDeletes(t) \/ keep = 0 THEN Len(columns) ELSE keep
delete_hook(tbl, t, columns, selected, first_row) ==
  LET eqGroups == materialize_equality_deletes(t.equality)
      positional == positional_apply(tbl, materialize_positional_deletes(t), first_row)
      left == FoldLeft(LAMBDA s, g : equality_apply(s, g, columns, t.seq), positional, eqGroups)
  IN IF NoDeletes(t) THEN tbl
     ELSE [i \in DOMAIN left |-> SubSeq(left[i], 1, kept_columns(t, columns, selected))]

\* The bytes read must be the bytes reserved for the selected columns.
compute_task(t, q, node, part) ==
  LET selected == make_selected_column_indices(node)
      wanted == carrier(prepare(selected, materialize_equality_deletes(t.equality)))
      columns == reader_columns(node, prepare(selected, materialize_equality_deletes(t.equality)))
      all == RowsOf(t, part)
      decoded == Cells(Keep(all, LAMBDA r : do_filter(q) => Matches(r, q.filter)), columns)
      hooked == delete_hook(decoded, t, wanted, selected, compute_first_row_offset(t, part))
      ids == post_filter_projection_ids(node, q)
  IN IF columns # wanted THEN Failed("byte mismatch")
     ELSE IF ids = <<>> THEN Table(hooked, kept_columns(t, wanted, selected))
     ELSE Table([i \in DOMAIN hooked |-> [k \in DOMAIN ids |-> hooked[i][ids[k]]]], Len(ids))

-----------------------------------------------------------------------------
(* TABLE_SCAN over an Iceberg scan: no scan of this kind sets passthrough, *)
(* so the filter runs again, on the batch position of its column.          *)

table_scan(tbl, q, node) ==
  LET position == build_batch_column_map(node.projection_ids, Len(node.column_ids))
      col == IF q.filter = <<>> THEN 0
             ELSE position[SelectInSeq(node.column_ids, LAMBDA c : c = q.filter[1])]
      pick(r) == IF Len(r) > Len(node.types)
                 THEN [i \in DOMAIN node.types |-> r[position[node.projection_ids[i]]]] ELSE r
  IN IF tbl.error # "none" THEN tbl
     ELSE IF tbl.width < col THEN Failed("out of range")
     ELSE IF tbl.width > Len(node.types) /\ Len(node.types) > Len(node.projection_ids)
     THEN Failed("projection")
     ELSE LET kept == Keep(tbl.rows, LAMBDA r : col = 0 \/ r[col] = q.filter[2])
          IN Table([i \in DOMAIN kept |-> pick(kept[i])], Len(node.types))

execute_iceberg(t, q) ==
  LET node == create_plan(q.get)
      selected == make_selected_column_indices(node)
      parts == row_group_partitions(t, q, carrier(selected), pure_filter_column_indices(node, q))
  IN [k \in DOMAIN parts |-> table_scan(compute_task(t, q, node, parts[k]), q, node)]

-----------------------------------------------------------------------------
(* The steps: a table is written, rows are deleted, a query scans it.      *)

IceRows == FoldLeft(LAMBDA n, g : n + Len(g), 0, ice.groups)

\* The values of a column are interchangeable: the first row has the same one everywhere.
FirstRow == [c \in Columns |-> CHOOSE v \in IceValues : TRUE]
WriteRow ==
  /\ query = NoQuery /\ IceRows < MaxIceRows
  /\ ice.positions = {} /\ ice.vector = <<>> /\ ice.equality = {}
  /\ \E row \in [Columns -> IceValues], newGroup \in BOOLEAN :
       /\ ice.groups = <<>> => newGroup /\ row = FirstRow
       /\ ice' = [ice EXCEPT !.groups = IF newGroup THEN Append(@, <<row>>)
                                        ELSE [@ EXCEPT ![Len(@)] = Append(@, row)]]
  /\ UNCHANGED <<query, rows>>

DeletePositions ==
  /\ query = NoQuery /\ ice.groups # <<>> /\ ice.positions = {} /\ ice.vector = <<>>
  /\ \E p \in SUBSET (0 .. IceRows - 1) \ {{}} :
       \/ ice' = [ice EXCEPT !.positions = p]
       \/ ice' = [ice EXCEPT !.vector = <<p>>]
       \/ \E q \in SUBSET p \ {{}} : ice' = [ice EXCEPT !.vector = <<p>>, !.positions = q]
  /\ UNCHANGED <<query, rows>>

DeleteEqual ==
  /\ query = NoQuery /\ ice.groups # <<>> /\ Cardinality(ice.equality) < 2
  /\ \E key \in Columns, value \in IceValues, seq \in {1, 2} :
       ice' = [ice EXCEPT !.equality = @ \cup {[key |-> key, value |-> value, seq |-> seq]}]
  /\ UNCHANGED <<query, rows>>

BindIceberg ==
  /\ query = NoQuery /\ ice.groups # <<>>
  /\ \E column_ids \in ColumnIds, translated \in Translations,
        filter \in {<<>>} \cup (Columns \X IceValues) :
       LET filtered == IF filter = <<>> THEN {} ELSE {filter[1]}
       IN \E projected \in SUBSET (DOMAIN column_ids) :
            /\ Pruned(column_ids, Ascending(projected), filtered)
            /\ Virtual \in ToSet(column_ids) => column_ids = <<Virtual>> /\ projected = {}
            /\ query' = [get |-> [NoGet EXCEPT !.path = "iceberg", !.column_ids = column_ids,
                                    !.projection_ids = Ascending(projected), !.filters = filtered],
                         filter |-> filter, translated |-> translated]
  /\ UNCHANGED <<ice, rows>>

RunIceberg ==
  /\ query # NoQuery /\ rows = <<>>
  /\ rows' = <<execute_iceberg(ice, query)>>
  /\ UNCHANGED <<ice, query>>

IcNext == WriteRow \/ DeletePositions \/ DeleteEqual \/ BindIceberg \/ RunIceberg

IcSpec == IcInit /\ SpInit /\ [][IcNext /\ UNCHANGED spvars]_<<icvars, spvars>>

-----------------------------------------------------------------------------
\* The rows of the snapshot: no delete names their position, and no later equality delete their
\* key; of these the ones the filter accepts.
Live(t, filter) ==
  LET all == FlattenSeq(t.groups)
      deleted == IF t.vector # <<>> THEN t.vector[1] ELSE t.positions
      live(i) == /\ (i - 1) \notin deleted
                 /\ \A e \in t.equality : e.seq > t.seq => all[i][e.key] # e.value
                 /\ Matches(all[i], filter)
      kept == SelectSeq([i \in DOMAIN all |-> i], live)
  IN [k \in DOMAIN kept |-> all[kept[k]]]

OutputColumns == ResolveTypes(query.get.column_ids, query.get.projection_ids)
CountOnly == OutputColumns = <<Virtual>>

ReadsTheSnapshot ==
  LET live == Live(ice, query.filter)
      out == FlattenSeq([k \in DOMAIN rows[1] |-> rows[1][k].rows])
  IN /\ \A r \in ToSet(rows[1]) : r.error = "none"
     /\ IF CountOnly THEN Len(out) = Len(live) ELSE out = Cells(live, OutputColumns)

\* An Iceberg scan hands on exactly the rows of the snapshot that the filter accepts, in file
\* order and with the columns the plan expects; a scan that only counts hands on as many rows.
\* Counting over equality deletes is refused with an error: the tests skip it.
SnapshotExact ==
  rows # <<>> =>
    IF CountOnly /\ ice.equality # {} THEN \A r \in ToSet(rows[1]) : r.error # "none" ELSE ReadsTheSnapshot

\* A table without deletes is scanned like plain parquet files: the query gets the rows its filter
\* accepts.
AppendOnlyLikeParquet == rows # <<>> /\ NoDeletes(ice) => ReadsTheSnapshot

\* Positional deletes and deletion vectors remove the rows at their positions in the data file,
\* and no others, whatever filter the query pushes down (here on a column it also returns).
PositionsHonoured ==
  rows # <<>> /\ ice.equality = {} /\ query.get.filters \subseteq ToSet(OutputColumns) => ReadsTheSnapshot
=============================================================================
