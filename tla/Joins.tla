------------------------------- MODULE Joins -------------------------------
(***************************************************************************)
(* Joins, from the plan to the rows: how the planner prepares a comparison *)
(* join, then how the operators of one join execute it.                    *)
(***************************************************************************)
EXTENDS Integers, Sequences, FiniteSets, Bags, FiniteSetsExt, SequencesExt, TLC

(***************************************************************************)
(* How the planner prepares a comparison join: prove_unique_columns, which *)
(* walks the build side's logical plan and claims a set of columns to be a *)
(* unique key, and plan_comparison_join, which picks the join operator,    *)
(* orders its conditions and decides whether the build keys are unique (so *)
(* that a distinct hash table, which keeps one row per key, may be used).  *)
(* The logical plan is grown from its leaf upwards; beside the code's      *)
(* claim the model carries the relation the plan denotes.                  *)
(***************************************************************************)

CONSTANTS
  Tables,       \* name -> [keys: the PRIMARY KEY column sets, rows: its contents]
  OtherRows,    \* contents of the table the plan is joined with, key column 1
  Projections,  \* column lists (child positions) a projection map may hold
  KJoinTypes,   \* logical join types the plan may contain
  MaxHeight     \* bound on the operators of the plan

PadNull == 0       \* pads the rows of outer joins; tables hold positive values

VARIABLES
  krows,    \* the relation the subtree denotes, a sequence of rows
  kwidth,   \* its number of columns
  kunique,  \* what prove_unique_columns returns for the subtree
  kheight,  \* operators so far
  kjoin     \* the planned join on top of the subtree

kvars == <<krows, kwidth, kunique, kheight, kjoin>>

KInit ==
  /\ krows = <<>> /\ kwidth = 0 /\ kunique = {} /\ kheight = 0
  /\ kjoin = [op |-> "none"]

Below == kheight < MaxHeight /\ kjoin.op = "none"
Grow == kheight' = kheight + 1 /\ UNCHANGED kjoin
ComputedColumn == 0   \* a projected expression that is not a plain column
ProjectRow(row, cols) == [i \in 1..Len(cols) |-> IF cols[i] = ComputedColumn THEN 1 ELSE row[cols[i]]]
Agree(a, b, cols) == \A c \in cols : a[c] = b[c]
HasKey(rows, cols) == \A i, j \in DOMAIN rows : i # j => ~Agree(rows[i], rows[j], cols)
-----------------------------------------------------------------------------
\* LOGICAL_GET: the smallest primary key whose columns are all in the output.
OutputOf(key, cols) == {i \in DOMAIN cols : cols[i] \in key}
SmallestKey(keys, cols) ==
  LET present == {key \in keys : key # {} /\ key \subseteq Range(cols)}
  IN  IF present = {} THEN {}
      ELSE OutputOf(CHOOSE key \in present : \A other \in present :
                      Cardinality(key) <= Cardinality(other), cols)

LogicalGet ==
  /\ kheight = 0 /\ kjoin.op = "none"
  /\ \E t \in DOMAIN Tables, cols \in Projections :
       /\ IsInjective(cols)
       /\ Range(cols) \subseteq 1..Tables[t].width
       /\ krows' = [i \in DOMAIN Tables[t].rows |-> ProjectRow(Tables[t].rows[i], cols)]
       /\ kwidth' = Len(cols)
       /\ kunique' = SmallestKey(Tables[t].keys, cols)
  /\ Grow

\* LOGICAL_FILTER, LOGICAL_ORDER_BY and LOGICAL_PROJECTION: every unique column
\* must map through; a computed column maps nothing.
Remap(unique, cols) ==
  LET mapped == {i \in DOMAIN cols : cols[i] \in unique}
  IN  IF Cardinality(mapped) = Cardinality(unique) THEN mapped ELSE {}

RemapNode ==
  /\ Below /\ kheight > 0
  /\ \E cols \in Projections :
       /\ Range(cols) \subseteq (1..kwidth) \cup {ComputedColumn}
       /\ krows' = [i \in DOMAIN krows |-> ProjectRow(krows[i], cols)]
       /\ kwidth' = Len(cols)
       /\ kunique' = Remap(kunique, cols)
  /\ Grow

\* LOGICAL_FILTER, LOGICAL_LIMIT and LOGICAL_TOP_N drop rows and keep the columns.
DropRows ==
  /\ Below /\ kheight > 0
  /\ \E keep \in SUBSET DOMAIN krows :
       krows' = LET at == SetToSortSeq(keep, <) IN [i \in DOMAIN at |-> krows[at[i]]]
  /\ UNCHANGED <<kwidth, kunique>>
  /\ Grow

\* LOGICAL_AGGREGATE_AND_GROUP_BY with one grouping set: group columns first.
LogicalGroupBy ==
  /\ Below /\ kheight > 0
  /\ \E cols \in {c \in Projections : IsInjective(c)} :
       /\ Range(cols) \subseteq 1..kwidth
       /\ LET groups == {ProjectRow(krows[i], cols) : i \in DOMAIN krows}
              size(g) == Cardinality({i \in DOMAIN krows : ProjectRow(krows[i], cols) = g})
          IN  krows' = LET s == SetToSeq(groups) IN [i \in DOMAIN s |-> Append(s[i], size(s[i]))]
       /\ kwidth' = Len(cols) + 1
       /\ kunique' = 1..Len(cols)
  /\ Grow
-----------------------------------------------------------------------------
\* LOGICAL_COMPARISON_JOIN of the subtree (left) with the other table (right),
\* on left column c = right column 1, which is the other table's primary key or not.
KeysUnique(unique, keys) == unique # {} /\ unique \subseteq keys

LeftPreserved(type, leftUnique, leftKeys, rightUnique, rightKeys) ==
  CASE type \in {"INNER", "LEFT"} -> KeysUnique(rightUnique, rightKeys)
    [] type \in {"SEMI", "ANTI", "MARK", "SINGLE"} -> leftUnique # {}
    [] OTHER -> FALSE
RightPreserved(type, leftUnique, leftKeys, rightUnique, rightKeys) ==
  CASE type \in {"INNER", "RIGHT"} -> KeysUnique(leftUnique, leftKeys)
    [] type \in {"RIGHT_SEMI", "RIGHT_ANTI"} -> rightUnique # {}
    [] OTHER -> FALSE
OnlyRight(type) == type \in {"RIGHT_SEMI", "RIGHT_ANTI"}
OnlyLeft(type) == type \in {"SEMI", "ANTI"}

\* The smaller of the two preserved keys, at its position in the output.
JoinUnique(type, leftUnique, leftKeys, rightUnique, rightKeys, leftWidth) ==
  LET fromLeft == IF LeftPreserved(type, leftUnique, leftKeys, rightUnique, rightKeys) /\ ~OnlyRight(type)
                  THEN leftUnique ELSE {}
      offset == IF OnlyRight(type) THEN 0 ELSE leftWidth
      fromRight == IF RightPreserved(type, leftUnique, leftKeys, rightUnique, rightKeys) /\ ~OnlyLeft(type)
                   THEN {offset + c : c \in rightUnique} ELSE {}
  IN  CASE type = "OUTER" \/ (leftUnique = {} /\ rightUnique = {}) -> {}
        [] fromRight # {} /\ (fromLeft = {} \/ Cardinality(fromRight) < Cardinality(fromLeft)) -> fromRight
        [] OTHER -> fromLeft

Nulls(n) == [i \in 1..n |-> PadNull]
JoinRows(type, L, R, c, width) ==
  LET matches(l, r) == l[c] = r[1] /\ l[c] # PadNull
      pairs == FlattenSeq([i \in DOMAIN L |->
                 LET hits == SelectSeq(R, LAMBDA r : matches(L[i], r))
                 IN [j \in DOMAIN hits |-> L[i] \o hits[j]]])
      loneLeft == SelectSeq(L, LAMBDA l : \A j \in DOMAIN R : ~matches(l, R[j]))
      loneRight == SelectSeq(R, LAMBDA r : \A i \in DOMAIN L : ~matches(L[i], r))
      paddedLeft == [i \in DOMAIN loneLeft |-> loneLeft[i] \o Nulls(Len(R[1]))]
      paddedRight == [i \in DOMAIN loneRight |-> Nulls(width) \o loneRight[i]]
  IN  CASE type = "INNER" -> pairs
        [] type = "LEFT"  -> pairs \o paddedLeft
        [] type = "RIGHT" -> pairs \o paddedRight
        [] type = "OUTER" -> pairs \o paddedLeft \o paddedRight
        [] type = "SEMI"  -> SelectSeq(L, LAMBDA l : \E j \in DOMAIN R : matches(l, R[j]))
        [] type = "ANTI"  -> loneLeft
        [] type = "RIGHT_SEMI" -> SelectSeq(R, LAMBDA r : \E i \in DOMAIN L : matches(L[i], r))
        [] type = "RIGHT_ANTI" -> loneRight
        [] type = "SINGLE" -> [i \in DOMAIN L |-> L[i] \o
             (LET hits == SelectSeq(R, LAMBDA r : matches(L[i], r))
              IN IF hits = <<>> THEN Nulls(Len(R[1])) ELSE hits[1])]
        [] type = "MARK"  -> [i \in DOMAIN L |-> Append(L[i], IF \E j \in DOMAIN R : matches(L[i], R[j]) THEN 2 ELSE 1)]

LogicalJoin ==
  /\ Below /\ kheight > 0
  /\ \E type \in KJoinTypes, c \in 1..kwidth, o \in DOMAIN OtherRows :
       LET R == OtherRows[o]
           rightUnique == IF HasKey(R, {1}) THEN {1} ELSE {}   \* column 1 is the PRIMARY KEY
       IN  /\ krows' = JoinRows(type, krows, R, c, kwidth)
           /\ kwidth' = CASE OnlyRight(type) -> Len(R[1]) [] OnlyLeft(type) -> kwidth
                          [] type = "MARK" -> kwidth + 1 [] OTHER -> kwidth + Len(R[1])
           /\ kunique' = JoinUnique(type, kunique, {c}, rightUnique, {1}, kwidth)
  /\ Grow
-----------------------------------------------------------------------------
\* plan_comparison_join with the subtree as its build side.
Equality(cond) == cond.cmp \in {"equal", "not_distinct_from"}

\* are_conditions_supported: an equality, and no column in both kinds of condition.
HashJoinSupports(conds) ==
  LET eqs == {i \in DOMAIN conds : Equality(conds[i])}
      ineqs == DOMAIN conds \ eqs
  IN  /\ eqs # {}
      /\ \A i \in eqs, j \in ineqs : conds[i].left # conds[j].left /\ conds[i].right # conds[j].right

\* reorder_join_conditions: stable, equalities first.
Reorder(conds) == SelectSeq(conds, Equality) \o SelectSeq(conds, LAMBDA c : ~Equality(c))

\* unique_build_keys: no null-safe equality, plain columns, and a proven key among them.
BuildKeys(conds) == {conds[i].right : i \in {j \in DOMAIN conds : conds[j].cmp = "equal"}}
UniqueBuildKeys(conds, unique) ==
  /\ \A i \in DOMAIN conds : conds[i].cmp # "not_distinct_from"
  /\ \A i \in DOMAIN conds : conds[i].cmp = "equal" => ~conds[i].cast
  /\ BuildKeys(conds) # {}
  /\ unique # {} /\ unique \subseteq BuildKeys(conds)

\* PhysicalNestedLoopJoin::IsSupported, of DuckDB: no null-safe comparison beside others.
NestedLoopSupports(conds) == \A i \in DOMAIN conds : conds[i].cmp # "not_distinct_from"

\* Columns outside the proven key are interchangeable: the last one stands for them.
Conditions == {c \in [cmp : {"equal", "not_distinct_from", "lt"}, left : 1..2, right : kunique \cup {kwidth},
                      cast : BOOLEAN] :
                 c.cast => c.cmp = "equal" /\ c.left = 1}

\* The columns of the probe side are interchangeable: the first condition has column 1.
PlanComparisonJoin ==
  /\ kheight > 0 /\ kjoin.op = "none"
  /\ \E first \in {c \in Conditions : c.left = 1}, more \in {<<>>} \cup {<<c>> : c \in Conditions} :
       LET conds == <<first>> \o more
       IN  \/ /\ HashJoinSupports(conds)
              /\ kjoin' = [op |-> "hash", conds |-> Reorder(conds),
                           unique |-> UniqueBuildKeys(Reorder(conds), kunique)]
           \/ /\ ~HashJoinSupports(conds)
              /\ kjoin' = [op |-> IF NestedLoopSupports(conds) THEN "nested loop" ELSE "throws",
                           conds |-> conds, unique |-> FALSE]
  /\ UNCHANGED <<krows, kwidth, kunique, kheight>>

KNext == LogicalGet \/ RemapNode \/ DropRows \/ LogicalGroupBy \/ LogicalJoin \/ PlanComparisonJoin
KSpec == KInit /\ [][KNext]_kvars
-----------------------------------------------------------------------------
\* prove_unique_columns "Returns a set of output column indices proven to form a
\* unique key for the given logical operator subtree": no two rows of the subtree
\* agree on the claimed columns, whatever operators were stacked.
ClaimedKeyIsKey == kunique # {} => HasKey(krows, kunique)

\* A join planned with unique_build_keys meets the distinct hash table's contract:
\* two build rows never have the same values in its equality key columns.
DistinctContract == kjoin.op # "none" /\ kjoin.unique => HasKey(krows, BuildKeys(kjoin.conds))

-----------------------------------------------------------------------------
(***************************************************************************)
(* The execution of one join: the two PARTITION operators on its inputs,   *)
(* the two CONCAT operators behind them and the join itself, in its three  *)
(* hash modes (STANDARD, BUILD_PROBE, MIXED_JOIN) or as a nested loop      *)
(* join.  Rows are abstracted to an identity, a key (possibly NULL) and a  *)
(* second value that inequality conditions compare; a batch is a set of    *)
(* rows and its size in bytes is its number of rows.  What cuDF computes   *)
(* on one pair of batches is modelled by sets of output rows.              *)
(***************************************************************************)

CONSTANTS
  JoinPlans,       \* the <<operator, join type>> pairs the planner may choose
  Comparisons,     \* "equal" and "not_distinct_from": the key comparison
  LeftRows,        \* rows of the probe side: LeftRows[i] = batch it is in
  RightRows,       \* rows of the build side
  JKeys,           \* key values; NoKey is SQL's NULL
  NoKey,
  PartitionBytes,  \* values hash_partition_bytes may be configured with
  ConcatBytes,     \* concat_batch_bytes
  MaxBuildBytes    \* max_build_hash_table_bytes

ASSUME JoinConstants == PartitionBytes \subseteq Nat \ {0} /\ ConcatBytes \in Nat

VARIABLES
  jplan,     \* the operator, the join type, the comparison, unique_build_keys
  jin,       \* jin[side]: batches waiting at the PARTITION operator
  jparts,    \* _num_partitions of both siblings, 0 while unset
  jall,      \* jall[side]: _concat_all of the side's CONCAT
  jcat,      \* jcat[side][p]: batches in partition p of the CONCAT's port
  jport,     \* jport[side][p]: batches in partition p of the join's port
  jmode,     \* _join_mode
  jtable,    \* _hash_table_build_state and, once built, the build rows
  jpairs,    \* left_batch_ids x right_batch_ids in task order, and the cursor
  jtasks,    \* BUILD_PROBE tasks whose input was popped and that did not run
  jout       \* the bag of rows the join has produced

jvars == <<jplan, jin, jparts, jall, jcat, jport, jmode, jtable, jpairs, jtasks, jout>>

Sides == {"probe", "build"}
SideRows(side) == IF side = "probe" THEN DOMAIN LeftRows ELSE DOMAIN RightRows
BatchNo(side, i) == IF side = "probe" THEN LeftRows[i] ELSE RightRows[i]
Batches(side) == Max({BatchNo(side, i) : i \in SideRows(side)} \cup {1})

\* Every port has its own batches; a row knows its side, so identities differ.
Row(side, i, k) == [side |-> side, id |-> i, k |-> k]
Bytes(batches) == FoldSeq(LAMBDA b, n : Cardinality(b) + n, 0, batches)
Absent == [side |-> "none"]     \* the NULL row an outer join pads with

(***************************************************************************)
(* The match predicate.  All hash joins are built with                     *)
(* null_equality::UNEQUAL; the nested loop join's predicate uses NULL_EQUAL *)
(* for not_distinct_from.  Mixed joins add an inequality on the identities. *)
(***************************************************************************)
KeysMatch(l, r) == l.k = r.k /\ l.k # NoKey
KeysMatchNullSafe(l, r) == l.k = r.k
MixedPredicate(l, r) == l.id <= r.id
\* What cuDF's joins return for a left and a right table.
Inner(L, R, M(_, _)) == {<<l, r>> \in L \X R : M(l, r)}
SemiRows(L, R, M(_, _)) == {l \in L : \E r \in R : M(l, r)}

\* gather_join_output: an unmatched row's index on the other side is out of bounds, and that
\* side's columns come out NULL.
PaddedRows(L, pairs) == {<<l, Absent>> : l \in L \ {p[1] : p \in pairs}}
PaddedLeft(R, pairs) == {<<Absent, r>> : r \in R \ {p[2] : p \in pairs}}

\* resolve_mark_join_result: every left row, marked when the semi join found it.
MarkRows(L, matched) == {<<l, l \in matched>> : l \in L}

(***************************************************************************)
(* One join task: the rows produced from one probe and one build batch.    *)
(* RIGHT types call the left variant with the sides swapped.               *)
(***************************************************************************)
JoinBatches(type, L, R, M(_, _)) ==
  CASE type = "INNER"      -> Inner(L, R, M)
    [] type = "LEFT"       -> Inner(L, R, M) \cup PaddedRows(L, Inner(L, R, M))
    [] type = "RIGHT"      -> Inner(L, R, M) \cup PaddedLeft(R, Inner(L, R, M))
    [] type = "OUTER"      -> Inner(L, R, M) \cup PaddedRows(L, Inner(L, R, M)) \cup PaddedLeft(R, Inner(L, R, M))
    [] type = "SEMI"       -> SemiRows(L, R, M)
    [] type = "ANTI"       -> L \ SemiRows(L, R, M)
    [] type = "RIGHT_SEMI" -> {r \in R : \E l \in L : M(l, r)}
    [] type = "RIGHT_ANTI" -> {r \in R : \A l \in L : ~M(l, r)}
    [] type = "MARK"       -> MarkRows(L, SemiRows(L, R, M))

\* gather_distinct_left_join_output: all probe rows, each with the build row found for it.
DistinctLeft(L, pairs) == pairs \cup PaddedRows(L, pairs)

\* distinct_hash_join keeps one build row per key: the probe finds at most one.
DistinctJoin(type, L, R, M(_, _)) ==
  LET found(l) == {r \in R : M(l, r)}
      pairs == {<<l, CHOOSE r \in found(l) : TRUE>> : l \in SemiRows(L, R, M)}
  IN  IF type = "LEFT" THEN DistinctLeft(L, pairs) ELSE pairs

StandardRows(plan, L, R) ==
  IF plan.unique /\ plan.type \in {"INNER", "LEFT"}
  THEN DistinctJoin(plan.type, L, R, KeysMatch)
  ELSE JoinBatches(plan.type, L, R, KeysMatch)

MixedRows(plan, L, R) ==
  LET both(l, r) == KeysMatch(l, r) /\ MixedPredicate(l, r)
  IN  JoinBatches(plan.type, L, R, both)

\* The nested loop join answers a pair with an empty side with no rows at all, and evaluates
\* the predicate it builds from the conditions on every other pair.
EmptySide(L, R) == L = {} \/ R = {}
NestedLoopPredicate(plan, l, r) ==
  IF plan.cmp = "not_distinct_from" THEN KeysMatchNullSafe(l, r) ELSE KeysMatch(l, r)
NestedLoopRows(plan, L, R) ==
  IF EmptySide(L, R) THEN {}
  ELSE JoinBatches(plan.type, L, R, LAMBDA l, r : NestedLoopPredicate(plan, l, r))

TaskRows(L, R) ==
  CASE jplan.op = "hash"  -> StandardRows(jplan, L, R)
    [] jplan.op = "mixed" -> MixedRows(jplan, L, R)
    [] jplan.op = "nlj"   -> NestedLoopRows(jplan, L, R)
-----------------------------------------------------------------------------
NoPorts == [s \in Sides |-> <<>>]

JInit ==
  /\ jplan = [op |-> "none"]
  /\ jin = NoPorts
  /\ jparts = 0
  /\ jall = [s \in Sides |-> FALSE]
  /\ jcat = NoPorts
  /\ jport = NoPorts
  /\ jmode = "STANDARD"
  /\ jtable = [state |-> "NOT_BUILT", rows |-> {}]
  /\ jpairs = [pairs |-> <<>>, taken |-> FALSE, next |-> 1]
  /\ jtasks = {}
  /\ jout = EmptyBag

\* sirius_physical_concat's constructor: the side of which the join must see
\* everything at once, by join type.
ConcatAll(plan, side) ==
  CASE plan.op = "nlj" -> FALSE
    [] plan.type \in {"LEFT", "ANTI", "SEMI"} -> side = "build"
    [] plan.type \in {"RIGHT", "RIGHT_ANTI", "RIGHT_SEMI"} -> side = "probe"
    [] plan.type \in {"INNER", "MARK"} -> FALSE
    [] plan.type = "OUTER" -> TRUE

UniqueKeys(rows) == \A a, b \in rows : a.k = b.k => a = b /\ a.k # NoKey

\* The converter has wired the join; both inputs are complete at their PARTITION.
JPlan ==
  /\ jplan.op = "none"
  /\ \E p \in JoinPlans, cmp \in Comparisons, u \in BOOLEAN, size \in PartitionBytes,
        kl \in [SideRows("probe") -> JKeys \cup {NoKey}],
        kr \in [SideRows("build") -> JKeys \cup {NoKey}] :
       LET key(s, i) == IF s = "probe" THEN kl[i] ELSE kr[i]
           batch(s, b) == {Row(s, i, key(s, i)) : i \in {j \in SideRows(s) : BatchNo(s, j) = b}}
           plan == [op |-> p[1], type |-> p[2], cmp |-> cmp, unique |-> u, partitionBytes |-> size,
                    tables |-> [s \in Sides |-> {Row(s, i, key(s, i)) : i \in SideRows(s)}]]
       IN  /\ u => UniqueKeys({Row("build", i, kr[i]) : i \in SideRows("build")}) /\ cmp = "equal"
           /\ jplan' = plan
           /\ jin' = [s \in Sides |-> [b \in 1..Batches(s) |-> batch(s, b)]]
           /\ jall' = [s \in Sides |-> ConcatAll(plan, s)]
           /\ jparts' = IF p[1] = "nlj" THEN 1 ELSE 0
           /\ jmode' = IF p[1] = "mixed" THEN "MIXED_JOIN" ELSE "STANDARD"
           /\ jcat' = IF p[1] = "nlj" THEN [s \in Sides |-> <<<<>>>>] ELSE jcat
           /\ jport' = IF p[1] = "nlj" THEN [s \in Sides |-> <<<<>>>>] ELSE jport
  /\ UNCHANGED <<jtable, jpairs, jtasks, jout>>
-----------------------------------------------------------------------------
\* Partitioning
NumPartitions(bytes) == Max({1, bytes \div jplan.partitionBytes})
HashOf(row, n) == (IF row.k = NoKey THEN 0 ELSE row.k) % n
PartOf(batch, p, n) == {r \in batch : HashOf(r, n) = p - 1}

BuildProbeTypes == {"INNER", "LEFT", "OUTER"}
\* update_join_exec_mode: the build side always has a CONCAT to fold it.
EntersBuildProbe_AnyCount(n, bytes) == bytes < MaxBuildBytes /\ jplan.type \in BuildProbeTypes
EntersBuildProbe(n, bytes) ==
  /\ n = 1 /\ bytes < MaxBuildBytes
  /\ jplan.type \in BuildProbeTypes
  /\ jmode # "MIXED_JOIN"

\* The first task of the build side's PARTITION fixes the number of partitions
\* for both siblings and decides on BUILD_PROBE, which folds the build side.
DeterminePartitions(side) ==
  IF jparts # 0 THEN UNCHANGED <<jparts, jmode, jall>>
  ELSE LET bytes == Bytes(jin[side])
           n == NumPartitions(bytes)
           bp == EntersBuildProbe(n, bytes)
       IN  /\ jparts' = n
           /\ jmode' = IF bp THEN "BUILD_PROBE" ELSE jmode
           /\ jall' = IF bp THEN [jall EXCEPT !["build"] = TRUE] ELSE jall

\* The probe side's PARTITION defers to its sibling until the count is set.
PartitionHint(side) == jin[side] # <<>> /\ (side = "build" \/ jparts # 0)

PartitionTask(side) ==
  /\ jplan.op # "none"
  /\ PartitionHint(side)
  /\ DeterminePartitions(side)
  /\ \E i \in 1..Len(jin[side]) :
       /\ jin' = [jin EXCEPT ![side] = RemoveAt(@, i)]
       /\ LET n == jparts'
              port == IF jcat[side] = <<>> THEN [p \in 1..n |-> <<>>] ELSE jcat[side]
          IN  jcat' = [jcat EXCEPT ![side] =
                        [p \in 1..n |-> Append(port[p], IF n = 1 THEN jin[side][i]
                                                        ELSE PartOf(jin[side][i], p, n))]]
  /\ UNCHANGED <<jplan, jport, jtable, jpairs, jtasks, jout>>
-----------------------------------------------------------------------------
\* Concatenation
PartitionFinished(side) == jplan.op # "none" /\ jin[side] = <<>>
Waiting(port) == \E p \in DOMAIN port : port[p] # <<>>

ConcatHint(side) ==
  IF PartitionFinished(side) THEN Waiting(jcat[side])
  ELSE /\ ~jall[side]
       /\ \E p \in DOMAIN jcat[side] : Bytes(jcat[side][p]) > ConcatBytes
                                       /\ Len(jcat[side][p]) > 1

\* How many of a partition's batches one task takes: all, or as many as fit.
TakeCount(all, batches) ==
  IF all THEN Len(batches)
  ELSE Max({1} \cup {n \in 1..Len(batches) : Bytes(SubSeq(batches, 1, n)) <= ConcatBytes})

ConcatTask(side) ==
  /\ ConcatHint(side)
  /\ LET p == Min({q \in DOMAIN jcat[side] : jcat[side][q] # <<>>})
         batches == jcat[side][p]
         n == TakeCount(jall[side], batches)
         port == IF jport[side] = <<>> THEN [q \in DOMAIN jcat[side] |-> <<>>] ELSE jport[side]
         merged == UNION {batches[i] : i \in 1..n}
     IN  /\ jcat' = [jcat EXCEPT ![side][p] = SubSeq(@, n + 1, Len(@))]
         /\ jport' = [jport EXCEPT ![side] = [port EXCEPT ![p] = Append(@, [n |-> Len(@) + 1, rows |-> merged])]]
  /\ UNCHANGED <<jplan, jin, jparts, jall, jmode, jtable, jpairs, jtasks, jout>>
-----------------------------------------------------------------------------
\* STANDARD, MIXED_JOIN and nested loop: every pair of batches of a partition
ConcatFinished(side) == PartitionFinished(side) /\ ~Waiting(jcat[side])

\* get_next_task_input_data takes a snapshot of the batches on its first call
\* and enumerates the pairs of each partition, left batch by left batch.
PairOrder ==
  LET pairsOf(p) ==
        LET nl == Len(jport["probe"][p])
            nr == Len(jport["build"][p])
        IN  [i \in 1..(nl * nr) |-> [part |-> p, l |-> ((i - 1) \div nr) + 1, r |-> ((i - 1) % nr) + 1,
                                     nl |-> nl, nr |-> nr]]
  IN  FlattenSeq([p \in DOMAIN jport["probe"] |-> pairsOf(p)])

\* A batch leaves its port with the last pair that needs it.
PopLeft(pair) == pair.r = pair.nr
PopRight(pair) == pair.l = pair.nl

Fetch(port, n) == UNION {port[i].rows : i \in {j \in DOMAIN port : port[j].n = n}}
Pop(port, n) == SelectSeq(port, LAMBDA b : b.n # n)

StandardHint ==
  /\ jmode # "BUILD_PROBE"
  /\ \A s \in Sides : ConcatFinished(s) /\ Waiting(jport[s])

PairTask ==
  /\ StandardHint
  /\ LET order == IF jpairs.taken THEN jpairs.pairs ELSE PairOrder
     IN  /\ jpairs.next <= Len(order)
         /\ LET pair == order[jpairs.next]
                pops == {"probe" : x \in {y \in {1} : PopLeft(pair)}}
                        \cup {"build" : x \in {y \in {1} : PopRight(pair)}}
                no(s) == IF s = "probe" THEN pair.l ELSE pair.r
            IN  /\ jpairs' = [pairs |-> order, taken |-> TRUE, next |-> jpairs.next + 1]
                /\ jport' = [s \in Sides |-> IF s \in pops
                                             THEN [jport[s] EXCEPT ![pair.part] = Pop(@, no(s))]
                                             ELSE jport[s]]
                /\ jout' = jout (+) SetToBag(TaskRows(Fetch(jport["probe"][pair.part], pair.l),
                                                      Fetch(jport["build"][pair.part], pair.r)))
  /\ UNCHANGED <<jplan, jin, jparts, jall, jcat, jmode, jtable, jtasks>>
-----------------------------------------------------------------------------
\* BUILD_PROBE: one build batch, hashed once, probed batch by batch
HashState(s) == jtable' = [jtable EXCEPT !.state = s]

\* get_next_task_hint claims the build: later hints wait until it is done.
BuildHint ==
  /\ jmode = "BUILD_PROBE"
  /\ jtable.state = "NOT_BUILT"
  /\ \A s \in Sides : Waiting(jport[s])
  /\ HashState("SCHEDULING")
  /\ UNCHANGED <<jplan, jin, jparts, jall, jcat, jport, jmode, jpairs, jtasks, jout>>

\* get_next_task_input_data_for_build_probe: throws unless there is one build batch.
BuildInput ==
  /\ jmode = "BUILD_PROBE"
  /\ jtable.state = "SCHEDULING"
  /\ Len(jport["build"]) = 1 /\ Len(jport["build"][1]) = 1
  /\ jtable' = [state |-> "SCHEDULED", rows |-> jport["build"][1][1].rows]
  /\ jtasks' = jtasks \cup {jport["probe"][1][1].rows}
  /\ jport' = [jport EXCEPT !["probe"][1] = Tail(@), !["build"][1] = Tail(@)]
  /\ UNCHANGED <<jplan, jin, jparts, jall, jcat, jmode, jpairs, jout>>

\* execute of the build task up to the point where the table is published; an
\* out-of-memory error in the probe after it retries the task with the table built.
BuildTable ==
  /\ jtable.state = "SCHEDULED"
  /\ HashState("BUILT")
  /\ UNCHANGED <<jplan, jin, jparts, jall, jcat, jport, jmode, jpairs, jtasks, jout>>

\* A hint and the input of a task that only probes.
ProbeInput ==
  /\ jtable.state = "BUILT"
  /\ Waiting(jport["probe"])
  /\ jtasks' = jtasks \cup {jport["probe"][1][1].rows}
  /\ jport' = [jport EXCEPT !["probe"][1] = Tail(@)]
  /\ UNCHANGED <<jplan, jin, jparts, jall, jcat, jmode, jtable, jpairs, jout>>

ProbeTask ==
  /\ jtable.state = "BUILT"
  /\ \E rows \in jtasks :
       /\ jtasks' = jtasks \ {rows}
       /\ jout' = jout (+) SetToBag(TaskRows(rows, jtable.rows))
  /\ UNCHANGED <<jplan, jin, jparts, jall, jcat, jport, jmode, jtable, jpairs>>

\* The join's pipeline has finished: nothing is left upstream and at its ports.
JFinished ==
  /\ \A s \in Sides : ConcatFinished(s)
  /\ \E s \in Sides : ~Waiting(jport[s])
  /\ jtasks = {}
  /\ jtable.state \in {"NOT_BUILT", "BUILT"}
  /\ jmode = "BUILD_PROBE" => ~Waiting(jport["probe"])

\* on_finalize_operator drops the table.
JFinalize ==
  /\ JFinished
  /\ jmode = "BUILD_PROBE"
  /\ jtable' = [state |-> "DESTROYED", rows |-> {}]
  /\ UNCHANGED <<jplan, jin, jparts, jall, jcat, jport, jmode, jpairs, jtasks, jout>>

JNext == \/ JPlan
         \/ \E s \in Sides : PartitionTask(s) \/ ConcatTask(s)
         \/ PairTask
         \/ BuildHint \/ BuildInput \/ BuildTable \/ ProbeInput \/ ProbeTask
         \/ JFinalize

JSpec == JInit /\ [][JNext]_jvars
-----------------------------------------------------------------------------
\* Properties

SqlMatch(l, r) ==
  /\ IF jplan.cmp = "equal" THEN KeysMatch(l, r) ELSE KeysMatchNullSafe(l, r)
  /\ jplan.op = "mixed" => MixedPredicate(l, r)

JEnded == (JFinished /\ jmode # "BUILD_PROBE") \/ jtable.state = "DESTROYED"

\* However the two sides are batched, partitioned, concatenated and scheduled, a
\* finished join has produced the rows SQL defines for the two whole tables, each
\* exactly once (partition, concat and join operators together).
JoinCorrect ==
  JEnded => jout = SetToBag(JoinBatches(jplan.type, jplan.tables["probe"], jplan.tables["build"], SqlMatch))

\* get_next_task_input_data_for_build_probe never throws "expected exactly 1
\* partition and 1 batch": the build side has been folded when the build is claimed.
BuildIsOneBatch ==
  jtable.state = "SCHEDULING" => /\ Len(jport["build"]) = 1 /\ Len(jport["build"][1]) = 1
                                 /\ Len(jport["probe"]) = 1

\* A planned join ends: in no reachable state does every operator wait for another
\* one while the join is unfinished (the hints of partition, concat and join).
JoinNotStuck == jplan.op # "none" => JEnded \/ ENABLED JNext

=============================================================================
