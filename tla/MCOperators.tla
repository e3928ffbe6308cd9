----------------------------- MODULE MCOperators -----------------------------
(***************************************************************************)
(* Query plans and operators, of the current and of the legacy engine.     *)
(* The parts share no state, so one run checks them side by side: the      *)
(* first step decides which of OperatorParts the behaviour is about, and   *)
(* nothing else moves.                                                     *)
(***************************************************************************)
EXTENDS Joins, Plans, Aggregates, Ordering, Expressions, LegacyScan, LegacyJoin, LegacyTopN, LegacyRelations

CONSTANT OperatorParts   \* the parts to check
VARIABLE part            \* the part that moves, "none" before the first step

mcvars == <<part, jvars, kvars, plvars, avars, ovars, exvars, lgvars, ljvars, topvars, lmvars>>

Only(p, others) ==
    /\ p \in OperatorParts /\ part \in {"none", p}
    /\ part' = p
    /\ UNCHANGED others

MCInit ==
    /\ part = "none"
    /\ JInit /\ KInit /\ PlInit /\ AInit /\ OInit /\ ExInit /\ LgInit /\ LjInit /\ TnInit /\ LmInit

MCNext ==
    \/ Only("joins", <<kvars, plvars, avars, ovars, exvars, lgvars, ljvars, topvars, lmvars>>) /\ JNext
    \/ Only("keys", <<jvars, plvars, avars, ovars, exvars, lgvars, ljvars, topvars, lmvars>>) /\ KNext
    \/ Only("plans", <<jvars, kvars, avars, ovars, exvars, lgvars, ljvars, topvars, lmvars>>) /\ PlNext
    \/ Only("aggregates", <<jvars, kvars, plvars, ovars, exvars, lgvars, ljvars, topvars, lmvars>>) /\ ANext
    \/ Only("orders", <<jvars, kvars, plvars, avars, exvars, lgvars, ljvars, topvars, lmvars>>) /\ ONext
    \/ Only("expressions", <<jvars, kvars, plvars, avars, ovars, lgvars, ljvars, topvars, lmvars>>) /\ ExNext
    \/ Only("legacy_scan", <<jvars, kvars, plvars, avars, ovars, exvars, ljvars, topvars, lmvars>>) /\ LgNext
    \/ Only("legacy_join", <<jvars, kvars, plvars, avars, ovars, exvars, lgvars, topvars, lmvars>>) /\ LjNext
    \/ Only("legacy_topn", <<jvars, kvars, plvars, avars, ovars, exvars, lgvars, ljvars, lmvars>>) /\ TnNext
    \/ Only("legacy_relations", <<jvars, kvars, plvars, avars, ovars, exvars, lgvars, ljvars, topvars>>) /\ LmNext

MCSpec == MCInit /\ [][MCNext]_mcvars

\* Joins: execution
MCLeft == <<1, 2>>
MCRight == <<1, 2>>
HashTypes == {"INNER", "LEFT", "RIGHT", "OUTER", "SEMI", "ANTI", "RIGHT_SEMI", "RIGHT_ANTI"}
MCPlans == ({"hash"} \X HashTypes) \cup ({"mixed"} \X {"INNER", "OUTER", "ANTI"}) \cup {<<"nlj", "INNER">>}
MarkPlans == {<<"hash", "MARK">>}

\* Joins: planning
KeyTables == [t |-> [width |-> 2, keys |-> {{1}}, rows |-> <<<<1, 1>>, <<2, 1>>, <<3, 2>>>>],
             u |-> [width |-> 2, keys |-> {{1, 2}}, rows |-> <<<<1, 1>>, <<1, 2>>, <<2, 1>>>>]]
KeyOthers == [keyed |-> <<<<1, 1>>, <<2, 2>>, <<4, 2>>>>, plain |-> <<<<1, 1>>, <<1, 2>>>>]
KeyMaps == {<<2, 1>>, <<1, 3>>, <<0, 2>>}
RepeatedMaps == KeyMaps \cup {<<1, 1>>}
KeyTypes == {"INNER", "LEFT", "RIGHT", "OUTER", "SEMI", "ANTI", "RIGHT_SEMI", "RIGHT_ANTI", "MARK", "SINGLE"}

\* Plans
AllLeaves == {"parquet", "iceberg", "COLUMN_DATA_SCAN", "DELIM_SCAN", "CTE_SCAN"}
AllUnaries == {"FILTER", "HASH_GROUP_BY", "UNGROUPED_AGGREGATE", "ORDER_BY"}
AllBinaries == {"HASH_JOIN", "NESTED_LOOP_JOIN", "LEFT_DELIM_JOIN", "RIGHT_DELIM_JOIN", "CTE"}
DeepLeaves == {"parquet", "DELIM_SCAN", "CTE_SCAN"}
DeepUnaries == {"FILTER", "HASH_GROUP_BY"}
OuterBinaries == {"OUTER_NESTED_LOOP_JOIN"}

\* Aggregates
Agg(fn, arg, distinct, filter) == [fn |-> fn, arg |-> arg, distinct |-> distinct, filter |-> filter]
MCAggLists == {<<Agg("avg", 2, FALSE, 0), Agg(fn, 2, FALSE, 0)>> : fn \in {"sum", "first"}}
           \cup {<<Agg("count_star", 0, FALSE, 0), Agg("count", 2, TRUE, 0), Agg("sum", 1, FALSE, 0)>>}
           \cup {<<Agg("min", 1, FALSE, 2), Agg("max", 2, FALSE, 0)>>}
MCAggCells == {<<>>, <<1>>, <<3>>}
MCAggGroups == {<<>>, <<1>>}

\* Ordering
OrdPlan(op, asc, nf, limit, offset, sample, max, card) ==
  [op |-> op, asc |-> asc, nulls_first |-> nf, limit |-> limit, offset |-> offset,
   sample_bytes |-> sample, max_bytes |-> max, cardinality |-> card]
MCOrdPlans == {OrdPlan("sort", asc, nf, 0, 0, s, 2, 5) : asc \in BOOLEAN, nf \in BOOLEAN, s \in {1}}
      \cup {OrdPlan("sort", TRUE, FALSE, 0, 0, 2, 2, 5)}
      \cup {OrdPlan("sort", TRUE, TRUE, 0, 0, 1, 1, 2)}
      \cup {OrdPlan("topn", asc, nf, 2, off, 0, 0, 0) : asc \in BOOLEAN, nf \in BOOLEAN, off \in {1}}
      \cup {OrdPlan("limit", TRUE, TRUE, l, off, 0, 0, 0) : l \in {2}, off \in 0 .. 2}
      \cup {OrdPlan("limit", TRUE, TRUE, 0, 1, 0, 0, 0)}

\* Expressions
(* All pairs of NULL, 0 and 1 in the columns of one table, no NULL in the other. *)

ExprCells == << <<>>, <<0>>, <<1>> >>
MCExprTables == { << [i \in 1 .. 9 |-> ExprCells[((i - 1) \div 3) + 1]], [i \in 1 .. 9 |-> ExprCells[((i - 1) % 3) + 1]] >>,
              << << <<0>>, <<1>> >>, << <<1>>, <<0>> >> >> }

\* LegacyScan
Ids(n) == [i \in 1 .. n |-> i - 1]
Lens(n) == [i \in 1 .. n |-> i % 3]
Wide == [cols |-> {"a", "b", "s"}, ids |-> Ids(11), chunks |-> <<6, 2, 3>>, len |-> Lens(11),
         nulls |-> [a |-> {2, 8}, b |-> {6, 11}, s |-> {4, 7}]]
Narrow == [cols |-> {"a", "s"}, ids |-> Ids(8), chunks |-> <<5, 3>>, len |-> Lens(8),
           nulls |-> [a |-> {5}, s |-> {6, 8}, b |-> {}]]
Gaps == [Wide EXCEPT !.ids = [i \in 1 .. 11 |-> IF i < 3 THEN i - 1 ELSE i]]
MCLgTables == {Wide, Narrow}
GapTables == {Gaps}

F(c, cmp, x) == [col |-> c, cmp |-> cmp, const |-> x]
Q(cols, out, gen, fs) == [cols |-> cols, out |-> out, gen |-> gen, filters |-> fs]
MCLgQueries ==
  {Q(<<"a">>, {"a"}, FALSE, <<F("a", ">=", <<1>>)>>),
   Q(<<"a", "s">>, {"a", "s"}, FALSE, <<F("s", ">", <<<<1>>>>), F("s", "is not null", <<>>)>>),
   Q(<<"s">>, {"s"}, TRUE, <<>>),
   Q(<<"b", "a">>, {"b"}, FALSE, <<F("a", "=", <<2>>), F("b", "<>", <<5>>)>>),
   Q(<<>>, {}, TRUE, <<>>)}

\* LegacyJoin
MCLjTuples == {<<0, 0>>, <<0, 1>>, <<1, 1>>}
Cond(cmp, col) == [cmp |-> cmp, col |-> col]
MCLjConds == { <<Cond("eq", 2), Cond("eq", 1)>>, <<Cond("ne", 1), Cond("eq", 2)>>,
               <<Cond("lt", 1)>> }
TwoRanges == { <<Cond("lt", 1), Cond("gt", 2)>> }
SignedTuples == {<<-1, 0>>, <<1, 0>>}
ThreeTuples == {<<0, 1>>, <<1, 1>>, <<2, 1>>}
MCLjHash(keys) == 3 * keys[1]
MCLjGeometries == {<<2, 1>>}

\* LegacyTopN
(* Small queries for LegacyTopN: one key column of every kernel type and   *)
(* two key columns, both directions, limits on both sides of               *)
(* MAX_THREAD_TOP_K.                                                       *)

Raw(type) ==
  CASE type = "INT_64"  -> {-4, 0, 3}
    [] type = "INT_32"  -> {-1, 0}
    [] type = "DOUBLE"  -> {0, 1, 5, 6}
    [] type = "INT_128" -> {<<-4, 1>>, <<3, 0>>, <<3, 1>>}
    [] type = "STRING"  -> {<<>>, <<1, 0>>, <<1, 1, 1>>, <<1, 1, 1, 0>>}

Cells(type) == {<<>>} \cup {<<r>> : r \in Raw(type)}

Columns(type, n) == {[type |-> type, cells |-> c] : c \in [1..n -> Cells(type)]}

KeyTypesOf == {"INT_64", "INT_32", "DOUBLE", "INT_128", "STRING"}

TopTexts(n) == [i \in 1..n |-> IF i = 2 THEN <<>> ELSE <<[j \in 1..(i % 3) |-> i]>>]

Limits == {<<1, 0>>, <<1, 1>>, <<2, 1>>, <<1, 3>>}

Query(keys, asc, n, l) ==
  [keys |-> keys, asc |-> asc, text |-> TopTexts(n), limit |-> l[1], offset |-> l[2]]

Sparse(n) == {[type |-> "INT_64", cells |-> c] : c \in [1..n -> {<<>>, <<-1>>, <<3>>}]}

MCTopQueries ==
  {Query(<<k>>, <<a>>, 5, l) : k \in Sparse(5), a \in BOOLEAN, l \in {<<1, 1>>, <<2, 1>>}}
  \cup
  {Query(<<k>>, <<a>>, 3, l) : k \in UNION {Columns(t, 3) : t \in KeyTypesOf},
                               a \in BOOLEAN, l \in Limits}
  \cup
  {Query(<<k, m>>, <<TRUE, a>>, 3, l) : k \in Columns("INT_32", 3), m \in Sparse(3),
                                        a \in BOOLEAN, l \in {<<2, 0>>, <<2, 1>>}}

\* 0.0 and -0.0 in the first of two keys
ZeroQueries ==
  {Query(<<[type |-> "DOUBLE", cells |-> k], m>>, <<TRUE, TRUE>>, 2, <<1, 0>>) :
     k \in [1..2 -> {<<0>>, <<4>>}], m \in Columns("INT_32", 2)}

\* LegacyRelations
(* The legacy engine's late materialization over two small tables. *)

MCLmTables ==
  << << [text |-> FALSE, cells |-> <<<<1>>, <<0>>, <<2>>>>],
        [text |-> TRUE,  cells |-> <<<<2>>, <<>>, <<1>>>>] >>,
     << [text |-> FALSE, cells |-> <<<<2>>, <<1>>>>],
        [text |-> TRUE,  cells |-> <<<<1>>, <<3>>>>] >> >>

\* Joins over any schedule of batches return what SQL returns, never stall, probe one
\* build batch, and rest on key claims that are true of the data.
JoinsExact ==
    /\ JoinCorrect
    /\ BuildIsOneBatch
    /\ JoinNotStuck
    /\ ClaimedKeyIsKey
    /\ DistinctContract

\* Expressions, and aggregates, sort, top-N and limit over any schedule of batches,
\* return what SQL returns, and sort boundaries partition the rows.
AnswersExact ==
    /\ GroupedCorrect
    /\ UngroupedCorrect
    /\ SortCorrect
    /\ BoundariesPartition
    /\ TopNCorrect
    /\ LimitCorrect
    /\ ExpressionsExact

\* The legacy engine's scan, cache flags, hash join, top-N and late materialisation
\* return the rows of the query and dereference only valid row ids.
LegacyExact ==
    /\ ScanExact
    /\ CachedMeansLoaded
    /\ BuildComplete
    /\ JoinResultExact
    /\ UniqueStaysUnique
    /\ TopNExact
    /\ TopNPayload
    /\ CollectedExact
    /\ NoDanglingRowIds

==============================================================================
