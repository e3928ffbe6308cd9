---------------------------- MODULE Expressions ----------------------------
(***************************************************************************)
(* Scalar expressions: the translation of a bound DuckDB expression into   *)
(* the Sirius AST (expression/from_duckdb.cpp) and back                    *)
(* (expression/to_duckdb.cpp), its evaluation by gpu_expression_executor   *)
(* under the three strategies, and its translation into a standalone cuDF  *)
(* AST by gpu_expression_translator.                                       *)
(*                                                                         *)
(* A cell is <<>> (NULL) or <<v>>; BOOL8 is 0 or 1.  A column is a         *)
(* sequence of cells, a table a sequence of columns.  Strings, dates and   *)
(* the widths of numbers are abstracted: a function that cuDF's AST lacks  *)
(* is the one function "length", applied cell by cell.                     *)
(***************************************************************************)
EXTENDS Integers, Sequences, SequencesExt, FiniteSets

CONSTANTS
    MaxExprNodes,   \* bound on the nodes of an expression
    ExprTables,     \* the tables expressions are evaluated on
    MinAstSizes,    \* the values of min_ast_size tried
    BetweenFlags    \* the inclusiveness of the bounds of BETWEEN

VARIABLES
    work,           \* the stack of the expressions built so far
    spent           \* the number of nodes they have

exvars == <<work, spent>>

NullCell == <<>>
True == <<1>>
False == <<0>>
Bool(b) == IF b THEN True ELSE False
IsTrue(c) == c = True

\* Values no expression computes: the row on which SQL raises an error, a freed device scalar.
Raised == <<8>>
Freed == <<9>>

RECURSIVE from_duckdb(_), to_duckdb(_), OpCount(_), Sql(_, _, _), Decided(_, _, _),
          ExecuteExpr(_, _, _), ExecuteAll(_, _, _, _), AstEval(_, _, _),
          Coalesced(_, _, _, _), CoalescedWith(_, _, _, _, _), Cased(_, _, _, _), CasedThen(_, _, _, _), CasedNext(_, _, _),
          CasedMask(_, _, _, _), ExecutedNext(_, _, _, _), Translate(_, _)

----------------------------------------------------------------------------
(* Bound expressions of DuckDB, and the Sirius AST nodes they become.      *)

\* expression/join_condition.cpp: the comparison kinds.
ComparisonType == [COMPARE_EQUAL |-> "equal", COMPARE_LESSTHAN |-> "lt", COMPARE_GREATERTHANOREQUALTO |-> "ge",
                   COMPARE_DISTINCT_FROM |-> "distinct_from", COMPARE_NOT_DISTINCT_FROM |-> "not_distinct_from"]

\* The kinds of conjunction, of unary operator and of list membership.
ConjunctionKind == [CONJUNCTION_AND |-> "op_and", CONJUNCTION_OR |-> "op_or"]
UnaryKind == [OPERATOR_NOT |-> "op_not", OPERATOR_IS_NULL |-> "op_is_null",
              OPERATOR_IS_NOT_NULL |-> "op_is_not_null", OPERATOR_TRY |-> "op_try"]
InKind == [COMPARE_IN |-> "in", COMPARE_NOT_IN |-> "not_in"]

\* expression/function_id.cpp: the closed set of functions, with the one alias.
ForwardTable == [ADD |-> "add", MUL |-> "mul", LENGTH |-> "length", LENGTH_ALIAS |-> "length", ERROR |-> "error"]
ReverseTable == [add |-> "ADD", mul |-> "MUL", length |-> "LENGTH", error |-> "ERROR"]

\* The key of a one-to-one table under which a value is stored.
KeyOf(table, v) == CHOOSE k \in DOMAIN table : table[k] = v

\* The alternatives of sirius::ast::node that keep the type of the expression.
Typed == {"reference", "constant", "case_expr", "cast", "coalesce", "function_call"}

\* A node of the given kind over the translated children, nothing when one of them has no
\* translation.
MakeNode(e, kids, kind, op) ==
    IF \E i \in DOMAIN kids : kids[i] = <<>>
    THEN <<>>
    ELSE << [kind |-> kind, op |-> op, ty |-> IF kind \in Typed THEN e.ty ELSE "",
             val |-> e.val, kids |-> [i \in DOMAIN kids |-> kids[i][1]]] >>

\* translate_operator: unary operators, COALESCE and IN share one class of DuckDB.
translate_operator(e, kids) ==
    CASE e.op \in DOMAIN UnaryKind -> MakeNode(e, kids, "unary_op", UnaryKind[e.op])
      [] e.op = "OPERATOR_COALESCE" -> MakeNode(e, kids, "coalesce", "")
      [] e.op \in DOMAIN InKind -> MakeNode(e, kids, "in_list", InKind[e.op])
      [] OTHER -> <<>>

from_duckdb(e) ==
    LET kids == [i \in DOMAIN e.kids |-> from_duckdb(e.kids[i])] IN
    CASE e.class = "BOUND_REF" -> MakeNode(e, kids, "reference", "")
      [] e.class = "BOUND_CONSTANT" -> MakeNode(e, kids, "constant", "")
      [] e.class = "BOUND_COMPARISON" ->
            IF e.op \in DOMAIN ComparisonType THEN MakeNode(e, kids, "comparison", ComparisonType[e.op]) ELSE <<>>
      [] e.class = "BOUND_CONJUNCTION" ->
            IF e.op \in DOMAIN ConjunctionKind THEN MakeNode(e, kids, "conjunction", ConjunctionKind[e.op]) ELSE <<>>
      [] e.class = "BOUND_BETWEEN" -> MakeNode(e, kids, "between", e.op)
      [] e.class = "BOUND_CASE" -> MakeNode(e, kids, "case_expr", "")
      [] e.class = "BOUND_CAST" -> MakeNode(e, kids, "cast", "")
      [] e.class = "BOUND_FUNCTION" ->
            IF e.op \in DOMAIN ForwardTable THEN MakeNode(e, kids, "function_call", ForwardTable[e.op]) ELSE <<>>
      [] e.class = "BOUND_OPERATOR" -> translate_operator(e, kids)
      [] OTHER -> <<>>

\* A DuckDB expression; nodes without a type of their own become BOOLEAN.
Bound(class, op, ty, val, kids) == [class |-> class, op |-> op, ty |-> ty, val |-> val, kids |-> kids]

\* BoundCastExpression::AddDefaultCastToType returns the child when it already has the type.
AddDefaultCastToType(child, ty) == IF child.ty = ty THEN child ELSE Bound("BOUND_CAST", "", ty, NullCell, <<child>>)

to_duckdb(n) ==
    LET kids == [i \in DOMAIN n.kids |-> to_duckdb(n.kids[i])] IN
    CASE n.kind = "reference" -> Bound("BOUND_REF", "", n.ty, n.val, kids)
      [] n.kind = "constant" -> Bound("BOUND_CONSTANT", "", n.ty, n.val, kids)
      [] n.kind = "comparison" -> Bound("BOUND_COMPARISON", KeyOf(ComparisonType, n.op), "BOOLEAN", n.val, kids)
      [] n.kind = "conjunction" -> Bound("BOUND_CONJUNCTION", KeyOf(ConjunctionKind, n.op), "BOOLEAN", n.val, kids)
      [] n.kind = "between" -> Bound("BOUND_BETWEEN", n.op, "BOOLEAN", n.val, kids)
      [] n.kind = "case_expr" -> Bound("BOUND_CASE", "", n.ty, n.val, kids)
      [] n.kind = "cast" -> AddDefaultCastToType(kids[1], n.ty)
      [] n.kind = "unary_op" -> Bound("BOUND_OPERATOR", KeyOf(UnaryKind, n.op), "BOOLEAN", n.val, kids)
      [] n.kind = "coalesce" -> Bound("BOUND_OPERATOR", "OPERATOR_COALESCE", n.ty, n.val, kids)
      [] n.kind = "in_list" -> Bound("BOUND_OPERATOR", KeyOf(InKind, n.op), "BOOLEAN", n.val, kids)
      [] n.kind = "function_call" -> Bound("BOUND_FUNCTION", ReverseTable[n.op], n.ty, n.val, kids)

----------------------------------------------------------------------------
(* What SQL says of an expression on one row (the reference).              *)

Kleene(and, a, b) ==
    LET absorbing == Bool(~and) IN
    IF a = absorbing \/ b = absorbing THEN absorbing
    ELSE IF a = NullCell \/ b = NullCell THEN NullCell ELSE Bool(and)

\* A value operator of cuDF: NULL for a NULL operand, but for the operators that see NULLs.
Strict(op, a, b) ==
    IF a = NullCell \/ b = NullCell THEN NullCell
    ELSE CASE op = "EQUAL" -> Bool(a = b)
           [] op = "LESS" -> Bool(a[1] < b[1])
           [] op = "LESS_EQUAL" -> Bool(a[1] <= b[1])
           [] op = "GREATER" -> Bool(a[1] > b[1])
           [] op = "GREATER_EQUAL" -> Bool(a[1] >= b[1])
           [] op = "ADD" -> <<a[1] + b[1]>>
           [] op = "MUL" -> <<a[1] * b[1]>>
           [] op = "LOGICAL_AND" -> Bool(IsTrue(a) /\ IsTrue(b))
           [] op = "LOGICAL_OR" -> Bool(IsTrue(a) \/ IsTrue(b))
Not(a) == IF a = NullCell THEN NullCell ELSE Bool(a = False)
Length(a) == IF a = NullCell THEN NullCell ELSE <<a[1] + 1>>

\* The value of expression e on row r of table t.
Sql(e, t, r) ==
    LET x(i) == Sql(e.kids[i], t, r)
        n == Len(e.kids)
    IN CASE e.class = "BOUND_REF" -> t[e.val[1]][r]
         [] e.class = "BOUND_CONSTANT" -> e.val
         [] e.op = "COMPARE_EQUAL" -> Strict("EQUAL", x(1), x(2))
         [] e.op = "COMPARE_LESSTHAN" -> Strict("LESS", x(1), x(2))
         [] e.op = "COMPARE_GREATERTHANOREQUALTO" -> Strict("GREATER_EQUAL", x(1), x(2))
         [] e.op = "COMPARE_DISTINCT_FROM" -> Bool(x(1) # x(2))
         [] e.op = "COMPARE_NOT_DISTINCT_FROM" -> Bool(x(1) = x(2))
         [] e.class = "BOUND_CONJUNCTION" -> Kleene(e.op = "CONJUNCTION_AND", x(1), x(2))
         [] e.class = "BOUND_BETWEEN" ->
               Kleene(TRUE, Strict(IF e.op \in {"[]", "[)"} THEN "GREATER_EQUAL" ELSE "GREATER", x(1), x(2)),
                            Strict(IF e.op \in {"[]", "(]"} THEN "LESS_EQUAL" ELSE "LESS", x(1), x(3)))
         [] e.class = "BOUND_CASE" -> 
               LET taken == {i \in 1 .. n \div 2 : IsTrue(x(2 * i - 1))}
               IN IF taken = {} THEN x(n) ELSE x(2 * Min(taken))
         [] e.class = "BOUND_CAST" -> x(1)
         [] e.op = "OPERATOR_NOT" -> Not(x(1))
         [] e.op = "OPERATOR_IS_NULL" -> Bool(x(1) = NullCell)
         [] e.op = "OPERATOR_IS_NOT_NULL" -> Bool(x(1) # NullCell)
         [] e.op = "OPERATOR_TRY" -> x(1)
         [] e.op = "OPERATOR_COALESCE" -> IF x(1) # NullCell THEN x(1) ELSE x(2)
         [] e.op \in DOMAIN InKind ->
               LET found == FoldLeft(LAMBDA acc, i : Kleene(FALSE, acc, Strict("EQUAL", x(1), x(i))),
                                     False, [i \in 1 .. n - 1 |-> i + 1])
               IN IF e.op = "COMPARE_IN" THEN found ELSE Not(found)
         [] e.op = "ADD" -> Strict("ADD", x(1), x(2))
         [] e.op = "MUL" -> Strict("MUL", x(1), x(2))
         [] e.op \in {"LENGTH", "LENGTH_ALIAS"} -> Length(x(1))
         [] e.op = "ERROR" -> Raised

\* No AND or OR below e (those BETWEEN and IN stand for included) has a NULL operand on the row:
\* cuDF's LOGICAL_AND and LOGICAL_OR give NULL there, SQL may give TRUE or FALSE.
Decided(e, t, r) ==
    /\ \A i \in DOMAIN e.kids : Decided(e.kids[i], t, r)
    /\ e.class \in {"BOUND_CONJUNCTION", "BOUND_BETWEEN"} \/ e.op \in DOMAIN InKind
         => \A i \in DOMAIN e.kids : Sql(e.kids[i], t, r) # NullCell

----------------------------------------------------------------------------
(* gpu_expression_executor.  A run s holds the input table, the strategy   *)
(* (ast, min), the temporaries that AST nodes refer to (cols and scals,    *)
(* <<>> once released) and the exception thrown, if any.                   *)

\* ast_op_counter.cpp: how many cuDF AST operators a node lowers to.
SupportedAstCasts == {"BIGINT"}
SupportedAstFunctions == {"add", "mul"}
AstSupported(e) ==
    CASE e.kind \in {"case_expr", "coalesce"} -> FALSE
      [] e.kind = "cast" -> e.ty \in SupportedAstCasts
      [] e.kind = "function_call" -> e.ty # "DECIMAL" /\ e.op \in SupportedAstFunctions
      [] OTHER -> TRUE
OwnOps(e) ==
    LET values == Len(e.kids) - 1 IN
    CASE e.kind = "comparison" -> IF e.op = "distinct_from" THEN 2 ELSE 1
      [] e.kind = "conjunction" -> Len(e.kids) - 1
      [] e.kind = "between" -> 3
      [] e.kind \in {"cast", "function_call"} -> 1
      [] e.kind = "unary_op" -> IF e.op = "op_is_not_null" THEN 2 ELSE 1
      [] e.kind = "in_list" -> (values - 1) + values + (IF e.op = "not_in" THEN 1 ELSE 0)
      [] OTHER -> 0
OpCount(e) ==
    IF ~AstSupported(e) THEN 0
    ELSE OwnOps(e) + FoldLeft(LAMBDA n, kid : n + OpCount(kid), 0, e.kids)

\* A node of a cuDF AST: an operator over its operands, a column of the combined table, a literal
\* that refers to a temporary scalar of the run ("lit") or to one the tree owns ("own").
Ast(op, arg, val, kids) == [op |-> op, arg |-> arg, val |-> val, kids |-> kids]
Op(op, kids) == Ast(op, 0, NullCell, kids)
NoAst == Op("none", <<>>)

\* execute_result, and the temporaries an AST result keeps alive.
Result(form, x, data, scals, cols) == [form |-> form, x |-> x, data |-> data, scals |-> scals, cols |-> cols]
View(col) == Result("view", NoAst, col, {}, {})
Scalar(cell) == Result("scalar", NoAst, cell, {}, {})
ColumnResult(col) == Result("column", NoAst, col, {}, {})
NoResult == Result("none", NoAst, <<>>, {}, {})

Give(s, res) == [s |-> s, res |-> res]
Throw(s, why) == Give([s EXCEPT !.err = why], NoResult)
TableRows(s) == DOMAIN s.table[1]
CellAt(res, r) == IF res.form = "scalar" THEN res.data ELSE res.data[r]

\* cuDF's operators (external): the ones that see NULLs, the others strict.
Apply(op, x) ==
    CASE op = "NULL_EQUAL" -> Bool(x[1] = x[2])
      [] op = "NULL_NOT_EQUALS" -> Bool(x[1] # x[2])
      [] op = "IS_NULL" -> Bool(x[1] = NullCell)
      [] op = "NOT" -> Not(x[1])
      [] op = "CAST" -> x[1]
      [] OTHER -> Strict(op, x[1], x[2])

\* cudf::compute_column over the combined table: a released temporary column is replaced by the
\* first input column so that later indices keep their meaning.
AstEval(x, s, r) ==
    LET inputs == Len(s.table) IN
    CASE x.op = "col" ->
            IF x.arg <= inputs THEN s.table[x.arg][r]
            ELSE IF s.cols[x.arg - inputs] = <<>> THEN s.table[1][r] ELSE s.cols[x.arg - inputs][1][r]
      [] x.op = "lit" -> IF s.scals[x.arg] = <<>> THEN Freed ELSE s.scals[x.arg][1]
      [] x.op = "own" -> x.val
      [] OTHER -> Apply(x.op, [i \in DOMAIN x.kids |-> AstEval(x.kids[i], s, r)])
execute_ast(s, x) == [r \in TableRows(s) |-> AstEval(x, s, r)]

materialize_as_ast_column(s, col) ==
    LET at == Len(s.cols) + 1 IN
    Give([s EXCEPT !.cols = Append(@, <<col>>)],
         Result("ast", Ast("col", Len(s.table) + at, NullCell, <<>>), <<>>, {}, {at}))

release_temporaries(s, scals, cols) ==
    [s EXCEPT !.scals = [i \in DOMAIN @ |-> IF i \in scals THEN <<>> ELSE @[i]],
              !.cols = [i \in DOMAIN @ |-> IF i \in cols THEN <<>> ELSE @[i]]]

\* comparison_op_to_ast and comparison_op_to_binary.
ComparisonAst == [equal |-> "EQUAL", lt |-> "LESS", ge |-> "GREATER_EQUAL",
                  distinct_from |-> "NULL_EQUAL", not_distinct_from |-> "NULL_EQUAL"]
ComparisonBinary == [ComparisonAst EXCEPT !.distinct_from = "NULL_NOT_EQUALS"]
ConjunctionOp == [op_and |-> "LOGICAL_AND", op_or |-> "LOGICAL_OR"]
FunctionOp == [add |-> "ADD", mul |-> "MUL"]
LowerOp(flags) == IF flags \in {"[]", "[)"} THEN "GREATER_EQUAL" ELSE "GREATER"
UpperOp(flags) == IF flags \in {"[]", "(]"} THEN "LESS_EQUAL" ELSE "LESS"

\* x1 = x2 OR x1 = x3 ..., the form IN is lowered to.
InChain(x) ==
    FoldLeft(LAMBDA acc, v : Op("LOGICAL_OR", <<acc, Op("EQUAL", <<x[1], v>>)>>),
             Op("EQUAL", <<x[1], x[2]>>), SubSeq(x, 3, Len(x)))
Negated(e, x) == IF e.op = "not_in" THEN Op("NOT", <<x>>) ELSE x

\* The AST branch of the execute overloads: the cuDF expression over the children's.
comparison_ast(e, x) ==
    LET cmp == Op(ComparisonAst[e.op], x) IN IF e.op = "distinct_from" THEN Op("NOT", <<cmp>>) ELSE cmp
conjunction_ast(e, x) == FoldLeft(LAMBDA acc, kid : Op(ConjunctionOp[e.op], <<acc, kid>>), x[1], Tail(x))
between_ast(e, x) ==
    Op("LOGICAL_AND", <<Op(LowerOp(e.op), <<x[1], x[2]>>), Op(UpperOp(e.op), <<x[1], x[3]>>)>>)
unary_ast(e, x) ==
    IF e.op = "op_not" THEN Op("NOT", x)
    ELSE IF e.op = "op_is_null" THEN Op("IS_NULL", x) ELSE Op("NOT", <<Op("IS_NULL", x)>>)
Lower(e, x) ==
    CASE e.kind = "comparison" -> comparison_ast(e, x)
      [] e.kind = "conjunction" -> conjunction_ast(e, x)
      [] e.kind = "between" -> between_ast(e, x)
      [] e.kind = "cast" -> Op("CAST", x)
      [] e.kind = "unary_op" -> unary_ast(e, x)
      [] e.kind = "in_list" -> Negated(e, InChain(x))
      [] e.kind = "function_call" -> Op(FunctionOp[e.op], x)

\* cudf::binary_operation, cudf::unary_operation: one kernel per node; two scalars have no kernel.
Kernel(s, op, x) ==
    IF \A i \in DOMAIN x : x[i].form = "scalar"
    THEN Throw(s, "column view of a scalar")
    ELSE Give(s, ColumnResult([r \in TableRows(s) |-> Apply(op, [i \in DOMAIN x |-> CellAt(x[i], r)])]))
AnyScalar(x) == \E i \in DOMAIN x : x[i].form = "scalar"

\* AND and OR, the children folded from the left; each has to be a column.
conjunction(s, e, x) ==
    IF AnyScalar(x) THEN Throw(s, "column view of a scalar")
    ELSE FoldLeft(LAMBDA acc, kid : Kernel(s, ConjunctionOp[e.op], <<acc.res, kid>>), Give(s, x[1]), Tail(x))

\* BETWEEN, one comparison per bound; the input has to be a column.
between(s, e, x) ==
    IF x[1].form = "scalar" THEN Throw(s, "column view of a scalar")
    ELSE Kernel(s, "LOGICAL_AND", << Kernel(s, LowerOp(e.op), <<x[1], x[2]>>).res,
                                     Kernel(s, UpperOp(e.op), <<x[1], x[3]>>).res >>)

\* IN: cudf::contains on the constants, otherwise a chain of comparisons with columns.
in_list(s, e, x) ==
    LET values == Tail(e.kids)
        found(r) == IF x[1].data[r] = NullCell THEN NullCell
                    ELSE Bool(\E i \in DOMAIN values : values[i].val = x[1].data[r])
        chained(r) == FoldLeft(LAMBDA acc, v : Strict("LOGICAL_OR", acc, Strict("EQUAL", x[1].data[r], v.data[r])),
                               Strict("EQUAL", x[1].data[r], x[2].data[r]), SubSeq(x, 3, Len(x)))
        negate(c) == IF e.op = "not_in" THEN Not(c) ELSE c
    IN IF x[1].form = "scalar" THEN Throw(s, "column view of a scalar")
       ELSE IF \A i \in DOMAIN values : values[i].kind = "constant"
            THEN IF \E i \in DOMAIN values : values[i].val = NullCell
                 THEN Throw(s, "bad variant access")
                 ELSE Give(s, ColumnResult([r \in TableRows(s) |-> negate(found(r))]))
            ELSE IF AnyScalar(Tail(x)) THEN Throw(s, "column view of a scalar")
                 ELSE Give(s, ColumnResult([r \in TableRows(s) |-> negate(chained(r))]))

unary_op(s, e, x) ==
    CASE e.op = "op_not" -> Kernel(s, "NOT", x)
      [] e.op = "op_is_null" -> Kernel(s, "IS_NULL", x)
      [] e.op = "op_is_not_null" ->
            LET nulls == Kernel(s, "IS_NULL", x)
            IN IF nulls.s.err # "" THEN nulls ELSE Kernel(s, "NOT", <<nulls.res>>)

function_call(s, e, x) ==
    CASE e.op \in DOMAIN FunctionOp -> Kernel(s, FunctionOp[e.op], x)
      [] e.op = "length" ->
            IF x[1].form = "scalar" THEN Throw(s, "column view of a scalar")
            ELSE Give(s, ColumnResult([r \in TableRows(s) |-> Length(x[1].data[r])]))
      [] e.op = "error" -> Throw(s, "error() is not dispatched on GPU")

\* COALESCE: replace_nulls child by child while NULLs are left, from the i-th child on.
Coalesced(e, i, s, cur) ==
    IF i > Len(e.kids) \/ s.err # "" \/ \A r \in TableRows(s) : cur.data[r] # NullCell
    THEN Give(s, cur)
    ELSE CoalescedWith(e, i, s, cur, ExecuteExpr(e.kids[i], "MATERIALIZE", s))
CoalescedWith(e, i, s, cur, next) ==
    IF next.s.err # "" THEN next
    ELSE Coalesced(e, i + 1, next.s,
             ColumnResult([r \in TableRows(s) |-> IF cur.data[r] # NullCell THEN cur.data[r] ELSE CellAt(next.res, r)]))
Lifted(s, res) == IF res.form = "scalar" THEN ColumnResult([r \in TableRows(s) |-> res.data]) ELSE res
CoalesceFrom(e, s, first) == IF first.s.err # "" THEN first ELSE Coalesced(e, 2, first.s, Lifted(s, first.res))
coalesce(e, s) == CoalesceFrom(e, s, ExecuteExpr(e.kids[1], "MATERIALIZE", s))

\* CASE: from the last WHEN to the first, over the result so far; error() raises when some row of
\* its mask is true, and leaves the result as it is otherwise.
copy_if_else(s, mask, then, cur) ==
    IF mask.form = "scalar" THEN Throw(s, "column view of a scalar")
    ELSE Give(s, ColumnResult([r \in TableRows(s) |-> IF IsTrue(mask.data[r]) THEN CellAt(then, r) ELSE CellAt(cur, r)]))
Cased(e, i, s, cur) ==
    IF i = 0 \/ s.err # "" THEN Give(s, cur)
    ELSE CasedMask(e, i, cur, ExecuteExpr(e.kids[2 * i - 1], "MATERIALIZE", s))
CasedMask(e, i, cur, mask) ==
    IF mask.s.err # "" THEN mask
    ELSE IF e.kids[2 * i].kind = "function_call" /\ e.kids[2 * i].op = "error"
         THEN IF \E r \in TableRows(mask.s) : IsTrue(CellAt(mask.res, r))
              THEN Throw(mask.s, "more than one row") ELSE Cased(e, i - 1, mask.s, cur)
         ELSE CasedThen(e, i, [mask |-> mask.res, cur |-> cur],
                        ExecuteExpr(e.kids[2 * i], "MATERIALIZE", mask.s))
CasedNext(e, i, next) == Cased(e, i - 1, next.s, next.res)
CasedThen(e, i, over, then) ==
    IF then.s.err # "" THEN then
    ELSE CasedNext(e, i, copy_if_else(then.s, over.mask, then.res, over.cur))
CaseFrom(e, other) ==
    IF other.s.err # "" THEN other ELSE Cased(e, (Len(e.kids) - 1) \div 2, other.s, other.res)
case_expr(e, s) == CaseFrom(e, ExecuteExpr(Last(e.kids), "MATERIALIZE", s))

\* The materialize branch of the execute overloads.
OverChildren(e, s, x) ==
    CASE e.kind = "comparison" -> Kernel(s, ComparisonBinary[e.op], x)
      [] e.kind = "conjunction" -> conjunction(s, e, x)
      [] e.kind = "between" -> between(s, e, x)
      [] e.kind = "cast" -> Kernel(s, "CAST", x)
      [] e.kind = "unary_op" -> unary_op(s, e, x)
      [] e.kind = "in_list" -> in_list(s, e, x)
      [] e.kind = "function_call" -> function_call(s, e, x)
OverResults(e, k) == IF k.s.err # "" THEN Give(k.s, NoResult) ELSE OverChildren(e, k.s, k.res)
Materialize(e, s) ==
    IF e.kind = "case_expr" THEN case_expr(e, s)
    ELSE IF e.kind = "coalesce" THEN coalesce(e, s)
    ELSE OverResults(e, ExecuteAll(e.kids, "MATERIALIZE", s, <<>>))

\* Children are executed from left to right, and not at all after one has thrown.
ExecuteAll(kids, mode, s, done) ==
    IF Len(done) = Len(kids) \/ s.err # "" THEN [s |-> s, res |-> done]
    ELSE ExecutedNext(kids, mode, done, ExecuteExpr(kids[Len(done) + 1], mode, s))
ExecutedNext(kids, mode, done, next) == ExecuteAll(kids, mode, next.s, Append(done, next.res))

\* Evaluate the tree above the children's results, and free what only it referred to.
AstBranch(e, mode, k) ==
    LET x == Lower(e, [i \in DOMAIN k.res |-> k.res[i].x])
        scals == UNION {k.res[i].scals : i \in DOMAIN k.res}
        cols == UNION {k.res[i].cols : i \in DOMAIN k.res}
    IN IF k.s.err # "" THEN Give(k.s, NoResult)
       ELSE IF mode = "AST" THEN Give(k.s, Result("ast", x, <<>>, scals, cols))
       ELSE Give(release_temporaries(k.s, scals, cols), ColumnResult(execute_ast(k.s, x)))

\* An AST breaker below an AST node becomes a temporary column of the combined table.
Breaker(m) ==
    IF m.s.err # "" THEN m
    ELSE IF m.res.form # "column" THEN Throw(m.s, "expected an owned column")
    ELSE materialize_as_ast_column(m.s, m.res.data)

Materialized(mode, m) == IF mode = "AST" THEN Breaker(m) ELSE m

Leaf(e, mode, s) ==
    CASE e.kind = "reference" /\ mode = "AST" ->
            Give(s, Result("ast", Ast("col", e.val[1], NullCell, <<>>), <<>>, {}, {}))
      [] e.kind = "reference" /\ mode # "AST" -> Give(s, View(s.table[e.val[1]]))
      [] e.kind = "constant" /\ mode = "AST" ->
            LET at == Len(s.scals) + 1
            IN Give([s EXCEPT !.scals = Append(@, <<e.val>>)],
                    Result("ast", Ast("lit", at, NullCell, <<>>), <<>>, {at}, {}))
      [] e.kind = "constant" /\ mode # "AST" -> Give(s, Scalar(e.val))

ExecuteExpr(e, mode, s) ==
    IF s.err # "" THEN Give(s, NoResult)
    ELSE IF e.kind \in {"reference", "constant"} THEN Leaf(e, mode, s)
    ELSE IF e.op = "op_try" THEN Throw(s, "TRY is not implemented")
    ELSE IF s.ast /\ AstSupported(e) /\ (mode = "AST" \/ OpCount(e) >= s.min)
         THEN AstBranch(e, mode, ExecuteAll(e.kids, "AST", s, <<>>))
    ELSE Materialized(mode, Materialize(e, s))

OutputColumns(all) ==
    [s |-> all.s, columns |-> IF all.s.err # "" THEN <<>>
                              ELSE [i \in DOMAIN all.res |-> Lifted(all.s, all.res[i]).data]]

\* gpu_expression_executor::execute over a list of expressions: one output column each, the
\* temporaries shared.
ExecuteTable(nodes, table, ast, min) ==
    OutputColumns(ExecuteAll(nodes, "MATERIALIZE",
                       [table |-> table, ast |-> ast, min |-> min, cols |-> <<>>, scals |-> <<>>, err |-> ""],
                       <<>>))

----------------------------------------------------------------------------
(* gpu_expression_translator: a cuDF AST of its own, or none.  Columns of  *)
(* the table on the given side start at the given offset.                  *)

\* node_logical_type_id: the type of a node that has one.
LogicalType(n) == IF n.kind \in {"reference", "constant", "cast", "function_call"} THEN n.ty ELSE ""

\* The nodes without a cuDF AST: a NULL constant, a comparison of NULLs, a narrowing cast, TRY, a
\* function outside the set or over decimals, CASE and COALESCE.
constant_fails(n) == n.kind = "constant" /\ n.val = NullCell
comparison_fails(n) == n.kind = "comparison" /\ n.op \in {"distinct_from", "not_distinct_from"}
cast_fails(n) == n.kind = "cast" /\ n.ty \notin SupportedAstCasts
unary_fails(n) == n.kind = "unary_op" /\ n.op = "op_try"
function_fails(n) ==
    n.kind = "function_call" /\ \/ n.op \notin SupportedAstFunctions
                                \/ \E i \in DOMAIN n.kids : LogicalType(n.kids[i]) = "DECIMAL"
Untranslatable(n) ==
    \/ n.kind \in {"case_expr", "coalesce"} \/ constant_fails(n) \/ comparison_fails(n)
    \/ cast_fails(n) \/ unary_fails(n) \/ function_fails(n)

\* The bounds of BETWEEN are taken as inclusive whatever the node says.
Lowered_Exclusive(n, x) == IF n.kind = "between" THEN Lower([n EXCEPT !.op = "()"], x) ELSE Lower(n, x)
Lowered(n, x) == IF n.kind = "between" THEN Lower([n EXCEPT !.op = "[]"], x) ELSE Lower(n, x)

Translate(n, offset) ==
    LET kids == [i \in DOMAIN n.kids |-> Translate(n.kids[i], offset)] IN
    IF Untranslatable(n) \/ \E i \in DOMAIN kids : kids[i] = <<>> THEN <<>>
    ELSE CASE n.kind = "reference" -> <<Ast("col", n.val[1] + offset, NullCell, <<>>)>>
           [] n.kind = "constant" -> <<Ast("own", 0, n.val, <<>>)>>
           [] OTHER -> <<Lowered(n, [i \in DOMAIN kids |-> kids[i][1]])>>

\* translate_join_conditions: the conditions joined by AND, the tables exchanged on request.
add_join_condition(c, swap, width) ==
    LET left == Translate(c.left, IF swap THEN width ELSE 0)
        right == Translate(c.right, IF swap THEN 0 ELSE width)
    IN IF left = <<>> \/ right = <<>> \/ c.comparison \in {"distinct_from", "not_distinct_from"} THEN <<>>
       ELSE <<Op(ComparisonAst[c.comparison], <<left[1], right[1]>>)>>
translate_join_conditions(conditions, swap, width) ==
    LET xs == [i \in DOMAIN conditions |-> add_join_condition(conditions[i], swap, width)]
    IN IF \E i \in DOMAIN xs : xs[i] = <<>> THEN <<>>
       ELSE << FoldLeft(LAMBDA acc, x : Op("LOGICAL_AND", <<acc, x[1]>>), xs[1][1], Tail(xs)) >>

----------------------------------------------------------------------------
(* The expressions the binder produces, built bottom up: columns 1         *)
(* (BIGINT) and 2 (BOOLEAN).  The optimizer folds constants, so no         *)
(* operator has only constants, and no predicate is one.                   *)

IsConstant(e) == e.class = "BOUND_CONSTANT"
ExprLeaves == {Bound("BOUND_REF", "", IF c = 1 THEN "BIGINT" ELSE "BOOLEAN", <<c>>, <<>>) : c \in 1 .. 2}
             \cup {Bound("BOUND_CONSTANT", "", "BIGINT", v, <<>>) : v \in {NullCell, <<1>>}}
IsBoolean(e) == e.ty = "BOOLEAN"
IsNumber(e) == e.ty # "BOOLEAN"

Unary(a) ==
    {Bound("BOUND_OPERATOR", op, "BOOLEAN", NullCell, <<a>>) : op \in {"OPERATOR_IS_NULL", "OPERATOR_IS_NOT_NULL"}}
    \cup (IF IsBoolean(a) THEN {Bound("BOUND_OPERATOR", "OPERATOR_NOT", "BOOLEAN", NullCell, <<a>>)}
          ELSE {Bound("BOUND_CAST", "", ty, NullCell, <<a>>) : ty \in {"BIGINT", "INTEGER"} \ {a.ty}}
               \cup {Bound("BOUND_FUNCTION", "LENGTH_ALIAS", "BIGINT", NullCell, <<a>>),
                     Bound("BOUND_OPERATOR", "OPERATOR_TRY", a.ty, NullCell, <<a>>)})
Binary(a, b) ==
    IF IsBoolean(a) /\ IsBoolean(b)
    THEN {Bound("BOUND_CONJUNCTION", op, "BOOLEAN", NullCell, <<a, b>>) : op \in DOMAIN ConjunctionKind}
    ELSE IF IsNumber(a) /\ IsNumber(b)
    THEN {Bound("BOUND_COMPARISON", op, "BOOLEAN", NullCell, <<a, b>>) : op \in DOMAIN ComparisonType}
         \cup {Bound("BOUND_FUNCTION", "ADD", ty, NullCell, <<a, b>>) : ty \in {"BIGINT", "DECIMAL"}}
         \cup {Bound("BOUND_OPERATOR", "OPERATOR_COALESCE", a.ty, NullCell, <<a, b>>)}
    ELSE {}
Ternary(a, b, c) ==
    (IF IsBoolean(a) /\ IsNumber(b) /\ IsNumber(c)
     THEN {Bound("BOUND_CASE", "", c.ty, NullCell, <<a, b, c>>),
           Bound("BOUND_CASE", "", c.ty, NullCell, <<a, Bound("BOUND_FUNCTION", "ERROR", c.ty, NullCell, <<b>>), c>>),
           Bound("BOUND_CASE", "", c.ty, NullCell, <<a, b>> \o (IF c.class = "BOUND_CASE" THEN c.kids ELSE <<c>>))}
     ELSE {})
    \cup (IF IsNumber(a) /\ ~IsConstant(a) /\ IsNumber(b) /\ IsNumber(c)
          THEN {Bound("BOUND_OPERATOR", op, "BOOLEAN", NullCell, <<a, b, c>>) : op \in DOMAIN InKind}
               \cup {Bound("BOUND_BETWEEN", flags, "BOOLEAN", NullCell, <<a, b, c>>) : flags \in BetweenFlags}
          ELSE {})

ExInit == work = <<>> /\ spent = 0
Replace(k, es) == \E e \in es : work' = Append(SubSeq(work, 1, Len(work) - k), e)
Arg(i, k) == work[Len(work) - k + i]
ExPush == spent < MaxExprNodes /\ Len(work) < 3 /\ \E e \in ExprLeaves : work' = Append(work, e) /\ spent' = spent + 1
ExUnary ==
    /\ spent < MaxExprNodes /\ work # <<>> /\ ~IsConstant(Arg(1, 1))
    /\ Replace(1, Unary(Arg(1, 1))) /\ spent' = spent + 1
ExBinary ==
    /\ spent < MaxExprNodes /\ Len(work) >= 2 /\ ~(IsConstant(Arg(1, 2)) /\ IsConstant(Arg(2, 2)))
    /\ Replace(2, Binary(Arg(1, 2), Arg(2, 2))) /\ spent' = spent + 1
ExTernary ==
    /\ spent < MaxExprNodes /\ Len(work) = 3
    /\ Replace(3, Ternary(work[1], work[2], work[3])) /\ spent' = spent + 1
ExNext == ExPush \/ ExUnary \/ ExBinary \/ ExTernary
ExSpec == ExInit /\ [][ExNext]_exvars

----------------------------------------------------------------------------
TranslatedWork == [i \in DOMAIN work |-> from_duckdb(work[i])]
Nodes == [i \in DOMAIN work |-> TranslatedWork[i][1]]
AllBuilt == work # <<>> /\ \A i \in DOMAIN work : TranslatedWork[i] # <<>>
RowsIn(t) == DOMAIN t[1]

RunExact(run, t) ==
    \A i \in DOMAIN work, r \in RowsIn(t) :
        Decided(work[i], t, r) => run.columns[i][r] = Sql(work[i], t, r)
AllReleased(s) ==
    /\ \A i \in DOMAIN s.cols : s.cols[i] = <<>>
    /\ \A i \in DOMAIN s.scals : s.scals[i] = <<>>

\* Whatever the strategy and the smallest AST, a projection or filter the executor completes has,
\* for every expression and row, the value SQL gives it, on the rows where no AND or OR meets a NULL
\* (gpu_expression_executor::execute and its overloads).  The strategies are interchangeable: when
\* two of them complete, their columns are equal, NULLs included (docs/super-sirius/
\* expression-executor.md: the strategy only decides how many kernels).  When a projection is
\* complete every temporary scalar and column has been released: no device memory waits for the
\* destructor (release_temporaries).
ExecuteExact ==
    AllBuilt =>
    \A t \in ExprTables :
        \A plain \in {ExecuteTable(Nodes, t, FALSE, 1)} :
        \A run \in {plain} \cup {ExecuteTable(Nodes, t, TRUE, min) : min \in MinAstSizes} :
            run.s.err = "" =>
                /\ RunExact(run, t)
                /\ plain.s.err = "" => run.columns = plain.columns
                /\ AllReleased(run.s)

\* A tree that the translator produces computes what the executor computes.
TranslationExact ==
    AllBuilt =>
    \A t \in ExprTables, i \in DOMAIN work :
        LET x == Translate(Nodes[i], 0)
            s == [table |-> t, cols |-> <<>>, scals |-> <<>>]
            run == ExecuteTable(<<Nodes[i]>>, t, FALSE, 1)
        IN x # <<>> /\ run.s.err = "" => execute_ast(s, x[1]) = run.columns[1]

\* A translated join predicate holds of exactly the pairs of rows the conditions select, whichever
\* side is the left table of the cuDF call (translate_join_conditions, swap_sides).
JoinPredicateExact ==
    AllBuilt /\ Len(work) = 2 /\ IsNumber(work[1]) /\ IsNumber(work[2]) =>
    \A t \in ExprTables, swap \in BOOLEAN, cmp \in {"equal", "lt"} :
        LET x == translate_join_conditions(<<[left |-> Nodes[1], right |-> Nodes[2], comparison |-> cmp]>>,
                                           swap, Len(t))
            side(row) == [c \in DOMAIN t |-> <<t[c][row]>>]
            pair(l, r) == [table |-> IF swap THEN side(r) \o side(l) ELSE side(l) \o side(r),
                           cols |-> <<>>, scals |-> <<>>]
        IN x # <<>> =>
           \A l \in RowsIn(t), r \in RowsIn(t) :
               Decided(work[1], t, l) /\ Decided(work[2], t, r) =>
               AstEval(x[1], pair(l, r), 1) = Strict(ComparisonAst[cmp], Sql(work[1], t, l), Sql(work[2], t, r))

\* Back to DuckDB and again to Sirius, a node is unchanged: the reconstruction the executor takes
\* return types from stands for the same expression (to_duckdb).
RoundTrip == AllBuilt => \A i \in DOMAIN work : from_duckdb(to_duckdb(Nodes[i])) = TranslatedWork[i]

\* What the AST strategies refuse, operator-by-operator evaluation refuses too: COALESCE and CASE
\* compose below AST nodes.
AstComposes ==
    AllBuilt =>
    \A t \in ExprTables, min \in MinAstSizes :
        ExecuteTable(Nodes, t, FALSE, 1).s.err = "" => ExecuteTable(Nodes, t, TRUE, min).s.err = ""

\* Expressions: execution gives the value SQL gives on the rows it promises, both
\* strategies agree, temporaries are released, and the translations to cuDF's AST
\* and of join conditions preserve the value.
ExpressionsExact ==
    /\ ExecuteExact
    /\ TranslationExact
    /\ JoinPredicateExact
    /\ RoundTrip

=============================================================================
