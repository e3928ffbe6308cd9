------------------------------- MODULE Plans -------------------------------
(***************************************************************************)
(* From a physical plan to the pipelines the engine runs: the operators'   *)
(* build_pipelines cut the operator tree into meta pipelines, the pipeline *)
(* converter schedules them, splits them at scans, joins, aggregates and   *)
(* sorts, computes the repository wiring between the pieces and links the  *)
(* two PARTITION operators of each hash join.  Conversion is sequential;   *)
(* each of its passes is one step.                                         *)
(***************************************************************************)
EXTENDS Integers, Sequences, FiniteSets, FiniteSetsExt, SequencesExt

CONSTANTS
  Leaves,     \* kinds of source operators a plan may have
  Unaries,    \* kinds of one-child operators
  Binaries,   \* kinds of two-child operators
  MaxNodes    \* bound on the operators of a plan

Scans == {"parquet", "seq", "iceberg"}                       \* TABLE_SCAN, by function name
CpuSources == {"COLUMN_DATA_SCAN", "DUMMY_SCAN", "EMPTY_RESULT"}
Joins == {"HASH_JOIN", "NESTED_LOOP_JOIN", "OUTER_NESTED_LOOP_JOIN"}
NestedLoops == Joins \ {"HASH_JOIN"}
DelimJoins == {"LEFT_DELIM_JOIN", "RIGHT_DELIM_JOIN"}
Aggregates == {"HASH_GROUP_BY", "UNGROUPED_AGGREGATE"}
Sinks == Aggregates \cup {"ORDER_BY", "TOP_N"}               \* one child, is_sink()

VARIABLES
  tree,      \* node -> [t: type, kids: nodes, owner: the DELIM_JOIN or CTE a scan reads]
  stack,     \* roots of the subtrees planned so far
  phase,     \* the converter pass that comes next
  build,     \* the meta pipelines
  scheduled, \* the converter's pipelines
  wiring,    \* repository_wirings_
  siblings,  \* pairs of PARTITION operators linked to each other
  deletes    \* iceberg scans whose delete data was prefetched

plvars == <<tree, stack, phase, build, scheduled, wiring, siblings, deletes>>

\* An operator: its type, the plan node it stems from and its role there.
O(t, n, k) == [t |-> t, n |-> n, k |-> k]
NoOp == O("none", 0, "")
Node(n) == O(tree[n].t, n, "")
JoinOf(n) == O(IF tree[n].t \in DelimJoins THEN "HASH_JOIN" ELSE tree[n].t, n, "join")
ResultCollector == O("RESULT_COLLECTOR", 0, "")
DistinctOn(n) == O("HASH_GROUP_BY", n, "distinct")
CachedScan(n) == O("COLUMN_DATA_SCAN", n, "cached")
Partition(n, k) == O("PARTITION", n, k)
Concat(n, k) == O("CONCAT", n, k)

PlInit ==
  /\ tree = <<>> /\ stack = <<>> /\ phase = "plan"
  /\ build = [pipes |-> <<>>, metas |-> <<>>]
  /\ scheduled = <<>> /\ wiring = <<>> /\ siblings = {} /\ deletes = {}
-----------------------------------------------------------------------------
\* The physical plan, bottom up.  A DELIM_SCAN or CTE_SCAN gets its owner when
\* the delim join (gather_delim_scans, through the children) or the CTE is planned.
SubtreeOf(roots) ==
  LET grow(acc, n) == IF n \in acc THEN acc \cup Range(tree[n].kids) ELSE acc
  IN  FoldLeftDomain(LAMBDA acc, i : grow(acc, Len(tree) + 1 - i), roots, tree)
Unowned(t, root) == {n \in SubtreeOf({root}) : tree[n].t = t /\ tree[n].owner = 0}

NewNode(t, kids, owned) ==
  /\ Len(tree) < MaxNodes /\ phase = "plan"
  /\ tree' = Append([n \in DOMAIN tree |->
                       IF n \in owned THEN [tree[n] EXCEPT !.owner = Len(tree) + 1] ELSE tree[n]],
                    [t |-> t, kids |-> kids, owner |-> 0])
  /\ stack' = Append(SubSeq(stack, 1, Len(stack) - Len(kids)), Len(tree) + 1)
  /\ UNCHANGED <<phase, build, scheduled, wiring, siblings, deletes>>

PlanLeaf == \E t \in Leaves : NewNode(t, <<>>, {})
PlanUnary == stack # <<>> /\ \E t \in Unaries : NewNode(t, <<Last(stack)>>, {})
PlanBinary ==
  /\ Len(stack) >= 2
  /\ LET left == stack[Len(stack) - 1]  right == stack[Len(stack)]
     IN  \E t \in Binaries :
           LET owned == CASE t = "LEFT_DELIM_JOIN"  -> Unowned("DELIM_SCAN", right)
                          [] t = "RIGHT_DELIM_JOIN" -> Unowned("DELIM_SCAN", left)
                          [] t = "CTE" -> Unowned("CTE_SCAN", right)
                          [] OTHER -> {}
           IN  /\ t \in DelimJoins \cup {"CTE"} => owned # {}
               /\ NewNode(t, <<left, right>>, owned)

\* sirius_engine::prefetch_iceberg_delete_data walks the children of the plan; a
\* delim join owns only one of its join's inputs as a child.
WalkedKids(n) ==
  CASE tree[n].t = "LEFT_DELIM_JOIN"  -> {tree[n].kids[1]}
    [] tree[n].t = "RIGHT_DELIM_JOIN" -> {tree[n].kids[2]}
    [] OTHER -> Range(tree[n].kids)
Walked(root) ==
  FoldLeftDomain(LAMBDA acc, i : LET n == Len(tree) + 1 - i
                                 IN IF n \in acc THEN acc \cup WalkedKids(n) ELSE acc,
                 {root}, tree)
PrefetchDeletes ==
  /\ phase = "plan" /\ Len(stack) = 1
  /\ \A n \in DOMAIN tree : tree[n].t \in {"DELIM_SCAN", "CTE_SCAN"} => tree[n].owner # 0
  /\ deletes' = {n \in Walked(stack[1]) : tree[n].t = "iceberg"}
  /\ phase' = "build"
  /\ UNCHANGED <<tree, stack, build, scheduled, wiring, siblings>>
-----------------------------------------------------------------------------
\* Meta pipelines.  A pipeline keeps its operators from the sink's side down
\* until ready() reverses them.
NewPipe(sink) == [src |-> NoOp, ops |-> <<>>, snk |-> sink, deps |-> <<>>]
NewMeta(pipe) == [pipes |-> <<pipe>>, kids |-> <<>>]
SetSource(b, p, op) == [b EXCEPT !.pipes[p].src = op]
AddOperator(b, p, op) == [b EXCEPT !.pipes[p].ops = Append(@, op)]
AddDependency(b, p, d) == [b EXCEPT !.pipes[p].deps = Append(@, d)]

CreateChildMeta(b, p, m, sink) ==
  LET np == Len(b.pipes) + 1  nm == Len(b.metas) + 1
      c == [pipes |-> Append(b.pipes, NewPipe(sink)), metas |-> Append(b.metas, NewMeta(np))]
  IN  AddDependency([c EXCEPT !.metas[m].kids = Append(@, nm)], p, np)

\* create_child_pipeline: from the join itself to the sink, last in the meta pipeline.
CreateChildPipeline(b, p, m, op) ==
  LET at == CHOOSE i \in DOMAIN b.pipes[p].ops : b.pipes[p].ops[i] = op
      child == [NewPipe(b.pipes[p].snk) EXCEPT !.src = op, !.ops = SubSeq(b.pipes[p].ops, 1, at - 1)]
  IN  [b EXCEPT !.pipes = Append(@, child), !.metas[m].pipes = Append(@, Len(b.pipes) + 1)]

IsSourceJoin(op) == op.t \in {"HASH_JOIN", "OUTER_NESTED_LOOP_JOIN"}
EndJoin(b, p, m, op) == IF IsSourceJoin(op) THEN CreateChildPipeline(b, p, m, op) ELSE b

\* The base pipeline of the meta pipeline whose sink is the delim join or CTE n.
SinkPipe(b, n) == CHOOSE p \in DOMAIN b.pipes : b.pipes[p].snk = Node(n)

RECURSIVE Build(_, _, _, _)
BuildChild(b, n, p, m, sink) ==   \* create_child_meta_pipeline and build
  Build(CreateChildMeta(b, p, m, sink), n, Len(b.pipes) + 1, Len(b.metas) + 1)

Build(b, n, p, m) ==
  LET t == tree[n].t  kids == tree[n].kids  join == JoinOf(n)
  IN  CASE t \in Sinks -> BuildChild(SetSource(b, p, Node(n)), kids[1], p, m, Node(n))
        [] t \in Joins ->
             EndJoin(Build(BuildChild(AddOperator(b, p, join), kids[2], p, m, join), kids[1], p, m),
                     p, m, join)
        [] t = "LEFT_DELIM_JOIN" ->
             LET left == AddOperator(BuildChild(b, kids[1], p, m, Node(n)), p, join)
             IN  EndJoin(SetSource(BuildChild(left, kids[2], p, m, join), p, CachedScan(n)), p, m, join)
        [] t = "RIGHT_DELIM_JOIN" ->
             EndJoin(Build(AddOperator(BuildChild(b, kids[2], p, m, Node(n)), p, join), kids[1], p, m),
                     p, m, join)
        [] t = "CTE" -> Build(BuildChild(b, kids[1], p, m, Node(n)), kids[2], p, m)
        [] t = "DELIM_SCAN" ->
             SetSource(AddDependency(b, p, SinkPipe(b, tree[n].owner)), p, DistinctOn(tree[n].owner))
        [] t = "CTE_SCAN" ->
             SetSource(AddDependency(b, p, SinkPipe(b, tree[n].owner)), p, Node(n))
        [] kids = <<>> -> SetSource(b, p, Node(n))
        [] OTHER -> Build(AddOperator(b, p, Node(n)), kids[1], p, m)

\* The root meta pipeline (1) reads the result collector, whose meta pipeline is 2.
BuildPipelines ==
  /\ phase = "build"
  /\ LET root == [pipes |-> <<[NewPipe(NoOp) EXCEPT !.src = ResultCollector]>>, metas |-> <<NewMeta(1)>>]
         b == BuildChild(root, stack[1], 1, 1, ResultCollector)
     IN  build' = [b EXCEPT !.pipes = [p \in DOMAIN b.pipes |-> [b.pipes[p] EXCEPT !.ops = Reverse(@)]]]
  /\ phase' = "schedule"
  /\ UNCHANGED <<tree, stack, scheduled, wiring, siblings, deletes>>
-----------------------------------------------------------------------------
\* schedule_and_copy_pipelines: round robin from the last meta pipeline, each once
\* its children and its base pipeline's dependencies are scheduled; a pipeline that
\* starts at a hash join is left out.
RECURSIVE Preorder(_), ScheduleFrom(_, _, _)
Preorder(m) == <<m>> \o FlattenSeq([i \in DOMAIN build.metas[m].kids |-> Preorder(build.metas[m].kids[i])])

SkippedSource(op) == op.t = "HASH_JOIN"
BasePipe(m) == build.metas[m].pipes[1]
ReadyMeta_KidsOnly(m, out) == \A k \in Range(build.metas[m].kids) : BasePipe(k) \in Range(out)
ReadyMeta(m, out) ==
  /\ \A k \in Range(build.metas[m].kids) : BasePipe(k) \in Range(out)
  /\ Range(build.pipes[BasePipe(m)].deps) \subseteq Range(out)
ScheduleFrom(order, done, out) ==
  LET ready == {i \in DOMAIN order : order[i] \notin done /\ ReadyMeta(order[i], out)}
      at == Min(ready)
      rotated == SubSeq(order, at + 1, Len(order)) \o SubSeq(order, 1, at)
  IN  IF Cardinality(done) = Len(order) THEN out
      ELSE IF ready = {} THEN <<0>>   \* the loop never ends
      ELSE ScheduleFrom(rotated, done \cup {order[at]},
             out \o SelectSeq(build.metas[order[at]].pipes, LAMBDA p : ~SkippedSource(build.pipes[p].src)))

SchedulePipelines ==
  /\ phase = "schedule"
  /\ LET ids == ScheduleFrom(Reverse(Tail(Preorder(1))), {}, <<>>)
     IN  IF ids = <<0>> THEN phase' = "stuck" /\ UNCHANGED scheduled
         ELSE /\ scheduled' = [i \in DOMAIN ids |-> [src |-> build.pipes[ids[i]].src,
                                                     ops |-> build.pipes[ids[i]].ops,
                                                     snk |-> build.pipes[ids[i]].snk]]
              /\ phase' = "split"
  /\ UNCHANGED <<tree, stack, build, wiring, siblings, deletes>>
-----------------------------------------------------------------------------
\* split_pipelines.  A state of the pass: the copied pipelines and scheduled_ so far.
Pipe(src, ops, snk) == [src |-> src, ops |-> ops, snk |-> snk]

\* split_table_scan_source and split_cpu_source.
ScanOperator(op) == O(IF op.t = "seq" THEN "DUCKDB_SCAN" ELSE IF op.t = "iceberg" THEN "ICEBERG_SCAN" ELSE "CPU_SOURCE", op.n, "scan")
OnCpu(op) == op.t \in CpuSources /\ op.k # "cached"   \* the cached scan has no collection
SplitSource(p) ==
  CASE p.src.t = "parquet" ->
         [before |-> <<>>, pipe |-> [p EXCEPT !.ops = <<O("GPU_SCAN", p.src.n, "scan")>> \o @]]
    [] p.src.t \in {"seq", "iceberg"} \/ OnCpu(p.src) ->
         [before |-> <<Pipe(NoOp, <<>>, ScanOperator(p.src))>>,
          pipe |-> Pipe(ScanOperator(p.src), <<p.src>> \o p.ops, p.snk)]
    [] OTHER -> [before |-> <<>>, pipe |-> p]

\* split_intermediate_joins: each join gets a PARTITION and a CONCAT pipeline in front.
JoinPositions(p) == SetToSortSeq({i \in DOMAIN p.ops : p.ops[i].t \in Joins}, <)
JoinPieces(p, at, k) ==
  LET pos == at[k]  n == p.ops[pos].n
      src == IF k = 1 THEN p.src ELSE Concat(p.ops[at[k - 1]].n, "probe")
      from == IF k = 1 THEN 1 ELSE at[k - 1]
  IN  (IF pos = 1 THEN <<Pipe(src, <<>>, Partition(n, "probe"))>>
       ELSE <<Pipe(src, SubSeq(p.ops, from, pos - 2), p.ops[pos - 1]),
              Pipe(p.ops[pos - 1], <<>>, Partition(n, "probe"))>>)
      \o <<Pipe(Partition(n, "probe"), <<>>, Concat(n, "probe"))>>
SplitJoins(p) ==
  LET at == JoinPositions(p)  last == at[Len(at)]
  IN  IF at = <<>> THEN [before |-> <<>>, pipe |-> p]
      ELSE [before |-> FlattenSeq([k \in DOMAIN at |-> JoinPieces(p, at, k)]),
            pipe |-> Pipe(Concat(p.ops[last].n, "probe"), SubSeq(p.ops, last, Len(p.ops)), p.snk)]

\* The sink passes: the pipelines that replace p, and the operator that stands in
\* for its sink as a source of the pipelines still to be split.
LastAsSink(p) == <<Pipe(p.src, Front(p.ops), Last(p.ops))>>
BuildSide(p, n) ==
  (IF p.ops = <<>> THEN <<Pipe(p.src, <<>>, Partition(n, "build"))>>
   ELSE LastAsSink(p) \o <<Pipe(Last(p.ops), <<>>, Partition(n, "build"))>>)
  \o <<Pipe(Partition(n, "build"), <<>>, Concat(n, "build"))>>

MergeOf(op) == O(CASE op.t = "HASH_GROUP_BY" -> "MERGE_GROUP_BY"
                   [] op.t = "UNGROUPED_AGGREGATE" -> "MERGE_AGGREGATE"
                   [] op.t = "ORDER_BY" -> "MERGE_SORT"
                   [] op.t = "TOP_N" -> "MERGE_TOP_N", op.n, op.k)
GroupPieces(op) == <<Pipe(op, <<>>, Partition(op.n, op.k)), Pipe(Partition(op.n, op.k), <<>>, MergeOf(op))>>

SplitSink(p) ==
  LET op == p.snk  n == p.snk.n
      sample == O("SORT_SAMPLE", n, "")  part == O("SORT_PARTITION", n, "")
  IN  CASE op.t \in Joins -> [out |-> BuildSide(p, n), old |-> NoOp, new |-> NoOp]
        [] op.t = "HASH_GROUP_BY" -> [out |-> <<p>> \o GroupPieces(op), old |-> op, new |-> MergeOf(op)]
        [] op.t \in {"UNGROUPED_AGGREGATE", "TOP_N"} ->
             [out |-> <<p, Pipe(op, <<>>, MergeOf(op))>>, old |-> op, new |-> MergeOf(op)]
        [] op.t = "ORDER_BY" ->
             [out |-> <<p, Pipe(op, <<sample>>, part), Pipe(part, <<>>, MergeOf(op))>>,
              old |-> op, new |-> MergeOf(op)]
        [] op.t = "LEFT_DELIM_JOIN" ->
             [out |-> <<p>> \o GroupPieces(DistinctOn(n)), old |-> DistinctOn(n), new |-> MergeOf(DistinctOn(n))]
        [] op.t = "RIGHT_DELIM_JOIN" ->
             [out |-> (IF p.ops = <<>> THEN <<p>> ELSE LastAsSink(p) \o <<Pipe(Last(p.ops), <<>>, op)>>)
                      \o <<Pipe(Partition(n, "build"), <<>>, Concat(n, "build"))>>
                      \o GroupPieces(DistinctOn(n)),
              old |-> DistinctOn(n), new |-> MergeOf(DistinctOn(n))]
        [] OTHER -> [out |-> <<p>>, old |-> NoOp, new |-> NoOp]

\* Pipelines still to come read from the merge operator instead.
Redirect(copied, i, old, new) ==
  [j \in DOMAIN copied |-> IF j > i /\ copied[j].src = old THEN [copied[j] EXCEPT !.src = new] ELSE copied[j]]
SplitOne(c, i) ==
  LET source == SplitSource(c.copied[i])
      joins == SplitJoins(source.pipe)
      sink == SplitSink(joins.pipe)
  IN  [copied |-> IF sink.old = NoOp THEN c.copied ELSE Redirect(c.copied, i, sink.old, sink.new),
       out |-> c.out \o source.before \o joins.before \o sink.out]

SplitPipelines ==
  /\ phase = "split"
  /\ scheduled' = FoldLeftDomain(SplitOne, [copied |-> scheduled, out |-> <<>>], scheduled).out
  /\ phase' = "wire"
  /\ UNCHANGED <<tree, stack, build, wiring, siblings, deletes>>
-----------------------------------------------------------------------------
\* compute_repository_wiring: the edges out of pipeline i, in emission order.
Reading(op) == SetToSortSeq({j \in DOMAIN scheduled : scheduled[j].src = op}, <)
Wires(i, op, port, barrier(_)) ==
  LET to == Reading(op)
  IN  [k \in DOMAIN to |-> [port |-> port, barrier |-> barrier(to[k]), op |-> op, from |-> i, to |-> to[k]]]
Full(j) == "FULL"
Streamed(j) == "PIPELINE"
PartialForConcat(j) == IF scheduled[j].ops = <<>> /\ scheduled[j].snk.t = "CONCAT" THEN "PARTIAL" ELSE "FULL"

FirstOp(p) == IF p.ops = <<>> THEN p.snk ELSE p.ops[1]
BuildDest(n) == Min({j \in DOMAIN scheduled : JoinOf(n) \in {FirstOp(scheduled[j]), scheduled[j].snk}})

WiresOf(i) ==
  LET op == scheduled[i].snk
  IN  CASE op.t = "CTE" ->
             FlattenSeq([k \in DOMAIN tree |->
               IF tree[k].t = "CTE_SCAN" /\ tree[k].owner = op.n
               THEN LET w == Wires(i, Node(k), "default", Full) IN [x \in DOMAIN w |-> [w[x] EXCEPT !.op = op]]
               ELSE <<>>])
        [] op.t = "RIGHT_DELIM_JOIN" ->
             Wires(i, Partition(op.n, "build"), "default", Full) \o Wires(i, DistinctOn(op.n), "default", Full)
        [] op.t = "LEFT_DELIM_JOIN" ->
             Wires(i, CachedScan(op.n), "default", Full) \o Wires(i, DistinctOn(op.n), "default", Full)
        [] op.t = "CONCAT" /\ op.k = "build" ->
             <<[port |-> "build", barrier |-> "FULL", op |-> op, from |-> i, to |-> BuildDest(op.n)]>>
        [] op.t \in {"PARTITION", "UNGROUPED_AGGREGATE", "TOP_N", "SORT_PARTITION"} ->
             Wires(i, op, "default", PartialForConcat)
        [] op.t = "ORDER_BY" -> Wires(i, op, "default", Streamed)
        [] op.t \in {"DUCKDB_SCAN", "ICEBERG_SCAN", "CPU_SOURCE"} -> Wires(i, op, "scan", Streamed)
        [] op.t = "RESULT_COLLECTOR" -> <<>>
        [] OTHER -> Wires(i, op, "default", Full)

ComputeWiring ==
  /\ phase = "wire"
  /\ wiring' = FlattenSeq([i \in DOMAIN scheduled |-> WiresOf(i)])
  /\ phase' = "finalize"
  /\ UNCHANGED <<tree, stack, build, scheduled, siblings, deletes>>

\* setup_pipeline_parents and finalize_pipeline_structure: dependencies in
\* schedule order, the sink becomes the last operator, the source the first.
DepsOf(j) == LET into == SelectSeq(wiring, LAMBDA w : w.to = j) IN [k \in DOMAIN into |-> into[k].from]
Finalize ==
  /\ phase = "finalize"
  /\ scheduled' = [i \in DOMAIN scheduled |->
       LET p == scheduled[i] ops == Append(p.ops, p.snk)
       IN [src |-> ops[1], ops |-> ops, snk |-> p.snk, deps |-> DepsOf(i)]]
  /\ phase' = "link"
  /\ UNCHANGED <<tree, stack, build, wiring, siblings, deletes>>

\* link_join_partition_siblings: by position in the dependency lists.
PartitionAt(i) == IF scheduled[i].snk.t = "RIGHT_DELIM_JOIN" THEN Partition(scheduled[i].snk.n, "build") ELSE scheduled[i].snk
BuildDep(i) == scheduled[scheduled[i].deps[1]].deps[1]
ProbeDep(i) == scheduled[scheduled[i].deps[2]].deps[1]
HashJoinPipes == {i \in DOMAIN scheduled : scheduled[i].src.t = "HASH_JOIN"}
LinkSiblings ==
  /\ phase = "link"
  /\ siblings' = {<<PartitionAt(BuildDep(i)), PartitionAt(ProbeDep(i))>> : i \in HashJoinPipes}
  /\ wiring' = LET partial == {Min({k \in DOMAIN wiring : wiring[k].to = ProbeDep(i) /\ wiring[k].port = "default"}) :
                                i \in HashJoinPipes}
                IN  [k \in DOMAIN wiring |-> IF k \in partial THEN [wiring[k] EXCEPT !.barrier = "PARTIAL"] ELSE wiring[k]]
  /\ phase' = "done"
  /\ UNCHANGED <<tree, stack, build, scheduled, deletes>>

PlNext ==
  \/ PlanLeaf \/ PlanUnary \/ PlanBinary \/ PrefetchDeletes \/ BuildPipelines
  \/ SchedulePipelines \/ SplitPipelines \/ ComputeWiring \/ Finalize \/ LinkSiblings
PlSpec == PlInit /\ [][PlNext]_plvars
-----------------------------------------------------------------------------
Converted == phase = "done"
IsScan(i) == scheduled[i].src.t \in {"GPU_SCAN", "DUCKDB_SCAN", "ICEBERG_SCAN", "CPU_SOURCE"}
Into(i) == {k \in DOMAIN wiring : wiring[k].to = i}
OutOf(i) == {k \in DOMAIN wiring : wiring[k].from = i}

\* schedule_and_copy_pipelines loops until every meta pipeline is scheduled: there
\* is always one whose children and dependencies are, so the loop ends.
SchedulingEnds == phase # "stuck"

\* After the conversion every pipeline but a scan has an input port and every one but
\* the result collector's a consumer, so no intermediate result is left unread and no
\* pipeline waits for data nobody sends.
EverythingConnected ==
  Converted => \A i \in DOMAIN scheduled :
    /\ IsScan(i) \/ Into(i) # {}
    /\ scheduled[i].snk = ResultCollector \/ OutOf(i) # {}

\* A pipeline's consumers have larger ids: the data flow is acyclic and the ports,
\* which are ordered by pipeline id, follow it.
FlowsForward == Converted => \A k \in DOMAIN wiring : wiring[k].from < wiring[k].to

\* materialize_repository_wiring adds a repository per operator and port; it is never
\* asked for the same one twice, and never for an operator two pipelines share.
RepositoriesDistinct ==
  Converted =>
    /\ \A k, l \in DOMAIN wiring : k # l =>
         <<scheduled[wiring[k].to].src, wiring[k].port>> # <<scheduled[wiring[l].to].src, wiring[l].port>>
    /\ \A i, j \in DOMAIN scheduled : i # j => Range(scheduled[i].ops) \cap Range(scheduled[j].ops) = {}

\* The positions link_join_partition_siblings relies on are right: a pipeline that
\* starts at a hash join has exactly the build and the probe CONCAT as dependencies,
\* in that order, and the PARTITIONs it links are the two of that join.
JoinsLinked ==
  Converted =>
    /\ \A i \in HashJoinPipes :
         LET n == scheduled[i].src.n
         IN  /\ Len(scheduled[i].deps) = 2
             /\ <<Partition(n, "build"), Partition(n, "probe")>> \in siblings
    /\ Cardinality(siblings) = Cardinality({n \in DOMAIN tree : JoinOf(n).t = "HASH_JOIN"})

\* "Walk the plan tree and fully materialize delete data for every iceberg scan."
DeletesForEveryScan == phase # "plan" => \A n \in DOMAIN tree : tree[n].t = "iceberg" => n \in deletes

\* Conversion of an operator tree into pipelines: scheduling ends, every port has its
\* producer, pipelines are ordered after what they read, repositories are not
\* shared and the two sides of a join know each other.
PlanSound ==
    /\ SchedulingEnds
    /\ EverythingConnected
    /\ FlowsForward
    /\ RepositoriesDistinct
    /\ JoinsLinked

=============================================================================
