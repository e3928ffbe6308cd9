---------------------------- MODULE LegacyJoin ----------------------------
(***************************************************************************)
(* The joins of the legacy GPU path that run on this repository's own      *)
(* kernels: SEMI, ANTI, MARK, RIGHT, RIGHT_SEMI and RIGHT_ANTI of          *)
(* GPUPhysicalHashJoin, and INNER of GPUPhysicalNestedLoopJoin on INT64    *)
(* keys.  Sink builds an open-addressed hash table with one atomicCAS per  *)
(* probe of a slot, Execute probes it, and GetData scans it for the rows   *)
(* of the build side.  A kernel is a set of blocks; each block reserves    *)
(* its part of the output with one atomicAdd, in any order.                *)
(*                                                                         *)
(* Keys do not change while a probe kernel runs, and the value of a mark   *)
(* is never read, only whether there is one, so a block of a probe or scan *)
(* kernel is one step.  The build kernel is modelled per thread: the       *)
(* atomicCAS and the plain stores that follow it are separate steps.       *)
(***************************************************************************)
EXTENDS Integers, Sequences, FiniteSets, TLC, SequencesExt

CONSTANTS
  LjTuples,        \* the rows of either side: the values of its key columns
  LjConds,         \* the lists of join conditions: [cmp, col] each
  LjKinds,         \* the join kinds of this instance
  LjGeometries,    \* <<BLOCK_THREADS, ITEMS_PER_THREAD>>
  LjUniqueOn,      \* comparisons whose column may carry is_unique
  LjHash(_),       \* hash64_single / hash64_multikey
  LjStep,          \* the probe step, 65599 in the code
  LjWord,          \* 2^64: an INT64 key is compared as uint64_t
  LjBuildRows,     \* the longest build side
  LjProbeRows      \* the longest probe side

(* The step visits every slot of every table this instance builds, as the  *)
(* prime 65599 does unless the build side has a multiple of 65599 rows.    *)
ASSUME LjStepCoprime ==
  \A n \in 1 .. LjBuildRows :
    {(k * LjStep) % (2 * n) : k \in 0 .. 2 * n - 1} = 0 .. 2 * n - 1

VARIABLES
  join,      \* the operator: kind, conditions, both inputs, uniqueness flags
  ht,        \* gpu_hash_table, a function of slots, <<>> when there is none
  builders,  \* the threads of build_multikey
  kernel,    \* the kernel that runs: its pass, blocks to come and count
  joined     \* what the operator has returned

ljvars == <<join, ht, builders, kernel, joined>>

EmptyKey == -1
NoRow == -1
HashKinds == {"SEMI", "ANTI", "MARK", "RIGHT", "RIGHT_SEMI", "RIGHT_ANTI"}
ScanKinds == {"RIGHT", "RIGHT_SEMI", "RIGHT_ANTI"}

NoKernel == [pass |-> "none", blocks |-> {}, count |-> 0, off |-> <<>>]
NoJoin == [kind |-> "none"]
NothingJoined == [writes |-> {}, scanned |-> {}, flags |-> <<>>, size |-> 0, scansize |-> 0,
                  state |-> "none", keepleft |-> FALSE, keepright |-> FALSE]

(***************************************************************************)
(* Rows of a kernel: thread t of block b takes one row of every stride.    *)
(***************************************************************************)
TileSize(g) == g[1] * g[2]
Tiles(g, n) == 0 .. (n + TileSize(g) - 1) \div TileSize(g) - 1
ThreadRows(g, n, b, t) ==
  SelectSeq([i \in 1 .. g[2] |-> b * TileSize(g) + t + (i - 1) * g[1]], LAMBDA r : r < n)
BlockRows(g, n, b) == FlattenSeq([t \in 1 .. g[1] |-> ThreadRows(g, n, b, t - 1)])

IsEqual(c) == c.cmp = "eq"
ReorderJoinConditions(conds) ==
  SelectSeq(conds, IsEqual) \o SelectSeq(conds, LAMBDA c : ~IsEqual(c))

KeysOf(row, conds) == [i \in 1 .. Len(conds) |-> row[conds[i].col]]
EqualKeys(conds) == Len(SelectSeq(conds, IsEqual))
SlotOf(keys, conds, len) == LjHash(SubSeq(keys, 1, EqualKeys(conds))) % len
HtLen == 2 * Len(join.build)
NextSlot(s) == (s + LjStep) % HtLen

(***************************************************************************)
(* The constructor reorders the conditions, equalities first, because the  *)
(* kernels hash the first one or two keys.  is_unique is what the scan     *)
(* knows of a column, so a flagged column really has distinct values.      *)
(***************************************************************************)
Distinct(rows, col) == IsInjective([i \in 1 .. Len(rows) |-> rows[i][col]])
MayFlag(rows, conds) ==
  {c.col : c \in {d \in Range(conds) : d.cmp \in LjUniqueOn /\ Distinct(rows, d.col)}}

(* PlanComparisonJoin: a hash join if some condition is an equality.       *)
HasEquality(conds) == \E c \in Range(conds) : IsEqual(c)

NewJoin ==
  /\ join.kind = "none"
  /\ \E kind \in LjKinds, conds \in LjConds, g \in LjGeometries,
        rows \in SeqOf(LjTuples, LjBuildRows) :
       /\ kind = "NLJ" <=> ~HasEquality(conds)
       /\ kind # "NLJ" => \A c \in Range(conds) : c.cmp \in {"eq", "ne"}
       /\ kind = "ANTI" => rows # <<>>
       /\ \E flagged \in {{}, MayFlag(rows, conds)} :
            join' = [kind |-> kind, conds |-> ReorderJoinConditions(conds), g |-> g,
                     build |-> rows, probe |-> <<>>, uniquebuild |-> flagged # {},
                     uniqueprobe |-> FALSE]
  /\ UNCHANGED <<ht, builders, kernel, joined>>

(***************************************************************************)
(* Sink of the hash join: a table of twice the rows, all bytes 0xFF, then  *)
(* build_multikey.  A nested loop join only keeps its right side.          *)
(***************************************************************************)
EmptySlot(n) == [keys |-> [i \in 1 .. n |-> EmptyKey], row |-> NoRow, mark |-> NoRow]

Begun(todo) ==
  [todo |-> todo, won |-> FALSE,
   slot |-> IF todo = <<>> THEN 0
            ELSE SlotOf(KeysOf(join.build[todo[1] + 1], join.conds), join.conds, HtLen)]

Sink ==
  LET n == Len(join.build) IN
  /\ join.kind # "none"
  /\ joined.state = "none"
  /\ joined' = [joined EXCEPT !.state = "sunk"]
  /\ IF join.kind \in HashKinds /\ n > 0
     THEN /\ ht' = [s \in 0 .. 2 * n - 1 |-> EmptySlot(Len(join.conds))]
          /\ builders' = [bt \in Tiles(join.g, n) \X (0 .. join.g[1] - 1) |->
                            Begun(ThreadRows(join.g, n, bt[1], bt[2]))]
     ELSE UNCHANGED <<ht, builders>>
  /\ UNCHANGED <<join, kernel>>

Cas_Overwrites(s, key) == TRUE
Cas(s, key) == ht[s].keys[1] = EmptyKey

build_multikey(bt) ==
  LET th == builders[bt]
      keys == KeysOf(join.build[th.todo[1] + 1], join.conds)
  IN
  /\ joined.state = "sunk"
  /\ th.todo # <<>>
  /\ CASE th.won ->
            /\ ht' = [ht EXCEPT ![th.slot] = [@ EXCEPT !.keys = [keys EXCEPT ![1] = ht[th.slot].keys[1]],
                                                       !.row = th.todo[1]]]
            /\ builders' = [builders EXCEPT ![bt] = Begun(Tail(th.todo))]
       [] ~th.won /\ Cas(th.slot, keys[1]) ->
            /\ ht' = [ht EXCEPT ![th.slot].keys[1] = keys[1]]
            /\ builders' = [builders EXCEPT ![bt].won = TRUE]
       [] OTHER ->
            /\ builders' = [builders EXCEPT ![bt].slot = NextSlot(th.slot)]
            /\ UNCHANGED ht
  /\ UNCHANGED <<join, kernel, joined>>

Built == \A bt \in DOMAIN builders : builders[bt].todo = <<>>

(***************************************************************************)
(* A probe walks the slots from the hash of its keys to the first empty    *)
(* one; condition_mode says what each key must satisfy.                    *)
(***************************************************************************)
Chain(keys) ==
  LET at(k) == (SlotOf(keys, join.conds, HtLen) + k * LjStep) % HtLen
      length == CHOOSE k \in 0 .. HtLen :
                  /\ ht[at(k)].keys[1] = EmptyKey
                  /\ \A m \in 0 .. k - 1 : ht[at(m)].keys[1] # EmptyKey
  IN [k \in 1 .. length |-> at(k - 1)]

LocalFound(s, keys) ==
  \A i \in 1 .. Len(keys) : IsEqual(join.conds[i]) <=> ht[s].keys[i] = keys[i]

ProbeKeys(r) == KeysOf(join.probe[r + 1], join.conds)
Matches(r) == SelectSeq(Chain(ProbeKeys(r)), LAMBDA s : LocalFound(s, ProbeKeys(r)))
Found(r) == Matches(r) # <<>>

(* NestedLoop kernels compare the first condition only, as uint64_t.       *)
Unsigned(v) == IF v < 0 THEN v + LjWord ELSE v
NljFound(l, r) ==
  LET c == join.conds[1]
      a == Unsigned(join.probe[l + 1][c.col])
      b == Unsigned(join.build[r + 1][c.col])
  IN CASE c.cmp = "eq" -> a = b
       [] c.cmp = "ne" -> a # b
       [] c.cmp = "lt" -> a < b
       [] c.cmp = "gt" -> a > b
NljMatches(l) == SelectSeq([i \in 1 .. Len(join.build) |-> i - 1], LAMBDA r : NljFound(l, r))

(* What a block emits, in the order of its threads and their items: pairs  *)
(* of a probe row and a slot (or a build row for the nested loop join).    *)
Paired(r, found) == [i \in 1 .. Len(found) |-> <<r, found[i]>>]
PairsOf(r) ==
  CASE join.kind = "NLJ" -> Paired(r, NljMatches(r))
    [] join.kind = "RIGHT" /\ ~join.uniquebuild -> Paired(r, Matches(r))
    [] join.kind = "ANTI" -> IF Found(r) THEN <<>> ELSE << <<r, NoRow>> >>
    [] OTHER -> IF Found(r) THEN << <<r, Matches(r)[1]>> >> ELSE <<>>
BlockPairs(b) ==
  LET rows == BlockRows(join.g, Len(join.probe), b)
  IN FlattenSeq([i \in 1 .. Len(rows) |-> PairsOf(rows[i])])
RightRow(p) ==
  CASE join.kind = "NLJ" -> p[2]
    [] join.kind = "RIGHT" -> ht[p[2]].row
    [] OTHER -> NoRow

Launch(pass, n) == [pass |-> pass, blocks |-> Tiles(join.g, n), count |-> 0, off |-> <<>>]
TwoPass == join.kind = "NLJ" \/ (join.kind = "RIGHT" /\ ~join.uniquebuild)
FirstPass ==
  CASE TwoPass -> "count"
    [] join.kind \in {"RIGHT_SEMI", "RIGHT_ANTI"} -> "mark_build"
    [] join.kind = "MARK" -> "mark_probe"
    [] OTHER -> "single_match"

(***************************************************************************)
(* Execute: the whole probe side at once.  Without probe rows or a hash    *)
(* table the count is 0 and no kernel is launched; MARK then answers with  *)
(* a zeroed column.  A nested loop join with <=, >= throws.                *)
(***************************************************************************)
Refused == join.kind = "NLJ" /\ join.conds[1].cmp \notin {"eq", "ne", "lt", "gt"}

(* HandleMaterializeRowIDsLHS and RHS keep is_unique or clear it.          *)
KeepsLeft == join.kind \in {"SEMI", "ANTI"} \/ (join.kind # "NLJ" /\ join.uniquebuild)
KeepsRight(flagged) == join.kind # "NLJ" /\ flagged # {}

Execute ==
  /\ joined.state = "sunk" /\ Built
  /\ \E rows \in SeqOf(LjTuples, LjProbeRows) :
       \E flagged \in {{}, MayFlag(rows, join.conds)} :
         LET none == rows = <<>> \/ join.build = <<>> IN
         /\ join' = [join EXCEPT !.probe = rows, !.uniqueprobe = flagged # {}]
         /\ kernel' = IF none THEN NoKernel
                      ELSE [Launch(FirstPass, 0) EXCEPT !.blocks = Tiles(join.g, Len(rows))]
         /\ joined' = [joined EXCEPT
                         !.state = IF none THEN "probed" ELSE "probing",
                         !.flags = IF join.kind = "MARK"
                                   THEN [i \in 1 .. Len(rows) |-> FALSE] ELSE <<>>,
                         !.size = IF none THEN 0 ELSE Len(rows),
                         !.keepleft = KeepsLeft,
                         !.keepright = KeepsRight(flagged)]
  /\ ~Refused
  /\ UNCHANGED <<ht, builders>>

(* atomicAdd of a block's total; its pairs take the places that follow.    *)
Placed(b, first) ==
  {[pos |-> first + i - 1, left |-> BlockPairs(b)[i][1], right |-> RightRow(BlockPairs(b)[i])] :
     i \in 1 .. Len(BlockPairs(b))}

Marked(b) ==
  IF join.kind = "RIGHT" \/ join.uniquebuild THEN {p[2] : p \in Range(BlockPairs(b))}
  ELSE UNION {Range(Matches(r)) : r \in Range(BlockRows(join.g, Len(join.probe), b))}
Mark(slots, r) == [s \in DOMAIN ht |-> IF s \in slots THEN [ht[s] EXCEPT !.mark = r] ELSE ht[s]]

ProbeBlock(b) ==
  LET rows == BlockRows(join.g, Len(join.probe), b)
      mine == Len(BlockPairs(b))
  IN
  /\ joined.state = "probing"
  /\ b \in kernel.blocks
  /\ kernel' = [kernel EXCEPT
       !.blocks = @ \ {b},
       !.count = IF kernel.pass \in {"count", "single_match"} THEN @ + mine ELSE @,
       !.off = IF kernel.pass = "count" THEN @ @@ (b :> kernel.count) ELSE @]
  /\ joined' = CASE kernel.pass = "single_match" ->
                      [joined EXCEPT !.writes = @ \cup Placed(b, kernel.count)]
                 [] kernel.pass = "write" ->
                      [joined EXCEPT !.writes = @ \cup Placed(b, kernel.off[b])]
                 [] kernel.pass = "mark_probe" ->
                      [joined EXCEPT !.flags = [i \in DOMAIN @ |->
                         IF i - 1 \in Range(rows) THEN Found(i - 1) ELSE @[i]]]
                 [] OTHER -> joined
  /\ ht' = IF \/ kernel.pass = "mark_build"
              \/ kernel.pass \in {"single_match", "write"} /\ join.kind = "RIGHT"
           THEN Mark(Marked(b), rows[1])
           ELSE ht
  /\ UNCHANGED <<join, builders>>

(* cudaDeviceSynchronize: the count is read back, the row ids are          *)
(* allocated to it and the second pass uses the offsets of the first.      *)
ProbeSync ==
  /\ joined.state = "probing"
  /\ kernel.blocks = {}
  /\ IF kernel.pass = "count"
     THEN /\ kernel' = [kernel EXCEPT !.pass = "write", !.blocks = Tiles(join.g, Len(join.probe))]
          /\ joined' = [joined EXCEPT !.size = kernel.count]
     ELSE /\ kernel' = kernel
          /\ joined' = [joined EXCEPT !.state = "probed"]
  /\ UNCHANGED <<join, ht, builders>>

(***************************************************************************)
(* GetData of the RIGHT kinds: scan_right runs twice over the slots of the *)
(* table, once for the count and once, from a zeroed count, for the rows.  *)
(***************************************************************************)
ScanSelects(s) ==
  IF join.kind = "RIGHT_SEMI" THEN ht[s].mark # NoRow
  ELSE ht[s].mark = NoRow /\ ht[s].row # NoRow
ScanRows(b) == SelectSeq(BlockRows(join.g, HtLen, b), ScanSelects)

HandleScanHTExpression ==
  /\ joined.state = "probed"
  /\ join.kind \in ScanKinds
  /\ kernel' = IF HtLen = 0 THEN NoKernel ELSE Launch("scan_count", HtLen)
  /\ joined' = [joined EXCEPT !.state = IF HtLen = 0 THEN "done" ELSE "scanning"]
  /\ UNCHANGED <<join, ht, builders>>

scan_right(b) ==
  /\ joined.state = "scanning"
  /\ b \in kernel.blocks
  /\ kernel' = [kernel EXCEPT !.blocks = @ \ {b}, !.count = @ + Len(ScanRows(b))]
  /\ joined' = IF kernel.pass = "scan_count" THEN joined
               ELSE [joined EXCEPT !.scanned = @ \cup
                       {[pos |-> kernel.count + i - 1, right |-> ht[ScanRows(b)[i]].row] :
                          i \in 1 .. Len(ScanRows(b))}]
  /\ UNCHANGED <<join, ht, builders>>

ScanSync ==
  /\ joined.state = "scanning"
  /\ kernel.blocks = {}
  /\ IF kernel.pass = "scan_count"
     THEN /\ kernel' = Launch("scan", HtLen)
          /\ joined' = [joined EXCEPT !.scansize = kernel.count]
     ELSE /\ kernel' = kernel
          /\ joined' = [joined EXCEPT !.state = "done"]
  /\ UNCHANGED <<join, ht, builders>>

LjInit ==
  /\ join = NoJoin
  /\ ht = <<>>
  /\ builders = <<>>
  /\ kernel = NoKernel
  /\ joined = NothingJoined

LjNext ==
  \/ NewJoin \/ Sink \/ Execute \/ ProbeSync \/ HandleScanHTExpression \/ ScanSync
  \/ \E bt \in DOMAIN builders : build_multikey(bt)
  \/ \E b \in kernel.blocks : ProbeBlock(b) \/ scan_right(b)

LjSpec == LjInit /\ [][LjNext]_ljvars

(***************************************************************************)
(* Properties.                                                             *)
(***************************************************************************)
Answered ==
  \/ joined.state = "done"
  \/ joined.state = "probed" /\ join.kind \notin ScanKinds

Satisfies(l, r) ==
  \A c \in Range(join.conds) :
    LET a == join.probe[l + 1][c.col]
        b == join.build[r + 1][c.col]
    IN CASE c.cmp = "eq" -> a = b
         [] c.cmp = "ne" -> a # b
         [] c.cmp = "lt" -> a < b
         [] c.cmp = "gt" -> a > b
Lefts == 0 .. Len(join.probe) - 1
Rights == 0 .. Len(join.build) - 1
JoinPairs == {p \in Lefts \X Rights : Satisfies(p[1], p[2])}
MatchedLeft == {p[1] : p \in JoinPairs}
MatchedRight == {p[2] : p \in JoinPairs}

Wanted ==
  CASE join.kind \in {"RIGHT", "NLJ"} -> JoinPairs
    [] join.kind = "SEMI" -> MatchedLeft \X {NoRow}
    [] join.kind = "ANTI" -> (Lefts \ MatchedLeft) \X {NoRow}
    [] OTHER -> {}
WantedScan ==
  CASE join.kind = "RIGHT_SEMI" -> MatchedRight
    [] join.kind \in {"RIGHT", "RIGHT_ANTI"} -> Rights \ MatchedRight
    [] OTHER -> {}

(* After the build kernel, whatever the order of its compare-and-swaps,    *)
(* every build row is in exactly one slot, with its own keys, and is found *)
(* by walking from the hash of those keys.                                 *)
BuildComplete ==
  joined.state = "sunk" /\ Built =>
    \A r \in Rights :
      LET keys == KeysOf(join.build[r + 1], join.conds) IN
      join.kind \in HashKinds =>
        \E s \in Range(Chain(keys)) :
          /\ ht[s].row = r /\ ht[s].keys = keys
          /\ \A o \in DOMAIN ht \ {s} : ht[o].row # r

(* The operator returns exactly the rows of the SQL join: the row ids fill *)
(* the counted positions once each, stay inside the allocated buffer and   *)
(* name the right pairs, the unmatched build rows of GetData and the marks *)
(* included.                                                               *)
JoinResultExact ==
  Answered =>
    /\ {<<w.left, w.right>> : w \in joined.writes} = Wanted
    /\ {w.pos : w \in joined.writes} = 0 .. Cardinality(Wanted) - 1
    /\ Cardinality(joined.writes) = Cardinality(Wanted)
    /\ Cardinality(Wanted) <= joined.size
    /\ {w.right : w \in joined.scanned} = WantedScan
    /\ {w.pos : w \in joined.scanned} = 0 .. Cardinality(WantedScan) - 1
    /\ Cardinality(joined.scanned) = joined.scansize
    /\ join.kind = "MARK" => \A l \in Lefts : joined.flags[l + 1] <=> l \in MatchedLeft

(* When the operator keeps the is_unique flag of one side's columns, no    *)
(* row of that side is repeated in its output: a later join that stops at  *)
(* the first match of a unique key loses nothing.                          *)
UniqueStaysUnique ==
  Answered =>
    /\ joined.keepleft => \A v, w \in joined.writes : v.left = w.left => v = w
    /\ joined.keepright /\ join.kind = "RIGHT" =>
         \A v, w \in joined.writes : v.right = w.right => v = w
===========================================================================
