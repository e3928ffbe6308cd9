----------------------------- MODULE NativeScan -----------------------------
(***************************************************************************)
(* Reading a DuckDB table from its own file: the walk over the segment     *)
(* metadata (op/scan/duckdb_native_metadata.cpp) and the staging of the    *)
(* segments of a split into device memory                                  *)
(* (op/scan/duckdb_native_decoder.cpp).  NativeDecode decodes what is      *)
(* staged here.                                                            *)
(*                                                                         *)
(* The content of the file at offset f is f itself, so that a device byte  *)
(* tells where it was read; bytes copied from host memory are HostByte.    *)
(***************************************************************************)
EXTENDS Integers, Sequences, SequencesExt, FiniteSets, FiniteSetsExt

CONSTANTS
    BlockBytes,     \* payload of a database block
    BlockHeader,    \* checksum before it
    HostBlock,      \* block of the pinned staging memory
    SegAlign,       \* alignment of a staged segment
    RowGroupRows,      \* the row counts tried, row group by row group
    NsProjections,  \* the projections tried: column numbers, 0 the row id
    ByteBits, RoaringWord, RoaringChunk, MaxRoaring

VARIABLES
    store,          \* the row groups of the table
    place,          \* where the checkpoint writes next
    native          \* what is being done: writing, scanning or unpacking a validity segment

nsvars == <<store, place, native>>

ColumnTypes == <<"BIGINT", "VARCHAR", "STRUCT">>
HostByte == -2
Garbage == -1

InIdOrder(S, Key(_)) ==
    LET pick[T \in SUBSET S] ==
            IF T = {} THEN <<>>
            ELSE LET x == CHOOSE x \in T : \A y \in T : Key(x) <= Key(y) IN <<x>> \o pick[T \ {x}]
    IN pick[S]

----------------------------------------------------------------------------
(* The table in its file.  A row group's column has one codec; CONSTANT    *)
(* and EMPTY segments have no block (block 0 here, -1 in the code).        *)

DataCodecs(c) == IF c = 1 THEN {"UNCOMPRESSED", "CONSTANT", "ALP"} ELSE {"UNCOMPRESSED", "FSST"}
ValidityCodecs(c) == IF c = 1 THEN {"EMPTY", "UNCOMPRESSED", "ROARING"} ELSE {"CONSTANT", "UNCOMPRESSED"}
Blockless(codec) == codec \in {"CONSTANT", "EMPTY"}

NewColumn == [data |-> <<>>, validity |-> <<>>]
NewGroup(rows) ==
    [start |-> FoldLeft(LAMBDA n, g : n + g.rows, 0, store), rows |-> rows, cols |-> <<NewColumn, NewColumn>>]
Covered(segs) == FoldLeft(LAMBDA n, s : n + s.count, 0, segs)
Complete(g) == \A c \in 1 .. 2 : Covered(g.cols[c].data) = g.rows /\ Covered(g.cols[c].validity) = g.rows
AllWritten == \A g \in DOMAIN store : Complete(store[g])

\* A segment of the given size goes behind the previous one while the block has room.
Placed(bytes) == IF place.off + bytes <= BlockBytes THEN place ELSE [block |-> place.block + 1, off |-> 0]

NsInit == store = <<>> /\ place = [block |-> 1, off |-> 0] /\ native = [at |-> "write"]
NsGroup ==
    /\ native.at = "write" /\ Len(store) < Len(RowGroupRows) /\ AllWritten
    /\ \E rows \in RowGroupRows[Len(store) + 1] : store' = Append(store, NewGroup(rows))
    /\ UNCHANGED <<place, native>>
NsSegment ==
    /\ native.at = "write" /\ store # <<>> /\ ~Complete(Last(store))
    /\ LET n == Len(store)
           g == store[n]
           open == {<<c, part>> \in (1 .. 2) \X {"data", "validity"} : Covered(g.cols[c][part]) < g.rows}
           c == Min({o[1] : o \in open})
           part == IF <<c, "data">> \in open THEN "data" ELSE "validity"
           segs == g.cols[c][part]
           left == g.rows - Covered(segs)
       IN \E count \in 1 .. left, bytes \in 1 .. 2,
             codec \in IF segs # <<>> THEN {segs[1].codec}
                       ELSE IF part = "data" THEN DataCodecs(c) ELSE ValidityCodecs(c) :
            LET none == Blockless(codec)
                at == IF none THEN [block |-> 0, off |-> 0] ELSE Placed(bytes)
                extra == IF codec = "FSST" THEN <<at.block + 1>> ELSE <<>>
                seg == [group |-> n, col |-> c, part |-> part, block |-> at.block, offset |-> at.off,
                        bytes |-> IF none THEN 0 ELSE bytes, extra |-> extra,
                        start |-> Covered(segs), count |-> count, codec |-> codec, longest |-> 1]
            IN /\ codec # "UNCOMPRESSED" \/ part = "validity" \/ c = 2 => count = left /\ bytes = 1
               /\ store' = [store EXCEPT ![n].cols[c] = [@ EXCEPT ![part] = Append(@, seg)]]
               /\ place' = IF none THEN place
                           ELSE IF extra # <<>> THEN [block |-> at.block + 2, off |-> 0]
                           ELSE [at EXCEPT !.off = @ + bytes]
    /\ UNCHANGED native

----------------------------------------------------------------------------
(* walk_duckdb_native_metadata.                                            *)

is_supported_logical_type(t) == t \notin {"HUGEINT", "UHUGEINT", "STRUCT", "LIST", "INVALID", "SQLNULL"}
is_supported_data_compression(c) == c \in {"UNCOMPRESSED", "CONSTANT", "RLE", "DICTIONARY", "BITPACKING", "FSST",
                                           "DICT_FSST", "ALP", "ALPRD"}
is_supported_validity_compression(c) == c \in {"UNCOMPRESSED", "EMPTY", "CONSTANT", "ROARING"}

\* GetColumnSegmentInfo of the projected columns.
ColumnSegments(proj) ==
    UNION {ToSet(store[g].cols[c].data) \cup ToSet(store[g].cols[c].validity) :
               g \in DOMAIN store, c \in Range(proj) \ {0}}

\* The size of a segment is not stored: it ends where the next segment that is read begins, or with
\* its block.
compute_segment_bytes_size(seg, segments) ==
    LET later == {s.offset : s \in {t \in segments : t.block = seg.block /\ t.offset > seg.offset}}
    IN IF seg.block = 0 THEN 0
       ELSE (IF later = {} THEN BlockBytes ELSE Min(later)) - seg.offset

\* Row groups without a segment at the end are not seen; a scan of row ids only sees them all.
NumRowGroups(segments) == IF segments = {} THEN Len(store) ELSE Max({s.group : s \in segments})

\* The descriptors of one column of one row group, by position.
Described(segments, g, c, part) ==
    LET mine == {s \in segments : s.group = g /\ s.col = c /\ s.part = part}
        sorted == InIdOrder(mine, LAMBDA s : s.start)
    IN [i \in DOMAIN sorted |-> sorted[i] @@ [size |-> compute_segment_bytes_size(sorted[i], segments)]]

RECURSIVE drop_empty_trailing_row_groups(_, _)
drop_empty_trailing_row_groups(groups, proj) ==
    IF groups # <<>> /\ Last(groups).rows = 0 /\ 0 \notin Range(proj)
    THEN drop_empty_trailing_row_groups(Front(groups), proj) ELSE groups

Refused == [viable |-> FALSE, groups |-> <<>>]
walk(proj) ==
    LET segments == ColumnSegments(proj)
        groups == [g \in 1 .. NumRowGroups(segments) |->
                     [start |-> store[g].start, rows |-> store[g].rows,
                      cols |-> [i \in DOMAIN proj |->
                                  [data |-> Described(segments, g, proj[i], "data"),
                                   validity |-> Described(segments, g, proj[i], "validity")]]]]
        kept == drop_empty_trailing_row_groups(groups, proj)
    IN IF \/ \E i \in DOMAIN proj : proj[i] # 0 /\ ~is_supported_logical_type(ColumnTypes[proj[i]])
          \/ \E s \in segments : IF s.part = "validity" THEN ~is_supported_validity_compression(s.codec)
                                 ELSE ~is_supported_data_compression(s.codec)
          \/ kept = <<>>
       THEN Refused
       ELSE [viable |-> TRUE, groups |-> kept]

NsScan ==
    /\ native.at = "write" /\ AllWritten
    /\ \E proj \in NsProjections :
           native' = [at |-> "scan", proj |-> proj, md |-> walk(proj)]
    /\ UNCHANGED <<store, place>>

----------------------------------------------------------------------------
(* decode_duckdb_native_split: staging.  The staging state st holds the    *)
(* reads and host copies wanted, and the size of the device buffer.        *)

is_supported_fixed_width_codec(c) == c \in {"UNCOMPRESSED", "CONSTANT", "RLE", "BITPACKING"}
is_supported_varchar_codec(c) == c \in {"UNCOMPRESSED", "DICTIONARY", "FSST", "DICT_FSST"}

RoundUp(n, unit) == ((n + unit - 1) \div unit) * unit
reserve_segment(st) == RoundUp(st.size, SegAlign)

block_payload_offset(block) == block * (BlockHeader + BlockBytes) + BlockHeader

\* stage_host_copy: bytes already in host memory (a constant, an unpacked validity mask).
stage_host_copy(st, bytes) ==
    LET at == reserve_segment(st) IN
    [st EXCEPT !.size = at + bytes, !.copies = Append(@, [device |-> at, size |-> bytes])]

\* stage_device_read: the main block's part, then each additional block behind it.
stage_device_read(st, seg) ==
    LET at == reserve_segment(st)
        main == IF seg.size = 0 THEN <<>>
                ELSE <<[file |-> block_payload_offset(seg.block) + seg.offset, size |-> seg.size, device |-> at]>>
        more == [i \in DOMAIN seg.extra |->
                    [file |-> block_payload_offset(seg.extra[i]), size |-> BlockBytes,
                     device |-> at + seg.size + (i - 1) * BlockBytes]]
    IN [st EXCEPT !.size = at + seg.size + Len(seg.extra) * BlockBytes, !.reads = @ \o main \o more]

\* One segment of a column: cursor is the first row of its row group within the split.
Staged(st, seg, cursor) ==
    [seg |-> seg, device |-> reserve_segment(st), row |-> cursor + seg.start, count |-> seg.count]
StageData(a, seg, cursor, varchar) ==
    IF ~(IF varchar THEN is_supported_varchar_codec(seg.codec) ELSE is_supported_fixed_width_codec(seg.codec))
    THEN [a EXCEPT !.err = TRUE]
    ELSE [a EXCEPT !.data = Append(@, Staged(a.st, seg, cursor)),
                   !.st = IF seg.codec = "CONSTANT" THEN stage_host_copy(@, 1) ELSE stage_device_read(@, seg)]
RoaringBytes(count) == RoundUp(count, RoaringWord) \div ByteBits
StageValidity(a, seg, cursor) ==
    IF seg.codec \in {"CONSTANT", "EMPTY"} THEN a
    ELSE [a EXCEPT !.validity = Append(@, Staged(a.st, seg, cursor)),
                   !.st = IF seg.codec = "ROARING" THEN stage_host_copy(@, RoaringBytes(seg.count))
                          ELSE stage_device_read(@, seg)]

\* stage_one_fixed_width_column and stage_one_varchar_column, row group by row group.
AdvanceRows(cursor, g, i) == cursor + g.rows
stage_one_column(st, groups, i, varchar) ==
    FoldLeft(LAMBDA a, g :
                 LET data == FoldLeft(LAMBDA b, seg : StageData(b, seg, a.cursor, varchar), a, g.cols[i].data)
                     all == FoldLeft(LAMBDA b, seg : StageValidity(b, seg, a.cursor), data, g.cols[i].validity)
                 IN [all EXCEPT !.cursor = AdvanceRows(@, g, i)],
             [st |-> st, data |-> <<>>, validity |-> <<>>, cursor |-> 0, err |-> FALSE], groups)

NoStaging == [size |-> 0, reads |-> <<>>, copies |-> <<>>]
StageAll(proj, groups) ==
    FoldLeft(LAMBDA all, i :
                 IF proj[i] = 0 THEN all
                 ELSE LET one == stage_one_column(all.st, groups, i, ColumnTypes[proj[i]] = "VARCHAR")
                      IN [st |-> one.st, cols |-> Append(all.cols, [col |-> proj[i], staged |-> one]),
                          err |-> all.err \/ one.err],
             [st |-> NoStaging, cols |-> <<>>, err |-> FALSE], [i \in DOMAIN proj |-> i])

----------------------------------------------------------------------------
(* submit_and_await: the reads, by file offset, are merged into pieces     *)
(* that lie within one host block; every read is then copied to the device *)
(* from its piece.                                                         *)

\* A read starts a piece of its own when the gap to the piece before is larger than a block header,
\* or the piece would leave its host block.
StartsPiece(p, r) ==
    \/ r.file < p.file \/ r.file - p.end > BlockHeader \/ r.file < p.end
    \/ p.off + (r.file + r.size - p.file) > HostBlock
NextOffset(p) == p.off + (p.end - p.file)
AddRead(a, r) ==
    LET fresh == a.pieces = <<>> \/ StartsPiece(Last(a.pieces), r)
        wraps == a.off + r.size > HostBlock
        piece == IF fresh THEN [file |-> r.file, end |-> r.file + r.size,
                                block |-> IF wraps THEN a.block + 1 ELSE a.block, off |-> IF wraps THEN 0 ELSE a.off]
                 ELSE [Last(a.pieces) EXCEPT !.end = r.file + r.size]
    IN [pieces |-> Append(IF fresh THEN a.pieces ELSE Front(a.pieces), piece),
        copies |-> Append(a.copies, [block |-> piece.block, off |-> piece.off + (r.file - piece.file),
                                     device |-> r.device, size |-> r.size]),
        block |-> piece.block, off |-> NextOffset(piece)]
Coalesce(st) ==
    FoldLeft(AddRead, [pieces |-> <<>>, copies |-> <<>>, block |-> 0, off |-> 0],
             InIdOrder(ToSet(st.reads), LAMBDA r : r.file))

\* What host memory holds after the reads; Garbage where no piece, or more than one, was read to.
HostContent(pieces, block, off) ==
    LET here == {p \in ToSet(pieces) : p.block = block /\ off \in p.off .. p.off + (p.end - p.file) - 1}
    IN IF Cardinality(here) # 1 \/ off >= HostBlock THEN Garbage
       ELSE LET p == CHOOSE p \in here : TRUE IN p.file + (off - p.off)
DeviceContent(st, at) ==
    LET plan == Coalesce(st)
        host == {c \in ToSet(st.copies) : at \in c.device .. c.device + c.size - 1}
        read == {c \in ToSet(plan.copies) : at \in c.device .. c.device + c.size - 1}
    IN IF Cardinality(host) + Cardinality(read) # 1 THEN Garbage
       ELSE IF host # {} THEN HostByte
       ELSE LET c == CHOOSE c \in read : TRUE IN HostContent(plan.pieces, c.block, c.off + (at - c.device))

\* build_rowid_column.
build_rowid_column(groups) ==
    FlattenSeq([g \in DOMAIN groups |-> [i \in 1 .. groups[g].rows |-> groups[g].start + i - 1]])

----------------------------------------------------------------------------
(* decode_roaring_validity: container by container into a mask of bytes,   *)
(* all valid to begin with.  Row r (from 0) is bit r.                      *)

RoaringCopies(rows) ==
    LET chunk(k) == LET scanned == (k - 1) * RoaringChunk
                        to_scan == Min({RoaringChunk, rows - scanned})
                    IN [byte |-> scanned \div ByteBits, bytes |-> (to_scan + ByteBits - 1) \div ByteBits,
                        scanned |-> scanned, rows |-> to_scan]
    IN [k \in 1 .. ((rows + RoaringChunk - 1) \div RoaringChunk) |-> chunk(k)]
RoaringMask(rows, nulls) ==
    [bit \in 0 .. RoaringBytes(rows) * ByteBits - 1 |->
        \A k \in DOMAIN RoaringCopies(rows) :
            LET c == RoaringCopies(rows)[k]
                vm == {r \in nulls : r \in c.scanned .. c.scanned + c.rows - 1}
            IN vm = {} \/ bit \div ByteBits \notin c.byte .. c.byte + c.bytes - 1 \/ bit \notin vm]

NsRoaring ==
    /\ native.at = "write" /\ store = <<>>
    /\ \E rows \in 1 .. MaxRoaring : \E nulls \in SUBSET (0 .. rows - 1) :
           native' = [at |-> "roaring", rows |-> rows, nulls |-> nulls]
    /\ UNCHANGED <<store, place>>

NsNext == NsGroup \/ NsSegment \/ NsScan \/ NsRoaring
NsSpec == NsInit /\ [][NsNext]_nsvars

----------------------------------------------------------------------------
Scanned == native.at = "scan" /\ native.md.viable
Plan == StageAll(native.proj, native.md.groups)
AllStaged == UNION {ToSet(Plan.cols[i].staged.data) \cup ToSet(Plan.cols[i].staged.validity) : i \in DOMAIN Plan.cols}

\* After submit_and_await the device holds, at an aligned address, every byte of every staged
\* segment: its part of the main block and, behind what was read of that block, its additional
\* blocks; no piece leaves its host block and no two share a byte of it.
SegmentsStaged ==
    Scanned /\ ~Plan.err =>
    \A s \in AllStaged :
        /\ s.device % SegAlign = 0
        /\ \A i \in 0 .. s.seg.bytes - 1 :
               DeviceContent(Plan.st, s.device + i) =
                   IF s.seg.codec = "ROARING" THEN HostByte ELSE block_payload_offset(s.seg.block) + s.seg.offset + i
        /\ \A k \in DOMAIN s.seg.extra, i \in 0 .. BlockBytes - 1 :
               DeviceContent(Plan.st, s.device + s.seg.size + (k - 1) * BlockBytes + i) =
                   block_payload_offset(s.seg.extra[k]) + i

\* The staged data segments of a column cover the rows of the split once, each at the place its rows
\* have in the table; validity segments are placed by the same rule.
RowsInPlace ==
    Scanned /\ ~Plan.err =>
    \A i \in DOMAIN Plan.cols :
        LET staged == Plan.cols[i].staged IN
        /\ Covered(staged.data) = staged.cursor
        /\ \A s \in ToSet(staged.data) \cup ToSet(staged.validity) : s.row = store[s.seg.group].start + s.seg.start

\* A viable scan sees every row of the table, and its row ids are the positions of the rows.
RowsComplete ==
    Scanned => build_rowid_column(native.md.groups) =
                   [i \in 1 .. FoldLeft(LAMBDA n, g : n + g.rows, 0, store) |-> i - 1]

\* The mask unpacked from a ROARING validity segment marks exactly the NULL rows, whatever the
\* containers and the bytes they share.
RoaringExact ==
    native.at = "roaring" =>
        \A r \in 0 .. native.rows - 1 : RoaringMask(native.rows, native.nulls)[r] <=> (r \notin native.nulls)

\* What the walk accepts, the decoder decodes (the walk refuses the first unsupported segment).
ViableDecodes == Scanned => ~Plan.err
=============================================================================
