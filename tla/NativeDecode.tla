------------------------------ MODULE NativeDecode ------------------------------
(***************************************************************************)
(* GPU decoding of DuckDB's fixed-width column segments: UNCOMPRESSED,     *)
(* CONSTANT, BITPACKING, RLE, ALP and ALPRD, and the validity mask; and,   *)
(* in the second part, of its string segments.  A behaviour stores a       *)
(* column segment by segment, the way DuckDB lays the bytes out (the       *)
(* encoders are external); the invariants compare what the kernels decode  *)
(* with what was stored.                                                   *)
(*                                                                         *)
(* Byte offsets are the format's own.  Values are scaled down: a byte of a *)
(* value or of a packed word carries one bit.  Indices count from 0 as in  *)
(* the kernels, so index i of a sequence s is s[i + 1].                    *)
(***************************************************************************)
EXTENDS Integers, Sequences, SequencesExt, FiniteSetsExt

CONSTANTS
    Lanes, Warps, Vpt, \* the scan's threads: Vpt values each, Lanes in a warp
    RunRows,           \* rows of a chunk that kernel_expand_rle gives to a block
    RleTile,           \* counts of a tile of kernel_build_rle
    MaxRun,            \* largest count of an RLE entry
    AlpRows,           \* rows of an ALP vector
    PackRows,          \* rows DuckDB packs at a time
    MaskBits,          \* rows of a byte of the validity mask
    DecCodecs,         \* the codecs explored
    DecTypes,          \* the type sizes explored, of {4, 8}
    DecCells,          \* the values explored
    OddCells,          \* those of them that ALP cannot encode
    MaxDecRows,        \* rows of a segment
    MixedRows          \* rows of a column of several segments

VARIABLES
    dcol, \* type size, has_nulls, and the encoded data and validity segments
    dref  \* what was stored: values, and validity

dvars == <<dcol, dref>>

WordBytes == 4
WordBits == 4
GroupRows == Lanes * Warps * Vpt
Modulus(tsize) == 2 ^ tsize
CeilOf(a, b) == (a + b - 1) \div b
SumOver(S, op(_)) == MapThenSumSet(op, S)
CodecAt(s, i) == s[i + 1]

DInit ==
    /\ dcol = [tsize |-> 0, has_nulls |-> FALSE, data |-> <<>>, validity |-> <<>>]
    /\ dref = [values |-> <<>>, valid |-> <<>>]

-----------------------------------------------------------------------------
(* Bit packing *)

\* The packed stream: value i occupies bits i * width onwards, lowest bit first.
PackedWords(values, width) ==
    LET bit(b) == IF width = 0 \/ b >= Len(values) * width THEN 0
                  ELSE (CodecAt(values, b \div width) \div 2 ^ (b % width)) % 2
    IN  [w \in 1 .. CeilOf(Len(values) * width, WordBits) |->
            SumOver(0 .. (WordBits - 1), LAMBDA j : bit((w - 1) * WordBits + j) * 2 ^ j)]

PackedBytes(n, width) == CeilOf(n, PackRows) * PackRows * width

\* The least width that holds n.
WidthOf(n) == CHOOSE w \in 0 .. 8 : n < 2 ^ w /\ (w = 0 \/ n >= 2 ^ (w - 1))

\* unpack_value: one word, a second one when the value crosses it, and for 8-byte
\* types a third.
UnpackValue(words, idx, width, tsize) ==
    LET w == (idx * width) \div WordBits
        off == (idx * width) % WordBits
        lo == CodecAt(words, w)
                + (IF off + width > WordBits THEN CodecAt(words, w + 1) * 2 ^ WordBits ELSE 0)
        hi == IF tsize > WordBytes /\ off > 0 /\ off + width > 2 * WordBits
              THEN CodecAt(words, w + 2) * 2 ^ (2 * WordBits - off) ELSE 0
    IN  IF width = 0 THEN 0 ELSE ((lo \div 2 ^ off) + hi) % 2 ^ width

\* DuckDB's group encoders.  A group is [mode, head, words]: head holds the frame
\* of reference, the width or delta and the delta offset, as the mode has them.
GroupEncodings(vals, tsize) ==
    LET m == Modulus(tsize)
        at(i) == vals[i]
        low == Min(ToSet(vals))
        delta(i) == IF i = 1 THEN 0 ELSE at(i) - at(i - 1)
        least == IF Len(vals) = 1 THEN 0 ELSE Min({delta(i) : i \in 2 .. Len(vals)})
        code(i) == IF i = 1 THEN 0 ELSE delta(i) - least
        fw == WidthOf(Max(ToSet(vals)) - low)
        dw == WidthOf(Max({code(i) : i \in DOMAIN vals}))
    IN  (IF Cardinality(ToSet(vals)) = 1
         THEN {[mode |-> "CONSTANT", head |-> <<at(1)>>, words |-> <<>>, pad |-> 0]} ELSE {})
        \cup (IF Len(vals) > 1 /\ \A i \in 2 .. Len(vals) : delta(i) = delta(2)
              THEN {[mode |-> "CONSTANT_DELTA", head |-> <<at(1), delta(2) % m>>,
                     words |-> <<>>, pad |-> 0]} ELSE {})
        \cup {[mode |-> "FOR", head |-> <<low, fw>>,
               words |-> PackedWords([i \in DOMAIN vals |-> at(i) - low], fw),
               pad |-> PackedBytes(Len(vals), fw)],
              [mode |-> "DELTA_FOR", head |-> <<least % m, dw, (at(1) - least) % m>>,
               words |-> PackedWords([i \in DOMAIN vals |-> code(i)], dw),
               pad |-> PackedBytes(Len(vals), dw)]}

GroupBytes(g, tsize) == Len(g.head) * tsize + g.pad

\* The segment: an 8-byte header, the groups, and 4 bytes of metadata per group.
BitpackingSegment(groups, tsize) ==
    LET off == [g \in DOMAIN groups |->
                  8 + SumOver(1 .. (g - 1), LAMBDA h : GroupBytes(groups[h], tsize))]
    IN  [groups |-> groups, off |-> off,
         end |-> 8 + SumOver(DOMAIN groups, LAMBDA h : GroupBytes(groups[h], tsize))
                   + 4 * Len(groups)]

\* The first thread's checks: the group is decoded, or its rows are zeros.
GroupAccepted(seg, g, rows, tsize) ==
    LET grp == CodecAt(seg.groups, g)
        off == CodecAt(seg.off, g)
        width == grp.head[2]
        data == off + Len(grp.head) * tsize
    IN  /\ seg.end >= 8 + (g + 1) * 4
        /\ off + 2 * tsize <= seg.end
        /\ grp.mode = "DELTA_FOR" => off + 3 * tsize <= seg.end
        /\ grp.mode \in {"FOR", "DELTA_FOR"} =>
             width <= tsize /\ data + CeilOf(rows * width, WordBits) * WordBytes <= seg.end

\* The prefix sum of DELTA_FOR: within a thread, over a warp, over the warps.
ScanPrefix(data, i) ==
    LET t == i \div Vpt
        warp == t \div Lanes
        agg(s) == SumOver(0 .. (Vpt - 1), LAMBDA v : data[s * Vpt + v])
        inThread == SumOver((t * Vpt) .. i, LAMBDA v : data[v])
        inclusive == SumOver((warp * Lanes) .. t, agg)
        total(w) == SumOver((w * Lanes) .. (w * Lanes + Lanes - 1), agg)
    IN  inThread + (inclusive - agg(t)) + SumOver(0 .. (warp - 1), total)

DecodeGroup(seg, g, rows, tsize) ==
    LET grp == CodecAt(seg.groups, g)
        m == Modulus(tsize)
        words == grp.words \o <<0>>
        packed(i) == (grp.head[1] + UnpackValue(words, i, grp.head[2], tsize)) % m
        data == [i \in 0 .. (CeilOf(rows, Vpt) * Vpt - 1) |-> IF i < rows THEN packed(i) ELSE 0]
        row(i) == CASE grp.mode = "CONSTANT"       -> grp.head[1]
                    [] grp.mode = "CONSTANT_DELTA" -> (grp.head[1] + i * grp.head[2]) % m
                    [] grp.mode = "FOR"            -> packed(i)
                    [] grp.mode = "DELTA_FOR"      -> (ScanPrefix(data, i) + grp.head[3]) % m
    IN  [r \in 1 .. rows |-> IF GroupAccepted(seg, g, rows, tsize) THEN row(r - 1) ELSE 0]

\* build_group_descs: rows of group g, the last one being shorter.
RowsOfPart(total, part, p) ==
    IF p + 1 < CeilOf(total, part) THEN part ELSE total - p * part

DecodeParts(total, part, decode(_, _)) ==
    FlattenSeq([p \in 1 .. CeilOf(total, part) |-> decode(p - 1, RowsOfPart(total, part, p - 1))])

DecodeBitpacking(seg, rows, tsize) ==
    DecodeParts(rows, GroupRows, LAMBDA g, n : DecodeGroup(seg, g, n, tsize))

-----------------------------------------------------------------------------
(* RLE *)

\* Maximal runs, cut at MaxRun; junk stands for the bytes between the counts and
\* the end of the buffer that the values' padding makes part of the counts.
RleEntries(vals) ==
    LET starts == {i \in DOMAIN vals : i = 1 \/ vals[i] # vals[i - 1]}
        runOf(i) == Max({s \in starts : s <= i})
        heads == {i \in DOMAIN vals : (i - runOf(i)) % MaxRun = 0}
        order == SetToSortSeq(heads, <)
        next(k) == IF k = Len(order) THEN Len(vals) + 1 ELSE order[k + 1]
    IN  [k \in DOMAIN order |-> [value |-> vals[order[k]], count |-> next(k) - order[k]]]

PrefixAt(counts, i) == SumOver(1 .. (i + 1), LAMBDA k : counts[k])

\* kernel_build_rle: tile by tile, the number of entries whose counts add up to the
\* segment's rows; 0 when a tile without a match has a zero count or overshoots.
EntryCount(counts, rows) ==
    LET n == Len(counts)
        tile(t) == {i \in 0 .. (n - 1) : i \div RleTile = t}
        match(t) == {i \in tile(t) : PrefixAt(counts, i) = rows}
        bad(t) == \E i \in tile(t) : CodecAt(counts, i) = 0 \/ PrefixAt(counts, i) > rows
        tiles == 0 .. (CeilOf(n, RleTile) - 1)
        stops == {t \in tiles : match(t) # {} \/ bad(t)}
        first == Min(stops)
    IN  IF stops = {} THEN 0
        ELSE IF match(first) = {} THEN 0 ELSE Min(match(first)) + 1

\* find_entry: binary search for the first entry whose prefix sum exceeds the row.
FindEntry(prefix(_), low, high, row) ==
    LET probe[b \in (low .. high) \X (low .. high)] ==
            LET mid == b[1] + ((b[2] - b[1]) \div 2)
            IN  IF b[1] >= b[2] THEN b[1]
                ELSE IF prefix(mid) <= row THEN probe[<<mid + 1, b[2]>>]
                ELSE probe[<<b[1], mid>>]
    IN  Min({probe[<<low, high>>], high - 1})

\* decode_chunk_rle: the entries of the chunk are located once, then each row's.
DecodeChunk(entries, counts, n, first, rows) ==
    LET prefix(e) == PrefixAt(counts, e)
        lo == FindEntry(prefix, 0, n, first)
        hi == FindEntry(prefix, lo, n, first + rows - 1) + 1
    IN  [r \in 1 .. rows |-> CodecAt(entries, FindEntry(prefix, lo, hi, first + r - 1)).value]

DecodeRle(seg, rows) ==
    LET n == EntryCount(seg.counts, rows)
    IN  DecodeParts(rows, RunRows,
            LAMBDA c, k : IF n = 0 THEN [r \in 1 .. k |-> 0]
                          ELSE DecodeChunk(seg.entries, seg.counts, n, c * RunRows, k))

-----------------------------------------------------------------------------
(* ALP and ALPRD *)

\* ALP: a value is a decimal code, packed over a frame of reference; the values in
\* odd have no code and are exceptions.  The conversion of a code to a float is
\* external: a value stands for its code.
AlpVector(vals, odd, tsize) ==
    LET fit == {i \in DOMAIN vals : vals[i] \notin odd}
        low == IF fit = {} THEN 0 ELSE Min({vals[i] : i \in fit})
        code(i) == IF i \in fit THEN vals[i] - low ELSE 0
        bw == WidthOf(Max({code(i) : i \in DOMAIN vals}))
        exc == SetToSortSeq(DOMAIN vals \ fit, <)
    IN  [raw |-> FALSE, for |-> low, bw |-> bw,
         words |-> PackedWords([i \in DOMAIN vals |-> code(i)], bw),
         exc |-> [e \in DOMAIN exc |-> [pos |-> exc[e] - 1, value |-> vals[exc[e]]]],
         bytes |-> 13 + PackedBytes(Len(vals), bw) + Len(exc) * (tsize + 2)]

RawVector(vals, head, tsize) ==
    [raw |-> TRUE, values |-> vals, bytes |-> head + Len(vals) * tsize]

\* ALPRD: the right bits are packed, the left ones are indices into a dictionary
\* of the segment; left parts outside it are exceptions.
AlpRdVector(vals, dict, rbw) ==
    LET left(i) == vals[i] \div 2 ^ rbw
        right(i) == vals[i] % 2 ^ rbw
        lbw == WidthOf(Len(dict) - 1)
        idx(i) == IF left(i) \in ToSet(dict) THEN (CHOOSE d \in DOMAIN dict : dict[d] = left(i)) - 1
                  ELSE 0
        exc == SetToSortSeq({i \in DOMAIN vals : left(i) \notin ToSet(dict)}, <)
    IN  [raw |-> FALSE, rbw |-> rbw, lbw |-> lbw, dict |-> dict,
         left |-> PackedWords([i \in DOMAIN vals |-> idx(i)], lbw),
         right |-> PackedWords([i \in DOMAIN vals |-> right(i)], rbw),
         exc |-> [e \in DOMAIN exc |-> [pos |-> exc[e] - 1, value |-> left(exc[e])]],
         bytes |-> 2 + PackedBytes(Len(vals), lbw) + PackedBytes(Len(vals), rbw) + Len(exc) * 4]

AlpSegment(vecs, head) ==
    [vecs |-> vecs, head |-> head,
     off |-> [v \in DOMAIN vecs |-> head + SumOver(1 .. (v - 1), LAMBDA u : vecs[u].bytes)],
     end |-> head + SumOver(DOMAIN vecs, LAMBDA u : vecs[u].bytes) + 4 * Len(vecs)]

\* parse_alp_metadata and parse_alprd_metadata: what a vector claims fits the segment.
VectorAccepted(seg, v, trailer) ==
    LET off == CodecAt(seg.off, v)
    IN  /\ seg.end >= trailer
        /\ off >= seg.head /\ off < seg.end
        /\ off + CodecAt(seg.vecs, v).bytes <= seg.end

DecodeAlpVector(seg, v, rows, tsize) ==
    LET vec == CodecAt(seg.vecs, v)
        words == vec.words \o <<0, 0>>
        code(i) == (UnpackValue(words, i, vec.bw, 8) + vec.for) % Modulus(8)
        exc(i) == {e \in DOMAIN vec.exc : vec.exc[e].pos = i}
    IN  CASE ~VectorAccepted(seg, v, (v + 2) * 4) -> [r \in 1 .. rows |-> 0]
          [] vec.raw -> vec.values
          [] OTHER -> [r \in 1 .. rows |->
                IF exc(r - 1) = {} THEN code(r - 1) ELSE vec.exc[Min(exc(r - 1))].value]

DecodeAlp(seg, rows, tsize) ==
    DecodeParts(rows, AlpRows, LAMBDA v, n : DecodeAlpVector(seg, v, n, tsize))

\* The exceptions of ALPRD keep the right bits already written and replace the left.
Glued(old, left, rbw) == left * 2 ^ rbw + (old % 2 ^ rbw)

DecodeAlpRdVector(seg, v, rows, tsize) ==
    LET vec == CodecAt(seg.vecs, v)
        right(i) == UnpackValue(vec.right \o <<0, 0>>, i, vec.rbw, tsize)
        first(i) == IF vec.rbw >= tsize THEN right(i)
                    ELSE CodecAt(vec.dict, UnpackValue(vec.left \o <<0, 0>>, i, vec.lbw, 4))
                           * 2 ^ vec.rbw + right(i)
        exc(i) == {e \in DOMAIN vec.exc : vec.exc[e].pos = i}
    IN  CASE ~VectorAccepted(seg, v, 7 + (v + 1) * 4) -> [r \in 1 .. rows |-> 0]
          [] vec.raw -> vec.values
          [] OTHER -> [r \in 1 .. rows |->
                IF exc(r - 1) = {} THEN first(r - 1)
                ELSE Glued(first(r - 1), vec.exc[Min(exc(r - 1))].value, vec.rbw)]

DecodeAlpRd(seg, rows, tsize) ==
    DecodeParts(rows, AlpRows, LAMBDA v, n : DecodeAlpRdVector(seg, v, n, tsize))

-----------------------------------------------------------------------------
(* Storing a column *)

\* The parts of a segment of part rows each.
PartsOf(vals, part) ==
    [p \in 1 .. CeilOf(Len(vals), part) |->
        SubSeq(vals, (p - 1) * part + 1, (p - 1) * part + RowsOfPart(Len(vals), part, p - 1))]

\* The ways DuckDB may encode a segment's values.
Encodings(codec, vals, tsize) ==
    LET groups == PartsOf(vals, GroupRows)
        vecs == PartsOf(vals, AlpRows)
    IN  CASE codec = "UNCOMPRESSED" -> {[raw |-> vals]}
          [] codec = "CONSTANT" -> IF Cardinality(ToSet(vals)) = 1 THEN {[value |-> vals[1]]} ELSE {}
          [] codec = "BITPACKING" ->
               {BitpackingSegment(gs, tsize) :
                  gs \in {f \in [DOMAIN groups -> UNION {GroupEncodings(groups[g], tsize) : g \in DOMAIN groups}] :
                            \A g \in DOMAIN groups : f[g] \in GroupEncodings(groups[g], tsize)}}
          [] codec = "RLE" ->
               {[entries |-> RleEntries(vals),
                 counts |-> [k \in DOMAIN RleEntries(vals) |-> RleEntries(vals)[k].count] \o junk] :
                    junk \in {<<>>, <<0>>, <<2, 1>>}}
          [] codec = "ALP" ->
               {AlpSegment([v \in DOMAIN vecs |-> AlpVector(vecs[v], odd, tsize)], 4) :
                    odd \in {{}, OddCells}}
               \cup {AlpSegment([v \in DOMAIN vecs |-> RawVector(vecs[v], 1, tsize)], 4)}
          [] codec = "ALPRD" ->
               {AlpSegment([v \in DOMAIN vecs |-> AlpRdVector(vecs[v], <<1, 0>>, rbw)], 7 + 2 * 2) :
                    rbw \in {1, 2}}
               \cup {AlpSegment([v \in DOMAIN vecs |-> RawVector(vecs[v], 2, tsize)], 7 + 2 * 2)}

\* The kernel bounds two values of every group, which turns away a lone CONSTANT
\* group of an 8-byte type; DuckDB stores such a segment with the CONSTANT codec.
Stored(codec, enc, tsize) ==
    codec = "BITPACKING" => ~(tsize = 8 /\ Len(enc.groups) = 1 /\ enc.groups[1].mode = "CONSTANT")

\* A data segment of the column; values the type can hold.
StoreSegment(codec, vals, tsize) ==
    /\ dcol.data # <<>> => Len(dref.values) + Len(vals) <= MixedRows
    /\ \A i \in DOMAIN vals : vals[i] < Modulus(tsize)
    /\ dcol.tsize \in {0, tsize} /\ dcol.validity = <<>>
    /\ \E enc \in Encodings(codec, vals, tsize) :
         /\ Stored(codec, enc, tsize)
         /\ dcol' = [dcol EXCEPT !.tsize = tsize,
                       !.data = Append(@, [codec |-> codec, enc |-> enc,
                                           row_offset |-> Len(dref.values), row_count |-> Len(vals)])]
    /\ dref' = [dref EXCEPT !.values = @ \o vals]

\* A validity segment: bits of whole bytes, the last one padded with junk.  Its
\* decoding does not depend on the data's codec, explored here with one.
StoreValidity(bits, junk) ==
    /\ dcol.data # <<>> /\ \A s \in DOMAIN dcol.data : dcol.data[s].codec = "CONSTANT"
    /\ Len(dref.valid) + Len(bits) <= Len(dref.values)
    /\ dcol' = [dcol EXCEPT !.has_nulls = TRUE,
                  !.validity = Append(@, [bits |-> bits
                        \o [i \in 1 .. (CeilOf(Len(bits), MaskBits) * MaskBits - Len(bits)) |-> junk],
                      row_offset |-> Len(dref.valid), row_count |-> Len(bits)])]
    /\ dref' = [dref EXCEPT !.valid = @ \o bits]

-----------------------------------------------------------------------------
(* gpu_decode_table *)

decode_constant_data(seg) == [r \in 1 .. seg.row_count |-> seg.enc.value]
decode_uncompressed_data(seg) == seg.enc.raw

DecodeSegment(seg, tsize) ==
    CASE seg.codec = "UNCOMPRESSED" -> decode_uncompressed_data(seg)
      [] seg.codec = "CONSTANT"     -> decode_constant_data(seg)
      [] seg.codec = "BITPACKING"   -> DecodeBitpacking(seg.enc, seg.row_count, tsize)
      [] seg.codec = "RLE"          -> DecodeRle(seg.enc, seg.row_count)
      [] seg.codec = "ALP"          -> DecodeAlp(seg.enc, seg.row_count, tsize)
      [] seg.codec = "ALPRD"        -> DecodeAlpRd(seg.enc, seg.row_count, tsize)

TotalRows == Len(dref.values)

\* decode_column_data: every segment written at its row offset.
DecodedColumn ==
    [r \in 1 .. TotalRows |->
        LET s == CHOOSE x \in DOMAIN dcol.data :
                    /\ dcol.data[x].row_offset < r
                    /\ r <= dcol.data[x].row_offset + dcol.data[x].row_count
        IN  DecodeSegment(dcol.data[s], dcol.tsize)[r - dcol.data[s].row_offset]]

\* dispatch_validity_run refuses a segment that does not start on a byte.
ValidityRefused == \E s \in DOMAIN dcol.validity : dcol.validity[s].row_offset % MaskBits # 0

\* decode_column_validity: all valid, then each segment's bytes are copied over.
MaskBit_FirstSegment(r) ==
    IF ~dcol.has_nulls \/ r > Len(dcol.validity[1].bits) THEN TRUE ELSE dcol.validity[1].bits[r]

MaskBit(r) ==
    LET byte == (r - 1) \div MaskBits
        over == {s \in DOMAIN dcol.validity :
                    LET b == dcol.validity[s].row_offset \div MaskBits
                    IN  b <= byte /\ byte < b + CeilOf(dcol.validity[s].row_count, MaskBits)}
        s == Max(over)
    IN  IF ~dcol.has_nulls \/ over = {} THEN TRUE
        ELSE dcol.validity[s].bits[r - (dcol.validity[s].row_offset \div MaskBits) * MaskBits]

-----------------------------------------------------------------------------
DNext ==
    \/ \E c \in DecCodecs, n \in 1 .. MaxDecRows, t \in DecTypes :
         \E vals \in [1 .. n -> DecCells] : StoreSegment(c, vals, t)
    \/ \E n \in 1 .. MaxDecRows, junk \in BOOLEAN :
         \E bits \in [1 .. n -> BOOLEAN] : StoreValidity(bits, junk)

DSpec == DInit /\ [][DNext]_dvars

LastSegment == dcol.data[Len(dcol.data)]

\* The segment stored last decodes to the values it was made from.
Exact(codecs) ==
    (dcol.data # <<>> /\ LastSegment.codec \in codecs) =>
        DecodeSegment(LastSegment, dcol.tsize) =
            SubSeq(dref.values, LastSegment.row_offset + 1, TotalRows)

\* Bit-packed groups of every mode, for 4- and 8-byte types, decode to the stored
\* values: values that cross one or two words, deltas summed by threads, warps and
\* the block, a short last group, and bounds checks that turn no stored group away
\* (kernel_decode_bitpacking).
BitpackingExact == Exact({"BITPACKING"})

\* Run-length encoded segments decode to the stored values whatever follows the
\* counts in the buffer, for chunks that begin and end inside a run
\* (kernel_build_rle, kernel_expand_rle).
RleExact == Exact({"RLE"})

\* ALP and ALPRD vectors, compressed or not, with their exceptions, decode to the
\* stored values (kernel_decode_alp, kernel_decode_alprd).
AlpExact == Exact({"ALP", "ALPRD"})

\* A column of several segments of any codecs decodes to the stored rows in order,
\* and unless the validity is refused its mask has each row's bit: the padding of a
\* segment's last byte never reaches a row (gpu_decode_table).
ColumnExact ==
    /\ DecodedColumn = dref.values
    /\ (Len(dref.valid) = TotalRows /\ ~ValidityRefused) =>
         \A r \in 1 .. TotalRows : MaskBit(r) = (dcol.has_nulls => dref.valid[r])

-----------------------------------------------------------------------------
(* Strings: UNCOMPRESSED, DICTIONARY, FSST and DICT_FSST in its three modes.  *)
(* A column is decoded in two passes over all its segments: a length for      *)
(* every row, whose running sum gives every row its place, then the           *)
(* characters.  A behaviour stores a column segment by segment; the           *)
(* invariants compare the decoded column with the stored one.                 *)
(*                                                                            *)
(* Characters and code bytes are small integers; Esc plays 0xFF, which no     *)
(* UTF-8 text contains.  Bit-packed arrays are those above.                   *)

CONSTANTS
    Esc,        \* FSST_ESC, above every character and code
    Threads,    \* BLOCK_DIM, of the prefix sums
    WarpBytes,  \* WARP_THREADS
    MaxSymbol,  \* bytes of the longest FSST symbol
    ScratchBytes, \* FSST_SCRATCH_BYTES_PER_WARP
    ChunkRows,  \* rows of a chunk of expand_chunks and prepare_fsst
    HostLimit,  \* HOST_UPPER_BOUND_LIMIT
    CharLimit,  \* INT32_MAX_SIZE
    SymbolTables, \* the FSST symbol tables explored, sequences of strings
    StrCodecs,  \* the codecs explored
    StrCells,   \* the strings explored
    MaxStrRows, \* rows of the column
    MaxStrSegs  \* segments of the column

VARIABLES
    scol, \* the encoded segments and has_nulls
    sref  \* the stored rows: <<>> for NULL, <<string>> otherwise

svars == <<scol, sref>>

SInit == scol = [segs |-> <<>>, has_nulls |-> FALSE] /\ sref = <<>>

TextOf(row) == IF row = <<>> THEN <<>> ELSE row[1]
Texts(rows) == [i \in DOMAIN rows |-> TextOf(rows[i])]
LongestOf(texts) == Max({0} \cup {Len(texts[i]) : i \in DOMAIN texts})
Starts(lens) == [i \in 1 .. (Len(lens) + 1) |-> SumOver(1 .. (i - 1), LAMBDA k : lens[k])]

-----------------------------------------------------------------------------
(* What DuckDB writes *)

\* Texts laid out backwards from dict_end: the first one is next to it.
Backward(texts) == FlattenSeq(Reverse(texts))

\* The codes of a text: the longest symbol that fits, an escaped byte where none does.
Coded(text, table) ==
    LET fits(i) == {s \in DOMAIN table : /\ i + Len(table[s]) <= Len(text) + 1
                                         /\ SubSeq(text, i, i + Len(table[s]) - 1) = table[s]}
        best(i) == CHOOSE s \in fits(i) : \A t \in fits(i) : Len(table[t]) <= Len(table[s])
        from[i \in 1 .. (Len(text) + 1)] ==
            IF i > Len(text) THEN <<>>
            ELSE IF fits(i) = {} THEN <<Esc, text[i]>> \o from[i + 1]
            ELSE <<best(i) - 1>> \o from[i + Len(table[best(i)])]
    IN  from[1]

\* The serialized table: a histogram of the lengths and the symbols' bytes.
Blob(table) ==
    [histo |-> [l \in 1 .. MaxSymbol |-> Cardinality({s \in DOMAIN table : Len(table[s]) = l})],
     bytes |-> FlattenSeq(table)]

Packed(vals) ==
    LET w == WidthOf(Max({0} \cup ToSet(vals)))
    IN  [width |-> w, words |-> PackedWords(vals, w) \o <<0>>]

\* The distinct texts of the non-null rows in order of appearance, after the
\* reserved entry 0; and every row's entry.
DictOf(rows) ==
    LET news == {i \in DOMAIN rows : rows[i] # <<>> /\ \A k \in 1 .. (i - 1) : rows[k] # rows[i]}
        order == SetToSortSeq(news, <)
        entry(r) == IF r = <<>> THEN 0 ELSE CHOOSE d \in DOMAIN order : rows[order[d]] = r
    IN  [entries |-> [d \in DOMAIN order |-> TextOf(rows[order[d]])],
         idx |-> [i \in DOMAIN rows |-> entry(rows[i])]]

AlignUp8(n) == ((n + 7) \div 8) * 8

\* The regions of a DICT_FSST segment and the offsets they are written at.
DictFsstSegment(mode, entries, idx, table) ==
    LET lens == Packed([k \in 1 .. (Len(entries) + 1) |-> IF k = 1 THEN 0 ELSE Len(entries[k - 1])])
        refs == Packed(idx)
        dict == FlattenSeq(entries)
        symtab == IF mode = 0 THEN 0 ELSE 9 + Len(FlattenSeq(table))
        atSyms == AlignUp8(16 + Len(dict))
        atLens == AlignUp8(atSyms + symtab)
        atIdx == AlignUp8(atLens + CeilOf((Len(entries) + 1) * lens.width, 8))
    IN  [mode |-> mode, dict_count |-> Len(entries) + 1, dict_size |-> Len(dict),
         symbol_table_size |-> symtab, lens_width |-> lens.width, idx_width |-> refs.width,
         at |-> [dict |-> (16 :> dict), symtab |-> (atSyms :> Blob(table)),
                 lens |-> (atLens :> lens.words), idx |-> (atIdx :> refs.words)],
         size |-> atIdx + 4 * Len(refs.words)]

\* The encodings of rows.  FSST_ONLY has neither NULLs nor equal rows.
StrEncodings(codec, rows) ==
    LET texts == Texts(rows)
        d == DictOf(rows)
        lens(ts) == [i \in DOMAIN ts |-> Len(ts[i])]
        coded(ts, table) == [i \in DOMAIN ts |-> Coded(ts[i], table)]
    IN  CASE codec = "UNCOMPRESSED" ->
               {[offsets |-> Tail(Starts(lens(texts))), chars |-> Backward(texts)]}
          [] codec = "DICTIONARY" ->
               {[index |-> Starts(lens(d.entries)), chars |-> Backward(d.entries), sel |-> Packed(d.idx)]}
          [] codec = "FSST" ->
               {[lens |-> Packed(lens(coded(texts, t))), chars |-> Backward(coded(texts, t)),
                 symtab |-> Blob(t)] : t \in SymbolTables}
          [] codec = "DICT_FSST" ->
               {DictFsstSegment(0, d.entries, d.idx, <<>>)}
               \cup {DictFsstSegment(1, coded(d.entries, t), d.idx, t) : t \in SymbolTables}
               \cup (IF Len(d.entries) < Len(rows) THEN {}
                     ELSE {DictFsstSegment(2, coded(texts, t), <<>>, t) : t \in SymbolTables})

\* A segment joins the column.  DICT_FSST keeps NULLs in its indices; the other
\* codecs have a validity segment when there are any.
StoreStrings(codec, rows) ==
    /\ Len(scol.segs) < MaxStrSegs /\ Len(sref) + Len(rows) <= MaxStrRows
    /\ \E enc \in StrEncodings(codec, rows) :
         scol' = [segs |-> Append(scol.segs,
                    [codec |-> codec, enc |-> enc, row_offset |-> Len(sref), row_count |-> Len(rows),
                     max_string_length |-> LongestOf(Texts(rows)),
                     valid |-> IF codec = "DICT_FSST" THEN <<>>
                               ELSE [i \in DOMAIN rows |-> rows[i] # <<>>]]),
                  has_nulls |-> scol.has_nulls \/ (codec # "DICT_FSST" /\ \E i \in DOMAIN rows : rows[i] = <<>>)]
    /\ sref' = sref \o rows

-----------------------------------------------------------------------------
(* FSST *)

\* device_fsst_import: codes are given by length, 2 up to the longest and then 1;
\* the codes left over decode to filler.
FsstImport(blob) ==
    LET order == [l \in 1 .. MaxSymbol |-> (l % MaxSymbol) + 1]
        lens == FlattenSeq([l \in 1 .. MaxSymbol |-> [k \in 1 .. blob.histo[order[l]] |-> order[l]]])
        pos == Starts(lens)
    IN  [c \in 0 .. (Esc - 1) |->
            IF c < Len(lens) THEN SubSeq(blob.bytes, pos[c + 1] + 1, pos[c + 2])
            ELSE [k \in 1 .. MaxSymbol |-> Esc]]

\* The inclusive sums: each thread over its share, then plus the threads before it.
BlockScan(vals) ==
    LET per == CeilOf(Len(vals), Threads)
        share(t) == ((t * per) + 1) .. Min({(t + 1) * per, Len(vals)})
        sum(S) == SumOver(S, LAMBDA i : vals[i])
    IN  [i \in DOMAIN vals |->
            LET t == (i - 1) \div per
            IN  sum({k \in share(t) : k <= i}) + SumOver(0 .. (t - 1), LAMBDA u : sum(share(u)))]

\* One thread walks the codes; an escape at the very end stands for nothing.
ScalarDecode(codes, dec) ==
    LET from[p \in 1 .. (Len(codes) + 2)] ==
            IF p > Len(codes) THEN <<>>
            ELSE IF codes[p] < Esc THEN dec[codes[p]] \o from[p + 1]
            ELSE IF p < Len(codes) THEN <<codes[p + 1]>> \o from[p + 2] ELSE <<>>
    IN  from[1]

\* A warp reads WarpBytes codes at a time, one per lane: whether the lane before,
\* or the last one of the previous round, holds an escape.
PrevEsc(codes, p) == p > 1 /\ codes[p - 1] = Esc

LaneText(codes, dec, p) ==
    IF PrevEsc(codes, p) THEN <<codes[p]>> ELSE IF codes[p] = Esc THEN <<>> ELSE dec[codes[p]]

\* Whether the scratch must be flushed before the next round may write to it.
MustDrain(used) == used + WarpBytes * MaxSymbol > ScratchBytes

\* warp_decode_fsst: the lanes' texts go to the scratch, which is drained to dst
\* when another round might not fit, and at the end.  peak is its fullest.
WarpDecode(codes, dec) ==
    LET rounds == CeilOf(Len(codes), WarpBytes)
        text(r) == FlattenSeq([l \in 1 .. (Min({r * WarpBytes, Len(codes)}) - (r - 1) * WarpBytes) |->
                                 LaneText(codes, dec, (r - 1) * WarpBytes + l)])
        after[r \in 0 .. rounds] ==
            IF r = 0 THEN [dst |-> <<>>, scratch |-> <<>>, peak |-> 0]
            ELSE LET s == after[r - 1]
                     filled == s.scratch \o text(r)
                     top == Max({s.peak, Len(filled)})
                 IN  IF r < rounds /\ MustDrain(Len(filled))
                     THEN [dst |-> s.dst \o filled, scratch |-> <<>>, peak |-> top]
                     ELSE [dst |-> s.dst, scratch |-> filled, peak |-> top]
    IN  [text |-> after[rounds].dst \o after[rounds].scratch, peak |-> after[rounds].peak]

-----------------------------------------------------------------------------
(* The column's segments *)

OfCodec(codec) == {s \in DOMAIN scol.segs : scol.segs[s].codec = codec}
Seg(s) == scol.segs[s]
Unpacked(p, n) == [i \in 1 .. n |-> UnpackValue(p.words, i - 1, p.width, 4)]

\* The texts before dict_end, cut at two cumulative offsets.
CutBack(chars, prev, cur) == SubSeq(chars, Len(chars) - cur + 1, Len(chars) - prev)

\* prepare_fsst: the compressed offsets of all FSST segments share an array.
FsstRowStart(s) == SumOver({t \in OfCodec("FSST") : t < s}, LAMBDA t : Seg(t).row_count)
CompOffsets ==
    LET order == SetToSortSeq(OfCodec("FSST"), <)
    IN  FlattenSeq([k \in DOMAIN order |->
            BlockScan(Unpacked(Seg(order[k]).enc.lens, Seg(order[k]).row_count))])

\* A row of a chunk: the offset before it is the previous entry of the array, except
\* at the head of the segment's first chunk.
SpanAt(offs, base, chunk, k) ==
    <<IF k > 0 THEN offs[base + k] ELSE IF chunk = 0 THEN 0 ELSE offs[base], offs[base + k + 1]>>
FsstSpan(s, i) ==
    SpanAt(CompOffsets, FsstRowStart(s) + (i \div ChunkRows) * ChunkRows, i \div ChunkRows, i % ChunkRows)

SpanCodes(chars, span) == CutBack(chars, span[1], span[2])
FsstCodes(s, i) == SpanCodes(Seg(s).enc.chars, FsstSpan(s, i))

\* Long codes are measured by a warp, short ones by a thread; the chunk's mean decides.
MeanIsLong(first, last, n) == (last - first) \div n >= 2 * WarpBytes
LongChunk(s, chunk, n) ==
    MeanIsLong(FsstSpan(s, chunk * ChunkRows)[1], FsstSpan(s, chunk * ChunkRows + n - 1)[2], n)
CodesLength(long, codes, dec) ==
    IF long THEN SumOver(DOMAIN codes, LAMBDA p : Len(LaneText(codes, dec, p)))
    ELSE Len(ScalarDecode(codes, dec))
FsstLength(s, i) ==
    CodesLength(LongChunk(s, i \div ChunkRows, RowsOfPart(Seg(s).row_count, ChunkRows, i \div ChunkRows)),
                FsstCodes(s, i), FsstImport(Seg(s).enc.symtab))

\* prepare_dict_fsst: the regions' offsets from the header.
Regions(e) ==
    LET syms == AlignUp8(16 + e.dict_size)
        lens == IF e.mode = 0 THEN 16 + AlignUp8(e.dict_size) ELSE AlignUp8(syms + e.symbol_table_size)
    IN  [dict |-> e.at.dict[16], lens |-> e.at.lens[lens],
         symtab |-> IF e.mode = 0 THEN Blob(<<>>) ELSE e.at.symtab[syms],
         idx |-> IF e.mode = 2 THEN <<>>
                 ELSE e.at.idx[AlignUp8(lens + CeilOf(e.dict_count * e.lens_width, 8))]]

\* kernel_build_dict_fsst_data: where an entry begins, as stored and once decoded.
ByteOffsets(e) ==
    BlockScan(<<0>> \o Unpacked([width |-> e.lens_width, words |-> Regions(e).lens], e.dict_count))

CutAt(dict, off, k) == SubSeq(dict, off[k + 1] + 1, off[k + 2])
EntryCodes(e, k) == CutAt(Regions(e).dict, ByteOffsets(e), k)

DecodedOffsets(e) ==
    IF e.mode = 0 \/ e.dict_count <= 1 THEN ByteOffsets(e)
    ELSE BlockScan(<<0, 0>> \o [k \in 1 .. (e.dict_count - 1) |->
                        Len(ScalarDecode(EntryCodes(e, k), FsstImport(Regions(e).symtab)))])

DictEntry(s, i) ==
    LET e == Seg(s).enc
    IN  IF e.mode = 2 THEN i + 1
        ELSE UnpackValue(Regions(e).idx, i, e.idx_width, 4)

\* The entries of every segment in mode 1, decoded once into a shared buffer.
Mode1 == {s \in OfCodec("DICT_FSST") : Seg(s).enc.mode = 1}
PredecodeOffset(s) ==
    SumOver({t \in Mode1 : t < s}, LAMBDA t : Last(DecodedOffsets(Seg(t).enc)))
PredecodeBuffer ==
    LET order == SetToSortSeq(Mode1, <)
        texts(e) == FlattenSeq([k \in 1 .. (e.dict_count - 1) |->
                        ScalarDecode(EntryCodes(e, k), FsstImport(Regions(e).symtab))])
    IN  FlattenSeq([k \in DOMAIN order |-> texts(Seg(order[k]).enc)])

-----------------------------------------------------------------------------
(* gpu_decode_strings_column *)

\* Pass 1: the length of row i of segment s.
Selected(e, i) == UnpackValue(e.sel.words, i, e.sel.width, 4)
SelLength(e, sel) == IF sel # 0 /\ sel < Len(e.index) THEN e.index[sel + 1] - e.index[sel] ELSE 0
EntryLength(e, k, off) == IF k # 0 /\ k < e.dict_count THEN off[k + 2] - off[k + 1] ELSE 0
LengthOf(s, i) ==
    LET e == Seg(s).enc
    IN  CASE Seg(s).codec = "UNCOMPRESSED" ->
               e.offsets[i + 1] - (IF i > 0 THEN e.offsets[i] ELSE 0)
          [] Seg(s).codec = "DICTIONARY" -> SelLength(e, Selected(e, i))
          [] Seg(s).codec = "FSST" -> FsstLength(s, i)
          [] Seg(s).codec = "DICT_FSST" -> EntryLength(e, DictEntry(s, i), DecodedOffsets(e))

\* Pass 2: the characters gathered for the row.
SelText(e, sel) == IF sel = 0 THEN <<>> ELSE CutBack(e.chars, e.index[sel], e.index[sel + 1])
Predecoded(at, off, k) == SubSeq(PredecodeBuffer, at + off[k + 1] + 1, at + off[k + 2])
EntryText(s, e, k) ==
    IF k = 0 THEN <<>>
    ELSE IF e.mode = 0 THEN EntryCodes(e, k)
    ELSE IF e.mode = 1 THEN Predecoded(PredecodeOffset(s), DecodedOffsets(e), k)
    ELSE WarpDecode(EntryCodes(e, k), FsstImport(Regions(e).symtab)).text
GatherOf(s, i) ==
    LET e == Seg(s).enc
    IN  CASE Seg(s).codec = "UNCOMPRESSED" ->
               CutBack(e.chars, IF i > 0 THEN e.offsets[i] ELSE 0, e.offsets[i + 1])
          [] Seg(s).codec = "DICTIONARY" -> SelText(e, Selected(e, i))
          [] Seg(s).codec = "FSST" -> WarpDecode(FsstCodes(s, i), FsstImport(e.symtab)).text
          [] Seg(s).codec = "DICT_FSST" -> EntryText(s, e, DictEntry(s, i))

SegOfRow(r) ==
    CHOOSE s \in DOMAIN scol.segs : Seg(s).row_offset <= r /\ r < Seg(s).row_offset + Seg(s).row_count

Lengths == [r \in 1 .. Len(sref) |->
    LET s == SegOfRow(r - 1) IN LengthOf(s, r - 1 - Seg(s).row_offset)]
Gathered(r) == LET s == SegOfRow(r) IN GatherOf(s, r - Seg(s).row_offset)

\* The characters are allocated from the segments' statistics, or from the exact
\* total when a statistic is zero or the bound is large.
NeedsExactTotal == \E s \in DOMAIN scol.segs : Seg(s).max_string_length = 0

CharsUpper == SumOver(DOMAIN scol.segs, LAMBDA s : Seg(s).row_count * Seg(s).max_string_length)

ReadsTotal == NeedsExactTotal \/ CharsUpper > HostLimit
TotalChars(lens) == SumOver(DOMAIN lens, LAMBDA r : lens[r])
AllocChars(total) == IF ReadsTotal THEN total ELSE CharsUpper
StringsThrow(total) ==
    \/ ~NeedsExactTotal /\ CharsUpper > CharLimit
    \/ ReadsTotal /\ total > CharLimit

\* NULLs in the indices need a mask of their own; a segment has room for them when
\* its dictionary holds more than the reserved entry.
InlineNull(e) == e.mode # 2 /\ e.dict_count > 1 /\ ByteOffsets(e)[2] = 0

InlineNulls == \E s \in OfCodec("DICT_FSST") : InlineNull(Seg(s).enc)

\* The mask: all valid, the validity segments copied over, the null entries cleared.
RowIsValid(r) ==
    LET s == SegOfRow(r)
        i == r - Seg(s).row_offset
        overlaid == Seg(s).valid = <<>> \/ CodecAt(Seg(s).valid, i)
        marked == /\ InlineNulls /\ Seg(s).codec = "DICT_FSST"
                  /\ Seg(s).enc.mode # 2 /\ DictEntry(s, i) = 0
    IN  (scol.has_nulls \/ InlineNulls) => (overlaid /\ ~marked)

-----------------------------------------------------------------------------
SNext ==
    \E c \in StrCodecs, n \in 1 .. MaxStrRows :
        \E rows \in [1 .. n -> StrCells] : StoreStrings(c, rows)

SSpec == SInit /\ [][SNext /\ UNCHANGED dvars]_<<svars, dvars>>

\* What the two passes make of every row, given the lengths of the first.
StringsExactFor(lens) ==
    ~StringsThrow(TotalChars(lens)) =>
        \A r \in 1 .. Len(sref) :
            /\ Gathered(r - 1) = TextOf(sref[r])
            /\ lens[r] = Len(TextOf(sref[r]))

\* Every row decodes to its stored text, and the length computed for it in the first
\* pass is the number of characters the second pass writes: rows of any codecs side
\* by side, chunks that start inside a segment, escapes at the edge of a warp's round
\* (gpu_decode_strings_column and the kernels it launches).
StringsExact == StringsExactFor(Lengths)

\* The mask tells the NULL rows from the others, for columns that mix inline NULLs
\* and validity segments; a DICT_FSST segment of nothing but NULLs needs another one
\* with a dictionary beside it (kernel_dict_fsst_mark_nulls, overlay_validity_run).
NullsExact ==
    (\/ \A s \in OfCodec("DICT_FSST") : Seg(s).enc.dict_count > 1
     \/ \E s \in OfCodec("DICT_FSST") : Seg(s).enc.dict_count > 1 /\ Seg(s).enc.mode # 2) =>
        \A r \in 1 .. Len(sref) : RowIsValid(r - 1) = (sref[r] # <<>>)

\* A NULL string of a DICT_FSST segment is NULL in the decoded column
\* (gpu_decode_strings.cu:1222).
InlineNullsMarked ==
    \A r \in 1 .. Len(sref) : sref[r] = <<>> => ~RowIsValid(r - 1)

CharsFitFor(total) == ~StringsThrow(total) => total <= AllocChars(total)

\* The characters gathered never exceed the buffer allocated before they are counted
\* (the sizing of d_chars).
CharsFit == CharsFitFor(TotalChars(Lengths))

\* A warp's scratch never holds more than it has room for (warp_decode_fsst).
ScratchFits ==
    \A s \in OfCodec("FSST") : \A i \in 0 .. (Seg(s).row_count - 1) :
        WarpDecode(FsstCodes(s, i), FsstImport(Seg(s).enc.symtab)).peak <= ScratchBytes
================================================================================
