----------------------------- MODULE IcebergFiles -----------------------------
(***************************************************************************)
(* Reading Iceberg's own files: the Avro reader of manifest lists and      *)
(* manifests (op/scan/iceberg_avro_reader.cpp) and the reader of deletion  *)
(* vectors, roaring bitmaps in Puffin files (op/scan/puffin_reader.cpp).   *)
(*                                                                         *)
(* A file is written field by field the way its format prescribes and then *)
(* read back.  A byte is a number; an Avro varint has VarintBase for 2^7.  *)
(* The schema's JSON is a tree: a string, a list, or an object, which is a *)
(* sequence of <<key, value>>.  A reading position is a number, 0 once the *)
(* reader has thrown.                                                      *)
(***************************************************************************)
EXTENDS Integers, Sequences, SequencesExt, FiniteSetsExt

CONSTANTS VarintBase,      \* 2^7: payloads of one varint byte
          Extras,          \* fields the reader does not want: [name, json, values], as a sequence
          MaxExtras,       \* how many of them a record has
          ArrayMax,        \* 4096: a larger container is a bitmap
          OffsetThreshold, \* 4: from here a bitmap with runs has an offset header
          BitmapWord,        \* 64
          Universe,        \* 2^16: low values of a container
          MaxPosition      \* positions of a deletion vector

ASSUME FilesAssumption ==
  /\ VarintBase \in Nat /\ VarintBase > 1 /\ MaxExtras \in Nat
  /\ {ArrayMax, OffsetThreshold, BitmapWord, Universe, MaxPosition} \subseteq Nat
  /\ Universe % BitmapWord = 0

VARIABLES avro,            \* the manifest: [kind, fields, outer, blocks, negative, codec]
          puffin,          \* the deletion vector: [positions, runs, offset], <<>> before it is written
          entries          \* <<>> before a file was read, <<[entries, thrown]>> after
ifvars == <<avro, puffin, entries>>

NoManifest == [kind |-> "none", fields |-> <<>>, outer |-> <<>>, blocks |-> 0, negative |-> FALSE,
               codec |-> <<>>]
IfInit == avro = NoManifest /\ puffin = <<>> /\ entries = <<>>

Str(s) == [json |-> "string", text |-> s]
List(items) == [json |-> "list", items |-> items]
Obj(pairs) == [json |-> "object", pairs |-> pairs]

-----------------------------------------------------------------------------
(* The Avro encoding, as its specification gives it.                       *)

RECURSIVE VarBytes(_)
VarBytes(n) == IF n < VarintBase THEN <<n>>
               ELSE <<VarintBase + (n % VarintBase)>> \o VarBytes(n \div VarintBase)
Vlong(v) == VarBytes(IF v >= 0 THEN 2 * v ELSE -2 * v - 1)

\* The first value of a key of an object.
At(obj, key) == obj.pairs[SelectInSeq(obj.pairs, LAMBDA kv : kv[1] = key)][2]
TypeName(obj) == At(obj, "type").text

\* A value of an array or map is a sequence of blocks [sized, items].
RECURSIVE EncodeAvro(_, _)
EncodeAvro(t, v) ==
  LET name == IF t.json = "string" THEN t.text ELSE IF t.json = "object" THEN TypeName(t) ELSE "union"
      Block(b, item(_)) ==
        LET bytes == FlattenSeq([i \in DOMAIN b.items |-> item(b.items[i])])
        IN IF b.sized THEN Vlong(-Len(b.items)) \o Vlong(Len(bytes)) \o bytes
           ELSE Vlong(Len(b.items)) \o bytes
      Blocks(item(_)) == FlattenSeq([i \in DOMAIN v |-> Block(v[i], item)]) \o Vlong(0)
      Text(s) == Vlong(Len(s)) \o s
  IN CASE name = "null" -> <<>>
       [] name = "boolean" -> <<v>>
       [] name \in {"int", "long", "enum"} -> Vlong(v)
       [] name \in {"float", "double", "fixed"} -> v
       [] name \in {"bytes", "string"} -> Text(v)
       [] name = "union" -> Vlong(v[1] - 1) \o EncodeAvro(t.items[v[1]], v[2])
       [] name = "record" ->
            LET fields == At(t, "fields").items
            IN FlattenSeq([i \in DOMAIN fields |-> EncodeAvro(At(fields[i], "type"), v[i])])
       [] name = "array" -> Blocks(LAMBDA x : EncodeAvro(At(t, "items"), x))
       [] name = "map" -> Blocks(LAMBDA x : Text(x[1]) \o EncodeAvro(At(t, "values"), x[2]))

\* Compressing changes the length; inflate_deflate undoes it.
Deflate(bytes) == <<1>> \o Reverse(bytes) \o <<1>>
inflate_deflate(bytes) == Reverse(SubSeq(bytes, 2, Len(bytes) - 1))

-----------------------------------------------------------------------------
(* Parsing the schema.                                                     *)

AvroType(kind) == [kind |-> kind, union_branches |-> <<>>, record_fields |-> <<>>]
Primitives == {"null", "boolean", "int", "long", "float", "double", "bytes", "string"}

\* The kind of a type given by name: a name the parser does not know is a reference to a record.
NamedKind(name) == IF name \in Primitives THEN name ELSE "record"
\* The kind of an object that named no fields, items or values.
BareKind(name) == IF name \in {"record", "array", "map"} THEN name ELSE "null"

RECURSIVE parse_type(_)
parse_field(f) ==
  [name |-> At(f, "name").text, type |-> parse_type(At(f, "type"))]
ParseKey(acc, key, value) ==
  CASE key = "type" -> [acc EXCEPT !.name = value.text]
    [] key = "fields" /\ acc.name = "record" ->
         [acc EXCEPT !.t.kind = "record",
                     !.t.record_fields = @ \o [i \in DOMAIN value.items |-> parse_field(value.items[i])]]
    [] key \in {"items", "values"} ->
         [acc EXCEPT !.t.kind = IF key = "items" THEN "array" ELSE "map",
                     !.t.union_branches = Append(@, parse_type(value))]
    [] OTHER -> acc
parse_type(j) ==
  IF j.json = "string" THEN AvroType(NamedKind(j.text))
  ELSE IF j.json = "list"
  THEN [AvroType("union") EXCEPT !.union_branches = [i \in DOMAIN j.items |-> parse_type(j.items[i])]]
  ELSE LET done == FoldLeft(LAMBDA acc, kv : ParseKey(acc, kv[1], kv[2]),
                            [name |-> "", t |-> AvroType("null")], j.pairs)
       IN [done.t EXCEPT !.kind = IF @ = "null" THEN BareKind(done.name) ELSE @]

-----------------------------------------------------------------------------
(* Reading values: d is the data, p a position in 1 .. end, 0 a throw.     *)

Thrown == [v |-> 0, p |-> 0]

RECURSIVE VarTail(_, _, _, _)
VarTail(d, p, end, scale) ==
  IF p >= end THEN Thrown
  ELSE IF d[p] < VarintBase THEN [v |-> d[p] * scale, p |-> p + 1]
  ELSE LET rest == VarTail(d, p + 1, end, scale * VarintBase)
       IN [rest EXCEPT !.v = @ + (d[p] - VarintBase) * scale]

unzigzag(n) == IF n % 2 = 0 THEN n \div 2 ELSE -((n + 1) \div 2)
Unzigzagged(raw) == IF raw.p = 0 THEN Thrown ELSE [raw EXCEPT !.v = unzigzag(@)]
read_vlong(d, p, end) == IF p = 0 THEN Thrown ELSE Unzigzagged(VarTail(d, p, end, 1))

Advance(p, n, end) == IF p = 0 \/ n < 0 \/ end - p < n THEN 0 ELSE p + n

Slice(d, p, q) == IF q = 0 THEN Thrown ELSE [v |-> SubSeq(d, p, q - 1), p |-> q]
Prefixed(d, len, end) == Slice(d, len.p, Advance(len.p, len.v, end))
read_bytes_val(d, p, end) == Prefixed(d, read_vlong(d, p, end), end)
skip_bytes_val(d, p, end) == read_bytes_val(d, p, end).p

RECURSIVE skip_avro_value(_, _, _, _), SkipAll(_, _, _, _), SkipBlocks(_, _, _, _),
          SkipCounted(_, _, _, _), SkipItems(_, _, _, _), SkipBranch(_, _, _, _)
SkipAll(types, d, p, end) == FoldLeft(LAMBDA q, t : IF q = 0 THEN 0 ELSE skip_avro_value(t, d, q, end), p, types)

\* The blocks of an array or a map: a negative count says how many bytes to skip.
SizedBlock(count) == count < 0
Over(bytes, end) == Advance(bytes.p, bytes.v, end)
SkipItems(item, d, count, end) ==
  FoldLeft(LAMBDA q, i : IF q = 0 THEN 0 ELSE SkipAll(item, d, q, end), count.p, [i \in 1 .. count.v |-> i])
SkipCounted(item, d, count, end) ==
  IF count.p = 0 \/ count.v = 0 THEN count.p
  ELSE SkipBlocks(item, d, IF SizedBlock(count.v) THEN Over(read_vlong(d, count.p, end), end)
                           ELSE SkipItems(item, d, count, end), end)
SkipBlocks(item, d, p, end) == SkipCounted(item, d, read_vlong(d, p, end), end)

SkipBranch(t, d, index, end) ==
  IF index.p = 0 \/ index.v + 1 \notin DOMAIN t.union_branches THEN 0
  ELSE skip_avro_value(t.union_branches[index.v + 1], d, index.p, end)
skip_avro_value(t, d, p, end) ==
  CASE p = 0 \/ t.kind = "null" -> p
    [] t.kind = "boolean" -> Advance(p, 1, end)
    [] t.kind \in {"int", "long"} -> read_vlong(d, p, end).p
    [] t.kind = "float" -> Advance(p, 4, end)
    [] t.kind = "double" -> Advance(p, 8, end)
    [] t.kind \in {"bytes", "string"} -> skip_bytes_val(d, p, end)
    [] t.kind = "union" -> SkipBranch(t, d, read_vlong(d, p, end), end)
    [] t.kind = "record" ->
         SkipAll([i \in DOMAIN t.record_fields |-> t.record_fields[i].type], d, p, end)
    [] t.kind = "array" -> SkipBlocks(<<t.union_branches[1]>>, d, p, end)
    [] t.kind = "map" -> SkipBlocks(<<AvroType("string"), t.union_branches[1]>>, d, p, end)

\* An optional field: the value itself, or a union with null (absent is what the field starts as).
ReadBranch(t, absent, read(_), branch) ==
  IF branch.p = 0 \/ branch.v + 1 \notin DOMAIN t.union_branches THEN Thrown
  ELSE IF t.union_branches[branch.v + 1].kind = "null" THEN [v |-> absent, p |-> branch.p]
  ELSE read(branch.p)
ReadOptional(t, kind, absent, read(_), d, p, end) ==
  IF t.kind = kind THEN read(p)
  ELSE IF t.kind # "union" THEN [v |-> absent, p |-> skip_avro_value(t, d, p, end)]
  ELSE ReadBranch(t, absent, read, read_vlong(d, p, end))
read_optional_string(t, d, p, end) ==
  ReadOptional(t, "string", <<>>, LAMBDA q : read_bytes_val(d, q, end), d, p, end)
read_optional_long(t, d, p, end) ==
  ReadOptional(t, "long", -1, LAMBDA q : read_vlong(d, q, end), d, p, end)

-----------------------------------------------------------------------------
(* Container files.  A file is [meta, body]; a body is a sequence of       *)
(* blocks <count, size, data, sync marker>.                                *)

SyncMarker == 77
MaxBlocks == 2
Codec(meta) == IF meta.codec = <<>> THEN "null" ELSE meta.codec[1]

\* Two rows, in one block or two; a writer may give the count negated.
EncodeFile(m, schema, row(_)) ==
  LET Data(rs) == FlattenSeq([i \in DOMAIN rs |-> EncodeAvro(schema, row(rs[i]))])
      Block(rs) ==
        LET bytes == IF Codec(m) = "deflate" THEN Deflate(Data(rs)) ELSE Data(rs)
        IN Vlong(IF m.negative THEN -Len(rs) ELSE Len(rs)) \o Vlong(Len(bytes)) \o bytes \o <<SyncMarker>>
  IN [codec |-> m.codec, schema |-> schema,
      body |-> IF m.blocks = 1 THEN Block(<<1, 2>>) ELSE Block(<<1>>) \o Block(<<2>>)]

\* The schema and codec of the header: an absent codec is "null", another one throws.
parse_avro_header(file) ==
  [schema |-> parse_type(file.schema), codec |-> Codec(file),
   thrown |-> Codec(file) \notin {"null", "deflate"}]

\* AvroBlockDecoder::next: the block's data, and where the source goes on after it.
BlockData(hdr, raw) == IF hdr.codec = "deflate" THEN inflate_deflate(raw) ELSE raw
SizedData(hdr, body, count, bytes) ==
  IF bytes.p = 0 THEN [more |-> FALSE, p |-> 0]
  ELSE [more |-> TRUE, count |-> IF count < 0 THEN -count ELSE count,
        data |-> BlockData(hdr, SubSeq(body, bytes.p, bytes.p + bytes.v - 1)),
        p |-> bytes.p + bytes.v]
CountedBlock(hdr, body, count) ==
  IF count.p = 0 \/ count.v = 0 THEN [more |-> FALSE, p |-> count.p]
  ELSE SizedData(hdr, body, count.v, read_vlong(body, count.p, Len(body) + 1))
NextBlock(hdr, body, p) ==
  IF p > Len(body) THEN [more |-> FALSE, p |-> p]
  ELSE CountedBlock(hdr, body, read_vlong(body, p, Len(body) + 1))

verify_sync(body, p) == IF p \in DOMAIN body /\ body[p] = SyncMarker THEN p + 1 ELSE 0

\* One round of the loop over the blocks: the rows of the next one, then its marker.
AddRow(x, r) == [p |-> r.p, out |-> IF r.p = 0 THEN x.out ELSE x.out \o r.v]
BlockRows(b, out, row(_, _, _)) ==
  FoldLeft(LAMBDA x, i : IF x.p = 0 THEN x ELSE AddRow(x, row(b.data, x.p, Len(b.data) + 1)),
           [p |-> 1, out |-> out], [i \in 1 .. b.count |-> i])
BlockDone(rows, p) == [more |-> p # 0, p |-> p, out |-> rows.out]
Synced(body, b, rows) == BlockDone(rows, IF rows.p = 0 THEN 0 ELSE verify_sync(body, b.p))
TakeBlock(body, a, b, row(_, _, _)) ==
  IF ~b.more THEN [a EXCEPT !.more = FALSE, !.p = b.p]
  ELSE Synced(body, b, BlockRows(b, a.out, row))
ReadBlock(hdr, body, a, row(_, _, _)) == TakeBlock(body, a, NextBlock(hdr, body, a.p), row)

Entries(thrown, out) == [thrown |-> thrown, entries |-> IF thrown THEN <<>> ELSE out]
Outcome(hdr, all) == Entries(hdr.thrown \/ all.p = 0, all.out)
ReadBlocks(hdr, body, row(_, _, _)) ==
  Outcome(hdr, FoldLeft(LAMBDA a, i : IF a.more THEN ReadBlock(hdr, body, a, row) ELSE a,
                        [more |-> TRUE, p |-> 1, out |-> <<>>], [i \in 1 .. MaxBlocks + 1 |-> i]))

\* The elements of a set in the order of their keys, which differ.
AscendingBy(S, key(_)) ==
  [i \in 1 .. Cardinality(S) |-> CHOOSE x \in S : Cardinality({y \in S : key(y) < key(x)}) = i - 1]

find_field(rec, name) == SelectInSeq(rec.record_fields, LAMBDA f : f.name = name)
\* Skips the fields first .. last of a record.
SkipFields(rec, first, last, d, p, end) ==
  FoldLeft(LAMBDA q, i : IF q = 0 \/ i \notin first .. last THEN q
                         ELSE skip_avro_value(rec.record_fields[i].type, d, q, end),
           p, [i \in DOMAIN rec.record_fields |-> i])

\* Reads the wanted fields [at, tag] of a record, in the order they have in it.
Taken(a, w, r) ==
  IF r.p = 0 THEN [a EXCEPT !.p = 0]
  ELSE [cursor |-> w.at + 1, p |-> r.p, v |-> [a.v EXCEPT ![w.tag] = r.v]]
ReadAt(q, read(_)) == IF q = 0 THEN Thrown ELSE read(q)
RestSkipped(rec, got, d, end) ==
  [v |-> got.v, p |-> SkipFields(rec, got.cursor, Len(rec.record_fields), d, got.p, end)]
ReadWanted(rec, wanted, read(_, _, _, _, _), start, d, p, end) ==
  RestSkipped(rec, FoldLeft(
      LAMBDA a, w :
        IF a.p = 0 THEN a
        ELSE Taken(a, w, ReadAt(SkipFields(rec, a.cursor, w.at - 1, d, a.p, end),
                                LAMBDA q : read(w.tag, rec.record_fields[w.at].type, d, q, end))),
      [cursor |-> 1, p |-> p, v |-> start], AscendingBy(wanted, LAMBDA w : w.at)), d, end)

ReadFile(hdr, wanted, body, row(_, _, _)) ==
  IF \E w \in wanted : w.at = 0 THEN Entries(TRUE, <<>>) ELSE ReadBlocks(hdr, body, row)

ListFields(rec) == {[at |-> find_field(rec, n), tag |-> n] : n \in {"manifest_path", "content"}}
ReadListField(tag, t, d, p, end) ==
  IF tag = "content" THEN read_vlong(d, p, end) ELSE read_bytes_val(d, p, end)
ListRow(r) == [v |-> <<r.v>>, p |-> r.p]
ReadList(hdr, body) ==
  ReadFile(hdr, ListFields(hdr.schema), body, LAMBDA d, p, end :
      ListRow(ReadWanted(hdr.schema, ListFields(hdr.schema), ReadListField,
                         [manifest_path |-> <<>>, content |-> 0], d, p, end)))
read_iceberg_manifest_list(file) == ReadList(parse_avro_header(file), file.body)

tolower(s) == [i \in DOMAIN s |-> IF s[i] > 100 THEN s[i] - 100 ELSE s[i]]
RequiredFields == {"content", "file_path", "file_format"}
OptionalFields == {"referenced_data_file", "content_offset", "content_size_in_bytes"}
NoEntry == [content |-> 0, file_path |-> <<>>, file_format |-> <<>>, referenced_data_file |-> <<>>,
            content_offset |-> -1, content_size_in_bytes |-> -1, sequence_number |-> 0]

Lowered(r) == IF r.p = 0 THEN Thrown ELSE [r EXCEPT !.v = tolower(@)]
ReadSlot(tag, t, d, p, end) ==
  CASE tag = "content" -> read_vlong(d, p, end)
    [] tag = "file_path" -> read_bytes_val(d, p, end)
    [] tag = "file_format" -> Lowered(read_bytes_val(d, p, end))
    [] tag = "referenced_data_file" -> read_optional_string(t, d, p, end)
    [] tag \in {"content_offset", "content_size_in_bytes"} -> read_optional_long(t, d, p, end)

DataFileFields(rec) ==
  {[at |-> find_field(rec, n), tag |-> n] :
     n \in {m \in RequiredFields \cup OptionalFields : m \in RequiredFields \/ find_field(rec, m) # 0}}

\* The sequence number is read when it comes before the data file.
SequenceFirst(c) == c.seq \in 1 .. c.df - 1
ReadSequence(rec, c, d, p, end) ==
  IF SequenceFirst(c)
  THEN read_optional_long(rec.record_fields[c.seq].type, d, SkipFields(rec, 1, c.seq - 1, d, p, end), end)
  ELSE [v |-> 0, p |-> p]
ReadDataFile(rec, c, before, d, end) ==
  ReadWanted(rec.record_fields[c.df].type, DataFileFields(rec.record_fields[c.df].type), ReadSlot,
             [NoEntry EXCEPT !.sequence_number = before.v], d,
             SkipFields(rec, IF SequenceFirst(c) THEN c.seq + 1 ELSE 1, c.df - 1, d, before.p, end), end)
EntryRow(rec, c, r, target, d, end) ==
  [v |-> IF target < 0 \/ r.v.content = target THEN <<r.v>> ELSE <<>>,
   p |-> SkipFields(rec, c.df + 1, Len(rec.record_fields), d, r.p, end)]
ReadEntries(hdr, c, body, target) ==
  IF c.df = 0 THEN Entries(TRUE, <<>>)
  ELSE ReadFile(hdr, DataFileFields(hdr.schema.record_fields[c.df].type), body, LAMBDA d, p, end :
           EntryRow(hdr.schema, c,
                    ReadDataFile(hdr.schema, c, ReadSequence(hdr.schema, c, d, p, end), d, end),
                    target, d, end))
EntryColumns(rec) == [seq |-> find_field(rec, "sequence_number"), df |-> find_field(rec, "data_file")]
ReadEntriesOf(hdr, body, target) == ReadEntries(hdr, EntryColumns(hdr.schema), body, target)
read_iceberg_manifest_entries(file, target) == ReadEntriesOf(parse_avro_header(file), file.body, target)

-----------------------------------------------------------------------------
(* Deletion vectors.  A number of the format is one cell, whatever its     *)
(* width; an encoder may write any container as runs.                      *)

Cookie == 12347
CookieNoRun == 12346
Magic == 100
Bitmaps == 2               \* containers of one 32-bit bitmap
HighUnit == Bitmaps * Universe

\* Stands for the CRC-32: a hash of the cells that the writer and the reader compute alike.
Checksum(cells) == FoldLeft(LAMBDA c, x : (c * 31 + x) % 9973, 1, cells)

EncodeContainer(low, asRuns) ==
  LET sorted == AscendingBy(low, LAMBDA x : x)
      word(w) == MapThenSumSet(LAMBDA b : 2 ^ b, {b \in 0 .. BitmapWord - 1 : w * BitmapWord + b \in low})
      starts == SelectSeq(sorted, LAMBDA x : x - 1 \notin low)
      length(x) == Max({y - x : y \in {z \in low : \A u \in x .. z : u \in low}})
  IN IF asRuns THEN <<Len(starts)>> \o FlattenSeq([i \in DOMAIN starts |-> <<starts[i], length(starts[i])>>])
     ELSE IF Cardinality(low) <= ArrayMax THEN sorted
     ELSE [w \in 1 .. Universe \div BitmapWord |-> word(w - 1)]

EncodeRoaring32(set, runs) ==
  LET keys == AscendingBy({x \div Universe : x \in set}, LAMBDA x : x)
      low(k) == {x % Universe : x \in {y \in set : y \div Universe = k}}
      n == Len(keys)
      withRuns == \E i \in DOMAIN keys : keys[i] \in runs
      bits == MapThenSumSet(LAMBDA i : 2 ^ (i - 1), {i \in DOMAIN keys : keys[i] \in runs})
  IN (IF withRuns THEN <<Cookie + 65536 * (n - 1), bits>> ELSE <<CookieNoRun, n>>)
     \o FlattenSeq([i \in DOMAIN keys |-> <<keys[i], Cardinality(low(keys[i])) - 1>>])
     \o (IF ~withRuns \/ n >= OffsetThreshold THEN [i \in DOMAIN keys |-> 0] ELSE <<>>)
     \o FlattenSeq([i \in DOMAIN keys |-> EncodeContainer(low(keys[i]), keys[i] \in runs)])

EncodeVector(v) ==
  LET highs == AscendingBy({x \div HighUnit : x \in v.positions}, LAMBDA x : x)
      low(h) == {x % HighUnit : x \in {y \in v.positions : y \div HighUnit = h}}
      bitmap(h) == <<h>> \o EncodeRoaring32(low(h), {k \in 0 .. Bitmaps - 1 : h * Bitmaps + k \in v.runs})
      body == <<Magic, Len(highs)>> \o FlattenSeq([i \in DOMAIN highs |-> bitmap(highs[i])])
  IN [i \in 1 .. v.offset |-> 0] \o <<Len(body)>> \o body \o <<Checksum(body)>>

\* The values of one container from p on, and where the next one starts (0: truncated).
ContainerType(card, isRun) == IF isRun THEN "run" ELSE IF card <= ArrayMax THEN "array" ELSE "bitmap"
RunValues(start, length) == [i \in 1 .. length + 1 |-> start + i - 1]
ReadContainer(d, p, end, type, card) ==
  LET size == CASE type = "array" -> card
                [] type = "bitmap" -> Universe \div BitmapWord
                [] type = "run" -> IF p >= end THEN 1 ELSE 1 + 2 * d[p]
      q == Advance(p, size, end)
      word(w) == SelectSeq([b \in 1 .. BitmapWord |-> w * BitmapWord + b - 1],
                           LAMBDA x : (d[p + w] \div 2 ^ (x % BitmapWord)) % 2 = 1)
  IN IF q = 0 THEN Thrown
     ELSE [p |-> q,
           v |-> CASE type = "array" -> SubSeq(d, p, q - 1)
                   [] type = "bitmap" -> FlattenSeq([w \in 1 .. Universe \div BitmapWord |-> word(w - 1)])
                   [] type = "run" -> FlattenSeq([r \in 1 .. d[p] |->
                                         RunValues(d[p + 2 * r - 1], d[p + 2 * r])])]

\* Whether an offset header follows the descriptors: it is skipped.
has_offsets(has_run, n) == ~has_run \/ n >= OffsetThreshold

deserialize_roaring32(d, p, end) ==
  LET has_run == (d[p] % 65536) = Cookie
      n == IF has_run THEN (d[p] \div 65536) + 1 ELSE d[p + 1]
      run_bitmap == IF has_run THEN d[p + 1] ELSE 0
      descriptors == p + 2
      first == Advance(descriptors, 2 * n + (IF has_offsets(has_run, n) THEN n ELSE 0), end)
      step(a, i) ==
        LET type == ContainerType(d[descriptors + 2 * i - 1] + 1, (run_bitmap \div 2 ^ (i - 1)) % 2 = 1)
            c == IF a.p = 0 THEN Thrown
                 ELSE ReadContainer(d, a.p, end, type, d[descriptors + 2 * i - 1] + 1)
            high == d[descriptors + 2 * i - 2] * Universe
        IN IF c.p = 0 THEN Thrown ELSE [p |-> c.p, v |-> a.v \o [j \in DOMAIN c.v |-> high + c.v[j]]]
  IN IF end - p < 2 \/ ~(has_run \/ d[p] = CookieNoRun) \/ (n > 0 /\ first = 0) THEN Thrown
     ELSE IF n = 0 THEN [p |-> descriptors, v |-> <<>>]
     ELSE FoldLeft(step, [p |-> first, v |-> <<>>], [i \in 1 .. n |-> i])

\* The blob at the offset: length, magic, bitmaps, checksum; the positions come out sorted.
read_deletion_vector(file, offset, size) ==
  LET blob == SubSeq(file, offset + 1, offset + size)
      body == SubSeq(blob, 2, 1 + blob[1])
      step(a, i) ==
        LET low == IF a.p = 0 \/ Len(body) - a.p < 1 THEN Thrown
                   ELSE deserialize_roaring32(body, a.p + 1, Len(body) + 1)
        IN IF low.p = 0 THEN Thrown
           ELSE [p |-> low.p, v |-> a.v \o [j \in DOMAIN low.v |-> body[a.p] * HighUnit + low.v[j]]]
      all == FoldLeft(step, [p |-> 3, v |-> <<>>], [i \in 1 .. body[2] |-> i])
  IN IF \/ offset < 0 \/ size <= 0 \/ Len(file) < offset + size
        \/ blob[2] # Magic \/ blob[1] + 2 > Len(blob)
        \/ blob[blob[1] + 2] # Checksum(body) \/ all.p = 0
     THEN [thrown |-> TRUE, entries |-> <<>>]
     ELSE [thrown |-> FALSE, entries |-> SortSeq(all.v, <)]

-----------------------------------------------------------------------------
(* The steps: a file is written, then read.                                *)

Nullable(t) == List(<<Str("null"), Str(t)>>)
Field(name, json, v1, v2) == [name |-> name, json |-> json, values |-> <<v1, v2>>]
Present(v) == <<2, v>>
Absent == <<1, 0>>

\* The fields of a manifest's data_file and of a manifest list that the reader wants.
WantedFields(kind) ==
  IF kind = "list"
  THEN <<Field("manifest_path", Str("string"), <<5>>, <<>>), Field("content", Str("int"), 1, 0)>>
  ELSE <<Field("content", Str("int"), 1, 2), Field("file_path", Str("string"), <<5>>, <<>>),
         Field("file_format", Str("string"), <<106>>, <<6, 105>>),
         Field("referenced_data_file", Nullable("string"), Present(<<4>>), Absent),
         Field("content_offset", Nullable("long"), Absent, Present(9)),
         Field("content_size_in_bytes", Str("long"), 3, 0)>>

SequenceNumber == Field("sequence_number", Nullable("long"), Present(7), Absent)
DataFile(fields) ==
  Field("data_file",
        Obj(<<<<"type", Str("record")>>, <<"name", Str("r2")>>,
              <<"fields", List([i \in DOMAIN fields |-> Obj(<<<<"name", Str(fields[i].name)>>,
                                                             <<"type", fields[i].json>>>>)])>>>>),
        [i \in DOMAIN fields |-> fields[i].values[1]], [i \in DOMAIN fields |-> fields[i].values[2]])

HasField(fields, name) == \E f \in DOMAIN fields : fields[f].name = name
ExtraCount(fields) == Cardinality({i \in DOMAIN fields : fields[i].name = "extra"})

AddField ==
  /\ entries = <<>> /\ puffin = <<>> /\ avro.blocks = 0
  /\ \E kind \in IF avro.kind = "none" THEN {"list", "entries"} ELSE {avro.kind} :
       \/ \E i \in DOMAIN WantedFields(kind) :
            /\ ~HasField(avro.fields, WantedFields(kind)[i].name)
            /\ WantedFields(kind)[i].name \in OptionalFields =>
                 \A name \in OptionalFields : ~HasField(avro.fields, name)
            /\ avro' = [avro EXCEPT !.kind = kind, !.fields = Append(@, WantedFields(kind)[i])]
       \/ \E i \in DOMAIN Extras :
            /\ ExtraCount(avro.fields) < MaxExtras
            /\ avro' = [avro EXCEPT !.kind = kind, !.fields = Append(@, Extras[i])]
  /\ UNCHANGED <<puffin, entries>>

FinishManifest ==
  /\ entries = <<>> /\ avro.kind # "none" /\ avro.blocks = 0
  /\ \A i \in DOMAIN WantedFields(avro.kind) :
       WantedFields(avro.kind)[i].name \notin OptionalFields =>
         HasField(avro.fields, WantedFields(avro.kind)[i].name)
  /\ \E blocks \in {1, 2}, packed \in BOOLEAN,
        shape \in 1 .. IF avro.kind = "list" THEN 1 ELSE 3 :
       avro' = [avro EXCEPT !.blocks = blocks, !.negative = packed,
                            !.codec = IF packed THEN <<"deflate">> ELSE <<>>,
                            !.outer = LET df == DataFile(avro.fields)
                                      IN IF avro.kind = "list" THEN avro.fields
                                         ELSE << <<SequenceNumber, df>>, <<df, SequenceNumber>>,
                                                 <<Extras[1], SequenceNumber, Extras[1], df>> >>[shape]]
  /\ UNCHANGED <<puffin, entries>>

ManifestFile ==
  EncodeFile(avro, DataFile(avro.outer).json, LAMBDA r : [i \in DOMAIN avro.outer |-> avro.outer[i].values[r]])

ReadManifest ==
  /\ entries = <<>> /\ avro.blocks # 0
  /\ entries' = <<IF avro.kind = "list" THEN read_iceberg_manifest_list(ManifestFile)
                  ELSE read_iceberg_manifest_entries(ManifestFile, 1)>>
  /\ UNCHANGED <<avro, puffin>>

WritePuffin ==
  /\ entries = <<>> /\ avro = NoManifest /\ puffin = <<>>
  /\ \E positions \in SUBSET (0 .. MaxPosition) \ {{}}, offset \in {0, 2} :
       \E runs \in SUBSET {x \div Universe : x \in positions} :
         puffin' = <<[positions |-> positions, runs |-> runs, offset |-> offset]>>
  /\ UNCHANGED <<avro, entries>>

ReadPuffin ==
  /\ entries = <<>> /\ puffin # <<>>
  /\ LET file == EncodeVector(puffin[1])
     IN entries' = <<read_deletion_vector(file, puffin[1].offset, Len(file) - puffin[1].offset)>>
  /\ UNCHANGED <<avro, puffin>>

IfNext == AddField \/ FinishManifest \/ ReadManifest \/ WritePuffin \/ ReadPuffin
IfSpec == IfInit /\ [][IfNext]_ifvars

-----------------------------------------------------------------------------
\* What a row says of a wanted field.
ValueOf(fields, name, row, absent, null) ==
  IF ~HasField(fields, name) THEN absent
  ELSE LET f == fields[SelectInSeq(fields, LAMBDA x : x.name = name)]
       IN IF f.json.json # "list" THEN f.values[row]
          ELSE IF f.values[row] = Absent THEN null ELSE f.values[row][2]

EntryOf(row) ==
  LET of(name, absent) == ValueOf(avro.fields, name, row, absent, absent)
      seqFirst == SelectInSeq(avro.outer, LAMBDA f : f.name = "sequence_number")
                    < SelectInSeq(avro.outer, LAMBDA f : f.name = "data_file")
  IN [content |-> of("content", 0), file_path |-> of("file_path", <<>>),
      file_format |-> tolower(of("file_format", <<>>)),
      referenced_data_file |-> of("referenced_data_file", <<>>),
      content_offset |-> of("content_offset", -1),
      content_size_in_bytes |-> of("content_size_in_bytes", -1),
      sequence_number |-> IF seqFirst THEN ValueOf(avro.outer, "sequence_number", row, 0, -1) ELSE 0]
ListEntryOf(row) ==
  [manifest_path |-> ValueOf(avro.fields, "manifest_path", row, <<>>, <<>>),
   content |-> ValueOf(avro.fields, "content", row, 0, 0)]

\* The reader finds the fields it wants in every row of a manifest or manifest list, wherever they
\* stand and whatever other fields the writer put around them, blocked and compressed as it liked.
ManifestExact ==
  entries # <<>> /\ avro.kind # "none" =>
    /\ ~entries[1].thrown
    /\ entries[1].entries =
         IF avro.kind = "list" THEN <<ListEntryOf(1), ListEntryOf(2)>>
         ELSE SelectSeq(<<EntryOf(1), EntryOf(2)>>, LAMBDA e : e.content = 1)

\* Decoding a deletion vector gives exactly the positions that were encoded, in ascending order,
\* whichever containers the writer chose.
VectorExact ==
  entries # <<>> /\ puffin # <<>> =>
    entries[1] = [thrown |-> FALSE, entries |-> AscendingBy(puffin[1].positions, LAMBDA x : x)]

\* An Avro feature the reader does not handle is refused, not read as something else.
OtherFeaturesThrow ==
  entries # <<>> /\ avro.kind # "none"
    /\ (\E i \in DOMAIN avro.fields : avro.fields[i].json.json = "object"
                                       /\ TypeName(avro.fields[i].json) \in {"enum", "fixed"})
    => entries[1].thrown
=============================================================================
