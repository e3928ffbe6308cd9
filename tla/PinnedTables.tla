---------------------------- MODULE PinnedTables ----------------------------
(***************************************************************************)
(* Tables kept resident: pin_table reads parquet files chunk by chunk,     *)
(* each file on the next GPU, and hands the chunks to the scan manager     *)
(* (sirius_extension.cpp), which stores them under a name or merges new    *)
(* columns into the entry of that name                                     *)
(* (scan_manager/sirius_scan_manager.cpp).  A scan of the same files is    *)
(* then served from the entry (scan_manager/cached_split_provider.cpp),    *)
(* while later calls pin and unpin.                                        *)
(*                                                                         *)
(* Row r of file f is <<f, r>>; a chunk of a column is                     *)
(* [col, rows, gpu], the rows it holds and the GPU it was read on.         *)
(***************************************************************************)
EXTENDS Integers, Sequences, SequencesExt, FiniteSets, TLC

CONSTANTS PinNames,        \* names a table may be pinned under
          PinGlobs,        \* path |-> the files it globs to, in order
          PinSchema,       \* the columns of the files, in file order
          PinSizes,        \* file |-> column |-> bytes of each of its rows
          ReadLimit,       \* chunk_read_limit, the target bytes of a chunk
          PinGpus,         \* number of GPU memory spaces
          PinCalls,        \* [name, path, cols, budget, tier] the user may call
          PinScans,        \* [path, data, out, filter] a query may scan
          MaxPins          \* bound: pin_table calls in a behaviour

ASSUME PinAssumption ==
  /\ {ReadLimit, PinGpus} \subseteq Nat \ {0} /\ MaxPins \in Nat
  /\ \A p \in PinCalls : p.name \in PinNames /\ p.tier \in {"gpu", "host"}

VARIABLES pinned,          \* _pinned_entries: name |-> entry, for the names pinned
          pins,            \* pin_table calls so far: [call, error]
          cached           \* the scan under way, <<>> when none
pinvars == <<pinned, pins, cached>>

PinInit == pinned = <<>> /\ pins = <<>> /\ cached = <<>>

-----------------------------------------------------------------------------
(* pin_table.                                                              *)

SumOf(s) == FoldLeft(LAMBDA a, b : a + b, 0, s)

\* The bytes of rows lo .. hi of the columns.
ChunkBytes(f, cols, lo, hi) ==
  SumOf([c \in DOMAIN cols |-> SumOf(SubSeq(PinSizes[f][cols[c]], lo, hi))])

\* The chunked reader: as many rows as fit the limit, at least one.
RECURSIVE ReadChunks(_, _, _, _)
ReadChunks(f, cols, from, last) ==
  IF from > last THEN <<>>
  ELSE LET fits == {hi \in from .. last : ChunkBytes(f, cols, from, hi) <= ReadLimit}
           hi == IF fits = {} THEN from ELSE CHOOSE h \in fits : \A g \in fits : g <= h
       IN <<[i \in 1 .. hi - from + 1 |-> <<f, from + i - 1>>]>>
          \o ReadChunks(f, cols, hi + 1, last)

RowsOfFile(f) == Len(PinSizes[f][PinSchema[1]])
Least(a, b) == IF a < b THEN a ELSE b

\* The tables read, each with the GPU of its file: the budget is what is left of n_rows.
\* (budget is <<>> without n_rows.)
RECURSIVE ReadFiles(_, _, _, _)
ReadFiles(files, cols, budget, index) ==
  IF files = <<>> \/ (budget # <<>> /\ budget[1] <= 0) THEN <<>>
  ELSE LET f == Head(files)
           last == IF budget = <<>> THEN RowsOfFile(f) ELSE Least(budget[1], RowsOfFile(f))
           read == ReadChunks(f, cols, 1, last)
       IN [k \in DOMAIN read |-> [rows |-> read[k], gpu |-> index % PinGpus]]
          \o ReadFiles(Tail(files), cols,
                       IF budget = <<>> THEN <<>> ELSE <<budget[1] - last>>, index + 1)

Cols(call) == IF call.cols = <<>> THEN PinSchema ELSE call.cols
NumRows(tables) == SumOf([k \in DOMAIN tables |-> Len(tables[k].rows)])
Spaces(tables) == [k \in DOMAIN tables |-> tables[k].gpu]
ColumnOf(c, tables) ==
  [k \in DOMAIN tables |-> [col |-> c, rows |-> tables[k].rows, gpu |-> tables[k].gpu]]

\* The names are captured from the first chunk that has rows.
NamesRead(call, tables) == IF tables = <<>> THEN <<>> ELSE Cols(call)

GpuEntry(call, tables) ==
  [names |-> NamesRead(call, tables), files |-> PinGlobs[call.path], tier |-> "gpu",
   spaces |-> Spaces(tables),
   columns |-> [c \in ToSet(NamesRead(call, tables)) |-> ColumnOf(c, tables)],
   host |-> <<>>, rows |-> NumRows(tables), partial |-> call.budget # <<>>]

\* insert_pinned_entry_host: one chunk holds every pinned column; always replaces.
HostEntry(call, tables) ==
  [names |-> NamesRead(call, tables), files |-> PinGlobs[call.path], tier |-> "host",
   spaces |-> <<>>, columns |-> <<>>, host |-> tables,
   rows |-> NumRows(tables), partial |-> call.budget # <<>>]

\* insert_pinned_entry: which calls merge into the entry of the name.
Merges(entry, call, tables) ==
  entry.rows = NumRows(tables) /\ entry.partial = (call.budget # <<>>)

\* The merge is refused unless the chunks are on the same GPUs.
MergeRefused(entry, tables) == entry.spaces # Spaces(tables)

\* Columns the entry has are dropped, the others added with all their chunks.
NewColumns(entry, names, tables) ==
  [c \in ToSet(names) \ DOMAIN entry.columns |-> ColumnOf(c, tables)]
Merged(entry, names, tables) ==
  [entry EXCEPT !.columns = NewColumns(entry, names, tables) @@ @,
                !.names = @ \o SelectSeq(names, LAMBDA c : c \notin ToSet(entry.names))]

Pin(call) ==
  LET tables == ReadFiles(PinGlobs[call.path], Cols(call), call.budget, 0)
      joins == /\ call.tier = "gpu" /\ call.name \in DOMAIN pinned
               /\ Merges(pinned[call.name], call, tables)
      refused == joins /\ MergeRefused(pinned[call.name], tables)
  IN /\ Len(pins) < MaxPins
     /\ pins' = Append(pins, [call |-> call, error |-> refused])
     /\ pinned' = IF refused THEN pinned
                  ELSE (call.name :>
                          IF call.tier = "host" THEN HostEntry(call, tables)
                          ELSE IF joins THEN Merged(pinned[call.name], NamesRead(call, tables), tables)
                          ELSE GpuEntry(call, tables)) @@ pinned
     /\ UNCHANGED cached

Unpin(name) ==
  /\ name \in DOMAIN pinned
  /\ pinned' = [n \in DOMAIN pinned \ {name} |-> pinned[n]]
  /\ UNCHANGED <<pins, cached>>

-----------------------------------------------------------------------------
(* A scan.                                                                 *)

ByNumber(a, b) == a < b
matches_scan_info(entry, scan) ==
  SortSeq(entry.files, ByNumber) = SortSeq(PinGlobs[scan.path], ByNumber)

\* The chunks a GPU entry gives the columns, or nothing when a column is missing
\* or its chunks are as many as another's.
GpuBatches(entry, data) ==
  IF entry.spaces = <<>> \/ ~(ToSet(data) \subseteq DOMAIN entry.columns) THEN <<>>
  ELSE LET per == [d \in DOMAIN data |-> entry.columns[data[d]]]
       IN IF \E d \in DOMAIN per : Len(per[d]) # Len(per[1]) THEN <<>>
          ELSE [b \in DOMAIN per[1] |-> [cells |-> [d \in DOMAIN data |-> per[d][b]],
                                         space |-> entry.spaces[b]]]

\* A host chunk is sliced to the positions of the columns among the pinned names.
SliceIndex_Data(entry, d, c) == d
SliceIndex(entry, d, c) == SelectInSeq(entry.names, LAMBDA n : n = c)
HostBatches(entry, data) ==
  IF entry.host = <<>> \/ ~(ToSet(data) \subseteq ToSet(entry.names)) THEN <<>>
  ELSE [b \in DOMAIN entry.host |->
          [cells |-> [d \in DOMAIN data |->
                        [col |-> entry.names[SliceIndex(entry, d, data[d])],
                         rows |-> entry.host[b].rows, gpu |-> entry.host[b].gpu]],
           space |-> entry.host[b].gpu]]

MayServe(entry) == ~entry.partial

\* The map is walked in no particular order and the first entry that matches decides.
try_make_cached_provider(entry, scan) ==
  IF ~MayServe(entry) THEN <<>>
  ELSE IF entry.tier = "host" THEN HostBatches(entry, scan.data)
  ELSE GpuBatches(entry, scan.data)

\* An empty provider means that the scan reads the files.
StartScan(scan) ==
  /\ cached = <<>>
  /\ \E n \in DOMAIN pinned :
       /\ matches_scan_info(pinned[n], scan)
       /\ cached' = <<[scan |-> scan, batches |-> try_make_cached_provider(pinned[n], scan),
                       next |-> 1, rows |-> <<>>, error |-> FALSE]>>
  /\ UNCHANGED <<pinned, pins>>

\* A view over columns of different lengths is refused.
WellFormed(batch) == \A d \in DOMAIN batch.cells :
                       Len(batch.cells[d].rows) = Len(batch.cells[1].rows)

\* The filter keeps the rows with an odd number in its column; then the output columns.
Kept(scan, batch, i) ==
  \A f \in scan.filter :
    batch.cells[SelectInSeq(scan.data, LAMBDA c : c = f)].rows[i][2] % 2 = 1
OutputRow(scan, batch, i) ==
  [o \in DOMAIN scan.out |->
     LET cell == batch.cells[SelectInSeq(scan.data, LAMBDA c : c = scan.out[o])]
     IN <<cell.col, cell.rows[i]>>]
ExecuteCached(scan, batch) ==
  LET kept == SelectSeq([i \in DOMAIN batch.cells[1].rows |-> i],
                        LAMBDA i : Kept(scan, batch, i))
  IN [k \in DOMAIN kept |-> OutputRow(scan, batch, kept[k])]

ProduceSplit ==
  /\ cached # <<>>
  /\ LET c == cached[1]
         batch == c.batches[c.next]
     IN /\ ~c.error /\ c.next <= Len(c.batches)
        /\ cached' = <<[c EXCEPT !.next = @ + 1, !.error = ~WellFormed(batch),
                                 !.rows = IF WellFormed(batch)
                                          THEN @ \o ExecuteCached(c.scan, batch) ELSE @]>>
  /\ UNCHANGED <<pinned, pins>>

Served(c) == c.error \/ c.next > Len(c.batches)
EndCachedScan ==
  /\ cached # <<>> /\ Served(cached[1]) /\ cached' = <<>>
  /\ UNCHANGED <<pinned, pins>>

PinNext ==
  \/ \E call \in PinCalls : Pin(call)
  \/ \E n \in PinNames : Unpin(n)
  \/ \E scan \in PinScans : StartScan(scan)
  \/ ProduceSplit
  \/ EndCachedScan

PinSpec == PinInit /\ [][PinNext]_pinvars

-----------------------------------------------------------------------------
(* Properties.                                                             *)

\* The rows a scan of the files must give.
ScannedRows(scan) ==
  UNION {{[o \in DOMAIN scan.out |-> <<scan.out[o], <<f, r>>>>] :
            r \in {q \in 1 .. RowsOfFile(f) : scan.filter = {} \/ q % 2 = 1}} :
         f \in ToSet(PinGlobs[scan.path])}

\* A scan served from a pinned table gives each row of the files once, its columns from
\* the same row, whatever was pinned, merged, replaced or unpinned before and during the
\* scan, or it ends with an error; it never gives part of the rows.
CachedExact ==
  \A i \in DOMAIN cached :
    LET c == cached[i]
    IN (c.batches # <<>> /\ Served(c) /\ ~c.error)
         => ToSet(c.rows) = ScannedRows(c.scan) /\ IsInjective(c.rows)

\* Every column of a pinned table has one chunk per memory space, and the memory space
\* is that of the GPU the chunk was read on, so that a scan task goes to its data.
ChunkSpacesTrue ==
  \A n \in DOMAIN pinned : \A c \in DOMAIN pinned[n].columns :
    LET chunks == pinned[n].columns[c]
    IN /\ Len(chunks) = Len(pinned[n].spaces)
       /\ \A k \in DOMAIN chunks : chunks[k].gpu = pinned[n].spaces[k]

\* Pinning more columns of the same files under the same name merges them ("if an
\* entry exists with the same row count, only new columns are merged in").
RepinMerges ==
  \A k \in DOMAIN pins : \A j \in 1 .. k - 1 :
    (/\ pins[k].call.name = pins[j].call.name /\ pins[k].call.path = pins[j].call.path
     /\ pins[k].call.tier = pins[j].call.tier /\ pins[k].call.budget = pins[j].call.budget)
    => ~pins[k].error

\* Chunk k of every column of a pinned table holds the same rows ("they came from the
\* same chunked_parquet_reader::read_chunk() call").
ChunksAligned ==
  \A n \in DOMAIN pinned : \A c, d \in DOMAIN pinned[n].columns :
    \A k \in DOMAIN pinned[n].spaces :
      pinned[n].columns[c][k].rows = pinned[n].columns[d][k].rows

\* A scan served from a pinned table returns the rows of the table, and the chunk
\* records name the memory space their data is in.
PinnedExact ==
    /\ CachedExact
    /\ ChunkSpacesTrue

=============================================================================
