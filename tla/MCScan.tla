------------------------------- MODULE MCScan -------------------------------
(***************************************************************************)
(* What the scans read and how it is decoded.  The parts share no state,   *)
(* so one run checks them side by side: the first step decides which of    *)
(* ScanParts the behaviour is about, and nothing else moves.               *)
(***************************************************************************)
EXTENDS ScanPlans, IcebergScan, IcebergFiles, HostMemory, NativeScan,
        NativeDecode, PinnedTables

CONSTANT ScanParts   \* the parts to check
VARIABLE part        \* the part that moves, "none" before the first step

mcvars == <<part, spvars, icvars, ifvars, hpvars, htvars, nsvars, dvars, svars, pinvars>>

Only(p, others) ==
    /\ p \in ScanParts /\ part \in {"none", p}
    /\ part' = p
    /\ UNCHANGED others

MCInit ==
    /\ part = "none"
    /\ SpInit /\ IcInit /\ IfInit /\ HpInit /\ HtInit /\ NsInit /\ DInit /\ SInit /\ PinInit

MCNext ==
    \/ Only("plans", <<icvars, ifvars, hpvars, htvars, nsvars, dvars, svars, pinvars>>) /\ SpNext
    \/ Only("iceberg", <<spvars, ifvars, hpvars, htvars, nsvars, dvars, svars, pinvars>>) /\ IcNext
    \/ Only("files", <<spvars, icvars, hpvars, htvars, nsvars, dvars, svars, pinvars>>) /\ IfNext
    \/ Only("parquet", <<spvars, icvars, ifvars, htvars, nsvars, dvars, svars, pinvars>>) /\ HpNext
    \/ Only("tables", <<spvars, icvars, ifvars, hpvars, nsvars, dvars, svars, pinvars>>) /\ HtNext
    \/ Only("native", <<spvars, icvars, ifvars, hpvars, htvars, dvars, svars, pinvars>>) /\ NsNext
    \/ Only("decode", <<spvars, icvars, ifvars, hpvars, htvars, nsvars, svars, pinvars>>) /\ DNext
    \/ Only("strings", <<spvars, icvars, ifvars, hpvars, htvars, nsvars, dvars, pinvars>>) /\ SNext
    \/ Only("pinned", <<spvars, icvars, ifvars, hpvars, htvars, nsvars, dvars, svars>>) /\ PinNext

MCSpec == MCInit /\ [][MCNext]_mcvars

Extra(json, v1, v2) == Field("extra", json, v1, v2)
Sized(items) == [sized |-> TRUE, items |-> items]
Plain(items) == [sized |-> FALSE, items |-> items]
RecordOf(a, b) ==
  Obj(<< <<"type", Str("record")>>, <<"name", Str("k")>>,
         <<"fields", List(<<Obj(<< <<"name", Str("key")>>, <<"type", a>> >>),
                            Obj(<< <<"name", Str("value")>>, <<"type", b>> >>)>>)>> >>)

MCExtras ==
  << Extra(Obj(<< <<"type", Str("map")>>, <<"values", Str("long")>> >>),
           <<Sized(<< << <<3>>, 4>> >>)>>, <<Plain(<< << <<>>, -5>>, << <<1>>, 0>> >>)>>),
     Extra(Obj(<< <<"type", Str("array")>>, <<"items", RecordOf(Str("int"), Str("bytes"))>>,
                  <<"logicalType", Str("map")>> >>),
           <<Plain(<< <<1, <<2, 2>> >> >>), Sized(<< <<-2, <<>> >> >>)>>, <<>>),
     Extra(RecordOf(List(<<Str("null"), Str("boolean"), Str("double")>>), Str("float")),
           << <<3, <<0, 0, 0, 0, 0, 0, 0, 0>> >>, <<0, 0, 0, 0>> >>, << <<2, 1>>, <<9, 9, 9, 9>> >>) >>

\* An enumeration and a fixed-size value.
OtherFeatures ==
  << Extra(Obj(<< <<"type", Str("enum")>>, <<"name", Str("e")>> >>), 0, 1),
     Extra(Obj(<< <<"type", Str("fixed")>>, <<"size", Str("1")>> >>), <<1>>, <<2>>) >>

MCTypes == {<<0>>, <<2, 0>>, <<0, 1>>}
\* As many columns as a byte has bits.
WideTypes == {<<1, 1, 1, 1>>}

\* The native format: a table of up to two row groups of two columns.

MCRowGroupRows == << 0 .. 2, 0 .. 1 >>
MCNsProjections == { <<1>>, <<2>>, <<2, 1>>, <<0>>, <<0, 1>>, <<1, 3>> }

MCTables == {<<<<1, 1>>, <<1>>>>, <<<<2>>>>}
MCStrCells == {<<>>, <<<<>>>>, <<<<2>>>>, <<<<1, 2, 1, 1, 1>>>>}

MCPinGlobs == [a |-> <<1, 2>>, b |-> <<3>>, c |-> <<4>>]
MCPinSchema == <<"x", "y">>
\* Of files 1 and 2, x has 2 + 1 chunks and y has 1 + 2; of files 3 and 4 both have 3
\* chunks, with different rows.
MCPinSizes == << [x |-> <<2, 2, 1>>, y |-> <<1, 1, 1>>],
                 [x |-> <<1, 1>>, y |-> <<2, 2>>],
                 [x |-> <<2, 2, 1, 1, 1>>, y |-> <<1, 1, 2, 1, 1>>],
                 [x |-> <<2, 2, 1, 1, 1>>, y |-> <<2, 2, 1, 1, 1>>] >>
MCPinCalls ==
  [name : {"t"}, path : {"a"}, cols : {<<>>, <<"x">>, <<"y">>, <<"y", "x">>},
   budget : {<<>>}, tier : {"gpu", "host"}]
  \cup [name : {"t"}, path : {"a"}, cols : {<<>>}, budget : {<<4>>}, tier : {"gpu", "host"}]
  \cup [name : {"u"}, path : {"b"}, cols : {<<"x">>, <<"y">>}, budget : {<<>>}, tier : {"gpu"}]
\* A name is used again for other files.
MCPinReused ==
  [name : {"t"}, path : {"b", "c"}, cols : {<<"x">>, <<"y">>}, budget : {<<>>}, tier : {"gpu"}]
MCPinScans ==
  {[path |-> "a", data |-> <<"x", "y">>, out |-> <<"y", "x">>, filter |-> {}],
   [path |-> "a", data |-> <<"y", "x">>, out |-> <<"y">>, filter |-> {"x"}],
   [path |-> "b", data |-> <<"x", "y">>, out |-> <<"x", "y">>, filter |-> {"y"}]}

\* An Iceberg scan returns the rows of the snapshot: manifests, position deletes,
\* equality deletes and deletion vectors are read as they were written.
IcebergExact ==
    /\ SnapshotExact
    /\ ManifestExact
    /\ VectorExact

\* A scan of DuckDB's own format: segments are staged and decoded at their rows, every
\* row once, with the values, NULLs and strings that were stored, within the
\* buffers sized for them.
NativeExact ==
    /\ SegmentsStaged
    /\ RowsInPlace
    /\ RowsComplete
    /\ RoaringExact
    /\ StringsExact
    /\ NullsExact
    /\ CharsFit
    /\ ScratchFits
    /\ BitpackingExact
    /\ RleExact
    /\ AlpExact
    /\ ColumnExact

\* Scans on the host: a parquet file read through cached ranges gives the bytes of
\* the file, and what the cache covers is not read again; a table read in chunks
\* gives its values and NULLs, within the layout computed for it.
HostScanExact ==
    /\ HostReadExact
    /\ ChunksFromCache
    /\ TableRoundTrip
    /\ RowsWithinLayout

=============================================================================
