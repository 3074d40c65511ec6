------------------------------- MODULE MCChist -------------------------------
(* Files for chist print and summarize.  Times are in ticks of half a       *)
(* millisecond.                                                            *)
EXTENDS Chist

Record(now, elapsed, name, hist) ==
    [now |-> now, elapsed |-> elapsed, name |-> name, hist |-> hist]

\* A snapshot; the counts are listed from slot 0.
Snapshot(low, high, sigfig, counts) ==
    [low |-> low, high |-> high, sigfig |-> sigfig,
     counts |-> [i \in 0..(Len(counts) - 1) |-> counts[i + 1]]]

Good == Snapshot(1, 2, 0, <<0, 2, 1>>)
Larger == Snapshot(1, 7, 0, <<1, 0, 0, 2>>)
NotCreated == Snapshot(0, 7, 0, <<1>>)
NoCounts == Snapshot(1, 2, 0, <<>>)

FilesOf(R, k) == UNION {[1..n -> R] : n \in 0..k}

\* Any two files of up to two records, of which histograms may not load or fit
\* or may be empty, and elapsed may be no i64.
AnyRecord == {Record(t, 8, "read", Good) : t \in {0, 3}} \cup
             {Record(t, 2, "read", h) : t \in {0, 3}, h \in {Good, Larger, NotCreated, NoCounts}}
AnyInputs == [1..2 -> FilesOf(AnyRecord, 2)]

\* Three files of up to two records with good histograms.
GoodRecord == {Record(t, 4, n, Good) : t \in {0, 3}, n \in {"read", "write"}}
GoodInputs == [1..3 -> FilesOf(GoodRecord, 2)]

\* One file of up to five records, for summarize.
SingleInputs == [{1} -> FilesOf(GoodRecord, 5)]

\* Two files that keep to the assumptions stated in print: a record for each
\* name every Period ticks, the clients off by at most Jitter ticks.
Period == 6
Jitter == 2
MaxRecords == 4
OpNames == <<"read", "write">>
AlignedFile(k, jitter) ==
    [i \in 1..k |-> Record(Period * ((i - 1) \div 2) + jitter[(i - 1) \div 2],
                           Period, OpNames[((i - 1) % 2) + 1], Good)]
AlignedFiles == {AlignedFile(k, j) : k \in 0..MaxRecords,
                                     j \in [0..(MaxRecords \div 2) -> 0..Jitter]}
AlignedInputs == [1..2 -> AlignedFiles]

\* One record each of up to three files: different ranges and resolutions, with
\* as many counts as the range calls for, fewer, and more.
Shapes == {Good, Larger, NoCounts, Snapshot(1, 7, 0, <<0, 3>>),
           Snapshot(1, 2, 0, <<0, 1, 0, 2>>), Snapshot(1, 2, 0, <<0, 1, 1, 0, 0, 0>>),
           Snapshot(2, 7, 0, <<1, 2, 1>>), Snapshot(1, 7, 1, <<1, 0, 1, 0, 1, 2>>),
           Snapshot(1, 7, 1, <<0, 0, 0, 0, 0, 0>>), Snapshot(2, 7, 1, <<1, 1>>)}
ShapeInputs == UNION {[1..n -> {<<Record(0, 4, "read", h)>> : h \in Shapes}] : n \in 2..3}

AllInputs == AnyInputs \cup GoodInputs \cup SingleInputs \cup AlignedInputs \cup ShapeInputs

\* Two files of one record; one may start three periods after the other.
ApartInputs == [1..2 -> FilesOf({Record(t, 4, "read", Good) : t \in {0, 12}}, 1)]
=============================================================================
