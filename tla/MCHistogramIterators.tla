------------------------ MODULE MCHistogramIterators ------------------------
(* Histograms of four-bit values for the iterators: everything a client can *)
(* record with up to three calls.                                           *)
EXTENDS HistogramIterators

Recorded(g, values) ==
    FoldLeft(LAMBDA f, v : RecordInner(f, v, 1, FALSE).h, g, values)

Unit == NewWithBounds(1, 7, 1)
Coarse == NewWithBounds(2, 7, 0)
Wide == NewWithBounds(1, 7, 0)

SmallHists == {Recorded(g, s) : g \in {Unit, Coarse, Wide}, s \in BoundedSeq(0..7, 3)}
\* Most samples in one slot, so that iter_quantiles halves its steps there.
Skewed == Recorded(RecordInner(Recorded(Unit, <<1>>), 2, 9, FALSE).h, <<6>>)
\* The range ends where the word ends.
TopHists == {Recorded(NewWithBounds(1, 15, 0), s) : s \in BoundedSeq({0, 3, 7, 8, 14, 15}, 2)}
\* Every range and resolution of a word, with nothing recorded.
EmptyHists == {NewWithBounds(c[1], c[2], c[3]) :
                 c \in {d \in Words \X Words \X (0..MaxSig) : CanCreate(d[1], d[2], d[3])}}
AllHists == SmallHists \cup {Skewed} \cup TopHists \cup EmptyHists

AllKinds == {"recorded", "all", "linear", "log", "quantile"}
=============================================================================
