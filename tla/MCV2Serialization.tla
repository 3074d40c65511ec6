-------------------------- MODULE MCV2Serialization --------------------------
(* Four-bit words, bytes of two bits, varints of up to three bytes.         *)
EXTENDS V2Serialization

Counts(g, f) == FoldSet(LAMBDA v, r : IF f[v] = 0 THEN r ELSE RecordInner(r, v, f[v], FALSE).h,
                        g, DOMAIN f)

\* Every way to put none, one, four or nine samples on each value; nine is more
\* than the format can hold.
SmallHists == {Counts(NewWithBounds(1, 7, 0), f) : f \in [{0, 1, 5} -> {0, 1, 4, 9}]}
\* More slots, so that the fast loop reads, and units of one and of two.
LongHists == {Counts(NewWithBounds(low, 7, 1), f) :
                 low \in {1, 2}, f \in [{0, 3, 7} -> {0, 1, 4}]}
\* The range ends where the word ends.
TopHists == {Counts(NewWithBounds(low, 15, 0), f) :
                 low \in {1, 2}, f \in [{0, 3, 14, 15} -> {0, 1}]}
AllHists == SmallHists \cup LongHists \cup TopHists
\* Payloads of different lengths: empty, short, long, and a count that does not
\* fit the counter type read into.
LaterHists == {Counts(NewWithBounds(1, 7, 1), f) :
                 f \in {[v \in {0} |-> 0], [v \in {1} |-> 1], [v \in 0..7 |-> 3],
                        [v \in {0, 5} |-> 6]}}
BothFormats == {"v2", "deflate"}
=============================================================================
