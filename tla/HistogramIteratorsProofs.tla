----------------------- MODULE HistogramIteratorsProofs -----------------------
(***************************************************************************)
(* What holds of the iterators for words of any width, any precision and   *)
(* any histograms.                                                         *)
(***************************************************************************)
EXTENDS HistogramIterators, HistogramLayoutProofs

\* No iterator changes the histogram it goes over.
HistInv == h \in Hists

\* It is the one the iterator was made for.
LEMMA HistKept == Spec => []HistInv
<1>1. Init => HistInv
  BY DEF Init, HistInv
<1>2. HistInv /\ [Next]_vars => HistInv'
  BY DEF HistInv, Next, OutOfSlots, NoMore, Continue, Visit, vars
<1> QED BY <1>1, <1>2, PTL DEF Spec

\* What the proofs use of a histogram.
LEMMA HistFacts ==
    ASSUME NEW g \in Hists
    PROVE  /\ ValidLayout(g.lay)
           /\ Base^g.sigfig \in Nat /\ Base^g.sigfig <= SubBucketHalfCount(g.lay)
           /\ \E n \in 1..NumBins(g.lay, BucketsToCover(g.lay, MaxWord)) :
                g.counts \in [0..(n - 1) -> 0..CounterMax]
<1>1. WellFormed(g)
  BY IteratorsAssumption, Zenon
<1>2. g.low \in Nat /\ g.high \in Nat /\ g.sigfig \in Nat /\ CanCreate(g.low, g.high, g.sigfig)
  BY <1>1, Zenon DEF WellFormed
<1>3. g.lay = LayoutOf(g.low, g.sigfig)
  BY <1>1, Zenon DEF WellFormed
<1>4. /\ ValidLayout(g.lay)
      /\ Base^g.sigfig \in Nat /\ Base^g.sigfig <= SubBucketHalfCount(g.lay)
  BY <1>2, <1>3, LayoutIsValid, Zenon
<1> QED BY <1>1, <1>4, Zenon DEF WellFormed

\* Every slot that a histogram has is a place of its layout.
LEMMA SlotHasPlace ==
    ASSUME NEW g \in Hists, NEW i \in DOMAIN g.counts
    PROVE  i \in Nat /\ \E b, s : Place(g.lay, i, b, s) /\ Fits(g.lay, b)
<1> DEFINE bins == NumBins(g.lay, BucketsToCover(g.lay, MaxWord))
<1>1. ValidLayout(g.lay)
  BY HistFacts
<1>2. PICK n \in 1..bins : g.counts \in [0..(n - 1) -> 0..CounterMax]
  BY HistFacts
<1>3. DOMAIN g.counts = 0..(n - 1)
  BY <1>2
<1>4. bins \in Int
  <2>1. BucketsToCover(g.lay, MaxWord) \in Nat
    BY <1>1, BucketsInWord, WordType DEF ValidLayout
  <2>2. SubBucketHalfCount(g.lay) \in Nat
    BY <1>1, HalfFacts
  <2> QED BY <2>1, <2>2 DEF NumBins
<1> HIDE DEF bins
<1>5. i \in Nat /\ i < bins
  BY <1>2, <1>3, <1>4
<1> QED BY <1>1, <1>5, SlotsInWord DEF bins

\* The slots tile the values in order, for every width of the words, every
\* precision and every histogram: index_for, value_for, lowest_equivalent,
\* equivalent_range and median_equivalent agree on every slot that an iterator
\* visits, and the slot is as narrow as sigfig asks for.
THEOREM SlotsTileCorrect == Spec => []SlotsTile
<1>1. HistInv => SlotsTile
  <2> SUFFICES ASSUME h \in Hists, it.index \in DOMAIN h.counts
               PROVE  LET i == it.index
                          first == ValueFor(h.lay, i)
                          width == EquivalentRange(h.lay, first)
                      IN  /\ SlotOf(i) = first..(first + width - 1)
                          /\ i + 1 \in DOMAIN h.counts => ValueFor(h.lay, i + 1) = first + width
                          /\ \A u \in SlotOf(i) : /\ LowestEquivalent(h.lay, u) = first
                                                  /\ EquivalentRange(h.lay, u) = width
                                                  /\ MedianEquivalent(h.lay, u) \in SlotOf(i)
                          /\ width <= 2^h.lay.unit \/ width * Base^h.sigfig <= first
    BY Zenon DEF HistInv, SlotsTile
  <2> DEFINE L == h.lay
             i == it.index
             first == ValueFor(L, i)
             width == EquivalentRange(L, first)
             half == SubBucketHalfCount(L)
             fine == Base^h.sigfig
  <2>1. ValidLayout(L) /\ fine \in Nat /\ fine <= half
    BY HistFacts
  <2>2. i \in Nat
    BY SlotHasPlace
  <2>3. PICK b, s : Place(L, i, b, s) /\ Fits(L, b)
    BY SlotHasPlace
  <2>4. SlotOf(i) = {u \in Words : IndexFor(L, u) = i}
    BY DEF SlotOf
  <2>5. /\ SlotOf(i) = first..(first + width - 1)
        /\ \A u \in SlotOf(i) : /\ LowestEquivalent(L, u) = first
                                /\ EquivalentRange(L, u) = width
                                /\ MedianEquivalent(L, u) \in SlotOf(i)
        /\ width <= 2^L.unit \/ half * width <= first
    <3> HIDE DEF L, i
    <3> QED BY <2>1, <2>2, <2>3, <2>4, SlotIsRange, Zenon
  <2>6. ASSUME i + 1 \in DOMAIN h.counts PROVE ValueFor(L, i + 1) = first + width
    <3>1. PICK c, t : Place(L, i + 1, c, t) /\ Fits(L, c)
      BY <2>6, SlotHasPlace
    <3> HIDE DEF L, i
    <3> QED BY <2>1, <2>2, <2>3, <3>1, NextSlot
  <2>7. half * width <= first => width * fine <= first
    <3>1. width \in Nat /\ first \in Nat /\ half \in Nat
      <4>1. first \in Words /\ width = Width(L, b)
        BY <2>1, <2>2, <2>3, SlotBegins
      <4> QED BY <2>1, <2>3, <4>1, PlaceInWord, HalfFacts, WordType
    <3> HIDE DEF width, first, half, fine
    <3>2. fine * width <= half * width
      BY <2>1, <3>1, MulMono
    <3>3. fine * width = width * fine /\ fine * width \in Nat /\ half * width \in Nat
      BY <2>1, <3>1
    <3> QED BY <3>1, <3>2, <3>3
  <2> QED BY <2>5, <2>6, <2>7, Zenon
<1> QED BY <1>1, HistKept, PTL

-----------------------------------------------------------------------------
(***************************************************************************)
(* The types of what the iterators keep                                    *)
(***************************************************************************)
\* The fields of the pickers.
Pickers == [visited : Int, units : Nat, next : Nat \ {0}, highest : Words, lowest : Words,
            quantile : 0..Denom, reachedEnd : BOOLEAN]

\* The fields of HistogramIterator over g.
Positions(g) == [total : Words, since : Words, at : 0..CounterMax,
                 index : 0..DistinctValues(g), lastPicked : DOMAIN g.counts,
                 maxIndex : {IndexFor(g.lay, MaxOf(g))}, fresh : BOOLEAN, ended : BOOLEAN]

\* TypeOK with the fields it does not name.
TypeInv ==
    /\ h \in Hists /\ kind \in Kinds
    /\ picker \in Pickers /\ it \in Positions(h)

\* The constants, without the histograms.
LEMMA Parameters ==
    /\ CounterMax \in Nat /\ Ticks \in Nat \ {0} /\ Halvings \in Nat
    /\ StepSizes \subseteq Words \ {0} /\ LogBase \in Nat \ {0, 1}
    /\ Kinds \subseteq {"recorded", "all", "linear", "log", "quantile"}
<1>1. CounterMax \in Nat
  BY CounterAssumption
<1>2. Ticks \in Nat \ {0} /\ Halvings \in Nat /\ StepSizes \subseteq Words \ {0}
  BY IteratorsAssumption, Zenon
<1>3. LogBase \in Nat \ {0, 1} /\ Kinds \subseteq {"recorded", "all", "linear", "log", "quantile"}
  BY IteratorsAssumption, Zenon
<1> QED BY <1>1, <1>2, <1>3, Zenon

\* Quantiles are whole parts of a positive number.
LEMMA DenomFacts == Denom \in Nat \ {0} /\ Denom = Ticks * 2^(Halvings + 1)
<1>1. Ticks \in Nat \ {0} /\ Halvings + 1 \in Nat
  BY Parameters
<1>2. 2^(Halvings + 1) \in Nat \ {0}
  BY <1>1, PowerType
<1> QED BY <1>1, <1>2 DEF Denom

\* The slots of a histogram are numbered from 0, and there is one at least.
LEMMA SlotsOf ==
    ASSUME NEW g \in Hists
    PROVE  /\ DistinctValues(g) \in Nat \ {0}
           /\ DOMAIN g.counts = 0..(DistinctValues(g) - 1)
           /\ \A i \in DOMAIN g.counts : g.counts[i] \in 0..CounterMax
<1> DEFINE bins == NumBins(g.lay, BucketsToCover(g.lay, MaxWord))
<1>1. PICK n \in 1..bins : g.counts \in [0..(n - 1) -> 0..CounterMax]
  BY HistFacts
<1>2. n \in Nat \ {0} /\ DOMAIN g.counts = 0..(n - 1)
  BY <1>1
<1>3. Cardinality(0..(n - 1)) = n
  BY <1>2, FS_Interval
<1>4. DistinctValues(g) = n
  BY <1>2, <1>3 DEF DistinctValues
<1> QED BY <1>1, <1>2, <1>4

\* lowest_equivalent of a value is a word.
LEMMA LowestInWord ==
    ASSUME NEW g \in Hists, NEW v \in Words
    PROVE  LowestEquivalent(g.lay, v) \in Words
<1> DEFINE L == g.lay
           b == BucketFor(L, v)
           s == SubBucketFor(L, v, b)
<1>1. ValidLayout(L)
  BY HistFacts
<1>2. b \in Nat /\ s \in Nat /\ L.unit \in Nat
  BY <1>1, PlaceOfValue DEF Place, ValidLayout
<1>3. 2^(b + L.unit) \in Nat /\ 2^W \in Nat \ {0} /\ Words = 0..(2^W - 1)
  BY <1>2, PowerType, WordType
<1>4. LowestEquivalent(L, v) = (s * 2^(b + L.unit)) % 2^W
  BY DEF LowestEquivalent, ValueFromLoc, Shl
<1> HIDE DEF s, b, L
<1>5. s * 2^(b + L.unit) \in Nat
  BY <1>2, <1>3
<1>6. (s * 2^(b + L.unit)) % 2^W \in 0..(2^W - 1)
  BY <1>3, <1>5
<1> QED BY <1>3, <1>4, <1>6 DEF L

\* saturating_add stays in its range.
LEMMA SatAddRange ==
    ASSUME NEW a \in Nat, NEW b \in Nat, NEW top \in Nat
    PROVE  SatAdd(a, b, top) \in 0..top
<1>1. a + b \in Int /\ top \in Int
  OBVIOUS
<1>2. SatAdd(a, b, top) = IF a + b <= top THEN a + b ELSE top
  BY <1>1, MinOfTwo DEF SatAdd
<1> QED BY <1>2

\* The quantile steps of iter_quantiles never pass 1.0: the step is less than what
\* is left after NumHalvings halvings.
LEMMA IncrementFits ==
    ASSUME NEW q \in 0..Denom, q # Denom
    PROVE  Increment(q) \in 0..(Denom - q)
<1> DEFINE T == {n \in 0..(Halvings + 1) : 2^n * (Denom - q) <= Denom}
           N == NumHalvings(q)
           e == 2^(N + 1)
           x == Increment(q)
<1>1. Denom \in Nat \ {0} /\ Ticks \in Nat \ {0} /\ Halvings \in Nat /\ Denom - q \in Nat \ {0}
  BY DenomFacts, Parameters
<1>2. 0 \in T
  <2>1. 2^0 = 1
    OBVIOUS
  <2>2. 2^0 * (Denom - q) <= Denom
    BY <1>1, <2>1
  <2> QED BY <1>1, <2>2
<1>3. \E m \in T : \A y \in T : m >= y
  <2> DEFINE R == {k \in 0..(Halvings + 1) : (Halvings + 1) - k \in T}
  <2>1. R \subseteq Nat /\ (Halvings + 1) \in R
    BY <1>1, <1>2
  <2>2. PICK k \in R : \A y \in R : k <= y
    BY <2>1, LeastNat
  <2>3. ASSUME NEW y \in T PROVE (Halvings + 1) - k >= y
    <3>1. y \in 0..(Halvings + 1)
      OBVIOUS
    <3>2. (Halvings + 1) - y \in R
      <4>1. (Halvings + 1) - ((Halvings + 1) - y) = y /\ (Halvings + 1) - y \in 0..(Halvings + 1)
        BY <1>1, <3>1
      <4> HIDE DEF T
      <4> QED BY <2>3, <4>1
    <3>3. k <= (Halvings + 1) - y /\ k \in Nat
      BY <2>1, <2>2, <3>2
    <3> QED BY <1>1, <3>1, <3>3
  <2>4. (Halvings + 1) - k \in T
    <3> HIDE DEF T
    <3> QED BY <2>2
  <2> HIDE DEF T
  <2> QED BY <2>3, <2>4
<1>4. N \in T /\ \A y \in T : N >= y
  <2>1. N = Max(T)
    BY DEF NumHalvings
  <2> HIDE DEF T, N
  <2> QED BY <1>3, <2>1 DEF Max
<1>5. N \in 0..(Halvings + 1) /\ N + 1 \in Nat
  <2>1. N \in 0..(Halvings + 1)
    <3> HIDE DEF N
    <3> QED BY <1>4
  <2> HIDE DEF N
  <2> QED BY <1>1, <2>1
<1>6. e \in Nat \ {0} /\ x = Denom \div (Ticks * e)
  <2>1. e \in Nat \ {0}
    <3> HIDE DEF N
    <3> QED BY <1>5, PowerType
  <2> QED BY <2>1 DEF Increment
<1> HIDE DEF e, x
<1>7. /\ Ticks * e \in Nat \ {0} /\ x \in Nat /\ x * (Ticks * e) <= Denom
      /\ Denom < x * (Ticks * e) + Ticks * e
  <2>1. Ticks * e \in Nat \ {0}
    BY <1>1, <1>6
  <2> DEFINE d == Ticks * e
  <2> HIDE DEF d
  <2>2. x = Denom \div d /\ d \in Nat \ {0}
    BY <1>6, <2>1 DEF d
  <2>3. x \in Nat /\ x * d <= Denom /\ Denom < x * d + d
    BY <1>1, <2>2, DivFacts
  <2> QED BY <2>1, <2>3 DEF d
<1>8. CASE N = Halvings + 1
  <2>1. Denom < Ticks * e
    <3>1. e = 2 * 2^(Halvings + 1) /\ 2^(Halvings + 1) \in Nat \ {0}
      <4>1. Halvings + 1 \in Nat
        BY <1>1
      <4> QED BY <1>8, <4>1, PowerStep, PowerType DEF e
    <3>2. Denom = Ticks * 2^(Halvings + 1)
      BY DenomFacts
    <3> DEFINE c == 2^(Halvings + 1)
    <3> HIDE DEF c
    <3>3. e = 2 * c /\ c \in Nat \ {0} /\ Denom = Ticks * c
      BY <3>1, <3>2 DEF c
    <3>4. Ticks * e = 2 * (Ticks * c) /\ Ticks * c \in Nat \ {0}
      BY <1>1, <3>3
    <3> QED BY <1>1, <3>3, <3>4
  <2>2. x = 0
    <3>1. x * (Ticks * e) < 1 * (Ticks * e)
      BY <1>1, <1>7, <2>1
    <3>2. x < 1
      BY <1>7, <3>1, MulLess
    <3> QED BY <1>7, <3>2
  <2> QED BY <1>1, <2>2 DEF x
<1>9. CASE N # Halvings + 1
  <2>1. N + 1 \in 0..(Halvings + 1) /\ ~(N + 1 <= N)
    <3> HIDE DEF N
    <3> QED BY <1>1, <1>5, <1>9
  <2>2. N + 1 \notin T
    <3> HIDE DEF T, N
    <3> QED BY <1>4, <1>5, <2>1
  <2>3. ~(e * (Denom - q) <= Denom)
    <3> HIDE DEF N
    <3> QED BY <2>1, <2>2 DEF e
  <2> HIDE DEF N
  <2>4. x * (Ticks * e) < e * (Denom - q)
    BY <1>1, <1>6, <1>7, <2>3
  <2>5. (x * Ticks) * e < (Denom - q) * e
    BY <1>1, <1>6, <1>7, <2>4
  <2>6. x * Ticks < Denom - q
    BY <1>1, <1>6, <1>7, <2>5, MulLess
  <2>7. 1 * x <= Ticks * x
    BY <1>1, <1>7, MulMono
  <2> QED BY <1>1, <1>7, <2>6, <2>7 DEF x
<1> QED BY <1>8, <1>9

\* iter_log's level, after the saturating cast to a word.
LEMMA AsWordLess ==
    ASSUME NEW n \in Nat \ {0}
    PROVE  AsWord(n) - 1 \in Words
<1>1. MaxWord \in Nat /\ MaxWord >= 1 /\ Words = 0..MaxWord
  <2>1. W \in Nat \ {0}
    BY LayoutAssumption, Zenon
  <2>2. 2 * 2^0 <= 2^W /\ 2^W \in Nat
    BY <2>1, PowerMono, PowerType
  <2>3. 2^0 = 1
    OBVIOUS
  <2> QED BY <2>2, <2>3, WordType
<1>2. AsWord(n) = IF n <= MaxWord THEN n ELSE MaxWord
  <2>1. n \in Int /\ MaxWord \in Int
    BY <1>1
  <2> HIDE DEF MaxWord
  <2> QED BY <2>1, MinOfTwo DEF AsWord
<1> QED BY <1>1, <1>2

\* The next level of the linear and the logarithmic picker.
LEMMA NextStepType ==
    ASSUME h \in Hists, NEW p \in Pickers, NEW high \in Words
    PROVE  NextStep(p, high) \in Pickers
<1>1. LowestEquivalent(h.lay, high) \in Words
  BY LowestInWord
<1> QED BY <1>1 DEF NextStep, Pickers

\* Every pick leaves the picker's fields in their types.
LEMMA PickType ==
    ASSUME h \in Hists, kind \in Kinds, NEW p \in Pickers, NEW s, NEW up, s.index \in Nat
    PROVE  Pick(p, s, up).p \in Pickers
<1>1. kind \in {"recorded", "all", "linear", "log", "quantile"}
  BY Parameters
<1>2. Nothing(p).p = p
  BY DEF Nothing
<1>3. PickAll(p, s).p \in Pickers
  <2>1. [p EXCEPT !.visited = s.index] \in Pickers
    BY DEF Pickers
  <2>2. Picked([p EXCEPT !.visited = s.index], None, None).p = [p EXCEPT !.visited = s.index]
    BY DEF Picked
  <2> QED BY <1>2, <2>1, <2>2, Zenon DEF PickAll
<1>4. PickRecorded(p, s).p \in Pickers
  BY <1>2, <1>3, Zenon DEF PickRecorded
<1>5. PickLinear(p, s).p \in Pickers
  <2> DEFINE high == (p.highest + p.units) % 2^W
  <2>1. high \in Words
    <3>1. p.highest \in Nat /\ p.units \in Nat
      BY WordType DEF Pickers
    <3>2. p.highest + p.units \in Nat /\ 2^W \in Nat \ {0} /\ Words = 0..(2^W - 1)
      BY <3>1, WordType
    <3> QED BY <3>2
  <2>2. NextStep(p, high) \in Pickers
    <3> HIDE DEF high
    <3> QED BY <2>1, NextStepType
  <2>3. Picked(NextStep(p, high), p.highest, None).p = NextStep(p, high)
    BY DEF Picked
  <2> QED BY <1>2, <2>2, <2>3, Zenon DEF PickLinear
<1>6. PickLog(p, s).p \in Pickers
  <2> DEFINE next == p.next * LogBase
             q == NextStep(p, AsWord(next) - 1)
             r == [q EXCEPT !.next = next]
  <2>1. next \in Nat \ {0}
    <3>1. p.next \in Nat \ {0} /\ LogBase \in Nat \ {0}
      BY Parameters DEF Pickers
    <3> QED BY <3>1
  <2>2. q \in Pickers
    <3> HIDE DEF next
    <3>1. AsWord(next) - 1 \in Words
      BY <2>1, AsWordLess
    <3> QED BY <3>1, NextStepType
  <2>3. r \in Pickers
    <3> HIDE DEF next, q
    <3> QED BY <2>1, <2>2 DEF Pickers
  <2>4. Picked(r, p.highest, None).p = r
    BY DEF Picked
  <2> QED BY <1>2, <2>3, <2>4, Zenon DEF PickLog
<1>7. PickQuantile(p, s, up).p \in Pickers
  <2> DEFINE r == [p EXCEPT !.reachedEnd = TRUE]
             t == [p EXCEPT !.quantile = IF Increment(@) = 0 THEN Denom ELSE @ + Increment(@)]
  <2>1. r \in Pickers
    BY DEF Pickers
  <2>2. p.quantile # Denom => t \in Pickers
    <3> SUFFICES ASSUME p.quantile # Denom PROVE t \in Pickers
      OBVIOUS
    <3>1. p.quantile \in 0..Denom /\ Denom \in Nat
      BY DenomFacts DEF Pickers
    <3>2. Increment(p.quantile) \in 0..(Denom - p.quantile)
      BY <3>1, IncrementFits
    <3> QED BY <3>1, <3>2 DEF Pickers
  <2>3. Picked(r, None, Denom).p = r /\ Picked(t, None, p.quantile).p = t
    BY DEF Picked
  <2> QED BY <1>2, <2>1, <2>2, <2>3, Zenon DEF PickQuantile
<1>8. CASE kind = "all"
  BY <1>3, <1>8 DEF Pick
<1>9. CASE kind = "recorded"
  BY <1>4, <1>9 DEF Pick
<1>10. CASE kind = "linear"
  BY <1>5, <1>10 DEF Pick
<1>11. CASE kind = "log"
  BY <1>6, <1>11 DEF Pick
<1>12. CASE kind = "quantile"
  BY <1>7, <1>12 DEF Pick
<1> QED BY <1>1, <1>8, <1>9, <1>10, <1>11, <1>12

\* An index that is offered is yielded or passed, and the one after it is at most
\* the end of the counts.
LEMMA OfferType ==
    ASSUME TypeInv, NEW p \in Pickers, NEW s \in Positions(h), NEW up,
           s.index \in DOMAIN h.counts, Offer(p, s, up), UNCHANGED <<h, kind>>
    PROVE  TypeInv'
<1>1. h \in Hists /\ kind \in Kinds /\ h' = h /\ kind' = kind
  BY DEF TypeInv
<1>2. s.index \in Nat /\ s.index + 1 \in 0..DistinctValues(h)
  BY <1>1, SlotsOf
<1>3. picker' \in Pickers
  <2>1. picker' = Pick(p, s, up).p
    BY DEF Offer
  <2> QED BY <1>1, <1>2, <2>1, PickType
<1>4. it' = Yielded(s) \/ it' = [s EXCEPT !.index = @ + 1, !.fresh = TRUE]
  BY DEF Offer
<1>5. it' \in Positions(h)
  <2>1. 0 \in Words
    BY WordType
  <2>2. Yielded(s) \in Positions(h)
    BY <2>1 DEF Yielded, Positions
  <2>3. [s EXCEPT !.index = @ + 1, !.fresh = TRUE] \in Positions(h)
    BY <1>2 DEF Positions
  <2> QED BY <1>4, <2>2, <2>3
<1> QED BY <1>1, <1>3, <1>5, Zenon DEF TypeInv, Positions

\* Before the end of the counts, the index is one of them.
LEMMA IndexBeforeEnd ==
    ASSUME TypeInv, ~AtEnd
    PROVE  it.index \in DOMAIN h.counts
<1>1. it.index \in 0..DistinctValues(h) /\ it.index # DistinctValues(h) /\ h \in Hists
  BY DEF TypeInv, Positions, AtEnd
<1> QED BY <1>1, SlotsOf

\* Counting an index keeps the totals in a word.
LEMMA CountedType ==
    ASSUME TypeInv, it.index \in DOMAIN h.counts
    PROVE  Counted(it) \in Positions(h) /\ Counted(it).index = it.index
<1>1. it \in Positions(h) /\ h \in Hists
  BY DEF TypeInv
<1> DEFINE c == h.counts[it.index]
           t == SatAdd(it.total, c, MaxWord)
           u == SatAdd(it.since, c, MaxWord)
<1>2. c \in 0..CounterMax /\ c \in Nat
  BY <1>1, SlotsOf, Parameters
<1>3. t \in Words /\ u \in Words
  <2>1. it.total \in Words /\ it.since \in Words
    BY <1>1 DEF Positions
  <2>2. it.total \in Nat /\ it.since \in Nat /\ MaxWord \in Nat /\ Words = 0..MaxWord
    BY <2>1, WordType
  <2> HIDE DEF c
  <2> QED BY <1>2, <2>2, SatAddRange
<1>4. Counted(it) = IF ~it.fresh THEN it
                    ELSE [it EXCEPT !.at = c, !.total = t, !.since = u, !.fresh = FALSE]
  BY <1>1 DEF Counted, Positions
<1> HIDE DEF c, t, u
<1>5. CASE it.fresh
  BY <1>1, <1>2, <1>3, <1>4, <1>5 DEF Positions
<1>6. CASE ~it.fresh
  BY <1>1, <1>4, <1>6
<1> QED BY <1>5, <1>6

\* A new iterator.
LEMMA TypeInit == Init => TypeInv
<1> SUFFICES ASSUME Init PROVE TypeInv
  OBVIOUS
<1>1. h \in Hists /\ kind \in Kinds
  BY DEF Init
<1>2. PICK step \in StepSizes :
         picker = [visited |-> None, units |-> step, next |-> step,
                   highest |-> step - 1, lowest |-> LowestEquivalent(h.lay, step - 1),
                   quantile |-> 0, reachedEnd |-> FALSE]
  BY DEF Init
<1>3. step \in Words /\ step \in Nat \ {0} /\ step - 1 \in Words
  BY Parameters, WordType
<1>4. LowestEquivalent(h.lay, step - 1) \in Words
  BY <1>1, <1>3, LowestInWord
<1>5. picker \in Pickers
  BY <1>2, <1>3, <1>4, DenomFacts DEF Pickers, None
<1>6. it = [total |-> 0, since |-> 0, at |-> 0, index |-> 0, lastPicked |-> 0,
            maxIndex |-> IndexFor(h.lay, MaxOf(h)), fresh |-> TRUE, ended |-> FALSE]
  BY DEF Init
<1>7. 0 \in Words /\ 0 \in 0..CounterMax /\ 0 \in 0..DistinctValues(h) /\ 0 \in DOMAIN h.counts
  BY <1>1, SlotsOf, Parameters, WordType
<1>8. it \in Positions(h)
  BY <1>6, <1>7 DEF Positions
<1> QED BY <1>1, <1>5, <1>8 DEF TypeInv

\* Each turn of the loop keeps the types.
LEMMA TypeKept == TypeInv /\ [Next]_vars => TypeInv'
<1> SUFFICES ASSUME TypeInv, [Next]_vars PROVE TypeInv'
  OBVIOUS
<1>1. CASE OutOfSlots
  <2>1. it' \in Positions(h)
    BY <1>1 DEF OutOfSlots, TypeInv, Positions
  <2> QED BY <1>1, <2>1, Zenon DEF OutOfSlots, TypeInv, Positions
<1>2. CASE NoMore
  <2>1. it' \in Positions(h)
    BY <1>2 DEF NoMore, TypeInv, Positions
  <2> QED BY <1>2, <2>1, Zenon DEF NoMore, TypeInv, Positions
<1>3. CASE Continue
  <2>1. AfterMore(picker) \in Pickers
    BY DenomFacts DEF TypeInv, Pickers, AfterMore
  <2>2. it \in Positions(h) /\ it.index \in DOMAIN h.counts
    BY <1>3, IndexBeforeEnd DEF Continue, TypeInv
  <2>3. PICK up \in BOOLEAN : Offer(AfterMore(picker), it, up)
    BY <1>3 DEF Continue
  <2> QED BY <1>3, <2>1, <2>2, <2>3, OfferType DEF Continue
<1>4. CASE Visit
  <2>1. it.index \in DOMAIN h.counts
    BY <1>4, IndexBeforeEnd DEF Visit
  <2>2. Counted(it) \in Positions(h) /\ Counted(it).index \in DOMAIN h.counts
    BY <2>1, CountedType
  <2>3. picker \in Pickers
    BY DEF TypeInv
  <2>4. PICK up \in BOOLEAN : Offer(picker, Counted(it), up)
    BY <1>4 DEF Visit
  <2> QED BY <1>4, <2>2, <2>3, <2>4, OfferType DEF Visit
<1>5. CASE UNCHANGED vars
  BY <1>5, Zenon DEF vars, TypeInv, Positions
<1> QED BY <1>1, <1>2, <1>3, <1>4, <1>5 DEF Next

\* The counters and the pickers' levels fit a word, the quantile of iter_quantiles
\* never passes 1.0 and the index never passes the end of the counts, for every
\* width of the words, histogram, step and number of ticks.
THEOREM TypeCorrect == Spec => []TypeOK
<1>1. TypeInv => TypeOK
  BY DEF TypeInv, TypeOK, Pickers, Positions
<1> QED BY <1>1, TypeInit, TypeKept, PTL DEF Spec

-----------------------------------------------------------------------------
(***************************************************************************)
(* What is counted                                                         *)
(***************************************************************************)
\* The samples in the first n slots.
SumTo(g, n) == SumFunctionOnSet(g.counts, 0..(n - 1))

\* The samples that a sequence of values yielded accounts for.
Gain(o) == SumFunctionOnSet([k \in DOMAIN o |-> o[k].since], DOMAIN o)

\* One more slot.
LEMMA SumToFacts ==
    ASSUME NEW g \in Hists
    PROVE  /\ SumTo(g, 0) = 0
           /\ \A n \in 0..DistinctValues(g) : SumTo(g, n) \in Nat
           /\ \A n \in DOMAIN g.counts : /\ g.counts[n] \in Nat
                                         /\ SumTo(g, n + 1) = SumTo(g, n) + g.counts[n]
<1> DEFINE D == DistinctValues(g)
           f == g.counts
<1>1. D \in Nat \ {0} /\ DOMAIN f = 0..(D - 1) /\ \A i \in 0..(D - 1) : f[i] \in Nat
  <2>1. D \in Nat \ {0} /\ DOMAIN f = 0..(D - 1) /\ \A i \in DOMAIN f : f[i] \in 0..CounterMax
    BY SlotsOf
  <2>2. CounterMax \in Nat
    BY Parameters
  <2> HIDE DEF D, f
  <2> QED BY <2>1, <2>2
<1> HIDE DEF D
<1>2. SumTo(g, 0) = 0
  <2>1. 0..(0 - 1) = {}
    OBVIOUS
  <2> QED BY <2>1, SumEmpty DEF SumTo
<1>3. ASSUME NEW n \in 0..D PROVE IsFiniteSet(0..(n - 1)) /\ \A i \in 0..(n - 1) : f[i] \in Nat
  <2>1. 0 \in Int /\ n - 1 \in Int
    BY <1>1
  <2>2. \A i \in 0..(n - 1) : i \in 0..(D - 1)
    BY <1>1
  <2> QED BY <1>1, <2>1, <2>2, FS_Interval
<1>4. \A n \in 0..D : SumTo(g, n) \in Nat
  BY <1>3, SumType DEF SumTo
<1>5. ASSUME NEW n \in 0..(D - 1) PROVE SumTo(g, n + 1) = SumTo(g, n) + f[n]
  <2>1. n \in 0..D /\ 0..((n + 1) - 1) = 0..(n - 1) \cup {n} /\ n \notin 0..(n - 1)
    BY <1>1
  <2> DEFINE S == 0..(n - 1)
  <2>2. IsFiniteSet(S) /\ \A i \in S : f[i] \in Nat
    BY <1>3, <2>1
  <2> HIDE DEF S
  <2>3. SumFunctionOnSet(f, S \cup {n}) = f[n] + SumFunctionOnSet(f, S)
    BY <1>1, <2>1, <2>2, SumGrow DEF S
  <2>4. SumTo(g, n) \in Nat /\ f[n] \in Nat
    BY <1>1, <1>4, <2>1
  <2>5. SumTo(g, n + 1) = f[n] + SumTo(g, n)
    <3>1. SumTo(g, n + 1) = SumFunctionOnSet(f, S \cup {n})
      BY <2>1, Zenon DEF SumTo, S
    <3> QED BY <2>3, <3>1, Zenon DEF SumTo, S
  <2> QED BY <2>4, <2>5
<1>6. \A n \in DOMAIN f : f[n] \in Nat /\ SumTo(g, n + 1) = SumTo(g, n) + f[n]
  BY <1>1, <1>5, Zenon
<1> QED BY <1>2, <1>4, <1>6 DEF D

\* More slots hold more samples, unless those in between are empty.
LEMMA SumToMono ==
    ASSUME NEW g \in Hists, NEW m \in 0..DistinctValues(g), NEW n \in m..DistinctValues(g)
    PROVE  /\ SumTo(g, m) <= SumTo(g, n)
           /\ (\A i \in m..(n - 1) : g.counts[i] = 0) => SumTo(g, m) = SumTo(g, n)
<1> DEFINE D == DistinctValues(g)
           K == {k \in Nat : m + k <= D =>
                    /\ SumTo(g, m) <= SumTo(g, m + k)
                    /\ (\A i \in m..(m + k - 1) : g.counts[i] = 0) => SumTo(g, m) = SumTo(g, m + k)}
<1>1. D \in Nat \ {0} /\ DOMAIN g.counts = 0..(D - 1)
  BY SlotsOf
<1> HIDE DEF D
<1>2. \A j \in 0..D : SumTo(g, j) \in Nat
  BY SumToFacts DEF D
<1>3. \A j \in 0..(D - 1) : g.counts[j] \in Nat /\ SumTo(g, j + 1) = SumTo(g, j) + g.counts[j]
  BY <1>1, SumToFacts
<1>4. m \in 0..D /\ n \in m..D
  BY DEF D
<1>5. 0 \in K
  <2>1. m + 0 = m /\ SumTo(g, m) \in Nat
    BY <1>1, <1>2, <1>4
  <2> QED BY <2>1
<1>6. ASSUME NEW k \in Nat, k \in K PROVE k + 1 \in K
  <2> SUFFICES ASSUME m + (k + 1) <= D
               PROVE  /\ SumTo(g, m) <= SumTo(g, m + (k + 1))
                      /\ (\A i \in m..(m + (k + 1) - 1) : g.counts[i] = 0)
                           => SumTo(g, m) = SumTo(g, m + (k + 1))
    OBVIOUS
  <2>1. m + k \in 0..(D - 1) /\ m + (k + 1) = (m + k) + 1 /\ m + k <= D
    BY <1>1, <1>4
  <2>2. /\ SumTo(g, m) <= SumTo(g, m + k)
        /\ (\A i \in m..(m + k - 1) : g.counts[i] = 0) => SumTo(g, m) = SumTo(g, m + k)
    BY <1>6, <2>1
  <2>3. /\ g.counts[m + k] \in Nat /\ SumTo(g, (m + k) + 1) = SumTo(g, m + k) + g.counts[m + k]
        /\ SumTo(g, m) \in Nat /\ SumTo(g, m + k) \in Nat
    BY <1>1, <1>2, <1>3, <1>4, <2>1
  <2>4. SumTo(g, m) <= SumTo(g, m + (k + 1))
    BY <2>1, <2>2, <2>3
  <2>5. ASSUME \A i \in m..(m + (k + 1) - 1) : g.counts[i] = 0
        PROVE  SumTo(g, m) = SumTo(g, m + (k + 1))
    <3>1. m + k \in m..(m + (k + 1) - 1) /\ \A i \in m..(m + k - 1) : i \in m..(m + (k + 1) - 1)
      BY <1>1, <1>4
    <3> QED BY <2>1, <2>2, <2>3, <2>5, <3>1
  <2> QED BY <2>4, <2>5
<1>7. Nat \subseteq K
  <2> HIDE DEF K
  <2> QED BY <1>5, <1>6, NatSetInduction
<1>8. n - m \in Nat /\ m + (n - m) = n /\ n <= D
  BY <1>1, <1>4
<1> QED BY <1>7, <1>8

\* The total of a histogram is that of all its slots.
LEMMA TotalIsSum ==
    ASSUME NEW g \in Hists
    PROVE  g.total = SumTo(g, DistinctValues(g)) /\ g.total <= MaxWord
<1> DEFINE D == DistinctValues(g)
           f == g.counts
           N(n) == NonZero(g) \cap (0..(n - 1))
           K == {n \in Nat : n <= D => SumFunctionOnSet(f, N(n)) = SumTo(g, n)}
<1>1. D \in Nat \ {0} /\ DOMAIN f = 0..(D - 1)
  BY SlotsOf
<1>2. SumTo(g, 0) = 0 /\ \A n \in 0..D : SumTo(g, n) \in Nat
  BY SumToFacts
<1>3. \A j \in 0..(D - 1) : f[j] \in Nat /\ SumTo(g, j + 1) = SumTo(g, j) + f[j]
  BY <1>1, SumToFacts
<1>4. NonZero(g) = {i \in 0..(D - 1) : f[i] # 0}
  BY <1>1 DEF NonZero
<1> HIDE DEF D, f
<1>5. 0 \in K
  <2>1. N(0) = {}
    OBVIOUS
  <2> QED BY <1>2, <2>1, SumEmpty
<1>6. ASSUME NEW n \in Nat, n \in K PROVE n + 1 \in K
  <2> SUFFICES ASSUME n + 1 <= D PROVE SumFunctionOnSet(f, N(n + 1)) = SumTo(g, n + 1)
    OBVIOUS
  <2>1. n \in 0..(D - 1) /\ n <= D
    BY <1>1
  <2>2. SumFunctionOnSet(f, N(n)) = SumTo(g, n)
    BY <1>6, <2>1
  <2>3. SumTo(g, n + 1) = SumTo(g, n) + f[n] /\ SumTo(g, n) \in Nat /\ f[n] \in Nat
    BY <1>1, <1>2, <1>3, <2>1
  <2>4. CASE f[n] = 0
    <3>1. N(n + 1) = N(n)
      BY <1>1, <1>4, <2>1, <2>4
    <3> HIDE DEF N
    <3> QED BY <2>2, <2>3, <2>4, <3>1
  <2>5. CASE f[n] # 0
    <3>1. N(n + 1) = N(n) \cup {n} /\ n \notin N(n)
      BY <1>1, <1>4, <2>1, <2>5
    <3>2. IsFiniteSet(N(n)) /\ \A i \in N(n) : f[i] \in Nat
      <4>1. IsFiniteSet(0..(n - 1))
        <5>1. 0 \in Int /\ n - 1 \in Int
          OBVIOUS
        <5> QED BY <5>1, FS_Interval
      <4>2. N(n) \subseteq 0..(n - 1)
        OBVIOUS
      <4>3. \A i \in N(n) : f[i] \in Nat
        BY <1>3, <1>4
      <4> HIDE DEF N
      <4> QED BY <4>1, <4>2, <4>3, FS_Subset
    <3> DEFINE M == N(n)
    <3> HIDE DEF N
    <3>3. IsFiniteSet(M) /\ (\A i \in M : f[i] \in Nat) /\ n \notin M /\ N(n + 1) = M \cup {n}
      BY <3>1, <3>2
    <3> HIDE DEF M
    <3>4. SumFunctionOnSet(f, M \cup {n}) = f[n] + SumFunctionOnSet(f, M)
      BY <2>3, <3>3, SumGrow
    <3> QED BY <2>2, <2>3, <3>3, <3>4 DEF M
  <2> QED BY <2>4, <2>5
<1>7. Nat \subseteq K
  <2> HIDE DEF K
  <2> QED BY <1>5, <1>6, NatSetInduction
<1>8. N(D) = NonZero(g)
  BY <1>1, <1>4
<1>9. SumFunctionOnSet(f, NonZero(g)) = SumTo(g, D)
  <2>1. D \in Nat /\ D <= D
    BY <1>1
  <2>2. SumFunctionOnSet(f, N(D)) = SumTo(g, D)
    <3> HIDE DEF N
    <3> QED BY <1>7, <2>1
  <2> HIDE DEF N
  <2> QED BY <1>8, <2>2
<1>10. Consistent(g) /\ SumCounts(g, NonZero(g)) <= MaxWord
  BY CountsAssumption, Zenon
<1>11. SumCounts(g, NonZero(g)) = SumTo(g, D)
  BY <1>9 DEF SumCounts, f
<1>12. g.total = Min({SumCounts(g, NonZero(g)), MaxWord})
  BY <1>10, Zenon DEF Consistent
<1>13. SumTo(g, D) \in Nat
  BY <1>1, <1>2
<1> DEFINE x == SumTo(g, D)
<1> HIDE DEF x
<1>14. x \in Nat /\ x <= MaxWord /\ MaxWord \in Nat /\ g.total = Min({x, MaxWord})
  BY <1>10, <1>11, <1>12, <1>13, WordType DEF x
<1>15. Min({x, MaxWord}) = IF x <= MaxWord THEN x ELSE MaxWord
  BY <1>14, MinOfTwo
<1> QED BY <1>14, <1>15 DEF x, D

\* The slot of the maximum: it is there, those above it are empty, and it is slot 0
\* exactly when nothing is recorded above that.
LEMMA TopSlot ==
    ASSUME NEW g \in Hists
    PROVE  LET top == IndexFor(g.lay, MaxOf(g))
           IN  /\ top \in DOMAIN g.counts
               /\ \A i \in DOMAIN g.counts : i > top => g.counts[i] = 0
               /\ top > 0 => g.counts[top] # 0
               /\ NonZero(g) \ {0} # {} <=> top > 0
<1> DEFINE D == DistinctValues(g)
           top == IndexFor(g.lay, MaxOf(g))
           T == NonZero(g)
<1>1. D \in Nat \ {0} /\ DOMAIN g.counts = 0..(D - 1)
  BY SlotsOf
<1>2. ValidLayout(g.lay)
  BY HistFacts
<1>3. T = {i \in 0..(D - 1) : g.counts[i] # 0}
  BY <1>1 DEF NonZero
<1>4. Consistent(g)
  BY CountsAssumption, Zenon
<1>5. g.max \in Words
  BY <1>4, Zenon DEF Consistent
<1>6. CASE T = {}
  <2>1. g.max = ORIGINAL_MAX
    BY <1>4, <1>6, Zenon DEF Consistent
  <2>2. top = IndexFor(g.lay, 0)
    BY <2>1 DEF MaxOf, ORIGINAL_MAX
  <2>3. top = 0
    BY <1>2, <2>2, IndexForZero
  <2> HIDE DEF top, D, T
  <2>4. top \in 0..(D - 1) /\ \A i \in 0..(D - 1) : g.counts[i] = 0
    BY <1>1, <1>3, <1>6, <2>3
  <2> QED BY <1>1, <1>6, <2>3, <2>4 DEF top, T
<1>7. CASE T # {}
  <2>1. IndexFor(g.lay, g.max) = Max(T)
    BY <1>4, <1>7, Zenon DEF Consistent
  <2>2. MaxOf(g) = g.max \/ MaxOf(g) = HighestEquivalent(g.lay, g.max)
    BY Zenon DEF MaxOf
  <2>3. top = Max(T)
    BY <1>2, <1>5, <2>1, <2>2, HighestInSlot
  <2> HIDE DEF top, D, T
  <2>4. top \in T /\ \A y \in T : y <= top
    <3>1. T \subseteq 0..D /\ D \in Nat
      BY <1>1, <1>3
    <3>2. Max(T) \in T /\ \A y \in T : y <= Max(T)
      BY <1>7, <3>1, MaxOfNats
    <3> QED BY <2>3, <3>2
  <2>5. top \in 0..(D - 1) /\ g.counts[top] # 0 /\ \A i \in 0..(D - 1) : i > top => g.counts[i] = 0
    BY <1>1, <1>3, <2>4
  <2>6. T \ {0} # {} <=> top > 0
    BY <1>1, <1>3, <2>4
  <2> QED BY <1>1, <2>5, <2>6 DEF top, T
<1> QED BY <1>6, <1>7

\* One more value yielded.
LEMMA GainFacts ==
    ASSUME NEW o, IsSequence(o), \A k \in DOMAIN o : o[k].since \in Nat
    PROVE  /\ Gain(o) \in Nat
           /\ \A e : e.since \in Nat => Gain(Append(o, e)) = Gain(o) + e.since
<1>1. DOMAIN o = 1..Len(o) /\ Len(o) \in Nat
  BY SeqDomain
<1> DEFINE f == [k \in DOMAIN o |-> o[k].since]
           S == DOMAIN o
<1>2. IsFiniteSet(S) /\ \A k \in S : f[k] \in Nat
  <2>1. 1 \in Int /\ Len(o) \in Int
    BY <1>1
  <2> QED BY <1>1, <2>1, FS_Interval
<1>3. Gain(o) \in Nat
  <2> HIDE DEF f, S
  <2>1. SumFunctionOnSet(f, S) \in Nat
    BY <1>2, SumType
  <2> QED BY <2>1 DEF Gain, f, S
<1>4. ASSUME NEW e, e.since \in Nat PROVE Gain(Append(o, e)) = Gain(o) + e.since
  <2> DEFINE a == Append(o, e)
             n == Len(o) + 1
             r == [k \in DOMAIN a |-> a[k].since]
  <2>1. /\ DOMAIN a = S \cup {n} /\ n \notin S
        /\ \A k \in S : r[k] = f[k]
        /\ r[n] = e.since
    <3>1. /\ DOMAIN a = 1..(Len(o) + 1) /\ a[Len(o) + 1] = e
          /\ \A k \in 1..Len(o) : a[k] = o[k]
      BY AppendSeq
    <3> HIDE DEF a
    <3> QED BY <1>1, <3>1
  <2> HIDE DEF a, n, r, f, S
  <2>2. SumFunctionOnSet(r, S \cup {n}) = r[n] + SumFunctionOnSet(f, S)
    BY <1>2, <1>4, <2>1, SumGrow
  <2>3. Gain(a) = SumFunctionOnSet(r, S \cup {n}) /\ Gain(o) = SumFunctionOnSet(f, S)
    BY <2>1 DEF Gain, r, f, S
  <2> QED BY <1>3, <1>4, <2>1, <2>2, <2>3 DEF a
<1> QED BY <1>3, <1>4

-----------------------------------------------------------------------------
(***************************************************************************)
(* A turn of the loop                                                      *)
(***************************************************************************)
\* Index, picker and position as they are offered in this turn, and how the quotient
\* of iter_quantiles is rounded.
Offered(p, s, up) ==
    /\ it.index \in DOMAIN h.counts /\ ~it.ended
    /\ p \in Pickers /\ s \in Positions(h)
    /\ Offer(p, s, up) /\ h' = h /\ kind' = kind
    /\ \/ PastMax /\ More(picker, it.index) /\ p = AfterMore(picker) /\ s = it
       \/ ~PastMax /\ p = picker /\ s = Counted(it)

\* The iterator ends.
Stops ==
    /\ AtEnd \/ (PastMax /\ ~More(picker, it.index))
    /\ it' = [it EXCEPT !.ended = TRUE]
    /\ h' = h /\ kind' = kind /\ picker' = picker /\ out' = out

\* The value that a pick yields.
Value(r, s) ==
    [index |-> s.index,
     value |-> IF r.value # None THEN r.value
               ELSE HighestEquivalent(h.lay, ValueFor(h.lay, s.index)),
     total |-> s.total, quantile |-> r.quantile, count |-> h.counts[s.index],
     since |-> s.since]

\* An index that is passed.
PassedOver(s) == [s EXCEPT !.index = @ + 1, !.fresh = TRUE]

\* A turn ends the iterator or offers the index.
LEMMA StepCases ==
    ASSUME TypeInv, [Next]_vars
    PROVE  Stops \/ (\E p, s, up : Offered(p, s, up)) \/ UNCHANGED vars
<1>1. CASE OutOfSlots
  BY <1>1 DEF OutOfSlots, Stops
<1>2. CASE NoMore
  BY <1>2 DEF NoMore, Stops
<1>3. CASE Continue
  <2>1. AfterMore(picker) \in Pickers
    BY DenomFacts DEF TypeInv, Pickers, AfterMore
  <2>2. it \in Positions(h) /\ it.index \in DOMAIN h.counts
    BY <1>3, IndexBeforeEnd DEF Continue, TypeInv
  <2>3. PICK up \in BOOLEAN : Offer(AfterMore(picker), it, up)
    BY <1>3 DEF Continue
  <2>4. Offered(AfterMore(picker), it, up)
    BY <1>3, <2>1, <2>2, <2>3 DEF Continue, Offered
  <2> QED BY <2>4
<1>4. CASE Visit
  <2>1. it.index \in DOMAIN h.counts
    BY <1>4, IndexBeforeEnd DEF Visit
  <2>2. Counted(it) \in Positions(h)
    BY <2>1, CountedType
  <2>3. picker \in Pickers
    BY DEF TypeInv
  <2>4. PICK up \in BOOLEAN : Offer(picker, Counted(it), up)
    BY <1>4 DEF Visit
  <2>5. Offered(picker, Counted(it), up)
    BY <1>4, <2>1, <2>2, <2>3, <2>4 DEF Visit, Offered
  <2> QED BY <2>5
<1> QED BY <1>1, <1>2, <1>3, <1>4 DEF Next

\* What is offered is yielded, and stays, or is passed.
LEMMA OfferedCases ==
    ASSUME NEW p, NEW s, NEW up, Offered(p, s, up)
    PROVE  /\ picker' = Pick(p, s, up).p
           /\ \/ /\ Pick(p, s, up).some /\ it' = Yielded(s)
                 /\ out' = Append(out, Value(Pick(p, s, up), s))
              \/ ~Pick(p, s, up).some /\ it' = PassedOver(s) /\ out' = out
  BY DEF Offered, Offer, Value, PassedOver

\* What has been counted: the slots before the index, and the index itself when it
\* is not fresh.
Seen == IF it.fresh THEN it.index ELSE it.index + 1

\* The values yielded and what was gathered since account for the running total,
\* which is that of the slots seen; past the maximum nothing is left to yield.
CountInv ==
    /\ IsSequence(out) /\ \A k \in DOMAIN out : out[k].since \in Nat
    /\ Gain(out) + it.since = it.total
    /\ it.lastPicked <= it.index
    /\ ~it.fresh => it.index \in DOMAIN h.counts /\ it.at = h.counts[it.index]
    /\ it.maxIndex > 0 => /\ it.total = SumTo(h, Seen)
                          /\ PastMax => it.since = 0 /\ Seen > it.maxIndex

\* The index as it is offered: counted, unless it is above the maximum.
Ready(s) ==
    /\ s.index = it.index /\ s.lastPicked = it.lastPicked /\ s.maxIndex = it.maxIndex
    /\ s.ended = it.ended
    /\ Gain(out) + s.since = s.total
    /\ it.maxIndex > 0 => s.total = SumTo(h, it.index + 1)
    /\ ~s.fresh => s.at = h.counts[it.index]
    /\ ~PastMax => ~s.fresh /\ it.maxIndex > 0
    /\ PastMax => s = it

\* The types of numbers that the proofs add and compare.
LEMMA PositionNumbers ==
    ASSUME TypeInv
    PROVE  /\ h \in Hists /\ DistinctValues(h) \in Nat \ {0}
           /\ DOMAIN h.counts = 0..(DistinctValues(h) - 1)
           /\ it.index \in 0..DistinctValues(h) /\ it.lastPicked \in 0..(DistinctValues(h) - 1)
           /\ it.maxIndex \in 0..(DistinctValues(h) - 1)
           /\ it.total \in 0..MaxWord /\ it.since \in 0..MaxWord /\ MaxWord \in Nat
           /\ it.at \in Nat /\ it.fresh \in BOOLEAN /\ it.ended \in BOOLEAN
           /\ it.maxIndex = IndexFor(h.lay, MaxOf(h))
<1>1. it \in Positions(h) /\ h \in Hists
  BY DEF TypeInv
<1>2. /\ DistinctValues(h) \in Nat \ {0} /\ DOMAIN h.counts = 0..(DistinctValues(h) - 1)
  BY <1>1, SlotsOf
<1>3. IndexFor(h.lay, MaxOf(h)) \in DOMAIN h.counts
  BY <1>1, TopSlot
<1>4. /\ it.total \in Words /\ it.since \in Words /\ it.at \in 0..CounterMax
      /\ it.index \in 0..DistinctValues(h) /\ it.lastPicked \in DOMAIN h.counts
      /\ it.maxIndex = IndexFor(h.lay, MaxOf(h)) /\ it.fresh \in BOOLEAN /\ it.ended \in BOOLEAN
  BY <1>1 DEF Positions
<1>5. MaxWord \in Nat /\ Words = 0..MaxWord /\ CounterMax \in Nat
  BY WordType, Parameters
<1> QED BY <1>1, <1>2, <1>3, <1>4, <1>5

\* Counting does not saturate: the total is that of a part of the slots.
LEMMA CountedFacts ==
    ASSUME TypeInv, CountInv, ~PastMax, it.index \in DOMAIN h.counts
    PROVE  Ready(Counted(it))
<1> DEFINE D == DistinctValues(h)
           c == h.counts[it.index]
           s == Counted(it)
           n == it.index
<1>1. /\ h \in Hists /\ D \in Nat \ {0} /\ DOMAIN h.counts = 0..(D - 1)
      /\ it.total \in 0..MaxWord /\ it.since \in 0..MaxWord /\ MaxWord \in Nat
      /\ it.fresh \in BOOLEAN /\ it.maxIndex \in Nat /\ it.lastPicked \in Nat
  BY PositionNumbers
<1>2. n \in 0..(D - 1)
  BY <1>1
<1>3. it.maxIndex > 0
  BY <1>1 DEF PastMax
<1>4. Gain(out) \in Nat
  BY GainFacts DEF CountInv
<1>5. /\ Gain(out) + it.since = it.total /\ it.total = SumTo(h, Seen)
      /\ ~it.fresh => it.at = h.counts[it.index]
  BY <1>3 DEF CountInv
<1>6. CASE ~it.fresh
  <2>1. s = it
    BY <1>6 DEF Counted
  <2>2. Seen = n + 1
    BY <1>6 DEF Seen
  <2> QED BY <1>3, <1>5, <1>6, <2>1, <2>2 DEF Ready
<1>7. CASE it.fresh
  <2>1. Seen = n
    BY <1>7 DEF Seen
  <2>2. c \in Nat /\ SumTo(h, n + 1) = SumTo(h, n) + c
    BY <1>1, SumToFacts
  <2>3. SumTo(h, n + 1) <= MaxWord
    <3>1. n + 1 \in 0..D /\ D \in (n + 1)..D
      BY <1>1, <1>2
    <3>2. SumTo(h, n + 1) <= SumTo(h, D) /\ SumTo(h, D) \in Nat /\ SumTo(h, n + 1) \in Nat
      <4>1. D \in 0..D
        BY <1>1
      <4>2. SumTo(h, n + 1) <= SumTo(h, D)
        <5> HIDE DEF n
        <5> QED BY <1>1, <3>1, SumToMono
      <4> HIDE DEF D, n
      <4> QED BY <1>1, <3>1, <4>1, <4>2, SumToFacts DEF D
    <3>3. SumTo(h, D) <= MaxWord
      BY <1>1, TotalIsSum
    <3> DEFINE x == SumTo(h, n + 1)
               y == SumTo(h, D)
    <3> HIDE DEF x, y
    <3>4. x <= y /\ x \in Nat /\ y \in Nat /\ y <= MaxWord
      BY <3>2, <3>3 DEF x, y
    <3>5. x <= MaxWord
      BY <1>1, <3>4
    <3> QED BY <3>5 DEF x
  <2>4. it.total + c <= MaxWord /\ it.since + c <= MaxWord
    <3> DEFINE t == it.total
               u == it.since
    <3> HIDE DEF c
    <3>1. t + c <= MaxWord
      BY <1>5, <2>1, <2>2, <2>3
    <3>2. u <= t
      BY <1>1, <1>4, <1>5
    <3> QED BY <1>1, <2>2, <3>1, <3>2
  <2>5. SatAdd(it.total, c, MaxWord) = it.total + c /\ SatAdd(it.since, c, MaxWord) = it.since + c
    <3> HIDE DEF c
    <3>1. it.total + c \in Int /\ it.since + c \in Int /\ MaxWord \in Int
      BY <1>1, <2>2
    <3> QED BY <2>4, <3>1, MinOfTwo DEF SatAdd
  <2>6. s = [it EXCEPT !.at = c, !.total = it.total + c, !.since = it.since + c, !.fresh = FALSE]
    <3>1. it \in Positions(h)
      BY DEF TypeInv
    <3> QED BY <1>7, <2>5, <3>1 DEF Counted, Positions
  <2>7. /\ s.index = it.index /\ s.lastPicked = it.lastPicked /\ s.maxIndex = it.maxIndex
        /\ s.ended = it.ended /\ s.fresh = FALSE /\ s.at = c
        /\ s.total = it.total + c /\ s.since = it.since + c
    <3>1. it \in Positions(h)
      BY DEF TypeInv
    <3> HIDE DEF c, s
    <3> QED BY <2>6, <3>1 DEF Positions
  <2>8. Gain(out) + (it.since + c) = it.total + c
    <3> HIDE DEF c
    <3> QED BY <1>1, <1>4, <1>5, <2>2
  <2>9. it.total + c = SumTo(h, n + 1)
    BY <1>5, <2>1, <2>2
  <2> HIDE DEF c, s
  <2>10. Ready(s)
    BY <1>3, <2>7, <2>8, <2>9 DEF Ready, c, n
  <2> QED BY <2>10 DEF s
<1> QED BY <1>1, <1>6, <1>7

\* Whatever is offered is ready.
LEMMA OfferedReady ==
    ASSUME TypeInv, CountInv, NEW p, NEW s, NEW up, Offered(p, s, up)
    PROVE  Ready(s)
<1> DEFINE D == DistinctValues(h)
           n == it.index
<1>1. /\ h \in Hists /\ D \in Nat \ {0} /\ DOMAIN h.counts = 0..(D - 1) /\ n \in 0..(D - 1)
      /\ it.maxIndex \in 0..(D - 1) /\ it.fresh \in BOOLEAN
  BY PositionNumbers DEF Offered
<1>2. CASE ~PastMax
  BY <1>2, CountedFacts DEF Offered
<1>3. CASE PastMax
  <2>1. s = it
    BY <1>3 DEF Offered
  <2>2. it.maxIndex > 0 => it.total = SumTo(h, n + 1)
    <3> SUFFICES ASSUME it.maxIndex > 0 PROVE it.total = SumTo(h, n + 1)
      OBVIOUS
    <3>1. it.total = SumTo(h, Seen) /\ Seen > it.maxIndex
      BY <1>3 DEF CountInv
    <3>2. CASE ~it.fresh
      BY <3>1, <3>2 DEF Seen
    <3>3. CASE it.fresh
      <4>1. Seen = n /\ n > it.maxIndex
        BY <3>1, <3>3 DEF Seen
      <4>2. h.counts[n] = 0
        BY <1>1, <4>1, TopSlot, PositionNumbers
      <4>3. SumTo(h, n + 1) = SumTo(h, n) + 0
        BY <1>1, <4>2, SumToFacts
      <4>4. SumTo(h, n) \in Nat
        <5>1. n \in 0..D
          BY <1>1
        <5> QED BY <1>1, <5>1, SumToFacts
      <4> QED BY <3>1, <4>1, <4>3, <4>4
    <3> QED BY <1>1, <3>2, <3>3
  <2> QED BY <1>3, <2>1, <2>2 DEF Ready, CountInv
<1> QED BY <1>2, <1>3

\* The accounts are right when a value is yielded.
LEMMA YieldCounts ==
    ASSUME TypeInv, CountInv, NEW p, NEW s, NEW up, Offered(p, s, up), NEW r,
           it' = Yielded(s), out' = Append(out, Value(r, s))
    PROVE  CountInv'
<1> DEFINE D == DistinctValues(h)
           n == it.index
           e == Value(r, s)
<1>1. /\ h \in Hists /\ D \in Nat \ {0} /\ DOMAIN h.counts = 0..(D - 1) /\ n \in 0..(D - 1)
      /\ it.maxIndex \in 0..(D - 1) /\ it.fresh \in BOOLEAN /\ MaxWord \in Nat
  BY PositionNumbers DEF Offered
<1>2. Ready(s) /\ s \in Positions(h) /\ h' = h
  BY OfferedReady DEF Offered
<1>3. s.since \in Nat /\ s.total \in Nat /\ s.fresh \in BOOLEAN
  BY <1>1, <1>2, WordType DEF Positions
<1>4. /\ it'.total = s.total /\ it'.since = 0 /\ it'.at = s.at /\ it'.index = n
      /\ it'.lastPicked = n /\ it'.maxIndex = it.maxIndex /\ it'.fresh = s.fresh
  BY <1>2 DEF Yielded, Ready, Positions
<1>5. e.since = s.since
  BY DEF Value
<1> HIDE DEF e
<1>6. IsSequence(out') /\ \A k \in DOMAIN out' : out'[k].since \in Nat
  <2>1. /\ IsSequence(out) /\ \A k \in DOMAIN out : out[k].since \in Nat
    BY DEF CountInv
  <2>2. /\ IsSequence(Append(out, e)) /\ DOMAIN Append(out, e) = 1..(Len(out) + 1)
        /\ DOMAIN out = 1..Len(out) /\ Len(out) \in Nat
        /\ \A k \in 1..Len(out) : Append(out, e)[k] = out[k]
        /\ Append(out, e)[Len(out) + 1] = e
    BY <2>1, AppendSeq
  <2>3. \A k \in 1..(Len(out) + 1) : k \in 1..Len(out) \/ k = Len(out) + 1
    BY <2>2
  <2>4. out' = Append(out, e)
    BY DEF e
  <2> QED BY <1>3, <1>5, <2>1, <2>2, <2>3, <2>4
<1>7. Gain(out') + it'.since = it'.total
  <2>1. Gain(out) \in Nat /\ Gain(Append(out, e)) = Gain(out) + s.since
    BY <1>3, <1>5, GainFacts DEF CountInv
  <2>2. Gain(out) + s.since = s.total
    BY <1>2 DEF Ready
  <2> QED BY <1>3, <1>4, <2>1, <2>2 DEF e
<1>8. ~it'.fresh => it'.index \in DOMAIN h.counts /\ it'.at = h.counts[it'.index]
  BY <1>1, <1>2, <1>4 DEF Ready
<1>9. ASSUME it.maxIndex > 0
      PROVE  it'.total = SumTo(h, Seen') /\ (PastMax' => Seen' > it'.maxIndex)
  <2>1. s.total = SumTo(h, n + 1)
    BY <1>2, <1>9 DEF Ready
  <2>2. CASE ~s.fresh
    <3>1. Seen' = n + 1
      BY <1>4, <2>2 DEF Seen
    <3>2. PastMax' => n >= it.maxIndex
      BY <1>4 DEF PastMax
    <3> QED BY <1>1, <1>4, <2>1, <3>1, <3>2
  <2>3. CASE s.fresh
    <3>1. PastMax /\ s = it
      BY <1>2, <2>3 DEF Ready
    <3>2. Seen' = Seen
      BY <1>4, <3>1 DEF Seen
    <3>3. it.total = SumTo(h, Seen) /\ Seen > it.maxIndex
      BY <1>9, <3>1 DEF CountInv
    <3> QED BY <1>4, <3>1, <3>2, <3>3
  <2> QED BY <1>3, <2>2, <2>3
<1>10. n <= n /\ h'.counts = h.counts
  BY <1>1, <1>2
<1> QED BY <1>2, <1>4, <1>6, <1>7, <1>8, <1>9, <1>10 DEF CountInv

\* And when an index is passed.
LEMMA PassCounts ==
    ASSUME TypeInv, CountInv, NEW p, NEW s, NEW up, Offered(p, s, up), it' = PassedOver(s), out' = out
    PROVE  CountInv'
<1> DEFINE D == DistinctValues(h)
           n == it.index
<1>1. /\ h \in Hists /\ D \in Nat \ {0} /\ DOMAIN h.counts = 0..(D - 1) /\ n \in 0..(D - 1)
      /\ it.maxIndex \in 0..(D - 1) /\ it.fresh \in BOOLEAN /\ it.lastPicked \in 0..(D - 1)
  BY PositionNumbers DEF Offered
<1>2. Ready(s) /\ s \in Positions(h) /\ h' = h
  BY OfferedReady DEF Offered
<1>3. /\ it'.total = s.total /\ it'.since = s.since /\ it'.index = n + 1
      /\ it'.lastPicked = it.lastPicked /\ it'.maxIndex = it.maxIndex /\ it'.fresh = TRUE
  BY <1>2 DEF PassedOver, Ready, Positions
<1>4. Seen' = n + 1
  BY <1>3 DEF Seen
<1>5. PastMax' <=> PastMax
  BY <1>3 DEF PastMax
<1>6. it.lastPicked <= n /\ it.lastPicked <= n + 1
  BY <1>1 DEF CountInv
<1>7. ASSUME it.maxIndex > 0
      PROVE  it'.total = SumTo(h, Seen') /\ (PastMax' => it'.since = 0 /\ Seen' > it'.maxIndex)
  <2>1. it'.total = SumTo(h, Seen')
    BY <1>2, <1>3, <1>4, <1>7 DEF Ready
  <2>2. ASSUME PastMax PROVE it'.since = 0 /\ n + 1 > it.maxIndex
    <3>1. s = it /\ it.since = 0 /\ Seen > it.maxIndex
      BY <1>2, <1>7, <2>2 DEF Ready, CountInv
    <3>2. Seen = n \/ Seen = n + 1
      BY DEF Seen
    <3> QED BY <1>1, <1>3, <3>1, <3>2
  <2> QED BY <1>3, <1>4, <1>5, <2>1, <2>2
<1>8. Gain(out') + it'.since = it'.total
  BY <1>2, <1>3 DEF Ready
<1>9. IsSequence(out) /\ \A k \in DOMAIN out : out[k].since \in Nat
  BY DEF CountInv
<1> QED BY <1>2, <1>3, <1>6, <1>7, <1>8, <1>9 DEF CountInv

\* The accounts are right in every turn.
LEMMA CountKept ==
    ASSUME TypeInv, CountInv, [Next]_vars
    PROVE  CountInv'
<1>1. CASE Stops
  <2>1. it \in Positions(h)
    BY DEF TypeInv
  <2>2. /\ it'.total = it.total /\ it'.since = it.since /\ it'.index = it.index /\ it'.at = it.at
        /\ it'.lastPicked = it.lastPicked /\ it'.maxIndex = it.maxIndex /\ it'.fresh = it.fresh
    BY <1>1, <2>1 DEF Stops, Positions
  <2>3. h' = h /\ out' = out
    BY <1>1 DEF Stops
  <2>4. Seen' = Seen /\ (PastMax' <=> PastMax)
    BY <2>2 DEF Seen, PastMax
  <2> QED BY <2>2, <2>3, <2>4 DEF CountInv
<1>2. ASSUME NEW p, NEW s, NEW up, Offered(p, s, up) PROVE CountInv'
  BY <1>2, OfferedCases, YieldCounts, PassCounts
<1>3. CASE UNCHANGED vars
  BY <1>3 DEF vars, CountInv, Seen, PastMax
<1> QED BY <1>1, <1>2, <1>3, StepCases

\* At the start nothing is counted.
LEMMA CountInit == Init => CountInv
<1> SUFFICES ASSUME Init PROVE CountInv
  OBVIOUS
<1>1. /\ h \in Hists /\ out = <<>>
      /\ it = [total |-> 0, since |-> 0, at |-> 0, index |-> 0, lastPicked |-> 0,
               maxIndex |-> IndexFor(h.lay, MaxOf(h)), fresh |-> TRUE, ended |-> FALSE]
  BY DEF Init
<1>2. /\ it.total = 0 /\ it.since = 0 /\ it.index = 0 /\ it.lastPicked = 0 /\ it.fresh = TRUE
      /\ it.maxIndex = IndexFor(h.lay, MaxOf(h))
  BY <1>1
<1>3. IsSequence(out) /\ DOMAIN out = {}
  <2>1. <<>> \in Seq({})
    OBVIOUS
  <2>2. IsSequence(<<>>)
    BY <2>1, SeqIsSequence
  <2>3. Len(<<>>) = 0 /\ 1..0 = {}
    OBVIOUS
  <2>4. DOMAIN <<>> = {}
    BY <2>2, <2>3, SeqDomain
  <2> QED BY <1>1, <2>2, <2>4
<1>4. Gain(out) = 0
  BY <1>3, SumEmpty DEF Gain
<1>5. it.maxIndex > 0 => ~PastMax
  <2>1. it.maxIndex \in Nat
    <3>1. IndexFor(h.lay, MaxOf(h)) \in DOMAIN h.counts
      BY <1>1, TopSlot
    <3> QED BY <1>1, <1>2, <3>1, SlotsOf
  <2> QED BY <1>2, <2>1 DEF PastMax
<1>6. SumTo(h, Seen) = 0
  BY <1>1, <1>2, SumToFacts DEF Seen
<1> QED BY <1>2, <1>3, <1>4, <1>5, <1>6 DEF CountInv

\* Everything is counted with the slot of the maximum, and not before.
LEMMA FullTotal ==
    ASSUME NEW g \in Hists, NEW m, m = IndexFor(g.lay, MaxOf(g)), m > 0
    PROVE  /\ g.total \in Nat \ {0} /\ m \in 0..(DistinctValues(g) - 1)
           /\ \A n \in 0..m : SumTo(g, n) < g.total
           /\ \A n \in (m + 1)..DistinctValues(g) : SumTo(g, n) = g.total
<1> DEFINE D == DistinctValues(g)
           c == g.counts[m]
<1>1. D \in Nat \ {0} /\ DOMAIN g.counts = 0..(D - 1)
  BY SlotsOf
<1>2. /\ m \in 0..(D - 1) /\ c # 0
      /\ \A i \in 0..(D - 1) : i > m => g.counts[i] = 0
  BY <1>1, TopSlot
<1>3. g.total = SumTo(g, D)
  BY TotalIsSum
<1>4. /\ c \in Nat /\ SumTo(g, m + 1) = SumTo(g, m) + c
      /\ \A n \in 0..D : SumTo(g, n) \in Nat
  BY <1>1, <1>2, SumToFacts
<1> HIDE DEF D, c
<1>5. ASSUME NEW n \in (m + 1)..D PROVE SumTo(g, n) = g.total
  <2>1. n \in 0..D /\ D \in n..D /\ \A i \in n..(D - 1) : g.counts[i] = 0
    BY <1>1, <1>2
  <2>2. SumTo(g, n) = SumTo(g, D)
    BY <2>1, SumToMono DEF D
  <2> QED BY <1>3, <2>2
<1>6. m + 1 \in (m + 1)..D /\ m \in 0..D
  BY <1>1, <1>2
<1>7. SumTo(g, m) \in Nat /\ SumTo(g, m) < g.total /\ g.total \in Nat \ {0}
  <2>1. SumTo(g, m + 1) = g.total
    BY <1>5, <1>6
  <2>2. SumTo(g, m) \in Nat
    BY <1>4, <1>6
  <2> QED BY <1>2, <1>4, <2>1, <2>2
<1>8. ASSUME NEW n \in 0..m PROVE SumTo(g, n) < g.total
  <2>1. n \in 0..D /\ m \in n..D
    BY <1>1, <1>2
  <2>2. SumTo(g, n) <= SumTo(g, m)
    BY <2>1, SumToMono DEF D
  <2>3. SumTo(g, n) \in Nat
    BY <1>4, <2>1
  <2> QED BY <1>7, <2>2, <2>3
<1> QED BY <1>2, <1>5, <1>7, <1>8 DEF D

\* What the pickers know of the position: iter_all and iter_recorded the index they
\* picked last, iter_quantiles that it has reached the end; and that no iterator
\* leaves the maximum behind without having picked a slot from there on, which those
\* with steps ensure at the last slot.
PickerInv ==
    /\ kind \in {"linear", "log"} => it.index < DistinctValues(h)
    /\ kind \in {"all", "recorded"} => picker.visited \in {None, it.lastPicked}
    /\ kind = "recorded" /\ it.lastPicked > 0 => picker.visited = it.lastPicked
    /\ it.maxIndex > 0 =>
         /\ kind \in {"all", "recorded"} /\ it.index > it.maxIndex => PastMax
         /\ kind = "quantile" => it.index <= it.maxIndex /\ (picker.reachedEnd => PastMax)
         /\ it.ended => PastMax

\* The five pickers, one by one.
LEMMA PickKinds ==
    ASSUME NEW p, NEW s, NEW up
    PROVE  /\ kind = "all" => Pick(p, s, up) = PickAll(p, s)
           /\ kind = "recorded" => Pick(p, s, up) = PickRecorded(p, s)
           /\ kind = "linear" => Pick(p, s, up) = PickLinear(p, s)
           /\ kind = "log" => Pick(p, s, up) = PickLog(p, s)
           /\ kind = "quantile" => Pick(p, s, up) = PickQuantile(p, s, up)
  BY DEF Pick

\* iter_all and iter_recorded pick an index once; iter_recorded only with a count.
LEMMA PickIndex ==
    ASSUME kind \in {"all", "recorded"}, NEW p \in Pickers, NEW s, NEW up
    PROVE  /\ Pick(p, s, up).some <=> p.visited # s.index /\ (kind = "recorded" => s.at # 0)
           /\ Pick(p, s, up).p.visited = IF Pick(p, s, up).some THEN s.index ELSE p.visited
<1>1. Nothing(p).some = FALSE /\ Nothing(p).p = p
  BY DEF Nothing
<1>2. /\ Picked([p EXCEPT !.visited = s.index], None, None).some = TRUE
      /\ Picked([p EXCEPT !.visited = s.index], None, None).p.visited = s.index
  BY DEF Picked, Pickers
<1>3. CASE kind = "all"
  <2>1. Pick(p, s, up) = PickAll(p, s)
    BY <1>3, PickKinds
  <2> QED BY <1>1, <1>2, <1>3, <2>1 DEF PickAll
<1>4. CASE kind = "recorded"
  <2>1. Pick(p, s, up) = PickRecorded(p, s)
    BY <1>4, PickKinds
  <2> QED BY <1>1, <1>2, <1>4, <2>1 DEF PickRecorded, PickAll
<1> QED BY <1>3, <1>4

\* iter_linear and iter_log pick the last index whatever their level is.
LEMMA PickStep ==
    ASSUME kind \in {"linear", "log"}, NEW p, NEW s, NEW up
    PROVE  Pick(p, s, up).some <=> StepReached(p, s)
<1>1. \A q, v : Picked(q, v, None).some = TRUE /\ Nothing(p).some = FALSE
  BY DEF Picked, Nothing
<1>2. kind = "linear" => Pick(p, s, up) = PickLinear(p, s)
  BY PickKinds
<1>3. kind = "log" => Pick(p, s, up) = PickLog(p, s)
  BY PickKinds
<1> QED BY <1>1, <1>2, <1>3 DEF PickLinear, PickLog

\* iter_quantiles picks a slot with a count that reaches the quantile, and goes on to
\* a larger quantile, or has reached the end when that was 1.0.
LEMMA PickQuantiles ==
    ASSUME kind = "quantile", NEW p \in Pickers, NEW s, NEW up
    PROVE  LET r == Pick(p, s, up)
           IN  /\ r.some <=> s.at # 0 /\ ~p.reachedEnd /\ Reaches(p, s, up)
               /\ r.some => /\ r.quantile = p.quantile
                            /\ r.p.reachedEnd <=> p.quantile = Denom
                            /\ r.p.quantile \in p.quantile..Denom
                            /\ p.quantile # Denom => p.quantile < r.p.quantile
               /\ ~r.some => r.p = p
<1> DEFINE r == Pick(p, s, up)
           a == [p EXCEPT !.reachedEnd = TRUE]
           b == [p EXCEPT !.quantile = IF Increment(@) = 0 THEN Denom ELSE @ + Increment(@)]
           hit == s.at # 0 /\ ~p.reachedEnd /\ Reaches(p, s, up)
<1>1. r = IF ~hit THEN Nothing(p)
          ELSE IF p.quantile = Denom THEN Picked(a, None, Denom)
          ELSE Picked(b, None, p.quantile)
  <2>1. r = PickQuantile(p, s, up)
    BY PickKinds
  <2> QED BY <2>1, Zenon DEF PickQuantile
<1>2. p.quantile \in 0..Denom /\ Denom \in Nat \ {0} /\ p.reachedEnd \in BOOLEAN
  BY DenomFacts DEF Pickers
<1>3. Nothing(p).some = FALSE /\ Nothing(p).p = p
  BY DEF Nothing
<1>4. /\ Picked(a, None, Denom).some = TRUE /\ Picked(a, None, Denom).p = a
      /\ Picked(a, None, Denom).quantile = Denom
  BY DEF Picked
<1>5. /\ Picked(b, None, p.quantile).some = TRUE /\ Picked(b, None, p.quantile).p = b
      /\ Picked(b, None, p.quantile).quantile = p.quantile
  BY DEF Picked
<1>6. a.reachedEnd = TRUE /\ a.quantile = p.quantile
  BY DEF Pickers
<1>7. /\ b.reachedEnd = p.reachedEnd
      /\ b.quantile = IF Increment(p.quantile) = 0 THEN Denom ELSE p.quantile + Increment(p.quantile)
  BY DEF Pickers
<1> HIDE DEF a, b, r
<1>8. p.quantile # Denom => b.quantile \in p.quantile..Denom /\ p.quantile < b.quantile
  <2> SUFFICES ASSUME p.quantile # Denom
               PROVE  b.quantile \in p.quantile..Denom /\ p.quantile < b.quantile
    OBVIOUS
  <2>1. Increment(p.quantile) \in 0..(Denom - p.quantile)
    BY <1>2, IncrementFits
  <2> QED BY <1>2, <1>7, <2>1
<1>9. CASE ~hit
  <2>1. r.some = FALSE /\ r.p = p
    BY <1>1, <1>3, <1>9
  <2> HIDE DEF hit
  <2>2. r.some <=> hit
    BY <1>9, <2>1
  <2> QED BY <2>1, <2>2 DEF r, hit
<1>10. CASE hit /\ p.quantile = Denom
  <2>1. r.some = TRUE /\ r.p = a /\ r.quantile = Denom
    BY <1>1, <1>4, <1>10
  <2>2. a.quantile \in p.quantile..Denom
    BY <1>2, <1>6, <1>10
  <2> QED BY <1>6, <1>10, <2>1, <2>2 DEF r
<1>11. CASE hit /\ p.quantile # Denom
  <2>1. r.some = TRUE /\ r.p = b /\ r.quantile = p.quantile
    BY <1>1, <1>5, <1>11
  <2>2. ~b.reachedEnd
    BY <1>7, <1>11
  <2> QED BY <1>8, <1>11, <2>1, <2>2 DEF r
<1> QED BY <1>9, <1>10, <1>11

\* What the quotient reaches: all that is reached without rounding, and what at most
\* one more sample would reach.
LEMMA ReachesFacts ==
    ASSUME TypeInv, kind = "quantile", NEW p \in Pickers, NEW s, NEW up,
           s.total \in Nat, h.total \in Nat
    PROVE  /\ Denom \in Nat \ {0} /\ h.total <= Denom
           /\ ~(s.total * Denom < p.quantile * h.total) => Reaches(p, s, up)
           /\ Reaches(p, s, up) => (s.total + 1) * Denom >= p.quantile * h.total
           /\ Reaches(p, s, up) /\ p.quantile = Denom => s.total >= h.total
<1> DEFINE x == s.total
           l == h.total
           q == p.quantile
           d == Denom
<1>1. d \in Nat \ {0} /\ q \in 0..d /\ x \in Nat /\ l \in Nat
  BY DenomFacts DEF Pickers
<1>2. l <= d
  BY FloatAssumption DEF TypeInv
<1>3. Reaches(p, s, up) => x * d >= q * l \/ x * d > (q - 1) * l
  BY DEF Reaches
<1>4. x * d >= q * l => Reaches(p, s, up)
  BY DEF Reaches
<1> HIDE DEF x, l, q, d
<1>5. x * d \in Int /\ q * l \in Int /\ (q - 1) * l \in Int /\ d * l \in Int /\ l * d \in Int
  BY <1>1
<1>6. (x + 1) * d = x * d + d /\ (q - 1) * l = q * l - l /\ d * l = l * d
  BY <1>1
<1>7. x * d >= q * l \/ x * d > (q - 1) * l => (x + 1) * d >= q * l
  BY <1>1, <1>2, <1>5, <1>6
<1>8. ASSUME q = d, x < l, x * d >= q * l \/ x * d > (q - 1) * l PROVE FALSE
  <2>1. (x + 1) * d <= l * d
    <3>1. x + 1 \in Nat /\ x + 1 <= l
      BY <1>1, <1>8
    <3> QED BY <1>1, <3>1, MulMono
  <2>2. q * l = l * d
    BY <1>6, <1>8
  <2> HIDE DEF x, l, q, d
  <2> QED BY <1>1, <1>2, <1>5, <1>6, <1>8, <2>1, <2>2
<1>9. ~(x * d < q * l) => x * d >= q * l
  BY <1>5
<1>10. q = d /\ (x * d >= q * l \/ x * d > (q - 1) * l) => x >= l
  BY <1>1, <1>8
<1> QED BY <1>1, <1>2, <1>3, <1>4, <1>7, <1>9, <1>10 DEF x, l, q, d

\* What was picked last stays between 0 and the index, and what is left unpicked is
\* above the maximum.
LEMMA PickerKept ==
    ASSUME TypeInv, CountInv, PickerInv, NEW p, NEW s, NEW up, Offered(p, s, up)
    PROVE  PickerInv'
<1> DEFINE D == DistinctValues(h)
           n == it.index
           m == it.maxIndex
           r == Pick(p, s, up)
<1>1. /\ h \in Hists /\ D \in Nat \ {0} /\ DOMAIN h.counts = 0..(D - 1) /\ n \in 0..(D - 1)
      /\ m \in 0..(D - 1) /\ it.fresh \in BOOLEAN /\ it.lastPicked \in 0..(D - 1)
      /\ m = IndexFor(h.lay, MaxOf(h))
  BY PositionNumbers DEF Offered
<1>2. /\ Ready(s) /\ s \in Positions(h) /\ h' = h /\ kind' = kind /\ ~it.ended
      /\ p \in Pickers /\ picker \in Pickers
  BY OfferedReady DEF Offered, TypeInv
<1>3. /\ kind \in {"all", "recorded", "linear", "log"} => p = picker
      /\ p.reachedEnd = picker.reachedEnd /\ p.quantile \in 0..Denom
      /\ kind = "quantile" /\ PastMax => ~picker.reachedEnd
  <2>1. CASE PastMax
    <3>1. p = AfterMore(picker) /\ More(picker, n)
      BY <2>1 DEF Offered
    <3>2. kind \in {"all", "recorded", "linear", "log"} => p = picker
      BY <3>1 DEF AfterMore
    <3>3. p.reachedEnd = picker.reachedEnd
      BY <1>2, <3>1 DEF AfterMore, Pickers
    <3>4. kind = "quantile" => ~picker.reachedEnd
      BY <3>1 DEF More
    <3> QED BY <1>2, <3>2, <3>3, <3>4 DEF Pickers
  <2>2. CASE ~PastMax
    BY <1>2, <2>2 DEF Offered, Pickers
  <2> QED BY <2>1, <2>2
<1>4. picker' = r.p /\ (r.some => it' = Yielded(s)) /\ (~r.some => it' = PassedOver(s))
  BY OfferedCases
<1>5. r.some => /\ it'.index = n /\ it'.lastPicked = n /\ it'.maxIndex = m /\ it'.ended = FALSE
  BY <1>2, <1>4 DEF Yielded, Ready, Positions
<1>6. ~r.some => /\ it'.index = n + 1 /\ it'.lastPicked = it.lastPicked /\ it'.maxIndex = m
                 /\ it'.ended = FALSE
  BY <1>2, <1>4 DEF PassedOver, Ready, Positions
<1>7. it'.maxIndex = m /\ it'.ended = FALSE /\ (r.some \/ ~r.some)
  BY <1>5, <1>6
<1>8. m > 0 => h.counts[m] # 0
  BY <1>1, TopSlot
<1> HIDE DEF r
<1>9. PastMax => PastMax'
  <2>1. it.lastPicked <= n
    BY DEF CountInv
  <2> QED BY <1>1, <1>5, <1>6, <2>1 DEF PastMax
<1>10. kind \in {"linear", "log"} => it'.index < D
  <2> SUFFICES ASSUME kind \in {"linear", "log"}, ~r.some PROVE n + 1 < D
    BY <1>1, <1>5, <1>6
  <2>1. ~StepReached(p, s)
    BY PickStep DEF r
  <2>2. n # D - 1
    BY <1>2, <2>1 DEF StepReached, LastIndex, Ready
  <2> QED BY <1>1, <2>2
<1>11. ASSUME kind \in {"all", "recorded"}
       PROVE  /\ picker'.visited \in {None, it'.lastPicked}
              /\ kind = "recorded" /\ it'.lastPicked > 0 => picker'.visited = it'.lastPicked
              /\ m > 0 /\ it'.index > m => PastMax'
  <2>1. /\ p = picker /\ s.index = n
        /\ r.some <=> p.visited # s.index /\ (kind = "recorded" => s.at # 0)
        /\ r.p.visited = IF r.some THEN s.index ELSE p.visited
    BY <1>2, <1>3, <1>11, PickIndex DEF r, Ready
  <2>2. CASE r.some
    <3>1. m > 0 /\ n > m => PastMax'
      BY <1>1, <1>5, <2>2 DEF PastMax
    <3> QED BY <1>4, <1>5, <2>1, <2>2, <3>1
  <2>3. CASE ~r.some
    <3>1. ASSUME m > 0, n + 1 > m, ~PastMax PROVE FALSE
      <4>1. n = m
        <5>1. ~(n > m)
          BY <1>11, <3>1 DEF PickerInv
        <5> QED BY <1>1, <3>1, <5>1
      <4>2. s.at = h.counts[m]
        BY <1>2, <3>1, <4>1 DEF Ready
      <4>3. p.visited = n
        BY <1>8, <2>1, <2>3, <3>1, <4>2
      <4>4. it.lastPicked = n
        <5>1. p.visited # None
          BY <1>1, <4>3 DEF None
        <5> QED BY <1>11, <2>1, <4>3, <5>1 DEF PickerInv
      <4> QED BY <1>1, <3>1, <4>1, <4>4 DEF PastMax
    <3>2. m > 0 /\ it'.index > m => PastMax'
      BY <1>6, <1>9, <2>3, <3>1
    <3>3. picker'.visited = picker.visited /\ it'.lastPicked = it.lastPicked
      BY <1>4, <1>6, <2>1, <2>3
    <3> QED BY <1>11, <3>2, <3>3 DEF PickerInv
  <2> QED BY <2>2, <2>3
<1>12. ASSUME kind = "quantile", m > 0
       PROVE  it'.index <= m /\ (picker'.reachedEnd => PastMax')
  <2>1. /\ r.some <=> s.at # 0 /\ ~p.reachedEnd /\ Reaches(p, s, up)
        /\ r.some => (r.p.reachedEnd <=> p.quantile = Denom)
        /\ ~r.some => r.p = p
    BY <1>2, <1>12, PickQuantiles DEF r
  <2>2. /\ h.total \in Nat \ {0} /\ (\A k \in 0..m : SumTo(h, k) < h.total)
        /\ \A k \in (m + 1)..D : SumTo(h, k) = h.total
    BY <1>1, <1>12, FullTotal
  <2>3. n <= m /\ (picker.reachedEnd => PastMax)
    BY <1>12 DEF PickerInv
  <2>4. s.total = SumTo(h, n + 1)
    BY <1>2, <1>12 DEF Ready
  <2>5. Denom \in Nat \ {0}
    BY DenomFacts
  <2>6. CASE r.some
    <3>1. ASSUME p.quantile = Denom PROVE n >= m
      <4> SUFFICES ASSUME n < m PROVE FALSE
        BY <1>1
      <4>1. n + 1 \in 0..m
        BY <1>1
      <4>2. SumTo(h, n + 1) < h.total /\ SumTo(h, n + 1) \in Nat
        <5>1. n + 1 \in 0..D
          BY <1>1
        <5> QED BY <1>1, <2>2, <4>1, <5>1, SumToFacts
      <4>3. s.total >= h.total
        BY <1>2, <1>12, <2>1, <2>2, <2>4, <2>6, <3>1, <4>2, ReachesFacts
      <4> DEFINE x == SumTo(h, n + 1)
                 y == h.total
      <4>4. x \in Nat /\ y \in Nat /\ x < y /\ x >= y
        BY <2>2, <2>4, <4>2, <4>3
      <4> HIDE DEF x, y
      <4> QED BY <4>4
    <3>2. picker'.reachedEnd => PastMax'
      BY <1>1, <1>4, <1>5, <2>1, <2>6, <3>1 DEF PastMax
    <3> QED BY <1>5, <2>3, <2>6, <3>2
  <2>7. CASE ~r.some
    <3>1. n # m
      <4> SUFFICES ASSUME n = m PROVE FALSE
        OBVIOUS
      <4>1. ~s.fresh
        <5>1. CASE PastMax
          <6>1. s = it /\ Seen > m
            BY <1>2, <1>12, <5>1 DEF Ready, CountInv
          <6> QED BY <1>1, <6>1 DEF Seen
        <5>2. CASE ~PastMax
          BY <1>2, <5>2 DEF Ready
        <5> QED BY <5>1, <5>2
      <4>2. s.at # 0
        BY <1>2, <1>8, <1>12, <4>1 DEF Ready
      <4>3. ~p.reachedEnd
        BY <1>3, <1>12, <2>3
      <4>4. s.total = h.total
        <5>1. n + 1 \in (m + 1)..D
          BY <1>1
        <5> QED BY <2>2, <2>4, <5>1
      <4>5. ~(h.total * Denom < p.quantile * h.total)
        <5>1. p.quantile * h.total <= Denom * h.total
          <6>1. p.quantile \in Nat /\ p.quantile <= Denom
            BY <1>3, <2>5
          <6> QED BY <2>2, <2>5, <6>1, MulMono
        <5>2. h.total * Denom = Denom * h.total /\ Denom * h.total \in Nat /\ p.quantile * h.total \in Nat
          BY <1>3, <2>2, <2>5
        <5> QED BY <5>1, <5>2
      <4>6. Reaches(p, s, up)
        BY <1>2, <1>12, <2>2, <4>4, <4>5, ReachesFacts
      <4> QED BY <2>1, <2>7, <4>2, <4>3, <4>6
    <3>2. n + 1 <= m
      BY <1>1, <2>3, <3>1
    <3>3. picker'.reachedEnd => PastMax'
      BY <1>3, <1>4, <1>9, <2>1, <2>3, <2>7
    <3> QED BY <1>6, <2>7, <3>2, <3>3
  <2> QED BY <2>6, <2>7
<1>13. DistinctValues(h') = D
  BY <1>2
<1> QED BY <1>2, <1>7, <1>10, <1>11, <1>12, <1>13 DEF PickerInv

\* The position and the pickers' states in every reachable state.
IterInv == TypeInv /\ CountInv /\ PickerInv

\* They hold in every reachable state.
LEMMA IterInvHolds == Spec => []IterInv
<1>1. Init => TypeInv /\ CountInv
  BY TypeInit, CountInit
<1>2. Init => PickerInv
  <2> SUFFICES ASSUME Init PROVE PickerInv
    OBVIOUS
  <2>1. h \in Hists /\ picker.visited = None /\ picker.reachedEnd = FALSE
    BY DEF Init
  <2>2. it.index = 0 /\ it.lastPicked = 0 /\ it.ended = FALSE
    BY DEF Init
  <2>3. DistinctValues(h) \in Nat \ {0} /\ it.maxIndex \in Nat
    BY <1>1, PositionNumbers
  <2> QED BY <2>1, <2>2, <2>3 DEF PickerInv
<1>3. IterInv /\ [Next]_vars => IterInv'
  <2> SUFFICES ASSUME IterInv, [Next]_vars PROVE IterInv'
    OBVIOUS
  <2>1. TypeInv /\ CountInv /\ PickerInv
    BY DEF IterInv
  <2>2. TypeInv' /\ CountInv'
    BY <2>1, TypeKept, CountKept
  <2>3. CASE Stops
    <3>1. it \in Positions(h)
      BY <2>1 DEF TypeInv
    <3>2. /\ it'.index = it.index /\ it'.lastPicked = it.lastPicked /\ it'.maxIndex = it.maxIndex
      BY <2>3, <3>1 DEF Stops, Positions
    <3>3. h' = h /\ kind' = kind /\ picker' = picker
      BY <2>3 DEF Stops
    <3>4. it.maxIndex > 0 => PastMax
      <4> SUFFICES ASSUME it.maxIndex > 0, AtEnd PROVE PastMax
        BY <2>3 DEF Stops
      <4>1. it.index = DistinctValues(h) /\ it.maxIndex \in 0..(DistinctValues(h) - 1)
            /\ DistinctValues(h) \in Nat
        BY <2>1, PositionNumbers DEF AtEnd
      <4>2. ~(it.index < DistinctValues(h)) /\ it.index > it.maxIndex /\ ~(it.index <= it.maxIndex)
        BY <4>1
      <4>3. kind \in {"recorded", "all", "linear", "log", "quantile"}
        BY <2>1, Parameters DEF TypeInv
      <4> QED BY <2>1, <4>2, <4>3 DEF PickerInv
    <3> QED BY <2>1, <2>2, <3>2, <3>3, <3>4 DEF PickerInv, IterInv, PastMax
  <2>4. ASSUME NEW p, NEW s, NEW up, Offered(p, s, up) PROVE IterInv'
    BY <2>1, <2>2, <2>4, PickerKept DEF IterInv
  <2>5. CASE UNCHANGED vars
    BY <2>1, <2>2, <2>5 DEF vars, PickerInv, IterInv, PastMax
  <2> QED BY <2>1, <2>3, <2>4, <2>5, StepCases
<1> QED BY <1>1, <1>2, <1>3, PTL DEF Spec, IterInv

-----------------------------------------------------------------------------
(***************************************************************************)
(* iter_recorded                                                           *)
(***************************************************************************)
\* The slots that iter_recorded is to yield.
ToYield == {i \in NonZero(h) : it.maxIndex > 0 /\ i <= it.maxIndex}

\* Those that it has yielded.
HasYielded == {i \in ToYield : i < it.index \/ (i = it.index /\ picker.visited = it.index)}

\* The slots of a set below one of them.
Below(S, i) == {j \in S : j < i}

\* It yields them in order, one by one: each has as many of them below it as there
\* are values before it.
RecordedInv ==
    kind = "recorded" =>
        /\ Len(out) = Cardinality(HasYielded)
        /\ \A k \in DOMAIN out : /\ out[k].index \in ToYield
                                 /\ Cardinality(Below(ToYield, out[k].index)) = k - 1

\* Slots are finitely many numbers.
LEMMA ToYieldFacts ==
    ASSUME TypeInv
    PROVE  /\ ToYield \subseteq 0..(DistinctValues(h) - 1) /\ IsFiniteSet(ToYield)
           /\ \A i \in ToYield : h.counts[i] # 0 /\ it.maxIndex > 0 /\ i <= it.maxIndex
           /\ \A i \in DOMAIN h.counts :
                h.counts[i] # 0 /\ it.maxIndex > 0 => i \in ToYield
<1> DEFINE D == DistinctValues(h)
<1>1. /\ h \in Hists /\ D \in Nat \ {0} /\ DOMAIN h.counts = 0..(D - 1)
      /\ it.maxIndex \in 0..(D - 1) /\ it.maxIndex = IndexFor(h.lay, MaxOf(h))
  BY PositionNumbers
<1>2. \A i \in DOMAIN h.counts : i > it.maxIndex => h.counts[i] = 0
  BY <1>1, TopSlot
<1>3. ToYield \subseteq 0..(D - 1)
  BY <1>1 DEF ToYield, NonZero
<1>4. IsFiniteSet(0..(D - 1))
  <2>1. 0 \in Int /\ D - 1 \in Int
    BY <1>1
  <2> QED BY <2>1, FS_Interval
<1>5. IsFiniteSet(ToYield)
  BY <1>3, <1>4, FS_Subset
<1>6. ASSUME NEW i \in DOMAIN h.counts, h.counts[i] # 0, it.maxIndex > 0 PROVE i \in ToYield
  <2>1. ~(i > it.maxIndex) /\ i \in NonZero(h)
    BY <1>2, <1>6 DEF NonZero
  <2> QED BY <1>1, <1>6, <2>1 DEF ToYield
<1>7. \A i \in ToYield : h.counts[i] # 0 /\ it.maxIndex > 0 /\ i <= it.maxIndex
  BY DEF ToYield, NonZero
<1> QED BY <1>3, <1>5, <1>6, <1>7

\* The slot visited is never ahead of the index.
LEMMA VisitedFacts ==
    ASSUME IterInv, kind = "recorded"
    PROVE  /\ picker.visited = None \/ picker.visited <= it.index
           /\ picker.visited \in Int /\ None = -1
<1>1. /\ it.index \in Nat /\ it.lastPicked \in Nat
  BY PositionNumbers DEF IterInv
<1>2. picker.visited \in {None, it.lastPicked} /\ it.lastPicked <= it.index
  BY DEF IterInv, PickerInv, CountInv
<1> QED BY <1>1, <1>2 DEF None

\* A turn in which iter_recorded yields.
LEMMA RecordedYield ==
    ASSUME IterInv, RecordedInv, kind = "recorded", NEW p, NEW s, NEW up, Offered(p, s, up), Pick(p, s, up).some
    PROVE  RecordedInv'
<1> DEFINE D == DistinctValues(h)
           n == it.index
           r == Pick(p, s, up)
           e == Value(r, s)
<1>1. TypeInv /\ CountInv /\ PickerInv
  BY DEF IterInv
<1>2. /\ h \in Hists /\ D \in Nat \ {0} /\ DOMAIN h.counts = 0..(D - 1) /\ n \in 0..(D - 1)
  BY <1>1, PositionNumbers DEF Offered
<1>3. /\ Ready(s) /\ s \in Positions(h) /\ h' = h /\ kind' = kind /\ p \in Pickers
  BY <1>1, OfferedReady DEF Offered
<1>4. ~PastMax /\ p = picker
  <2>1. ~More(picker, n)
    BY DEF More
  <2> QED BY <2>1 DEF Offered
<1>5. /\ picker' = r.p /\ it' = Yielded(s) /\ out' = Append(out, e)
  BY OfferedCases
<1>6. /\ picker.visited # n /\ s.at # 0 /\ picker'.visited = n /\ s.index = n
  BY <1>3, <1>4, <1>5, PickIndex DEF Ready
<1>7. it'.index = n /\ it'.maxIndex = it.maxIndex
  BY <1>3, <1>5 DEF Yielded, Ready, Positions
<1>8. h.counts[n] # 0 /\ it.maxIndex > 0
  BY <1>3, <1>4, <1>6 DEF Ready
<1>9. ToYield' = ToYield
  BY <1>3, <1>7 DEF ToYield, NonZero
<1>10. /\ n \in ToYield /\ ToYield \subseteq 0..(D - 1) /\ IsFiniteSet(ToYield)
  BY <1>1, <1>2, <1>8, ToYieldFacts
<1>11. HasYielded = Below(ToYield, n) /\ HasYielded' = Below(ToYield, n) \cup {n} /\ n \notin Below(ToYield, n)
  <2>1. HasYielded = Below(ToYield, n)
    BY <1>6 DEF HasYielded, Below
  <2>2. HasYielded' = {i \in ToYield : i < n \/ (i = n /\ n = n)}
    BY <1>6, <1>7, <1>9 DEF HasYielded
  <2> QED BY <1>2, <1>10, <2>1, <2>2 DEF Below
<1>12. IsFiniteSet(Below(ToYield, n)) /\ Cardinality(Below(ToYield, n) \cup {n}) = Cardinality(Below(ToYield, n)) + 1
  <2>1. IsFiniteSet(Below(ToYield, n))
    BY <1>10, FS_Subset DEF Below
  <2> QED BY <1>11, <2>1, FS_AddElement
<1>13. /\ IsSequence(out) /\ Len(out) = Cardinality(Below(ToYield, n))
       /\ \A k \in DOMAIN out : out[k].index \in ToYield /\ Cardinality(Below(ToYield, out[k].index)) = k - 1
  BY <1>1, <1>11 DEF RecordedInv, CountInv
<1> HIDE DEF e
<1>14. /\ Len(out') = Len(out) + 1 /\ DOMAIN out' = 1..(Len(out) + 1)
       /\ DOMAIN out = 1..Len(out) /\ Len(out) \in Nat
       /\ \A k \in 1..Len(out) : out'[k] = out[k]
       /\ out'[Len(out) + 1] = e
  BY <1>5, <1>13, AppendSeq
<1>15. e.index = n
  BY <1>6 DEF e, Value
<1>16. ASSUME NEW k \in DOMAIN out'
       PROVE  out'[k].index \in ToYield /\ Cardinality(Below(ToYield, out'[k].index)) = k - 1
  <2>1. CASE k \in 1..Len(out)
    BY <1>13, <1>14, <2>1
  <2>2. CASE k = Len(out) + 1
    BY <1>10, <1>13, <1>14, <1>15, <2>2
  <2> QED BY <1>14, <2>1, <2>2
<1>17. Len(out') = Cardinality(HasYielded')
  BY <1>11, <1>12, <1>13, <1>14
<1>18. \A k \in DOMAIN out' : out'[k].index \in ToYield' /\ Cardinality(Below(ToYield', out'[k].index)) = k - 1
  BY <1>9, <1>16
<1> QED BY <1>17, <1>18 DEF RecordedInv

\* A turn in which it passes an index: that of an empty slot, or one it has yielded.
LEMMA RecordedPass ==
    ASSUME IterInv, RecordedInv, kind = "recorded", NEW p, NEW s, NEW up, Offered(p, s, up), ~Pick(p, s, up).some
    PROVE  RecordedInv'
<1> DEFINE D == DistinctValues(h)
           n == it.index
           r == Pick(p, s, up)
<1>1. TypeInv /\ CountInv /\ PickerInv
  BY DEF IterInv
<1>2. /\ h \in Hists /\ D \in Nat \ {0} /\ DOMAIN h.counts = 0..(D - 1) /\ n \in 0..(D - 1)
  BY <1>1, PositionNumbers DEF Offered
<1>3. /\ Ready(s) /\ s \in Positions(h) /\ h' = h /\ kind' = kind /\ p \in Pickers
  BY <1>1, OfferedReady DEF Offered
<1>4. ~PastMax /\ p = picker
  <2>1. ~More(picker, n)
    BY DEF More
  <2> QED BY <2>1 DEF Offered
<1>5. /\ picker' = r.p /\ it' = PassedOver(s) /\ out' = out
  BY OfferedCases
<1>6. /\ picker.visited = n \/ s.at = 0
      /\ picker'.visited = picker.visited /\ s.index = n
  BY <1>3, <1>4, <1>5, PickIndex DEF Ready
<1>7. it'.index = n + 1 /\ it'.maxIndex = it.maxIndex
  BY <1>3, <1>5 DEF PassedOver, Ready, Positions
<1>8. ToYield' = ToYield
  BY <1>3, <1>7 DEF ToYield, NonZero
<1>9. ToYield \subseteq 0..(D - 1) /\ (n \in ToYield => picker.visited = n)
  <2>1. s.at = h.counts[n]
    BY <1>3, <1>4 DEF Ready
  <2> QED BY <1>1, <1>6, <2>1, ToYieldFacts
<1>10. picker.visited \in Int /\ (picker.visited = -1 \/ picker.visited <= n)
  BY VisitedFacts
<1>11. HasYielded' = HasYielded
  <2>1. HasYielded' = {i \in ToYield : i < n + 1 \/ (i = n + 1 /\ picker.visited = n + 1)}
    BY <1>6, <1>7, <1>8 DEF HasYielded
  <2>2. picker.visited # n + 1
    BY <1>2, <1>10
  <2>3. \A i \in ToYield : i < n + 1 <=> i < n \/ (i = n /\ picker.visited = n)
    BY <1>2, <1>9
  <2> QED BY <2>1, <2>2, <2>3 DEF HasYielded
<1>12. \A k \in DOMAIN out' : out'[k].index \in ToYield' /\ Cardinality(Below(ToYield', out'[k].index)) = k - 1
  BY <1>5, <1>8 DEF RecordedInv
<1> QED BY <1>5, <1>11, <1>12 DEF RecordedInv

\* iter_recorded yields in order, in every reachable state.
LEMMA RecordedHolds == Spec => []RecordedInv
<1>1. Init => RecordedInv
  <2> SUFFICES ASSUME Init PROVE RecordedInv
    OBVIOUS
  <2>1. out = <<>> /\ it.index = 0 /\ picker.visited = None
    BY DEF Init
  <2>2. TypeInv
    BY TypeInit
  <2>3. HasYielded = {}
    BY <2>1, <2>2, ToYieldFacts DEF HasYielded, None
  <2>4. Len(out) = 0
    BY <2>1
  <2>5. DOMAIN out = {}
    <3>1. IsSequence(out)
      BY CountInit DEF CountInv
    <3>2. DOMAIN out = 1..0
      BY <2>4, <3>1, SeqDomain
    <3> QED BY <3>2
  <2> QED BY <2>3, <2>4, <2>5, FS_EmptySet DEF RecordedInv
<1>2. IterInv /\ RecordedInv /\ [Next]_vars => RecordedInv'
  <2> SUFFICES ASSUME IterInv, RecordedInv, [Next]_vars PROVE RecordedInv'
    OBVIOUS
  <2>1. CASE Stops
    <3>1. it \in Positions(h)
      BY DEF IterInv, TypeInv
    <3>2. /\ it'.index = it.index /\ it'.maxIndex = it.maxIndex
      BY <2>1, <3>1 DEF Stops, Positions
    <3>3. h' = h /\ kind' = kind /\ picker' = picker /\ out' = out
      BY <2>1 DEF Stops
    <3> QED BY <3>2, <3>3 DEF RecordedInv, ToYield, HasYielded, Below, NonZero
  <2>2. ASSUME NEW p, NEW s, NEW up, Offered(p, s, up) PROVE RecordedInv'
    <3>1. kind' = kind
      BY <2>2 DEF Offered
    <3>2. kind # "recorded" => RecordedInv'
      BY <3>1 DEF RecordedInv
    <3> QED BY <2>2, <3>2, RecordedYield, RecordedPass
  <2>3. CASE UNCHANGED vars
    BY <2>3 DEF vars, RecordedInv, ToYield, HasYielded, Below, NonZero
  <2> QED BY <2>1, <2>2, <2>3, StepCases DEF IterInv
<1> QED BY <1>1, <1>2, IterInvHolds, PTL DEF Spec

\* When it ends it has yielded the slots of IterRecorded.
LEMMA RecordedAll ==
    ASSUME IterInv, RecordedInv, kind = "recorded", it.ended
    PROVE  [k \in DOMAIN out |-> out[k].index] = IterRecorded(h)
<1> DEFINE D == DistinctValues(h)
           S == ToYield
           m == it.maxIndex
<1>1. TypeInv /\ CountInv /\ PickerInv
  BY DEF IterInv
<1>2. /\ h \in Hists /\ D \in Nat \ {0} /\ DOMAIN h.counts = 0..(D - 1) /\ it.index \in 0..D
      /\ m \in 0..(D - 1) /\ m = IndexFor(h.lay, MaxOf(h)) /\ it.lastPicked \in 0..(D - 1)
  BY <1>1, PositionNumbers
<1>3. S \subseteq 0..(D - 1) /\ IsFiniteSet(S) /\ \A i \in S : m > 0 /\ i <= m
  BY <1>1, ToYieldFacts
<1>4. HasYielded = S
  <2>1. ASSUME NEW i \in S PROVE i \in HasYielded
    <3>1. m > 0 /\ i <= m /\ i \in Nat
      BY <1>2, <1>3
    <3>2. it.lastPicked >= m /\ it.lastPicked <= it.index /\ picker.visited = it.lastPicked
      <4>1. PastMax
        BY <1>1, <3>1 DEF PickerInv
      <4>2. it.lastPicked >= m /\ it.lastPicked > 0
        BY <1>2, <3>1, <4>1 DEF PastMax
      <4> QED BY <1>1, <4>2 DEF PickerInv, CountInv
    <3>3. i < it.index \/ (i = it.index /\ picker.visited = it.index)
      BY <1>2, <3>1, <3>2
    <3> QED BY <3>3 DEF HasYielded
  <2> QED BY <2>1 DEF HasYielded
<1>5. /\ Len(out) = Cardinality(S) /\ DOMAIN out = 1..Len(out) /\ Len(out) \in Nat
      /\ \A k \in DOMAIN out : out[k].index \in S /\ Cardinality(Below(S, out[k].index)) = k - 1
  <2>1. IsSequence(out)
    BY <1>1 DEF CountInv
  <2> QED BY <1>4, <2>1, SeqDomain DEF RecordedInv
<1>6. \A x \in S : x \in Int
  <2> HIDE DEF S, D
  <2> QED BY <1>2, <1>3
<1>7. S = {i \in NonZero(h) : m > 0 /\ i <= m}
  BY DEF ToYield
<1>8. \A i : Below(S, i) = {j \in S : j < i}
  BY DEF Below
<1> HIDE DEF S, D
<1>9. ASSUME NEW i \in S, NEW j \in S, i < j PROVE Cardinality(Below(S, i)) # Cardinality(Below(S, j))
  <2>1. Below(S, i) \subseteq Below(S, j) /\ i \in Below(S, j) /\ i \notin Below(S, i)
    BY <1>6, <1>8, <1>9
  <2>2. IsFiniteSet(Below(S, j))
    BY <1>3, <1>8, FS_Subset
  <2> QED BY <2>1, <2>2, FS_Subset
<1>10. ASSUME NEW k \in DOMAIN out PROVE out[k].index = Kth(S, k)
  <2> DEFINE x == out[k].index
  <2>1. x \in S /\ Cardinality(Below(S, x)) = k - 1
    BY <1>5
  <2>2. \A y \in S : Cardinality(Below(S, y)) = k - 1 => y = x
    <3> TAKE y \in S
    <3>1. x \in Int /\ y \in Int
      BY <1>6, <2>1
    <3> HIDE DEF x
    <3>2. x < y => Cardinality(Below(S, x)) # Cardinality(Below(S, y))
      BY <1>9, <2>1
    <3>3. y < x => Cardinality(Below(S, x)) # Cardinality(Below(S, y))
      BY <1>9, <2>1
    <3> QED BY <2>1, <3>1, <3>2, <3>3
  <2> HIDE DEF x
  <2>3. x = CHOOSE i \in S : Cardinality(Below(S, i)) = k - 1
    BY <2>1, <2>2
  <2>4. Kth(S, k) = CHOOSE i \in S : Cardinality(Below(S, i)) = k - 1
    BY Zenon DEF Kth, Below
  <2> QED BY <2>3, <2>4, Zenon DEF x
<1>11. IterRecorded(h) = [k \in 1..Cardinality(S) |-> Kth(S, k)]
  BY <1>2, <1>7 DEF IterRecorded
<1>12. IterRecorded(h) = [k \in DOMAIN out |-> Kth(S, k)]
  BY <1>5, <1>11
<1> QED BY <1>10, <1>12

\* What the values yielded have counted adds up to the running total, every sample
\* of a histogram is yielded exactly once when an iterator ends, and iter_recorded
\* has then yielded the slots of IterRecorded, for every histogram with the statistics
\* of its counts, every step and every width of the words.
THEOREM EverySampleOnceCorrect == Spec => []EverySampleOnce
<1>1. IterInv /\ RecordedInv => EverySampleOnce
  <2> SUFFICES ASSUME IterInv, RecordedInv PROVE EverySampleOnce
    OBVIOUS
  <2>1. TypeInv /\ CountInv /\ PickerInv
    BY DEF IterInv
  <2>2. Gain(out) + it.since = it.total /\ Gain(out) \in Nat
    BY <2>1, GainFacts DEF CountInv
  <2>3. ASSUME it.ended, NonZero(h) \ {0} # {} PROVE Gain(out) = h.total
    <3>1. /\ h \in Hists /\ it.maxIndex = IndexFor(h.lay, MaxOf(h))
          /\ it.index \in 0..DistinctValues(h) /\ DistinctValues(h) \in Nat
          /\ it.maxIndex \in Nat
      BY <2>1, PositionNumbers
    <3>2. it.maxIndex > 0
      BY <2>3, <3>1, TopSlot
    <3>3. it.since = 0 /\ it.total = SumTo(h, Seen) /\ Seen > it.maxIndex
      BY <2>1, <2>3, <3>2 DEF PickerInv, CountInv
    <3>4. Seen \in (it.maxIndex + 1)..DistinctValues(h)
      <4>1. ~it.fresh => it.index \in DOMAIN h.counts
        BY <2>1 DEF CountInv
      <4>2. DOMAIN h.counts = 0..(DistinctValues(h) - 1)
        BY <3>1, SlotsOf
      <4> QED BY <3>1, <3>3, <4>1, <4>2 DEF Seen
    <3>5. it.total = h.total
      BY <3>1, <3>2, <3>3, <3>4, FullTotal
    <3> QED BY <2>2, <3>3, <3>5
  <2>4. kind = "recorded" /\ it.ended => [k \in DOMAIN out |-> out[k].index] = IterRecorded(h)
    BY RecordedAll
  <2>5. Gain(out) = SumFunctionOnSet([k \in DOMAIN out |-> out[k].since], DOMAIN out)
    BY Zenon DEF Gain
  <2> QED BY <2>2, <2>3, <2>4, <2>5, Zenon DEF EverySampleOnce
<1> QED BY <1>1, IterInvHolds, RecordedHolds, PTL

-----------------------------------------------------------------------------
(***************************************************************************)
(* iter_linear and iter_log                                                *)
(***************************************************************************)
\* The n-th level has not overflowed a word.
LevelFits(n) == kind = "log" \/ n * picker.units <= 2^W

\* Until its level overflows, an iterator with steps does not go past the slot of the
\* level, and what it has yielded is the count up to each level.
StepInv ==
    kind \in {"linear", "log"} =>
        LET next == Len(out) + 1 IN
        /\ picker.lowest = LowestEquivalent(h.lay, picker.highest)
        /\ kind = "linear" /\ LevelFits(next) => picker.highest = next * picker.units - 1
        /\ kind = "log" => picker.highest = AsWord(picker.next) - 1
        /\ LevelFits(next) => it.index <= IndexFor(h.lay, picker.highest)
        /\ it.maxIndex > 0 =>
             \A k \in DOMAIN out : LevelFits(k) => out[k].total = CountBetween(h, 0, out[k].value)

\* What the pick of an iterator with steps leaves of the picker.
LEMMA PickLevel ==
    ASSUME kind \in {"linear", "log"}, h \in Hists, NEW p \in Pickers, NEW s, NEW up
    PROVE  LET r == Pick(p, s, up)
           IN  /\ ~r.some => r.p = p
               /\ r.some =>
                    /\ r.value = p.highest /\ r.p.units = p.units
                    /\ r.p.lowest = LowestEquivalent(h.lay, r.p.highest)
                    /\ kind = "linear" => r.p.highest = (p.highest + p.units) % 2^W
                    /\ kind = "log" => /\ r.p.next = p.next * LogBase
                                       /\ r.p.highest = AsWord(r.p.next) - 1
<1> DEFINE r == Pick(p, s, up)
<1>1. Nothing(p).some = FALSE /\ Nothing(p).p = p
  BY DEF Nothing
<1>2. \A q, v : /\ Picked(q, v, None).some = TRUE /\ Picked(q, v, None).p = q
                /\ Picked(q, v, None).value = v
  BY DEF Picked
<1>3. \A v : /\ NextStep(p, v).units = p.units /\ NextStep(p, v).next = p.next
             /\ NextStep(p, v).highest = v
             /\ NextStep(p, v).lowest = LowestEquivalent(h.lay, v)
  BY DEF NextStep, Pickers
<1>4. CASE kind = "linear"
  <2> DEFINE v == (p.highest + p.units) % 2^W
  <2>1. r = IF StepReached(p, s) THEN Picked(NextStep(p, v), p.highest, None) ELSE Nothing(p)
    <3>1. r = PickLinear(p, s)
      BY <1>4, PickKinds
    <3> QED BY <3>1 DEF PickLinear
  <2> HIDE DEF r, v
  <2>2. CASE StepReached(p, s)
    <3>1. r.some /\ r.p = NextStep(p, v) /\ r.value = p.highest
      BY <1>2, <2>1, <2>2
    <3> QED BY <1>3, <1>4, <3>1 DEF r, v
  <2>3. CASE ~StepReached(p, s)
    BY <1>1, <2>1, <2>3 DEF r
  <2> QED BY <2>2, <2>3
<1>5. CASE kind = "log"
  <2> DEFINE next == p.next * LogBase
             v == AsWord(next) - 1
             q == [NextStep(p, v) EXCEPT !.next = next]
  <2>1. r = IF StepReached(p, s) THEN Picked(q, p.highest, None) ELSE Nothing(p)
    <3>1. r = PickLog(p, s)
      BY <1>5, PickKinds
    <3> QED BY <3>1 DEF PickLog
  <2>2. /\ q.units = p.units /\ q.next = next /\ q.highest = v
        /\ q.lowest = LowestEquivalent(h.lay, v)
    <3> HIDE DEF next, v
    <3> QED BY <1>3 DEF NextStep, Pickers
  <2> HIDE DEF r, q
  <2>3. CASE StepReached(p, s)
    <3>1. r.some /\ r.p = q /\ r.value = p.highest
      BY <1>2, <2>1, <2>3
    <3> QED BY <1>5, <2>2, <3>1 DEF r
  <2>4. CASE ~StepReached(p, s)
    BY <1>1, <2>1, <2>4 DEF r
  <2> QED BY <2>3, <2>4
<1> QED BY <1>4, <1>5

\* A step is reached at the last index or at the slot of its highest value, never
\* before it.
LEMMA StepSlot ==
    ASSUME h \in Hists, NEW p \in Pickers, p.lowest = LowestEquivalent(h.lay, p.highest),
           NEW s, s.index \in DOMAIN h.counts, s.index <= IndexFor(h.lay, p.highest)
    PROVE  /\ StepReached(p, s) => s.index = IndexForOrLast(h, p.highest)
           /\ ~StepReached(p, s) => s.index + 1 <= IndexFor(h.lay, p.highest)
<1> DEFINE L == h.lay
           n == s.index
           v == p.highest
           m == IndexFor(L, v)
           D == DistinctValues(h)
<1>1. ValidLayout(L) /\ v \in Words
  BY HistFacts DEF Pickers
<1>2. D \in Nat \ {0} /\ DOMAIN h.counts = 0..(D - 1) /\ LastIndex(h) = D - 1
  BY SlotsOf DEF LastIndex
<1>3. n \in 0..(D - 1) /\ n <= m
  BY <1>2
<1>4. PICK b, t : Place(L, n, b, t) /\ Fits(L, b)
  BY SlotHasPlace
<1>5. n \in Nat
  BY <1>2, <1>3
<1>6. ValueFor(L, n) \in Words /\ IndexFor(L, ValueFor(L, n)) = n
  <2> HIDE DEF L, n
  <2> QED BY <1>1, <1>4, <1>5, SlotBegins
<1>7. p.lowest \in Words /\ IndexFor(L, p.lowest) = m
  BY <1>1, HighestInSlot
<1>8. m = n => p.lowest = ValueFor(L, n)
  <2> SUFFICES ASSUME m = n PROVE p.lowest = ValueFor(L, n)
    OBVIOUS
  <2>1. \A u \in {w \in Words : IndexFor(L, w) = n} : LowestEquivalent(L, u) = ValueFor(L, n)
    <3> HIDE DEF L, n
    <3> QED BY <1>1, <1>4, <1>5, SlotIsRange, Zenon
  <2> QED BY <1>1, <2>1
<1> HIDE DEF L, n, v, D
<1> DEFINE x == ValueFor(L, n)
           y == p.lowest
<1>9. x \in Int /\ y \in Int /\ m \in Nat
  <2>1. Words \subseteq Int
    BY WordType
  <2>2. v <= v
    BY <1>1, WordType
  <2>3. m \in Nat
    BY <1>1, <2>2, IndexMonotone
  <2> QED BY <1>6, <1>7, <2>1, <2>3
<1>10. /\ x <= y => n <= m
       /\ y <= x => m <= n
  BY <1>1, <1>6, <1>7, IndexMonotone
<1> HIDE DEF x, y, m
<1>11. StepReached(p, s) <=> x >= y \/ n = D - 1
  BY <1>2, Zenon DEF StepReached, L, n, x, y, D
<1>12. IndexForOrLast(h, v) = IF m <= D - 1 THEN m ELSE D - 1
  <2>1. D - 1 \in Int /\ m \in Int
    BY <1>2, <1>9
  <2>2. IndexForOrLast(h, v) = Min({m, D - 1})
    BY <1>2, Zenon DEF IndexForOrLast, m, L, D
  <2> QED BY <2>1, <2>2, MinOfTwo
<1>13. m = n => x = y
  BY <1>8 DEF x, y
<1>14. n \in 0..(D - 1) /\ n <= m
  BY <1>3 DEF m
<1>15. StepReached(p, s) => n = IndexForOrLast(h, v)
  BY <1>2, <1>9, <1>10, <1>11, <1>12, <1>14
<1>16. ~StepReached(p, s) => n + 1 <= m
  BY <1>2, <1>5, <1>9, <1>11, <1>13, <1>14
<1> QED BY <1>15, <1>16 DEF n, m, v, L

\* The count between 0 and a value is that of the slots up to that of the value.
LEMMA CountUpTo ==
    ASSUME NEW g \in Hists, NEW v, NEW n \in DOMAIN g.counts, n = IndexForOrLast(g, v)
    PROVE  CountBetween(g, 0, v) = SumTo(g, n + 1)
<1> DEFINE D == DistinctValues(g)
           x == SumTo(g, n + 1)
<1>1. D \in Nat \ {0} /\ DOMAIN g.counts = 0..(D - 1) /\ LastIndex(g) = D - 1
  BY SlotsOf DEF LastIndex
<1>2. IndexForOrLast(g, 0) = 0
  <2>1. IndexFor(g.lay, 0) = 0
    BY HistFacts, IndexForZero
  <2>2. IndexForOrLast(g, 0) = Min({0, D - 1})
    BY <1>1, <2>1, Zenon DEF IndexForOrLast
  <2>3. 0 \in Int /\ D - 1 \in Int /\ 0 <= D - 1
    BY <1>1
  <2> QED BY <2>2, <2>3, MinOfTwo
<1>3. n \in 0..(D - 1) /\ (n + 1) - 1 = n
  BY <1>1
<1>4. CountBetween(g, 0, v) = Min({x, MaxWord})
  <2>1. CountBetween(g, 0, v) = Min({SumCounts(g, 0..n), MaxWord})
    BY <1>2, Zenon DEF CountBetween
  <2>2. SumCounts(g, 0..n) = x
    BY <1>3, Zenon DEF SumCounts, SumTo
  <2> QED BY <2>1, <2>2, Zenon
<1>5. x \in Nat /\ x <= SumTo(g, D) /\ SumTo(g, D) \in Nat /\ SumTo(g, D) <= MaxWord
  <2>1. n + 1 \in 0..D /\ D \in (n + 1)..D /\ D \in 0..D
    BY <1>1, <1>3
  <2>2. SumTo(g, n + 1) <= SumTo(g, D)
    <3> DEFINE a == n + 1
    <3> HIDE DEF a
    <3>1. a \in 0..D /\ D \in a..D
      BY <2>1 DEF a
    <3> QED BY <3>1, SumToMono DEF a
  <2>3. x \in Nat /\ SumTo(g, D) \in Nat
    <3> HIDE DEF D
    <3> QED BY <2>1, SumToFacts DEF D
  <2> QED BY <2>2, <2>3, TotalIsSum
<1> HIDE DEF x
<1>6. x \in Int /\ MaxWord \in Int /\ x <= MaxWord
  BY <1>5, WordType
<1>7. Min({x, MaxWord}) = x
  BY <1>6, MinOfTwo
<1> QED BY <1>4, <1>7 DEF x

\* The next level, unless it overflows, is no lower.
LEMMA LevelGrows ==
    ASSUME TypeInv, kind \in {"linear", "log"}, NEW n \in Nat \ {0}, NEW p \in Pickers, NEW q \in Pickers,
           q.units = p.units,
           kind = "linear" => /\ q.highest = (p.highest + p.units) % 2^W
                              /\ n * p.units <= 2^W => p.highest = n * p.units - 1,
           kind = "log" => /\ p.highest = AsWord(p.next) - 1 /\ q.highest = AsWord(q.next) - 1
                           /\ q.next = p.next * LogBase
    PROVE  /\ kind = "linear" /\ (n + 1) * p.units <= 2^W =>
                /\ n * p.units <= 2^W
                /\ q.highest = (n + 1) * q.units - 1
                /\ p.highest <= q.highest
           /\ kind = "log" => p.highest <= q.highest
<1>1. p.highest \in Nat /\ q.highest \in Nat /\ p.units \in Nat /\ 2^W \in Nat \ {0}
  BY WordType DEF Pickers
<1>2. ASSUME kind = "linear", (n + 1) * p.units <= 2^W
      PROVE  /\ n * p.units <= 2^W
             /\ q.highest = (n + 1) * q.units - 1
             /\ p.highest <= q.highest
  <2> DEFINE x == n * p.units
             w == 2^W
             u == p.units
  <2>1. (n + 1) * p.units = x + u /\ x \in Nat
    BY <1>1
  <2> HIDE DEF x, w, u
  <2>2. x \in Nat /\ u \in Nat /\ w \in Nat \ {0} /\ x + u <= w
    BY <1>1, <1>2, <2>1 DEF u, w
  <2>3. p.highest = x - 1 /\ x <= w
    <3>1. x <= w
      BY <2>2
    <3> QED BY <1>2, <3>1 DEF x, w
  <2>4. q.highest = (x - 1 + u) % w
    BY <1>2, <2>3 DEF u, w
  <2>5. x - 1 + u \in 0..(w - 1)
    BY <1>1, <2>2, <2>3
  <2>6. (x - 1 + u) % w = x - 1 + u
    BY <2>2, <2>5
  <2>7. q.highest = x + u - 1 /\ p.highest <= q.highest
    BY <2>2, <2>3, <2>4, <2>6
  <2>8. q.highest = (n + 1) * q.units - 1
    <3>1. (n + 1) * q.units = (n + 1) * p.units
      BY Zenon
    <3> QED BY <2>1, <2>2, <2>7, <3>1
  <2>9. n * p.units <= 2^W
    BY <2>3, Zenon DEF x, w
  <2> QED BY <2>7, <2>8, <2>9
<1>3. ASSUME kind = "log" PROVE p.highest <= q.highest
  <2>1. p.next \in Nat \ {0} /\ LogBase \in Nat \ {0, 1} /\ MaxWord \in Nat
    BY Parameters, WordType DEF Pickers
  <2>2. p.next <= q.next /\ q.next \in Nat
    <3>1. 1 * p.next <= LogBase * p.next
      BY <2>1, MulMono
    <3>2. 1 * p.next = p.next /\ LogBase * p.next = p.next * LogBase /\ p.next * LogBase \in Nat
      BY <2>1
    <3> QED BY <1>3, <3>1, <3>2
  <2>3. \A a \in Int : AsWord(a) = IF a <= MaxWord THEN a ELSE MaxWord
    <3> DEFINE top == MaxWord
    <3>1. top \in Int
      BY <2>1
    <3> HIDE DEF top
    <3>2. \A a \in Int : Min({a, top}) = IF a <= top THEN a ELSE top
      BY <3>1, MinOfTwo
    <3> QED BY <3>2 DEF AsWord, top
  <2>4. p.next \in Int /\ q.next \in Int
    BY <2>1, <2>2
  <2> HIDE DEF MaxWord
  <2> QED BY <1>3, <2>1, <2>2, <2>3, <2>4
<1> QED BY <1>2, <1>3

\* A turn in which an iterator with steps yields.
LEMMA StepYield ==
    ASSUME IterInv, StepInv, kind \in {"linear", "log"}, NEW p, NEW s, NEW up, Offered(p, s, up), Pick(p, s, up).some
    PROVE  StepInv'
<1> DEFINE D == DistinctValues(h)
           n == it.index
           r == Pick(p, s, up)
           e == Value(r, s)
           N == Len(out)
           c == N + 1
           v == picker.highest
<1>1. TypeInv /\ CountInv /\ PickerInv
  BY DEF IterInv
<1>2. /\ h \in Hists /\ D \in Nat \ {0} /\ DOMAIN h.counts = 0..(D - 1) /\ n \in 0..(D - 1)
  BY <1>1, PositionNumbers DEF Offered
<1>3. /\ Ready(s) /\ s \in Positions(h) /\ h' = h /\ kind' = kind /\ p \in Pickers
      /\ picker \in Pickers /\ picker' \in Pickers
  <2>1. picker' = r.p /\ s.index \in Nat
    <3>1. s.index = n
      BY <1>1, OfferedReady DEF Ready
    <3> QED BY <1>2, <3>1, OfferedCases
  <2>2. Pick(p, s, up).p \in Pickers
    BY <1>1, <2>1, PickType DEF Offered, TypeInv
  <2> QED BY <1>1, <2>1, <2>2, OfferedReady DEF Offered, TypeInv
<1>4. p = picker
  BY DEF Offered, AfterMore
<1>5. /\ picker' = r.p /\ it' = Yielded(s) /\ out' = Append(out, e)
  BY OfferedCases
<1>6. s.index = n /\ it'.index = n /\ it'.maxIndex = it.maxIndex
  BY <1>3, <1>5 DEF Yielded, Ready, Positions
<1>7. /\ r.value = v /\ picker'.units = picker.units
      /\ picker'.lowest = LowestEquivalent(h.lay, picker'.highest)
      /\ kind = "linear" => picker'.highest = (v + picker.units) % 2^W
      /\ kind = "log" => /\ picker'.next = picker.next * LogBase
                         /\ picker'.highest = AsWord(picker'.next) - 1
  BY <1>2, <1>3, <1>4, <1>5, PickLevel
<1>8. /\ picker.lowest = LowestEquivalent(h.lay, v)
      /\ kind = "linear" /\ c * picker.units <= 2^W => v = c * picker.units - 1
      /\ kind = "log" => v = AsWord(picker.next) - 1
      /\ LevelFits(c) => n <= IndexFor(h.lay, v)
      /\ it.maxIndex > 0 =>
            \A k \in DOMAIN out : LevelFits(k) => out[k].total = CountBetween(h, 0, out[k].value)
  BY DEF StepInv, LevelFits
<1>9. e.total = s.total /\ e.value = v
  <2>1. v # None
    <3>1. v \in Nat
      BY <1>3, WordType DEF Pickers
    <3> QED BY <3>1 DEF None
  <2> QED BY <1>7, <2>1 DEF Value
<1>10. IsSequence(out)
  BY <1>1 DEF CountInv
<1> HIDE DEF e, r
<1>11. /\ Len(out') = c /\ DOMAIN out' = 1..c
       /\ DOMAIN out = 1..N /\ N \in Nat
       /\ \A k \in 1..N : out'[k] = out[k]
       /\ out'[c] = e
  BY <1>5, <1>10, AppendSeq
<1>12. c \in Nat \ {0} /\ c = N + 1
  BY <1>11
<1> HIDE DEF c
<1>13. /\ kind = "linear" /\ (c + 1) * picker.units <= 2^W =>
            /\ c * picker.units <= 2^W
            /\ picker'.highest = (c + 1) * picker'.units - 1
            /\ v <= picker'.highest
       /\ kind = "log" => v <= picker'.highest
  <2>1. /\ kind = "linear" => /\ picker'.highest = (v + picker.units) % 2^W
                              /\ c * picker.units <= 2^W => v = c * picker.units - 1
        /\ kind = "log" => /\ v = AsWord(picker.next) - 1 /\ picker'.highest = AsWord(picker'.next) - 1
                           /\ picker'.next = picker.next * LogBase
    BY <1>7, <1>8
  <2> HIDE DEF v
  <2> QED BY <1>1, <1>3, <1>7, <1>12, <2>1, LevelGrows DEF v
<1>14. \A k : LevelFits(k)' <=> LevelFits(k)
  BY <1>3, <1>7 DEF LevelFits
<1>15. LevelFits(c + 1) => n <= IndexFor(h.lay, picker'.highest)
  <2> SUFFICES ASSUME LevelFits(c + 1) PROVE n <= IndexFor(h.lay, picker'.highest)
    OBVIOUS
  <2>1. LevelFits(c) /\ v <= picker'.highest
    BY <1>13 DEF LevelFits
  <2>2. n <= IndexFor(h.lay, v)
    BY <1>8, <2>1
  <2>3. /\ IndexFor(h.lay, v) \in Nat /\ IndexFor(h.lay, picker'.highest) \in Nat
        /\ IndexFor(h.lay, v) <= IndexFor(h.lay, picker'.highest)
    <3>1. ValidLayout(h.lay) /\ v \in Words /\ picker'.highest \in Words
      BY <1>2, <1>3, HistFacts DEF Pickers
    <3> QED BY <2>1, <3>1, IndexMonotone
  <2> QED BY <1>2, <2>2, <2>3
<1>16. ASSUME it.maxIndex > 0, NEW k \in DOMAIN out', LevelFits(k)
       PROVE  out'[k].total = CountBetween(h, 0, out'[k].value)
  <2>1. CASE k \in 1..N
    BY <1>8, <1>11, <1>16, <2>1
  <2>2. CASE k = c
    <3>1. n <= IndexFor(h.lay, v)
      BY <1>8, <1>16, <2>2
    <3>2. n = IndexForOrLast(h, v)
      <4>1. StepReached(p, s)
        BY PickStep DEF r
      <4> QED BY <1>2, <1>3, <1>4, <1>6, <1>8, <3>1, <4>1, StepSlot
    <3>3. CountBetween(h, 0, v) = SumTo(h, n + 1)
      BY <1>2, <3>2, CountUpTo
    <3>4. s.total = SumTo(h, n + 1)
      BY <1>3, <1>16 DEF Ready
    <3> QED BY <1>9, <1>11, <2>2, <3>3, <3>4
  <2> QED BY <1>11, <1>12, <2>1, <2>2
<1>17. /\ kind = "linear" /\ LevelFits(c + 1) => picker'.highest = (c + 1) * picker'.units - 1
  BY <1>13 DEF LevelFits
<1> HIDE DEF v
<1> QED BY <1>3, <1>6, <1>7, <1>11, <1>14, <1>15, <1>16, <1>17 DEF StepInv, LevelFits

\* A turn in which it passes an index.
LEMMA StepPass ==
    ASSUME IterInv, StepInv, kind \in {"linear", "log"}, NEW p, NEW s, NEW up, Offered(p, s, up), ~Pick(p, s, up).some
    PROVE  StepInv'
<1> DEFINE D == DistinctValues(h)
           n == it.index
           r == Pick(p, s, up)
<1>1. TypeInv /\ CountInv
  BY DEF IterInv
<1>2. /\ h \in Hists /\ D \in Nat \ {0} /\ DOMAIN h.counts = 0..(D - 1) /\ n \in 0..(D - 1)
  BY <1>1, PositionNumbers DEF Offered
<1>3. /\ Ready(s) /\ s \in Positions(h) /\ h' = h /\ kind' = kind /\ p \in Pickers
  BY <1>1, OfferedReady DEF Offered
<1>4. p = picker
  BY DEF Offered, AfterMore
<1>5. /\ picker' = r.p /\ it' = PassedOver(s) /\ out' = out
  BY OfferedCases
<1>6. s.index = n /\ it'.index = n + 1 /\ it'.maxIndex = it.maxIndex
  BY <1>3, <1>5 DEF PassedOver, Ready, Positions
<1>7. picker' = picker
  BY <1>2, <1>3, <1>4, <1>5, PickLevel
<1>8. LevelFits(Len(out) + 1) => n + 1 <= IndexFor(h.lay, picker.highest)
  <2> SUFFICES ASSUME LevelFits(Len(out) + 1) PROVE n + 1 <= IndexFor(h.lay, picker.highest)
    OBVIOUS
  <2>1. ~StepReached(p, s)
    BY PickStep
  <2>2. /\ picker.lowest = LowestEquivalent(h.lay, picker.highest)
        /\ n <= IndexFor(h.lay, picker.highest)
    BY DEF StepInv
  <2>3. s.index \in DOMAIN h.counts
    BY <1>2, <1>6
  <2> QED BY <1>2, <1>3, <1>4, <1>6, <2>1, <2>2, <2>3, StepSlot
<1> QED BY <1>3, <1>5, <1>6, <1>7, <1>8 DEF StepInv, LevelFits

\* Iterators with steps keep to their levels, in every reachable state.
LEMMA StepHolds == Spec => []StepInv
<1>1. Init => StepInv
  <2> SUFFICES ASSUME Init PROVE StepInv
    OBVIOUS
  <2>1. PICK step \in StepSizes :
           picker = [visited |-> None, units |-> step, next |-> step,
                     highest |-> step - 1, lowest |-> LowestEquivalent(h.lay, step - 1),
                     quantile |-> 0, reachedEnd |-> FALSE]
    BY DEF Init
  <2>2. /\ picker.units = step /\ picker.next = step /\ picker.highest = step - 1
        /\ picker.lowest = LowestEquivalent(h.lay, picker.highest)
    BY <2>1
  <2>3. it.index = 0 /\ out = <<>> /\ h \in Hists
    BY DEF Init
  <2>4. Len(out) = 0 /\ DOMAIN out = {}
    <3>1. IsSequence(out)
      BY CountInit DEF CountInv
    <3>2. Len(out) = 0
      BY <2>3
    <3> QED BY <3>1, <3>2, SeqDomain
  <2>5. step \in Nat \ {0} /\ step <= MaxWord /\ MaxWord \in Nat /\ step - 1 \in Words
    BY Parameters, WordType
  <2>6. AsWord(step) = step
    <3>1. step \in Int /\ MaxWord \in Int
      BY <2>5
    <3> HIDE DEF MaxWord
    <3> QED BY <2>5, <3>1, MinOfTwo DEF AsWord
  <2>7. it.index <= IndexFor(h.lay, picker.highest)
    <3>1. ValidLayout(h.lay) /\ step - 1 <= step - 1
      BY <2>3, <2>5, HistFacts
    <3>2. IndexFor(h.lay, step - 1) \in Nat
      BY <2>5, <3>1, IndexMonotone
    <3> QED BY <2>2, <2>3, <3>2
  <2>8. (Len(out) + 1) * picker.units - 1 = step - 1
    BY <2>2, <2>4, <2>5
  <2> QED BY <2>2, <2>4, <2>6, <2>7, <2>8 DEF StepInv
<1>2. IterInv /\ StepInv /\ [Next]_vars => StepInv'
  <2> SUFFICES ASSUME IterInv, StepInv, [Next]_vars PROVE StepInv'
    OBVIOUS
  <2>1. CASE Stops
    <3>1. it \in Positions(h)
      BY DEF IterInv, TypeInv
    <3>2. /\ it'.index = it.index /\ it'.maxIndex = it.maxIndex
      BY <2>1, <3>1 DEF Stops, Positions
    <3>3. h' = h /\ kind' = kind /\ picker' = picker /\ out' = out
      BY <2>1 DEF Stops
    <3> QED BY <3>2, <3>3 DEF StepInv, LevelFits
  <2>2. ASSUME NEW p, NEW s, NEW up, Offered(p, s, up) PROVE StepInv'
    <3>1. kind' = kind
      BY <2>2 DEF Offered
    <3>2. kind \notin {"linear", "log"} => StepInv'
      BY <3>1 DEF StepInv
    <3> QED BY <2>2, <3>2, StepYield, StepPass
  <2>3. CASE UNCHANGED vars
    BY <2>3 DEF vars, StepInv, LevelFits
  <2> QED BY <2>1, <2>2, <2>3, StepCases DEF IterInv
<1> QED BY <1>1, <1>2, IterInvHolds, PTL DEF Spec

\* What iter_linear and iter_log have counted when they yield a value is the count of
\* everything up to that value, for every histogram with the statistics of its counts,
\* every step and every width of the words, until the level of iter_linear overflows.
THEOREM StepsAreCumulativeCorrect == Spec => []StepsAreCumulative
<1>1. IterInv /\ StepInv => StepsAreCumulative
  <2> SUFFICES ASSUME IterInv, StepInv, kind \in {"linear", "log"}, NonZero(h) \ {0} # {},
                      NEW k \in DOMAIN out, kind = "log" \/ k * picker.units <= 2^W
               PROVE  out[k].total = CountBetween(h, 0, out[k].value)
    BY DEF StepsAreCumulative
  <2>1. h \in Hists /\ it.maxIndex = IndexFor(h.lay, MaxOf(h))
    BY PositionNumbers DEF IterInv
  <2>2. it.maxIndex > 0
    BY <2>1, TopSlot
  <2> QED BY <2>2 DEF StepInv, LevelFits
<1> QED BY <1>1, IterInvHolds, StepHolds, PTL

-----------------------------------------------------------------------------
(***************************************************************************)
(* iter_quantiles                                                          *)
(***************************************************************************)
\* A number reaches a quotient that is rounded up when its product reaches what was
\* divided.
LEMMA CeilReached ==
    ASSUME NEW a \in Nat, NEW d \in Nat \ {0}, NEW x \in Nat
    PROVE  /\ (a + d - 1) \div d \in Nat
           /\ x >= (a + d - 1) \div d <=> ~(x * d < a)
<1> DEFINE b == a + d - 1
           c == b \div d
<1>1. b \in Nat
  OBVIOUS
<1>2. c \in Nat /\ c * d <= b /\ b < c * d + d
  <2> HIDE DEF b
  <2> QED BY <1>1, DivFacts
<1> HIDE DEF c
<1>3. x >= c => ~(x * d < a)
  <2> SUFFICES ASSUME x >= c PROVE ~(x * d < a)
    OBVIOUS
  <2>1. c * d <= x * d
    BY <1>2, MulMono
  <2>2. c * d \in Nat /\ x * d \in Nat
    BY <1>2
  <2> QED BY <1>2, <2>1, <2>2
<1>4. x < c => x * d < a
  <2> SUFFICES ASSUME x < c PROVE x * d < a
    OBVIOUS
  <2>1. (x + 1) * d <= c * d
    <3>1. x + 1 \in Nat /\ x + 1 <= c
      BY <1>2
    <3> QED BY <1>2, <3>1, MulMono
  <2>2. (x + 1) * d = x * d + d /\ x * d \in Nat /\ c * d \in Nat
    BY <1>2
  <2> QED BY <1>2, <2>1, <2>2
<1>5. x >= c <=> ~(x * d < a)
  BY <1>2, <1>3, <1>4
<1> QED BY <1>2, <1>5 DEF c

\* The slots up to n hold enough samples for the quantile.
Enough(g, q, n) == SumTo(g, n + 1) # 0 /\ ~(SumTo(g, n + 1) * Denom < q * g.total)

\* Those before it do not.
NotBefore(g, q, n) == \A j \in 0..(n - 1) : ~Enough(g, q, j)

\* With one more sample they would, if an f64 holds the total.
Nearly(g, q, n) == (SumTo(g, n + 1) + 1) * Denom >= q * g.total

\* Slot n is in use and is where rounding may find the quantile: those before it do
\* not hold enough samples, and it nearly does.
AtQuantile(g, q, n) == n \in NonZero(g) /\ NotBefore(g, q, n) /\ Nearly(g, q, n)

\* The numbers of samples that the proofs compare with a quantile.
LEMMA Samples ==
    ASSUME NEW g \in Hists
    PROVE  /\ DistinctValues(g) \in Nat \ {0} /\ DOMAIN g.counts = 0..(DistinctValues(g) - 1)
           /\ g.total \in 0..MaxWord /\ MaxWord \in Nat /\ Denom \in Nat \ {0}
           /\ \A i \in DOMAIN g.counts : /\ SumCounts(g, 0..i) = SumTo(g, i + 1)
                                         /\ SumTo(g, i + 1) \in 0..g.total
<1> DEFINE D == DistinctValues(g)
<1>1. D \in Nat \ {0} /\ DOMAIN g.counts = 0..(D - 1)
  BY SlotsOf
<1>2. g.total = SumTo(g, D) /\ g.total <= MaxWord /\ MaxWord \in Nat /\ Denom \in Nat \ {0}
  BY TotalIsSum, WordType, DenomFacts
<1>3. \A i \in 0..D : SumTo(g, i) \in Nat
  BY SumToFacts
<1>4. SumTo(g, D) \in Nat
  BY <1>1, <1>3
<1>5. ASSUME NEW i \in DOMAIN g.counts
      PROVE  SumCounts(g, 0..i) = SumTo(g, i + 1) /\ SumTo(g, i + 1) \in 0..g.total
  <2>1. i + 1 \in 0..D /\ D \in (i + 1)..D /\ (i + 1) - 1 = i
    BY <1>1
  <2>2. SumCounts(g, 0..i) = SumTo(g, i + 1)
    BY <2>1, Zenon DEF SumCounts, SumTo
  <2>3. SumTo(g, i + 1) <= SumTo(g, D)
    BY <2>1, SumToMono
  <2>4. SumTo(g, i + 1) \in Nat
    BY <1>3, <2>1
  <2> QED BY <1>2, <1>4, <2>2, <2>3, <2>4
<1> QED BY <1>1, <1>2, <1>4, <1>5

\* Such a slot is the one that the quantile is in, or the one in use before it.
LEMMA CloseTo ==
    ASSUME h \in Hists, NEW q \in 0..Denom, NEW m, m = IndexFor(h.lay, MaxOf(h)), m > 0,
           NEW n, AtQuantile(h, q, n)
    PROVE  Close(n, q)
<1> DEFINE D == DistinctValues(h)
           R == {i \in NonZero(h) : SumCounts(h, 0..i) * Denom >= q * h.total}
           F == Min(R)
<1>1. /\ D \in Nat \ {0} /\ DOMAIN h.counts = 0..(D - 1) /\ h.total \in Nat
      /\ Denom \in Nat \ {0} /\ q \in Nat /\ q <= Denom
      /\ \A i \in DOMAIN h.counts : /\ SumCounts(h, 0..i) = SumTo(h, i + 1)
                                    /\ SumTo(h, i + 1) \in Nat
  BY Samples
<1>2. n \in NonZero(h) /\ NonZero(h) \subseteq 0..(D - 1)
  BY <1>1 DEF AtQuantile, NonZero
<1>3. m \in R
  <2>1. m \in NonZero(h) /\ m \in 0..(D - 1)
    BY <1>1, TopSlot DEF NonZero
  <2>2. SumTo(h, m + 1) = h.total
    <3>1. m + 1 \in (m + 1)..D
      BY <1>1, <2>1
    <3> QED BY <3>1, FullTotal
  <2>3. h.total * Denom >= q * h.total
    <3>1. q * h.total <= Denom * h.total
      BY <1>1, MulMono
    <3> QED BY <1>1, <3>1
  <2>4. SumCounts(h, 0..m) = h.total
    BY <1>1, <2>1, <2>2
  <2> QED BY <2>1, <2>3, <2>4
<1>4. F \in R /\ (\A j \in R : F <= j) /\ F \in Nat /\ F \in NonZero(h)
  <2>1. R \subseteq Nat
    BY <1>1, <1>2
  <2> HIDE DEF R
  <2>2. F \in R /\ \A j \in R : F <= j
    BY <1>3, <2>1, MinOfNats
  <2> QED BY <2>1, <2>2 DEF R
<1>5. FirstReaching(q) = F
  BY Zenon DEF FirstReaching
<1>6. SumTo(h, F + 1) * Denom >= q * h.total
  BY <1>1, <1>2, <1>4
<1> HIDE DEF F
<1>7. ~(F < n)
  <2> SUFFICES ASSUME F < n PROVE FALSE
    OBVIOUS
  <2>1. F \in 0..(n - 1)
    BY <1>1, <1>2, <1>4
  <2>2. ~Enough(h, q, F)
    BY <2>1 DEF AtQuantile, NotBefore
  <2>3. SumTo(h, F + 1) # 0
    <3>1. F \in DOMAIN h.counts /\ h.counts[F] # 0
      BY <1>4 DEF NonZero
    <3>2. F \in 0..D
      BY <1>1, <3>1
    <3>3. SumTo(h, F) \in Nat /\ h.counts[F] \in Nat /\ SumTo(h, F + 1) = SumTo(h, F) + h.counts[F]
      BY <3>1, <3>2, SumToFacts
    <3> DEFINE x == SumTo(h, F)
               y == SumTo(h, F + 1)
               z == h.counts[F]
    <3> HIDE DEF x, y, z
    <3>4. x \in Nat /\ z \in Nat /\ z # 0 /\ y = x + z
      BY <3>1, <3>3 DEF x, y, z
    <3>5. y # 0
      BY <3>4
    <3> QED BY <3>5 DEF y
  <2>4. SumTo(h, F + 1) * Denom < q * h.total
    BY <2>2, <2>3 DEF Enough
  <2>5. SumTo(h, F + 1) \in Nat
    BY <1>1, <1>2, <1>4
  <2> DEFINE a == SumTo(h, F + 1) * Denom
             b == q * h.total
  <2>6. a \in Int /\ b \in Int /\ a >= b /\ a < b
    BY <1>1, <1>6, <2>4, <2>5
  <2> HIDE DEF a, b
  <2> QED BY <2>6
<1>8. ASSUME NEW j \in NonZero(h), n < j PROVE F <= j
  <2>1. j \in 0..(D - 1) /\ n \in 0..(D - 1) /\ j \in DOMAIN h.counts /\ n \in DOMAIN h.counts
    BY <1>1, <1>2
  <2>2. SumTo(h, n + 1) <= SumTo(h, j)
    <3>1. n + 1 \in 0..D /\ j \in (n + 1)..D
      BY <1>1, <1>8, <2>1
    <3> QED BY <3>1, SumToMono
  <2>3. /\ SumTo(h, j) \in Nat /\ h.counts[j] \in Nat /\ h.counts[j] # 0
        /\ SumTo(h, j + 1) = SumTo(h, j) + h.counts[j]
    <3>1. j \in 0..D
      BY <1>1, <2>1
    <3> QED BY <2>1, <3>1, SumToFacts DEF NonZero
  <2>4. SumTo(h, n + 1) \in Nat /\ SumTo(h, j + 1) \in Nat
    BY <1>1, <2>1
  <2> DEFINE x == SumTo(h, n + 1)
             y == SumTo(h, j + 1)
             b == q * h.total
  <2>5. x \in Nat /\ y \in Nat /\ x + 1 <= y
    BY <2>2, <2>3, <2>4
  <2>6. (x + 1) * Denom >= b /\ b \in Nat
    BY <1>1 DEF AtQuantile, Nearly
  <2>7. SumCounts(h, 0..j) = y
    BY <1>1, <2>1
  <2> HIDE DEF x, y, b
  <2>8. (x + 1) * Denom <= y * Denom
    <3>1. x + 1 \in Nat
      BY <2>5
    <3> QED BY <1>1, <2>5, <3>1, MulMono
  <2>9. (x + 1) * Denom \in Nat /\ y * Denom \in Nat
    BY <1>1, <2>5
  <2>10. y * Denom >= b
    BY <2>6, <2>8, <2>9
  <2>11. j \in R
    BY <1>8, <2>7, <2>10 DEF b
  <2> HIDE DEF R
  <2> QED BY <1>4, <2>11
<1>9. n <= F
  BY <1>1, <1>2, <1>4, <1>7
<1> HIDE DEF R
<1> QED BY <1>2, <1>5, <1>8, <1>9 DEF Close

\* The count that value_at_quantile looks for is reached with enough samples, and one
\* more than it is enough, however the product is rounded.
LEMMA CountsFacts ==
    ASSUME NEW g \in Hists, NEW q \in 0..Denom, NEW c \in CountsAtQuantile(g, q, Denom)
    PROVE  /\ c \in Nat \ {0} /\ (c + 1) * Denom >= q * g.total
           /\ \A x \in Nat : x # 0 /\ ~(x * Denom < q * g.total) => x >= c
<1> DEFINE a == q * g.total
           d == Denom
           exact == (a + d - 1) \div d
           rounded == IF (a % d) * d <= a THEN a \div d ELSE exact
<1>1. d \in Nat \ {0} /\ q \in Nat /\ g.total \in Nat
  BY Samples
<1>2. a \in Nat
  BY <1>1
<1>3. c \in {Max({1, exact}), Max({1, rounded})}
  BY DEF CountsAtQuantile
<1> HIDE DEF a, d
<1>4. exact \in Nat /\ \A x \in Nat : x >= exact <=> ~(x * d < a)
  BY <1>1, <1>2, CeilReached
<1>5. (a \div d) \in Nat /\ (a \div d) * d <= a /\ a < (a \div d) * d + d
  BY <1>1, <1>2, DivFacts
<1>6. exact * d >= a
  <2>1. ~(exact * d < a)
    BY <1>4
  <2>2. exact * d \in Nat
    BY <1>1, <1>4
  <2> HIDE DEF exact
  <2> QED BY <1>2, <2>1, <2>2
<1> DEFINE f == a \div d
<1>7. f \in Nat /\ (f + 1) * d >= a /\ f <= exact
  <2> HIDE DEF exact, f
  <2>1. f \in Nat /\ f * d <= a /\ a < f * d + d
    BY <1>5 DEF f
  <2>2. (f + 1) * d = f * d + d /\ f * d \in Nat
    BY <1>1, <2>1
  <2>3. ~(exact < f)
    <3> SUFFICES ASSUME exact < f PROVE FALSE
      OBVIOUS
    <3>1. (exact + 1) * d <= f * d
      <4>1. exact + 1 \in Nat /\ exact + 1 <= f
        BY <1>4, <2>1
      <4> QED BY <1>1, <2>1, <4>1, MulMono
    <3>2. (exact + 1) * d = exact * d + d /\ exact * d \in Nat
      BY <1>1, <1>4
    <3> QED BY <1>1, <1>2, <1>6, <2>1, <2>2, <3>1, <3>2
  <2>4. (f + 1) * d >= a
    BY <1>1, <1>2, <2>1, <2>2
  <2>5. f <= exact
    BY <1>4, <2>1, <2>3
  <2> QED BY <2>1, <2>4, <2>5
<1>8. rounded \in {f, exact}
  BY Zenon
<1> HIDE DEF f, exact, rounded
<1>9. PICK e \in {f, exact} : c = Max({1, e})
  BY <1>3, <1>8
<1>10. e \in Nat /\ e <= exact /\ (e + 1) * d >= a
  <2>1. (exact + 1) * d = exact * d + d /\ exact * d \in Nat
    BY <1>1, <1>4
  <2>2. (exact + 1) * d >= a
    BY <1>1, <1>2, <1>6, <2>1
  <2> QED BY <1>4, <1>7, <1>9, <2>2
<1>11. c = IF 1 >= e THEN 1 ELSE e
  BY <1>9, <1>10, MaxOfTwo
<1>12. c \in Nat \ {0} /\ e <= c
  BY <1>10, <1>11
<1>13. (c + 1) * d >= a
  <2>1. (e + 1) * d <= (c + 1) * d
    <3>1. e + 1 \in Nat /\ c + 1 \in Nat /\ e + 1 <= c + 1
      BY <1>10, <1>12
    <3> QED BY <1>1, <3>1, MulMono
  <2>2. (e + 1) * d \in Nat /\ (c + 1) * d \in Nat
    BY <1>1, <1>10, <1>12
  <2> QED BY <1>2, <1>10, <2>1, <2>2
<1>14. ASSUME NEW x \in Nat, x # 0, ~(x * d < a) PROVE x >= c
  <2>1. x >= exact
    BY <1>4, <1>14
  <2> QED BY <1>4, <1>10, <1>11, <1>14, <2>1
<1> QED BY <1>12, <1>13, <1>14 DEF a, d

\* value_at_quantile gives such a slot too.
LEMMA ValueAtSlot ==
    ASSUME NEW g \in Hists, NEW q \in 0..Denom, NEW m, m = IndexFor(g.lay, MaxOf(g)), m > 0,
           NEW v \in ValuesAtQuantile(g, q, Denom)
    PROVE  AtQuantile(g, q, IndexFor(g.lay, v))
<1> DEFINE D == DistinctValues(g)
<1>1. /\ D \in Nat \ {0} /\ DOMAIN g.counts = 0..(D - 1) /\ g.total \in 0..MaxWord
      /\ MaxWord \in Nat /\ Denom \in Nat \ {0} /\ q \in Nat /\ q <= Denom
      /\ \A i \in DOMAIN g.counts : /\ SumCounts(g, 0..i) = SumTo(g, i + 1)
                                    /\ SumTo(g, i + 1) \in 0..g.total
  BY Samples
<1>2. PICK c \in CountsAtQuantile(g, q, Denom) : v = ValueAt(g, c, q = 0)
  BY DEF ValuesAtQuantile
<1>3. /\ c \in Nat \ {0} /\ (c + 1) * Denom >= q * g.total
      /\ \A x \in Nat : x # 0 /\ ~(x * Denom < q * g.total) => x >= c
  BY CountsFacts
<1> DEFINE reached == {i \in DOMAIN g.counts : SumCounts(g, 0..i) % 2^W >= c}
           n == Min(reached)
           u == ValueFor(g.lay, n)
<1>4. \A i \in DOMAIN g.counts : i \in reached <=> SumTo(g, i + 1) >= c
  <2> SUFFICES ASSUME NEW i \in DOMAIN g.counts
               PROVE  SumCounts(g, 0..i) % 2^W = SumTo(g, i + 1)
    OBVIOUS
  <2> DEFINE x == SumTo(g, i + 1)
             w == 2^W
  <2>1. SumCounts(g, 0..i) = x /\ x \in 0..MaxWord /\ MaxWord = w - 1 /\ w \in Nat \ {0}
    BY <1>1, WordType
  <2> HIDE DEF x, w
  <2>2. x % w = x
    BY <2>1
  <2> QED BY <2>1, <2>2 DEF x, w
<1>5. m \in reached
  <2>1. m \in DOMAIN g.counts /\ m \in 0..(D - 1)
    BY <1>1, TopSlot
  <2>2. SumTo(g, m + 1) = g.total /\ g.total # 0
    <3>1. m + 1 \in (m + 1)..D
      BY <1>1, <2>1
    <3> QED BY <3>1, FullTotal
  <2>3. ~(g.total * Denom < q * g.total)
    <3>1. q * g.total <= Denom * g.total
      BY <1>1, MulMono
    <3>2. q * g.total \in Nat /\ Denom * g.total \in Nat /\ g.total * Denom = Denom * g.total
      BY <1>1
    <3> QED BY <3>1, <3>2
  <2>4. g.total >= c
    <3>1. g.total \in Nat /\ g.total # 0
      BY <1>1, <2>2
    <3> QED BY Zenon, <1>3, <2>3, <3>1
  <2> HIDE DEF reached
  <2> QED BY <1>4, <2>1, <2>2, <2>4
<1>6. n \in reached /\ (\A j \in reached : n <= j) /\ n \in 0..(D - 1)
  <2>1. reached \subseteq 0..(D - 1) /\ reached \subseteq Nat
    BY <1>1
  <2> HIDE DEF reached
  <2>2. n \in reached /\ \A j \in reached : n <= j
    BY <1>5, <2>1, MinOfNats
  <2> QED BY <2>1, <2>2
<1> HIDE DEF reached
<1>7. v = IF q = 0 THEN LowestEquivalent(g.lay, u) ELSE HighestEquivalent(g.lay, u)
  <2>1. reached # {}
    BY <1>5
  <2> QED BY <1>2, <2>1 DEF ValueAt, reached
<1> HIDE DEF n
<1>8. n \in DOMAIN g.counts
  BY <1>1, <1>6
<1>9. IndexFor(g.lay, v) = n
  <2>1. PICK b, t : Place(g.lay, n, b, t) /\ Fits(g.lay, b)
    BY <1>8, SlotHasPlace
  <2>2. ValidLayout(g.lay) /\ n \in Nat
    BY <1>1, <1>6, HistFacts
  <2>3. u \in Words /\ IndexFor(g.lay, u) = n
    BY <2>1, <2>2, SlotBegins
  <2> HIDE DEF u
  <2>4. /\ IndexFor(g.lay, HighestEquivalent(g.lay, u)) = n
        /\ IndexFor(g.lay, LowestEquivalent(g.lay, u)) = n
    BY <2>2, <2>3, HighestInSlot
  <2> QED BY <1>7, <2>4
<1>10. SumTo(g, n + 1) >= c /\ SumTo(g, n + 1) \in Nat
  BY <1>1, <1>4, <1>6, <1>8
<1>11. g.counts[n] # 0
  <2> SUFFICES ASSUME g.counts[n] = 0 PROVE FALSE
    OBVIOUS
  <2>1. SumTo(g, n + 1) = SumTo(g, n) + g.counts[n] /\ SumTo(g, n) \in Nat
    <3>1. n \in 0..D
      BY <1>1, <1>6
    <3> QED BY <1>8, <3>1, SumToFacts
  <2>2. SumTo(g, n) >= c
    <3> DEFINE x == SumTo(g, n)
               y == SumTo(g, n + 1)
    <3>1. y = x + 0 /\ x \in Nat /\ y >= c
      BY <1>10, <2>1
    <3> HIDE DEF x, y
    <3>2. x >= c
      BY <1>3, <3>1
    <3> QED BY <3>2 DEF x
  <2>3. n # 0
    <3> SUFFICES ASSUME n = 0 PROVE FALSE
      OBVIOUS
    <3>1. SumTo(g, n) = 0
      BY SumToFacts
    <3> QED BY <1>3, <2>2, <3>1
  <2>4. n - 1 \in DOMAIN g.counts /\ (n - 1) + 1 = n
    BY <1>1, <1>6, <2>3
  <2>5. SumTo(g, (n - 1) + 1) = SumTo(g, n)
    BY <2>4, Zenon
  <2>6. n - 1 \in reached
    BY <1>4, <2>2, <2>4, <2>5
  <2>7. n <= n - 1
    BY <1>6, <2>6
  <2> QED BY <1>6, <2>7
<1>12. NotBefore(g, q, n)
  <2> SUFFICES ASSUME NEW j \in 0..(n - 1), Enough(g, q, j) PROVE FALSE
    BY DEF NotBefore
  <2>1. j \in DOMAIN g.counts /\ j < n
    BY <1>1, <1>6
  <2>2. SumTo(g, j + 1) \in Nat
    BY <1>1, <2>1
  <2>3. SumTo(g, j + 1) >= c
    BY <1>3, <2>2 DEF Enough
  <2>4. n <= j
    BY <1>4, <1>6, <2>1, <2>3
  <2> QED BY <1>6, <2>1, <2>4
<1>13. Nearly(g, q, n)
  <2> DEFINE y == SumTo(g, n + 1)
             a == q * g.total
  <2>1. y \in Nat /\ y >= c /\ a \in Nat /\ (c + 1) * Denom >= a
    BY <1>1, <1>3, <1>10
  <2> HIDE DEF y, a
  <2>2. (c + 1) * Denom <= (y + 1) * Denom
    <3>1. c + 1 \in Nat /\ y + 1 \in Nat /\ c + 1 <= y + 1
      BY <1>3, <2>1
    <3> QED BY <1>1, <3>1, MulMono
  <2>3. (c + 1) * Denom \in Nat /\ (y + 1) * Denom \in Nat
    BY <1>1, <1>3, <2>1
  <2>4. (y + 1) * Denom >= a
    BY <2>1, <2>2, <2>3
  <2> QED BY <2>4 DEF Nearly, y, a
<1> QED BY <1>8, <1>9, <1>11, <1>12, <1>13 DEF AtQuantile, NonZero

\* More samples are needed for a larger quantile.
LEMMA EnoughMono ==
    ASSUME NEW g \in Hists, NEW q \in 0..Denom, NEW r \in 0..Denom, q <= r,
           NEW n \in 0..DistinctValues(g), NotBefore(g, q, n)
    PROVE  NotBefore(g, r, n)
<1> DEFINE D == DistinctValues(g)
<1>1. D \in Nat \ {0} /\ Denom \in Nat \ {0} /\ g.total \in Nat
  <2>1. g.total = SumTo(g, DistinctValues(g)) /\ D \in 0..D
    BY TotalIsSum, SlotsOf
  <2>2. \A i \in 0..DistinctValues(g) : SumTo(g, i) \in Nat
    BY SumToFacts
  <2> QED BY <2>1, <2>2, SlotsOf, DenomFacts
<1>2. ASSUME NEW j \in 0..(n - 1) PROVE ~Enough(g, r, j)
  <2> DEFINE x == SumTo(g, j + 1)
  <2>1. x \in Nat
    <3> HIDE DEF D
    <3>1. j + 1 \in 0..D
      BY <1>1 DEF D
    <3> QED BY <3>1, SumToFacts DEF D
  <2>2. x = 0 \/ x * Denom < q * g.total
    BY DEF NotBefore, Enough
  <2> HIDE DEF x
  <2>3. q * g.total <= r * g.total
    BY <1>1, MulMono
  <2>4. x * Denom \in Nat /\ q * g.total \in Nat /\ r * g.total \in Nat
    BY <1>1, <2>1
  <2>5. x = 0 \/ x * Denom < r * g.total
    BY <2>2, <2>3, <2>4
  <2> QED BY <2>5 DEF Enough, x
<1> QED BY <1>2 DEF NotBefore

\* What iter_quantiles has yielded are slots that the quantiles are at, for larger and
\* larger quantiles below the next one, and before the index there are not enough
\* samples for that one.  Of a histogram with nothing above slot 0 it never counts.
QuantileInv ==
    kind = "quantile" =>
        /\ it.maxIndex = 0 => out = <<>> /\ it.at = 0
        /\ it.maxIndex > 0 =>
             /\ ~picker.reachedEnd => NotBefore(h, picker.quantile, it.index)
             /\ it.ended => picker.reachedEnd
             /\ picker.reachedEnd => Len(out) > 0 /\ out[Len(out)].quantile = Denom
             /\ ~picker.reachedEnd /\ Len(out) > 0 => out[Len(out)].quantile < picker.quantile
             /\ \A k \in DOMAIN out :
                  /\ out[k].quantile \in 0..Denom
                  /\ AtQuantile(h, out[k].quantile, out[k].index)
                  /\ k > 1 => out[k - 1].quantile < out[k].quantile

\* What iter_quantiles is offered.
LEMMA QuantileOffered ==
    ASSUME TypeInv, CountInv, PickerInv, QuantileInv, kind = "quantile", it.maxIndex > 0,
           NEW p, NEW s, NEW up, Offered(p, s, up)
    PROVE  /\ p \in Pickers /\ ~p.reachedEnd /\ ~picker.reachedEnd
           /\ picker.quantile <= p.quantile /\ p.quantile \in 0..Denom
           /\ NotBefore(h, p.quantile, it.index)
           /\ s.at = h.counts[it.index] /\ s.total = SumTo(h, it.index + 1)
<1> DEFINE D == DistinctValues(h)
           n == it.index
<1>1. /\ h \in Hists /\ D \in Nat \ {0} /\ DOMAIN h.counts = 0..(D - 1) /\ n \in 0..(D - 1)
      /\ it.maxIndex \in 0..(D - 1) /\ it.fresh \in BOOLEAN
  BY PositionNumbers DEF Offered
<1>2. Ready(s) /\ p \in Pickers /\ picker \in Pickers
  BY OfferedReady DEF Offered, TypeInv
<1>3. /\ picker.quantile \in 0..Denom /\ p.quantile \in 0..Denom /\ Denom \in Nat \ {0}
  BY <1>2, DenomFacts DEF Pickers
<1>4. ~picker.reachedEnd
  <2> SUFFICES ASSUME picker.reachedEnd PROVE FALSE
    OBVIOUS
  <2>1. PastMax
    BY DEF PickerInv
  <2>2. More(picker, n)
    BY <2>1 DEF Offered
  <2> QED BY <2>2 DEF More
<1>5. /\ p.reachedEnd = picker.reachedEnd
      /\ p.quantile = picker.quantile \/ p.quantile = Denom
  <2>1. p = picker \/ p = [picker EXCEPT !.quantile = Denom]
    BY DEF Offered, AfterMore
  <2> QED BY <1>2, <2>1 DEF Pickers
<1>6. picker.quantile <= p.quantile
  BY <1>3, <1>5
<1>7. NotBefore(h, p.quantile, n)
  <2>1. NotBefore(h, picker.quantile, n)
    BY <1>4 DEF QuantileInv
  <2>2. n \in 0..DistinctValues(h)
    BY <1>1
  <2> QED BY <1>1, <1>3, <1>6, <2>1, <2>2, EnoughMono
<1>8. ~s.fresh
  <2>1. CASE ~PastMax
    BY <1>2, <2>1 DEF Ready
  <2>2. CASE PastMax
    <3>1. s = it /\ Seen > it.maxIndex /\ n <= it.maxIndex
      BY <1>2, <2>2 DEF Ready, CountInv, PickerInv
    <3> QED BY <1>1, <3>1 DEF Seen
  <2> QED BY <2>1, <2>2
<1> QED BY <1>2, <1>3, <1>4, <1>5, <1>6, <1>7, <1>8 DEF Ready

\* A turn in which iter_quantiles yields.
LEMMA QuantileYield ==
    ASSUME TypeInv, CountInv, PickerInv, QuantileInv, kind = "quantile", it.maxIndex > 0,
           NEW p, NEW s, NEW up, Offered(p, s, up), Pick(p, s, up).some
    PROVE  QuantileInv'
<1> DEFINE D == DistinctValues(h)
           n == it.index
           r == Pick(p, s, up)
           e == Value(r, s)
           q == p.quantile
           N == Len(out)
<1>1. /\ h \in Hists /\ D \in Nat \ {0} /\ DOMAIN h.counts = 0..(D - 1) /\ n \in 0..(D - 1)
      /\ h' = h /\ kind' = kind /\ ~it.ended
  BY PositionNumbers DEF Offered
<1>2. Ready(s) /\ s \in Positions(h)
  BY OfferedReady DEF Offered
<1>3. /\ p \in Pickers /\ ~p.reachedEnd /\ ~picker.reachedEnd
      /\ picker.quantile <= q /\ q \in 0..Denom
      /\ NotBefore(h, q, n)
      /\ s.at = h.counts[n] /\ s.total = SumTo(h, n + 1)
  BY QuantileOffered
<1>4. picker' = r.p /\ it' = Yielded(s) /\ out' = Append(out, e)
  BY OfferedCases
<1>5. it'.index = n /\ it'.maxIndex = it.maxIndex /\ it'.ended = FALSE /\ s.index = n
  BY <1>1, <1>2, <1>4 DEF Yielded, Ready, Positions
<1>6. /\ s.at # 0 /\ Reaches(p, s, up)
      /\ r.quantile = q
      /\ r.p.reachedEnd <=> q = Denom
      /\ r.p.quantile \in q..Denom
      /\ q # Denom => q < r.p.quantile
  BY <1>3, PickQuantiles
<1>7. e.quantile = q /\ e.index = n
  BY <1>5, <1>6 DEF Value
<1>8. Nearly(h, q, n)
  <2>1. s.total \in Nat /\ h.total \in Nat
    <3>1. n \in DOMAIN h.counts
      BY <1>1
    <3> QED BY <1>1, <1>3, <3>1, Samples
  <2> QED BY <1>3, <1>6, <2>1, ReachesFacts DEF Nearly
<1>9. AtQuantile(h, q, n)
  <2>1. n \in NonZero(h)
    BY <1>1, <1>3, <1>6 DEF NonZero
  <2> QED BY <1>3, <1>8, <2>1 DEF AtQuantile
<1>10. IsSequence(out)
  BY DEF CountInv
<1> HIDE DEF e, r
<1>11. /\ Len(out') = N + 1 /\ DOMAIN out' = 1..(N + 1)
       /\ DOMAIN out = 1..N /\ N \in Nat
       /\ \A k \in 1..N : out'[k] = out[k]
       /\ out'[N + 1] = e
  BY <1>4, <1>10, AppendSeq
<1>12. picker' = r.p /\ picker'.quantile \in 0..Denom /\ Denom \in Nat \ {0}
  BY <1>3, <1>4, <1>6, DenomFacts
<1>13. picker.quantile \in 0..Denom
  BY DEF TypeInv, Pickers
<1>14. ~picker'.reachedEnd => NotBefore(h, picker'.quantile, n)
  <2>1. q <= picker'.quantile /\ n \in 0..DistinctValues(h)
    BY <1>1, <1>3, <1>6, <1>12
  <2> HIDE DEF q, n
  <2> QED BY <1>1, <1>3, <1>12, <2>1, EnoughMono
<1>15. ASSUME NEW k \in DOMAIN out'
       PROVE  /\ out'[k].quantile \in 0..Denom
              /\ AtQuantile(h, out'[k].quantile, out'[k].index)
              /\ k > 1 => out'[k - 1].quantile < out'[k].quantile
  <2>1. CASE k \in 1..N
    <3>1. /\ out[k].quantile \in 0..Denom
          /\ AtQuantile(h, out[k].quantile, out[k].index)
          /\ k > 1 => out[k - 1].quantile < out[k].quantile
      BY <1>11, <2>1 DEF QuantileInv
    <3>2. k > 1 => k - 1 \in 1..N
      BY <1>11, <2>1
    <3> QED BY <1>11, <2>1, <3>1, <3>2
  <2>2. CASE k = N + 1
    <3>1. out'[k] = e
      BY <1>11, <2>2
    <3>2. ASSUME k > 1 PROVE out'[k - 1].quantile < out'[k].quantile
      <4>1. N > 0 /\ k - 1 = N /\ N \in 1..N
        BY <1>11, <2>2, <3>2
      <4>2. out[N].quantile < picker.quantile /\ out[N].quantile \in 0..Denom
        BY <1>3, <1>11, <4>1 DEF QuantileInv
      <4>3. N \in DOMAIN out /\ out'[N] = out[N]
        BY <1>11, <4>1
      <4> QED BY <1>3, <1>7, <1>13, <3>1, <4>1, <4>2, <4>3
    <3> QED BY <1>3, <1>7, <1>9, <3>1, <3>2
  <2> QED BY <1>11, <2>1, <2>2
<1>16. /\ picker'.reachedEnd => out'[Len(out')].quantile = Denom
       /\ ~picker'.reachedEnd => out'[Len(out')].quantile < picker'.quantile
       /\ Len(out') > 0
  BY <1>6, <1>7, <1>11, <1>12
<1> QED BY <1>1, <1>5, <1>14, <1>15, <1>16 DEF QuantileInv

\* A turn in which it passes an index: there are not enough samples up to there.
LEMMA QuantilePass ==
    ASSUME TypeInv, CountInv, PickerInv, QuantileInv, kind = "quantile", it.maxIndex > 0,
           NEW p, NEW s, NEW up, Offered(p, s, up), ~Pick(p, s, up).some
    PROVE  QuantileInv'
<1> DEFINE D == DistinctValues(h)
           n == it.index
           r == Pick(p, s, up)
           q == p.quantile
           N == Len(out)
<1>1. /\ h \in Hists /\ D \in Nat \ {0} /\ DOMAIN h.counts = 0..(D - 1) /\ n \in 0..(D - 1)
      /\ h' = h /\ kind' = kind /\ ~it.ended
  BY PositionNumbers DEF Offered
<1>2. Ready(s) /\ s \in Positions(h)
  BY OfferedReady DEF Offered
<1>3. /\ p \in Pickers /\ ~p.reachedEnd /\ ~picker.reachedEnd
      /\ picker.quantile <= q /\ q \in 0..Denom
      /\ NotBefore(h, q, n)
      /\ s.at = h.counts[n] /\ s.total = SumTo(h, n + 1)
  BY QuantileOffered
<1>4. picker' = r.p /\ it' = PassedOver(s) /\ out' = out
  BY OfferedCases
<1>5. it'.index = n + 1 /\ it'.maxIndex = it.maxIndex /\ it'.ended = FALSE
  BY <1>1, <1>2, <1>4 DEF PassedOver, Ready, Positions
<1>6. r.p = p /\ (s.at = 0 \/ s.total * Denom < q * h.total)
  <2>1. s.total \in Nat /\ h.total \in Nat
    <3>1. n \in DOMAIN h.counts
      BY <1>1
    <3> QED BY <1>1, <1>3, <3>1, Samples
  <2> QED BY <1>3, <2>1, PickQuantiles, ReachesFacts
<1>7. ~Enough(h, q, n)
  <2>1. CASE s.total * Denom < q * h.total
    BY <1>3, <2>1 DEF Enough
  <2>2. CASE s.at = 0
    <3>1. h.counts[n] = 0 /\ SumTo(h, n + 1) = SumTo(h, n) + h.counts[n]
      BY <1>1, <1>3, <2>2, SumToFacts
    <3>2. SumTo(h, n) \in Nat
      <4>1. n \in 0..DistinctValues(h)
        BY <1>1
      <4> QED BY <1>1, <4>1, SumToFacts
    <3>3. SumTo(h, n + 1) = SumTo(h, n)
      BY <3>1, <3>2
    <3>4. CASE n = 0
      <4>1. SumTo(h, n) = 0
        BY <1>1, <3>4, SumToFacts
      <4> QED BY <3>3, <4>1 DEF Enough
    <3>5. CASE n # 0
      <4>1. n - 1 \in 0..(n - 1) /\ (n - 1) + 1 = n
        BY <1>1, <3>5
      <4>2. ~Enough(h, q, n - 1)
        BY <1>3, <4>1 DEF NotBefore
      <4>3. SumTo(h, (n - 1) + 1) = SumTo(h, n)
        BY <4>1, Zenon
      <4> QED BY <3>3, <4>2, <4>3, Zenon DEF Enough
    <3> QED BY <3>4, <3>5
  <2> QED BY <1>6, <2>1, <2>2
<1>8. NotBefore(h, q, n + 1)
  <2>1. \A j \in 0..((n + 1) - 1) : j \in 0..(n - 1) \/ j = n
    BY <1>1
  <2> HIDE DEF q, n
  <2> QED BY <1>3, <1>7, <2>1 DEF NotBefore
<1>9. picker' = p /\ picker'.quantile = q /\ ~picker'.reachedEnd
  BY <1>3, <1>4, <1>6
<1>10. Len(out) > 0 => out[Len(out)].quantile < q
  <2> SUFFICES ASSUME N > 0 PROVE out[N].quantile < q
    OBVIOUS
  <2>1. N \in DOMAIN out
    <3>1. DOMAIN out = 1..N /\ N \in Nat
      BY SeqDomain DEF CountInv
    <3> QED BY <3>1
  <2>2. out[N].quantile < picker.quantile /\ out[N].quantile \in 0..Denom
    BY <1>3, <2>1 DEF QuantileInv
  <2>3. picker.quantile \in 0..Denom /\ Denom \in Nat
    BY DenomFacts DEF TypeInv, Pickers
  <2> QED BY <1>3, <2>2, <2>3
<1>11. \A k \in DOMAIN out :
         /\ out[k].quantile \in 0..Denom
         /\ AtQuantile(h, out[k].quantile, out[k].index)
         /\ k > 1 => out[k - 1].quantile < out[k].quantile
  BY DEF QuantileInv
<1> HIDE DEF q
<1> QED BY <1>1, <1>4, <1>5, <1>8, <1>9, <1>10, <1>11 DEF QuantileInv

\* With nothing above slot 0 it passes every index.
LEMMA QuantileEmpty ==
    ASSUME TypeInv, CountInv, QuantileInv, kind = "quantile", it.maxIndex = 0,
           NEW p, NEW s, NEW up, Offered(p, s, up)
    PROVE  QuantileInv'
<1>1. Ready(s) /\ s \in Positions(h) /\ h' = h /\ kind' = kind /\ p \in Pickers
  BY OfferedReady DEF Offered
<1>2. it.at = 0 /\ out = <<>>
  BY DEF QuantileInv
<1>3. PastMax
  <2>1. it.lastPicked \in Nat
    BY PositionNumbers
  <2> QED BY <2>1 DEF PastMax
<1>4. s = it
  BY <1>1, <1>3 DEF Ready
<1>5. ~Pick(p, s, up).some
  BY <1>1, <1>2, <1>4, PickQuantiles
<1>6. it' = PassedOver(s) /\ out' = out
  BY <1>5, OfferedCases
<1>7. it'.at = 0 /\ it'.maxIndex = 0
  BY <1>1, <1>2, <1>4, <1>6 DEF PassedOver, Positions
<1> QED BY <1>2, <1>6, <1>7 DEF QuantileInv

\* iter_quantiles yields slots that the quantiles are at, in every reachable state.
LEMMA QuantileHolds == Spec => []QuantileInv
<1>1. Init => QuantileInv
  <2> SUFFICES ASSUME Init PROVE QuantileInv
    OBVIOUS
  <2>1. it.index = 0 /\ it.at = 0 /\ it.ended = FALSE /\ out = <<>> /\ picker.reachedEnd = FALSE
    BY DEF Init
  <2>2. Len(out) = 0 /\ DOMAIN out = {}
    <3>1. IsSequence(out)
      BY CountInit DEF CountInv
    <3>2. Len(out) = 0
      BY <2>1
    <3> QED BY <3>1, <3>2, SeqDomain
  <2>3. NotBefore(h, picker.quantile, 0)
    BY DEF NotBefore
  <2> QED BY <2>1, <2>2, <2>3 DEF QuantileInv
<1>2. IterInv /\ QuantileInv /\ [Next]_vars => QuantileInv'
  <2> SUFFICES ASSUME IterInv, QuantileInv, [Next]_vars PROVE QuantileInv'
    OBVIOUS
  <2>1. TypeInv /\ CountInv /\ PickerInv
    BY DEF IterInv
  <2>2. CASE Stops
    <3>1. it \in Positions(h)
      BY <2>1 DEF TypeInv
    <3>2. /\ it'.index = it.index /\ it'.maxIndex = it.maxIndex /\ it'.at = it.at
      BY <2>2, <3>1 DEF Stops, Positions
    <3>3. h' = h /\ kind' = kind /\ picker' = picker /\ out' = out
      BY <2>2 DEF Stops
    <3>4. ASSUME kind = "quantile", it.maxIndex > 0 PROVE picker.reachedEnd
      <4>1. ~AtEnd
        <5>1. it.index <= it.maxIndex
          BY <2>1, <3>4 DEF PickerInv
        <5>2. it.maxIndex \in 0..(DistinctValues(h) - 1) /\ DistinctValues(h) \in Nat
              /\ it.index \in 0..DistinctValues(h)
          BY <2>1, PositionNumbers
        <5> QED BY <5>1, <5>2 DEF AtEnd
      <4>2. ~More(picker, it.index)
        BY <2>2, <4>1 DEF Stops
      <4> QED BY <3>4, <4>2 DEF More
    <3> QED BY <3>2, <3>3, <3>4 DEF QuantileInv
  <2>3. ASSUME NEW p, NEW s, NEW up, Offered(p, s, up) PROVE QuantileInv'
    <3>1. kind' = kind
      BY <2>3 DEF Offered
    <3>2. kind # "quantile" => QuantileInv'
      BY <3>1 DEF QuantileInv
    <3>3. it.maxIndex = 0 \/ it.maxIndex > 0
      <4>1. it.maxIndex \in Nat
        BY <2>1, PositionNumbers
      <4> QED BY <4>1
    <3> QED BY <2>1, <2>3, <3>2, <3>3, QuantileYield, QuantilePass, QuantileEmpty
  <2>4. CASE UNCHANGED vars
    BY <2>4 DEF vars, QuantileInv
  <2> QED BY <2>1, <2>2, <2>3, <2>4, StepCases
<1> QED BY <1>1, <1>2, IterInvHolds, PTL DEF Spec

\* iter_quantiles and value_at_quantile give for each quantile the slot where it is
\* or the one in use before it, however the quotient of the one and the product of the
\* other are rounded, in increasing order of quantiles, and the last one is 1.0: for
\* every histogram with the statistics of its counts and a total that an f64 holds,
\* every number of ticks and of halvings.
THEOREM QuantilesReachedCorrect == Spec => []QuantilesReached
<1>1. IterInv /\ QuantileInv => QuantilesReached
  <2> SUFFICES ASSUME IterInv, QuantileInv, kind = "quantile" PROVE QuantilesReached
    BY DEF QuantilesReached
  <2>1. TypeInv /\ CountInv
    BY DEF IterInv
  <2>2. /\ h \in Hists /\ it.maxIndex = IndexFor(h.lay, MaxOf(h)) /\ it.maxIndex \in Nat
    BY <2>1, PositionNumbers
  <2>3. NonZero(h) \ {0} # {} => it.maxIndex > 0
    BY <2>2, TopSlot
  <2>4. ASSUME it.ended, NonZero(h) \ {0} # {} PROVE Last(out).quantile = Denom
    BY <2>3, <2>4 DEF QuantileInv, Last
  <2>5. ASSUME NEW k \in DOMAIN out
        PROVE  /\ Close(out[k].index, out[k].quantile)
               /\ \A v \in ValuesAtQuantile(h, out[k].quantile, Denom) :
                     Close(IndexFor(h.lay, v), out[k].quantile)
               /\ k > 1 => out[k - 1].quantile < out[k].quantile
    <3>1. CASE it.maxIndex > 0
      <4>1. /\ out[k].quantile \in 0..Denom /\ AtQuantile(h, out[k].quantile, out[k].index)
            /\ k > 1 => out[k - 1].quantile < out[k].quantile
        BY <3>1 DEF QuantileInv
      <4>2. Close(out[k].index, out[k].quantile)
        BY <2>2, <3>1, <4>1, CloseTo
      <4>3. ASSUME NEW v \in ValuesAtQuantile(h, out[k].quantile, Denom)
            PROVE  Close(IndexFor(h.lay, v), out[k].quantile)
        <5>1. AtQuantile(h, out[k].quantile, IndexFor(h.lay, v))
          BY <2>2, <3>1, <4>1, ValueAtSlot
        <5> QED BY <2>2, <3>1, <4>1, <5>1, CloseTo
      <4> QED BY <4>1, <4>2, <4>3
    <3>2. CASE it.maxIndex = 0
      <4>1. Len(out) = 0
        BY <3>2 DEF QuantileInv
      <4>2. DOMAIN out = 1..Len(out)
        BY <2>1, SeqDomain DEF CountInv
      <4>3. 1..0 = {}
        OBVIOUS
      <4> QED BY <4>1, <4>2, <4>3
    <3> QED BY <2>2, <3>1, <3>2
  <2> QED BY <2>4, <2>5 DEF QuantilesReached
<1> QED BY <1>1, IterInvHolds, QuantileHolds, PTL
=============================================================================
