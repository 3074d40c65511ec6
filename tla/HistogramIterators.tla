-------------------------- MODULE HistogramIterators --------------------------
(***************************************************************************)
(* HistogramIterator and its five pickers (HdrHistogram_rust/src/          *)
(* iterators).  A step is one turn of the loop of next(); a client keeps   *)
(* calling next().  Quantiles are numerators over Denom, which stands for  *)
(* the precision of an f64 below 1.0.                                      *)
(***************************************************************************)
EXTENDS HistogramOps

CONSTANTS Hists,      \* histograms to iterate over
          Kinds,      \* a subset of the five iterators
          StepSizes,  \* of iter_linear and the first bucket of iter_log
          LogBase,    \* of iter_log; a whole number
          Ticks,      \* ticks_per_half_distance of iter_quantiles
          Halvings    \* bound: halvings that an f64 can tell apart

ASSUME IteratorsAssumption ==
    /\ \A g \in Hists : WellFormed(g)
    /\ Kinds \subseteq {"recorded", "all", "linear", "log", "quantile"}
    /\ StepSizes \subseteq Words \ {0} /\ LogBase \in Nat \ {0, 1}
    /\ Ticks \in Nat \ {0} /\ Halvings \in Nat

\* The statistics are those of the counts, and the total has not saturated.
ASSUME CountsAssumption ==
    \A g \in Hists : Consistent(g) /\ SumCounts(g, NonZero(g)) <= MaxWord

Denom == Ticks * 2^(Halvings + 1)

\* An f64 holds the total, which it does up to 2^53.
ASSUME FloatAssumption == "quantile" \in Kinds => \A g \in Hists : g.total <= Denom

VARIABLES h,       \* the histogram
          kind,    \* the iterator
          picker,  \* the picker's fields
          it,      \* the fields of HistogramIterator
          out      \* history: the values yielded

vars == <<h, kind, picker, it, out>>

None == -1  \* no index visited

Init ==
    /\ h \in Hists /\ kind \in Kinds
    /\ \E step \in StepSizes :
         picker = [visited |-> None, units |-> step, next |-> step,
                   highest |-> step - 1, lowest |-> LowestEquivalent(h.lay, step - 1),
                   quantile |-> 0, reachedEnd |-> FALSE]
    /\ it = [total |-> 0, since |-> 0, at |-> 0, index |-> 0, lastPicked |-> 0,
             maxIndex |-> IndexFor(h.lay, MaxOf(h)), fresh |-> TRUE, ended |-> FALSE]
    /\ out = <<>>

-----------------------------------------------------------------------------
(***************************************************************************)
(* The pickers: pick(index, total_count_to_index, count_at_index) yields   *)
(* [some, p, value, quantile]; None where PickMetadata has no value.       *)
(***************************************************************************)
Nothing(p) == [some |-> FALSE, p |-> p, value |-> None, quantile |-> None]
Picked(p, value, quantile) ==
    [some |-> TRUE, p |-> p, value |-> value, quantile |-> quantile]

PickAll(p, s) ==
    IF p.visited # s.index THEN Picked([p EXCEPT !.visited = s.index], None, None)
    ELSE Nothing(p)

PickRecorded(p, s) == IF s.at # 0 THEN PickAll(p, s) ELSE Nothing(p)

\* The condition of the linear and the logarithmic picker.
StepReached(p, s) == ValueFor(h.lay, s.index) >= p.lowest \/ s.index = LastIndex(h)

\* Mutant of NextStep: the lowest value of the step is not rounded to its slot.
NextStepExact(p, highest) == [p EXCEPT !.highest = highest, !.lowest = highest]

NextStep(p, highest) ==
    [p EXCEPT !.highest = highest, !.lowest = LowestEquivalent(h.lay, highest)]

PickLinear(p, s) ==
    IF StepReached(p, s)
      THEN Picked(NextStep(p, (p.highest + p.units) % 2^W), p.highest, None)
      ELSE Nothing(p)

\* `as u64` saturates.
AsWord(n) == Min({n, MaxWord})

PickLog(p, s) ==
    IF StepReached(p, s)
      THEN LET next == p.next * LogBase
           IN  Picked([NextStep(p, AsWord(next) - 1) EXCEPT !.next = next], p.highest, None)
      ELSE Nothing(p)

\* floor(log2(1 / (1 - quantile)))
NumHalvings(q) == Max({n \in 0..(Halvings + 1) : 2^n * (Denom - q) <= Denom})
\* Zero when the increment is too small to change the quantile.
Increment(q) == Denom \div (Ticks * 2^(NumHalvings(q) + 1))

\* current_quantile is rounded to an f64, as p.quantile is one: the quotient is at
\* least that when it is exactly, and may be (up) when it is just below.
Reaches(p, s, up) ==
    \/ s.total * Denom >= p.quantile * h.total
    \/ up /\ s.total * Denom > (p.quantile - 1) * h.total

\* Mutant of PickQuantile: a slot that just reaches the quantile is passed over.
PickQuantileStrict(p, s, up) ==
    IF s.at = 0 \/ s.total * Denom <= p.quantile * h.total \/ p.reachedEnd THEN Nothing(p)
    ELSE IF p.quantile = Denom
      THEN Picked([p EXCEPT !.reachedEnd = TRUE], None, Denom)
    ELSE Picked([p EXCEPT !.quantile = IF Increment(@) = 0 THEN Denom ELSE @ + Increment(@)],
                None, p.quantile)

PickQuantile(p, s, up) ==
    IF s.at = 0 \/ ~Reaches(p, s, up) \/ p.reachedEnd THEN Nothing(p)
    ELSE IF p.quantile = Denom
      THEN Picked([p EXCEPT !.reachedEnd = TRUE], None, Denom)
    ELSE Picked([p EXCEPT !.quantile = IF Increment(@) = 0 THEN Denom ELSE @ + Increment(@)],
                None, p.quantile)

Pick(p, s, up) ==
    CASE kind = "all"      -> PickAll(p, s)
      [] kind = "recorded" -> PickRecorded(p, s)
      [] kind = "linear"   -> PickLinear(p, s)
      [] kind = "log"      -> PickLog(p, s)
      [] kind = "quantile" -> PickQuantile(p, s, up)

\* more(index_to_pick)
More(p, index) ==
    CASE kind = "all"      -> TRUE
      [] kind = "recorded" -> FALSE
      [] kind = "linear"   -> p.highest < ValueFor(h.lay, index + 1)
      [] kind = "log"      -> LowestEquivalent(h.lay, AsWord(p.next)) < ValueFor(h.lay, index)
      [] kind = "quantile" -> ~p.reachedEnd

\* What more() leaves of the picker: iter_quantiles jumps to 1.0.
AfterMore(p) == IF kind = "quantile" THEN [p EXCEPT !.quantile = Denom] ELSE p

-----------------------------------------------------------------------------
(***************************************************************************)
(* next()                                                                  *)
(***************************************************************************)
\* Mutant of PastMax: the maximum counts as done before it was picked.
PastMaxIndex == it.index >= it.maxIndex

PastMax == it.lastPicked >= it.maxIndex
AtEnd == it.index = DistinctValues(h)

\* A fresh index adds its count once.
Counted(s) ==
    IF ~s.fresh THEN s
    ELSE [s EXCEPT !.at = h.counts[s.index],
                   !.total = SatAdd(@, h.counts[s.index], MaxWord),
                   !.since = SatAdd(@, h.counts[s.index], MaxWord),
                   !.fresh = FALSE]

\* Mutant of Yielded: the index that comes next is remembered.
YieldedNext(s) == [s EXCEPT !.since = 0, !.lastPicked = s.index + 1]

\* What a value yielded leaves: the next one counts from here.
Yielded(s) == [s EXCEPT !.since = 0, !.lastPicked = s.index]

\* Mutant of Offer: an index that is not picked is kept.
OfferStays(p, s, up) ==
    LET r == Pick(p, s, up) IN
    /\ picker' = r.p
    /\ \/ r.some /\ out' = Append(out, [index |-> s.index])
          /\ it' = Yielded(s)
       \/ ~r.some /\ it' = [s EXCEPT !.fresh = TRUE] /\ UNCHANGED out

\* Offer the index to the picker: yield it, or go to the next.
Offer(p, s, up) ==
    LET r == Pick(p, s, up) IN
    /\ picker' = r.p
    /\ \/ /\ r.some
          /\ out' = Append(out,
                [index |-> s.index,
                 value |-> IF r.value # None THEN r.value
                           ELSE HighestEquivalent(h.lay, ValueFor(h.lay, s.index)),
                 total |-> s.total,
                 quantile |-> r.quantile,
                 count |-> h.counts[s.index],
                 since |-> s.since])
          /\ it' = Yielded(s)
       \/ /\ ~r.some
          /\ it' = [s EXCEPT !.index = @ + 1, !.fresh = TRUE]
          /\ UNCHANGED out

OutOfSlots ==
    /\ ~it.ended /\ AtEnd
    /\ it' = [it EXCEPT !.ended = TRUE]
    /\ UNCHANGED <<h, kind, picker, out>>

NoMore ==
    /\ ~it.ended /\ ~AtEnd /\ PastMax /\ ~More(picker, it.index)
    /\ it' = [it EXCEPT !.ended = TRUE]
    /\ UNCHANGED <<h, kind, picker, out>>

Continue ==
    /\ ~it.ended /\ ~AtEnd /\ PastMax /\ More(picker, it.index)
    /\ \E up \in BOOLEAN : Offer(AfterMore(picker), it, up)
    /\ UNCHANGED <<h, kind>>

Visit ==
    /\ ~it.ended /\ ~AtEnd /\ ~PastMax
    /\ \E up \in BOOLEAN : Offer(picker, Counted(it), up)
    /\ UNCHANGED <<h, kind>>

Next == OutOfSlots \/ NoMore \/ Continue \/ Visit

Spec == Init /\ [][Next]_vars /\ WF_vars(Next)

-----------------------------------------------------------------------------
(***************************************************************************)
(* Properties                                                              *)
(***************************************************************************)
\* Type invariant: counters and the pickers' levels fit a word, and the index
\* never passes the end of the counts.
TypeOK ==
    /\ it.total \in Words /\ it.since \in Words /\ it.at \in 0..CounterMax
    /\ it.index \in 0..DistinctValues(h) /\ it.lastPicked \in DOMAIN h.counts
    /\ picker.highest \in Words /\ picker.quantile \in 0..Denom

\* The counts that come out add up: at every moment count_since_last_iteration
\* of the values yielded, with what has been gathered since, is the running
\* total, and when the iterator ends after a value above slot 0 was recorded
\* every sample has been yielded exactly once, with every iterator;
\* iter_recorded has then yielded the slots of IterRecorded, the form in which
\* add_correct and clone_correct use it.
EverySampleOnce ==
    LET yielded == SumFunctionOnSet([k \in DOMAIN out |-> out[k].since], DOMAIN out) IN
    /\ yielded + it.since = it.total
    /\ it.ended /\ NonZero(h) \ {0} # {} => yielded = h.total
    /\ kind = "recorded" /\ it.ended =>
          [k \in DOMAIN out |-> out[k].index] = IterRecorded(h)

\* The doc examples of iter_linear and iter_log: what has been counted when a
\* value is yielded is quantile_below of that value.  The level of iter_linear is
\* a u64 that a release build wraps; nothing is said of values after that.
StepsAreCumulative ==
    kind \in {"linear", "log"} /\ NonZero(h) \ {0} # {} =>
        \A k \in DOMAIN out : kind = "log" \/ k * picker.units <= 2^W =>
            out[k].total = CountBetween(h, 0, out[k].value)

\* The slot in use up to which the share q / Denom of the samples lies, when nothing
\* is rounded.
FirstReaching(q) ==
    Min({i \in NonZero(h) : SumCounts(h, 0..i) * Denom >= q * h.total})

\* That slot, or the slot in use just before it.
Close(i, q) ==
    /\ i \in NonZero(h) /\ i <= FirstReaching(q)
    /\ \A j \in NonZero(h) : i < j => FirstReaching(q) <= j

\* iter_quantiles yields quantiles in increasing order, and ends with 1.0, once.
\* The comment of pick and the tests say that it "tends" not to agree with
\* value_at_quantile on the slot of a quantile, and "allow it to be one bucket high
\* or low": each of the two is at the slot where the quantile is or at the one in
\* use before it, never past it.
QuantilesReached ==
    kind = "quantile" =>
        /\ \A k \in DOMAIN out :
             /\ Close(out[k].index, out[k].quantile)
             /\ \A v \in ValuesAtQuantile(h, out[k].quantile, Denom) :
                   Close(IndexFor(h.lay, v), out[k].quantile)
             /\ k > 1 => out[k - 1].quantile < out[k].quantile
        /\ it.ended /\ NonZero(h) \ {0} # {} => Last(out).quantile = Denom

\* Every iterator ends, although pickers may pick the same index again and
\* again and the last one is always picked.
Terminates == <>it.ended

-----------------------------------------------------------------------------
(***************************************************************************)
(* The layout under the iterators, slot by slot as they go.                *)
(***************************************************************************)
\* The values counted in a slot, by the definition of index_for.
SlotOf(i) == {u \in Words : IndexFor(h.lay, u) = i}

\* The slots tile the values in order, across every bucket boundary, with the
\* precision that sigfig asks for: the values of the slot an iterator is at are
\* those from value_for of it up to, and without, value_for of the next slot;
\* equivalent_range, lowest_equivalent and median_equivalent (whose checked_add
\* may not overflow) say so for each of them; and the slot is no wider than the
\* unit or one Base^sigfig-th of the smallest value in it.
SlotsTile ==
    LET i == it.index
        first == ValueFor(h.lay, i)
        width == EquivalentRange(h.lay, first)
    IN  i \in DOMAIN h.counts =>
          /\ SlotOf(i) = first..(first + width - 1)
          /\ i + 1 \in DOMAIN h.counts => ValueFor(h.lay, i + 1) = first + width
          /\ \A u \in SlotOf(i) : /\ LowestEquivalent(h.lay, u) = first
                                  /\ EquivalentRange(h.lay, u) = width
                                  /\ MedianEquivalent(h.lay, u) \in SlotOf(i)
          /\ width <= 2^h.lay.unit \/ width * Base^h.sigfig <= first
=============================================================================
