----------------------------- MODULE HistogramOps -----------------------------
(***************************************************************************)
(* The operations of Histogram (HdrHistogram_rust/src/lib.rs).  A          *)
(* histogram is a record of its configuration, its statistics and its      *)
(* counts (a function on 0..n-1).  An operation is an operator that yields *)
(* [err, h]: the error ("none", the error's name, or "panic") and the      *)
(* histogram as it is left.                                                *)
(***************************************************************************)
EXTENDS HistogramLayout, Sequences, SequencesExt

CONSTANT CounterMax  \* T::max_value(), where counters saturate

ASSUME CounterAssumption == CounterMax \in Nat \ {0}

ORIGINAL_MIN == MaxWord
ORIGINAL_MAX == 0

Ok(g) == [err |-> "none", h |-> g]
Fail(e, g) == [err |-> e, h |-> g]
SatAdd(a, b, top) == Min({a + b, top})

-----------------------------------------------------------------------------
(***************************************************************************)
(* Read-outs                                                               *)
(***************************************************************************)
DistinctValues(g) == Cardinality(DOMAIN g.counts)
LastIndex(g) == DistinctValues(g) - 1
InRange(g, v) == IndexFor(g.lay, v) \in DOMAIN g.counts
IndexForOrLast(g, v) == Min({IndexFor(g.lay, v), LastIndex(g)})
Top(g) == HighestEquivalent(g.lay, ValueFor(g.lay, LastIndex(g)))

MaxOf(g) == IF g.max = ORIGINAL_MAX THEN ORIGINAL_MAX ELSE HighestEquivalent(g.lay, g.max)
MinNz(g) == IF g.min = ORIGINAL_MIN THEN ORIGINAL_MIN ELSE LowestEquivalent(g.lay, g.min)
MinOf(g) == IF g.total = 0 \/ g.counts[0] # 0 THEN 0 ELSE MinNz(g)

SumCounts(g, S) == SumFunctionOnSet(g.counts, S)


\* What count_at_quantile may be for the quantile k / n, where n is the precision of
\* an f64 (2^53).  The product is rounded to an f64, as whole numbers up to n are:
\* if it was just above one it may become that number, before ceil().
CountsAtQuantile(g, k, n) ==
    LET product == k * g.total
        exact == (product + n - 1) \div n
        rounded == IF (product % n) * n <= product THEN product \div n ELSE exact
    IN  {Max({1, exact}), Max({1, rounded})}

\* The loop of value_at_quantile: its sum wraps (in a debug build it panics).
ValueAt(g, count, zero) ==
    LET reached == {i \in DOMAIN g.counts : SumCounts(g, 0..i) % 2^W >= count}
        v == ValueFor(g.lay, Min(reached))
    IN  IF reached = {} THEN 0
        ELSE IF zero THEN LowestEquivalent(g.lay, v) ELSE HighestEquivalent(g.lay, v)

\* What value_at_quantile may yield for the quantile k / n with 0 <= k <= n.
ValuesAtQuantile(g, k, n) == {ValueAt(g, c, k = 0) : c \in CountsAtQuantile(g, k, n)}

CountBetween(g, low, high) ==
    Min({SumCounts(g, IndexForOrLast(g, low)..IndexForOrLast(g, high)), MaxWord})
CountAt(g, v) == g.counts[IndexForOrLast(g, v)]

\* PartialEq
Equal(g, f) ==
    /\ g.low = f.low /\ g.sigfig = f.sigfig
    /\ g.total = f.total /\ MaxOf(g) = MaxOf(f) /\ MinNz(g) = MinNz(f)
    /\ \A i \in DOMAIN g.counts : i \in DOMAIN f.counts /\ g.counts[i] = f.counts[i]

-----------------------------------------------------------------------------
(***************************************************************************)
(* Statistics                                                              *)
(***************************************************************************)
OrUnitMask(g, v) == v - (v % 2^g.lay.unit) + UnitMask(g.lay)
AndNotUnitMask(g, v) == v - (v % 2^g.lay.unit)

UpdateMax(g, v) == [g EXCEPT !.max = Max({@, OrUnitMask(g, v)})]
UpdateMin(g, v) ==
    IF v <= UnitMask(g.lay) THEN g ELSE [g EXCEPT !.min = Min({@, AndNotUnitMask(g, v)})]
UpdateMinMax(g, v) ==
    LET g1 == IF v > g.max THEN UpdateMax(g, v) ELSE g
    IN  IF v < g1.min /\ v # 0 THEN UpdateMin(g1, v) ELSE g1

ResetMax(g, m) == [g EXCEPT !.max = OrUnitMask(g, m)]
ResetMin(g, m) == [g EXCEPT !.min = IF m = MaxWord THEN m ELSE AndNotUnitMask(g, m)]

NonZero(g) == {i \in DOMAIN g.counts : g.counts[i] # 0}

\* restat over all slots, with RestatState.
Restat(g) ==
    LET g1 == ResetMin(ResetMax(g, ORIGINAL_MAX), ORIGINAL_MIN)
        hit == NonZero(g)
        g2 == IF hit = {} THEN g1
              ELSE UpdateMax(g1, HighestEquivalent(g.lay, ValueFor(g.lay, Max(hit))))
        g3 == IF hit \ {0} = {} THEN g2
              ELSE UpdateMin(g2, ValueFor(g.lay, Min(hit \ {0})))
    IN  [g3 EXCEPT !.total = Min({SumCounts(g, hit), MaxWord})]

-----------------------------------------------------------------------------
(***************************************************************************)
(* Construction                                                            *)
(***************************************************************************)
\* Vec::resize: cut off, or padded with zeros.
Resized(counts, n) ==
    [i \in 0..(n - 1) |-> IF i \in DOMAIN counts THEN counts[i] ELSE 0]

\* Mutant of Resize: the array grows, bucket_count does not.
ResizeKeepsBuckets(g, high) ==
    LET n == BucketsToCover(g.lay, high)
    IN  [g EXCEPT !.buckets = IF @ = 0 THEN n ELSE @, !.high = high,
                  !.counts = Resized(g.counts, NumBins(g.lay, n))]

Resize(g, high) ==
    LET n == BucketsToCover(g.lay, high)
    IN  [g EXCEPT !.buckets = n, !.high = high,
                  !.counts = Resized(g.counts, NumBins(g.lay, n))]

NewWithBounds(low, high, sigfig) ==
    Resize([low |-> low, high |-> high, sigfig |-> sigfig, auto |-> FALSE,
            lay |-> LayoutOf(low, sigfig), buckets |-> 0,
            max |-> ORIGINAL_MAX, min |-> ORIGINAL_MIN, total |-> 0,
            counts |-> Resized(<<>>, 0)], high)

NewFrom(g) ==
    [NewWithBounds(g.low, g.high, g.sigfig) EXCEPT
        !.auto = g.auto, !.counts = Resized(@, DistinctValues(g))]

\* new_from_snapshot: the counts are taken over, however many there are.
NewFromSnapshot(s) ==
    IF CanCreate(s.low, s.high, s.sigfig)
      THEN Ok(Restat([NewWithBounds(s.low, s.high, s.sigfig) EXCEPT !.counts = s.counts]))
      ELSE Fail("CreationError", s)

\* What new_with_bounds and resize leave: the layout of the bounds, and no more
\* slots than all the values of a word need.
WellFormed(g) ==
    /\ {g.low, g.high, g.sigfig} \subseteq Nat /\ CanCreate(g.low, g.high, g.sigfig)
    /\ g.lay = LayoutOf(g.low, g.sigfig)
    /\ \E n \in 1..NumBins(g.lay, BucketsToCover(g.lay, MaxWord)) :
         g.counts \in [0..(n - 1) -> 0..CounterMax]

\* The statistics are those of the counts: what a recording leaves, as long as no
\* counter has saturated.
Consistent(g) ==
    /\ {g.max, g.min, g.total} \subseteq Words
    /\ g.total = Min({SumCounts(g, NonZero(g)), MaxWord})
    /\ IF NonZero(g) = {} THEN g.max = ORIGINAL_MAX
       ELSE IndexFor(g.lay, g.max) = Max(NonZero(g))
    /\ IF NonZero(g) \ {0} = {} THEN g.min = ORIGINAL_MIN
       ELSE IndexFor(g.lay, g.min) = Min(NonZero(g) \ {0})

-----------------------------------------------------------------------------
(***************************************************************************)
(* Operations                                                              *)
(***************************************************************************)
Bump(g, v, n) ==
    [g EXCEPT !.counts[IndexFor(g.lay, v)] = SatAdd(@, n, CounterMax)]

\* The last two statements of record_n_inner.
Tally(g, v, n) ==
    LET g1 == UpdateMinMax(g, v) IN [g1 EXCEPT !.total = SatAdd(@, n, MaxWord)]

RecordInner(g, v, n, clamp) ==
    IF InRange(g, v) THEN Ok(Tally(Bump(g, v, n), v, n))
    ELSE IF clamp
      THEN LET u == IF v > g.high THEN g.high ELSE g.low
           IN  IF InRange(g, u) THEN Ok(Tally(Bump(g, u, n), u, n))
               ELSE Fail("panic", g)
    ELSE IF ~g.auto THEN Fail("ValueOutOfRangeResizeDisabled", g)
    ELSE LET g1 == Resize(g, v)
             g2 == [g1 EXCEPT !.high = Top(g1)]
         IN  IF v >= 2 * g.low /\ InRange(g2, v) /\ CountAt(g2, v) + n <= CounterMax
               THEN Ok(Tally(Bump(g2, v, n), v, n))
               ELSE Fail("panic", g2)

\* The `?` after a call in a loop: the first error ends it.
RecordAll(res, v, n) == IF res.err = "none" THEN RecordInner(res.h, v, n, FALSE) ELSE res

\* record_n_correct: value, then value - interval, ... down to interval.
RecordCorrect(g, v, n, interval) ==
    LET missing == IF interval = 0 \/ v <= interval THEN <<>>
                   ELSE [k \in 1..(v \div interval - 1) |-> v - k * interval]
    IN  FoldLeft(LAMBDA res, u : RecordAll(res, u, n),
                 RecordInner(g, v, n, FALSE), missing)

\* The indexes of a counts array, in order.
IndexSeq(g) == [k \in 1..DistinctValues(g) |-> k - 1]

SameGeometry(g, s) ==
    g.buckets = s.buckets /\ g.lay = s.lay

\* add, when both have the same buckets: slot by slot.
AddDirect(g, s) ==
    IF ~(NonZero(s) \subseteq DOMAIN g.counts) THEN Fail("panic", g) ELSE
    LET g1 == [g EXCEPT
                 !.counts = [i \in DOMAIN g.counts |->
                     IF i \in DOMAIN s.counts THEN SatAdd(g.counts[i], s.counts[i], CounterMax)
                     ELSE g.counts[i]],
                 !.total = SatAdd(@, Min({SumCounts(s, NonZero(s)), MaxWord}), MaxWord)]
        g2 == IF MaxOf(s) > MaxOf(g1) THEN UpdateMax(g1, MaxOf(s)) ELSE g1
    IN  Ok(IF MinNz(s) < MinNz(g2) THEN UpdateMin(g2, MinNz(s)) ELSE g2)

\* add, otherwise: the maximum first, then the other values by recording.
AddByValue(g, s) ==
    LET top == IndexFor(s.lay, MaxOf(s))
        res == IF top \in DOMAIN s.counts
                 THEN FoldLeft(LAMBDA r, i :
                                   IF i < top /\ s.counts[i] # 0
                                     THEN RecordAll(r, ValueFor(s.lay, i), s.counts[i]) ELSE r,
                               RecordInner(g, ValueFor(s.lay, top), s.counts[top], FALSE),
                               IndexSeq(s))
                 ELSE Fail("panic", g)
    IN  IF res.err = "none" THEN res ELSE Fail("panic", res.h)

\* Mutant of Add: the range is not checked first.
AddUnchecked(g, s) ==
    IF SameGeometry(g, s) THEN AddDirect(g, s) ELSE AddByValue(g, s)

\* Mutant of Add: the statistics of the source are not merged.
AddCountsOnly(g, s) ==
    IF Top(g) < MaxOf(s) THEN Fail("OtherAddendValueExceedsRange", g)
    ELSE LET r == AddDirect(g, s)
         IN  IF r.err = "panic" THEN r ELSE Ok([r.h EXCEPT !.max = g.max, !.min = g.min])

\* last_index: expect("Empty counts array?").
Add(g, s) ==
    IF DOMAIN g.counts = {} THEN Fail("panic", g)
    ELSE IF Top(g) < MaxOf(s) /\ ~g.auto THEN Fail("OtherAddendValueExceedsRange", g)
    ELSE LET g1 == IF Top(g) < MaxOf(s) THEN Resize(g, MaxOf(s)) ELSE g
         IN  IF g1 # g /\ MaxOf(s) < 2 * g.low THEN Fail("panic", g)
             ELSE IF SameGeometry(g1, s) THEN AddDirect(g1, s) ELSE AddByValue(g1, s)

\* Mutant of SubtractSlot: the slot of the subtrahend is used as it is.
SubtractSlotSameIndex(acc, s, i, minTop, maxLow) ==
    LET v == ValueFor(s.lay, i)
        n == s.counts[i]
        k == i
        g1 == [acc.h EXCEPT !.counts[k] = @ - n]
        restat == acc.restat \/ v <= minTop \/ v >= maxLow
    IN  IF acc.err # "none" \/ n = 0 THEN acc
        ELSE IF k \notin DOMAIN acc.h.counts THEN [acc EXCEPT !.err = "panic"]
        ELSE IF acc.h.counts[k] < n
          THEN [acc EXCEPT !.err = "SubtrahendCountExceedsMinuendCount"]
        ELSE IF restat THEN [acc EXCEPT !.h = g1, !.restat = TRUE]
        ELSE IF g1.total < n THEN [acc EXCEPT !.h = g1, !.err = "panic"]
        ELSE [acc EXCEPT !.h = [g1 EXCEPT !.total = @ - n]]

\* One turn of the loop of subtract; acc carries needs_restat.
SubtractSlot(acc, s, i, minTop, maxLow) ==
    LET v == ValueFor(s.lay, i)
        n == s.counts[i]
        k == IndexFor(acc.h.lay, v)
        g1 == [acc.h EXCEPT !.counts[k] = @ - n]
        restat == acc.restat \/ v <= minTop \/ v >= maxLow
    IN  IF acc.err # "none" \/ n = 0 THEN acc
        ELSE IF k \notin DOMAIN acc.h.counts THEN [acc EXCEPT !.err = "panic"]
        ELSE IF acc.h.counts[k] < n
          THEN [acc EXCEPT !.err = "SubtrahendCountExceedsMinuendCount"]
        ELSE IF restat THEN [acc EXCEPT !.h = g1, !.restat = TRUE]
        ELSE IF g1.total < n THEN [acc EXCEPT !.h = g1, !.err = "panic"]
        ELSE [acc EXCEPT !.h = [g1 EXCEPT !.total = @ - n]]

\* Mutant of Subtract: the statistics are computed again only when total_count
\* may have saturated.
SubtractNoRestat(g, s) ==
    LET end == FoldLeft(LAMBDA acc, i : SubtractSlot(acc, s, i, -1, MaxWord + 1),
                        [err |-> "none", h |-> g, restat |-> g.total = MaxWord],
                        IndexSeq(s))
    IN  IF Top(g) < HighestEquivalent(g.lay, MaxOf(s))
          THEN Fail("SubtrahendValueExceedsMinuendRange", g)
        ELSE IF end.err = "none" /\ end.restat THEN Ok(Restat(end.h))
        ELSE [err |-> end.err, h |-> end.h]

Subtract(g, s) ==
    LET minTop == HighestEquivalent(g.lay, MinOf(g))
        maxLow == LowestEquivalent(g.lay, MaxOf(g))
        end == FoldLeft(LAMBDA acc, i : SubtractSlot(acc, s, i, minTop, maxLow),
                        [err |-> "none", h |-> g, restat |-> g.total = MaxWord],
                        IndexSeq(s))
    IN  IF Top(g) < HighestEquivalent(g.lay, MaxOf(s))
          THEN Fail("SubtrahendValueExceedsMinuendRange", g)
        ELSE IF end.err = "none" /\ end.restat THEN Ok(Restat(end.h))
        ELSE [err |-> end.err, h |-> end.h]

Clear(g) == [g EXCEPT !.counts = [i \in DOMAIN g.counts |-> 0], !.total = 0]
Reset(g) == ResetMin(ResetMax(Clear(g), ORIGINAL_MAX), ORIGINAL_MIN)
SetTo(g, s) == Add(Reset(g), s)

\* Clone: `h += self` unwraps.
CloneOf(g) == Add(NewFrom(g), g)

\* The k-th number of a set, from the smallest.
Kth(S, k) == CHOOSE i \in S : Cardinality({j \in S : j < i}) = k - 1

\* What iter_recorded yields, as the slots: those with a count up to the slot of
\* the maximum, and none at all when that is slot 0.
IterRecorded(g) ==
    LET top == IndexFor(g.lay, MaxOf(g))
        slots == {i \in NonZero(g) : top > 0 /\ i <= top}
    IN  [k \in 1..Cardinality(slots) |-> Kth(slots, k)]

\* Mutant of AddCorrect: the values come out as the lowest of their slots.
AddCorrectLowest(g, s, interval) ==
    FoldLeft(LAMBDA res, i :
                 IF res.err # "none" THEN res
                 ELSE RecordCorrect(res.h, ValueFor(s.lay, i), s.counts[i], interval),
             Ok(g), IterRecorded(s))

\* add_correct: the values come out as highest equivalents.
AddCorrect(g, s, interval) ==
    FoldLeft(LAMBDA res, i :
                 IF res.err # "none" THEN res
                 ELSE RecordCorrect(res.h, HighestEquivalent(s.lay, ValueFor(s.lay, i)),
                                    s.counts[i], interval),
             Ok(g), IterRecorded(s))
SetToCorrected(g, s, interval) == AddCorrect(Reset(g), s, interval)

\* clone_correct: an error is a panic.
CloneCorrect(g, interval) ==
    LET r == AddCorrect(NewFrom(g), g, interval)
    IN  IF r.err = "none" THEN r ELSE Fail("panic", r.h)
=============================================================================
