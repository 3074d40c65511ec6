------------------------------ MODULE Histogram ------------------------------
(***************************************************************************)
(* A client that works on two histograms (HdrHistogram_rust/src/lib.rs)    *)
(* with every operation that changes one.                                  *)
(***************************************************************************)
EXTENDS HistogramOps

CONSTANTS Names,     \* the histograms
          Precision, \* of an f64: how many numbers it tells apart below 1.0
          Clients    \* [configs, values, counts, intervals, calls, maxTotal]: what a
                     \* client asks for ([low, high, sigfig, auto]), what it
                     \* records, its other calls, and the bound on samples

ASSUME HistogramAssumption ==
    /\ Precision \in Nat \ {0}
    /\ \A c \in Clients :
           /\ c.maxTotal \in Nat /\ c.values \subseteq Words /\ c.intervals \subseteq Words
           /\ c.counts \subseteq 1..CounterMax
           /\ c.calls \subseteq {"add", "subtract", "clear", "reset", "set_to", "correct",
                                 "saturating", "auto"}
           /\ \A g \in c.configs : /\ {g.low, g.sigfig} \subseteq Nat /\ g.high \in Words
                                   /\ g.auto \in BOOLEAN /\ CanCreate(g.low, g.high, g.sigfig)

VARIABLES client,  \* who calls
          hist,    \* the histograms
          err,     \* how the last call ended
          dirty    \* history: histograms whose statistics a clear left stale,
                   \* whose subtract ended half-way or that had a full counter

vars == <<client, hist, err, dirty>>

New(c) == [NewWithBounds(c.low, c.high, c.sigfig) EXCEPT !.auto = c.auto]

Init == /\ client \in Clients
        /\ hist \in [Names -> {New(c) : c \in client.configs}]
        /\ err = "none" /\ dirty = {}

\* A counter at its maximum may have lost samples.
Full(g) == \E i \in DOMAIN g.counts : g.counts[i] = CounterMax

Return(n, res, stale) ==
    /\ hist' = [hist EXCEPT ![n] = res.h] /\ err' = res.err
    /\ dirty' = stale \cup (IF Full(res.h) THEN {n} ELSE {})
    /\ UNCHANGED client

Live == err # "panic"

RecordN(n, v, c) ==
    /\ Live /\ hist[n].total + c <= client.maxTotal
    /\ Return(n, RecordInner(hist[n], v, c, FALSE), dirty)

SaturatingRecordN(n, v, c) ==
    /\ "saturating" \in client.calls /\ Live /\ hist[n].total + c <= client.maxTotal
    /\ Return(n, RecordInner(hist[n], v, c, TRUE), dirty)

RecordNCorrect(n, v, c, interval) ==
    /\ "correct" \in client.calls /\ Live
    /\ RecordCorrect(hist[n], v, c, interval).h.total <= client.maxTotal
    /\ Return(n, RecordCorrect(hist[n], v, c, interval), dirty)

\* add_correct takes only the counts of the source, not its statistics.
AddCorrectOther(n, m, interval) ==
    /\ "correct" \in client.calls /\ Live /\ n # m
    /\ AddCorrect(hist[n], hist[m], interval).h.total <= client.maxTotal
    /\ Return(n, AddCorrect(hist[n], hist[m], interval), dirty)

AddOther(n, m) ==
    /\ "add" \in client.calls /\ Live /\ n # m
    /\ hist[n].total + hist[m].total <= client.maxTotal
    /\ Return(n, Add(hist[n], hist[m]), IF m \in dirty THEN dirty \cup {n} ELSE dirty)

SubtractOther(n, m) ==
    /\ "subtract" \in client.calls /\ Live /\ n # m
    /\ LET r == Subtract(hist[n], hist[m])
       IN  Return(n, r, IF r.err = "SubtrahendCountExceedsMinuendCount"
                          THEN dirty \cup {n} ELSE dirty)

ClearIt(n) ==
    /\ "clear" \in client.calls /\ Live
    /\ Return(n, Ok(Clear(hist[n])), dirty \cup {n})

ResetIt(n) ==
    /\ "reset" \in client.calls /\ Live
    /\ Return(n, Ok(Reset(hist[n])), dirty \ {n})

SetToOther(n, m) ==
    /\ "set_to" \in client.calls /\ Live /\ n # m
    /\ Return(n, SetTo(hist[n], hist[m]), IF m \in dirty THEN dirty \cup {n} ELSE dirty \ {n})

SetToCorrectedOther(n, m, interval) ==
    /\ "correct" \in client.calls /\ Live /\ n # m
    /\ SetToCorrected(hist[n], hist[m], interval).h.total <= client.maxTotal
    /\ Return(n, SetToCorrected(hist[n], hist[m], interval), dirty \ {n})

\* auto(enabled)
SetAuto(n) ==
    /\ "auto" \in client.calls /\ Live
    /\ Return(n, Ok([hist[n] EXCEPT !.auto = ~@]), dirty)

Next ==
    \E n \in Names :
       \/ \E v \in client.values, c \in client.counts :
             \/ RecordN(n, v, c) \/ SaturatingRecordN(n, v, c)
             \/ \E i \in client.intervals : RecordNCorrect(n, v, c, i)
       \/ \E m \in Names : AddOther(n, m) \/ SubtractOther(n, m) \/ SetToOther(n, m)
       \/ \E m \in Names, i \in client.intervals :
             AddCorrectOther(n, m, i) \/ SetToCorrectedOther(n, m, i)
       \/ ClearIt(n) \/ ResetIt(n) \/ SetAuto(n)

Spec == Init /\ [][Next]_vars

-----------------------------------------------------------------------------
(***************************************************************************)
(* Properties                                                              *)
(***************************************************************************)
\* Type invariant: the counts array always has the length that bucket_count calls
\* for, as index_for and the iterators assume.
TypeOK ==
    /\ \A n \in Names :
         /\ hist[n].max \in Words /\ hist[n].min \in Words
         /\ hist[n].total \in Words /\ hist[n].high \in Words
         /\ hist[n].counts \in [0..(NumBins(hist[n].lay, hist[n].buckets) - 1)
                                   -> 0..CounterMax]
    /\ dirty \subseteq Names

\* No expect, unwrap or index of record, add, subtract and set_to fails: not
\* "value should fit after resize", not "already resized for max value", not
\* "total count underflow on subtraction", and not after a subtract that ended
\* half-way or on a histogram that was cleared.
NeverPanics == err # "panic"

\* min_non_zero_value is in the first slot in use after slot 0.
MinExact(g) ==
    LET above == NonZero(g) \ {0}
    IN  IF above = {} THEN g.min = ORIGINAL_MIN ELSE IndexFor(g.lay, g.min) = Min(above)

\* total_count, max_value and min_non_zero_value describe the counts: the slot
\* of the maximum is the last one in use, the slot of the minimum the first
\* after slot 0, and the total is the sum, through every sequence of records,
\* adds, growths, subtractions (with or without restat) and resets.  While
\* slot 0 is in use the minimum is only a lower bound (see MinNzDescribes).
\* Counters and total_count saturate, each on its own; what remains then, and
\* is what keeps subtract from an underflow, is that the total covers the counts.
StatsMatchCounts ==
    \A n \in Names :
        LET g == hist[n]
            used == NonZero(g)
        IN  /\ g.total >= Min({SumCounts(g, used), MaxWord})
            /\ n \notin dirty =>
                 /\ g.total = Min({SumCounts(g, used), MaxWord})
                 /\ used # {} => IndexFor(g.lay, g.max) = Max(used)
                 /\ \A i \in used \ {0} : IndexFor(g.lay, g.min) <= i
                 /\ 0 \notin used => MinExact(g)

\* The doc of min_nz: "the lowest recorded non-zero value level in the
\* histogram".  subtract looks for an emptied minimum at min(), which is 0 while
\* slot 0 is in use, and leaves min_non_zero_value at a value whose count is gone.
MinNzDescribes ==
    \A n \in Names \ dirty : MinExact(hist[n])


\* The largest word was recorded: next_non_equivalent saturates there, and the
\* last slot seems to end just before it.
AtTop(g) == g.max = MaxWord

\* A histogram that took in another and gives it up again is what it was, if no
\* counter or total is full, and u64::max_value() was not recorded.
AddThenSubtract ==
    \A n, m \in Names : n # m /\ {n, m} \cap dirty = {} /\ ~AtTop(hist[m]) =>
        LET r == Add(hist[n], hist[m])
            s == Subtract(r.h, hist[m])
        IN  r.err = "none" /\ ~Full(r.h) /\ r.h.total < MaxWord =>
              /\ s.err = "none"
              /\ s.h.total = hist[n].total
              /\ s.h.counts = Resized(hist[n].counts, DistinctValues(s.h))

\* The two ways to correct for coordinated omission agree: recording a value and
\* then taking clone_correct gives what record_correct on the corrected clone
\* gives, for a value the layout keeps exactly.  (What iter_recorded passes over,
\* a histogram with nothing but zeros, is left out.)
CorrectionCommutes ==
    \A n \in Names, v \in client.values, i \in client.intervals :
        LET g == hist[n]
            r == RecordInner(g, v, 1, FALSE).h
            after == CloneCorrect(r, i)
            before == CloneCorrect(g, i)
        IN  /\ after.err = "none" /\ before.err = "none"
            /\ /\ InRange(g, v)
               /\ HighestEquivalent(g.lay, v) = v
               /\ NonZero(g) # {0} /\ NonZero(r) # {0}
               => Equal(RecordCorrect(before.h, v, 1, i).h, after.h)

\* Clone is equal to the original, and so is a snapshot read back once a value
\* above slot 0 was recorded (before that, restat leaves the unit mask as the
\* maximum where the original still has ORIGINAL_MAX).  The exception is a
\* histogram in which u64::max_value() was recorded: with a fixed range the
\* clone's `+=` panics, and a snapshot read back has another maximum.  A
\* snapshot also heals a minimum that subtract left behind.
CopiesAreEqual ==
    \A n \in Names \ dirty :
        LET c == CloneOf(hist[n])
            s == NewFromSnapshot(hist[n]).h
        IN  /\ IF AtTop(hist[n]) /\ ~hist[n].auto
                 THEN c.err = "OtherAddendValueExceedsRange"
                 ELSE c.err = "none" /\ Equal(c.h, hist[n])
            /\ NonZero(hist[n]) \ {0} # {} =>
                 /\ s.counts = hist[n].counts
                 /\ MinExact(hist[n]) /\ ~AtTop(hist[n]) => Equal(s, hist[n])
                 /\ MinExact(s)

=============================================================================
