--------------------------- MODULE HistogramProofs ---------------------------
(***************************************************************************)
(* Proofs about Histogram, for words of any width, every precision, every  *)
(* set of histograms and every client: no call panics, and the statistics  *)
(* of a histogram describe its counts.                                     *)
(***************************************************************************)
EXTENDS Histogram, HistogramLayoutProofs
-----------------------------------------------------------------------------
(***************************************************************************)
(* Ranges                                                                  *)
(***************************************************************************)
\* buckets_to_cover: enough buckets for the value.
LEMMA Untrackable ==
    ASSUME NEW L, ValidLayout(L), NEW v \in Words
    PROVE  LET n == BucketsToCover(L, v)
           IN  /\ n \in Nat \ {0} /\ UntrackableAfter(L, n) > v
               /\ \A m \in 1..(W + 1) : UntrackableAfter(L, m) > v \/ UntrackableAfter(L, m) > MaxWord
                                          => n <= m
<1> DEFINE T == {j \in 1..(W + 1) : UntrackableAfter(L, j) > v \/ UntrackableAfter(L, j) > MaxWord}
           n == BucketsToCover(L, v)
<1>1. n \in 1..(W - (L.unit + L.mag) + 1) /\ W \in Nat /\ L.unit \in Nat /\ L.mag \in Nat
      /\ L.unit + L.mag <= W - 1
  BY BucketsInWord, WordType DEF ValidLayout
<1>2. n \in 1..(W + 1) /\ n \in Nat \ {0}
  <2> HIDE DEF n
  <2> QED BY <1>1
<1>3. W - (L.unit + L.mag) + 1 \in T
  <2> DEFINE k == L.unit + L.mag
             m == W - k + 1
  <2>1. m \in 1..(W + 1) /\ m - 1 \in Nat /\ k + (m - 1) = W /\ k \in Nat
    BY <1>1
  <2>2. 2^L.mag * 2^L.unit = 2^k
    <3>1. 2^(L.mag + L.unit) = 2^L.mag * 2^L.unit
      BY <1>1, PowerPlus
    <3>2. L.mag + L.unit = k
      BY <1>1
    <3> QED BY <3>1, <3>2
  <2>3. 2^k * 2^(m - 1) = 2^(k + (m - 1))
    BY <2>1, PowerPlus
  <2>4. UntrackableAfter(L, m) = 2^W
    BY <2>1, <2>2, <2>3 DEF UntrackableAfter, SubBucketCount
  <2>5. 2^W > MaxWord
    BY WordType
  <2> HIDE DEF m
  <2> QED BY <2>1, <2>4, <2>5 DEF m
<1>4. T \subseteq Nat /\ T # {}
  BY <1>3
<1>5. n = Min(T)
  BY DEF BucketsToCover
<1>6. n \in T /\ \A m \in T : n <= m
  <2> HIDE DEF n, T
  <2> QED BY <1>4, <1>5, MinOfNats
<1>7. v <= MaxWord /\ v \in Nat /\ MaxWord \in Nat
  BY WordType
<1>8. UntrackableAfter(L, n) \in Nat
  <2>1. n - 1 \in Nat
    <3> HIDE DEF n
    <3> QED BY <1>2
  <2> DEFINE a == 2^L.mag
             b == 2^L.unit
             c == 2^(n - 1)
  <2>2. a \in Nat /\ b \in Nat /\ c \in Nat
    BY <1>1, <2>1, PowerType
  <2> HIDE DEF n
  <2>3. UntrackableAfter(L, n) = a * b * c
    BY DEF UntrackableAfter, SubBucketCount
  <2> HIDE DEF a, b, c
  <2> QED BY <2>2, <2>3
<1>9. UntrackableAfter(L, n) > v
  <2> HIDE DEF n
  <2>1. UntrackableAfter(L, n) > v \/ UntrackableAfter(L, n) > MaxWord
    BY <1>6
  <2> QED BY <1>7, <1>8, <2>1
<1> QED BY <1>2, <1>6, <1>9

\* The slot of a value is one of those that cover it.
LEMMA Covered ==
    ASSUME NEW L, ValidLayout(L), NEW v \in Words
    PROVE  /\ NumBins(L, BucketsToCover(L, v)) \in Nat \ {0}
           /\ IndexFor(L, v) \in 0..(NumBins(L, BucketsToCover(L, v)) - 1)
<1> DEFINE n == BucketsToCover(L, v)
           b == BucketFor(L, v)
           s == SubBucketFor(L, v, b)
           i == IndexFor(L, v)
           half == SubBucketHalfCount(L)
           k == L.unit + L.mag
<1>1. n \in Nat \ {0} /\ UntrackableAfter(L, n) > v
  BY Untrackable
<1>2. b \in Nat /\ (b > 0 => 2^(k + b - 1) <= v)
  BY BucketFacts
<1>3. half \in Nat \ {0} /\ L.unit \in Nat /\ L.mag \in Nat /\ k \in Nat /\ v \in Nat
  BY HalfFacts, WordType DEF ValidLayout
<1>4. UntrackableAfter(L, n) = 2^(k + (n - 1))
  <2>1. n - 1 \in Nat
    <3> HIDE DEF n
    <3> QED BY <1>1
  <2>2. 2^L.mag * 2^L.unit = 2^k
    <3>1. 2^(L.mag + L.unit) = 2^L.mag * 2^L.unit
      BY <1>3, PowerPlus
    <3>2. L.mag + L.unit = k
      BY <1>3
    <3> QED BY <3>1, <3>2
  <2>3. 2^k * 2^(n - 1) = 2^(k + (n - 1))
    <3> HIDE DEF n, k
    <3> QED BY <1>3, <2>1, PowerPlus
  <2> QED BY <2>2, <2>3 DEF UntrackableAfter, SubBucketCount
<1>5. Place(L, i, b, s)
  BY PlaceOfValue
<1> HIDE DEF n, b, s, i, k
<1>6. b < n
  <2> SUFFICES ASSUME n <= b PROVE FALSE
    BY <1>1, <1>2
  <2>1. b > 0 /\ k + (n - 1) \in Nat /\ k + b - 1 \in Nat /\ k + (n - 1) <= k + b - 1
    BY <1>1, <1>2, <1>3
  <2>2. 2^(k + (n - 1)) <= 2^(k + b - 1) /\ 2^(k + (n - 1)) \in Nat /\ 2^(k + b - 1) \in Nat
    BY <2>1, PowerMono, PowerType
  <2> QED BY <1>1, <1>2, <1>3, <1>4, <2>1, <2>2
<1>7. i = b * half + s /\ s \in Nat /\ s < 2 * half
  BY <1>5 DEF Place, half
<1>8. b * half \in Nat /\ n * half \in Nat /\ (b + 1) * half <= n * half
      /\ (b + 1) * half = b * half + half /\ (n + 1) * half = n * half + half
  <2>1. b + 1 \in Nat /\ b + 1 <= n /\ n \in Nat
    BY <1>1, <1>2, <1>6
  <2> HIDE DEF half
  <2>2. (b + 1) * half <= n * half
    BY <1>3, <2>1, MulMono
  <2>3. b * half \in Nat /\ n * half \in Nat
        /\ (b + 1) * half = b * half + half /\ (n + 1) * half = n * half + half
    BY <1>2, <1>3, <2>1
  <2> QED BY <2>2, <2>3
<1> DEFINE x == b * half
           y == n * half
           N == NumBins(L, n)
<1>9. N = y + half
  BY <1>8 DEF NumBins, half
<1> HIDE DEF x, y, N, half
<1>10. x \in Nat /\ y \in Nat /\ x + half <= y /\ i = x + s
  BY <1>7, <1>8 DEF x, y
<1>11. N \in Nat \ {0} /\ i \in 0..(N - 1)
  BY <1>3, <1>7, <1>9, <1>10
<1> QED BY <1>11 DEF N, n, i

\* A larger value needs at least as many slots.
LEMMA CoverMono ==
    ASSUME NEW L, ValidLayout(L), NEW v \in Words, NEW u \in Words, v <= u
    PROVE  NumBins(L, BucketsToCover(L, v)) <= NumBins(L, BucketsToCover(L, u))
<1> DEFINE m == BucketsToCover(L, v)
           n == BucketsToCover(L, u)
           half == SubBucketHalfCount(L)
<1>1. /\ m \in Nat \ {0} /\ n \in Nat \ {0} /\ UntrackableAfter(L, n) > u
      /\ \A j \in 1..(W + 1) : UntrackableAfter(L, j) > v \/ UntrackableAfter(L, j) > MaxWord
                                 => m <= j
  BY Untrackable
<1>2. n \in 1..(W - (L.unit + L.mag) + 1) /\ W \in Nat /\ L.unit \in Nat /\ L.mag \in Nat
  BY BucketsInWord, WordType DEF ValidLayout
<1>3. v \in Nat /\ u \in Nat
  BY WordType
<1> HIDE DEF m, n
<1>4. n \in 1..(W + 1)
  BY <1>2
<1>5. UntrackableAfter(L, n) \in Int
  <2> DEFINE a == 2^L.mag
             b == 2^L.unit
             c == 2^(n - 1)
  <2>1. n - 1 \in Nat
    BY <1>1
  <2>2. a \in Nat /\ b \in Nat /\ c \in Nat
    BY <1>2, <2>1, PowerType
  <2>3. UntrackableAfter(L, n) = a * b * c
    BY DEF UntrackableAfter, SubBucketCount
  <2> HIDE DEF a, b, c
  <2> QED BY <2>2, <2>3
<1>6. UntrackableAfter(L, n) > v
  BY <1>1, <1>3, <1>5
<1>7. m <= n
  BY <1>1, <1>4, <1>6
<1>8. half \in Nat
  BY HalfFacts
<1>9. (m + 1) * half <= (n + 1) * half
  <2> HIDE DEF half
  <2>1. m + 1 \in Nat /\ n + 1 \in Nat /\ m + 1 <= n + 1
    BY <1>1, <1>7
  <2> QED BY <1>8, <2>1, MulMono
<1> QED BY <1>9 DEF NumBins, m, n

\* value_for yields the first value of a slot.
LEMMA FirstOfSlot ==
    ASSUME NEW L, ValidLayout(L), NEW i \in Nat, NEW b, NEW s, Place(L, i, b, s), Fits(L, b),
           NEW v \in Words, i <= IndexFor(L, v)
    PROVE  ValueFor(L, i) <= v
<1> DEFINE x == ValueFor(L, i)
<1>1. x \in Words /\ IndexFor(L, x) = i
  BY SlotBegins
<1>2. x \in Nat /\ v \in Nat
  BY <1>1, WordType
<1> HIDE DEF x
<1> SUFFICES ASSUME ~(x <= v) PROVE FALSE
  BY DEF x
<1>3. v <= x
  BY <1>2
<1>4. IndexFor(L, v) \in Nat /\ IndexFor(L, v) <= i
  BY <1>1, <1>3, IndexMonotone
<1>5. IndexFor(L, v) = i
  BY <1>4
<1>6. x = s * Width(L, b) /\ s * Width(L, b) <= v
  BY <1>5, SlotBegins, SlotValues DEF x
<1> QED BY <1>6

-----------------------------------------------------------------------------
(***************************************************************************)
(* Histograms                                                              *)
(***************************************************************************)
Layouts == {L \in [unit : Nat, mag : Nat] : ValidLayout(L)}
CountArrays == UNION {[0..(n - 1) -> 0..CounterMax] : n \in Nat}

\* The fields of a histogram.
Histograms == [low : Nat, high : Words, sigfig : Nat, auto : BOOLEAN, lay : Layouts,
               buckets : Nat, max : Words, min : Words, total : Words, counts : CountArrays]

\* The number of slots that bucket_count calls for.
Bins(g) == NumBins(g.lay, g.buckets)

\* The counts array has that length and covers the range, no slot in use is above
\* that of the maximum, and total_count covers the counts.  All calls keep this,
\* also those that fail.
Within(g) ==
    /\ \E x \in Words : g.buckets = BucketsToCover(g.lay, x)
    /\ g.counts \in [0..(Bins(g) - 1) -> 0..CounterMax]
    /\ g.low >= 1 /\ g.high >= 2 * g.low /\ InRange(g, g.high)
    /\ InRange(g, g.max) /\ \A i \in NonZero(g) : i <= IndexFor(g.lay, g.max)
    /\ IndexFor(g.lay, g.min) # 0
    /\ g.total >= Min({SumCounts(g, NonZero(g)), MaxWord})

Sound(g) == g \in Histograms /\ Within(g)

\* The statistics describe the counts: StatsMatchCounts, and where the statistics
\* of a histogram without counts are.
Exact(g) ==
    LET used == NonZero(g)
        first == IndexFor(g.lay, g.min)
        last == IndexFor(g.lay, g.max)
    IN  /\ g.total = Min({SumCounts(g, used), MaxWord})
        /\ IF used = {} THEN last = 0 ELSE last \in used
        /\ \A i \in used \ {0} : first <= i
        /\ 0 \notin used => IF used = {} THEN g.min = ORIGINAL_MIN ELSE first \in used

\* Recording keeps this, of a histogram n when those of S are dirty.
Good(g, n, S) == Sound(g) /\ (n \in S \/ Exact(g) \/ Full(g))

\* A histogram of the same range, with the same slots.
SameRange(f, g) ==
    /\ f.low = g.low /\ f.high = g.high /\ f.sigfig = g.sigfig /\ f.auto = g.auto
    /\ f.lay = g.lay /\ f.buckets = g.buckets

\* g with other counts and statistics.
With(g, counts, max, min, total) ==
    [low |-> g.low, high |-> g.high, sigfig |-> g.sigfig, auto |-> g.auto, lay |-> g.lay,
     buckets |-> g.buckets, max |-> max, min |-> min, total |-> total, counts |-> counts]

\* The constants of the model are numbers.
LEMMA Parameters ==
    /\ W \in Nat /\ CounterMax \in Nat \ {0}
    /\ MaxWord \in Nat /\ Words = 0..MaxWord
  BY WordType, CounterAssumption

\* The fields of such a histogram.
LEMMA WithFields ==
    ASSUME NEW g, NEW c, NEW mx, NEW mn, NEW t
    PROVE  LET w == With(g, c, mx, mn, t)
           IN  /\ SameRange(w, g) /\ w.counts = c /\ w.max = mx /\ w.min = mn /\ w.total = t
               /\ g \in Histograms /\ c \in CountArrays /\ mx \in Words /\ mn \in Words /\ t \in Words
                    => w \in Histograms
  BY DEF With, SameRange, Histograms

\* Changing a field.
LEMMA WithChanged ==
    ASSUME NEW g, NEW c, NEW mx, NEW mn, NEW t, NEW x
    PROVE  LET w == With(g, c, mx, mn, t)
           IN  /\ [w EXCEPT !.counts = x] = With(g, x, mx, mn, t)
               /\ [w EXCEPT !.max = x] = With(g, c, x, mn, t)
               /\ [w EXCEPT !.min = x] = With(g, c, mx, x, t)
               /\ [w EXCEPT !.total = x] = With(g, c, mx, mn, x)
  BY DEF With

\* Every histogram is of this form.
LEMMA WithItself ==
    ASSUME NEW g \in Histograms
    PROVE  g = With(g, g.counts, g.max, g.min, g.total)
  BY DEF With, Histograms

\* What is known of a sound histogram.
LEMMA SoundFacts ==
    ASSUME NEW g, Sound(g)
    PROVE  /\ g \in Histograms /\ ValidLayout(g.lay) /\ Bins(g) \in Nat \ {0}
           /\ g.counts \in [0..(Bins(g) - 1) -> 0..CounterMax] /\ g.counts \in CountArrays
           /\ DOMAIN g.counts = 0..(Bins(g) - 1) /\ DistinctValues(g) = Bins(g)
           /\ \A i \in DOMAIN g.counts : i \in Nat /\ \E b, s : Place(g.lay, i, b, s) /\ Fits(g.lay, b)
           /\ \A v \in Words : IndexFor(g.lay, v) \in Nat
           /\ g.high \in Words /\ g.max \in Words /\ g.min \in Words /\ g.total \in Words
           /\ g.low \in Nat
<1>1. /\ g \in Histograms /\ g.lay \in Layouts /\ g.high \in Words /\ g.max \in Words
      /\ g.min \in Words /\ g.total \in Words /\ g.low \in Nat /\ g.counts \in CountArrays
  BY DEF Sound, Histograms
<1>2. ValidLayout(g.lay)
  BY <1>1 DEF Layouts
<1>3. PICK x \in Words : g.buckets = BucketsToCover(g.lay, x)
  BY DEF Sound, Within
<1>4. Bins(g) \in Nat \ {0}
  BY <1>2, <1>3, Covered DEF Bins
<1>5. g.counts \in [0..(Bins(g) - 1) -> 0..CounterMax]
  BY DEF Sound, Within
<1>6. DOMAIN g.counts = 0..(Bins(g) - 1)
  BY <1>5
<1>7. DistinctValues(g) = Bins(g)
  <2> DEFINE n == Bins(g)
  <2> HIDE DEF n
  <2>1. 0 \in Int /\ n - 1 \in Int /\ n \in Nat \ {0}
    BY <1>4 DEF n
  <2>2. Cardinality(0..(n - 1)) = n
    <3>1. Cardinality(0..(n - 1)) = IF 0 > n - 1 THEN 0 ELSE (n - 1) - 0 + 1
      BY <2>1, FS_Interval
    <3> QED BY <2>1, <3>1
  <2> QED BY <1>6, <2>2 DEF DistinctValues, n
<1>8. ASSUME NEW i \in DOMAIN g.counts
      PROVE  i \in Nat /\ \E b, s : Place(g.lay, i, b, s) /\ Fits(g.lay, b)
  <2>1. i \in Nat /\ i < Bins(g)
    BY <1>4, <1>6
  <2> QED BY <1>2, <1>3, <2>1, SlotsInWord DEF Bins
<1>9. \A v \in Words : IndexFor(g.lay, v) \in Nat
  <2> TAKE v \in Words
  <2>1. v <= v
    BY Parameters
  <2> QED BY <1>2, <2>1, IndexMonotone
<1> QED BY <1>1, <1>2, <1>4, <1>5, <1>6, <1>7, <1>8, <1>9

\* Where the value of a slot in the array belongs.
LEMMA SlotValue ==
    ASSUME NEW g, Sound(g), NEW i \in DOMAIN g.counts
    PROVE  /\ ValueFor(g.lay, i) \in Words /\ IndexFor(g.lay, ValueFor(g.lay, i)) = i
           /\ i # 0 => ~(ValueFor(g.lay, i) <= UnitMask(g.lay))
           /\ \A v \in Words : i <= IndexFor(g.lay, v) => ValueFor(g.lay, i) <= v
<1>1. ValidLayout(g.lay) /\ i \in Nat
  BY SoundFacts
<1>2. PICK b, s : Place(g.lay, i, b, s) /\ Fits(g.lay, b)
  BY SoundFacts
<1> QED BY <1>1, <1>2, SlotBegins, SlotAboveUnit, FirstOfSlot

\* The values in range are those up to the highest equivalent of the last slot.
LEMMA TopFacts ==
    ASSUME NEW g, Sound(g)
    PROVE  /\ LastIndex(g) \in DOMAIN g.counts /\ LastIndex(g) = Bins(g) - 1
           /\ Top(g) \in Words /\ IndexFor(g.lay, Top(g)) = LastIndex(g) /\ InRange(g, Top(g))
           /\ \A v \in Words : v <= Top(g) => InRange(g, v)
           /\ \A v \in Words : ~InRange(g, v) => v > g.high /\ v > g.max /\ v > Top(g)
           /\ g.high <= MaxWord /\ \A v, u \in Words : v <= u /\ InRange(g, u) => InRange(g, v)
<1>1. /\ ValidLayout(g.lay) /\ Bins(g) \in Nat \ {0} /\ DOMAIN g.counts = 0..(Bins(g) - 1)
      /\ DistinctValues(g) = Bins(g) /\ g.high \in Words /\ g.max \in Words
  BY SoundFacts
<1> DEFINE n == LastIndex(g)
           L == g.lay
<1>2. n \in DOMAIN g.counts /\ n = Bins(g) - 1
  BY <1>1 DEF LastIndex
<1>3. ValueFor(L, n) \in Words /\ IndexFor(L, ValueFor(L, n)) = n
  <2> HIDE DEF n
  <2> QED BY <1>2, SlotValue
<1>4. Top(g) \in Words /\ IndexFor(L, Top(g)) = n
  <2> HIDE DEF n
  <2> QED BY <1>1, <1>3, HighestInSlot DEF Top, n
<1> HIDE DEF n
<1>5. \A v, u \in Words : v <= u /\ InRange(g, u) => InRange(g, v)
  <2> SUFFICES ASSUME NEW v \in Words, NEW u \in Words, v <= u, InRange(g, u)
               PROVE  InRange(g, v)
    OBVIOUS
  <2>1. IndexFor(L, v) \in Nat /\ IndexFor(L, v) <= IndexFor(L, u) /\ IndexFor(L, u) \in Nat
    BY <1>1, IndexMonotone
  <2>2. IndexFor(L, u) \in 0..(Bins(g) - 1)
    BY <1>1 DEF InRange
  <2>3. IndexFor(L, v) \in 0..(Bins(g) - 1)
    BY <1>1, <2>1, <2>2
  <2> QED BY <1>1, <2>3 DEF InRange
<1>6. InRange(g, Top(g)) /\ InRange(g, g.high) /\ InRange(g, g.max)
  BY <1>2, <1>4 DEF InRange, Sound, Within
<1>7. \A v, u \in Words : v \in Int /\ u \in Int /\ v <= MaxWord
  BY Parameters
<1>8. \A v \in Words : ~InRange(g, v) => v > g.high /\ v > g.max /\ v > Top(g)
  BY <1>1, <1>4, <1>5, <1>6, <1>7
<1> QED BY <1>1, <1>2, <1>4, <1>5, <1>6, <1>7, <1>8 DEF n

-----------------------------------------------------------------------------
(***************************************************************************)
(* The maximum and the minimum                                             *)
(***************************************************************************)
\* The unit mask does not move a value to another slot.
LEMMA UnitBits ==
    ASSUME NEW g, ValidLayout(g.lay), NEW v \in Words
    PROVE  /\ OrUnitMask(g, v) \in Words /\ AndNotUnitMask(g, v) \in Words
           /\ IndexFor(g.lay, OrUnitMask(g, v)) = IndexFor(g.lay, v)
           /\ IndexFor(g.lay, AndNotUnitMask(g, v)) = IndexFor(g.lay, v)
           /\ v <= OrUnitMask(g, v) /\ UnitMask(g.lay) <= OrUnitMask(g, v)
           /\ AndNotUnitMask(g, v) <= v
<1> DEFINE u == 2^g.lay.unit
           r == v % u
<1>1. u \in Nat \ {0} /\ v \in Nat
  <2>1. g.lay.unit \in Nat
    BY DEF ValidLayout
  <2> QED BY <2>1, PowerType, Parameters
<1>2. OrUnitMask(g, v) = v - r + (u - 1) /\ AndNotUnitMask(g, v) = v - r /\ UnitMask(g.lay) = u - 1
  BY DEF OrUnitMask, AndNotUnitMask, UnitMask
<1>3. r \in 0..(u - 1) /\ v - r >= 0
  <2> HIDE DEF u
  <2>1. r \in 0..(u - 1) /\ v = (v \div u) * u + r /\ v \div u \in Nat
    BY <1>1, ModFacts, DivFacts
  <2>2. (v \div u) * u \in Nat
    BY <1>1, <2>1
  <2> DEFINE x == (v \div u) * u
  <2> HIDE DEF x, r
  <2>3. x \in Nat /\ v = x + r /\ r \in Nat
    BY <1>1, <2>1, <2>2 DEF x
  <2> QED BY <2>1, <2>3
<1>4. /\ v - r \in Words /\ IndexFor(g.lay, v - r) = IndexFor(g.lay, v)
      /\ v - r + (u - 1) \in Words /\ IndexFor(g.lay, v - r + (u - 1)) = IndexFor(g.lay, v)
  BY UnitInSlot
<1> HIDE DEF u, r
<1>5. v <= v - r + (u - 1) /\ u - 1 <= v - r + (u - 1) /\ v - r <= v
  BY <1>1, <1>3
<1> QED BY <1>2, <1>4, <1>5

\* update_max.
LEMMA MaxUpdated ==
    ASSUME NEW g, ValidLayout(g.lay), NEW c, NEW mx \in Words, NEW mn, NEW t, NEW v \in Words,
           mx <= OrUnitMask(g, v)
    PROVE  UpdateMax(With(g, c, mx, mn, t), v) = With(g, c, OrUnitMask(g, v), mn, t)
<1> DEFINE w == With(g, c, mx, mn, t)
           z == OrUnitMask(g, v)
<1>1. w.lay = g.lay /\ w.max = mx
  BY WithFields DEF SameRange
<1>2. OrUnitMask(w, v) = z
  <2> HIDE DEF w
  <2> QED BY <1>1, Zenon DEF OrUnitMask
<1>3. Max({mx, z}) = z
  <2>1. mx \in Int /\ z \in Int
    BY UnitBits, Parameters
  <2> HIDE DEF z
  <2>2. mx <= z
    BY DEF z
  <2> QED BY <2>1, <2>2, MaxOfTwo
<1>4. UpdateMax(w, v) = [w EXCEPT !.max = Max({w.max, OrUnitMask(w, v)})]
  BY Zenon DEF UpdateMax
<1>5. UpdateMax(w, v) = [w EXCEPT !.max = z]
  <2> HIDE DEF w, z
  <2> QED BY <1>1, <1>2, <1>3, <1>4
<1>6. [w EXCEPT !.max = z] = With(g, c, z, mn, t)
  BY DEF With
<1> QED BY <1>5, <1>6

\* update_min, of a value above slot 0.
LEMMA MinUpdated ==
    ASSUME NEW g, ValidLayout(g.lay), NEW c, NEW mx, NEW mn \in Words, NEW t, NEW v \in Words,
           v <= mn, ~(v <= UnitMask(g.lay))
    PROVE  UpdateMin(With(g, c, mx, mn, t), v) = With(g, c, mx, AndNotUnitMask(g, v), t)
<1> DEFINE w == With(g, c, mx, mn, t)
           z == AndNotUnitMask(g, v)
<1>1. w.lay = g.lay /\ w.min = mn
  BY WithFields DEF SameRange
<1>2. AndNotUnitMask(w, v) = z
  <2> HIDE DEF w
  <2> QED BY <1>1, Zenon DEF AndNotUnitMask
<1>3. Min({mn, z}) = z
  <2>1. mn \in Int /\ z \in Int /\ z <= v /\ v \in Int
    BY UnitBits, Parameters
  <2> HIDE DEF z
  <2>2. z <= mn
    BY <2>1
  <2>3. Min({mn, z}) = IF mn <= z THEN mn ELSE z
    BY <2>1, MinOfTwo
  <2> QED BY <2>1, <2>2, <2>3
<1>4. UpdateMin(w, v) = [w EXCEPT !.min = Min({w.min, AndNotUnitMask(w, v)})]
  <2>1. ~(v <= UnitMask(w.lay))
    <3> HIDE DEF w
    <3> QED BY <1>1
  <2> HIDE DEF w
  <2> QED BY <2>1, Zenon DEF UpdateMin
<1>5. UpdateMin(w, v) = [w EXCEPT !.min = z]
  <2> HIDE DEF w, z
  <2> QED BY <1>1, <1>2, <1>3, <1>4
<1>6. [w EXCEPT !.min = z] = With(g, c, mx, z, t)
  BY DEF With
<1> QED BY <1>5, <1>6

\* The values of slot 0.
LEMMA SlotZero ==
    ASSUME NEW g, ValidLayout(g.lay), NEW v \in Words, v = 0 \/ v <= UnitMask(g.lay)
    PROVE  IndexFor(g.lay, v) = 0
<1> DEFINE u == 2^g.lay.unit
<1>1. u \in Nat \ {0} /\ v \in Nat
  <2>1. g.lay.unit \in Nat
    BY DEF ValidLayout
  <2> QED BY <2>1, PowerType, Parameters
<1>2. v < u
  <2>1. UnitMask(g.lay) = u - 1
    BY DEF UnitMask
  <2> HIDE DEF u
  <2> QED BY <1>1, <2>1
<1>3. v % u = v
  <2> HIDE DEF u
  <2> QED BY <1>1, <1>2
<1>4. v - (v % u) = 0
  BY <1>1, <1>3
<1>5. AndNotUnitMask(g, v) = 0
  BY <1>4, Zenon DEF AndNotUnitMask
<1> QED BY <1>5, UnitBits, IndexForZero

\* The values above the unit mask are not in slot 0.
LEMMA AboveUnit ==
    ASSUME NEW L, ValidLayout(L), NEW v \in Words, ~(v <= UnitMask(L))
    PROVE  IndexFor(L, v) # 0
<1> SUFFICES ASSUME IndexFor(L, v) = 0 PROVE FALSE
  OBVIOUS
<1> DEFINE first == ValueFor(L, 0)
           width == EquivalentRange(L, first)
           u == 2^L.unit
           half == SubBucketHalfCount(L)
<1>1. PICK b, s : Place(L, 0, b, s) /\ Fits(L, b)
  BY PlaceOfValue
<1>2. /\ {x \in Words : IndexFor(L, x) = 0} = first..(first + width - 1)
      /\ width <= u \/ half * width <= first
  BY <1>1, SlotIsRange
<1>3. 0 \in Words /\ v \in Nat
  BY Parameters
<1>4. first \in Words /\ first <= 0
  <2>1. 0 <= IndexFor(L, 0)
    BY IndexForZero
  <2> QED BY <1>1, <1>3, <2>1, FirstOfSlot, SlotBegins
<1>5. first = 0
  BY <1>4, Parameters
<1>6. width \in Nat \ {0}
  <2>1. width = Width(L, b)
    BY <1>1, SlotBegins
  <2>2. Width(L, b) \in Nat \ {0}
    BY <1>1, PlaceInWord
  <2> QED BY <2>1, <2>2
<1>7. half \in Nat \ {0} /\ u \in Nat
  <2>1. L.unit \in Nat
    BY DEF ValidLayout
  <2> QED BY <2>1, HalfFacts, PowerType
<1>8. UnitMask(L) = u - 1
  BY DEF UnitMask
<1> HIDE DEF first, width, u, half
<1>9. half * width \in Nat \ {0}
  <2>1. \A x, y \in Nat \ {0} : x * y \in Nat \ {0}
    OBVIOUS
  <2> QED BY <1>6, <1>7, <2>1
<1>10. width <= u
  BY <1>2, <1>5, <1>9
<1>11. v <= width - 1
  BY <1>2, <1>3, <1>5, <1>6
<1> QED BY <1>3, <1>6, <1>7, <1>8, <1>10, <1>11

\* The statistics that record_n_inner leaves.
MaxWith(g, v) == IF v > g.max THEN OrUnitMask(g, v) ELSE g.max
MinWith(g, v) ==
    IF v < g.min /\ v # 0 /\ ~(v <= UnitMask(g.lay)) THEN AndNotUnitMask(g, v) ELSE g.min

\* They are words, in the slots of what was there and of the value.
LEMMA StatisticsWith ==
    ASSUME NEW g \in Histograms, NEW v \in Words
    PROVE  /\ MaxWith(g, v) \in Words /\ MinWith(g, v) \in Words
           /\ g.max <= MaxWith(g, v) /\ v <= MaxWith(g, v)
           /\ IndexFor(g.lay, MaxWith(g, v)) =
                IF v > g.max THEN IndexFor(g.lay, v) ELSE IndexFor(g.lay, g.max)
           /\ \/ /\ v <= g.min /\ IndexFor(g.lay, MinWith(g, v)) = IndexFor(g.lay, v)
                 /\ IndexFor(g.lay, v) # 0
              \/ /\ MinWith(g, v) = g.min /\ (v >= g.min \/ IndexFor(g.lay, v) = 0)
<1>1. /\ ValidLayout(g.lay) /\ g.max \in Words /\ g.min \in Words
  BY DEF Histograms, Layouts
<1>2. /\ OrUnitMask(g, v) \in Words /\ AndNotUnitMask(g, v) \in Words
      /\ IndexFor(g.lay, OrUnitMask(g, v)) = IndexFor(g.lay, v)
      /\ IndexFor(g.lay, AndNotUnitMask(g, v)) = IndexFor(g.lay, v)
      /\ v <= OrUnitMask(g, v) /\ AndNotUnitMask(g, v) <= v
  BY <1>1, UnitBits
<1>3. v \in Int /\ g.max \in Int /\ g.min \in Int /\ OrUnitMask(g, v) \in Int
  BY <1>1, <1>2, Parameters
<1>4. /\ MaxWith(g, v) \in Words /\ g.max <= MaxWith(g, v) /\ v <= MaxWith(g, v)
      /\ IndexFor(g.lay, MaxWith(g, v)) =
                IF v > g.max THEN IndexFor(g.lay, v) ELSE IndexFor(g.lay, g.max)
  BY <1>1, <1>2, <1>3 DEF MaxWith
<1>5. CASE v < g.min /\ v # 0 /\ ~(v <= UnitMask(g.lay))
  <2>1. MinWith(g, v) = AndNotUnitMask(g, v)
    BY <1>5 DEF MinWith
  <2>2. IndexFor(g.lay, v) # 0
    BY <1>1, <1>5, AboveUnit
  <2> QED BY <1>2, <1>3, <1>4, <1>5, <2>1, <2>2
<1>6. CASE ~(v < g.min /\ v # 0 /\ ~(v <= UnitMask(g.lay)))
  <2>1. MinWith(g, v) = g.min
    BY <1>6 DEF MinWith
  <2>2. v >= g.min \/ IndexFor(g.lay, v) = 0
    <3>1. CASE v < g.min
      BY <1>1, <1>6, <3>1, SlotZero
    <3>2. CASE ~(v < g.min)
      BY <1>3, <3>2
    <3> QED BY <3>1, <3>2
  <2> QED BY <1>1, <1>4, <2>1, <2>2
<1> QED BY <1>5, <1>6

\* update_min_max.
LEMMA MinMaxUpdated ==
    ASSUME NEW g \in Histograms, NEW c, NEW t, NEW v \in Words
    PROVE  UpdateMinMax(With(g, c, g.max, g.min, t), v)
             = With(g, c, MaxWith(g, v), MinWith(g, v), t)
<1> DEFINE w == With(g, c, g.max, g.min, t)
           w1 == IF v > w.max THEN UpdateMax(w, v) ELSE w
<1>1. /\ ValidLayout(g.lay) /\ g.max \in Words /\ g.min \in Words
  BY DEF Histograms, Layouts
<1>2. w.max = g.max
  BY WithFields
<1>3. w1 = With(g, c, MaxWith(g, v), g.min, t)
  <2>1. CASE v > g.max
    <3>1. v <= OrUnitMask(g, v) /\ OrUnitMask(g, v) \in Words
      BY <1>1, UnitBits
    <3>2. g.max <= OrUnitMask(g, v)
      BY <1>1, <2>1, <3>1, Parameters
    <3>3. UpdateMax(w, v) = With(g, c, OrUnitMask(g, v), g.min, t)
      BY <1>1, <3>2, MaxUpdated
    <3>4. MaxWith(g, v) = OrUnitMask(g, v)
      BY <2>1 DEF MaxWith
    <3> HIDE DEF w
    <3> QED BY <1>2, <2>1, <3>3, <3>4
  <2>2. CASE ~(v > g.max)
    <3>1. MaxWith(g, v) = g.max
      BY <2>2 DEF MaxWith
    <3>2. w1 = w
      <4> HIDE DEF w
      <4> QED BY <1>2, <2>2
    <3> QED BY <3>1, <3>2
  <2> QED BY <2>1, <2>2
<1>4. UpdateMinMax(w, v) = IF v < w1.min /\ v # 0 THEN UpdateMin(w1, v) ELSE w1
  <2> HIDE DEF w
  <2> QED BY DEF UpdateMinMax
<1> DEFINE m == MaxWith(g, v)
<1> HIDE DEF w, w1, m
<1>5. w1.min = g.min /\ w1.lay = g.lay
  BY <1>3, WithFields DEF SameRange
<1>6. CASE v < g.min /\ v # 0 /\ ~(v <= UnitMask(g.lay))
  <2>1. MinWith(g, v) = AndNotUnitMask(g, v)
    BY <1>6 DEF MinWith
  <2>2. v <= g.min
    BY <1>1, <1>6, Parameters
  <2>3. UpdateMin(With(g, c, m, g.min, t), v) = With(g, c, m, AndNotUnitMask(g, v), t)
    BY <1>1, <1>6, <2>2, MinUpdated
  <2>4. UpdateMinMax(w, v) = UpdateMin(w1, v)
    BY <1>4, <1>5, <1>6
  <2> QED BY <1>3, <2>1, <2>3, <2>4 DEF m, w
<1>7. CASE v < g.min /\ v # 0 /\ v <= UnitMask(g.lay)
  <2>1. MinWith(g, v) = g.min
    BY <1>7 DEF MinWith
  <2>2. UpdateMin(w1, v) = w1
    BY <1>5, <1>7, Zenon DEF UpdateMin
  <2>3. UpdateMinMax(w, v) = w1
    BY <1>4, <1>5, <1>7, <2>2
  <2> QED BY <1>3, <2>1, <2>3 DEF m, w
<1>8. CASE ~(v < g.min /\ v # 0)
  <2>1. MinWith(g, v) = g.min
    BY <1>8, Zenon DEF MinWith
  <2>3. UpdateMinMax(w, v) = w1
    BY <1>4, <1>5, <1>8
  <2> QED BY <1>3, <2>1, <2>3 DEF m, w
<1> QED BY <1>6, <1>7, <1>8, Zenon

\* One sample more in a slot, and the statistics: what record_n_inner leaves.
Bumped(g, v, n) ==
    [g.counts EXCEPT ![IndexFor(g.lay, v)] = SatAdd(g.counts[IndexFor(g.lay, v)], n, CounterMax)]

\* The last two statements of record_n_inner, after the count.
LEMMA Tallied ==
    ASSUME NEW g \in Histograms, NEW v \in Words, NEW n
    PROVE  Tally(Bump(g, v, n), v, n)
             = With(g, Bumped(g, v, n), MaxWith(g, v), MinWith(g, v), SatAdd(g.total, n, MaxWord))
<1> DEFINE c == Bumped(g, v, n)
           w == With(g, c, g.max, g.min, g.total)
           w1 == With(g, c, MaxWith(g, v), MinWith(g, v), g.total)
<1>1. Bump(g, v, n) = w
  <2>1. Bump(g, v, n) = [g EXCEPT !.counts = c]
    BY DEF Bump, Bumped
  <2>2. g = With(g, g.counts, g.max, g.min, g.total)
    BY WithItself
  <2> HIDE DEF c
  <2>3. [With(g, g.counts, g.max, g.min, g.total) EXCEPT !.counts = c] = w
    BY DEF With
  <2> HIDE DEF w
  <2> QED BY <2>1, <2>2, <2>3, Zenon
<1>2. UpdateMinMax(w, v) = w1
  <2> HIDE DEF c
  <2> QED BY MinMaxUpdated
<1>3. Tally(w, v, n) = [w1 EXCEPT !.total = SatAdd(w1.total, n, MaxWord)]
  <2> HIDE DEF w, w1
  <2> QED BY <1>2, Zenon DEF Tally
<1>4. w1.total = g.total
  BY WithFields
<1>5. [w1 EXCEPT !.total = SatAdd(g.total, n, MaxWord)]
        = With(g, c, MaxWith(g, v), MinWith(g, v), SatAdd(g.total, n, MaxWord))
  BY DEF With
<1> HIDE DEF w, w1
<1> QED BY <1>1, <1>3, <1>4, <1>5

-----------------------------------------------------------------------------
(***************************************************************************)
(* Sums of counts                                                          *)
(***************************************************************************)
\* What is 0 does not add to a sum.
LEMMA SumSupport ==
    ASSUME NEW S, IsFiniteSet(S), NEW f, \A x \in S : f[x] \in Nat,
           NEW T \in SUBSET S, \A x \in S \ T : f[x] = 0
    PROVE  SumFunctionOnSet(f, S) = SumFunctionOnSet(f, T)
<1> DEFINE K == {k \in Nat : \A U \in SUBSET S : T \subseteq U /\ Cardinality(U \ T) = k =>
                     SumFunctionOnSet(f, U) = SumFunctionOnSet(f, T)}
<1>1. \A t \in SUBSET S : IsFiniteSet(t) /\ Cardinality(t) \in Nat
  BY FS_Subset, FS_CardinalityType
<1>2. 0 \in K
  <2> SUFFICES ASSUME NEW U \in SUBSET S, T \subseteq U, Cardinality(U \ T) = 0
               PROVE  SumFunctionOnSet(f, U) = SumFunctionOnSet(f, T)
    OBVIOUS
  <2>1. U \ T = {}
    <3>1. U \ T \in SUBSET S
      OBVIOUS
    <3> QED BY <1>1, <3>1, FS_EmptySet
  <2>2. U = T
    BY <2>1
  <2> QED BY <2>2
<1>3. ASSUME NEW k \in Nat, k \in K PROVE k + 1 \in K
  <2> SUFFICES ASSUME NEW U \in SUBSET S, T \subseteq U, Cardinality(U \ T) = k + 1
               PROVE  SumFunctionOnSet(f, U) = SumFunctionOnSet(f, T)
    OBVIOUS
  <2>1. U \ T # {}
    <3>1. Cardinality({}) = 0 /\ k + 1 # 0
      BY FS_EmptySet
    <3> QED BY <3>1
  <2>2. PICK y \in U \ T : TRUE
    BY <2>1
  <2> DEFINE V == U \ {y}
  <2>3. V \in SUBSET S /\ T \subseteq V /\ V \ T = (U \ T) \ {y} /\ U \ T \in SUBSET S
    BY <2>2
  <2> DEFINE M == U \ T
  <2>4. Cardinality(M \ {y}) = (k + 1) - 1
    <3>1. IsFiniteSet(M) /\ y \in M /\ Cardinality(M) = k + 1
      BY <1>1, <2>2
    <3> HIDE DEF M
    <3>2. Cardinality(M \ {y}) = Cardinality(M) - 1
      BY <3>1, FS_RemoveElement
    <3> QED BY <3>1, <3>2
  <2>5. Cardinality(V \ T) = k
    BY <2>3, <2>4
  <2>6. SumFunctionOnSet(f, V) = SumFunctionOnSet(f, T)
    <3> HIDE DEF V
    <3> QED BY <1>3, <2>3, <2>5
  <2>7. SumFunctionOnSet(f, U) = f[y] + SumFunctionOnSet(f, V)
    <3>1. IsFiniteSet(U) /\ \A x \in U : f[x] \in Nat
      BY <1>1
    <3> QED BY <2>2, <3>1, SumRemove
  <2>8. f[y] = 0
    BY <2>2
  <2>9. SumFunctionOnSet(f, V) \in Nat
    <3>1. IsFiniteSet(V) /\ \A x \in V : f[x] \in Nat
      BY <1>1, <2>3
    <3> HIDE DEF V
    <3> QED BY <3>1, SumType
  <2> HIDE DEF V
  <2> QED BY <2>6, <2>7, <2>8, <2>9
<1>4. Nat \subseteq K
  <2> HIDE DEF K
  <2> QED BY <1>2, <1>3, NatSetInduction
<1>5. S \ T \in SUBSET S
  OBVIOUS
<1> QED BY <1>1, <1>4, <1>5

\* The samples in a counts array.
Samples(c) == SumFunctionOnSet(c, DOMAIN c)

\* Counters are numbers.
LEMMA NatArray ==
    ASSUME NEW m, NEW c \in [0..(m - 1) -> 0..CounterMax]
    PROVE  c \in [0..(m - 1) -> Nat]
<1>1. 0..CounterMax \subseteq Nat
  BY Parameters
<1> QED BY <1>1, Zenon

\* An array of numbers.
LEMMA ArrayFacts ==
    ASSUME NEW n \in Nat, NEW c \in [0..(n - 1) -> Nat]
    PROVE  /\ IsFiniteSet(0..(n - 1)) /\ DOMAIN c = 0..(n - 1) /\ Samples(c) \in Nat
           /\ Samples(c) = SumFunctionOnSet(c, 0..(n - 1))
<1>1. IsFiniteSet(0..(n - 1))
  <2>1. 0 \in Int /\ n - 1 \in Int
    OBVIOUS
  <2> QED BY <2>1, FS_Interval
<1>2. DOMAIN c = 0..(n - 1) /\ \A x \in 0..(n - 1) : c[x] \in Nat
  OBVIOUS
<1>3. SumFunctionOnSet(c, 0..(n - 1)) \in Nat
  BY <1>1, <1>2, SumType
<1> QED BY <1>1, <1>2, <1>3 DEF Samples

\* total_count counts the slots in use.
LEMMA SamplesInUse ==
    ASSUME NEW g, NEW n \in Nat, g.counts \in [0..(n - 1) -> Nat]
    PROVE  SumCounts(g, NonZero(g)) = Samples(g.counts) /\ Samples(g.counts) \in Nat
<1> DEFINE D == 0..(n - 1)
           T == NonZero(g)
           f == g.counts
<1>1. IsFiniteSet(D) /\ DOMAIN f = D /\ Samples(f) \in Nat
  BY ArrayFacts
<1>2. T \in SUBSET D /\ (\A x \in D \ T : f[x] = 0) /\ \A x \in D : f[x] \in Nat
  BY <1>1 DEF NonZero
<1> HIDE DEF D, T, f
<1>3. SumFunctionOnSet(f, D) = SumFunctionOnSet(f, T)
  BY <1>1, <1>2, SumSupport
<1> QED BY <1>1, <1>3 DEF SumCounts, Samples, f, T

\* Another count in one slot.
LEMMA SamplesWith ==
    ASSUME NEW n \in Nat, NEW c \in [0..(n - 1) -> Nat], NEW i \in 0..(n - 1), NEW x \in Nat
    PROVE  Samples([c EXCEPT ![i] = x]) + c[i] = Samples(c) + x
<1> DEFINE D == 0..(n - 1)
           e == [c EXCEPT ![i] = x]
           R == D \ {i}
<1>1. e \in [D -> Nat] /\ e[i] = x /\ \A y \in R : e[y] = c[y]
  OBVIOUS
<1>2. /\ IsFiniteSet(D) /\ Samples(c) = SumFunctionOnSet(c, D)
      /\ Samples(e) = SumFunctionOnSet(e, D)
  <2> HIDE DEF e
  <2> QED BY <1>1, ArrayFacts
<1>3. SumFunctionOnSet(c, D) = c[i] + SumFunctionOnSet(c, R)
  BY <1>2, SumRemove
<1>4. SumFunctionOnSet(e, D) = e[i] + SumFunctionOnSet(e, R)
  <2>1. \A y \in D : e[y] \in Nat
    BY <1>1
  <2> HIDE DEF e
  <2> QED BY <1>2, <2>1, SumRemove
<1>5. IsFiniteSet(R) /\ \A y \in R : c[y] \in Nat /\ e[y] = c[y]
  BY <1>1, <1>2, FS_Subset
<1>6. SumFunctionOnSet(e, R) = SumFunctionOnSet(c, R) /\ SumFunctionOnSet(c, R) \in Nat
  <2>1. \A y \in R : c[y] \in Nat
    BY <1>5
  <2> HIDE DEF R, e
  <2> QED BY <1>5, <2>1, SumSame, SumType
<1> HIDE DEF e, R
<1> QED BY <1>1, <1>2, <1>3, <1>4, <1>6 DEF e

\* The sum of two arrays, and of what is at most that.
LEMMA SamplesPlus ==
    ASSUME NEW n \in Nat, NEW a \in [0..(n - 1) -> Nat], NEW b \in [0..(n - 1) -> Nat],
           NEW c \in [0..(n - 1) -> Nat], \A i \in 0..(n - 1) : c[i] <= a[i] + b[i]
    PROVE  /\ Samples(c) <= Samples(a) + Samples(b)
           /\ (\A i \in 0..(n - 1) : c[i] = a[i] + b[i]) => Samples(c) = Samples(a) + Samples(b)
<1> DEFINE To(f, k) == SumFunctionOnSet(f, 0..(k - 1))
           K == {k \in Nat : k <= n =>
                    /\ To(a, k) \in Nat /\ To(b, k) \in Nat /\ To(c, k) \in Nat
                    /\ To(c, k) <= To(a, k) + To(b, k)
                    /\ (\A i \in 0..(n - 1) : c[i] = a[i] + b[i]) => To(c, k) = To(a, k) + To(b, k)}
<1>1. ASSUME NEW f \in [0..(n - 1) -> Nat], NEW k \in Nat, k < n, To(f, k) \in Nat
      PROVE  f[k] \in Nat /\ To(f, k + 1) = f[k] + To(f, k)
  <2> DEFINE S == 0..(k - 1)
  <2>1. k \in 0..(n - 1) /\ 0..((k + 1) - 1) = S \cup {k} /\ k \notin S
    BY <1>1
  <2>2. IsFiniteSet(S)
    <3>1. 0 \in Int /\ k - 1 \in Int
      OBVIOUS
    <3> QED BY <3>1, FS_Interval
  <2>3. \A x \in S : f[x] \in Nat
    BY <1>1
  <2> HIDE DEF S
  <2>4. SumFunctionOnSet(f, S \cup {k}) = f[k] + SumFunctionOnSet(f, S)
    BY <1>1, <2>1, <2>2, <2>3, SumGrow
  <2> QED BY <2>1, <2>4 DEF S
<1>2. 0 \in K
  <2>1. 0..(0 - 1) = {}
    OBVIOUS
  <2>2. \A f : To(f, 0) = 0
    BY <2>1, SumEmpty
  <2> HIDE DEF To
  <2> QED BY <2>2
<1>3. ASSUME NEW k \in Nat, k \in K PROVE k + 1 \in K
  <2> SUFFICES ASSUME k + 1 <= n
               PROVE  /\ To(a, k + 1) \in Nat /\ To(b, k + 1) \in Nat /\ To(c, k + 1) \in Nat
                      /\ To(c, k + 1) <= To(a, k + 1) + To(b, k + 1)
                      /\ (\A i \in 0..(n - 1) : c[i] = a[i] + b[i])
                           => To(c, k + 1) = To(a, k + 1) + To(b, k + 1)
    OBVIOUS
  <2> HIDE DEF To
  <2>1. k < n /\ k <= n /\ k \in 0..(n - 1)
    OBVIOUS
  <2>2. /\ To(a, k) \in Nat /\ To(b, k) \in Nat /\ To(c, k) \in Nat
        /\ To(c, k) <= To(a, k) + To(b, k)
        /\ (\A i \in 0..(n - 1) : c[i] = a[i] + b[i]) => To(c, k) = To(a, k) + To(b, k)
    BY <1>3, <2>1
  <2>3. /\ a[k] \in Nat /\ To(a, k + 1) = a[k] + To(a, k)
        /\ b[k] \in Nat /\ To(b, k + 1) = b[k] + To(b, k)
        /\ c[k] \in Nat /\ To(c, k + 1) = c[k] + To(c, k)
    BY <1>1, <2>1, <2>2
  <2>4. c[k] <= a[k] + b[k]
    BY <2>1
  <2>5. (\A i \in 0..(n - 1) : c[i] = a[i] + b[i]) => c[k] = a[k] + b[k]
    BY <2>1
  <2>6. /\ To(a, k + 1) \in Nat /\ To(b, k + 1) \in Nat /\ To(c, k + 1) \in Nat
        /\ To(c, k + 1) <= To(a, k + 1) + To(b, k + 1)
    <3> DEFINE x == To(a, k)
               y == To(b, k)
               z == To(c, k)
               p == a[k]
               q == b[k]
               r == c[k]
    <3>1. /\ x \in Nat /\ y \in Nat /\ z \in Nat /\ z <= x + y
          /\ p \in Nat /\ q \in Nat /\ r \in Nat /\ r <= p + q
      BY <2>2, <2>3, <2>4
    <3>2. To(a, k + 1) = p + x /\ To(b, k + 1) = q + y /\ To(c, k + 1) = r + z
      BY <2>3
    <3> HIDE DEF x, y, z, p, q, r
    <3> QED BY <3>1, <3>2
  <2>7. ASSUME \A i \in 0..(n - 1) : c[i] = a[i] + b[i]
        PROVE  To(c, k + 1) = To(a, k + 1) + To(b, k + 1)
    <3> DEFINE x == To(a, k)
               y == To(b, k)
               p == a[k]
               q == b[k]
    <3>1. To(c, k) = x + y /\ c[k] = p + q
      BY <2>2, <2>5, <2>7
    <3>2. x \in Nat /\ y \in Nat /\ p \in Nat /\ q \in Nat
      BY <2>2, <2>3
    <3>3. To(a, k + 1) = p + x /\ To(b, k + 1) = q + y /\ To(c, k + 1) = (p + q) + (x + y)
      BY <2>3, <3>1
    <3> HIDE DEF x, y, p, q
    <3> QED BY <3>2, <3>3
  <2> QED BY <2>6, <2>7
<1>4. Nat \subseteq K
  <2> HIDE DEF K
  <2> QED BY <1>2, <1>3, NatSetInduction
<1>5. n \in K /\ n <= n
  BY <1>4
<1>6. Samples(a) = To(a, n) /\ Samples(b) = To(b, n) /\ Samples(c) = To(c, n)
  BY ArrayFacts
<1> HIDE DEF To
<1> QED BY <1>5, <1>6

\* Arrays with the same counts, and zeros beyond.
LEMMA SamplesBeyond ==
    ASSUME NEW n \in Nat, NEW m \in Nat, n <= m, NEW c \in [0..(n - 1) -> Nat],
           NEW e \in [0..(m - 1) -> Nat], \A i \in 0..(m - 1) : e[i] = IF i < n THEN c[i] ELSE 0
    PROVE  Samples(e) = Samples(c)
<1> DEFINE S == 0..(m - 1)
           T == 0..(n - 1)
<1>1. IsFiniteSet(S) /\ IsFiniteSet(T) /\ Samples(e) = SumFunctionOnSet(e, S)
      /\ Samples(c) = SumFunctionOnSet(c, T)
  BY ArrayFacts
<1>2. /\ T \in SUBSET S /\ (\A x \in S : e[x] \in Nat) /\ (\A x \in S \ T : e[x] = 0)
      /\ \A x \in T : c[x] \in Nat /\ e[x] = c[x]
  OBVIOUS
<1> HIDE DEF S, T
<1>3. SumFunctionOnSet(e, S) = SumFunctionOnSet(e, T)
  BY <1>1, <1>2, SumSupport
<1>4. SumFunctionOnSet(e, T) = SumFunctionOnSet(c, T)
  BY <1>1, <1>2, SumSame
<1> QED BY <1>1, <1>3, <1>4

\* An array of zeros.
LEMMA SamplesZero ==
    ASSUME NEW n \in Nat, NEW c \in [0..(n - 1) -> Nat], \A i \in 0..(n - 1) : c[i] = 0
    PROVE  Samples(c) = 0
<1> DEFINE S == 0..(n - 1)
<1>1. IsFiniteSet(S) /\ Samples(c) = SumFunctionOnSet(c, S)
  BY ArrayFacts
<1>2. {} \in SUBSET S /\ (\A x \in S : c[x] \in Nat) /\ \A x \in S \ {} : c[x] = 0
  OBVIOUS
<1> HIDE DEF S
<1>3. SumFunctionOnSet(c, S) = SumFunctionOnSet(c, {})
  BY <1>1, <1>2, SumSupport
<1> QED BY <1>1, <1>3, SumEmpty

-----------------------------------------------------------------------------
(***************************************************************************)
(* Recording                                                               *)
(***************************************************************************)
\* saturating_add.
LEMMA Saturated ==
    ASSUME NEW a \in Nat, NEW b \in Nat, NEW top \in Nat
    PROVE  /\ SatAdd(a, b, top) \in Nat /\ SatAdd(a, b, top) <= top
           /\ SatAdd(a, b, top) = IF a + b <= top THEN a + b ELSE top
           /\ Min({a, top}) = IF a <= top THEN a ELSE top
<1> DEFINE s == a + b
<1>1. s \in Nat
  OBVIOUS
<1> HIDE DEF s
<1>2. /\ Min({s, top}) = IF s <= top THEN s ELSE top
      /\ Min({a, top}) = IF a <= top THEN a ELSE top
  BY <1>1, MinOfTwo
<1>3. SatAdd(a, b, top) = IF s <= top THEN s ELSE top
  BY <1>2 DEF SatAdd, s
<1>4. SatAdd(a, b, top) \in Nat /\ SatAdd(a, b, top) <= top
  BY <1>1, <1>3
<1> QED BY <1>2, <1>3, <1>4 DEF s

\* The counts after a recording.
LEMMA BumpedFacts ==
    ASSUME NEW g, Sound(g), NEW v \in Words, InRange(g, v), NEW n \in 0..CounterMax
    PROVE  LET c == Bumped(g, v, n)
               i == IndexFor(g.lay, v)
           IN  /\ c \in [0..(Bins(g) - 1) -> 0..CounterMax] /\ c \in CountArrays
               /\ i \in 0..(Bins(g) - 1) /\ g.counts[i] \in 0..CounterMax
               /\ c[i] = IF g.counts[i] + n <= CounterMax THEN g.counts[i] + n ELSE CounterMax
               /\ \A j \in 0..(Bins(g) - 1) : j # i => c[j] = g.counts[j]
               /\ Samples(c) \in Nat /\ Samples(g.counts) \in Nat
               /\ Samples(c) <= Samples(g.counts) + n
               /\ g.counts[i] + n <= CounterMax => Samples(c) = Samples(g.counts) + n
<1> DEFINE f == g.counts
           i == IndexFor(g.lay, v)
           m == Bins(g)
           x == SatAdd(f[i], n, CounterMax)
           c == Bumped(g, v, n)
<1>1. m \in Nat \ {0} /\ f \in [0..(m - 1) -> 0..CounterMax] /\ i \in 0..(m - 1) /\ CounterMax \in Nat
  BY SoundFacts, Parameters DEF InRange
<1>2. c = [f EXCEPT ![i] = x]
  BY DEF Bumped
<1> HIDE DEF c, m, f, i
<1>3. /\ f[i] \in 0..CounterMax /\ x \in 0..CounterMax
      /\ x = IF f[i] + n <= CounterMax THEN f[i] + n ELSE CounterMax
  <2>1. f[i] \in Nat /\ n \in Nat /\ f[i] \in 0..CounterMax
    BY <1>1
  <2>2. /\ SatAdd(f[i], n, CounterMax) \in Nat /\ SatAdd(f[i], n, CounterMax) <= CounterMax
        /\ SatAdd(f[i], n, CounterMax) = IF f[i] + n <= CounterMax THEN f[i] + n ELSE CounterMax
    BY <1>1, <2>1, Saturated
  <2> QED BY <1>1, <2>1, <2>2
<1> HIDE DEF x
<1>4. /\ c \in [0..(m - 1) -> 0..CounterMax] /\ c[i] = x
      /\ \A j \in 0..(m - 1) : j # i => c[j] = f[j]
  BY <1>1, <1>2, <1>3
<1>5. c \in CountArrays
  BY <1>1, <1>4 DEF CountArrays
<1>6. f \in [0..(m - 1) -> Nat] /\ c \in [0..(m - 1) -> Nat] /\ x \in Nat /\ f[i] \in Nat
  BY <1>1, <1>3, <1>4
<1>7. Samples(c) \in Nat /\ Samples(f) \in Nat /\ Samples(c) + f[i] = Samples(f) + x
  <2>1. Samples(c) \in Nat /\ Samples(f) \in Nat
    BY <1>1, <1>6, ArrayFacts
  <2>2. Samples([f EXCEPT ![i] = x]) + f[i] = Samples(f) + x
    <3>1. m \in Nat /\ i \in 0..(m - 1) /\ f \in [0..(m - 1) -> Nat] /\ x \in Nat
      BY <1>1, <1>6
    <3> QED BY <3>1, SamplesWith, Zenon
  <2> QED BY <1>2, <2>1, <2>2
<1> DEFINE p == Samples(c)
           q == Samples(f)
           y == f[i]
<1>8. p \in Nat /\ q \in Nat /\ y \in Nat /\ x \in Nat /\ p + y = q + x
      /\ x = IF y + n <= CounterMax THEN y + n ELSE CounterMax
  BY <1>3, <1>6, <1>7
<1> HIDE DEF p, q, y
<1>9. p <= q + n /\ (y + n <= CounterMax => p = q + n)
  BY <1>1, <1>8
<1> QED BY <1>1, <1>3, <1>4, <1>5, <1>8, <1>9 DEF p, q, y, f, c, i, m

\* A recording leaves a histogram of the same range that is sound.
LEMMA RecordSound ==
    ASSUME NEW g, Sound(g), NEW v \in Words, InRange(g, v), NEW n \in 0..CounterMax
    PROVE  Sound(Tally(Bump(g, v, n), v, n)) /\ SameRange(Tally(Bump(g, v, n), v, n), g)
<1> DEFINE c == Bumped(g, v, n)
           i == IndexFor(g.lay, v)
           t == SatAdd(g.total, n, MaxWord)
           mx == MaxWith(g, v)
           mn == MinWith(g, v)
           r == With(g, c, mx, mn, t)
           m == Bins(g)
<1>1. /\ g \in Histograms /\ ValidLayout(g.lay) /\ m \in Nat \ {0} /\ CounterMax \in Nat
      /\ g.counts \in [0..(m - 1) -> 0..CounterMax] /\ g.total \in Words /\ g.max \in Words
      /\ MaxWord \in Nat /\ Words = 0..MaxWord /\ DOMAIN g.counts = 0..(m - 1)
  BY SoundFacts, Parameters
<1>2. Tally(Bump(g, v, n), v, n) = r
  BY <1>1, Tallied
<1>3. /\ c \in [0..(m - 1) -> 0..CounterMax] /\ c \in CountArrays
      /\ i \in 0..(m - 1) /\ (\A j \in 0..(m - 1) : j # i => c[j] = g.counts[j])
      /\ Samples(c) \in Nat /\ Samples(g.counts) \in Nat
      /\ Samples(c) <= Samples(g.counts) + n
  BY BumpedFacts
<1>4. /\ mx \in Words /\ mn \in Words /\ g.max <= mx /\ v <= mx
      /\ IndexFor(g.lay, mn) # 0 \/ mn = g.min
      /\ IndexFor(g.lay, mx) = IF v > g.max THEN i ELSE IndexFor(g.lay, g.max)
  BY <1>1, StatisticsWith
<1> HIDE DEF c, mx, mn
<1>5. t \in Words /\ g.total \in Nat /\ t = IF g.total + n <= MaxWord THEN g.total + n ELSE MaxWord
  <2>1. g.total \in Nat /\ n \in Nat
    BY <1>1
  <2>2. /\ SatAdd(g.total, n, MaxWord) \in Nat /\ SatAdd(g.total, n, MaxWord) <= MaxWord
        /\ SatAdd(g.total, n, MaxWord) = IF g.total + n <= MaxWord THEN g.total + n ELSE MaxWord
    BY <1>1, <2>1, Saturated
  <2> QED BY <1>1, <2>1, <2>2
<1> HIDE DEF t
<1>6. /\ SameRange(r, g) /\ r.counts = c /\ r.max = mx /\ r.min = mn /\ r.total = t
      /\ r \in Histograms
  <2>1. SameRange(r, g) /\ r.counts = c /\ r.max = mx /\ r.min = mn /\ r.total = t
    BY WithFields
  <2>2. r \in Histograms
    BY <1>1, <1>3, <1>4, <1>5, WithFields
  <2> QED BY <2>1, <2>2
<1> HIDE DEF r, m
<1>7. r.lay = g.lay /\ r.buckets = g.buckets /\ r.high = g.high /\ r.low = g.low /\ Bins(r) = m
  BY <1>6 DEF SameRange, Bins, m
<1>8. DOMAIN r.counts = 0..(m - 1)
  BY <1>3, <1>6
<1>9. /\ \E x \in Words : g.buckets = BucketsToCover(g.lay, x)
      /\ g.low >= 1 /\ g.high >= 2 * g.low /\ InRange(g, g.high)
      /\ InRange(g, g.max) /\ \A j \in NonZero(g) : j <= IndexFor(g.lay, g.max)
      /\ IndexFor(g.lay, g.min) # 0
      /\ g.total >= Min({SumCounts(g, NonZero(g)), MaxWord})
  BY DEF Sound, Within
<1>10. InRange(r, r.high)
  BY <1>1, <1>7, <1>8, <1>9 DEF InRange
<1>11. InRange(r, r.max)
  <2>1. IndexFor(g.lay, mx) \in 0..(m - 1)
    BY <1>1, <1>3, <1>4, <1>9 DEF InRange
  <2> QED BY <1>6, <1>7, <1>8, <2>1 DEF InRange
<1>12. ASSUME NEW j \in NonZero(r) PROVE j <= IndexFor(r.lay, r.max)
  <2>1. j \in 0..(m - 1) /\ c[j] # 0
    BY <1>6, <1>8 DEF NonZero
  <2>2. CASE j = i
    <3>1. i <= IndexFor(g.lay, mx)
      BY <1>1, <1>4, IndexMonotone
    <3> QED BY <1>6, <1>7, <2>2, <3>1
  <2>3. CASE j # i
    <3>1. j \in NonZero(g)
      BY <1>1, <1>3, <2>1, <2>3 DEF NonZero
    <3>2. j <= IndexFor(g.lay, g.max)
      BY <1>9, <3>1
    <3>3. /\ IndexFor(g.lay, g.max) <= IndexFor(g.lay, mx)
          /\ IndexFor(g.lay, g.max) \in Nat /\ IndexFor(g.lay, mx) \in Nat
      BY <1>1, <1>4, IndexMonotone
    <3>4. j <= IndexFor(g.lay, mx)
      BY <2>1, <3>2, <3>3
    <3> QED BY <1>6, <1>7, <3>4
  <2> QED BY <2>2, <2>3
<1>13. r.total >= Min({SumCounts(r, NonZero(r)), MaxWord})
  <2>1. /\ SumCounts(g, NonZero(g)) = Samples(g.counts)
        /\ SumCounts(r, NonZero(r)) = Samples(c)
    <3>1. g.counts \in [0..(m - 1) -> Nat] /\ r.counts \in [0..(m - 1) -> Nat]
      <4>1. g.counts \in [0..(m - 1) -> 0..CounterMax]
        BY <1>1
      <4>2. g.counts \in [0..(m - 1) -> Nat]
        BY <4>1, NatArray
      <4>3. c \in [0..(m - 1) -> Nat]
        BY <1>3, NatArray
      <4>4. r.counts = c
        BY <1>6
      <4> HIDE DEF c, r
      <4> QED BY <4>2, <4>3, <4>4
    <3>2. SumCounts(g, NonZero(g)) = Samples(g.counts)
      BY <1>1, <3>1, SamplesInUse
    <3>3. SumCounts(r, NonZero(r)) = Samples(r.counts)
      BY <1>1, <3>1, SamplesInUse
    <3> QED BY <1>6, <3>2, <3>3
  <2> DEFINE p == Samples(g.counts)
             q == Samples(c)
  <2>2. p \in Nat /\ q \in Nat /\ q <= p + n /\ g.total >= Min({p, MaxWord})
    BY <1>3, <1>9, <2>1
  <2> HIDE DEF p, q
  <2>3. /\ Min({p, MaxWord}) = IF p <= MaxWord THEN p ELSE MaxWord
        /\ Min({q, MaxWord}) = IF q <= MaxWord THEN q ELSE MaxWord
    BY <1>1, <2>2, MinOfTwo
  <2>4. t >= Min({q, MaxWord})
    BY <1>1, <1>5, <2>2, <2>3
  <2> QED BY <1>6, <2>1, <2>4 DEF q
<1>14. IndexFor(r.lay, r.min) # 0
  BY <1>4, <1>6, <1>7, <1>9
<1>15. Within(r)
  BY <1>3, <1>6, <1>7, <1>9, <1>10, <1>11, <1>12, <1>13, <1>14 DEF Within
<1> QED BY <1>2, <1>6, <1>15 DEF Sound

\* The statistics of a histogram stay exact, as long as no counter saturates.
LEMMA RecordExact ==
    ASSUME NEW g, Sound(g), NEW v \in Words, InRange(g, v), NEW n \in 0..CounterMax,
           n # 0 \/ v = 0, Exact(g) \/ Full(g)
    PROVE  LET r == Tally(Bump(g, v, n), v, n) IN Exact(r) \/ Full(r)
<1> DEFINE c == Bumped(g, v, n)
           i == IndexFor(g.lay, v)
           t == SatAdd(g.total, n, MaxWord)
           mx == MaxWith(g, v)
           mn == MinWith(g, v)
           r == Tally(Bump(g, v, n), v, n)
           m == Bins(g)
           f == g.counts
<1>1. /\ g \in Histograms /\ ValidLayout(g.lay) /\ m \in Nat \ {0} /\ CounterMax \in Nat \ {0}
      /\ f \in [0..(m - 1) -> 0..CounterMax] /\ g.total \in Words /\ g.max \in Words
      /\ MaxWord \in Nat /\ Words = 0..MaxWord /\ DOMAIN f = 0..(m - 1) /\ g.min \in Words
  BY SoundFacts, Parameters
<1>2. SameRange(r, g) /\ r.counts = c /\ r.max = mx /\ r.min = mn /\ r.total = t
  <2>1. r = With(g, c, mx, mn, t)
    BY <1>1, Tallied
  <2> HIDE DEF r, c, mx, mn, t
  <2> QED BY <2>1, WithFields
<1>3. /\ c \in [0..(m - 1) -> 0..CounterMax]
      /\ i \in 0..(m - 1) /\ (\A j \in 0..(m - 1) : j # i => c[j] = f[j])
      /\ f[i] \in 0..CounterMax
      /\ c[i] = IF f[i] + n <= CounterMax THEN f[i] + n ELSE CounterMax
      /\ Samples(c) \in Nat /\ Samples(f) \in Nat
      /\ f[i] + n <= CounterMax => Samples(c) = Samples(f) + n
  BY BumpedFacts
<1>4. /\ IndexFor(g.lay, mx) = IF v > g.max THEN i ELSE IndexFor(g.lay, g.max)
      /\ \/ v <= g.min /\ IndexFor(g.lay, mn) = i
         \/ mn = g.min /\ (v >= g.min \/ i = 0)
  BY <1>1, StatisticsWith
<1>5. t = IF g.total + n <= MaxWord THEN g.total + n ELSE MaxWord
  <2>1. g.total \in Nat /\ n \in Nat
    BY <1>1
  <2> QED BY <1>1, <2>1, Saturated
<1> HIDE DEF c, mx, mn, t, r, i, f, m
<1>6. r.lay = g.lay
  BY <1>2 DEF SameRange
<1>7. CASE Full(r)
  BY <1>7 DEF r
<1>8. CASE ~Full(r)
  <2>1. c[i] # CounterMax /\ \A j \in 0..(m - 1) : c[j] # CounterMax
    BY <1>2, <1>3, <1>8 DEF Full
  <2>2. c[i] = f[i] + n /\ Samples(c) = Samples(f) + n
    BY <1>3, <2>1
  <2>3. Exact(g)
    <3> SUFFICES ASSUME Full(g) PROVE FALSE
      OBVIOUS
    <3>1. PICK j \in 0..(m - 1) : f[j] = CounterMax
      BY <1>1 DEF Full, f
    <3>2. CASE j = i
      BY <1>1, <1>3, <2>1, <2>2, <3>1, <3>2
    <3>3. CASE j # i
      BY <1>3, <2>1, <3>1, <3>3
    <3> QED BY <3>2, <3>3
  <2> DEFINE used == NonZero(g)
             now == NonZero(r)
             first == IndexFor(g.lay, g.min)
             last == IndexFor(g.lay, g.max)
  <2>4. /\ used = {j \in 0..(m - 1) : f[j] # 0}
        /\ now = {j \in 0..(m - 1) : c[j] # 0}
    BY <1>1, <1>2, <1>3 DEF NonZero, f
  <2>5. n # 0 => now = used \cup {i}
    <3> SUFFICES ASSUME n # 0 PROVE now = used \cup {i}
      OBVIOUS
    <3>1. c[i] # 0
      BY <1>1, <1>3, <2>2
    <3> QED BY <1>3, <2>4, <3>1
  <2>6. n = 0 => now = used /\ v = 0 /\ i = 0
    <3> SUFFICES ASSUME n = 0 PROVE now = used /\ v = 0 /\ i = 0
      OBVIOUS
    <3>1. c[i] = f[i]
      BY <1>3, <2>2
    <3>2. v = 0 /\ i = 0
      BY <1>1, IndexForZero DEF i
    <3> QED BY <1>3, <2>4, <3>1, <3>2
  <2>7. /\ g.total = Min({SumCounts(g, used), MaxWord})
        /\ IF used = {} THEN last = 0 ELSE last \in used
        /\ \A j \in used \ {0} : first <= j
        /\ 0 \notin used => IF used = {} THEN g.min = ORIGINAL_MIN ELSE first \in used
    BY <2>3 DEF Exact
  <2>8. \A x \in Words, y \in Words : x <= y =>
             /\ IndexFor(g.lay, x) \in Nat /\ IndexFor(g.lay, y) \in Nat
             /\ IndexFor(g.lay, x) <= IndexFor(g.lay, y)
    BY <1>1, IndexMonotone
  <2>9. /\ first \in Nat /\ last \in Nat /\ i \in Nat
        /\ v <= g.max => i <= last
        /\ v >= g.min => first <= i
        /\ v <= g.min => i <= first
        /\ v \in Int /\ g.max \in Int /\ g.min \in Int
    <3>1. g.max \in Words /\ g.min \in Words
      BY <1>1
    <3>2. Words = 0..MaxWord /\ MaxWord \in Nat
      BY Parameters
    <3>3. first \in Nat /\ last \in Nat /\ i \in Nat
      <4>1. \A x \in Words : IndexFor(g.lay, x) \in Nat
        BY SoundFacts
      <4> QED BY <3>1, <4>1 DEF i
    <3>4. v \in Int /\ g.max \in Int /\ g.min \in Int
      BY <3>1, <3>2
    <3>5. v >= g.min => g.min <= v
      BY <3>4
    <3>6. (v <= g.max => i <= last) /\ (g.min <= v => first <= i) /\ (v <= g.min => i <= first)
      BY <2>8, <3>1, Zenon DEF i
    <3> QED BY <3>3, <3>4, <3>5, <3>6
  <2>10. r.total = Min({SumCounts(r, now), MaxWord})
    <3>1. /\ SumCounts(g, used) = Samples(f) /\ SumCounts(r, now) = Samples(c)
      <4>1. g.counts \in [0..(m - 1) -> Nat] /\ r.counts \in [0..(m - 1) -> Nat]
        <5>1. f \in [0..(m - 1) -> Nat]
          BY <1>1, NatArray
        <5>2. c \in [0..(m - 1) -> Nat]
          BY <1>3, NatArray
        <5> QED BY <1>2, <5>1, <5>2 DEF f
      <4>2. SumCounts(g, NonZero(g)) = Samples(g.counts)
        BY <1>1, <4>1, SamplesInUse
      <4>3. SumCounts(r, NonZero(r)) = Samples(r.counts)
        BY <1>1, <4>1, SamplesInUse
      <4> QED BY <1>2, <4>2, <4>3 DEF f
    <3> DEFINE p == Samples(f)
               q == Samples(c)
    <3>2. p \in Nat /\ q \in Nat /\ q = p + n /\ g.total = Min({p, MaxWord})
      BY <1>3, <2>2, <2>7, <3>1
    <3> HIDE DEF p, q
    <3>3. /\ Min({p, MaxWord}) = IF p <= MaxWord THEN p ELSE MaxWord
          /\ Min({q, MaxWord}) = IF q <= MaxWord THEN q ELSE MaxWord
      <4>1. p \in Int /\ q \in Int /\ MaxWord \in Int
        BY <1>1, <3>2
      <4> QED BY <4>1, MinOfTwo
    <3>4. t = Min({q, MaxWord})
      BY <1>1, <1>5, <3>2, <3>3
    <3> QED BY <1>2, <3>1, <3>4 DEF q
  <2> HIDE DEF used, now, first, last
  <2>11. /\ IndexFor(g.lay, mx) = IF v > g.max THEN i ELSE last
         /\ IndexFor(g.lay, g.min) = first
    BY <1>4 DEF last, first
  <2>12. IF now = {} THEN IndexFor(r.lay, r.max) = 0 ELSE IndexFor(r.lay, r.max) \in now
    <3>1. CASE n = 0
      <4>1. ~(v > g.max)
        BY <1>1, <2>6, <3>1
      <4> QED BY <1>2, <1>6, <2>6, <2>7, <2>11, <3>1, <4>1
    <3>2. CASE n # 0 /\ v > g.max
      BY <1>2, <1>6, <2>5, <2>11, <3>2
    <3>3. CASE n # 0 /\ ~(v > g.max) /\ used = {}
      <4>1. i <= last /\ last = 0 /\ i = 0
        BY <2>7, <2>9, <3>3
      <4> QED BY <1>2, <1>6, <2>5, <2>11, <3>3, <4>1
    <3>4. CASE n # 0 /\ ~(v > g.max) /\ used # {}
      BY <1>2, <1>6, <2>5, <2>7, <2>11, <3>4
    <3> QED BY <3>1, <3>2, <3>3, <3>4
  <2>13. /\ \A j \in now \ {0} : IndexFor(r.lay, r.min) <= j
         /\ 0 \notin now => IF now = {} THEN r.min = ORIGINAL_MIN
                            ELSE IndexFor(r.lay, r.min) \in now
    <3>1. CASE n = 0
      <4>1. mn = g.min \/ (IndexFor(g.lay, mn) = 0 /\ first = 0 /\ mn = g.min)
        <5>1. MinWith(g, 0) = g.min
          BY DEF MinWith
        <5> QED BY <2>6, <3>1, <5>1 DEF mn
      <4>2. mn = g.min
        BY <4>1
      <4> QED BY <1>2, <1>6, <2>6, <2>7, <2>11, <3>1, <4>2
    <3>2. CASE n # 0 /\ v <= g.min /\ IndexFor(g.lay, mn) = i
      <4>1. \A j \in used \ {0} : j \in Nat
        BY <1>1, <2>4
      <4>2. \A j \in used \ {0} : i <= j
        BY <2>7, <2>9, <3>2, <4>1
      <4> QED BY <1>2, <1>6, <2>5, <2>9, <3>2, <4>2
    <3>3. CASE n # 0 /\ mn = g.min /\ i = 0
      BY <1>2, <1>6, <2>5, <2>7, <2>11, <3>3
    <3>4. CASE n # 0 /\ mn = g.min /\ v >= g.min
      <4>1. first <= i
        BY <2>9, <3>4
      <4>2. \A j \in now \ {0} : first <= j
        BY <2>5, <2>7, <3>4, <4>1
      <4>3. ASSUME 0 \notin now PROVE first \in now
        <5>1. CASE used = {}
          <6>1. g.min = MaxWord
            BY <2>5, <2>7, <3>4, <4>3, <5>1 DEF ORIGINAL_MIN
          <6>2. v = g.min
            BY <1>1, <3>4, <6>1
          <6>3. first = i
            BY <6>2 DEF first, i
          <6> QED BY <2>5, <3>4, <6>3
        <5>2. CASE used # {}
          BY <2>5, <2>7, <3>4, <4>3, <5>2
        <5> QED BY <5>1, <5>2
      <4> QED BY <1>2, <1>6, <2>5, <2>11, <3>4, <4>2, <4>3
    <3> QED BY <1>4, <3>1, <3>2, <3>3, <3>4
  <2>14. Exact(r)
    BY <2>10, <2>12, <2>13 DEF Exact, now
  <2> QED BY <2>14 DEF r
<1> QED BY <1>7, <1>8

-----------------------------------------------------------------------------
(***************************************************************************)
(* Growing                                                                 *)
(***************************************************************************)
\* The equivalents of a value are on its two sides.
LEMMA EquivalentsAround ==
    ASSUME NEW L, ValidLayout(L), NEW v \in Words
    PROVE  LowestEquivalent(L, v) <= v /\ v <= HighestEquivalent(L, v)
<1> DEFINE i == IndexFor(L, v)
           first == ValueFor(L, i)
           width == EquivalentRange(L, first)
<1>1. PICK b, s : Place(L, i, b, s) /\ Fits(L, b)
  BY PlaceOfValue
<1>2. i \in Nat
  <2>1. v <= v
    BY Parameters
  <2> QED BY <2>1, IndexMonotone
<1>3. /\ {x \in Words : IndexFor(L, x) = i} = first..(first + width - 1)
      /\ \A x \in {y \in Words : IndexFor(L, y) = i} :
           LowestEquivalent(L, x) = first /\ EquivalentRange(L, x) = width
  <2> HIDE DEF i
  <2> QED BY <1>1, <1>2, SlotIsRange
<1>4. v \in first..(first + width - 1) /\ LowestEquivalent(L, v) = first
      /\ EquivalentRange(L, v) = width
  BY <1>3
<1>5. first \in Int /\ width \in Int /\ MaxWord \in Int /\ v \in Int /\ v <= MaxWord
  <2>1. first = s * Width(L, b) /\ width = Width(L, b)
    <3> HIDE DEF i
    <3> QED BY <1>1, <1>2, SlotBegins
  <2>2. Width(L, b) \in Nat \ {0} /\ s * Width(L, b) \in Nat
    BY <1>1, PlaceInWord
  <2> HIDE DEF first, width
  <2> QED BY <2>1, <2>2, Parameters
<1> HIDE DEF first, width
<1>6. first <= v /\ v <= first + width - 1
  BY <1>4, <1>5
<1>7. CASE v = MaxWord
  BY <1>4, <1>5, <1>6, <1>7 DEF HighestEquivalent
<1>8. CASE v # MaxWord
  <2>1. Min({first + width, MaxWord}) = IF first + width <= MaxWord THEN first + width ELSE MaxWord
    BY <1>5, MinOfTwo
  <2>2. HighestEquivalent(L, v) = Min({first + width, MaxWord}) - 1
    BY <1>4, <1>8 DEF HighestEquivalent, NextNonEquivalent
  <2> QED BY <1>4, <1>5, <1>6, <1>8, <2>1, <2>2
<1> QED BY <1>7, <1>8

\* What is above the highest equivalent of the last slot is out of range, or
\* u64::max_value().
LEMMA AboveTop ==
    ASSUME NEW g, Sound(g), NEW v \in Words, v > Top(g)
    PROVE  v >= g.high /\ v >= 2 * g.low /\ (InRange(g, v) => v = MaxWord)
<1> DEFINE L == g.lay
           n == LastIndex(g)
           x == ValueFor(L, n)
<1>1. /\ ValidLayout(L) /\ n \in DOMAIN g.counts /\ n = Bins(g) - 1 /\ Bins(g) \in Nat
      /\ DOMAIN g.counts = 0..(Bins(g) - 1) /\ g.high \in Words /\ g.low \in Nat
      /\ Top(g) \in Words /\ IndexFor(L, Top(g)) = n
      /\ MaxWord \in Nat /\ Words = 0..MaxWord
      /\ \A y \in Words, u \in Words : y <= u /\ InRange(g, u) => InRange(g, y)
  BY SoundFacts, TopFacts, Parameters
<1>2. x \in Words /\ IndexFor(L, x) = n
  <2> HIDE DEF n
  <2> QED BY <1>1, SlotValue
<1>3. Top(g) = HighestEquivalent(L, x)
  BY DEF Top
<1> HIDE DEF n, x
<1>4. ASSUME InRange(g, v) PROVE v = MaxWord
  <2> SUFFICES ASSUME v # MaxWord PROVE FALSE
    OBVIOUS
  <2>1. IndexFor(L, v) = n
    <3>1. IndexFor(L, v) \in 0..(Bins(g) - 1)
      BY <1>1, <1>4 DEF InRange
    <3>2. Top(g) <= v
      BY <1>1
    <3>3. n <= IndexFor(L, v)
      BY <1>1, <3>2, IndexMonotone
    <3> QED BY <1>1, <3>1, <3>3
  <2>2. v <= HighestEquivalent(L, v) /\ HighestEquivalent(L, v) \in Words
    BY <1>1, EquivalentsAround, HighestInSlot
  <2>3. x # MaxWord
    <3> SUFFICES ASSUME x = MaxWord PROVE FALSE
      OBVIOUS
    <3>1. HighestEquivalent(L, x) = MaxWord
      BY DEF HighestEquivalent
    <3> QED BY <1>1, <1>3, <3>1
  <2>4. HighestEquivalent(L, v) = HighestEquivalent(L, x)
    BY <1>1, <1>2, <2>1, <2>3, HighestInSlot
  <2> QED BY <1>1, <1>3, <2>2, <2>4
<1>5. InRange(g, g.high) /\ g.high >= 2 * g.low
  BY DEF Sound, Within
<1>6. v >= g.high
  <2> SUFFICES ASSUME v < g.high PROVE FALSE
    BY <1>1
  <2>1. v <= g.high
    BY <1>1
  <2>2. InRange(g, v)
    BY <1>1, <1>5, <2>1
  <2> QED BY <1>1, <1>4, <2>2
<1>7. v >= 2 * g.low
  BY <1>1, <1>5, <1>6
<1> QED BY <1>4, <1>6, <1>7

\* resize, and the range it is given.
Grown(g, v, high) ==
    [Resize(g, v) EXCEPT !.high = high]

\* A histogram that grows keeps its counts and its statistics.
LEMMA GrownFacts ==
    ASSUME NEW g, Sound(g), NEW v \in Words, v > Top(g), NEW high \in Words,
           high >= 2 * g.low, IndexFor(g.lay, high) < NumBins(g.lay, BucketsToCover(g.lay, v))
    PROVE  LET f == Grown(g, v, high)
           IN  /\ Sound(f) /\ (Exact(g) => Exact(f)) /\ (Full(g) => Full(f))
               /\ NonZero(f) = NonZero(g) /\ f.auto = g.auto /\ f.sigfig = g.sigfig
               /\ f.max = g.max /\ f.min = g.min /\ f.total = g.total
               /\ f.lay = g.lay /\ f.low = g.low /\ f.high = high
               /\ f.buckets = BucketsToCover(g.lay, v) /\ InRange(f, v)
               /\ \A i \in DOMAIN f.counts \ DOMAIN g.counts : f.counts[i] = 0
<1> DEFINE L == g.lay
           n == Bins(g)
           b == BucketsToCover(L, v)
           m == NumBins(L, b)
           c == Resized(g.counts, m)
           f == Grown(g, v, high)
<1>1. /\ g \in Histograms /\ ValidLayout(L) /\ n \in Nat \ {0} /\ CounterMax \in Nat \ {0}
      /\ g.counts \in [0..(n - 1) -> 0..CounterMax] /\ g.max \in Words /\ g.total \in Words
      /\ MaxWord \in Nat /\ Words = 0..MaxWord /\ DOMAIN g.counts = 0..(n - 1)
      /\ g.low \in Nat /\ g.high \in Words
  BY SoundFacts, Parameters
<1>2. m \in Nat \ {0} /\ IndexFor(L, v) \in 0..(m - 1)
  BY <1>1, Covered
<1>3. n <= m
  <2>1. Top(g) \in Words /\ IndexFor(L, Top(g)) = n - 1
    BY TopFacts
  <2>2. Top(g) <= v
    BY <1>1, <2>1
  <2>3. n - 1 <= IndexFor(L, v)
    BY <1>1, <2>1, <2>2, IndexMonotone
  <2> HIDE DEF n, m
  <2> QED BY <1>1, <1>2, <2>3
<1>4. b \in Nat
  BY <1>1, Untrackable
<1>5. Resize(g, v) = [g EXCEPT !.buckets = b, !.high = v, !.counts = c]
  BY Zenon DEF Resize
<1>6. c = [i \in 0..(m - 1) |-> IF i \in DOMAIN g.counts THEN g.counts[i] ELSE 0]
  BY Zenon DEF Resized
<1> HIDE DEF n, m, c, b
<1>7. /\ c \in [0..(m - 1) -> 0..CounterMax]
      /\ \A i \in 0..(m - 1) : c[i] = IF i < n THEN g.counts[i] ELSE 0
  <2>1. \A i \in 0..(m - 1) : i \in DOMAIN g.counts <=> i < n
    BY <1>1, <1>2
  <2>2. \A i \in 0..(m - 1) : c[i] = IF i < n THEN g.counts[i] ELSE 0
    BY <1>6, <2>1
  <2>3. \A i \in 0..(m - 1) : c[i] \in 0..CounterMax
    <3> TAKE i \in 0..(m - 1)
    <3>1. 0 \in 0..CounterMax
      BY <1>1
    <3>2. CASE i < n
      BY <1>1, <2>1, <2>2, <3>2
    <3>3. CASE ~(i < n)
      BY <2>2, <3>1, <3>3
    <3> QED BY <3>2, <3>3
  <2> QED BY <1>6, <2>2, <2>3
<1>8. f = [low |-> g.low, high |-> high, sigfig |-> g.sigfig, auto |-> g.auto, lay |-> L,
           buckets |-> b, max |-> g.max, min |-> g.min, total |-> g.total, counts |-> c]
  <2> DEFINE w1 == [g EXCEPT !.buckets = b]
             w2 == [w1 EXCEPT !.high = v]
             w3 == [w2 EXCEPT !.counts = c]
  <2>1. w1 = [low |-> g.low, high |-> g.high, sigfig |-> g.sigfig, auto |-> g.auto,
              lay |-> L, buckets |-> b, max |-> g.max, min |-> g.min,
              total |-> g.total, counts |-> g.counts]
    <3>1. g = With(g, g.counts, g.max, g.min, g.total)
      BY <1>1, WithItself
    <3>2. [With(g, g.counts, g.max, g.min, g.total) EXCEPT !.buckets = b]
            = [low |-> g.low, high |-> g.high, sigfig |-> g.sigfig, auto |-> g.auto,
               lay |-> L, buckets |-> b, max |-> g.max, min |-> g.min,
               total |-> g.total, counts |-> g.counts]
      BY DEF With
    <3> QED BY <3>1, <3>2, Zenon
  <2>2. w2 = [low |-> g.low, high |-> v, sigfig |-> g.sigfig, auto |-> g.auto,
              lay |-> L, buckets |-> b, max |-> g.max, min |-> g.min,
              total |-> g.total, counts |-> g.counts]
    <3> HIDE DEF w1
    <3> QED BY <2>1
  <2>3. w3 = [low |-> g.low, high |-> v, sigfig |-> g.sigfig, auto |-> g.auto,
              lay |-> L, buckets |-> b, max |-> g.max, min |-> g.min,
              total |-> g.total, counts |-> c]
    <3> HIDE DEF w2
    <3> QED BY <2>2
  <2>4. Resize(g, v) = w3
    BY <1>5
  <2>5. f = [w3 EXCEPT !.high = high]
    BY <2>4, Zenon DEF Grown
  <2> HIDE DEF w3, f
  <2> QED BY <2>3, <2>5
<1>9. c \in CountArrays
  BY <1>2, <1>7 DEF CountArrays
<1>10. f \in Histograms
  BY <1>1, <1>4, <1>8, <1>9 DEF Histograms
<1>11. /\ f.low = g.low /\ f.high = high /\ f.lay = L /\ f.buckets = b /\ f.max = g.max
       /\ f.min = g.min /\ f.total = g.total /\ f.counts = c
       /\ f.auto = g.auto /\ f.sigfig = g.sigfig
  BY <1>8
<1> HIDE DEF f
<1>12. Bins(f) = m /\ DOMAIN f.counts = 0..(m - 1)
  BY <1>7, <1>11 DEF Bins, m
<1>13. NonZero(f) = NonZero(g)
  <2> DEFINE e == g.counts
  <2>1. /\ NonZero(f) = {i \in 0..(m - 1) : c[i] # 0}
        /\ NonZero(g) = {i \in 0..(n - 1) : e[i] # 0}
    BY <1>1, <1>11, <1>12 DEF NonZero
  <2>2. \A i \in 0..(n - 1) : i \in 0..(m - 1) /\ i < n
    <3>1. n \in Nat /\ m \in Nat
      BY <1>1, <1>2
    <3> QED BY ONLY <1>3, <3>1
  <2>3. \A i \in 0..(m - 1) : c[i] = (IF i < n THEN e[i] ELSE 0) /\ (i < n => i \in 0..(n - 1))
    <3>1. n \in Nat /\ m \in Nat
      BY <1>1, <1>2
    <3>2. \A i \in 0..(m - 1) : i < n => i \in 0..(n - 1)
      BY ONLY <3>1
    <3> QED BY <1>7, <3>2
  <2> HIDE DEF e
  <2> QED BY <2>1, <2>2, <2>3
<1>14. SumCounts(f, NonZero(f)) = SumCounts(g, NonZero(g))
  <2>1. c \in [0..(m - 1) -> Nat] /\ g.counts \in [0..(n - 1) -> Nat]
    <3>1. c \in [0..(m - 1) -> Nat]
      BY <1>1, <1>7
    <3>2. g.counts \in [0..(n - 1) -> Nat]
      BY <1>1
    <3> QED BY <3>1, <3>2
  <2>2. Samples(c) = Samples(g.counts)
    <3> DEFINE e == g.counts
    <3>1. \A i \in 0..(m - 1) : c[i] = IF i < n THEN e[i] ELSE 0
      BY <1>7
    <3>2. e \in [0..(n - 1) -> Nat] /\ n \in Nat /\ m \in Nat
      BY <1>1, <1>2, <2>1
    <3>3. c \in [0..(m - 1) -> Nat]
      BY <2>1
    <3> HIDE DEF e
    <3>4. Samples(c) = Samples(e)
      BY ONLY <1>3, <3>1, <3>2, <3>3, SamplesBeyond
    <3> QED BY <3>4 DEF e
  <2>3. SumCounts(g, NonZero(g)) = Samples(g.counts)
    BY <1>1, <2>1, SamplesInUse
  <2>4. SumCounts(f, NonZero(f)) = Samples(f.counts)
    BY <1>2, <1>11, <2>1, SamplesInUse
  <2> QED BY <1>11, <2>2, <2>3, <2>4
<1>15. /\ g.low >= 1 /\ g.high >= 2 * g.low
       /\ InRange(g, g.max) /\ (\A i \in NonZero(g) : i <= IndexFor(L, g.max))
       /\ g.total >= Min({SumCounts(g, NonZero(g)), MaxWord}) /\ IndexFor(L, g.min) # 0
  BY DEF Sound, Within
<1>16. Sound(f)
  <2>1. high >= 2 * g.low
    OBVIOUS
  <2>2. InRange(f, f.high)
    <3>1. v \in Words /\ high \in Words /\ IndexFor(L, high) \in Nat
      BY <1>1, IndexMonotone
    <3>2. IndexFor(L, high) < m
      BY DEF m, b
    <3> QED BY <1>2, <1>11, <1>12, <3>1, <3>2 DEF InRange
  <2>3. InRange(f, f.max)
    BY <1>1, <1>2, <1>3, <1>11, <1>12, <1>15 DEF InRange
  <2>4. \A i \in NonZero(f) : i <= IndexFor(f.lay, f.max)
    BY <1>11, <1>13, <1>15
  <2>5. f.total >= Min({SumCounts(f, NonZero(f)), MaxWord})
    BY <1>11, <1>14, <1>15
  <2>6. \E x \in Words : f.buckets = BucketsToCover(f.lay, x)
    BY <1>11 DEF b
  <2>7. f.counts \in [0..(Bins(f) - 1) -> 0..CounterMax]
    BY <1>7, <1>11, <1>12
  <2> QED BY <1>10, <1>11, <1>15, <2>1, <2>2, <2>3, <2>4, <2>5, <2>6, <2>7 DEF Sound, Within
<1>17. Exact(g) => Exact(f)
  BY <1>11, <1>13, <1>14 DEF Exact
<1>18. Full(g) => Full(f)
  <2> SUFFICES ASSUME NEW i \in DOMAIN g.counts, g.counts[i] = CounterMax PROVE Full(f)
    BY DEF Full
  <2>1. i \in 0..(m - 1) /\ i < n
    <3>1. n \in Nat /\ m \in Nat /\ i \in 0..(n - 1)
      BY <1>1, <1>2
    <3> QED BY ONLY <1>3, <3>1
  <2>2. c[i] = CounterMax
    BY <1>7, <2>1
  <2> QED BY <1>11, <1>12, <2>1, <2>2 DEF Full
<1>19. InRange(f, v)
  BY <1>2, <1>11, <1>12 DEF InRange
<1>20. \A i \in DOMAIN f.counts \ DOMAIN g.counts : f.counts[i] = 0
  BY <1>1, <1>2, <1>7, <1>11, <1>12
<1> QED BY <1>11, <1>13, <1>16, <1>17, <1>18, <1>19, <1>20 DEF f, b

\* resize gives the range up to the value it is called with.
LEMMA ResizeIsGrown ==
    ASSUME NEW g \in Histograms, NEW v
    PROVE  Resize(g, v) = Grown(g, v, v)
<1> DEFINE b == BucketsToCover(g.lay, v)
           c == Resized(g.counts, NumBins(g.lay, b))
           w1 == [g EXCEPT !.buckets = b]
           w2 == [w1 EXCEPT !.high = v]
           w3 == [w2 EXCEPT !.counts = c]
<1>1. w1 = [low |-> g.low, high |-> g.high, sigfig |-> g.sigfig, auto |-> g.auto,
            lay |-> g.lay, buckets |-> b, max |-> g.max, min |-> g.min,
            total |-> g.total, counts |-> g.counts]
  <2>1. g = With(g, g.counts, g.max, g.min, g.total)
    BY WithItself
  <2> HIDE DEF b
  <2>2. [With(g, g.counts, g.max, g.min, g.total) EXCEPT !.buckets = b]
          = [low |-> g.low, high |-> g.high, sigfig |-> g.sigfig, auto |-> g.auto,
             lay |-> g.lay, buckets |-> b, max |-> g.max, min |-> g.min,
             total |-> g.total, counts |-> g.counts]
    BY DEF With
  <2> QED BY <2>1, <2>2, Zenon
<1>2. Resize(g, v) = w3
  <2>1. Resize(g, v) = [g EXCEPT !.buckets = b, !.high = v, !.counts = c]
    BY Zenon DEF Resize
  <2> HIDE DEF b, c
  <2> QED BY <2>1
<1> HIDE DEF b, c
<1>3. w2 = [low |-> g.low, high |-> v, sigfig |-> g.sigfig, auto |-> g.auto,
            lay |-> g.lay, buckets |-> b, max |-> g.max, min |-> g.min,
            total |-> g.total, counts |-> g.counts]
  <2> HIDE DEF w1
  <2> QED BY <1>1
<1>4. w3 = [low |-> g.low, high |-> v, sigfig |-> g.sigfig, auto |-> g.auto,
            lay |-> g.lay, buckets |-> b, max |-> g.max, min |-> g.min,
            total |-> g.total, counts |-> c]
  <2> HIDE DEF w2
  <2> QED BY <1>3
<1>5. Grown(g, v, v) = [w3 EXCEPT !.high = v]
  BY <1>2, Zenon DEF Grown
<1> HIDE DEF w3
<1>6. [w3 EXCEPT !.high = v] = w3
  BY <1>4
<1> QED BY <1>2, <1>5, <1>6

\* record_n_inner grows an auto histogram to a value that is out of its range, and
\* the value is in range then.
LEMMA AutoGrown ==
    ASSUME NEW g, Sound(g), NEW v \in Words, ~InRange(g, v)
    PROVE  LET g1 == Resize(g, v)
               g2 == [g1 EXCEPT !.high = Top(g1)]
           IN  /\ Sound(g2) /\ (Exact(g) => Exact(g2)) /\ (Full(g) => Full(g2))
               /\ InRange(g2, v) /\ CountAt(g2, v) = 0 /\ v >= 2 * g.low
<1> DEFINE g1 == Resize(g, v)
           g2 == [g1 EXCEPT !.high = Top(g1)]
           L == g.lay
           m == NumBins(L, BucketsToCover(L, v))
           top == Top(g1)
           i == IndexFor(L, v)
<1>1. /\ g \in Histograms /\ ValidLayout(L) /\ g.high \in Words /\ g.low \in Nat
      /\ Bins(g) \in Nat \ {0} /\ DOMAIN g.counts = 0..(Bins(g) - 1)
      /\ v > g.high /\ v > Top(g) /\ Top(g) \in Words /\ IndexFor(L, Top(g)) = Bins(g) - 1
      /\ InRange(g, g.high) /\ g.high >= 2 * g.low /\ IndexFor(L, v) \in Nat
      /\ MaxWord \in Nat /\ Words = 0..MaxWord
  BY SoundFacts, TopFacts, Parameters DEF Sound, Within
<1>2. v >= 2 * g.low
  BY <1>1
<1>3. m \in Nat \ {0} /\ i \in 0..(m - 1)
  BY <1>1, Covered
<1>4. g1 = Grown(g, v, v)
  BY <1>1, ResizeIsGrown
<1>5. /\ Sound(g1) /\ g1.lay = L /\ g1.low = g.low /\ g1.buckets = BucketsToCover(L, v)
      /\ InRange(g1, v)
  <2> HIDE DEF g1, m, i
  <2>1. i < m
    BY <1>3
  <2> QED BY <1>1, <1>2, <1>4, <2>1, GrownFacts DEF i, m
<1>6. Bins(g1) = m
  BY <1>5 DEF Bins
<1> HIDE DEF g1, m, i, L
<1>7. top \in Words /\ IndexFor(L, top) = m - 1
  <2>1. Top(g1) \in Words /\ IndexFor(g1.lay, Top(g1)) = Bins(g1) - 1
    BY <1>5, TopFacts
  <2> QED BY <1>5, <1>6, <2>1
<1> HIDE DEF top
<1>8. i >= Bins(g)
  <2>1. i \notin 0..(Bins(g) - 1)
    BY <1>1 DEF InRange, i, L
  <2> QED BY <1>1, <1>3, <2>1
<1>9. top >= 2 * g.low
  <2>1. g.high <= Top(g)
    <3> SUFFICES ASSUME g.high > Top(g) PROVE FALSE
      BY <1>1
    <3>1. g.high = MaxWord
      BY <1>1, AboveTop
    <3> QED BY <1>1, <3>1
  <2>2. Top(g) <= top
    <3> SUFFICES ASSUME top < Top(g) PROVE FALSE
      BY <1>1, <1>7
    <3>1. top <= Top(g)
      BY <1>1, <1>7
    <3>2. IndexFor(L, top) <= IndexFor(L, Top(g))
      BY <1>1, <1>7, <3>1, IndexMonotone
    <3> QED BY <1>1, <1>3, <1>7, <1>8, <3>2 DEF L
  <2> QED BY <1>1, <1>7, <2>1, <2>2
<1>10. g2 = Grown(g, v, top)
  BY Zenon DEF Grown, g1, top
<1>11. /\ Sound(g2) /\ (Exact(g) => Exact(g2)) /\ (Full(g) => Full(g2))
       /\ g2.lay = L /\ g2.buckets = BucketsToCover(L, v) /\ InRange(g2, v)
       /\ \A j \in DOMAIN g2.counts \ DOMAIN g.counts : g2.counts[j] = 0
  <2> HIDE DEF g2
  <2>1. IndexFor(g.lay, top) < NumBins(g.lay, BucketsToCover(g.lay, v))
    BY <1>3, <1>7 DEF L, m
  <2> QED BY <1>1, <1>7, <1>9, <1>10, <2>1, GrownFacts DEF L
<1> HIDE DEF g2
<1>12. CountAt(g2, v) = 0
  <2>1. LastIndex(g2) = m - 1
    <3>1. Bins(g2) = m
      BY <1>11 DEF Bins, m
    <3> QED BY <1>11, <3>1, TopFacts
  <2>2. Min({i, m - 1}) = i
    <3>1. Min({i, m - 1}) = IF i <= m - 1 THEN i ELSE m - 1
      <4>1. i \in Int /\ m - 1 \in Int
        BY <1>3
      <4> QED BY <4>1, MinOfTwo
    <3> QED BY <1>3, <3>1
  <2>3. CountAt(g2, v) = g2.counts[i]
    BY <1>11, <2>1, <2>2 DEF CountAt, IndexForOrLast, i
  <2>4. i \in DOMAIN g2.counts
    BY <1>11 DEF InRange, i
  <2>5. i \notin DOMAIN g.counts
    BY <1>1, <1>3, <1>8
  <2> QED BY <1>11, <2>3, <2>4, <2>5
<1> QED BY <1>2, <1>11, <1>12 DEF g1, g2, top

\* What a call leaves on a histogram n: it does not panic.
Errors == {"ValueOutOfRangeResizeDisabled", "OtherAddendValueExceedsRange",
           "SubtrahendValueExceedsMinuendRange", "SubtrahendCountExceedsMinuendCount"}
Results == [err : Errors \cup {"none"}, h : Histograms]
Left(n, S) == {r \in Results : Good(r.h, n, S)}

\* A sample in range is recorded.
LEMMA Counted ==
    ASSUME NEW g, NEW n, NEW S, Good(g, n, S), NEW v \in Words, InRange(g, v),
           NEW c \in 0..CounterMax, c # 0 \/ v = 0 \/ n \in S
    PROVE  LET r == Ok(Tally(Bump(g, v, c), v, c))
           IN  r \in Left(n, S) /\ r.err = "none" /\ SameRange(r.h, g)
<1> DEFINE h == Tally(Bump(g, v, c), v, c)
<1>1. Sound(g) /\ (n \in S \/ Exact(g) \/ Full(g))
  BY DEF Good
<1>2. Sound(h) /\ SameRange(h, g)
  <2> HIDE DEF h
  <2> QED BY <1>1, RecordSound DEF h
<1>3. n \in S \/ Exact(h) \/ Full(h)
  <2> SUFFICES ASSUME n \notin S PROVE Exact(h) \/ Full(h)
    OBVIOUS
  <2>1. (c # 0 \/ v = 0) /\ (Exact(g) \/ Full(g))
    BY <1>1
  <2> HIDE DEF h
  <2> QED BY <1>1, <2>1, RecordExact DEF h
<1> HIDE DEF h
<1>4. h \in Histograms
  BY <1>2 DEF Sound
<1>5. Ok(h) \in Results /\ Ok(h).h = h /\ Ok(h).err = "none"
  BY <1>4 DEF Results, Ok
<1>6. Good(h, n, S)
  BY <1>2, <1>3 DEF Good
<1>7. Ok(h) \in Left(n, S)
  BY <1>5, <1>6 DEF Left
<1> QED BY <1>2, <1>5, <1>7 DEF h

\* record_n_inner does not panic, fails only out of a fixed range, and leaves a
\* histogram that is good.
LEMMA Recorded ==
    ASSUME NEW g, NEW n, NEW S, Good(g, n, S), NEW v \in Words,
           NEW c \in 0..CounterMax, c # 0 \/ v = 0 \/ n \in S, NEW clamp \in BOOLEAN
    PROVE  LET r == RecordInner(g, v, c, clamp)
           IN  r \in Left(n, S) /\ (InRange(g, v) => r.err = "none" /\ SameRange(r.h, g))
<1> DEFINE r == RecordInner(g, v, c, clamp)
           g1 == Resize(g, v)
           g2 == [g1 EXCEPT !.high = Top(g1)]
<1>1. Sound(g) /\ (n \in S \/ Exact(g) \/ Full(g)) /\ g \in Histograms
  BY DEF Good, Sound
<1>2. CASE InRange(g, v)
  <2>1. r = Ok(Tally(Bump(g, v, c), v, c))
    BY <1>2, Zenon DEF RecordInner
  <2> HIDE DEF r
  <2> QED BY <1>2, <2>1, Counted DEF r
<1>3. ASSUME ~InRange(g, v) PROVE v # 0 /\ v > g.high
  <2>1. ValidLayout(g.lay) /\ DOMAIN g.counts = 0..(Bins(g) - 1) /\ Bins(g) \in Nat \ {0}
    BY <1>1, SoundFacts
  <2>2. v # 0
    BY <1>3, <2>1, IndexForZero DEF InRange
  <2> QED BY <1>1, <1>3, <2>2, TopFacts
<1>4. CASE ~InRange(g, v) /\ clamp
  <2> DEFINE u == IF v > g.high THEN g.high ELSE g.low
             r1 == Ok(Tally(Bump(g, g.high, c), g.high, c))
  <2>1. u = g.high
    BY <1>3, <1>4
  <2>2. InRange(g, g.high) /\ g.high \in Words
    BY <1>1, SoundFacts DEF Sound, Within
  <2>3. r = r1
    <3>1. r = IF InRange(g, u) THEN Ok(Tally(Bump(g, u, c), u, c)) ELSE Fail("panic", g)
      BY <1>4, Zenon DEF RecordInner
    <3> HIDE DEF u, r
    <3> QED BY <2>1, <2>2, <3>1
  <2>4. c # 0 \/ n \in S
    BY <1>3, <1>4
  <2> HIDE DEF r, r1
  <2>5. r1 \in Left(n, S)
    BY <2>2, <2>4, Counted DEF r1
  <2> QED BY <1>4, <2>3, <2>5 DEF r
<1>5. CASE ~InRange(g, v) /\ ~clamp /\ ~g.auto
  <2>1. r = Fail("ValueOutOfRangeResizeDisabled", g)
    BY <1>5, Zenon DEF RecordInner
  <2>2. Fail("ValueOutOfRangeResizeDisabled", g) \in Left(n, S)
    BY <1>1 DEF Left, Results, Errors, Fail
  <2> HIDE DEF r
  <2> QED BY <1>5, <2>1, <2>2 DEF r
<1>6. CASE ~InRange(g, v) /\ ~clamp /\ g.auto
  <2>1. /\ Sound(g2) /\ (Exact(g) => Exact(g2)) /\ (Full(g) => Full(g2))
        /\ InRange(g2, v) /\ CountAt(g2, v) = 0 /\ v >= 2 * g.low
    BY <1>1, <1>6, AutoGrown
  <2>2. CountAt(g2, v) + c <= CounterMax
    <3> HIDE DEF g2
    <3> QED BY <2>1, Parameters
  <2>3. r = IF v >= 2 * g.low /\ InRange(g2, v) /\ CountAt(g2, v) + c <= CounterMax
               THEN Ok(Tally(Bump(g2, v, c), v, c))
               ELSE Fail("panic", g2)
    BY <1>6, Zenon DEF RecordInner
  <2>4. r = Ok(Tally(Bump(g2, v, c), v, c))
    <3> HIDE DEF r, g2
    <3> QED BY <2>1, <2>2, <2>3
  <2>5. Good(g2, n, S)
    <3> HIDE DEF g2
    <3> QED BY <1>1, <2>1 DEF Good
  <2> HIDE DEF r, g2
  <2>6. r \in Left(n, S)
    BY <2>1, <2>4, <2>5, Counted
  <2> QED BY <1>6, <2>6 DEF r
<1> QED BY <1>2, <1>4, <1>5, <1>6

-----------------------------------------------------------------------------
(***************************************************************************)
(* Loops                                                                   *)
(***************************************************************************)
\* A fold over m elements takes the sets of positions apart from the last one: it
\* is the table T at all positions.  A table that starts in P and whose steps stay
\* in P ends in P.
LEMMA TableStays ==
    ASSUME NEW m \in Nat, NEW P, NEW T, T[{}] \in P,
           \A t \in SUBSET (1..m) : t # {} /\ T[t \ {Max(t)}] \in P => T[t] \in P
    PROVE  T[1..m] \in P
<1> DEFINE K == {k \in Nat : k <= m => T[1..k] \in P}
<1>1. 0 \in K
  <2>1. 1..0 = {}
    OBVIOUS
  <2> QED BY <2>1
<1>2. ASSUME NEW k \in Nat, k \in K PROVE k + 1 \in K
  <2> SUFFICES ASSUME k + 1 <= m PROVE T[1..(k + 1)] \in P
    OBVIOUS
  <2> DEFINE t == 1..(k + 1)
  <2>1. t \in SUBSET (1..m) /\ t # {} /\ t \subseteq 0..(k + 1) /\ k + 1 \in t /\ k + 1 \in Nat
    OBVIOUS
  <2>2. Max(t) = k + 1
    <3>1. Max(t) \in t /\ \A y \in t : y <= Max(t)
      <4> HIDE DEF t
      <4> QED BY <2>1, MaxOfNats
    <3>2. k + 1 <= Max(t) /\ Max(t) \in Nat /\ Max(t) <= k + 1
      BY <2>1, <3>1
    <3> QED BY <3>2
  <2>3. t \ {k + 1} = 1..k
    OBVIOUS
  <2>4. T[1..k] \in P
    BY <1>2
  <2> HIDE DEF t
  <2>5. T[t] \in P
    BY <2>1, <2>2, <2>3, <2>4
  <2> QED BY <2>5 DEF t
<1>3. Nat \subseteq K
  <2> HIDE DEF K
  <2> QED BY <1>1, <1>2, NatSetInduction
<1>4. m \in K /\ m <= m
  BY <1>3
<1> QED BY <1>4

\* The table of the steps that a function G gives.
Tabled(it, m, P, base, G) ==
    /\ it \in [SUBSET (1..m) -> P]
    /\ \A t \in SUBSET (1..m) :
         it[t] = IF t = {} THEN base ELSE G[<<it[t \ {Max(t)}], Max(t)>>]

\* There is such a table.
LEMMA TableExists ==
    ASSUME NEW m \in Nat, NEW P, NEW base \in P, NEW G, \A y \in P, k \in 1..m : G[<<y, k>>] \in P
    PROVE  \E it : Tabled(it, m, P, base, G)
<1> DEFINE S == 1..m
           ch == [t \in SUBSET S |-> Max(t)]
<1>1. \A t \in SUBSET S : t # {} => Max(t) \in t
  <2> TAKE t \in SUBSET S
  <2> HAVE t # {}
  <2>1. t \subseteq 0..m
    OBVIOUS
  <2> QED BY <2>1, MaxOfNats
<1>2. IsFiniteSet(S)
  <2>1. 1 \in Int /\ m \in Int
    OBVIOUS
  <2> QED BY <2>1, FS_Interval
<1> HIDE DEF S
<1>3. Chooses(ch, S)
  BY <1>1 DEF Chooses
<1>4. Stays(G, P, S)
  BY DEF Stays, S
<1>5. \A t \in SUBSET S : ch[t] = Max(t)
  OBVIOUS
<1> HIDE DEF ch
<1>6. PICK it : Folds(it, S, ch, P, base, G)
  BY <1>2, <1>3, <1>4, FoldExists
<1>7. /\ it \in [SUBSET S -> P]
      /\ \A t \in SUBSET S : it[t] = IF t = {} THEN base ELSE G[<<it[t \ {Max(t)}], Max(t)>>]
  BY <1>5, <1>6 DEF Folds
<1> QED BY <1>7 DEF S, Tabled

\* The last position.
LEMMA LastPosition ==
    ASSUME NEW m \in Nat, NEW t \in SUBSET (1..m), t # {}
    PROVE  Max(t) \in 1..m /\ t \ {Max(t)} \in SUBSET (1..m)
<1>1. t \subseteq 0..m
  OBVIOUS
<1>2. Max(t) \in t
  BY <1>1, MaxOfNats
<1> QED BY <1>2

-----------------------------------------------------------------------------
(***************************************************************************)
(* record_n_correct                                                        *)
(***************************************************************************)
\* The table of the loop over the missing values.
RecordTable(base, s, c) ==
    CHOOSE it : it = [t \in SUBSET (DOMAIN s) |-> IF t = {} THEN base
                                                ELSE RecordAll(it[t \ {Max(t)}], s[Max(t)], c)]

\* The loop is its table.
LEMMA RecordFold ==
    ASSUME NEW base, NEW s, NEW c
    PROVE  FoldLeft(LAMBDA res, u : RecordAll(res, u, c), base, s) = RecordTable(base, s, c)[DOMAIN s]
  BY Zenon DEF FoldLeft, MapThenFoldSet, RecordTable

\* Samples recorded one after another.
LEMMA RecordLoop ==
    ASSUME NEW n, NEW S, NEW base \in Left(n, S), NEW c \in 1..CounterMax,
           NEW m \in Nat, NEW s, DOMAIN s = 1..m, \A k \in 1..m : s[k] \in Words
    PROVE  FoldLeft(LAMBDA res, u : RecordAll(res, u, c), base, s) \in Left(n, S)
<1> DEFINE P == Left(n, S)
           D == 1..m
           G == [z \in P \X D |-> RecordAll(z[1], s[z[2]], c)]
           Step(it, t) == IF t = {} THEN base ELSE RecordAll(it[t \ {Max(t)}], s[Max(t)], c)
           Eq(it) == it = [t \in SUBSET D |-> IF t = {} THEN base
                                              ELSE RecordAll(it[t \ {Max(t)}], s[Max(t)], c)]
           T == RecordTable(base, s, c)
<1>1. ASSUME NEW y \in P, NEW k \in D PROVE RecordAll(y, s[k], c) \in P
  <2>1. CASE y.err = "none"
    <3>1. RecordAll(y, s[k], c) = RecordInner(y.h, s[k], c, FALSE)
      BY <2>1 DEF RecordAll
    <3>2. Good(y.h, n, S)
      BY DEF Left
    <3>3. c \in 0..CounterMax /\ c # 0 /\ FALSE \in BOOLEAN /\ s[k] \in Words
      BY Parameters
    <3>4. RecordInner(y.h, s[k], c, FALSE) \in Left(n, S)
      BY <3>2, <3>3, Recorded
    <3> QED BY <3>1, <3>4
  <2>2. CASE y.err # "none"
    BY <2>2 DEF RecordAll
  <2> QED BY <2>1, <2>2
<1> HIDE DEF P
<1>2. \A y \in P, k \in D : G[<<y, k>>] = RecordAll(y, s[k], c) /\ G[<<y, k>>] \in P
  BY <1>1
<1>3. base \in P
  BY DEF P
<1> HIDE DEF G
<1>4. PICK it \in [SUBSET D -> P] : \A t \in SUBSET D :
        it[t] = IF t = {} THEN base ELSE G[<<it[t \ {Max(t)}], Max(t)>>]
  <2>1. \A y \in P, k \in 1..m : G[<<y, k>>] \in P
    BY <1>2
  <2>2. PICK it : Tabled(it, m, P, base, G)
    BY <1>3, <2>1, TableExists, Zenon
  <2> QED BY <2>2 DEF Tabled
<1>5. \A t \in SUBSET D : t # {} => Max(t) \in D /\ t \ {Max(t)} \in SUBSET D
  BY LastPosition
<1>6. Eq(it)
  <2>1. \A t \in SUBSET D : it[t] = Step(it, t)
    <3> TAKE t \in SUBSET D
    <3>1. CASE t = {}
      BY <1>4, <3>1
    <3>2. CASE t # {}
      <4>1. Max(t) \in D /\ it[t \ {Max(t)}] \in P
        BY <1>5, <3>2
      <4>2. it[t] = G[<<it[t \ {Max(t)}], Max(t)>>]
        BY <1>4, <3>2
      <4> QED BY <1>2, <3>2, <4>1, <4>2
    <3> QED BY <3>1, <3>2
  <2> QED BY <2>1
<1>7. Eq(T)
  <2> HIDE DEF Eq
  <2>1. T = CHOOSE jt : Eq(jt)
    BY Zenon DEF RecordTable, Eq
  <2> QED BY <1>6, <2>1
<1> HIDE DEF T
<1>8. \A t \in SUBSET D : T[t] = Step(T, t)
  BY <1>7
<1>9. T[D] \in P
  <2>1. T[{}] \in P
    BY <1>3, <1>8
  <2>2. ASSUME NEW t \in SUBSET D, t # {}, T[t \ {Max(t)}] \in P PROVE T[t] \in P
    <3>1. T[t] = RecordAll(T[t \ {Max(t)}], s[Max(t)], c) /\ Max(t) \in D
      BY <1>5, <1>8, <2>2
    <3> QED BY <1>1, <2>2, <3>1
  <2> HIDE DEF Step, Eq
  <2> QED BY <2>1, <2>2, TableStays
<1>10. FoldLeft(LAMBDA res, u : RecordAll(res, u, c), base, s) = T[D]
  BY RecordFold DEF T
<1> QED BY <1>9, <1>10 DEF P

\* record_n_correct does not panic.
LEMMA CorrectRecorded ==
    ASSUME NEW g, NEW n, NEW S, Good(g, n, S), NEW v \in Words,
           NEW c \in 1..CounterMax, NEW interval \in Words
    PROVE  RecordCorrect(g, v, c, interval) \in Left(n, S)
<1> DEFINE missing == IF interval = 0 \/ v <= interval THEN <<>>
                      ELSE [k \in 1..(v \div interval - 1) |-> v - k * interval]
           base == RecordInner(g, v, c, FALSE)
<1>1. base \in Left(n, S)
  <2>1. c \in 0..CounterMax /\ c # 0 /\ FALSE \in BOOLEAN
    BY Parameters
  <2> QED BY <2>1, Recorded
<1>2. \E m \in Nat : DOMAIN missing = 1..m /\ \A k \in 1..m : missing[k] \in Words
  <2>1. CASE interval = 0 \/ v <= interval
    <3>1. missing = <<>> /\ 1..0 = {} /\ 0 \in Nat
      BY <2>1
    <3>2. DOMAIN missing = 1..0 /\ \A k \in 1..0 : missing[k] \in Words
      BY <3>1
    <3> QED BY <3>1, <3>2
  <2>2. CASE ~(interval = 0 \/ v <= interval)
    <3> DEFINE q == v \div interval
               m == q - 1
    <3>1. v \in Nat /\ interval \in Nat \ {0} /\ v <= MaxWord /\ MaxWord \in Nat
          /\ Words = 0..MaxWord /\ interval < v
      BY <2>2, Parameters
    <3>2. q \in Nat /\ q * interval <= v /\ v < q * interval + interval
      BY <3>1, DivFacts
    <3> HIDE DEF q
    <3>3. q # 0
      BY <3>1, <3>2
    <3>4. m \in Nat
      BY <3>2, <3>3
    <3>5. missing = [k \in 1..m |-> v - k * interval]
      BY <2>2 DEF q
    <3>6. ASSUME NEW k \in 1..m PROVE v - k * interval \in Words
      <4>1. k \in Nat /\ k <= q
        BY <3>2, <3>4
      <4>2. k * interval <= q * interval
        BY <3>1, <3>2, <4>1, MulMono
      <4> DEFINE x == k * interval
                 y == q * interval
      <4>3. x \in Nat /\ y \in Nat /\ x <= y /\ y <= v
        BY <3>1, <3>2, <4>1, <4>2
      <4> HIDE DEF x, y
      <4>4. v - x \in 0..MaxWord
        BY <3>1, <4>3
      <4> QED BY <3>1, <4>4 DEF x
    <3> HIDE DEF missing, m
    <3>7. DOMAIN missing = 1..m /\ \A k \in 1..m : missing[k] \in Words
      BY <3>5, <3>6
    <3> QED BY <3>4, <3>7
  <2> QED BY <2>1, <2>2
<1>3. RecordCorrect(g, v, c, interval) = FoldLeft(LAMBDA res, u : RecordAll(res, u, c), base, missing)
  BY Zenon DEF RecordCorrect
<1> HIDE DEF missing, base
<1> QED BY <1>1, <1>2, <1>3, RecordLoop

-----------------------------------------------------------------------------
(***************************************************************************)
(* Adding by value                                                         *)
(***************************************************************************)
\* Histograms of the same range have the same slots.
LEMMA SameSlots ==
    ASSUME NEW f, Sound(f), NEW g, Sound(g), SameRange(f, g)
    PROVE  /\ DOMAIN f.counts = DOMAIN g.counts /\ Bins(f) = Bins(g)
           /\ \A v : InRange(f, v) <=> InRange(g, v)
<1>1. Bins(f) = Bins(g) /\ f.lay = g.lay
  BY DEF SameRange, Bins
<1>2. DOMAIN f.counts = 0..(Bins(f) - 1) /\ DOMAIN g.counts = 0..(Bins(g) - 1)
  BY SoundFacts
<1> QED BY <1>1, <1>2 DEF InRange

\* max() is in the slot of max_value, above all that was recorded.
LEMMA MaxOfFacts ==
    ASSUME NEW g, Sound(g)
    PROVE  /\ MaxOf(g) \in Words /\ g.max <= MaxOf(g)
           /\ IndexFor(g.lay, MaxOf(g)) = IndexFor(g.lay, g.max)
           /\ InRange(g, MaxOf(g)) /\ IndexFor(g.lay, MaxOf(g)) \in DOMAIN g.counts
           /\ \A i \in DOMAIN g.counts : i <= IndexFor(g.lay, g.max) =>
                ValueFor(g.lay, i) \in Words /\ ValueFor(g.lay, i) <= MaxOf(g)
           /\ \A i \in NonZero(g) : ValueFor(g.lay, i) \in Words /\ ValueFor(g.lay, i) <= MaxOf(g)
<1>1. ValidLayout(g.lay) /\ g.max \in Words
  BY SoundFacts
<1>2. MaxOf(g) \in Words /\ g.max <= MaxOf(g) /\ IndexFor(g.lay, MaxOf(g)) = IndexFor(g.lay, g.max)
  <2>1. CASE g.max = ORIGINAL_MAX
    <3>1. MaxOf(g) = g.max
      BY <2>1 DEF MaxOf
    <3>2. g.max <= g.max
      BY <1>1, Parameters
    <3> QED BY <1>1, <3>1, <3>2
  <2>2. CASE g.max # ORIGINAL_MAX
    <3>1. MaxOf(g) = HighestEquivalent(g.lay, g.max)
      BY <2>2 DEF MaxOf
    <3>2. HighestEquivalent(g.lay, g.max) \in Words
          /\ IndexFor(g.lay, HighestEquivalent(g.lay, g.max)) = IndexFor(g.lay, g.max)
      BY <1>1, HighestInSlot
    <3>3. g.max <= HighestEquivalent(g.lay, g.max)
      BY <1>1, EquivalentsAround
    <3> QED BY <3>1, <3>2, <3>3
  <2> QED BY <2>1, <2>2
<1>3. InRange(g, g.max) /\ \A i \in NonZero(g) : i \in DOMAIN g.counts /\ i <= IndexFor(g.lay, g.max)
  BY DEF Sound, Within, NonZero
<1>4. InRange(g, MaxOf(g)) /\ IndexFor(g.lay, MaxOf(g)) \in DOMAIN g.counts
  BY <1>2, <1>3 DEF InRange
<1>5. ASSUME NEW i \in DOMAIN g.counts, i <= IndexFor(g.lay, g.max)
      PROVE  ValueFor(g.lay, i) \in Words /\ ValueFor(g.lay, i) <= MaxOf(g)
  BY <1>2, <1>5, SlotValue
<1> QED BY <1>2, <1>3, <1>4, <1>5

\* What was recorded below the maximum, slot by slot.
RecordSlot(r, s, i) ==
    IF i < IndexFor(s.lay, MaxOf(s)) /\ s.counts[i] # 0
      THEN RecordAll(r, ValueFor(s.lay, i), s.counts[i]) ELSE r

\* The table of this loop.
SlotTable(base, s) ==
    CHOOSE it : it = [t \in SUBSET (DOMAIN IndexSeq(s)) |->
                        IF t = {} THEN base ELSE RecordSlot(it[t \ {Max(t)}], s, IndexSeq(s)[Max(t)])]

\* The loop is its table.
LEMMA SlotFold ==
    ASSUME NEW base, NEW s
    PROVE  FoldLeft(LAMBDA r, i : IF i < IndexFor(s.lay, MaxOf(s)) /\ s.counts[i] # 0
                                    THEN RecordAll(r, ValueFor(s.lay, i), s.counts[i]) ELSE r,
                    base, IndexSeq(s)) = SlotTable(base, s)[DOMAIN IndexSeq(s)]
  BY Zenon DEF FoldLeft, MapThenFoldSet, SlotTable, RecordSlot

\* The indexes of a histogram.
LEMMA IndexesFacts ==
    ASSUME NEW s, Sound(s)
    PROVE  /\ DOMAIN IndexSeq(s) = 1..Bins(s) /\ Bins(s) \in Nat
           /\ \A k \in 1..Bins(s) : IndexSeq(s)[k] \in DOMAIN s.counts
<1>1. Bins(s) \in Nat /\ DistinctValues(s) = Bins(s) /\ DOMAIN s.counts = 0..(Bins(s) - 1)
  BY SoundFacts
<1>2. IndexSeq(s) = [k \in 1..Bins(s) |-> k - 1]
  BY <1>1 DEF IndexSeq
<1> DEFINE n == Bins(s)
           q == IndexSeq(s)
<1> HIDE DEF n, q
<1>3. DOMAIN q = 1..n /\ \A k \in 1..n : q[k] = k - 1
  BY <1>2 DEF n, q
<1>4. n \in Nat
  BY <1>1 DEF n
<1>5. \A k \in 1..n : q[k] \in 0..(n - 1)
  BY <1>3, <1>4
<1> QED BY <1>1, <1>3, <1>5 DEF n, q

\* The loop of add over the values below the maximum: no call in it fails.
LEMMA SlotLoop ==
    ASSUME NEW n, NEW S, NEW s, Sound(s), NEW base \in Left(n, S), base.err = "none",
           InRange(base.h, MaxOf(s))
    PROVE  LET r == SlotTable(base, s)[DOMAIN IndexSeq(s)] IN r \in Left(n, S) /\ r.err = "none"
<1> DEFINE P == {r \in Left(n, S) : r.err = "none" /\ InRange(r.h, MaxOf(s))}
           m == Bins(s)
           D == 1..m
           q == IndexSeq(s)
           G == [z \in P \X D |-> RecordSlot(z[1], s, q[z[2]])]
           Step(it, t) == IF t = {} THEN base ELSE RecordSlot(it[t \ {Max(t)}], s, q[Max(t)])
           Eq(it) == it = [t \in SUBSET D |-> IF t = {} THEN base
                                              ELSE RecordSlot(it[t \ {Max(t)}], s, q[Max(t)])]
           T == SlotTable(base, s)
<1>1. m \in Nat /\ DOMAIN q = D /\ \A k \in D : q[k] \in DOMAIN s.counts
  BY IndexesFacts
<1>2. ASSUME NEW y \in P, NEW i \in DOMAIN s.counts PROVE RecordSlot(y, s, i) \in P
  <2>1. CASE i < IndexFor(s.lay, MaxOf(s)) /\ s.counts[i] # 0
    <3> DEFINE v == ValueFor(s.lay, i)
               c == s.counts[i]
               r == RecordInner(y.h, v, c, FALSE)
    <3>1. y \in Left(n, S) /\ y.err = "none" /\ InRange(y.h, MaxOf(s)) /\ Good(y.h, n, S)
          /\ Sound(y.h)
      BY DEF Left, Good
    <3>2. RecordSlot(y, s, i) = r
      BY <2>1, <3>1, Zenon DEF RecordSlot, RecordAll
    <3>3. c \in 0..CounterMax /\ c # 0 /\ FALSE \in BOOLEAN
      <4>1. s.counts \in [0..(Bins(s) - 1) -> 0..CounterMax] /\ DOMAIN s.counts = 0..(Bins(s) - 1)
        BY SoundFacts
      <4> QED BY <2>1, <4>1
    <3>4. i \in NonZero(s)
      BY <2>1 DEF NonZero
    <3>5. v \in Words /\ v <= MaxOf(s) /\ MaxOf(s) \in Words
      BY <3>4, MaxOfFacts
    <3> HIDE DEF v, c, r
    <3>6. InRange(y.h, v)
      BY <3>1, <3>5, TopFacts
    <3>7. r \in Left(n, S) /\ r.err = "none" /\ SameRange(r.h, y.h)
      BY <3>1, <3>3, <3>5, <3>6, Recorded DEF r
    <3>8. Sound(r.h)
      BY <3>7 DEF Left, Good
    <3>9. InRange(r.h, MaxOf(s))
      BY <3>1, <3>7, <3>8, SameSlots
    <3> QED BY <3>2, <3>7, <3>9
  <2>2. CASE ~(i < IndexFor(s.lay, MaxOf(s)) /\ s.counts[i] # 0)
    BY <2>2, Zenon DEF RecordSlot
  <2> QED BY <2>1, <2>2
<1>3. base \in P
  OBVIOUS
<1> HIDE DEF P, m, q
<1>4. \A y \in P, k \in D : G[<<y, k>>] = RecordSlot(y, s, q[k]) /\ G[<<y, k>>] \in P
  BY <1>1, <1>2
<1> HIDE DEF G
<1>5. PICK it \in [SUBSET D -> P] : \A t \in SUBSET D :
        it[t] = IF t = {} THEN base ELSE G[<<it[t \ {Max(t)}], Max(t)>>]
  <2>1. \A y \in P, k \in 1..m : G[<<y, k>>] \in P
    BY <1>4
  <2>2. PICK it : Tabled(it, m, P, base, G)
    BY <1>1, <1>3, <2>1, TableExists, Zenon
  <2> QED BY <2>2 DEF Tabled
<1>6. \A t \in SUBSET D : t # {} => Max(t) \in D /\ t \ {Max(t)} \in SUBSET D
  BY <1>1, LastPosition
<1>7. Eq(it)
  <2>1. \A t \in SUBSET D : it[t] = Step(it, t)
    <3> TAKE t \in SUBSET D
    <3>1. CASE t = {}
      BY <1>5, <3>1
    <3>2. CASE t # {}
      <4>1. Max(t) \in D /\ it[t \ {Max(t)}] \in P
        BY <1>6, <3>2
      <4>2. it[t] = G[<<it[t \ {Max(t)}], Max(t)>>]
        BY <1>5, <3>2
      <4> QED BY <1>4, <3>2, <4>1, <4>2
    <3> QED BY <3>1, <3>2
  <2> QED BY <2>1
<1>8. Eq(T)
  <2>1. T = CHOOSE jt : Eq(jt)
    BY <1>1, Zenon DEF SlotTable, q
  <2> HIDE DEF Eq
  <2> QED BY <1>7, <2>1
<1> HIDE DEF T
<1>9. \A t \in SUBSET D : T[t] = Step(T, t)
  BY <1>8
<1>10. T[D] \in P
  <2>1. T[{}] \in P
    BY <1>3, <1>9
  <2>2. ASSUME NEW t \in SUBSET D, t # {}, T[t \ {Max(t)}] \in P PROVE T[t] \in P
    <3>1. T[t] = RecordSlot(T[t \ {Max(t)}], s, q[Max(t)]) /\ Max(t) \in D
      BY <1>6, <1>9, <2>2
    <3> QED BY <1>1, <1>2, <2>2, <3>1
  <2> HIDE DEF Step, Eq
  <2> QED BY <1>1, <2>1, <2>2, TableStays
<1> QED BY <1>1, <1>10 DEF P, q, T

\* The other way to add: when the range is wide enough, every value is recorded.
LEMMA AddedByValue ==
    ASSUME NEW g, NEW n, NEW S, Good(g, n, S), NEW s, Sound(s), n \in S \/ Exact(s),
           InRange(g, MaxOf(s))
    PROVE  AddByValue(g, s) \in Left(n, S) /\ AddByValue(g, s).err = "none"
<1> DEFINE top == IndexFor(s.lay, MaxOf(s))
           v == ValueFor(s.lay, top)
           c == s.counts[top]
           base == RecordInner(g, v, c, FALSE)
           res == SlotTable(base, s)[DOMAIN IndexSeq(s)]
<1>1. Sound(g)
  BY DEF Good
<1>2. /\ MaxOf(s) \in Words /\ top = IndexFor(s.lay, s.max) /\ top \in DOMAIN s.counts
      /\ v \in Words /\ v <= MaxOf(s)
  <2>1. /\ MaxOf(s) \in Words /\ top = IndexFor(s.lay, s.max) /\ top \in DOMAIN s.counts
        /\ \A i \in DOMAIN s.counts : i <= IndexFor(s.lay, s.max) =>
                ValueFor(s.lay, i) \in Words /\ ValueFor(s.lay, i) <= MaxOf(s)
    BY MaxOfFacts
  <2>2. DOMAIN s.counts = 0..(Bins(s) - 1) /\ Bins(s) \in Nat
    BY SoundFacts
  <2> HIDE DEF top
  <2>3. top <= top
    BY <2>1, <2>2
  <2> QED BY <2>1, <2>3
<1>3. c \in 0..CounterMax
  <2>1. s.counts \in [0..(Bins(s) - 1) -> 0..CounterMax] /\ DOMAIN s.counts = 0..(Bins(s) - 1)
    BY SoundFacts
  <2> HIDE DEF top
  <2> QED BY <1>2, <2>1
<1>4. c # 0 \/ v = 0 \/ n \in S
  <2> SUFFICES ASSUME n \notin S, c = 0 PROVE v = 0
    OBVIOUS
  <2>1. top \notin NonZero(s)
    BY DEF NonZero
  <2>2. top = 0
    BY <1>2, <2>1 DEF Exact
  <2>3. ValidLayout(s.lay) /\ 0 \in Words
    BY SoundFacts, Parameters
  <2>4. 0 <= IndexFor(s.lay, 0) /\ 0 \in DOMAIN s.counts
    BY <1>2, <2>2, <2>3, IndexForZero
  <2>5. ValueFor(s.lay, 0) <= 0 /\ ValueFor(s.lay, 0) \in Words
    BY <2>3, <2>4, SlotValue
  <2>6. ValueFor(s.lay, 0) = 0
    BY <2>5, Parameters
  <2> HIDE DEF top
  <2> QED BY <2>2, <2>6
<1> HIDE DEF v, c
<1>5. InRange(g, v)
  BY <1>1, <1>2, TopFacts
<1>6. base \in Left(n, S) /\ base.err = "none" /\ SameRange(base.h, g)
  <2>1. FALSE \in BOOLEAN /\ v \in Words
    BY <1>2
  <2> HIDE DEF top
  <2>2. base \in Left(n, S) /\ (InRange(g, v) => base.err = "none" /\ SameRange(base.h, g))
    BY <1>3, <1>4, <2>1, Recorded, Zenon
  <2> QED BY <1>5, <2>2
<1> HIDE DEF base
<1>7. InRange(base.h, MaxOf(s))
  <2>1. Sound(base.h)
    BY <1>6 DEF Left, Good
  <2> QED BY <1>1, <1>6, <2>1, SameSlots
<1>8. res \in Left(n, S) /\ res.err = "none"
  BY <1>6, <1>7, SlotLoop
<1>9. AddByValue(g, s) = IF res.err = "none" THEN res ELSE Fail("panic", res.h)
  <2> DEFINE r == FoldLeft(LAMBDA y, i : IF i < top /\ s.counts[i] # 0
                                    THEN RecordAll(y, ValueFor(s.lay, i), s.counts[i]) ELSE y,
                           base, IndexSeq(s))
             r1 == IF top \in DOMAIN s.counts THEN r ELSE Fail("panic", g)
  <2>1. AddByValue(g, s) = IF r1.err = "none" THEN r1 ELSE Fail("panic", r1.h)
    BY Zenon DEF AddByValue, base, v, c
  <2>2. r = res
    BY SlotFold
  <2> HIDE DEF r, res
  <2>3. r1 = res
    BY <1>2, <2>2
  <2> QED BY <2>1, <2>3
<1> HIDE DEF res
<1> QED BY <1>8, <1>9

-----------------------------------------------------------------------------
(***************************************************************************)
(* Adding slot by slot                                                     *)
(***************************************************************************)
\* min_nz() is in the slot of min_non_zero_value, which is not slot 0.
LEMMA MinNzFacts ==
    ASSUME NEW g, Sound(g)
    PROVE  /\ MinNz(g) \in Words /\ MinNz(g) <= g.min
           /\ IndexFor(g.lay, MinNz(g)) = IndexFor(g.lay, g.min)
           /\ IndexFor(g.lay, g.min) # 0 /\ ~(MinNz(g) <= UnitMask(g.lay))
           /\ g.min = ORIGINAL_MIN => MinNz(g) = ORIGINAL_MIN
<1>1. ValidLayout(g.lay) /\ g.min \in Words /\ IndexFor(g.lay, g.min) # 0
  BY SoundFacts DEF Sound, Within
<1>2. MinNz(g) \in Words /\ MinNz(g) <= g.min /\ IndexFor(g.lay, MinNz(g)) = IndexFor(g.lay, g.min)
  <2>1. CASE g.min = ORIGINAL_MIN
    <3>1. MinNz(g) = g.min
      BY <2>1 DEF MinNz
    <3>2. g.min <= g.min
      BY <1>1, Parameters
    <3> QED BY <1>1, <3>1, <3>2
  <2>2. CASE g.min # ORIGINAL_MIN
    <3>1. MinNz(g) = LowestEquivalent(g.lay, g.min)
      BY <2>2 DEF MinNz
    <3>2. LowestEquivalent(g.lay, g.min) \in Words
          /\ IndexFor(g.lay, LowestEquivalent(g.lay, g.min)) = IndexFor(g.lay, g.min)
      BY <1>1, HighestInSlot
    <3>3. LowestEquivalent(g.lay, g.min) <= g.min
      BY <1>1, EquivalentsAround
    <3> QED BY <3>1, <3>2, <3>3
  <2> QED BY <2>1, <2>2
<1>3. ~(MinNz(g) <= UnitMask(g.lay))
  BY <1>1, <1>2, SlotZero
<1>4. g.min = ORIGINAL_MIN => MinNz(g) = ORIGINAL_MIN
  BY DEF MinNz
<1> QED BY <1>1, <1>2, <1>3, <1>4

\* What add leaves of two histograms with the same slots.
MergedCounts(g, s) ==
    [i \in DOMAIN g.counts |-> IF i \in DOMAIN s.counts
                                 THEN SatAdd(g.counts[i], s.counts[i], CounterMax)
                                 ELSE g.counts[i]]
MergedMax(g, s) == IF MaxOf(s) > MaxOf(g) THEN OrUnitMask(g, MaxOf(s)) ELSE g.max
MergedMin(g, s) == IF MinNz(s) < MinNz(g) THEN AndNotUnitMask(g, MinNz(s)) ELSE g.min
MergedTotal(g, s) == SatAdd(g.total, Min({SumCounts(s, NonZero(s)), MaxWord}), MaxWord)
Merged(g, s) ==
    With(g, MergedCounts(g, s), MergedMax(g, s), MergedMin(g, s), MergedTotal(g, s))

\* add, in this case.
LEMMA MergedFields ==
    ASSUME NEW g, Sound(g), NEW s, Sound(s), SameGeometry(g, s)
    PROVE  AddDirect(g, s) = Ok(Merged(g, s))
<1> DEFINE c == MergedCounts(g, s)
           t == MergedTotal(g, s)
           w == With(g, g.counts, g.max, g.min, g.total)
           w1 == With(g, c, g.max, g.min, t)
           w2 == With(g, c, MergedMax(g, s), g.min, t)
           w3 == Merged(g, s)
           g1 == [g EXCEPT !.counts = c, !.total = SatAdd(@, Min({SumCounts(s, NonZero(s)), MaxWord}), MaxWord)]
           g2 == IF MaxOf(s) > MaxOf(g1) THEN UpdateMax(g1, MaxOf(s)) ELSE g1
           g3 == IF MinNz(s) < MinNz(g2) THEN UpdateMin(g2, MinNz(s)) ELSE g2
<1>1. /\ g \in Histograms /\ ValidLayout(g.lay) /\ s.lay = g.lay /\ g.max \in Words /\ g.min \in Words
      /\ DOMAIN s.counts = DOMAIN g.counts
  <2>1. s.lay = g.lay /\ Bins(s) = Bins(g)
    BY DEF SameGeometry, Bins
  <2> QED BY <2>1, SoundFacts
<1>2. NonZero(s) \subseteq DOMAIN g.counts
  BY <1>1 DEF NonZero
<1>3. g1 = w1
  <2>1. g = w
    BY <1>1, WithItself
  <2>2. g1 = [[g EXCEPT !.counts = c] EXCEPT !.total = t]
    BY DEF MergedTotal
  <2>3. [w EXCEPT !.counts = c] = With(g, c, g.max, g.min, g.total)
    BY WithChanged
  <2> HIDE DEF c, t
  <2>4. [With(g, c, g.max, g.min, g.total) EXCEPT !.total = t] = w1
    BY DEF With
  <2> HIDE DEF w, w1, g1
  <2> QED BY <2>1, <2>2, <2>3, <2>4
<1>4. MaxOf(w1) = MaxOf(g)
  <2>1. w1.max = g.max /\ w1.lay = g.lay
    BY WithFields DEF SameRange
  <2> HIDE DEF w1
  <2> QED BY <2>1 DEF MaxOf
<1>5. g2 = w2
  <2>1. CASE MaxOf(s) > MaxOf(g)
    <3>1. MaxOf(s) \in Words /\ MaxOf(g) \in Words /\ g.max <= MaxOf(g)
      BY MaxOfFacts
    <3>2. MaxOf(s) <= OrUnitMask(g, MaxOf(s)) /\ OrUnitMask(g, MaxOf(s)) \in Words
      BY <1>1, <3>1, UnitBits
    <3>3. g.max <= OrUnitMask(g, MaxOf(s))
      BY <1>1, <2>1, <3>1, <3>2, Parameters
    <3> HIDE DEF c, t
    <3>4. UpdateMax(w1, MaxOf(s)) = With(g, c, OrUnitMask(g, MaxOf(s)), g.min, t)
      BY <1>1, <3>1, <3>3, MaxUpdated
    <3>5. MergedMax(g, s) = OrUnitMask(g, MaxOf(s))
      BY <2>1 DEF MergedMax
    <3> HIDE DEF w1, g1
    <3> QED BY <1>3, <1>4, <2>1, <3>4, <3>5
  <2>2. CASE ~(MaxOf(s) > MaxOf(g))
    <3>1. MergedMax(g, s) = g.max
      BY <2>2 DEF MergedMax
    <3> HIDE DEF g1
    <3>2. g2 = w1
      <4> HIDE DEF w1
      <4> QED BY <1>3, <1>4, <2>2
    <3> QED BY <3>1, <3>2
  <2> QED BY <2>1, <2>2
<1>6. MinNz(w2) = MinNz(g)
  <2>1. w2.min = g.min /\ w2.lay = g.lay
    BY WithFields DEF SameRange
  <2> HIDE DEF w2
  <2> QED BY <2>1 DEF MinNz
<1>7. g3 = w3
  <2>1. CASE MinNz(s) < MinNz(g)
    <3>1. MinNz(s) \in Words /\ MinNz(g) \in Words /\ MinNz(g) <= g.min
          /\ ~(MinNz(s) <= UnitMask(g.lay))
      BY <1>1, MinNzFacts
    <3>2. MinNz(s) <= g.min
      BY <1>1, <2>1, <3>1, Parameters
    <3> DEFINE mx == MergedMax(g, s)
    <3> HIDE DEF c, t, mx
    <3>3. UpdateMin(With(g, c, mx, g.min, t), MinNz(s)) = With(g, c, mx, AndNotUnitMask(g, MinNz(s)), t)
      BY <1>1, <3>1, <3>2, MinUpdated
    <3>4. MergedMin(g, s) = AndNotUnitMask(g, MinNz(s))
      BY <2>1 DEF MergedMin
    <3>5. UpdateMin(w2, MinNz(s)) = w3
      BY <3>3, <3>4 DEF Merged, mx, c, t
    <3> HIDE DEF w2, w3, g2
    <3> QED BY <1>5, <1>6, <2>1, <3>5
  <2>2. CASE ~(MinNz(s) < MinNz(g))
    <3>1. MergedMin(g, s) = g.min
      BY <2>2 DEF MergedMin
    <3> HIDE DEF g2
    <3>2. g3 = w2
      <4> HIDE DEF w2
      <4> QED BY <1>5, <1>6, <2>2
    <3> QED BY <3>1, <3>2 DEF Merged
  <2> QED BY <2>1, <2>2
<1>8. AddDirect(g, s) = IF ~(NonZero(s) \subseteq DOMAIN g.counts) THEN Fail("panic", g) ELSE Ok(g3)
  BY Zenon DEF AddDirect, MergedCounts
<1> HIDE DEF g3, w3
<1>9. AddDirect(g, s) = Ok(w3)
  BY <1>2, <1>7, <1>8
<1> QED BY <1>9 DEF w3

\* The counts of the sum.
LEMMA MergedArray ==
    ASSUME NEW g, Sound(g), NEW s, Sound(s), Bins(s) = Bins(g)
    PROVE  LET c == MergedCounts(g, s)
               a == g.counts
               b == s.counts
           IN  /\ c \in [0..(Bins(g) - 1) -> 0..CounterMax] /\ c \in CountArrays
               /\ {i \in DOMAIN c : c[i] # 0} = NonZero(g) \cup NonZero(s)
               /\ Samples(a) \in Nat /\ Samples(b) \in Nat /\ Samples(c) \in Nat
               /\ Samples(c) <= Samples(a) + Samples(b)
               /\ (\A i \in DOMAIN c : c[i] # CounterMax)
                    => Samples(c) = Samples(a) + Samples(b) /\ ~Full(g)
<1> DEFINE a == g.counts
           b == s.counts
           m == Bins(g)
           D == 0..(m - 1)
           c == MergedCounts(g, s)
<1>1. /\ m \in Nat \ {0} /\ CounterMax \in Nat \ {0} /\ a \in [D -> 0..CounterMax]
      /\ b \in [D -> 0..CounterMax] /\ DOMAIN a = D /\ DOMAIN b = D
  BY SoundFacts, Parameters
<1>2. c = [i \in D |-> SatAdd(a[i], b[i], CounterMax)]
  BY <1>1 DEF MergedCounts
<1>3. NonZero(g) = {i \in D : a[i] # 0} /\ NonZero(s) = {i \in D : b[i] # 0}
  BY <1>1 DEF NonZero
<1>4. Full(g) <=> \E i \in D : a[i] = CounterMax
  BY <1>1 DEF Full
<1> HIDE DEF a, b, c, m
<1>5. ASSUME NEW i \in D
      PROVE  /\ a[i] \in 0..CounterMax /\ b[i] \in 0..CounterMax /\ c[i] \in 0..CounterMax
             /\ c[i] = IF a[i] + b[i] <= CounterMax THEN a[i] + b[i] ELSE CounterMax
  <2>1. a[i] \in Nat /\ b[i] \in Nat /\ CounterMax \in Nat /\ c[i] = SatAdd(a[i], b[i], CounterMax)
        /\ a[i] \in 0..CounterMax /\ b[i] \in 0..CounterMax
    BY <1>1, <1>2
  <2>2. /\ SatAdd(a[i], b[i], CounterMax) \in Nat /\ SatAdd(a[i], b[i], CounterMax) <= CounterMax
        /\ SatAdd(a[i], b[i], CounterMax) = IF a[i] + b[i] <= CounterMax THEN a[i] + b[i] ELSE CounterMax
    BY <2>1, Saturated
  <2> QED BY <2>1, <2>2
<1>6. c \in [D -> 0..CounterMax] /\ DOMAIN c = D
  BY <1>2, <1>5
<1>7. c \in CountArrays
  BY <1>1, <1>6 DEF CountArrays
<1>8. {i \in D : c[i] # 0} = NonZero(g) \cup NonZero(s)
  <2>1. \A i \in D : c[i] # 0 <=> a[i] # 0 \/ b[i] # 0
    <3> TAKE i \in D
    <3> DEFINE x == a[i]
               y == b[i]
               w == c[i]
    <3>1. x \in 0..CounterMax /\ y \in 0..CounterMax /\ CounterMax \in Nat \ {0}
          /\ w = IF x + y <= CounterMax THEN x + y ELSE CounterMax
      BY <1>5, Parameters
    <3> HIDE DEF x, y, w
    <3>2. w # 0 <=> x # 0 \/ y # 0
      BY ONLY <3>1
    <3> QED BY <3>2 DEF x, y, w
  <2> QED BY <1>3, <2>1
<1>9. a \in [D -> Nat] /\ b \in [D -> Nat] /\ c \in [D -> Nat]
  <2>1. a \in [D -> Nat]
    BY <1>1
  <2>2. b \in [D -> Nat]
    BY <1>1
  <2>3. c \in [D -> Nat]
    BY <1>1, <1>6
  <2> QED BY <2>1, <2>2, <2>3
<1>10. Samples(a) \in Nat /\ Samples(b) \in Nat /\ Samples(c) \in Nat
  BY <1>1, <1>9, ArrayFacts
<1>11. \A i \in D : c[i] <= a[i] + b[i]
  <2> TAKE i \in D
  <2> QED BY <1>1, <1>5
<1>12. /\ Samples(c) <= Samples(a) + Samples(b)
       /\ (\A i \in D : c[i] = a[i] + b[i]) => Samples(c) = Samples(a) + Samples(b)
  <2>1. m \in Nat
    BY <1>1
  <2> QED BY ONLY <1>9, <1>11, <2>1, SamplesPlus DEF D
<1>13. ASSUME \A i \in D : c[i] # CounterMax
       PROVE  Samples(c) = Samples(a) + Samples(b) /\ ~Full(g)
  <2>1. \A i \in D : c[i] = a[i] + b[i] /\ a[i] # CounterMax
    <3> TAKE i \in D
    <3> QED BY <1>1, <1>5, <1>13
  <2> QED BY <1>4, <1>12, <2>1
<1> QED BY <1>6, <1>7, <1>8, <1>10, <1>12, <1>13 DEF a, b, c, m

\* The statistics of the sum, by the slots they are in.
LEMMA MergedStatistics ==
    ASSUME NEW g, Sound(g), NEW s, Sound(s), SameGeometry(g, s)
    PROVE  LET L == g.lay
               last == IndexFor(L, g.max)
               lastS == IndexFor(L, s.max)
               first == IndexFor(L, g.min)
               firstS == IndexFor(L, s.min)
               mx == MergedMax(g, s)
               mn == MergedMin(g, s)
           IN  /\ mx \in Words /\ mn \in Words
               /\ last \in Nat /\ lastS \in Nat /\ first \in Nat /\ firstS \in Nat
               /\ first # 0 /\ firstS # 0
               /\ \/ IndexFor(L, mx) = lastS /\ last <= lastS
                  \/ mx = g.max /\ lastS <= last
               /\ \/ IndexFor(L, mn) = firstS /\ firstS <= first /\ s.min # ORIGINAL_MIN
                  \/ mn = g.min /\ first <= firstS /\ (g.min = ORIGINAL_MIN => firstS = first)
<1> DEFINE L == g.lay
           last == IndexFor(L, g.max)
           lastS == IndexFor(L, s.max)
           first == IndexFor(L, g.min)
           firstS == IndexFor(L, s.min)
           mx == MergedMax(g, s)
           mn == MergedMin(g, s)
<1>1. /\ ValidLayout(L) /\ s.lay = L /\ g.max \in Words /\ g.min \in Words
      /\ s.max \in Words /\ s.min \in Words /\ MaxWord \in Nat /\ Words = 0..MaxWord
      /\ \A v \in Words : IndexFor(L, v) \in Nat
  <2>1. s.lay = L
    BY DEF SameGeometry
  <2> QED BY <2>1, SoundFacts, Parameters
<1>2. /\ MaxOf(g) \in Words /\ IndexFor(L, MaxOf(g)) = last
      /\ MaxOf(s) \in Words /\ IndexFor(L, MaxOf(s)) = lastS
  BY <1>1, MaxOfFacts
<1>3. /\ MinNz(g) \in Words /\ IndexFor(L, MinNz(g)) = first /\ MinNz(g) <= g.min /\ first # 0
      /\ MinNz(s) \in Words /\ IndexFor(L, MinNz(s)) = firstS /\ MinNz(s) <= s.min /\ firstS # 0
      /\ g.min = ORIGINAL_MIN => MinNz(g) = ORIGINAL_MIN
      /\ s.min = ORIGINAL_MIN => MinNz(s) = ORIGINAL_MIN
  BY <1>1, MinNzFacts
<1>4. last \in Nat /\ lastS \in Nat /\ first \in Nat /\ firstS \in Nat
  BY <1>1
<1>5. /\ mx \in Words
      /\ \/ IndexFor(L, mx) = lastS /\ last <= lastS
         \/ mx = g.max /\ lastS <= last
  <2>1. CASE MaxOf(s) > MaxOf(g)
    <3>1. mx = OrUnitMask(g, MaxOf(s))
      BY <2>1 DEF MergedMax
    <3>2. mx \in Words /\ IndexFor(L, mx) = lastS
      BY <1>1, <1>2, <3>1, UnitBits
    <3>3. MaxOf(g) <= MaxOf(s)
      BY <1>1, <1>2, <2>1
    <3>4. last <= lastS
      BY <1>1, <1>2, <3>3, IndexMonotone
    <3> QED BY <3>2, <3>4
  <2>2. CASE ~(MaxOf(s) > MaxOf(g))
    <3>1. mx = g.max
      BY <2>2 DEF MergedMax
    <3>2. MaxOf(s) <= MaxOf(g)
      BY <1>1, <1>2, <2>2
    <3>3. lastS <= last
      BY <1>1, <1>2, <3>2, IndexMonotone
    <3> QED BY <1>1, <3>1, <3>3
  <2> QED BY <2>1, <2>2
<1>6. /\ mn \in Words
      /\ \/ IndexFor(L, mn) = firstS /\ firstS <= first /\ s.min # ORIGINAL_MIN
         \/ mn = g.min /\ first <= firstS /\ (g.min = ORIGINAL_MIN => firstS = first)
  <2>1. CASE MinNz(s) < MinNz(g)
    <3>1. mn = AndNotUnitMask(g, MinNz(s))
      BY <2>1 DEF MergedMin
    <3>2. mn \in Words /\ IndexFor(L, mn) = firstS
      BY <1>1, <1>3, <3>1, UnitBits
    <3>3. MinNz(s) <= MinNz(g)
      BY <1>1, <1>3, <2>1
    <3>4. firstS <= first
      BY <1>1, <1>3, <3>3, IndexMonotone
    <3>5. s.min # ORIGINAL_MIN
      BY <1>1, <1>3, <2>1 DEF ORIGINAL_MIN
    <3> QED BY <3>2, <3>4, <3>5
  <2>2. CASE ~(MinNz(s) < MinNz(g))
    <3>1. mn = g.min
      BY <2>2 DEF MergedMin
    <3>2. MinNz(g) <= MinNz(s)
      BY <1>1, <1>3, <2>2
    <3>3. first <= firstS
      BY <1>1, <1>3, <3>2, IndexMonotone
    <3>4. g.min = ORIGINAL_MIN => firstS = first
      <4> SUFFICES ASSUME g.min = ORIGINAL_MIN PROVE firstS = first
        OBVIOUS
      <4>1. MinNz(g) = MaxWord
        BY <1>3 DEF ORIGINAL_MIN
      <4>2. MinNz(s) = MaxWord
        BY <1>1, <1>3, <3>2, <4>1
      <4> QED BY <1>3, <4>1, <4>2
    <3> QED BY <1>1, <3>1, <3>3, <3>4
  <2> QED BY <2>1, <2>2
<1> QED BY <1>3, <1>4, <1>5, <1>6

\* saturating_add of two totals that saturated.
LEMMA TotalsAdded ==
    ASSUME NEW x \in Nat, NEW p \in Nat, NEW q \in Nat, NEW z \in Nat, z <= p + q
    PROVE  LET t == SatAdd(x, Min({q, MaxWord}), MaxWord)
           IN  /\ t \in Words
               /\ x >= Min({p, MaxWord}) => t >= Min({z, MaxWord})
               /\ z = p + q /\ x = Min({p, MaxWord}) => t = Min({z, MaxWord})
<1> DEFINE y == Min({q, MaxWord})
           t == SatAdd(x, y, MaxWord)
<1>1. MaxWord \in Nat /\ Words = 0..MaxWord
  BY Parameters
<1>2. /\ Min({p, MaxWord}) = IF p <= MaxWord THEN p ELSE MaxWord
      /\ y = IF q <= MaxWord THEN q ELSE MaxWord
      /\ Min({z, MaxWord}) = IF z <= MaxWord THEN z ELSE MaxWord
  <2>1. MaxWord \in Int /\ p \in Int /\ q \in Int /\ z \in Int
    BY <1>1
  <2> QED BY <2>1, MinOfTwo
<1> HIDE DEF y
<1>3. y \in Nat
  BY <1>1, <1>2
<1>4. t = IF x + y <= MaxWord THEN x + y ELSE MaxWord
  BY <1>1, <1>3, Saturated
<1> HIDE DEF t
<1>5. t \in Words
  BY <1>1, <1>3, <1>4
<1> DEFINE a == Min({p, MaxWord})
           b == Min({z, MaxWord})
<1>6. a = (IF p <= MaxWord THEN p ELSE MaxWord) /\ b = (IF z <= MaxWord THEN z ELSE MaxWord)
  BY <1>2
<1> HIDE DEF a, b
<1>7. x >= a => t >= b
  BY <1>1, <1>2, <1>4, <1>6
<1>8. z = p + q /\ x = a => t = b
  BY <1>1, <1>2, <1>4, <1>6
<1> QED BY <1>5, <1>7, <1>8 DEF a, b, t, y

\* Adding slot by slot is sound, and exact when both histograms are.
LEMMA AddedDirect ==
    ASSUME NEW g, NEW n, NEW S, Good(g, n, S), NEW s, Sound(s), n \in S \/ Exact(s),
           SameGeometry(g, s)
    PROVE  AddDirect(g, s) \in Left(n, S) /\ AddDirect(g, s).err = "none"
<1> DEFINE L == g.lay
           last == IndexFor(L, g.max)
           lastS == IndexFor(L, s.max)
           first == IndexFor(L, g.min)
           firstS == IndexFor(L, s.min)
           c == MergedCounts(g, s)
           mx == MergedMax(g, s)
           mn == MergedMin(g, s)
           t == MergedTotal(g, s)
           r == Merged(g, s)
           m == Bins(g)
           a == g.counts
           b == s.counts
           usedG == NonZero(g)
           usedS == NonZero(s)
<1>1. Sound(g) /\ (n \in S \/ Exact(g) \/ Full(g)) /\ g \in Histograms /\ s.lay = L /\ Bins(s) = m
  BY DEF Good, Sound, SameGeometry, Bins
<1>2. AddDirect(g, s) = Ok(r)
  BY <1>1, MergedFields
<1>3. /\ c \in [0..(m - 1) -> 0..CounterMax] /\ c \in CountArrays
      /\ {i \in DOMAIN c : c[i] # 0} = usedG \cup usedS
      /\ Samples(a) \in Nat /\ Samples(b) \in Nat /\ Samples(c) \in Nat
      /\ Samples(c) <= Samples(a) + Samples(b)
      /\ (\A i \in DOMAIN c : c[i] # CounterMax)
           => Samples(c) = Samples(a) + Samples(b) /\ ~Full(g)
  BY <1>1, MergedArray
<1>4. /\ mx \in Words /\ mn \in Words
      /\ last \in Nat /\ lastS \in Nat /\ first \in Nat /\ firstS \in Nat
      /\ first # 0 /\ firstS # 0
      /\ \/ IndexFor(L, mx) = lastS /\ last <= lastS
         \/ mx = g.max /\ lastS <= last
      /\ \/ IndexFor(L, mn) = firstS /\ firstS <= first /\ s.min # ORIGINAL_MIN
         \/ mn = g.min /\ first <= firstS /\ (g.min = ORIGINAL_MIN => firstS = first)
  BY <1>1, MergedStatistics
<1>5. /\ m \in Nat \ {0} /\ MaxWord \in Nat /\ Words = 0..MaxWord /\ CounterMax \in Nat \ {0}
      /\ g.total \in Words /\ s.total \in Words /\ DOMAIN a = 0..(m - 1) /\ DOMAIN b = 0..(m - 1)
      /\ a \in [0..(m - 1) -> 0..CounterMax] /\ b \in [0..(m - 1) -> 0..CounterMax]
  BY <1>1, SoundFacts, Parameters
<1>6. SumCounts(g, usedG) = Samples(a) /\ SumCounts(s, usedS) = Samples(b)
  <2>1. a \in [0..(m - 1) -> Nat] /\ m \in Nat
    BY <1>5
  <2>2. b \in [0..(m - 1) -> Nat]
    BY <1>5
  <2>3. SumCounts(g, usedG) = Samples(a)
    BY <2>1, SamplesInUse
  <2>4. SumCounts(s, usedS) = Samples(b)
    BY <2>1, <2>2, SamplesInUse
  <2> QED BY <2>3, <2>4
<1> DEFINE p == Samples(a)
           q == Samples(b)
           z == Samples(c)
<1> HIDE DEF c, mx, mn, t, r, a, b, m, p, q, z
<1>7. /\ t \in Words
      /\ g.total >= Min({p, MaxWord}) => t >= Min({z, MaxWord})
      /\ z = p + q /\ g.total = Min({p, MaxWord}) => t = Min({z, MaxWord})
  <2>1. t = SatAdd(g.total, Min({q, MaxWord}), MaxWord)
    BY <1>6 DEF MergedTotal, t, q
  <2>2. p \in Nat /\ q \in Nat /\ z \in Nat /\ z <= p + q /\ g.total \in Nat
    BY <1>3, <1>5 DEF p, q, z
  <2> QED BY <2>1, <2>2, TotalsAdded
<1>8. /\ SameRange(r, g) /\ r.counts = c /\ r.max = mx /\ r.min = mn /\ r.total = t
      /\ r \in Histograms
  <2>1. r = With(g, c, mx, mn, t)
    BY DEF r, Merged, c, mx, mn, t
  <2>2. SameRange(r, g) /\ r.counts = c /\ r.max = mx /\ r.min = mn /\ r.total = t
    BY <2>1, WithFields
  <2>3. r \in Histograms
    BY <1>1, <1>3, <1>4, <1>7, <2>1, WithFields
  <2> QED BY <2>2, <2>3
<1>9. /\ r.lay = L /\ r.buckets = g.buckets /\ r.high = g.high /\ r.low = g.low /\ Bins(r) = m
      /\ DOMAIN c = 0..(m - 1) /\ NonZero(r) = usedG \cup usedS
  <2>1. r.lay = L /\ r.buckets = g.buckets /\ r.high = g.high /\ r.low = g.low
    BY <1>8 DEF SameRange
  <2>2. Bins(r) = m
    BY <2>1 DEF Bins, m
  <2>3. DOMAIN c = 0..(m - 1)
    BY <1>3
  <2>4. NonZero(r) = usedG \cup usedS
    BY <1>3, <1>8 DEF NonZero
  <2> QED BY <2>1, <2>2, <2>3, <2>4
<1>10. SumCounts(r, NonZero(r)) = z
  <2>1. c \in [0..(m - 1) -> Nat] /\ m \in Nat
    BY <1>3, <1>5, NatArray
  <2>2. r.counts \in [0..(m - 1) -> Nat]
    BY <1>8, <2>1
  <2> QED BY <1>8, <2>1, <2>2, SamplesInUse DEF z
<1> DEFINE lastR == IndexFor(r.lay, r.max)
           firstR == IndexFor(r.lay, r.min)
<1>11. /\ \/ lastR = lastS /\ last <= lastS
          \/ lastR = last /\ lastS <= last
       /\ \/ firstR = firstS /\ firstS <= first /\ s.min # ORIGINAL_MIN
          \/ firstR = first /\ r.min = g.min /\ first <= firstS
             /\ (g.min = ORIGINAL_MIN => firstS = first)
  BY <1>4, <1>8, <1>9
<1>12. /\ \A i \in usedG : i \in Nat /\ i <= last
       /\ \A i \in usedS : i \in Nat /\ i <= lastS
       /\ last \in 0..(m - 1) /\ lastS \in 0..(m - 1)
       /\ g.total >= Min({p, MaxWord})
       /\ \E x \in Words : g.buckets = BucketsToCover(g.lay, x)
       /\ g.low >= 1 /\ g.high >= 2 * g.low /\ InRange(g, g.high)
  <2>1. /\ InRange(g, g.max) /\ \A i \in NonZero(g) : i <= IndexFor(g.lay, g.max)
        /\ g.total >= Min({SumCounts(g, NonZero(g)), MaxWord})
        /\ \E x \in Words : g.buckets = BucketsToCover(g.lay, x)
        /\ g.low >= 1 /\ g.high >= 2 * g.low /\ InRange(g, g.high)
    BY <1>1 DEF Sound, Within
  <2>2. InRange(s, s.max) /\ \A i \in NonZero(s) : i <= IndexFor(s.lay, s.max)
    BY DEF Sound, Within
  <2>3. \A i \in usedG \cup usedS : i \in Nat
    BY <1>5 DEF NonZero, a, b
  <2>4. last \in 0..(m - 1) /\ lastS \in 0..(m - 1)
    BY <1>1, <1>5, <2>1, <2>2 DEF InRange, a, b
  <2> QED BY <1>1, <1>6, <2>1, <2>2, <2>3, <2>4 DEF p
<1> HIDE DEF last, lastS, first, firstS, usedG, usedS, L
<1>13. Sound(r)
  <2>1. InRange(r, r.high)
    BY <1>5, <1>8, <1>9, <1>12 DEF InRange, a, L
  <2>2. InRange(r, r.max)
    <3>1. lastR \in 0..(m - 1)
      BY <1>11, <1>12
    <3> QED BY <1>8, <1>9, <3>1 DEF InRange
  <2>3. \A i \in NonZero(r) : i <= lastR
    <3> SUFFICES ASSUME NEW i \in usedG \cup usedS PROVE i <= lastR
      BY <1>9
    <3> QED BY <1>4, <1>11, <1>12 DEF last, lastS
  <2>4. firstR # 0
    BY <1>4, <1>11 DEF first, firstS
  <2>5. r.total >= Min({SumCounts(r, NonZero(r)), MaxWord})
    BY <1>7, <1>8, <1>10, <1>12
  <2>6. \E x \in Words : r.buckets = BucketsToCover(r.lay, x)
    BY <1>9, <1>12 DEF L
  <2>7. r.counts \in [0..(Bins(r) - 1) -> 0..CounterMax]
    BY <1>3, <1>8, <1>9
  <2> QED BY <1>8, <1>9, <1>12, <2>1, <2>2, <2>3, <2>4, <2>5, <2>6, <2>7 DEF Sound, Within
<1>14. ASSUME n \notin S, ~Full(r) PROVE Exact(r)
  <2>1. z = p + q /\ ~Full(g)
    <3>1. \A i \in DOMAIN c : c[i] # CounterMax
      BY <1>8, <1>14 DEF Full
    <3> QED BY <1>3, <3>1 DEF p, q, z
  <2>2. Exact(g) /\ Exact(s)
    BY <1>1, <1>14, <2>1
  <2>3. /\ g.total = Min({p, MaxWord})
        /\ IF usedG = {} THEN last = 0 ELSE last \in usedG
        /\ \A i \in usedG \ {0} : first <= i
        /\ 0 \notin usedG => IF usedG = {} THEN g.min = ORIGINAL_MIN ELSE first \in usedG
    BY <1>6, <2>2 DEF Exact, usedG, last, first, p, L
  <2>4. /\ IF usedS = {} THEN lastS = 0 ELSE lastS \in usedS
        /\ \A i \in usedS \ {0} : firstS <= i
        /\ 0 \notin usedS => IF usedS = {} THEN s.min = ORIGINAL_MIN ELSE firstS \in usedS
    BY <1>1, <2>2 DEF Exact, usedS, lastS, firstS, L
  <2>5. /\ last \in Nat /\ lastS \in Nat /\ first \in Nat /\ firstS \in Nat
        /\ \A i \in usedG \cup usedS : i \in Nat
    BY <1>4, <1>12 DEF last, lastS, first, firstS
  <2> HIDE DEF lastR, firstR
  <2>6. r.total = Min({SumCounts(r, NonZero(r)), MaxWord})
    BY <1>7, <1>8, <1>10, <2>1, <2>3
  <2>7. IF NonZero(r) = {} THEN lastR = 0 ELSE lastR \in NonZero(r)
    <3>1. CASE lastR = lastS /\ last <= lastS
      <4>1. CASE usedS # {}
        BY <1>9, <2>4, <3>1, <4>1
      <4>2. CASE usedS = {} /\ usedG # {}
        <5>1. last = lastS
          BY <2>4, <2>5, <3>1, <4>2
        <5> QED BY <1>9, <2>3, <3>1, <4>2, <5>1
      <4>3. CASE usedS = {} /\ usedG = {}
        BY <1>9, <2>4, <3>1, <4>3
      <4> QED BY <4>1, <4>2, <4>3
    <3>2. CASE lastR = last /\ lastS <= last
      <4>1. CASE usedG # {}
        BY <1>9, <2>3, <3>2, <4>1
      <4>2. CASE usedG = {} /\ usedS # {}
        <5>1. last = lastS
          BY <2>3, <2>5, <3>2, <4>2
        <5> QED BY <1>9, <2>4, <3>2, <4>2, <5>1
      <4>3. CASE usedS = {} /\ usedG = {}
        BY <1>9, <2>3, <3>2, <4>3
      <4> QED BY <4>1, <4>2, <4>3
    <3> QED BY <1>11, <3>1, <3>2
  <2>8. \A i \in NonZero(r) \ {0} : firstR <= i
    <3> SUFFICES ASSUME NEW i \in (usedG \cup usedS) \ {0} PROVE firstR <= i
      BY <1>9
    <3>1. (i \in usedG => first <= i) /\ (i \in usedS => firstS <= i)
      BY <2>3, <2>4
    <3>2. firstR \in Nat /\ firstR <= first /\ firstR <= firstS
      BY <1>11, <2>5
    <3> QED BY <2>5, <3>1, <3>2
  <2>9. 0 \notin NonZero(r) => IF NonZero(r) = {} THEN r.min = ORIGINAL_MIN
                               ELSE firstR \in NonZero(r)
    <3> SUFFICES ASSUME 0 \notin usedG, 0 \notin usedS
                 PROVE  IF usedG \cup usedS = {} THEN r.min = ORIGINAL_MIN
                        ELSE firstR \in usedG \cup usedS
      BY <1>9
    <3>1. CASE firstR = firstS /\ s.min # ORIGINAL_MIN
      BY <2>4, <3>1
    <3>2. CASE firstR = first /\ r.min = g.min /\ (g.min = ORIGINAL_MIN => firstS = first)
      BY <2>3, <2>4, <3>2
    <3> QED BY <1>11, <3>1, <3>2
  <2> QED BY <2>6, <2>7, <2>8, <2>9 DEF Exact, lastR, firstR
<1>15. Good(r, n, S)
  BY <1>13, <1>14 DEF Good
<1>16. Ok(r) \in Left(n, S) /\ Ok(r).err = "none"
  BY <1>8, <1>15 DEF Left, Results, Ok
<1> QED BY <1>2, <1>16

-----------------------------------------------------------------------------
(***************************************************************************)
(* add                                                                     *)
(***************************************************************************)
\* add does not panic, and leaves a histogram that is good.
LEMMA Added ==
    ASSUME NEW g, NEW n, NEW S, Good(g, n, S), NEW s, Sound(s), n \in S \/ Exact(s)
    PROVE  Add(g, s) \in Left(n, S)
<1> DEFINE v == MaxOf(s)
           g1 == IF Top(g) < v THEN Resize(g, v) ELSE g
           r == IF SameGeometry(g1, s) THEN AddDirect(g1, s) ELSE AddByValue(g1, s)
<1>1. /\ Sound(g) /\ (n \in S \/ Exact(g) \/ Full(g)) /\ g \in Histograms /\ v \in Words
      /\ Top(g) \in Words /\ DOMAIN g.counts # {} /\ g.low \in Nat /\ ValidLayout(g.lay)
      /\ MaxWord \in Nat /\ Words = 0..MaxWord
  <2>1. Sound(g) /\ (n \in S \/ Exact(g) \/ Full(g)) /\ g \in Histograms
    BY DEF Good, Sound
  <2>2. LastIndex(g) \in DOMAIN g.counts /\ Top(g) \in Words
    BY <2>1, TopFacts
  <2>3. v \in Words
    BY MaxOfFacts
  <2>4. g.low \in Nat /\ ValidLayout(g.lay)
    BY <2>1, SoundFacts
  <2> QED BY <2>1, <2>2, <2>3, <2>4, Parameters
<1>2. Add(g, s) = IF DOMAIN g.counts = {} THEN Fail("panic", g)
                  ELSE IF Top(g) < v /\ ~g.auto THEN Fail("OtherAddendValueExceedsRange", g)
                  ELSE IF g1 # g /\ v < 2 * g.low THEN Fail("panic", g) ELSE r
  BY Zenon DEF Add
<1> HIDE DEF v
<1>3. CASE Top(g) < v /\ ~g.auto
  <2>1. Add(g, s) = Fail("OtherAddendValueExceedsRange", g)
    <3> HIDE DEF g1, r
    <3> QED BY <1>1, <1>2, <1>3
  <2>2. Fail("OtherAddendValueExceedsRange", g) \in Left(n, S)
    BY <1>1 DEF Left, Results, Errors, Fail
  <2> QED BY <2>1, <2>2
<1>4. ASSUME Top(g) < v PROVE Good(g1, n, S) /\ InRange(g1, v) /\ v >= 2 * g.low
  <2>1. v > Top(g)
    BY <1>1, <1>4
  <2>2. v >= 2 * g.low
    BY <1>1, <2>1, AboveTop
  <2>3. IndexFor(g.lay, v) < NumBins(g.lay, BucketsToCover(g.lay, v))
    <3>1. /\ NumBins(g.lay, BucketsToCover(g.lay, v)) \in Nat \ {0}
          /\ IndexFor(g.lay, v) \in 0..(NumBins(g.lay, BucketsToCover(g.lay, v)) - 1)
      BY <1>1, Covered
    <3> DEFINE k == NumBins(g.lay, BucketsToCover(g.lay, v))
    <3> HIDE DEF k
    <3>2. k \in Nat \ {0} /\ IndexFor(g.lay, v) \in 0..(k - 1)
      BY <3>1 DEF k
    <3>3. IndexFor(g.lay, v) < k
      BY <3>2
    <3> QED BY <3>3 DEF k
  <2> DEFINE f == Grown(g, v, v)
  <2>4. Sound(f) /\ (Exact(g) => Exact(f)) /\ (Full(g) => Full(f)) /\ InRange(f, v)
    BY <1>1, <2>1, <2>2, <2>3, GrownFacts
  <2>5. g1 = f
    BY <1>1, <1>4, ResizeIsGrown
  <2> HIDE DEF f, g1
  <2>6. Good(f, n, S)
    BY <1>1, <2>4 DEF Good
  <2> QED BY <2>2, <2>4, <2>5, <2>6
<1>5. ASSUME ~(Top(g) < v) PROVE g1 = g /\ Good(g1, n, S) /\ InRange(g1, v)
  <2>1. g1 = g
    BY <1>5
  <2>2. v <= Top(g)
    BY <1>1, <1>5
  <2>3. InRange(g, v)
    BY <1>1, <2>2, TopFacts
  <2> HIDE DEF g1
  <2> QED BY <2>1, <2>3
<1>6. CASE ~(Top(g) < v /\ ~g.auto)
  <2> HIDE DEF g1
  <2>1. Good(g1, n, S) /\ InRange(g1, v) /\ (g1 # g => v >= 2 * g.low)
    BY <1>4, <1>5
  <2>2. Add(g, s) = r
    <3>1. ~(g1 # g /\ v < 2 * g.low)
      BY <1>1, <2>1
    <3> HIDE DEF r
    <3> QED BY <1>1, <1>2, <1>6, <3>1
  <2>3. AddByValue(g1, s) \in Left(n, S)
    BY <2>1, AddedByValue DEF v
  <2>4. SameGeometry(g1, s) => AddDirect(g1, s) \in Left(n, S)
    BY <2>1, AddedDirect
  <2> QED BY <2>2, <2>3, <2>4
<1> QED BY <1>3, <1>6

-----------------------------------------------------------------------------
(***************************************************************************)
(* Statistics from the counts                                              *)
(***************************************************************************)
\* The array is that of the range.
Ranged(g) ==
    /\ g \in Histograms
    /\ \E x \in Words : g.buckets = BucketsToCover(g.lay, x)
    /\ g.counts \in [0..(Bins(g) - 1) -> 0..CounterMax]
    /\ g.low >= 1 /\ g.high >= 2 * g.low /\ InRange(g, g.high)

\* The statistics are where restat puts them.
Restated(g) ==
    LET used == NonZero(g)
        first == IndexFor(g.lay, g.min)
        last == IndexFor(g.lay, g.max)
    IN  /\ g.total = Min({SumCounts(g, used), MaxWord})
        /\ IF used = {} THEN last = 0 ELSE last \in used /\ \A i \in used : i <= last
        /\ IF used \ {0} = {} THEN g.min = ORIGINAL_MIN
           ELSE first \in used \ {0} /\ \A i \in used \ {0} : first <= i

\* The largest word is not in slot 0.
LEMMA WordAboveUnit ==
    ASSUME NEW L, ValidLayout(L)
    PROVE  IndexFor(L, MaxWord) # 0
<1>1. L.unit \in Nat /\ W \in Nat /\ L.unit < W
  BY Parameters DEF ValidLayout
<1>2. 2^L.unit < 2^W /\ 2^L.unit \in Nat /\ 2^W \in Nat
  BY <1>1, PowerMono, PowerType
<1> DEFINE u == 2^L.unit
           x == 2^W
<1>3. UnitMask(L) = u - 1 /\ MaxWord = x - 1 /\ MaxWord \in Words
  BY WordType DEF UnitMask
<1> HIDE DEF u, x
<1>4. u < x /\ u \in Nat /\ x \in Nat
  BY <1>2 DEF u, x
<1>5. ~(MaxWord <= UnitMask(L))
  BY <1>3, <1>4
<1> QED BY <1>3, <1>5, AboveUnit

\* Such statistics are sound and exact.
LEMMA RestatedIsExact ==
    ASSUME NEW g, Ranged(g), Restated(g)
    PROVE  Sound(g) /\ Exact(g)
<1> DEFINE used == NonZero(g)
           first == IndexFor(g.lay, g.min)
           last == IndexFor(g.lay, g.max)
           m == Bins(g)
<1>1. /\ ValidLayout(g.lay) /\ g \in Histograms /\ g.total \in Words /\ g.max \in Words
      /\ MaxWord \in Nat /\ Words = 0..MaxWord /\ g.min \in Words
  BY Parameters DEF Ranged, Histograms, Layouts
<1>2. m \in Nat \ {0} /\ DOMAIN g.counts = 0..(m - 1)
  <2>1. PICK x \in Words : g.buckets = BucketsToCover(g.lay, x)
    BY DEF Ranged
  <2>2. m \in Nat \ {0}
    BY <1>1, <2>1, Covered DEF Bins
  <2>3. g.counts \in [0..(m - 1) -> 0..CounterMax]
    BY DEF Ranged
  <2> QED BY <2>2, <2>3
<1>3. /\ g.total = Min({SumCounts(g, used), MaxWord})
      /\ IF used = {} THEN last = 0 ELSE last \in used /\ \A i \in used : i <= last
      /\ IF used \ {0} = {} THEN g.min = ORIGINAL_MIN
         ELSE first \in used \ {0} /\ \A i \in used \ {0} : first <= i
  BY DEF Restated
<1>4. used \subseteq DOMAIN g.counts
  BY DEF NonZero
<1> HIDE DEF used, first, last, m
<1>5. last \in DOMAIN g.counts /\ \A i \in used : i <= last
  BY <1>2, <1>3, <1>4
<1>6. first # 0
  <2>1. CASE used \ {0} = {}
    <3>1. g.min = MaxWord
      BY <1>3, <2>1 DEF ORIGINAL_MIN
    <3> QED BY <1>1, <3>1, WordAboveUnit DEF first
  <2>2. CASE used \ {0} # {}
    BY <1>3, <2>2
  <2> QED BY <2>1, <2>2
<1>7. g.total >= Min({SumCounts(g, used), MaxWord})
  BY <1>1, <1>3
<1>8. Within(g)
  BY <1>5, <1>6, <1>7 DEF Within, Ranged, InRange, used, last, first
<1>9. Exact(g)
  <2>1. IF used = {} THEN last = 0 ELSE last \in used
    BY <1>3
  <2>2. \A i \in used \ {0} : first <= i
    BY <1>3
  <2>3. 0 \notin used => IF used = {} THEN g.min = ORIGINAL_MIN ELSE first \in used
    BY <1>3
  <2> QED BY <1>3, <2>1, <2>2, <2>3 DEF Exact, used, first, last
<1> QED BY <1>1, <1>8, <1>9 DEF Sound

\* A sound histogram with other counts and statistics.
LEMMA RangedWith ==
    ASSUME NEW g, Sound(g), NEW c \in [0..(Bins(g) - 1) -> 0..CounterMax],
           NEW mx \in Words, NEW mn \in Words, NEW t \in Words
    PROVE  LET r == With(g, c, mx, mn, t)
           IN  /\ Ranged(r) /\ SameRange(r, g) /\ Bins(r) = Bins(g)
               /\ r.counts = c /\ r.max = mx /\ r.min = mn /\ r.total = t
               /\ NonZero(r) = {i \in DOMAIN c : c[i] # 0}
               /\ SumCounts(r, NonZero(r)) = Samples(c) /\ Samples(c) \in Nat
<1> DEFINE r == With(g, c, mx, mn, t)
<1>1. SameRange(r, g) /\ r.counts = c /\ r.max = mx /\ r.min = mn /\ r.total = t
  BY WithFields
<1>2. /\ g \in Histograms /\ Bins(g) \in Nat \ {0} /\ DOMAIN g.counts = 0..(Bins(g) - 1)
      /\ CounterMax \in Nat
  BY SoundFacts, Parameters
<1>3. c \in CountArrays
  BY <1>2 DEF CountArrays
<1>4. r \in Histograms
  BY <1>2, <1>3, WithFields
<1> HIDE DEF r
<1>5. r.lay = g.lay /\ r.buckets = g.buckets /\ r.high = g.high /\ r.low = g.low /\ Bins(r) = Bins(g)
  BY <1>1 DEF SameRange, Bins
<1>6. Ranged(r)
  BY <1>1, <1>2, <1>4, <1>5 DEF Ranged, Sound, Within, InRange
<1>7. NonZero(r) = {i \in DOMAIN c : c[i] # 0}
  BY <1>1 DEF NonZero
<1>8. SumCounts(r, NonZero(r)) = Samples(c) /\ Samples(c) \in Nat
  <2>1. Bins(g) \in Nat /\ c \in [0..(Bins(g) - 1) -> Nat]
    BY <1>2
  <2>2. r.counts \in [0..(Bins(g) - 1) -> Nat]
    BY <1>1, <2>1
  <2> QED BY <1>1, <2>1, <2>2, SamplesInUse
<1> QED BY <1>1, <1>5, <1>6, <1>7, <1>8 DEF r

\* What reset_max and reset_min leave.
LEMMA StatisticsReset ==
    ASSUME NEW g, NEW c, NEW mx, NEW mn, NEW t
    PROVE  ResetMin(ResetMax(With(g, c, mx, mn, t), ORIGINAL_MAX), ORIGINAL_MIN)
             = With(g, c, OrUnitMask(g, 0), ORIGINAL_MIN, t)
<1> DEFINE w == With(g, c, mx, mn, t)
           z == OrUnitMask(g, 0)
           w1 == With(g, c, z, mn, t)
<1>1. ResetMax(w, ORIGINAL_MAX) = w1
  <2>1. OrUnitMask(w, ORIGINAL_MAX) = z
    <3>1. w.lay = g.lay
      BY WithFields DEF SameRange
    <3> HIDE DEF w
    <3> QED BY <3>1, Zenon DEF OrUnitMask, ORIGINAL_MAX
  <2>2. [w EXCEPT !.max = z] = w1
    <3> HIDE DEF z
    <3> QED BY DEF With
  <2> HIDE DEF w, w1, z
  <2> QED BY <2>1, <2>2, Zenon DEF ResetMax
<1>2. ResetMin(w1, ORIGINAL_MIN) = [w1 EXCEPT !.min = ORIGINAL_MIN]
  BY Zenon DEF ResetMin, ORIGINAL_MIN
<1>3. [w1 EXCEPT !.min = ORIGINAL_MIN] = With(g, c, z, ORIGINAL_MIN, t)
  <2> HIDE DEF z
  <2> QED BY DEF With
<1> HIDE DEF w, w1
<1> QED BY <1>1, <1>2, <1>3 DEF w

\* The unit mask, without a value.
LEMMA NoValue ==
    ASSUME NEW g, ValidLayout(g.lay)
    PROVE  /\ OrUnitMask(g, 0) \in Words /\ OrUnitMask(g, 0) = UnitMask(g.lay)
           /\ IndexFor(g.lay, OrUnitMask(g, 0)) = 0
<1>1. 0 \in Words
  BY Parameters
<1>2. OrUnitMask(g, 0) \in Words /\ IndexFor(g.lay, OrUnitMask(g, 0)) = 0
  BY <1>1, UnitBits, IndexForZero
<1> DEFINE u == 2^g.lay.unit
<1>3. u \in Nat \ {0}
  <2>1. g.lay.unit \in Nat
    BY DEF ValidLayout
  <2> QED BY <2>1, PowerType
<1>4. UnitMask(g.lay) = u - 1 /\ OrUnitMask(g, 0) = 0 - (0 % u) + UnitMask(g.lay)
  BY DEF UnitMask, OrUnitMask
<1>5. 0 % u = 0
  <2> HIDE DEF u
  <2> QED BY <1>3
<1> HIDE DEF u
<1>6. OrUnitMask(g, 0) = UnitMask(g.lay)
  BY <1>3, <1>4, <1>5
<1> QED BY <1>2, <1>6

\* The maximum and the minimum as restat finds them.
RestatMax(g) ==
    IF NonZero(g) = {} THEN OrUnitMask(g, 0)
    ELSE OrUnitMask(g, HighestEquivalent(g.lay, ValueFor(g.lay, Max(NonZero(g)))))
RestatMin(g) ==
    IF NonZero(g) \ {0} = {} THEN ORIGINAL_MIN
    ELSE AndNotUnitMask(g, ValueFor(g.lay, Min(NonZero(g) \ {0})))
RestatTotal(g) == Min({SumCounts(g, NonZero(g)), MaxWord})

\* The last and the first slot in use, and their values.
LEMMA SlotsInUse ==
    ASSUME NEW g, Sound(g)
    PROVE  LET used == NonZero(g)
               v == ValueFor(g.lay, Max(used))
               u == ValueFor(g.lay, Min(used \ {0}))
           IN  /\ used # {} => /\ Max(used) \in used /\ \A i \in used : i <= Max(used)
                               /\ v \in Words /\ IndexFor(g.lay, v) = Max(used)
                               /\ HighestEquivalent(g.lay, v) \in Words
                               /\ IndexFor(g.lay, HighestEquivalent(g.lay, v)) = Max(used)
               /\ used \ {0} # {} => /\ Min(used \ {0}) \in used \ {0}
                                     /\ \A i \in used \ {0} : Min(used \ {0}) <= i
                                     /\ u \in Words /\ IndexFor(g.lay, u) = Min(used \ {0})
                                     /\ ~(u <= UnitMask(g.lay))
<1> DEFINE used == NonZero(g)
<1>1. ValidLayout(g.lay) /\ Bins(g) \in Nat /\ g.counts \in [0..(Bins(g) - 1) -> Nat]
      /\ used \subseteq DOMAIN g.counts
  <2>1. ValidLayout(g.lay) /\ Bins(g) \in Nat /\ g.counts \in [0..(Bins(g) - 1) -> 0..CounterMax]
        /\ 0..CounterMax \subseteq Nat
    BY SoundFacts, Parameters
  <2> QED BY <2>1 DEF NonZero
<1>2. /\ used # {} => Max(used) \in used /\ \A i \in used : i <= Max(used)
      /\ used \ {0} # {} => /\ Min(used \ {0}) \in used \ {0}
                            /\ \A i \in used \ {0} : Min(used \ {0}) <= i
  BY <1>1, NonZeroFacts
<1> HIDE DEF used
<1>3. ASSUME used # {}
      PROVE  LET v == ValueFor(g.lay, Max(used))
             IN  /\ v \in Words /\ IndexFor(g.lay, v) = Max(used)
                 /\ HighestEquivalent(g.lay, v) \in Words
                 /\ IndexFor(g.lay, HighestEquivalent(g.lay, v)) = Max(used)
  <2> DEFINE i == Max(used)
             v == ValueFor(g.lay, i)
  <2>1. i \in DOMAIN g.counts
    BY <1>1, <1>2, <1>3
  <2> HIDE DEF i
  <2>2. v \in Words /\ IndexFor(g.lay, v) = i
    BY <2>1, SlotValue
  <2> HIDE DEF v
  <2>3. HighestEquivalent(g.lay, v) \in Words
        /\ IndexFor(g.lay, HighestEquivalent(g.lay, v)) = IndexFor(g.lay, v)
    BY <1>1, <2>2, HighestInSlot
  <2> QED BY <2>2, <2>3 DEF v, i
<1>4. ASSUME used \ {0} # {}
      PROVE  LET u == ValueFor(g.lay, Min(used \ {0}))
             IN  /\ u \in Words /\ IndexFor(g.lay, u) = Min(used \ {0})
                 /\ ~(u <= UnitMask(g.lay))
  <2> DEFINE i == Min(used \ {0})
  <2>1. i \in DOMAIN g.counts /\ i # 0
    BY <1>1, <1>2, <1>4
  <2> HIDE DEF i
  <2>2. ValueFor(g.lay, i) \in Words /\ IndexFor(g.lay, ValueFor(g.lay, i)) = i
        /\ ~(ValueFor(g.lay, i) <= UnitMask(g.lay))
    BY <2>1, SlotValue
  <2> QED BY <2>2 DEF i
<1> QED BY <1>2, <1>3, <1>4 DEF used

\* restat as one change of the statistics.
LEMMA RestatFields ==
    ASSUME NEW g, Sound(g)
    PROVE  Restat(g) = With(g, g.counts, RestatMax(g), RestatMin(g), RestatTotal(g))
<1> DEFINE used == NonZero(g)
           hi == HighestEquivalent(g.lay, ValueFor(g.lay, Max(used)))
           lo == ValueFor(g.lay, Min(used \ {0}))
           mx == RestatMax(g)
           mn == RestatMin(g)
           g1 == ResetMin(ResetMax(g, ORIGINAL_MAX), ORIGINAL_MIN)
           g2 == IF used = {} THEN g1 ELSE UpdateMax(g1, hi)
           g3 == IF used \ {0} = {} THEN g2 ELSE UpdateMin(g2, lo)
           zero == OrUnitMask(g, 0)
<1>0. Restat(g) = [g3 EXCEPT !.total = RestatTotal(g)]
  BY Zenon DEF Restat, RestatTotal
<1>1. g \in Histograms /\ ValidLayout(g.lay)
  BY SoundFacts
<1>2. g = With(g, g.counts, g.max, g.min, g.total)
  BY <1>1, WithItself
<1>3. g1 = With(g, g.counts, zero, ORIGINAL_MIN, g.total)
  <2>1. ResetMin(ResetMax(With(g, g.counts, g.max, g.min, g.total), ORIGINAL_MAX), ORIGINAL_MIN)
          = With(g, g.counts, zero, ORIGINAL_MIN, g.total)
    BY StatisticsReset
  <2> QED BY <1>2, <2>1
<1>4. /\ used # {} => hi \in Words
      /\ used \ {0} # {} => lo \in Words /\ ~(lo <= UnitMask(g.lay))
  BY SlotsInUse
<1>5. zero \in Words /\ zero = UnitMask(g.lay) /\ ORIGINAL_MIN = MaxWord /\ MaxWord \in Words
  BY <1>1, NoValue, Parameters DEF ORIGINAL_MIN
<1> HIDE DEF g1, hi, lo, used, zero
<1>6. g2 = With(g, g.counts, mx, ORIGINAL_MIN, g.total)
  <2>1. CASE used = {}
    <3>1. mx = zero
      BY <2>1 DEF RestatMax, used, zero
    <3> QED BY <1>3, <2>1, <3>1
  <2>2. CASE used # {}
    <3>1. mx = OrUnitMask(g, hi)
      BY <2>2 DEF RestatMax, used, hi
    <3>2. zero <= OrUnitMask(g, hi)
      BY <1>1, <1>4, <1>5, <2>2, UnitBits
    <3>3. UpdateMax(With(g, g.counts, zero, ORIGINAL_MIN, g.total), hi)
            = With(g, g.counts, OrUnitMask(g, hi), ORIGINAL_MIN, g.total)
      BY <1>1, <1>4, <1>5, <2>2, <3>2, MaxUpdated
    <3> HIDE DEF mx
    <3> QED BY <1>3, <2>2, <3>1, <3>3
  <2> QED BY <2>1, <2>2
<1> HIDE DEF g2
<1>7. g3 = With(g, g.counts, mx, mn, g.total)
  <2>1. CASE used \ {0} = {}
    <3>1. mn = ORIGINAL_MIN
      BY <2>1 DEF RestatMin, used
    <3> QED BY <1>6, <2>1, <3>1
  <2>2. CASE used \ {0} # {}
    <3>1. mn = AndNotUnitMask(g, lo)
      BY <2>2 DEF RestatMin, used, lo
    <3>2. lo <= ORIGINAL_MIN /\ ORIGINAL_MIN \in Words
      BY <1>4, <1>5, <2>2, Parameters
    <3>3. UpdateMin(With(g, g.counts, mx, ORIGINAL_MIN, g.total), lo)
            = With(g, g.counts, mx, AndNotUnitMask(g, lo), g.total)
      BY <1>1, <1>4, <2>2, <3>2, MinUpdated
    <3> HIDE DEF mn, mx
    <3> QED BY <1>6, <2>2, <3>1, <3>3
  <2> QED BY <2>1, <2>2
<1> HIDE DEF g3, mx, mn
<1>8. [With(g, g.counts, mx, mn, g.total) EXCEPT !.total = RestatTotal(g)]
        = With(g, g.counts, mx, mn, RestatTotal(g))
  BY DEF With
<1> QED BY <1>0, <1>7, <1>8 DEF mx, mn

\* restat puts the statistics right, whatever they were.
LEMMA RestatExact ==
    ASSUME NEW g, Sound(g)
    PROVE  Sound(Restat(g)) /\ Exact(Restat(g))
<1> DEFINE used == NonZero(g)
           mx == RestatMax(g)
           mn == RestatMin(g)
           t == RestatTotal(g)
           r == With(g, g.counts, mx, mn, t)
           v == HighestEquivalent(g.lay, ValueFor(g.lay, Max(used)))
           u == ValueFor(g.lay, Min(used \ {0}))
<1>1. g \in Histograms /\ ValidLayout(g.lay) /\ Bins(g) \in Nat
      /\ g.counts \in [0..(Bins(g) - 1) -> 0..CounterMax]
      /\ g.counts \in [0..(Bins(g) - 1) -> Nat]
  <2>1. 0..CounterMax \subseteq Nat
    BY Parameters
  <2>2. g \in Histograms /\ ValidLayout(g.lay) /\ Bins(g) \in Nat
        /\ g.counts \in [0..(Bins(g) - 1) -> 0..CounterMax]
    BY SoundFacts
  <2> QED BY <2>1, <2>2
<1>2. /\ used # {} => /\ Max(used) \in used /\ \A i \in used : i <= Max(used)
                      /\ v \in Words /\ IndexFor(g.lay, v) = Max(used)
      /\ used \ {0} # {} => /\ Min(used \ {0}) \in used \ {0}
                            /\ \A i \in used \ {0} : Min(used \ {0}) <= i
                            /\ u \in Words /\ IndexFor(g.lay, u) = Min(used \ {0})
  BY SlotsInUse
<1> HIDE DEF v, u
<1>3. mx \in Words /\ IndexFor(g.lay, mx) = IF used = {} THEN 0 ELSE Max(used)
  <2>1. CASE used = {}
    <3>1. mx = OrUnitMask(g, 0)
      BY <2>1 DEF RestatMax
    <3> QED BY <1>1, <2>1, <3>1, NoValue
  <2>2. CASE used # {}
    <3>1. mx = OrUnitMask(g, v)
      BY <2>2 DEF RestatMax, v
    <3>2. OrUnitMask(g, v) \in Words /\ IndexFor(g.lay, OrUnitMask(g, v)) = IndexFor(g.lay, v)
      BY <1>1, <1>2, <2>2, UnitBits
    <3> QED BY <1>2, <2>2, <3>1, <3>2
  <2> QED BY <2>1, <2>2
<1>4. /\ mn \in Words
      /\ IF used \ {0} = {} THEN mn = ORIGINAL_MIN ELSE IndexFor(g.lay, mn) = Min(used \ {0})
  <2>1. CASE used \ {0} = {}
    <3>1. mn = ORIGINAL_MIN
      BY <2>1 DEF RestatMin
    <3> QED BY <2>1, <3>1, Parameters DEF ORIGINAL_MIN
  <2>2. CASE used \ {0} # {}
    <3>1. mn = AndNotUnitMask(g, u)
      BY <2>2 DEF RestatMin, u
    <3>2. AndNotUnitMask(g, u) \in Words /\ IndexFor(g.lay, AndNotUnitMask(g, u)) = IndexFor(g.lay, u)
      BY <1>1, <1>2, <2>2, UnitBits
    <3> QED BY <1>2, <2>2, <3>1, <3>2
  <2> QED BY <2>1, <2>2
<1>5. SumCounts(g, used) \in Nat /\ SumCounts(g, used) = Samples(g.counts)
  BY <1>1, SamplesInUse
<1>6. t \in Words
  <2> DEFINE x == SumCounts(g, used)
  <2>1. x \in Nat /\ MaxWord \in Nat /\ Words = 0..MaxWord
    BY <1>5, Parameters
  <2>2. t = Min({x, MaxWord})
    BY DEF RestatTotal
  <2> HIDE DEF x, t
  <2>3. Min({x, MaxWord}) = IF x <= MaxWord THEN x ELSE MaxWord
    BY <2>1, MinOfTwo
  <2> QED BY <2>1, <2>2, <2>3
<1> HIDE DEF mx, mn, t
<1>7. /\ Ranged(r) /\ SameRange(r, g)
      /\ r.max = mx /\ r.min = mn /\ r.total = t
      /\ NonZero(r) = {i \in DOMAIN g.counts : g.counts[i] # 0}
      /\ SumCounts(r, NonZero(r)) = Samples(g.counts)
  BY <1>1, <1>3, <1>4, <1>6, RangedWith
<1>8. NonZero(r) = used /\ r.lay = g.lay
  BY <1>7 DEF NonZero, SameRange
<1>9. t = Min({Samples(g.counts), MaxWord})
  BY <1>5 DEF t, RestatTotal
<1> HIDE DEF r, used
<1>10. Restated(r)
  <2>1. r.total = Min({SumCounts(r, NonZero(r)), MaxWord})
    BY <1>7, <1>9
  <2>2. IF NonZero(r) = {} THEN IndexFor(r.lay, r.max) = 0
        ELSE IndexFor(r.lay, r.max) \in NonZero(r) /\ \A i \in NonZero(r) : i <= IndexFor(r.lay, r.max)
    BY <1>2, <1>3, <1>7, <1>8
  <2>3. IF NonZero(r) \ {0} = {} THEN r.min = ORIGINAL_MIN
        ELSE /\ IndexFor(r.lay, r.min) \in NonZero(r) \ {0}
             /\ \A i \in NonZero(r) \ {0} : IndexFor(r.lay, r.min) <= i
    BY <1>2, <1>4, <1>7, <1>8
  <2> QED BY <2>1, <2>2, <2>3, Zenon DEF Restated
<1>11. Sound(r) /\ Exact(r)
  BY <1>7, <1>10, RestatedIsExact
<1>12. Restat(g) = r
  BY RestatFields DEF r, mx, mn, t
<1> QED BY <1>11, <1>12

\* Fewer samples in the slots, and a total that covers them: the bounds still hold.
LEMMA Lowered ==
    ASSUME NEW g, Sound(g), NEW c \in [0..(Bins(g) - 1) -> 0..CounterMax],
           \A i \in 0..(Bins(g) - 1) : c[i] # 0 => g.counts[i] # 0,
           NEW t \in Words, t >= Min({Samples(c), MaxWord})
    PROVE  LET r == With(g, c, g.max, g.min, t)
           IN  /\ Sound(r) /\ SameRange(r, g) /\ Bins(r) = Bins(g) /\ r.counts = c
               /\ r.max = g.max /\ r.min = g.min /\ r.total = t
               /\ NonZero(r) \subseteq NonZero(g)
               /\ SumCounts(r, NonZero(r)) = Samples(c) /\ Samples(c) \in Nat
<1> DEFINE r == With(g, c, g.max, g.min, t)
<1>1. g.max \in Words /\ g.min \in Words /\ DOMAIN g.counts = 0..(Bins(g) - 1)
  BY SoundFacts
<1>2. /\ Ranged(r) /\ SameRange(r, g) /\ Bins(r) = Bins(g)
      /\ r.counts = c /\ r.max = g.max /\ r.min = g.min /\ r.total = t
      /\ NonZero(r) = {i \in DOMAIN c : c[i] # 0}
      /\ SumCounts(r, NonZero(r)) = Samples(c) /\ Samples(c) \in Nat
  BY <1>1, RangedWith
<1> HIDE DEF r
<1>3. NonZero(r) \subseteq NonZero(g)
  BY <1>1, <1>2 DEF NonZero
<1>4. r.lay = g.lay /\ DOMAIN r.counts = DOMAIN g.counts
  BY <1>1, <1>2 DEF SameRange
<1>5. /\ InRange(g, g.max) /\ \A i \in NonZero(g) : i <= IndexFor(g.lay, g.max)
      /\ IndexFor(g.lay, g.min) # 0
  BY DEF Sound, Within
<1>6. InRange(r, r.max)
  BY <1>2, <1>4, <1>5 DEF InRange
<1>7. \A i \in NonZero(r) : i <= IndexFor(r.lay, r.max)
  BY <1>2, <1>3, <1>4, <1>5
<1>8. IndexFor(r.lay, r.min) # 0
  BY <1>2, <1>4, <1>5
<1>9. r.total >= Min({SumCounts(r, NonZero(r)), MaxWord})
  BY <1>2
<1>10. Sound(r)
  BY <1>2, <1>6, <1>7, <1>8, <1>9, Zenon DEF Sound, Within, Ranged
<1> QED BY <1>2, <1>3, <1>10 DEF r

\* clear leaves a sound histogram, with the statistics it had; reset leaves the
\* statistics of an empty one.
LEMMA Emptied ==
    ASSUME NEW g, Sound(g)
    PROVE  /\ Sound(Clear(g)) /\ ~Full(Clear(g))
           /\ Sound(Reset(g)) /\ Exact(Reset(g)) /\ ~Full(Reset(g))
<1> DEFINE z == [i \in DOMAIN g.counts |-> 0]
           c == With(g, z, g.max, g.min, 0)
           o == OrUnitMask(g, 0)
           r == With(g, z, o, ORIGINAL_MIN, 0)
<1>1. /\ g \in Histograms /\ ValidLayout(g.lay) /\ Bins(g) \in Nat \ {0}
      /\ DOMAIN g.counts = 0..(Bins(g) - 1) /\ g.max \in Words /\ g.min \in Words
      /\ CounterMax \in Nat \ {0} /\ 0 \in Words /\ MaxWord \in Nat /\ MaxWord \in Words
  BY SoundFacts, Parameters
<1>2. z \in [0..(Bins(g) - 1) -> 0..CounterMax] /\ \A i \in 0..(Bins(g) - 1) : z[i] = 0
  BY <1>1
<1>3. DOMAIN z = 0..(Bins(g) - 1)
  BY <1>1
<1>4. Clear(g) = c
  <2>1. Clear(g) = [[g EXCEPT !.counts = z] EXCEPT !.total = 0]
    <3>1. Clear(g) = [g EXCEPT !.counts = z, !.total = 0]
      BY Zenon DEF Clear
    <3> HIDE DEF z
    <3> QED BY <3>1
  <2>2. g = With(g, g.counts, g.max, g.min, g.total)
    BY <1>1, WithItself
  <2> HIDE DEF z
  <2>3. [With(g, g.counts, g.max, g.min, g.total) EXCEPT !.counts = z]
          = With(g, z, g.max, g.min, g.total)
    BY DEF With
  <2>4. [With(g, z, g.max, g.min, g.total) EXCEPT !.total = 0] = c
    BY DEF With
  <2> QED BY <2>1, <2>2, <2>3, <2>4, Zenon
<1>5. Reset(g) = r
  <2>1. Reset(g) = ResetMin(ResetMax(c, ORIGINAL_MAX), ORIGINAL_MIN)
    <3> HIDE DEF c, z
    <3> QED BY <1>4, Zenon DEF Reset
  <2> QED BY <2>1, StatisticsReset, Zenon
<1> HIDE DEF z, o
<1>6. Samples(z) = 0 /\ {i \in DOMAIN z : z[i] # 0} = {}
  <2>1. Samples(z) = 0
    <3>1. z \in [0..(Bins(g) - 1) -> Nat]
      BY <1>1, <1>2
    <3> QED BY <1>1, <1>2, <3>1, SamplesZero
  <2> QED BY <1>2, <1>3, <2>1
<1>7. Min({0, MaxWord}) = 0
  BY <1>1, MinOfTwo
<1>8. Sound(c) /\ c.counts = z
  BY <1>1, <1>2, <1>6, <1>7, Lowered
<1>9. /\ Ranged(r) /\ SameRange(r, g) /\ r.counts = z
      /\ r.max = o /\ r.min = ORIGINAL_MIN /\ r.total = 0
      /\ NonZero(r) = {} /\ SumCounts(r, NonZero(r)) = 0
  <2>1. o \in Words /\ ORIGINAL_MIN \in Words
    BY <1>1, NoValue DEF o, ORIGINAL_MIN
  <2> QED BY <1>1, <1>2, <1>6, <2>1, RangedWith
<1> HIDE DEF c, r
<1>10. Restated(r)
  <2>1. r.lay = g.lay
    BY <1>9 DEF SameRange
  <2>2. IndexFor(r.lay, r.max) = 0
    BY <1>1, <1>9, <2>1, NoValue DEF o
  <2>3. r.total = Min({SumCounts(r, NonZero(r)), MaxWord})
    BY <1>7, <1>9
  <2>4. NonZero(r) \ {0} = {}
    BY <1>9
  <2> QED BY <1>9, <2>2, <2>3, <2>4, Zenon DEF Restated
<1>11. Sound(r) /\ Exact(r)
  BY <1>9, <1>10, RestatedIsExact
<1>12. ~Full(c) /\ ~Full(r)
  BY <1>1, <1>2, <1>3, <1>8, <1>9 DEF Full
<1> QED BY <1>4, <1>5, <1>8, <1>11, <1>12

-----------------------------------------------------------------------------
(***************************************************************************)
(* subtract                                                                *)
(***************************************************************************)
\* What min() returns.
LEMMA MinOfFacts ==
    ASSUME NEW g, Sound(g)
    PROVE  /\ MinOf(g) \in Words /\ IndexFor(g.lay, MinOf(g)) \in Nat
           /\ g.total # 0 /\ g.counts[0] = 0 => IndexFor(g.lay, MinOf(g)) = IndexFor(g.lay, g.min)
<1>1. MinNz(g) \in Words /\ IndexFor(g.lay, MinNz(g)) = IndexFor(g.lay, g.min)
  BY MinNzFacts
<1>2. MinOf(g) = IF g.total = 0 \/ g.counts[0] # 0 THEN 0 ELSE MinNz(g)
  BY DEF MinOf
<1>3. 0 \in Words /\ \A v \in Words : IndexFor(g.lay, v) \in Nat
  BY SoundFacts, Parameters
<1> QED BY <1>1, <1>2, <1>3

\* A value that needs no restat is in a slot between those of the two ends.
LEMMA SlotBetween ==
    ASSUME NEW L, ValidLayout(L), NEW v \in Words, NEW low \in Words, NEW high \in Words,
           ~(v <= HighestEquivalent(L, low)), ~(v >= LowestEquivalent(L, high))
    PROVE  IndexFor(L, low) < IndexFor(L, v) /\ IndexFor(L, v) < IndexFor(L, high)
<1> DEFINE x == HighestEquivalent(L, low)
           y == LowestEquivalent(L, high)
<1>1. MaxWord \in Nat /\ Words = 0..MaxWord
  BY Parameters
<1>2. x \in Words /\ y \in Words /\ IndexFor(L, x) = IndexFor(L, low)
      /\ IndexFor(L, y) = IndexFor(L, high)
  BY HighestInSlot
<1>3. LowestEquivalent(L, v) <= v /\ v <= HighestEquivalent(L, v)
      /\ low <= x /\ LowestEquivalent(L, v) \in Words /\ HighestEquivalent(L, v) \in Words
  BY EquivalentsAround, HighestInSlot
<1>4. \A u, w \in Words : IndexFor(L, u) = IndexFor(L, w) =>
        /\ LowestEquivalent(L, u) = LowestEquivalent(L, w)
        /\ u # MaxWord /\ w # MaxWord => HighestEquivalent(L, u) = HighestEquivalent(L, w)
  <2> TAKE u, w \in Words
  <2> QED BY HighestInSlot
<1>5. x < v /\ v < y
  <2> HIDE DEF x, y
  <2>1. x \in Nat /\ y \in Nat /\ v \in Nat
    BY <1>1, <1>2
  <2> QED BY <2>1 DEF x, y
<1>6. v # MaxWord /\ low # MaxWord
  <2> HIDE DEF x, y
  <2> QED BY <1>1, <1>2, <1>3, <1>5
<1>7. /\ IndexFor(L, low) \in Nat /\ IndexFor(L, v) \in Nat /\ IndexFor(L, high) \in Nat
      /\ IndexFor(L, low) <= IndexFor(L, v) /\ IndexFor(L, v) <= IndexFor(L, high)
  <2> HIDE DEF x, y
  <2>1. x <= v /\ v <= y
    BY <1>1, <1>2, <1>5
  <2> QED BY <1>2, <2>1, IndexMonotone
<1>8. IndexFor(L, low) # IndexFor(L, v)
  <2> SUFFICES ASSUME IndexFor(L, low) = IndexFor(L, v) PROVE FALSE
    OBVIOUS
  <2>1. x = HighestEquivalent(L, v)
    BY <1>4, <1>6
  <2> HIDE DEF x, y
  <2> QED BY <1>1, <1>2, <1>3, <1>5, <2>1
<1>9. IndexFor(L, v) # IndexFor(L, high)
  <2> SUFFICES ASSUME IndexFor(L, v) = IndexFor(L, high) PROVE FALSE
    OBVIOUS
  <2>1. y = LowestEquivalent(L, v)
    BY <1>4
  <2> HIDE DEF x, y
  <2> QED BY <1>1, <1>2, <1>3, <1>5, <2>1
<1> QED BY <1>7, <1>8, <1>9

\* No slot has more samples than all of them.
LEMMA SlotCounted ==
    ASSUME NEW n \in Nat, NEW c \in [0..(n - 1) -> Nat], NEW i \in 0..(n - 1)
    PROVE  c[i] <= Samples(c)
<1> DEFINE S == 0..(n - 1)
           T == S \ {i}
<1>1. IsFiniteSet(S) /\ Samples(c) = SumFunctionOnSet(c, S) /\ Samples(c) \in Nat
  BY ArrayFacts
<1>2. IsFiniteSet(T)
  BY <1>1, FS_Subset
<1>3. \A x \in S : c[x] \in Nat
  OBVIOUS
<1> HIDE DEF S, T
<1>4. SumFunctionOnSet(c, S) = c[i] + SumFunctionOnSet(c, T)
  <2>1. i \in S
    BY DEF S
  <2> QED BY <1>1, <1>3, <2>1, SumRemove DEF T
<1>5. SumFunctionOnSet(c, T) \in Nat
  <2>1. T \subseteq S
    BY DEF T
  <2> QED BY <1>2, <1>3, <2>1, SumType
<1>6. c[i] \in Nat
  OBVIOUS
<1> QED BY <1>1, <1>4, <1>5, <1>6

\* The minuend while the loop of subtract runs: fewer samples, the statistics of
\* the beginning, and, as long as no restat is due, slots that only lost samples
\* strictly between the two ends.
LessOf(g, a) ==
    LET c == a.h.counts
        t == a.h.total
        slots == 0..(Bins(g) - 1)
    IN  /\ a.h = With(g, c, g.max, g.min, t)
        /\ c \in [slots -> 0..CounterMax] /\ t \in Words
        /\ \A i \in slots : c[i] <= g.counts[i]
        /\ t >= Min({Samples(c), MaxWord})
        /\ ~a.restat =>
             /\ g.total < MaxWord /\ t >= Samples(c) /\ (Exact(g) => t = Samples(c))
             /\ \A i \in slots : c[i] # g.counts[i] =>
                  IndexFor(g.lay, MinOf(g)) < i /\ i < IndexFor(g.lay, g.max)

Minuends(g) ==
    {a \in [err : {"none", "SubtrahendCountExceedsMinuendCount"},
            h : Histograms, restat : BOOLEAN] : LessOf(g, a)}

\* One slot of the minuend loses samples.
LEMMA TakenOut ==
    ASSUME NEW g, Sound(g), NEW a \in Minuends(g), NEW k \in 0..(Bins(g) - 1),
           NEW n \in Nat, n <= a.h.counts[k]
    PROVE  LET c == a.h.counts
               e == [c EXCEPT ![k] = c[k] - n]
           IN  /\ [a.h EXCEPT !.counts[k] = @ - n] = With(g, e, g.max, g.min, a.h.total)
               /\ e \in [0..(Bins(g) - 1) -> 0..CounterMax]
               /\ \A i \in 0..(Bins(g) - 1) : /\ e[i] <= g.counts[i]
                                              /\ i # k => e[i] = c[i]
               /\ Samples(c) \in Nat /\ Samples(e) \in Nat
               /\ Samples(e) + n = Samples(c)
<1> DEFINE c == a.h.counts
           t == a.h.total
           x == c[k] - n
           e == [c EXCEPT ![k] = x]
           N == Bins(g)
<1>1. /\ N \in Nat /\ CounterMax \in Nat
      /\ g.counts \in [0..(N - 1) -> 0..CounterMax]
  BY SoundFacts, Parameters
<1>2. /\ a.h = With(g, c, g.max, g.min, t) /\ c \in [0..(N - 1) -> 0..CounterMax]
      /\ \A i \in 0..(N - 1) : c[i] <= g.counts[i]
  BY DEF Minuends, LessOf
<1>3. [a.h EXCEPT !.counts[k] = @ - n] = With(g, e, g.max, g.min, t)
  <2>1. [a.h EXCEPT !.counts[k] = @ - n] = [a.h EXCEPT !.counts = e]
    OBVIOUS
  <2>2. [With(g, c, g.max, g.min, t) EXCEPT !.counts = e] = With(g, e, g.max, g.min, t)
    <3> HIDE DEF e, c, t
    <3> QED BY DEF With
  <2> HIDE DEF e, c, t
  <2> QED BY <1>2, <2>1, <2>2
<1> HIDE DEF N, c, t
<1>4. c[k] \in 0..CounterMax /\ n <= c[k] /\ k \in 0..(N - 1) /\ c[k] <= g.counts[k]
      /\ g.counts[k] \in 0..CounterMax
  BY <1>1, <1>2 DEF N, c
<1>5. x \in Nat /\ x \in 0..CounterMax /\ x + n = c[k] /\ x <= g.counts[k]
  <2> DEFINE y == c[k]
             z == g.counts[k]
  <2>1. y \in 0..CounterMax /\ z \in 0..CounterMax /\ n \in Nat /\ n <= y /\ y <= z
        /\ CounterMax \in Nat /\ x = y - n
    BY <1>1, <1>4
  <2> HIDE DEF x, y, z
  <2>2. x \in Nat /\ x \in 0..CounterMax /\ x + n = y /\ x <= z
    BY ONLY <2>1
  <2> QED BY <2>2 DEF y, z
<1>6. /\ e \in [0..(N - 1) -> 0..CounterMax] /\ e[k] = x
      /\ \A i \in 0..(N - 1) : i # k => e[i] = c[i]
  <2> HIDE DEF x
  <2> QED BY <1>2, <1>4, <1>5
<1>7. \A i \in 0..(N - 1) : e[i] <= g.counts[i]
  <2> TAKE i \in 0..(N - 1)
  <2> HIDE DEF e, x
  <2>1. CASE i = k
    BY <1>5, <1>6, <2>1
  <2>2. CASE i # k
    BY <1>2, <1>6, <2>2
  <2> QED BY <2>1, <2>2
<1>8. c \in [0..(N - 1) -> Nat] /\ e \in [0..(N - 1) -> Nat]
  <2>1. 0..CounterMax \subseteq Nat
    BY <1>1
  <2> HIDE DEF e
  <2> QED BY <1>2, <1>6, <2>1
<1>9. Samples(e) + c[k] = Samples(c) + x
  <2>1. N \in Nat /\ c \in [0..(N - 1) -> Nat] /\ k \in 0..(N - 1) /\ x \in Nat
    BY <1>1, <1>4, <1>5, <1>8
  <2> HIDE DEF x
  <2> QED BY <2>1, SamplesWith, Zenon
<1>10. Samples(c) \in Nat /\ Samples(e) \in Nat
  <2> HIDE DEF e
  <2> QED BY <1>1, <1>8, ArrayFacts
<1> HIDE DEF e, x
<1>11. Samples(e) + n = Samples(c)
  BY <1>4, <1>5, <1>9, <1>10
<1> QED BY <1>3, <1>6, <1>7, <1>10, <1>11 DEF e, x, N, c, t

\* The counts of the minuend after one turn, when a restat is due at the end.
LEMMA TakenForRestat ==
    ASSUME NEW g, Sound(g), NEW a \in Minuends(g), NEW k \in 0..(Bins(g) - 1),
           NEW n \in Nat, n <= a.h.counts[k]
    PROVE  [a EXCEPT !.h = [a.h EXCEPT !.counts[k] = @ - n], !.restat = TRUE] \in Minuends(g)
<1> DEFINE c == a.h.counts
           t == a.h.total
           e == [c EXCEPT ![k] = c[k] - n]
           w == With(g, e, g.max, g.min, t)
           f == [a.h EXCEPT !.counts[k] = @ - n]
           b == [a EXCEPT !.h = f, !.restat = TRUE]
<1>1. /\ f = w /\ e \in [0..(Bins(g) - 1) -> 0..CounterMax]
      /\ \A i \in 0..(Bins(g) - 1) : e[i] <= g.counts[i] /\ (i # k => e[i] = c[i])
      /\ Samples(c) \in Nat /\ Samples(e) \in Nat
      /\ Samples(e) + n = Samples(c)
  BY TakenOut
<1> HIDE DEF e, f
<1>2. a \in [err : {"none", "SubtrahendCountExceedsMinuendCount"}, h : Histograms, restat : BOOLEAN]
      /\ t \in Words /\ t >= Min({Samples(c), MaxWord})
  BY DEF Minuends, LessOf
<1>3. b = [err |-> a.err, h |-> w, restat |-> TRUE]
  <2> DEFINE b1 == [a EXCEPT !.h = f]
             r == [err |-> a.err, h |-> w, restat |-> a.restat]
  <2> HIDE DEF w
  <2>1. b1 = r
    BY <1>1, <1>2
  <2>2. b = [b1 EXCEPT !.restat = TRUE]
    BY <1>2
  <2>3. [r EXCEPT !.restat = TRUE] = [err |-> a.err, h |-> w, restat |-> TRUE]
    <3>1. ASSUME NEW p, NEW q, NEW s, NEW x
          PROVE  [[err |-> p, h |-> q, restat |-> s] EXCEPT !.restat = x]
                   = [err |-> p, h |-> q, restat |-> x]
      OBVIOUS
    <3> QED BY <3>1, Zenon
  <2> HIDE DEF b1, r, b
  <2> QED BY <2>1, <2>2, <2>3
<1>4. w \in Histograms /\ w.counts = e /\ w.total = t /\ w = With(g, w.counts, g.max, g.min, w.total)
  <2>1. g \in Histograms /\ g.max \in Words /\ g.min \in Words /\ Bins(g) \in Nat
    BY SoundFacts
  <2>2. e \in CountArrays
    BY <1>1, <2>1 DEF CountArrays
  <2> HIDE DEF t
  <2> QED BY <1>2, <2>1, <2>2, WithFields
<1>5. t >= Min({Samples(e), MaxWord})
  <2> DEFINE p == Samples(c)
             q == Samples(e)
  <2>1. p \in Nat /\ q \in Nat /\ q <= p /\ MaxWord \in Nat /\ t \in Nat
    BY <1>1, <1>2, Parameters
  <2>2. t >= Min({p, MaxWord})
    BY <1>2
  <2> HIDE DEF p, q, t
  <2>3. Min({p, MaxWord}) = (IF p <= MaxWord THEN p ELSE MaxWord)
        /\ Min({q, MaxWord}) = (IF q <= MaxWord THEN q ELSE MaxWord)
    BY <2>1, MinOfTwo
  <2>4. t >= Min({q, MaxWord})
    BY <2>1, <2>2, <2>3
  <2> QED BY <2>4 DEF q
<1> HIDE DEF w, c, t
<1>6. b.err = a.err /\ b.h = w /\ b.restat = TRUE
      /\ b \in [err : {"none", "SubtrahendCountExceedsMinuendCount"}, h : Histograms, restat : BOOLEAN]
  BY <1>2, <1>3, <1>4
<1> HIDE DEF b
<1>7. LessOf(g, b)
  BY <1>1, <1>2, <1>4, <1>5, <1>6 DEF LessOf
<1> QED BY <1>6, <1>7 DEF Minuends, b, f

\* The same, when none is: the total follows.
LEMMA TakenFromTotal ==
    ASSUME NEW g, Sound(g), NEW a \in Minuends(g), NEW k \in 0..(Bins(g) - 1),
           NEW n \in Nat, n <= a.h.counts[k], ~a.restat,
           IndexFor(g.lay, MinOf(g)) < k, k < IndexFor(g.lay, g.max)
    PROVE  LET f == [a.h EXCEPT !.counts[k] = @ - n]
           IN  /\ f.total \in Nat /\ ~(f.total < n)
               /\ [a EXCEPT !.h = [f EXCEPT !.total = @ - n]] \in Minuends(g)
<1> DEFINE c == a.h.counts
           t == a.h.total
           e == [c EXCEPT ![k] = c[k] - n]
           w == With(g, e, g.max, g.min, t)
           f == [a.h EXCEPT !.counts[k] = @ - n]
           u == t - n
           z == With(g, e, g.max, g.min, u)
           b == [a EXCEPT !.h = [f EXCEPT !.total = @ - n]]
<1>1. /\ f = w /\ e \in [0..(Bins(g) - 1) -> 0..CounterMax]
      /\ \A i \in 0..(Bins(g) - 1) : e[i] <= g.counts[i] /\ (i # k => e[i] = c[i])
      /\ Samples(c) \in Nat /\ Samples(e) \in Nat
      /\ Samples(e) + n = Samples(c)
  BY TakenOut
<1> HIDE DEF e, f
<1>2. /\ a \in [err : {"none", "SubtrahendCountExceedsMinuendCount"}, h : Histograms, restat : BOOLEAN]
      /\ t \in Words /\ g.total < MaxWord /\ t >= Samples(c) /\ (Exact(g) => t = Samples(c))
      /\ \A i \in 0..(Bins(g) - 1) : c[i] # g.counts[i] =>
           IndexFor(g.lay, MinOf(g)) < i /\ i < IndexFor(g.lay, g.max)
  BY DEF Minuends, LessOf
<1>3. f.total = t /\ [f EXCEPT !.total = @ - n] = z
  <2>1. w.total = t
    BY DEF With
  <2> DEFINE y == [w EXCEPT !.total = u]
  <2>2. y = z
    <3> HIDE DEF u
    <3> QED BY DEF With
  <2> HIDE DEF w, z
  <2> QED BY <1>1, <2>1, <2>2
<1>4. /\ t \in Nat /\ MaxWord \in Nat /\ u \in Nat /\ u \in Words /\ u >= Samples(e)
      /\ (Exact(g) => u = Samples(e)) /\ ~(t < n)
  <2> DEFINE p == Samples(c)
             q == Samples(e)
  <2>1. p \in Nat /\ q \in Nat /\ q + n = p /\ MaxWord \in Nat /\ t \in 0..MaxWord /\ t >= p
        /\ (Exact(g) => t = p) /\ Words = 0..MaxWord
    BY <1>1, <1>2, Parameters
  <2> HIDE DEF p, q, t
  <2>2. u \in 0..MaxWord /\ u >= q /\ ~(t < n)
    BY <2>1
  <2>3. Exact(g) => u = q
    BY <2>1
  <2>4. t \in Nat /\ u \in Nat
    BY <2>1, <2>2
  <2> HIDE DEF u
  <2> QED BY <2>1, <2>2, <2>3, <2>4 DEF q
<1> HIDE DEF u, c
<1>5. b = [err |-> a.err, h |-> z, restat |-> a.restat]
  <2> HIDE DEF z
  <2> QED BY <1>2, <1>3
<1>6. z \in Histograms /\ z.counts = e /\ z.total = u /\ z = With(g, z.counts, g.max, g.min, z.total)
  <2>1. g \in Histograms /\ g.max \in Words /\ g.min \in Words /\ Bins(g) \in Nat
    BY SoundFacts
  <2>2. e \in CountArrays
    BY <1>1, <2>1 DEF CountArrays
  <2> QED BY <1>4, <2>1, <2>2, WithFields
<1>7. u >= Min({Samples(e), MaxWord})
  <2> DEFINE q == Samples(e)
  <2>1. q \in Nat /\ u \in Nat /\ u >= q /\ MaxWord \in Nat
    BY <1>1, <1>4
  <2> HIDE DEF q
  <2>2. Min({q, MaxWord}) = (IF q <= MaxWord THEN q ELSE MaxWord)
    BY <2>1, MinOfTwo
  <2>3. u >= Min({q, MaxWord})
    BY <2>1, <2>2
  <2> QED BY <2>3 DEF q
<1>8. \A i \in 0..(Bins(g) - 1) : e[i] # g.counts[i] =>
         IndexFor(g.lay, MinOf(g)) < i /\ i < IndexFor(g.lay, g.max)
  <2> TAKE i \in 0..(Bins(g) - 1)
  <2> HAVE e[i] # g.counts[i]
  <2>1. CASE i = k
    BY <2>1
  <2>2. CASE i # k
    BY <1>1, <1>2, <2>2
  <2> QED BY <2>1, <2>2
<1> HIDE DEF z, w, t
<1>9. b.err = a.err /\ b.h = z /\ b.restat = a.restat
      /\ b \in [err : {"none", "SubtrahendCountExceedsMinuendCount"}, h : Histograms, restat : BOOLEAN]
  BY <1>2, <1>5, <1>6
<1> HIDE DEF b
<1>10. LessOf(g, b)
  BY <1>1, <1>2, <1>4, <1>6, <1>7, <1>8, <1>9 DEF LessOf
<1>11. b \in Minuends(g)
  BY <1>9, <1>10 DEF Minuends
<1> QED BY <1>3, <1>4, <1>11 DEF b, f

\* The ends between which subtract needs no restat.
LowEnd(g) == HighestEquivalent(g.lay, MinOf(g))
HighEnd(g) == LowestEquivalent(g.lay, MaxOf(g))

\* One turn of the loop of subtract: no index and no total fails.
LEMMA SlotSubtracted ==
    ASSUME NEW g, Sound(g), NEW s, Sound(s), ~(Top(g) < HighestEquivalent(g.lay, MaxOf(s))),
           NEW a \in Minuends(g), NEW i \in DOMAIN s.counts
    PROVE  SubtractSlot(a, s, i, LowEnd(g), HighEnd(g)) \in Minuends(g)
<1> DEFINE v == ValueFor(s.lay, i)
           n == s.counts[i]
           k == IndexFor(a.h.lay, v)
           f == [a.h EXCEPT !.counts[k] = @ - n]
           restat == a.restat \/ v <= LowEnd(g) \/ v >= HighEnd(g)
           r == SubtractSlot(a, s, i, LowEnd(g), HighEnd(g))
<1>1. r = IF a.err # "none" \/ n = 0 THEN a
          ELSE IF k \notin DOMAIN a.h.counts THEN [a EXCEPT !.err = "panic"]
          ELSE IF a.h.counts[k] < n
            THEN [a EXCEPT !.err = "SubtrahendCountExceedsMinuendCount"]
          ELSE IF restat THEN [a EXCEPT !.h = f, !.restat = TRUE]
          ELSE IF f.total < n THEN [a EXCEPT !.h = f, !.err = "panic"]
          ELSE [a EXCEPT !.h = [f EXCEPT !.total = @ - n]]
  BY Zenon DEF SubtractSlot
<1>2. CASE a.err # "none" \/ n = 0
  <2>1. r = a
    <3> HIDE DEF n, k, f, restat, r
    <3> QED BY <1>1, <1>2, Zenon
  <2> QED BY <2>1, Zenon
<1>3. CASE ~(a.err # "none" \/ n = 0)
  <2>1. /\ ValidLayout(g.lay) /\ DOMAIN g.counts = 0..(Bins(g) - 1) /\ Bins(g) \in Nat
        /\ g.counts \in [0..(Bins(g) - 1) -> 0..CounterMax]
    BY SoundFacts
  <2>2. n \in Nat
    <3>1. s.counts \in [0..(Bins(s) - 1) -> 0..CounterMax] /\ DOMAIN s.counts = 0..(Bins(s) - 1)
      BY SoundFacts
    <3>2. 0..CounterMax \subseteq Nat
      BY Parameters
    <3>3. n \in 0..CounterMax
      BY <3>1
    <3> HIDE DEF n
    <3> QED BY <3>2, <3>3
  <2>3. a.h.lay = g.lay /\ DOMAIN a.h.counts = 0..(Bins(g) - 1)
        /\ a.h.counts \in [0..(Bins(g) - 1) -> 0..CounterMax]
    <3>1. a.h = With(g, a.h.counts, g.max, g.min, a.h.total)
          /\ a.h.counts \in [0..(Bins(g) - 1) -> 0..CounterMax]
      BY DEF Minuends, LessOf
    <3>2. a.h.lay = g.lay
      BY <3>1 DEF With
    <3> QED BY <3>1, <3>2
  <2>4. v \in Words /\ v <= MaxOf(s) /\ MaxOf(s) \in Words
    <3>1. i \in NonZero(s)
      BY <1>3 DEF NonZero
    <3> QED BY <3>1, MaxOfFacts
  <2> HIDE DEF v, n
  <2>5. InRange(g, v)
    <3> DEFINE x == HighestEquivalent(g.lay, MaxOf(s))
    <3>1. x \in Words /\ MaxOf(s) <= x
      BY <2>1, <2>4, HighestInSlot, EquivalentsAround
    <3>2. Top(g) \in Words /\ \A u \in Words : u <= Top(g) => InRange(g, u)
      BY TopFacts
    <3>3. ~(Top(g) < x)
      OBVIOUS
    <3>4. Words = 0..MaxWord /\ MaxWord \in Nat
      BY Parameters
    <3> HIDE DEF x
    <3>5. v <= Top(g)
      BY <2>4, <3>1, <3>2, <3>3, <3>4
    <3> QED BY <2>4, <3>2, <3>5
  <2>6. k \in 0..(Bins(g) - 1) /\ k = IndexFor(g.lay, v)
    BY <2>1, <2>3, <2>5 DEF InRange
  <2> HIDE DEF k
  <2>7. a.h.counts[k] \in Nat
    <3>1. 0..CounterMax \subseteq Nat
      BY Parameters
    <3>2. a.h.counts[k] \in 0..CounterMax
      BY <2>3, <2>6
    <3> QED BY <3>1, <3>2, Zenon
  <2>8. CASE a.h.counts[k] < n
    <3> DEFINE b == [a EXCEPT !.err = "SubtrahendCountExceedsMinuendCount"]
    <3>1. r = b
      <4> HIDE DEF r, f, restat, b
      <4>1. k \in DOMAIN a.h.counts
        BY <2>3, <2>6
      <4>2. r = [a EXCEPT !.err = "SubtrahendCountExceedsMinuendCount"]
        BY <1>1, <1>3, <2>8, <4>1, Zenon
      <4> QED BY <4>2 DEF b
    <3>2. a \in [err : {"none", "SubtrahendCountExceedsMinuendCount"}, h : Histograms, restat : BOOLEAN]
          /\ LessOf(g, a)
      BY DEF Minuends
    <3>3. b.h = a.h /\ b.restat = a.restat
          /\ b \in [err : {"none", "SubtrahendCountExceedsMinuendCount"}, h : Histograms, restat : BOOLEAN]
      BY <3>2
    <3> HIDE DEF b
    <3>4. LessOf(g, b)
      BY <3>2, <3>3, Zenon DEF LessOf
    <3>5. b \in Minuends(g)
      BY <3>3, <3>4 DEF Minuends
    <3> QED BY <3>1, <3>5
  <2>9. CASE ~(a.h.counts[k] < n)
    <3>1. n <= a.h.counts[k] /\ k \in DOMAIN a.h.counts
      BY <2>2, <2>3, <2>6, <2>7, <2>9
    <3>2. CASE restat
      <4>1. r = [a EXCEPT !.h = f, !.restat = TRUE]
        <5> HIDE DEF r, f, restat
        <5> QED BY <1>1, <1>3, <2>9, <3>1, <3>2, Zenon
      <4>2. [a EXCEPT !.h = f, !.restat = TRUE] \in Minuends(g)
        BY <2>2, <2>6, <3>1, TakenForRestat
      <4> QED BY <4>1, <4>2, Zenon
    <3>3. CASE ~restat
      <4>1. ~a.restat /\ ~(v <= LowEnd(g)) /\ ~(v >= HighEnd(g))
        BY <3>3
      <4>2. MinOf(g) \in Words /\ MaxOf(g) \in Words
            /\ IndexFor(g.lay, MaxOf(g)) = IndexFor(g.lay, g.max)
        BY MinOfFacts, MaxOfFacts
      <4>3. IndexFor(g.lay, MinOf(g)) < k /\ k < IndexFor(g.lay, g.max)
        BY <2>1, <2>4, <2>6, <4>1, <4>2, SlotBetween DEF LowEnd, HighEnd
      <4>4. ~(f.total < n) /\ [a EXCEPT !.h = [f EXCEPT !.total = @ - n]] \in Minuends(g)
        BY <2>2, <2>6, <3>1, <4>1, <4>3, TakenFromTotal
      <4>5. r = [a EXCEPT !.h = [f EXCEPT !.total = @ - n]]
        <5>1. ~(f.total < n)
          BY <4>4
        <5> HIDE DEF r, f, restat
        <5> QED BY <1>1, <1>3, <2>9, <3>1, <3>3, <5>1, Zenon
      <4> QED BY <4>4, <4>5, Zenon
    <3> QED BY <3>2, <3>3
  <2> QED BY <2>8, <2>9
<1> QED BY <1>2, <1>3

\* The table of the loop of subtract.
SubtractTable(base, s, minTop, maxLow) ==
    CHOOSE it : it = [t \in SUBSET (DOMAIN IndexSeq(s)) |->
                        IF t = {} THEN base
                        ELSE SubtractSlot(it[t \ {Max(t)}], s, IndexSeq(s)[Max(t)], minTop, maxLow)]

\* The loop of subtract.
LEMMA SubtractLoop ==
    ASSUME NEW g, Sound(g), NEW s, Sound(s), ~(Top(g) < HighestEquivalent(g.lay, MaxOf(s))),
           NEW base \in Minuends(g)
    PROVE  SubtractTable(base, s, LowEnd(g), HighEnd(g))[DOMAIN IndexSeq(s)] \in Minuends(g)
<1> DEFINE P == Minuends(g)
           m == Bins(s)
           D == 1..m
           q == IndexSeq(s)
           lo == LowEnd(g)
           hi == HighEnd(g)
           G == [z \in P \X D |-> SubtractSlot(z[1], s, q[z[2]], lo, hi)]
           Step(it, t) == IF t = {} THEN base ELSE SubtractSlot(it[t \ {Max(t)}], s, q[Max(t)], lo, hi)
           Eq(it) == it = [t \in SUBSET D |-> IF t = {} THEN base
                             ELSE SubtractSlot(it[t \ {Max(t)}], s, q[Max(t)], lo, hi)]
           T == SubtractTable(base, s, lo, hi)
<1>1. m \in Nat /\ DOMAIN q = D /\ \A k \in D : q[k] \in DOMAIN s.counts
  BY IndexesFacts
<1>2. ASSUME NEW y \in P, NEW i \in DOMAIN s.counts PROVE SubtractSlot(y, s, i, lo, hi) \in P
  BY SlotSubtracted
<1>3. base \in P
  OBVIOUS
<1> HIDE DEF P, m, q, lo, hi
<1>4. \A y \in P, k \in D : G[<<y, k>>] = SubtractSlot(y, s, q[k], lo, hi) /\ G[<<y, k>>] \in P
  BY <1>1, <1>2
<1> HIDE DEF G
<1>5. PICK it \in [SUBSET D -> P] : \A t \in SUBSET D :
        it[t] = IF t = {} THEN base ELSE G[<<it[t \ {Max(t)}], Max(t)>>]
  <2>1. \A y \in P, k \in 1..m : G[<<y, k>>] \in P
    BY <1>4
  <2>2. PICK it : Tabled(it, m, P, base, G)
    BY <1>1, <1>3, <2>1, TableExists, Zenon
  <2> QED BY <2>2 DEF Tabled
<1>6. \A t \in SUBSET D : t # {} => Max(t) \in D /\ t \ {Max(t)} \in SUBSET D
  BY <1>1, LastPosition
<1>7. Eq(it)
  <2>1. \A t \in SUBSET D : it[t] = Step(it, t)
    <3> TAKE t \in SUBSET D
    <3>1. CASE t = {}
      BY <1>5, <3>1
    <3>2. CASE t # {}
      <4>1. Max(t) \in D /\ it[t \ {Max(t)}] \in P
        BY <1>6, <3>2
      <4>2. it[t] = G[<<it[t \ {Max(t)}], Max(t)>>]
        BY <1>5, <3>2
      <4> QED BY <1>4, <3>2, <4>1, <4>2
    <3> QED BY <3>1, <3>2
  <2> QED BY <2>1
<1>8. Eq(T)
  <2>1. T = CHOOSE jt : Eq(jt)
    BY <1>1, Zenon DEF SubtractTable, q
  <2> HIDE DEF Eq
  <2> QED BY <1>7, <2>1
<1> HIDE DEF T
<1>9. \A t \in SUBSET D : T[t] = Step(T, t)
  BY <1>8
<1>10. T[D] \in P
  <2>1. T[{}] \in P
    BY <1>3, <1>9
  <2>2. ASSUME NEW t \in SUBSET D, t # {}, T[t \ {Max(t)}] \in P PROVE T[t] \in P
    <3>1. T[t] = SubtractSlot(T[t \ {Max(t)}], s, q[Max(t)], lo, hi) /\ Max(t) \in D
      BY <1>6, <1>9, <2>2
    <3> QED BY <1>1, <1>2, <2>2, <3>1
  <2> HIDE DEF Step, Eq
  <2> QED BY <1>1, <2>1, <2>2, TableStays
<1> QED BY <1>1, <1>10 DEF P, q, T, lo, hi

\* How the loop of subtract begins.
LEMMA SubtractBegins ==
    ASSUME NEW g, Sound(g)
    PROVE  [err |-> "none", h |-> g, restat |-> g.total = MaxWord] \in Minuends(g)
<1> DEFINE b == [err |-> "none", h |-> g, restat |-> g.total = MaxWord]
           c == g.counts
           p == Samples(c)
           t == g.total
<1>1. /\ g \in Histograms /\ Bins(g) \in Nat /\ c \in [0..(Bins(g) - 1) -> 0..CounterMax]
      /\ t \in Words /\ Words = 0..MaxWord /\ MaxWord \in Nat /\ 0..CounterMax \subseteq Nat
  BY SoundFacts, Parameters
<1>2. g = With(g, c, g.max, g.min, t)
  BY <1>1, WithItself
<1>3. c \in [0..(Bins(g) - 1) -> Nat]
  BY <1>1
<1>4. p \in Nat /\ SumCounts(g, NonZero(g)) = p
  BY <1>1, <1>3, SamplesInUse
<1>5. t >= Min({p, MaxWord}) /\ (Exact(g) => t = Min({p, MaxWord}))
  BY <1>4 DEF Sound, Within, Exact
<1>6. Min({p, MaxWord}) = IF p <= MaxWord THEN p ELSE MaxWord
  BY <1>1, <1>4, MinOfTwo
<1> HIDE DEF p, t
<1>7. t # MaxWord => t < MaxWord /\ t >= p /\ (Exact(g) => t = p)
  BY <1>1, <1>4, <1>5, <1>6
<1>8. \A i \in 0..(Bins(g) - 1) : c[i] <= g.counts[i]
  <2> TAKE i \in 0..(Bins(g) - 1)
  <2>1. c[i] \in Nat
    BY <1>3
  <2> QED BY <2>1
<1>9. /\ b.err = "none" /\ b.h = g /\ (b.restat <=> t = MaxWord)
      /\ b \in [err : {"none", "SubtrahendCountExceedsMinuendCount"}, h : Histograms, restat : BOOLEAN]
  BY <1>1 DEF t
<1> HIDE DEF b
<1>10. LessOf(g, b)
  <2>1. b.h.counts = c /\ b.h.total = t
    BY <1>9 DEF t
  <2>2. ~b.restat => /\ g.total < MaxWord /\ t >= Samples(c) /\ (Exact(g) => t = Samples(c))
                     /\ \A i \in 0..(Bins(g) - 1) : c[i] # g.counts[i] =>
                          IndexFor(g.lay, MinOf(g)) < i /\ i < IndexFor(g.lay, g.max)
    BY <1>7, <1>9 DEF p, t
  <2>3. t >= Min({Samples(c), MaxWord})
    BY <1>5 DEF p
  <2>4. b.h = With(g, c, g.max, g.min, t)
    BY <1>2, <1>9
  <2> HIDE DEF c
  <2> QED BY <1>1, <1>8, <2>1, <2>2, <2>3, <2>4, Zenon DEF LessOf
<1> QED BY <1>9, <1>10 DEF Minuends, b, t

\* How it ends: a sound histogram and, if no restat is due, exact when the minuend was.
LEMMA SubtractEnds ==
    ASSUME NEW g, Sound(g), NEW a \in Minuends(g)
    PROVE  Sound(a.h) /\ (~a.restat /\ Exact(g) => Exact(a.h))
<1> DEFINE c == a.h.counts
           t == a.h.total
           h == a.h
           slots == 0..(Bins(g) - 1)
           used == NonZero(g)
           first == IndexFor(g.lay, g.min)
           last == IndexFor(g.lay, g.max)
<1>1. /\ h = With(g, c, g.max, g.min, t)
      /\ c \in [slots -> 0..CounterMax] /\ t \in Words
      /\ \A i \in slots : c[i] <= g.counts[i]
      /\ t >= Min({Samples(c), MaxWord})
      /\ ~a.restat =>
           /\ g.total < MaxWord /\ t >= Samples(c) /\ (Exact(g) => t = Samples(c))
           /\ \A i \in slots : c[i] # g.counts[i] =>
                IndexFor(g.lay, MinOf(g)) < i /\ i < last
  BY Zenon DEF Minuends, LessOf
<1>2. /\ Bins(g) \in Nat \ {0} /\ g.counts \in [slots -> 0..CounterMax] /\ DOMAIN g.counts = slots
      /\ CounterMax \in Nat /\ MaxWord \in Nat /\ Words = 0..MaxWord /\ g.total \in Nat
  <2>1. g.total \in Words
    BY SoundFacts
  <2> QED BY <2>1, SoundFacts, Parameters
<1> HIDE DEF c, t, h
<1>3. \A i \in slots : c[i] # 0 => g.counts[i] # 0
  <2> TAKE i \in slots
  <2>1. c[i] \in Nat /\ g.counts[i] \in Nat /\ c[i] <= g.counts[i]
    <3>1. c[i] \in 0..CounterMax /\ g.counts[i] \in 0..CounterMax
      BY <1>1, <1>2
    <3> QED BY <1>1, <1>2, <3>1
  <2> QED BY <2>1
<1>4. /\ Sound(h) /\ SameRange(h, g) /\ h.counts = c
      /\ h.max = g.max /\ h.min = g.min /\ h.total = t
      /\ NonZero(h) = {i \in DOMAIN c : c[i] # 0} /\ NonZero(h) \subseteq used
      /\ SumCounts(h, NonZero(h)) = Samples(c) /\ Samples(c) \in Nat
  <2> DEFINE w == With(g, c, g.max, g.min, t)
  <2>1. /\ Sound(w) /\ SameRange(w, g) /\ w.counts = c
        /\ w.max = g.max /\ w.min = g.min /\ w.total = t
        /\ NonZero(w) = {i \in DOMAIN c : c[i] # 0} /\ NonZero(w) \subseteq used
        /\ SumCounts(w, NonZero(w)) = Samples(c) /\ Samples(c) \in Nat
    <3>1. /\ c \in [0..(Bins(g) - 1) -> 0..CounterMax] /\ t \in Words
          /\ \A i \in 0..(Bins(g) - 1) : c[i] # 0 => g.counts[i] # 0
          /\ t >= Min({Samples(c), MaxWord})
      BY <1>1, <1>3
    <3>2. Sound(w) /\ SameRange(w, g)
      BY <3>1, Lowered, Zenon
    <3>3. NonZero(w) \subseteq used
      BY <3>1, Lowered
    <3>4. SumCounts(w, NonZero(w)) = Samples(c)
      BY <3>1, Lowered, Zenon
    <3>5. Samples(c) \in Nat
      BY <3>1, Lowered
    <3>6. w.counts = c /\ w.max = g.max /\ w.min = g.min /\ w.total = t
      BY DEF With
    <3> HIDE DEF w
    <3>7. NonZero(w) = {i \in DOMAIN c : c[i] # 0}
      BY <3>6 DEF NonZero
    <3> QED BY <3>2, <3>3, <3>4, <3>5, <3>6, <3>7
  <2>2. h = w
    BY <1>1
  <2> HIDE DEF w
  <2> QED BY <2>1, <2>2
<1>5. ASSUME ~a.restat, Exact(g) PROVE Exact(h)
  <2>1. t = Samples(c) /\ \A i \in slots : c[i] # g.counts[i] => IndexFor(g.lay, MinOf(g)) < i /\ i < last
    BY <1>1, <1>5
  <2>2. /\ g.total = Min({SumCounts(g, used), MaxWord})
        /\ IF used = {} THEN last = 0 ELSE last \in used
        /\ \A i \in used \ {0} : first <= i
        /\ 0 \notin used => IF used = {} THEN g.min = ORIGINAL_MIN ELSE first \in used
    BY <1>5, Zenon DEF Exact
  <2>3. h.lay = g.lay /\ IndexFor(h.lay, h.max) = last /\ IndexFor(h.lay, h.min) = first
    BY <1>4 DEF SameRange
  <2>4. h.total = Min({SumCounts(h, NonZero(h)), MaxWord})
    <3> DEFINE p == Samples(c)
    <3>1. p \in Nat /\ t = p /\ p \in Words
      BY <1>1, <1>4, <2>1
    <3> HIDE DEF p
    <3>2. Min({p, MaxWord}) = IF p <= MaxWord THEN p ELSE MaxWord
      BY <1>2, <3>1, MinOfTwo
    <3>3. Min({p, MaxWord}) = p
      BY <1>2, <3>1, <3>2
    <3> QED BY <1>4, <3>1, <3>3 DEF p
  <2>5. \A i \in slots : i \in NonZero(h) <=> c[i] # 0
    BY <1>1, <1>4
  <2>6. \A i \in slots : i \in used <=> g.counts[i] # 0
    BY <1>2 DEF NonZero
  <2>7. used \subseteq slots /\ last \in Nat /\ first \in Nat /\ IndexFor(g.lay, MinOf(g)) \in Nat
        /\ (g.total # 0 /\ g.counts[0] = 0 => IndexFor(g.lay, MinOf(g)) = first)
        /\ slots \subseteq Nat
    <3>1. last \in Nat /\ first \in Nat
      BY SoundFacts
    <3>2. used \subseteq slots
      BY <1>2 DEF NonZero
    <3>3. slots \subseteq Nat
      BY <1>2
    <3> QED BY <3>1, <3>2, <3>3, MinOfFacts
  <2>8. ASSUME used # {} PROVE last \in NonZero(h)
    <3>1. last \in used /\ last \in slots
      BY <2>2, <2>7, <2>8
    <3>2. c[last] = g.counts[last]
      <4>1. ~(last < last)
        BY <2>7
      <4> QED BY <2>1, <3>1, <4>1
    <3> QED BY <2>5, <2>6, <3>1, <3>2
  <2>9. ASSUME 0 \notin NonZero(h), used # {} PROVE 0 \notin used /\ first \in NonZero(h)
    <3>1. 0 \in slots
      BY <1>2
    <3>2. c[0] = g.counts[0]
      <4>1. ~(IndexFor(g.lay, MinOf(g)) < 0)
        BY <2>7
      <4> QED BY <2>1, <3>1, <4>1
    <3>3. 0 \notin used /\ g.counts[0] = 0
      BY <2>5, <2>6, <2>9, <3>1, <3>2
    <3>4. g.total # 0
      <4> SUFFICES ASSUME g.total = 0 PROVE FALSE
        OBVIOUS
      <4>1. g.counts \in [0..(Bins(g) - 1) -> Nat]
        BY <1>2
      <4>2. SumCounts(g, used) = Samples(g.counts) /\ Samples(g.counts) \in Nat
        BY <1>2, <4>1, SamplesInUse
      <4> DEFINE p == Samples(g.counts)
      <4>3. Min({p, MaxWord}) = IF p <= MaxWord THEN p ELSE MaxWord
        BY <1>2, <4>2, MinOfTwo
      <4>4. 0 = Min({p, MaxWord})
        BY <2>2, <4>2
      <4>5. g.total < MaxWord
        BY <1>1, <1>5
      <4>6. last \in used /\ last \in slots
        BY <2>2, <2>7, <2>9
      <4>7. g.counts[last] <= p /\ g.counts[last] # 0 /\ g.counts[last] \in Nat
        BY <1>2, <2>6, <4>1, <4>6, SlotCounted
      <4> HIDE DEF p
      <4>8. p \in Nat
        BY <4>2 DEF p
      <4> QED BY <1>2, <4>3, <4>4, <4>5, <4>7, <4>8
    <3>5. first \in used /\ first \in slots
      BY <2>2, <2>7, <2>9, <3>3
    <3>6. c[first] = g.counts[first]
      <4>1. IndexFor(g.lay, MinOf(g)) = first /\ ~(first < first)
        BY <2>7, <3>3, <3>4
      <4> QED BY <2>1, <3>5, <4>1
    <3> QED BY <2>5, <2>6, <3>3, <3>5, <3>6
  <2>10. IF NonZero(h) = {} THEN last = 0 ELSE last \in NonZero(h)
    <3>1. CASE used = {}
      BY <1>4, <2>2, <3>1
    <3>2. CASE used # {}
      BY <2>8, <3>2
    <3> QED BY <3>1, <3>2
  <2>11. \A i \in NonZero(h) \ {0} : first <= i
    BY <1>4, <2>2
  <2>12. 0 \notin NonZero(h) => IF NonZero(h) = {} THEN h.min = ORIGINAL_MIN ELSE first \in NonZero(h)
    <3>1. CASE used = {}
      BY <1>4, <2>2, <3>1
    <3>2. CASE used # {}
      BY <2>8, <2>9, <3>2
    <3> QED BY <3>1, <3>2
  <2> QED BY <2>3, <2>4, <2>10, <2>11, <2>12, Zenon DEF Exact
<1> QED BY <1>4, <1>5 DEF h

\* subtract does not panic; unless it ended half-way, the statistics are still exact.
LEMMA Subtracted ==
    ASSUME NEW g, Sound(g), NEW s, Sound(s)
    PROVE  LET r == Subtract(g, s)
           IN  /\ r \in Results /\ Sound(r.h)
               /\ r.err # "SubtrahendCountExceedsMinuendCount" /\ Exact(g) => Exact(r.h)
<1> DEFINE r == Subtract(g, s)
           base == [err |-> "none", h |-> g, restat |-> g.total = MaxWord]
           end == SubtractTable(base, s, LowEnd(g), HighEnd(g))[DOMAIN IndexSeq(s)]
           far == Top(g) < HighestEquivalent(g.lay, MaxOf(s))
<1>1. r = IF far THEN Fail("SubtrahendValueExceedsMinuendRange", g)
          ELSE IF end.err = "none" /\ end.restat THEN Ok(Restat(end.h))
          ELSE [err |-> end.err, h |-> end.h]
  <2> DEFINE fold == FoldLeft(LAMBDA acc, i : SubtractSlot(acc, s, i, LowEnd(g), HighEnd(g)),
                              base, IndexSeq(s))
  <2>1. fold = end
    BY Zenon DEF FoldLeft, MapThenFoldSet, SubtractTable
  <2>2. r = IF far THEN Fail("SubtrahendValueExceedsMinuendRange", g)
            ELSE IF fold.err = "none" /\ fold.restat THEN Ok(Restat(fold.h))
            ELSE [err |-> fold.err, h |-> fold.h]
    BY Zenon DEF Subtract, LowEnd, HighEnd
  <2> HIDE DEF fold, end, r, far
  <2> QED BY <2>1, <2>2, Zenon
<1>2. g \in Histograms
  BY SoundFacts
<1> HIDE DEF r, end
<1>3. CASE far
  <2>1. r = [err |-> "SubtrahendValueExceedsMinuendRange", h |-> g]
    BY <1>1, <1>3, Zenon DEF Fail
  <2> QED BY <1>2, <2>1 DEF Results, Errors, r
<1>4. CASE ~far
  <2>1. end \in Minuends(g)
    BY <1>4, SubtractBegins, SubtractLoop DEF end
  <2>2. end \in [err : {"none", "SubtrahendCountExceedsMinuendCount"}, h : Histograms, restat : BOOLEAN]
    BY <2>1 DEF Minuends
  <2>3. Sound(end.h) /\ (~end.restat /\ Exact(g) => Exact(end.h))
    BY <2>1, SubtractEnds
  <2> HIDE DEF far
  <2>4. CASE end.err = "none" /\ end.restat
    <3>1. r = [err |-> "none", h |-> Restat(end.h)]
      BY <1>1, <1>4, <2>4, Zenon DEF Ok
    <3>2. Sound(Restat(end.h)) /\ Exact(Restat(end.h))
      BY <2>3, RestatExact
    <3>3. Restat(end.h) \in Histograms
      BY <3>2, SoundFacts
    <3> DEFINE h == Restat(end.h)
    <3> HIDE DEF h
    <3>4. r.err = "none" /\ r.h = h /\ r \in Results
      BY <3>1, <3>3 DEF Results, h
    <3> QED BY <3>2, <3>4 DEF h, r
  <2>5. CASE ~(end.err = "none" /\ end.restat)
    <3>1. r = [err |-> end.err, h |-> end.h]
      BY <1>1, <1>4, <2>5, Zenon
    <3>2. r.err = end.err /\ r.h = end.h /\ r \in Results
      BY <2>2, <3>1 DEF Results, Errors
    <3>3. end.err # "SubtrahendCountExceedsMinuendCount" => ~end.restat
      BY <2>2, <2>5
    <3> QED BY <2>3, <3>2, <3>3 DEF r
  <2> QED BY <2>4, <2>5
<1> QED BY <1>3, <1>4

-----------------------------------------------------------------------------
(***************************************************************************)
(* add_correct                                                             *)
(***************************************************************************)
\* A finite set of numbers has as many positions as members.
LEMMA KthExists ==
    ASSUME NEW b \in Nat, NEW S \in SUBSET (0..b), NEW k \in 1..Cardinality(S)
    PROVE  \E i \in S : Cardinality({j \in S : j < i}) = k - 1
<1> DEFINE At(T, i) == Cardinality({j \in T : j < i})
           P == {n \in Nat : \A T \in SUBSET (0..b) :
                   Cardinality(T) = n => \A q \in 1..n : \E i \in T : At(T, i) = q - 1}
<1>1. \A T \in SUBSET (0..b) : IsFiniteSet(T)
  <2>1. 0 \in Int /\ b \in Int
    OBVIOUS
  <2>2. IsFiniteSet(0..b)
    BY <2>1, FS_Interval
  <2> QED BY <2>2, FS_Subset
<1>2. 0 \in P
  OBVIOUS
<1>3. ASSUME NEW n \in Nat, n \in P PROVE n + 1 \in P
  <2> SUFFICES ASSUME NEW T \in SUBSET (0..b), Cardinality(T) = n + 1, NEW q \in 1..(n + 1)
               PROVE  \E i \in T : At(T, i) = q - 1
    OBVIOUS
  <2> DEFINE m == Max(T)
             R == T \ {m}
  <2>1. T # {}
    <3> SUFFICES ASSUME T = {} PROVE FALSE
      OBVIOUS
    <3>1. Cardinality(T) = 0
      BY FS_EmptySet
    <3> QED BY <3>1
  <2>2. m \in T /\ \A y \in T : y <= m
    BY <2>1, MaxOfNats
  <2> HIDE DEF m
  <2>3. IsFiniteSet(T) /\ R \in SUBSET (0..b)
    BY <1>1
  <2>4. Cardinality(R) = n
    <3>1. Cardinality(R) = Cardinality(T) - 1
      BY <2>2, <2>3, FS_RemoveElement
    <3> QED BY <3>1
  <2>5. CASE q = n + 1
    <3>1. {j \in T : j < m} = R
      <4>1. m \in Int /\ \A j \in T : j \in Int /\ j <= m
        BY <2>2
      <4>2. \A j \in T : j < m <=> j # m
        BY <4>1
      <4> QED BY <4>2
    <3>2. At(T, m) = Cardinality(R)
      BY <3>1, Zenon
    <3>3. Cardinality(R) = q - 1
      BY <2>4, <2>5
    <3> HIDE DEF R, At
    <3> QED BY <2>2, <3>2, <3>3
  <2>6. CASE q \in 1..n
    <3>1. PICK i \in R : At(R, i) = q - 1
      BY <1>3, <2>3, <2>4, <2>6
    <3>2. {j \in T : j < i} = {j \in R : j < i}
      <4>1. ~(m < i)
        BY <2>2
      <4> QED BY <4>1
    <3> QED BY <3>1, <3>2
  <2> QED BY <2>5, <2>6
<1>4. Nat \subseteq P
  <2> HIDE DEF P
  <2> QED BY <1>2, <1>3, NatSetInduction
<1>5. Cardinality(S) \in P
  <2>1. Cardinality(S) \in Nat
    BY <1>1, FS_CardinalityType
  <2> QED BY <1>4, <2>1
<1> QED BY <1>5

\* iter_recorded yields slots in use.
LEMMA RecordedSlots ==
    ASSUME NEW s, Sound(s)
    PROVE  \E m \in Nat : /\ DOMAIN IterRecorded(s) = 1..m
                          /\ \A k \in 1..m : IterRecorded(s)[k] \in NonZero(s)
<1> DEFINE S == {i \in NonZero(s) : IndexFor(s.lay, MaxOf(s)) > 0 /\ i <= IndexFor(s.lay, MaxOf(s))}
           b == Bins(s)
           m == Cardinality(S)
           q == IterRecorded(s)
<1>1. b \in Nat /\ DOMAIN s.counts = 0..(b - 1)
  BY SoundFacts
<1>2. NonZero(s) \subseteq 0..b
  <2> HIDE DEF b
  <2> QED BY <1>1 DEF NonZero
<1>3. S \in SUBSET (0..b) /\ S \subseteq NonZero(s)
  BY <1>2
<1>4. q = [k \in 1..m |-> Kth(S, k)]
  BY Zenon DEF IterRecorded
<1> HIDE DEF S, b, q
<1>5. m \in Nat
  <2>1. IsFiniteSet(0..b)
    <3>1. 0 \in Int /\ b \in Int
      BY <1>1
    <3> QED BY <3>1, FS_Interval
  <2>2. IsFiniteSet(S)
    BY <1>3, <2>1, FS_Subset
  <2> QED BY <2>2, FS_CardinalityType
<1>6. \A k \in 1..m : Kth(S, k) \in S
  <2> TAKE k \in 1..m
  <2>1. \E i \in S : Cardinality({j \in S : j < i}) = k - 1
    BY <1>1, <1>3, KthExists
  <2> QED BY <2>1 DEF Kth
<1> HIDE DEF m
<1>7. DOMAIN q = 1..m /\ \A k \in 1..m : q[k] \in NonZero(s)
  BY <1>3, <1>4, <1>6
<1> QED BY <1>5, <1>7 DEF q

\* One turn of the loop of add_correct.
CorrectSlot(res, s, i, interval) ==
    IF res.err # "none" THEN res
    ELSE RecordCorrect(res.h, HighestEquivalent(s.lay, ValueFor(s.lay, i)), s.counts[i], interval)

\* The table of this loop.
CorrectTable(base, s, interval) ==
    CHOOSE it : it = [t \in SUBSET (DOMAIN IterRecorded(s)) |->
                        IF t = {} THEN base
                        ELSE CorrectSlot(it[t \ {Max(t)}], s, IterRecorded(s)[Max(t)], interval)]

\* add_correct does not panic.
LEMMA CorrectAdded ==
    ASSUME NEW g, NEW n, NEW S, Good(g, n, S), NEW s, Sound(s), NEW interval \in Words
    PROVE  AddCorrect(g, s, interval) \in Left(n, S)
<1> DEFINE P == Left(n, S)
           base == Ok(g)
           q == IterRecorded(s)
           d == DOMAIN q
           T == CorrectTable(base, s, interval)
<1>0. PICK m \in Nat : d = 1..m /\ \A k \in 1..m : q[k] \in NonZero(s)
  BY RecordedSlots
<1> DEFINE D == 1..m
           G == [z \in P \X D |-> CorrectSlot(z[1], s, q[z[2]], interval)]
           Step(it, t) == IF t = {} THEN base ELSE CorrectSlot(it[t \ {Max(t)}], s, q[Max(t)], interval)
           Eq(it) == it = [t \in SUBSET D |-> IF t = {} THEN base
                             ELSE CorrectSlot(it[t \ {Max(t)}], s, q[Max(t)], interval)]
<1>1. AddCorrect(g, s, interval) = T[d]
  BY Zenon DEF AddCorrect, FoldLeft, MapThenFoldSet, CorrectTable, CorrectSlot
<1>2. ASSUME NEW y \in P, NEW i \in NonZero(s) PROVE CorrectSlot(y, s, i, interval) \in P
  <2>1. CASE y.err # "none"
    BY <2>1, Zenon DEF CorrectSlot
  <2>2. CASE y.err = "none"
    <3> DEFINE v == ValueFor(s.lay, i)
               u == HighestEquivalent(s.lay, v)
               c == s.counts[i]
    <3>1. Good(y.h, n, S)
      BY DEF Left
    <3>2. ValidLayout(s.lay) /\ i \in DOMAIN s.counts
      BY SoundFacts DEF NonZero
    <3>3. v \in Words
      BY <3>2, SlotValue
    <3>4. c \in 1..CounterMax
      <4>1. s.counts \in [0..(Bins(s) - 1) -> 0..CounterMax] /\ DOMAIN s.counts = 0..(Bins(s) - 1)
            /\ CounterMax \in Nat
        BY SoundFacts, Parameters
      <4>2. c \in 0..CounterMax /\ c # 0
        BY <3>2, <4>1 DEF NonZero
      <4> HIDE DEF c
      <4> QED BY <4>1, <4>2
    <3> HIDE DEF v, c
    <3>5. u \in Words
      BY <3>2, <3>3, HighestInSlot
    <3> HIDE DEF u
    <3>6. RecordCorrect(y.h, u, c, interval) \in Left(n, S)
      BY <3>1, <3>4, <3>5, CorrectRecorded
    <3>7. CorrectSlot(y, s, i, interval) = RecordCorrect(y.h, u, c, interval)
      BY <2>2, Zenon DEF CorrectSlot, u, v, c
    <3> QED BY <3>6, <3>7
  <2> QED BY <2>1, <2>2
<1>3. base \in P
  <2>1. base.err = "none" /\ base.h = g
    BY DEF Ok
  <2>2. g \in Histograms
    BY SoundFacts DEF Good
  <2>3. base \in Results
    BY <2>2 DEF Ok, Results
  <2> HIDE DEF base
  <2> QED BY <2>1, <2>3 DEF Left
<1> HIDE DEF P, q, d, base
<1>4. \A y \in P, k \in D : G[<<y, k>>] = CorrectSlot(y, s, q[k], interval) /\ G[<<y, k>>] \in P
  BY <1>0, <1>2
<1> HIDE DEF G
<1>5. PICK it \in [SUBSET D -> P] : \A t \in SUBSET D :
        it[t] = IF t = {} THEN base ELSE G[<<it[t \ {Max(t)}], Max(t)>>]
  <2>1. \A y \in P, k \in 1..m : G[<<y, k>>] \in P
    BY <1>4
  <2>2. PICK it : Tabled(it, m, P, base, G)
    BY <1>0, <1>3, <2>1, TableExists, Zenon
  <2> QED BY <2>2 DEF Tabled
<1>6. \A t \in SUBSET D : t # {} => Max(t) \in D /\ t \ {Max(t)} \in SUBSET D
  BY <1>0, LastPosition
<1>7. Eq(it)
  <2>1. \A t \in SUBSET D : it[t] = Step(it, t)
    <3> TAKE t \in SUBSET D
    <3>1. CASE t = {}
      BY <1>5, <3>1
    <3>2. CASE t # {}
      <4>1. Max(t) \in D /\ it[t \ {Max(t)}] \in P
        BY <1>6, <3>2
      <4>2. it[t] = G[<<it[t \ {Max(t)}], Max(t)>>]
        BY <1>5, <3>2
      <4> QED BY <1>4, <3>2, <4>1, <4>2
    <3> QED BY <3>1, <3>2
  <2> QED BY <2>1
<1>8. Eq(T)
  <2>1. T = CHOOSE jt : Eq(jt)
    BY <1>0, Zenon DEF CorrectTable, q, d
  <2> HIDE DEF Eq
  <2> QED BY <1>7, <2>1
<1> HIDE DEF T
<1>9. \A t \in SUBSET D : T[t] = Step(T, t)
  BY <1>8
<1>10. T[D] \in P
  <2>1. T[{}] \in P
    BY <1>3, <1>9
  <2>2. ASSUME NEW t \in SUBSET D, t # {}, T[t \ {Max(t)}] \in P PROVE T[t] \in P
    <3>1. T[t] = CorrectSlot(T[t \ {Max(t)}], s, q[Max(t)], interval) /\ Max(t) \in D
      BY <1>6, <1>9, <2>2
    <3> QED BY <1>0, <1>2, <2>2, <3>1
  <2> HIDE DEF Step, Eq
  <2> QED BY <1>0, <2>1, <2>2, TableStays
<1> QED BY <1>0, <1>1, <1>10 DEF P

-----------------------------------------------------------------------------
(***************************************************************************)
(* The client                                                              *)
(***************************************************************************)
\* What new leaves.
LEMMA NewIsSound ==
    ASSUME NEW c \in Clients, NEW b \in c.configs
    PROVE  Sound(New(b)) /\ Exact(New(b))
<1> DEFINE L == LayoutOf(b.low, b.sigfig)
           m == BucketsToCover(L, b.high)
           N == NumBins(L, m)
           z == [i \in 0..(N - 1) |-> 0]
           g == [low |-> b.low, high |-> b.high, sigfig |-> b.sigfig, auto |-> b.auto, lay |-> L,
                 buckets |-> m, max |-> ORIGINAL_MAX, min |-> ORIGINAL_MIN, total |-> 0, counts |-> z]
           f == [low |-> b.low, high |-> b.high, sigfig |-> b.sigfig, auto |-> FALSE, lay |-> L,
                 buckets |-> 0, max |-> ORIGINAL_MAX, min |-> ORIGINAL_MIN, total |-> 0,
                 counts |-> Resized(<<>>, 0)]
<1>1. /\ b.low \in Nat /\ b.sigfig \in Nat /\ b.high \in Words /\ b.high \in Nat
      /\ b.auto \in BOOLEAN /\ CanCreate(b.low, b.high, b.sigfig)
  <2>1. Words \subseteq Nat
    BY Parameters
  <2>2. {b.low, b.sigfig} \subseteq Nat /\ b.high \in Words /\ b.auto \in BOOLEAN
        /\ CanCreate(b.low, b.high, b.sigfig)
    BY HistogramAssumption
  <2> QED BY <2>1, <2>2
<1>2. ValidLayout(L) /\ b.low >= 1 /\ b.high >= 2 * b.low
  BY <1>1, LayoutIsValid DEF CanCreate
<1>3. N \in Nat \ {0} /\ IndexFor(L, b.high) \in 0..(N - 1)
  BY <1>1, <1>2, Covered
<1>4. NewWithBounds(b.low, b.high, b.sigfig)
        = [f EXCEPT !.buckets = m, !.high = b.high, !.counts = Resized(f.counts, N)]
  <2>1. NewWithBounds(b.low, b.high, b.sigfig) = Resize(f, b.high)
    BY Zenon DEF NewWithBounds
  <2>2. f.lay = L
    OBVIOUS
  <2> HIDE DEF f, L
  <2>3. Resize(f, b.high) = [f EXCEPT !.buckets = BucketsToCover(f.lay, b.high), !.high = b.high,
                               !.counts = Resized(f.counts, NumBins(f.lay, BucketsToCover(f.lay, b.high)))]
    BY Zenon DEF Resize
  <2> QED BY <2>1, <2>2, <2>3, Zenon DEF N, m
<1>5. Resized(f.counts, N) = z
  <2>1. f.counts = Resized(<<>>, 0)
    OBVIOUS
  <2>2. Resized(<<>>, 0) = [i \in 0..(0 - 1) |-> IF i \in DOMAIN <<>> THEN <<>>[i] ELSE 0]
    BY Zenon DEF Resized
  <2>3. DOMAIN f.counts = {}
    <3> HIDE DEF f
    <3>1. 0..(0 - 1) = {}
      OBVIOUS
    <3> QED BY <2>1, <2>2, <3>1
  <2> HIDE DEF f
  <2>4. Resized(f.counts, N) = [i \in 0..(N - 1) |-> IF i \in DOMAIN f.counts THEN f.counts[i] ELSE 0]
    BY Zenon DEF Resized
  <2> HIDE DEF N
  <2> QED BY <2>3, <2>4
<1>6. New(b) = g
  <2> DEFINE h == [f EXCEPT !.buckets = m, !.high = b.high, !.counts = z]
  <2>1. New(b) = [h EXCEPT !.auto = b.auto]
    <3>1. New(b) = [NewWithBounds(b.low, b.high, b.sigfig) EXCEPT !.auto = b.auto]
      BY Zenon DEF New
    <3> HIDE DEF f, m, z, N
    <3> QED BY <1>4, <1>5, <3>1
  <2> HIDE DEF m, z, L, N
  <2> QED BY <2>1
<1> HIDE DEF L, m, f
<1>7. z \in [0..(N - 1) -> 0..CounterMax] /\ z \in CountArrays /\ Samples(z) = 0
      /\ {i \in DOMAIN z : z[i] # 0} = {}
  <2>1. CounterMax \in Nat /\ N \in Nat
    BY <1>3, Parameters
  <2> HIDE DEF N
  <2>2. z \in [0..(N - 1) -> 0..CounterMax] /\ \A i \in 0..(N - 1) : z[i] = 0
    BY <2>1
  <2>3. DOMAIN z = 0..(N - 1)
    OBVIOUS
  <2> HIDE DEF z
  <2>4. z \in [0..(N - 1) -> Nat]
    BY <2>1, <2>2
  <2>5. Samples(z) = 0
    BY <2>1, <2>2, <2>4, SamplesZero
  <2>6. z \in CountArrays
    BY <2>1, <2>2 DEF CountArrays
  <2> QED BY <2>2, <2>3, <2>5, <2>6
<1> HIDE DEF z
<1>8. /\ g.low = b.low /\ g.high = b.high /\ g.sigfig = b.sigfig /\ g.auto = b.auto /\ g.lay = L
      /\ g.buckets = m /\ g.max = 0 /\ g.min = MaxWord /\ g.total = 0 /\ g.counts = z
  BY DEF ORIGINAL_MAX, ORIGINAL_MIN
<1>9. g \in Histograms
  <2>1. L \in Layouts
    <3>1. L.unit \in Nat /\ L.mag \in Nat
      BY <1>2 DEF ValidLayout
    <3>2. L = [unit |-> L.unit, mag |-> L.mag]
      BY DEF L, LayoutOf
    <3>3. L \in [unit : Nat, mag : Nat]
      BY <3>1, <3>2
    <3> QED BY <1>2, <3>3 DEF Layouts
  <2>2. m \in Nat
    BY <1>1, <1>2, Untrackable DEF m
  <2>3. ORIGINAL_MAX \in Words /\ ORIGINAL_MIN \in Words /\ 0 \in Words
    BY Parameters DEF ORIGINAL_MAX, ORIGINAL_MIN
  <2> HIDE DEF N
  <2> QED BY <1>1, <1>7, <2>1, <2>2, <2>3 DEF Histograms
<1> HIDE DEF g
<1>10. Bins(g) = N
  BY <1>8 DEF Bins, N
<1>11. Ranged(g)
  <2>1. \E x \in Words : g.buckets = BucketsToCover(g.lay, x)
    BY <1>1, <1>8 DEF m
  <2>2. InRange(g, g.high)
    <3>1. DOMAIN z = 0..(N - 1)
      BY <1>7
    <3> QED BY <1>3, <1>8, <3>1 DEF InRange
  <2> HIDE DEF N
  <2> QED BY <1>2, <1>7, <1>8, <1>9, <1>10, <2>1, <2>2 DEF Ranged
<1>12. Restated(g)
  <2>1. NonZero(g) = {}
    BY <1>7, <1>8 DEF NonZero
  <2>2. SumCounts(g, NonZero(g)) = 0
    <3>1. N \in Nat /\ g.counts \in [0..(N - 1) -> Nat]
      <4>1. 0..CounterMax \subseteq Nat
        BY Parameters
      <4> HIDE DEF N
      <4> QED BY <1>3, <1>7, <1>8, <4>1
    <3> HIDE DEF N
    <3> QED BY <1>7, <1>8, <3>1, SamplesInUse
  <2>3. Min({0, MaxWord}) = 0
    <3>1. MaxWord \in Nat /\ 0 \in Int
      BY Parameters
    <3> QED BY <3>1, MinOfTwo
  <2>4. IndexFor(g.lay, g.max) = 0
    BY <1>2, <1>8, IndexForZero
  <2>5. g.total = Min({SumCounts(g, NonZero(g)), MaxWord}) /\ g.min = ORIGINAL_MIN
    BY <1>8, <2>2, <2>3 DEF ORIGINAL_MIN
  <2>6. NonZero(g) \ {0} = {}
    BY <2>1
  <2> QED BY <2>1, <2>4, <2>5, <2>6, Zenon DEF Restated
<1> QED BY <1>6, <1>11, <1>12, RestatedIsExact

\* Switching auto on or off changes nothing else.
LEMMA AutoSet ==
    ASSUME NEW g, Sound(g)
    PROVE  LET r == [g EXCEPT !.auto = ~@] IN Sound(r) /\ (Exact(g) => Exact(r))
<1> DEFINE r == [g EXCEPT !.auto = ~@]
<1>1. g \in Histograms
  BY SoundFacts
<1>2. /\ r.low = g.low /\ r.high = g.high /\ r.sigfig = g.sigfig /\ r.lay = g.lay
      /\ r.buckets = g.buckets /\ r.max = g.max /\ r.min = g.min /\ r.total = g.total
      /\ r.counts = g.counts
  BY <1>1 DEF Histograms
<1>3. r \in Histograms
  <2>1. (~g.auto) \in BOOLEAN
    <3>1. g.auto \in BOOLEAN
      BY <1>1 DEF Histograms
    <3> QED BY <3>1, Zenon
  <2> QED BY <1>1, <2>1 DEF Histograms
<1> HIDE DEF r
<1>4. /\ NonZero(r) = NonZero(g) /\ Bins(r) = Bins(g)
      /\ \A v : InRange(r, v) <=> InRange(g, v)
  BY <1>2 DEF NonZero, Bins, InRange
<1>5. SumCounts(r, NonZero(r)) = SumCounts(g, NonZero(g))
  BY <1>2, <1>4, Zenon DEF SumCounts
<1>6. Sound(r)
  <2>1. /\ \E x \in Words : r.buckets = BucketsToCover(r.lay, x)
        /\ r.counts \in [0..(Bins(r) - 1) -> 0..CounterMax]
        /\ r.low >= 1 /\ r.high >= 2 * r.low
    BY <1>2, <1>4 DEF Sound, Within
  <2>2. InRange(r, r.high) /\ InRange(r, r.max)
    BY <1>2, <1>4 DEF Sound, Within
  <2>3. (\A i \in NonZero(r) : i <= IndexFor(r.lay, r.max)) /\ IndexFor(r.lay, r.min) # 0
    BY <1>2, <1>4 DEF Sound, Within
  <2>4. r.total >= Min({SumCounts(r, NonZero(r)), MaxWord})
    BY <1>2, <1>5 DEF Sound, Within
  <2> QED BY <1>3, <2>1, <2>2, <2>3, <2>4, Zenon DEF Sound, Within
<1>7. ASSUME Exact(g) PROVE Exact(r)
  BY <1>2, <1>4, <1>5, <1>7, Zenon DEF Exact
<1> QED BY <1>6, <1>7 DEF r

\* The inductive invariant: every histogram is sound, and one whose statistics
\* nothing left stale describes its counts exactly.
HInv ==
    /\ client \in Clients /\ hist \in [Names -> Histograms]
    /\ err # "panic" /\ dirty \subseteq Names
    /\ \A n \in Names : Sound(hist[n]) /\ (n \in dirty \/ Exact(hist[n]))

\* A call that leaves its histogram sound, and exact or marked, preserves the invariant.
LEMMA Returned ==
    ASSUME HInv, NEW n \in Names, NEW r \in Results, NEW S \in SUBSET Names, Return(n, r, S),
           Good(r.h, n, S), dirty \subseteq S \cup {n}
    PROVE  HInv'
<1>1. /\ client' = client /\ hist' = [hist EXCEPT ![n] = r.h] /\ err' = r.err
      /\ dirty' = S \cup (IF Full(r.h) THEN {n} ELSE {})
  BY DEF Return
<1>2. r.h \in Histograms /\ r.err # "panic"
  BY DEF Results, Errors
<1>3. hist' \in [Names -> Histograms]
  BY <1>1, <1>2 DEF HInv
<1>4. dirty' \subseteq Names
  BY <1>1
<1>5. ASSUME NEW m \in Names PROVE Sound(hist'[m]) /\ (m \in dirty' \/ Exact(hist'[m]))
  <2>1. CASE m = n
    <3>1. hist'[m] = r.h
      BY <1>1, <2>1 DEF HInv
    <3>2. Sound(r.h) /\ (n \in S \/ Exact(r.h) \/ Full(r.h))
      BY DEF Good
    <3> QED BY <1>1, <2>1, <3>1, <3>2
  <2>2. CASE m # n
    <3>1. hist'[m] = hist[m]
      BY <1>1, <2>2 DEF HInv
    <3>2. Sound(hist[m]) /\ (m \in dirty \/ Exact(hist[m]))
      BY DEF HInv
    <3>3. m \in dirty => m \in dirty'
      BY <1>1, <2>2
    <3> QED BY <3>1, <3>2, <3>3
  <2> QED BY <2>1, <2>2
<1>6. client' \in Clients /\ err' # "panic"
  BY <1>1, <1>2 DEF HInv
<1> QED BY <1>3, <1>4, <1>5, <1>6 DEF HInv

\* The same for what Left collects.
LEMMA LeftReturned ==
    ASSUME HInv, NEW n \in Names, NEW S \in SUBSET Names, NEW r \in Left(n, S), Return(n, r, S),
           dirty \subseteq S \cup {n}
    PROVE  HInv'
<1>1. r \in Results /\ Good(r.h, n, S)
  BY DEF Left
<1> QED BY <1>1, Returned

\* What the client asks for.
LEMMA Asked ==
    ASSUME HInv
    PROVE  /\ client.values \subseteq Words /\ client.intervals \subseteq Words
           /\ client.counts \subseteq 1..CounterMax
  BY HistogramAssumption DEF HInv

\* The invariant holds at the beginning.
LEMMA InvariantInit == Init => HInv
<1> SUFFICES ASSUME Init PROVE HInv
  OBVIOUS
<1>1. client \in Clients /\ err = "none" /\ dirty = {}
      /\ hist \in [Names -> {New(b) : b \in client.configs}]
  BY DEF Init
<1>2. \A n \in Names : Sound(hist[n]) /\ Exact(hist[n])
  <2> TAKE n \in Names
  <2>1. PICK b \in client.configs : hist[n] = New(b)
    BY <1>1
  <2> QED BY <1>1, <2>1, NewIsSound
<1>3. \A n \in Names : hist[n] \in Histograms
  <2> TAKE n \in Names
  <2>1. Sound(hist[n])
    BY <1>2
  <2> QED BY <2>1, SoundFacts
<1>4. hist \in [Names -> Histograms]
  <2>1. hist = [n \in Names |-> hist[n]]
    BY <1>1
  <2> QED BY <1>3, <2>1
<1> QED BY <1>1, <1>2, <1>4 DEF HInv

\* Every call preserves it.
LEMMA InvariantNext == HInv /\ [Next]_vars => HInv'
<1> SUFFICES ASSUME HInv, [Next]_vars PROVE HInv'
  OBVIOUS
<1>1. /\ dirty \in SUBSET Names
      /\ \A n \in Names : Sound(hist[n]) /\ (n \in dirty \/ Exact(hist[n]))
  BY DEF HInv
<1>2. \A n \in Names : \A S : (n \in dirty => n \in S) => Good(hist[n], n, S)
  BY <1>1 DEF Good
<1>3. \A n \in Names : \A S : /\ Good(Reset(hist[n]), n, S)
                              /\ Sound(Reset(hist[n])) /\ Exact(Reset(hist[n]))
  BY <1>1, Emptied DEF Good
<1>4. ASSUME NEW n \in Names, NEW v \in client.values, NEW c \in client.counts, RecordN(n, v, c)
      PROVE  HInv'
  <2>1. v \in Words /\ c \in 0..CounterMax /\ c # 0 /\ FALSE \in BOOLEAN
    BY Asked
  <2>2. RecordInner(hist[n], v, c, FALSE) \in Left(n, dirty)
    BY <1>2, <2>1, Recorded
  <2> QED BY <1>1, <1>4, <2>2, LeftReturned DEF RecordN
<1>5. ASSUME NEW n \in Names, NEW v \in client.values, NEW c \in client.counts,
             SaturatingRecordN(n, v, c)
      PROVE  HInv'
  <2>1. v \in Words /\ c \in 0..CounterMax /\ c # 0 /\ TRUE \in BOOLEAN
    BY Asked
  <2>2. RecordInner(hist[n], v, c, TRUE) \in Left(n, dirty)
    BY <1>2, <2>1, Recorded
  <2> QED BY <1>1, <1>5, <2>2, LeftReturned DEF SaturatingRecordN
<1>6. ASSUME NEW n \in Names, NEW v \in client.values, NEW c \in client.counts,
             NEW i \in client.intervals, RecordNCorrect(n, v, c, i)
      PROVE  HInv'
  <2>1. v \in Words /\ c \in 1..CounterMax /\ i \in Words
    BY Asked
  <2>2. RecordCorrect(hist[n], v, c, i) \in Left(n, dirty)
    BY <1>2, <2>1, CorrectRecorded
  <2> QED BY <1>1, <1>6, <2>2, LeftReturned DEF RecordNCorrect
<1>7. ASSUME NEW n \in Names, NEW m \in Names, AddOther(n, m) PROVE HInv'
  <2> DEFINE S == IF m \in dirty THEN dirty \cup {n} ELSE dirty
  <2>1. S \in SUBSET Names /\ dirty \subseteq S /\ (n \in S \/ Exact(hist[m])) /\ Sound(hist[m])
    BY <1>1
  <2>2. Return(n, Add(hist[n], hist[m]), S)
    BY <1>7 DEF AddOther
  <2> HIDE DEF S
  <2>3. Good(hist[n], n, S)
    BY <1>2, <2>1
  <2>4. Add(hist[n], hist[m]) \in Left(n, S)
    BY <2>1, <2>3, Added
  <2> QED BY <2>1, <2>2, <2>4, LeftReturned
<1>8. ASSUME NEW n \in Names, NEW m \in Names, SubtractOther(n, m) PROVE HInv'
  <2> DEFINE r == Subtract(hist[n], hist[m])
             S == IF r.err = "SubtrahendCountExceedsMinuendCount" THEN dirty \cup {n} ELSE dirty
  <2>1. Return(n, r, S)
    BY <1>8 DEF SubtractOther
  <2>2. /\ r \in Results /\ Sound(r.h)
        /\ r.err # "SubtrahendCountExceedsMinuendCount" /\ Exact(hist[n]) => Exact(r.h)
    BY <1>1, Subtracted
  <2> HIDE DEF r
  <2>3. S \in SUBSET Names /\ dirty \subseteq S
    BY <1>1
  <2>4. n \in S \/ Exact(r.h)
    BY <1>1, <2>2
  <2> HIDE DEF S
  <2>5. Good(r.h, n, S)
    BY <2>2, <2>4 DEF Good
  <2> QED BY <2>1, <2>2, <2>3, <2>5, Returned
<1>9. ASSUME NEW n \in Names, NEW m \in Names, SetToOther(n, m) PROVE HInv'
  <2> DEFINE S == IF m \in dirty THEN dirty \cup {n} ELSE dirty \ {n}
             g == Reset(hist[n])
  <2>1. S \in SUBSET Names /\ dirty \subseteq S \cup {n} /\ (n \in S \/ Exact(hist[m]))
        /\ Sound(hist[m])
    BY <1>1
  <2>2. Return(n, Add(g, hist[m]), S)
    BY <1>9 DEF SetToOther, SetTo
  <2> HIDE DEF S, g
  <2>3. Good(g, n, S)
    BY <1>3 DEF g
  <2>4. Add(g, hist[m]) \in Left(n, S)
    BY <2>1, <2>3, Added
  <2> QED BY <2>1, <2>2, <2>4, LeftReturned
<1>10. ASSUME NEW n \in Names, NEW m \in Names, NEW i \in client.intervals,
              AddCorrectOther(n, m, i)
       PROVE  HInv'
  <2>1. i \in Words
    BY Asked
  <2>2. AddCorrect(hist[n], hist[m], i) \in Left(n, dirty)
    BY <1>1, <1>2, <2>1, CorrectAdded
  <2> QED BY <1>1, <1>10, <2>2, LeftReturned DEF AddCorrectOther
<1>11. ASSUME NEW n \in Names, NEW m \in Names, NEW i \in client.intervals,
              SetToCorrectedOther(n, m, i)
       PROVE  HInv'
  <2> DEFINE S == dirty \ {n}
             g == Reset(hist[n])
  <2>1. i \in Words
    BY Asked
  <2>2. Return(n, AddCorrect(g, hist[m], i), S)
    BY <1>11 DEF SetToCorrectedOther, SetToCorrected
  <2>3. S \in SUBSET Names /\ dirty \subseteq S \cup {n}
    BY <1>1
  <2> HIDE DEF S, g
  <2>4. Good(g, n, S)
    BY <1>3 DEF g
  <2>5. AddCorrect(g, hist[m], i) \in Left(n, S)
    BY <1>1, <2>1, <2>4, CorrectAdded
  <2> QED BY <2>2, <2>3, <2>5, LeftReturned
<1>12. ASSUME NEW n \in Names, NEW S \in SUBSET Names, dirty \subseteq S \cup {n},
              NEW h, Good(h, n, S), Return(n, Ok(h), S)
       PROVE  HInv'
  <2> DEFINE r == Ok(h)
  <2>1. r.err = "none" /\ r.h = h
    BY DEF Ok
  <2>2. r \in Results
    <3>1. h \in Histograms
      BY <1>12, SoundFacts DEF Good
    <3> QED BY <3>1 DEF Ok, Results
  <2>3. Return(n, r, S)
    BY <1>12
  <2> HIDE DEF r
  <2> QED BY <1>12, <2>1, <2>2, <2>3, Returned
<1>13. ASSUME NEW n \in Names, ClearIt(n) PROVE HInv'
  <2> DEFINE S == dirty \cup {n}
  <2>1. S \in SUBSET Names /\ dirty \subseteq S \cup {n} /\ n \in S
    BY <1>1
  <2>2. Return(n, Ok(Clear(hist[n])), S)
    BY <1>13 DEF ClearIt
  <2> HIDE DEF S
  <2>3. Good(Clear(hist[n]), n, S)
    BY <1>1, <2>1, Emptied DEF Good
  <2> QED BY <1>12, <2>1, <2>2, <2>3
<1>14. ASSUME NEW n \in Names, ResetIt(n) PROVE HInv'
  <2> DEFINE S == dirty \ {n}
  <2>1. S \in SUBSET Names /\ dirty \subseteq S \cup {n}
    BY <1>1
  <2>2. Return(n, Ok(Reset(hist[n])), S)
    BY <1>14 DEF ResetIt
  <2> HIDE DEF S
  <2>3. Good(Reset(hist[n]), n, S)
    BY <1>3
  <2> QED BY <1>12, <2>1, <2>2, <2>3
<1>15. ASSUME NEW n \in Names, SetAuto(n) PROVE HInv'
  <2> DEFINE h == [hist[n] EXCEPT !.auto = ~@]
  <2>1. Return(n, Ok(h), dirty)
    BY <1>15 DEF SetAuto
  <2>2. Sound(h) /\ (Exact(hist[n]) => Exact(h))
    BY <1>1, AutoSet
  <2> HIDE DEF h
  <2>3. Good(h, n, dirty)
    BY <1>1, <2>2 DEF Good
  <2> QED BY <1>1, <1>12, <2>1, <2>3
<1>16. CASE UNCHANGED vars
  BY <1>16 DEF vars, HInv
<1> QED
  BY <1>4, <1>5, <1>6, <1>7, <1>8, <1>9, <1>10, <1>11, <1>13, <1>14, <1>15, <1>16 DEF Next

-----------------------------------------------------------------------------
(***************************************************************************)
(* Theorems                                                                *)
(***************************************************************************)
\* The invariant holds always.
LEMMA InvariantHolds == Spec => []HInv
  BY InvariantInit, InvariantNext, PTL DEF Spec

\* Type invariant: after every sequence of calls, the counts array of a histogram
\* has the length that bucket_count calls for, as index_for assumes.
THEOREM TypeCorrect == Spec => []TypeOK
<1>1. HInv => TypeOK
  <2> SUFFICES ASSUME HInv, NEW n \in Names
               PROVE  /\ hist[n].max \in Words /\ hist[n].min \in Words
                      /\ hist[n].total \in Words /\ hist[n].high \in Words
                      /\ hist[n].counts \in [0..(NumBins(hist[n].lay, hist[n].buckets) - 1)
                                                -> 0..CounterMax]
    BY DEF HInv, TypeOK
  <2>1. Sound(hist[n])
    BY DEF HInv
  <2> QED BY <2>1, SoundFacts DEF Bins
<1> QED BY <1>1, InvariantHolds, PTL

\* No expect, unwrap or index of record, record_correct, add, subtract, set_to,
\* add_correct, clear, reset or auto fails, in any order of the calls.
THEOREM NeverPanicsCorrect == Spec => []NeverPanics
<1>1. HInv => NeverPanics
  BY DEF HInv, NeverPanics
<1> QED BY <1>1, InvariantHolds, PTL

\* total_count, max_value and min_non_zero_value describe the counts after every
\* sequence of calls, and the total always covers them.
THEOREM StatsCorrect == Spec => []StatsMatchCounts
<1>1. HInv => StatsMatchCounts
  <2> SUFFICES ASSUME HInv, NEW n \in Names
               PROVE  LET g == hist[n]
                          used == NonZero(g)
                      IN  /\ g.total >= Min({SumCounts(g, used), MaxWord})
                          /\ n \notin dirty =>
                               /\ g.total = Min({SumCounts(g, used), MaxWord})
                               /\ used # {} => IndexFor(g.lay, g.max) = Max(used)
                               /\ \A i \in used \ {0} : IndexFor(g.lay, g.min) <= i
                               /\ 0 \notin used => MinExact(g)
    BY DEF StatsMatchCounts
  <2> DEFINE g == hist[n]
             used == NonZero(g)
             last == IndexFor(g.lay, g.max)
             first == IndexFor(g.lay, g.min)
  <2>1. Sound(g) /\ (n \in dirty \/ Exact(g))
    BY DEF HInv
  <2> HIDE DEF g
  <2>2. g.total >= Min({SumCounts(g, used), MaxWord}) /\ \A i \in used : i <= last
    BY <2>1 DEF Sound, Within
  <2>3. ASSUME Exact(g)
        PROVE  /\ g.total = Min({SumCounts(g, used), MaxWord})
               /\ used # {} => last = Max(used)
               /\ \A i \in used \ {0} : first <= i
               /\ 0 \notin used => MinExact(g)
    <3>1. /\ g.total = Min({SumCounts(g, used), MaxWord})
          /\ IF used = {} THEN last = 0 ELSE last \in used
          /\ \A i \in used \ {0} : first <= i
          /\ 0 \notin used => IF used = {} THEN g.min = ORIGINAL_MIN ELSE first \in used
      BY <2>3, Zenon DEF Exact
    <3>2. /\ used # {} => Max(used) \in used /\ \A i \in used : i <= Max(used)
          /\ used \ {0} # {} => /\ Min(used \ {0}) \in used \ {0}
                                /\ \A i \in used \ {0} : Min(used \ {0}) <= i
      BY <2>1, SlotsInUse
    <3>3. \A i \in used : i \in Nat
      BY <2>1, SoundFacts DEF NonZero
    <3>4. used # {} => last = Max(used)
      <4> HIDE DEF last, used
      <4> QED BY <2>2, <3>1, <3>2, <3>3
    <3>5. ASSUME 0 \notin used PROVE MinExact(g)
      <4>1. used \ {0} = used
        BY <3>5
      <4>2. used # {} => first = Min(used)
        <5> HIDE DEF first, used
        <5> QED BY <3>1, <3>2, <3>3, <3>5, <4>1
      <4> QED BY <3>1, <3>5, <4>1, <4>2, Zenon DEF MinExact
    <3> QED BY <3>1, <3>4, <3>5
  <2> QED BY <2>1, <2>2, <2>3 DEF g
<1> QED BY <1>1, InvariantHolds, PTL
=============================================================================
