--------------------------- MODULE HistogramLayout ---------------------------
(***************************************************************************)
(* The log-linear layout of a Histogram (HdrHistogram_rust/src/lib.rs):    *)
(* which slot of the counts array a value belongs to, which values share a *)
(* slot, and how many slots a range needs.  Words have W bits (64 in the   *)
(* code) and one significant digit is worth a factor of Base (10 in the    *)
(* code), so that all layouts of a narrow word can be enumerated.          *)
(*                                                                         *)
(* A layout is [unit, mag]: unit_magnitude and sub_bucket_count_magnitude. *)
(***************************************************************************)
EXTENDS Integers, FiniteSets, FiniteSetsExt

CONSTANTS W,      \* bits of a value
          Base,   \* 10 in the code
          MaxSig  \* the largest number of significant digits, 5 in the code

\* The finest resolution fits into a word.
ASSUME LayoutAssumption ==
    /\ W \in Nat \ {0} /\ Base \in Nat \ {0} /\ MaxSig \in Nat
    /\ \A sigfig \in 0..MaxSig : Base^sigfig \in 1..2^(W - 1)

MaxWord == 2^W - 1
Words == 0..MaxWord

\* W - leading_zeros(v)
BitLen(v) == IF v = 0 THEN 0 ELSE CHOOSE n \in 1..W : 2^(n - 1) <= v /\ v < 2^n

FloorLog2(v) == BitLen(v) - 1
CeilLog2(v) == Min({n \in 0..(W + 1) : v <= 2^n})

\* Mutant of LayoutOf: single unit resolution up to Base^sigfig only.
LayoutOfHalf(low, sigfig) ==
    [unit |-> FloorLog2(low), mag |-> Max({1, CeilLog2(Base^sigfig)})]

\* new_with_bounds: unit_magnitude and sub_bucket_count_magnitude.
LayoutOf(low, sigfig) ==
    [unit |-> FloorLog2(low), mag |-> CeilLog2(2 * Base^sigfig)]

\* new_with_bounds: every condition that is not a CreationError.
CanCreate(low, high, sigfig) ==
    /\ low >= 1
    /\ low <= MaxWord \div 2
    /\ high >= 2 * low
    /\ sigfig <= MaxSig
    /\ LayoutOf(low, sigfig).unit + LayoutOf(low, sigfig).mag <= W - 1

SubBucketCount(L) == 2^L.mag
SubBucketHalfCount(L) == 2^(L.mag - 1)
UnitMask(L) == 2^L.unit - 1

\* Bits shifted out of a word are lost.
Shl(v, n) == (v * 2^n) % 2^W

\* leading_zero_count_base - (value | sub_bucket_mask).leading_zeros()
BucketFor(L, value) == Max({BitLen(value), L.unit + L.mag}) - (L.unit + L.mag)

SubBucketFor(L, value, bucket) == value \div 2^(bucket + L.unit)

IndexFor(L, value) ==
    LET bucket == BucketFor(L, value)
    IN  (bucket + 1) * SubBucketHalfCount(L)
          + (SubBucketFor(L, value, bucket) - SubBucketHalfCount(L))

ValueFromLoc(L, bucket, sub) == Shl(sub, bucket + L.unit)

ValueFor(L, index) ==
    LET half == SubBucketHalfCount(L)
        bucket == (index \div half) - 1
        sub == (index % half) + half
    IN  IF bucket < 0 THEN ValueFromLoc(L, 0, sub - half)
                      ELSE ValueFromLoc(L, bucket, sub)

LowestEquivalent(L, value) ==
    ValueFromLoc(L, BucketFor(L, value), SubBucketFor(L, value, BucketFor(L, value)))

EquivalentRange(L, value) == 2^(L.unit + BucketFor(L, value))

\* saturating_add
NextNonEquivalent(L, value) ==
    Min({LowestEquivalent(L, value) + EquivalentRange(L, value), MaxWord})

HighestEquivalent(L, value) ==
    IF value = MaxWord THEN MaxWord ELSE NextNonEquivalent(L, value) - 1

\* checked_add: the sum may not be capped.
MedianEquivalent(L, value) ==
    LowestEquivalent(L, value) + EquivalentRange(L, value) \div 2

\* The loop doubles the smallest untrackable value until it passes `value`;
\* when the next doubling would overflow, one more bucket is the last.
UntrackableAfter(L, n) == SubBucketCount(L) * 2^L.unit * 2^(n - 1)

BucketsToCover(L, value) ==
    Min({n \in 1..(W + 1) : UntrackableAfter(L, n) > value
                              \/ UntrackableAfter(L, n) > MaxWord})

NumBins(L, buckets) == (buckets + 1) * SubBucketHalfCount(L)
=============================================================================
