------------------------ MODULE V2SerializationProofs ------------------------
(***************************************************************************)
(* Proofs about V2Serialization, for every word, chunk and counter size,   *)
(* and for all histograms that satisfy HistogramsAssumption.  Inv is       *)
(* inductive: wherever a stream comes from, the decoder stays inside its   *)
(* payload and its statistics are those of what it has stored.  Whole is   *)
(* inductive with Inv: when the stream is the one that was written, the    *)
(* decoder is at the start of a number and has copied the slots before it. *)
(***************************************************************************)
EXTENDS V2Serialization, HistogramLayoutProofs

-----------------------------------------------------------------------------
(***************************************************************************)
(* Numbers                                                                 *)
(***************************************************************************)
Scale(k) == 2^(ChunkBits * k)

\* The parameters of the format.
LEMMA V2Constants ==
    /\ ChunkBits \in Nat \ {0} /\ MaxBytes \in Nat \ {0}
    /\ W = MaxBytes * ChunkBits + 1
    /\ Formats \subseteq {"v2", "deflate"} /\ ReadMax \in 1..CounterMax /\ MaxUses \in Nat
  BY V2Assumption, Zenon

\* The largest count is a positive number.
LEMMA CounterType == CounterMax \in Nat \ {0}
  BY CounterAssumption, Zenon

\* A chunk more of a varint is a factor of HighBit; a word is MaxBytes chunks and a bit.
LEMMA ScaleFacts ==
    /\ HighBit \in Nat \ {0}
    /\ \A k \in Nat : Scale(k) \in Nat \ {0} /\ Scale(k + 1) = HighBit * Scale(k)
    /\ Scale(0) = 1 /\ 2^W = 2 * Scale(MaxBytes) /\ SignedMax = Scale(MaxBytes) - 1
<1>1. ChunkBits \in Nat /\ MaxBytes \in Nat /\ W = MaxBytes * ChunkBits + 1
  BY V2Constants
<1>2. HighBit \in Nat \ {0}
  BY <1>1, PowerType DEF HighBit
<1>3. ASSUME NEW k \in Nat PROVE Scale(k) \in Nat \ {0} /\ Scale(k + 1) = HighBit * Scale(k)
  <2>1. ChunkBits * k \in Nat /\ ChunkBits * (k + 1) = ChunkBits + ChunkBits * k
    BY <1>1
  <2>2. 2^(ChunkBits + ChunkBits * k) = 2^ChunkBits * 2^(ChunkBits * k)
    <3> DEFINE e == ChunkBits * k
    <3> HIDE DEF e
    <3>1. e \in Nat
      BY <2>1 DEF e
    <3>2. 2^(ChunkBits + e) = 2^ChunkBits * 2^e
      BY <1>1, <3>1, PowerPlus
    <3> QED BY <3>2 DEF e
  <2>3. Scale(k) \in Nat \ {0}
    <3> DEFINE e == ChunkBits * k
    <3> HIDE DEF e
    <3>1. e \in Nat
      BY <2>1 DEF e
    <3>2. 2^e \in Nat \ {0}
      BY <3>1, PowerType
    <3> QED BY <3>2 DEF e, Scale
  <2> QED BY <2>1, <2>2, <2>3, Zenon DEF Scale, HighBit
<1>4. Scale(0) = 1
  <2>1. ChunkBits * 0 = 0 /\ 2^0 = 1
    BY <1>1
  <2> QED BY <2>1 DEF Scale
<1>5. 2^W = 2 * Scale(MaxBytes) /\ SignedMax = Scale(MaxBytes) - 1
  <2> DEFINE e == ChunkBits * MaxBytes
  <2>1. e \in Nat /\ W = e + 1 /\ W - 1 = e
    BY <1>1
  <2> HIDE DEF e
  <2>2. 2^(e + 1) = 2 * 2^e
    BY <2>1, PowerStep
  <2> QED BY <2>1, <2>2, Zenon DEF e, Scale, SignedMax
<1> QED BY <1>2, <1>3, <1>4, <1>5

\* A chunk of a number: what is below it is less than its scale, and the next chunk
\* is the rest of it.
LEMMA ChunkFacts ==
    ASSUME NEW v \in Nat, NEW k \in Nat
    PROVE  /\ Chunk(v, k) \in Nat
           /\ Chunk(v, k) * Scale(k) <= v /\ v < Chunk(v, k) * Scale(k) + Scale(k)
           /\ Chunk(v, k) % HighBit \in 0..(HighBit - 1)
           /\ Chunk(v, k) = Chunk(v, k + 1) * HighBit + (Chunk(v, k) % HighBit)
<1> DEFINE c == Chunk(v, k)
           s == Scale(k)
           h == HighBit
           q == c \div h
<1>1. s \in Nat \ {0} /\ h \in Nat \ {0} /\ Scale(k + 1) = h * s
  BY ScaleFacts
<1>2. c = v \div s /\ Chunk(v, k + 1) = v \div (h * s)
  <2>1. Chunk(v, k + 1) = v \div Scale(k + 1)
    BY Zenon DEF Chunk, Scale
  <2> QED BY <1>1, <2>1 DEF Chunk, Scale
<1> HIDE DEF c, s, h
<1>3. c \in Nat /\ c * s <= v /\ v < c * s + s
  BY <1>1, <1>2, DivFacts
<1>4. q \in Nat /\ q * h <= c /\ c < q * h + h
  BY <1>1, <1>3, DivFacts
<1>5. c % h \in 0..(h - 1) /\ c = q * h + (c % h)
  BY <1>1, <1>3, ModFacts
<1> HIDE DEF q
<1>6. h * s \in Nat \ {0}
  BY <1>1
<1>7. q * (h * s) <= v
  <2>1. (q * h) * s <= c * s
    BY <1>1, <1>3, <1>4, MulMono
  <2>2. (q * h) * s = q * (h * s)
    BY <1>1, <1>4
  <2> QED BY <1>1, <1>3, <1>4, <2>1, <2>2
<1>8. v < q * (h * s) + h * s
  <2>1. c + 1 <= q * h + h /\ c + 1 \in Nat /\ q * h + h \in Nat
    BY <1>1, <1>3, <1>4
  <2>2. (c + 1) * s <= (q * h + h) * s
    BY <1>1, <2>1, MulMono
  <2>3. (c + 1) * s = c * s + s /\ (q * h + h) * s = q * (h * s) + h * s
    BY <1>1, <1>3, <1>4
  <2> QED BY <1>1, <1>3, <1>4, <2>2, <2>3
<1>9. v \div (h * s) = q
  BY <1>4, <1>6, <1>7, <1>8, DivUnique
<1> QED BY <1>2, <1>3, <1>5, <1>9 DEF c, s, h

Size(v) == Min({k \in 1..MaxBytes : k = MaxBytes \/ Chunk(v, k) = 0})
Byte == 0..(2 * HighBit - 1)

\* varint_write: at most MaxBytes bytes, of which all but the last have the high bit.
LEMMA WriteFacts ==
    ASSUME NEW v \in Words
    PROVE  /\ Size(v) \in 1..MaxBytes
           /\ varint_write(v) \in Seq(Byte) /\ Len(varint_write(v)) = Size(v)
           /\ \A k \in 1..(Size(v) - 1) :
                varint_write(v)[k] = HighBit + (Chunk(v, k - 1) % HighBit)
           /\ varint_write(v)[Size(v)] = Chunk(v, Size(v) - 1)
           /\ Size(v) < MaxBytes => Chunk(v, Size(v) - 1) < HighBit
<1> DEFINE T == {k \in 1..MaxBytes : k = MaxBytes \/ Chunk(v, k) = 0}
           n == Size(v)
           w == varint_write(v)
<1>1. MaxBytes \in Nat \ {0} /\ HighBit \in Nat \ {0}
  BY V2Constants, ScaleFacts
<1>2. v \in Nat /\ v < 2 * Scale(MaxBytes)
  BY WordType, ScaleFacts
<1>3. T \subseteq Nat /\ T # {}
  BY <1>1
<1>4. n \in T
  <2>1. Min(T) \in T
    <3> HIDE DEF T
    <3> QED BY <1>3, MinOfNats
  <2> QED BY <2>1 DEF Size
<1>5. n \in 1..MaxBytes /\ (n = MaxBytes \/ Chunk(v, n) = 0)
  BY <1>4
<1>6. w = [k \in 1..n |-> IF k = n THEN Chunk(v, k - 1) ELSE HighBit + (Chunk(v, k - 1) % HighBit)]
  BY Zenon DEF varint_write, Size
<1> HIDE DEF T, n, w
<1>7. n - 1 \in Nat /\ (n - 1) + 1 = n
  BY <1>1, <1>5
<1>8. Chunk(v, n - 1) \in Nat /\ (Chunk(v, n) = 0 => Chunk(v, n - 1) < HighBit)
  <2>1. /\ Chunk(v, n - 1) \in Nat /\ Chunk(v, n - 1) % HighBit \in 0..(HighBit - 1)
        /\ Chunk(v, n - 1) = Chunk(v, (n - 1) + 1) * HighBit + (Chunk(v, n - 1) % HighBit)
    BY <1>2, <1>7, ChunkFacts
  <2> DEFINE r == Chunk(v, n - 1) % HighBit
  <2> HIDE DEF r
  <2>2. Chunk(v, n) = 0 => Chunk(v, n - 1) = 0 * HighBit + r /\ r \in 0..(HighBit - 1)
    BY <1>7, <2>1 DEF r
  <2> QED BY <1>1, <2>1, <2>2
<1>9. Chunk(v, n - 1) < 2 * HighBit
  <2>1. CASE Chunk(v, n) = 0
    BY <1>1, <1>8, <2>1
  <2>2. CASE n = MaxBytes
    <3> DEFINE c == Chunk(v, n - 1)
               s == Scale(n - 1)
    <3>1. c \in Nat /\ c * s <= v
      BY <1>2, <1>7, ChunkFacts
    <3>2. s \in Nat \ {0} /\ Scale(MaxBytes) = HighBit * s
      BY <1>7, <2>2, ScaleFacts
    <3> HIDE DEF c, s
    <3>3. c * s < (2 * HighBit) * s
      BY <1>1, <1>2, <3>1, <3>2
    <3>4. c < 2 * HighBit
      BY <1>1, <3>1, <3>2, <3>3, MulLess
    <3> QED BY <3>4 DEF c
  <2> QED BY <1>5, <2>1, <2>2
<1>10. \A k \in 1..n : k # n => Chunk(v, k - 1) % HighBit \in 0..(HighBit - 1)
  <2> TAKE k \in 1..n
  <2>1. k - 1 \in Nat
    BY <1>7
  <2> QED BY <1>2, <2>1, ChunkFacts
<1>11. \A k \in 1..n : w[k] \in Byte
  <2> TAKE k \in 1..n
  <2>1. CASE k = n
    BY <1>1, <1>6, <1>8, <1>9, <2>1 DEF Byte
  <2>2. CASE k # n
    <3> DEFINE r == Chunk(v, k - 1) % HighBit
    <3>1. w[k] = HighBit + r /\ r \in 0..(HighBit - 1)
      BY <1>6, <1>10, <2>2
    <3> HIDE DEF r
    <3> QED BY <1>1, <3>1 DEF Byte
  <2> QED BY <2>1, <2>2
<1>12. n \in Nat /\ w \in [1..n -> Byte]
  BY <1>6, <1>7, <1>11
<1>13. w \in Seq(Byte) /\ Len(w) = n
  BY <1>12
<1>14. \A k \in 1..(n - 1) : w[k] = HighBit + (Chunk(v, k - 1) % HighBit)
  <2> TAKE k \in 1..(n - 1)
  <2>1. k \in 1..n /\ k # n
    BY <1>7
  <2> QED BY <1>6, <2>1
<1>15. w[n] = Chunk(v, n - 1)
  BY <1>6, <1>7
<1>16. n < MaxBytes => Chunk(v, n - 1) < HighBit
  BY <1>1, <1>5, <1>8
<1> QED BY <1>5, <1>13, <1>14, <1>15, <1>16, Zenon DEF n, w

Part(b, k) == (IF k = MaxBytes THEN b[k] ELSE b[k] % HighBit) * 2^(ChunkBits * (k - 1))
Parts(b) == [k \in 1..VarintLen(b) |-> Part(b, k)]

\* varint_read_slice adds up the bits of the bytes.
LEMMA ReadIsSum ==
    ASSUME NEW b
    PROVE  varint_read_slice(b) = SumFunctionOnSet(Parts(b), 1..VarintLen(b))
  BY Zenon DEF varint_read_slice, Parts, Part

\* A varint ends at the first byte without the high bit, or at MaxBytes.
LEMMA VarintLenFacts ==
    ASSUME NEW b
    PROVE  /\ VarintLen(b) \in 1..MaxBytes
           /\ VarintLen(b) = MaxBytes \/ (VarintLen(b) <= Len(b) /\ b[VarintLen(b)] < HighBit)
           /\ \A k \in 1..MaxBytes : k <= Len(b) /\ b[k] < HighBit => VarintLen(b) <= k
<1> DEFINE T == {k \in 1..MaxBytes : k = MaxBytes \/ (k <= Len(b) /\ b[k] < HighBit)}
<1>1. T \subseteq Nat /\ T # {}
  <2>1. MaxBytes \in 1..MaxBytes /\ 1..MaxBytes \subseteq Nat
    BY V2Constants
  <2>2. MaxBytes \in T /\ T \subseteq 1..MaxBytes
    BY <2>1, Zenon
  <2> QED BY <2>1, <2>2, Zenon
<1>2. Min(T) \in T /\ \A y \in T : Min(T) <= y
  <2> HIDE DEF T
  <2> QED BY <1>1, MinOfNats
<1>3. VarintLen(b) = Min(T)
  BY Zenon DEF VarintLen
<1> QED BY <1>2, <1>3

\* A varint of numbers is a number.
LEMMA ReadType ==
    ASSUME NEW b, \A k \in 1..VarintLen(b) : b[k] \in Nat
    PROVE  /\ \A k \in 1..VarintLen(b) : Parts(b)[k] \in Nat
           /\ varint_read_slice(b) \in Nat
<1> DEFINE n == VarintLen(b)
<1>1. n \in Nat
  BY VarintLenFacts
<1> HIDE DEF n
<1>2. ASSUME NEW k \in 1..n, b[k] \in Nat PROVE Part(b, k) \in Nat
  <2>1. HighBit \in Nat \ {0} /\ k - 1 \in Nat /\ Scale(k - 1) \in Nat
    BY <1>1, ScaleFacts
  <2> DEFINE x == IF k = MaxBytes THEN b[k] ELSE b[k] % HighBit
  <2>2. b[k] % HighBit \in Nat
    BY <1>2, <2>1, ModFacts
  <2>3. x \in Nat
    BY <1>2, <2>2
  <2>4. Part(b, k) = x * Scale(k - 1)
    BY Zenon DEF Part, Scale
  <2> HIDE DEF x
  <2> QED BY <2>1, <2>3, <2>4
<1>3. \A k \in 1..n : Parts(b)[k] \in Nat
  BY <1>2 DEF Parts, n
<1>4. IsFiniteSet(1..n)
  <2>1. 1 \in Int /\ n \in Int
    BY <1>1
  <2> QED BY <2>1, FS_Interval
<1>5. SumFunctionOnSet(Parts(b), 1..n) \in Nat
  BY <1>3, <1>4, SumType
<1> QED BY <1>3, <1>5, ReadIsSum DEF n

\* varint_read_slice reads back what varint_write wrote, whatever follows.
LEMMA ReadBack ==
    ASSUME NEW v \in Words, NEW b, Len(b) \in Nat, Size(v) <= Len(b),
           \A k \in 1..Size(v) : b[k] = varint_write(v)[k]
    PROVE  VarintLen(b) = Size(v) /\ varint_read_slice(b) = v
<1> DEFINE n == Size(v)
           w == varint_write(v)
           c(k) == Chunk(v, k)
           f == Parts(b)
<1>1. HighBit \in Nat \ {0} /\ MaxBytes \in Nat \ {0} /\ v \in Nat
  BY V2Constants, ScaleFacts, WordType
<1>2. /\ n \in 1..MaxBytes
      /\ \A k \in 1..(n - 1) : w[k] = HighBit + (c(k - 1) % HighBit)
      /\ w[n] = c(n - 1) /\ (n < MaxBytes => c(n - 1) < HighBit)
  BY WriteFacts
<1>3. \A k \in Nat : /\ c(k) \in Nat /\ c(k) % HighBit \in 0..(HighBit - 1)
                     /\ c(k) = c(k + 1) * HighBit + (c(k) % HighBit)
  BY <1>1, ChunkFacts
<1>4. n - 1 \in Nat /\ n \in Nat
  BY <1>1, <1>2
<1>5. VarintLen(b) = n
  <2> DEFINE m == VarintLen(b)
  <2>1. /\ m \in 1..MaxBytes /\ (m = MaxBytes \/ (m <= Len(b) /\ b[m] < HighBit))
        /\ \A k \in 1..MaxBytes : k <= Len(b) /\ b[k] < HighBit => m <= k
    BY VarintLenFacts
  <2> HIDE DEF m, n, w, c
  <2>2. m <= n
    <3>1. CASE n = MaxBytes
      BY <1>1, <2>1, <3>1
    <3>2. CASE n # MaxBytes
      <4>1. n < MaxBytes /\ n \in 1..n
        BY <1>1, <1>2, <3>2
      <4>2. b[n] = w[n]
        BY <4>1 DEF n, w
      <4>3. b[n] < HighBit /\ n <= Len(b)
        BY <1>2, <4>1, <4>2 DEF n
      <4> QED BY <1>2, <2>1, <4>3
    <3> QED BY <3>1, <3>2
  <2>3. ASSUME m < n PROVE FALSE
    <3>1. m \in 1..(n - 1) /\ m \in 1..n /\ m - 1 \in Nat /\ m # MaxBytes
      BY <1>1, <1>2, <2>1, <2>3
    <3> DEFINE r == c(m - 1) % HighBit
    <3>2. b[m] = HighBit + r /\ r \in 0..(HighBit - 1)
      <4>1. b[m] = w[m]
        BY <3>1 DEF n, w
      <4> QED BY <1>2, <1>3, <3>1, <4>1
    <3> HIDE DEF r
    <3>3. b[m] < HighBit
      BY <2>1, <3>1
    <3> QED BY <1>1, <3>2, <3>3
  <2> QED BY <1>2, <2>1, <2>2, <2>3 DEF m
<1>6. \A k \in 1..n : b[k] = w[k]
  OBVIOUS
<1> HIDE DEF n, w
<1>7. \A k \in 1..(n - 1) : f[k] = (c(k - 1) % HighBit) * Scale(k - 1)
  <2> TAKE k \in 1..(n - 1)
  <2>1. k \in 1..n /\ k - 1 \in Nat /\ k # MaxBytes
    BY <1>1, <1>2, <1>4
  <2>2. f[k] = (b[k] % HighBit) * Scale(k - 1)
    <3>1. f[k] = Part(b, k)
      BY <1>5, <2>1 DEF Parts
    <3> QED BY <2>1, <3>1, Zenon DEF Part, Scale
  <2> DEFINE r == c(k - 1) % HighBit
  <2>3. r \in 0..(HighBit - 1) /\ b[k] = HighBit + r
    BY <1>2, <1>3, <1>6, <2>1
  <2>4. b[k] % HighBit = r
    <3> HIDE DEF r
    <3> DEFINE d == b[k] \div HighBit
               m == b[k] % HighBit
    <3>1. b[k] \in Nat
      BY <1>1, <2>3
    <3>2. 1 * HighBit <= b[k] /\ b[k] < 1 * HighBit + HighBit
      BY <1>1, <2>3
    <3>3. d = 1
      BY <1>1, <3>1, <3>2, DivUnique
    <3>4. b[k] = d * HighBit + m /\ m \in 0..(HighBit - 1)
      BY <1>1, <3>1, ModFacts, Zenon
    <3> HIDE DEF d, m
    <3>5. m = r
      BY <1>1, <2>3, <3>3, <3>4
    <3> QED BY <3>5 DEF m
  <2> QED BY <2>2, <2>4
<1>8. f[n] = c(n - 1) * Scale(n - 1)
  <2>1. n \in 1..n /\ b[n] = c(n - 1)
    BY <1>2, <1>4, <1>6
  <2>2. f[n] = Part(b, n)
    BY <1>5, <2>1 DEF Parts
  <2>3. CASE n = MaxBytes
    BY <2>1, <2>2, <2>3, Zenon DEF Part, Scale
  <2>4. CASE n # MaxBytes
    <3>1. b[n] < HighBit /\ b[n] \in Nat
      BY <1>1, <1>2, <1>3, <1>4, <2>1, <2>4
    <3>2. b[n] % HighBit = b[n]
      BY <1>1, <3>1
    <3>3. f[n] = (b[n] % HighBit) * Scale(n - 1)
      BY <2>2, <2>4, Zenon DEF Part, Scale
    <3> QED BY <2>1, <3>2, <3>3
  <2> QED BY <2>3, <2>4
<1>9. \A k \in Nat : /\ Scale(k) \in Nat \ {0} /\ Scale(k + 1) = HighBit * Scale(k)
                     /\ c(k) * Scale(k) \in Nat
  <2> TAKE k \in Nat
  <2>1. Scale(k) \in Nat \ {0} /\ Scale(k + 1) = HighBit * Scale(k) /\ c(k) \in Nat
    BY <1>3, ScaleFacts
  <2> HIDE DEF c
  <2> QED BY <2>1
<1>10. \A k \in 1..n : f[k] \in Nat
  <2> SUFFICES ASSUME NEW k \in 1..n PROVE b[k] \in Nat
    BY <1>5, ReadType DEF n
  <2>1. w \in Seq(Byte) /\ Len(w) = n
    BY WriteFacts DEF n, w
  <2>2. w[k] \in Byte
    BY <2>1
  <2> QED BY <1>1, <1>6, <2>2 DEF Byte
<1> DEFINE S(m) == SumFunctionOnSet(f, 1..m)
           K == {m \in Nat : m < n => S(m) + c(m) * Scale(m) = v}
<1>11. \A m \in Nat : m < n => S(m) \in Nat /\ S(m + 1) = f[m + 1] + S(m)
  <2> SUFFICES ASSUME NEW m \in Nat, m < n PROVE S(m) \in Nat /\ S(m + 1) = f[m + 1] + S(m)
    OBVIOUS
  <2>1. IsFiniteSet(1..m) /\ IsFiniteSet(1..(m + 1))
    <3>1. 1 \in Int /\ m \in Int /\ m + 1 \in Int
      OBVIOUS
    <3> QED BY <3>1, FS_Interval
  <2>2. (\A k \in 1..m : f[k] \in Nat) /\ \A k \in 1..(m + 1) : f[k] \in Nat
    <3>1. \A k \in 1..(m + 1) : k \in 1..n
      BY <1>4
    <3>2. \A k \in 1..m : k \in 1..n
      BY <1>4
    <3> QED BY <1>10, <3>1, <3>2
  <2>3. m + 1 \in 1..(m + 1) /\ 1..(m + 1) \ {m + 1} = 1..m
    OBVIOUS
  <2> HIDE DEF f
  <2>4. S(m) \in Nat
    BY <2>1, <2>2, SumType
  <2>5. \A y \in 1..(m + 1) : S(m + 1) = f[y] + SumFunctionOnSet(f, 1..(m + 1) \ {y})
    BY <2>1, <2>2, SumRemove
  <2>6. S(m + 1) = f[m + 1] + SumFunctionOnSet(f, 1..(m + 1) \ {m + 1})
    BY <2>3, <2>5
  <2> QED BY <2>3, <2>4, <2>6
<1> HIDE DEF f
<1>12. 0 \in K
  <2>1. S(0) = 0
    <3>1. 1..0 = {}
      OBVIOUS
    <3> QED BY <3>1, SumEmpty
  <2>2. Scale(0) = 1 /\ c(0) * Scale(0) <= v /\ v < c(0) * Scale(0) + Scale(0) /\ c(0) \in Nat
    <3>1. 0 \in Nat
      OBVIOUS
    <3> QED BY <1>1, <3>1, ScaleFacts, ChunkFacts
  <2> HIDE DEF c
  <2>3. c(0) * Scale(0) = v
    BY <1>1, <2>2
  <2> HIDE DEF S
  <2>4. S(0) + c(0) * Scale(0) = v
    BY <1>1, <2>1, <2>3
  <2> QED BY <2>4
<1>13. ASSUME NEW m \in Nat, m \in K PROVE m + 1 \in K
  <2> SUFFICES ASSUME m + 1 < n PROVE S(m + 1) + c(m + 1) * Scale(m + 1) = v
    OBVIOUS
  <2>1. m < n /\ m + 1 \in 1..(n - 1) /\ (m + 1) - 1 = m
    BY <1>4
  <2> DEFINE r == c(m) % HighBit
  <2>2. S(m) \in Nat /\ S(m + 1) = f[m + 1] + S(m) /\ S(m) + c(m) * Scale(m) = v
    BY <1>11, <1>13, <2>1
  <2>3. f[m + 1] = r * Scale(m)
    BY <1>7, <2>1
  <2>4. c(m) = c(m + 1) * HighBit + r /\ r \in Nat /\ c(m) \in Nat /\ c(m + 1) \in Nat
    <3>1. c(m) = c(m + 1) * HighBit + r /\ r \in 0..(HighBit - 1) /\ c(m) \in Nat
      BY <1>3, Zenon
    <3>2. c(m + 1) \in Nat
      BY <1>3
    <3> HIDE DEF r, c
    <3> QED BY <1>1, <3>1, <3>2
  <2>5. Scale(m) \in Nat /\ Scale(m + 1) = HighBit * Scale(m)
    BY <1>9
  <2> DEFINE x == c(m)
             y == c(m + 1)
             s == Scale(m)
             h == HighBit
  <2>6. x * s = y * (h * s) + r * s
    <3> HIDE DEF x, y, s, h, r
    <3>1. x = y * h + r /\ x \in Nat /\ y \in Nat /\ r \in Nat /\ s \in Nat /\ h \in Nat
      BY <1>1, <2>4, <2>5 DEF x, y, s, h
    <3> QED BY <3>1
  <2> HIDE DEF S, r, c
  <2>7. y * (h * s) \in Nat /\ r * s \in Nat
    BY <1>1, <2>4, <2>5
  <2> DEFINE p == y * (h * s)
             q == r * s
  <2>8. S(m) + (p + q) = v /\ S(m + 1) = q + S(m) /\ c(m + 1) * Scale(m + 1) = p
    BY <2>2, <2>3, <2>5, <2>6
  <2> HIDE DEF p, q
  <2>9. p \in Nat /\ q \in Nat
    BY <2>7 DEF p, q
  <2> QED BY <2>2, <2>8, <2>9
<1>14. Nat \subseteq K
  <2> HIDE DEF K
  <2> QED BY <1>12, <1>13, NatSetInduction
<1>15. S(n) = v
  <2>1. n - 1 < n /\ (n - 1) + 1 = n
    BY <1>4
  <2>2. S(n - 1) + c(n - 1) * Scale(n - 1) = v
    BY <1>4, <1>14, <2>1
  <2>3. S(n - 1) \in Nat /\ S((n - 1) + 1) = f[(n - 1) + 1] + S(n - 1)
    BY <1>4, <1>11, <2>1
  <2>4. c(n - 1) * Scale(n - 1) \in Nat
    BY <1>4, <1>9
  <2>5. S(n) = c(n - 1) * Scale(n - 1) + S(n - 1)
    BY <1>8, <2>1, <2>3
  <2> DEFINE p == c(n - 1) * Scale(n - 1)
  <2> HIDE DEF S, p
  <2>6. S(n - 1) + p = v /\ p \in Nat /\ S(n) = p + S(n - 1)
    BY <2>2, <2>4, <2>5 DEF p
  <2> QED BY <2>3, <2>6
<1> QED BY <1>5, <1>15, ReadIsSum DEF f, n

\* zig_zag_decode undoes zig_zag_encode on every i64.
LEMMA ZigZag ==
    ASSUME NEW n \in Int, -(SignedMax + 1) <= n, n <= SignedMax
    PROVE  zig_zag_encode(n) \in Words /\ zig_zag_decode(zig_zag_encode(n)) = n
<1>1. SignedMax \in Nat /\ MaxWord = 2 * SignedMax + 1 /\ Words = 0..MaxWord
  <2>1. Scale(MaxBytes) \in Nat \ {0}
    BY ScaleFacts, V2Constants
  <2>2. 2^W = 2 * Scale(MaxBytes) /\ SignedMax = Scale(MaxBytes) - 1
    BY ScaleFacts
  <2>3. MaxWord = 2^W - 1 /\ Words = 0..MaxWord
    BY WordType
  <2> DEFINE s == Scale(MaxBytes)
             t == 2^W
  <2> HIDE DEF s, t
  <2>4. s \in Nat \ {0} /\ t = 2 * s /\ SignedMax = s - 1 /\ MaxWord = t - 1
    BY <2>1, <2>2, <2>3 DEF s, t
  <2> QED BY <2>3, <2>4
<1> DEFINE e == zig_zag_encode(n)
<1>2. CASE n < 0
  <2>1. e = -2 * n - 1
    BY <1>2 DEF zig_zag_encode
  <2> HIDE DEF e
  <2>2. e \in Words
    BY <1>1, <1>2, <2>1
  <2>3. e % 2 # 0 /\ e \div 2 = -n - 1
    BY <1>2, <2>1
  <2>4. zig_zag_decode(e) = n
    BY <2>3 DEF zig_zag_decode
  <2> QED BY <2>2, <2>4 DEF e
<1>3. CASE ~(n < 0)
  <2>1. e = 2 * n
    BY <1>3 DEF zig_zag_encode
  <2> HIDE DEF e
  <2>2. e \in Words
    BY <1>1, <1>3, <2>1
  <2>3. e % 2 = 0 /\ e \div 2 = n
    BY <1>3, <2>1
  <2>4. zig_zag_decode(e) = n
    BY <2>3 DEF zig_zag_decode
  <2> QED BY <2>2, <2>4 DEF e
<1> QED BY <1>2, <1>3

\* zig_zag_decode of a word is an integer.
LEMMA ZigZagType == ASSUME NEW e \in Nat PROVE zig_zag_decode(e) \in Int
  BY DEF zig_zag_decode

-----------------------------------------------------------------------------
(***************************************************************************)
(* Runs                                                                    *)
(***************************************************************************)
Slots(g) == IndexLimit(g) + 1

\* What encode_counts relies on: the slot of the maximum exists, and the counts
\* and the lengths of the runs of zeros fit an i64.
Writable(g) ==
    /\ IndexLimit(g) \in Nat /\ Slots(g) <= SignedMax
    /\ \A i \in 0..IndexLimit(g) : g.counts[i] \in Nat
    /\ \A i \in 0..IndexLimit(g) : g.counts[i] <= SignedMax

\* A run ends at the limit or before a slot that is not empty.
LEMMA RunLengthFacts ==
    ASSUME NEW g, Writable(g), NEW i \in 0..IndexLimit(g)
    PROVE  LET n == RunLength(g, i)
           IN  /\ n \in 1..Slots(g) /\ i + n <= Slots(g)
               /\ i + n = Slots(g) \/ g.counts[i + n] # 0
               /\ \A m \in 1..(n - 1) : g.counts[i + m] = 0
<1> DEFINE lim == IndexLimit(g)
           T == {n \in 1..(lim + 1) : i + n > lim \/ g.counts[i + n] # 0}
           r == RunLength(g, i)
<1>1. lim \in Nat /\ lim + 1 = Slots(g)
  BY DEF Writable, Slots
<1>2. r = Min(T)
  BY Zenon DEF RunLength
<1> HIDE DEF lim
<1>3. i \in 0..lim
  BY DEF lim
<1>4. lim + 1 \in T /\ T \subseteq Nat
  BY <1>1, <1>3
<1>5. r \in T /\ \A y \in T : r <= y
  <2> HIDE DEF T
  <2> QED BY <1>2, <1>4, MinOfNats
<1> HIDE DEF r
<1>6. r \in 1..(lim + 1) /\ (i + r > lim \/ g.counts[i + r] # 0)
  BY <1>5
<1>7. \A m \in 1..(r - 1) : i + m <= lim /\ g.counts[i + m] = 0
  <2> TAKE m \in 1..(r - 1)
  <2>1. m \in 1..(lim + 1) /\ ~(r <= m)
    BY <1>1, <1>6
  <2>2. m \notin T
    BY <1>5, <2>1
  <2>3. ~(i + m > lim) /\ g.counts[i + m] = 0
    BY <2>1, <2>2
  <2> QED BY <1>1, <1>3, <2>1, <2>3
<1>8. i + r <= lim + 1
  <2>1. CASE r = 1
    BY <1>1, <1>3, <2>1
  <2>2. CASE r # 1
    <3>1. r - 1 \in 1..(r - 1)
      BY <1>1, <1>6, <2>2
    <3> QED BY <1>1, <1>3, <1>6, <1>7, <3>1
  <2> QED BY <2>1, <2>2
<1>9. i + r = lim + 1 \/ g.counts[i + r] # 0
  BY <1>1, <1>3, <1>6, <1>8
<1> QED BY <1>1, <1>6, <1>7, <1>8, <1>9 DEF r

Number(g, i) == zig_zag_encode(CountOrZeros(g, i))

\* The number written for a run fits a word, and is read back.
LEMMA NumberFacts ==
    ASSUME NEW g, Writable(g), NEW i \in 0..IndexLimit(g)
    PROVE  Number(g, i) \in Words /\ zig_zag_decode(Number(g, i)) = CountOrZeros(g, i)
<1> DEFINE c == CountOrZeros(g, i)
           r == RunLength(g, i)
<1>1. r \in 1..Slots(g) /\ Slots(g) <= SignedMax /\ Slots(g) \in Nat
  BY RunLengthFacts DEF Writable, Slots
<1>2. g.counts[i] \in Nat /\ g.counts[i] <= SignedMax
  BY DEF Writable
<1>3. SignedMax \in Nat
  BY ScaleFacts, V2Constants
<1>4. c = -r \/ c = g.counts[i]
  BY DEF CountOrZeros
<1> HIDE DEF c, r
<1>5. c \in Int /\ -(SignedMax + 1) <= c /\ c <= SignedMax
  BY <1>1, <1>2, <1>3, <1>4
<1>6. zig_zag_encode(c) \in Words /\ zig_zag_decode(zig_zag_encode(c)) = c
  BY <1>5, ZigZag
<1> QED BY <1>6 DEF c, Number

NumberBytes(g, i) == IF RunStart(g, i) THEN varint_write(Number(g, i)) ELSE <<>>

\* The bytes that encode_counts writes at a slot: none within a run of zeros.
LEMMA NumberBytesFacts ==
    ASSUME NEW g, Writable(g), NEW i \in 0..IndexLimit(g)
    PROVE  /\ NumberBytes(g, i) \in Seq(Byte)
           /\ Len(NumberBytes(g, i)) = IF RunStart(g, i) THEN Size(Number(g, i)) ELSE 0
           /\ Size(Number(g, i)) \in 1..MaxBytes
<1>1. Number(g, i) \in Words
  BY NumberFacts
<1>2. /\ varint_write(Number(g, i)) \in Seq(Byte) /\ Size(Number(g, i)) \in 1..MaxBytes
      /\ Len(varint_write(Number(g, i))) = Size(Number(g, i))
  BY <1>1, WriteFacts
<1>3. <<>> \in Seq(Byte) /\ Len(<<>>) = 0
  OBVIOUS
<1> QED BY <1>2, <1>3 DEF NumberBytes

\* The recursion of encode_counts has a solution, one step for each slot.
LEMMA EncodedFacts ==
    ASSUME NEW g, Writable(g)
    PROVE  /\ Slots(g) \in Nat \ {0} /\ Encoded(g) \in [0..Slots(g) -> Seq(Byte)]
           /\ Encoded(g)[0] = <<>>
           /\ \A i \in 0..IndexLimit(g) :
                Encoded(g)[i + 1] = Encoded(g)[i] \o NumberBytes(g, i)
           /\ encode_counts(g) = Encoded(g)[Slots(g)]
<1> DEFINE n == Slots(g)
           Eq(e) == e = [i \in 0..n |-> IF i = 0 THEN <<>> ELSE e[i - 1] \o NumberBytes(g, i - 1)]
           G == [z \in Seq(Byte) \X (1..n) |-> z[1] \o NumberBytes(g, z[2] - 1)]
<1>1. n \in Nat \ {0} /\ IndexLimit(g) \in Nat /\ n = IndexLimit(g) + 1
  BY DEF Writable, Slots
<1>2. Encoded(g) = CHOOSE e : Eq(e)
  BY Zenon DEF Encoded, NumberBytes, Number, Slots
<1> HIDE DEF n
<1>3. \A i \in 1..n : i - 1 \in 0..IndexLimit(g) /\ NumberBytes(g, i - 1) \in Seq(Byte)
  <2> TAKE i \in 1..n
  <2>1. i - 1 \in 0..IndexLimit(g)
    BY <1>1
  <2> QED BY <2>1, NumberBytesFacts
<1>4. \A y \in Seq(Byte), i \in 1..n :
         G[<<y, i>>] \in Seq(Byte) /\ G[<<y, i>>] = y \o NumberBytes(g, i - 1)
  <2> TAKE y \in Seq(Byte), i \in 1..n
  <2>1. G[<<y, i>>] = y \o NumberBytes(g, i - 1)
    OBVIOUS
  <2> HIDE DEF G
  <2>2. NumberBytes(g, i - 1) \in Seq(Byte)
    BY <1>3
  <2> DEFINE x == NumberBytes(g, i - 1)
  <2> HIDE DEF x
  <2>3. x \in Seq(Byte)
    BY <2>2 DEF x
  <2>4. y \o x \in Seq(Byte)
    BY <2>3
  <2> QED BY <2>1, <2>4 DEF x
<1> HIDE DEF G
<1>5. PICK e : Unfolds(e, n, Seq(Byte), <<>>, G)
  <2>1. StaysUpTo(G, Seq(Byte), n)
    BY <1>4 DEF StaysUpTo
  <2>2. <<>> \in Seq(Byte) /\ n \in Nat
    BY <1>1
  <2> DEFINE P == Seq(Byte)
             base == <<>>
  <2> HIDE DEF P, base
  <2>3. \E f : Unfolds(f, n, P, base, G)
    <3>1. base \in P /\ StaysUpTo(G, P, n)
      BY <2>1, <2>2 DEF P, base
    <3> QED BY <2>2, <3>1, RecExists
  <2> QED BY <2>3 DEF P, base
<1>6. /\ e \in [0..n -> Seq(Byte)] /\ e[0] = <<>>
      /\ \A i \in 1..n : e[i] = e[i - 1] \o NumberBytes(g, i - 1)
  <2>1. /\ e \in [0..n -> Seq(Byte)] /\ e[0] = <<>>
        /\ \A i \in 1..n : e[i] = G[<<e[i - 1], i>>]
    BY <1>5 DEF Unfolds
  <2>2. \A i \in 1..n : i - 1 \in 0..n /\ e[i - 1] \in Seq(Byte)
    BY <1>1, <2>1
  <2> QED BY <1>4, <2>1, <2>2
<1>7. Eq(e)
  <2>1. \A i \in 0..n : e[i] = IF i = 0 THEN <<>> ELSE e[i - 1] \o NumberBytes(g, i - 1)
    <3> TAKE i \in 0..n
    <3>1. CASE i = 0
      BY <1>6, <3>1
    <3>2. CASE i # 0
      <4>1. i \in 1..n
        BY <1>1, <3>2
      <4> QED BY <1>6, <3>2, <4>1
    <3> QED BY <3>1, <3>2
  <2> QED BY <1>6, <2>1
<1>8. Eq(Encoded(g))
  <2> HIDE DEF Eq
  <2> QED BY <1>2, <1>7
<1> DEFINE E == Encoded(g)
<1> HIDE DEF E
<1>9. E = [i \in 0..n |-> IF i = 0 THEN <<>> ELSE E[i - 1] \o NumberBytes(g, i - 1)]
  BY <1>8 DEF E
<1>10. E[0] = <<>> /\ \A i \in 0..IndexLimit(g) : E[i + 1] = E[i] \o NumberBytes(g, i)
  <2>1. 0 \in 0..n /\ \A i \in 0..IndexLimit(g) : i + 1 \in 0..n /\ i + 1 # 0 /\ (i + 1) - 1 = i
    BY <1>1
  <2> QED BY <1>9, <2>1
<1>11. DOMAIN E = 0..n
  BY <1>9
<1> DEFINE K == {k \in Nat : k <= n => E[k] \in Seq(Byte)}
<1>12. 0 \in K
  <2>1. <<>> \in Seq(Byte)
    OBVIOUS
  <2> QED BY <1>10, <2>1
<1>13. ASSUME NEW k \in Nat, k \in K PROVE k + 1 \in K
  <2> SUFFICES ASSUME k + 1 <= n PROVE E[k + 1] \in Seq(Byte)
    OBVIOUS
  <2>1. k \in 0..IndexLimit(g) /\ k <= n
    BY <1>1
  <2>2. E[k] \in Seq(Byte) /\ NumberBytes(g, k) \in Seq(Byte)
    BY <1>13, <2>1, NumberBytesFacts
  <2>3. E[k + 1] = E[k] \o NumberBytes(g, k)
    BY <1>10, <2>1
  <2> DEFINE x == E[k]
             y == NumberBytes(g, k)
  <2> HIDE DEF x, y
  <2>4. x \o y \in Seq(Byte)
    <3>1. x \in Seq(Byte) /\ y \in Seq(Byte)
      BY <2>2 DEF x, y
    <3> QED BY <3>1
  <2> QED BY <2>3, <2>4 DEF x, y
<1>14. Nat \subseteq K
  <2> HIDE DEF K
  <2> QED BY <1>12, <1>13, NatSetInduction
<1>15. E \in [0..n -> Seq(Byte)]
  <2>1. \A k \in 0..n : E[k] \in Seq(Byte)
    BY <1>1, <1>14
  <2> QED BY <1>9, <1>11, <2>1
<1>16. encode_counts(g) = E[n]
  <2>1. encode_counts(g) = Encoded(g)[Slots(g)]
    BY Zenon DEF encode_counts, Slots
  <2> QED BY <2>1 DEF E, n
<1> QED BY <1>1, <1>10, <1>15, <1>16 DEF E, n

\* What encode_counts appends at a slot.
LEMMA EncodedStep ==
    ASSUME NEW g, Writable(g), NEW i \in 0..IndexLimit(g)
    PROVE  LET E == Encoded(g)
           IN  /\ E[i] \in Seq(Byte) /\ E[i + 1] \in Seq(Byte)
               /\ Len(E[i + 1]) = Len(E[i]) + Len(NumberBytes(g, i))
               /\ \A k \in 1..Len(E[i]) : E[i + 1][k] = E[i][k]
               /\ \A k \in 1..Len(NumberBytes(g, i)) :
                    E[i + 1][Len(E[i]) + k] = NumberBytes(g, i)[k]
               /\ ~RunStart(g, i) => E[i + 1] = E[i]
<1> DEFINE E == Encoded(g)
           x == E[i]
           y == NumberBytes(g, i)
<1>1. i \in 0..Slots(g) /\ i + 1 \in 0..Slots(g)
  BY EncodedFacts DEF Slots, Writable
<1>2. x \in Seq(Byte) /\ E[i + 1] \in Seq(Byte) /\ E[i + 1] = x \o y
  BY <1>1, EncodedFacts
<1>3. y \in Seq(Byte)
  BY NumberBytesFacts
<1>4. ~RunStart(g, i) => y = <<>>
  BY DEF NumberBytes
<1> HIDE DEF E, x, y
<1>5. IsSequence(x) /\ IsSequence(y)
  BY <1>2, <1>3, SeqIsSequence
<1>6. /\ Len(x \o y) = Len(x) + Len(y) /\ \A k \in 1..Len(x) : (x \o y)[k] = x[k]
      /\ \A k \in 1..Len(y) : (x \o y)[Len(x) + k] = y[k]
  BY <1>5, ConcatSeq
<1>7. ~RunStart(g, i) => x \o y = x
  BY <1>2, <1>4
<1> QED BY <1>2, <1>6, <1>7 DEF E, x, y

\* What was written stays as it is.
LEMMA EncodedPrefix ==
    ASSUME NEW g, Writable(g), NEW i \in 0..Slots(g), NEW j \in i..Slots(g)
    PROVE  LET E == Encoded(g)
           IN  Len(E[i]) <= Len(E[j]) /\ \A k \in 1..Len(E[i]) : E[j][k] = E[i][k]
<1> DEFINE E == Encoded(g)
           Grown(m) == Len(E[i]) <= Len(E[m]) /\ \A k \in 1..Len(E[i]) : E[m][k] = E[i][k]
           K == {k \in Nat : i + k <= Slots(g) => Grown(i + k)}
<1>1. /\ Slots(g) \in Nat /\ IndexLimit(g) \in Nat /\ Slots(g) = IndexLimit(g) + 1
      /\ \A m \in 0..Slots(g) : E[m] \in Seq(Byte) /\ Len(E[m]) \in Nat
  BY EncodedFacts DEF Writable, Slots
<1>2. 0 \in K
  <2>1. i + 0 = i /\ Len(E[i]) <= Len(E[i])
    BY <1>1
  <2> HIDE DEF E
  <2> QED BY <2>1
<1>3. ASSUME NEW k \in Nat, k \in K PROVE k + 1 \in K
  <2> SUFFICES ASSUME i + (k + 1) <= Slots(g) PROVE Grown(i + (k + 1))
    OBVIOUS
  <2> DEFINE m == i + k
  <2>1. m \in 0..IndexLimit(g) /\ m <= Slots(g) /\ i + (k + 1) = m + 1 /\ m \in 0..Slots(g)
        /\ m + 1 \in 0..Slots(g)
    BY <1>1
  <2>2. Grown(m)
    BY <1>3, <2>1
  <2> HIDE DEF m
  <2>3. /\ Len(E[m + 1]) = Len(E[m]) + Len(NumberBytes(g, m))
        /\ \A n \in 1..Len(E[m]) : E[m + 1][n] = E[m][n]
    BY <2>1, EncodedStep
  <2>4. Len(NumberBytes(g, m)) \in Nat
    <3>1. NumberBytes(g, m) \in Seq(Byte)
      BY <2>1, NumberBytesFacts
    <3> QED BY <3>1
  <2> HIDE DEF E
  <2>5. Len(E[i]) \in Nat /\ Len(E[m]) \in Nat /\ Len(E[m + 1]) \in Nat
    BY <1>1, <2>1
  <2>6. Len(E[i]) <= Len(E[m + 1])
    BY <2>2, <2>3, <2>4, <2>5
  <2>7. \A n \in 1..Len(E[i]) : E[m + 1][n] = E[i][n]
    <3> TAKE n \in 1..Len(E[i])
    <3>1. n \in 1..Len(E[m])
      BY <2>2, <2>5
    <3> QED BY <2>2, <2>3, <3>1
  <2>8. Grown(m + 1)
    BY <2>6, <2>7
  <2> QED BY <2>1, <2>8
<1>4. Nat \subseteq K
  <2> HIDE DEF K
  <2> QED BY <1>2, <1>3, NatSetInduction
<1>5. j - i \in Nat /\ i + (j - i) = j /\ j <= Slots(g)
  BY <1>1
<1>6. Grown(i + (j - i))
  <2> HIDE DEF Grown
  <2> QED BY <1>4, <1>5
<1> QED BY <1>5, <1>6

\* Nothing is written within a run.
LEMMA EncodedSkip ==
    ASSUME NEW g, Writable(g), NEW i \in 0..Slots(g), NEW j \in i..Slots(g),
           \A m \in i..(j - 1) : ~RunStart(g, m)
    PROVE  Encoded(g)[j] = Encoded(g)[i]
<1> DEFINE E == Encoded(g)
           K == {k \in Nat : i + k <= j => E[i + k] = E[i]}
<1>1. Slots(g) \in Nat /\ IndexLimit(g) \in Nat /\ Slots(g) = IndexLimit(g) + 1
  BY EncodedFacts DEF Writable, Slots
<1>2. 0 \in K
  <2>1. i + 0 = i
    BY <1>1
  <2> QED BY <2>1
<1>3. ASSUME NEW k \in Nat, k \in K PROVE k + 1 \in K
  <2> SUFFICES ASSUME i + (k + 1) <= j PROVE E[i + (k + 1)] = E[i]
    OBVIOUS
  <2> DEFINE m == i + k
  <2>1. m \in 0..IndexLimit(g) /\ m <= j /\ i + (k + 1) = m + 1 /\ m \in i..(j - 1)
    BY <1>1
  <2>2. E[m] = E[i]
    BY <1>3, <2>1
  <2> HIDE DEF m
  <2>3. E[m + 1] = E[m]
    BY <2>1, EncodedStep
  <2> QED BY <2>1, <2>2, <2>3
<1>4. Nat \subseteq K
  <2> HIDE DEF K
  <2> QED BY <1>2, <1>3, NatSetInduction
<1>5. j - i \in Nat /\ i + (j - i) = j
  BY <1>1
<1>6. E[i + (j - i)] = E[i]
  <2> HIDE DEF E
  <2> QED BY <1>1, <1>4, <1>5
<1> QED BY <1>5, <1>6

\* No slot takes more than MaxBytes.
LEMMA EncodedSize ==
    ASSUME NEW g, Writable(g)
    PROVE  Len(encode_counts(g)) <= max_encoded_size(g)
<1> DEFINE E == Encoded(g)
           K == {k \in Nat : k <= Slots(g) => Len(E[k]) <= MaxBytes * k}
<1>1. /\ Slots(g) \in Nat /\ IndexLimit(g) \in Nat /\ Slots(g) = IndexLimit(g) + 1
      /\ E[0] = <<>> /\ encode_counts(g) = E[Slots(g)]
  BY EncodedFacts DEF Writable, Slots
<1>2. MaxBytes \in Nat
  BY V2Constants
<1>3. 0 \in K
  BY <1>1, <1>2
<1>4. ASSUME NEW k \in Nat, k \in K PROVE k + 1 \in K
  <2> SUFFICES ASSUME k + 1 <= Slots(g) PROVE Len(E[k + 1]) <= MaxBytes * (k + 1)
    OBVIOUS
  <2>1. k \in 0..IndexLimit(g) /\ k <= Slots(g)
    BY <1>1
  <2>2. Len(E[k + 1]) = Len(E[k]) + Len(NumberBytes(g, k)) /\ E[k] \in Seq(Byte)
    BY <2>1, EncodedStep
  <2>3. Len(NumberBytes(g, k)) \in 0..MaxBytes
    BY <1>2, <2>1, NumberBytesFacts
  <2>4. Len(E[k]) \in Nat /\ Len(E[k]) <= MaxBytes * k
    BY <1>4, <2>1, <2>2
  <2>5. MaxBytes * (k + 1) = MaxBytes * k + MaxBytes /\ MaxBytes * k \in Nat
    BY <1>2
  <2> DEFINE p == MaxBytes * k
             q == MaxBytes * (k + 1)
  <2> HIDE DEF E, p, q
  <2>6. Len(E[k + 1]) <= q
    <3>1. Len(E[k]) <= p /\ q = p + MaxBytes /\ p \in Nat
      BY <2>4, <2>5 DEF p, q
    <3> QED BY <1>2, <2>2, <2>3, <2>4, <3>1
  <2> QED BY <2>6 DEF q
<1>5. Nat \subseteq K
  <2> HIDE DEF K
  <2> QED BY <1>3, <1>4, NatSetInduction
<1>6. Len(E[Slots(g)]) <= MaxBytes * Slots(g)
  BY <1>1, <1>5
<1> QED BY <1>1, <1>6 DEF max_encoded_size

-----------------------------------------------------------------------------
(***************************************************************************)
(* The histograms that are written                                         *)
(***************************************************************************)
Written == Hists \cup Later
SlotCount(g) == NumBins(g.lay, BucketsToCover(g.lay, g.high))

\* There is at least one slot.
LEMMA BinsType ==
    ASSUME NEW L, ValidLayout(L), NEW x
    PROVE  NumBins(L, BucketsToCover(L, x)) \in Nat \ {0}
<1> DEFINE n == BucketsToCover(L, x)
           h == SubBucketHalfCount(L)
<1>1. n \in Nat /\ n >= 1
  BY BucketsInWord, WordType DEF ValidLayout
<1>2. h \in Nat \ {0}
  BY HalfFacts
<1> HIDE DEF n, h
<1>3. (n + 1) * h \in Nat \ {0}
  BY <1>1, <1>2
<1> QED BY <1>3 DEF NumBins, n, h

\* What is assumed of the histograms that are written.
LEMMA SourceFacts ==
    ASSUME NEW g \in Written
    PROVE  /\ ValidLayout(g.lay) /\ g.lay = LayoutOf(g.low, g.sigfig)
           /\ g.low \in Nat /\ g.high \in Nat /\ g.sigfig \in Nat
           /\ CanCreate(g.low, g.high, g.sigfig)
           /\ SlotCount(g) \in Nat \ {0} /\ SlotCount(g) <= SignedMax
           /\ g.counts \in [0..(SlotCount(g) - 1) -> Nat]
           /\ Consistent(g)
<1>1. /\ WellFormed(g) /\ Consistent(g) /\ DistinctValues(g) = SlotCount(g)
      /\ DistinctValues(g) <= SignedMax
  BY HistogramsAssumption, Zenon DEF Written, SlotCount
<1>2. /\ g.low \in Nat /\ g.high \in Nat /\ g.sigfig \in Nat
      /\ CanCreate(g.low, g.high, g.sigfig) /\ g.lay = LayoutOf(g.low, g.sigfig)
  BY <1>1, Zenon DEF WellFormed
<1>3. ValidLayout(g.lay)
  BY <1>2, LayoutIsValid, Zenon
<1>4. SlotCount(g) \in Nat \ {0}
  BY <1>3, BinsType DEF SlotCount
<1>5. PICK n \in 1..NumBins(g.lay, BucketsToCover(g.lay, MaxWord)) :
          g.counts \in [0..(n - 1) -> 0..CounterMax]
  BY <1>1, Zenon DEF WellFormed
<1>6. n \in Nat /\ n >= 1
  <2> DEFINE m == NumBins(g.lay, BucketsToCover(g.lay, MaxWord))
  <2>1. m \in Nat /\ n \in 1..m
    BY <1>3, <1>5, BinsType
  <2> HIDE DEF m
  <2> QED BY <2>1
<1>7. n = SlotCount(g)
  <2>1. DistinctValues(g) = Cardinality(0..(n - 1))
    BY <1>5 DEF DistinctValues
  <2>2. Cardinality(0..(n - 1)) = n
    <3>1. 0 \in Int /\ n - 1 \in Int /\ ~(0 > n - 1)
      BY <1>6
    <3>2. Cardinality(0..(n - 1)) = IF 0 > n - 1 THEN 0 ELSE (n - 1) - 0 + 1
      BY <3>1, FS_Interval
    <3> QED BY <1>6, <3>1, <3>2
  <2> QED BY <1>1, <2>1, <2>2
<1>8. 0..CounterMax \subseteq Nat
  BY CounterType
<1>9. g.counts \in [0..(SlotCount(g) - 1) -> Nat]
  BY <1>5, <1>7, <1>8
<1> QED BY <1>1, <1>2, <1>3, <1>4, <1>9

\* The slots up to the maximum are there, and those above it are empty.
LEMMA LimitFacts ==
    ASSUME NEW g \in Written
    PROVE  /\ IndexLimit(g) \in 0..(SlotCount(g) - 1)
           /\ NonZero(g) # {} => IndexLimit(g) = Max(NonZero(g))
           /\ \A i \in 0..(SlotCount(g) - 1) : i > IndexLimit(g) => g.counts[i] = 0
<1> DEFINE n == SlotCount(g)
<1>1. ValidLayout(g.lay) /\ n \in Nat \ {0} /\ g.counts \in [0..(n - 1) -> Nat] /\ Consistent(g)
  BY SourceFacts
<1> HIDE DEF n
<1>2. /\ NonZero(g) \subseteq 0..(n - 1)
      /\ NonZero(g) # {} => /\ Max(NonZero(g)) \in NonZero(g)
                            /\ \A i \in NonZero(g) : i <= Max(NonZero(g))
  BY <1>1, NonZeroFacts
<1>3. g.max \in Words
  BY <1>1, Zenon DEF Consistent
<1>4. \A i \in 0..(n - 1) : i \in NonZero(g) <=> g.counts[i] # 0
  BY <1>1 DEF NonZero
<1>5. CASE NonZero(g) = {}
  <2>1. g.max = ORIGINAL_MAX
    BY <1>1, <1>5, Zenon DEF Consistent
  <2>2. IndexLimit(g) = IndexFor(g.lay, 0)
    BY <2>1 DEF IndexLimit, MaxOf, ORIGINAL_MAX
  <2>3. IndexLimit(g) = 0
    BY <1>1, <2>2, IndexForZero
  <2>4. 0 \in 0..(n - 1)
    BY <1>1
  <2> QED BY <1>4, <1>5, <2>3, <2>4 DEF n
<1>6. CASE NonZero(g) # {}
  <2>1. IndexFor(g.lay, g.max) = Max(NonZero(g))
    BY <1>1, <1>6, Zenon DEF Consistent
  <2>2. MaxOf(g) = g.max \/ MaxOf(g) = HighestEquivalent(g.lay, g.max)
    BY Zenon DEF MaxOf
  <2>3. IndexLimit(g) = Max(NonZero(g))
    BY <1>1, <1>3, <2>1, <2>2, HighestInSlot DEF IndexLimit
  <2> DEFINE m == Max(NonZero(g))
  <2> HIDE DEF m
  <2>4. m \in 0..(n - 1) /\ \A i \in 0..(n - 1) : i > m => g.counts[i] = 0
    <3>1. m \in 0..(n - 1) /\ \A i \in NonZero(g) : i <= m
      BY <1>2, <1>6 DEF m
    <3>2. \A i \in 0..(n - 1) : i > m => i \notin NonZero(g)
      BY <1>1, <3>1
    <3> QED BY <1>4, <3>1, <3>2
  <2> QED BY <2>3, <2>4 DEF n, m
<1> QED BY <1>5, <1>6

\* A histogram that serialize accepts is one that encode_counts can write.
LEMMA SerializableIsWritable ==
    ASSUME NEW g \in Written, Serializable(g)
    PROVE  Writable(g)
<1> DEFINE n == SlotCount(g)
           lim == IndexLimit(g)
<1>1. n \in Nat \ {0} /\ n <= SignedMax /\ g.counts \in [0..(n - 1) -> Nat]
  BY SourceFacts
<1>2. lim \in 0..(n - 1)
  BY LimitFacts
<1>3. SignedMax \in Nat
  BY ScaleFacts, V2Constants
<1>4. ASSUME NEW i \in 0..lim PROVE g.counts[i] \in Nat /\ g.counts[i] <= SignedMax
  <2>1. i \in DOMAIN g.counts /\ g.counts[i] \in Nat /\ i <= IndexLimit(g)
    <3> HIDE DEF n
    <3> QED BY <1>1, <1>2
  <2>2. CASE g.counts[i] = 0
    BY <1>3, <2>2
  <2>3. CASE g.counts[i] # 0
    <3>1. RunStart(g, i)
      BY <2>1, <2>3, Zenon DEF RunStart
    <3> QED BY <2>1, <3>1 DEF Serializable
  <2> QED BY <2>1, <2>2, <2>3
<1>5. lim \in Nat /\ lim + 1 <= SignedMax
  <2> HIDE DEF n, lim
  <2> QED BY <1>1, <1>2, <1>3
<1> QED BY <1>4, <1>5 DEF Writable, Slots

-----------------------------------------------------------------------------
(***************************************************************************)
(* The histogram that is read into                                         *)
(***************************************************************************)
\* A histogram as new_with_bounds makes it, but for its counts.
FreshHist(h) ==
    /\ h = [low |-> h.low, high |-> h.high, sigfig |-> h.sigfig, auto |-> h.auto,
            lay |-> h.lay, buckets |-> h.buckets,
            max |-> ORIGINAL_MAX, min |-> ORIGINAL_MIN, total |-> 0, counts |-> h.counts]
    /\ h.low \in Nat /\ h.high \in Nat /\ h.sigfig \in Nat
    /\ CanCreate(h.low, h.high, h.sigfig)
    /\ h.lay = LayoutOf(h.low, h.sigfig)
    /\ h.counts \in [0..(SlotCount(h) - 1) -> Nat]

\* new_with_bounds: no counts.
LEMMA NewIsFresh ==
    ASSUME NEW low \in Nat, NEW high \in Nat, NEW sigfig \in Nat, CanCreate(low, high, sigfig)
    PROVE  LET h == NewWithBounds(low, high, sigfig)
           IN  /\ FreshHist(h) /\ h.low = low /\ h.high = high /\ h.sigfig = sigfig
               /\ \A i \in DOMAIN h.counts : h.counts[i] = 0
<1> DEFINE h == NewWithBounds(low, high, sigfig)
           L == LayoutOf(low, sigfig)
           n == BucketsToCover(L, high)
           c == Resized(Resized(<<>>, 0), NumBins(L, n))
<1>1. h = [low |-> low, high |-> high, sigfig |-> sigfig, auto |-> FALSE, lay |-> L,
           buckets |-> n, max |-> ORIGINAL_MAX, min |-> ORIGINAL_MIN, total |-> 0, counts |-> c]
  <2> HIDE DEF L
  <2> DEFINE g == [low |-> low, high |-> high, sigfig |-> sigfig, auto |-> FALSE, lay |-> L,
                   buckets |-> 0, max |-> ORIGINAL_MAX, min |-> ORIGINAL_MIN, total |-> 0,
                   counts |-> Resized(<<>>, 0)]
  <2>1. h = Resize(g, high)
    BY Zenon DEF NewWithBounds, L
  <2>2. g.lay = L /\ g.counts = Resized(<<>>, 0)
    OBVIOUS
  <2>3. Resize(g, high) = [g EXCEPT !.buckets = n, !.high = high, !.counts = c]
    <3> HIDE DEF g
    <3> QED BY <2>2, Zenon DEF Resize
  <2> HIDE DEF h, n, c
  <2> QED BY <2>1, <2>3
<1>2. ValidLayout(L)
  BY LayoutIsValid, Zenon
<1>3. NumBins(L, n) \in Nat
  <2> HIDE DEF L
  <2> QED BY <1>2, BinsType
<1> DEFINE m == NumBins(L, n)
           e == Resized(<<>>, 0)
<1>4. DOMAIN e = {}
  <2>1. e = [i \in 0..(0 - 1) |-> IF i \in DOMAIN <<>> THEN <<>>[i] ELSE 0]
    BY Zenon DEF Resized
  <2>2. DOMAIN e = 0..(0 - 1)
    BY <2>1, Zenon
  <2>3. 0..(0 - 1) = {}
    OBVIOUS
  <2> QED BY <2>2, <2>3, Zenon
<1>5. c = [i \in 0..(m - 1) |-> 0]
  <2> HIDE DEF e, m
  <2>1. Resized(e, m) = [i \in 0..(m - 1) |-> IF i \in DOMAIN e THEN e[i] ELSE 0]
    BY Zenon DEF Resized
  <2>2. Resized(e, m) = [i \in 0..(m - 1) |-> 0]
    BY <1>4, <2>1
  <2> QED BY <2>2 DEF e, m
<1> HIDE DEF h, c, L, n
<1>6. /\ h.low = low /\ h.high = high /\ h.sigfig = sigfig /\ h.lay = L /\ h.counts = c
      /\ h = [low |-> h.low, high |-> h.high, sigfig |-> h.sigfig, auto |-> h.auto,
              lay |-> h.lay, buckets |-> h.buckets,
              max |-> ORIGINAL_MAX, min |-> ORIGINAL_MIN, total |-> 0, counts |-> h.counts]
  BY <1>1
<1>7. SlotCount(h) = m
  BY <1>6 DEF SlotCount, n
<1>8. h.counts \in [0..(SlotCount(h) - 1) -> Nat] /\ \A i \in DOMAIN h.counts : h.counts[i] = 0
  BY <1>5, <1>6, <1>7
<1>9. h.lay = LayoutOf(h.low, h.sigfig)
  BY <1>6 DEF L
<1>10. FreshHist(h)
  BY <1>6, <1>8, <1>9, Zenon DEF FreshHist
<1> QED BY <1>6, <1>8, <1>10 DEF h

\* The slots of a fresh histogram are places of its layout.
LEMMA FreshFacts ==
    ASSUME NEW h, FreshHist(h)
    PROVE  /\ ValidLayout(h.lay) /\ SlotCount(h) \in Nat \ {0}
           /\ \A i \in 0..(SlotCount(h) - 1) :
                \E b, s : Place(h.lay, i, b, s) /\ Fits(h.lay, b)
<1>1. ValidLayout(h.lay)
  BY LayoutIsValid, Zenon DEF FreshHist
<1>2. SlotCount(h) \in Nat \ {0}
  BY <1>1, BinsType DEF SlotCount
<1>3. ASSUME NEW i \in 0..(SlotCount(h) - 1)
      PROVE  \E b, s : Place(h.lay, i, b, s) /\ Fits(h.lay, b)
  <2>1. i \in Nat /\ i < SlotCount(h)
    BY <1>2
  <2> QED BY <1>1, <2>1, SlotsInWord DEF SlotCount
<1> QED BY <1>1, <1>2, <1>3

\* RestatState: the statistics of what was read so far.
Tallied(d) ==
    /\ d.maxi = IF NonZero(d.h) = {} THEN -1 ELSE Max(NonZero(d.h))
    /\ d.mini = IF NonZero(d.h) \ {0} = {} THEN -1 ELSE Min(NonZero(d.h) \ {0})
    /\ d.total = Min({SumCounts(d.h, NonZero(d.h)), MaxWord})

\* The total of the counts is a number, and capped it is a word.
LEMMA SumTotal ==
    ASSUME NEW h, NEW n \in Nat, h.counts \in [0..(n - 1) -> Nat]
    PROVE  /\ SumCounts(h, NonZero(h)) \in Nat
           /\ Min({SumCounts(h, NonZero(h)), MaxWord}) \in Words
<1>1. NonZero(h) \subseteq 0..(n - 1) /\ IsFiniteSet(NonZero(h))
  BY NonZeroFacts
<1>2. \A x \in NonZero(h) : h.counts[x] \in Nat
  BY <1>1
<1>3. SumCounts(h, NonZero(h)) \in Nat
  BY <1>1, <1>2, SumType DEF SumCounts
<1> DEFINE s == SumCounts(h, NonZero(h))
<1> HIDE DEF s
<1>4. s \in Nat /\ Min({s, MaxWord}) \in Words
  <2>1. s \in Nat /\ MaxWord \in Nat /\ Words = 0..MaxWord
    BY <1>3, WordType DEF s
  <2>2. Min({s, MaxWord}) = IF s <= MaxWord THEN s ELSE MaxWord
    BY <2>1, MinOfTwo
  <2> QED BY <2>1, <2>2
<1> QED BY <1>4 DEF s

\* RestatState::update_histogram leaves the statistics of the counts.
LEMMA RestatedFacts ==
    ASSUME NEW d, FreshHist(d.h), Tallied(d)
    PROVE  LET g == Restated(d)
           IN  /\ Consistent(g) /\ g.counts = d.h.counts /\ g.lay = d.h.lay
               /\ g.low = d.h.low /\ g.sigfig = d.h.sigfig
<1> DEFINE h == d.h
           L == h.lay
           hit == NonZero(h)
           n == SlotCount(h)
           g1 == IF d.maxi = -1 THEN h ELSE UpdateMax(h, HighestEquivalent(L, ValueFor(L, d.maxi)))
           g2 == IF d.mini = -1 THEN g1 ELSE UpdateMin(g1, ValueFor(L, d.mini))
           g == Restated(d)
<1>1. g = [g2 EXCEPT !.total = d.total]
  BY Zenon DEF Restated
<1>2. /\ ValidLayout(L) /\ n \in Nat \ {0} /\ h.counts \in [0..(n - 1) -> Nat]
      /\ \A i \in 0..(n - 1) : \E b, s : Place(L, i, b, s) /\ Fits(L, b)
  BY FreshFacts DEF FreshHist
<1>3. h = [low |-> h.low, high |-> h.high, sigfig |-> h.sigfig, auto |-> h.auto,
           lay |-> h.lay, buckets |-> h.buckets,
           max |-> 0, min |-> MaxWord, total |-> 0, counts |-> h.counts]
  BY Zenon DEF FreshHist, ORIGINAL_MAX, ORIGINAL_MIN
<1> HIDE DEF n, g
<1>4. /\ hit \subseteq 0..(n - 1)
      /\ hit # {} => Max(hit) \in hit
      /\ hit \ {0} # {} => Min(hit \ {0}) \in hit \ {0}
  BY <1>2, NonZeroFacts
<1>5. /\ d.maxi = IF hit = {} THEN -1 ELSE Max(hit)
      /\ d.mini = IF hit \ {0} = {} THEN -1 ELSE Min(hit \ {0})
      /\ d.total = Min({SumCounts(h, hit), MaxWord})
  BY Zenon DEF Tallied
<1>6. d.total \in Words
  BY <1>2, <1>5, SumTotal
<1>7. MaxWord \in Nat /\ Words = 0..MaxWord
  BY WordType
<1> HIDE DEF h, hit
\* The maximum.
<1>8. /\ g1 = [h EXCEPT !.max = g1.max] /\ g1.max \in Words
      /\ hit = {} => g1.max = 0
      /\ hit # {} => IndexFor(L, g1.max) = Max(hit)
  <2>1. CASE hit = {}
    <3>1. g1 = h
      BY <1>5, <2>1
    <3> QED BY <1>3, <1>7, <2>1, <3>1
  <2>2. CASE hit # {}
    <3> DEFINE m == Max(hit)
               x == ValueFor(L, m)
               y == HighestEquivalent(L, x)
               u == 2^L.unit
               z == y - (y % u) + (u - 1)
    <3>1. m \in 0..(n - 1) /\ m \in Nat /\ d.maxi = m /\ d.maxi # -1
      <4>1. m \in 0..(n - 1) /\ d.maxi = m
        BY <1>4, <1>5, <2>2
      <4> HIDE DEF m
      <4> QED BY <1>2, <4>1
    <3>2. x \in Words /\ IndexFor(L, x) = m
      <4> HIDE DEF m
      <4>1. PICK b, s : Place(L, m, b, s) /\ Fits(L, b)
        BY <1>2, <3>1
      <4> QED BY <1>2, <3>1, <4>1, SlotBegins
    <3>3. y \in Words /\ IndexFor(L, y) = m
      <4> HIDE DEF m, x
      <4> QED BY <1>2, <3>2, HighestInSlot
    <3>4. z \in Words /\ IndexFor(L, z) = m
      <4> HIDE DEF y, m
      <4> QED BY <1>2, <3>3, UnitInSlot
    <3>5. OrUnitMask(h, y) = z
      BY Zenon DEF OrUnitMask, UnitMask
    <3> HIDE DEF z, y, x, m
    <3>6. g1 = [h EXCEPT !.max = Max({h.max, z})]
      <4>1. g1 = UpdateMax(h, y)
        BY <3>1 DEF x, y
      <4> HIDE DEF g1
      <4> QED BY <3>5, <4>1, Zenon DEF UpdateMax
    <3>7. Max({h.max, z}) = z
      <4>1. h.max = 0
        BY <1>3
      <4>2. z \in Nat
        BY <1>7, <3>4
      <4> QED BY <4>1, <4>2, MaxOfTwo
    <3> HIDE DEF g1
    <3>8. g1.max = z /\ g1 = [h EXCEPT !.max = g1.max]
      BY <1>3, <3>6, <3>7
    <3> QED BY <2>2, <3>4, <3>8 DEF m
  <2> QED BY <2>1, <2>2
<1> HIDE DEF g1
<1>9. g1.lay = L /\ g1.min = MaxWord /\ g1 = [low |-> h.low, high |-> h.high, sigfig |-> h.sigfig, auto |-> h.auto,
           lay |-> h.lay, buckets |-> h.buckets,
           max |-> g1.max, min |-> MaxWord, total |-> 0, counts |-> h.counts]
  BY <1>3, <1>8
\* The minimum.
<1>10. /\ g2 = [g1 EXCEPT !.min = g2.min] /\ g2.min \in Words
       /\ hit \ {0} = {} => g2.min = MaxWord
       /\ hit \ {0} # {} => IndexFor(L, g2.min) = Min(hit \ {0})
  <2>1. CASE hit \ {0} = {}
    <3>1. g2 = g1
      BY <1>5, <2>1
    <3> QED BY <1>7, <1>9, <2>1, <3>1
  <2>2. CASE hit \ {0} # {}
    <3> DEFINE m == Min(hit \ {0})
               x == ValueFor(L, m)
               u == 2^L.unit
               z == x - (x % u)
    <3>1. m \in 0..(n - 1) /\ m \in Nat /\ d.mini = m /\ d.mini # -1 /\ m # 0
      <4>1. m \in hit \ {0} /\ d.mini = m
        BY <1>4, <1>5, <2>2
      <4>2. m \in 0..(n - 1) /\ m # 0
        BY <1>4, <4>1
      <4> HIDE DEF m
      <4> QED BY <1>2, <4>1, <4>2
    <3>2. x \in Words /\ IndexFor(L, x) = m /\ ~(x <= UnitMask(L))
      <4> HIDE DEF m
      <4>1. PICK b, s : Place(L, m, b, s) /\ Fits(L, b)
        BY <1>2, <3>1
      <4> QED BY <1>2, <3>1, <4>1, SlotBegins, SlotAboveUnit
    <3>3. z \in Words /\ IndexFor(L, z) = m
      <4> HIDE DEF x, m
      <4> QED BY <1>2, <3>2, UnitInSlot
    <3>4. AndNotUnitMask(g1, x) = z
      BY <1>9, Zenon DEF AndNotUnitMask
    <3> HIDE DEF z, x, m
    <3>5. g2 = [g1 EXCEPT !.min = Min({g1.min, z})]
      <4>1. g2 = UpdateMin(g1, x)
        BY <3>1 DEF x
      <4> HIDE DEF g2
      <4>2. ~(x <= UnitMask(g1.lay))
        BY <1>9, <3>2
      <4> QED BY <3>4, <4>1, <4>2, Zenon DEF UpdateMin
    <3>6. Min({g1.min, z}) = z
      <4>1. z \in Nat /\ z <= MaxWord
        BY <1>7, <3>3
      <4>2. Min({MaxWord, z}) = IF MaxWord <= z THEN MaxWord ELSE z
        BY <1>7, <4>1, MinOfTwo
      <4> QED BY <1>7, <1>9, <4>1, <4>2
    <3> HIDE DEF g2
    <3>7. g2.min = z /\ g2 = [g1 EXCEPT !.min = g2.min]
      BY <1>9, <3>5, <3>6
    <3> QED BY <2>2, <3>3, <3>7 DEF m
  <2> QED BY <2>1, <2>2
<1> HIDE DEF g2
<1>11. g = [low |-> h.low, high |-> h.high, sigfig |-> h.sigfig, auto |-> h.auto,
            lay |-> h.lay, buckets |-> h.buckets,
            max |-> g1.max, min |-> g2.min, total |-> d.total, counts |-> h.counts]
  <2> DEFINE p == g1.max
             q == g2.min
  <2>1. g1 = [low |-> h.low, high |-> h.high, sigfig |-> h.sigfig, auto |-> h.auto,
              lay |-> h.lay, buckets |-> h.buckets,
              max |-> p, min |-> MaxWord, total |-> 0, counts |-> h.counts]
    BY <1>9
  <2>2. g2 = [g1 EXCEPT !.min = q]
    BY <1>10
  <2> HIDE DEF p, q
  <2>3. g2 = [low |-> h.low, high |-> h.high, sigfig |-> h.sigfig, auto |-> h.auto,
              lay |-> h.lay, buckets |-> h.buckets,
              max |-> p, min |-> q, total |-> 0, counts |-> h.counts]
    BY <2>1, <2>2
  <2>4. g = [low |-> h.low, high |-> h.high, sigfig |-> h.sigfig, auto |-> h.auto,
             lay |-> h.lay, buckets |-> h.buckets,
             max |-> p, min |-> q, total |-> d.total, counts |-> h.counts]
    BY <1>1, <2>3
  <2> QED BY <2>4 DEF p, q
<1>12. /\ g.max = g1.max /\ g.min = g2.min /\ g.total = d.total /\ g.counts = h.counts
       /\ g.lay = L /\ g.low = h.low /\ g.sigfig = h.sigfig
  BY <1>11
<1>13. NonZero(g) = hit /\ SumCounts(g, NonZero(g)) = SumCounts(h, hit)
  <2>1. NonZero(g) = hit
    BY <1>12 DEF NonZero, hit
  <2> QED BY <1>12, <2>1 DEF SumCounts
<1>14. Consistent(g)
  <2>1. {g.max, g.min, g.total} \subseteq Words
    BY <1>6, <1>8, <1>10, <1>12
  <2>2. g.total = Min({SumCounts(g, NonZero(g)), MaxWord})
    BY <1>5, <1>12, <1>13
  <2>3. IF NonZero(g) = {} THEN g.max = ORIGINAL_MAX ELSE IndexFor(g.lay, g.max) = Max(NonZero(g))
    BY <1>8, <1>12, <1>13 DEF ORIGINAL_MAX
  <2>4. IF NonZero(g) \ {0} = {} THEN g.min = ORIGINAL_MIN
        ELSE IndexFor(g.lay, g.min) = Min(NonZero(g) \ {0})
    BY <1>10, <1>12, <1>13 DEF ORIGINAL_MIN
  <2> QED BY <2>1, <2>2, <2>3, <2>4, Zenon DEF Consistent
<1> QED BY <1>12, <1>14 DEF g, h

-----------------------------------------------------------------------------
(***************************************************************************)
(* The decode loop                                                         *)
(***************************************************************************)
IsDec(d) == d = [len |-> d.len, pos |-> d.pos, dest |-> d.dest, h |-> d.h,
                 maxi |-> d.maxi, mini |-> d.mini, total |-> d.total]

Reading(d) ==
    /\ FreshHist(d.h) /\ Tallied(d) /\ d.dest \in Nat
    /\ \A i \in NonZero(d.h) : i < d.dest

\* A count that is stored: the statistics take it in.
LEMMA StoredCount ==
    ASSUME NEW d, Reading(d), NEW n \in Nat \ {0}, d.dest \in DOMAIN d.h.counts,
           NEW e, e.dest = d.dest + 1, e.h = [d.h EXCEPT !.counts = [@ EXCEPT ![d.dest] = n]],
           e.maxi = d.dest,
           e.mini = IF d.mini = -1 /\ d.dest # 0 THEN d.dest ELSE d.mini,
           e.total = SatAdd(d.total, n, MaxWord)
    PROVE  Reading(e)
<1> DEFINE h == d.h
           f == e.h
           k == d.dest
           m == SlotCount(h)
           hit == NonZero(h)
<1>1. /\ FreshHist(h) /\ h.counts \in [0..(m - 1) -> Nat] /\ k \in Nat
      /\ \A i \in hit : i < k
  BY Zenon DEF Reading, FreshHist
<1>2. m \in Nat \ {0}
  BY <1>1, FreshFacts
<1>3. h = [low |-> h.low, high |-> h.high, sigfig |-> h.sigfig, auto |-> h.auto,
           lay |-> h.lay, buckets |-> h.buckets,
           max |-> ORIGINAL_MAX, min |-> ORIGINAL_MIN, total |-> 0, counts |-> h.counts]
  BY <1>1, Zenon DEF FreshHist
<1>4. /\ d.maxi = IF hit = {} THEN -1 ELSE Max(hit)
      /\ d.mini = IF hit \ {0} = {} THEN -1 ELSE Min(hit \ {0})
      /\ d.total = Min({SumCounts(h, hit), MaxWord})
  BY Zenon DEF Reading, Tallied
<1> HIDE DEF m
<1>5. hit \subseteq 0..(m - 1) /\ IsFiniteSet(hit)
      /\ (hit \ {0} # {} => Min(hit \ {0}) \in hit \ {0} /\ \A i \in hit \ {0} : Min(hit \ {0}) <= i)
  BY <1>1, <1>2, NonZeroFacts
<1>6. SumCounts(h, hit) \in Nat
  BY <1>1, <1>2, SumTotal
<1>7. k \in 0..(m - 1)
  BY <1>1
<1> DEFINE c == [h.counts EXCEPT ![k] = n]
<1>8. f = [h EXCEPT !.counts = c]
  OBVIOUS
<1> HIDE DEF h, f, k, hit
<1>9. c \in [0..(m - 1) -> Nat] /\ c[k] = n /\ \A i \in 0..(m - 1) : i # k => c[i] = h.counts[i]
  BY <1>1, <1>7
<1> HIDE DEF c
<1>10. f = [low |-> h.low, high |-> h.high, sigfig |-> h.sigfig, auto |-> h.auto,
            lay |-> h.lay, buckets |-> h.buckets,
            max |-> ORIGINAL_MAX, min |-> ORIGINAL_MIN, total |-> 0, counts |-> c]
  BY <1>3, <1>8
<1>11. /\ f.low = h.low /\ f.high = h.high /\ f.sigfig = h.sigfig /\ f.lay = h.lay
       /\ f.buckets = h.buckets /\ f.counts = c /\ f.auto = h.auto
  BY <1>10
<1>12. FreshHist(f)
  <2>1. f = [low |-> f.low, high |-> f.high, sigfig |-> f.sigfig, auto |-> f.auto,
             lay |-> f.lay, buckets |-> f.buckets,
             max |-> ORIGINAL_MAX, min |-> ORIGINAL_MIN, total |-> 0, counts |-> f.counts]
    BY <1>10, <1>11, Zenon
  <2>2. /\ f.low \in Nat /\ f.high \in Nat /\ f.sigfig \in Nat
        /\ CanCreate(f.low, f.high, f.sigfig) /\ f.lay = LayoutOf(f.low, f.sigfig)
    BY <1>1, <1>11, Zenon DEF FreshHist
  <2>3. SlotCount(f) = m
    BY <1>11, Zenon DEF SlotCount, m
  <2> QED BY <1>9, <1>11, <2>1, <2>2, <2>3, Zenon DEF FreshHist
<1>13. NonZero(f) = hit \cup {k} /\ k \notin hit
  <2>1. DOMAIN c = 0..(m - 1) /\ DOMAIN h.counts = 0..(m - 1)
    BY <1>1, <1>9
  <2>2. \A i \in 0..(m - 1) : c[i] # 0 <=> (h.counts[i] # 0 \/ i = k)
    BY <1>9
  <2>3. NonZero(f) = {i \in 0..(m - 1) : c[i] # 0} /\ hit = {i \in 0..(m - 1) : h.counts[i] # 0}
    BY <1>11, <2>1 DEF NonZero, hit
  <2>4. k \notin hit
    BY <1>1
  <2> QED BY <1>7, <2>2, <2>3, <2>4
<1>14. Max(NonZero(f)) = k
  <2>1. \A i \in hit \cup {k} : i <= k
    <3>1. \A i \in hit : i \in Nat
      BY <1>2, <1>5
    <3> QED BY <1>1, <3>1
  <2>2. k \in hit \cup {k} /\ hit \cup {k} \subseteq 0..m /\ m \in Nat /\ hit \cup {k} # {}
    BY <1>2, <1>5, <1>7
  <2> DEFINE T == hit \cup {k}
  <2> HIDE DEF T
  <2>3. Max(T) \in T /\ \A y \in T : y <= Max(T)
    BY <2>2, MaxOfNats DEF T
  <2>4. Max(T) <= k /\ k <= Max(T) /\ Max(T) \in Nat
    BY <2>1, <2>2, <2>3 DEF T
  <2> QED BY <1>1, <1>13, <2>4 DEF T
<1>15. e.maxi = IF NonZero(f) = {} THEN -1 ELSE Max(NonZero(f))
  BY <1>13, <1>14 DEF k
<1>16. e.mini = IF NonZero(f) \ {0} = {} THEN -1 ELSE Min(NonZero(f) \ {0})
  <2>0. e.mini = IF d.mini = -1 /\ k # 0 THEN k ELSE d.mini
    BY DEF k
  <2>1. CASE k = 0
    <3>1. NonZero(f) \ {0} = hit \ {0}
      BY <1>13, <2>1
    <3> QED BY <1>4, <2>0, <2>1, <3>1
  <2>2. CASE k # 0 /\ hit \ {0} = {}
    <3>1. NonZero(f) \ {0} = {k}
      BY <1>13, <2>2
    <3>2. Min({k}) = k
      <4>1. {k} \subseteq Nat /\ {k} # {}
        BY <1>1
      <4> QED BY <4>1, MinOfNats
    <3>3. e.mini = k
      BY <1>4, <2>0, <2>2
    <3> QED BY <3>1, <3>2, <3>3
  <2>3. CASE k # 0 /\ hit \ {0} # {}
    <3> DEFINE T == hit \ {0}
               U == NonZero(f) \ {0}
    <3>1. U = T \cup {k} /\ T # {}
      BY <1>13, <2>3
    <3>2. Min(T) \in T /\ (\A i \in T : Min(T) <= i) /\ T \subseteq Nat /\ \A i \in T : i < k
      <4>1. Min(T) \in T /\ \A i \in T : Min(T) <= i
        BY <1>5, <2>3, Zenon
      <4>2. T \subseteq Nat
        BY <1>2, <1>5
      <4>3. \A i \in T : i < k
        BY <1>1
      <4> QED BY <4>1, <4>2, <4>3
    <3> HIDE DEF T, U
    <3>3. d.mini = Min(T) /\ d.mini # -1
      <4>1. d.mini = Min(T)
        BY <1>4, <2>3 DEF T
      <4>2. Min(T) \in Nat
        BY <3>2
      <4> HIDE DEF k
      <4> QED BY <4>1, <4>2
    <3>4. Min(U) \in U /\ (\A i \in U : Min(U) <= i)
      <4>1. U \subseteq Nat /\ U # {}
        BY <1>1, <3>1, <3>2
      <4> QED BY <4>1, MinOfNats
    <3>5. Min(U) = Min(T)
      <4> DEFINE a == Min(U)
                 b == Min(T)
      <4> HIDE DEF a, b
      <4>1. a \in U /\ b \in T /\ (\A i \in U : a <= i) /\ (\A i \in T : b <= i)
        BY <3>2, <3>4 DEF a, b
      <4>2. a <= b /\ b <= a /\ a \in Nat /\ b \in Nat
        <5>1. a <= b /\ b \in Nat /\ b < k
          BY <3>1, <3>2, <4>1
        <5>2. CASE a \in T
          BY <3>2, <4>1, <5>1, <5>2
        <5>3. CASE a = k
          BY <1>1, <5>1, <5>3
        <5> QED BY <3>1, <4>1, <5>2, <5>3
      <4>3. a = b
        BY <4>2
      <4> QED BY <4>3 DEF a, b
    <3>6. U # {}
      BY <3>1
    <3> QED BY <2>0, <3>3, <3>5, <3>6 DEF U
  <2> QED BY <2>1, <2>2, <2>3
<1>17. e.total = Min({SumCounts(f, NonZero(f)), MaxWord})
  <2> DEFINE s == SumCounts(h, hit)
             t == SumCounts(f, NonZero(f))
  <2>1. t = n + s
    <3>1. \A x \in hit : h.counts[x] \in Nat /\ c[x] = h.counts[x]
      BY <1>1, <1>5, <1>9, <1>13
    <3>2. c[k] = n /\ n \in Nat
      BY <1>9
    <3>3. SumFunctionOnSet(c, hit \cup {k}) = c[k] + SumFunctionOnSet(h.counts, hit)
      BY <1>5, <1>13, <3>1, <3>2, SumGrow
    <3> QED BY <1>11, <1>13, <3>2, <3>3 DEF SumCounts
  <2>2. s \in Nat /\ d.total = Min({s, MaxWord}) /\ MaxWord \in Nat
    BY <1>4, <1>6, WordType
  <2>3. e.total = Min({d.total + n, MaxWord})
    BY Zenon DEF SatAdd
  <2> HIDE DEF s, t
  <2>4. d.total = IF s <= MaxWord THEN s ELSE MaxWord
    BY <2>2, MinOfTwo
  <2>5. d.total \in Nat
    BY <2>2, <2>4
  <2>6. Min({d.total + n, MaxWord}) = IF d.total + n <= MaxWord THEN d.total + n ELSE MaxWord
    BY <2>2, <2>5, MinOfTwo
  <2>7. t \in Nat /\ Min({t, MaxWord}) = IF t <= MaxWord THEN t ELSE MaxWord
    BY <2>1, <2>2, MinOfTwo
  <2>8. e.total = Min({t, MaxWord})
    BY <2>1, <2>2, <2>3, <2>4, <2>5, <2>6, <2>7
  <2> QED BY <2>8 DEF t
<1>18. e.dest \in Nat /\ \A i \in NonZero(f) : i < e.dest
  <2>1. e.dest = k + 1
    BY DEF k
  <2>2. \A i \in hit \cup {k} : i \in Nat /\ i < k + 1
    BY <1>1, <1>2, <1>5
  <2> QED BY <1>1, <1>13, <2>1, <2>2
<1>19. Tallied(e)
  BY <1>15, <1>16, <1>17, Zenon DEF Tallied, f
<1> QED BY <1>12, <1>18, <1>19, Zenon DEF Reading, f

\* h with one count stored.
Stored(h, i, n) == [h EXCEPT !.counts = [@ EXCEPT ![i] = n]]

\* on_decoded_num: what it does with each kind of number.
LEMMA DecodedNum ==
    ASSUME NEW d, IsDec(d), Reading(d), NEW n \in Int
    PROVE  LET r == OnDecodedNum(d, n)
           IN  /\ IsDec(r.d) /\ r.d.len = d.len /\ r.d.pos = d.pos
               /\ r.d.dest \in Nat /\ r.d.total \in Words
               /\ r.err = "none" => Reading(r.d)
               /\ n < 0 => r.err = "none" /\ r.d.dest = d.dest - n /\ r.d.h = d.h
               /\ n > ReadMax => r.err = "UnsuitableCounterType"
               /\ n = 0 => r.err = "none" /\ r.d.dest = d.dest + 1 /\ r.d.h = d.h
               /\ n > 0 /\ n <= ReadMax /\ d.dest \in DOMAIN d.h.counts =>
                    /\ r.err = "none" /\ r.d.dest = d.dest + 1
                    /\ r.d.h = Stored(d.h, d.dest, n)
               /\ r.err = "none" => /\ r.d.h.low = d.h.low /\ r.d.h.high = d.h.high
                                    /\ r.d.h.sigfig = d.h.sigfig
<1> DEFINE r == OnDecodedNum(d, n)
           Same(e) == /\ IsDec(e) /\ e.len = d.len /\ e.pos = d.pos /\ e.h = d.h
                      /\ e.maxi = d.maxi /\ e.mini = d.mini /\ e.total = d.total
<1>1. ReadMax \in Nat \ {0}
  BY V2Constants, CounterType
<1>2. d.dest \in Nat /\ FreshHist(d.h) /\ Tallied(d)
  BY Zenon DEF Reading
<1>3. d.total \in Words
  <2>1. d.h.counts \in [0..(SlotCount(d.h) - 1) -> Nat] /\ SlotCount(d.h) \in Nat
    BY <1>2, FreshFacts DEF FreshHist
  <2> QED BY <1>2, <2>1, SumTotal DEF Tallied
<1>4. d = [len |-> d.len, pos |-> d.pos, dest |-> d.dest, h |-> d.h,
           maxi |-> d.maxi, mini |-> d.mini, total |-> d.total]
  BY Zenon DEF IsDec
<1>5. ASSUME NEW e, NEW k \in Nat, e = [d EXCEPT !.dest = k], d.dest <= k
      PROVE  Same(e) /\ Reading(e) /\ e.dest = k
  <2>1. e = [len |-> d.len, pos |-> d.pos, dest |-> k, h |-> d.h,
             maxi |-> d.maxi, mini |-> d.mini, total |-> d.total]
    BY <1>4, <1>5
  <2>2. /\ e.len = d.len /\ e.pos = d.pos /\ e.h = d.h /\ e.dest = k
        /\ e.maxi = d.maxi /\ e.mini = d.mini /\ e.total = d.total
    BY <2>1
  <2>3. IsDec(e)
    BY <2>1, <2>2, Zenon DEF IsDec
  <2>4. \A i \in NonZero(d.h) : i < k
    <3>1. \A i \in NonZero(d.h) : i < d.dest
      BY Zenon DEF Reading
    <3>2. NonZero(d.h) \subseteq Int
      <4>1. NonZero(d.h) \subseteq 0..(SlotCount(d.h) - 1)
        BY <1>2, FreshFacts, NonZeroFacts DEF FreshHist
      <4> QED BY <4>1
    <3> QED BY <1>2, <1>5, <3>1, <3>2
  <2>5. Tallied(e)
    BY <1>2, <2>2, Zenon DEF Tallied
  <2>6. Reading(e)
    BY <1>2, <2>2, <2>4, <2>5 DEF Reading
  <2> QED BY <2>2, <2>3, <2>6
<1>6. CASE n < 0
  <2>1. r = [err |-> "none", d |-> [d EXCEPT !.dest = d.dest - n]]
    BY <1>6 DEF OnDecodedNum
  <2>2. d.dest - n \in Nat /\ d.dest <= d.dest - n
    BY <1>2, <1>6
  <2>3. r.err = "none" /\ r.d = [d EXCEPT !.dest = d.dest - n]
    BY <2>1
  <2> HIDE DEF r
  <2>4. Same(r.d) /\ Reading(r.d) /\ r.d.dest = d.dest - n
    <3> HIDE DEF Same
    <3> QED BY <1>5, <2>2, <2>3
  <2>5. ~(n > ReadMax) /\ n # 0 /\ ~(n > 0)
    BY <1>1, <1>6
  <2> QED BY <1>3, <2>2, <2>3, <2>4, <2>5 DEF r
<1>7. CASE n > ReadMax
  <2>1. r = [err |-> "UnsuitableCounterType", d |-> d]
    BY <1>1, <1>7 DEF OnDecodedNum
  <2>2. r.err = "UnsuitableCounterType" /\ r.d = d
    BY <2>1
  <2>3. ~(n < 0) /\ n # 0 /\ ~(n <= ReadMax)
    BY <1>1, <1>7
  <2> HIDE DEF r
  <2>4. r.err # "none"
    BY <2>2
  <2> QED BY <1>2, <1>3, <2>2, <2>3, <2>4 DEF r
<1>8. CASE n = 0
  <2>1. r = [err |-> "none", d |-> [d EXCEPT !.dest = d.dest + 1]]
    BY <1>1, <1>8 DEF OnDecodedNum
  <2>2. d.dest + 1 \in Nat /\ d.dest <= d.dest + 1
    BY <1>2
  <2>3. r.err = "none" /\ r.d = [d EXCEPT !.dest = d.dest + 1]
    BY <2>1
  <2> HIDE DEF r
  <2>4. Same(r.d) /\ Reading(r.d) /\ r.d.dest = d.dest + 1
    <3> HIDE DEF Same
    <3> QED BY <1>5, <2>2, <2>3
  <2>5. ~(n > ReadMax) /\ ~(n < 0) /\ ~(n > 0)
    BY <1>1, <1>8
  <2> QED BY <1>3, <2>2, <2>3, <2>4, <2>5 DEF r
<1>9. CASE n > 0 /\ n <= ReadMax /\ d.dest \notin DOMAIN d.h.counts
  <2>1. r = [err |-> "EncodedArrayTooLong", d |-> d]
    BY <1>1, <1>9 DEF OnDecodedNum
  <2>2. r.err = "EncodedArrayTooLong" /\ r.d = d
    BY <2>1
  <2>3. ~(n < 0) /\ n # 0 /\ ~(n > ReadMax)
    BY <1>1, <1>9
  <2> HIDE DEF r
  <2>4. r.err # "none"
    BY <2>2
  <2> QED BY <1>2, <1>3, <1>9, <2>2, <2>3, <2>4 DEF r
<1>10. CASE n > 0 /\ n <= ReadMax /\ d.dest \in DOMAIN d.h.counts
  <2> DEFINE k == d.dest
             f == [d.h EXCEPT !.counts = [@ EXCEPT ![k] = n]]
             lo == IF d.mini = -1 /\ k # 0 THEN k ELSE d.mini
             t == SatAdd(d.total, n, MaxWord)
             e == [len |-> d.len, pos |-> d.pos, dest |-> k + 1, h |-> f,
                   maxi |-> k, mini |-> lo, total |-> t]
  <2>1. r = [err |-> "none",
             d |-> [d EXCEPT !.h.counts[d.dest] = n, !.dest = @ + 1, !.maxi = d.dest,
                             !.mini = IF @ = -1 /\ d.dest # 0 THEN d.dest ELSE @,
                             !.total = SatAdd(@, n, MaxWord)]]
    <3>1. ~(n < 0) /\ ~(n > ReadMax) /\ n # 0
      BY <1>1, <1>10
    <3> QED BY <1>10, <3>1, Zenon DEF OnDecodedNum
  <2>2. r.err = "none" /\ r.d = e
    <3>1. r.err = "none" /\
          r.d = [d EXCEPT !.h.counts[d.dest] = n, !.dest = @ + 1, !.maxi = d.dest,
                          !.mini = IF @ = -1 /\ d.dest # 0 THEN d.dest ELSE @,
                          !.total = SatAdd(@, n, MaxWord)]
      BY <2>1
    <3>2. r.d = e
      <4> DEFINE d1 == [d EXCEPT !.h.counts[d.dest] = n]
      <4>1. r.d = [d1 EXCEPT !.dest = @ + 1, !.maxi = d.dest,
                             !.mini = IF @ = -1 /\ d.dest # 0 THEN d.dest ELSE @,
                             !.total = SatAdd(@, n, MaxWord)]
        BY <3>1, Zenon
      <4>2. d1 = [d EXCEPT !.h = f]
        BY <1>4
      <4> HIDE DEF d1, r, f
      <4>3. d1 = [len |-> d.len, pos |-> d.pos, dest |-> d.dest, h |-> f,
                  maxi |-> d.maxi, mini |-> d.mini, total |-> d.total]
        BY <1>4, <4>2
      <4>4. r.d = [d1 EXCEPT !.dest = d.dest + 1, !.maxi = d.dest,
                             !.mini = IF d.mini = -1 /\ d.dest # 0 THEN d.dest ELSE d.mini,
                             !.total = SatAdd(d.total, n, MaxWord)]
        BY <4>1, <4>3
      <4>5. r.d = [d1 EXCEPT !.dest = k + 1, !.maxi = k, !.mini = lo, !.total = t]
        BY <4>4, Zenon
      <4> DEFINE a == d.len
                 b == d.pos
                 p == k + 1
      <4>6. d1 = [len |-> a, pos |-> b, dest |-> d.dest, h |-> f,
                  maxi |-> d.maxi, mini |-> d.mini, total |-> d.total]
            /\ r.d = [d1 EXCEPT !.dest = p, !.maxi = k, !.mini = lo, !.total = t]
        BY <4>3, <4>5, Zenon
      <4> HIDE DEF lo, t, k, a, b, p
      <4>7. r.d = [len |-> a, pos |-> b, dest |-> p, h |-> f, maxi |-> k, mini |-> lo, total |-> t]
        BY <4>6
      <4> QED BY <4>7, Zenon DEF a, b, p
    <3> QED BY <3>1, <3>2
  <2> HIDE DEF f, lo, t, r
  <2>3. /\ e.len = d.len /\ e.pos = d.pos /\ e.dest = k + 1 /\ e.h = f
        /\ e.maxi = k /\ e.mini = lo /\ e.total = t
    OBVIOUS
  <2>4. IsDec(e)
    BY <2>3, Zenon DEF IsDec
  <2> HIDE DEF e
  <2>5. n \in Nat \ {0}
    BY <1>10
  <2>6. Reading(e)
    <3>1. e.h = [d.h EXCEPT !.counts = [@ EXCEPT ![d.dest] = n]]
      BY <2>3 DEF f
    <3>2. e.mini = IF d.mini = -1 /\ d.dest # 0 THEN d.dest ELSE d.mini
      BY <2>3 DEF lo
    <3>3. e.dest = d.dest + 1 /\ e.maxi = d.dest /\ e.total = SatAdd(d.total, n, MaxWord)
      BY <2>3 DEF t
    <3> QED BY <1>10, <2>5, <3>1, <3>2, <3>3, StoredCount
  <2>7. e.dest \in Nat /\ e.total \in Words
    <3>1. FreshHist(e.h) /\ Tallied(e) /\ e.dest \in Nat
      BY <2>6, Zenon DEF Reading
    <3>2. e.h.counts \in [0..(SlotCount(e.h) - 1) -> Nat] /\ SlotCount(e.h) \in Nat
      BY <3>1, FreshFacts DEF FreshHist
    <3> QED BY <3>1, <3>2, SumTotal DEF Tallied
  <2>8. f.low = d.h.low /\ f.high = d.h.high /\ f.sigfig = d.h.sigfig
    <3> DEFINE h == d.h
    <3>1. h = [low |-> h.low, high |-> h.high, sigfig |-> h.sigfig, auto |-> h.auto,
               lay |-> h.lay, buckets |-> h.buckets,
               max |-> ORIGINAL_MAX, min |-> ORIGINAL_MIN, total |-> 0, counts |-> h.counts]
      BY <1>2, Zenon DEF FreshHist
    <3>2. f = [h EXCEPT !.counts = [h.counts EXCEPT ![k] = n]]
      BY DEF f
    <3> HIDE DEF h, k
    <3>3. f.low = h.low /\ f.high = h.high /\ f.sigfig = h.sigfig
      BY <3>1, <3>2
    <3> QED BY <3>3 DEF h
  <2>9. ~(n < 0) /\ n # 0 /\ ~(n > ReadMax)
    BY <1>1, <1>10
  <2> QED BY <2>2, <2>3, <2>4, <2>6, <2>7, <2>8, <2>9 DEF r, f, Stored
<1> QED BY <1>1, <1>6, <1>7, <1>8, <1>9, <1>10

-----------------------------------------------------------------------------
(***************************************************************************)
(* Streams                                                                 *)
(***************************************************************************)
\* A stream with a whole header, and bytes after it.
Readable(s) ==
    /\ IsSequence(s) /\ Len(s) >= HeaderCells
    /\ s[2] \in Nat /\ s[4] \in Nat /\ s[5] \in Nat /\ s[6] \in Nat
    /\ \A k \in 1..Len(s) : k > HeaderCells => s[k] \in Byte

\* The stream that V2Serializer writes: the header, then the counts.
LEMMA StreamFacts ==
    ASSUME NEW g \in Written, Serializable(g)
    PROVE  LET s == V2Stream(g)
               c == encode_counts(g)
           IN  /\ c \in Seq(Byte) /\ Readable(s) /\ Len(s) = HeaderCells + Len(c)
               /\ s[1] = V2_COOKIE /\ s[2] = Len(c) /\ s[3] = 0 /\ s[4] = g.sigfig
               /\ s[5] = g.low /\ s[6] = g.high /\ s[7] = "1.0"
               /\ \A k \in 1..Len(c) : s[HeaderCells + k] = c[k]
<1> DEFINE s == V2Stream(g)
           c == encode_counts(g)
           n == Len(c)
           hdr == <<V2_COOKIE, n, 0, g.sigfig, g.low, g.high, "1.0">>
<1>1. Writable(g)
  BY SerializableIsWritable
<1>2. c \in Seq(Byte)
  <2>1. Slots(g) \in 0..Slots(g)
    BY <1>1, EncodedFacts
  <2> QED BY <1>1, <2>1, EncodedFacts
<1>3. s = hdr \o c
  BY Zenon DEF V2Stream
<1>4. g.sigfig \in Nat /\ g.low \in Nat /\ g.high \in Nat
  BY SourceFacts
<1> HIDE DEF s, c
<1>5. n \in Nat
  BY <1>2
<1>6. /\ IsSequence(hdr) /\ Len(hdr) = 7
      /\ hdr[1] = V2_COOKIE /\ hdr[2] = n /\ hdr[3] = 0 /\ hdr[4] = g.sigfig
      /\ hdr[5] = g.low /\ hdr[6] = g.high /\ hdr[7] = "1.0"
  <2> DEFINE a == V2_COOKIE
             e == g.sigfig
             f == g.low
             h == g.high
             S == {a, n, 0, e, f, h, "1.0"}
  <2> HIDE DEF a, e, f, h, n
  <2>1. <<a, n, 0, e, f, h, "1.0">> \in Seq(S)
    OBVIOUS
  <2>2. hdr \in Seq(S)
    BY <2>1 DEF a, e, f, h
  <2> HIDE DEF S
  <2>3. IsSequence(hdr)
    <3> HIDE DEF hdr
    <3> QED BY <2>2, SeqIsSequence
  <2> QED BY <2>3
<1>7. IsSequence(c)
  BY <1>2, SeqIsSequence
<1> HIDE DEF hdr, n
<1>8. /\ IsSequence(s) /\ Len(s) = 7 + n
      /\ \A i \in 1..7 : s[i] = hdr[i]
      /\ \A i \in 1..n : s[7 + i] = c[i]
  <2>1. /\ IsSequence(hdr \o c) /\ Len(hdr \o c) = Len(hdr) + Len(c)
        /\ \A i \in 1..Len(hdr) : (hdr \o c)[i] = hdr[i]
        /\ \A i \in 1..Len(c) : (hdr \o c)[Len(hdr) + i] = c[i]
    <3>1. IsSequence(hdr)
      BY <1>6, Zenon
    <3> QED BY <1>7, <3>1, ConcatSeq, SMTT(30)
  <2>2. Len(hdr) = 7 /\ Len(c) = n
    BY <1>6, Zenon DEF n
  <2> QED BY <1>3, <2>1, <2>2
<1>9. /\ s[1] = V2_COOKIE /\ s[2] = n /\ s[3] = 0 /\ s[4] = g.sigfig
      /\ s[5] = g.low /\ s[6] = g.high /\ s[7] = "1.0"
  BY <1>6, <1>8
<1>10. \A k \in 1..Len(s) : k > 7 => s[k] \in Byte
  <2> SUFFICES ASSUME NEW k \in 1..Len(s), k > 7 PROVE s[k] \in Byte
    OBVIOUS
  <2>1. k - 7 \in 1..n /\ k = 7 + (k - 7)
    BY <1>5, <1>8
  <2>2. s[k] = c[k - 7]
    BY <1>8, <2>1
  <2>3. c[k - 7] \in Byte
    BY <1>2, <2>1 DEF n
  <2> QED BY <2>2, <2>3
<1>11. Readable(s)
  BY <1>4, <1>5, <1>8, <1>9, <1>10 DEF Readable, HeaderCells
<1> QED BY <1>2, <1>5, <1>8, <1>9, <1>11 DEF s, c, n, HeaderCells

\* The stream that deser_v2 reads.
InnerOf(s) ==
    IF s = <<>> \/ s[1] # V2_COMPRESSED_COOKIE THEN s
    ELSE IF Len(s) < 3 THEN <<>> ELSE s[3]

Refused(s) == HeaderError(s) # "none" \/ PayloadShort(s)

\* A stream that was cut off has no whole header, or a payload that is too short.
LEMMA CutRefused ==
    ASSUME NEW g \in Written, Serializable(g), NEW n \in 0..(Len(V2Stream(g)) - 1)
    PROVE  LET s == SubSeq(V2Stream(g), 1, n)
           IN  /\ Refused(s) /\ (HeaderError(s) = "none" => Readable(s))
               /\ (s = <<>> \/ s[1] = V2_COOKIE)
<1> DEFINE t == V2Stream(g)
           c == encode_counts(g)
           s == SubSeq(t, 1, n)
<1>1. /\ c \in Seq(Byte) /\ Readable(t) /\ Len(t) = 7 + Len(c)
      /\ t[1] = V2_COOKIE /\ t[2] = Len(c) /\ t[3] = 0 /\ t[4] = g.sigfig
      /\ t[5] = g.low /\ t[6] = g.high /\ t[7] = "1.0"
  BY StreamFacts DEF HeaderCells
<1>2. Len(c) \in Nat
  BY <1>1
<1>3. /\ IsSequence(t) /\ t[4] \in Nat /\ t[5] \in Nat /\ t[6] \in Nat
      /\ \A k \in 1..Len(t) : k > 7 => t[k] \in Byte
  BY <1>1 DEF Readable, HeaderCells
<1> HIDE DEF t, c
<1>4. n \in 0..(Len(t) - 1) /\ n \in Nat /\ n < 7 + Len(c)
  BY <1>1, <1>2 DEF t
<1>5. /\ IsSequence(s) /\ Len(s) = n
      /\ \A i \in 1..n : s[i] = t[i]
  <2>1. 1 \in 1..(Len(t) + 1) /\ n \in (1 - 1)..Len(t) /\ n - 1 + 1 = n
    BY <1>1, <1>2, <1>4
  <2>2. /\ IsSequence(s) /\ Len(s) = n - 1 + 1
        /\ \A i \in 1..(n - 1 + 1) : s[i] = t[1 + i - 1]
    BY <1>3, <2>1, SubSeqSeq
  <2>3. \A i \in 1..n : 1 + i - 1 = i
    BY <1>4
  <2> HIDE DEF s
  <2> QED BY <2>1, <2>2, <2>3
<1> HIDE DEF s
<1>6. CASE n = 0
  <2>1. s = <<>>
    <3>1. Len(s) = 0 /\ IsSequence(s) /\ IsSequence(<<>>) /\ Len(<<>>) = 0
      <4>1. <<>> \in Seq({})
        OBVIOUS
      <4> QED BY <1>5, <1>6, <4>1, SeqIsSequence
    <3>2. \A i \in 1..Len(s) : s[i] = <<>>[i]
      BY <3>1
    <3> QED BY <3>1, <3>2, SeqSame
  <2>2. HeaderError(s) = "IoError"
    BY <2>1 DEF HeaderError
  <2> QED BY <2>1, <2>2 DEF Refused, s, t
<1>7. CASE n >= 1
  <2>1. s # <<>> /\ s[1] = V2_COOKIE
    <3>1. 1 \in 1..n /\ Len(<<>>) = 0
      BY <1>4, <1>7
    <3> QED BY <1>1, <1>4, <1>5, <1>7, <3>1
  <2>2. CASE n < 3
    <3>1. Len(s) < 3
      BY <1>5, <2>2
    <3>2. HeaderError(s) = "IoError"
      BY <2>1, <3>1 DEF HeaderError
    <3> QED BY <2>1, <3>2 DEF Refused, s, t
  <2>3. CASE n >= 3 /\ n < 7
    <3>1. Len(s) < 7 /\ ~(Len(s) < 3)
      BY <1>4, <1>5, <2>3
    <3>2. s[3] = 0
      <4>1. 3 \in 1..n
        BY <1>4, <2>3
      <4> QED BY <1>1, <1>5, <4>1
    <3>3. HeaderError(s) = "IoError"
      BY <2>1, <3>1, <3>2 DEF HeaderError, HeaderCells
    <3> QED BY <2>1, <3>3 DEF Refused, s, t
  <2>4. CASE n >= 7
    <3>1. 2 \in 1..n /\ 4 \in 1..n /\ 5 \in 1..n /\ 6 \in 1..n
      BY <1>4, <2>4
    <3>2. s[2] = Len(c) /\ s[4] = t[4] /\ s[5] = t[5] /\ s[6] = t[6]
      BY <1>1, <1>5, <3>1
    <3>3. PayloadShort(s)
      BY <1>4, <1>5, <3>2 DEF PayloadShort, HeaderCells
    <3>4. \A k \in 1..Len(s) : k > 7 => s[k] \in Byte
      <4> SUFFICES ASSUME NEW k \in 1..Len(s), k > 7 PROVE s[k] \in Byte
        OBVIOUS
      <4>1. k \in 1..n /\ k \in 1..Len(t)
        BY <1>1, <1>2, <1>4, <1>5
      <4> QED BY <1>3, <1>5, <4>1
    <3>5. Readable(s)
      BY <1>2, <1>3, <1>4, <1>5, <2>4, <3>2, <3>4 DEF Readable, HeaderCells
    <3> QED BY <2>1, <3>3, <3>5 DEF Refused, s, t
  <2> QED BY <1>4, <2>2, <2>3, <2>4
<1> QED BY <1>4, <1>6, <1>7

\* The first cells of a stream.
LEMMA PrefixCells ==
    ASSUME NEW s, IsSequence(s), NEW n \in 0..Len(s)
    PROVE  /\ IsSequence(SubSeq(s, 1, n)) /\ Len(SubSeq(s, 1, n)) = n
           /\ \A i \in 1..n : SubSeq(s, 1, n)[i] = s[i]
<1> DEFINE u == SubSeq(s, 1, n)
<1>1. Len(s) \in Nat
  BY SeqDomain
<1>2. 1 \in 1..(Len(s) + 1) /\ n \in (1 - 1)..Len(s) /\ n - 1 + 1 = n
  BY <1>1
<1>3. /\ IsSequence(u) /\ Len(u) = n - 1 + 1
      /\ \A i \in 1..(n - 1 + 1) : u[i] = s[1 + i - 1]
  BY <1>2, SubSeqSeq
<1>4. \A i \in 1..n : 1 + i - 1 = i
  BY <1>1
<1> HIDE DEF u
<1>5. IsSequence(u) /\ Len(u) = n /\ \A i \in 1..n : u[i] = s[i]
  BY <1>2, <1>3, <1>4
<1> QED BY <1>5 DEF u

\* A stream with one cell replaced.
Put(s, j, x) == [s EXCEPT ![j] = x]

\* The other cells, and their number, stay.
LEMMA ReplacedCell ==
    ASSUME NEW s, IsSequence(s), NEW j \in 1..Len(s), NEW x
    PROVE  /\ IsSequence(Put(s, j, x)) /\ Len(Put(s, j, x)) = Len(s) /\ Put(s, j, x)[j] = x
           /\ \A k \in 1..Len(s) : k # j => Put(s, j, x)[k] = s[k]
<1> DEFINE n == Len(s)
           t == Put(s, j, x)
<1>1. PICK A : s \in Seq(A) /\ x \in A
  <2>1. s \in Seq(ToSet(s) \cup {x})
    BY SeqOfMore
  <2> QED BY <2>1
<1>2. n \in Nat /\ s \in [1..n -> A]
  BY <1>1
<1>3. t \in [1..n -> A] /\ t[j] = x /\ \A k \in 1..n : k # j => t[k] = s[k]
  BY <1>1, <1>2 DEF Put
<1> HIDE DEF t
<1>4. t \in Seq(A) /\ Len(t) = n
  <2> HIDE DEF n
  <2> QED BY <1>2, <1>3
<1>5. IsSequence(t)
  BY <1>4, SeqIsSequence
<1> QED BY <1>3, <1>4, <1>5 DEF t

\* payload_buf after read_exact.
LEMMA FilledFacts ==
    ASSUME NEW b \in Seq(Byte), NEW s, Readable(s)
    PROVE  LET len == s[2]
               payload == SubSeq(s, HeaderCells + 1, Min({HeaderCells + len, Len(s)}))
               f == Filled(b, len, payload)
           IN  /\ f \in Seq(Byte) /\ len <= Len(f) /\ len \in Nat
               /\ ~PayloadShort(s) => \A k \in 1..len : f[k] = s[HeaderCells + k]
<1> DEFINE len == s[2]
           top == Min({HeaderCells + len, Len(s)})
           payload == SubSeq(s, HeaderCells + 1, top)
           f == Filled(b, len, payload)
           n == Max({len, Len(b)})
<1>1. /\ IsSequence(s) /\ Len(s) >= 7 /\ len \in Nat
      /\ \A k \in 1..Len(s) : k > 7 => s[k] \in Byte
  BY DEF Readable, HeaderCells
<1>2. Len(s) \in Nat /\ Len(b) \in Nat
  BY <1>1, SeqDomain
<1> HIDE DEF len
<1>3. top = (IF 7 + len <= Len(s) THEN 7 + len ELSE Len(s)) /\ top \in 7..Len(s)
  <2>1. Min({7 + len, Len(s)}) = IF 7 + len <= Len(s) THEN 7 + len ELSE Len(s)
    BY <1>1, <1>2, MinOfTwo
  <2> QED BY <1>1, <1>2, <2>1 DEF HeaderCells
<1> HIDE DEF top
<1>4. /\ Len(payload) = top - 7 /\ Len(payload) \in Nat
      /\ \A k \in 1..Len(payload) : payload[k] = s[7 + k] /\ payload[k] \in Byte
  <2>1. 8 \in 1..(Len(s) + 1) /\ top \in (8 - 1)..Len(s) /\ HeaderCells + 1 = 8
    BY <1>1, <1>2, <1>3 DEF HeaderCells
  <2>2. /\ Len(payload) = top - 8 + 1
        /\ \A k \in 1..(top - 8 + 1) : payload[k] = s[8 + k - 1]
    <3>1. payload = SubSeq(s, 8, top)
      BY <2>1
    <3>2. IsSequence(s) /\ 8 \in 1..(Len(s) + 1) /\ top \in (8 - 1)..Len(s)
      BY <1>1, <2>1
    <3> HIDE DEF payload
    <3>3. /\ Len(SubSeq(s, 8, top)) = top - 8 + 1
          /\ \A k \in 1..(top - 8 + 1) : SubSeq(s, 8, top)[k] = s[8 + k - 1]
      BY <3>2, SubSeqSeq
    <3> QED BY <3>1, <3>3
  <2>3. top - 8 + 1 = top - 7 /\ top - 7 \in Nat
    BY <1>2, <1>3
  <2> HIDE DEF payload
  <2>4. \A k \in 1..(top - 7) : 8 + k - 1 = 7 + k /\ 7 + k \in 1..Len(s) /\ 7 + k > 7
    BY <1>2, <1>3
  <2> QED BY <1>1, <2>2, <2>3, <2>4
<1> HIDE DEF payload
<1>5. n = (IF len >= Len(b) THEN len ELSE Len(b)) /\ n \in Nat
  BY <1>1, <1>2, MaxOfTwo DEF len
<1>6. f = [k \in 1..n |-> IF k <= Len(payload) THEN payload[k]
                          ELSE IF k <= Len(b) THEN b[k] ELSE 0]
  BY Zenon DEF Filled
<1> HIDE DEF n, f
<1>7. 0 \in Byte
  BY ScaleFacts DEF Byte
<1>8. \A k \in 1..n : f[k] \in Byte
  <2> TAKE k \in 1..n
  <2>1. CASE k <= Len(payload)
    BY <1>4, <1>5, <1>6, <2>1
  <2>2. CASE ~(k <= Len(payload)) /\ k <= Len(b)
    <3>1. b[k] \in Byte
      BY <1>2, <1>5, <2>2
    <3> QED BY <1>6, <2>2, <3>1
  <2>3. CASE ~(k <= Len(payload)) /\ ~(k <= Len(b))
    BY <1>6, <1>7, <2>3
  <2> QED BY <2>1, <2>2, <2>3
<1>9. f \in [1..n -> Byte]
  BY <1>6, <1>8
<1>10. f \in Seq(Byte) /\ Len(f) = n
  BY <1>5, <1>9
<1>11. len <= Len(f)
  BY <1>1, <1>2, <1>5, <1>10 DEF len
<1>12. ~PayloadShort(s) => \A k \in 1..len : f[k] = s[7 + k]
  <2> SUFFICES ASSUME ~PayloadShort(s), NEW k \in 1..len PROVE f[k] = s[7 + k]
    OBVIOUS
  <2>1. 7 + len <= Len(s) /\ len \in Nat
    BY <1>1, <1>2 DEF PayloadShort, HeaderCells, len
  <2>2. k \in 1..Len(payload) /\ k \in 1..n /\ k <= Len(payload)
    BY <1>2, <1>3, <1>4, <1>5, <2>1
  <2> QED BY <1>4, <1>6, <2>2
<1> QED BY <1>1, <1>10, <1>11, <1>12 DEF len, top, payload, f, HeaderCells

-----------------------------------------------------------------------------
(***************************************************************************)
(* What every step keeps                                                   *)
(***************************************************************************)
\* The decoder is inside the payload, and payload_buf holds bytes.
Kept ==
    /\ src \in Written /\ buf \in Seq(Byte) /\ IsDec(dec)
    /\ dec.len \in Nat /\ dec.pos \in 0..dec.len /\ dec.dest \in Nat /\ dec.total \in Words

InTransit ==
    pc = "transit" =>
        Serializable(src) /\ way = "whole" /\ stream \in {V2Stream(src), DeflateStream(src)}

AtHeader ==
    pc = "header" =>
        /\ way \in {"whole", "unsealed"} => Serializable(src) /\ InnerOf(stream) = V2Stream(src)
        /\ way = "cut" => Refused(InnerOf(stream))
        /\ HeaderError(InnerOf(stream)) = "none" => Readable(InnerOf(stream))

AtLoop == pc = "loop" => way # "cut" /\ Reading(dec) /\ dec.len <= Len(buf)

AtDone ==
    pc = "done" => /\ way = "cut" => result.err # "none"
                   /\ result.err = "none" => Consistent(result.h)

Inv == Kept /\ InTransit /\ AtHeader /\ AtLoop /\ AtDone

\* What is left of the payload, and the part of it that the fast loop reads.
LEMMA RestFacts ==
    ASSUME buf \in Seq(Byte), dec.len \in Nat, dec.pos \in 0..dec.len, dec.len <= Len(buf)
    PROVE  /\ IsSequence(Rest) /\ Len(Rest) = dec.len - dec.pos
           /\ \A k \in 1..Len(Rest) : Rest[k] = buf[dec.pos + k] /\ Rest[k] \in Byte
           /\ Fast => LET b == SubSeq(Rest, 1, MaxBytes)
                      IN  /\ IsSequence(b) /\ Len(b) = MaxBytes /\ MaxBytes <= Len(Rest)
                          /\ \A k \in 1..MaxBytes : b[k] = Rest[k]
<1> DEFINE m == dec.len
           p == dec.pos
           q == PayloadSlice(buf, m)
           t == Rest
<1>1. m \in Nat /\ p \in 0..m /\ m <= Len(buf) /\ Len(buf) \in Nat
  OBVIOUS
<1>2. q = SubSeq(buf, 1, m) /\ t = SubSeq(q, p + 1, m)
  BY Zenon DEF PayloadSlice, Rest
<1> HIDE DEF m, p, q, t
<1>3. IsSequence(buf)
  BY SeqIsSequence
<1>4. /\ IsSequence(q) /\ Len(q) = m
      /\ \A i \in 1..m : q[i] = buf[i]
  <2>1. 1 \in 1..(Len(buf) + 1) /\ m \in (1 - 1)..Len(buf) /\ m - 1 + 1 = m
    BY <1>1
  <2> DEFINE z == SubSeq(buf, 1, m)
  <2>2. /\ IsSequence(z) /\ Len(z) = m - 1 + 1
        /\ \A i \in 1..(m - 1 + 1) : z[i] = buf[1 + i - 1]
    BY <1>3, <2>1, SubSeqSeq
  <2>3. \A i \in 1..m : 1 + i - 1 = i
    BY <1>1
  <2>4. q = z
    BY <1>2
  <2> HIDE DEF z
  <2> QED BY <2>1, <2>2, <2>3, <2>4
<1>5. /\ IsSequence(t) /\ Len(t) = m - p
      /\ \A i \in 1..(m - p) : t[i] = q[p + i]
  <2>1. p + 1 \in 1..(Len(q) + 1) /\ m \in ((p + 1) - 1)..Len(q) /\ m - (p + 1) + 1 = m - p
    BY <1>1, <1>4
  <2> DEFINE z == SubSeq(q, p + 1, m)
             a == p + 1
  <2>2. /\ IsSequence(SubSeq(q, a, m)) /\ Len(SubSeq(q, a, m)) = m - a + 1
        /\ \A i \in 1..(m - a + 1) : SubSeq(q, a, m)[i] = q[a + i - 1]
    <3> HIDE DEF a
    <3>1. a \in 1..(Len(q) + 1) /\ m \in (a - 1)..Len(q)
      BY <2>1 DEF a
    <3> QED BY <1>4, <3>1, SubSeqSeq
  <2>3. /\ IsSequence(z) /\ Len(z) = m - (p + 1) + 1
        /\ \A i \in 1..(m - (p + 1) + 1) : z[i] = q[(p + 1) + i - 1]
    BY <2>2
  <2>4. \A i \in 1..(m - p) : (p + 1) + i - 1 = p + i
    BY <1>1
  <2>5. t = z
    BY <1>2
  <2> HIDE DEF z, a
  <2> QED BY <2>1, <2>3, <2>4, <2>5
<1>6. m - p \in Nat
  BY <1>1
<1>7. \A k \in 1..Len(t) : t[k] = buf[p + k] /\ t[k] \in Byte
  <2> TAKE k \in 1..Len(t)
  <2>1. k \in 1..(m - p) /\ p + k \in 1..m /\ p + k \in 1..Len(buf)
    BY <1>1, <1>5, <1>6
  <2>2. t[k] = buf[p + k]
    BY <1>4, <1>5, <2>1
  <2>3. buf[p + k] \in Byte
    BY <2>1
  <2> QED BY <2>2, <2>3
<1>8. ASSUME Fast
      PROVE  LET b == SubSeq(t, 1, MaxBytes)
             IN  /\ IsSequence(b) /\ Len(b) = MaxBytes /\ MaxBytes <= Len(t)
                 /\ \A k \in 1..MaxBytes : b[k] = t[k]
  <2>1. MaxBytes \in Nat \ {0} /\ p < m - MaxBytes
    BY <1>8, V2Constants DEF Fast, m, p
  <2>2. /\ 1 \in 1..(Len(t) + 1) /\ MaxBytes \in (1 - 1)..Len(t) /\ MaxBytes - 1 + 1 = MaxBytes
        /\ MaxBytes <= Len(t)
    BY <1>1, <1>5, <2>1
  <2> DEFINE z == SubSeq(t, 1, MaxBytes)
  <2>3. /\ IsSequence(z) /\ Len(z) = MaxBytes - 1 + 1
        /\ \A i \in 1..(MaxBytes - 1 + 1) : z[i] = t[1 + i - 1]
    BY <1>5, <2>2, SubSeqSeq
  <2>4. \A i \in 1..MaxBytes : 1 + i - 1 = i
    BY <2>1
  <2>5. IsSequence(z) /\ Len(z) = MaxBytes /\ MaxBytes <= Len(t) /\ \A i \in 1..MaxBytes : z[i] = t[i]
    <3> HIDE DEF z
    <3> QED BY <2>2, <2>3, <2>4
  <2> QED BY <2>5, Zenon
<1> QED BY <1>5, <1>7, <1>8, Zenon DEF t, m, p

\* One varint: the decoder stays inside the payload, and its statistics stay those
\* of the counts it has stored.
LEMMA DecodeKeeps ==
    ASSUME Kept, pc = "loop", Reading(dec), NEW b,
           \A k \in 1..VarintLen(b) : b[k] \in Nat,
           VarintLen(b) <= dec.len - dec.pos, Decode(b)
    PROVE  /\ Kept' /\ dec'.len = dec.len /\ pc' \in {"loop", "done"}
           /\ pc' = "loop" => Reading(dec')
           /\ pc' = "done" => result'.err # "none"
<1> DEFINE n == zig_zag_decode(varint_read_slice(b))
           r == OnDecodedNum(dec, n)
           m == VarintLen(b)
           e == r.d
           f == [e EXCEPT !.pos = @ + m]
<1>1. n \in Int
  BY ReadType, ZigZagType
<1>2. m \in Nat
  BY VarintLenFacts, V2Constants
<1>3. /\ dec' = f
      /\ \/ r.err = "none" /\ pc' = pc
         \/ r.err # "none" /\ result' = Fail(r.err, src) /\ pc' = "done"
      /\ src' = src /\ buf' = buf
  BY DEF Decode
<1>4. IsDec(dec) /\ dec.len \in Nat /\ dec.pos \in 0..dec.len
  BY DEF Kept
<1> HIDE DEF n
<1>5. /\ IsDec(e) /\ e.len = dec.len /\ e.pos = dec.pos /\ e.dest \in Nat /\ e.total \in Words
      /\ r.err = "none" => Reading(e)
  BY <1>1, <1>4, DecodedNum
<1> HIDE DEF r, e, m
<1>6. f = [len |-> e.len, pos |-> e.pos + m, dest |-> e.dest, h |-> e.h,
           maxi |-> e.maxi, mini |-> e.mini, total |-> e.total]
  <2>1. e = [len |-> e.len, pos |-> e.pos, dest |-> e.dest, h |-> e.h,
             maxi |-> e.maxi, mini |-> e.mini, total |-> e.total]
    BY <1>5, Zenon DEF IsDec
  <2> QED BY <2>1
<1>7. /\ f.len = e.len /\ f.pos = e.pos + m /\ f.dest = e.dest /\ f.h = e.h
      /\ f.maxi = e.maxi /\ f.mini = e.mini /\ f.total = e.total
  BY <1>6
<1> HIDE DEF f
<1>8. IsDec(f)
  BY <1>6, <1>7, Zenon DEF IsDec
<1>9. f.len \in Nat /\ f.pos \in 0..f.len
  <2>1. m <= dec.len - dec.pos
    BY DEF m
  <2> QED BY <1>2, <1>4, <1>5, <1>7, <2>1
<1>10. Kept'
  <2>1. src \in Written /\ buf \in Seq(Byte)
    BY DEF Kept
  <2> QED BY <1>3, <1>5, <1>7, <1>8, <1>9, <2>1 DEF Kept, IsDec
<1>11. r.err = "none" => Reading(f)
  <2> SUFFICES ASSUME r.err = "none" PROVE Reading(f)
    OBVIOUS
  <2>1. Reading(e)
    BY <1>5
  <2> QED BY <1>7, <2>1, Zenon DEF Reading, Tallied
<1>12. r.err # "none" => result'.err # "none"
  BY <1>3 DEF Fail
<1>13. (pc' = "loop" => Reading(dec')) /\ (pc' = "done" => result'.err # "none")
  <2>1. r.err = "none" => pc' = "loop" /\ Reading(f)
    BY <1>3, <1>11
  <2>2. r.err # "none" => pc' = "done" /\ result'.err # "none"
    BY <1>3, <1>12
  <2> QED BY <1>3, <2>1, <2>2
<1> QED BY <1>3, <1>5, <1>7, <1>10, <1>13

\* deserialize and deser_v2_compressed lead to the stream that was written.
LEMMA InnerFacts ==
    ASSUME NEW g \in Written, Serializable(g)
    PROVE  /\ InnerOf(V2Stream(g)) = V2Stream(g) /\ InnerOf(DeflateStream(g)) = V2Stream(g)
           /\ V2Stream(g)[1] = V2_COOKIE
           /\ DeflateStream(g)[1] = V2_COMPRESSED_COOKIE
           /\ DeflateStream(g) = <<V2_COMPRESSED_COOKIE, 2, V2Stream(g), "adler32">>
           /\ Readable(V2Stream(g))
<1> DEFINE s == V2Stream(g)
           z == DeflateStream(g)
<1>1. s[1] = V2_COOKIE /\ Readable(s)
  BY StreamFacts
<1>2. z = <<V2_COMPRESSED_COOKIE, 2, s, "adler32">>
  BY DEF DeflateStream
<1> HIDE DEF s, z
<1>3. s[1] # V2_COMPRESSED_COOKIE
  BY <1>1 DEF V2_COOKIE, V2_COMPRESSED_COOKIE
<1>4. z[1] = V2_COMPRESSED_COOKIE /\ z[3] = s /\ Len(z) = 4 /\ z # <<>>
  BY <1>2
<1>5. InnerOf(s) = s
  BY <1>3, Zenon DEF InnerOf
<1>6. InnerOf(z) = s
  BY <1>4 DEF InnerOf
<1> QED BY <1>1, <1>2, <1>4, <1>5, <1>6 DEF s, z

\* A stream that was cut off, the compressed one or the one inside it.
LEMMA CutInner ==
    ASSUME NEW g \in Written, Serializable(g), NEW s, s \in {V2Stream(g), DeflateStream(g)}, NEW t,
           \/ /\ s[1] = V2_COOKIE
              /\ \E n \in 0..(Len(s) - 1) : t = SubSeq(s, 1, n)
           \/ /\ s[1] = V2_COMPRESSED_COOKIE
              /\ \/ \E n \in 0..2 : t = SubSeq(s, 1, n)
                 \/ \E n \in 0..(Len(s[3]) - 1) : t = <<s[1], s[2], SubSeq(s[3], 1, n)>>
    PROVE  /\ Refused(InnerOf(t))
           /\ HeaderError(InnerOf(t)) = "none" => Readable(InnerOf(t))
<1> DEFINE v == V2Stream(g)
           z == DeflateStream(g)
           Cut(u) == Refused(u) /\ (HeaderError(u) = "none" => Readable(u))
<1>1. /\ v[1] = V2_COOKIE /\ z[1] = V2_COMPRESSED_COOKIE
      /\ z = <<V2_COMPRESSED_COOKIE, 2, v, "adler32">>
  BY InnerFacts
<1>2. V2_COOKIE # V2_COMPRESSED_COOKIE
  BY DEF V2_COOKIE, V2_COMPRESSED_COOKIE
<1>3. ASSUME NEW n \in 0..(Len(v) - 1)
      PROVE  LET u == SubSeq(v, 1, n) IN Cut(u) /\ (u = <<>> \/ u[1] = V2_COOKIE)
  BY <1>3, CutRefused
<1>4. Cut(<<>>)
  <2>1. HeaderError(<<>>) = "IoError"
    BY DEF HeaderError
  <2> QED BY <2>1 DEF Refused
<1>5. CASE s = v
  <2>1. s[1] # V2_COMPRESSED_COOKIE
    BY <1>1, <1>2, <1>5
  <2>2. PICK n \in 0..(Len(v) - 1) : t = SubSeq(v, 1, n)
    BY <1>5, <2>1
  <2> HIDE DEF v, Cut
  <2>3. Cut(t) /\ (t = <<>> \/ t[1] = V2_COOKIE)
    BY <1>3, <2>2
  <2>4. InnerOf(t) = t
    BY <1>2, <2>3, Zenon DEF InnerOf
  <2> QED BY <2>3, <2>4 DEF Cut
<1>6. CASE s = z
  <2> HIDE DEF v, z, Cut
  <2>1. z[1] = V2_COMPRESSED_COOKIE /\ z[2] = 2 /\ z[3] = v
    BY <1>1
  <2>2. CASE \E n \in 0..2 : t = SubSeq(s, 1, n)
    <3>1. PICK n \in 0..2 : t = SubSeq(z, 1, n)
      BY <1>6, <2>2
    <3>2. IsSequence(z) /\ Len(z) = 4
      <4> DEFINE S == {V2_COMPRESSED_COOKIE, 2, v, "adler32"}
      <4>1. z \in Seq(S) /\ Len(z) = 4
        BY <1>1
      <4> HIDE DEF S
      <4> QED BY <4>1, SeqIsSequence
    <3>3. Len(t) = n /\ \A i \in 1..n : t[i] = z[i]
      <4>1. n \in 0..Len(z)
        BY <3>2
      <4> DEFINE u == SubSeq(z, 1, n)
      <4>2. IsSequence(u) /\ Len(u) = n /\ \A i \in 1..n : u[i] = z[i]
        BY <3>2, <4>1, PrefixCells
      <4>3. t = u
        BY <3>1
      <4> HIDE DEF u
      <4> QED BY <4>2, <4>3
    <3>4. InnerOf(t) = <<>>
      <4>1. CASE t = <<>>
        BY <4>1 DEF InnerOf
      <4>2. CASE t # <<>>
        <5>1. n # 0
          <6> SUFFICES ASSUME n = 0 PROVE FALSE
            OBVIOUS
          <6>1. t = SubSeq(z, 1, 0)
            BY <3>1
          <6>2. SubSeq(z, 1, 0) = <<>>
            <7> DEFINE S == {V2_COMPRESSED_COOKIE, 2, v, "adler32"}
            <7>1. z \in Seq(S)
              BY <1>1
            <7> HIDE DEF S
            <7> QED BY <7>1
          <6> QED BY <4>2, <6>1, <6>2
        <5>2. 1 \in 1..n /\ Len(t) < 3
          BY <3>1, <3>3, <5>1
        <5>3. t[1] = V2_COMPRESSED_COOKIE
          BY <1>1, <3>3, <5>2
        <5> QED BY <4>2, <5>2, <5>3 DEF InnerOf
      <4> QED BY <4>1, <4>2
    <3> QED BY <1>4, <3>4 DEF Cut
  <2>3. CASE \E n \in 0..(Len(s[3]) - 1) : t = <<s[1], s[2], SubSeq(s[3], 1, n)>>
    <3>1. PICK n \in 0..(Len(v) - 1) : t = <<z[1], z[2], SubSeq(v, 1, n)>>
      BY <1>6, <2>1, <2>3
    <3> DEFINE u == SubSeq(v, 1, n)
    <3>2. Cut(u)
      BY <1>3
    <3>3. t = <<V2_COMPRESSED_COOKIE, 2, u>>
      BY <2>1, <3>1
    <3> HIDE DEF u
    <3>4. t # <<>> /\ t[1] = V2_COMPRESSED_COOKIE /\ Len(t) = 3 /\ t[3] = u
      BY <3>3
    <3>5. InnerOf(t) = u
      BY <3>4 DEF InnerOf
    <3> QED BY <3>2, <3>5 DEF Cut
  <2>4. s[1] # V2_COOKIE
    BY <1>1, <1>2, <1>6
  <2> QED BY <2>2, <2>3, <2>4
<1> QED BY <1>5, <1>6 DEF v, z

\* A header with one other cell is still one that can be read, or is refused.
LEMMA OtherInner ==
    ASSUME NEW g \in Written, Serializable(g), NEW k \in 1..7, NEW x,
           k \in {2, 4, 5, 6} => x \in Nat, k = 1 => x # V2_COMPRESSED_COOKIE,
           NEW t, t = [V2Stream(g) EXCEPT ![k] = x]
    PROVE  InnerOf(t) = t /\ Readable(t)
<1> DEFINE s == V2Stream(g)
<1>1. /\ s[1] = V2_COOKIE /\ IsSequence(s) /\ Len(s) >= 7
      /\ s[2] \in Nat /\ s[4] \in Nat /\ s[5] \in Nat /\ s[6] \in Nat
      /\ \A i \in 1..Len(s) : i > 7 => s[i] \in Byte
  BY StreamFacts DEF Readable, HeaderCells
<1>2. Len(s) \in Nat
  BY <1>1, SeqDomain
<1>3. t = Put(s, k, x)
  BY Zenon DEF Put
<1> HIDE DEF s
<1>4. k \in 1..Len(s)
  BY <1>1, <1>2
<1>5. /\ IsSequence(t) /\ Len(t) = Len(s) /\ t[k] = x
      /\ \A i \in 1..Len(s) : i # k => t[i] = s[i]
  <2>1. IsSequence(s)
    BY <1>1
  <2> DEFINE u == Put(s, k, x)
  <2>2. /\ IsSequence(u) /\ Len(u) = Len(s) /\ u[k] = x
        /\ \A i \in 1..Len(s) : i # k => u[i] = s[i]
    BY <1>4, <2>1, ReplacedCell
  <2> HIDE DEF u
  <2>3. t = u
    BY <1>3 DEF u
  <2> QED BY <2>2, <2>3
<1>6. t[1] # V2_COMPRESSED_COOKIE
  <2>1. 1 \in 1..Len(s) /\ V2_COOKIE # V2_COMPRESSED_COOKIE
    BY <1>1, <1>2 DEF V2_COOKIE, V2_COMPRESSED_COOKIE
  <2> QED BY <1>1, <1>5, <2>1
<1>7. InnerOf(t) = t
  BY <1>6, Zenon DEF InnerOf
<1>8. t[2] \in Nat /\ t[4] \in Nat /\ t[5] \in Nat /\ t[6] \in Nat
  <2>1. {2, 4, 5, 6} \subseteq 1..Len(s)
    BY <1>1, <1>2
  <2>2. \A i \in {2, 4, 5, 6} : s[i] \in Nat
    BY <1>1
  <2>3. \A i \in {2, 4, 5, 6} : t[i] \in Nat
    BY <1>5, <2>1, <2>2
  <2> QED BY <2>3
<1>9. \A i \in 1..Len(t) : i > 7 => t[i] \in Byte
  BY <1>1, <1>2, <1>5
<1>10. Readable(t)
  BY <1>1, <1>5, <1>8, <1>9 DEF Readable, HeaderCells
<1> QED BY <1>7, <1>10

\* The locals of deser_v2 before it is called.
LEMMA IdleFacts ==
    /\ IsDec(Idle) /\ Idle.len = 0 /\ Idle.pos = 0 /\ Idle.dest = 0 /\ Idle.total = 0
    /\ Idle.maxi = -1 /\ Idle.mini = -1 /\ 0 \in Words
<1> DEFINE h == Resized(<<>>, 0)
           m == -1
<1>1. Idle = [len |-> 0, pos |-> 0, dest |-> 0, h |-> h, maxi |-> m, mini |-> m, total |-> 0]
  BY Zenon DEF Idle
<1>2. 0 \in Words
  BY WordType
<1> HIDE DEF h, m
<1>3. /\ Idle.len = 0 /\ Idle.pos = 0 /\ Idle.dest = 0 /\ Idle.total = 0 /\ Idle.h = h
      /\ Idle.maxi = m /\ Idle.mini = m
  BY <1>1
<1>4. IsDec(Idle)
  BY <1>1, <1>3, Zenon DEF IsDec
<1> QED BY <1>2, <1>3, <1>4 DEF m

\* serialize, on its own and after a stream that was read.
LEMMA StartKept ==
    ASSUME NEW d, d = Idle, NEW g \in Written, NEW b \in Seq(Byte)
    PROVE  /\ g \in Written /\ b \in Seq(Byte) /\ IsDec(d)
           /\ d.len \in Nat /\ d.pos \in 0..d.len /\ d.dest \in Nat /\ d.total \in Words
<1>1. 0 \in Nat /\ 0 \in 0..0
  OBVIOUS
<1> QED BY <1>1, IdleFacts, Zenon

\* At the start.
LEMMA InitInv == Init => Inv
<1> SUFFICES ASSUME Init PROVE Inv
  OBVIOUS
<1>1. src \in Written /\ buf \in Seq(Byte) /\ dec = Idle /\ pc = "write"
  BY DEF Init, Written
<1>2. Kept
  BY <1>1, StartKept, Zenon DEF Kept
<1> QED BY <1>1, <1>2 DEF Inv, InTransit, AtHeader, AtLoop, AtDone

\* Either serializer.
LEMMA SerializeInv ==
    ASSUME Inv, NEW f \in Formats, Serialize(f)
    PROVE  Inv'
<1>1. src \in Written /\ buf \in Seq(Byte)
  BY DEF Inv, Kept
<1>2. src' = src /\ buf' = buf /\ dec' = Idle /\ way' = "whole"
  BY DEF Serialize
<1>3. Kept'
  BY <1>1, <1>2, StartKept, Zenon DEF Kept
<1>4. CASE pc' = "done" /\ result' = Fail("CountNotSerializable", src)
  BY <1>2, <1>3, <1>4 DEF Inv, InTransit, AtHeader, AtLoop, AtDone, Fail
<1>5. CASE pc' = "transit" /\ Serializable(src)
           /\ stream' = IF f = "v2" THEN V2Stream(src) ELSE DeflateStream(src)
  <2>1. stream' \in {V2Stream(src'), DeflateStream(src')}
    BY <1>2, <1>5, Zenon
  <2>2. Serializable(src')
    BY <1>2, <1>5, Zenon
  <2>3. InTransit'
    BY <1>2, <2>1, <2>2, Zenon DEF InTransit
  <2> QED BY <1>3, <1>5, <2>3 DEF Inv, AtHeader, AtLoop, AtDone
<1> QED BY <1>4, <1>5 DEF Serialize

\* The stream arrives whole, cut off, without its checksum, or with another header.
LEMMA ArrivalInv ==
    ASSUME Inv, Arrive \/ CutOff \/ CutInChecksum \/ OtherHeader
    PROVE  Inv'
<1>1. /\ pc = "transit" /\ pc' = "header" /\ src' = src /\ buf' = buf /\ dec' = dec
  BY DEF Arrive, CutOff, CutInChecksum, OtherHeader
<1>2. /\ src \in Written /\ Serializable(src) /\ way = "whole"
      /\ stream \in {V2Stream(src), DeflateStream(src)}
  BY <1>1 DEF Inv, Kept, InTransit
<1>3. Kept'
  BY <1>1 DEF Inv, Kept, IsDec
<1>4. /\ InnerOf(V2Stream(src)) = V2Stream(src) /\ InnerOf(DeflateStream(src)) = V2Stream(src)
      /\ V2Stream(src)[1] = V2_COOKIE /\ DeflateStream(src)[1] = V2_COMPRESSED_COOKIE
      /\ Readable(V2Stream(src))
  BY <1>2, InnerFacts
<1>5. AtHeader'
  <2>1. CASE Arrive
    <3>1. stream' = stream /\ way' = "whole"
      BY <1>2, <2>1 DEF Arrive
    <3>2. InnerOf(stream) = V2Stream(src)
      BY <1>2, <1>4
    <3>3. InnerOf(stream') = V2Stream(src') /\ Serializable(src') /\ Readable(InnerOf(stream'))
      BY <1>1, <1>2, <1>4, <3>1, <3>2, Zenon
    <3> QED BY <3>1, <3>3 DEF AtHeader
  <2>2. CASE CutOff
    <3>1. way' = "cut"
      BY <2>2 DEF CutOff
    <3>2. \/ /\ stream[1] = V2_COOKIE
             /\ \E n \in 0..(Len(stream) - 1) : stream' = SubSeq(stream, 1, n)
          \/ /\ stream[1] = V2_COMPRESSED_COOKIE
             /\ \/ \E n \in 0..2 : stream' = SubSeq(stream, 1, n)
                \/ \E n \in 0..(Len(stream[3]) - 1) :
                      stream' = <<stream[1], stream[2], SubSeq(stream[3], 1, n)>>
      BY <2>2 DEF CutOff
    <3> DEFINE t == stream'
    <3>3. /\ Refused(InnerOf(t))
          /\ HeaderError(InnerOf(t)) = "none" => Readable(InnerOf(t))
      BY <1>2, <3>2, CutInner
    <3> QED BY <3>1, <3>3 DEF AtHeader
  <2>3. CASE OtherHeader
    <3>1. way' = "other" /\ stream[1] = V2_COOKIE
      BY <2>3 DEF OtherHeader
    <3>2. stream = V2Stream(src)
      BY <1>2, <1>4, <3>1 DEF V2_COOKIE, V2_COMPRESSED_COOKIE
    <3>3. \E k \in 1..7 : \E x : /\ (k \in {2, 4, 5, 6} => x \in Nat)
                                /\ (k = 1 => x # V2_COMPRESSED_COOKIE)
                                /\ stream' = [stream EXCEPT ![k] = x]
      <4>1. CASE stream' = [stream EXCEPT ![1] = "v1"]
        <5>1. 1 \in 1..7 /\ 1 \notin {2, 4, 5, 6} /\ "v1" # V2_COMPRESSED_COOKIE
          BY DEF V2_COMPRESSED_COOKIE
        <5> QED BY <4>1, <5>1
      <4>2. CASE stream' = [stream EXCEPT ![3] = 1]
        <5>1. 3 \in 1..7 /\ 3 \notin {2, 4, 5, 6} /\ 3 # 1
          OBVIOUS
        <5> QED BY <4>2, <5>1
      <4>3. CASE stream' = [stream EXCEPT ![7] = "0.5"]
        <5>1. 7 \in 1..7 /\ 7 \notin {2, 4, 5, 6} /\ 7 # 1
          BY DEF V2_COMPRESSED_COOKIE
        <5> QED BY <4>3, <5>1
      <4>4. CASE \E n \in 0..stream[2] : stream' = [stream EXCEPT ![2] = n]
        <5>1. PICK n \in 0..stream[2] : stream' = [stream EXCEPT ![2] = n]
          BY <4>4
        <5>2. n \in Nat /\ 2 \in 1..7 /\ 2 # 1
          BY <1>4, <3>2 DEF Readable
        <5> QED BY <5>1, <5>2
      <4>5. CASE \E k \in {4, 5, 6}, v \in Words : stream' = [stream EXCEPT ![k] = v]
        <5>1. PICK k \in {4, 5, 6}, v \in Words : stream' = [stream EXCEPT ![k] = v]
          BY <4>5
        <5>2. v \in Nat /\ k \in 1..7 /\ k # 1
          BY WordType
        <5> QED BY <5>1, <5>2
      <4> QED BY <2>3, <4>1, <4>2, <4>3, <4>4, <4>5 DEF OtherHeader
    <3>4. PICK k \in 1..7 : \E x : /\ (k \in {2, 4, 5, 6} => x \in Nat)
                                   /\ (k = 1 => x # V2_COMPRESSED_COOKIE)
                                   /\ stream' = [stream EXCEPT ![k] = x]
      BY <3>3
    <3>5. PICK x : /\ (k \in {2, 4, 5, 6} => x \in Nat)
                   /\ (k = 1 => x # V2_COMPRESSED_COOKIE)
                   /\ stream' = [stream EXCEPT ![k] = x]
      BY <3>4
    <3>6. stream' = [V2Stream(src) EXCEPT ![k] = x]
      BY <3>2, <3>5
    <3> DEFINE t == stream'
    <3>7. InnerOf(t) = t /\ Readable(t)
      BY <1>2, <3>5, <3>6, OtherInner
    <3> QED BY <3>1, <3>7 DEF AtHeader
  <2>4. CASE CutInChecksum
    <3>1. /\ way' = "unsealed" /\ stream[1] = V2_COMPRESSED_COOKIE
          /\ stream' = <<stream[1], stream[2], stream[3]>>
      BY <2>4 DEF CutInChecksum
    <3>2. stream = DeflateStream(src)
      BY <1>2, <1>4, <3>1 DEF V2_COOKIE, V2_COMPRESSED_COOKIE
    <3> DEFINE v == V2Stream(src)
               t == stream'
    <3>3. stream = <<V2_COMPRESSED_COOKIE, 2, v, "adler32">>
      BY <3>2 DEF DeflateStream
    <3> HIDE DEF v
    <3>4. t = <<V2_COMPRESSED_COOKIE, 2, v>>
      BY <3>1, <3>3
    <3> HIDE DEF t
    <3>5. t # <<>> /\ t[1] = V2_COMPRESSED_COOKIE /\ Len(t) = 3 /\ t[3] = v
      BY <3>4
    <3>6. InnerOf(t) = v
      BY <3>5 DEF InnerOf
    <3>7. InnerOf(stream') = V2Stream(src') /\ Serializable(src') /\ Readable(InnerOf(stream'))
      BY <1>1, <1>2, <1>4, <3>6, Zenon DEF v, t
    <3> QED BY <3>1, <3>7 DEF AtHeader
  <2> QED BY <2>1, <2>2, <2>3, <2>4
<1> QED BY <1>1, <1>3, <1>5 DEF Inv, InTransit, AtLoop, AtDone

\* deser_v2 starts with nothing counted.
LEMMA NothingRead ==
    ASSUME NEW h, FreshHist(h), \A i \in DOMAIN h.counts : h.counts[i] = 0,
           NEW d, d.h = h, d.dest = 0, d.maxi = -1, d.mini = -1, d.total = 0
    PROVE  Reading(d)
<1>1. NonZero(h) = {}
  BY DEF NonZero
<1>2. SumCounts(h, {}) = 0
  BY SumEmpty DEF SumCounts
<1>3. Min({0, MaxWord}) = 0
  <2>1. 0 \in Int /\ MaxWord \in Int /\ 0 <= MaxWord
    BY WordType
  <2> QED BY <2>1, MinOfTwo
<1>4. Tallied(d)
  <2>1. NonZero(d.h) = {} /\ NonZero(d.h) \ {0} = {}
    BY <1>1
  <2>2. Min({SumCounts(d.h, NonZero(d.h)), MaxWord}) = 0
    BY <1>1, <1>2, <1>3, Zenon
  <2> QED BY <2>1, <2>2 DEF Tallied
<1>5. \A i \in NonZero(d.h) : i < d.dest
  BY <1>1
<1> QED BY <1>4, <1>5 DEF Reading

\* The start of the decode loop.
LEMMA HeaderRead ==
    ASSUME NEW s, Readable(s), CanCreate(s[5], s[6], s[4]),
           NEW f \in Seq(Byte), s[2] <= Len(f),
           NEW d, d = [Idle EXCEPT !.len = Len(PayloadSlice(f, s[2])),
                                   !.h = NewWithBounds(s[5], s[6], s[4])]
    PROVE  /\ IsDec(d) /\ d.len = s[2] /\ d.pos = 0 /\ d.dest = 0 /\ d.total = 0 /\ Reading(d)
           /\ d.h = NewWithBounds(s[5], s[6], s[4])
<1> DEFINE len == Len(PayloadSlice(f, s[2]))
           h == NewWithBounds(s[5], s[6], s[4])
           m == -1
           h0 == Resized(<<>>, 0)
<1>1. s[2] \in Nat /\ s[4] \in Nat /\ s[5] \in Nat /\ s[6] \in Nat
  BY DEF Readable
<1>2. len = s[2]
  <2>1. IsSequence(f) /\ s[2] \in 0..Len(f)
    BY <1>1, SeqIsSequence
  <2> DEFINE n == s[2]
  <2> HIDE DEF n
  <2>2. n \in 0..Len(f) /\ IsSequence(f)
    BY <2>1 DEF n
  <2>3. Len(SubSeq(f, 1, n)) = n
    BY <2>2, PrefixCells
  <2> QED BY <2>3, Zenon DEF PayloadSlice, n
<1>3. FreshHist(h) /\ \A i \in DOMAIN h.counts : h.counts[i] = 0
  BY <1>1, NewIsFresh
<1>4. Idle = [len |-> 0, pos |-> 0, dest |-> 0, h |-> h0, maxi |-> m, mini |-> m, total |-> 0]
  BY Zenon DEF Idle
<1>5. d = [Idle EXCEPT !.len = len, !.h = h]
  BY Zenon
<1> HIDE DEF len, h, m, h0
<1>6. d = [len |-> len, pos |-> 0, dest |-> 0, h |-> h, maxi |-> m, mini |-> m, total |-> 0]
  BY <1>4, <1>5
<1>7. /\ d.len = len /\ d.pos = 0 /\ d.dest = 0 /\ d.total = 0 /\ d.h = h
      /\ d.maxi = m /\ d.mini = m
  <2> DEFINE e == [len |-> len, pos |-> 0, dest |-> 0, h |-> h, maxi |-> m, mini |-> m, total |-> 0]
  <2>1. /\ e.len = len /\ e.pos = 0 /\ e.dest = 0 /\ e.total = 0 /\ e.h = h
        /\ e.maxi = m /\ e.mini = m
    BY Zenon
  <2> HIDE DEF e
  <2>2. d = e
    BY <1>6 DEF e
  <2> QED BY <2>1, <2>2, Zenon
<1>8. IsDec(d)
  BY <1>6, <1>7, Zenon DEF IsDec
<1>9. Reading(d)
  <2>1. d.maxi = -1 /\ d.mini = -1
    BY <1>7 DEF m
  <2> QED BY <1>3, <1>7, <2>1, NothingRead
<1> QED BY <1>2, <1>7, <1>8, <1>9 DEF h

\* deser_v2 up to its loops.
LEMMA ReadHeaderInv ==
    ASSUME Inv, ReadHeader
    PROVE  Inv'
<1> DEFINE s == InnerOf(stream)
           len == s[2]
           payload == SubSeq(s, HeaderCells + 1, Min({HeaderCells + len, Len(s)}))
           f == Filled(buf, len, payload)
<1>1. Inner = s
  BY Zenon DEF Inner, InnerOf
<1>2. /\ pc = "header" /\ src' = src /\ way' = way
      /\ \/ /\ HeaderError(s) # "none"
            /\ result' = Fail(HeaderError(s), src) /\ pc' = "done"
            /\ buf' = buf /\ dec' = dec
         \/ /\ HeaderError(s) = "none" /\ PayloadShort(s)
            /\ buf' = f
            /\ result' = Fail("IoError", src) /\ pc' = "done"
            /\ dec' = dec
         \/ /\ HeaderError(s) = "none" /\ ~PayloadShort(s)
            /\ buf' = f
            /\ dec' = [Idle EXCEPT !.len = Len(PayloadSlice(f, len)),
                                   !.h = NewWithBounds(s[5], s[6], s[4])]
            /\ pc' = "loop"
  BY <1>1, Zenon DEF ReadHeader
<1>3. /\ way = "cut" => Refused(s)
      /\ HeaderError(s) = "none" => Readable(s)
  BY <1>2, Zenon DEF Inv, AtHeader
<1> HIDE DEF s
<1>4. Kept
  BY DEF Inv
<1>5. HeaderError(s) = "none" => f \in Seq(Byte) /\ len <= Len(f) /\ len \in Nat
  <2>1. buf \in Seq(Byte)
    BY <1>4 DEF Kept
  <2> QED BY <1>3, <2>1, FilledFacts
<1> HIDE DEF f
<1>6. CASE HeaderError(s) # "none" /\ result' = Fail(HeaderError(s), src) /\ pc' = "done"
           /\ buf' = buf /\ dec' = dec
  <2>1. Kept'
    BY <1>2, <1>4, <1>6 DEF Kept, IsDec
  <2>2. result'.err # "none"
    BY <1>6 DEF Fail
  <2> QED BY <1>6, <2>1, <2>2 DEF Inv, InTransit, AtHeader, AtLoop, AtDone
<1>7. CASE HeaderError(s) = "none" /\ result' = Fail("IoError", src) /\ pc' = "done"
           /\ buf' = f /\ dec' = dec
  <2>1. Kept'
    BY <1>2, <1>4, <1>5, <1>7 DEF Kept, IsDec
  <2>2. result'.err # "none"
    BY <1>7 DEF Fail
  <2> QED BY <1>7, <2>1, <2>2 DEF Inv, InTransit, AtHeader, AtLoop, AtDone
<1>8. CASE /\ HeaderError(s) = "none" /\ ~PayloadShort(s) /\ pc' = "loop" /\ buf' = f
           /\ dec' = [Idle EXCEPT !.len = Len(PayloadSlice(f, len)),
                                  !.h = NewWithBounds(s[5], s[6], s[4])]
  <2>1. Readable(s) /\ CanCreate(s[5], s[6], s[4]) /\ way # "cut"
    <3>1. CanCreate(s[5], s[6], s[4])
      BY <1>8 DEF HeaderError
    <3> QED BY <1>3, <1>8, <3>1 DEF Refused
  <2> DEFINE d == dec'
  <2>2. /\ IsDec(d) /\ d.len = len /\ d.pos = 0 /\ d.dest = 0 /\ d.total = 0 /\ Reading(d)
    BY <1>5, <1>8, <2>1, HeaderRead
  <2>3. len \in Nat /\ len <= Len(f) /\ f \in Seq(Byte)
    BY <1>5, <1>8
  <2>4. Kept'
    <3>1. src \in Written
      BY <1>4 DEF Kept
    <3>2. dec'.pos \in 0..dec'.len /\ dec'.dest \in Nat /\ dec'.len \in Nat /\ dec'.total \in Words
      BY <2>2, <2>3, IdleFacts
    <3> QED BY <1>2, <1>8, <2>2, <2>3, <3>1, <3>2 DEF Kept, IsDec
  <2>5. Reading(dec)' /\ (dec.len <= Len(buf))' /\ way' # "cut"
    BY <1>2, <1>8, <2>1, <2>2, <2>3 DEF Reading, Tallied
  <2>6. AtLoop'
    BY <2>5 DEF AtLoop
  <2> QED BY <1>8, <2>4, <2>6 DEF Inv, InTransit, AtHeader, AtDone
<1> QED BY <1>2, <1>6, <1>7, <1>8

\* The slice that a step of the loop reads from, in either loop.
Slice(b) ==
    \/ Fast /\ b = SubSeq(Rest, 1, MaxBytes)
    \/ ~Fast /\ VarintFits(Rest) /\ b = Rest

\* Every varint fits the slice it is read from, and the slice is part of the payload.
LEMMA SliceFacts ==
    ASSUME Kept, dec.len <= Len(buf), NEW b, Slice(b)
    PROVE  /\ VarintLen(b) <= Len(b) /\ Len(b) \in Nat /\ Len(b) <= dec.len - dec.pos
           /\ \A k \in 1..Len(b) : b[k] = buf[dec.pos + k] /\ b[k] \in Byte
           /\ Len(b) = dec.len - dec.pos \/ Len(b) = MaxBytes
<1> DEFINE t == Rest
           n == dec.len - dec.pos
<1>1. /\ IsSequence(t) /\ Len(t) = n
      /\ \A k \in 1..Len(t) : t[k] = buf[dec.pos + k] /\ t[k] \in Byte
      /\ Fast => LET c == SubSeq(t, 1, MaxBytes)
                 IN  /\ IsSequence(c) /\ Len(c) = MaxBytes /\ MaxBytes <= Len(t)
                     /\ \A k \in 1..MaxBytes : c[k] = t[k]
  BY RestFacts DEF Kept
<1>2. n \in Nat
  BY DEF Kept
<1>3. MaxBytes \in Nat /\ VarintLen(b) \in 1..MaxBytes
  BY VarintLenFacts, V2Constants
<1> HIDE DEF t
<1>4. CASE Fast /\ b = SubSeq(t, 1, MaxBytes)
  <2>1. Len(b) = MaxBytes /\ MaxBytes <= n /\ \A k \in 1..MaxBytes : b[k] = t[k]
    BY <1>1, <1>4
  <2>2. \A k \in 1..MaxBytes : k \in 1..Len(t)
    BY <1>1, <1>2, <1>3, <2>1
  <2> HIDE DEF n
  <2>3. \A k \in 1..Len(b) : b[k] = buf[dec.pos + k] /\ b[k] \in Byte
    BY <1>1, <2>1, <2>2
  <2>4. VarintLen(b) <= Len(b) /\ Len(b) \in Nat /\ Len(b) <= n
    BY <1>3, <2>1
  <2> QED BY <2>1, <2>3, <2>4 DEF n
<1>5. CASE VarintFits(t) /\ b = t
  <2>1. VarintLen(t) <= Len(t)
    BY <1>5 DEF VarintFits
  <2> HIDE DEF n
  <2>2. /\ VarintLen(b) <= Len(b) /\ Len(b) = n
        /\ \A k \in 1..Len(b) : b[k] = buf[dec.pos + k] /\ b[k] \in Byte
    BY <1>1, <1>5, <2>1, Zenon
  <2>3. Len(b) \in Nat /\ Len(b) <= n
    BY <1>2, <2>2
  <2> QED BY <2>2, <2>3 DEF n
<1> QED BY <1>4, <1>5 DEF Slice, t

\* A step of either loop.
LEMMA LoopInv ==
    ASSUME Inv, FastRead \/ SlowRead
    PROVE  Inv'
<1>1. pc = "loop" /\ \E b : Slice(b) /\ Decode(b)
  BY Zenon DEF FastRead, SlowRead, Slice
<1>2. PICK b : Slice(b) /\ Decode(b)
  BY <1>1
<1>3. Kept /\ way # "cut" /\ Reading(dec) /\ dec.len <= Len(buf)
  BY <1>1 DEF Inv, AtLoop
<1>4. /\ VarintLen(b) <= Len(b) /\ Len(b) \in Nat /\ Len(b) <= dec.len - dec.pos
      /\ \A k \in 1..Len(b) : b[k] \in Byte
  BY <1>2, <1>3, SliceFacts
<1>5. VarintLen(b) \in Nat
  BY VarintLenFacts, V2Constants
<1>6. VarintLen(b) <= dec.len - dec.pos
  BY <1>3, <1>4, <1>5 DEF Kept
<1>7. \A k \in 1..VarintLen(b) : b[k] \in Nat
  <2>1. Byte \subseteq Nat
    BY ScaleFacts DEF Byte
  <2> TAKE k \in 1..VarintLen(b)
  <2>2. k \in 1..Len(b)
    BY <1>4, <1>5
  <2>3. b[k] \in Byte
    BY <1>4, <2>2, Zenon
  <2> QED BY <2>1, <2>3, Zenon
<1>8. /\ Kept' /\ dec'.len = dec.len /\ pc' \in {"loop", "done"}
      /\ pc' = "loop" => Reading(dec')
      /\ pc' = "done" => result'.err # "none"
  BY <1>1, <1>2, <1>3, <1>6, <1>7, DecodeKeeps
<1>9. buf' = buf /\ way' = way
  BY <1>2 DEF Decode
<1>10. AtLoop'
  <2> SUFFICES ASSUME pc' = "loop" PROVE way' # "cut" /\ Reading(dec)' /\ (dec.len <= Len(buf))'
    BY DEF AtLoop
  <2>1. Reading(dec)'
    BY <1>8 DEF Reading, Tallied
  <2> QED BY <1>3, <1>8, <1>9, <2>1
<1>11. AtDone'
  BY <1>8 DEF AtDone
<1> QED BY <1>8, <1>10, <1>11 DEF Inv, InTransit, AtHeader

\* The end of the payload, in the middle of a varint or after one.
LEMMA EndInv ==
    ASSUME Inv, SlowEof \/ FinishRead
    PROVE  Inv'
<1>1. pc = "loop" /\ pc' = "done" /\ UNCHANGED <<src, way, buf, dec>>
  BY DEF SlowEof, FinishRead
<1>2. Kept /\ way # "cut" /\ Reading(dec)
  BY <1>1 DEF Inv, AtLoop
<1>3. Kept'
  BY <1>1, <1>2 DEF Kept, IsDec
<1>4. AtDone'
  <2>1. CASE SlowEof
    <3>1. result' = Fail("IoError", src)
      BY <2>1 DEF SlowEof
    <3>2. result'.err # "none"
      BY <3>1 DEF Fail
    <3> QED BY <3>2 DEF AtDone
  <2>2. CASE FinishRead
    <3>1. result' = Ok(Restated(dec))
      BY <2>2 DEF FinishRead
    <3>2. result'.h = Restated(dec)
      BY <3>1 DEF Ok
    <3>3. Consistent(Restated(dec))
      BY <1>2, RestatedFacts DEF Reading
    <3>4. Consistent(result'.h)
      BY <3>2, <3>3
    <3>5. Consistent(result.h)'
      BY <3>4 DEF Consistent, SumCounts, NonZero
    <3>6. way' # "cut"
      BY <1>1, <1>2
    <3> QED BY <3>5, <3>6 DEF AtDone
  <2> QED BY <2>1, <2>2
<1> QED BY <1>1, <1>3, <1>4 DEF Inv, InTransit, AtHeader, AtLoop

\* The Deserializer is used again.
LEMMA AgainInv ==
    ASSUME Inv, Again
    PROVE  Inv'
<1>1. buf \in Seq(Byte)
  BY DEF Inv, Kept
<1>2. src' \in Written /\ buf' = buf /\ dec' = Idle /\ pc' = "write"
  BY DEF Again, Written
<1>3. Kept'
  <2>1. (dec = Idle)' /\ (src \in Written)' /\ (buf \in Seq(Byte))'
    BY <1>1, <1>2 DEF Idle, Resized, Written, Byte
  <2> QED BY <1>1, <1>2, StartKept, Zenon DEF Kept, IsDec
<1> QED BY <1>2, <1>3 DEF Inv, InTransit, AtHeader, AtLoop, AtDone

\* Every step keeps the invariant.
LEMMA NextInv == Inv /\ [Next]_vars => Inv'
<1> SUFFICES ASSUME Inv, [Next]_vars PROVE Inv'
  OBVIOUS
<1>1. CASE \E f \in Formats : Serialize(f)
  BY <1>1, SerializeInv
<1>2. CASE Arrive \/ CutOff \/ CutInChecksum \/ OtherHeader
  BY <1>2, ArrivalInv
<1>3. CASE ReadHeader
  BY <1>3, ReadHeaderInv
<1>4. CASE FastRead \/ SlowRead
  BY <1>4, LoopInv
<1>5. CASE SlowEof \/ FinishRead
  BY <1>5, EndInv
<1>6. CASE Again
  BY <1>6, AgainInv
<1>7. CASE UNCHANGED vars
  <2>1. /\ src' = src /\ stream' = stream /\ way' = way /\ buf' = buf /\ dec' = dec
        /\ pc' = pc /\ result' = result
    BY <1>7 DEF vars
  <2>2. Kept'
    BY <2>1 DEF Inv, Kept, IsDec
  <2>3. InTransit' /\ AtHeader'
    BY <2>1 DEF Inv, InTransit, AtHeader, Serializable, V2Stream, DeflateStream, InnerOf, Refused,
                HeaderError, Readable, PayloadShort
  <2>4. AtLoop' /\ AtDone'
    BY <2>1 DEF Inv, AtLoop, AtDone, Reading, Tallied, Consistent
  <2> QED BY <2>2, <2>3, <2>4 DEF Inv
<1> QED BY <1>1, <1>2, <1>3, <1>4, <1>5, <1>6, <1>7, Zenon DEF Next

\* The invariant always holds.
LEMMA AlwaysInv == Spec => []Inv
  BY InitInv, NextInv, PTL DEF Spec

-----------------------------------------------------------------------------
(***************************************************************************)
(* The theorems                                                            *)
(***************************************************************************)
\* Deserializer::deser_v2 never reads past the payload, and payload_buf only ever
\* holds bytes.
THEOREM TypeCorrect == Spec => []TypeOK
<1>1. Inv => TypeOK
  BY DEF Inv, Kept, TypeOK, Byte
<1> QED BY <1>1, AlwaysInv, PTL

\* A stream that was cut off and lost data, compressed or not and at whatever cell,
\* is never read as a histogram.
THEOREM CutOffCorrect == Spec => []CutOffRejected
<1>1. Inv => CutOffRejected
  BY DEF Inv, AtDone, CutOffRejected
<1> QED BY <1>1, AlwaysInv, PTL

\* A histogram that deser_v2 accepts, whatever its header says, has the total, the
\* maximum and the minimum of its counts.
THEOREM AcceptedCorrect == Spec => []AcceptedConsistent
<1>1. ASSUME NEW g, Consistent(g)
      PROVE  /\ g.total = Min({SumCounts(g, NonZero(g)), MaxWord})
             /\ NonZero(g) # {} => IndexFor(g.lay, g.max) = Max(NonZero(g))
             /\ NonZero(g) \ {0} # {} => IndexFor(g.lay, g.min) = Min(NonZero(g) \ {0})
  BY <1>1, Zenon DEF Consistent
<1>2. Inv => AcceptedConsistent
  BY <1>1, Zenon DEF Inv, AtDone, AcceptedConsistent
<1> QED BY <1>2, AlwaysInv, PTL

\* The buffer that V2Serializer::serialize allocates is never too short.
THEOREM BufferCorrect == Spec => []BufferSuffices
<1>1. Inv => BufferSuffices
  <2> SUFFICES ASSUME Inv, Serializable(src) PROVE Len(encode_counts(src)) <= max_encoded_size(src)
    BY DEF BufferSuffices
  <2>1. src \in Written
    BY DEF Inv, Kept
  <2> QED BY <2>1, SerializableIsWritable, EncodedSize
<1> QED BY <1>1, AlwaysInv, PTL

-----------------------------------------------------------------------------
(***************************************************************************)
(* A stream that arrives as it was written                                 *)
(***************************************************************************)
\* deser_v2 is at the start of a number of the stream of g, and has stored the
\* counts of the slots before it.
Copying(g, d, b) ==
    /\ Serializable(g) /\ d.len = Len(encode_counts(g))
    /\ \A k \in 1..d.len : b[k] = encode_counts(g)[k]
    /\ d.h.low = g.low /\ d.h.high = g.high /\ d.h.sigfig = g.sigfig
    /\ d.dest \in 0..Slots(g) /\ (d.dest = Slots(g) \/ RunStart(g, d.dest))
    /\ d.pos = Len(Encoded(g)[d.dest])
    /\ \A i \in DOMAIN d.h.counts : d.h.counts[i] = IF i < d.dest THEN g.counts[i] ELSE 0

\* The bytes of the next number are in the payload.
LEMMA NextBytes ==
    ASSUME NEW g \in Written, NEW d, NEW b, Copying(g, d, b), d.dest # Slots(g)
    PROVE  LET i == d.dest
               w == varint_write(Number(g, i))
               n == Size(Number(g, i))
           IN  /\ i \in 0..IndexLimit(g) /\ RunStart(g, i) /\ n \in 1..MaxBytes /\ Len(w) = n
               /\ d.pos \in Nat /\ d.len \in Nat
               /\ Number(g, i) \in Words /\ d.pos + n <= d.len
               /\ Len(Encoded(g)[i + 1]) = d.pos + n
               /\ \A k \in 1..n : b[d.pos + k] = w[k]
<1> DEFINE i == d.dest
           w == varint_write(Number(g, i))
           n == Size(Number(g, i))
           E == Encoded(g)
           c == encode_counts(g)
           top == Slots(g)
<1>1. Writable(g)
  BY SerializableIsWritable DEF Copying
<1>2. /\ top \in Nat \ {0} /\ E \in [0..top -> Seq(Byte)] /\ c = E[top] /\ top = IndexLimit(g) + 1
      /\ IndexLimit(g) \in Nat
  BY <1>1, EncodedFacts DEF Slots, Writable
<1>3. i \in 0..top /\ (i = top \/ RunStart(g, i)) /\ i # top /\ d.pos = Len(E[i])
      /\ d.len = Len(c) /\ \A k \in 1..d.len : b[k] = c[k]
  BY Zenon DEF Copying
<1> HIDE DEF E, c, top
<1>4. i \in 0..IndexLimit(g) /\ RunStart(g, i) /\ i + 1 \in 0..top /\ top \in (i + 1)..top /\ top \in 0..top
  BY <1>2, <1>3
<1>5. NumberBytes(g, i) = w
  BY <1>4 DEF NumberBytes
<1>6. w \in Seq(Byte) /\ Len(w) = n /\ n \in 1..MaxBytes /\ Number(g, i) \in Words
  <2>1. /\ NumberBytes(g, i) \in Seq(Byte) /\ Size(Number(g, i)) \in 1..MaxBytes
        /\ Len(NumberBytes(g, i)) = IF RunStart(g, i) THEN Size(Number(g, i)) ELSE 0
    BY <1>1, <1>4, NumberBytesFacts
  <2>2. Number(g, i) \in Words
    BY <1>1, <1>4, NumberFacts
  <2> QED BY <1>4, <1>5, <2>1, <2>2
<1>7. /\ E[i] \in Seq(Byte) /\ E[i + 1] \in Seq(Byte) /\ Len(E[i + 1]) = Len(E[i]) + Len(w)
      /\ \A k \in 1..Len(w) : E[i + 1][Len(E[i]) + k] = w[k]
  <2> DEFINE z == NumberBytes(g, i)
  <2>1. /\ Encoded(g)[i] \in Seq(Byte) /\ Encoded(g)[i + 1] \in Seq(Byte)
        /\ Len(Encoded(g)[i + 1]) = Len(Encoded(g)[i]) + Len(z)
        /\ \A k \in 1..Len(z) : Encoded(g)[i + 1][Len(Encoded(g)[i]) + k] = z[k]
    <3> HIDE DEF i
    <3> QED BY <1>1, <1>4, EncodedStep
  <2> HIDE DEF z
  <2>2. z = w
    BY <1>5 DEF z
  <2> HIDE DEF w
  <2> QED BY <2>1, <2>2, Zenon DEF E
<1>8. /\ Len(E[i + 1]) <= Len(E[top])
      /\ \A k \in 1..Len(E[i + 1]) : E[top][k] = E[i + 1][k]
  <2> DEFINE j == i + 1
  <2>1. j \in 0..Slots(g) /\ Slots(g) \in j..Slots(g)
    BY <1>4 DEF top
  <2> HIDE DEF j
  <2>2. /\ Len(E[j]) <= Len(E[top])
        /\ \A k \in 1..Len(E[j]) : E[top][k] = E[j][k]
    BY <1>1, <2>1, EncodedPrefix DEF E, top
  <2> QED BY <2>2 DEF j
<1>9. c \in Seq(Byte)
  BY <1>2, <1>4
<1> DEFINE p == d.pos
           m == d.len
           a == E[i]
           e == E[i + 1]
<1>10. p = Len(a) /\ a \in Seq(Byte) /\ e \in Seq(Byte) /\ c \in Seq(Byte) /\ Len(e) = Len(a) + n
       /\ Len(e) <= Len(c) /\ m = Len(c)
  BY <1>2, <1>3, <1>6, <1>7, <1>8, <1>9
<1>11. p \in Nat /\ m \in Nat /\ Len(e) = p + n /\ p + n <= m
  <2> HIDE DEF a, e, p, m, n, i
  <2> QED BY <1>6, <1>10
<1>12. MaxBytes \in Nat
  BY V2Constants
<1>13. ASSUME NEW k \in 1..n PROVE b[p + k] = w[k]
  <2>1. k \in 1..Len(w) /\ p + k \in 1..Len(e) /\ p + k \in 1..m /\ p + k = Len(a) + k
    <3> HIDE DEF a, e, p, m, n, i, w
    <3> QED BY <1>6, <1>10, <1>11, <1>12
  <2>2. b[p + k] = c[p + k]
    BY <1>3, <2>1
  <2>3. c[p + k] = e[p + k]
    BY <1>2, <1>8, <2>1
  <2>4. e[Len(a) + k] = w[k]
    BY <1>7, <2>1
  <2>5. e[p + k] = w[k]
    BY <2>1, <2>4, Zenon
  <2> QED BY <2>2, <2>3, <2>5, Zenon
<1> QED BY <1>4, <1>6, <1>11, <1>13, Zenon DEF E

\* A step of either loop reads the number that encode_counts wrote there.
LEMMA NextNumber ==
    ASSUME NEW g \in Written, NEW d, NEW b, Copying(g, d, b), d.dest # Slots(g),
           NEW v, Len(v) \in Nat, Len(v) = d.len - d.pos \/ Len(v) = MaxBytes,
           \A k \in 1..Len(v) : v[k] = b[d.pos + k]
    PROVE  /\ VarintLen(v) = Size(Number(g, d.dest)) /\ VarintLen(v) <= Len(v)
           /\ zig_zag_decode(varint_read_slice(v)) = CountOrZeros(g, d.dest)
<1> DEFINE i == d.dest
           u == Number(g, i)
           w == varint_write(u)
           n == Size(u)
           p == d.pos
           m == d.len
<1>1. /\ i \in 0..IndexLimit(g) /\ n \in 1..MaxBytes /\ p \in Nat /\ m \in Nat
      /\ u \in Words /\ p + n <= m
      /\ \A k \in 1..n : b[p + k] = w[k]
  BY NextBytes
<1>2. MaxBytes \in Nat
  BY V2Constants
<1>3. Len(v) \in Nat /\ (Len(v) = m - p \/ Len(v) = MaxBytes) /\ \A k \in 1..Len(v) : v[k] = b[p + k]
  BY Zenon
<1>4. zig_zag_decode(u) = CountOrZeros(g, i)
  BY <1>1, SerializableIsWritable, NumberFacts DEF Copying
<1> HIDE DEF i, u, w, n, p, m
<1>5. n <= Len(v)
  BY <1>1, <1>2, <1>3
<1>6. \A k \in 1..n : v[k] = varint_write(u)[k]
  <2> TAKE k \in 1..n
  <2>1. k \in 1..Len(v)
    BY <1>1, <1>2, <1>3, <1>5
  <2>2. v[k] = b[p + k] /\ b[p + k] = w[k]
    BY <1>1, <1>3, <2>1, Zenon
  <2> QED BY <2>2 DEF w
<1>7. VarintLen(v) = Size(u) /\ varint_read_slice(v) = u
  <2>1. Size(u) <= Len(v) /\ \A k \in 1..Size(u) : v[k] = varint_write(u)[k]
    BY <1>5, <1>6 DEF n
  <2> QED BY <1>1, <1>3, <2>1, ReadBack
<1> QED BY <1>4, <1>5, <1>7, Zenon DEF i, u, n

\* The histogram read into has the slots of the one that was written.
LEMMA SameSlots ==
    ASSUME NEW g \in Written, NEW h, FreshHist(h),
           h.low = g.low, h.high = g.high, h.sigfig = g.sigfig
    PROVE  /\ h.lay = g.lay /\ SlotCount(h) = SlotCount(g)
           /\ h.counts \in [0..(SlotCount(g) - 1) -> Nat]
           /\ g.counts \in [0..(SlotCount(g) - 1) -> Nat]
           /\ SlotCount(g) \in Nat \ {0} /\ IndexLimit(g) \in 0..(SlotCount(g) - 1)
<1>1. g.lay = LayoutOf(g.low, g.sigfig) /\ h.lay = LayoutOf(h.low, h.sigfig)
  BY SourceFacts DEF FreshHist
<1>2. h.lay = g.lay
  BY <1>1, Zenon
<1>3. SlotCount(h) = SlotCount(g)
  BY <1>2, Zenon DEF SlotCount
<1>4. h.counts \in [0..(SlotCount(h) - 1) -> Nat]
  BY Zenon DEF FreshHist
<1> QED BY <1>2, <1>3, <1>4, SourceFacts, LimitFacts, Zenon

\* A run of zeros: the slots that are passed over have a count of zero.
LEMMA CopyZeros ==
    ASSUME NEW g \in Written, NEW d, NEW b, Reading(d), Copying(g, d, b), d.dest # Slots(g),
           g.counts[d.dest] = 0, NEW e, e.len = d.len, e.h = d.h,
           e.pos = d.pos + Size(Number(g, d.dest)), e.dest = d.dest + RunLength(g, d.dest)
    PROVE  Copying(g, e, b)
<1> DEFINE i == d.dest
           n == RunLength(g, i)
           j == i + n
           E == Encoded(g)
           top == Slots(g)
<1>1. Writable(g) /\ Serializable(g)
  BY SerializableIsWritable DEF Copying
<1>2. i \in 0..IndexLimit(g) /\ Len(E[i + 1]) = e.pos
  BY NextBytes
<1>3. /\ n \in 1..top /\ j <= top /\ (j = top \/ g.counts[j] # 0)
      /\ \A m \in 1..(n - 1) : g.counts[i + m] = 0
  BY <1>1, <1>2, RunLengthFacts
<1>4. top = IndexLimit(g) + 1 /\ IndexLimit(g) \in Nat /\ g.counts[i] = 0 /\ e.dest = j
  BY <1>1 DEF Slots, Writable
<1> HIDE DEF n, i, top
<1>5. j \in 0..top /\ i \in Nat /\ n \in Nat /\ i + 1 \in 0..top /\ j \in (i + 1)..top
  BY <1>2, <1>3, <1>4
<1>6. \A m \in i..(j - 1) : g.counts[m] = 0
  <2> TAKE m \in i..(j - 1)
  <2>1. CASE m = i
    BY <1>4, <2>1
  <2>2. CASE m # i
    <3>1. m - i \in 1..(n - 1) /\ i + (m - i) = m
      BY <1>5, <2>2
    <3>2. g.counts[i + (m - i)] = 0
      BY <1>3, <3>1
    <3> QED BY <3>1, <3>2
  <2> QED BY <2>1, <2>2
<1>7. \A m \in (i + 1)..(j - 1) : ~RunStart(g, m)
  <2> TAKE m \in (i + 1)..(j - 1)
  <2>1. m \in i..(j - 1) /\ m - 1 \in i..(j - 1) /\ m # 0
    BY <1>5
  <2>2. g.counts[m] = 0 /\ g.counts[m - 1] = 0
    BY <1>6, <2>1
  <2> QED BY <2>1, <2>2 DEF RunStart
<1>8. E[j] = E[i + 1]
  <2> DEFINE a == i + 1
  <2>1. a \in 0..Slots(g) /\ j \in a..Slots(g) /\ \A m \in a..(j - 1) : ~RunStart(g, m)
    BY <1>5, <1>7 DEF top
  <2> HIDE DEF a, j
  <2>2. Encoded(g)[j] = Encoded(g)[a]
    BY <1>1, <2>1, EncodedSkip
  <2> QED BY <2>2 DEF a
<1>9. j = top \/ RunStart(g, j)
  BY <1>3, <1>4, <1>5 DEF RunStart
<1>10. \A k \in DOMAIN e.h.counts : e.h.counts[k] = IF k < e.dest THEN g.counts[k] ELSE 0
  <2>1. /\ d.h.counts \in [0..(SlotCount(g) - 1) -> Nat] /\ SlotCount(g) \in Nat \ {0}
    BY SameSlots DEF Reading, Copying
  <2>2. \A k \in DOMAIN d.h.counts : d.h.counts[k] = IF k < i THEN g.counts[k] ELSE 0
    BY DEF Copying, i
  <2>3. e.h = d.h /\ DOMAIN d.h.counts = 0..(SlotCount(g) - 1)
    BY <2>1
  <2> SUFFICES ASSUME NEW k \in 0..(SlotCount(g) - 1)
               PROVE  d.h.counts[k] = IF k < j THEN g.counts[k] ELSE 0
    BY <1>4, <2>3, Zenon
  <2>4. d.h.counts[k] = IF k < i THEN g.counts[k] ELSE 0
    BY <2>2, <2>3, Zenon
  <2>5. k \in Int
    BY <2>1
  <2>6. CASE k < i
    <3>1. k < j
      BY <1>5, <2>5, <2>6
    <3> QED BY <2>4, <2>6, <3>1, Zenon
  <2>7. CASE ~(k < i) /\ k < j
    <3>1. k \in i..(j - 1)
      BY <1>5, <2>5, <2>7
    <3>2. g.counts[k] = 0
      BY <1>6, <3>1
    <3> QED BY <2>4, <2>7, <3>2, Zenon
  <2>8. CASE ~(k < i) /\ ~(k < j)
    BY <2>4, <2>8, Zenon
  <2> QED BY <2>6, <2>7, <2>8
<1>11. /\ e.len = Len(encode_counts(g)) /\ \A k \in 1..e.len : b[k] = encode_counts(g)[k]
       /\ e.h.low = g.low /\ e.h.high = g.high /\ e.h.sigfig = g.sigfig
  BY Zenon DEF Copying
<1>12. e.pos = Len(E[e.dest])
  BY <1>2, <1>4, <1>8, Zenon
<1>13. e.dest \in 0..Slots(g) /\ (e.dest = Slots(g) \/ RunStart(g, e.dest))
  BY <1>4, <1>5, <1>9, Zenon DEF top
<1> QED BY <1>1, <1>10, <1>11, <1>12, <1>13, Zenon DEF Copying

\* A count.
LEMMA CopyCount ==
    ASSUME NEW g \in Written, NEW d, NEW b, Reading(d), Copying(g, d, b), d.dest # Slots(g),
           g.counts[d.dest] # 0, NEW e, e.len = d.len,
           e.h = Stored(d.h, d.dest, g.counts[d.dest]),
           e.h.low = d.h.low, e.h.high = d.h.high, e.h.sigfig = d.h.sigfig,
           e.pos = d.pos + Size(Number(g, d.dest)), e.dest = d.dest + 1
    PROVE  Copying(g, e, b)
<1> DEFINE i == d.dest
           j == i + 1
           E == Encoded(g)
           top == Slots(g)
<1>1. Writable(g) /\ Serializable(g)
  BY SerializableIsWritable DEF Copying
<1>2. i \in 0..IndexLimit(g) /\ Len(E[j]) = e.pos
  BY NextBytes
<1>3. top = IndexLimit(g) + 1 /\ IndexLimit(g) \in Nat /\ g.counts[i] # 0 /\ e.dest = j
  BY <1>1 DEF Slots, Writable
<1> HIDE DEF i, top
<1>4. j \in 0..top /\ i \in Nat /\ (j = top \/ RunStart(g, j))
  <2>1. j \in 0..top /\ i \in Nat /\ (j = top \/ j <= IndexLimit(g)) /\ j - 1 = i
    BY <1>2, <1>3
  <2> QED BY <1>3, <2>1 DEF RunStart
<1>5. /\ d.h.counts \in [0..(SlotCount(g) - 1) -> Nat] /\ SlotCount(g) \in Nat \ {0}
  BY SameSlots DEF Reading, Copying
<1>6. e.h.counts = [d.h.counts EXCEPT ![i] = g.counts[i]]
  <2> DEFINE h == d.h
             x == [h.counts EXCEPT ![i] = g.counts[i]]
  <2>1. h = [low |-> h.low, high |-> h.high, sigfig |-> h.sigfig, auto |-> h.auto,
             lay |-> h.lay, buckets |-> h.buckets,
             max |-> ORIGINAL_MAX, min |-> ORIGINAL_MIN, total |-> 0, counts |-> h.counts]
    BY Zenon DEF Reading, FreshHist
  <2>2. e.h = [h EXCEPT !.counts = x]
    BY DEF i, Stored
  <2> DEFINE f == e.h
  <2>3. f = [h EXCEPT !.counts = x]
    BY <2>2
  <2> HIDE DEF h, x, f
  <2>4. f.counts = x
    BY <2>1, <2>3
  <2> QED BY <2>4, Zenon DEF f, x, h
<1>7. \A k \in DOMAIN e.h.counts : e.h.counts[k] = IF k < e.dest THEN g.counts[k] ELSE 0
  <2> DEFINE c == d.h.counts
             y == g.counts[i]
  <2>1. \A k \in DOMAIN c : c[k] = IF k < i THEN g.counts[k] ELSE 0
    BY DEF Copying, i
  <2>2. e.h.counts = [c EXCEPT ![i] = y] /\ c \in [0..(SlotCount(g) - 1) -> Nat]
    BY <1>5, <1>6
  <2> HIDE DEF c, y
  <2>3. DOMAIN e.h.counts = 0..(SlotCount(g) - 1) /\ DOMAIN c = 0..(SlotCount(g) - 1)
    BY <2>2
  <2> SUFFICES ASSUME NEW k \in 0..(SlotCount(g) - 1)
               PROVE  e.h.counts[k] = IF k < j THEN g.counts[k] ELSE 0
    BY <1>3, <2>3, Zenon
  <2>4. c[k] = IF k < i THEN g.counts[k] ELSE 0
    BY <2>1, <2>3, Zenon
  <2>5. k \in Int
    BY <1>5
  <2>6. CASE k = i
    <3>1. e.h.counts[k] = y
      BY <2>2, <2>6
    <3>2. k < j
      BY <1>4, <2>6
    <3> QED BY <2>6, <3>1, <3>2, Zenon DEF y
  <2>7. CASE k # i
    <3>1. e.h.counts[k] = c[k]
      BY <2>2, <2>7
    <3>2. (k < i) <=> (k < j)
      BY <1>4, <2>5, <2>7
    <3> QED BY <2>4, <3>1, <3>2, Zenon
  <2> QED BY <2>6, <2>7
<1>8. /\ e.len = Len(encode_counts(g)) /\ \A k \in 1..e.len : b[k] = encode_counts(g)[k]
      /\ e.h.low = g.low /\ e.h.high = g.high /\ e.h.sigfig = g.sigfig
  BY Zenon DEF Copying
<1>9. e.pos = Len(E[e.dest])
  BY <1>2, <1>3, Zenon
<1>10. e.dest \in 0..Slots(g) /\ (e.dest = Slots(g) \/ RunStart(g, e.dest))
  BY <1>3, <1>4, Zenon DEF top
<1> QED BY <1>1, <1>7, <1>8, <1>9, <1>10, Zenon DEF Copying

\* on_decoded_num with the next number of the stream.
NextDec(g, d) == OnDecodedNum(d, CountOrZeros(g, d.dest))

\* The count is stored, the run of zeros is passed over, or the counter type is too
\* small for the count.
LEMMA CopyNumber ==
    ASSUME NEW g \in Written, NEW d, NEW b, IsDec(d), Reading(d), Copying(g, d, b),
           d.dest # Slots(g), NEW e, e.len = NextDec(g, d).d.len, e.h = NextDec(g, d).d.h,
           e.dest = NextDec(g, d).d.dest, e.pos = NextDec(g, d).d.pos + Size(Number(g, d.dest))
    PROVE  /\ NextDec(g, d).err = "none" => Copying(g, e, b)
           /\ NextDec(g, d).err # "none" => /\ NextDec(g, d).err = "UnsuitableCounterType"
                                            /\ \E i \in NonZero(g) : g.counts[i] > ReadMax
<1> DEFINE r == NextDec(g, d)
           i == d.dest
           n == CountOrZeros(g, i)
           x == g.counts[i]
<1>1. i \in 0..IndexLimit(g)
  BY NextBytes
<1>2. Writable(g)
  BY SerializableIsWritable DEF Copying
<1>3. /\ d.h.counts \in [0..(SlotCount(g) - 1) -> Nat] /\ g.counts \in [0..(SlotCount(g) - 1) -> Nat]
      /\ SlotCount(g) \in Nat \ {0} /\ IndexLimit(g) \in 0..(SlotCount(g) - 1)
  BY SameSlots DEF Reading, Copying
<1>4. i \in 0..(SlotCount(g) - 1) /\ x \in Nat
  BY <1>1, <1>3
<1>5. RunLength(g, i) \in Nat /\ RunLength(g, i) >= 1
  <2>1. RunLength(g, i) \in 1..Slots(g) /\ Slots(g) \in Nat
    BY <1>1, <1>2, RunLengthFacts, EncodedFacts
  <2> QED BY <2>1
<1>6. n = IF x = 0 /\ RunLength(g, i) > 1 THEN -RunLength(g, i) ELSE x
  BY Zenon DEF CountOrZeros
<1>7. /\ e.len = r.d.len /\ e.h = r.d.h /\ e.dest = r.d.dest
      /\ e.pos = r.d.pos + Size(Number(g, d.dest))
  BY Zenon
<1>8. ReadMax \in Nat \ {0}
  BY V2Constants, CounterType
<1> HIDE DEF n, x
<1>9. n \in Int
  BY <1>4, <1>5, <1>6
<1>10. /\ r.d.len = d.len /\ r.d.pos = d.pos
       /\ n < 0 => r.err = "none" /\ r.d.dest = d.dest - n /\ r.d.h = d.h
       /\ n > ReadMax => r.err = "UnsuitableCounterType"
       /\ n = 0 => r.err = "none" /\ r.d.dest = d.dest + 1 /\ r.d.h = d.h
       /\ n > 0 /\ n <= ReadMax /\ d.dest \in DOMAIN d.h.counts =>
            /\ r.err = "none" /\ r.d.dest = d.dest + 1
            /\ r.d.h = Stored(d.h, d.dest, n)
       /\ r.err = "none" => /\ r.d.h.low = d.h.low /\ r.d.h.high = d.h.high
                            /\ r.d.h.sigfig = d.h.sigfig
  BY <1>9, DecodedNum DEF NextDec, n
<1> HIDE DEF r
<1>11. CASE x = 0
  <2>1. r.err = "none" /\ r.d.dest = i + RunLength(g, i) /\ r.d.h = d.h
    <3>1. CASE RunLength(g, i) > 1
      <4>1. n = -RunLength(g, i) /\ n < 0
        BY <1>5, <1>6, <1>11, <3>1
      <4>2. i - n = i + RunLength(g, i)
        BY <1>4, <1>5, <4>1
      <4> QED BY <1>10, <4>1, <4>2
    <3>2. CASE ~(RunLength(g, i) > 1)
      <4>1. n = 0 /\ RunLength(g, i) = 1
        BY <1>5, <1>6, <1>11, <3>2
      <4> QED BY <1>10, <4>1
    <3> QED BY <3>1, <3>2
  <2>2. /\ e.len = d.len /\ e.h = d.h /\ e.dest = i + RunLength(g, i)
        /\ e.pos = d.pos + Size(Number(g, d.dest)) /\ g.counts[d.dest] = 0
    BY <1>7, <1>10, <1>11, <2>1, Zenon DEF x
  <2>3. Copying(g, e, b)
    BY <2>2, CopyZeros
  <2> QED BY <2>1, <2>3 DEF r
<1>12. CASE x # 0 /\ x > ReadMax
  <2>1. n = x
    BY <1>6, <1>12
  <2>2. r.err = "UnsuitableCounterType"
    BY <1>10, <1>12, <2>1
  <2>3. i \in NonZero(g) /\ g.counts[i] > ReadMax
    BY <1>3, <1>4, <1>12 DEF NonZero, x
  <2> QED BY <2>2, <2>3 DEF r
<1>13. CASE x # 0 /\ ~(x > ReadMax)
  <2>1. n = x
    BY <1>6, <1>13
  <2>2. n > 0 /\ n <= ReadMax /\ d.dest \in DOMAIN d.h.counts
    BY <1>3, <1>4, <1>8, <1>13, <2>1
  <2>3. /\ r.err = "none" /\ r.d.dest = d.dest + 1
        /\ r.d.h = Stored(d.h, d.dest, n)
        /\ r.d.h.low = d.h.low /\ r.d.h.high = d.h.high /\ r.d.h.sigfig = d.h.sigfig
    BY <1>10, <2>2, Zenon
  <2>4. n = g.counts[d.dest] /\ g.counts[d.dest] # 0
    BY <1>13, <2>1 DEF x
  <2>5. /\ e.len = d.len /\ e.dest = d.dest + 1 /\ e.pos = d.pos + Size(Number(g, d.dest))
        /\ e.h = Stored(d.h, d.dest, g.counts[d.dest])
        /\ e.h.low = d.h.low /\ e.h.high = d.h.high /\ e.h.sigfig = d.h.sigfig
    BY <1>7, <1>10, <2>3, <2>4, Zenon
  <2>6. Copying(g, e, b)
    BY <2>4, <2>5, CopyCount
  <2> QED BY <2>3, <2>6 DEF r
<1> QED BY <1>11, <1>12, <1>13 DEF r

\* At the end of the payload all slots have been copied.
LEMMA CopyEnd ==
    ASSUME NEW g \in Written, NEW d, NEW b, Reading(d), Copying(g, d, b), d.pos >= d.len
    PROVE  d.h.counts = g.counts
<1>1. d.dest = Slots(g)
  <2> SUFFICES ASSUME d.dest # Slots(g) PROVE FALSE
    OBVIOUS
  <2> DEFINE n == Size(Number(g, d.dest))
  <2>1. n \in 1..MaxBytes /\ d.pos \in Nat /\ d.len \in Nat /\ d.pos + n <= d.len
    BY NextBytes
  <2>2. MaxBytes \in Nat
    BY V2Constants
  <2> HIDE DEF n
  <2> QED BY <2>1, <2>2
<1>2. /\ d.h.counts \in [0..(SlotCount(g) - 1) -> Nat] /\ g.counts \in [0..(SlotCount(g) - 1) -> Nat]
      /\ SlotCount(g) \in Nat \ {0} /\ IndexLimit(g) \in 0..(SlotCount(g) - 1)
  BY SameSlots DEF Reading, Copying
<1>3. ASSUME NEW i \in 0..(SlotCount(g) - 1) PROVE d.h.counts[i] = g.counts[i]
  <2>1. d.h.counts[i] = IF i < Slots(g) THEN g.counts[i] ELSE 0
    BY <1>1, <1>2 DEF Copying
  <2>2. CASE i < Slots(g)
    BY <2>1, <2>2
  <2>3. CASE ~(i < Slots(g))
    <3>1. i > IndexLimit(g)
      BY <1>2, <2>3 DEF Slots
    <3>2. g.counts[i] = 0
      BY <3>1, LimitFacts
    <3> QED BY <2>1, <2>3, <3>2
  <2> QED BY <2>2, <2>3
<1> DEFINE x == d.h.counts
           y == g.counts
           S == 0..(SlotCount(g) - 1)
<1>4. x \in [S -> Nat] /\ y \in [S -> Nat] /\ \A i \in S : x[i] = y[i]
  BY <1>2, <1>3, Zenon
<1> HIDE DEF x, y, S
<1>5. x = y
  BY <1>4
<1> QED BY <1>5 DEF x, y

\* The start of the decode loop of a stream that arrived whole.
LEMMA CopyStart ==
    ASSUME NEW g \in Written, Serializable(g), NEW s, s = V2Stream(g), NEW b,
           \A k \in 1..s[2] : b[k] = s[HeaderCells + k],
           NEW d, d.len = s[2], d.pos = 0, d.dest = 0, d.h = NewWithBounds(s[5], s[6], s[4])
    PROVE  Copying(g, d, b)
<1> DEFINE c == encode_counts(g)
<1>1. /\ c \in Seq(Byte) /\ s[2] = Len(c) /\ s[4] = g.sigfig /\ s[5] = g.low /\ s[6] = g.high
      /\ \A k \in 1..Len(c) : s[HeaderCells + k] = c[k]
  BY StreamFacts
<1>2. Writable(g)
  BY SerializableIsWritable
<1>3. /\ g.low \in Nat /\ g.high \in Nat /\ g.sigfig \in Nat /\ CanCreate(g.low, g.high, g.sigfig)
  BY SourceFacts
<1> HIDE DEF c
<1>4. d.h = NewWithBounds(g.low, g.high, g.sigfig)
  BY <1>1, Zenon
<1>5. /\ d.h.low = g.low /\ d.h.high = g.high /\ d.h.sigfig = g.sigfig
      /\ \A i \in DOMAIN d.h.counts : d.h.counts[i] = 0
  <2> DEFINE h == NewWithBounds(g.low, g.high, g.sigfig)
  <2>1. /\ h.low = g.low /\ h.high = g.high /\ h.sigfig = g.sigfig
        /\ \A i \in DOMAIN h.counts : h.counts[i] = 0
    BY <1>3, NewIsFresh
  <2> HIDE DEF h
  <2>2. d.h = h
    BY <1>4 DEF h
  <2> QED BY <2>1, <2>2, Zenon
<1>6. DOMAIN d.h.counts \subseteq Nat
  <2>1. FreshHist(d.h)
    BY <1>3, <1>4, NewIsFresh
  <2>2. d.h.counts \in [0..(SlotCount(g) - 1) -> Nat] /\ SlotCount(g) \in Nat \ {0}
    BY <1>5, <2>1, SameSlots
  <2> QED BY <2>2
<1>7. \A i \in DOMAIN d.h.counts : d.h.counts[i] = IF i < d.dest THEN g.counts[i] ELSE 0
  <2> TAKE i \in DOMAIN d.h.counts
  <2>1. ~(i < d.dest)
    BY <1>6
  <2> QED BY <1>5, <2>1, Zenon
<1>8. 0 \in 0..Slots(g) /\ RunStart(g, 0) /\ Len(Encoded(g)[0]) = 0
  <2>1. Slots(g) \in Nat \ {0} /\ Encoded(g)[0] = <<>> /\ IndexLimit(g) \in Nat
    BY <1>2, EncodedFacts DEF Writable
  <2> QED BY <2>1 DEF RunStart
<1>9. d.len = Len(c) /\ \A k \in 1..d.len : b[k] = c[k]
  BY <1>1, Zenon
<1> QED BY <1>5, <1>7, <1>8, <1>9, Zenon DEF Copying, c

\* What a stream that arrives as it was written ends with.
SameCounts(f, g) == f.counts = g.counts /\ f.lay = g.lay /\ f.low = g.low /\ f.sigfig = g.sigfig

Answer(r, g) ==
    \/ r.err = "none" /\ SameCounts(r.h, g)
    \/ r.err = "CountNotSerializable" /\ \E i \in NonZero(g) : g.counts[i] > SignedMax
    \/ r.err = "UnsuitableCounterType" /\ \E i \in NonZero(g) : g.counts[i] > ReadMax

Whole ==
    way \in {"whole", "unsealed"} => /\ pc = "loop" => Copying(src, dec, buf)
                                     /\ pc = "done" => Answer(result, src)

\* CountNotSerializable: there is a count that an i64 cannot hold.
LEMMA SerializeWhole ==
    ASSUME Inv, NEW f \in Formats, Serialize(f)
    PROVE  Whole'
<1>1. src \in Written /\ src' = src
  BY DEF Inv, Kept, Serialize
<1>2. CASE pc' = "transit"
  BY <1>2 DEF Whole
<1>3. CASE ~Serializable(src) /\ pc' = "done" /\ result' = Fail("CountNotSerializable", src)
  <2>1. PICK i \in DOMAIN src.counts : RunStart(src, i) /\ ~(src.counts[i] <= SignedMax)
    BY <1>3 DEF Serializable
  <2>2. src.counts[i] \in Nat
    BY <1>1, SourceFacts
  <2>3. SignedMax \in Nat
    <3>1. MaxBytes \in Nat
      BY V2Constants
    <3>2. Scale(MaxBytes) \in Nat \ {0} /\ SignedMax = Scale(MaxBytes) - 1
      BY <3>1, ScaleFacts
    <3> QED BY <3>2
  <2>4. i \in NonZero(src) /\ src.counts[i] > SignedMax
    BY <2>1, <2>2, <2>3 DEF NonZero
  <2>5. result'.err = "CountNotSerializable"
    BY <1>3 DEF Fail
  <2>6. Answer(result', src')
    BY <1>1, <2>4, <2>5, Zenon DEF Answer
  <2> QED BY <1>3, <2>6 DEF Whole
<1> QED BY <1>2, <1>3 DEF Serialize

\* The header is accepted, and the payload is what encode_counts wrote, whatever the
\* buffer held before.
LEMMA ReadHeaderWhole ==
    ASSUME Inv, ReadHeader
    PROVE  Whole'
<1> SUFFICES ASSUME way' \in {"whole", "unsealed"} PROVE Whole'
  BY DEF Whole
<1> DEFINE s == V2Stream(src)
           len == s[2]
           payload == SubSeq(s, HeaderCells + 1, Min({HeaderCells + len, Len(s)}))
           f == Filled(buf, len, payload)
           c == encode_counts(src)
<1>1. /\ way \in {"whole", "unsealed"} /\ pc = "header" /\ src' = src
  BY DEF ReadHeader
<1>2. src \in Written /\ buf \in Seq(Byte) /\ Serializable(src) /\ InnerOf(stream) = s
  BY <1>1 DEF Inv, Kept, AtHeader
<1>3. Inner = s
  <2>1. Inner = InnerOf(stream)
    BY Zenon DEF Inner, InnerOf
  <2> QED BY <1>2, <2>1, Zenon
<1>4. /\ c \in Seq(Byte) /\ Readable(s) /\ Len(s) = 7 + Len(c)
      /\ s[1] = V2_COOKIE /\ s[2] = Len(c) /\ s[3] = 0 /\ s[4] = src.sigfig
      /\ s[5] = src.low /\ s[6] = src.high /\ s[7] = "1.0"
  BY <1>2, StreamFacts DEF HeaderCells
<1>5. Len(c) \in Nat
  BY <1>4
<1>6. CanCreate(s[5], s[6], s[4])
  BY <1>2, <1>4, SourceFacts, Zenon
<1>7. /\ \/ HeaderError(s) # "none"
         \/ PayloadShort(s)
         \/ /\ HeaderError(s) = "none" /\ ~PayloadShort(s)
            /\ buf' = f
            /\ dec' = [Idle EXCEPT !.len = Len(PayloadSlice(f, len)),
                                   !.h = NewWithBounds(s[5], s[6], s[4])]
            /\ pc' = "loop"
  BY <1>3, Zenon DEF ReadHeader
<1> HIDE DEF s, c
<1>8. HeaderError(s) = "none"
  <2>1. ~(Len(s) < 3) /\ ~(Len(s) < 7)
    BY <1>4, <1>5
  <2>2. s # <<>>
    <3>1. Len(<<>>) = 0
      OBVIOUS
    <3> QED BY <1>4, <1>5, <3>1
  <2> QED BY <1>4, <1>6, <2>1, <2>2 DEF HeaderError, HeaderCells
<1>9. ~PayloadShort(s)
  BY <1>4, <1>5 DEF PayloadShort, HeaderCells
<1>10. /\ f \in Seq(Byte) /\ len <= Len(f) /\ \A k \in 1..len : f[k] = s[HeaderCells + k]
  BY <1>2, <1>4, <1>9, FilledFacts
<1> HIDE DEF f
<1>11. /\ buf' = f /\ pc' = "loop"
       /\ dec' = [Idle EXCEPT !.len = Len(PayloadSlice(f, len)),
                              !.h = NewWithBounds(s[5], s[6], s[4])]
  BY <1>7, <1>8, <1>9
<1> DEFINE d == dec'
<1>12. d.len = len /\ d.pos = 0 /\ d.dest = 0 /\ d.h = NewWithBounds(s[5], s[6], s[4])
  <2>1. Readable(s) /\ f \in Seq(Byte) /\ s[2] <= Len(f)
    BY <1>4, <1>10, Zenon
  <2>2. d = [Idle EXCEPT !.len = Len(PayloadSlice(f, s[2])),
                         !.h = NewWithBounds(s[5], s[6], s[4])]
    BY <1>11, Zenon
  <2> HIDE DEF d
  <2>3. d.len = s[2] /\ d.pos = 0 /\ d.dest = 0 /\ d.h = NewWithBounds(s[5], s[6], s[4])
    BY <1>6, <2>1, <2>2, HeaderRead
  <2> QED BY <2>3
<1>13. s = V2Stream(src)
  BY DEF s
<1>14. Copying(src, d, f)
  <2> HIDE DEF d
  <2> QED BY <1>2, <1>10, <1>12, <1>13, CopyStart
<1>15. Copying(src', dec', buf')
  BY <1>1, <1>11, <1>14, Zenon
<1> QED BY <1>11, <1>15 DEF Whole

\* A step of either loop copies a number.
LEMMA LoopWhole ==
    ASSUME Inv, Whole, FastRead \/ SlowRead
    PROVE  Whole'
<1> SUFFICES ASSUME way' \in {"whole", "unsealed"} PROVE Whole'
  BY DEF Whole
<1>1. pc = "loop" /\ dec.pos < dec.len /\ \E b : Slice(b) /\ Decode(b)
  <2>1. Fast => dec.pos < dec.len
    BY V2Constants DEF Fast, Inv, Kept
  <2> QED BY <2>1, Zenon DEF FastRead, SlowRead, Slice
<1>2. PICK b : Slice(b) /\ Decode(b)
  BY <1>1
<1>3. Kept /\ Reading(dec) /\ dec.len <= Len(buf) /\ way \in {"whole", "unsealed"} /\ Copying(src, dec, buf)
  BY <1>1, <1>2 DEF Inv, AtLoop, Whole, Decode
<1>4. /\ Len(b) \in Nat /\ \A k \in 1..Len(b) : b[k] = buf[dec.pos + k]
      /\ Len(b) = dec.len - dec.pos \/ Len(b) = MaxBytes
  BY <1>2, <1>3, SliceFacts
<1>5. src \in Written /\ IsDec(dec) /\ dec.pos \in Nat /\ dec.len \in Nat
  BY <1>3 DEF Kept
<1>6. dec.dest # Slots(src)
  <2>1. dec.dest = Slots(src) => dec.pos = dec.len
    <3>1. encode_counts(src) = Encoded(src)[Slots(src)]
      BY <1>3, <1>5, SerializableIsWritable, EncodedFacts DEF Copying
    <3> QED BY <1>3, <3>1, Zenon DEF Copying
  <2> QED BY <1>1, <1>5, <2>1
<1> DEFINE n == zig_zag_decode(varint_read_slice(b))
           m == VarintLen(b)
           r == NextDec(src, dec)
           e == dec'
<1>7. m = Size(Number(src, dec.dest)) /\ n = CountOrZeros(src, dec.dest)
  <2> DEFINE g == src
             d == dec
             z == buf
  <2>1. /\ g \in Written /\ Copying(g, d, z) /\ d.dest # Slots(g) /\ Len(b) \in Nat
        /\ Len(b) = d.len - d.pos \/ Len(b) = MaxBytes
        /\ \A k \in 1..Len(b) : b[k] = z[d.pos + k]
    BY <1>3, <1>4, <1>5, <1>6
  <2> HIDE DEF g, d, z
  <2>2. VarintLen(b) = Size(Number(g, d.dest))
        /\ zig_zag_decode(varint_read_slice(b)) = CountOrZeros(g, d.dest)
    BY <2>1, NextNumber
  <2> QED BY <2>2 DEF g, d
<1>8. /\ dec' = [r.d EXCEPT !.pos = @ + m]
      /\ \/ r.err = "none" /\ pc' = pc
         \/ r.err # "none" /\ result' = Fail(r.err, src) /\ pc' = "done"
      /\ src' = src /\ buf' = buf
  BY <1>2, <1>7, Zenon DEF Decode, NextDec
<1>9. IsDec(r.d)
  <2>1. n \in Int
    <3>1. src.counts \in [0..(SlotCount(src) - 1) -> Nat]
      BY <1>5, SourceFacts
    <3>2. Number(src, dec.dest) \in Words
      BY <1>3, <1>5, <1>6, NextBytes
    <3>3. m <= Len(b) /\ \A k \in 1..Len(b) : b[k] \in Byte
      BY <1>2, <1>3, SliceFacts
    <3>4. m \in Nat
      BY VarintLenFacts, V2Constants
    <3>5. Byte \subseteq Nat
      BY ScaleFacts DEF Byte
    <3>6. \A k \in 1..m : b[k] \in Nat
      <4> HIDE DEF m
      <4> TAKE k \in 1..m
      <4>1. k \in 1..Len(b)
        BY <1>4, <3>3, <3>4
      <4> QED BY <3>3, <3>5, <4>1, Zenon
    <3> QED BY <3>6, ReadType, ZigZagType
  <2>2. CountOrZeros(src, dec.dest) \in Int
    BY <1>7, <2>1, Zenon
  <2>3. IsDec(OnDecodedNum(dec, CountOrZeros(src, dec.dest)).d)
    BY <1>3, <1>5, <2>2, DecodedNum
  <2> QED BY <2>3, Zenon DEF NextDec
<1> HIDE DEF n, m, r
<1>10. e.len = r.d.len /\ e.h = r.d.h /\ e.dest = r.d.dest /\ e.pos = r.d.pos + m
  <2> DEFINE q == r.d
  <2>1. /\ q = [len |-> q.len, pos |-> q.pos, dest |-> q.dest, h |-> q.h,
                maxi |-> q.maxi, mini |-> q.mini, total |-> q.total]
        /\ e = [q EXCEPT !.pos = @ + m]
    BY <1>8, <1>9, Zenon DEF IsDec
  <2> HIDE DEF q, e
  <2>2. e.len = q.len /\ e.h = q.h /\ e.dest = q.dest /\ e.pos = q.pos + m
    BY <2>1
  <2> QED BY <2>2 DEF q
<1>11. /\ r.err = "none" => Copying(src, e, buf)
       /\ r.err # "none" => /\ r.err = "UnsuitableCounterType"
                            /\ \E i \in NonZero(src) : src.counts[i] > ReadMax
  <2>1. /\ e.len = NextDec(src, dec).d.len /\ e.h = NextDec(src, dec).d.h
        /\ e.dest = NextDec(src, dec).d.dest
        /\ e.pos = NextDec(src, dec).d.pos + Size(Number(src, dec.dest))
    BY <1>7, <1>10, Zenon DEF r
  <2> HIDE DEF e
  <2> QED BY <1>3, <1>5, <1>6, <2>1, CopyNumber DEF r
<1>12. CASE r.err = "none"
  <2>1. pc' = "loop" /\ Copying(src', dec', buf')
    BY <1>1, <1>8, <1>11, <1>12, Zenon
  <2> QED BY <2>1 DEF Whole
<1>13. CASE r.err # "none"
  <2>1. pc' = "done" /\ result'.err = "UnsuitableCounterType"
    BY <1>8, <1>11, <1>13 DEF Fail
  <2>2. Answer(result', src')
    BY <1>8, <1>11, <1>13, <2>1, Zenon DEF Answer
  <2> QED BY <2>1, <2>2 DEF Whole
<1> QED BY <1>12, <1>13

\* The payload does not end within a varint; at its end all counts are copied.
LEMMA EndWhole ==
    ASSUME Inv, Whole, SlowEof \/ FinishRead
    PROVE  Whole'
<1> SUFFICES ASSUME way' \in {"whole", "unsealed"} PROVE Whole'
  BY DEF Whole
<1>1. pc = "loop" /\ pc' = "done" /\ src' = src /\ way \in {"whole", "unsealed"}
  BY DEF SlowEof, FinishRead
<1>2. Kept /\ Reading(dec) /\ dec.len <= Len(buf) /\ Copying(src, dec, buf)
  BY <1>1 DEF Inv, AtLoop, Whole
<1>3. src \in Written /\ IsDec(dec) /\ dec.pos \in Nat /\ dec.len \in Nat /\ buf \in Seq(Byte)
      /\ dec.pos \in 0..dec.len
  BY <1>2 DEF Kept
<1>4. CASE SlowEof
  <2>1. dec.pos < dec.len /\ ~VarintFits(Rest)
    BY <1>4 DEF SlowEof
  <2>2. dec.dest # Slots(src)
    <3>1. dec.dest = Slots(src) => dec.pos = dec.len
      <4>1. encode_counts(src) = Encoded(src)[Slots(src)]
        BY <1>2, <1>3, SerializableIsWritable, EncodedFacts DEF Copying
      <4> QED BY <1>2, <4>1, Zenon DEF Copying
    <3> QED BY <1>3, <2>1, <3>1
  <2> DEFINE t == Rest
             g == src
             d == dec
             z == buf
  <2>3. Len(t) = d.len - d.pos /\ \A k \in 1..Len(t) : t[k] = z[d.pos + k]
    BY <1>2, <1>3, RestFacts
  <2>4. /\ g \in Written /\ Copying(g, d, z) /\ d.dest # Slots(g) /\ Len(t) \in Nat
    BY <1>2, <1>3, <2>2, <2>3
  <2> HIDE DEF t, g, d, z
  <2>5. VarintLen(t) <= Len(t)
    BY <2>3, <2>4, NextNumber
  <2> QED BY <2>1, <2>5 DEF VarintFits, t
<1>5. CASE FinishRead
  <2>1. dec.pos >= dec.len /\ result' = Ok(Restated(dec))
    BY <1>5 DEF FinishRead
  <2>2. dec.h.counts = src.counts
    BY <1>2, <1>3, <2>1, CopyEnd
  <2>3. dec.h.lay = src.lay /\ dec.h.low = src.low /\ dec.h.sigfig = src.sigfig
    BY <1>2, <1>3, SameSlots DEF Reading, Copying
  <2> DEFINE f == Restated(dec)
  <2>4. f.counts = dec.h.counts /\ f.lay = dec.h.lay /\ f.low = dec.h.low /\ f.sigfig = dec.h.sigfig
    BY <1>2, RestatedFacts DEF Reading
  <2> HIDE DEF f
  <2>5. result'.err = "none" /\ result'.h = f
    BY <2>1 DEF Ok, f
  <2>6. SameCounts(result'.h, src')
    BY <1>1, <2>2, <2>3, <2>4, <2>5, Zenon DEF SameCounts
  <2>7. Answer(result', src')
    BY <2>5, <2>6, Zenon DEF Answer
  <2> QED BY <1>1, <2>7 DEF Whole
<1> QED BY <1>4, <1>5

\* Nothing has been read at the start.
LEMMA InitWhole == Init => Whole
  BY DEF Init, Whole

\* Every step keeps it.
LEMMA NextWhole == Inv /\ Whole /\ [Next]_vars => Whole'
<1> SUFFICES ASSUME Inv, Whole, [Next]_vars PROVE Whole'
  OBVIOUS
<1>1. CASE \E f \in Formats : Serialize(f)
  BY <1>1, SerializeWhole
<1>2. CASE Arrive \/ CutOff \/ CutInChecksum \/ OtherHeader
  <2>1. pc' = "header"
    BY <1>2 DEF Arrive, CutOff, CutInChecksum, OtherHeader
  <2> QED BY <2>1 DEF Whole
<1>3. CASE ReadHeader
  BY <1>3, ReadHeaderWhole
<1>4. CASE FastRead \/ SlowRead
  BY <1>4, LoopWhole
<1>5. CASE SlowEof \/ FinishRead
  BY <1>5, EndWhole
<1>6. CASE Again
  <2>1. pc' = "write"
    BY <1>6 DEF Again
  <2> QED BY <2>1 DEF Whole
<1>7. CASE UNCHANGED vars
  <2>1. /\ src' = src /\ way' = way /\ buf' = buf /\ dec' = dec /\ pc' = pc /\ result' = result
    BY <1>7 DEF vars
  <2> QED BY <2>1 DEF Whole
<1> QED BY <1>1, <1>2, <1>3, <1>4, <1>5, <1>6, <1>7, Zenon DEF Next

\* Two histograms with the same counts, and the statistics of their counts, are
\* equal: unless all they have is zeros, or they reach the last slot of a word.
LEMMA SameIsEqual ==
    ASSUME NEW g \in Written, NEW f, SameCounts(f, g), Consistent(f), NonZero(g) # {0},
           IndexFor(g.lay, g.max) # IndexFor(g.lay, MaxWord)
    PROVE  Equal(f, g) /\ Equal(g, f)
<1> DEFINE L == g.lay
           hit == NonZero(g)
           n == SlotCount(g)
<1>1. f.counts = g.counts /\ f.lay = L /\ f.low = g.low /\ f.sigfig = g.sigfig
  BY DEF SameCounts
<1>2. ValidLayout(L) /\ Consistent(g) /\ n \in Nat \ {0} /\ g.counts \in [0..(n - 1) -> Nat]
  BY SourceFacts
<1>3. NonZero(f) = hit /\ SumCounts(f, hit) = SumCounts(g, hit)
  BY <1>1, Zenon DEF NonZero, SumCounts
<1>4. f.max \in Words /\ f.min \in Words /\ g.max \in Words /\ g.min \in Words
  BY <1>2 DEF Consistent
<1>5. f.total = g.total
  BY <1>2, <1>3, Zenon DEF Consistent
<1>6. /\ hit \subseteq 0..(n - 1)
      /\ hit # {} => Max(hit) \in hit /\ \A i \in hit : i <= Max(hit)
      /\ hit \ {0} # {} => Min(hit \ {0}) \in hit \ {0}
  BY <1>2, NonZeroFacts
<1>7. /\ IF hit = {} THEN f.max = 0 ELSE IndexFor(L, f.max) = Max(hit)
      /\ IF hit \ {0} = {} THEN f.min = MaxWord ELSE IndexFor(L, f.min) = Min(hit \ {0})
      /\ IF hit = {} THEN g.max = 0 ELSE IndexFor(L, g.max) = Max(hit)
      /\ IF hit \ {0} = {} THEN g.min = MaxWord ELSE IndexFor(L, g.min) = Min(hit \ {0})
  BY <1>1, <1>2, <1>3, Zenon DEF Consistent, ORIGINAL_MAX, ORIGINAL_MIN
<1>8. MaxWord \in Words
  BY WordType
<1>9. IndexFor(L, g.max) # IndexFor(L, MaxWord) /\ hit # {0}
  OBVIOUS
<1> HIDE DEF L, hit
<1>10. IndexFor(L, 0) = 0
  BY <1>2, IndexForZero
<1>11. MaxOf(f) = MaxOf(g)
  <2>1. CASE hit = {}
    BY <1>7, <2>1 DEF MaxOf, ORIGINAL_MAX
  <2>2. CASE hit # {}
    <3>1. PICK i \in hit : i # 0
      BY <1>9, <2>2
    <3>2. Max(hit) # 0
      <4>1. i \in Nat /\ i <= Max(hit) /\ Max(hit) \in Nat
        BY <1>2, <1>6, <2>2
      <4> QED BY <3>1, <4>1
    <3>3. IndexFor(L, f.max) = Max(hit) /\ IndexFor(L, g.max) = Max(hit)
      BY <1>7, <2>2
    <3>4. f.max # 0 /\ g.max # 0
      BY <1>10, <3>2, <3>3
    <3>5. f.max # MaxWord /\ g.max # MaxWord
      BY <1>9, <3>3
    <3>6. HighestEquivalent(L, f.max) = HighestEquivalent(L, g.max)
      BY <1>2, <1>4, <3>3, <3>5, HighestInSlot
    <3>7. f.lay = L /\ g.lay = L
      BY <1>1 DEF L
    <3> QED BY <3>4, <3>6, <3>7, Zenon DEF MaxOf, ORIGINAL_MAX
  <2> QED BY <2>1, <2>2
<1>12. MinNz(f) = MinNz(g)
  <2>1. CASE hit \ {0} = {}
    BY <1>7, <2>1 DEF MinNz, ORIGINAL_MIN
  <2>2. CASE hit \ {0} # {}
    <3>1. IndexFor(L, f.min) = Min(hit \ {0}) /\ IndexFor(L, g.min) = Min(hit \ {0})
      BY <1>7, <2>2
    <3>2. LowestEquivalent(L, f.min) = LowestEquivalent(L, g.min)
      BY <1>2, <1>4, <3>1, HighestInSlot
    <3>3. Min(hit \ {0}) # IndexFor(L, MaxWord)
      <4> SUFFICES ASSUME Min(hit \ {0}) = IndexFor(L, MaxWord) PROVE FALSE
        OBVIOUS
      <4>1. Min(hit \ {0}) \in hit /\ hit # {}
        BY <1>6, <2>2
      <4>2. Min(hit \ {0}) <= Max(hit) /\ Max(hit) = IndexFor(L, g.max) /\ Max(hit) \in hit
        BY <1>6, <1>7, <4>1
      <4>3. IndexFor(L, g.max) <= IndexFor(L, MaxWord)
        BY <1>2, <1>4, IndexAtTop
      <4>4. Min(hit \ {0}) \in Int /\ Max(hit) \in Int
        <5>1. hit \subseteq Int
          BY <1>2, <1>6
        <5> QED BY <4>1, <4>2, <5>1, Zenon
      <4>5. IndexFor(L, g.max) = IndexFor(L, MaxWord)
        <5> DEFINE a == Min(hit \ {0})
                   b == Max(hit)
        <5>1. a \in Int /\ b \in Int /\ a <= b /\ b <= a
          BY <4>2, <4>3, <4>4
        <5> HIDE DEF a, b
        <5>2. a = b
          BY <5>1
        <5> QED BY <4>2, <5>2 DEF a, b
      <4> QED BY <1>9, <4>5
    <3>4. f.min # MaxWord /\ g.min # MaxWord
      BY <3>1, <3>3
    <3>5. f.lay = L /\ g.lay = L
      BY <1>1 DEF L
    <3> QED BY <3>2, <3>4, <3>5, Zenon DEF MinNz, ORIGINAL_MIN
  <2> QED BY <2>1, <2>2
<1> QED BY <1>1, <1>5, <1>11, <1>12, Zenon DEF Equal

\* A stream that arrives as it was written, or without zlib's checksum, is read
\* back as an equal histogram, by a Deserializer that may have read others before;
\* the exceptions are listed.
THEOREM RoundTripCorrect == Spec => []RoundTrip
<1>1. Spec => [](Inv /\ Whole)
  BY InitInv, NextInv, InitWhole, NextWhole, PTL DEF Spec
<1>2. Inv /\ Whole => RoundTrip
  <2> SUFFICES ASSUME Inv, Whole, pc = "done", way \in {"whole", "unsealed"}
               PROVE  RoundTrip
    BY DEF RoundTrip
  <2>1. Answer(result, src) /\ src \in Written
    BY DEF Whole, Inv, Kept
  <2>2. CASE result.err = "none" /\ SameCounts(result.h, src)
    <3>1. Consistent(result.h)
      BY <2>2 DEF Inv, AtDone
    <3>2. CASE NonZero(src) = {0} \/ IndexFor(src.lay, src.max) = IndexFor(src.lay, MaxWord)
      BY <2>2, <3>2, Zenon DEF RoundTrip, SameCounts
    <3>3. CASE ~(NonZero(src) = {0} \/ IndexFor(src.lay, src.max) = IndexFor(src.lay, MaxWord))
      <4>1. Equal(result.h, src) /\ Equal(src, result.h)
        BY <2>1, <2>2, <3>1, <3>3, SameIsEqual
      <4> QED BY <2>2, <4>1, Zenon DEF RoundTrip
    <3> QED BY <3>2, <3>3
  <2>3. CASE result.err = "CountNotSerializable" /\ \E i \in NonZero(src) : src.counts[i] > SignedMax
    BY <2>3, Zenon DEF RoundTrip
  <2>4. CASE result.err = "UnsuitableCounterType" /\ \E i \in NonZero(src) : src.counts[i] > ReadMax
    BY <2>4, Zenon DEF RoundTrip
  <2> QED BY <2>1, <2>2, <2>3, <2>4, Zenon DEF Answer
<1> QED BY <1>1, <1>2, PTL
=============================================================================
