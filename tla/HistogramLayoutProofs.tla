------------------------ MODULE HistogramLayoutProofs ------------------------
(***************************************************************************)
(* Facts about the layout of a histogram, for words of any width and any   *)
(* precision: index_for and value_for agree on which values share a slot.  *)
(* First come the facts about numbers, sequences, sums and recursion that  *)
(* the libraries do not state in a form the provers can use.               *)
(***************************************************************************)
EXTENDS HistogramOps, FiniteSetTheorems, WellFoundedInduction, TLAPS

\* A sequence, whatever its elements are.
IsSequence(s) == s \in Seq(ToSet(s))

-----------------------------------------------------------------------------
(***************************************************************************)
(* Numbers and sequences                                                   *)
(***************************************************************************)
\* A set of natural numbers that is not empty has a least element.
LEMMA LeastNat ==
    ASSUME NEW T, T \subseteq Nat, T # {}
    PROVE  \E x \in T : \A y \in T : x <= y
<1> DEFINE R == {ss \in Nat \X Nat : ss[1] < ss[2]}
<1>1. R = OpToRel(<, Nat)
  BY Zenon DEF OpToRel
<1>2. IsWellFoundedOn(R, Nat)
  BY <1>1, NatLessThanWellFounded, Zenon
<1> HIDE DEF R
<1>3. PICK x \in T : \A y \in T : ~(<<y, x>> \in R)
  BY <1>2, WFMin, Zenon
<1>4. ASSUME NEW y \in T PROVE x <= y
  <2>1. x \in Nat /\ y \in Nat /\ <<y, x>> \in Nat \X Nat
    OBVIOUS
  <2>2. ~(y < x)
    BY <1>3, <2>1 DEF R
  <2> QED BY <2>1, <2>2
<1> QED BY <1>3, <1>4

\* The least element of a set of numbers.
LEMMA MinOfNats ==
    ASSUME NEW T, T \subseteq Nat, T # {}
    PROVE  Min(T) \in T /\ \A y \in T : Min(T) <= y
<1>1. \E x \in T : \A y \in T : x <= y
  BY LeastNat
<1> QED BY <1>1 DEF Min

\* The greatest element of a set of numbers with a bound.
LEMMA MaxOfNats ==
    ASSUME NEW n \in Nat, NEW T, T \subseteq 0..n, T # {}
    PROVE  Max(T) \in T /\ \A y \in T : y <= Max(T)
<1> DEFINE U == {n - x : x \in T}
<1>1. U \subseteq Nat /\ U # {}
  <2>1. \A x \in T : n - x \in Nat
    OBVIOUS
  <2>2. PICK x \in T : TRUE
    OBVIOUS
  <2>3. n - x \in U
    OBVIOUS
  <2> QED BY <2>1, <2>3
<1>2. PICK u \in U : \A y \in U : u <= y
  <2> HIDE DEF U
  <2> QED BY <1>1, LeastNat
<1>3. PICK x \in T : u = n - x
  BY <1>2
<1>4. \A y \in T : y <= x
  <2> TAKE y \in T
  <2>1. n - y \in U
    OBVIOUS
  <2>2. u <= n - y
    BY <1>2, <2>1
  <2> QED BY <1>3, <2>2
<1>5. \E z \in T : \A y \in T : z >= y
  BY <1>3, <1>4
<1>6. Max(T) \in T /\ \A y \in T : Max(T) >= y
  BY <1>5, Zenon DEF Max
<1> QED BY <1>6

\* Induction, for a property given as the set of numbers that have it.
LEMMA NatSetInduction ==
    ASSUME NEW P, 0 \in P, \A n \in Nat : n \in P => n + 1 \in P
    PROVE  Nat \subseteq P
<1> DEFINE T == Nat \ P
<1> SUFFICES ASSUME T # {} PROVE FALSE
  OBVIOUS
<1>1. PICK x \in T : \A y \in T : x <= y
  <2>1. T \subseteq Nat
    OBVIOUS
  <2> QED BY <2>1, LeastNat
<1>2. x \in Nat /\ x # 0 /\ x - 1 \in Nat /\ ~(x <= x - 1)
  OBVIOUS
<1>3. x - 1 \in P
  BY <1>1, <1>2
<1>4. (x - 1) + 1 \in P
  BY <1>2, <1>3
<1>5. (x - 1) + 1 = x
  BY <1>2
<1> QED BY <1>4, <1>5

\* The domain of a sequence.
LEMMA SeqDomain ==
    ASSUME NEW s, IsSequence(s)
    PROVE  Len(s) \in Nat /\ DOMAIN s = 1..Len(s)
  BY DEF IsSequence

\* Two sequences are of a common set.
LEMMA SeqOfMore ==
    ASSUME NEW s, IsSequence(s), NEW S, ToSet(s) \subseteq S
    PROVE  s \in Seq(S)
  BY DEF IsSequence

\* What is a sequence of some set is a sequence.
LEMMA SeqIsSequence ==
    ASSUME NEW S, NEW s \in Seq(S)
    PROVE  IsSequence(s)
<1>1. s \in [1..Len(s) -> S] /\ Len(s) \in Nat
  OBVIOUS
<1>2. \A i \in 1..Len(s) : s[i] \in ToSet(s)
  BY <1>1 DEF ToSet
<1>3. s = [i \in 1..Len(s) |-> s[i]]
  BY <1>1
<1>4. s \in Seq(ToSet(s))
  BY <1>1, <1>2, <1>3
<1> QED BY <1>4 DEF IsSequence

\* Append, for such sequences.
LEMMA AppendSeq ==
    ASSUME NEW s, IsSequence(s), NEW x
    PROVE  /\ IsSequence(Append(s, x)) /\ Len(Append(s, x)) = Len(s) + 1
           /\ DOMAIN Append(s, x) = 1..(Len(s) + 1) /\ DOMAIN s = 1..Len(s) /\ Len(s) \in Nat
           /\ \A i \in 1..Len(s) : Append(s, x)[i] = s[i]
           /\ Append(s, x)[Len(s) + 1] = x
<1> DEFINE S == ToSet(s) \cup {x}
<1>1. s \in Seq(S) /\ x \in S
  BY SeqOfMore
<1> HIDE DEF S
<1>2. Append(s, x) \in Seq(S)
  BY <1>1
<1>3. IsSequence(Append(s, x))
  BY <1>2, SeqIsSequence
<1> QED BY <1>1, <1>2, <1>3

\* Concatenation, for such sequences.
LEMMA ConcatSeq ==
    ASSUME NEW s, IsSequence(s), NEW t, IsSequence(t)
    PROVE  /\ IsSequence(s \o t)
           /\ Len(s) \in Nat /\ Len(t) \in Nat /\ Len(s \o t) = Len(s) + Len(t)
           /\ DOMAIN (s \o t) = 1..(Len(s) + Len(t))
           /\ \A i \in 1..Len(s) : (s \o t)[i] = s[i]
           /\ \A i \in 1..Len(t) : (s \o t)[Len(s) + i] = t[i]
<1> DEFINE S == ToSet(s) \cup ToSet(t)
<1>1. s \in Seq(S) /\ t \in Seq(S)
  BY SeqOfMore
<1> HIDE DEF S
<1>2. s \o t \in Seq(S) /\ Len(s \o t) = Len(s) + Len(t) /\ Len(s) \in Nat /\ Len(t) \in Nat
  BY <1>1
<1>3. \A i \in 1..Len(s) : (s \o t)[i] = s[i]
  BY <1>1
<1>4. \A i \in 1..Len(t) : (s \o t)[Len(s) + i] = t[i]
  BY <1>1
<1>5. IsSequence(s \o t)
  BY <1>2, SeqIsSequence
<1>6. DOMAIN (s \o t) = 1..(Len(s) + Len(t))
  BY <1>2
<1> QED BY <1>2, <1>3, <1>4, <1>5, <1>6

\* A part of such a sequence.
LEMMA SubSeqSeq ==
    ASSUME NEW s, IsSequence(s), NEW m \in 1..(Len(s) + 1), NEW n \in (m - 1)..Len(s)
    PROVE  /\ IsSequence(SubSeq(s, m, n)) /\ Len(SubSeq(s, m, n)) = n - m + 1
           /\ DOMAIN SubSeq(s, m, n) = 1..(n - m + 1)
           /\ \A i \in 1..(n - m + 1) : SubSeq(s, m, n)[i] = s[m + i - 1]
<1> DEFINE S == ToSet(s)
<1>1. s \in Seq(S) /\ Len(s) \in Nat
  BY DEF IsSequence
<1> HIDE DEF S
<1>2. /\ SubSeq(s, m, n) \in Seq(S) /\ Len(SubSeq(s, m, n)) = n - m + 1
      /\ DOMAIN SubSeq(s, m, n) = 1..(n - m + 1)
      /\ \A i \in 1..(n - m + 1) : SubSeq(s, m, n)[i] = s[m + i - 1]
  BY <1>1
<1> QED BY <1>2, SeqIsSequence

\* Two sequences with the same elements are equal.
LEMMA SeqSame ==
    ASSUME NEW s, IsSequence(s), NEW t, IsSequence(t),
           Len(s) = Len(t), \A i \in 1..Len(s) : s[i] = t[i]
    PROVE  s = t
<1>1. s \in [1..Len(s) -> ToSet(s)] /\ t \in [1..Len(t) -> ToSet(t)]
  BY DEF IsSequence
<1> QED BY <1>1

-----------------------------------------------------------------------------
(***************************************************************************)
(* Powers and quotients                                                    *)
(***************************************************************************)
\* The powers of two, as numbers of subsets.
LEMMA PowerType == \A n \in Nat : 2^n \in Nat \ {0}
<1> TAKE n \in Nat
<1>1. IsFiniteSet(1..n) /\ Cardinality(1..n) = n
  BY FS_Interval
<1>2. IsFiniteSet(SUBSET (1..n)) /\ Cardinality(SUBSET (1..n)) = 2^n
  BY <1>1, FS_SUBSET
<1>3. 2^n \in Nat
  BY <1>2, FS_CardinalityType
<1>4. SUBSET (1..n) # {}
  OBVIOUS
<1>5. 2^n # 0
  BY <1>2, <1>4, FS_EmptySet
<1> QED BY <1>3, <1>5

\* With one element more there are twice as many subsets.
LEMMA PowerStep == \A n \in Nat : 2^(n + 1) = 2 * 2^n
<1> TAKE n \in Nat
<1> DEFINE x == n + 1
           A == SUBSET (1..n)
           B == {X \cup {x} : X \in A}
           f == [X \in A |-> X \cup {x}]
<1>1. IsFiniteSet(1..n) /\ Cardinality(1..n) = n /\ IsFiniteSet(1..x) /\ Cardinality(1..x) = x
  BY FS_Interval
<1>2. IsFiniteSet(A) /\ Cardinality(A) = 2^n /\ Cardinality(SUBSET (1..x)) = 2^x
  BY <1>1, FS_SUBSET
<1>3. \A X \in A : x \notin X
  OBVIOUS
<1>4. f \in Bijection(A, B)
  <2>1. f \in [A -> B]
    OBVIOUS
  <2>2. \A X, Y \in A : f[X] = f[Y] => X = Y
    <3> TAKE X, Y \in A
    <3> HAVE f[X] = f[Y]
    <3>1. X \cup {x} = Y \cup {x}
      OBVIOUS
    <3>2. x \notin X /\ x \notin Y
      BY <1>3
    <3> HIDE DEF A, B, f, x
    <3> QED BY <3>1, <3>2
  <2>3. \A Y \in B : \E X \in A : f[X] = Y
    OBVIOUS
  <2> HIDE DEF A, B, f
  <2> QED BY <2>1, <2>2, <2>3 DEF Bijection, Injection, Surjection, IsInjective
<1>5. IsFiniteSet(B) /\ Cardinality(B) = 2^n
  <2>1. ExistsBijection(A, B)
    BY <1>4, Zenon DEF ExistsBijection
  <2> HIDE DEF A, B
  <2> QED BY <1>2, <2>1, FS_Bijection
<1>6. A \cap B = {}
  BY <1>3
<1>7. SUBSET (1..x) = A \cup B
  <2>1. ASSUME NEW X \in SUBSET (1..x) PROVE X \in A \cup B
    <3>1. CASE x \in X
      <4>1. X \ {x} \in A
        OBVIOUS
      <4>2. X = (X \ {x}) \cup {x}
        BY <3>1
      <4> QED BY <4>1, <4>2
    <3>2. CASE x \notin X
      <4>1. X \in A
        BY <3>2
      <4> QED BY <4>1
    <3> QED BY <3>1, <3>2
  <2>2. ASSUME NEW X \in A \cup B PROVE X \in SUBSET (1..x)
    OBVIOUS
  <2> QED BY <2>1, <2>2
<1> HIDE DEF A, B, f
<1>8. Cardinality(A \cup B) = 2^n + 2^n - 0
  <2>1. Cardinality(A \cup B) = Cardinality(A) + Cardinality(B) - Cardinality(A \cap B)
    BY <1>2, <1>5, FS_Union
  <2>2. Cardinality(A \cap B) = 0
    BY <1>6, FS_EmptySet
  <2> QED BY <1>2, <1>5, <2>1, <2>2
<1>9. 2^x = 2^n + 2^n
  <2>1. 2^x = 2^n + 2^n - 0
    BY <1>2, <1>7, <1>8, Zenon
  <2>2. 2^n \in Nat
    BY PowerType
  <2> HIDE DEF x
  <2> QED BY <2>1, <2>2
<1> QED BY <1>9, PowerType

\* By induction over the second exponent.
LEMMA PowerPlus == \A a, b \in Nat : 2^(a + b) = 2^a * 2^b
<1> TAKE a \in Nat
<1> DEFINE P == {b \in Nat : 2^(a + b) = 2^a * 2^b}
<1>1. 0 \in P
  <2>1. 2^0 = 1 /\ a + 0 = a
    OBVIOUS
  <2> QED BY <2>1, PowerType
<1>2. ASSUME NEW b \in Nat, b \in P PROVE b + 1 \in P
  <2>1. 2^(a + b) = 2^a * 2^b
    BY <1>2
  <2>2. a + (b + 1) = (a + b) + 1 /\ a + b \in Nat
    OBVIOUS
  <2>3. 2^((a + b) + 1) = 2 * 2^(a + b) /\ 2^(b + 1) = 2 * 2^b
    BY <2>2, PowerStep
  <2>4. 2^a \in Nat /\ 2^b \in Nat
    BY PowerType
  <2>5. 2^(a + (b + 1)) = 2^a * 2^(b + 1)
    <3>1. \A x, y \in Nat : 2 * (x * y) = x * (2 * y)
      OBVIOUS
    <3> QED BY <2>1, <2>2, <2>3, <2>4, <3>1
  <2> QED BY <2>5
<1> HIDE DEF P
<1>3. Nat \subseteq P
  BY <1>1, <1>2, NatSetInduction
<1> QED BY <1>3 DEF P

\* Products of natural numbers are monotonic.
LEMMA MulMono == \A a, b, c \in Nat : a <= b => a * c <= b * c
  OBVIOUS

\* Powers of two grow.
LEMMA PowerMono == \A a, b \in Nat : /\ a <= b => 2^a <= 2^b
                                     /\ a < b => 2 * 2^a <= 2^b /\ 2^a < 2^b
<1>1. \A a, b \in Nat : a <= b => 2^a <= 2^b
  <2> TAKE a, b \in Nat
  <2> HAVE a <= b
  <2>1. b - a \in Nat /\ b = a + (b - a)
    OBVIOUS
  <2>2. 2^b = 2^a * 2^(b - a)
    BY <2>1, PowerPlus
  <2>3. 2^a \in Nat /\ 2^(b - a) \in Nat \ {0}
    BY <2>1, PowerType
  <2>4. \A x \in Nat, y \in Nat \ {0} : x <= x * y
    OBVIOUS
  <2> QED BY <2>2, <2>3, <2>4
<1>2. \A a, b \in Nat : a < b => 2 * 2^a <= 2^b /\ 2^a < 2^b
  <2> TAKE a, b \in Nat
  <2> HAVE a < b
  <2>1. a + 1 \in Nat /\ a + 1 <= b
    OBVIOUS
  <2>2. 2^(a + 1) <= 2^b
    BY <1>1, <2>1
  <2>3. 2^(a + 1) = 2 * 2^a /\ 2^a \in Nat \ {0} /\ 2^b \in Nat
    BY PowerStep, PowerType
  <2> QED BY <2>2, <2>3
<1> QED BY <1>1, <1>2

\* A number is below its power of two.
LEMMA BelowPower == \A n \in Nat : n < 2^n
<1> DEFINE P == {n \in Nat : n < 2^n}
<1>1. 0 \in P
  <2>1. 2^0 = 1
    OBVIOUS
  <2> QED BY <2>1
<1>2. ASSUME NEW n \in Nat, n \in P PROVE n + 1 \in P
  <2>1. 2^(n + 1) = 2 * 2^n /\ 2^n \in Nat /\ n < 2^n
    BY <1>2, PowerStep, PowerType
  <2>2. n + 1 < 2^(n + 1)
    BY <2>1
  <2> QED BY <2>2
<1> HIDE DEF P
<1>3. Nat \subseteq P
  BY <1>1, <1>2, NatSetInduction
<1> QED BY <1>3 DEF P

\* Division with a remainder.
LEMMA DivFacts ==
    ASSUME NEW v \in Nat, NEW d \in Nat \ {0}
    PROVE  /\ v \div d \in Nat
           /\ (v \div d) * d <= v /\ v < (v \div d) * d + d
  OBVIOUS

\* The remainder.
LEMMA ModFacts ==
    ASSUME NEW v \in Nat, NEW d \in Nat \ {0}
    PROVE  v % d \in 0..(d - 1) /\ v = (v \div d) * d + (v % d)
<1>1. v % d \in Nat /\ v % d < d
  OBVIOUS
<1>2. v % d = v - (v \div d) * d
  OBVIOUS
<1>3. (v \div d) * d \in Nat
  BY DivFacts
<1> DEFINE q == (v \div d) * d
           r == v % d
<1> HIDE DEF q, r
<1>4. r \in 0..(d - 1) /\ v = q + r
  BY <1>1, <1>2, <1>3 DEF q, r
<1> QED BY <1>4, Zenon DEF q, r

\* There is only one quotient.
LEMMA DivUnique ==
    ASSUME NEW v \in Nat, NEW d \in Nat \ {0}, NEW q \in Nat, q * d <= v, v < q * d + d
    PROVE  v \div d = q
<1> DEFINE r == v \div d
<1>1. r \in Nat /\ r * d <= v /\ v < r * d + d
  BY DivFacts
<1> HIDE DEF r
<1>2. ~(r < q)
  <2> SUFFICES ASSUME r < q PROVE FALSE
    OBVIOUS
  <2>1. r + 1 \in Nat /\ r + 1 <= q
    BY <1>1
  <2>2. (r + 1) * d <= q * d
    BY <2>1, MulMono
  <2>3. (r + 1) * d = r * d + d
    BY <1>1
  <2> QED BY <1>1, <2>2, <2>3
<1>3. ~(q < r)
  <2> SUFFICES ASSUME q < r PROVE FALSE
    OBVIOUS
  <2>1. q + 1 \in Nat /\ q + 1 <= r
    BY <1>1
  <2>2. (q + 1) * d <= r * d
    BY <1>1, <2>1, MulMono
  <2>3. (q + 1) * d = q * d + d
    OBVIOUS
  <2> QED BY <1>1, <2>2, <2>3
<1>4. r = q
  BY <1>1, <1>2, <1>3
<1> QED BY <1>4 DEF r

-----------------------------------------------------------------------------
(***************************************************************************)
(* Sums over finite sets                                                   *)
(***************************************************************************)
\* ch chooses an element of each set, and G stays in P.
Chooses(ch, S) == \A t \in SUBSET S : t # {} => ch[t] \in t
Stays(G, P, S) == \A y \in P, x \in S : G[<<y, x>>] \in P
Folds(it, S, ch, P, base, G) ==
    /\ it \in [SUBSET S -> P]
    /\ \A t \in SUBSET S : it[t] = IF t = {} THEN base ELSE G[<<it[t \ {ch[t]}], ch[t]>>]

\* A recursion that takes a set apart, element by element, has a solution.
LEMMA FoldExists ==
    ASSUME NEW S, IsFiniteSet(S), NEW ch, Chooses(ch, S), NEW P, NEW base \in P, NEW G, Stays(G, P, S)
    PROVE  \E it : Folds(it, S, ch, P, base, G)
<1> USE DEF Chooses, Stays, Folds
<1> DEFINE Step(it, t) == IF t = {} THEN base ELSE G[<<it[t \ {ch[t]}], ch[t]>>]
           Upto(it, k) == \A t \in SUBSET S : Cardinality(t) <= k => it[t] = Step(it, t)
           K == {k \in Nat : \E it \in [SUBSET S -> P] : Upto(it, k)}
<1>1. \A t \in SUBSET S : IsFiniteSet(t) /\ Cardinality(t) \in Nat
  BY FS_Subset, FS_CardinalityType
<1>2. \A it \in [SUBSET S -> P], t \in SUBSET S : Step(it, t) \in P
  <2> TAKE it \in [SUBSET S -> P], t \in SUBSET S
  <2>1. CASE t = {}
    BY <2>1
  <2>2. CASE t # {}
    <3>1. ch[t] \in S /\ t \ {ch[t]} \in SUBSET S
      BY <2>2
    <3>2. it[t \ {ch[t]}] \in P
      BY <3>1
    <3> QED BY <2>2, <3>1, <3>2
  <2> QED BY <2>1, <2>2
<1>3. 0 \in K
  <2> DEFINE it == [t \in SUBSET S |-> base]
  <2>1. it \in [SUBSET S -> P]
    OBVIOUS
  <2>2. Upto(it, 0)
    <3> SUFFICES ASSUME NEW t \in SUBSET S, Cardinality(t) <= 0 PROVE it[t] = Step(it, t)
      OBVIOUS
    <3>1. Cardinality(t) = 0
      BY <1>1
    <3>2. t = {}
      BY <1>1, <3>1, FS_EmptySet
    <3> QED BY <3>2
  <2> QED BY <2>1, <2>2
<1>4. ASSUME NEW k \in Nat, k \in K PROVE k + 1 \in K
  <2>1. PICK it \in [SUBSET S -> P] : Upto(it, k)
    BY <1>4
  <2> DEFINE jt == [t \in SUBSET S |-> Step(it, t)]
  <2>2. jt \in [SUBSET S -> P]
    BY <1>2
  <2>3. ASSUME NEW t \in SUBSET S, Cardinality(t) <= k + 1 PROVE jt[t] = Step(jt, t)
    <3>1. CASE t = {}
      BY <3>1
    <3>2. CASE t # {}
      <4> DEFINE u == t \ {ch[t]}
      <4>1. u \in SUBSET S /\ ch[t] \in t
        BY <3>2
      <4>2. Cardinality(u) = Cardinality(t) - 1
        BY <1>1, <4>1, FS_RemoveElement
      <4>3. Cardinality(u) <= k
        BY <1>1, <2>3, <4>1, <4>2
      <4>4. it[u] = Step(it, u)
        BY <2>1, <4>1, <4>3
      <4>5. jt[u] = it[u]
        BY <4>1, <4>4
      <4>6. jt[t] = G[<<it[u], ch[t]>>]
        BY <3>2
      <4> QED BY <3>2, <4>5, <4>6
    <3> QED BY <3>1, <3>2
  <2>4. Upto(jt, k + 1)
    BY <2>3
  <2>5. \E f \in [SUBSET S -> P] : Upto(f, k + 1)
    <3> HIDE DEF Upto, jt
    <3> QED BY <2>2, <2>4
  <2> HIDE DEF Upto, jt
  <2> QED BY <2>5
<1>5. Nat \subseteq K
  <2> HIDE DEF K
  <2> QED BY <1>3, <1>4, NatSetInduction
<1>6. Cardinality(S) \in K
  BY <1>1, <1>5
<1>7. PICK it \in [SUBSET S -> P] : Upto(it, Cardinality(S))
  BY <1>6
<1>8. \A t \in SUBSET S : Cardinality(t) <= Cardinality(S)
  BY FS_Subset
<1> QED BY <1>7, <1>8


AnyOf(t) == CHOOSE x \in t : TRUE

\* The function inside SumFunctionOnSet.
SumTable(f, S) ==
    CHOOSE it : it = [t \in SUBSET S |-> IF t = {} THEN 0 ELSE f[AnyOf(t)] + it[t \ {AnyOf(t)}]]

\* A sum over a set, by the sums over its subsets.
LEMMA SumIsTable == ASSUME NEW f, NEW S PROVE SumFunctionOnSet(f, S) = SumTable(f, S)[S]
  BY Zenon DEF SumFunctionOnSet, FoldFunctionOnSet, MapThenFoldSet, SumTable, AnyOf

\* The table of the sums over the subsets of a finite set.
LEMMA SumTableFacts ==
    ASSUME NEW S, IsFiniteSet(S), NEW f, \A x \in S : f[x] \in Nat
    PROVE  /\ SumTable(f, S) = [t \in SUBSET S |-> IF t = {} THEN 0
                                 ELSE f[AnyOf(t)] + SumTable(f, S)[t \ {AnyOf(t)}]]
           /\ \A t \in SUBSET S : SumTable(f, S)[t] \in Nat
<1> DEFINE ch == [t \in SUBSET S |-> AnyOf(t)]
           G == [z \in Nat \X S |-> f[z[2]] + z[1]]
           Eq(it) == it = [t \in SUBSET S |-> IF t = {} THEN 0
                                 ELSE f[AnyOf(t)] + it[t \ {AnyOf(t)}]]
<1>1. \A t \in SUBSET S : t # {} => ch[t] \in t /\ AnyOf(t) \in t
  BY DEF AnyOf
<1>2. \A y \in Nat, x \in S : G[<<y, x>>] \in Nat /\ G[<<y, x>>] = f[x] + y
  OBVIOUS
<1>3. PICK it \in [SUBSET S -> Nat] : \A t \in SUBSET S :
             it[t] = IF t = {} THEN 0 ELSE G[<<it[t \ {ch[t]}], ch[t]>>]
  <2>1. Chooses(ch, S)
    BY <1>1 DEF Chooses
  <2>2. Stays(G, Nat, S)
    BY <1>2 DEF Stays
  <2>3. 0 \in Nat
    OBVIOUS
  <2> HIDE DEF ch, G
  <2>4. \E it : Folds(it, S, ch, Nat, 0, G)
    BY <2>1, <2>2, <2>3, FoldExists, Zenon
  <2> QED BY <2>4 DEF Folds
<1>4. Eq(it)
  <2>1. \A t \in SUBSET S : it[t] = IF t = {} THEN 0 ELSE f[AnyOf(t)] + it[t \ {AnyOf(t)}]
    <3> TAKE t \in SUBSET S
    <3>1. CASE t = {}
      BY <1>3, <3>1
    <3>2. CASE t # {}
      <4>1. ch[t] = AnyOf(t) /\ AnyOf(t) \in S /\ t \ {AnyOf(t)} \in SUBSET S
        BY <1>1, <3>2
      <4>2. it[t \ {AnyOf(t)}] \in Nat
        BY <4>1
      <4>3. it[t] = G[<<it[t \ {AnyOf(t)}], AnyOf(t)>>]
        BY <1>3, <3>2, <4>1
      <4> HIDE DEF G
      <4> QED BY <1>2, <3>2, <4>1, <4>2, <4>3
    <3> QED BY <3>1, <3>2
  <2> QED BY <2>1
<1>5. Eq(SumTable(f, S))
  <2> HIDE DEF Eq
  <2>1. SumTable(f, S) = CHOOSE jt : Eq(jt)
    BY Zenon DEF SumTable, Eq
  <2> QED BY <1>4, <2>1
<1> DEFINE T == SumTable(f, S)
<1> HIDE DEF T
<1>6. \A t \in SUBSET S : T[t] = IF t = {} THEN 0 ELSE f[AnyOf(t)] + T[t \ {AnyOf(t)}]
  BY <1>5 DEF T
<1> DEFINE K == {k \in Nat : \A t \in SUBSET S : Cardinality(t) = k => T[t] \in Nat}
<1>7. \A t \in SUBSET S : IsFiniteSet(t) /\ Cardinality(t) \in Nat
  BY FS_Subset, FS_CardinalityType
<1>8. 0 \in K
  BY <1>6, <1>7, FS_EmptySet
<1>9. ASSUME NEW k \in Nat, k \in K PROVE k + 1 \in K
  <2> SUFFICES ASSUME NEW t \in SUBSET S, Cardinality(t) = k + 1 PROVE T[t] \in Nat
    OBVIOUS
  <2>1. t # {}
    <3>1. Cardinality({}) = 0 /\ k + 1 # 0
      BY FS_EmptySet
    <3> QED BY <3>1
  <2>2. AnyOf(t) \in t /\ t \ {AnyOf(t)} \in SUBSET S
    BY <1>1, <2>1
  <2>3. Cardinality(t \ {AnyOf(t)}) = (k + 1) - 1
    BY <1>7, <2>2, FS_RemoveElement
  <2>4. T[t \ {AnyOf(t)}] \in Nat
    BY <1>9, <2>2, <2>3
  <2>5. T[t] = f[AnyOf(t)] + T[t \ {AnyOf(t)}] /\ f[AnyOf(t)] \in Nat
    BY <1>6, <2>1, <2>2
  <2> QED BY <2>4, <2>5
<1>10. Nat \subseteq K
  <2> HIDE DEF K
  <2> QED BY <1>8, <1>9, NatSetInduction
<1>11. \A t \in SUBSET S : T[t] \in Nat
  BY <1>7, <1>10
<1> QED BY <1>5, <1>11 DEF T

\* The table of a set serves its subsets.
LEMMA SumTableSub ==
    ASSUME NEW S, IsFiniteSet(S), NEW f, \A x \in S : f[x] \in Nat, NEW u \in SUBSET S
    PROVE  SumFunctionOnSet(f, u) = SumTable(f, S)[u]
<1> DEFINE A == SumTable(f, S)
           B == SumTable(f, u)
<1>1. /\ \A t \in SUBSET S : A[t] = IF t = {} THEN 0 ELSE f[AnyOf(t)] + A[t \ {AnyOf(t)}]
  <2>1. A = [t \in SUBSET S |-> IF t = {} THEN 0 ELSE f[AnyOf(t)] + A[t \ {AnyOf(t)}]]
    BY SumTableFacts
  <2> HIDE DEF A
  <2> QED BY <2>1
<1>2. IsFiniteSet(u) /\ \A x \in u : f[x] \in Nat
  BY FS_Subset
<1>3. \A t \in SUBSET u : B[t] = IF t = {} THEN 0 ELSE f[AnyOf(t)] + B[t \ {AnyOf(t)}]
  <2>1. B = [t \in SUBSET u |-> IF t = {} THEN 0 ELSE f[AnyOf(t)] + B[t \ {AnyOf(t)}]]
    BY <1>2, SumTableFacts
  <2> HIDE DEF B
  <2> QED BY <2>1
<1> HIDE DEF A, B
<1> DEFINE K == {k \in Nat : \A t \in SUBSET u : Cardinality(t) = k => A[t] = B[t]}
<1>7. \A t \in SUBSET u : IsFiniteSet(t) /\ Cardinality(t) \in Nat
  BY <1>2, FS_Subset, FS_CardinalityType
<1>8. 0 \in K
  BY <1>1, <1>3, <1>7, FS_EmptySet
<1>9. ASSUME NEW k \in Nat, k \in K PROVE k + 1 \in K
  <2> SUFFICES ASSUME NEW t \in SUBSET u, Cardinality(t) = k + 1 PROVE A[t] = B[t]
    OBVIOUS
  <2>1. t # {}
    <3>1. Cardinality({}) = 0 /\ k + 1 # 0
      BY FS_EmptySet
    <3> QED BY <3>1
  <2>2. AnyOf(t) \in t /\ t \ {AnyOf(t)} \in SUBSET u
    BY <2>1 DEF AnyOf
  <2>3. Cardinality(t \ {AnyOf(t)}) = (k + 1) - 1
    BY <1>7, <2>2, FS_RemoveElement
  <2>4. A[t \ {AnyOf(t)}] = B[t \ {AnyOf(t)}]
    BY <1>9, <2>2, <2>3
  <2> QED BY <1>1, <1>3, <2>1, <2>4
<1>10. Nat \subseteq K
  <2> HIDE DEF K
  <2> QED BY <1>8, <1>9, NatSetInduction
<1>11. A[u] = B[u]
  BY <1>7, <1>10
<1> QED BY <1>11, SumIsTable DEF A, B

\* The sum of a set is a number, the empty sum is 0, and any element can be
\* taken out.
LEMMA SumEmpty == ASSUME NEW f PROVE SumFunctionOnSet(f, {}) = 0
<1>1. IsFiniteSet({})
  BY FS_EmptySet
<1>2. SumTable(f, {})[{}] = 0
  <2> DEFINE A == SumTable(f, {})
  <2>1. A = [t \in SUBSET {} |-> IF t = {} THEN 0 ELSE f[AnyOf(t)] + A[t \ {AnyOf(t)}]]
    BY <1>1, SumTableFacts
  <2> HIDE DEF A
  <2>2. A[{}] = 0
    BY <2>1
  <2> QED BY <2>2 DEF A
<1> QED BY <1>2, SumIsTable

\* A sum of naturals is a natural.
LEMMA SumType ==
    ASSUME NEW S, IsFiniteSet(S), NEW f, \A x \in S : f[x] \in Nat
    PROVE  SumFunctionOnSet(f, S) \in Nat
<1>1. SumTable(f, S)[S] \in Nat
  BY SumTableFacts
<1> QED BY <1>1, SumIsTable

\* A sum without one of its terms.
LEMMA SumRemove ==
    ASSUME NEW S, IsFiniteSet(S), NEW f, \A x \in S : f[x] \in Nat
    PROVE  \A y \in S : SumFunctionOnSet(f, S) = f[y] + SumFunctionOnSet(f, S \ {y})
<1> DEFINE Out(t) == \A y \in t : SumFunctionOnSet(f, t) = f[y] + SumFunctionOnSet(f, t \ {y})
           K == {k \in Nat : \A t \in SUBSET S : Cardinality(t) = k => Out(t)}
<1>1. \A t \in SUBSET S : SumFunctionOnSet(f, t) \in Nat
  <2> TAKE t \in SUBSET S
  <2>1. IsFiniteSet(t) /\ \A x \in t : f[x] \in Nat
    BY FS_Subset
  <2> QED BY <2>1, SumType
<1>2. \A t \in SUBSET S : t # {} => AnyOf(t) \in t /\ SumFunctionOnSet(f, t) = f[AnyOf(t)] + SumFunctionOnSet(f, t \ {AnyOf(t)})
  <2> SUFFICES ASSUME NEW t \in SUBSET S, t # {}
               PROVE  AnyOf(t) \in t /\ SumFunctionOnSet(f, t) = f[AnyOf(t)] + SumFunctionOnSet(f, t \ {AnyOf(t)})
    OBVIOUS
  <2>1. AnyOf(t) \in t
    BY DEF AnyOf
  <2> DEFINE A == SumTable(f, S)
  <2>2. SumFunctionOnSet(f, t) = A[t] /\ SumFunctionOnSet(f, t \ {AnyOf(t)}) = A[t \ {AnyOf(t)}]
    <3>1. t \ {AnyOf(t)} \in SUBSET S
      OBVIOUS
    <3> QED BY <3>1, SumTableSub
  <2>3. A = [v \in SUBSET S |-> IF v = {} THEN 0 ELSE f[AnyOf(v)] + A[v \ {AnyOf(v)}]]
    BY SumTableFacts
  <2> HIDE DEF A
  <2>4. A[t] = f[AnyOf(t)] + A[t \ {AnyOf(t)}]
    BY <2>3
  <2> QED BY <2>1, <2>2, <2>4
<1>7. \A t \in SUBSET S : IsFiniteSet(t) /\ Cardinality(t) \in Nat
  BY FS_Subset, FS_CardinalityType
<1>8. 0 \in K
  BY <1>7, FS_EmptySet
<1>9. ASSUME NEW k \in Nat, k \in K PROVE k + 1 \in K
  <2> SUFFICES ASSUME NEW t \in SUBSET S, Cardinality(t) = k + 1, NEW y \in t
               PROVE  SumFunctionOnSet(f, t) = f[y] + SumFunctionOnSet(f, t \ {y})
    OBVIOUS
  <2> DEFINE c == AnyOf(t)
  <2>1. c \in t /\ SumFunctionOnSet(f, t) = f[c] + SumFunctionOnSet(f, t \ {c})
    BY <1>2
  <2> HIDE DEF c
  <2>2. CASE y = c
    BY <2>1, <2>2
  <2>3. CASE y # c
    <3> DEFINE u == t \ {c}
               v == t \ {y}
    <3>1. u \in SUBSET S /\ v \in SUBSET S /\ y \in u /\ c \in v /\ u \ {y} = v \ {c}
          /\ u \ {y} \in SUBSET S
      BY <2>1, <2>3
    <3>2. Cardinality(u) = k /\ Cardinality(v) = k
      <4>1. IsFiniteSet(t)
        BY <1>7
      <4>2. \A x \in t : Cardinality(t \ {x}) = Cardinality(t) - 1
        BY <4>1, FS_RemoveElement
      <4>3. Cardinality(u) = Cardinality(t) - 1 /\ Cardinality(v) = Cardinality(t) - 1
        BY <2>1, <4>2
      <4> QED BY <4>3
    <3>3. Out(u) /\ Out(v)
      BY <1>9, <3>1, <3>2
    <3>4. SumFunctionOnSet(f, u) = f[y] + SumFunctionOnSet(f, u \ {y}) /\ SumFunctionOnSet(f, v) = f[c] + SumFunctionOnSet(f, u \ {y})
      <4> HIDE DEF u, v
      <4> QED BY <3>1, <3>3
    <3>5. f[y] \in Nat /\ f[c] \in Nat /\ SumFunctionOnSet(f, u \ {y}) \in Nat
      <4> HIDE DEF u, v
      <4> QED BY <1>1, <2>1, <3>1
    <3> QED BY <2>1, <3>4, <3>5
  <2> QED BY <2>2, <2>3
<1>10. Nat \subseteq K
  <2> HIDE DEF K
  <2> QED BY <1>8, <1>9, NatSetInduction
<1>11. Out(S)
  BY <1>7, <1>10
<1> QED BY <1>11

\* Functions that agree on a set have the same sum.
LEMMA SumSame ==
    ASSUME NEW S, IsFiniteSet(S), NEW f, NEW g, \A x \in S : f[x] \in Nat /\ g[x] = f[x]
    PROVE  SumFunctionOnSet(g, S) = SumFunctionOnSet(f, S)
<1> DEFINE K == {k \in Nat : \A t \in SUBSET S : Cardinality(t) = k =>
                     SumFunctionOnSet(g, t) = SumFunctionOnSet(f, t)}
<1>1. \A t \in SUBSET S : IsFiniteSet(t) /\ Cardinality(t) \in Nat
  BY FS_Subset, FS_CardinalityType
<1>2. 0 \in K
  <2> SUFFICES ASSUME NEW t \in SUBSET S, Cardinality(t) = 0
               PROVE  SumFunctionOnSet(g, t) = SumFunctionOnSet(f, t)
    OBVIOUS
  <2>1. t = {}
    BY <1>1, FS_EmptySet
  <2> QED BY <2>1, SumEmpty
<1>3. ASSUME NEW k \in Nat, k \in K PROVE k + 1 \in K
  <2> SUFFICES ASSUME NEW t \in SUBSET S, Cardinality(t) = k + 1
               PROVE  SumFunctionOnSet(g, t) = SumFunctionOnSet(f, t)
    OBVIOUS
  <2>1. t # {}
    <3>1. Cardinality({}) = 0 /\ k + 1 # 0
      BY FS_EmptySet
    <3> QED BY <3>1
  <2>2. PICK y \in t : TRUE
    BY <2>1
  <2>3. Cardinality(t \ {y}) = (k + 1) - 1 /\ t \ {y} \in SUBSET S
    BY <1>1, FS_RemoveElement
  <2>4. SumFunctionOnSet(g, t \ {y}) = SumFunctionOnSet(f, t \ {y})
    BY <1>3, <2>3
  <2>5. IsFiniteSet(t) /\ (\A x \in t : f[x] \in Nat) /\ (\A x \in t : g[x] \in Nat)
    BY <1>1
  <2>6. SumFunctionOnSet(f, t) = f[y] + SumFunctionOnSet(f, t \ {y})
    BY <2>5, SumRemove
  <2>7. SumFunctionOnSet(g, t) = g[y] + SumFunctionOnSet(g, t \ {y})
    BY <2>5, SumRemove
  <2>8. g[y] = f[y]
    OBVIOUS
  <2> QED BY <2>4, <2>6, <2>7, <2>8
<1>4. Nat \subseteq K
  <2> HIDE DEF K
  <2> QED BY <1>2, <1>3, NatSetInduction
<1> QED BY <1>1, <1>4

\* One more element.
LEMMA SumGrow ==
    ASSUME NEW S, IsFiniteSet(S), NEW f, NEW g, \A x \in S : f[x] \in Nat /\ g[x] = f[x],
           NEW y, y \notin S, g[y] \in Nat
    PROVE  SumFunctionOnSet(g, S \cup {y}) = g[y] + SumFunctionOnSet(f, S)
<1>1. IsFiniteSet(S \cup {y}) /\ \A x \in S \cup {y} : g[x] \in Nat
  BY FS_AddElement
<1>2. SumFunctionOnSet(g, S \cup {y}) = g[y] + SumFunctionOnSet(g, (S \cup {y}) \ {y})
  BY <1>1, SumRemove
<1>3. (S \cup {y}) \ {y} = S
  OBVIOUS
<1> QED BY <1>2, <1>3, SumSame

-----------------------------------------------------------------------------
(***************************************************************************)
(* Recursion over numbers                                                  *)
(***************************************************************************)
StaysUpTo(G, P, n) == \A y \in P, i \in 1..n : G[<<y, i>>] \in P
Unfolds(f, n, P, base, G) ==
    /\ f \in [0..n -> P] /\ f[0] = base
    /\ \A i \in 1..n : f[i] = G[<<f[i - 1], i>>]

\* A recursion that counts up has a solution.
LEMMA RecExists ==
    ASSUME NEW n \in Nat, NEW P, NEW base \in P, NEW G, StaysUpTo(G, P, n)
    PROVE  \E f : Unfolds(f, n, P, base, G)
<1> DEFINE K == {k \in Nat : k <= n => \E f : Unfolds(f, k, P, base, G)}
<1>1. 0 \in K
  <2> DEFINE f == [i \in 0..0 |-> base]
  <2>1. f \in [0..0 -> P] /\ f[0] = base
    OBVIOUS
  <2>2. \A i \in 1..0 : FALSE
    OBVIOUS
  <2> HIDE DEF f
  <2>3. Unfolds(f, 0, P, base, G)
    BY <2>1, <2>2 DEF Unfolds
  <2> QED BY <2>3
<1>2. ASSUME NEW k \in Nat, k \in K PROVE k + 1 \in K
  <2> SUFFICES ASSUME k + 1 <= n PROVE \E f : Unfolds(f, k + 1, P, base, G)
    OBVIOUS
  <2>1. PICK f : Unfolds(f, k, P, base, G)
    BY <1>2
  <2> DEFINE g == [i \in 0..(k + 1) |-> IF i = k + 1 THEN G[<<f[k], k + 1>>] ELSE f[i]]
  <2>2. f \in [0..k -> P] /\ f[0] = base /\ \A i \in 1..k : f[i] = G[<<f[i - 1], i>>]
    BY <2>1 DEF Unfolds
  <2>3. f[k] \in P /\ k + 1 \in 1..n
    BY <2>2
  <2>4. G[<<f[k], k + 1>>] \in P
    BY <2>3 DEF StaysUpTo
  <2>5. g \in [0..(k + 1) -> P]
    <3> SUFFICES ASSUME NEW i \in 0..(k + 1) PROVE g[i] \in P
      OBVIOUS
    <3>1. CASE i = k + 1
      BY <2>4, <3>1
    <3>2. CASE i # k + 1
      BY <2>2, <3>2
    <3> QED BY <3>1, <3>2
  <2>6. g[0] = base
    BY <2>2
  <2>7. ASSUME NEW i \in 1..(k + 1) PROVE g[i] = G[<<g[i - 1], i>>]
    <3>1. CASE i = k + 1
      <4>1. g[k] = f[k] /\ i - 1 = k
        BY <3>1
      <4>2. g[i] = G[<<f[k], i>>]
        BY <3>1
      <4> HIDE DEF g
      <4> QED BY <4>1, <4>2
    <3>2. CASE i # k + 1
      <4>1. g[i] = f[i] /\ g[i - 1] = f[i - 1] /\ i \in 1..k
        BY <3>2
      <4> QED BY <2>2, <4>1
    <3> QED BY <3>1, <3>2
  <2>8. Unfolds(g, k + 1, P, base, G)
    <3> HIDE DEF g
    <3> QED BY <2>5, <2>6, <2>7 DEF Unfolds
  <2> HIDE DEF g
  <2> QED BY <2>8
<1>3. Nat \subseteq K
  <2> HIDE DEF K
  <2> QED BY <1>1, <1>2, NatSetInduction
<1>4. n \in K /\ n <= n
  BY <1>3
<1> QED BY <1>4

-----------------------------------------------------------------------------
\* The layouts that new_with_bounds accepts.
ValidLayout(L) ==
    /\ L.unit \in Nat /\ L.mag \in Nat \ {0}
    /\ L.unit + L.mag <= W - 1

\* Slot i is sub-bucket s of bucket b: all of bucket 0, and the upper half of
\* every other.
Place(L, i, b, s) ==
    /\ b \in Nat /\ s \in Nat
    /\ i = b * SubBucketHalfCount(L) + s
    /\ s < 2 * SubBucketHalfCount(L)
    /\ b > 0 => SubBucketHalfCount(L) <= s

\* The bucket lies within a word.
Fits(L, b) == b + (L.unit + L.mag) <= W

\* The width of the slots of a bucket.
Width(L, b) == 2^(b + L.unit)

-----------------------------------------------------------------------------
(***************************************************************************)
(* Words                                                                   *)
(***************************************************************************)
\* The larger of two.
LEMMA MaxOfTwo ==
    ASSUME NEW a \in Int, NEW b \in Int
    PROVE  Max({a, b}) = IF a >= b THEN a ELSE b
<1> DEFINE m == IF a >= b THEN a ELSE b
<1>1. m \in {a, b} /\ \A y \in {a, b} : m >= y
  OBVIOUS
<1>2. ASSUME NEW x \in {a, b}, \A y \in {a, b} : x >= y PROVE x = m
  BY <1>2
<1> HIDE DEF m
<1>3. Max({a, b}) = m
  BY <1>1, <1>2 DEF Max
<1> QED BY <1>3 DEF m

\* The smaller of two.
LEMMA MinOfTwo ==
    ASSUME NEW a \in Int, NEW b \in Int
    PROVE  Min({a, b}) = IF a <= b THEN a ELSE b
<1> DEFINE m == IF a <= b THEN a ELSE b
<1>1. m \in {a, b} /\ \A y \in {a, b} : m <= y
  OBVIOUS
<1>2. ASSUME NEW x \in {a, b}, \A y \in {a, b} : x <= y PROVE x = m
  BY <1>2
<1> HIDE DEF m
<1>3. Min({a, b}) = m
  BY <1>1, <1>2 DEF Min
<1> QED BY <1>3 DEF m

\* A factor can be taken away.
LEMMA MulLess ==
    ASSUME NEW a \in Nat, NEW b \in Nat, NEW c \in Nat, a * c < b * c
    PROVE  a < b
<1> SUFFICES ASSUME b <= a PROVE FALSE
  OBVIOUS
<1>1. b * c <= a * c
  BY MulMono
<1>2. a * c \in Nat /\ b * c \in Nat
  OBVIOUS
<1> QED BY <1>1, <1>2

\* The width of a word and its largest value.
LEMMA WordType == W \in Nat /\ 2^W \in Nat \ {0} /\ MaxWord = 2^W - 1 /\ MaxWord \in Nat
                    /\ Words = 0..MaxWord
<1>1. W \in Nat
  BY LayoutAssumption, Zenon
<1>2. 2^W \in Nat \ {0}
  BY <1>1, PowerType
<1> QED BY <1>1, <1>2 DEF MaxWord, Words

\* leading_zeros of a value gives its highest bit.
LEMMA BitLenFacts ==
    ASSUME NEW v \in Words, v # 0
    PROVE  BitLen(v) \in 1..W /\ 2^(BitLen(v) - 1) <= v /\ v < 2^BitLen(v)
<1>1. v \in Nat /\ v < 2^W /\ W \in Nat
  BY WordType
<1> DEFINE T == {n \in Nat : v < 2^n}
<1>2. W \in T /\ T \subseteq Nat
  BY <1>1
<1>3. PICK x \in T : \A y \in T : x <= y
  BY <1>2, LeastNat
<1>4. x \in Nat /\ v < 2^x /\ x <= W
  BY <1>2, <1>3
<1>5. x # 0
  <2>1. 2^0 = 1
    OBVIOUS
  <2>2. ~(v < 1)
    BY <1>1
  <2> HIDE DEF T
  <2> QED BY <1>4, <2>1, <2>2, Zenon
<1>6. x - 1 \in Nat /\ ~(x <= x - 1)
  BY <1>4, <1>5
<1>7. ~(v < 2^(x - 1))
  BY <1>3, <1>6
<1>8. 2^(x - 1) <= v
  <2>1. 2^(x - 1) \in Nat
    BY <1>6, PowerType
  <2> QED BY <1>1, <1>7, <2>1
<1>9. x \in 1..W
  BY <1>1, <1>4, <1>5
<1> QED BY <1>4, <1>8, <1>9, Zenon DEF BitLen

-----------------------------------------------------------------------------
(***************************************************************************)
(* Buckets                                                                 *)
(***************************************************************************)
LEMMA HalfFacts ==
    ASSUME NEW L, ValidLayout(L)
    PROVE  /\ SubBucketHalfCount(L) \in Nat \ {0}
           /\ SubBucketCount(L) = 2 * SubBucketHalfCount(L)
<1>1. L.mag - 1 \in Nat /\ (L.mag - 1) + 1 = L.mag
  BY DEF ValidLayout
<1>2. 2^((L.mag - 1) + 1) = 2 * 2^(L.mag - 1) /\ 2^(L.mag - 1) \in Nat \ {0}
  BY <1>1, PowerStep, PowerType
<1> QED BY <1>1, <1>2 DEF SubBucketHalfCount, SubBucketCount

\* A bucket ends where its sub-buckets end, and its upper half is the next
\* power of two.
LEMMA BucketEnd ==
    ASSUME NEW L, ValidLayout(L), NEW b \in Nat
    PROVE  /\ Width(L, b) \in Nat \ {0} /\ Width(L, b + 1) = 2 * Width(L, b)
           /\ 2^((L.unit + L.mag) + b) = (2 * SubBucketHalfCount(L)) * Width(L, b)
           /\ b > 0 => 2^((L.unit + L.mag) + b - 1) = SubBucketHalfCount(L) * Width(L, b)
<1> DEFINE u == L.unit
           m == L.mag
           d == Width(L, b)
           half == SubBucketHalfCount(L)
<1>1. u \in Nat /\ m \in Nat \ {0} /\ m - 1 \in Nat /\ b + u \in Nat
  BY DEF ValidLayout
<1>2. half = 2^(m - 1) /\ 2 * half = 2^m /\ d = 2^(b + u)
  BY HalfFacts DEF SubBucketHalfCount, SubBucketCount, Width
<1>3. d \in Nat \ {0}
  BY <1>1, <1>2, PowerType
<1>4. Width(L, b + 1) = 2 * d
  <2>1. 2^((b + u) + 1) = 2 * 2^(b + u)
    BY <1>1, PowerStep
  <2>2. (b + 1) + u = (b + u) + 1
    BY <1>1
  <2> QED BY <1>2, <2>1, <2>2 DEF Width
<1>5. 2^((u + m) + b) = (2 * half) * d
  <2>1. 2^(m + (b + u)) = 2^m * 2^(b + u)
    BY <1>1, PowerPlus
  <2>2. m + (b + u) = (u + m) + b
    BY <1>1
  <2> QED BY <1>2, <2>1, <2>2
<1>6. ASSUME b > 0 PROVE 2^((u + m) + b - 1) = half * d
  <2>1. 2^((m - 1) + (b + u)) = 2^(m - 1) * 2^(b + u)
    BY <1>1, PowerPlus
  <2>2. (m - 1) + (b + u) = (u + m) + b - 1
    BY <1>1
  <2> QED BY <1>2, <2>1, <2>2
<1> QED BY <1>3, <1>4, <1>5, <1>6

\* bucket_for: the bucket that the highest bit of the value asks for.
LEMMA BucketFacts ==
    ASSUME NEW L, ValidLayout(L), NEW v \in Words
    PROVE  /\ BucketFor(L, v) \in Nat /\ Fits(L, BucketFor(L, v))
           /\ v < 2^((L.unit + L.mag) + BucketFor(L, v))
           /\ BucketFor(L, v) > 0 => 2^((L.unit + L.mag) + BucketFor(L, v) - 1) <= v
<1> DEFINE k == L.unit + L.mag
           n == BitLen(v)
           b == BucketFor(L, v)
<1>1. k \in Nat /\ k <= W - 1 /\ W \in Nat /\ v \in Nat
  BY WordType DEF ValidLayout
<1>2. n \in 0..W /\ v < 2^n /\ (n > 0 => 2^(n - 1) <= v)
  <2>1. CASE v = 0
    <3>1. n = 0 /\ 2^0 = 1
      BY <2>1 DEF BitLen
    <3> HIDE DEF n
    <3> QED BY <1>1, <2>1, <3>1
  <2>2. CASE v # 0
    <3>1. n \in 1..W /\ 2^(n - 1) <= v /\ v < 2^n
      BY <2>2, BitLenFacts
    <3> HIDE DEF n
    <3> QED BY <1>1, <3>1
  <2> QED BY <2>1, <2>2
<1>3. b = (IF n >= k THEN n ELSE k) - k
  <2>1. n \in Int /\ k \in Int
    BY <1>1, <1>2
  <2>2. Max({n, k}) = IF n >= k THEN n ELSE k
    <3> HIDE DEF n, k
    <3> QED BY <2>1, MaxOfTwo
  <2> QED BY <2>2 DEF BucketFor
<1> HIDE DEF n, k, b
<1>4. b \in Nat /\ b + k <= W /\ k + b = IF n >= k THEN n ELSE k
  BY <1>1, <1>2, <1>3
<1>5. v < 2^(k + b)
  <2>1. n \in Nat /\ k + b \in Nat /\ n <= k + b
    BY <1>1, <1>2, <1>4
  <2>2. 2^n <= 2^(k + b) /\ 2^n \in Nat /\ 2^(k + b) \in Nat
    BY <2>1, PowerMono, PowerType
  <2> QED BY <1>1, <1>2, <2>2
<1>6. b > 0 => 2^(k + b - 1) <= v
  <2> SUFFICES ASSUME b > 0 PROVE 2^(k + b - 1) <= v
    OBVIOUS
  <2>1. k + b - 1 = n - 1 /\ n > 0
    BY <1>1, <1>2, <1>3, <1>4
  <2> QED BY <1>2, <2>1
<1> QED BY <1>4, <1>5, <1>6 DEF b, k, Fits

\* It is the only one.
LEMMA BucketUnique ==
    ASSUME NEW L, ValidLayout(L), NEW v \in Words, NEW b \in Nat,
           v < 2^((L.unit + L.mag) + b), b > 0 => 2^((L.unit + L.mag) + b - 1) <= v
    PROVE  BucketFor(L, v) = b
<1> DEFINE k == L.unit + L.mag
           c == BucketFor(L, v)
<1>1. k \in Nat /\ v \in Nat
  BY WordType DEF ValidLayout
<1>2. c \in Nat /\ v < 2^(k + c) /\ (c > 0 => 2^(k + c - 1) <= v)
  BY BucketFacts
<1>3. v < 2^(k + b) /\ (b > 0 => 2^(k + b - 1) <= v)
  OBVIOUS
<1> HIDE DEF k, c
<1>4. \A x, y \in Nat : v < 2^(k + x) /\ (y > 0 => 2^(k + y - 1) <= v) => ~(x < y)
  <2> TAKE x, y \in Nat
  <2> SUFFICES ASSUME v < 2^(k + x), 2^(k + y - 1) <= v, x < y PROVE FALSE
    OBVIOUS
  <2>1. k + x \in Nat /\ k + y - 1 \in Nat /\ k + x <= k + y - 1
    BY <1>1
  <2>2. 2^(k + x) <= 2^(k + y - 1) /\ 2^(k + x) \in Nat /\ 2^(k + y - 1) \in Nat
    BY <2>1, PowerMono, PowerType
  <2> QED BY <1>1, <2>2
<1>5. ~(c < b) /\ ~(b < c)
  BY <1>2, <1>3, <1>4
<1>6. c = b
  BY <1>2, <1>5
<1> QED BY <1>6 DEF c

-----------------------------------------------------------------------------
(***************************************************************************)
(* Slots                                                                   *)
(***************************************************************************)
\* No slot has two places.
LEMMA PlaceUnique ==
    ASSUME NEW L, ValidLayout(L), NEW i, NEW b, NEW s, NEW c, NEW t,
           Place(L, i, b, s), Place(L, i, c, t)
    PROVE  b = c /\ s = t
<1> DEFINE half == SubBucketHalfCount(L)
<1>1. half \in Nat \ {0}
  BY HalfFacts
<1> HIDE DEF half
<1>2. \A x, y, p, q \in Nat :
         /\ x * half + p = y * half + q /\ p < 2 * half /\ q < 2 * half
         /\ x > 0 => half <= p
         /\ y > 0 => half <= q
         => ~(x < y)
  <2> TAKE x, y, p, q \in Nat
  <2> SUFFICES ASSUME x * half + p = y * half + q, p < 2 * half, half <= q, x < y
               PROVE  FALSE
    OBVIOUS
  <2>1. x + 1 \in Nat /\ x + 1 <= y
    OBVIOUS
  <2>2. (x + 1) * half <= y * half
    BY <1>1, <2>1, MulMono
  <2>3. (x + 1) * half = x * half + half /\ x * half \in Nat /\ y * half \in Nat
    BY <1>1
  <2> QED BY <1>1, <2>2, <2>3
<1>3. /\ b \in Nat /\ s \in Nat /\ c \in Nat /\ t \in Nat
      /\ b * half + s = c * half + t /\ s < 2 * half /\ t < 2 * half
      /\ b > 0 => half <= s
      /\ c > 0 => half <= t
  BY DEF Place, half
<1>4. ~(b < c) /\ ~(c < b)
  BY <1>2, <1>3
<1>5. b = c
  BY <1>3, <1>4
<1>6. b * half \in Nat
  BY <1>1, <1>3
<1> QED BY <1>3, <1>5, <1>6

\* index_for: the place of the slot, and the values that share it.
LEMMA PlaceOfValue ==
    ASSUME NEW L, ValidLayout(L), NEW v \in Words
    PROVE  LET b == BucketFor(L, v)
               s == SubBucketFor(L, v, b)
           IN  /\ Place(L, IndexFor(L, v), b, s) /\ Fits(L, b)
               /\ s * Width(L, b) <= v /\ v < s * Width(L, b) + Width(L, b)
<1> DEFINE b == BucketFor(L, v)
           s == SubBucketFor(L, v, b)
           d == Width(L, b)
           half == SubBucketHalfCount(L)
           k == L.unit + L.mag
<1>1. b \in Nat /\ Fits(L, b) /\ v < 2^(k + b) /\ (b > 0 => 2^(k + b - 1) <= v)
  BY BucketFacts
<1>2. half \in Nat \ {0} /\ v \in Nat
  BY HalfFacts, WordType
<1>3. /\ d \in Nat \ {0} /\ 2^(k + b) = (2 * half) * d
      /\ b > 0 => 2^(k + b - 1) = half * d
  BY <1>1, BucketEnd
<1>4. s = v \div d
  BY DEF SubBucketFor, Width
<1>5. IndexFor(L, v) = (b + 1) * half + (s - half)
  BY DEF IndexFor
<1> HIDE DEF b, s, d, half, k
<1>6. s \in Nat /\ s * d <= v /\ v < s * d + d
  BY <1>2, <1>3, <1>4, DivFacts
<1>7. s < 2 * half
  <2>1. s * d < (2 * half) * d
    <3>1. s * d \in Nat /\ (2 * half) * d \in Nat
      BY <1>2, <1>3, <1>6
    <3> QED BY <1>1, <1>2, <1>3, <1>6, <3>1
  <2>2. 2 * half \in Nat
    BY <1>2
  <2> QED BY <1>3, <1>6, <2>1, <2>2, MulLess
<1>8. ASSUME b > 0 PROVE half <= s
  <2>1. half * d < (s + 1) * d
    <3>1. s * d \in Nat /\ half * d \in Nat /\ (s + 1) * d = s * d + d
      BY <1>2, <1>3, <1>6
    <3> QED BY <1>1, <1>2, <1>3, <1>6, <1>8, <3>1
  <2>2. half < s + 1
    BY <1>2, <1>3, <1>6, <2>1, MulLess
  <2> QED BY <1>2, <1>6, <2>2
<1>9. IndexFor(L, v) = b * half + s
  <2>1. (b + 1) * half = b * half + half /\ b * half \in Nat
    BY <1>1, <1>2
  <2> QED BY <1>2, <1>5, <1>6, <2>1
<1>10. Place(L, IndexFor(L, v), b, s)
  BY <1>1, <1>6, <1>7, <1>8, <1>9 DEF Place, half
<1>11. Place(L, IndexFor(L, v), b, s) /\ Fits(L, b) /\ s * d <= v /\ v < s * d + d
  BY <1>1, <1>6, <1>10
<1> QED BY <1>11 DEF b, s, d

\* The values at a place are in a word.
LEMMA PlaceInWord ==
    ASSUME NEW L, ValidLayout(L), NEW i, NEW b, NEW s, Place(L, i, b, s), Fits(L, b)
    PROVE  /\ Width(L, b) \in Nat \ {0} /\ s * Width(L, b) \in Nat
           /\ s * Width(L, b) + Width(L, b) <= 2^((L.unit + L.mag) + b)
           /\ s * Width(L, b) + Width(L, b) <= 2^W
<1> DEFINE d == Width(L, b)
           half == SubBucketHalfCount(L)
           k == L.unit + L.mag
<1>1. b \in Nat /\ s \in Nat /\ s < 2 * half /\ k \in Nat /\ k + b \in Nat /\ k + b <= W
  BY DEF Place, Fits, ValidLayout
<1>2. half \in Nat \ {0} /\ W \in Nat
  BY HalfFacts, WordType
<1>3. d \in Nat \ {0} /\ 2^(k + b) = (2 * half) * d
  BY <1>1, BucketEnd
<1> HIDE DEF d, half, k
<1>4. s * d + d <= 2^(k + b) /\ s * d \in Nat
  <2>1. s + 1 \in Nat /\ 2 * half \in Nat /\ s + 1 <= 2 * half
    BY <1>1, <1>2
  <2>2. (s + 1) * d <= (2 * half) * d
    BY <1>3, <2>1, MulMono
  <2>3. (s + 1) * d = s * d + d /\ s * d \in Nat
    BY <1>1, <1>3
  <2> QED BY <1>3, <2>2, <2>3
<1>5. 2^(k + b) <= 2^W /\ 2^(k + b) \in Nat /\ 2^W \in Nat
  BY <1>1, <1>2, PowerMono, PowerType
<1>6. s * d + d <= 2^W
  BY <1>3, <1>4, <1>5
<1> QED BY <1>3, <1>4, <1>6 DEF d, k

\* value_from_loc loses no bits.
LEMMA ValueAtPlace ==
    ASSUME NEW L, ValidLayout(L), NEW i, NEW b, NEW s, Place(L, i, b, s), Fits(L, b)
    PROVE  ValueFromLoc(L, b, s) = s * Width(L, b)
<1> DEFINE d == Width(L, b)
           x == s * d
<1>1. d \in Nat \ {0} /\ x \in Nat /\ x + d <= 2^W
  BY PlaceInWord
<1>2. 2^W \in Nat \ {0}
  BY WordType
<1>3. ValueFromLoc(L, b, s) = x % 2^W
  BY DEF ValueFromLoc, Shl, Width
<1> HIDE DEF x, d
<1>4. \A y \in Nat, n \in Nat \ {0} : y < n => y % n = y
  OBVIOUS
<1>5. x < 2^W
  BY <1>1, <1>2
<1>6. ValueFromLoc(L, b, s) = x
  BY <1>1, <1>2, <1>3, <1>4, <1>5
<1> QED BY <1>6 DEF x, d

\* The values of a slot are those from its place to the next.
LEMMA SlotValues ==
    ASSUME NEW L, ValidLayout(L), NEW i, NEW b, NEW s, Place(L, i, b, s), Fits(L, b),
           NEW v \in Words
    PROVE  /\ IndexFor(L, v) = i <=> s * Width(L, b) <= v /\ v < s * Width(L, b) + Width(L, b)
           /\ IndexFor(L, v) = i => BucketFor(L, v) = b /\ SubBucketFor(L, v, b) = s
<1> DEFINE d == Width(L, b)
           half == SubBucketHalfCount(L)
           k == L.unit + L.mag
<1>1. ASSUME IndexFor(L, v) = i
      PROVE  BucketFor(L, v) = b /\ SubBucketFor(L, v, b) = s /\ s * d <= v /\ v < s * d + d
  <2>1. LET c == BucketFor(L, v)
            t == SubBucketFor(L, v, c)
        IN  Place(L, i, c, t) /\ t * Width(L, c) <= v /\ v < t * Width(L, c) + Width(L, c)
    BY <1>1, PlaceOfValue
  <2>2. BucketFor(L, v) = b /\ SubBucketFor(L, v, BucketFor(L, v)) = s
    BY <2>1, PlaceUnique
  <2> QED BY <2>1, <2>2
<1>2. ASSUME s * d <= v, v < s * d + d
      PROVE  IndexFor(L, v) = i
  <2>1. /\ b \in Nat /\ s \in Nat /\ half \in Nat \ {0} /\ v \in Nat /\ k + b \in Nat
        /\ i = b * half + s /\ (b > 0 => half <= s)
    BY HalfFacts, WordType DEF Place, ValidLayout
  <2>2. d \in Nat \ {0} /\ s * d \in Nat /\ s * d + d <= 2^(k + b)
    BY PlaceInWord
  <2>3. b > 0 => 2^(k + b - 1) = half * d
    BY <2>1, BucketEnd
  <2>4. BucketFor(L, v) = b
    <3>1. v < 2^(k + b)
      <4>1. 2^(k + b) \in Nat
        BY <2>1, PowerType
      <4> HIDE DEF d, k, half
      <4> QED BY <1>2, <2>1, <2>2, <4>1
    <3>2. b > 0 => 2^(k + b - 1) <= v
      <4> SUFFICES ASSUME b > 0 PROVE half * d <= v
        BY <2>3
      <4> HIDE DEF d, k, half
      <4>1. half * d <= s * d
        BY <2>1, <2>2, MulMono
      <4>2. half * d \in Nat
        BY <2>1, <2>2
      <4> QED BY <1>2, <2>1, <2>2, <4>1, <4>2
    <3> QED BY <2>1, <3>1, <3>2, BucketUnique
  <2>5. SubBucketFor(L, v, b) = s
    <3>1. SubBucketFor(L, v, b) = v \div d
      BY DEF SubBucketFor, Width
    <3> HIDE DEF d, k, half
    <3> QED BY <1>2, <2>1, <2>2, <3>1, DivUnique
  <2>6. IndexFor(L, v) = (b + 1) * half + (s - half)
    BY <2>4, <2>5 DEF IndexFor
  <2> HIDE DEF d, k, half
  <2>7. (b + 1) * half = b * half + half /\ b * half \in Nat
    BY <2>1
  <2> QED BY <2>1, <2>6, <2>7
<1> QED BY <1>1, <1>2

\* value_for: where the slot begins.
LEMMA PlaceOfSlot ==
    ASSUME NEW L, ValidLayout(L), NEW i \in Nat
    PROVE  \E b, s : Place(L, i, b, s) /\ ValueFor(L, i) = ValueFromLoc(L, b, s)
<1> DEFINE half == SubBucketHalfCount(L)
           q == i \div half
           bucket == q - 1
           sub == (i % half) + half
<1>1. half \in Nat \ {0}
  BY HalfFacts
<1>2. ValueFor(L, i) = IF bucket < 0 THEN ValueFromLoc(L, 0, sub - half)
                       ELSE ValueFromLoc(L, bucket, sub)
  BY DEF ValueFor
<1>3. q \in Nat /\ q * half <= i /\ i < q * half + half /\ i % half = i - q * half
  <2> HIDE DEF half
  <2>1. q \in Nat /\ q * half <= i /\ i < q * half + half
    BY <1>1, DivFacts
  <2>2. i % half = i - q * half
    BY <1>1
  <2> QED BY <2>1, <2>2
<1> HIDE DEF half, q
<1>4. CASE q = 0
  <2>1. i < half /\ sub - half = i /\ bucket < 0
    BY <1>1, <1>3, <1>4
  <2>2. 0 * half = 0
    BY <1>1
  <2>3. Place(L, i, 0, i)
    BY <1>1, <2>1, <2>2 DEF Place, half
  <2> QED BY <1>2, <2>1, <2>3
<1>5. CASE q # 0
  <2>1. bucket \in Nat /\ ~(bucket < 0) /\ q * half = bucket * half + half /\ bucket * half \in Nat
    BY <1>1, <1>3, <1>5
  <2>2. sub \in Nat /\ half <= sub /\ sub < 2 * half /\ i = bucket * half + sub
    <3> HIDE DEF bucket
    <3> QED BY <1>1, <1>3, <2>1
  <2> HIDE DEF bucket, sub
  <2>3. Place(L, i, bucket, sub)
    BY <2>1, <2>2 DEF Place, half
  <2> QED BY <1>2, <2>1, <2>3
<1> QED BY <1>4, <1>5

-----------------------------------------------------------------------------
(***************************************************************************)
(* The slots of a word                                                     *)
(***************************************************************************)
\* Where a slot begins, and how wide it is.
LEMMA SlotBegins ==
    ASSUME NEW L, ValidLayout(L), NEW i \in Nat, NEW b, NEW s, Place(L, i, b, s), Fits(L, b)
    PROVE  /\ ValueFor(L, i) = s * Width(L, b) /\ ValueFor(L, i) \in Words
           /\ IndexFor(L, ValueFor(L, i)) = i /\ EquivalentRange(L, ValueFor(L, i)) = Width(L, b)
<1> DEFINE d == Width(L, b)
           x == ValueFor(L, i)
<1>1. x = s * d
  <2>1. PICK c, t : Place(L, i, c, t) /\ x = ValueFromLoc(L, c, t)
    BY PlaceOfSlot
  <2>2. c = b /\ t = s
    BY <2>1, PlaceUnique
  <2> QED BY <2>1, <2>2, ValueAtPlace
<1>2. d \in Nat \ {0} /\ s * d \in Nat /\ s * d + d <= 2^W /\ 2^W \in Nat
  BY PlaceInWord, WordType
<1>3. x \in Words
  <2> HIDE DEF d, x
  <2> QED BY <1>1, <1>2, WordType
<1>4. s * d <= x /\ x < s * d + d
  <2> HIDE DEF d, x
  <2> QED BY <1>1, <1>2
<1>5. IndexFor(L, x) = i /\ BucketFor(L, x) = b
  BY <1>3, <1>4, SlotValues
<1>6. EquivalentRange(L, x) = d
  <2>1. L.unit + b = b + L.unit
    BY DEF Place, ValidLayout
  <2> QED BY <1>5, <2>1 DEF EquivalentRange, Width
<1> QED BY <1>1, <1>3, <1>5, <1>6

\* The slot's values are a range, lowest_equivalent, equivalent_range and
\* median_equivalent of each are those of the slot, and its width is the unit or at
\* most as many parts of its first value as a bucket has slots.
LEMMA SlotIsRange ==
    ASSUME NEW L, ValidLayout(L), NEW i \in Nat, NEW b, NEW s, Place(L, i, b, s), Fits(L, b)
    PROVE  LET first == ValueFor(L, i)
               width == EquivalentRange(L, first)
               slot == {v \in Words : IndexFor(L, v) = i}
           IN  /\ slot = first..(first + width - 1)
               /\ \A v \in slot : /\ LowestEquivalent(L, v) = first
                                  /\ EquivalentRange(L, v) = width
                                  /\ MedianEquivalent(L, v) \in slot
               /\ width <= 2^L.unit \/ SubBucketHalfCount(L) * width <= first
<1> DEFINE first == ValueFor(L, i)
           width == EquivalentRange(L, first)
           slot == {v \in Words : IndexFor(L, v) = i}
           half == SubBucketHalfCount(L)
<1>1. first = s * Width(L, b) /\ first \in Words /\ width = Width(L, b)
  BY SlotBegins
<1>2. width \in Nat \ {0} /\ first \in Nat /\ first + width <= 2^W /\ 2^W \in Nat
  BY <1>1, PlaceInWord, WordType
<1>3. \A v \in Words : IndexFor(L, v) = i <=> first <= v /\ v < first + width
  BY <1>1, SlotValues
<1>4. slot = first..(first + width - 1)
  <2>1. \A v \in first..(first + width - 1) : v \in Words
    <3> HIDE DEF first, width
    <3> QED BY <1>2, WordType
  <2>2. \A v \in Words : v \in Nat
    BY WordType
  <2> HIDE DEF first, width
  <2> QED BY <1>2, <1>3, <2>1, <2>2
<1>5. ASSUME NEW v \in slot
      PROVE  /\ LowestEquivalent(L, v) = first /\ EquivalentRange(L, v) = width
             /\ MedianEquivalent(L, v) \in slot
  <2>1. BucketFor(L, v) = b /\ SubBucketFor(L, v, b) = s
    BY SlotValues
  <2>2. LowestEquivalent(L, v) = first
    BY <1>1, <2>1, ValueAtPlace DEF LowestEquivalent
  <2>3. EquivalentRange(L, v) = width
    <3>1. L.unit + b = b + L.unit
      BY DEF Place, ValidLayout
    <3> QED BY <1>1, <2>1, <3>1 DEF EquivalentRange, Width
  <2>4. MedianEquivalent(L, v) = first + width \div 2
    BY <2>2, <2>3 DEF MedianEquivalent
  <2>5. first + width \div 2 \in first..(first + width - 1)
    <3> HIDE DEF first, width
    <3> QED BY <1>2
  <2> QED BY <1>4, <2>2, <2>3, <2>4, <2>5
<1>6. width <= 2^L.unit \/ half * width <= first
  <2>1. b \in Nat /\ s \in Nat /\ (b > 0 => half <= s) /\ half \in Nat /\ L.unit \in Nat
    BY HalfFacts DEF Place, ValidLayout
  <2>2. CASE b = 0
    <3>1. width = 2^L.unit
      BY <1>1, <2>1, <2>2 DEF Width
    <3> HIDE DEF width
    <3> QED BY <1>2, <3>1
  <2>3. CASE b > 0
    <3> HIDE DEF first, width, half
    <3>1. half * width <= s * width
      BY <1>2, <2>1, <2>3, MulMono
    <3> QED BY <1>1, <3>1
  <2> QED BY <2>1, <2>2, <2>3
<1> QED BY <1>4, <1>5, <1>6

\* The next slot begins where this one ends, in the next bucket too.
LEMMA NextSlot ==
    ASSUME NEW L, ValidLayout(L), NEW i \in Nat, NEW b, NEW s, Place(L, i, b, s), Fits(L, b),
           NEW c, NEW t, Place(L, i + 1, c, t), Fits(L, c)
    PROVE  ValueFor(L, i + 1) = ValueFor(L, i) + EquivalentRange(L, ValueFor(L, i))
<1> DEFINE d == Width(L, b)
           half == SubBucketHalfCount(L)
<1>1. /\ ValueFor(L, i) = s * d /\ EquivalentRange(L, ValueFor(L, i)) = d
      /\ ValueFor(L, i + 1) = t * Width(L, c)
  BY SlotBegins
<1>2. /\ b \in Nat /\ s \in Nat /\ i = b * half + s /\ s < 2 * half
      /\ b > 0 => half <= s
      /\ half \in Nat \ {0} /\ d \in Nat \ {0} /\ Width(L, b + 1) = 2 * d
  BY HalfFacts, BucketEnd DEF Place
<1>3. (s + 1) * d = s * d + d
  <2> HIDE DEF d
  <2> QED BY <1>2
<1>4. CASE s + 1 < 2 * half
  <2>1. Place(L, i + 1, b, s + 1)
    <3>1. i + 1 = b * half + (s + 1)
      <4> HIDE DEF half
      <4> QED BY <1>2
    <3> QED BY <1>2, <1>4, <3>1 DEF Place
  <2>2. c = b /\ t = s + 1
    BY <2>1, PlaceUnique
  <2> QED BY <1>1, <1>3, <2>2
<1>5. CASE s + 1 = 2 * half
  <2>1. Place(L, i + 1, b + 1, half)
    <3>1. i + 1 = (b + 1) * half + half
      <4> HIDE DEF half
      <4>1. (b + 1) * half = b * half + half /\ b * half \in Nat
        BY <1>2
      <4> QED BY <1>2, <1>5, <4>1
    <3> QED BY <1>2, <3>1 DEF Place
  <2>2. c = b + 1 /\ t = half
    BY <2>1, PlaceUnique
  <2>3. half * (2 * d) = (2 * half) * d
    <3> HIDE DEF half, d
    <3> QED BY <1>2
  <2> QED BY <1>1, <1>2, <1>3, <1>5, <2>2, <2>3
<1> QED BY <1>2, <1>4, <1>5

\* buckets_to_cover: no more buckets than a word has.
LEMMA BucketsInWord ==
    ASSUME NEW L, ValidLayout(L), NEW x
    PROVE  BucketsToCover(L, x) \in 1..(W - (L.unit + L.mag) + 1)
<1> DEFINE k == L.unit + L.mag
           n == W - k + 1
           T == {j \in 1..(W + 1) : UntrackableAfter(L, j) > x \/ UntrackableAfter(L, j) > MaxWord}
<1>1. k \in Nat /\ k <= W - 1 /\ W \in Nat /\ L.unit \in Nat /\ L.mag \in Nat
  BY WordType DEF ValidLayout
<1>2. n \in 1..(W + 1) /\ n - 1 \in Nat /\ k + (n - 1) = W
  BY <1>1
<1>3. UntrackableAfter(L, n) = 2^W
  <2>1. 2^L.mag * 2^L.unit = 2^k
    <3>1. 2^(L.mag + L.unit) = 2^L.mag * 2^L.unit
      BY <1>1, PowerPlus
    <3>2. L.mag + L.unit = k
      BY <1>1
    <3> QED BY <3>1, <3>2
  <2>2. 2^k * 2^(n - 1) = 2^(k + (n - 1))
    BY <1>1, <1>2, PowerPlus
  <2> QED BY <1>2, <2>1, <2>2 DEF UntrackableAfter, SubBucketCount
<1>4. 2^W > MaxWord
  BY WordType
<1>5. n \in T /\ T \subseteq Nat
  <2> HIDE DEF n
  <2> QED BY <1>2, <1>3, <1>4
<1>6. \E m \in T : \A y \in T : m <= y
  BY <1>5, LeastNat
<1>7. Min(T) \in T /\ \A y \in T : Min(T) <= y
  <2> HIDE DEF T
  <2> QED BY <1>6 DEF Min
<1>8. Min(T) \in 1..(W + 1) /\ Min(T) <= n
  <2>1. \A y \in T : y \in 1..(W + 1)
    OBVIOUS
  <2> HIDE DEF T, n
  <2> QED BY <1>5, <1>7, <2>1
<1>9. BucketsToCover(L, x) = Min(T)
  BY DEF BucketsToCover
<1> HIDE DEF T
<1> QED BY <1>1, <1>8, <1>9

\* The slots of so many buckets lie in a word.
LEMMA SlotsInWord ==
    ASSUME NEW L, ValidLayout(L), NEW x, NEW i \in Nat,
           i < NumBins(L, BucketsToCover(L, x))
    PROVE  \E b, s : Place(L, i, b, s) /\ Fits(L, b)
<1> DEFINE n == BucketsToCover(L, x)
           half == SubBucketHalfCount(L)
           k == L.unit + L.mag
<1>1. n \in 1..(W - k + 1) /\ k \in Nat /\ W \in Nat
  BY BucketsInWord, WordType DEF ValidLayout
<1>2. i < (n + 1) * half /\ half \in Nat \ {0}
  BY HalfFacts DEF NumBins
<1>3. PICK b, s : Place(L, i, b, s)
  BY PlaceOfSlot
<1>4. b \in Nat /\ s \in Nat /\ i = b * half + s /\ (b > 0 => half <= s)
  BY <1>3 DEF Place
<1> HIDE DEF n, half, k
<1>5. b > 0 => b < n
  <2> SUFFICES ASSUME b > 0 PROVE b < n
    OBVIOUS
  <2>1. (b + 1) * half = b * half + half /\ b * half \in Nat /\ (n + 1) * half \in Nat
    BY <1>1, <1>2, <1>4
  <2>2. (b + 1) * half < (n + 1) * half
    BY <1>2, <1>4, <2>1
  <2>3. b + 1 < n + 1
    BY <1>1, <1>2, <1>4, <2>2, MulLess
  <2> QED BY <1>1, <1>4, <2>3
<1>6. b + k <= W
  BY <1>1, <1>4, <1>5
<1> QED BY <1>3, <1>6 DEF Fits, k

\* new_with_bounds makes such layouts, with at least Base^sigfig slots for half a
\* bucket.
LEMMA LayoutIsValid ==
    ASSUME NEW low \in Nat, NEW high \in Nat, NEW sigfig \in Nat, CanCreate(low, high, sigfig)
    PROVE  /\ ValidLayout(LayoutOf(low, sigfig))
           /\ Base^sigfig \in Nat
           /\ Base^sigfig <= SubBucketHalfCount(LayoutOf(low, sigfig))
<1> DEFINE L == LayoutOf(low, sigfig)
           p == Base^sigfig
           T == {n \in 0..(W + 1) : 2 * p <= 2^n}
<1>1. sigfig \in 0..MaxSig /\ W \in Nat \ {0}
  BY LayoutAssumption DEF CanCreate
<1>2. p \in 1..2^(W - 1)
  BY <1>1, LayoutAssumption
<1>3. L.unit = FloorLog2(low) /\ L.mag = Min(T)
  BY DEF LayoutOf, CeilLog2
<1> HIDE DEF p
<1>4. 2 * p <= 2^W /\ p \in Nat /\ p >= 1
  <2>1. W - 1 \in Nat /\ (W - 1) + 1 = W
    BY <1>1
  <2>2. 2^W = 2 * 2^(W - 1) /\ 2^(W - 1) \in Nat
    BY <2>1, PowerStep, PowerType
  <2> QED BY <1>2, <2>2
<1>5. W \in T /\ T \subseteq Nat
  BY <1>1, <1>4
<1>6. \E m \in T : \A y \in T : m <= y
  BY <1>5, LeastNat
<1>7. L.mag \in T
  <2>1. Min(T) \in T
    <3> HIDE DEF T
    <3> QED BY <1>6 DEF Min
  <2> QED BY <1>3, <2>1
<1>8. L.mag \in Nat /\ 2 * p <= 2^L.mag
  <2> HIDE DEF L
  <2> QED BY <1>1, <1>7
<1>9. L.mag # 0
  <2>1. 2^0 = 1
    OBVIOUS
  <2>2. ~(2 * p <= 1)
    BY <1>4
  <2> HIDE DEF L
  <2> QED BY <1>8, <2>1, <2>2, Zenon
<1>10. L.unit \in Nat
  <2>1. low \in Words /\ low # 0
    <3>1. low >= 1 /\ low <= MaxWord \div 2 /\ MaxWord \in Nat
      BY WordType DEF CanCreate
    <3> QED BY <3>1 DEF Words
  <2>2. BitLen(low) \in 1..W
    BY <2>1, BitLenFacts
  <2> HIDE DEF L
  <2> QED BY <1>1, <1>3, <2>2 DEF FloorLog2
<1>11. ValidLayout(L)
  BY <1>8, <1>9, <1>10 DEF CanCreate, ValidLayout
<1>12. p <= SubBucketHalfCount(L)
  <2>1. SubBucketHalfCount(L) \in Nat /\ 2^L.mag = 2 * SubBucketHalfCount(L)
    BY <1>11, HalfFacts DEF SubBucketCount
  <2> HIDE DEF L
  <2> QED BY <1>4, <1>8, <2>1
<1> QED BY <1>4, <1>11, <1>12 DEF p

\* highest_equivalent stays in the slot, at the end of the word too, and is the
\* same for all values of a slot but the last one of a word.
LEMMA HighestInSlot ==
    ASSUME NEW L, ValidLayout(L), NEW v \in Words
    PROVE  /\ HighestEquivalent(L, v) \in Words
           /\ IndexFor(L, HighestEquivalent(L, v)) = IndexFor(L, v)
           /\ LowestEquivalent(L, v) \in Words
           /\ IndexFor(L, LowestEquivalent(L, v)) = IndexFor(L, v)
           /\ \A u \in Words : IndexFor(L, u) = IndexFor(L, v) =>
                /\ LowestEquivalent(L, u) = LowestEquivalent(L, v)
                /\ u # MaxWord /\ v # MaxWord =>
                     HighestEquivalent(L, u) = HighestEquivalent(L, v)
<1> DEFINE i == IndexFor(L, v)
           first == ValueFor(L, i)
           width == EquivalentRange(L, first)
<1>1. PICK b, s : Place(L, i, b, s) /\ Fits(L, b)
  BY PlaceOfValue
<1>2. i \in Nat
  <2>1. b * SubBucketHalfCount(L) \in Nat
    BY <1>1, HalfFacts DEF Place
  <2> QED BY <1>1, <2>1 DEF Place
<1>3. /\ {x \in Words : IndexFor(L, x) = i} = first..(first + width - 1)
      /\ \A x \in {y \in Words : IndexFor(L, y) = i} :
           LowestEquivalent(L, x) = first /\ EquivalentRange(L, x) = width
  <2> HIDE DEF i
  <2> QED BY <1>1, <1>2, SlotIsRange
<1>4. first \in Nat /\ width \in Nat \ {0} /\ first + width <= MaxWord + 1 /\ MaxWord \in Nat
      /\ Words = 0..MaxWord
  <2>1. first = s * Width(L, b) /\ width = Width(L, b)
    <3> HIDE DEF i
    <3> QED BY <1>1, <1>2, SlotBegins
  <2>2. Width(L, b) \in Nat \ {0} /\ s * Width(L, b) \in Nat /\ s * Width(L, b) + Width(L, b) <= 2^W
    BY <1>1, PlaceInWord
  <2> HIDE DEF first, width
  <2> QED BY <2>1, <2>2, WordType
<1> HIDE DEF first, width
<1>5. \A u \in Words : IndexFor(L, u) = i <=> first <= u /\ u <= first + width - 1
  BY <1>3, <1>4
<1>6. ASSUME NEW u \in Words, IndexFor(L, u) = i, u # MaxWord
      PROVE  HighestEquivalent(L, u) = (IF first + width <= MaxWord THEN first + width ELSE MaxWord) - 1
  <2>1. LowestEquivalent(L, u) = first /\ EquivalentRange(L, u) = width
    BY <1>3, <1>6
  <2>2. Min({first + width, MaxWord}) = IF first + width <= MaxWord THEN first + width ELSE MaxWord
    BY <1>4, MinOfTwo
  <2> QED BY <1>6, <2>1, <2>2 DEF HighestEquivalent, NextNonEquivalent
<1>7. HighestEquivalent(L, v) \in Words /\ IndexFor(L, HighestEquivalent(L, v)) = i
  <2>1. CASE v = MaxWord
    BY <2>1 DEF HighestEquivalent
  <2>2. CASE v # MaxWord
    <3> DEFINE x == HighestEquivalent(L, v)
    <3>1. x = (IF first + width <= MaxWord THEN first + width ELSE MaxWord) - 1
      BY <1>6, <2>2
    <3>2. v \in Nat /\ first <= v /\ v <= first + width - 1 /\ v <= MaxWord
      BY <1>4, <1>5
    <3> HIDE DEF x, i
    <3>3. x \in Words /\ first <= x /\ x <= first + width - 1
      BY <1>4, <2>2, <3>1, <3>2
    <3>4. IndexFor(L, x) = i
      BY <1>5, <3>3
    <3> QED BY <3>3, <3>4 DEF x
  <2> QED BY <2>1, <2>2
<1>8. \A u \in Words : IndexFor(L, u) = i => LowestEquivalent(L, u) = first
  BY <1>3
<1>9. LowestEquivalent(L, v) = first /\ first \in Words /\ IndexFor(L, first) = i
  <2>1. LowestEquivalent(L, v) = first
    BY <1>8
  <2>2. first \in Words /\ first <= first + width - 1
    BY <1>4
  <2> QED BY <1>4, <1>5, <2>1, <2>2
<1>10. \A u \in Words : IndexFor(L, u) = i /\ u # MaxWord /\ v # MaxWord =>
          HighestEquivalent(L, u) = HighestEquivalent(L, v)
  BY <1>6
<1> QED BY <1>7, <1>8, <1>9, <1>10

\* Rounded down or up to a multiple of the unit, a value stays in its slot.
LEMMA UnitInSlot ==
    ASSUME NEW L, ValidLayout(L), NEW v \in Words
    PROVE  LET u == 2^L.unit
               low == v - (v % u)
           IN  /\ low \in Words /\ IndexFor(L, low) = IndexFor(L, v)
               /\ low + (u - 1) \in Words /\ IndexFor(L, low + (u - 1)) = IndexFor(L, v)
<1> DEFINE u == 2^L.unit
           i == IndexFor(L, v)
           b == BucketFor(L, v)
           s == SubBucketFor(L, v, b)
           d == Width(L, b)
<1>1. Place(L, i, b, s) /\ Fits(L, b) /\ s * d <= v /\ v < s * d + d
  BY PlaceOfValue
<1>2. \A x \in Words : IndexFor(L, x) = i <=> s * d <= x /\ x < s * d + d
  <2> HIDE DEF i, b, s
  <2> QED BY <1>1, SlotValues
<1>3. d \in Nat \ {0} /\ s * d \in Nat /\ s * d + d <= MaxWord + 1 /\ s \in Nat /\ b \in Nat
  <2>1. s \in Nat /\ b \in Nat
    BY <1>1 DEF Place
  <2>2. d \in Nat \ {0} /\ s * d \in Nat /\ s * d + d <= 2^W
    <3> HIDE DEF i, b, s
    <3> QED BY <1>1, PlaceInWord
  <2> HIDE DEF d, s
  <2> QED BY <2>1, <2>2, WordType
<1> DEFINE p == 2^b
<1>4. u \in Nat \ {0} /\ p \in Nat \ {0} /\ d = p * u
  <2>1. L.unit \in Nat
    BY DEF ValidLayout
  <2> HIDE DEF b
  <2>2. 2^(b + L.unit) = 2^b * 2^L.unit
    BY <1>3, <2>1, PowerPlus
  <2> QED BY <1>3, <2>1, <2>2, PowerType DEF Width
<1> DEFINE q == v \div u
           r == v % u
<1>5. v \in Nat /\ Words = 0..MaxWord /\ MaxWord \in Nat
  BY WordType
<1> HIDE DEF u, i, s, b, d, p
<1>6. q \in Nat /\ q * u <= v /\ v < q * u + u
  BY <1>4, <1>5, DivFacts
<1>7. v - r = q * u
  BY <1>4, <1>5
<1> HIDE DEF q, r
<1>8. s * p \in Nat /\ (s * p) * u = s * d /\ (s * p + p) * u = s * d + d /\ q * u \in Nat
  BY <1>3, <1>4, <1>6
<1> DEFINE a == s * p
<1> HIDE DEF a
<1>9. a * u <= q * u
  <2>1. a \in Nat /\ a * u = s * d /\ (q + 1) * u = q * u + u
    BY <1>4, <1>6, <1>8 DEF a
  <2>2. a * u < (q + 1) * u
    <3> DEFINE x == s * d
               y == q * u
    <3>1. x \in Nat /\ y \in Nat /\ x <= v /\ v < y + u
      BY <1>1, <1>3, <1>6, <1>8
    <3> HIDE DEF x, y
    <3>2. x < y + u
      BY <1>4, <1>5, <3>1
    <3>3. a * u = x /\ (q + 1) * u = y + u
      BY <2>1 DEF x, y
    <3> QED BY <3>2, <3>3
  <2>3. a < q + 1
    BY <1>4, <1>6, <2>1, <2>2, MulLess
  <2>4. a <= q
    BY <1>6, <2>1, <2>3
  <2> QED BY <1>4, <1>6, <2>1, <2>4, MulMono
<1>10. q * u + u <= s * d + d
  <2>1. a \in Nat /\ (a + p) * u = s * d + d /\ (q + 1) * u = q * u + u
    BY <1>4, <1>6, <1>8 DEF a
  <2>2. q * u < (a + p) * u
    <3> DEFINE x == s * d
               y == q * u
    <3>1. x \in Nat /\ y \in Nat /\ y <= v /\ v < x + d
      BY <1>1, <1>3, <1>6, <1>8
    <3> HIDE DEF x, y
    <3>2. y < x + d
      BY <1>3, <1>5, <3>1
    <3>3. (a + p) * u = x + d /\ q * u = y
      BY <2>1 DEF x, y
    <3> QED BY <3>2, <3>3
  <2>3. q < a + p
    BY <1>4, <1>6, <2>1, <2>2, MulLess
  <2>4. q + 1 <= a + p /\ q + 1 \in Nat /\ a + p \in Nat
    BY <1>4, <1>6, <2>1, <2>3
  <2>5. (q + 1) * u <= (a + p) * u
    BY <1>4, <2>4, MulMono
  <2> QED BY <2>1, <2>5
<1> DEFINE low == v - r
<1>11. a * u = s * d
  BY <1>8 DEF a
<1>12. low \in Words /\ s * d <= low /\ low < s * d + d
  BY <1>3, <1>4, <1>5, <1>6, <1>7, <1>8, <1>9, <1>10, <1>11
<1>13. low + (u - 1) \in Words /\ s * d <= low + (u - 1) /\ low + (u - 1) < s * d + d
  BY <1>3, <1>4, <1>5, <1>6, <1>7, <1>8, <1>9, <1>10, <1>11
<1> HIDE DEF low
<1>14. IndexFor(L, low) = i /\ IndexFor(L, low + (u - 1)) = i
  BY <1>2, <1>12, <1>13
<1> QED BY <1>12, <1>13, <1>14 DEF low, r, u, i

\* A slot other than the first begins above the first unit.
LEMMA SlotAboveUnit ==
    ASSUME NEW L, ValidLayout(L), NEW i \in Nat, i # 0, NEW b, NEW s, Place(L, i, b, s), Fits(L, b)
    PROVE  ~(ValueFor(L, i) <= UnitMask(L))
<1> DEFINE d == Width(L, b)
           u == 2^L.unit
           p == 2^b
           half == SubBucketHalfCount(L)
<1>1. ValueFor(L, i) = s * d
  BY SlotBegins
<1>2. b \in Nat /\ s \in Nat /\ i = b * half + s /\ (b > 0 => half <= s) /\ half \in Nat \ {0}
  BY HalfFacts DEF Place
<1> HIDE DEF half
<1>3. s >= 1
  <2>1. CASE b = 0
    BY <1>2, <2>1
  <2>2. CASE b > 0
    BY <1>2, <2>2
  <2> QED BY <1>2, <2>1, <2>2
<1>4. u \in Nat \ {0} /\ p \in Nat \ {0} /\ d = p * u
  <2>1. L.unit \in Nat
    BY DEF ValidLayout
  <2>2. 2^(b + L.unit) = 2^b * 2^L.unit
    BY <1>2, <2>1, PowerPlus
  <2> QED BY <1>2, <2>1, <2>2, PowerType DEF Width
<1> HIDE DEF d, u, p
<1>5. 1 * u <= p * u /\ 1 * d <= s * d
  <2>1. 1 <= p /\ 1 \in Nat /\ p \in Nat /\ u \in Nat
    BY <1>4
  <2>2. 1 * u <= p * u
    BY <2>1, MulMono
  <2>3. d \in Nat
    BY <1>4
  <2>4. 1 * d <= s * d
    BY <1>2, <1>3, <2>1, <2>3, MulMono
  <2> QED BY <2>2, <2>4
<1>6. s * d \in Int /\ d \in Nat
  BY <1>2, <1>4
<1>7. u <= s * d
  BY <1>4, <1>5, <1>6
<1> QED BY <1>1, <1>4, <1>6, <1>7 DEF UnitMask, u

\* The last slot of a word is that of its largest value.
LEMMA IndexAtTop ==
    ASSUME NEW L, ValidLayout(L), NEW v \in Words
    PROVE  IndexFor(L, v) <= IndexFor(L, MaxWord)
<1> DEFINE half == SubBucketHalfCount(L)
           k == L.unit + L.mag
           top == W - k
           s == 2 * half - 1
           i == top * half + s
           d == Width(L, top)
<1>1. W \in Nat /\ k \in Nat /\ top \in Nat /\ top + k = W /\ k + top = W
  BY WordType DEF ValidLayout
<1>2. half \in Nat \ {0}
  BY HalfFacts
<1>3. Place(L, i, top, s) /\ Fits(L, top)
  <2>1. s \in Nat /\ s < 2 * half /\ half <= s
    BY <1>2
  <2>2. Fits(L, top)
    BY <1>1 DEF Fits
  <2> QED BY <1>1, <2>1, <2>2 DEF Place
<1>4. d \in Nat \ {0} /\ 2^W = (2 * half) * d
  BY <1>1, BucketEnd
<1>5. MaxWord = 2^W - 1 /\ MaxWord \in Words
  BY WordType
<1>6. IndexFor(L, MaxWord) = i
  <2>1. s * d <= MaxWord /\ MaxWord < s * d + d
    <3> HIDE DEF d, half
    <3>1. s * d + d = (2 * half) * d /\ s * d \in Int
      BY <1>2, <1>4
    <3> QED BY <1>4, <1>5, <3>1
  <2> QED BY <1>3, <1>5, <2>1, SlotValues
<1>7. PICK b, t : Place(L, IndexFor(L, v), b, t) /\ Fits(L, b)
  BY PlaceOfValue
<1>8. /\ b \in Nat /\ t \in Nat /\ IndexFor(L, v) = b * half + t /\ t <= s /\ b <= top
  BY <1>1, <1>2, <1>7 DEF Place, Fits
<1>9. b * half <= top * half
  <2> HIDE DEF half, top
  <2> QED BY <1>1, <1>2, <1>8, MulMono
<1>10. b * half + t <= top * half + s
  <2>1. b * half \in Int /\ top * half \in Int /\ s \in Int
    BY <1>1, <1>2, <1>8
  <2> DEFINE x == b * half
             y == top * half
  <2> HIDE DEF x, y, s
  <2>2. x \in Int /\ y \in Int /\ x <= y
    BY <1>9, <2>1 DEF x, y
  <2>3. x + t <= y + s
    BY <1>8, <2>1, <2>2
  <2> QED BY <2>3 DEF x, y
<1> QED BY <1>6, <1>8, <1>10

\* Zero is in slot 0.
LEMMA IndexForZero == ASSUME NEW L, ValidLayout(L) PROVE IndexFor(L, 0) = 0
<1>1. L.unit + L.mag \in Nat /\ L.unit \in Nat
  BY DEF ValidLayout
<1>2. BucketFor(L, 0) = 0
  <2>1. BitLen(0) = 0
    BY DEF BitLen
  <2> DEFINE m == L.unit + L.mag
  <2> HIDE DEF m
  <2>2. m \in Nat
    BY <1>1 DEF m
  <2>3. Max({0, m}) = m
    BY <2>2, MaxOfTwo
  <2> QED BY <2>1, <2>2, <2>3 DEF BucketFor, m
<1>3. SubBucketFor(L, 0, 0) = 0
  <2>1. 0 + L.unit = L.unit /\ 2^L.unit \in Nat \ {0}
    BY <1>1, PowerType
  <2> DEFINE u == 2^L.unit
  <2> HIDE DEF u
  <2>2. 0 \div u = 0
    BY <2>1 DEF u
  <2> QED BY <2>1, <2>2 DEF SubBucketFor, u
<1>4. SubBucketHalfCount(L) \in Nat
  BY HalfFacts
<1> QED BY <1>2, <1>3, <1>4 DEF IndexFor

\* index_for is monotone.
LEMMA IndexMonotone ==
    ASSUME NEW L, ValidLayout(L), NEW v \in Words, NEW u \in Words, v <= u
    PROVE  /\ IndexFor(L, v) \in Nat /\ IndexFor(L, u) \in Nat
           /\ IndexFor(L, v) <= IndexFor(L, u)
<1> DEFINE b == BucketFor(L, v)
           c == BucketFor(L, u)
           s == SubBucketFor(L, v, b)
           t == SubBucketFor(L, u, c)
           i == IndexFor(L, v)
           j == IndexFor(L, u)
           half == SubBucketHalfCount(L)
           k == L.unit + L.mag
<1>1. k \in Nat /\ half \in Nat \ {0} /\ v \in Nat /\ u \in Nat
  BY HalfFacts, WordType DEF ValidLayout
<1>2. /\ b \in Nat /\ v < 2^(k + b) /\ (b > 0 => 2^(k + b - 1) <= v)
      /\ c \in Nat /\ u < 2^(k + c) /\ (c > 0 => 2^(k + c - 1) <= u)
  BY BucketFacts
<1>3. /\ Place(L, i, b, s) /\ s * Width(L, b) <= v /\ v < s * Width(L, b) + Width(L, b)
      /\ Place(L, j, c, t) /\ t * Width(L, c) <= u /\ u < t * Width(L, c) + Width(L, c)
  BY PlaceOfValue
<1> HIDE DEF b, c, s, t, i, j, half, k
<1>4. /\ s \in Nat /\ i = b * half + s /\ s < 2 * half /\ (b > 0 => half <= s)
      /\ t \in Nat /\ j = c * half + t /\ t < 2 * half /\ (c > 0 => half <= t)
  BY <1>3 DEF Place, half
<1>5. b * half \in Nat /\ c * half \in Nat /\ i \in Nat /\ j \in Nat
  BY <1>1, <1>2, <1>4
<1>6. CASE b < c
  <2>1. (b + 1) * half <= c * half /\ (b + 1) * half = b * half + half
    <3>1. b + 1 \in Nat /\ b + 1 <= c
      BY <1>2, <1>6
    <3> QED BY <1>1, <1>2, <3>1, MulMono
  <2>2. half <= t
    BY <1>2, <1>4, <1>6
  <2> DEFINE x == b * half
             y == c * half
  <2> HIDE DEF x, y
  <2>3. x \in Nat /\ y \in Nat /\ x + half <= y
    BY <1>5, <2>1 DEF x, y
  <2>4. i = x + s /\ j = y + t
    BY <1>4 DEF x, y
  <2>5. i <= j
    BY <1>1, <1>4, <2>2, <2>3, <2>4
  <2> QED BY <1>5, <2>5 DEF i, j
<1>7. CASE b = c
  <2> DEFINE w == Width(L, b)
  <2>1. w \in Nat \ {0}
    BY <1>2, BucketEnd
  <2> HIDE DEF w
  <2>2. s * w <= v /\ u < t * w + w
    BY <1>3, <1>7 DEF w
  <2>3. s * w < (t + 1) * w
    <3>1. (t + 1) * w = t * w + w /\ s * w \in Nat /\ t * w \in Nat
      BY <1>4, <2>1
    <3> QED BY <1>1, <2>1, <2>2, <3>1
  <2>4. s < t + 1
    BY <1>4, <2>1, <2>3, MulLess
  <2>5. i <= j
    <3> DEFINE x == b * half
    <3> HIDE DEF x
    <3>1. x \in Nat /\ i = x + s /\ j = x + t
      BY <1>4, <1>5, <1>7 DEF x
    <3> QED BY <1>4, <2>4, <3>1
  <2> QED BY <1>5, <2>5 DEF i, j
<1>8. CASE c < b
  <2>1. k + c \in Nat /\ k + b - 1 \in Nat /\ k + c <= k + b - 1 /\ b > 0
    BY <1>1, <1>2, <1>8
  <2>2. 2^(k + c) <= 2^(k + b - 1) /\ 2^(k + c) \in Nat /\ 2^(k + b - 1) \in Nat
    BY <2>1, PowerMono, PowerType
  <2> QED BY <1>1, <1>2, <2>1, <2>2
<1> QED BY <1>2, <1>6, <1>7, <1>8

\* The slots that are not empty, the first and the last of them.
LEMMA NonZeroFacts ==
    ASSUME NEW g, NEW n \in Nat, g.counts \in [0..(n - 1) -> Nat]
    PROVE  /\ NonZero(g) \subseteq 0..(n - 1) /\ IsFiniteSet(NonZero(g))
           /\ NonZero(g) # {} => /\ Max(NonZero(g)) \in NonZero(g)
                                 /\ \A i \in NonZero(g) : i <= Max(NonZero(g))
           /\ NonZero(g) \ {0} # {} => /\ Min(NonZero(g) \ {0}) \in NonZero(g) \ {0}
                                       /\ \A i \in NonZero(g) \ {0} : Min(NonZero(g) \ {0}) <= i
<1>1. NonZero(g) \subseteq 0..(n - 1)
  BY DEF NonZero
<1>2. IsFiniteSet(NonZero(g))
  <2>1. IsFiniteSet(0..(n - 1))
    <3>1. 0 \in Int /\ n - 1 \in Int
      OBVIOUS
    <3> QED BY <3>1, FS_Interval
  <2> QED BY <1>1, <2>1, FS_Subset
<1> DEFINE T == NonZero(g)
<1> HIDE DEF T
<1>3. T # {} => Max(T) \in T /\ \A i \in T : i <= Max(T)
  <2>1. T \subseteq 0..n
    BY <1>1 DEF T
  <2> QED BY <2>1, MaxOfNats
<1>4. T \ {0} # {} => Min(T \ {0}) \in T \ {0} /\ \A i \in T \ {0} : Min(T \ {0}) <= i
  <2>1. T \ {0} \subseteq Nat
    BY <1>1 DEF T
  <2> QED BY <2>1, MinOfNats
<1> QED BY <1>1, <1>2, <1>3, <1>4 DEF T
=============================================================================
