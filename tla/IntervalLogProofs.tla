-------------------------- MODULE IntervalLogProofs --------------------------
(***************************************************************************)
(* Proofs about interval logs, for any comments, tags and times, and any   *)
(* number of calls and failures: the damage a failed write does stays on   *)
(* its line.                                                               *)
(***************************************************************************)
EXTENDS IntervalLog, WellFoundedInduction, TLAPS

\* A sequence, whatever its elements are.
IsSequence(s) == s \in Seq(ToSet(s))

\* What a line may begin with: the iterator parses or skips whatever follows.
GoodStart(f) ==
    /\ f.kind \in {"hash", "StartTime", "BaseTime", "prefix", "torn prefix"}
    /\ f.kind = "prefix" => f.tag # "with a comma"
    /\ f.kind = "torn prefix" => f = Torn

StartsLine(s, k) == k = 1 \/ s[k - 1] = NL

\* Every line of the fragments, the last one included, has a good start.
GoodLines(s) ==
    /\ IsSequence(s)
    /\ \A k \in DOMAIN s : StartsLine(s, k) => GoodStart(s[k])

\* The interval i is on a line of its own, after the first r fragments.
IntervalAfter(s, r, i) ==
    \E j \in (r + 1)..(Len(s) - 2) :
        /\ StartsLine(s, j)
        /\ s[j] = [kind |-> "prefix", tag |-> i.tag, time |-> i.time]
        /\ i.tag # "with a comma"
        /\ s[j + 1] = Body(i.id)
        /\ s[j + 2] = NL

\* How much the iterator has read.
HasRead == Len(log) - Len(rest)

Returned(i) == AsEntry(i) \in Range(entries)

\* The iterator is at the start of a line.
AtLine ==
    /\ IsSequence(rest) /\ Len(rest) <= Len(log)
    /\ rest = SubSeq(log, HasRead + 1, Len(log))
    /\ HasRead = 0 \/ log[HasRead] = NL

Shape ==
    /\ phase \in {"build", "write", "read", "end"}
    /\ writes \in 0..MaxWrites /\ failures \in 0..MaxFailures
    /\ "comments" \in DOMAIN builder /\ GoodLines(builder.comments)
    /\ GoodLines(log)
    /\ IsSequence(entries) /\ IsSequence(intent)
    /\ phase \in {"build", "write"} => rest = <<>>
    /\ phase \in {"read", "end"} => AtLine
    /\ \A k \in DOMAIN entries :
         /\ entries[k].kind \in {"StartTime", "BaseTime", "Interval", "Garbled", "ParseError"}
         /\ entries[k].kind = "ParseError" => k = Len(entries) /\ phase = "end"

\* Whole intervals: in the log while it is written, and then returned or still
\* ahead, if no prefix was cut in two.
Whole(i) == i.ok /\ i.fresh
Kept ==
    \A k \in DOMAIN intent :
        Whole(intent[k]) =>
          /\ phase \in {"build", "write"} => IntervalAfter(log, 0, intent[k])
          /\ phase = "read" => Returned(intent[k]) \/ IntervalAfter(log, HasRead, intent[k])
          /\ phase = "end" /\ Torn \notin Range(log) => Returned(intent[k])

LogInv == Shape /\ Kept

-----------------------------------------------------------------------------
(***************************************************************************)
(* Numbers and sequences                                                   *)
(***************************************************************************)
\* A set of natural numbers that is not empty has a least element.
LEMMA LeastNat ==
    ASSUME NEW T, T \subseteq Nat, T # {}
    PROVE  \E x \in T : \A y \in T : x <= y
<1> DEFINE R == {ss \in Nat \X Nat : ss[1] < ss[2]}
<1>1. R = OpToRel(<, Nat)
  BY Zenon DEF OpToRel
<1>2. IsWellFoundedOn(R, Nat)
  BY <1>1, NatLessThanWellFounded, Zenon
<1> HIDE DEF R
<1>3. PICK x \in T : \A y \in T : ~(<<y, x>> \in R)
  BY <1>2, WFMin, Zenon
<1>4. ASSUME NEW y \in T PROVE x <= y
  <2>1. x \in Nat /\ y \in Nat /\ <<y, x>> \in Nat \X Nat
    OBVIOUS
  <2>2. ~(y < x)
    BY <1>3, <2>1 DEF R
  <2> QED BY <2>1, <2>2
<1> QED BY <1>3, <1>4

\* The domain of a sequence.
LEMMA SeqDomain ==
    ASSUME NEW s, IsSequence(s)
    PROVE  Len(s) \in Nat /\ DOMAIN s = 1..Len(s)
  BY DEF IsSequence

\* Two sequences are of a common set.
LEMMA SeqOfMore ==
    ASSUME NEW s, IsSequence(s), NEW S, ToSet(s) \subseteq S
    PROVE  s \in Seq(S)
  BY DEF IsSequence

\* What is a sequence of some set is a sequence.
LEMMA SeqIsSequence ==
    ASSUME NEW S, NEW s \in Seq(S)
    PROVE  IsSequence(s)
<1>1. s \in [1..Len(s) -> S] /\ Len(s) \in Nat
  OBVIOUS
<1>2. \A i \in 1..Len(s) : s[i] \in ToSet(s)
  BY <1>1 DEF ToSet
<1>3. s = [i \in 1..Len(s) |-> s[i]]
  BY <1>1
<1>4. s \in Seq(ToSet(s))
  BY <1>1, <1>2, <1>3
<1> QED BY <1>4 DEF IsSequence

\* Append, for such sequences.
LEMMA AppendSeq ==
    ASSUME NEW s, IsSequence(s), NEW x
    PROVE  /\ IsSequence(Append(s, x)) /\ Len(Append(s, x)) = Len(s) + 1
           /\ DOMAIN Append(s, x) = 1..(Len(s) + 1) /\ DOMAIN s = 1..Len(s) /\ Len(s) \in Nat
           /\ \A i \in 1..Len(s) : Append(s, x)[i] = s[i]
           /\ Append(s, x)[Len(s) + 1] = x
<1> DEFINE S == ToSet(s) \cup {x}
<1>1. s \in Seq(S) /\ x \in S
  BY SeqOfMore
<1> HIDE DEF S
<1>2. Append(s, x) \in Seq(S)
  BY <1>1
<1>3. IsSequence(Append(s, x))
  BY <1>2, SeqIsSequence
<1> QED BY <1>1, <1>2, <1>3

\* Concatenation, for such sequences.
LEMMA ConcatSeq ==
    ASSUME NEW s, IsSequence(s), NEW t, IsSequence(t)
    PROVE  /\ IsSequence(s \o t)
           /\ Len(s) \in Nat /\ Len(t) \in Nat /\ Len(s \o t) = Len(s) + Len(t)
           /\ DOMAIN (s \o t) = 1..(Len(s) + Len(t))
           /\ \A i \in 1..Len(s) : (s \o t)[i] = s[i]
           /\ \A i \in 1..Len(t) : (s \o t)[Len(s) + i] = t[i]
<1> DEFINE S == ToSet(s) \cup ToSet(t)
<1>1. s \in Seq(S) /\ t \in Seq(S)
  BY SeqOfMore
<1> HIDE DEF S
<1>2. s \o t \in Seq(S) /\ Len(s \o t) = Len(s) + Len(t) /\ Len(s) \in Nat /\ Len(t) \in Nat
  BY <1>1
<1>3. \A i \in 1..Len(s) : (s \o t)[i] = s[i]
  BY <1>1
<1>4. \A i \in 1..Len(t) : (s \o t)[Len(s) + i] = t[i]
  BY <1>1
<1>5. IsSequence(s \o t)
  BY <1>2, SeqIsSequence
<1>6. DOMAIN (s \o t) = 1..(Len(s) + Len(t))
  BY <1>2
<1> QED BY <1>2, <1>3, <1>4, <1>5, <1>6

\* A part of such a sequence.
LEMMA SubSeqSeq ==
    ASSUME NEW s, IsSequence(s), NEW m \in 1..(Len(s) + 1), NEW n \in (m - 1)..Len(s)
    PROVE  /\ IsSequence(SubSeq(s, m, n)) /\ Len(SubSeq(s, m, n)) = n - m + 1
           /\ DOMAIN SubSeq(s, m, n) = 1..(n - m + 1)
           /\ \A i \in 1..(n - m + 1) : SubSeq(s, m, n)[i] = s[m + i - 1]
<1> DEFINE S == ToSet(s)
<1>1. s \in Seq(S) /\ Len(s) \in Nat
  BY DEF IsSequence
<1> HIDE DEF S
<1>2. /\ SubSeq(s, m, n) \in Seq(S) /\ Len(SubSeq(s, m, n)) = n - m + 1
      /\ DOMAIN SubSeq(s, m, n) = 1..(n - m + 1)
      /\ \A i \in 1..(n - m + 1) : SubSeq(s, m, n)[i] = s[m + i - 1]
  BY <1>1
<1> QED BY <1>2, SeqIsSequence

\* Two sequences with the same elements are equal.
LEMMA SeqSame ==
    ASSUME NEW s, IsSequence(s), NEW t, IsSequence(t),
           Len(s) = Len(t), \A i \in 1..Len(s) : s[i] = t[i]
    PROVE  s = t
<1>1. s \in [1..Len(s) -> ToSet(s)] /\ t \in [1..Len(t) -> ToSet(t)]
  BY DEF IsSequence
<1> QED BY <1>1

-----------------------------------------------------------------------------
(***************************************************************************)
(* Lines                                                                   *)
(***************************************************************************)
LEMMA GoodEmpty == GoodLines(<<>>)
  BY DEF GoodLines, IsSequence, ToSet

\* Lines after lines.
LEMMA GoodConcat ==
    ASSUME NEW s, GoodLines(s), NEW t, GoodLines(t)
    PROVE  GoodLines(s \o t)
<1> DEFINE u == s \o t
<1>1. IsSequence(s) /\ IsSequence(t)
  BY DEF GoodLines
<1>2. /\ IsSequence(u) /\ Len(s) \in Nat /\ Len(t) \in Nat
      /\ DOMAIN u = 1..(Len(s) + Len(t)) /\ DOMAIN s = 1..Len(s) /\ DOMAIN t = 1..Len(t)
      /\ \A i \in 1..Len(s) : u[i] = s[i]
      /\ \A i \in 1..Len(t) : u[Len(s) + i] = t[i]
  BY <1>1, ConcatSeq, SeqDomain
<1> HIDE DEF u
<1>3. ASSUME NEW k \in DOMAIN u, StartsLine(u, k) PROVE GoodStart(u[k])
  <2>1. CASE k <= Len(s)
    <3>1. k \in 1..Len(s) /\ (k = 1 \/ k - 1 \in 1..Len(s))
      BY <1>2, <2>1
    <3>2. StartsLine(s, k)
      BY <1>2, <1>3, <3>1 DEF StartsLine
    <3> QED BY <1>2, <3>1, <3>2 DEF GoodLines
  <2>2. CASE k > Len(s)
    <3>1. PICK i \in 1..Len(t) : k = Len(s) + i
      <4>1. k - Len(s) \in 1..Len(t) /\ k = Len(s) + (k - Len(s))
        BY <1>2, <2>2
      <4> QED BY <4>1
    <3>2. StartsLine(t, i)
      <4>1. CASE i = 1
        BY <4>1 DEF StartsLine
      <4>2. CASE i # 1
        <5>1. i - 1 \in 1..Len(t) /\ k - 1 = Len(s) + (i - 1) /\ k # 1
          BY <1>2, <3>1, <4>2
        <5> QED BY <1>2, <1>3, <5>1 DEF StartsLine
      <4> QED BY <4>1, <4>2
    <3> QED BY <1>2, <3>1, <3>2 DEF GoodLines
  <2> QED BY <1>2, <2>1, <2>2
<1> QED BY <1>2, <1>3 DEF GoodLines, u

\* What is left of a fragment is nothing, or something that starts a line as well
\* as the fragment does.
LEMMA LeftShape ==
    ASSUME NEW f, NEW left \in Left(f)
    PROVE  left = <<>> \/ \E g : left = <<g>> /\ (GoodStart(f) => GoodStart(g))
<1>0. GoodStart(Torn) /\ GoodStart(Hash("plain"))
  BY DEF GoodStart, Torn, Hash
<1>1. CASE f.kind = "prefix"
  <2>1. left \in {<<>>, <<Torn>>}
    BY <1>1 DEF Left
  <2> QED BY <1>0, <2>1
<1>2. CASE f.kind = "body"
  <2>1. left \in {<<>>, <<[f EXCEPT !.whole = FALSE]>>}
    BY <1>2 DEF Left
  <2> QED BY <1>2, <2>1 DEF GoodStart
<1>3. CASE f.kind = "hash"
  <2>1. left \in {<<>>, <<Hash("plain")>>, <<f>>}
    BY <1>3 DEF Left
  <2> QED BY <1>0, <2>1
<1>4. CASE f.kind = "newline"
  BY <1>4 DEF Left
<1>5. CASE f.kind \notin {"prefix", "body", "hash", "newline"}
  <2>1. left \in {<<>>, <<Hash("plain")>>}
    BY <1>5 DEF Left
  <2> QED BY <1>0, <2>1
<1> QED BY <1>1, <1>2, <1>3, <1>4, <1>5

\* A write that fails leaves good lines.
LEMMA GoodCut ==
    ASSUME NEW s, GoodLines(s), NEW n \in 0..(Len(s) - 1), NEW left \in Left(s[n + 1])
    PROVE  GoodLines(SubSeq(s, 1, n) \o left)
<1> DEFINE p == SubSeq(s, 1, n)
           u == p \o left
<1>1. IsSequence(s) /\ Len(s) \in Nat /\ DOMAIN s = 1..Len(s)
  BY SeqDomain DEF GoodLines
<1>2. /\ IsSequence(p) /\ Len(p) = n /\ DOMAIN p = 1..n
      /\ \A i \in 1..n : p[i] = s[i]
  <2>1. 1 \in 1..(Len(s) + 1) /\ n \in (1 - 1)..Len(s)
    BY <1>1
  <2>2. /\ IsSequence(p) /\ Len(p) = n - 1 + 1 /\ DOMAIN p = 1..(n - 1 + 1)
        /\ \A i \in 1..(n - 1 + 1) : p[i] = s[1 + i - 1]
    BY <1>1, <2>1, SubSeqSeq
  <2>3. n - 1 + 1 = n /\ \A i \in 1..n : 1 + i - 1 = i
    BY <1>1
  <2> QED BY <2>2, <2>3
<1>3. ASSUME NEW k \in 1..n, StartsLine(p, k) PROVE GoodStart(p[k])
  <2>1. k \in DOMAIN s /\ (k = 1 \/ k - 1 \in 1..n)
    BY <1>1
  <2>2. StartsLine(s, k)
    BY <1>2, <1>3, <2>1 DEF StartsLine
  <2> QED BY <1>2, <2>1, <2>2 DEF GoodLines
<1>4. GoodLines(p)
  BY <1>2, <1>3 DEF GoodLines
<1>5. CASE left = <<>>
  BY <1>4, <1>5, GoodEmpty, GoodConcat
<1>6. ASSUME NEW g, left = <<g>>, GoodStart(s[n + 1]) => GoodStart(g)
      PROVE  GoodLines(u)
  <2>1. IsSequence(left) /\ Len(left) = 1 /\ left[1] = g
    <3>1. left \in Seq({g})
      BY <1>6
    <3> QED BY <1>6, <3>1, SeqIsSequence
  <2>2. /\ IsSequence(u) /\ DOMAIN u = 1..(n + 1)
        /\ \A i \in 1..n : u[i] = p[i]
        /\ u[n + 1] = g
    <3> HIDE DEF p
    <3>1. /\ IsSequence(u) /\ DOMAIN u = 1..(Len(p) + Len(left))
          /\ \A i \in 1..Len(p) : u[i] = p[i]
          /\ \A i \in 1..Len(left) : u[Len(p) + i] = left[i]
      <4>1. IsSequence(p) /\ IsSequence(left)
        BY <1>2, <2>1
      <4> QED BY <4>1, ConcatSeq, SMTT(30)
    <3> QED BY <1>2, <2>1, <3>1
  <2> HIDE DEF p, u
  <2>3. ASSUME NEW k \in DOMAIN u, StartsLine(u, k) PROVE GoodStart(u[k])
    <3>1. CASE k \in 1..n
      <4>1. k = 1 \/ k - 1 \in 1..n
        BY <3>1
      <4> QED BY <1>3, <2>2, <2>3, <3>1, <4>1 DEF StartsLine
    <3>2. CASE k = n + 1
      <4>1. n = 0 \/ u[n] = NL
        BY <2>2, <2>3, <3>2 DEF StartsLine
      <4>2. n + 1 \in DOMAIN s /\ (n = 0 \/ s[n] = NL)
        BY <1>1, <1>2, <2>2, <4>1
      <4>3. StartsLine(s, n + 1)
        BY <4>2 DEF StartsLine
      <4> QED BY <1>6, <2>2, <3>2, <4>2, <4>3 DEF GoodLines
    <3> QED BY <2>2, <3>1, <3>2
  <2> QED BY <2>2, <2>3 DEF GoodLines
<1> QED BY <1>5, <1>6, LeftShape

\* The kinds of fragments are different, so that only a newline ends a line.
LEMMA KindsDiffer ==
    /\ \A text : Hash(text) # NL
    /\ \A kind, time : kind # "newline" => [kind |-> kind, time |-> time] # NL
    /\ \A kind, tag, time : kind # "newline" => [kind |-> kind, tag |-> tag, time |-> time] # NL
    /\ \A id : Body(id) # NL
<1>1. NL.kind = "newline"
  BY DEF NL
<1>2. /\ \A text : Hash(text).kind = "hash"
      /\ \A id : Body(id).kind = "body"
  BY DEF Hash, Body
<1> QED BY <1>1, <1>2

\* A comment is lines that the iterator skips.
LEMMA GoodComment == \A c \in Comments : GoodLines(CommentLines(c))
<1> TAKE c \in Comments
<1> DEFINE s == CommentLines(c)
<1>1. Len(c) \in Nat /\ 2 * Len(c) \in Nat
  <2>1. c \in Seq({"plain", "like a StartTime"})
    BY IntervalLogAssumption, Zenon
  <2>2. Len(c) \in Nat
    <3>1. IsSequence(c)
      BY <2>1, SeqIsSequence
    <3> QED BY <3>1, SeqDomain
  <2> HIDE DEF s
  <2> QED BY <2>2
<1>2. /\ DOMAIN s = 1..(2 * Len(c))
      /\ \A k \in 1..(2 * Len(c)) :
            s[k] = IF k % 2 = 1 THEN Hash(c[(k + 1) \div 2]) ELSE NL
  BY DEF CommentLines
<1>3. IsSequence(s)
  <2>1. \A k \in 1..(2 * Len(c)) : s[k] \in ToSet(s)
    BY <1>2 DEF ToSet
  <2>2. s = [k \in 1..(2 * Len(c)) |-> s[k]]
    BY DEF CommentLines
  <2> HIDE DEF s
  <2>4. s \in Seq(ToSet(s))
    BY <1>1, <2>1, <2>2
  <2> QED BY <2>4 DEF IsSequence
<1> HIDE DEF s
<1>4. ASSUME NEW k \in DOMAIN s, StartsLine(s, k) PROVE GoodStart(s[k])
  <2>1. k % 2 = 1
    <3>1. CASE k = 1
      BY <3>1
    <3>2. CASE k # 1
      <4>1. k - 1 \in 1..(2 * Len(c)) /\ s[k - 1] = NL
        BY <1>2, <1>4, <3>2 DEF StartsLine
      <4>2. (k - 1) % 2 # 1
        BY <1>2, <4>1, KindsDiffer
      <4> QED BY <1>1, <1>2, <4>2
    <3> QED BY <3>1, <3>2
  <2>2. s[k] = Hash(c[(k + 1) \div 2])
    BY <1>2, <2>1
  <2> QED BY <2>2 DEF GoodStart, Hash
<1> QED BY <1>3, <1>4 DEF GoodLines, s

\* A line of one fragment.
LEMMA GoodLine ==
    ASSUME NEW f, GoodStart(f), f # NL
    PROVE  GoodLines(<<f, NL>>)
<1>1. <<f, NL>> \in Seq({f, NL})
  OBVIOUS
<1>2. IsSequence(<<f, NL>>)
  BY <1>1, SeqIsSequence
<1> QED BY <1>2 DEF GoodLines, StartsLine

\* A header is lines that the iterator skips.
LEMMA GoodHeader ==
    ASSUME GoodLines(builder.comments)
    PROVE  GoodLines(HeaderLines)
<1>1. \A opt, which : which \in {"StartTime", "BaseTime"} => GoodLines(HeaderLine(which, opt))
  <2> TAKE opt, which
  <2> HAVE which \in {"StartTime", "BaseTime"}
  <2> DEFINE f == [kind |-> which, time |-> opt.time]
  <2>1. GoodStart(f) /\ f # NL
    BY KindsDiffer DEF GoodStart
  <2>2. GoodLines(<<f, NL>>)
    BY <2>1, GoodLine
  <2> QED BY <2>2, GoodEmpty DEF HeaderLine
<1>2. GoodLines(<<Hash("plain"), NL>>)
  BY GoodLine, KindsDiffer DEF GoodStart, Hash
<1>3. GoodLines(IF builder.divisor THEN <<Hash("plain"), NL>> ELSE <<>>)
  BY <1>2, GoodEmpty
<1>4. GoodLines(builder.comments \o HeaderLine("StartTime", builder.start))
  BY <1>1, GoodConcat
<1>5. GoodLines(builder.comments \o HeaderLine("StartTime", builder.start)
                  \o HeaderLine("BaseTime", builder.base))
  BY <1>1, <1>4, GoodConcat
<1> QED BY <1>3, <1>5, GoodConcat DEF HeaderLines

\* An interval is a line that the iterator parses.
LEMMA GoodInterval ==
    ASSUME NEW tag, TagNew(tag), NEW t, NEW id
    PROVE  GoodLines(IntervalLine(tag, t, id))
<1> DEFINE f == [kind |-> "prefix", tag |-> tag, time |-> Fixed(t)]
<1>1. GoodStart(f) /\ f # NL /\ Body(id) # NL
  BY KindsDiffer DEF GoodStart, TagNew
<1> HIDE DEF f
<1>2. <<f, Body(id), NL>> \in Seq({f, Body(id), NL})
  OBVIOUS
<1>3. IsSequence(<<f, Body(id), NL>>)
  BY <1>2, SeqIsSequence
<1>4. GoodLines(<<f, Body(id), NL>>)
  BY <1>1, <1>3 DEF GoodLines, StartsLine
<1> QED BY <1>4 DEF IntervalLine, f

-----------------------------------------------------------------------------
(***************************************************************************)
(* Writing                                                                 *)
(***************************************************************************)
\* The bounds are numbers.
LEMMA Bounds == MaxWrites \in Nat /\ MaxFailures \in Nat
  BY IntervalLogAssumption, Zenon

\* Writing good lines, with or without a failure, adds good lines to the log.
LEMMA Adds ==
    ASSUME NEW s, GoodLines(s), failures \in 0..MaxFailures,
           Write(s) \/ \E n \in 0..(Len(s) - 1) : FailAfter(s, n)
    PROVE  /\ failures' \in 0..MaxFailures
           /\ \E t : GoodLines(t) /\ log' = log \o t
<1>1. CASE Write(s)
  BY <1>1 DEF Write
<1>2. ASSUME NEW n \in 0..(Len(s) - 1), FailAfter(s, n)
      PROVE  /\ failures' \in 0..MaxFailures
             /\ \E t : GoodLines(t) /\ log' = log \o t
  <2>1. PICK left \in Left(s[n + 1]) : log' = log \o (SubSeq(s, 1, n) \o left)
    BY <1>2 DEF FailAfter
  <2>2. GoodLines(SubSeq(s, 1, n) \o left)
    BY GoodCut
  <2>3. failures' \in 0..MaxFailures
    BY <1>2, Bounds DEF FailAfter
  <2> QED BY <2>1, <2>2, <2>3
<1> QED BY <1>1, <1>2

\* An interval in the log stays where it is.
LEMMA StaysInLog ==
    ASSUME IsSequence(log), NEW t, IsSequence(t), log' = log \o t,
           NEW i, IntervalAfter(log, 0, i)
    PROVE  IntervalAfter(log', 0, i)
<1>1. /\ Len(log) \in Nat /\ Len(t) \in Nat /\ Len(log') = Len(log) + Len(t)
      /\ \A k \in 1..Len(log) : log'[k] = log[k]
  BY ConcatSeq
<1>2. PICK j \in (0 + 1)..(Len(log) - 2) :
          /\ StartsLine(log, j)
          /\ log[j] = [kind |-> "prefix", tag |-> i.tag, time |-> i.time]
          /\ i.tag # "with a comma"
          /\ log[j + 1] = Body(i.id)
          /\ log[j + 2] = NL
  BY DEF IntervalAfter
<1>3. /\ j \in 1..Len(log) /\ j + 1 \in 1..Len(log) /\ j + 2 \in 1..Len(log)
      /\ j = 1 \/ j - 1 \in 1..Len(log)
      /\ j \in (0 + 1)..(Len(log') - 2)
  BY <1>1
<1>4. StartsLine(log', j)
  BY <1>1, <1>2, <1>3 DEF StartsLine
<1> QED BY <1>1, <1>2, <1>3, <1>4 DEF IntervalAfter

\* Lines are added and nothing else happens to the log's history.
LEMMA AddsKeep ==
    ASSUME LogInv, NEW t, GoodLines(t), log' = log \o t, phase \in {"build", "write"}
    PROVE  /\ GoodLines(log')
           /\ \A k \in DOMAIN intent : Whole(intent[k]) =>
                 \A i : i = intent[k] => IntervalAfter(log', 0, i)
<1>1. GoodLines(log')
  BY GoodConcat DEF LogInv, Shape
<1>2. ASSUME NEW k \in DOMAIN intent, Whole(intent[k]), NEW i, i = intent[k]
      PROVE  IntervalAfter(log', 0, i)
  <2>1. IntervalAfter(log, 0, i)
    BY <1>2 DEF LogInv, Kept
  <2>2. IsSequence(log) /\ IsSequence(t)
    BY DEF LogInv, Shape, GoodLines
  <2> QED BY <2>1, <2>2, StaysInLog
<1> QED BY <1>1, <1>2

\* The calls on the builder.
LEMMA BuilderKeeps ==
    ASSUME LogInv, AddComment \/ WithStartTime \/ WithBaseTime \/ WithMaxValueDivisor
    PROVE  LogInv'
<1>1. /\ UNCHANGED <<phase, log, rest, entries, failures, intent>>
      /\ phase = "build" /\ writes < MaxWrites /\ writes' = writes + 1
  BY DEF AddComment, WithStartTime, WithBaseTime, WithMaxValueDivisor, Building
<1>2. writes' \in 0..MaxWrites
  BY <1>1, Bounds DEF LogInv, Shape
<1>3. "comments" \in DOMAIN builder' /\ GoodLines(builder'.comments)
  <2>1. "comments" \in DOMAIN builder /\ GoodLines(builder.comments)
    BY DEF LogInv, Shape
  <2>2. CASE AddComment
    <3>1. PICK c \in Comments : builder' = [builder EXCEPT !.comments = @ \o CommentLines(c)]
      BY <2>2 DEF AddComment
    <3>2. builder'.comments = builder.comments \o CommentLines(c) /\ "comments" \in DOMAIN builder'
      BY <2>1, <3>1
    <3> QED BY <2>1, <3>2, GoodComment, GoodConcat
  <2>3. CASE WithStartTime
    BY <2>1, <2>3 DEF WithStartTime
  <2>4. CASE WithBaseTime
    BY <2>1, <2>4 DEF WithBaseTime
  <2>5. CASE WithMaxValueDivisor
    BY <2>1, <2>5 DEF WithMaxValueDivisor
  <2> QED BY <2>2, <2>3, <2>4, <2>5
<1>4. Shape'
  BY <1>1, <1>2, <1>3 DEF LogInv, Shape
<1>5. \A i : IntervalAfter(log', 0, i) = IntervalAfter(log, 0, i)
  BY <1>1 DEF IntervalAfter
<1>6. Kept'
  BY <1>1, <1>5 DEF LogInv, Kept
<1> QED BY <1>4, <1>6 DEF LogInv

\* begin_log_with
LEMMA BeginKeeps == LogInv /\ BeginLogWith => LogInv'
<1> SUFFICES ASSUME LogInv, BeginLogWith PROVE LogInv'
  OBVIOUS
<1>1. /\ UNCHANGED <<builder, rest, entries, writes, intent>>
      /\ phase = "build" /\ phase' = "write" /\ log' = log \o HeaderLines /\ UNCHANGED failures
  BY DEF BeginLogWith, Write
<1>2. GoodLines(HeaderLines)
  BY GoodHeader DEF LogInv, Shape
<1>3. /\ GoodLines(log')
      /\ \A k \in DOMAIN intent : Whole(intent[k]) =>
            \A i : i = intent[k] => IntervalAfter(log', 0, i)
  BY <1>1, <1>2, AddsKeep
<1>4. Shape'
  BY <1>1, <1>3 DEF LogInv, Shape
<1>5. Kept'
  BY <1>1, <1>3 DEF Kept
<1> QED BY <1>4, <1>5 DEF LogInv

\* The iterator starts at the beginning of the log.
LEMMA StartReading ==
    ASSUME IsSequence(log)', rest' = log'
    PROVE  AtLine' /\ (HasRead = 0)'
<1>1. Len(log') \in Nat /\ DOMAIN log' = 1..Len(log')
  BY SeqDomain
<1>2. HasRead' = 0
  BY <1>1 DEF HasRead
<1>3. SubSeq(log', 1, Len(log')) = log'
  <2>1. 1 \in 1..(Len(log') + 1) /\ Len(log') \in (1 - 1)..Len(log')
    BY <1>1
  <2> DEFINE p == SubSeq(log', 1, Len(log'))
  <2>2. /\ IsSequence(p) /\ Len(p) = Len(log') - 1 + 1
        /\ \A i \in 1..(Len(log') - 1 + 1) : p[i] = log'[1 + i - 1]
    BY <2>1, SubSeqSeq
  <2>3. Len(log') - 1 + 1 = Len(log') /\ \A i \in 1..Len(log') : 1 + i - 1 = i
    BY <1>1
  <2> HIDE DEF p
  <2>4. p = log'
    BY <2>2, <2>3, SeqSame
  <2> QED BY <2>4 DEF p
<1> QED BY <1>1, <1>2, <1>3 DEF AtLine

\* begin_log_with, when a write fails
LEMMA BeginFailsKeeps == LogInv /\ BeginLogWithFails => LogInv'
<1> SUFFICES ASSUME LogInv, BeginLogWithFails PROVE LogInv'
  OBVIOUS
<1>1. /\ UNCHANGED <<builder, entries, writes, intent>>
      /\ phase = "build" /\ phase' = "read" /\ rest' = log'
  BY DEF BeginLogWithFails
<1>2. GoodLines(HeaderLines) /\ failures \in 0..MaxFailures
  BY GoodHeader DEF LogInv, Shape
<1>3. failures' \in 0..MaxFailures /\ \E t : GoodLines(t) /\ log' = log \o t
  BY <1>2, Adds DEF BeginLogWithFails
<1>4. PICK t : GoodLines(t) /\ log' = log \o t
  BY <1>3
<1>5. /\ GoodLines(log')
      /\ \A k \in DOMAIN intent : Whole(intent[k]) =>
            \A i : i = intent[k] => IntervalAfter(log', 0, i)
  BY <1>1, <1>4, AddsKeep
<1>6. AtLine' /\ HasRead' = 0
  BY <1>1, <1>5, StartReading DEF GoodLines
<1>7. Shape'
  BY <1>1, <1>3, <1>5, <1>6 DEF LogInv, Shape
<1>8. Kept'
  BY <1>1, <1>5, <1>6 DEF Kept
<1> QED BY <1>7, <1>8 DEF LogInv

\* write_comment, whole or cut
LEMMA WriteCommentKeeps == LogInv /\ WriteComment => LogInv'
<1> SUFFICES ASSUME LogInv, WriteComment PROVE LogInv'
  OBVIOUS
<1>1. /\ UNCHANGED <<phase, builder, rest, entries, intent>>
      /\ phase = "write" /\ writes < MaxWrites /\ writes' = writes + 1
  BY DEF WriteComment, Writing
<1>2. writes' \in 0..MaxWrites /\ failures \in 0..MaxFailures
  BY <1>1, Bounds DEF LogInv, Shape
<1>3. PICK c \in Comments :
        \/ Write(CommentLines(c))
        \/ \E n \in 0..(Len(CommentLines(c)) - 1) : FailAfter(CommentLines(c), n)
  BY DEF WriteComment
<1>4. failures' \in 0..MaxFailures /\ \E t : GoodLines(t) /\ log' = log \o t
  BY <1>2, <1>3, Adds, GoodComment
<1>5. PICK t : GoodLines(t) /\ log' = log \o t
  BY <1>4
<1>6. /\ GoodLines(log')
      /\ \A k \in DOMAIN intent : Whole(intent[k]) =>
            \A i : i = intent[k] => IntervalAfter(log', 0, i)
  BY <1>1, <1>5, AddsKeep
<1>7. Shape'
  BY <1>1, <1>2, <1>4, <1>6 DEF LogInv, Shape
<1>8. Kept'
  BY <1>1, <1>6 DEF Kept
<1> QED BY <1>7, <1>8 DEF LogInv

\* A whole interval that begins a line is on a line of its own.
LEMMA FreshLine ==
    ASSUME IsSequence(log), NEW tag, TagNew(tag), NEW t, NEW id,
           log' = log \o IntervalLine(tag, t, id), log = <<>> \/ Last(log) = NL,
           NEW i, i.tag = tag, i.time = Fixed(t), i.id = id
    PROVE  IntervalAfter(log', 0, i)
<1> DEFINE line == IntervalLine(tag, t, id)
           j == Len(log) + 1
<1>1. /\ IsSequence(line) /\ Len(line) = 3
      /\ line[1] = [kind |-> "prefix", tag |-> tag, time |-> Fixed(t)]
      /\ line[2] = Body(id) /\ line[3] = NL
  BY GoodInterval DEF GoodLines, IntervalLine
<1> HIDE DEF line
<1>2. /\ Len(log) \in Nat /\ Len(log') = Len(log) + 3
      /\ \A k \in 1..Len(log) : log'[k] = log[k]
      /\ \A k \in 1..3 : log'[Len(log) + k] = line[k]
  <2>1. IsSequence(log) /\ IsSequence(line) /\ log' = log \o line
    BY <1>1 DEF line
  <2>2. /\ Len(log) \in Nat /\ Len(log \o line) = Len(log) + Len(line)
        /\ \A k \in 1..Len(log) : (log \o line)[k] = log[k]
        /\ \A k \in 1..Len(line) : (log \o line)[Len(log) + k] = line[k]
    BY <2>1, ConcatSeq, SMTT(30)
  <2> QED BY <1>1, <2>1, <2>2
<1>3. StartsLine(log', j)
  <2>1. CASE log = <<>>
    BY <1>2, <2>1 DEF StartsLine
  <2>2. CASE log # <<>>
    <3>1. Len(log) \in 1..Len(log) /\ log[Len(log)] = NL /\ j - 1 = Len(log)
      BY <1>2, <2>2, SeqDomain DEF Last, IsSequence
    <3> QED BY <1>2, <3>1 DEF StartsLine
  <2> QED BY <2>1, <2>2
<1>4. /\ log'[j] = [kind |-> "prefix", tag |-> i.tag, time |-> i.time]
      /\ log'[j + 1] = Body(i.id) /\ log'[j + 2] = NL
  <2>1. j + 1 = Len(log) + 2 /\ j + 2 = Len(log) + 3
    BY <1>2
  <2> QED BY <1>1, <1>2, <2>1
<1>5. j \in (0 + 1)..(Len(log') - 2)
  BY <1>2
<1> QED BY <1>3, <1>4, <1>5 DEF IntervalAfter, TagNew

\* write_histogram, whole or cut
LEMMA WriteHistogramKeeps == LogInv /\ WriteHistogram => LogInv'
<1> SUFFICES ASSUME LogInv, WriteHistogram PROVE LogInv'
  OBVIOUS
<1>1. /\ UNCHANGED <<phase, builder, rest, entries>>
      /\ phase = "write" /\ writes < MaxWrites /\ writes' = writes + 1
  BY DEF WriteHistogram, Writing
<1>2. writes' \in 0..MaxWrites /\ failures \in 0..MaxFailures
  BY <1>1, Bounds DEF LogInv, Shape
<1>3. PICK tag \in {s \in Tags : TagNew(s)}, t \in {u \in Times : u >= 0}, ok \in BOOLEAN :
        /\ intent' = Append(intent, [tag |-> tag, time |-> Fixed(t), id |-> writes, ok |-> ok,
                                     fresh |-> log = <<>> \/ Last(log) = NL])
        /\ IF ok THEN Write(IntervalLine(tag, t, writes))
           ELSE \E n \in 0..(Len(IntervalLine(tag, t, writes)) - 1) :
                   FailAfter(IntervalLine(tag, t, writes), n)
  BY DEF WriteHistogram
<1> DEFINE line == IntervalLine(tag, t, writes)
           new == [tag |-> tag, time |-> Fixed(t), id |-> writes, ok |-> ok,
                   fresh |-> log = <<>> \/ Last(log) = NL]
<1>4. GoodLines(line) /\ TagNew(tag)
  BY GoodInterval
<1>5. failures' \in 0..MaxFailures /\ \E f : GoodLines(f) /\ log' = log \o f
  <2>1. Write(line) \/ \E n \in 0..(Len(line) - 1) : FailAfter(line, n)
    BY <1>3
  <2> HIDE DEF line
  <2> QED BY <1>2, <1>4, <2>1, Adds
<1>6. PICK f : GoodLines(f) /\ log' = log \o f
  BY <1>5
<1>7. /\ GoodLines(log')
      /\ \A k \in DOMAIN intent : Whole(intent[k]) =>
            \A i : i = intent[k] => IntervalAfter(log', 0, i)
  BY <1>1, <1>6, AddsKeep
<1>8. ASSUME Whole(new), NEW i, i = new PROVE IntervalAfter(log', 0, i)
  <2>1. ok /\ (log = <<>> \/ Last(log) = NL)
    BY <1>8 DEF Whole
  <2>2. log' = log \o line
    BY <1>3, <2>1 DEF Write
  <2>3. i.tag = tag /\ i.time = Fixed(t) /\ i.id = writes
    BY <1>8
  <2>4. IsSequence(log)
    BY DEF LogInv, Shape, GoodLines
  <2> QED BY <1>4, <2>1, <2>2, <2>3, <2>4, FreshLine
<1> HIDE DEF new
<1>9. /\ IsSequence(intent') /\ DOMAIN intent' = 1..(Len(intent) + 1)
      /\ Len(intent) \in Nat /\ DOMAIN intent = 1..Len(intent)
      /\ \A k \in 1..Len(intent) : intent'[k] = intent[k]
      /\ intent'[Len(intent) + 1] = new
  BY <1>3, AppendSeq DEF LogInv, Shape, new
<1>10. Shape'
  BY <1>1, <1>2, <1>5, <1>7, <1>9 DEF LogInv, Shape
<1>11. \A k \in DOMAIN intent' : Whole(intent'[k]) =>
            \A i : i = intent'[k] => IntervalAfter(log', 0, i)
  <2> TAKE k \in DOMAIN intent'
  <2>1. CASE k \in 1..Len(intent)
    BY <1>7, <1>9, <2>1
  <2>2. CASE k = Len(intent) + 1
    BY <1>8, <1>9, <2>2
  <2> QED BY <1>9, <2>1, <2>2
<1>12. Kept'
  BY <1>1, <1>11 DEF Kept, Whole
<1> QED BY <1>10, <1>12 DEF LogInv

\* IntervalLogIterator::new
LEMMA IteratorNewKeeps == LogInv /\ IteratorNew => LogInv'
<1> SUFFICES ASSUME LogInv, IteratorNew PROVE LogInv'
  OBVIOUS
<1>1. /\ UNCHANGED <<builder, log, entries, writes, failures, intent>>
      /\ phase = "write" /\ phase' = "read" /\ rest' = log
  BY DEF IteratorNew
<1>2. AtLine' /\ HasRead' = 0
  <2>1. IsSequence(log)' /\ rest' = log'
    BY <1>1 DEF LogInv, Shape, GoodLines
  <2> QED BY <2>1, StartReading
<1>3. \A i : IntervalAfter(log', 0, i) = IntervalAfter(log, 0, i)
  BY <1>1 DEF IntervalAfter
<1>4. Shape'
  BY <1>1, <1>2 DEF LogInv, Shape
<1>5. Kept'
  BY <1>1, <1>2, <1>3 DEF LogInv, Kept
<1> QED BY <1>4, <1>5 DEF LogInv

-----------------------------------------------------------------------------
(***************************************************************************)
(* Reading                                                                 *)
(***************************************************************************)
\* The unread fragments are those of the log from HasRead on.
LEMMA RestFacts ==
    ASSUME IsSequence(log), AtLine
    PROVE  /\ Len(log) \in Nat /\ DOMAIN log = 1..Len(log)
           /\ Len(rest) \in Nat /\ DOMAIN rest = 1..Len(rest)
           /\ HasRead \in Nat /\ Len(log) = HasRead + Len(rest)
           /\ \A i \in 1..Len(rest) : rest[i] = log[HasRead + i]
<1>1. /\ Len(log) \in Nat /\ DOMAIN log = 1..Len(log)
      /\ Len(rest) \in Nat /\ DOMAIN rest = 1..Len(rest) /\ Len(rest) <= Len(log)
  BY SeqDomain DEF AtLine
<1>2. HasRead \in Nat /\ Len(log) = HasRead + Len(rest)
  BY <1>1 DEF HasRead
<1>3. HasRead + 1 \in 1..(Len(log) + 1) /\ Len(log) \in ((HasRead + 1) - 1)..Len(log)
  BY <1>1, <1>2
<1>4. \A i \in 1..(Len(log) - (HasRead + 1) + 1) :
          SubSeq(log, HasRead + 1, Len(log))[i] = log[(HasRead + 1) + i - 1]
  BY <1>3, SubSeqSeq
<1>5. Len(log) - (HasRead + 1) + 1 = Len(rest) /\ \A i \in 1..Len(rest) : (HasRead + 1) + i - 1 = HasRead + i
  BY <1>1, <1>2
<1>6. \A i \in 1..Len(rest) : rest[i] = log[HasRead + i]
  BY <1>4, <1>5 DEF AtLine
<1> QED BY <1>1, <1>2, <1>6

\* A line ends at its first newline.
LEMMA LineFacts ==
    ASSUME NEW s, IsSequence(s), HasLine(s)
    PROVE  /\ LineEnd(s) \in 1..Len(s) /\ s[LineEnd(s)] = NL
           /\ \A j \in 1..(LineEnd(s) - 1) : s[j] # NL
<1>1. Len(s) \in Nat /\ DOMAIN s = 1..Len(s)
  BY SeqDomain
<1> DEFINE T == {k \in 1..Len(s) : s[k] = NL}
<1>2. T # {} /\ T \subseteq Nat
  BY <1>1 DEF HasLine, Range
<1>3. PICK x \in T : \A y \in T : x <= y
  BY <1>2, LeastNat
<1>4. x \in DOMAIN s /\ s[x] = NL /\ \A j \in 1..(x - 1) : s[j] # NL
  BY <1>1, <1>3
<1> HIDE DEF T
<1>5. LineEnd(s) \in DOMAIN s /\ s[LineEnd(s)] = NL /\ \A j \in 1..(LineEnd(s) - 1) : s[j] # NL
  BY <1>4, Zenon DEF LineEnd
<1> QED BY <1>1, <1>5

\* The fragments of a line, without its newline.
LEMMA LineShape ==
    ASSUME NEW s, IsSequence(s), HasLine(s)
    PROVE  /\ IsSequence(Line(s)) /\ Len(Line(s)) = LineEnd(s) - 1
           /\ \A i \in 1..(LineEnd(s) - 1) : Line(s)[i] = s[i]
<1> DEFINE e == LineEnd(s) - 1
<1>1. Len(s) \in Nat /\ LineEnd(s) \in 1..Len(s)
  BY LineFacts, SeqDomain
<1>2. 1 \in 1..(Len(s) + 1) /\ e \in (1 - 1)..Len(s) /\ e \in Nat
  BY <1>1
<1> HIDE DEF e
<1>3. /\ IsSequence(SubSeq(s, 1, e)) /\ Len(SubSeq(s, 1, e)) = e - 1 + 1
      /\ \A i \in 1..(e - 1 + 1) : SubSeq(s, 1, e)[i] = s[1 + i - 1]
  BY <1>2, SubSeqSeq
<1>4. e - 1 + 1 = e /\ \A i \in 1..e : 1 + i - 1 = i
  BY <1>2
<1>5. /\ IsSequence(SubSeq(s, 1, e)) /\ Len(SubSeq(s, 1, e)) = e
      /\ \A i \in 1..e : SubSeq(s, 1, e)[i] = s[i]
  BY <1>3, <1>4
<1> QED BY <1>5 DEF Line, e

\* The iterator moves to the start of the next line.
LEMMA Advances ==
    ASSUME IsSequence(log), AtLine, Advance, UNCHANGED log
    PROVE  AtLine' /\ HasRead' = HasRead + LineEnd(rest)
<1> DEFINE e == LineEnd(rest)
<1>1. /\ Len(log) \in Nat /\ DOMAIN log = 1..Len(log)
      /\ Len(rest) \in Nat /\ DOMAIN rest = 1..Len(rest)
      /\ HasRead \in Nat /\ Len(log) = HasRead + Len(rest)
      /\ \A i \in 1..Len(rest) : rest[i] = log[HasRead + i]
  BY RestFacts
<1>2. IsSequence(rest) /\ HasLine(rest)
  BY DEF AtLine, Advance
<1>3. e \in 1..Len(rest) /\ rest[e] = NL
  BY <1>2, LineFacts
<1>4. rest' = SubSeq(rest, e + 1, Len(rest))
  BY DEF Advance, AfterLine
<1> HIDE DEF e
<1>5. /\ IsSequence(rest') /\ Len(rest') = Len(rest) - e
      /\ \A i \in 1..(Len(rest) - e) : rest'[i] = rest[e + i]
  <2>1. e + 1 \in 1..(Len(rest) + 1) /\ Len(rest) \in ((e + 1) - 1)..Len(rest)
    BY <1>1, <1>3
  <2>2. /\ IsSequence(rest') /\ Len(rest') = Len(rest) - (e + 1) + 1
        /\ \A i \in 1..(Len(rest) - (e + 1) + 1) : rest'[i] = rest[(e + 1) + i - 1]
    BY <1>2, <1>4, <2>1, SubSeqSeq
  <2>3. Len(rest) - (e + 1) + 1 = Len(rest) - e
    BY <1>1, <1>3
  <2>4. \A i \in 1..(Len(rest) - e) : (e + 1) + i - 1 = e + i
    BY <1>1, <1>3
  <2> QED BY <2>2, <2>3, <2>4
<1>6. HasRead' = HasRead + e /\ Len(rest') <= Len(log') /\ Len(rest') \in Nat
  BY <1>1, <1>3, <1>5 DEF HasRead
<1> DEFINE h == HasRead + e
           q == SubSeq(log, h + 1, Len(log))
<1>7. log[h] = NL
  BY <1>1, <1>3
<1>8. /\ IsSequence(q) /\ Len(q) = Len(rest')
      /\ \A i \in 1..Len(rest') : q[i] = log[h + i]
  <2>1. h + 1 \in 1..(Len(log) + 1) /\ Len(log) \in ((h + 1) - 1)..Len(log) /\ h \in Nat
    BY <1>1, <1>3
  <2> HIDE DEF h
  <2>2. /\ IsSequence(q) /\ Len(q) = Len(log) - (h + 1) + 1
        /\ \A i \in 1..(Len(log) - (h + 1) + 1) : q[i] = log[(h + 1) + i - 1]
    BY <2>1, SubSeqSeq
  <2>3. Len(log) - (h + 1) + 1 = Len(rest')
    BY <1>1, <1>3, <1>5, <2>1 DEF h
  <2>4. \A i \in 1..Len(rest') : (h + 1) + i - 1 = h + i
    BY <1>6, <2>1
  <2> QED BY <2>2, <2>3, <2>4
<1>9. \A i \in 1..Len(rest') : rest'[i] = q[i]
  <2> TAKE i \in 1..Len(rest')
  <2>1. i \in 1..(Len(rest) - e) /\ e + i \in 1..Len(rest) /\ HasRead + (e + i) = h + i
    BY <1>1, <1>3, <1>5
  <2> QED BY <1>1, <1>5, <1>8, <2>1
<1>10. rest' = q
  <2> HIDE DEF q
  <2> QED BY <1>5, <1>8, <1>9, SeqSame
<1> QED BY <1>5, <1>6, <1>7, <1>10 DEF AtLine, e

\* The line that the iterator is at has a good start.
LEMMA FirstOfLine ==
    ASSUME GoodLines(log), AtLine, HasLine(rest)
    PROVE  /\ Line(rest) # <<>> /\ GoodStart(Line(rest)[1])
           /\ Line(rest)[1] \in Range(log)
<1>1. IsSequence(log) /\ IsSequence(rest)
  BY DEF GoodLines, AtLine
<1>2. /\ Len(log) \in Nat /\ DOMAIN log = 1..Len(log) /\ Len(rest) \in Nat
      /\ HasRead \in Nat /\ Len(log) = HasRead + Len(rest)
      /\ \A i \in 1..Len(rest) : rest[i] = log[HasRead + i]
  BY <1>1, RestFacts
<1>3. LineEnd(rest) \in 1..Len(rest) /\ rest[LineEnd(rest)] = NL
  BY <1>1, LineFacts
<1>4. 1 \in 1..Len(rest) /\ HasRead + 1 \in DOMAIN log /\ rest[1] = log[HasRead + 1]
  BY <1>2, <1>3
<1>5. StartsLine(log, HasRead + 1)
  <2>1. HasRead = 0 \/ log[HasRead] = NL
    BY DEF AtLine
  <2>2. (HasRead + 1) - 1 = HasRead /\ (HasRead = 0 => HasRead + 1 = 1)
    BY <1>2
  <2> QED BY <2>1, <2>2 DEF StartsLine
<1>6. GoodStart(rest[1])
  BY <1>4, <1>5 DEF GoodLines
<1>7. rest[1] # NL
  <2>1. rest[1].kind # "newline"
    BY <1>6 DEF GoodStart
  <2>2. NL.kind = "newline"
    BY DEF NL
  <2> QED BY <2>1, <2>2
<1>8. LineEnd(rest) # 1
  BY <1>3, <1>7
<1>9. 1 \in 1..(LineEnd(rest) - 1)
  BY <1>2, <1>3, <1>8
<1>10. Line(rest)[1] = rest[1] /\ Len(Line(rest)) # 0
  <2>1. Len(Line(rest)) = LineEnd(rest) - 1 /\ \A i \in 1..(LineEnd(rest) - 1) : Line(rest)[i] = rest[i]
    BY <1>1, LineShape
  <2> QED BY <1>3, <1>8, <1>9, <2>1
<1>11. Line(rest) # <<>>
  BY <1>10
<1> QED BY <1>4, <1>6, <1>10, <1>11 DEF Range

\* The interval that is ahead is on the iterator's line, or after it.
LEMMA StillAhead ==
    ASSUME GoodLines(log), AtLine, HasLine(rest), NEW i, IntervalAfter(log, HasRead, i)
    PROVE  \/ /\ Line(rest)[1].kind = "prefix" /\ IsInterval(Line(rest))
              /\ IntervalEntry(Line(rest)) = AsEntry(i)
           \/ IntervalAfter(log, HasRead + LineEnd(rest), i)
<1> DEFINE e == LineEnd(rest)
           l == Line(rest)
<1>1. IsSequence(log) /\ IsSequence(rest)
  BY DEF GoodLines, AtLine
<1>2. /\ Len(log) \in Nat /\ DOMAIN log = 1..Len(log) /\ Len(rest) \in Nat
      /\ HasRead \in Nat /\ Len(log) = HasRead + Len(rest)
      /\ \A k \in 1..Len(rest) : rest[k] = log[HasRead + k]
  BY <1>1, RestFacts
<1>3. e \in 1..Len(rest) /\ rest[e] = NL /\ \A k \in 1..(e - 1) : rest[k] # NL
  BY <1>1, LineFacts
<1>4. IsSequence(l) /\ Len(l) = e - 1 /\ \A k \in 1..(e - 1) : l[k] = rest[k]
  BY <1>1, LineShape
<1>5. PICK j \in (HasRead + 1)..(Len(log) - 2) :
        /\ StartsLine(log, j)
        /\ log[j] = [kind |-> "prefix", tag |-> i.tag, time |-> i.time]
        /\ i.tag # "with a comma"
        /\ log[j + 1] = Body(i.id)
        /\ log[j + 2] = NL
  BY DEF IntervalAfter
<1> HIDE DEF e, l
<1>6. j \in Int /\ HasRead + 1 <= j /\ j <= Len(log) - 2
  BY <1>2
<1>7. CASE j = HasRead + 1
  <2>1. /\ 1 \in 1..Len(rest) /\ 2 \in 1..Len(rest) /\ 3 \in 1..Len(rest)
        /\ HasRead + 2 = j + 1 /\ HasRead + 3 = j + 2
    <3>1. /\ Len(rest) \in Nat /\ HasRead \in Nat /\ Len(log) = HasRead + Len(rest)
          /\ j = HasRead + 1 /\ j <= Len(log) - 2
      BY <1>2, <1>7, <1>6
    <3> QED BY <3>1
  <2>2. /\ rest[1] = [kind |-> "prefix", tag |-> i.tag, time |-> i.time]
        /\ rest[2] = Body(i.id) /\ rest[3] = NL
    BY <1>2, <1>5, <1>7, <2>1
  <2>3. rest[1] # NL /\ rest[2] # NL
    BY <2>2, KindsDiffer
  <2>4. e = 3
    <3>1. e # 1 /\ e # 2
      BY <1>3, <2>3
    <3>2. ~(3 \in 1..(e - 1))
      BY <1>3, <2>2
    <3> QED BY <1>2, <1>3, <3>1, <3>2
  <2>5. Len(l) = 2 /\ l[1] = rest[1] /\ l[2] = rest[2]
    BY <1>4, <2>4
  <2>6. l = <<rest[1], rest[2]>>
    <3>1. <<rest[1], rest[2]>> \in Seq({rest[1], rest[2]})
      OBVIOUS
    <3>2. IsSequence(<<rest[1], rest[2]>>)
      BY <3>1, SeqIsSequence
    <3>3. \A k \in 1..2 : l[k] = <<rest[1], rest[2]>>[k]
      BY <2>5
    <3> QED BY <1>4, <2>5, <3>2, <3>3, SeqSame
  <2>7. Tail(l) = <<Body(i.id)>> /\ l # <<>>
    BY <2>2, <2>6
  <2>8. l[1].kind = "prefix" /\ l[1].tag = i.tag /\ l[1].time = i.time
    BY <2>2, <2>5
  <2>9. IsInterval(l)
    BY <1>5, <2>7, <2>8 DEF IsInterval, StartsWith
  <2>10. IntervalEntry(l) = AsEntry(i)
    BY <2>7, <2>8 DEF IntervalEntry, AsEntry
  <2> QED BY <2>8, <2>9, <2>10 DEF l
<1>8. CASE j # HasRead + 1
  <2> DEFINE k == j - 1 - HasRead
  <2>1. k \in 1..Len(rest) /\ HasRead + k = j - 1 /\ j # 1
    <3>1. /\ Len(rest) \in Nat /\ HasRead \in Nat /\ Len(log) = HasRead + Len(rest)
          /\ j # HasRead + 1
      BY <1>2, <1>8
    <3> QED BY <1>6, <3>1
  <2>2. rest[k] = NL
    BY <1>2, <1>5, <2>1 DEF StartsLine
  <2>3. ~(k \in 1..(e - 1))
    BY <1>3, <2>2
  <2>4. j \in ((HasRead + e) + 1)..(Len(log) - 2)
    <3>1. /\ Len(rest) \in Nat /\ HasRead \in Nat /\ Len(log) = HasRead + Len(rest)
          /\ e \in 1..Len(rest)
      BY <1>2, <1>3
    <3> QED BY <1>6, <2>1, <2>3, <3>1
  <2>5. IntervalAfter(log, HasRead + e, i)
    BY <1>5, <2>4 DEF IntervalAfter
  <2> QED BY <2>5 DEF e
<1> QED BY <1>7, <1>8

\* An interval ahead is a line ahead.
LEMMA LineAhead ==
    ASSUME GoodLines(log), AtLine, NEW i, IntervalAfter(log, HasRead, i)
    PROVE  HasLine(rest)
<1>1. IsSequence(log)
  BY DEF GoodLines
<1>2. /\ Len(log) \in Nat /\ Len(rest) \in Nat /\ DOMAIN rest = 1..Len(rest)
      /\ HasRead \in Nat /\ Len(log) = HasRead + Len(rest)
      /\ \A k \in 1..Len(rest) : rest[k] = log[HasRead + k]
  BY <1>1, RestFacts
<1>3. PICK j \in (HasRead + 1)..(Len(log) - 2) : log[j + 2] = NL
  BY DEF IntervalAfter
<1>4. (j + 2) - HasRead \in 1..Len(rest) /\ HasRead + ((j + 2) - HasRead) = j + 2
  BY <1>2, <1>3
<1>5. rest[(j + 2) - HasRead] = NL
  BY <1>2, <1>3, <1>4
<1> QED BY <1>2, <1>4, <1>5 DEF HasLine, Range

\* One more entry: what was returned stays returned.
LEMMA EntryAdded ==
    ASSUME IsSequence(entries), NEW e, entries' = Append(entries, e)
    PROVE  /\ IsSequence(entries') /\ DOMAIN entries' = 1..(Len(entries) + 1)
           /\ Len(entries') = Len(entries) + 1 /\ Len(entries) \in Nat
           /\ DOMAIN entries = 1..Len(entries)
           /\ \A k \in 1..Len(entries) : entries'[k] = entries[k]
           /\ entries'[Len(entries) + 1] = e
           /\ \A x \in Range(entries) : x \in Range(entries')
           /\ e \in Range(entries')
<1>1. /\ IsSequence(entries') /\ DOMAIN entries' = 1..(Len(entries) + 1)
      /\ Len(entries') = Len(entries) + 1 /\ Len(entries) \in Nat
      /\ DOMAIN entries = 1..Len(entries)
      /\ \A k \in 1..Len(entries) : entries'[k] = entries[k]
      /\ entries'[Len(entries) + 1] = e
  BY AppendSeq
<1>2. \A k \in 1..Len(entries) : k \in 1..(Len(entries) + 1)
  BY <1>1
<1>3. Len(entries) + 1 \in 1..(Len(entries) + 1)
  BY <1>1
<1>4. \A x \in Range(entries) : x \in Range(entries')
  BY <1>1, <1>2, Zenon DEF Range
<1>5. e \in Range(entries')
  BY <1>1, <1>3, Zenon DEF Range
<1> QED BY <1>1, <1>4, <1>5

\* A line that is skipped, or that makes an entry: the iterator goes on.
LEMMA GoesOn ==
    ASSUME LogInv, Advance, UNCHANGED <<phase, builder, log, writes, failures, intent>>,
           IsSequence(entries'),
           \A k \in DOMAIN entries' :
              entries'[k].kind \in {"StartTime", "BaseTime", "Interval", "Garbled"},
           \A x \in Range(entries) : x \in Range(entries'),
           IsInterval(Line(rest)) /\ Line(rest)[1].kind = "prefix"
              => IntervalEntry(Line(rest)) \in Range(entries')
    PROVE  LogInv'
<1>1. phase = "read" /\ phase' = "read" /\ HasLine(rest) /\ log' = log /\ intent' = intent
  BY DEF Advance
<1>2. GoodLines(log) /\ AtLine /\ IsSequence(log)
  BY <1>1 DEF LogInv, Shape, GoodLines
<1>3. AtLine' /\ HasRead' = HasRead + LineEnd(rest)
  BY <1>2, Advances
<1>4. Shape'
  BY <1>1, <1>3 DEF LogInv, Shape
<1>5. ASSUME NEW k \in DOMAIN intent, Whole(intent[k])
      PROVE  \/ AsEntry(intent[k]) \in Range(entries')
             \/ IntervalAfter(log, HasRead', intent[k])
  <2>1. CASE Returned(intent[k])
    BY <2>1 DEF Returned
  <2>2. CASE IntervalAfter(log, HasRead, intent[k])
    <3>1. CASE /\ Line(rest)[1].kind = "prefix" /\ IsInterval(Line(rest))
               /\ IntervalEntry(Line(rest)) = AsEntry(intent[k])
      BY <3>1
    <3>2. CASE IntervalAfter(log, HasRead + LineEnd(rest), intent[k])
      BY <1>3, <3>2
    <3> QED BY <1>1, <1>2, <2>2, <3>1, <3>2, StillAhead
  <2> QED BY <1>1, <1>5, <2>1, <2>2 DEF LogInv, Kept
<1>6. Kept'
  BY <1>1, <1>5 DEF Kept, Returned
<1> QED BY <1>4, <1>6 DEF LogInv

\* No entry before the end is an error.
LEMMA NoErrorYet ==
    ASSUME LogInv, phase = "read"
    PROVE  \A k \in DOMAIN entries :
              entries[k].kind \in {"StartTime", "BaseTime", "Interval", "Garbled"}
  BY DEF LogInv, Shape

\* next(), with an entry
LEMMA NextEntryKeeps == LogInv /\ NextEntry => LogInv'
<1> SUFFICES ASSUME LogInv, NextEntry PROVE LogInv'
  OBVIOUS
<1> DEFINE l == Line(rest)
<1>1. Advance /\ UNCHANGED <<phase, builder, log, writes, failures, intent>>
  BY DEF NextEntry
<1>2. IsSequence(entries) /\ phase = "read"
  BY <1>1 DEF LogInv, Shape, Advance
<1>3. PICK e :
        /\ entries' = Append(entries, e)
        /\ e.kind \in {"StartTime", "BaseTime", "Interval", "Garbled"}
        /\ IsInterval(l) /\ l[1].kind = "prefix" => e = IntervalEntry(l)
  <2>1. CASE IsHeader(l) /\ entries' = Append(entries, HeaderEntry(l))
    <3>1. l[1].kind \in {"StartTime", "BaseTime", "hash"}
      BY <2>1 DEF IsHeader, StartsWith
    <3>2. HeaderEntry(l).kind \in {"StartTime", "BaseTime"}
      BY <3>1 DEF HeaderEntry, ClaimedStart
    <3> QED BY <2>1, <3>1, <3>2
  <2>2. CASE IsInterval(l) /\ entries' = Append(entries, IntervalEntry(l))
    <3>1. IntervalEntry(l).kind = "Interval"
      BY DEF IntervalEntry, Entry
    <3> QED BY <2>2, <3>1
  <2>3. CASE StartsWith(l, {"torn prefix"}) /\ entries' = Append(entries, [kind |-> "Garbled"])
    <3>1. l[1].kind = "torn prefix"
      BY <2>3 DEF StartsWith
    <3> QED BY <2>3, <3>1
  <2> QED BY <2>1, <2>2, <2>3 DEF NextEntry
<1> HIDE DEF l
<1>4. /\ IsSequence(entries') /\ DOMAIN entries' = 1..(Len(entries) + 1)
      /\ Len(entries) \in Nat /\ DOMAIN entries = 1..Len(entries)
      /\ \A k \in 1..Len(entries) : entries'[k] = entries[k]
      /\ entries'[Len(entries) + 1] = e
      /\ \A x \in Range(entries) : x \in Range(entries')
      /\ e \in Range(entries')
  BY <1>2, <1>3, EntryAdded
<1>5. \A k \in DOMAIN entries' :
         entries'[k].kind \in {"StartTime", "BaseTime", "Interval", "Garbled"}
  <2> TAKE k \in DOMAIN entries'
  <2>1. CASE k \in 1..Len(entries)
    BY <1>2, <1>4, <2>1, NoErrorYet
  <2>2. CASE k = Len(entries) + 1
    BY <1>3, <1>4, <2>2
  <2> QED BY <1>4, <2>1, <2>2
<1> QED BY <1>1, <1>3, <1>4, <1>5, GoesOn DEF l

\* next(), over a line that is skipped
LEMMA SkipLineKeeps == LogInv /\ SkipLine => LogInv'
<1> SUFFICES ASSUME LogInv, SkipLine PROVE LogInv'
  OBVIOUS
<1>1. /\ Advance /\ UNCHANGED <<phase, builder, log, writes, failures, intent>>
      /\ entries' = entries /\ phase = "read"
  BY DEF SkipLine, Advance
<1>2. Line(rest)[1].kind # "prefix"
  BY DEF SkipLine, IsIgnored, StartsWith
<1>3. IsSequence(entries) /\ \A k \in DOMAIN entries :
         entries[k].kind \in {"StartTime", "BaseTime", "Interval", "Garbled"}
  BY <1>1, NoErrorYet DEF LogInv, Shape
<1> QED BY <1>1, <1>2, <1>3, GoesOn

\* The iterator ends: at a torn prefix, or with no interval ahead.
LEMMA EndsKeep ==
    ASSUME LogInv, phase = "read", phase' = "end",
           UNCHANGED <<builder, log, rest, writes, failures, intent>>,
           Torn \notin Range(log) => ~HasLine(rest),
           IsSequence(entries'),
           \A k \in DOMAIN entries' :
              /\ entries'[k].kind \in {"StartTime", "BaseTime", "Interval", "Garbled", "ParseError"}
              /\ entries'[k].kind = "ParseError" => k = Len(entries'),
           \A x \in Range(entries) : x \in Range(entries')
    PROVE  LogInv'
<1>1. GoodLines(log) /\ AtLine
  BY DEF LogInv, Shape
<1>2. AtLine'
  BY <1>1 DEF AtLine, HasRead
<1>3. Shape'
  BY <1>2 DEF LogInv, Shape
<1>4. ASSUME NEW k \in DOMAIN intent, Whole(intent[k]), Torn \notin Range(log)
      PROVE  AsEntry(intent[k]) \in Range(entries')
  <2>1. Returned(intent[k]) \/ IntervalAfter(log, HasRead, intent[k])
    BY <1>4 DEF LogInv, Kept
  <2>2. ~IntervalAfter(log, HasRead, intent[k])
    BY <1>1, <1>4, LineAhead
  <2> QED BY <2>1, <2>2 DEF Returned
<1>5. Kept'
  BY <1>4 DEF Kept, Returned
<1> QED BY <1>3, <1>5 DEF LogInv

\* next(), with an error
LEMMA ParseErrorKeeps == LogInv /\ ParseError => LogInv'
<1> SUFFICES ASSUME LogInv, ParseError PROVE LogInv'
  OBVIOUS
<1> DEFINE e == [kind |-> "ParseError", offset |-> Len(log) - Len(rest)]
<1>1. /\ phase = "read" /\ phase' = "end" /\ entries' = Append(entries, e)
      /\ UNCHANGED <<builder, log, rest, writes, failures, intent>>
      /\ HasLine(rest) => /\ ~IsHeader(Line(rest)) /\ ~IsInterval(Line(rest))
                          /\ ~IsIgnored(Line(rest))
  BY DEF ParseError
<1>2. GoodLines(log) /\ AtLine /\ IsSequence(entries)
  BY <1>1 DEF LogInv, Shape
<1>3. ASSUME HasLine(rest) PROVE Torn \in Range(log)
  <2> DEFINE l == Line(rest)
  <2>1. l # <<>> /\ GoodStart(l[1]) /\ l[1] \in Range(log)
    BY <1>2, <1>3, FirstOfLine
  <2>2. l[1].kind \notin {"hash", "StartTime", "BaseTime"}
    BY <1>1, <1>3, <2>1 DEF IsIgnored, StartsWith
  <2>3. l[1].kind # "prefix"
    BY <1>1, <1>3, <2>1 DEF IsInterval, StartsWith, GoodStart
  <2>4. l[1] = Torn
    BY <2>1, <2>2, <2>3 DEF GoodStart
  <2> QED BY <2>1, <2>4
<1>4. e.kind = "ParseError"
  OBVIOUS
<1> HIDE DEF e
<1>5. /\ IsSequence(entries') /\ DOMAIN entries' = 1..(Len(entries) + 1)
      /\ Len(entries') = Len(entries) + 1 /\ Len(entries) \in Nat
      /\ DOMAIN entries = 1..Len(entries)
      /\ \A k \in 1..Len(entries) : entries'[k] = entries[k]
      /\ entries'[Len(entries) + 1] = e
      /\ \A x \in Range(entries) : x \in Range(entries')
  BY <1>1, <1>2, EntryAdded
<1>6. \A k \in DOMAIN entries' :
         /\ entries'[k].kind \in {"StartTime", "BaseTime", "Interval", "Garbled", "ParseError"}
         /\ entries'[k].kind = "ParseError" => k = Len(entries')
  <2> TAKE k \in DOMAIN entries'
  <2>1. CASE k \in 1..Len(entries)
    BY <1>1, <1>5, <2>1, NoErrorYet
  <2>2. CASE k = Len(entries) + 1
    BY <1>4, <1>5, <2>2
  <2> QED BY <1>5, <2>1, <2>2
<1> QED BY <1>1, <1>3, <1>5, <1>6, EndsKeep

\* next(), at the end
LEMMA EndOfInputKeeps == LogInv /\ EndOfInput => LogInv'
<1> SUFFICES ASSUME LogInv, EndOfInput PROVE LogInv'
  OBVIOUS
<1>1. /\ phase = "read" /\ phase' = "end" /\ entries' = entries /\ rest = <<>>
      /\ UNCHANGED <<builder, log, rest, writes, failures, intent>>
  BY DEF EndOfInput
<1>2. ~HasLine(rest)
  BY <1>1 DEF HasLine, Range
<1>3. IsSequence(entries) /\ \A k \in DOMAIN entries :
         entries[k].kind \in {"StartTime", "BaseTime", "Interval", "Garbled"}
  BY <1>1, NoErrorYet DEF LogInv, Shape
<1>4. \A k \in DOMAIN entries' :
         /\ entries'[k].kind \in {"StartTime", "BaseTime", "Interval", "Garbled", "ParseError"}
         /\ entries'[k].kind = "ParseError" => k = Len(entries')
  BY <1>1, <1>3
<1> QED BY <1>1, <1>2, <1>3, <1>4, EndsKeep

-----------------------------------------------------------------------------
(***************************************************************************)
(* The theorems                                                            *)
(***************************************************************************)
LEMMA LogInvInit == Init => LogInv
<1> SUFFICES ASSUME Init PROVE LogInv
  OBVIOUS
<1>1. "comments" \in DOMAIN builder /\ builder.comments = <<>>
  BY DEF Init
<1>2. IsSequence(<<>>)
  BY GoodEmpty DEF GoodLines
<1>3. Shape
  BY <1>1, <1>2, GoodEmpty, Bounds DEF Init, Shape
<1>4. Kept
  BY DEF Init, Kept
<1> QED BY <1>3, <1>4 DEF LogInv

\* Every step of the writer and the iterator keeps the invariant.
LEMMA LogInvStep == LogInv /\ [Next]_vars => LogInv'
<1> SUFFICES ASSUME LogInv, [Next]_vars PROVE LogInv'
  OBVIOUS
<1>1. CASE UNCHANGED vars
  BY <1>1 DEF vars, LogInv, Shape, Kept, AtLine, HasRead, Returned
<1>2. CASE Next
  BY <1>2, BuilderKeeps, BeginKeeps, BeginFailsKeeps, WriteCommentKeeps, WriteHistogramKeeps,
     IteratorNewKeeps, NextEntryKeeps, SkipLineKeeps, ParseErrorKeeps, EndOfInputKeeps, Zenon
     DEF Next, Reading
<1> QED BY <1>1, <1>2

\* The invariant of the log and its reader.
LEMMA LogInvHolds == Spec => []LogInv
  BY LogInvInit, LogInvStep, PTL DEF Spec

\* The state is well formed: what the iterator has not read is an end of the log,
\* everything it returned is of a kind it can make, and an error is the last thing
\* it returns and ends it.
THEOREM TypeCorrect == Spec => []TypeOK
<1>1. LogInv => TypeOK
  <2> SUFFICES ASSUME LogInv PROVE TypeOK
    OBVIOUS
  <2>1. IsSequence(log) /\ Len(log) \in Nat
    BY SeqDomain DEF LogInv, Shape, GoodLines
  <2>2. Len(rest) <= Len(log) /\ rest = SubSeq(log, Len(log) - Len(rest) + 1, Len(log))
    <3>1. CASE phase \in {"build", "write"}
      <4>1. rest = <<>> /\ Len(rest) = 0
        BY <3>1 DEF LogInv, Shape
      <4>2. SubSeq(log, Len(log) + 1, Len(log)) = <<>>
        BY <2>1 DEF IsSequence
      <4> QED BY <2>1, <4>1, <4>2
    <3>2. CASE phase \in {"read", "end"}
      BY <3>2 DEF LogInv, Shape, AtLine, HasRead
    <3> QED BY <3>1, <3>2 DEF LogInv, Shape
  <2> QED BY <2>2 DEF LogInv, Shape, TypeOK
<1> QED BY <1>1, LogInvHolds, PTL

\* The damage of a failed write stays on its line: when the iterator has ended and
\* no prefix was cut in two, every interval that write_histogram wrote whole and from
\* the start of a line was returned unchanged, however many calls failed and wherever.
THEOREM DamageContainedCorrect == Spec => []DamageContained
<1>1. LogInv => DamageContained
  BY DEF LogInv, Kept, DamageContained, Whole, Returned
<1> QED BY <1>1, LogInvHolds, PTL
=============================================================================
