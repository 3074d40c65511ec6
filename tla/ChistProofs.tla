----------------------------- MODULE ChistProofs -----------------------------
(***************************************************************************)
(* Proofs about chist print, for any files: every record is printed once,  *)
(* no row is empty, rows come out in the order of time, and files that     *)
(* keep to the assumptions of print are merged moment by moment.  What the *)
(* histograms of a row add up to is not looked into.                       *)
(***************************************************************************)
EXTENDS Chist, HistogramLayoutProofs

\* The types the other invariants rest on: an entry of a row names a file.
Typed ==
    /\ files \in Inputs
    /\ ri \in [Files -> Nat] /\ \A f \in Files : ri[f] <= Len(files[f])
    /\ w \in 1..(Len(files) + 1)
    /\ cur.time \in Int /\ cur.next \in Int
    /\ eaten \in Seq(Files \X Nat)
    /\ IsSequence(rows)
    /\ \A i \in DOMAIN rows : /\ rows[i].time \in Int /\ rows[i].next \in Int
                              /\ rows[i].recs \in Seq(Files \X Nat)
    /\ status \in Statuses

\* Of each file that has had its turn at most one record is eaten, the one before
\* the walker's position; the files come in order.
EatenInOrder ==
    /\ \A i \in DOMAIN eaten :
          /\ eaten[i][1] < w
          /\ eaten[i][2] = ri[eaten[i][1]] /\ ri[eaten[i][1]] > 0
    /\ \A i, j \in DOMAIN eaten : i < j => eaten[i][1] < eaten[j][1]

IsEaten(f) == \E i \in DOMAIN eaten : eaten[i][1] = f

\* The rows hold what comes before the walkers' positions, except what was eaten
\* in this turn.
PrintedOrEaten ==
    /\ \A p \in Places :
          /\ PrintedAt(p)[2] \in 1..ri[PrintedAt(p)[1]]
          /\ IsEaten(PrintedAt(p)[1]) => PrintedAt(p)[2] < ri[PrintedAt(p)[1]]
    /\ \A f \in Files : \A k \in 1..ri[f] :
          \/ \E p \in Places : PrintedAt(p) = <<f, k>>
          \/ \E i \in DOMAIN eaten : eaten[i] = <<f, k>>

PrintedInOrder ==
    \A p, q \in Places :
        Before(p, q) /\ PrintedAt(p)[1] = PrintedAt(q)[1] => PrintedAt(p)[2] < PrintedAt(q)[2]

OnePass ==
    /\ status = "eat" => EatenInOrder /\ PrintedOrEaten /\ PrintedInOrder
    /\ EachRecordOnce

\* The record that gave the moment is eaten or still ahead.
RowToCome ==
    status = "eat" => eaten # <<>> \/ \E f \in Files : f >= w /\ HasNext(f)

\* What has been printed, the moment and what is still to be read are in order.
MomentInOrder ==
    /\ \A i \in DOMAIN rows : rows[i].time <= cur.time
    /\ \A f \in Files : HasNext(f) => cur.time <= Next1(f).now
    /\ \A i \in DOMAIN eaten : cur.time <= Rec(eaten[i]).now
    /\ \/ \E i \in DOMAIN eaten : Rec(eaten[i]).now = cur.time
       \/ \E f \in Files : f >= w /\ HasNext(f) /\ Next1(f).now = cur.time

InTime ==
    Sorted =>
        /\ status = "head" =>
              \A i \in DOMAIN rows, f \in Files : HasNext(f) => rows[i].time <= Next1(f).now
        /\ status = "eat" => MomentInOrder
        /\ RowsInTimeOrder

\* Turn n + 1: files before w have given their record n + 1, if they have one, and
\* the others are about to; the moment is the earliest of these records.
TurnOf(n) ==
    /\ \A f \in Files :
          LET done == IF f < w THEN n + 1 ELSE n
          IN  ri[f] <= done /\ (HasNext(f) => ri[f] = done)
    /\ \E f \in Files :
          /\ n + 1 \in DOMAIN files[f]
          /\ cur = [time |-> files[f][n + 1].now,
                    next |-> files[f][n + 1].now + files[f][n + 1].elapsed,
                    name |-> files[f][n + 1].name]
          /\ \A g \in Files : n + 1 \in DOMAIN files[g] => cur.time <= files[g][n + 1].now

InStep ==
    AssumptionsKept =>
        /\ status = "head" => \A f, g \in Files : HasNext(f) => ri[g] <= ri[f]
        /\ status = "eat" =>
              /\ \E n \in Nat : TurnOf(n)
              /\ \A i \in DOMAIN eaten : Near(Rec(eaten[i])) /\ Rec(eaten[i]).name = cur.name
        /\ RowsCorrespond

ChistInv == Typed /\ OnePass /\ RowToCome /\ InTime /\ InStep

-----------------------------------------------------------------------------
(***************************************************************************)
(* Sequences and files                                                     *)
(***************************************************************************)
\* An input is a sequence of at least one file.
LEMMA FilesType ==
    ASSUME files \in Inputs
    PROVE  /\ Files = 1..Len(files) /\ Len(files) \in Nat \ {0}
           /\ \A f \in Files : /\ files[f] \in Seq(Records) /\ Len(files[f]) \in Nat
                               /\ DOMAIN files[f] = 1..Len(files[f])
<1>1. files \in Seq(Seq(Records)) /\ files # <<>>
  BY ChistAssumption
<1>2. Files = 1..Len(files) /\ Len(files) \in Nat \ {0}
  BY <1>1 DEF Files
<1>3. \A f \in Files : files[f] \in Seq(Records)
  BY <1>1, <1>2 DEF Files
<1> QED BY <1>2, <1>3

\* The head of a file is a record.
LEMMA HeadType ==
    ASSUME Typed, NEW f \in Files, HasNext(f)
    PROVE  /\ ri[f] \in Nat /\ ri[f] + 1 \in DOMAIN files[f]
           /\ Next1(f) \in Records /\ Next1(f).now \in Int /\ Next1(f).elapsed \in Nat
<1>1. /\ ri[f] \in Nat /\ files[f] \in Seq(Records) /\ Len(files[f]) \in Nat
      /\ DOMAIN files[f] = 1..Len(files[f])
  BY FilesType DEF Typed
<1>2. ri[f] + 1 \in DOMAIN files[f]
  BY <1>1 DEF HasNext
<1>3. Next1(f) \in Records
  BY <1>1, <1>2 DEF Next1
<1> QED BY <1>1, <1>2, <1>3, ChistAssumption

-----------------------------------------------------------------------------
(***************************************************************************)
(* The steps                                                               *)
(***************************************************************************)
\* The row that is printed, with its summary.
RowWith(summary) ==
    [time |-> cur.time, next |-> cur.next, name |-> cur.name,
     recs |-> eaten, summary |-> summary]

\* What PrintRow does to the variables of interest here.
LEMMA PrintRowEffect ==
    ASSUME PrintRow
    PROVE  /\ status = "eat" /\ w \notin Files
           /\ UNCHANGED <<files, ri, w, cur, eaten>>
           /\ \/ status' \in {"error", "panic"} /\ UNCHANGED rows
              \/ status' = "head" /\ \E sum : rows' = Append(rows, RowWith(sum))
  BY DEF PrintRow, RowWith

\* What Eat does: the walker gives its head, or has none.
LEMMA EatEffect ==
    ASSUME Typed, Eat
    PROVE  /\ status = "eat" /\ status' = "eat" /\ w \in Files /\ w' = w + 1 /\ ~Mismatch
           /\ UNCHANGED <<files, cur, rows>>
           /\ \/ /\ HasNext(w) /\ <<w, ri[w] + 1>> \in Files \X Nat
                 /\ eaten' = Append(eaten, <<w, ri[w] + 1>>)
                 /\ ri' = [ri EXCEPT ![w] = ri[w] + 1]
              \/ ~HasNext(w) /\ UNCHANGED <<eaten, ri>>
<1>1. w \in Files => ri[w] \in Nat
  BY DEF Typed
<1> QED BY <1>1 DEF Eat

\* The entries eaten, after one more.
LEMMA EatenGrows ==
    ASSUME Typed, NEW e \in Files \X Nat, eaten' = Append(eaten, e)
    PROVE  /\ eaten' \in Seq(Files \X Nat)
           /\ Len(eaten) \in Nat /\ DOMAIN eaten = 1..Len(eaten)
           /\ DOMAIN eaten' = 1..(Len(eaten) + 1)
           /\ \A i \in DOMAIN eaten : eaten'[i] = eaten[i]
           /\ eaten'[Len(eaten) + 1] = e
  BY DEF Typed

\* Files and walkers' positions after a step of Eat.
LEMMA EatMoves ==
    ASSUME Typed, Eat, HasNext(w)
    PROVE  /\ ri' \in [Files -> Nat] /\ Files' = Files
           /\ ri'[w] = ri[w] + 1 /\ ri[w] \in Nat
           /\ \A f \in Files \ {w} : ri'[f] = ri[f]
<1>1. ri \in [Files -> Nat] /\ w \in Files
  BY DEF Typed, Eat
<1>2. ri' = [ri EXCEPT ![w] = ri[w] + 1] /\ UNCHANGED files
  BY DEF Eat
<1>3. Files' = Files
  BY <1>2 DEF Files
<1> QED BY <1>1, <1>2, <1>3

-----------------------------------------------------------------------------
(***************************************************************************)
(* Types                                                                   *)
(***************************************************************************)
LEMMA TypedInit == Init => Typed
<1> SUFFICES ASSUME Init PROVE Typed
  OBVIOUS
<1>1. Files = 1..Len(files) /\ Len(files) \in Nat \ {0}
  BY FilesType DEF Init
<1>2. \A f \in Files : Len(files[f]) \in Nat
  BY FilesType DEF Init
<1>3. ri \in [Files -> Nat] /\ \A f \in Files : ri[f] <= Len(files[f])
  BY <1>2 DEF Init, Files
<1>4. IsSequence(rows) /\ DOMAIN rows = {}
  BY DEF Init, IsSequence, ToSet
<1>5. cur.time \in Int /\ cur.next \in Int
  BY DEF Init, NoMoment
<1>6. w \in 1..(Len(files) + 1)
  BY <1>1 DEF Init
<1>7. eaten \in Seq(Files \X Nat) /\ status \in Statuses /\ files \in Inputs
  BY DEF Init, Statuses
<1> QED BY <1>3, <1>4, <1>5, <1>6, <1>7 DEF Typed

\* The earliest head becomes the moment.
LEMMA TypedPick == Typed /\ PickMoment => Typed'
<1> SUFFICES ASSUME Typed, PickMoment PROVE Typed'
  OBVIOUS
<1>1. PICK f \in Files :
        /\ EarliestHead(f)
        /\ cur' = [time |-> Next1(f).now,
                   next |-> Next1(f).now + Next1(f).elapsed,
                   name |-> Next1(f).name]
        /\ status' = IF Next1(f).elapsed > MaxI64 THEN "panic" ELSE "eat"
  BY DEF PickMoment
<1>2. Next1(f).now \in Int /\ Next1(f).elapsed \in Nat
  BY <1>1, HeadType DEF EarliestHead
<1>3. cur'.time \in Int /\ cur'.next \in Int
  BY <1>1, <1>2
<1>4. status' \in Statuses
  BY <1>1 DEF Statuses
<1>5. w' \in 1..(Len(files) + 1) /\ eaten' = <<>>
  BY FilesType DEF Typed, PickMoment
<1>6. UNCHANGED <<files, ri, rows>> /\ Files' = Files
  BY DEF PickMoment, Files
<1> QED BY <1>3, <1>4, <1>5, <1>6 DEF Typed, IsSequence

\* A walker takes its turn.
LEMMA TypedEat == Typed /\ Eat => Typed'
<1> SUFFICES ASSUME Typed, Eat PROVE Typed'
  OBVIOUS
<1>1. /\ status' = "eat" /\ w \in Files /\ w' = w + 1 /\ UNCHANGED <<files, cur, rows>>
      /\ Files' = Files
  BY EatEffect DEF Files
<1>2. w' \in 1..(Len(files) + 1)
  BY <1>1, FilesType DEF Typed
<1>3. CASE HasNext(w)
  <2>1. eaten' \in Seq(Files \X Nat)
    BY <1>3, EatEffect, EatenGrows
  <2>2. \A f \in Files : ri'[f] <= Len(files[f])
    <3> TAKE f \in Files
    <3>1. CASE f = w
      BY <1>1, <1>3, <3>1, EatMoves, FilesType DEF Typed, HasNext
    <3>2. CASE f # w
      BY <1>3, <3>2, EatMoves DEF Typed
    <3> QED BY <3>1, <3>2
  <2>3. ri' \in [Files -> Nat]
    BY <1>3, EatMoves
  <2> QED BY <1>1, <1>2, <2>1, <2>2, <2>3 DEF Typed, IsSequence, Statuses
<1>4. CASE ~HasNext(w)
  <2>1. UNCHANGED <<eaten, ri>>
    BY <1>4, EatEffect
  <2> QED BY <1>1, <1>2, <2>1 DEF Typed, IsSequence, Statuses
<1> QED BY <1>3, <1>4

\* A row is printed and the next turn begins.
LEMMA TypedPrint == Typed /\ PrintRow => Typed'
<1> SUFFICES ASSUME Typed, PrintRow PROVE Typed'
  OBVIOUS
<1>1. UNCHANGED <<files, ri, w, cur, eaten>> /\ Files' = Files
  BY PrintRowEffect DEF Files
<1>2. CASE status' \in {"error", "panic"} /\ UNCHANGED rows
  BY <1>1, <1>2 DEF Typed, IsSequence, Statuses
<1>3. CASE status' = "head" /\ \E sum : rows' = Append(rows, RowWith(sum))
  <2>1. PICK sum : rows' = Append(rows, RowWith(sum))
    BY <1>3
  <2> DEFINE row == RowWith(sum)
  <2>2. row.time \in Int /\ row.next \in Int /\ row.recs \in Seq(Files \X Nat)
    BY DEF Typed, RowWith
  <2> HIDE DEF row
  <2>3. /\ IsSequence(rows') /\ DOMAIN rows' = 1..(Len(rows) + 1) /\ Len(rows) \in Nat
        /\ \A i \in 1..Len(rows) : rows'[i] = rows[i]
        /\ rows'[Len(rows) + 1] = row /\ DOMAIN rows = 1..Len(rows)
    BY <2>1, AppendSeq DEF Typed, row
  <2>4. \A i \in DOMAIN rows' : /\ rows'[i].time \in Int /\ rows'[i].next \in Int
                                /\ rows'[i].recs \in Seq(Files \X Nat)
    <3> TAKE i \in DOMAIN rows'
    <3>1. CASE i \in 1..Len(rows)
      BY <3>1, <2>3 DEF Typed
    <3>2. CASE i = Len(rows) + 1
      BY <3>2, <2>2, <2>3
    <3> QED BY <3>1, <3>2, <2>3
  <2> QED BY <1>1, <1>3, <2>3, <2>4 DEF Typed, Statuses
<1> QED BY <1>2, <1>3, PrintRowEffect

\* Every step of print keeps the types.
LEMMA TypedStep == Typed /\ [Next]_vars => Typed'
<1> SUFFICES ASSUME Typed, [Next]_vars PROVE Typed'
  OBVIOUS
<1>1. CASE Finish
  BY <1>1 DEF Typed, Finish, IsSequence, Files, Statuses
<1>2. CASE BailOut
  BY <1>2 DEF Typed, BailOut, IsSequence, Files, Statuses
<1>3. CASE UNCHANGED vars
  BY <1>3 DEF Typed, vars, IsSequence, Files, Statuses
<1> QED BY <1>1, <1>2, <1>3, TypedPick, TypedEat, TypedPrint DEF Next

-----------------------------------------------------------------------------
(***************************************************************************)
(* Every record once                                                       *)
(***************************************************************************)
\* The entries at the places of the output name a file.
LEMMA PrintedType ==
    ASSUME Typed, NEW p \in Places
    PROVE  /\ p[1] \in DOMAIN rows /\ p[2] \in DOMAIN rows[p[1]].recs /\ p = <<p[1], p[2]>>
           /\ PrintedAt(p) \in Files \X Nat
<1>1. PICK i \in DOMAIN rows : p \in {<<i, j>> : j \in DOMAIN rows[i].recs}
  BY DEF Places
<1>2. PICK j \in DOMAIN rows[i].recs : p = <<i, j>>
  BY <1>1
<1>3. rows[i].recs \in Seq(Files \X Nat)
  BY DEF Typed
<1>4. rows[i].recs[j] \in Files \X Nat
  BY <1>2, <1>3
<1> QED BY <1>2, <1>4 DEF PrintedAt

\* The same, in terms of places.
PrintedSoFar ==
    /\ \A p \in Places : PrintedAt(p)[2] \in 1..ri[PrintedAt(p)[1]]
    /\ \A f \in Files : \A k \in 1..ri[f] : \E p \in Places : PrintedAt(p) = <<f, k>>

\* PrintedSoFar as an equality of sets: what rows hold is what walkers have passed.
LEMMA PrintedSets ==
    Typed => (PrintedSoFar <=>
              {PrintedAt(p) : p \in Places} = UNION {{<<f, k>> : k \in 1..ri[f]} : f \in Files})
<1> SUFFICES ASSUME Typed
             PROVE  PrintedSoFar <=> {PrintedAt(p) : p \in Places}
                                       = UNION {{<<f, k>> : k \in 1..ri[f]} : f \in Files}
  OBVIOUS
<1> DEFINE out == {PrintedAt(p) : p \in Places}
           read == UNION {{<<f, k>> : k \in 1..ri[f]} : f \in Files}
<1>1. \A p \in Places : PrintedAt(p) \in Files \X Nat
  BY PrintedType
<1>2. \A e \in Files \X Nat : e \in read <=> e[2] \in 1..ri[e[1]]
  OBVIOUS
<1>3. \A e : e \in out <=> \E p \in Places : PrintedAt(p) = e
  OBVIOUS
<1>4. \A e \in read : e \in Files \X Nat
  <2> TAKE e \in read
  <2>1. PICK f \in Files : e \in {<<f, k>> : k \in 1..ri[f]}
    OBVIOUS
  <2>2. PICK k \in 1..ri[f] : e = <<f, k>>
    BY <2>1
  <2>3. k \in Nat
    BY DEF Typed
  <2> QED BY <2>2, <2>3
<1>5. \A f \in Files : \A k \in 1..ri[f] : <<f, k>> \in read
  OBVIOUS
<1> HIDE DEF out, read
<1>6. ASSUME PrintedSoFar PROVE out = read
  <2>1. out \subseteq read
    BY <1>1, <1>2, <1>3, <1>6 DEF PrintedSoFar
  <2>2. \A e \in read : e \in out
    <3> TAKE e \in read
    <3>1. e \in Files \X Nat /\ e[2] \in 1..ri[e[1]]
      BY <1>2, <1>4
    <3>2. PICK p \in Places : PrintedAt(p) = <<e[1], e[2]>>
      BY <1>6, <3>1 DEF PrintedSoFar
    <3> QED BY <1>3, <3>1, <3>2
  <2> QED BY <2>1, <2>2
<1>7. ASSUME out = read PROVE PrintedSoFar
  <2>1. \A p \in Places : PrintedAt(p)[2] \in 1..ri[PrintedAt(p)[1]]
    BY <1>1, <1>2, <1>3, <1>7
  <2>2. \A f \in Files : \A k \in 1..ri[f] : \E p \in Places : PrintedAt(p) = <<f, k>>
    BY <1>3, <1>5, <1>7
  <2> QED BY <2>1, <2>2 DEF PrintedSoFar
<1> QED BY <1>6, <1>7 DEF out, read

\* Records are printed once exactly if they are in order and as many as were read.
LEMMA OnceAsPlaces ==
    Typed => (EachRecordOnce <=>
              (status \in {"head", "done"} => PrintedSoFar /\ PrintedInOrder))
  BY PrintedSets DEF EachRecordOnce, PrintedInOrder

\* Nothing is printed: the places are the same.
LEMMA PlacesSame ==
    ASSUME UNCHANGED rows
    PROVE  Places' = Places /\ \A p : (PrintedAt(p))' = PrintedAt(p)
  BY DEF Places, PrintedAt

\* A row is printed: its entries come after all others.
LEMMA PlacesGrow ==
    ASSUME Typed, NEW sum, rows' = Append(rows, RowWith(sum))
    PROVE  /\ \A p \in Places : /\ p \in Places' /\ p[1] \in 1..Len(rows)
                                /\ (PrintedAt(p))' = PrintedAt(p)
           /\ \A j \in DOMAIN eaten : \E p \in Places' : (PrintedAt(p))' = eaten[j]
           /\ \A p \in Places' :
                 \/ p \in Places
                 \/ \E j \in DOMAIN eaten :
                       p = <<Len(rows) + 1, j>> /\ (PrintedAt(p))' = eaten[j]
           /\ Len(rows) \in Nat
<1> DEFINE row == RowWith(sum)
<1>1. row.recs = eaten
  BY DEF RowWith
<1> HIDE DEF row
<1>2. /\ DOMAIN rows' = 1..(Len(rows) + 1) /\ Len(rows) \in Nat
      /\ \A i \in 1..Len(rows) : rows'[i] = rows[i]
      /\ rows'[Len(rows) + 1] = row /\ DOMAIN rows = 1..Len(rows)
  BY AppendSeq DEF Typed, row
<1>3. \A p \in Places : /\ p \in Places' /\ p[1] \in 1..Len(rows)
                        /\ (PrintedAt(p))' = PrintedAt(p)
  <2> TAKE p \in Places
  <2>1. /\ p[1] \in DOMAIN rows /\ p[2] \in DOMAIN rows[p[1]].recs /\ p = <<p[1], p[2]>>
    BY PrintedType
  <2>2. p[1] \in DOMAIN rows' /\ rows'[p[1]] = rows[p[1]]
    BY <1>2, <2>1
  <2>3. p \in {<<p[1], j>> : j \in DOMAIN rows'[p[1]].recs}
    BY <2>1, <2>2
  <2> QED BY <1>2, <2>1, <2>2, <2>3 DEF Places, PrintedAt
<1>4. \A j \in DOMAIN eaten : \A p :
          p = <<Len(rows) + 1, j>> => p \in Places' /\ (PrintedAt(p))' = eaten[j]
  <2> TAKE j \in DOMAIN eaten
  <2> TAKE p
  <2> HAVE p = <<Len(rows) + 1, j>>
  <2>1. p \in {<<Len(rows) + 1, k>> : k \in DOMAIN rows'[Len(rows) + 1].recs}
    BY <1>1, <1>2
  <2>2. Len(rows) + 1 \in DOMAIN rows'
    BY <1>2
  <2> QED BY <1>1, <1>2, <2>1, <2>2 DEF Places, PrintedAt
<1>5. \A p \in Places' : \/ p \in Places
                         \/ \E j \in DOMAIN eaten :
                               p = <<Len(rows) + 1, j>> /\ (PrintedAt(p))' = eaten[j]
  <2> TAKE p \in Places'
  <2>1. PICK i \in DOMAIN rows' : p \in {<<i, j>> : j \in DOMAIN rows'[i].recs}
    BY DEF Places
  <2>2. PICK j \in DOMAIN rows'[i].recs : p = <<i, j>>
    BY <2>1
  <2>3. CASE i \in 1..Len(rows)
    BY <1>2, <2>1, <2>3 DEF Places
  <2>4. CASE i = Len(rows) + 1
    BY <1>1, <1>2, <1>4, <2>2, <2>4
  <2> QED BY <1>2, <2>3, <2>4
<1> QED BY <1>2, <1>3, <1>4, <1>5

\* Nothing is printed or eaten at the start.
LEMMA OnePassInit == Init => OnePass
<1> SUFFICES ASSUME Init PROVE OnePass
  OBVIOUS
<1>1. Typed
  BY TypedInit
<1>2. Places = {} /\ \A f \in Files : ri[f] = 0
  BY DEF Init, Places, Files
<1>3. PrintedSoFar /\ PrintedInOrder
  BY <1>2 DEF PrintedSoFar, PrintedInOrder
<1> QED BY <1>1, <1>3, OnceAsPlaces DEF OnePass, Init

\* Choosing the moment prints and eats nothing.
LEMMA OnePassPick == Typed /\ OnePass /\ PickMoment => OnePass'
<1> SUFFICES ASSUME Typed, OnePass, PickMoment PROVE OnePass'
  OBVIOUS
<1>1. /\ UNCHANGED <<files, ri, rows>> /\ Files' = Files /\ eaten' = <<>>
      /\ status = "head" /\ status' \in {"eat", "panic"}
  BY DEF PickMoment, Files
<1>2. PrintedSoFar /\ PrintedInOrder
  BY <1>1, OnceAsPlaces DEF OnePass
<1>3. Places' = Places /\ \A p : (PrintedAt(p))' = PrintedAt(p)
  BY <1>1, PlacesSame
<1>4. EatenInOrder'
  BY <1>1 DEF EatenInOrder
<1>5. PrintedOrEaten'
  BY <1>1, <1>2, <1>3 DEF PrintedSoFar, PrintedOrEaten, IsEaten
<1>6. PrintedInOrder'
  BY <1>2, <1>3 DEF PrintedInOrder
<1> QED BY <1>1, <1>4, <1>5, <1>6 DEF OnePass, EachRecordOnce

\* A record that is eaten is the next of its file.
LEMMA OnePassEat == Typed /\ OnePass /\ Eat => OnePass'
<1> SUFFICES ASSUME Typed, OnePass, Eat PROVE OnePass'
  OBVIOUS
<1>1. /\ status = "eat" /\ status' = "eat" /\ w \in Files /\ w' = w + 1
      /\ UNCHANGED <<files, cur, rows>> /\ Files' = Files
  BY EatEffect DEF Files
<1>2. EatenInOrder /\ PrintedOrEaten /\ PrintedInOrder
  BY <1>1 DEF OnePass
<1>3. Places' = Places /\ \A p : (PrintedAt(p))' = PrintedAt(p)
  BY <1>1, PlacesSame
<1>4. PrintedInOrder'
  BY <1>2, <1>3 DEF PrintedInOrder
<1>5. /\ w \in Nat /\ Files \subseteq Nat /\ \A i \in DOMAIN eaten : eaten[i] \in Files \X Nat
      /\ \A p \in Places : PrintedAt(p) \in Files \X Nat
  BY FilesType, PrintedType DEF Typed
<1>8. \A i \in DOMAIN eaten : /\ eaten[i][1] \in Files /\ eaten[i][1] # w
                              /\ eaten[i][1] < w + 1
  <2> TAKE i \in DOMAIN eaten
  <2>1. eaten[i][1] \in Files /\ eaten[i][1] \in Nat
    BY <1>5
  <2>2. eaten[i][1] < w
    BY <1>2 DEF EatenInOrder
  <2> QED BY <1>5, <2>1, <2>2
<1>6. CASE HasNext(w)
  <2> DEFINE e == <<w, ri[w] + 1>>
  <2>1. /\ Len(eaten) \in Nat /\ DOMAIN eaten = 1..Len(eaten)
        /\ DOMAIN eaten' = 1..(Len(eaten) + 1)
        /\ \A i \in DOMAIN eaten : eaten'[i] = eaten[i]
        /\ eaten'[Len(eaten) + 1] = e
    BY <1>6, EatEffect, EatenGrows
  <2>2. /\ ri'[w] = ri[w] + 1 /\ ri[w] \in Nat
        /\ \A f \in Files \ {w} : ri'[f] = ri[f]
    BY <1>6, EatMoves
  <2>3. ~IsEaten(w)
    BY <1>2, <1>5 DEF IsEaten, EatenInOrder
  <2>4. EatenInOrder'
    <3>1. \A i \in DOMAIN eaten : /\ eaten[i][1] \in Files \ {w} /\ eaten[i][1] < w'
                                  /\ eaten[i][2] = ri'[eaten[i][1]] /\ ri'[eaten[i][1]] > 0
      BY <1>1, <1>2, <1>8, <2>2 DEF EatenInOrder
    <3>2. e[1] < w' /\ e[2] = ri'[e[1]] /\ ri'[e[1]] > 0
      BY <1>1, <1>5, <2>2
    <3>3. \A i \in DOMAIN eaten' : i \in DOMAIN eaten \/ i = Len(eaten) + 1
      BY <2>1
    <3>4. \A i \in DOMAIN eaten' : /\ eaten'[i][1] < w'
                                   /\ eaten'[i][2] = ri'[eaten'[i][1]] /\ ri'[eaten'[i][1]] > 0
      BY <2>1, <3>1, <3>2, <3>3
    <3>5. \A i, j \in DOMAIN eaten' : i < j => eaten'[i][1] < eaten'[j][1]
      <4> TAKE i, j \in DOMAIN eaten'
      <4> HAVE i < j
      <4>1. CASE j \in DOMAIN eaten
        BY <1>2, <2>1, <4>1 DEF EatenInOrder
      <4>2. CASE j = Len(eaten) + 1
        BY <1>2, <2>1, <4>2 DEF EatenInOrder
      <4> QED BY <3>3, <4>1, <4>2
    <3> QED BY <3>4, <3>5 DEF EatenInOrder
  <2>5. \A f \in Files : (IsEaten(f))' => f = w \/ IsEaten(f)
    BY <2>1 DEF IsEaten
  <2>6. \A p \in Places : /\ PrintedAt(p)[2] \in 1..ri'[PrintedAt(p)[1]]
                          /\ (IsEaten(PrintedAt(p)[1]))' => PrintedAt(p)[2] < ri'[PrintedAt(p)[1]]
    <3> TAKE p \in Places
    <3> DEFINE f == PrintedAt(p)[1]
               k == PrintedAt(p)[2]
    <3>1. f \in Files /\ k \in Nat /\ k \in 1..ri[f] /\ (IsEaten(f) => k < ri[f])
      BY <1>2, <1>5 DEF PrintedOrEaten
    <3>2. CASE f = w
      BY <2>2, <3>1, <3>2
    <3>3. CASE f # w
      <4>1. (IsEaten(PrintedAt(p)[1]))' => IsEaten(f)
        BY <1>3, <2>1, <3>1, <3>3 DEF IsEaten
      <4> QED BY <2>2, <3>1, <3>3, <4>1
    <3> QED BY <3>2, <3>3
  <2>7. \A f \in Files : \A k \in 1..ri'[f] :
            \/ \E p \in Places : PrintedAt(p) = <<f, k>>
            \/ \E i \in DOMAIN eaten' : eaten'[i] = <<f, k>>
    <3> TAKE f \in Files
    <3> TAKE k \in 1..ri'[f]
    <3>1. CASE f = w /\ k = ri[w] + 1
      BY <2>1, <3>1
    <3>2. CASE ~(f = w /\ k = ri[w] + 1)
      <4>1. k \in 1..ri[f]
        BY <2>2, <3>2
      <4>2. \/ \E p \in Places : PrintedAt(p) = <<f, k>>
            \/ \E i \in DOMAIN eaten : eaten[i] = <<f, k>>
        BY <1>2, <4>1 DEF PrintedOrEaten
      <4> QED BY <2>1, <4>2
    <3> QED BY <3>1, <3>2
  <2>8. PrintedOrEaten'
    BY <1>1, <1>3, <2>6, <2>7 DEF PrintedOrEaten
  <2> QED BY <1>1, <1>4, <2>4, <2>8 DEF OnePass, EachRecordOnce
<1>7. CASE ~HasNext(w)
  <2>1. UNCHANGED <<eaten, ri>>
    BY <1>7, EatEffect
  <2>2. EatenInOrder'
    <3>1. \A i \in DOMAIN eaten : eaten[i][1] < w'
      BY <1>1, <1>8
    <3> QED BY <1>2, <2>1, <3>1 DEF EatenInOrder
  <2>3. PrintedOrEaten'
    BY <1>1, <1>2, <1>3, <2>1 DEF PrintedOrEaten, IsEaten
  <2> QED BY <1>1, <1>4, <2>2, <2>3 DEF OnePass, EachRecordOnce
<1> QED BY <1>6, <1>7

\* What was eaten is in the row.
LEMMA OnePassPrint == Typed /\ OnePass /\ PrintRow => OnePass'
<1> SUFFICES ASSUME Typed, OnePass, PrintRow PROVE OnePass'
  OBVIOUS
<1>1. status = "eat" /\ UNCHANGED <<files, ri, w, cur, eaten>> /\ Files' = Files
  BY PrintRowEffect DEF Files
<1>2. EatenInOrder /\ PrintedOrEaten /\ PrintedInOrder
  BY <1>1 DEF OnePass
<1>3. CASE status' \in {"error", "panic"} /\ UNCHANGED rows
  BY <1>3 DEF OnePass, EachRecordOnce
<1>4. CASE status' = "head" /\ \E sum : rows' = Append(rows, RowWith(sum))
  <2>1. PICK sum : rows' = Append(rows, RowWith(sum))
    BY <1>4
  <2> DEFINE n == Len(rows) + 1
  <2>2. /\ \A p \in Places : /\ p \in Places' /\ p[1] \in 1..Len(rows)
                             /\ (PrintedAt(p))' = PrintedAt(p)
        /\ \A j \in DOMAIN eaten : \E p \in Places' : (PrintedAt(p))' = eaten[j]
        /\ \A p \in Places' :
              \/ p \in Places
              \/ \E j \in DOMAIN eaten : p = <<n, j>> /\ (PrintedAt(p))' = eaten[j]
        /\ Len(rows) \in Nat
    BY <2>1, PlacesGrow
  <2> HIDE DEF n
  <2>3. /\ \A j \in DOMAIN eaten : eaten[j] \in Files \X Nat /\ j \in Nat
        /\ Files \subseteq Nat /\ \A f \in Files : ri[f] \in Nat
        /\ \A p \in Places : PrintedAt(p) \in Files \X Nat
    BY FilesType, PrintedType DEF Typed
  <2>4. \A p \in Places' : (PrintedAt(p))'[2] \in 1..ri[(PrintedAt(p))'[1]]
    <3> TAKE p \in Places'
    <3>1. CASE p \in Places
      BY <1>2, <2>2, <3>1 DEF PrintedOrEaten
    <3>2. ASSUME NEW j \in DOMAIN eaten, (PrintedAt(p))' = eaten[j]
          PROVE  (PrintedAt(p))'[2] \in 1..ri[(PrintedAt(p))'[1]]
      <4>1. eaten[j][1] \in Files /\ ri[eaten[j][1]] \in Nat
        BY <2>3
      <4> QED BY <1>2, <3>2, <4>1 DEF EatenInOrder
    <3> QED BY <2>2, <3>1, <3>2
  <2>5. \A f \in Files : \A k \in 1..ri[f] : \E p \in Places' : (PrintedAt(p))' = <<f, k>>
    <3> TAKE f \in Files
    <3> TAKE k \in 1..ri[f]
    <3>1. CASE \E p \in Places : PrintedAt(p) = <<f, k>>
      BY <2>2, <3>1
    <3>2. CASE \E i \in DOMAIN eaten : eaten[i] = <<f, k>>
      BY <2>2, <3>2
    <3> QED BY <1>2, <3>1, <3>2 DEF PrintedOrEaten
  <2>6. PrintedSoFar'
    BY <1>1, <2>4, <2>5 DEF PrintedSoFar
  <2>7. ASSUME NEW p \in Places', NEW q \in Places', Before(p, q),
               (PrintedAt(p))'[1] = (PrintedAt(q))'[1]
        PROVE  (PrintedAt(p))'[2] < (PrintedAt(q))'[2]
    <3>1. CASE p \in Places /\ q \in Places
      BY <1>2, <2>2, <2>7, <3>1 DEF PrintedInOrder
    <3>2. ASSUME p \in Places, NEW j \in DOMAIN eaten, (PrintedAt(q))' = eaten[j]
          PROVE  (PrintedAt(p))'[2] < (PrintedAt(q))'[2]
      <4>1. (PrintedAt(p))' = PrintedAt(p) /\ PrintedAt(p)[1] = eaten[j][1]
        BY <2>2, <2>7, <3>2
      <4>2. IsEaten(PrintedAt(p)[1])
        BY <4>1 DEF IsEaten
      <4> QED BY <1>2, <3>2, <4>1, <4>2 DEF PrintedOrEaten, EatenInOrder
    <3>3. ASSUME NEW i \in DOMAIN eaten, p = <<n, i>>, q \in Places
          PROVE  FALSE
      <4>1. q[1] \in 1..Len(rows) /\ p[1] = n
        BY <2>2, <3>3
      <4> QED BY <2>2, <2>7, <4>1 DEF Before, n
    <3>4. ASSUME NEW i \in DOMAIN eaten, p = <<n, i>>, (PrintedAt(p))' = eaten[i],
                 NEW j \in DOMAIN eaten, q = <<n, j>>, (PrintedAt(q))' = eaten[j]
          PROVE  FALSE
      <4>1. i < j
        BY <2>2, <2>7, <3>4 DEF Before, n
      <4>2. eaten[i][1] < eaten[j][1] /\ eaten[i][1] = eaten[j][1]
        BY <1>2, <2>7, <3>4, <4>1 DEF EatenInOrder
      <4>3. eaten[i][1] \in Nat
        BY <2>3
      <4> QED BY <4>2, <4>3
    <3> QED BY <2>2, <3>1, <3>2, <3>3, <3>4
  <2>8. PrintedInOrder'
    BY <2>7 DEF PrintedInOrder, Before
  <2>9. Typed' /\ (Typed => (EachRecordOnce <=>
              (status \in {"head", "done"} => PrintedSoFar /\ PrintedInOrder)))'
    BY TypedPrint, OnceAsPlaces, PTL
  <2> QED BY <1>4, <2>6, <2>8, <2>9 DEF OnePass
<1> QED BY <1>3, <1>4, PrintRowEffect

\* Every step of print keeps the account of the records.
LEMMA OnePassStep == Typed /\ OnePass /\ [Next]_vars => OnePass'
<1> SUFFICES ASSUME Typed, OnePass, [Next]_vars PROVE OnePass'
  OBVIOUS
<1>1. CASE Finish
  <2>1. UNCHANGED <<files, ri, rows>> /\ Files' = Files /\ status = "head" /\ status' = "done"
    BY <1>1 DEF Finish, Files
  <2>2. Places' = Places /\ \A p : (PrintedAt(p))' = PrintedAt(p)
    BY <2>1, PlacesSame
  <2>3. EachRecordOnce'
    BY <2>1, <2>2 DEF OnePass, EachRecordOnce
  <2> QED BY <2>1, <2>3 DEF OnePass
<1>2. CASE BailOut
  BY <1>2 DEF BailOut, OnePass, EachRecordOnce
<1>3. CASE UNCHANGED vars
  <2>1. UNCHANGED <<files, ri, rows, eaten, w, status>> /\ Files' = Files
    BY <1>3 DEF vars, Files
  <2>2. Places' = Places /\ \A p : (PrintedAt(p))' = PrintedAt(p)
    BY <2>1, PlacesSame
  <2> QED BY <2>1, <2>2 DEF OnePass, EachRecordOnce, EatenInOrder, PrintedOrEaten,
                            PrintedInOrder, IsEaten
<1> QED BY <1>1, <1>2, <1>3, OnePassPick, OnePassEat, OnePassPrint DEF Next

-----------------------------------------------------------------------------
(***************************************************************************)
(* No empty row                                                            *)
(***************************************************************************)
LEMMA RowToComeStep == Typed /\ RowToCome /\ [Next]_vars => RowToCome'
<1> SUFFICES ASSUME Typed, RowToCome, [Next]_vars PROVE RowToCome'
  OBVIOUS
<1>1. CASE Finish \/ BailOut
  BY <1>1 DEF Finish, BailOut, RowToCome
<1>2. CASE PickMoment
  <2>1. /\ UNCHANGED <<files, ri>> /\ w' = 1
        /\ \E f \in Files : HasNext(f)
    BY <1>2 DEF PickMoment, EarliestHead
  <2>2. Files \subseteq 1..Len(files)
    BY FilesType DEF Typed
  <2> QED BY <2>1, <2>2 DEF RowToCome, Files, HasNext
<1>3. CASE Eat
  <2>1. /\ w \in Files /\ w' = w + 1 /\ UNCHANGED files /\ Files' = Files /\ Files \subseteq Nat
        /\ status = "eat"
    BY <1>3, EatEffect, FilesType DEF Typed, Files
  <2>2. CASE HasNext(w)
    <3>1. eaten' # <<>>
      BY <1>3, <2>2, EatEffect, EatenGrows
    <3> QED BY <3>1 DEF RowToCome
  <2>3. CASE ~HasNext(w)
    <3>1. UNCHANGED <<eaten, ri>>
      BY <1>3, <2>3, EatEffect
    <3>2. \A f \in Files : f >= w /\ HasNext(f) => f >= w'
      BY <2>1, <2>3
    <3> QED BY <2>1, <3>1, <3>2 DEF RowToCome, HasNext
  <2> QED BY <2>2, <2>3
<1>4. CASE PrintRow
  BY <1>4, PrintRowEffect DEF RowToCome
<1>5. CASE UNCHANGED vars
  BY <1>5 DEF vars, RowToCome, Files, HasNext
<1> QED BY <1>1, <1>2, <1>3, <1>4, <1>5 DEF Next

-----------------------------------------------------------------------------
(***************************************************************************)
(* The order of time                                                       *)
(***************************************************************************)
\* Files are never written, so what they are and what an entry stands for stays.
LEMMA FilesFixed ==
    ASSUME [Next]_vars
    PROVE  /\ UNCHANGED files /\ Files' = Files /\ Sorted' = Sorted
           /\ AssumptionsKept' = AssumptionsKept
           /\ \A e : (Rec(e))' = Rec(e)
<1>1. UNCHANGED files
  BY PrintRowEffect DEF Next, Finish, PickMoment, Eat, BailOut, vars
<1> QED BY <1>1 DEF Files, Sorted, AssumptionsKept, Rec

\* One row's part of RowsInTimeOrder.
TimeOfEarliest(row) ==
    /\ \E e \in ToSet(row.recs) : Rec(e).now = row.time
    /\ \A e \in ToSet(row.recs) : row.time <= Rec(e).now

\* There is no row at the start.
LEMMA InTimeInit == Init => InTime
  BY DEF Init, InTime, RowsInTimeOrder

\* The moment is no later than any head.
LEMMA InTimePick == Typed /\ InTime /\ PickMoment => InTime'
<1> SUFFICES ASSUME Typed, InTime, PickMoment, Sorted PROVE InTime'
  BY FilesFixed DEF InTime, Next
<1>1. /\ UNCHANGED <<files, ri, rows>> /\ Files' = Files /\ eaten' = <<>> /\ w' = 1
      /\ status = "head" /\ status' \in {"eat", "panic"}
      /\ \A e : (Rec(e))' = Rec(e)
  BY FilesFixed DEF PickMoment, Next
<1>2. RowsInTimeOrder'
  BY <1>1 DEF InTime, RowsInTimeOrder
<1>3. \A f \in Files : (HasNext(f))' = HasNext(f) /\ (Next1(f))' = Next1(f)
  BY <1>1 DEF HasNext, Next1
<1>4. PICK f \in Files : EarliestHead(f) /\ cur'.time = Next1(f).now
  BY DEF PickMoment
<1>5. HasNext(f) /\ Next1(f).now \in Int /\ f >= 1
  BY <1>4, HeadType, FilesType DEF EarliestHead, Typed
<1>6. \A g \in Files : HasNext(g) => cur'.time <= Next1(g).now
  <2> TAKE g \in Files
  <2> HAVE HasNext(g)
  <2>1. Next1(g).now \in Int
    BY HeadType
  <2>2. Next1(f).now < Next1(g).now \/ Next1(f).now = Next1(g).now
    BY <1>4 DEF EarliestHead
  <2> QED BY <1>4, <1>5, <2>1, <2>2
<1>7. \A i \in DOMAIN rows : rows[i].time <= cur'.time
  BY <1>1, <1>4, <1>5 DEF InTime
<1>8. MomentInOrder'
  BY <1>1, <1>3, <1>4, <1>5, <1>6, <1>7 DEF MomentInOrder
<1> QED BY <1>1, <1>2, <1>8 DEF InTime

\* The head that replaces one eaten is no earlier in a sorted file.
LEMMA InTimeEat == Typed /\ InTime /\ Eat => InTime'
<1> SUFFICES ASSUME Typed, InTime, Eat, Sorted PROVE InTime'
  BY FilesFixed DEF InTime, Next
<1>1. /\ UNCHANGED <<files, cur, rows>> /\ Files' = Files /\ w \in Files /\ w' = w + 1
      /\ status = "eat" /\ status' = "eat" /\ \A e : (Rec(e))' = Rec(e)
  BY EatEffect, FilesFixed DEF Next
<1>2. RowsInTimeOrder'
  BY <1>1 DEF InTime, RowsInTimeOrder
<1>3. MomentInOrder
  BY <1>1 DEF InTime
<1>4. w \in Nat /\ Files \subseteq Nat /\ cur.time \in Int
  BY FilesType DEF Typed
<1>5. CASE HasNext(w)
  <2> DEFINE e == <<w, ri[w] + 1>>
  <2>1. /\ Len(eaten) \in Nat /\ DOMAIN eaten = 1..Len(eaten)
        /\ DOMAIN eaten' = 1..(Len(eaten) + 1)
        /\ \A i \in DOMAIN eaten : eaten'[i] = eaten[i]
        /\ eaten'[Len(eaten) + 1] = e
    BY <1>5, EatEffect, EatenGrows
  <2>2. /\ ri'[w] = ri[w] + 1 /\ ri[w] \in Nat
        /\ \A f \in Files \ {w} : ri'[f] = ri[f]
    BY <1>5, EatMoves
  <2>3. Rec(e) = Next1(w) /\ Next1(w).now \in Int /\ cur.time <= Next1(w).now
    BY <1>1, <1>3, <1>5, HeadType DEF Rec, Next1, MomentInOrder
  <2> HIDE DEF e
  <2>4. \A f \in Files \ {w} : (HasNext(f))' = HasNext(f) /\ (Next1(f))' = Next1(f)
    BY <1>1, <2>2 DEF HasNext, Next1
  <2>5. ASSUME ri[w] + 1 < Len(files[w]) PROVE cur.time <= files[w][ri[w] + 2].now
    <3>1. /\ Len(files[w]) \in Nat /\ files[w] \in Seq(Records)
          /\ ri[w] + 1 \in 1..Len(files[w]) /\ ri[w] + 2 \in 1..Len(files[w])
      BY <1>1, <2>2, <2>5, FilesType DEF Typed
    <3>2. files[w][ri[w] + 2] \in Records /\ files[w][ri[w] + 2].now \in Int
      BY <3>1, ChistAssumption
    <3>3. files[w][ri[w] + 1].now <= files[w][ri[w] + 2].now
      BY <1>1, <2>2, <3>1 DEF Sorted
    <3> QED BY <1>4, <2>3, <3>2, <3>3 DEF Next1
  <2>6. \A f \in Files : (HasNext(f))' => cur.time <= (Next1(f))'.now
    <3> TAKE f \in Files
    <3> HAVE (HasNext(f))'
    <3>1. CASE f = w
      <4>1. ri'[f] = ri[w] + 1 /\ ri'[f] + 1 = ri[w] + 2
        BY <2>2, <3>1
      <4>2. ri[w] + 1 < Len(files[w]) /\ (Next1(f))' = files[w][ri[w] + 2]
        BY <1>1, <3>1, <4>1 DEF HasNext, Next1
      <4> QED BY <2>5, <4>2
    <3>2. CASE f # w
      BY <1>3, <2>4, <3>2 DEF MomentInOrder
    <3> QED BY <3>1, <3>2
  <2>7. \A i \in DOMAIN eaten' : cur.time <= Rec(eaten'[i]).now
    BY <1>3, <2>1, <2>3 DEF MomentInOrder
  <2>8. \/ \E i \in DOMAIN eaten' : Rec(eaten'[i]).now = cur.time
        \/ \E f \in Files : f >= w + 1 /\ (HasNext(f))' /\ (Next1(f))'.now = cur.time
    <3>1. CASE \E i \in DOMAIN eaten : Rec(eaten[i]).now = cur.time
      BY <2>1, <3>1
    <3>2. CASE \E f \in Files : f >= w /\ HasNext(f) /\ Next1(f).now = cur.time
      BY <1>4, <2>1, <2>3, <2>4, <3>2
    <3> QED BY <1>3, <3>1, <3>2 DEF MomentInOrder
  <2>9. MomentInOrder'
    <3>1. \A i \in DOMAIN rows : rows[i].time <= cur.time
      BY <1>3 DEF MomentInOrder
    <3> QED BY <1>1, <2>6, <2>7, <2>8, <3>1 DEF MomentInOrder
  <2> QED BY <1>1, <1>2, <2>9 DEF InTime
<1>6. CASE ~HasNext(w)
  <2>1. UNCHANGED <<eaten, ri>>
    BY <1>6, EatEffect
  <2>2. \A f \in Files : (HasNext(f))' = HasNext(f) /\ (Next1(f))' = Next1(f)
    BY <1>1, <2>1 DEF HasNext, Next1
  <2>3. \A f \in Files : f >= w /\ HasNext(f) => f >= w + 1
    BY <1>4, <1>6
  <2>4. MomentInOrder'
    BY <1>1, <1>3, <2>1, <2>2, <2>3 DEF MomentInOrder
  <2> QED BY <1>1, <1>2, <2>4 DEF InTime
<1> QED BY <1>5, <1>6

\* The row has the time of the moment.
LEMMA InTimePrint == Typed /\ InTime /\ PrintRow => InTime'
<1> SUFFICES ASSUME Typed, InTime, PrintRow, Sorted PROVE InTime'
  BY FilesFixed DEF InTime, Next
<1>1. /\ UNCHANGED <<files, ri, w, cur, eaten>> /\ Files' = Files /\ w \notin Files
      /\ status = "eat" /\ \A e : (Rec(e))' = Rec(e)
  BY PrintRowEffect, FilesFixed DEF Next
<1>2. CASE status' \in {"error", "panic"} /\ UNCHANGED rows
  BY <1>1, <1>2 DEF InTime, RowsInTimeOrder
<1>3. CASE status' = "head" /\ \E sum : rows' = Append(rows, RowWith(sum))
  <2>1. PICK sum : rows' = Append(rows, RowWith(sum))
    BY <1>3
  <2> DEFINE row == RowWith(sum)
  <2>2. row.time = cur.time /\ row.recs = eaten
    BY DEF RowWith
  <2> HIDE DEF row
  <2>3. /\ DOMAIN rows' = 1..(Len(rows) + 1) /\ Len(rows) \in Nat /\ IsSequence(rows')
        /\ \A i \in 1..Len(rows) : rows'[i] = rows[i]
        /\ rows'[Len(rows) + 1] = row /\ DOMAIN rows = 1..Len(rows)
    BY <2>1, AppendSeq DEF Typed, row
  <2>4. Len(rows') = Len(rows) + 1
    BY <2>3 DEF IsSequence
  <2>5. MomentInOrder
    BY <1>1 DEF InTime
  <2>6. \A f \in Files : f < w /\ (HasNext(f))' = HasNext(f) /\ (Next1(f))' = Next1(f)
    <3>1. \A f \in Files : f < w
      BY <1>1, FilesType DEF Typed
    <3> QED BY <1>1, <3>1 DEF HasNext, Next1
  <2>7. \E i \in DOMAIN eaten : Rec(eaten[i]).now = cur.time
    <3>1. w \in Nat /\ Files \subseteq Nat
      BY FilesType DEF Typed
    <3> QED BY <2>5, <2>6, <3>1 DEF MomentInOrder
  <2>8. TimeOfEarliest(row)
    BY <2>2, <2>5, <2>7 DEF TimeOfEarliest, MomentInOrder, ToSet
  <2>9. \A i \in 1..Len(rows) : TimeOfEarliest(rows[i])
    BY DEF InTime, RowsInTimeOrder, TimeOfEarliest
  <2>10. \A i \in 1..Len(rows') : (TimeOfEarliest(rows[i]))'
    <3>1. \A i \in 1..(Len(rows) + 1) : TimeOfEarliest(rows'[i])
      BY <2>3, <2>8, <2>9
    <3> QED BY <1>1, <2>4, <3>1 DEF TimeOfEarliest
  <2>11. \A i \in 1..Len(rows) : rows[i].time <= cur.time
    BY <2>3, <2>5 DEF MomentInOrder
  <2>12. \A i, j \in 1..Len(rows') : i < j => rows'[i].time <= rows'[j].time
    <3> TAKE i, j \in 1..Len(rows')
    <3> HAVE i < j
    <3>1. CASE j \in 1..Len(rows)
      BY <2>3, <3>1 DEF InTime, RowsInTimeOrder
    <3>2. CASE j = Len(rows) + 1
      BY <2>2, <2>3, <2>4, <2>11, <3>2
    <3> QED BY <2>3, <2>4, <3>1, <3>2
  <2>13. RowsInTimeOrder'
    BY <2>10, <2>12 DEF RowsInTimeOrder, TimeOfEarliest
  <2>14. \A i \in DOMAIN rows', f \in Files : (HasNext(f))' => rows'[i].time <= (Next1(f))'.now
    <3> TAKE i \in DOMAIN rows', f \in Files
    <3> HAVE (HasNext(f))'
    <3>1. /\ (Next1(f))' = Next1(f) /\ cur.time <= Next1(f).now /\ cur.time \in Int
          /\ Next1(f).now \in Int
      BY <2>5, <2>6, HeadType DEF MomentInOrder, Typed
    <3>2. rows'[i].time <= cur.time /\ rows'[i].time \in Int
      <4>1. CASE i = Len(rows) + 1
        BY <2>2, <2>3, <3>1, <4>1
      <4>2. CASE i \in 1..Len(rows)
        BY <2>3, <2>11, <4>2 DEF Typed
      <4> QED BY <2>3, <4>1, <4>2
    <3> QED BY <3>1, <3>2
  <2> QED BY <1>1, <1>3, <2>13, <2>14 DEF InTime
<1> QED BY <1>2, <1>3, PrintRowEffect

\* Every step of print keeps rows, moment and heads in order.
LEMMA InTimeStep == Typed /\ InTime /\ [Next]_vars => InTime'
<1> SUFFICES ASSUME Typed, InTime, [Next]_vars, Sorted PROVE InTime'
  BY FilesFixed DEF InTime
<1>1. Files' = Files /\ \A e : (Rec(e))' = Rec(e)
  BY FilesFixed
<1>2. CASE Finish \/ BailOut
  BY <1>1, <1>2 DEF Finish, BailOut, InTime, RowsInTimeOrder
<1>3. CASE UNCHANGED vars
  BY <1>1, <1>3 DEF vars, InTime, RowsInTimeOrder, MomentInOrder, HasNext, Next1
<1> QED BY <1>2, <1>3, InTimePick, InTimeEat, InTimePrint DEF Next

-----------------------------------------------------------------------------
(***************************************************************************)
(* Files that keep to the assumptions of print                             *)
(***************************************************************************)
\* The head of the walker whose turn it is belongs to the moment.
LEMMA HeadOfTurn ==
    ASSUME Typed, AssumptionsKept, NEW n \in Nat, TurnOf(n), w \in Files, HasNext(w)
    PROVE  ri[w] = n /\ Near(Next1(w)) /\ Next1(w).name = cur.name
<1>1. ri[w] = n
  <2>1. ~(w < w)
    BY FilesType DEF Typed
  <2> QED BY <2>1 DEF TurnOf
<1>2. n + 1 \in DOMAIN files[w] /\ Next1(w) = files[w][n + 1]
  BY <1>1, HeadType DEF Next1
<1>3. PICK f \in Files :
          /\ n + 1 \in DOMAIN files[f]
          /\ cur = [time |-> files[f][n + 1].now,
                    next |-> files[f][n + 1].now + files[f][n + 1].elapsed,
                    name |-> files[f][n + 1].name]
          /\ cur.time <= files[w][n + 1].now
  BY <1>2 DEF TurnOf
<1> DEFINE a == files[f][n + 1]
           b == files[w][n + 1]
<1>4. n + 1 \in DOMAIN files[f] \cap DOMAIN files[w] /\ a.now <= b.now
  BY <1>2, <1>3
<1>5. a.name = b.name /\ MsBetween(b.now, a.now) < MsBetween(b.now, a.now + a.elapsed)
  BY <1>4 DEF AssumptionsKept
<1>6. cur.time = a.now /\ cur.next = a.now + a.elapsed /\ cur.name = a.name
  BY <1>3
<1> QED BY <1>1, <1>2, <1>5, <1>6 DEF Near

\* One row's part of RowsCorrespond.
Corresponds(row) ==
    \A e \in ToSet(row.recs) :
        /\ MsBetween(Rec(e).now, row.time) < MsBetween(Rec(e).now, row.next)
        /\ Rec(e).name = row.name

\* RowsCorrespond, row by row.
LEMMA CorrespondByRow ==
    AssumptionsKept =>
        (RowsCorrespond <=> (status # "mismatch" /\ \A i \in 1..Len(rows) : Corresponds(rows[i])))
  BY DEF RowsCorrespond, EveryRowCorresponds, Corresponds

\* All walkers start at the first record.
LEMMA InStepInit == Init => InStep
  BY FilesType DEF Init, InStep, RowsCorrespond, EveryRowCorresponds, Files

\* A step that prints nothing and is no bail-out keeps RowsCorrespond.
LEMMA CorrespondKept ==
    ASSUME [Next]_vars, AssumptionsKept, RowsCorrespond, UNCHANGED rows, status' # "mismatch"
    PROVE  RowsCorrespond'
  BY FilesFixed DEF RowsCorrespond, EveryRowCorresponds

\* The moment belongs to the turn.
LEMMA InStepPick == Typed /\ InStep /\ PickMoment => InStep'
<1> SUFFICES ASSUME Typed, InStep, PickMoment, AssumptionsKept PROVE InStep'
  BY FilesFixed DEF InStep, Next
<1>1. /\ UNCHANGED <<files, ri, rows>> /\ Files' = Files /\ eaten' = <<>> /\ w' = 1
      /\ status = "head" /\ status' \in {"eat", "panic"}
  BY DEF PickMoment, Files
<1>2. RowsCorrespond'
  BY <1>1, CorrespondKept DEF InStep, Next
<1>3. PICK f \in Files :
        /\ EarliestHead(f)
        /\ cur' = [time |-> Next1(f).now,
                   next |-> Next1(f).now + Next1(f).elapsed,
                   name |-> Next1(f).name]
  BY DEF PickMoment
<1> DEFINE n == ri[f]
<1>4. HasNext(f) /\ n \in Nat /\ n + 1 \in DOMAIN files[f] /\ Next1(f) = files[f][n + 1]
  BY <1>3, HeadType DEF EarliestHead, Next1
<1>5. \A g \in Files : ri[g] \in Nat /\ ri[g] <= n /\ (HasNext(g) => ri[g] = n) /\ ~(g < 1)
  <2> TAKE g \in Files
  <2>1. ri[g] \in Nat /\ g \in Nat \ {0}
    BY FilesType DEF Typed
  <2>2. ri[g] <= n /\ (HasNext(g) => n <= ri[g])
    BY <1>1, <1>4 DEF InStep
  <2> QED BY <1>4, <2>1, <2>2
<1>6. \A g \in Files : n + 1 \in DOMAIN files[g] => cur'.time <= files[g][n + 1].now
  <2> TAKE g \in Files
  <2> HAVE n + 1 \in DOMAIN files[g]
  <2>1. HasNext(g)
    BY <1>4, <1>5, FilesType DEF Typed, HasNext
  <2>2. Next1(g) = files[g][n + 1] /\ Next1(g).now \in Int /\ Next1(f).now \in Int
    BY <1>4, <1>5, <2>1, HeadType DEF Next1
  <2>3. Next1(f).now < Next1(g).now \/ Next1(f).now = Next1(g).now
    BY <1>3, <2>1 DEF EarliestHead
  <2> QED BY <1>3, <2>2, <2>3
<1>7. \A g \in Files : (HasNext(g))' = HasNext(g)
  BY <1>1 DEF HasNext
<1>8. \E m \in Nat : (TurnOf(m))'
  <2>1. /\ \A g \in Files : ri[g] <= n /\ (HasNext(g) => ri[g] = n) /\ ~(g < w')
        /\ n + 1 \in DOMAIN files[f]
        /\ cur' = [time |-> files[f][n + 1].now,
                   next |-> files[f][n + 1].now + files[f][n + 1].elapsed,
                   name |-> files[f][n + 1].name]
    BY <1>1, <1>3, <1>4, <1>5
  <2>2. PICK m \in Nat : m = n
    BY <1>4
  <2> HIDE DEF n
  <2>3. (TurnOf(m))'
    BY <1>1, <1>6, <1>7, <2>1, <2>2 DEF TurnOf
  <2> QED BY <2>3
<1> QED BY <1>1, <1>2, <1>8 DEF InStep

\* A head of the turn is near, and is eaten.
LEMMA InStepEat == Typed /\ InStep /\ Eat => InStep'
<1> SUFFICES ASSUME Typed, InStep, Eat, AssumptionsKept PROVE InStep'
  BY FilesFixed DEF InStep, Next
<1>1. /\ UNCHANGED <<files, cur, rows>> /\ Files' = Files /\ w \in Files /\ w' = w + 1
      /\ status = "eat" /\ status' = "eat" /\ \A e : (Rec(e))' = Rec(e)
      /\ \A rec : (Near(rec))' = Near(rec)
  BY EatEffect, FilesFixed DEF Next, Near
<1>2. RowsCorrespond'
  BY <1>1, CorrespondKept DEF InStep, Next
<1>3. PICK n \in Nat : TurnOf(n)
  BY <1>1 DEF InStep
<1>4. w \in Nat /\ Files \subseteq Nat /\ \A f \in Files : ri[f] \in Nat
  BY FilesType DEF Typed
<1>5. \A f \in Files : /\ f < w => ri[f] <= n + 1 /\ (HasNext(f) => ri[f] = n + 1)
                       /\ ~(f < w) => ri[f] <= n /\ (HasNext(f) => ri[f] = n)
  BY <1>3 DEF TurnOf
<1>6. \E f \in Files :
          /\ n + 1 \in DOMAIN files[f]
          /\ cur = [time |-> files[f][n + 1].now,
                    next |-> files[f][n + 1].now + files[f][n + 1].elapsed,
                    name |-> files[f][n + 1].name]
          /\ \A g \in Files : n + 1 \in DOMAIN files[g] => cur.time <= files[g][n + 1].now
  BY <1>3 DEF TurnOf
<1>7. CASE HasNext(w)
  <2> DEFINE e == <<w, ri[w] + 1>>
  <2>1. /\ Len(eaten) \in Nat /\ DOMAIN eaten = 1..Len(eaten)
        /\ DOMAIN eaten' = 1..(Len(eaten) + 1)
        /\ \A i \in DOMAIN eaten : eaten'[i] = eaten[i]
        /\ eaten'[Len(eaten) + 1] = e
    BY <1>7, EatEffect, EatenGrows
  <2>2. /\ ri'[w] = ri[w] + 1 /\ ri[w] \in Nat
        /\ \A f \in Files \ {w} : ri'[f] = ri[f]
    BY <1>7, EatMoves
  <2>3. ri[w] = n /\ Near(Rec(e)) /\ Rec(e).name = cur.name
    <3>1. Rec(e) = Next1(w)
      BY DEF Rec, Next1
    <3> QED BY <1>1, <1>3, <1>7, <3>1, HeadOfTurn
  <2> HIDE DEF e
  <2>4. \A i \in DOMAIN eaten' : Near(Rec(eaten'[i])) /\ Rec(eaten'[i]).name = cur.name
    <3>1. \A i \in DOMAIN eaten : Near(Rec(eaten[i])) /\ Rec(eaten[i]).name = cur.name
      BY <1>1 DEF InStep
    <3> QED BY <2>1, <2>3, <3>1
  <2>5. \A f \in Files :
          LET done == IF f < w + 1 THEN n + 1 ELSE n
          IN  ri'[f] <= done /\ ((HasNext(f))' => ri'[f] = done)
    <3> TAKE f \in Files
    <3>1. CASE f = w
      BY <1>4, <2>2, <2>3, <3>1
    <3>2. CASE f # w
      <4>1. ri'[f] = ri[f] /\ (HasNext(f))' = HasNext(f)
        BY <1>1, <2>2, <3>2 DEF HasNext
      <4>2. f < w + 1 <=> f < w
        BY <1>4, <3>2
      <4> QED BY <1>5, <4>1, <4>2
    <3> QED BY <3>1, <3>2
  <2>6. (TurnOf(n))'
    BY <1>1, <1>6, <2>5 DEF TurnOf
  <2> QED BY <1>1, <1>2, <2>4, <2>6 DEF InStep
<1>8. CASE ~HasNext(w)
  <2>1. UNCHANGED <<eaten, ri>>
    BY <1>8, EatEffect
  <2>2. \A f \in Files :
          LET done == IF f < w + 1 THEN n + 1 ELSE n
          IN  ri[f] <= done /\ ((HasNext(f))' => ri[f] = done)
    <3> TAKE f \in Files
    <3>1. (HasNext(f))' = HasNext(f)
      BY <1>1, <2>1 DEF HasNext
    <3>2. CASE f = w
      BY <1>4, <1>5, <1>8, <3>1, <3>2
    <3>3. CASE f # w
      <4>1. f < w + 1 <=> f < w
        BY <1>4, <3>3
      <4> QED BY <1>5, <3>1, <4>1
    <3> QED BY <3>2, <3>3
  <2>3. (TurnOf(n))'
    BY <1>1, <1>6, <2>1, <2>2 DEF TurnOf
  <2>4. \A i \in DOMAIN eaten' : Near(Rec(eaten'[i])) /\ Rec(eaten'[i]).name = cur.name
    BY <1>1, <2>1 DEF InStep
  <2> QED BY <1>1, <1>2, <2>3, <2>4 DEF InStep
<1> QED BY <1>7, <1>8

\* A row ends the turn.
LEMMA InStepPrint == Typed /\ InStep /\ PrintRow => InStep'
<1> SUFFICES ASSUME Typed, InStep, PrintRow, AssumptionsKept PROVE InStep'
  BY FilesFixed DEF InStep, Next
<1>1. /\ UNCHANGED <<files, ri, w, cur, eaten>> /\ Files' = Files /\ w \notin Files
      /\ status = "eat" /\ \A e : (Rec(e))' = Rec(e)
      /\ AssumptionsKept'
  BY PrintRowEffect, FilesFixed DEF Next
<1>2. CASE status' \in {"error", "panic"} /\ UNCHANGED rows
  BY <1>1, <1>2, CorrespondKept DEF InStep, Next
<1>3. CASE status' = "head" /\ \E sum : rows' = Append(rows, RowWith(sum))
  <2>1. PICK sum : rows' = Append(rows, RowWith(sum))
    BY <1>3
  <2> DEFINE row == RowWith(sum)
  <2>2. /\ row.time = cur.time /\ row.next = cur.next /\ row.name = cur.name
        /\ row.recs = eaten
    BY DEF RowWith
  <2> HIDE DEF row
  <2>3. /\ DOMAIN rows' = 1..(Len(rows) + 1) /\ Len(rows) \in Nat /\ IsSequence(rows')
        /\ \A i \in 1..Len(rows) : rows'[i] = rows[i]
        /\ rows'[Len(rows) + 1] = row /\ DOMAIN rows = 1..Len(rows)
    BY <2>1, AppendSeq DEF Typed, row
  <2>4. Len(rows') = Len(rows) + 1
    BY <2>3 DEF IsSequence
  <2>5. Corresponds(row)
    <3>1. \A i \in DOMAIN eaten : Near(Rec(eaten[i])) /\ Rec(eaten[i]).name = cur.name
      BY <1>1 DEF InStep
    <3> QED BY <2>2, <3>1 DEF Corresponds, Near, ToSet
  <2>6. \A i \in 1..Len(rows) : Corresponds(rows[i])
    BY CorrespondByRow DEF InStep
  <2>7. \A i \in 1..Len(rows') : (Corresponds(rows[i]))'
    <3>1. \A i \in 1..(Len(rows) + 1) : Corresponds(rows'[i])
      BY <2>3, <2>5, <2>6
    <3> QED BY <1>1, <2>4, <3>1 DEF Corresponds
  <2>8. RowsCorrespond'
    BY <1>1, <1>3, <2>7 DEF RowsCorrespond, EveryRowCorresponds, Corresponds
  <2>9. \A f, g \in Files : HasNext(f) => ri[g] <= ri[f]
    <3>1. PICK n \in Nat : TurnOf(n)
      BY <1>1 DEF InStep
    <3>2. \A f \in Files : f < w
      BY <1>1, FilesType DEF Typed
    <3>3. \A f \in Files : ri[f] <= n + 1 /\ (HasNext(f) => ri[f] = n + 1)
      BY <3>1, <3>2 DEF TurnOf
    <3> QED BY <3>3
  <2>10. \A f, g \in Files : (HasNext(f))' => ri'[g] <= ri'[f]
    BY <1>1, <2>9 DEF HasNext
  <2> QED BY <1>1, <1>3, <2>8, <2>10 DEF InStep
<1> QED BY <1>2, <1>3, PrintRowEffect

\* Every step of print keeps the walkers in step.
LEMMA InStepStep == Typed /\ InStep /\ [Next]_vars => InStep'
<1> SUFFICES ASSUME Typed, InStep, [Next]_vars, AssumptionsKept PROVE InStep'
  BY FilesFixed DEF InStep
<1>1. UNCHANGED files /\ Files' = Files /\ \A e : (Rec(e))' = Rec(e)
  BY FilesFixed
<1>2. CASE Finish
  <2>1. RowsCorrespond'
    BY <1>2, CorrespondKept DEF Finish, InStep
  <2> QED BY <1>2, <2>1 DEF Finish, InStep
<1>3. CASE BailOut
  <2>1. PICK n \in Nat : TurnOf(n)
    BY <1>3 DEF BailOut, InStep
  <2> QED BY <1>3, <2>1, HeadOfTurn DEF BailOut, Mismatch
<1>4. CASE UNCHANGED vars
  <2>1. UNCHANGED <<ri, w, cur, eaten, rows, status>>
    BY <1>4 DEF vars
  <2>2. RowsCorrespond' = RowsCorrespond
    BY <1>1, <2>1, FilesFixed DEF RowsCorrespond, EveryRowCorresponds
  <2>3. \A n : (TurnOf(n))' = TurnOf(n)
    BY <1>1, <2>1 DEF TurnOf, HasNext
  <2>4. \A rec : (Near(rec))' = Near(rec)
    BY <2>1 DEF Near
  <2> QED BY <1>1, <2>1, <2>2, <2>3, <2>4 DEF InStep, HasNext
<1> QED BY <1>2, <1>3, <1>4, InStepPick, InStepEat, InStepPrint DEF Next

-----------------------------------------------------------------------------
(***************************************************************************)
(* The theorems                                                            *)
(***************************************************************************)
LEMMA ChistInvHolds == Spec => []ChistInv
<1>1. Init => ChistInv
  BY TypedInit, OnePassInit, InTimeInit, InStepInit DEF ChistInv, RowToCome, Init
<1>2. ChistInv /\ [Next]_vars => ChistInv'
  BY TypedStep, OnePassStep, RowToComeStep, InTimeStep, InStepStep DEF ChistInv
<1> QED BY <1>1, <1>2, PTL DEF Spec

\* The type invariant of chist print: no walker (HistFileWalkState) leaves its file.
THEOREM TypeCorrect == Spec => []TypeOK
<1>1. ChistInv => TypeOK
  BY DEF ChistInv, Typed, TypeOK
<1> QED BY <1>1, ChistInvHolds, PTL

\* At the head of its loop print has printed every record that the walkers have
\* passed, exactly once, in the order of its file, whatever the files are.
THEOREM EachRecordOnceCorrect == Spec => []EachRecordOnce
<1>1. ChistInv => EachRecordOnce
  BY DEF ChistInv, OnePass
<1> QED BY <1>1, ChistInvHolds, PTL

\* Rows come out in the order of time, each at the time of its earliest record,
\* if the records of each file are in the order of time.
THEOREM RowsInTimeOrderCorrect == Spec => []RowsInTimeOrder
<1>1. ChistInv => RowsInTimeOrder
  BY DEF ChistInv, InTime, RowsInTimeOrder
<1> QED BY <1>1, ChistInvHolds, PTL

\* Files that keep to the assumptions stated in print's comment, any number of
\* them and of any length, are merged moment by moment: a row's records have its
\* name and are nearest to its time, and print never bails out on a name.
THEOREM RowsCorrespondCorrect == Spec => []RowsCorrespond
<1>1. ChistInv => RowsCorrespond
  BY DEF ChistInv, InStep, RowsCorrespond
<1> QED BY <1>1, ChistInvHolds, PTL

\* When all walkers have had their turn something was eaten: first().unwrap() on
\* the histograms of a row never panics.
THEOREM NoEmptyRow == Spec => [](status = "eat" /\ w \notin Files => eaten # <<>>)
<1>1. ChistInv => (status = "eat" /\ w \notin Files => eaten # <<>>)
  <2> SUFFICES ASSUME ChistInv, status = "eat", w \notin Files PROVE eaten # <<>>
    OBVIOUS
  <2>1. \A f \in Files : ~(f >= w)
    BY FilesType DEF ChistInv, Typed
  <2> QED BY <2>1 DEF ChistInv, RowToCome
<1> QED BY <1>1, ChistInvHolds, PTL
=============================================================================
