-------------------------------- MODULE Chist --------------------------------
(***************************************************************************)
(* chist print (tools/chist/src/main.rs): one walker per histogram file;   *)
(* each turn of the loop takes the earliest head record as the moment to   *)
(* report, lets every walker eat a record, and adds the histograms of what *)
(* was eaten into one output row.                                          *)
(*                                                                         *)
(* A record is [now, elapsed, name, hist]: its times are in ticks, and its *)
(* histogram is the snapshot [low, high, sigfig, counts] of the file.      *)
(***************************************************************************)
EXTENDS ChistSummarize, HistogramOps

CONSTANTS Inputs,   \* the tuples of files chist may be called with
          MaxI64    \* the largest elapsed (u64) that fits in an i64

\* The records of all files.
Records == UNION {UNION {ToSet(f) : f \in ToSet(input)} : input \in Inputs}

ASSUME ChistAssumption ==
    /\ MaxI64 \in Nat
    /\ Inputs \subseteq Seq(Seq(Records)) \ {<<>>}
    /\ \A rec \in Records : rec.now \in Int /\ rec.elapsed \in Nat

VARIABLES files,   \* file_walkers: the records of each file
          ri,      \* HistFileWalkState.ri, counted from 0
          w,       \* the walker whose turn it is to eat
          cur,     \* (min_time, min_next, name) of this turn
          eaten,   \* the records eaten in this turn, as <<file, index>>
          rows,    \* what has been printed
          status   \* "head", "eat"; "done", "mismatch", "error", "panic"

vars == <<files, ri, w, cur, eaten, rows, status>>

Files == DOMAIN files
HasNext(f) == ri[f] < Len(files[f])
Next1(f) == files[f][ri[f] + 1]
Rec(e) == files[e[1]][e[2]]

\* (a - b).num_milliseconds().abs()
MsBetween(a, b) == IF a > b THEN Ms(a - b) ELSE Ms(b - a)

NoMoment == [time |-> 0, next |-> 0, name |-> "none"]

\* read_hist_file has read every file.
Init ==
    /\ files \in Inputs
    /\ ri = [f \in DOMAIN files |-> 0]
    /\ w = 1 /\ cur = NoMoment /\ eaten = <<>> /\ rows = <<>>
    /\ status = "head"

\* Mutant of EarliestHead: the latest head.
LatestHead(f) ==
    /\ HasNext(f)
    /\ \A g \in Files : HasNext(g) =>
          \/ Next1(f).now > Next1(g).now
          \/ Next1(f).now = Next1(g).now /\ f <= g

\* min_by returns the first of several minima.
EarliestHead(f) ==
    /\ HasNext(f)
    /\ \A g \in Files : HasNext(g) =>
          \/ Next1(f).now < Next1(g).now
          \/ Next1(f).now = Next1(g).now /\ f <= g

\* No records left in any file.
Finish ==
    /\ status = "head" /\ \A f \in Files : ~HasNext(f)
    /\ status' = "done"
    /\ UNCHANGED <<files, ri, w, cur, eaten, rows>>

\* elapsed.try_into().unwrap() panics on what is no i64.
PickMoment ==
    /\ status = "head"
    /\ \E f \in Files :
         /\ EarliestHead(f)
         /\ cur' = [time |-> Next1(f).now,
                    next |-> Next1(f).now + Next1(f).elapsed,
                    name |-> Next1(f).name]
         /\ status' = IF Next1(f).elapsed > MaxI64 THEN "panic" ELSE "eat"
    /\ w' = 1 /\ eaten' = <<>>
    /\ UNCHANGED <<files, ri, rows>>

\* maybe_eat_record_time_name: the record is nearer to this moment than to
\* the next one.
Near(rec) == MsBetween(rec.now, cur.time) < MsBetween(rec.now, cur.next)
Mismatch == HasNext(w) /\ Near(Next1(w)) /\ Next1(w).name # cur.name

\* Mutant of Eat: no look at the end of the file.
EatUnchecked ==
    /\ status = "eat" /\ w \in Files /\ ~Mismatch
    /\ eaten' = Append(eaten, <<w, ri[w] + 1>>)
    /\ ri' = [ri EXCEPT ![w] = @ + 1]
    /\ w' = w + 1
    /\ UNCHANGED <<files, cur, rows, status>>

\* Mutant of Eat: the comparison of the distances is the wrong way round.
EatFar ==
    /\ status = "eat" /\ w \in Files /\ ~Mismatch
    /\ IF HasNext(w) /\ ~Near(Next1(w))
         THEN /\ eaten' = Append(eaten, <<w, ri[w] + 1>>)
              /\ ri' = [ri EXCEPT ![w] = @ + 1]
         ELSE UNCHANGED <<eaten, ri>>
    /\ w' = w + 1
    /\ UNCHANGED <<files, cur, rows, status>>

\* Mutant of Eat: the record stays the walker's head.
EatKeepsHead ==
    /\ status = "eat" /\ w \in Files /\ ~Mismatch
    /\ eaten' = IF HasNext(w) THEN Append(eaten, <<w, ri[w] + 1>>) ELSE eaten
    /\ w' = w + 1
    /\ UNCHANGED <<files, ri, cur, rows, status>>

\* Mutant of Eat: a file that has come to its end starts again.
EatWraps ==
    /\ status = "eat" /\ w \in Files /\ ~Mismatch
    /\ IF HasNext(w)
         THEN /\ eaten' = Append(eaten, <<w, ri[w] + 1>>)
              /\ ri' = [ri EXCEPT ![w] = (@ + 1) % Len(files[w])]
         ELSE UNCHANGED <<eaten, ri>>
    /\ w' = w + 1
    /\ UNCHANGED <<files, cur, rows, status>>

\* maybe_eat_record_time_name of one walker: nothing left, or the head is
\* taken -- near or not.
Eat ==
    /\ status = "eat" /\ w \in Files /\ ~Mismatch
    /\ IF HasNext(w)
         THEN /\ eaten' = Append(eaten, <<w, ri[w] + 1>>)
              /\ ri' = [ri EXCEPT ![w] = @ + 1]
         ELSE UNCHANGED <<eaten, ri>>
    /\ w' = w + 1
    /\ UNCHANGED <<files, cur, rows, status>>

\* "expected name ..., found ...": collect stops at the first error.
BailOut ==
    /\ status = "eat" /\ w \in Files /\ Mismatch
    /\ status' = "mismatch"
    /\ UNCHANGED <<files, ri, w, cur, eaten, rows>>

\* Mutant of Summary: the summary starts as a copy of the first histogram.
SummaryFromFirst(loaded) ==
    FoldLeft(LAMBDA sum, l : IF sum.err = "none" THEN Add(sum.h, l.h) ELSE sum,
             loaded[1], loaded)

\* new_from(first), then add each: the summary has the first one's range and
\* does not resize.
Summary(loaded) ==
    FoldLeft(LAMBDA sum, l : IF sum.err = "none" THEN Add(sum.h, l.h) ELSE sum,
             Ok(NewFrom(loaded[1].h)), loaded)

\* new_from_snapshot of every record eaten, add up, print; first().unwrap()
\* panics when nothing was eaten.
PrintRow ==
    /\ status = "eat" /\ w \notin Files
    /\ LET loaded == [i \in DOMAIN eaten |-> NewFromSnapshot(Rec(eaten[i]).hist)]
           summary == Summary(loaded)
       IN  IF \E i \in DOMAIN eaten : loaded[i].err # "none"
             THEN status' = "error" /\ UNCHANGED rows
           ELSE IF eaten = <<>> THEN status' = "panic" /\ UNCHANGED rows
           ELSE IF summary.err # "none"
             THEN /\ status' = IF summary.err = "panic" THEN "panic" ELSE "error"
                  /\ UNCHANGED rows
           ELSE /\ rows' = Append(rows, [time |-> cur.time, next |-> cur.next,
                                         name |-> cur.name, recs |-> eaten,
                                         summary |-> summary.h])
                /\ status' = "head"
    /\ UNCHANGED <<files, ri, w, cur, eaten>>

Next == Finish \/ PickMoment \/ Eat \/ BailOut \/ PrintRow

Spec == Init /\ [][Next]_vars

-----------------------------------------------------------------------------
Statuses == {"head", "eat", "done", "mismatch", "error", "panic"}

\* Type invariant: a walker's index (ri) stays within its file.
TypeOK ==
    /\ files \in Inputs
    /\ ri \in [Files -> Nat] /\ \A f \in Files : ri[f] <= Len(files[f])
    /\ w \in 1..(Len(files) + 1)
    /\ \A i \in 1..Len(eaten) : eaten[i][1] \in Files
    /\ status \in Statuses

\* The places of the output, in its order: a row, and a record in it.
Places == UNION {{<<i, j>> : j \in DOMAIN rows[i].recs} : i \in DOMAIN rows}
PrintedAt(p) == rows[p[1]].recs[p[2]]
Before(p, q) == p[1] < q[1] \/ (p[1] = q[1] /\ p[2] < q[2])

\* At the head of the loop "we have processed all records for all timestamps
\* prior to the current record in each file": the rows hold the records before
\* each walker's position, each exactly once and in the order of the file.
EachRecordOnce ==
    status \in {"head", "done"} =>
        /\ {PrintedAt(p) : p \in Places} = UNION {{<<f, k>> : k \in 1..ri[f]} : f \in Files}
        /\ \A p, q \in Places :
              Before(p, q) /\ PrintedAt(p)[1] = PrintedAt(q)[1] => PrintedAt(p)[2] < PrintedAt(q)[2]

\* Records of a file are in timestamp order.
Sorted == \A f \in Files : \A i, j \in 1..Len(files[f]) :
              i < j => files[f][i].now <= files[f][j].now

\* The rows come out in timestamp order, and a row's time is that of its
\* earliest record, when the files are in timestamp order.
RowsInTimeOrder ==
    Sorted =>
        /\ \A i, j \in 1..Len(rows) : i < j => rows[i].time <= rows[j].time
        /\ \A i \in 1..Len(rows) :
              /\ \E e \in ToSet(rows[i].recs) : Rec(e).now = rows[i].time
              /\ \A e \in ToSet(rows[i].recs) : rows[i].time <= Rec(e).now

\* The samples of a loaded histogram that add places at v or below.
SamplesUpTo(g, v) == SumCounts(g, {i \in DOMAIN g.counts : ValueFor(g.lay, i) <= v})

\* "adding the records' histograms together": in the row just printed, up to the
\* end of each slot of the summary, the throughput and the quantiles count the
\* samples of the row's records, all of them and each once, whatever ranges,
\* resolutions and lengths of counts the files give, and the maximum is in the
\* last slot in use.
RowsAddUp ==
    status = "head" /\ rows # <<>> =>
        LET sum == Last(rows).summary
            Of(v) == FoldLeft(LAMBDA n, e : n + SamplesUpTo(NewFromSnapshot(Rec(e).hist).h, v),
                              0, Last(rows).recs)
        IN  /\ sum.total = Of(MaxWord)
            /\ \A i \in DOMAIN sum.counts :
                  SumCounts(sum, 0..i) = Of(HighestEquivalent(sum.lay, ValueFor(sum.lay, i)))
            /\ NonZero(sum) # {} => IndexFor(sum.lay, sum.max) = Max(NonZero(sum))

\* Every histogram loads and fits into every other.
HistogramsFit ==
    \A f, g \in Files : \A i \in DOMAIN files[f], j \in DOMAIN files[g] :
        LET a == NewFromSnapshot(files[f][i].hist)
            b == NewFromSnapshot(files[g][j].hist)
        IN  a.err = "none" /\ b.err = "none" /\ MaxOf(a.h) <= Top(b.h)

\* Why print ends early: a panic on an elapsed beyond i64 and on a histogram
\* without counts only (never on an empty row, nor on counts that are too many or
\* too few for the range they are said to cover, nor on histograms that cannot be
\* added), and an error only when some histogram does not load or fit.
FailureExplained ==
    /\ status = "panic" =>
          \/ \E f \in Files : HasNext(f) /\ Next1(f).elapsed > MaxI64
          \/ \E e \in ToSet(eaten) : DOMAIN Rec(e).hist.counts = {}
    /\ status = "error" => ~HistogramsFit

\* What print assumes of its input, in the form its loop needs: the records at
\* the same place of two files have one name, and the later is nearer to the
\* earlier than to the moment one elapsed after it.
AssumptionsKept ==
    \A f, g \in Files : \A i \in DOMAIN files[f] \cap DOMAIN files[g] :
        LET a == files[f][i]
            b == files[g][i]
        IN  a.now <= b.now =>
              /\ a.name = b.name
              /\ MsBetween(b.now, a.now) < MsBetween(b.now, a.now + a.elapsed)

\* The comment on print, without its assumptions: records "correspond if they're
\* closer to min_time than they are to min_time + elapsed".
EveryRowCorresponds ==
    \A i \in 1..Len(rows) : \A e \in ToSet(rows[i].recs) :
        MsBetween(Rec(e).now, rows[i].time) < MsBetween(Rec(e).now, rows[i].next)

\* Files that keep to the assumptions of print, of different lengths and with
\* clocks that are apart, are merged moment by moment; "records with different
\* name fields" are processed "separately"; and print does not bail out on them.
RowsCorrespond ==
    AssumptionsKept =>
        /\ EveryRowCorresponds
        /\ \A i \in 1..Len(rows) : \A e \in ToSet(rows[i].recs) : Rec(e).name = rows[i].name
        /\ status # "mismatch"

\* The comment on do_summarize: the names are checked to be "consistent
\* throughout the stream"; a file is warned about exactly when it is not made
\* of complete or cut-off groups of the same names with one timestamp each.  For
\* such a file, when the groups are complete and their times increase, the
\* figures are right: "distinct timestamps" are as many as there are, the
\* "second" and the "final" are the next and the last of them, and the time
\* between them is not overstated.
WarnsIffIrregular ==
    \A f \in Files :
        LET recs == files[f]
            names == Len(DistinctNames(recs))
            times == {recs[i].now : i \in DOMAIN recs}
            fig == Figures(recs)
        IN  /\ Warnings(recs) = <<>> <=> Regular(recs)
            /\ /\ Regular(recs) /\ Len(recs) > names /\ Len(recs) % names = 0
               /\ \A i, j \in DOMAIN recs : i + names <= j => recs[i].now < recs[j].now
               => /\ fig.distinct = Cardinality(times)
                  /\ fig.second.at = Min(times \ {Min(times)}) /\ fig.final.at = Max(times)
                  /\ fig.between * (fig.distinct - 1) <= fig.final.later
=============================================================================
