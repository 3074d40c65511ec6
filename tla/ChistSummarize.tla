--------------------------- MODULE ChistSummarize ---------------------------
(***************************************************************************)
(* chist summarize (do_summarize in tools/chist/src/main.rs): finds the    *)
(* names at the head of a file, then walks the records and warns when a    *)
(* record has not the name or the timestamp its position calls for.        *)
(* Records are [name, now, ...], with times in ticks; `which` counts them  *)
(* from 0, as the code does.                                               *)
(***************************************************************************)
EXTENDS Integers, Sequences, FiniteSets, SequencesExt

CONSTANT MsTicks  \* ticks in a millisecond

ASSUME SummarizeAssumption == MsTicks \in Nat \ {0}

\* Division of signed integers, towards zero.
Quot(a, n) == IF a >= 0 THEN a \div n ELSE -((-a) \div n)

\* num_milliseconds of a Duration.
Ms(ticks) == Quot(ticks, MsTicks)

\* The first loop: the names up to the first that comes again.
DistinctNames(records) ==
    LET fresh == {n \in 0..Len(records) :
                     \A i, j \in 1..n : i # j => records[i].name # records[j].name}
    IN  [i \in 1..(CHOOSE n \in fresh : \A m \in fresh : m <= n) |-> records[i].name]

\* Mutant of Expected: the position is not reduced to the cycle of names.
ExpectedLast(names, which) == names[IF which < Len(names) THEN which + 1 ELSE Len(names)]

\* names[which % names.len()]
Expected(names, which) == names[(which % Len(names)) + 1]

\* One turn of the second loop; the state is current_timestamp and the warnings.
\* The number of the record is which + 1, and `which` is stepped before the
\* second warning.
WalkRecord(records, names, st, which) ==
    LET rec == records[which + 1]
        first == which % Len(names) = 0
        late == ~first /\ st.timestamp # rec.now
    IN  [timestamp |-> IF first THEN rec.now ELSE st.timestamp,
         warnings |-> st.warnings
             \o (IF late THEN <<[what |-> "timestamp", record |-> which + 1]>> ELSE <<>>)
             \o (IF Expected(names, which) # rec.name
                   THEN <<[what |-> "name", record |-> which + 2]>> ELSE <<>>)]

\* The warnings printed for a file; nothing is walked in an empty one.
Warnings(records) ==
    LET names == DistinctNames(records)
    IN  FoldLeft(LAMBDA st, which : WalkRecord(records, names, st, which),
                 [timestamp |-> 0, warnings |-> <<>>],
                 [k \in 1..Len(records) |-> k - 1]).warnings

\* The figures printed of a file that goes on after the first record of each name.
Figures(records) ==
    LET first == records[1].now
        names == Len(DistinctNames(records))
        n == Len(records) \div names
    IN  [distinct |-> n,
         between |-> Quot(Ms(Last(records).now - first), n),
         second |-> [at |-> records[names + 1].now, later |-> Ms(records[names + 1].now - first)],
         final |-> [at |-> Last(records).now, later |-> Ms(Last(records).now - first)]]

\* The records come in groups of p, one for each of p names in a fixed order,
\* and the records of a group have one timestamp.
RegularWith(records, p) ==
    /\ \A i, j \in 1..p : i # j => records[i].name # records[j].name
    /\ \A i \in 1..Len(records) :
          LET lead == i - ((i - 1) % p) IN
          /\ records[i].name = records[((i - 1) % p) + 1].name
          /\ records[i].now = records[lead].now

Regular(records) == records = <<>> \/ \E p \in 1..Len(records) : RegularWith(records, p)
=============================================================================
