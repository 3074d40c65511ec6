----------------------------- MODULE IntervalLog -----------------------------
(***************************************************************************)
(* Interval logs (HdrHistogram_rust/src/serialization/interval_log): the   *)
(* builder, the writer and IntervalLogIterator.  The log is a sequence of  *)
(* fragments of lines; a newline is a fragment.  A write to the file may   *)
(* fail between two fragments or in the middle of one, a histogram may not *)
(* be serializable, and the writer can be used again after an error.  Time *)
(* is in ticks, three to the millisecond, because the log keeps            *)
(* milliseconds.  The maximum on a line is for people and is left out.     *)
(***************************************************************************)
EXTENDS Integers, Sequences, SequencesExt

CONSTANTS Tags,       \* what a client may want as a tag
          Times,      \* ticks since the epoch; negative before it
          Comments,   \* comments, each a sequence of lines
          MaxWrites,  \* bound: calls on the builder and on the writer
          MaxFailures \* bound: calls that fail

ASSUME IntervalLogAssumption ==
    /\ Times \subseteq Int /\ MaxWrites \in Nat /\ MaxFailures \in Nat
    /\ Tags \subseteq {"none", "a", "with a comma"}
    /\ Comments \subseteq Seq({"plain", "like a StartTime"}) \ {<<>>}

VARIABLES phase,    \* "build", "write", "read", "end"
          builder,  \* comments (as the lines they make), start_time, base_time,
                    \* max_value_divisor # 1.0
          log,      \* the fragments in the file
          rest,     \* what the iterator has not read
          entries,  \* what the iterator has returned
          writes, failures,
          intent    \* history: the intervals the client wrote, and how that ended

vars == <<phase, builder, log, rest, entries, writes, failures, intent>>

NL == [kind |-> "newline"]
Hash(text) == [kind |-> "hash", text |-> text]
Torn == [kind |-> "torn prefix"]

\* {:.3}: a sign and milliseconds, rounded to the nearest.
Fixed(t) == [minus |-> t < 0, ms |-> ((IF t < 0 THEN -t ELSE t) + 1) \div 3]

Unset == [set |-> FALSE]
At(t) == [set |-> TRUE, time |-> Fixed(t)]

Init ==
    /\ phase = "build"
    /\ builder = [comments |-> <<>>, start |-> Unset, base |-> Unset, divisor |-> FALSE]
    /\ log = <<>> /\ rest = <<>> /\ entries = <<>>
    /\ writes = 0 /\ failures = 0 /\ intent = <<>>

-----------------------------------------------------------------------------
(***************************************************************************)
(* IntervalLogWriterBuilder                                                *)
(***************************************************************************)
Building == phase = "build" /\ writes < MaxWrites /\ writes' = writes + 1

\* write_comment: one line for each line of the comment.
CommentLines(c) ==
    [k \in 1..(2 * Len(c)) |-> IF k % 2 = 1 THEN Hash(c[(k + 1) \div 2]) ELSE NL]

AddComment ==
    /\ Building
    /\ \E c \in Comments : builder' = [builder EXCEPT !.comments = @ \o CommentLines(c)]
    /\ UNCHANGED <<phase, log, rest, entries, failures, intent>>

WithStartTime ==
    /\ Building
    /\ \E t \in Times : builder' = [builder EXCEPT !.start = At(t)]
    /\ UNCHANGED <<phase, log, rest, entries, failures, intent>>

WithBaseTime ==
    /\ Building
    /\ \E t \in Times : builder' = [builder EXCEPT !.base = At(t)]
    /\ UNCHANGED <<phase, log, rest, entries, failures, intent>>

WithMaxValueDivisor ==
    /\ Building /\ builder' = [builder EXCEPT !.divisor = TRUE]
    /\ UNCHANGED <<phase, log, rest, entries, failures, intent>>

HeaderLine(which, opt) ==
    IF opt.set THEN <<[kind |-> which, time |-> opt.time], NL>> ELSE <<>>

HeaderLines ==
    builder.comments
      \o HeaderLine("StartTime", builder.start)
      \o HeaderLine("BaseTime", builder.base)
      \o (IF builder.divisor THEN <<Hash("plain"), NL>> ELSE <<>>)

\* What may be left of a fragment when a write fails in the middle of it.
Left(f) == CASE f.kind = "prefix" -> {<<>>, <<Torn>>}
             [] f.kind = "body"   -> {<<>>, <<[f EXCEPT !.whole = FALSE]>>}
             [] f.kind = "hash"   -> {<<>>, <<Hash("plain")>>, <<f>>}
             [] f.kind = "newline" -> {<<>>}
             [] OTHER             -> {<<>>, <<Hash("plain")>>}

Write(fragments) == log' = log \o fragments /\ UNCHANGED failures

\* The first n fragments reach the file, and something of the next one.
FailAfter(fragments, n) ==
    /\ failures < MaxFailures /\ failures' = failures + 1
    /\ \E left \in Left(fragments[n + 1]) : log' = log \o (SubSeq(fragments, 1, n) \o left)

BeginLogWith ==
    /\ phase = "build" /\ phase' = "write" /\ Write(HeaderLines)
    /\ UNCHANGED <<builder, rest, entries, writes, intent>>

\* There is no writer, and the client reads what there is.
BeginLogWithFails ==
    /\ phase = "build" /\ phase' = "read"
    /\ \E n \in 0..(Len(HeaderLines) - 1) : FailAfter(HeaderLines, n)
    /\ rest' = log'
    /\ UNCHANGED <<builder, entries, writes, intent>>

-----------------------------------------------------------------------------
(***************************************************************************)
(* IntervalLogWriter                                                       *)
(***************************************************************************)
Writing == phase = "write" /\ writes < MaxWrites /\ writes' = writes + 1

WriteComment ==
    /\ Writing
    /\ \E c \in Comments :
         \/ Write(CommentLines(c))
         \/ \E n \in 0..(Len(CommentLines(c)) - 1) : FailAfter(CommentLines(c), n)
    /\ UNCHANGED <<phase, builder, rest, entries, intent>>

\* Mutant of TagNew: any text makes a tag.
TagNewAny(s) == TRUE

\* Tag::new; a histogram without a tag needs none.
TagNew(s) == s # "with a comma"

Body(id) == [kind |-> "body", id |-> id, whole |-> TRUE]

\* Mutant of IntervalLine: the newline is written before the interval.
IntervalLineOpen(tag, t, id) ==
    <<NL, [kind |-> "prefix", tag |-> tag, time |-> Fixed(t)], Body(id)>>

IntervalLine(tag, t, id) ==
    <<[kind |-> "prefix", tag |-> tag, time |-> Fixed(t)], Body(id), NL>>

\* The prefix is written before the histogram is serialized, so a histogram that
\* cannot be serialized leaves what a write that fails after the prefix leaves.
WriteHistogram ==
    /\ Writing
    /\ \E tag \in {s \in Tags : TagNew(s)}, t \in {u \in Times : u >= 0} :
         LET line == IntervalLine(tag, t, writes)
             Intend(ok) == Append(intent, [tag |-> tag, time |-> Fixed(t), id |-> writes, ok |-> ok,
                                           fresh |-> log = <<>> \/ Last(log) = NL])
         IN  \/ Write(line) /\ intent' = Intend(TRUE)
             \/ \E n \in 0..(Len(line) - 1) : FailAfter(line, n) /\ intent' = Intend(FALSE)
    /\ UNCHANGED <<phase, builder, rest, entries>>

\* The writer stops, at any moment, and the log is read.
IteratorNew ==
    /\ phase = "write" /\ phase' = "read" /\ rest' = log
    /\ UNCHANGED <<builder, log, entries, writes, failures, intent>>

-----------------------------------------------------------------------------
(***************************************************************************)
(* IntervalLogIterator                                                     *)
(***************************************************************************)
HasLine(f) == NL \in Range(f)
LineEnd(f) == CHOOSE k \in DOMAIN f : f[k] = NL /\ \A j \in 1..(k - 1) : f[j] # NL
Line(f) == SubSeq(f, 1, LineEnd(f) - 1)
AfterLine(f) == SubSeq(f, LineEnd(f) + 1, Len(f))

StartsWith(line, kinds) == line # <<>> /\ line[1].kind \in kinds

\* start_time and base_time: the seconds are a u64, which has no minus sign.  A
\* comment that looks like a header is one.
IsHeader(line) ==
    \/ StartsWith(line, {"StartTime", "BaseTime"}) /\ ~line[1].time.minus
    \/ StartsWith(line, {"hash"}) /\ line[1].text = "like a StartTime"

\* The time in the comment, which is none of Times.
ClaimedStart == [kind |-> "StartTime", time |-> [minus |-> FALSE, ms |-> -1]]

HeaderEntry(line) == IF line[1].kind = "hash" THEN ClaimedStart ELSE line[1]

\* ignored_line: whatever begins with '#' (the writer writes no legend).
IsIgnored(line) == StartsWith(line, {"hash", "StartTime", "BaseTime"})

\* interval_hist: the tag ends at the first comma, and the histogram is the rest
\* of the line.  A torn prefix and what follows it may or may not make an interval.
IsInterval(line) == StartsWith(line, {"prefix"}) /\ line[1].tag # "with a comma"

Entry(kind, tag, time, encoded) ==
    [kind |-> kind, tag |-> tag, time |-> time, encoded |-> encoded]
IntervalEntry(line) == Entry("Interval", line[1].tag, line[1].time, Tail(line))

Advance == phase = "read" /\ HasLine(rest) /\ rest' = AfterLine(rest)

NextEntry ==
    /\ Advance
    /\ \/ IsHeader(Line(rest)) /\ entries' = Append(entries, HeaderEntry(Line(rest)))
       \/ IsInterval(Line(rest)) /\ entries' = Append(entries, IntervalEntry(Line(rest)))
       \/ /\ StartsWith(Line(rest), {"torn prefix"})
          /\ entries' = Append(entries, [kind |-> "Garbled"])
    /\ UNCHANGED <<phase, builder, log, writes, failures, intent>>

\* Mutant of SkipLine: self.input is not advanced.
SkipLineStays ==
    /\ phase = "read" /\ HasLine(rest) /\ ~IsHeader(Line(rest)) /\ IsIgnored(Line(rest))
    /\ UNCHANGED vars

SkipLine ==
    /\ Advance /\ ~IsHeader(Line(rest)) /\ IsIgnored(Line(rest))
    /\ UNCHANGED <<phase, builder, log, entries, writes, failures, intent>>

\* Mutant of ParseError: the error does not end the iterator.
ParseErrorGoesOn ==
    /\ phase = "read" /\ rest # <<>>
    /\ HasLine(rest) => LET l == Line(rest) IN ~IsHeader(l) /\ ~IsInterval(l) /\ ~IsIgnored(l)
    /\ entries' = Append(entries, [kind |-> "ParseError", offset |-> Len(log) - Len(rest)])
    /\ UNCHANGED <<phase, builder, log, rest, writes, failures, intent>>

\* Nothing parses: an error, and the iterator has ended.
ParseError ==
    /\ phase = "read" /\ rest # <<>>
    /\ HasLine(rest) => LET l == Line(rest) IN ~IsHeader(l) /\ ~IsInterval(l) /\ ~IsIgnored(l)
    /\ entries' = Append(entries, [kind |-> "ParseError", offset |-> Len(log) - Len(rest)])
    /\ phase' = "end"
    /\ UNCHANGED <<builder, log, rest, writes, failures, intent>>

EndOfInput ==
    /\ phase = "read" /\ rest = <<>> /\ phase' = "end"
    /\ UNCHANGED <<builder, log, rest, entries, writes, failures, intent>>

Reading == NextEntry \/ SkipLine \/ ParseError \/ EndOfInput

Next == \/ AddComment \/ WithStartTime \/ WithBaseTime \/ WithMaxValueDivisor
        \/ BeginLogWith \/ BeginLogWithFails
        \/ WriteComment \/ WriteHistogram \/ IteratorNew \/ Reading

\* The client calls next() until the iterator ends.
Spec == Init /\ [][Next]_vars /\ WF_vars(Reading)

-----------------------------------------------------------------------------
(***************************************************************************)
(* Properties                                                              *)
(***************************************************************************)
\* Type invariant: the unread part is a suffix of the log, every returned item is
\* one the iterator can make, and only the last can be an error.
TypeOK ==
    /\ phase \in {"build", "write", "read", "end"}
    /\ writes \in 0..MaxWrites /\ failures \in 0..MaxFailures
    /\ Len(rest) <= Len(log) /\ rest = SubSeq(log, Len(log) - Len(rest) + 1, Len(log))
    /\ \A k \in DOMAIN entries :
         /\ entries[k].kind \in {"StartTime", "BaseTime", "Interval", "Garbled", "ParseError"}
         /\ entries[k].kind = "ParseError" => k = Len(entries) /\ phase = "end"

AsEntry(w) == Entry("Interval", w.tag, w.time, <<Body(w.id)>>)
AsHeader(which, opt) == IF opt.set /\ ~opt.time.minus THEN <<[kind |-> which, time |-> opt.time]>>
                        ELSE <<>>

\* A log written without an error reads back as what was written, in order: the
\* latest StartTime and BaseTime set on the builder (a time before the epoch is
\* dropped, begin_log_with against fract_sec_tuple), then every interval with its
\* tag and its start to the millisecond.  No comment, tag or header ends the
\* reading, and a line of a comment that looks like a header, which the reader
\* tries first, adds one entry and hides or changes no other.
ReadsBack ==
    (phase = "end" /\ failures = 0) =>
        /\ SelectSeq(entries, LAMBDA e : e # ClaimedStart) =
              AsHeader("StartTime", builder.start) \o AsHeader("BaseTime", builder.base)
                \o [k \in DOMAIN intent |-> AsEntry(intent[k])]
        /\ Len(SelectSeq(entries, LAMBDA e : e = ClaimedStart)) =
              Len(SelectSeq(log, LAMBDA f : f = Hash("like a StartTime")))

\* The damage of a failed write_histogram or write_comment stays on its line: as
\* long as no prefix is cut in two, every interval that was written whole and from
\* the start of a line is returned unchanged, whatever failed before it or later.
DamageContained ==
    (phase = "end" /\ Torn \notin Range(log)) =>
        \A k \in DOMAIN intent :
          intent[k].ok /\ intent[k].fresh => AsEntry(intent[k]) \in Range(entries)

\* Whatever is in the log, the iterator comes to its end.
ReadingEnds == (phase = "read") ~> (phase = "end")
=============================================================================
