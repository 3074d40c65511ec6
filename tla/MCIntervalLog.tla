---------------------------- MODULE MCIntervalLog ----------------------------
(* Comments and times for TLC.                                              *)
EXTENDS IntervalLog

\* Two lines, and two of which the second begins like the header that
\* begin_log_with writes.
SomeComments == {<<"plain", "plain">>, <<"plain", "like a StartTime">>}
\* Before the epoch, and either side of half a millisecond.
SomeTimes == {-1, 1, 2}
=============================================================================
