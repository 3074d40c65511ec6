----------------------------- MODULE MCHistogram -----------------------------
(* Clients of Histogram for TLC: four-bit values, so MaxWord is 15.        *)
EXTENDS Histogram

Config(low, high, sigfig, auto) ==
    [low |-> low, high |-> high, sigfig |-> sigfig, auto |-> auto]

\* Different resolutions and ranges, with and without growth; none reaches
\* MaxWord.
MixedConfigs == {Config(1, 2, 0, TRUE), Config(1, 7, 1, FALSE), Config(2, 6, 1, FALSE)}

\* Histograms of different layouts that are merged and taken apart again.
Merging ==
    [configs |-> MixedConfigs, values |-> {5, 11}, counts |-> {1}, intervals |-> {},
     calls |-> {"add", "subtract", "set_to", "saturating"}, maxTotal |-> 2]
\* Growing histograms that are cleared, reset, and switched between fixed and
\* growing.
Clearing ==
    [configs |-> {Config(1, 2, 1, TRUE)}, values |-> {3, 11}, counts |-> {1},
     intervals |-> {}, calls |-> {"add", "subtract", "clear", "reset", "auto"}, maxTotal |-> 2]
\* Correction for coordinated omission: 7 is the largest value of its slot in two
\* of the layouts, with two values (5 and 3) missing below it.
Correcting ==
    [configs |-> MixedConfigs, values |-> {0, 7, 11}, counts |-> {1}, intervals |-> {0, 2},
     calls |-> {"correct"}, maxTotal |-> 3]
\* More samples, on both sides of the boundaries of buckets.
Recording ==
    [configs |-> MixedConfigs, values |-> {0, 1, 7, 11}, counts |-> {1, 3},
     intervals |-> {}, calls |-> {}, maxTotal |-> 3]

\* Counters that reach their limit.
Saturating ==
    [configs |-> {Config(1, 7, 1, FALSE)}, values |-> {1, 3, 5}, counts |-> {7},
     intervals |-> {}, calls |-> {"add", "subtract"}, maxTotal |-> 22]
\* A total that reaches its limit before the counters do.
Totalling ==
    [configs |-> {Config(1, 7, 1, FALSE)}, values |-> {1, 3, 5}, counts |-> {5, 6},
     intervals |-> {}, calls |-> {"add"}, maxTotal |-> 20]
\* The largest values of a word.
Topping ==
    [configs |-> {Config(1, 15, 0, FALSE), Config(1, 2, 0, TRUE)}, values |-> {3, 14, 15},
     counts |-> {1}, intervals |-> {}, calls |-> {"add", "subtract", "set_to"}, maxTotal |-> 2]

\* Zeros beside other values, taken apart.
Zeroing ==
    [configs |-> {Config(1, 7, 1, FALSE)}, values |-> {0, 3, 5}, counts |-> {1},
     intervals |-> {}, calls |-> {"subtract"}, maxTotal |-> 3]
ZeroingClients == {Zeroing}

AllClients == {Merging, Clearing, Correcting, Recording,
               Saturating, Totalling, Topping, Zeroing}

\* The two histograms are interchangeable.
Symmetry == Permutations(Names)
=============================================================================
