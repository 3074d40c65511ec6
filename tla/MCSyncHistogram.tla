--------------------------- MODULE MCSyncHistogram ---------------------------
(* Instances of SyncHistogram for TLC.                                     *)
EXTENDS SyncHistogram, TLC

NoUses == {}
AllUses == {"clone", "drop", "idle", "timeout", "close"}
TimedUses == {"clone", "drop", "timeout"}
DropsOnly == {"drop"}
IdlesOnly == {"idle"}

\* Recorders and samples are interchangeable (used for safety runs only).
Symmetry == Permutations(Recorders) \cup Permutations(Samples)
=============================================================================
