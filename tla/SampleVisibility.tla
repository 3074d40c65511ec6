-------------------------- MODULE SampleVisibility --------------------------
(***************************************************************************)
(* What a SyncHistogram promises its readers and writers, with no threads, *)
(* locks or channels: a sample is pending from the moment a Recorder       *)
(* returns from recording it, it becomes visible during a refresh and only *)
(* then, and a refresh does not return before every sample that was        *)
(* pending when it was called is visible (or was removed on purpose).  The *)
(* last part is promised only until the writers do more than write.        *)
(***************************************************************************)
CONSTANT Samples    \* identities of recorded samples, each recorded once

VARIABLES pending,  \* recorded, not yet in the merged histogram
          visible,  \* in the merged histogram
          removed,  \* subtracted, reset, or sent to a reader that is gone
          owed,     \* pending when the refresh under way was called
          promised, \* what is owed will be visible when refresh returns
          mode      \* "open", "refreshing" or "closed"

vars == <<pending, visible, removed, owed, promised, mode>>

Init == /\ pending = {} /\ visible = {} /\ removed = {} /\ owed = {}
        /\ mode = "open" /\ promised = TRUE

Record(S) == /\ S \cap (pending \cup visible \cup removed) = {}
             /\ pending' = pending \cup S
             /\ UNCHANGED <<visible, removed, owed, promised, mode>>

Subtract(S) == /\ S \subseteq pending
               /\ pending' = pending \ S
               /\ removed' = removed \cup S
               /\ UNCHANGED <<visible, owed, promised, mode>>

Reset == /\ mode = "open"
         /\ visible' = {}
         /\ removed' = removed \cup visible
         /\ UNCHANGED <<pending, owed, promised, mode>>

Begin == /\ mode = "open"
         /\ mode' = "refreshing"
         /\ owed' = IF promised THEN pending ELSE {}
         /\ UNCHANGED <<pending, visible, removed, promised>>

Publish(S) == /\ mode = "refreshing"
              /\ S \subseteq pending
              /\ pending' = pending \ S
              /\ visible' = visible \cup S
              /\ UNCHANGED <<removed, owed, promised, mode>>

Return == /\ mode = "refreshing"
          /\ owed \subseteq visible \cup removed
          /\ mode' = "open"
          /\ UNCHANGED <<pending, visible, removed, owed, promised>>

\* The histogram and whatever already travels to it disappear together.
Close(S) == /\ mode = "open"
            /\ S \subseteq pending
            /\ mode' = "closed"
            /\ pending' = pending \ S
            /\ visible' = {}
            /\ removed' = removed \cup visible \cup S
            /\ UNCHANGED <<owed, promised>>

\* A recorder is cloned, dropped or idled, or a refresh gives up.
Waive == /\ promised' = FALSE
         /\ owed' = {}
         /\ UNCHANGED <<pending, visible, removed, mode>>

Next == \/ \E S \in SUBSET Samples :
              Record(S) \/ Subtract(S) \/ Publish(S) \/ Close(S)
        \/ Reset \/ Begin \/ Return \/ Waive

Spec == Init /\ [][Next]_vars
=============================================================================
