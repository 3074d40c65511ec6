------------------------ MODULE SyncHistogramProofs ------------------------
(***************************************************************************)
(* Proofs about SyncHistogram for every finite set of recorders, every set *)
(* of samples, every use of the API and every number of refreshes: the     *)
(* types, the invariants, and that SyncHistogram keeps the promise of      *)
(* SampleVisibility.                                                       *)
(***************************************************************************)
EXTENDS SyncHistogram, FiniteSetTheorems, TLAPS

-----------------------------------------------------------------------------
(***************************************************************************)
(* Types                                                                   *)
(***************************************************************************)

\* A refresh that has not bumped the phase yet still has room to do so.
RoomToBump == rpc \in {"drain", "count", "bump"} => phase < MaxPhase

TypeInv == TypeOK /\ RoomToBump

\* Sending moves a writer's samples and keeps the types of the channel, of
\* the local histograms and of the removed samples.
LEMMA SendLocalType ==
    ASSUME TypeOK, NEW r \in Recorders, SendLocal(r)
    PROVE  /\ chan' \in Seq(SUBSET Samples)
           /\ local' \in [Recorders -> SUBSET Samples]
           /\ removed' \in SUBSET Samples
<1>1. local[r] \in SUBSET Samples /\ chan \in Seq(SUBSET Samples)
  BY DEF TypeOK
<1>2. Append(chan, local[r]) \in Seq(SUBSET Samples)
  BY <1>1
<1>3. local' \in [Recorders -> SUBSET Samples]
  BY DEF TypeOK, SendLocal
<1>4. QED
  BY <1>1, <1>2, <1>3 DEF TypeOK, SendLocal

\* Merging the head of the channel keeps the types of both.
LEMMA MergeHeadType ==
    ASSUME TypeOK, chan # <<>>, MergeHead
    PROVE  /\ chan' \in Seq(SUBSET Samples)
           /\ merged' \in SUBSET Samples
BY DEF TypeOK, MergeHead

\* Whatever has not reached the merged histogram is made of samples.
LEMMA PendingType ==
    ASSUME TypeOK
    PROVE  Pending \subseteq Samples /\ InChan \subseteq Samples
BY DEF TypeOK, Pending, InLocals, InChan

\* A step of a client or of a writer keeps the type invariant.
LEMMA WritersKeepTypes ==
    ASSUME TypeInv, NEW r \in Recorders, ClientNext(r) \/ WriterNext(r)
    PROVE  TypeInv'
<1> USE DEF Goto, RecorderStates, ActiveStates, shared, reader, history
<1>1. CASE NewRecorder(r)
  BY <1>1 DEF TypeInv, TypeOK, RoomToBump, NewRecorder
<1>2. ASSUME NEW new \in Recorders, Clone(r, new)
      PROVE  TypeInv'
  <2>1. calm' \in BOOLEAN
    BY <1>2, Zenon DEF Clone
  <2>2. QED
    BY <1>2, <2>1 DEF TypeInv, TypeOK, RoomToBump, Clone
<1>3. ASSUME NEW S \in SUBSET Samples, Record(r, S)
      PROVE  TypeInv'
  BY <1>3 DEF TypeInv, TypeOK, RoomToBump, Record
<1>4. ASSUME NEW S \in SUBSET Samples, Subtract(r, S)
      PROVE  TypeInv'
  BY <1>4 DEF TypeInv, TypeOK, RoomToBump, Subtract
<1>5. CASE DropLeave(r)
  <2>1. calm' \in BOOLEAN
    BY <1>5, Zenon DEF DropLeave
  <2>2. QED
    BY <1>5, <2>1 DEF TypeInv, TypeOK, RoomToBump, DropLeave
<1>6. CASE Deactivate(r)
  <2>1. calm' \in BOOLEAN
    BY <1>6, Zenon DEF Deactivate
  <2>2. QED
    BY <1>6, <2>1 DEF TypeInv, TypeOK, RoomToBump, Deactivate
<1>7. CASE Reactivate(r)
  BY <1>7 DEF TypeInv, TypeOK, RoomToBump, Reactivate
<1>8. CASE LoadPhase(r)
  BY <1>8 DEF TypeInv, TypeOK, RoomToBump, LoadPhase
<1>9. CASE Update(r)
  BY <1>9, SendLocalType DEF TypeInv, TypeOK, RoomToBump, Update
<1>10. CASE DropSend(r)
  BY <1>10, SendLocalType DEF TypeInv, TypeOK, RoomToBump, DropSend
<1>11. CASE DeactivateLoad(r)
  BY <1>11 DEF TypeInv, TypeOK, RoomToBump, DeactivateLoad
<1>12. CASE DeactivateSend(r)
  BY <1>12, SendLocalType DEF TypeInv, TypeOK, RoomToBump, DeactivateSend
<1>13. CASE ReactivateLoad(r)
  BY <1>13 DEF TypeInv, TypeOK, RoomToBump, ReactivateLoad
<1>14. QED
  BY <1>1, <1>2, <1>3, <1>4, <1>5, <1>6, <1>7, <1>8, <1>9, <1>10, <1>11,
     <1>12, <1>13 DEF ClientNext, WriterNext

\* A step of the reader keeps the type invariant.
LEMMA ReaderKeepsTypes ==
    ASSUME TypeInv,
           (\E t \in BOOLEAN : Refresh(t)) \/ RefreshNext \/ TimeOut
               \/ Reset \/ Close
    PROVE  TypeInv'
<1> USE ConstantsAssumption DEF ReaderStates, shared, writers, reader, history
<1>1. ASSUME NEW t \in BOOLEAN, Refresh(t)
      PROVE  TypeInv'
  BY <1>1, PendingType DEF TypeInv, TypeOK, RoomToBump, Refresh
<1>2. CASE TryRecvSome
  BY <1>2, MergeHeadType DEF TypeInv, TypeOK, RoomToBump, TryRecvSome
<1>3. CASE TryRecvNone
  BY <1>3 DEF TypeInv, TypeOK, RoomToBump, TryRecvNone
<1>4. CASE ReadRecorders
  BY <1>4 DEF TypeInv, TypeOK, RoomToBump, ReadRecorders
<1>5. CASE BumpPhase
  BY <1>5 DEF TypeInv, TypeOK, RoomToBump, BumpPhase
<1>6. CASE Recv
  BY <1>6, MergeHeadType DEF TypeInv, TypeOK, RoomToBump, Recv
<1>7. CASE AllPhased
  BY <1>7 DEF TypeInv, TypeOK, RoomToBump, AllPhased
<1>8. CASE TimeOut
  BY <1>8 DEF TypeInv, TypeOK, RoomToBump, TimeOut
<1>9. CASE Reset
  BY <1>9 DEF TypeInv, TypeOK, RoomToBump, Reset
<1>10. CASE Close
  BY <1>10, PendingType DEF TypeInv, TypeOK, RoomToBump, Close
<1>11. QED
  BY <1>1, <1>2, <1>3, <1>4, <1>5, <1>6, <1>7, <1>8, <1>9, <1>10
  DEF RefreshNext

\* Every variable keeps its type: the phase never passes the bound, and no
\* thread or reader leaves its control states.
THEOREM TypeCorrect == Spec => [](TypeOK /\ RoomToBump)
<1>1. Init => TypeInv
  <2> SUFFICES ASSUME Init PROVE TypeInv
    OBVIOUS
  <2>1. <<>> \in Seq(SUBSET Samples) /\ 0 \in 0..MaxPhase
    BY ConstantsAssumption
  <2>2. /\ pc \in [Recorders -> RecorderStates]
        /\ local \in [Recorders -> SUBSET Samples]
    BY DEF Init, RecorderStates
  <2>3. /\ lastPhase \in [Recorders -> 0..MaxPhase]
        /\ seen \in [Recorders -> 0..MaxPhase]
    BY <2>1 DEF Init
  <2>4. /\ lock \in Recorders \cup {Free} /\ rpc \in ReaderStates
        /\ recorders \in Int /\ counted \in Int /\ phased \in Nat
    BY DEF Init, ReaderStates
  <2>5. chan \in Seq(SUBSET Samples) /\ phase \in 0..MaxPhase
    BY <2>1, Zenon DEF Init
  <2>6. RoomToBump
    BY DEF Init, RoomToBump
  <2>7. /\ merged \in SUBSET Samples /\ removed \in SUBSET Samples
        /\ owed \in SUBSET Samples
        /\ left \in SUBSET Samples /\ leftOwed \in SUBSET Samples
    BY DEF Init
  <2>8. deadline \in BOOLEAN /\ calm \in BOOLEAN
    BY Zenon DEF Init
  <2>9. QED
    BY <2>2, <2>3, <2>4, <2>5, <2>6, <2>7, <2>8 DEF TypeInv, TypeOK
<1>2. TypeInv /\ [Next]_vars => TypeInv'
  <2> SUFFICES ASSUME TypeInv, [Next]_vars PROVE TypeInv'
    OBVIOUS
  <2>1. CASE Next
    BY <2>1, WritersKeepTypes, ReaderKeepsTypes DEF Next
  <2>2. CASE UNCHANGED vars
    BY <2>2 DEF vars, shared, writers, reader, history, TypeInv, TypeOK,
                RoomToBump
  <2>3. QED
    BY <2>1, <2>2
<1>3. QED
  BY <1>1, <1>2, PTL DEF Spec, TypeInv

-----------------------------------------------------------------------------
(***************************************************************************)
(* The number of recorders                                                 *)
(***************************************************************************)

CountedSet == {q \in Recorders : Counted(q)}

\* Adding or removing one element changes the cardinality by one.
LEMMA CardinalityStep ==
    ASSUME NEW A, NEW B, NEW r, IsFiniteSet(A)
    PROVE  /\ IsFiniteSet(A) /\ Cardinality(A) \in Nat
           /\ r \notin A /\ B = A \cup {r} =>
                  IsFiniteSet(B) /\ Cardinality(B) = Cardinality(A) + 1
           /\ r \in A /\ B = A \ {r} =>
                  IsFiniteSet(B) /\ Cardinality(B) = Cardinality(A) - 1
<1>1. Cardinality(A) \in Nat
  BY FS_CardinalityType
<1>2. ASSUME r \notin A, B = A \cup {r}
      PROVE  IsFiniteSet(B) /\ Cardinality(B) = Cardinality(A) + 1
  BY <1>2, FS_AddElement
<1>3. ASSUME r \in A, B = A \ {r}
      PROVE  IsFiniteSet(B) /\ Cardinality(B) = Cardinality(A) - 1
  BY <1>3, FS_RemoveElement
<1>4. QED
  BY <1>1, <1>2, <1>3

\* Every set of recorders is finite.
LEMMA RecorderSetsFinite ==
    ASSUME NEW A \in SUBSET Recorders
    PROVE  IsFiniteSet(A) /\ Cardinality(A) \in Nat
BY ConstantsAssumption, FS_Subset, FS_CardinalityType

\* clone, recorder, drop, deactivate and reactivate change the counter with
\* the set of counted recorders; no other step changes either.
LEMMA CountInductive ==
    ASSUME TypeOK, RecordersCounted, [Next]_vars
    PROVE  RecordersCounted'
<1> USE DEF Goto, ActiveStates, RecorderStates, Counted, CountedSet
<1>1. /\ CountedSet \in SUBSET Recorders
      /\ recorders = Cardinality(CountedSet)
  BY DEF RecordersCounted
<1>2. SUFFICES recorders' = Cardinality(CountedSet')
  BY DEF RecordersCounted
<1>3. IsFiniteSet(CountedSet)
  BY <1>1, RecorderSetsFinite
<1>4. ASSUME NEW r \in Recorders, pc[r] \in {"none", "idle"},
             pc' = [pc EXCEPT ![r] = "ready"] \/ pc' = [pc EXCEPT ![r] = "reactLoad"],
             recorders' = recorders + 1
      PROVE  recorders' = Cardinality(CountedSet')
  <2>1. r \notin CountedSet /\ CountedSet' = CountedSet \cup {r}
    BY <1>4 DEF TypeOK
  <2>2. QED
    BY <2>1, <1>1, <1>3, <1>4, CardinalityStep
<1>5. ASSUME NEW r \in Recorders, pc[r] = "ready",
             pc' = [pc EXCEPT ![r] = "dropSend"] \/ pc' = [pc EXCEPT ![r] = "deactLoad"],
             recorders' = recorders - 1
      PROVE  recorders' = Cardinality(CountedSet')
  <2>1. r \in CountedSet /\ CountedSet' = CountedSet \ {r}
    BY <1>5 DEF TypeOK
  <2>2. QED
    BY <2>1, <1>1, <1>3, <1>5, CardinalityStep
<1>6. ASSUME recorders' = recorders, CountedSet' = CountedSet
      PROVE  recorders' = Cardinality(CountedSet')
  BY <1>1, <1>6
<1>7. ASSUME NEW r \in Recorders, ClientNext(r)
      PROVE  recorders' = Cardinality(CountedSet')
  <2>1. CASE NewRecorder(r)
    BY <2>1, <1>4 DEF NewRecorder
  <2>2. ASSUME NEW new \in Recorders, Clone(r, new)
        PROVE  recorders' = Cardinality(CountedSet')
    BY <2>2, <1>4 DEF Clone
  <2>3. ASSUME NEW S \in SUBSET Samples, Record(r, S) \/ Subtract(r, S)
        PROVE  recorders' = Cardinality(CountedSet')
    <3>1. recorders' = recorders /\ CountedSet' = CountedSet
      BY <2>3 DEF TypeOK, Record, Subtract, shared
    <3>2. QED
      BY <3>1, <1>6
  <2>4. CASE DropLeave(r)
    BY <2>4, <1>5 DEF DropLeave
  <2>5. CASE Deactivate(r)
    BY <2>5, <1>5 DEF Deactivate
  <2>6. CASE Reactivate(r)
    BY <2>6, <1>4 DEF Reactivate
  <2>7. QED
    BY <1>7, <2>1, <2>2, <2>3, <2>4, <2>5, <2>6 DEF ClientNext
<1>8. ASSUME NEW r \in Recorders, WriterNext(r)
      PROVE  recorders' = Cardinality(CountedSet')
  <2>1. recorders' = recorders
    BY <1>8 DEF WriterNext, LoadPhase, Update, DropSend, DeactivateLoad,
                DeactivateSend, ReactivateLoad, shared
  <2>2. CountedSet' = CountedSet
    BY <1>8 DEF TypeOK, WriterNext, LoadPhase, Update, DropSend,
                DeactivateLoad, DeactivateSend, ReactivateLoad
  <2>3. QED
    BY <2>1, <2>2, <1>6
<1>9. CASE UNCHANGED <<recorders, pc>>
  BY <1>9, <1>6
<1>10. QED
  <2>1. CASE (\E t \in BOOLEAN : Refresh(t)) \/ RefreshNext \/ TimeOut
               \/ Reset \/ Close
    BY <2>1, <1>9 DEF Refresh, RefreshNext, TryRecvSome, TryRecvNone,
       ReadRecorders, BumpPhase, Recv, AllPhased, TimeOut, Reset, Close,
       shared, writers
  <2>2. CASE UNCHANGED vars
    BY <2>2, <1>9 DEF vars, shared, writers
  <2>3. QED
    BY <1>7, <1>8, <2>1, <2>2 DEF Next

\* Critical.recorders is always the number of recorders that joined and did
\* not leave, for any number of recorders and any use of the API.
THEOREM RecordersCountedCorrect == Spec => []RecordersCounted
<1>1. Init => RecordersCounted
  <2> SUFFICES ASSUME Init PROVE RecordersCounted
    OBVIOUS
  <2>1. {q \in Recorders : Counted(q)} = {}
    BY DEF Init, Counted, ActiveStates
  <2>2. QED
    BY <2>1, FS_EmptySet DEF Init, RecordersCounted
<1>2. TypeOK /\ RecordersCounted /\ [Next]_vars => RecordersCounted'
  BY CountInductive
<1>3. QED
  BY <1>1, <1>2, TypeCorrect, PTL DEF Spec

-----------------------------------------------------------------------------
(***************************************************************************)
(* The reader is not stranded                                              *)
(*                                                                         *)
(* Between its read of `recorders` and its bump of the phase the reader    *)
(* relies on every recorder it counted: each is still there, is on its way *)
(* out with a histogram to send, or has left one in the channel.  The bump *)
(* makes all of those that are still there owe a histogram, because no     *)
(* recorder is ahead of the phase.                                         *)
(***************************************************************************)
NeverIdle == \A q \in Recorders :
                pc[q] \notin {"deactLoad", "deactSend", "idle", "reactLoad"}
PhaseOrder == \A q \in Recorders : lastPhase[q] <= phase /\ seen[q] <= phase
Staying == {q \in Recorders : Counted(q) \/ pc[q] = "dropSend"}
Owing == {q \in Recorders : Owes(q)}
BumpCovered == rpc = "bump" => counted <= Len(chan) + Cardinality(Staying)
WaitCovered == rpc = "wait" => counted <= phased + Len(chan) + Cardinality(Owing)

StrandInv == NeverIdle /\ PhaseOrder /\ BumpCovered /\ WaitCovered

\* A set of recorders that loses at most one member loses at most one in
\* cardinality.
LEMMA CardinalityBound ==
    ASSUME NEW A \in SUBSET Recorders, NEW B \in SUBSET Recorders,
           NEW r \in Recorders
    PROVE  /\ A \subseteq B => Cardinality(A) <= Cardinality(B)
           /\ A \subseteq B \cup {r} => Cardinality(A) <= Cardinality(B) + 1
<1>1. IsFiniteSet(B) /\ Cardinality(A) \in Nat /\ Cardinality(B) \in Nat
  BY RecorderSetsFinite
<1>2. A \subseteq B => Cardinality(A) <= Cardinality(B)
  BY <1>1, FS_Subset
<1>3. ASSUME A \subseteq B \cup {r}
      PROVE  Cardinality(A) <= Cardinality(B) + 1
  <2>1. CASE r \in B
    <3>1. A \subseteq B
      BY <1>3, <2>1
    <3>2. QED
      BY <3>1, <1>1, <1>2
  <2>2. CASE r \notin B
    <3>1. IsFiniteSet(B \cup {r})
          /\ Cardinality(B \cup {r}) = Cardinality(B) + 1
      BY <2>2, <1>1, CardinalityStep
    <3>2. Cardinality(A) <= Cardinality(B \cup {r})
      BY <3>1, <1>3, FS_Subset
    <3>3. QED
      BY <3>1, <3>2
  <2>3. QED
    BY <2>1, <2>2
<1>4. QED
  BY <1>2, <1>3

\* No step of a recorder breaks the invariant when none ever goes idle.
LEMMA WritersKeepCover ==
    ASSUME "idle" \notin Uses, TypeOK, StrandInv,
           NEW r \in Recorders, ClientNext(r) \/ WriterNext(r)
    PROVE  StrandInv'
<1> USE DEF Goto, ActiveStates, RecorderStates
<1> DEFINE Keeps == /\ rpc' = rpc /\ counted' = counted /\ phased' = phased
                    /\ phase' = phase
<1>1. /\ Staying \in SUBSET Recorders /\ Owing \in SUBSET Recorders
      /\ Staying' \in SUBSET Recorders /\ Owing' \in SUBSET Recorders
  BY DEF Staying, Owing
<1>2. /\ Cardinality(Staying) \in Nat /\ Cardinality(Owing) \in Nat
      /\ Cardinality(Staying') \in Nat /\ Cardinality(Owing') \in Nat
  BY <1>1, RecorderSetsFinite
<1>3. Len(chan) \in Nat /\ counted \in Int /\ phased \in Nat
  BY DEF TypeOK
<1>4. ASSUME Keeps, chan' = chan, Staying \subseteq Staying', Owing \subseteq Owing'
      PROVE  BumpCovered' /\ WaitCovered'
  <2>1. /\ Cardinality(Staying) <= Cardinality(Staying')
        /\ Cardinality(Owing) <= Cardinality(Owing')
    BY <1>4, <1>1, CardinalityBound
  <2>2. QED
    BY <2>1, <1>2, <1>3, <1>4 DEF BumpCovered, WaitCovered, StrandInv
<1>5. ASSUME Keeps, SendLocal(r),
             Staying \subseteq Staying' \cup {r}, Owing \subseteq Owing' \cup {r}
      PROVE  BumpCovered' /\ WaitCovered'
  <2>1. /\ Cardinality(Staying) <= Cardinality(Staying') + 1
        /\ Cardinality(Owing) <= Cardinality(Owing') + 1
    BY <1>5, <1>1, CardinalityBound
  <2>2. rpc # "gone" => Len(chan') = Len(chan) + 1
    BY <1>5 DEF SendLocal, TypeOK
  <2>3. QED
    BY <2>1, <2>2, <1>2, <1>3, <1>5 DEF BumpCovered, WaitCovered, StrandInv
<1>6. CASE NewRecorder(r)
  <2>1. NeverIdle' /\ PhaseOrder'
    BY <1>6 DEF NewRecorder, TypeOK, StrandInv, NeverIdle, PhaseOrder
  <2>2. BumpCovered' /\ WaitCovered'
    BY <1>6 DEF NewRecorder, reader, BumpCovered, WaitCovered
  <2>3. QED
    BY <2>1, <2>2 DEF StrandInv
<1>7. ASSUME NEW new \in Recorders, Clone(r, new)
      PROVE  StrandInv'
  <2>1. NeverIdle' /\ PhaseOrder'
    BY <1>7 DEF Clone, TypeOK, StrandInv, NeverIdle, PhaseOrder
  <2>2. Staying \subseteq Staying' /\ Owing \subseteq Owing'
    BY <1>7 DEF Clone, TypeOK, Staying, Owing, Owes, Counted
  <2>3. QED
    BY <1>4, <1>7, <2>1, <2>2 DEF Clone, reader, StrandInv
<1>8. ASSUME NEW S \in SUBSET Samples, Record(r, S) \/ Subtract(r, S)
      PROVE  StrandInv'
  <2>1. NeverIdle' /\ PhaseOrder'
    BY <1>8 DEF Record, Subtract, TypeOK, shared, StrandInv, NeverIdle, PhaseOrder
  <2>2. Staying \subseteq Staying' /\ Owing \subseteq Owing'
    BY <1>8 DEF Record, Subtract, TypeOK, shared, Staying, Owing, Owes, Counted
  <2>3. QED
    BY <1>4, <1>8, <2>1, <2>2 DEF Record, Subtract, shared, reader, StrandInv
<1>9. CASE DropLeave(r)
  <2>1. NeverIdle' /\ PhaseOrder'
    BY <1>9 DEF DropLeave, TypeOK, StrandInv, NeverIdle, PhaseOrder
  <2>2. Staying \subseteq Staying' /\ Owing \subseteq Owing'
    BY <1>9 DEF DropLeave, TypeOK, Staying, Owing, Owes, Counted
  <2>3. QED
    BY <1>4, <1>9, <2>1, <2>2 DEF DropLeave, reader, StrandInv
<1>10. CASE LoadPhase(r)
  <2>1. NeverIdle' /\ PhaseOrder'
    <3>1. phase' = phase /\ lastPhase' = lastPhase
      BY <1>10 DEF LoadPhase, shared
    <3>2. \A q \in Recorders : seen'[q] = seen[q] \/ seen'[q] = phase
      BY <1>10 DEF LoadPhase, TypeOK
    <3>3. NeverIdle'
      BY <1>10 DEF LoadPhase, TypeOK, StrandInv, NeverIdle
    <3>4. phase <= phase
      BY DEF TypeOK
    <3>5. QED
      BY <3>1, <3>2, <3>3, <3>4 DEF StrandInv, PhaseOrder
  <2>2. Staying \subseteq Staying' /\ Owing \subseteq Owing'
    BY <1>10 DEF LoadPhase, TypeOK, shared, Staying, Owing, Owes, Counted
  <2>3. QED
    BY <1>4, <1>10, <2>1, <2>2 DEF LoadPhase, shared, reader, StrandInv
<1>11. CASE Update(r)
  <2>1. NeverIdle' /\ PhaseOrder'
    BY <1>11 DEF Update, TypeOK, StrandInv, NeverIdle, PhaseOrder
  <2>2. Staying \subseteq Staying' \cup {r} /\ Owing \subseteq Owing' \cup {r}
    BY <1>11 DEF Update, TypeOK, Staying, Owing, Owes, Counted
  <2>3. QED
    BY <1>5, <1>11, <2>1, <2>2 DEF Update, reader, StrandInv
<1>12. CASE DropSend(r)
  <2>1. NeverIdle' /\ PhaseOrder'
    BY <1>12 DEF DropSend, TypeOK, StrandInv, NeverIdle, PhaseOrder
  <2>2. Staying \subseteq Staying' \cup {r} /\ Owing \subseteq Owing' \cup {r}
    BY <1>12 DEF DropSend, TypeOK, Staying, Owing, Owes, Counted
  <2>3. QED
    BY <1>5, <1>12, <2>1, <2>2 DEF DropSend, reader, StrandInv
<1>13. QED
  BY <1>6, <1>7, <1>8, <1>9, <1>10, <1>11, <1>12
  DEF ClientNext, WriterNext, Deactivate, Reactivate, DeactivateLoad,
      DeactivateSend, ReactivateLoad, StrandInv, NeverIdle

\* No step of the reader breaks the invariant: its count starts the cover,
\* its bump turns the counted recorders into owing ones, and a histogram it
\* receives leaves the channel for `phased`.
LEMMA ReaderKeepsCover ==
    ASSUME TypeInv, RecordersCounted, StrandInv,
           (\E t \in BOOLEAN : Refresh(t)) \/ RefreshNext \/ TimeOut
               \/ Reset \/ Close
    PROVE  StrandInv'
<1> USE DEF shared, writers, reader
<1>1. TypeOK
  BY DEF TypeInv
<1>2. /\ Staying \in SUBSET Recorders /\ Owing \in SUBSET Recorders
      /\ CountedSet \in SUBSET Recorders
      /\ Staying' \in SUBSET Recorders /\ Owing' \in SUBSET Recorders
  BY DEF Staying, Owing, CountedSet
<1>3. /\ Cardinality(Staying) \in Nat /\ Cardinality(Owing) \in Nat
      /\ Cardinality(CountedSet) \in Nat
      /\ Cardinality(Staying') \in Nat /\ Cardinality(Owing') \in Nat
  BY <1>2, RecorderSetsFinite
<1>4. Len(chan) \in Nat /\ counted \in Int /\ phased \in Nat
  BY <1>1 DEF TypeOK
<1>5. CASE ReadRecorders
  <2>1. NeverIdle' /\ PhaseOrder'
    BY <1>5 DEF ReadRecorders, StrandInv, NeverIdle, PhaseOrder
  <2>2. counted' = Cardinality(CountedSet) /\ chan' = chan /\ Staying' = Staying
    BY <1>5 DEF ReadRecorders, RecordersCounted, CountedSet, Staying, Counted
  <2>3. Cardinality(CountedSet) <= Cardinality(Staying)
    <3>1. CountedSet \subseteq Staying
      BY DEF CountedSet, Staying
    <3>2. QED
      BY <3>1, <1>2, FS_Subset, RecorderSetsFinite
  <2>4. QED
    BY <1>3, <1>4, <1>5, <2>1, <2>2, <2>3
    DEF ReadRecorders, StrandInv, BumpCovered, WaitCovered
<1>6. CASE BumpPhase
  <2>1. NeverIdle' /\ PhaseOrder'
    BY <1>1, <1>6 DEF BumpPhase, TypeOK, StrandInv, NeverIdle, PhaseOrder
  <2>2. Staying \subseteq Owing'
    BY <1>1, <1>6 DEF BumpPhase, TypeOK, StrandInv, NeverIdle, PhaseOrder,
                      Staying, Owing, Owes, Counted, ActiveStates
  <2>3. Cardinality(Staying) <= Cardinality(Owing')
    BY <2>2, <1>2, FS_Subset, RecorderSetsFinite
  <2>4. QED
    BY <1>3, <1>4, <1>6, <2>1, <2>3
    DEF BumpPhase, StrandInv, BumpCovered, WaitCovered
<1>7. CASE Recv
  <2>1. NeverIdle' /\ PhaseOrder' /\ Owing' = Owing
    BY <1>7 DEF Recv, StrandInv, NeverIdle, PhaseOrder, Owing, Owes
  <2>2. Len(chan') = Len(chan) - 1
    BY <1>1, <1>7 DEF Recv, MergeHead, TypeOK
  <2>3. QED
    BY <1>3, <1>4, <1>7, <2>1, <2>2
    DEF Recv, StrandInv, BumpCovered, WaitCovered
<1>8. CASE (\E t \in BOOLEAN : Refresh(t)) \/ TryRecvSome \/ TryRecvNone
            \/ AllPhased \/ TimeOut \/ Reset \/ Close
  <2>1. NeverIdle' /\ PhaseOrder'
    BY <1>8 DEF Refresh, TryRecvSome, TryRecvNone, AllPhased, TimeOut, Reset,
                Close, StrandInv, NeverIdle, PhaseOrder
  <2>2. rpc' \notin {"bump", "wait"}
    BY <1>8 DEF Refresh, TryRecvSome, TryRecvNone, AllPhased, TimeOut, Reset,
                Close
  <2>3. QED
    BY <2>1, <2>2 DEF StrandInv, BumpCovered, WaitCovered
<1>9. QED
  BY <1>5, <1>6, <1>7, <1>8 DEF RefreshNext

\* As long as no recorder goes idle, and whatever clones, drops, late answers
\* and timeouts happen, refresh_inner never waits for a histogram that no
\* recorder will send.
THEOREM NotStranded == "idle" \notin Uses /\ Spec => []ReaderNotStranded
<1> DEFINE Inv == "idle" \notin Uses /\ StrandInv
<1>1. "idle" \notin Uses /\ Init => Inv
  BY DEF Init, StrandInv, NeverIdle, PhaseOrder, BumpCovered, WaitCovered
<1>2. TypeInv /\ RecordersCounted /\ Inv /\ [Next]_vars => Inv'
  <2> SUFFICES ASSUME TypeInv, RecordersCounted, Inv, [Next]_vars
               PROVE  StrandInv'
    OBVIOUS
  <2>1. CASE Next
    BY <2>1, WritersKeepCover, ReaderKeepsCover DEF Next, TypeInv
  <2>2. CASE UNCHANGED vars
    BY <2>2
    DEF vars, shared, writers, reader, StrandInv, NeverIdle, PhaseOrder,
        BumpCovered, WaitCovered, Staying, Owing, Owes, Counted
  <2>3. QED
    BY <2>1, <2>2
<1>3. Inv => ReaderNotStranded
  BY DEF StrandInv, WaitCovered, Owing, ReaderNotStranded
<1>4. QED
  BY <1>1, <1>2, <1>3, TypeCorrect, RecordersCountedCorrect, PTL
  DEF Spec, TypeInv

-----------------------------------------------------------------------------
(***************************************************************************)
(* Samples are neither lost nor merged twice                               *)
(*                                                                         *)
(* SamplesConserved speaks of unions; Apart says the same place by place,  *)
(* which is how a send or a merge moves one histogram.                     *)
(***************************************************************************)
Indices == 1..Len(chan)
LocalsApart == \A r, q \in Recorders : r # q => local[r] \cap local[q] = {}
ChanApart == \A i, j \in Indices : i # j => chan[i] \cap chan[j] = {}
LocalsFromChan == \A r \in Recorders, i \in Indices : local[r] \cap chan[i] = {}
LocalsFromReader == \A r \in Recorders : local[r] \cap (merged \cup removed) = {}
ChanFromReader == \A i \in Indices : chan[i] \cap (merged \cup removed) = {}
ReaderApart == merged \cap removed = {}

Apart == /\ LocalsApart /\ ChanApart /\ LocalsFromChan
         /\ LocalsFromReader /\ ChanFromReader /\ ReaderApart

\* Both ways to say that every sample is in one place agree.
LEMMA ApartIsConserved == Apart <=> SamplesConserved
<1> USE DEF Apart, LocalsApart, ChanApart, LocalsFromChan, LocalsFromReader,
            ChanFromReader, ReaderApart, Indices, SamplesConserved, Pending,
            InLocals, InChan
<1>1. ASSUME Apart PROVE SamplesConserved
  <2>1. InLocals \cap InChan = {}
    BY <1>1
  <2>2. Pending \cap merged = {}
    BY <1>1
  <2>3. (Pending \cup merged) \cap removed = {}
    BY <1>1
  <2>4. QED
    BY <1>1, <2>1, <2>2, <2>3
<1>2. ASSUME SamplesConserved PROVE Apart
  <2>1. LocalsFromChan
    BY <1>2
  <2>2. LocalsFromReader
    BY <1>2
  <2>3. ChanFromReader
    BY <1>2
  <2>4. QED
    BY <1>2, <2>1, <2>2, <2>3
<1>3. QED
  BY <1>1, <1>2

\* A send moves the local histogram as a whole: to the end of the channel, or
\* away when the reader is gone.
LEMMA SendKeepsApart ==
    ASSUME TypeOK, Apart, NEW r \in Recorders, SendLocal(r), merged' = merged
    PROVE  Apart'
<1>1. /\ local \in [Recorders -> SUBSET Samples]
      /\ chan \in Seq(SUBSET Samples) /\ Len(chan) \in Nat
  BY DEF TypeOK
<1>2. /\ local'[r] = {}
      /\ \A q \in Recorders : q # r => local'[q] = local[q]
  BY <1>1 DEF SendLocal
<1>3. CASE rpc = "gone"
  <2>1. chan' = chan /\ removed' = removed \cup local[r]
    BY <1>3 DEF SendLocal
  <2>2. QED
    BY <1>2, <2>1 DEF Apart, LocalsApart, ChanApart, LocalsFromChan,
       LocalsFromReader, ChanFromReader, ReaderApart, Indices
<1>4. CASE rpc # "gone"
  <2>1. chan' = Append(chan, local[r]) /\ removed' = removed
    BY <1>4 DEF SendLocal
  <2>2. /\ Indices' = Indices \cup {Len(chan) + 1}
        /\ chan'[Len(chan) + 1] = local[r]
        /\ \A i \in Indices : chan'[i] = chan[i]
    BY <1>1, <2>1 DEF Indices
  <2>3. LocalsApart' /\ LocalsFromReader' /\ ReaderApart'
    BY <1>2, <2>1 DEF Apart, LocalsApart, LocalsFromReader, ReaderApart
  <2>4. ChanApart'
    BY <2>2 DEF Apart, ChanApart, LocalsFromChan
  <2>5. LocalsFromChan'
    BY <1>2, <2>2 DEF Apart, LocalsApart, LocalsFromChan
  <2>6. ChanFromReader'
    BY <2>1, <2>2 DEF Apart, LocalsFromReader, ChanFromReader
  <2>7. QED
    BY <2>3, <2>4, <2>5, <2>6 DEF Apart
<1>5. QED
  BY <1>3, <1>4

\* A merge moves the first histogram of the channel.
LEMMA MergeKeepsApart ==
    ASSUME TypeOK, Apart, chan # <<>>, MergeHead, local' = local, removed' = removed
    PROVE  Apart'
<1>1. chan \in Seq(SUBSET Samples) /\ Len(chan) \in Nat \ {0}
  BY DEF TypeOK
<1>2. /\ merged' = merged \cup chan[1] /\ 1 \in Indices
      /\ \A i \in Indices' : i + 1 \in Indices /\ i + 1 # 1 /\ chan'[i] = chan[i + 1]
      /\ \A i, j \in Indices' : i # j => i + 1 # j + 1
  BY <1>1 DEF MergeHead, Indices
<1>3. LocalsApart' /\ LocalsFromReader' /\ ReaderApart'
  BY <1>2 DEF Apart, LocalsApart, LocalsFromChan, LocalsFromReader,
              ChanFromReader, ReaderApart
<1>4. ChanApart'
  BY <1>2 DEF Apart, ChanApart
<1>5. LocalsFromChan'
  BY <1>2 DEF Apart, LocalsFromChan
<1>6. ChanFromReader'
  BY <1>2 DEF Apart, ChanApart, ChanFromReader
<1>7. QED
  BY <1>3, <1>4, <1>5, <1>6 DEF Apart

\* No step puts a sample in two places.
LEMMA ApartInductive ==
    ASSUME TypeOK, Apart, [Next]_vars
    PROVE  Apart'
<1> USE DEF shared, writers, reader, history
<1>1. ASSUME UNCHANGED <<local, chan, merged, removed>>
      PROVE  Apart'
  BY <1>1 DEF Apart, LocalsApart, ChanApart, LocalsFromChan, LocalsFromReader,
              ChanFromReader, ReaderApart, Indices
<1>2. ASSUME NEW r \in Recorders, ClientNext(r)
      PROVE  Apart'
  <2>1. ASSUME NEW S \in SUBSET Samples, Record(r, S)
        PROVE  Apart'
    <3>1. /\ local'[r] = local[r] \cup S
          /\ \A q \in Recorders : q # r => local'[q] = local[q]
          /\ chan' = chan /\ merged' = merged /\ removed' = removed
      BY <2>1 DEF TypeOK, Record
    <3>2. /\ \A q \in Recorders : S \cap local[q] = {}
          /\ \A i \in Indices : S \cap chan[i] = {}
          /\ S \cap merged = {} /\ S \cap removed = {}
      BY <2>1 DEF Record, Known, Pending, InLocals, InChan, Indices
    <3>3. LocalsApart'
      BY <3>1, <3>2 DEF Apart, LocalsApart
    <3>4. LocalsFromChan' /\ LocalsFromReader'
      BY <3>1, <3>2 DEF Apart, LocalsFromChan, LocalsFromReader, Indices
    <3>5. QED
      BY <3>1, <3>3, <3>4 DEF Apart, ChanApart, ChanFromReader, ReaderApart, Indices
  <2>2. ASSUME NEW S \in SUBSET Samples, Subtract(r, S)
        PROVE  Apart'
    <3>1. /\ local'[r] = local[r] \ S /\ S \subseteq local[r]
          /\ \A q \in Recorders : q # r => local'[q] = local[q]
          /\ chan' = chan /\ merged' = merged /\ removed' = removed \cup S
      BY <2>2 DEF TypeOK, Subtract
    <3>2. LocalsApart' /\ LocalsFromChan'
      BY <3>1 DEF Apart, LocalsApart, LocalsFromChan, Indices
    <3>3. LocalsFromReader' /\ ChanFromReader' /\ ReaderApart'
      BY <3>1 DEF Apart, LocalsApart, LocalsFromChan, LocalsFromReader,
                  ChanFromReader, ReaderApart, Indices
    <3>4. QED
      BY <3>1, <3>2, <3>3 DEF Apart, ChanApart, Indices
  <2>3. QED
    BY <1>1, <1>2, <2>1, <2>2 DEF ClientNext, NewRecorder, Clone, DropLeave,
       Deactivate, Reactivate
<1>3. ASSUME NEW r \in Recorders, WriterNext(r)
      PROVE  Apart'
  <2>1. CASE Update(r) \/ DropSend(r) \/ DeactivateSend(r)
    BY <2>1, SendKeepsApart DEF Update, DropSend, DeactivateSend
  <2>2. CASE LoadPhase(r) \/ DeactivateLoad(r) \/ ReactivateLoad(r)
    BY <2>2, <1>1 DEF LoadPhase, DeactivateLoad, ReactivateLoad
  <2>3. QED
    BY <1>3, <2>1, <2>2 DEF WriterNext
<1>4. CASE TryRecvSome \/ Recv
  BY <1>4, MergeKeepsApart DEF TryRecvSome, Recv
<1>5. CASE Reset
  BY <1>5 DEF Reset, Apart, LocalsApart, ChanApart, LocalsFromChan,
              LocalsFromReader, ChanFromReader, ReaderApart, Indices
<1>6. CASE Close
  <2>1. /\ local' = local /\ merged' = {} /\ Indices' = {}
        /\ removed' = removed \cup merged \cup InChan
    BY <1>6 DEF Close, Indices
  <2>2. \A r \in Recorders : local[r] \cap InChan = {}
    BY DEF Apart, LocalsFromChan, InChan, Indices
  <2>3. QED
    BY <2>1, <2>2 DEF Apart, LocalsApart, ChanApart, LocalsFromChan,
       LocalsFromReader, ChanFromReader, ReaderApart
<1>7. CASE (\E t \in BOOLEAN : Refresh(t)) \/ TryRecvNone \/ ReadRecorders
            \/ BumpPhase \/ AllPhased \/ TimeOut \/ UNCHANGED vars
  BY <1>7, <1>1 DEF Refresh, TryRecvNone, ReadRecorders, BumpPhase, AllPhased,
                    TimeOut, vars
<1>8. QED
  BY <1>2, <1>3, <1>4, <1>5, <1>6, <1>7 DEF Next, RefreshNext

\* No sample is lost or merged twice on its way from a recorder through the
\* channel into the merged histogram, for any number of recorders, samples and
\* refreshes, with every use of the API.
THEOREM SamplesConservedCorrect == Spec => []SamplesConserved
<1>1. Init => Apart
  BY DEF Init, Apart, LocalsApart, ChanApart, LocalsFromChan, LocalsFromReader,
         ChanFromReader, ReaderApart, Indices
<1>2. TypeOK /\ Apart /\ [Next]_vars => Apart'
  BY ApartInductive
<1>3. QED
  BY <1>1, <1>2, ApartIsConserved, TypeCorrect, PTL DEF Spec

-----------------------------------------------------------------------------
(***************************************************************************)
(* What a dropped recorder leaves behind is seen                           *)
(*                                                                         *)
(* A recorder on its way out owns the mutex until it has sent, so when the *)
(* reader reads `recorders` everything left behind is in the channel, and  *)
(* the second loop of refresh_inner ends with an empty channel only.       *)
(***************************************************************************)
Arrived == merged \cup removed \cup InChan
MutexHeld == \A r \in Recorders :
    pc[r] \in {"dropSend", "deactLoad", "deactSend", "reactLoad"} => lock = r
LeftSomewhere == \A s \in left : s \in Arrived \/ \E r \in Recorders :
                                      pc[r] = "dropSend" /\ s \in local[r]
OwedArrived ==
    /\ leftOwed \subseteq Arrived
    /\ rpc \notin {"bump", "wait", "final"} => leftOwed \subseteq merged \cup removed

DropInv == MutexHeld /\ LeftSomewhere /\ OwedArrived

\* A histogram sent has arrived, or is gone with the reader.
LEMMA SendArrives ==
    ASSUME TypeOK, NEW r \in Recorders, SendLocal(r), merged' = merged
    PROVE  /\ Arrived \subseteq Arrived' /\ local[r] \subseteq Arrived'
           /\ removed \subseteq removed'
           /\ \A q \in Recorders : q # r => local'[q] = local[q]
<1>1. /\ local \in [Recorders -> SUBSET Samples]
      /\ chan \in Seq(SUBSET Samples) /\ Len(chan) \in Nat
  BY DEF TypeOK
<1>2. \A q \in Recorders : q # r => local'[q] = local[q]
  BY <1>1 DEF SendLocal
<1>3. CASE rpc = "gone"
  <2>1. chan' = chan /\ removed' = removed \cup local[r]
    BY <1>3 DEF SendLocal
  <2>2. QED
    BY <1>2, <2>1 DEF Arrived, InChan
<1>4. CASE rpc # "gone"
  <2>1. chan' = Append(chan, local[r]) /\ removed' = removed
    BY <1>4 DEF SendLocal
  <2>2. /\ Len(chan') = Len(chan) + 1 /\ chan'[Len(chan) + 1] = local[r]
        /\ \A i \in 1..Len(chan) : i \in 1..Len(chan') /\ chan'[i] = chan[i]
        /\ Len(chan) + 1 \in 1..Len(chan')
    BY <1>1, <2>1
  <2>3. InChan \subseteq InChan' /\ local[r] \subseteq InChan'
    BY <2>2 DEF InChan
  <2>4. QED
    BY <1>2, <2>1, <2>3 DEF Arrived
<1>5. QED
  BY <1>3, <1>4

\* What is merged had arrived.
LEMMA MergeArrives ==
    ASSUME TypeOK, chan # <<>>, MergeHead, removed' = removed
    PROVE  Arrived \subseteq Arrived' /\ merged \subseteq merged'
<1>1. chan \in Seq(SUBSET Samples) /\ Len(chan) \in Nat \ {0}
  BY DEF TypeOK
<1>2. merged' = merged \cup chan[1] /\ chan' = Tail(chan)
  BY <1>1 DEF MergeHead
<1>3. ASSUME NEW i \in 1..Len(chan), i # 1
      PROVE  chan[i] \subseteq InChan'
  <2>1. i - 1 \in 1..Len(chan') /\ chan'[i - 1] = chan[i]
    BY <1>1, <1>2, <1>3
  <2>2. QED
    BY <2>1 DEF InChan
<1>4. InChan \subseteq InChan' \cup merged'
  BY <1>2, <1>3 DEF InChan
<1>5. QED
  BY <1>2, <1>4 DEF Arrived

\* The mutex: a recorder inside a critical section is its owner.
LEMMA MutexInductive ==
    ASSUME TypeOK, MutexHeld, [Next]_vars
    PROVE  MutexHeld'
<1> USE ConstantsAssumption DEF Goto, shared, writers, MutexHeld
<1>1. lock \in Recorders \cup {Free} /\ pc \in [Recorders -> RecorderStates]
  BY DEF TypeOK
<1>2. ASSUME NEW r \in Recorders, ClientNext(r)
      PROVE  MutexHeld'
  BY <1>1, <1>2 DEF ClientNext, NewRecorder, Clone, Record, Subtract, DropLeave,
                    Deactivate, Reactivate
<1>3. ASSUME NEW r \in Recorders, WriterNext(r)
      PROVE  MutexHeld'
  BY <1>1, <1>3 DEF WriterNext, LoadPhase, Update, DropSend, DeactivateLoad,
                    DeactivateSend, ReactivateLoad
<1>4. CASE UNCHANGED <<lock, pc>>
  BY <1>4
<1>5. CASE (\E t \in BOOLEAN : Refresh(t)) \/ RefreshNext \/ TimeOut
             \/ Reset \/ Close \/ UNCHANGED vars
  BY <1>4, <1>5 DEF Refresh, RefreshNext, TryRecvSome, TryRecvNone,
     ReadRecorders, BumpPhase, Recv, AllPhased, TimeOut, Reset, Close, vars
<1>6. QED
  BY <1>2, <1>3, <1>5 DEF Next

\* A step of a recorder keeps track of what was left behind, and takes nothing
\* back that arrived.
LEMMA WritersKeepLeft ==
    ASSUME TypeOK, DropInv, NEW r \in Recorders, ClientNext(r) \/ WriterNext(r)
    PROVE  LeftSomewhere' /\ OwedArrived'
<1> USE DEF Goto, shared, reader, history
<1>1. /\ pc \in [Recorders -> RecorderStates]
      /\ local \in [Recorders -> SUBSET Samples]
  BY DEF TypeOK
<1>2. rpc' = rpc /\ merged' = merged /\ leftOwed' = leftOwed
  BY DEF ClientNext, NewRecorder, Clone, Record, Subtract, DropLeave, Deactivate,
         Reactivate, WriterNext, LoadPhase, Update, DropSend, DeactivateLoad,
         DeactivateSend, ReactivateLoad
<1>3. ASSUME Arrived \subseteq Arrived', removed \subseteq removed'
      PROVE  OwedArrived'
  BY <1>2, <1>3 DEF DropInv, OwedArrived
<1>4. ASSUME left' = left, chan' = chan, removed \subseteq removed',
             \A q \in Recorders : pc[q] = "dropSend" =>
                 pc'[q] = "dropSend" /\ local'[q] = local[q]
      PROVE  LeftSomewhere' /\ OwedArrived'
  <2>1. Arrived \subseteq Arrived'
    BY <1>2, <1>4 DEF Arrived, InChan
  <2>2. QED
    BY <1>3, <1>4, <2>1 DEF DropInv, LeftSomewhere
<1>5. CASE DropLeave(r)
  <2>1. /\ left' = left \cup local[r] /\ local' = local /\ pc'[r] = "dropSend"
        /\ \A q \in Recorders : pc[q] = "dropSend" => pc'[q] = "dropSend"
    BY <1>1, <1>5 DEF DropLeave
  <2>2. Arrived' = Arrived /\ removed' = removed
    BY <1>5 DEF DropLeave, Arrived, InChan
  <2>3. QED
    BY <1>3, <2>1, <2>2 DEF DropInv, LeftSomewhere
<1>6. CASE Update(r) \/ DropSend(r) \/ DeactivateSend(r)
  <2>1. SendLocal(r) /\ left' = left
    BY <1>6 DEF Update, DropSend, DeactivateSend
  <2>2. /\ Arrived \subseteq Arrived' /\ local[r] \subseteq Arrived'
        /\ removed \subseteq removed'
        /\ \A q \in Recorders : q # r => local'[q] = local[q]
    BY <1>2, <2>1, SendArrives
  <2>3. \A q \in Recorders : q # r => pc'[q] = pc[q]
    BY <1>1, <1>6 DEF Update, DropSend, DeactivateSend
  <2>4. LeftSomewhere'
    BY <2>1, <2>2, <2>3 DEF DropInv, LeftSomewhere
  <2>5. QED
    BY <1>3, <2>2, <2>4
<1>7. CASE NewRecorder(r) \/ Deactivate(r) \/ Reactivate(r)
           \/ \E new \in Recorders : Clone(r, new)
  <2>1. \A q \in Recorders : pc[q] = "dropSend" => pc'[q] = "dropSend"
    BY <1>1, <1>7 DEF NewRecorder, Deactivate, Reactivate, Clone
  <2>2. QED
    BY <1>4, <1>7, <2>1 DEF NewRecorder, Deactivate, Reactivate, Clone
<1>8. CASE LoadPhase(r) \/ DeactivateLoad(r) \/ ReactivateLoad(r)
  <2>1. \A q \in Recorders : pc[q] = "dropSend" => pc'[q] = "dropSend"
    BY <1>1, <1>8 DEF LoadPhase, DeactivateLoad, ReactivateLoad
  <2>2. QED
    BY <1>4, <1>8, <2>1 DEF LoadPhase, DeactivateLoad, ReactivateLoad
<1>9. CASE \E S \in SUBSET Samples : Record(r, S) \/ Subtract(r, S)
  <2>1. \A q \in Recorders : pc[q] = "dropSend" =>
            pc'[q] = "dropSend" /\ local'[q] = local[q]
    BY <1>1, <1>9 DEF Record, Subtract
  <2>2. QED
    BY <1>4, <1>9, <2>1 DEF Record, Subtract
<1>10. QED
  BY <1>5, <1>6, <1>7, <1>8, <1>9 DEF ClientNext, WriterNext

\* So does a step of the reader.
LEMMA ReaderKeepsLeft ==
    ASSUME TypeOK, DropInv,
           (\E t \in BOOLEAN : Refresh(t)) \/ RefreshNext \/ TimeOut
               \/ Reset \/ Close
    PROVE  LeftSomewhere' /\ OwedArrived'
<1> USE DEF shared, writers, reader, history
<1>1. pc' = pc /\ local' = local /\ left' = left
  BY DEF Refresh, RefreshNext, TryRecvSome, TryRecvNone, ReadRecorders,
         BumpPhase, Recv, AllPhased, TimeOut, Reset, Close
<1>2. ASSUME Arrived \subseteq Arrived'
      PROVE  LeftSomewhere'
  BY <1>1, <1>2 DEF DropInv, LeftSomewhere
<1>3. CASE TryRecvSome \/ Recv
  <2>1. Arrived \subseteq Arrived' /\ merged \subseteq merged'
    BY <1>3, MergeArrives DEF TryRecvSome, Recv
  <2>2. rpc' = rpc /\ leftOwed' = leftOwed /\ removed' = removed
    BY <1>3 DEF TryRecvSome, Recv
  <2>3. QED
    BY <1>2, <2>1, <2>2 DEF DropInv, OwedArrived
<1>4. CASE TryRecvNone
  <2>1. /\ Arrived' = Arrived /\ InChan = {} /\ leftOwed' = leftOwed
        /\ merged' = merged /\ removed' = removed
    BY <1>4 DEF TryRecvNone, Arrived, InChan
  <2>2. QED
    BY <1>2, <2>1 DEF DropInv, OwedArrived, Arrived
<1>5. CASE ReadRecorders
  <2>1. /\ Arrived' = Arrived /\ leftOwed' = left /\ rpc' = "bump"
    BY <1>5 DEF ReadRecorders, Arrived, InChan
  <2>2. \A r \in Recorders : pc[r] # "dropSend"
    BY <1>5, ConstantsAssumption DEF ReadRecorders, DropInv, MutexHeld
  <2>3. QED
    BY <1>2, <2>1, <2>2 DEF DropInv, LeftSomewhere, OwedArrived
<1>6. CASE (\E t \in BOOLEAN : Refresh(t)) \/ BumpPhase \/ AllPhased \/ TimeOut
  <2>1. /\ Arrived' = Arrived /\ leftOwed' = leftOwed
        /\ merged' = merged /\ removed' = removed
    BY <1>6 DEF Refresh, BumpPhase, AllPhased, TimeOut, Arrived, InChan
  <2>2. rpc' \in {"bump", "wait", "final"} \/ rpc \notin {"bump", "wait", "final"}
    BY <1>6 DEF Refresh, BumpPhase, AllPhased, TimeOut
  <2>3. QED
    BY <1>2, <2>1, <2>2 DEF DropInv, OwedArrived
<1>7. CASE Reset
  <2>1. /\ Arrived' = Arrived /\ leftOwed' = leftOwed /\ rpc' = rpc
        /\ merged' \cup removed' = merged \cup removed
    BY <1>7 DEF Reset, Arrived, InChan
  <2>2. QED
    BY <1>2, <2>1 DEF DropInv, OwedArrived
<1>8. CASE Close
  <2>1. Arrived \subseteq Arrived' /\ leftOwed' = leftOwed
        /\ Arrived \subseteq removed'
    BY <1>8 DEF Close, Arrived
  <2>2. QED
    BY <1>2, <2>1 DEF DropInv, OwedArrived
<1>9. QED
  BY <1>3, <1>4, <1>5, <1>6, <1>7, <1>8 DEF RefreshNext

\* Drop for Recorder holds the mutex from the decrement to the send, so a
\* refresh that does not count the recorder any more returns with everything
\* it left, for any number of recorders and refreshes, and after a timeout too.
THEOREM DropsVisibleCorrect == Spec => []DropsVisible
<1>1. Init => DropInv
  BY DEF Init, DropInv, MutexHeld, LeftSomewhere, OwedArrived
<1>2. TypeOK /\ DropInv /\ [Next]_vars => DropInv'
  <2> SUFFICES ASSUME TypeOK, DropInv, [Next]_vars PROVE DropInv'
    OBVIOUS
  <2>1. MutexHeld'
    BY MutexInductive DEF DropInv
  <2>2. CASE Next
    BY <2>1, <2>2, WritersKeepLeft, ReaderKeepsLeft DEF Next, DropInv
  <2>3. CASE UNCHANGED vars
    BY <2>1, <2>3 DEF vars, shared, writers, reader, history, DropInv,
                      LeftSomewhere, OwedArrived, Arrived, InChan
  <2>4. QED
    BY <2>2, <2>3
<1>3. DropInv => DropsVisible
  BY DEF DropInv, OwedArrived, DropsVisible
<1>4. QED
  BY <1>1, <1>2, <1>3, TypeCorrect, PTL DEF Spec

-----------------------------------------------------------------------------
(***************************************************************************)
(* Why a refresh may return                                                *)
(*                                                                         *)
(* As long as recorders are only created and written to, the channel is    *)
(* empty but while the reader waits, so that the histograms it counts are  *)
(* of this phase, and of different recorders: a recorder sends one and     *)
(* then has the phase.  When it has as many as there are recorders it has  *)
(* one of each, with what that recorder held when refresh was called.      *)
(***************************************************************************)
Active == {q \in Recorders : pc[q] \in ActiveStates}
Answered == {q \in Recorders : pc[q] \in ActiveStates /\ lastPhase[q] = phase}

\* Recorders that exist write, those that do not hold nothing.
OnlyWriters ==
    \A q \in Recorders : \/ pc[q] \in ActiveStates
                         \/ pc[q] = "none" /\ local[q] = {}

\* The number of recorders does not change in a refresh.
CountStands == rpc \in {"bump", "wait", "final"} => counted = recorders

\* Nobody answers a refresh that has not begun, or late.
QuietOutside ==
    rpc # "wait" => /\ chan = <<>>
                    /\ \A q \in Active : lastPhase[q] = phase /\ pc[q] # "send"

\* One answer of each.
OneAnswerEach ==
    rpc = "wait" =>
        /\ Cardinality(Answered) = phased + Len(chan)
        /\ \A q \in Recorders : pc[q] = "send" => seen[q] = phase /\ lastPhase[q] # phase

\* Where what refresh owes may be.
OwedHeld ==
    /\ rpc \in {"drain", "count", "bump"} =>
         \A s \in owed : s \in merged \cup removed \/ \E q \in Active : s \in local[q]
    /\ rpc = "wait" =>
         \A s \in owed : \/ s \in Arrived
                         \/ \E q \in Active : lastPhase[q] # phase /\ s \in local[q]
    /\ rpc = "final" => owed \subseteq merged \cup removed

CalmParts == OnlyWriters /\ CountStands /\ QuietOutside /\ OneAnswerEach /\ OwedHeld

CalmInv == calm => CalmParts

\* Recording and subtracting change a local histogram only.
LEMMA WriteKeepsCalm ==
    ASSUME TypeOK, CalmParts, NEW r \in Recorders, NEW S \in SUBSET Samples,
           Record(r, S) \/ Subtract(r, S)
    PROVE  CalmParts'
<1> USE DEF Goto, ActiveStates, shared, reader, history
<1>1. /\ pc[r] = "ready" /\ pc' = [pc EXCEPT ![r] = "load"]
      /\ UNCHANGED <<recorders, phase, chan, lastPhase, seen, rpc, counted, phased, merged, owed>>
  BY DEF Record, Subtract
<1>2. /\ pc' \in [Recorders -> RecorderStates] /\ pc'[r] = "load"
      /\ \A q \in Recorders : q # r => pc'[q] = pc[q]
  BY <1>1 DEF TypeOK, RecorderStates
<1>3. /\ removed \subseteq removed'
      /\ \A q \in Recorders : q # r => local'[q] = local[q]
      /\ \A s \in local[r] : s \in local'[r] \/ s \in removed'
  BY DEF TypeOK, Record, Subtract
<1>4. Active' = Active /\ Answered' = Answered
  BY <1>1, <1>2 DEF Active, Answered
<1>5. OnlyWriters' /\ CountStands'
  BY <1>1, <1>2, <1>3 DEF CalmParts, OnlyWriters, CountStands
<1>6. QuietOutside'
  BY <1>1, <1>2, <1>4 DEF CalmParts, QuietOutside, Active
<1>7. OneAnswerEach'
  BY <1>1, <1>2, <1>4 DEF CalmParts, OneAnswerEach
<1>8. InChan' = InChan
  BY <1>1 DEF InChan
<1>9. OwedHeld'
  <2>1. rpc' \in {"drain", "count", "bump"} =>
         \A s \in owed' : s \in merged' \cup removed' \/ \E q \in Active' : s \in local'[q]
    BY <1>1, <1>3, <1>4 DEF CalmParts, OwedHeld, Active
  <2>2. rpc' = "wait" =>
         \A s \in owed' : \/ s \in Arrived'
                         \/ \E q \in Active' : lastPhase'[q] # phase' /\ s \in local'[q]
    BY <1>1, <1>3, <1>4, <1>8 DEF CalmParts, OwedHeld, Active, Arrived
  <2>3. rpc' = "final" => owed' \subseteq merged' \cup removed'
    BY <1>1, <1>3 DEF CalmParts, OwedHeld
  <2>4. QED
    BY <2>1, <2>2, <2>3 DEF OwedHeld
<1>10. QED
  BY <1>5, <1>6, <1>7, <1>9 DEF CalmParts

\* A recorder finds a new phase only while the reader waits.
LEMMA LoadKeepsCalm ==
    ASSUME TypeOK, CalmParts, NEW r \in Recorders, LoadPhase(r)
    PROVE  CalmParts'
<1> USE DEF Goto, ActiveStates, shared, reader, history
<1>1. /\ pc[r] = "load" /\ pc' \in [Recorders -> RecorderStates]
      /\ \A q \in Recorders : q # r => pc'[q] = pc[q] /\ seen'[q] = seen[q]
      /\ UNCHANGED <<recorders, phase, chan, local, lastPhase, rpc, counted, phased, merged,
                     removed, owed>>
  BY DEF LoadPhase, TypeOK, RecorderStates
<1>2. \/ lastPhase[r] # phase /\ pc'[r] = "send" /\ seen'[r] = phase
      \/ lastPhase[r] = phase /\ pc'[r] = "ready"
  BY DEF LoadPhase, TypeOK
<1>3. Active' = Active /\ Answered' = Answered
  BY <1>1, <1>2 DEF Active, Answered
<1>4. OnlyWriters' /\ CountStands'
  BY <1>1, <1>2 DEF CalmParts, OnlyWriters, CountStands
<1>5. QuietOutside'
  BY <1>1, <1>2, <1>3 DEF CalmParts, QuietOutside, Active
<1>6. OneAnswerEach'
  BY <1>1, <1>2, <1>3 DEF CalmParts, OneAnswerEach
<1>7. OwedHeld'
  BY <1>1, <1>3 DEF CalmParts, OwedHeld, Arrived, InChan
<1>8. QED
  BY <1>4, <1>5, <1>6, <1>7 DEF CalmParts

\* A recorder that sends has then answered, once.
LEMMA UpdateKeepsCalm ==
    ASSUME TypeOK, CalmParts, NEW r \in Recorders, Update(r)
    PROVE  CalmParts'
<1> USE DEF Goto, ActiveStates, shared, reader, history
<1>1. /\ pc[r] = "send" /\ pc' = [pc EXCEPT ![r] = "ready"] /\ SendLocal(r)
      /\ lastPhase' = [lastPhase EXCEPT ![r] = seen[r]]
      /\ UNCHANGED <<recorders, phase, seen, rpc, counted, phased, merged, owed>>
  BY DEF Update
<1>2. rpc = "wait" /\ seen[r] = phase /\ lastPhase[r] # phase
  BY <1>1 DEF CalmParts, QuietOutside, OneAnswerEach, Active
<1>3. /\ pc'[r] = "ready" /\ lastPhase'[r] = phase
      /\ \A q \in Recorders : q # r => pc'[q] = pc[q] /\ lastPhase'[q] = lastPhase[q]
  BY <1>1, <1>2 DEF TypeOK
<1>4. chan' = Append(chan, local[r]) /\ Len(chan') = Len(chan) + 1 /\ Len(chan) \in Nat
  BY <1>1, <1>2 DEF SendLocal, TypeOK
<1>5. Active' = Active /\ Answered' = Answered \cup {r} /\ r \notin Answered
  BY <1>1, <1>2, <1>3 DEF Active, Answered
<1>6. Cardinality(Answered') = Cardinality(Answered) + 1
  <2>1. Answered \in SUBSET Recorders
    BY DEF Answered
  <2>2. IsFiniteSet(Answered)
    BY <2>1, RecorderSetsFinite
  <2>3. QED
    BY <2>2, <1>5, CardinalityStep
<1>7. OnlyWriters'
  BY <1>1, <1>3 DEF CalmParts, OnlyWriters, SendLocal, TypeOK
<1>8. CountStands' /\ QuietOutside'
  BY <1>1, <1>2 DEF CalmParts, CountStands, QuietOutside
<1>9. OneAnswerEach'
  BY <1>1, <1>2, <1>3, <1>4, <1>6 DEF CalmParts, OneAnswerEach, TypeOK
<1>10. OwedHeld'
  <2>1. /\ Arrived \subseteq Arrived' /\ local[r] \subseteq Arrived'
        /\ \A q \in Recorders : q # r => local'[q] = local[q]
    BY <1>1, SendArrives
  <2>2. QED
    BY <2>1, <1>1, <1>2, <1>3, <1>5 DEF CalmParts, OwedHeld, Active
<1>11. QED
  BY <1>7, <1>8, <1>9, <1>10 DEF CalmParts

\* A new recorder has the phase.
LEMMA NewKeepsCalm ==
    ASSUME TypeOK, CalmParts, NEW r \in Recorders, NewRecorder(r)
    PROVE  CalmParts'
<1> USE DEF Goto, ActiveStates, shared, reader, history
<1>1. /\ rpc = "idle" /\ pc[r] = "none"
      /\ UNCHANGED <<phase, chan, local, seen, rpc, merged, removed, owed>>
  BY DEF NewRecorder
<1>2. /\ pc'[r] = "ready" /\ lastPhase'[r] = phase
      /\ \A q \in Recorders : q # r => pc'[q] = pc[q] /\ lastPhase'[q] = lastPhase[q]
  BY DEF NewRecorder, TypeOK
<1>3. QED
  BY <1>1, <1>2 DEF CalmParts, OnlyWriters, CountStands, QuietOutside, OneAnswerEach, OwedHeld,
     Active

\* The writers keep it, as long as they stay calm.
LEMMA WritersKeepCalm ==
    ASSUME TypeOK, CalmInv, NEW r \in Recorders, ClientNext(r) \/ WriterNext(r)
    PROVE  CalmInv'
<1> USE DEF shared, reader, history
<1>1. SUFFICES ASSUME calm' PROVE CalmParts'
  BY DEF CalmInv, CalmParts
<1>2. /\ ~(\E new \in Recorders : Clone(r, new)) /\ ~DropLeave(r) /\ ~Deactivate(r)
      /\ calm
  BY <1>1, Zenon DEF ClientNext, WriterNext, Clone, DropLeave, Deactivate, NewRecorder, Record,
     Subtract, Reactivate, LoadPhase, Update, DropSend, DeactivateLoad, DeactivateSend,
     ReactivateLoad
<1>3. CalmParts
  BY <1>2 DEF CalmInv, CalmParts
<1>4. ~Reactivate(r) /\ ~DropSend(r) /\ ~DeactivateLoad(r) /\ ~DeactivateSend(r) /\ ~ReactivateLoad(r)
  BY <1>3 DEF CalmParts, OnlyWriters, ActiveStates, Reactivate, DropSend, DeactivateLoad,
     DeactivateSend, ReactivateLoad
<1>5. QED
  BY <1>2, <1>3, <1>4, NewKeepsCalm, WriteKeepsCalm, LoadKeepsCalm, UpdateKeepsCalm
  DEF ClientNext, WriterNext

\* In calm, the recorders that are counted are the active ones.
LEMMA CalmCount ==
    ASSUME RecordersCounted, OnlyWriters
    PROVE  recorders = Cardinality(Active)
<1>1. Active = {q \in Recorders : Counted(q)}
  BY DEF Active, Counted, OnlyWriters, ActiveStates
<1>2. QED
  BY <1>1 DEF RecordersCounted

\* When the reader has as many histograms as there are recorders, all of them
\* have answered and nothing travels.
LEMMA AllAnswered ==
    ASSUME TypeOK, RecordersCounted, CalmParts, rpc = "wait", phased >= counted
    PROVE  chan = <<>> /\ Answered = Active
<1>1. Answered \in SUBSET Active /\ Active \in SUBSET Recorders
  BY DEF Answered, Active
<1>2. IsFiniteSet(Active) /\ Cardinality(Active) \in Nat
  BY <1>1, RecorderSetsFinite
<1>3. /\ Cardinality(Answered) <= Cardinality(Active)
      /\ Cardinality(Active) = Cardinality(Answered) => Active = Answered
  BY <1>1, <1>2, FS_Subset
<1>4. Cardinality(Answered) = phased + Len(chan) /\ counted = Cardinality(Active)
  BY CalmCount DEF CalmParts, OneAnswerEach, CountStands
<1>5. phased \in Nat /\ Len(chan) \in Nat /\ chan \in Seq(SUBSET Samples)
  BY DEF TypeOK
<1>6. Len(chan) = 0 /\ Cardinality(Active) = Cardinality(Answered)
  BY <1>2, <1>3, <1>4, <1>5
<1>7. QED
  BY <1>3, <1>5, <1>6

\* What refresh owes is held by recorders, all of which the bump calls upon.
LEMMA BumpKeepsCalm ==
    ASSUME TypeOK, CalmParts, BumpPhase
    PROVE  CalmParts'
<1> USE DEF shared, writers, reader, history
<1>1. /\ rpc = "bump" /\ rpc' = "wait" /\ phase' = phase + 1 /\ phased' = 0 /\ phase \in Nat
      /\ UNCHANGED <<recorders, chan, pc, local, lastPhase, seen, counted, merged, removed, owed>>
  BY DEF BumpPhase, TypeOK
<1>2. chan = <<>> /\ \A q \in Active : lastPhase[q] = phase /\ pc[q] # "send"
  BY <1>1 DEF CalmParts, QuietOutside
<1>3. Answered' = {} /\ Active' = Active
  BY <1>1, <1>2 DEF Answered, Active
<1>4. OneAnswerEach'
  <2>1. Cardinality(Answered') = phased' + Len(chan')
    BY <1>1, <1>2, <1>3, FS_EmptySet
  <2>2. \A q \in Recorders : pc'[q] # "send"
    BY <1>1, <1>2 DEF Active, ActiveStates
  <2>3. QED
    BY <2>1, <2>2 DEF OneAnswerEach
<1>5. OwedHeld'
  BY <1>1, <1>2, <1>3 DEF CalmParts, OwedHeld, Arrived, Active
<1>6. OnlyWriters' /\ CountStands' /\ QuietOutside'
  BY <1>1 DEF CalmParts, OnlyWriters, CountStands, QuietOutside
<1>7. QED
  BY <1>4, <1>5, <1>6 DEF CalmParts

\* A histogram received moves from the channel into the count.
LEMMA RecvKeepsCalm ==
    ASSUME TypeOK, CalmParts, Recv
    PROVE  CalmParts'
<1> USE DEF shared, writers, reader, history
<1>1. /\ rpc = "wait" /\ chan # <<>> /\ MergeHead /\ phased' = phased + 1
      /\ UNCHANGED <<recorders, phase, pc, local, lastPhase, seen, rpc, counted, removed, owed>>
  BY DEF Recv
<1>2. Len(chan') = Len(chan) - 1 /\ Len(chan) \in Nat /\ phased \in Nat
  BY <1>1 DEF TypeOK, MergeHead
<1>3. Answered' = Answered /\ Active' = Active
  BY <1>1 DEF Answered, Active
<1>4. OneAnswerEach'
  BY <1>1, <1>2, <1>3 DEF CalmParts, OneAnswerEach
<1>5. Arrived \subseteq Arrived'
  BY <1>1, MergeArrives
<1>6. OwedHeld'
  BY <1>1, <1>3, <1>5 DEF CalmParts, OwedHeld
<1>7. OnlyWriters' /\ CountStands' /\ QuietOutside'
  BY <1>1 DEF CalmParts, OnlyWriters, CountStands, QuietOutside
<1>8. QED
  BY <1>4, <1>6, <1>7 DEF CalmParts

\* The wait ends when everything owed has been merged.
LEMMA AllPhasedKeepsCalm ==
    ASSUME TypeOK, RecordersCounted, CalmParts, AllPhased
    PROVE  CalmParts'
<1> USE DEF shared, writers, reader, history
<1>1. /\ rpc = "wait" /\ rpc' = "final" /\ phased >= counted
      /\ UNCHANGED <<recorders, phase, chan, pc, local, lastPhase, seen, counted, merged, removed,
                     owed>>
  BY DEF AllPhased
<1>2. chan = <<>> /\ Answered = Active
  BY <1>1, AllAnswered
<1>3. QuietOutside'
  BY <1>1, <1>2 DEF QuietOutside, CalmParts, OneAnswerEach, Active, Answered
<1>4. InChan = {}
  BY <1>2 DEF InChan
<1>5. owed \subseteq merged \cup removed
  BY <1>1, <1>2, <1>4 DEF CalmParts, OwedHeld, Arrived, Active, Answered
<1>6. OwedHeld'
  BY <1>1, <1>5 DEF OwedHeld
<1>7. OnlyWriters' /\ CountStands' /\ OneAnswerEach'
  BY <1>1 DEF CalmParts, OnlyWriters, CountStands, OneAnswerEach
<1>8. QED
  BY <1>3, <1>6, <1>7 DEF CalmParts

\* The reader's other steps.
LEMMA ReaderKeepsCalm ==
    ASSUME TypeOK, CalmParts,
           (\E t \in BOOLEAN : Refresh(t)) \/ TryRecvSome \/ TryRecvNone \/ ReadRecorders
             \/ Reset \/ Close
    PROVE  CalmParts'
<1> USE DEF shared, writers, reader, history, CalmParts, OnlyWriters, CountStands, QuietOutside,
            OneAnswerEach, Active
<1>1. ASSUME NEW t \in BOOLEAN, Refresh(t) PROVE CalmParts'
  <2>1. chan = <<>>
    BY <1>1 DEF Refresh
  <2>2. \A s \in owed' : \E q \in Recorders : s \in local[q]
    BY <1>1, <2>1 DEF Refresh, Pending, InLocals, InChan
  <2>3. OwedHeld'
    BY <1>1, <2>2 DEF Refresh, OwedHeld
  <2>4. QED
    BY <1>1, <2>3 DEF Refresh
<1>2. CASE TryRecvSome
  BY <1>2 DEF TryRecvSome
<1>3. CASE TryRecvNone
  BY <1>3 DEF TryRecvNone, OwedHeld
<1>4. CASE ReadRecorders
  BY <1>4 DEF ReadRecorders, OwedHeld
<1>5. CASE Reset
  BY <1>5 DEF Reset, OwedHeld
<1>6. CASE Close
  BY <1>6 DEF Close, OwedHeld
<1>7. QED
  BY <1>1, <1>2, <1>3, <1>4, <1>5, <1>6

\* The invariant of the refinement is inductive.
LEMMA CalmInductive ==
    ASSUME TypeOK, RecordersCounted, CalmInv, [Next]_vars
    PROVE  CalmInv'
<1>1. ASSUME NEW r \in Recorders, ClientNext(r) \/ WriterNext(r) PROVE CalmInv'
  BY <1>1, WritersKeepCalm
<1>2. CASE TimeOut
  BY <1>2 DEF TimeOut, CalmInv
<1>3. CASE (\E t \in BOOLEAN : Refresh(t)) \/ RefreshNext \/ Reset \/ Close
  <2>1. SUFFICES ASSUME calm' PROVE CalmParts'
    BY DEF CalmInv
  <2>2. calm
    BY <1>3, <2>1, Zenon DEF Refresh, RefreshNext, TryRecvSome, TryRecvNone, ReadRecorders,
       BumpPhase, Recv, AllPhased, Reset, Close, history
  <2>3. CalmParts
    BY <2>2 DEF CalmInv
  <2>4. QED
    BY <1>3, <2>3, ReaderKeepsCalm, BumpKeepsCalm, RecvKeepsCalm, AllPhasedKeepsCalm
    DEF RefreshNext
<1>4. CASE UNCHANGED vars
  BY <1>4 DEF vars, shared, writers, reader, history, CalmInv, CalmParts, OnlyWriters, CountStands,
     QuietOutside, OneAnswerEach, OwedHeld, Active, Answered, Arrived, InChan
<1>5. QED
  BY <1>1, <1>2, <1>3, <1>4 DEF Next

\* The invariant of the refinement.
LEMMA CalmInvHolds == Spec => []CalmInv
<1>1. Init => CalmInv
  BY DEF Init, CalmInv, CalmParts, OnlyWriters, CountStands, QuietOutside, OneAnswerEach, OwedHeld,
     Active, ActiveStates
<1>2. TypeOK /\ RecordersCounted /\ CalmInv /\ [Next]_vars => CalmInv'
  BY CalmInductive
<1>3. QED
  BY <1>1, <1>2, TypeCorrect, RecordersCountedCorrect, PTL DEF Spec

-----------------------------------------------------------------------------
(***************************************************************************)
(* Every step is a step of SampleVisibility, or none                       *)
(***************************************************************************)
\* The value that the mapping gives to mode.
Mode == CASE rpc = "idle" -> "open"
          [] rpc = "gone" -> "closed"
          [] OTHER -> "refreshing"

\* A send moves samples that are pending, or loses them with the reader.
LEMMA SendPending ==
    ASSUME TypeOK, Apart, NEW r \in Recorders, SendLocal(r)
    PROVE  IF rpc = "gone"
             THEN Pending' = Pending \ local[r] /\ removed' = removed \cup local[r]
             ELSE Pending' = Pending /\ removed' = removed
<1>1. /\ local \in [Recorders -> SUBSET Samples]
      /\ chan \in Seq(SUBSET Samples) /\ Len(chan) \in Nat
  BY DEF TypeOK
<1>2. local'[r] = {} /\ \A q \in Recorders : q # r => local'[q] = local[q]
  BY <1>1 DEF SendLocal
<1>3. CASE rpc = "gone"
  <2>1. chan' = chan /\ removed' = removed \cup local[r]
    BY <1>3 DEF SendLocal
  <2>2. InChan' = InChan /\ InChan \cap local[r] = {}
    BY <2>1 DEF InChan, Apart, LocalsFromChan, Indices
  <2>3. InLocals' = InLocals \ local[r]
    BY <1>2 DEF InLocals, Apart, LocalsApart
  <2>4. QED
    BY <1>3, <2>1, <2>2, <2>3 DEF Pending
<1>4. CASE rpc # "gone"
  <2>1. chan' = Append(chan, local[r]) /\ removed' = removed
    BY <1>4 DEF SendLocal
  <2>2. /\ 1..Len(chan') = (1..Len(chan)) \cup {Len(chan) + 1}
        /\ chan'[Len(chan) + 1] = local[r]
        /\ \A i \in 1..Len(chan) : chan'[i] = chan[i]
    BY <1>1, <2>1
  <2>3. InChan' = InChan \cup local[r]
    BY <2>2 DEF InChan
  <2>4. InLocals = InLocals' \cup local[r]
    BY <1>2 DEF InLocals
  <2>5. QED
    BY <1>4, <2>1, <2>3, <2>4 DEF Pending
<1>5. QED
  BY <1>3, <1>4

\* A merge makes pending samples visible.
LEMMA MergePending ==
    ASSUME TypeOK, Apart, chan # <<>>, MergeHead, local' = local
    PROVE  /\ Head(chan) \in SUBSET Samples /\ Head(chan) \subseteq Pending
           /\ Pending' = Pending \ Head(chan)
<1>1. chan \in Seq(SUBSET Samples) /\ Len(chan) \in Nat \ {0}
  BY DEF TypeOK
<1>2. /\ Head(chan) = chan[1] /\ 1 \in 1..Len(chan)
      /\ \A i \in 1..Len(chan') : i + 1 \in 1..Len(chan) /\ chan'[i] = chan[i + 1]
      /\ \A i \in 1..Len(chan) : i # 1 => i - 1 \in 1..Len(chan') /\ chan'[i - 1] = chan[i]
  BY <1>1 DEF MergeHead
<1>3. chan[1] \in SUBSET Samples
  BY <1>1, <1>2
<1>4. InChan' \subseteq InChan
  BY <1>2 DEF InChan
<1>5. InChan' \cap chan[1] = {}
  <2>1. \A i \in 1..Len(chan') : chan'[i] \cap chan[1] = {}
    BY <1>1, <1>2 DEF Apart, ChanApart, Indices
  <2>2. QED
    BY <2>1 DEF InChan
<1>6. InChan \subseteq InChan' \cup chan[1]
  BY <1>2 DEF InChan
<1>7. InLocals' = InLocals /\ InLocals \cap chan[1] = {}
  BY <1>2 DEF InLocals, Apart, LocalsFromChan, Indices
<1>8. chan[1] \subseteq InChan
  BY <1>2 DEF InChan
<1>9. QED
  BY <1>2, <1>3, <1>4, <1>5, <1>6, <1>7, <1>8 DEF Pending

\* A step that changes no sample's place, nor the history, is no step.
LEMMA Stutters ==
    ASSUME UNCHANGED <<Pending, merged, removed, owed, calm>>, Mode' = Mode
    PROVE  UNCHANGED Visibility!vars
BY DEF Visibility!vars, Mode

\* A recorder that is cloned, dropped or idled ends the promise.
LEMMA Waives ==
    ASSUME UNCHANGED <<Pending, merged, removed, Mode>>, calm' = FALSE
    PROVE  Visibility!Waive
BY DEF Visibility!Waive, Mode

\* Every step of a recorder is a step of SampleVisibility or a stutter.
LEMMA WritersRefine ==
    ASSUME TypeOK, Apart, NEW r \in Recorders, ClientNext(r) \/ WriterNext(r)
    PROVE  [Visibility!Next]_(Visibility!vars)
<1> USE DEF shared, reader, history
<1>1. Mode' = Mode
  BY DEF ClientNext, WriterNext, NewRecorder, Clone, Record, Subtract, DropLeave, Deactivate,
     Reactivate, LoadPhase, Update, DropSend, DeactivateLoad, DeactivateSend, ReactivateLoad, Mode
<1>2. ASSUME local' = local, chan' = chan PROVE Pending' = Pending
  BY <1>2 DEF Pending, InLocals, InChan
<1>3. CASE NewRecorder(r) \/ Reactivate(r) \/ LoadPhase(r) \/ DeactivateLoad(r) \/ ReactivateLoad(r)
  BY <1>1, <1>2, <1>3, Stutters DEF NewRecorder, Reactivate, LoadPhase, DeactivateLoad,
     ReactivateLoad
<1>4. CASE (\E new \in Recorders : Clone(r, new)) \/ DropLeave(r) \/ Deactivate(r)
  <2>1. Visibility!Waive
    BY <1>1, <1>2, <1>4, Waives DEF Clone, DropLeave, Deactivate
  <2>2. QED
    BY <2>1 DEF Visibility!Next
<1>5. ASSUME NEW S \in SUBSET Samples, Record(r, S)
      PROVE  [Visibility!Next]_(Visibility!vars)
  <2>1. Pending' = Pending \cup S
    <3>1. /\ chan' = chan /\ local'[r] = local[r] \cup S
          /\ \A q \in Recorders : q # r => local'[q] = local[q]
      BY <1>5 DEF Record, TypeOK
    <3>2. InLocals' = InLocals \cup S
      BY <3>1 DEF InLocals
    <3>3. QED
      BY <3>1, <3>2 DEF Pending, InChan
  <2>2. UNCHANGED <<merged, removed, owed, calm>> /\ S \cap (Pending \cup merged \cup removed) = {}
    BY <1>5 DEF Record, Known
  <2>3. Visibility!Record(S)
    BY <1>1, <2>1, <2>2 DEF Visibility!Record, Mode
  <2>4. QED
    BY <2>3 DEF Visibility!Next
<1>6. ASSUME NEW S \in SUBSET Samples, Subtract(r, S)
      PROVE  [Visibility!Next]_(Visibility!vars)
  <2>1. /\ chan' = chan /\ local'[r] = local[r] \ S /\ S \subseteq local[r]
        /\ \A q \in Recorders : q # r => local'[q] = local[q]
        /\ removed' = removed \cup S /\ UNCHANGED <<merged, owed, calm>>
    BY <1>6 DEF Subtract, TypeOK
  <2>2. InLocals' = InLocals \ S
    BY <2>1 DEF InLocals, Apart, LocalsApart
  <2>3. InChan' = InChan /\ InChan \cap S = {}
    BY <2>1 DEF InChan, Apart, LocalsFromChan, Indices
  <2>4. S \subseteq Pending /\ Pending' = Pending \ S
    BY <2>1, <2>2, <2>3 DEF Pending, InLocals
  <2>5. Visibility!Subtract(S)
    BY <1>1, <2>1, <2>4 DEF Visibility!Subtract, Mode
  <2>6. QED
    BY <2>5 DEF Visibility!Next
<1>7. CASE Update(r) \/ DropSend(r) \/ DeactivateSend(r)
  <2>1. SendLocal(r) /\ UNCHANGED <<merged, owed, calm>>
    BY <1>7 DEF Update, DropSend, DeactivateSend
  <2>2. CASE rpc = "gone"
    <3>1. /\ Pending' = Pending \ local[r] /\ removed' = removed \cup local[r]
          /\ local[r] \subseteq Pending /\ local[r] \in SUBSET Samples
      BY <2>1, <2>2, SendPending DEF Pending, InLocals, TypeOK
    <3>2. Visibility!Subtract(local[r])
      BY <1>1, <2>1, <3>1 DEF Visibility!Subtract, Mode
    <3>3. QED
      BY <3>1, <3>2 DEF Visibility!Next
  <2>3. CASE rpc # "gone"
    <3>1. Pending' = Pending /\ removed' = removed
      BY <2>1, <2>3, SendPending
    <3>2. QED
      BY <1>1, <2>1, <3>1, Stutters
  <2>4. QED
    BY <2>2, <2>3
<1>8. QED
  BY <1>3, <1>4, <1>5, <1>6, <1>7 DEF ClientNext, WriterNext

\* Every step of the reader is a step of SampleVisibility or a stutter.
LEMMA ReaderRefines ==
    ASSUME TypeOK, Apart, CalmInv,
           (\E t \in BOOLEAN : Refresh(t)) \/ RefreshNext \/ TimeOut \/ Reset \/ Close
    PROVE  [Visibility!Next]_(Visibility!vars)
<1> USE DEF shared, writers, reader, history
<1>1. ASSUME local' = local, chan' = chan PROVE Pending' = Pending
  BY <1>1 DEF Pending, InLocals, InChan
<1>2. ASSUME NEW t \in BOOLEAN, Refresh(t) PROVE [Visibility!Next]_(Visibility!vars)
  <2>1. /\ rpc = "idle" /\ rpc' = "drain" /\ owed' = Pending /\ Pending' = Pending
        /\ UNCHANGED <<merged, removed, calm>>
    BY <1>1, <1>2 DEF Refresh
  <2>2. Visibility!Begin
    BY <2>1 DEF Visibility!Begin
  <2>3. QED
    BY <2>2 DEF Visibility!Next
<1>3. CASE TryRecvSome \/ Recv
  <2>1. /\ rpc \in {"drain", "wait", "final"} /\ chan # <<>> /\ MergeHead
        /\ UNCHANGED <<rpc, local, removed, owed, calm>>
    BY <1>3 DEF TryRecvSome, Recv
  <2>2. /\ Head(chan) \in SUBSET Samples /\ Head(chan) \subseteq Pending
        /\ Pending' = Pending \ Head(chan) /\ merged' = merged \cup Head(chan)
    BY <2>1, MergePending DEF MergeHead
  <2>3. Visibility!Publish(Head(chan))
    BY <2>1, <2>2 DEF Visibility!Publish
  <2>4. QED
    BY <2>2, <2>3 DEF Visibility!Next
<1>4. CASE TryRecvNone
  <2>1. Pending' = Pending /\ UNCHANGED <<merged, removed, owed, calm>>
    BY <1>1, <1>4 DEF TryRecvNone
  <2>2. CASE rpc = "drain"
    BY <1>4, <2>1, <2>2, Stutters DEF TryRecvNone, Mode
  <2>3. CASE rpc = "final"
    <3>1. calm => owed \subseteq merged \cup removed
      BY <2>3 DEF CalmInv, CalmParts, OwedHeld
    <3>2. rpc' = "idle"
      BY <1>4, <2>3 DEF TryRecvNone
    <3>3. Visibility!Return
      BY <2>1, <2>3, <3>1, <3>2 DEF Visibility!Return
    <3>4. QED
      BY <3>3 DEF Visibility!Next
  <2>4. QED
    BY <1>4, <2>2, <2>3 DEF TryRecvNone
<1>5. CASE ReadRecorders \/ BumpPhase \/ AllPhased
  <2>1. Pending' = Pending /\ UNCHANGED <<merged, removed, owed, calm>>
    BY <1>1, <1>5 DEF ReadRecorders, BumpPhase, AllPhased
  <2>2. Mode' = Mode
    BY <1>5 DEF ReadRecorders, BumpPhase, AllPhased, Mode
  <2>3. QED
    BY <2>1, <2>2, Stutters
<1>6. CASE TimeOut
  <2>1. UNCHANGED <<Pending, merged, removed, Mode>> /\ calm' = FALSE
    BY <1>1, <1>6 DEF TimeOut, Mode
  <2>2. QED
    BY <2>1, Waives DEF Visibility!Next
<1>7. CASE Reset
  <2>1. /\ rpc = "idle" /\ Pending' = Pending /\ merged' = {} /\ removed' = removed \cup merged
        /\ UNCHANGED <<rpc, owed, calm>>
    BY <1>1, <1>7 DEF Reset
  <2>2. Visibility!Reset
    BY <2>1 DEF Visibility!Reset
  <2>3. QED
    BY <2>2 DEF Visibility!Next
<1>8. CASE Close
  <2>1. /\ rpc = "idle" /\ rpc' = "gone" /\ merged' = {} /\ chan' = <<>> /\ local' = local
        /\ removed' = removed \cup merged \cup InChan /\ UNCHANGED <<owed, calm>>
    BY <1>8 DEF Close
  <2>2. Pending' = Pending \ InChan
    <3>1. InChan' = {} /\ InLocals' = InLocals
      BY <2>1 DEF InChan, InLocals
    <3>2. InLocals \cap InChan = {}
      BY ApartIsConserved DEF SamplesConserved
    <3>3. QED
      BY <3>1, <3>2 DEF Pending
  <2>3. InChan \subseteq Pending /\ InChan \in SUBSET Samples
    BY PendingType DEF Pending
  <2>4. Visibility!Close(InChan)
    BY <2>1, <2>2, <2>3 DEF Visibility!Close
  <2>5. QED
    BY <2>3, <2>4 DEF Visibility!Next
<1>9. QED
  BY <1>2, <1>3, <1>4, <1>5, <1>6, <1>7, <1>8 DEF RefreshNext

\* A SyncHistogram implements SampleVisibility: samples become visible in a
\* refresh only, none appears from nowhere or disappears, and as long as
\* recorders are only created and written to, refresh does not return before
\* everything that was recorded when it was called is visible.
THEOREM VisibilityCorrect == Spec => VisibilitySpec
<1>1. Init => Visibility!Init
  <2>1. Init => Pending = {}
    BY DEF Init, Pending, InLocals, InChan
  <2>2. QED
    BY <2>1 DEF Init, Visibility!Init
<1>2. TypeOK /\ SamplesConserved /\ CalmInv /\ [Next]_vars => [Visibility!Next]_(Visibility!vars)
  <2>1. SUFFICES ASSUME TypeOK, Apart, CalmInv, [Next]_vars
                 PROVE  [Visibility!Next]_(Visibility!vars)
    BY ApartIsConserved
  <2>2. CASE Next
    BY <2>1, <2>2, WritersRefine, ReaderRefines DEF Next
  <2>3. CASE UNCHANGED vars
    BY <2>3, Stutters DEF vars, shared, writers, reader, history, Mode, Pending, InLocals, InChan
  <2>4. QED
    BY <2>1, <2>2, <2>3
<1>3. QED
  BY <1>1, <1>2, TypeCorrect, SamplesConservedCorrect, CalmInvHolds, PTL
  DEF Spec, VisibilitySpec, Visibility!Spec
=============================================================================
