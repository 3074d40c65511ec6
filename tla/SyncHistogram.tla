---------------------------- MODULE SyncHistogram ----------------------------
(***************************************************************************)
(* The multi-threaded histogram of HdrHistogram_rust/src/sync/mod.rs: a    *)
(* reader (SyncHistogram) and any number of writers (Recorder, IdleRecorder*)
(* ) that share a mutex around the number of recorders, an atomic phase    *)
(* counter and an unbounded channel of histograms.                         *)
(*                                                                         *)
(* A histogram is the set of the samples recorded into it.  Every access   *)
(* to shared state is a step of its own, so that a thread may be suspended *)
(* between a load and the send that depends on it, or inside a critical    *)
(* section; work on thread-local state is folded into the step before it.  *)
(***************************************************************************)
EXTENDS Integers, Sequences, FiniteSets

CONSTANTS Recorders,  \* identities for Recorder values, each used once
          Samples,    \* identities for samples, each recorded once
          Uses,       \* the optional parts of the API that the client calls
          MaxPhase,   \* bound: number of refreshes
          Free        \* the mutex has no owner

ASSUME ConstantsAssumption ==
    /\ IsFiniteSet(Recorders)
    /\ Free \notin Recorders
    /\ Uses \subseteq {"clone", "drop", "idle", "timeout", "close"}
    /\ MaxPhase \in Nat

VARIABLES
    lock,       \* Shared.truth: owner of the mutex
    recorders,  \* Critical.recorders
    phase,      \* Shared.phase
    chan,       \* the crossbeam channel
    pc,         \* where each Recorder's thread stands
    local,      \* Recorder.local
    lastPhase,  \* Recorder.last_phase
    seen,       \* the `phase` a thread loaded and has not stored yet
    rpc,        \* where the reader stands
    merged,     \* SyncHistogram.merged
    deadline,   \* refresh_inner: timeout.is_some()
    counted,    \* refresh_inner: the local `recorders`
    phased,     \* refresh_inner: the local `phased`
    removed,    \* history: samples subtracted, reset, or sent to nobody
    owed,       \* history: samples not visible when refresh was called
    left,       \* history: samples held by recorders that began their drop
    leftOwed,   \* history: `left` when refresh read `recorders`
    calm        \* history: no clone, drop, idle or timeout so far

shared  == <<lock, recorders, phase, chan>>
writers == <<pc, local, lastPhase, seen>>
reader  == <<rpc, deadline, counted, phased>>
history == <<owed, left, leftOwed, calm>>
vars == <<shared, writers, reader, merged, removed, history>>

\* The Recorders the code counts in Critical.recorders.
ActiveStates == {"ready", "load", "send"}
RecorderStates == ActiveStates \cup
    {"none", "dropSend", "dropped", "deactLoad", "deactSend", "idle",
     "reactLoad"}
ReaderStates == {"idle", "drain", "count", "bump", "wait", "final", "gone"}

\* reactivate increments before it loads the phase, both under the lock.
Counted(r) == pc[r] \in ActiveStates \cup {"reactLoad"}

InLocals == UNION {local[r] : r \in Recorders}
InChan == UNION {chan[i] : i \in 1..Len(chan)}
Pending == InLocals \cup InChan
Known == Pending \cup merged \cup removed

\* Type invariant: the mutex has at most one owner, the phases stay within the
\* bound and the channel carries histograms.
TypeOK ==
    /\ lock \in Recorders \cup {Free}
    /\ recorders \in Int /\ phase \in 0..MaxPhase
    /\ chan \in Seq(SUBSET Samples)
    /\ pc \in [Recorders -> RecorderStates]
    /\ local \in [Recorders -> SUBSET Samples]
    /\ lastPhase \in [Recorders -> 0..MaxPhase]
    /\ seen \in [Recorders -> 0..MaxPhase]
    /\ rpc \in ReaderStates /\ deadline \in BOOLEAN
    /\ counted \in Int /\ phased \in Nat
    /\ merged \in SUBSET Samples /\ removed \in SUBSET Samples
    /\ owed \in SUBSET Samples
    /\ left \in SUBSET Samples /\ leftOwed \in SUBSET Samples
    /\ calm \in BOOLEAN

\* From<Histogram> for SyncHistogram, of an empty histogram.
Init ==
    /\ lock = Free /\ recorders = 0 /\ phase = 0 /\ chan = <<>>
    /\ pc = [r \in Recorders |-> "none"]
    /\ local = [r \in Recorders |-> {}]
    /\ lastPhase = [r \in Recorders |-> 0]
    /\ seen = [r \in Recorders |-> 0]
    /\ rpc = "idle" /\ deadline = FALSE /\ counted = 0 /\ phased = 0
    /\ merged = {} /\ removed = {}
    /\ owed = {} /\ left = {} /\ leftOwed = {} /\ calm = TRUE

-----------------------------------------------------------------------------
(***************************************************************************)
(* Writers                                                                 *)
(***************************************************************************)
Goto(r, s) == pc' = [pc EXCEPT ![r] = s]

\* Mutant of SendLocal: the local histogram is sent but not replaced.
SendLocalKeeps(r) ==
    /\ chan' = IF rpc = "gone" THEN chan ELSE Append(chan, local[r])
    /\ UNCHANGED <<local, removed>>

\* sender.send(h), where h replaces r's local histogram by an empty one.
\* When the reader went away the histogram is lost.
SendLocal(r) ==
    /\ local' = [local EXCEPT ![r] = {}]
    /\ IF rpc = "gone"
         THEN /\ removed' = removed \cup local[r]
              /\ UNCHANGED chan
         ELSE /\ chan' = Append(chan, local[r])
              /\ UNCHANGED removed

\* SyncHistogram::recorder takes &self, refresh &mut self: never together.
NewRecorder(r) ==
    /\ rpc = "idle" /\ pc[r] = "none" /\ lock = Free
    /\ recorders' = recorders + 1
    /\ lastPhase' = [lastPhase EXCEPT ![r] = phase]
    /\ Goto(r, "ready")
    /\ UNCHANGED <<lock, phase, chan, local, seen, reader, merged, removed,
                   history>>

\* Mutant of Clone: the reader is not told of the new recorder.
CloneUncounted(r, new) ==
    /\ "clone" \in Uses
    /\ pc[r] \in {"ready", "idle"} /\ pc[new] = "none"
    /\ lastPhase' = [lastPhase EXCEPT ![new] = lastPhase[r]]
    /\ Goto(new, "ready")
    /\ calm' = FALSE
    /\ UNCHANGED <<shared, local, seen, reader, merged, removed, owed, left,
                   leftOwed>>

\* Recorder::clone and IdleRecorder::recorder.
Clone(r, new) ==
    /\ "clone" \in Uses
    /\ pc[r] \in {"ready", "idle"} /\ pc[new] = "none" /\ lock = Free
    /\ recorders' = recorders + 1
    /\ lastPhase' = [lastPhase EXCEPT ![new] = lastPhase[r]]
    /\ Goto(new, "ready")
    /\ calm' = FALSE
    /\ UNCHANGED <<lock, phase, chan, local, seen, reader, merged, removed,
                   owed, left, leftOwed>>

\* with_hist, the closure: record and the other recording methods, which
\* leave no new sample when they fail.
Record(r, S) ==
    /\ pc[r] = "ready" /\ S \cap Known = {}
    /\ local' = [local EXCEPT ![r] = @ \cup S]
    /\ Goto(r, "load")
    /\ UNCHANGED <<shared, lastPhase, seen, reader, merged, removed, history>>

\* with_hist, the closure: subtract.
Subtract(r, S) ==
    /\ pc[r] = "ready" /\ S \subseteq local[r]
    /\ local' = [local EXCEPT ![r] = @ \ S]
    /\ removed' = removed \cup S
    /\ Goto(r, "load")
    /\ UNCHANGED <<shared, lastPhase, seen, reader, merged, history>>

\* Mutant of LoadPhase: the phase is read under the mutex.
LoadPhaseLocked(r) ==
    /\ pc[r] = "load" /\ lock = Free
    /\ IF phase # lastPhase[r]
         THEN /\ seen' = [seen EXCEPT ![r] = phase]
              /\ Goto(r, "send")
         ELSE /\ Goto(r, "ready")
              /\ UNCHANGED seen
    /\ UNCHANGED <<shared, local, lastPhase, reader, merged, removed, history>>

\* with_hist: phase.load and the comparison with last_phase.
LoadPhase(r) ==
    /\ pc[r] = "load"
    /\ IF phase # lastPhase[r]
         THEN /\ seen' = [seen EXCEPT ![r] = phase]
              /\ Goto(r, "send")
         ELSE /\ Goto(r, "ready")
              /\ UNCHANGED seen
    /\ UNCHANGED <<shared, local, lastPhase, reader, merged, removed, history>>

\* with_hist: self.update(); self.last_phase = phase.
Update(r) ==
    /\ pc[r] = "send"
    /\ SendLocal(r)
    /\ lastPhase' = [lastPhase EXCEPT ![r] = seen[r]]
    /\ Goto(r, "ready")
    /\ UNCHANGED <<lock, recorders, phase, seen, reader, merged, history>>

\* Mutant of DropLeave: the guard is dropped before the send.
DropLeaveUnlocked(r) ==
    /\ "drop" \in Uses
    /\ pc[r] = "ready" /\ lock = Free
    /\ recorders' = recorders - 1
    /\ left' = left \cup local[r]
    /\ calm' = FALSE
    /\ Goto(r, "dropSend")
    /\ UNCHANGED <<lock, phase, chan, local, lastPhase, seen, reader, merged,
                   removed, owed, leftOwed>>

\* Drop for Recorder: lock, decrement ...
DropLeave(r) ==
    /\ "drop" \in Uses
    /\ pc[r] = "ready" /\ lock = Free
    /\ lock' = r
    /\ recorders' = recorders - 1
    /\ left' = left \cup local[r]
    /\ calm' = FALSE
    /\ Goto(r, "dropSend")
    /\ UNCHANGED <<phase, chan, local, lastPhase, seen, reader, merged,
                   removed, owed, leftOwed>>

\* Mutant of DropSend: a recorder with nothing to report sends nothing.
DropSendIfAny(r) ==
    /\ pc[r] = "dropSend"
    /\ IF local[r] = {} THEN UNCHANGED <<local, chan, removed>> ELSE SendLocal(r)
    /\ lock' = Free
    /\ Goto(r, "dropped")
    /\ UNCHANGED <<recorders, phase, lastPhase, seen, reader, merged, history>>

\* ... send what is left, unlock.
DropSend(r) ==
    /\ pc[r] = "dropSend"
    /\ SendLocal(r)
    /\ lock' = Free
    /\ Goto(r, "dropped")
    /\ UNCHANGED <<recorders, phase, lastPhase, seen, reader, merged, history>>

\* deactivate (idle, into_idle): lock, decrement ...
Deactivate(r) ==
    /\ "idle" \in Uses
    /\ pc[r] = "ready" /\ lock = Free
    /\ lock' = r
    /\ recorders' = recorders - 1
    /\ Goto(r, "deactLoad")
    /\ calm' = FALSE
    /\ UNCHANGED <<phase, chan, local, lastPhase, seen, reader, merged,
                   removed, owed, left, leftOwed>>

\* ... load the phase, unlock at once if it is ours ...
DeactivateLoad(r) ==
    /\ pc[r] = "deactLoad"
    /\ IF phase # lastPhase[r]
         THEN /\ seen' = [seen EXCEPT ![r] = phase]
              /\ Goto(r, "deactSend")
              /\ UNCHANGED lock
         ELSE /\ lock' = Free
              /\ Goto(r, "idle")
              /\ UNCHANGED seen
    /\ UNCHANGED <<recorders, phase, chan, local, lastPhase, reader, merged,
                   removed, history>>

\* ... otherwise send first.
DeactivateSend(r) ==
    /\ pc[r] = "deactSend"
    /\ SendLocal(r)
    /\ lock' = Free
    /\ lastPhase' = [lastPhase EXCEPT ![r] = seen[r]]
    /\ Goto(r, "idle")
    /\ UNCHANGED <<recorders, phase, seen, reader, merged, history>>

\* reactivate (activate, or the guard's drop): lock, increment ...
Reactivate(r) ==
    /\ pc[r] = "idle" /\ lock = Free
    /\ lock' = r
    /\ recorders' = recorders + 1
    /\ Goto(r, "reactLoad")
    /\ UNCHANGED <<phase, chan, local, lastPhase, seen, reader, merged,
                   removed, history>>

\* ... adopt the current phase, unlock.
ReactivateLoad(r) ==
    /\ pc[r] = "reactLoad"
    /\ lastPhase' = [lastPhase EXCEPT ![r] = phase]
    /\ lock' = Free
    /\ Goto(r, "ready")
    /\ UNCHANGED <<recorders, phase, chan, local, seen, reader, merged,
                   removed, history>>

-----------------------------------------------------------------------------
(***************************************************************************)
(* The reader                                                              *)
(***************************************************************************)
MergeHead ==
    /\ merged' = merged \cup Head(chan)
    /\ chan' = Tail(chan)

\* refresh (t = FALSE) and refresh_timeout (t = TRUE) enter refresh_inner.
Refresh(t) ==
    /\ rpc = "idle" /\ phase < MaxPhase
    /\ t => "timeout" \in Uses
    /\ rpc' = "drain"
    /\ deadline' = t
    /\ owed' = Pending
    /\ UNCHANGED <<shared, writers, counted, phased, merged, removed, left,
                   leftOwed, calm>>

\* The two `while let Ok(h) = try_recv()` loops, one turn ...
TryRecvSome ==
    /\ rpc \in {"drain", "final"} /\ chan # <<>>
    /\ MergeHead
    /\ UNCHANGED <<lock, recorders, phase, writers, reader, removed, history>>

\* ... and their exit; refresh returns from the second.
TryRecvNone ==
    /\ rpc \in {"drain", "final"} /\ chan = <<>>
    /\ rpc' = IF rpc = "drain" THEN "count" ELSE "idle"
    /\ UNCHANGED <<shared, writers, deadline, counted, phased, merged,
                   removed, history>>

\* truth.lock().unwrap().recorders: the guard is a temporary, and the mutex
\* is free again when the statement ends.
ReadRecorders ==
    /\ rpc = "count" /\ lock = Free
    /\ counted' = recorders
    /\ rpc' = "bump"
    /\ leftOwed' = left
    /\ UNCHANGED <<shared, writers, deadline, phased, merged, removed, owed,
                   left, calm>>

BumpPhase ==
    /\ rpc = "bump"
    /\ phase' = phase + 1
    /\ phased' = 0
    /\ rpc' = "wait"
    /\ UNCHANGED <<lock, recorders, chan, writers, deadline, counted, merged,
                   removed, history>>

\* Mutant of Recv: `phased` counts down.
RecvCountsDown ==
    /\ rpc = "wait" /\ phased < counted /\ chan # <<>>
    /\ MergeHead
    /\ phased' = phased - 1
    /\ UNCHANGED <<lock, recorders, phase, writers, rpc, deadline, counted,
                   removed, history>>

\* recv and recv_timeout with a histogram in the channel.
Recv ==
    /\ rpc = "wait" /\ phased < counted /\ chan # <<>>
    /\ MergeHead
    /\ phased' = phased + 1
    /\ UNCHANGED <<lock, recorders, phase, writers, rpc, deadline, counted,
                   removed, history>>

\* `now > end`, or recv_timeout gives up.  A refresh that times out owes
\* nothing.
TimeOut ==
    /\ rpc = "wait" /\ phased < counted /\ deadline
    /\ rpc' = "final"
    /\ owed' = {}
    /\ calm' = FALSE
    /\ UNCHANGED <<shared, writers, deadline, counted, phased, merged, removed,
                   left, leftOwed>>

\* Mutants of AllPhased: one histogram short, one too many.
AllPhasedEarly ==
    /\ rpc = "wait" /\ phased + 1 >= counted
    /\ rpc' = "final"
    /\ UNCHANGED <<shared, writers, deadline, counted, phased, merged, removed,
                   history>>
AllPhasedLate ==
    /\ rpc = "wait" /\ phased > counted
    /\ rpc' = "final"
    /\ UNCHANGED <<shared, writers, deadline, counted, phased, merged, removed,
                   history>>

AllPhased ==
    /\ rpc = "wait" /\ phased >= counted
    /\ rpc' = "final"
    /\ UNCHANGED <<shared, writers, deadline, counted, phased, merged, removed,
                   history>>

\* DerefMut hands out the merged histogram; the client resets it.
Reset ==
    /\ rpc = "idle"
    /\ removed' = removed \cup merged
    /\ merged' = {}
    /\ UNCHANGED <<shared, writers, reader, history>>

\* The SyncHistogram and the channel's receiver are dropped.
Close ==
    /\ "close" \in Uses
    /\ rpc = "idle"
    /\ rpc' = "gone"
    /\ removed' = removed \cup merged \cup InChan
    /\ merged' = {} /\ chan' = <<>>
    /\ UNCHANGED <<lock, recorders, phase, writers, deadline, counted, phased,
                   history>>

-----------------------------------------------------------------------------
ClientNext(r) ==
    \/ NewRecorder(r)
    \/ \E new \in Recorders : Clone(r, new)
    \/ \E S \in SUBSET Samples : Record(r, S) \/ Subtract(r, S)
    \/ DropLeave(r) \/ Deactivate(r) \/ Reactivate(r)

\* What a writer still has to do of the call it is in.
WriterNext(r) ==
    \/ LoadPhase(r) \/ Update(r) \/ DropSend(r)
    \/ DeactivateLoad(r) \/ DeactivateSend(r) \/ ReactivateLoad(r)

\* What the reader still has to do of the refresh it is in.
RefreshNext ==
    \/ TryRecvSome \/ TryRecvNone \/ ReadRecorders \/ BumpPhase
    \/ Recv \/ AllPhased

Next ==
    \/ \E r \in Recorders : ClientNext(r) \/ WriterNext(r)
    \/ \E t \in BOOLEAN : Refresh(t)
    \/ RefreshNext \/ TimeOut \/ Reset \/ Close

Spec == Init /\ [][Next]_vars

\* Only a thread that is writing is sure to be scheduled: the reader, and a
\* thread that owns the mutex, may be suspended for ever.
FairSpec ==
    Spec /\ \A r \in Recorders : WF_vars(LoadPhase(r) \/ Update(r))

\* A thread inside a call is scheduled until the call blocks or returns.
ThreadsRun == WF_vars(RefreshNext) /\ \A r \in Recorders : WF_vars(WriterNext(r))

\* Recorders "should call idle" when they stop writing (the doc of Recorder);
\* those that do not are expected to write again.
WritersWrite == \A r \in Recorders : WF_vars(\E S \in SUBSET Samples : Record(r, S))

\* The clock reaches `end`.
ClockRuns == WF_vars(TimeOut)

-----------------------------------------------------------------------------
(***************************************************************************)
(* Properties                                                              *)
(***************************************************************************)

\* Critical.recorders (a usize, decremented without a check) is the number of
\* recorders that joined and did not leave, whatever clones, drops, idles and
\* reactivations interleave; in particular it never goes below zero.
RecordersCounted == recorders = Cardinality({r \in Recorders : Counted(r)})

\* shed, update, drop and refresh_inner move histograms from the writers
\* through the channel into the merged histogram without losing a sample or
\* merging one twice: every sample is in exactly one place.
SamplesConserved ==
    /\ \A r, q \in Recorders : r # q => local[r] \cap local[q] = {}
    /\ \A i, j \in 1..Len(chan) : i # j => chan[i] \cap chan[j] = {}
    /\ InLocals \cap InChan = {}
    /\ Pending \cap merged = {}
    /\ (Pending \cup merged) \cap removed = {}

\* The comment in Drop: "if the reader reads .recorders after we update it
\* above, it is guaranteed to see the samples from this recorder", for every
\* refresh, one that times out included.
DropsVisible == rpc = "idle" => leftOwed \subseteq merged \cup removed

\* Will send a histogram before or with its next write, or as it leaves.
Owes(r) ==
    \/ pc[r] \in {"ready", "load", "deactLoad"} /\ lastPhase[r] # phase
    \/ pc[r] \in {"send", "dropSend", "deactSend"}

\* refresh_inner never waits for a histogram that nobody is going to send:
\* what it still expects is in the channel or owed by a recorder.
ReaderNotStranded ==
    rpc = "wait" =>
        counted <= phased + Len(chan) + Cardinality({r \in Recorders : Owes(r)})

\* The doc of refresh: "Block until writes from all [`Recorder`] instances for
\* this histogram have been incorporated".
RefreshComplete == rpc = "idle" => owed \subseteq merged \cup removed

\* A refresh, with or without a timeout, returns if the threads run and the
\* recorders that joined keep writing or leave, whether or not the clock runs;
\* one with a timeout returns if the clock runs, although nobody ever writes.
RefreshReturns ==
    /\ ThreadsRun /\ WritersWrite => (rpc = "drain" ~> rpc = "idle")
    /\ ThreadsRun /\ ClockRuns => (rpc = "drain" /\ deadline ~> rpc = "idle")

\* The doc of Recorder: "Writes to a `Recorder` are wait-free"; nothing the
\* reader or another recorder does, or stops doing, delays a write.
WriteReturns == \A r \in Recorders : pc[r] = "load" ~> pc[r] # "load" /\ pc[r] # "send"

\* The mapping to SampleVisibility: what was recorded and not merged is
\* pending, and refresh owes nothing once a recorder was cloned, dropped or
\* idled, or a refresh timed out.
Visibility == INSTANCE SampleVisibility WITH
    pending <- Pending, visible <- merged, promised <- calm,
    owed <- IF calm THEN owed ELSE {},
    mode <- CASE rpc = "idle" -> "open"
              [] rpc = "gone" -> "closed"
              [] OTHER -> "refreshing"

\* A SyncHistogram keeps the promise that SampleVisibility states: samples
\* become visible in a refresh only, and as long as the writers only write, a
\* refresh makes visible every sample recorded before it was called.
VisibilitySpec == Visibility!Spec
=============================================================================
