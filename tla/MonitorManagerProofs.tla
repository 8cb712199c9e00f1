------------------------- MODULE MonitorManagerProofs -------------------------
(***************************************************************************)
(* Proofs about MonitorManager for any number of callers, collections,     *)
(* samplers and samples.                                                   *)
(***************************************************************************)
EXTENDS MonitorManager, TLAPS

USE DEF callVars, ctxVars, chanVars, auxVars, sampVars, ownVars, Return, EmitError, Running

-----------------------------------------------------------------------------
(* Types.                                                                  *)

\* Every initial state has the types.
LEMMA InitTypes == Init => TypeOK
<1> SUFFICES ASSUME Init PROVE TypeOK OBVIOUS
<1> USE DEF Init
<1>0. {parentDone, ctxDone, cancelSet, terminated, busy, chansClosed, panicked} \subseteq BOOLEAN
  BY Zenon
<1>1. {seq, sessions} \subseteq Nat /\ {published, slot, seen} \subseteq 0 .. seq
  OBVIOUS
<1>2. lifecycle \in Callers \cup {NoCaller}
  OBVIOUS
<1>3. call \in [Callers -> {"idle", "start", "stop", "starting", "stopping", "waiting"}]
  OBVIOUS
<1>4. /\ result \in [Callers -> {"none", "error", "started", "stopped"}]
      /\ collector \in [Collectors -> {"idle", "launched", "collecting", "reporting"}]
  OBVIOUS
<1>6. sampler \in [Samplers -> {"none", "running", "ended"}] /\ failure \in [Samplers -> BOOLEAN]
  OBVIOUS
<1>5. runPc = "none" /\ flusher = "none" /\ store = "none"
  OBVIOUS
<1> QED
  BY <1>0, <1>1, <1>2, <1>3, <1>4, <1>5, <1>6 DEF TypeOK

\* No step leaves the types.
LEMMA StepTypes == TypeOK /\ [Next]_vars => TypeOK'
<1> SUFFICES ASSUME TypeOK, [Next]_vars PROVE TypeOK' OBVIOUS
<1> USE ManagerAssumption DEF TypeOK
<1>1. CASE UNCHANGED vars
  BY <1>1 DEF vars
<1>2. ASSUME NEW c \in Callers, Call(c) PROVE TypeOK'
  <2>1. CASE CallStart(c)
    <3>1. CASE parentDone
      BY <2>1, <3>1 DEF CallStart
    <3>2. CASE ~parentDone
      BY <2>1, <3>2 DEF CallStart
    <3> QED
      BY <3>1, <3>2
  <2>2. CASE CallStop(c)
    BY <2>2 DEF CallStop
  <2>3. CASE Lock(c)
    <3>1. \/ call' = [call EXCEPT ![c] = "starting"]
          \/ call' = [call EXCEPT ![c] = "stopping"]
      BY <2>3, Zenon DEF Lock
    <3> QED
      BY <2>3, <3>1 DEF Lock
  <2>4. CASE StartFails(c)
    BY <2>4 DEF StartFails
  <2>5. CASE StartSucceeds(c)
    BY <2>5 DEF StartSucceeds
  <2>6. CASE StopIdle(c)
    BY <2>6 DEF StopIdle
  <2>7. CASE StopCancels(c)
    BY <2>7 DEF StopCancels
  <2>8. CASE StopReturns(c)
    BY <2>8 DEF StopReturns
  <2>9. CASE StopTimesOut(c)
    BY <2>9 DEF StopTimesOut
  <2> QED
    BY <1>2, <2>1, <2>2, <2>3, <2>4, <2>5, <2>6, <2>7, <2>8, <2>9 DEF Call
<1>3. CASE ParentEnds
  BY <1>3 DEF ParentEnds
<1>4. CASE Run
  <2>1. CASE Compose \/ Persist \/ TrySend \/ DropUnread \/ Resend
    BY <2>1 DEF Compose, Persist, TrySend, DropUnread, Resend
  <2>2. CASE LeaveLoop
    BY <2>2 DEF LeaveLoop
  <2>0. ASSUME NEW s \in Samplers, ReportSamplerError(s) PROVE TypeOK'
    BY <2>0 DEF ReportSamplerError
  <2>3. ASSUME NEW p \in Collectors, LaunchCollector(p) PROVE TypeOK'
    BY <2>3 DEF LaunchCollector
  <2>4. CASE Retire \/ BeginCloseStore \/ FinishClose
    BY <2>4 DEF Retire, BeginCloseStore, FinishClose
  <2> QED
    BY <1>4, <2>0, <2>1, <2>2, <2>3, <2>4 DEF Run
<1>5. CASE Flusher
  BY <1>5 DEF Flusher, FlushTick, FlushReport, FlusherEnds
<1>6. ASSUME NEW p \in Collectors, Collect(p) PROVE TypeOK'
  <2>1. CASE CollectBegins(p)
    BY <2>1 DEF CollectBegins
  <2>2. CASE CollectEnds(p)
    BY <2>2 DEF CollectEnds
  <2>3. CASE CollectFails(p)
    BY <2>3 DEF CollectFails
  <2>4. CASE CollectReports(p)
    BY <2>4 DEF CollectReports
  <2> QED
    BY <1>6, <2>1, <2>2, <2>3, <2>4 DEF Collect
<1>7. CASE Receive
  BY <1>7 DEF Receive
<1>8. ASSUME NEW s \in Samplers, Sample(s) PROVE TypeOK'
  <2>1. CASE SamplerFails(s)
    BY <2>1 DEF SamplerFails
  <2>2. CASE SamplerEnds(s)
    BY <2>2 DEF SamplerEnds
  <2> QED
    BY <1>8, <2>1, <2>2 DEF Sample
<1> QED
  BY <1>1, <1>2, <1>3, <1>4, <1>5, <1>6, <1>7, <1>8 DEF Next

\* Every reachable state has the types of its fields, for any number of
\* callers, collections, samplers and samples.
THEOREM TypeCorrect == Spec => []TypeOK
  BY InitTypes, StepTypes, PTL DEF Spec

-----------------------------------------------------------------------------
(* The life of the session.                                                *)

Quiet == \A p \in Collectors : collector[p] = "idle"
Down == runPc \in {"retired", "closing", "done"}

\* Before a session there is nothing of one.
Unstarted ==
  runPc = "none" =>
    /\ ~cancelSet /\ ~terminated /\ ~ctxDone
    /\ sessions = 0 /\ store = "none" /\ flusher = "none" /\ Quiet

\* From its start until it retires, the session has its cancel function, its
\* open store and its flusher.
Sampling ==
  Running \/ runPc = "draining" =>
    cancelSet /\ ~terminated /\ sessions = 1 /\ store = "open" /\ flusher # "none"

\* Behind that nobody else of the session is left, and the manager has ended.
RetiredAlone ==
  Down => ~cancelSet /\ terminated /\ sessions = 1 /\ flusher = "ended" /\ Quiet

\* The store is closed in its two steps, and the channels with the second.
ClosedInOrder ==
  /\ runPc = "retired" => store = "open"
  /\ runPc = "closing" => store = "closing"
  /\ runPc = "done" => store = "closed"
  /\ chansClosed <=> runPc = "done"

\* Only the end of its context ends a session.
EndedByContext == Down \/ runPc = "draining" \/ flusher = "ended" => ctxDone

LifeInv ==
  Unstarted /\ Sampling /\ RetiredAlone /\ ClosedInOrder /\ EndedByContext /\ ~panicked

\* A manager that was not started has no session.
LEMMA InitLife == Init => LifeInv
  BY DEF Init, LifeInv, Unstarted, Sampling, RetiredAlone, ClosedInOrder, EndedByContext, Quiet, Down

\* Whoever moves keeps the order of a session's life.
LEMMA StepLife == TypeOK /\ LifeInv /\ [Next]_vars => LifeInv'
<1> SUFFICES ASSUME TypeOK, LifeInv, [Next]_vars PROVE LifeInv' OBVIOUS
<1> USE ManagerAssumption
    DEF TypeOK, LifeInv, Unstarted, Sampling, RetiredAlone, ClosedInOrder, EndedByContext, Quiet, Down
<1>1. CASE UNCHANGED vars
  BY <1>1 DEF vars
<1>2. ASSUME NEW c \in Callers, Call(c) PROVE LifeInv'
  <2>1. CASE CallStart(c) \/ CallStop(c) \/ Lock(c) \/ StartFails(c)
    BY <2>1 DEF CallStart, CallStop, Lock, StartFails
  <2>2. CASE StartSucceeds(c)
    BY <2>2 DEF StartSucceeds, MayStart
  <2>3. CASE StopIdle(c) \/ StopReturns(c) \/ StopTimesOut(c)
    BY <2>3 DEF StopIdle, StopReturns, StopTimesOut
  <2>4. CASE StopCancels(c)
    BY <2>4 DEF StopCancels
  <2> QED
    BY <1>2, <2>1, <2>2, <2>3, <2>4 DEF Call
<1>3. CASE ParentEnds
  BY <1>3 DEF ParentEnds
<1>4. CASE Run
  <2>1. CASE Compose \/ Persist \/ TrySend
    BY <2>1 DEF Compose, Persist, TrySend
  <2>2. CASE DropUnread \/ Resend
    BY <2>2 DEF DropUnread, Resend
  <2>3. CASE LeaveLoop
    BY <2>3 DEF LeaveLoop
  <2>7. ASSUME NEW s \in Samplers, ReportSamplerError(s) PROVE LifeInv'
    BY <2>7 DEF ReportSamplerError
  <2>4. ASSUME NEW p \in Collectors, LaunchCollector(p) PROVE LifeInv'
    BY <2>4 DEF LaunchCollector
  <2>5. CASE Retire
    BY <2>5 DEF Retire
  <2>6. CASE BeginCloseStore \/ FinishClose
    BY <2>6 DEF BeginCloseStore, FinishClose
  <2> QED
    BY <1>4, <2>1, <2>2, <2>3, <2>4, <2>5, <2>6, <2>7 DEF Run
<1>5. CASE Flusher
  BY <1>5 DEF Flusher, FlushTick, FlushReport, FlusherEnds
<1>6. ASSUME NEW p \in Collectors, Collect(p) PROVE LifeInv'
  BY <1>6 DEF Collect, CollectBegins, CollectEnds, CollectFails, CollectReports
<1>7. CASE Receive
  BY <1>7 DEF Receive
<1>8. ASSUME NEW s \in Samplers, Sample(s) PROVE LifeInv'
  BY <1>8 DEF Sample, SamplerFails, SamplerEnds
<1> QED
  BY <1>1, <1>2, <1>3, <1>4, <1>5, <1>6, <1>7, <1>8 DEF Next

\* The life of the session is in order in every reachable state.
LEMMA LifeInOrder == Spec => [](TypeOK /\ LifeInv)
<1>1. Init => TypeOK /\ LifeInv
  BY InitTypes, InitLife
<1>2. TypeOK /\ LifeInv /\ [Next]_vars => (TypeOK /\ LifeInv)'
  BY StepTypes, StepLife
<1> QED
  BY <1>1, <1>2, PTL DEF Spec

\* No error is sent on a closed channel, however late a flush or a collection
\* fails: both have ended before the manager retires.
THEOREM NobodySendsLate == Spec => []NoSendOnClosedChannel
<1>1. LifeInv => NoSendOnClosedChannel
  BY DEF LifeInv, NoSendOnClosedChannel
<1> QED
  BY <1>1, LifeInOrder, PTL

\* A manager has one session at most, whose store is open as long as anybody
\* works for it.
THEOREM OneSessionOnly == Spec => []OneSession
<1>1. TypeOK /\ LifeInv => OneSession
  BY DEF TypeOK, LifeInv, Unstarted, Sampling, RetiredAlone, ClosedInOrder, Quiet, Down, OneSession
<1> QED
  BY <1>1, LifeInOrder, PTL

\* A Stop that ended the session itself and returns nil has waited for the
\* store, the channels and everyone who uses them (manager.go:161-186): the run
\* goroutine, the flusher and the collections.  Of the samplers
\* (manager.go:195-196) it says only that they are cancelled.
THEOREM StopWaits == Spec => StopThatCancelsWaits
<1> DEFINE A == \A c \in Callers :
              (call[c] = "waiting" /\ call'[c] = "idle" /\ result'[c] = "stopped")
                => /\ store = "closed" /\ chansClosed
                   /\ runPc = "done" /\ flusher = "ended"
                   /\ \A p \in Collectors : collector[p] = "idle"
                   /\ \A s \in Samplers : sampler[s] = "running" => ctxDone
<1>1. TypeOK /\ LifeInv /\ [Next]_vars => [A]_vars
  <2> SUFFICES ASSUME TypeOK, LifeInv, [Next]_vars, NEW c \in Callers,
                      call[c] = "waiting", call'[c] = "idle", result'[c] = "stopped"
               PROVE  /\ store = "closed" /\ chansClosed
                      /\ runPc = "done" /\ flusher = "ended"
                      /\ \A p \in Collectors : collector[p] = "idle"
                      /\ \A s \in Samplers : sampler[s] = "running" => ctxDone
    OBVIOUS
  <2>1. StopReturns(c)
    <3>1. ASSUME UNCHANGED <<call, result>> PROVE FALSE
      BY <3>1 DEF TypeOK
    <3>2. ~UNCHANGED vars
      BY <3>1 DEF vars
    <3>3. ~ParentEnds /\ ~Run /\ ~Flusher /\ ~Receive
      BY <3>1 DEF ParentEnds, Receive, Flusher, FlushTick, FlushReport, FlusherEnds,
        Run, Compose, Persist, TrySend, DropUnread, Resend, ReportSamplerError,
        LaunchCollector, LeaveLoop, Retire, BeginCloseStore, FinishClose
    <3>4. \A p \in Collectors : ~Collect(p)
      BY <3>1 DEF Collect, CollectBegins, CollectEnds, CollectFails, CollectReports
    <3>9. \A s \in Samplers : ~Sample(s)
      BY <3>1 DEF Sample, SamplerFails, SamplerEnds
    <3>5. PICK d \in Callers : Call(d)
      BY <3>2, <3>3, <3>4, <3>9 DEF Next
    <3>6. ~CallStart(d) /\ ~CallStop(d) /\ ~Lock(d) /\ ~StopCancels(d)
      BY <3>5 DEF CallStart, CallStop, Lock, StopCancels, TypeOK
    <3>7. ~StartFails(d) /\ ~StartSucceeds(d) /\ ~StopIdle(d) /\ ~StopTimesOut(d)
      BY <3>5 DEF StartFails, StartSucceeds, StopIdle, StopTimesOut, TypeOK
    <3>8. StopReturns(d)
      BY <3>5, <3>6, <3>7 DEF Call
    <3> QED
      BY <3>8 DEF StopReturns, TypeOK
  <2> QED
    BY <2>1 DEF StopReturns, LifeInv, RetiredAlone, ClosedInOrder, EndedByContext, Quiet, Down
<1>2. Spec => [][A]_vars
  BY <1>1, LifeInOrder, PTL DEF Spec
<1> QED
  BY <1>2 DEF StopThatCancelsWaits

-----------------------------------------------------------------------------
(* The samples channel.                                                    *)

\* Where a published sample is: nobody published before the session, a sample
\* on its way is newer than the slot and the reader, and one that is not on its
\* way is in the slot or was read, unless the context ended first.
SlotInv ==
  /\ runPc = "none" => published = 0
  /\ slot <= published /\ seen <= published
  /\ slot > 0 => seen < slot
  /\ runPc = "persist" => published < seq
  /\ runPc \in {"send", "drop", "resend"} => slot < published /\ seen < published
  /\ runPc = "resend" => slot = 0
  /\ runPc \in {"loop", "persist"} /\ ~ctxDone => published \in {slot, seen}

\* Numbers are naturals up to the latest one.
LEMMA Numbers ==
  TypeOK => seq \in Nat /\ published \in 0 .. seq /\ slot \in 0 .. seq /\ seen \in 0 .. seq
  BY DEF TypeOK

\* Neither the run goroutine nor the reader loses the newest sample.
LEMMA StepSlot ==
  TypeOK /\ TypeOK' /\ LifeInv /\ SlotInv /\ [Next]_vars => SlotInv'
<1> SUFFICES ASSUME TypeOK, TypeOK', LifeInv, SlotInv, [Next]_vars PROVE SlotInv'
  OBVIOUS
<1>1. /\ seq \in Nat /\ published \in 0 .. seq /\ slot \in 0 .. seq /\ seen \in 0 .. seq
      /\ runPc = "none" => ~cancelSet /\ ~terminated /\ ~ctxDone
      /\ Running => cancelSet
      /\ cancelSet \/ terminated => runPc # "none"
  BY Numbers DEF LifeInv, Unstarted, Sampling, RetiredAlone
<1> USE <1>1 DEF SlotInv
<1>2. CASE UNCHANGED vars
  BY <1>2 DEF vars
<1>3. ASSUME NEW c \in Callers, Call(c) PROVE SlotInv'
  <2>1. CASE StartSucceeds(c)
    BY <2>1 DEF StartSucceeds, MayStart, LifeInv, Sampling, RetiredAlone, Down, TypeOK
  <2>2. CASE CallStart(c) \/ CallStop(c) \/ Lock(c) \/ StartFails(c)
    BY <2>2 DEF CallStart, CallStop, Lock, StartFails
  <2>3. CASE StopIdle(c) \/ StopCancels(c) \/ StopReturns(c) \/ StopTimesOut(c)
    BY <2>3 DEF StopIdle, StopCancels, StopReturns, StopTimesOut
  <2> QED
    BY <1>3, <2>1, <2>2, <2>3 DEF Call
<1>4. CASE ParentEnds
  BY <1>4 DEF ParentEnds
<1>5. CASE Run
  <2>1. CASE Compose
    BY <2>1 DEF Compose
  <2>2. CASE Persist
    BY <2>2 DEF Persist
  <2>3. CASE TrySend
    BY <2>3 DEF TrySend
  <2>4. CASE DropUnread
    BY <2>4 DEF DropUnread
  <2>5. CASE Resend
    BY <2>5 DEF Resend
  <2>6. CASE \/ LeaveLoop \/ \E p \in Collectors : LaunchCollector(p)
             \/ \E s \in Samplers : ReportSamplerError(s)
    BY <2>6 DEF ReportSamplerError, LeaveLoop, LaunchCollector
  <2>7. CASE Retire \/ BeginCloseStore \/ FinishClose
    BY <2>7 DEF Retire, BeginCloseStore, FinishClose
  <2> QED
    BY <1>5, <2>1, <2>2, <2>3, <2>4, <2>5, <2>6, <2>7 DEF Run
<1>6. CASE Flusher
  BY <1>6 DEF Flusher, FlushTick, FlushReport, FlusherEnds
<1>7. ASSUME NEW p \in Collectors, Collect(p) PROVE SlotInv'
  BY <1>7 DEF Collect, CollectBegins, CollectEnds, CollectFails, CollectReports
<1>8. CASE Receive
  BY <1>8 DEF Receive
<1>9. ASSUME NEW s \in Samplers, Sample(s) PROVE SlotInv'
  BY <1>9 DEF Sample, SamplerFails, SamplerEnds
<1> QED
  BY <1>2, <1>3, <1>4, <1>5, <1>6, <1>7, <1>8, <1>9 DEF Next

\* The interface keeps getting the newest sample, whatever the interleaving of
\* the run goroutine with its reader and however many samples there are.
THEOREM NewestSampleWins == Spec => []LatestSampleWins
<1>1. Init => SlotInv
  BY DEF Init, SlotInv
<1>2. TypeOK /\ LifeInv /\ SlotInv /\ [Next]_vars => SlotInv'
  BY StepTypes, StepSlot
<1>3. SlotInv => LatestSampleWins
  BY DEF SlotInv, LatestSampleWins
<1> QED
  BY <1>1, <1>2, <1>3, LifeInOrder, PTL DEF Spec

-----------------------------------------------------------------------------
(* The refinement.                                                         *)

\* What the engine sees follows from the place of the run goroutine and from
\* whether the context has ended.
SeenByPlace ==
  Seen = IF runPc = "none" THEN "idle"
         ELSE IF Running \/ runPc = "draining"
              THEN (IF ctxDone THEN "cancelled" ELSE "live")
              ELSE IF runPc = "done" THEN "closed" ELSE "retired"

\* The life of the session says what is seen of it.
LEMMA SeenFollows == TypeOK /\ LifeInv => SeenByPlace
<1> SUFFICES ASSUME TypeOK, LifeInv PROVE SeenByPlace OBVIOUS
<1> USE DEF LifeInv, Unstarted, Sampling, RetiredAlone, ClosedInOrder, Down, SeenByPlace, Seen
<1>1. CASE runPc = "none"
  BY <1>1
<1>2. CASE Running \/ runPc = "draining"
  BY <1>2
<1>3. CASE Down
  BY <1>3
<1> QED
  BY <1>1, <1>2, <1>3 DEF TypeOK

\* A step changes what is seen as MonitorLife allows, or not at all.
LEMMA StepSeen ==
  TypeOK /\ TypeOK' /\ LifeInv /\ LifeInv' /\ [Next]_vars => [Life!LifeNext]_Seen
<1> SUFFICES ASSUME TypeOK, TypeOK', LifeInv, LifeInv', [Next]_vars
             PROVE  [Life!LifeNext]_Seen
  OBVIOUS
<1>1. SeenByPlace
  BY SeenFollows
<1>2. SeenByPlace'
  <2>1. (TypeOK /\ LifeInv)' => SeenByPlace'
    BY SeenFollows, PTL
  <2> QED
    BY <2>1
<1> USE <1>1, <1>2 DEF SeenByPlace, Life!LifeNext, Life!Begin, Life!Cancel, Life!Retire, Life!CloseStore
<1>3. CASE UNCHANGED vars
  BY <1>3 DEF vars
<1>4. ASSUME NEW c \in Callers, Call(c) PROVE [Life!LifeNext]_Seen
  <2>1. CASE StartSucceeds(c)
    <3>1. runPc = "none"
      BY <2>1 DEF StartSucceeds, MayStart, TypeOK, LifeInv, Sampling, RetiredAlone, Down
    <3> QED
      BY <2>1, <3>1 DEF StartSucceeds
  <2>2. CASE CallStart(c) \/ CallStop(c) \/ Lock(c) \/ StartFails(c)
    BY <2>2 DEF CallStart, CallStop, Lock, StartFails
  <2>3. CASE StopIdle(c) \/ StopReturns(c) \/ StopTimesOut(c)
    BY <2>3 DEF StopIdle, StopReturns, StopTimesOut
  <2>4. CASE StopCancels(c)
    BY <2>4 DEF StopCancels
  <2> QED
    BY <1>4, <2>1, <2>2, <2>3, <2>4 DEF Call
<1>5. CASE ParentEnds
  BY <1>5 DEF ParentEnds
<1>6. CASE Run
  <2>1. CASE \/ Compose \/ Persist \/ TrySend \/ DropUnread \/ Resend
             \/ \E s \in Samplers : ReportSamplerError(s)
             \/ \E p \in Collectors : LaunchCollector(p)
    BY <2>1 DEF Compose, Persist, TrySend, DropUnread, Resend, ReportSamplerError, LaunchCollector
  <2>2. CASE LeaveLoop
    BY <2>2 DEF LeaveLoop
  <2>3. CASE Retire
    BY <2>3 DEF Retire, LifeInv, EndedByContext
  <2>4. CASE BeginCloseStore \/ FinishClose
    BY <2>4 DEF BeginCloseStore, FinishClose
  <2> QED
    BY <1>6, <2>1, <2>2, <2>3, <2>4 DEF Run
<1>7. CASE Flusher
  BY <1>7 DEF Flusher, FlushTick, FlushReport, FlusherEnds
<1>8. ASSUME NEW p \in Collectors, Collect(p) PROVE [Life!LifeNext]_Seen
  BY <1>8 DEF Collect, CollectBegins, CollectEnds, CollectFails, CollectReports
<1>9. CASE Receive
  BY <1>9 DEF Receive
<1>10. ASSUME NEW s \in Samplers, Sample(s) PROVE [Life!LifeNext]_Seen
  BY <1>10 DEF Sample, SamplerFails, SamplerEnds
<1> QED
  BY <1>3, <1>4, <1>5, <1>6, <1>7, <1>8, <1>9, <1>10 DEF Next

\* The manager implements the life that the engine's model gives a monitor.
THEOREM ManagerLivesOnce == Spec => ImplementsMonitorLife
<1>1. Init => Life!LifeInit
  BY DEF Init, Life!LifeInit, Seen
<1>2. TypeOK /\ TypeOK' /\ LifeInv /\ LifeInv' /\ [Next]_vars => [Life!LifeNext]_Seen
  BY StepSeen
<1> QED
  BY <1>1, <1>2, LifeInOrder, PTL DEF Spec, ImplementsMonitorLife, Life!LifeSpec
=============================================================================
