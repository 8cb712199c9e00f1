--------------------------- MODULE MonitorManager ---------------------------
(***************************************************************************)
(* internal/collector/manager.go: the life of one Manager.  Start and Stop *)
(* callers serialize on the lifecycle mutex; the run goroutine composes,   *)
(* persists and publishes samples until its context ends; the flusher and  *)
(* the process collectors run beside it and are waited for before the      *)
(* session store and the public channels are closed.  The powermetrics     *)
(* supervisor and the battery sampler run beside it too, on channels of    *)
(* their own, and nobody waits for them.                                   *)
(***************************************************************************)
EXTENDS Integers, FiniteSets

CONSTANTS
  Callers,     \* goroutines that call Start and Stop
  Collectors,  \* process-collection goroutines that may be in flight
  Samplers,    \* the powermetrics supervisor and the battery sampler
  NoCaller,    \* the lifecycle mutex is free
  MaxSeq       \* bound: samples composed in one session

ASSUME ManagerAssumption ==
  /\ IsFiniteSet(Callers) /\ IsFiniteSet(Collectors)
  /\ NoCaller \notin Callers
  /\ MaxSeq \in Nat

VARIABLES
  parentDone,  \* the context given to Start has ended
  ctxDone,     \* the session's own context has ended
  cancelSet,   \* m.cancel is not nil
  terminated,  \* m.terminated
  lifecycle,   \* holder of the lifecycle mutex
  call,        \* call[c]: where caller c is
  result,      \* result[c]: what its latest call returned
  runPc,       \* where the run goroutine is
  seq,         \* sequence number of the latest composed sample
  published,   \* sequence number of the latest sample sent for the UI
  slot,        \* content of the one-element samples channel, 0 when empty
  seen,        \* latest sample a consumer received
  flusher,     \* the ContextFlush goroutine
  collector,   \* collector[p]: a process-collection goroutine
  busy,        \* processMu is held
  sampler,     \* sampler[s]: a sampler goroutine
  failure,     \* failure[s]: an error waits in the channel of sampler s
  store,       \* the session store
  sessions,    \* session directories created by this manager
  chansClosed, \* samples and errs are closed
  panicked     \* something was sent on a closed channel

vars == <<parentDone, ctxDone, cancelSet, terminated, lifecycle, call, result,
          runPc, seq, published, slot, seen, flusher, collector, busy, sampler,
          failure, store, sessions, chansClosed, panicked>>

callVars  == <<lifecycle, call, result>>
ctxVars   == <<parentDone, ctxDone>>
chanVars  == <<published, slot, seen>>
sampVars  == <<sampler, failure>>
auxVars   == <<flusher, collector, busy, sampVars>>
ownVars   == <<cancelSet, terminated, store, sessions, chansClosed>>

Running == runPc \in {"loop", "persist", "send", "drop", "resend"}

-----------------------------------------------------------------------------
(* Callers. *)

\* Start refuses a finished parent before it takes the mutex.
CallStart(c) ==
  /\ call[c] = "idle"
  /\ IF parentDone
     THEN result' = [result EXCEPT ![c] = "error"] /\ UNCHANGED call
     ELSE call' = [call EXCEPT ![c] = "start"] /\ UNCHANGED result
  /\ UNCHANGED <<ctxVars, lifecycle, runPc, seq, chanVars, auxVars, ownVars, panicked>>

CallStop(c) ==
  /\ call[c] = "idle"
  /\ call' = [call EXCEPT ![c] = "stop"]
  /\ UNCHANGED <<ctxVars, lifecycle, result, runPc, seq, chanVars, auxVars,
                 ownVars, panicked>>

Lock(c) ==
  /\ call[c] \in {"start", "stop"}
  /\ lifecycle = NoCaller
  /\ lifecycle' = c
  /\ call' = [call EXCEPT ![c] = IF @ = "start" THEN "starting" ELSE "stopping"]
  /\ UNCHANGED <<ctxVars, result, runPc, seq, chanVars, auxVars, ownVars, panicked>>

\* The call of c returns r and releases the mutex.
Return(c, r) ==
  /\ lifecycle' = NoCaller
  /\ call' = [call EXCEPT ![c] = "idle"]
  /\ result' = [result EXCEPT ![c] = r]

\* Start of a running or finished manager, or whose session cannot be created.
StartFails(c) ==
  /\ call[c] = "starting"
  /\ Return(c, "error")
  /\ UNCHANGED <<ctxVars, runPc, seq, chanVars, auxVars, ownVars, panicked>>

\* Faulty: a manager that has ended may be started again.
MayRestart == ~cancelSet

MayStart == ~cancelSet /\ ~terminated

StartSucceeds(c) ==
  /\ call[c] = "starting"
  /\ MayStart
  /\ store' = "open"
  /\ sessions' = sessions + 1
  /\ cancelSet' = TRUE
  /\ ctxDone' = parentDone
  /\ runPc' = "loop"
  /\ flusher' = "ticking"
  /\ sampler' = [s \in Samplers |-> "running"]
  /\ Return(c, "started")
  /\ UNCHANGED <<parentDone, terminated, seq, chanVars, collector, busy, failure,
                 chansClosed, panicked>>

\* Stop of a manager that has no cancel function returns at once.
StopIdle(c) ==
  /\ call[c] = "stopping"
  /\ ~cancelSet
  /\ Return(c, "stopped")
  /\ UNCHANGED <<ctxVars, runPc, seq, chanVars, auxVars, ownVars, panicked>>

StopCancels(c) ==
  /\ call[c] = "stopping"
  /\ cancelSet
  /\ ctxDone' = TRUE
  /\ call' = [call EXCEPT ![c] = "waiting"]
  /\ UNCHANGED <<parentDone, lifecycle, result, runPc, seq, chanVars, auxVars,
                 ownVars, panicked>>

\* Faulty: the wait ends when the run goroutine retires.
StopReturnsEarly(c) ==
  /\ call[c] = "waiting"
  /\ runPc \in {"retired", "closing", "done"}
  /\ Return(c, "stopped")
  /\ UNCHANGED <<ctxVars, runPc, seq, chanVars, auxVars, ownVars, panicked>>

\* Faulty: the wait is for the caller's context to end, too.
StopReturnsWithParent(c) ==
  /\ call[c] = "waiting"
  /\ runPc = "done" /\ parentDone
  /\ Return(c, "stopped")
  /\ UNCHANGED <<ctxVars, runPc, seq, chanVars, auxVars, ownVars, panicked>>

StopReturns(c) ==
  /\ call[c] = "waiting"
  /\ runPc = "done"
  /\ Return(c, "stopped")
  /\ UNCHANGED <<ctxVars, runPc, seq, chanVars, auxVars, ownVars, panicked>>

\* The caller's own deadline passes first.
StopTimesOut(c) ==
  /\ call[c] = "waiting"
  /\ Return(c, "error")
  /\ UNCHANGED <<ctxVars, runPc, seq, chanVars, auxVars, ownVars, panicked>>

\* Ctrl+C, the monitor's duration or the engine's end: the parent context ends.
ParentEnds ==
  /\ ~parentDone
  /\ parentDone' = TRUE
  /\ ctxDone' = (ctxDone \/ cancelSet)
  /\ UNCHANGED <<callVars, runPc, seq, chanVars, auxVars, ownVars, panicked>>

-----------------------------------------------------------------------------
(* The run goroutine. *)

\* emitError: a non-blocking send on errs, then a collector_error event that a
\* closed store refuses.
EmitError == panicked' = (panicked \/ chansClosed)

\* A sample is composed for the UI, the log or both.
Compose ==
  /\ runPc = "loop"
  /\ seq < MaxSeq
  /\ seq' = seq + 1
  /\ runPc' = "persist"
  /\ UNCHANGED <<ctxVars, callVars, chanVars, auxVars, ownVars, panicked>>

\* Faulty: the number of the next sample is published.
PersistNext ==
  /\ runPc = "persist"
  /\ UNCHANGED panicked
  /\ runPc' = "send" /\ published' = seq + 1
  /\ UNCHANGED <<ctxVars, callVars, seq, slot, seen, auxVars, ownVars>>

\* Persisting may fail and be reported; a live sample is then published.
Persist ==
  /\ runPc = "persist"
  /\ UNCHANGED panicked \/ EmitError
  /\ \/ runPc' = "loop" /\ UNCHANGED published
     \/ runPc' = "send" /\ published' = seq
  /\ UNCHANGED <<ctxVars, callVars, seq, slot, seen, auxVars, ownVars>>

\* publishLatestSample: try, drop the unread sample, then send or give up.
TrySend ==
  /\ runPc = "send"
  /\ IF slot = 0
     THEN slot' = published /\ runPc' = "loop"
     ELSE UNCHANGED slot /\ runPc' = "drop"
  /\ UNCHANGED <<ctxVars, callVars, seq, published, seen, auxVars, ownVars, panicked>>

\* Faulty: the unread sample stays in the channel.
KeepUnread ==
  /\ runPc = "drop"
  /\ runPc' = "resend"
  /\ UNCHANGED <<ctxVars, callVars, seq, chanVars, auxVars, ownVars, panicked>>

DropUnread ==
  /\ runPc = "drop"
  /\ slot' = 0
  /\ runPc' = "resend"
  /\ UNCHANGED <<ctxVars, callVars, seq, published, seen, auxVars, ownVars, panicked>>

Resend ==
  /\ runPc = "resend"
  /\ \/ slot = 0 /\ slot' = published
     \/ ctxDone /\ UNCHANGED slot
  /\ runPc' = "loop"
  /\ UNCHANGED <<ctxVars, callVars, seq, published, seen, auxVars, ownVars, panicked>>

\* A sampler's error reaches the loop, also after the sampler has ended.
ReportSamplerError(s) ==
  /\ runPc = "loop"
  /\ failure[s]
  /\ failure' = [failure EXCEPT ![s] = FALSE]
  /\ EmitError
  /\ UNCHANGED <<ctxVars, callVars, runPc, seq, chanVars, flusher, collector, busy,
                 sampler, ownVars>>

LaunchCollector(p) ==
  /\ runPc = "loop"
  /\ collector[p] = "idle"
  /\ collector' = [collector EXCEPT ![p] = "launched"]
  /\ UNCHANGED <<ctxVars, callVars, runPc, seq, chanVars, flusher, busy, sampVars,
                 ownVars, panicked>>

LeaveLoop ==
  /\ runPc = "loop"
  /\ ctxDone
  /\ runPc' = "draining"
  /\ UNCHANGED <<ctxVars, callVars, seq, chanVars, auxVars, ownVars, panicked>>

\* Faulty: the flusher is not waited for.
RetireBeforeFlusher ==
  /\ runPc = "draining"
  /\ \A p \in Collectors : collector[p] = "idle"
  /\ cancelSet' = FALSE
  /\ terminated' = TRUE
  /\ runPc' = "retired"
  /\ UNCHANGED <<ctxVars, callVars, seq, chanVars, auxVars, store, sessions,
                 chansClosed, panicked>>

\* Faulty: the manager does not remember that it has ended.
RetireUnmarked ==
  /\ runPc = "draining"
  /\ flusher = "ended"
  /\ \A p \in Collectors : collector[p] = "idle"
  /\ cancelSet' = FALSE
  /\ runPc' = "retired"
  /\ UNCHANGED <<ctxVars, callVars, seq, chanVars, auxVars, terminated, store,
                 sessions, chansClosed, panicked>>

\* processWG.Wait and auxiliaryWG.Wait, then cancel and terminated together.
Retire ==
  /\ runPc = "draining"
  /\ flusher = "ended"
  /\ \A p \in Collectors : collector[p] = "idle"
  /\ cancelSet' = FALSE
  /\ terminated' = TRUE
  /\ runPc' = "retired"
  /\ UNCHANGED <<ctxVars, callVars, seq, chanVars, auxVars, store, sessions,
                 chansClosed, panicked>>

BeginCloseStore ==
  /\ runPc = "retired"
  /\ store' = "closing"
  /\ runPc' = "closing"
  /\ UNCHANGED <<ctxVars, callVars, seq, chanVars, auxVars, cancelSet, terminated,
                 sessions, chansClosed, panicked>>

\* Close returns, perhaps with an error for errs, and the channels are closed.
FinishClose ==
  /\ runPc = "closing"
  /\ store' = "closed"
  /\ UNCHANGED panicked \/ EmitError
  /\ chansClosed' = TRUE
  /\ runPc' = "done"
  /\ UNCHANGED <<ctxVars, callVars, seq, chanVars, auxVars, cancelSet, terminated,
                 sessions>>

-----------------------------------------------------------------------------
(* The goroutines beside it, and the reader of the samples channel. *)

\* A tick flushes the store; a failed flush is reported.
FlushTick ==
  /\ flusher = "ticking"
  /\ flusher' = "reporting"
  /\ UNCHANGED <<ctxVars, callVars, runPc, seq, chanVars, collector, busy, sampVars,
                 ownVars, panicked>>

FlushReport ==
  /\ flusher = "reporting"
  /\ EmitError
  /\ flusher' = "ticking"
  /\ UNCHANGED <<ctxVars, callVars, runPc, seq, chanVars, collector, busy, sampVars,
                 ownVars>>

\* Faulty: the flusher runs under the parent's context.
FlusherEndsWithParent ==
  /\ flusher = "ticking"
  /\ parentDone
  /\ flusher' = "ended"
  /\ UNCHANGED <<ctxVars, callVars, runPc, seq, chanVars, collector, busy, sampVars,
                 ownVars, panicked>>

FlusherEnds ==
  /\ flusher = "ticking"
  /\ ctxDone
  /\ flusher' = "ended"
  /\ UNCHANGED <<ctxVars, callVars, runPc, seq, chanVars, collector, busy, sampVars,
                 ownVars, panicked>>

\* processMu.TryLock: a collection that is already under way is not repeated.
CollectBegins(p) ==
  /\ collector[p] = "launched"
  /\ collector' = [collector EXCEPT ![p] = IF busy THEN "idle" ELSE "collecting"]
  /\ busy' = TRUE
  /\ UNCHANGED <<ctxVars, callVars, runPc, seq, chanVars, flusher, sampVars, ownVars, panicked>>

CollectEnds(p) ==
  /\ collector[p] = "collecting"
  /\ collector' = [collector EXCEPT ![p] = "idle"]
  /\ busy' = FALSE
  /\ UNCHANGED <<ctxVars, callVars, runPc, seq, chanVars, flusher, sampVars, ownVars, panicked>>

\* Both sources failed and the context had not ended when that was tested.
CollectFails(p) ==
  /\ collector[p] = "collecting"
  /\ ~ctxDone
  /\ collector' = [collector EXCEPT ![p] = "reporting"]
  /\ UNCHANGED <<ctxVars, callVars, runPc, seq, chanVars, flusher, busy, sampVars,
                 ownVars, panicked>>

CollectReports(p) ==
  /\ collector[p] = "reporting"
  /\ EmitError
  /\ collector' = [collector EXCEPT ![p] = "idle"]
  /\ busy' = FALSE
  /\ UNCHANGED <<ctxVars, callVars, runPc, seq, chanVars, flusher, sampVars, ownVars>>

\* A sampler leaves an error in its own channel, which never blocks it.
SamplerFails(s) ==
  /\ sampler[s] = "running"
  /\ failure' = [failure EXCEPT ![s] = TRUE]
  /\ UNCHANGED <<ctxVars, callVars, runPc, seq, chanVars, flusher, collector, busy,
                 sampler, ownVars, panicked>>

\* A sampler notices that the context has ended, some time after it did.
SamplerEnds(s) ==
  /\ sampler[s] = "running"
  /\ ctxDone
  /\ sampler' = [sampler EXCEPT ![s] = "ended"]
  /\ UNCHANGED <<ctxVars, callVars, runPc, seq, chanVars, flusher, collector, busy,
                 failure, ownVars, panicked>>

Receive ==
  /\ slot > 0
  /\ seen' = slot
  /\ slot' = 0
  /\ UNCHANGED <<ctxVars, callVars, runPc, seq, published, auxVars, ownVars, panicked>>

-----------------------------------------------------------------------------
Init ==
  /\ parentDone = FALSE /\ ctxDone = FALSE
  /\ cancelSet = FALSE /\ terminated = FALSE
  /\ lifecycle = NoCaller
  /\ call = [c \in Callers |-> "idle"]
  /\ result = [c \in Callers |-> "none"]
  /\ runPc = "none"
  /\ seq = 0 /\ published = 0 /\ slot = 0 /\ seen = 0
  /\ flusher = "none"
  /\ collector = [p \in Collectors |-> "idle"]
  /\ busy = FALSE
  /\ sampler = [s \in Samplers |-> "none"]
  /\ failure = [s \in Samplers |-> FALSE]
  /\ store = "none" /\ sessions = 0
  /\ chansClosed = FALSE
  /\ panicked = FALSE

Call(c) ==
  \/ CallStart(c) \/ CallStop(c) \/ Lock(c)
  \/ StartFails(c) \/ StartSucceeds(c)
  \/ StopIdle(c) \/ StopCancels(c) \/ StopReturns(c) \/ StopTimesOut(c)

Run ==
  \/ Compose \/ Persist \/ TrySend \/ DropUnread \/ Resend
  \/ (\E s \in Samplers : ReportSamplerError(s))
  \/ (\E p \in Collectors : LaunchCollector(p))
  \/ LeaveLoop \/ Retire \/ BeginCloseStore \/ FinishClose

Flusher == FlushTick \/ FlushReport \/ FlusherEnds

Collect(p) ==
  CollectBegins(p) \/ CollectEnds(p) \/ CollectFails(p) \/ CollectReports(p)

Sample(s) == SamplerFails(s) \/ SamplerEnds(s)

Next ==
  \/ \E c \in Callers : Call(c)
  \/ ParentEnds
  \/ Run
  \/ Flusher
  \/ \E p \in Collectors : Collect(p)
  \/ \E s \in Samplers : Sample(s)
  \/ Receive

\* Goroutines make progress: collections have timeouts, select picks a ready
\* case at random so an ended context is noticed in the end, and sync.Mutex
\* does not starve a waiter.  Nothing is assumed of ParentEnds, of new calls
\* or of the reader of the channel.
Fairness ==
  /\ WF_vars(Persist \/ TrySend \/ DropUnread \/ Resend)
  /\ SF_vars(LeaveLoop)
  /\ WF_vars(Retire \/ BeginCloseStore \/ FinishClose)
  /\ WF_vars(FlushReport) /\ SF_vars(FlusherEnds)
  /\ \A p \in Collectors : WF_vars(CollectBegins(p) \/ CollectEnds(p) \/ CollectReports(p))
  /\ \A c \in Callers :
       /\ SF_vars(Lock(c))
       /\ WF_vars(StartFails(c) \/ StartSucceeds(c) \/ StopIdle(c) \/ StopCancels(c)
                  \/ StopReturns(c))

Spec == Init /\ [][Next]_vars
FairSpec == Spec /\ Fairness

-----------------------------------------------------------------------------
(* Properties. *)

\* Every variable has the type of the Go field or goroutine it stands for.
TypeOK ==
  /\ {parentDone, ctxDone, cancelSet, terminated, busy, chansClosed, panicked}
       \subseteq BOOLEAN
  /\ lifecycle \in Callers \cup {NoCaller}
  /\ call \in [Callers -> {"idle", "start", "stop", "starting", "stopping", "waiting"}]
  /\ result \in [Callers -> {"none", "error", "started", "stopped"}]
  /\ runPc \in {"none", "loop", "persist", "send", "drop", "resend", "draining",
                "retired", "closing", "done"}
  /\ {seq, sessions} \subseteq Nat
  /\ {published, slot, seen} \subseteq 0 .. seq
  /\ flusher \in {"none", "ticking", "reporting", "ended"}
  /\ collector \in [Collectors -> {"idle", "launched", "collecting", "reporting"}]
  /\ sampler \in [Samplers -> {"none", "running", "ended"}]
  /\ failure \in [Samplers -> BOOLEAN]
  /\ store \in {"none", "open", "closing", "closed"}

\* No goroutine sends on errs after it was closed: a late flush error or a late
\* process-collection error would otherwise crash the program.
NoSendOnClosedChannel == ~panicked

\* However Start calls interleave, fail and are retried, a manager creates one
\* session at most, and its collectors only run over a store that is open.
OneSession ==
  /\ sessions <= 1
  /\ (Running \/ flusher \in {"ticking", "reporting"}
        \/ \E p \in Collectors : collector[p] # "idle") => store = "open"

\* publishLatestSample: the second send never finds the slot full, the reader
\* never gets an older sample after a newer one, and the newest published
\* sample is the one in the slot or was received.
LatestSampleWins ==
  /\ runPc = "resend" => slot = 0
  /\ slot > 0 => seen < slot
  /\ (runPc \in {"loop", "persist"} /\ ~ctxDone) => published \in {slot, seen}

\* What Stop's comment promises (manager.go:685): once it returned nil, all
\* writers of a session that was started have flushed.
StopFlushesWriters ==
  [][\A c \in Callers :
       (call[c] \in {"stopping", "waiting"} /\ call'[c] = "idle" /\ result'[c] = "stopped")
         => store' \in {"none", "closed"}]_vars

\* The part of it that holds: a Stop that cancelled the session itself returns
\* nil only after the store and the channels are closed and everyone who uses
\* them has ended: the run goroutine, the flusher and the collections.  The
\* samplers are cancelled and may still run; what they do reaches neither.
StopThatCancelsWaits ==
  [][\A c \in Callers :
       (call[c] = "waiting" /\ call'[c] = "idle" /\ result'[c] = "stopped")
         => /\ store = "closed" /\ chansClosed
            /\ runPc = "done" /\ flusher = "ended"
            /\ \A p \in Collectors : collector[p] = "idle"
            /\ \A s \in Samplers : sampler[s] = "running" => ctxDone]_vars

\* What the engine sees of this manager.
Seen ==
  CASE ~cancelSet /\ ~terminated -> "idle"
    [] cancelSet /\ ~ctxDone -> "live"
    [] cancelSet /\ ctxDone -> "cancelled"
    [] terminated /\ store # "closed" -> "retired"
    [] OTHER -> "closed"

Life == INSTANCE MonitorLife WITH life <- Seen

\* The manager lives the life the engine gives its monitors: no call revives
\* one that was cancelled, and its store is closed last and once.
ImplementsMonitorLife == Life!LifeSpec

\* Once its context has ended, a started manager closes its store and its
\* channels: neither stays open for good.
ShutdownCompletes ==
  []<>(ctxDone /\ store # "none" => store = "closed" /\ chansClosed)

\* Every Start and every Stop returns, also when others hold the mutex: no
\* caller stays in one of them for good.
CallsReturn == \A c \in Callers : []<>(call[c] = "idle")
=============================================================================
