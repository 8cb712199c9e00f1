---------------------------- MODULE SessionStore ----------------------------
(***************************************************************************)
(* internal/store/store.go: the files of one monitoring session.           *)
(*                                                                         *)
(* Every public method holds the store's mutex for its whole body, so one  *)
(* method is one action; Close alone is two, because session.json is       *)
(* replaced before the streams are flushed and a crash can fall between.   *)
(* A stream is a JSONL file behind a bufio.Writer.  A record is abstracted *)
(* to its timestamp and takes two units on disk, so that an odd length is  *)
(* a file that ends inside a record.                                       *)
(***************************************************************************)
EXTENDS Integers, Sequences, FiniteSets

CONSTANTS
  MaxTime,         \* bound: sample timestamps are 1..MaxTime
  MaxApps,         \* bound: application rows carried by one sample
  MaxAux,          \* bound: records written to events and test_runs together
  MaxFaults,       \* bound: streams whose file fails
  ExternalReader   \* whether another process may snapshot the directory

ASSUME StoreAssumption ==
  /\ MaxTime \in Nat
  /\ MaxApps \in Nat
  /\ MaxAux \in Nat
  /\ MaxFaults \in Nat
  /\ ExternalReader \in BOOLEAN

VARIABLES
  logging,   \* SampleLogging of the session, fixed at creation
  out,       \* the four jsonlWriters
  mirror,    \* "on" while the SQLite sink is attached
  pending,   \* pendingSample, NoSample for nil
  gate,      \* lastSampleLogged, 0 for the zero time
  phase,     \* "open", "closing" (Close holds the mutex), "closed", "crashed"
  ended,     \* session.json carries EndedAt
  closeOk,   \* the Close that closed the store has met no error
  answers,   \* what the calls of Close have returned
  snap,      \* the latest SessionSnapshot
  clock,     \* timestamp of the latest sample the collector composed
  newest     \* timestamp of the newest sample the store accepted

vars == <<logging, out, mirror, pending, gate, phase, ended, closeOk, answers,
          snap, clock, newest>>

Streams == {"samples", "apps", "events", "tests"}
Sample  == [time : Nat, apps : Nat]
NoSample == [time |-> 0, apps |-> 0]

\* log: records the encoder accepted; disk: units in the file;
\* bad: the sticky error of bufio.Writer and json.Encoder.
Writer == [log : Seq(Nat), disk : Nat, bad : BOOLEAN]
EmptyWriter == [log |-> <<>>, disk |-> 0, bad |-> FALSE]
Accepted(w) == 2 * Len(w.log)

Snapshots == [kind : {"none", "live", "closed", "external"},
              limits : [Streams -> Nat]]
NoSnapshot == [kind |-> "none", limits |-> [f \in Streams |-> 0]]

-----------------------------------------------------------------------------
(* The writers. *)

\* The writers that encoding rows one after the other can leave: bufio may
\* write any part of what it holds, and an I/O error keeps the rows before it
\* and is returned by every later call.
Put(w, rows) ==
  IF w.bad \/ rows = <<>> THEN {w}
  ELSE {[log |-> w.log \o rows, disk |-> d, bad |-> FALSE] :
          d \in w.disk .. Accepted(w) + 2 * Len(rows)}
       \cup UNION {{[log |-> w.log \o SubSeq(rows, 1, k), disk |-> d, bad |-> TRUE] :
                      d \in w.disk .. Accepted(w) + 2 * k + 1} :
                    k \in 0 .. Len(rows) - 1}

\* bufio.Writer.Flush: everything reaches the file, or the error leaves a part.
Flushed(w) ==
  IF w.bad THEN {w}
  ELSE {[log |-> w.log, disk |-> Accepted(w), bad |-> FALSE]}
       \cup {[log |-> w.log, disk |-> d, bad |-> TRUE] :
               d \in w.disk .. Accepted(w) - 1}

\* What flushing every writer of o can leave.
Writers(s, a, e, t) ==
  [f \in Streams |-> CASE f = "samples" -> s [] f = "apps" -> a
                      [] f = "events" -> e [] f = "tests" -> t]
\* Faulty: a flush that forgets the sample stream, or the application stream.
FlushAllButSamples(o) ==
  {Writers(o["samples"], a, e, t) :
     a \in Flushed(o["apps"]), e \in Flushed(o["events"]), t \in Flushed(o["tests"])}
FlushAllButApps(o) ==
  {Writers(s, o["apps"], e, t) :
     s \in Flushed(o["samples"]), e \in Flushed(o["events"]), t \in Flushed(o["tests"])}

FlushAll(o) ==
  {Writers(s, a, e, t) :
     s \in Flushed(o["samples"]), a \in Flushed(o["apps"]),
     e \in Flushed(o["events"]), t \in Flushed(o["tests"])}

NoneBad(o) == \A f \in Streams : ~o[f].bad

\* A sink failure detaches the mirror and is reported once.
Mirrored == {[mirror |-> mirror, err |-> "ok"]}
            \cup (IF mirror = "on" THEN {[mirror |-> "off", err |-> "mirror"]} ELSE {})

-----------------------------------------------------------------------------
(* writeSampleLocked: sample row, durable gate, application rows, mirror. *)

SampleResult(w, a, g, m, e) ==
  [out |-> [out EXCEPT !["samples"] = w, !["apps"] = a],
   gate |-> g, mirror |-> m, err |-> e]

AppRows(s) == [i \in 1 .. s.apps |-> s.time]

\* Faulty: the gate moves only once the application rows are written too.
AfterAppRowsLateGate(s, w, a) ==
  IF a.bad /\ s.apps > 0
  THEN {SampleResult(w, a, gate, mirror, "io")}
  ELSE {SampleResult(w, a, s.time, r.mirror, r.err) : r \in Mirrored}

AfterAppRows(s, w, a) ==
  IF a.bad /\ s.apps > 0
  THEN {SampleResult(w, a, s.time, mirror, "io")}
  ELSE {SampleResult(w, a, s.time, r.mirror, r.err) : r \in Mirrored}

AfterSampleRow(s, w) ==
  IF w.bad THEN {SampleResult(w, out["apps"], gate, mirror, "io")}
  ELSE UNION {AfterAppRows(s, w, a) : a \in Put(out["apps"], AppRows(s))}

\* The encoder may also refuse the value before anything is written.
NotEncoded ==
  IF out["samples"].bad THEN {}
  ELSE {SampleResult(out["samples"], out["apps"], gate, mirror, "encode")}

WriteSampleLocked(s) ==
  NotEncoded \cup UNION {AfterSampleRow(s, w) : w \in Put(out["samples"], <<s.time>>)}

\* flushPendingSampleLocked
FlushPendingLocked ==
  IF pending = NoSample
  THEN {[out |-> out, gate |-> gate, mirror |-> mirror, err |-> "ok"]}
  ELSE WriteSampleLocked(pending)

\* Faulty: the slot is emptied whatever became of the row.
PendingDropped(r, t) == NoSample

\* The pending slot survives exactly when the row did not become canonical.
PendingAfter(r, t) == IF r.gate = t THEN NoSample ELSE pending

\* Faulty: a second sample with the timestamp of the gate is not stale.
StaleBefore(t) == gate > 0 /\ t < gate

\* validateSampleTimestampLocked
Stale(t) == gate > 0 /\ t <= gate

-----------------------------------------------------------------------------
(* Operations. *)

\* At most MaxFaults streams fail in a behaviour.
FaultsBounded == Cardinality({f \in Streams : out'[f].bad}) <= MaxFaults

Open == phase = "open"
Closed == phase = "closed"

\* The collector's clock does not go back; two readings may be equal.
Tick(t) ==
  /\ t \in {clock, clock + 1} \cap (1 .. MaxTime)
  /\ clock' = t

\* A call that returns before it changes anything, with or without an error.
Refuse ==
  UNCHANGED <<logging, out, mirror, pending, gate, phase, ended, closeOk, answers,
              snap, newest>>

\* A sample is for the log of an open session that keeps one, and is newer
\* than every row of it; any other is refused, silently or with an error.
Takes(t) == Open /\ logging /\ ~Stale(t)

WriteSample(t, n) ==
  /\ Tick(t)
  /\ \/ Closed /\ Refuse
     \/ Open /\ ~Takes(t) /\ Refuse
     \/ /\ Takes(t)
        /\ \E r \in WriteSampleLocked([time |-> t, apps |-> n]) :
             /\ out' = r.out /\ gate' = r.gate /\ mirror' = r.mirror
             /\ pending' = PendingAfter(r, t)
             /\ newest' = IF r.gate = t THEN t ELSE newest
        /\ FaultsBounded
        /\ UNCHANGED <<logging, phase, ended, closeOk, answers, snap>>

OfferSample(t, n) ==
  /\ Tick(t)
  /\ \/ Closed /\ Refuse
     \/ Open /\ (~Takes(t) \/ t <= pending.time) /\ Refuse
     \/ /\ Takes(t) /\ t > pending.time
        /\ pending' = [time |-> t, apps |-> n]
        /\ newest' = t
        /\ UNCHANGED <<logging, out, mirror, gate, phase, ended, closeOk, answers,
                       snap>>

FlushPendingSample ==
  /\ \/ Closed /\ Refuse
     \/ /\ Open
        /\ \E r \in FlushPendingLocked :
             /\ out' = r.out /\ gate' = r.gate /\ mirror' = r.mirror
             /\ pending' = PendingAfter(r, pending.time)
        /\ FaultsBounded
        /\ UNCHANGED <<logging, phase, ended, closeOk, answers, snap,
                       newest>>
  /\ UNCHANGED clock

\* WriteEvent and WriteTestRun: one row of a stream, then the mirror.
WriteRow(f) ==
  /\ Len(out["events"].log) + Len(out["tests"].log) < MaxAux
  /\ \/ Closed /\ Refuse
     \/ /\ Open
        /\ \E w \in Put(out[f], <<clock>>) :
             /\ out' = [out EXCEPT ![f] = w]
             /\ IF w.bad THEN UNCHANGED mirror
                ELSE \E r \in Mirrored : mirror' = r.mirror
        /\ FaultsBounded
        /\ UNCHANGED <<logging, pending, gate, phase, ended, closeOk, answers, snap,
                       newest>>
  /\ UNCHANGED clock

WriteEvent == WriteRow("events")
WriteTestRun == WriteRow("tests")

\* The two-second flush of ContextFlush; the pending sample is left alone.
Flush ==
  /\ \/ Closed /\ Refuse
     \/ /\ Open
        /\ \E o \in FlushAll(out), r \in Mirrored :
             /\ out' = o
             /\ mirror' = r.mirror
        /\ FaultsBounded
        /\ UNCHANGED <<logging, pending, gate, phase, ended, closeOk, answers, snap,
                       newest>>
  /\ UNCHANGED clock

\* Faulty: the last record is left out, also when there is none.
DiskSizesButLast(o) == [f \in Streams |-> o[f].disk - 2]

DiskSizes(o) == [f \in Streams |-> o[f].disk]

\* Snapshot of an open store: the pending sample, then the four writers, then
\* the file sizes; any error, the mirror's included, returns no snapshot.
SnapshotOpen ==
  /\ Open
  /\ \E r \in FlushPendingLocked :
       /\ gate' = r.gate /\ mirror' = r.mirror
       /\ pending' = PendingAfter(r, pending.time)
       /\ IF r.err # "ok"
          THEN out' = r.out /\ UNCHANGED snap
          ELSE \E o \in FlushAll(r.out) :
                 /\ out' = o
                 /\ IF NoneBad(o)
                    THEN snap' = [kind |-> "live", limits |-> DiskSizes(o)]
                    ELSE UNCHANGED snap
  /\ FaultsBounded
  /\ UNCHANGED <<logging, phase, ended, closeOk, answers, clock, newest>>

SnapshotClosed ==
  /\ Closed
  /\ snap' = [kind |-> "closed", limits |-> DiskSizes(out)]
  /\ UNCHANGED <<logging, out, mirror, pending, gate, phase, ended, closeOk,
                 answers, clock, newest>>

Snapshot == SnapshotOpen \/ SnapshotClosed

\* SnapshotDir, as the report command of another process runs it.
SnapshotDir ==
  /\ ExternalReader
  /\ snap' = [kind |-> "external", limits |-> DiskSizes(out)]
  /\ UNCHANGED <<logging, out, mirror, pending, gate, phase, ended, closeOk,
                 answers, clock, newest>>

\* Faulty: the error of the pending sample is not reported.
CloseSessionQuietly ==
  /\ Open
  /\ \E r \in FlushPendingLocked, wrote \in BOOLEAN :
       /\ out' = r.out /\ gate' = r.gate /\ mirror' = r.mirror
       /\ pending' = PendingAfter(r, pending.time)
       /\ ended' = wrote
       /\ closeOk' = wrote
  /\ phase' = "closing"
  /\ UNCHANGED <<logging, answers, snap, clock, newest>>

\* Close, up to the replacement of session.json (which may fail).
CloseSession ==
  /\ Open
  /\ \E r \in FlushPendingLocked, wrote \in BOOLEAN :
       /\ out' = r.out /\ gate' = r.gate /\ mirror' = r.mirror
       /\ pending' = PendingAfter(r, pending.time)
       /\ ended' = wrote
       /\ closeOk' = (r.err = "ok" /\ wrote)
  /\ FaultsBounded
  /\ phase' = "closing"
  /\ UNCHANGED <<logging, answers, snap, clock, newest>>

\* Close, the rest: flush, sync and close every stream, then the mirror.
CloseFiles ==
  /\ phase = "closing"
  /\ \E o \in FlushAll(out), clean \in BOOLEAN :
       /\ out' = o
       /\ closeOk' = (closeOk /\ NoneBad(o) /\ clean)
       /\ answers' = answers \cup {IF closeOk' THEN "ok" ELSE "error"}
  /\ FaultsBounded
  /\ phase' = "closed"
  /\ UNCHANGED <<logging, mirror, pending, gate, ended, snap, clock, newest>>

\* A later Close finds the store closed: it returns nil, whatever became of
\* the records.
CloseAgain ==
  /\ Closed
  /\ answers' = answers \cup {"ok"}
  /\ UNCHANGED <<logging, out, mirror, pending, gate, phase, ended, closeOk,
                 snap, clock, newest>>

\* The process dies: what the writers still hold is gone.
Crash ==
  /\ phase \in {"open", "closing"}
  /\ phase' = "crashed"
  /\ UNCHANGED <<logging, out, mirror, pending, gate, ended, closeOk,
                 answers, snap, clock, newest>>

-----------------------------------------------------------------------------
\* NewSessionWithOptions: sqlite3 may be absent even when it was asked for.
Init ==
  /\ logging \in BOOLEAN
  /\ out = [f \in Streams |-> EmptyWriter]
  /\ mirror \in {"on", "off"}
  /\ pending = NoSample
  /\ gate = 0
  /\ phase = "open"
  /\ ended = FALSE
  /\ closeOk = FALSE
  /\ answers = {}
  /\ snap = NoSnapshot
  /\ clock = 0
  /\ newest = 0

Sampler ==
  \E t \in {clock, clock + 1}, n \in 0 .. MaxApps :
    WriteSample(t, n) \/ OfferSample(t, n)

Next ==
  \/ Sampler
  \/ FlushPendingSample
  \/ WriteEvent \/ WriteTestRun
  \/ Flush
  \/ Snapshot \/ SnapshotDir
  \/ CloseSession \/ CloseFiles \/ CloseAgain
  \/ Crash

\* ContextFlush ticks until its context ends, and Close follows then; Close
\* itself does not stop halfway unless the process dies.
Fairness ==
  /\ WF_vars(Flush \/ CloseSession)
  /\ WF_vars(CloseFiles)

Spec == Init /\ [][Next]_vars
FairSpec == Spec /\ Fairness

-----------------------------------------------------------------------------
(* Properties. *)

\* Every variable has the type of the Go field it stands for.
TypeOK ==
  /\ logging \in BOOLEAN
  /\ out \in [Streams -> Writer]
  /\ mirror \in {"on", "off"}
  /\ pending \in Sample
  /\ gate \in Nat
  /\ phase \in {"open", "closing", "closed", "crashed"}
  /\ ended \in BOOLEAN
  /\ closeOk \in BOOLEAN
  /\ answers \subseteq {"ok", "error"}
  /\ snap \in Snapshots
  /\ clock \in Nat
  /\ newest \in Nat

Increasing(s) == \A i, j \in 1 .. Len(s) : i < j => s[i] < s[j]

\* samples.jsonl never holds a sample twice or out of order, whatever failed
\* after its row was written (the reason the gate moves before the app rows).
NoDuplicateSamples == Increasing(out["samples"].log)

\* The newest sample the store accepted is the last canonical row or is still
\* pending: no failed write, flush, snapshot or close drops it.
NewestRetained ==
  logging => IF pending = NoSample
             THEN newest = gate
             ELSE pending.time = newest /\ pending.time > gate

\* A live-only session (LoggingEnabled off) keeps no sample in any file.
LiveOnlyKeepsNothing ==
  ~logging => /\ out["samples"].log = <<>>
              /\ out["apps"].log = <<>>
              /\ pending = NoSample

Visible(f) == SubSeq(out[f].log, 1, snap.limits[f] \div 2)
Elements(s) == {s[i] : i \in 1 .. Len(s)}

\* Snapshots the store itself vouches for.
Trusted == snap.kind = "live" \/ (snap.kind = "closed" /\ closeOk)

\* A snapshot is a consistent cut: every limit is at a record boundary inside
\* the file, and no application row is visible without its sample.
SnapshotConsistent ==
  Trusted =>
    /\ \A f \in Streams :
         /\ snap.limits[f] % 2 = 0
         /\ snap.limits[f] <= out[f].disk
         /\ snap.limits[f] <= Accepted(out[f])
    /\ Elements(Visible("apps")) \subseteq Elements(Visible("samples"))

\* No record is lost silently: when no call of Close on a closed store has
\* returned an error, every accepted record is on disk, nothing is pending and
\* the end of the session is recorded.  Only the Close that closes the store
\* reports a loss; the nil of a later one says nothing of it.
LossIsReported ==
  (Closed /\ "error" \notin answers) =>
    /\ ended
    /\ pending = NoSample
    /\ \A f \in Streams : out[f].disk = Accepted(out[f])

\* Crash resilience: again and again everything accepted is in its file,
\* unless that file fails or the process dies; the two-second flush and Close
\* leave no record in memory for good.
RecordsReachDisk ==
  \A f \in Streams :
    []<>(out[f].disk >= Accepted(out[f]) \/ out[f].bad \/ phase = "crashed")

\* The abstract log this store implements: the canonical rows, how many of
\* them are whole in the file, and the rows below the latest snapshot's limit.
Log == INSTANCE SessionLog WITH
  entries <- out["samples"].log,
  durable <- out["samples"].disk \div 2,
  status  <- phase,
  view    <- Visible("samples")

\* Every step of the store is a step of the log or invisible to it.
ImplementsSessionLog == Log!AbsSpec
=============================================================================
