------------------------- MODULE SessionStoreProofs -------------------------
(***************************************************************************)
(* Proofs about SessionStore for every value of its constants: the log of  *)
(* a session, its snapshots, and that it implements SessionLog.            *)
(***************************************************************************)
EXTENDS SessionStore, SequenceTheorems, TLAPS

-----------------------------------------------------------------------------
(* The writers. *)

\* Encoding one row keeps the writer well typed, never moves the file back,
\* and appends the row exactly when no error stuck.
LEMMA PutOne ==
  ASSUME NEW w \in Writer, NEW t \in Nat, NEW x \in Put(w, <<t>>)
  PROVE  /\ x \in Writer
         /\ x.bad => x.log = w.log
         /\ ~x.bad => x.log = Append(w.log, t)
<1>1. CASE w.bad
  BY <1>1 DEF Put
<1>2. CASE ~w.bad
  <2>0. <<t>> # <<>> /\ Len(<<t>>) = 1 /\ <<t>> \in Seq(Nat)
    OBVIOUS
  <2>1. w.log \in Seq(Nat) /\ w.disk \in Nat /\ Accepted(w) \in Nat
    BY DEF Writer, Accepted
  <2>2. w.log \o <<t>> = Append(w.log, t)
    BY <2>1
  <2>3. w.log \o SubSeq(<<t>>, 1, 0) = w.log
    BY <2>1, <2>0, SubSeqEmpty, ConcatEmptySeq
  <2>4. 0 .. Len(<<t>>) - 1 = {0}
    BY <2>0
  <2>5. \/ \E d \in w.disk .. Accepted(w) + 2 * Len(<<t>>) :
             x = [log |-> w.log \o <<t>>, disk |-> d, bad |-> FALSE]
        \/ \E k \in 0 .. Len(<<t>>) - 1 : \E d \in w.disk .. Accepted(w) + 2 * k + 1 :
             x = [log |-> w.log \o SubSeq(<<t>>, 1, k), disk |-> d, bad |-> TRUE]
    BY <1>2, <2>0 DEF Put
  <2>6. CASE \E d \in w.disk .. Accepted(w) + 2 * Len(<<t>>) :
               x = [log |-> w.log \o <<t>>, disk |-> d, bad |-> FALSE]
    BY <2>6, <2>0, <2>1, <2>2 DEF Writer
  <2>7. ASSUME NEW k \in 0 .. Len(<<t>>) - 1,
               NEW d \in w.disk .. Accepted(w) + 2 * k + 1,
               x = [log |-> w.log \o SubSeq(<<t>>, 1, k), disk |-> d, bad |-> TRUE]
        PROVE  x \in Writer /\ x.bad /\ x.log = w.log
    <3>1. k = 0
      BY <2>4
    <3> QED BY <3>1, <2>7, <2>1, <2>3 DEF Writer
  <2> QED BY <2>5, <2>6, <2>7
<1> QED BY <1>1, <1>2

\* Encoding any number of rows keeps the writer well typed.
LEMMA PutType ==
  ASSUME NEW w \in Writer, NEW rows \in Seq(Nat), NEW x \in Put(w, rows)
  PROVE  x \in Writer
<1>1. CASE w.bad \/ rows = <<>>
  BY <1>1 DEF Put
<1>2. CASE ~(w.bad \/ rows = <<>>)
  <2>1. w.log \in Seq(Nat) /\ w.disk \in Nat /\ Accepted(w) \in Nat /\ Len(rows) \in Nat
    BY DEF Writer, Accepted
  <2>2. \/ \E d \in w.disk .. Accepted(w) + 2 * Len(rows) :
             x = [log |-> w.log \o rows, disk |-> d, bad |-> FALSE]
        \/ \E k \in 0 .. Len(rows) - 1 : \E d \in w.disk .. Accepted(w) + 2 * k + 1 :
             x = [log |-> w.log \o SubSeq(rows, 1, k), disk |-> d, bad |-> TRUE]
    BY <1>2 DEF Put
  <2>3. CASE \E d \in w.disk .. Accepted(w) + 2 * Len(rows) :
             x = [log |-> w.log \o rows, disk |-> d, bad |-> FALSE]
    BY <2>1, <2>3, ConcatProperties DEF Writer
  <2>4. ASSUME NEW k \in 0 .. Len(rows) - 1, NEW d \in w.disk .. Accepted(w) + 2 * k + 1,
               x = [log |-> w.log \o SubSeq(rows, 1, k), disk |-> d, bad |-> TRUE]
        PROVE  x \in Writer
    <3>1. SubSeq(rows, 1, k) \in Seq(Nat)
      <4>1. k \in Nat /\ \A i \in 1 .. k : rows[i] \in Nat
        BY <2>1, SMTT(40)
      <4> QED BY <4>1, SubSeqProperties
    <3>2. w.log \o SubSeq(rows, 1, k) \in Seq(Nat)
      BY <2>1, <3>1
    <3> QED BY <2>1, <2>4, <3>2 DEF Writer
  <2> QED BY <2>2, <2>3, <2>4
<1> QED BY <1>1, <1>2

\* A flush changes no row; without an error the whole stream is in the file.
LEMMA FlushedType ==
  ASSUME NEW w \in Writer, NEW x \in Flushed(w)
  PROVE  /\ x \in Writer
         /\ x.log = w.log
         /\ ~x.bad => x.disk = Accepted(x)
<1>1. w.log \in Seq(Nat) /\ w.disk \in Nat /\ Accepted(w) \in Nat
  BY DEF Writer, Accepted
<1>2. CASE w.bad
  BY <1>2 DEF Flushed
<1>3. CASE x = [log |-> w.log, disk |-> Accepted(w), bad |-> FALSE]
  BY <1>1, <1>3 DEF Writer, Accepted
<1>4. ASSUME NEW d \in w.disk .. Accepted(w) - 1,
             x = [log |-> w.log, disk |-> d, bad |-> TRUE]
      PROVE  x \in Writer /\ x.log = w.log /\ x.bad
  BY <1>1, <1>4 DEF Writer
<1> QED BY <1>2, <1>3, <1>4 DEF Flushed
\* The same of the four writers together.
LEMMA FlushAllType ==
  ASSUME NEW o \in [Streams -> Writer], NEW x \in FlushAll(o)
  PROVE  /\ x \in [Streams -> Writer]
         /\ \A f \in Streams : x[f] \in Flushed(o[f])
<1>1. PICK s \in Flushed(o["samples"]), a \in Flushed(o["apps"]),
           e \in Flushed(o["events"]), t \in Flushed(o["tests"]) :
        x = Writers(s, a, e, t)
  BY DEF FlushAll
<1>2. \A f \in Streams : o[f] \in Writer
  OBVIOUS
<1>3. s \in Writer /\ a \in Writer /\ e \in Writer /\ t \in Writer
  BY <1>2, FlushedType DEF Streams
<1>4. /\ x["samples"] = s /\ x["apps"] = a /\ x["events"] = e /\ x["tests"] = t
      /\ x \in [Streams -> Writer]
  BY <1>1, <1>3 DEF Writers, Streams
<1> QED BY <1>1, <1>4 DEF Streams

-----------------------------------------------------------------------------
(* writeSampleLocked. *)

\* Whatever fails, the gate and the canonical stream move together: both stay,
\* or the sample is appended and becomes the gate.
Committed(r, s) ==
  /\ r.out \in [Streams -> Writer]
  /\ r.mirror \in {"on", "off"}
  /\ \/ /\ r.gate = gate
        /\ r.out["samples"].log = out["samples"].log
        /\ r.err # "ok"
     \/ /\ r.gate = s.time
        /\ r.out["samples"].log = Append(out["samples"].log, s.time)

\* The application rows of a sample are as many as it carries.
LEMMA AppRowsType ==
  ASSUME NEW s \in Sample
  PROVE  AppRows(s) \in Seq(Nat)
BY DEF AppRows, Sample

\* What writeSampleLocked does after the sample row (store.go:294-308) commits it
\* or leaves rows and gate alone.
LEMMA AfterSampleRowCommits ==
  ASSUME TypeOK, NEW s \in Sample, NEW w \in Writer,
         w.bad => w.log = out["samples"].log,
         ~w.bad => w.log = Append(out["samples"].log, s.time),
         NEW r \in AfterSampleRow(s, w)
  PROVE  Committed(r, s)
<1>1. CASE w.bad
  BY <1>1 DEF AfterSampleRow, SampleResult, Committed, TypeOK, Streams
<1>2. CASE ~w.bad
  <2>1. PICK a \in Put(out["apps"], AppRows(s)) : r \in AfterAppRows(s, w, a)
    BY <1>2 DEF AfterSampleRow
  <2>2. a \in Writer
    BY AppRowsType, PutType DEF TypeOK, Streams
  <2>3. \E m \in {"on", "off"}, e \in {"ok", "io", "mirror"} :
         r = SampleResult(w, a, s.time, m, e)
    BY <2>1 DEF AfterAppRows, Mirrored, TypeOK
  <2> QED BY <1>2, <2>2, <2>3 DEF SampleResult, Committed, TypeOK, Streams
<1> QED BY <1>1, <1>2

\* writeSampleLocked as a whole (store.go:285-309) commits its sample or nothing.
LEMMA WriteSampleCommits ==
  ASSUME TypeOK, NEW s \in Sample, NEW r \in WriteSampleLocked(s)
  PROVE  Committed(r, s)
<1>1. out["samples"] \in Writer /\ s.time \in Nat
  BY DEF TypeOK, Streams, Sample
<1>2. CASE r \in NotEncoded
  BY <1>2 DEF NotEncoded, SampleResult, Committed, TypeOK, Streams
<1>3. ASSUME NEW w \in Put(out["samples"], <<s.time>>), r \in AfterSampleRow(s, w)
      PROVE  Committed(r, s)
  <2>1. /\ w \in Writer
        /\ w.bad => w.log = out["samples"].log
        /\ ~w.bad => w.log = Append(out["samples"].log, s.time)
    BY <1>1, PutOne
  <2> QED BY <1>3, <2>1, AfterSampleRowCommits
<1> QED BY <1>2, <1>3 DEF WriteSampleLocked

-----------------------------------------------------------------------------
(* The inductive invariant. *)

\* The canonical rows o holds are in order and g is the last of them.
InOrder(o, g) ==
  /\ Increasing(o["samples"].log)
  /\ IF o["samples"].log = <<>> THEN g = 0
     ELSE g = o["samples"].log[Len(o["samples"].log)]

\* The newest accepted sample is the gate or the pending sample beyond it.
Retained(p, g, n) ==
  IF p = NoSample THEN n = g ELSE p.time = n /\ p.time > g

\* Between the two halves of Close nothing can become pending again.
ClosingFlushed ==
  (phase = "closing" /\ closeOk) => (ended /\ pending = NoSample)

\* The Close that closed the store without an error left everything on disk.
CloseOkMeansDurable ==
  (Closed /\ closeOk) =>
    /\ ended
    /\ pending = NoSample
    /\ \A f \in Streams : out[f].disk = Accepted(out[f])

\* Whatever later calls answer, the error of that Close was returned.
ErrorAnswered == Closed => (closeOk \/ "error" \in answers)

IInv ==
  /\ TypeOK
  /\ InOrder(out, gate)
  /\ Retained(pending, gate, newest)
  /\ newest <= clock
  /\ LiveOnlyKeepsNothing
  /\ ClosingFlushed
  /\ CloseOkMeansDurable
  /\ ErrorAnswered

\* Appending a later sample keeps the stream in order.
LEMMA AppendIncreasing ==
  ASSUME NEW log \in Seq(Nat), NEW g \in Nat, NEW t \in Nat, g < t,
         Increasing(log), log # <<>> => g = log[Len(log)]
  PROVE  Increasing(Append(log, t))
<1> DEFINE app == Append(log, t)
<1>1. /\ Len(log) \in Nat /\ app \in Seq(Nat) /\ Len(app) = Len(log) + 1
      /\ \A i \in 1 .. Len(log) : app[i] = log[i] /\ log[i] \in Nat
      /\ app[Len(log) + 1] = t
  BY AppendProperties
<1>2. ASSUME NEW i \in 1 .. Len(log) PROVE log[i] < t
  <2>1. log # <<>> /\ log[i] \in Nat /\ log[Len(log)] = g
    BY <1>1
  <2>2. i = Len(log) \/ log[i] < log[Len(log)]
    BY <1>1 DEF Increasing
  <2> QED BY <2>1, <2>2
<1> HIDE DEF app
<1> SUFFICES ASSUME NEW i \in 1 .. Len(app), NEW j \in 1 .. Len(app), i < j
             PROVE  app[i] < app[j]
  BY DEF Increasing, app
<1>3. i \in 1 .. Len(log) /\ app[i] = log[i]
  BY <1>1, SMTT(30)
<1>4. CASE j = Len(log) + 1
  BY <1>1, <1>2, <1>3, <1>4
<1>5. CASE j # Len(log) + 1
  <2>1. j \in 1 .. Len(log)
    BY <1>1, <1>5
  <2>2. app[j] = log[j]
    BY <1>1, <2>1
  <2>3. log[i] < log[j]
    BY <1>3, <2>1 DEF Increasing
  <2> QED BY <1>3, <2>2, <2>3
<1> QED BY <1>4, <1>5

\* A sequence that was appended to ends with what was appended.
LEMMA AppendLast ==
  ASSUME NEW log \in Seq(Nat), NEW t \in Nat
  PROVE  Append(log, t) # <<>> /\ Append(log, t)[Len(Append(log, t))] = t
<1>1. /\ Len(log) \in Nat /\ Len(Append(log, t)) = Len(log) + 1
      /\ Append(log, t)[Len(log) + 1] = t
  BY AppendProperties
<1>2. Len(<<>>) = 0
  OBVIOUS
<1>3. ASSUME Append(log, t) = <<>> PROVE FALSE
  <2>1. Len(Append(log, t)) = 0
    BY <1>2, <1>3
  <2> QED BY <1>1, <2>1
<1> QED BY <1>1, <1>3

\* A commit of a sample newer than the gate keeps samples.jsonl in order.
LEMMA AppendInOrder ==
  ASSUME TypeOK, InOrder(out, gate), NEW s \in Sample, s.time > gate,
         NEW r, Committed(r, s)
  PROVE  InOrder(r.out, r.gate)
<1>1. out["samples"].log \in Seq(Nat) /\ s.time \in Nat /\ gate \in Nat
  BY DEF TypeOK, Streams, Writer, Sample
<1>2. CASE r.gate = gate /\ r.out["samples"].log = out["samples"].log
  BY <1>2 DEF InOrder
<1>3. CASE r.gate = s.time /\ r.out["samples"].log = Append(out["samples"].log, s.time)
  <2>1. Increasing(r.out["samples"].log)
    BY <1>1, <1>3, AppendIncreasing DEF InOrder
  <2>2. /\ r.out["samples"].log # <<>>
        /\ r.out["samples"].log[Len(r.out["samples"].log)] = s.time
    BY <1>1, <1>3, AppendLast
  <2> QED BY <1>3, <2>1, <2>2 DEF InOrder
<1> QED BY <1>2, <1>3 DEF Committed

\* Writing out the pending sample, as a boundary, a snapshot and Close do,
\* keeps the stream in order and the newest sample retained; without an error
\* nothing is pending afterwards.
LEMMA FlushPendingKeeps ==
  ASSUME IInv, NEW r \in FlushPendingLocked
  PROVE  /\ r.out \in [Streams -> Writer]
         /\ r.gate \in Nat
         /\ r.mirror \in {"on", "off"}
         /\ InOrder(r.out, r.gate)
         /\ PendingAfter(r, pending.time) \in Sample
         /\ Retained(PendingAfter(r, pending.time), r.gate, newest)
         /\ r.err = "ok" => PendingAfter(r, pending.time) = NoSample
         /\ ~logging => r.out = out /\ PendingAfter(r, pending.time) = NoSample
<1>1. CASE pending = NoSample
  BY <1>1 DEF FlushPendingLocked, PendingAfter, IInv, TypeOK, Sample, NoSample,
     Retained
<1>2. CASE pending # NoSample
  <2>1. pending \in Sample /\ pending.time > gate /\ gate \in Nat /\ pending.time \in Nat
    BY <1>2 DEF IInv, Retained, TypeOK, Sample
  <2>2. Committed(r, pending)
    BY <1>2, <2>1, WriteSampleCommits DEF FlushPendingLocked, IInv
  <2>3. InOrder(r.out, r.gate)
    BY <2>1, <2>2, AppendInOrder DEF IInv
  <2>4. NoSample \in Sample
    BY DEF NoSample, Sample
  <2>5. logging
    BY <1>2 DEF IInv, LiveOnlyKeepsNothing
  <2> QED BY <1>2, <2>1, <2>2, <2>3, <2>4, <2>5
        DEF Committed, PendingAfter, Retained, IInv
<1> QED BY <1>1, <1>2

\* A session starts in a state of the inductive invariant.
LEMMA InitIInv == Init => IInv
<1> SUFFICES ASSUME Init PROVE IInv
  OBVIOUS
<1>1. EmptyWriter \in Writer /\ EmptyWriter.log = <<>>
  BY DEF EmptyWriter, Writer
<1>2. TypeOK
  BY <1>1 DEF Init, TypeOK, NoSample, Sample, NoSnapshot, Snapshots
<1>3. InOrder(out, gate)
  BY <1>1 DEF Init, InOrder, Increasing, Streams
<1> QED BY <1>1, <1>2, <1>3
        DEF Init, IInv, Retained, LiveOnlyKeepsNothing, ClosingFlushed,
            CloseOkMeansDurable, ErrorAnswered, Streams, Closed, NoSample

\* A step that returns early changes at most the clock, forwards.
LEMMA RefuseKeeps ==
  ASSUME IInv, Refuse, clock' \in Nat, clock <= clock'
  PROVE  IInv'
<1>1. newest <= clock'
  BY DEF IInv, TypeOK
<1>2. TypeOK'
  BY DEF IInv, TypeOK, Refuse
<1>3. (InOrder(out, gate))' /\ (Retained(pending, gate, newest))'
  BY DEF IInv, Refuse, InOrder, Retained, Increasing
<1>4. LiveOnlyKeepsNothing' /\ ClosingFlushed' /\ CloseOkMeansDurable' /\ ErrorAnswered'
  BY DEF IInv, Refuse, LiveOnlyKeepsNothing, ClosingFlushed, CloseOkMeansDurable, ErrorAnswered, Closed
<1> QED BY <1>1, <1>2, <1>3, <1>4 DEF IInv, Refuse

\* WriteSample (store.go:229-246) keeps the inductive invariant.
LEMMA WriteSampleKeeps ==
  ASSUME IInv, NEW t \in Nat, NEW n \in Nat, WriteSample(t, n)
  PROVE  IInv'
<1>0. clock \in Nat /\ t >= 1 /\ clock' = t /\ clock <= t
  BY DEF WriteSample, Tick, IInv, TypeOK
<1>1. CASE Refuse
  BY <1>0, <1>1, RefuseKeeps
<1>2. CASE ~Refuse
  <2> DEFINE s == [time |-> t, apps |-> n]
  <2>1. PICK r \in WriteSampleLocked(s) :
          /\ out' = r.out /\ gate' = r.gate /\ mirror' = r.mirror
          /\ pending' = PendingAfter(r, t)
          /\ newest' = IF r.gate = t THEN t ELSE newest
    BY <1>2 DEF WriteSample
  <2>2. /\ Open /\ logging /\ ~Stale(t)
        /\ UNCHANGED <<logging, phase, ended, closeOk, answers, snap>>
    BY <1>2 DEF WriteSample, Takes
  <2>3. s \in Sample /\ s.time = t /\ gate \in Nat /\ t > gate
    BY <1>0, <2>2 DEF Sample, Stale, IInv, TypeOK
  <2> HIDE DEF s
  <2>4. Committed(r, s) /\ InOrder(r.out, r.gate)
    BY <2>3, WriteSampleCommits, AppendInOrder DEF IInv
  <2>5. (r.gate = gate \/ r.gate = t) /\ NoSample \in Sample
    BY <2>3, <2>4 DEF Committed, NoSample, Sample
  <2>6. TypeOK'
    BY <1>0, <2>1, <2>2, <2>3, <2>4, <2>5 DEF TypeOK, IInv, Committed, PendingAfter
  <2>7. (InOrder(out, gate))'
    BY <2>1, <2>4 DEF InOrder, Increasing
  <2>8. (Retained(pending, gate, newest))' /\ newest' <= clock'
    BY <1>0, <2>1, <2>3, <2>5 DEF Retained, PendingAfter, IInv, TypeOK
  <2> QED BY <2>2, <2>6, <2>7, <2>8
          DEF IInv, LiveOnlyKeepsNothing, ClosingFlushed, CloseOkMeansDurable, ErrorAnswered, Open, Closed
<1> QED BY <1>1, <1>2

\* OfferSample (store.go:250-272) keeps it.
LEMMA OfferSampleKeeps ==
  ASSUME IInv, NEW t \in Nat, NEW n \in Nat, OfferSample(t, n)
  PROVE  IInv'
<1>0. clock \in Nat /\ t >= 1 /\ clock' = t /\ clock <= t
  BY DEF OfferSample, Tick, IInv, TypeOK
<1>1. CASE Refuse
  BY <1>0, <1>1, RefuseKeeps
<1>2. CASE ~Refuse
  <2>1. /\ Open /\ logging /\ ~Stale(t)
        /\ pending' = [time |-> t, apps |-> n] /\ newest' = t
        /\ UNCHANGED <<logging, out, mirror, gate, phase, ended, closeOk, answers, snap>>
    BY <1>2 DEF OfferSample, Takes
  <2>2. /\ pending' \in Sample /\ pending'.time = t /\ pending' # NoSample
        /\ gate \in Nat /\ t > gate
    BY <1>0, <2>1 DEF Sample, NoSample, Stale, IInv, TypeOK
  <2>3. TypeOK'
    BY <1>0, <2>1, <2>2 DEF TypeOK, IInv
  <2>4. (InOrder(out, gate))' /\ (Retained(pending, gate, newest))'
    BY <2>1, <2>2 DEF InOrder, Increasing, Retained, IInv
  <2> QED BY <1>0, <2>1, <2>3, <2>4
          DEF IInv, LiveOnlyKeepsNothing, ClosingFlushed, CloseOkMeansDurable, ErrorAnswered, Open, Closed
<1> QED BY <1>1, <1>2

\* FlushPendingSample (store.go:314-333) keeps it.
LEMMA FlushPendingSampleKeeps ==
  ASSUME IInv, FlushPendingSample
  PROVE  IInv'
<1>0. clock' = clock /\ clock \in Nat
  BY DEF FlushPendingSample, IInv, TypeOK
<1>1. CASE Refuse
  BY <1>0, <1>1, RefuseKeeps
<1>2. CASE ~Refuse
  <2>1. PICK r \in FlushPendingLocked :
          /\ out' = r.out /\ gate' = r.gate /\ mirror' = r.mirror
          /\ pending' = PendingAfter(r, pending.time)
    BY <1>2 DEF FlushPendingSample
  <2>2. Open /\ UNCHANGED <<logging, phase, ended, closeOk, answers, snap, newest>>
    BY <1>2 DEF FlushPendingSample
  <2>3. TypeOK'
    BY <1>0, <2>1, <2>2, FlushPendingKeeps DEF TypeOK, IInv
  <2>4. (InOrder(out, gate))' /\ (Retained(pending, gate, newest))'
    BY <2>1, <2>2, FlushPendingKeeps DEF InOrder, Increasing, Retained
  <2>5. LiveOnlyKeepsNothing'
    BY <2>1, <2>2, FlushPendingKeeps DEF LiveOnlyKeepsNothing, IInv
  <2> QED BY <1>0, <2>2, <2>3, <2>4, <2>5
          DEF IInv, ClosingFlushed, CloseOkMeansDurable, ErrorAnswered, Open, Closed
<1> QED BY <1>1, <1>2

\* A flush of every stream that changes no row keeps what the rows decide.
LEMMA SameRows ==
  ASSUME NEW o \in [Streams -> Writer], NEW x \in FlushAll(o), NEW g, InOrder(o, g)
  PROVE  /\ x \in [Streams -> Writer]
         /\ InOrder(x, g)
         /\ \A f \in Streams : /\ x[f].log = o[f].log
                               /\ ~x[f].bad => x[f].disk = Accepted(x[f])
<1>1. \A f \in Streams : /\ x[f].log = o[f].log
                         /\ ~x[f].bad => x[f].disk = Accepted(x[f])
  BY FlushAllType, FlushedType
<1>2. x["samples"].log = o["samples"].log
  BY <1>1 DEF Streams
<1> QED BY <1>1, <1>2, FlushAllType DEF InOrder

\* WriteEvent and WriteTestRun (store.go:335-367) keep it.
LEMMA WriteRowKeeps ==
  ASSUME IInv, NEW f \in {"events", "tests"}, WriteRow(f)
  PROVE  IInv'
<1>0. clock' = clock /\ clock \in Nat
  BY DEF WriteRow, IInv, TypeOK
<1>1. CASE Refuse
  BY <1>0, <1>1, RefuseKeeps
<1>2. CASE ~Refuse
  <2>1. PICK w \in Put(out[f], <<clock>>) :
          /\ out' = [out EXCEPT ![f] = w]
          /\ IF w.bad THEN UNCHANGED mirror
             ELSE \E r \in Mirrored : mirror' = r.mirror
    BY <1>2 DEF WriteRow
  <2>2. /\ Open
        /\ UNCHANGED <<logging, pending, gate, phase, ended, closeOk, answers, snap, newest>>
    BY <1>2 DEF WriteRow
  <2>3. w \in Writer /\ mirror' \in {"on", "off"}
    <3>1. out[f] \in Writer
      BY DEF IInv, TypeOK, Streams
    <3> QED BY <1>0, <2>1, <3>1, PutOne DEF Mirrored, IInv, TypeOK
  <2>4. TypeOK'
    BY <1>0, <2>1, <2>2, <2>3 DEF TypeOK, IInv
  <2>5. out'["samples"] = out["samples"] /\ out'["apps"] = out["apps"]
    BY <2>1 DEF IInv, TypeOK, Streams
  <2>6. (InOrder(out, gate))' /\ (Retained(pending, gate, newest))'
    BY <2>2, <2>5 DEF InOrder, Increasing, Retained, IInv
  <2> QED BY <1>0, <2>2, <2>4, <2>5, <2>6
          DEF IInv, LiveOnlyKeepsNothing, ClosingFlushed, CloseOkMeansDurable, ErrorAnswered, Open, Closed
<1> QED BY <1>1, <1>2

\* The periodic flush (store.go:444-463) keeps it.
LEMMA FlushKeeps ==
  ASSUME IInv, Flush
  PROVE  IInv'
<1>0. clock' = clock /\ clock \in Nat
  BY DEF Flush, IInv, TypeOK
<1>1. CASE Refuse
  BY <1>0, <1>1, RefuseKeeps
<1>2. CASE ~Refuse
  <2>1. PICK o \in FlushAll(out), r \in Mirrored : out' = o /\ mirror' = r.mirror
    BY <1>2 DEF Flush
  <2>2. /\ Open
        /\ UNCHANGED <<logging, pending, gate, phase, ended, closeOk, answers, snap, newest>>
    BY <1>2 DEF Flush
  <2>3. /\ out' \in [Streams -> Writer] /\ InOrder(out', gate)
        /\ \A f \in Streams : out'[f].log = out[f].log
    BY <2>1, SameRows DEF IInv, TypeOK
  <2>4. TypeOK'
    BY <1>0, <2>1, <2>2, <2>3 DEF TypeOK, IInv, Mirrored
  <2>5. (InOrder(out, gate))' /\ (Retained(pending, gate, newest))'
    BY <2>2, <2>3 DEF InOrder, Increasing, Retained, IInv
  <2>6. LiveOnlyKeepsNothing'
    BY <2>2, <2>3 DEF LiveOnlyKeepsNothing, IInv, Streams
  <2> QED BY <1>0, <2>2, <2>4, <2>5, <2>6
          DEF IInv, ClosingFlushed, CloseOkMeansDurable, ErrorAnswered, Open, Closed
<1> QED BY <1>1, <1>2

\* Snapshot of an open store (store.go:387-405) keeps it, whichever step fails.
LEMMA SnapshotOpenKeeps ==
  ASSUME IInv, SnapshotOpen
  PROVE  IInv'
<1>1. PICK r \in FlushPendingLocked :
        /\ gate' = r.gate /\ mirror' = r.mirror
        /\ pending' = PendingAfter(r, pending.time)
        /\ IF r.err # "ok"
           THEN out' = r.out /\ UNCHANGED snap
           ELSE \E o \in FlushAll(r.out) :
                  /\ out' = o
                  /\ IF NoneBad(o)
                     THEN snap' = [kind |-> "live", limits |-> DiskSizes(o)]
                     ELSE UNCHANGED snap
  BY DEF SnapshotOpen
<1>2. Open /\ UNCHANGED <<logging, phase, ended, closeOk, answers, clock, newest>>
  BY DEF SnapshotOpen
<1>3. r.out \in [Streams -> Writer] /\ InOrder(r.out, r.gate)
  BY FlushPendingKeeps
<1>4. /\ out' \in [Streams -> Writer] /\ InOrder(out', gate')
      /\ \A f \in Streams : out'[f].log = r.out[f].log
      /\ snap' \in Snapshots
  <2>1. CASE r.err # "ok"
    BY <1>1, <1>3, <2>1 DEF IInv, TypeOK
  <2>2. CASE r.err = "ok"
    <3>1. PICK o \in FlushAll(r.out) :
            /\ out' = o
            /\ snap' = [kind |-> "live", limits |-> DiskSizes(o)] \/ snap' = snap
      BY <1>1, <2>2
    <3>2. /\ o \in [Streams -> Writer] /\ InOrder(o, r.gate)
          /\ \A f \in Streams : o[f].log = r.out[f].log
      BY <1>3, SameRows
    <3>3. DiskSizes(o) \in [Streams -> Nat]
      BY <3>2 DEF DiskSizes, Writer
    <3> QED BY <1>1, <3>1, <3>2, <3>3 DEF Snapshots, IInv, TypeOK
  <2> QED BY <2>1, <2>2
<1>5. TypeOK'
  BY <1>1, <1>2, <1>4, FlushPendingKeeps DEF TypeOK, IInv
<1>6. (InOrder(out, gate))' /\ (Retained(pending, gate, newest))'
  BY <1>1, <1>2, <1>4, FlushPendingKeeps DEF InOrder, Increasing, Retained
<1>7. LiveOnlyKeepsNothing'
  BY <1>1, <1>2, <1>4, FlushPendingKeeps DEF LiveOnlyKeepsNothing, IInv, Streams
<1> QED BY <1>2, <1>5, <1>6, <1>7
        DEF IInv, ClosingFlushed, CloseOkMeansDurable, ErrorAnswered, Open, Closed

\* Taking a snapshot of the files changes nothing but the snapshot.
LEMMA ReadOnlyKeeps ==
  ASSUME IInv, SnapshotClosed \/ SnapshotDir
  PROVE  IInv'
<1>1. /\ UNCHANGED <<logging, out, mirror, pending, gate, phase, ended, closeOk, answers, clock, newest>>
      /\ \E k \in {"closed", "external"} : snap' = [kind |-> k, limits |-> DiskSizes(out)]
  BY DEF SnapshotClosed, SnapshotDir
<1>2. DiskSizes(out) \in [Streams -> Nat]
  BY DEF DiskSizes, Writer, IInv, TypeOK
<1>3. TypeOK'
  BY <1>1, <1>2 DEF TypeOK, Snapshots, IInv
<1>4. (InOrder(out, gate))' /\ (Retained(pending, gate, newest))'
  BY <1>1 DEF InOrder, Increasing, Retained, IInv
<1> QED BY <1>1, <1>3, <1>4
        DEF IInv, LiveOnlyKeepsNothing, ClosingFlushed, CloseOkMeansDurable, ErrorAnswered, Closed

\* The first half of Close (store.go:465-474) keeps it.
LEMMA CloseSessionKeeps ==
  ASSUME IInv, CloseSession
  PROVE  IInv'
<1>1. PICK r \in FlushPendingLocked, wrote \in BOOLEAN :
        /\ out' = r.out /\ gate' = r.gate /\ mirror' = r.mirror
        /\ pending' = PendingAfter(r, pending.time)
        /\ ended' = wrote
        /\ closeOk' = (r.err = "ok" /\ wrote)
  BY DEF CloseSession
<1>2. phase' = "closing" /\ UNCHANGED <<logging, answers, snap, clock, newest>>
  BY DEF CloseSession
<1>3. TypeOK'
  BY <1>1, <1>2, FlushPendingKeeps DEF TypeOK, IInv
<1>4. (InOrder(out, gate))' /\ (Retained(pending, gate, newest))'
  BY <1>1, <1>2, FlushPendingKeeps DEF InOrder, Increasing, Retained
<1>5. LiveOnlyKeepsNothing'
  BY <1>1, <1>2, FlushPendingKeeps DEF LiveOnlyKeepsNothing, IInv
<1>6. closeOk' => ended' /\ pending' = NoSample
  BY <1>1, FlushPendingKeeps
<1> QED BY <1>2, <1>3, <1>4, <1>5, <1>6
        DEF IInv, ClosingFlushed, CloseOkMeansDurable, ErrorAnswered, Closed

\* The second half of Close (store.go:475-487) keeps it and leaves nothing in memory
\* when it reports success.
LEMMA CloseFilesKeeps ==
  ASSUME IInv, CloseFiles
  PROVE  IInv'
<1>1. PICK o \in FlushAll(out), clean \in BOOLEAN :
        /\ out' = o /\ closeOk' = (closeOk /\ NoneBad(o) /\ clean)
        /\ answers' = answers \cup {IF closeOk' THEN "ok" ELSE "error"}
  BY DEF CloseFiles
<1>2. /\ phase = "closing" /\ phase' = "closed"
      /\ UNCHANGED <<logging, mirror, pending, gate, ended, snap, clock, newest>>
  BY DEF CloseFiles
<1>3. /\ out' \in [Streams -> Writer] /\ InOrder(out', gate)
      /\ \A f \in Streams : /\ out'[f].log = out[f].log
                            /\ ~out'[f].bad => out'[f].disk = Accepted(out'[f])
  BY <1>1, SameRows DEF IInv, TypeOK
<1>4. TypeOK'
  BY <1>1, <1>2, <1>3 DEF TypeOK, IInv
<1>5. (InOrder(out, gate))' /\ (Retained(pending, gate, newest))'
  BY <1>2, <1>3 DEF InOrder, Increasing, Retained, IInv
<1>6. LiveOnlyKeepsNothing'
  BY <1>2, <1>3 DEF LiveOnlyKeepsNothing, IInv, Streams
<1>7. CloseOkMeansDurable'
  <2>1. closeOk' => /\ closeOk /\ ended /\ pending = NoSample
                    /\ \A f \in Streams : ~out'[f].bad
    BY <1>1, <1>2 DEF IInv, ClosingFlushed, NoneBad
  <2> QED BY <1>2, <1>3, <2>1 DEF CloseOkMeansDurable
<1>8. ErrorAnswered'
  BY <1>1 DEF ErrorAnswered
<1> QED BY <1>2, <1>4, <1>5, <1>6, <1>7, <1>8 DEF IInv, ClosingFlushed

\* A later Close (store.go:468-470) keeps it: an error that was returned is not
\* taken back.
LEMMA CloseAgainKeeps ==
  ASSUME IInv, CloseAgain
  PROVE  IInv'
<1>1. /\ answers' = answers \cup {"ok"}
      /\ UNCHANGED <<logging, out, mirror, pending, gate, phase, ended, closeOk, snap,
                     clock, newest>>
  BY DEF CloseAgain
<1>2. (InOrder(out, gate))' /\ (Retained(pending, gate, newest))'
  BY <1>1 DEF InOrder, Increasing, Retained, IInv
<1> QED BY <1>1, <1>2
        DEF IInv, TypeOK, LiveOnlyKeepsNothing, ClosingFlushed, CloseOkMeansDurable,
            ErrorAnswered, Closed

\* The death of the process keeps it: no file changes any more.
LEMMA CrashKeeps ==
  ASSUME IInv, Crash
  PROVE  IInv'
<1>1. /\ phase' = "crashed"
      /\ UNCHANGED <<logging, out, mirror, pending, gate, ended, closeOk, answers, snap, clock, newest>>
  BY DEF Crash
<1>2. (InOrder(out, gate))' /\ (Retained(pending, gate, newest))'
  BY <1>1 DEF InOrder, Increasing, Retained, IInv
<1> QED BY <1>1, <1>2
        DEF IInv, TypeOK, LiveOnlyKeepsNothing, ClosingFlushed, CloseOkMeansDurable, ErrorAnswered, Closed

\* Every step, or none, keeps the inductive invariant.
LEMMA StepIInv == IInv /\ [Next]_vars => IInv'
<1> SUFFICES ASSUME IInv, [Next]_vars PROVE IInv'
  OBVIOUS
<1>1. CASE Sampler
  <2>1. PICK t \in {clock, clock + 1}, n \in 0 .. MaxApps :
          WriteSample(t, n) \/ OfferSample(t, n)
    BY <1>1 DEF Sampler
  <2>2. t \in Nat /\ n \in Nat
    BY StoreAssumption DEF IInv, TypeOK
  <2> QED BY <2>1, <2>2, WriteSampleKeeps, OfferSampleKeeps
<1>2. CASE FlushPendingSample
  BY <1>2, FlushPendingSampleKeeps
<1>3. CASE WriteEvent \/ WriteTestRun
  BY <1>3, WriteRowKeeps DEF WriteEvent, WriteTestRun
<1>4. CASE Flush
  BY <1>4, FlushKeeps
<1>5. CASE Snapshot \/ SnapshotDir
  BY <1>5, SnapshotOpenKeeps, ReadOnlyKeeps DEF Snapshot
<1>6. CASE CloseSession
  BY <1>6, CloseSessionKeeps
<1>7. CASE CloseFiles
  BY <1>7, CloseFilesKeeps
<1>10. CASE CloseAgain
  BY <1>10, CloseAgainKeeps
<1>8. CASE Crash
  BY <1>8, CrashKeeps
<1>9. CASE UNCHANGED vars
  <2>1. (InOrder(out, gate))' /\ (Retained(pending, gate, newest))'
    BY <1>9 DEF vars, InOrder, Increasing, Retained, IInv
  <2> QED BY <1>9, <2>1
          DEF vars, IInv, TypeOK, LiveOnlyKeepsNothing, ClosingFlushed,
              CloseOkMeansDurable, ErrorAnswered, Closed
<1> QED BY <1>1, <1>2, <1>3, <1>4, <1>5, <1>6, <1>7, <1>8, <1>9, <1>10 DEF Next

\* The inductive invariant holds in every reachable state.
LEMMA SpecIInv == Spec => []IInv
BY InitIInv, StepIInv, PTL DEF Spec

-----------------------------------------------------------------------------
(* Theorems. *)

\* The store's state is well typed whatever is written, fails or crashes.
THEOREM TypeCorrect == Spec => []TypeOK
<1>1. IInv => TypeOK
  BY DEF IInv
<1> QED BY <1>1, SpecIInv, PTL

\* samples.jsonl never holds a duplicate or an out-of-order sample, for any
\* number of samples, application rows and failing streams.
THEOREM CanonicalStreamInOrder == Spec => []NoDuplicateSamples
<1>1. IInv => NoDuplicateSamples
  BY DEF IInv, InOrder, NoDuplicateSamples
<1> QED BY <1>1, SpecIInv, PTL

\* No failed write, boundary flush, snapshot or close drops the newest sample
\* the store accepted: it is the durable gate or pending beyond it.
THEOREM NewestSampleRetained == Spec => []NewestRetained
<1>1. IInv => NewestRetained
  BY DEF IInv, Retained, NewestRetained
<1> QED BY <1>1, SpecIInv, PTL

\* A session whose logging is off keeps no sample.
THEOREM LiveOnlyHolds == Spec => []LiveOnlyKeepsNothing
<1>1. IInv => LiveOnlyKeepsNothing
  BY DEF IInv
<1> QED BY <1>1, SpecIInv, PTL

\* A loss is never silent: when no Close of a closed store has returned an
\* error, every accepted record is on disk, nothing is pending and the end of
\* the session is recorded, however often Close is called (store.go:465-488).
THEOREM CloseIsDurable == Spec => []LossIsReported
<1>1. IInv => LossIsReported
  BY DEF IInv, CloseOkMeansDurable, ErrorAnswered, LossIsReported
<1> QED BY <1>1, SpecIInv, PTL

-----------------------------------------------------------------------------
(* Files only grow. *)

\* The file of x has what the file of w has, and x the rows of w.
Grown(w, x) ==
  /\ w.disk <= x.disk
  /\ Len(w.log) <= Len(x.log)
  /\ \A i \in 1 .. Len(w.log) : x.log[i] = w.log[i]

\* A file holds no more than was written, and part of a row after an error.
Within(w) ==
  /\ w.disk <= Accepted(w) + 1
  /\ ~w.bad => w.disk <= Accepted(w)

\* The rows after a concatenation are those of its two parts.
LEMMA ConcatRows ==
  ASSUME NEW s \in Seq(Nat), NEW t \in Seq(Nat)
  PROVE  /\ s \o t \in Seq(Nat)
         /\ Len(s \o t) = Len(s) + Len(t)
         /\ \A i \in 1 .. Len(s) : (s \o t)[i] = s[i]
         /\ Elements(s \o t) \subseteq Elements(s) \cup Elements(t)
<1>1. /\ s \o t \in Seq(Nat)
      /\ Len(s \o t) = Len(s) + Len(t)
      /\ Len(s) \in Nat /\ Len(t) \in Nat
      /\ \A i \in 1 .. Len(s) + Len(t) :
           (s \o t)[i] = IF i <= Len(s) THEN s[i] ELSE t[i - Len(s)]
  BY ConcatProperties, LenProperties
<1>2. ASSUME NEW i \in 1 .. Len(s) + Len(t)
      PROVE  (s \o t)[i] \in Elements(s) \cup Elements(t)
  <2>1. CASE i <= Len(s)
    <3>1. i \in 1 .. Len(s) /\ (s \o t)[i] = s[i]
      BY <1>1, <2>1
    <3> QED BY <3>1 DEF Elements
  <2>2. CASE ~(i <= Len(s))
    <3>1. i - Len(s) \in 1 .. Len(t) /\ (s \o t)[i] = t[i - Len(s)]
      BY <1>1, <2>2
    <3> QED BY <3>1 DEF Elements
  <2> QED BY <2>1, <2>2
<1>3. Elements(s \o t) \subseteq Elements(s) \cup Elements(t)
  BY <1>1, <1>2 DEF Elements
<1> QED BY <1>1, <1>3

\* The units of a stream that n rows were added to.
LEMMA AcceptedGrows ==
  ASSUME NEW w, NEW x, NEW n \in Nat, Len(w.log) \in Nat, Len(x.log) = Len(w.log) + n
  PROVE  Accepted(x) = Accepted(w) + 2 * n
<1>1. ASSUME NEW a \in Nat, NEW c, c = a + n
      PROVE  2 * c = 2 * a + 2 * n
  BY <1>1
<1> QED BY <1>1 DEF Accepted

\* Encoding rows extends the stream by rows of them, whatever fails.
LEMMA PutGrows ==
  ASSUME NEW w \in Writer, Within(w), NEW rows \in Seq(Nat), NEW x \in Put(w, rows)
  PROVE  /\ Within(x) /\ Grown(w, x)
         /\ Elements(x.log) \subseteq Elements(w.log) \cup Elements(rows)
<1>0. /\ w.log \in Seq(Nat) /\ w.disk \in Nat /\ Len(w.log) \in Nat
      /\ Len(rows) \in Nat /\ Accepted(w) \in Nat
  BY DEF Writer, Accepted
<1>1. CASE w.bad \/ rows = <<>>
  <2>1. x = w
    BY <1>1 DEF Put
  <2> QED BY <1>0, <2>1 DEF Grown
<1>2. CASE ~(w.bad \/ rows = <<>>)
  <2>1. \/ \E d \in w.disk .. Accepted(w) + 2 * Len(rows) :
             x = [log |-> w.log \o rows, disk |-> d, bad |-> FALSE]
        \/ \E k \in 0 .. Len(rows) - 1 : \E d \in w.disk .. Accepted(w) + 2 * k + 1 :
             x = [log |-> w.log \o SubSeq(rows, 1, k), disk |-> d, bad |-> TRUE]
    BY <1>2 DEF Put
  <2>2. ASSUME NEW d \in w.disk .. Accepted(w) + 2 * Len(rows),
               x = [log |-> w.log \o rows, disk |-> d, bad |-> FALSE]
        PROVE  /\ Within(x) /\ Grown(w, x)
               /\ Elements(x.log) \subseteq Elements(w.log) \cup Elements(rows)
    <3>1. d \in Int /\ w.disk <= d /\ d <= Accepted(w) + 2 * Len(rows)
      BY <1>0
    <3>2. x.log = w.log \o rows /\ x.disk = d
      BY <2>2
    <3>3. /\ Len(x.log) = Len(w.log) + Len(rows)
          /\ \A i \in 1 .. Len(w.log) : x.log[i] = w.log[i]
          /\ Elements(x.log) \subseteq Elements(w.log) \cup Elements(rows)
      BY <1>0, <3>2, ConcatRows
    <3>4. Accepted(x) = Accepted(w) + 2 * Len(rows)
      BY <1>0, <3>3, AcceptedGrows
    <3> QED BY <1>0, <3>1, <3>2, <3>3, <3>4 DEF Within, Grown
  <2>3. ASSUME NEW k \in 0 .. Len(rows) - 1, NEW d \in w.disk .. Accepted(w) + 2 * k + 1,
               x = [log |-> w.log \o SubSeq(rows, 1, k), disk |-> d, bad |-> TRUE]
        PROVE  /\ Within(x) /\ Grown(w, x)
               /\ Elements(x.log) \subseteq Elements(w.log) \cup Elements(rows)
    <3> DEFINE part == SubSeq(rows, 1, k)
    <3>1. k \in Nat /\ d \in Int /\ w.disk <= d /\ d <= Accepted(w) + 2 * k + 1
      BY <1>0
    <3>0. x.log = w.log \o part /\ x.disk = d /\ x.bad
      BY <2>3
    <3>2. /\ part \in Seq(Nat) /\ Len(part) = k
          /\ \A i \in 1 .. k : part[i] = rows[i] /\ i \in 1 .. Len(rows)
      <4>1. \A i \in 1 .. k : rows[i] \in Nat /\ i \in 1 .. Len(rows)
        BY <1>0, <3>1, SMTT(40)
      <4> QED BY <3>1, <4>1, SubSeqProperties
    <3>3. Elements(part) \subseteq Elements(rows)
      BY <3>2 DEF Elements
    <3> HIDE DEF part
    <3>4. /\ Len(x.log) = Len(w.log) + k
          /\ \A i \in 1 .. Len(w.log) : x.log[i] = w.log[i]
          /\ Elements(x.log) \subseteq Elements(w.log) \cup Elements(rows)
      <4>1. /\ Len(w.log \o part) = Len(w.log) + Len(part)
            /\ \A i \in 1 .. Len(w.log) : (w.log \o part)[i] = w.log[i]
            /\ Elements(w.log \o part) \subseteq Elements(w.log) \cup Elements(part)
        BY <1>0, <3>2, ConcatRows
      <4> QED BY <3>0, <3>2, <3>3, <4>1
    <3>5. Accepted(x) = Accepted(w) + 2 * k
      BY <1>0, <3>1, <3>4, AcceptedGrows
    <3> QED BY <1>0, <3>0, <3>1, <3>4, <3>5, SMTT(40) DEF Within, Grown
  <2> QED BY <2>1, <2>2, <2>3
<1> QED BY <1>1, <1>2

\* A flush adds no row.
LEMMA FlushedGrows ==
  ASSUME NEW w \in Writer, Within(w), NEW x \in Flushed(w)
  PROVE  x.log = w.log /\ Within(x) /\ Grown(w, x)
<1>0. w.log \in Seq(Nat) /\ w.disk \in Nat /\ Len(w.log) \in Nat
  BY DEF Writer
<1>1. CASE w.bad
  BY <1>0, <1>1 DEF Flushed, Grown
<1>2. CASE ~w.bad /\ x = [log |-> w.log, disk |-> Accepted(w), bad |-> FALSE]
  BY <1>0, <1>2 DEF Within, Grown, Accepted
<1>3. ASSUME ~w.bad, NEW d \in w.disk .. Accepted(w) - 1,
             x = [log |-> w.log, disk |-> d, bad |-> TRUE]
      PROVE  x.log = w.log /\ Within(x) /\ Grown(w, x)
  BY <1>0, <1>3 DEF Within, Grown, Accepted
<1> QED BY <1>1, <1>2, <1>3 DEF Flushed

\* What a reader was given of a file is still what the file begins with.
LEMMA GrownPrefix ==
  ASSUME NEW w \in Writer, NEW x \in Writer, Grown(w, x), NEW n \in Nat, n <= Len(w.log)
  PROVE  SubSeq(x.log, 1, n) = SubSeq(w.log, 1, n)
<1>0. w.log \in Seq(Nat) /\ x.log \in Seq(Nat) /\ Len(w.log) \in Nat /\ Len(x.log) \in Nat
  BY DEF Writer
<1>1. \A i \in 1 .. n : w.log[i] \in Nat /\ x.log[i] = w.log[i]
  BY <1>0, SMTT(40) DEF Grown
<1>2. /\ SubSeq(w.log, 1, n) \in Seq(Nat) /\ Len(SubSeq(w.log, 1, n)) = n
      /\ \A i \in 1 .. n : SubSeq(w.log, 1, n)[i] = w.log[i]
  BY <1>1, SubSeqProperties
<1>3. /\ SubSeq(x.log, 1, n) \in Seq(Nat) /\ Len(SubSeq(x.log, 1, n)) = n
      /\ \A i \in 1 .. n : SubSeq(x.log, 1, n)[i] = x.log[i]
  BY <1>1, SubSeqProperties
<1> QED BY <1>1, <1>2, <1>3, SeqEqual

-----------------------------------------------------------------------------
(* The four writers together. *)

\* No file holds more than its stream, and every application row belongs to
\* a sample of the session.
Sound(o) ==
  /\ \A f \in Streams : Within(o[f])
  /\ Elements(o["apps"].log) \subseteq Elements(o["samples"].log)

Grows(o, p) == \A f \in Streams : Grown(o[f], p[f])

\* A stream's rows are among its rows after it has grown.
LEMMA GrownElements ==
  ASSUME NEW w \in Writer, NEW x \in Writer, Grown(w, x)
  PROVE  Elements(w.log) \subseteq Elements(x.log)
<1>1. Len(w.log) \in Nat /\ Len(x.log) \in Nat
  BY DEF Writer
<1>2. \A i \in 1 .. Len(w.log) : w.log[i] = x.log[i] /\ i \in 1 .. Len(x.log)
  BY <1>1 DEF Grown
<1> QED BY <1>2 DEF Elements

LEMMA GrownReflexive ==
  ASSUME NEW w \in Writer
  PROVE  Grown(w, w)
BY DEF Grown, Writer

LEMMA GrownTransitive ==
  ASSUME NEW w \in Writer, NEW x \in Writer, NEW y \in Writer, Grown(w, x), Grown(x, y)
  PROVE  Grown(w, y)
<1>1. /\ Len(w.log) \in Nat /\ Len(x.log) \in Nat /\ Len(y.log) \in Nat
      /\ w.disk \in Nat /\ x.disk \in Nat /\ y.disk \in Nat
  BY DEF Writer
<1>2. \A i \in 1 .. Len(w.log) : i \in 1 .. Len(x.log)
  BY <1>1 DEF Grown
<1> QED BY <1>1, <1>2 DEF Grown

\* A flush of all four leaves every row where it was.
LEMMA FlushAllGrows ==
  ASSUME NEW o \in [Streams -> Writer], Sound(o), NEW x \in FlushAll(o)
  PROVE  Sound(x) /\ Grows(o, x) /\ \A f \in Streams : x[f].log = o[f].log
<1>1. \A f \in Streams : o[f] \in Writer /\ Within(o[f]) /\ x[f] \in Flushed(o[f])
  BY FlushAllType DEF Sound
<1>2. \A f \in Streams : x[f].log = o[f].log /\ Within(x[f]) /\ Grown(o[f], x[f])
  BY <1>1, FlushedGrows
<1>3. x["apps"].log = o["apps"].log /\ x["samples"].log = o["samples"].log
  BY <1>2 DEF Streams
<1> QED BY <1>2, <1>3 DEF Sound, Grows

\* Every application row of a sample bears the time of the sample.
LEMMA AppRowsTimes ==
  ASSUME NEW s \in Sample
  PROVE  AppRows(s) \in Seq(Nat) /\ Elements(AppRows(s)) \subseteq {s.time}
<1>1. s.apps \in Nat /\ s.time \in Nat
  BY DEF Sample
<1>2. Len(AppRows(s)) = s.apps /\ \A i \in 1 .. s.apps : AppRows(s)[i] = s.time
  BY <1>1 DEF AppRows
<1> QED BY <1>2, AppRowsType DEF Elements

\* What writeSampleLocked does after the sample row: the application rows only
\* go where their sample is (store.go:285-309).
LEMMA AfterSampleRowGrows ==
  ASSUME TypeOK, Sound(out), NEW s \in Sample, NEW w \in Writer,
         Within(w), Grown(out["samples"], w), ~w.bad => s.time \in Elements(w.log),
         NEW r \in AfterSampleRow(s, w)
  PROVE  Sound(r.out) /\ Grows(out, r.out)
<1>0. /\ out \in [Streams -> Writer] /\ out["samples"] \in Writer /\ out["apps"] \in Writer
      /\ \A f \in Streams : out[f] \in Writer /\ Within(out[f])
      /\ Within(out["apps"])
  BY DEF TypeOK, Streams, Sound
<1>1. Elements(out["samples"].log) \subseteq Elements(w.log)
  BY <1>0, GrownElements
<1>2. ASSUME NEW a \in Writer, Within(a), Grown(out["apps"], a),
             Elements(a.log) \subseteq Elements(w.log),
             r.out = [out EXCEPT !["samples"] = w, !["apps"] = a]
      PROVE  Sound(r.out) /\ Grows(out, r.out)
  <2>1. /\ r.out["samples"] = w /\ r.out["apps"] = a
        /\ \A f \in Streams : f \notin {"samples", "apps"} => r.out[f] = out[f]
    BY <1>0, <1>2 DEF Streams
  <2>2. \A f \in Streams : Within(r.out[f]) /\ Grown(out[f], r.out[f])
    BY <1>0, <1>2, <2>1, GrownReflexive
  <2> QED BY <1>2, <2>1, <2>2 DEF Sound, Grows
<1>3. CASE w.bad
  <2>1. r.out = [out EXCEPT !["samples"] = w, !["apps"] = out["apps"]]
    BY <1>3 DEF AfterSampleRow, SampleResult
  <2> QED BY <1>0, <1>1, <1>2, <2>1, GrownReflexive DEF Sound
<1>4. CASE ~w.bad
  <2>1. PICK a \in Put(out["apps"], AppRows(s)) : r \in AfterAppRows(s, w, a)
    BY <1>4 DEF AfterSampleRow
  <2>2. r.out = [out EXCEPT !["samples"] = w, !["apps"] = a]
    BY <2>1 DEF AfterAppRows, SampleResult
  <2>3. /\ a \in Writer /\ Within(a) /\ Grown(out["apps"], a)
        /\ Elements(a.log) \subseteq Elements(out["apps"].log) \cup {s.time}
    BY <1>0, <2>1, AppRowsTimes, PutType, PutGrows
  <2>4. Elements(a.log) \subseteq Elements(w.log)
    BY <1>1, <1>4, <2>3 DEF Sound
  <2> QED BY <1>2, <2>2, <2>3, <2>4
<1> QED BY <1>3, <1>4

\* writeSampleLocked as a whole.
LEMMA WriteSampleGrows ==
  ASSUME TypeOK, Sound(out), NEW s \in Sample, NEW r \in WriteSampleLocked(s)
  PROVE  Sound(r.out) /\ Grows(out, r.out)
<1>0. /\ out["samples"] \in Writer /\ out["apps"] \in Writer /\ s.time \in Nat
      /\ <<s.time>> \in Seq(Nat) /\ out \in [Streams -> Writer] /\ Within(out["samples"])
  BY DEF TypeOK, Streams, Sample, Sound
<1>1. CASE r \in NotEncoded
  <2>1. r.out = out
    BY <1>0, <1>1 DEF NotEncoded, SampleResult, Streams
  <2> QED BY <1>0, <2>1, GrownReflexive DEF Grows
<1>2. ASSUME NEW w \in Put(out["samples"], <<s.time>>), r \in AfterSampleRow(s, w)
      PROVE  Sound(r.out) /\ Grows(out, r.out)
  <2>1. w \in Writer /\ Within(w) /\ Grown(out["samples"], w)
    BY <1>0, PutType, PutGrows
  <2>2. ~w.bad => s.time \in Elements(w.log)
    <3>1. SUFFICES ASSUME ~w.bad PROVE s.time \in Elements(w.log)
      OBVIOUS
    <3>2. w.log = Append(out["samples"].log, s.time) /\ out["samples"].log \in Seq(Nat)
      BY <1>0, <3>1, PutOne, SMTT(40) DEF Writer
    <3>3. w.log[Len(w.log)] = s.time /\ w.log # <<>> /\ w.log \in Seq(Nat)
      BY <1>0, <2>1, <3>2, AppendLast DEF Writer
    <3>4. Len(w.log) \in 1 .. Len(w.log)
      BY <3>3, EmptySeq
    <3> QED BY <3>3, <3>4 DEF Elements
  <2> QED BY <1>2, <2>1, <2>2, AfterSampleRowGrows
<1> QED BY <1>1, <1>2 DEF WriteSampleLocked

\* Writing out the pending sample.
LEMMA FlushPendingGrows ==
  ASSUME IInv, Sound(out), NEW r \in FlushPendingLocked
  PROVE  Sound(r.out) /\ Grows(out, r.out)
<1>1. CASE pending = NoSample
  <2>1. r.out = out /\ \A f \in Streams : out[f] \in Writer
    BY <1>1 DEF FlushPendingLocked, IInv, TypeOK
  <2> QED BY <2>1, GrownReflexive DEF Grows
<1>2. CASE pending # NoSample
  BY <1>2, WriteSampleGrows DEF FlushPendingLocked, IInv, TypeOK
<1> QED BY <1>1, <1>2

-----------------------------------------------------------------------------
(* Every step. *)

\* Whatever a step does, no row of a stream and no unit of a file goes, and an
\* application row never comes before its sample.
LEMMA StepGrows ==
  ASSUME IInv, Sound(out), [Next]_vars
  PROVE  Sound(out') /\ Grows(out, out')
<1>0. out \in [Streams -> Writer] /\ \A f \in Streams : out[f] \in Writer
  BY DEF IInv, TypeOK
<1>1. CASE out' = out
  BY <1>0, <1>1, GrownReflexive DEF Grows
<1>2. ASSUME NEW r \in FlushPendingLocked, out' = r.out
      PROVE  Sound(out') /\ Grows(out, out')
  BY <1>2, FlushPendingGrows
<1>3. ASSUME NEW o \in FlushAll(out), out' = o
      PROVE  Sound(out') /\ Grows(out, out')
  BY <1>0, <1>3, FlushAllGrows
<1>4. CASE Sampler
  <2>1. PICK t \in {clock, clock + 1}, n \in 0 .. MaxApps :
          WriteSample(t, n) \/ OfferSample(t, n)
    BY <1>4 DEF Sampler
  <2>2. CASE out' # out
    <3>1. PICK r \in WriteSampleLocked([time |-> t, apps |-> n]) : out' = r.out
      BY <2>1, <2>2 DEF WriteSample, OfferSample, Refuse
    <3>2. [time |-> t, apps |-> n] \in Sample
      BY StoreAssumption DEF IInv, TypeOK, Sample
    <3> QED BY <3>1, <3>2, WriteSampleGrows DEF IInv
  <2> QED BY <1>1, <2>2
<1>5. CASE FlushPendingSample \/ CloseSession
  <2>1. out' = out \/ \E r \in FlushPendingLocked : out' = r.out
    BY <1>5 DEF FlushPendingSample, CloseSession, Refuse
  <2> QED BY <1>1, <1>2, <2>1
<1>6. ASSUME NEW f \in {"events", "tests"}, WriteRow(f)
      PROVE  Sound(out') /\ Grows(out, out')
  <2>1. CASE out' # out
    <3>1. PICK w \in Put(out[f], <<clock>>) : out' = [out EXCEPT ![f] = w]
      BY <1>6, <2>1 DEF WriteRow, Refuse
    <3>2. f \in Streams /\ out[f] \in Writer /\ Within(out[f]) /\ <<clock>> \in Seq(Nat)
      BY <1>0 DEF Streams, IInv, TypeOK, Sound
    <3>3. Within(w) /\ Grown(out[f], w)
      BY <3>1, <3>2, PutGrows
    <3>4. /\ \A g \in Streams : out'[g] = IF g = f THEN w ELSE out[g]
          /\ out'["samples"] = out["samples"] /\ out'["apps"] = out["apps"]
      BY <1>0, <3>1 DEF Streams
    <3>5. \A g \in Streams : Within(out'[g]) /\ Grown(out[g], out'[g])
      BY <1>0, <3>3, <3>4, GrownReflexive DEF Sound
    <3> QED BY <3>4, <3>5 DEF Sound, Grows
  <2> QED BY <1>1, <2>1
<1>7. CASE Flush \/ CloseFiles
  <2>1. out' = out \/ \E o \in FlushAll(out) : out' = o
    BY <1>7 DEF Flush, CloseFiles, Refuse
  <2> QED BY <1>1, <1>3, <2>1
<1>8. CASE SnapshotOpen
  <2>1. PICK r \in FlushPendingLocked : out' = r.out \/ \E o \in FlushAll(r.out) : out' = o
    BY <1>8 DEF SnapshotOpen
  <2>2. r.out \in [Streams -> Writer] /\ Sound(r.out) /\ Grows(out, r.out)
    BY FlushPendingKeeps, FlushPendingGrows
  <2>3. ASSUME NEW o \in FlushAll(r.out), out' = o
        PROVE  Sound(out') /\ Grows(out, out')
    <3>1. Sound(o) /\ Grows(r.out, o) /\ o \in [Streams -> Writer]
      BY <2>2, FlushAllGrows, FlushAllType
    <3>2. \A f \in Streams : Grown(out[f], o[f])
      <4> SUFFICES ASSUME NEW f \in Streams PROVE Grown(out[f], o[f])
        OBVIOUS
      <4>1. out[f] \in Writer /\ r.out[f] \in Writer /\ o[f] \in Writer
        BY <1>0, <2>2, <3>1
      <4>2. Grown(out[f], r.out[f]) /\ Grown(r.out[f], o[f])
        BY <2>2, <3>1 DEF Grows
      <4> QED BY <4>1, <4>2, GrownTransitive
    <3> QED BY <2>3, <3>1, <3>2 DEF Grows
  <2> QED BY <2>1, <2>2, <2>3
<1>9. CASE SnapshotClosed \/ SnapshotDir \/ CloseAgain \/ Crash \/ UNCHANGED vars
  BY <1>1, <1>9 DEF SnapshotClosed, SnapshotDir, CloseAgain, Crash, vars
<1> QED BY <1>4, <1>5, <1>6, <1>7, <1>8, <1>9 DEF Next, Snapshot, WriteEvent, WriteTestRun

-----------------------------------------------------------------------------
(* Snapshots. *)

\* The parts of a snapshot's consistency that hold of the streams as they are
\* when it is taken, and stay true because the streams only grow.
Cut(o, limits) ==
  /\ \A f \in Streams : limits[f] % 2 = 0 /\ limits[f] <= o[f].disk /\ limits[f] <= Accepted(o[f])
  /\ Elements(SubSeq(o["apps"].log, 1, limits["apps"] \div 2))
       \subseteq Elements(SubSeq(o["samples"].log, 1, limits["samples"] \div 2))

\* What is known of the latest snapshot: the files were at least as long; one
\* of an open store is a cut; one of a closed store is of the final files.
SnapInv ==
  /\ Sound(out)
  /\ \A f \in Streams : snap.limits[f] <= out[f].disk
  /\ snap.kind = "live" => Cut(out, snap.limits)
  /\ snap.kind = "closed" => phase = "closed" /\ snap.limits = DiskSizes(out)

\* A file that holds all its stream is cut at the end of a record.
LEMMA WholeStreams ==
  ASSUME NEW o \in [Streams -> Writer], Sound(o),
         \A f \in Streams : o[f].disk = Accepted(o[f])
  PROVE  Cut(o, DiskSizes(o))
<1>1. \A f \in Streams : /\ o[f] \in Writer /\ o[f].log \in Seq(Nat) /\ Len(o[f].log) \in Nat
                         /\ DiskSizes(o)[f] = 2 * Len(o[f].log)
                         /\ DiskSizes(o)[f] = o[f].disk /\ o[f].disk \in Nat
  BY DEF Writer, DiskSizes, Accepted
<1>2. ASSUME NEW n \in Nat
      PROVE  (2 * n) % 2 = 0 /\ (2 * n) \div 2 = n
  OBVIOUS
<1>3. \A f \in Streams : /\ DiskSizes(o)[f] % 2 = 0
                         /\ DiskSizes(o)[f] \div 2 = Len(o[f].log)
  BY <1>1, <1>2
<1>4. \A f \in Streams : SubSeq(o[f].log, 1, DiskSizes(o)[f] \div 2) = o[f].log
  BY <1>1, <1>3, SubSeqFull
<1>5. /\ SubSeq(o["apps"].log, 1, DiskSizes(o)["apps"] \div 2) = o["apps"].log
      /\ SubSeq(o["samples"].log, 1, DiskSizes(o)["samples"] \div 2) = o["samples"].log
  BY <1>4 DEF Streams
<1>6. \A f \in Streams : DiskSizes(o)[f] <= o[f].disk /\ DiskSizes(o)[f] <= Accepted(o[f])
  BY <1>1
<1> QED BY <1>3, <1>5, <1>6 DEF Cut, Sound

\* The rows below a limit that the file has reached are all accepted.
LEMMA LimitOfRows ==
  ASSUME NEW w \in Writer, Within(w), NEW l \in Nat, l <= w.disk
  PROVE  l \div 2 \in Nat /\ l \div 2 <= Len(w.log)
<1>1. Len(w.log) \in Nat /\ w.disk \in Nat
  BY DEF Writer
<1>2. ASSUME NEW n \in Nat, l <= 2 * n + 1
      PROVE  l \div 2 \in Nat /\ l \div 2 <= n
  BY <1>2
<1>3. l <= 2 * Len(w.log) + 1
  BY <1>1 DEF Within, Accepted
<1> QED BY <1>1, <1>2, <1>3

\* A cut stays one.
LEMMA CutStays ==
  ASSUME NEW o \in [Streams -> Writer], NEW p \in [Streams -> Writer], Sound(o), Grows(o, p),
         NEW limits \in [Streams -> Nat], Cut(o, limits)
  PROVE  Cut(p, limits)
<1>1. \A f \in Streams : /\ o[f] \in Writer /\ p[f] \in Writer /\ Grown(o[f], p[f]) /\ Within(o[f])
                         /\ limits[f] \in Nat /\ limits[f] <= o[f].disk /\ limits[f] <= Accepted(o[f])
  BY DEF Grows, Sound, Cut
<1>2. \A f \in Streams : SubSeq(p[f].log, 1, limits[f] \div 2) = SubSeq(o[f].log, 1, limits[f] \div 2)
  BY <1>1, LimitOfRows, GrownPrefix
<1>3. \A f \in Streams : limits[f] <= p[f].disk /\ limits[f] <= Accepted(p[f])
  <2> SUFFICES ASSUME NEW f \in Streams PROVE limits[f] <= p[f].disk /\ limits[f] <= Accepted(p[f])
    OBVIOUS
  <2>1. /\ Len(o[f].log) \in Nat /\ Len(p[f].log) \in Nat /\ o[f].disk \in Nat /\ p[f].disk \in Nat
        /\ Len(o[f].log) <= Len(p[f].log) /\ o[f].disk <= p[f].disk
    BY <1>1 DEF Writer, Grown
  <2>2. Accepted(o[f]) \in Nat /\ Accepted(p[f]) \in Nat /\ Accepted(o[f]) <= Accepted(p[f])
    <3>1. ASSUME NEW a \in Nat, NEW b \in Nat, a <= b
          PROVE  2 * a \in Nat /\ 2 * b \in Nat /\ 2 * a <= 2 * b
      BY <3>1
    <3> QED BY <2>1, <3>1 DEF Accepted
  <2>3. limits[f] \in Nat /\ limits[f] <= o[f].disk /\ limits[f] <= Accepted(o[f])
    BY <1>1
  <2> QED BY <2>1, <2>2, <2>3
<1>4. /\ SubSeq(p["apps"].log, 1, limits["apps"] \div 2) = SubSeq(o["apps"].log, 1, limits["apps"] \div 2)
      /\ SubSeq(p["samples"].log, 1, limits["samples"] \div 2)
           = SubSeq(o["samples"].log, 1, limits["samples"] \div 2)
  BY <1>2 DEF Streams
<1> QED BY <1>3, <1>4 DEF Cut

\* A session starts without a snapshot and with empty files.
LEMMA InitSnapInv == Init => SnapInv
<1> SUFFICES ASSUME Init PROVE SnapInv
  OBVIOUS
<1>1. \A f \in Streams : out[f].log = <<>> /\ out[f].disk = 0 /\ out[f].bad = FALSE
  BY DEF Init, EmptyWriter
<1>2. Len(<<>>) = 0
  OBVIOUS
<1>3. \A f \in Streams : Within(out[f])
  BY <1>1, <1>2 DEF Within, Accepted
<1>4. out["apps"].log = <<>> /\ out["samples"].log = <<>>
  BY <1>1 DEF Streams
<1>5. snap.kind = "none" /\ \A f \in Streams : snap.limits[f] = 0
  BY DEF Init, NoSnapshot
<1> QED BY <1>1, <1>3, <1>4, <1>5 DEF SnapInv, Sound

\* What a step that takes no snapshot leaves of it.
LEMMA SnapshotStays ==
  ASSUME IInv, IInv', SnapInv, Sound(out'), Grows(out, out'), UNCHANGED snap,
         phase = "closed" => UNCHANGED <<phase, out>>
  PROVE  SnapInv'
<1>1. /\ out \in [Streams -> Writer] /\ out' \in [Streams -> Writer]
      /\ snap.limits \in [Streams -> Nat]
  BY DEF IInv, TypeOK, Snapshots
<1>2. \A f \in Streams : snap'.limits[f] <= out'[f].disk
  <2> SUFFICES ASSUME NEW f \in Streams PROVE snap.limits[f] <= out'[f].disk
    OBVIOUS
  <2>1. out[f].disk \in Nat /\ out'[f].disk \in Nat /\ snap.limits[f] \in Nat
    BY <1>1 DEF Writer
  <2> QED BY <2>1 DEF SnapInv, Grows, Grown
<1>3. snap'.kind = "live" => Cut(out', snap'.limits)
  BY <1>1, CutStays DEF SnapInv
<1>4. snap'.kind = "closed" => phase' = "closed" /\ snap'.limits = DiskSizes(out')
  BY DEF SnapInv
<1> QED BY <1>2, <1>3, <1>4 DEF SnapInv, Sound, Cut, DiskSizes

\* Every step, or none, keeps what is known of the snapshot.
LEMMA StepSnapInv == IInv /\ IInv' /\ SnapInv /\ [Next]_vars => SnapInv'
<1> SUFFICES ASSUME IInv, IInv', SnapInv, [Next]_vars PROVE SnapInv'
  OBVIOUS
<1>0. /\ Sound(out') /\ Grows(out, out')
      /\ out \in [Streams -> Writer] /\ out' \in [Streams -> Writer]
  BY StepGrows DEF SnapInv, IInv, TypeOK
<1>1. CASE UNCHANGED snap /\ (phase = "closed" => UNCHANGED <<phase, out>>)
  BY <1>0, <1>1, SnapshotStays
<1>2. CASE SnapshotOpen
  <2>1. PICK r \in FlushPendingLocked :
          IF r.err # "ok" THEN UNCHANGED snap
          ELSE \E o \in FlushAll(r.out) :
                 /\ out' = o
                 /\ IF NoneBad(o) THEN snap' = [kind |-> "live", limits |-> DiskSizes(o)]
                    ELSE UNCHANGED snap
    BY <1>2 DEF SnapshotOpen
  <2>2. CASE UNCHANGED snap
    BY <1>1, <1>2, <2>2 DEF SnapshotOpen, Open
  <2>3. CASE /\ out' \in FlushAll(r.out) /\ NoneBad(out')
             /\ snap' = [kind |-> "live", limits |-> DiskSizes(out')]
    <3>1. r.out \in [Streams -> Writer]
      BY FlushPendingKeeps
    <3>2. \A f \in Streams : out'[f] \in Flushed(r.out[f]) /\ r.out[f] \in Writer
      BY <2>3, <3>1, FlushAllType
    <3>3. \A f \in Streams : out'[f].disk = Accepted(out'[f]) /\ DiskSizes(out')[f] = out'[f].disk
      BY <2>3, <3>2, FlushedType DEF NoneBad, DiskSizes
    <3>4. Cut(out', DiskSizes(out'))
      BY <1>0, <3>3, WholeStreams
    <3>5. snap'.kind = "live" /\ snap'.limits = DiskSizes(out')
      BY <2>3
    <3>6. \A f \in Streams : snap'.limits[f] <= out'[f].disk
      <4>1. \A f \in Streams : out'[f].disk \in Nat
        BY <1>0 DEF Writer
      <4> QED BY <3>3, <3>5, <4>1
    <3> QED BY <1>0, <3>4, <3>5, <3>6 DEF SnapInv, Sound, Cut
  <2> QED BY <2>1, <2>2, <2>3
<1>3. CASE SnapshotClosed \/ SnapshotDir
  <2>1. /\ UNCHANGED <<out, phase>> /\ snap'.limits = DiskSizes(out')
        /\ snap'.kind # "live" /\ (snap'.kind = "closed" => phase = "closed")
    BY <1>3 DEF SnapshotClosed, SnapshotDir, Closed
  <2>2. \A f \in Streams : snap'.limits[f] <= out'[f].disk
    <3>1. \A f \in Streams : out'[f].disk \in Nat /\ DiskSizes(out')[f] = out'[f].disk
      BY <1>0 DEF Writer, DiskSizes
    <3> QED BY <2>1, <3>1
  <2> QED BY <1>0, <2>1, <2>2 DEF SnapInv, Sound, DiskSizes
<1>4. CASE Sampler
  BY <1>1, <1>4 DEF Sampler, WriteSample, OfferSample, Takes, Refuse, Open, Closed
<1>5. CASE FlushPendingSample \/ WriteEvent \/ WriteTestRun \/ Flush
  BY <1>1, <1>5 DEF FlushPendingSample, WriteEvent, WriteTestRun, WriteRow, Flush, Refuse, Open, Closed
<1>6. CASE CloseSession \/ CloseFiles \/ CloseAgain \/ Crash \/ UNCHANGED vars
  BY <1>1, <1>6 DEF CloseSession, CloseFiles, CloseAgain, Crash, vars, Open
<1> QED BY <1>2, <1>3, <1>4, <1>5, <1>6 DEF Next, Snapshot

LEMMA SpecSnapInv == Spec => []SnapInv
BY InitSnapInv, StepSnapInv, SpecIInv, PTL DEF Spec

\* A snapshot the store vouches for is a consistent cut for any number of
\* samples, application rows and failing files: it ends at whole records, and
\* shows no application row without its sample, while the session goes on.
THEOREM SnapshotsAreCuts == Spec => []SnapshotConsistent
<1>1. IInv /\ SnapInv => SnapshotConsistent
  <2> SUFFICES ASSUME IInv, SnapInv, Trusted PROVE SnapshotConsistent
    BY DEF SnapshotConsistent
  <2>1. CASE snap.kind = "live"
    BY <2>1 DEF SnapInv, Cut, SnapshotConsistent, Visible
  <2>2. CASE snap.kind = "closed" /\ closeOk
    <3>1. /\ snap.limits = DiskSizes(out) /\ out \in [Streams -> Writer] /\ Sound(out)
          /\ \A f \in Streams : out[f].disk = Accepted(out[f])
      BY <2>2 DEF SnapInv, IInv, TypeOK, CloseOkMeansDurable, Closed
    <3>2. Cut(out, snap.limits)
      BY <3>1, WholeStreams
    <3> QED BY <3>2 DEF Cut, SnapshotConsistent, Visible
  <2> QED BY <2>1, <2>2 DEF Trusted
<1> QED BY <1>1, SpecIInv, SpecSnapInv, PTL

-----------------------------------------------------------------------------
(* The refinement of SessionLog. *)

\* The canonical rows of the session.
Rows == out["samples"].log

\* Writing out the pending sample adds at most one row.
LEMMA PendingAddsOne ==
  ASSUME IInv, NEW r \in FlushPendingLocked
  PROVE  \/ r.out["samples"].log = Rows
         \/ \E t \in Nat : r.out["samples"].log = Append(Rows, t)
<1>1. CASE pending = NoSample
  BY <1>1 DEF FlushPendingLocked, Rows
<1>2. CASE pending # NoSample
  <2>1. pending \in Sample /\ pending.time \in Nat
    BY DEF IInv, TypeOK, Sample
  <2>2. Committed(r, pending)
    BY <1>2, <2>1, WriteSampleCommits DEF FlushPendingLocked, IInv
  <2> QED BY <2>1, <2>2 DEF Committed, Rows
<1> QED BY <1>1, <1>2

\* No step adds more than one sample (store.go:285-333).
LEMMA StepAddsOne ==
  ASSUME IInv, [Next]_vars
  PROVE  Rows' = Rows \/ \E t \in Nat : Rows' = Append(Rows, t)
<1>0. out \in [Streams -> Writer]
  BY DEF IInv, TypeOK
<1>1. CASE out' = out
  BY <1>1 DEF Rows
<1>2. ASSUME NEW r \in FlushPendingLocked, out'["samples"].log = r.out["samples"].log
      PROVE  Rows' = Rows \/ \E t \in Nat : Rows' = Append(Rows, t)
  BY <1>2, PendingAddsOne DEF Rows
<1>3. ASSUME NEW o \in [Streams -> Writer], NEW x \in FlushAll(o)
      PROVE  x["samples"].log = o["samples"].log
  <2>1. \A f \in Streams : o[f] \in Writer /\ x[f] \in Flushed(o[f])
    BY FlushAllType
  <2> QED BY <2>1, FlushedType DEF Streams
<1>4. CASE Sampler
  <2>1. PICK t \in {clock, clock + 1}, n \in 0 .. MaxApps :
          WriteSample(t, n) \/ OfferSample(t, n)
    BY <1>4 DEF Sampler
  <2>2. CASE out' # out
    <3>1. PICK r \in WriteSampleLocked([time |-> t, apps |-> n]) : out' = r.out
      BY <2>1, <2>2 DEF WriteSample, OfferSample, Refuse
    <3>2. /\ [time |-> t, apps |-> n] \in Sample
          /\ t \in Nat /\ [time |-> t, apps |-> n].time = t
      BY StoreAssumption DEF IInv, TypeOK, Sample
    <3>3. Committed(r, [time |-> t, apps |-> n])
      BY <3>1, <3>2, WriteSampleCommits DEF IInv
    <3> QED BY <3>1, <3>2, <3>3 DEF Committed, Rows
  <2> QED BY <1>1, <2>2
<1>5. CASE FlushPendingSample \/ CloseSession
  BY <1>1, <1>2, <1>5 DEF FlushPendingSample, CloseSession, Refuse
<1>6. CASE WriteEvent \/ WriteTestRun
  <2>1. out' = out \/ \E f \in {"events", "tests"} : \E w : out' = [out EXCEPT ![f] = w]
    BY <1>6 DEF WriteEvent, WriteTestRun, WriteRow, Refuse
  <2>2. out'["samples"] = out["samples"]
    BY <1>0, <2>1 DEF Streams
  <2> QED BY <2>2 DEF Rows
<1>7. CASE Flush \/ CloseFiles
  <2>1. out' = out \/ out' \in FlushAll(out)
    BY <1>7 DEF Flush, CloseFiles, Refuse
  <2> QED BY <1>0, <1>1, <1>3, <2>1 DEF Rows
<1>8. CASE SnapshotOpen
  <2>1. PICK r \in FlushPendingLocked : out' = r.out \/ out' \in FlushAll(r.out)
    BY <1>8 DEF SnapshotOpen
  <2>2. r.out \in [Streams -> Writer]
    BY FlushPendingKeeps
  <2> QED BY <1>2, <1>3, <2>1, <2>2
<1>9. CASE SnapshotClosed \/ SnapshotDir \/ CloseAgain \/ Crash \/ UNCHANGED vars
  BY <1>1, <1>9 DEF SnapshotClosed, SnapshotDir, CloseAgain, Crash, vars
<1> QED BY <1>4, <1>5, <1>6, <1>7, <1>8, <1>9 DEF Next, Snapshot

\* Half of a file's length is the number of its whole rows: it only grows and
\* never exceeds the rows of the stream.
LEMMA HalvesGrow ==
  ASSUME NEW w \in Writer, NEW x \in Writer, Within(w), Within(x), Grown(w, x)
  PROVE  /\ w.disk \div 2 \in Nat /\ x.disk \div 2 \in Nat
         /\ w.disk \div 2 <= x.disk \div 2
         /\ x.disk \div 2 <= Len(x.log)
<1>1. w.disk \in Nat /\ x.disk \in Nat /\ w.disk <= x.disk
  BY DEF Writer, Grown
<1>2. ASSUME NEW a \in Nat, NEW b \in Nat, a <= b
      PROVE  a \div 2 <= b \div 2
  BY <1>2
<1>3. ASSUME NEW v \in Writer, Within(v)
      PROVE  v.disk \div 2 \in Nat /\ v.disk \div 2 <= Len(v.log)
  <2>1. v.disk \in Nat /\ v.disk <= v.disk
    BY DEF Writer
  <2> QED BY <1>3, <2>1, LimitOfRows
<1> QED BY <1>1, <1>2, <1>3

\* Seen as the log: at most one later sample is added at the end, and the
\* durable part only grows, whatever the step is.
LEMMA StepGrowsLog ==
  ASSUME IInv, IInv', SnapInv, [Next]_vars
  PROVE  Log!Grow /\ Log!Sync
<1>0. /\ Sound(out) /\ Sound(out') /\ Grows(out, out')
      /\ out \in [Streams -> Writer] /\ out' \in [Streams -> Writer]
  BY StepGrows DEF SnapInv, IInv, TypeOK
<1>1. /\ out["samples"] \in Writer /\ out'["samples"] \in Writer
      /\ Within(out["samples"]) /\ Within(out'["samples"])
      /\ Grown(out["samples"], out'["samples"])
  BY <1>0 DEF Streams, Sound, Grows
<1>2. Log!Sync
  <2>1. Len(out'["samples"].log) \in Nat
    BY <1>1 DEF Writer
  <2> QED BY <1>1, <2>1, HalvesGrow DEF Log!Sync
<1>3. CASE Rows' = Rows
  BY <1>2, <1>3 DEF Rows, Log!Grow
<1>4. ASSUME NEW t \in Nat, Rows' = Append(Rows, t)
      PROVE  Log!Grow /\ Log!Sync
  <2>1. Rows \in Seq(Nat) /\ Len(Rows) \in Nat /\ Len(Rows) <= Len(Rows)
    BY <1>1 DEF Rows, Writer
  <2>2. Len(Rows') = Len(Rows) + 1
    BY <1>4, <2>1, AppendProperties
  <2>3. SubSeq(Rows', 1, Len(Rows)) = SubSeq(Rows, 1, Len(Rows))
    BY <1>1, <2>1, GrownPrefix DEF Rows
  <2>4. SubSeq(Rows, 1, Len(Rows)) = Rows
    BY <2>1, SubSeqFull
  <2>5. Log!Ascending(Rows')
    BY DEF IInv, InOrder, Increasing, Log!Ascending, Rows
  <2> QED BY <1>2, <2>2, <2>3, <2>4, <2>5 DEF Log!Grow, Rows
<1> QED BY <1>3, <1>4, StepAddsOne

\* What the latest reader was given does not change under it.
LEMMA ViewStays ==
  ASSUME IInv, IInv', SnapInv, [Next]_vars, UNCHANGED snap
  PROVE  Visible("samples")' = Visible("samples")
<1>0. /\ Grows(out, out') /\ Sound(out)
      /\ out \in [Streams -> Writer] /\ out' \in [Streams -> Writer]
      /\ snap.limits \in [Streams -> Nat]
  BY StepGrows DEF SnapInv, IInv, TypeOK, Snapshots
<1> DEFINE l == snap.limits["samples"]
<1>1. /\ out["samples"] \in Writer /\ out'["samples"] \in Writer
      /\ Within(out["samples"]) /\ Grown(out["samples"], out'["samples"])
      /\ l \in Nat /\ l <= out["samples"].disk
  BY <1>0 DEF Streams, Sound, Grows, SnapInv
<1>2. l \div 2 \in Nat /\ l \div 2 <= Len(out["samples"].log)
  BY <1>1, LimitOfRows
<1>3. SubSeq(out'["samples"].log, 1, l \div 2) = SubSeq(out["samples"].log, 1, l \div 2)
  BY <1>1, <1>2, GrownPrefix
<1> QED BY <1>3 DEF Visible

\* A snapshot of an open store shows its reader the whole log, or fails and
\* is like any other operation.
LEMMA SnapshotCaptures ==
  ASSUME IInv, IInv', SnapInv, SnapshotOpen
  PROVE  Log!Capture \/ Log!Record
<1>0. [Next]_vars /\ phase = "open" /\ phase' = "open"
  BY DEF Next, Snapshot, SnapshotOpen, Open
<1>1. Log!Grow /\ Log!Sync
  BY <1>0, StepGrowsLog
<1>2. CASE UNCHANGED snap
  <2>1. Visible("samples")' = Visible("samples")
    BY <1>0, <1>2, ViewStays
  <2> QED BY <1>0, <1>1, <2>1 DEF Log!Record
<1>3. CASE ~UNCHANGED snap
  <2>1. PICK r \in FlushPendingLocked :
          /\ out' \in FlushAll(r.out) /\ NoneBad(out')
          /\ snap' = [kind |-> "live", limits |-> DiskSizes(out')]
    BY <1>3 DEF SnapshotOpen
  <2>2. r.out \in [Streams -> Writer]
    BY FlushPendingKeeps
  <2>3. out'["samples"] \in Flushed(r.out["samples"]) /\ r.out["samples"] \in Writer
    BY <2>1, <2>2, FlushAllType DEF Streams
  <2>4. out'["samples"].disk = Accepted(out'["samples"]) /\ out'["samples"] \in Writer
    BY <2>1, <2>3, FlushedType DEF NoneBad, Streams
  <2>5. Rows' \in Seq(Nat) /\ Len(Rows') \in Nat
    BY <2>4 DEF Writer, Rows
  <2>6. out'["samples"].disk \div 2 = Len(Rows')
    <3>1. ASSUME NEW n \in Nat PROVE (2 * n) \div 2 = n
      OBVIOUS
    <3> QED BY <2>4, <2>5, <3>1 DEF Accepted, Rows
  <2>7. snap'.limits["samples"] = out'["samples"].disk
    BY <2>1 DEF DiskSizes, Streams
  <2>8. Visible("samples")' = Rows'
    <3>1. Visible("samples")' = SubSeq(Rows', 1, Len(Rows'))
      BY <2>6, <2>7 DEF Visible, Rows
    <3> QED BY <2>5, <3>1, SubSeqFull
  <2> QED BY <1>0, <1>1, <2>6, <2>8 DEF Log!Capture, Rows
<1> QED BY <1>2, <1>3

\* Every step of the store is a step of the log or invisible to it.
LEMMA StepOfLog ==
  IInv /\ IInv' /\ SnapInv /\ [Next]_vars => [Log!AbsNext]_(Log!absVars)
<1> SUFFICES ASSUME IInv, IInv', SnapInv, [Next]_vars
             PROVE  Log!AbsNext \/ UNCHANGED Log!absVars
  OBVIOUS
<1>1. Log!Grow /\ Log!Sync
  BY StepGrowsLog
<1>2. UNCHANGED snap => Visible("samples")' = Visible("samples")
  BY ViewStays
<1>3. CASE UNCHANGED <<out, snap, phase>>
  BY <1>3 DEF Log!absVars, Visible
<1>4. CASE phase = "open" /\ UNCHANGED <<snap, phase>>
  BY <1>1, <1>2, <1>4 DEF Log!AbsNext, Log!Record
<1>5. CASE Sampler
  BY <1>3, <1>4, <1>5 DEF Sampler, WriteSample, OfferSample, Takes, Refuse, Open
<1>6. CASE FlushPendingSample \/ WriteEvent \/ WriteTestRun \/ Flush
  BY <1>3, <1>4, <1>6 DEF FlushPendingSample, WriteEvent, WriteTestRun, WriteRow, Flush, Refuse, Open
<1>7. CASE SnapshotOpen
  BY <1>7, SnapshotCaptures DEF Log!AbsNext
<1>8. CASE SnapshotClosed \/ SnapshotDir
  <2>1. /\ phase = "closed" \/ ExternalReader
        /\ UNCHANGED <<out, phase>> /\ snap'.limits = DiskSizes(out)
    BY <1>8 DEF SnapshotClosed, SnapshotDir, Closed
  <2>2. snap'.limits["samples"] = out["samples"].disk
    BY <2>1 DEF DiskSizes, Streams
  <2> QED BY <2>1, <2>2 DEF Log!AbsNext, Log!ReadFiles, Visible
<1>9. CASE CloseSession
  <2>1. phase = "open" /\ phase' = "closing" /\ UNCHANGED snap
    BY <1>9 DEF CloseSession, Open
  <2> QED BY <1>1, <1>2, <2>1 DEF Log!AbsNext, Log!BeginClose
<1>10. CASE CloseFiles
  <2>1. /\ phase = "closing" /\ phase' = "closed" /\ UNCHANGED snap
        /\ out' \in FlushAll(out)
    BY <1>10 DEF CloseFiles
  <2>2. out["samples"] \in Writer /\ out'["samples"] \in Flushed(out["samples"])
    BY <2>1, FlushAllType DEF IInv, TypeOK, Streams
  <2>3. out'["samples"].log = out["samples"].log
    BY <2>2, FlushedType
  <2> QED BY <1>1, <1>2, <2>1, <2>3 DEF Log!AbsNext, Log!FinishClose
<1>11. CASE Crash
  BY <1>11 DEF Crash, Log!AbsNext, Log!Lose, Visible
<1>12. CASE UNCHANGED vars
  BY <1>3, <1>12 DEF vars
<1>13. CASE CloseAgain
  BY <1>3, <1>13 DEF CloseAgain
<1> QED BY <1>5, <1>6, <1>7, <1>8, <1>9, <1>10, <1>11, <1>12, <1>13 DEF Next, Snapshot

\* The store implements SessionLog for every value of its constants: its sample
\* stream is an append-only log in the order of time, its durable part only
\* grows, and a reader is given a prefix that stays what it was.
THEOREM StoreImplementsLog == Spec => ImplementsSessionLog
<1>1. Init => Log!AbsInit
  <2> SUFFICES ASSUME Init PROVE Log!AbsInit
    OBVIOUS
  <2>1. /\ out["samples"].log = <<>> /\ out["samples"].disk = 0
        /\ snap.limits["samples"] = 0 /\ phase = "open"
    BY DEF Init, EmptyWriter, NoSnapshot, Streams
  <2>2. 0 \div 2 = 0 /\ SubSeq(<<>>, 1, 0) = <<>>
    BY SubSeqEmpty
  <2> QED BY <2>1, <2>2 DEF Log!AbsInit, Visible
<1> QED
  BY <1>1, StepOfLog, SpecIInv, SpecSnapInv, PTL
     DEF Spec, ImplementsSessionLog, Log!AbsSpec
=============================================================================
