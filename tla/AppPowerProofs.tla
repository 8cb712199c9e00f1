---------------------------- MODULE AppPowerProofs ----------------------------
(***************************************************************************)
(* Proofs about AppPower for every value of its constants, whichever       *)
(* writes fail and wherever the process is killed: every sample of the     *)
(* worker is in the log once at most, in the order of the worker; the      *)
(* summaries are those of beginnings of the log; the published scores are  *)
(* those of the records; a line of high confidence has its baseline; the   *)
(* shares of a line fill its power up to rounding; and the state stays     *)
(* within its types and bounds.                                            *)
(***************************************************************************)
EXTENDS AppPower, SequenceFacts

-----------------------------------------------------------------------------
(* The log. *)

\* The lines of a log, those in its buffer included.
Lines(l) == l.jsonl \o l.buffer

LogOK(l) ==
  /\ DOMAIN l = {"last_id", "last_at", "totals", "jsonl", "buffer", "json", "csv"}
  /\ IsSeq(l.jsonl) /\ IsSeq(l.buffer)

\* A line is added at the end, whether or not it can be flushed.
LEMMA AppendedAdds ==
  ASSUME NEW l, LogOK(l), NEW line, NEW flushes
  PROVE  LET w == Appended(l, line, flushes)
         IN /\ LogOK(w) /\ w.last_id = l.last_id /\ w.last_at = l.last_at
            /\ Lines(w) = Append(Lines(l), line)
<1> DEFINE w == Appended(l, line, flushes)
           a == l.jsonl
           b == l.buffer
<1>1. /\ DOMAIN w = DOMAIN l /\ w.last_id = l.last_id /\ w.last_at = l.last_at
      /\ \/ w.jsonl = a \o b \o <<line>> /\ w.buffer = <<>>
         \/ w.jsonl = a /\ w.buffer = Append(b, line)
  BY DEF Appended, LogOK
<1>2. IsSeq(a) /\ IsSeq(b)
  BY DEF LogOK
<1> HIDE DEF w, a, b
<1>3. IsSeq(<<>>) /\ IsSeq(<<line>>)
  BY ShortSeq
<1>4. CASE w.jsonl = a \o b \o <<line>> /\ w.buffer = <<>>
  <2>1. IsSeq(a \o b) /\ IsSeq(a \o b \o <<line>>)
    BY <1>2, <1>3, ConcatSeq
  <2>2. (a \o b \o <<line>>) \o <<>> = a \o b \o <<line>>
    BY <2>1, ConcatSeq
  <2>3. Append(a \o b, line) = a \o b \o <<line>>
    BY <2>1, AppendSeq
  <2>4. LogOK(w)
    BY <1>1, <1>3, <1>4, <2>1 DEF LogOK
  <2>5. Lines(w) = Append(Lines(l), line)
    BY <1>4, <2>2, <2>3 DEF Lines, a, b
  <2> QED BY <1>1, <2>4, <2>5 DEF w
<1>5. CASE w.jsonl = a /\ w.buffer = Append(b, line)
  <2>1. IsSeq(Append(b, line))
    BY <1>2, AppendSeq
  <2>2. a \o Append(b, line) = Append(a \o b, line)
    BY <1>2, AppendToSecond
  <2>3. LogOK(w)
    BY <1>1, <1>2, <1>5, <2>1 DEF LogOK
  <2>4. Lines(w) = Append(Lines(l), line)
    BY <1>5, <2>2 DEF Lines, a, b
  <2> QED BY <1>1, <2>3, <2>4 DEF w
<1> QED BY <1>1, <1>4, <1>5

\* The parts of a log that say which samples it has.
SameLines(l, w) ==
  /\ LogOK(w) /\ w.last_id = l.last_id /\ w.last_at = l.last_at
  /\ w.jsonl = l.jsonl /\ w.buffer = l.buffer

\* The summaries are no lines.
LEMMA FlushAddsNothing ==
  ASSUME NEW l, LogOK(l), NEW files
  PROVE  SameLines(l, FlushSummary(l, files))
<1> DEFINE w == FlushSummary(l, files)
<1>1. /\ DOMAIN w = DOMAIN l /\ w.last_id = l.last_id /\ w.last_at = l.last_at
      /\ w.jsonl = l.jsonl /\ w.buffer = l.buffer
  BY DEF FlushSummary, LogOK
<1> HIDE DEF w
<1>2. SameLines(l, w)
  BY <1>1 DEF SameLines, LogOK
<1> QED BY <1>2 DEF w

\* Counting a sample marks it as the last one and adds no line.
LEMMA CountedMarks ==
  ASSUME NEW l, LogOK(l), NEW result
  PROVE  LET w == Counted(l, result)
         IN /\ LogOK(w) /\ w.jsonl = l.jsonl /\ w.buffer = l.buffer
            /\ w.last_id = result.sample_id /\ w.last_at = result.at
<1> DEFINE w == Counted(l, result)
<1>1. /\ DOMAIN w = DOMAIN l /\ w.jsonl = l.jsonl /\ w.buffer = l.buffer
      /\ w.last_id = result.sample_id /\ w.last_at = result.at
  BY DEF Counted, LogOK
<1> HIDE DEF w
<1>2. LogOK(w)
  BY <1>1 DEF LogOK
<1> QED BY <1>1, <1>2 DEF w

\* However far a write gets, the sample is the last one of the log and its
\* line is at the end of the log.
LEMMA WriteAdds ==
  ASSUME NEW l, LogOK(l), NEW result, NEW reach
  PROVE  LET w == Write(l, result, reach)
         IN /\ LogOK(w) /\ w.last_id = result.sample_id /\ w.last_at = result.at
            /\ Lines(w) = Append(Lines(l), Line(result, IntervalOf(l, result)))
<1> DEFINE counted == Counted(l, result)
           line    == Line(result, IntervalOf(l, result))
           written == Appended(counted, line, reach > 0)
           w       == Write(l, result, reach)
<1>1. /\ LogOK(counted) /\ counted.jsonl = l.jsonl /\ counted.buffer = l.buffer
      /\ counted.last_id = result.sample_id /\ counted.last_at = result.at
  BY CountedMarks
<1>2. w = IF SummaryDue(counted) THEN FlushSummary(written, reach - 1) ELSE written
  BY DEF Write
<1> HIDE DEF counted, line
<1>4. Lines(counted) = Lines(l)
  BY <1>1 DEF Lines
<1>5. /\ LogOK(written) /\ written.last_id = result.sample_id /\ written.last_at = result.at
      /\ Lines(written) = Append(Lines(l), line)
  <2>1. /\ LogOK(written) /\ written.last_id = counted.last_id /\ written.last_at = counted.last_at
        /\ Lines(written) = Append(Lines(counted), line)
    BY <1>1, AppendedAdds
  <2> HIDE DEF written
  <2> QED BY <1>1, <1>4, <2>1
<1> HIDE DEF written
<1>6. SameLines(written, w) \/ w = written
  BY <1>2, <1>5, FlushAddsNothing
<1> HIDE DEF w
<1>7. /\ LogOK(w) /\ w.last_id = result.sample_id /\ w.last_at = result.at
      /\ Lines(w) = Append(Lines(l), line)
  BY <1>5, <1>6 DEF SameLines, Lines
<1> QED BY <1>7 DEF w, line

-----------------------------------------------------------------------------
(* The invariant. *)

(* The samples of the lines rise, up to last.                              *)
Rising(L, last) ==
  /\ \A i \in 1..Len(L) : L[i].sample_id \in Nat /\ L[i].sample_id <= last
  /\ \A i, j \in 1..Len(L) : i < j => L[i].sample_id < L[j].sample_id

(* What the log has of the samples, of which s is the published one.       *)
LogGood(l, s) ==
  /\ LogOK(l)
  /\ l.last_id = None => Len(Lines(l)) = 0
  /\ l.last_id # None =>
       /\ l.last_id \in Nat /\ l.last_id <= s.sample_id /\ Rising(Lines(l), l.last_id)
       /\ l.last_id = s.sample_id => l.last_at = s.at

(* The sample the worker takes is a later one than the published.          *)
WorkerGood(w) ==
  /\ DOMAIN w = {"alive", "stopping", "id", "due", "started", "cache", "outcome", "snapshot"}
  /\ w.id \in Nat /\ w.snapshot.sample_id \in Nat /\ w.snapshot.sample_id <= w.id
  /\ w.started # None => w.snapshot.sample_id < w.id

IInv == WorkerGood(worker) /\ LogGood(log, worker.snapshot)

\* A log with the same lines is as good.
LEMMA SameGood ==
  ASSUME NEW l, NEW w, NEW s, LogGood(l, s), LogOK(w), Lines(w) = Lines(l),
         w.last_id = l.last_id, w.last_at = l.last_at
  PROVE  LogGood(w, s)
BY DEF LogGood

\* A line of a later sample goes to the end of the log.
LEMMA RisingAppend ==
  ASSUME NEW L, IsSeq(L), NEW last \in Nat, Rising(L, last), NEW line, NEW id \in Nat,
         line.sample_id = id, last < id
  PROVE  Rising(Append(L, line), id)
<1> DEFINE M == Append(L, line)
           n == Len(L)
<1>1. /\ n \in Nat /\ Len(M) = n + 1 /\ M[n + 1] = line /\ \A i \in 1..n : M[i] = L[i]
  BY AppendSeq
<1> HIDE DEF M
<1>2. /\ \A i \in 1..n : L[i].sample_id \in Nat /\ L[i].sample_id <= last
      /\ \A i, j \in 1..n : i < j => L[i].sample_id < L[j].sample_id
  BY DEF Rising
<1> HIDE DEF n
<1>3. \A i \in 1..Len(M) : i \in 1..n \/ i = n + 1
  BY <1>1
<1>4. \A i \in 1..n : M[i].sample_id \in Nat /\ M[i].sample_id < id
  BY <1>1, <1>2
<1>5. ASSUME NEW i \in 1..Len(M)
      PROVE  M[i].sample_id \in Nat /\ M[i].sample_id <= id
  BY <1>1, <1>3, <1>4
<1>6. ASSUME NEW i \in 1..Len(M), NEW j \in 1..Len(M), i < j
      PROVE  M[i].sample_id < M[j].sample_id
  <2>1. i \in 1..n
    BY <1>1, <1>3, <1>6
  <2>2. CASE j \in 1..n
    BY <1>1, <1>2, <1>6, <2>1, <2>2
  <2>3. CASE j = n + 1
    BY <1>1, <1>4, <2>1, <2>3
  <2> QED BY <1>3, <2>2, <2>3
<1> QED BY <1>5, <1>6 DEF Rising, M

\* Writing the published sample, which the log does not have, keeps the log
\* good, however far the write gets.
LEMMA WriteGood ==
  ASSUME NEW l, NEW s, LogGood(l, s), s.sample_id \in Nat, NEW result,
         result.sample_id = s.sample_id, result.at = s.at, IsNew(l, result), NEW reach
  PROVE  LogGood(Write(l, result, reach), s)
<1> DEFINE w == Write(l, result, reach)
           L == Lines(l)
           id == s.sample_id
<1>1. LogOK(l)
  BY DEF LogGood
<1>2. LogOK(w) /\ w.last_id = result.sample_id /\ w.last_at = result.at
  BY <1>1, WriteAdds
<1>3. PICK line : line.sample_id = result.sample_id /\ Lines(w) = Append(L, line)
  <2> DEFINE added == Line(result, IntervalOf(l, result))
  <2>1. added.sample_id = result.sample_id
    BY DEF Line
  <2>2. Lines(w) = Append(L, added)
    BY <1>1, WriteAdds
  <2> HIDE DEF added, w, L
  <2> QED BY <2>1, <2>2
<1>4. IsSeq(L)
  BY <1>1, ConcatSeq DEF LogOK, Lines
<1> HIDE DEF w
<1>5. id \in Nat /\ line.sample_id = id /\ w.last_id = id /\ w.last_at = s.at /\ id # None
  BY <1>2, <1>3, DistinctMarks
<1>6. Rising(Append(L, line), id)
  <2>1. CASE l.last_id = None
    <3>1. Len(L) = 0
      BY <2>1 DEF LogGood
    <3> HIDE DEF L, id
    <3>2. Len(Append(L, line)) = 1 /\ Append(L, line)[1] = line
      BY <1>4, <3>1, AppendSeq
    <3> QED BY <1>5, <3>2 DEF Rising
  <2>2. CASE l.last_id # None
    <3>1. /\ l.last_id \in Nat /\ l.last_id <= id /\ Rising(L, l.last_id)
          /\ l.last_id # id
      BY <2>2 DEF LogGood, IsNew
    <3> DEFINE last == l.last_id
    <3>2. last \in Nat /\ last < id /\ Rising(L, last)
      BY <1>5, <3>1
    <3> HIDE DEF L, id, last
    <3> QED BY <1>4, <1>5, <3>2, RisingAppend
  <2> QED BY <2>1, <2>2
<1>7. LogGood(w, s)
  BY <1>2, <1>3, <1>5, <1>6 DEF LogGood
<1> QED BY <1>7 DEF w

\* An attribution speaks of the published sample.
LEMMA AttributesPublished ==
  ASSUME NEW row, NEW s, NEW h, NEW t
  PROVE  LET result == Attribute(row, s, h, t) IN result.sample_id = s.sample_id /\ result.at = s.at
BY DEF Attribute, Shares

\* The invariant in every reachable state.
LEMMA LogInvariant == Spec => []IInv
<1>1. Init => IInv
  <2> SUFFICES ASSUME Init PROVE IInv
    OBVIOUS
  <2>1. /\ DOMAIN worker = {"alive", "stopping", "id", "due", "started", "cache", "outcome", "snapshot"}
        /\ worker.id = 0 /\ worker.snapshot.sample_id = 0 /\ worker.started = None
    BY DEF Init, Starting
  <2>2. WorkerGood(worker)
    BY <2>1 DEF WorkerGood
  <2>3. /\ DOMAIN log = {"last_id", "last_at", "totals", "jsonl", "buffer", "json", "csv"}
        /\ log.last_id = None /\ log.jsonl = <<>> /\ log.buffer = <<>>
    BY DEF Init, EmptyLog
  <2>4. IsSeq(<<>>) /\ Len(<<>>) = 0 /\ <<>> \o <<>> = <<>>
    BY ShortSeq, ConcatSeq
  <2> QED BY <2>2, <2>3, <2>4 DEF IInv, LogGood, LogOK, Lines
<1>2. IInv /\ [Next]_vars => IInv'
  <2> SUFFICES ASSUME IInv, [Next]_vars PROVE IInv'
    OBVIOUS
  <2>1. WorkerGood(worker) /\ LogGood(log, worker.snapshot) /\ LogOK(log)
    BY DEF IInv, LogGood
  <2>2. CASE BeginSample
    <3>1. /\ worker' = [worker EXCEPT !.id = @ + 1, !.started = now] /\ log' = log
          /\ worker.started = None
      BY <2>2 DEF BeginSample
    <3>2. WorkerGood(worker') /\ worker'.snapshot = worker.snapshot
      BY <2>1, <3>1 DEF WorkerGood
    <3> QED BY <2>1, <3>1, <3>2 DEF IInv
  <2>3. CASE EndSample
    <3>1. PICK o \in DOMAIN Outcomes : \E sample \in {Sample(Outcomes[o], worker.cache)} :
            worker' = IF sample.status = "uncaught"
                      THEN [worker EXCEPT !.alive = FALSE, !.started = None]
                      ELSE Published(sample, o)
      BY <2>3 DEF EndSample
    <3>2. PICK sample \in {Sample(Outcomes[o], worker.cache)} :
            worker' = IF sample.status = "uncaught"
                      THEN [worker EXCEPT !.alive = FALSE, !.started = None]
                      ELSE Published(sample, o)
      BY <3>1
    <3>3. log' = log /\ worker.started # None
      BY <2>3 DEF EndSample
    <3>4. CASE worker' = [worker EXCEPT !.alive = FALSE, !.started = None]
      <4>1. WorkerGood(worker') /\ worker'.snapshot = worker.snapshot
        BY <2>1, <3>4 DEF WorkerGood
      <4> QED BY <2>1, <3>3, <4>1 DEF IInv
    <3>5. CASE worker' = Published(sample, o)
      <4>1. /\ DOMAIN worker' = DOMAIN worker /\ worker'.id = worker.id /\ worker'.started = None
            /\ worker'.snapshot.sample_id = worker.id
        BY <2>1, <3>5 DEF WorkerGood, Published
      <4>2. WorkerGood(worker') /\ worker.snapshot.sample_id < worker'.snapshot.sample_id
        BY <2>1, <3>3, <4>1 DEF WorkerGood
      <4> DEFINE s == worker.snapshot
                 r == worker'.snapshot
      <4>3. LogGood(log, s) /\ s.sample_id \in Nat /\ r.sample_id \in Nat /\ s.sample_id < r.sample_id
        BY <2>1, <4>2 DEF WorkerGood
      <4> HIDE DEF s, r
      <4>4. LogGood(log, r)
        BY <4>3 DEF LogGood
      <4> QED BY <3>3, <4>2, <4>4 DEF IInv, r
    <3> QED BY <3>2, <3>4, <3>5
  <2>4. CASE EndThread \/ Quit
    <3>1. log' = log /\ (worker' = [worker EXCEPT !.alive = FALSE] \/ worker' = [worker EXCEPT !.stopping = TRUE])
      BY <2>4 DEF EndThread, Quit
    <3>2. WorkerGood(worker') /\ worker'.snapshot = worker.snapshot
      BY <2>1, <3>1 DEF WorkerGood
    <3> QED BY <2>1, <3>1, <3>2 DEF IInv
  <2>5. CASE Row
    <3>1. PICK dt \in Steps, r \in DOMAIN Rows :
            \E result \in {Attribute(Rows[r], worker.snapshot, history, now + dt)} :
              \/ log' = log
              \/ IsNew(log, result) /\ \E reach : log' = Write(log, result, reach)
      BY <2>5 DEF Row
    <3> DEFINE s == worker.snapshot
               result == Attribute(Rows[r], s, history, now + dt)
    <3>2. \/ log' = log
          \/ IsNew(log, result) /\ \E reach : log' = Write(log, result, reach)
      BY <3>1
    <3>3. result.sample_id = s.sample_id /\ result.at = s.at
      BY AttributesPublished
    <3>4. LogGood(log, s) /\ s.sample_id \in Nat
      BY <2>1 DEF WorkerGood
    <3>5. worker' = worker
      BY <2>5 DEF Row
    <3> HIDE DEF result
    <3>6. LogGood(log', s)
      BY <3>2, <3>3, <3>4, WriteGood
    <3> QED BY <2>1, <3>5, <3>6 DEF IInv
  <2>6. CASE Close
    <3>1. PICK files \in 0..2, flushes \in BOOLEAN : log' = CloseLog(log, files, flushes)
      BY <2>6 DEF Close
    <3> DEFINE flushed == FlushSummary(log, files)
               shut == [flushed EXCEPT !.jsonl = @ \o flushed.buffer, !.buffer = << >>]
    <3>2. SameLines(log, flushed)
      BY <2>1, FlushAddsNothing
    <3>3. log' = IF flushes THEN shut ELSE flushed
      BY <3>1 DEF CloseLog
    <3> HIDE DEF flushed
    <3>4. LogGood(flushed, worker.snapshot)
      BY <2>1, <3>2, SameGood DEF SameLines, Lines
    <3>5. LogGood(shut, worker.snapshot)
      <4>1. LogOK(flushed)
        BY <3>2 DEF SameLines
      <4>2. /\ DOMAIN shut = DOMAIN flushed /\ shut.last_id = flushed.last_id /\ shut.last_at = flushed.last_at
            /\ shut.jsonl = flushed.jsonl \o flushed.buffer /\ shut.buffer = <<>>
        BY <4>1 DEF LogOK
      <4> HIDE DEF shut
      <4>3. IsSeq(flushed.jsonl) /\ IsSeq(flushed.buffer)
        BY <4>1 DEF LogOK
      <4>4. IsSeq(<<>>) /\ IsSeq(Lines(flushed)) /\ Lines(flushed) \o <<>> = Lines(flushed)
        BY <4>3, ShortSeq, ConcatSeq DEF Lines
      <4>5. LogOK(shut) /\ Lines(shut) = Lines(flushed)
        BY <4>1, <4>2, <4>4 DEF LogOK, Lines
      <4> QED BY <3>4, <4>2, <4>5, SameGood
    <3>6. worker' = [worker EXCEPT !.alive = FALSE]
      BY <2>6 DEF Close
    <3>7. WorkerGood(worker') /\ worker'.snapshot = worker.snapshot
      BY <2>1, <3>6 DEF WorkerGood
    <3> HIDE DEF shut
    <3> QED BY <3>3, <3>4, <3>5, <3>7 DEF IInv
  <2>7. CASE UNCHANGED vars
    <3>1. worker' = worker /\ log' = log
      BY <2>7 DEF vars
    <3> QED BY <2>1, <3>1 DEF IInv
  <2> QED BY <2>2, <2>3, <2>4, <2>5, <2>6, <2>7 DEF Next
<1> QED BY <1>1, <1>2, PTL DEF Spec

-----------------------------------------------------------------------------
(* The order of the samples. *)

\* Every sample of the worker is in the log once at most and in the worker's
\* order, and the last one logged is dated by its own publication: the thread
\* publishes while the loop writes, any write may fail, and what a failed
\* flush leaves in the buffer may be written later or be lost, which leaves a
\* beginning of these lines (AppPowerSessionLogger.write, last_sample_id).
THEOREM SamplesLoggedOnce == Spec => []SampleLoggedOnce
<1>1. IInv => SampleLoggedOnce
  <2> SUFFICES ASSUME IInv PROVE SampleLoggedOnce
    OBVIOUS
  <2>1. LogGood(log, worker.snapshot) /\ worker.snapshot.sample_id \in Nat
    BY DEF IInv, WorkerGood
  <2>2. log.last_id = worker.snapshot.sample_id => log.last_at = worker.snapshot.at
    BY <2>1, DistinctMarks DEF LogGood
  <2> DEFINE a == log.jsonl
             b == log.buffer
             L == Lines(log)
  <2>3. IsSeq(a) /\ IsSeq(b) /\ L = a \o b
    BY <2>1 DEF LogGood, LogOK, Lines
  <2>4. \A i, j \in 1..Len(L) : i < j => L[i].sample_id < L[j].sample_id
    BY <2>1 DEF LogGood, Rising
  <2> HIDE DEF a, b, L
  <2>5. IsSeq(L)
    BY <2>3, ConcatSeq
  <2>6. DOMAIN L = 1..Len(L)
    BY <2>5, SeqDomain
  <2>8. \A i, j \in DOMAIN Written : i < j => Written[i].sample_id < Written[j].sample_id
    <3>1. Written = L
      BY DEF Written, L, Lines
    <3> QED BY <2>4, <2>6, <3>1
  <2> QED BY <2>2, <2>8 DEF SampleLoggedOnce
<1> QED BY <1>1, LogInvariant, PTL
-----------------------------------------------------------------------------
(* The summaries. *)

TotalsOK(f) == DOMAIN f = {"sample_count", "observed", "system", "errors", "apps"}

\* A file has the summary of a beginning of the lines L.
FileGood(f, L) == f.sample_count \in 0 .. Len(L) /\ SummaryOf(f, SubSeq(L, 1, f.sample_count))

\* What the totals and the files have of a log, in every state.
SumGood(l) ==
  /\ TotalsOK(l.totals) /\ SummaryOf(l.totals, Lines(l))
  /\ FileGood(l.json, Lines(l)) /\ FileGood(l.csv, Lines(l))
  /\ l.csv.sample_count <= l.json.sample_count

\* The files are not ahead of what is on disk, but for an end in close after a
\* fault; and without a fault no line waits before close, and the JSON file has
\* the last sample at which it was due.
InStep(l) == l.json.sample_count <= Len(l.jsonl)

Prompt(l) ==
  /\ l.buffer = <<>>
  /\ l.totals.sample_count - l.json.sample_count <= l.totals.sample_count % FlushEvery

Finished(l) == l.json = l.totals /\ l.csv = l.totals /\ Len(l.jsonl) = l.totals.sample_count

Ends == {"closed with an error", "killed while closing"}

SumInv ==
  /\ faults \in Nat
  /\ SumGood(log)
  /\ faults = 0 \/ stage \notin Ends => InStep(log)
  /\ faults = 0 /\ stage \in {"running", "stopping"} => Prompt(log)
  /\ stage = "closed" => Finished(log)

\* The sums of no lines, and of a line more.
LEMMA SumsOfNone ==
  /\ SystemEnergy(<<>>) = 0 /\ ObservedTime(<<>>) = 0 /\ ErrorCount(<<>>) = 0
  /\ AppKeys(<<>>) = {}
<1>1. \A g : (g = [i \in DOMAIN <<>> |-> g[i]]) => g = <<>>
  OBVIOUS
<1>2. AppKeys(<<>>) = {}
  BY DEF AppKeys
<1> QED BY <1>1, <1>2, TotalAppend DEF SystemEnergy, ObservedTime, ErrorCount, SumOver

LEMMA SumsOfMore ==
  ASSUME NEW L, IsSeq(L), NEW line
  PROVE  /\ SystemEnergy(Append(L, line)) = SystemEnergy(L) + Positive(line.total) * line.interval
         /\ ObservedTime(Append(L, line)) = ObservedTime(L) + line.interval
         /\ ErrorCount(Append(L, line)) = ErrorCount(L) + (IF line.error = None THEN 0 ELSE 1)
<1> DEFINE M == Append(L, line)
           n == Len(L)
<1>1. /\ n \in Nat /\ Len(M) = n + 1 /\ IsSeq(M)
      /\ M[n + 1] = line /\ \A i \in 1 .. n : M[i] = L[i]
  BY AppendSeq, ZenonT(40)
<1>2. DOMAIN L = 1 .. n /\ DOMAIN M = 1 .. n + 1
  BY <1>1, SeqDomain
<1>3. SystemEnergy(M) = SystemEnergy(L) + Positive(line.total) * line.interval
  <2> DEFINE u == [i \in DOMAIN L |-> Positive(L[i].total) * L[i].interval]
             v == [i \in DOMAIN M |-> Positive(M[i].total) * M[i].interval]
  <2>1. Total(v) = Total(u) + v[n + 1]
    <3>1. Maps(u, L) /\ Maps(v, M)
      BY DEF Maps
    <3>2. \A i \in 1 .. n : v[i] = u[i]
      BY <1>1, <1>2
    <3> HIDE DEF u, v
    <3> QED BY ONLY <3>1, <3>2, IsSeq(L), TotalOneMore
  <2>2. v[n + 1] = Positive(line.total) * line.interval
    BY <1>1, <1>2
  <2>3. SystemEnergy(M) = Total(v) /\ SystemEnergy(L) = Total(u)
    BY DEF SystemEnergy, SumOver
  <2> HIDE DEF u, v
  <2> QED BY <2>1, <2>2, <2>3
<1>4. ObservedTime(M) = ObservedTime(L) + line.interval
  <2> DEFINE u == [i \in DOMAIN L |-> L[i].interval]
             v == [i \in DOMAIN M |-> M[i].interval]
  <2>1. Total(v) = Total(u) + v[n + 1]
    <3>1. Maps(u, L) /\ Maps(v, M)
      BY DEF Maps
    <3>2. \A i \in 1 .. n : v[i] = u[i]
      BY <1>1, <1>2
    <3> HIDE DEF u, v
    <3> QED BY ONLY <3>1, <3>2, IsSeq(L), TotalOneMore
  <2>2. v[n + 1] = line.interval
    BY <1>1, <1>2
  <2>3. ObservedTime(M) = Total(v) /\ ObservedTime(L) = Total(u)
    BY DEF ObservedTime, SumOver
  <2> HIDE DEF u, v
  <2> QED BY <2>1, <2>2, <2>3
<1>5. ErrorCount(M) = ErrorCount(L) + (IF line.error = None THEN 0 ELSE 1)
  <2> DEFINE u == [i \in DOMAIN L |-> IF L[i].error = None THEN 0 ELSE 1]
             v == [i \in DOMAIN M |-> IF M[i].error = None THEN 0 ELSE 1]
  <2>1. Total(v) = Total(u) + v[n + 1]
    <3>1. Maps(u, L) /\ Maps(v, M)
      BY DEF Maps
    <3>2. \A i \in 1 .. n : v[i] = u[i]
      BY <1>1, <1>2
    <3> HIDE DEF u, v
    <3> QED BY ONLY <3>1, <3>2, IsSeq(L), TotalOneMore
  <2>2. v[n + 1] = IF line.error = None THEN 0 ELSE 1
    BY <1>1, <1>2
  <2>3. ErrorCount(M) = Total(v) /\ ErrorCount(L) = Total(u)
    BY DEF ErrorCount, SumOver
  <2> HIDE DEF u, v
  <2> QED BY <2>1, <2>2, <2>3
<1> QED BY <1>3, <1>4, <1>5

\* The applications of a line more, and their energy.
LEMMA AppsOfMore ==
  ASSUME NEW L, IsSeq(L), NEW line
  PROVE  /\ AppKeys(Append(L, line)) = AppKeys(L) \cup {line.apps[j].key : j \in DOMAIN line.apps}
         /\ \A k, e : AppEnergy(Append(L, line), k, e) = AppEnergy(L, k, e) + EnergyOf(line.apps, k, e, line.interval)
<1> DEFINE M == Append(L, line)
           n == Len(L)
           Of(x) == {x.apps[j].key : j \in DOMAIN x.apps}
<1>1. /\ n \in Nat /\ Len(M) = n + 1 /\ IsSeq(M)
      /\ M[n + 1] = line /\ \A i \in 1 .. n : M[i] = L[i]
  BY AppendSeq, ZenonT(40)
<1>2. DOMAIN L = 1 .. n /\ DOMAIN M = 1 .. n + 1
  BY <1>1, SeqDomain
<1>3. AppKeys(M) = AppKeys(L) \cup Of(line)
  <2>1. AppKeys(M) = UNION {Of(M[i]) : i \in 1 .. n + 1} /\ AppKeys(L) = UNION {Of(L[i]) : i \in 1 .. n}
    BY <1>2 DEF AppKeys
  <2>2. \A i \in 1 .. n + 1 : i \in 1 .. n \/ i = n + 1
    BY <1>1
  <2>3. 1 .. n \subseteq 1 .. n + 1 /\ n + 1 \in 1 .. n + 1
    BY <1>1
  <2> HIDE DEF Of, M, n
  <2> QED BY <1>1, <2>1, <2>2, <2>3
<1>4. ASSUME NEW k, NEW e
      PROVE  AppEnergy(M, k, e) = AppEnergy(L, k, e) + EnergyOf(line.apps, k, e, line.interval)
  <2> DEFINE E(x) == EnergyOf(x.apps, k, e, x.interval)
             u == [i \in DOMAIN L |-> E(L[i])]
             v == [i \in DOMAIN M |-> E(M[i])]
  <2>1. AppEnergy(M, k, e) = Total(v) /\ AppEnergy(L, k, e) = Total(u)
    BY DEF AppEnergy, SumOver
  <2> HIDE DEF E
  <2>2. Total(v) = Total(u) + v[n + 1]
    <3>1. Maps(u, L) /\ Maps(v, M)
      BY DEF Maps
    <3>2. \A i \in 1 .. n : v[i] = u[i]
      BY <1>1, <1>2
    <3> HIDE DEF u, v
    <3> QED BY ONLY <3>1, <3>2, IsSeq(L), TotalOneMore
  <2>3. v[n + 1] = E(line)
    BY <1>1, <1>2
  <2> HIDE DEF u, v
  <2> QED BY <2>1, <2>2, <2>3 DEF E
<1> QED BY <1>3, <1>4

\* An application that is in none of the lines has no energy.
LEMMA StrangersUseNothing ==
  /\ \A apps, k, e, t : (\A i \in DOMAIN apps : apps[i].key # k) => EnergyOf(apps, k, e, t) = 0
  /\ \A L, k, e : IsSeq(L) /\ k \notin AppKeys(L) => AppEnergy(L, k, e) = 0
<1>1. ASSUME NEW apps, NEW k, NEW e, NEW t, \A i \in DOMAIN apps : apps[i].key # k
      PROVE  EnergyOf(apps, k, e, t) = 0
  <2> DEFINE S == {i \in DOMAIN apps : apps[i].key = k}
             One(x) == Positive(apps[x][e]) * t
             Is(F) == F = [s \in SUBSET S |-> IF s = {} THEN 0
                                              ELSE LET x == CHOOSE y \in s : TRUE IN One(x) + F[s \ {x}]]
             F0 == [s \in SUBSET S |-> 0]
  <2>1. S = {}
    BY <1>1
  <2>2. Is(F0)
    <3> HIDE DEF S
    <3> QED BY <2>1
  <2>3. Is(CHOOSE F : Is(F))
    <3> HIDE DEF F0, Is
    <3> QED BY <2>2
  <2>4. (CHOOSE F : Is(F))[S] = 0
    <3> DEFINE F1 == CHOOSE F : Is(F)
    <3>1. Is(F1)
      BY <2>3
    <3> HIDE DEF F1, S, One
    <3>2. {} \in SUBSET S
      OBVIOUS
    <3>3. F1[{}] = 0
      BY <3>1, <3>2
    <3> QED BY <2>1, <3>3
  <2>5. EnergyOf(apps, k, e, t) = (CHOOSE F : Is(F))[S]
    BY DEF EnergyOf, MapThenSumSet, MapThenFoldSet
  <2> QED BY <2>4, <2>5
<1>2. ASSUME NEW L, NEW k, NEW e, IsSeq(L), k \notin AppKeys(L)
      PROVE  AppEnergy(L, k, e) = 0
  <2> DEFINE E(x) == EnergyOf(x.apps, k, e, x.interval)
             u == [i \in DOMAIN L |-> E(L[i])]
  <2>1. AppEnergy(L, k, e) = Total(u)
    BY DEF AppEnergy, SumOver
  <2>2. ASSUME NEW i \in DOMAIN L PROVE E(L[i]) = 0
    <3>1. \A j \in DOMAIN L[i].apps : L[i].apps[j].key # k
      BY <1>2 DEF AppKeys
    <3> QED BY <1>1, <3>1
  <2> HIDE DEF E
  <2>3. Maps(u, L) /\ \A i \in DOMAIN L : u[i] = 0
    BY <2>2 DEF Maps
  <2> HIDE DEF u
  <2> QED BY <1>2, <2>1, <2>3, TotalOfZeros
<1> QED BY <1>1, <1>2

\* The energy of an application is that of its shares.
LEMMA EnergyOfSame ==
  ASSUME NEW apps, NEW new, NEW k, NEW e, NEW t, DOMAIN new = DOMAIN apps,
         \A i \in DOMAIN apps : new[i].key = apps[i].key /\ new[i][e] = apps[i][e]
  PROVE  EnergyOf(new, k, e, t) = EnergyOf(apps, k, e, t)
<1> DEFINE S == {i \in DOMAIN apps : apps[i].key = k}
           R == {i \in DOMAIN new : new[i].key = k}
           Sums1(F, a) == F = [s \in SUBSET S |->
                                IF s = {} THEN 0
                                ELSE LET x == CHOOSE y \in s : TRUE IN Positive(a[x][e]) * t + F[s \ {x}]]
<1>1. R = S
  OBVIOUS
<1>2. \A F : Sums1(F, new) <=> Sums1(F, apps)
  <2> SUFFICES ASSUME NEW F PROVE Sums1(F, new) <=> Sums1(F, apps)
    OBVIOUS
  <2> DEFINE one(a, s) == IF s = {} THEN 0
                          ELSE LET x == CHOOSE y \in s : TRUE IN Positive(a[x][e]) * t + F[s \ {x}]
  <2>1. ASSUME NEW s \in SUBSET S PROVE one(new, s) = one(apps, s)
    <3>1. CASE s = {}
      BY <3>1
    <3>2. CASE s # {}
      <4> DEFINE x == CHOOSE y \in s : TRUE
      <4>1. x \in s
        BY <3>2
      <4>2. x \in DOMAIN apps
        BY <4>1
      <4> HIDE DEF x, S
      <4>3. new[x][e] = apps[x][e]
        BY <4>2
      <4> QED BY <3>2, <4>3 DEF x
    <3> QED BY <3>1, <3>2
  <2>2. [s \in SUBSET S |-> one(new, s)] = [s \in SUBSET S |-> one(apps, s)]
    <3> HIDE DEF one, S
    <3> QED BY <2>1
  <2> QED BY <2>2
<1>3. (CHOOSE F : Sums1(F, new)) = (CHOOSE F : Sums1(F, apps))
  <2> HIDE DEF Sums1
  <2> QED BY <1>2
<1>4. EnergyOf(apps, k, e, t) = (CHOOSE F : Sums1(F, apps))[S]
  BY DEF EnergyOf, MapThenSumSet, MapThenFoldSet
<1>5. EnergyOf(new, k, e, t) = (CHOOSE F : F = [s \in SUBSET R |->
                                IF s = {} THEN 0
                                ELSE LET x == CHOOSE y \in s : TRUE IN Positive(new[x][e]) * t + F[s \ {x}]])[R]
  BY DEF EnergyOf, MapThenSumSet, MapThenFoldSet
<1>6. EnergyOf(new, k, e, t) = (CHOOSE F : Sums1(F, new))[S]
  <2> HIDE DEF R, S
  <2> QED BY <1>1, <1>5
<1> QED BY <1>3, <1>4, <1>6

\* The aggregates of the lines, and of a line more.
LEMMA AppsStaySummed ==
  ASSUME NEW L, IsSeq(L), NEW apps, AppsSummed(apps, L), NEW result, NEW t
  PROVE  AppsSummed(UpdateAggregates(apps, result, t), Append(L, Line(result, t)))
<1> DEFINE new  == result.apps
           line == Line(result, t)
           K    == {new[i].key : i \in DOMAIN new}
           M    == Append(L, line)
           grown == UpdateAggregates(apps, result, t)
<1>1. DOMAIN line.apps = DOMAIN new /\ line.interval = t
  BY DEF Line
<1>2. \A i \in DOMAIN new : /\ line.apps[i].key = new[i].key
                            /\ \A e \in Energies : line.apps[i][e] = new[i][e]
  BY DEF Line
<1>3. \A k, e : e \in Energies => EnergyOf(line.apps, k, e, line.interval) = EnergyOf(new, k, e, t)
  <2> SUFFICES ASSUME NEW k, NEW e \in Energies
               PROVE  EnergyOf(line.apps, k, e, line.interval) = EnergyOf(new, k, e, t)
    OBVIOUS
  <2> QED BY <1>1, <1>2, EnergyOfSame
<1>4. {line.apps[j].key : j \in DOMAIN line.apps} = K
  BY <1>1, <1>2
<1>5. /\ AppKeys(M) = AppKeys(L) \cup K
      /\ \A k, e : e \in Energies => AppEnergy(M, k, e) = AppEnergy(L, k, e) + EnergyOf(new, k, e, t)
  <2> HIDE DEF K, line
  <2> QED BY <1>3, <1>4, AppsOfMore
<1>6. DOMAIN apps = AppKeys(L) /\ \A k \in DOMAIN apps, e \in Energies : apps[k].energy[e] = AppEnergy(L, k, e)
  BY DEF AppsSummed
<1>7. /\ DOMAIN grown = DOMAIN apps \cup K
      /\ \A k \in DOMAIN apps \cup K, e \in Energies :
           grown[k].energy[e] = AggregateOf(apps, k).energy[e] + EnergyOf(new, k, e, t)
  BY DEF UpdateAggregates
<1>8. \A k, e : e \in Energies => AggregateOf(apps, k).energy[e] = AppEnergy(L, k, e)
  <2> SUFFICES ASSUME NEW k, NEW e \in Energies PROVE AggregateOf(apps, k).energy[e] = AppEnergy(L, k, e)
    OBVIOUS
  <2>1. CASE k \in DOMAIN apps
    BY <1>6, <2>1 DEF AggregateOf
  <2>2. CASE k \notin DOMAIN apps
    <3>1. AggregateOf(apps, k).energy[e] = 0
      BY <2>2 DEF AggregateOf
    <3>2. AppEnergy(L, k, e) = 0
      BY <1>6, <2>2, StrangersUseNothing
    <3> QED BY <3>1, <3>2
  <2> QED BY <2>1, <2>2
<1> HIDE DEF grown, M, K, line
<1>9. AppsSummed(grown, M)
  BY <1>5, <1>6, <1>7, <1>8 DEF AppsSummed
<1> QED BY <1>9 DEF grown, M, line

\* Lines at the end leave the summary of a beginning what it is.
LEMMA FileLater ==
  ASSUME NEW f, NEW L, IsSeq(L), NEW line, FileGood(f, L)
  PROVE  FileGood(f, Append(L, line))
<1> DEFINE n == f.sample_count
           M == Append(L, line)
<1>1. n \in 0 .. Len(L) /\ SummaryOf(f, SubSeq(L, 1, n)) /\ IsSeq(<<line>>)
  BY ShortSeq DEF FileGood
<1>2. M = L \o <<line>> /\ Len(L) \in Nat /\ Len(M) = Len(L) + 1
  BY AppendSeq
<1>3. SubSeq(L \o <<line>>, 1, n) = SubSeq(L, 1, n)
  BY <1>1, Beginning
<1>4. n \in 0 .. Len(M)
  BY <1>1, <1>2
<1>5. SummaryOf(f, SubSeq(M, 1, n))
  BY <1>1, <1>2, <1>3
<1> QED BY <1>4, <1>5 DEF FileGood

\* The totals are the summary of all lines.
LEMMA FileNow ==
  ASSUME NEW f, NEW L, IsSeq(L), SummaryOf(f, L)
  PROVE  FileGood(f, L) /\ f.sample_count = Len(L) /\ Len(L) \in Nat
<1>1. f.sample_count = Len(L) /\ Len(L) \in Nat
  BY SeqDomain DEF SummaryOf
<1>2. IsSeq(<<>>)
  BY ShortSeq
<1>3. SubSeq(L, 1, Len(L)) = L
  BY <1>2, Beginning
<1>4. f.sample_count \in 0 .. Len(L) /\ SummaryOf(f, SubSeq(L, 1, f.sample_count))
  <2>1. f.sample_count \in 0 .. Len(L)
    BY <1>1
  <2>2. SubSeq(L, 1, f.sample_count) = L
    BY <1>1, <1>3
  <2> QED BY <2>1, <2>2
<1> QED BY <1>1, <1>4 DEF FileGood
\* Counting a sample adds what its line adds to the sums, and leaves the files.
LEMMA CountedSums ==
  ASSUME NEW l, LogOK(l), TotalsOK(l.totals), NEW result
  PROVE  LET w    == Counted(l, result)
             line == Line(result, IntervalOf(l, result))
         IN /\ TotalsOK(w.totals) /\ w.json = l.json /\ w.csv = l.csv
            /\ w.totals.sample_count = l.totals.sample_count + 1
            /\ w.totals.system = l.totals.system + Positive(line.total) * line.interval
            /\ w.totals.observed = l.totals.observed + line.interval
            /\ w.totals.errors = l.totals.errors + (IF line.error = None THEN 0 ELSE 1)
            /\ w.totals.apps = UpdateAggregates(l.totals.apps, result, IntervalOf(l, result))
<1> DEFINE interval == IntervalOf(l, result)
           w    == Counted(l, result)
           line == Line(result, interval)
           before == l.totals
           apps   == UpdateAggregates(before.apps, result, interval)
           after  == [before EXCEPT !.sample_count = @ + 1, !.observed = @ + interval,
                                    !.system = @ + Positive(result.total) * interval,
                                    !.errors = @ + (IF result.error = None THEN 0 ELSE 1), !.apps = apps]
<1>1. line.total = result.total /\ line.interval = interval /\ line.error = result.error
  <2> HIDE DEF interval
  <2> QED BY DEF Line
<1> HIDE DEF interval, line, apps
<1>2. w = [l EXCEPT !.last_id = result.sample_id, !.last_at = result.at, !.totals = after]
  BY ZenonT(40) DEF Counted, interval, apps, LogOK, TotalsOK
<1>3. w.totals = after /\ w.json = l.json /\ w.csv = l.csv
  <2> HIDE DEF after
  <2> QED BY <1>2 DEF LogOK
<1>4. /\ DOMAIN after = DOMAIN before /\ after.sample_count = before.sample_count + 1
      /\ after.system = before.system + Positive(result.total) * interval
      /\ after.observed = before.observed + interval
      /\ after.errors = before.errors + (IF result.error = None THEN 0 ELSE 1)
      /\ after.apps = apps
  <2> HIDE DEF before
  <2>1. DOMAIN before = {"sample_count", "observed", "system", "errors", "apps"}
    BY DEF TotalsOK, before
  <2> QED BY <2>1
<1> HIDE DEF after, w
<1> QED BY <1>1, <1>3, <1>4 DEF TotalsOK, w, line, interval, apps

\* What a write does to the sums and the files, however far it gets.
LEMMA WriteSums ==
  ASSUME NEW l, LogOK(l), TotalsOK(l.totals), NEW result, NEW reach \in Int
  PROVE  LET w    == Write(l, result, reach)
             line == Line(result, IntervalOf(l, result))
             due  == SummaryDue(Counted(l, result))
         IN /\ TotalsOK(w.totals)
            /\ w.totals.sample_count = l.totals.sample_count + 1
            /\ w.totals.system = l.totals.system + Positive(line.total) * line.interval
            /\ w.totals.observed = l.totals.observed + line.interval
            /\ w.totals.errors = l.totals.errors + (IF line.error = None THEN 0 ELSE 1)
            /\ w.totals.apps = UpdateAggregates(l.totals.apps, result, IntervalOf(l, result))
            /\ due = (w.totals.sample_count = 1 \/ w.totals.sample_count % FlushEvery = 0)
            /\ w.json = (IF due /\ reach >= 2 THEN w.totals ELSE l.json)
            /\ w.csv = (IF due /\ reach >= 3 THEN w.totals ELSE l.csv)
            /\ reach > 0 => w.buffer = <<>>
            /\ ~(reach > 0) => w.jsonl = l.jsonl
<1> DEFINE c == Counted(l, result)
           line == Line(result, IntervalOf(l, result))
           added == Appended(c, line, reach > 0)
           w == Write(l, result, reach)
           due == SummaryDue(c)
<1>1. LogOK(c) /\ c.jsonl = l.jsonl
  BY CountedMarks
<1>2. /\ TotalsOK(c.totals) /\ c.json = l.json /\ c.csv = l.csv
      /\ c.totals.sample_count = l.totals.sample_count + 1
      /\ c.totals.system = l.totals.system + Positive(line.total) * line.interval
      /\ c.totals.observed = l.totals.observed + line.interval
      /\ c.totals.errors = l.totals.errors + (IF line.error = None THEN 0 ELSE 1)
      /\ c.totals.apps = UpdateAggregates(l.totals.apps, result, IntervalOf(l, result))
  BY CountedSums
<1>3. w = IF due THEN FlushSummary(added, reach - 1) ELSE added
  BY DEF Write
<1>4. due = (c.totals.sample_count = 1 \/ c.totals.sample_count % FlushEvery = 0)
  BY DEF SummaryDue
<1> HIDE DEF c, line, due
<1>5. /\ DOMAIN added = DOMAIN c /\ added.totals = c.totals /\ added.json = c.json /\ added.csv = c.csv
      /\ reach > 0 => added.buffer = <<>>
      /\ ~(reach > 0) => added.jsonl = c.jsonl
  BY <1>1 DEF Appended, LogOK
<1> HIDE DEF added, w
<1>6. CASE ~due
  BY <1>1, <1>2, <1>3, <1>4, <1>5, <1>6 DEF w, due, c, line
<1>7. CASE due
  <2>1. w = FlushSummary(added, reach - 1)
    BY <1>3, <1>7
  <2>2. /\ w.totals = added.totals /\ w.buffer = added.buffer /\ w.jsonl = added.jsonl
        /\ w.json = (IF reach - 1 >= 1 THEN added.totals ELSE added.json)
        /\ w.csv = (IF reach - 1 >= 2 THEN added.totals ELSE added.csv)
    BY <1>1, <1>5, <2>1 DEF FlushSummary, LogOK
  <2>3. (reach - 1 >= 1 <=> reach >= 2) /\ (reach - 1 >= 2 <=> reach >= 3)
    OBVIOUS
  <2> QED BY <1>1, <1>2, <1>4, <1>5, <1>7, <2>2, <2>3 DEF w, due, c, line
<1> QED BY <1>6, <1>7

\* A write keeps the summaries those of beginnings of the log.
LEMMA WriteKeepsSums ==
  ASSUME NEW l, LogOK(l), SumGood(l), NEW result, NEW reach \in Int
  PROVE  LET w == Write(l, result, reach)
         IN /\ SumGood(w)
            /\ reach > 0 => w.buffer = <<>> /\ w.jsonl = Lines(w)
<1> DEFINE w == Write(l, result, reach)
           line == Line(result, IntervalOf(l, result))
           due == SummaryDue(Counted(l, result))
           L == Lines(l)
           M == Lines(w)
<1>1. /\ TotalsOK(l.totals) /\ SummaryOf(l.totals, L) /\ FileGood(l.json, L) /\ FileGood(l.csv, L)
      /\ l.csv.sample_count <= l.json.sample_count
  BY DEF SumGood
<1>2. LogOK(w) /\ M = Append(L, line)
  BY WriteAdds
<1>3. IsSeq(L) /\ IsSeq(M)
  BY <1>2, ConcatSeq DEF Lines, LogOK
<1>4. /\ TotalsOK(w.totals)
      /\ w.totals.sample_count = l.totals.sample_count + 1
      /\ w.totals.system = l.totals.system + Positive(line.total) * line.interval
      /\ w.totals.observed = l.totals.observed + line.interval
      /\ w.totals.errors = l.totals.errors + (IF line.error = None THEN 0 ELSE 1)
      /\ w.totals.apps = UpdateAggregates(l.totals.apps, result, IntervalOf(l, result))
      /\ w.json = (IF due /\ reach >= 2 THEN w.totals ELSE l.json)
      /\ w.csv = (IF due /\ reach >= 3 THEN w.totals ELSE l.csv)
      /\ reach > 0 => w.buffer = <<>>
  BY <1>1, WriteSums
<1>4a. IsSeq(L) => AppsSummed(w.totals.apps, Append(L, line))
  BY <1>1, <1>4, AppsStaySummed DEF SummaryOf
<1> HIDE DEF line, due, L, w
<1>5. /\ SystemEnergy(M) = SystemEnergy(L) + Positive(line.total) * line.interval
      /\ ObservedTime(M) = ObservedTime(L) + line.interval
      /\ ErrorCount(M) = ErrorCount(L) + (IF line.error = None THEN 0 ELSE 1)
  BY <1>2, <1>3, SumsOfMore
<1>6. Len(M) = Len(L) + 1
  BY <1>2, <1>3, AppendSeq
<1> HIDE DEF M
<1>7. SummaryOf(w.totals, M)
  <2>1. AppsSummed(w.totals.apps, M)
    BY <1>2, <1>3, <1>4a DEF M
  <2> QED BY <1>1, <1>4, <1>5, <1>6, <2>1 DEF SummaryOf
<1>8. FileGood(w.totals, M) /\ w.totals.sample_count = Len(M) /\ Len(M) \in Nat
  BY <1>3, <1>7, FileNow
<1>9. FileGood(l.json, M) /\ FileGood(l.csv, M)
  BY <1>1, <1>2, <1>3, FileLater
<1>10. FileGood(w.json, M) /\ FileGood(w.csv, M)
  BY <1>4, <1>8, <1>9
<1>11. w.csv.sample_count <= w.json.sample_count
  <2>1. l.csv.sample_count \in 0 .. Len(M) /\ l.json.sample_count \in 0 .. Len(M)
    BY <1>9 DEF FileGood
  <2>2. \/ w.csv = l.csv /\ w.json = l.json
        \/ w.csv = l.csv /\ w.json = w.totals
        \/ w.csv = w.totals /\ w.json = w.totals
    <3>1. reach >= 3 => reach >= 2
      OBVIOUS
    <3> QED BY ONLY <1>4, <3>1
  <2> QED BY <1>1, <1>8, <2>1, <2>2
<1>12. SumGood(w)
  BY <1>4, <1>7, <1>10, <1>11 DEF SumGood, M
<1>13. reach > 0 => w.buffer = <<>> /\ w.jsonl = M
  <2> SUFFICES ASSUME reach > 0 PROVE w.buffer = <<>> /\ w.jsonl = M
    OBVIOUS
  <2>1. w.buffer = <<>> /\ IsSeq(w.jsonl) /\ IsSeq(w.buffer)
    BY <1>2, <1>4 DEF LogOK
  <2>2. w.jsonl \o <<>> = w.jsonl
    BY <2>1, ConcatSeq
  <2> QED BY <2>1, <2>2 DEF M, Lines
<1> QED BY <1>12, <1>13 DEF w, M

\* A complete write leaves the JSON file less than FlushEvery samples behind.
LEMMA WriteIsPrompt ==
  ASSUME NEW l, LogOK(l), SumGood(l), Prompt(l), NEW result
  PROVE  Prompt(Write(l, result, Complete(l, result)))
<1> DEFINE reach == Complete(l, result)
           due == SummaryDue(Counted(l, result))
           w == Write(l, result, reach)
           n == l.totals.sample_count
           k == l.json.sample_count
<1>1. reach = (IF due THEN 3 ELSE 1) /\ reach \in Int
  BY DEF Complete
<1>2. /\ TotalsOK(w.totals) /\ w.totals.sample_count = n + 1
      /\ due = (w.totals.sample_count = 1 \/ w.totals.sample_count % FlushEvery = 0)
      /\ w.json = (IF due /\ reach >= 2 THEN w.totals ELSE l.json)
      /\ reach > 0 => w.buffer = <<>>
  <2> HIDE DEF reach
  <2> QED BY <1>1, WriteSums DEF SumGood
<1>3. n \in Nat /\ k \in Nat /\ n - k <= n % FlushEvery
  <2>1. IsSeq(Lines(l))
    BY ConcatSeq DEF LogOK, Lines
  <2>2. n = Len(Lines(l)) /\ Len(Lines(l)) \in Nat /\ k \in 0 .. Len(Lines(l))
    BY <2>1, FileNow DEF SumGood, FileGood
  <2> QED BY <2>2 DEF Prompt
<1> HIDE DEF reach, due, w, n
<1>4. FlushEvery \in Nat \ {0}
  BY AppPowerAssumption
<1>5. (n + 1) % FlushEvery \in Nat
  BY <1>3, <1>4
<1>6. CASE due
  <2>1. w.json = w.totals /\ w.buffer = <<>>
    BY <1>1, <1>2, <1>6
  <2>2. w.totals.sample_count - w.json.sample_count <= w.totals.sample_count % FlushEvery
    BY <1>2, <1>3, <1>5, <2>1
  <2> QED BY <2>1, <2>2 DEF Prompt, w, reach
<1>7. CASE ~due
  <2>1. w.json = l.json /\ w.buffer = <<>>
    BY <1>1, <1>2, <1>7
  <2>2. (n + 1) % FlushEvery = (n % FlushEvery) + 1
    <3>1. (n + 1) % FlushEvery # 0
      BY <1>2, <1>7
    <3> QED BY <1>3, <1>4, <3>1, NextRemainder
  <2>3. n % FlushEvery \in Nat
    BY <1>3, <1>4
  <2>4. (n + 1) - k <= (n + 1) % FlushEvery
    <3> DEFINE r == n % FlushEvery
    <3>1. (n + 1) % FlushEvery = r + 1 /\ r \in Nat /\ n - k <= r
      BY <1>3, <2>2, <2>3
    <3> HIDE DEF r, k
    <3>2. k \in Nat
      BY <1>3 DEF k
    <3> QED BY <1>3, <3>1, <3>2
  <2> QED BY <1>2, <2>1, <2>4 DEF Prompt, w, reach
<1> QED BY <1>6, <1>7

\* Closing writes neither, one or both of the summaries,
\* and the lines that wait reach the file unless their flush fails.
LEMMA CloseKeepsSums ==
  ASSUME NEW l, LogOK(l), SumGood(l), NEW files \in 0 .. 2, NEW flushes \in BOOLEAN,
         NEW w, w = CloseLog(l, files, flushes)
  PROVE  /\ SumGood(w)
         /\ flushes \/ l.buffer = <<>> => w.jsonl = Lines(w)
         /\ files = 2 => w.json = w.totals /\ w.csv = w.totals
<1> DEFINE flushed == FlushSummary(l, files)
           L == Lines(l)
<1>1. /\ DOMAIN flushed = DOMAIN l /\ flushed.totals = l.totals
      /\ flushed.json = (IF files >= 1 THEN l.totals ELSE l.json)
      /\ flushed.csv = (IF files >= 2 THEN l.totals ELSE l.csv)
      /\ flushed.jsonl = l.jsonl /\ flushed.buffer = l.buffer
  BY DEF FlushSummary, LogOK
<1>2. w = IF flushes THEN [flushed EXCEPT !.jsonl = @ \o flushed.buffer, !.buffer = << >>]
          ELSE flushed
  BY DEF CloseLog
<1> HIDE DEF flushed
<1>3. /\ w.totals = l.totals
      /\ w.json = (IF files >= 1 THEN l.totals ELSE l.json)
      /\ w.csv = (IF files >= 2 THEN l.totals ELSE l.csv)
      /\ flushes => w.jsonl = L /\ w.buffer = <<>>
      /\ ~flushes => w.jsonl = l.jsonl /\ w.buffer = l.buffer
  <2>1. CASE flushes
    <3>1. w = [flushed EXCEPT !.jsonl = @ \o flushed.buffer, !.buffer = << >>]
      BY <1>2, <2>1
    <3>2. /\ w.totals = flushed.totals /\ w.json = flushed.json /\ w.csv = flushed.csv
          /\ w.jsonl = flushed.jsonl \o flushed.buffer /\ w.buffer = <<>>
      BY ONLY <1>1, <3>1, LogOK(l) DEF LogOK
    <3> QED BY <1>1, <2>1, <3>2 DEF Lines
  <2>2. CASE ~flushes
    BY <1>1, <1>2, <2>2
  <2> QED BY <2>1, <2>2
<1>4. IsSeq(L) /\ Lines(w) = L
  <2>1. IsSeq(l.jsonl) /\ IsSeq(l.buffer)
    BY DEF LogOK
  <2>2. IsSeq(L) /\ L \o <<>> = L
    BY <2>1, ConcatSeq DEF Lines
  <2> QED BY <1>3, <2>2 DEF Lines
<1>4a. flushes \/ l.buffer = <<>> => w.jsonl = L
  <2>1. l.jsonl \o <<>> = l.jsonl
    BY ConcatSeq DEF LogOK
  <2> QED BY <1>3, <2>1 DEF Lines
<1>5. /\ TotalsOK(l.totals) /\ SummaryOf(l.totals, L) /\ FileGood(l.json, L) /\ FileGood(l.csv, L)
      /\ l.csv.sample_count <= l.json.sample_count
  BY DEF SumGood
<1> HIDE DEF L
<1>6. FileGood(l.totals, L) /\ l.totals.sample_count = Len(L) /\ Len(L) \in Nat
  BY <1>4, <1>5, FileNow
<1>7. \/ w.csv = l.csv /\ w.json = l.json
      \/ w.csv = l.csv /\ w.json = l.totals
      \/ w.csv = l.totals /\ w.json = l.totals
  <2>1. files >= 2 => files >= 1
    OBVIOUS
  <2> QED BY ONLY <1>3, <2>1
<1>8. FileGood(w.json, L) /\ FileGood(w.csv, L)
  BY <1>5, <1>6, <1>7
<1>9. w.csv.sample_count <= w.json.sample_count
  <2>1. l.csv.sample_count \in 0 .. Len(L) /\ l.json.sample_count \in 0 .. Len(L)
    BY <1>5 DEF FileGood
  <2> QED BY <1>5, <1>6, <1>7, <2>1
<1>10. SumGood(w)
  BY <1>3, <1>4, <1>5, <1>8, <1>9 DEF SumGood
<1>11. files = 2 => w.json = w.totals /\ w.csv = w.totals
  BY <1>3
<1> QED BY <1>4, <1>4a, <1>10, <1>11

\* What is in the file without waiting lines is what the log has.
LEMMA OnDisk ==
  ASSUME NEW l, LogOK(l), SumGood(l)
  PROVE  /\ l.jsonl = Lines(l) => InStep(l)
         /\ Len(Lines(l)) = l.totals.sample_count
<1>1. IsSeq(Lines(l))
  BY ConcatSeq DEF LogOK, Lines
<1>2. /\ l.totals.sample_count = Len(Lines(l)) /\ Len(Lines(l)) \in Nat
      /\ l.json.sample_count \in 0 .. Len(Lines(l))
  BY <1>1, FileNow DEF SumGood, FileGood
<1> QED BY <1>2 DEF InStep

\* The summaries in every reachable state.
LEMMA SumInvariant == Spec => []SumInv
<1>1. Init => SumInv
  <2> SUFFICES ASSUME Init PROVE SumInv
    OBVIOUS
  <2>1. /\ log.totals = NoSummary /\ log.json = NoSummary /\ log.csv = NoSummary
        /\ log.jsonl = <<>> /\ log.buffer = <<>> /\ faults = 0 /\ stage = "running"
    BY DEF Init, EmptyLog
  <2>2. IsSeq(<<>>) /\ Len(<<>>) = 0 /\ <<>> \o <<>> = <<>>
    BY ShortSeq, ConcatSeq
  <2>3. Lines(log) = <<>>
    BY <2>1, <2>2 DEF Lines
  <2>4. SummaryOf(NoSummary, <<>>) /\ TotalsOK(NoSummary) /\ NoSummary.sample_count = 0
    <3>1. AppsSummed(NoSummary.apps, <<>>)
      <4>1. NoSummary.apps = <<>> /\ DOMAIN <<>> = {}
        BY DEF NoSummary
      <4> QED BY <4>1, SumsOfNone DEF AppsSummed
    <3> QED BY <2>2, <3>1, SumsOfNone DEF SummaryOf, TotalsOK, NoSummary
  <2>5. FileGood(NoSummary, <<>>)
    BY <2>2, <2>4, FileNow
  <2>6. SumGood(log)
    BY <2>1, <2>3, <2>4, <2>5 DEF SumGood
  <2>7. InStep(log)
    BY <2>1, <2>2, <2>4 DEF InStep
  <2>8. Prompt(log)
    <3>1. 0 % FlushEvery = 0
      BY AppPowerAssumption
    <3> QED BY <2>1, <2>4, <3>1 DEF Prompt
  <2> QED BY <2>1, <2>6, <2>7, <2>8 DEF SumInv
<1>2. IInv /\ IInv' /\ SumInv /\ [Next]_vars => SumInv'
  <2> SUFFICES ASSUME IInv, IInv', SumInv, [Next]_vars PROVE SumInv'
    OBVIOUS
  <2>1. LogOK(log) /\ SumGood(log) /\ faults \in Nat
    BY DEF IInv, LogGood, SumInv
  <2>2. ASSUME log' = log, faults' = faults,
               stage' = stage \/ (stage = "running" /\ stage' = "stopping")
        PROVE  SumInv'
    BY <2>2 DEF SumInv, Ends
  <2>3. CASE BeginSample \/ EndSample \/ EndThread
    <3>1. log' = log /\ faults' = faults /\ stage' = stage
      BY <2>3 DEF BeginSample, EndSample, EndThread
    <3> QED BY <2>2, <3>1
  <2>4. CASE Quit
    <3>1. log' = log /\ faults' = faults /\ stage = "running" /\ stage' = "stopping"
      BY <2>4 DEF Quit
    <3> QED BY <2>2, <3>1
  <2>5. CASE Row
    <3>0. stage = "running"
      BY <2>5 DEF Row
    <3>1. PICK dt \in Steps, r \in DOMAIN Rows :
            \E result \in {Attribute(Rows[r], worker.snapshot, history, now + dt)} :
              \/ log' = log /\ stage' = stage /\ faults' = faults
              \/ log' = Write(log, result, Complete(log, result)) /\ stage' = stage /\ faults' = faults
              \/ \E reach \in 0 .. Complete(log, result) :
                   /\ log' = Write(log, result, reach)
                   /\ \/ stage' = "killed" /\ faults' = faults
                      \/ faults' = faults + 1 /\ stage' = stage
      BY <2>5 DEF Row
    <3>2. PICK result : 
              \/ log' = log /\ stage' = stage /\ faults' = faults
              \/ log' = Write(log, result, Complete(log, result)) /\ stage' = stage /\ faults' = faults
              \/ \E reach \in 0 .. Complete(log, result) :
                   /\ log' = Write(log, result, reach)
                   /\ \/ stage' = "killed" /\ faults' = faults
                      \/ faults' = faults + 1 /\ stage' = stage
      BY <3>1
    <3>3. CASE log' = log /\ stage' = stage /\ faults' = faults
      BY <2>2, <3>3
    <3>4. CASE log' = Write(log, result, Complete(log, result)) /\ stage' = stage /\ faults' = faults
      <4> DEFINE reach == Complete(log, result)
                 w == Write(log, result, reach)
      <4>1. reach \in Int /\ reach > 0
        BY DEF Complete
      <4>2. LogOK(w)
        BY <2>1, WriteAdds
      <4>3. faults = 0 => Prompt(w)
        BY <2>1, <3>0, WriteIsPrompt DEF SumInv
      <4> HIDE DEF reach
      <4>4. SumGood(w) /\ w.jsonl = Lines(w)
        BY <2>1, <4>1, WriteKeepsSums
      <4>5. log' = w
        BY <3>4 DEF reach
      <4> HIDE DEF w
      <4>6. InStep(w)
        BY <4>2, <4>4, OnDisk
      <4> QED BY <2>1, <3>0, <3>4, <4>3, <4>4, <4>5, <4>6 DEF SumInv, Ends
    <3>5. ASSUME NEW reach \in 0 .. Complete(log, result), log' = Write(log, result, reach),
                 \/ stage' = "killed" /\ faults' = faults
                 \/ faults' = faults + 1 /\ stage' = stage
          PROVE  SumInv'
      <4> DEFINE w == Write(log, result, reach)
      <4>1. reach \in Int
        BY DEF Complete
      <4>2. LogOK(w) /\ SumGood(w) /\ (reach > 0 => w.jsonl = Lines(w))
        BY <2>1, <4>1, WriteAdds, WriteKeepsSums
      <4>3. InStep(w)
        <5>1. CASE reach > 0
          <6> HIDE DEF w
          <6> QED BY <4>2, <5>1, OnDisk
        <5>2. CASE ~(reach > 0)
          <6>1. w.jsonl = log.jsonl /\ w.json = log.json
            <7>1. ~(reach >= 2)
              BY <4>1, <5>2
            <7> QED BY <2>1, <4>1, <5>2, <7>1, WriteSums DEF SumGood
          <6> HIDE DEF w
          <6> QED BY <3>0, <6>1 DEF SumInv, InStep, Ends
        <5> QED BY <5>1, <5>2
      <4> HIDE DEF w
      <4>4. log' = w
        BY <3>5 DEF w
      <4>5. CASE stage' = "killed" /\ faults' = faults
        BY <2>1, <4>2, <4>3, <4>4, <4>5 DEF SumInv, Ends
      <4>6. CASE faults' = faults + 1 /\ stage' = stage
        <5>1. faults' \in Nat /\ faults' # 0 /\ stage' # "closed"
          BY <2>1, <3>0, <4>6
        <5> QED BY <4>2, <4>3, <4>4, <5>1 DEF SumInv
      <4> QED BY <3>5, <4>5, <4>6
    <3> QED BY <3>2, <3>3, <3>4, <3>5
  <2>6. CASE Close
    <3>1. PICK files \in 0..2, flushes \in BOOLEAN :
            /\ log' = CloseLog(log, files, flushes)
            /\ \/ /\ faults' = faults + (IF files < 2 THEN 1 ELSE 0) + (IF flushes THEN 0 ELSE 1)
                  /\ stage' = IF files = 2 /\ flushes THEN "closed" ELSE "closed with an error"
               \/ ~flushes /\ stage' = "killed while closing" /\ faults' = faults
      BY <2>6 DEF Close
    <3>0. stage = "stopping"
      BY <2>6 DEF Close
    <3>2. /\ SumGood(log')
          /\ flushes \/ log.buffer = <<>> => log'.jsonl = Lines(log')
          /\ files = 2 => log'.json = log'.totals /\ log'.csv = log'.totals
      <4> DEFINE w == log'
      <4>1. w = CloseLog(log, files, flushes)
        BY <3>1
      <4> HIDE DEF w
      <4>2. /\ SumGood(w)
            /\ flushes \/ log.buffer = <<>> => w.jsonl = Lines(w)
            /\ files = 2 => w.json = w.totals /\ w.csv = w.totals
        BY <2>1, <4>1, CloseKeepsSums
      <4> QED BY <4>2 DEF w
    <3>3. LogOK(log')
      BY DEF IInv, LogGood
    <3>4. (log'.jsonl = Lines(log') => InStep(log')) /\ Len(Lines(log')) = log'.totals.sample_count
      BY <3>2, <3>3, OnDisk
    <3>5. faults = 0 => InStep(log')
      BY <3>0, <3>2, <3>4 DEF SumInv, Prompt
    <3>6. CASE stage' = "closed" /\ files = 2 /\ flushes /\ faults' \in Nat
      BY <3>2, <3>4, <3>6 DEF SumInv, Finished
    <3>7. CASE stage' \in Ends /\ faults' \in Nat /\ (faults' = 0 => faults = 0)
      BY <3>2, <3>5, <3>7 DEF SumInv, Ends
    <3>8. CASE ~flushes /\ stage' = "killed while closing" /\ faults' = faults
      BY <2>1, <3>7, <3>8 DEF Ends
    <3>9. CASE /\ faults' = faults + (IF files < 2 THEN 1 ELSE 0) + (IF flushes THEN 0 ELSE 1)
               /\ stage' = IF files = 2 /\ flushes THEN "closed" ELSE "closed with an error"
      <4>1. faults' \in Nat /\ (faults' = 0 => faults = 0)
        <5>1. faults' = faults + (IF files < 2 THEN 1 ELSE 0) + (IF flushes THEN 0 ELSE 1)
          BY <3>9
        <5> QED BY ONLY <2>1, <5>1
      <4>2. (stage' = "closed" /\ files = 2 /\ flushes) \/ stage' \in Ends
        BY <3>9, Zenon DEF Ends
      <4> QED BY <3>6, <3>7, <4>1, <4>2
    <3> QED BY <3>1, <3>8, <3>9
  <2>7. CASE UNCHANGED vars
    <3>1. log' = log /\ faults' = faults /\ stage' = stage
      BY <2>7 DEF vars
    <3> QED BY <2>2, <3>1
  <2> QED BY <2>3, <2>4, <2>5, <2>6, <2>7 DEF Next
<1> QED BY <1>1, <1>2, LogInvariant, PTL DEF Spec

-----------------------------------------------------------------------------
(* The theorem about the summaries. *)

\* Each of the two summary files is at every moment the summary of a beginning
\* of the lines written, which is on disk unless the process ended in close
\* after a fault; the CSV is never ahead of the JSON file, and without a fault
\* they lag less than FlushEvery samples behind and agree at the end: the
\* totals are counted before anything is written, each step of a write or of
\* close may fail, and a kill may fall after any of them
\* (AppPowerSessionLogger.write, _flush_summary, close).
THEOREM SummariesMatchLog == Spec => []SummaryMatchesLog
<1>1. IInv /\ SumInv => SummaryMatchesLog
  <2> SUFFICES ASSUME IInv, SumInv PROVE SummaryMatchesLog
    OBVIOUS
  <2>1. LogOK(log) /\ SumGood(log)
    BY DEF IInv, LogGood, SumInv
  <2> DEFINE a == log.jsonl
             b == log.buffer
             L == Lines(log)
             k == log.json.sample_count
             c == log.csv.sample_count
  <2>2. IsSeq(a) /\ IsSeq(b) /\ L = a \o b
    BY <2>1 DEF LogOK, Lines
  <2>3. FileGood(log.json, L) /\ FileGood(log.csv, L) /\ c <= k
    BY <2>1 DEF SumGood
  <2>4. k \in Nat /\ c \in Nat /\ k <= Len(L) /\ c <= Len(L)
    <3>1. Len(L) \in Nat
      BY <2>2, ConcatSeq, SeqDomain
    <3> HIDE DEF L
    <3> QED BY <2>3, <3>1 DEF FileGood
  <2>5. BeginningSummed(log.json, Written) /\ BeginningSummed(log.csv, Written)
    <3>1. Written = L
      BY DEF Written, Lines
    <3> QED BY <2>3, <2>4, <3>1 DEF BeginningSummed, FileGood
  <2>6. ASSUME faults = 0 \/ stage \notin {"closed with an error", "killed while closing"}
        PROVE  BeginningSummed(log.json, log.jsonl) /\ BeginningSummed(log.csv, log.jsonl)
    <3>1. k <= Len(a)
      BY <2>6 DEF SumInv, InStep, Ends
    <3>2. Len(a) \in Nat /\ k \in 0 .. Len(a) /\ c \in 0 .. Len(a)
      BY <2>2, <2>3, <2>4, <3>1, SeqDomain
    <3> HIDE DEF a, b, L
    <3>3. SubSeq(L, 1, k) = SubSeq(a, 1, k) /\ SubSeq(L, 1, c) = SubSeq(a, 1, c)
      BY <2>2, <3>2, Beginning, SMTT(40)
    <3>4. SummaryOf(log.json, SubSeq(a, 1, k)) /\ SummaryOf(log.csv, SubSeq(a, 1, c))
      BY <2>3, <3>3 DEF FileGood
    <3>5. k <= Len(a) /\ c <= Len(a)
      BY <3>2
    <3>6. BeginningSummed(log.json, a) /\ BeginningSummed(log.csv, a)
      BY ONLY <3>4, <3>5 DEF BeginningSummed
    <3> QED BY <3>6 DEF a
  <2>8. faults = 0 /\ stage = "running" => log.totals.sample_count < k + FlushEvery
    <3> SUFFICES ASSUME faults = 0, stage = "running"
                 PROVE  log.totals.sample_count < k + FlushEvery
      OBVIOUS
    <3> DEFINE n == log.totals.sample_count
    <3>1. n - k <= n % FlushEvery
      BY DEF SumInv, Prompt
    <3>2. n \in Nat
      <4>1. n = Len(L)
        BY <2>1, OnDisk
      <4> QED BY <2>2, <4>1, ConcatSeq, SeqDomain, ZenonT(40)
    <3>3. FlushEvery \in Nat \ {0}
      BY AppPowerAssumption
    <3> HIDE DEF n, k
    <3>4. n % FlushEvery \in 0 .. FlushEvery - 1
      BY <3>2, <3>3
    <3>5. n < k + FlushEvery
      BY <2>4, <3>1, <3>2, <3>3, <3>4
    <3> QED BY <3>5 DEF n, k
  <2>9. stage = "closed" => log.json = log.totals /\ log.csv = log.totals /\ Len(log.jsonl) = log.totals.sample_count
    BY DEF SumInv, Finished
  <2> QED BY <2>3, <2>5, <2>6, <2>8, <2>9 DEF SummaryMatchesLog
<1> QED BY <1>1, LogInvariant, SumInvariant, PTL

-----------------------------------------------------------------------------
(* What an answer is made into. *)

Number == Int \cup {None}

LEMMA PositiveType ==
  ASSUME NEW v \in Number
  PROVE  Positive(v) \in Nat
BY DEF Positive, Number

\* A quotient of numbers that are known is one.
LEMMA MeasuredType ==
  ASSUME NEW record, Numeric(record, Metrics \cup {CountOf[m] : m \in DOMAIN CountOf}), NEW window \in Nat \ {0},
         NEW k \in Metrics
  PROVE  Measured(record, window)[k] \in Number
<1> DEFINE count == IF k \in DOMAIN CountOf THEN GetNum(record, CountOf[k]) ELSE None
           rate == IF count = None \/ window <= 0 THEN None ELSE (count * 10) \div window
           own == GetNum(record, k)
<1>1. own \in Number
  BY DEF Numeric, Number
<1>2. count \in Number
  <2>1. k \in DOMAIN CountOf => CountOf[k] \in Metrics \cup {CountOf[m] : m \in DOMAIN CountOf}
    OBVIOUS
  <2>2. k \in DOMAIN CountOf => GetNum(record, CountOf[k]) \in Number
    BY <2>1 DEF Numeric, Number
  <2> QED BY <2>2 DEF Number
<1>3. Measured(record, window)[k] = FirstKnown(<<own, rate>>)
  BY DEF Measured
<1> HIDE DEF count, own
<1>4. rate \in Number
  <2>1. CASE count = None
    BY <2>1 DEF Number
  <2>2. CASE count # None
    <3>1. count \in Int /\ window \in Int /\ window > 0
      BY <1>2, <2>2 DEF Number
    <3>2. (count * 10) \div window \in Int
      BY <3>1
    <3> QED BY <2>2, <3>1, <3>2 DEF Number
  <2> QED BY <2>1, <2>2
<1> HIDE DEF rate
<1>5. FirstKnown(<<own, rate>>) \in {own, rate}
  BY FirstKnownOfTwo
<1> QED BY <1>1, <1>3, <1>4, <1>5

LEMMA SumOfTwoKnown ==
  ASSUME NEW a \in Number, NEW b \in Number
  PROVE  SumKnown(<<a, b>>) \in Number
<1> DEFINE f == <<a, b>>
<1>1. f \in [1 .. 2 -> Int \cup {None}]
  BY DEF Number
<1>2. IsFiniteSet(1 .. 2)
  BY FirstNumbers
<1> HIDE DEF f
<1>3. SumKnown(f) \in Int \cup {None}
  BY <1>1, <1>2, SumOfKnown
<1> QED BY <1>3 DEF f, Number

LEMMA ScoreType ==
  ASSUME NEW m, \A k \in Metrics : m[k] \in Number
  PROVE  Score(m) \in Nat
<1>1. /\ m.energy_impact_per_s \in Number /\ m.energy_impact \in Number /\ m.cpu_ms_per_s \in Number
      /\ m.gpu_ms_per_s \in Number /\ m.idle_wakeups_per_s \in Number /\ m.intr_wakeups_per_s \in Number
      /\ m.disk_read_bytes_per_s \in Number /\ m.disk_write_bytes_per_s \in Number
      /\ m.network_rx_bytes_per_s \in Number /\ m.network_tx_bytes_per_s \in Number
  BY DEF Metrics
<1> DEFINE a == Positive(m.cpu_ms_per_s)
           b == Positive(m.gpu_ms_per_s)
           c == Positive(m.idle_wakeups_per_s)
           d == Positive(m.intr_wakeups_per_s)
           e == Positive(SumKnown(<<m.disk_read_bytes_per_s, m.disk_write_bytes_per_s>>))
           f == Positive(SumKnown(<<m.network_rx_bytes_per_s, m.network_tx_bytes_per_s>>))
<1>2. a \in Nat /\ b \in Nat /\ c \in Nat /\ d \in Nat
  BY <1>1, PositiveType
<1>3. e \in Nat /\ f \in Nat
  BY <1>1, SumOfTwoKnown, PositiveType
<1>4. CompositeScore(m) = 100 * a + 200 * b + 75 * c + 8 * d + 300 * e + 100 * f
  BY DEF CompositeScore
<1> HIDE DEF a, b, c, d, e, f
<1>5. CompositeScore(m) \in Nat
  BY <1>2, <1>3, <1>4
<1>6. ASSUME NEW v \in Number, Positive(v) > 0 PROVE 100 * v \in Nat
  BY <1>6 DEF Positive, Number
<1>7. /\ Positive(m.energy_impact_per_s) > 0 => 100 * m.energy_impact_per_s \in Nat
      /\ Positive(m.energy_impact) > 0 => 100 * m.energy_impact \in Nat
  BY <1>1, <1>6
<1> QED BY <1>5, <1>7 DEF Score

\* A dictionary that is brought up to date has the new values.
LEMMA Updated ==
  ASSUME NEW d, NEW e
  PROVE  /\ \A k \in DOMAIN e : Update(d, e)[k] = e[k]
         /\ \A k \in DOMAIN d \ DOMAIN e : Update(d, e)[k] = d[k]
         /\ DOMAIN Update(d, e) = DOMAIN d \cup DOMAIN e
BY DEF Update

\* The items of a group of lists, and the ones that stand for their groups.
\* first gives each item the one that stands for it.
First(items) == [i \in DOMAIN items |-> Min(Group(items, i))]

LEMMA FirstOfGroup ==
  ASSUME NEW items, IsSeq(items)
  PROVE  /\ First(items) \in [DOMAIN items -> Firsts(items)]
         /\ Firsts(items) \in SUBSET DOMAIN items
         /\ \A i \in DOMAIN items, c \in Firsts(items) :
              First(items)[i] = c <=> i \in Group(items, c)
         /\ \A i, j \in Firsts(items) : items[i].key = items[j].key => i = j
<1> DEFINE D == DOMAIN items
<1>1. D = 1 .. Len(items) /\ Len(items) \in Nat /\ IsFiniteSet(D)
  <2>1. D = 1 .. Len(items) /\ Len(items) \in Nat
    BY SeqDomain
  <2> QED BY <2>1, FirstNumbers
<1>2. D \subseteq Int
  BY <1>1
<1> HIDE DEF D
<1>3. ASSUME NEW i \in D
      PROVE  /\ Min(Group(items, i)) \in Group(items, i)
             /\ \A j \in Group(items, i) : Min(Group(items, i)) <= j
  <2> DEFINE G == Group(items, i)
  <2>1. G \in SUBSET D /\ i \in G
    BY DEF Group, D
  <2> HIDE DEF G
  <2>2. IsFiniteSet(G) /\ G \in SUBSET Int /\ G # {}
    BY <1>1, <1>2, <2>1, FS_Subset
  <2> QED BY <2>2, Extremes DEF G
<1>4. ASSUME NEW i \in D, NEW j \in Group(items, i) PROVE Group(items, j) = Group(items, i) /\ j \in D
  BY <1>4 DEF Group, D
<1>5. ASSUME NEW i \in D PROVE Min(Group(items, i)) \in Firsts(items)
  <2> DEFINE m == Min(Group(items, i))
  <2>1. m \in D /\ Group(items, m) = Group(items, i)
    BY <1>3, <1>4
  <2>2. \A j \in Group(items, m) : m <= j
    BY <1>3, <2>1
  <2> HIDE DEF m
  <2>3. m \in Firsts(items)
    BY <2>1, <2>2 DEF Firsts, D
  <2> QED BY <2>3 DEF m
<1>6. First(items) \in [D -> Firsts(items)]
  BY <1>5 DEF First, D
<1>7. Firsts(items) \in SUBSET D /\ \A c \in Firsts(items) : \A j \in Group(items, c) : c <= j
  BY DEF Firsts, D
<1>8. ASSUME NEW i \in D, NEW c \in Firsts(items), Min(Group(items, i)) = c PROVE i \in Group(items, c)
  BY <1>3, <1>8 DEF Group, D
<1>9. ASSUME NEW i \in D, NEW c \in Firsts(items), i \in Group(items, c) PROVE Min(Group(items, i)) = c
  <2> DEFINE m == Min(Group(items, i))
  <2>1. Group(items, i) = Group(items, c) /\ c \in Group(items, c) /\ c \in D
    BY <1>4, <1>7, <1>9 DEF Group, D
  <2>2. m \in Group(items, c) /\ m <= c
    BY <1>3, <2>1
  <2>3. c <= m /\ m \in D
    BY <1>7, <2>1, <2>2 DEF Group, D
  <2> HIDE DEF m
  <2>4. m = c
    BY <1>2, <2>1, <2>2, <2>3
  <2> QED BY <2>4 DEF m
<1>10. ASSUME NEW i \in Firsts(items), NEW j \in Firsts(items), items[i].key = items[j].key PROVE i = j
  <2>1. i \in Group(items, j) /\ j \in Group(items, i) /\ i \in D /\ j \in D
    BY <1>7, <1>10 DEF Group, D
  <2>2. i <= j /\ j <= i /\ i \in Int /\ j \in Int
    BY <1>2, <1>7, <2>1
  <2> QED BY <2>2
<1>11. \A i \in D, c \in Firsts(items) : First(items)[i] = c <=> i \in Group(items, c)
  BY <1>8, <1>9 DEF First, D
<1> QED BY <1>6, <1>7, <1>10, <1>11 DEF D

\* Groups have different keys, and each field is the sum over the group.
SumOfGroup(items, i, k) == SumKnown([j \in Group(items, i) |-> items[j][k]])

LEMMA GroupedItems ==
  ASSUME NEW items, IsSeq(items), NEW fields
  PROVE  LET t == Grouped(items, fields)
             F == Firsts(items)
             p == Places(Firsts(items))
         IN  /\ IsSeq(t) /\ Len(t) = Cardinality(F) /\ Cardinality(F) \in Nat /\ IsFiniteSet(F) /\ Order(p, F)
             /\ \A n \in 1 .. Len(t) : t[n] = Update(items[p[n]], [k \in fields |-> SumOfGroup(items, p[n], k)])
<1> DEFINE u == [i \in DOMAIN items |-> Update(items[i], [k \in fields |-> SumOfGroup(items, i, k)])]
           F == Firsts(items)
           p == Places(Firsts(items))
<1>1. DOMAIN items = 1 .. Len(items) /\ Len(items) \in Nat /\ F \in SUBSET DOMAIN items
  BY SeqDomain, FirstOfGroup
<1>2. Grouped(items, fields) = At(u, F)
  BY DEF Grouped, SumOfGroup
<1>3. u = [i \in 1 .. Len(items) |-> u[i]] /\ DOMAIN u = DOMAIN items
  BY <1>1
<1>4. \A i \in DOMAIN items : u[i] = Update(items[i], [k \in fields |-> SumOfGroup(items, i, k)])
  OBVIOUS
<1> HIDE DEF u, F
<1>5. IsSeq(u)
  BY <1>1, <1>3, FunctionSeq
<1>6. IsFiniteSet(F) /\ F \subseteq Int
  BY <1>1, <1>3, <1>5, AtIsTaken
<1>7. /\ IsSeq(At(u, F)) /\ Len(At(u, F)) = Cardinality(F) /\ Cardinality(F) \in Nat
      /\ Order(Places(F), F)
      /\ \A n \in 1 .. Cardinality(F) : At(u, F)[n] = u[Places(F)[n]]
  BY <1>6, AtPlaces
<1>8. \A n \in 1 .. Cardinality(F) : Places(F)[n] \in F
  BY <1>7 DEF Order
<1>9. \A n \in 1 .. Cardinality(F) : At(u, F)[n] = Update(items[Places(F)[n]], [k \in fields |-> SumOfGroup(items, Places(F)[n], k)])
  BY <1>1, <1>4, <1>7, <1>8
<1> QED BY <1>2, <1>6, <1>7, <1>9 DEF F

\* What groups have of a field that is summed: the sum over all of them is the
\* sum over the items.
FieldSum(s, k) == SumFunction([i \in DOMAIN s |-> s[i][k]])

LEMMA GroupedField ==
  ASSUME NEW items, IsSeq(items), NEW fields, NEW k \in fields,
         \A i \in DOMAIN items : items[i][k] \in Number
  PROVE  LET t == Grouped(items, fields)
         IN  /\ \A n \in DOMAIN t : t[n][k] \in Number
             /\ (\A i \in DOMAIN items : items[i][k] \in Nat) =>
                  (\A n \in DOMAIN t : t[n][k] \in Nat) /\ FieldSum(t, k) = FieldSum(items, k)
<1> DEFINE t == Grouped(items, fields)
           F == Firsts(items)
           p == Places(Firsts(items))
           D == DOMAIN items
<1>1. /\ IsSeq(t) /\ Len(t) = Cardinality(F) /\ Cardinality(F) \in Nat /\ IsFiniteSet(F) /\ Order(p, F)
      /\ \A n \in 1 .. Len(t) : t[n] = Update(items[p[n]], [x \in fields |-> SumOfGroup(items, p[n], x)])
  BY GroupedItems
<1>2. DOMAIN t = 1 .. Cardinality(F)
  BY <1>1, SeqDomain
<1>3. ASSUME NEW n \in DOMAIN t PROVE t[n][k] = SumOfGroup(items, p[n], k) /\ p[n] \in F /\ p[n] \in D
  <2> DEFINE e == [x \in fields |-> SumOfGroup(items, p[n], x)]
  <2>1. k \in DOMAIN e /\ e[k] = SumOfGroup(items, p[n], k)
    OBVIOUS
  <2>2. t[n] = Update(items[p[n]], e)
    BY <1>1, <1>2
  <2>3. p[n] \in F /\ F \in SUBSET D
    BY <1>1, <1>2, FirstOfGroup DEF Order
  <2> DEFINE d == items[p[n]]
  <2> HIDE DEF e, t, d
  <2>4. t[n] = Update(d, e)
    BY <2>2 DEF d
  <2>5. \A x \in DOMAIN e : Update(d, e)[x] = e[x]
    BY Updated
  <2>6. t[n][k] = e[k]
    BY <2>1, <2>4, <2>5
  <2> QED BY <2>1, <2>3, <2>6
<1> HIDE DEF t, F, p
<1>4. IsFiniteSet(D)
  <2>1. D = 1 .. Len(items) /\ Len(items) \in Nat
    BY SeqDomain
  <2> QED BY <2>1, FirstNumbers
<1>5. ASSUME NEW i \in D
      PROVE  /\ Group(items, i) \in SUBSET D /\ IsFiniteSet(Group(items, i)) /\ i \in Group(items, i)
             /\ [j \in Group(items, i) |-> items[j][k]] \in [Group(items, i) -> Int \cup {None}]
  <2>1. Group(items, i) \in SUBSET D /\ i \in Group(items, i)
    BY DEF Group
  <2>2. \A j \in Group(items, i) : items[j][k] \in Int \cup {None}
    BY <2>1 DEF Number
  <2> QED BY <1>4, <2>1, <2>2, FS_Subset
<1>6. ASSUME NEW i \in D PROVE SumOfGroup(items, i, k) \in Number
  <2> DEFINE f == [j \in Group(items, i) |-> items[j][k]]
  <2>1. IsFiniteSet(Group(items, i)) /\ f \in [Group(items, i) -> Int \cup {None}]
    BY <1>5
  <2> HIDE DEF f
  <2>2. SumKnown(f) \in Int \cup {None}
    BY <2>1, SumOfKnown
  <2> QED BY <2>2 DEF f, SumOfGroup, Number
<1>7. ASSUME \A i \in D : items[i][k] \in Nat
      PROVE  (\A n \in DOMAIN t : t[n][k] \in Nat) /\ FieldSum(t, k) = FieldSum(items, k)
  <2> DEFINE f == [i \in D |-> items[i][k]]
             c == First(items)
             h == ClassSums(f, c, D, F)
  <2>1. f \in [D -> Int] /\ \A i \in D : 0 <= f[i]
    BY <1>7
  <2>2. c \in [D -> F] /\ \A i \in D, x \in F : c[i] = x <=> i \in Group(items, x)
    BY FirstOfGroup DEF F
  <2>3. h \in [F -> Int] /\ SumFunction(h) = SumFunction(f)
    <3> HIDE DEF f, c, D
    <3> QED BY <1>1, <1>4, <2>1, <2>2, SumOfClasses
  <2>4. ASSUME NEW x \in F PROVE h[x] = SumOfGroup(items, x, k) /\ 0 <= h[x]
    <3> DEFINE G == Group(items, x)
               g == [j \in G |-> items[j][k]]
    <3>1. x \in D
      BY FirstOfGroup DEF F
    <3>2. G \in SUBSET D /\ IsFiniteSet(G) /\ G # {}
      BY <1>5, <3>1
    <3>3. {y \in D : c[y] = x} = G
      BY <2>2, <3>2
    <3>4. [y \in {y \in D : c[y] = x} |-> f[y]] = g
      <4> HIDE DEF c, G
      <4>1. [y \in {y \in D : c[y] = x} |-> f[y]] = [y \in G |-> f[y]]
        BY <3>3
      <4> QED BY <3>2, <4>1
    <3>5. h[x] = SumFunction(g)
      <4>1. h[x] = SumFunction([y \in {y \in D : c[y] = x} |-> f[y]])
        BY DEF ClassSums
      <4> HIDE DEF h, f, c, g
      <4> QED BY <3>4, <4>1
    <3>6. g \in [G -> Int] /\ \A y \in G : 0 <= g[y]
      BY <1>7, <3>2
    <3>7. g \in [G -> Int \cup {None}]
      BY <3>6
    <3>8. SumOfGroup(items, x, k) = SumKnown(g)
      BY DEF SumOfGroup
    <3> HIDE DEF g, G, h, f
    <3>9. SumKnown(g) = SumFunction(g)
      BY <3>2, <3>6, <3>7, SumOfKnown
    <3>10. 0 <= SumFunction(g)
      BY <3>2, <3>6, SumOfTerm
    <3> QED BY <3>5, <3>8, <3>9, <3>10
  <2> HIDE DEF h
  <2>5. ASSUME NEW n \in DOMAIN t PROVE t[n][k] = h[p[n]] /\ t[n][k] \in Nat
    <3>1. t[n][k] = h[p[n]] /\ 0 <= h[p[n]] /\ p[n] \in F
      BY <1>3, <2>4
    <3>2. h[p[n]] \in Int
      BY <2>3, <3>1
    <3> QED BY <3>1, <3>2
  <2>6. FieldSum(t, k) = SumFunction([n \in 1 .. Cardinality(F) |-> h[p[n]]])
    BY <1>2, <2>5 DEF FieldSum
  <2>7. SumFunction([n \in 1 .. Cardinality(F) |-> h[p[n]]]) = SumFunction(h)
    BY <1>1, <2>3, SumInOrder
  <2>8. FieldSum(items, k) = SumFunction(f)
    BY DEF FieldSum
  <2> QED BY <2>3, <2>5, <2>6, <2>7, <2>8
<1>8. \A n \in DOMAIN t : t[n][k] \in Number
  BY <1>3, <1>6
<1> QED BY <1>7, <1>8 DEF t

\* A field that is not summed is that of the first of the group, and no two
\* groups have the same key.
Distinct(s) == \A i, j \in DOMAIN s : s[i].key = s[j].key => i = j

LEMMA GroupedKeys ==
  ASSUME NEW items, IsSeq(items), NEW fields, "key" \notin fields,
         \A i \in DOMAIN items : "key" \in DOMAIN items[i]
  PROVE  LET t == Grouped(items, fields)
         IN  /\ IsSeq(t) /\ Distinct(t)
             /\ \A n \in DOMAIN t : \E i \in Firsts(items) : t[n].key = items[i].key
<1> DEFINE t == Grouped(items, fields)
           F == Firsts(items)
           p == Places(Firsts(items))
<1>1. /\ IsSeq(t) /\ Len(t) = Cardinality(F) /\ Order(p, F)
      /\ \A n \in 1 .. Len(t) : t[n] = Update(items[p[n]], [x \in fields |-> SumOfGroup(items, p[n], x)])
  BY GroupedItems
<1>2. DOMAIN t = 1 .. Cardinality(F)
  BY <1>1, SeqDomain
<1>3. ASSUME NEW n \in DOMAIN t PROVE p[n] \in F /\ t[n].key = items[p[n]].key
  <2> DEFINE e == [x \in fields |-> SumOfGroup(items, p[n], x)]
             d == items[p[n]]
  <2>1. p[n] \in F /\ p[n] \in DOMAIN items
    BY <1>1, <1>2, FirstOfGroup DEF Order
  <2>2. t[n] = Update(d, e) /\ "key" \in DOMAIN d \ DOMAIN e
    BY <1>1, <1>2, <2>1
  <2> HIDE DEF e, d, t
  <2>3. \A x \in DOMAIN d \ DOMAIN e : Update(d, e)[x] = d[x]
    BY Updated
  <2>4. t[n]["key"] = d["key"]
    BY <2>2, <2>3
  <2> QED BY <2>1, <2>4 DEF d
<1>4. \A i, j \in F : items[i].key = items[j].key => i = j
  BY FirstOfGroup
<1>5. \A m, n \in DOMAIN t : p[m] = p[n] => m = n
  BY <1>1, <1>2 DEF Order
<1> HIDE DEF t, p, F
<1>6. Distinct(t)
  BY <1>3, <1>4, <1>5 DEF Distinct
<1>7. \A n \in DOMAIN t : \E i \in F : t[n].key = items[i].key
  BY <1>3
<1> QED BY <1>1, <1>6, <1>7 DEF t, F

\* A list of elements of another has what these have.
LEMMA DrawnElements ==
  ASSUME NEW s, NEW t, TakenFrom(t, s)
  PROVE  /\ IsSeq(t) /\ \A n \in DOMAIN t : \E i \in DOMAIN s : t[n] = s[i]
         /\ Distinct(s) => Distinct(t)
<1>1. PICK p : TakenAt(p, t, s)
  BY DEF TakenFrom
<1>2. DOMAIN t = 1 .. Len(t) /\ IsSeq(t)
  BY <1>1, SeqDomain DEF TakenAt
<1>3. \A n \in DOMAIN t : p[n] \in DOMAIN s /\ t[n] = s[p[n]]
  BY <1>1, <1>2 DEF TakenAt
<1>4. ASSUME Distinct(s) PROVE Distinct(t)
  <2> SUFFICES ASSUME NEW m \in DOMAIN t, NEW n \in DOMAIN t, t[m].key = t[n].key PROVE m = n
    BY DEF Distinct
  <2>1. p[m] = p[n]
    BY <1>3, <1>4 DEF Distinct
  <2> QED BY <1>1, <1>2, <2>1 DEF TakenAt
<1> QED BY <1>2, <1>3, <1>4

LEMMA DrawnSum ==
  ASSUME NEW s, IsSeq(s), NEW t, TakenFrom(t, s), NEW k, \A i \in DOMAIN s : s[i][k] \in Nat
  PROVE  /\ FieldSum(t, k) \in Nat /\ FieldSum(s, k) \in Nat /\ FieldSum(t, k) <= FieldSum(s, k)
         /\ Len(t) = Len(s) => FieldSum(t, k) = FieldSum(s, k)
<1>1. PICK p : TakenAt(p, t, s)
  BY DEF TakenFrom
<1> DEFINE f == [i \in DOMAIN s |-> s[i][k]]
           g == [n \in 1 .. Len(t) |-> f[p[n]]]
<1>2. f \in [DOMAIN s -> Nat]
  OBVIOUS
<1>3. /\ DOMAIN t = 1 .. Len(t) /\ p \in [1 .. Len(t) -> DOMAIN s]
      /\ \A n \in 1 .. Len(t) : t[n] = s[p[n]]
      /\ \A m, n \in 1 .. Len(t) : p[m] = p[n] => m = n
  BY <1>1, SeqDomain DEF TakenAt
<1>4. FieldSum(t, k) = SumFunction(g) /\ FieldSum(s, k) = SumFunction(f)
  <2>1. \A n \in 1 .. Len(t) : p[n] \in DOMAIN s
    BY <1>3
  <2>2. \A n \in 1 .. Len(t) : f[p[n]] = t[n][k]
    BY <1>3, <2>1
  <2>3. g = [n \in DOMAIN t |-> t[n][k]]
    <3> HIDE DEF f
    <3> QED BY <1>3, <2>2
  <2> QED BY <2>3 DEF FieldSum
<1> HIDE DEF f
<1>5. /\ SumFunction(g) \in Nat /\ SumFunction(f) \in Nat /\ SumFunction(g) <= SumFunction(f)
      /\ (\A i \in DOMAIN s : (\A n \in 1 .. Len(t) : p[n] # i) => f[i] = 0) => SumFunction(g) = SumFunction(f)
  BY ONLY <1>1, <1>2, IsSeq(s), SumOfTaken
<1> HIDE DEF g
<1>6. ASSUME Len(t) = Len(s) PROVE \A i \in DOMAIN s : \E n \in 1 .. Len(t) : p[n] = i
  <2> DEFINE D == 1 .. Len(s)
  <2>1. DOMAIN s = D /\ Len(s) \in Nat
    BY SeqDomain
  <2>2. IsFiniteSet(D)
    BY <2>1, FirstNumbers
  <2>3. p \in Injection(D, D)
    BY <1>3, <1>6, <2>1 DEF Injection, IsInjective
  <2> HIDE DEF D
  <2>4. p \in Surjection(D, D)
    BY <2>2, <2>3, FS_Injection
  <2>5. \A i \in D : \E n \in D : p[n] = i
    BY <2>4 DEF Surjection
  <2> QED BY <1>6, <2>1, <2>5 DEF D
<1> QED BY <1>4, <1>5, <1>6

\* AtMost is the whole list where that is not longer.
LEMMA AtMostOf ==
  ASSUME NEW s, IsSeq(s), NEW n \in Nat
  PROVE  /\ IsSeq(AtMost(s, n)) /\ TakenFrom(AtMost(s, n), s) /\ Len(AtMost(s, n)) <= n
         /\ Len(AtMost(s, n)) \in Nat /\ (Len(s) <= n => Len(AtMost(s, n)) = Len(s))
<1> DEFINE m == IF Len(s) < n THEN Len(s) ELSE n
<1>1. Len(s) \in Nat
  BY SeqDomain
<1>2. m \in 0 .. Len(s) /\ m <= n /\ m \in Nat /\ (Len(s) <= n => m = Len(s))
  BY <1>1
<1>3. AtMost(s, n) = SubSeq(s, 1, m)
  BY DEF AtMost
<1> HIDE DEF m
<1>4. IsSeq(SubSeq(s, 1, m)) /\ Len(SubSeq(s, 1, m)) = m /\ TakenFrom(SubSeq(s, 1, m), s)
  BY <1>2, BeginningIsTaken
<1> QED BY <1>2, <1>3, <1>4

\* The most active are of the given ones; their scores add up to no more, and
\* to the same where all have room.
LEMMA MostActiveOf ==
  ASSUME NEW s, IsSeq(s), \A i \in DOMAIN s : s[i].score \in Nat
  PROVE  /\ IsSeq(MostActive(s)) /\ TakenFrom(MostActive(s), s) /\ Len(MostActive(s)) <= MaxActivities
         /\ FieldSum(MostActive(s), "score") \in Nat /\ FieldSum(s, "score") \in Nat
         /\ FieldSum(MostActive(s), "score") <= FieldSum(s, "score")
         /\ Len(s) <= MaxActivities => FieldSum(MostActive(s), "score") = FieldSum(s, "score")
<1> DEFINE rank == [i \in DOMAIN s |-> s[i].score]
           d == Descending(s, rank)
           m == AtMost(d, MaxActivities)
<1>1. rank \in [DOMAIN s -> Int]
  OBVIOUS
<1>2. MostActive(s) = m
  BY DEF MostActive
<1> HIDE DEF rank
<1>3. IsSeq(d) /\ Len(d) = Len(s) /\ TakenFrom(d, s)
  BY <1>1, DescendingIsTaken
<1>4. MaxActivities \in Nat
  BY ActivityAssumption
<1> HIDE DEF d
<1>5. /\ IsSeq(m) /\ TakenFrom(m, d) /\ Len(m) <= MaxActivities
      /\ Len(d) <= MaxActivities => Len(m) = Len(d)
  BY <1>3, <1>4, AtMostOf
<1> HIDE DEF m
<1>6. TakenFrom(m, s)
  BY <1>3, <1>5, TakenFromTaken
<1>7. /\ FieldSum(m, "score") \in Nat /\ FieldSum(s, "score") \in Nat /\ FieldSum(m, "score") <= FieldSum(s, "score")
      /\ Len(m) = Len(s) => FieldSum(m, "score") = FieldSum(s, "score")
  BY <1>6, DrawnSum
<1> QED BY <1>2, <1>3, <1>5, <1>6, <1>7

-----------------------------------------------------------------------------
(* Names. *)

CacheOK(cache) == IsSeq(cache) /\ Len(cache) <= MaxNames

LEMMA ResolveKeeps ==
  ASSUME NEW cache, CacheOK(cache), NEW raw, NEW command, NEW spotlight
  PROVE  CacheOK(Resolve(cache, raw, command, spotlight).cache)
<1> DEFINE kept == IF Len(cache) >= MaxNames THEN Tail(cache) ELSE cache
           entry == [raw |-> raw, command |-> command, title |-> FreshTitle(raw, command, spotlight)]
           r == Resolve(cache, raw, command, spotlight)
<1>1. IsSeq(cache) /\ Len(cache) \in Nat /\ Len(cache) <= MaxNames /\ MaxNames \in Nat \ {0}
  BY SeqDomain, ActivityAssumption DEF CacheOK
<1>2. r.cache = cache \/ r.cache = Append(kept, entry)
  BY DEF Resolve
<1> HIDE DEF r, entry
<1>3. IsSeq(kept) /\ Len(kept) < MaxNames /\ Len(kept) \in Nat
  <2>1. CASE Len(cache) >= MaxNames
    <3>1. cache \in Seq(Range(cache)) /\ cache # <<>>
      BY <1>1, <2>1, ShortSeq DEF IsSeq
    <3>2. Tail(cache) \in Seq(Range(cache)) /\ Len(Tail(cache)) = Len(cache) - 1
      BY <3>1, HeadTailProperties
    <3>3. IsSeq(Tail(cache))
      BY <3>2, AnySeq
    <3> QED BY <1>1, <2>1, <3>2, <3>3
  <2>2. CASE ~(Len(cache) >= MaxNames)
    BY <1>1, <2>2
  <2> QED BY <2>1, <2>2
<1> HIDE DEF kept
<1>4. IsSeq(Append(kept, entry)) /\ Len(Append(kept, entry)) = Len(kept) + 1
  BY <1>3, AppendSeq
<1>5. CacheOK(Append(kept, entry))
  BY <1>1, <1>3, <1>4 DEF CacheOK
<1> QED BY <1>2, <1>5 DEF r

\* The caches after each activity: what the recursion says of them exists, and
\* all of them are within the bound.
LEMMA CachesKeep ==
  ASSUME NEW activities, IsSeq(activities), NEW cache, CacheOK(cache), NEW spotlight, NEW limit
  PROVE  \A i \in 0 .. Len(activities) : CacheOK(Caches(activities, cache, spotlight, limit)[i])
<1> DEFINE n == Len(activities)
           step(i, x) == IF i > limit THEN x ELSE ResolveFor(activities[i], x, spotlight).cache
           Run(f, m) == f = [i \in 0 .. m |-> IF i = 0 THEN cache ELSE step(i, f[i - 1])]
           S == {m \in Nat : \E f : Run(f, m)}
           c == Caches(activities, cache, spotlight, limit)
<1>1. n \in Nat
  BY SeqDomain
<1> HIDE DEF n
<1>2. ASSUME NEW i, NEW x, CacheOK(x) PROVE CacheOK(step(i, x))
  <2>1. CacheOK(ResolveFor(activities[i], x, spotlight).cache)
    BY <1>2, ResolveKeeps DEF ResolveFor
  <2> QED BY <1>2, <2>1
<1>3. c = CHOOSE f : f = [i \in 0 .. n |-> IF i = 0 THEN cache ELSE step(i, f[i - 1])]
  <2>1. c = CHOOSE f : f = [i \in 0 .. n |->
                IF i = 0 THEN cache
                ELSE IF i > limit THEN f[i - 1]
                ELSE ResolveFor(activities[i], f[i - 1], spotlight).cache]
    BY DEF Caches, n
  <2> QED BY <2>1
<1> HIDE DEF step, c
<1>4. 0 \in S
  <2> DEFINE f == [i \in 0 .. 0 |-> cache]
  <2>1. f = [i \in 0 .. 0 |-> IF i = 0 THEN cache ELSE step(i, f[i - 1])]
    OBVIOUS
  <2> HIDE DEF f
  <2>2. Run(f, 0)
    BY <2>1
  <2> QED BY <2>2
<1>5. ASSUME NEW m \in Nat, m \in S PROVE m + 1 \in S
  <2>1. PICK f : Run(f, m)
    BY <1>5
  <2> DEFINE g == [i \in 0 .. m + 1 |-> IF i = m + 1 THEN step(m + 1, f[m]) ELSE f[i]]
  <2>2. \A i \in 0 .. m : f[i] = IF i = 0 THEN cache ELSE step(i, f[i - 1])
    <3> HIDE DEF step
    <3> QED BY <2>1
  <2>3. ASSUME NEW i \in 0 .. m + 1 PROVE g[i] = IF i = 0 THEN cache ELSE step(i, g[i - 1])
    <3>1. CASE i = 0
      <4>1. i # m + 1 /\ 0 \in 0 .. m
        BY <3>1
      <4> QED BY <2>2, <3>1, <4>1
    <3>2. CASE i \in 1 .. m
      <4>1. i # m + 1 /\ i \in 0 .. m /\ i - 1 \in 0 .. m + 1 /\ i - 1 # m + 1 /\ i # 0
        BY <3>2
      <4>2. g[i] = f[i] /\ g[i - 1] = f[i - 1]
        BY <4>1
      <4> HIDE DEF g
      <4> QED BY <2>2, <4>1, <4>2
    <3>3. CASE i = m + 1
      <4>1. i - 1 = m /\ m \in 0 .. m + 1 /\ m # m + 1 /\ i # 0
        BY <3>3
      <4>2. g[i] = step(i, f[m]) /\ g[m] = f[m]
        BY <3>3, <4>1
      <4> HIDE DEF g
      <4> QED BY <4>1, <4>2
    <3>4. i = 0 \/ i \in 1 .. m \/ i = m + 1
      OBVIOUS
    <3> QED BY <3>1, <3>2, <3>3, <3>4
  <2>4. g = [i \in 0 .. m + 1 |-> g[i]]
    OBVIOUS
  <2> HIDE DEF g
  <2>5. g = [i \in 0 .. m + 1 |-> IF i = 0 THEN cache ELSE step(i, g[i - 1])]
    BY <2>3, <2>4
  <2>6. Run(g, m + 1)
    BY <2>5
  <2> QED BY <2>6
<1>6. Nat \subseteq S
  <2> HIDE DEF S
  <2> QED BY <1>4, <1>5, Induction
<1>7. \E f : f = [i \in 0 .. n |-> IF i = 0 THEN cache ELSE step(i, f[i - 1])]
  BY <1>1, <1>6
<1>8. c = [i \in 0 .. n |-> IF i = 0 THEN cache ELSE step(i, c[i - 1])]
  <2> DEFINE R(f) == f = [i \in 0 .. n |-> IF i = 0 THEN cache ELSE step(i, f[i - 1])]
  <2>1. (\E f : R(f)) /\ c = CHOOSE f : R(f)
    BY <1>3, <1>7
  <2> HIDE DEF R
  <2>2. R(c)
    BY <2>1
  <2> QED BY <2>2 DEF R
<1>9. \A i \in 0 .. n : c[i] = IF i = 0 THEN cache ELSE step(i, c[i - 1])
  BY <1>8
<1> DEFINE T == {m \in Nat : m <= n => CacheOK(c[m])}
<1>10. 0 \in T
  <2>1. c[0] = cache
    BY <1>1, <1>9
  <2> QED BY <2>1
<1>11. ASSUME NEW m \in Nat, m \in T PROVE m + 1 \in T
  <2> SUFFICES ASSUME m + 1 <= n PROVE CacheOK(c[m + 1])
    OBVIOUS
  <2>1. m + 1 \in 0 .. n /\ m + 1 # 0 /\ m + 1 - 1 = m /\ m <= n
    BY <1>1
  <2>2. c[m + 1] = step(m + 1, c[m])
    BY <1>9, <2>1
  <2>3. CacheOK(c[m])
    BY <1>11, <2>1
  <2> QED BY <1>2, <2>2, <2>3
<1>12. Nat \subseteq T
  <2> HIDE DEF T
  <2> QED BY <1>10, <1>11, Induction
<1>13. \A i \in 0 .. n : CacheOK(c[i])
  BY <1>1, <1>12
<1> QED BY <1>13 DEF c, n

\* The resolved names change neither the number of the activities nor what
\* they are of and how active they are.
KeepsFields(b, a, keys) ==
  \A i \in DOMAIN a : keys \subseteq DOMAIN b[i] /\ \A k \in keys : b[i][k] = a[i][k]

LEMMA TitlesKeep ==
  ASSUME NEW activities, IsSeq(activities), NEW cache, CacheOK(cache), NEW spotlight, NEW limit,
         NEW keys, keys \cap {"display_name", "category"} = {},
         \A i \in DOMAIN activities : keys \subseteq DOMAIN activities[i]
  PROVE  LET t == WithTitles(activities, cache, spotlight, limit)
         IN  /\ CacheOK(t.cache) /\ IsSeq(t.activities) /\ Len(t.activities) = Len(activities)
             /\ DOMAIN t.activities = DOMAIN activities
             /\ KeepsFields(t.activities, activities, keys)
<1> DEFINE after == Caches(activities, cache, spotlight, limit)
           title(i) == ResolveFor(activities[i], after[i - 1], spotlight).title
           new(i) == [display_name |-> title(i), category |-> Classify(activities[i].raw_name, title(i))]
           list == [i \in DOMAIN activities |-> IF i > limit THEN activities[i] ELSE Update(activities[i], new(i))]
           t == WithTitles(activities, cache, spotlight, limit)
<1>1. Len(activities) \in Nat /\ DOMAIN activities = 1 .. Len(activities)
  BY SeqDomain
<1>2. t = [cache |-> after[Len(activities)], activities |-> list]
  BY DEF WithTitles
<1>3. CacheOK(after[Len(activities)])
  BY <1>1, CachesKeep
<1>4. ASSUME NEW i \in DOMAIN activities, NEW k \in keys PROVE list[i][k] = activities[i][k] /\ k \in DOMAIN list[i]
  <2> DEFINE d == activities[i]
             e == new(i)
  <2>1. DOMAIN e = {"display_name", "category"} /\ k \in DOMAIN d \ {"display_name", "category"}
    BY <1>4
  <2>2. list[i] = d \/ list[i] = Update(d, e)
    OBVIOUS
  <2> HIDE DEF d, e, list
  <2>3. /\ \A x \in DOMAIN d \ DOMAIN e : Update(d, e)[x] = d[x]
        /\ DOMAIN Update(d, e) = DOMAIN d \cup DOMAIN e
    BY Updated
  <2> QED BY <2>1, <2>2, <2>3 DEF d
<1>5. list = [i \in 1 .. Len(activities) |-> list[i]] /\ DOMAIN list = DOMAIN activities
  BY <1>1
<1> HIDE DEF list, after
<1>6. IsSeq(list) /\ Len(list) = Len(activities)
  BY <1>1, <1>5, FunctionSeq
<1> HIDE DEF t
<1>7. t.cache = after[Len(activities)] /\ t.activities = list
  BY <1>2
<1> QED BY <1>3, <1>4, <1>5, <1>6, <1>7 DEF t, KeepsFields

-----------------------------------------------------------------------------
(* What one answer of powermetrics says. *)

ActivityOK(a) ==
  /\ Metrics \cup {"key", "score"} \subseteq DOMAIN a
  /\ a.score \in Nat /\ \A k \in Metrics : a[k] \in Number

ActivitiesOK(s) == IsSeq(s) /\ \A i \in DOMAIN s : ActivityOK(s[i])

RecordFields == Metrics \cup {CountOf[m] : m \in DOMAIN CountOf} \cup {"pid", "id", "responsible_pid"}

LEMMA RecordActivity ==
  ASSUME NEW record, Numeric(record, RecordFields), NEW records, NEW source, NEW window \in Nat \ {0}
  PROVE  LET a == ActivityFromRecord(record, records, source, window)
         IN  /\ ActivityOK(a) /\ a.key = Key(record, RawName(record, records, source), source)
             /\ a.score = Score(Measured(record, window))
<1> DEFINE a == ActivityFromRecord(record, records, source, window)
           m == Measured(record, window)
           raw == RawName(record, records, source)
           key == Key(record, raw, source)
           score == Score(m)
           display == FirstKnown(<<Get(Titles.known, raw), raw>>)
           e == [key |-> key, raw_name |-> raw, display_name |-> display,
                 category |-> Classify(raw, display), source |-> source, score |-> score]
<1>1. Numeric(record, Metrics \cup {CountOf[x] : x \in DOMAIN CountOf})
  BY DEF Numeric, RecordFields
<1>2. \A k \in Metrics : m[k] \in Number
  BY <1>1, MeasuredType
<1>3. DOMAIN m = Metrics
  BY DEF Measured
<1>4. a = Update(m, e)
  BY DEF ActivityFromRecord
<1> HIDE DEF m, raw, key, display, a
<1>5. score \in Nat
  BY <1>2, ScoreType
<1> HIDE DEF score
<1>6. /\ DOMAIN e = {"key", "raw_name", "display_name", "category", "source", "score"}
      /\ e.key = key /\ e.score = score
  OBVIOUS
<1> HIDE DEF e
<1>7. /\ \A k \in DOMAIN e : Update(m, e)[k] = e[k]
      /\ \A k \in DOMAIN m \ DOMAIN e : Update(m, e)[k] = m[k]
      /\ DOMAIN Update(m, e) = DOMAIN m \cup DOMAIN e
  BY Updated
<1>8. Metrics \cap DOMAIN e = {}
  BY <1>6 DEF Metrics
<1>9. a.key = key /\ a.score = score /\ DOMAIN a = Metrics \cup DOMAIN e
  BY <1>3, <1>4, <1>6, <1>7
<1>10. \A k \in Metrics : a[k] = m[k]
  BY <1>3, <1>4, <1>7, <1>8
<1>11. ActivityOK(a)
  BY <1>2, <1>5, <1>6, <1>9, <1>10 DEF ActivityOK
<1> QED BY <1>9, <1>11 DEF a, key, raw, score, m

\* The last of the plists of an answer.
LEMMA LastPlist ==
  ASSUME NEW answer, AnswerOK(answer), answer.kind = "ok", DecodePlists(answer.payload) # <<>>
  PROVE  LET plists == DecodePlists(answer.payload)
             plist == plists[Len(plists)]
         IN  IsDict(plist) /\ PlistOK(plist)
<1> DEFINE payload == answer.payload
           chunks == payload.chunks
           plists == DecodePlists(payload)
           P == {i \in DOMAIN chunks : IsDict(chunks[i])}
<1>1. /\ PlistOK(payload.whole) /\ IsSeq(chunks)
      /\ \A i \in DOMAIN chunks : PlistOK(chunks[i])
  BY DEF AnswerOK, Listed, IsSeq
<1>2. CASE IsDict(payload.whole)
  <2>1. plists = <<payload.whole>>
    BY <1>2 DEF DecodePlists
  <2> HIDE DEF plists
  <2>2. Len(plists) = 1 /\ plists[1] = payload.whole
    BY <2>1, ShortSeq
  <2>3. plists[Len(plists)] = payload.whole
    BY <2>2
  <2> QED BY <1>1, <1>2, <2>3 DEF plists
<1>3. CASE ~IsDict(payload.whole)
  <2>1. plists = At(chunks, P)
    BY <1>3 DEF DecodePlists, Filter
  <2>2. P \in SUBSET DOMAIN chunks
    OBVIOUS
  <2>3. \A i \in P : IsDict(chunks[i]) /\ i \in DOMAIN chunks
    OBVIOUS
  <2>4. plists # <<>>
    OBVIOUS
  <2> HIDE DEF plists, P
  <2>5. IsFiniteSet(P) /\ P \subseteq Int
    BY <1>1, <2>2, AtIsTaken
  <2>6. /\ IsSeq(At(chunks, P)) /\ Len(At(chunks, P)) = Cardinality(P) /\ Cardinality(P) \in Nat
        /\ Order(Places(P), P)
        /\ \A n \in 1 .. Cardinality(P) : At(chunks, P)[n] = chunks[Places(P)[n]]
    <3>1. /\ IsSeq(At(chunks, P)) /\ Len(At(chunks, P)) = Cardinality(P) /\ Cardinality(P) \in Nat
          /\ Order(Places(P), P) /\ TakenAt(Places(P), At(chunks, P), chunks)
      BY <1>1, <2>2, AtIsTaken
    <3> QED BY <3>1 DEF TakenAt
  <2>7. Len(plists) # 0
    BY <2>1, <2>4, <2>6, EmptySeq DEF IsSeq
  <2> DEFINE n == Len(plists)
  <2>8. n \in 1 .. Cardinality(P)
    BY <2>1, <2>6, <2>7
  <2> HIDE DEF n
  <2>9. Places(P)[n] \in P /\ plists[n] = chunks[Places(P)[n]]
    BY <2>1, <2>6, <2>8 DEF Order
  <2>10. IsDict(plists[n]) /\ PlistOK(plists[n])
    BY <1>1, <2>3, <2>9
  <2> QED BY <2>10 DEF n, plists
<1> QED BY <1>2, <1>3

\* The records of a plist have numbers.
LEMMA ReadRecords ==
  ASSUME NEW plist, IsDict(plist), PlistOK(plist), Records(plist) # None
  PROVE  LET read == Records(plist)
         IN  IsSeq(read.records) /\ \A i \in DOMAIN read.records : Numeric(read.records[i], RecordFields)
<1> DEFINE read == Records(plist)
<1>1. PICK k \in {"coalitions", "tasks"} :
        /\ read.records = Filter(plist[k], IsDict)
        /\ Get(plist, k) \notin {None, Junk, <<>>}
  <2> DEFINE usable(x) == Get(plist, x) \notin {None, Junk, << >>}
             of(x, source) == [source |-> source, records |-> Filter(plist[x], IsDict)]
  <2>1. read = IF usable("coalitions") THEN of("coalitions", "powermetrics-coalition")
               ELSE IF usable("tasks") THEN of("tasks", "powermetrics-task") ELSE None
    BY DEF Records
  <2>2. \A x, source : of(x, source).records = Filter(plist[x], IsDict)
    OBVIOUS
  <2>3. read # None
    OBVIOUS
  <2> HIDE DEF of, read, usable
  <2>4. \/ usable("coalitions") /\ read = of("coalitions", "powermetrics-coalition")
        \/ usable("tasks") /\ read = of("tasks", "powermetrics-task")
    BY <2>1, <2>3
  <2> QED BY <2>2, <2>4 DEF usable
<1> DEFINE s == plist[k]
           P == {i \in DOMAIN s : IsDict(s[i])}
           t == At(s, P)
<1>2. k \in DOMAIN plist /\ IsDict(s)
  BY <1>1 DEF Get, IsDict
<1>3. IsSeq(s) /\ \A i \in DOMAIN s : IsDict(s[i]) => Numeric(s[i], RecordFields)
  BY <1>2 DEF PlistOK, Listed, IsSeq, RecordFields
<1>4. read.records = t
  BY <1>1 DEF Filter
<1>5. P \in SUBSET DOMAIN s /\ \A i \in P : Numeric(s[i], RecordFields)
  BY <1>3
<1> HIDE DEF s, P, read
<1>6. IsFiniteSet(P) /\ P \subseteq Int
  BY <1>3, <1>5, AtIsTaken
<1>7. /\ IsSeq(t) /\ Len(t) = Cardinality(P) /\ Order(Places(P), P)
      /\ \A n \in 1 .. Cardinality(P) : t[n] = s[Places(P)[n]]
  BY <1>6, AtPlaces
<1> HIDE DEF t
<1>8. DOMAIN t = 1 .. Cardinality(P)
  BY <1>7, SeqDomain
<1>9. \A i \in DOMAIN t : Numeric(t[i], RecordFields)
  BY <1>5, <1>7, <1>8 DEF Order
<1> QED BY <1>4, <1>7, <1>9 DEF read

\* The activities of the records, of those that have a name of their own and a
\* score above 0, and what their scores add up to.
Activities(read, window) ==
  [i \in DOMAIN read.records |-> ActivityFromRecord(read.records[i], read.records, read.source, window)]

Scored(read, window) ==
  Filter(At(Activities(read, window), Singles(read)), LAMBDA a : a.score > 0)

ActiveOnes(read, window) == {i \in Singles(read) : SingleScores(read, window)[i] > 0}

LEMMA ScoredActivities ==
  ASSUME NEW read, IsSeq(read.records), \A i \in DOMAIN read.records : Numeric(read.records[i], RecordFields),
         NEW window \in Nat \ {0}
  PROVE  LET s == Activities(read, window)
             t == Scored(read, window)
         IN  /\ ActivitiesOK(t) /\ FieldSum(t, "score") = SumFunction(SingleScores(read, window))
             /\ \A n \in DOMAIN t : \E i \in ActiveOnes(read, window) :
                  t[n].key = Key(read.records[i], RawOf(read, i), read.source)
<1> DEFINE D == DOMAIN read.records
           s == Activities(read, window)
           P == Singles(read)
           R == ActiveOnes(read, window)
           u == At(s, P)
           Q == {m \in DOMAIN u : u[m].score > 0}
           t == At(u, Q)
<1>1. D = 1 .. Len(read.records) /\ Len(read.records) \in Nat /\ IsFiniteSet(D)
  <2>1. D = 1 .. Len(read.records) /\ Len(read.records) \in Nat
    BY SeqDomain
  <2> QED BY <2>1, FirstNumbers
<1>2. ASSUME NEW i \in D
      PROVE  /\ ActivityOK(s[i]) /\ s[i].key = Key(read.records[i], RawOf(read, i), read.source)
             /\ s[i].score = Score(Measured(read.records[i], window))
  BY RecordActivity DEF Activities, RawOf
<1>3. s = [i \in 1 .. Len(read.records) |-> s[i]] /\ DOMAIN s = D
  BY <1>1 DEF Activities
<1>4. P \in SUBSET D
  BY DEF Singles
<1>5. \A i \in P : SingleScores(read, window)[i] = s[i].score /\ s[i].score \in Nat
  BY <1>2, <1>4 DEF SingleScores, ActivityOK
<1>6. R \in SUBSET P /\ \A i \in P : i \in R <=> s[i].score > 0
  BY <1>5 DEF ActiveOnes
<1> HIDE DEF s, P, R
<1>7. IsSeq(s)
  BY <1>1, <1>3, FunctionSeq
<1>8. /\ IsSeq(At(s, P)) /\ Len(At(s, P)) = Cardinality(P) /\ Order(Places(P), P)
      /\ TakenAt(Places(P), At(s, P), s)
  <2>1. P \in SUBSET DOMAIN s
    BY <1>3, <1>4
  <2> HIDE DEF u, t, Q, D
  <2> QED BY <1>7, <2>1, AtIsTaken
<1>9. /\ DOMAIN u = 1 .. Cardinality(P)
      /\ \A m \in DOMAIN u : Places(P)[m] \in P /\ u[m] = s[Places(P)[m]]
  <2>1. DOMAIN u = 1 .. Cardinality(P)
    BY <1>8, SeqDomain
  <2> QED BY <1>8, <2>1 DEF Order, TakenAt
<1>10. \A m \in DOMAIN u : m \in Q <=> Places(P)[m] \in R
  BY <1>6, <1>9
<1>11. Scored(read, window) = t
  BY DEF Scored, Filter, s, P
<1>12. Q \in SUBSET DOMAIN u
  OBVIOUS
<1> HIDE DEF Q
<1>13. IsSeq(t) /\ \E p : TakenAt(p, t, s) /\ {p[n] : n \in 1 .. Len(t)} = R
  <2>1. P \in SUBSET DOMAIN s
    BY <1>3, <1>4
  <2> QED BY ONLY <2>1, <1>6, <1>7, <1>10, <1>12, AtOfAt
<1> HIDE DEF t, u
<1>14. PICK p : TakenAt(p, t, s) /\ {p[n] : n \in 1 .. Len(t)} = R
  BY <1>13
<1>15. DOMAIN t = 1 .. Len(t)
  BY <1>13, SeqDomain
<1>16. \A n \in DOMAIN t : p[n] \in R /\ p[n] \in P /\ p[n] \in D /\ t[n] = s[p[n]]
  BY <1>3, <1>4, <1>6, <1>14, <1>15 DEF TakenAt
<1>17. ActivitiesOK(t)
  BY <1>2, <1>13, <1>16 DEF ActivitiesOK
<1>18. \A n \in DOMAIN t : \E i \in R : t[n].key = Key(read.records[i], RawOf(read, i), read.source)
  BY <1>2, <1>16
<1>19. FieldSum(t, "score") = SumFunction(SingleScores(read, window))
  <2> DEFINE f == [i \in DOMAIN s |-> IF i \in P THEN s[i].score ELSE 0]
             g == [n \in 1 .. Len(t) |-> f[p[n]]]
             h == SingleScores(read, window)
  <2>1. f \in [DOMAIN s -> Nat]
    BY <1>5
  <2>2. g = [n \in DOMAIN t |-> t[n].score]
    <3>1. \A n \in DOMAIN t : f[p[n]] = t[n].score
      BY <1>3, <1>16
    <3> HIDE DEF f
    <3> QED BY <1>15, <3>1
  <2>3. ASSUME NEW i \in DOMAIN s, \A n \in 1 .. Len(t) : p[n] # i PROVE f[i] = 0
    <3>1. i \notin R
      BY <1>14, <2>3
    <3>2. CASE i \in P
      <4>1. s[i].score \in Nat /\ ~(s[i].score > 0)
        BY <1>5, <1>6, <3>1, <3>2
      <4> QED BY <3>2, <4>1
    <3> QED BY <3>2
  <2>4. h = [i \in P |-> f[i]]
    <3>1. DOMAIN h = P /\ h = [i \in P |-> h[i]]
      BY DEF SingleScores, P
    <3>2. \A i \in P : h[i] = f[i]
      BY <1>3, <1>4, <1>5
    <3> HIDE DEF h, f
    <3> QED BY <3>1, <3>2
  <2>5. \A i \in D \ P : f[i] = 0
    BY <1>3
  <2> HIDE DEF f
  <2>6. SumFunction(g) = SumFunction(f)
    BY ONLY <1>7, <1>14, <2>1, <2>3, SumOfTaken
  <2>7. f \in [D -> Int]
    BY <1>3, <2>1
  <2>8. SumFunction(f) = SumFunction([i \in P |-> f[i]])
    BY <1>1, <1>4, <2>5, <2>7, SumOfSome
  <2>9. FieldSum(t, "score") = SumFunction(g)
    BY <2>2 DEF FieldSum
  <2> QED BY <2>4, <2>6, <2>8, <2>9
<1> QED BY <1>11, <1>17, <1>18, <1>19 DEF R

\* What merging keeps of the activities.
LEMMA MergedActivities ==
  ASSUME NEW s, ActivitiesOK(s)
  PROVE  LET t == Merge(s)
         IN  /\ ActivitiesOK(t) /\ Distinct(t) /\ FieldSum(t, "score") = FieldSum(s, "score")
             /\ \A n \in DOMAIN t : \E i \in DOMAIN s : t[n].key = s[i].key
<1> DEFINE fields == Metrics \cup {"score"}
           t == Grouped(s, fields)
           F == Firsts(s)
           p == Places(Firsts(s))
<1>1. IsSeq(s) /\ \A i \in DOMAIN s : ActivityOK(s[i])
  BY DEF ActivitiesOK
<1>2. Merge(s) = t
  BY DEF Merge
<1>3. "key" \notin fields /\ \A i \in DOMAIN s : "key" \in DOMAIN s[i]
  BY <1>1 DEF Metrics, ActivityOK
<1>4. \A i \in DOMAIN s : s[i].score \in Nat /\ \A k \in Metrics : s[i][k] \in Number
  BY <1>1 DEF ActivityOK
<1> HIDE DEF fields
<1>5. IsSeq(t) /\ Distinct(t) /\ \A n \in DOMAIN t : \E i \in F : t[n].key = s[i].key
  BY <1>1, <1>3, GroupedKeys
<1>6. F \subseteq DOMAIN s
  BY <1>1, FirstOfGroup
<1>7. ASSUME NEW k \in Metrics, NEW n \in DOMAIN t PROVE t[n][k] \in Number
  <2>1. k \in fields /\ \A i \in DOMAIN s : s[i][k] \in Number
    BY <1>4 DEF fields
  <2>2. \A m \in DOMAIN Grouped(s, fields) : Grouped(s, fields)[m][k] \in Number
    BY <1>1, <2>1, GroupedField
  <2> QED BY <2>2
<1>8. (\A n \in DOMAIN t : t[n].score \in Nat) /\ FieldSum(t, "score") = FieldSum(s, "score")
  <2>1. "score" \in fields /\ \A i \in DOMAIN s : s[i]["score"] \in Nat
    BY <1>4 DEF fields
  <2>2. \A i \in DOMAIN s : s[i]["score"] \in Number
    BY <2>1 DEF Number
  <2>3. (\A i \in DOMAIN s : s[i]["score"] \in Nat) =>
          (\A n \in DOMAIN t : t[n]["score"] \in Nat) /\ FieldSum(t, "score") = FieldSum(s, "score")
    BY <1>1, <2>1, <2>2, GroupedField
  <2> QED BY <2>1, <2>3
<1>9. ASSUME NEW n \in DOMAIN t PROVE Metrics \cup {"key", "score"} \subseteq DOMAIN t[n]
  <2> DEFINE d == s[p[n]]
             e == [x \in fields |-> SumOfGroup(s, p[n], x)]
  <2>1. /\ Len(t) = Cardinality(F) /\ Order(p, F)
        /\ \A m \in 1 .. Len(t) : t[m] = Update(s[p[m]], [x \in fields |-> SumOfGroup(s, p[m], x)])
    BY <1>1, GroupedItems
  <2>2. n \in 1 .. Len(t)
    BY <1>5, SeqDomain
  <2>3. p[n] \in DOMAIN s
    BY <1>6, <2>1, <2>2 DEF Order
  <2>4. t[n] = Update(d, e) /\ DOMAIN e = fields /\ "key" \in DOMAIN d
    BY <1>3, <2>1, <2>2, <2>3
  <2> HIDE DEF d, e, t
  <2>5. DOMAIN Update(d, e) = DOMAIN d \cup DOMAIN e
    BY Updated
  <2> QED BY <2>4, <2>5 DEF fields
<1> HIDE DEF t, F
<1>10. ActivitiesOK(t)
  BY <1>5, <1>7, <1>8, <1>9 DEF ActivitiesOK, ActivityOK
<1>11. \A n \in DOMAIN t : \E i \in DOMAIN s : t[n].key = s[i].key
  BY <1>5, <1>6
<1> QED BY <1>2, <1>5, <1>8, <1>10, <1>11

\* Drawing activities keeps what they are.
LEMMA DrawnActivities ==
  ASSUME NEW s, ActivitiesOK(s), NEW t, TakenFrom(t, s)
  PROVE  ActivitiesOK(t) /\ (Distinct(s) => Distinct(t))
<1>1. IsSeq(t) /\ (\A n \in DOMAIN t : \E i \in DOMAIN s : t[n] = s[i]) /\ (Distinct(s) => Distinct(t))
  BY DrawnElements
<1> QED BY <1>1 DEF ActivitiesOK

\* A list with distinct keys of some finite set is no longer than this.
LEMMA DistinctKeys ==
  ASSUME NEW s, IsSeq(s), Distinct(s), NEW K, IsFiniteSet(K), \A i \in DOMAIN s : s[i].key \in K
  PROVE  Len(s) <= Cardinality(K)
<1> DEFINE f == [i \in 1 .. Len(s) |-> s[i].key]
<1>1. Len(s) \in Nat /\ DOMAIN s = 1 .. Len(s)
  BY SeqDomain
<1>2. f \in Injection(1 .. Len(s), K)
  BY <1>1 DEF Injection, Distinct, IsInjective
<1>3. Cardinality(1 .. Len(s)) <= Cardinality(K)
  BY <1>2, FS_Injection
<1> QED BY <1>1, <1>3, FirstNumbers

\* The most active of the activities of a sample.
LEMMA ActiveActivities ==
  ASSUME NEW read, IsSeq(read.records), \A i \in DOMAIN read.records : Numeric(read.records[i], RecordFields),
         NEW window \in Nat \ {0}
  PROVE  LET a == MostActive(Merge(Scored(read, window)))
             whole == SumFunction(SingleScores(read, window))
         IN  /\ ActivitiesOK(a) /\ Distinct(a) /\ Len(a) <= MaxActivities
             /\ FieldSum(a, "score") <= whole
             /\ Cardinality(ActiveKeys(read, window)) <= MaxActivities => FieldSum(a, "score") = whole
<1> DEFINE t == Scored(read, window)
           m == Merge(t)
           a == MostActive(m)
           K == ActiveKeys(read, window)
           R == ActiveOnes(read, window)
           key(i) == Key(read.records[i], RawOf(read, i), read.source)
<1>1. /\ ActivitiesOK(t) /\ FieldSum(t, "score") = SumFunction(SingleScores(read, window))
      /\ \A n \in DOMAIN t : \E i \in R : t[n].key = key(i)
  BY ScoredActivities
<1>2. K = {key(i) : i \in R}
  BY DEF ActiveKeys, ActiveOnes
<1>3. IsFiniteSet(K)
  <2>1. DOMAIN read.records = 1 .. Len(read.records) /\ Len(read.records) \in Nat
    BY SeqDomain
  <2>2. R \subseteq 1 .. Len(read.records)
    BY <2>1 DEF ActiveOnes, Singles
  <2>3. IsFiniteSet(R)
    BY <2>1, <2>2, FirstNumbers, FS_Subset
  <2> DEFINE f == [i \in R |-> key(i)]
  <2> HIDE DEF R, key
  <2>4. f \in Surjection(R, K)
    BY <1>2 DEF Surjection
  <2> QED BY <2>3, <2>4, FS_Surjection
<1> HIDE DEF t, K, R
<1>4. /\ ActivitiesOK(m) /\ Distinct(m) /\ FieldSum(m, "score") = FieldSum(t, "score")
      /\ \A n \in DOMAIN m : \E i \in DOMAIN t : m[n].key = t[i].key
  BY <1>1, MergedActivities
<1> HIDE DEF m
<1>5. \A n \in DOMAIN m : m[n].key \in K
  BY <1>1, <1>2, <1>4
<1>6. IsSeq(m) /\ \A i \in DOMAIN m : m[i].score \in Nat
  BY <1>4 DEF ActivitiesOK, ActivityOK
<1>7. Len(m) <= Cardinality(K)
  BY <1>3, <1>4, <1>5, <1>6, DistinctKeys
<1>8. /\ TakenFrom(a, m) /\ Len(a) <= MaxActivities /\ FieldSum(a, "score") <= FieldSum(m, "score")
      /\ Len(m) <= MaxActivities => FieldSum(a, "score") = FieldSum(m, "score")
  BY <1>6, MostActiveOf
<1> HIDE DEF a
<1>9. ActivitiesOK(a) /\ Distinct(a)
  BY <1>4, <1>8, DrawnActivities
<1>10. Cardinality(K) <= MaxActivities => Len(m) <= MaxActivities
  <2>1. Cardinality(K) \in Nat /\ Len(m) \in Nat /\ MaxActivities \in Nat
    BY <1>3, <1>6, SeqDomain, FS_CardinalityType, ActivityAssumption
  <2> QED BY <1>7, <2>1
<1> QED BY <1>1, <1>4, <1>8, <1>9, <1>10 DEF a, m, t, K

\* Naming the activities keeps what they are and what they score.
LEMMA TitledActivities ==
  ASSUME NEW a, ActivitiesOK(a), NEW cache, CacheOK(cache), NEW spotlight, NEW limit
  PROVE  LET t == WithTitles(a, cache, spotlight, limit)
         IN  /\ CacheOK(t.cache) /\ ActivitiesOK(t.activities) /\ Len(t.activities) = Len(a)
             /\ Distinct(a) => Distinct(t.activities)
             /\ FieldSum(t.activities, "score") = FieldSum(a, "score")
<1> DEFINE t == WithTitles(a, cache, spotlight, limit)
           b == t.activities
           keys == Metrics \cup {"key", "score"}
<1>1. IsSeq(a) /\ \A i \in DOMAIN a : ActivityOK(a[i])
  BY DEF ActivitiesOK
<1>2. keys \cap {"display_name", "category"} = {} /\ \A i \in DOMAIN a : keys \subseteq DOMAIN a[i]
  BY <1>1 DEF ActivityOK, Metrics
<1>3. Metrics \subseteq keys /\ "key" \in keys /\ "score" \in keys
  OBVIOUS
<1> HIDE DEF keys
<1>4. /\ CacheOK(t.cache) /\ IsSeq(b) /\ Len(b) = Len(a) /\ DOMAIN b = DOMAIN a
      /\ \A i \in DOMAIN a, k \in keys : b[i][k] = a[i][k]
      /\ \A i \in DOMAIN a : keys \subseteq DOMAIN b[i]
  <2>1. /\ CacheOK(t.cache) /\ IsSeq(b) /\ Len(b) = Len(a) /\ DOMAIN b = DOMAIN a
        /\ KeepsFields(b, a, keys)
    BY <1>1, <1>2, TitlesKeep
  <2> QED BY <2>1 DEF KeepsFields
<1> HIDE DEF t
<1>5. \A i \in DOMAIN a : b[i].key = a[i].key /\ b[i].score = a[i].score /\ \A k \in Metrics : b[i][k] = a[i][k]
  BY <1>3, <1>4
<1>6. ActivitiesOK(b)
  BY <1>1, <1>4, <1>5 DEF ActivitiesOK, ActivityOK, keys
<1>7. Distinct(a) => Distinct(b)
  BY <1>4, <1>5 DEF Distinct
<1>8. [i \in DOMAIN b |-> b[i]["score"]] = [i \in DOMAIN a |-> a[i]["score"]]
  BY <1>4, <1>5
<1>9. FieldSum(b, "score") = FieldSum(a, "score")
  BY <1>8 DEF FieldSum
<1> QED BY <1>4, <1>6, <1>7, <1>9 DEF t

\* What a sample of the worker is: its activities are typed, have distinct
\* keys and are no more than the bound.
SampleOK(s) ==
  s.status # "uncaught" =>
    /\ CacheOK(s.cache) /\ ActivitiesOK(s.activities) /\ Distinct(s.activities)
    /\ Len(s.activities) <= MaxActivities /\ s.window \in Nat

LEMMA ParsedAnswer ==
  ASSUME NEW answer, AnswerOK(answer), answer.kind = "ok", NEW cache, CacheOK(cache), NEW spotlight,
         ParseAnswer(answer.payload, cache, spotlight) # None
  PROVE  LET s == ParseAnswer(answer.payload, cache, spotlight)
         IN  SampleOK(s) /\ s.status = "ok" /\ ScoresFrom(answer, s)
<1> DEFINE plists == DecodePlists(answer.payload)
           plist  == plists[Len(plists)]
           read   == Records(plist)
           window == IF Positive(GetNum(plist, "elapsed")) > 0 THEN plist.elapsed ELSE SampleWindow
           active == MostActive(Merge(Scored(read, window)))
           titled == WithTitles(active, cache, spotlight, Resolved)
           whole  == SumFunction(SingleScores(read, window))
           s      == ParseAnswer(answer.payload, cache, spotlight)
<1>1. /\ plists # <<>> /\ read # None
      /\ s = [window |-> window, source |-> read.source, status |-> "ok", error |-> None,
              activities |-> titled.activities, cache |-> titled.cache]
  BY DEF ParseAnswer, Scored, Activities
<1>2. IsDict(plist) /\ PlistOK(plist)
  BY <1>1, LastPlist
<1> HIDE DEF plist
<1>3. IsSeq(read.records) /\ \A i \in DOMAIN read.records : Numeric(read.records[i], RecordFields)
  BY <1>1, <1>2, ReadRecords
<1>4. window \in Nat \ {0}
  <2>1. SampleWindow \in Nat \ {0}
    BY ActivityAssumption
  <2>2. GetNum(plist, "elapsed") \in Number
    BY <1>2 DEF PlistOK, Numeric, Number
  <2>3. CASE Positive(GetNum(plist, "elapsed")) > 0
    <3>1. GetNum(plist, "elapsed") # None
      BY <2>3, 0 > 0 <=> FALSE DEF Positive
    <3>2. plist.elapsed = GetNum(plist, "elapsed")
      BY <3>1 DEF GetNum, Get, Float
    <3>3. GetNum(plist, "elapsed") \in Int /\ Positive(GetNum(plist, "elapsed")) = Positive(plist.elapsed)
      BY <2>2, <3>1, <3>2 DEF Number
    <3>4. plist.elapsed \in Nat \ {0}
      BY <2>3, <3>2, <3>3 DEF Positive
    <3> QED BY <2>3, <3>4
  <2> QED BY <2>1, <2>3
<1> HIDE DEF plists, read, window
<1>5. /\ ActivitiesOK(active) /\ Distinct(active) /\ Len(active) <= MaxActivities
      /\ FieldSum(active, "score") <= whole
      /\ Cardinality(ActiveKeys(read, window)) <= MaxActivities => FieldSum(active, "score") = whole
  BY <1>3, <1>4, ActiveActivities
<1> HIDE DEF active, whole
<1>6. /\ CacheOK(titled.cache) /\ ActivitiesOK(titled.activities) /\ Len(titled.activities) = Len(active)
      /\ Distinct(active) => Distinct(titled.activities)
      /\ FieldSum(titled.activities, "score") = FieldSum(active, "score")
  BY <1>5, TitledActivities
<1> HIDE DEF titled, s
<1>7. /\ s.window = window /\ s.status = "ok" /\ s.activities = titled.activities
      /\ s.cache = titled.cache
  BY <1>1
<1>8. SampleOK(s)
  BY <1>4, <1>5, <1>6, <1>7 DEF SampleOK
<1>9. PublishedScore(s) = FieldSum(active, "score")
  BY <1>6, <1>7 DEF PublishedScore, FieldSum
<1>10. ScoresFrom(answer, s)
  BY <1>1, <1>5, <1>7, <1>9 DEF ScoresFrom, plists, plist, read, whole
<1> QED BY <1>7, <1>8, <1>10 DEF s

\* The processes that ps shows, by application.
LEMMA GroupedLines ==
  ASSUME NEW lines, LinesOK(lines), lines # "failed", lines # "uncaught"
  PROVE  LET t == GroupLines(lines)
         IN  /\ IsSeq(t) /\ Distinct(t)
             /\ \A n \in DOMAIN t : t[n].cpu \in Nat /\ t[n].rss \in Nat
<1> DEFINE P == {i \in DOMAIN lines : IsDict(lines[i])}
           whole == At(lines, P)
           key(l) == IF l.app # None THEN <<"app", l.app>> ELSE <<"process", l.base>>
           item(l) == [key |-> key(l), raw_name |-> FirstKnown(<<l.app, l.base>>), arguments |-> l.arguments,
                       cpu |-> Positive(l.cpu), rss |-> Positive(l.rss)]
           items == [i \in DOMAIN whole |-> item(whole[i])]
           t == Grouped(items, {"cpu", "rss"})
<1>1. IsSeq(lines) /\ \A i \in P : {lines[i].cpu, lines[i].rss} \subseteq Number
  BY DEF LinesOK, Listed, IsSeq, Number
<1>2. P \in SUBSET DOMAIN lines
  OBVIOUS
<1> HIDE DEF P
<1>3. IsSeq(whole) /\ TakenAt(Places(P), whole, lines) /\ Order(Places(P), P) /\ Len(whole) = Cardinality(P)
  BY <1>1, <1>2, AtIsTaken
<1>4. DOMAIN whole = 1 .. Len(whole) /\ Len(whole) \in Nat
  BY <1>3, SeqDomain
<1>5. \A n \in DOMAIN whole : {whole[n].cpu, whole[n].rss} \subseteq Number
  BY <1>1, <1>3, <1>4 DEF TakenAt, Order
<1>6. GroupLines(lines) = t
  BY DEF GroupLines, Filter, P
<1> HIDE DEF whole, key
<1>7. \A i \in DOMAIN items : /\ items[i].cpu = Positive(whole[i].cpu) /\ items[i].rss = Positive(whole[i].rss)
                              /\ "key" \in DOMAIN items[i]
  OBVIOUS
<1>8. items = [i \in 1 .. Len(whole) |-> items[i]] /\ DOMAIN items = DOMAIN whole
  BY <1>4
<1> HIDE DEF items
<1>9. IsSeq(items)
  BY <1>4, <1>8, FunctionSeq
<1>10. \A i \in DOMAIN items : items[i].cpu \in Nat /\ items[i].rss \in Nat
  BY <1>5, <1>7, <1>8, PositiveType
<1> DEFINE fields == {"cpu", "rss"}
<1>11. "key" \notin fields /\ "cpu" \in fields /\ "rss" \in fields
  OBVIOUS
<1> HIDE DEF fields
<1> DEFINE u == Grouped(items, fields)
<1>12. IsSeq(u) /\ Distinct(u)
  BY <1>7, <1>9, <1>11, GroupedKeys
<1>13. ASSUME NEW k \in {"cpu", "rss"} PROVE \A n \in DOMAIN u : u[n][k] \in Nat
  <2>1. k \in fields /\ \A i \in DOMAIN items : items[i][k] \in Nat
    BY <1>10, <1>11
  <2>2. \A i \in DOMAIN items : items[i][k] \in Number
    BY <2>1 DEF Number
  <2>3. (\A i \in DOMAIN items : items[i][k] \in Nat) =>
          (\A n \in DOMAIN Grouped(items, fields) : Grouped(items, fields)[n][k] \in Nat)
          /\ FieldSum(Grouped(items, fields), k) = FieldSum(items, k)
    BY <1>9, <2>1, <2>2, GroupedField
  <2> QED BY <2>1, <2>3
<1> QED BY <1>6, <1>12, <1>13 DEF fields

\* A sample of ps.
LEMMA PsSampleOK ==
  ASSUME NEW lines, LinesOK(lines), lines # "failed", lines # "uncaught", NEW error,
         NEW cache, CacheOK(cache), NEW spotlight
  PROVE  SampleOK(PsSample(lines, error, cache, spotlight))
<1> DEFINE activity(item) ==
             Update([k \in Metrics |-> IF k = "cpu_ms_per_s" THEN item.cpu * 10 ELSE None],
               [key |-> item.key, raw_name |-> item.raw_name, display_name |-> item.raw_name,
                category |-> "background_service", source |-> "ps-fallback", score |-> PsScore(item),
                arguments |-> item.arguments])
           g == GroupLines(lines)
           a == [i \in DOMAIN g |-> activity(g[i])]
           titled == WithTitles(a, cache, spotlight, Len(g))
           b == titled.activities
           P == {i \in DOMAIN b : b[i].score > 0}
           f == At(b, P)
           m == MostActive(f)
           s == PsSample(lines, error, cache, spotlight)
<1>1. IsSeq(g) /\ Distinct(g) /\ \A n \in DOMAIN g : g[n].cpu \in Nat /\ g[n].rss \in Nat
  BY GroupedLines
<1>2. s = [window |-> 10, source |-> "ps-fallback", status |-> "degraded", error |-> error,
           activities |-> m, cache |-> titled.cache]
  BY DEF PsSample, Filter
<1> HIDE DEF g, s
<1>3. DOMAIN g = 1 .. Len(g) /\ Len(g) \in Nat
  BY <1>1, SeqDomain
<1>4. ASSUME NEW i \in DOMAIN g PROVE ActivityOK(activity(g[i])) /\ activity(g[i]).key = g[i].key
  <2> DEFINE d == [k \in Metrics |-> IF k = "cpu_ms_per_s" THEN g[i].cpu * 10 ELSE None]
             score == PsScore(g[i])
             e == [key |-> g[i].key, raw_name |-> g[i].raw_name, display_name |-> g[i].raw_name,
                   category |-> "background_service", source |-> "ps-fallback", score |-> score,
                   arguments |-> g[i].arguments]
  <2>1. score \in Nat
    <3>1. g[i].cpu \in Nat /\ g[i].rss \in Nat
      BY <1>1
    <3>2. Clamp((g[i].rss * 100) \div 256, 0, 2000) \in Nat
      BY <3>1 DEF Clamp
    <3> QED BY <3>1, <3>2 DEF PsScore
  <2>2. DOMAIN d = Metrics /\ \A k \in Metrics : d[k] \in Number
    BY <1>1 DEF Number
  <2> HIDE DEF score
  <2>3. /\ DOMAIN e = {"key", "raw_name", "display_name", "category", "source", "score", "arguments"}
        /\ e.key = g[i].key /\ e.score = score
    OBVIOUS
  <2>4. activity(g[i]) = Update(d, e)
    BY DEF score
  <2> HIDE DEF d, e, activity
  <2>5. /\ \A k \in DOMAIN e : Update(d, e)[k] = e[k]
        /\ \A k \in DOMAIN d \ DOMAIN e : Update(d, e)[k] = d[k]
        /\ DOMAIN Update(d, e) = DOMAIN d \cup DOMAIN e
    BY Updated
  <2>6. Metrics \cap DOMAIN e = {}
    BY <2>3 DEF Metrics
  <2>7. Update(d, e).key = g[i].key /\ Update(d, e).score = score /\ DOMAIN Update(d, e) = Metrics \cup DOMAIN e
    BY <2>2, <2>3, <2>5
  <2>8. \A k \in Metrics : Update(d, e)[k] = d[k]
    BY <2>2, <2>5, <2>6
  <2>9. ActivityOK(Update(d, e))
    BY <2>1, <2>2, <2>3, <2>7, <2>8 DEF ActivityOK
  <2> QED BY <2>4, <2>7, <2>9
<1> HIDE DEF activity
<1>5. IsSeq(a) /\ DOMAIN a = DOMAIN g
  <2>1. a = [i \in 1 .. Len(g) |-> a[i]] /\ DOMAIN a = DOMAIN g
    BY <1>3
  <2> HIDE DEF a
  <2> QED BY <1>3, <2>1, FunctionSeq
<1>6. ActivitiesOK(a) /\ Distinct(a)
  BY <1>1, <1>4, <1>5 DEF ActivitiesOK, Distinct
<1> HIDE DEF a
<1>7. /\ CacheOK(titled.cache) /\ ActivitiesOK(titled.activities) /\ Len(titled.activities) = Len(a)
      /\ Distinct(a) => Distinct(titled.activities)
      /\ FieldSum(titled.activities, "score") = FieldSum(a, "score")
  BY <1>6, TitledActivities
<1> HIDE DEF titled
<1>8. IsSeq(b) /\ P \in SUBSET DOMAIN b
  BY <1>7 DEF ActivitiesOK
<1> HIDE DEF P
<1>9. TakenFrom(f, b)
  BY <1>8, AtIsTaken
<1> HIDE DEF f
<1>10. ActivitiesOK(f) /\ Distinct(f)
  BY <1>6, <1>7, <1>9, DrawnActivities
<1>11. IsSeq(f) /\ \A i \in DOMAIN f : f[i].score \in Nat
  BY <1>10 DEF ActivitiesOK, ActivityOK
<1>12. TakenFrom(m, f) /\ Len(m) <= MaxActivities
  BY <1>11, MostActiveOf
<1> HIDE DEF m
<1>13. ActivitiesOK(m) /\ Distinct(m)
  BY <1>10, <1>12, DrawnActivities
<1>14. s.activities = m /\ s.cache = titled.cache /\ s.window = 10
  BY <1>2
<1>15. SampleOK(s)
  BY <1>7, <1>12, <1>13, <1>14 DEF SampleOK
<1> QED BY <1>15 DEF s

\* A sample of the worker, from powermetrics or else from ps.
OutcomeOK(outcome) ==
  /\ Listed(outcome.powermetrics) /\ \A j \in DOMAIN outcome.powermetrics : AnswerOK(outcome.powermetrics[j])
  /\ LinesOK(outcome.ps)

ScoredBy(outcome, s) ==
  s.status = "ok" => \E j \in DOMAIN outcome.powermetrics : ScoresFrom(outcome.powermetrics[j], s)

LEMMA PrimarySample ==
  ASSUME NEW outcome, OutcomeOK(outcome), NEW cache, CacheOK(cache), NEW spotlight
  PROVE  LET s == PowermetricsSample(outcome.powermetrics, cache, spotlight)
         IN  s.status # "failed" => SampleOK(s) /\ ScoredBy(outcome, s)
<1> DEFINE answers == outcome.powermetrics
           end(a)  == CASE a.kind = "uncaught" -> [status |-> "uncaught"]
                        [] a.kind = "ok"       -> ParseAnswer(a.payload, cache, spotlight)
                        [] OTHER               -> None
           asks    == \E j \in DOMAIN answers : answers[j].kind = "password"
           failure == [status |-> "failed", error |-> IF asks THEN "sudo authorization required" ELSE "failed"]
           ends    == [j \in DOMAIN answers |-> end(answers[j])]
           s       == PowermetricsSample(answers, cache, spotlight)
<1>1. IsSeq(answers) /\ \A j \in DOMAIN answers : AnswerOK(answers[j])
  BY DEF OutcomeOK, Listed, IsSeq
<1>2. s = IF FirstKnown(ends) = None THEN failure ELSE FirstKnown(ends)
  BY DEF PowermetricsSample
<1>3. failure.status = "failed"
  OBVIOUS
<1>4. ASSUME NEW j \in DOMAIN answers, end(answers[j]) # None
      PROVE  SampleOK(end(answers[j])) /\ ScoredBy(outcome, end(answers[j]))
  <2> DEFINE a == answers[j]
  <2>1. CASE a.kind = "uncaught"
    <3>1. end(a) = [status |-> "uncaught"]
      BY <2>1
    <3> HIDE DEF end, a
    <3>2. end(a).status = "uncaught"
      BY <3>1
    <3> QED BY <3>2 DEF SampleOK, ScoredBy, a
  <2>2. CASE a.kind = "ok"
    <3>1. end(a) = ParseAnswer(a.payload, cache, spotlight)
      BY <2>2
    <3>2. AnswerOK(a)
      BY <1>1
    <3>3. end(a) # None
      BY <1>4
    <3> HIDE DEF end, a
    <3>4. SampleOK(end(a)) /\ ScoresFrom(a, end(a))
      BY <2>2, <3>1, <3>2, <3>3, ParsedAnswer
    <3> QED BY <3>4 DEF ScoredBy, a
  <2>3. CASE a.kind # "uncaught" /\ a.kind # "ok"
    <3>1. end(a) = None
      BY <2>3
    <3> QED BY <1>4, <3>1
  <2> QED BY <2>1, <2>2, <2>3
<1> HIDE DEF end, failure
<1>5. IsSeq(ends) /\ DOMAIN ends = DOMAIN answers
  <2>1. DOMAIN answers = 1 .. Len(answers) /\ Len(answers) \in Nat
    BY <1>1, SeqDomain
  <2>2. ends = [j \in 1 .. Len(answers) |-> ends[j]] /\ DOMAIN ends = DOMAIN answers
    BY <2>1
  <2> HIDE DEF ends
  <2> QED BY <2>1, <2>2, FunctionSeq
<1>6. \A j \in DOMAIN answers : ends[j] = end(answers[j])
  OBVIOUS
<1> HIDE DEF ends, s
<1>7. CASE FirstKnown(ends) = None
  BY <1>2, <1>3, <1>7 DEF s
<1>8. CASE FirstKnown(ends) # None
  <2>1. PICK j \in DOMAIN ends : ends[j] # None /\ FirstKnown(ends) = ends[j]
    BY <1>5, <1>8, FirstKnownIsThere
  <2>2. s = end(answers[j]) /\ end(answers[j]) # None
    BY <1>2, <1>5, <1>6, <1>8, <2>1
  <2> QED BY <1>4, <1>5, <2>1, <2>2 DEF s
<1> QED BY <1>7, <1>8

LEMMA Sampled ==
  ASSUME NEW outcome, OutcomeOK(outcome), NEW cache, CacheOK(cache)
  PROVE  LET s == Sample(outcome, cache) IN SampleOK(s) /\ ScoredBy(outcome, s)
<1> DEFINE p == PowermetricsSample(outcome.powermetrics, cache, outcome.spotlight)
           none == [window |-> 0, source |-> "none", status |-> "unavailable", error |-> p.error,
                    activities |-> << >>, cache |-> cache]
           s == FallBack(p, outcome, cache)
<1>1. p.status # "failed" => SampleOK(p) /\ ScoredBy(outcome, p)
  BY PrimarySample
<1>2. Sample(outcome, cache) = s
  BY DEF Sample
<1> HIDE DEF p
<1>3. CASE p.status # "failed"
  BY <1>1, <1>2, <1>3 DEF FallBack
<1>4. CASE p.status = "failed" /\ outcome.ps = "uncaught"
  <2>1. s = [status |-> "uncaught"]
    BY <1>4 DEF FallBack
  <2> HIDE DEF s
  <2>2. s.status = "uncaught"
    BY <2>1
  <2> QED BY <1>2, <2>2 DEF SampleOK, ScoredBy
<1>5. CASE p.status = "failed" /\ outcome.ps = "failed"
  <2>1. s = none
    BY <1>5 DEF FallBack
  <2> HIDE DEF s
  <2>2. s.status = "unavailable" /\ s.activities = <<>> /\ s.cache = cache /\ s.window = 0
    BY <2>1
  <2>3. IsSeq(<<>>) /\ Len(<<>>) = 0 /\ DOMAIN <<>> = {}
    <3>1. IsSeq(<<>>) /\ Len(<<>>) = 0
      BY ShortSeq
    <3>2. DOMAIN <<>> = 1 .. 0
      BY <3>1, SeqDomain
    <3> QED BY <3>1, <3>2
  <2>4. ActivitiesOK(<<>>) /\ Distinct(<<>>) /\ Len(<<>>) <= MaxActivities
    BY <2>3, ActivityAssumption DEF ActivitiesOK, Distinct
  <2> QED BY <1>2, <2>2, <2>4 DEF SampleOK, ScoredBy
<1>6. CASE p.status = "failed" /\ outcome.ps # "uncaught" /\ outcome.ps # "failed"
  <2>1. s = PsSample(outcome.ps, p.error, cache, outcome.spotlight)
    BY <1>6 DEF FallBack
  <2>2. LinesOK(outcome.ps)
    BY DEF OutcomeOK
  <2>3. SampleOK(s)
    BY <1>6, <2>1, <2>2, PsSampleOK
  <2>4. s.status = "degraded"
    BY <2>1 DEF PsSample
  <2> QED BY <1>2, <2>3, <2>4 DEF ScoredBy
<1> QED BY <1>3, <1>4, <1>5, <1>6

-----------------------------------------------------------------------------
(* The published sample. *)

SnapshotOK(s) ==
  /\ ActivitiesOK(s.activities) /\ Distinct(s.activities) /\ Len(s.activities) <= MaxActivities
  /\ s.window \in Nat

WorkInv ==
  /\ CacheOK(worker.cache) /\ SnapshotOK(worker.snapshot)
  /\ worker.snapshot.status = "ok" =>
       worker.outcome \in DOMAIN Outcomes /\ ScoredBy(Outcomes[worker.outcome], worker.snapshot)

LEMMA WorkInvariant == Spec => []WorkInv
<1>1. Init => WorkInv
  <2> SUFFICES ASSUME Init PROVE WorkInv
    OBVIOUS
  <2>1. worker.cache = <<>> /\ worker.snapshot = Starting
    BY DEF Init
  <2>2. /\ Starting.activities = <<>> /\ Starting.window = 0 /\ Starting.status = "starting"
    BY DEF Starting
  <2>3. MaxActivities \in Nat /\ MaxNames \in Nat
    BY ActivityAssumption
  <2> QED BY <2>1, <2>2, <2>3, EmptySeqIs DEF WorkInv, CacheOK, SnapshotOK, ActivitiesOK, Distinct
<1>2. IInv /\ WorkInv /\ [Next]_vars => WorkInv'
  <2> SUFFICES ASSUME IInv, WorkInv, [Next]_vars PROVE WorkInv'
    OBVIOUS
  <2>1. WorkerGood(worker)
    BY DEF IInv
  <2>2. CASE worker'.cache = worker.cache /\ worker'.outcome = worker.outcome /\ worker'.snapshot = worker.snapshot
    BY <2>2 DEF WorkInv
  <2>3. CASE BeginSample \/ EndThread \/ Quit \/ Close
    <3>1. \/ worker' = [worker EXCEPT !.id = @ + 1, !.started = now]
          \/ worker' = [worker EXCEPT !.alive = FALSE]
          \/ worker' = [worker EXCEPT !.stopping = TRUE]
      BY <2>3 DEF BeginSample, EndThread, Quit, Close
    <3>2. worker'.cache = worker.cache /\ worker'.outcome = worker.outcome /\ worker'.snapshot = worker.snapshot
      BY <2>1, <3>1 DEF WorkerGood
    <3> QED BY <2>2, <3>2
  <2>4. CASE Row \/ UNCHANGED vars
    <3>1. worker' = worker
      BY <2>4 DEF Row, vars
    <3> QED BY <2>2, <3>1
  <2>5. CASE EndSample
    <3>1. PICK o \in DOMAIN Outcomes : \E sample \in {Sample(Outcomes[o], worker.cache)} :
            worker' = IF sample.status = "uncaught"
                      THEN [worker EXCEPT !.alive = FALSE, !.started = None]
                      ELSE Published(sample, o)
      BY <2>5 DEF EndSample
    <3> DEFINE sample == Sample(Outcomes[o], worker.cache)
    <3>2. worker' = IF sample.status = "uncaught"
                    THEN [worker EXCEPT !.alive = FALSE, !.started = None]
                    ELSE Published(sample, o)
      BY <3>1
    <3>3. OutcomeOK(Outcomes[o]) /\ CacheOK(worker.cache)
      BY OutcomesAssumption DEF OutcomeOK, WorkInv
    <3>4. SampleOK(sample) /\ ScoredBy(Outcomes[o], sample)
      BY <3>3, Sampled
    <3> HIDE DEF sample
    <3>5. CASE sample.status = "uncaught"
      <4>1. worker' = [worker EXCEPT !.alive = FALSE, !.started = None]
        BY <3>2, <3>5
      <4>2. worker'.cache = worker.cache /\ worker'.outcome = worker.outcome /\ worker'.snapshot = worker.snapshot
        BY <2>1, <4>1 DEF WorkerGood
      <4> QED BY <2>2, <4>2
    <3>6. CASE sample.status # "uncaught"
      <4>1. worker' = Published(sample, o)
        BY <3>2, <3>6
      <4>2. /\ worker'.cache = sample.cache /\ worker'.outcome = o
            /\ worker'.snapshot.activities = sample.activities /\ worker'.snapshot.window = sample.window
            /\ worker'.snapshot.status = sample.status
        BY <2>1, <4>1 DEF WorkerGood, Published
      <4> DEFINE s == worker'.snapshot
      <4> HIDE DEF s
      <4>3. s.activities = sample.activities /\ s.window = sample.window /\ s.status = sample.status
        BY <4>2 DEF s
      <4>4. SnapshotOK(s)
        BY <3>4, <3>6, <4>3 DEF SampleOK, SnapshotOK
      <4>5. ScoredBy(Outcomes[o], s)
        BY <3>4, <4>3 DEF ScoredBy, ScoresFrom, PublishedScore
      <4>6. CacheOK(worker'.cache)
        BY <3>4, <3>6, <4>2 DEF SampleOK
      <4> QED BY <4>2, <4>4, <4>5, <4>6 DEF WorkInv, s
    <3> QED BY <3>5, <3>6
  <2> QED BY <2>3, <2>4, <2>5 DEF Next
<1> QED BY <1>1, <1>2, LogInvariant, PTL DEF Spec

\* The published activities have distinct keys, and their scores are those
\* of the named records of one answer that are no aggregate, each counted
\* once, less what the bound on the activities cuts; whatever the records,
\* the plists among the chunks, the commands that fail and the names that
\* are cached (PowermetricsAppSampler.sample, parse_powermetrics_app_plist).
THEOREM ScoresConserved == Spec => []ScoresAreConserved
<1>1. WorkInv => ScoresAreConserved
  <2> SUFFICES ASSUME WorkInv PROVE ScoresAreConserved
    OBVIOUS
  <2> DEFINE s == worker.snapshot
  <2>1. \A i, j \in DOMAIN s.activities : s.activities[i].key = s.activities[j].key => i = j
    BY DEF WorkInv, SnapshotOK, Distinct
  <2>2. s.status = "ok" => \E j \in DOMAIN Outcomes[worker.outcome].powermetrics :
                             ScoresFrom(Outcomes[worker.outcome].powermetrics[j], s)
    BY DEF WorkInv, ScoredBy
  <2> QED BY <2>1, <2>2 DEF ScoresAreConserved
<1> QED BY <1>1, WorkInvariant, PTL

-----------------------------------------------------------------------------
(* The quiet rows. *)

\* Every history has as many numbers as it may.
HistoryOK(h) ==
  \A k \in DOMAIN h : IsSeq(h[k]) /\ Len(h[k]) \in 1 .. QuietSize /\ \A i \in DOMAIN h[k] : h[k][i] \in Nat

\* What one history has learned another has.
Keeps(h, old) == \A k \in DOMAIN old : k \in DOMAIN h /\ Len(old[k]) <= Len(h[k])

LEMMA LearnKeeps ==
  ASSUME NEW h, HistoryOK(h), NEW key, NEW total \in Nat
  PROVE  HistoryOK(Learn(h, key, total)) /\ Keeps(Learn(h, key, total), h)
<1> DEFINE old == IF key \in DOMAIN h THEN h[key] ELSE << >>
           new == Append(old, total)
           kept == IF Len(new) > QuietSize THEN Tail(new) ELSE new
           e == [k \in {key} |-> kept]
           l == Learn(h, key, total)
<1>1. /\ IsSeq(old) /\ Len(old) \in 0 .. QuietSize /\ \A i \in DOMAIN old : old[i] \in Nat
      /\ key \in DOMAIN h => old = h[key]
  <2>1. CASE key \in DOMAIN h
    <3>1. IsSeq(h[key]) /\ Len(h[key]) \in 1 .. QuietSize /\ \A i \in DOMAIN h[key] : h[key][i] \in Nat
      BY <2>1 DEF HistoryOK
    <3>2. old = h[key]
      BY <2>1
    <3> QED BY <3>1, <3>2
  <2>2. CASE key \notin DOMAIN h
    <3>1. old = <<>>
      BY <2>2
    <3> QED BY <2>2, <3>1, EmptySeqIs, ActivityAssumption
  <2> QED BY <2>1, <2>2
<1>2. l = Update(h, e)
  BY DEF Learn
<1> HIDE DEF old, l
<1>3. /\ IsSeq(new) /\ Len(new) = Len(old) + 1 /\ \A i \in 1 .. Len(old) : new[i] = old[i]
      /\ new[Len(old) + 1] = total
  BY <1>1, AppendSeq
<1> DEFINE n == Len(old)
<1>4. n \in Nat /\ DOMAIN old = 1 .. n /\ DOMAIN new = 1 .. n + 1 /\ QuietSize \in Nat \ {0} /\ n <= QuietSize
  BY <1>1, <1>3, SeqDomain, ActivityAssumption
<1> HIDE DEF n, new
<1>5. \A i \in 1 .. n + 1 : new[i] \in Nat
  <2>1. \A i \in 1 .. n : old[i] \in Nat /\ new[i] = old[i]
    BY <1>1, <1>3, <1>4 DEF n
  <2>2. new[n + 1] = total
    BY <1>3 DEF n
  <2> QED BY <1>4, <2>1, <2>2
<1>6. /\ IsSeq(kept) /\ Len(kept) \in 1 .. QuietSize /\ (\A i \in DOMAIN kept : kept[i] \in Nat)
      /\ n <= Len(kept)
  <2>0. Len(new) = n + 1
    BY <1>3 DEF n
  <2>1. CASE Len(new) > QuietSize
    <3>1. n = QuietSize
      BY <1>4, <2>0, <2>1
    <3>2. new \in Seq(Nat)
      <4>1. new \in Seq(Range(new)) /\ Range(new) \subseteq Nat
        BY <1>3, <1>4, <1>5 DEF IsSeq, Range
      <4> QED BY <4>1
    <3>3. new # <<>>
      BY <1>4, <2>0, EmptySeqIs
    <3>4. Tail(new) \in Seq(Nat) /\ Len(Tail(new)) = Len(new) - 1
      BY <3>2, <3>3, HeadTailProperties
    <3> DEFINE t == Tail(new)
    <3>5. t \in Seq(Nat) /\ Len(t) = n /\ kept = t
      BY <1>4, <2>0, <2>1, <3>4
    <3> HIDE DEF t, kept
    <3>6. IsSeq(t) /\ DOMAIN t = 1 .. n
      BY <3>5, AnySeq, SeqDomain
    <3>7. \A i \in DOMAIN t : t[i] \in Nat
      BY <3>5, ElementOfSeq, <3>6
    <3> QED BY <1>4, <3>1, <3>5, <3>6, <3>7
  <2>2. CASE ~(Len(new) > QuietSize)
    <3>1. kept = new /\ Len(new) = n + 1
      BY <1>3, <2>2 DEF n
    <3> HIDE DEF kept
    <3> QED BY <1>3, <1>4, <1>5, <2>2, <3>1
  <2> QED BY <2>1, <2>2
<1> HIDE DEF kept
<1>7. DOMAIN e = {key} /\ e[key] = kept
  OBVIOUS
<1> HIDE DEF e
<1>8. /\ \A k \in DOMAIN e : Update(h, e)[k] = e[k]
      /\ \A k \in DOMAIN h \ DOMAIN e : Update(h, e)[k] = h[k]
      /\ DOMAIN Update(h, e) = DOMAIN h \cup DOMAIN e
  BY Updated
<1>9. l[key] = kept /\ DOMAIN l = DOMAIN h \cup {key} /\ \A k \in DOMAIN h \ {key} : l[k] = h[k]
  BY <1>2, <1>7, <1>8
<1>10. HistoryOK(l)
  BY <1>6, <1>9 DEF HistoryOK
<1>11. \A k \in DOMAIN h : Len(h[k]) \in Nat
  BY DEF HistoryOK
<1>12. Keeps(l, h)
  <2> SUFFICES ASSUME NEW k \in DOMAIN h PROVE k \in DOMAIN l /\ Len(h[k]) <= Len(l[k])
    BY DEF Keeps
  <2>1. CASE k = key
    BY <1>1, <1>6, <1>9, <2>1 DEF n
  <2>2. CASE k # key
    <3>1. l[k] = h[k] /\ k \in DOMAIN l /\ Len(h[k]) \in Nat
      BY <1>9, <1>11, <2>2
    <3> QED BY <3>1
  <2> QED BY <2>1, <2>2
<1> QED BY <1>10, <1>12 DEF l

\* What is learned stays learned.
LEMMA KeepsAll ==
  ASSUME NEW h, HistoryOK(h)
  PROVE  Keeps(h, h)
BY DEF Keeps, HistoryOK

-----------------------------------------------------------------------------
(* The total and the baseline of a row. *)

RowOK(row) == Columns \subseteq DOMAIN row /\ Numeric(row, Columns)

LEMMA ColumnType ==
  ASSUME NEW row, RowOK(row), NEW c \in Columns
  PROVE  Float(row[c]) \in Number /\ (Float(row[c]) # None => row[c] \in Int /\ Float(row[c]) = row[c])
<1>1. GetNum(row, c) \in Int \cup {None} /\ GetNum(row, c) = Float(row[c])
  BY DEF RowOK, Numeric, GetNum, Get
<1>2. Float(row[c]) # None => row[c] = Float(row[c])
  BY DEF Float
<1> QED BY <1>1, <1>2 DEF Number

LEMMA TotalType ==
  ASSUME NEW row, RowOK(row)
  PROVE  TotalPower(row)[1] \in Nat \cup {None}
<1> DEFINE watts(i) == row[TotalColumns[i]]
           known == {i \in 1..5 : Float(watts(i)) # None /\ watts(i) >= 0}
<1>1. CASE known = {}
  <2>1. TotalPower(row) = <<None, NoTotal>>
    BY <1>1 DEF TotalPower
  <2> QED BY <2>1
<1>2. CASE known # {}
  <2>1. TotalPower(row) = <<watts(Min(known)), TotalSources(row)[Min(known)]>>
    BY <1>2 DEF TotalPower
  <2>2. Min(known) \in known
    <3>1. known \in SUBSET (1 .. 5) /\ known \in SUBSET Int
      OBVIOUS
    <3>2. IsFiniteSet(1 .. 5)
      BY FirstNumbers
    <3>3. IsFiniteSet(known)
      BY <3>1, <3>2, FS_Subset
    <3> HIDE DEF known
    <3> QED BY <1>2, <3>1, <3>3, Extremes
  <2> DEFINE i == Min(known)
  <2>3. i \in 1 .. 5 /\ Float(watts(i)) # None /\ watts(i) >= 0
    BY <2>2
  <2> HIDE DEF i, known
  <2>4. TotalColumns[i] \in Columns
    BY <2>3 DEF TotalColumns, Columns
  <2>5. watts(i) \in Int
    BY <2>3, <2>4, ColumnType
  <2>6. watts(i) \in Nat
    BY <2>3, <2>5
  <2>7. TotalPower(row)[1] = watts(i)
    BY <2>1 DEF i
  <2> QED BY <2>6, <2>7
<1> QED BY <1>1, <1>2

\* The first fifth of some numbers.
LEMMA FifthType ==
  ASSUME NEW s, IsSeq(s), Len(s) > 0, \A i \in DOMAIN s : s[i] \in Nat
  PROVE  Percentile(s, 1) \in Int
<1> DEFINE n == Len(s)
           lower == 1 + ((n - 1) * 1) \div 5
           rest == ((n - 1) * 1) % 5
           a == NthLeast(s, lower)
           b == NthLeast(s, lower + 1)
<1>1. n \in Nat \ {0} /\ DOMAIN s = 1 .. n
  BY SeqDomain
<1>2. s # <<>>
  BY <1>1, EmptySeqIs
<1>3. Percentile(s, 1) = IF rest = 0 THEN a ELSE a + ((b - a) * rest) \div 5
  BY <1>2 DEF Percentile
<1> HIDE DEF n
<1>4. /\ lower \in 1 .. n /\ rest \in 0 .. 4
      /\ rest # 0 => lower + 1 \in 1 .. n
  <2>1. n - 1 \in Nat /\ (n - 1) * 1 = n - 1
    BY <1>1
  <2>2. (n - 1) = 5 * ((n - 1) \div 5) + ((n - 1) % 5) /\ (n - 1) % 5 \in 0 .. 4 /\ (n - 1) \div 5 \in Nat
    BY <2>1
  <2>3. (n - 1) \div 5 <= n - 1
    BY <1>1, <2>2
  <2>4. (n - 1) % 5 # 0 => (n - 1) \div 5 < n - 1
    BY <1>1, <2>2
  <2> QED BY <1>1, <2>1, <2>2, <2>3, <2>4
<1> HIDE DEF lower, rest
<1> DEFINE D == 1 .. n
<1>5. IsFiniteSet(D) /\ Cardinality(D) = n
  BY <1>1, FirstNumbers
<1>6. s \in [D -> Int]
  <2>1. s = [i \in D |-> s[i]]
    BY <1>1 DEF IsSeq
  <2> QED BY <1>1, <2>1
<1> HIDE DEF D
<1>7. a \in Int
  BY <1>4, <1>5, <1>6, NthLeastType
<1>8. rest # 0 => b \in Int
  <2> SUFFICES ASSUME rest # 0 PROVE b \in Int
    OBVIOUS
  <2> DEFINE m == lower + 1
  <2>1. m \in 1 .. Cardinality(D)
    BY <1>4, <1>5
  <2> HIDE DEF m
  <2>2. NthLeast(s, m) \in Int
    BY <1>5, <1>6, <2>1, NthLeastType
  <2> QED BY <2>2 DEF m
<1> HIDE DEF a, b
<1>9. CASE rest = 0
  BY <1>3, <1>7, <1>9
<1>10. CASE rest # 0
  <2>1. (b - a) * rest \in Int
    BY <1>4, <1>7, <1>8, <1>10
  <2>2. ((b - a) * rest) \div 5 \in Int
    BY <2>1
  <2> QED BY <1>3, <1>7, <1>10, <2>2
<1> QED BY <1>9, <1>10

\* The baseline of a row is within its total, and is established by the
\* monitor or by the history.
BaselineOK(row, h, b) ==
  /\ HistoryOK(b.history) /\ Keeps(b.history, h)
  /\ TotalPower(row)[1] # None => b.watts \in 0 .. TotalPower(row)[1]
  /\ b.established => \/ HasBaseline(row)
                      \/ QuietKey(row) \in DOMAIN b.history /\ Len(b.history[QuietKey(row)]) >= MinQuiet

LEMMA BaselineType ==
  ASSUME NEW row, RowOK(row), NEW h, HistoryOK(h)
  PROVE  BaselineOK(row, h, Baseline(row, h))
<1> DEFINE total == TotalPower(row)[1]
           key == QuietKey(row)
           learned == IF total # None /\ IsQuietSample(row) THEN Learn(h, key, total) ELSE h
           quiet == IF key \in DOMAIN learned THEN learned[key] ELSE << >>
           with(watts, established) == [history |-> learned, watts |-> watts, established |-> established]
           b == Baseline(row, h)
<1>1. total \in Nat \cup {None}
  BY TotalType
<1>2. b = IF total = None THEN with(None, FALSE)
          ELSE IF HasBaseline(row) THEN with(Clamp(row.baseline_primary_total_load_w, 0, total), TRUE)
          ELSE IF Len(quiet) >= MinQuiet THEN with(Clamp(Percentile(quiet, 1), 0, total), TRUE)
          ELSE with(0, FALSE)
  BY DEF Baseline
<1> HIDE DEF total, b, key
<1>3. HistoryOK(learned) /\ Keeps(learned, h)
  BY <1>1, LearnKeeps, KeepsAll
<1> HIDE DEF learned
<1>4. ASSUME NEW v \in Int, total \in Nat PROVE Clamp(v, 0, total) \in 0 .. total
  BY <1>4 DEF Clamp
<1>5. CASE total = None
  <2>1. b = with(None, FALSE)
    BY <1>2, <1>5
  <2>2. b.history = learned /\ b.established = FALSE
    BY <2>1
  <2> QED BY <1>3, <1>5, <2>2 DEF BaselineOK, b, total
<1>6. CASE total # None /\ HasBaseline(row)
  <2> DEFINE v == row.baseline_primary_total_load_w
  <2>1. b = with(Clamp(v, 0, total), TRUE)
    BY <1>2, <1>6
  <2>2. "baseline_primary_total_load_w" \in Columns /\ Float(v) # None
    BY <1>6 DEF HasBaseline, Columns
  <2>3. v \in Int
    BY <2>2, ColumnType
  <2> HIDE DEF v
  <2>4. b.history = learned /\ b.watts = Clamp(v, 0, total)
    BY <2>1
  <2>5. b.watts \in 0 .. total
    BY <1>1, <1>4, <1>6, <2>3, <2>4
  <2> QED BY <1>3, <1>6, <2>4, <2>5 DEF BaselineOK, b, total
<1>7. CASE total # None /\ ~HasBaseline(row) /\ Len(quiet) >= MinQuiet
  <2>1. b = with(Clamp(Percentile(quiet, 1), 0, total), TRUE)
    BY <1>2, <1>7
  <2>2. MinQuiet \in Nat \ {0}
    BY ActivityAssumption
  <2>3. key \in DOMAIN learned
    BY <1>7, <2>2, EmptySeqIs
  <2>4. quiet = learned[key]
    BY <2>3
  <2>5. IsSeq(quiet) /\ Len(quiet) > 0 /\ \A i \in DOMAIN quiet : quiet[i] \in Nat
    BY <1>3, <2>3, <2>4 DEF HistoryOK
  <2> HIDE DEF quiet
  <2>6. Percentile(quiet, 1) \in Int
    BY <2>5, FifthType
  <2> DEFINE v == Percentile(quiet, 1)
  <2> HIDE DEF v
  <2>7. b.history = learned /\ b.watts = Clamp(v, 0, total)
    BY <2>1 DEF v
  <2>8. b.watts \in 0 .. total
    BY <1>1, <1>4, <1>7, <2>6, <2>7 DEF v
  <2>9. key \in DOMAIN b.history /\ Len(b.history[key]) >= MinQuiet
    BY <1>7, <2>3, <2>4, <2>7
  <2> QED BY <1>3, <2>7, <2>8, <2>9 DEF BaselineOK, b, total, key
<1>8. CASE total # None /\ ~HasBaseline(row) /\ ~(Len(quiet) >= MinQuiet)
  <2>1. b = with(0, FALSE)
    BY <1>2, <1>8
  <2>2. b.history = learned /\ b.watts = 0 /\ b.established = FALSE
    BY <2>1
  <2>3. b.watts \in 0 .. total
    BY <1>1, <1>8, <2>2
  <2> QED BY <1>3, <2>2, <2>3 DEF BaselineOK, b, total
<1> QED BY <1>5, <1>6, <1>7, <1>8

-----------------------------------------------------------------------------
(* What a row makes of the published sample. *)

LEMMA AttributeFields ==
  ASSUME NEW row, NEW s, NEW h, NEW t
  PROVE  LET r     == Attribute(row, s, h, t)
             total == TotalPower(row)
             b     == Baseline(row, h)
             dynamic == IF total[1] = None THEN None ELSE Positive(total[1] - b.watts)
             pools == ComponentPools(row, dynamic)
             apps  == SharedApps(s.activities, b.watts, dynamic, pools)
         IN  /\ r.history = b.history /\ r.source = s.source
             /\ r.confidence = Confidence(s, total[2], b.established)
             /\ r.total = total[1] /\ r.total_source = total[2] /\ r.power_source = row.power_source
             /\ r.baseline = b.watts /\ r.pools = pools /\ r.apps = apps
             /\ r.unattributed = IF total[1] = None THEN None
                                 ELSE Positive(total[1] - FieldSum(apps, "estimated_share_w"))
<1> DEFINE total == TotalPower(row)
           b     == Baseline(row, h)
           dynamic == IF total[1] = None THEN None ELSE Positive(total[1] - b.watts)
           pools == ComponentPools(row, dynamic)
           apps  == SharedApps(s.activities, b.watts, dynamic, pools)
           given == IF total[1] = None THEN None ELSE SumFunction([i \in DOMAIN apps |-> apps[i].estimated_share_w])
           confidence == Confidence(s, total[2], b.established)
           unattributed == IF total[1] = None THEN None ELSE Positive(total[1] - given)
           r == Attribute(row, s, h, t)
<1>1. r = [sample_id |-> s.sample_id, at |-> s.at, window |-> s.window,
           age |-> t - s.at, status |-> s.status, source |-> s.source, error |-> s.error,
           confidence |-> confidence, total |-> total[1], total_source |-> total[2],
           power_source |-> row.power_source, baseline |-> b.watts, dynamic |-> dynamic,
           pools |-> pools, attributed |-> given, unattributed |-> unattributed,
           apps |-> apps, history |-> b.history]
  BY DEF Attribute, Shares
<1>2. unattributed = IF total[1] = None THEN None ELSE Positive(total[1] - FieldSum(apps, "estimated_share_w"))
  BY DEF FieldSum
<1> HIDE DEF confidence, dynamic, pools, apps, given, unattributed, b, total, r
<1>3. /\ r.history = b.history /\ r.source = s.source /\ r.confidence = confidence
      /\ r.total = total[1] /\ r.total_source = total[2] /\ r.power_source = row.power_source
      /\ r.baseline = b.watts /\ r.pools = pools /\ r.apps = apps /\ r.unattributed = unattributed
  BY <1>1
<1> QED BY <1>2, <1>3 DEF confidence, dynamic, pools, apps, b, total, r

\* Each step leaves the log and the histories, or it is a row, which may add
\* the line of what it makes of the published sample.
Result(dt, r) == Attribute(Rows[r], worker.snapshot, history, now + dt)

Attributed ==
  \E dt \in Steps, r \in DOMAIN Rows :
    /\ history' = Result(dt, r).history /\ rows' = rows + 1
    /\ \/ Lines(log') = Lines(log)
       \/ \E interval : Lines(log') = Append(Lines(log), Line(Result(dt, r), interval))

LEMMA LinesStep ==
  ASSUME IInv, [Next]_vars
  PROVE  (history' = history /\ rows' = rows /\ Lines(log') = Lines(log)) \/ Attributed
<1>1. LogOK(log)
  BY DEF IInv, LogGood
<1>2. CASE Row
  <2>1. PICK dt \in Steps, r \in DOMAIN Rows :
          \E result \in {Attribute(Rows[r], worker.snapshot, history, now + dt)} :
            /\ history' = result.history /\ rows' = rows + 1
            /\ log' = log \/ \E reach : log' = Write(log, result, reach)
    BY <1>2 DEF Row
  <2> DEFINE result == Result(dt, r)
  <2>2. history' = result.history /\ rows' = rows + 1 /\ (log' = log \/ \E reach : log' = Write(log, result, reach))
    BY <2>1 DEF Result
  <2> HIDE DEF result
  <2>3. CASE log' = log
    BY <2>2, <2>3 DEF Attributed, result
  <2>4. ASSUME NEW reach, log' = Write(log, result, reach) PROVE Attributed
    <3>1. Lines(Write(log, result, reach)) = Append(Lines(log), Line(result, IntervalOf(log, result)))
      BY <1>1, WriteAdds
    <3>2. Lines(log') = Append(Lines(log), Line(result, IntervalOf(log, result)))
      BY <2>4, <3>1
    <3> QED BY <2>2, <3>2 DEF Attributed, result
  <2> QED BY <2>2, <2>3, <2>4
<1>3. CASE Close
  <2>1. PICK files \in 0..2, flushes \in BOOLEAN : log' = CloseLog(log, files, flushes)
    BY <1>3 DEF Close
  <2> DEFINE flushed == FlushSummary(log, files)
             shut == [flushed EXCEPT !.jsonl = @ \o flushed.buffer, !.buffer = << >>]
  <2>2. SameLines(log, flushed)
    BY <1>1, FlushAddsNothing
  <2>3. log' = IF flushes THEN shut ELSE flushed
    BY <2>1 DEF CloseLog
  <2> HIDE DEF flushed
  <2>4. Lines(flushed) = Lines(log) /\ LogOK(flushed)
    BY <2>2 DEF SameLines, Lines
  <2>5. shut.jsonl = flushed.jsonl \o flushed.buffer /\ shut.buffer = <<>>
    BY <2>4 DEF LogOK
  <2> HIDE DEF shut
  <2>6. IsSeq(Lines(flushed)) /\ Lines(flushed) \o <<>> = Lines(flushed)
    BY <2>4, ConcatSeq, EmptySeqIs DEF LogOK, Lines
  <2>7. Lines(shut) = Lines(flushed)
    BY <2>5, <2>6 DEF Lines
  <2>8. history' = history /\ rows' = rows
    BY <1>3 DEF Close
  <2> QED BY <2>3, <2>4, <2>7, <2>8
<1>4. CASE BeginSample \/ EndSample \/ EndThread \/ Quit \/ UNCHANGED vars
  <2>1. history' = history /\ log' = log /\ rows' = rows
    BY <1>4 DEF BeginSample, EndSample, EndThread, Quit, vars
  <2> QED BY <2>1
<1> QED BY <1>2, <1>3, <1>4 DEF Next

\* The lines that were written are those of the log.
LEMMA WrittenLines ==
  ASSUME LogOK(log)
  PROVE  IsSeq(Lines(log)) /\ Written = Lines(log)
BY ConcatSeq DEF LogOK, Lines, Written

-----------------------------------------------------------------------------
(* The confidence of the lines. *)

LEMMA EarnedLine ==
  ASSUME NEW x \in DOMAIN Rows, NEW s, NEW h, HistoryOK(h), NEW t, NEW interval
  PROVE  LET r == Attribute(Rows[x], s, h, t)
         IN  HistoryOK(r.history) /\ Keeps(r.history, h) /\ Earned(Line(r, interval), r.history)
<1> DEFINE row == Rows[x]
           r == Attribute(row, s, h, t)
           total == TotalPower(row)
           b == Baseline(row, h)
           line == Line(r, interval)
           key == <<row.power_source, total[2]>>
<1>1. RowOK(row)
  BY RowsAssumption DEF RowOK
<1>2. BaselineOK(row, h, b)
  BY <1>1, BaselineType
<1> HIDE DEF b
<1>3. /\ r.history = b.history /\ r.source = s.source
      /\ r.confidence = Confidence(s, total[2], b.established)
      /\ r.total_source = total[2] /\ r.power_source = row.power_source
  BY AttributeFields DEF b
<1> HIDE DEF r, total
<1>4. /\ line.confidence = r.confidence /\ line.source = r.source
      /\ line.total_source = r.total_source /\ line.power_source = r.power_source
  BY DEF Line
<1> HIDE DEF line
<1>5. key = QuietKey(row)
  BY DEF QuietKey, total
<1>6. Earned(line, b.history)
  <2> SUFFICES ASSUME line.confidence = "high"
               PROVE  /\ line.source = "powermetrics-coalition" /\ line.total_source \in HighTrustSources
                      /\ \/ key \in DOMAIN b.history /\ Len(b.history[key]) >= MinQuiet
                         \/ \E q \in DOMAIN Rows : HasBaseline(Rows[q]) /\ QuietKey(Rows[q]) = key
    BY <1>3, <1>4 DEF Earned
  <2>1. Confidence(s, total[2], b.established) = "high"
    BY <1>3, <1>4
  <2>2. s.source = "powermetrics-coalition" /\ total[2] \in HighTrustSources /\ b.established
    BY <2>1 DEF Confidence
  <2>3. HasBaseline(row) \/ (key \in DOMAIN b.history /\ Len(b.history[key]) >= MinQuiet)
    BY <1>2, <1>5, <2>2 DEF BaselineOK
  <2> QED BY <1>3, <1>4, <1>5, <2>2, <2>3
<1> QED BY <1>2, <1>3, <1>6 DEF BaselineOK, line, r

LEMMA EarnedStays ==
  ASSUME NEW line, NEW h, HistoryOK(h), Earned(line, h), NEW new, HistoryOK(new), Keeps(new, h)
  PROVE  Earned(line, new)
<1> DEFINE key == <<line.power_source, line.total_source>>
<1> HIDE DEF key
<1>1. MinQuiet \in Nat
  BY ActivityAssumption
<1>2. key \in DOMAIN h /\ Len(h[key]) >= MinQuiet => key \in DOMAIN new /\ Len(new[key]) >= MinQuiet
  <2> SUFFICES ASSUME key \in DOMAIN h, Len(h[key]) >= MinQuiet
               PROVE  key \in DOMAIN new /\ Len(new[key]) >= MinQuiet
    OBVIOUS
  <2>1. key \in DOMAIN new /\ Len(h[key]) <= Len(new[key])
    BY DEF Keeps
  <2>2. Len(h[key]) \in Nat /\ Len(new[key]) \in Nat
    BY <2>1 DEF HistoryOK
  <2> QED BY <1>1, <2>1, <2>2
<1> QED BY <1>2 DEF Earned, key

EarnedInv ==
  /\ HistoryOK(history)
  /\ \A i \in DOMAIN Lines(log) : Earned(Lines(log)[i], history)

LEMMA EarnedInvariant == Spec => []EarnedInv
<1>1. Init => EarnedInv
  <2> SUFFICES ASSUME Init PROVE EarnedInv
    OBVIOUS
  <2>1. history = <<>> /\ log.jsonl = <<>> /\ log.buffer = <<>>
    BY DEF Init, EmptyLog
  <2>2. Lines(log) = <<>> /\ DOMAIN <<>> = {}
    BY <2>1, EmptySeqIs, ConcatSeq DEF Lines
  <2> QED BY <2>1, <2>2 DEF EarnedInv, HistoryOK
<1>2. IInv /\ EarnedInv /\ [Next]_vars => EarnedInv'
  <2> SUFFICES ASSUME IInv, EarnedInv, [Next]_vars PROVE EarnedInv'
    OBVIOUS
  <2> DEFINE L == Lines(log)
             M == Lines(log')
             h == history
             g == history'
  <2>1. HistoryOK(h) /\ (\A i \in DOMAIN L : Earned(L[i], h)) /\ IsSeq(L)
    BY WrittenLines DEF IInv, LogGood, EarnedInv
  <2>2. CASE g = h /\ M = L
    BY <2>1, <2>2 DEF EarnedInv
  <2>3. CASE Attributed
    <3>1. PICK dt \in Steps, x \in DOMAIN Rows :
            /\ g = Result(dt, x).history
            /\ M = L \/ \E interval : M = Append(L, Line(Result(dt, x), interval))
      BY <2>3 DEF Attributed
    <3> DEFINE r == Result(dt, x)
    <3>2. \A interval : HistoryOK(r.history) /\ Keeps(r.history, h) /\ Earned(Line(r, interval), r.history)
      BY <2>1, EarnedLine DEF Result
    <3> HIDE DEF r
    <3>3. HistoryOK(g) /\ Keeps(g, h) /\ \A interval : Earned(Line(r, interval), g)
      BY <3>1, <3>2 DEF r
    <3>4. M = L \/ \E interval : M = Append(L, Line(r, interval))
      BY <3>1 DEF r
    <3> HIDE DEF L, M, h, g
    <3>5. \A i \in DOMAIN L : Earned(L[i], g)
      BY <2>1, <3>3, EarnedStays
    <3>6. ASSUME NEW interval, M = Append(L, Line(r, interval)) PROVE \A i \in DOMAIN M : Earned(M[i], g)
      <4> DEFINE line == Line(r, interval)
      <4>1. Earned(line, g) /\ M = Append(L, line)
        BY <3>3, <3>6
      <4> HIDE DEF line
      <4>2. /\ IsSeq(M) /\ Len(L) \in Nat /\ Len(M) = Len(L) + 1 /\ \A i \in 1 .. Len(L) : M[i] = L[i]
            /\ M[Len(L) + 1] = line
        BY <2>1, <4>1, AppendSeq
      <4>3. DOMAIN M = 1 .. Len(L) + 1 /\ DOMAIN L = 1 .. Len(L)
        BY <2>1, <4>2, SeqDomain
      <4> QED BY <3>5, <4>1, <4>2, <4>3
    <3>7. \A i \in DOMAIN M : Earned(M[i], g)
      BY <3>4, <3>5, <3>6
    <3> QED BY <3>3, <3>7 DEF EarnedInv, M, g
  <2> QED BY <2>2, <2>3, LinesStep
<1> QED BY <1>1, <1>2, LogInvariant, PTL DEF Spec

\* A line of high confidence is of coalitions and of a total that is trusted,
\* and its baseline was measured by the monitor on this power source or is
\* established by the quiet rows of this run: the zero placeholder never
\* counts, whatever rows come and whatever is forgotten of the history
\* (_baseline, _confidence).
THEOREM ConfidenceEarned == Spec => []ConfidenceIsEarned
<1>1. IInv /\ EarnedInv => ConfidenceIsEarned
  BY WrittenLines DEF IInv, LogGood, EarnedInv, ConfidenceIsEarned
<1> QED BY <1>1, LogInvariant, EarnedInvariant, PTL

-----------------------------------------------------------------------------
(* The bounds. *)

BoundInv ==
  /\ now \in Nat /\ stage \in Stages
  /\ worker.id \in 0 .. MaxSamples
  /\ rows \in 0 .. MaxRows /\ Len(Lines(log)) <= rows
  /\ faults \in 0 .. MaxFaults

LEMMA BoundInvariant == Spec => []BoundInv
<1>0. MaxSamples \in Nat /\ MaxRows \in Nat /\ MaxFaults \in Nat /\ Steps \subseteq Nat
  BY AppPowerAssumption
<1>1. Init => BoundInv
  <2> SUFFICES ASSUME Init PROVE BoundInv
    OBVIOUS
  <2>1. /\ now = 0 /\ worker.id = 0 /\ rows = 0 /\ faults = 0 /\ stage = "running"
        /\ log.jsonl = <<>> /\ log.buffer = <<>>
    BY DEF Init, EmptyLog
  <2>2. Lines(log) = <<>> /\ Len(<<>>) = 0
    BY <2>1, EmptySeqIs, ConcatSeq DEF Lines
  <2>3. stage \in Stages
    BY <2>1 DEF Stages
  <2> QED BY <1>0, <2>1, <2>2, <2>3 DEF BoundInv
<1>2. IInv /\ IInv' /\ BoundInv /\ [Next]_vars => BoundInv'
  <2> SUFFICES ASSUME IInv, IInv', BoundInv, [Next]_vars PROVE BoundInv'
    OBVIOUS
  <2>1. /\ now \in Nat /\ stage \in Stages /\ worker.id \in 0 .. MaxSamples /\ rows \in 0 .. MaxRows
        /\ Len(Lines(log)) <= rows /\ faults \in 0 .. MaxFaults /\ WorkerGood(worker)
    BY DEF BoundInv, IInv
  <2>2. now' \in Nat
    <3>1. now' = now \/ \E dt \in Steps : now' = now + dt
      BY DEF Next, vars, BeginSample, EndSample, EndThread, Row, Quit, Close
    <3> QED BY <1>0, <2>1, <3>1
  <2>3. stage' \in Stages
    <3>1. stage' = stage \/ stage' = "killed" \/ stage' = "stopping" \/ stage' \in Stages
      <4>1. CASE Row
        BY <4>1 DEF Row
      <4>2. CASE Quit
        BY <4>2 DEF Quit
      <4>3. CASE Close
        <5>1. stage' = "closed" \/ stage' = "closed with an error" \/ stage' = "killed while closing"
          BY <4>3, Zenon DEF Close
        <5> QED BY <5>1, Zenon DEF Stages
      <4>4. CASE BeginSample \/ EndSample \/ EndThread \/ UNCHANGED vars
        BY <4>4 DEF BeginSample, EndSample, EndThread, vars
      <4> QED BY <4>1, <4>2, <4>3, <4>4 DEF Next
    <3> QED BY <2>1, <3>1, Zenon DEF Stages
  <2>4. worker'.id \in 0 .. MaxSamples
    <3>1. CASE BeginSample
      <4>1. worker' = [worker EXCEPT !.id = @ + 1, !.started = now] /\ worker.id < MaxSamples
        BY <3>1 DEF BeginSample
      <4> QED BY <1>0, <2>1, <4>1 DEF WorkerGood
    <3>2. CASE EndSample
      <4>1. \E o, sample : \/ worker' = [worker EXCEPT !.alive = FALSE, !.started = None]
                           \/ worker' = Published(sample, o)
        BY <3>2 DEF EndSample
      <4>2. worker'.id = worker.id
        BY <2>1, <4>1 DEF WorkerGood, Published
      <4> QED BY <2>1, <4>2
    <3>3. CASE EndThread \/ Quit \/ Close
      <4>1. worker' = [worker EXCEPT !.alive = FALSE] \/ worker' = [worker EXCEPT !.stopping = TRUE]
        BY <3>3 DEF EndThread, Quit, Close
      <4>2. worker'.id = worker.id
        BY <2>1, <4>1 DEF WorkerGood
      <4> QED BY <2>1, <4>2
    <3>4. CASE Row \/ UNCHANGED vars
      <4>1. worker' = worker
        BY <3>4 DEF Row, vars
      <4> QED BY <2>1, <4>1
    <3> QED BY <3>1, <3>2, <3>3, <3>4 DEF Next
  <2>5. rows' \in 0 .. MaxRows /\ faults' \in 0 .. MaxFaults
    <3>1. CASE Row
      <4>1. rows' = rows + 1 /\ rows < MaxRows
        BY <3>1 DEF Row
      <4>2. faults' = faults \/ (faults < MaxFaults /\ faults' = faults + 1)
        BY <3>1 DEF Row
      <4> QED BY <1>0, <2>1, <4>1, <4>2
    <3>2. CASE Close
      <4>1. PICK files \in 0..2, flushes \in BOOLEAN :
              \/ /\ faults' = faults + (IF files < 2 THEN 1 ELSE 0) + (IF flushes THEN 0 ELSE 1)
                 /\ faults' <= MaxFaults
              \/ faults' = faults
        BY <3>2 DEF Close
      <4>2. rows' = rows
        BY <3>2 DEF Close
      <4> QED BY <1>0, <2>1, <4>1, <4>2
    <3>3. CASE BeginSample \/ EndSample \/ EndThread \/ Quit \/ UNCHANGED vars
      <4>1. rows' = rows /\ faults' = faults
        BY <3>3 DEF BeginSample, EndSample, EndThread, Quit, vars
      <4> QED BY <2>1, <4>1
    <3> QED BY <3>1, <3>2, <3>3 DEF Next
  <2>6. Len(Lines(log')) <= rows'
    <3> DEFINE L == Lines(log)
    <3>1. IsSeq(L) /\ Len(L) \in Nat
      BY WrittenLines, SeqDomain DEF IInv, LogGood
    <3>2. CASE rows' = rows /\ Lines(log') = L
      BY <2>1, <3>2
    <3>3. ASSUME rows' = rows + 1, Lines(log') = L \/ \E e : Lines(log') = Append(L, e)
          PROVE  Len(Lines(log')) <= rows'
      <4>1. \A e : Len(Append(L, e)) = Len(L) + 1
        BY <3>1, AppendSeq
      <4> HIDE DEF L
      <4>2. Len(Lines(log')) \in {Len(L), Len(L) + 1}
        BY <3>3, <4>1
      <4>3. Len(L) <= rows /\ rows \in Nat
        BY <2>1 DEF L
      <4> QED BY <3>1, <3>3, <4>2, <4>3
    <3> QED BY <3>2, <3>3, LinesStep DEF Attributed
  <2> QED BY <2>2, <2>3, <2>4, <2>5, <2>6 DEF BoundInv
<1> QED BY <1>1, <1>2, LogInvariant, PTL DEF Spec

\* The types of the state, and the bounds of the cache of names, of the
\* histories of quiet rows and of the published activities
\* (max_cache_entries, quiet_history_size, max_activities).
THEOREM TypesAndBounds == Spec => []TypeOK
<1>1. IInv /\ SumInv /\ WorkInv /\ EarnedInv /\ BoundInv => TypeOK
  <2> SUFFICES ASSUME IInv, SumInv, WorkInv, EarnedInv, BoundInv PROVE TypeOK
    OBVIOUS
  <2>1. now \in Nat /\ stage \in Stages /\ worker.id \in 0 .. MaxSamples /\ rows \in 0 .. MaxRows /\ faults \in 0 .. MaxFaults
    BY DEF BoundInv
  <2>2. worker.snapshot.sample_id \in 0 .. worker.id
    BY DEF IInv, WorkerGood
  <2>3. Len(worker.cache) <= MaxNames /\ Len(worker.snapshot.activities) <= MaxActivities
    BY DEF WorkInv, CacheOK, SnapshotOK
  <2>4. \A k \in DOMAIN history : Len(history[k]) \in 1..QuietSize
    BY DEF EarnedInv, HistoryOK
  <2>5. log.totals.sample_count \in 0 .. rows
    <3>1. LogOK(log) /\ SumGood(log)
      BY DEF IInv, LogGood, SumInv
    <3>2. log.totals.sample_count = Len(Lines(log)) /\ Len(Lines(log)) <= rows
      BY <3>1, OnDisk DEF BoundInv
    <3>3. Len(Lines(log)) \in Nat
      BY <3>1, WrittenLines, SeqDomain
    <3> QED BY <2>1, <3>2, <3>3
  <2> QED BY <2>1, <2>2, <2>3, <2>4, <2>5 DEF TypeOK
<1> QED BY <1>1, LogInvariant, SumInvariant, WorkInvariant, EarnedInvariant, BoundInvariant, PTL

-----------------------------------------------------------------------------
(* The division of a power. *)

\* The pools above the baseline are the dynamic power.
PoolsOK(pools, dynamic) ==
  /\ pools.cpu \in Nat /\ pools.gpu \in Nat /\ pools.residual \in Nat
  /\ pools.cpu + pools.gpu + pools.residual = dynamic

LEMMA PoolsFill ==
  ASSUME NEW row, RowOK(row), NEW dynamic \in Nat
  PROVE  PoolsOK(ComponentPools(row, dynamic), dynamic)
<1> DEFINE above(watts, base) == IF Float(row[watts]) = None THEN 0
                                 ELSE Positive(row[watts] - FirstKnown(<<Float(row[base]), 0>>))
           a == above("cpu_power_w", "baseline_cpu_power_w")
           b == above("gpu_power_w", "baseline_gpu_power_w")
           cpu == Clamp(a, 0, dynamic)
           gpu == Clamp(b, 0, dynamic - cpu)
           method == IF a + b > 0 THEN "component-aware" ELSE "Energy Impact"
           pools == ComponentPools(row, dynamic)
<1>1. ASSUME NEW watts \in Columns, NEW base \in Columns PROVE above(watts, base) \in Nat
  <2>1. Float(row[base]) \in Int \cup {None}
    BY ColumnType DEF Number
  <2>2. FirstKnown(<<Float(row[base]), 0>>) = IF Float(row[base]) # None THEN Float(row[base]) ELSE 0
    BY FirstKnownOfTwo
  <2>3. FirstKnown(<<Float(row[base]), 0>>) \in Int
    BY <2>1, <2>2
  <2> DEFINE z == FirstKnown(<<Float(row[base]), 0>>)
  <2> HIDE DEF z
  <2>4. CASE Float(row[watts]) = None
    BY <2>4
  <2>5. CASE Float(row[watts]) # None
    <3>1. row[watts] \in Int /\ z \in Int
      BY <2>3, <2>5, ColumnType DEF z
    <3>2. Positive(row[watts] - z) \in Nat
      BY <3>1, PositiveType DEF Number
    <3> QED BY <2>5, <3>2 DEF z
  <2> QED BY <2>4, <2>5
<1>2. a \in Nat /\ b \in Nat
  <2>1. {"cpu_power_w", "baseline_cpu_power_w", "gpu_power_w", "baseline_gpu_power_w"} \subseteq Columns
    BY DEF Columns
  <2> HIDE DEF above
  <2> QED BY <1>1, <2>1
<1>3. dynamic # None
  BY DistinctMarks
<1>4. pools = [cpu |-> cpu, gpu |-> gpu, residual |-> dynamic - cpu - gpu, method |-> method]
  BY <1>3 DEF ComponentPools
<1> HIDE DEF a, b, method, pools
<1>5. cpu \in 0 .. dynamic
  BY <1>2 DEF Clamp
<1> HIDE DEF cpu
<1>6. gpu \in 0 .. dynamic - cpu
  BY <1>2, <1>5 DEF Clamp
<1> HIDE DEF gpu
<1>7. pools.cpu = cpu /\ pools.gpu = gpu /\ pools.residual = dynamic - cpu - gpu
  BY <1>4
<1>8. cpu + gpu + (dynamic - cpu - gpu) = dynamic /\ dynamic - cpu - gpu \in Nat
  BY <1>5, <1>6
<1> QED BY <1>5, <1>6, <1>7, <1>8 DEF PoolsOK, pools

\* The parts of a power, by some numbers that are not all 0.
LEMMA PartOf ==
  ASSUME NEW w \in Nat, NEW part, NEW whole
  PROVE  Part(w, part, whole) = (w * part) \div whole
<1>1. w # None
  BY ONLY w \in Nat, DistinctMarks
<1> QED BY <1>1 DEF Part

\* What the activities weigh under a key, and the parts of w that these have.
Weights(e, k) == [i \in DOMAIN e |-> Positive(e[i][k])]

PartsBy(e, k, w) ==
  SharesOf(DOMAIN e, IF SumFunction(Weights(e, k)) > 0 THEN Weights(e, k) ELSE Weights(e, "score"), w)

LEMMA WeightsType ==
  ASSUME NEW e, ActivitiesOK(e), NEW k \in Metrics \cup {"score"}
  PROVE  /\ IsFiniteSet(DOMAIN e) /\ Cardinality(DOMAIN e) = Len(e) /\ Len(e) \in Nat
         /\ Weights(e, k) \in [DOMAIN e -> Nat] /\ SumFunction(Weights(e, k)) \in Nat
<1>1. IsSeq(e) /\ \A i \in DOMAIN e : e[i].score \in Nat /\ \A m \in Metrics : e[i][m] \in Number
  BY DEF ActivitiesOK, ActivityOK
<1> DEFINE D == DOMAIN e
           f == Weights(e, k)
<1>2. D = 1 .. Len(e) /\ Len(e) \in Nat
  BY <1>1, SeqDomain
<1>3. IsFiniteSet(D) /\ Cardinality(D) = Len(e)
  BY <1>2, FirstNumbers
<1>4. \A i \in D : e[i][k] \in Number
  BY <1>1 DEF Number
<1>5. f \in [D -> Nat]
  BY <1>4, PositiveType DEF Weights
<1> HIDE DEF D, f
<1>6. f \in [D -> Int] /\ \A x \in D : 0 <= f[x]
  BY <1>5
<1>7. SumFunction(f) \in Int /\ 0 <= SumFunction(f)
  BY <1>3, <1>6, SumType, SumOfTerm
<1> QED BY <1>2, <1>3, <1>5, <1>7 DEF D, f

LEMMA PartsFill ==
  ASSUME NEW e, ActivitiesOK(e), SumFunction(Weights(e, "score")) > 0,
         NEW k \in Metrics \cup {"score"}, NEW w \in Nat
  PROVE  /\ PartsBy(e, k, w) \in [DOMAIN e -> Nat] /\ SumFunction(PartsBy(e, k, w)) \in Nat
         /\ SumFunction(PartsBy(e, k, w)) <= w /\ w <= SumFunction(PartsBy(e, k, w)) + Len(e)
<1> DEFINE D == DOMAIN e
           f == IF SumFunction(Weights(e, k)) > 0 THEN Weights(e, k) ELSE Weights(e, "score")
           q == SharesOf(D, f, w)
<1>1. IsFiniteSet(D) /\ Cardinality(D) = Len(e) /\ Len(e) \in Nat
  BY WeightsType
<1>2. f \in [D -> Nat] /\ SumFunction(f) > 0
  <2>1. Weights(e, k) \in [D -> Nat] /\ Weights(e, "score") \in [D -> Nat]
    BY WeightsType
  <2> QED BY <2>1
<1>3. PartsBy(e, k, w) = q
  BY DEF PartsBy
<1> HIDE DEF D, f
<1>4. q \in [D -> Nat] /\ SumFunction(q) <= w /\ w <= SumFunction(q) + Cardinality(D)
  BY <1>1, <1>2, SharesFill
<1> HIDE DEF q
<1>5. q \in [D -> Int] /\ \A x \in D : 0 <= q[x]
  BY <1>4
<1>6. SumFunction(q) \in Int /\ 0 <= SumFunction(q)
  BY <1>1, <1>5, SumType, SumOfTerm
<1> QED BY <1>1, <1>3, <1>4, <1>6 DEF D

\* The share of one activity.
Powers == {"estimated_cpu_w", "estimated_gpu_w", "estimated_residual_w", "estimated_dynamic_w", "estimated_share_w"}

LEMMA UpdatedShare ==
  ASSUME NEW a, ActivityOK(a), NEW cpu, NEW gpu, NEW residual, NEW own, NEW share
  PROVE  LET u == Update(a, [estimated_cpu_w |-> cpu, estimated_gpu_w |-> gpu, estimated_residual_w |-> residual,
                             estimated_dynamic_w |-> own, estimated_share_w |-> share])
         IN  /\ u.estimated_cpu_w = cpu /\ u.estimated_gpu_w = gpu /\ u.estimated_residual_w = residual
             /\ u.estimated_share_w = share /\ u.score = a.score
<1> DEFINE e == [estimated_cpu_w |-> cpu, estimated_gpu_w |-> gpu, estimated_residual_w |-> residual,
                 estimated_dynamic_w |-> own, estimated_share_w |-> share]
<1>1. /\ DOMAIN e = Powers /\ e.estimated_cpu_w = cpu /\ e.estimated_gpu_w = gpu
      /\ e.estimated_residual_w = residual /\ e.estimated_share_w = share
  BY DEF Powers
<1>2. "score" \in DOMAIN a
  BY DEF ActivityOK
<1> HIDE DEF e
<1>3. /\ \A k \in DOMAIN e : Update(a, e)[k] = e[k]
      /\ \A k \in DOMAIN a \ DOMAIN e : Update(a, e)[k] = a[k]
  BY Updated
<1>4. "score" \in DOMAIN a \ DOMAIN e
  BY <1>1, <1>2 DEF Powers
<1>5. {"estimated_cpu_w", "estimated_gpu_w", "estimated_residual_w", "estimated_share_w"} \subseteq DOMAIN e
  BY <1>1 DEF Powers
<1>6. /\ Update(a, e).estimated_cpu_w = cpu /\ Update(a, e).estimated_gpu_w = gpu
      /\ Update(a, e).estimated_residual_w = residual /\ Update(a, e).estimated_share_w = share
  BY <1>1, <1>3, <1>5
<1>7. Update(a, e).score = a.score
  BY <1>3, <1>4
<1> QED BY <1>6, <1>7 DEF e

LEMMA PartByIs ==
  ASSUME NEW e, ActivitiesOK(e), NEW i \in DOMAIN e, NEW k \in Metrics \cup {"score"}, NEW w \in Nat
  PROVE  /\ (IF SumFunction(Weights(e, k)) > 0 THEN Part(w, Positive(e[i][k]), SumFunction(Weights(e, k)))
             ELSE Part(w, e[i].score, SumFunction(Weights(e, "score")))) = PartsBy(e, k, w)[i]
         /\ Part(w, e[i].score, SumFunction(Weights(e, "score"))) = PartsBy(e, "score", w)[i]
<1> DEFINE scores == Weights(e, "score")
           f == Weights(e, k)
           D == DOMAIN e
<1>1. e[i].score \in Nat
  BY DEF ActivitiesOK, ActivityOK
<1>2. Positive(e[i].score) = e[i].score
  <2>1. e[i].score # None
    BY ONLY <1>1, DistinctMarks
  <2> QED BY <1>1, <2>1 DEF Positive
<1>3. f[i] = Positive(e[i][k]) /\ scores[i] = e[i].score
  BY <1>2 DEF Weights
<1>4. PartsBy(e, k, w) = SharesOf(D, IF SumFunction(f) > 0 THEN f ELSE scores, w)
  BY DEF PartsBy
<1>5. PartsBy(e, "score", w) = SharesOf(D, scores, w)
  BY DEF PartsBy
<1> HIDE DEF f, scores
<1>6. \A g : SharesOf(D, g, w)[i] = (w * g[i]) \div SumFunction(g)
  BY DEF SharesOf
<1>7. \A part, whole : Part(w, part, whole) = (w * part) \div whole
  BY PartOf
<1>8. PartsBy(e, "score", w)[i] = (w * scores[i]) \div SumFunction(scores)
  BY <1>5, <1>6
<1>9. CASE SumFunction(f) > 0
  <2>1. PartsBy(e, k, w)[i] = (w * f[i]) \div SumFunction(f)
    BY <1>4, <1>6, <1>9
  <2> QED BY <1>3, <1>7, <1>8, <1>9, <2>1 DEF f, scores
<1>10. CASE ~(SumFunction(f) > 0)
  <2>1. PartsBy(e, k, w)[i] = (w * scores[i]) \div SumFunction(scores)
    BY <1>4, <1>6, <1>10
  <2> QED BY <1>3, <1>7, <1>8, <1>10, <2>1 DEF f, scores
<1> QED BY <1>9, <1>10

\* The sum of the shares of a power and of the pools above it.
SharedAs(s, e, base, pools) ==
  \A i \in DOMAIN e :
    /\ s[i].estimated_cpu_w = PartsBy(e, "cpu_ms_per_s", pools.cpu)[i]
    /\ s[i].estimated_gpu_w = PartsBy(e, "gpu_ms_per_s", pools.gpu)[i]
    /\ s[i].estimated_share_w = PartsBy(e, "score", base)[i]
         + (PartsBy(e, "cpu_ms_per_s", pools.cpu)[i] + PartsBy(e, "gpu_ms_per_s", pools.gpu)[i]
            + PartsBy(e, "score", pools.residual)[i])

LEMMA ShareSums ==
  ASSUME NEW e, ActivitiesOK(e), SumFunction(Weights(e, "score")) > 0,
         NEW base \in Nat, NEW dynamic \in Nat, NEW pools, PoolsOK(pools, dynamic),
         NEW s, DOMAIN s = DOMAIN e, SharedAs(s, e, base, pools)
  PROVE  /\ \A i \in DOMAIN s : /\ s[i].estimated_cpu_w \in Nat /\ s[i].estimated_gpu_w \in Nat
                                /\ s[i].estimated_share_w \in Nat
         /\ AllButRounding(FieldSum(s, "estimated_share_w"), base + dynamic, 4 * Len(e))
         /\ AllButRounding(FieldSum(s, "estimated_cpu_w"), pools.cpu, Len(e))
         /\ AllButRounding(FieldSum(s, "estimated_gpu_w"), pools.gpu, Len(e))
<1> DEFINE D == DOMAIN e
           c == PartsBy(e, "cpu_ms_per_s", pools.cpu)
           g == PartsBy(e, "gpu_ms_per_s", pools.gpu)
           r == PartsBy(e, "score", pools.residual)
           b == PartsBy(e, "score", base)
           n == Len(e)
           w == pools.residual
<1>1. /\ pools.cpu \in Nat /\ pools.gpu \in Nat /\ w \in Nat
      /\ pools.cpu + pools.gpu + w = dynamic
  BY DEF PoolsOK
<1>2. {"cpu_ms_per_s", "gpu_ms_per_s", "score"} \subseteq Metrics \cup {"score"}
  BY DEF Metrics
<1>3. IsFiniteSet(D) /\ n \in Nat
  BY <1>2, WeightsType
<1>4. c \in [D -> Nat] /\ SumFunction(c) \in Nat /\ SumFunction(c) <= pools.cpu /\ pools.cpu <= SumFunction(c) + n
  BY <1>1, <1>2, PartsFill
<1>5. g \in [D -> Nat] /\ SumFunction(g) \in Nat /\ SumFunction(g) <= pools.gpu /\ pools.gpu <= SumFunction(g) + n
  BY <1>1, <1>2, PartsFill
<1>6. r \in [D -> Nat] /\ SumFunction(r) \in Nat /\ SumFunction(r) <= w /\ w <= SumFunction(r) + n
  BY <1>1, <1>2, PartsFill
<1>7. b \in [D -> Nat] /\ SumFunction(b) \in Nat /\ SumFunction(b) <= base /\ base <= SumFunction(b) + n
  BY <1>1, <1>2, PartsFill
<1>8. \A i \in D : /\ s[i].estimated_cpu_w = c[i] /\ s[i].estimated_gpu_w = g[i]
                   /\ s[i].estimated_share_w = b[i] + (c[i] + g[i] + r[i])
  BY DEF SharedAs
<1>9. DOMAIN s = D
  OBVIOUS
<1> HIDE DEF D, c, g, r, b, n, w
<1>10. /\ FieldSum(s, "estimated_cpu_w") = SumFunction(c)
       /\ FieldSum(s, "estimated_gpu_w") = SumFunction(g)
  <2>1. [i \in DOMAIN s |-> s[i]["estimated_cpu_w"]] = c
    BY <1>4, <1>8, <1>9
  <2>2. [i \in DOMAIN s |-> s[i]["estimated_gpu_w"]] = g
    BY <1>5, <1>8, <1>9
  <2> QED BY <2>1, <2>2 DEF FieldSum
<1>11. FieldSum(s, "estimated_share_w") = SumFunction(b) + (SumFunction(c) + SumFunction(g) + SumFunction(r))
  <2> DEFINE cg == [i \in D |-> c[i] + g[i]]
             cgr == [i \in D |-> cg[i] + r[i]]
             all == [i \in D |-> b[i] + cgr[i]]
  <2>1. c \in [D -> Int] /\ g \in [D -> Int] /\ r \in [D -> Int] /\ b \in [D -> Int]
    BY <1>4, <1>5, <1>6, <1>7
  <2>2. SumFunction(cg) = SumFunction(c) + SumFunction(g)
    BY <1>3, <2>1, SumOfSums
  <2>3. cg \in [D -> Int] /\ \A i \in D : cg[i] = c[i] + g[i]
    BY <2>1
  <2> HIDE DEF cg
  <2>4. SumFunction(cgr) = SumFunction(cg) + SumFunction(r)
    BY <1>3, <2>1, <2>3, SumOfSums
  <2>5. cgr \in [D -> Int] /\ \A i \in D : cgr[i] = cg[i] + r[i]
    BY <2>1, <2>3
  <2> HIDE DEF cgr
  <2>6. SumFunction(all) = SumFunction(b) + SumFunction(cgr)
    BY <1>3, <2>1, <2>5, SumOfSums
  <2>7. \A i \in D : s[i].estimated_share_w = all[i]
    BY <1>8, <2>3, <2>5
  <2>8. DOMAIN all = D /\ all = [i \in D |-> all[i]]
    OBVIOUS
  <2> HIDE DEF all
  <2>9. [i \in DOMAIN s |-> s[i]["estimated_share_w"]] = all
    BY <1>9, <2>7, <2>8
  <2> QED BY <2>2, <2>4, <2>6, <2>9 DEF FieldSum
<1>12. \A i \in DOMAIN s : /\ s[i].estimated_cpu_w \in Nat /\ s[i].estimated_gpu_w \in Nat
                           /\ s[i].estimated_share_w \in Nat
  BY <1>4, <1>5, <1>6, <1>7, <1>8, <1>9
<1> DEFINE sc == SumFunction(c)
           sg == SumFunction(g)
           sr == SumFunction(r)
           sb == SumFunction(b)
           x == pools.cpu
           y == pools.gpu
<1> HIDE DEF sc, sg, sr, sb, x, y
<1>13. AllButRounding(sb + (sc + sg + sr), base + dynamic, 4 * n)
  <2>1. /\ sc \in Nat /\ sg \in Nat /\ sr \in Nat /\ sb \in Nat /\ x \in Nat /\ y \in Nat /\ w \in Nat /\ n \in Nat
        /\ sc <= x /\ x <= sc + n /\ sg <= y /\ y <= sg + n /\ sr <= w /\ w <= sr + n /\ sb <= base /\ base <= sb + n
        /\ x + y + w = dynamic
    BY <1>1, <1>3, <1>4, <1>5, <1>6, <1>7 DEF sc, sg, sr, sb, x, y
  <2>2. sb + (sc + sg + sr) <= base + dynamic
    BY ONLY <2>1, base \in Nat, dynamic \in Nat
  <2>3. base + dynamic <= sb + (sc + sg + sr) + 4 * n
    BY ONLY <2>1, base \in Nat, dynamic \in Nat
  <2> QED BY <2>2, <2>3 DEF AllButRounding
<1> QED BY <1>4, <1>5, <1>10, <1>11, <1>12, <1>13 DEF AllButRounding, sc, sg, sr, sb, n

\* What the applications of a row get.
AppsFill(apps, base, dynamic, pools) ==
  /\ IsSeq(apps) /\ Len(apps) \in Nat /\ FieldSum(apps, "estimated_share_w") \in Nat
  /\ FieldSum(apps, "estimated_share_w") <= base + dynamic
  /\ Len(apps) > 0 =>
       /\ AllButRounding(FieldSum(apps, "estimated_share_w"), base + dynamic, 4 * Len(apps))
       /\ AllButRounding(FieldSum(apps, "estimated_cpu_w"), pools.cpu, Len(apps))
       /\ AllButRounding(FieldSum(apps, "estimated_gpu_w"), pools.gpu, Len(apps))

LEMMA SharedAppsFill ==
  ASSUME NEW activities, ActivitiesOK(activities), NEW base \in Nat, NEW dynamic \in Nat,
         NEW pools, PoolsOK(pools, dynamic)
  PROVE  AppsFill(SharedApps(activities, base, dynamic, pools), base, dynamic, pools)
<1> DEFINE P == {i \in DOMAIN activities : activities[i].score >= MinScore}
           e == At(activities, P)
           whole(k) == SumFunction([i \in DOMAIN e |-> Positive(e[i][k])])
           by(k, a, watts) == IF whole(k) > 0 THEN Part(watts, Positive(a[k]), whole(k))
                              ELSE Part(watts, a.score, whole("score"))
           cpu(a) == by("cpu_ms_per_s", a, pools.cpu)
           gpu(a) == by("gpu_ms_per_s", a, pools.gpu)
           residual(a) == Part(pools.residual, a.score, whole("score"))
           own(a) == IF dynamic = None THEN None ELSE cpu(a) + gpu(a) + residual(a)
           part(a) == IF own(a) = None THEN None ELSE Part(base, a.score, whole("score")) + own(a)
           share(a) == Update(a, [estimated_cpu_w |-> cpu(a), estimated_gpu_w |-> gpu(a),
                                  estimated_residual_w |-> residual(a), estimated_dynamic_w |-> own(a),
                                  estimated_share_w |-> part(a)])
           s == [i \in DOMAIN e |-> share(e[i])]
           rank == [i \in DOMAIN e |-> e[i].score]
           byScore == Descending(s, rank)
           next == [i \in DOMAIN byScore |-> FirstKnown(<<byScore[i].estimated_share_w, byScore[i].score>>)]
           apps == SharedApps(activities, base, dynamic, pools)
<1>1. apps = IF whole("score") = 0 THEN << >> ELSE Descending(byScore, next)
  BY DEF SharedApps, LargestFirst, Filter
<1>2. ActivitiesOK(e)
  <2>1. IsSeq(activities) /\ P \in SUBSET DOMAIN activities
    BY DEF ActivitiesOK
  <2> HIDE DEF P
  <2>2. TakenFrom(At(activities, P), activities)
    BY <2>1, AtIsTaken
  <2> QED BY <2>2, DrawnActivities
<1> HIDE DEF e, apps
<1>3. \A k : whole(k) = SumFunction(Weights(e, k))
  BY DEF Weights
<1>4. SumFunction(Weights(e, "score")) \in Nat /\ Len(e) \in Nat
  BY <1>2, WeightsType
<1>5. CASE whole("score") = 0
  <2>1. apps = <<>>
    BY <1>1, <1>5
  <2> DEFINE f == [i \in DOMAIN apps |-> apps[i]["estimated_share_w"]]
  <2>2. f \in [{} -> Int]
    BY <2>1, EmptySeqIs
  <2> HIDE DEF f
  <2>3. SumFunction(f) = 0
    BY <2>2, SumType, FS_EmptySet
  <2>4. FieldSum(apps, "estimated_share_w") = 0
    BY <2>3 DEF FieldSum, f
  <2>5. IsSeq(apps) /\ Len(apps) = 0
    BY <2>1, EmptySeqIs
  <2> QED BY <2>4, <2>5 DEF AppsFill, apps
<1>6. CASE whole("score") # 0
  <2>1. apps = Descending(byScore, next)
    BY <1>1, <1>6
  <2>2. SumFunction(Weights(e, "score")) > 0
    BY <1>3, <1>4, <1>6
  <2>3. ASSUME NEW i \in DOMAIN e
        PROVE  /\ s[i].estimated_cpu_w = PartsBy(e, "cpu_ms_per_s", pools.cpu)[i]
               /\ s[i].estimated_gpu_w = PartsBy(e, "gpu_ms_per_s", pools.gpu)[i]
               /\ s[i].estimated_share_w = PartsBy(e, "score", base)[i]
                    + (PartsBy(e, "cpu_ms_per_s", pools.cpu)[i] + PartsBy(e, "gpu_ms_per_s", pools.gpu)[i]
                       + PartsBy(e, "score", pools.residual)[i])
               /\ s[i].score = e[i].score /\ e[i].score \in Nat
    <3> DEFINE a == e[i]
    <3>1. ActivityOK(a)
      BY <1>2 DEF ActivitiesOK
    <3>2. pools.cpu \in Nat /\ pools.gpu \in Nat /\ pools.residual \in Nat
      BY DEF PoolsOK
    <3>3. "cpu_ms_per_s" \in Metrics /\ "gpu_ms_per_s" \in Metrics
      BY DEF Metrics
    <3>4. cpu(a) = PartsBy(e, "cpu_ms_per_s", pools.cpu)[i]
      <4> DEFINE k == "cpu_ms_per_s"
                 w == pools.cpu
      <4>1. cpu(a) = IF SumFunction(Weights(e, k)) > 0 THEN Part(w, Positive(e[i][k]), SumFunction(Weights(e, k)))
                     ELSE Part(w, e[i].score, SumFunction(Weights(e, "score")))
        BY <1>3
      <4> HIDE DEF cpu, w
      <4>2. w \in Nat
        BY <3>2 DEF w
      <4> QED BY <1>2, <3>3, <4>1, <4>2, PartByIs DEF w
    <3>5. gpu(a) = PartsBy(e, "gpu_ms_per_s", pools.gpu)[i]
      <4> DEFINE k == "gpu_ms_per_s"
                 w == pools.gpu
      <4>1. gpu(a) = IF SumFunction(Weights(e, k)) > 0 THEN Part(w, Positive(e[i][k]), SumFunction(Weights(e, k)))
                     ELSE Part(w, e[i].score, SumFunction(Weights(e, "score")))
        BY <1>3
      <4> HIDE DEF gpu, w
      <4>2. w \in Nat
        BY <3>2 DEF w
      <4> QED BY <1>2, <3>3, <4>1, <4>2, PartByIs DEF w
    <3>6. \A w \in Nat : Part(w, e[i].score, whole("score")) = PartsBy(e, "score", w)[i]
      BY <1>2, <1>3, PartByIs
    <3>7. residual(a) = PartsBy(e, "score", pools.residual)[i]
      BY <3>2, <3>6
    <3>8. Part(base, a.score, whole("score")) = PartsBy(e, "score", base)[i]
      BY <3>6
    <3> HIDE DEF cpu, gpu, residual, whole
    <3>9. /\ cpu(a) \in Nat /\ gpu(a) \in Nat /\ residual(a) \in Nat
      <4>1. /\ PartsBy(e, "cpu_ms_per_s", pools.cpu) \in [DOMAIN e -> Nat]
            /\ PartsBy(e, "gpu_ms_per_s", pools.gpu) \in [DOMAIN e -> Nat]
            /\ PartsBy(e, "score", pools.residual) \in [DOMAIN e -> Nat]
        BY <1>2, <2>2, <3>2, <3>3, PartsFill
      <4> QED BY <3>4, <3>5, <3>7, <4>1
    <3>10. own(a) = cpu(a) + gpu(a) + residual(a)
      <4>1. dynamic # None
        BY ONLY dynamic \in Nat, DistinctMarks
      <4> QED BY <4>1
    <3>11. own(a) # None
      <4>1. own(a) \in Nat
        BY <3>9, <3>10
      <4> HIDE DEF own
      <4> QED BY ONLY <4>1, DistinctMarks
    <3>12. part(a) = Part(base, a.score, whole("score")) + own(a)
      BY <3>11
    <3>13. s[i] = share(a)
      OBVIOUS
    <3> HIDE DEF own, part, a, s
    <3>14. /\ s[i].estimated_cpu_w = cpu(a) /\ s[i].estimated_gpu_w = gpu(a)
           /\ s[i].estimated_share_w = part(a) /\ s[i].score = a.score
      BY <3>1, <3>13, UpdatedShare
    <3>15. a.score \in Nat
      BY <3>1 DEF ActivityOK
    <3> QED BY <3>4, <3>5, <3>7, <3>8, <3>10, <3>12, <3>14, <3>15 DEF a
  <2>4. DOMAIN e = 1 .. Len(e)
    BY <1>2, SeqDomain DEF ActivitiesOK
  <2>5. DOMAIN s = DOMAIN e /\ s = [i \in 1 .. Len(e) |-> s[i]]
    BY <2>4
  <2> HIDE DEF s
  <2>6. IsSeq(s) /\ Len(s) = Len(e)
    BY <1>4, <2>5, FunctionSeq
  <2>7. SharedAs(s, e, base, pools)
    BY <2>3 DEF SharedAs
  <2>8. DOMAIN s = DOMAIN e
    BY <2>5
  <2>9. /\ \A i \in DOMAIN s : /\ s[i].estimated_cpu_w \in Nat /\ s[i].estimated_gpu_w \in Nat
                               /\ s[i].estimated_share_w \in Nat
        /\ AllButRounding(FieldSum(s, "estimated_share_w"), base + dynamic, 4 * Len(e))
        /\ AllButRounding(FieldSum(s, "estimated_cpu_w"), pools.cpu, Len(e))
        /\ AllButRounding(FieldSum(s, "estimated_gpu_w"), pools.gpu, Len(e))
    BY <1>2, <2>2, <2>7, <2>8, ShareSums
  <2>10. rank \in [DOMAIN s -> Int]
    BY <2>3, <2>5
  <2> HIDE DEF rank
  <2>11. IsSeq(byScore) /\ Len(byScore) = Len(s) /\ TakenFrom(byScore, s)
    BY <2>6, <2>10, DescendingIsTaken
  <2> HIDE DEF byScore
  <2>12. next \in [DOMAIN byScore -> Int]
    <3>1. \A n \in DOMAIN byScore : \E i \in DOMAIN s : byScore[n] = s[i]
      BY <2>11, DrawnElements
    <3>2. \A n \in DOMAIN byScore : byScore[n].estimated_share_w \in Nat /\ byScore[n].score \in Nat
      BY <2>3, <2>8, <2>9, <3>1
    <3>3. ASSUME NEW a \in Nat, NEW b \in Nat PROVE FirstKnown(<<a, b>>) \in Int
      <4>1. a # None
        BY ONLY a \in Nat, DistinctMarks
      <4> QED BY <4>1, FirstKnownOfTwo
    <3> QED BY <3>2, <3>3
  <2> HIDE DEF next
  <2>13. IsSeq(apps) /\ Len(apps) = Len(byScore) /\ TakenFrom(apps, byScore)
    BY <2>1, <2>11, <2>12, DescendingIsTaken
  <2>14. TakenFrom(apps, s) /\ Len(apps) = Len(s)
    BY <2>11, <2>13, TakenFromTaken
  <2>15. /\ FieldSum(apps, "estimated_share_w") \in Nat
         /\ FieldSum(apps, "estimated_share_w") = FieldSum(s, "estimated_share_w")
    <3>1. \A i \in DOMAIN s : s[i]["estimated_share_w"] \in Nat
      BY <2>9
    <3> QED BY <2>6, <2>14, <3>1, DrawnSum
  <2>16. FieldSum(apps, "estimated_cpu_w") = FieldSum(s, "estimated_cpu_w")
    <3>1. \A i \in DOMAIN s : s[i]["estimated_cpu_w"] \in Nat
      BY <2>9
    <3> QED BY <2>6, <2>14, <3>1, DrawnSum
  <2>17. FieldSum(apps, "estimated_gpu_w") = FieldSum(s, "estimated_gpu_w")
    <3>1. \A i \in DOMAIN s : s[i]["estimated_gpu_w"] \in Nat
      BY <2>9
    <3> QED BY <2>6, <2>14, <3>1, DrawnSum
  <2>18. Len(apps) = Len(e)
    BY <2>6, <2>14
  <2>19. FieldSum(apps, "estimated_share_w") <= base + dynamic
    BY <2>9, <2>15 DEF AllButRounding
  <2> QED BY <1>4, <2>9, <2>13, <2>15, <2>16, <2>17, <2>18, <2>19 DEF AppsFill, apps
<1> QED BY <1>5, <1>6

-----------------------------------------------------------------------------
(* The envelope. *)

LEMMA EnvelopeLine ==
  ASSUME NEW x \in DOMAIN Rows, NEW s, SnapshotOK(s), NEW h, HistoryOK(h), NEW t, NEW interval
  PROVE  EnvelopeFilled(Line(Attribute(Rows[x], s, h, t), interval))
<1> DEFINE row == Rows[x]
           r == Attribute(row, s, h, t)
           total == TotalPower(row)[1]
           b == Baseline(row, h)
           dynamic == IF total = None THEN None ELSE Positive(total - b.watts)
           pools == ComponentPools(row, dynamic)
           apps == SharedApps(s.activities, b.watts, dynamic, pools)
           line == Line(r, interval)
<1>1. RowOK(row)
  BY RowsAssumption DEF RowOK
<1>2. BaselineOK(row, h, b)
  BY <1>1, BaselineType
<1>3. total \in Nat \cup {None}
  BY <1>1, TotalType
<1>4. /\ r.total = total /\ r.baseline = b.watts /\ r.pools = pools /\ r.apps = apps
      /\ r.unattributed = IF total = None THEN None
                          ELSE Positive(total - FieldSum(apps, "estimated_share_w"))
  BY AttributeFields
<1>5. ActivitiesOK(s.activities)
  BY DEF SnapshotOK
<1> HIDE DEF r
<1>6. /\ line.total = r.total /\ line.baseline = r.baseline /\ line.pools = r.pools
      /\ line.unattributed = r.unattributed
      /\ line.apps = [i \in DOMAIN r.apps |-> [k \in Energies \cup {"key"} |-> r.apps[i][k]]]
  BY DEF Line
<1> HIDE DEF line
<1>7. CASE total = None
  BY <1>4, <1>6, <1>7 DEF EnvelopeFilled, line, r
<1>8. CASE total # None
  <2> DEFINE w == b.watts
             d == dynamic
             given == FieldSum(apps, "estimated_share_w")
  <2>1. total \in Nat /\ w \in 0 .. total
    BY <1>2, <1>3, <1>8 DEF BaselineOK
  <2>2. total - w \in Nat /\ total - w # None
    <3>1. total - w \in Nat
      BY <2>1
    <3> DEFINE v == total - w
    <3> HIDE DEF v
    <3>2. v \in Nat
      BY <3>1 DEF v
    <3>3. v # None
      BY ONLY <3>2, DistinctMarks
    <3> QED BY <3>1, <3>3 DEF v
  <2>3. d = total - w
    BY <1>8, <2>2 DEF Positive
  <2> HIDE DEF w, total
  <2>4. d \in Nat /\ w + d = total
    BY <2>1, <2>2, <2>3
  <2> HIDE DEF d
  <2>5. PoolsOK(ComponentPools(row, d), d)
    BY <1>1, <2>4, PoolsFill
  <2> DEFINE p == ComponentPools(row, d)
             a == SharedApps(s.activities, w, d, p)
  <2> HIDE DEF p
  <2>6. w \in Nat /\ PoolsOK(p, d)
    BY <2>1, <2>5 DEF p
  <2>7. AppsFill(a, w, d, p)
    BY <1>5, <2>4, <2>6, SharedAppsFill
  <2>8. pools = p /\ apps = a
    BY DEF p, d, w
  <2> HIDE DEF a, pools, apps
  <2>9. /\ IsSeq(a) /\ Len(a) \in Nat /\ given \in Nat /\ given <= total
        /\ Len(a) > 0 =>
             /\ AllButRounding(given, total, 4 * Len(a))
             /\ AllButRounding(FieldSum(a, "estimated_cpu_w"), p.cpu, Len(a))
             /\ AllButRounding(FieldSum(a, "estimated_gpu_w"), p.gpu, Len(a))
    BY <2>4, <2>7, <2>8 DEF AppsFill
  <2>10. line.total = total /\ line.baseline = w /\ line.pools = p
    BY <1>4, <1>6, <2>8 DEF w
  <2>11. line.unattributed = total - given
    <3>1. line.unattributed = Positive(total - given)
      BY <1>4, <1>6, <1>8, <2>8
    <3> HIDE DEF given
    <3>2. total - given \in Nat
      BY <2>1, <2>9
    <3> DEFINE v == total - given
    <3> HIDE DEF v
    <3>3. v \in Nat
      BY <3>2 DEF v
    <3>4. v # None
      BY ONLY <3>3, DistinctMarks
    <3>5. Positive(v) = v
      BY <3>3, <3>4 DEF Positive
    <3> QED BY <3>1, <3>5 DEF v
  <2>12. /\ Len(line.apps) = Len(a)
         /\ Shared(line, "estimated_share_w") = given
         /\ Shared(line, "estimated_cpu_w") = FieldSum(a, "estimated_cpu_w")
         /\ Shared(line, "estimated_gpu_w") = FieldSum(a, "estimated_gpu_w")
    <3> DEFINE kept(i) == [k \in Energies \cup {"key"} |-> a[i][k]]
               l == [i \in DOMAIN a |-> kept(i)]
    <3>1. line.apps = l
      BY <1>4, <1>6, <2>8
    <3>2. DOMAIN a = 1 .. Len(a)
      BY <2>9, SeqDomain
    <3>3. l = [i \in 1 .. Len(a) |-> l[i]] /\ DOMAIN l = DOMAIN a
      BY <3>2
    <3>4. \A k \in Energies : \A i \in DOMAIN a : l[i][k] = a[i][k]
      OBVIOUS
    <3> HIDE DEF l
    <3>5. IsSeq(l) /\ Len(l) = Len(a)
      BY <2>9, <3>3, FunctionSeq
    <3>6. ASSUME NEW k \in Energies PROVE Shared(line, k) = FieldSum(a, k)
      <4>1. [i \in DOMAIN l |-> l[i][k]] = [i \in DOMAIN a |-> a[i][k]]
        BY <3>3, <3>4
      <4> QED BY <3>1, <4>1 DEF Shared, FieldSum
    <3>7. {"estimated_share_w", "estimated_cpu_w", "estimated_gpu_w"} \subseteq Energies
      BY DEF Energies
    <3>8. Shared(line, "estimated_share_w") = FieldSum(a, "estimated_share_w")
      BY <3>6, <3>7
    <3> QED BY <2>8, <3>1, <3>5, <3>6, <3>7, <3>8
  <2>13. p.cpu \in Nat /\ p.gpu \in Nat /\ p.residual \in Nat /\ p.cpu + p.gpu + p.residual = d
    BY <2>6 DEF PoolsOK
  <2>14. w + p.cpu + p.gpu + p.residual = total
    BY <2>4, <2>6, <2>13
  <2>15. \A k \in {"cpu", "gpu", "residual"} : p[k] >= 0
    BY <2>13
  <2> HIDE DEF given
  <2>16. EnvelopeFilled(line)
    <3> SUFFICES /\ line.baseline + line.pools.cpu + line.pools.gpu + line.pools.residual = line.total
                 /\ line.baseline >= 0 /\ \A k \in {"cpu", "gpu", "residual"} : line.pools[k] >= 0
                 /\ Len(line.apps) > 0 =>
                      /\ AllButRounding(Shared(line, "estimated_share_w"), line.total, 4 * Len(line.apps))
                      /\ AllButRounding(Shared(line, "estimated_cpu_w"), line.pools.cpu, Len(line.apps))
                      /\ AllButRounding(Shared(line, "estimated_gpu_w"), line.pools.gpu, Len(line.apps))
                 /\ line.unattributed = line.total - Shared(line, "estimated_share_w")
      BY DEF EnvelopeFilled
    <3>1. line.baseline + line.pools.cpu + line.pools.gpu + line.pools.residual = line.total
      BY <2>10, <2>14
    <3>2. line.baseline >= 0 /\ \A k \in {"cpu", "gpu", "residual"} : line.pools[k] >= 0
      BY <2>6, <2>10, <2>15
    <3>3. Len(line.apps) > 0 =>
            /\ AllButRounding(Shared(line, "estimated_share_w"), line.total, 4 * Len(line.apps))
            /\ AllButRounding(Shared(line, "estimated_cpu_w"), line.pools.cpu, Len(line.apps))
            /\ AllButRounding(Shared(line, "estimated_gpu_w"), line.pools.gpu, Len(line.apps))
      BY <2>9, <2>10, <2>12
    <3>4. line.unattributed = line.total - Shared(line, "estimated_share_w")
      BY <2>10, <2>11, <2>12
    <3> QED BY <3>1, <3>2, <3>3, <3>4
  <2> QED BY <2>16 DEF line, r
<1> QED BY <1>7, <1>8

EnvelopeInv == \A i \in DOMAIN Lines(log) : EnvelopeFilled(Lines(log)[i])

LEMMA EnvelopeInvariant == Spec => []EnvelopeInv
<1>1. Init => EnvelopeInv
  <2> SUFFICES ASSUME Init PROVE EnvelopeInv
    OBVIOUS
  <2>1. log.jsonl = <<>> /\ log.buffer = <<>>
    BY DEF Init, EmptyLog
  <2>2. Lines(log) = <<>> /\ DOMAIN <<>> = {}
    BY <2>1, EmptySeqIs, ConcatSeq DEF Lines
  <2> QED BY <2>2 DEF EnvelopeInv
<1>2. IInv /\ WorkInv /\ EarnedInv /\ EnvelopeInv /\ [Next]_vars => EnvelopeInv'
  <2> SUFFICES ASSUME IInv, WorkInv, EarnedInv, EnvelopeInv, [Next]_vars PROVE EnvelopeInv'
    OBVIOUS
  <2> DEFINE L == Lines(log)
             M == Lines(log')
  <2>1. (\A i \in DOMAIN L : EnvelopeFilled(L[i])) /\ IsSeq(L)
    BY WrittenLines DEF IInv, LogGood, EnvelopeInv
  <2>2. SnapshotOK(worker.snapshot) /\ HistoryOK(history)
    BY DEF WorkInv, EarnedInv
  <2>3. M = L \/ \E line : EnvelopeFilled(line) /\ M = Append(L, line)
    BY <2>2, LinesStep, EnvelopeLine DEF Attributed, Result
  <2> HIDE DEF L, M
  <2>4. ASSUME NEW line, EnvelopeFilled(line), M = Append(L, line) PROVE \A i \in DOMAIN M : EnvelopeFilled(M[i])
    <3>1. /\ IsSeq(M) /\ Len(L) \in Nat /\ Len(M) = Len(L) + 1 /\ \A i \in 1 .. Len(L) : M[i] = L[i]
          /\ M[Len(L) + 1] = line
      BY <2>1, <2>4, AppendSeq
    <3>2. DOMAIN M = 1 .. Len(L) + 1 /\ DOMAIN L = 1 .. Len(L)
      BY <2>1, <3>1, SeqDomain
    <3> QED BY <2>1, <2>4, <3>1, <3>2
  <2>5. \A i \in DOMAIN M : EnvelopeFilled(M[i])
    BY <2>1, <2>3, <2>4
  <2> QED BY <2>5 DEF EnvelopeInv, M
<1> QED BY <1>1, <1>2, LogInvariant, WorkInvariant, EarnedInvariant, PTL DEF Spec

\* Whatever total, baseline and components a row has, and whatever sample is
\* published when it comes: the baseline and the pools are the total, and the
\* shares of the applications are never more than the total and never less by
\* more than what rounding down takes; the rest is unattributed (attribute,
\* _component_pools).
THEOREM EnvelopeFills == Spec => []EnvelopeIsFilled
<1>1. IInv /\ EnvelopeInv => EnvelopeIsFilled
  BY WrittenLines DEF IInv, LogGood, EnvelopeInv, EnvelopeIsFilled
<1> QED BY <1>1, LogInvariant, EnvelopeInvariant, PTL
=============================================================================
