--------------------------- MODULE PowerWatchProofs ---------------------------
(***************************************************************************)
(* Proofs about PowerWatch for every value of its constants: whatever the  *)
(* machine answers, what the monitor's events and rows say of each other,  *)
(* and the types and bounds of its state.                                  *)
(***************************************************************************)
EXTENDS PowerWatch, SequenceFacts

-----------------------------------------------------------------------------
(* The files. *)

\* The events and the rows of a log, those in its buffers included.
Ev(l) == l.events \o l.buffer
Wr(l) == l.csv \o l.csvBuffer

LogOK(l) ==
  /\ DOMAIN l = {"csv", "csvBuffer", "events", "buffer", "event_count", "sample_count", "debug"}
  /\ IsSeq(l.events) /\ IsSeq(l.buffer) /\ IsSeq(l.csv) /\ IsSeq(l.csvBuffer)

\* Both files are sequences of lines.
LEMMA FilesAreSeqs ==
  ASSUME NEW l, LogOK(l)
  PROVE  IsSeq(Ev(l)) /\ IsSeq(Wr(l))
BY ConcatSeq DEF LogOK, Ev, Wr

\* Writing an event adds it at the end, whether or not it can be flushed.
LEMMA WriteEventAdds ==
  ASSUME NEW l, LogOK(l), NEW e, NEW flushes
  PROVE  /\ LogOK(WriteEvent(l, e, flushes))
         /\ Ev(WriteEvent(l, e, flushes)) = Append(Ev(l), e)
         /\ Wr(WriteEvent(l, e, flushes)) = Wr(l)
<1> DEFINE w == WriteEvent(l, e, flushes)
<1>1. /\ DOMAIN w = DOMAIN l /\ w.csv = l.csv /\ w.csvBuffer = l.csvBuffer
      /\ \/ w.events = l.events \o l.buffer \o <<e>> /\ w.buffer = <<>>
         \/ w.events = l.events /\ w.buffer = Append(l.buffer, e)
  BY DEF WriteEvent, LogOK
<1> HIDE DEF w
<1>2. IsSeq(<<>>) /\ IsSeq(<<e>>)
  BY ShortSeq
<1>3. CASE w.events = l.events \o l.buffer \o <<e>> /\ w.buffer = <<>>
  <2>1. IsSeq(l.events \o l.buffer) /\ IsSeq(l.events \o l.buffer \o <<e>>)
    BY <1>2, ConcatSeq DEF LogOK
  <2>2. (l.events \o l.buffer \o <<e>>) \o <<>> = l.events \o l.buffer \o <<e>>
    BY <2>1, <1>2, ConcatSeq
  <2>3. Append(l.events \o l.buffer, e) = l.events \o l.buffer \o <<e>>
    BY <2>1, AppendSeq
  <2> QED BY <1>1, <1>2, <1>3, <2>1, <2>2, <2>3 DEF LogOK, Ev, Wr, w
<1>4. CASE w.events = l.events /\ w.buffer = Append(l.buffer, e)
  <2>1. IsSeq(l.events) /\ IsSeq(l.buffer)
    BY DEF LogOK
  <2>2. IsSeq(Append(l.buffer, e))
    BY <2>1, AppendSeq
  <2>3. l.events \o Append(l.buffer, e) = Append(l.events \o l.buffer, e)
    <3> DEFINE a == l.events
               b == l.buffer
    <3>1. IsSeq(a) /\ IsSeq(b)
      BY <2>1
    <3> HIDE DEF a, b
    <3>2. a \o Append(b, e) = Append(a \o b, e)
      BY <3>1, AppendToSecond
    <3> QED BY <3>2 DEF a, b
  <2>4. LogOK(w)
    BY <1>1, <1>4, <2>1, <2>2 DEF LogOK
  <2>5. Ev(w) = Append(Ev(l), e) /\ Wr(w) = Wr(l)
    BY <1>1, <1>4, <2>3 DEF Ev, Wr
  <2> QED BY <2>4, <2>5 DEF w
<1> QED BY <1>1, <1>3, <1>4

\* Writing the events of an iteration adds them in their order, also where
\* the last of them cannot be flushed.
LEMMA WriteEventsAdd ==
  ASSUME NEW l, LogOK(l), NEW d, IsSeq(d.out), d.failed => d.out # <<>>
  PROVE  /\ LogOK(WriteEvents(l, d))
         /\ Ev(WriteEvents(l, d)) = Ev(l) \o d.out
         /\ Wr(WriteEvents(l, d)) = Wr(l)
<1> DEFINE good == Len(d.out) - (IF d.failed THEN 1 ELSE 0)
           done == SubSeq(d.out, 1, good)
           held == SubSeq(d.out, good + 1, Len(d.out))
           w    == WriteEvents(l, d)
<1>1. /\ DOMAIN w = DOMAIN l /\ w.csv = l.csv /\ w.csvBuffer = l.csvBuffer
      /\ IF good = 0 THEN w.events = l.events /\ w.buffer = l.buffer \o held
         ELSE w.events = l.events \o l.buffer \o done /\ w.buffer = held
  BY DEF WriteEvents, LogOK
<1>2. good \in 0 .. Len(d.out) /\ Len(d.out) \in Nat
  <2>1. Len(d.out) \in Nat
    BY SeqDomain
  <2>2. d.failed => Len(d.out) # 0
    BY EmptySeq DEF IsSeq
  <2>3. CASE d.failed
    BY <2>1, <2>2, <2>3
  <2>4. CASE ~d.failed
    BY <2>1, <2>4
  <2> QED BY <2>3, <2>4
<1>3. IsSeq(done) /\ IsSeq(held) /\ done \o held = d.out
  BY <1>2, SplitSeq
<1>4. good = 0 => done = <<>>
  <2>1. d.out \in Seq(Range(d.out))
    BY DEF IsSeq
  <2>2. SubSeq(d.out, 1, 0) = <<>>
    BY <2>1, SubSeqEmpty
  <2> QED BY <2>2
<1> HIDE DEF good, done, held, w
<1>5. IsSeq(l.events) /\ IsSeq(l.buffer) /\ IsSeq(l.events \o l.buffer)
  BY ConcatSeq DEF LogOK
<1>6. CASE good = 0
  <2>1. held = d.out
    BY <1>3, <1>4, <1>6, ConcatSeq
  <2>2. IsSeq(l.buffer \o held) /\ l.events \o (l.buffer \o held) = (l.events \o l.buffer) \o held
    <3> DEFINE a == l.events
               b == l.buffer
    <3>1. IsSeq(a) /\ IsSeq(b) /\ IsSeq(held)
      BY <1>3, <1>5
    <3> HIDE DEF a, b
    <3>2. IsSeq(b \o held)
      BY <3>1, ConcatSeq
    <3>3. (a \o b) \o held = a \o (b \o held)
      BY <3>1, ConcatThree
    <3> QED BY <3>2, <3>3 DEF a, b
  <2>3. LogOK(w)
    BY <1>1, <1>5, <1>6, <2>2 DEF LogOK
  <2>4. Ev(w) = Ev(l) \o d.out /\ Wr(w) = Wr(l)
    BY <1>1, <1>6, <2>1, <2>2 DEF Ev, Wr
  <2> QED BY <2>3, <2>4 DEF w
<1>7. CASE good # 0
  <2>1. IsSeq((l.events \o l.buffer) \o done)
    BY <1>3, <1>5, ConcatSeq
  <2>2. ((l.events \o l.buffer) \o done) \o held = (l.events \o l.buffer) \o (done \o held)
    <3> DEFINE a == l.events \o l.buffer
    <3>1. IsSeq(a) /\ IsSeq(done) /\ IsSeq(held)
      BY <1>3, <1>5
    <3> HIDE DEF a
    <3>2. (a \o done) \o held = a \o (done \o held)
      BY <3>1, ConcatThree, SMTT(40)
    <3> QED BY <3>2 DEF a
  <2>3. LogOK(w)
    BY <1>1, <1>3, <1>5, <1>7, <2>1 DEF LogOK
  <2>4. Ev(w) = Ev(l) \o d.out /\ Wr(w) = Wr(l)
    BY <1>1, <1>3, <1>7, <2>2 DEF Ev, Wr
  <2> QED BY <2>3, <2>4 DEF w
<1> QED BY <1>6, <1>7

\* Writing a row adds it at the end of the CSV.
LEMMA WriteCsvAdds ==
  ASSUME NEW l, LogOK(l), NEW line, NEW flushes
  PROVE  /\ LogOK(WriteCsv(l, line, flushes))
         /\ Wr(WriteCsv(l, line, flushes)) = Append(Wr(l), line)
         /\ Ev(WriteCsv(l, line, flushes)) = Ev(l)
<1> DEFINE w == WriteCsv(l, line, flushes)
<1>1. /\ DOMAIN w = DOMAIN l /\ w.events = l.events /\ w.buffer = l.buffer
      /\ \/ w.csv = l.csv \o l.csvBuffer \o <<line>> /\ w.csvBuffer = <<>>
         \/ w.csv = l.csv /\ w.csvBuffer = Append(l.csvBuffer, line)
  BY DEF WriteCsv, LogOK
<1> HIDE DEF w
<1>2. IsSeq(<<>>) /\ IsSeq(<<line>>)
  BY ShortSeq
<1>3. CASE w.csv = l.csv \o l.csvBuffer \o <<line>> /\ w.csvBuffer = <<>>
  <2>1. IsSeq(l.csv \o l.csvBuffer) /\ IsSeq(l.csv \o l.csvBuffer \o <<line>>)
    BY <1>2, ConcatSeq DEF LogOK
  <2>2. (l.csv \o l.csvBuffer \o <<line>>) \o <<>> = l.csv \o l.csvBuffer \o <<line>>
    BY <2>1, <1>2, ConcatSeq
  <2>3. Append(l.csv \o l.csvBuffer, line) = l.csv \o l.csvBuffer \o <<line>>
    BY <2>1, AppendSeq
  <2> QED BY <1>1, <1>2, <1>3, <2>1, <2>2, <2>3 DEF LogOK, Ev, Wr, w
<1>4. CASE w.csv = l.csv /\ w.csvBuffer = Append(l.csvBuffer, line)
  <2>1. IsSeq(l.csv) /\ IsSeq(l.csvBuffer)
    BY DEF LogOK
  <2>2. IsSeq(Append(l.csvBuffer, line))
    BY <2>1, AppendSeq
  <2>3. l.csv \o Append(l.csvBuffer, line) = Append(l.csv \o l.csvBuffer, line)
    <3> DEFINE a == l.csv
               b == l.csvBuffer
    <3>1. IsSeq(a) /\ IsSeq(b)
      BY <2>1
    <3> HIDE DEF a, b
    <3>2. a \o Append(b, line) = Append(a \o b, line)
      BY <3>1, AppendToSecond
    <3> QED BY <3>2 DEF a, b
  <2>4. LogOK(w)
    BY <1>1, <1>4, <2>1, <2>2 DEF LogOK
  <2>5. Wr(w) = Append(Wr(l), line) /\ Ev(w) = Ev(l)
    BY <1>1, <1>4, <2>3 DEF Ev, Wr
  <2> QED BY <2>4, <2>5 DEF w
<1> QED BY <1>1, <1>3, <1>4

\* The debug file and the closing of the files change no line.
LEMMA DebugAddsNothing ==
  ASSUME NEW l, LogOK(l), NEW succeeds
  PROVE  /\ LogOK(MaybeWriteDebug(l, succeeds))
         /\ Ev(MaybeWriteDebug(l, succeeds)) = Ev(l) /\ Wr(MaybeWriteDebug(l, succeeds)) = Wr(l)
<1> DEFINE w == MaybeWriteDebug(l, succeeds)
<1>1. /\ DOMAIN w = DOMAIN l /\ w.events = l.events /\ w.buffer = l.buffer
      /\ w.csv = l.csv /\ w.csvBuffer = l.csvBuffer
  BY DEF MaybeWriteDebug, LogOK
<1> HIDE DEF w
<1> QED BY <1>1 DEF LogOK, Ev, Wr, w

LEMMA CloseAddsNothing ==
  ASSUME NEW l, LogOK(l), NEW flushes
  PROVE  /\ LogOK(CloseLog(l, flushes))
         /\ Ev(CloseLog(l, flushes)) = Ev(l) /\ Wr(CloseLog(l, flushes)) = Wr(l)
<1> DEFINE w == CloseLog(l, flushes)
<1>1. /\ DOMAIN w = DOMAIN l
      /\ \/ w = l
         \/ /\ w.events = l.events \o l.buffer /\ w.buffer = <<>>
            /\ w.csv = l.csv \o l.csvBuffer /\ w.csvBuffer = <<>>
  BY DEF CloseLog, LogOK
<1> HIDE DEF w
<1>2. /\ IsSeq(<<>>) /\ IsSeq(l.events \o l.buffer) /\ IsSeq(l.csv \o l.csvBuffer)
      /\ (l.events \o l.buffer) \o <<>> = l.events \o l.buffer
      /\ (l.csv \o l.csvBuffer) \o <<>> = l.csv \o l.csvBuffer
  BY ShortSeq, ConcatSeq DEF LogOK
<1> QED BY <1>1, <1>2 DEF LogOK, Ev, Wr, w

-----------------------------------------------------------------------------
(* What the events and the rows say of each other, and of the detector.    *)

SourceTypes == {"ac_unplugged", "ac_plugged_in", "power_source_changed"}
LoadTypes == {"load_started_detected", "load_stopped_detected"}
DrainType == "warning_ac_connected_but_battery_discharging"

(* The load events take turns, and load says whether one goes on.          *)
Alternates(E, load) ==
  /\ \A j \in 1..Len(E) :
       /\ E[j].type = "load_started_detected" => ~LoadGoesOn(E, j)
       /\ E[j].type = "load_stopped_detected" => LoadGoesOn(E, j)
  /\ load <=> LoadGoesOn(E, Len(E) + 1)

(* The j-th event announces the source after time t.                       *)
Announces(E, j, source, t) == E[j].type \in SourceTypes /\ E[j].source = source /\ t < E[j].at

(* A change between two rows has its event, and so has one between the     *)
(* last row and the source the detector remembers.                         *)
Announced(E, W, prev) ==
  /\ \A i \in 1..Len(W) - 1 :
       W[i].power_source # W[i + 1].power_source =>
         \E j \in 1..Len(E) : /\ Announces(E, j, W[i + 1].power_source, W[i].at)
                              /\ E[j].at <= W[i + 1].at
  /\ prev = <<>> => Len(W) = 0
  /\ Len(W) # 0 =>
       \/ prev[1] = W[Len(W)].power_source
       \/ \E j \in 1..Len(E) : Announces(E, j, prev[1], W[Len(W)].at)

(* Every row since the detector began to wait shows a battery that drains, *)
(* and so does every row of the eight seconds before a warning.            *)
Sustained(E, W, since) ==
  /\ since # None => since \in Nat /\ \A k \in 1..Len(W) : W[k].at >= since => DrainsOnAC(W[k])
  /\ \A i \in 1..Len(E), k \in 1..Len(W) :
       E[i].type = DrainType /\ W[k].at \in (E[i].at - 8)..E[i].at => DrainsOnAC(W[k])

(* Nothing written is later than n.                                        *)
Dated(E, W, n) ==
  /\ n \in Nat
  /\ \A j \in 1..Len(E) : E[j].at \in Nat /\ E[j].at <= n
  /\ \A k \in 1..Len(W) : W[k].at \in Nat /\ W[k].at <= n

Good(E, W, prev, load, since, n) ==
  /\ IsSeq(E) /\ IsSeq(W) /\ Dated(E, W, n)
  /\ load \in BOOLEAN /\ Alternates(E, load)
  /\ Announced(E, W, prev) /\ Sustained(E, W, since)
  /\ prev = <<>> => since = None

\* The j-th event sees only those before it.
LEMMA LoadSeen ==
  ASSUME NEW E, NEW F, NEW j \in Nat, \A i \in 1..j - 1 : F[i] = E[i]
  PROVE  LoadGoesOn(F, j) <=> LoadGoesOn(E, j)
<1>1. ASSUME NEW i \in 1..j - 1
      PROVE  i + 1..j - 1 \subseteq 1..j - 1
  OBVIOUS
<1> QED BY <1>1 DEF LoadGoesOn

\* A load goes on after a start, not after a stop, and else as before.
LEMMA LoadAfter ==
  ASSUME NEW E, IsSeq(E), NEW e
  PROVE  LET F == Append(E, e)
         IN /\ LoadGoesOn(F, Len(E) + 1) <=> LoadGoesOn(E, Len(E) + 1)
            /\ e.type = "load_started_detected" => LoadGoesOn(F, Len(E) + 2)
            /\ e.type = "load_stopped_detected" => ~LoadGoesOn(F, Len(E) + 2)
            /\ e.type \notin LoadTypes => (LoadGoesOn(F, Len(E) + 2) <=> LoadGoesOn(E, Len(E) + 1))
<1> DEFINE F == Append(E, e)
           n == Len(E)
<1>1. n \in Nat /\ F[n + 1] = e /\ \A i \in 1..n : F[i] = E[i]
  BY AppendSeq
<1> HIDE DEF F, n
<1>2. LoadGoesOn(F, n + 1) <=> LoadGoesOn(E, n + 1)
  BY <1>1, LoadSeen
<1>3. ASSUME e.type = "load_started_detected"
      PROVE  LoadGoesOn(F, n + 2)
  <2>1. n + 1 \in 1..(n + 2) - 1 /\ (n + 1) + 1..(n + 2) - 1 = {}
    BY <1>1
  <2> QED BY <1>1, <1>3, <2>1 DEF LoadGoesOn
<1>4. ASSUME e.type = "load_stopped_detected"
      PROVE  ~LoadGoesOn(F, n + 2)
  <2>1. ASSUME NEW i \in 1..(n + 2) - 1, F[i].type = "load_started_detected"
        PROVE  n + 1 \in i + 1..(n + 2) - 1
    BY <1>1, <1>4, <2>1
  <2> QED BY <1>1, <1>4, <2>1 DEF LoadGoesOn
<1>5. ASSUME e.type \notin LoadTypes
      PROVE  LoadGoesOn(F, n + 2) <=> LoadGoesOn(F, n + 1)
  <2>1. F[n + 1].type # "load_started_detected" /\ F[n + 1].type # "load_stopped_detected"
    BY <1>1, <1>5 DEF LoadTypes
  <2>2. (n + 2) - 1 = n + 1 /\ (n + 1) - 1 = n /\ 1..n + 1 = (1..n) \cup {n + 1}
    BY <1>1
  <2>3. \A i \in 1..n : i + 1..n + 1 = (i + 1..n) \cup {n + 1}
    BY <1>1
  <2> QED BY <2>1, <2>2, <2>3 DEF LoadGoesOn
<1> QED BY <1>2, <1>3, <1>4, <1>5 DEF F, n

\* The alternation goes on with an event that fits: a start where no load
\* goes on, a stop where one does, and any other.
LEMMA LoadAppend ==
  ASSUME NEW E, IsSeq(E), NEW e, NEW old \in BOOLEAN, NEW new \in BOOLEAN, Alternates(E, old),
         \/ e.type = "load_started_detected" /\ ~old /\ new
         \/ e.type = "load_stopped_detected" /\ old /\ ~new
         \/ e.type \notin LoadTypes /\ new = old
  PROVE  Alternates(Append(E, e), new)
<1> DEFINE F == Append(E, e)
           n == Len(E)
<1>1. n \in Nat /\ Len(F) = n + 1 /\ F[n + 1] = e /\ \A i \in 1..n : F[i] = E[i]
  BY AppendSeq
<1>2. /\ LoadGoesOn(F, n + 1) <=> LoadGoesOn(E, n + 1)
      /\ e.type = "load_started_detected" => LoadGoesOn(F, n + 2)
      /\ e.type = "load_stopped_detected" => ~LoadGoesOn(F, n + 2)
      /\ e.type \notin LoadTypes => (LoadGoesOn(F, n + 2) <=> LoadGoesOn(E, n + 1))
  BY LoadAfter
<1>3. /\ \A j \in 1..n : /\ E[j].type = "load_started_detected" => ~LoadGoesOn(E, j)
                         /\ E[j].type = "load_stopped_detected" => LoadGoesOn(E, j)
      /\ old <=> LoadGoesOn(E, n + 1)
  BY DEF Alternates
<1> HIDE DEF F, n
<1>4. ASSUME NEW j \in 1..n
      PROVE  LoadGoesOn(F, j) <=> LoadGoesOn(E, j)
  <2>1. j \in Nat /\ \A i \in 1..j - 1 : F[i] = E[i]
    BY <1>1
  <2> QED BY <2>1, LoadSeen
<1>5. ASSUME NEW j \in 1..n + 1
      PROVE  /\ F[j].type = "load_started_detected" => ~LoadGoesOn(F, j)
             /\ F[j].type = "load_stopped_detected" => LoadGoesOn(F, j)
  <2>1. CASE j \in 1..n
    BY <1>1, <1>3, <1>4, <2>1
  <2>2. CASE j = n + 1
    BY <1>1, <1>2, <1>3, <2>2 DEF LoadTypes
  <2> QED BY <1>1, <2>1, <2>2
<1>6. new <=> LoadGoesOn(F, n + 2)
  BY <1>2, <1>3 DEF LoadTypes
<1>7. Len(F) = n + 1 /\ Len(F) + 1 = n + 2
  BY <1>1
<1> QED BY <1>5, <1>6, <1>7 DEF Alternates, F

\* What is good at n is good later on.
LEMMA GoodLater ==
  ASSUME NEW E, NEW W, NEW prev, NEW load, NEW since, NEW n, NEW m \in Nat,
         Good(E, W, prev, load, since, n), n <= m
  PROVE  Good(E, W, prev, load, since, m)
BY SeqDomain DEF Good, Dated

\* The events of the monitor itself say nothing of rows or loads.
LEMMA GoodOther ==
  ASSUME NEW E, NEW W, NEW prev, NEW load, NEW since, NEW n, NEW e,
         Good(E, W, prev, load, since, n), e.at = n, e.type \notin LoadTypes \cup {DrainType}
  PROVE  Good(Append(E, e), W, prev, load, since, n)
<1> DEFINE F == Append(E, e)
<1>1. IsSeq(E) /\ load \in BOOLEAN /\ Alternates(E, load)
  BY DEF Good
<1>2. /\ IsSeq(F) /\ Len(E) \in Nat /\ Len(F) = Len(E) + 1
      /\ F[Len(E) + 1] = e /\ \A i \in 1..Len(E) : F[i] = E[i]
  <2>1. IsSeq(F) /\ Len(E) \in Nat /\ Len(F) = Len(E) + 1
    BY ONLY <1>1, AppendSeq
  <2>2. F[Len(E) + 1] = e /\ \A i \in 1..Len(E) : F[i] = E[i]
    BY ONLY <1>1, AppendSeq
  <2> QED BY <2>1, <2>2
<1>3. Alternates(F, load)
  BY <1>1, LoadAppend DEF LoadTypes
<1> HIDE DEF F
<1>4. Dated(F, W, n)
  BY <1>2 DEF Good, Dated
<1>5. Announced(F, W, prev)
  <2>1. \A j \in 1..Len(E) : j \in 1..Len(F) /\ F[j] = E[j]
    BY <1>2
  <2>2. Announced(E, W, prev)
    BY DEF Good
  <2> QED BY <2>1, <2>2 DEF Announced, Announces
<1>6. Sustained(F, W, since)
  <2>1. \A i \in 1..Len(F) : (i \in 1..Len(E) /\ F[i] = E[i]) \/ F[i] = e
    BY <1>2
  <2>2. Sustained(E, W, since)
    BY DEF Good
  <2>3. e.type # DrainType
    OBVIOUS
  <2> QED BY <2>1, <2>2, <2>3 DEF Sustained
<1> QED BY <1>2, <1>3, <1>4, <1>5, <1>6 DEF Good, F

(* What one iteration's row and events at t do, where the detector         *)
(* remembered prev and since before it.                                    *)
Chunk(E, out, prev, since, prev2, load2, since2, row, t) ==
  /\ IsSeq(out) /\ load2 \in BOOLEAN /\ Alternates(E \o out, load2)
  /\ \A j \in 1..Len(out) :
       /\ out[j].at = t /\ out[j].source = row.power_source
       /\ out[j].type = DrainType => DrainsOnAC(row) /\ since # None /\ t - since >= 8
  /\ prev2 \in {prev, <<row.power_source>>}
  /\ prev # <<>> /\ row.power_source # prev[1] => \E j \in 1..Len(out) : out[j].type \in SourceTypes
  /\ since2 \in {None, since, t}
  /\ prev = <<>> => since2 = since

\* An iteration that leaves no row.
LEMMA GoodChunk ==
  ASSUME NEW E, NEW W, NEW prev, NEW load, NEW since, NEW n, Good(E, W, prev, load, since, n),
         NEW t \in Nat, n < t, NEW out, NEW prev2, NEW load2, NEW since2, NEW row,
         Chunk(E, out, prev, since, prev2, load2, since2, row, t)
  PROVE  Good(E \o out, W, prev2, load2, since2, t)
<1> DEFINE F == E \o out
           m == Len(E)
<1>1. IsSeq(E) /\ IsSeq(W) /\ IsSeq(out) /\ Len(W) \in Nat
  BY SeqDomain DEF Good, Chunk
<1>2. IsSeq(F) /\ m \in Nat /\ Len(out) \in Nat /\ Len(F) = m + Len(out)
  BY <1>1, ConcatSeq
<1>3. /\ \A i \in 1..m : F[i] = E[i]
      /\ \A i \in 1..Len(out) : F[m + i] = out[i]
  BY <1>1, ConcatSeq
<1>4. load2 \in BOOLEAN /\ Alternates(F, load2)
  BY DEF Chunk
<1> HIDE DEF F
<1>5. \A i \in 1..m : i \in 1..Len(F)
  BY <1>2
<1>6. \A i \in 1..Len(out) : m + i \in 1..Len(F)
  BY <1>2
<1>7. ASSUME NEW i \in 1..Len(F), i \notin 1..m
      PROVE  i - m \in 1..Len(out) /\ F[i] = out[i - m]
  <2>1. i - m \in 1..Len(out) /\ m + (i - m) = i
    BY <1>2, <1>7
  <2> QED BY <1>3, <2>1
<1> HIDE DEF m
<1>8. Dated(E, W, n) /\ Announced(E, W, prev) /\ Sustained(E, W, since)
  BY DEF Good
<1>9. Dated(F, W, t)
  <2>1. ASSUME NEW j \in 1..Len(F)
        PROVE  F[j].at \in Nat /\ F[j].at <= t
    <3>1. CASE j \in 1..m
      BY <1>3, <1>8, <3>1 DEF Dated, m
    <3>2. CASE j \notin 1..m
      BY <1>7, <3>2 DEF Chunk
    <3> QED BY <3>1, <3>2
  <2>2. \A k \in 1..Len(W) : W[k].at \in Nat /\ W[k].at <= t
    BY <1>8 DEF Dated
  <2> QED BY <2>1, <2>2 DEF Dated
<1>10. \A j \in 1..m : \A s, u : Announces(E, j, s, u) => Announces(F, j, s, u) /\ F[j].at = E[j].at
  BY <1>3 DEF Announces
<1>11. Announced(F, W, prev2)
  <2>1. ASSUME NEW i \in 1..Len(W) - 1, W[i].power_source # W[i + 1].power_source
        PROVE  \E j \in 1..Len(F) : /\ Announces(F, j, W[i + 1].power_source, W[i].at)
                                    /\ F[j].at <= W[i + 1].at
    <3>1. PICK j \in 1..m : Announces(E, j, W[i + 1].power_source, W[i].at) /\ E[j].at <= W[i + 1].at
      BY <1>8, <2>1 DEF Announced, m
    <3> QED BY <1>5, <1>10, <3>1
  <2>2. prev2 = <<>> => Len(W) = 0
    <3>1. <<row.power_source>> # <<>>
      OBVIOUS
    <3> QED BY <1>8, <3>1 DEF Chunk, Announced
  <2>3. ASSUME Len(W) # 0
        PROVE  \/ prev2[1] = W[Len(W)].power_source
               \/ \E j \in 1..Len(F) : Announces(F, j, prev2[1], W[Len(W)].at)
    <3>1. CASE prev2[1] = prev[1]
      <4>1. CASE prev[1] = W[Len(W)].power_source
        BY <3>1, <4>1
      <4>2. CASE \E j \in 1..m : Announces(E, j, prev[1], W[Len(W)].at)
        BY <1>5, <1>10, <3>1, <4>2
      <4> QED BY <1>8, <2>3, <4>1, <4>2 DEF Announced, m
    <3>2. CASE prev2[1] # prev[1]
      <4>1. prev # <<>>
        BY <1>8, <2>3 DEF Announced
      <4>2. prev2 = <<row.power_source>> /\ prev2[1] = row.power_source
        BY <3>2 DEF Chunk
      <4>3. PICK j \in 1..Len(out) : out[j].type \in SourceTypes
        BY <3>2, <4>1, <4>2 DEF Chunk
      <4>4. out[j].at = t /\ out[j].source = row.power_source
        BY DEF Chunk
      <4>5. W[Len(W)].at \in Nat /\ W[Len(W)].at <= n
        BY <1>1, <1>8, <2>3 DEF Dated
      <4>6. W[Len(W)].at < t
        BY <1>8, <4>5 DEF Dated
      <4>7. Announces(F, m + j, prev2[1], W[Len(W)].at)
        BY <1>3, <4>2, <4>3, <4>4, <4>6 DEF Announces
      <4> QED BY <1>6, <4>7
    <3> QED BY <3>1, <3>2
  <2> QED BY <2>1, <2>2, <2>3 DEF Announced
<1>12. Sustained(F, W, since2)
  <2>1. \A k \in 1..Len(W) : W[k].at \in Nat /\ W[k].at < t
    BY <1>8 DEF Dated
  <2>2. since # None => since \in Nat /\ \A k \in 1..Len(W) : W[k].at >= since => DrainsOnAC(W[k])
    BY <1>8 DEF Sustained
  <2>3. since2 # None => since2 \in Nat /\ \A k \in 1..Len(W) : W[k].at >= since2 => DrainsOnAC(W[k])
    <3>1. CASE since2 = t
      BY <2>1, <3>1
    <3>2. CASE since2 # t
      BY <2>2, <3>2 DEF Chunk
    <3> QED BY <3>1, <3>2
  <2>4. ASSUME NEW i \in 1..Len(F), NEW k \in 1..Len(W),
               F[i].type = DrainType, W[k].at \in (F[i].at - 8)..F[i].at
        PROVE  DrainsOnAC(W[k])
    <3>1. CASE i \in 1..m
      BY <1>3, <1>8, <2>4, <3>1 DEF Sustained, m
    <3>2. CASE i \notin 1..m
      <4>1. F[i].at = t /\ since # None /\ t - since >= 8
        BY <1>7, <2>4, <3>2 DEF Chunk
      <4>2. W[k].at \in Nat /\ W[k].at >= t - 8
        BY <2>1, <2>4, <4>1
      <4>3. since \in Nat
        BY <2>2, <4>1
      <4>4. W[k].at >= since
        BY <4>1, <4>2, <4>3
      <4> QED BY <2>2, <4>1, <4>4
    <3> QED BY <3>1, <3>2
  <2> QED BY <2>3, <2>4 DEF Sustained
<1>13. prev2 = <<>> => since2 = None
  <2>1. <<row.power_source>> # <<>>
    OBVIOUS
  <2> QED BY <2>1 DEF Chunk, Good
<1> QED BY <1>1, <1>2, <1>4, <1>9, <1>11, <1>12, <1>13 DEF Good, F

(* The line of the CSV for the row at t.                                   *)
LineOf(line, row, t) ==
  /\ line.at = t /\ line.power_source = row.power_source
  /\ line.net_battery_watts = row.net_battery_watts

\* A line of the CSV drains as the row it is made of.
LEMMA DrainsAlike ==
  ASSUME NEW row, NEW line, line.power_source = row.power_source,
         line.net_battery_watts = row.net_battery_watts
  PROVE  DrainsOnAC(line) <=> DrainsOnAC(row)
BY DEF DrainsOnAC

\* An iteration that gets to its end leaves its row as well.
LEMMA GoodRow ==
  ASSUME NEW E, NEW W, NEW prev, NEW load, NEW since, NEW n, Good(E, W, prev, load, since, n),
         NEW t \in Nat, n < t, NEW out, NEW prev2, NEW load2, NEW since2, NEW row,
         Chunk(E, out, prev, since, prev2, load2, since2, row, t),
         prev2 = <<row.power_source>>, since2 # None => DrainsOnAC(row),
         NEW line, LineOf(line, row, t)
  PROVE  Good(E \o out, Append(W, line), prev2, load2, since2, t)
<1> DEFINE F == E \o out
           V == Append(W, line)
           m == Len(W)
<1>0. line.at = t /\ line.power_source = row.power_source /\ (DrainsOnAC(line) <=> DrainsOnAC(row))
  BY DrainsAlike DEF LineOf
<1>1. Good(F, W, prev2, load2, since2, t)
  BY GoodChunk
<1>2. IsSeq(W) /\ IsSeq(E) /\ IsSeq(out)
  BY DEF Good, Chunk
<1>3. /\ IsSeq(V) /\ m \in Nat /\ Len(V) = m + 1 /\ V[m + 1] = line
      /\ \A k \in 1..m : V[k] = W[k]
  <2>1. IsSeq(V) /\ m \in Nat /\ Len(V) = m + 1
    BY ONLY <1>2, AppendSeq
  <2>2. V[m + 1] = line /\ \A k \in 1..m : V[k] = W[k]
    BY ONLY <1>2, AppendSeq
  <2> QED BY <2>1, <2>2
<1>4. \A j \in 1..Len(F) : F[j].type = DrainType => F[j].at < t \/ DrainsOnAC(row)
  <2>1. /\ Len(E) \in Nat /\ Len(out) \in Nat /\ Len(F) = Len(E) + Len(out)
        /\ \A i \in 1..Len(E) : F[i] = E[i]
        /\ \A i \in 1..Len(out) : F[Len(E) + i] = out[i]
    BY <1>2, ConcatSeq
  <2>2. ASSUME NEW j \in 1..Len(F), F[j].type = DrainType
        PROVE  F[j].at < t \/ DrainsOnAC(row)
    <3>1. CASE j \in 1..Len(E)
      <4>1. F[j] = E[j] /\ E[j].at \in Nat /\ E[j].at <= n /\ n \in Nat
        BY <2>1, <3>1 DEF Good, Dated
      <4> QED BY <4>1
    <3>2. CASE j \notin 1..Len(E)
      <4>1. j - Len(E) \in 1..Len(out) /\ Len(E) + (j - Len(E)) = j
        BY <2>1, <3>2
      <4>2. F[j] = out[j - Len(E)]
        BY <2>1, <4>1
      <4> QED BY <2>2, <4>1, <4>2 DEF Chunk
    <3> QED BY <3>1, <3>2
  <2> QED BY <2>2
<1> HIDE DEF F, V
<1>5. Dated(F, W, t) /\ Announced(F, W, prev2) /\ Sustained(F, W, since2)
  BY <1>1 DEF Good
<1> HIDE DEF m
<1>6. \A k \in 1..Len(V) : k \in 1..m \/ k = m + 1
  BY <1>3
<1>7. \A k \in 1..Len(V) : V[k].at \in Nat /\ V[k].at <= t
  <2>1. \A k \in 1..m : W[k].at \in Nat /\ W[k].at <= t
    BY <1>5 DEF Dated, m
  <2>2. line.at \in Nat /\ line.at <= t
    BY <1>0
  <2> QED BY <1>3, <1>6, <2>1, <2>2
<1>8. Dated(F, V, t)
  BY <1>5, <1>7 DEF Dated
<1>9. Announced(F, V, prev2)
  <2>1. ASSUME NEW i \in 1..Len(V) - 1, V[i].power_source # V[i + 1].power_source
        PROVE  \E j \in 1..Len(F) : /\ Announces(F, j, V[i + 1].power_source, V[i].at)
                                    /\ F[j].at <= V[i + 1].at
    <3>1. CASE i \in 1..m - 1
      <4>1. V[i] = W[i] /\ V[i + 1] = W[i + 1]
        BY <1>3, <3>1
      <4> QED BY <1>5, <2>1, <3>1, <4>1 DEF Announced, m
    <3>2. CASE i \notin 1..m - 1
      <4>1. i = m /\ m # 0
        BY <1>3, <2>1, <3>2
      <4>2. V[i] = W[m] /\ V[i + 1] = line
        BY <1>3, <4>1
      <4>3. prev2[1] = line.power_source
        BY <1>0
      <4>4. PICK j \in 1..Len(F) : Announces(F, j, prev2[1], W[m].at)
        BY <1>5, <2>1, <4>1, <4>2, <4>3 DEF Announced, m
      <4>5. F[j].at <= t
        BY <1>5 DEF Dated
      <4> QED BY <1>0, <4>2, <4>3, <4>4, <4>5
    <3> QED BY <3>1, <3>2
  <2>2. prev2 # <<>> /\ prev2[1] = V[Len(V)].power_source
    <3>1. <<row.power_source>> # <<>> /\ <<row.power_source>>[1] = row.power_source
      OBVIOUS
    <3> QED BY <1>0, <1>3, <3>1
  <2> QED BY <2>1, <2>2 DEF Announced
<1>10. Sustained(F, V, since2)
  <2>1. DrainsOnAC(line) <=> DrainsOnAC(row)
    BY <1>0
  <2>2. since2 # None => since2 \in Nat /\ \A k \in 1..Len(V) : V[k].at >= since2 => DrainsOnAC(V[k])
    <3>1. since2 # None => since2 \in Nat /\ \A k \in 1..m : W[k].at >= since2 => DrainsOnAC(W[k])
      BY <1>5 DEF Sustained, m
    <3> QED BY <1>3, <1>6, <2>1, <3>1
  <2>3. ASSUME NEW i \in 1..Len(F), NEW k \in 1..Len(V),
               F[i].type = DrainType, V[k].at \in (F[i].at - 8)..F[i].at
        PROVE  DrainsOnAC(V[k])
    <3>1. CASE k \in 1..m
      <4>1. V[k] = W[k]
        BY <1>3, <3>1
      <4> QED BY <1>5, <2>3, <3>1, <4>1 DEF Sustained, m
    <3>2. CASE k = m + 1
      <4>1. V[k] = line
        BY <1>3, <3>2
      <4>2. F[i].at \in Nat /\ ~(F[i].at < t)
        BY <1>0, <1>5, <2>3, <4>1 DEF Dated
      <4> QED BY <1>4, <2>1, <2>3, <4>1, <4>2
    <3> QED BY <1>6, <3>1, <3>2
  <2> QED BY <2>2, <2>3 DEF Sustained
<1> QED BY <1>1, <1>3, <1>8, <1>9, <1>10 DEF Good, F, V

-----------------------------------------------------------------------------
(* The detector, event by event. *)

DetectorFields == {"prev", "auto_phase", "ac_discharging_since", "load_started", "last_event_t",
                   "last_adapter_watts", "last_adapter_name", "out", "failed", "failAt"}

(* The detector d in the middle of the row at t, where prev and since are  *)
(* what it remembered before the row and E the events until then.          *)
Mid(d, E, prev, since, row, t) ==
  /\ DOMAIN d = DetectorFields /\ IsSeq(d.out) /\ d.prev = prev
  /\ d.failAt \in Nat /\ d.failed \in BOOLEAN
  /\ d.failed => d.failAt # 0 /\ Len(d.out) # 0
  /\ d.load_started \in BOOLEAN /\ Alternates(E \o d.out, d.load_started)
  /\ \A j \in 1..Len(d.out) :
       /\ d.out[j].at = t /\ d.out[j].source = row.power_source
       /\ d.out[j].type = DrainType => DrainsOnAC(row) /\ since # None /\ t - since >= 8

(* Between two steps only the events, the failure and what the step sets   *)
(* change, and no event is lost.                                           *)
Longer(d, e) ==
  /\ e.failAt = d.failAt /\ (d.failed => e.failed)
  /\ \A j \in 1..Len(d.out) : j \in 1..Len(e.out) /\ e.out[j] = d.out[j]

(* r is d after the event e, written where failAt is not its turn.         *)
Emitted(d, r, e) ==
  /\ ~d.failed /\ DOMAIN r = DetectorFields /\ r.out = Append(d.out, e)
  /\ r.failed \in BOOLEAN /\ (r.failed <=> Len(d.out) + 1 = d.failAt)
  /\ r.prev = d.prev /\ r.failAt = d.failAt

(* The event e may follow where old says that a load goes on.              *)
Fits(e, old, new, since, row, t) ==
  /\ e.at = t /\ e.source = row.power_source
  /\ e.type = DrainType => DrainsOnAC(row) /\ since # None /\ t - since >= 8
  /\ \/ e.type = "load_started_detected" /\ ~old /\ new
     \/ e.type = "load_stopped_detected" /\ old /\ ~new
     \/ e.type \notin LoadTypes /\ new = old

\* What emitting an event does.
LEMMA EmitCases ==
  ASSUME NEW d, DOMAIN d = DetectorFields, NEW type, NEW row, NEW from, NEW t
  PROVE  LET r == Emit(d, type, row, from, t)
         IN \/ r = d /\ (d.failed \/ type \in DOMAIN Warnings)
            \/ /\ Emitted(d, r, [type |-> type, at |-> t, source |-> row.power_source, from |-> from])
               /\ r.load_started = d.load_started /\ r.ac_discharging_since = d.ac_discharging_since
<1> DEFINE e == [type |-> type, at |-> t, source |-> row.power_source, from |-> from]
           warning == type \in DOMAIN Warnings
           due == d.failed \/ (warning /\ t - d.last_event_t[type] < Warnings[type])
           r == Emit(d, type, row, from, t)
<1>1. CASE due
  <2>1. r = d
    BY <1>1 DEF Emit
  <2> QED BY <1>1, <2>1
<1>2. CASE ~due
  <2> DEFINE times == IF warning THEN [d.last_event_t EXCEPT ![type] = t] ELSE d.last_event_t
  <2>1. r = [d EXCEPT !.last_event_t = times, !.out = Append(d.out, e), !.failed = (Len(d.out) + 1 = d.failAt)]
    BY <1>2 DEF Emit
  <2> HIDE DEF times, e, r
  <2>2. /\ DOMAIN r = DetectorFields /\ r.out = Append(d.out, e)
        /\ r.failed = (Len(d.out) + 1 = d.failAt)
        /\ r.prev = d.prev /\ r.load_started = d.load_started /\ r.failAt = d.failAt
        /\ r.ac_discharging_since = d.ac_discharging_since
    BY <2>1 DEF DetectorFields
  <2>3. r.failed \in BOOLEAN /\ (r.failed <=> Len(d.out) + 1 = d.failAt)
    BY <2>2
  <2> QED BY <1>2, <2>2, <2>3 DEF Emitted, e, r
<1> QED BY <1>1, <1>2

\* Adding an event that fits to the row's events.
LEMMA MidAppend ==
  ASSUME NEW E, IsSeq(E), NEW d, NEW prev, NEW since, NEW row, NEW t, Mid(d, E, prev, since, row, t),
         NEW e, NEW r, Emitted(d, r, e), NEW old \in BOOLEAN, Alternates(E \o d.out, old),
         r.load_started \in BOOLEAN, Fits(e, old, r.load_started, since, row, t)
  PROVE  Mid(r, E, prev, since, row, t) /\ Longer(d, r)
<1> DEFINE out == d.out
           s == r.out
<1>1. IsSeq(out) /\ s = Append(out, e)
  BY DEF Mid, Emitted
<1>2. /\ IsSeq(s) /\ Len(out) \in Nat /\ Len(s) = Len(out) + 1
      /\ s[Len(out) + 1] = e /\ \A j \in 1..Len(out) : s[j] = out[j]
  <2> HIDE DEF out, s
  <2>1. IsSeq(s)
    BY <1>1, AppendSeq
  <2>2. Len(out) \in Nat /\ Len(s) = Len(out) + 1
    BY <1>1, AppendSeq
  <2>3. s[Len(out) + 1] = e
    BY <1>1, AppendSeq
  <2>4. \A j \in 1..Len(out) : s[j] = out[j]
    BY <1>1, AppendSeq
  <2> QED BY <2>1, <2>2, <2>3, <2>4
<1>3. E \o s = Append(E \o out, e) /\ IsSeq(E \o out)
  <2> HIDE DEF out, s
  <2>1. E \o Append(out, e) = Append(E \o out, e)
    BY <1>1, AppendToSecond
  <2>2. IsSeq(E \o out)
    BY <1>1, ConcatSeq
  <2> QED BY <1>1, <2>1, <2>2
<1>4. Alternates(E \o s, r.load_started)
  <2> DEFINE F == E \o out
             new == r.load_started
  <2>1. Alternates(F, old) /\ IsSeq(F)
    BY <1>3
  <2>2. /\ new \in BOOLEAN
        /\ \/ e.type = "load_started_detected" /\ ~old /\ new
           \/ e.type = "load_stopped_detected" /\ old /\ ~new
           \/ e.type \notin LoadTypes /\ new = old
    BY DEF Fits
  <2> HIDE DEF F, new, s, out
  <2>3. Alternates(Append(F, e), new)
    BY <2>1, <2>2, LoadAppend
  <2> QED BY <1>3, <2>3 DEF F, new
<1> HIDE DEF out, s
<1>5. ASSUME NEW j \in 1..Len(s)
      PROVE  /\ s[j].at = t /\ s[j].source = row.power_source
             /\ s[j].type = DrainType => DrainsOnAC(row) /\ since # None /\ t - since >= 8
  <2>1. CASE j \in 1..Len(out)
    BY <1>2, <2>1 DEF Mid, out
  <2>2. CASE j = Len(out) + 1
    BY <1>2, <2>2 DEF Fits
  <2> QED BY <1>2, <2>1, <2>2
<1>6. d.failAt \in Nat /\ d.prev = prev /\ (r.failed => d.failAt # 0 /\ Len(s) # 0)
  BY <1>2 DEF Mid, Emitted, out
<1>7. \A j \in 1..Len(out) : j \in 1..Len(s)
  BY <1>2
<1>8. Longer(d, r)
  BY <1>2, <1>7 DEF Longer, Emitted, out, s
<1> QED BY <1>2, <1>4, <1>5, <1>6, <1>8 DEF Mid, Emitted, s

\* Emitting an event that is no load event keeps the rest of the detector,
\* and one that is no warning is written where nothing failed before.
LEMMA EmitKeeps ==
  ASSUME NEW E, IsSeq(E), NEW d, NEW prev, NEW since, NEW row, NEW t, Mid(d, E, prev, since, row, t),
         NEW type, NEW from, type \notin LoadTypes,
         type = DrainType => DrainsOnAC(row) /\ since # None /\ t - since >= 8
  PROVE  LET r == Emit(d, type, row, from, t)
         IN /\ Mid(r, E, prev, since, row, t) /\ Longer(d, r)
            /\ r.ac_discharging_since = d.ac_discharging_since
            /\ ~d.failed /\ type \notin DOMAIN Warnings =>
                 \E j \in 1..Len(r.out) : r.out[j].type = type
<1> DEFINE r == Emit(d, type, row, from, t)
           e == [type |-> type, at |-> t, source |-> row.power_source, from |-> from]
<1>1. DOMAIN d = DetectorFields /\ IsSeq(d.out) /\ d.load_started \in BOOLEAN
      /\ Alternates(E \o d.out, d.load_started)
  BY DEF Mid
<1>2. \/ r = d /\ (d.failed \/ type \in DOMAIN Warnings)
      \/ /\ Emitted(d, r, e) /\ r.load_started = d.load_started
         /\ r.ac_discharging_since = d.ac_discharging_since
  BY <1>1, EmitCases
<1>3. e.at = t /\ e.source = row.power_source /\ e.type = type
  OBVIOUS
<1> HIDE DEF e, r
<1>4. CASE r = d /\ (d.failed \/ type \in DOMAIN Warnings)
  <2>1. Mid(r, E, prev, since, row, t) /\ Longer(d, r)
    BY <1>4 DEF Longer
  <2> QED BY <1>4, <2>1 DEF r
<1>5. CASE r # d \/ ~(d.failed \/ type \in DOMAIN Warnings)
  <2> DEFINE old == d.load_started
  <2>1. old \in BOOLEAN /\ Alternates(E \o d.out, old)
    BY <1>1
  <2>2. Emitted(d, r, e) /\ r.load_started = old /\ r.ac_discharging_since = d.ac_discharging_since
    BY <1>2, <1>5
  <2>3. Fits(e, old, r.load_started, since, row, t)
    BY <1>3, <2>2 DEF Fits
  <2> HIDE DEF old
  <2>4. Mid(r, E, prev, since, row, t) /\ Longer(d, r)
    BY <2>1, <2>2, <2>3, MidAppend
  <2>5. r.out = Append(d.out, e)
    BY <2>2 DEF Emitted
  <2>6. Len(d.out) + 1 \in 1..Len(r.out) /\ r.out[Len(d.out) + 1] = e
    BY <1>1, <2>5, AppendSeq
  <2> QED BY <1>3, <2>2, <2>4, <2>6 DEF r
<1> QED BY <1>4, <1>5

\* Two steps lose no more than one does.
LEMMA LongerTwice ==
  ASSUME NEW d, NEW e, NEW f, Longer(d, e), Longer(e, f)
  PROVE  Longer(d, f)
BY DEF Longer

\* Where nothing failed, a source that is not the remembered one has its event.
LEMMA SourceStage ==
  ASSUME NEW E, IsSeq(E), NEW d, NEW prev, NEW since, NEW row, NEW t, Mid(d, E, prev, since, row, t),
         ~d.failed
  PROVE  LET r == SourceEvents(d, row, t)
         IN /\ Mid(r, E, prev, since, row, t) /\ Longer(d, r)
            /\ r.ac_discharging_since = d.ac_discharging_since
            /\ row.power_source # prev[1] => \E j \in 1..Len(r.out) : r.out[j].type \in SourceTypes
<1> DEFINE type == CASE row.power_source = "Battery Power" -> "ac_unplugged"
                     [] row.power_source = "AC Power" -> "ac_plugged_in"
                     [] OTHER -> "power_source_changed"
           r == SourceEvents(d, row, t)
<1>1. d.prev = prev
  BY DEF Mid
<1>2. type \in SourceTypes
  BY DEF SourceTypes
<1> HIDE DEF type
<1>3. type \notin LoadTypes /\ type # DrainType /\ type \notin DOMAIN Warnings
  BY <1>2 DEF SourceTypes, LoadTypes, DrainType, Warnings
<1>4. CASE row.power_source = d.prev[1]
  <2>1. r = d
    BY <1>4 DEF SourceEvents
  <2> HIDE DEF r
  <2>2. Longer(d, r)
    BY <2>1 DEF Longer
  <2> QED BY <1>1, <1>4, <2>1, <2>2 DEF r
<1>5. CASE row.power_source # d.prev[1]
  <2> DEFINE e == Emit(d, type, row, d.prev[1], t)
  <2>1. r = e
    BY <1>5 DEF SourceEvents, type
  <2>2. /\ Mid(e, E, prev, since, row, t) /\ Longer(d, e)
        /\ e.ac_discharging_since = d.ac_discharging_since
        /\ \E j \in 1..Len(e.out) : e.out[j].type = type
    BY <1>3, EmitKeeps
  <2> HIDE DEF r, e
  <2> QED BY <1>2, <2>1, <2>2 DEF r
<1> QED BY <1>4, <1>5

\* What does not touch the parts Mid speaks of keeps them.
LEMMA MidSame ==
  ASSUME NEW E, NEW d, NEW prev, NEW since, NEW row, NEW t, Mid(d, E, prev, since, row, t),
         NEW r, DOMAIN r = DetectorFields, r.out = d.out, r.prev = d.prev, r.failAt = d.failAt,
         r.failed = d.failed, r.load_started = d.load_started
  PROVE  Mid(r, E, prev, since, row, t) /\ Longer(d, r)
<1>1. Mid(r, E, prev, since, row, t)
  BY DEF Mid
<1>2. Longer(d, r)
  BY DEF Longer
<1> QED BY <1>1, <1>2

\* The adapter's events.
LEMMA AdapterStage ==
  ASSUME NEW E, IsSeq(E), NEW d, NEW prev, NEW since, NEW row, NEW t, Mid(d, E, prev, since, row, t)
  PROVE  LET r == AdapterEvents(d, row, t)
         IN /\ Mid(r, E, prev, since, row, t) /\ Longer(d, r)
            /\ r.ac_discharging_since = d.ac_discharging_since
<1> DEFINE w == IF row.adapter_reported_watts = d.last_adapter_watts THEN d
                ELSE Emit(d, "adapter_wattage_changed", row, d.last_adapter_watts, t)
           v == IF w.failed THEN w ELSE [w EXCEPT !.last_adapter_watts = row.adapter_reported_watts]
           n == IF row.adapter_name = v.last_adapter_name THEN v
                ELSE Emit(v, "adapter_name_changed", row, v.last_adapter_name, t)
           r == IF n.failed THEN n ELSE [n EXCEPT !.last_adapter_name = row.adapter_name]
           Kept(x) == /\ Mid(x, E, prev, since, row, t) /\ Longer(d, x)
                      /\ x.ac_discharging_since = d.ac_discharging_since
<1>1. /\ "adapter_wattage_changed" \notin LoadTypes /\ "adapter_wattage_changed" # DrainType
      /\ "adapter_name_changed" \notin LoadTypes /\ "adapter_name_changed" # DrainType
  BY DEF LoadTypes, DrainType
<1>2. Kept(d)
  BY DEF Longer
<1>3. ASSUME NEW x, Kept(x), NEW type, type \notin LoadTypes, type # DrainType, NEW from
      PROVE  Kept(Emit(x, type, row, from, t))
  <2> DEFINE y == Emit(x, type, row, from, t)
  <2>1. /\ Mid(y, E, prev, since, row, t) /\ Longer(x, y)
        /\ y.ac_discharging_since = x.ac_discharging_since
    BY <1>3, EmitKeeps
  <2> HIDE DEF y
  <2>2. Longer(d, y)
    BY <1>3, <2>1, LongerTwice
  <2> QED BY <1>3, <2>1, <2>2 DEF y
<1>4. ASSUME NEW x, Kept(x), NEW y, DOMAIN y = DetectorFields, y.out = x.out, y.prev = x.prev,
             y.failAt = x.failAt, y.failed = x.failed, y.load_started = x.load_started,
             y.ac_discharging_since = x.ac_discharging_since
      PROVE  Kept(y)
  <2>1. Mid(y, E, prev, since, row, t) /\ Longer(x, y)
    BY <1>4, MidSame
  <2>2. Longer(d, y)
    BY <1>4, <2>1, LongerTwice
  <2> QED BY <1>4, <2>1, <2>2
<1>5. \A x : Kept(x) => DOMAIN x = DetectorFields
  BY DEF Mid
<1> HIDE DEF Kept
<1>6. Kept(w)
  BY <1>1, <1>2, <1>3
<1> HIDE DEF w
<1>7. Kept(v)
  <2> DEFINE y == [w EXCEPT !.last_adapter_watts = row.adapter_reported_watts]
  <2>1. /\ DOMAIN y = DetectorFields /\ y.out = w.out /\ y.prev = w.prev /\ y.failAt = w.failAt
        /\ y.failed = w.failed /\ y.load_started = w.load_started
        /\ y.ac_discharging_since = w.ac_discharging_since
    BY <1>5, <1>6 DEF DetectorFields
  <2> HIDE DEF y
  <2>2. Kept(y)
    BY <1>4, <1>6, <2>1
  <2> QED BY <1>6, <2>2 DEF y
<1> HIDE DEF v
<1>8. Kept(n)
  BY <1>1, <1>3, <1>7
<1> HIDE DEF n
<1>9. Kept(r)
  <2> DEFINE y == [n EXCEPT !.last_adapter_name = row.adapter_name]
  <2>1. /\ DOMAIN y = DetectorFields /\ y.out = n.out /\ y.prev = n.prev /\ y.failAt = n.failAt
        /\ y.failed = n.failed /\ y.load_started = n.load_started
        /\ y.ac_discharging_since = n.ac_discharging_since
    BY <1>5, <1>8 DEF DetectorFields
  <2> HIDE DEF y
  <2>2. Kept(y)
    BY <1>4, <1>8, <2>1
  <2> QED BY <1>8, <2>2 DEF y
<1>10. AdapterEvents(d, row, t) = r
  BY DEF AdapterEvents, r, n, v, w
<1> QED BY <1>9, <1>10 DEF Kept

\* A load that starts or stops has its event, whether or not it can be
\* written.
LEMMA LoadStage ==
  ASSUME NEW E, IsSeq(E), NEW d, NEW prev, NEW since, NEW row, NEW t, Mid(d, E, prev, since, row, t)
  PROVE  LET r == LoadEvents(d, row, t)
         IN /\ Mid(r, E, prev, since, row, t) /\ Longer(d, r)
            /\ r.ac_discharging_since = d.ac_discharging_since
<1> DEFINE heavy == HeavySoc(row) \/ HeavyDischarge(row)
           type == IF heavy THEN "load_started_detected" ELSE "load_stopped_detected"
           s == [d EXCEPT !.load_started = heavy]
           e == [type |-> type, at |-> t, source |-> row.power_source, from |-> None]
           r == LoadEvents(d, row, t)
           old == d.load_started
<1>1. /\ DOMAIN d = DetectorFields /\ old \in BOOLEAN /\ Alternates(E \o d.out, old)
      /\ d.failed \in BOOLEAN
  BY DEF Mid
<1>2. heavy \in BOOLEAN
  BY DEF HeavySoc, HeavyDischarge
<1>3. CASE d.failed \/ heavy = d.load_started
  <2>1. r = d
    BY <1>3 DEF LoadEvents
  <2> HIDE DEF r
  <2>2. Longer(d, r)
    BY <2>1 DEF Longer
  <2> QED BY <2>1, <2>2 DEF r
<1>4. CASE ~(d.failed \/ heavy = d.load_started)
  <2>1. r = Emit(s, type, row, None, t)
    BY <1>4 DEF LoadEvents
  <2>2. \/ type = "load_started_detected" /\ heavy /\ ~old
        \/ type = "load_stopped_detected" /\ ~heavy /\ old
    <3>1. heavy # old /\ heavy \in BOOLEAN /\ old \in BOOLEAN
      BY <1>1, <1>2, <1>4
    <3> HIDE DEF heavy, old
    <3>2. CASE heavy
      BY <3>1, <3>2
    <3>3. CASE ~heavy
      BY <3>1, <3>3
    <3> QED BY <3>2, <3>3
  <2>3. type \notin DOMAIN Warnings /\ type # DrainType
    BY <2>2 DEF Warnings, DrainType
  <2> HIDE DEF heavy, type
  <2>4. /\ DOMAIN s = DetectorFields /\ s.out = d.out /\ s.failed = d.failed /\ s.failAt = d.failAt
        /\ s.prev = d.prev /\ s.ac_discharging_since = d.ac_discharging_since /\ s.load_started = heavy
    BY <1>1 DEF DetectorFields
  <2> HIDE DEF s, r
  <2>5. Emitted(s, r, e) /\ r.load_started = heavy /\ r.ac_discharging_since = d.ac_discharging_since
    <3>1. \/ r = s /\ (s.failed \/ type \in DOMAIN Warnings)
          \/ /\ Emitted(s, r, e) /\ r.load_started = s.load_started
             /\ r.ac_discharging_since = s.ac_discharging_since
      BY <2>1, <2>4, EmitCases
    <3> HIDE DEF e
    <3> QED BY <1>4, <2>3, <2>4, <3>1
  <2>6. Emitted(d, r, e)
    <3> HIDE DEF e
    <3> QED BY <2>4, <2>5 DEF Emitted
  <2>7. Fits(e, old, r.load_started, since, row, t)
    <3>1. e.type = type /\ e.at = t /\ e.source = row.power_source
      OBVIOUS
    <3> HIDE DEF e, old
    <3> QED BY <2>2, <2>3, <2>5, <3>1 DEF Fits
  <2> HIDE DEF e, old
  <2>8. Mid(r, E, prev, since, row, t) /\ Longer(d, r)
    BY <1>1, <1>2, <2>5, <2>6, <2>7, MidAppend
  <2> QED BY <2>5, <2>8 DEF r
<1> QED BY <1>3, <1>4

\* The wait for a warning of a battery that drains on AC starts with a row
\* that drains and ends with one that does not.
LEMMA DischargeStage ==
  ASSUME NEW E, IsSeq(E), NEW d, NEW prev, NEW since, NEW row, NEW t, Mid(d, E, prev, since, row, t),
         d.ac_discharging_since = since
  PROVE  LET r == DischargeEvents(d, row, t)
         IN /\ Mid(r, E, prev, since, row, t) /\ Longer(d, r)
            /\ r.ac_discharging_since \in {None, since, t}
            /\ ~r.failed /\ r.ac_discharging_since # None => DrainsOnAC(row)
<1> DEFINE type == "warning_ac_connected_but_battery_discharging"
           e == Emit(d, type, row, None, t)
           with(x) == [d EXCEPT !.ac_discharging_since = x]
           r == DischargeEvents(d, row, t)
<1>1. DOMAIN d = DetectorFields
  BY DEF Mid
<1>2. ASSUME NEW x
      PROVE  Mid(with(x), E, prev, since, row, t) /\ Longer(d, with(x)) /\ with(x).ac_discharging_since = x
  <2> DEFINE y == with(x)
  <2>1. /\ DOMAIN y = DetectorFields /\ y.out = d.out /\ y.prev = d.prev /\ y.failAt = d.failAt
        /\ y.failed = d.failed /\ y.load_started = d.load_started /\ y.ac_discharging_since = x
    BY <1>1 DEF DetectorFields
  <2> HIDE DEF y
  <2>2. Mid(y, E, prev, since, row, t) /\ Longer(d, y)
    BY <2>1, MidSame
  <2> QED BY <2>1, <2>2 DEF y
<1>3. r = IF d.failed THEN d
          ELSE IF ~DrainsOnAC(row) THEN with(None)
          ELSE IF since = None THEN with(t)
          ELSE IF t - since >= 8 THEN e
          ELSE d
  BY DEF DischargeEvents
<1>4. Longer(d, d)
  BY DEF Longer
<1>5. ASSUME DrainsOnAC(row), since # None, t - since >= 8
      PROVE  Mid(e, E, prev, since, row, t) /\ Longer(d, e) /\ e.ac_discharging_since = since
  <2>1. type \notin LoadTypes
    BY DEF LoadTypes
  <2> QED BY <1>5, <2>1, EmitKeeps
<1> HIDE DEF e, with, r
<1>6. CASE d.failed
  BY <1>3, <1>4, <1>6 DEF r
<1>7. CASE ~d.failed /\ ~DrainsOnAC(row)
  BY <1>2, <1>3, <1>7 DEF r
<1>8. CASE ~d.failed /\ DrainsOnAC(row) /\ since = None
  BY <1>2, <1>3, <1>8 DEF r
<1>9. CASE ~d.failed /\ DrainsOnAC(row) /\ since # None /\ t - since >= 8
  BY <1>3, <1>5, <1>9 DEF r
<1>10. CASE ~d.failed /\ DrainsOnAC(row) /\ since # None /\ ~(t - since >= 8)
  BY <1>3, <1>4, <1>10 DEF r
<1> QED BY <1>6, <1>7, <1>8, <1>9, <1>10

\* The warnings of throttling.
LEMMA ThrottleStage ==
  ASSUME NEW E, IsSeq(E), NEW d, NEW prev, NEW since, NEW row, NEW t, Mid(d, E, prev, since, row, t)
  PROVE  LET r == ThrottleEvents(d, row, t)
         IN /\ Mid(r, E, prev, since, row, t) /\ Longer(d, r)
            /\ r.ac_discharging_since = d.ac_discharging_since
<1> DEFINE low == /\ row.power_source = "AC Power" /\ HeavySoc(row)
                  /\ row.net_battery_watts # None /\ row.net_battery_watts \in 0..10000
           first == "possible_charge_throttling_or_low_headroom"
           second == "possible_thermal_or_power_throttling"
           c == IF low THEN Emit(d, first, row, None, t) ELSE d
           r == IF row.possible_throttle THEN Emit(c, second, row, None, t) ELSE c
<1>1. first \notin LoadTypes /\ first # DrainType /\ second \notin LoadTypes /\ second # DrainType
  BY DEF LoadTypes, DrainType
<1>2. Longer(d, d)
  BY DEF Longer
<1> HIDE DEF low, first, second
<1>3. Mid(c, E, prev, since, row, t) /\ Longer(d, c) /\ c.ac_discharging_since = d.ac_discharging_since
  <2> DEFINE e == Emit(d, first, row, None, t)
  <2>1. Mid(e, E, prev, since, row, t) /\ Longer(d, e) /\ e.ac_discharging_since = d.ac_discharging_since
    BY <1>1, EmitKeeps
  <2> HIDE DEF e
  <2> QED BY <1>2, <2>1 DEF e
<1> HIDE DEF c
<1>4. Mid(r, E, prev, since, row, t) /\ Longer(d, r) /\ r.ac_discharging_since = d.ac_discharging_since
  <2> DEFINE e == Emit(c, second, row, None, t)
  <2>1. Mid(e, E, prev, since, row, t) /\ Longer(c, e) /\ e.ac_discharging_since = c.ac_discharging_since
    BY <1>1, <1>3, EmitKeeps
  <2> HIDE DEF e
  <2>2. Longer(d, e)
    BY <1>3, <2>1, LongerTwice
  <2> QED BY <1>3, <2>1, <2>2 DEF e
<1>5. ThrottleEvents(d, row, t) = r
  BY DEF ThrottleEvents, r, c, low, first, second
<1> QED BY <1>4, <1>5

(* What the detector makes of a row before it remembers it.                *)
Seen(m, E, prev, since, row, t, n) ==
  /\ Mid(m, E, prev, since, row, t) /\ m.failAt = n
  /\ m.ac_discharging_since \in {None, since, t}
  /\ ~m.failed /\ m.ac_discharging_since # None => DrainsOnAC(row)
  /\ prev = <<>> => m.ac_discharging_since = since
  /\ prev # <<>> /\ row.power_source # prev[1] => \E j \in 1..Len(m.out) : m.out[j].type \in SourceTypes

\* The first row only announces the run.
LEMMA SeesFirst ==
  ASSUME NEW E, IsSeq(E), NEW d, NEW prev, NEW since, NEW row, NEW t, Mid(d, E, prev, since, row, t),
         d.ac_discharging_since = since, prev = <<>>, since = None
  PROVE  Seen(Emit([d EXCEPT !.last_adapter_watts = row.adapter_reported_watts,
                             !.last_adapter_name = row.adapter_name], "run_started", row, None, t),
              E, prev, since, row, t, d.failAt)
<1> DEFINE a == [d EXCEPT !.last_adapter_watts = row.adapter_reported_watts,
                          !.last_adapter_name = row.adapter_name]
           e == Emit(a, "run_started", row, None, t)
<1>1. DOMAIN d = DetectorFields
  BY DEF Mid
<1>2. /\ DOMAIN a = DetectorFields /\ a.out = d.out /\ a.prev = d.prev /\ a.failAt = d.failAt
      /\ a.failed = d.failed /\ a.load_started = d.load_started
      /\ a.ac_discharging_since = d.ac_discharging_since
  BY <1>1 DEF DetectorFields
<1> HIDE DEF a
<1>3. Mid(a, E, prev, since, row, t)
  BY <1>2, MidSame
<1>4. "run_started" \notin LoadTypes /\ "run_started" # DrainType
  BY DEF LoadTypes, DrainType
<1>5. Mid(e, E, prev, since, row, t) /\ Longer(a, e) /\ e.ac_discharging_since = a.ac_discharging_since
  BY <1>3, <1>4, EmitKeeps
<1> HIDE DEF e
<1>6. Seen(e, E, prev, since, row, t, d.failAt)
  BY <1>2, <1>5 DEF Seen, Longer
<1> QED BY <1>6 DEF e, a

\* Every later row goes through the five groups of events.
LEMMA SeesLater ==
  ASSUME NEW E, IsSeq(E), NEW d, NEW prev, NEW since, NEW row, NEW t, Mid(d, E, prev, since, row, t),
         d.ac_discharging_since = since, prev # <<>>, ~d.failed
  PROVE  Seen(ThrottleEvents(DischargeEvents(LoadEvents(
                AdapterEvents(SourceEvents(d, row, t), row, t), row, t), row, t), row, t),
              E, prev, since, row, t, d.failAt)
<1> DEFINE s == SourceEvents(d, row, t)
           a == AdapterEvents(s, row, t)
           l == LoadEvents(a, row, t)
           c == DischargeEvents(l, row, t)
           h == ThrottleEvents(c, row, t)
<1>1. /\ Mid(s, E, prev, since, row, t) /\ Longer(d, s)
      /\ s.ac_discharging_since = d.ac_discharging_since
      /\ row.power_source # prev[1] => \E j \in 1..Len(s.out) : s.out[j].type \in SourceTypes
  <2>1. Mid(s, E, prev, since, row, t) /\ Longer(d, s)
    BY SourceStage
  <2>2. s.ac_discharging_since = d.ac_discharging_since
    BY <2>1, SourceStage
  <2>3. row.power_source # prev[1] => \E j \in 1..Len(s.out) : s.out[j].type \in SourceTypes
    BY <2>1, SourceStage
  <2> QED BY <2>1, <2>2, <2>3
<1> HIDE DEF s
<1>2. Mid(a, E, prev, since, row, t) /\ Longer(s, a) /\ a.ac_discharging_since = since
  <2>1. s.ac_discharging_since = since
    BY <1>1
  <2>2. Mid(a, E, prev, since, row, t) /\ Longer(s, a) /\ a.ac_discharging_since = s.ac_discharging_since
    BY <1>1, AdapterStage, SMTT(40)
  <2> QED BY <2>1, <2>2
<1> HIDE DEF a
<1>3. Mid(l, E, prev, since, row, t) /\ Longer(a, l) /\ l.ac_discharging_since = since
  BY <1>2, LoadStage
<1> HIDE DEF l
<1>4. /\ Mid(c, E, prev, since, row, t) /\ Longer(l, c)
      /\ c.ac_discharging_since \in {None, since, t}
      /\ ~c.failed /\ c.ac_discharging_since # None => DrainsOnAC(row)
  <2>1. Mid(c, E, prev, since, row, t) /\ Longer(l, c)
    BY <1>3, DischargeStage
  <2>2. c.ac_discharging_since \in {None, since, t}
    BY <1>3, <2>1, DischargeStage
  <2>3. ~c.failed /\ c.ac_discharging_since # None => DrainsOnAC(row)
    BY <1>3, <2>1, DischargeStage
  <2> QED BY <2>1, <2>2, <2>3
<1> HIDE DEF c
<1>5. /\ Mid(h, E, prev, since, row, t) /\ Longer(c, h)
      /\ h.ac_discharging_since = c.ac_discharging_since
  BY <1>4, ThrottleStage
<1> HIDE DEF h
<1>6. Longer(s, h)
  BY <1>2, <1>3, <1>4, <1>5, LongerTwice
<1>7. ~h.failed => ~c.failed
  BY <1>5 DEF Longer
<1>8. row.power_source # prev[1] => \E j \in 1..Len(h.out) : h.out[j].type \in SourceTypes
  BY <1>1, <1>6 DEF Longer
<1>9. Longer(d, h)
  BY <1>1, <1>6, LongerTwice
<1>10. Seen(h, E, prev, since, row, t, d.failAt)
  BY <1>4, <1>5, <1>7, <1>8, <1>9 DEF Seen, Longer
<1> QED BY <1>10 DEF h, c, l, a, s

\* A row through the detector, whichever of its events cannot be written.
LEMMA ProcessRow ==
  ASSUME NEW E, IsSeq(E), NEW det, DOMAIN det = DetectorFields, det.load_started \in BOOLEAN,
         Alternates(E, det.load_started), det.prev = <<>> => det.ac_discharging_since = None,
         NEW row, NEW t, NEW n \in Nat
  PROVE  LET r == DetectorProcess(det, row, t, n)
         IN /\ DOMAIN r = DetectorFields
            /\ Chunk(E, r.out, det.prev, det.ac_discharging_since, r.prev, r.load_started,
                     r.ac_discharging_since, row, t)
            /\ r.failed => n # 0 /\ r.out # <<>>
            /\ ~r.failed => /\ r.prev = <<row.power_source>>
                            /\ r.ac_discharging_since # None => DrainsOnAC(row)
<1> DEFINE prev  == det.prev
           since == det.ac_discharging_since
           d == [det EXCEPT !.auto_phase = AutoPhase(row), !.out = <<>>, !.failed = FALSE, !.failAt = n]
           first == Emit([d EXCEPT !.last_adapter_watts = row.adapter_reported_watts,
                                   !.last_adapter_name = row.adapter_name], "run_started", row, None, t)
           later == ThrottleEvents(DischargeEvents(LoadEvents(
                      AdapterEvents(SourceEvents(d, row, t), row, t), row, t), row, t), row, t)
           m == IF d.prev = <<>> THEN first ELSE later
           r == DetectorProcess(det, row, t, n)
<1>1. /\ DOMAIN d = DetectorFields /\ d.out = <<>> /\ d.failed = FALSE /\ d.failAt = n
      /\ d.prev = prev /\ d.ac_discharging_since = since /\ d.load_started = det.load_started
  BY DEF DetectorFields
<1>2. r = Remember(m, row)
  BY DEF DetectorProcess
<1> HIDE DEF r, d, first, later
<1>3. Mid(d, E, prev, since, row, t)
  <2>1. IsSeq(<<>>) /\ Len(<<>>) = 0
    BY ShortSeq
  <2>2. E \o <<>> = E
    BY <2>1, ConcatSeq
  <2>3. 1..0 = {}
    OBVIOUS
  <2> HIDE DEF prev, since
  <2> QED BY <1>1, <2>1, <2>2, <2>3 DEF Mid
<1>4. prev = <<>> => since = None
  OBVIOUS
<1> HIDE DEF prev, since
<1>5. Seen(m, E, prev, since, row, t, n)
  <2>1. CASE prev = <<>>
    <3>1. m = first
      BY <1>1, <2>1
    <3> HIDE DEF m
    <3>2. Seen(first, E, prev, since, row, t, n)
      BY <1>1, <1>3, <1>4, <2>1, SeesFirst DEF first
    <3> QED BY <3>1, <3>2
  <2>2. CASE prev # <<>>
    <3>1. m = later
      BY <1>1, <2>2
    <3> HIDE DEF m
    <3>2. Seen(later, E, prev, since, row, t, n)
      BY <1>1, <1>3, <2>2, SeesLater DEF later
    <3> QED BY <3>1, <3>2
  <2> QED BY <2>1, <2>2
<1> HIDE DEF m
<1>6. Mid(m, E, prev, since, row, t)
  BY <1>5 DEF Seen
<1>7. /\ DOMAIN r = DetectorFields /\ r.out = m.out /\ r.failed = m.failed
      /\ r.load_started = m.load_started /\ r.ac_discharging_since = m.ac_discharging_since
      /\ r.prev = IF m.failed THEN prev ELSE <<row.power_source>>
  BY <1>2, <1>6 DEF Remember, Mid, DetectorFields
<1>8. Chunk(E, r.out, prev, since, r.prev, r.load_started, r.ac_discharging_since, row, t)
  BY <1>5, <1>6, <1>7 DEF Chunk, Seen, Mid
<1>9. r.failed => n # 0 /\ r.out # <<>>
  <2>1. m.failed => m.failAt # 0 /\ Len(m.out) # 0
    BY <1>6 DEF Mid
  <2>2. m.failAt = n
    BY <1>5 DEF Seen
  <2>3. Len(<<>>) = 0
    BY ShortSeq
  <2> QED BY <1>7, <2>1, <2>2, <2>3
<1>10. ~r.failed => /\ r.prev = <<row.power_source>>
                    /\ r.ac_discharging_since # None => DrainsOnAC(row)
  BY <1>5, <1>7 DEF Seen
<1> QED BY <1>7, <1>8, <1>9, <1>10 DEF r, prev, since

-----------------------------------------------------------------------------
(* The invariant, and what the steps of the loop do to it. *)

Fine(l, prev, load, since, n) == LogOK(l) /\ Good(Ev(l), Wr(l), prev, load, since, n)

FineWith(l, d, n) ==
  DOMAIN d = DetectorFields /\ Fine(l, d.prev, d.load_started, d.ac_discharging_since, n)

IInv == FineWith(log, detector, now)

\* The monitor's own events, the debug file and the closing of the files
\* leave the invariant as it is.
LEMMA FineEvent ==
  ASSUME NEW l, NEW d, NEW t, FineWith(l, d, t), NEW type, type \notin LoadTypes \cup {DrainType},
         NEW flushes
  PROVE  FineWith(WriteEvent(l, Event(type, t), flushes), d, t)
<1> DEFINE e == Event(type, t)
           w == WriteEvent(l, e, flushes)
<1>1. e.at = t /\ e.type = type
  BY DEF Event
<1>2. LogOK(l) /\ Good(Ev(l), Wr(l), d.prev, d.load_started, d.ac_discharging_since, t)
  BY DEF FineWith, Fine
<1> HIDE DEF e
<1>3. LogOK(w) /\ Ev(w) = Append(Ev(l), e) /\ Wr(w) = Wr(l)
  BY <1>2, WriteEventAdds
<1> HIDE DEF w
<1>4. Good(Append(Ev(l), e), Wr(l), d.prev, d.load_started, d.ac_discharging_since, t)
  BY <1>1, <1>2, GoodOther
<1>5. Good(Ev(w), Wr(w), d.prev, d.load_started, d.ac_discharging_since, t)
  BY <1>3, <1>4
<1>6. FineWith(w, d, t)
  BY <1>3, <1>5 DEF FineWith, Fine
<1> QED BY <1>6 DEF w, e

LEMMA FineHandle ==
  ASSUME NEW l, NEW d, NEW t, FineWith(l, d, t), NEW how
  PROVE  FineWith(Handle(l, t, how), d, t)
<1>1. "monitor_error" \notin LoadTypes \cup {DrainType}
  BY DEF LoadTypes, DrainType
<1>2. FineWith(WriteEvent(l, Event("monitor_error", t), how = "written"), d, t)
  BY <1>1, FineEvent
<1> QED BY <1>2 DEF Handle

LEMMA FineDebug ==
  ASSUME NEW l, NEW d, NEW t, FineWith(l, d, t), NEW succeeds
  PROVE  FineWith(MaybeWriteDebug(l, succeeds), d, t)
BY DebugAddsNothing DEF FineWith, Fine

LEMMA FineClose ==
  ASSUME NEW l, NEW d, NEW t, FineWith(l, d, t), NEW flushes
  PROVE  FineWith(CloseLog(l, flushes), d, t)
BY CloseAddsNothing DEF FineWith, Fine

\* The events of an iteration keep the invariant, whichever of them fails.
LEMMA FineChunk ==
  ASSUME NEW l, NEW det, NEW n, FineWith(l, det, n), NEW t \in Nat, n < t, NEW row, NEW f \in Nat
  PROVE  LET r == DetectorProcess(det, row, t, f) IN FineWith(WriteEvents(l, r), r, t)
<1> DEFINE r == DetectorProcess(det, row, t, f)
           w == WriteEvents(l, r)
           E == Ev(l)
<1>1. LogOK(l) /\ Good(E, Wr(l), det.prev, det.load_started, det.ac_discharging_since, n)
      /\ DOMAIN det = DetectorFields
  BY DEF FineWith, Fine
<1>2. IsSeq(E)
  BY <1>1, FilesAreSeqs
<1> HIDE DEF E
<1>3. /\ det.load_started \in BOOLEAN /\ Alternates(E, det.load_started)
      /\ det.prev = <<>> => det.ac_discharging_since = None
  BY <1>1 DEF Good
<1>4. /\ DOMAIN r = DetectorFields
      /\ Chunk(E, r.out, det.prev, det.ac_discharging_since, r.prev, r.load_started,
               r.ac_discharging_since, row, t)
      /\ r.failed => f # 0 /\ r.out # <<>>
  BY <1>1, <1>2, <1>3, ProcessRow
<1> HIDE DEF r
<1>5. IsSeq(r.out)
  BY <1>4 DEF Chunk
<1>6. LogOK(w) /\ Ev(w) = E \o r.out /\ Wr(w) = Wr(l)
  BY <1>1, <1>4, <1>5, WriteEventsAdd DEF E
<1> HIDE DEF w
<1>7. Good(E \o r.out, Wr(l), r.prev, r.load_started, r.ac_discharging_since, t)
  BY <1>1, <1>4, GoodChunk
<1>8. Good(Ev(w), Wr(w), r.prev, r.load_started, r.ac_discharging_since, t)
  BY <1>6, <1>7
<1>9. FineWith(w, r, t)
  BY <1>4, <1>6, <1>8 DEF FineWith, Fine
<1> QED BY <1>9 DEF w, r

\* The columns a line of the CSV shares with its row.
LEMMA LineFields ==
  ASSUME NEW row, NEW phase, NEW status, NEW t
  PROVE  LineOf(CsvLine(row, phase, status, t), row, t)
BY DEF LineOf, CsvLine, Columns

\* An iteration in which no event fails may write its row, after an event of
\* the monitor's own or without one.
LEMMA FineRow ==
  ASSUME NEW l, NEW det, NEW n, FineWith(l, det, n), NEW t \in Nat, n < t, NEW row,
         NEW line, LineOf(line, row, t), NEW flushes
  PROVE  LET r == DetectorProcess(det, row, t, 0)
         IN /\ FineWith(WriteCsv(WriteEvents(l, r), line, flushes), r, t)
            /\ \A type, fl : type \notin LoadTypes \cup {DrainType} =>
                 FineWith(WriteCsv(WriteEvent(WriteEvents(l, r), Event(type, t), fl), line, flushes), r, t)
<1> DEFINE r == DetectorProcess(det, row, t, 0)
           w == WriteEvents(l, r)
           E == Ev(l)
           V == Append(Wr(l), line)
<1>1. LogOK(l) /\ Good(E, Wr(l), det.prev, det.load_started, det.ac_discharging_since, n)
      /\ DOMAIN det = DetectorFields
  BY DEF FineWith, Fine
<1>2. IsSeq(E)
  BY <1>1, FilesAreSeqs
<1> HIDE DEF E
<1>3. /\ det.load_started \in BOOLEAN /\ Alternates(E, det.load_started)
      /\ det.prev = <<>> => det.ac_discharging_since = None
  BY <1>1 DEF Good
<1>4. /\ DOMAIN r = DetectorFields
      /\ Chunk(E, r.out, det.prev, det.ac_discharging_since, r.prev, r.load_started,
               r.ac_discharging_since, row, t)
      /\ ~r.failed /\ r.prev = <<row.power_source>>
      /\ r.ac_discharging_since # None => DrainsOnAC(row)
  BY <1>1, <1>2, <1>3, ProcessRow
<1> HIDE DEF r
<1>5. IsSeq(r.out)
  BY <1>4 DEF Chunk
<1>6. LogOK(w) /\ Ev(w) = E \o r.out /\ Wr(w) = Wr(l)
  BY <1>1, <1>4, <1>5, WriteEventsAdd DEF E
<1> HIDE DEF w
<1>7. Good(Ev(w), V, r.prev, r.load_started, r.ac_discharging_since, t)
  <2> DEFINE prev2 == r.prev
             load2 == r.load_started
             since2 == r.ac_discharging_since
             out == r.out
  <2>1. /\ Chunk(E, out, det.prev, det.ac_discharging_since, prev2, load2, since2, row, t)
        /\ prev2 = <<row.power_source>>
        /\ since2 # None => DrainsOnAC(row)
    BY <1>4
  <2> HIDE DEF prev2, load2, since2, out
  <2>2. Good(E \o out, Append(Wr(l), line), prev2, load2, since2, t)
    BY <1>1, <2>1, GoodRow
  <2> QED BY <1>6, <2>2 DEF prev2, load2, since2, out
<1> HIDE DEF V
<1>8. FineWith(WriteCsv(w, line, flushes), r, t)
  <2> DEFINE u == WriteCsv(w, line, flushes)
  <2>1. LogOK(u) /\ Wr(u) = V /\ Ev(u) = Ev(w)
    BY <1>6, WriteCsvAdds DEF V
  <2> HIDE DEF u
  <2>2. FineWith(u, r, t)
    BY <1>4, <1>7, <2>1 DEF FineWith, Fine
  <2> QED BY <2>2 DEF u
<1>9. ASSUME NEW type, NEW fl, type \notin LoadTypes \cup {DrainType}
      PROVE  FineWith(WriteCsv(WriteEvent(w, Event(type, t), fl), line, flushes), r, t)
  <2> DEFINE e == Event(type, t)
             v == WriteEvent(w, e, fl)
             u == WriteCsv(v, line, flushes)
  <2>1. e.at = t /\ e.type \notin LoadTypes \cup {DrainType}
    BY <1>9 DEF Event
  <2> HIDE DEF e
  <2>2. LogOK(v) /\ Ev(v) = Append(Ev(w), e) /\ Wr(v) = Wr(l)
    BY <1>6, WriteEventAdds
  <2> HIDE DEF v
  <2>3. LogOK(u) /\ Wr(u) = V /\ Ev(u) = Ev(v)
    BY <2>2, WriteCsvAdds DEF V
  <2> HIDE DEF u
  <2>4. Good(Append(Ev(w), e), V, r.prev, r.load_started, r.ac_discharging_since, t)
    BY <1>7, <2>1, GoodOther
  <2>5. Good(Ev(u), Wr(u), r.prev, r.load_started, r.ac_discharging_since, t)
    BY <2>2, <2>3, <2>4
  <2>6. FineWith(u, r, t)
    BY <1>4, <2>3, <2>5 DEF FineWith, Fine
  <2> QED BY <2>6 DEF u, v, e
<1> QED BY <1>8, <1>9 DEF w, r

\* What the loop keeps of the detector is what it made of the row.
LEMMA TrackFine ==
  ASSUME NEW l, NEW bl, NEW tr, NEW d, NEW t, FineWith(l, d, t), Track(bl, tr, d)
  PROVE  FineWith(l, detector', t)
<1>1. DOMAIN d = DetectorFields
  BY DEF FineWith
<1>2. detector' = [d EXCEPT !.out = <<>>, !.failed = FALSE, !.failAt = 0]
  BY DEF Track
<1>3. /\ DOMAIN detector' = DetectorFields /\ detector'.prev = d.prev
      /\ detector'.load_started = d.load_started
      /\ detector'.ac_discharging_since = d.ac_discharging_since
  BY <1>1, <1>2 DEF DetectorFields
<1> QED BY <1>3 DEF FineWith

\* An iteration of the loop keeps the invariant, whatever is raised in it.
LEMMA ConcludeFine ==
  ASSUME NEW bl, NEW tr, NEW stat, NEW after, NEW t \in Nat, now < t, IInv,
         Conclude(bl, tr, stat, DetectorProcess(detector, stat, t, 0), after, t)
  PROVE  FineWith(log', detector', t)
<1> DEFINE d(n)   == DetectorProcess(detector, stat, t, n)
           whole  == d(0)
           line   == CsvLine(stat, whole.auto_phase, "ok", t)
           noApps == CsvLine(stat, whole.auto_phase, "error", t)
           evs    == WriteEvents(log, whole)
           app(flushes) == WriteEvent(evs, Event("app_power_error", t), flushes)
<1>1. FineWith(log, detector, now)
  BY DEF IInv
<1>2. \A n \in Nat : FineWith(WriteEvents(log, d(n)), d(n), t)
  BY <1>1, FineChunk
<1>3. LineOf(line, stat, t) /\ LineOf(noApps, stat, t)
  BY LineFields
<1>4. "app_power_error" \notin LoadTypes \cup {DrainType}
  BY DEF LoadTypes, DrainType
<1>5. FineWith(evs, whole, t)
  BY <1>2
<1>6. \A flushes : FineWith(app(flushes), whole, t)
  BY <1>4, <1>5, FineEvent
<1> DEFINE Row(l, x, flushes) == FineWith(WriteCsv(l, x, flushes), whole, t)
<1>7. ASSUME NEW flushes
      PROVE  Row(evs, line, flushes) /\ Row(app(TRUE), noApps, flushes)
  <2> HIDE DEF line, noApps
  <2>1. Row(evs, line, flushes)
    BY <1>1, <1>3, FineRow
  <2>2. Row(app(TRUE), noApps, flushes)
    BY <1>1, <1>3, <1>4, FineRow
  <2> QED BY <2>1, <2>2
<1>8. PICK kind \in Kinds :
        \/ kind = "collect" /\ Raise(log, t) /\ UNCHANGED <<baseline, tracker, detector, phases, health>>
        \/ /\ kind = "emit"
           /\ \E n \in DOMAIN whole.out : Track(bl, tr, d(n)) /\ Raise(WriteEvents(log, d(n)), t)
           /\ UNCHANGED <<phases, health>>
        \/ /\ kind \notin {"collect", "emit"} /\ Finish(bl, tr, whole, WithPhase(stat, whole))
           /\ \/ kind = "none" /\ Pass(MaybeWriteDebug(WriteCsv(evs, line, TRUE), TRUE))
              \/ kind = "app" /\ Pass(MaybeWriteDebug(WriteCsv(app(TRUE), noApps, TRUE), TRUE))
              \/ kind = "appEvent" /\ Raise(app(FALSE), t)
              \/ kind = "draw" /\ Raise(evs, t)
              \/ kind = "csv" /\ Raise(WriteCsv(evs, line, FALSE), t)
              \/ kind = "debug" /\ DebugDue(log) /\ Raise(MaybeWriteDebug(WriteCsv(evs, line, TRUE), FALSE), t)
  BY DEF Conclude
<1> HIDE DEF d, whole, line, noApps, evs, app
<1>9. ASSUME NEW l, NEW x, FineWith(l, x, t), Raise(l, t)
      PROVE  FineWith(log', x, t)
  BY <1>9, FineHandle DEF Raise
<1>10. CASE Raise(log, t) /\ UNCHANGED detector
  <2>1. FineWith(log, detector, t)
    <3>1. LogOK(log) /\ Good(Ev(log), Wr(log), detector.prev, detector.load_started,
                             detector.ac_discharging_since, now)
      BY <1>1 DEF FineWith, Fine
    <3>2. now \in Nat
      BY <3>1 DEF Good, Dated
    <3>3. Good(Ev(log), Wr(log), detector.prev, detector.load_started,
               detector.ac_discharging_since, t)
      BY <3>1, <3>2, GoodLater
    <3> QED BY <1>1, <3>1, <3>3 DEF FineWith, Fine
  <2>2. FineWith(log', detector, t)
    BY <1>9, <1>10, <2>1
  <2> QED BY <1>10, <2>2
<1>11. ASSUME NEW n \in DOMAIN whole.out, Track(bl, tr, d(n)), Raise(WriteEvents(log, d(n)), t)
       PROVE  FineWith(log', detector', t)
  <2>1. n \in Nat
    <3>1. Chunk(Ev(log), whole.out, detector.prev, detector.ac_discharging_since, whole.prev,
                whole.load_started, whole.ac_discharging_since, stat, t)
      <4>1. LogOK(log) /\ Good(Ev(log), Wr(log), detector.prev, detector.load_started,
                               detector.ac_discharging_since, now)
            /\ DOMAIN detector = DetectorFields
        BY <1>1 DEF FineWith, Fine
      <4>2. IsSeq(Ev(log))
        BY <4>1, FilesAreSeqs
      <4>3. /\ detector.load_started \in BOOLEAN /\ Alternates(Ev(log), detector.load_started)
            /\ detector.prev = <<>> => detector.ac_discharging_since = None
        BY <4>1 DEF Good
      <4> QED BY <4>1, <4>2, <4>3, ProcessRow DEF whole, d
    <3>2. IsSeq(whole.out)
      BY <3>1 DEF Chunk
    <3> QED BY <3>2, SeqDomain
  <2>2. FineWith(log', d(n), t)
    BY <1>2, <1>9, <1>11, <2>1
  <2> QED BY <1>11, <2>2, TrackFine
<1>12. ASSUME Finish(bl, tr, whole, WithPhase(stat, whole)), FineWith(log', whole, t)
       PROVE  FineWith(log', detector', t)
  BY <1>12, TrackFine DEF Finish
<1>13. ASSUME NEW l, FineWith(l, whole, t), Pass(l)
       PROVE  FineWith(log', whole, t)
  BY <1>13 DEF Pass
<1>14. ASSUME NEW l, FineWith(l, whole, t), NEW succeeds
       PROVE  FineWith(MaybeWriteDebug(l, succeeds), whole, t)
  BY <1>14, FineDebug
<1>15. CASE kind \in {"none", "app"} /\ Finish(bl, tr, whole, WithPhase(stat, whole))
  <2>1. FineWith(MaybeWriteDebug(WriteCsv(evs, line, TRUE), TRUE), whole, t)
    BY <1>7, <1>14
  <2>2. FineWith(MaybeWriteDebug(WriteCsv(app(TRUE), noApps, TRUE), TRUE), whole, t)
    BY <1>7, <1>14
  <2>3. FineWith(log', whole, t)
    BY <1>8, <1>13, <1>15, <2>1, <2>2
  <2> QED BY <1>12, <1>15, <2>3
<1>16. CASE kind \in {"appEvent", "draw", "csv", "debug"} /\ Finish(bl, tr, whole, WithPhase(stat, whole))
  <2>1. FineWith(MaybeWriteDebug(WriteCsv(evs, line, TRUE), FALSE), whole, t)
    BY <1>7, <1>14
  <2>2. FineWith(WriteCsv(evs, line, FALSE), whole, t)
    BY <1>7
  <2>3. FineWith(log', whole, t)
    BY <1>5, <1>6, <1>8, <1>9, <1>16, <2>1, <2>2
  <2> QED BY <1>12, <1>16, <2>3
<1> QED BY <1>8, <1>10, <1>11, <1>15, <1>16 DEF Kinds

\* The invariant in every reachable state.
LEMMA MonitorInvariant == Spec => []IInv
<1>1. Init => IInv
  <2> SUFFICES ASSUME Init PROVE IInv
    OBVIOUS
  <2>1. log = EmptyLog /\ detector = NewDetector /\ now \in Nat
    BY WatchAssumption DEF Init
  <2>2. IsSeq(<<>>) /\ Len(<<>>) = 0 /\ <<>> \o <<>> = <<>>
    BY ShortSeq, ConcatSeq
  <2>3. /\ DOMAIN log = {"csv", "csvBuffer", "events", "buffer", "event_count", "sample_count", "debug"}
        /\ log.events = <<>> /\ log.buffer = <<>> /\ log.csv = <<>> /\ log.csvBuffer = <<>>
    BY <2>1 DEF EmptyLog
  <2>4. LogOK(log) /\ Ev(log) = <<>> /\ Wr(log) = <<>>
    BY <2>2, <2>3 DEF LogOK, Ev, Wr
  <2>5. /\ DOMAIN detector = DetectorFields /\ detector.prev = <<>>
        /\ detector.load_started = FALSE /\ detector.ac_discharging_since = None
    BY <2>1 DEF NewDetector, DetectorFields
  <2>6. 1..0 = {} /\ 1..0 - 1 = {} /\ 1..(0 + 1) - 1 = {}
    OBVIOUS
  <2>7. Dated(<<>>, <<>>, now) /\ Alternates(<<>>, FALSE) /\ Announced(<<>>, <<>>, <<>>)
        /\ Sustained(<<>>, <<>>, None)
    BY <2>1, <2>2, <2>6 DEF Dated, Alternates, LoadGoesOn, Announced, Sustained
  <2>8. Good(Ev(log), Wr(log), detector.prev, detector.load_started, detector.ac_discharging_since, now)
    BY <2>2, <2>4, <2>5, <2>7 DEF Good
  <2> QED BY <2>4, <2>5, <2>8 DEF IInv, FineWith, Fine
<1>2. IInv /\ [Next]_vars => IInv'
  <2> SUFFICES ASSUME IInv, [Next]_vars PROVE IInv'
    OBVIOUS
  <2>1. FineWith(log, detector, now)
    BY DEF IInv
  <2>2. CASE Loop
    <3>1. PICK after \in Machines, seen \in Machines, dt \in Steps :
            Iterate(seen, after, now + dt) /\ now' = now + dt
      BY <2>2 DEF Loop
    <3>2. now \in Nat
      BY <2>1 DEF FineWith, Fine, Good, Dated
    <3> DEFINE t == now + dt
    <3>3. t \in Nat /\ now < t
      BY <3>2, WatchAssumption
    <3>4. \E bl, tr, stat : Conclude(bl, tr, stat, DetectorProcess(detector, stat, t, 0), after, t)
      BY <3>1 DEF Iterate
    <3> HIDE DEF t
    <3>5. FineWith(log', detector', t)
      BY <3>3, <3>4, ConcludeFine
    <3> QED BY <3>1, <3>5 DEF IInv, t
  <2>3. CASE Cleanup
    <3>1. PICK appRaises, flushes, closes \in BOOLEAN :
            log' = LET closing == IF appRaises THEN WriteEvent(log, Event("app_power_close_error", now), flushes)
                                  ELSE log
                   IN CloseLog(WriteEvent(closing, Event("run_stopped", now), flushes), closes)
      BY <2>3 DEF Cleanup
    <3> DEFINE closing == IF appRaises THEN WriteEvent(log, Event("app_power_close_error", now), flushes)
                          ELSE log
               stopped == WriteEvent(closing, Event("run_stopped", now), flushes)
    <3>2. /\ "app_power_close_error" \notin LoadTypes \cup {DrainType}
          /\ "run_stopped" \notin LoadTypes \cup {DrainType}
      BY DEF LoadTypes, DrainType
    <3>3. FineWith(closing, detector, now)
      BY <2>1, <3>2, FineEvent
    <3>4. log' = CloseLog(stopped, closes)
      BY <3>1
    <3> HIDE DEF closing
    <3>5. FineWith(stopped, detector, now)
      BY <3>2, <3>3, FineEvent
    <3> HIDE DEF stopped
    <3>6. FineWith(log', detector, now)
      BY <3>4, <3>5, FineClose
    <3>7. now' = now /\ detector' = detector
      BY <2>3 DEF Cleanup
    <3> QED BY <3>6, <3>7 DEF IInv
  <2>4. CASE Start \/ PmSample \/ SpSample \/ Quit \/ UNCHANGED vars
    <3>1. log' = log /\ detector' = detector /\ now' = now
      BY <2>4 DEF Start, PmSample, SpSample, Quit, vars
    <3> QED BY <2>1, <3>1 DEF IInv
  <2> QED BY <2>2, <2>3, <2>4 DEF Next
<1> QED BY <1>1, <1>2, PTL DEF Spec

-----------------------------------------------------------------------------
(* The theorems. *)

\* The load events take turns, beginning with a start, also where writing
\* one of them failed, and the detector knows whether they leave a load
\* going on (EventDetector.process sets load_started before it emits).
THEOREM LoadsAlternate == Spec => []LoadEventsAlternate
<1>1. IInv => LoadEventsAlternate
  <2> SUFFICES ASSUME IInv PROVE LoadEventsAlternate
    OBVIOUS
  <2> DEFINE E == AllEvents
  <2>1. IsSeq(E) /\ Alternates(E, detector.load_started)
    BY DEF IInv, FineWith, Fine, Good, Ev, AllEvents
  <2>2. DOMAIN E = 1..Len(E)
    BY <2>1, SeqDomain
  <2> HIDE DEF E
  <2> QED BY <2>1, <2>2 DEF Alternates, LoadEventsAlternate, E
<1> QED BY <1>1, MonitorInvariant, PTL

\* A change of the power source between two rows of the CSV has its event
\* between them, whatever was raised in the iterations that left no row.
THEOREM SourceChangesLogged == Spec => []TransitionsAreLogged
<1>1. IInv => TransitionsAreLogged
  <2> SUFFICES ASSUME IInv PROVE TransitionsAreLogged
    OBVIOUS
  <2> DEFINE E == AllEvents
             W == Written
  <2>1. IsSeq(E) /\ Announced(E, W, detector.prev)
    BY DEF IInv, FineWith, Fine, Good, Ev, Wr, AllEvents, Written
  <2>2. DOMAIN E = 1..Len(E)
    BY <2>1, SeqDomain
  <2> HIDE DEF E, W
  <2>3. ASSUME NEW i \in 1..Len(W) - 1, W[i].power_source # W[i + 1].power_source
        PROVE  \E j \in DOMAIN E : /\ E[j].type \in SourceTypes /\ E[j].source = W[i + 1].power_source
                                   /\ W[i].at < E[j].at /\ E[j].at <= W[i + 1].at
    BY <2>1, <2>2, <2>3 DEF Announced, Announces
  <2> QED BY <2>3 DEF TransitionsAreLogged, SourceTypes, E, W
<1> QED BY <1>1, MonitorInvariant, PTL

\* The warning of a battery that drains on AC means that every row of the
\* last eight seconds shows just that.
THEOREM DischargeWarned == Spec => []DischargeWarningIsSustained
<1>1. IInv => DischargeWarningIsSustained
  <2> SUFFICES ASSUME IInv PROVE DischargeWarningIsSustained
    OBVIOUS
  <2> DEFINE E == AllEvents
             W == Written
  <2>1. IsSeq(E) /\ IsSeq(W) /\ Sustained(E, W, detector.ac_discharging_since)
    BY DEF IInv, FineWith, Fine, Good, Ev, Wr, AllEvents, Written
  <2>2. DOMAIN E = 1..Len(E) /\ DOMAIN W = 1..Len(W)
    BY <2>1, SeqDomain
  <2> HIDE DEF E, W
  <2>3. \A i \in DOMAIN E : \A k \in DOMAIN W :
          E[i].type = DrainType /\ W[k].at \in (E[i].at - 8)..E[i].at => DrainsOnAC(W[k])
    BY <2>1, <2>2 DEF Sustained
  <2> QED BY <2>3 DEF DischargeWarningIsSustained, DrainType, E, W
<1> QED BY <1>1, MonitorInvariant, PTL

-----------------------------------------------------------------------------
(* The battery's power on its way through a row. *)

Net == "net_battery_watts"
Carries(row, w) == Net \in DOMAIN row /\ row[Net] = w

\* What an update keeps.
LEMMA UpdateCarries ==
  ASSUME NEW d, NEW e, NEW w, Carries(d, w), Net \notin DOMAIN e
  PROVE  Carries(Update(d, e), w)
BY DEF Carries, Update

LEMMA CpuCarries ==
  ASSUME NEW row, NEW w, Carries(row, w)
  PROVE  Carries(DeriveCpuClusterFields(row), w)
<1>1. \E v : DeriveCpuClusterFields(row) = Update(row, [cpu_frequency_estimate_mhz |-> v])
  BY Zenon DEF DeriveCpuClusterFields
<1> QED BY <1>1, UpdateCarries DEF Net

LEMMA CpuFree ==
  ASSUME NEW row, Net \notin DOMAIN row
  PROVE  Net \notin DOMAIN DeriveCpuClusterFields(row)
<1>1. \E v : DeriveCpuClusterFields(row) = Update(row, [cpu_frequency_estimate_mhz |-> v])
  BY Zenon DEF DeriveCpuClusterFields
<1> QED BY <1>1 DEF Update, Net

LEMMA ThermalCarries ==
  ASSUME NEW row, NEW w, Carries(row, w)
  PROVE  Carries(DeriveThermalPressureFields(row), w)
<1>1. \E v, w1 : DeriveThermalPressureFields(row) =
                  Update(row, [thermal_pressure_effective |-> v, thermal_summary |-> w1])
  BY Zenon DEF DeriveThermalPressureFields
<1> QED BY <1>1, UpdateCarries DEF Net

LEMMA LoadCarries ==
  ASSUME NEW row, NEW w, Carries(row, w)
  PROVE  Carries(WithLoad(row), w) /\ Carries(WithCharger(row), w) /\ Carries(WithVerdicts(row), w)
<1>1. \E f : /\ WithLoad(row) = Update(row, f)
             /\ DOMAIN f = {"primary_total_load_w", "primary_total_load_source", "actual_battery_draw_w"}
  BY DEF WithLoad
<1>2. DOMAIN ChargerLoad(row) = {"ac_output_estimate_w", "visible_load_estimate_w", "charger_headroom_estimate_w",
                                 "charger_load_percent", "battery_charge_acceptance_w"}
  BY DEF ChargerLoad
<1>3. \E f : /\ WithVerdicts(row) = Update(row, f)
             /\ DOMAIN f = {"charger_live_verdict", "powermetrics_component_note"}
  BY DEF WithVerdicts
<1> QED BY <1>1, <1>2, <1>3, UpdateCarries DEF Net, WithCharger

LEMMA StressFree ==
  ASSUME NEW ps
  PROVE  Net \notin DOMAIN StressProcessActivity(ps)
<1>1. DOMAIN StressProcessActivity(ps) = {"stress_process_count", "stress_cpu_percent", "stress_workload_active"}
  BY DEF StressProcessActivity
<1> QED BY <1>1 DEF Net

LEMMA BaselineCarries ==
  ASSUME NEW bl, NEW row, NEW w, Carries(row, w)
  PROVE  Carries(BaselineEnrich(bl, row), w)
<1>1. \E f : /\ BaselineEnrich(bl, row) = Update(row, f)
             /\ DOMAIN f = {"baseline_locked", "baseline_power_source", "baseline_primary_total_load_w",
                            "load_delta_primary_total_load_w", "load_delta_cpu_power_w",
                            "load_delta_gpu_power_w"}
  BY DEF BaselineEnrich
<1> QED BY <1>1, UpdateCarries DEF Net

\* The answers of the two workers say nothing of it.
LEMMA PowerFree ==
  ASSUME NEW name
  PROVE  Net \notin DOMAIN PmAnswer(name)
<1>1. Net \notin MetricKeys
  BY DEF Net, MetricKeys
<1>2. DOMAIN PmOff = MetricKeys \cup {"pm_status", "soc_power_w", "cpu_power_w", "gpu_power_w",
                                      "p_cluster_active_percent", "thermal_pressure"}
  BY DEF PmOff, Update
<1>3. ASSUME NEW out PROVE Net \notin DOMAIN ParsePowermetricsOutput(out)
  <2>1. \E d, f : /\ ParsePowermetricsOutput(out) = DeriveCpuClusterFields(Update(d, f))
                  /\ DOMAIN d = MetricKeys
                  /\ DOMAIN f = {"pm_status", "soc_power_w", "cpu_power_w", "gpu_power_w",
                                 "p_cluster_active_percent", "thermal_pressure"}
    <3>1. \E v1, v2, v3, v4, v5 :
            ParsePowermetricsOutput(out) =
              DeriveCpuClusterFields(Update([k \in MetricKeys |-> GetNum(out, k)],
                [pm_status |-> "ok", soc_power_w |-> v1, cpu_power_w |-> v2, gpu_power_w |-> v3,
                 p_cluster_active_percent |-> v4, thermal_pressure |-> v5]))
      BY Zenon DEF ParsePowermetricsOutput
    <3> QED BY <3>1
  <2>2. PICK d, f : /\ ParsePowermetricsOutput(out) = DeriveCpuClusterFields(Update(d, f))
                    /\ DOMAIN d = MetricKeys
                    /\ DOMAIN f = {"pm_status", "soc_power_w", "cpu_power_w", "gpu_power_w",
                                   "p_cluster_active_percent", "thermal_pressure"}
    BY <2>1
  <2>3. Net \notin DOMAIN Update(d, f)
    BY <1>1, <2>2 DEF Update, Net
  <2> QED BY <2>2, <2>3, CpuFree
<1>4. ASSUME NEW r, NEW text, Net \notin DOMAIN r PROVE Net \notin DOMAIN [r EXCEPT !.pm_status = text]
  BY <1>4
<1>5. Net \notin DOMAIN PmOff
  BY <1>1, <1>2 DEF Net
<1>6. ASSUME NEW outcomes PROVE Net \notin DOMAIN PmRunOnce(outcomes)
  <2> HIDE DEF Net
  <2>1. \/ \E text : PmRunOnce(outcomes) = [PmOff EXCEPT !.pm_status = text]
        \/ \E out, text : PmRunOnce(outcomes) = [ParsePowermetricsOutput(out) EXCEPT !.pm_status = text]
        \/ \E out : PmRunOnce(outcomes) = ParsePowermetricsOutput(out)
    BY Zenon DEF PmRunOnce
  <2> QED BY <1>3, <1>4, <1>5, <2>1
<1> QED BY <1>4, <1>5, <1>6 DEF PmAnswer

LEMMA ProfileFree ==
  ASSUME NEW name
  PROVE  Net \notin DOMAIN SpAnswer(name)
<1>1. Net \notin SpFields
  BY DEF Net, SpFields
<1>2. ASSUME NEW f, DOMAIN f = SpFields PROVE Net \notin DOMAIN WithEnergyModes(f)
  <2>1. \E e : WithEnergyModes(f) = Update(f, e) /\ DOMAIN e = {"sp_ac_energy_mode", "sp_battery_energy_mode"}
    BY DEF WithEnergyModes
  <2> QED BY <1>1, <1>2, <2>1 DEF Update, Net
<1>3. ASSUME NEW d, NEW status, Net \notin DOMAIN d PROVE Net \notin DOMAIN Update(d, [sp_status |-> status])
  BY <1>3 DEF Update, Net
<1>4. ASSUME NEW json, NEW text PROVE Net \notin DOMAIN ReadSystemProfilerPower(json, text)
  <2> HIDE DEF Net
  <2>1. \E f, status : /\ DOMAIN f = SpFields
                       /\ \/ ReadSystemProfilerPower(json, text) = Update(WithEnergyModes(f), [sp_status |-> status])
                          \/ ReadSystemProfilerPower(json, text) = Update(f, [sp_status |-> status])
    <3> DEFINE sections == IF json = Junk THEN << >> ELSE json
               bad      == {i \in DOMAIN sections : sections[i].fields = Junk}
               seen     == {i \in DOMAIN sections : \A j \in bad : i < j}
               of(k)    == {i \in seen : k \in FieldsOf(sections[i].name)}
               read     == [k \in SpFields |-> IF of(k) = {} THEN None
                                               ELSE Get(sections[Max(of(k))].fields, k)]
               both     == [k \in SpFields |-> IF k \in TextFields /\ Get(text, k) # None
                                               THEN text[k] ELSE read[k]]
    <3>1. ReadSystemProfilerPower(json, text) =
            IF json # Junk /\ bad = {} THEN Update(WithEnergyModes(read), [sp_status |-> "ok-json"])
            ELSE IF text = Junk THEN Update(read, [sp_status |-> "error"])
            ELSE Update(WithEnergyModes(both), [sp_status |-> "ok-text"])
      BY DEF ReadSystemProfilerPower
    <3>2. DOMAIN read = SpFields /\ DOMAIN both = SpFields
      OBVIOUS
    <3> HIDE DEF bad, read, both
    <3> QED BY <3>1, <3>2, Zenon
  <2> QED BY <1>1, <1>2, <1>3, <2>1
<1>5. Net \notin DOMAIN [sp_status |-> "starting"]
  BY DEF Net
<1> QED BY <1>4, <1>5 DEF SpAnswer

\* Of some dictionaries that one alone has, the whole has too.
LEMMA MergedCarries ==
  ASSUME NEW dicts, NEW i \in DOMAIN dicts, NEW w, Carries(dicts[i], w),
         \A j \in DOMAIN dicts : j # i => Net \notin DOMAIN dicts[j]
  PROVE  Carries(Merged(dicts), w)
<1> HIDE DEF Net
<1>1. Net \in DOMAIN dicts[i] /\ dicts[i][Net] = w
  BY DEF Carries
<1>2. (CHOOSE j \in DOMAIN dicts : Net \in DOMAIN dicts[j]) = i
  BY <1>1
<1>3. Net \in UNION {DOMAIN dicts[j] : j \in DOMAIN dicts}
  BY <1>1
<1>4. Net \in DOMAIN Merged(dicts) /\ Merged(dicts)[Net] = dicts[i][Net]
  BY <1>2, <1>3 DEF Merged
<1> QED BY <1>1, <1>4 DEF Carries

\* The power of the battery is the product of its voltage and its current.
LEMMA ElectricalType ==
  ASSUME NEW b, \A k \in {"Voltage", "InstantAmperage", "Amperage"} : GetNum(b, k) \in Int \cup {None}
  PROVE  BatteryElectrical(b).net \in Int \cup {None}
<1> DEFINE mv == GetNum(b, "Voltage")
           ma == IF GetNum(b, "InstantAmperage") # None THEN GetNum(b, "InstantAmperage")
                 ELSE GetNum(b, "Amperage")
<1>1. mv \in Int \cup {None} /\ ma \in Int \cup {None}
  OBVIOUS
<1>2. BatteryElectrical(b).net = IF None \in {mv, ma} THEN None ELSE (mv * ma) \div 1000
  BY DEF BatteryElectrical
<1> HIDE DEF mv, ma
<1>3. ASSUME NEW x \in Int, NEW y \in Int PROVE (x * y) \div 1000 \in Int
  <2> DEFINE z == x * y
  <2>1. z \in Int
    OBVIOUS
  <2> HIDE DEF z
  <2>2. z \div 1000 \in Int
    BY <2>1
  <2> QED BY <2>2 DEF z
<1> QED BY <1>1, <1>2, <1>3

LEMMA BatteryCarries ==
  ASSUME NEW b, NEW banks, NEW text, NEW phaseText
  PROVE  Carries(BatteryRow(b, banks, text, phaseText), BatteryElectrical(b).net)
<1> DEFINE net == BatteryElectrical(b).net
<1>1. PICK r : /\ Carries(r, net)
               /\ BatteryRow(b, banks, text, phaseText) =
                    Merged(<<r, TemperatureFromBattery(b, banks), BatteryDataStats(b, banks),
                             PowerTelemetryStats(b), PowerDistributionStats(b), AdapterInfo(b)>>)
  <2>1. \E v1, v2, v3, v4, v5, v6, v7, v8, v9, v10, v11, v12, v13 :
          BatteryRow(b, banks, text, phaseText) =
            Merged(<<[phase |-> v1, mode |-> v2, power_source |-> v3, pmset_state |-> v4,
                      battery_percent |-> v5, net_battery_watts |-> net, battery_voltage_v |-> v6,
                      battery_amperage_a |-> v7, whole_mac_watts_estimate |-> v8,
                      estimated_wh_remaining |-> v9, estimated_wh_full |-> v10,
                      battery_health_percent |-> v11, menu_time_estimate |-> v12,
                      avg_time_to_full |-> v13,
                      avg_time_to_empty |-> TimeFieldMinutes(Get(b, "AvgTimeToEmpty"))],
                     TemperatureFromBattery(b, banks), BatteryDataStats(b, banks),
                     PowerTelemetryStats(b), PowerDistributionStats(b), AdapterInfo(b)>>)
    BY ZenonT(40) DEF BatteryRow
  <2> HIDE DEF net
  <2> QED BY <2>1 DEF Carries, Net
<1> DEFINE t == TemperatureFromBattery(b, banks)
           s == BatteryDataStats(b, banks)
           p == PowerTelemetryStats(b)
           q == PowerDistributionStats(b)
           a == AdapterInfo(b)
           dicts == <<r, t, s, p, q, a>>
<1>2. Net \notin DOMAIN t
  <2>1. \E v1, v2 : t = [battery_temp_c |-> v1, virtual_temp_c |-> v2]
    BY Zenon DEF TemperatureFromBattery
  <2> QED BY <2>1 DEF Net
<1>3. Net \notin DOMAIN s
  <2>1. DOMAIN s = {"bms_system_power_w", "bms_adapter_power_w", "bms_state_of_charge", "bms_daily_min_soc",
                    "bms_daily_max_soc", "cell_voltage_delta_mv", "qmax_delta", "weighted_ra_delta",
                    "lifetime_max_temp", "lifetime_min_temp"}
    BY DEF BatteryDataStats
  <2> QED BY <2>1 DEF Net
<1>4. Net \notin DOMAIN p
  BY DEF PowerTelemetryStats, Net
<1>5. Net \notin DOMAIN q
  BY DEF PowerDistributionStats, Net
<1>6. Net \notin DOMAIN a
  BY DEF AdapterInfo, Net
<1> HIDE DEF net, t, s, p, q, a
<1>7. /\ DOMAIN dicts = 1..6 /\ dicts[1] = r /\ dicts[2] = t /\ dicts[3] = s
      /\ dicts[4] = p /\ dicts[5] = q /\ dicts[6] = a
  OBVIOUS
<1>8. BatteryRow(b, banks, text, phaseText) = Merged(dicts)
  BY <1>1 DEF t, s, p, q, a
<1> HIDE DEF dicts
<1>9. \A j \in DOMAIN dicts : j # 1 => Net \notin DOMAIN dicts[j]
  BY <1>2, <1>3, <1>4, <1>5, <1>6, <1>7
<1> QED BY <1>1, <1>7, <1>8, <1>9, MergedCarries DEF net

\* Every reading has it.
LEMMA ReadingCarries ==
  ASSUME NEW reading \in Readings
  PROVE  \E w \in Int \cup {None} : Carries(reading.row, w)
<1>1. PICK seen \in Machines, after \in Machines,
           p \in DOMAIN PmOutcomes \cup {"starting"}, q \in DOMAIN SpOutcomes \cup {"starting"} :
        reading.row = CollectReading(
          BatteryRow(Says[seen].battery, Says[seen].banks, Says[after].pmset, Says[after].phase),
          PmAnswer(p), SpAnswer(q), StressProcessActivity(Says[after].ps))
  BY DEF Readings
<1> DEFINE b == Says[seen].battery
           w == BatteryElectrical(b).net
           battery == BatteryRow(b, Says[seen].banks, Says[after].pmset, Says[after].phase)
           stress == StressProcessActivity(Says[after].ps)
           profile == IF SpAnswer(q) = None THEN SpOff ELSE SpAnswer(q)
           power == IF PmAnswer(p) = None THEN PmOff ELSE PmAnswer(p)
           answers == Merged(<<profile, power, battery>>)
<1>2. w \in Int \cup {None}
  <2>1. \A k \in {"Voltage", "InstantAmperage", "Amperage"} : GetNum(b, k) \in Int \cup {None}
    BY SaysAssumption
  <2> HIDE DEF b
  <2> QED BY <2>1, ElectricalType
<1>3. Carries(battery, w)
  BY BatteryCarries
<1>4. Net \notin DOMAIN profile /\ Net \notin DOMAIN power
  <2>1. DOMAIN SpOff = SpFields \cup {"sp_status", "sp_ac_energy_mode", "sp_battery_energy_mode"}
    BY DEF SpOff, Update
  <2>2. DOMAIN PmOff = MetricKeys \cup {"pm_status", "soc_power_w", "cpu_power_w", "gpu_power_w",
                                        "p_cluster_active_percent", "thermal_pressure"}
    BY DEF PmOff, Update
  <2>3. Net \notin DOMAIN SpOff
    BY <2>1 DEF SpFields, Net
  <2>4. Net \notin DOMAIN PmOff
    BY <2>2 DEF MetricKeys, Net
  <2>5. Net \notin DOMAIN SpAnswer(q) /\ Net \notin DOMAIN PmAnswer(p)
    BY ProfileFree, PowerFree
  <2> QED BY <2>3, <2>4, <2>5
<1>5. Net \notin DOMAIN stress
  BY StressFree
<1> HIDE DEF w, b, battery, profile, power
<1>6. Carries(answers, w)
  <2> DEFINE dicts == <<profile, power, battery>>
  <2>1. DOMAIN dicts = 1..3 /\ dicts[1] = profile /\ dicts[2] = power /\ dicts[3] = battery
    OBVIOUS
  <2> HIDE DEF dicts
  <2>2. \A j \in DOMAIN dicts : j # 3 => Net \notin DOMAIN dicts[j]
    BY <1>4, <2>1
  <2>3. Carries(Merged(dicts), w)
    BY <1>3, <2>1, <2>2, MergedCarries
  <2> QED BY <2>3 DEF dicts
<1> HIDE DEF answers, stress
<1>7. reading.row = WithVerdicts(Update(WithCharger(WithLoad(DeriveThermalPressureFields(
                      DeriveCpuClusterFields(answers)))), stress))
  BY <1>1 DEF CollectReading, answers, profile, power, battery, stress, b
<1> DEFINE r1 == DeriveCpuClusterFields(answers)
           r2 == DeriveThermalPressureFields(r1)
           r3 == WithLoad(r2)
           r4 == WithCharger(r3)
           r5 == Update(r4, stress)
<1>8. Carries(r1, w)
  BY <1>6, CpuCarries
<1> HIDE DEF r1
<1>9. Carries(r2, w)
  BY <1>8, ThermalCarries
<1> HIDE DEF r2
<1>10. Carries(r3, w)
  BY <1>9, LoadCarries
<1> HIDE DEF r3
<1>11. Carries(r4, w)
  BY <1>10, LoadCarries
<1> HIDE DEF r4
<1>12. Carries(r5, w)
  BY <1>5, <1>11, UpdateCarries
<1> HIDE DEF r5
<1>13. Carries(WithVerdicts(r5), w)
  BY <1>12, LoadCarries
<1>14. reading.row = WithVerdicts(r5)
  BY <1>7 DEF r1, r2, r3, r4, r5
<1> QED BY <1>2, <1>13, <1>14

-----------------------------------------------------------------------------
(* The monitor's types and bounds. *)

Fit(l) == LogOK(l) /\ l.event_count = Len(Ev(l)) /\ l.debug \in 0..50

BaselineOK(bl) == DOMAIN bl = {"start", "rows", "locked", "average", "source"} /\ bl.locked \in BOOLEAN

TrackerOK(tr, n) ==
  /\ DOMAIN tr = {"samples", "last", "charged", "discharged", "net", "maxTemp", "maxCharge",
                  "maxDischarge", "maxMac", "maxSoc"}
  /\ IsSeq(tr.samples) /\ Len(tr.samples) <= n
  /\ tr.last \in Int \cup {None} /\ tr.charged \in Nat /\ tr.discharged \in Nat

HealthOK(h) == IsSeq(h) /\ Len(h) <= HealthSamples

WorkerOK(w) == DOMAIN w = {"alive", "latest"} /\ w.alive \in BOOLEAN

Stages == {"starting", "running", "stopping", "stopped", "failed"}

BoundInv ==
  /\ IInv /\ Fit(log)
  /\ machine \in Machines /\ WorkerOK(pm) /\ WorkerOK(sp) /\ stage \in Stages
  /\ BaselineOK(baseline) /\ TrackerOK(tracker, rows) /\ HealthOK(health)
  /\ detector.failed = FALSE
  /\ rows \in 0..MaxRows /\ upsets \in 0..MaxUpsets

\* What is written to the files is counted, and the debug file is bounded.
LEMMA FitEvent ==
  ASSUME NEW l, Fit(l), NEW e, NEW flushes
  PROVE  Fit(WriteEvent(l, e, flushes))
<1> DEFINE w == WriteEvent(l, e, flushes)
<1>1. LogOK(w) /\ Ev(w) = Append(Ev(l), e)
  BY WriteEventAdds DEF Fit
<1>2. w.event_count = l.event_count + 1 /\ w.debug = l.debug
  BY DEF WriteEvent, Fit, LogOK
<1> HIDE DEF w
<1>3. Len(Append(Ev(l), e)) = Len(Ev(l)) + 1
  <2> DEFINE s == Ev(l)
  <2>1. IsSeq(s)
    BY FilesAreSeqs DEF Fit
  <2> HIDE DEF s
  <2>2. Len(Append(s, e)) = Len(s) + 1
    BY <2>1, AppendSeq
  <2> QED BY <2>2 DEF s
<1>4. Fit(w)
  BY <1>1, <1>2, <1>3 DEF Fit
<1> QED BY <1>4 DEF w

LEMMA FitEvents ==
  ASSUME NEW l, Fit(l), NEW d, IsSeq(d.out), d.failed => d.out # <<>>
  PROVE  Fit(WriteEvents(l, d))
<1> DEFINE w == WriteEvents(l, d)
           out == d.out
<1>1. LogOK(w) /\ Ev(w) = Ev(l) \o out
  BY WriteEventsAdd DEF Fit
<1>2. w.event_count = l.event_count + Len(out) /\ w.debug = l.debug
  BY DEF WriteEvents, Fit, LogOK
<1> HIDE DEF w
<1>3. Len(Ev(l) \o out) = Len(Ev(l)) + Len(out)
  <2> DEFINE s == Ev(l)
  <2>1. IsSeq(s) /\ IsSeq(out)
    BY FilesAreSeqs DEF Fit
  <2> HIDE DEF s, out
  <2>2. Len(s \o out) = Len(s) + Len(out)
    BY <2>1, ConcatSeq
  <2> QED BY <2>2 DEF s
<1> HIDE DEF out
<1>4. Fit(w)
  BY <1>1, <1>2, <1>3 DEF Fit
<1> QED BY <1>4 DEF w

LEMMA FitFiles ==
  ASSUME NEW l, Fit(l)
  PROVE  /\ \A line, flushes : Fit(WriteCsv(l, line, flushes))
         /\ \A succeeds : Fit(MaybeWriteDebug(l, succeeds))
         /\ \A flushes : Fit(CloseLog(l, flushes))
         /\ \A t, how : Fit(Handle(l, t, how))
<1>1. ASSUME NEW line, NEW flushes PROVE Fit(WriteCsv(l, line, flushes))
  <2> DEFINE w == WriteCsv(l, line, flushes)
  <2>1. LogOK(w) /\ Ev(w) = Ev(l)
    BY WriteCsvAdds DEF Fit
  <2>2. w.event_count = l.event_count /\ w.debug = l.debug
    BY DEF WriteCsv, Fit, LogOK
  <2> QED BY <2>1, <2>2 DEF Fit
<1>2. ASSUME NEW succeeds PROVE Fit(MaybeWriteDebug(l, succeeds))
  <2> DEFINE w == MaybeWriteDebug(l, succeeds)
  <2>1. LogOK(w) /\ Ev(w) = Ev(l)
    BY DebugAddsNothing DEF Fit
  <2>2. /\ w.event_count = l.event_count
        /\ w.debug = IF ~DebugDue(l) THEN l.debug ELSE IF ~succeeds THEN 0
                     ELSE IF l.debug < 50 THEN l.debug + 1 ELSE l.debug
    BY DEF MaybeWriteDebug, Fit, LogOK
  <2> HIDE DEF w
  <2>3. w.debug \in 0..50
    <3>1. l.debug \in 0..50
      BY DEF Fit
    <3>2. \/ w.debug = l.debug
          \/ w.debug = 0
          \/ l.debug < 50 /\ w.debug = l.debug + 1
      BY <2>2
    <3> QED BY <3>1, <3>2
  <2>4. Fit(w)
    BY <2>1, <2>2, <2>3 DEF Fit
  <2> QED BY <2>4 DEF w
<1>3. ASSUME NEW flushes PROVE Fit(CloseLog(l, flushes))
  <2> DEFINE w == CloseLog(l, flushes)
  <2>1. LogOK(w) /\ Ev(w) = Ev(l)
    BY CloseAddsNothing DEF Fit
  <2>2. w.event_count = l.event_count /\ w.debug = l.debug
    BY DEF CloseLog, Fit, LogOK
  <2> QED BY <2>1, <2>2 DEF Fit
<1>4. ASSUME NEW t, NEW how PROVE Fit(Handle(l, t, how))
  <2>1. Fit(WriteEvent(l, Event("monitor_error", t), how = "written"))
    BY FitEvent
  <2> QED BY <2>1 DEF Handle
<1> QED BY <1>1, <1>2, <1>3, <1>4

\* A row through the baseline.
LEMMA BaselineKeeps ==
  ASSUME NEW bl, BaselineOK(bl), NEW row, NEW t
  PROVE  BaselineOK(BaselineAdd(bl, row, t))
BY DEF BaselineOK, BaselineAdd, Lock

\* A row through the statistics: the window grows by one sample at most, and
\* its energy counts as charged or as discharged.
LEMMA TrackerKeeps ==
  ASSUME NEW tr, NEW n \in Nat, TrackerOK(tr, n), NEW row, NEW w \in Int \cup {None}, Carries(row, w),
         NEW t \in Nat
  PROVE  TrackerOK(TrackerAdd(tr, row, t), n + 1)
<1> DEFINE energy == IF None \in {tr.last, w} THEN 0 ELSE w * (t - tr.last)
           entry  == [t |-> t, percent |-> row.battery_percent, temp |-> row.battery_temp_c, net |-> w,
                      mac |-> row.whole_mac_watts_estimate]
           more   == Append(tr.samples, entry)
           kept   == Filter(more, LAMBDA s : s.t >= t - Window)
           new    == TrackerAdd(tr, row, t)
<1>1. row.net_battery_watts = w
  BY DEF Carries, Net
<1>2. /\ DOMAIN new = DOMAIN tr /\ new.last = t /\ new.samples = kept
      /\ new.charged = IF energy >= 0 THEN tr.charged + energy ELSE tr.charged
      /\ new.discharged = IF energy >= 0 THEN tr.discharged ELSE tr.discharged + Abs(energy)
  BY <1>1 DEF TrackerAdd, TrackerOK
<1>3. energy \in Int
  <2>1. CASE None \in {tr.last, w}
    BY <2>1
  <2>2. CASE None \notin {tr.last, w}
    <3>1. w \in Int /\ t - tr.last \in Int
      BY <2>2 DEF TrackerOK
    <3> DEFINE d == t - tr.last
    <3> HIDE DEF d
    <3>2. w * d \in Int
      BY <3>1 DEF d
    <3> QED BY <2>2, <3>2 DEF d
  <2> QED BY <2>1, <2>2
<1> HIDE DEF energy
<1>4. new.charged \in Nat /\ new.discharged \in Nat
  <2>1. tr.charged \in Nat /\ tr.discharged \in Nat
    BY DEF TrackerOK
  <2> HIDE DEF new
  <2> QED BY <1>2, <1>3, <2>1 DEF Abs
<1>5. IsSeq(kept) /\ Len(kept) <= n + 1
  <2> DEFINE s == tr.samples
             P == {i \in DOMAIN more : more[i].t >= t - Window}
  <2>1. IsSeq(s) /\ Len(s) <= n
    BY DEF TrackerOK
  <2>2. kept = At(more, P)
    BY DEF Filter
  <2> HIDE DEF kept, s, entry
  <2>3. IsSeq(more) /\ Len(more) = Len(s) + 1 /\ Len(s) \in Nat
    BY <2>1, AppendSeq, SeqDomain DEF s
  <2>4. P \subseteq DOMAIN more
    OBVIOUS
  <2> HIDE DEF P, more
  <2>5. IsSeq(At(more, P)) /\ Len(At(more, P)) <= Len(more)
    <3>1. /\ IsFiniteSet(DOMAIN more) /\ Cardinality(DOMAIN more) = Len(more) /\ DOMAIN more \subseteq Int
      <4>1. DOMAIN more = 1 .. Len(more) /\ Len(more) \in Nat
        BY <2>3, SeqDomain
      <4> QED BY <4>1, FirstNumbers
    <3>2. IsFiniteSet(P) /\ Cardinality(P) <= Len(more) /\ P \subseteq Int
      BY <2>4, <3>1, FS_Subset
    <3> QED BY <3>2, AtPlaces
  <2> QED BY <2>1, <2>2, <2>3, <2>5
<1> HIDE DEF new, kept
<1>6. TrackerOK(new, n + 1)
  BY <1>2, <1>4, <1>5 DEF TrackerOK
<1> QED BY <1>6 DEF new

\* The samples of the stable health are the last HealthSamples at most.
LEMMA HealthKeeps ==
  ASSUME NEW h, HealthOK(h), NEW row
  PROVE  HealthOK(HealthEnrich(h, row))
<1> DEFINE v == row.battery_health_percent
           s == Append(h, v)
<1>1. /\ IsSeq(s) /\ Len(s) = Len(h) + 1 /\ Len(h) \in Nat
  BY AppendSeq, SeqDomain DEF HealthOK
<1>2. \/ HealthEnrich(h, row) = h
      \/ HealthEnrich(h, row) = Tail(s) /\ Len(s) > HealthSamples
      \/ HealthEnrich(h, row) = s /\ ~(Len(s) > HealthSamples)
  BY DEF HealthEnrich
<1> HIDE DEF s
<1>3. HealthSamples \in Nat /\ Len(h) <= HealthSamples
  BY WatchAssumption DEF HealthOK
<1>4. CASE HealthEnrich(h, row) = Tail(s) /\ Len(s) > HealthSamples
  <2>1. s \in Seq(Range(s)) /\ s # <<>>
    BY <1>1, EmptySeqIs DEF IsSeq
  <2>2. Tail(s) \in Seq(Range(s)) /\ Len(Tail(s)) = Len(s) - 1
    BY <2>1
  <2>3. IsSeq(Tail(s))
    BY <2>2, AnySeq
  <2> QED BY <1>1, <1>3, <1>4, <2>2, <2>3 DEF HealthOK
<1>5. CASE HealthEnrich(h, row) = s /\ ~(Len(s) > HealthSamples)
  <2>1. Len(s) <= HealthSamples
    BY <1>1, <1>3, <1>5
  <2> QED BY <1>1, <1>5, <2>1 DEF HealthOK
<1> QED BY <1>2, <1>4, <1>5

\* What an iteration leaves, whatever is raised in it.
LEMMA ConcludeBounded ==
  ASSUME BoundInv, NEW bl, BaselineOK(bl), NEW tr, TrackerOK(tr, rows + 1), NEW stat, NEW after,
         NEW t \in Nat, Conclude(bl, tr, stat, DetectorProcess(detector, stat, t, 0), after, t)
  PROVE  /\ Fit(log') /\ stage' \in {stage, "stopping"}
         /\ BaselineOK(baseline') /\ TrackerOK(tracker', rows + 1) /\ HealthOK(health')
         /\ detector'.failed = FALSE /\ upsets' \in 0..MaxUpsets
<1> DEFINE d(n)   == DetectorProcess(detector, stat, t, n)
           whole  == d(0)
           line   == CsvLine(stat, whole.auto_phase, "ok", t)
           noApps == CsvLine(stat, whole.auto_phase, "error", t)
           evs    == WriteEvents(log, whole)
           app(flushes) == WriteEvent(evs, Event("app_power_error", t), flushes)
<1>1. \A n \in Nat : /\ DOMAIN d(n) = DetectorFields /\ IsSeq(d(n).out)
                     /\ d(n).failed => d(n).out # <<>>
  <2> SUFFICES ASSUME NEW n \in Nat
               PROVE  /\ DOMAIN d(n) = DetectorFields /\ IsSeq(d(n).out)
                      /\ d(n).failed => d(n).out # <<>>
    OBVIOUS
  <2>1. LogOK(log) /\ Good(Ev(log), Wr(log), detector.prev, detector.load_started,
                           detector.ac_discharging_since, now)
        /\ DOMAIN detector = DetectorFields
    BY DEF BoundInv, IInv, FineWith, Fine
  <2>2. IsSeq(Ev(log))
    BY <2>1, FilesAreSeqs
  <2>3. /\ detector.load_started \in BOOLEAN /\ Alternates(Ev(log), detector.load_started)
        /\ detector.prev = <<>> => detector.ac_discharging_since = None
    BY <2>1 DEF Good
  <2>4. /\ DOMAIN d(n) = DetectorFields
        /\ Chunk(Ev(log), d(n).out, detector.prev, detector.ac_discharging_since, d(n).prev,
                 d(n).load_started, d(n).ac_discharging_since, stat, t)
        /\ d(n).failed => n # 0 /\ d(n).out # <<>>
    BY <2>1, <2>2, <2>3, ProcessRow
  <2> HIDE DEF d
  <2> QED BY <2>4 DEF Chunk
<1>2. PICK kind \in Kinds :
        /\ upsets' = upsets + (IF kind = "none" THEN 0 ELSE 1) + (IF after = machine THEN 0 ELSE 1)
        /\ upsets' <= MaxUpsets
        /\ \/ kind = "collect" /\ Raise(log, t) /\ UNCHANGED <<baseline, tracker, detector, phases, health>>
           \/ /\ kind = "emit"
              /\ \E n \in DOMAIN whole.out : Track(bl, tr, d(n)) /\ Raise(WriteEvents(log, d(n)), t)
              /\ UNCHANGED <<phases, health>>
           \/ /\ kind \notin {"collect", "emit"} /\ Finish(bl, tr, whole, WithPhase(stat, whole))
              /\ \/ kind = "none" /\ Pass(MaybeWriteDebug(WriteCsv(evs, line, TRUE), TRUE))
                 \/ kind = "app" /\ Pass(MaybeWriteDebug(WriteCsv(app(TRUE), noApps, TRUE), TRUE))
                 \/ kind = "appEvent" /\ Raise(app(FALSE), t)
                 \/ kind = "draw" /\ Raise(evs, t)
                 \/ kind = "csv" /\ Raise(WriteCsv(evs, line, FALSE), t)
                 \/ kind = "debug" /\ DebugDue(log) /\ Raise(MaybeWriteDebug(WriteCsv(evs, line, TRUE), FALSE), t)
  BY DEF Conclude
<1>3. upsets' \in 0..MaxUpsets
  <2>1. upsets \in Nat /\ MaxUpsets \in Nat
    BY WatchAssumption DEF BoundInv
  <2>2. /\ (IF kind = "none" THEN 0 ELSE 1) \in Nat /\ (IF after = machine THEN 0 ELSE 1) \in Nat
    OBVIOUS
  <2> QED BY <1>2, <2>1, <2>2
<1>4. \A n \in Nat : Fit(WriteEvents(log, d(n)))
  <2> HIDE DEF d
  <2> QED BY <1>1, FitEvents DEF BoundInv
<1>5. Fit(log) /\ Fit(evs) /\ \A flushes : Fit(app(flushes))
  <2>1. Fit(evs)
    BY <1>4
  <2> HIDE DEF evs
  <2> QED BY <2>1, FitEvent DEF BoundInv
<1>6. \A n \in DOMAIN whole.out : n \in Nat
  <2>1. IsSeq(whole.out)
    BY <1>1
  <2> HIDE DEF whole
  <2> QED BY <2>1, SeqDomain
<1>7. DOMAIN whole = DetectorFields
  BY <1>1
<1> HIDE DEF d, whole, line, noApps, evs, app
<1>8. ASSUME NEW l, Fit(l), Raise(l, t)
      PROVE  Fit(log') /\ stage' \in {stage, "stopping"}
  BY <1>8, FitFiles DEF Raise
<1>9. ASSUME NEW l, Fit(l), Pass(l)
      PROVE  Fit(log') /\ stage' \in {stage, "stopping"}
  BY <1>9 DEF Pass
<1>10. ASSUME NEW x, DOMAIN x = DetectorFields, Track(bl, tr, x)
       PROVE  BaselineOK(baseline') /\ TrackerOK(tracker', rows + 1) /\ detector'.failed = FALSE
  <2>1. detector' = [x EXCEPT !.out = <<>>, !.failed = FALSE, !.failAt = 0]
    BY <1>10 DEF Track
  <2>2. detector'.failed = FALSE
    BY <1>10, <2>1 DEF DetectorFields
  <2> QED BY <1>10, <2>2 DEF Track
<1>11. CASE kind = "collect" /\ Raise(log, t) /\ UNCHANGED <<baseline, tracker, detector, phases, health>>
  <2>1. TrackerOK(tracker, rows + 1)
    <3>1. TrackerOK(tracker, rows) /\ rows \in Nat
      BY WatchAssumption DEF BoundInv
    <3>2. Len(tracker.samples) \in Nat
      BY <3>1, SeqDomain DEF TrackerOK
    <3> QED BY <3>1, <3>2 DEF TrackerOK
  <2>2. Fit(log') /\ stage' \in {stage, "stopping"}
    BY <1>5, <1>8, <1>11
  <2>3. BaselineOK(baseline) /\ HealthOK(health) /\ detector.failed = FALSE
    BY DEF BoundInv
  <2> QED BY <1>3, <1>11, <2>1, <2>2, <2>3
<1>12. CASE /\ kind = "emit"
            /\ \E n \in DOMAIN whole.out : Track(bl, tr, d(n)) /\ Raise(WriteEvents(log, d(n)), t)
            /\ UNCHANGED <<phases, health>>
  <2>1. PICK n \in DOMAIN whole.out : Track(bl, tr, d(n)) /\ Raise(WriteEvents(log, d(n)), t)
    BY <1>12
  <2>2. n \in Nat /\ DOMAIN d(n) = DetectorFields
    BY <1>1, <1>6
  <2>3. Fit(log') /\ stage' \in {stage, "stopping"}
    BY <1>4, <1>8, <2>1, <2>2
  <2>4. BaselineOK(baseline') /\ TrackerOK(tracker', rows + 1) /\ detector'.failed = FALSE
    BY <1>10, <2>1, <2>2
  <2>5. HealthOK(health) /\ health' = health
    BY <1>12 DEF BoundInv
  <2> QED BY <1>3, <2>3, <2>4, <2>5
<1>13. CASE Finish(bl, tr, whole, WithPhase(stat, whole)) /\ kind \notin {"collect", "emit"}
  <2>1. /\ Track(bl, tr, whole) /\ health' = HealthEnrich(health, WithPhase(stat, whole))
    BY <1>13 DEF Finish
  <2>2. HealthOK(health')
    BY <2>1, HealthKeeps DEF BoundInv
  <2>3. BaselineOK(baseline') /\ TrackerOK(tracker', rows + 1) /\ detector'.failed = FALSE
    BY <1>7, <1>10, <2>1
  <2>4. /\ Fit(WriteCsv(evs, line, TRUE)) /\ Fit(WriteCsv(evs, line, FALSE))
        /\ Fit(WriteCsv(app(TRUE), noApps, TRUE)) /\ Fit(app(FALSE)) /\ Fit(evs)
    BY <1>5, FitFiles
  <2>5. /\ Fit(MaybeWriteDebug(WriteCsv(evs, line, TRUE), TRUE))
        /\ Fit(MaybeWriteDebug(WriteCsv(evs, line, TRUE), FALSE))
        /\ Fit(MaybeWriteDebug(WriteCsv(app(TRUE), noApps, TRUE), TRUE))
    BY <2>4, FitFiles
  <2>6. Fit(log') /\ stage' \in {stage, "stopping"}
    BY <1>2, <1>8, <1>9, <1>13, <2>4, <2>5
  <2> QED BY <1>3, <2>2, <2>3, <2>6
<1> QED BY <1>2, <1>11, <1>12, <1>13

\* The bounds in every reachable state.
LEMMA BoundsHold == Spec => []BoundInv
<1>1. Init /\ IInv => BoundInv
  <2> SUFFICES ASSUME Init, IInv PROVE BoundInv
    OBVIOUS
  <2>1. Fit(log)
    <3>1. log = EmptyLog /\ LogOK(log)
      BY DEF Init, IInv, FineWith, Fine
    <3>2. log.events = <<>> /\ log.buffer = <<>> /\ log.event_count = 0 /\ log.debug = 0
      BY <3>1 DEF EmptyLog
    <3>3. Len(<<>>) = 0 /\ <<>> \o <<>> = <<>>
      BY ShortSeq, ConcatSeq
    <3>4. 0 \in 0..50
      OBVIOUS
    <3> QED BY <3>1, <3>2, <3>3, <3>4 DEF Fit, Ev
  <2>2. /\ machine \in Machines /\ stage \in Stages
        /\ WorkerOK(pm) /\ WorkerOK(sp)
    BY DEF Init, Stages, WorkerOK
  <2>3. BaselineOK(baseline)
    BY DEF Init, NewBaseline, BaselineOK
  <2>4. TrackerOK(tracker, rows)
    <3>1. tracker = NewTracker /\ rows = 0
      BY DEF Init
    <3> QED BY <3>1, EmptySeqIs DEF NewTracker, TrackerOK
  <2>5. HealthOK(health)
    <3>1. health = <<>> /\ HealthSamples \in Nat
      BY WatchAssumption DEF Init
    <3> QED BY <3>1, EmptySeqIs DEF HealthOK
  <2>6. detector.failed = FALSE
    BY DEF Init, NewDetector
  <2>7. rows \in 0..MaxRows /\ upsets \in 0..MaxUpsets
    BY WatchAssumption DEF Init
  <2> QED BY <2>1, <2>2, <2>3, <2>4, <2>5, <2>6, <2>7 DEF BoundInv
<1>2. BoundInv /\ IInv' /\ [Next]_vars => BoundInv'
  <2> SUFFICES ASSUME BoundInv, IInv', [Next]_vars PROVE BoundInv'
    OBVIOUS
  <2>1. rows \in Nat /\ MaxRows \in Nat /\ upsets \in Nat /\ MaxUpsets \in Nat /\ now \in Nat
    BY WatchAssumption DEF BoundInv, IInv, FineWith, Fine, Good, Dated
  <2>2. ASSUME NEW w, WorkerOK(w), NEW b \in BOOLEAN PROVE WorkerOK([w EXCEPT !.alive = b])
    BY <2>2 DEF WorkerOK
  <2>3. CASE Start
    <3>1. /\ UNCHANGED <<machine, log, baseline, tracker, detector, health, rows>>
          /\ \/ stage' = "running" /\ pm' = [pm EXCEPT !.alive = TRUE] /\ sp' = [sp EXCEPT !.alive = TRUE]
                /\ upsets' = upsets
             \/ stage' = "failed" /\ upsets < MaxUpsets /\ upsets' = upsets + 1 /\ pm' = pm /\ sp' = sp
      BY <2>3 DEF Start
    <3>2. WorkerOK(pm') /\ WorkerOK(sp') /\ stage' \in Stages
      BY <2>2, <3>1 DEF BoundInv, Stages
    <3>3. upsets' \in 0..MaxUpsets
      BY <2>1, <3>1 DEF BoundInv
    <3> QED BY <3>1, <3>2, <3>3 DEF BoundInv
  <2>4. CASE PmSample \/ SpSample
    <3>1. /\ UNCHANGED <<machine, stage, log, baseline, tracker, detector, health, rows>>
          /\ upsets < MaxUpsets /\ upsets' = upsets + 1
          /\ \/ sp' = sp /\ \E o : pm' = [pm EXCEPT !.latest = o]
             \/ pm' = pm /\ \E o : sp' = [sp EXCEPT !.latest = o]
      BY <2>4 DEF PmSample, SpSample
    <3>2. WorkerOK(pm') /\ WorkerOK(sp')
      <4>1. WorkerOK(pm) /\ WorkerOK(sp)
        BY DEF BoundInv
      <4>2. CASE sp' = sp /\ \E o : pm' = [pm EXCEPT !.latest = o]
        <5>1. PICK o : pm' = [pm EXCEPT !.latest = o]
          BY <4>2
        <5> QED BY <4>1, <4>2, <5>1 DEF WorkerOK
      <4>3. CASE pm' = pm /\ \E o : sp' = [sp EXCEPT !.latest = o]
        <5>1. PICK o : sp' = [sp EXCEPT !.latest = o]
          BY <4>3
        <5> QED BY <4>1, <4>3, <5>1 DEF WorkerOK
      <4> QED BY <3>1, <4>2, <4>3
    <3>3. upsets' \in 0..MaxUpsets
      BY <2>1, <3>1
    <3> QED BY <3>1, <3>2, <3>3 DEF BoundInv
  <2>5. CASE Quit
    <3>1. /\ UNCHANGED <<machine, pm, sp, log, baseline, tracker, detector, health, rows, upsets>>
          /\ stage' \in Stages
      BY <2>5 DEF Quit, Stages
    <3> QED BY <3>1 DEF BoundInv
  <2>6. CASE Cleanup
    <3>1. PICK appRaises, flushes, closes \in BOOLEAN :
            /\ upsets' = upsets + (IF appRaises \/ ~flushes \/ ~closes THEN 1 ELSE 0)
            /\ upsets' <= MaxUpsets
            /\ log' = LET closing == IF appRaises THEN WriteEvent(log, Event("app_power_close_error", now), flushes)
                                     ELSE log
                      IN CloseLog(WriteEvent(closing, Event("run_stopped", now), flushes), closes)
      BY <2>6 DEF Cleanup
    <3> DEFINE closing == IF appRaises THEN WriteEvent(log, Event("app_power_close_error", now), flushes)
                          ELSE log
               stopped == WriteEvent(closing, Event("run_stopped", now), flushes)
    <3>2. Fit(closing)
      BY FitEvent DEF BoundInv
    <3>3. log' = CloseLog(stopped, closes)
      BY <3>1
    <3> HIDE DEF closing
    <3>4. Fit(stopped)
      BY <3>2, FitEvent
    <3> HIDE DEF stopped
    <3>5. Fit(log')
      BY <3>3, <3>4, FitFiles
    <3>6. upsets' \in 0..MaxUpsets
      <4>1. (IF appRaises \/ ~flushes \/ ~closes THEN 1 ELSE 0) \in Nat
        OBVIOUS
      <4> QED BY <2>1, <3>1, <4>1
    <3>7. /\ UNCHANGED <<machine, baseline, tracker, detector, health, rows>>
          /\ pm' = [pm EXCEPT !.alive = FALSE] /\ sp' = [sp EXCEPT !.alive = FALSE] /\ stage' \in Stages
      BY <2>6 DEF Cleanup, Stages
    <3>8. WorkerOK(pm') /\ WorkerOK(sp')
      BY <2>2, <3>7 DEF BoundInv
    <3> QED BY <3>5, <3>6, <3>7, <3>8 DEF BoundInv
  <2>7. CASE UNCHANGED vars
    BY <2>7 DEF BoundInv, vars
  <2>8. CASE Loop
    <3>1. PICK after \in Machines, seen \in Machines, dt \in Steps :
            Iterate(seen, after, now + dt) /\ machine' = after
      BY <2>8 DEF Loop
    <3>2. /\ stage = "running" /\ rows < MaxRows /\ rows' = rows + 1 /\ pm' = pm /\ sp' = sp
      BY <2>8 DEF Loop
    <3> DEFINE t == now + dt
    <3>3. t \in Nat
      BY <2>1, WatchAssumption
    <3> DEFINE based(r, bl) == BaselineEnrich(bl, r.row)
               tr(r, bl) == TrackerAdd(tracker, based(r, bl), t)
    <3>4. PICK reading \in Readings : \E bl, stat :
            /\ bl = BaselineAdd(baseline, reading.row, t)
            /\ Conclude(bl, tr(reading, bl), stat, DetectorProcess(detector, stat, t, 0), after, t)
      BY <3>1 DEF Iterate
    <3>5. PICK bl, stat :
            /\ bl = BaselineAdd(baseline, reading.row, t)
            /\ Conclude(bl, tr(reading, bl), stat, DetectorProcess(detector, stat, t, 0), after, t)
      BY <3>4
    <3> HIDE DEF t
    <3>6. BaselineOK(bl)
      BY <3>5, BaselineKeeps DEF BoundInv
    <3>7. TrackerOK(tr(reading, bl), rows + 1)
      <4>1. PICK w \in Int \cup {None} : Carries(reading.row, w)
        BY ReadingCarries
      <4> DEFINE row == based(reading, bl)
      <4>2. Carries(row, w)
        BY <4>1, BaselineCarries
      <4> HIDE DEF row
      <4>3. TrackerOK(TrackerAdd(tracker, row, t), rows + 1)
        BY <2>1, <3>3, <4>2, TrackerKeeps DEF BoundInv
      <4> QED BY <4>3 DEF row
    <3> DEFINE new == tr(reading, bl)
    <3>8. Conclude(bl, new, stat, DetectorProcess(detector, stat, t, 0), after, t)
      BY <3>5
    <3>9. TrackerOK(new, rows + 1)
      BY <3>7
    <3> HIDE DEF new
    <3>10. /\ Fit(log') /\ stage' \in {stage, "stopping"}
           /\ BaselineOK(baseline') /\ TrackerOK(tracker', rows + 1) /\ HealthOK(health')
           /\ detector'.failed = FALSE /\ upsets' \in 0..MaxUpsets
      BY <3>3, <3>6, <3>8, <3>9, ConcludeBounded
    <3>11. rows' \in 0..MaxRows /\ stage' \in Stages
      BY <2>1, <3>2, <3>10 DEF Stages
    <3> QED BY <3>1, <3>2, <3>10, <3>11 DEF BoundInv
  <2> QED BY <2>3, <2>4, <2>5, <2>6, <2>7, <2>8 DEF Next
<1> QED BY <1>1, <1>2, MonitorInvariant, PTL DEF Spec

\* The types of the monitor's state and its bounds: every event is counted
\* once, the debug snapshots, the stable health and the window of the
\* statistics stay within theirs, and no energy is counted below zero.
THEOREM TypesAndBounds == Spec => []TypeOK
<1>1. BoundInv => TypeOK
  <2> SUFFICES ASSUME BoundInv PROVE TypeOK
    OBVIOUS
  <2>1. now \in Nat /\ detector.load_started \in BOOLEAN
    BY DEF BoundInv, IInv, FineWith, Fine, Good, Dated
  <2>2. log.event_count = Len(AllEvents) /\ log.debug \in 0..50
    BY DEF BoundInv, Fit, Ev, AllEvents
  <2>3. Len(tracker.samples) <= rows /\ tracker.charged \in Nat /\ tracker.discharged \in Nat
    BY DEF BoundInv, TrackerOK
  <2>4. baseline.locked \in BOOLEAN /\ Len(health) <= HealthSamples
    BY DEF BoundInv, BaselineOK, HealthOK
  <2>5. pm.alive \in BOOLEAN /\ sp.alive \in BOOLEAN
    BY DEF BoundInv, WorkerOK
  <2> QED BY <2>1, <2>2, <2>3, <2>4, <2>5 DEF BoundInv, TypeOK, Stages
<1> QED BY <1>1, BoundsHold, PTL
=============================================================================
