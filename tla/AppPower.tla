------------------------------ MODULE AppPower ------------------------------
(***************************************************************************)
(* Application power in the legacy monitor (app_power_attribution.py): the *)
(* thread of AppPowerWorker, the engine's history of quiet rows and the    *)
(* files of AppPowerSessionLogger, with the part of mac_power_watch.py's   *)
(* loop that drives them.                                                  *)
(*                                                                         *)
(* The worker samples on its own clock and publishes its latest sample;    *)
(* every row of the monitor attributes its power with whatever is          *)
(* published, and the first row that sees a sample logs it.  A sample may  *)
(* raise what the worker does not catch, which ends its thread; a write    *)
(* may fail at each of its steps; the process may be killed at any point.  *)
(***************************************************************************)
EXTENDS AppActivity

CONSTANTS
  Outcomes,     \* how the commands of one sample can end, by name
  Rows,         \* what a row of the monitor can say, by name
  Steps,        \* the time between two rows
  Interval,     \* interval_s
  FlushEvery,   \* flush_every
  MaxSamples,   \* bound: samples of the worker
  MaxRows,      \* bound: rows of the monitor
  MaxFaults     \* bound: failed writes

ASSUME AppPowerAssumption ==
  /\ Steps \subseteq Nat \ {0}
  /\ {Interval, FlushEvery} \subseteq Nat \ {0}
  /\ {MaxSamples, MaxRows, MaxFaults} \subseteq Nat

(* What reaches the program as a list is one, and a number is an integer   *)
(* here; there is nothing that float() accepts and that is no number.      *)
Numeric(d, keys) == \A k \in keys : GetNum(d, k) \in Int \cup {None}

Listed(s) == s \in Seq(Range(s))

Columns == {"primary_total_load_w", "actual_battery_draw_w", "bms_system_power_w",
            "telemetry_system_effective_total_load_w", "soc_power_w", "cpu_power_w", "gpu_power_w",
            "baseline_cpu_power_w", "baseline_gpu_power_w", "baseline_primary_total_load_w"}

ASSUME RowsAssumption == \A r \in DOMAIN Rows : Columns \subseteq DOMAIN Rows[r] /\ Numeric(Rows[r], Columns)

PlistOK(plist) ==
  IsDict(plist) =>
    /\ Numeric(plist, {"elapsed"})
    /\ \A k \in {"coalitions", "tasks"} : k \in DOMAIN plist /\ IsDict(plist[k]) =>
         /\ Listed(plist[k])
         /\ \A i \in DOMAIN plist[k] : IsDict(plist[k][i]) =>
              Numeric(plist[k][i], Metrics \cup {CountOf[m] : m \in DOMAIN CountOf} \cup {"pid", "id", "responsible_pid"})

AnswerOK(answer) ==
  answer.kind = "ok" =>
    /\ PlistOK(answer.payload.whole) /\ Listed(answer.payload.chunks)
    /\ \A i \in DOMAIN answer.payload.chunks : PlistOK(answer.payload.chunks[i])

LinesOK(lines) ==
  lines # "failed" /\ lines # "uncaught" =>
    Listed(lines) /\ \A i \in DOMAIN lines : IsDict(lines[i]) => {lines[i].cpu, lines[i].rss} \subseteq Int \cup {None}

ASSUME OutcomesAssumption ==
  \A o \in DOMAIN Outcomes :
    /\ Listed(Outcomes[o].powermetrics) /\ \A j \in DOMAIN Outcomes[o].powermetrics : AnswerOK(Outcomes[o].powermetrics[j])
    /\ LinesOK(Outcomes[o].ps)

VARIABLES
  now,
  worker,   \* the thread: its clock, its cache of names and what it published
  history,  \* _quiet_power_by_source
  log,      \* the logger: its totals, and the three files
  shown,    \* the application fields of the latest row
  stage,    \* where the monitor is
  rows, faults

vars == <<now, worker, history, log, shown, stage, rows, faults>>

-----------------------------------------------------------------------------
(* The session log.                                                        *)

Energies == {"estimated_share_w", "estimated_dynamic_w", "estimated_cpu_w", "estimated_gpu_w",
             "estimated_residual_w"}

NoSummary == [sample_count |-> 0, observed |-> 0, system |-> 0, errors |-> 0, apps |-> << >>]

(* totals is what the logger knows; json and csv are the two summary files.*)
EmptyLog ==
  [last_id |-> None, last_at |-> None, totals |-> NoSummary,
   jsonl |-> << >>, buffer |-> << >>, json |-> NoSummary, csv |-> NoSummary]

(* The first sample counts its own window, every other one the time since  *)
(* the sample before; no less than 0.1 s and no more than a minute.        *)
IntervalOf(l, result) ==
  Clamp(IF l.last_at = None THEN Either(result.window, 10) ELSE result.at - l.last_at, 1, 600)

AggregateOf(apps, k) ==
  IF k \in DOMAIN apps THEN apps[k]
  ELSE [energy |-> [e \in Energies |-> 0], count |-> 0, peak |-> 0]

(* The energy e that applications give the key k in an interval.           *)
EnergyOf(apps, k, e, interval) ==
  MapThenSumSet(LAMBDA i : Positive(apps[i][e]) * interval, {i \in DOMAIN apps : apps[i].key = k})

(* _update_aggregate for every application of the sample.                  *)
UpdateAggregates(apps, result, interval) ==
  LET new      == result.apps
      keys     == {new[i].key : i \in DOMAIN new}
      of(k)    == {i \in DOMAIN new : new[i].key = k}
      grown(k) == LET old == AggregateOf(apps, k)
                  IN [energy |-> [e \in Energies |-> old.energy[e] + EnergyOf(new, k, e, interval)],
                      count |-> old.count + Cardinality(of(k)),
                      peak |-> Max({old.peak} \cup {Positive(new[i].estimated_share_w) : i \in of(k)})]
  IN [k \in DOMAIN apps \cup keys |-> grown(k)]

Line(result, interval) ==
  [sample_id |-> result.sample_id, interval |-> interval, status |-> result.status,
   source |-> result.source, confidence |-> result.confidence, error |-> result.error,
   total |-> result.total, total_source |-> result.total_source, power_source |-> result.power_source,
   baseline |-> result.baseline, pools |-> result.pools,
   unattributed |-> result.unattributed,
   apps |-> [i \in DOMAIN result.apps |-> [k \in Energies \cup {"key"} |-> result.apps[i][k]]]]

(* The totals are updated before anything is written.                      *)
Counted(l, result) ==
  LET interval == IntervalOf(l, result)
  IN [l EXCEPT !.last_id = result.sample_id, !.last_at = result.at,
               !.totals.sample_count = @ + 1,
               !.totals.observed = @ + interval,
               !.totals.system = @ + Positive(result.total) * interval,
               !.totals.errors = @ + (IF result.error = None THEN 0 ELSE 1),
               !.totals.apps = UpdateAggregates(@, result, interval)]

SummaryDue(l) == l.totals.sample_count = 1 \/ l.totals.sample_count % FlushEvery = 0

(* _flush_summary replaces one file after the other.                       *)
FlushSummary(l, files) ==
  [l EXCEPT !.json = IF files >= 1 THEN l.totals ELSE @, !.csv = IF files >= 2 THEN l.totals ELSE @]

Appended(l, line, flushes) ==
  IF flushes THEN [l EXCEPT !.jsonl = @ \o l.buffer \o <<line>>, !.buffer = << >>]
  ELSE [l EXCEPT !.buffer = Append(@, line)]

(* Whether the result is of a sample the log does not have.                *)
IsNew(l, result) == l.last_id # result.sample_id

\* Faulty: the totals are only updated when the sample was written.
WriteThenCount(l, result, reach) ==
  LET line == Line(result, IntervalOf(l, result))
  IN IF reach = 0 THEN Appended([l EXCEPT !.last_id = result.sample_id], line, FALSE)
     ELSE IF ~SummaryDue(Counted(l, result)) THEN Counted(Appended(l, line, TRUE), result)
     ELSE FlushSummary(Counted(Appended(l, line, TRUE), result), reach - 1)

(* write, as far as it gets: 0 is a line that stays in the buffer, 1 a     *)
(* line in the file, 2 and 3 a summary in one file and in both.            *)
Write(l, result, reach) ==
  LET counted == Counted(l, result)
      line    == Line(result, IntervalOf(l, result))
      written == Appended(counted, line, reach > 0)
  IN IF SummaryDue(counted) THEN FlushSummary(written, reach - 1) ELSE written

(* close, likewise: a flush that fails leaves the buffer, and what is in it *)
(* dies with the process.                                                  *)
CloseLog(l, files, flushes) ==
  LET flushed == FlushSummary(l, files)
  IN IF flushes THEN [flushed EXCEPT !.jsonl = @ \o flushed.buffer, !.buffer = << >>]
     ELSE flushed

(* How far a write gets when all is well.                                  *)
Complete(l, result) == IF SummaryDue(Counted(l, result)) THEN 3 ELSE 1

-----------------------------------------------------------------------------
(* The worker.                                                             *)

Starting == [sample_id |-> 0, at |-> now, window |-> 0, source |-> "none", status |-> "starting",
             error |-> None, activities |-> << >>]

Init ==
  /\ now = 0
  /\ worker = [alive |-> TRUE, stopping |-> FALSE, id |-> 0, due |-> 0, started |-> None,
               cache |-> << >>, outcome |-> None, snapshot |-> Starting]
  /\ history = << >> /\ log = EmptyLog /\ shown = EmptyRowFields /\ stage = "running"
  /\ rows = 0 /\ faults = 0

BeginSample ==
  /\ worker.alive /\ ~worker.stopping /\ worker.started = None
  /\ now >= worker.due /\ worker.id < MaxSamples
  /\ worker' = [worker EXCEPT !.id = @ + 1, !.started = now]
  /\ UNCHANGED <<now, history, log, shown, stage, rows, faults>>

\* Faulty: the thread does not count a sample that fell back to ps.
PublishedUncounted(sample, outcome) ==
  [worker EXCEPT !.snapshot = [sample_id |-> IF sample.status = "ok" THEN worker.id ELSE worker.id - 1, at |-> now,
                               window |-> sample.window, source |-> sample.source,
                               status |-> sample.status, error |-> sample.error,
                               activities |-> sample.activities],
                 !.outcome = outcome, !.cache = sample.cache, !.started = None,
                 !.due = IF worker.started + Interval > now THEN worker.started + Interval ELSE now + 1]

(* The sample is published, and the next one begins an interval after the  *)
(* beginning of this one, or 0.1 s from now.                               *)
Published(sample, outcome) ==
  [worker EXCEPT !.snapshot = [sample_id |-> worker.id, at |-> now, window |-> sample.window,
                               source |-> sample.source, status |-> sample.status,
                               error |-> sample.error, activities |-> sample.activities],
                 !.outcome = outcome, !.cache = sample.cache, !.started = None,
                 !.due = IF worker.started + Interval > now THEN worker.started + Interval ELSE now + 1]

EndSample ==
  /\ worker.alive /\ worker.started # None
  /\ \E o \in DOMAIN Outcomes : \E sample \in {Sample(Outcomes[o], worker.cache)} :
       worker' = IF sample.status = "uncaught"
                 THEN [worker EXCEPT !.alive = FALSE, !.started = None]
                 ELSE Published(sample, o)
  /\ UNCHANGED <<now, history, log, shown, stage, rows, faults>>

(* The thread sees the stop between two samples.                           *)
EndThread ==
  /\ worker.alive /\ worker.stopping /\ worker.started = None
  /\ worker' = [worker EXCEPT !.alive = FALSE]
  /\ UNCHANGED <<now, history, log, shown, stage, rows, faults>>

-----------------------------------------------------------------------------
(* The monitor.                                                            *)

(* One row: an exception of the log shows as an error of the row, and the  *)
(* monitor goes on; a kill may fall after any step of the write.           *)
Row ==
  /\ stage = "running" /\ rows < MaxRows
  /\ rows' = rows + 1
  /\ \E dt \in Steps, r \in DOMAIN Rows :
     \E result \in {Attribute(Rows[r], worker.snapshot, history, now + dt)} :
       LET error == [EmptyRowFields EXCEPT !.status = "error"]
       IN /\ now' = now + dt
          /\ history' = result.history
          /\ \/ /\ ~IsNew(log, result)
                /\ shown' = RowFields(result) /\ UNCHANGED <<log, stage, faults>>
             \/ /\ IsNew(log, result)
                /\ log' = Write(log, result, Complete(log, result))
                /\ shown' = RowFields(result) /\ UNCHANGED <<stage, faults>>
             \/ /\ IsNew(log, result)
                /\ \E reach \in 0 .. Complete(log, result) :
                     /\ log' = Write(log, result, reach)
                     /\ \/ stage' = "killed" /\ UNCHANGED <<shown, faults>>
                        \/ /\ reach < Complete(log, result) /\ faults < MaxFaults
                           /\ faults' = faults + 1 /\ shown' = error /\ UNCHANGED stage
  /\ UNCHANGED worker

(* q or Ctrl-C: the worker is told to stop and given three seconds.        *)
Quit ==
  /\ stage = "running"
  /\ stage' = "stopping"
  /\ worker' = [worker EXCEPT !.stopping = TRUE]
  /\ UNCHANGED <<now, history, log, shown, rows, faults>>

(* close: the summaries, and in every case the log's file, whose last      *)
(* flush may fail too; a kill may fall after any step.  The end of the     *)
(* process ends the thread.                                                *)
Close ==
  /\ stage = "stopping"
  /\ \E files \in 0..2, flushes \in BOOLEAN :
       /\ log' = CloseLog(log, files, flushes)
       /\ \/ /\ faults' = faults + (IF files < 2 THEN 1 ELSE 0) + (IF flushes THEN 0 ELSE 1)
             /\ faults' <= MaxFaults
             /\ stage' = IF files = 2 /\ flushes THEN "closed" ELSE "closed with an error"
          \/ ~flushes /\ stage' = "killed while closing" /\ UNCHANGED faults
  /\ worker' = [worker EXCEPT !.alive = FALSE]
  /\ UNCHANGED <<now, history, shown, rows>>

Next == BeginSample \/ EndSample \/ EndThread \/ Row \/ Quit \/ Close

Spec == Init /\ [][Next]_vars

-----------------------------------------------------------------------------
(* Properties.                                                             *)

(* The lines that were written: those of the file, then those whose flush  *)
(* has not succeeded, which are lost when the process ends.                *)
Written == log.jsonl \o log.buffer

SumOver(seq, f(_)) == Total([i \in DOMAIN seq |-> f(seq[i])])

Stages == {"running", "stopping", "closed", "closed with an error", "killed", "killed while closing"}

(* The types of the state; the cache of names, the histories and the       *)
(* published activities stay within their bounds.                          *)
TypeOK ==
  /\ now \in Nat /\ stage \in Stages
  /\ worker.id \in 0..MaxSamples /\ worker.snapshot.sample_id \in 0..worker.id
  /\ Len(worker.cache) <= MaxNames /\ Len(worker.snapshot.activities) <= MaxActivities
  /\ \A k \in DOMAIN history : Len(history[k]) \in 1..QuietSize
  /\ log.totals.sample_count \in 0..rows /\ rows \in 0..MaxRows /\ faults \in 0..MaxFaults

(* "The allocation is normalized so estimated app shares never exceed the  *)
(* selected total system-power envelope" (APP_POWER_ATTRIBUTION.md:49):    *)
(* whatever total, baseline and components a row has, the baseline and the *)
(* pools are the total, and the shares of a sample are never more than it  *)
(* and never less by what rounding down takes; the rest is unattributed.   *)
Shared(line, k) == SumFunction([i \in DOMAIN line.apps |-> line.apps[i][k]])

AllButRounding(part, whole, roundings) == part <= whole /\ whole <= part + roundings

EnvelopeFilled(line) ==
  line.total # None =>
    LET apps == Len(line.apps)
    IN /\ line.baseline + line.pools.cpu + line.pools.gpu + line.pools.residual = line.total
       /\ line.baseline >= 0 /\ \A k \in {"cpu", "gpu", "residual"} : line.pools[k] >= 0
       /\ apps > 0 =>
            /\ AllButRounding(Shared(line, "estimated_share_w"), line.total, 4 * apps)
            /\ AllButRounding(Shared(line, "estimated_cpu_w"), line.pools.cpu, apps)
            /\ AllButRounding(Shared(line, "estimated_gpu_w"), line.pools.gpu, apps)
       /\ line.unattributed = line.total - Shared(line, "estimated_share_w")

EnvelopeIsFilled == \A i \in DOMAIN Written : EnvelopeFilled(Written[i])

(* "Aggregate `ALL_TASKS` rows are excluded to prevent double counting":   *)
(* the published activities have distinct keys, and their scores are those *)
(* of the named records that are no aggregate, each counted once, in one   *)
(* of the answers; only what the bound on the activities cuts is missing.  *)
SingleScores(read, window) == [i \in Singles(read) |-> Score(Measured(read.records[i], window))]
ActiveKeys(read, window) ==
  {Key(read.records[i], RawOf(read, i), read.source) : i \in {j \in Singles(read) : SingleScores(read, window)[j] > 0}}
PublishedScore(s) == SumFunction([i \in DOMAIN s.activities |-> s.activities[i].score])

ScoresFrom(answer, s) ==
  LET plists == DecodePlists(answer.payload)
      read   == Records(plists[Len(plists)])
      whole  == SumFunction(SingleScores(read, s.window))
  IN /\ answer.kind = "ok" /\ plists # << >> /\ read # None
     /\ PublishedScore(s) <= whole
     /\ Cardinality(ActiveKeys(read, s.window)) <= MaxActivities => PublishedScore(s) = whole

ScoresAreConserved ==
  LET s == worker.snapshot
  IN /\ \A i, j \in DOMAIN s.activities : s.activities[i].key = s.activities[j].key => i = j
     /\ s.status = "ok" =>
          \E j \in DOMAIN Outcomes[worker.outcome].powermetrics :
            ScoresFrom(Outcomes[worker.outcome].powermetrics[j], s)

(* "The session logger writes only once per unique app sample"             *)
(* (APP_POWER_ATTRIBUTION.md:78): the samples of the log are in the order  *)
(* of the worker and none is there twice, and each has its own instant.    *)
SampleLoggedOnce ==
  /\ \A i, j \in DOMAIN Written : i < j => Written[i].sample_id < Written[j].sample_id
  /\ worker.snapshot.status \in {"ok", "degraded"} /\ log.last_id = worker.snapshot.sample_id
       => log.last_at = worker.snapshot.at

(* Each of the two summary files is always the summary of a beginning of   *)
(* the lines written: its time, its errors and the energy of the machine   *)
(* are those of as many lines as it counts, it has the applications of     *)
(* these lines and no others, each with all its energy, and the CSV is     *)
(* never ahead of the JSON file.  These lines are on disk, whatever fails  *)
(* and wherever the process is killed, unless it ends in close, which      *)
(* summarises before its last flush, after some flush has failed.          *)
(* A summary lags less than FlushEvery samples behind where nothing failed.*)
SystemEnergy(lines) == SumOver(lines, LAMBDA line : Positive(line.total) * line.interval)
ObservedTime(lines) == SumOver(lines, LAMBDA line : line.interval)
ErrorCount(lines) == SumOver(lines, LAMBDA line : IF line.error = None THEN 0 ELSE 1)
AppEnergy(lines, k, e) ==
  SumOver(lines, LAMBDA line : EnergyOf(line.apps, k, e, line.interval))
AppKeys(lines) == UNION {{lines[i].apps[j].key : j \in DOMAIN lines[i].apps} : i \in DOMAIN lines}

AppsSummed(apps, lines) ==
  /\ DOMAIN apps = AppKeys(lines)
  /\ \A k \in DOMAIN apps, e \in Energies : apps[k].energy[e] = AppEnergy(lines, k, e)

SummaryOf(file, lines) ==
  /\ file.sample_count = Len(lines)
  /\ file.system = SystemEnergy(lines)
  /\ file.observed = ObservedTime(lines)
  /\ file.errors = ErrorCount(lines)
  /\ AppsSummed(file.apps, lines)

BeginningSummed(file, lines) ==
  /\ file.sample_count <= Len(lines)
  /\ SummaryOf(file, SubSeq(lines, 1, file.sample_count))

SummaryMatchesLog ==
  /\ BeginningSummed(log.json, Written) /\ BeginningSummed(log.csv, Written)
  /\ faults = 0 \/ stage \notin {"closed with an error", "killed while closing"}
       => BeginningSummed(log.json, log.jsonl) /\ BeginningSummed(log.csv, log.jsonl)
  /\ log.csv.sample_count <= log.json.sample_count
  /\ faults = 0 /\ stage = "running" => log.totals.sample_count < log.json.sample_count + FlushEvery
  /\ stage = "closed" => log.json = log.totals /\ log.csv = log.totals /\ Len(log.jsonl) = log.totals.sample_count

(* "A zero placeholder baseline is not considered calibrated"              *)
(* (APP_POWER_ATTRIBUTION.md:65): a line of high confidence is of          *)
(* coalitions and of a total that is trusted, and the baseline is one that *)
(* the monitor measured on this power source, or that this run's own quiet *)
(* rows of the same two sources established.                               *)
Earned(line, quiet) ==
  LET key == <<line.power_source, line.total_source>>
  IN line.confidence = "high" =>
       /\ line.source = "powermetrics-coalition" /\ line.total_source \in HighTrustSources
       /\ \/ key \in DOMAIN quiet /\ Len(quiet[key]) >= MinQuiet
          \/ \E r \in DOMAIN Rows : HasBaseline(Rows[r]) /\ QuietKey(Rows[r]) = key

ConfidenceIsEarned == \A i \in DOMAIN Written : Earned(Written[i], history)
=============================================================================
