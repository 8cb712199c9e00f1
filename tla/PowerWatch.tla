----------------------------- MODULE PowerWatch -----------------------------
(***************************************************************************)
(* The legacy power monitor (mac_power_watch.py): the loop of curses_main, *)
(* its two worker threads, the trackers every row goes through and the     *)
(* files of the run.                                                       *)
(*                                                                         *)
(* One action is one iteration of the loop: it reads the machine, passes   *)
(* the row through the baseline, the statistics, the event detector, the   *)
(* phase and health trackers and the attribution of power to applications, *)
(* draws it and writes it.  Each of these may raise, and the exception     *)
(* handler of the loop may raise as well.  The machine may change between  *)
(* ioreg's answer and pmset's.  Time is in seconds and passes inside an    *)
(* iteration.                                                              *)
(***************************************************************************)
EXTENDS PowerReading

CONSTANTS
  Machines,         \* the conditions the machine can be in
  Says,             \* what ioreg, pmset, ps and the phase file say in each of them
  PmOutcomes,       \* how the three powermetrics commands of a sample can end, by name
  SpOutcomes,       \* what the two system_profiler reports can be, by name
  Steps,            \* the seconds one iteration may take
  Epoch,            \* the time at which the run starts
  Window,           \* args.rolling_window
  BaselineSeconds,  \* args.baseline_seconds
  HealthSamples,    \* max_samples of StableHealthTracker
  DebugEvery,       \* args.debug_every
  MaxRows,          \* bound: iterations of the loop
  MaxUpsets         \* bound: changes of the machine, answers of the workers and
                    \* exceptions, together

ASSUME WatchAssumption ==
  /\ Steps \subseteq Nat \ {0} /\ Epoch \in Nat /\ Epoch >= 20
  /\ {Window, BaselineSeconds, HealthSamples, DebugEvery} \subseteq Nat \ {0}
  /\ DOMAIN Says = Machines
  /\ "starting" \notin DOMAIN PmOutcomes \cup DOMAIN SpOutcomes
  /\ {MaxRows, MaxUpsets} \subseteq Nat

(* What ioreg says of the battery's voltage and current is a number where  *)
(* it is anything that float() takes.                                      *)
ASSUME SaysAssumption ==
  \A m \in Machines : \A k \in {"Voltage", "InstantAmperage", "Amperage"} :
    GetNum(Says[m].battery, k) \in Int \cup {None}

VARIABLES
  now, machine,
  pm, sp,           \* the threads of PowermetricsWorker and SystemProfilerWorker, and
                    \* which outcome their latest answer comes from
  stage,            \* where curses_main is
  log,              \* RunLogger: the files, and what their buffers still hold
  baseline, tracker, detector, phases, health,
  rows, upsets

vars == <<now, machine, pm, sp, stage, log, baseline, tracker, detector, phases, health,
          rows, upsets>>

-----------------------------------------------------------------------------
(* RunLogger.  A flush that fails leaves the record in the file's buffer;  *)
(* the next good flush writes it.  event_count counts attempts.            *)

EmptyLog == [csv |-> << >>, csvBuffer |-> << >>, events |-> << >>, buffer |-> << >>,
             event_count |-> 0, sample_count |-> 0, debug |-> 0]

WriteEvent(l, event, flushes) ==
  IF flushes
  THEN [l EXCEPT !.event_count = @ + 1, !.events = @ \o l.buffer \o <<event>>, !.buffer = << >>]
  ELSE [l EXCEPT !.event_count = @ + 1, !.buffer = Append(@, event)]

Event(type, t) == [type |-> type, at |-> t, source |-> None, from |-> None]

(* The columns of the CSV that the properties speak of and one of each     *)
(* stage a row goes through; the others are made as these are.             *)
Columns == {"power_source", "mode", "net_battery_watts", "adapter_reported_watts", "battery_temp_c",
            "charger_load_percent", "primary_total_load_source", "auto_phase", "baseline_locked", "possible_throttle",
            "app_power_status"}

CsvLine(row, autoPhase, appStatus, t) ==
  [k \in Columns \cup {"at"} |-> CASE k = "at"               -> t
                                   [] k = "auto_phase"       -> autoPhase
                                   [] k = "app_power_status" -> appStatus
                                   [] OTHER                  -> row[k]]

WriteCsv(l, line, flushes) ==
  IF flushes
  THEN [l EXCEPT !.csv = @ \o l.csvBuffer \o <<line>>, !.csvBuffer = << >>]
  ELSE [l EXCEPT !.csvBuffer = Append(@, line)]

(* A raw snapshot with the first row and with every DebugEvery-th, the     *)
(* last fifty of them kept.  The sample is counted before the file is      *)
(* touched.  A write that fails has already emptied the file, and the next *)
(* one starts over.                                                        *)
DebugDue(l) == l.sample_count = 0 \/ (l.sample_count + 1) % DebugEvery = 0

MaybeWriteDebug(l, succeeds) ==
  [l EXCEPT !.sample_count = @ + 1,
            !.debug = IF ~DebugDue(l) THEN @ ELSE IF ~succeeds THEN 0 ELSE IF @ < 50 THEN @ + 1 ELSE @]

(* Closing a file flushes it; where closing the first one raises, the      *)
(* second is not closed.                                                   *)
CloseLog(l, flushes) ==
  IF flushes
  THEN [l EXCEPT !.csv = @ \o l.csvBuffer, !.csvBuffer = << >>,
                 !.events = @ \o l.buffer, !.buffer = << >>]
  ELSE l

-----------------------------------------------------------------------------
(* BaselineTracker: the rows of the first seconds, averaged once.          *)

BaselineFields == {"net_battery_watts", "primary_total_load_w", "soc_power_w", "cpu_power_w",
                   "gpu_power_w", "battery_temp_c"}

NewBaseline ==
  [start |-> Epoch, rows |-> << >>, locked |-> FALSE,
   average |-> [k \in BaselineFields |-> None], source |-> None]

Column(samples, k) == Known([i \in DOMAIN samples |-> samples[i][k]])

MostFrequent(s) ==
  LET count(v) == Cardinality({i \in DOMAIN s : s[i] = v})
  IN IF s = << >> THEN None
     ELSE CHOOSE v \in {s[i] : i \in DOMAIN s} : \A i \in DOMAIN s : count(v) >= count(s[i])

Lock(bl) ==
  [bl EXCEPT !.locked = TRUE,
             !.average = [k \in BaselineFields |-> Mean(Column(bl.rows, k))],
             !.source  = MostFrequent(Column(bl.rows, "power_source"))]

BaselineAdd(bl, row, t) ==
  IF bl.locked THEN bl
  ELSE IF t - bl.start <= BaselineSeconds
  THEN [bl EXCEPT !.rows = Append(@, [k \in BaselineFields \cup {"power_source"} |-> row[k]])]
  ELSE Lock(bl)

Delta(value, base) == IF None \in {value, base} THEN None ELSE value - base

BaselineEnrich(bl, row) ==
  Update(row,
    [baseline_locked |-> bl.locked, baseline_power_source |-> bl.source,
     baseline_primary_total_load_w |-> bl.average["primary_total_load_w"],
     load_delta_primary_total_load_w |->
       Delta(row.primary_total_load_w, bl.average["primary_total_load_w"]),
     load_delta_cpu_power_w |-> Delta(row.cpu_power_w, bl.average["cpu_power_w"]),
     load_delta_gpu_power_w |-> Delta(row.gpu_power_w, bl.average["gpu_power_w"])])

-----------------------------------------------------------------------------
(* StatsTracker: a sliding window, peaks and the battery's energy.         *)

NewTracker ==
  [samples |-> << >>, last |-> None, charged |-> 0, discharged |-> 0, net |-> 0,
   maxTemp |-> None, maxCharge |-> None, maxDischarge |-> None, maxMac |-> None, maxSoc |-> None]

Peak(old, v) == IF v = None THEN old ELSE IF old = None \/ v > old THEN v ELSE old

TrackerAdd(tr, row, t) ==
  LET net    == row.net_battery_watts
      energy == IF None \in {tr.last, net} THEN 0 ELSE net * (t - tr.last)
      entry  == [t |-> t, percent |-> row.battery_percent, temp |-> row.battery_temp_c, net |-> net,
                 mac |-> row.whole_mac_watts_estimate]
      mac    == Either(row.primary_total_load_w, row.whole_mac_watts_estimate)
  IN [tr EXCEPT !.last       = t,
                !.charged    = IF energy >= 0 THEN @ + energy ELSE @,
                !.discharged = IF energy >= 0 THEN @ ELSE @ + Abs(energy),
                !.net        = @ + energy,
                !.samples    = Filter(Append(@, entry), LAMBDA s : s.t >= t - Window),
                !.maxTemp    = Peak(@, row.battery_temp_c),
                !.maxCharge  = IF net # None /\ net > 0 THEN Peak(@, net) ELSE @,
                !.maxDischarge = IF net # None /\ net < 0 THEN Peak(@, Abs(net)) ELSE @,
                !.maxMac     = Peak(@, mac),
                !.maxSoc     = Peak(@, row.soc_power_w)]

(* The change of a column over the window, per so many seconds.            *)
Trend(tr, k, seconds) ==
  LET s  == Filter(tr.samples, LAMBDA e : e[k] # None)
      dt == s[Len(s)].t - s[1].t
  IN IF Len(s) < 2 \/ dt <= 0 THEN None ELSE ((s[Len(s)][k] - s[1][k]) * seconds) \div dt

ThermalState(tr) ==
  LET trend == Trend(tr, "temp", 60)
  IN IF trend = None THEN "n/a"
     ELSE IF trend > 25 THEN "rising" ELSE IF trend < -25 THEN "falling" ELSE "stable / plateau"

(* Minutes to empty or to full at the window's rate (tenths of a percent   *)
(* per hour).                                                              *)
RuntimeRemaining(tr, percent) ==
  LET rate == Trend(tr, "percent", 36000)
  IN IF None \in {rate, percent} THEN None ELSE IF rate >= -1 THEN None ELSE (percent * 600) \div Abs(rate)

TimeToFull(tr, percent) ==
  LET rate == Trend(tr, "percent", 36000)
  IN IF None \in {rate, percent} THEN None ELSE IF rate <= 1 THEN None ELSE ((100 - percent) * 600) \div rate

(* The names of phases that contain "stress", "load" or "max".             *)
LoadPhases == {"cpu stress", "auto: load on battery", "auto: load on AC"}

(* auto_phase is not in the row yet: only the phase file counts.           *)
PossibleThrottle(tr, row) ==
  LET trend   == Trend(tr, "temp", 60)
      busy    == FirstKnown(<<row.stress_cpu_percent, 0>>)
      primary == row.primary_total_load_w
      soc     == row.soc_power_w
  IN /\ row.phase \in LoadPhases
     /\ trend = None \/ trend >= -5
     /\ \/ row.thermal_pressure \notin {None, "", "n/a", "Nominal", "none"}
        \/ /\ None \notin {primary, tr.maxMac}
           /\ tr.maxMac >= 70000 /\ primary * 10 < tr.maxMac * 6 /\ busy >= 300
        \/ /\ None \notin {soc, tr.maxSoc}
           /\ tr.maxSoc >= 35000 /\ busy >= 400 /\ soc * 100 < tr.maxSoc * 55

TrackerEnrich(tr, row) ==
  Update(row,
    [avg_net_battery_watts |-> Mean(Column(tr.samples, "net")),
     avg_mac_use_watts |-> Mean(Column(tr.samples, "mac")),
     max_battery_temp_c |-> tr.maxTemp, max_mac_use_watts |-> tr.maxMac,
     thermal_state |-> ThermalState(tr),
     rolling_runtime_estimate |-> RuntimeRemaining(tr, row.battery_percent),
     rolling_time_to_full |-> TimeToFull(tr, row.battery_percent),
     battery_wh_net |-> tr.net, possible_throttle |-> PossibleThrottle(tr, row)])

-----------------------------------------------------------------------------
(* EventDetector.  d.out are the events of one iteration; the write of the *)
(* d.failAt-th raises, and what the code does after it is not done.        *)

Warnings == [warning_ac_connected_but_battery_discharging |-> 10,
             possible_charge_throttling_or_low_headroom |-> 15,
             possible_thermal_or_power_throttling |-> 20]

NewDetector ==
  [prev |-> << >>, auto_phase |-> "observing", ac_discharging_since |-> None,
   load_started |-> FALSE, last_event_t |-> [w \in DOMAIN Warnings |-> 0],
   last_adapter_watts |-> None, last_adapter_name |-> None,
   out |-> << >>, failed |-> FALSE, failAt |-> 0]

(* A warning that is due marks its time before it is written.              *)
Emit(d, type, row, from, t) ==
  LET warning == type \in DOMAIN Warnings
  IN IF d.failed \/ (warning /\ t - d.last_event_t[type] < Warnings[type]) THEN d
     ELSE [d EXCEPT !.last_event_t = IF warning THEN [@ EXCEPT ![type] = t] ELSE @,
                    !.out    = Append(@, [type |-> type, at |-> t, source |-> row.power_source, from |-> from]),
                    !.failed = Len(d.out) + 1 = d.failAt]

HeavySoc(row) == row.soc_power_w # None /\ row.soc_power_w >= 35000
HeavyDischarge(row) == row.net_battery_watts # None /\ row.net_battery_watts <= -60000

AutoPhase(row) ==
  CASE row.phase # "idle / unmarked"       -> row.phase
    [] row.phase = "idle / unmarked" /\ row.power_source = "Battery Power" ->
         IF HeavySoc(row) \/ HeavyDischarge(row) THEN "auto: load on battery" ELSE "auto: battery idle/light"
    [] row.phase = "idle / unmarked" /\ row.power_source = "AC Power" ->
         IF HeavySoc(row) THEN "auto: load on AC" ELSE "auto: AC idle/light"
    [] OTHER -> "auto: unknown"

\* Faulty: a change from an unknown source is not announced.
SourceEventsOfKnown(d, row, t) ==
  IF row.power_source = d.prev[1] \/ d.prev[1] = None THEN d
  ELSE Emit(d, CASE row.power_source = "Battery Power" -> "ac_unplugged"
                 [] row.power_source = "AC Power" -> "ac_plugged_in"
                 [] OTHER -> "power_source_changed", row, d.prev[1], t)

SourceEvents(d, row, t) ==
  IF row.power_source = d.prev[1] THEN d
  ELSE Emit(d, CASE row.power_source = "Battery Power" -> "ac_unplugged"
                 [] row.power_source = "AC Power" -> "ac_plugged_in"
                 [] OTHER -> "power_source_changed", row, d.prev[1], t)

AdapterEvents(d, row, t) ==
  LET w == IF row.adapter_reported_watts = d.last_adapter_watts THEN d
           ELSE Emit(d, "adapter_wattage_changed", row, d.last_adapter_watts, t)
      v == IF w.failed THEN w ELSE [w EXCEPT !.last_adapter_watts = row.adapter_reported_watts]
      n == IF row.adapter_name = v.last_adapter_name THEN v
           ELSE Emit(v, "adapter_name_changed", row, v.last_adapter_name, t)
  IN IF n.failed THEN n ELSE [n EXCEPT !.last_adapter_name = row.adapter_name]

\* Faulty: the flag is set once the event is written.
LoadEventsSetLate(d, row, t) ==
  LET heavy == HeavySoc(row) \/ HeavyDischarge(row)
      e     == Emit(d, IF heavy THEN "load_started_detected" ELSE "load_stopped_detected", row, None, t)
  IN IF d.failed \/ heavy = d.load_started THEN d
     ELSE IF e.failed THEN e ELSE [e EXCEPT !.load_started = heavy]

(* The flag is set before the event is written.                            *)
LoadEvents(d, row, t) ==
  LET heavy == HeavySoc(row) \/ HeavyDischarge(row)
  IN IF d.failed \/ heavy = d.load_started THEN d
     ELSE Emit([d EXCEPT !.load_started = heavy],
               IF heavy THEN "load_started_detected" ELSE "load_stopped_detected", row, None, t)

DrainsOnAC(row) ==
  row.power_source = "AC Power" /\ row.net_battery_watts # None /\ row.net_battery_watts < -5000

\* Faulty: a row without discharge does not start the wait anew.
DischargeEventsUnreset(d, row, t) ==
  LET since == d.ac_discharging_since
  IN IF d.failed \/ ~DrainsOnAC(row) THEN d
     ELSE IF since = None THEN [d EXCEPT !.ac_discharging_since = t]
     ELSE IF t - since >= 8 THEN Emit(d, "warning_ac_connected_but_battery_discharging", row, None, t)
     ELSE d

DischargeEvents(d, row, t) ==
  LET since == d.ac_discharging_since
  IN IF d.failed THEN d
     ELSE IF ~DrainsOnAC(row) THEN [d EXCEPT !.ac_discharging_since = None]
     ELSE IF since = None THEN [d EXCEPT !.ac_discharging_since = t]
     ELSE IF t - since >= 8 THEN Emit(d, "warning_ac_connected_but_battery_discharging", row, None, t)
     ELSE d

ThrottleEvents(d, row, t) ==
  LET low == /\ row.power_source = "AC Power" /\ HeavySoc(row)
             /\ row.net_battery_watts # None /\ row.net_battery_watts \in 0..10000
      c   == IF low THEN Emit(d, "possible_charge_throttling_or_low_headroom", row, None, t) ELSE d
  IN IF row.possible_throttle THEN Emit(c, "possible_thermal_or_power_throttling", row, None, t) ELSE c

Remember(d, row) == IF d.failed THEN d ELSE [d EXCEPT !.prev = <<row.power_source>>]

(* process: the first row only announces the run.                          *)
DetectorProcess(det, row, t, failAt) ==
  LET d     == [det EXCEPT !.auto_phase = AutoPhase(row), !.out = << >>, !.failed = FALSE, !.failAt = failAt]
      first == Emit([d EXCEPT !.last_adapter_watts = row.adapter_reported_watts,
                              !.last_adapter_name = row.adapter_name], "run_started", row, None, t)
      later == ThrottleEvents(DischargeEvents(LoadEvents(
                 AdapterEvents(SourceEvents(d, row, t), row, t), row, t), row, t), row, t)
  IN Remember(IF d.prev = << >> THEN first ELSE later, row)

(* The events of the iteration, written one after the other: where one     *)
(* failed it is the last, and the first good flush writes what was held.   *)
WriteEvents(l, d) ==
  LET good == Len(d.out) - (IF d.failed THEN 1 ELSE 0)
      held == SubSeq(d.out, good + 1, Len(d.out))
  IN IF good = 0
     THEN [l EXCEPT !.event_count = @ + Len(d.out), !.buffer = @ \o held]
     ELSE [l EXCEPT !.event_count = @ + Len(d.out), !.buffer = held,
                    !.events = @ \o l.buffer \o SubSeq(d.out, 1, good)]

-----------------------------------------------------------------------------
(* PhaseStatsTracker and StableHealthTracker.                              *)

PhaseName(row) == IF row.phase # "idle / unmarked" THEN row.phase ELSE row.auto_phase

PhaseEnrich(ph, row) ==
  LET name == PhaseName(row)
  IN [name |-> name,
      samples |-> Append(IF name = ph.name THEN ph.samples ELSE << >>, row.net_battery_watts)]

IsStableSample(row) ==
  /\ row.power_source = "AC Power"
  /\ {row.phase, row.auto_phase} \cap LoadPhases = {}
  /\ row.battery_temp_c = None \/ row.battery_temp_c < 3500
  /\ row.bms_system_power_w = None \/ row.bms_system_power_w < 45000
  /\ row.battery_health_percent # None

\* Faulty: the oldest sample is never dropped.
HealthEnrichUnbounded(h, row) ==
  IF IsStableSample(row) THEN Append(h, row.battery_health_percent) ELSE h

HealthEnrich(h, row) ==
  IF ~IsStableSample(row) THEN h
  ELSE LET s == Append(h, row.battery_health_percent)
       IN IF Len(s) > HealthSamples THEN Tail(s) ELSE s

-----------------------------------------------------------------------------
(* The two worker threads.                                                 *)

(* _run_once: the first command that answers is parsed, whether or not its *)
(* text has power fields; the error of the last one names the problem.     *)
PmRunOnce(outcomes) ==
  LET answered == {i \in DOMAIN outcomes : outcomes[i].ok}
      first    == CHOOSE i \in answered : \A j \in answered : i <= j
      parsed   == ParsePowermetricsOutput(outcomes[first].out)
  IN IF answered = {}
     THEN [PmOff EXCEPT !.pm_status = IF outcomes[Len(outcomes)].password
                                      THEN "sudo required; run: sudo -v" ELSE "unavailable"]
     ELSE IF parsed.soc_power_w = None THEN [parsed EXCEPT !.pm_status = "no power fields found"]
     ELSE parsed

PmAnswer(name) ==
  IF name = "starting" THEN [PmOff EXCEPT !.pm_status = "starting"] ELSE PmRunOnce(PmOutcomes[name])

SpAnswer(name) ==
  IF name = "starting" THEN [sp_status |-> "starting"]
  ELSE ReadSystemProfilerPower(SpOutcomes[name].json, SpOutcomes[name].text)

PmSample ==
  /\ pm.alive /\ upsets < MaxUpsets
  /\ \E o \in DOMAIN PmOutcomes \ {pm.latest} : pm' = [pm EXCEPT !.latest = o]
  /\ upsets' = upsets + 1
  /\ UNCHANGED <<now, machine, sp, stage, log, baseline, tracker, detector, phases, health, rows>>

SpSample ==
  /\ sp.alive /\ upsets < MaxUpsets
  /\ \E o \in DOMAIN SpOutcomes \ {sp.latest} : sp' = [sp EXCEPT !.latest = o]
  /\ upsets' = upsets + 1
  /\ UNCHANGED <<now, machine, pm, stage, log, baseline, tracker, detector, phases, health, rows>>

-----------------------------------------------------------------------------
(* curses_main.                                                            *)

Init ==
  /\ now = Epoch /\ machine \in Machines
  /\ pm = [alive |-> FALSE, latest |-> "starting"]
  /\ sp = [alive |-> FALSE, latest |-> "starting"]
  /\ stage = "starting" /\ log = EmptyLog
  /\ baseline = NewBaseline /\ tracker = NewTracker /\ detector = NewDetector
  /\ phases = [name |-> None, samples |-> << >>] /\ health = << >>
  /\ rows = 0 /\ upsets = 0

(* The construction of the application log and its worker is outside every *)
(* handler: where it raises the monitor never begins, and nothing closes   *)
(* the files that are already open.                                        *)
Start ==
  /\ stage = "starting"
  /\ \/ /\ stage' = "running"
        /\ pm' = [pm EXCEPT !.alive = TRUE] /\ sp' = [sp EXCEPT !.alive = TRUE]
        /\ UNCHANGED upsets
     \/ /\ upsets < MaxUpsets
        /\ stage' = "failed" /\ upsets' = upsets + 1 /\ UNCHANGED <<pm, sp>>
  /\ UNCHANGED <<now, machine, log, baseline, tracker, detector, phases, health, rows>>

(* The battery is read first and the rest after it: the machine may have   *)
(* become another in between.                                              *)
Readings ==
  {[seen |-> seen, after |-> after, pm |-> p, sp |-> q,
    row |-> CollectReading(
              BatteryRow(Says[seen].battery, Says[seen].banks, Says[after].pmset, Says[after].phase),
              PmAnswer(p), SpAnswer(q), StressProcessActivity(Says[after].ps))] :
     seen \in Machines, after \in Machines,
     p \in DOMAIN PmOutcomes \cup {"starting"}, q \in DOMAIN SpOutcomes \cup {"starting"}}

(* The handler of the loop: the error becomes an event, unless drawing it  *)
(* raises too; an event that cannot be flushed stays in the buffer.        *)
Handlings == {"undrawn", "unflushed", "written"}

Handle(l, t, how) == IF how = "undrawn" THEN l ELSE WriteEvent(l, Event("monitor_error", t), how = "written")

Kinds == {"none", "collect", "emit", "app", "appEvent", "draw", "csv", "debug"}

(* What the handler raises ends the loop.                                  *)
Raise(l, t) ==
  \E how \in Handlings :
    /\ log' = Handle(l, t, how)
    /\ stage' = IF how = "written" THEN stage ELSE "stopping"

Pass(l) == log' = l /\ UNCHANGED stage

(* The row went through the baseline, the statistics and, as far as it     *)
(* got, the detector.                                                      *)
Track(bl, tr, det) ==
  /\ baseline' = bl /\ tracker' = tr
  /\ detector' = [det EXCEPT !.out = << >>, !.failed = FALSE, !.failAt = 0]

Finish(bl, tr, det, row) ==
  /\ Track(bl, tr, det)
  /\ phases' = PhaseEnrich(phases, row) /\ health' = HealthEnrich(health, row)

WithPhase(stat, det) == Update(stat, [auto_phase |-> det.auto_phase])

(* From the detector on: stat is the row with the baseline bl and the      *)
(* statistics tr, and whole the detector after it.                         *)
Conclude(bl, tr, stat, whole, after, t) ==
  LET d(n)   == DetectorProcess(detector, stat, t, n)
      line   == CsvLine(stat, whole.auto_phase, "ok", t)
      noApps == CsvLine(stat, whole.auto_phase, "error", t)
      evs    == WriteEvents(log, whole)
      app(flushes) == WriteEvent(evs, Event("app_power_error", t), flushes)
  IN \E kind \in Kinds :
       /\ upsets' = upsets + (IF kind = "none" THEN 0 ELSE 1) + (IF after = machine THEN 0 ELSE 1)
       /\ upsets' <= MaxUpsets
       /\ \/ kind = "collect" /\ Raise(log, t) /\ UNCHANGED <<baseline, tracker, detector, phases, health>>
          \/ /\ kind = "emit"
             /\ \E n \in DOMAIN whole.out : Track(bl, tr, d(n)) /\ Raise(WriteEvents(log, d(n)), t)
             /\ UNCHANGED <<phases, health>>
          \/ /\ kind \notin {"collect", "emit"} /\ Finish(bl, tr, whole, WithPhase(stat, whole))
             /\ \/ kind = "none" /\ Pass(MaybeWriteDebug(WriteCsv(evs, line, TRUE), TRUE))
                \/ kind = "app" /\ Pass(MaybeWriteDebug(WriteCsv(app(TRUE), noApps, TRUE), TRUE))
                \/ kind = "appEvent" /\ Raise(app(FALSE), t)
                \/ kind = "draw" /\ Raise(evs, t)
                \/ kind = "csv" /\ Raise(WriteCsv(evs, line, FALSE), t)
                \/ kind = "debug" /\ DebugDue(log) /\ Raise(MaybeWriteDebug(WriteCsv(evs, line, TRUE), FALSE), t)

(* One iteration at time t, in which one thing may raise: the reading, an  *)
(* event of the detector, the attribution (whose own handler writes an     *)
(* event and keeps the row, unless that event cannot be written), the      *)
(* drawing, the CSV or the debug file.                                     *)
Iterate(seen, after, t) ==
  \E reading \in {r \in Readings : r.seen = seen /\ r.after = after /\ r.pm = pm.latest /\ r.sp = sp.latest} :
  \E bl \in {BaselineAdd(baseline, reading.row, t)} :
    LET based == BaselineEnrich(bl, reading.row)
        tr    == TrackerAdd(tracker, based, t)
    IN \E stat \in {TrackerEnrich(tr, based)} :
         Conclude(bl, tr, stat, DetectorProcess(detector, stat, t, 0), after, t)

Loop ==
  /\ stage = "running" /\ rows < MaxRows
  /\ \E after \in Machines, seen \in Machines, dt \in Steps :
       /\ seen \in {machine, after}
       /\ Iterate(seen, after, now + dt)
       /\ now' = now + dt /\ machine' = after
  /\ rows' = rows + 1
  /\ UNCHANGED <<pm, sp>>

(* q while the loop waits, or Ctrl-C.                                      *)
Quit ==
  /\ stage = "running"
  /\ stage' = "stopping"
  /\ UNCHANGED <<now, machine, pm, sp, log, baseline, tracker, detector, phases, health, rows, upsets>>

(* The finally block: the workers are told to stop, the application log is *)
(* closed and the files get their last event and are closed.               *)
Cleanup ==
  /\ stage = "stopping"
  /\ \E appRaises, flushes, closes \in BOOLEAN :
       /\ upsets' = upsets + (IF appRaises \/ ~flushes \/ ~closes THEN 1 ELSE 0)
       /\ upsets' <= MaxUpsets
       /\ log' = LET closing == IF appRaises THEN WriteEvent(log, Event("app_power_close_error", now), flushes)
                                ELSE log
                 IN CloseLog(WriteEvent(closing, Event("run_stopped", now), flushes), closes)
  /\ pm' = [pm EXCEPT !.alive = FALSE] /\ sp' = [sp EXCEPT !.alive = FALSE]
  /\ stage' = "stopped"
  /\ UNCHANGED <<now, machine, baseline, tracker, detector, phases, health, rows>>

Next == Start \/ Loop \/ PmSample \/ SpSample \/ Quit \/ Cleanup

Spec == Init /\ [][Next]_vars

-----------------------------------------------------------------------------
(* Properties.                                                             *)

Written == log.csv \o log.csvBuffer
AllEvents == log.events \o log.buffer

(* The types of the monitor's state, and the bounds of its bounded parts.  *)
TypeOK ==
  /\ now \in Nat /\ machine \in Machines
  /\ pm.alive \in BOOLEAN /\ sp.alive \in BOOLEAN
  /\ stage \in {"starting", "running", "stopping", "stopped", "failed"}
  /\ log.event_count = Len(AllEvents) /\ log.debug \in 0..50
  /\ baseline.locked \in BOOLEAN /\ Len(health) <= HealthSamples
  /\ Len(tracker.samples) <= rows /\ tracker.charged \in Nat /\ tracker.discharged \in Nat
  /\ detector.load_started \in BOOLEAN /\ ~detector.failed
  /\ rows \in 0..MaxRows /\ upsets \in 0..MaxUpsets

(* Two neighbouring rows of the CSV with different power sources have an   *)
(* event of the change between them, whatever was raised in the iterations *)
(* that left no row.                                                       *)
TransitionsAreLogged ==
  \A i \in 1..Len(Written) - 1 :
    LET a == Written[i]
        b == Written[i + 1]
    IN a.power_source # b.power_source =>
         \E j \in DOMAIN AllEvents :
           /\ AllEvents[j].type \in {"ac_unplugged", "ac_plugged_in", "power_source_changed"}
           /\ AllEvents[j].source = b.power_source
           /\ a.at < AllEvents[j].at /\ AllEvents[j].at <= b.at

(* A load went on before the j-th event: it had begun and not ended.       *)
LoadGoesOn(events, j) ==
  \E i \in 1..j - 1 :
    /\ events[i].type = "load_started_detected"
    /\ \A k \in i + 1..j - 1 : events[k].type # "load_stopped_detected"

(* load_started_detected and load_stopped_detected take turns, beginning   *)
(* with the start, also where writing one of them failed: a load starts    *)
(* where none goes on and stops where one does, and the detector knows     *)
(* whether the events written so far leave one going on.                   *)
LoadEventsAlternate ==
  /\ \A j \in DOMAIN AllEvents :
       /\ AllEvents[j].type = "load_started_detected" => ~LoadGoesOn(AllEvents, j)
       /\ AllEvents[j].type = "load_stopped_detected" => LoadGoesOn(AllEvents, j)
  /\ detector.load_started <=> LoadGoesOn(AllEvents, Len(AllEvents) + 1)

(* The warning of a battery that drains on AC means that every row of the  *)
(* last eight seconds shows just that.                                     *)
DischargeWarningIsSustained ==
  \A i \in DOMAIN AllEvents : \A k \in DOMAIN Written :
    LET e == AllEvents[i]
        r == Written[k]
    IN e.type = "warning_ac_connected_but_battery_discharging" /\ r.at \in (e.at - 8)..e.at
         => DrainsOnAC(r)
=============================================================================
