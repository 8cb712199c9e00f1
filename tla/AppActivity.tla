---------------------------- MODULE AppActivity ----------------------------
(***************************************************************************)
(* The applications' share of the machine's power, as pure operators:      *)
(* what app_power_attribution.py makes of an answer of powermetrics or ps, *)
(* and how it divides the power of a row among the applications.           *)
(* AppPower.tla holds the threads, the history and the files.              *)
(*                                                                         *)
(* A numeric field of a record stands for all its spellings.  Power is in  *)
(* mW, time in tenths of a second, disk and network traffic in MiB, scores *)
(* in hundredths.                                                          *)
(***************************************************************************)
EXTENDS Values

CONSTANTS
  Names,          \* Names[trait]: the names the classifier and the resolver know by it
  Titles,         \* known, inPath and fallback: the friendly name of a text
  MaxActivities,  \* max_activities
  MaxNames,       \* max_cache_entries of BundleNameResolver
  Resolved,       \* the activities whose names are resolved (40 in the code)
  SampleWindow,   \* sample_ms
  MinScore,       \* min_score
  TopSlots,       \* top_slots
  QuietSize,      \* quiet_history_size
  MinQuiet        \* the samples a learned baseline needs (8 in the code)

ASSUME ActivityAssumption ==
  /\ {MaxActivities, MaxNames, SampleWindow, TopSlots, QuietSize, MinQuiet} \subseteq Nat \ {0}
  /\ {Resolved, MinScore} \subseteq Nat
  /\ MinQuiet <= QuietSize

-----------------------------------------------------------------------------
(* Numbers.                                                                *)

Clamp(v, low, high) == IF v < low THEN low ELSE IF v > high THEN high ELSE v

Positive(v) == IF v = None \/ v < 0 THEN 0 ELSE v

AtMost(s, n) == SubSeq(s, 1, IF Len(s) < n THEN Len(s) ELSE n)

(* The n-th fifth percentile of the values, linearly interpolated.         *)
Percentile(values, fifths) ==
  LET sorted(n) == NthLeast(values, n)
      lower == 1 + ((Len(values) - 1) * fifths) \div 5
      rest  == ((Len(values) - 1) * fifths) % 5
  IN IF values = << >> THEN None
     ELSE IF rest = 0 THEN sorted(lower)
     ELSE sorted(lower) + ((sorted(lower + 1) - sorted(lower)) * rest) \div 5

-----------------------------------------------------------------------------
(* Names and categories.                                                   *)

(* The tokens of the measurement come before those of the benchmarks, and  *)
(* the known applications before the services of Apple.                    *)
Classify(raw, display) ==
  LET has(name, trait) == name \in Names[trait]
  IN IF has(raw, "measurement") \/ has(display, "measurement") THEN "measurement"
     ELSE IF has(raw, "benchmark") \/ has(display, "benchmark") THEN "benchmark"
     ELSE IF raw \in {"ALL_TASKS", "DEAD_TASKS"} THEN "unattributed"
     ELSE IF raw = "kernel_coalition" THEN "system"
     ELSE IF has(raw, "userAppId") \/ has(display, "userAppName") THEN "user_app"
     ELSE IF has(raw, "apple") \/ display \in {"WindowServer", "kernel_task", "Kernel"} THEN "system"
     ELSE IF has(display, "daemon") THEN "background_service"
     ELSE IF has(raw, "bundle") \/ has(display, "capital") THEN "user_app"
     ELSE "background_service"

(* What a name resolves to where the cache does not know it.  spotlight    *)
(* has the identifiers whose lookup answers in time.                       *)
FreshTitle(raw, command, spotlight) ==
  FirstKnown(<<Get(Titles.known, raw), Get(Titles.inPath, command), Get(Titles.inPath, raw),
               IF raw \in Names["identifier"]
               THEN FirstKnown(<<Get(spotlight, raw), Titles.fallback[raw]>>) ELSE None, raw>>)

\* Faulty: no entry ever goes.
ResolveUnbounded(cache, raw, command, spotlight) ==
  LET title == FreshTitle(raw, command, spotlight)
  IN [cache |-> Append(cache, [raw |-> raw, command |-> command, title |-> title]), title |-> title]

(* resolve: the cache is a dictionary in the order of insertion, and the   *)
(* oldest entry goes.                                                      *)
Resolve(cache, raw, command, spotlight) ==
  LET hits == {i \in DOMAIN cache : cache[i].raw = raw /\ cache[i].command = command}
      kept == IF Len(cache) >= MaxNames THEN Tail(cache) ELSE cache
      title == FreshTitle(raw, command, spotlight)
  IN IF hits # {} THEN [cache |-> cache, title |-> cache[Min(hits)].title]
     ELSE [cache |-> Append(kept, [raw |-> raw, command |-> command, title |-> title]),
           title |-> title]

(* The resolver is told the arguments too where there are any.             *)
ResolveFor(a, cache, spotlight) == Resolve(cache, a.raw_name, Get(a, "arguments"), spotlight)

(* The cache after each of the first activities.                           *)
Caches(activities, cache, spotlight, limit) ==
  LET after[i \in 0..Len(activities)] ==
        IF i = 0 THEN cache
        ELSE IF i > limit THEN after[i - 1]
        ELSE ResolveFor(activities[i], after[i - 1], spotlight).cache
  IN after

(* The names of the first activities, through the cache.                   *)
WithTitles(activities, cache, spotlight, limit) ==
  LET after == Caches(activities, cache, spotlight, limit)
      titled(i) == LET title == ResolveFor(activities[i], after[i - 1], spotlight).title
                   IN Update(activities[i], [display_name |-> title,
                                             category |-> Classify(activities[i].raw_name, title)])
  IN [cache |-> after[Len(activities)],
      activities |-> [i \in DOMAIN activities |-> IF i > limit THEN activities[i] ELSE titled(i)]]

-----------------------------------------------------------------------------
(* powermetrics.                                                           *)

Metrics == {"energy_impact", "energy_impact_per_s", "cpu_ms_per_s", "gpu_ms_per_s",
            "intr_wakeups_per_s", "idle_wakeups_per_s", "disk_read_bytes_per_s",
            "disk_write_bytes_per_s", "network_rx_bytes_per_s", "network_tx_bytes_per_s"}

(* The field with the count of the whole sample, for a rate that is absent.*)
CountOf == [gpu_ms_per_s |-> "gputime_ms", intr_wakeups_per_s |-> "intr_wakeups",
            idle_wakeups_per_s |-> "idle_wakeups", disk_read_bytes_per_s |-> "diskio_bytesread",
            disk_write_bytes_per_s |-> "diskio_byteswritten", network_rx_bytes_per_s |-> "bytes_received",
            network_tx_bytes_per_s |-> "bytes_sent"]

Measured(record, window) ==
  [k \in Metrics |->
     LET count == IF k \in DOMAIN CountOf THEN GetNum(record, CountOf[k]) ELSE None
     IN FirstKnown(<<GetNum(record, k),
                     IF count = None \/ window <= 0 THEN None ELSE (count * 10) \div window>>)]

CompositeScore(m) ==
  100 * Positive(m.cpu_ms_per_s) + 200 * Positive(m.gpu_ms_per_s)
    + 75 * Positive(m.idle_wakeups_per_s) + 8 * Positive(m.intr_wakeups_per_s)
    + 300 * Positive(SumKnown(<<m.disk_read_bytes_per_s, m.disk_write_bytes_per_s>>))
    + 100 * Positive(SumKnown(<<m.network_rx_bytes_per_s, m.network_tx_bytes_per_s>>))

Score(m) ==
  IF Positive(m.energy_impact_per_s) > 0 THEN 100 * m.energy_impact_per_s
  ELSE IF Positive(m.energy_impact) > 0 THEN 100 * m.energy_impact
  ELSE CompositeScore(m)

(* A payload that is one plist, or else the plists among its chunks.       *)
DecodePlists(payload) ==
  IF IsDict(payload.whole) THEN <<payload.whole>> ELSE Filter(payload.chunks, IsDict)

Pid(record) == IF "pid" \in DOMAIN record THEN GetNum(record, "pid") ELSE GetNum(record, "id")

ResponsiblePid(record) == GetNum(record, "responsible_pid")

(* The name of the process that is responsible for a task, where that      *)
(* process is among the records (the last one of its pid).                 *)
ResponsibleName(records, record) ==
  LET named == {i \in DOMAIN records : /\ Pid(records[i]) # None /\ Get(records[i], "name") # None
                                       /\ Pid(records[i]) = ResponsiblePid(record)}
  IN IF named = {} THEN None ELSE records[Max(named)].name

(* The name an activity goes by: the responsible process's or its own.     *)
RawName(record, records, source) ==
  FirstKnown(<<IF source = "powermetrics-task" THEN ResponsibleName(records, record) ELSE None,
               Get(record, "name")>>)

Key(record, raw, source) ==
  IF source = "powermetrics-coalition" THEN <<"coalition", raw>>
  ELSE IF Positive(ResponsiblePid(record)) > 0 THEN <<"responsible", ResponsiblePid(record)>>
  ELSE <<"task", raw, Pid(record)>>

ActivityFromRecord(record, records, source, window) ==
  LET raw     == RawName(record, records, source)
      metrics == Measured(record, window)
      display == FirstKnown(<<Get(Titles.known, raw), raw>>)
  IN Update(metrics, [key |-> Key(record, raw, source), raw_name |-> raw, display_name |-> display,
                      category |-> Classify(raw, display), source |-> source, score |-> Score(metrics)])

(* The items with the key of the i-th, of which the first stands for all.  *)
Group(items, i) == {j \in DOMAIN items : items[j].key = items[i].key}
Firsts(items) == {i \in DOMAIN items : \A j \in Group(items, i) : i <= j}

(* Items with the same key add up.                                         *)
Grouped(items, fields) ==
  LET sum(i, k) == SumKnown([j \in Group(items, i) |-> items[j][k]])
  IN At([i \in DOMAIN items |-> Update(items[i], [k \in fields |-> sum(i, k)])], Firsts(items))

\* Faulty: of two records with one key the later replaces the earlier.
MergeLast(activities) ==
  At([i \in DOMAIN activities |-> activities[Max(Group(activities, i))]], Firsts(activities))

Merge(activities) == Grouped(activities, Metrics \cup {"score"})

MostActive(activities) ==
  AtMost(Descending(activities, [i \in DOMAIN activities |-> activities[i].score]), MaxActivities)

(* Coalitions where the sample has any, else tasks, else an error (None).  *)
Records(plist) ==
  LET usable(k) == Get(plist, k) \notin {None, Junk, << >>}
      of(k, source) == [source |-> source, records |-> Filter(plist[k], IsDict)]
  IN IF usable("coalitions") THEN of("coalitions", "powermetrics-coalition")
     ELSE IF usable("tasks") THEN of("tasks", "powermetrics-task") ELSE None

(* A record without a name and the row of all tasks give nothing.          *)
RawOf(read, i) == RawName(read.records[i], read.records, read.source)
Singles(read) ==
  {i \in DOMAIN read.records : RawOf(read, i) \notin {None, "ALL_TASKS", "ALL_PROCESSES"}}

(* What one answer of powermetrics says: the last of its plists.           *)
ParseAnswer(payload, cache, spotlight) ==
  LET plists == DecodePlists(payload)
      plist  == plists[Len(plists)]
      read   == Records(plist)
      window == IF Positive(GetNum(plist, "elapsed")) > 0 THEN plist.elapsed ELSE SampleWindow
      found  == At([i \in DOMAIN read.records |->
                      ActivityFromRecord(read.records[i], read.records, read.source, window)], Singles(read))
      active == MostActive(Merge(Filter(found, LAMBDA a : a.score > 0)))
      titled == WithTitles(active, cache, spotlight, Resolved)
  IN IF plists = << >> THEN None
     ELSE IF read = None THEN None
     ELSE [window |-> window, source |-> read.source, status |-> "ok", error |-> None,
           activities |-> titled.activities, cache |-> titled.cache]

(* sample: the three commands in turn, until one gives a sample.  A        *)
(* command may fail, or raise something sample does not catch.             *)
PowermetricsSample(answers, cache, spotlight) ==
  LET end(a)  == CASE a.kind = "uncaught" -> [status |-> "uncaught"]
                   [] a.kind = "ok"       -> ParseAnswer(a.payload, cache, spotlight)
                   [] OTHER               -> None
      asks    == \E j \in DOMAIN answers : answers[j].kind = "password"
      failure == [status |-> "failed", error |-> IF asks THEN "sudo authorization required" ELSE "failed"]
      given   == FirstKnown([j \in DOMAIN answers |-> end(answers[j])])
  IN IF given = None THEN failure ELSE given

-----------------------------------------------------------------------------
(* ps.                                                                     *)

(* The processes of one application, or of one executable, together.       *)
GroupLines(lines) ==
  LET key(l) == IF l.app # None THEN <<"app", l.app>> ELSE <<"process", l.base>>
      item(l) == [key |-> key(l), raw_name |-> FirstKnown(<<l.app, l.base>>), arguments |-> l.arguments,
                  cpu |-> Positive(l.cpu), rss |-> Positive(l.rss)]
      whole == Filter(lines, IsDict)
  IN Grouped([i \in DOMAIN whole |-> item(whole[i])], {"cpu", "rss"})

(* Processor percent, and at most twenty for the resident memory.          *)
PsScore(item) ==
  100 * item.cpu + Clamp((item.rss * 100) \div 256, 0, 2000)

PsSample(lines, error, cache, spotlight) ==
  LET activity(item) ==
        Update([k \in Metrics |-> IF k = "cpu_ms_per_s" THEN item.cpu * 10 ELSE None],
          [key |-> item.key, raw_name |-> item.raw_name, display_name |-> item.raw_name,
           category |-> "background_service", source |-> "ps-fallback", score |-> PsScore(item),
           arguments |-> item.arguments])
      grouped == GroupLines(lines)
      titled  == WithTitles([i \in DOMAIN grouped |-> activity(grouped[i])], cache, spotlight, Len(grouped))
  IN [window |-> 10, source |-> "ps-fallback", status |-> "degraded", error |-> error,
      activities |-> MostActive(Filter(titled.activities, LAMBDA a : a.score > 0)),
      cache |-> titled.cache]

(* The sample of powermetrics, or else of ps, or else nothing.             *)
FallBack(primary, outcome, cache) ==
  IF primary.status # "failed" THEN primary
  ELSE IF outcome.ps = "uncaught" THEN [status |-> "uncaught"]
  ELSE IF outcome.ps = "failed"
  THEN [window |-> 0, source |-> "none", status |-> "unavailable", error |-> primary.error,
        activities |-> << >>, cache |-> cache]
  ELSE PsSample(outcome.ps, primary.error, cache, outcome.spotlight)

(* One sample of the worker.                                               *)
Sample(outcome, cache) ==
  FallBack(PowermetricsSample(outcome.powermetrics, cache, outcome.spotlight), outcome, cache)

-----------------------------------------------------------------------------
(* The attribution engine.                                                 *)

HighTrustSources == {"battery discharge watts", "BMS SystemPower"}
MediumTrustSources == {"PowerTelemetry SystemEffectiveTotalLoad", "adapter draw plus battery assist",
                       "adapter draw minus battery charge estimate"}

(* The first power that is known and not negative, with its source.        *)
TotalColumns == <<"primary_total_load_w", "actual_battery_draw_w", "bms_system_power_w",
                  "telemetry_system_effective_total_load_w", "soc_power_w">>
TotalSources(row) ==
  <<row.primary_total_load_source, "battery discharge watts", "BMS SystemPower",
    "PowerTelemetry SystemEffectiveTotalLoad", "powermetrics SoC/component estimate">>
NoTotal == "no total power source"

TotalPower(row) ==
  LET watts(i) == row[TotalColumns[i]]
      known    == {i \in 1..5 : Float(watts(i)) # None /\ watts(i) >= 0}
  IN IF known = {} THEN <<None, NoTotal>> ELSE <<watts(Min(known)), TotalSources(row)[Min(known)]>>

IsQuietSample(row) ==
  /\ {row.phase, row.auto_phase} \cap Names["busyPhase"] = {}
  /\ Positive(row.stress_cpu_percent) < 40

(* The quiet rows of each power source and each source of the total.       *)
Learn(history, key, total) ==
  LET old == IF key \in DOMAIN history THEN history[key] ELSE << >>
      new == Append(old, total)
  IN Update(history, [k \in {key} |-> IF Len(new) > QuietSize THEN Tail(new) ELSE new])

QuietKey(row) == <<row.power_source, TotalPower(row)[2]>>

\* Faulty: the placeholder counts as a baseline.
BaselineUnlearned(row, history) ==
  LET total    == TotalPower(row)[1]
      learned  == IF total # None /\ IsQuietSample(row) THEN Learn(history, QuietKey(row), total) ELSE history
  IN [history |-> learned, watts |-> IF total = None THEN None ELSE 0, established |-> total # None]

(* Whether the monitor has a baseline of its own for this power source.    *)
HasBaseline(row) ==
  /\ Float(row.baseline_primary_total_load_w) # None
  /\ row.baseline_power_source \in {None, "", row.power_source}

(* The baseline of the row: the monitor's own one, else what the quiet     *)
(* rows of this source show, else a placeholder.                           *)
Baseline(row, history) ==
  LET total    == TotalPower(row)[1]
      learned  == IF total # None /\ IsQuietSample(row) THEN Learn(history, QuietKey(row), total) ELSE history
      quiet    == IF QuietKey(row) \in DOMAIN learned THEN learned[QuietKey(row)] ELSE << >>
      with(watts, established) == [history |-> learned, watts |-> watts, established |-> established]
  IN IF total = None THEN with(None, FALSE)
     ELSE IF HasBaseline(row) THEN with(Clamp(row.baseline_primary_total_load_w, 0, total), TRUE)
     ELSE IF Len(quiet) >= MinQuiet THEN with(Clamp(Percentile(quiet, 1), 0, total), TRUE)
     ELSE with(0, FALSE)

Confidence(snapshot, totalSource, established) ==
  LET powermetrics == snapshot.source \in {"powermetrics-coalition", "powermetrics-task"}
  IN IF snapshot.source = "powermetrics-coalition" /\ totalSource \in HighTrustSources /\ established
     THEN "high"
     ELSE IF powermetrics /\ totalSource \in HighTrustSources \cup MediumTrustSources THEN "medium"
     ELSE "low"

\* Faulty: the GPU's pool is not limited by what the CPU's left.
ComponentPoolsUnbounded(row, dynamic) ==
  LET above(watts, base) == Positive(Positive(row[watts]) - Positive(row[base]))
      cpu == Clamp(above("cpu_power_w", "baseline_cpu_power_w"), 0, dynamic)
      gpu == Clamp(above("gpu_power_w", "baseline_gpu_power_w"), 0, dynamic)
  IN IF dynamic = None THEN [cpu |-> None, gpu |-> None, residual |-> None, method |-> "activity-share only"]
     ELSE [cpu |-> cpu, gpu |-> gpu, residual |-> Positive(dynamic - cpu - gpu), method |-> "component-aware"]

(* What the CPU and the GPU use above their baselines, within the dynamic  *)
(* power, and the rest of it.                                              *)
ComponentPools(row, dynamic) ==
  LET above(watts, base) == IF Float(row[watts]) = None THEN 0
                            ELSE Positive(row[watts] - FirstKnown(<<Float(row[base]), 0>>))
      cpu == Clamp(above("cpu_power_w", "baseline_cpu_power_w"), 0, dynamic)
      gpu == Clamp(above("gpu_power_w", "baseline_gpu_power_w"), 0, dynamic - cpu)
  IN IF dynamic = None THEN [cpu |-> None, gpu |-> None, residual |-> None, method |-> "activity-share only"]
     ELSE [cpu |-> cpu, gpu |-> gpu, residual |-> dynamic - cpu - gpu,
           method |-> IF above("cpu_power_w", "baseline_cpu_power_w") + above("gpu_power_w", "baseline_gpu_power_w") > 0
                      THEN "component-aware" ELSE "Energy Impact"]

(* A part of a power, rounded down.                                        *)
Part(watts, part, whole) == IF watts = None THEN None ELSE (watts * part) \div whole

(* The largest share first, or the largest score where there are no shares.*)
LargestFirst(apps) ==
  Descending(apps, [i \in DOMAIN apps |-> FirstKnown(<<apps[i].estimated_share_w, apps[i].score>>)])

(* Every eligible activity's share of the power base, which is the         *)
(* baseline, and of the pools above it; the largest come first.            *)
SharedApps(activities, base, dynamic, pools) ==
  LET eligible == Filter(activities, LAMBDA a : a.score >= MinScore)
      whole(k) == SumFunction([i \in DOMAIN eligible |-> Positive(eligible[i][k])])
      by(k, a, watts) == IF whole(k) > 0 THEN Part(watts, Positive(a[k]), whole(k))
                         ELSE Part(watts, a.score, whole("score"))
      share(a) == LET cpu      == by("cpu_ms_per_s", a, pools.cpu)
                      gpu      == by("gpu_ms_per_s", a, pools.gpu)
                      residual == Part(pools.residual, a.score, whole("score"))
                      own      == IF dynamic = None THEN None ELSE cpu + gpu + residual
                  IN Update(a,
                       [estimated_cpu_w |-> cpu, estimated_gpu_w |-> gpu, estimated_residual_w |-> residual,
                        estimated_dynamic_w |-> own,
                        estimated_share_w |-> IF own = None THEN None
                                              ELSE Part(base, a.score, whole("score")) + own])
      byScore == Descending([i \in DOMAIN eligible |-> share(eligible[i])],
                            [i \in DOMAIN eligible |-> eligible[i].score])
  IN IF whole("score") = 0 THEN << >>
     ELSE LargestFirst(byScore)

(* What the row says of the published sample.                              *)
Shares(row, snapshot, total, base, t) ==
  LET dynamic == IF total[1] = None THEN None ELSE Positive(total[1] - base.watts)
      pools   == ComponentPools(row, dynamic)
      apps    == SharedApps(snapshot.activities, base.watts, dynamic, pools)
      given   == IF total[1] = None THEN None ELSE SumFunction([i \in DOMAIN apps |-> apps[i].estimated_share_w])
  IN [sample_id |-> snapshot.sample_id, at |-> snapshot.at, window |-> snapshot.window,
      age |-> t - snapshot.at, status |-> snapshot.status, source |-> snapshot.source, error |-> snapshot.error,
      confidence |-> Confidence(snapshot, total[2], base.established),
      total |-> total[1], total_source |-> total[2], power_source |-> row.power_source,
      baseline |-> base.watts, dynamic |-> dynamic,
      pools |-> pools, attributed |-> given,
      unattributed |-> IF total[1] = None THEN None ELSE Positive(total[1] - given),
      apps |-> apps, history |-> base.history]

(* attribute. *)
Attribute(row, snapshot, history, t) ==
  Shares(row, snapshot, TotalPower(row), Baseline(row, history), t)

(* The top applications of the row, without the measurement itself unless  *)
(* there is nothing else.                                                  *)
TopForDisplay(apps, limit) ==
  LET preferred == Filter(apps, LAMBDA a : a.category # "measurement")
  IN AtMost(IF preferred # << >> THEN preferred ELSE apps, limit)

RowFields(result) ==
  LET top == TopForDisplay(result.apps, TopSlots)
      slot(i, k) == IF i <= Len(top) THEN top[i][k] ELSE None
  IN [status |-> result.status, source |-> result.source, confidence |-> result.confidence,
      error |-> result.error, sample_id |-> result.sample_id, attributed |-> result.attributed,
      top |-> [i \in 1..TopSlots |-> <<slot(i, "display_name"), slot(i, "category"), slot(i, "estimated_share_w")>>]]

EmptyRowFields ==
  [status |-> "off", source |-> None, confidence |-> None, error |-> None, sample_id |-> None,
   attributed |-> None, top |-> [i \in 1..TopSlots |-> <<None, None, None>>]]
=============================================================================
