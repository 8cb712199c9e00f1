------------------------------ MODULE Scorecard ------------------------------
(***************************************************************************)
(* What the legacy tools make of a test: generate_test_run_summary.py      *)
(* reduces the rows a power monitor wrote during it to one summary, and    *)
(* generate_battery_scorecard.py the summaries of all tests to one card.   *)
(*                                                                         *)
(* Power is in W, energy in Wh, runtime in hundredths of an hour, a score  *)
(* in tenths of a percent; a quotient is rounded down.                     *)
(***************************************************************************)
EXTENDS Values

CONSTANT Aliases   \* the titles find_test takes for each kind of test

-----------------------------------------------------------------------------
(* Values.  The programs filter lists and then count, add and compare what *)
(* is left.  A list is a function of the places of its elements here, and  *)
(* what is left of it keeps its places.                                    *)

Vals(rows, k) == Clean([i \in DOMAIN rows |-> GetNum(rows[i], k)])

Avg(values) ==
  IF DOMAIN values = {} THEN None ELSE SumFunction(values) \div Cardinality(DOMAIN values)

Maxv(values) == IF DOMAIN values = {} THEN None ELSE Max(Range(values))

Med(values) ==
  LET n == Cardinality(DOMAIN values)
  IN IF n = 0 THEN None
     ELSE IF n % 2 = 1 THEN NthLeast(values, n \div 2 + 1)
     ELSE (NthLeast(values, n \div 2) + NthLeast(values, n \div 2 + 1)) \div 2

First(rows) == rows[Min(DOMAIN rows)]
Latest(rows) == rows[Max(DOMAIN rows)]

-----------------------------------------------------------------------------
(* The summary of one test.  What no card is made of is left out: the other *)
(* averages, peaks and differences, and the score of the single test.      *)

Difference(rows, k) ==
  LET first == GetNum(First(rows), k)
      last  == GetNum(Latest(rows), k)
  IN IF None \in {first, last} THEN None ELSE last - first

\* Faulty: the counter at the end of the test, which began with the monitor.
DiffCounterFromZero(rows, k) == GetNum(Latest(rows), k)

DiffCounter(rows, k) ==
  LET d == Difference(rows, k) IN IF d = None \/ d < 0 THEN None ELSE d

(* The rows of the application summary have no timestamp.                  *)
IntervalRows(rows, start, end) ==
  RestrictValues(rows, LAMBDA r : LET t == Get(r, "timestamp") IN t # None /\ start <= t /\ t <= end)

IntervalSeconds(rows) ==
  IF Cardinality(DOMAIN rows) < 2 THEN None ELSE Latest(rows).timestamp - First(rows).timestamp

(* Hours that an energy lasts under the average of the drawn power.        *)
Lasting(wh, draw) == IF wh = None \/ draw \in {None, 0} THEN None ELSE (100 * wh) \div draw

(* What the battery gave, at the rows at which it gave something.          *)
Drawn(rows) ==
  LET net == Vals(rows, "net_battery_watts") IN [i \in {j \in DOMAIN net : net[j] < 0} |-> -net[i]]

SummarizeInterval(rows) ==
  IF DOMAIN rows = {} THEN << >>
  ELSE
    LET draw      == Avg(Drawn(rows))
        from(src) == \A i \in DOMAIN rows : rows[i].power_source = src
    IN [samples                        |-> Cardinality(DOMAIN rows),
        interval_seconds               |-> IntervalSeconds(rows),
        all_battery_power              |-> from("Battery Power"),
        all_ac_power                   |-> from("AC Power"),
        primary_load_avg_w             |-> Avg(Vals(rows, "primary_total_load_w")),
        primary_load_peak_w            |-> Maxv(Vals(rows, "primary_total_load_w")),
        battery_wh_discharged_interval |-> DiffCounter(rows, "battery_wh_discharged"),
        runtime_projection_hours_full  |-> Lasting(Med(Vals(rows, "estimated_wh_full")), draw),
        battery_temp_peak_c            |-> Maxv(Vals(rows, "battery_temp_c")),
        cell_delta_peak_mv             |-> Maxv(Vals(rows, "cell_voltage_delta_mv"))]

AtMost(n, bound) == IF n < bound THEN n ELSE bound
AtLeast(n, bound) == IF n > bound THEN n ELSE bound
Clamp(n) == AtLeast(0, AtMost(n, 1000))

Summary(test, rows) ==
  LET s == SummarizeInterval(IntervalRows(rows, test.start, test.end))
  IN Update(s, [title |-> test.title, status |-> test.status])

-----------------------------------------------------------------------------
(* The card.                                                               *)

Valid(runs) == RestrictValues(runs, LAMBDA r : Get(r, "samples") \notin {None, 0})

ClassifyRun(runs) ==
  LET all(flag) == \A i \in DOMAIN Valid(runs) : runs[i][flag]
  IN CASE DOMAIN Valid(runs) = {}  -> "unknown"
       [] all("all_battery_power") -> "battery_discharge"
       [] all("all_ac_power")      -> "ac_adapter"
       [] OTHER                    -> "mixed"

(* The first of its kind, which is the oldest test of all.                 *)
FindTest(runs, key) ==
  LET found == {i \in DOMAIN runs : runs[i].title \in Aliases[key]}
  IN IF found = {} THEN << >> ELSE runs[Min(found)]

Targets == [cpu |-> 200, gpu |-> 150, memory |-> 200, extreme |-> 100]

Share(actual, target) == IF actual = None THEN None ELSE Clamp((1000 * actual) \div target)

ScoreTemperature(t) ==
  CASE t = None -> None
    [] t # None /\ t <= 38 -> 1000
    [] t # None /\ t \in 39..40 -> Clamp(1000 - 75 * (t - 38))
    [] OTHER -> Clamp(850 - 100 * (t - 40))

ScoreCellDelta(d) ==
  CASE d = None -> None
    [] d # None /\ d <= 20 -> 1000
    [] d # None /\ d \in 21..35 -> Clamp(1000 - (250 * (d - 20)) \div 15)
    [] OTHER -> Clamp(750 - 20 * (d - 35))

AvgPresent(values) == Avg(Clean(values))

Weights == [endurance |-> 35, sustained |-> 25, thermal |-> 25, stability |-> 15]
Parts == DOMAIN Weights

\* Faulty: the mean of the weighted scores, as in v0.7.8 to v0.8.3.
OverallOfWeighted(scores) ==
  LET present == Clean(scores)
  IN Avg([p \in DOMAIN present |-> (present[p] * Weights[p]) \div 100])

(* The average of the scores there are, by their weights.                  *)
Overall(scores) ==
  LET present == Clean(scores)
  IN IF DOMAIN present = {} THEN None
     ELSE SumFunction([p \in DOMAIN present |-> present[p] * Weights[p]])
            \div SumFunction([p \in DOMAIN present |-> Weights[p]])

ComputeScorecard(runs) ==
  LET valid       == Valid(runs)
      extreme     == FindTest(runs, "extreme")
      worst(k)    == Maxv(Vals(valid, k))
      sum(k)      == SumFunction(Vals(valid, k))
      runtime(k)  == Share(GetNum(FindTest(runs, k), "runtime_projection_hours_full"), Targets[k])
      stability   == ScoreCellDelta(worst("cell_delta_peak_mv"))
      complete    == \A i \in DOMAIN valid : valid[i].status = "complete"
      scores      == [endurance |-> AvgPresent(<<runtime("cpu"), runtime("gpu"), runtime("memory"), runtime("extreme")>>),
                      sustained |-> AvgPresent(<<Share(GetNum(extreme, "primary_load_avg_w"), 95),
                                                 Share(GetNum(extreme, "primary_load_peak_w"), 110)>>),
                      thermal   |-> ScoreTemperature(worst("battery_temp_peak_c")),
                      stability |-> IF complete /\ stability # None THEN AtMost(1000, stability + 30) ELSE stability]
  IN [run_type |-> ClassifyRun(runs), overall |-> Overall(scores), scores |-> scores,
      total_wh_used |-> sum("battery_wh_discharged_interval"),
      total_test_seconds |-> sum("interval_seconds")]
=============================================================================
