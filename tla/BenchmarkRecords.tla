--------------------------- MODULE BenchmarkRecords ---------------------------
(***************************************************************************)
(* The records of the legacy benchmarks, from the monitor's rows to the    *)
(* history of scores: power monitors write their logs, tests are listed    *)
(* with the log that was written last, and programs started by hand or by  *)
(* the benchmark scripts summarize them, score the latest summary, append  *)
(* it to the history and compare it, and rebuild the history.              *)
(*                                                                         *)
(* Each program is a process of its own; one of them runs at a time, and   *)
(* the monitor and a test beside it.  A file is known by who wrote it and  *)
(* by its place in the order of modification.                              *)
(***************************************************************************)
EXTENDS Scorecard

CONSTANTS
  Readings,       \* what a row can show
  Suite,          \* the titles of the tests in their order, and how each ends
  MaxNow, MaxRows, MaxMonitors, MaxSummaries, MaxScores,   \* bounds
  MaxFaults       \* bound: writes that end half-way

(* The columns a card is made of: the counter, which starts at 0, and those *)
(* that may be missing or no number.                                       *)
Counters == {"battery_wh_discharged"}
Columns == {"net_battery_watts", "estimated_wh_full", "primary_total_load_w", "battery_temp_c", "cell_voltage_delta_mv"}

ASSUME ReadingsAssumption ==
  \A reading \in Readings :
    /\ \A k \in Counters : k \in DOMAIN reading /\ reading[k] \in Nat
    /\ \A k \in Columns : GetNum(reading, k) \in Int \cup {None}

VARIABLES
  now,         \* seconds
  monitors,    \* the rows in the power log of each monitor, the last may run
  open,        \* whether it does
  modified,    \* the CSV file of logs/ that was written last, or None
  test,        \* the test that runs, or None
  tests,       \* test_runs.jsonl
  summaries,   \* the summary files, each a list of test summaries, or Junk
  lines,       \* the lines of battery_benchmark_scores.jsonl, each a sequence of
               \* cards and of pieces of text
  ended,       \* whether its last line has its newline
  compared,    \* the comparison written last, or None
  faults

vars == <<now, monitors, open, modified, test, tests, summaries, lines, ended, compared, faults>>

(* Bound: nothing is recorded behind the first summary, which would not     *)
(* show it.                                                                *)
Recording == summaries = << >>

Power(k) == [monitor |-> k, kind |-> "power"]
Apps(k) == [monitor |-> k, kind |-> "apps"]

Init ==
  /\ now = 0 /\ monitors = << >> /\ open = FALSE /\ modified = None
  /\ test = None /\ tests = << >> /\ summaries = << >>
  /\ lines = << >> /\ ended = TRUE /\ compared = None /\ faults = 0

Tick ==
  /\ Recording /\ now < MaxNow /\ now' = now + 1
  /\ UNCHANGED <<monitors, open, modified, test, tests, summaries, lines, ended, compared, faults>>

-----------------------------------------------------------------------------
(* The power monitor.  An iteration writes the summary of the applications *)
(* when it is due, and then its row; the end writes the summary again,     *)
(* unless there is none or the monitor is killed.                          *)

Current == Len(monitors)

OpenMonitor ==
  /\ Recording /\ ~open /\ Current < MaxMonitors
  /\ open' = TRUE /\ monitors' = Append(monitors, << >>)
  /\ modified' = Power(Current + 1)
  /\ UNCHANGED <<now, test, tests, summaries, lines, ended, compared, faults>>

Count(reading, rows, k) == reading[k] + (IF rows = << >> THEN 0 ELSE Last(rows)[k])

WriteRow ==
  /\ Recording /\ open /\ SumFunction([k \in DOMAIN monitors |-> Len(monitors[k])]) < MaxRows
  /\ \E reading \in Readings :
       monitors' = [monitors EXCEPT ![Current] =
         Append(@, Update(reading,
           [timestamp |-> now,
            battery_wh_discharged |-> Count(reading, monitors[Current], "battery_wh_discharged")]))]
  /\ modified' = Power(Current)
  /\ UNCHANGED <<now, open, test, tests, summaries, lines, ended, compared, faults>>

FlushSummary ==
  /\ Recording /\ open /\ modified = Power(Current)
  /\ modified' = Apps(Current)
  /\ UNCHANGED <<now, monitors, open, test, tests, summaries, lines, ended, compared, faults>>

CloseMonitor ==
  /\ Recording /\ open /\ open' = FALSE
  /\ modified' \in {modified, Apps(Current)}
  /\ UNCHANGED <<now, monitors, test, tests, summaries, lines, ended, compared, faults>>

-----------------------------------------------------------------------------
(* The tests.  One whose runner is killed is not listed and leaves nothing *)
(* here.                                                                   *)

(* Nothing is written after the test has ended: the file modified last is  *)
(* the nearest to its end, and in its window if any is.                    *)
FindNearestPowerLog == modified

BeginTest ==
  /\ Recording /\ test = None
  /\ \E i \in DOMAIN Suite :
       /\ \A j \in i..Len(Suite) : \A k \in DOMAIN tests : tests[k].title # Suite[j].title
       /\ test' = Update(Suite[i], [start |-> now])
  /\ UNCHANGED <<now, monitors, open, modified, tests, summaries, lines, ended, compared, faults>>

EndTest ==
  /\ Recording /\ test # None /\ test' = None
  /\ tests' = Append(tests, Update(test, [end |-> now, nearest |-> FindNearestPowerLog]))
  /\ UNCHANGED <<now, monitors, open, modified, summaries, lines, ended, compared, faults>>

-----------------------------------------------------------------------------
(* The programs that read the records.                                     *)

LatestCsv == FindNearestPowerLog

(* Of the summary of the applications only the missing time stamps count.  *)
RowsOf(file) == IF file = None \/ file.kind = "apps" THEN << >> ELSE monitors[file.monitor]

(* No program removes a log: the one a test is listed with is there.       *)
LogOf(t) == IF t.nearest = None THEN LatestCsv ELSE t.nearest

Summarize ==
  /\ test = None /\ tests # << >> /\ Len(summaries) < MaxSummaries
  /\ LET made == [i \in DOMAIN tests |-> Summary(tests[i], RowsOf(LogOf(tests[i])))]
     IN \/ summaries' = Append(summaries, made) /\ UNCHANGED faults
        \/ summaries' = Append(summaries, Junk) /\ faults < MaxFaults /\ faults' = faults + 1
  /\ UNCHANGED <<now, monitors, open, modified, test, tests, lines, ended, compared>>

(* A card goes behind what there is of a line without a newline.           *)
Written(piece) ==
  IF ended THEN Append(lines, <<piece>>) ELSE [lines EXCEPT ![Len(lines)] = Append(@, piece)]

IsCard(piece) == piece \notin {Junk, None}

(* json.loads takes a line that is one card, and rejects two on a line.    *)
Readable(history) ==
  LET whole == Filter(history, LAMBDA line : Len(line) = 1 /\ IsCard(line[1]))
  IN [i \in DOMAIN whole |-> whole[i][1]]

WriteComparison(history) ==
  LET rows == Readable(history)
  IN compared' = IF Len(rows) < 2 THEN compared ELSE [prev |-> rows[Len(rows) - 1], latest |-> Last(rows)]

Pieces == FlattenSeq(lines)

(* A torn summary ends the program before it writes anything.              *)
Score ==
  /\ summaries # << >> /\ Last(summaries) # Junk
  /\ Len(Pieces) < MaxScores
  /\ \/ /\ lines' = Written(ComputeScorecard(Last(summaries))) /\ ended' = TRUE
        /\ WriteComparison(lines') /\ UNCHANGED faults
     \/ /\ lines' = Written(Junk) /\ ended' = FALSE
        /\ faults < MaxFaults /\ faults' = faults + 1
        /\ UNCHANGED compared
  /\ UNCHANGED <<now, monitors, open, modified, test, tests, summaries>>

(* The cards of all summaries, each with a backslash and an n behind it,   *)
(* for which None stands.                                                  *)
Rebuilt ==
  [i \in 1 .. 2 * Len(summaries) |->
     IF i % 2 = 1 THEN ComputeScorecard(summaries[i \div 2 + 1]) ELSE None]

(* repair_battery_score_history.py scores every summary anew.  It joins    *)
(* the cards with a backslash and an n instead of a newline, so that the   *)
(* history is a single line, which has no end.                             *)
Repair ==
  /\ summaries # << >> /\ Junk \notin Range(summaries)
  /\ lines' = <<Rebuilt>>
  /\ ended' = FALSE
  /\ UNCHANGED <<now, monitors, open, modified, test, tests, summaries, compared, faults>>

Next ==
  \/ Tick \/ OpenMonitor \/ WriteRow \/ FlushSummary \/ CloseMonitor
  \/ BeginTest \/ EndTest \/ Summarize \/ Score \/ Repair

Spec == Init /\ [][Next]_vars

-----------------------------------------------------------------------------
(* Properties.                                                             *)

Cards == {c \in UNION {Range(lines[i]) : i \in DOMAIN lines} : IsCard(c)}

(* "overall = weighted_average(endurance 35%, sustained_load 25%, thermal  *)
(* 25%, stability 15%)" (generate_battery_scorecard.py:206): the overall   *)
(* score of a card is between the least and the greatest of the scores it  *)
(* has, whichever of them are missing, and none is beyond 100 %.           *)
OverallWithinParts ==
  \A c \in Cards :
    LET have == {c.scores[p] : p \in Parts} \ {None}
    IN /\ have \subseteq 0..1000
       /\ c.overall = None <=> have = {}
       /\ c.overall # None => \E low, high \in have : low <= c.overall /\ c.overall <= high

(* What a monitor counted within one second.                               *)
CountedIn(k, second) ==
  LET rows == RestrictValues(monitors[k], LAMBDA r : r.timestamp = second)
  IN IF DOMAIN rows = {} THEN 0 ELSE Difference(rows, "battery_wh_discharged")

(* The tests of a card share neither time nor energy: together they have   *)
(* taken no longer than there was, and used no more than the monitors      *)
(* counted, also where a monitor was replaced within a test and where the  *)
(* log of a test has no rows.  Only the second in which one test ends and  *)
(* another begins belongs to both.                                         *)
EnergyCountedOnce ==
  LET numbers == DOMAIN monitors
      counted == SumFunction([k \in numbers |-> IF monitors[k] = << >> THEN 0 ELSE Last(monitors[k]).battery_wh_discharged])
      border  == SumFunction([i \in DOMAIN tests |->
                   IF \E j \in 1..i - 1 : tests[j].end = tests[i].start
                   THEN SumFunction([k \in numbers |-> CountedIn(k, tests[i].start)]) ELSE 0])
  IN \A c \in Cards :
       c.total_test_seconds \in 0..now /\ c.total_wh_used \in 0..counted + border

(* "It rebuilds score history from all test_run_power_summary_*.json files"*)
(* (repair_battery_score_history.py:8): after a repair the history has one *)
(* readable card for each summary.                                         *)
RepairRebuildsHistory == [][Repair => Len(Readable(lines')) = Len(summaries)]_vars
=============================================================================
