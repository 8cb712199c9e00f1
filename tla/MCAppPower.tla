----------------------------- MODULE MCAppPower -----------------------------
(* AppPower with five answers of the commands and three rows.  The scores  *)
(* of an answer add up to a divisor of every power, so that the shares are *)
(* whole numbers.                                                          *)
EXTENDS AppPower

MCNames ==
  [measurement |-> {"powermetrics"}, benchmark |-> {"cpu_stress"}, userAppId |-> {"com.apple.Safari"},
   userAppName |-> {"Safari"}, apple |-> {"com.apple.Safari"}, daemon |-> {"mdworkerd"},
   bundle |-> {"com.apple.Safari", "org.tool"}, capital |-> {"Safari", "Tool"},
   identifier |-> {"com.apple.Safari", "org.tool"}, busyPhase |-> {"cpu stress", "auto: load on AC"}]

MCTitles ==
  [known |-> ("com.apple.Safari" :> "Safari"), inPath |-> ("/Applications/Tool.app" :> "Tool"),
   fallback |-> ("org.tool" :> "Tool" @@ "com.apple.Safari" :> "Safari")]

Command(payload) == [kind |-> "ok", payload |-> payload]
Failed == [kind |-> "failed"]
Whole(plist) == [whole |-> plist, chunks |-> << >>]
Chunks(plists) == [whole |-> None, chunks |-> plists]

(* A coalition twice, with a row without a name and one without a score.   *)
Coalitions ==
  Whole([elapsed |-> 10, coalitions |->
    <<[name |-> "com.apple.Safari", id |-> 1, energy_impact_per_s |-> 20, cpu_ms_per_s |-> 100],
      [name |-> "org.tool", id |-> 2, energy_impact_per_s |-> 5, cpu_ms_per_s |-> 100],
      [name |-> "com.apple.Safari", id |-> 3, energy_impact_per_s |-> 15, gpu_ms_per_s |-> 50],
      [id |-> 4, energy_impact_per_s |-> 7], Junk, [name |-> "mdworkerd", id |-> 5]>>])

(* Tasks without energy: a helper of the tool, all tasks, the measurement. *)
Tasks ==
  Chunks(<<Junk, [elapsed |-> 20, coalitions |-> << >>, tasks |->
    <<[name |-> "org.tool", pid |-> 7, cpu_ms_per_s |-> 10],
      [name |-> "helper", pid |-> 8, responsible_pid |-> 7, cpu_ms_per_s |-> 30],
      [name |-> "ALL_TASKS", pid |-> -1, cpu_ms_per_s |-> 50],
      [name |-> "powermetrics", pid |-> 9, gputime_ms |-> 10]>>]>>)

Lines == <<[app |-> "Tool", base |-> None, arguments |-> "/Applications/Tool.app", cpu |-> 30, rss |-> 0],
           [app |-> None, base |-> "mdworkerd", arguments |-> "", cpu |-> 10, rss |-> 0],
           [app |-> "Tool", base |-> None, arguments |-> "/Applications/Tool.app", cpu |-> 10, rss |-> 0], Junk>>

NoAnswer == <<Failed, [kind |-> "password"], Failed>>

MCOutcomes ==
  [coalitions |-> [powermetrics |-> <<Command(Coalitions)>>, ps |-> "failed", spotlight |-> << >>],
   tasks |-> [powermetrics |-> <<Failed, Command(Whole(Junk)), Command(Tasks)>>, ps |-> "failed",
              spotlight |-> ("org.tool" :> "The Tool")],
   ps |-> [powermetrics |-> NoAnswer, ps |-> Lines, spotlight |-> << >>],
   nothing |-> [powermetrics |-> NoAnswer, ps |-> "failed", spotlight |-> << >>],
   undecodable |-> [powermetrics |-> NoAnswer, ps |-> "uncaught", spotlight |-> << >>]]

Base == [primary_total_load_w |-> None, primary_total_load_source |-> "no reliable total-load source",
         actual_battery_draw_w |-> None, bms_system_power_w |-> None,
         telemetry_system_effective_total_load_w |-> None, soc_power_w |-> None,
         cpu_power_w |-> None, gpu_power_w |-> None, baseline_cpu_power_w |-> None, baseline_gpu_power_w |-> None,
         baseline_primary_total_load_w |-> None, baseline_power_source |-> None,
         phase |-> "idle / unmarked", auto_phase |-> "auto: AC idle/light", stress_cpu_percent |-> 0,
         power_source |-> "AC Power"]

MCRows ==
  [quiet   |-> [Base EXCEPT !.primary_total_load_w = 12000, !.primary_total_load_source = "BMS SystemPower",
                            !.cpu_power_w = 4000],
   busy    |-> [Base EXCEPT !.primary_total_load_w = 60000, !.primary_total_load_source = "BMS SystemPower",
                            !.cpu_power_w = 44000, !.gpu_power_w = 16000, !.auto_phase = "auto: load on AC",
                            !.baseline_primary_total_load_w = 8000, !.baseline_cpu_power_w = 4000,
                            !.baseline_power_source = "Battery Power"],
   unknown |-> Base]

(* What follows two failed rows is not explored: the second failure of     *)
(* interest is the one of close, after one of a row.                       *)
FaultsLeft == faults = MaxFaults => stage # "running"
=============================================================================
