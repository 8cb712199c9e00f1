--------------------------- MODULE MCBenchmarkRecords ---------------------------
(* BenchmarkRecords with two readings: a heavy load on battery, and a      *)
(* battery that helps the adapter and was read in part.                    *)
EXTENDS BenchmarkRecords

MCAliases == [cpu |-> {"CPU stress test"}, gpu |-> {"GPU stress test"}, memory |-> {"Memory bandwidth stress test"},
              extreme |-> {"EXTREME POWER"}]
MCSuite == <<[title |-> "CPU stress test", status |-> "complete"], [title |-> "EXTREME POWER", status |-> "stopped"]>>

Drain == [power_source |-> "Battery Power", net_battery_watts |-> -60, battery_wh_discharged |-> 2,
          estimated_wh_full |-> 66, primary_total_load_w |-> 60, battery_temp_c |-> 39, cell_voltage_delta_mv |-> 25]
Partial == [Drain EXCEPT !.power_source = "AC Power", !.net_battery_watts = -5, !.battery_wh_discharged = 1,
                         !.estimated_wh_full = None, !.primary_total_load_w = None, !.battery_temp_c = 42,
                         !.cell_voltage_delta_mv = 38]
MCReadings == {Drain, Partial}
=============================================================================
