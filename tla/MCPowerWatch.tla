---------------------------- MODULE MCPowerWatch ----------------------------
(* PowerWatch with four states of one machine: charging without any source *)
(* for the load, draining on AC under a stress test, heavily loaded on     *)
(* battery, and full with a pmset that does not answer.                    *)
EXTENDS PowerWatch

Adapter(watts) == [Watts |-> watts, Name |-> "charger", Voltage |-> 28000, Current |-> 5000]

Pmset(source, phrase) == [first |-> source, phrase |-> phrase, percent |-> 80, remaining |-> None]

Stress(n) == [i \in 1..n |-> [name |-> "cpu_stress", cpu |-> 200]]

Charging ==
  [battery |-> [Voltage |-> 12000, InstantAmperage |-> 1700, Temperature |-> 3300,
                AdapterDetails |-> Adapter(140), ExternalConnected |-> TRUE,
                AppleRawMaxCapacity |-> 8000, DesignCapacity |-> 8600],
   banks |-> << >>, pmset |-> Pmset("AC Power", "charging"), phase |-> None, ps |-> << >>]

Draining ==
  [battery |-> [Voltage |-> 11500, InstantAmperage |-> -1000, Temperature |-> 3700,
                AdapterDetails |-> Adapter(140), PowerTelemetryData |-> [SystemEffectiveTotalLoad |-> 150000]],
   banks |-> << >>, pmset |-> Pmset("AC Power", "not charging"), phase |-> "cpu stress", ps |-> Stress(2)]

OnBattery ==
  [battery |-> [Voltage |-> 11500, InstantAmperage |-> -6500, Temperature |-> 4500, MaxCapacity |-> 100,
                CurrentCapacity |-> 80],
   banks |-> << >>, pmset |-> Pmset("Battery Power", "discharging"), phase |-> "cpu stress",
   ps |-> Stress(2) \o <<Junk>>]

Silent ==
  [battery |-> [Voltage |-> 12000, Amperage |-> 0, BatteryTemperature |-> 3400,
                AdapterDetails |-> Junk, AppleRawAdapterDetails |-> <<Adapter(140), Adapter(96)>>,
                BestAdapterIndex |-> 1, BatteryData |-> [SystemPower |-> 12, CellVoltage |-> <<4000, 4010>>],
                ExternalConnected |-> TRUE, NominalChargeCapacity |-> 8000, DesignCapacity |-> 8600],
   banks |-> <<Junk, [BatteryData |-> [CellVoltage |-> <<3990, Junk>>]]>>,
   pmset |-> None, phase |-> "", ps |-> None]

MCSays == [charging |-> Charging, draining |-> Draining, onBattery |-> OnBattery, silent |-> Silent]

MCMachines == DOMAIN MCSays

Error == [ok |-> FALSE, password |-> TRUE]
Answer(out) == [ok |-> TRUE, out |-> out]
Watts(n) == [value |-> n, unit |-> "mW"]

MCPmOutcomes ==
  [heavy |-> <<Answer([cpu_power_w |-> Watts(38000), gpu_power_w |-> [value |-> 2, unit |-> "W"],
             p0_cluster_freq_mhz |-> 4000, p0_cluster_active_percent |-> 90] @@ ("CPU thermal pressure" :> "Heavy"))>>,
   noFields |-> <<Error, Answer([combined_power_w |-> Watts(5000), cpu_frequency_mhz |-> 100])>>]

MCSpOutcomes ==
  [report |-> [json |-> <<[name |-> "sppower_information",
                fields |-> [sp_ac_low_power_mode |-> "Yes", sp_ac_high_power_mode |-> "Yes"]]>>,
    text |-> Junk]]
=============================================================================
