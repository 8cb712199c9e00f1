---------------------------- MODULE PowerReading ----------------------------
(***************************************************************************)
(* One reading of the legacy power monitor (mac_power_watch.py): how the   *)
(* outputs of ioreg, pmset, powermetrics, system_profiler and ps become    *)
(* one row.  Everything here is a pure operator; PowerWatch.tla holds the  *)
(* monitor loop that takes a reading on every iteration.                   *)
(*                                                                         *)
(* Power is in mW, voltage in mV, current in mA, temperature in hundredths *)
(* of a degree Celsius and energy in mW*s.                                 *)
(***************************************************************************)
EXTENDS Values

(* The dictionaries among the banks of cells, and their BatteryData.       *)
GoodBanks(banks) == Filter(banks, IsDict)

SubDicts(dicts, key) ==
  Filter([i \in DOMAIN dicts |-> Get(dicts[i], key)], IsDict)

-----------------------------------------------------------------------------
(* pmset -g batt.  The text is the source its first line names, the phrase *)
(* about charging, the percentage and the remaining time; None is an empty *)
(* text.  "not charging" contains the word the code looks for.             *)

ParsePmset(text) ==
  IF text = None
  THEN [source |-> None, percent |-> None, state |-> None, time |-> None]
  ELSE [source  |-> IF text.first \in {"AC Power", "Battery Power"} THEN text.first ELSE None,
        percent |-> text.percent,
        state   |-> CASE text.phrase = "discharging" -> "discharging"
                      [] text.phrase \in {"charging", "not charging"} -> "charging"
                      [] text.phrase = "charged" -> "charged"
                      [] OTHER -> None,
        time    |-> text.remaining]

CalcPercent(b, pmset) ==
  LET current == GetNum(b, "CurrentCapacity")
      maxcap  == GetNum(b, "MaxCapacity")
  IN IF pmset.percent # None THEN pmset.percent
     ELSE IF current = None THEN None
     ELSE IF current \in 0..100 /\ (maxcap = None \/ maxcap <= 100) THEN current
     ELSE IF maxcap # None /\ maxcap > 0 THEN (current * 100) \div maxcap
     ELSE current

-----------------------------------------------------------------------------
(* The battery's own registry entry.                                       *)

BatteryElectrical(b) ==
  LET mv == GetNum(b, "Voltage")
      ma == IF GetNum(b, "InstantAmperage") # None THEN GetNum(b, "InstantAmperage")
            ELSE GetNum(b, "Amperage")
  IN [voltage |-> mv, amperage |-> ma,
      net |-> IF None \in {mv, ma} THEN None ELSE (mv * ma) \div 1000]

(* A value above 1000 is taken to be millivolts, one above 100 milliamps.  *)
NormalizeAdapterVoltage(v) ==
  IF Float(v) = None THEN None ELSE IF v > 1000 THEN v ELSE v * 1000

NormalizeAdapterCurrent(v) ==
  IF Float(v) = None THEN None ELSE IF Abs(v) > 100 THEN v ELSE v * 1000

(* BestAdapterIndex into the list of raw adapters (a single dictionary is a*)
(* list of one), the first one where it does not fit or is not a number.   *)
SelectedRawAdapter(b) ==
  LET raw   == Get(b, "AppleRawAdapterDetails")
      index == Either(Get(b, "BestAdapterIndex"), 0)
  IN IF raw \in {None, Junk, << >>} THEN << >>
     ELSE IF index # Junk /\ index + 1 \in DOMAIN raw THEN Dict(raw[index + 1])
     ELSE Dict(raw[1])

AdapterInfo(b) ==
  LET adapter == Dict(Get(b, "AdapterDetails"))
      raw     == SelectedRawAdapter(b)
      volts   == NormalizeAdapterVoltage(
                   Either(Get(adapter, "Voltage"),
                   Either(Get(adapter, "AdapterVoltage"),
                   Either(Get(raw, "Voltage"), Get(raw, "AdapterVoltage")))))
      amps    == NormalizeAdapterCurrent(FirstKnown(<<Get(adapter, "Current"), Get(raw, "Current")>>))
      watts   == FirstKnown(<<Get(adapter, "Watts"), Get(raw, "Watts")>>)
  IN [adapter_name |-> FirstKnown(<<Get(adapter, "Name"), Get(adapter, "Description"),
                                    Get(raw, "Name"), Get(raw, "Description"), "Unknown">>),
      adapter_voltage_v |-> volts,
      adapter_current_a |-> amps,
      adapter_calculated_watts |->
        IF None \in {volts, amps} THEN None ELSE (volts * amps) \div 1000,
      adapter_reported_watts |-> IF watts = None THEN None ELSE watts * 1000]

(* plausible_temp: every reading of the raw value as deci-Kelvin, hundredths*)
(* or plain degrees that is in range, and of those the one nearest 35 C.    *)
PlausibleTemp(raw) ==
  LET candidates == IF raw > 2000 THEN {raw * 10 - 27315, raw}
                    ELSE IF raw > 200 THEN {raw * 100 - 27315, raw * 10}
                    ELSE {raw * 100}
      valid      == {c \in candidates : c \in -2000..8500}
  IN IF Float(raw) = None \/ valid = {} THEN None
     ELSE CHOOSE c \in valid : \A d \in valid : Abs(c - 3500) <= Abs(d - 3500)

TemperatureFromBattery(b, banks) ==
  LET own     == <<b>> \o SubDicts(<<b>>, "BatteryData")
      ofBank  == [i \in DOMAIN GoodBanks(banks) |->
                    <<GoodBanks(banks)[i]>> \o SubDicts(<<GoodBanks(banks)[i]>>, "BatteryData")]
      sources == own \o FlattenSeq(ofBank)
      celsius(keys) == LET raw == FirstNum(sources, keys)
                       IN IF raw = None THEN None ELSE PlausibleTemp(raw)
  IN [battery_temp_c |-> celsius(<<"Temperature", "BatteryTemperature">>),
      virtual_temp_c |-> celsius(<<"VirtualTemperature">>)]

(* A time the registry does not know is 65535.                             *)
TimeFieldMinutes(v) ==
  IF Float(v) = None THEN None ELSE IF v < 0 \/ v >= 65000 THEN None ELSE v

EstimateBatteryHealth(b) ==
  LET full   == Either(GetNum(b, "AppleRawMaxCapacity"), GetNum(b, "NominalChargeCapacity"))
      design == Either(GetNum(b, "DesignCapacity"), None)
      maxcap == Either(GetNum(b, "MaxCapacity"), None)
  IN IF design = None THEN None
     ELSE IF Either(full, None) # None /\ design > 1000 THEN (full * 100) \div design
     ELSE IF maxcap # None /\ design <= 100 THEN (maxcap * 100) \div design
     ELSE None

(* Capacity (mAh) times voltage, in mWh.                                   *)
EstimatedWh(mah, mv) ==
  IF None \in {Float(mah), mv} THEN None ELSE (mah * mv) \div 1000

(* Above 1000 the telemetry is taken to be milliwatts, below watts.        *)
TelemetryPowerToWatts(v) ==
  IF Float(v) = None THEN None ELSE IF Abs(v) > 1000 THEN v ELSE v * 1000

(* BatteryData of the battery and then of each bank: the first value of a  *)
(* key, or the least, the greatest and their distance over all the lists   *)
(* of a key (a scalar is a list of one).                                   *)
BatteryDataSources(b, banks) == SubDicts(<<b>>, "BatteryData") \o SubDicts(GoodBanks(banks), "BatteryData")

NumsFromSources(sources, key) ==
  Known(FlattenSeq([i \in DOMAIN sources |->
    LET list == Get(sources[i], key)
    IN IF IsDict(list) THEN [j \in DOMAIN list |-> Float(list[j])] ELSE << >>]))

Spread(nums) ==
  [min |-> Least(nums), max |-> Greatest(nums),
   delta |-> IF nums = << >> THEN None ELSE Greatest(nums) - Least(nums)]

(* LifetimeData of the battery, of a bank, or inside BatteryData.          *)
LifetimeSource(b, banks) ==
  LET found == SubDicts(<<b>>, "LifetimeData") \o SubDicts(GoodBanks(banks), "LifetimeData")
                 \o SubDicts(SubDicts(<<b>>, "BatteryData"), "LifetimeData")
  IN IF found = << >> THEN << >> ELSE found[1]

BatteryDataStats(b, banks) ==
  LET sources == BatteryDataSources(b, banks)
      first(key) == FirstNum(sources, <<key>>)
      watts  == first("SystemPower")
      power  == first("AdapterPower")
      cells  == Spread(NumsFromSources(sources, "CellVoltage"))
      qmax   == Spread(NumsFromSources(sources, "Qmax"))
      ra     == Spread(NumsFromSources(sources, "WeightedRa"))
      life   == LifetimeSource(b, banks)
  IN [bms_system_power_w |-> IF watts = None THEN None ELSE watts * 1000,
      bms_adapter_power_w |-> IF power = None THEN None ELSE power * 1000,
      bms_state_of_charge |-> first("StateOfCharge"),
      bms_daily_min_soc |-> first("DailyMinSoc"),
      bms_daily_max_soc |-> first("DailyMaxSoc"),
      cell_voltage_delta_mv |-> cells.delta,
      qmax_delta |-> qmax.delta,
      weighted_ra_delta |-> ra.delta,
      lifetime_max_temp |-> GetNum(life, "MaximumTemperature"),
      lifetime_min_temp |-> GetNum(life, "MinimumTemperature")]

PowerTelemetryStats(b) ==
  LET pt == Dict(Get(b, "PowerTelemetryData"))
  IN [telemetry_battery_power_w |-> TelemetryPowerToWatts(Get(pt, "BatteryPower")),
      telemetry_system_load_w |-> TelemetryPowerToWatts(Get(pt, "SystemLoad")),
      telemetry_system_power_in_w |-> TelemetryPowerToWatts(Get(pt, "SystemPowerIn")),
      telemetry_system_effective_total_load_w |->
        TelemetryPowerToWatts(Get(pt, "SystemEffectiveTotalLoad"))]

PowerDistributionStats(b) ==
  LET pd == Dict(Get(b, "PowerDistribution"))
      milli(v) == IF Float(v) = None THEN None ELSE IF Abs(v) > 100 THEN v ELSE v * 1000
  IN [pd_ipd_input_power_w |-> TelemetryPowerToWatts(Get(pd, "IPDInputPower")),
      pd_ipd_input_voltage_v |-> milli(Get(pd, "IPDInputVoltage")),
      pd_ipd_input_current_a |-> milli(Get(pd, "IPDInputCurrent"))]

PowerMode(pmset, externalConnected, isCharging, net) ==
  CASE pmset.source = "Battery Power" -> "DISCHARGING"
    [] pmset.source = "AC Power" ->
         (CASE pmset.state = "charging" -> "CHARGING"
            [] pmset.state = "charged"  -> "PLUGGED IN / FULL"
            [] OTHER                    -> "PLUGGED IN")
    [] OTHER ->
         IF externalConnected = TRUE
         THEN IF isCharging = TRUE THEN "CHARGING" ELSE "PLUGGED IN"
         ELSE IF net # None /\ net < 0 THEN "DISCHARGING" ELSE "UNKNOWN"

WholeMacPowerEstimate(mode, net) ==
  IF net # None /\ mode = "DISCHARGING" THEN Abs(net) ELSE None

(* The marker of the test in progress; a missing, unreadable or empty file *)
(* says idle.                                                              *)
ReadPhase(text) == IF text \in {None, ""} THEN "idle / unmarked" ELSE text

-----------------------------------------------------------------------------
(* powermetrics: a record of the lines the text has, power lines with their*)
(* unit.                                                                   *)

ParsePowerValue(line) == IF line.unit = "mW" THEN line.value ELSE line.value * 1000

(* The frequency of the clusters, weighted with their activity where that  *)
(* is known and not zero; else the direct one; else the fastest cluster.   *)
DeriveCpuClusterFields(row) ==
  LET clusters == Filter(<<<<GetNum(row, "e_cluster_freq_mhz"), GetNum(row, "e_cluster_active_percent")>>,
                              <<GetNum(row, "p0_cluster_freq_mhz"), GetNum(row, "p0_cluster_active_percent")>>,
                              <<GetNum(row, "p1_cluster_freq_mhz"), GetNum(row, "p1_cluster_active_percent")>>>>,
                            LAMBDA c : c[1] # None)
      active   == Filter(clusters, LAMBDA c : c[2] # None /\ c[2] > 0)
      weight   == Total([i \in DOMAIN active |-> active[i][2]])
      direct   == GetNum(row, "cpu_frequency_mhz")
  IN Update(row, [cpu_frequency_estimate_mhz |->
       IF active # << >>
       THEN Total([i \in DOMAIN active |-> active[i][1] * active[i][2]]) \div weight
       ELSE IF direct # None THEN direct
       ELSE Greatest([i \in DOMAIN clusters |-> clusters[i][1]])])

(* The first of the spellings of thermal pressure that the text has.       *)
ThermalLines == <<"Current pressure level", "Thermal pressure", "Thermal level",
                  "CPU thermal pressure", "GPU thermal pressure">>

PowerKeys == <<"cpu_power_w", "gpu_power_w", "ane_power_w", "dram_power_w">>

MetricKeys == {"cpu_frequency_mhz", "gpu_frequency_mhz", "e_cluster_freq_mhz",
               "e_cluster_active_percent", "p0_cluster_freq_mhz", "p0_cluster_active_percent",
               "p1_cluster_freq_mhz", "p1_cluster_active_percent"}

(* A total is only reported where one of the four components is: a text    *)
(* that has the combined power alone has no power fields.                  *)
ParsePowermetricsOutput(out) ==
  LET watts(key) == IF Get(out, key) = None THEN None ELSE ParsePowerValue(out[key])
      parts      == Known([i \in DOMAIN PowerKeys |-> watts(PowerKeys[i])])
      pActive    == Known(<<GetNum(out, "p0_cluster_active_percent"), GetNum(out, "p1_cluster_active_percent")>>)
      numbers    == [k \in MetricKeys |-> GetNum(out, k)]
  IN DeriveCpuClusterFields(Update(numbers,
       [pm_status |-> "ok",
        soc_power_w |-> IF parts = << >> THEN None
                        ELSE FirstKnown(<<watts("combined_power_w"), Total(parts)>>),
        cpu_power_w |-> watts("cpu_power_w"), gpu_power_w |-> watts("gpu_power_w"),
        p_cluster_active_percent |-> Greatest(pActive),
        thermal_pressure |-> FirstKnown([i \in DOMAIN ThermalLines |-> Get(out, ThermalLines[i])])]))

(* macOS's thermal pressure and the trend of the battery's temperature,    *)
(* whichever of the two is known.                                          *)
ThermalSummary(pressure, battery) ==
  CASE pressure # None /\ battery # None -> "macOS and battery"
    [] pressure # None /\ battery = None -> "macOS"
    [] pressure = None /\ battery # None -> "battery"
    [] OTHER                             -> "n/a"

DeriveThermalPressureFields(row) ==
  LET said(key) == IF Get(row, key) \in {None, "none", "n/a", ""} THEN None ELSE row[key]
      pressure  == said("thermal_pressure")
      battery   == said("thermal_state")
  IN Update(row, [thermal_pressure_effective |-> FirstKnown(<<pressure, battery, "n/a">>),
                  thermal_summary |-> ThermalSummary(pressure, battery)])

-----------------------------------------------------------------------------
(* system_profiler.                                                        *)

DeriveEnergyMode(low, high) ==
  CASE high = "Yes"                -> "High Power"
    [] low = "Yes" /\ high = "No"  -> "Low Power"
    [] low = "Yes" /\ high \notin {"Yes", "No"} -> "Unknown / raw LowPowerMode=Yes"
    [] OTHER                       -> "Normal / Automatic"

SpFields == {"sp_ac_charger_watts", "sp_cycle_count", "sp_condition", "sp_full_charge_capacity",
             "sp_state_of_charge", "sp_ac_low_power_mode", "sp_battery_low_power_mode",
             "sp_ac_high_power_mode", "sp_battery_high_power_mode", "sp_charger_name",
             "sp_charger_connected"}

(* What one section of the JSON report says of those fields.               *)
SectionFields ==
  [spbattery_information |-> {"sp_cycle_count", "sp_condition", "sp_full_charge_capacity", "sp_state_of_charge"},
   sppower_information   |-> {"sp_ac_low_power_mode", "sp_battery_low_power_mode",
                              "sp_ac_high_power_mode", "sp_battery_high_power_mode"},
   sppower_ac_charger_information |-> {"sp_ac_charger_watts", "sp_charger_name", "sp_charger_connected"}]

FieldsOf(name) == IF name \in DOMAIN SectionFields THEN SectionFields[name] ELSE {}

TextFields == SpFields \ {"sp_ac_high_power_mode", "sp_battery_high_power_mode",
                          "sp_charger_name", "sp_charger_connected"}

WithEnergyModes(info) ==
  Update(info,
    [sp_ac_energy_mode |-> DeriveEnergyMode(info["sp_ac_low_power_mode"], info["sp_ac_high_power_mode"]),
     sp_battery_energy_mode |->
       DeriveEnergyMode(info["sp_battery_low_power_mode"], info["sp_battery_high_power_mode"])])

(* The JSON report first.  A section that is not a dictionary abandons the *)
(* report where it stands, and the text report then overwrites only what   *)
(* it mentions; without a text report what was read so far remains.        *)
ReadSystemProfilerPower(json, text) ==
  LET sections == IF json = Junk THEN << >> ELSE json
      bad      == {i \in DOMAIN sections : sections[i].fields = Junk}
      seen     == {i \in DOMAIN sections : \A j \in bad : i < j}
      of(k)    == {i \in seen : k \in FieldsOf(sections[i].name)}
      read     == [k \in SpFields |-> IF of(k) = {} THEN None
                                      ELSE Get(sections[Max(of(k))].fields, k)]
  IN IF json # Junk /\ bad = {} THEN Update(WithEnergyModes(read), [sp_status |-> "ok-json"])
     ELSE IF text = Junk THEN Update(read, [sp_status |-> "error"])
     ELSE Update(WithEnergyModes([k \in SpFields |-> IF k \in TextFields /\ Get(text, k) # None
                                                     THEN text[k] ELSE read[k]]),
                 [sp_status |-> "ok-text"])

-----------------------------------------------------------------------------
(* ps: the processes of the stress tests.                                  *)

StressProcessActivity(ps) ==
  LET stress  == Filter(ps, LAMBDA p : p # Junk /\ p.name \in {"cpu_stress", "gpu_stress", "memory_stress"})
      sum(f(_)) == Total([i \in DOMAIN stress |-> f(stress[i])])
  IN [stress_process_count   |-> IF ps = None THEN None ELSE Len(stress),
      stress_cpu_percent     |-> IF ps = None THEN None ELSE sum(LAMBDA p : p.cpu),
      stress_workload_active |-> IF ps = None THEN None ELSE stress # << >>]

-----------------------------------------------------------------------------
(* What the machine draws, and from where.                                 *)

Plausible(w) == w # None /\ w > 0 /\ w < 300000

AdapterDraw(row) ==
  Either(row.adapter_calculated_watts,
  Either(row.pd_ipd_input_power_w, row.adapter_reported_watts))

(* primary_total_load: the first source that applies, in the order of the  *)
(* code, with its name.                                                    *)
PrimaryTotalLoad(row) ==
  LET net     == row.net_battery_watts
      bms     == row.bms_system_power_w
      eff     == row.telemetry_system_effective_total_load_w
      draw    == AdapterDraw(row)
      onAC    == row.power_source = "AC Power" /\ draw # None
      drains  == net # None /\ net < -2000
      accepts == onAC /\ net # None /\ net > 0
      when(applies, watts, source) == IF applies THEN <<watts, source>> ELSE None
  IN FirstKnown(<<
       when(row.mode = "DISCHARGING" /\ drains, Abs(net), "battery discharge watts"),
       when(bms # None /\ bms > 0, bms, "BMS SystemPower"),
       when(Plausible(eff), eff, "PowerTelemetry SystemEffectiveTotalLoad"),
       when(onAC /\ drains, draw + Abs(net), "adapter draw plus battery assist"),
       when(accepts /\ Plausible(draw - net), draw - net, "adapter draw minus battery charge estimate"),
       when(Plausible(row.soc_power_w), row.soc_power_w, "powermetrics SoC/component estimate"),
       when(onAC /\ draw > 0, None, "AC adapter draw available; system split unreliable"),
       <<None, "no reliable total-load source">> >>)

(* The adapter's output on AC: the load plus what the battery accepts, or  *)
(* less what it gives.                                                     *)
AcOutput(row) ==
  LET net == FirstKnown(<<row.net_battery_watts, 0>>)
      primary == row.primary_total_load_w
  IN IF row.power_source # "AC Power" \/ primary = None THEN None
     ELSE IF net > 1000 THEN primary + net
     ELSE IF net < -1000 THEN (IF primary > Abs(net) THEN primary - Abs(net) ELSE 0)
     ELSE primary

ChargerLoad(row) ==
  LET output   == AcOutput(row)
      capacity == IF row.power_source = "AC Power" THEN Float(row.adapter_reported_watts) ELSE None
      visible  == IF None \in {output, capacity} THEN None ELSE output
  IN [ac_output_estimate_w |-> output,
      visible_load_estimate_w |-> visible,
      charger_headroom_estimate_w |-> IF visible = None THEN None ELSE capacity - visible,
      charger_load_percent |-> IF visible = None THEN None
                               ELSE IF capacity > 0 THEN (visible * 100) \div capacity ELSE None,
      battery_charge_acceptance_w |->
        IF row.net_battery_watts # None /\ row.net_battery_watts > 0 THEN row.net_battery_watts ELSE 0]

ChargerLiveVerdict(row) ==
  LET net      == row.net_battery_watts
      load     == row.charger_load_percent
      charging == net # None /\ net > 2000
  IN IF row.power_source # "AC Power" THEN "not on AC"
     ELSE IF row.adapter_reported_watts = None THEN "adapter watts unknown"
     ELSE IF net # None /\ net < -5000 THEN "not keeping up"
     ELSE IF load = None THEN IF charging THEN "keeping up" ELSE "load unknown"
     ELSE IF load >= 98 THEN IF charging THEN "keeping up, at limit" ELSE "at limit"
     ELSE IF load >= 90 THEN "keeping up, near limit"
     ELSE IF load >= 75 THEN "keeping up, moderate headroom"
     ELSE "keeping up"

ComponentNote(row) ==
  LET primary == row.primary_total_load_w
      soc     == row.soc_power_w
      cpuIdle == row.cpu_power_w # None /\ row.cpu_power_w <= 50
      floor   == IF primary # None /\ (primary * 35) \div 100 > 3000 THEN (primary * 35) \div 100 ELSE 3000
      busy    == row.stress_cpu_percent # None /\ row.stress_cpu_percent >= 200
                 /\ primary # None /\ primary >= 30000
      active(key, limit) == Get(row, key) # None /\ row[key] > limit
  IN IF row.primary_total_load_source = "battery discharge watts" THEN "battery discharge is primary"
     ELSE IF busy /\ (soc = None \/ soc < floor \/ cpuIdle) THEN "component watts incomplete"
     ELSE IF (active("p_cluster_active_percent", 50) \/ active("e_cluster_active_percent", 80)) /\ cpuIdle
     THEN "cluster residency proves activity"
     ELSE IF row.bms_system_power_w = None THEN "BMS missing" ELSE "ok"

-----------------------------------------------------------------------------
(* The row.                                                                *)

(* What the battery and pmset say.  The two commands run one after the     *)
(* other: nothing makes them describe the same instant.                    *)
BatteryRow(b, banks, text, phaseText) ==
  LET pmset  == ParsePmset(text)
      el     == BatteryElectrical(b)
      mode   == PowerMode(pmset, Get(b, "ExternalConnected"), Get(b, "IsCharging"), el.net)
  IN Merged(<<
     [phase |-> ReadPhase(phaseText), mode |-> mode,
      power_source |-> pmset.source, pmset_state |-> pmset.state,
      battery_percent |-> CalcPercent(b, pmset),
      net_battery_watts |-> el.net, battery_voltage_v |-> el.voltage, battery_amperage_a |-> el.amperage,
      whole_mac_watts_estimate |-> WholeMacPowerEstimate(mode, el.net),
      estimated_wh_remaining |-> EstimatedWh(Get(b, "AppleRawCurrentCapacity"), el.voltage),
      estimated_wh_full |-> EstimatedWh(Either(Get(b, "AppleRawMaxCapacity"), Get(b, "NominalChargeCapacity")),
                                        el.voltage),
      battery_health_percent |-> EstimateBatteryHealth(b),
      menu_time_estimate |-> FirstKnown(<<pmset.time, TimeFieldMinutes(Get(b, "TimeRemaining"))>>),
      avg_time_to_full |-> TimeFieldMinutes(Get(b, "AvgTimeToFull")),
      avg_time_to_empty |-> TimeFieldMinutes(Get(b, "AvgTimeToEmpty"))],
     TemperatureFromBattery(b, banks), BatteryDataStats(b, banks),
     PowerTelemetryStats(b), PowerDistributionStats(b), AdapterInfo(b)>>)

PmOff ==
  Update([k \in MetricKeys |-> None],
         [pm_status |-> "off", soc_power_w |-> None, cpu_power_w |-> None, gpu_power_w |-> None,
          p_cluster_active_percent |-> None, thermal_pressure |-> None])

SpOff ==
  Update([k \in SpFields |-> None],
         [sp_status |-> "off", sp_ac_energy_mode |-> None, sp_battery_energy_mode |-> None])

WithLoad(row) ==
  LET primary == PrimaryTotalLoad(row)
      net     == row.net_battery_watts
  IN Update(row,
       [primary_total_load_w |-> primary[1], primary_total_load_source |-> primary[2],
        actual_battery_draw_w |-> IF row.mode = "DISCHARGING" /\ net # None /\ net < 0 THEN Abs(net) ELSE None])

WithCharger(row) == Update(row, ChargerLoad(row))

WithVerdicts(row) ==
  Update(row, [charger_live_verdict |-> ChargerLiveVerdict(row),
               powermetrics_component_note |-> ComponentNote(row)])

(* collect_reading: the battery's row, the last answers of the two workers *)
(* (which may be as old as their intervals), the stress processes and what *)
(* follows from them.  The thermal summary is derived here and never again.*)
CollectReading(battery, power, profile, stress) ==
  LET answers == Merged(<<IF profile = None THEN SpOff ELSE profile,
                          IF power = None THEN PmOff ELSE power, battery>>)
  IN WithVerdicts(Update(WithCharger(WithLoad(DeriveThermalPressureFields(DeriveCpuClusterFields(answers)))),
                         stress))
=============================================================================
