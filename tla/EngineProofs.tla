---------------------------- MODULE EngineProofs ----------------------------
(***************************************************************************)
(* Proofs about Engine for every set of priorities and every bound.        *)
(***************************************************************************)
EXTENDS Engine, TLAPS

\* Monitors are numbered in the order they were started.
StartedInOrder == \A m \in Monitors : m > started => life[m] = "idle"

\* Where the operations between two monitors are.
BetweenMonitors == {"restart", "adopt", "publish", "rollback"}

\* What the holder of the mutex knows at each of its steps.
HolderKnows ==
  /\ pc = "stopRun" => target \in Runs /\ run \in {0, target} /\ goal # "apply"
  /\ pc \notin {"free", "stopRun"} => run = 0
  /\ pc \in {"flush", "stop", "await"} => manager # 0
  /\ pc \in {"stop", "await"} => life[manager] # "live"
  /\ pc \in BetweenMonitors => manager = 0 /\ goal = "apply"
  /\ pc \in {"adopt", "publish"} =>
       started > 0 /\ conf[started] = want /\ nice = want.nice
  /\ pc = "publish" => cfg = want

\* A settings change has saved its document until it adopts it or restores
\* the old one, and reports neither before it has.
ChangeIsSaved ==
  /\ (goal = "apply" /\ pc # "rollback") => disk = want /\ told = "none"
  /\ told \in {"applied", "restored"} => disk = cfg
  /\ pc = "free" => goal = "none"

\* Whenever a monitor is published, not only when the mutex is free.
PublishedMatches ==
  manager # 0 => /\ conf[manager] = cfg
                 /\ nice = cfg.nice \/ (nice = 0 /\ priority # "kept")

\* The report's monitor was started, with logging on.
ReportedLogs ==
  report.monitor # 0 => report.monitor \in 1 .. started /\ conf[report.monitor].logging

\* A benchmark was given a monitor.
RunsMonitored == \A i \in Runs : Active(i) => runs[i].monitor # 0

IInv ==
  /\ TypeOK
  /\ StartedInOrder
  /\ OneMonitorCollects
  /\ BenchmarkIsPublished
  /\ HolderKnows
  /\ ChangeIsSaved
  /\ PublishedMatches
  /\ ReportedLogs
  /\ RunsMonitored

-----------------------------------------------------------------------------
(* The benchmarks' records. *)

RunStates == {"none", "running", "cancelled", "failed", "done", "gone"}

\* Only the states of the runs change, none of them back to an active one, and
\* they stay well typed.
RunsKept ==
  /\ runs' \in [Runs -> [state : RunStates,
                         monitor : 0 .. MaxMonitors, nice : Nices]]
  /\ \A j \in Runs : /\ runs'[j].monitor = runs[j].monitor
                     /\ runs'[j].nice = runs[j].nice
                     /\ runs'[j].state \in {"running", "cancelled", "failed"} =>
                          runs[j].state \in {"running", "cancelled", "failed"}

\* The end of one run leaves the others as they are.
LEMMA SetState ==
  ASSUME TypeOK, NEW i \in Runs, NEW st \in {"cancelled", "failed", "done", "gone"},
         runs' = [runs EXCEPT ![i].state = st],
         st \in {"cancelled", "failed"} => Active(i)
  PROVE  RunsKept
<1> DEFINE r(j) == [state |-> IF j = i THEN st ELSE runs[j].state,
                    monitor |-> runs[j].monitor, nice |-> runs[j].nice]
<1>1. ASSUME NEW j \in Runs PROVE runs'[j] = r(j)
  BY <1>1 DEF TypeOK
<1>2. DOMAIN runs' = Runs /\ runs' = [j \in Runs |-> runs'[j]]
  BY DEF TypeOK
<1>3. ASSUME NEW j \in Runs
      PROVE  r(j) \in [state : RunStates,
                       monitor : 0 .. MaxMonitors, nice : Nices]
  BY <1>3 DEF TypeOK, RunStates
<1>4. runs' \in [Runs -> [state : RunStates,
                          monitor : 0 .. MaxMonitors, nice : Nices]]
  <2> HIDE DEF r
  <2>1. ASSUME NEW j \in Runs
        PROVE  runs'[j] \in [state : RunStates,
                             monitor : 0 .. MaxMonitors, nice : Nices]
    BY <1>1, <1>3
  <2> QED BY <1>2, <2>1
<1>5. ASSUME NEW j \in Runs
      PROVE  /\ runs'[j].monitor = runs[j].monitor
             /\ runs'[j].nice = runs[j].nice
             /\ runs'[j].state \in {"running", "cancelled", "failed"} =>
                  runs[j].state \in {"running", "cancelled", "failed"}
  BY <1>1, <1>5 DEF Active
<1> QED BY <1>4, <1>5 DEF RunsKept

\* So does the end of the serve context.
LEMMA CancelAll ==
  ASSUME TypeOK,
         runs' = [i \in Runs |-> IF runs[i].state = "running"
                                 THEN [runs[i] EXCEPT !.state = "cancelled"] ELSE runs[i]]
  PROVE  RunsKept
<1>1. ASSUME NEW j \in Runs
      PROVE  runs'[j] = [state |-> IF runs[j].state = "running" THEN "cancelled"
                                   ELSE runs[j].state,
                         monitor |-> runs[j].monitor, nice |-> runs[j].nice]
  BY <1>1 DEF TypeOK
<1> QED BY <1>1 DEF RunsKept, TypeOK, RunStates

\* Starting a monitor, or failing to, keeps the monitors' variables well typed.
LEMMA StartTypes ==
  ASSUME TypeOK, NEW s \in Settings, StartFails(s) \/ StartSucceeds(s)
  PROVE  /\ nice' \in Nices /\ priority' \in {"kept", "child", "lost"}
         /\ life' \in [Monitors -> {"idle", "live", "cancelled", "retired", "closed"}]
         /\ conf' \in [Monitors -> Settings]
         /\ started' \in started .. MaxMonitors
<1>1. s.nice \in Nices /\ started \in Nat
  BY EngineAssumption DEF TypeOK
<1>2. CASE StartFails(s)
  BY <1>1, <1>2, EngineAssumption DEF StartFails, TypeOK, monitorVars
<1>3. CASE StartSucceeds(s)
  BY <1>1, <1>3, EngineAssumption DEF StartSucceeds, TypeOK, Monitors
<1> QED BY <1>2, <1>3

-----------------------------------------------------------------------------
(* One lemma for each action. *)

\* Starting a monitor, or failing to, keeps the invariant.
LEMMA StartMonitorKeeps ==
  ASSUME IInv, StartMonitor
  PROVE  IInv'
<1> USE DEF IInv, TypeOK, niceVars, RunStates, StartMonitor, StartFails,
            StartSucceeds, Publish, setVars, monitorVars
<1>1. TypeOK'
  <2>1. StartFails(cfg) \/ StartSucceeds(cfg)
    OBVIOUS
  <2> HIDE DEF StartFails, StartSucceeds
  <2> QED BY <2>1, StartTypes, EngineAssumption
<1>2. StartedInOrder'
  BY EngineAssumption DEF StartedInOrder, Monitors
<1>3. OneMonitorCollects'
  BY EngineAssumption DEF OneMonitorCollects, Monitors, HolderKnows,
     BetweenMonitors
<1>4. BenchmarkIsPublished'
  BY EngineAssumption DEF BenchmarkIsPublished, Active, HolderKnows,
     BetweenMonitors, RunsMonitored
<1>5. HolderKnows'
  BY EngineAssumption DEF HolderKnows, BetweenMonitors, Runs, Monitors
<1>6. PublishedMatches'
  BY EngineAssumption DEF PublishedMatches, HolderKnows, BetweenMonitors,
     Monitors
<1>7. ReportedLogs'
  BY EngineAssumption DEF ReportedLogs, Monitors, PublishedMatches
<1> QED BY <1>1, <1>2, <1>3, <1>4, <1>5, <1>6, <1>7 DEF ChangeIsSaved,
       RunsMonitored, Active, BetweenMonitors

\* Starting a plan keeps the invariant.
LEMMA StartPlanKeeps ==
  ASSUME IInv, StartPlan
  PROVE  IInv'
<1> USE DEF IInv, TypeOK, niceVars, RunStates, StartPlan, StartSucceeds,
            Publish, monitorVars, NoRun, setVars
<1>1. TypeOK'
  <2> HIDE DEF StartSucceeds
  <2>1. /\ nice' \in Nices /\ priority' \in {"kept", "child", "lost"}
        /\ life' \in [Monitors -> {"idle", "live", "cancelled", "retired", "closed"}]
        /\ conf' \in [Monitors -> Settings]
        /\ started' \in started .. MaxMonitors
    BY StartTypes, EngineAssumption
  <2>2. manager' \in 0 .. started' /\ last' \in 0 .. started'
    BY <2>1, EngineAssumption
  <2>3. PICK i \in Runs :
          runs' = [runs EXCEPT ![i] =
                     [state |-> "running", monitor |-> manager', nice |-> cfg.nice]]
          /\ run' = i
    OBVIOUS
  <2>4. manager' \in 0 .. MaxMonitors /\ cfg.nice \in Nices
    BY <2>1, <2>2, EngineAssumption
  <2>5. runs' \in [Runs -> [state : RunStates,
                           monitor : 0 .. MaxMonitors, nice : Nices]]
    BY <2>3, <2>4
  <2>6. run' \in 0 .. MaxRuns
    BY <2>3, EngineAssumption DEF Runs
  <2> QED BY <2>1, <2>2, <2>5, <2>6
<1>2. StartedInOrder'
  <2>1. CASE manager = 0
    BY <2>1, EngineAssumption DEF StartedInOrder, Monitors
  <2>2. CASE manager # 0
    BY <2>2 DEF StartedInOrder
  <2> QED BY <2>1, <2>2
<1>3. OneMonitorCollects'
  <2>1. CASE manager = 0
    BY <2>1, EngineAssumption DEF OneMonitorCollects, Monitors
  <2>2. CASE manager # 0
    BY <2>2 DEF OneMonitorCollects
  <2> QED BY <2>1, <2>2
<1>4. BenchmarkIsPublished'
  <2>1. PICK i \in Runs :
          runs' = [runs EXCEPT ![i] =
                     [state |-> "running", monitor |-> manager', nice |-> cfg.nice]]
          /\ run' = i
    OBVIOUS
  <2>2. \A j \in Runs : ~Active(j)
    BY EngineAssumption DEF BenchmarkIsPublished, Runs
  <2>3. \A j \in Runs : j # i => runs'[j] = runs[j]
    BY <2>1
  <2>4. runs'[i].monitor = manager' /\ runs'[i].nice = cfg.nice
    BY <2>1
  <2> QED BY <2>1, <2>2, <2>3, <2>4 DEF BenchmarkIsPublished, Active
<1>5. HolderKnows'
  BY EngineAssumption DEF HolderKnows, BetweenMonitors, Runs, Monitors
<1>6. PublishedMatches'
  BY EngineAssumption DEF PublishedMatches, HolderKnows, BetweenMonitors,
     Monitors
<1>7. ReportedLogs'
  BY EngineAssumption DEF ReportedLogs, Monitors, PublishedMatches
<1>8. RunsMonitored'
  BY EngineAssumption DEF RunsMonitored, Active
<1> QED BY <1>1, <1>2, <1>3, <1>4, <1>5, <1>6, <1>7, <1>8 DEF ChangeIsSaved,
       Active, BetweenMonitors

\* Beginning a stop, the cancellation of the run included, keeps the invariant.
LEMMA BeginStopKeeps ==
  ASSUME NEW g \in {"stopRun", "stopMonitor"}, IInv, BeginStop(g)
  PROVE  IInv'
<1> USE DEF IInv, TypeOK, niceVars, RunStates, BeginStop, CancelRun,
            monitorVars, setVars
<1>0. RunsKept
  <2>1. CASE run # 0 /\ runs[run].state = "running"
    BY <2>1, SetState DEF Active, Runs
  <2> QED BY <2>1 DEF RunsKept
<1>1. TypeOK'
  BY <1>0, EngineAssumption DEF Monitors, Runs, NoRun, NoReport,
     RunsKept, Active
<1>2. OneMonitorCollects'
  BY EngineAssumption DEF OneMonitorCollects, Monitors, HolderKnows,
     BetweenMonitors
<1>3. BenchmarkIsPublished'
  BY <1>0, EngineAssumption DEF BenchmarkIsPublished, Active, HolderKnows,
     BetweenMonitors, RunsMonitored, RunsKept
<1>4. HolderKnows'
  BY EngineAssumption, SMTT(30) DEF HolderKnows, BetweenMonitors, Runs, Monitors
<1>5. ChangeIsSaved'
  BY EngineAssumption DEF ChangeIsSaved, HolderKnows, BetweenMonitors
<1>6. RunsMonitored'
  BY <1>0, EngineAssumption DEF RunsMonitored, Active, RunsKept
<1> QED BY <1>1, <1>2, <1>3, <1>4, <1>5, <1>6 DEF StartedInOrder,
       PublishedMatches, ReportedLogs, Active, BetweenMonitors

\* The end of the run that is waited for keeps the invariant.
LEMMA RunStoppedKeeps ==
  ASSUME IInv, RunStopped
  PROVE  IInv'
<1> USE DEF IInv, TypeOK, niceVars, RunStates, RunStopped, monitorVars, setVars
<1>1. TypeOK'
  BY EngineAssumption, SMTT(30) DEF Monitors, Runs, NoRun, NoReport
<1>2. OneMonitorCollects'
  BY EngineAssumption DEF OneMonitorCollects, Monitors, HolderKnows,
     BetweenMonitors
<1>3. BenchmarkIsPublished'
  BY EngineAssumption DEF BenchmarkIsPublished, Active, HolderKnows,
     BetweenMonitors, RunsMonitored
<1>4. HolderKnows'
  BY EngineAssumption DEF HolderKnows, BetweenMonitors, Runs, Monitors
<1>5. ChangeIsSaved'
  BY EngineAssumption DEF ChangeIsSaved, HolderKnows, BetweenMonitors
<1> QED BY <1>1, <1>2, <1>3, <1>4, <1>5 DEF StartedInOrder, PublishedMatches,
       ReportedLogs, RunsMonitored, Active, BetweenMonitors

\* Giving up that wait keeps the invariant.
LEMMA RunStopTimesOutKeeps ==
  ASSUME IInv, RunStopTimesOut
  PROVE  IInv'
<1> USE DEF IInv, TypeOK, niceVars, RunStates, RunStopTimesOut, Release,
            monitorVars, setVars
<1>1. TypeOK'
  BY EngineAssumption DEF Monitors, Runs, NoRun, NoReport
<1>2. OneMonitorCollects'
  BY EngineAssumption DEF OneMonitorCollects, Monitors, HolderKnows,
     BetweenMonitors
<1>3. HolderKnows'
  BY EngineAssumption DEF HolderKnows, BetweenMonitors, Runs, Monitors
<1>4. ChangeIsSaved'
  BY EngineAssumption DEF ChangeIsSaved, HolderKnows, BetweenMonitors
<1> QED BY <1>1, <1>2, <1>3, <1>4 DEF StartedInOrder, BenchmarkIsPublished,
       PublishedMatches, ReportedLogs, RunsMonitored, Active, BetweenMonitors

\* A pending sample that cannot be flushed keeps the invariant.
LEMMA FlushFailsKeeps ==
  ASSUME IInv, FlushFails
  PROVE  IInv'
<1> USE DEF IInv, TypeOK, niceVars, RunStates, FlushFails, GiveUp, Release,
            RestoreDocument, setVars, Saved, SaveFails
<1>1. TypeOK'
  BY EngineAssumption, SMTT(30) DEF Monitors, Runs, NoRun, NoReport
<1>2. OneMonitorCollects'
  BY EngineAssumption DEF OneMonitorCollects, Monitors, HolderKnows,
     BetweenMonitors
<1>3. HolderKnows'
  BY EngineAssumption DEF HolderKnows, BetweenMonitors, Runs, Monitors
<1>4. ChangeIsSaved'
  BY EngineAssumption DEF ChangeIsSaved, HolderKnows, BetweenMonitors
<1> QED BY <1>1, <1>2, <1>3, <1>4 DEF StartedInOrder, BenchmarkIsPublished,
       PublishedMatches, ReportedLogs, RunsMonitored, Active, BetweenMonitors

\* Cancelling the monitor keeps the invariant.
LEMMA FlushAndCancelKeeps ==
  ASSUME IInv, FlushAndCancel
  PROVE  IInv'
<1> USE DEF IInv, TypeOK, niceVars, RunStates, FlushAndCancel, setVars
<1>1. TypeOK'
  BY EngineAssumption DEF Monitors, Runs, NoRun, NoReport
<1>2. StartedInOrder'
  BY EngineAssumption DEF StartedInOrder, Monitors
<1>3. OneMonitorCollects'
  BY EngineAssumption DEF OneMonitorCollects, Monitors, HolderKnows,
     BetweenMonitors
<1>4. HolderKnows'
  BY EngineAssumption DEF HolderKnows, BetweenMonitors, Runs, Monitors
<1>5. ChangeIsSaved'
  BY EngineAssumption DEF ChangeIsSaved, HolderKnows, BetweenMonitors
<1> QED BY <1>1, <1>2, <1>3, <1>4, <1>5 DEF BenchmarkIsPublished,
       PublishedMatches, ReportedLogs, RunsMonitored, Active, BetweenMonitors

\* Beginning the wait for it keeps the invariant.
LEMMA AwaitMonitorKeeps ==
  ASSUME IInv, AwaitMonitor
  PROVE  IInv'
<1> USE DEF IInv, TypeOK, niceVars, RunStates, AwaitMonitor, monitorVars,
            setVars
<1>1. TypeOK'
  BY EngineAssumption DEF Monitors, Runs, NoRun, NoReport
<1>2. OneMonitorCollects'
  BY EngineAssumption DEF OneMonitorCollects, Monitors, HolderKnows,
     BetweenMonitors
<1>3. HolderKnows'
  BY EngineAssumption DEF HolderKnows, BetweenMonitors, Runs, Monitors
<1>4. ChangeIsSaved'
  BY EngineAssumption DEF ChangeIsSaved, HolderKnows, BetweenMonitors
<1> QED BY <1>1, <1>2, <1>3, <1>4 DEF StartedInOrder, BenchmarkIsPublished,
       PublishedMatches, ReportedLogs, RunsMonitored, Active, BetweenMonitors

\* Giving up that wait keeps the invariant.
LEMMA MonitorStopTimesOutKeeps ==
  ASSUME IInv, MonitorStopTimesOut
  PROVE  IInv'
<1> USE DEF IInv, TypeOK, niceVars, RunStates, MonitorStopTimesOut, GiveUp,
            Release, RestoreDocument, setVars, Saved, SaveFails
<1>1. TypeOK'
  BY EngineAssumption, SMTT(40) DEF Monitors, Runs, NoRun, NoReport
<1>2. OneMonitorCollects'
  BY EngineAssumption DEF OneMonitorCollects, Monitors, HolderKnows,
     BetweenMonitors
<1>3. HolderKnows'
  BY EngineAssumption DEF HolderKnows, BetweenMonitors, Runs, Monitors
<1>4. ChangeIsSaved'
  BY EngineAssumption DEF ChangeIsSaved, HolderKnows, BetweenMonitors
<1> QED BY <1>1, <1>2, <1>3, <1>4 DEF StartedInOrder, BenchmarkIsPublished,
       PublishedMatches, ReportedLogs, RunsMonitored, Active, BetweenMonitors

\* Forgetting the monitor that stopped keeps the invariant.
LEMMA MonitorStoppedKeeps ==
  ASSUME IInv, MonitorStopped
  PROVE  IInv'
<1> USE DEF IInv, TypeOK, niceVars, RunStates, MonitorStopped, Release,
            monitorVars, setVars
<1>1. TypeOK'
  BY EngineAssumption DEF Monitors, Runs, NoRun, NoReport
<1>2. OneMonitorCollects'
  BY EngineAssumption DEF OneMonitorCollects, Monitors, HolderKnows,
     BetweenMonitors
<1>3. BenchmarkIsPublished'
  <2>1. \A i \in Runs : ~Active(i)
    BY EngineAssumption DEF BenchmarkIsPublished, HolderKnows, Runs
  <2> QED BY <2>1 DEF BenchmarkIsPublished, Active
<1>4. HolderKnows'
  BY EngineAssumption DEF HolderKnows, BetweenMonitors, Runs, Monitors
<1>5. ChangeIsSaved'
  BY EngineAssumption DEF ChangeIsSaved, HolderKnows, BetweenMonitors
<1>6. PublishedMatches'
  BY EngineAssumption DEF PublishedMatches, HolderKnows, BetweenMonitors,
     Monitors
<1> QED BY <1>1, <1>2, <1>3, <1>4, <1>5, <1>6 DEF StartedInOrder, ReportedLogs,
       RunsMonitored, Active, BetweenMonitors

\* Saving the settings in force keeps the invariant.
LEMMA ApplySameKeeps ==
  ASSUME IInv, ApplySame
  PROVE  IInv'
<1> USE DEF IInv, TypeOK, niceVars, RunStates, ApplySame, MayApply, Saved,
            SaveFails, monitorVars
<1>1. TypeOK'
  BY EngineAssumption DEF Monitors, Runs, NoRun, NoReport
<1>2. ChangeIsSaved'
  BY EngineAssumption DEF ChangeIsSaved, HolderKnows, BetweenMonitors
<1> QED BY <1>1, <1>2 DEF StartedInOrder, OneMonitorCollects,
       BenchmarkIsPublished, HolderKnows, PublishedMatches, ReportedLogs,
       RunsMonitored, Active, BetweenMonitors

\* A settings change with no monitor keeps the invariant.
LEMMA ApplyIdleKeeps ==
  ASSUME NEW s \in Settings, IInv, ApplyIdle(s)
  PROVE  IInv'
<1> USE DEF IInv, TypeOK, niceVars, RunStates, ApplyIdle, MayApply, Saved,
            monitorVars
<1>1. TypeOK'
  BY EngineAssumption DEF Monitors, Runs, NoRun, NoReport
<1>2. BenchmarkIsPublished'
  BY EngineAssumption DEF BenchmarkIsPublished, Active, HolderKnows,
     BetweenMonitors, RunsMonitored
<1>3. HolderKnows'
  BY EngineAssumption DEF HolderKnows, BetweenMonitors, Runs, Monitors
<1>4. ChangeIsSaved'
  BY EngineAssumption DEF ChangeIsSaved, HolderKnows, BetweenMonitors
<1>5. PublishedMatches'
  BY EngineAssumption DEF PublishedMatches, HolderKnows, BetweenMonitors,
     Monitors
<1> QED BY <1>1, <1>2, <1>3, <1>4, <1>5 DEF StartedInOrder, OneMonitorCollects,
       ReportedLogs, RunsMonitored, Active, BetweenMonitors

\* Beginning a settings change under a monitor keeps the invariant.
LEMMA ApplyRunningKeeps ==
  ASSUME NEW s \in Settings, IInv, ApplyRunning(s)
  PROVE  IInv'
<1> USE DEF IInv, TypeOK, niceVars, RunStates, ApplyRunning, MayApply,
            SaveFails, Saved, monitorVars
<1>1. TypeOK'
  BY EngineAssumption DEF Monitors, Runs, NoRun, NoReport
<1>2. OneMonitorCollects'
  BY EngineAssumption DEF OneMonitorCollects, Monitors, HolderKnows,
     BetweenMonitors
<1>3. HolderKnows'
  BY EngineAssumption DEF HolderKnows, BetweenMonitors, Runs, Monitors
<1>4. ChangeIsSaved'
  BY EngineAssumption DEF ChangeIsSaved, HolderKnows, BetweenMonitors
<1> QED BY <1>1, <1>2, <1>3, <1>4 DEF StartedInOrder, BenchmarkIsPublished,
       PublishedMatches, ReportedLogs, RunsMonitored, Active, BetweenMonitors

\* Starting the monitor of the new settings keeps the invariant.
LEMMA RestartKeeps ==
  ASSUME IInv, Restart
  PROVE  IInv'
<1> USE DEF IInv, TypeOK, niceVars, RunStates, Restart, StartSucceeds, setVars
<1>1. TypeOK'
  BY EngineAssumption, SMTT(30) DEF Monitors, Runs, NoRun, NoReport
<1>2. StartedInOrder'
  BY EngineAssumption DEF StartedInOrder, Monitors
<1>3. OneMonitorCollects'
  BY EngineAssumption DEF OneMonitorCollects, Monitors, HolderKnows,
     BetweenMonitors
<1>4. HolderKnows'
  BY EngineAssumption DEF HolderKnows, BetweenMonitors, Runs, Monitors
<1>5. ChangeIsSaved'
  BY EngineAssumption DEF ChangeIsSaved, HolderKnows, BetweenMonitors
<1>6. PublishedMatches'
  BY EngineAssumption DEF PublishedMatches, HolderKnows, BetweenMonitors,
     Monitors
<1>7. ReportedLogs'
  BY EngineAssumption DEF ReportedLogs, Monitors, PublishedMatches
<1> QED BY <1>1, <1>2, <1>3, <1>4, <1>5, <1>6, <1>7 DEF BenchmarkIsPublished,
       RunsMonitored, Active, BetweenMonitors

\* Failing to start it keeps the invariant.
LEMMA RestartFailsKeeps ==
  ASSUME IInv, RestartFails
  PROVE  IInv'
<1> USE DEF IInv, TypeOK, niceVars, RunStates, RestartFails, StartFails,
            RestoreDocument, monitorVars, Saved, SaveFails
<1>1. TypeOK'
  BY EngineAssumption DEF Monitors, Runs, NoRun, NoReport
<1>2. OneMonitorCollects'
  BY EngineAssumption DEF OneMonitorCollects, Monitors, HolderKnows,
     BetweenMonitors
<1>3. HolderKnows'
  BY EngineAssumption DEF HolderKnows, BetweenMonitors, Runs, Monitors
<1>4. ChangeIsSaved'
  BY EngineAssumption DEF ChangeIsSaved, HolderKnows, BetweenMonitors
<1>5. PublishedMatches'
  BY EngineAssumption DEF PublishedMatches, HolderKnows, BetweenMonitors,
     Monitors
<1> QED BY <1>1, <1>2, <1>3, <1>4, <1>5 DEF StartedInOrder,
       BenchmarkIsPublished, ReportedLogs, RunsMonitored, Active,
       BetweenMonitors

\* Adopting the new settings keeps the invariant.
LEMMA AdoptKeeps ==
  ASSUME IInv, Adopt
  PROVE  IInv'
<1> USE DEF IInv, TypeOK, niceVars, RunStates, Adopt, monitorVars, setVars
<1>1. TypeOK'
  BY EngineAssumption DEF Monitors, Runs, NoRun, NoReport
<1>2. OneMonitorCollects'
  BY EngineAssumption DEF OneMonitorCollects, Monitors, HolderKnows,
     BetweenMonitors
<1>3. BenchmarkIsPublished'
  BY EngineAssumption DEF BenchmarkIsPublished, Active, HolderKnows,
     BetweenMonitors, RunsMonitored
<1>4. HolderKnows'
  BY EngineAssumption DEF HolderKnows, BetweenMonitors, Runs, Monitors
<1>5. ChangeIsSaved'
  BY EngineAssumption DEF ChangeIsSaved, HolderKnows, BetweenMonitors
<1>6. PublishedMatches'
  BY EngineAssumption DEF PublishedMatches, HolderKnows, BetweenMonitors,
     Monitors
<1> QED BY <1>1, <1>2, <1>3, <1>4, <1>5, <1>6 DEF StartedInOrder, ReportedLogs,
       RunsMonitored, Active, BetweenMonitors

\* Publishing the new monitor keeps the invariant.
LEMMA PublishRestartedKeeps ==
  ASSUME IInv, PublishRestarted
  PROVE  IInv'
<1> USE DEF IInv, TypeOK, niceVars, RunStates, PublishRestarted, monitorVars,
            Publish, Release
<1>1. TypeOK'
  BY EngineAssumption DEF Monitors, Runs, NoRun, NoReport
<1>2. StartedInOrder'
  BY EngineAssumption DEF StartedInOrder, Monitors
<1>3. OneMonitorCollects'
  BY EngineAssumption DEF OneMonitorCollects, Monitors, HolderKnows,
     BetweenMonitors
<1>4. BenchmarkIsPublished'
  BY EngineAssumption DEF BenchmarkIsPublished, Active, HolderKnows,
     BetweenMonitors, RunsMonitored
<1>5. HolderKnows'
  BY EngineAssumption DEF HolderKnows, BetweenMonitors, Runs, Monitors
<1>6. ChangeIsSaved'
  BY EngineAssumption DEF ChangeIsSaved, HolderKnows, BetweenMonitors
<1>7. PublishedMatches'
  BY EngineAssumption DEF PublishedMatches, HolderKnows, BetweenMonitors,
     Monitors
<1>8. ReportedLogs'
  BY EngineAssumption DEF ReportedLogs, Monitors, PublishedMatches
<1> QED BY <1>1, <1>2, <1>3, <1>4, <1>5, <1>6, <1>7, <1>8 DEF RunsMonitored,
       Active, BetweenMonitors

\* Putting the former monitor back keeps the invariant.
LEMMA RollbackKeeps ==
  ASSUME IInv, Rollback
  PROVE  IInv'
<1> USE DEF IInv, TypeOK, niceVars, RunStates, Rollback, StartSucceeds, Publish,
            StartFails, Release, monitorVars
<1>1. TypeOK'
  <2>1. StartFails(cfg) \/ StartSucceeds(cfg)
    OBVIOUS
  <2> HIDE DEF StartFails, StartSucceeds
  <2> QED BY <2>1, StartTypes, EngineAssumption
<1>2. StartedInOrder'
  BY EngineAssumption DEF StartedInOrder, Monitors
<1>3. OneMonitorCollects'
  BY EngineAssumption DEF OneMonitorCollects, Monitors, HolderKnows,
     BetweenMonitors
<1>4. BenchmarkIsPublished'
  BY EngineAssumption DEF BenchmarkIsPublished, Active, HolderKnows,
     BetweenMonitors, RunsMonitored
<1>5. HolderKnows'
  BY EngineAssumption DEF HolderKnows, BetweenMonitors, Runs, Monitors
<1>6. ChangeIsSaved'
  BY EngineAssumption DEF ChangeIsSaved, HolderKnows, BetweenMonitors
<1>7. PublishedMatches'
  BY EngineAssumption DEF PublishedMatches, HolderKnows, BetweenMonitors,
     Monitors
<1>8. ReportedLogs'
  BY EngineAssumption DEF ReportedLogs, Monitors, PublishedMatches
<1> QED BY <1>1, <1>2, <1>3, <1>4, <1>5, <1>6, <1>7, <1>8 DEF RunsMonitored,
       Active, BetweenMonitors

\* Beginning a report keeps the invariant.
LEMMA BeginReportKeeps ==
  ASSUME IInv, BeginReport
  PROVE  IInv'
<1> USE DEF IInv, TypeOK, niceVars, RunStates, BeginReport, NoReport,
            monitorVars, setVars
<1>1. TypeOK'
  BY EngineAssumption DEF Monitors, Runs, NoRun, NoReport
<1>2. ReportedLogs'
  BY EngineAssumption DEF ReportedLogs, Monitors, PublishedMatches
<1> QED BY <1>1, <1>2 DEF StartedInOrder, OneMonitorCollects,
       BenchmarkIsPublished, HolderKnows, ChangeIsSaved, PublishedMatches,
       RunsMonitored, Active, BetweenMonitors

\* Ending it keeps the invariant.
LEMMA CaptureReportKeeps ==
  ASSUME IInv, CaptureReport
  PROVE  IInv'
<1> USE DEF IInv, TypeOK, niceVars, RunStates, CaptureReport, NoReport,
            monitorVars, setVars
<1>1. TypeOK'
  BY EngineAssumption DEF Monitors, Runs, NoRun, NoReport
<1>2. ReportedLogs'
  BY EngineAssumption DEF ReportedLogs, Monitors, PublishedMatches
<1> QED BY <1>1, <1>2 DEF StartedInOrder, OneMonitorCollects,
       BenchmarkIsPublished, HolderKnows, ChangeIsSaved, PublishedMatches,
       RunsMonitored, Active, BetweenMonitors

\* The shutdown of a monitor keeps the invariant.
LEMMA MonitorShutsDownKeeps ==
  ASSUME NEW m \in Monitors, IInv, MonitorShutsDown(m)
  PROVE  IInv'
<1> USE DEF IInv, TypeOK, niceVars, RunStates, MonitorShutsDown, setVars
<1>1. TypeOK'
  BY EngineAssumption DEF Monitors, Runs, NoRun, NoReport
<1>2. StartedInOrder'
  BY EngineAssumption DEF StartedInOrder, Monitors
<1>3. OneMonitorCollects'
  BY EngineAssumption DEF OneMonitorCollects, Monitors, HolderKnows,
     BetweenMonitors
<1>4. HolderKnows'
  BY EngineAssumption DEF HolderKnows, BetweenMonitors, Runs, Monitors
<1> QED BY <1>1, <1>2, <1>3, <1>4 DEF BenchmarkIsPublished, ChangeIsSaved,
       PublishedMatches, ReportedLogs, RunsMonitored, Active, BetweenMonitors

\* What starting a child of a benchmark does to the priority keeps the
\* invariant: the benchmark is the published one, with the configured priority.
LEMMA NormalizeKeeps ==
  ASSUME NEW i \in Runs, IInv, Normalize(i) \/ RestorePriority(i)
  PROVE  IInv'
<1> USE DEF IInv, Normalize, RestorePriority, ChildFails, niceVars, monitorVars,
            setVars
<1>0. RunsKept /\ Active(i)
  <2>1. CASE ChildFails(i)
    BY <2>1, SetState DEF Active
  <2>2. CASE UNCHANGED runs
    BY <2>2 DEF RunsKept, RunStates, TypeOK, Active
  <2> QED BY <2>1, <2>2
<1>1. cfg.nice = runs[i].nice /\ run = i /\ i # 0 /\ cfg.nice \in Nices
  BY <1>0, EngineAssumption DEF BenchmarkIsPublished, Runs, TypeOK
<1>2. nice' \in Nices /\ priority' \in {"kept", "child", "lost"}
  BY <1>1, EngineAssumption DEF TypeOK
<1>3. UNCHANGED <<rootDone, cfg, disk, life, conf, started, manager, last, run, pc,
                  goal, target, want, told, report>>
  OBVIOUS
<1>4. nice' = cfg.nice \/ (nice' = 0 /\ priority' # "kept") \/ UNCHANGED niceVars
  BY <1>1
<1> HIDE DEF Normalize, RestorePriority
<1>5. TypeOK'
  BY <1>0, <1>2, <1>3 DEF TypeOK, RunsKept, RunStates
<1>6. BenchmarkIsPublished' /\ RunsMonitored'
  BY <1>0, <1>3 DEF BenchmarkIsPublished, RunsMonitored, Active, RunsKept
<1>7. HolderKnows'
  BY <1>1, <1>3 DEF HolderKnows, BetweenMonitors
<1>8. PublishedMatches'
  BY <1>3, <1>4 DEF PublishedMatches
<1> QED BY <1>3, <1>5, <1>6, <1>7, <1>8
        DEF StartedInOrder, OneMonitorCollects, ChangeIsSaved, ReportedLogs

\* The return of a plan keeps the invariant.
LEMMA RunEndsKeeps ==
  ASSUME NEW i \in Runs, IInv, RunEnds(i)
  PROVE  IInv'
<1> USE DEF IInv, TypeOK, niceVars, RunStates, RunEnds, monitorVars, setVars
<1>0. RunsKept
  BY SetState
<1>1. TypeOK'
  BY <1>0, EngineAssumption, SMTT(40) DEF Monitors, Runs, NoRun, NoReport,
     RunsKept, Active
<1>2. BenchmarkIsPublished'
  BY <1>0, EngineAssumption DEF BenchmarkIsPublished, Active, HolderKnows,
     BetweenMonitors, RunsMonitored, RunsKept
<1>3. RunsMonitored'
  BY <1>0, EngineAssumption DEF RunsMonitored, Active, RunsKept
<1> QED BY <1>1, <1>2, <1>3 DEF StartedInOrder, OneMonitorCollects, HolderKnows,
       ChangeIsSaved, PublishedMatches, ReportedLogs, Active, BetweenMonitors

\* The end of its goroutine keeps the invariant.
LEMMA RunClearsKeeps ==
  ASSUME NEW i \in Runs, IInv, RunClears(i)
  PROVE  IInv'
<1> USE DEF IInv, TypeOK, niceVars, RunStates, RunClears, monitorVars, setVars
<1>0. RunsKept
  BY SetState
<1>1. TypeOK'
  <2>1. run' \in 0 .. MaxRuns
    BY EngineAssumption
  <2> QED BY <1>0, <2>1 DEF RunsKept
<1>2. BenchmarkIsPublished'
  BY <1>0, EngineAssumption DEF BenchmarkIsPublished, Active, HolderKnows,
     BetweenMonitors, RunsMonitored, RunsKept
<1>3. HolderKnows'
  BY EngineAssumption DEF HolderKnows, BetweenMonitors, Runs, Monitors
<1>4. RunsMonitored'
  BY <1>0, EngineAssumption DEF RunsMonitored, Active, RunsKept
<1> QED BY <1>1, <1>2, <1>3, <1>4 DEF StartedInOrder, OneMonitorCollects,
       ChangeIsSaved, PublishedMatches, ReportedLogs, Active, BetweenMonitors

\* The end of the serve context keeps the invariant.
LEMMA RootEndsKeeps ==
  ASSUME IInv, RootEnds
  PROVE  IInv'
<1> USE DEF IInv, TypeOK, niceVars, RunStates, RootEnds, setVars
<1>0. RunsKept
  BY CancelAll
<1>1. TypeOK'
  BY <1>0, EngineAssumption DEF Monitors, Runs, NoRun, NoReport,
     RunsKept, Active
<1>2. StartedInOrder'
  BY EngineAssumption DEF StartedInOrder, Monitors
<1>3. OneMonitorCollects'
  BY EngineAssumption DEF OneMonitorCollects, Monitors, HolderKnows,
     BetweenMonitors
<1>4. BenchmarkIsPublished'
  BY <1>0, EngineAssumption DEF BenchmarkIsPublished, Active, HolderKnows,
     BetweenMonitors, RunsMonitored, RunsKept
<1>5. HolderKnows'
  BY EngineAssumption DEF HolderKnows, BetweenMonitors, Runs, Monitors
<1>6. RunsMonitored'
  BY <1>0, EngineAssumption DEF RunsMonitored, Active, RunsKept
<1> QED BY <1>1, <1>2, <1>3, <1>4, <1>5, <1>6 DEF ChangeIsSaved,
       PublishedMatches, ReportedLogs, Active, BetweenMonitors

-----------------------------------------------------------------------------
(* The specification. *)

\* The first state satisfies the invariant.
LEMMA InitIInv == Init => IInv
<1> SUFFICES ASSUME Init PROVE IInv
  OBVIOUS
<1> USE EngineAssumption DEF Init
<1>1. TypeOK
  <2>1. conf \in [Monitors -> Settings] /\ {cfg, disk, want} \subseteq Settings
    BY EngineAssumption
  <2>2. NoRun \in [state : RunStates,
                   monitor : 0 .. MaxMonitors, nice : Nices]
    BY DEF NoRun, RunStates
  <2>3. NoReport \in [state : {"idle", "read"}, monitor : 0 .. MaxMonitors,
                      dir : 0 .. MaxMonitors]
    BY DEF NoReport
  <2>4. runs \in [Runs -> [state : RunStates,
                          monitor : 0 .. MaxMonitors, nice : Nices]]
    BY <2>2
  <2>5. life \in [Monitors -> {"idle", "live", "cancelled", "retired", "closed"}]
    OBVIOUS
  <2>6. {manager, last} \subseteq 0 .. started /\ started \in 0 .. MaxMonitors
        /\ run \in 0 .. MaxRuns /\ target \in 0 .. MaxRuns
    OBVIOUS
  <2> QED BY <2>1, <2>3, <2>4, <2>5, <2>6 DEF TypeOK, RunStates
<1>2. BenchmarkIsPublished /\ RunsMonitored
  BY DEF BenchmarkIsPublished, RunsMonitored, Active, NoRun
<1> QED BY <1>1, <1>2
        DEF IInv, StartedInOrder, OneMonitorCollects, HolderKnows, BetweenMonitors,
            ChangeIsSaved, PublishedMatches, ReportedLogs, NoReport

\* A step that changes nothing keeps it.
LEMMA StutterKeeps ==
  ASSUME IInv, UNCHANGED vars
  PROVE  IInv'
<1> USE DEF vars, niceVars
<1>1. TypeOK'
  BY DEF IInv, TypeOK
<1>2. (StartedInOrder /\ OneMonitorCollects /\ BenchmarkIsPublished)'
  BY DEF IInv, StartedInOrder, OneMonitorCollects, BenchmarkIsPublished, Active
<1>3. (HolderKnows /\ ChangeIsSaved /\ PublishedMatches /\ ReportedLogs /\ RunsMonitored)'
  BY DEF IInv, HolderKnows, BetweenMonitors, ChangeIsSaved, PublishedMatches,
         ReportedLogs, RunsMonitored, Active
<1> QED BY <1>1, <1>2, <1>3 DEF IInv

\* Every step, or none, keeps the inductive invariant.
LEMMA StepIInv == IInv /\ [Next]_vars => IInv'
<1> SUFFICES ASSUME IInv, [Next]_vars PROVE IInv'
  OBVIOUS
<1>1. CASE StartMonitor \/ StartPlan
  BY <1>1, StartMonitorKeeps, StartPlanKeeps
<1>2. CASE Stopping
  BY <1>2, BeginStopKeeps, RunStoppedKeeps, RunStopTimesOutKeeps, FlushFailsKeeps,
     FlushAndCancelKeeps, AwaitMonitorKeeps, MonitorStoppedKeeps,
     MonitorStopTimesOutKeeps
     DEF Stopping
<1>3. CASE Applying
  BY <1>3, ApplySameKeeps, ApplyIdleKeeps, ApplyRunningKeeps, RestartKeeps,
     RestartFailsKeeps, AdoptKeeps, PublishRestartedKeeps, RollbackKeeps
     DEF Applying
<1>4. CASE BeginReport \/ CaptureReport
  BY <1>4, BeginReportKeeps, CaptureReportKeeps
<1>5. CASE RootEnds
  BY <1>5, RootEndsKeeps
<1>6. ASSUME NEW m \in Monitors, MonitorShutsDown(m) PROVE IInv'
  BY <1>6, MonitorShutsDownKeeps
<1>7. ASSUME NEW i \in Runs,
             Normalize(i) \/ RestorePriority(i) \/ RunEnds(i) \/ RunClears(i)
      PROVE  IInv'
  BY <1>7, NormalizeKeeps, RunEndsKeeps, RunClearsKeeps
<1>8. CASE UNCHANGED vars
  BY <1>8, StutterKeeps
<1> QED BY <1>1, <1>2, <1>3, <1>4, <1>5, <1>6, <1>7, <1>8 DEF Next

\* The inductive invariant holds in every reachable state.
LEMMA SpecIInv == Spec => []IInv
BY InitIInv, StepIInv, PTL DEF Spec

-----------------------------------------------------------------------------
(* Theorems. *)

\* The engine's state is well typed whatever is requested, fails or times out.
THEOREM TypeCorrect == Spec => []TypeOK
<1>1. IInv => TypeOK
  BY DEF IInv
<1> QED BY <1>1, SpecIInv, PTL

\* However requests, time-outs, failed restarts and the end of the serve
\* context fall together, no two monitors collect at the same time.
THEOREM NoTwoMonitorsCollect == Spec => []OneMonitorCollects
<1>1. IInv => OneMonitorCollects
  BY DEF IInv
<1> QED BY <1>1, SpecIInv, PTL

\* Between two requests the published monitor and the settings the API shows
\* agree after every failure and rollback, and so does the process's priority,
\* unless a benchmark that starts a child, or failed to, has lowered it.
THEOREM MonitorAgreesWithSettings == Spec => []MonitorMatchesSettings
<1>1. IInv => MonitorMatchesSettings
  BY DEF IInv, PublishedMatches, MonitorMatchesSettings
<1> QED BY <1>1, SpecIInv, PTL

\* A settings change that reports success, or a complete undo, left the
\* document that belongs to the settings in force.
THEOREM DocumentAgreesWithSettings == Spec => []DocumentMatchesSettings
<1>1. IInv => DocumentMatchesSettings
  BY DEF IInv, ChangeIsSaved, DocumentMatchesSettings
<1> QED BY <1>1, SpecIInv, PTL

\* A benchmark under way is the published one, with its monitor, and restores
\* the configured nice value after each child.
THEOREM RunningBenchmarkIsPublished == Spec => []BenchmarkIsPublished
<1>1. IInv => BenchmarkIsPublished
  BY DEF IInv
<1> QED BY <1>1, SpecIInv, PTL

\* A report taken through a running monitor is of a session that logs.
THEOREM LiveReportLogs == Spec => []LiveReportIsHistorical
<1>1. IInv => LiveReportIsHistorical
  BY DEF IInv, ReportedLogs, LiveReportIsHistorical
<1> QED BY <1>1, SpecIInv, PTL

\* While the serve context lasts, no request ends a live monitor, replaces the
\* published one or changes the settings under a benchmark that has not returned.
THEOREM NothingDisturbsBenchmark == Spec => BenchmarkUndisturbed
<1>1. ASSUME IInv, [Next]_vars, rootDone' = rootDone,
             NEW j \in Runs, Active(j)
      PROVE  /\ cfg' = cfg /\ manager' = manager
             /\ \A m \in Monitors : life[m] = "live" => life'[m] = "live"
  <2>1. run # 0 /\ manager # 0 /\ pc \in {"free", "stopRun"}
    BY <1>1, EngineAssumption
       DEF IInv, BenchmarkIsPublished, RunsMonitored, HolderKnows, TypeOK, Runs
  <2>2. CASE StartMonitor \/ StartPlan
    BY <2>1, <2>2 DEF StartMonitor, StartPlan
  <2>3. CASE Stopping
    BY <2>1, <2>3
       DEF Stopping, BeginStop, RunStopped, RunStopTimesOut, FlushFails, FlushAndCancel,
           AwaitMonitor, MonitorStopped, MonitorStopTimesOut, monitorVars
  <2>4. CASE Applying
    BY <2>1, <2>4
       DEF Applying, MayApply, ApplySame, ApplyIdle, ApplyRunning, Restart, RestartFails,
           Adopt, PublishRestarted, Rollback
  <2>5. CASE BeginReport \/ CaptureReport
    BY <2>5 DEF BeginReport, CaptureReport, monitorVars
  <2>6. CASE RootEnds
    BY <1>1, <2>6 DEF RootEnds, IInv, TypeOK
  <2>7. ASSUME NEW m \in Monitors, MonitorShutsDown(m)
        PROVE  /\ cfg' = cfg /\ manager' = manager
               /\ \A n \in Monitors : life[n] = "live" => life'[n] = "live"
    BY <1>1, <2>7 DEF MonitorShutsDown, IInv, TypeOK
  <2>8. ASSUME NEW i \in Runs,
               Normalize(i) \/ RestorePriority(i) \/ RunEnds(i) \/ RunClears(i)
        PROVE  cfg' = cfg /\ manager' = manager /\ life' = life
    BY <2>8 DEF Normalize, RestorePriority, RunEnds, RunClears, monitorVars
  <2>9. CASE UNCHANGED vars
    BY <2>9 DEF vars
  <2> QED BY <1>1, <2>2, <2>3, <2>4, <2>5, <2>6, <2>7, <2>8, <2>9 DEF Next
<1>2. IInv /\ [Next]_vars =>
        [ (rootDone' = rootDone /\ \E i \in Runs : Active(i)) =>
            /\ cfg' = cfg /\ manager' = manager
            /\ \A m \in Monitors : life[m] = "live" => life'[m] = "live" ]_vars
  BY <1>1
<1> QED BY <1>2, SpecIInv, PTL DEF Spec, BenchmarkUndisturbed

\* Every monitor the engine starts lives the life MonitorLife describes, which
\* MonitorManager implements: nothing revives, skips or repeats a stage.
THEOREM EngineGivesMonitorsTheirLife == Spec => MonitorsLive
<1>1. ASSUME IInv, [Next]_vars, NEW m \in Monitors, life'[m] # life[m]
      PROVE  Monitor(m)!LifeNext
  <2> USE DEF Monitor!LifeNext, Monitor!Begin, Monitor!Cancel, Monitor!Retire,
              Monitor!CloseStore
  <2>1. \A s : StartSucceeds(s) => Monitor(m)!LifeNext
    BY <1>1, EngineAssumption DEF StartSucceeds, IInv, TypeOK, StartedInOrder, Monitors
  <2>2. CASE StartMonitor \/ StartPlan
    BY <1>1, <2>1, <2>2 DEF StartMonitor, StartPlan, StartFails, monitorVars
  <2>3. CASE Stopping
    <3>1. CASE FlushAndCancel
      BY <1>1, <3>1 DEF FlushAndCancel, IInv, TypeOK
    <3> QED BY <1>1, <2>3, <3>1
            DEF Stopping, BeginStop, RunStopped, RunStopTimesOut, FlushFails,
                AwaitMonitor, MonitorStopped, MonitorStopTimesOut, monitorVars
  <2>4. CASE Applying
    BY <1>1, <2>1, <2>4
       DEF Applying, ApplySame, ApplyIdle, ApplyRunning, Restart, RestartFails,
           Adopt, PublishRestarted, Rollback, StartFails, monitorVars
  <2>5. CASE RootEnds
    BY <1>1, <2>5 DEF RootEnds, IInv, TypeOK
  <2>6. ASSUME NEW n \in Monitors, MonitorShutsDown(n) PROVE Monitor(m)!LifeNext
    BY <1>1, <2>6 DEF MonitorShutsDown, IInv, TypeOK
  <2>7. CASE \/ BeginReport \/ CaptureReport
             \/ \E i \in Runs :
                  Normalize(i) \/ RestorePriority(i) \/ RunEnds(i) \/ RunClears(i)
             \/ UNCHANGED vars
    BY <1>1, <2>7 DEF BeginReport, CaptureReport, Normalize, RestorePriority, RunEnds,
                      RunClears, monitorVars, vars
  <2> QED BY <1>1, <2>2, <2>3, <2>4, <2>5, <2>6, <2>7 DEF Next
<1>2. IInv /\ [Next]_vars =>
        [\A m \in Monitors : Monitor(m)!LifeNext \/ life'[m] = life[m]]_life
  BY <1>1
<1> QED BY <1>2, SpecIInv, PTL DEF Spec, MonitorsLive
=============================================================================
