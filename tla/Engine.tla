-------------------------------- MODULE Engine --------------------------------
(***************************************************************************)
(* internal/server/server.go: the Engine behind the local API.  Every      *)
(* operation that starts or stops something holds the lifecycle mutex from *)
(* its first to its last line, so one operation at a time is under way and *)
(* pc says where it is; what interleaves with it are the monitors, the     *)
(* benchmark goroutines, the end of the serve context, and GenerateReport, *)
(* which takes only reportMu and reads the published fields under mu.      *)
(***************************************************************************)
EXTENDS Integers, FiniteSets

CONSTANTS
  Nices,        \* process nice values
  Settings,     \* the runtime settings, as far as the engine tells them apart
  MaxMonitors,  \* bound: monitors started in one process
  MaxRuns       \* bound: benchmark plans started in one process

ASSUME EngineAssumption ==
  /\ Nices \subseteq Int /\ 0 \in Nices
  /\ Settings \subseteq [nice : Nices, logging : BOOLEAN]
  /\ MaxMonitors \in Nat
  /\ MaxRuns \in Nat

Monitors == 1 .. MaxMonitors
Runs     == 1 .. MaxRuns

VARIABLES
  rootDone,  \* the serve context has ended
  cfg,       \* e.cfg.Runtime
  disk,      \* the persisted settings document
  nice,      \* the process's nice value
  priority,  \* history: the nice value is "kept", lowered to 0 for a "child"
             \* of a benchmark that is being started, or was "lost" doing so
  life,      \* life[m]: see MonitorLife
  conf,      \* conf[m]: the settings monitor m was created with
  started,   \* monitors started so far
  manager,   \* e.manager (and e.bench, e.monitorCancel): 0 for nil
  last,      \* e.lastSession, 0 when empty
  run,       \* e.run, 0 for nil
  runs,      \* runs[i]: a benchmark goroutine, its monitor and settings
  pc,        \* where the holder of the lifecycle mutex is, "free" for nobody
  goal,      \* which operation that is
  target,    \* the run or the new monitor it works on
  want,      \* the settings a restart is for, cfg when none is under way
  told,      \* what the latest ApplyRuntimeSettings reported
  report     \* GenerateReport: the manager and directory it read

vars == <<rootDone, cfg, disk, nice, priority, life, conf, started, manager,
          last, run, runs, pc, goal, target, want, told, report>>

monitorVars == <<life, conf, started>>
niceVars    == <<nice, priority>>
setVars     == <<want, told>>

NoRun    == [state |-> "none", monitor |-> 0, nice |-> 0]
NoReport == [state |-> "idle", monitor |-> 0, dir |-> 0]

\* The plan has not returned: its context lasts or has ended, or one of its
\* children could not be started.
Active(i) == runs[i].state \in {"running", "cancelled", "failed"}

-----------------------------------------------------------------------------
(* What the engine's calls can do. *)

\* startMonitorComponentsLocked: sudo, priority, newMonitor, root, Start.
\* Before the priority is set nothing has changed; a failed setPriority and
\* every later failure may leave the new priority behind.
StartFails(s) ==
  /\ nice' \in {nice, s.nice}
  /\ UNCHANGED <<priority, monitorVars>>

StartSucceeds(s) ==
  /\ ~rootDone
  /\ started < MaxMonitors
  /\ nice' = s.nice /\ priority' = "kept"
  /\ started' = started + 1
  /\ life' = [life EXCEPT ![started + 1] = "live"]
  /\ conf' = [conf EXCEPT ![started + 1] = s]

\* Faulty: the number of the next monitor is published.
PublishNext ==
  /\ manager' = started' + 1
  /\ last' = started' + 1

\* publishMonitor, of the monitor that was started last.
Publish ==
  /\ manager' = started'
  /\ last' = started'

\* saveSettings: it may fail before or after the rename.
SaveFails(s) == disk' \in {disk, s}
Saved(s)     == disk' = s

\* Faulty: a restore that does not write is reported as done.
RestoreUnwritten == told' = "restored" /\ UNCHANGED disk

\* A settings change puts back the document of the old configuration.
RestoreDocument ==
  \/ Saved(cfg) /\ told' = "restored"
  \/ SaveFails(cfg) /\ told' = "failed"

Release == pc' = "free" /\ goal' = "none" /\ target' = 0

-----------------------------------------------------------------------------
(* StartMonitor and startPlan. *)

StartMonitor ==
  /\ pc = "free"
  /\ manager = 0
  /\ \/ StartFails(cfg) /\ UNCHANGED <<manager, last>>
     \/ StartSucceeds(cfg) /\ Publish
  /\ UNCHANGED <<rootDone, cfg, disk, run, runs, pc, goal, target, setVars,
                 report>>

\* A monitor is started first when none is published; a plan is refused while
\* another one is.  A start that fails, or a plan refused after it, is a
\* StartMonitor.
StartPlan ==
  /\ pc = "free"
  /\ run = 0
  /\ ~rootDone
  /\ IF manager = 0
     THEN StartSucceeds(cfg) /\ Publish
     ELSE UNCHANGED <<niceVars, monitorVars, manager, last>>
  /\ \E i \in Runs :
       /\ runs[i] = NoRun /\ \A j \in 1 .. i - 1 : runs[j] # NoRun
       /\ run' = i
       /\ runs' = [runs EXCEPT ![i] =
                     [state |-> "running", monitor |-> manager', nice |-> cfg.nice]]
  /\ UNCHANGED <<rootDone, cfg, disk, pc, goal, target, setVars, report>>

-----------------------------------------------------------------------------
(* StopBenchmark and StopMonitor. *)

\* Faulty: the run is waited for without being told to end.
CancelForgotten(i) == UNCHANGED runs

CancelRun(i) ==
  runs' = IF runs[i].state = "running"
          THEN [runs EXCEPT ![i].state = "cancelled"] ELSE runs

\* stopBenchmarkLocked: cancel the published run and wait for it.
BeginStop(g) ==
  /\ pc = "free"
  /\ goal' = g
  /\ IF run # 0
     THEN CancelRun(run) /\ target' = run /\ pc' = "stopRun"
     ELSE /\ g = "stopMonitor" /\ manager # 0
          /\ pc' = "flush"
          /\ UNCHANGED <<runs, target>>
  /\ UNCHANGED <<rootDone, cfg, disk, niceVars, monitorVars, manager, last, run,
                 setVars, report>>

\* run.done was closed: the run is forgotten unless the goroutine did so, or a
\* newer run was published.
RunStopped ==
  /\ pc = "stopRun"
  /\ runs[target].state \in {"done", "gone"}
  /\ run' = IF run = target THEN 0 ELSE run
  /\ target' = 0
  /\ IF goal = "stopMonitor" /\ manager # 0
     THEN pc' = "flush" /\ UNCHANGED goal
     ELSE pc' = "free" /\ goal' = "none"
  /\ UNCHANGED <<rootDone, cfg, disk, niceVars, monitorVars, manager, last,
                 runs, setVars, report>>

RunStopTimesOut ==
  /\ pc = "stopRun"
  /\ Release
  /\ UNCHANGED <<rootDone, cfg, disk, niceVars, monitorVars, manager, last, run,
                 runs, setVars, report>>

\* stopMonitorOnlyLocked gives up; a settings change then restores the
\* document of the old configuration.
GiveUp ==
  /\ Release
  /\ IF goal = "apply"
     THEN /\ RestoreDocument
          /\ want' = cfg
     ELSE UNCHANGED <<disk, setVars>>
  /\ UNCHANGED <<rootDone, cfg, niceVars, conf, started, manager, last, run,
                 runs, report>>

\* The pending sample could not be flushed: the monitor goes on.
FlushFails ==
  /\ pc = "flush"
  /\ GiveUp
  /\ UNCHANGED life

\* Faulty: the new configuration is adopted before the old monitor has gone.
FlushAndAdopt ==
  /\ pc = "flush"
  /\ life' = [life EXCEPT ![manager] = IF @ = "live" THEN "cancelled" ELSE @]
  /\ cfg' = IF goal = "apply" THEN want ELSE cfg
  /\ pc' = "stop"
  /\ UNCHANGED <<rootDone, disk, niceVars, conf, started, manager, last, run,
                 runs, goal, target, setVars, report>>

\* Faulty: a monitor that has ended is cancelled again.
FlushAndRevive ==
  /\ pc = "flush"
  /\ life' = [life EXCEPT ![manager] = "cancelled"]
  /\ pc' = "stop"
  /\ UNCHANGED <<rootDone, cfg, disk, niceVars, conf, started, manager, last,
                 run, runs, goal, target, setVars, report>>

FlushAndCancel ==
  /\ pc = "flush"
  /\ life' = [life EXCEPT ![manager] = IF @ = "live" THEN "cancelled" ELSE @]
  /\ pc' = "stop"
  /\ UNCHANGED <<rootDone, cfg, disk, niceVars, conf, started, manager, last,
                 run, runs, goal, target, setVars, report>>

\* Manager.Stop of a manager that has not retired waits for the end.
AwaitMonitor ==
  /\ pc = "stop"
  /\ life[manager] = "cancelled"
  /\ pc' = "await"
  /\ UNCHANGED <<rootDone, cfg, disk, niceVars, monitorVars, manager, last, run,
                 runs, goal, target, setVars, report>>

\* Faulty: a monitor that did not end in time is forgotten.
MonitorStopForgets ==
  /\ pc = "await"
  /\ goal = "stopMonitor"
  /\ Release
  /\ manager' = 0
  /\ UNCHANGED <<rootDone, cfg, disk, niceVars, monitorVars, last, run, runs,
                 setVars, report>>

MonitorStopTimesOut ==
  /\ pc = "await"
  /\ GiveUp
  /\ UNCHANGED life

\* Manager.Stop returned nil: at once when there was no cancel function left,
\* or after the wait.
MonitorStopped ==
  /\ \/ pc = "stop" /\ life[manager] \in {"retired", "closed"}
     \/ pc = "await" /\ life[manager] = "closed"
  /\ last' = manager
  /\ manager' = 0
  /\ IF goal = "apply"
     THEN pc' = "restart" /\ UNCHANGED <<goal, target>>
     ELSE Release
  /\ UNCHANGED <<rootDone, cfg, disk, niceVars, monitorVars, run, runs, setVars,
                 report>>

-----------------------------------------------------------------------------
(* ApplyRuntimeSettings; it is refused while a plan is published. *)

\* Faulty: settings are applied under a benchmark.
MayApplyAnytime == pc = "free"

MayApply == pc = "free" /\ run = 0

\* The settings are those in force: the document alone is saved.
ApplySame ==
  /\ MayApply
  /\ \/ Saved(cfg) /\ told' = "applied"
     \/ SaveFails(cfg) /\ told' = "failed"
  /\ UNCHANGED <<rootDone, cfg, niceVars, monitorVars, manager, last, run, runs,
                 pc, goal, target, want, report>>

\* No monitor is running: priority, document, configuration.
ApplyIdle(s) ==
  /\ MayApply /\ manager = 0
  /\ s # cfg
  /\ \/ /\ nice' = s.nice /\ Saved(s) /\ cfg' = s
        /\ told' = "applied"
     \/ /\ nice' \in {nice, s.nice}
        /\ told' = "failed"
        /\ UNCHANGED <<disk, cfg>>
     \/ /\ nice' = cfg.nice /\ Saved(cfg)
        /\ told' = "restored"
        /\ UNCHANGED cfg
     \/ /\ nice' \in {s.nice, cfg.nice} /\ disk' \in {disk, s, cfg}
        /\ told' = "failed"
        /\ UNCHANGED cfg
  /\ want' = cfg'
  /\ UNCHANGED <<rootDone, priority, monitorVars, manager, last, run, runs, pc,
                 goal, target, report>>

\* A monitor is running: the document first, then the restart.
ApplyRunning(s) ==
  /\ MayApply /\ manager # 0
  /\ s # cfg
  /\ \/ /\ SaveFails(s)
        /\ told' = "failed"
        /\ UNCHANGED <<pc, goal, want>>
     \/ /\ Saved(s)
        /\ want' = s
        /\ pc' = "flush" /\ goal' = "apply"
        /\ told' = "none"
  /\ UNCHANGED <<rootDone, cfg, niceVars, monitorVars, manager, last, run, runs,
                 target, report>>

Restart ==
  /\ pc = "restart"
  /\ StartSucceeds(want)
  /\ pc' = "adopt"
  /\ UNCHANGED <<rootDone, cfg, disk, manager, last, run, runs, goal, target,
                 setVars, report>>

RestartFails ==
  /\ pc = "restart"
  /\ StartFails(want)
  /\ RestoreDocument
  /\ want' = cfg
  /\ pc' = "rollback"
  /\ UNCHANGED <<rootDone, cfg, manager, last, run, runs, goal, target, report>>

\* Faulty: the configuration stays as it was.
AdoptForgotten ==
  /\ pc = "adopt"
  /\ pc' = "publish"
  /\ UNCHANGED <<rootDone, cfg, disk, niceVars, monitorVars, manager, last, run,
                 runs, goal, target, setVars, report>>

\* The new configuration and the new monitor are published one after the other.
Adopt ==
  /\ pc = "adopt"
  /\ cfg' = want
  /\ pc' = "publish"
  /\ UNCHANGED <<rootDone, disk, niceVars, monitorVars, manager, last, run,
                 runs, goal, target, setVars, report>>

PublishRestarted ==
  /\ pc = "publish"
  /\ UNCHANGED monitorVars
  /\ Publish
  /\ told' = "applied"
  /\ Release
  /\ UNCHANGED <<rootDone, cfg, disk, niceVars, run, runs, want, report>>

\* restorePreviousMonitorLocked
Rollback ==
  /\ pc = "rollback"
  /\ \/ StartSucceeds(cfg) /\ Publish /\ UNCHANGED told
     \/ StartFails(cfg) /\ UNCHANGED <<manager, last>> /\ told' = "failed"
  /\ Release
  /\ UNCHANGED <<rootDone, cfg, disk, run, runs, want, report>>

-----------------------------------------------------------------------------
(* GenerateReport: read under mu, then capture without it. *)

BeginReport ==
  /\ report = NoReport
  /\ ~(manager # 0 /\ ~cfg.logging)
  /\ manager # 0 \/ last # 0
  /\ report' = [state |-> "read", monitor |-> manager, dir |-> last]
  /\ UNCHANGED <<rootDone, cfg, disk, niceVars, monitorVars, manager, last, run,
                 runs, pc, goal, target, setVars>>

\* The session the snapshot is taken of.
Reported == IF report.monitor # 0 THEN report.monitor ELSE report.dir

CaptureReport ==
  /\ report # NoReport
  /\ report' = NoReport
  /\ UNCHANGED <<rootDone, cfg, disk, niceVars, monitorVars, manager, last, run,
                 runs, pc, goal, target, setVars>>

-----------------------------------------------------------------------------
(* The goroutines the engine started, and the serve context. *)

\* A cancelled monitor retires, then closes its store.
MonitorShutsDown(m) ==
  /\ \/ life[m] = "cancelled" /\ life' = [life EXCEPT ![m] = "retired"]
     \/ life[m] = "retired" /\ life' = [life EXCEPT ![m] = "closed"]
  /\ UNCHANGED <<rootDone, cfg, disk, niceVars, conf, started, manager, last,
                 run, runs, pc, goal, target, setVars, report>>

ChildFails(i) == runs' = [runs EXCEPT ![i].state = "failed"]

\* priority.StartNormalized, of a monitor with a nice value of its own: the
\* process goes to 0 and the child is started, which fails under a context
\* that has ended.  The plan returns after a child that could not be started.
Normalize(i) ==
  /\ runs[i].state \in {"running", "cancelled"}
  /\ runs[i].nice # 0 /\ priority # "child"
  /\ \/ /\ nice' = 0 /\ priority' = "child"
        /\ \/ runs[i].state = "running" /\ UNCHANGED runs
           \/ ChildFails(i)
     \/ nice' = 0 /\ priority' = "lost" /\ ChildFails(i)
     \/ UNCHANGED niceVars /\ ChildFails(i)
  /\ UNCHANGED <<rootDone, cfg, disk, monitorVars, manager, last, run, pc, goal,
                 target, setVars, report>>

\* Then the configured value is put back; when that fails, the child is killed.
RestorePriority(i) ==
  /\ Active(i) /\ priority = "child"
  /\ \/ nice' = runs[i].nice /\ priority' = "kept" /\ UNCHANGED runs
     \/ nice' \in {0, runs[i].nice} /\ priority' = "lost" /\ ChildFails(i)
  /\ UNCHANGED <<rootDone, cfg, disk, monitorVars, manager, last, run, pc, goal,
                 target, setVars, report>>

\* The plan returns, because it is finished, has failed or was cancelled.
RunEnds(i) ==
  /\ Active(i) /\ priority # "child"
  /\ runs' = [runs EXCEPT ![i].state = "done"]
  /\ UNCHANGED <<rootDone, cfg, disk, niceVars, monitorVars, manager, last, run,
                 pc, goal, target, setVars, report>>

\* Faulty: whatever run is published is forgotten, or none is.
RunClearsAny(i) ==
  /\ runs[i].state = "done"
  /\ runs' = [runs EXCEPT ![i].state = "gone"]
  /\ run' = 0
  /\ UNCHANGED <<rootDone, cfg, disk, niceVars, monitorVars, manager, last, pc,
                 goal, target, setVars, report>>
RunClearsNone(i) ==
  /\ runs[i].state = "done"
  /\ runs' = [runs EXCEPT ![i].state = "gone"]
  /\ UNCHANGED <<rootDone, cfg, disk, niceVars, monitorVars, manager, last, run,
                 pc, goal, target, setVars, report>>

\* Its goroutine forgets the run, unless a newer one has been published.
RunClears(i) ==
  /\ runs[i].state = "done"
  /\ runs' = [runs EXCEPT ![i].state = "gone"]
  /\ run' = IF run = i THEN 0 ELSE run
  /\ UNCHANGED <<rootDone, cfg, disk, niceVars, monitorVars, manager, last, pc,
                 goal, target, setVars, report>>

RootEnds ==
  /\ ~rootDone
  /\ rootDone' = TRUE
  /\ life' = [m \in Monitors |-> IF life[m] = "live" THEN "cancelled" ELSE life[m]]
  /\ runs' = [i \in Runs |-> IF runs[i].state = "running"
                             THEN [runs[i] EXCEPT !.state = "cancelled"] ELSE runs[i]]
  /\ UNCHANGED <<cfg, disk, niceVars, conf, started, manager, last, run, pc,
                 goal, target, setVars, report>>

-----------------------------------------------------------------------------
\* Command-line flags may override the persisted document for this process.
Init ==
  /\ rootDone = FALSE
  /\ cfg \in Settings /\ disk \in Settings
  /\ nice = 0 /\ priority = "kept"
  /\ life = [m \in Monitors |-> "idle"]
  /\ conf = [m \in Monitors |-> cfg]
  /\ started = 0
  /\ manager = 0 /\ last = 0
  /\ run = 0
  /\ runs = [i \in Runs |-> NoRun]
  /\ pc = "free" /\ goal = "none" /\ target = 0
  /\ want = cfg /\ told = "none"
  /\ report = NoReport

Stopping ==
  \/ \E g \in {"stopRun", "stopMonitor"} : BeginStop(g)
  \/ RunStopped \/ RunStopTimesOut
  \/ FlushFails \/ FlushAndCancel
  \/ AwaitMonitor \/ MonitorStopped \/ MonitorStopTimesOut

Applying ==
  \/ ApplySame
  \/ \E s \in Settings : ApplyIdle(s) \/ ApplyRunning(s)
  \/ Restart \/ RestartFails \/ Adopt \/ PublishRestarted \/ Rollback

Next ==
  \/ StartMonitor \/ StartPlan
  \/ Stopping
  \/ Applying
  \/ BeginReport \/ CaptureReport
  \/ \E m \in Monitors : MonitorShutsDown(m)
  \/ \E i \in Runs :
       Normalize(i) \/ RestorePriority(i) \/ RunEnds(i) \/ RunClears(i)
  \/ RootEnds

\* The holder of the mutex goes on, monitors shut down (ShutdownCompletes of
\* MonitorManager), the restoration of the priority has a time limit, and a
\* plan that was cancelled or has failed returns; another one need not.
Fairness ==
  /\ WF_vars(RunStopped \/ FlushFails \/ FlushAndCancel \/ AwaitMonitor
             \/ MonitorStopped)
  /\ WF_vars(Restart \/ RestartFails \/ Adopt \/ PublishRestarted \/ Rollback)
  /\ \A m \in Monitors : WF_vars(MonitorShutsDown(m))
  /\ \A i \in Runs :
       /\ WF_vars(RestorePriority(i))
       /\ WF_vars(runs[i].state \in {"cancelled", "failed"} /\ RunEnds(i))
       /\ WF_vars(RunClears(i))

Spec == Init /\ [][Next]_vars
FairSpec == Spec /\ Fairness

-----------------------------------------------------------------------------
(* Properties. *)

\* Every variable has the type of the field or local it stands for.
TypeOK ==
  /\ rootDone \in BOOLEAN
  /\ {cfg, disk, want} \subseteq Settings
  /\ nice \in Nices /\ priority \in {"kept", "child", "lost"}
  /\ life \in [Monitors -> {"idle", "live", "cancelled", "retired", "closed"}]
  /\ conf \in [Monitors -> Settings]
  /\ started \in 0 .. MaxMonitors
  /\ {manager, last} \subseteq 0 .. started
  /\ run \in 0 .. MaxRuns
  /\ runs \in [Runs -> [state : {"none", "running", "cancelled", "failed", "done",
                                 "gone"},
                        monitor : 0 .. MaxMonitors, nice : Nices]]
  /\ pc \in {"free", "stopRun", "flush", "stop", "await", "restart", "adopt",
             "publish", "rollback"}
  /\ goal \in {"none", "stopRun", "stopMonitor", "apply"}
  /\ target \in 0 .. MaxRuns
  /\ told \in {"none", "applied", "restored", "failed"}
  /\ report \in [state : {"idle", "read"}, monitor : 0 .. MaxMonitors,
                 dir : 0 .. MaxMonitors]

\* At most one monitor collects at a time, and it is the published one except
\* while a settings change has not published its replacement yet.
OneMonitorCollects ==
  \A m \in Monitors : life[m] \in {"live", "cancelled"} =>
    m = manager \/ (pc \in {"adopt", "publish"} /\ m = started /\ manager = 0)

\* With the mutex free, the published monitor was created with the configuration
\* the API shows, and the process has its priority, whatever request failed
\* before; only a benchmark lowers it to 0, while it starts a child, and leaves
\* it there when putting it back failed.
MonitorMatchesSettings ==
  (pc = "free" /\ manager # 0) =>
    /\ conf[manager] = cfg
    /\ nice = cfg.nice \/ (nice = 0 /\ priority # "kept")

\* ApplyRuntimeSettings that reported success, or a failure it undid entirely,
\* leaves the document equal to the configuration in force.
DocumentMatchesSettings ==
  (pc = "free" /\ told \in {"applied", "restored"}) => disk = cfg

\* A benchmark that has not returned is the published one, so no request can
\* start another beside it; its monitor is published, and the nice value it
\* restores after each child is the configured one.
BenchmarkIsPublished ==
  \A i \in Runs : Active(i) =>
    /\ run = i
    /\ manager = runs[i].monitor
    /\ runs[i].nice = cfg.nice

\* No request ends a monitor, or changes the settings, under a benchmark.
BenchmarkUndisturbed ==
  [][ (rootDone' = rootDone /\ \E i \in Runs : Active(i)) =>
        /\ cfg' = cfg /\ manager' = manager
        /\ \A m \in Monitors : life[m] = "live" => life'[m] = "live" ]_vars

\* A report taken through a running monitor is of a session that logs: the
\* logging flag and the monitor are read together and replaced in an order
\* that never pairs the new flag with the old monitor.
LiveReportIsHistorical ==
  report.monitor # 0 => conf[report.monitor].logging

\* Every monitor the engine starts lives the life a Manager promises.
Monitor(m) == INSTANCE MonitorLife WITH life <- life[m]
MonitorsLive ==
  [][\A m \in Monitors : Monitor(m)!LifeNext \/ life'[m] = life[m]]_life

\* No request keeps the mutex for good, so no other request waits for ever:
\* every wait inside one ends with the run or the monitor it waits for.
RequestsReturn == pc # "free" ~> pc = "free"

\* Whatever the order of a run's end, its stop and the next run's start, a run
\* that has returned does not stay published and block the next one.
ReturnedRunIsForgotten ==
  \A i \in Runs : runs[i].state = "done" ~> run # i
===============================================================================
