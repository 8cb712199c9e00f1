----------------------------- MODULE TestRunner -----------------------------
(***************************************************************************)
(* The legacy stress-test runner (friendly_test_ui.py): several runners of *)
(* one directory, each a process of its own that takes the lock file,      *)
(* writes the phase and the record of its test, runs the workload under    *)
(* caffeinate in a session of its own, and gives the lock back.            *)
(*                                                                         *)
(* A runner may be interrupted (Ctrl-C) or killed between any two steps,   *)
(* and a write may raise; the workload goes on without its runner.         *)
(***************************************************************************)
EXTENDS Integers, Sequences, FiniteSets

CONSTANTS
  Runners,        \* the processes; a pid is its runner
  Forced,         \* those started with --force-lock
  Marked,         \* those started with a --phase
  None, Empty,    \* no file; a file that is no JSON document
  MaxFaults       \* bound: runners that are killed or broken

ASSUME RunnersAssumption ==
  /\ Forced \subseteq Runners /\ Marked \subseteq Runners
  /\ MaxFaults \in Nat
  /\ None # Empty /\ {None, Empty} \cap Runners = {}

\* The marks are no record, status or exit code.
ASSUME MarksAssumption ==
  /\ None \notin [id : Runners, pid : Runners \cup {Empty}]
  /\ None \notin {0, 1, -15, 130}
  /\ {None, Empty} \cap {"running", "complete", "stopped", "failed"} = {}

VARIABLES
  pc,       \* where each runner is
  lock,     \* .active_test.lock: who created the file, and the pid in it
  fd,       \* the file each runner has open as its lock, or None
  phase,    \* whose phase is in current_phase.txt
  record,   \* the status in the record of each test
  listed,   \* test_runs.jsonl
  child,    \* the caffeinate process of each runner and the workload below it
  stopped,  \* stopped_by_user
  broken,   \* whether an exception or a second Ctrl-C has ended the test
  raced     \* history: whether a runner has passed the lock in the race below

vars == <<pc, lock, fd, phase, record, listed, child, stopped, broken, raced>>

Gone == {"idle", "refused", "ended", "killed"}
Acquiring == {"unlink", "open", "write"}
Releasing == {"releasing", "unlinking"}
Holding == {"locked", "phased", "ready", "running", "stopping", "finishing", "recorded"}

(* The exit codes of the workload; 130 is that of a leader that had to be  *)
(* killed, and None that of one that has not ended.                        *)
Codes == {0, 1, -15}
NoChild == [alive |-> {}, code |-> None]

-----------------------------------------------------------------------------
Init ==
  /\ pc = [r \in Runners |-> "idle"]
  /\ lock = None /\ phase = None /\ listed = << >>
  /\ fd = [r \in Runners |-> None]
  /\ record = [r \in Runners |-> None]
  /\ child = [r \in Runners |-> NoChild]
  /\ stopped = [r \in Runners |-> FALSE] /\ broken = [r \in Runners |-> FALSE]
  /\ raced = FALSE

Goes(r, from, to) == pc[r] = from /\ pc' = [pc EXCEPT ![r] = to]

(* Nobody else is between its look at the lock and the end of its write,   *)
(* or between its last look at its own lock and the removal of the file.   *)
Alone(r) == \A o \in Runners \ {r} : pc[o] \notin Acquiring \cup {"unlinking"}

-----------------------------------------------------------------------------
(* TestLock.                                                               *)

\* Faulty: a lock is only respected while its workload runs.
BlocksWorkload(r, reused) ==
  /\ lock # None /\ lock.pid # Empty /\ r \notin Forced
  /\ child[lock.pid].alive # {} \/ (reused /\ pc[lock.pid] \in Gone)

(* pid_alive: of the runner, or of a later process with its pid.           *)
Blocks(r, reused) ==
  /\ lock # None /\ lock.pid # Empty /\ r \notin Forced
  /\ pc[lock.pid] \notin Gone \/ reused

(* The look and the write are two steps, so several runners may pass.      *)
Check(r) ==
  /\ \E reused \in BOOLEAN :
       \/ Blocks(r, reused) /\ Goes(r, "idle", "refused") /\ UNCHANGED raced
       \/ /\ ~Blocks(r, reused)
          /\ Goes(r, "idle", IF lock = None THEN "open" ELSE "unlink")
          /\ raced' = (raced \/ ~Alone(r))
  /\ UNCHANGED <<lock, fd, phase, record, listed, child, stopped, broken>>

(* A stale lock is removed, or stays where that fails.                     *)
Unlink(r) ==
  /\ Goes(r, "unlink", "open")
  /\ lock' \in {None, lock}
  /\ UNCHANGED <<fd, phase, record, listed, child, stopped, broken, raced>>

(* write_text opens the file, empty from now on, and then writes to the    *)
(* file it opened, which may have been removed since.  Where two write the *)
(* same file the rest of a longer text may follow the shorter one.         *)
Open(r) ==
  /\ Goes(r, "open", "write")
  /\ lock' = [id |-> IF lock # None THEN lock.id ELSE r, pid |-> Empty]
  /\ fd' = [fd EXCEPT ![r] = lock'.id]
  /\ UNCHANGED <<phase, record, listed, child, stopped, broken, raced>>

Fill(r) ==
  /\ Goes(r, "write", "locked")
  /\ IF lock # None /\ lock.id = fd[r]
     THEN lock' \in {[lock EXCEPT !.pid = p] : p \in IF lock.pid = Empty THEN {r} ELSE {r, Empty}}
     ELSE UNCHANGED lock
  /\ fd' = [fd EXCEPT ![r] = None]
  /\ UNCHANGED <<phase, record, listed, child, stopped, broken, raced>>

(* release: a lock that is its own, or that it cannot read.                *)
ReadLock(r) ==
  /\ Goes(r, "releasing", IF lock # None /\ lock.pid \in {r, Empty} THEN "unlinking" ELSE "ended")
  /\ UNCHANGED <<lock, fd, phase, record, listed, child, stopped, broken, raced>>

RemoveLock(r) ==
  /\ Goes(r, "unlinking", "ended")
  /\ lock' = None
  /\ UNCHANGED <<fd, phase, record, listed, child, stopped, broken, raced>>

-----------------------------------------------------------------------------
(* main.                                                                   *)

(* A test without a phase leaves the one of the test before.               *)
WritePhase(r) ==
  /\ Goes(r, "locked", "phased")
  /\ phase' = IF r \in Marked THEN r ELSE phase
  /\ UNCHANGED <<lock, fd, record, listed, child, stopped, broken, raced>>

WriteRecord(r) ==
  /\ Goes(r, "phased", "ready")
  /\ record' = [record EXCEPT ![r] = "running"]
  /\ UNCHANGED <<lock, fd, phase, listed, child, stopped, broken, raced>>

Spawn(r) ==
  /\ Goes(r, "ready", "running")
  /\ child' = [child EXCEPT ![r].alive = {"caffeinate", "workload"}]
  /\ UNCHANGED <<lock, fd, phase, record, listed, stopped, broken, raced>>

(* The workload ends, and caffeinate with it and with its code, which only *)
(* the runner learns.                                                      *)
ChildEnds(r) ==
  /\ child[r].alive # {}
  /\ \E code \in Codes :
       child' = [child EXCEPT ![r] = [alive |-> {}, code |-> IF @.code = None /\ pc[r] \in {"running", "stopping"} THEN code ELSE @.code]]
  /\ UNCHANGED <<pc, lock, fd, phase, record, listed, stopped, broken, raced>>

Polled(r) ==
  /\ child[r].code # None
  /\ Goes(r, "running", "finishing")
  /\ UNCHANGED <<lock, fd, phase, record, listed, child, stopped, broken, raced>>

(* Ctrl-C, while the workload runs or the last picture shows, ends every   *)
(* process of the session that does not ignore SIGTERM.                    *)
Interrupt(r) ==
  /\ Goes(r, "running", "stopping")
  /\ stopped' = [stopped EXCEPT ![r] = TRUE]
  /\ \E left \in SUBSET child[r].alive :
       child' = [child EXCEPT ![r] =
         [alive |-> left, code |-> IF @.code = None /\ "caffeinate" \notin left THEN -15 ELSE @.code]]
  /\ UNCHANGED <<lock, fd, phase, record, listed, broken, raced>>

(* It waits for the leader of the session only, eight seconds at most, and *)
(* kills no other process after that.                                      *)
Waited(r) ==
  /\ Goes(r, "stopping", "finishing")
  /\ child' = IF child[r].code # None THEN child
              ELSE [child EXCEPT ![r] = [alive |-> @.alive \ {"caffeinate"}, code |-> 130]]
  /\ UNCHANGED <<lock, fd, phase, record, listed, stopped, broken, raced>>

\* Faulty: a workload that a signal has ended counts as complete.
StatusOfSignal(r) ==
  IF child[r].code \in {0, -15} THEN "complete" ELSE IF stopped[r] THEN "stopped" ELSE "failed"

Status(r) ==
  IF child[r].code = 0 THEN "complete"
  ELSE IF stopped[r] \/ child[r].code \in {130, -15} THEN "stopped" ELSE "failed"

\* Faulty: the record of a test that was stopped is left as it is.
FinishUnlessStopped(r) ==
  /\ Goes(r, "finishing", "recorded")
  /\ record' = IF stopped[r] THEN record ELSE [record EXCEPT ![r] = Status(r)]
  /\ UNCHANGED <<lock, fd, phase, listed, child, stopped, broken, raced>>

Finish(r) ==
  /\ Goes(r, "finishing", "recorded")
  /\ record' = [record EXCEPT ![r] = Status(r)]
  /\ UNCHANGED <<lock, fd, phase, listed, child, stopped, broken, raced>>

List(r) ==
  /\ Goes(r, "recorded", "releasing")
  /\ listed' = Append(listed, [test |-> r, status |-> record[r]])
  /\ UNCHANGED <<lock, fd, phase, record, child, stopped, broken, raced>>

MayFail == Cardinality({r \in Runners : broken[r] \/ pc[r] = "killed"}) < MaxFaults

(* Where an exception, or a Ctrl-C where none is awaited, leads: the       *)
(* finally clause with the release begins after the record was written.    *)
After(r) == IF pc[r] \in Acquiring \cup {"locked", "phased"} THEN "ended" ELSE "releasing"

Raise(r) ==
  /\ MayFail
  /\ pc[r] \in Acquiring \cup Holding
  /\ pc' = [pc EXCEPT ![r] = After(r)]
  /\ broken' = [broken EXCEPT ![r] = TRUE]
  /\ UNCHANGED <<lock, fd, phase, record, listed, child, stopped, raced>>

(* The write of a record ends half-way, with the runner or without it.     *)
TearRecord(r) ==
  /\ MayFail
  /\ pc[r] \in {"phased", "finishing"}
  /\ record' = [record EXCEPT ![r] = Empty]
  /\ \/ pc' = [pc EXCEPT ![r] = "killed"] /\ UNCHANGED broken
     \/ pc' = [pc EXCEPT ![r] = After(r)] /\ broken' = [broken EXCEPT ![r] = TRUE]
  /\ UNCHANGED <<lock, fd, phase, listed, child, stopped, raced>>

(* kill, or the end of the terminal.                                       *)
Kill(r) ==
  /\ MayFail
  /\ pc[r] \notin Gone
  /\ pc' = [pc EXCEPT ![r] = "killed"]
  /\ UNCHANGED <<lock, fd, phase, record, listed, child, stopped, broken, raced>>

Next ==
  \E r \in Runners :
    \/ Check(r) \/ Unlink(r) \/ Open(r) \/ Fill(r) \/ ReadLock(r) \/ RemoveLock(r)
    \/ WritePhase(r) \/ WriteRecord(r) \/ Spawn(r) \/ ChildEnds(r) \/ Polled(r)
    \/ Interrupt(r) \/ Waited(r) \/ Finish(r) \/ List(r) \/ Raise(r) \/ TearRecord(r) \/ Kill(r)

Spec == Init /\ [][Next]_vars

-----------------------------------------------------------------------------
(* Properties.                                                             *)

(* The types of the state.                                                 *)
TypeOK ==
  /\ pc \in [Runners -> Gone \cup Acquiring \cup Holding \cup Releasing]
  /\ lock \in {None} \cup [id : Runners, pid : Runners \cup {Empty}]
  /\ fd \in [Runners -> Runners \cup {None}] /\ phase \in Marked \cup {None}
  /\ record \in [Runners -> {None, Empty, "running", "complete", "stopped", "failed"}]
  /\ listed \in Seq([test : Runners, status : {"complete", "stopped", "failed"}])
  /\ child \in [Runners -> [alive : SUBSET {"caffeinate", "workload"}, code : Codes \cup {130, None}]]
  /\ stopped \in [Runners -> BOOLEAN] /\ broken \in [Runners -> BOOLEAN] /\ raced \in BOOLEAN

(* "This prevents accidentally running two stress tests at the same time"  *)
(* (CHANGELOG_LEGACY.txt:315): as long as nobody has forced the lock, no   *)
(* two runners hold it.                                                    *)
Unforced == \A r \in Forced : pc[r] = "idle"

OneTestAtATime ==
  Unforced => \A r, o \in Runners : pc[r] \in Holding /\ pc[o] \in Holding => r = o

(* The race is the only way around the lock: as long as no runner was let  *)
(* past while another was between its look and its write, no two hold the  *)
(* lock, whoever was interrupted or killed at which step, and the rows of  *)
(* the power monitor carry the phase of the test that runs.                *)
TestsDoNotOverlap ==
  ~raced =>
    /\ OneTestAtATime
    /\ Unforced => \A r \in Marked : pc[r] \in Holding \ {"locked"} => phase = r

(* test_runs.jsonl against the records and the processes: a test is listed *)
(* once, with the status of its record; it is listed unless its runner was *)
(* killed or broken, and a record that still says running is of such a     *)
(* runner or of one that goes on.  Complete is only said of a workload     *)
(* that has ended with 0, and stopped of one that a signal has ended.      *)
FinishedTestsAreListed ==
  /\ \A i, j \in DOMAIN listed : listed[i].test = listed[j].test => i = j
  /\ \A i \in DOMAIN listed : listed[i].status = record[listed[i].test]
  /\ \A r \in Runners :
       /\ pc[r] \in Releasing \cup {"ended"} /\ ~broken[r] => \E i \in DOMAIN listed : listed[i].test = r
       /\ record[r] = "running" => pc[r] \in Holding \cup {"killed"} \/ broken[r]
       /\ record[r] = "complete" => child[r].alive = {} /\ child[r].code = 0
       /\ record[r] = "stopped" /\ ~stopped[r] => child[r].code = -15
=============================================================================
