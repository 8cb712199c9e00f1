-------------------------- MODULE TestRunnerProofs --------------------------
(***************************************************************************)
(* Proofs about TestRunner for any set of runners, any choice of forced    *)
(* and marked ones and any number of faults.                               *)
(***************************************************************************)
EXTENDS TestRunner, TLAPS

USE DEF Gone, Acquiring, Releasing, Holding, Codes, NoChild

-----------------------------------------------------------------------------
(* Types.                                                                  *)

\* Every initial state has the types.
LEMMA InitTypes == Init => TypeOK
<1> SUFFICES ASSUME Init PROVE TypeOK OBVIOUS
<1>1. raced \in BOOLEAN
  BY Zenon DEF Init
<1>2. /\ pc \in [Runners -> Gone] /\ lock = None /\ phase = None /\ listed = << >>
      /\ fd \in [Runners -> {None}] /\ record \in [Runners -> {None}]
      /\ child \in [Runners -> [alive : {{}}, code : {None}]]
  BY DEF Init
<1>3. stopped \in [Runners -> BOOLEAN] /\ broken \in [Runners -> BOOLEAN]
  BY DEF Init
<1> QED
  BY <1>1, <1>2, <1>3 DEF TypeOK

\* A record is final before it is listed.
ListedFinal == \A r \in Runners : pc[r] = "recorded" => record[r] \in {"complete", "stopped", "failed"}

\* No step leaves the types.
LEMMA StepTypes == TypeOK /\ ListedFinal /\ [Next]_vars => TypeOK'
<1> SUFFICES ASSUME TypeOK, ListedFinal, [Next]_vars PROVE TypeOK' OBVIOUS
<1> USE RunnersAssumption
<1>1. CASE UNCHANGED vars
  BY <1>1 DEF TypeOK, vars
<1>2. ASSUME NEW r \in Runners, Check(r) PROVE TypeOK'
  BY <1>2 DEF Check, Goes, Blocks, TypeOK
<1>3. ASSUME NEW r \in Runners, Unlink(r) PROVE TypeOK'
  BY <1>3 DEF Unlink, Goes, TypeOK
<1>4. ASSUME NEW r \in Runners, Open(r) PROVE TypeOK'
  BY <1>4 DEF Open, Goes, TypeOK
<1>5. ASSUME NEW r \in Runners, Fill(r) PROVE TypeOK'
  BY <1>5 DEF Fill, Goes, TypeOK
<1>6. ASSUME NEW r \in Runners, ReadLock(r) PROVE TypeOK'
  BY <1>6 DEF ReadLock, Goes, TypeOK
<1>7. ASSUME NEW r \in Runners, RemoveLock(r) PROVE TypeOK'
  BY <1>7 DEF RemoveLock, Goes, TypeOK
<1>8. ASSUME NEW r \in Runners, WritePhase(r) PROVE TypeOK'
  BY <1>8 DEF WritePhase, Goes, TypeOK
<1>9. ASSUME NEW r \in Runners, WriteRecord(r) PROVE TypeOK'
  BY <1>9 DEF WriteRecord, Goes, TypeOK
<1>10. ASSUME NEW r \in Runners, Spawn(r) PROVE TypeOK'
  BY <1>10 DEF Spawn, Goes, TypeOK
<1>11. ASSUME NEW r \in Runners, ChildEnds(r) PROVE TypeOK'
  BY <1>11 DEF ChildEnds, TypeOK
<1>12. ASSUME NEW r \in Runners, Polled(r) PROVE TypeOK'
  BY <1>12 DEF Polled, Goes, TypeOK
<1>13. ASSUME NEW r \in Runners, Interrupt(r) PROVE TypeOK'
  BY <1>13 DEF Interrupt, Goes, TypeOK
<1>14. ASSUME NEW r \in Runners, Waited(r) PROVE TypeOK'
  BY <1>14 DEF Waited, Goes, TypeOK
<1>15. ASSUME NEW r \in Runners, Finish(r) PROVE TypeOK'
  BY <1>15 DEF Finish, Status, Goes, TypeOK
<1>16. ASSUME NEW r \in Runners, List(r) PROVE TypeOK'
  <2> DEFINE line == [test |-> r, status |-> record[r]]
  <2> DEFINE Lines == [test : Runners, status : {"complete", "stopped", "failed"}]
  <2>1. line \in Lines
    BY <1>16 DEF List, Goes, ListedFinal
  <2>2. listed' = Append(listed, line) /\ listed \in Seq(Lines)
    BY <1>16 DEF List, TypeOK
  <2>3. listed' \in Seq(Lines)
    <3> HIDE DEF line, Lines
    <3> QED BY <2>1, <2>2
  <2> QED
    BY <1>16, <2>3 DEF List, Goes, TypeOK
<1>17. ASSUME NEW r \in Runners, Raise(r) PROVE TypeOK'
  BY <1>17 DEF Raise, After, TypeOK
<1>18. ASSUME NEW r \in Runners, TearRecord(r) PROVE TypeOK'
  <2>1. CASE pc' = [pc EXCEPT ![r] = "killed"] /\ UNCHANGED broken
    BY <1>18, <2>1 DEF TearRecord, TypeOK
  <2>2. CASE pc' = [pc EXCEPT ![r] = After(r)] /\ broken' = [broken EXCEPT ![r] = TRUE]
    <3>1. After(r) \in {"ended", "releasing"}
      BY DEF After
    <3> QED
      BY <1>18, <2>2, <3>1 DEF TearRecord, TypeOK
  <2> QED
    BY <1>18, <2>1, <2>2 DEF TearRecord
<1>19. ASSUME NEW r \in Runners, Kill(r) PROVE TypeOK'
  BY <1>19 DEF Kill, TypeOK
<1> QED
  BY <1>1, <1>2, <1>3, <1>4, <1>5, <1>6, <1>7, <1>8, <1>9, <1>10, <1>11, <1>12, <1>13, <1>14, <1>15, <1>16, <1>17, <1>18, <1>19 DEF Next

\* A record that is to be listed is final, and stays so.
LEMMA StepListedFinal == TypeOK /\ ListedFinal /\ [Next]_vars => ListedFinal'
<1> SUFFICES ASSUME TypeOK, ListedFinal, [Next]_vars PROVE ListedFinal' OBVIOUS
<1>1. CASE UNCHANGED vars
  BY <1>1 DEF ListedFinal, vars
<1>2. ASSUME NEW r \in Runners, Check(r) PROVE ListedFinal'
  BY <1>2 DEF Check, Goes, Blocks, TypeOK, ListedFinal
<1>3. ASSUME NEW r \in Runners, Unlink(r) PROVE ListedFinal'
  BY <1>3 DEF Unlink, Goes, TypeOK, ListedFinal
<1>4. ASSUME NEW r \in Runners, Open(r) PROVE ListedFinal'
  BY <1>4 DEF Open, Goes, TypeOK, ListedFinal
<1>5. ASSUME NEW r \in Runners, Fill(r) PROVE ListedFinal'
  BY <1>5 DEF Fill, Goes, TypeOK, ListedFinal
<1>6. ASSUME NEW r \in Runners, ReadLock(r) PROVE ListedFinal'
  BY <1>6 DEF ReadLock, Goes, TypeOK, ListedFinal
<1>7. ASSUME NEW r \in Runners, RemoveLock(r) PROVE ListedFinal'
  BY <1>7 DEF RemoveLock, Goes, TypeOK, ListedFinal
<1>8. ASSUME NEW r \in Runners, WritePhase(r) PROVE ListedFinal'
  BY <1>8 DEF WritePhase, Goes, TypeOK, ListedFinal
<1>9. ASSUME NEW r \in Runners, WriteRecord(r) PROVE ListedFinal'
  BY <1>9 DEF WriteRecord, Goes, TypeOK, ListedFinal
<1>10. ASSUME NEW r \in Runners, Spawn(r) PROVE ListedFinal'
  BY <1>10 DEF Spawn, Goes, TypeOK, ListedFinal
<1>11. ASSUME NEW r \in Runners, ChildEnds(r) PROVE ListedFinal'
  BY <1>11 DEF ChildEnds, TypeOK, ListedFinal
<1>12. ASSUME NEW r \in Runners, Polled(r) PROVE ListedFinal'
  BY <1>12 DEF Polled, Goes, TypeOK, ListedFinal
<1>13. ASSUME NEW r \in Runners, Interrupt(r) PROVE ListedFinal'
  BY <1>13 DEF Interrupt, Goes, TypeOK, ListedFinal
<1>14. ASSUME NEW r \in Runners, Waited(r) PROVE ListedFinal'
  BY <1>14 DEF Waited, Goes, TypeOK, ListedFinal
<1>15. ASSUME NEW r \in Runners, Finish(r) PROVE ListedFinal'
  BY <1>15 DEF Finish, Status, Goes, TypeOK, ListedFinal
<1>16. ASSUME NEW r \in Runners, List(r) PROVE ListedFinal'
  BY <1>16 DEF List, Goes, TypeOK, ListedFinal
<1>17. ASSUME NEW r \in Runners, Raise(r) PROVE ListedFinal'
  BY <1>17 DEF Raise, After, TypeOK, ListedFinal
<1>18. ASSUME NEW r \in Runners, TearRecord(r) PROVE ListedFinal'
  BY <1>18 DEF TearRecord, After, TypeOK, ListedFinal
<1>19. ASSUME NEW r \in Runners, Kill(r) PROVE ListedFinal'
  BY <1>19 DEF Kill, TypeOK, ListedFinal
<1> QED
  BY <1>1, <1>2, <1>3, <1>4, <1>5, <1>6, <1>7, <1>8, <1>9, <1>10, <1>11, <1>12, <1>13, <1>14, <1>15, <1>16, <1>17, <1>18, <1>19 DEF Next

\* Every reachable state has the types of its fields, for every set of runners.
THEOREM TypeCorrect == Spec => []TypeOK
<1>1. Init => TypeOK /\ ListedFinal
  BY InitTypes DEF Init, ListedFinal
<1>2. TypeOK /\ ListedFinal /\ [Next]_vars => (TypeOK /\ ListedFinal)'
  BY StepTypes, StepListedFinal
<1> QED
  BY <1>1, <1>2, PTL DEF Spec

-----------------------------------------------------------------------------
(* Exclusion.                                                              *)

Busy == Acquiring \cup {"unlinking"}

\* One runner at most is between the steps of taking the lock or of giving it back.
OneBusy == \A r, o \in Runners : pc[r] \in Busy /\ pc[o] \in Busy => r = o

\* The lock names every runner that has it.
OwnersAreNamed == \A r \in Runners : pc[r] \in Holding \cup Releasing => lock # None /\ lock.pid = r

\* Nobody takes a lock that has an owner.
NoneOwnsWhileTaken ==
  \A r, o \in Runners : pc[r] \in Acquiring => pc[o] \notin Holding \cup Releasing

\* The file a runner writes is the lock, and empty.
WritersHaveTheFile ==
  \A r \in Runners : pc[r] = "write" => lock # None /\ lock.id = fd[r] /\ lock.pid = Empty

PhaseIsTheOwners == \A r \in Marked : pc[r] \in Holding \ {"locked"} => phase = r

Exclusion == OneBusy /\ OwnersAreNamed /\ NoneOwnsWhileTaken /\ WritersHaveTheFile /\ PhaseIsTheOwners

\* A forced runner that has left its first state never returns to it.
LEMMA StaysForced == TypeOK /\ [Next]_vars /\ Unforced' => Unforced
<1> SUFFICES ASSUME TypeOK, [Next]_vars, NEW f \in Forced, pc[f] # "idle" PROVE pc'[f] # "idle"
  BY DEF Unforced
<1> USE RunnersAssumption
<1>1. CASE UNCHANGED vars
  BY <1>1 DEF vars
<1>2. ASSUME NEW r \in Runners, Check(r) PROVE pc'[f] # "idle"
  BY <1>2 DEF Check, Goes, Blocks, TypeOK
<1>3. ASSUME NEW r \in Runners, Unlink(r) PROVE pc'[f] # "idle"
  BY <1>3 DEF Unlink, Goes, TypeOK
<1>4. ASSUME NEW r \in Runners, Open(r) PROVE pc'[f] # "idle"
  BY <1>4 DEF Open, Goes, TypeOK
<1>5. ASSUME NEW r \in Runners, Fill(r) PROVE pc'[f] # "idle"
  BY <1>5 DEF Fill, Goes, TypeOK
<1>6. ASSUME NEW r \in Runners, ReadLock(r) PROVE pc'[f] # "idle"
  BY <1>6 DEF ReadLock, Goes, TypeOK
<1>7. ASSUME NEW r \in Runners, RemoveLock(r) PROVE pc'[f] # "idle"
  BY <1>7 DEF RemoveLock, Goes, TypeOK
<1>8. ASSUME NEW r \in Runners, WritePhase(r) PROVE pc'[f] # "idle"
  BY <1>8 DEF WritePhase, Goes, TypeOK
<1>9. ASSUME NEW r \in Runners, WriteRecord(r) PROVE pc'[f] # "idle"
  BY <1>9 DEF WriteRecord, Goes, TypeOK
<1>10. ASSUME NEW r \in Runners, Spawn(r) PROVE pc'[f] # "idle"
  BY <1>10 DEF Spawn, Goes, TypeOK
<1>11. ASSUME NEW r \in Runners, ChildEnds(r) PROVE pc'[f] # "idle"
  BY <1>11 DEF ChildEnds, TypeOK
<1>12. ASSUME NEW r \in Runners, Polled(r) PROVE pc'[f] # "idle"
  BY <1>12 DEF Polled, Goes, TypeOK
<1>13. ASSUME NEW r \in Runners, Interrupt(r) PROVE pc'[f] # "idle"
  BY <1>13 DEF Interrupt, Goes, TypeOK
<1>14. ASSUME NEW r \in Runners, Waited(r) PROVE pc'[f] # "idle"
  BY <1>14 DEF Waited, Goes, TypeOK
<1>15. ASSUME NEW r \in Runners, Finish(r) PROVE pc'[f] # "idle"
  BY <1>15 DEF Finish, Status, Goes, TypeOK
<1>16. ASSUME NEW r \in Runners, List(r) PROVE pc'[f] # "idle"
  BY <1>16 DEF List, Goes, TypeOK
<1>17. ASSUME NEW r \in Runners, Raise(r) PROVE pc'[f] # "idle"
  BY <1>17 DEF Raise, After, TypeOK
<1>18. ASSUME NEW r \in Runners, TearRecord(r) PROVE pc'[f] # "idle"
  BY <1>18 DEF TearRecord, After, TypeOK
<1>19. ASSUME NEW r \in Runners, Kill(r) PROVE pc'[f] # "idle"
  BY <1>19 DEF Kill, TypeOK
<1> QED
  BY <1>1, <1>2, <1>3, <1>4, <1>5, <1>6, <1>7, <1>8, <1>9, <1>10, <1>11, <1>12, <1>13, <1>14, <1>15, <1>16, <1>17, <1>18, <1>19 DEF Next

\* A race is never forgotten.
LEMMA StaysRaced == TypeOK /\ [Next]_vars /\ ~raced' => ~raced
  BY DEF Next, vars, TypeOK, Check, Unlink, Open, Fill, ReadLock, RemoveLock, WritePhase, WriteRecord, Spawn, ChildEnds,
         Polled, Interrupt, Waited, Finish, List, Raise, TearRecord, Kill

\* A step that is no race keeps the exclusion.
LEMMA StepExclusion ==
  ASSUME TypeOK, ListedFinal, Exclusion, Unforced, [Next]_vars, Unforced', ~raced'
  PROVE  Exclusion'
<1> USE RunnersAssumption
<1> USE DEF Exclusion, Busy, OneBusy, OwnersAreNamed, NoneOwnsWhileTaken, WritersHaveTheFile, PhaseIsTheOwners
<1>1. CASE UNCHANGED vars
  BY <1>1 DEF vars
<1>2. ASSUME NEW r \in Runners, Check(r) PROVE Exclusion'
  <2>1. UNCHANGED <<lock, fd, phase>> /\ pc[r] = "idle"
    BY <1>2 DEF Check, Goes
  <2>2. CASE pc' = [pc EXCEPT ![r] = "refused"]
    BY <2>1, <2>2 DEF TypeOK
  <2>3. ASSUME NEW reused \in BOOLEAN, ~Blocks(r, reused), NEW to \in {"open", "unlink"},
               pc' = [pc EXCEPT ![r] = to], raced' = (raced \/ ~Alone(r))
        PROVE  Exclusion'
    <3>1. \A o \in Runners : pc[o] \notin Busy
      BY <2>1, <2>3 DEF Alone
    <3>2. r \notin Forced
      BY <2>3 DEF Unforced, TypeOK
    <3>3. lock = None \/ lock.pid = Empty \/ pc[lock.pid] \in Gone
      BY <2>3, <3>2 DEF Blocks
    <3>4. \A o \in Runners : pc[o] \notin Holding \cup Releasing
      <4> SUFFICES ASSUME NEW o \in Runners, pc[o] \in Holding \cup Releasing PROVE FALSE OBVIOUS
      <4>1. lock # None /\ lock.pid = o  OBVIOUS
      <4> QED BY <4>1, <3>3
    <3> QED
      BY <2>1, <2>3, <3>1, <3>4 DEF TypeOK
  <2> QED
    BY <2>2, <2>3, <1>2 DEF Check, Goes
<1>3. ASSUME NEW r \in Runners, Unlink(r) PROVE Exclusion'
  BY <1>3 DEF Unlink, Goes, TypeOK, Alone, Unforced
<1>4. ASSUME NEW r \in Runners, Open(r) PROVE Exclusion'
  <2>1. /\ pc[r] = "open" /\ pc'[r] = "write"
        /\ \A o \in Runners : o # r => pc'[o] = pc[o] /\ fd'[o] = fd[o]
    BY <1>4 DEF Open, Goes, TypeOK
  <2>2. \A o \in Runners : o # r => pc[o] \notin Busy \cup Holding \cup Releasing
    BY <2>1
  <2>3. lock' = [id |-> IF lock # None THEN lock.id ELSE r, pid |-> Empty]
    BY <1>4 DEF Open
  <2>4. lock' # None /\ lock'.pid = Empty
    <3>1. lock' \in [id : Runners, pid : Runners \cup {Empty}] /\ lock'.pid = Empty  BY <2>3 DEF TypeOK
    <3> QED BY <3>1, MarksAssumption
  <2>5. fd'[r] = lock'.id
    BY <1>4 DEF Open, TypeOK
  <2> QED
    BY <2>1, <2>2, <2>4, <2>5
<1>5. ASSUME NEW r \in Runners, Fill(r) PROVE Exclusion'
  <2>1. /\ pc[r] = "write" /\ pc'[r] = "locked"
        /\ \A o \in Runners : o # r => pc'[o] = pc[o] /\ fd'[o] = fd[o]
    BY <1>5 DEF Fill, Goes, TypeOK
  <2>2. \A o \in Runners : o # r => pc[o] \notin Busy \cup Holding \cup Releasing
    BY <2>1
  <2>3. lock # None /\ lock.id = fd[r] /\ lock.pid = Empty
    BY <2>1
  <2>4. lock' = [lock EXCEPT !.pid = r]
    BY <1>5, <2>3 DEF Fill
  <2>5. lock' # None /\ lock'.pid = r
    <3>1. lock \in [id : Runners, pid : Runners \cup {Empty}]  BY <2>3 DEF TypeOK
    <3>2. lock' \in [id : Runners, pid : Runners \cup {Empty}] /\ lock'.pid = r  BY <2>4, <3>1
    <3> QED BY <3>2, MarksAssumption
  <2> QED
    BY <2>1, <2>2, <2>5
<1>6. ASSUME NEW r \in Runners, ReadLock(r) PROVE Exclusion'
  BY <1>6 DEF ReadLock, Goes, TypeOK, Alone, Unforced
<1>7. ASSUME NEW r \in Runners, RemoveLock(r) PROVE Exclusion'
  BY <1>7 DEF RemoveLock, Goes, TypeOK, Alone, Unforced
<1>8. ASSUME NEW r \in Runners, WritePhase(r) PROVE Exclusion'
  BY <1>8 DEF WritePhase, Goes, TypeOK, Alone, Unforced
<1>9. ASSUME NEW r \in Runners, WriteRecord(r) PROVE Exclusion'
  BY <1>9 DEF WriteRecord, Goes, TypeOK, Alone, Unforced
<1>10. ASSUME NEW r \in Runners, Spawn(r) PROVE Exclusion'
  BY <1>10 DEF Spawn, Goes, TypeOK, Alone, Unforced
<1>11. ASSUME NEW r \in Runners, ChildEnds(r) PROVE Exclusion'
  BY <1>11 DEF ChildEnds, TypeOK, Alone, Unforced
<1>12. ASSUME NEW r \in Runners, Polled(r) PROVE Exclusion'
  BY <1>12 DEF Polled, Goes, TypeOK, Alone, Unforced
<1>13. ASSUME NEW r \in Runners, Interrupt(r) PROVE Exclusion'
  BY <1>13 DEF Interrupt, Goes, TypeOK, Alone, Unforced
<1>14. ASSUME NEW r \in Runners, Waited(r) PROVE Exclusion'
  BY <1>14 DEF Waited, Goes, TypeOK, Alone, Unforced
<1>15. ASSUME NEW r \in Runners, Finish(r) PROVE Exclusion'
  BY <1>15 DEF Finish, Status, Goes, TypeOK, Alone, Unforced
<1>16. ASSUME NEW r \in Runners, List(r) PROVE Exclusion'
  BY <1>16 DEF List, Goes, TypeOK, Alone, Unforced
<1>17. ASSUME NEW r \in Runners, Raise(r) PROVE Exclusion'
  BY <1>17 DEF Raise, After, TypeOK, Alone, Unforced
<1>18. ASSUME NEW r \in Runners, TearRecord(r) PROVE Exclusion'
  BY <1>18 DEF TearRecord, After, TypeOK, Alone, Unforced
<1>19. ASSUME NEW r \in Runners, Kill(r) PROVE Exclusion'
  BY <1>19 DEF Kill, TypeOK, Alone, Unforced
<1> QED
  BY <1>1, <1>2, <1>3, <1>4, <1>5, <1>6, <1>7, <1>8, <1>9, <1>10, <1>11, <1>12, <1>13, <1>14, <1>15, <1>16, <1>17, <1>18, <1>19 DEF Next

\* The race is the only way around the lock, for any number of runners and
\* faults: before the first one tests do not overlap, and the phase is that of
\* the running test, whatever fails and is killed.
THEOREM TestsExclude == Spec => []TestsDoNotOverlap
<1> DEFINE IInv == TypeOK /\ ListedFinal /\ (Unforced /\ ~raced => Exclusion)
<1>1. Init => IInv
  BY RunnersAssumption, MarksAssumption, InitTypes
  DEF Init, ListedFinal, Exclusion, Busy, OneBusy, OwnersAreNamed, NoneOwnsWhileTaken, WritersHaveTheFile,
      PhaseIsTheOwners
<1>2. IInv /\ [Next]_vars => IInv'
  BY StepTypes, StepListedFinal, StaysForced, StaysRaced, StepExclusion
<1>3. IInv => TestsDoNotOverlap
  BY RunnersAssumption DEF Exclusion, OwnersAreNamed, PhaseIsTheOwners, TestsDoNotOverlap, OneTestAtATime, Unforced
<1> QED
  BY <1>1, <1>2, <1>3, PTL DEF Spec

-----------------------------------------------------------------------------
(* The list of tests.                                                      *)

Early == {"idle", "refused", "unlink", "open", "write", "locked", "phased", "ready"}
Late == {"recorded", "releasing", "unlinking", "ended", "killed"}

\* What each runner knows of its workload where it is.
WorkloadIsKnown ==
  \A r \in Runners :
    /\ pc[r] \in Early => child[r].alive = {} /\ child[r].code = None
    /\ child[r].code = 0 => child[r].alive = {}
    /\ child[r].code = 130 => stopped[r]
    /\ pc[r] = "stopping" => stopped[r]

\* A listed test is over and has one line, with the status of its record.
ListIsOfRecords ==
  /\ \A i, j \in DOMAIN listed : listed[i].test = listed[j].test => i = j
  /\ \A i \in DOMAIN listed :
       /\ pc[listed[i].test] \in Late \ {"recorded"}
       /\ listed[i].status = record[listed[i].test]

\* A final record is of a test that is over, and says how its workload ended.
RecordsAreTrue ==
  \A r \in Runners :
    /\ record[r] \in {"complete", "stopped", "failed"} => pc[r] \in Late
    /\ pc[r] \in Releasing \cup {"ended"} /\ ~broken[r] => \E i \in DOMAIN listed : listed[i].test = r
    /\ record[r] = "running" => pc[r] \in Holding \cup {"killed"} \/ broken[r]
    /\ record[r] = "complete" => child[r].alive = {} /\ child[r].code = 0
    /\ record[r] = "stopped" /\ ~stopped[r] => child[r].code = -15

Listing == WorkloadIsKnown /\ ListIsOfRecords /\ RecordsAreTrue

\* An element of a sequence is of the sequence's set.
LEMMA ElementType == ASSUME NEW S, NEW s \in Seq(S), NEW i \in DOMAIN s PROVE s[i] \in S
  OBVIOUS

\* The steps of the runners keep what they know of their workloads.
LEMMA StepWorkload == TypeOK /\ WorkloadIsKnown /\ [Next]_vars => WorkloadIsKnown'
<1> SUFFICES ASSUME TypeOK, WorkloadIsKnown, [Next]_vars PROVE WorkloadIsKnown' OBVIOUS
<1> USE MarksAssumption
<1> USE DEF WorkloadIsKnown, Early
<1>1. CASE UNCHANGED vars
  BY <1>1 DEF vars
<1>2. ASSUME NEW r \in Runners, Check(r) PROVE WorkloadIsKnown'
  <2>1. \E to \in {"refused", "open", "unlink"} : pc[r] = "idle" /\ pc' = [pc EXCEPT ![r] = to]
    BY <1>2 DEF Check, Goes
  <2>2. UNCHANGED <<lock, fd, phase, record, listed, child, stopped, broken>>
    BY <1>2 DEF Check
  <2> QED
    BY <2>1, <2>2 DEF TypeOK
<1>3. ASSUME NEW r \in Runners, Unlink(r) PROVE WorkloadIsKnown'
  BY <1>3 DEF Unlink, Goes, TypeOK
<1>4. ASSUME NEW r \in Runners, Open(r) PROVE WorkloadIsKnown'
  BY <1>4 DEF Open, Goes, TypeOK
<1>5. ASSUME NEW r \in Runners, Fill(r) PROVE WorkloadIsKnown'
  BY <1>5 DEF Fill, Goes, TypeOK
<1>6. ASSUME NEW r \in Runners, ReadLock(r) PROVE WorkloadIsKnown'
  BY <1>6 DEF ReadLock, Goes, TypeOK
<1>7. ASSUME NEW r \in Runners, RemoveLock(r) PROVE WorkloadIsKnown'
  BY <1>7 DEF RemoveLock, Goes, TypeOK
<1>8. ASSUME NEW r \in Runners, WritePhase(r) PROVE WorkloadIsKnown'
  BY <1>8 DEF WritePhase, Goes, TypeOK
<1>9. ASSUME NEW r \in Runners, WriteRecord(r) PROVE WorkloadIsKnown'
  BY <1>9 DEF WriteRecord, Goes, TypeOK
<1>10. ASSUME NEW r \in Runners, Spawn(r) PROVE WorkloadIsKnown'
  BY <1>10 DEF Spawn, Goes, TypeOK
<1>11. ASSUME NEW r \in Runners, ChildEnds(r) PROVE WorkloadIsKnown'
  BY <1>11 DEF ChildEnds, TypeOK
<1>12. ASSUME NEW r \in Runners, Polled(r) PROVE WorkloadIsKnown'
  BY <1>12 DEF Polled, Goes, TypeOK
<1>13. ASSUME NEW r \in Runners, Interrupt(r) PROVE WorkloadIsKnown'
  <2>1. PICK left \in SUBSET child[r].alive :
          child' = [child EXCEPT ![r] =
            [alive |-> left, code |-> IF child[r].code = None /\ "caffeinate" \notin left THEN -15 ELSE child[r].code]]
    BY <1>13 DEF Interrupt
  <2>2. /\ child'[r].alive = left /\ child'[r].code \in {child[r].code, -15}
        /\ child'[r].code = -15 => child[r].code \in {None, -15}
    BY <2>1 DEF TypeOK
  <2>3. \A o \in Runners : o # r => child'[o] = child[o] /\ pc'[o] = pc[o] /\ stopped'[o] = stopped[o]
    BY <1>13, <2>1 DEF Interrupt, Goes, TypeOK
  <2>4. pc'[r] = "stopping" /\ stopped'[r]
    BY <1>13 DEF Interrupt, Goes, TypeOK
  <2> QED
    BY <2>2, <2>3, <2>4
<1>14. ASSUME NEW r \in Runners, Waited(r) PROVE WorkloadIsKnown'
  BY <1>14 DEF Waited, Goes, TypeOK
<1>15. ASSUME NEW r \in Runners, Finish(r) PROVE WorkloadIsKnown'
  BY <1>15 DEF Finish, Status, Goes, TypeOK
<1>16. ASSUME NEW r \in Runners, List(r) PROVE WorkloadIsKnown'
  BY <1>16 DEF List, Goes, TypeOK
<1>17. ASSUME NEW r \in Runners, Raise(r) PROVE WorkloadIsKnown'
  BY <1>17 DEF Raise, After, TypeOK
<1>18. ASSUME NEW r \in Runners, TearRecord(r) PROVE WorkloadIsKnown'
  BY <1>18 DEF TearRecord, After, TypeOK
<1>19. ASSUME NEW r \in Runners, Kill(r) PROVE WorkloadIsKnown'
  BY <1>19 DEF Kill, TypeOK
<1> QED
  BY <1>1, <1>2, <1>3, <1>4, <1>5, <1>6, <1>7, <1>8, <1>9, <1>10, <1>11, <1>12, <1>13, <1>14, <1>15, <1>16, <1>17, <1>18, <1>19 DEF Next

\* They keep the list true to the records.
LEMMA StepList ==
  TypeOK /\ ListedFinal /\ ListIsOfRecords /\ [Next]_vars => ListIsOfRecords'
<1> SUFFICES ASSUME TypeOK, ListedFinal, ListIsOfRecords, [Next]_vars PROVE ListIsOfRecords' OBVIOUS
<1> USE DEF ListIsOfRecords, Late
<1>1. CASE UNCHANGED vars
  BY <1>1 DEF vars
<1>2. ASSUME NEW r \in Runners, Check(r) PROVE ListIsOfRecords'
  <2>1. \E to \in {"refused", "open", "unlink"} : pc[r] = "idle" /\ pc' = [pc EXCEPT ![r] = to]
    BY <1>2 DEF Check, Goes
  <2>2. UNCHANGED <<lock, fd, phase, record, listed, child, stopped, broken>>
    BY <1>2 DEF Check
  <2> QED
    BY <2>1, <2>2 DEF TypeOK
<1>3. ASSUME NEW r \in Runners, Unlink(r) PROVE ListIsOfRecords'
  BY <1>3 DEF Unlink, Goes, TypeOK
<1>4. ASSUME NEW r \in Runners, Open(r) PROVE ListIsOfRecords'
  BY <1>4 DEF Open, Goes, TypeOK
<1>5. ASSUME NEW r \in Runners, Fill(r) PROVE ListIsOfRecords'
  BY <1>5 DEF Fill, Goes, TypeOK
<1>6. ASSUME NEW r \in Runners, ReadLock(r) PROVE ListIsOfRecords'
  BY <1>6 DEF ReadLock, Goes, TypeOK
<1>7. ASSUME NEW r \in Runners, RemoveLock(r) PROVE ListIsOfRecords'
  BY <1>7 DEF RemoveLock, Goes, TypeOK
<1>8. ASSUME NEW r \in Runners, WritePhase(r) PROVE ListIsOfRecords'
  BY <1>8 DEF WritePhase, Goes, TypeOK
<1>9. ASSUME NEW r \in Runners, WriteRecord(r) PROVE ListIsOfRecords'
  BY <1>9 DEF WriteRecord, Goes, TypeOK
<1>10. ASSUME NEW r \in Runners, Spawn(r) PROVE ListIsOfRecords'
  BY <1>10 DEF Spawn, Goes, TypeOK
<1>11. ASSUME NEW r \in Runners, ChildEnds(r) PROVE ListIsOfRecords'
  BY <1>11 DEF ChildEnds, TypeOK
<1>12. ASSUME NEW r \in Runners, Polled(r) PROVE ListIsOfRecords'
  BY <1>12 DEF Polled, Goes, TypeOK
<1>13. ASSUME NEW r \in Runners, Interrupt(r) PROVE ListIsOfRecords'
  BY <1>13 DEF Interrupt, Goes, TypeOK
<1>14. ASSUME NEW r \in Runners, Waited(r) PROVE ListIsOfRecords'
  BY <1>14 DEF Waited, Goes, TypeOK
<1>15. ASSUME NEW r \in Runners, Finish(r) PROVE ListIsOfRecords'
  BY <1>15 DEF Finish, Status, Goes, TypeOK
<1>16. ASSUME NEW r \in Runners, List(r) PROVE ListIsOfRecords'
  BY <1>16 DEF List, Goes, TypeOK
<1>17. ASSUME NEW r \in Runners, Raise(r) PROVE ListIsOfRecords'
  BY <1>17 DEF Raise, After, TypeOK
<1>18. ASSUME NEW r \in Runners, TearRecord(r) PROVE ListIsOfRecords'
  <2>1. /\ pc[r] \in {"phased", "finishing"} /\ pc'[r] \in {"killed", "ended", "releasing"}
        /\ \A o \in Runners : o # r => pc'[o] = pc[o] /\ record'[o] = record[o]
    BY <1>18 DEF TearRecord, After, TypeOK
  <2>2. \A i \in DOMAIN listed : listed[i].test \in Runners /\ listed[i].test # r
    <3> SUFFICES ASSUME NEW i \in DOMAIN listed PROVE listed[i].test \in Runners /\ listed[i].test # r OBVIOUS
    <3>1. listed[i] \in [test : Runners, status : {"complete", "stopped", "failed"}]
      <4> DEFINE Lines == [test : Runners, status : {"complete", "stopped", "failed"}]
      <4>1. listed \in Seq(Lines)  BY DEF TypeOK
      <4> HIDE DEF Lines
      <4>2. listed[i] \in Lines  BY <4>1, ElementType
      <4> QED BY <4>2 DEF Lines
    <3>2. pc[listed[i].test] \notin {"phased", "finishing"}
      OBVIOUS
    <3> QED BY <3>1, <3>2, <2>1
  <2> QED
    BY <1>18, <2>1, <2>2 DEF TearRecord
<1>19. ASSUME NEW r \in Runners, Kill(r) PROVE ListIsOfRecords'
  BY <1>19 DEF Kill, TypeOK
<1> QED
  BY <1>1, <1>2, <1>3, <1>4, <1>5, <1>6, <1>7, <1>8, <1>9, <1>10, <1>11, <1>12, <1>13, <1>14, <1>15, <1>16, <1>17, <1>18, <1>19 DEF Next

\* They keep the records true to the workloads and complete in the list.
LEMMA StepRecords ==
  TypeOK /\ ListedFinal /\ Listing /\ [Next]_vars => RecordsAreTrue'
<1> SUFFICES ASSUME TypeOK, ListedFinal, Listing, [Next]_vars PROVE RecordsAreTrue' OBVIOUS
<1> USE MarksAssumption DEF Listing, WorkloadIsKnown, ListedFinal, RecordsAreTrue, Early, Late
<1>1. CASE UNCHANGED vars
  BY <1>1 DEF vars
<1>2. ASSUME NEW r \in Runners, Check(r) PROVE RecordsAreTrue'
  BY <1>2 DEF Check, Goes, Blocks, TypeOK
<1>3. ASSUME NEW r \in Runners, Unlink(r) PROVE RecordsAreTrue'
  BY <1>3 DEF Unlink, Goes, TypeOK
<1>4. ASSUME NEW r \in Runners, Open(r) PROVE RecordsAreTrue'
  BY <1>4 DEF Open, Goes, TypeOK
<1>5. ASSUME NEW r \in Runners, Fill(r) PROVE RecordsAreTrue'
  BY <1>5 DEF Fill, Goes, TypeOK
<1>6. ASSUME NEW r \in Runners, ReadLock(r) PROVE RecordsAreTrue'
  BY <1>6 DEF ReadLock, Goes, TypeOK
<1>7. ASSUME NEW r \in Runners, RemoveLock(r) PROVE RecordsAreTrue'
  BY <1>7 DEF RemoveLock, Goes, TypeOK
<1>8. ASSUME NEW r \in Runners, WritePhase(r) PROVE RecordsAreTrue'
  BY <1>8 DEF WritePhase, Goes, TypeOK
<1>9. ASSUME NEW r \in Runners, WriteRecord(r) PROVE RecordsAreTrue'
  BY <1>9 DEF WriteRecord, Goes, TypeOK
<1>10. ASSUME NEW r \in Runners, Spawn(r) PROVE RecordsAreTrue'
  BY <1>10 DEF Spawn, Goes, TypeOK
<1>11. ASSUME NEW r \in Runners, ChildEnds(r) PROVE RecordsAreTrue'
  BY <1>11 DEF ChildEnds, TypeOK
<1>12. ASSUME NEW r \in Runners, Polled(r) PROVE RecordsAreTrue'
  BY <1>12 DEF Polled, Goes, TypeOK
<1>13. ASSUME NEW r \in Runners, Interrupt(r) PROVE RecordsAreTrue'
  BY <1>13 DEF Interrupt, Goes, TypeOK
<1>14. ASSUME NEW r \in Runners, Waited(r) PROVE RecordsAreTrue'
  BY <1>14 DEF Waited, Goes, TypeOK
<1>15. ASSUME NEW r \in Runners, Finish(r) PROVE RecordsAreTrue'
  BY <1>15 DEF Finish, Status, Goes, TypeOK
<1>16. ASSUME NEW r \in Runners, List(r) PROVE RecordsAreTrue'
  <2>1. /\ pc[r] = "recorded" /\ pc'[r] = "releasing"
        /\ \A o \in Runners : o # r => pc'[o] = pc[o]
        /\ UNCHANGED <<record, child, stopped, broken>>
    BY <1>16 DEF List, Goes, TypeOK
  <2>2. /\ DOMAIN listed \subseteq DOMAIN listed' /\ \A i \in DOMAIN listed : listed'[i] = listed[i]
        /\ \E i \in DOMAIN listed' : listed'[i].test = r
    <3>1. listed' = Append(listed, [test |-> r, status |-> record[r]]) /\ listed \in Seq([test : Runners, status : {"complete", "stopped", "failed"}])
      BY <1>16 DEF List, TypeOK
    <3>2. Len(listed') = Len(listed) + 1 /\ DOMAIN listed = 1 .. Len(listed) /\ DOMAIN listed' = 1 .. Len(listed')
          /\ listed'[Len(listed')] = [test |-> r, status |-> record[r]] /\ Len(listed) \in Nat
          /\ \A i \in 1 .. Len(listed) : listed'[i] = listed[i]
      BY <3>1
    <3> QED
      BY <3>2
  <2>3. record[r] \in {"complete", "stopped", "failed"}
    BY <2>1
  <2> QED
    BY <2>1, <2>2, <2>3
<1>17. ASSUME NEW r \in Runners, Raise(r) PROVE RecordsAreTrue'
  BY <1>17 DEF Raise, After, TypeOK
<1>18. ASSUME NEW r \in Runners, TearRecord(r) PROVE RecordsAreTrue'
  <2>1. /\ pc[r] \in {"phased", "finishing"}
        /\ pc'[r] = "killed" \/ (pc'[r] \in {"ended", "releasing"} /\ broken'[r])
        /\ \A o \in Runners : o # r => pc'[o] = pc[o] /\ record'[o] = record[o] /\ broken'[o] = broken[o]
        /\ UNCHANGED <<listed, child, stopped>>
    BY <1>18 DEF TearRecord, After, TypeOK
  <2>2. record'[r] = Empty
    BY <1>18 DEF TearRecord, TypeOK
  <2>3. Empty \notin {"running", "complete", "stopped", "failed"}
    OBVIOUS
  <2> QED
    BY <2>1, <2>2, <2>3
<1>19. ASSUME NEW r \in Runners, Kill(r) PROVE RecordsAreTrue'
  BY <1>19 DEF Kill, TypeOK
<1> QED
  BY <1>1, <1>2, <1>3, <1>4, <1>5, <1>6, <1>7, <1>8, <1>9, <1>10, <1>11, <1>12, <1>13, <1>14, <1>15, <1>16, <1>17, <1>18, <1>19 DEF Next

\* A test is listed once with the status of its record, a test that ended is
\* listed, and the records say what became of the workloads, at any time.
THEOREM ListIsTrue == Spec => []FinishedTestsAreListed
<1> DEFINE IInv == TypeOK /\ ListedFinal /\ Listing
<1>1. Init => IInv
  <2> SUFFICES ASSUME Init PROVE IInv OBVIOUS
  <2>1. TypeOK /\ ListedFinal  BY InitTypes DEF Init, ListedFinal
  <2>2. WorkloadIsKnown  BY MarksAssumption DEF Init, WorkloadIsKnown
  <2>3. DOMAIN listed = {}  BY DEF Init
  <2>4. ListIsOfRecords  BY <2>3 DEF ListIsOfRecords
  <2>5. RecordsAreTrue  BY MarksAssumption DEF Init, RecordsAreTrue
  <2> QED  BY <2>1, <2>2, <2>4, <2>5 DEF Listing
<1>2. IInv /\ [Next]_vars => IInv'
  BY StepTypes, StepListedFinal, StepWorkload, StepList, StepRecords DEF Listing
<1>3. IInv => FinishedTestsAreListed
  BY DEF Listing, ListIsOfRecords, RecordsAreTrue, FinishedTestsAreListed
<1> QED
  BY <1>1, <1>2, <1>3, PTL DEF Spec
=============================================================================
