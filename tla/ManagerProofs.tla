---------------------------- MODULE ManagerProofs ----------------------------
(***************************************************************************)
(* Theorems about Manager, for every set of entries and clients, whatever  *)
(* the clients do (Polite or not) and whatever fails.                      *)
(***************************************************************************)
EXTENDS Manager, TLAPS

-----------------------------------------------------------------------------
(* The inductive invariant.                                                *)

\* Nothing has happened yet when Restore clears the live halves.
BootInv ==
    boot = "restore" =>
        /\ closing = "no"
        /\ \A i \in Ids : live[i] = NoLive
        /\ \A t \in Actors : pc[t] = "idle"

\* StopChildren starts at most one goroutine for an entry.
SweepInv ==
    \A i \in Ids : Busy(i) => closing \notin {"no", "requested"} /\ i \notin sweepLeft

\* Between taking opMu and returning, an operation holds it.
LockInv ==
    \A t \in Actors : pc[t] \in LockedSteps \ {"return"} => opMu[loc[t].id] = t

\* The run a stopChild captured is at most the latest one, and while it is the
\* latest one the stop request stands.  Its group is that run's group.
StopperInv ==
    \A t \in Actors : pc[t] \in StopSteps =>
        /\ loc[t].run \in Gens
        /\ loc[t].run <= live[loc[t].id].gen
        /\ loc[t].run = live[loc[t].id].gen => live[loc[t].id].stopReq
        /\ loc[t].job \in {Nil, loc[t].run}

\* An entry's group is its latest run's, and open until a stop is requested.
JobInv ==
    \A i \in Ids : live[i].job # Nil =>
        /\ live[i].job = live[i].gen
        /\ ~live[i].stopReq => group[i][live[i].job] = "open"

\* An exit code is there only after the latest run's waiter recorded it.
ExitInv ==
    \A i \in Ids : live[i].exit # "nil" =>
        /\ live[i].gen \in Gens
        /\ watcher[i][live[i].gen] \in {"recorded", "closed"}

RunsInv ==
    /\ StopperInv
    /\ JobInv
    /\ ExitInv
    /\ RunningIsOwned
    /\ OutcomeIsOfLatestRun
    /\ StopperOwnsGroup

IInv ==
    /\ TypeOK
    /\ BootInv
    /\ SweepInv
    /\ LockInv
    /\ RunsInv

-----------------------------------------------------------------------------
(* Types.                                                                  *)

USE DEF Nil, Gens, Actors

\* The bounds, and what they make of run and version numbers.
LEMMA Bounds == /\ MaxGen \in Nat /\ 0 \in 0..MaxGen
                /\ MaxVersion \in Nat /\ 0 \in 0..MaxVersion /\ 1 \in 0..MaxVersion
                /\ Gens \subseteq 0..MaxGen /\ 0 \notin Gens
  BY ConstantsAssumption

\* The assignments under e.mu yield live halves.
LEMMA LiveHalves ==
    ASSUME NEW e \in LiveType
    PROVE  /\ MarkFailed(e) \in LiveType
           /\ \A code \in Dead : Outcome(e, code) \in LiveType
           /\ \A waited \in BOOLEAN : Stopped(e, waited) \in LiveType
           /\ [e EXCEPT !.stopReq = TRUE] \in LiveType
           /\ \A g \in Gens : \A job \in {0, g} : Started(e, g, job) \in LiveType
<1>1. MarkFailed(e) \in LiveType
  <2>1. 0 \in 0..MaxGen
    BY Bounds
  <2> QED
    BY <2>1 DEF MarkFailed, LiveType, Statuses, Codes
<1>2. ASSUME NEW code \in Dead PROVE Outcome(e, code) \in LiveType
  BY Bounds DEF Outcome, Dead, LiveType, Statuses, Codes
<1>3. ASSUME NEW waited \in BOOLEAN PROVE Stopped(e, waited) \in LiveType
  BY Bounds DEF Stopped, LiveType, Statuses, Codes
<1>4. [e EXCEPT !.stopReq = TRUE] \in LiveType
  BY DEF LiveType
<1>5. ASSUME NEW g \in Gens, NEW job \in {0, g} PROVE Started(e, g, job) \in LiveType
  BY Bounds DEF Started, LiveType, Statuses, Codes
<1> QED
  BY <1>1, <1>2, <1>3, <1>4, <1>5

\* What spawn does, by type: whichever way the start goes.
LEMMA SpawnType ==
    ASSUME TypeOK, NEW i \in Ids, NEW marker \in BOOLEAN, Spawn(i, marker)
    PROVE  /\ live' \in [Ids -> LiveType]
           /\ logs' \subseteq Ids /\ collecting' \subseteq Ids
           /\ proc' \in [Ids -> [Gens -> ProcStates]]
           /\ watcher' \in [Ids -> [Gens -> {"none", "waiting", "recorded", "closed"}]]
           /\ group' \in [Ids -> [Gens -> {"none", "open", "closed"}]]
           /\ serverJob' \in {"none", "open", "done"}
           /\ inServer' \subseteq (Ids \X Gens)
           /\ noChildJobs' \in BOOLEAN
<1>0. live[i] \in LiveType
  BY DEF TypeOK
<1>1. CASE StartFails(i) /\ logs' \in {logs, logs \cup {i}} /\ collecting' = collecting
  <2>1. live' \in [Ids -> LiveType]
    BY <1>0, <1>1, LiveHalves DEF TypeOK, StartFails
  <2>2. logs' \subseteq Ids /\ collecting' \subseteq Ids
    BY <1>1 DEF TypeOK
  <2>3. UNCHANGED <<proc, watcher, group, serverJob, inServer, noChildJobs>>
    BY <1>1 DEF StartFails, runVars, groupVars
  <2> QED
    BY <2>1, <2>2, <2>3 DEF TypeOK
<1>2. CASE /\ StartSucceeds(i) /\ logs' = logs \cup {i}
           /\ collecting' \in {collecting, collecting \cup {i}}
  <2> DEFINE g == live[i].gen + 1
  <2>1. /\ g \in Gens
        /\ proc' = [proc EXCEPT ![i][g] = "up"]
        /\ watcher' = [watcher EXCEPT ![i][g] = "waiting"]
    BY <1>2 DEF StartSucceeds
  <2>2. PICK job \in {0, g} :
           /\ Contain(i, g, job)
           /\ live' = [live EXCEPT ![i] = Started(@, g, job)]
    BY <1>2 DEF StartSucceeds
  <2> HIDE DEF g
  <2>3. live' \in [Ids -> LiveType]
    BY <1>0, <2>1, <2>2, LiveHalves DEF TypeOK
  <2>4. /\ group' \in [Ids -> [Gens -> {"none", "open", "closed"}]]
        /\ noChildJobs' \in BOOLEAN
    BY <2>1, <2>2 DEF TypeOK, Contain
  <2>5. /\ serverJob' \in {"none", "open", "done"}
        /\ inServer' \subseteq (Ids \X Gens)
    BY <2>1, <2>2 DEF TypeOK, Contain, ServerGroup
  <2>6. /\ proc' \in [Ids -> [Gens -> ProcStates]]
        /\ watcher' \in [Ids -> [Gens -> {"none", "waiting", "recorded", "closed"}]]
        /\ logs' \subseteq Ids /\ collecting' \subseteq Ids
    BY <1>2, <2>1 DEF TypeOK, ProcStates
  <2> QED
    BY <2>3, <2>4, <2>5, <2>6
<1> QED
  BY <1>1, <1>2 DEF Spawn

\* Dooming a process yields a process state.
LEMMA DoomType ==
    ASSUME TypeOK, NEW i \in Ids, NEW g
    PROVE  Doom(i, g) \in [Ids -> [Gens -> ProcStates]]
  BY DEF TypeOK, Doom, ProcStates

\* Every step keeps the types: one step per action.
LEMMA TypeStep == TypeOK /\ [Next]_vars => TypeOK'
<1> SUFFICES ASSUME TypeOK, [Next]_vars PROVE TypeOK'
  OBVIOUS
<1> USE DEF regVars, logVars, runVars, groupVars, bootVars, closeVars
<1>1. ASSUME NEW t \in Clients, NEW op \in Operations, NEW i \in Ids, BeginRegister(t, op, i)
      PROVE TypeOK'
  BY <1>1, Bounds DEF TypeOK, BeginRegister, Begins, Goto, NoLoc, LocType, Steps, Busy
<1>2. ASSUME NEW t \in Clients, NEW op \in Operations, NEW i \in Ids, BeginCall(t, op, i)
      PROVE TypeOK'
  BY <1>2, Bounds DEF TypeOK, BeginCall, Begins, Goto, FirstStep, NoLoc, LocType, Steps, Busy
<1>3. ASSUME NEW t \in Actors, Edit(t) PROVE TypeOK'
  BY <1>3, Bounds DEF TypeOK, Edit, NextVersion, Goto, Steps, Busy
<1>4. ASSUME NEW t \in Actors, Snapshot(t) PROVE TypeOK'
  <2>1. /\ loc[t].id \in Ids /\ loc[t] \in LocType
        /\ version[loc[t].id] \in 0..MaxVersion
    BY <1>4 DEF TypeOK, Snapshot, Busy
  <2>2. [loc[t] EXCEPT !.ver = version[loc[t].id]] \in LocType
    BY <2>1 DEF LocType
  <2>3. loc' = [loc EXCEPT ![t] = [loc[t] EXCEPT !.ver = version[loc[t].id]]]
    BY <1>4 DEF Snapshot
  <2>4. /\ loc' \in [Actors -> LocType]
        /\ loc'[t].id = loc[t].id
        /\ \A u \in Actors \ {t} : loc'[u] = loc[u]
    BY <2>1, <2>2, <2>3 DEF TypeOK, LocType
  <2> QED
    BY <1>4, <2>1, <2>4 DEF TypeOK, Snapshot, Goto, Steps, Busy
<1>5. ASSUME NEW t \in Actors, Save(t) PROVE TypeOK'
  BY <1>5, Bounds DEF TypeOK, Save, WriteRow, AfterSave, Goto, LocType, Steps, LockedSteps, Busy
<1>6. ASSUME NEW t \in Actors, RegisterStart(t) PROVE TypeOK'
  BY <1>6, SpawnType DEF TypeOK, RegisterStart, Goto, Steps, LockedSteps, Busy
<1>7. ASSUME NEW t \in Actors, Lock(t) PROVE TypeOK'
  BY <1>7 DEF TypeOK, Lock, AfterLock, Goto, Steps, LockedSteps, Busy
<1>8. ASSUME NEW t \in Actors, SpawnStep(t) PROVE TypeOK'
  BY <1>8, SpawnType DEF TypeOK, SpawnStep, Goto, Steps, LockedSteps, Busy
<1>9. ASSUME NEW t \in Actors, StopBegin(t) PROVE TypeOK'
  <2> DEFINE i == loc[t].id
  <2>0. i \in Ids /\ live[i] \in LiveType /\ loc[t] \in LocType
    BY <1>9 DEF TypeOK, StopBegin, Busy
  <2>1. CASE live[i].status # "running"
    BY <1>9, <2>1 DEF TypeOK, StopBegin, AfterStop, Goto, Steps, LockedSteps, Busy
  <2>2. CASE live[i].status = "running"
    <3>1. live' \in [Ids -> LiveType]
      <4>1. live' = [live EXCEPT ![i] = [live[i] EXCEPT !.stopReq = TRUE]]
        BY <1>9, <2>2 DEF StopBegin
      <4>2. [live[i] EXCEPT !.stopReq = TRUE] \in LiveType
        BY <2>0, LiveHalves
      <4> QED
        BY <4>1, <4>2 DEF TypeOK
    <3>2. [loc[t] EXCEPT !.job = live[i].job, !.pid = live[i].pid, !.run = live[i].gen] \in LocType
      BY <2>0 DEF LocType, LiveType
    <3>3. loc' = [loc EXCEPT ![t] = [loc[t] EXCEPT !.job = live[i].job, !.pid = live[i].pid,
                                                    !.run = live[i].gen]]
      BY <1>9, <2>2 DEF StopBegin
    <3>4. /\ loc' \in [Actors -> LocType]
          /\ loc'[t].id = i
          /\ \A u \in Actors \ {t} : loc'[u] = loc[u]
      BY <2>0, <3>2, <3>3 DEF TypeOK, LocType
    <3> QED
      BY <1>9, <2>0, <2>2, <3>1, <3>4 DEF TypeOK, StopBegin, Goto, Steps, LockedSteps, StopSteps, Busy
  <2> QED
    BY <2>1, <2>2
<1>10. ASSUME NEW t \in Actors, Terminate(t) PROVE TypeOK'
  <2>1. loc[t].id \in Ids
    BY <1>10 DEF TypeOK, Terminate, Busy
  <2>2. proc' \in [Ids -> [Gens -> ProcStates]]
    BY <1>10, <2>1, DoomType DEF TypeOK, Terminate
  <2> QED
    BY <1>10, <2>2 DEF TypeOK, Terminate, Goto, Steps, LockedSteps, StopSteps, Busy
<1>11. ASSUME NEW t \in Actors, AwaitExit(t) PROVE TypeOK'
  <2>0. loc[t] \in LocType
    BY DEF TypeOK
  <2>1. [loc[t] EXCEPT !.waited = TRUE] \in LocType
    BY <2>0 DEF LocType
  <2>2. /\ loc' \in [Actors -> LocType]
        /\ \A u \in Actors : loc'[u].id = loc[u].id
    <3>1. CASE loc' = loc
      BY <3>1 DEF TypeOK
    <3>2. CASE loc' = [loc EXCEPT ![t] = [loc[t] EXCEPT !.waited = TRUE]]
      BY <3>2, <2>0, <2>1 DEF TypeOK, LocType
    <3> QED
      BY <1>11, <3>1, <3>2 DEF AwaitExit
  <2>3. pc' \in [Actors -> Steps] /\ \A u \in Actors \ {t} : pc'[u] = pc[u]
    BY <1>11 DEF TypeOK, AwaitExit, AfterTimeout, Goto, Steps, LockedSteps, StopSteps
  <2>4. Busy(t)
    BY <1>11 DEF AwaitExit, Busy
  <2> QED
    BY <1>11, <2>2, <2>3, <2>4 DEF TypeOK, AwaitExit, Busy
<1>12. ASSUME NEW t \in Actors, ForceStop(t) PROVE TypeOK'
  <2>1. loc[t].id \in Ids
    BY <1>12 DEF TypeOK, ForceStop, Busy
  <2>2. proc' \in [Ids -> [Gens -> ProcStates]]
    BY <1>12, <2>1, DoomType DEF ForceStop
  <2> QED
    BY <1>12, <2>2 DEF TypeOK, ForceStop, Goto, Steps, LockedSteps, StopSteps, Busy
<1>13. ASSUME NEW t \in Actors, Release(t) PROVE TypeOK'
  BY <1>13 DEF TypeOK, Release, Goto, Steps, LockedSteps, StopSteps, Busy
<1>14. ASSUME NEW t \in Actors, Finish(t) PROVE TypeOK'
  BY <1>14, LiveHalves DEF TypeOK, Finish, AfterStop, Goto, LocType, Steps, LockedSteps, Busy
<1>15. ASSUME NEW t \in Actors, Unmap(t) \/ RemoveLogs(t) PROVE TypeOK'
  <2>1. pc[t] # "idle" /\ \E step \in Steps : pc' = [pc EXCEPT ![t] = step]
    BY <1>15 DEF Unmap, RemoveLogs, Goto, Steps, LockedSteps
  <2>2. pc' \in [Actors -> Steps] /\ \A u \in Actors \ {t} : pc'[u] = pc[u]
    BY <2>1 DEF TypeOK
  <2>3. /\ registered' \subseteq Ids /\ logs' \subseteq Ids
        /\ collecting' \subseteq Ids /\ leftLogs' \subseteq Ids
    <3>1. loc[t].id \in Ids
      BY <2>1 DEF TypeOK, Busy
    <3> QED BY <1>15, <3>1 DEF TypeOK, Unmap, RemoveLogs
  <2> QED
    BY <1>15, <2>1, <2>2, <2>3 DEF TypeOK, Unmap, RemoveLogs, Busy
<1>27. ASSUME NEW t \in Actors, DeleteRow(t) PROVE TypeOK'
  <2>1. pc[t] = "deleteRow" /\ pc' = [pc EXCEPT ![t] = "removeLogs"] /\ loc[t].id \in Ids
    BY <1>27 DEF TypeOK, DeleteRow, Goto, Busy
  <2>2. pc' \in [Actors -> Steps] /\ \A u \in Actors \ {t} : pc'[u] = pc[u]
    BY <2>1 DEF TypeOK, Steps, LockedSteps
  <2>3. row' \in [Ids -> 0..MaxVersion] /\ unpersisted' \subseteq Ids
    BY <1>27, <2>1, Bounds DEF TypeOK, DeleteRow, WriteRow
  <2> QED
    BY <1>27, <2>1, <2>2, <2>3 DEF TypeOK, DeleteRow, Busy
<1>16. ASSUME NEW t \in Actors, Return(t) PROVE TypeOK'
  BY <1>16, Bounds DEF TypeOK, Return, Unlocked, NoLoc, LocType, Goto, Steps, Busy
<1>17. ASSUME NEW i \in Ids, NEW g \in Gens, Die(i, g) PROVE TypeOK'
  <2>1. \E s \in ProcStates : proc' = [proc EXCEPT ![i][g] = s]
    BY <1>17 DEF Die, ProcStates, Dead
  <2>2. proc' \in [Ids -> [Gens -> ProcStates]]
    BY <2>1 DEF TypeOK
  <2> QED
    BY <1>17, <2>2 DEF TypeOK, Die, Busy
<1>18. ASSUME NEW i \in Ids, NEW g \in Gens, Record(i, g) PROVE TypeOK'
  <2>1. live' \in [Ids -> LiveType]
    <3>1. live[i] \in LiveType /\ proc[i][g] \in Dead
      BY <1>18 DEF TypeOK, Record
    <3>2. Outcome(live[i], proc[i][g]) \in LiveType
      BY <3>1, LiveHalves
    <3> QED
      BY <1>18, <3>2 DEF TypeOK, Record
  <2>2. watcher' \in [Ids -> [Gens -> {"none", "waiting", "recorded", "closed"}]]
    BY <1>18 DEF TypeOK, Record
  <2>3. group' \in [Ids -> [Gens -> {"none", "open", "closed"}]]
    <3>1. group' = group \/ \E j \in Gens : group' = [group EXCEPT ![i][j] = "closed"]
      <4>1. live[i] \in LiveType
        BY DEF TypeOK
      <4>2. live[i].job # 0 => live[i].job \in Gens
        BY <4>1, Bounds DEF LiveType
      <4> QED
        BY <1>18, <4>2 DEF Record, ClosesGroup
    <3>2. group \in [Ids -> [Gens -> {"none", "open", "closed"}]]
      BY DEF TypeOK
    <3>3. ASSUME NEW j \in Gens, group' = [group EXCEPT ![i][j] = "closed"]
          PROVE group' \in [Ids -> [Gens -> {"none", "open", "closed"}]]
      BY <3>2, <3>3
    <3> QED
      BY <3>1, <3>2, <3>3
  <2> QED
    BY <1>18, <2>1, <2>2, <2>3 DEF TypeOK, Record, Busy
<1>19. ASSUME NEW i \in Ids, NEW g \in Gens, CloseExited(i, g) PROVE TypeOK'
  BY <1>19 DEF TypeOK, CloseExited, Busy
<1>28. ASSUME NEW i \in Ids, CollectorStep(i) PROVE TypeOK'
  BY <1>28 DEF TypeOK, CollectorStep, Rotate, CollectorEnds, Busy
<1>20. CASE Restore
  BY <1>20, Bounds DEF TypeOK, Restore, NoLive, LiveType, Statuses, Codes, Busy
<1>21. ASSUME NEW i \in Ids, AutoStart(i) PROVE TypeOK'
  BY <1>21, SpawnType DEF TypeOK, AutoStart, Busy
<1>22. CASE AutoStartEnds
  BY <1>22 DEF TypeOK, AutoStartEnds, Busy
<1>23. CASE RequestShutdown \/ StopChildren \/ SweepEnds \/ CloseDatabase \/ Exit
  BY <1>23 DEF TypeOK, RequestShutdown, StopChildren, SweepEnds, CloseDatabase, Exit, Busy
<1>24. ASSUME NEW i \in Ids, SweepEntry(i) PROVE TypeOK'
  <2>1. [NoLoc EXCEPT !.op = "sweep", !.id = i] \in LocType
    BY Bounds DEF NoLoc, LocType
  <2>2. /\ loc' \in [Actors -> LocType] /\ pc' \in [Actors -> Steps]
        /\ \A t \in Actors : pc'[t] # "idle" => loc'[t].id \in Ids
    <3>1. CASE pc' = pc /\ loc' = loc
      BY <3>1 DEF TypeOK, Busy
    <3>2. CASE /\ pc' = [pc EXCEPT ![i] = "lock"]
               /\ loc' = [loc EXCEPT ![i] = [NoLoc EXCEPT !.op = "sweep", !.id = i]]
      <4>1. [NoLoc EXCEPT !.op = "sweep", !.id = i].id = i
        BY DEF NoLoc
      <4> QED
        BY <2>1, <3>2, <4>1 DEF TypeOK, Steps, Busy
    <3> QED
      BY <1>24, <3>1, <3>2 DEF SweepEntry, Goto
  <2> QED
    BY <1>24, <2>2 DEF TypeOK, SweepEntry, Busy
<1>25. CASE CloseServerJob
  BY <1>25 DEF TypeOK, CloseServerJob, ProcStates, Busy
<1>26. CASE UNCHANGED vars
  BY <1>26 DEF TypeOK, vars, Busy
<1> QED
  BY <1>1, <1>2, <1>3, <1>4, <1>5, <1>6, <1>7, <1>8, <1>9, <1>10, <1>11, <1>12, <1>13,
     <1>14, <1>15, <1>16, <1>17, <1>18, <1>19, <1>20, <1>21, <1>22, <1>23, <1>24, <1>25,
     <1>26, <1>27, <1>28
  DEF Next, ActorStep, RunStep, BootStep, CloseStep, Gone

\* The initial states satisfy the invariant.
LEMMA InitIInv == Init => IInv
<1> SUFFICES ASSUME Init PROVE IInv
  OBVIOUS
<1>1. TypeOK
  BY Bounds, ConstantsAssumption
  DEF Init, TypeOK, NoLive, NoLoc, LiveType, LocType, Statuses, Codes, Steps, ProcStates, Busy
<1> QED
  BY <1>1 DEF Init, IInv, RunsInv, BootInv, SweepInv, LockInv, StopperInv, JobInv, ExitInv,
     RunningIsOwned, OutcomeIsOfLatestRun, StopperOwnsGroup, NoLive, Busy, LockedSteps,
     StopSteps

\* TypeOK, for every instance.
THEOREM TypeCorrect == Spec => []TypeOK
<1>1. Init => TypeOK
  BY InitIInv DEF IInv
<1> QED
  BY <1>1, TypeStep, PTL DEF Spec

-----------------------------------------------------------------------------
(* The lock, the boot and the goroutines of StopChildren.                  *)

\* A step of an actor that holds its lock already, or never enters the locked
\* section, leaves every lock where it is.
LEMMA LockFrame ==
    ASSUME LockInv, NEW t \in Actors, UNCHANGED opMu,
           pc'[t] \in LockedSteps \ {"return"} => pc[t] \in LockedSteps \ {"return"},
           loc'[t].id = loc[t].id \/ pc'[t] \notin LockedSteps,
           \A u \in Actors \ {t} : pc'[u] = pc[u] /\ loc'[u] = loc[u]
    PROVE  LockInv'
  BY DEF LockInv

\* Mutual exclusion of the locked sections survives every step.
LEMMA LockStep == TypeOK /\ LockInv /\ [Next]_vars => LockInv'
<1> SUFFICES ASSUME TypeOK, LockInv, [Next]_vars PROVE LockInv'
  OBVIOUS
<1> USE DEF regVars, runVars, groupVars, bootVars, closeVars, LockedSteps, StopSteps
<1>1. ASSUME NEW t \in Clients, NEW op \in Operations, NEW i \in Ids, BeginRegister(t, op, i) PROVE LockInv'
  BY <1>1, LockFrame DEF TypeOK, BeginRegister, Begins, Goto
<1>2. ASSUME NEW t \in Clients, NEW op \in Operations, NEW i \in Ids, BeginCall(t, op, i) PROVE LockInv'
  BY <1>2, LockFrame DEF TypeOK, BeginCall, Begins, FirstStep, Goto
<1>3. ASSUME NEW t \in Actors, Edit(t) PROVE LockInv'
  BY <1>3, LockFrame DEF TypeOK, Edit, Goto
<1>4. ASSUME NEW t \in Actors, Snapshot(t) PROVE LockInv'
  BY <1>4, LockFrame DEF TypeOK, Snapshot, Goto
<1>5. ASSUME NEW t \in Actors, Save(t) PROVE LockInv'
  BY <1>5, LockFrame DEF TypeOK, Save, AfterSave, Goto
<1>6. ASSUME NEW t \in Actors, RegisterStart(t) PROVE LockInv'
  BY <1>6, LockFrame DEF TypeOK, RegisterStart, Goto
<1>7. ASSUME NEW t \in Actors, Lock(t) PROVE LockInv'
  <2>1. loc[t].id \in Ids
    BY <1>7 DEF TypeOK, Lock, Busy
  <2>2. /\ opMu[loc[t].id] = None
        /\ opMu' = [opMu EXCEPT ![loc[t].id] = t]
        /\ loc' = loc /\ \A u \in Actors \ {t} : pc'[u] = pc[u]
    BY <1>7 DEF TypeOK, Lock, LockFree, Goto
  <2>3. \A u \in Actors : u # None
    BY ConstantsAssumption
  <2> QED
    <3>1. \A u \in Actors : pc'[u] \in LockedSteps \ {"return"} => opMu'[loc'[u].id] = u
      <4>1. ASSUME NEW u \in Actors, u # t, pc'[u] \in LockedSteps \ {"return"}
            PROVE  opMu'[loc'[u].id] = u
        <5>1. opMu[loc[u].id] = u
          BY <2>2, <4>1 DEF LockInv
        <5>2. loc[u].id # loc[t].id
          BY <2>2, <2>3, <5>1
        <5> QED
          BY <2>2, <5>1, <5>2
      <4>2. opMu'[loc'[t].id] = t
        BY <2>1, <2>2 DEF TypeOK
      <4> QED
        BY <4>1, <4>2
    <3> QED
      BY <3>1 DEF LockInv
<1>8. ASSUME NEW t \in Actors, SpawnStep(t) PROVE LockInv'
  BY <1>8, LockFrame DEF TypeOK, SpawnStep, Goto
<1>9. ASSUME NEW t \in Actors, StopBegin(t) PROVE LockInv'
  <2>1. UNCHANGED opMu /\ pc[t] = "stop" /\ \A u \in Actors \ {t} : pc'[u] = pc[u]
    BY <1>9 DEF TypeOK, StopBegin, Goto
  <2>2. loc'[t].id = loc[t].id /\ \A u \in Actors \ {t} : loc'[u] = loc[u]
    <3>1. \/ loc' = loc
          \/ loc' = [loc EXCEPT ![t] = [@ EXCEPT !.job = live[loc[t].id].job,
                                                 !.pid = live[loc[t].id].pid,
                                                 !.run = live[loc[t].id].gen]]
      BY <1>9 DEF StopBegin
    <3>2. loc[t] \in LocType /\ loc \in [Actors -> LocType]
      BY DEF TypeOK
    <3>3. ASSUME NEW j, NEW p, NEW r,
                 loc' = [loc EXCEPT ![t] = [@ EXCEPT !.job = j, !.pid = p, !.run = r]]
          PROVE  loc'[t].id = loc[t].id /\ \A u \in Actors \ {t} : loc'[u] = loc[u]
      BY <3>2, <3>3 DEF LocType
    <3> QED
      BY <3>1, <3>3
  <2> QED
    BY <2>1, <2>2, LockFrame
<1>10. ASSUME NEW t \in Actors, Terminate(t) PROVE LockInv'
  BY <1>10, LockFrame DEF TypeOK, Terminate, Goto
<1>11. ASSUME NEW t \in Actors, AwaitExit(t) PROVE LockInv'
  <2>1. UNCHANGED opMu /\ pc[t] \in StopSteps /\ \A u \in Actors \ {t} : pc'[u] = pc[u]
    BY <1>11 DEF TypeOK, AwaitExit, Goto
  <2>2. loc'[t].id = loc[t].id /\ \A u \in Actors \ {t} : loc'[u] = loc[u]
    BY <1>11 DEF TypeOK, LocType, AwaitExit
  <2> QED
    BY <2>1, <2>2, LockFrame
<1>12. ASSUME NEW t \in Actors, ForceStop(t) PROVE LockInv'
  BY <1>12, LockFrame DEF TypeOK, ForceStop, Goto
<1>13. ASSUME NEW t \in Actors, Release(t) PROVE LockInv'
  BY <1>13, LockFrame DEF TypeOK, Release, Goto
<1>14. ASSUME NEW t \in Actors, Finish(t) PROVE LockInv'
  BY <1>14, LockFrame DEF TypeOK, Finish, Goto
<1>15. ASSUME NEW t \in Actors, Unmap(t) PROVE LockInv'
  BY <1>15, LockFrame DEF TypeOK, Unmap, Goto
<1>16. ASSUME NEW t \in Actors, DeleteRow(t) PROVE LockInv'
  BY <1>16, LockFrame DEF TypeOK, DeleteRow, Goto
<1>17. ASSUME NEW t \in Actors, RemoveLogs(t) PROVE LockInv'
  BY <1>17, LockFrame DEF TypeOK, RemoveLogs, Goto
<1>18. ASSUME NEW t \in Actors, Return(t) PROVE LockInv'
  <2>1. pc' = [pc EXCEPT ![t] = "idle"] /\ loc' = [loc EXCEPT ![t] = NoLoc]
    BY <1>18 DEF Return, Goto
  <2>2. \A i \in Ids : opMu[i] # t => opMu'[i] = opMu[i]
    BY <1>18 DEF Return, Unlocked
  <2>3. \A u \in Actors : pc[u] # "idle" => loc[u].id \in Ids
    BY DEF TypeOK, Busy
  <2> QED
    BY <2>1, <2>2, <2>3 DEF TypeOK, LockInv
<1>19. ASSUME NEW i \in Ids, SweepEntry(i) PROVE LockInv'
  <2>1. CASE UNCHANGED <<pc, loc>>
    BY <1>19, <2>1 DEF SweepEntry, LockInv
  <2>2. CASE Goto(i, "lock") /\ loc' = [loc EXCEPT ![i] = [NoLoc EXCEPT !.op = "sweep", !.id = i]]
    BY <1>19, <2>2, LockFrame DEF TypeOK, SweepEntry, Goto
  <2> QED
    BY <1>19, <2>1, <2>2 DEF SweepEntry
<1>20. CASE UNCHANGED <<pc, loc, opMu>>
  BY <1>20 DEF LockInv
<1> QED
  BY <1>1, <1>2, <1>3, <1>4, <1>5, <1>6, <1>7, <1>8, <1>9, <1>10, <1>11, <1>12, <1>13,
     <1>14, <1>15, <1>16, <1>17, <1>18, <1>19, <1>20
  DEF Next, ActorStep, RunStep, BootStep, CloseStep, Gone, vars, Die, Record, CloseExited,
      CollectorStep, Rotate, CollectorEnds, Restore, AutoStart, AutoStartEnds, RequestShutdown,
      StopChildren, SweepEnds, CloseDatabase, CloseServerJob, Exit

\* Until Restore nothing happens at all.
LEMMA BootStepInv == TypeOK /\ BootInv /\ [Next]_vars => BootInv'
<1> SUFFICES ASSUME TypeOK, BootInv, [Next]_vars, boot' = "restore"
             PROVE  /\ closing' = "no"
                    /\ \A i \in Ids : live'[i] = NoLive
                    /\ \A t \in Actors : pc'[t] = "idle"
  BY DEF BootInv
<1> USE DEF regVars, runVars, groupVars, bootVars, closeVars
<1>1. boot = "restore"
  <2>1. ASSUME NEW t \in Clients, NEW op \in Operations, NEW i \in Ids,
               BeginRegister(t, op, i) \/ BeginCall(t, op, i)
        PROVE  boot' = boot
    BY <2>1 DEF BeginRegister, BeginCall, Begins
  <2>2. ASSUME NEW t \in Actors,
               Edit(t) \/ Snapshot(t) \/ Save(t) \/ RegisterStart(t) \/ Lock(t) \/ SpawnStep(t)
                   \/ Unmap(t) \/ DeleteRow(t) \/ RemoveLogs(t) \/ Return(t)
        PROVE  boot' = boot
    BY <2>2 DEF Edit, Snapshot, Save, RegisterStart, Lock, SpawnStep, Unmap, DeleteRow,
       RemoveLogs, Return
  <2>3. ASSUME NEW t \in Actors,
               StopBegin(t) \/ Terminate(t) \/ AwaitExit(t) \/ ForceStop(t) \/ Release(t)
                   \/ Finish(t)
        PROVE  boot' = boot
    BY <2>3 DEF StopBegin, Terminate, AwaitExit, ForceStop, Release, Finish
  <2>4. ASSUME NEW i \in Ids, NEW g \in Gens, RunStep(i, g) PROVE boot' = boot
    BY <2>4 DEF RunStep, Die, Record, CloseExited
  <2>5. CASE BootStep
    BY <2>5 DEF BootStep, Restore, AutoStart, AutoStartEnds
  <2>6. CASE RequestShutdown \/ CloseStep
    BY <2>6 DEF RequestShutdown, CloseStep, StopChildren, SweepEntry, SweepEnds, CloseDatabase,
       CloseServerJob, Exit
  <2>7. CASE Gone \/ UNCHANGED vars
    BY <2>7 DEF Gone, vars
  <2>8. ASSUME NEW i \in Ids, CollectorStep(i) PROVE boot' = boot
    BY <2>8 DEF CollectorStep, Rotate, CollectorEnds
  <2> QED
    BY <2>1, <2>2, <2>3, <2>4, <2>5, <2>6, <2>7, <2>8 DEF Next, ActorStep
<1>2. /\ closing = "no"
      /\ \A i \in Ids : live[i] = NoLive
      /\ \A t \in Actors : pc[t] = "idle"
  BY <1>1 DEF BootInv
<1>3. \/ \E i \in Ids, g \in Gens : RunStep(i, g)
      \/ \E i \in Ids : CollectorStep(i)
      \/ UNCHANGED vars
  <2>1. ASSUME NEW t \in Clients, NEW op \in Operations, NEW i \in Ids
        PROVE  ~BeginRegister(t, op, i) /\ ~BeginCall(t, op, i)
    BY <1>1 DEF BeginRegister, BeginCall, Begins
  <2>2. ASSUME NEW t \in Actors
        PROVE  ~ActorStep(t)
    <3>1. pc[t] = "idle"
      BY <1>2
    <3> QED
      BY <3>1 DEF ActorStep, Edit, Snapshot, Save, RegisterStart, Lock, SpawnStep, StopBegin,
         Terminate, AwaitExit, ForceStop, Release, Finish, Unmap, DeleteRow, RemoveLogs, Return
  <2>3. ~BootStep
    BY <1>1 DEF BootStep, Restore, AutoStart, AutoStartEnds
  <2>4. ~RequestShutdown /\ ~CloseStep
    BY <1>1, <1>2 DEF RequestShutdown, CloseStep, StopChildren, SweepEntry, SweepEnds,
       CloseDatabase, CloseServerJob, Exit
  <2> QED
    BY <2>1, <2>2, <2>3, <2>4 DEF Next, Gone
<1>4. ASSUME NEW i \in Ids, NEW g \in Gens, RunStep(i, g)
      PROVE  UNCHANGED <<closing, live, pc>>
  <2>1. g # 0 /\ live[i].gen = 0
    BY <1>2, Bounds DEF NoLive
  <2> QED
    BY <1>4, <2>1 DEF RunStep, Die, Record, Current, CloseExited
<1>5. UNCHANGED <<closing, live, pc>>
  BY <1>3, <1>4 DEF vars, CollectorStep, Rotate, CollectorEnds
<1> QED
  BY <1>2, <1>5

\* StopChildren starts at most one goroutine for an entry, on every path.
LEMMA SweepStep == TypeOK /\ SweepInv /\ [Next]_vars => SweepInv'
<1> SUFFICES ASSUME TypeOK, SweepInv, [Next]_vars PROVE SweepInv'
  OBVIOUS
<1> USE DEF regVars, runVars, groupVars, bootVars, closeVars, Busy
<1>0. \A t \in Clients : t \notin Ids
  BY ConstantsAssumption
<1>1. ASSUME NEW t \in Clients, NEW op \in Operations, NEW i \in Ids,
             BeginRegister(t, op, i) \/ BeginCall(t, op, i)
      PROVE SweepInv'
  BY <1>0, <1>1 DEF TypeOK, SweepInv, BeginRegister, BeginCall, Begins, Goto
<1>2. ASSUME NEW t \in Actors, ActorStep(t) PROVE SweepInv'
  <2>1. pc[t] # "idle" /\ UNCHANGED closeVars
    BY <1>2 DEF ActorStep, Edit, Snapshot, Save, RegisterStart, Lock, SpawnStep, StopBegin,
       Terminate, AwaitExit, ForceStop, Release, Finish, Unmap, DeleteRow, RemoveLogs, Return
  <2>2. \E step : pc' = [pc EXCEPT ![t] = step]
    BY <1>2 DEF ActorStep, Goto, Edit, Snapshot, Save, RegisterStart, Lock, SpawnStep,
       StopBegin, Terminate, AwaitExit, ForceStop, Release, Finish, Unmap, DeleteRow,
       RemoveLogs, Return
  <2>3. \A u \in Actors \ {t} : pc'[u] = pc[u]
    BY <2>2 DEF TypeOK
  <2> QED
    BY <2>1, <2>3 DEF SweepInv
<1>3. ASSUME NEW i \in Ids, SweepEntry(i) PROVE SweepInv'
  BY <1>3 DEF TypeOK, SweepInv, SweepEntry, Goto
<1>4. CASE StopChildren
  BY <1>4 DEF SweepInv, StopChildren
<1>5. CASE SweepEnds \/ CloseDatabase \/ CloseServerJob \/ Exit \/ RequestShutdown
  BY <1>5 DEF SweepInv, SweepEnds, CloseDatabase, CloseServerJob, Exit, RequestShutdown
<1>6. CASE UNCHANGED <<pc, closing, sweepLeft>>
  BY <1>6 DEF SweepInv
<1> QED
  BY <1>1, <1>2, <1>3, <1>4, <1>5, <1>6
  DEF Next, RunStep, BootStep, CloseStep, Gone, vars, Die, Record, CloseExited,
      CollectorStep, Rotate, CollectorEnds, Restore, AutoStart, AutoStartEnds

-----------------------------------------------------------------------------
(* Runs, their waiters and those who stop them.                            *)

\* Nobody enters, leaves or moves within stopChild.
StopFrame ==
    \A u \in Actors : pc[u] \in StopSteps \/ pc'[u] \in StopSteps =>
        pc'[u] = pc[u] /\ loc'[u] = loc[u]

\* A process that ended stays what it is.
DeadStay == \A i \in Ids, g \in Gens : proc[i][g] \in Dead => proc'[i][g] = proc[i][g]

\* An outcome stays that of its run where neither is touched.
LEMMA OutcomeKept ==
    ASSUME TypeOK, OutcomeIsOfLatestRun, DeadStay, UNCHANGED live
    PROVE  OutcomeIsOfLatestRun'
<1>1. \A i \in Ids : live[i].exit # "nil" => live[i].exit \in Dead
  BY DEF TypeOK, LiveType, Codes, Dead
<1> QED
  BY <1>1 DEF OutcomeIsOfLatestRun, DeadStay

\* A step that leaves the runs and their stoppers alone keeps what is said of them.
LEMMA RunsQuiet ==
    ASSUME TypeOK, RunsInv, StopFrame, DeadStay, UNCHANGED <<live, watcher, group>>
    PROVE  RunsInv'
<1>1. StopperInv' /\ StopperOwnsGroup'
  BY DEF RunsInv, StopFrame, StopperInv, StopperOwnsGroup
<1>2. JobInv' /\ ExitInv' /\ OutcomeIsOfLatestRun'
  BY OutcomeKept DEF RunsInv, JobInv, ExitInv
<1>3. RunningIsOwned'
  BY DEF RunsInv, StopFrame, RunningIsOwned, Stopping
<1> QED
  BY <1>1, <1>2, <1>3 DEF RunsInv

\* A start, whoever makes it and whatever stopChild is under way.
LEMMA RunsSpawn ==
    ASSUME TypeOK, RunsInv, StopFrame, NEW i \in Ids, NEW marker \in BOOLEAN,
           Spawn(i, marker)
    PROVE  RunsInv'
<1>0. /\ live \in [Ids -> LiveType] /\ live[i] \in LiveType
      /\ live[i].gen \in 0..MaxGen
      /\ \A t \in Actors : pc[t] \in StopSteps => loc[t].id \in Ids
  BY DEF TypeOK, LiveType, Busy, StopSteps
<1>1. CASE StartFails(i)
  <2>1. /\ \A j \in Ids \ {i} : live'[j] = live[j]
        /\ live'[i].status = "failed" /\ live'[i].exit = "nil"
        /\ live'[i].gen = live[i].gen /\ live'[i].job = live[i].job
        /\ live'[i].stopReq = live[i].stopReq
        /\ UNCHANGED <<proc, watcher, group>>
    BY <1>0, <1>1 DEF StartFails, MarkFailed, LiveType, runVars
  <2>2. StopperInv' /\ StopperOwnsGroup'
    BY <1>0, <2>1 DEF RunsInv, StopFrame, StopperInv, StopperOwnsGroup
  <2>3. JobInv' /\ ExitInv' /\ OutcomeIsOfLatestRun'
    BY <2>1 DEF RunsInv, JobInv, ExitInv, OutcomeIsOfLatestRun
  <2>4. RunningIsOwned'
    BY <2>1 DEF RunsInv, StopFrame, RunningIsOwned, Stopping
  <2> QED
    BY <2>2, <2>3, <2>4 DEF RunsInv
<1>2. CASE StartSucceeds(i)
  <2> DEFINE g == live[i].gen + 1
  <2>1. /\ g \in Gens
        /\ proc' = [proc EXCEPT ![i][g] = "up"]
        /\ watcher' = [watcher EXCEPT ![i][g] = "waiting"]
    BY <1>2 DEF StartSucceeds
  <2>2. PICK job \in {0, g} :
           /\ Contain(i, g, job)
           /\ live' = [live EXCEPT ![i] = Started(@, g, job)]
    BY <1>2 DEF StartSucceeds
  <2>3. live[i].gen < g
    BY <1>0, Bounds
  <2> HIDE DEF g
  <2>4. /\ \A j \in Ids \ {i} : live'[j] = live[j]
        /\ live'[i] = [status |-> "running", pid |-> g, exit |-> "nil", stopReq |-> FALSE,
                       job |-> job, gen |-> g]
    BY <1>0, <2>2 DEF Started
  <2>5. /\ \A j \in Ids, h \in Gens : group[j][h] = "open" => group'[j][h] = "open"
        /\ job # 0 => group'[i][job] = "open"
    BY <2>1, <2>2 DEF TypeOK, Contain
  <2>6. /\ \A j \in Ids \ {i} : proc'[j] = proc[j] /\ watcher'[j] = watcher[j]
        /\ watcher'[i][g] = "waiting"
    BY <2>1 DEF TypeOK
  <2>7. StopperInv'
    BY <1>0, <2>1, <2>3, <2>4 DEF RunsInv, StopFrame, StopperInv
  <2>8. StopperOwnsGroup'
    BY <1>0, <2>5, Bounds DEF RunsInv, StopFrame, StopperInv, StopperOwnsGroup
  <2>9. JobInv'
    BY <1>0, <2>1, <2>2, <2>4, <2>5, Bounds DEF RunsInv, JobInv, LiveType
  <2>10. ExitInv' /\ OutcomeIsOfLatestRun'
    BY <2>4, <2>6 DEF RunsInv, ExitInv, OutcomeIsOfLatestRun
  <2>11. RunningIsOwned'
    BY <2>1, <2>4, <2>6 DEF RunsInv, StopFrame, RunningIsOwned, Stopping
  <2> QED
    BY <2>7, <2>8, <2>9, <2>10, <2>11 DEF RunsInv
<1> QED
  BY <1>1, <1>2 DEF Spawn

\* stopChild moves on without touching the entry: it signals or it waits.
LEMMA RunsStopperMoves ==
    ASSUME TypeOK, RunsInv, DeadStay, UNCHANGED <<live, watcher, group>>, NEW t \in Actors,
           pc[t] \in StopSteps \ {"finish"}, pc'[t] \in StopSteps,
           loc'[t].id = loc[t].id, loc'[t].run = loc[t].run, loc'[t].job = loc[t].job,
           \A u \in Actors \ {t} : pc'[u] = pc[u] /\ loc'[u] = loc[u]
    PROVE  RunsInv'
<1>1. StopperInv'
  BY DEF RunsInv, StopperInv
<1>2. StopperOwnsGroup'
  BY DEF RunsInv, StopperOwnsGroup
<1>3. JobInv' /\ ExitInv' /\ OutcomeIsOfLatestRun'
  BY OutcomeKept DEF RunsInv, JobInv, ExitInv
<1>4. RunningIsOwned'
  <2>1. \A u \in Actors, i \in Ids : Stopping(u, i) => Stopping(u, i)' /\ loc'[u].run = loc[u].run
    BY DEF Stopping
  <2> QED
    BY <2>1 DEF RunsInv, RunningIsOwned
<1> QED
  BY <1>1, <1>2, <1>3, <1>4 DEF RunsInv

\* The waiter records: if the run is the latest one and nobody asked for a stop,
\* no stopChild holds the group it closes.
LEMMA RunsRecord ==
    ASSUME TypeOK, RunsInv, NEW i \in Ids, NEW g \in Gens, Record(i, g)
    PROVE  RunsInv'
<1>0. /\ live[i] \in LiveType /\ proc[i][g] \in Dead
      /\ watcher[i][g] = "waiting"
      /\ watcher' = [watcher EXCEPT ![i][g] = "recorded"]
      /\ UNCHANGED <<pc, loc, proc>>
      /\ \A t \in Actors : pc[t] \in StopSteps => loc[t].id \in Ids
  BY DEF TypeOK, Record, Busy, StopSteps
<1>w. /\ watcher'[i][g] = "recorded"
      /\ \A j \in Ids, h \in Gens : j # i \/ h # g => watcher'[j][h] = watcher[j][h]
      /\ \A j \in Ids, h \in Gens : watcher[j][h] \in {"recorded", "closed"}
                                       => watcher'[j][h] \in {"recorded", "closed"}
  BY <1>0 DEF TypeOK
<1>1. CASE live[i].gen # g
  <2>1. UNCHANGED <<live, group>>
    BY <1>1 DEF Record, Current
  <2>2. StopperInv' /\ StopperOwnsGroup' /\ JobInv' /\ OutcomeIsOfLatestRun'
    BY <1>0, <2>1 DEF RunsInv, StopperInv, StopperOwnsGroup, JobInv, OutcomeIsOfLatestRun
  <2>3. ExitInv'
    BY <1>w, <2>1 DEF RunsInv, ExitInv
  <2>4. RunningIsOwned'
    BY <1>0, <1>1, <1>w, <2>1 DEF RunsInv, RunningIsOwned, Stopping
  <2> QED
    BY <2>2, <2>3, <2>4 DEF RunsInv
<1>2. CASE live[i].gen = g
  <2>1. /\ live' = [live EXCEPT ![i] = Outcome(@, proc[i][g])]
        /\ group' = IF ClosesGroup(live[i])
                    THEN [group EXCEPT ![i][live[i].job] = "closed"] ELSE group
    BY <1>2 DEF Record, Current
  <2>2. /\ \A j \in Ids \ {i} : live'[j] = live[j]
        /\ live'[i].gen = g /\ live'[i].pid = live[i].pid
        /\ live'[i].stopReq = live[i].stopReq
        /\ live'[i].exit = proc[i][g]
        /\ live[i].stopReq => live'[i].status = live[i].status /\ live'[i].job = live[i].job
        /\ ~live[i].stopReq => /\ live'[i].job = 0
                               /\ live'[i].status \in {"exited", "killed"}
                               /\ live'[i].status = "exited" => proc[i][g] = "zero"
                               /\ live'[i].status = "killed" => proc[i][g] = "nonzero"
    BY <1>0, <1>2, <2>1 DEF TypeOK, Outcome, LiveType, Dead
  <2>3. /\ live[i].stopReq => group' = group
        /\ \A j \in Ids \ {i} : group'[j] = group[j]
        /\ \A h \in Gens : h # live[i].job => group'[i][h] = group[i][h]
    BY <2>1 DEF TypeOK, ClosesGroup
  <2>4. StopperInv'
    BY <1>0, <1>2, <2>2 DEF RunsInv, StopperInv
  <2>5. StopperOwnsGroup'
    <3> SUFFICES ASSUME NEW t \in Actors, pc'[t] \in StopSteps \ {"finish"}, loc'[t].job # 0
                 PROVE  group'[loc'[t].id][loc'[t].job] = "open"
      BY DEF StopperOwnsGroup
    <3>1. /\ pc[t] \in StopSteps /\ loc'[t] = loc[t] /\ loc[t].id \in Ids
          /\ group[loc[t].id][loc[t].job] = "open"
          /\ loc[t].job = loc[t].run /\ loc[t].run \in Gens
          /\ loc[t].run = live[loc[t].id].gen => live[loc[t].id].stopReq
      BY <1>0 DEF RunsInv, StopperInv, StopperOwnsGroup
    <3>2. loc[t].id = i /\ loc[t].job = live[i].job => live[i].stopReq
      BY <3>1, Bounds DEF RunsInv, JobInv
    <3> QED
      BY <3>1, <3>2, <2>3
  <2>6. JobInv'
    BY <1>2, <2>2, <2>3 DEF RunsInv, JobInv
  <2>7. ExitInv'
    BY <1>w, <2>2 DEF RunsInv, ExitInv
  <2>8. OutcomeIsOfLatestRun'
    <3>1. ~(live[i].status \in {"exited", "killed"})
      BY <1>0, <1>2 DEF RunsInv, ExitInv, OutcomeIsOfLatestRun
    <3> QED
      BY <1>0, <2>2, <3>1 DEF RunsInv, OutcomeIsOfLatestRun
  <2>9. RunningIsOwned'
    BY <1>0, <1>2, <1>w, <2>2 DEF RunsInv, RunningIsOwned, Stopping
  <2> QED
    BY <2>4, <2>5, <2>6, <2>7, <2>8, <2>9 DEF RunsInv
<1> QED
  BY <1>1, <1>2

\* Closing exited releases those who wait, and changes no outcome.
LEMMA RunsCloseExited ==
    ASSUME TypeOK, RunsInv, NEW i \in Ids, NEW g \in Gens, CloseExited(i, g)
    PROVE  RunsInv'
<1>1. /\ UNCHANGED <<live, group, pc, loc, proc>>
      /\ \A j \in Ids, h \in Gens :
            /\ watcher[j][h] = "waiting" => watcher'[j][h] = "waiting"
            /\ watcher[j][h] \in {"recorded", "closed"} => watcher'[j][h] \in {"recorded", "closed"}
  BY DEF CloseExited, TypeOK
<1>2. StopperInv' /\ StopperOwnsGroup' /\ JobInv' /\ OutcomeIsOfLatestRun'
  BY <1>1 DEF RunsInv, StopperInv, StopperOwnsGroup, JobInv, OutcomeIsOfLatestRun
<1>3. ExitInv' /\ RunningIsOwned'
  BY <1>1 DEF RunsInv, ExitInv, RunningIsOwned, Stopping
<1> QED
  BY <1>2, <1>3 DEF RunsInv

\* stopChild captures the run, its group and its pid.  No stop stands yet: the
\* one who asked for it would hold the lock.
LEMMA RunsStopBegin ==
    ASSUME TypeOK, LockInv, RunsInv, NEW t \in Actors, StopBegin(t)
    PROVE  RunsInv'
<1> DEFINE i == loc[t].id
<1>0. /\ pc[t] = "stop" /\ i \in Ids /\ live[i] \in LiveType /\ loc[t] \in LocType
      /\ UNCHANGED <<group, proc, watcher>>
      /\ \A u \in Actors \ {t} : pc'[u] = pc[u]
  BY DEF TypeOK, StopBegin, Busy, Goto, runVars
<1>1. CASE live[i].status # "running"
  <2>1. UNCHANGED <<live, loc>> /\ pc'[t] \notin StopSteps
    BY <1>0, <1>1 DEF TypeOK, StopBegin, AfterStop, StopSteps, Goto
  <2>2. StopFrame /\ DeadStay
    BY <1>0, <2>1 DEF StopFrame, DeadStay, StopSteps
  <2> QED
    BY <1>0, <2>1, <2>2, RunsQuiet
<1>2. CASE live[i].status = "running"
  <2>1. /\ live' = [live EXCEPT ![i].stopReq = TRUE]
        /\ loc' = [loc EXCEPT ![t] = [@ EXCEPT !.job = live[i].job,
                                               !.pid = live[i].pid,
                                               !.run = live[i].gen]]
        /\ pc' = [pc EXCEPT ![t] = "terminate"]
    BY <1>2 DEF StopBegin, Goto
  <2>2. /\ \A j \in Ids \ {i} : live'[j] = live[j]
        /\ live'[i].gen = live[i].gen /\ live'[i].pid = live[i].pid
        /\ live'[i].exit = live[i].exit /\ live'[i].status = live[i].status
        /\ live'[i].job = live[i].job /\ live'[i].stopReq = TRUE
    BY <1>0, <2>1 DEF TypeOK, LiveType
  <2>3. /\ \A u \in Actors \ {t} : loc'[u] = loc[u]
        /\ loc'[t].id = i /\ loc'[t].job = live[i].job /\ loc'[t].run = live[i].gen
        /\ pc'[t] = "terminate"
    BY <1>0, <2>1 DEF TypeOK, LocType
  <2>4. \A u \in Actors : pc[u] \in StopSteps => loc[u].id # i
    <3>1. \A u \in Actors : pc[u] \in LockedSteps \ {"return"} => opMu[loc[u].id] = u
      BY DEF LockInv
    <3> QED
      BY <1>0, <3>1 DEF LockedSteps, StopSteps
  <2>5. ~live[i].stopReq /\ live[i].gen \in Gens
    BY <1>0, <1>2, <2>4 DEF RunsInv, RunningIsOwned, Stopping
  <2>6. live[i].job # 0 => live[i].job = live[i].gen /\ group[i][live[i].job] = "open"
    BY <1>0, <2>5 DEF RunsInv, JobInv
  <2>7. \A u \in Actors : pc[u] \in StopSteps => u # t /\ loc[u].id \in Ids
    BY <1>0 DEF TypeOK, Busy, StopSteps
  <2>8. StopperInv'
    <3>1. ASSUME NEW u \in Actors, pc'[u] \in StopSteps, u # t
          PROVE  /\ loc'[u].run \in Gens
                 /\ loc'[u].run <= live'[loc'[u].id].gen
                 /\ loc'[u].run = live'[loc'[u].id].gen => live'[loc'[u].id].stopReq
                 /\ loc'[u].job \in {0, loc'[u].run}
      BY <1>0, <2>2, <2>3, <2>4, <2>7, <3>1 DEF RunsInv, StopperInv
    <3>2. live[i].gen <= live[i].gen
      BY <1>0, Bounds DEF LiveType
    <3> QED
      BY <2>2, <2>3, <2>5, <2>6, <3>1, <3>2 DEF StopperInv
  <2>9. StopperOwnsGroup'
    BY <1>0, <2>3, <2>6 DEF RunsInv, StopperOwnsGroup
  <2>10. JobInv' /\ ExitInv' /\ OutcomeIsOfLatestRun'
    BY <1>0, <2>2, <2>6 DEF RunsInv, JobInv, ExitInv, OutcomeIsOfLatestRun
  <2>11. RunningIsOwned'
    <3>1. ASSUME NEW j \in Ids, live'[j].status = "running"
          PROVE  /\ live'[j].gen \in Gens /\ live'[j].pid = live'[j].gen
                 /\ \/ ~live'[j].stopReq /\ watcher'[j][live'[j].gen] = "waiting"
                    \/ /\ live'[j].stopReq
                       /\ \E u \in Actors : /\ pc'[u] \in StopSteps /\ loc'[u].id = j
                                           /\ loc'[u].run = live'[j].gen
      <4>1. CASE j = i
        BY <1>0, <1>2, <2>2, <2>3, <2>5, <4>1 DEF RunsInv, RunningIsOwned, StopSteps
      <4>2. CASE j # i
        <5>1. live'[j] = live[j] /\ live[j].status = "running"
          BY <2>2, <3>1, <4>2
        <5>2. /\ live[j].gen \in Gens /\ live[j].pid = live[j].gen
              /\ \/ ~live[j].stopReq /\ watcher[j][live[j].gen] = "waiting"
                 \/ /\ live[j].stopReq
                    /\ \E u \in Actors : /\ pc[u] \in StopSteps /\ loc[u].id = j
                                        /\ loc[u].run = live[j].gen
          BY <5>1 DEF RunsInv, RunningIsOwned, Stopping
        <5> QED
          BY <1>0, <2>3, <2>7, <5>1, <5>2
      <4> QED
        BY <4>1, <4>2
    <3> QED
      BY <3>1 DEF RunningIsOwned, Stopping
  <2> QED
    BY <2>8, <2>9, <2>10, <2>11 DEF RunsInv
<1> QED
  BY <1>1, <1>2

\* The group is given back by the only stopChild of the entry.
LEMMA RunsRelease ==
    ASSUME TypeOK, LockInv, RunsInv, NEW t \in Actors, Release(t)
    PROVE  RunsInv'
<1> DEFINE i == loc[t].id
<1>0. /\ pc[t] = "release" /\ pc'[t] = "finish" /\ i \in Ids
      /\ UNCHANGED <<live, loc, proc, watcher>>
      /\ \A u \in Actors \ {t} : pc'[u] = pc[u]
      /\ group' = IF loc[t].job = 0 THEN group ELSE [group EXCEPT ![i][loc[t].job] = "closed"]
  BY DEF TypeOK, Release, Busy, Goto
<1>1. \A u \in Actors : pc[u] \in StopSteps /\ u # t => loc[u].id # i /\ loc[u].id \in Ids
  <2>1. \A u \in Actors : pc[u] \in LockedSteps \ {"return"} => opMu[loc[u].id] = u
    BY DEF LockInv
  <2>2. \A u \in Actors : pc[u] \in StopSteps => loc[u].id \in Ids
    BY DEF TypeOK, Busy, StopSteps
  <2> QED
    BY <1>0, <2>1, <2>2 DEF LockedSteps, StopSteps
<1>2. /\ \A j \in Ids \ {i} : group'[j] = group[j]
      /\ \A h \in Gens : h # loc[t].job => group'[i][h] = group[i][h]
  BY <1>0 DEF TypeOK
<1>3. StopperInv'
  BY <1>0 DEF RunsInv, StopperInv, StopSteps
<1>4. StopperOwnsGroup'
  BY <1>0, <1>1, <1>2 DEF RunsInv, StopperOwnsGroup, StopSteps
<1>5. JobInv'
  <2>1. live[i].job # 0 /\ ~live[i].stopReq => live[i].job \in Gens /\ live[i].job # loc[t].job
    <3>1. live[i].job # 0 => live[i].job \in Gens
      BY <1>0, Bounds DEF TypeOK, LiveType
    <3> QED
      BY <1>0, <3>1, Bounds DEF RunsInv, StopperInv, JobInv, StopSteps
  <2> QED
    BY <1>0, <1>2, <2>1 DEF RunsInv, JobInv
<1>6. ExitInv' /\ OutcomeIsOfLatestRun'
  BY <1>0 DEF RunsInv, ExitInv, OutcomeIsOfLatestRun
<1>7. RunningIsOwned'
  BY <1>0 DEF RunsInv, RunningIsOwned, Stopping, StopSteps
<1> QED
  BY <1>3, <1>4, <1>5, <1>6, <1>7 DEF RunsInv

\* The entry is reported stopped, and its group forgotten.
LEMMA RunsFinish ==
    ASSUME TypeOK, RunsInv, NEW t \in Actors, Finish(t)
    PROVE  RunsInv'
<1> DEFINE i == loc[t].id
<1>0. /\ i \in Ids /\ live[i] \in LiveType
      /\ UNCHANGED <<loc, group, proc, watcher>>
      /\ pc'[t] \notin StopSteps
      /\ \A u \in Actors \ {t} : pc'[u] = pc[u]
      /\ live' = [live EXCEPT ![i] = Stopped(@, loc[t].waited)]
  BY DEF TypeOK, Finish, Busy, Goto, AfterStop, StopSteps, runVars
<1>1. /\ \A j \in Ids \ {i} : live'[j] = live[j]
      /\ live'[i].status = "stopped" /\ live'[i].job = 0
      /\ live'[i].exit \in {"nil", live[i].exit}
      /\ live'[i].gen = live[i].gen /\ live'[i].stopReq = live[i].stopReq
  BY <1>0 DEF TypeOK, Stopped, LiveType
<1>2. \A u \in Actors : pc'[u] \in StopSteps => pc[u] \in StopSteps /\ loc[u].id \in Ids /\ u # t
  BY <1>0 DEF TypeOK, Busy, StopSteps
<1>3. StopperInv' /\ StopperOwnsGroup'
  <2>1. \A j \in Ids : live'[j].gen = live[j].gen /\ live'[j].stopReq = live[j].stopReq
    BY <1>1
  <2>2. StopperInv'
    BY <1>0, <1>2, <2>1 DEF RunsInv, StopperInv
  <2>3. StopperOwnsGroup'
    BY <1>0, <1>2 DEF RunsInv, StopperOwnsGroup
  <2> QED
    BY <2>2, <2>3
<1>4. JobInv'
  <2>1. ASSUME NEW j \in Ids, live'[j].job # 0
        PROVE  /\ live'[j].job = live'[j].gen
               /\ ~live'[j].stopReq => group'[j][live'[j].job] = "open"
    <3>1. j # i /\ live'[j] = live[j]
      BY <1>1, <2>1
    <3> QED
      BY <1>0, <2>1, <3>1 DEF RunsInv, JobInv
  <2> QED
    BY <2>1 DEF JobInv
<1>5. ExitInv'
  <2>1. ASSUME NEW j \in Ids, live'[j].exit # "nil"
        PROVE  live'[j].gen \in Gens /\ watcher'[j][live'[j].gen] \in {"recorded", "closed"}
    <3>1. live[j].exit # "nil" /\ live'[j].gen = live[j].gen
      BY <1>1, <2>1
    <3> QED
      BY <1>0, <3>1 DEF RunsInv, ExitInv
  <2> QED
    BY <2>1 DEF ExitInv
<1>6. OutcomeIsOfLatestRun'
  <2>1. ASSUME NEW j \in Ids
        PROVE  /\ live'[j].exit # "nil" =>
                      live'[j].gen \in Gens /\ proc'[j][live'[j].gen] = live'[j].exit
               /\ live'[j].status = "exited" => live'[j].exit = "zero"
               /\ live'[j].status = "killed" => live'[j].exit = "nonzero"
    <3>1. live[j].exit # "nil" => live[j].gen \in Gens /\ proc[j][live[j].gen] = live[j].exit
      BY DEF RunsInv, OutcomeIsOfLatestRun
    <3>2. CASE j = i
      BY <1>0, <1>1, <3>1, <3>2
    <3>3. CASE j # i
      <4>1. live'[j] = live[j]
        BY <1>1, <3>3
      <4>2. /\ live[j].status = "exited" => live[j].exit = "zero"
            /\ live[j].status = "killed" => live[j].exit = "nonzero"
        BY DEF RunsInv, OutcomeIsOfLatestRun
      <4> QED
        BY <1>0, <3>1, <4>1, <4>2
    <3> QED
      BY <3>2, <3>3
  <2> QED
    BY <2>1 DEF OutcomeIsOfLatestRun
<1>7. RunningIsOwned'
  <2>1. ASSUME NEW j \in Ids, live'[j].status = "running"
        PROVE  /\ live'[j].gen \in Gens /\ live'[j].pid = live'[j].gen
               /\ \/ ~live'[j].stopReq /\ watcher'[j][live'[j].gen] = "waiting"
                  \/ /\ live'[j].stopReq
                     /\ \E u \in Actors : /\ pc'[u] \in StopSteps /\ loc'[u].id = j
                                         /\ loc'[u].run = live'[j].gen
    <3>1. j # i /\ live'[j] = live[j] /\ live[j].status = "running"
      BY <1>1, <2>1
    <3>2. /\ live[j].gen \in Gens /\ live[j].pid = live[j].gen
          /\ \/ ~live[j].stopReq /\ watcher[j][live[j].gen] = "waiting"
             \/ /\ live[j].stopReq
                /\ \E u \in Actors : /\ pc[u] \in StopSteps /\ loc[u].id = j
                                    /\ loc[u].run = live[j].gen
      BY <3>1 DEF RunsInv, RunningIsOwned, Stopping
    <3> QED
      BY <1>0, <3>1, <3>2
  <2> QED
    BY <2>1 DEF RunningIsOwned, Stopping
<1> QED
  BY <1>3, <1>4, <1>5, <1>6, <1>7 DEF RunsInv

\* Every step keeps what ties entries, runs, waiters and stops together.
LEMMA RunsStep ==
    TypeOK /\ BootInv /\ SweepInv /\ LockInv /\ RunsInv /\ [Next]_vars => RunsInv'
<1> SUFFICES ASSUME TypeOK, BootInv, SweepInv, LockInv, RunsInv, [Next]_vars PROVE RunsInv'
  OBVIOUS
<1> USE DEF regVars, runVars, groupVars, bootVars, closeVars
<1>1. ASSUME NEW t \in Clients, NEW op \in Operations, NEW i \in Ids,
             BeginRegister(t, op, i) \/ BeginCall(t, op, i)
      PROVE RunsInv'
  <2>1. pc[t] = "idle" /\ \E step \in {"persist", "edit", "lock"} : pc' = [pc EXCEPT ![t] = step]
    BY <1>1 DEF BeginRegister, BeginCall, Begins, Busy, FirstStep, Goto
  <2>2. \A u \in Actors \ {t} : loc'[u] = loc[u]
    BY <1>1 DEF TypeOK, BeginRegister, BeginCall, Begins
  <2>3. StopFrame
    BY <2>1, <2>2 DEF TypeOK, StopFrame, StopSteps
  <2> QED
    BY <1>1, <2>3, RunsQuiet DEF BeginRegister, BeginCall, DeadStay
<1>2. ASSUME NEW t \in Actors,
             Edit(t) \/ Snapshot(t) \/ Save(t) \/ Lock(t) \/ Unmap(t) \/ DeleteRow(t)
                 \/ RemoveLogs(t) \/ Return(t)
      PROVE RunsInv'
  <2>1. /\ pc[t] \in {"edit", "persist", "save", "lock", "unmap", "deleteRow", "removeLogs", "return"}
        /\ \E step \in {"persist", "save", "start", "return", "spawn", "stop", "deleteRow",
                        "removeLogs", "idle"} : pc' = [pc EXCEPT ![t] = step]
    BY <1>2 DEF Edit, Snapshot, Save, Lock, Unmap, DeleteRow, RemoveLogs, Return, AfterSave,
       AfterLock, Goto
  <2>2. \A u \in Actors \ {t} : loc'[u] = loc[u]
    BY <1>2 DEF TypeOK, Edit, Snapshot, Save, Lock, Unmap, DeleteRow, RemoveLogs, Return
  <2>3. StopFrame
    BY <2>1, <2>2 DEF TypeOK, StopFrame, StopSteps
  <2>4. UNCHANGED <<live, proc, watcher, group>>
    BY <1>2 DEF Edit, Snapshot, Save, Lock, Unmap, DeleteRow, RemoveLogs, Return
  <2> QED
    BY <2>3, <2>4, RunsQuiet DEF DeadStay
<1>3. ASSUME NEW t \in Actors, RegisterStart(t) \/ SpawnStep(t) PROVE RunsInv'
  <2>1. loc[t].id \in Ids
    BY <1>3 DEF TypeOK, RegisterStart, SpawnStep, Busy
  <2>2. /\ pc[t] \notin StopSteps /\ pc' = [pc EXCEPT ![t] = "return"] /\ loc' = loc
    BY <1>3 DEF RegisterStart, SpawnStep, Goto, StopSteps
  <2>3. StopFrame
    BY <2>2 DEF TypeOK, StopFrame, StopSteps
  <2>4. CASE \E marker \in BOOLEAN : Spawn(loc[t].id, marker)
    BY <2>1, <2>3, <2>4, RunsSpawn
  <2>5. CASE UNCHANGED <<live, logs, runVars, groupVars>>
    BY <2>3, <2>5, RunsQuiet DEF DeadStay
  <2> QED
    BY <1>3, <2>4, <2>5 DEF RegisterStart, SpawnStep
<1>4. ASSUME NEW t \in Actors, StopBegin(t) PROVE RunsInv'
  BY <1>4, RunsStopBegin
<1>5. ASSUME NEW t \in Actors, Terminate(t) \/ ForceStop(t) PROVE RunsInv'
  <2>1. DeadStay
    <3>1. \E i \in Ids, g \in 0..MaxGen : proc' \in {proc, Doom(i, g)}
      <4>1. loc[t].id \in Ids /\ loc[t] \in LocType
        BY <1>5 DEF TypeOK, Terminate, ForceStop, Busy
      <4>2. loc[t].job \in 0..MaxGen /\ loc[t].pid \in 0..MaxGen
        BY <4>1 DEF LocType
      <4> QED
        BY <1>5, <4>1, <4>2 DEF Terminate, ForceStop
    <3>2. PICK i \in Ids, g \in 0..MaxGen : proc' \in {proc, Doom(i, g)}
      BY <3>1
    <3>3. CASE proc' = proc
      BY <3>3 DEF DeadStay
    <3>4. CASE proc' = [proc EXCEPT ![i][g] = "doomed"] /\ proc[i][g] = "up" /\ g \in Gens
      BY <3>4 DEF TypeOK, DeadStay, Dead
    <3> QED
      BY <3>2, <3>3, <3>4 DEF Doom
  <2>2. /\ pc[t] \in StopSteps \ {"finish"} /\ pc'[t] \in StopSteps
        /\ \A u \in Actors \ {t} : pc'[u] = pc[u]
    BY <1>5 DEF TypeOK, Terminate, ForceStop, Goto, StopSteps
  <2> QED
    BY <1>5, <2>1, <2>2, RunsStopperMoves DEF Terminate, ForceStop
<1>6. ASSUME NEW t \in Actors, AwaitExit(t) PROVE RunsInv'
  <2>1. /\ pc[t] \in StopSteps \ {"finish"} /\ pc'[t] \in StopSteps
        /\ \A u \in Actors \ {t} : pc'[u] = pc[u]
        /\ UNCHANGED <<live, proc, watcher, group>>
    BY <1>6 DEF TypeOK, AwaitExit, AfterTimeout, Goto, StopSteps
  <2>2. /\ \A u \in Actors \ {t} : loc'[u] = loc[u]
        /\ loc'[t].id = loc[t].id /\ loc'[t].run = loc[t].run /\ loc'[t].job = loc[t].job
    <3>1. loc \in [Actors -> LocType] /\ loc[t] \in LocType
      BY DEF TypeOK
    <3> QED
      BY <1>6, <3>1 DEF AwaitExit, LocType
  <2> QED
    BY <2>1, <2>2, RunsStopperMoves DEF DeadStay
<1>7. ASSUME NEW t \in Actors, Release(t) PROVE RunsInv'
  BY <1>7, RunsRelease
<1>8. ASSUME NEW t \in Actors, Finish(t) PROVE RunsInv'
  BY <1>8, RunsFinish
<1>9. ASSUME NEW i \in Ids, NEW g \in Gens, Die(i, g) PROVE RunsInv'
  <2>1. proc[i][g] \notin Dead /\ \E code \in Dead : proc' = [proc EXCEPT ![i][g] = code]
    BY <1>9 DEF Die, Dead
  <2>2. DeadStay
    BY <2>1 DEF TypeOK, DeadStay
  <2> QED
    BY <1>9, <2>2, RunsQuiet DEF Die, StopFrame
<1>10. ASSUME NEW i \in Ids, NEW g \in Gens, Record(i, g) PROVE RunsInv'
  BY <1>10, RunsRecord
<1>11. ASSUME NEW i \in Ids, NEW g \in Gens, CloseExited(i, g) PROVE RunsInv'
  BY <1>11, RunsCloseExited
<1>12. CASE Restore
  <2>1. live' = live
    BY <1>12 DEF Restore, BootInv, TypeOK
  <2> QED
    BY <1>12, <2>1, RunsQuiet DEF Restore, StopFrame, DeadStay
<1>13. ASSUME NEW i \in Ids, AutoStart(i) PROVE RunsInv'
  <2>1. StopFrame
    BY <1>13 DEF AutoStart, StopFrame
  <2>2. CASE Spawn(i, TRUE)
    BY <2>1, <2>2, RunsSpawn
  <2>3. CASE UNCHANGED <<live, logs, runVars, groupVars>>
    BY <2>1, <2>3, RunsQuiet DEF DeadStay
  <2> QED
    BY <1>13, <2>2, <2>3 DEF AutoStart
<1>14. ASSUME NEW i \in Ids, SweepEntry(i) PROVE RunsInv'
  <2>1. pc[i] = "idle"
    BY <1>14 DEF SweepEntry, SweepInv, Busy
  <2>2. StopFrame
    BY <1>14, <2>1 DEF TypeOK, SweepEntry, Goto, StopFrame, StopSteps
  <2> QED
    BY <1>14, <2>2, RunsQuiet DEF SweepEntry, DeadStay
<1>15. CASE CloseServerJob
  <2>1. DeadStay
    BY <1>15 DEF CloseServerJob, DeadStay, Dead
  <2> QED
    BY <1>15, <2>1, RunsQuiet DEF CloseServerJob, StopFrame
<1>16. CASE UNCHANGED <<live, proc, watcher, group, pc, loc>>
  BY <1>16, RunsQuiet DEF StopFrame, DeadStay
<1> QED
  BY <1>1, <1>2, <1>3, <1>4, <1>5, <1>6, <1>7, <1>8, <1>9, <1>10, <1>11, <1>12, <1>13,
     <1>14, <1>15, <1>16
  DEF Next, ActorStep, RunStep, BootStep, CloseStep, Gone, vars, CollectorStep, Rotate,
      CollectorEnds, AutoStartEnds, RequestShutdown, StopChildren, SweepEnds, CloseDatabase, Exit

-----------------------------------------------------------------------------
(* The theorems.                                                           *)

\* The actions together.
LEMMA Inductive == IInv /\ [Next]_vars => IInv'
  BY TypeStep, BootStepInv, SweepStep, LockStep, RunsStep DEF IInv

\* The invariant holds in every reachable state.
LEMMA Invariance == Spec => []IInv
  BY InitIInv, Inductive, PTL DEF Spec

\* An entry shown as running has a waiter or a stopChild that will end that.
THEOREM RunningOwned == Spec => []RunningIsOwned
<1>1. IInv => RunningIsOwned
  BY DEF IInv, RunsInv
<1> QED
  BY <1>1, Invariance, PTL

\* No entry ever tells the outcome of an earlier run.
THEOREM OutcomeCorrect == Spec => []OutcomeIsOfLatestRun
<1>1. IInv => OutcomeIsOfLatestRun
  BY DEF IInv, RunsInv
<1> QED
  BY <1>1, Invariance, PTL

\* stopChild never signals or releases a group somebody else closed.
THEOREM GroupOwned == Spec => []StopperOwnsGroup
<1>1. IInv => StopperOwnsGroup
  BY DEF IInv, RunsInv
<1> QED
  BY <1>1, Invariance, PTL

\* At most one operation is in the locked section of an entry.
THEOREM OneLockedOperation ==
    Spec => [](\A t, u \in Actors :
                 /\ pc[t] \in LockedSteps \ {"return"} /\ pc[u] \in LockedSteps \ {"return"}
                 /\ loc[t].id = loc[u].id
                 => t = u)
<1>1. IInv => \A t, u \in Actors :
                 /\ pc[t] \in LockedSteps \ {"return"} /\ pc[u] \in LockedSteps \ {"return"}
                 /\ loc[t].id = loc[u].id
                 => t = u
  BY DEF IInv, LockInv
<1> QED
  BY <1>1, Invariance, PTL

=============================================================================
