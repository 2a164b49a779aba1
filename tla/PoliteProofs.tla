----------------------------- MODULE PoliteProofs -----------------------------
(***************************************************************************)
(* Theorems about Manager when no registration, edit or deletion of an     *)
(* entry overlaps another call on it (Polite) and requests end within the  *)
(* shutdown's grace period (Drains): for every set of entries and clients, *)
(* every setting, and whatever the system and the store refuse.            *)
(***************************************************************************)
EXTENDS ManagerProofs

-----------------------------------------------------------------------------
(* The inductive invariant, on top of the one of ManagerProofs.            *)

\* The steps an operation goes through.
Path(op) ==
    CASE op = "register"        -> {"persist", "save", "start", "return"}
      [] op = "registerOnly"    -> {"persist", "save", "return"}
      [] op = "update"          -> {"edit", "persist", "save", "return"}
      [] op = "run"             -> {"lock", "spawn", "return"}
      [] op = "restart"         -> {"lock", "stop", "spawn", "return"} \cup StopSteps
      [] op = "delete"          -> {"lock", "stop", "unmap", "deleteRow", "removeLogs",
                                    "return"} \cup StopSteps
      [] op \in {"stop", "sweep"} -> {"lock", "stop", "return"} \cup StopSteps
      [] OTHER                  -> {}

\* Clients are busy only while the server serves, and gone before StopChildren;
\* the goroutines of StopChildren only while it waits for them.
ActorInv ==
    \A t \in Actors : Busy(t) =>
        /\ pc[t] \in Path(loc[t].op)
        /\ t \in Clients => /\ loc[t].op # "sweep"
                            /\ boot = "serving" /\ closing \in {"no", "requested"}
        /\ t \in Ids => /\ loc[t].op = "sweep" /\ loc[t].id = t
                        /\ closing = "children"

CourtesyInv ==
    \A t, u \in Clients :
        t # u /\ Busy(t) /\ Busy(u) /\ loc[t].id = loc[u].id => loc[t].op \notin Exclusive

\* Past unmap, a deletion is the only one to know the entry.
Unmapped(t) == loc[t].op = "delete" /\ pc[t] \in {"deleteRow", "removeLogs", "return"}

MapInv ==
    /\ registered \subseteq created
    /\ autoLeft \subseteq registered
    /\ boot # "autostart" => autoLeft = {}
    /\ sweepLeft \subseteq registered
    /\ boot = "restore" => created = {i \in Ids : row[i] # 0}
    /\ \A t \in Clients : Busy(t) =>
          /\ loc[t].id \in created
          /\ loc[t].id \in registered <=> ~Unmapped(t)

\* Here nobody is about to start a process beside another one.
Vacant(t) ==
    \/ pc[t] = "spawn" /\ loc[t].op # "run"
    \/ pc[t] = "unmap"
    \/ pc[t] \in {"persist", "save", "start"} /\ loc[t].op = "register"

\* The processes and groups that may be there belong to the run the entry shows.
SlotInv ==
    /\ OneProcess
    /\ \A i \in Ids, g \in Gens :
          group[i][g] = "open" => live[i].job = g /\ live[i].status = "running"
    /\ \A i \in Ids \ registered : live[i].status # "running"
    /\ \A t \in Actors : Vacant(t) => live[loc[t].id].status # "running"

\* A waiter that was released has seen the process end.
WaiterInv ==
    \A i \in Ids, g \in Gens : watcher[i][g] \in {"recorded", "closed"} => proc[i][g] \in Dead

\* A stopChild under way is about the run the entry shows, and past its waits
\* that run's process is dead or beyond escape.
StopInv ==
    \A t \in Actors : pc[t] \in StopSteps =>
        LET e == live[loc[t].id] IN
        /\ e.status = "running" /\ e.gen = loc[t].run
        /\ loc[t].pid = loc[t].run /\ loc[t].job = e.job
        /\ pc[t] \in {"waitForced", "release", "finish"} => proc[loc[t].id][loc[t].run] # "up"
        /\ pc[t] = "finish" /\ loc[t].job # Nil => group[loc[t].id][loc[t].job] # "open"

\* A write of the entry's row is still to come.
Pending(i) == \E t \in Clients : loc[t].id = i /\ pc[t] \in {"persist", "save", "deleteRow"}

StoreInv ==
    /\ boot # "restore" =>
          \A i \in Ids \ unpersisted : ~Pending(i) =>
              row[i] = IF i \in registered THEN version[i] ELSE 0
    /\ \A t \in Clients : pc[t] = "save" => loc[t].ver = version[loc[t].id]

LogInv ==
    boot # "restore" =>
        \A i \in created \ registered :
            (\A t \in Clients : ~(loc[t].id = i /\ pc[t] \in {"deleteRow", "removeLogs"}))
                => (i \in logs \cup collecting => i \in leftLogs)

\* StopChildren misses no entry that runs.
CloseInv ==
    /\ closing \in {"no", "requested"} => sweepLeft = {}
    /\ closing \notin {"no", "requested"} => boot = "serving"
    /\ closing = "children" =>
          \A i \in Ids : live[i].status = "running" =>
              i \in sweepLeft \/ (Busy(i) /\ pc[i] # "return")
    /\ KillOnExit /\ closing \notin {"no", "requested", "children"} =>
          \A i \in Ids : live[i].status # "running"

PInv ==
    /\ ActorInv
    /\ CourtesyInv
    /\ MapInv
    /\ SlotInv
    /\ WaiterInv
    /\ StopInv
    /\ StoreInv
    /\ LogInv
    /\ CloseInv

-----------------------------------------------------------------------------
(* Who moves, and where to.                                                *)

USE DEF Busy, Nil, Gens, Actors

\* A step of an actor that is under way concerns this actor and its operation.
LEMMA ActorFrame ==
    ASSUME TypeOK, NEW t \in Actors, ActorStep(t)
    PROVE  /\ Busy(t) /\ loc[t].id \in Ids /\ Serving
           /\ UNCHANGED <<created, boot, autoLeft, closing, sweepLeft>>
           /\ \A u \in Actors \ {t} : pc'[u] = pc[u] /\ loc'[u] = loc[u]
           /\ \/ pc'[t] = "idle"
              \/ loc'[t].id = loc[t].id /\ loc'[t].op = loc[t].op
<1>0. pc \in [Actors -> Steps] /\ loc \in [Actors -> LocType] /\ loc[t] \in LocType
  BY DEF TypeOK
<1>1. CASE Edit(t) \/ Save(t) \/ RegisterStart(t) \/ Lock(t) \/ SpawnStep(t)
  BY <1>0, <1>1 DEF TypeOK, Edit, Save, RegisterStart, Lock, SpawnStep, Goto, regVars,
     bootVars, closeVars
<1>2. CASE Terminate(t) \/ ForceStop(t) \/ Release(t) \/ Finish(t)
  BY <1>0, <1>2 DEF TypeOK, Terminate, ForceStop, Release, Finish, Goto, regVars, bootVars, closeVars
<1>3. CASE Unmap(t) \/ DeleteRow(t) \/ RemoveLogs(t) \/ Return(t)
  BY <1>0, <1>3 DEF TypeOK, Unmap, DeleteRow, RemoveLogs, Return, Goto, regVars, bootVars, closeVars
<1>4. CASE Snapshot(t)
  BY <1>0, <1>4 DEF TypeOK, Snapshot, Goto, LocType, regVars, bootVars, closeVars
<1>5. CASE AwaitExit(t)
  BY <1>0, <1>5 DEF TypeOK, AwaitExit, Goto, LocType, regVars, bootVars, closeVars
<1>6. CASE StopBegin(t)
  <2>1. /\ pc[t] = "stop" /\ Serving /\ UNCHANGED <<created, boot, autoLeft, closing, sweepLeft>>
        /\ \E step : pc' = [pc EXCEPT ![t] = step]
    BY <1>6 DEF StopBegin, Goto, regVars, bootVars, closeVars
  <2>2. \/ loc' = loc
        \/ loc' = [loc EXCEPT ![t] = [@ EXCEPT !.job = live[loc[t].id].job,
                                               !.pid = live[loc[t].id].pid,
                                               !.run = live[loc[t].id].gen]]
    BY <1>6 DEF StopBegin
  <2>3. ASSUME NEW j, NEW p, NEW r,
               loc' = [loc EXCEPT ![t] = [@ EXCEPT !.job = j, !.pid = p, !.run = r]]
        PROVE  /\ loc'[t].id = loc[t].id /\ loc'[t].op = loc[t].op
               /\ \A u \in Actors \ {t} : loc'[u] = loc[u]
    BY <1>0, <2>3 DEF LocType
  <2>4. /\ loc'[t].id = loc[t].id /\ loc'[t].op = loc[t].op
        /\ \A u \in Actors \ {t} : loc'[u] = loc[u]
    BY <2>2, <2>3
  <2> QED
    BY <1>0, <2>1, <2>4 DEF TypeOK
<1> QED
  BY <1>1, <1>2, <1>3, <1>4, <1>5, <1>6 DEF ActorStep

\* It stays on the path of the operation, or is its end.
LEMMA ActorPath ==
    ASSUME TypeOK, ActorInv, NEW t \in Actors, ActorStep(t)
    PROVE  pc'[t] = "idle" \/ pc'[t] \in Path(loc[t].op)
<1>0. /\ Busy(t) /\ pc[t] \in Path(loc[t].op) /\ pc \in [Actors -> Steps]
      /\ loc[t].op \in Operations \cup {"none", "sweep"}
  BY ActorFrame DEF TypeOK, ActorInv, LocType
<1>1. CASE Edit(t) \/ Snapshot(t) \/ Save(t) \/ RegisterStart(t)
  BY <1>0, <1>1 DEF Edit, Snapshot, Save, AfterSave, RegisterStart, Goto, Path, StopSteps, Operations
<1>2. CASE Lock(t) \/ SpawnStep(t)
  BY <1>0, <1>2 DEF Lock, AfterLock, SpawnStep, Goto, Path, StopSteps, Operations
<1>3. CASE StopBegin(t) \/ Finish(t)
  <2>1. pc'[t] \in {"terminate", AfterStop(loc[t].op)}
    BY <1>0, <1>3 DEF StopBegin, Finish, Goto
  <2>2. loc[t].op \in {"restart", "delete", "stop", "sweep"}
    BY <1>0, <1>3 DEF StopBegin, Finish, Path, StopSteps, Operations
  <2> QED
    BY <2>1, <2>2 DEF AfterStop, Path, StopSteps
<1>4. CASE Terminate(t) \/ AwaitExit(t) \/ ForceStop(t) \/ Release(t)
  <2>1. pc'[t] \in StopSteps
    BY <1>0, <1>4 DEF Terminate, AwaitExit, AfterTimeout, ForceStop, Release, Goto, StopSteps
  <2>2. loc[t].op \in {"restart", "delete", "stop", "sweep"}
    BY <1>0, <1>4 DEF Terminate, AwaitExit, ForceStop, Release, Path, StopSteps, Operations
  <2> QED
    BY <2>1, <2>2 DEF Path
<1>5. CASE Unmap(t) \/ DeleteRow(t) \/ RemoveLogs(t) \/ Return(t)
  BY <1>0, <1>5 DEF Unmap, DeleteRow, RemoveLogs, Return, Goto, Path, StopSteps, Operations
<1> QED
  BY <1>1, <1>2, <1>3, <1>4, <1>5 DEF ActorStep

\* A request begins: as clients are polite, no registration, edit or deletion
\* meets another call on the entry.
LEMMA BeginFrame ==
    ASSUME TypeOK, Polite, Drains, NEW t \in Clients, NEW op \in Operations, NEW i \in Ids,
           BeginRegister(t, op, i) \/ BeginCall(t, op, i)
    PROVE  /\ boot = "serving" /\ closing = "no" /\ ~Busy(t)
           /\ loc'[t].op = op /\ loc'[t].id = i /\ op # "sweep"
           /\ pc'[t] \in Path(op) /\ pc'[t] \in {"persist", "edit", "lock"}
           /\ \A u \in Actors \ {t} : pc'[u] = pc[u] /\ loc'[u] = loc[u]
           /\ \A u \in Clients \ {t} : Busy(u) /\ loc[u].id = i =>
                  op \notin Exclusive /\ loc[u].op \notin Exclusive
           /\ UNCHANGED <<live, row, unpersisted, logVars, runVars, bootVars, closeVars>>
<1>1. /\ boot = "serving" /\ closing = "no" /\ ~Busy(t)
      /\ loc' = [loc EXCEPT ![t] = [NoLoc EXCEPT !.op = op, !.id = i]]
      /\ \A u \in Clients \ {t} : Busy(u) /\ loc[u].id = i =>
             op \notin Exclusive /\ loc[u].op \notin Exclusive
      /\ UNCHANGED <<live, row, unpersisted, logVars, runVars, bootVars, closeVars>>
  BY DEF BeginRegister, BeginCall, Begins, Courteous, regVars
<1>2. /\ pc'[t] \in Path(op) /\ pc'[t] \in {"persist", "edit", "lock"}
      /\ \A u \in Actors \ {t} : pc'[u] = pc[u]
  <2>1. ASSUME BeginRegister(t, op, i)
        PROVE  pc' = [pc EXCEPT ![t] = "persist"] /\ "persist" \in Path(op)
    BY <2>1 DEF BeginRegister, Goto, Path
  <2>2. ASSUME BeginCall(t, op, i)
        PROVE  \E step \in {"edit", "lock"} : pc' = [pc EXCEPT ![t] = step] /\ step \in Path(op)
    BY <2>2 DEF BeginCall, FirstStep, Goto, Path
  <2> QED
    BY <2>1, <2>2 DEF TypeOK
<1>3. /\ loc'[t].op = op /\ loc'[t].id = i
      /\ \A u \in Actors \ {t} : loc'[u] = loc[u]
  <2>1. /\ [NoLoc EXCEPT !.op = op, !.id = i].op = op
        /\ [NoLoc EXCEPT !.op = op, !.id = i].id = i
    BY DEF NoLoc
  <2> QED
    BY <1>1, <2>1 DEF TypeOK
<1> QED
  BY <1>1, <1>2, <1>3 DEF Operations

\* A step of nobody's operation.
OtherStep ==
    \/ \E i \in Ids, g \in Gens : RunStep(i, g)
    \/ \E i \in Ids : CollectorStep(i)
    \/ BootStep
    \/ RequestShutdown
    \/ StopChildren \/ SweepEnds \/ CloseDatabase \/ CloseServerJob \/ Exit
    \/ UNCHANGED vars

\* The actions of Next by who takes them.
LEMMA NextCases ==
    ASSUME [Next]_vars
    PROVE  \/ \E t \in Clients, op \in Operations, i \in Ids :
                 BeginRegister(t, op, i) \/ BeginCall(t, op, i)
           \/ \E t \in Actors : ActorStep(t)
           \/ \E i \in Ids : SweepEntry(i)
           \/ OtherStep
  BY DEF Next, OtherStep, CloseStep, Gone

\* A collector left behind touches nothing but its log.
LEMMA CollectorFrame ==
    ASSUME NEW i \in Ids, CollectorStep(i)
    PROVE  /\ UNCHANGED <<regVars, live, leftLogs, opMu, pc, loc, runVars, groupVars,
                          bootVars, closeVars>>
           /\ logs' \cup collecting' \subseteq logs \cup collecting
  BY DEF CollectorStep, Rotate, CollectorEnds

\* Waiters, collectors, boot and shutdown leave the actors and the locks alone.
LEMMA OtherFrame ==
    ASSUME OtherStep
    PROVE  UNCHANGED <<pc, loc, opMu, created>>
<1>1. ASSUME NEW i \in Ids, NEW g \in Gens, RunStep(i, g)
      PROVE  UNCHANGED <<pc, loc, opMu, created>>
  BY <1>1 DEF RunStep, Die, Record, CloseExited, regVars
<1>2. CASE BootStep
  BY <1>2 DEF BootStep, Restore, AutoStart, AutoStartEnds, regVars
<1>3. CASE RequestShutdown \/ StopChildren \/ SweepEnds \/ CloseDatabase \/ CloseServerJob \/ Exit
  BY <1>3 DEF RequestShutdown, StopChildren, SweepEnds, CloseDatabase, CloseServerJob, Exit, regVars
<1>4. ASSUME NEW i \in Ids, CollectorStep(i)
      PROVE  UNCHANGED <<pc, loc, opMu, created>>
  BY <1>4, CollectorFrame DEF regVars
<1> QED
  BY <1>1, <1>2, <1>3, <1>4 DEF OtherStep, vars

\* The boot and the shutdown move only while the clients and the goroutines of
\* StopChildren they wait for are idle.
LEMMA OtherPhase ==
    ASSUME TypeOK, BootInv, Drains, ActorInv, OtherStep, NEW t \in Actors, Busy(t)
    PROVE  /\ t \in Clients => boot' = "serving" /\ closing' \in {"no", "requested"}
           /\ t \in Ids => closing' = "children"
<1>0. /\ t \in Clients => boot = "serving" /\ closing \in {"no", "requested"}
      /\ t \in Ids => closing = "children"
      /\ boot # "restore"
  BY DEF ActorInv, BootInv
<1>1. ASSUME NEW i \in Ids, NEW g \in Gens, RunStep(i, g)
      PROVE  UNCHANGED <<boot, closing>>
  BY <1>1 DEF RunStep, Die, Record, CloseExited, bootVars, closeVars
<1>2. CASE BootStep
  BY <1>0, <1>2 DEF BootStep, Restore, AutoStart, AutoStartEnds, closeVars
<1>3. CASE RequestShutdown
  BY <1>0, <1>3 DEF RequestShutdown, bootVars
<1>4. CASE StopChildren
  BY <1>0, <1>4 DEF StopChildren, bootVars
<1>5. CASE SweepEnds
  BY <1>0, <1>5 DEF SweepEnds, bootVars
<1>6. CASE CloseDatabase \/ CloseServerJob \/ Exit
  BY <1>0, <1>6 DEF CloseDatabase, CloseServerJob, Exit, bootVars
<1>7. ASSUME NEW i \in Ids, CollectorStep(i)
      PROVE  UNCHANGED <<boot, closing>>
  BY <1>7, CollectorFrame DEF bootVars, closeVars
<1> QED
  BY <1>0, <1>1, <1>2, <1>3, <1>4, <1>5, <1>6, <1>7 DEF OtherStep, vars

\* StopChildren looks at one entry: its goroutine begins, or has nothing to do.
LEMMA SweepFrame ==
    ASSUME TypeOK, SweepInv, NEW i \in Ids, SweepEntry(i)
    PROVE  /\ closing = "children" /\ ~Busy(i) /\ i \in sweepLeft
           /\ sweepLeft' = sweepLeft \ {i}
           /\ \A u \in Actors \ {i} : pc'[u] = pc[u] /\ loc'[u] = loc[u]
           /\ IF live[i].status = "running"
              THEN pc'[i] = "lock" /\ loc'[i].op = "sweep" /\ loc'[i].id = i
              ELSE pc'[i] = "idle"
           /\ UNCHANGED <<regVars, live, logVars, opMu, runVars, groupVars, bootVars, closing>>
<1>1. closing = "children" /\ ~Busy(i) /\ i \in sweepLeft /\ sweepLeft' = sweepLeft \ {i}
  BY DEF SweepEntry, SweepInv
<1>2. CASE live[i].status = "running"
  <2>1. /\ pc' = [pc EXCEPT ![i] = "lock"]
        /\ loc' = [loc EXCEPT ![i] = [NoLoc EXCEPT !.op = "sweep", !.id = i]]
    BY <1>2 DEF SweepEntry, Goto
  <2>2. /\ pc'[i] = "lock" /\ loc'[i].op = "sweep" /\ loc'[i].id = i
        /\ \A u \in Actors \ {i} : pc'[u] = pc[u] /\ loc'[u] = loc[u]
    <3>1. /\ [NoLoc EXCEPT !.op = "sweep", !.id = i].op = "sweep"
          /\ [NoLoc EXCEPT !.op = "sweep", !.id = i].id = i
      BY DEF NoLoc
    <3> QED
      BY <2>1, <3>1 DEF TypeOK
  <2> QED
    BY <1>1, <1>2, <2>2 DEF SweepEntry
<1>3. CASE live[i].status # "running"
  BY <1>1, <1>3 DEF SweepEntry
<1> QED
  BY <1>2, <1>3

\* Every step preserves ActorInv,
LEMMA ActorStepInv ==
    ASSUME TypeOK, BootInv, SweepInv, Polite, Drains, ActorInv, [Next]_vars
    PROVE  ActorInv'
<1>0. Clients \cap Ids = {}
  BY ConstantsAssumption
<1>1. ASSUME NEW t \in Clients, NEW op \in Operations, NEW i \in Ids,
             BeginRegister(t, op, i) \/ BeginCall(t, op, i)
      PROVE  ActorInv'
  <2>1. UNCHANGED <<boot, closing>>
    BY <1>1, BeginFrame DEF bootVars, closeVars
  <2> QED
    BY <1>0, <1>1, <2>1, BeginFrame DEF ActorInv
<1>2. ASSUME NEW t \in Actors, ActorStep(t) PROVE ActorInv'
  BY <1>2, ActorFrame, ActorPath DEF ActorInv
<1>3. ASSUME NEW i \in Ids, SweepEntry(i) PROVE ActorInv'
  <2>1. UNCHANGED <<boot, closing>>
    BY <1>3, SweepFrame DEF bootVars
  <2>2. "lock" \in Path("sweep")
    BY DEF Path
  <2> QED
    BY <1>0, <1>3, <2>1, <2>2, SweepFrame DEF ActorInv
<1>4. CASE OtherStep
  <2>1. UNCHANGED <<pc, loc>>
    BY <1>4, OtherFrame
  <2> QED
    BY <1>4, <2>1, OtherPhase DEF ActorInv
<1> QED
  BY <1>1, <1>2, <1>3, <1>4, NextCases

\* and CourtesyInv,
LEMMA CourtesyStep ==
    ASSUME TypeOK, SweepInv, Polite, Drains, CourtesyInv, [Next]_vars
    PROVE  CourtesyInv'
<1>0. Clients \cap Ids = {}
  BY ConstantsAssumption
<1>1. ASSUME NEW t \in Clients, NEW op \in Operations, NEW i \in Ids,
             BeginRegister(t, op, i) \/ BeginCall(t, op, i)
      PROVE  CourtesyInv'
  BY <1>1, BeginFrame DEF CourtesyInv
<1>2. ASSUME NEW t \in Actors, ActorStep(t) PROVE CourtesyInv'
  BY <1>2, ActorFrame DEF CourtesyInv
<1>3. ASSUME NEW i \in Ids, SweepEntry(i) PROVE CourtesyInv'
  BY <1>0, <1>3, SweepFrame DEF CourtesyInv
<1>4. CASE OtherStep
  BY <1>4, OtherFrame DEF CourtesyInv
<1> QED
  BY <1>1, <1>2, <1>3, <1>4, NextCases

-----------------------------------------------------------------------------
(* The registry.                                                           *)

\* Only unmap takes an entry out of the map; a deletion is past it from there to
\* its end.
LEMMA ActorMap ==
    ASSUME TypeOK, ActorInv, NEW t \in Actors, ActorStep(t)
    PROVE  \/ /\ Unmap(t) /\ t \in Clients /\ loc[t].op = "delete"
              /\ registered' = registered \ {loc[t].id}
              /\ Unmapped(t)' /\ pc'[t] # "idle"
           \/ registered' = registered /\ (pc'[t] # "idle" => (Unmapped(t)' <=> Unmapped(t)))
<1>0. /\ Busy(t) /\ pc[t] \in Path(loc[t].op) /\ pc \in [Actors -> Steps]
      /\ loc[t].op \in Operations \cup {"none", "sweep"}
      /\ t \in Ids => loc[t].op = "sweep"
      /\ pc'[t] # "idle" => loc'[t].op = loc[t].op
  BY ActorFrame DEF TypeOK, ActorInv, LocType
<1>1. CASE Unmap(t)
  <2>1. loc[t].op = "delete" /\ pc'[t] = "deleteRow" /\ registered' = registered \ {loc[t].id}
    BY <1>0, <1>1 DEF Unmap, Goto, Path, StopSteps, Operations
  <2> QED
    BY <1>0, <1>1, <2>1 DEF Unmapped
<1>2. CASE Edit(t) \/ Snapshot(t) \/ Save(t) \/ RegisterStart(t)
  <2>1. loc[t].op # "delete"
    BY <1>0, <1>2 DEF Edit, Snapshot, Save, RegisterStart, Path, StopSteps
  <2>2. registered' = registered
    BY <1>2 DEF Edit, Snapshot, Save, RegisterStart, regVars
  <2> QED
    BY <1>0, <2>1, <2>2 DEF Unmapped
<1>3. CASE Lock(t) \/ SpawnStep(t)
  <2>1. registered' = registered
    BY <1>3 DEF Lock, SpawnStep, regVars
  <2>2. loc[t].op = "delete" => pc[t] = "lock" /\ pc'[t] = "stop"
    BY <1>0, <1>3 DEF Lock, AfterLock, SpawnStep, Goto, Path, StopSteps
  <2> QED
    BY <1>0, <2>1, <2>2 DEF Unmapped
<1>4. CASE StopBegin(t) \/ Finish(t)
  <2>1. registered' = registered
    BY <1>4 DEF StopBegin, Finish, regVars
  <2>2. pc[t] \in {"stop", "finish"} /\ pc'[t] \in {"terminate", AfterStop(loc[t].op)}
    BY <1>0, <1>4 DEF StopBegin, Finish, Goto
  <2> QED
    BY <1>0, <2>1, <2>2 DEF Unmapped, AfterStop
<1>5. CASE Terminate(t) \/ AwaitExit(t) \/ ForceStop(t) \/ Release(t)
  <2>1. registered' = registered
    BY <1>5 DEF Terminate, AwaitExit, ForceStop, Release, regVars
  <2>2. pc[t] \in StopSteps /\ pc'[t] \in StopSteps
    BY <1>0, <1>5 DEF Terminate, AwaitExit, AfterTimeout, ForceStop, Release, Goto, StopSteps
  <2> QED
    BY <1>0, <2>1, <2>2 DEF Unmapped, StopSteps
<1>6. CASE DeleteRow(t) \/ RemoveLogs(t) \/ Return(t)
  BY <1>0, <1>6 DEF DeleteRow, RemoveLogs, Return, Goto, Unmapped, regVars
<1> QED
  BY <1>1, <1>2, <1>3, <1>4, <1>5, <1>6 DEF ActorStep

\* and MapInv.
LEMMA MapStep ==
    ASSUME TypeOK, BootInv, SweepInv, Polite, Drains, ActorInv, CourtesyInv, MapInv, CloseInv,
           [Next]_vars
    PROVE  MapInv'
<1>0. Clients \cap Ids = {}
  BY ConstantsAssumption
<1>1. ASSUME NEW t \in Clients, NEW op \in Operations, NEW i \in Ids, BeginRegister(t, op, i)
      PROVE  MapInv'
  <2>1. /\ i \notin created
        /\ created' = created \cup {i} /\ registered' = registered \cup {i}
        /\ UNCHANGED <<row, boot, autoLeft, sweepLeft>>
    BY <1>1 DEF BeginRegister, bootVars, closeVars
  <2>2. ~Unmapped(t)' /\ loc'[t].id = i /\ boot = "serving"
    BY <1>1, BeginFrame DEF Unmapped
  <2>3. ASSUME NEW u \in Clients, u # t, Busy(u)'
        PROVE  /\ loc'[u].id \in created'
               /\ loc'[u].id \in registered' <=> ~Unmapped(u)'
    <3>1. Busy(u) /\ loc'[u] = loc[u] /\ pc'[u] = pc[u]
      BY <1>1, <2>3, BeginFrame
    <3>2. loc[u].id # i
      BY <2>1, <3>1 DEF MapInv
    <3> QED
      BY <2>1, <3>1, <3>2 DEF MapInv, Unmapped
  <2> QED
    BY <2>1, <2>2, <2>3 DEF MapInv
<1>2. ASSUME NEW t \in Clients, NEW op \in Operations, NEW i \in Ids, BeginCall(t, op, i)
      PROVE  MapInv'
  <2>1. i \in registered /\ UNCHANGED <<created, registered, row, boot, autoLeft, sweepLeft>>
    BY <1>2 DEF BeginCall, regVars, bootVars, closeVars
  <2>2. ~Unmapped(t)' /\ loc'[t].id = i
    BY <1>2, BeginFrame DEF Unmapped
  <2>3. \A u \in Clients \ {t} : loc'[u] = loc[u] /\ pc'[u] = pc[u]
    BY <1>2, BeginFrame
  <2> QED
    BY <2>1, <2>2, <2>3 DEF MapInv, Unmapped
<1>3. ASSUME NEW t \in Actors, ActorStep(t) PROVE MapInv'
  <2>1. /\ Busy(t)
        /\ UNCHANGED <<created, boot, autoLeft, closing, sweepLeft>>
        /\ \A u \in Actors \ {t} : pc'[u] = pc[u] /\ loc'[u] = loc[u]
        /\ pc'[t] # "idle" => loc'[t].id = loc[t].id
        /\ boot # "restore"
    BY <1>3, ActorFrame DEF BootInv
  <2>2. CASE /\ t \in Clients /\ loc[t].op = "delete"
             /\ registered' = registered \ {loc[t].id}
             /\ Unmapped(t)' /\ pc'[t] # "idle"
    <3>1. autoLeft = {} /\ sweepLeft = {}
      BY <2>1, <2>2 DEF ActorInv, MapInv, CloseInv
    <3>2. \A u \in Clients \ {t} : Busy(u) => loc[u].id # loc[t].id
      BY <2>1, <2>2 DEF CourtesyInv, Exclusive
    <3> QED
      BY <2>1, <2>2, <3>1, <3>2 DEF MapInv, Unmapped
  <2>3. CASE registered' = registered /\ (pc'[t] # "idle" => (Unmapped(t)' <=> Unmapped(t)))
    BY <2>1, <2>3 DEF MapInv, Unmapped
  <2> QED
    BY <1>3, <2>2, <2>3, ActorMap
<1>4. ASSUME NEW i \in Ids, SweepEntry(i) PROVE MapInv'
  <2>1. /\ sweepLeft' \subseteq sweepLeft /\ UNCHANGED <<created, registered, row, boot, autoLeft>>
        /\ \A u \in Clients : pc'[u] = pc[u] /\ loc'[u] = loc[u]
    BY <1>0, <1>4, SweepFrame DEF regVars, bootVars
  <2> QED
    BY <2>1 DEF MapInv, Unmapped
<1>5. CASE Restore
  <2>1. sweepLeft' = {} /\ created' = created /\ \A t \in Clients : ~Busy(t)'
    BY <1>5 DEF Restore, BootInv, CloseInv, closeVars
  <2> QED
    BY <1>5, <2>1 DEF Restore, MapInv
<1>6. CASE (\E i \in Ids : AutoStart(i)) \/ AutoStartEnds
  BY <1>6 DEF AutoStart, AutoStartEnds, MapInv, Unmapped, regVars, closeVars
<1>7. CASE StopChildren
  <2>1. /\ UNCHANGED <<created, registered, row, boot, autoLeft, pc, loc>>
        /\ sweepLeft' \in {registered, sweepLeft}
    BY <1>7 DEF StopChildren, regVars, bootVars
  <2> QED
    BY <2>1 DEF MapInv, Unmapped
<1>8. CASE OtherStep /\ ~BootStep /\ ~StopChildren
  <2>0. ASSUME NEW i \in Ids, NEW g \in Gens, RunStep(i, g)
        PROVE  UNCHANGED <<registered, row, boot, autoLeft, sweepLeft>>
    BY <2>0 DEF RunStep, Die, Record, CloseExited, regVars, bootVars, closeVars
  <2>1. UNCHANGED <<registered, row, boot, autoLeft, sweepLeft>>
    BY <1>8, <2>0, CollectorFrame DEF OtherStep, RequestShutdown,
       SweepEnds, CloseDatabase, CloseServerJob, Exit, vars, regVars, bootVars, closeVars
  <2>2. UNCHANGED <<pc, loc, created>>
    BY <1>8, OtherFrame
  <2> QED
    BY <2>1, <2>2 DEF MapInv, Unmapped
<1> QED
  BY <1>1, <1>2, <1>3, <1>4, <1>5, <1>6, <1>7, <1>8, NextCases DEF OtherStep, BootStep

-----------------------------------------------------------------------------
(* What a step does to processes, groups and entries.                      *)

\* No process comes to life, and none that died changes.
ProcWanes ==
    \A i \in Ids, g \in Gens :
        \/ proc'[i][g] = proc[i][g]
        \/ proc[i][g] \in {"up", "doomed"} /\ proc'[i][g] \in {"doomed"} \cup Dead

GroupWanes ==
    \A i \in Ids, g \in Gens : group'[i][g] = "open" => group[i][g] = "open"

\* The entry shows the same run in the same state.
SameRun(i) ==
    /\ live'[i].status = live[i].status
    /\ live'[i].gen = live[i].gen
    /\ live'[i].job = live[i].job

\* A kill brings nothing to life.
LEMMA DoomWanes ==
    ASSUME TypeOK, NEW i \in Ids, NEW g, proc' \in {proc, Doom(i, g)}
    PROVE  /\ ProcWanes
           /\ proc' = Doom(i, g) /\ g \in Gens => proc'[i][g] # "up"
<1>1. CASE proc' = [proc EXCEPT ![i][g] = "doomed"] /\ proc[i][g] = "up" /\ g \in Gens
  <2>1. proc \in [Ids -> [Gens -> ProcStates]]
    BY DEF TypeOK
  <2>2. proc'[i][g] = "doomed" /\ \A j \in Ids, h \in Gens : j # i \/ h # g => proc'[j][h] = proc[j][h]
    BY <1>1, <2>1
  <2> QED
    BY <1>1, <2>2 DEF ProcWanes
<1>2. CASE proc' = proc /\ (proc' = Doom(i, g) /\ g \in Gens => proc[i][g] # "up")
  BY <1>2 DEF ProcWanes
<1>3. proc' = proc /\ proc' = Doom(i, g) /\ g \in Gens => proc[i][g] # "up"
  <2>1. g \in Gens => [proc EXCEPT ![i][g] = "doomed"][i][g] = "doomed"
    BY DEF TypeOK
  <2> QED
    BY <2>1 DEF Doom
<1> QED
  BY <1>1, <1>2, <1>3 DEF Doom

\* A start fails and starts nothing, or starts one process, numbered next.
LEMMA SpawnEffect ==
    ASSUME TypeOK, NEW i \in Ids, NEW marker \in BOOLEAN, Spawn(i, marker)
    PROVE  /\ \A j \in Ids \ {i} : /\ live'[j] = live[j] /\ proc'[j] = proc[j]
                                   /\ watcher'[j] = watcher[j] /\ group'[j] = group[j]
           /\ logs' \subseteq logs \cup {i} /\ collecting' \subseteq collecting \cup {i}
           /\ \/ /\ live'[i].status = "failed" /\ live'[i].gen = live[i].gen
                 /\ live'[i].job = live[i].job
                 /\ UNCHANGED <<proc, watcher, group>>
              \/ \E g \in Gens :
                    /\ g = live[i].gen + 1
                    /\ live'[i].status = "running" /\ live'[i].gen = g
                    /\ proc' = [proc EXCEPT ![i][g] = "up"]
                    /\ watcher' = [watcher EXCEPT ![i][g] = "waiting"]
                    /\ \A h \in Gens : group'[i][h] = "open" =>
                           group[i][h] = "open" \/ (h = g /\ live'[i].job = g)
<1>0. live \in [Ids -> LiveType] /\ live[i] \in LiveType
  BY DEF TypeOK
<1>1. CASE /\ StartFails(i) /\ logs' = IF marker THEN logs \cup {i} ELSE logs
           /\ collecting' = collecting
  <2>1. /\ \A j \in Ids \ {i} : live'[j] = live[j]
        /\ live'[i].status = "failed" /\ live'[i].gen = live[i].gen
        /\ live'[i].job = live[i].job
        /\ UNCHANGED <<proc, watcher, group>>
    BY <1>0, <1>1 DEF StartFails, MarkFailed, LiveType, runVars
  <2> QED
    BY <1>1, <2>1
<1>2. CASE /\ StartSucceeds(i) /\ logs' = logs \cup {i}
           /\ collecting' \in {collecting, collecting \cup {i}}
  <2> DEFINE g == live[i].gen + 1
  <2>1. /\ g \in Gens
        /\ proc' = [proc EXCEPT ![i][g] = "up"]
        /\ watcher' = [watcher EXCEPT ![i][g] = "waiting"]
    BY <1>2 DEF StartSucceeds
  <2>2. PICK job \in {0, g} :
           /\ Contain(i, g, job)
           /\ live' = [live EXCEPT ![i] = Started(@, g, job)]
    BY <1>2 DEF StartSucceeds
  <2> HIDE DEF g
  <2>3. /\ \A j \in Ids \ {i} : live'[j] = live[j]
        /\ live'[i].status = "running" /\ live'[i].gen = g /\ live'[i].job = job
    BY <1>0, <2>2 DEF Started
  <2>4. group' = group \/ (job = g /\ group' = [group EXCEPT ![i][g] = "open"])
    BY <2>2 DEF Contain
  <2>5. /\ \A j \in Ids \ {i} : group'[j] = group[j]
        /\ \A h \in Gens : group'[i][h] = "open" => group[i][h] = "open" \/ (h = g /\ job = g)
    <3>1. group \in [Ids -> [Gens -> {"none", "open", "closed"}]]
      BY DEF TypeOK
    <3>2. CASE group' = group
      BY <3>2
    <3>3. CASE job = g /\ group' = [group EXCEPT ![i][g] = "open"]
      BY <2>1, <3>1, <3>3
    <3> QED
      BY <2>4, <3>2, <3>3
  <2>6. \A j \in Ids \ {i} : proc'[j] = proc[j] /\ watcher'[j] = watcher[j]
    BY <2>1 DEF TypeOK
  <2>7. g = live[i].gen + 1
    BY DEF g
  <2> QED
    BY <1>2, <2>1, <2>3, <2>5, <2>6, <2>7
<1> QED
  BY <1>1, <1>2 DEF Spawn

\* A waiter that records the end of the latest run frees the entry and closes
\* its group, unless a stop was requested; any other waiter changes nothing.
LEMMA RecordEffect ==
    ASSUME TypeOK, NEW i \in Ids, NEW g \in Gens, Record(i, g)
    PROVE  /\ proc[i][g] \in Dead
           /\ UNCHANGED <<proc, pc, loc, registered>>
           /\ \A j \in Ids, h \in Gens : watcher'[j][h] \in {"recorded", "closed"} =>
                  watcher[j][h] \in {"recorded", "closed"} \/ (j = i /\ h = g)
           /\ GroupWanes
           /\ \A j \in Ids \ {i} : live'[j] = live[j]
           /\ \/ SameRun(i)
              \/ /\ live[i].gen = g /\ ~live[i].stopReq
                 /\ live'[i].gen = g /\ live'[i].status # "running"
                 /\ live[i].job \in Gens => group'[i][live[i].job] # "open"
<1>0. live \in [Ids -> LiveType] /\ live[i] \in LiveType
  BY DEF TypeOK
<1>1. /\ proc[i][g] \in Dead /\ UNCHANGED <<proc, pc, loc, registered>>
      /\ watcher' = [watcher EXCEPT ![i][g] = "recorded"]
  BY DEF Record, regVars
<1>2. \A j \in Ids, h \in Gens : watcher'[j][h] \in {"recorded", "closed"} =>
          watcher[j][h] \in {"recorded", "closed"} \/ (j = i /\ h = g)
  BY <1>1 DEF TypeOK
<1>3. CASE live[i].gen # g
  <2>1. UNCHANGED <<live, group>>
    BY <1>3 DEF Record, Current
  <2> QED
    BY <1>1, <1>2, <2>1 DEF GroupWanes, SameRun
<1>4. CASE live[i].gen = g
  <2>1. /\ live' = [live EXCEPT ![i] = Outcome(@, proc[i][g])]
        /\ group' = IF ClosesGroup(live[i])
                    THEN [group EXCEPT ![i][live[i].job] = "closed"] ELSE group
    BY <1>4 DEF Record, Current
  <2>2. /\ \A j \in Ids \ {i} : live'[j] = live[j]
        /\ live[i].stopReq => SameRun(i)
        /\ ~live[i].stopReq => live'[i].gen = g /\ live'[i].status # "running"
    BY <1>0, <1>4, <2>1 DEF Outcome, LiveType, SameRun
  <2>3. GroupWanes
    BY <2>1 DEF TypeOK, GroupWanes
  <2>4. ~live[i].stopReq /\ live[i].job \in Gens => group'[i][live[i].job] # "open"
    BY <2>1, Bounds DEF TypeOK, ClosesGroup
  <2> QED
    BY <1>1, <1>2, <1>4, <2>2, <2>3, <2>4
<1> QED
  BY <1>3, <1>4

\* The lock and the courtesy of clients keep two actors from starting, stopping
\* or removing one entry at a time.
LEMMA Alone ==
    ASSUME TypeOK, LockInv, ActorInv, CourtesyInv,
           NEW t \in Actors, NEW u \in Actors, t # u, loc[t].id = loc[u].id,
           pc[t] \in {"spawn", "start", "stop", "unmap"} \cup StopSteps,
           Vacant(u) \/ pc[u] \in {"stop"} \cup StopSteps
    PROVE  FALSE
<1>0. /\ Clients \cap Ids = {} /\ Busy(t) /\ Busy(u)
      /\ loc[t].op \in Operations \cup {"none", "sweep"}
  BY ConstantsAssumption DEF TypeOK, LocType, Vacant, StopSteps
<1>1. ASSUME pc[t] # "start", pc[u] \in {"spawn", "unmap", "stop"} \cup StopSteps PROVE FALSE
  BY <1>1 DEF LockInv, LockedSteps, StopSteps
<1>2. ASSUME NEW a \in Actors, NEW b \in Actors, a # b, Busy(a), Busy(b), loc[a].id = loc[b].id,
             loc[a].op = "register"
      PROVE  FALSE
  <2>1. a \in Clients /\ closing \in {"no", "requested"}
    BY <1>0, <1>2 DEF ActorInv
  <2>2. b \in Clients
    BY <1>0, <1>2, <2>1 DEF ActorInv
  <2> QED
    BY <1>2, <2>1, <2>2 DEF CourtesyInv, Exclusive
<1>3. pc[t] = "start" => loc[t].op = "register"
  BY <1>0 DEF ActorInv, Path, StopSteps, Operations
<1>4. pc[u] \notin {"spawn", "unmap", "stop"} \cup StopSteps => loc[u].op = "register"
  BY DEF Vacant
<1> QED
  BY <1>0, <1>1, <1>2, <1>3, <1>4

-----------------------------------------------------------------------------
(* One process, one group, one stop.                                       *)

RunPart == SlotInv /\ WaiterInv /\ StopInv

\* What StopInv says of one stopChild under way.
StopAt(t) ==
    LET e == live[loc[t].id] IN
    /\ e.status = "running" /\ e.gen = loc[t].run
    /\ loc[t].pid = loc[t].run /\ loc[t].job = e.job
    /\ pc[t] \in {"waitForced", "release", "finish"} => proc[loc[t].id][loc[t].run] # "up"
    /\ pc[t] = "finish" /\ loc[t].job # Nil => group[loc[t].id][loc[t].job] # "open"

\* StopInv actor by actor.
LEMMA StopAtAll == /\ StopInv <=> \A t \in Actors : pc[t] \in StopSteps => StopAt(t)
                   /\ StopInv' <=> \A t \in Actors : pc'[t] \in StopSteps => StopAt(t)'
  BY DEF StopInv, StopAt

\* A step that shows no other run in any entry and brings nothing to life keeps
\* the entry's slot,
LEMMA SlotKept ==
    ASSUME TypeOK, RunPart, ProcWanes, GroupWanes, UNCHANGED watcher,
           \A i \in Ids : SameRun(i),
           \A i \in Ids \ registered' : live[i].status # "running",
           \A t \in Actors : Vacant(t)' =>
               loc'[t].id \in Ids /\ live[loc'[t].id].status # "running"
    PROVE  SlotInv' /\ WaiterInv'
<1>1. SlotInv'
  <2>1. OneProcess'
    BY DEF RunPart, SlotInv, OneProcess, ProcWanes, SameRun, Dead
  <2>2. \A i \in Ids, g \in Gens :
           group'[i][g] = "open" => live'[i].job = g /\ live'[i].status = "running"
    BY DEF RunPart, SlotInv, GroupWanes, SameRun
  <2>3. /\ \A i \in Ids \ registered' : live'[i].status # "running"
        /\ \A t \in Actors : Vacant(t)' => live'[loc'[t].id].status # "running"
    BY DEF SameRun
  <2> QED
    BY <2>1, <2>2, <2>3 DEF SlotInv
<1>2. WaiterInv'
  BY DEF RunPart, WaiterInv, ProcWanes, Dead
<1> QED
  BY <1>1, <1>2

\* and what a stopChild it does not move knows of it.
LEMMA StopKept ==
    ASSUME TypeOK, RunsInv, RunPart, ProcWanes, GroupWanes,
           NEW t \in Actors, pc[t] \in StopSteps, pc'[t] = pc[t], loc'[t] = loc[t],
           SameRun(loc[t].id)
    PROVE  StopAt(t)'
<1>1. /\ loc[t].id \in Ids
      /\ loc[t].run \in Gens /\ loc[t].job \in {0, loc[t].run}
  BY DEF RunsInv, StopperInv, TypeOK, StopSteps
<1>2. /\ proc[loc[t].id][loc[t].run] # "up" => proc'[loc[t].id][loc[t].run] # "up"
      /\ loc[t].job # 0 /\ group[loc[t].id][loc[t].job] # "open"
            => group'[loc[t].id][loc[t].job] # "open"
  BY <1>1 DEF ProcWanes, GroupWanes, Dead
<1>3. StopAt(t)
  BY StopAtAll DEF RunPart
<1> QED
  BY <1>2, <1>3 DEF StopAt, SameRun

\* Such a step preserves RunPart.
LEMMA RunPartKept ==
    ASSUME TypeOK, RunsInv, RunPart, StopFrame, ProcWanes, GroupWanes, UNCHANGED watcher,
           \A i \in Ids : SameRun(i),
           \A i \in Ids \ registered' : live[i].status # "running",
           \A t \in Actors : Vacant(t)' =>
               loc'[t].id \in Ids /\ live[loc'[t].id].status # "running"
    PROVE  RunPart'
<1>1. ASSUME NEW t \in Actors, pc'[t] \in StopSteps PROVE StopAt(t)'
  <2>1. pc[t] \in StopSteps /\ pc'[t] = pc[t] /\ loc'[t] = loc[t] /\ loc[t].id \in Ids
    BY <1>1 DEF StopFrame, TypeOK, StopSteps
  <2> QED
    BY <2>1, StopKept
<1> QED
  BY <1>1, SlotKept, StopAtAll DEF RunPart

\* A start takes a free entry: nobody stops it, nobody else is about to start.
LEMMA RunPartSpawn ==
    ASSUME TypeOK, RunsInv, RunPart, NEW i \in Ids, NEW marker \in BOOLEAN, Spawn(i, marker),
           live[i].status # "running", i \in registered, UNCHANGED registered,
           \A t \in Actors : pc'[t] \in StopSteps =>
               pc'[t] = pc[t] /\ loc'[t] = loc[t] /\ loc[t].id # i,
           \A t \in Actors : Vacant(t)' =>
               Vacant(t) /\ loc'[t].id = loc[t].id /\ loc[t].id # i /\ loc[t].id \in Ids
    PROVE  RunPart'
<1>0. \A g \in Gens : proc[i][g] # "up" /\ group[i][g] # "open"
  BY DEF RunPart, SlotInv, OneProcess
<1>1. \A j \in Ids \ {i} : /\ live'[j] = live[j] /\ proc'[j] = proc[j]
                           /\ watcher'[j] = watcher[j] /\ group'[j] = group[j]
  BY SpawnEffect
<1>2. StopInv'
  <2> SUFFICES ASSUME NEW t \in Actors, pc'[t] \in StopSteps
               PROVE  /\ pc'[t] = pc[t] /\ loc'[t] = loc[t]
                      /\ live'[loc[t].id] = live[loc[t].id]
                      /\ proc'[loc[t].id] = proc[loc[t].id]
                      /\ group'[loc[t].id] = group[loc[t].id]
    BY DEF RunPart, StopInv
  <2>1. pc'[t] = pc[t] /\ loc'[t] = loc[t] /\ loc[t].id \in Ids \ {i}
    BY DEF TypeOK, StopSteps
  <2> QED
    BY <1>1, <2>1
<1>3. /\ \A j \in Ids \ registered' : live'[j].status # "running"
      /\ \A t \in Actors : Vacant(t)' => live'[loc'[t].id].status # "running"
  BY <1>1 DEF RunPart, SlotInv
<1>4. CASE /\ live'[i].status = "failed" /\ live'[i].gen = live[i].gen
           /\ live'[i].job = live[i].job
           /\ UNCHANGED <<proc, watcher, group>>
  <2>1. OneProcess'
    BY <1>0, <1>1, <1>4 DEF RunPart, SlotInv, OneProcess
  <2>2. \A j \in Ids, g \in Gens :
           group'[j][g] = "open" => live'[j].job = g /\ live'[j].status = "running"
    BY <1>0, <1>1, <1>4 DEF RunPart, SlotInv
  <2>3. WaiterInv'
    BY <1>4 DEF RunPart, WaiterInv
  <2> QED
    BY <1>2, <1>3, <2>1, <2>2, <2>3 DEF RunPart, SlotInv
<1>5. ASSUME NEW g \in Gens, g = live[i].gen + 1,
             live'[i].status = "running", live'[i].gen = g,
             proc' = [proc EXCEPT ![i][g] = "up"],
             watcher' = [watcher EXCEPT ![i][g] = "waiting"],
             \A h \in Gens : group'[i][h] = "open" =>
                 group[i][h] = "open" \/ (h = g /\ live'[i].job = g)
      PROVE  RunPart'
  <2>0. /\ \A h \in Gens \ {g} : proc'[i][h] = proc[i][h] /\ watcher'[i][h] = watcher[i][h]
        /\ watcher'[i][g] = "waiting"
    BY <1>5 DEF TypeOK
  <2>1. OneProcess'
    BY <1>0, <1>1, <1>5, <2>0 DEF RunPart, SlotInv, OneProcess
  <2>2. \A j \in Ids, h \in Gens :
           group'[j][h] = "open" => live'[j].job = h /\ live'[j].status = "running"
    BY <1>0, <1>1, <1>5 DEF RunPart, SlotInv
  <2>3. WaiterInv'
    BY <1>1, <2>0 DEF RunPart, WaiterInv
  <2> QED
    BY <1>2, <1>3, <2>1, <2>2, <2>3 DEF RunPart, SlotInv
<1> QED
  BY <1>4, <1>5, SpawnEffect

\* A request that begins is about a free entry if it is going to start one.
LEMMA RunPartBegin ==
    ASSUME TypeOK, RunsInv, MapInv, RunPart, Polite, Drains,
           NEW t \in Clients, NEW op \in Operations, NEW i \in Ids,
           BeginRegister(t, op, i) \/ BeginCall(t, op, i)
    PROVE  RunPart'
<1>1. /\ ~Busy(t) /\ pc'[t] \in {"persist", "edit", "lock"} /\ loc'[t].op = op /\ loc'[t].id = i
      /\ \A u \in Actors \ {t} : pc'[u] = pc[u] /\ loc'[u] = loc[u]
      /\ UNCHANGED <<live, proc, watcher, group>>
  BY BeginFrame DEF runVars
<1>2. /\ registered \subseteq registered'
      /\ op = "register" => i \notin registered
  BY DEF BeginRegister, BeginCall, MapInv, regVars
<1>3. StopFrame
  BY <1>1 DEF StopFrame, StopSteps
<1>4. ASSUME NEW u \in Actors, Vacant(u)'
      PROVE  loc'[u].id \in Ids /\ live[loc'[u].id].status # "running"
  <2>1. CASE u = t
    BY <1>1, <1>2, <1>4, <2>1 DEF Vacant, RunPart, SlotInv
  <2>2. CASE u # t
    <3>1. Vacant(u) /\ loc'[u] = loc[u] /\ Busy(u)
      BY <1>1, <1>4, <2>2 DEF Vacant
    <3> QED
      BY <3>1 DEF RunPart, SlotInv, TypeOK
  <2> QED
    BY <2>1, <2>2
<1>5. ProcWanes /\ GroupWanes /\ \A j \in Ids : SameRun(j)
  BY <1>1 DEF ProcWanes, GroupWanes, SameRun
<1>6. \A j \in Ids \ registered' : live[j].status # "running"
  BY <1>2 DEF RunPart, SlotInv
<1> QED
  BY <1>1, <1>3, <1>4, <1>5, <1>6, RunPartKept

\* Steps of an operation that concern neither runs nor stops.
LEMMA RunPartQuiet ==
    ASSUME TypeOK, RunsInv, ActorInv, RunPart, NEW t \in Actors,
           Edit(t) \/ Snapshot(t) \/ Save(t) \/ Lock(t) \/ Unmap(t) \/ DeleteRow(t)
               \/ RemoveLogs(t) \/ Return(t)
    PROVE  RunPart'
<1>0. /\ Busy(t) /\ loc[t].id \in Ids /\ pc[t] \in Path(loc[t].op)
      /\ \A u \in Actors \ {t} : pc'[u] = pc[u] /\ loc'[u] = loc[u]
      /\ pc'[t] = "idle" \/ (loc'[t].id = loc[t].id /\ loc'[t].op = loc[t].op)
  BY ActorFrame DEF ActorStep, ActorInv
<1>1. /\ UNCHANGED <<live, proc, watcher, group>>
      /\ pc[t] \in {"edit", "persist", "save", "lock", "unmap", "deleteRow", "removeLogs", "return"}
      /\ pc' = [pc EXCEPT ![t] = pc'[t]]
      /\ pc'[t] \notin StopSteps
  <2>1. /\ pc[t] \in {"edit", "persist", "save", "lock", "unmap", "deleteRow", "removeLogs", "return"}
        /\ UNCHANGED <<live, proc, watcher, group>>
    BY DEF Edit, Snapshot, Save, Lock, Unmap, DeleteRow, RemoveLogs, Return, runVars
  <2>2. \E step \in {"persist", "save", "start", "return", "spawn", "stop", "deleteRow",
                     "removeLogs", "idle"} : pc' = [pc EXCEPT ![t] = step]
    BY DEF Edit, Snapshot, Save, Lock, Unmap, DeleteRow, RemoveLogs, Return, AfterSave,
       AfterLock, Goto
  <2> QED
    BY <2>1, <2>2 DEF TypeOK, StopSteps
<1>2. Vacant(t)' => Vacant(t) /\ loc'[t].id = loc[t].id
  <2>1. pc'[t] \in {"unmap"} => FALSE
    BY DEF TypeOK, Edit, Snapshot, Save, Lock, Unmap, DeleteRow, RemoveLogs, Return, AfterSave,
       AfterLock, Goto
  <2>2. pc'[t] = "spawn" => loc[t].op = "run"
    BY DEF TypeOK, Edit, Snapshot, Save, Lock, Unmap, DeleteRow, RemoveLogs, Return, AfterSave,
       AfterLock, Goto
  <2>3. pc'[t] \in {"persist", "save", "start"} => pc[t] \in {"edit", "persist", "save"}
    BY DEF TypeOK, Edit, Snapshot, Save, Lock, Unmap, DeleteRow, RemoveLogs, Return, AfterSave,
       AfterLock, Goto
  <2>4. pc[t] = "edit" => loc[t].op # "register"
    BY <1>0 DEF Path
  <2> QED
    BY <1>0, <2>1, <2>2, <2>3, <2>4 DEF Vacant
<1>3. \A i \in Ids \ registered' : live[i].status # "running"
  <2>1. registered' = registered \/ (Unmap(t) /\ registered' = registered \ {loc[t].id})
    BY DEF Edit, Snapshot, Save, Lock, Unmap, DeleteRow, RemoveLogs, Return, regVars
  <2>2. Unmap(t) => Vacant(t)
    BY DEF Unmap, Vacant
  <2> QED
    BY <2>1, <2>2 DEF RunPart, SlotInv
<1>4. StopFrame
  BY <1>0, <1>1 DEF StopFrame, StopSteps
<1>5. ASSUME NEW u \in Actors, Vacant(u)'
      PROVE  loc'[u].id \in Ids /\ live[loc'[u].id].status # "running"
  <2>1. Vacant(u) /\ loc'[u].id = loc[u].id
    BY <1>0, <1>2, <1>5 DEF Vacant
  <2> QED
    BY <2>1 DEF RunPart, SlotInv, TypeOK, Vacant
<1>6. ProcWanes /\ GroupWanes /\ \A i \in Ids : SameRun(i)
  BY <1>1 DEF ProcWanes, GroupWanes, SameRun
<1> QED
  BY <1>1, <1>3, <1>4, <1>5, <1>6, RunPartKept

\* A start is made only where the entry shows no run.
LEMMA StartFree ==
    ASSUME TypeOK, ActorInv, RunPart, NEW t \in Actors, RegisterStart(t) \/ SpawnStep(t)
    PROVE  \/ UNCHANGED <<live, logs, runVars, groupVars>>
           \/ /\ live[loc[t].id].status # "running"
              /\ \E marker \in BOOLEAN : Spawn(loc[t].id, marker)
<1>1. Vacant(t) => live[loc[t].id].status # "running"
  BY DEF RunPart, SlotInv
<1>2. CASE RegisterStart(t)
  <2>1. pc[t] = "start" /\ pc[t] \in Path(loc[t].op) /\ loc[t].op \in Operations \cup {"none", "sweep"}
    BY <1>2 DEF RegisterStart, ActorInv, TypeOK, LocType
  <2>2. Vacant(t)
    BY <2>1 DEF Path, StopSteps, Operations, Vacant
  <2> QED
    BY <1>1, <1>2, <2>2 DEF RegisterStart
<1>3. CASE SpawnStep(t)
  <2>1. /\ loc[t].op # "run" => Vacant(t)
        /\ \/ UNCHANGED <<live, logs, runVars, groupVars>>
           \/ ~(loc[t].op = "run" /\ live[loc[t].id].status = "running") /\ Spawn(loc[t].id, TRUE)
    BY <1>3 DEF SpawnStep, Vacant
  <2> QED
    BY <1>1, <2>1
<1> QED
  BY <1>2, <1>3

\* The starts: of a new entry, of run, of restart.
LEMMA RunPartStart ==
    ASSUME TypeOK, LockInv, RunsInv, ActorInv, CourtesyInv, MapInv, RunPart, NEW t \in Actors,
           RegisterStart(t) \/ SpawnStep(t)
    PROVE  RunPart'
<1> DEFINE i == loc[t].id
<1>0. /\ Busy(t) /\ i \in Ids /\ pc[t] \in Path(loc[t].op) /\ pc[t] \in {"spawn", "start"}
      /\ pc'[t] = "return" /\ loc' = loc /\ registered' = registered
      /\ \A u \in Actors \ {t} : pc'[u] = pc[u]
      /\ loc[t].op \in Operations \cup {"none", "sweep"}
  BY DEF RegisterStart, SpawnStep, Goto, TypeOK, ActorInv, LocType, regVars
<1>1. loc[t].op \in {"register", "run", "restart"} /\ (pc[t] = "start" => loc[t].op = "register")
  BY <1>0 DEF Path, StopSteps, Operations
<1>2. t \in Clients /\ i \in registered
  BY <1>0, <1>1 DEF ActorInv, MapInv, Unmapped
<1>3. StopFrame
  BY <1>0 DEF StopFrame, StopSteps
<1>4. CASE UNCHANGED <<live, logs, runVars, groupVars>>
  <2>1. ProcWanes /\ GroupWanes /\ (\A j \in Ids : SameRun(j)) /\ watcher' = watcher
    BY <1>4 DEF ProcWanes, GroupWanes, SameRun, runVars
  <2>2. ASSUME NEW u \in Actors, Vacant(u)'
        PROVE  loc'[u].id \in Ids /\ live[loc'[u].id].status # "running"
    <3>1. Vacant(u)
      BY <1>0, <2>2 DEF Vacant
    <3> QED
      BY <1>0, <3>1 DEF RunPart, SlotInv, TypeOK, Vacant
  <2>3. \A j \in Ids \ registered' : live[j].status # "running"
    BY <1>0 DEF RunPart, SlotInv
  <2> QED
    BY <1>3, <2>1, <2>2, <2>3, RunPartKept
<1>5. ASSUME NEW marker \in BOOLEAN, Spawn(i, marker), live[i].status # "running"
      PROVE  RunPart'
  <2>1. ASSUME NEW u \in Actors, pc'[u] \in StopSteps
        PROVE  pc'[u] = pc[u] /\ loc'[u] = loc[u] /\ loc[u].id # i
    <3>1. u # t /\ pc'[u] = pc[u]
      BY <1>0, <2>1 DEF StopSteps
    <3> QED
      BY <1>0, <2>1, <3>1, Alone
  <2>2. ASSUME NEW u \in Actors, Vacant(u)'
        PROVE  Vacant(u) /\ loc'[u].id = loc[u].id /\ loc[u].id # i /\ loc[u].id \in Ids
    <3>1. u # t /\ pc'[u] = pc[u] /\ Vacant(u)
      BY <1>0, <2>2 DEF Vacant
    <3> QED
      BY <1>0, <3>1, Alone DEF TypeOK, Vacant
  <2> QED
    BY <1>0, <1>2, <1>5, <2>1, <2>2, RunPartSpawn
<1> QED
  BY <1>4, <1>5, StartFree

\* stopChild begins: it captures what the entry shows, and no other stopChild
\* knows the entry.
LEMMA RunPartStopBegin ==
    ASSUME TypeOK, LockInv, RunsInv, ActorInv, CourtesyInv, RunPart, NEW t \in Actors, StopBegin(t)
    PROVE  RunPart'
<1> DEFINE i == loc[t].id
<1>0. /\ pc[t] = "stop" /\ i \in Ids /\ live[i] \in LiveType /\ loc[t] \in LocType
      /\ UNCHANGED <<proc, watcher, group, registered>>
      /\ \A u \in Actors \ {t} : pc'[u] = pc[u] /\ loc'[u] = loc[u]
  BY ActorFrame DEF TypeOK, StopBegin, ActorStep, regVars, runVars
<1>1. ProcWanes /\ GroupWanes
  BY <1>0 DEF ProcWanes, GroupWanes
<1>2. \A j \in Ids \ registered' : live[j].status # "running"
  BY <1>0 DEF RunPart, SlotInv
<1>3. ASSUME NEW u \in Actors, u # t, Vacant(u)'
      PROVE  loc'[u].id \in Ids /\ live[loc'[u].id].status # "running"
  <2>1. Vacant(u) /\ loc'[u] = loc[u]
    BY <1>0, <1>3 DEF Vacant
  <2> QED
    BY <2>1 DEF RunPart, SlotInv, TypeOK, Vacant
<1>4. CASE live[i].status # "running"
  <2>1. UNCHANGED <<live, loc>> /\ pc'[t] \notin StopSteps
    BY <1>0, <1>4 DEF TypeOK, StopBegin, AfterStop, StopSteps, Goto
  <2>2. StopFrame /\ \A j \in Ids : SameRun(j)
    BY <1>0, <2>1 DEF StopFrame, StopSteps, SameRun
  <2> QED
    BY <1>0, <1>1, <1>2, <1>3, <1>4, <2>1, <2>2, RunPartKept
<1>5. CASE live[i].status = "running"
  <2>1. /\ live' = [live EXCEPT ![i].stopReq = TRUE]
        /\ loc' = [loc EXCEPT ![t] = [@ EXCEPT !.job = live[i].job,
                                               !.pid = live[i].pid,
                                               !.run = live[i].gen]]
        /\ pc' = [pc EXCEPT ![t] = "terminate"]
    BY <1>5 DEF StopBegin, Goto
  <2>2. \A j \in Ids : SameRun(j)
    BY <1>0, <2>1 DEF TypeOK, LiveType, SameRun
  <2>3. /\ loc'[t].id = i /\ loc'[t].job = live[i].job /\ loc'[t].run = live[i].gen
        /\ loc'[t].pid = live[i].pid
        /\ pc'[t] = "terminate"
    BY <1>0, <2>1 DEF TypeOK, LocType
  <2>4. live[i].pid = live[i].gen
    BY <1>0, <1>5 DEF RunsInv, RunningIsOwned
  <2>5. SlotInv'
    <3>1. OneProcess'
      BY <1>0, <2>2 DEF RunPart, SlotInv, OneProcess, SameRun
    <3>2. \A j \in Ids, g \in Gens :
             group'[j][g] = "open" => live'[j].job = g /\ live'[j].status = "running"
      BY <1>0, <2>2 DEF RunPart, SlotInv, SameRun
    <3>3. ~Vacant(t)'
      BY <2>3 DEF Vacant
    <3>4. /\ \A j \in Ids \ registered' : live'[j].status # "running"
          /\ \A u \in Actors : Vacant(u)' => live'[loc'[u].id].status # "running"
      BY <1>2, <1>3, <2>2, <3>3 DEF SameRun
    <3> QED
      BY <3>1, <3>2, <3>4 DEF SlotInv
  <2>6. WaiterInv'
    BY <1>0 DEF RunPart, WaiterInv
  <2>7. StopInv'
    <3>1. ASSUME NEW u \in Actors, u # t, pc'[u] \in StopSteps
          PROVE  pc'[u] = pc[u] /\ loc'[u] = loc[u] /\ SameRun(loc[u].id)
      BY <1>0, <2>2, <3>1 DEF TypeOK, StopSteps
    <3>2. ASSUME NEW u \in Actors, u # t, pc'[u] \in StopSteps
          PROVE  LET e == live'[loc'[u].id] IN
                 /\ e.status = "running" /\ e.gen = loc'[u].run
                 /\ loc'[u].pid = loc'[u].run /\ loc'[u].job = e.job
                 /\ pc'[u] \in {"waitForced", "release", "finish"}
                       => proc'[loc'[u].id][loc'[u].run] # "up"
                 /\ pc'[u] = "finish" /\ loc'[u].job # 0
                       => group'[loc'[u].id][loc'[u].job] # "open"
      BY <1>0, <3>1, <3>2 DEF RunPart, StopInv, SameRun
    <3>3. SameRun(i)
      BY <1>0, <2>2
    <3> QED
      BY <1>5, <2>3, <2>4, <3>2, <3>3 DEF StopInv, SameRun
  <2> QED
    BY <2>5, <2>6, <2>7 DEF RunPart
<1> QED
  BY <1>4, <1>5

\* The steps of a stopChild before its last only end processes.
LEMMA MovesWane ==
    ASSUME TypeOK, NEW t \in Actors,
           Terminate(t) \/ AwaitExit(t) \/ ForceStop(t) \/ Release(t)
    PROVE  ProcWanes /\ live' = live
<1>1. CASE AwaitExit(t) \/ Release(t)
  BY <1>1 DEF AwaitExit, Release, ProcWanes, runVars
<1>2. CASE Terminate(t) \/ ForceStop(t)
  <2>1. /\ loc[t].id \in Ids /\ live' = live
        /\ proc' \in {proc, Doom(loc[t].id, loc[t].job), Doom(loc[t].id, loc[t].pid)}
    BY <1>2 DEF TypeOK, Terminate, ForceStop
  <2> QED
    BY <2>1, DoomWanes
<1> QED
  BY <1>1, <1>2

\* stopChild signals, waits, forces and gives the group back: only its own view
\* of the run moves on.
LEMMA RunPartMoves ==
    ASSUME TypeOK, LockInv, RunsInv, ActorInv, RunPart, NEW t \in Actors,
           Terminate(t) \/ AwaitExit(t) \/ ForceStop(t) \/ Release(t)
    PROVE  RunPart'
<1> DEFINE i == loc[t].id
<1>0. /\ pc[t] \in StopSteps /\ pc'[t] \in StopSteps /\ i \in Ids
      /\ UNCHANGED <<live, watcher, registered>>
      /\ \A u \in Actors \ {t} : pc'[u] = pc[u] /\ loc'[u] = loc[u]
  <2>1. /\ pc[t] \in StopSteps /\ UNCHANGED <<live, watcher, registered>>
        /\ \E step \in StopSteps : pc' = [pc EXCEPT ![t] = step]
    BY DEF Terminate, AwaitExit, AfterTimeout, ForceStop, Release, Goto, StopSteps, regVars, runVars
  <2> QED
    BY <2>1, ActorFrame DEF ActorStep, TypeOK
<1>1. loc'[t].id = i /\ loc'[t].run = loc[t].run /\ loc'[t].job = loc[t].job /\ loc'[t].pid = loc[t].pid
  <2>1. loc \in [Actors -> LocType] /\ loc[t] \in LocType
    BY DEF TypeOK
  <2> QED
    BY <2>1 DEF Terminate, AwaitExit, ForceStop, Release, LocType
<1>2. /\ StopAt(t)
      /\ loc[t].run \in Gens /\ loc[t].job \in {0, loc[t].run} /\ loc[t].pid = loc[t].run
  BY <1>0, StopAtAll DEF RunPart, StopAt, RunsInv, StopperInv
<1>3. ProcWanes
  BY MovesWane
<1>4. GroupWanes
  <2>1. CASE ~Release(t)
    BY <2>1 DEF Terminate, AwaitExit, ForceStop, GroupWanes, runVars
  <2>2. CASE Release(t)
    BY <2>2 DEF TypeOK, Release, GroupWanes
  <2> QED
    BY <2>1, <2>2
<1>5. \A j \in Ids : SameRun(j)
  BY <1>0 DEF SameRun
<1>6. SlotInv' /\ WaiterInv'
  <2>1. \A j \in Ids \ registered' : live[j].status # "running"
    BY <1>0 DEF RunPart, SlotInv
  <2>2. ASSUME NEW u \in Actors, Vacant(u)'
        PROVE  loc'[u].id \in Ids /\ live[loc'[u].id].status # "running"
    <3>1. u # t
      BY <1>0, <2>2 DEF Vacant, StopSteps
    <3>2. Vacant(u) /\ loc'[u] = loc[u]
      BY <1>0, <2>2, <3>1 DEF Vacant
    <3> QED
      BY <3>2 DEF RunPart, SlotInv, TypeOK, Vacant
  <2> QED
    BY <1>0, <1>3, <1>4, <1>5, <2>1, <2>2, SlotKept
<1>7. ASSUME NEW u \in Actors, u # t, pc'[u] \in StopSteps PROVE StopAt(u)'
  <2>1. pc[u] \in StopSteps /\ pc'[u] = pc[u] /\ loc'[u] = loc[u] /\ loc[u].id \in Ids
    BY <1>0, <1>7 DEF TypeOK, StopSteps
  <2> QED
    BY <1>3, <1>4, <1>5, <2>1, StopKept
<1>8. StopAt(t)'
  <2>1. pc'[t] \in {"waitForced", "release", "finish"} => proc'[i][loc[t].run] # "up"
    <3>1. CASE Terminate(t)
      BY <3>1 DEF Terminate, Goto, TypeOK
    <3>2. CASE AwaitExit(t)
      <4>1. proc' = proc
        BY <3>2 DEF AwaitExit, runVars
      <4>2. Exited(t) => proc[i][loc[t].run] # "up"
        BY <1>0, <1>2 DEF Exited, RunPart, WaiterInv, Dead
      <4>3. Exited(t) \/ pc[t] = "waitForced" \/ pc'[t] = "force"
        BY <3>2 DEF AwaitExit, AfterTimeout, Goto, TypeOK
      <4> QED
        BY <1>2, <4>1, <4>2, <4>3 DEF StopAt
    <3>3. CASE ForceStop(t)
      <4>1. proc' = Doom(i, loc[t].run)
        BY <1>2, <3>3 DEF ForceStop
      <4> QED
        BY <1>0, <1>2, <4>1, DoomWanes
    <3>4. CASE Release(t)
      BY <1>2, <3>4 DEF Release, StopAt
    <3> QED
      BY <3>1, <3>2, <3>3, <3>4
  <2>2. pc'[t] = "finish" /\ loc[t].job # 0 => group'[i][loc[t].job] # "open"
    <3>1. CASE Release(t)
      <4>1. loc[t].job # 0 => group' = [group EXCEPT ![i][loc[t].job] = "closed"]
        BY <3>1 DEF Release
      <4>2. group \in [Ids -> [Gens -> {"none", "open", "closed"}]]
        BY DEF TypeOK
      <4>3. loc[t].job # 0 => loc[t].job \in Gens
        BY <1>2
      <4>4. ASSUME NEW j \in Gens, group' = [group EXCEPT ![i][j] = "closed"]
            PROVE  group'[i][j] = "closed"
        <5>1. group' = [group EXCEPT ![i] = [group[i] EXCEPT ![j] = "closed"]]
          BY <4>4
        <5>2. i \in Ids
          BY <1>0
        <5>3. group'[i] = [group[i] EXCEPT ![j] = "closed"]
          BY <4>2, <5>1, <5>2
        <5>4. group[i] \in [Gens -> {"none", "open", "closed"}]
          BY <4>2, <5>2
        <5> QED BY <5>3, <5>4
      <4> QED
        BY <4>1, <4>3, <4>4
    <3>2. CASE ~Release(t)
      BY <3>2 DEF TypeOK, Terminate, AwaitExit, AfterTimeout, ForceStop, Goto
    <3> QED
      BY <3>1, <3>2
  <2> QED
    BY <1>0, <1>1, <1>2, <2>1, <2>2 DEF StopAt
<1> QED
  BY <1>6, <1>7, <1>8, StopAtAll DEF RunPart

\* stopChild ends: the entry's slot is free, and nothing of the run is left that
\* could go on.
LEMMA RunPartFinish ==
    ASSUME TypeOK, LockInv, RunsInv, ActorInv, CourtesyInv, RunPart, NEW t \in Actors, Finish(t)
    PROVE  RunPart'
<1> DEFINE i == loc[t].id
<1>0. /\ pc[t] = "finish" /\ i \in Ids /\ loc' = loc
      /\ UNCHANGED <<proc, watcher, group, registered>>
      /\ \A u \in Actors \ {t} : pc'[u] = pc[u]
      /\ pc'[t] \notin StopSteps
      /\ live' = [live EXCEPT ![i] = Stopped(@, loc[t].waited)]
  BY DEF TypeOK, Finish, Goto, AfterStop, StopSteps, regVars, runVars
<1>1. /\ \A j \in Ids \ {i} : live'[j] = live[j]
      /\ live'[i].status = "stopped" /\ live'[i].gen = live[i].gen
  BY <1>0 DEF TypeOK, LiveType, Stopped
<1>2. /\ live[i].gen = loc[t].run /\ live[i].job = loc[t].job
      /\ loc[t].run \in Gens /\ loc[t].job \in {0, loc[t].run}
      /\ proc[i][loc[t].run] # "up"
      /\ loc[t].job # 0 => group[i][loc[t].job] # "open"
  BY <1>0, StopAtAll DEF RunPart, StopAt, RunsInv, StopperInv, StopSteps
<1>3. \A g \in Gens : proc[i][g] # "up" /\ group[i][g] # "open"
  <2>1. 0 \notin Gens
    BY Bounds
  <2> QED
    BY <1>0, <1>2, <2>1 DEF RunPart, SlotInv, OneProcess
<1>4. SlotInv'
  <2>1. OneProcess'
    BY <1>0, <1>1, <1>3 DEF RunPart, SlotInv, OneProcess
  <2>2. \A j \in Ids, g \in Gens :
           group'[j][g] = "open" => live'[j].job = g /\ live'[j].status = "running"
    BY <1>0, <1>1, <1>3 DEF RunPart, SlotInv
  <2>3. \A j \in Ids \ registered' : live'[j].status # "running"
    BY <1>0, <1>1 DEF RunPart, SlotInv
  <2>4. ASSUME NEW u \in Actors, Vacant(u)' PROVE live'[loc'[u].id].status # "running"
    <3>1. CASE u = t
      BY <1>0, <1>1, <3>1
    <3>2. CASE u # t
      <4>1. Vacant(u) /\ loc[u].id \in Ids
        BY <1>0, <2>4, <3>2 DEF Vacant, TypeOK
      <4> QED
        BY <1>0, <1>1, <4>1 DEF RunPart, SlotInv
    <3> QED
      BY <3>1, <3>2
  <2> QED
    BY <2>1, <2>2, <2>3, <2>4 DEF SlotInv
<1>5. WaiterInv'
  BY <1>0 DEF RunPart, WaiterInv
<1>6. ASSUME NEW u \in Actors, pc'[u] \in StopSteps PROVE StopAt(u)'
  <2>1. u # t /\ pc'[u] = pc[u] /\ pc[u] \in StopSteps /\ loc[u].id \in Ids
    BY <1>0, <1>6 DEF TypeOK, StopSteps
  <2>2. loc[u].id # i
    BY <1>0, <2>1, Alone DEF StopSteps
  <2>3. SameRun(loc[u].id) /\ ProcWanes /\ GroupWanes
    BY <1>0, <1>1, <2>1, <2>2 DEF SameRun, ProcWanes, GroupWanes
  <2> QED
    BY <1>0, <2>1, <2>3, StopKept
<1> QED
  BY <1>4, <1>5, <1>6, StopAtAll DEF RunPart

\* Processes end, waiters record, the server boots and shuts down.
LEMMA RunPartOther ==
    ASSUME TypeOK, BootInv, RunsInv, ActorInv, MapInv, RunPart, OtherStep
    PROVE  RunPart'
<1>0. UNCHANGED <<pc, loc, opMu, created>> /\ StopFrame
  BY OtherFrame DEF StopFrame
<1>1. ASSUME NEW t \in Actors, Vacant(t)'
      PROVE  loc'[t].id \in Ids /\ live[loc'[t].id].status # "running" /\ Vacant(t) /\ Busy(t)
  BY <1>0, <1>1 DEF RunPart, SlotInv, TypeOK, Vacant
<1>2. \A j \in Ids \ registered : live[j].status # "running"
  BY DEF RunPart, SlotInv
<1>3. ASSUME UNCHANGED <<live, watcher>>, ProcWanes, GroupWanes, registered \subseteq registered'
      PROVE  RunPart'
  <2>1. \A j \in Ids : SameRun(j)
    BY <1>3 DEF SameRun
  <2> QED
    BY <1>0, <1>1, <1>2, <1>3, <2>1, RunPartKept
<1>4. ASSUME NEW i \in Ids, NEW g \in Gens, Die(i, g) PROVE RunPart'
  <2>1. /\ proc[i][g] \in {"up", "doomed"} /\ \E code \in Dead : proc' = [proc EXCEPT ![i][g] = code]
        /\ UNCHANGED <<live, watcher, group, registered>>
    BY <1>4 DEF Die, Dead, regVars
  <2>2. ProcWanes /\ GroupWanes
    BY <2>1 DEF TypeOK, ProcWanes, GroupWanes
  <2> QED
    BY <1>3, <2>1, <2>2
<1>5. ASSUME NEW i \in Ids, NEW g \in Gens, Record(i, g) PROVE RunPart'
  <2>1. /\ proc[i][g] \in Dead /\ UNCHANGED <<proc, registered>> /\ GroupWanes /\ ProcWanes
        /\ \A j \in Ids \ {i} : live'[j] = live[j]
    BY <1>5, RecordEffect DEF ProcWanes
  <2>2. WaiterInv'
    BY <1>5, <2>1, RecordEffect DEF RunPart, WaiterInv
  <2>3. CASE SameRun(i)
    <3>1. \A j \in Ids : SameRun(j)
      BY <2>1, <2>3 DEF SameRun
    <3>2. OneProcess'
      BY <2>1, <3>1 DEF RunPart, SlotInv, OneProcess, SameRun
    <3>3. SlotInv'
      BY <1>1, <1>2, <2>1, <3>1, <3>2 DEF RunPart, SlotInv, GroupWanes, SameRun
    <3>4. ASSUME NEW t \in Actors, pc'[t] \in StopSteps PROVE StopAt(t)'
      <4>1. loc[t].id \in Ids
        BY <1>0, <3>4 DEF TypeOK, StopSteps
      <4> QED
        BY <1>0, <2>1, <3>1, <3>4, <4>1, StopKept
    <3> QED
      BY <2>2, <3>3, <3>4, StopAtAll DEF RunPart
  <2>4. CASE /\ live[i].gen = g /\ ~live[i].stopReq
             /\ live'[i].gen = g /\ live'[i].status # "running"
             /\ live[i].job \in Gens => group'[i][live[i].job] # "open"
    <3>1. OneProcess'
      BY <2>1, <2>4 DEF RunPart, SlotInv, OneProcess, Dead
    <3>2. \A j \in Ids, h \in Gens :
             group'[j][h] = "open" => live'[j].job = h /\ live'[j].status = "running"
      BY <2>1, <2>4 DEF RunPart, SlotInv, GroupWanes
    <3>3. /\ \A j \in Ids \ registered' : live'[j].status # "running"
          /\ \A t \in Actors : Vacant(t)' => live'[loc'[t].id].status # "running"
      BY <1>1, <1>2, <2>1, <2>4
    <3>4. ASSUME NEW t \in Actors, pc'[t] \in StopSteps PROVE StopAt(t)'
      <4>1. /\ loc[t].id \in Ids /\ live[loc[t].id].gen = loc[t].run
            /\ live[loc[t].id].stopReq
        BY <1>0, <3>4, StopAtAll DEF TypeOK, StopSteps, RunPart, StopAt, RunsInv, StopperInv
      <4>2. SameRun(loc[t].id)
        BY <2>1, <2>4, <4>1 DEF SameRun
      <4> QED
        BY <1>0, <2>1, <3>4, <4>2, StopKept
    <3> QED
      BY <2>2, <3>1, <3>2, <3>3, <3>4, StopAtAll DEF RunPart, SlotInv
  <2> QED
    BY <1>5, <2>3, <2>4, RecordEffect
<1>6. ASSUME NEW i \in Ids, NEW g \in Gens, CloseExited(i, g) PROVE RunPart'
  <2>1. /\ watcher[i][g] = "recorded" /\ watcher' = [watcher EXCEPT ![i][g] = "closed"]
        /\ UNCHANGED <<live, proc, group, registered>>
    BY <1>6 DEF CloseExited, regVars
  <2>2. WaiterInv'
    BY <2>1 DEF TypeOK, RunPart, WaiterInv
  <2>3. SlotInv' /\ StopInv'
    BY <1>0, <2>1 DEF RunPart, SlotInv, OneProcess, StopInv, Vacant
  <2> QED
    BY <2>2, <2>3 DEF RunPart
<1>7. CASE Restore
  <2>1. /\ \A i \in Ids : live[i] = NoLive
        /\ live' = [i \in Ids |-> NoLive]
        /\ \A t \in Actors : pc[t] = "idle"
        /\ UNCHANGED <<proc, watcher, group>>
    BY <1>7 DEF BootInv, Restore, runVars
  <2>2. \A i \in Ids : SameRun(i)
    BY <2>1 DEF SameRun
  <2>3. ProcWanes /\ GroupWanes
    BY <2>1 DEF ProcWanes, GroupWanes
  <2>4. \A i \in Ids : live[i].status # "running"
    BY <2>1 DEF NoLive
  <2> QED
    BY <1>0, <1>1, <2>1, <2>2, <2>3, <2>4, RunPartKept
<1>8. ASSUME NEW i \in Ids, AutoStart(i) PROVE RunPart'
  <2>1. /\ boot = "autostart" /\ closing = "no" /\ i \in autoLeft /\ registered' = registered
    BY <1>8 DEF AutoStart, regVars
  <2>2. \A t \in Actors : ~Busy(t)
    BY <2>1 DEF ActorInv
  <2>3. CASE Spawn(i, TRUE) /\ live[i].status # "running"
    <3>1. i \in registered
      BY <2>1 DEF MapInv
    <3>2. \A t \in Actors : pc'[t] \notin StopSteps /\ ~Vacant(t)'
      BY <1>0, <1>1, <2>2 DEF StopSteps
    <3> QED
      BY <2>1, <2>3, <3>1, <3>2, RunPartSpawn
  <2>4. CASE UNCHANGED <<live, logs, runVars, groupVars>>
    BY <1>3, <2>1, <2>4 DEF ProcWanes, GroupWanes, runVars
  <2> QED
    BY <1>8, <2>3, <2>4 DEF AutoStart
<1>9. CASE CloseServerJob
  <2>1. ProcWanes
    BY <1>9 DEF CloseServerJob, ProcWanes
  <2> QED
    BY <1>3, <1>9, <2>1 DEF CloseServerJob, GroupWanes, regVars
<1>10. CASE AutoStartEnds \/ RequestShutdown \/ StopChildren \/ SweepEnds \/ CloseDatabase \/ Exit
            \/ UNCHANGED vars
  BY <1>3, <1>10 DEF AutoStartEnds, RequestShutdown, StopChildren, SweepEnds, CloseDatabase, Exit,
     vars, ProcWanes, GroupWanes, regVars, runVars
<1>11. ASSUME NEW i \in Ids, CollectorStep(i) PROVE RunPart'
  BY <1>3, <1>11, CollectorFrame DEF ProcWanes, GroupWanes, regVars, runVars
<1> QED
  BY <1>4, <1>5, <1>6, <1>7, <1>8, <1>9, <1>10, <1>11 DEF OtherStep, RunStep, BootStep

\* So every step preserves RunPart.
LEMMA RunPartStep ==
    ASSUME TypeOK, BootInv, SweepInv, LockInv, RunsInv, Polite, Drains,
           ActorInv, CourtesyInv, MapInv, RunPart, [Next]_vars
    PROVE  RunPart'
<1>1. ASSUME NEW t \in Actors, ActorStep(t) PROVE RunPart'
  BY <1>1, RunPartQuiet, RunPartStart, RunPartStopBegin, RunPartMoves, RunPartFinish DEF ActorStep
<1>2. ASSUME NEW i \in Ids, SweepEntry(i) PROVE RunPart'
  <2>1. /\ ~Busy(i) /\ pc'[i] \in {"lock", "idle"}
        /\ \A u \in Actors \ {i} : pc'[u] = pc[u] /\ loc'[u] = loc[u]
        /\ UNCHANGED <<live, proc, watcher, group, registered>>
    BY <1>2, SweepFrame DEF regVars, runVars
  <2>2. StopFrame
    BY <2>1 DEF StopFrame, StopSteps
  <2>3. ProcWanes /\ GroupWanes /\ \A j \in Ids : SameRun(j)
    BY <2>1 DEF ProcWanes, GroupWanes, SameRun
  <2>4. ASSUME NEW u \in Actors, Vacant(u)'
        PROVE  loc'[u].id \in Ids /\ live[loc'[u].id].status # "running"
    <3>1. Vacant(u) /\ loc'[u] = loc[u]
      BY <2>1, <2>4 DEF Vacant
    <3> QED
      BY <3>1 DEF RunPart, SlotInv, TypeOK, Vacant
  <2>5. \A j \in Ids \ registered' : live[j].status # "running"
    BY <2>1 DEF RunPart, SlotInv
  <2> QED
    BY <2>1, <2>2, <2>3, <2>4, <2>5, RunPartKept
<1> QED
  BY <1>1, <1>2, RunPartBegin, RunPartOther, NextCases

-----------------------------------------------------------------------------
(* Rows and logs.                                                          *)

WriteSteps == {"persist", "save", "deleteRow"}

\* A step that touches no row, no registration and no operation that writes.
LEMMA StoreKept ==
    ASSUME StoreInv, UNCHANGED <<version, row, unpersisted, registered>>,
           boot' # "restore" => boot # "restore",
           \A t \in Clients : pc[t] \in WriteSteps \/ pc'[t] \in WriteSteps =>
               pc'[t] = pc[t] /\ loc'[t] = loc[t]
    PROVE  StoreInv'
<1>1. \A i \in Ids : Pending(i) => Pending(i)'
  BY DEF Pending, WriteSteps
<1> QED
  BY <1>1 DEF StoreInv, WriteSteps

\* The writes themselves: the row is what the registration is, or the answer
\* says not persisted.
LEMMA StoreWrite ==
    ASSUME TypeOK, BootInv, StoreInv, NEW t \in Clients, NEW v, NEW i \in Ids,
           i = loc[t].id, pc[t] \in WriteSteps, pc'[t] \notin WriteSteps,
           WriteRow(i, v), UNCHANGED <<version, registered, boot, loc>>,
           v = IF i \in registered THEN version[i] ELSE 0,
           \A u \in Actors \ {t} : pc'[u] = pc[u]
    PROVE  StoreInv'
<1>0. boot # "restore"
  BY DEF BootInv, WriteSteps
<1>1. \A j \in Ids \ {i} : /\ row'[j] = row[j] /\ (j \in unpersisted' <=> j \in unpersisted)
                           /\ Pending(j)' <=> Pending(j)
  <2>1. \A j \in Ids \ {i} : row'[j] = row[j] /\ (j \in unpersisted' <=> j \in unpersisted)
    BY DEF WriteRow, TypeOK
  <2>2. \A j \in Ids \ {i} : Pending(j)' <=> Pending(j)
    BY DEF Pending
  <2> QED
    BY <2>1, <2>2
<1>2. i \notin unpersisted' => row'[i] = v
  BY DEF WriteRow, TypeOK
<1>3. \A u \in Clients : pc'[u] = "save" => pc[u] = "save"
  BY DEF WriteSteps
<1> QED
  BY <1>0, <1>1, <1>2, <1>3 DEF StoreInv

\* The steps of the operations preserve StoreInv,
LEMMA StoreActor ==
    ASSUME TypeOK, BootInv, ActorInv, CourtesyInv, MapInv, StoreInv, NEW t \in Actors, ActorStep(t)
    PROVE  StoreInv'
<1>0. /\ Busy(t) /\ loc[t].id \in Ids /\ pc[t] \in Path(loc[t].op)
      /\ UNCHANGED boot
      /\ \A u \in Actors \ {t} : pc'[u] = pc[u] /\ loc'[u] = loc[u]
      /\ loc[t].op \in Operations \cup {"none", "sweep"}
      /\ t \in Ids => loc[t].op = "sweep"
      /\ boot # "restore"
  BY ActorFrame DEF ActorInv, TypeOK, LocType, BootInv
<1>1. pc[t] \in {"edit", "persist", "save", "unmap", "deleteRow"} => t \in Clients
  BY <1>0 DEF Path, StopSteps
<1>2. CASE Edit(t)
  <2>1. /\ pc[t] = "edit" /\ pc'[t] = "persist" /\ loc' = loc /\ loc[t].op = "update"
        /\ UNCHANGED <<row, unpersisted, registered>>
        /\ \A j \in Ids \ {loc[t].id} : version'[j] = version[j]
    BY <1>0, <1>2 DEF Edit, Goto, TypeOK, Path, StopSteps, Operations
  <2>2. \A u \in Clients : pc'[u] = "save" => u # t /\ pc[u] = "save" /\ loc[u].id # loc[t].id /\ loc[u].id \in Ids
    BY <1>0, <1>1, <2>1 DEF CourtesyInv, Exclusive, TypeOK
  <2>3. Pending(loc[t].id)' /\ \A j \in Ids : Pending(j) => Pending(j)'
    BY <1>0, <1>1, <2>1 DEF Pending
  <2> QED
    BY <1>0, <2>1, <2>2, <2>3 DEF StoreInv
<1>3. CASE Snapshot(t)
  <2>1. /\ pc[t] = "persist" /\ pc'[t] = "save"
        /\ loc' = [loc EXCEPT ![t].ver = version[loc[t].id]]
        /\ UNCHANGED <<version, row, unpersisted, registered>>
    BY <1>3 DEF Snapshot, Goto, TypeOK, regVars
  <2>2. loc'[t].ver = version[loc[t].id] /\ loc'[t].id = loc[t].id
    BY <2>1 DEF TypeOK, LocType
  <2>3. \A j \in Ids : Pending(j) => Pending(j)'
    BY <1>0, <1>1, <2>1, <2>2 DEF Pending
  <2> QED
    BY <1>0, <2>1, <2>2, <2>3 DEF StoreInv
<1>4. CASE Save(t)
  <2>1. /\ pc[t] = "save" /\ pc'[t] \notin WriteSteps /\ WriteRow(loc[t].id, loc[t].ver)
        /\ UNCHANGED <<version, registered, loc>>
    BY <1>4 DEF Save, AfterSave, Goto, TypeOK, WriteSteps
  <2>2. loc[t].op # "delete"
    BY <1>0, <2>1 DEF Path, StopSteps
  <2>3. loc[t].id \in registered /\ loc[t].ver = version[loc[t].id]
    BY <1>0, <1>1, <2>1, <2>2 DEF MapInv, Unmapped, StoreInv
  <2> QED
    BY <1>0, <1>1, <2>1, <2>3, StoreWrite DEF WriteSteps
<1>5. CASE DeleteRow(t)
  <2>1. /\ pc[t] = "deleteRow" /\ pc'[t] \notin WriteSteps /\ WriteRow(loc[t].id, 0)
        /\ UNCHANGED <<version, registered, loc>>
    BY <1>5 DEF DeleteRow, Goto, TypeOK, WriteSteps
  <2>2. loc[t].op = "delete"
    BY <1>0, <2>1 DEF Path, StopSteps, Operations
  <2>3. loc[t].id \notin registered
    BY <1>0, <1>1, <2>1, <2>2 DEF MapInv, Unmapped
  <2> QED
    BY <1>0, <1>1, <2>1, <2>3, StoreWrite DEF WriteSteps
<1>6. CASE Unmap(t)
  <2>1. /\ pc[t] = "unmap" /\ pc'[t] = "deleteRow" /\ loc' = loc
        /\ registered' = registered \ {loc[t].id}
        /\ UNCHANGED <<version, row, unpersisted>>
    BY <1>6 DEF Unmap, Goto, TypeOK
  <2>2. Pending(loc[t].id)' /\ \A j \in Ids : Pending(j) => Pending(j)'
    BY <1>0, <1>1, <2>1 DEF Pending
  <2>3. \A u \in Clients : pc'[u] = "save" => pc[u] = "save"
    BY <1>0, <2>1
  <2> QED
    BY <1>0, <2>1, <2>2, <2>3 DEF StoreInv
<1>7. CASE RegisterStart(t) \/ Lock(t) \/ SpawnStep(t) \/ StopBegin(t) \/ Terminate(t) \/ AwaitExit(t)
  <2>1. UNCHANGED <<version, row, unpersisted, registered>> /\ pc[t] \notin WriteSteps
    BY <1>7 DEF RegisterStart, Lock, SpawnStep, StopBegin, Terminate, AwaitExit, regVars, WriteSteps
  <2>2. pc'[t] \notin WriteSteps
    BY <1>7 DEF TypeOK, RegisterStart, Lock, SpawnStep, StopBegin, Terminate, AwaitExit, Goto,
       AfterLock, AfterStop, AfterTimeout, WriteSteps
  <2> QED
    BY <1>0, <2>1, <2>2, StoreKept
<1>8. CASE ForceStop(t) \/ Release(t) \/ Finish(t) \/ RemoveLogs(t) \/ Return(t)
  <2>1. UNCHANGED <<version, row, unpersisted, registered>> /\ pc[t] \notin WriteSteps
    BY <1>8 DEF ForceStop, Release, Finish, RemoveLogs, Return, regVars, WriteSteps
  <2>2. pc'[t] \notin WriteSteps
    BY <1>8 DEF TypeOK, ForceStop, Release, Finish, RemoveLogs, Return, Goto, AfterStop, WriteSteps
  <2> QED
    BY <1>0, <2>1, <2>2, StoreKept
<1> QED
  BY <1>2, <1>3, <1>4, <1>5, <1>6, <1>7, <1>8 DEF ActorStep

\* and so does every step.
LEMMA StoreStep ==
    ASSUME TypeOK, BootInv, SweepInv, Polite, Drains, ActorInv, CourtesyInv, MapInv, StoreInv,
           [Next]_vars
    PROVE  StoreInv'
<1>0. Clients \cap Ids = {}
  BY ConstantsAssumption
<1>1. ASSUME NEW t \in Clients, NEW op \in Operations, NEW i \in Ids, BeginRegister(t, op, i)
      PROVE  StoreInv'
  <2>1. /\ i \notin created /\ registered' = registered \cup {i}
        /\ version' = [version EXCEPT ![i] = 1] /\ pc'[t] = "persist"
        /\ UNCHANGED <<row, unpersisted, boot>>
    BY <1>1 DEF BeginRegister, Goto, TypeOK, bootVars
  <2>2. /\ ~Busy(t) /\ loc'[t].id = i /\ boot = "serving"
        /\ \A u \in Clients \ {t} : pc'[u] = pc[u] /\ loc'[u] = loc[u]
    BY <1>1, BeginFrame
  <2>3. Pending(i)' /\ \A j \in Ids : Pending(j) => Pending(j)'
    BY <2>1, <2>2 DEF Pending
  <2>4. \A u \in Clients : pc'[u] = "save" => u # t /\ pc[u] = "save" /\ loc[u].id # i /\ loc[u].id \in Ids
    BY <2>1, <2>2 DEF MapInv, TypeOK
  <2>5. \A j \in Ids \ {i} : version'[j] = version[j] /\ (j \in registered' <=> j \in registered)
    BY <2>1 DEF TypeOK
  <2> QED
    BY <2>1, <2>2, <2>3, <2>4, <2>5 DEF StoreInv
<1>2. ASSUME NEW t \in Clients, NEW op \in Operations, NEW i \in Ids, BeginCall(t, op, i)
      PROVE  StoreInv'
  <2>1. UNCHANGED <<version, row, unpersisted, registered, boot>> /\ pc'[t] \notin WriteSteps
    BY <1>2 DEF BeginCall, FirstStep, Goto, TypeOK, regVars, bootVars, WriteSteps
  <2>2. ~Busy(t) /\ \A u \in Clients \ {t} : pc'[u] = pc[u] /\ loc'[u] = loc[u]
    BY <1>2, BeginFrame
  <2> QED
    BY <2>1, <2>2, StoreKept DEF WriteSteps
<1>3. ASSUME NEW t \in Actors, ActorStep(t) PROVE StoreInv'
  BY <1>3, StoreActor
<1>4. ASSUME NEW i \in Ids, SweepEntry(i) PROVE StoreInv'
  <2>1. /\ UNCHANGED <<version, row, unpersisted, registered, boot>>
        /\ \A u \in Clients : pc'[u] = pc[u] /\ loc'[u] = loc[u]
    BY <1>0, <1>4, SweepFrame DEF regVars, bootVars
  <2> QED
    BY <2>1, StoreKept
<1>5. CASE Restore
  <2>1. /\ registered' = {i \in Ids : row[i] # 0} /\ version' = row /\ row' = row
        /\ \A t \in Clients : pc'[t] = "idle"
    BY <1>5 DEF Restore, BootInv
  <2> QED
    BY <2>1 DEF StoreInv, TypeOK
<1>6. CASE OtherStep /\ ~Restore
  <2>1. UNCHANGED <<pc, loc>>
    BY <1>6, OtherFrame
  <2>2. ASSUME NEW i \in Ids, NEW g \in Gens, RunStep(i, g)
        PROVE  UNCHANGED <<version, row, unpersisted, registered, boot>>
    BY <2>2 DEF RunStep, Die, Record, CloseExited, regVars, bootVars
  <2>3. CASE (\E i \in Ids : AutoStart(i)) \/ AutoStartEnds
    BY <2>1, <2>3, StoreKept DEF AutoStart, AutoStartEnds, regVars
  <2>4. CASE ~BootStep
    <3>1. UNCHANGED <<version, row, unpersisted, registered, boot>>
      BY <1>6, <2>2, <2>4, CollectorFrame DEF OtherStep, RequestShutdown, StopChildren, SweepEnds, CloseDatabase,
         CloseServerJob, Exit, vars, regVars, bootVars
    <3> QED
      BY <2>1, <3>1, StoreKept
  <2> QED
    BY <1>6, <2>3, <2>4 DEF BootStep
<1> QED
  BY <1>1, <1>2, <1>3, <1>4, <1>5, <1>6, NextCases

\* The logs that are there, or may come back.
Lasting == logs \cup collecting

\* Only a start makes a log file, and only of a registered entry; a deletion that
\* does not get rid of it for good leaves it on record.
LEMMA LogGrows ==
    ASSUME TypeOK, BootInv, ActorInv, MapInv, NEW t \in Actors, ActorStep(t)
    PROVE  /\ leftLogs \subseteq leftLogs'
           /\ \/ Lasting' = Lasting
              \/ Lasting' \subseteq Lasting \cup (registered \cap registered')
              \/ /\ pc[t] = "removeLogs" /\ registered' = registered
                 /\ Lasting' \subseteq Lasting
                 /\ loc[t].id \in Lasting' => loc[t].id \in leftLogs'
<1> USE DEF Lasting, logVars
<1>0. /\ Busy(t) /\ loc[t].id \in Ids /\ pc[t] \in Path(loc[t].op)
      /\ loc[t].op \in Operations \cup {"none", "sweep"}
      /\ t \in Ids => loc[t].op = "sweep"
  BY ActorFrame DEF ActorInv, TypeOK, LocType
<1>1. CASE RegisterStart(t) \/ SpawnStep(t)
  <2>1. loc[t].op \in {"register", "run", "restart"}
    BY <1>0, <1>1 DEF RegisterStart, SpawnStep, Path, StopSteps, Operations
  <2>2. loc[t].id \in registered
    BY <1>0, <2>1 DEF MapInv, Unmapped
  <2>3. registered' = registered /\ leftLogs' = leftLogs
    BY <1>1 DEF RegisterStart, SpawnStep, regVars
  <2>4. \/ logs' = logs /\ collecting' = collecting
        \/ \E marker \in BOOLEAN : Spawn(loc[t].id, marker)
    BY <1>1 DEF RegisterStart, SpawnStep
  <2>5. Lasting' \subseteq Lasting \cup {loc[t].id}
    BY <1>0, <2>4, SpawnEffect
  <2> QED
    BY <2>2, <2>3, <2>5
<1>2. CASE Edit(t) \/ Snapshot(t) \/ Save(t) \/ Lock(t) \/ StopBegin(t) \/ Terminate(t) \/ AwaitExit(t)
  BY <1>2 DEF Edit, Snapshot, Save, Lock, StopBegin, Terminate, AwaitExit
<1>3. CASE ForceStop(t) \/ Release(t) \/ Finish(t) \/ Unmap(t) \/ DeleteRow(t) \/ Return(t)
  BY <1>3 DEF ForceStop, Release, Finish, Unmap, DeleteRow, Return
<1>4. CASE RemoveLogs(t)
  BY <1>4 DEF RemoveLogs, regVars
<1> QED
  BY <1>1, <1>2, <1>3, <1>4 DEF ActorStep

Removing(i) == \E t \in Clients : loc[t].id = i /\ pc[t] \in {"deleteRow", "removeLogs"}

\* Every step preserves LogInv: the log of a removed entry is gone and nobody is
\* left to make it anew, or it is about to go, or it is on record as left behind.
LEMMA LogStep ==
    ASSUME TypeOK, BootInv, SweepInv, Polite, Drains, ActorInv, CourtesyInv, MapInv, LogInv,
           [Next]_vars
    PROVE  LogInv'
<1>0. /\ Clients \cap Ids = {}
      /\ LogInv <=> (boot # "restore" => \A i \in created \ registered :
             ~Removing(i) => (i \in Lasting => i \in leftLogs))
      /\ LogInv' <=> (boot' # "restore" => \A i \in created' \ registered' :
             ~Removing(i)' => (i \in Lasting' => i \in leftLogs'))
  BY ConstantsAssumption DEF LogInv, Removing, Lasting
<1>k. ASSUME boot' # "restore" => boot # "restore",
             created' \ registered' \subseteq created \ registered,
             Lasting' \subseteq Lasting \cup registered', leftLogs \subseteq leftLogs',
             \A t \in Clients : pc[t] \in {"deleteRow", "removeLogs"} => pc'[t] = pc[t] /\ loc'[t] = loc[t]
      PROVE  LogInv'
  <2>1. \A i \in Ids : Removing(i) => Removing(i)'
    BY <1>k DEF Removing
  <2>2. created' \ registered' \subseteq Ids
    BY <1>k DEF TypeOK
  <2> QED
    BY <1>0, <1>k, <2>1, <2>2
<1>1. ASSUME NEW t \in Clients, NEW op \in Operations, NEW i \in Ids,
             BeginRegister(t, op, i) \/ BeginCall(t, op, i)
      PROVE  LogInv'
  <2>1. /\ ~Busy(t) /\ Lasting' = Lasting /\ leftLogs' = leftLogs /\ boot' = boot
        /\ \A u \in Clients \ {t} : pc'[u] = pc[u] /\ loc'[u] = loc[u]
    BY <1>1, BeginFrame DEF bootVars, Lasting, logVars
  <2>2. created' \ registered' \subseteq created \ registered
    BY <1>1 DEF BeginRegister, BeginCall, regVars
  <2> QED
    BY <1>k, <2>1, <2>2
<1>2. ASSUME NEW t \in Actors, ActorStep(t) PROVE LogInv'
  <2>0. /\ Busy(t) /\ loc[t].id \in Ids
        /\ UNCHANGED <<created, boot>>
        /\ \A u \in Actors \ {t} : pc'[u] = pc[u] /\ loc'[u] = loc[u]
        /\ boot # "restore" /\ pc[t] \in Path(loc[t].op)
        /\ t \in Ids => loc[t].op = "sweep"
    BY <1>2, ActorFrame DEF ActorInv, BootInv
  <2>1. CASE Unmap(t)
    <3>1. /\ t \in Clients /\ pc'[t] = "deleteRow" /\ loc' = loc
          /\ Lasting' = Lasting /\ leftLogs' = leftLogs
          /\ pc[t] = "unmap" /\ registered' = registered \ {loc[t].id}
      BY <2>0, <2>1 DEF Unmap, Goto, TypeOK, Path, StopSteps, Lasting, logVars
    <3>2. Removing(loc[t].id)' /\ \A i \in Ids : Removing(i) => Removing(i)'
      BY <2>0, <3>1 DEF Removing
    <3> QED
      BY <1>0, <2>0, <3>1, <3>2 DEF TypeOK
  <2>2. CASE DeleteRow(t)
    <3>1. /\ t \in Clients /\ pc'[t] = "removeLogs" /\ loc' = loc
          /\ Lasting' = Lasting /\ leftLogs' = leftLogs
          /\ pc[t] = "deleteRow" /\ registered' = registered
      BY <2>0, <2>2 DEF DeleteRow, Goto, TypeOK, Path, StopSteps, Lasting, logVars
    <3>2. \A i \in Ids : Removing(i) => Removing(i)'
      BY <2>0, <3>1 DEF Removing
    <3> QED
      BY <1>0, <2>0, <3>1, <3>2 DEF TypeOK
  <2>3. CASE RemoveLogs(t)
    <3>1. /\ leftLogs \subseteq leftLogs' /\ Lasting' \subseteq Lasting
          /\ loc[t].id \in Lasting' => loc[t].id \in leftLogs'
          /\ registered' = registered
      BY <2>3 DEF RemoveLogs, regVars, Lasting
    <3>2. \A i \in Ids \ {loc[t].id} : Removing(i) => Removing(i)'
      BY <2>0 DEF Removing
    <3> QED
      BY <1>0, <2>0, <3>1, <3>2 DEF TypeOK
  <2>4. CASE ~Unmap(t) /\ ~DeleteRow(t) /\ ~RemoveLogs(t)
    <3>1. registered' = registered
      BY <1>2, <2>4, ActorMap
    <3>2. pc[t] \notin {"deleteRow", "removeLogs"}
      BY <1>2, <2>4 DEF ActorStep, Edit, Snapshot, Save, RegisterStart, Lock, SpawnStep, StopBegin,
         Terminate, AwaitExit, ForceStop, Release, Finish, Return
    <3>3. Lasting' \subseteq Lasting \cup registered' /\ leftLogs \subseteq leftLogs'
      BY <1>2, <3>2, LogGrows
    <3> QED
      BY <1>k, <2>0, <3>1, <3>2, <3>3
  <2> QED
    BY <2>1, <2>2, <2>3, <2>4
<1>3. ASSUME NEW i \in Ids, SweepEntry(i) PROVE LogInv'
  <2>1. /\ UNCHANGED <<created, registered, boot, Lasting, leftLogs>>
        /\ \A u \in Clients : pc'[u] = pc[u] /\ loc'[u] = loc[u]
    BY <1>0, <1>3, SweepFrame DEF regVars, bootVars, logVars, Lasting
  <2> QED
    BY <1>k, <2>1
<1>4. CASE Restore
  <2>1. created' \ registered' = {}
    BY <1>4 DEF Restore, MapInv
  <2> QED
    BY <1>0, <2>1
<1>5. CASE OtherStep /\ ~Restore
  <2>1. UNCHANGED <<pc, loc, created>>
    BY <1>5, OtherFrame
  <2>2. ASSUME NEW i \in Ids, NEW g \in Gens, RunStep(i, g)
        PROVE  UNCHANGED <<registered, boot, logVars>>
    BY <2>2 DEF RunStep, Die, Record, CloseExited, regVars, bootVars
  <2>3. ASSUME NEW i \in Ids, AutoStart(i)
        PROVE  /\ registered' = registered /\ leftLogs' = leftLogs /\ boot # "restore"
               /\ Lasting' \subseteq Lasting \cup registered'
    <3>1. /\ i \in registered /\ registered' = registered /\ boot = "autostart"
          /\ leftLogs' = leftLogs
      BY <2>3 DEF AutoStart, MapInv, regVars
    <3>2. (logs' = logs /\ collecting' = collecting) \/ Spawn(i, TRUE)
      BY <2>3 DEF AutoStart
    <3>3. Lasting' \subseteq Lasting \cup {i}
      BY <3>2, SpawnEffect DEF Lasting
    <3> QED
      BY <3>1, <3>3
  <2>4. CASE AutoStartEnds
    BY <1>k, <2>1, <2>4 DEF AutoStartEnds, regVars, logVars, Lasting
  <2>5. CASE ~BootStep
    <3>1. CASE UNCHANGED <<registered, boot, logVars>>
      BY <1>k, <2>1, <3>1 DEF logVars, Lasting
    <3>2. CASE \E i \in Ids : CollectorStep(i)
      <4>1. Lasting' \subseteq Lasting /\ UNCHANGED <<registered, boot, leftLogs>>
        BY <3>2, CollectorFrame DEF regVars, bootVars, Lasting
      <4> QED
        BY <1>k, <2>1, <4>1
    <3> QED
      BY <1>5, <2>2, <2>5, <3>1, <3>2 DEF OtherStep, RequestShutdown, StopChildren, SweepEnds,
         CloseDatabase, CloseServerJob, Exit, vars, regVars, bootVars, logVars
  <2> QED
    BY <1>5, <1>k, <2>1, <2>3, <2>4, <2>5 DEF BootStep
<1> QED
  BY <1>1, <1>2, <1>3, <1>4, <1>5, NextCases

-----------------------------------------------------------------------------
(* The shutdown.                                                           *)

\* The goroutines of StopChildren start nothing; while one is under way and its
\* entry runs, it has not come to its end.
LEMMA SweepActor ==
    ASSUME TypeOK, SweepInv, ActorInv, NEW t \in Ids, ActorStep(t)
    PROVE  /\ \A i \in Ids : live'[i].status = "running" => live[i].status = "running"
           /\ live'[t].status = "running" /\ pc[t] # "return" => pc'[t] \notin {"idle", "return"}
<1>0. /\ Busy(t) /\ loc[t].id = t /\ loc[t].op = "sweep" /\ pc[t] \in Path("sweep")
      /\ live \in [Ids -> LiveType]
  BY ActorFrame DEF ActorInv, TypeOK
<1>1. ~Edit(t) /\ ~Snapshot(t) /\ ~Save(t) /\ ~RegisterStart(t) /\ ~SpawnStep(t) /\ ~Unmap(t)
      /\ ~DeleteRow(t) /\ ~RemoveLogs(t)
  BY <1>0 DEF Edit, Snapshot, Save, RegisterStart, SpawnStep, Unmap, DeleteRow, RemoveLogs, Path,
     StopSteps
<1>2. CASE Lock(t) \/ Terminate(t) \/ AwaitExit(t) \/ ForceStop(t) \/ Release(t) \/ Return(t)
  <2>1. live' = live
    BY <1>2 DEF Lock, Terminate, AwaitExit, ForceStop, Release, Return
  <2>2. pc'[t] \notin {"idle", "return"} \/ pc[t] = "return"
    BY <1>0, <1>2 DEF TypeOK, Lock, AfterLock, Terminate, AwaitExit, AfterTimeout, ForceStop, Release,
       Return, Goto
  <2> QED
    BY <2>1, <2>2
<1>3. CASE StopBegin(t)
  <2>1. CASE live[t].status = "running"
    <3>1. live' = [live EXCEPT ![t].stopReq = TRUE] /\ pc' = [pc EXCEPT ![t] = "terminate"]
      BY <1>0, <1>3, <2>1 DEF StopBegin, Goto
    <3>2. \A i \in Ids : live'[i].status = live[i].status
      BY <1>0, <3>1 DEF LiveType
    <3> QED
      BY <3>1, <3>2 DEF TypeOK
  <2>2. CASE live[t].status # "running"
    <3>1. live' = live
      BY <1>0, <1>3, <2>2 DEF StopBegin
    <3> QED
      BY <2>2, <3>1
  <2> QED
    BY <2>1, <2>2
<1>4. CASE Finish(t)
  <2>1. live' = [live EXCEPT ![t] = Stopped(@, loc[t].waited)]
    BY <1>0, <1>4 DEF Finish
  <2>2. /\ \A i \in Ids \ {t} : live'[i] = live[i]
        /\ live'[t].status = "stopped"
    BY <1>0, <2>1 DEF Stopped, LiveType
  <2> QED
    BY <2>2
<1> QED
  BY <1>1, <1>2, <1>3, <1>4 DEF ActorStep

\* Every step preserves CloseInv.
LEMMA CloseInvStep ==
    ASSUME TypeOK, SweepInv, Polite, Drains, ActorInv, RunPart, CloseInv, [Next]_vars
    PROVE  CloseInv'
<1>0. Clients \cap Ids = {}
  BY ConstantsAssumption
<1>1. ASSUME NEW t \in Clients, NEW op \in Operations, NEW i \in Ids,
             BeginRegister(t, op, i) \/ BeginCall(t, op, i)
      PROVE  CloseInv'
  BY <1>1, BeginFrame DEF CloseInv, bootVars, closeVars
<1>2. ASSUME NEW t \in Actors, ActorStep(t) PROVE CloseInv'
  <2>1. /\ Busy(t) /\ UNCHANGED <<boot, closing, sweepLeft>>
        /\ \A u \in Actors \ {t} : pc'[u] = pc[u]
    BY <1>2, ActorFrame
  <2>2. CASE t \in Clients
    BY <2>1, <2>2 DEF ActorInv, CloseInv
  <2>3. CASE t \in Ids
    <3>1. closing = "children" /\ t \notin sweepLeft
      BY <2>1, <2>3 DEF ActorInv, SweepInv
    <3>2. ASSUME NEW i \in Ids, live'[i].status = "running"
          PROVE  i \in sweepLeft' \/ (Busy(i)' /\ pc'[i] # "return")
      BY <1>2, <2>1, <2>3, <3>1, <3>2, SweepActor DEF CloseInv
    <3> QED
      BY <2>1, <3>1, <3>2 DEF CloseInv
  <2> QED
    BY <2>2, <2>3
<1>3. ASSUME NEW i \in Ids, SweepEntry(i) PROVE CloseInv'
  BY <1>3, SweepFrame DEF CloseInv, bootVars
<1>4. ASSUME UNCHANGED <<pc, closing, sweepLeft>>, boot = "serving" => boot' = "serving",
             \A i \in Ids : live'[i].status = "running" => live[i].status = "running"
      PROVE  CloseInv'
  BY <1>4 DEF CloseInv
<1>5. ASSUME NEW i \in Ids, NEW g \in Gens, RunStep(i, g) PROVE CloseInv'
  <2>1. CASE Die(i, g) \/ CloseExited(i, g)
    BY <1>4, <2>1 DEF Die, CloseExited, bootVars, closeVars
  <2>2. CASE Record(i, g)
    <3>1. \A j \in Ids : live'[j].status = "running" => live[j].status = "running"
      BY <2>2, RecordEffect DEF SameRun
    <3> QED
      BY <1>4, <2>2, <3>1 DEF Record, bootVars, closeVars
  <2> QED
    BY <1>5, <2>1, <2>2 DEF RunStep
<1>6. CASE BootStep
  BY <1>6 DEF BootStep, Restore, AutoStart, AutoStartEnds, CloseInv, closeVars
<1>7. CASE RequestShutdown
  BY <1>7 DEF RequestShutdown, CloseInv, bootVars
<1>8. CASE StopChildren
  <2>1. boot' = "serving" /\ live' = live
    BY <1>8 DEF StopChildren, bootVars
  <2>2. CASE KillOnExit /\ closing' = "children" /\ sweepLeft' = registered
    BY <2>1, <2>2 DEF CloseInv, RunPart, SlotInv
  <2>3. CASE ~KillOnExit /\ closing' = "collectors"
    BY <2>1, <2>3 DEF CloseInv
  <2> QED
    BY <1>8, <2>2, <2>3 DEF StopChildren
<1>9. CASE SweepEnds
  BY <1>9 DEF SweepEnds, CloseInv, bootVars
<1>10. CASE CloseDatabase \/ CloseServerJob \/ Exit
  BY <1>10 DEF CloseDatabase, CloseServerJob, Exit, CloseInv, bootVars
<1>11. CASE UNCHANGED vars
  BY <1>4, <1>11 DEF vars
<1>12. ASSUME NEW i \in Ids, CollectorStep(i) PROVE CloseInv'
  BY <1>4, <1>12, CollectorFrame DEF bootVars, closeVars
<1> QED
  BY <1>1, <1>2, <1>3, <1>5, <1>6, <1>7, <1>8, <1>9, <1>10, <1>11, <1>12, NextCases DEF OtherStep

-----------------------------------------------------------------------------
(* The theorems.                                                           *)

\* The invariant holds initially,
LEMMA InitPInv == Init => PInv
<1> SUFFICES ASSUME Init PROVE PInv
  OBVIOUS
<1>1. /\ \A t \in Actors : pc[t] = "idle"
      /\ \A i \in Ids : live[i] = NoLive
      /\ \A i \in Ids, g \in Gens : /\ proc[i][g] = "none" /\ watcher[i][g] = "none"
                                    /\ group[i][g] = "none"
  BY DEF Init
<1>2. ActorInv /\ CourtesyInv /\ StopInv
  BY <1>1 DEF ActorInv, CourtesyInv, StopInv, StopSteps
<1>3. MapInv /\ LogInv /\ CloseInv
  BY <1>1 DEF Init, MapInv, LogInv, CloseInv
<1>4. SlotInv /\ WaiterInv
  BY <1>1 DEF SlotInv, OneProcess, WaiterInv, Vacant, NoLive
<1>5. StoreInv
  BY <1>1 DEF Init, StoreInv
<1> QED
  BY <1>2, <1>3, <1>4, <1>5 DEF PInv

\* is preserved by every step,
LEMMA PoliteInductive ==
    ASSUME Polite, Drains
    PROVE  IInv /\ PInv /\ [Next]_vars => PInv'
<1> SUFFICES ASSUME IInv, PInv, [Next]_vars PROVE PInv'
  OBVIOUS
<1>0. TypeOK /\ BootInv /\ SweepInv /\ LockInv /\ RunsInv /\ RunPart
  BY DEF IInv, PInv, RunPart
<1>1. ActorInv' /\ CourtesyInv'
  BY <1>0, ActorStepInv, CourtesyStep DEF PInv
<1>2. MapInv'
  BY <1>0, MapStep DEF PInv
<1>3. RunPart'
  BY <1>0, RunPartStep DEF PInv
<1>4. StoreInv'
  BY <1>0, StoreStep DEF PInv
<1>5. LogInv'
  BY <1>0, LogStep DEF PInv
<1>6. CloseInv'
  BY <1>0, CloseInvStep DEF PInv
<1> QED
  BY <1>1, <1>2, <1>3, <1>4, <1>5, <1>6 DEF PInv, RunPart

\* and therefore always holds.
LEMMA PoliteInvariance ==
    ASSUME Polite, Drains
    PROVE  Spec => []PInv
<1>1. IInv /\ PInv /\ [Next]_vars => PInv'
  BY PoliteInductive
<1> QED
  BY InitPInv, Invariance, <1>1, PTL DEF Spec

\* spawn, stopChild and the waiters together: an entry never has two processes
\* that may live on, and none while it says it has ended.
THEOREM OneProcessOnly ==
    ASSUME Polite, Drains
    PROVE  Spec => []OneProcess
<1>1. PInv => OneProcess
  BY DEF PInv, SlotInv
<1> QED
  BY <1>1, PoliteInvariance, PTL

\* contain, watch and stopChild: every open group is in the hands of somebody who
\* will close it.
THEOREM GroupsGivenBack ==
    ASSUME Polite, Drains
    PROVE  Spec => []GroupsReleased
<1>1. PInv => GroupsReleased
  BY DEF PInv, SlotInv, GroupsReleased
<1> QED
  BY <1>1, PoliteInvariance, PTL

\* persist and Delete: outside a registration, an edit or a deletion, and unless
\* the last answer said otherwise, the row is the registration.
THEOREM StoreAgrees ==
    ASSUME Polite, Drains
    PROVE  Spec => []StoreMatches
<1>1. IInv /\ PInv => StoreMatches
  <2> SUFFICES ASSUME IInv, PInv, boot # "restore", NEW i \in Ids \ unpersisted, ~Changing(i)
               PROVE  row[i] = IF i \in registered THEN version[i] ELSE 0
    BY DEF StoreMatches
  <2>1. ASSUME NEW t \in Clients, loc[t].id = i, pc[t] \in {"persist", "save", "deleteRow"}
        PROVE  loc[t].op \in Exclusive
    <3>1. pc[t] \in Path(loc[t].op) /\ loc[t].op \in Operations \cup {"none", "sweep"}
      BY <2>1 DEF PInv, ActorInv, IInv, TypeOK, LocType
    <3> QED
      BY <2>1, <3>1 DEF Path, StopSteps, Operations, Exclusive
  <2>2. ~Pending(i)
    BY <2>1 DEF Pending, Changing
  <2> QED
    BY <2>2 DEF PInv, StoreInv
<1> QED
  BY <1>1, Invariance, PoliteInvariance, PTL

\* Delete: once it returned, no process that may live on and no open group is left,
\* and a log only where its removal was refused or a collector outlived the run.
THEOREM DeletedIsGone ==
    ASSUME Polite, Drains
    PROVE  Spec => []DeletedLeavesNothing
<1>1. IInv /\ PInv => DeletedLeavesNothing
  <2> SUFFICES ASSUME IInv, PInv, boot # "restore", NEW i \in created \ registered, ~Changing(i)
               PROVE  /\ i \in logs => i \in leftLogs
                      /\ \A g \in Gens : proc[i][g] # "up" /\ group[i][g] # "open"
    BY DEF DeletedLeavesNothing
  <2>0. i \in Ids
    BY DEF IInv, TypeOK
  <2>1. ASSUME NEW t \in Clients, loc[t].id = i, pc[t] \in {"deleteRow", "removeLogs"}
        PROVE  loc[t].op \in Exclusive
    <3>1. pc[t] \in Path(loc[t].op) /\ loc[t].op \in Operations \cup {"none", "sweep"}
      BY <2>1 DEF PInv, ActorInv, IInv, TypeOK, LocType
    <3> QED
      BY <2>1, <3>1 DEF Path, StopSteps, Operations, Exclusive
  <2>2. i \in logs => i \in leftLogs
    BY <2>1 DEF PInv, LogInv, Changing
  <2>3. \A g \in Gens : proc[i][g] # "up" /\ group[i][g] # "open"
    BY <2>0 DEF PInv, SlotInv, OneProcess
  <2> QED
    BY <2>2, <2>3
<1> QED
  BY <1>1, Invariance, PoliteInvariance, PTL

\* StopChildren and CloseServerJob: with kill_children_on_exit, whatever still
\* runs when the server exits was killed already.
THEOREM NoneSurvives ==
    ASSUME Polite, Drains
    PROVE  Spec => []NoSurvivors
<1>1. PInv => NoSurvivors
  BY DEF PInv, SlotInv, OneProcess, CloseInv, NoSurvivors
<1> QED
  BY <1>1, PoliteInvariance, PTL

-----------------------------------------------------------------------------
(* The manager implements RunSlot.                                         *)

\* What RunSlot sees of an entry does not change.
SameSlot(i) ==
    /\ live'[i].gen = live[i].gen
    /\ live'[i].status = "running" <=> live[i].status = "running"

\* What a step does, seen from the slots.
SlotStarts(i) ==
    /\ live[i].status # "running"
    /\ live'[i].status = "running"
    /\ live'[i].gen = live[i].gen + 1 /\ live'[i].gen \in Gens
    /\ proc' = [proc EXCEPT ![i][live[i].gen + 1] = "up"]
    /\ \A j \in Ids \ {i} : SameSlot(j)

SlotPerishes == ProcWanes /\ \A i \in Ids : SameSlot(i)

SlotFrees(i) ==
    /\ live[i].status = "running"
    /\ live'[i].status # "running"
    /\ live'[i].gen = live[i].gen
    /\ proc' = proc /\ \A g \in Gens : proc[i][g] # "up"
    /\ \A j \in Ids \ {i} : SameSlot(j)

\* A start takes the slot, or fails and leaves it.
LEMMA SpawnSlot ==
    ASSUME TypeOK, NEW i \in Ids, NEW marker \in BOOLEAN, Spawn(i, marker),
           live[i].status # "running"
    PROVE  SlotStarts(i) \/ SlotPerishes
<1>1. \A j \in Ids \ {i} : SameSlot(j)
  BY SpawnEffect DEF SameSlot
<1>2. CASE live'[i].status = "failed" /\ live'[i].gen = live[i].gen /\ UNCHANGED proc
  BY <1>1, <1>2 DEF SlotPerishes, SameSlot, ProcWanes
<1>3. CASE ~(live'[i].status = "failed" /\ live'[i].gen = live[i].gen /\ UNCHANGED proc)
  <2>1. /\ live'[i].status = "running" /\ live'[i].gen = live[i].gen + 1
        /\ live'[i].gen \in Gens
        /\ proc' = [proc EXCEPT ![i][live[i].gen + 1] = "up"]
    BY <1>3, SpawnEffect
  <2> QED
    BY <1>1, <2>1 DEF SlotStarts
<1> QED
  BY <1>2, <1>3

\* Every step of the manager starts a slot, frees one, or only ends processes.
LEMMA SlotMoves ==
    ASSUME IInv, PInv, Polite, Drains, [Next]_vars
    PROVE  SlotPerishes \/ \E i \in Ids : SlotStarts(i) \/ SlotFrees(i)
<1>0. TypeOK /\ BootInv /\ SweepInv /\ RunsInv /\ ActorInv /\ RunPart
  BY DEF IInv, PInv, RunPart
<1>1. ASSUME UNCHANGED <<live, proc>> PROVE SlotPerishes
  BY <1>1 DEF SlotPerishes, ProcWanes, SameSlot
<1>2. ASSUME NEW t \in Clients, NEW op \in Operations, NEW i \in Ids,
             BeginRegister(t, op, i) \/ BeginCall(t, op, i)
      PROVE  SlotPerishes
  BY <1>0, <1>1, <1>2, BeginFrame DEF runVars
<1>3. ASSUME NEW t \in Actors, ActorStep(t)
      PROVE  SlotPerishes \/ \E i \in Ids : SlotStarts(i) \/ SlotFrees(i)
  <2>0. loc[t].id \in Ids /\ live \in [Ids -> LiveType] /\ live[loc[t].id] \in LiveType
    BY <1>0, <1>3, ActorFrame DEF TypeOK
  <2>1. CASE Edit(t) \/ Snapshot(t) \/ Save(t) \/ Lock(t) \/ Unmap(t) \/ DeleteRow(t)
                 \/ RemoveLogs(t) \/ Return(t)
    BY <1>1, <2>1 DEF Edit, Snapshot, Save, Lock, Unmap, DeleteRow, RemoveLogs, Return, runVars
  <2>2. CASE RegisterStart(t) \/ SpawnStep(t)
    <3>1. CASE UNCHANGED <<live, logs, runVars, groupVars>>
      BY <1>1, <3>1 DEF runVars
    <3>2. ASSUME NEW marker \in BOOLEAN, Spawn(loc[t].id, marker), live[loc[t].id].status # "running"
          PROVE  SlotPerishes \/ SlotStarts(loc[t].id)
      BY <1>0, <2>0, <3>2, SpawnSlot
    <3> QED
      BY <1>0, <2>0, <2>2, <3>1, <3>2, StartFree
  <2>3. CASE StopBegin(t)
    <3>1. proc' = proc /\ (live' = live \/ live' = [live EXCEPT ![loc[t].id].stopReq = TRUE])
      BY <2>3 DEF StopBegin, runVars
    <3>2. \A i \in Ids : SameSlot(i)
      BY <2>0, <3>1 DEF SameSlot, LiveType
    <3> QED
      BY <3>1, <3>2 DEF SlotPerishes, ProcWanes
  <2>4. CASE Terminate(t) \/ AwaitExit(t) \/ ForceStop(t) \/ Release(t)
    BY <1>0, <2>4, MovesWane DEF SlotPerishes, SameSlot
  <2>5. CASE Finish(t)
    <3>1. pc[t] = "finish" /\ proc' = proc /\ live' = [live EXCEPT ![loc[t].id] = Stopped(@, loc[t].waited)]
      BY <2>5 DEF Finish, runVars
    <3>2. /\ live'[loc[t].id].status = "stopped" /\ live'[loc[t].id].gen = live[loc[t].id].gen
          /\ \A j \in Ids \ {loc[t].id} : live'[j] = live[j]
      BY <2>0, <3>1 DEF Stopped, LiveType
    <3>3. /\ live[loc[t].id].status = "running" /\ live[loc[t].id].gen = loc[t].run
          /\ proc[loc[t].id][loc[t].run] # "up"
      BY <1>0, <3>1, StopAtAll DEF RunPart, StopAt, StopSteps
    <3>4. \A g \in Gens : proc[loc[t].id][g] # "up"
      BY <1>0, <2>0, <3>3 DEF RunPart, SlotInv, OneProcess
    <3>5. SlotFrees(loc[t].id)
      BY <3>1, <3>2, <3>3, <3>4 DEF SlotFrees, SameSlot
    <3> QED
      BY <2>0, <3>5
  <2> QED
    BY <1>3, <2>1, <2>2, <2>3, <2>4, <2>5 DEF ActorStep
<1>4. ASSUME NEW i \in Ids, SweepEntry(i) PROVE SlotPerishes
  BY <1>1, <1>4 DEF SweepEntry, runVars
<1>5. ASSUME NEW i \in Ids, NEW g \in Gens, Die(i, g) PROVE SlotPerishes
  <2>1. /\ live' = live /\ proc[i][g] \in {"up", "doomed"}
        /\ \E code \in Dead : proc' = [proc EXCEPT ![i][g] = code]
    BY <1>5 DEF Die, Dead
  <2>2. ProcWanes
    BY <1>0, <2>1 DEF TypeOK, ProcWanes
  <2> QED
    BY <2>1, <2>2 DEF SlotPerishes, SameSlot
<1>6. ASSUME NEW i \in Ids, NEW g \in Gens, Record(i, g) PROVE SlotPerishes \/ SlotFrees(i)
  <2>1. /\ proc[i][g] \in Dead /\ proc' = proc /\ ProcWanes
        /\ \A j \in Ids \ {i} : SameSlot(j)
    BY <1>0, <1>6, RecordEffect DEF ProcWanes, SameSlot
  <2>2. CASE SameSlot(i)
    BY <2>1, <2>2 DEF SlotPerishes
  <2>3. CASE ~SameSlot(i)
    <3>1. live[i].gen = g /\ live'[i].gen = g /\ live'[i].status # "running" /\ live[i].status = "running"
      BY <1>0, <1>6, <2>3, RecordEffect DEF SameRun, SameSlot
    <3>2. \A h \in Gens : proc[i][h] # "up"
      BY <1>0, <2>1, <3>1 DEF RunPart, SlotInv, OneProcess, Dead
    <3> QED
      BY <2>1, <3>1, <3>2 DEF SlotFrees
  <2> QED
    BY <2>2, <2>3
<1>7. ASSUME NEW i \in Ids, NEW g \in Gens, CloseExited(i, g) PROVE SlotPerishes
  BY <1>1, <1>7 DEF CloseExited
<1>8. CASE Restore
  <2>1. /\ \A i \in Ids : live[i] = NoLive
        /\ live' = [i \in Ids |-> NoLive] /\ proc' = proc
    BY <1>0, <1>8 DEF BootInv, Restore, runVars
  <2> QED
    BY <2>1 DEF SlotPerishes, ProcWanes, SameSlot
<1>9. ASSUME NEW i \in Ids, AutoStart(i) PROVE SlotPerishes \/ SlotStarts(i)
  <2>1. CASE Spawn(i, TRUE) /\ live[i].status # "running"
    BY <1>0, <2>1, SpawnSlot
  <2>2. CASE UNCHANGED <<live, logs, runVars, groupVars>>
    BY <1>1, <2>2 DEF runVars
  <2> QED
    BY <1>9, <2>1, <2>2 DEF AutoStart
<1>10. CASE CloseServerJob
  BY <1>10 DEF CloseServerJob, SlotPerishes, ProcWanes, SameSlot
<1>11. CASE AutoStartEnds \/ RequestShutdown \/ StopChildren \/ SweepEnds \/ CloseDatabase \/ Exit
            \/ UNCHANGED vars
  BY <1>1, <1>11 DEF AutoStartEnds, RequestShutdown, StopChildren, SweepEnds, CloseDatabase, Exit,
     vars, runVars
<1>12. ASSUME NEW i \in Ids, CollectorStep(i) PROVE SlotPerishes
  BY <1>1, <1>12, CollectorFrame DEF runVars
<1> QED
  BY <1>2, <1>3, <1>4, <1>5, <1>6, <1>7, <1>8, <1>9, <1>10, <1>11, <1>12, NextCases
  DEF OtherStep, RunStep, BootStep

SlotOf == [i \in Ids |-> IF live[i].status = "running" THEN live[i].gen ELSE 0]
UpOf == [i \in Ids |-> {g \in Gens : proc[i][g] = "up"}]
LastOf == [i \in Ids |-> live[i].gen]

\* Each of the three is a step of RunSlot, or none.
LEMMA SlotStep ==
    ASSUME IInv, PInv, Polite, Drains, [Next]_vars
    PROVE  [Slot!Next]_(Slot!svars)
<1> USE DEF Slot!Next, Slot!Start, Slot!Free, Slot!Perish
<1>0. TypeOK /\ OneProcess /\ live \in [Ids -> LiveType]
  BY DEF IInv, PInv, SlotInv, TypeOK
<1>1. ASSUME NEW i \in Ids, SlotStarts(i) PROVE Slot!Start(i)
  <2>1. SlotOf[i] = 0 /\ UpOf[i] = {}
    BY <1>0, <1>1 DEF SlotOf, UpOf, SlotStarts, OneProcess
  <2>2. LastOf' = [LastOf EXCEPT ![i] = @ + 1]
    BY <1>1 DEF LastOf, SlotStarts, SameSlot
  <2>3. SlotOf' = [SlotOf EXCEPT ![i] = LastOf'[i]]
    BY <1>1 DEF SlotOf, LastOf, SlotStarts, SameSlot
  <2>4. UpOf' = [UpOf EXCEPT ![i] = {LastOf'[i]}]
    <3>1. /\ \A j \in Ids \ {i} : proc'[j] = proc[j]
          /\ proc'[i][live[i].gen + 1] = "up"
          /\ \A h \in Gens : h # live[i].gen + 1 => proc'[i][h] = proc[i][h]
      BY <1>0, <1>1 DEF TypeOK, SlotStarts
    <3>2. UpOf'[i] = {LastOf'[i]}
      BY <1>1, <2>1, <3>1 DEF UpOf, LastOf, SlotStarts
    <3> QED
      BY <3>1, <3>2 DEF UpOf
  <2> QED
    BY <2>1, <2>2, <2>3, <2>4 DEF Slot!Start, SlotOf, UpOf, LastOf
<1>2. ASSUME SlotPerishes PROVE Slot!Perish({i \in Ids : UpOf'[i] = {}})
  <2>1. SlotOf' = SlotOf /\ LastOf' = LastOf
    BY <1>2 DEF SlotOf, LastOf, SlotPerishes, SameSlot
  <2>2. ASSUME NEW i \in Ids, UpOf'[i] # {} PROVE UpOf'[i] = UpOf[i]
    <3>1. UpOf'[i] \subseteq UpOf[i]
      BY <1>2 DEF UpOf, SlotPerishes, ProcWanes, Dead
    <3>2. \A g, h \in UpOf[i] : g = h
      BY <1>0 DEF UpOf, OneProcess
    <3> QED
      BY <2>2, <3>1, <3>2
  <2>3. UpOf' = [i \in Ids |-> IF i \in {j \in Ids : UpOf'[j] = {}} THEN {} ELSE UpOf[i]]
    BY <2>2 DEF UpOf
  <2> QED
    BY <2>1, <2>3 DEF Slot!Perish, SlotOf, UpOf, LastOf
<1>3. ASSUME NEW i \in Ids, SlotFrees(i) PROVE Slot!Free(i)
  <2>1. SlotOf[i] # 0 /\ UpOf[i] = {}
    <3>1. live[i].gen \in Gens
      BY <1>3 DEF SlotFrees, IInv, RunsInv, RunningIsOwned
    <3> QED
      BY <1>3, <3>1, Bounds DEF SlotOf, UpOf, SlotFrees
  <2>2. SlotOf' = [SlotOf EXCEPT ![i] = 0]
    BY <1>3 DEF SlotOf, SlotFrees, SameSlot
  <2>3. UpOf' = UpOf
    BY <1>3 DEF UpOf, SlotFrees
  <2>4. LastOf' = LastOf
    BY <1>3 DEF LastOf, SlotFrees, SameSlot
  <2> QED
    BY <2>1, <2>2, <2>3, <2>4 DEF Slot!Free, SlotOf, UpOf, LastOf
<1>4. {i \in Ids : UpOf'[i] = {}} \in SUBSET Ids
  OBVIOUS
<1>5. CASE SlotPerishes
  <2>1. PICK gone \in SUBSET Ids : Slot!Perish(gone)
    BY <1>2, <1>4, <1>5
  <2> QED
    BY <2>1 DEF Slot!Next
<1>6. ASSUME NEW i \in Ids, SlotStarts(i) \/ SlotFrees(i) PROVE Slot!Next
  BY <1>1, <1>3, <1>6 DEF Slot!Next
<1>7. SlotPerishes \/ \E i \in Ids : SlotStarts(i) \/ SlotFrees(i)
  BY SlotMoves
<1>8. CASE \E i \in Ids : SlotStarts(i) \/ SlotFrees(i)
  <2>1. PICK i \in Ids : SlotStarts(i) \/ SlotFrees(i)
    BY <1>8
  <2> HIDE DEF Slot!Next, Slot!Start, Slot!Free, Slot!Perish
  <2> QED
    BY <1>6, <2>1
<1> HIDE DEF Slot!Next, Slot!Start, Slot!Free, Slot!Perish
<1> QED
  BY <1>5, <1>7, <1>8

\* The whole manager, with its locks, waiters and timeouts, is one slot with one
\* process for each entry.
THEOREM ImplementsSlot ==
    ASSUME Polite, Drains
    PROVE  Spec => ImplementsRunSlot
<1>1. Init => Slot!Init
  <2> SUFFICES ASSUME Init PROVE Slot!Init
    OBVIOUS
  <2>1. \A i \in Ids : live[i] = NoLive /\ {g \in Gens : proc[i][g] = "up"} = {}
    BY DEF Init
  <2> QED
    BY <2>1 DEF Slot!Init, NoLive
<1>2. IInv /\ PInv /\ [Next]_vars => [Slot!Next]_(Slot!svars)
  BY SlotStep
<1> QED
  BY <1>1, <1>2, Invariance, PoliteInvariance, PTL DEF Spec, ImplementsRunSlot, Slot!Spec
=============================================================================
