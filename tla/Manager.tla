------------------------------- MODULE Manager -------------------------------
(***************************************************************************)
(* The process manager of internal/runner: the registry of entries, the    *)
(* operations HTTP handlers call on them (Register, RegisterOnly, Update,  *)
(* Delete, Run, Restart, Stop), the waiter goroutine of every started      *)
(* process, and the hooks the server calls at boot (Restore, AutoStart)    *)
(* and at shutdown (StopChildren, StopCollectors, CloseServerJob).         *)
(*                                                                         *)
(* Granularity.  Everything done under one hold of e.mu (or m.mu) is one   *)
(* step; between two holds any other goroutine may run.  spawn is called   *)
(* with e.mu held from beginning to end, so it is one step.  stopChild     *)
(* gives e.mu up while it waits, so it is seven.                           *)
(*                                                                         *)
(* A run is a pair of an entry and its start count (e.gen).  The entry's   *)
(* pid, job and exited fields are represented by the number of the run     *)
(* they were created for, 0 standing for nil.  A version number stands for *)
(* the registration half of an entry (label, cmd, cwd, env, autoStart);    *)
(* timestamps and the error text are left out.                             *)
(***************************************************************************)
EXTENDS Integers, FiniteSets

CONSTANTS
    Ids,          \* entry identifiers, the restored and the fresh ones
    Clients,      \* goroutines that serve requests
    None,         \* nobody: the owner of a free opMu
    Restored,     \* identifiers that may have a row in the store at boot
    OptedIn,      \* identifiers registered with autoStart
    Ops,          \* the operations clients call
    KillOnExit,   \* the kill_children_on_exit setting
    GroupFaults,  \* the operating system may refuse a job object
    StoreFaults,  \* the store may refuse a write
    LogFaults,    \* a log may be held open, which may refuse its removal, and a
                  \*   descendant of a child may hold its pipe after it
    Drains,       \* requests end within the shutdown's grace period, and no
                  \*   further one comes on an open connection
    Polite,       \* clients do not overlap a registration, an edit or a
                  \*   deletion of an entry with another call on that entry
    MaxGen,       \* bound: starts of one entry
    MaxVersion    \* bound: registrations and edits of one entry

Operations == {"register", "registerOnly", "update", "delete",
               "run", "restart", "stop"}
Gens == 1..MaxGen
Versions == 1..MaxVersion

\* An actor is a request handler, or the goroutine StopChildren starts for an
\* entry, which bears the entry's name.
Actors == Clients \cup Ids

ASSUME ConstantsAssumption ==
    /\ Clients \cap Ids = {}
    /\ None \notin Actors
    /\ Restored \subseteq Ids
    /\ OptedIn \subseteq Ids
    /\ Ops \subseteq Operations
    /\ {KillOnExit, GroupFaults, StoreFaults, LogFaults, Drains, Polite} \subseteq BOOLEAN
    /\ MaxGen \in Nat \ {0}
    /\ MaxVersion \in Nat \ {0}

VARIABLES
    created,      \* identifiers handed out so far
    registered,   \* the keys of m.entries
    version,      \* the registration half of each entry
    live,         \* the live half of each entry
    row,          \* the store's row of each entry, 0 when it has none
    unpersisted,  \* entries whose last write was reported as not persisted
    logs,         \* entries whose log exists: its file, or an archive of it
    collecting,   \* entries on whose log a collector may still be at work
    leftLogs,     \* history: entries deleted while a collector was at work on
                  \*   their log, or whose log could not be removed
    opMu,         \* the actor that holds the entry's operation lock
    pc, loc,      \* where each actor is, and its local variables
    proc,         \* the process of each run
    watcher,      \* the waiter goroutine of each run
    group,        \* the child group (job object) of each run
    serverJob,    \* the server group
    inServer,     \* the runs assigned to the server group
    noChildJobs,  \* a child group was refused once
    boot,         \* progress of the start of the server
    autoLeft,     \* entries AutoStart has not visited yet
    closing,      \* progress of the shutdown sequence
    sweepLeft     \* entries StopChildren has not looked at yet

regVars == <<created, registered, version, row, unpersisted>>
logVars == <<logs, collecting, leftLogs>>
runVars == <<proc, watcher, group>>
groupVars == <<serverJob, inServer, noChildJobs>>
bootVars == <<boot, autoLeft>>
closeVars == <<closing, sweepLeft>>
vars == <<created, registered, version, live, row, unpersisted, logs, collecting,
          leftLogs, opMu, pc, loc, proc, watcher, group, serverJob, inServer, noChildJobs,
          boot, autoLeft, closing, sweepLeft>>

Nil == 0
Statuses == {"stopped", "running", "exited", "killed", "failed"}
\* The exit code as the entry tells it: unknown, zero, or not zero.
Codes == {"nil", "zero", "nonzero"}
\* up: alive; doomed: alive, but killed in a way it cannot ignore.
ProcStates == {"none", "up", "doomed", "zero", "nonzero"}
Dead == {"zero", "nonzero"}
LiveType == [status : Statuses, pid : 0..MaxGen, exit : Codes,
             stopReq : BOOLEAN, job : 0..MaxGen, gen : 0..MaxGen]
LocType == [op : Operations \cup {"none", "sweep"}, id : Ids \cup {None},
            ver : 0..MaxVersion, job : 0..MaxGen, pid : 0..MaxGen,
            run : 0..MaxGen, waited : BOOLEAN]
StopSteps == {"terminate", "wait", "force", "waitForced", "release", "finish"}
LockedSteps == {"stop", "spawn", "unmap", "deleteRow", "removeLogs", "return"}
                   \cup StopSteps
Steps == {"idle", "edit", "persist", "save", "start", "lock"} \cup LockedSteps

NoLive == [status |-> "stopped", pid |-> Nil, exit |-> "nil",
           stopReq |-> FALSE, job |-> Nil, gen |-> 0]
NoLoc == [op |-> "none", id |-> None, ver |-> 0, job |-> Nil, pid |-> Nil,
          run |-> Nil, waited |-> FALSE]

-----------------------------------------------------------------------------

Init ==
    /\ row \in [Ids -> {0, 1}]
    /\ created = {i \in Ids : row[i] # 0}
    /\ created \subseteq Restored
    /\ registered = {}
    /\ version = [i \in Ids |-> 0]
    /\ live = [i \in Ids |-> NoLive]
    /\ unpersisted = {}
    /\ logs = {} /\ collecting = {} /\ leftLogs = {}
    /\ opMu = [i \in Ids |-> None]
    /\ pc = [t \in Actors |-> "idle"]
    /\ loc = [t \in Actors |-> NoLoc]
    /\ proc = [i \in Ids |-> [g \in Gens |-> "none"]]
    /\ watcher = [i \in Ids |-> [g \in Gens |-> "none"]]
    /\ group = [i \in Ids |-> [g \in Gens |-> "none"]]
    /\ serverJob = "none"
    /\ inServer = {}
    /\ noChildJobs = FALSE
    /\ boot = "restore"
    /\ autoLeft = {}
    /\ closing = "no"
    /\ sweepLeft = {}

\* The server process runs: its goroutines can take steps.
Serving == closing # "exited"
\* CloseDatabase comes before CloseServerJob: writes fail from then on.
StoreOpen == closing \notin {"databaseClosed", "jobClosed", "exited"}

Goto(t, step) == pc' = [pc EXCEPT ![t] = step]

-----------------------------------------------------------------------------
(* Starting a process: spawn, markFailed, contain.                         *)

\* markFailed: no process, hence no pid and no exit code.  gen, stopRequested,
\* job and exited keep what the previous run left in them.
MarkFailed(e) == [e EXCEPT !.status = "failed", !.pid = Nil, !.exit = "nil"]

\* contain and serverGroup.  job = g when the run got a child group of its own.
\* The server group is created by the first start that needs it.
ServerGroup ==
    IF serverJob # "none" THEN {serverJob}
    ELSE {"open"} \cup (IF GroupFaults THEN {"done"} ELSE {})

Contain(i, g, job) ==
    /\ job = g => KillOnExit /\ ~noChildJobs
    /\ job = Nil => ~KillOnExit \/ noChildJobs \/ GroupFaults
    /\ noChildJobs' = (noChildJobs \/ (KillOnExit /\ job = Nil))
    /\ group' = IF job = Nil THEN group ELSE [group EXCEPT ![i][g] = "open"]
    /\ IF ~KillOnExit
       THEN UNCHANGED <<serverJob, inServer>>
       ELSE /\ serverJob' \in ServerGroup
            /\ \/ /\ serverJob' = "open"
                  /\ inServer' = inServer \cup {<<i, g>>}
               \/ /\ serverJob' = "done" \/ GroupFaults
                  /\ UNCHANGED inServer

StartFails(i) ==
    /\ live' = [live EXCEPT ![i] = MarkFailed(@)]
    /\ UNCHANGED <<runVars, groupVars>>

BugStartedKeepsStop(e, g, job) ==
    [e EXCEPT !.status = "running", !.pid = g, !.exit = "nil", !.job = job, !.gen = g]

\* The start clears stopRequested: a stop asked of an earlier run is not one
\* asked of this run.
Started(e, g, job) ==
    [status |-> "running", pid |-> g, exit |-> "nil", stopReq |-> FALSE,
     job |-> job, gen |-> g]

StartSucceeds(i) ==
    LET g == live[i].gen + 1
    IN  /\ g \in Gens
        /\ proc' = [proc EXCEPT ![i][g] = "up"]
        /\ watcher' = [watcher EXCEPT ![i][g] = "waiting"]
        /\ \E job \in {Nil, g} :
              /\ Contain(i, g, job)
              /\ live' = [live EXCEPT ![i] = Started(@, g, job)]

\* A marker creates the log file even when the start then fails.
Spawn(i, marker) ==
    \/ /\ StartFails(i)
       /\ logs' = IF marker THEN logs \cup {i} ELSE logs
       /\ UNCHANGED collecting
    \/ /\ StartSucceeds(i)
       /\ logs' = logs \cup {i}
       /\ collecting' = IF LogFaults THEN collecting \cup {i} ELSE collecting

-----------------------------------------------------------------------------
(* Processes and their waiters.                                            *)

\* A process ends by itself at any time, or because it was killed.
Die(i, g) ==
    /\ \/ /\ proc[i][g] = "up"
          /\ \E code \in Dead : proc' = [proc EXCEPT ![i][g] = code]
       \/ /\ proc[i][g] = "doomed"
          /\ proc' = [proc EXCEPT ![i][g] = "nonzero"]
    /\ UNCHANGED <<regVars, live, logVars, opMu, pc, loc, watcher, group,
                   groupVars, bootVars, closeVars>>

BugAnyRun(i, g) == live[i].gen \in Gens

\* The waiter carries the start count it was made for.
Current(i, g) == live[i].gen = g

BugOutcome(e, code) == [e EXCEPT !.exit = code, !.job = Nil, !.status = code]

\* watch, the part under e.mu: a waiter of an older run records nothing, and
\* one whose stop was requested leaves status and group to stopChild.
Outcome(e, code) ==
    IF e.stopReq THEN [e EXCEPT !.exit = code]
    ELSE [e EXCEPT !.exit = code, !.job = Nil,
                   !.status = IF code = "zero" THEN "exited" ELSE "killed"]

BugClosesTwice(e) == e.job # Nil
BugNeverCloses(e) == FALSE
ClosesGroup(e) == ~e.stopReq /\ e.job # Nil

Record(i, g) ==
    /\ Serving
    /\ watcher[i][g] = "waiting"
    /\ proc[i][g] \in Dead
    /\ watcher' = [watcher EXCEPT ![i][g] = "recorded"]
    /\ IF Current(i, g)
       THEN /\ live' = [live EXCEPT ![i] = Outcome(@, proc[i][g])]
            /\ group' = IF ClosesGroup(live[i])
                        THEN [group EXCEPT ![i][live[i].job] = "closed"] ELSE group
       ELSE UNCHANGED <<live, group>>
    /\ UNCHANGED <<regVars, logVars, opMu, pc, loc, proc, groupVars,
                   bootVars, closeVars>>

\* The deferred close(exited): after e.mu was given up.
CloseExited(i, g) ==
    /\ Serving
    /\ watcher[i][g] = "recorded"
    /\ watcher' = [watcher EXCEPT ![i][g] = "closed"]
    /\ UNCHANGED <<regVars, live, logVars, opMu, pc, loc, proc, group,
                   groupVars, bootVars, closeVars>>

\* A collector that stopChild gave up waiting for, or whose child ended by itself,
\* works on until nobody holds the pipe; when it rotates, it creates the log anew.
Rotate(i) ==
    /\ Serving
    /\ i \in collecting
    /\ logs' = logs \cup {i}
    /\ UNCHANGED <<regVars, live, collecting, leftLogs, opMu, pc, loc, runVars,
                   groupVars, bootVars, closeVars>>

CollectorEnds(i) ==
    /\ Serving
    /\ i \in collecting
    /\ \A g \in Gens : proc[i][g] \notin {"up", "doomed"}
    /\ collecting' = collecting \ {i}
    /\ UNCHANGED <<regVars, live, logs, leftLogs, opMu, pc, loc, runVars, groupVars,
                   bootVars, closeVars>>

-----------------------------------------------------------------------------
(* A request begins: the entry is looked up, or made, under m.mu.          *)

Busy(t) == pc[t] # "idle"
Exclusive == {"register", "registerOnly", "update", "delete"}

Courteous(t, op, i) ==
    Polite => \A u \in Clients \ {t} :
                 Busy(u) /\ loc[u].id = i =>
                     op \notin Exclusive /\ loc[u].op \notin Exclusive

\* A connection that is open when the shutdown begins may bring another request,
\* and a handler may be as late as the shutdown lets it.
Begins(t, op, i) ==
    /\ boot = "serving" /\ Serving
    /\ Drains => closing = "no"
    /\ op \in Ops
    /\ ~Busy(t)
    /\ Courteous(t, op, i)
    /\ loc' = [loc EXCEPT ![t] = [NoLoc EXCEPT !.op = op, !.id = i]]

\* register: the new entry is visible to everybody before it is saved and
\* before it is started.
BeginRegister(t, op, i) ==
    /\ op \in {"register", "registerOnly"}
    /\ i \notin created
    /\ Begins(t, op, i)
    /\ Goto(t, "persist")
    /\ created' = created \cup {i}
    /\ registered' = registered \cup {i}
    /\ version' = [version EXCEPT ![i] = 1]
    /\ UNCHANGED <<live, row, unpersisted, logVars, opMu, runVars, groupVars,
                   bootVars, closeVars>>

FirstStep(op) == IF op = "update" THEN "edit" ELSE "lock"

BeginCall(t, op, i) ==
    /\ op \in {"update", "run", "restart", "stop", "delete"}
    /\ i \in registered
    /\ Begins(t, op, i)
    /\ Goto(t, FirstStep(op))
    /\ UNCHANGED <<regVars, live, logVars, opMu, runVars, groupVars,
                   bootVars, closeVars>>

\* An edit makes a new version; at the bound, edits repeat the last content.
NextVersion(v) == IF v < MaxVersion THEN v + 1 ELSE v

\* Update, the part under e.mu.
Edit(t) ==
    /\ Serving
    /\ pc[t] = "edit"
    /\ version' = [version EXCEPT ![loc[t].id] = NextVersion(@)]
    /\ Goto(t, "persist")
    /\ UNCHANGED <<created, registered, row, unpersisted, live, logVars, opMu, loc,
                   runVars, groupVars, bootVars, closeVars>>

\* persist: the row is copied under e.mu and written without any lock.
Snapshot(t) ==
    /\ Serving
    /\ pc[t] = "persist"
    /\ loc' = [loc EXCEPT ![t].ver = version[loc[t].id]]
    /\ Goto(t, "save")
    /\ UNCHANGED <<regVars, live, logVars, opMu, runVars, groupVars,
                   bootVars, closeVars>>

BugWriteRow(i, v) ==
    /\ unpersisted' = unpersisted \ {i}
    /\ row' \in {row, [row EXCEPT ![i] = v]}

\* SaveEntry and DeleteEntry (v = 0), and what the caller is told of them.
WriteRow(i, v) ==
    \/ /\ StoreOpen
       /\ row' = [row EXCEPT ![i] = v]
       /\ unpersisted' = unpersisted \ {i}
    \/ /\ StoreFaults \/ ~StoreOpen
       /\ unpersisted' = unpersisted \cup {i}
       /\ UNCHANGED row

\* A failed save is reported and does not stop the operation.
AfterSave(op) == IF op = "register" THEN "start" ELSE "return"

Save(t) ==
    /\ Serving
    /\ pc[t] = "save"
    /\ WriteRow(loc[t].id, loc[t].ver)
    /\ Goto(t, AfterSave(loc[t].op))
    /\ UNCHANGED <<created, registered, version, live, logVars, opMu, loc,
                   runVars, groupVars, bootVars, closeVars>>

\* register's own start: under e.mu, without opMu and without looking at the
\* status.
RegisterStart(t) ==
    /\ Serving
    /\ pc[t] = "start"
    /\ Spawn(loc[t].id, FALSE)
    /\ Goto(t, "return")
    /\ UNCHANGED <<regVars, leftLogs, opMu, loc, bootVars, closeVars>>

-----------------------------------------------------------------------------
(* The operations that hold opMu: Run, Restart, Stop, Delete, and the      *)
(* goroutines of StopChildren.                                             *)

BugAfterLock(op) ==
    CASE op = "run" -> "spawn" [] op = "delete" -> "unmap" [] OTHER -> "stop"

AfterLock(op) == IF op = "run" THEN "spawn" ELSE "stop"

BugLockFree(i) == TRUE
LockFree(i) == opMu[i] = None

Lock(t) ==
    /\ Serving
    /\ pc[t] = "lock"
    /\ LockFree(loc[t].id)
    /\ opMu' = [opMu EXCEPT ![loc[t].id] = t]
    /\ Goto(t, AfterLock(loc[t].op))
    /\ UNCHANGED <<regVars, live, logVars, loc, runVars, groupVars,
                   bootVars, closeVars>>

\* Run leaves a running entry alone; Restart starts whatever stopChild left.
SpawnStep(t) ==
    /\ Serving
    /\ pc[t] = "spawn"
    /\ IF loc[t].op = "run" /\ live[loc[t].id].status = "running"
       THEN UNCHANGED <<live, logs, collecting, runVars, groupVars>>
       ELSE Spawn(loc[t].id, TRUE)
    /\ Goto(t, "return")
    /\ UNCHANGED <<regVars, leftLogs, opMu, loc, bootVars, closeVars>>

AfterStop(op) ==
    CASE op = "restart" -> "spawn"
      [] op = "delete"  -> "unmap"
      [] OTHER          -> "return"

\* stopChild, the first part under e.mu.
StopBegin(t) ==
    /\ Serving
    /\ pc[t] = "stop"
    /\ LET i == loc[t].id
           e == live[i]
       IN  IF e.status # "running"
           THEN /\ Goto(t, AfterStop(loc[t].op))
                /\ UNCHANGED <<live, loc>>
           ELSE /\ live' = [live EXCEPT ![i].stopReq = TRUE]
                /\ loc' = [loc EXCEPT ![t] = [@ EXCEPT !.job = e.job,
                                                       !.pid = e.pid,
                                                       !.run = e.gen]]
                /\ Goto(t, "terminate")
    /\ UNCHANGED <<regVars, logVars, opMu, runVars, groupVars, bootVars, closeVars>>

\* The process dies whatever it does.
Doom(i, g) == IF g \in Gens /\ proc[i][g] = "up"
              THEN [proc EXCEPT ![i][g] = "doomed"] ELSE proc

\* A group is asked (SIGTERM, which may be ignored) or killed at once (a job
\* object); without a group the process tree is killed at once.
Terminate(t) ==
    /\ Serving
    /\ pc[t] = "terminate"
    /\ LET i == loc[t].id
       IN  IF loc[t].job # Nil
           THEN proc' \in {proc, Doom(i, loc[t].job)}
           ELSE proc' = Doom(i, loc[t].pid)
    /\ Goto(t, "wait")
    /\ UNCHANGED <<regVars, live, logVars, opMu, loc, watcher, group, groupVars,
                   bootVars, closeVars>>

Exited(t) == loc[t].run # Nil => watcher[loc[t].id][loc[t].run] = "closed"

BugNoTimer == FALSE
\* Both waits of stopChild are bounded.
TimerFires == TRUE

BugAfterTimeout(step) == "release"
AfterTimeout(step) == IF step = "wait" THEN "force" ELSE "release"

\* waitFor(exited, ...): the channel closes, or the time is over.
AwaitExit(t) ==
    /\ Serving
    /\ pc[t] \in {"wait", "waitForced"}
    /\ \/ /\ Exited(t)
          /\ loc' = [loc EXCEPT ![t].waited = TRUE]
          /\ Goto(t, "release")
       \/ /\ TimerFires
          /\ Goto(t, AfterTimeout(pc[t]))
          /\ UNCHANGED loc
    /\ UNCHANGED <<regVars, live, logVars, opMu, runVars, groupVars,
                   bootVars, closeVars>>

ForceStop(t) ==
    /\ Serving
    /\ pc[t] = "force"
    /\ proc' = Doom(loc[t].id, IF loc[t].job # Nil THEN loc[t].job ELSE loc[t].pid)
    /\ Goto(t, "waitForced")
    /\ UNCHANGED <<regVars, live, logVars, opMu, loc, watcher, group, groupVars,
                   bootVars, closeVars>>

\* The collector is drained (a bounded wait whose result is ignored), then the
\* group's handle is given back.
Release(t) ==
    /\ Serving
    /\ pc[t] = "release"
    /\ group' = IF loc[t].job = Nil THEN group
                ELSE [group EXCEPT ![loc[t].id][loc[t].job] = "closed"]
    /\ Goto(t, "finish")
    /\ UNCHANGED <<regVars, live, logVars, opMu, loc, proc, watcher, groupVars,
                   bootVars, closeVars>>

\* stopChild, the last part under e.mu.
Stopped(e, waited) ==
    [e EXCEPT !.status = "stopped", !.job = Nil,
              !.exit = IF waited THEN @ ELSE "nil"]

Finish(t) ==
    /\ Serving
    /\ pc[t] = "finish"
    /\ live' = [live EXCEPT ![loc[t].id] = Stopped(@, loc[t].waited)]
    /\ Goto(t, AfterStop(loc[t].op))
    /\ UNCHANGED <<regVars, logVars, opMu, loc, runVars, groupVars,
                   bootVars, closeVars>>

\* Delete, after stopChild: out of the map, out of the store, logs removed.
Unmap(t) ==
    /\ Serving
    /\ pc[t] = "unmap"
    /\ registered' = registered \ {loc[t].id}
    /\ Goto(t, "deleteRow")
    /\ UNCHANGED <<created, version, row, unpersisted, live, logVars, opMu, loc,
                   runVars, groupVars, bootVars, closeVars>>

DeleteRow(t) ==
    /\ Serving
    /\ pc[t] = "deleteRow"
    /\ WriteRow(loc[t].id, 0)
    /\ Goto(t, "removeLogs")
    /\ UNCHANGED <<created, registered, version, live, logVars, opMu, loc,
                   runVars, groupVars, bootVars, closeVars>>

\* What os.Remove answers is only counted.
RemoveLogs(t) ==
    /\ Serving
    /\ pc[t] = "removeLogs"
    /\ LET i == loc[t].id
       IN  \/ /\ logs' = logs \ {i}
              /\ leftLogs' = leftLogs \cup (collecting \cap {i})
           \/ /\ LogFaults /\ i \in logs
              /\ leftLogs' = leftLogs \cup {i}
              /\ UNCHANGED logs
    /\ Goto(t, "return")
    /\ UNCHANGED <<regVars, live, collecting, opMu, loc, runVars, groupVars,
                   bootVars, closeVars>>

BugUnlocked(t) ==
    [i \in Ids |-> IF opMu[i] = t /\ loc[t].op # "stop" THEN None ELSE opMu[i]]
Unlocked(t) == [i \in Ids |-> IF opMu[i] = t THEN None ELSE opMu[i]]

\* The operation returns; the deferred opMu.Unlock of those that hold it.
Return(t) ==
    /\ Serving
    /\ pc[t] = "return"
    /\ opMu' = Unlocked(t)
    /\ loc' = [loc EXCEPT ![t] = NoLoc]
    /\ Goto(t, "idle")
    /\ UNCHANGED <<regVars, live, logVars, runVars, groupVars, bootVars, closeVars>>

-----------------------------------------------------------------------------
(* Boot: Restore, then AutoStart before the first request is served.       *)

\* Only the registration comes back; the live half is cleared.
Restore ==
    /\ boot = "restore" /\ closing = "no"
    /\ registered' = {i \in Ids : row[i] # 0}
    /\ version' = row
    /\ live' = [i \in Ids |-> NoLive]
    /\ autoLeft' = registered'
    /\ boot' = "autostart"
    /\ UNCHANGED <<created, row, unpersisted, logVars, opMu, pc, loc, runVars,
                   groupVars, closeVars>>

\* AutoStart calls Run for the opted-in entries one after another.  No other
\* actor can hold their opMu: requests are not served yet and StopChildren
\* waits for autoStartMu.
AutoStart(i) ==
    /\ boot = "autostart" /\ closing = "no"
    /\ i \in autoLeft
    /\ autoLeft' = autoLeft \ {i}
    /\ IF i \in OptedIn /\ live[i].status # "running"
       THEN Spawn(i, TRUE)
       ELSE UNCHANGED <<live, logs, collecting, runVars, groupVars>>
    /\ UNCHANGED <<regVars, leftLogs, opMu, pc, loc, boot, closeVars>>

\* All entries visited, or the stop channel was seen closed.
AutoStartEnds ==
    /\ Serving
    /\ boot = "autostart"
    /\ autoLeft = {} \/ closing # "no"
    /\ autoLeft' = {}
    /\ boot' = "serving"
    /\ UNCHANGED <<regVars, live, logVars, opMu, pc, loc, runVars, groupVars, closeVars>>

-----------------------------------------------------------------------------
(* Shutdown: the hooks in the order lifecycle.run calls them.              *)

\* The stop channel is closed and nothing more is accepted.
RequestShutdown ==
    /\ boot # "restore" /\ closing = "no"
    /\ closing' = "requested"
    /\ UNCHANGED <<regVars, live, logVars, opMu, pc, loc, runVars, groupVars,
                   bootVars, sweepLeft>>

\* WaitInflight returns, then StopChildren takes autoStartMu and copies the
\* list of entries - unless the children are to outlive the server.
StopChildren ==
    /\ closing = "requested"
    /\ Drains => \A t \in Clients : ~Busy(t)
    /\ boot = "serving"
    /\ IF KillOnExit
       THEN closing' = "children" /\ sweepLeft' = registered
       ELSE closing' = "collectors" /\ UNCHANGED sweepLeft
    /\ UNCHANGED <<regVars, live, logVars, opMu, pc, loc, runVars, groupVars, bootVars>>

\* One goroutine for every entry seen running.
SweepEntry(i) ==
    /\ closing = "children"
    /\ i \in sweepLeft
    /\ sweepLeft' = sweepLeft \ {i}
    /\ IF live[i].status = "running"
       THEN /\ Goto(i, "lock")
            /\ loc' = [loc EXCEPT ![i] = [NoLoc EXCEPT !.op = "sweep", !.id = i]]
       ELSE UNCHANGED <<pc, loc>>
    /\ UNCHANGED <<regVars, live, logVars, opMu, runVars, groupVars, bootVars, closing>>

\* wg.Wait
SweepEnds ==
    /\ closing = "children"
    /\ sweepLeft = {}
    /\ \A i \in Ids : ~Busy(i)
    /\ closing' = "collectors"
    /\ UNCHANGED <<regVars, live, logVars, opMu, pc, loc, runVars, groupVars,
                   bootVars, sweepLeft>>

\* StopCollectors is a bounded wait; the database is closed after it.
CloseDatabase ==
    /\ closing = "collectors"
    /\ closing' = "databaseClosed"
    /\ UNCHANGED <<regVars, live, logVars, opMu, pc, loc, runVars, groupVars,
                   bootVars, sweepLeft>>

\* Closing the server group kills its members.
CloseServerJob ==
    /\ closing = "databaseClosed"
    /\ closing' = "jobClosed"
    /\ serverJob' = "done"
    /\ proc' = [i \in Ids |-> [g \in Gens |->
                  IF serverJob = "open" /\ <<i, g>> \in inServer /\ proc[i][g] = "up"
                  THEN "doomed" ELSE proc[i][g]]]
    /\ UNCHANGED <<regVars, live, logVars, opMu, pc, loc, watcher, group, inServer,
                   noChildJobs, bootVars, sweepLeft>>

Exit ==
    /\ closing = "jobClosed"
    /\ closing' = "exited"
    /\ UNCHANGED <<regVars, live, logVars, opMu, pc, loc, runVars, groupVars,
                   bootVars, sweepLeft>>

\* The server is gone: nothing is left to do.
Gone == closing = "exited" /\ UNCHANGED vars

-----------------------------------------------------------------------------

ActorStep(t) ==
    \/ Edit(t) \/ Snapshot(t) \/ Save(t) \/ RegisterStart(t)
    \/ Lock(t) \/ SpawnStep(t)
    \/ StopBegin(t) \/ Terminate(t) \/ AwaitExit(t) \/ ForceStop(t)
    \/ Release(t) \/ Finish(t)
    \/ Unmap(t) \/ DeleteRow(t) \/ RemoveLogs(t)
    \/ Return(t)

RunStep(i, g) == Die(i, g) \/ Record(i, g) \/ CloseExited(i, g)
CollectorStep(i) == Rotate(i) \/ CollectorEnds(i)

BootStep == Restore \/ (\E i \in Ids : AutoStart(i)) \/ AutoStartEnds

CloseStep ==
    \/ StopChildren \/ (\E i \in Ids : SweepEntry(i)) \/ SweepEnds
    \/ CloseDatabase \/ CloseServerJob \/ Exit

Next ==
    \/ \E t \in Clients, op \in Operations, i \in Ids :
          BeginRegister(t, op, i) \/ BeginCall(t, op, i)
    \/ \E t \in Actors : ActorStep(t)
    \/ \E i \in Ids, g \in Gens : RunStep(i, g)
    \/ \E i \in Ids : CollectorStep(i)
    \/ BootStep
    \/ RequestShutdown
    \/ CloseStep
    \/ Gone

Spec == Init /\ [][Next]_vars

\* The fairness of the runtime: goroutines get to run, timers fire, sync.Mutex
\* starves nobody, the scheduler reaps a killed process.  Nothing is assumed of
\* clients, of signals to the server, or of a process nobody killed.
Fairness ==
    /\ \A t \in Actors : WF_vars(ActorStep(t)) /\ SF_vars(Lock(t))
    /\ \A i \in Ids, g \in Gens :
          /\ WF_vars(proc[i][g] = "doomed" /\ Die(i, g))
          /\ WF_vars(Record(i, g) \/ CloseExited(i, g))
    /\ WF_vars(BootStep) /\ WF_vars(CloseStep)

FairSpec == Spec /\ Fairness

-----------------------------------------------------------------------------
(* Properties.                                                             *)

\* Every variable has its type.
TypeOK ==
    /\ created \subseteq Ids
    /\ registered \subseteq Ids
    /\ version \in [Ids -> 0..MaxVersion]
    /\ live \in [Ids -> LiveType]
    /\ row \in [Ids -> 0..MaxVersion]
    /\ unpersisted \subseteq Ids
    /\ logs \subseteq Ids /\ collecting \subseteq Ids /\ leftLogs \subseteq Ids
    /\ opMu \in [Ids -> Actors \cup {None}]
    /\ pc \in [Actors -> Steps]
    /\ loc \in [Actors -> LocType]
    /\ proc \in [Ids -> [Gens -> ProcStates]]
    /\ watcher \in [Ids -> [Gens -> {"none", "waiting", "recorded", "closed"}]]
    /\ group \in [Ids -> [Gens -> {"none", "open", "closed"}]]
    /\ serverJob \in {"none", "open", "done"}
    /\ inServer \subseteq (Ids \X Gens)
    /\ noChildJobs \in BOOLEAN
    /\ boot \in {"restore", "autostart", "serving"}
    /\ autoLeft \subseteq Ids
    /\ closing \in {"no", "requested", "children", "collectors",
                    "databaseClosed", "jobClosed", "exited"}
    /\ sweepLeft \subseteq Ids
    /\ \A t \in Actors : Busy(t) => loc[t].id \in Ids

Stopping(t, i) == pc[t] \in StopSteps /\ loc[t].id = i

\* An entry that says running shows the pid of its latest run, and somebody is
\* left to take it out of that status: the run's waiter has not recorded the
\* end yet, or a stopChild that captured this very run is still under way.
RunningIsOwned ==
    \A i \in Ids : live[i].status = "running" =>
        /\ live[i].gen \in Gens /\ live[i].pid = live[i].gen
        /\ \/ ~live[i].stopReq /\ watcher[i][live[i].gen] = "waiting"
           \/ /\ live[i].stopReq
              /\ \E t \in Actors : Stopping(t, i) /\ loc[t].run = live[i].gen

\* Whatever an entry tells of an end is the end of its latest run: never the
\* exit code of an earlier run whose waiter was late.
OutcomeIsOfLatestRun ==
    \A i \in Ids : LET e == live[i] IN
        /\ e.exit # "nil" => e.gen \in Gens /\ proc[i][e.gen] = e.exit
        /\ e.status = "exited" => e.exit = "zero"
        /\ e.status = "killed" => e.exit = "nonzero"

\* As long as stopChild may still signal or release the group it captured, the
\* group is open: the waiter of the same run never closes it as well.
StopperOwnsGroup ==
    \A t \in Actors :
        pc[t] \in StopSteps \ {"finish"} /\ loc[t].job # Nil =>
            group[loc[t].id][loc[t].job] = "open"

\* A process that may live on belongs to the run its entry shows as running:
\* no entry has two, and none has one while it says it has ended.
OneProcess ==
    \A i \in Ids, g \in Gens :
        proc[i][g] = "up" => live[i].status = "running" /\ live[i].gen = g

\* Every open group handle is in the entry that will release it, or in the
\* hands of the stopChild that captured it: no handle is dropped on the floor.
GroupsReleased ==
    \A i \in Ids, g \in Gens :
        group[i][g] = "open" =>
            /\ live[i].job = g
            /\ \/ live[i].status = "running"
               \/ \E t \in Actors : Stopping(t, i) /\ loc[t].job = g

Changing(i) == \E t \in Clients : Busy(t) /\ loc[t].id = i /\ loc[t].op \in Exclusive

\* When no registration, edit or deletion of an entry is under way and its last
\* answer said persisted, the store and the server tell the same story: the row
\* is the entry's registration, and a deleted entry has none.
StoreMatches ==
    boot # "restore" =>
        \A i \in Ids \ unpersisted : ~Changing(i) =>
            row[i] = IF i \in registered THEN version[i] ELSE 0

\* Once a deletion has returned no process of the entry could live on, and no
\* group of it is open.  Its log is left only where its removal was refused, or
\* where a collector was still at work, which may create the log anew.
DeletedLeavesNothing ==
    \A i \in created \ registered : boot # "restore" /\ ~Changing(i) =>
        /\ \A g \in Gens : proc[i][g] # "up" /\ group[i][g] # "open"
        /\ i \in logs => i \in leftLogs

\* With kill_children_on_exit, no process outlives the server unless it has
\* been killed already.
NoSurvivors ==
    closing = "exited" /\ KillOnExit =>
        \A i \in Ids, g \in Gens : proc[i][g] # "up"

\* Each entry promises its clients what RunSlot says.
Slot == INSTANCE RunSlot WITH
    slot <- [i \in Ids |-> IF live[i].status = "running" THEN live[i].gen ELSE 0],
    up   <- [i \in Ids |-> {g \in Gens : proc[i][g] = "up"}],
    last <- [i \in Ids |-> live[i].gen]
ImplementsRunSlot == Slot!Spec

\* Every operation returns, unless the server is gone first.
OperationsReturn ==
    \A t \in Actors : Busy(t) ~> (~Busy(t) \/ closing = "exited")

\* A process that died is not shown as running for ever.
DeathIsNoticed ==
    \A i \in Ids, g \in Gens :
        (live[i].status = "running" /\ live[i].gen = g /\ proc[i][g] \in Dead)
            ~> (live[i].status # "running" \/ live[i].gen # g \/ closing = "exited")

\* A shutdown that was requested ends, whatever is in flight.
ShutdownEnds == (closing = "requested") ~> (closing = "exited")
=============================================================================
