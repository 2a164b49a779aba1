----------------------------- MODULE Lifecycle -------------------------------
(***************************************************************************)
(* internal/lifecycle with the hooks cmd/spawnpoint fills in and the hosts *)
(* that drive it: the main goroutine goes through Startup and Serve, while *)
(* signals, console events and service controls each call Shutdown from a  *)
(* goroutine of their own, at any moment and any number of times.          *)
(*                                                                         *)
(* One hook call is one step.  What the hooks do to the runner's children  *)
(* is in module Manager; here they are names in the order of their calls.  *)
(***************************************************************************)
EXTENDS Sequences, SequencesExt, Integers, FiniteSets

CONSTANTS
    Main,         \* the main goroutine
    Callers,      \* goroutines that call Shutdown, one per event
    None,         \* nobody
    KillOnExit,   \* the kill_children_on_exit setting
    Terminal      \* events after which Windows ends the process

Actors == Callers \cup {Main}

ASSUME LifecycleAssumption ==
    /\ Main \notin Callers /\ None \notin Actors
    /\ Terminal \subseteq Callers
    /\ KillOnExit \in BOOLEAN

ExitNormal == 0
ExitStartFailed == 1
ExitUnrecoverable == 2
Codes == {ExitNormal, ExitStartFailed, ExitUnrecoverable}
NotExited == -1

VARIABLES
    pc,          \* where each actor is
    once,        \* the actor that began the shutdown sequence
    next,        \* the hook each actor calls next, should it run the sequence
    trace,       \* the shutdown hooks called, in order
    stopClosed,  \* s.stop is closed
    done,        \* s.done is closed
    code,        \* s.exitCode
    result,      \* the exit code each caller of Shutdown was given
    db,          \* the database
    listener,    \* the listening socket
    server,      \* the http.Server on it
    exit,        \* the exit code of the process
    early        \* history: the shutdown began before Startup was over

vars == <<pc, once, next, trace, stopClosed, done, code, result, db, listener,
          server, exit, early>>

StartSteps == {"assets", "open", "migrate", "restore", "bind"}
MainSteps == StartSteps \cup
    {"serve", "frontEnd", "waitStop", "once", "run", "wait", "exited"}
CallerSteps == {"away", "once", "run", "wait", "returned"}

BugHooks ==
    <<"stopping", "stopAccepting", "waitInflight">>
        \o (IF KillOnExit THEN <<"stopChildren">> ELSE << >>)
        \o <<"stopCollectors", "closeDatabase", "closeLog", "closeServerJob">>
\* The sequence of run.
Hooks ==
    <<"stopping", "stop", "stopAccepting", "waitInflight">>
        \o (IF KillOnExit THEN <<"stopChildren">> ELSE << >>)
        \o <<"stopCollectors", "closeDatabase", "closeLog", "closeServerJob">>

seqVars == <<once, next, trace, stopClosed, done, code, result, early>>
hookVars == <<db, listener, server>>

-----------------------------------------------------------------------------

Init ==
    /\ pc = [a \in Actors |-> IF a = Main THEN "assets" ELSE "away"]
    /\ once = None /\ early = FALSE
    /\ next = [a \in Actors |-> 1]
    /\ trace = << >>
    /\ stopClosed = FALSE /\ done = FALSE
    /\ code = ExitNormal
    /\ result = [c \in Callers |-> NotExited]
    /\ db = "none" /\ listener = "none" /\ server = "none"
    /\ exit = NotExited

Alive == exit = NotExited
At(a, step) == Alive /\ pc[a] = step
Goto(a, step) == pc' = [pc EXCEPT ![a] = step]

ProcessExits(status) ==
    /\ exit' = status
    /\ Goto(Main, "exited")

-----------------------------------------------------------------------------
(* Startup.                                                                *)

BugUnwound(state) == state
\* unwind closes the database Startup has opened.
Unwound(state) == IF state = "open" THEN "closed" ELSE state

\* Startup fails, and the process leaves without the shutdown sequence.
StartupFails(status) ==
    /\ ProcessExits(status)
    /\ db' = Unwound(db)
    /\ UNCHANGED <<seqVars, listener, server>>

\* A stage that leaves nothing behind when it succeeds.
Stage(step, following, succeeds, status) ==
    /\ At(Main, step)
    /\ \/ /\ succeeds
          /\ Goto(Main, following)
          /\ UNCHANGED <<seqVars, hookVars, exit>>
       \/ StartupFails(status)

Open ==
    /\ At(Main, "open")
    /\ \/ /\ db' = "open"
          /\ Goto(Main, "migrate")
          /\ UNCHANGED <<seqVars, listener, server, exit>>
       \/ StartupFails(ExitStartFailed)

Bind ==
    /\ At(Main, "bind")
    /\ \/ /\ listener' = "open" /\ server' = "new"
          /\ Goto(Main, "serve")
          /\ UNCHANGED <<seqVars, db, exit>>
       \/ StartupFails(ExitStartFailed)

\* Migrations and the restore of the entries need the open database.
Startup ==
    \/ Stage("assets", "open", TRUE, ExitUnrecoverable)
    \/ Open
    \/ Stage("migrate", "restore", db = "open", ExitStartFailed)
    \/ Stage("restore", "bind", db = "open", ExitStartFailed)
    \/ Bind

-----------------------------------------------------------------------------
(* Serve.                                                                  *)

\* The auto-started entries; the front end is not up yet.
AutoStart ==
    /\ At(Main, "serve")
    /\ Goto(Main, "frontEnd")
    /\ UNCHANGED <<seqVars, hookVars, exit>>

\* go srv.Serve(ln), which fails on a closed listener, and closes the listener
\* when the server was shut down before it was started.
FrontEnd ==
    /\ At(Main, "frontEnd")
    /\ server' = IF listener = "open" /\ server = "new" THEN "serving" ELSE server
    /\ listener' = IF server = "new" THEN listener ELSE "closed"
    /\ Goto(Main, "waitStop")
    /\ UNCHANGED <<seqVars, db, exit>>

\* <-stop
ServeReturns ==
    /\ At(Main, "waitStop")
    /\ stopClosed
    /\ Goto(Main, "wait")
    /\ UNCHANGED <<seqVars, hookVars, exit>>

\* A panic in AutoStart or in the front end is recovered from and takes the
\* shutdown sequence.
Panic ==
    /\ Alive
    /\ pc[Main] \in {"serve", "frontEnd"}
    /\ Goto(Main, "once")
    /\ UNCHANGED <<seqVars, hookVars, exit>>

-----------------------------------------------------------------------------
(* Shutdown.                                                               *)

\* A signal, a console event or a service control.
Event(c) ==
    /\ At(c, "away")
    /\ Goto(c, "once")
    /\ UNCHANGED <<seqVars, hookVars, exit>>

BugFirst(a) == a = Main \/ once = None
\* once.Do: the first caller runs the sequence, the others wait for it.
First(a) == once = None

\* The exit code a shutdown begun by this actor asks for.
OutcomeOf(a) == IF a = Main THEN ExitStartFailed ELSE ExitNormal

BugSetsCode(a) == TRUE
SetsCode(a) == First(a)

Enter(a) ==
    /\ At(a, "once")
    /\ code' = IF SetsCode(a) THEN OutcomeOf(a) ELSE code
    /\ IF First(a)
       THEN /\ once' = a
            /\ early' = (pc[Main] \in StartSteps)
            /\ Goto(a, "run")
       ELSE /\ Goto(a, "wait")
            /\ UNCHANGED <<once, early>>
    /\ UNCHANGED <<next, trace, stopClosed, done, result, hookVars, exit>>

BugClosed(state) == IF server = "serving" /\ state = "open" THEN "closed" ELSE state
BugClosedUnbound(state) == "closed"
\* stopAccepting closes the listener there is.
Closed(state) == IF state = "open" THEN "closed" ELSE state

\* What each hook does.  waitInflight shuts the server down: one that serves
\* closes its listener.
Effect(hook) ==
    /\ stopClosed' = (stopClosed \/ hook = "stop")
    /\ listener' = IF \/ hook = "stopAccepting"
                      \/ hook = "waitInflight" /\ server = "serving"
                   THEN Closed(listener) ELSE listener
    /\ server' = IF hook = "waitInflight" /\ server # "none" THEN "shut" ELSE server
    /\ db' = IF hook = "closeDatabase" /\ db = "open" THEN "closed" ELSE db

Hook(a) ==
    /\ At(a, "run")
    /\ next[a] <= Len(Hooks)
    /\ trace' = Append(trace, Hooks[next[a]])
    /\ next' = [next EXCEPT ![a] = @ + 1]
    /\ Effect(Hooks[next[a]])
    /\ UNCHANGED <<pc, once, done, code, result, exit, early>>

\* close(s.done)
Finish(a) ==
    /\ At(a, "run")
    /\ next[a] > Len(Hooks)
    /\ done' = TRUE
    /\ Goto(a, "wait")
    /\ UNCHANGED <<once, next, trace, stopClosed, code, result, hookVars, exit, early>>

BugAwaitDone(a) == done \/ a # once
\* <-s.done, the end of Serve and of every Shutdown.
AwaitDone(a) == done

\* A caller is given the exit code; the handler of a terminal event ends the
\* process with it.
ShutdownReturns(c) ==
    /\ At(c, "wait")
    /\ AwaitDone(c)
    /\ result' = [result EXCEPT ![c] = code]
    /\ Goto(c, "returned")
    /\ exit' = IF c \in Terminal THEN code ELSE exit
    /\ UNCHANGED <<once, next, trace, stopClosed, done, code, hookVars, early>>

\* Serve returns to main, which ends the process.
MainReturns ==
    /\ At(Main, "wait")
    /\ AwaitDone(Main)
    /\ ProcessExits(code)
    /\ UNCHANGED <<seqVars, hookVars>>

Shutdown(a) == Enter(a) \/ Hook(a) \/ Finish(a)
MainRuns ==
    Startup \/ AutoStart \/ FrontEnd \/ ServeReturns \/ Shutdown(Main) \/ MainReturns

Next ==
    \/ MainRuns
    \/ Panic
    \/ \E c \in Callers : Event(c) \/ Shutdown(c) \/ ShutdownReturns(c)
    \/ ~Alive /\ UNCHANGED vars

\* Goroutines run and hooks return; events and panics need not happen.
Spec ==
    /\ Init /\ [][Next]_vars
    /\ WF_vars(MainRuns)
    /\ \A c \in Callers : WF_vars(Shutdown(c) \/ ShutdownReturns(c))

-----------------------------------------------------------------------------
(* Properties.                                                             *)

\* Every variable has its type; there is a server exactly when there is a
\* listener, also when the shutdown overtook the binding of it.
TypeOK ==
    /\ pc \in [Actors -> MainSteps \cup CallerSteps]
    /\ pc[Main] \in MainSteps /\ \A c \in Callers : pc[c] \in CallerSteps
    /\ once \in Actors \cup {None}
    /\ next \in [Actors -> 1..Len(Hooks) + 1]
    /\ trace \in Seq(ToSet(Hooks))
    /\ {stopClosed, done, early} \subseteq BOOLEAN
    /\ code \in Codes
    /\ result \in [Callers -> Codes \cup {NotExited}]
    /\ db \in {"none", "open", "closed"} /\ listener \in {"none", "open", "closed"}
    /\ server \in {"none", "new", "serving", "shut"}
    /\ (server = "none") = (listener = "none")
    /\ exit \in Codes \cup {NotExited}

\* However many events arrive, and whatever else panics meanwhile, the hooks of
\* the shutdown sequence are called in its order and each of them once.
SequenceInOrder == IsPrefix(trace, Hooks)

\* A process does not end before the sequence is over: not the main goroutine that
\* saw stop closed, nor the handler of a second event.  A Startup that the shutdown
\* overtook may end it, but then as a failure and not as a stop that was asked for.
NoExitBeforeDone ==
    exit # NotExited /\ once # None => trace = Hooks \/ (early /\ exit # ExitNormal)

\* All callers of Shutdown, and the process, end with the exit code of what
\* began the shutdown: a panic that arrives during a requested shutdown does not
\* turn it into a failure, nor does a request hide the panic that came first.  Only
\* a Startup that fails under an early shutdown has its own.
ExitCodeIsOfFirst ==
    /\ \A c \in Callers : result[c] # NotExited => result[c] = OutcomeOf(once)
    /\ exit # NotExited /\ once # None =>
          exit = OutcomeOf(once) \/ (early /\ exit # ExitNormal)

\* The process leaves neither the database nor the listener open, whichever
\* stage of Startup failed, under an early shutdown too, and whatever ended it
\* later; but not when an early shutdown came before what it closes was opened.
ReleasedAtExit ==
    exit # NotExited /\ (early => exit # ExitNormal) => db # "open" /\ listener # "open"

Accepting == server = "serving" /\ listener = "open"

\* No connection is accepted after stopAccepting, even when it comes between
\* the binding of the listener and the start of the server.
NothingAcceptedAfterStop == ~early /\ Accepting => "stopAccepting" \notin ToSet(trace)

\* An event, and a panic, end the process.
EventsEndTheProcess ==
    \A a \in Actors : (pc[a] = "once") ~> (exit # NotExited)
=============================================================================
