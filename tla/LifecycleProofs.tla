--------------------------- MODULE LifecycleProofs ---------------------------
(***************************************************************************)
(* Theorems about Lifecycle, for every set of events, terminal or not, at  *)
(* any moment, and with or without the hook that stops the children.       *)
(***************************************************************************)
EXTENDS Lifecycle, SequenceTheorems, TLAPS

-----------------------------------------------------------------------------
(* The inductive invariant.                                                *)

Called(hook) == \E k \in 1..Len(trace) : trace[k] = hook

\* One actor runs the sequence, and the exit code is the one it asked for.
OnceInv ==
    /\ once = None => /\ trace = << >> /\ ~done
                      /\ \A a \in Actors : next[a] = 1
                      /\ \A c \in Callers : result[c] = NotExited
    /\ \A a \in Actors : pc[a] = "run" => once = a
    /\ once # None => code = OutcomeOf(once)

\* What was called of the sequence is what comes before the next hook.
TraceInv ==
    /\ once # None => Len(trace) = next[once] - 1
    /\ \A k \in 1..Len(trace) : trace[k] = Hooks[k]
    /\ done => once # None /\ Len(trace) = Len(Hooks)

\* The listener is there from Bind on; a shutdown that is not early finds it.
StartInv ==
    /\ pc[Main] \in StartSteps => listener = "none"
    /\ Alive /\ pc[Main] \notin StartSteps => listener # "none"
    /\ once # None /\ ~early => pc[Main] \notin StartSteps

\* What the hooks closed stays closed.
ClosedInv ==
    ~early =>
        /\ Called("stopAccepting") => listener = "closed"
        /\ Called("closeDatabase") => db # "open"

\* The process ends in a failed Startup, which has released what it opened, or when
\* the sequence is over.  Startup is overtaken by an event only.
ExitInv ==
    /\ exit # NotExited => done \/ ((once = None \/ early) /\ exit # ExitNormal)
    /\ exit \notin {NotExited, ExitNormal} /\ (once = None \/ early) =>
          db # "open" /\ listener = "none"
    /\ early => once \in Callers
    /\ ExitCodeIsOfFirst

IInv ==
    /\ TypeOK
    /\ OnceInv
    /\ TraceInv
    /\ StartInv
    /\ ClosedInv
    /\ ExitInv

-----------------------------------------------------------------------------
(* The sequence of hooks.                                                  *)

\* What run calls before the children, and from their collectors on.
Opening == <<"stopping", "stop", "stopAccepting", "waitInflight">>
Children == IF KillOnExit THEN <<"stopChildren">> ELSE << >>
Closing == <<"stopCollectors", "closeDatabase", "closeLog", "closeServerJob">>

Names == {"stopping", "stop", "stopAccepting", "waitInflight", "stopChildren",
          "stopCollectors", "closeDatabase", "closeLog", "closeServerJob"}

\* The hooks: four at first, those that kill the children if that was asked for,
\* four at last.
LEMMA HooksParts ==
    /\ Hooks \in Seq(Names)
    /\ Len(Hooks) = Len(Children) + 8
    /\ \A k \in 1..4 : Hooks[k] = Opening[k]
    /\ \A k \in 1..4 : Hooks[Len(Children) + 4 + k] = Closing[k]
    /\ Len(Children) \in {0, 1}
<1> DEFINE front == Opening \o Children
<1>1. Opening \in Seq(Names) /\ Len(Opening) = 4
  BY DEF Opening, Names
<1>2. Closing \in Seq(Names) /\ Len(Closing) = 4
  BY DEF Closing, Names
<1>3. Children \in Seq(Names) /\ Len(Children) \in {0, 1}
  <2>1. CASE KillOnExit
    BY <2>1 DEF Children, Names
  <2>2. CASE ~KillOnExit
    BY <2>2 DEF Children, Names
  <2> QED BY <2>1, <2>2
<1> HIDE DEF front
<1>4. /\ front \in Seq(Names) /\ Len(front) = 4 + Len(Children)
      /\ \A k \in 1..4 : front[k] = Opening[k]
  <2>1. /\ front \in Seq(Names) /\ Len(front) = Len(Opening) + Len(Children)
        /\ \A k \in 1..Len(Opening) + Len(Children) : front[k] =
              IF k <= Len(Opening) THEN Opening[k] ELSE Children[k - Len(Opening)]
    BY <1>1, <1>3, ConcatProperties DEF front
  <2> QED BY <1>1, <1>3, <2>1
<1>5. Hooks = front \o Closing
  BY DEF Hooks, front, Opening, Children, Closing
<1>6. /\ Hooks \in Seq(Names) /\ Len(Hooks) = Len(front) + Len(Closing)
      /\ \A k \in 1..Len(front) + Len(Closing) : Hooks[k] =
            IF k <= Len(front) THEN front[k] ELSE Closing[k - Len(front)]
  BY <1>2, <1>4, <1>5, ConcatProperties
<1>7. \A k \in 1..4 : Hooks[k] = Opening[k]
  BY <1>2, <1>3, <1>4, <1>6
<1>8. \A k \in 1..4 : Hooks[Len(Children) + 4 + k] = Closing[k]
  BY <1>2, <1>3, <1>4, <1>6
<1> QED BY <1>2, <1>3, <1>4, <1>6, <1>7, <1>8

\* Both that close something are among them.
LEMMA HooksRelease ==
    /\ \E k \in 1..Len(Hooks) : Hooks[k] = "stopAccepting"
    /\ \E k \in 1..Len(Hooks) : Hooks[k] = "closeDatabase"
<1>1. Hooks[3] = "stopAccepting" /\ 3 \in 1..Len(Hooks)
  BY HooksParts DEF Opening
<1>2. /\ Hooks[Len(Children) + 6] = "closeDatabase"
      /\ Len(Children) + 6 \in 1..Len(Hooks)
  BY HooksParts DEF Closing
<1> QED BY <1>1, <1>2

\* The hooks are a sequence of names.
LEMMA HooksTyped ==
    /\ Hooks \in Seq(ToSet(Hooks))
    /\ Len(Hooks) \in Nat
    /\ \A k \in 1..Len(Hooks) : Hooks[k] \in ToSet(Hooks)
<1>1. Hooks \in Seq(Names) /\ Len(Hooks) \in Nat /\ DOMAIN Hooks = 1..Len(Hooks)
  BY HooksParts, LenProperties
<1> QED BY <1>1 DEF ToSet

-----------------------------------------------------------------------------
(* Init, and the steps of the main goroutine.                              *)

\* Nothing was started and nothing asked for.
LEMMA InitInv == Init => IInv
<1> SUFFICES ASSUME Init PROVE IInv
  OBVIOUS
<1> USE LifecycleAssumption DEF Init
<1>1. TypeOK
  <2>1. /\ pc \in [Actors -> MainSteps \cup CallerSteps]
        /\ pc[Main] \in MainSteps /\ \A c \in Callers : pc[c] \in CallerSteps
    BY DEF Actors, MainSteps, StartSteps, CallerSteps
  <2>2. next \in [Actors -> 1..Len(Hooks) + 1]
    BY HooksTyped
  <2>3. trace \in Seq(ToSet(Hooks))
    BY EmptySeq
  <2>4. code \in Codes /\ result \in [Callers -> Codes \cup {NotExited}]
        /\ exit \in Codes \cup {NotExited}
    BY DEF Codes, ExitNormal
  <2> QED BY <2>1, <2>2, <2>3, <2>4 DEF TypeOK
<1>2. OnceInv
  BY DEF OnceInv, Actors
<1>3. TraceInv /\ ClosedInv
  BY DEF TraceInv, ClosedInv, Called
<1>4. StartInv
  BY DEF StartInv, Alive, Actors, StartSteps
<1>5. ExitInv
  BY DEF ExitInv, ExitCodeIsOfFirst
<1> QED BY <1>1, <1>2, <1>3, <1>4, <1>5 DEF IInv

\* What a step that does not call a hook leaves alone.
LEMMA SequenceKept ==
    ASSUME IInv, UNCHANGED <<once, next, trace, done, code, result, early>>,
           \A a \in Actors : pc'[a] = "run" => pc[a] = "run"
    PROVE  OnceInv' /\ TraceInv'
BY DEF IInv, OnceInv, TraceInv, OutcomeOf

\* The stages of Startup, and its unwinding.
LEMMA StartupInv == IInv /\ Startup => IInv'
<1> SUFFICES ASSUME IInv, Startup PROVE IInv'
  OBVIOUS
<1> DEFINE Fails == \E status \in {ExitStartFailed, ExitUnrecoverable} : StartupFails(status)
           Passes == /\ pc' \in {[pc EXCEPT ![Main] = s] : s \in StartSteps}
                     /\ UNCHANGED <<seqVars, listener, server, exit>>
                     /\ db' \in {db, "open"}
           Binds == /\ pc' = [pc EXCEPT ![Main] = "serve"]
                    /\ listener' = "open" /\ server' = "new"
                    /\ UNCHANGED <<seqVars, db, exit>>
<1>1. Alive /\ pc[Main] \in StartSteps /\ (Fails \/ Passes \/ Binds)
  BY DEF Startup, Stage, Open, Bind, At, Goto, StartSteps, hookVars
<1>2. UNCHANGED seqVars
  BY <1>1 DEF StartupFails
<1>3. \A a \in Actors : pc'[a] = "run" => pc[a] = "run"
  BY <1>1 DEF StartupFails, ProcessExits, Goto, IInv, TypeOK, StartSteps
<1>4. OnceInv' /\ TraceInv'
  BY <1>2, <1>3, SequenceKept DEF seqVars
<1>5. TypeOK'
  <2>1. TypeOK /\ Main \in Actors /\ Main \notin Callers /\ Callers \subseteq Actors
    BY LifecycleAssumption DEF IInv, Actors
  <2>2. CASE Fails
    BY <1>2, <2>1, <2>2 DEF StartupFails, ProcessExits, Goto, Unwound, TypeOK, seqVars,
       MainSteps, Codes
  <2>3. CASE Passes
    BY <2>1, <2>3 DEF TypeOK, seqVars, MainSteps
  <2>4. CASE Binds
    BY <2>1, <2>4 DEF TypeOK, seqVars, MainSteps
  <2> QED BY <1>1, <2>2, <2>3, <2>4
<1>6. StartInv'
  <2>1. Main \in Actors /\ pc \in [Actors -> MainSteps \cup CallerSteps]
    BY LifecycleAssumption DEF IInv, TypeOK, Actors
  <2>2. listener = "none" /\ exit = NotExited /\ (once # None => early)
    BY <1>1 DEF IInv, StartInv, Alive
  <2>3. CASE Fails
    BY <1>2, <2>1, <2>2, <2>3 DEF StartInv, StartupFails, ProcessExits, Goto, StartSteps,
       Alive, seqVars, NotExited, ExitStartFailed, ExitUnrecoverable
  <2>4. CASE Passes
    BY <1>2, <2>1, <2>2, <2>4 DEF StartInv, Alive, seqVars
  <2>5. CASE Binds
    BY <1>2, <2>1, <2>2, <2>5 DEF StartInv, StartSteps, Alive, seqVars
  <2> QED BY <1>1, <2>3, <2>4, <2>5
<1>7. ClosedInv'
  <2>1. ~early => once = None /\ trace = << >>
    BY <1>1 DEF IInv, StartInv, OnceInv
  <2> QED BY <1>2, <2>1 DEF ClosedInv, Called, seqVars
<1>8. ExitInv'
  <2>1. ~early => once = None
    BY <1>1 DEF IInv, StartInv
  <2>2. listener = "none" /\ exit = NotExited
    BY <1>1 DEF IInv, StartInv, Alive
  <2>3. exit' # NotExited => Fails
    BY <1>1, <2>2
  <2>4. Fails => exit' \notin {NotExited, ExitNormal} /\ db' # "open" /\ listener' = "none"
    BY <2>2 DEF StartupFails, ProcessExits, Unwound, NotExited, ExitNormal, ExitStartFailed,
       ExitUnrecoverable
  <2>5. /\ (early => once \in Callers)'
        /\ \A c \in Callers : result'[c] # NotExited => result'[c] = OutcomeOf(once')
    BY <1>2 DEF IInv, ExitInv, ExitCodeIsOfFirst, seqVars
  <2> QED BY <1>2, <2>1, <2>3, <2>4, <2>5 DEF ExitInv, ExitCodeIsOfFirst, seqVars, OutcomeOf
<1> QED BY <1>4, <1>5, <1>6, <1>7, <1>8 DEF IInv

\* A step of the main goroutine after Startup, or of an event, that neither
\* calls a hook nor begins or ends the sequence.
LEMMA QuietInv ==
    ASSUME IInv, Alive, UNCHANGED <<seqVars, db, exit>>,
           NEW a \in Actors, NEW step,
           pc' = [pc EXCEPT ![a] = step], step \notin StartSteps \cup {"run"},
           a = Main => pc[Main] \notin StartSteps /\ step \in MainSteps,
           a \in Callers => step \in CallerSteps,
           listener' \in {listener, "closed"}, listener = "none" => listener' = "none",
           server' \in {server, "serving"}, server = "none" => server' = "none"
    PROVE  IInv'
<1>1. Main \in Actors /\ Main \notin Callers /\ Callers \subseteq Actors
  BY LifecycleAssumption DEF Actors
<1>2. pc \in [Actors -> MainSteps \cup CallerSteps]
  BY DEF IInv, TypeOK
<1>3. OnceInv' /\ TraceInv'
  BY <1>2, SequenceKept DEF seqVars
<1>4. TypeOK'
  BY <1>1, <1>2 DEF IInv, TypeOK, seqVars, Actors
<1>5. StartInv'
  BY <1>1, <1>2 DEF IInv, StartInv, Alive, seqVars
<1>6. ClosedInv'
  BY DEF IInv, ClosedInv, Called, seqVars
<1>7. ExitInv'
  BY DEF IInv, ExitInv, ExitCodeIsOfFirst, Alive, seqVars, OutcomeOf
<1> QED BY <1>3, <1>4, <1>5, <1>6, <1>7 DEF IInv

\* The Serve hook, its end and its panics.
LEMMA ServeInv ==
    ASSUME IInv, AutoStart \/ FrontEnd \/ ServeReturns \/ Panic
    PROVE  IInv'
<1>1. PICK step \in {"frontEnd", "waitStop", "wait", "once"} : Goto(Main, step)
  BY DEF AutoStart, FrontEnd, ServeReturns, Panic
<1>2. Alive /\ pc[Main] \in {"serve", "frontEnd", "waitStop"}
  BY DEF AutoStart, FrontEnd, ServeReturns, Panic, At
<1>3. UNCHANGED <<seqVars, db, exit>>
  BY DEF AutoStart, FrontEnd, ServeReturns, Panic, hookVars
<1>4. listener # "none" /\ server # "none"
  BY <1>2 DEF IInv, StartInv, StartSteps, TypeOK
<1>5. listener' \in {listener, "closed"} /\ server' \in {server, "serving"}
  BY DEF AutoStart, FrontEnd, ServeReturns, Panic, hookVars
<1>6. Main \in Actors /\ Main \notin Callers
  BY LifecycleAssumption DEF Actors
<1> QED BY <1>1, <1>2, <1>3, <1>4, <1>5, <1>6, QuietInv DEF Goto, StartSteps, MainSteps

\* An event that arrives asks for a shutdown.
LEMMA EventInv == ASSUME IInv, NEW c \in Callers, Event(c) PROVE IInv'
<1>1. Main \in Actors /\ Main \notin Callers /\ c \in Actors
  BY LifecycleAssumption DEF Actors
<1> QED BY <1>1, QuietInv DEF Event, At, Goto, hookVars, StartSteps, CallerSteps

-----------------------------------------------------------------------------
(* The steps of Shutdown.                                                  *)

\* The first to enter runs the sequence, the others wait.
LEMMA EnterInv == ASSUME IInv, NEW a \in Actors, Enter(a) PROVE IInv'
<1>1. Main \in Actors /\ Main \notin Callers /\ Callers \subseteq Actors /\ None \notin Actors
  BY LifecycleAssumption DEF Actors
<1>2. /\ exit = NotExited /\ pc[a] = "once"
      /\ UNCHANGED <<next, trace, stopClosed, done, result, hookVars, exit>>
  BY DEF Enter, At, Alive
<1>3. pc \in [Actors -> MainSteps \cup CallerSteps]
  BY DEF IInv, TypeOK
<1>4. CASE once = None
  <2>1. /\ once' = a /\ code' = OutcomeOf(a) /\ early' = (pc[Main] \in StartSteps)
        /\ pc' = [pc EXCEPT ![a] = "run"]
    BY <1>4 DEF Enter, First, SetsCode, Goto
  <2>2. /\ trace = << >> /\ ~done /\ next[a] = 1 /\ \A c \in Callers : result[c] = NotExited
        /\ \A b \in Actors : pc[b] # "run"
    BY <1>1, <1>4 DEF IInv, OnceInv
  <2>3. TypeOK'
    BY <1>1, <1>2, <1>3, <2>1 DEF IInv, TypeOK, hookVars, MainSteps, CallerSteps, Codes,
       OutcomeOf
  <2>4. OnceInv'
    BY <1>1, <1>2, <1>3, <2>1, <2>2 DEF OnceInv, OutcomeOf
  <2>5. TraceInv' /\ ClosedInv'
    BY <1>2, <2>1, <2>2 DEF TraceInv, ClosedInv, Called
  <2>6. StartInv'
    BY <1>1, <1>2, <1>3, <2>1 DEF IInv, StartInv, StartSteps, Alive, hookVars
  <2>7. ExitInv'
    <3>1. early' => a \in Callers
      BY <1>2, <2>1 DEF Actors, StartSteps
    <3> QED BY <1>2, <2>1, <2>2, <3>1 DEF ExitInv, ExitCodeIsOfFirst
  <2> QED BY <2>3, <2>4, <2>5, <2>6, <2>7 DEF IInv
<1>5. CASE once # None
  <2>1. UNCHANGED <<once, code, early>> /\ pc' = [pc EXCEPT ![a] = "wait"]
    BY <1>5 DEF Enter, First, SetsCode, Goto
  <2>2. UNCHANGED <<seqVars, db, exit, listener, server>>
    BY <1>2, <2>1 DEF seqVars, hookVars
  <2> QED BY <1>1, <1>2, <2>1, <2>2, QuietInv DEF Alive, StartSteps, MainSteps, CallerSteps
<1> QED BY <1>4, <1>5

\* A hook is called after those before it.
LEMMA HookInv == ASSUME IInv, NEW a \in Actors, Hook(a) PROVE IInv'
<1> DEFINE hook == Hooks[next[a]]
<1>1. None \notin Actors /\ Main \in Actors
  BY LifecycleAssumption DEF Actors
<1>2. /\ exit = NotExited /\ once = a /\ next[a] <= Len(Hooks)
      /\ trace' = Append(trace, hook) /\ next' = [next EXCEPT ![a] = @ + 1]
      /\ Effect(hook)
      /\ UNCHANGED <<pc, once, done, code, result, exit, early>>
  BY DEF Hook, At, Alive, IInv, OnceInv
<1>3. /\ next \in [Actors -> 1..Len(Hooks) + 1] /\ trace \in Seq(ToSet(Hooks))
      /\ Len(trace) = next[a] - 1 /\ next[a] \in 1..Len(Hooks) /\ hook \in ToSet(Hooks)
      /\ \A k \in 1..Len(trace) : trace[k] = Hooks[k]
  BY <1>1, <1>2, HooksTyped DEF IInv, TypeOK, TraceInv
<1>4. /\ trace' \in Seq(ToSet(Hooks)) /\ Len(trace') = next[a]
      /\ \A k \in 1..Len(trace) : trace'[k] = trace[k]
      /\ trace'[next[a]] = hook
  BY <1>2, <1>3, HooksTyped, AppendProperties
<1>5. ~done
  BY <1>2, <1>3, HooksTyped DEF IInv, TraceInv
<1>6. TypeOK'
  <2>1. next' \in [Actors -> 1..Len(Hooks) + 1]
    BY <1>2, <1>3, HooksTyped
  <2>2. /\ db' \in {"none", "open", "closed"} /\ listener' \in {"none", "open", "closed"}
        /\ server' \in {"none", "new", "serving", "shut"}
        /\ (server' = "none") = (listener' = "none")
        /\ stopClosed' \in BOOLEAN
    BY <1>2 DEF Effect, Closed, IInv, TypeOK
  <2> QED BY <1>2, <1>4, <2>1, <2>2 DEF IInv, TypeOK
<1>7. OnceInv' /\ TraceInv'
  BY <1>1, <1>2, <1>3, <1>4, <1>5 DEF IInv, OnceInv, TraceInv, OutcomeOf
<1>8. StartInv'
  BY <1>2 DEF IInv, StartInv, Effect, Closed, Alive, TypeOK
<1>9. ClosedInv'
  <2>1. \A h : Called(h)' => Called(h) \/ h = hook
    BY <1>3, <1>4 DEF Called
  <2>2. ~early => listener # "none"
    BY <1>1, <1>2 DEF IInv, StartInv, Alive
  <2> QED BY <1>2, <2>1, <2>2 DEF IInv, ClosedInv, Effect, Closed, TypeOK
<1>10. ExitInv'
  BY <1>2 DEF IInv, ExitInv, ExitCodeIsOfFirst, OutcomeOf
<1> QED BY <1>6, <1>7, <1>8, <1>9, <1>10 DEF IInv

\* The sequence ends after its last hook.
LEMMA FinishInv == ASSUME IInv, NEW a \in Actors, Finish(a) PROVE IInv'
<1>1. Main \in Actors /\ Main \notin Callers /\ Callers \subseteq Actors /\ None \notin Actors
  BY LifecycleAssumption DEF Actors
<1>2. /\ exit = NotExited /\ pc[a] = "run" /\ once = a /\ next[a] = Len(Hooks) + 1
      /\ Len(trace) = Len(Hooks) /\ done' = TRUE /\ pc' = [pc EXCEPT ![a] = "wait"]
      /\ UNCHANGED <<once, next, trace, stopClosed, code, result, hookVars, exit, early>>
  BY <1>1, HooksTyped DEF Finish, At, Alive, Goto, IInv, OnceInv, TraceInv, TypeOK
<1>3. TypeOK'
  BY <1>1, <1>2 DEF IInv, TypeOK, hookVars, MainSteps, CallerSteps
<1>4. OnceInv' /\ TraceInv'
  BY <1>1, <1>2 DEF IInv, OnceInv, TraceInv, OutcomeOf, TypeOK
<1>5. StartInv' /\ ClosedInv'
  BY <1>1, <1>2 DEF IInv, StartInv, ClosedInv, Called, Alive, hookVars, TypeOK, StartSteps
<1>6. ExitInv'
  BY <1>2 DEF IInv, ExitInv, ExitCodeIsOfFirst, OutcomeOf
<1> QED BY <1>3, <1>4, <1>5, <1>6 DEF IInv

\* Callers return, and the process ends, with the code of the sequence.
LEMMA ReturnInv ==
    ASSUME IInv, MainReturns \/ \E c \in Callers : ShutdownReturns(c)
    PROVE  IInv'
<1>1. Main \in Actors /\ Main \notin Callers /\ Callers \subseteq Actors /\ None \notin Actors
  BY LifecycleAssumption DEF Actors
<1>2. /\ exit = NotExited /\ done /\ once # None /\ code = OutcomeOf(once) /\ code \in Codes
      /\ exit' \in {NotExited, code}
      /\ UNCHANGED <<once, next, trace, stopClosed, done, code, hookVars, early>>
  BY DEF MainReturns, ProcessExits, ShutdownReturns, At, Alive, AwaitDone, seqVars, IInv,
     OnceInv, TraceInv, TypeOK
<1>3. \A c \in Callers : result'[c] \in {result[c], code}
  BY DEF MainReturns, ShutdownReturns, seqVars, IInv, TypeOK
<1>4. result' \in [Callers -> Codes \cup {NotExited}]
  BY <1>2 DEF MainReturns, ShutdownReturns, seqVars, IInv, TypeOK
<1>5. \/ pc' = [pc EXCEPT ![Main] = "exited"] /\ exit' = code
      \/ \E c \in Callers : pc' = [pc EXCEPT ![c] = "returned"]
  BY DEF MainReturns, ShutdownReturns, ProcessExits, Goto
<1>6. TypeOK'
  BY <1>1, <1>2, <1>4, <1>5 DEF IInv, TypeOK, hookVars, MainSteps, CallerSteps
<1>7. OnceInv' /\ TraceInv'
  BY <1>1, <1>2, <1>5 DEF IInv, OnceInv, TraceInv, TypeOK, OutcomeOf
<1>8. StartInv'
  <2>1. code # NotExited /\ pc \in [Actors -> MainSteps \cup CallerSteps]
    BY <1>2 DEF IInv, TypeOK, Codes, NotExited, ExitNormal, ExitStartFailed, ExitUnrecoverable
  <2>2. CASE pc' = [pc EXCEPT ![Main] = "exited"] /\ exit' = code
    BY <1>1, <1>2, <2>1, <2>2 DEF IInv, StartInv, Alive, StartSteps, hookVars
  <2>3. CASE \E c \in Callers : pc' = [pc EXCEPT ![c] = "returned"]
    <3>1. pc'[Main] = pc[Main]
      BY <1>1, <2>1, <2>3
    <3> QED BY <1>2, <3>1 DEF IInv, StartInv, Alive, hookVars
  <2> QED BY <1>5, <2>2, <2>3
<1>9. ClosedInv'
  BY <1>2 DEF IInv, ClosedInv, Called, hookVars
<1>10. ExitInv'
  <2>1. /\ early => once \in Callers
        /\ \A c \in Callers : result[c] # NotExited => result[c] = OutcomeOf(once)
    BY DEF IInv, ExitInv, ExitCodeIsOfFirst
  <2>2. early => OutcomeOf(once) = ExitNormal
    BY <1>1, <2>1 DEF OutcomeOf
  <2> QED BY <1>2, <1>3, <2>1, <2>2 DEF ExitInv, ExitCodeIsOfFirst, OutcomeOf
<1> QED BY <1>6, <1>7, <1>8, <1>9, <1>10 DEF IInv

-----------------------------------------------------------------------------
(* The theorems.                                                           *)

\* The actions together.
LEMMA Inductive == IInv /\ [Next]_vars => IInv'
<1> SUFFICES ASSUME IInv, [Next]_vars PROVE IInv'
  OBVIOUS
<1>1. Main \in Actors /\ Callers \subseteq Actors
  BY DEF Actors
<1>2. CASE Startup
  BY <1>2, StartupInv
<1>3. CASE AutoStart \/ FrontEnd \/ ServeReturns \/ Panic
  BY <1>3, ServeInv
<1>4. CASE \E a \in Actors : Shutdown(a)
  BY <1>4, EnterInv, HookInv, FinishInv DEF Shutdown
<1>5. CASE MainReturns \/ \E c \in Callers : ShutdownReturns(c)
  BY <1>5, ReturnInv
<1>6. CASE \E c \in Callers : Event(c)
  BY <1>6, EventInv
<1>7. CASE UNCHANGED vars
  BY <1>7 DEF vars, IInv, TypeOK, OnceInv, TraceInv, StartInv, ClosedInv, Called, ExitInv,
     ExitCodeIsOfFirst, OutcomeOf, Alive
<1> QED BY <1>1, <1>2, <1>3, <1>4, <1>5, <1>6, <1>7 DEF Next, MainRuns

\* The invariant holds in every reachable state.
LEMMA InvariantHolds == Spec => []IInv
BY InitInv, Inductive, PTL DEF Spec

\* A sequence whose elements are those of the hooks up to some place.
LEMMA InOrder == IInv => SequenceInOrder
<1> SUFFICES ASSUME IInv PROVE IsPrefix(trace, Hooks)
  BY DEF SequenceInOrder
<1>1. /\ trace \in Seq(ToSet(Hooks)) /\ Len(trace) \in Nat /\ Len(trace) <= Len(Hooks)
      /\ \A k \in 1..Len(trace) : trace[k] = Hooks[k]
  <2>1. Len(trace) <= Len(Hooks)
    <3>1. CASE once = None
      BY <3>1, HooksTyped DEF IInv, OnceInv
    <3>2. CASE once # None
      BY <3>2, HooksTyped DEF IInv, TypeOK, TraceInv
    <3> QED BY <3>1, <3>2
  <2> QED BY <2>1 DEF IInv, TypeOK, TraceInv
<1>2. \A k \in 1..Len(trace) : trace[k] \in ToSet(Hooks) /\ Hooks[k] \in ToSet(Hooks)
  BY <1>1, HooksTyped
<1>3. /\ SubSeq(trace, 1, Len(trace)) \in Seq(ToSet(Hooks))
      /\ SubSeq(Hooks, 1, Len(trace)) \in Seq(ToSet(Hooks))
      /\ Len(SubSeq(trace, 1, Len(trace))) = Len(SubSeq(Hooks, 1, Len(trace)))
      /\ \A k \in 1..Len(trace) :
            SubSeq(trace, 1, Len(trace))[k] = SubSeq(Hooks, 1, Len(trace))[k]
      /\ Len(SubSeq(trace, 1, Len(trace))) = Len(trace)
  BY <1>1, <1>2, HooksTyped
<1>4. SubSeq(trace, 1, Len(trace)) = SubSeq(Hooks, 1, Len(trace))
  BY <1>3, SeqEqual
<1> QED BY <1>1, <1>4 DEF IsPrefix

\* When the sequence is over, all of it was called.
LEMMA Complete == IInv /\ done => trace = Hooks
BY HooksTyped, SeqEqual DEF IInv, TypeOK, TraceInv

\* Every variable has its type in every reachable state.
THEOREM TypeCorrect == Spec => []TypeOK
BY InvariantHolds, PTL DEF IInv

\* Server.shutdown: however many events arrive and wherever a panic comes, the
\* hooks are called in the order of run, each of them once.
THEOREM InSequence == Spec => []SequenceInOrder
BY InvariantHolds, InOrder, PTL

\* Serve and the handlers: a process does not end before the whole sequence was
\* called, unless it fails in a Startup that the shutdown overtook.
THEOREM EndsComplete == Spec => []NoExitBeforeDone
<1>1. IInv => NoExitBeforeDone
  BY Complete DEF NoExitBeforeDone, IInv, ExitInv
<1> QED BY <1>1, InvariantHolds, PTL

\* s.exitCode: every caller, and the process, gets the code of what came first.
THEOREM CodeOfFirst == Spec => []ExitCodeIsOfFirst
BY InvariantHolds, PTL DEF IInv, ExitInv

\* unwind and the hooks together: neither the database nor the listener is open
\* when the process ends, at whichever stage; an early shutdown may only leave open
\* what was opened behind its back in a Startup that went well.
THEOREM NothingLeftOpen == Spec => []ReleasedAtExit
<1>1. IInv => ReleasedAtExit
  <2> SUFFICES ASSUME IInv, exit # NotExited, early => exit # ExitNormal
               PROVE  db # "open" /\ listener # "open"
    BY DEF ReleasedAtExit
  <2>0. CASE early
    BY <2>0 DEF IInv, ExitInv
  <2>1. CASE done /\ ~early
    <3>1. Called("stopAccepting") /\ Called("closeDatabase")
      BY <2>1, Complete, HooksRelease DEF Called
    <3> QED BY <2>1, <3>1 DEF IInv, ClosedInv
  <2>2. CASE ~done /\ ~early
    BY <2>2 DEF IInv, ExitInv
  <2> QED BY <2>0, <2>1, <2>2
<1> QED BY <1>1, InvariantHolds, PTL

\* stopAccepting: once it was called no connection is accepted, also when the
\* server on the listener had not been started by then.
THEOREM AcceptsNothing == Spec => []NothingAcceptedAfterStop
<1>1. IInv => NothingAcceptedAfterStop
  <2>1. IInv => ("stopAccepting" \in ToSet(trace) => Called("stopAccepting"))
    BY LenProperties DEF Called, ToSet, IInv, TypeOK
  <2> QED BY <2>1 DEF NothingAcceptedAfterStop, Accepting, IInv, ClosedInv
<1> QED BY <1>1, InvariantHolds, PTL
=============================================================================
