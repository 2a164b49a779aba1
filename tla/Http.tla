-------------------------------- MODULE Http ---------------------------------
(***************************************************************************)
(* internal/httpapi in front of the runner, the issuer and the store: the  *)
(* order in which a request is refused, what a body is checked for, what   *)
(* is then done with it, and what becomes of its connection during a       *)
(* shutdown.  Requests of several connections interleave between the       *)
(* checks and the calls behind them.                                       *)
(*                                                                         *)
(* What the runner does in a call is in module Manager, and the issuer in  *)
(* Issuer; here a call is the row it writes, which the constraints of the  *)
(* schema may refuse.  Lengths are in characters, none of them NUL.        *)
(***************************************************************************)
EXTENDS Integers, Sequences, SequencesExt, FiniteSets

CONSTANTS
    Conns,        \* connections, each kept alive
    Ids,          \* bound: the identifiers there are
    Requests,     \* bound: what callers send
    Tokens,       \* the allowed tokens; none switches the check off
    HasIndex, HasHelp,   \* whether the build has a screen and an API description
    Faults        \* bound: writes that fail for a reason of the store's own

ASSUME HttpAssumption ==
    Faults \in Nat /\ Requests # {} /\ {HasIndex, HasHelp} \subseteq BOOLEAN

VARIABLES
    \* "open", "stopping" from BeginShutdown on, "waiting" in http.Server.Shutdown,
    \* "cut" from the end of its budget, when every connection is closed
    phase,
    entries,      \* the runner's
    \* each connection: what it is at, whether its answer closes it, its
    \* request, and the answer to it
    at, last, req, answer,
    faults        \* history: writes that failed

connVars == <<at, last, req, answer>>
vars == <<phase, entries, connVars, faults>>

-----------------------------------------------------------------------------
(* Values in a request body: nothing (or null), something of another type, *)
(* a number, or a text with the length of it and of its first word.        *)

Absent == [type |-> "absent"]
Other == [type |-> "other"]
Number(n) == [type |-> "number", is |-> n]
Text(length, word) == [type |-> "text", length |-> length, word |-> word]
Name(n) == [type |-> "text", length |-> 1, word |-> 1, is |-> n]

Present(v) == v.type # "absent"
IsText(v) == v.type = "text"
Blank(v) == IsText(v) /\ v.word = 0
Within(v, length) == IsText(v) /\ v.length <= length

cmdMaxLen == 4096
labelMaxLen == 128
requesterMaxLen == 64
spawnLabelMaxLen == 256
ttlAllowed(n) == 60 <= n /\ n <= 86400
allowedKinds == {"session", "worker", "task"}

\* validateRegistration and parseStartFlag, in the order of their checks: the
\* first one that fails names the field.  Only auto_start tells null from absent.
RegistrationChecks(body) ==
    << <<"cmd", IsText(body.cmd) /\ ~Blank(body.cmd)>>,
       <<"cmd", Within(body.cmd, cmdMaxLen)>>,
       <<"label", Present(body.label) => IsText(body.label) /\ ~Blank(body.label)>>,
       <<"label", Present(body.label) => Within(body.label, labelMaxLen)>>,
       <<"cwd", Present(body.cwd) => IsText(body.cwd)>>,
       <<"env", body.env # Other>>,
       <<"auto_start", body.autoStart # Other>> >>
StartCheck(body) == << <<"start", body.start # Other>> >>

\* validateSpawn
SpawnChecks(body) ==
    << <<"requester", IsText(body.requester) /\ ~Blank(body.requester)>>,
       <<"requester", Within(body.requester, requesterMaxLen)>>,
       <<"kind", IsText(body.kind) /\ body.kind.is \in allowedKinds>>,
       <<"request_key", Present(body.key) => IsText(body.key)>>,
       <<"options", body.options # Other>>,
       <<"options.label", Present(body.label) => Within(body.label, spawnLabelMaxLen)>>,
       <<"options.ttl_seconds", Present(body.ttl) =>
             body.ttl.type = "number" /\ ttlAllowed(body.ttl.is)>> >>

Failed(checks) == {k \in DOMAIN checks : ~checks[k][2]}
FirstFailed(checks) == checks[CHOOSE k \in Failed(checks) : \A j \in Failed(checks) : k <= j][1]

\* The label of a registration; a command without one is named by its first word.
DerivedLabel(body) ==
    IF Present(body.label) THEN body.label ELSE Text(body.cmd.word, body.cmd.word)

-----------------------------------------------------------------------------
(* Routes.  A path is its segments, and whether it is written without any  *)
(* slash that segments() would drop.                                       *)

Read == {"GET", "HEAD"}
NoRoute == [kind |-> "none", methods |-> {}]

Resolve(path) ==
    LET segs == path.segs
        Exact(name) == path.exact /\ segs = <<name>>
        Process(n) == Len(segs) = n /\ segs[1] = "processes"
        Is(kind, methods) == [kind |-> kind, methods |-> methods]
    IN
    CASE path.exact /\ (segs = << >> \/ Exact("index.html")) /\ HasIndex -> Is("index", Read)
      [] Exact("healthz") -> Is("health", Read)
      [] Exact("help") /\ HasHelp -> Is("help", Read)
      [] Exact("spawn") -> Is("spawn", {"POST"})
      [] Process(1) -> Is("processes", Read \cup {"POST"})
      [] Process(2) -> Is("item", Read \cup {"PUT", "DELETE"})
      [] Process(3) /\ segs[3] \in {"run", "stop", "restart"} -> Is("action", {"POST"})
      [] Process(3) /\ segs[3] = "logs" -> Is("logs", Read)
      [] OTHER -> NoRoute

\* A text is no shorter than its first word.
ASSUME CommandAssumption ==
    \A r \in Requests :
        LET cmd == r.fields.cmd IN
        Resolve(r.path).kind # "spawn" /\ IsText(cmd) =>
            cmd.length \in Nat /\ cmd.word \in 0..cmd.length

AuthFree(kind) == kind \in {"index", "health"}

\* authorised, bearerToken and knownToken.
Authorised(r) ==
    Tokens = {} \/ (r.auth.scheme = "bearer" /\ r.auth.token \in Tokens)

\* An answer is a status and what it says; that of a write notes, as history, a
\* fault of the store's own.
NoRequest == [method |-> "none"]
NoAnswer == [status |-> 0, says |-> "nothing"]
Says(status, text) == [status |-> status, says |-> text]
NotFound == Says(404, "process not found")

\* ServeHTTP, up to the call of a handler: the refusals in their order.
Refusals(r) ==
    LET route == Resolve(r.path) IN
    << <<Says(413, "too large"), r.body = "declared too large">>,
       <<Says(404, "unknown endpoint"), route.kind = "none">>,
       <<Says(405, "method not allowed"), r.method \notin route.methods>>,
       <<Says(401, "unauthorized"), ~AuthFree(route.kind) /\ ~Authorised(r)>> >>

\* readObject
BodyRefusals(body) ==
    << <<Says(413, "too large"), body = "turns out too large">>,
       <<Says(400, "body"), body \in {"no json", "no object", "broken off"}>> >>

Applying(refusals) == {k \in DOMAIN refusals : refusals[k][2]}
FirstOf(refusals) ==
    refusals[CHOOSE k \in Applying(refusals) : \A j \in Applying(refusals) : k <= j][1]

HasBody(r) ==
    \/ Resolve(r.path).kind \in {"spawn", "processes"} /\ r.method = "POST"
    \/ Resolve(r.path).kind = "item" /\ r.method = "PUT"

Checks(r) ==
    IF Resolve(r.path).kind = "spawn" THEN SpawnChecks(r.fields)
    ELSE IF r.method = "POST" THEN RegistrationChecks(r.fields) \o StartCheck(r.fields)
    ELSE RegistrationChecks(r.fields)

-----------------------------------------------------------------------------

Init ==
    /\ phase = "open"
    /\ entries = {} /\ faults = 0
    /\ at = [c \in Conns |-> "idle"]
    /\ last = [c \in Conns |-> FALSE]
    /\ req = [c \in Conns |-> NoRequest]
    /\ answer = [c \in Conns |-> NoAnswer]

Goto(c, step) == at' = [at EXCEPT ![c] = step]
Replies(c, what) == Goto(c, "reply") /\ answer' = [answer EXCEPT ![c] = what]

\* "Connection: close" goes with every answer from BeginShutdown on.
ClosesAfter == phase # "open"

Receive(c) ==
    /\ at[c] = "idle"
    /\ \E r \in Requests : req' = [req EXCEPT ![c] = r]
    /\ last' = [last EXCEPT ![c] = ClosesAfter]
    /\ Goto(c, "dispatch")
    /\ UNCHANGED <<phase, entries, answer, faults>>

Dispatch(c) ==
    /\ at[c] = "dispatch"
    /\ IF Applying(Refusals(req[c])) # {}
       THEN Replies(c, FirstOf(Refusals(req[c])))
       ELSE /\ Goto(c, IF HasBody(req[c]) THEN "body" ELSE "call")
            /\ UNCHANGED answer
    /\ UNCHANGED <<phase, entries, last, req, faults>>

\* readObject, which a connection that is closed under it breaks off, and the
\* validation of what it read.
ReadBody(c) ==
    LET body == IF phase = "cut" THEN "broken off" ELSE req[c].body
        checks == Checks(req[c])
    IN
    /\ at[c] = "body"
    /\ IF Applying(BodyRefusals(body)) # {}
       THEN Replies(c, FirstOf(BodyRefusals(body)))
       ELSE IF Failed(checks) # {}
            THEN Replies(c, Says(400, FirstFailed(checks)))
            ELSE Goto(c, "call") /\ UNCHANGED answer
    /\ UNCHANGED <<phase, entries, last, req, faults>>

\* The constraints of runner_entry, and of spawn_instance, on a row.
EntryFits(body) ==
    /\ 1 <= body.cmd.length /\ body.cmd.length <= 4096
    /\ DerivedLabel(body).length <= 128
BugInstanceFits(body) ==
    body.requester.length <= 64 /\ (Present(body.label) => body.label.length <= 128)
InstanceFits(body) ==
    /\ body.kind.is \in {"session", "worker", "task"}
    /\ body.requester.length <= 64
    /\ Present(body.label) => body.label.length <= 256
    /\ Present(body.ttl) => 60 <= body.ttl.is /\ body.ttl.is <= 86400

\* A write to the store: refused by a constraint, or for a reason of its own.
Writes(fault) ==
    /\ fault => faults < Faults
    /\ faults' = faults + (IF fault THEN 1 ELSE 0)

Written(fits, fault) ==
    [status |-> 200, says |-> IF fits /\ ~fault THEN "persisted" ELSE "not persisted",
     fault |-> fault]

\* bound: an entry that is not among Ids, and is never named in a request
Further == "further"

\* Register, whose entry is listed whether or not it was saved; Update and
\* Delete, which look the entry up first.
Register(c) ==
    \E id \in (Ids \ entries) \cup {Further}, fault \in BOOLEAN :
        LET fits == EntryFits(req[c].fields) IN
        /\ Resolve(req[c].path).kind = "processes" /\ req[c].method = "POST"
        /\ Writes(fault)
        /\ entries' = (entries \cup {id}) \cap Ids
        /\ Replies(c, Written(fits, fault))

Update(c, id) ==
    \E fault \in BOOLEAN :
        LET fits == EntryFits(req[c].fields) IN
        /\ req[c].method = "PUT" /\ id \in entries
        /\ Writes(fault)
        /\ Replies(c, Written(fits, fault))
        /\ UNCHANGED entries

Delete(c, id) ==
    \E fault \in BOOLEAN :
        /\ req[c].method = "DELETE" /\ id \in entries
        /\ Writes(fault)
        /\ entries' = entries \ {id}
        /\ Replies(c, Written(TRUE, fault))

\* What is asked of one entry, by a caller who may name one that is gone.
Item(c) ==
    LET id == req[c].path.segs[2] IN
    /\ Resolve(req[c].path).kind \in {"item", "action", "logs"}
    /\ \/ Update(c, id) \/ Delete(c, id)
       \/ /\ id \notin entries
          /\ Replies(c, NotFound)
          /\ UNCHANGED <<entries, faults>>
       \/ /\ id \in entries /\ req[c].method \notin {"PUT", "DELETE"}
          /\ Replies(c, Says(200, "process"))
          /\ UNCHANGED <<entries, faults>>

\* Issue: an instance that cannot be written is a storage error.
Spawn(c) ==
    \E fault \in BOOLEAN :
        LET fits == InstanceFits(req[c].fields) IN
        /\ Resolve(req[c].path).kind = "spawn"
        /\ Writes(fault)
        /\ Replies(c, IF fits /\ ~fault THEN Written(fits, fault)
                      ELSE [status |-> 500, says |-> "not persisted", fault |-> fault])
        /\ UNCHANGED <<entries>>

\* The screen, /healthz, /help and the list.
Content(c) ==
    /\ \/ Resolve(req[c].path).kind \in {"index", "health", "help"}
       \/ Resolve(req[c].path).kind = "processes" /\ req[c].method \in Read
    /\ Replies(c, Says(200, "content"))
    /\ UNCHANGED <<entries, faults>>

Call(c) ==
    /\ at[c] = "call"
    /\ Register(c) \/ Item(c) \/ Spawn(c) \/ Content(c)
    /\ UNCHANGED <<phase, last, req>>

\* net/http, after the handler.
Reply(c) ==
    /\ at[c] = "reply"
    /\ Goto(c, IF last[c] \/ phase \in {"waiting", "cut"} THEN "closed" ELSE "idle")
    /\ req' = [req EXCEPT ![c] = NoRequest]
    /\ answer' = [answer EXCEPT ![c] = NoAnswer]
    /\ last' = [last EXCEPT ![c] = FALSE]
    /\ UNCHANGED <<phase, entries, faults>>

\* net/http closes what is idle, while the wait lasts and at its end.
CloseIdle(c) ==
    /\ phase \in {"waiting", "cut"} /\ at[c] = "idle"
    /\ Goto(c, "closed")
    /\ UNCHANGED <<phase, entries, last, req, answer, faults>>

\* stopAccepting and waitInflight, on the goroutine of the shutdown.
StopAccepting ==
    /\ phase = "open" /\ phase' = "stopping"
    /\ UNCHANGED <<entries, connVars, faults>>

StartWait ==
    /\ phase = "stopping" /\ phase' = "waiting"
    /\ UNCHANGED <<entries, connVars, faults>>

BugAfterBudget == "waiting"
\* The wait gives up and closes the server.
AfterBudget == "cut"

BudgetEnds ==
    /\ phase = "waiting" /\ phase' = AfterBudget
    /\ \E c \in Conns : at[c] # "closed"
    /\ UNCHANGED <<entries, connVars, faults>>

Runs(c) == Dispatch(c) \/ Call(c) \/ Reply(c) \/ CloseIdle(c)

Next ==
    \/ \E c \in Conns : Receive(c) \/ ReadBody(c) \/ Runs(c)
    \/ StopAccepting \/ StartWait \/ BudgetEnds
    \/ (\A c \in Conns : at[c] = "closed") /\ UNCHANGED vars

\* Handlers run, idle connections are looked for, and a budget ends.  Callers send
\* requests, and the rest of a body, when they please or never; a body is not
\* waited for on a connection that was closed.
Spec ==
    /\ Init /\ [][Next]_vars
    /\ \A c \in Conns : WF_vars(Runs(c)) /\ WF_vars(phase = "cut" /\ ReadBody(c))
    /\ WF_vars(StartWait) /\ WF_vars(BudgetEnds)

-----------------------------------------------------------------------------
(* Properties.                                                             *)

Unsaved(c) ==
    at[c] = "reply" /\ answer[c].says = "not persisted" /\ ~answer[c].fault

\* What the server accepts the schema accepts: a request that passes every
\* check is not refused by the constraints behind them.
AcceptedIsStorable == \A c \in Conns : ~Unsaved(c)

\* The same for instances, and for registrations that give their own label.
GivenIsStorable ==
    \A c \in Conns :
        Unsaved(c) => Resolve(req[c].path).kind # "spawn" /\ ~Present(req[c].fields.label)

\* No caller holds a shutdown up, neither one that sends request after request
\* nor one that never ends the body it began: every connection goes.
ConnectionsLeave == \A c \in Conns : phase = "stopping" ~> (at[c] = "closed")
=============================================================================
