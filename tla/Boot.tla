-------------------------------- MODULE Boot ---------------------------------
(***************************************************************************)
(* The database side of a start: Adapter.Validate (internal/dialect) and   *)
(* Store.Open and Migrate (internal/store), in servers that crash, fail    *)
(* and are started again, by a newer or an older build too, and in two     *)
(* servers at once on one database.                                        *)
(*                                                                         *)
(* A script is named by its number.  SQLite has one writer at a time, from *)
(* its first statement to the end of its transaction.                      *)
(***************************************************************************)
EXTENDS SqlSplit

CONSTANTS
    Servers,
    Nobody,     \* no server
    Cases       \* bound: the texts of the scripts, the servers on the database,
                \* and how many failures there are

ASSUME BootAssumption ==
    /\ Nobody \notin Servers
    /\ \A c \in Cases :
          /\ c.texts \in Seq(Seq(Chars)) \ {<< >>}
          /\ c.servers \subseteq Servers /\ c.failures \in Nat

VARIABLES
    case,
    \* the scripts as Validate and Statements take them, which is always the same
    valid, statements,
    \* each server: where it is, how many scripts its build has, the history it
    \* read, the script at hand and the next statement of it
    pc, build, done, script, next,
    \* the database: whether there is a history table, what is in it, the
    \* statements in effect, the writer and the statements of its transaction
    table, history, schema, writer, pending,
    failures      \* history: how often something failed

serverVars == <<pc, build, done, script, next>>
dbVars == <<table, history, schema, writer, pending>>
assetVars == <<case, valid, statements>>
vars == <<assetVars, serverVars, dbVars, failures>>

Steps == {"down", "refused", "validate", "open", "table", "history", "script",
          "statement", "record", "commit", "migrated"}

\* What Validate asks of a script.
Valid(text) == ~BareBegin(text) /\ Statements(text) # << >>

Init ==
    /\ case \in Cases
    /\ valid = [i \in DOMAIN case.texts |-> Valid(case.texts[i])]
    /\ statements = [i \in DOMAIN case.texts |-> Statements(case.texts[i])]
    /\ pc = [s \in case.servers |-> "down"]
    /\ build = [s \in case.servers |-> 1] /\ script = build /\ next = build
    /\ done = [s \in case.servers |-> {}]
    /\ table = FALSE /\ history = {} /\ schema = << >>
    /\ writer = Nobody /\ pending = << >>
    /\ failures = 0

Goto(s, step) == pc' = [pc EXCEPT ![s] = step]

-----------------------------------------------------------------------------

\* A server is started, of any build; the service manager does it again after
\* a failed start, but not after the one that says it is of no use.
Start(s) ==
    /\ pc[s] = "down"
    /\ \E b \in DOMAIN case.texts : build' = [build EXCEPT ![s] = b]
    /\ Goto(s, "validate")
    /\ UNCHANGED <<assetVars, done, script, next, dbVars, failures>>

Validate(s) ==
    /\ pc[s] = "validate"
    /\ Goto(s, IF \A i \in 1..build[s] : valid[i] THEN "open" ELSE "refused")
    /\ UNCHANGED <<assetVars, build, done, script, next, dbVars, failures>>

Open(s) ==
    /\ pc[s] = "open"
    /\ Goto(s, "table")
    /\ UNCHANGED <<assetVars, build, done, script, next, dbVars, failures>>

\* Migrate: the history table is there or is created.
EnsureTable(s) ==
    /\ pc[s] = "table"
    /\ table \/ writer = Nobody
    /\ table' = TRUE
    /\ Goto(s, "history")
    /\ UNCHANGED <<assetVars, build, done, script, next, history, schema, writer, pending, failures>>

\* appliedMigrations
ReadHistory(s) ==
    /\ pc[s] = "history"
    /\ done' = [done EXCEPT ![s] = history]
    /\ script' = [script EXCEPT ![s] = 1]
    /\ Goto(s, "script")
    /\ UNCHANGED <<assetVars, build, next, dbVars, failures>>

BugSkips(i, applied) == applied # {}
\* A script is known by its name alone.
Skips(i, applied) == i \in applied

NextScript(s) ==
    /\ pc[s] = "script"
    /\ \/ /\ script[s] > build[s]
          /\ Goto(s, "migrated")
          /\ UNCHANGED <<script, next>>
       \/ /\ script[s] <= build[s] /\ Skips(script[s], done[s])
          /\ script' = [script EXCEPT ![s] = @ + 1]
          /\ UNCHANGED <<pc, next>>
       \/ /\ script[s] <= build[s] /\ ~Skips(script[s], done[s])
          /\ next' = [next EXCEPT ![s] = 1]
          /\ Goto(s, "statement")
          /\ UNCHANGED script
    /\ UNCHANGED <<assetVars, build, done, dbVars, failures>>

\* applyOne: a statement, in the transaction.
Execute(s) ==
    /\ pc[s] = "statement"
    /\ writer \in {Nobody, s}
    /\ writer' = s
    /\ pending' = Append(pending, <<script[s], next[s]>>)
    /\ next' = [next EXCEPT ![s] = @ + 1]
    /\ Goto(s, IF next[s] = Len(statements[script[s]]) THEN "record" ELSE "statement")
    /\ UNCHANGED <<assetVars, build, done, script, table, history, schema, failures>>

\* The row of the history, whose key is the name of the script.
RecordHistory(s) ==
    /\ pc[s] = "record"
    /\ script[s] \notin history
    /\ Goto(s, "commit")
    /\ UNCHANGED <<assetVars, build, done, script, next, dbVars, failures>>

Commit(s) ==
    /\ pc[s] = "commit"
    /\ schema' = schema \o pending
    /\ history' = history \cup {script[s]}
    /\ writer' = Nobody /\ pending' = << >>
    /\ script' = [script EXCEPT ![s] = @ + 1]
    /\ Goto(s, "script")
    /\ UNCHANGED <<assetVars, build, done, next, table, failures>>

BugRolledBack == schema \o pending
RolledBack == schema
BugReleased == writer
\* The end of a transaction that was not committed.
Released == Nobody

GoesDown(s) ==
    /\ Goto(s, "down")
    /\ IF writer = s
       THEN schema' = RolledBack /\ writer' = Released /\ pending' = << >>
       ELSE UNCHANGED <<schema, writer, pending>>
    /\ UNCHANGED <<assetVars, build, done, script, next, table, history>>

\* A statement waits five seconds for another writer and fails.
Busy(s) ==
    /\ writer \notin {Nobody, s}
    /\ pc[s] = "statement" \/ (pc[s] = "table" /\ ~table)
    /\ GoesDown(s)
    /\ UNCHANGED failures

\* A script that another server has applied meanwhile does not go in again: one
\* of its statements may find it done, its row of the history does.
Overtaken(s) ==
    /\ script[s] \in history
    /\ pc[s] = "record" \/ (pc[s] = "statement" /\ writer \in {Nobody, s})
    /\ GoesDown(s)
    /\ UNCHANGED failures

\* Anything else that fails a start, a crash included.
Fails(s) ==
    /\ pc[s] \notin {"down", "refused"}
    /\ failures < case.failures
    /\ failures' = failures + 1
    /\ GoesDown(s)

Migrate(s) ==
    \/ EnsureTable(s) \/ ReadHistory(s) \/ NextScript(s)
    \/ Execute(s) \/ RecordHistory(s) \/ Commit(s)
    \/ Busy(s) \/ Overtaken(s)

Runs(s) == Start(s) \/ Validate(s) \/ Open(s) \/ Migrate(s)

Settled == \A s \in case.servers : pc[s] \in {"migrated", "refused"}

Next ==
    \/ \E s \in case.servers : Runs(s) \/ Fails(s)
    \/ Settled /\ UNCHANGED vars

\* Servers run, and are started again.
Spec ==
    /\ Init /\ [][Next]_vars
    /\ \A s \in Servers : WF_vars(s \in case.servers /\ Runs(s))

-----------------------------------------------------------------------------
(* Properties.                                                             *)

\* What the splitter does with a script is what SQL would: the same statements,
\* and a compound statement is seen exactly where there is one.
SplitsLikeSql ==
    \A i \in DOMAIN case.texts :
        ~ShortComment(case.texts[i]) =>
            /\ statements[i] = SqlStatements(case.texts[i])
            /\ valid[i] <=> ~SqlBegin(case.texts[i]) /\ statements[i] # << >>

Before(p, q) == p[1] < q[1] \/ (p[1] = q[1] /\ p[2] < q[2])

\* The statements in effect are those of the scripts in the history: each script
\* whole, once, and in order, whoever crashed in the middle of one and whoever
\* else was applying the same.
SchemaMatchesHistory ==
    /\ ToSet(schema) = UNION {{i} \X (1..Len(statements[i])) : i \in history}
    /\ \A j, k \in DOMAIN schema : j < k => Before(schema[j], schema[k])

\* A server goes on to restore its entries on a database that has all of its
\* build's scripts in effect.
MigratedMeansApplied ==
    \A s \in case.servers : pc[s] = "migrated" => 1..build[s] \subseteq history

\* Every server gets through its migrations in the end, also when two of them
\* stand in each other's way; only a defective build does not.
EveryServerSettles == <>[]Settled
=============================================================================
