----------------------------- MODULE BootProofs ------------------------------
(***************************************************************************)
(* Theorems about Boot, for any scripts, any number of servers and builds  *)
(* and any number of crashes and failures.                                 *)
(***************************************************************************)
EXTENDS Boot, FiniteSetTheorems, TLAPS

-----------------------------------------------------------------------------

\* A server at its scripts has every one before the one at hand in the history,
\* whoever put it there, and what it read of the history still stands.
AppliedInv ==
    /\ case \in Cases
    /\ pc \in [case.servers -> Steps]
    /\ build \in [case.servers -> Nat] /\ script \in [case.servers -> Nat]
    /\ done \in [case.servers -> SUBSET history]
    /\ \A s \in case.servers :
          /\ pc[s] \in {"script", "statement", "record", "commit"} =>
                1..script[s] - 1 \subseteq history
          /\ pc[s] = "migrated" => 1..build[s] \subseteq history

\* No server is past a script at first.
LEMMA InitApplied == Init => AppliedInv
  BY DEF Init, AppliedInv, Steps

\* Each script a server passes is in the history, whoever committed it.
LEMMA AppliedInductive == AppliedInv /\ [Next]_vars => AppliedInv'
<1> SUFFICES ASSUME AppliedInv, [Next]_vars PROVE AppliedInv'
  OBVIOUS
<1> USE DEF Steps, Goto, assetVars, dbVars
<1>1. CASE UNCHANGED vars
  BY <1>1 DEF AppliedInv, vars, serverVars
<1>2. ASSUME NEW s \in case.servers, Start(s) PROVE AppliedInv'
  <2>1. DOMAIN case.texts \subseteq Nat
    BY BootAssumption DEF AppliedInv
  <2> QED BY <1>2, <2>1 DEF Start, AppliedInv
<1>3. ASSUME NEW s \in case.servers, Validate(s) \/ Open(s) \/ EnsureTable(s)
      PROVE AppliedInv'
  BY <1>3 DEF Validate, Open, EnsureTable, AppliedInv
<1>4. ASSUME NEW s \in case.servers, ReadHistory(s) PROVE AppliedInv'
  BY <1>4 DEF ReadHistory, AppliedInv
<1>5. ASSUME NEW s \in case.servers, NextScript(s) PROVE AppliedInv'
  <2>1. script[s] \in Nat /\ build[s] \in Nat /\ done[s] \subseteq history
    BY DEF AppliedInv
  <2>2. UNCHANGED <<case, build, done, history>> /\ 1..script[s] - 1 \subseteq history
    BY <1>5 DEF NextScript, AppliedInv
  <2>3. CASE script[s] > build[s] /\ pc' = [pc EXCEPT ![s] = "migrated"] /\ UNCHANGED script
    <3>1. 1..build[s] \subseteq history
      BY <2>1, <2>2, <2>3
    <3> QED BY <2>2, <2>3, <3>1 DEF AppliedInv
  <2>4. CASE /\ script[s] \in done[s] /\ UNCHANGED pc
             /\ script' = [script EXCEPT ![s] = @ + 1]
    <3>1. 1..script[s] + 1 - 1 \subseteq history
      BY <2>1, <2>2, <2>4
    <3> QED BY <1>5, <2>1, <2>2, <2>4, <3>1 DEF AppliedInv, NextScript
  <2>5. CASE pc' = [pc EXCEPT ![s] = "statement"] /\ UNCHANGED script
    BY <2>2, <2>5 DEF AppliedInv
  <2> QED BY <1>5, <2>3, <2>4, <2>5 DEF NextScript, Skips
<1>6. ASSUME NEW s \in case.servers, Execute(s) \/ RecordHistory(s) PROVE AppliedInv'
  BY <1>6 DEF Execute, RecordHistory, AppliedInv
<1>7. ASSUME NEW s \in case.servers, Commit(s) PROVE AppliedInv'
  BY <1>7 DEF Commit, AppliedInv
<1>8. ASSUME NEW s \in case.servers, GoesDown(s) PROVE AppliedInv'
  BY <1>8 DEF GoesDown, AppliedInv
<1> QED
  BY <1>1, <1>2, <1>3, <1>4, <1>5, <1>6, <1>7, <1>8
  DEF Next, Runs, Migrate, Busy, Overtaken, Fails

\* Migrate, over crashes, restarts and a second server: one that goes on to its
\* entries has all of its build's scripts in the history.
THEOREM MigratedIsApplied == Spec => []MigratedMeansApplied
<1>1. AppliedInv => MigratedMeansApplied
  BY DEF AppliedInv, MigratedMeansApplied
<1> QED
  BY InitApplied, AppliedInductive, <1>1, PTL DEF Spec

-----------------------------------------------------------------------------
(* The statements in effect.                                               *)

Places == Nat \X Nat
Writing == {"statement", "record", "commit"}

\* The transaction of a server holds the statements of its script up to the next.
\* SQLite lets one server write, and it does so until it commits or goes down.
WriterInv ==
    /\ next \in [case.servers -> Nat \ {0}]
    /\ \A s \in case.servers : script[s] # 0
    /\ writer = Nobody => pending = << >>
    /\ \A s \in case.servers :
          /\ pc[s] = "statement" /\ next[s] # 1 => writer = s
          /\ pc[s] \in {"record", "commit"} =>
                /\ writer = s
                /\ next[s] = Len(statements[script[s]]) + 1
          /\ pc[s] = "commit" => script[s] \notin history
          /\ writer = s =>
                /\ pc[s] \in Writing
                /\ pending = [k \in 1..next[s] - 1 |-> <<script[s], k>>]

\* The history is always a first part of the scripts.
HistoryInv ==
    /\ history \subseteq Nat \ {0}
    /\ \A i \in history : 1..i \subseteq history
    /\ schema \in Seq(Places)
    /\ SchemaMatchesHistory

BInv == AppliedInv /\ WriterInv /\ HistoryInv

\* A function on 1..n is a sequence.
LEMMA SeqOfFunction ==
    ASSUME NEW S, NEW n \in Nat, NEW f \in [1..n -> S]
    PROVE  f \in Seq(S) /\ Len(f) = n
OBVIOUS

\* What a commit adds is after everything that is there.
LEMMA CommitInOrder ==
    ASSUME NEW s \in case.servers, BInv, Commit(s)
    PROVE  HistoryInv'
<1> DEFINE i == script[s]
           n == next[s] - 1
           Of(j) == {j} \X (1..Len(statements[j]))
<1>1. /\ i \in Nat \ {0} /\ n \in Nat /\ n = Len(statements[i]) /\ i \notin history
      /\ pending = [k \in 1..n |-> <<i, k>>] /\ 1..i - 1 \subseteq history
      /\ history' = history \cup {i} /\ schema' = schema \o pending
      /\ UNCHANGED statements
  BY DEF BInv, WriterInv, AppliedInv, Commit, assetVars
<1>2. \A h \in history : h < i
  <2> SUFFICES ASSUME NEW h \in history, ~(h < i) PROVE FALSE
    OBVIOUS
  <2>1. i \in 1..h /\ h \in Nat
    BY <1>1 DEF BInv, HistoryInv
  <2> QED BY <1>1, <2>1 DEF BInv, HistoryInv
<1>3. history' \subseteq Nat \ {0} /\ \A h \in history' : 1..h \subseteq history'
  <2>1. 1..i \subseteq history'
    BY <1>1
  <2> QED BY <1>1, <2>1 DEF BInv, HistoryInv
<1>4. /\ schema \in Seq(Places) /\ pending \in Seq(Places) /\ Len(pending) = n
      /\ \A k \in 1..n : pending[k] = <<i, k>>
  <2>1. \A k \in 1..n : <<i, k>> \in Places
    BY <1>1 DEF Places
  <2>2. pending \in [1..n -> Places]
    BY <1>1, <2>1
  <2>3. pending \in Seq(Places) /\ Len(pending) = n
    <3>1. n \in Nat
      BY <1>1
    <3> HIDE DEF n
    <3> QED BY <2>2, <3>1, SeqOfFunction
  <2> QED BY <1>1, <2>3 DEF BInv, HistoryInv
<1>5. /\ schema' \in Seq(Places) /\ DOMAIN schema' = 1..Len(schema) + n
      /\ Len(schema) \in Nat /\ DOMAIN schema = 1..Len(schema)
      /\ \A k \in 1..Len(schema) : schema'[k] = schema[k]
      /\ \A k \in 1..n : schema'[Len(schema) + k] = <<i, k>>
  BY <1>1, <1>4
<1>6. \A k \in DOMAIN schema : schema[k][1] \in history
  <2> SUFFICES ASSUME NEW k \in DOMAIN schema PROVE schema[k][1] \in history
    OBVIOUS
  <2>1. schema[k] \in UNION {Of(h) : h \in history}
    BY DEF BInv, HistoryInv, SchemaMatchesHistory, ToSet
  <2> QED BY <2>1
<1>7. ToSet(schema') = UNION {Of(h) : h \in history'}
  <2>1. ToSet(schema') = ToSet(schema) \cup {<<i, k>> : k \in 1..n}
    <3>1. ASSUME NEW x \in ToSet(schema')
          PROVE  x \in ToSet(schema) \cup {<<i, k>> : k \in 1..n}
      <4>1. PICK k \in 1..Len(schema) + n : x = schema'[k]
        BY <3>1, <1>5 DEF ToSet
      <4>2. CASE k \in 1..Len(schema)
        BY <4>1, <4>2, <1>5 DEF ToSet
      <4>3. CASE k - Len(schema) \in 1..n
        <5>1. x = <<i, k - Len(schema)>>
          BY <4>1, <4>3, <1>5
        <5> QED BY <4>3, <5>1
      <4> QED BY <4>1, <4>2, <4>3, <1>1, <1>5
    <3>2. ASSUME NEW x \in ToSet(schema) PROVE x \in ToSet(schema')
      BY <3>2, <1>1, <1>5 DEF ToSet
    <3>3. ASSUME NEW k \in 1..n PROVE <<i, k>> \in ToSet(schema')
      <4>1. Len(schema) + k \in 1..Len(schema) + n
        BY <1>1, <1>5
      <4> QED BY <4>1, <1>5 DEF ToSet
    <3> QED BY <3>1, <3>2, <3>3
  <2>2. ToSet(schema) = UNION {Of(h) : h \in history}
    BY DEF BInv, HistoryInv, SchemaMatchesHistory
  <2>3. {<<i, k>> : k \in 1..n} = Of(i)
    BY <1>1
  <2> QED BY <2>1, <2>2, <2>3, <1>1
<1>8. ASSUME NEW j \in DOMAIN schema', NEW k \in DOMAIN schema', j < k
      PROVE  Before(schema'[j], schema'[k])
  <2>1. CASE k \in 1..Len(schema)
    <3>1. j \in 1..Len(schema)
      BY <1>5, <1>8, <2>1
    <3> QED
      BY <1>5, <1>8, <2>1, <3>1 DEF BInv, HistoryInv, SchemaMatchesHistory
  <2>2. CASE j \in 1..Len(schema) /\ k - Len(schema) \in 1..n
    <3>1. schema'[j][1] \in history /\ schema'[k] = <<i, k - Len(schema)>>
      BY <1>5, <1>6, <2>2
    <3> QED BY <1>2, <3>1 DEF Before
  <2>3. CASE j - Len(schema) \in 1..n /\ k - Len(schema) \in 1..n
    <3>1. /\ schema'[j] = <<i, j - Len(schema)>>
          /\ schema'[k] = <<i, k - Len(schema)>>
      BY <1>5, <2>3
    <3>2. j - Len(schema) < k - Len(schema)
      BY <1>1, <1>5, <1>8
    <3> QED BY <1>1, <2>3, <3>1, <3>2 DEF Before
  <2> QED BY <1>1, <1>5, <1>8, <2>1, <2>2, <2>3
<1>9. UNION {Of(h) : h \in history'} =
          UNION {{h} \X (1..Len(statements'[h])) : h \in history'}
  BY <1>1
<1>10. SchemaMatchesHistory'
  BY <1>7, <1>8, <1>9 DEF SchemaMatchesHistory
<1> QED BY <1>3, <1>5, <1>10 DEF HistoryInv

\* Nothing but a commit adds to the database.
LEMMA HistoryKept ==
    ASSUME HistoryInv, UNCHANGED <<history, schema, statements>>
    PROVE  HistoryInv'
BY DEF HistoryInv, SchemaMatchesHistory, ToSet

\* A server that goes on to another place outside a transaction.
LEMMA WriterMoves ==
    ASSUME NEW s \in case.servers, NEW step, BInv, Goto(s, step),
           pc[s] \notin Writing, step \notin {"record", "commit"},
           UNCHANGED <<case, statements, writer, pending, history>>,
           next' \in [case.servers -> Nat \ {0}], script' \in [case.servers -> Nat],
           step = "statement" => next'[s] = 1, script'[s] # 0,
           \A t \in case.servers \ {s} : next'[t] = next[t] /\ script'[t] = script[t]
    PROVE  WriterInv'
<1>1. pc \in [case.servers -> Steps] /\ writer # s
  BY DEF BInv, AppliedInv, WriterInv
<1>2. /\ pc'[s] = step
      /\ \A t \in case.servers \ {s} : pc'[t] = pc[t]
  BY <1>1 DEF Goto
<1>3. step \notin {"record", "commit"} /\ (step = "statement" => next'[s] = 1)
  OBVIOUS
<1>4. ASSUME NEW t \in case.servers
      PROVE  /\ script'[t] # 0
             /\ pc'[t] = "statement" /\ next'[t] # 1 => writer = t
             /\ pc'[t] \in {"record", "commit"} =>
                   writer = t /\ next'[t] = Len(statements[script'[t]]) + 1
             /\ pc'[t] = "commit" => script'[t] \notin history
             /\ writer = t => /\ pc'[t] \in Writing
                             /\ pending = [k \in 1..next'[t] - 1 |-> <<script'[t], k>>]
  <2>1. CASE t = s
    BY <1>1, <1>2, <1>3, <2>1
  <2>2. CASE t # s
    <3>1. next'[t] = next[t] /\ script'[t] = script[t] /\ pc'[t] = pc[t]
      BY <1>2, <2>2
    <3> QED BY <3>1 DEF BInv, WriterInv
  <2> QED BY <2>1, <2>2
<1>5. writer = Nobody => pending = << >>
  BY DEF BInv, WriterInv
<1> QED
  BY <1>4, <1>5 DEF WriterInv

\* A transaction that ends without a commit leaves nothing behind.
LEMMA WriterGoesDown ==
    ASSUME NEW s \in case.servers, BInv, GoesDown(s)
    PROVE  WriterInv' /\ HistoryInv'
<1>1. pc \in [case.servers -> Steps]
  BY DEF BInv, AppliedInv
<1>2. /\ pc' = [pc EXCEPT ![s] = "down"]
      /\ UNCHANGED <<case, statements, next, script, history, schema>>
      /\ IF writer = s THEN writer' = Nobody /\ pending' = << >>
                       ELSE UNCHANGED <<writer, pending>>
  BY DEF GoesDown, Goto, RolledBack, Released, assetVars
<1>3. Nobody \notin case.servers
  BY BootAssumption DEF BInv, AppliedInv
<1>4. WriterInv'
  BY <1>1, <1>2, <1>3 DEF BInv, WriterInv, Writing
<1> QED
  BY <1>2, <1>4, HistoryKept DEF BInv

\* Each statement is executed once in the transaction of its script.
LEMMA WriterExecutes ==
    ASSUME NEW s \in case.servers, BInv, Execute(s)
    PROVE  WriterInv'
<1> DEFINE i == script[s]
           n == next[s]
<1>1. /\ pc \in [case.servers -> Steps] /\ script \in [case.servers -> Nat]
      /\ next \in [case.servers -> Nat \ {0}] /\ Nobody \notin case.servers
  BY BootAssumption DEF BInv, AppliedInv, WriterInv
<1>2. /\ pc[s] = "statement" /\ writer \in {Nobody, s} /\ writer' = s
      /\ pending' = Append(pending, <<i, n>>) /\ next' = [next EXCEPT ![s] = n + 1]
      /\ UNCHANGED <<case, statements, script, history>>
      /\ \E step \in {"statement", "record"} :
            /\ pc' = [pc EXCEPT ![s] = step]
            /\ step = "record" => n = Len(statements[i])
  BY <1>1 DEF Execute, Goto, assetVars
<1>3. pending = [k \in 1..n - 1 |-> <<i, k>>]
  <2>1. CASE writer = s
    BY <2>1 DEF BInv, WriterInv
  <2>2. CASE writer = Nobody
    <3>1. n = 1 /\ pending = << >>
      BY <1>1, <1>2, <2>2 DEF BInv, WriterInv
    <3> QED BY <3>1
  <2> QED BY <1>2, <2>1, <2>2
<1>4. pending' = [k \in 1..n |-> <<i, k>>]
  <2>1. n \in Nat \ {0}
    BY <1>1
  <2> QED BY <1>2, <1>3, <2>1
<1>5. \A t \in case.servers \ {s} : writer # t /\ pc'[t] = pc[t] /\ next'[t] = next[t]
  BY <1>1, <1>2
<1>6. /\ next' \in [case.servers -> Nat \ {0}] /\ next'[s] = n + 1 /\ n + 1 - 1 = n
      /\ pc'[s] \in {"statement", "record"}
      /\ pc'[s] = "record" => n = Len(statements[i])
  BY <1>1, <1>2
<1>7. writer' # Nobody
  BY <1>1, <1>2
<1>8. pending' = [k \in 1..next'[s] - 1 |-> <<script'[s], k>>]
  <2>1. next'[s] - 1 = n
    BY <1>1, <1>6
  <2>2. script'[s] = i
    BY <1>2
  <2> HIDE DEF n, i
  <2> QED BY <1>4, <2>1, <2>2
<1>9. \A t \in case.servers : script'[t] # 0
  BY <1>2 DEF BInv, WriterInv
<1>10. \A t \in case.servers \ {s} :
           /\ ~(pc'[t] = "statement" /\ next'[t] # 1)
           /\ pc'[t] \notin {"record", "commit"} /\ writer' # t
  <2> SUFFICES ASSUME NEW t \in case.servers \ {s}
               PROVE  /\ ~(pc'[t] = "statement" /\ next'[t] # 1)
                      /\ pc'[t] \notin {"record", "commit"} /\ writer' # t
    OBVIOUS
  <2>1. writer # t /\ pc'[t] = pc[t] /\ next'[t] = next[t]
    BY <1>5
  <2>2. ~(pc[t] = "statement" /\ next[t] # 1) /\ pc[t] \notin {"record", "commit"}
    BY <2>1 DEF BInv, WriterInv
  <2>3. writer' # t
    BY <1>2
  <2> QED BY <2>1, <2>2, <2>3
<1>11. /\ pc'[s] = "record" => next'[s] = Len(statements'[script'[s]]) + 1
       /\ pc'[s] # "commit" /\ writer' = s /\ pc'[s] \in Writing
  <2>1. statements'[script'[s]] = statements[i]
    BY <1>2
  <2> HIDE DEF n, i
  <2> QED BY <1>2, <1>6, <2>1 DEF Writing
<1> HIDE DEF n, i
<1> QED
  <2>1. case' = case
    BY <1>2
  <2> QED BY <1>6, <1>7, <1>8, <1>9, <1>10, <1>11, <2>1 DEF WriterInv

\* The row of the history ends the transaction.
LEMMA WriterCommits ==
    ASSUME NEW s \in case.servers, BInv, RecordHistory(s) \/ Commit(s)
    PROVE  WriterInv'
<1>1. /\ pc \in [case.servers -> Steps] /\ script \in [case.servers -> Nat]
      /\ next \in [case.servers -> Nat \ {0}] /\ Nobody \notin case.servers
  BY BootAssumption DEF BInv, AppliedInv, WriterInv
<1>2. CASE RecordHistory(s)
  <2>1. /\ pc[s] = "record" /\ script[s] \notin history
        /\ pc' = [pc EXCEPT ![s] = "commit"]
        /\ UNCHANGED <<case, statements, script, next, history, writer, pending>>
    BY <1>2 DEF RecordHistory, Goto, assetVars, dbVars
  <2> QED BY <1>1, <2>1 DEF BInv, WriterInv, Writing
<1>3. CASE Commit(s)
  <2>1. /\ pc[s] = "commit" /\ writer' = Nobody /\ pending' = << >>
        /\ pc' = [pc EXCEPT ![s] = "script"]
        /\ script' = [script EXCEPT ![s] = @ + 1]
        /\ UNCHANGED <<case, statements, next>>
    BY <1>3 DEF Commit, Goto, assetVars
  <2>2. writer = s
    BY <2>1 DEF BInv, WriterInv
  <2>3. \A t \in case.servers \ {s} :
            /\ pc'[t] = pc[t] /\ script'[t] = script[t]
            /\ pc[t] \notin {"record", "commit"} /\ (pc[t] = "statement" => next[t] = 1)
    BY <1>1, <2>1, <2>2 DEF BInv, WriterInv
  <2>4. script'[s] # 0 /\ pc'[s] = "script"
    BY <1>1, <2>1
  <2> QED BY <1>1, <2>1, <2>3, <2>4 DEF BInv, WriterInv, Writing
<1> QED BY <1>2, <1>3

\* At first there is neither a history nor a schema.
LEMMA InitBInv == Init => BInv
<1> SUFFICES ASSUME Init PROVE BInv
  OBVIOUS
<1>1. WriterInv
  <2>1. Nobody \notin case.servers
    BY BootAssumption DEF Init
  <2> QED BY <2>1 DEF Init, WriterInv
<1>2. HistoryInv
  <2>1. schema = << >> /\ history = {}
    BY DEF Init
  <2>2. schema \in Seq(Places) /\ DOMAIN schema = {} /\ ToSet(schema) = {}
    BY <2>1 DEF ToSet
  <2>3. UNION {{i} \X (1..Len(statements[i])) : i \in history} = {}
    BY <2>1
  <2> QED BY <2>1, <2>2, <2>3 DEF HistoryInv, SchemaMatchesHistory
<1> QED BY InitApplied, <1>1, <1>2 DEF BInv

\* Every step keeps transactions whole.
LEMMA BInvInductive == BInv /\ [Next]_vars => BInv'
<1> SUFFICES ASSUME BInv, [Next]_vars PROVE BInv'
  OBVIOUS
<1>0. AppliedInv'
  BY AppliedInductive DEF BInv
<1>1. CASE UNCHANGED vars
  <2>1. UNCHANGED <<case, statements, pc, next, script, writer, pending, history, schema>>
    BY <1>1 DEF vars, assetVars, serverVars, dbVars
  <2> QED BY <1>0, <2>1, HistoryKept DEF BInv, WriterInv
<1>2. ASSUME NEW s \in case.servers,
             Start(s) \/ Validate(s) \/ Open(s) \/ EnsureTable(s) \/ ReadHistory(s)
      PROVE  BInv'
  <2>1. script \in [case.servers -> Nat] /\ next \in [case.servers -> Nat \ {0}]
        /\ script[s] # 0
    BY DEF BInv, AppliedInv, WriterInv
  <2>2. /\ UNCHANGED <<case, statements, next, writer, pending, history, schema>>
        /\ script' \in {script, [script EXCEPT ![s] = 1]}
        /\ pc[s] \notin Writing
        /\ \E step \in {"validate", "open", "refused", "table", "history", "script"} :
              Goto(s, step)
    BY <1>2 DEF Start, Validate, Open, EnsureTable, ReadHistory, assetVars, dbVars, Writing
  <2> QED BY <1>0, <2>1, <2>2, WriterMoves, HistoryKept DEF BInv
<1>3. ASSUME NEW s \in case.servers, NextScript(s) PROVE BInv'
  <2>1. /\ script \in [case.servers -> Nat] /\ next \in [case.servers -> Nat \ {0}]
        /\ script[s] # 0 /\ pc \in [case.servers -> Steps]
    BY DEF BInv, AppliedInv, WriterInv
  <2>2. /\ UNCHANGED <<case, statements, writer, pending, history, schema>>
        /\ script' \in {script, [script EXCEPT ![s] = @ + 1]}
        /\ next' \in {next, [next EXCEPT ![s] = 1]}
        /\ pc[s] = "script"
        /\ \E step \in {"migrated", "script", "statement"} :
              Goto(s, step) /\ (step = "statement" => next'[s] = 1)
    BY <1>3, <2>1 DEF NextScript, assetVars, dbVars, Goto
  <2>3. /\ script' \in [case.servers -> Nat] /\ next' \in [case.servers -> Nat \ {0}]
        /\ script'[s] # 0 /\ pc[s] \notin Writing
        /\ \A t \in case.servers \ {s} : script'[t] = script[t] /\ next'[t] = next[t]
    BY <2>1, <2>2 DEF Writing
  <2> QED BY <1>0, <2>2, <2>3, WriterMoves, HistoryKept DEF BInv
<1>4. ASSUME NEW s \in case.servers, Execute(s) PROVE BInv'
  BY <1>0, <1>4, WriterExecutes, HistoryKept DEF Execute, assetVars, BInv
<1>5. ASSUME NEW s \in case.servers, RecordHistory(s) PROVE BInv'
  BY <1>0, <1>5, WriterCommits, HistoryKept DEF RecordHistory, assetVars, dbVars, BInv
<1>6. ASSUME NEW s \in case.servers, Commit(s) PROVE BInv'
  BY <1>0, <1>6, WriterCommits, CommitInOrder DEF BInv
<1>7. ASSUME NEW s \in case.servers, GoesDown(s) PROVE BInv'
  BY <1>0, <1>7, WriterGoesDown DEF BInv
<1> QED
  BY <1>1, <1>2, <1>3, <1>4, <1>5, <1>6, <1>7
  DEF Next, Runs, Migrate, Busy, Overtaken, Fails

\* applyOne and the writer's lock: the statements in effect are those of the scripts
\* in the history, each script whole, once and in order, whoever crashed in the
\* middle of one and whoever else was applying the same.
THEOREM SchemaIsHistory == Spec => []SchemaMatchesHistory
<1>1. BInv => SchemaMatchesHistory
  BY DEF BInv, HistoryInv
<1> QED
  BY InitBInv, BInvInductive, <1>1, PTL DEF Spec

-----------------------------------------------------------------------------
(* A scan of a text is a sequence of turns, and so is the search for its   *)
(* tokens.                                                                 *)

\* A set of numbers has a least one: of the parts of it below one of its
\* elements, each of them finite, some is the smallest.
LEMMA LeastNumber ==
    ASSUME NEW T, T \subseteq Nat, T # {}
    PROVE  \E m \in T : \A n \in T : m <= n
<1> DEFINE Below(n) == T \cap 0..n
           Parts == {Below(n) : n \in T}
<1>1. Parts \subseteq FiniteSubsetsOf(Nat) /\ Parts # {}
  <2>1. ASSUME NEW n \in T PROVE IsFiniteSet(Below(n)) /\ Below(n) \subseteq Nat
    <3>1. n \in Nat /\ IsFiniteSet(0..n)
      BY FS_Interval
    <3>2. Below(n) \in SUBSET (0..n)
      OBVIOUS
    <3> QED BY <3>1, <3>2, FS_Subset
  <2> QED BY <2>1 DEF FiniteSubsetsOf
<1>2. PICK P \in Parts : \A Q \in Parts : ~(<<Q, P>> \in StrictSubsetOrdering(Nat))
  BY <1>1, WFMin, FS_StrictSubsetOrderingWellFounded
<1>3. PICK m \in T : P = Below(m)
  OBVIOUS
<1>4. ASSUME NEW n \in T, n < m PROVE FALSE
  <2>1. Below(n) \subseteq Below(m) /\ m \in Below(m) /\ m \notin Below(n)
    BY <1>4
  <2>2. Below(n) \in SUBSET Nat /\ Below(m) \in SUBSET Nat /\ Below(n) # Below(m)
    BY <2>1
  <2>3. <<Below(n), P>> \in StrictSubsetOrdering(Nat)
    BY <1>3, <2>1, <2>2 DEF StrictSubsetOrdering
  <2> QED BY <1>2, <2>3
<1> QED BY <1>4

\* Induction from nought, for a set instead of a formula.
LEMMA UpTo ==
    ASSUME NEW T, NEW n \in Nat, 0 \in T, \A i \in 1..n : i - 1 \in T => i \in T
    PROVE  \A i \in 0..n : i \in T
<1> SUFFICES ASSUME (0..n) \ T # {} PROVE FALSE
  OBVIOUS
<1>1. PICK m \in (0..n) \ T : \A i \in (0..n) \ T : m <= i
  <2>1. (0..n) \ T \subseteq Nat
    OBVIOUS
  <2> QED BY <2>1, LeastNumber
<1>2. m \in 1..n /\ m - 1 \in 0..n /\ m - 1 < m
  BY <1>1
<1>3. m - 1 \in T
  BY <1>1, <1>2
<1> QED BY <1>1, <1>2, <1>3

\* A function that is defined at each number by its value before, is one.
Recursive(D, n, base, F) ==
    \E f \in [0..n -> D] : f[0] = base /\ \A i \in 1..n : f[i] = F[<<f[i - 1], i>>]

\* There is such a function, whatever the value is made of.
LEMMA Recursion ==
    ASSUME NEW D, NEW n \in Nat, NEW base \in D, NEW F \in [D \X (1..n) -> D]
    PROVE  Recursive(D, n, base, F)
<1> DEFINE Is(f, m) == /\ f \in [0..m -> D] /\ f[0] = base
                       /\ \A i \in 1..m : f[i] = F[<<f[i - 1], i>>]
           T == {m \in 0..n : \E f : Is(f, m)}
<1>1. 0 \in T
  <2>1. Is([i \in 0..0 |-> base], 0)
    OBVIOUS
  <2> HIDE DEF Is
  <2> QED BY <2>1
<1>2. ASSUME NEW m \in 1..n, m - 1 \in T PROVE m \in T
  <2>1. PICK f : Is(f, m - 1)
    BY <1>2
  <2>2. m \in Nat /\ m - 1 \in 0..m - 1 /\ f[m - 1] \in D /\ <<f[m - 1], m>> \in D \X (1..n)
    BY <2>1
  <2> DEFINE g == [i \in 0..m |-> IF i = m THEN F[<<f[m - 1], m>>] ELSE f[i]]
  <2>3. g \in [0..m -> D]
    <3>1. ASSUME NEW i \in 0..m PROVE (IF i = m THEN F[<<f[m - 1], m>>] ELSE f[i]) \in D
      <4>1. CASE i = m
        BY <2>2, <4>1
      <4>2. CASE i # m
        <5>1. i \in 0..m - 1
          BY <4>2
        <5> QED BY <2>1, <4>2, <5>1
      <4> QED BY <4>1, <4>2
    <3> QED BY <3>1
  <2>4. g[0] = base
    BY <2>1
  <2>5. ASSUME NEW i \in 1..m PROVE g[i] = F[<<g[i - 1], i>>]
    <3>1. i \in 0..m /\ i - 1 \in 0..m /\ i - 1 # m /\ g[i - 1] = f[i - 1]
      OBVIOUS
    <3>2. CASE i = m
      BY <3>1, <3>2
    <3>3. CASE i # m
      <4>1. i \in 1..m - 1 /\ g[i] = f[i]
        BY <3>1, <3>3
      <4> HIDE DEF g
      <4> QED BY <2>1, <3>1, <4>1
    <3> QED BY <3>2, <3>3
  <2>6. Is(g, m)
    BY <2>3, <2>4, <2>5
  <2> HIDE DEF Is
  <2> QED BY <2>6
<1>3. n \in T
  <2> HIDE DEF T
  <2> QED BY <1>1, <1>2, UpTo
<1> QED BY <1>3 DEF Recursive

Modes == Quotes \cup {"[", "--", "/*", "normal"}
States == [mode : Modes, skip : BOOLEAN, cuts : SUBSET Nat, kept : Seq(Chars)]

\* What a turn of the scanner comes to, at a character and the one after it.
Turned(s, t, ch, after, i, strip) ==
    LET mode == Opened(ch, after)
        closing == s.mode = "/*" /\ ch = "*" /\ after = "/"
        doubled == Doubled(s.mode, ch, after)
    IN
    /\ t \in States
    /\ t.cuts = IF ch = ";" /\ s.mode = "normal" /\ ~s.skip THEN s.cuts \cup {i} ELSE s.cuts
    /\ s.skip => t.mode = s.mode /\ ~t.skip /\ t.kept = s.kept
    /\ ~s.skip /\ s.mode = "normal" =>
          /\ t.mode = mode /\ (t.skip <=> strip /\ mode \in {"--", "/*"})
          /\ \E c \in Chars : /\ t.kept = Append(s.kept, c)
                              /\ mode = "normal" => c = ch
                              /\ mode # "normal" => c \in Blank
    /\ ~s.skip /\ closing => t.mode = "normal" /\ t.skip /\ t.kept = s.kept
    /\ ~s.skip /\ doubled => t.mode = s.mode /\ t.skip /\ t.kept = s.kept
    /\ ~s.skip /\ s.mode # "normal" /\ ~closing /\ ~doubled =>
          /\ ~t.skip
          /\ s.mode = "/*" \/ ch # Closer(s.mode) => t.mode = s.mode /\ t.kept = s.kept
          /\ s.mode # "/*" /\ ch = Closer(s.mode) =>
                /\ t.mode = "normal"
                /\ t.kept = IF s.mode = "--" THEN Append(s.kept, "nl") ELSE s.kept

\* A turn of the scanner does that.
LEMMA TurnIs ==
    ASSUME NEW text \in Seq(Chars), NEW strip \in BOOLEAN, NEW i \in 1..Len(text),
           NEW s \in States
    PROVE  Turned(s, Turn(s, text, i, strip), text[i], CharAt(text, i + 1), i, strip)
<1> DEFINE ch == text[i]
           after == CharAt(text, i + 1)
           mode == Opened(ch, after)
           c == Cut(s, i, ch)
           t == Scanned(c, ch, after, strip)
<1>1. ch \in Chars /\ i \in Nat
  OBVIOUS
<1>2. mode \in Modes
  BY DEF Opened, Modes
<1>3. /\ c \in States /\ c.mode = s.mode /\ c.skip = s.skip /\ c.kept = s.kept
      /\ c.cuts = IF ch = ";" /\ s.mode = "normal" /\ ~s.skip THEN s.cuts \cup {i} ELSE s.cuts
  <2> HIDE DEF ch
  <2> QED BY <1>1 DEF Cut, States
<1>4. Turn(s, text, i, strip) = t
  BY DEF Turn
<1>5. " " \in Chars /\ "nl" \in Chars /\ " " \in Blank
  BY DEF Chars, Blank
<1> DEFINE closing == c.mode = "/*" /\ ch = "*" /\ after = "/"
           doubled == Doubled(c.mode, ch, after)
<1>6. doubled => c.mode \notin {"/*", "normal"}
  BY DEF Doubled
<1> HIDE DEF ch, after, mode, c
<1>7. CASE c.skip
  <2>1. t = [c EXCEPT !.skip = FALSE]
    BY <1>7 DEF Scanned
  <2> HIDE DEF t
  <2>2. t \in States /\ t.mode = c.mode /\ ~t.skip /\ t.kept = c.kept /\ t.cuts = c.cuts
    BY <1>3, <2>1 DEF States
  <2> QED BY <1>3, <1>4, <1>7, <2>2 DEF ch, after, mode, Turned
<1>8. CASE ~c.skip /\ c.mode = "normal"
  <2> DEFINE k == IF mode = "normal" THEN ch ELSE " "
  <2>1. t = [c EXCEPT !.mode = mode, !.skip = strip /\ mode \in {"--", "/*"},
                      !.kept = Append(@, k)]
    BY <1>8 DEF Scanned, mode
  <2> HIDE DEF t
  <2>2. k \in Chars /\ (mode = "normal" => k = ch) /\ (mode # "normal" => k \in Blank)
    BY <1>1, <1>5
  <2> DEFINE b == strip /\ mode \in {"--", "/*"}
             l == Append(c.kept, k)
  <2>5. b \in BOOLEAN
    OBVIOUS
  <2>6. l \in Seq(Chars)
    <3>1. c.kept \in Seq(Chars)
      BY <1>3 DEF States
    <3> HIDE DEF k
    <3> QED BY <2>2, <3>1
  <2>7. t = [c EXCEPT !.mode = mode, !.skip = b, !.kept = l]
    BY <2>1
  <2>8. t \in States /\ t.mode = mode /\ t.skip = b /\ t.kept = l /\ t.cuts = c.cuts
    <3> HIDE DEF b, l
    <3> QED BY <1>2, <1>3, <2>5, <2>6, <2>7 DEF States
  <2> HIDE DEF k
  <2>3. /\ t \in States /\ t.mode = mode /\ (t.skip <=> strip /\ mode \in {"--", "/*"})
        /\ t.kept = Append(c.kept, k) /\ t.cuts = c.cuts
    BY <2>8
  <2>4. ~closing /\ ~doubled
    BY <1>6, <1>8
  <2>9. \E k_1 \in Chars : /\ t.kept = Append(s.kept, k_1)
                           /\ mode = "normal" => k_1 = ch
                           /\ mode # "normal" => k_1 \in Blank
    BY <1>3, <2>2, <2>3
  <2> QED BY <1>3, <1>4, <1>8, <2>3, <2>4, <2>9 DEF ch, after, mode, Turned
<1>9. CASE ~c.skip /\ c.mode # "normal" /\ (closing \/ doubled)
  <2>1. t = [c EXCEPT !.skip = TRUE, !.mode = IF closing THEN "normal" ELSE @]
    BY <1>9 DEF Scanned
  <2> HIDE DEF t
  <2>2. /\ t \in States /\ t.mode = (IF closing THEN "normal" ELSE c.mode) /\ t.skip
        /\ t.kept = c.kept /\ t.cuts = c.cuts
    BY <1>3, <2>1 DEF States, Modes
  <2>3. ~(closing /\ doubled)
    BY <1>6
  <2> HIDE DEF doubled
  <2> QED BY <1>3, <1>4, <1>9, <2>2, <2>3 DEF ch, after, mode, doubled, Turned
<1>10. CASE ~c.skip /\ c.mode # "normal" /\ ~closing /\ ~doubled
  <2>1. t = IF c.mode = "/*" \/ ch # Closer(c.mode) THEN c
            ELSE [c EXCEPT !.mode = "normal",
                           !.kept = IF c.mode = "--" THEN Append(@, "nl") ELSE @]
    BY <1>10 DEF Scanned
  <2> HIDE DEF t
  <2>2. CASE c.mode = "/*" \/ ch # Closer(c.mode)
    <3>1. t = c
      BY <2>1, <2>2
    <3> QED BY <1>3, <1>4, <1>10, <2>2, <3>1 DEF ch, after, mode, doubled, Turned
  <2>3. CASE ~(c.mode = "/*" \/ ch # Closer(c.mode))
    <3>1. /\ t \in States /\ t.mode = "normal" /\ ~t.skip /\ t.cuts = c.cuts
          /\ t.kept = IF c.mode = "--" THEN Append(c.kept, "nl") ELSE c.kept
      <4> DEFINE l == IF c.mode = "--" THEN Append(c.kept, "nl") ELSE c.kept
      <4>1. l \in Seq(Chars)
        <5>1. c.kept \in Seq(Chars)
          BY <1>3 DEF States
        <5>2. Append(c.kept, "nl") \in Seq(Chars)
          <6>1. "nl" \in Chars
            BY <1>5
          <6> QED BY <5>1, <6>1
        <5> QED BY <5>1, <5>2
      <4>2. t = [c EXCEPT !.mode = "normal", !.kept = l]
        BY <2>1, <2>3
      <4>3. "normal" \in Modes
        BY DEF Modes
      <4> HIDE DEF l
      <4>4. /\ t \in States /\ t.mode = "normal" /\ t.skip = c.skip
            /\ t.cuts = c.cuts /\ t.kept = l
        BY <1>3, <4>1, <4>2, <4>3 DEF States
      <4> QED BY <1>10, <4>4 DEF l
    <3> QED BY <1>3, <1>4, <1>10, <2>3, <3>1 DEF ch, after, mode, doubled, Turned
  <2> QED BY <2>2, <2>3
<1> QED BY <1>7, <1>8, <1>9, <1>10

\* A text is scanned turn by turn.
LEMMA ScanTurns ==
    ASSUME NEW text \in Seq(Chars), NEW strip \in BOOLEAN
    PROVE  \E st \in [0..Len(text) -> States] :
              /\ st[0] = Scanner /\ Scan(text, strip) = st[Len(text)]
              /\ \A i \in 1..Len(text) : st[i] = Turn(st[i - 1], text, i, strip)
<1> DEFINE n == Len(text)
           D == States \X (1..n)
           F == [x \in D |-> Turn(x[1], text, x[2], strip)]
           Is(f) == f = [i \in 0..n |->
                            IF i = 0 THEN Scanner ELSE Turn(f[i - 1], text, i, strip)]
           c == CHOOSE f : Is(f)
<1>1. n \in Nat
  OBVIOUS
<1>2. Scanner \in States
  BY DEF Scanner, States, Modes
<1>3. ASSUME NEW s \in States, NEW i \in 1..n PROVE Turn(s, text, i, strip) \in States
  BY TurnIs DEF Turned
<1>4. F \in [D -> States]
  <2>1. ASSUME NEW x \in D PROVE Turn(x[1], text, x[2], strip) \in States
    <3>1. x[1] \in States /\ x[2] \in 1..n
      OBVIOUS
    <3> HIDE DEF n
    <3> QED BY <1>3, <3>1
  <2> QED BY <2>1
<1>5. \E f : Is(f)
  <2>0. F \in [States \X (1..n) -> States]
    BY <1>4
  <2> HIDE DEF n, F, c, Is, D
  <2>1. PICK f \in [0..n -> States] :
           f[0] = Scanner /\ \A i \in 1..n : f[i] = F[<<f[i - 1], i>>]
    <3>1. Recursive(States, n, Scanner, F)
      BY <1>1, <1>2, <2>0, Recursion
    <3> QED BY <3>1 DEF Recursive
  <2>2. ASSUME NEW i \in 1..n PROVE f[i] = Turn(f[i - 1], text, i, strip)
    <3>1. <<f[i - 1], i>> \in D
      BY <1>1, <2>1 DEF D
    <3>2. F[<<f[i - 1], i>>] = Turn(f[i - 1], text, i, strip)
      BY <3>1 DEF F
    <3> QED BY <2>1, <3>2
  <2>3. \A i \in 0..n : f[i] = IF i = 0 THEN Scanner ELSE Turn(f[i - 1], text, i, strip)
    BY <1>1, <2>1, <2>2
  <2> QED BY <2>1, <2>3 DEF Is
<1>6. Is(c)
  BY <1>5
<1>7. Scan(text, strip) = c[n]
  BY DEF Scan
<1> HIDE DEF c, n
<1>8. c[0] = Scanner /\ \A i \in 1..n : c[i] = Turn(c[i - 1], text, i, strip)
  BY <1>1, <1>6
<1>9. c \in [0..n -> States]
  <2> DEFINE T == {i \in 0..n : c[i] \in States}
  <2>1. 0 \in T
    BY <1>1, <1>2, <1>8
  <2>2. \A i \in 1..n : i - 1 \in T => i \in T
    BY <1>1, <1>3, <1>8
  <2>3. \A i \in 0..n : i \in T
    <3> HIDE DEF T
    <3> QED BY <1>1, <2>1, <2>2, UpTo
  <2> QED BY <1>6, <2>3
<1> QED BY <1>7, <1>8, <1>9 DEF n

\* The tokens are found one after another.
LEMMA TokenTurns ==
    ASSUME NEW text \in Seq(Chars)
    PROVE  \E up \in [0..Len(text) -> SUBSET Nat] :
              /\ up[0] = {} /\ Tokens(text) = up[Len(text)]
              /\ \A i \in 1..Len(text) :
                    up[i] = IF i = 1 \/ \E k \in up[i - 1] : EndOf(text, k) = i - 1
                            THEN up[i - 1] \cup {i} ELSE up[i - 1]
<1> DEFINE n == Len(text)
           Grown(u, i) == IF i = 1 \/ \E k \in u : EndOf(text, k) = i - 1 THEN u \cup {i} ELSE u
           D == (SUBSET Nat) \X (1..n)
           F == [x \in D |-> Grown(x[1], x[2])]
           Is(f) == f = [i \in 0..n |->
                            IF i = 0 THEN {}
                            ELSE IF i = 1 \/ \E k \in f[i - 1] : EndOf(text, k) = i - 1
                                 THEN f[i - 1] \cup {i}
                                 ELSE f[i - 1]]
           c == CHOOSE f : Is(f)
<1>1. n \in Nat
  OBVIOUS
<1>2. Tokens(text) = c[n]
  BY DEF Tokens
<1> HIDE DEF n
<1>3. ASSUME NEW u \in SUBSET Nat, NEW i \in 1..n PROVE Grown(u, i) \in SUBSET Nat
  OBVIOUS
<1>4. F \in [D -> SUBSET Nat]
  <2>1. ASSUME NEW x \in D PROVE Grown(x[1], x[2]) \in SUBSET Nat
    <3>1. x[1] \in SUBSET Nat /\ x[2] \in 1..n
      OBVIOUS
    <3> HIDE DEF Grown
    <3> QED BY <1>3, <3>1
  <2> HIDE DEF Grown
  <2> QED BY <2>1
<1>5. \E f : Is(f)
  <2>1. PICK f \in [0..n -> SUBSET Nat] : f[0] = {} /\ \A i \in 1..n : f[i] = F[<<f[i - 1], i>>]
    <3>1. {} \in SUBSET Nat
      OBVIOUS
    <3>2. F \in [(SUBSET Nat) \X (1..n) -> SUBSET Nat]
      BY <1>4
    <3> HIDE DEF F, c, Is, D
    <3>3. Recursive(SUBSET Nat, n, {}, F)
      BY <1>1, <3>1, <3>2, Recursion
    <3> QED BY <3>3 DEF Recursive
  <2>2. ASSUME NEW i \in 1..n PROVE f[i] = Grown(f[i - 1], i)
    <3> HIDE DEF Grown
    <3>1. <<f[i - 1], i>> \in D
      BY <1>1, <2>1
    <3>2. F[<<f[i - 1], i>>] = Grown(f[i - 1], i)
      BY <3>1 DEF F
    <3> HIDE DEF F
    <3> QED BY <2>1, <3>2
  <2> HIDE DEF F
  <2>3. \A i \in 0..n : f[i] = IF i = 0 THEN {} ELSE Grown(f[i - 1], i)
    <3> HIDE DEF Grown
    <3> QED BY <1>1, <2>1, <2>2
  <2>4. f = [i \in 0..n |-> IF i = 0 THEN {} ELSE Grown(f[i - 1], i)]
    <3> HIDE DEF Grown
    <3> QED BY <2>1, <2>3
  <2> QED BY <2>4
<1>6. Is(c)
  BY <1>5
<1> HIDE DEF c
<1>7. c[0] = {} /\ \A i \in 1..n : c[i] = Grown(c[i - 1], i)
  <2>1. c = [i \in 0..n |-> IF i = 0 THEN {} ELSE Grown(c[i - 1], i)]
    BY <1>6
  <2> HIDE DEF Grown
  <2>2. c[0] = {}
    BY <1>1, <2>1
  <2>3. ASSUME NEW i \in 1..n PROVE c[i] = Grown(c[i - 1], i)
    <3>1. i \in 0..n /\ i # 0
      BY <1>1
    <3> QED BY <2>1, <3>1
  <2> QED BY <2>2, <2>3
<1>8. c \in [0..n -> SUBSET Nat]
  <2> DEFINE T == {i \in 0..n : c[i] \in SUBSET Nat}
  <2> HIDE DEF Grown
  <2>1. 0 \in T
    BY <1>1, <1>7
  <2>2. \A i \in 1..n : i - 1 \in T => i \in T
    BY <1>1, <1>3, <1>7
  <2>3. \A i \in 0..n : i \in T
    <3> HIDE DEF T
    <3> QED BY <1>1, <2>1, <2>2, UpTo
  <2>4. c = [i \in 0..n |-> IF i = 0 THEN {} ELSE Grown(c[i - 1], i)]
    BY <1>6 DEF Grown
  <2> QED BY <2>3, <2>4
<1> QED BY <1>2, <1>7, <1>8 DEF n

-----------------------------------------------------------------------------
(* The tokens of a text, and what the scanner does in each of them.        *)

\* Min is the least number of a set.
LEMMA MinIs ==
    ASSUME NEW T, T \subseteq Nat, T # {}
    PROVE  Min(T) \in T /\ \A k \in T : Min(T) <= k
  BY LeastNumber DEF Min

\* A token ends where it may, as soon as it may, or with the text.
LEMMA EndOfIs ==
    ASSUME NEW text \in Seq(Chars), NEW b \in 1..Len(text)
    PROVE  /\ Ends(text, b) \subseteq b..Len(text)
           /\ EndOf(text, b) \in b..Len(text)
           /\ EndOf(text, b) \in Ends(text, b) \cup {Len(text)}
           /\ \A j \in Ends(text, b) : EndOf(text, b) <= j
<1> DEFINE n == Len(text)
           T == Ends(text, b) \cup {n}
<1>1. n \in Nat /\ b \in Nat /\ b <= n
  OBVIOUS
<1>2. Ends(text, b) \subseteq b..n
  <2> DEFINE ch == text[b]
             pair == <<ch, CharAt(text, b + 1)>>
  <2>1. CASE ch \in Quotes
    BY <1>1, <2>1 DEF Ends
  <2>2. CASE ch \notin Quotes /\ ch = "["
    BY <1>1, <2>2 DEF Ends
  <2>3. CASE ch \notin Quotes /\ ch # "[" /\ pair = <<"-", "-">>
    BY <1>1, <2>3 DEF Ends
  <2>4. CASE ch \notin Quotes /\ ch # "[" /\ pair # <<"-", "-">> /\ pair = <<"/", "*">>
    BY <1>1, <2>4 DEF Ends
  <2>5. CASE ch \notin Quotes /\ ch # "[" /\ pair # <<"-", "-">> /\ pair # <<"/", "*">>
    BY <1>1, <2>5 DEF Ends
  <2> QED BY <2>1, <2>2, <2>3, <2>4, <2>5
<1>3. T \subseteq Nat /\ T # {} /\ T \subseteq b..n
  BY <1>1, <1>2
<1>4. EndOf(text, b) = Min(T)
  BY DEF EndOf
<1> HIDE DEF T
<1>5. Min(T) \in T /\ \A k \in T : Min(T) <= k
  BY <1>3, MinIs
<1> QED BY <1>2, <1>3, <1>4, <1>5 DEF T

\* A token begins with the text, or where the one before it has ended.
LEMMA TokensAre ==
    ASSUME NEW text \in Seq(Chars)
    PROVE  /\ Tokens(text) \subseteq 1..Len(text)
           /\ \A i \in 1..Len(text) :
                 i \in Tokens(text) <=> i = 1 \/ \E k \in Tokens(text) : EndOf(text, k) = i - 1
<1> DEFINE n == Len(text)
<1>1. n \in Nat
  OBVIOUS
<1>2. PICK up \in [0..n -> SUBSET Nat] :
         /\ up[0] = {} /\ Tokens(text) = up[n]
         /\ \A i \in 1..n : up[i] = IF i = 1 \/ \E k \in up[i - 1] : EndOf(text, k) = i - 1
                                    THEN up[i - 1] \cup {i} ELSE up[i - 1]
  BY TokenTurns
<1> DEFINE Is(i) == up[i] \subseteq 1..i /\ \A j \in 0..i : up[j] = up[i] \cap (0..j)
           T == {i \in 0..n : Is(i)}
<1>3. \A b \in 1..n : EndOf(text, b) \in b..n
  BY EndOfIs
<1> HIDE DEF n
<1>4. \A i \in 0..n : i \in T
  <2>1. 0 \in T
    BY <1>1, <1>2
  <2>2. ASSUME NEW i \in 1..n, i - 1 \in T PROVE i \in T
    <3>1. up[i - 1] \subseteq up[i] /\ up[i] \subseteq up[i - 1] \cup {i}
      BY <1>2
    <3>2. /\ i - 1 \in 0..n /\ up[i - 1] \subseteq 1..i - 1
          /\ \A j \in 0..i - 1 : up[j] = up[i - 1] \cap (0..j)
      BY <1>1, <2>2
    <3>3. up[i] \subseteq 1..i
      BY <1>1, <3>1, <3>2
    <3>4. ASSUME NEW j \in 0..i PROVE up[j] = up[i] \cap (0..j)
      <4>1. CASE j = i
        BY <3>3, <4>1
      <4>2. CASE j # i
        <5>1. j \in 0..i - 1 /\ i \notin 0..j
          BY <1>1, <4>2
        <5>2. up[j] = up[i - 1] \cap (0..j)
          BY <3>2, <5>1
        <5> QED BY <3>1, <5>1, <5>2
      <4> QED BY <4>1, <4>2
    <3> QED BY <1>1, <3>3, <3>4
  <2> HIDE DEF T
  <2> QED BY <1>1, <2>1, <2>2, UpTo
<1>5. Is(n)
  BY <1>1, <1>4
<1>6. Tokens(text) \subseteq 1..n
  BY <1>2, <1>5
<1>7. ASSUME NEW i \in 1..n
      PROVE  i \in Tokens(text) <=> i = 1 \/ \E k \in Tokens(text) : EndOf(text, k) = i - 1
  <2>1. i \in 0..n /\ i - 1 \in 0..n /\ i \in 0..i /\ i \notin 1..i - 1
    BY <1>1
  <2>2. i \in Tokens(text) <=> i \in up[i]
    BY <1>2, <1>5, <2>1
  <2>3. up[i - 1] = Tokens(text) \cap (0..i - 1) /\ i \notin up[i - 1]
    BY <1>2, <1>5, <2>1
  <2>4. i \in up[i] <=> i = 1 \/ \E k \in up[i - 1] : EndOf(text, k) = i - 1
    BY <1>2, <2>3
  <2>5. ASSUME NEW k \in Tokens(text), EndOf(text, k) = i - 1 PROVE k \in 0..i - 1
    BY <1>1, <1>3, <1>6, <2>5
  <2> QED BY <2>2, <2>3, <2>4, <2>5
<1> QED BY <1>6, <1>7 DEF n

\* No token begins within another one.
LEMMA TokensApart ==
    ASSUME NEW text \in Seq(Chars), NEW b \in Tokens(text), NEW c \in Tokens(text), b < c
    PROVE  EndOf(text, b) < c
<1> DEFINE n == Len(text)
           Apart(i) == \A k \in Tokens(text) : k < i => EndOf(text, k) < i
           T == {i \in 0..n : \A j \in Tokens(text) : j <= i => Apart(j)}
<1>1. n \in Nat
  OBVIOUS
<1>2. /\ Tokens(text) \subseteq 1..n
      /\ \A i \in 1..n : i \in Tokens(text) =>
            i = 1 \/ \E k \in Tokens(text) : EndOf(text, k) = i - 1
  BY TokensAre
<1>3. \A k \in 1..n : EndOf(text, k) \in k..n
  BY EndOfIs
<1> HIDE DEF n
<1>4. 0 \in T
  BY <1>1, <1>2
<1>5. ASSUME NEW i \in 1..n, i - 1 \in T PROVE i \in T
  <2>1. ASSUME i \in Tokens(text), NEW k \in Tokens(text), k < i PROVE EndOf(text, k) < i
    <3>1. k \in 1..n /\ i # 1
      BY <1>1, <1>2, <2>1
    <3>2. PICK m \in Tokens(text) : EndOf(text, m) = i - 1
      BY <1>2, <2>1, <3>1
    <3>3. m \in 1..n /\ m <= i - 1
      BY <1>1, <1>2, <1>3, <3>2
    <3>4. Apart(m) /\ Apart(k)
      BY <1>1, <1>5, <2>1, <3>1, <3>3
    <3>5. CASE k = m
      BY <1>1, <3>2, <3>5
    <3>6. CASE k < m
      <4>1. EndOf(text, k) < m /\ EndOf(text, k) \in Int
        BY <1>1, <1>3, <3>1, <3>4, <3>6
      <4> HIDE DEF Apart, T
      <4> QED BY <1>1, <3>3, <4>1
    <3>7. CASE m < k
      <4>1. EndOf(text, m) < k
        BY <3>4, <3>7
      <4> HIDE DEF Apart, T
      <4> QED BY <1>1, <2>1, <3>1, <3>2, <4>1
    <3> QED BY <3>1, <3>3, <3>5, <3>6, <3>7
  <2>2. ASSUME NEW j \in Tokens(text), j <= i PROVE Apart(j)
    <3>1. CASE j = i
      BY <2>1, <3>1
    <3>2. CASE j # i
      <4>1. j \in 1..n /\ j <= i - 1
        BY <1>1, <1>2, <2>2, <3>2
      <4> QED BY <1>5, <4>1
    <3> QED BY <3>1, <3>2
  <2>3. i \in 0..n
    BY <1>1
  <2> HIDE DEF Apart
  <2> QED BY <2>2, <2>3
<1>6. \A i \in 0..n : i \in T
  <2> HIDE DEF T
  <2> QED BY <1>1, <1>4, <1>5, UpTo
<1>7. n \in T /\ c <= n
  BY <1>1, <1>2, <1>6
<1> QED BY <1>7

Mode(text, b) == Opened(text[b], CharAt(text, b + 1))

\* Nothing is kept of the inside of a token, but blanks.
Within(s, t) ==
    t.cuts = s.cuts /\ (t.kept = s.kept \/ \E c \in Blank : t.kept = Append(s.kept, c))

\* The same turn, with what it keeps only as far as it matters.
LEMMA TurnInside ==
    ASSUME NEW text \in Seq(Chars), NEW strip \in BOOLEAN, NEW i \in 1..Len(text),
           NEW s \in States
    PROVE  LET t == Turn(s, text, i, strip)
               ch == text[i]
               after == CharAt(text, i + 1)
               closing == s.mode = "/*" /\ ch = "*" /\ after = "/"
               doubled == Doubled(s.mode, ch, after)
           IN
           /\ t \in States
           /\ s.skip => Within(s, t) /\ t.mode = s.mode /\ ~t.skip
           /\ ~s.skip /\ closing => Within(s, t) /\ t.mode = "normal" /\ t.skip
           /\ ~s.skip /\ doubled => Within(s, t) /\ t.mode = s.mode /\ t.skip
           /\ ~s.skip /\ s.mode # "normal" /\ ~closing /\ ~doubled =>
                 /\ ~t.skip /\ Within(s, t)
                 /\ s.mode = "/*" \/ ch # Closer(s.mode) => t.mode = s.mode
                 /\ s.mode # "/*" /\ ch = Closer(s.mode) => t.mode = "normal"
<1> DEFINE t == Turn(s, text, i, strip)
           ch == text[i]
           after == CharAt(text, i + 1)
           closing == s.mode = "/*" /\ ch = "*" /\ after = "/"
           doubled == Doubled(s.mode, ch, after)
<1>1. doubled => s.mode \notin {"/*", "normal"}
  BY DEF Doubled
<1>2. closing => s.mode # "normal"
  OBVIOUS
<1>3. "nl" \in Blank
  BY DEF Blank
<1>4. Turned(s, t, ch, after, i, strip)
  BY TurnIs
<1> HIDE DEF t, ch, after
<1>5. /\ t \in States
      /\ t.cuts = IF ch = ";" /\ s.mode = "normal" /\ ~s.skip THEN s.cuts \cup {i} ELSE s.cuts
  BY <1>4 DEF Turned
<1>6. s.skip => t.mode = s.mode /\ ~t.skip /\ t.kept = s.kept
  BY <1>4 DEF Turned
<1>7. ~s.skip /\ closing => t.mode = "normal" /\ t.skip /\ t.kept = s.kept
  BY <1>4 DEF Turned
<1>8. ~s.skip /\ doubled => t.mode = s.mode /\ t.skip /\ t.kept = s.kept
  BY <1>4 DEF Turned
<1>9. ~s.skip /\ s.mode # "normal" /\ ~closing /\ ~doubled =>
                 /\ ~t.skip
                 /\ s.mode = "/*" \/ ch # Closer(s.mode) => t.mode = s.mode /\ t.kept = s.kept
                 /\ s.mode # "/*" /\ ch = Closer(s.mode) =>
                       /\ t.mode = "normal"
                       /\ t.kept = IF s.mode = "--" THEN Append(s.kept, "nl") ELSE s.kept
  BY <1>4 DEF Turned
<1> HIDE DEF closing, doubled
<1>10. s.skip => Within(s, t)
  BY <1>5, <1>6 DEF Within
<1>11. ~s.skip /\ (closing \/ doubled) => Within(s, t)
  BY <1>1, <1>2, <1>5, <1>7, <1>8 DEF Within
<1>12. ~s.skip /\ s.mode # "normal" /\ ~closing /\ ~doubled => Within(s, t)
  <2> SUFFICES ASSUME ~s.skip, s.mode # "normal", ~closing, ~doubled PROVE Within(s, t)
    OBVIOUS
  <2>1. CASE s.mode = "/*" \/ ch # Closer(s.mode)
    BY <1>5, <1>9, <2>1 DEF Within
  <2>2. CASE ~(s.mode = "/*" \/ ch # Closer(s.mode))
    <3>1. t.kept = Append(s.kept, "nl") \/ t.kept = s.kept
      BY <1>9, <2>2
    <3> QED BY <1>3, <1>5, <3>1 DEF Within
  <2> QED BY <2>1, <2>2
<1> QED BY <1>5, <1>6, <1>7, <1>8, <1>9, <1>10, <1>11, <1>12 DEF t, ch, after, closing, doubled

\* Outside of all, a plain character is kept and a token that is not leaves a blank.
Outside(s, t, text, i, strip) ==
    /\ t.cuts = IF text[i] = ";" THEN s.cuts \cup {i} ELSE s.cuts
    /\ t.mode = Mode(text, i)
    /\ t.skip <=> strip /\ Mode(text, i) \in {"--", "/*"}
    /\ \E c \in Chars : /\ t.kept = Append(s.kept, c)
                        /\ Plain(text, i) => c = text[i]
                        /\ ~Plain(text, i) => c \in Blank

\* That is what a turn does there.
LEMMA TurnOutside ==
    ASSUME NEW text \in Seq(Chars), NEW strip \in BOOLEAN, NEW i \in 1..Len(text),
           NEW s \in States, s.mode = "normal", ~s.skip
    PROVE  LET t == Turn(s, text, i, strip) IN t \in States /\ Outside(s, t, text, i, strip)
<1> DEFINE t == Turn(s, text, i, strip)
           ch == text[i]
           after == CharAt(text, i + 1)
<1>0. Turned(s, t, ch, after, i, strip)
  BY TurnIs
<1>1. /\ t \in States
      /\ t.cuts = IF text[i] = ";" THEN s.cuts \cup {i} ELSE s.cuts
  <2> HIDE DEF t, after
  <2> QED BY <1>0 DEF Turned
<1>2. t.mode = Mode(text, i) /\ (t.skip <=> strip /\ Mode(text, i) \in {"--", "/*"})
  <2> HIDE DEF t
  <2> QED BY <1>0 DEF Turned, Mode
<1>3. \E c \in Chars : /\ t.kept = Append(s.kept, c)
                       /\ Mode(text, i) = "normal" => c = text[i]
                       /\ Mode(text, i) # "normal" => c \in Blank
  <2> HIDE DEF t
  <2> QED BY <1>0 DEF Turned, Mode
<1>4. Plain(text, i) <=> Mode(text, i) = "normal"
  BY DEF Plain, Mode, Opened, Quotes
<1> HIDE DEF t
<1> QED BY <1>1, <1>2, <1>3, <1>4 DEF t, Outside

\* Where each kind of token may end.
LEMMA EndsAre ==
    ASSUME NEW text \in Seq(Chars), NEW b \in 1..Len(text)
    PROVE  LET m == Mode(text, b)
               last == Len(text)
           IN
           /\ m \in Modes
           /\ m = "normal" <=> Plain(text, b)
           /\ m = "normal" => Ends(text, b) = {b}
           /\ m \in Quotes => /\ text[b] = m
                              /\ Ends(text, b) =
                                   {j \in b + 1..last :
                                       /\ text[j] = m /\ CharAt(text, j + 1) # m
                                       /\ Count(text, m, b, j) % 2 = 0}
           /\ m = "[" => Ends(text, b) = {j \in b + 1..last : text[j] = "]"}
           /\ m = "--" => /\ text[b] = "-" /\ CharAt(text, b + 1) = "-"
                          /\ Ends(text, b) = {j \in b + 2..last : text[j] = "nl"}
           /\ m = "/*" => /\ text[b] = "/" /\ CharAt(text, b + 1) = "*"
                          /\ Ends(text, b) =
                               {j \in b + 3..last : text[j] = "/" /\ text[j - 1] = "*"}
<1> DEFINE ch == text[b]
           after == CharAt(text, b + 1)
           pair == <<ch, after>>
<1>0. /\ pair = <<"-", "-">> <=> ch = "-" /\ after = "-"
      /\ pair = <<"/", "*">> <=> ch = "/" /\ after = "*"
  OBVIOUS
<1>1. CASE ch \in Quotes
  BY <1>1 DEF Ends, Mode, Opened, Plain, Modes, Quotes
<1>2. CASE ch = "["
  BY <1>2 DEF Ends, Mode, Opened, Plain, Modes, Quotes
<1>3. CASE ch \notin Quotes /\ ch # "[" /\ pair = <<"-", "-">>
  BY <1>0, <1>3 DEF Ends, Mode, Opened, Plain, Modes, Quotes
<1>4. CASE ch \notin Quotes /\ ch # "[" /\ pair = <<"/", "*">>
  BY <1>0, <1>4 DEF Ends, Mode, Opened, Plain, Modes, Quotes
<1>5. CASE ch \notin Quotes /\ ch # "[" /\ pair # <<"-", "-">> /\ pair # <<"/", "*">>
  <2>1. Mode(text, b) = "normal" /\ Plain(text, b)
    BY <1>0, <1>5 DEF Mode, Opened, Plain, Quotes
  <2>2. Ends(text, b) = {b}
    BY <1>5 DEF Ends
  <2> QED BY <2>1, <2>2 DEF Modes, Quotes
<1> QED BY <1>1, <1>2, <1>3, <1>4, <1>5

\* One more place is counted for each time the character stands there.
LEMMA CountIs ==
    ASSUME NEW text, NEW ch, NEW b \in Nat, NEW i \in Nat, b <= i
    PROVE  /\ Count(text, ch, b, i) \in Nat
           /\ i = b /\ text[b] = ch => Count(text, ch, b, i) = 1
           /\ i > b /\ text[i] = ch => Count(text, ch, b, i) = Count(text, ch, b, i - 1) + 1
           /\ i > b /\ text[i] # ch => Count(text, ch, b, i) = Count(text, ch, b, i - 1)
<1> DEFINE S(j) == {k \in b..j : text[k] = ch}
<1>1. \A j \in Nat : IsFiniteSet(S(j))
  <2> TAKE j \in Nat
  <2>1. IsFiniteSet(b..j) /\ S(j) \in SUBSET (b..j)
    BY FS_Interval
  <2> QED BY <2>1, FS_Subset
<1>2. Cardinality(S(i)) \in Nat
  BY <1>1, FS_CardinalityType
<1>3. ASSUME i = b, text[b] = ch PROVE Cardinality(S(i)) = 1
  <2>1. S(i) = {b}
    BY <1>3
  <2> QED BY <2>1, FS_Singleton
<1>4. ASSUME i > b, text[i] = ch PROVE Cardinality(S(i)) = Cardinality(S(i - 1)) + 1
  <2>1. S(i) = S(i - 1) \cup {i} /\ i \notin S(i - 1) /\ i - 1 \in Nat
    BY <1>4
  <2>2. IsFiniteSet(S(i - 1))
    BY <1>1, <2>1
  <2> HIDE DEF S
  <2> QED BY <2>1, <2>2, FS_AddElement
<1>5. ASSUME i > b, text[i] # ch PROVE S(i) = S(i - 1)
  BY <1>5
<1> QED BY <1>2, <1>3, <1>4, <1>5 DEF Count

\* Odd and even numbers take turns.
LEMMA Parity ==
    ASSUME NEW k \in Nat
    PROVE  k % 2 \in {0, 1} /\ (k % 2 = 1 <=> (k + 1) % 2 = 0)
  OBVIOUS

\* How the scanner stands after a character of the token that begins at b: outside
\* again if the token ends there, and otherwise inside of it, or between two
\* characters that it takes together.
At(text, strip, s, b, i) ==
    LET m == Mode(text, b)
        odd == Count(text, m, b, i) % 2 = 1
        after == CharAt(text, i + 1)
        begins == strip /\ i = b
    IN
    IF i \in Ends(text, b) THEN s.mode = "normal" /\ ~s.skip
    ELSE /\ m # "normal"
         /\ m \in {"single", "double"} =>
               s.mode = m /\ (s.skip <=> ~odd) /\ (~odd => after = m)
         /\ m = "backtick" =>
               ~s.skip /\ (odd => s.mode = m) /\ (~odd => s.mode = "normal" /\ after = m)
         /\ m = "[" => s.mode = m /\ ~s.skip
         /\ m = "--" => s.mode = m /\ (s.skip <=> begins)
         /\ m = "/*" => IF i + 1 \in Ends(text, b) THEN s.mode = "normal" /\ s.skip
                        ELSE s.mode = m /\ (s.skip <=> begins)

\* A token begins.
LEMMA TokenBegins ==
    ASSUME NEW text \in Seq(Chars), NEW strip \in BOOLEAN, NEW b \in 1..Len(text),
           NEW t \in States, t.mode = Mode(text, b),
           t.skip <=> strip /\ Mode(text, b) \in {"--", "/*"}
    PROVE  At(text, strip, t, b, b)
<1> DEFINE m == Mode(text, b)
<1>1. m \in Modes /\ b \in Nat
  BY EndsAre
<1>2. CASE m = "normal"
  <2>1. Ends(text, b) = {b}
    BY <1>2, EndsAre
  <2> QED BY <1>2, <2>1 DEF At
<1>3. CASE m \in Quotes
  <2>1. text[b] = m /\ b \notin Ends(text, b)
    BY <1>3, EndsAre
  <2>2. Count(text, m, b, b) = 1
    <3> HIDE DEF m
    <3> QED BY <1>1, <2>1, CountIs
  <2>3. Count(text, m, b, b) % 2 = 1
    BY <2>2
  <2> HIDE DEF m
  <2>4. m \notin {"normal", "[", "--", "/*"} /\ ~t.skip /\ t.mode = m
    BY <1>3 DEF Quotes, m
  <2> QED BY <2>1, <2>3, <2>4 DEF At, m
<1>4. CASE m = "["
  <2>1. b \notin Ends(text, b)
    BY <1>4, EndsAre
  <2> QED BY <1>4, <2>1 DEF At
<1>5. CASE m = "--"
  <2>1. b \notin Ends(text, b)
    BY <1>5, EndsAre
  <2> QED BY <1>5, <2>1 DEF At
<1>6. CASE m = "/*"
  <2>1. b \notin Ends(text, b) /\ b + 1 \notin Ends(text, b)
    BY <1>6, EndsAre
  <2> QED BY <1>6, <2>1 DEF At
<1> QED BY <1>1, <1>2, <1>3, <1>4, <1>5, <1>6 DEF Modes, Quotes

\* A string goes on, or is ended by a quote that is not doubled.
LEMMA StringGoesOn ==
    ASSUME NEW text \in Seq(Chars), NEW strip \in BOOLEAN, NEW b \in 1..Len(text),
           NEW i \in b + 1..Len(text), i - 1 \notin Ends(text, b), NEW s \in States,
           At(text, strip, s, b, i - 1), Mode(text, b) \in {"single", "double"}
    PROVE  LET t == Turn(s, text, i, strip) IN At(text, strip, t, b, i) /\ Within(s, t)
<1> DEFINE m == Mode(text, b)
           t == Turn(s, text, i, strip)
           ch == text[i]
           after == CharAt(text, i + 1)
           was == Count(text, m, b, i - 1)
           is == Count(text, m, b, i)
<1>1. m \in Quotes /\ m \notin {"normal", "backtick", "[", "--", "/*"} /\ Closer(m) = m
  BY DEF Quotes, Closer
<1>2. /\ text[b] = m
      /\ i \in Ends(text, b) <=> ch = m /\ after # m /\ is % 2 = 0
  BY <1>1, EndsAre
<1>3. b \in Nat /\ i \in Nat /\ i - 1 \in Nat /\ b <= i - 1 /\ i > b /\ b <= i /\ i \in 1..Len(text)
  OBVIOUS
<1>4. was \in Nat
  <2> HIDE DEF m
  <2> QED BY <1>3, CountIs
<1>5. (ch = m => is = was + 1) /\ (ch # m => is = was)
  <2> HIDE DEF m
  <2> QED BY <1>3, CountIs
<1>6. s.mode = m /\ (s.skip <=> ~(was % 2 = 1)) /\ (~(was % 2 = 1) => ch = m)
  <2>1. i - 1 + 1 = i /\ CharAt(text, i) = ch
    BY <1>3 DEF CharAt
  <2> HIDE DEF ch
  <2> QED BY <1>1, <2>1 DEF At
<1>7. /\ t \in States
      /\ s.skip => Within(s, t) /\ t.mode = s.mode /\ ~t.skip
      /\ ~s.skip /\ ch = m /\ after = m => Within(s, t) /\ t.mode = m /\ t.skip
      /\ ~s.skip /\ ~(ch = m /\ after = m) =>
            /\ Within(s, t) /\ ~t.skip
            /\ t.mode = IF ch = m THEN "normal" ELSE m
  <2> HIDE DEF t, ch, after, m
  <2>1. Doubled(s.mode, ch, after) <=> ch = m /\ after = m
    BY <1>6 DEF Doubled, m
  <2>2. s.mode # "/*" /\ s.mode # "normal"
    BY <1>1, <1>6
  <2> QED BY <1>1, <1>3, <1>6, <2>1, <2>2, TurnInside DEF t, ch, after
<1> HIDE DEF t, ch, after, m, was, is
<1>8. CASE was % 2 # 1
  <2>1. is % 2 = 1 /\ ch = m
    BY <1>4, <1>5, <1>6, <1>8, Parity
  <2>2. i \notin Ends(text, b)
    BY <1>2, <2>1
  <2>3. ~t.skip /\ t.mode = m /\ Within(s, t)
    BY <1>6, <1>7, <1>8
  <2> QED BY <1>1, <2>1, <2>2, <2>3 DEF At, t, m, is
<1>9. CASE was % 2 = 1 /\ ch # m
  <2>1. is % 2 = 1 /\ i \notin Ends(text, b)
    BY <1>2, <1>5, <1>9
  <2>2. ~t.skip /\ t.mode = m /\ Within(s, t)
    BY <1>6, <1>7, <1>9
  <2> QED BY <1>1, <2>1, <2>2 DEF At, t, m, is
<1>10. CASE was % 2 = 1 /\ ch = m
  <2>1. is % 2 = 0
    BY <1>4, <1>5, <1>10, Parity
  <2>2. CASE after = m
    <3>1. i \notin Ends(text, b)
      BY <1>2, <2>2
    <3>2. t.skip /\ t.mode = m /\ Within(s, t)
      BY <1>6, <1>7, <1>10, <2>2
    <3> QED BY <1>1, <2>1, <2>2, <3>1, <3>2 DEF At, t, m, is, after
  <2>3. CASE after # m
    <3>1. i \in Ends(text, b)
      BY <1>2, <1>10, <2>1, <2>3
    <3>2. ~t.skip /\ t.mode = "normal" /\ Within(s, t)
      BY <1>6, <1>7, <1>10, <2>3
    <3> QED BY <3>1, <3>2 DEF At, t
  <2> QED BY <2>2, <2>3
<1> QED BY <1>8, <1>9, <1>10

\* Between backticks it is the same, but that two of them close and open again.
LEMMA NameGoesOn ==
    ASSUME NEW text \in Seq(Chars), NEW strip \in BOOLEAN, NEW b \in 1..Len(text),
           NEW i \in b + 1..Len(text), i - 1 \notin Ends(text, b), NEW s \in States,
           At(text, strip, s, b, i - 1), Mode(text, b) = "backtick"
    PROVE  LET t == Turn(s, text, i, strip) IN At(text, strip, t, b, i) /\ Within(s, t)
<1> DEFINE m == Mode(text, b)
           t == Turn(s, text, i, strip)
           ch == text[i]
           after == CharAt(text, i + 1)
           was == Count(text, m, b, i - 1)
           is == Count(text, m, b, i)
<1>1. /\ m = "backtick" /\ m \in Quotes /\ Closer(m) = m
      /\ m \notin {"normal", "single", "double", "[", "--", "/*"}
  BY DEF Quotes, Closer
<1>2. /\ text[b] = m
      /\ i \in Ends(text, b) <=> ch = m /\ after # m /\ is % 2 = 0
  BY <1>1, EndsAre
<1>3. b \in Nat /\ i \in Nat /\ i - 1 \in Nat /\ b <= i - 1 /\ i > b /\ b <= i /\ i \in 1..Len(text)
  OBVIOUS
<1>4. was \in Nat
  <2> HIDE DEF m
  <2> QED BY <1>3, CountIs
<1>5. (ch = m => is = was + 1) /\ (ch # m => is = was)
  <2> HIDE DEF m
  <2> QED BY <1>3, CountIs
<1>6. /\ ~s.skip
      /\ was % 2 = 1 => s.mode = m
      /\ ~(was % 2 = 1) => s.mode = "normal" /\ ch = m
  <2>1. i - 1 + 1 = i /\ CharAt(text, i) = ch
    BY <1>3 DEF CharAt
  <2> HIDE DEF ch
  <2> QED BY <1>1, <2>1 DEF At
<1>7. CASE was % 2 # 1
  <2>1. is % 2 = 1 /\ ch = m
    BY <1>4, <1>5, <1>6, <1>7, Parity
  <2>2. i \notin Ends(text, b)
    BY <1>2, <2>1
  <2>3. s.mode = "normal"
    BY <1>6, <1>7
  <2>4. Mode(text, i) = m /\ ~Plain(text, i) /\ text[i] # ";"
    BY <1>1, <2>1 DEF Mode, Opened, Plain
  <2>5. /\ t.cuts = s.cuts /\ t.mode = m /\ ~t.skip
        /\ \E c \in Blank : t.kept = Append(s.kept, c)
    <3> DEFINE k == Mode(text, i)
    <3>1. /\ t.cuts = IF text[i] = ";" THEN s.cuts \cup {i} ELSE s.cuts
          /\ t.mode = k
          /\ t.skip <=> strip /\ k \in {"--", "/*"}
          /\ \E c \in Chars : /\ t.kept = Append(s.kept, c)
                              /\ Plain(text, i) => c = text[i]
                              /\ ~Plain(text, i) => c \in Blank
      <4>1. i \in 1..Len(text) /\ s.mode = "normal" /\ ~s.skip
        BY <1>3, <1>6, <2>3
      <4>2. Outside(s, t, text, i, strip)
        <5> HIDE DEF m
        <5> QED BY <4>1, TurnOutside
      <4> HIDE DEF t
      <4> QED BY <4>2 DEF Outside
    <3>2. k = m
      BY <2>4
    <3> HIDE DEF m, t, k
    <3> QED BY <1>1, <2>4, <3>1, <3>2
  <2> HIDE DEF t, m, is
  <2>6. Within(s, t)
    BY <2>5 DEF Within
  <2> QED BY <1>1, <2>1, <2>2, <2>5, <2>6 DEF At, t, m, is
<1>8. CASE was % 2 = 1
  <2>1. /\ t \in States /\ Within(s, t) /\ ~t.skip
        /\ t.mode = IF ch = m THEN "normal" ELSE m
    <3> HIDE DEF t, ch, after, m
    <3>1. ~Doubled(s.mode, ch, after) /\ s.mode = m
      BY <1>1, <1>6, <1>8 DEF Doubled
    <3> QED BY <1>1, <1>3, <1>6, <3>1, TurnInside DEF t, ch, after
  <2> HIDE DEF t, ch, after, m, was, is
  <2>2. CASE ch # m
    <3>1. is % 2 = 1 /\ i \notin Ends(text, b)
      BY <1>2, <1>5, <1>8, <2>2
    <3> QED BY <1>1, <2>1, <2>2, <3>1 DEF At, t, m, is
  <2>3. CASE ch = m
    <3>1. is % 2 = 0
      BY <1>4, <1>5, <1>8, <2>3, Parity
    <3>2. CASE after = m
      <4>1. i \notin Ends(text, b)
        BY <1>2, <3>2
      <4> QED BY <1>1, <2>1, <2>3, <3>1, <3>2, <4>1 DEF At, t, m, is, after
    <3>3. CASE after # m
      <4>1. i \in Ends(text, b)
        BY <1>2, <2>3, <3>1, <3>3
      <4> QED BY <2>1, <2>3, <4>1 DEF At, t
    <3> QED BY <3>2, <3>3
  <2> QED BY <2>2, <2>3
<1> QED BY <1>7, <1>8

\* A name in brackets and a comment to the end of the line go on until their end.
LEMMA SimpleGoesOn ==
    ASSUME NEW text \in Seq(Chars), NEW strip \in BOOLEAN, NEW b \in 1..Len(text),
           NEW i \in b + 1..Len(text), i - 1 \notin Ends(text, b), NEW s \in States,
           At(text, strip, s, b, i - 1), Mode(text, b) \in {"[", "--"}
    PROVE  LET t == Turn(s, text, i, strip) IN At(text, strip, t, b, i) /\ Within(s, t)
<1> DEFINE m == Mode(text, b)
           t == Turn(s, text, i, strip)
           ch == text[i]
           after == CharAt(text, i + 1)
<1>1. m \notin {"normal", "single", "double", "backtick", "/*"} \cup Quotes
  BY DEF Quotes
<1>2. b \in Nat /\ i \in Nat /\ i > b /\ i \in 1..Len(text) /\ i <= Len(text)
  OBVIOUS
<1>3. /\ i \in Ends(text, b) => ch = Closer(m)
      /\ ch = Closer(m) /\ ~s.skip => i \in Ends(text, b)
      /\ s.skip => m = "--" /\ i - 1 = b
      /\ s.mode = m
      /\ s.skip => ch # Closer(m)
  <2>1. CASE m = "["
    <3>1. Closer(m) = "]"
      BY <2>1 DEF Closer
    <3>2. i \in Ends(text, b) <=> ch = "]"
      BY <1>2, <2>1, EndsAre
    <3>3. s.mode = m /\ ~s.skip
      BY <2>1 DEF At
    <3> HIDE DEF ch
    <3> QED BY <2>1, <3>1, <3>2, <3>3
  <2>2. CASE m = "--"
    <3>1. Closer(m) = "nl"
      BY <2>2 DEF Closer
    <3>2. i \in Ends(text, b) <=> i # b + 1 /\ ch = "nl"
      BY <1>2, <2>2, EndsAre
    <3>3. s.mode = m /\ (s.skip <=> strip /\ i - 1 = b)
      BY <2>2 DEF At
    <3>4. i = b + 1 => ch = "-"
      BY <1>2, <2>2, EndsAre DEF CharAt
    <3>5. i - 1 = b <=> i = b + 1
      BY <1>2
    <3>6. i - 1 = b => ch # "nl"
      <4> HIDE DEF ch
      <4> QED BY <3>4, <3>5
    <3>7. ch = "nl" => i \in Ends(text, b)
      <4> HIDE DEF ch
      <4> QED BY <3>2, <3>4
    <3> HIDE DEF ch, m
    <3> QED BY <2>2, <3>1, <3>2, <3>3, <3>6, <3>7
  <2> QED BY <2>1, <2>2
<1>4. /\ t \in States
      /\ s.skip => Within(s, t) /\ t.mode = m /\ ~t.skip
      /\ ~s.skip => /\ Within(s, t) /\ ~t.skip
                    /\ t.mode = IF ch = Closer(m) THEN "normal" ELSE m
  <2> HIDE DEF t, ch, after, m
  <2>1. ~Doubled(s.mode, ch, after)
    BY <1>1, <1>3 DEF Doubled
  <2>2. s.mode # "/*" /\ s.mode # "normal"
    BY <1>1, <1>3
  <2> QED BY <1>1, <1>2, <1>3, <2>1, <2>2, TurnInside DEF t, ch, after
<1>5. ~(strip /\ i = b)
  BY <1>2
<1> HIDE DEF t, ch, after, m
<1>6. CASE i \in Ends(text, b)
  <2>1. ~t.skip /\ t.mode = "normal" /\ Within(s, t)
    BY <1>3, <1>4, <1>6
  <2> QED BY <1>6, <2>1 DEF At, t
<1>7. CASE i \notin Ends(text, b)
  <2>1. ~t.skip /\ t.mode = m /\ Within(s, t)
    BY <1>3, <1>4, <1>7
  <2> QED BY <1>1, <1>5, <1>7, <2>1 DEF At, t, m, Quotes
<1> QED BY <1>6, <1>7

\* A comment between a slash and a star, and a star and a slash, goes on until its
\* end, unless its first star is taken for the one that ends it.
LEMMA BlockGoesOn ==
    ASSUME NEW text \in Seq(Chars), NEW strip \in BOOLEAN, NEW b \in 1..Len(text),
           NEW i \in b + 1..Len(text), i - 1 \notin Ends(text, b), NEW s \in States,
           At(text, strip, s, b, i - 1), Mode(text, b) = "/*",
           strip \/ CharAt(text, b + 2) # "/"
    PROVE  LET t == Turn(s, text, i, strip) IN At(text, strip, t, b, i) /\ Within(s, t)
<1> DEFINE m == Mode(text, b)
           t == Turn(s, text, i, strip)
           ch == text[i]
           after == CharAt(text, i + 1)
           closing == ch = "*" /\ after = "/"
<1>1. m = "/*" /\ m \notin {"normal", "single", "double", "backtick", "[", "--"}
  OBVIOUS
<1>2. b \in Nat /\ i \in Nat /\ i > b /\ i \in 1..Len(text) /\ i <= Len(text)
  OBVIOUS
<1>3. i - 1 + 1 = i
  BY <1>2
<1>4. /\ i \in Ends(text, b) => s.mode = "normal" /\ s.skip
      /\ i \notin Ends(text, b) => s.mode = m /\ (s.skip <=> strip /\ i - 1 = b)
  BY <1>1, <1>3 DEF At
<1>5. i + 1 \in Ends(text, b) <=> i # b + 1 /\ closing
  <2>1. i + 1 \in Ends(text, b) <=>
           i + 1 \in b + 3..Len(text) /\ text[i + 1] = "/" /\ text[i + 1 - 1] = "*"
    BY <1>1, EndsAre
  <2>2. i + 1 \in b + 3..Len(text) <=> i # b + 1 /\ i + 1 \in 1..Len(text)
    BY <1>2
  <2>3. after = "/" <=> i + 1 \in 1..Len(text) /\ text[i + 1] = "/"
    BY DEF CharAt
  <2>4. i + 1 - 1 = i
    BY <1>2
  <2> HIDE DEF after
  <2> QED BY <2>1, <2>2, <2>3, <2>4
<1>6. i = b + 1 /\ ~strip => ~closing
  BY <1>2
<1>7. i \in Ends(text, b) => i + 1 \notin Ends(text, b)
  <2>1. i \in Ends(text, b) => ch = "/"
    BY <1>1, EndsAre
  <2> HIDE DEF ch
  <2> QED BY <1>5, <2>1
<1>8. i - 1 = b <=> i = b + 1
  BY <1>2
<1>9. /\ t \in States
      /\ s.skip => Within(s, t) /\ t.mode = s.mode /\ ~t.skip
      /\ ~s.skip /\ s.mode = m /\ closing => Within(s, t) /\ t.mode = "normal" /\ t.skip
      /\ ~s.skip /\ s.mode = m /\ ~closing => Within(s, t) /\ t.mode = m /\ ~t.skip
  <2> HIDE DEF t, ch, after, m
  <2>1. s.mode = m => ~Doubled(s.mode, ch, after)
    BY <1>1 DEF Doubled
  <2> QED BY <1>1, <1>2, <2>1, TurnInside DEF t, ch, after
<1>10. ~(strip /\ i = b)
  BY <1>2
<1> HIDE DEF t, ch, after, m, closing
<1>11. CASE i \in Ends(text, b)
  <2>1. ~t.skip /\ t.mode = "normal" /\ Within(s, t)
    BY <1>4, <1>9, <1>11
  <2> QED BY <1>11, <2>1 DEF At, t
<1>12. CASE i \notin Ends(text, b) /\ s.skip
  <2>1. ~t.skip /\ t.mode = m /\ Within(s, t) /\ i = b + 1
    BY <1>4, <1>8, <1>9, <1>12
  <2>2. i + 1 \notin Ends(text, b)
    BY <1>5, <2>1
  <2> QED BY <1>1, <1>10, <1>12, <2>1, <2>2 DEF At, t, m
<1>13. CASE i \notin Ends(text, b) /\ ~s.skip /\ closing
  <2>1. t.skip /\ t.mode = "normal" /\ Within(s, t)
    BY <1>4, <1>9, <1>13
  <2>2. i + 1 \in Ends(text, b)
    BY <1>4, <1>5, <1>6, <1>8, <1>13
  <2> QED BY <1>1, <1>10, <1>13, <2>1, <2>2 DEF At, t, m
<1>14. CASE i \notin Ends(text, b) /\ ~s.skip /\ ~closing
  <2>1. ~t.skip /\ t.mode = m /\ Within(s, t)
    BY <1>4, <1>9, <1>14
  <2>2. i + 1 \notin Ends(text, b)
    BY <1>5, <1>14
  <2> QED BY <1>1, <1>10, <1>14, <2>1, <2>2 DEF At, t, m
<1> QED BY <1>11, <1>12, <1>13, <1>14

\* So each token goes on until it ends.
LEMMA TokenGoesOn ==
    ASSUME NEW text \in Seq(Chars), NEW strip \in BOOLEAN, NEW b \in 1..Len(text),
           NEW i \in b + 1..Len(text), i - 1 \notin Ends(text, b), NEW s \in States,
           At(text, strip, s, b, i - 1),
           strip \/ ~(Mode(text, b) = "/*" /\ CharAt(text, b + 2) = "/")
    PROVE  LET t == Turn(s, text, i, strip) IN At(text, strip, t, b, i) /\ Within(s, t)
<1>1. Mode(text, b) \in Modes
  BY EndsAre
<1>2. Mode(text, b) # "normal"
  BY DEF At
<1>3. CASE Mode(text, b) \in {"single", "double"}
  BY <1>3, StringGoesOn
<1>4. CASE Mode(text, b) = "backtick"
  BY <1>4, NameGoesOn
<1>5. CASE Mode(text, b) \in {"[", "--"}
  BY <1>5, SimpleGoesOn
<1>6. CASE Mode(text, b) = "/*"
  BY <1>6, BlockGoesOn
<1> QED BY <1>1, <1>2, <1>3, <1>4, <1>5, <1>6 DEF Modes, Quotes

\* A turn where a token begins, and one inside of a token.
Step(s, t, text, i) ==
    IF i \in Tokens(text)
    THEN /\ t.cuts = IF text[i] = ";" THEN s.cuts \cup {i} ELSE s.cuts
         /\ \E c \in Chars : /\ t.kept = Append(s.kept, c)
                             /\ Plain(text, i) => c = text[i]
                             /\ ~Plain(text, i) => c \in Blank
    ELSE Within(s, t)

\* The scanner goes from token to token.
LEMMA ScanSteps ==
    ASSUME NEW text \in Seq(Chars), NEW strip \in BOOLEAN, strip \/ ~ShortComment(text)
    PROVE  \E st \in [0..Len(text) -> States] :
              /\ st[0] = Scanner /\ Scan(text, strip) = st[Len(text)]
              /\ \A i \in 1..Len(text) : Step(st[i - 1], st[i], text, i)
<1> DEFINE n == Len(text)
<1>1. n \in Nat
  OBVIOUS
<1>2. PICK st \in [0..n -> States] :
         /\ st[0] = Scanner /\ Scan(text, strip) = st[n]
         /\ \A i \in 1..n : st[i] = Turn(st[i - 1], text, i, strip)
  BY ScanTurns
<1> DEFINE Is(i) == \E b \in Tokens(text) :
                       b <= i /\ i <= EndOf(text, b) /\ At(text, strip, st[i], b, i)
           T == {i \in 0..n : i = 0 \/ (Is(i) /\ Step(st[i - 1], st[i], text, i))}
<1>3. Tokens(text) \subseteq 1..n
  BY TokensAre
<1>4. \A i \in 1..n :
         i \in Tokens(text) <=> i = 1 \/ \E k \in Tokens(text) : EndOf(text, k) = i - 1
  BY TokensAre
<1>5. \A b \in 1..n : /\ EndOf(text, b) \in b..n /\ EndOf(text, b) \in Ends(text, b) \cup {n}
                      /\ \A j \in Ends(text, b) : EndOf(text, b) <= j
  BY EndOfIs
<1>6. ASSUME NEW i \in 1..n, i - 1 \in T PROVE i \in T
  <2>1. i \in 0..n /\ i # 0 /\ i - 1 \in 0..n /\ i \in Nat
    BY <1>1
  <2>2. st[i - 1] \in States /\ st[i] = Turn(st[i - 1], text, i, strip)
    BY <1>2, <2>1
  <2>3. i = 1 \/ Is(i - 1)
    BY <1>6, <2>1
  <2>4. CASE i \in Tokens(text)
    <3>1. st[i - 1].mode = "normal" /\ ~st[i - 1].skip
      <4>1. CASE i = 1
        BY <1>2, <4>1 DEF Scanner
      <4>2. CASE i # 1
        <5>1. PICK b \in Tokens(text) : /\ b <= i - 1 /\ i - 1 <= EndOf(text, b)
                                        /\ At(text, strip, st[i - 1], b, i - 1)
          BY <2>3, <4>2
        <5>2. b \in 1..n /\ b < i
          BY <1>3, <2>1, <5>1
        <5>3. EndOf(text, b) < i /\ EndOf(text, b) \in Int
          BY <1>1, <1>5, <2>4, <5>2, TokensApart
        <5>4. EndOf(text, b) = i - 1 /\ i - 1 # n
          BY <1>1, <2>1, <5>1, <5>3
        <5>5. i - 1 \in Ends(text, b)
          BY <1>5, <5>2, <5>4
        <5> QED BY <5>1, <5>5 DEF At
      <4> QED BY <4>1, <4>2
    <3>2. st[i] \in States /\ Outside(st[i - 1], st[i], text, i, strip)
      BY <2>2, <3>1, TurnOutside
    <3>3. At(text, strip, st[i], i, i)
      BY <3>2, TokenBegins DEF Outside
    <3>4. i <= i /\ i <= EndOf(text, i)
      BY <1>1, <1>5, <2>1
    <3>5. Is(i)
      BY <2>4, <3>3, <3>4
    <3>6. Step(st[i - 1], st[i], text, i)
      BY <2>4, <3>2 DEF Step, Outside
    <3> HIDE DEF Is
    <3> QED BY <2>1, <3>5, <3>6
  <2>5. CASE i \notin Tokens(text)
    <3>1. i # 1
      BY <1>4, <2>5
    <3>2. PICK b \in Tokens(text) : /\ b <= i - 1 /\ i - 1 <= EndOf(text, b)
                                    /\ At(text, strip, st[i - 1], b, i - 1)
      BY <2>3, <3>1
    <3>3. b \in 1..n /\ EndOf(text, b) # i - 1
      BY <1>3, <1>4, <2>5, <3>2
    <3>4. i <= EndOf(text, b) /\ b <= i /\ i \in b + 1..n
      <4>1. EndOf(text, b) \in Int /\ i - 1 <= EndOf(text, b) /\ EndOf(text, b) # i - 1
        BY <1>1, <1>5, <3>2, <3>3
      <4>2. b \in Nat /\ b <= i - 1
        BY <1>1, <3>2, <3>3
      <4> QED BY <1>1, <2>1, <4>1, <4>2
    <3>5. i - 1 \notin Ends(text, b)
      BY <1>1, <1>5, <2>1, <3>3, <3>4
    <3>6. strip \/ ~(Mode(text, b) = "/*" /\ CharAt(text, b + 2) = "/")
      <4>1. Mode(text, b) = "/*" => text[b] = "/" /\ CharAt(text, b + 1) = "*"
        BY <3>3, EndsAre
      <4> QED BY <3>2, <4>1 DEF ShortComment
    <3>7. At(text, strip, st[i], b, i) /\ Within(st[i - 1], st[i])
      BY <2>2, <3>2, <3>3, <3>4, <3>5, <3>6, TokenGoesOn
    <3>8. Is(i)
      BY <3>2, <3>4, <3>7
    <3>9. Step(st[i - 1], st[i], text, i)
      BY <2>5, <3>7 DEF Step
    <3> HIDE DEF Is
    <3> QED BY <2>1, <3>8, <3>9
  <2> QED BY <2>4, <2>5
<1>7. ASSUME NEW i \in 1..n PROVE Step(st[i - 1], st[i], text, i)
  <2>1. 0 \in T
    BY <1>1
  <2> HIDE DEF T, n
  <2>2. \A k \in 0..n : k \in T
    BY <1>1, <1>6, <2>1, UpTo
  <2>3. i \in T /\ i # 0
    BY <1>1, <2>2
  <2> QED BY <2>3 DEF T
<1> QED BY <1>2, <1>7

\* A plain character is a token by itself; one that stands in words is plain.
LEMMA PlainIs ==
    ASSUME NEW text \in Seq(Chars), NEW i \in Tokens(text)
    PROVE  /\ Plain(text, i) /\ i < Len(text) => i + 1 \in Tokens(text)
           /\ ~Plain(text, i) => text[i] \notin WordChars
<1> DEFINE n == Len(text)
<1>1. n \in Nat /\ i \in 1..n
  BY TokensAre
<1>2. ASSUME Plain(text, i), i < n PROVE i + 1 \in Tokens(text)
  <2>1. Ends(text, i) = {i}
    BY <1>1, <1>2, EndsAre
  <2>2. EndOf(text, i) = i
    BY <1>1, <1>2, <2>1, EndOfIs
  <2>3. i + 1 \in 1..n /\ i + 1 - 1 = i
    BY <1>1, <1>2
  <2> QED BY <2>2, <2>3, TokensAre
<1>3. ASSUME ~Plain(text, i) PROVE text[i] \notin WordChars
  <2>1. Mode(text, i) \in Modes /\ Mode(text, i) # "normal"
    BY <1>1, <1>3, EndsAre
  <2>2. CASE Mode(text, i) \in Quotes
    BY <1>1, <2>2, EndsAre DEF Quotes, WordChars
  <2>3. CASE Mode(text, i) = "["
    BY <2>3 DEF Mode, Opened, Quotes, WordChars
  <2>4. CASE Mode(text, i) \in {"--", "/*"}
    BY <1>1, <2>4, EndsAre DEF WordChars
  <2> QED BY <2>1, <2>2, <2>3, <2>4 DEF Modes
<1> QED BY <1>2, <1>3

\* A token that is not plain does not end with what stands in words.
LEMMA BeforeToken ==
    ASSUME NEW text \in Seq(Chars), NEW i \in Tokens(text), i # 1,
           ~(i - 1 \in Tokens(text) /\ Plain(text, i - 1))
    PROVE  text[i - 1] \notin WordChars
<1> DEFINE n == Len(text)
<1>1. n \in Nat /\ i \in 1..n /\ Tokens(text) \subseteq 1..n
  BY TokensAre
<1>2. PICK b \in Tokens(text) : EndOf(text, b) = i - 1
  BY <1>1, TokensAre
<1>3. b \in 1..n /\ i - 1 \in 1..n /\ i - 1 # n
  <2>1. b \in 1..n
    BY <1>1
  <2>2. EndOf(text, b) \in b..n
    BY <2>1, EndOfIs
  <2> QED BY <1>1, <1>2, <2>1, <2>2
<1>4. i - 1 \in Ends(text, b)
  BY <1>2, <1>3, EndOfIs
<1>5. Mode(text, b) \in Modes
  BY <1>3, EndsAre
<1>6. CASE Mode(text, b) = "normal"
  BY <1>2, <1>3, <1>4, <1>6, EndsAre
<1>7. CASE Mode(text, b) \in Quotes
  <2>1. text[i - 1] = Mode(text, b)
    BY <1>3, <1>4, <1>7, EndsAre
  <2> QED BY <1>7, <2>1 DEF Quotes, WordChars
<1>8. CASE Mode(text, b) = "["
  BY <1>3, <1>4, <1>8, EndsAre DEF WordChars
<1>9. CASE Mode(text, b) \in {"--", "/*"}
  BY <1>3, <1>4, <1>9, EndsAre DEF WordChars
<1> QED BY <1>5, <1>6, <1>7, <1>8, <1>9 DEF Modes

-----------------------------------------------------------------------------
(* What a scan comes to: the cuts, and what is kept of the text.           *)

\* Statements cuts a text at the semicolons that are tokens.
LEMMA CutsAre ==
    ASSUME NEW text \in Seq(Chars), ~ShortComment(text)
    PROVE  Scan(text, FALSE).cuts = {i \in Tokens(text) : text[i] = ";"}
<1> DEFINE n == Len(text)
<1>1. n \in Nat /\ Tokens(text) \subseteq 1..n
  BY TokensAre
<1>2. PICK st \in [0..n -> States] :
         /\ st[0] = Scanner /\ Scan(text, FALSE) = st[n]
         /\ \A i \in 1..n : Step(st[i - 1], st[i], text, i)
  BY ScanSteps
<1> DEFINE Semi(j) == text[j] = ";"
           Is(i, j) == j \in Tokens(text) /\ j <= i /\ Semi(j)
           Upto(i) == \A j : j \in st[i].cuts <=> Is(i, j)
           T == {i \in 0..n : Upto(i)}
<1>3. 0 \in T
  <2>1. \A j : ~Is(0, j)
    <3> HIDE DEF Semi
    <3> QED BY <1>1
  <2>2. st[0].cuts = {}
    BY <1>2 DEF Scanner
  <2> HIDE DEF Is
  <2> QED BY <1>1, <2>1, <2>2
<1>4. ASSUME NEW i \in 1..n, i - 1 \in T PROVE i \in T
  <2>1. i \in 0..n /\ i \in Nat /\ Upto(i - 1)
    <3> HIDE DEF Upto
    <3> QED BY <1>1, <1>4
  <2>2. Step(st[i - 1], st[i], text, i)
    BY <1>2
  <2>3. CASE i \in Tokens(text) /\ Semi(i)
    <3>1. st[i].cuts = st[i - 1].cuts \cup {i}
      BY <2>2, <2>3 DEF Step
    <3>2. \A j : Is(i, j) <=> Is(i - 1, j) \/ j = i
      <4> HIDE DEF Semi
      <4> QED BY <1>1, <2>3
    <3>3. Upto(i)
      <4> HIDE DEF Is
      <4> QED BY <2>1, <3>1, <3>2
    <3> HIDE DEF Upto
    <3> QED BY <2>1, <3>3
  <2>4. CASE ~(i \in Tokens(text) /\ Semi(i))
    <3>1. st[i].cuts = st[i - 1].cuts
      BY <2>2, <2>4 DEF Step, Within
    <3>2. \A j : Is(i, j) <=> Is(i - 1, j)
      <4> HIDE DEF Semi
      <4> QED BY <1>1, <2>4
    <3>3. Upto(i)
      <4> HIDE DEF Is
      <4> QED BY <2>1, <3>1, <3>2
    <3> HIDE DEF Upto
    <3> QED BY <2>1, <3>3
  <2> QED BY <2>3, <2>4
<1>5. Upto(n)
  <2> HIDE DEF T, n, Upto
  <2>1. \A i \in 0..n : i \in T
    BY <1>1, <1>3, <1>4, UpTo
  <2>2. n \in T
    BY <1>1, <2>1
  <2> QED BY <2>2 DEF T
<1>6. \A j : Is(n, j) <=> j \in Tokens(text) /\ Semi(j)
  <2> HIDE DEF Semi
  <2> QED BY <1>1
<1>7. \A j : j \in st[n].cuts <=> j \in Tokens(text) /\ Semi(j)
  <2> HIDE DEF Is, Semi
  <2> QED BY <1>5, <1>6
<1>8. st[n].cuts = {j \in Tokens(text) : text[j] = ";"}
  BY <1>7 DEF Semi
<1> QED BY <1>2, <1>8

\* A text without its comments is executable if one of its tokens is.
LEMMA ExecutableIs ==
    ASSUME NEW text \in Seq(Chars)
    PROVE  HasExecutableSQL(text) <=> Executable(text)
<1> DEFINE n == Len(text)
<1>1. n \in Nat /\ Tokens(text) \subseteq 1..n
  BY TokensAre
<1>2. PICK st \in [0..n -> States] :
         /\ st[0] = Scanner /\ Scan(text, TRUE) = st[n]
         /\ \A i \in 1..n : Step(st[i - 1], st[i], text, i)
  BY ScanSteps
<1> DEFINE Has(i) == \E k \in 1..Len(st[i].kept) : st[i].kept[k] \notin Blank
           Upto(i) == \E j \in Tokens(text) : j <= i /\ Plain(text, j) /\ text[j] \notin Blank
           T == {i \in 0..n : Has(i) <=> Upto(i)}
<1>3. \A i \in 0..n : st[i].kept \in Seq(Chars)
  BY <1>2 DEF States
<1>4. 0 \in T
  <2>1. ~Upto(0)
    BY <1>1
  <2>2. ~Has(0)
    BY <1>1, <1>2 DEF Scanner
  <2> HIDE DEF Has, Upto
  <2> QED BY <1>1, <2>1, <2>2
<1>5. ASSUME NEW i \in 1..n, i - 1 \in T PROVE i \in T
  <2>1. (Has(i - 1) <=> Upto(i - 1)) /\ i \in 0..n /\ i - 1 \in 0..n /\ i \in Nat
    BY <1>1, <1>5
  <2>2. Step(st[i - 1], st[i], text, i)
    BY <1>2
  <2>3. Upto(i) <=> Upto(i - 1) \/ (i \in Tokens(text) /\ Plain(text, i) /\ text[i] \notin Blank)
    BY <1>1
  <2>4. ASSUME NEW c, st[i].kept = Append(st[i - 1].kept, c)
        PROVE  Has(i) <=> Has(i - 1) \/ c \notin Blank
    <3> DEFINE q == st[i - 1].kept
               r == st[i].kept
    <3>1. q \in Seq(Chars)
      BY <1>3, <2>1
    <3>2. /\ Len(q) \in Nat /\ Len(r) = Len(q) + 1 /\ r[Len(q) + 1] = c
          /\ \A k \in 1..Len(q) : r[k] = q[k]
      <4> HIDE DEF q
      <4> QED BY <2>4, <3>1 DEF q
    <3>3. (\E k \in 1..Len(r) : r[k] \notin Blank)
             <=> (\E k \in 1..Len(q) : q[k] \notin Blank) \/ c \notin Blank
      <4> HIDE DEF q, r
      <4> QED BY <3>2
    <3> QED BY <3>3
  <2>5. CASE i \in Tokens(text)
    <3>1. PICK c \in Chars : /\ st[i].kept = Append(st[i - 1].kept, c)
                             /\ Plain(text, i) => c = text[i]
                             /\ ~Plain(text, i) => c \in Blank
      BY <2>2, <2>5 DEF Step
    <3>2. Has(i) <=> Has(i - 1) \/ c \notin Blank
      BY <2>4, <3>1
    <3> HIDE DEF Has, Upto
    <3> QED BY <2>1, <2>3, <2>5, <3>1, <3>2
  <2>6. CASE i \notin Tokens(text)
    <3>1. Has(i) <=> Has(i - 1)
      <4>1. CASE st[i].kept = st[i - 1].kept
        BY <4>1
      <4>2. ASSUME NEW c \in Blank, st[i].kept = Append(st[i - 1].kept, c)
            PROVE  Has(i) <=> Has(i - 1)
        <5> HIDE DEF Has
        <5> QED BY <2>4, <4>2
      <4> HIDE DEF Has
      <4> QED BY <2>2, <2>6, <4>1, <4>2 DEF Step, Within
    <3> HIDE DEF Has, Upto
    <3> QED BY <2>1, <2>3, <2>6, <3>1
  <2> QED BY <2>5, <2>6
<1>6. Has(n) <=> Upto(n)
  <2> HIDE DEF T, n, Has, Upto
  <2>1. \A i \in 0..n : i \in T
    BY <1>1, <1>4, <1>5, UpTo
  <2>2. n \in T
    BY <1>1, <2>1
  <2> QED BY <2>2 DEF T
<1>7. HasExecutableSQL(text) <=> Has(n)
  <2>1. StripComments(text) = st[n].kept /\ st[n].kept \in Seq(Chars)
    <3>1. StripComments(text) = st[n].kept
      BY <1>2 DEF StripComments
    <3>2. n \in 0..n
      BY <1>1
    <3> QED BY <1>3, <3>1, <3>2
  <2>2. DOMAIN st[n].kept = 1..Len(st[n].kept)
    BY <2>1
  <2> HIDE DEF n
  <2> QED BY <2>1, <2>2 DEF HasExecutableSQL
<1>8. Upto(n) <=> Executable(text)
  BY <1>1 DEF Executable
<1> HIDE DEF Has, Upto
<1> QED BY <1>6, <1>7, <1>8

\* The word stands alone if there is none of a word on either side of it.
LEMMA AloneIs ==
    ASSUME NEW text, NEW k
    PROVE  StandsAlone(text, k) <=> /\ text[k] = "BEGIN"
                                    /\ CharAt(text, k - 1) \notin WordChars
                                    /\ CharAt(text, k + 1) \notin WordChars
  BY DEF StandsAlone

\* What stands alone before the last character of a text does so in a longer one.
LEMMA AloneInLonger ==
    ASSUME NEW q \in Seq(Chars), q # << >>, NEW c \in Chars
    PROVE  LET r == Append(q, c) IN
           /\ Len(r) = Len(q) + 1 /\ r[Len(r)] = c /\ CharAt(r, Len(r) - 1) = q[Len(q)]
           /\ (\E k \in 1..Len(r) - 1 : StandsAlone(r, k)) <=>
                 \/ \E k \in 1..Len(q) - 1 : StandsAlone(q, k)
                 \/ /\ q[Len(q)] = "BEGIN"
                    /\ CharAt(q, Len(q) - 1) \notin WordChars /\ c \notin WordChars
<1> DEFINE r == Append(q, c)
           m == Len(q)
<1>1. /\ m \in Nat \ {0} /\ Len(r) = m + 1 /\ r[m + 1] = c
      /\ \A k \in 1..m : r[k] = q[k]
      /\ DOMAIN r = 1..m + 1 /\ DOMAIN q = 1..m
  OBVIOUS
<1> HIDE DEF r, m
<1>2. \A k \in 0..m : CharAt(r, k) = CharAt(q, k)
  BY <1>1 DEF CharAt
<1>3. CharAt(r, m + 1) = c /\ CharAt(r, m) = q[m]
  BY <1>1 DEF CharAt
<1>4. ASSUME NEW k \in 1..m - 1 PROVE StandsAlone(r, k) <=> StandsAlone(q, k)
  <2>1. k \in 1..m /\ k - 1 \in 0..m /\ k + 1 \in 0..m
    BY <1>1
  <2>2. r[k] = q[k] /\ CharAt(r, k - 1) = CharAt(q, k - 1) /\ CharAt(r, k + 1) = CharAt(q, k + 1)
    BY <1>1, <1>2, <2>1
  <2> QED BY <2>2, AloneIs
<1>5. StandsAlone(r, m) <=> /\ q[m] = "BEGIN"
                            /\ CharAt(q, m - 1) \notin WordChars /\ c \notin WordChars
  <2>1. r[m] = q[m] /\ CharAt(r, m - 1) = CharAt(q, m - 1)
    BY <1>1, <1>2
  <2> QED BY <1>3, <2>1, AloneIs
<1>6. \A k : k \in 1..m <=> k \in 1..m - 1 \/ k = m
  BY <1>1
<1>7. (\E k \in 1..m : StandsAlone(r, k))
         <=> (\E k \in 1..m - 1 : StandsAlone(q, k)) \/ StandsAlone(r, m)
  BY <1>4, <1>6
<1>8. Len(r) - 1 = m
  BY <1>1
<1> QED BY <1>1, <1>3, <1>5, <1>7, <1>8 DEF r, m

\* A compound statement is seen where there is one.
LEMMA BeginIs ==
    ASSUME NEW text \in Seq(Chars)
    PROVE  BareBegin(text) <=> SqlBegin(text)
<1> DEFINE n == Len(text)
<1>1. n \in Nat /\ Tokens(text) \subseteq 1..n /\ \A i \in 1..n : i = 1 => i \in Tokens(text)
  BY TokensAre
<1>2. PICK st \in [0..n -> States] :
         /\ st[0] = Scanner /\ Scan(text, TRUE) = st[n]
         /\ \A i \in 1..n : Step(st[i - 1], st[i], text, i)
  BY ScanSteps
<1> DEFINE K(i) == st[i].kept
           L(i) == Len(K(i))
           Single(i) == i \in Tokens(text) /\ Plain(text, i)
           LastKept(i) ==
               /\ K(i) # << >>
               /\ Single(i) => K(i)[L(i)] = text[i]
               /\ ~Single(i) => K(i)[L(i)] \in Blank
           Precedes(i) ==
               Single(i) => (CharAt(K(i), L(i) - 1) \in WordChars
                                <=> CharAt(text, i - 1) \in WordChars)
           Seen(i) == \E k \in 1..L(i) - 1 : StandsAlone(K(i), k)
           Upto(i) == \E j \in Tokens(text) : j < i /\ StandsAlone(text, j)
           Is(i) == LastKept(i) /\ Precedes(i) /\ (Seen(i) <=> Upto(i))
           T == {i \in 0..n : i = 0 \/ Is(i)}
<1>3. \A i \in 0..n : K(i) \in Seq(Chars)
  BY <1>2 DEF States
<1>4. "end" \notin WordChars /\ "BEGIN" \in WordChars
  BY DEF WordChars
<1>5. \A c \in Blank : c \in Chars /\ c \notin WordChars /\ c # "BEGIN"
  BY DEF Blank, WordChars, Chars
<1>6. DOMAIN text = 1..n
  OBVIOUS
<1> HIDE DEF n
<1>7. ASSUME NEW i \in 1..n
      PROVE  Upto(i) <=> \/ Upto(i - 1)
                         \/ i - 1 \in Tokens(text) /\ StandsAlone(text, i - 1)
  <2> HIDE DEF K, L, Single
  <2> QED BY <1>1
<1>8. ASSUME NEW i \in Tokens(text), ~Single(i) PROVE ~StandsAlone(text, i)
  <2>1. text[i] \notin WordChars
    BY <1>8, PlainIs
  <2> QED BY <1>4, <2>1, AloneIs
<1>9. ASSUME NEW i \in 1..n, i - 1 \in T PROVE i \in T
  <2>1. i \in 0..n /\ i # 0 /\ i - 1 \in 0..n /\ Step(st[i - 1], st[i], text, i) /\ i \in Nat
    BY <1>1, <1>2
  <2>2. i = 1 \/ Is(i - 1)
    <3> HIDE DEF Is
    <3> QED BY <1>9, <2>1
  <2> DEFINE q == K(i - 1)
             m == Len(q)
             p == st[i].kept
  <2>3. q \in Seq(Chars) /\ m \in Nat
    BY <1>3, <2>1
  <2>4. CASE i = 1
    <3>1. i \in Tokens(text) /\ q = << >>
      BY <1>1, <1>2, <2>4 DEF Scanner
    <3>2. PICK c \in Chars : /\ p = Append(q, c)
                             /\ Plain(text, i) => c = text[i]
                             /\ ~Plain(text, i) => c \in Blank
      BY <2>1, <3>1 DEF Step
    <3> HIDE DEF p, q
    <3>3. p = <<c>> /\ Len(p) = 1
      BY <3>1, <3>2
    <3>4. LastKept(i)
      BY <3>1, <3>2, <3>3 DEF p
    <3>5. CharAt(p, 0) = "end" /\ CharAt(text, 0) = "end"
      BY <1>6, <3>3 DEF CharAt
    <3>6. Precedes(i)
      <4> HIDE DEF Single
      <4> QED BY <2>4, <3>3, <3>5 DEF p
    <3>7. ~Seen(i)
      <4> HIDE DEF Single
      <4> QED BY <3>3 DEF p
    <3>8. ~Upto(i)
      BY <1>1, <2>4
    <3> HIDE DEF LastKept, Precedes, Seen, Upto
    <3> QED BY <2>1, <3>4, <3>6, <3>7, <3>8
  <2>5. CASE i # 1
    <3> HIDE DEF p, q, m
    <3>1. /\ q # << >>
          /\ Single(i - 1) => q[m] = text[i - 1]
          /\ ~Single(i - 1) => q[m] \in Blank
      <4> HIDE DEF Single
      <4> QED BY <2>2, <2>5 DEF q, m
    <3>2. Single(i - 1) => (CharAt(q, m - 1) \in WordChars <=> CharAt(text, i - 2) \in WordChars)
      <4>1. i - 1 - 1 = i - 2
        BY <2>1
      <4> HIDE DEF Single
      <4> QED BY <2>2, <2>5, <4>1 DEF q, m
    <3>3. (\E k \in 1..m - 1 : StandsAlone(q, k)) <=> Upto(i - 1)
      <4> HIDE DEF LastKept, Precedes, Upto
      <4> QED BY <2>2, <2>5 DEF q, m
    <3>4. CharAt(text, i - 1) = text[i - 1] /\ CharAt(text, i) = text[i]
      BY <1>1, <1>6, <2>1, <2>5 DEF CharAt
    <3>5. CASE i \in Tokens(text)
      <4>1. PICK c \in Chars : /\ p = Append(q, c)
                               /\ Plain(text, i) => c = text[i]
                               /\ ~Plain(text, i) => c \in Blank
        BY <2>1, <3>5 DEF Step, p, q
      <4>2. /\ Len(p) = m + 1 /\ p[Len(p)] = c /\ CharAt(p, Len(p) - 1) = q[m]
            /\ (\E k \in 1..Len(p) - 1 : StandsAlone(p, k)) <=>
                 \/ \E k \in 1..m - 1 : StandsAlone(q, k)
                 \/ /\ q[m] = "BEGIN"
                    /\ CharAt(q, m - 1) \notin WordChars /\ c \notin WordChars
        BY <2>3, <3>1, <4>1, AloneInLonger DEF m
      <4>3. LastKept(i)
        <5>1. p # << >>
          BY <2>3, <4>1
        <5> QED BY <3>5, <4>1, <4>2, <5>1 DEF p
      <4>4. Precedes(i)
        <5>1. ASSUME Single(i) PROVE q[m] \in WordChars <=> text[i - 1] \in WordChars
          <6>1. CASE Single(i - 1)
            BY <3>1, <6>1
          <6>2. CASE ~Single(i - 1)
            <7>1. text[i - 1] \notin WordChars
              BY <2>5, <3>5, <6>2, BeforeToken
            <7> QED BY <1>5, <3>1, <6>2, <7>1
          <6> QED BY <6>1, <6>2
        <5> HIDE DEF Single
        <5> QED BY <3>4, <4>2, <5>1 DEF p
      <4>5. Seen(i) <=> Upto(i)
        <5>1. c \in WordChars <=> text[i] \in WordChars
          BY <1>5, <3>5, <4>1, PlainIs
        <5>2. (q[m] = "BEGIN" /\ CharAt(q, m - 1) \notin WordChars /\ c \notin WordChars)
                 <=> (i - 1 \in Tokens(text) /\ StandsAlone(text, i - 1))
          <6>1. CASE Single(i - 1)
            <7>1. i - 1 - 1 = i - 2 /\ i - 1 + 1 = i
              BY <2>1
            <7>2. StandsAlone(text, i - 1) <=> /\ text[i - 1] = "BEGIN"
                                               /\ CharAt(text, i - 2) \notin WordChars
                                               /\ text[i] \notin WordChars
              BY <3>4, <7>1, AloneIs
            <7> QED BY <3>1, <3>2, <5>1, <6>1, <7>2
          <6>2. CASE ~Single(i - 1)
            <7>1. ~(i - 1 \in Tokens(text) /\ StandsAlone(text, i - 1))
              BY <1>8, <6>2
            <7> QED BY <1>5, <3>1, <6>2, <7>1
          <6> QED BY <6>1, <6>2
        <5> HIDE DEF Upto
        <5> QED BY <1>7, <3>3, <4>2, <5>2 DEF p
      <4> HIDE DEF LastKept, Precedes, Seen, Upto
      <4> QED BY <2>1, <4>3, <4>4, <4>5
    <3>6. CASE i \notin Tokens(text)
      <4>1. ~Single(i - 1)
        <5>1. i - 1 < Len(text) /\ i - 1 + 1 = i
          BY <1>1, <2>1 DEF n
        <5> QED BY <3>6, <5>1, PlainIs
      <4>2. q[m] \in Blank /\ q[m] # "BEGIN"
        BY <1>5, <3>1, <4>1
      <4>3. Upto(i) <=> Upto(i - 1)
        <5>1. ~(i - 1 \in Tokens(text) /\ StandsAlone(text, i - 1))
          BY <1>8, <4>1
        <5> HIDE DEF Upto
        <5> QED BY <1>7, <5>1
      <4>4. ~Single(i)
        BY <3>6
      <4>5. p = q \/ \E c \in Blank : p = Append(q, c)
        BY <2>1, <3>6 DEF Step, Within, p, q
      <4>6. CASE p = q
        <5>1. p # << >> /\ p[Len(p)] \in Blank
          BY <3>1, <4>2, <4>6 DEF m
        <5>2. LastKept(i)
          BY <4>4, <5>1 DEF p
        <5>3. Precedes(i)
          <6> HIDE DEF Single
          <6> QED BY <4>4
        <5>4. Seen(i) <=> Upto(i)
          <6> HIDE DEF Upto
          <6> QED BY <3>3, <4>3, <4>6 DEF p, m
        <5> HIDE DEF LastKept, Precedes, Seen, Upto
        <5> QED BY <2>1, <5>2, <5>3, <5>4
      <4>7. ASSUME NEW c \in Blank, p = Append(q, c) PROVE i \in T
        <5>1. /\ Len(p) = m + 1 /\ p[Len(p)] = c
              /\ (\E k \in 1..Len(p) - 1 : StandsAlone(p, k)) <=>
                   \/ \E k \in 1..m - 1 : StandsAlone(q, k)
                   \/ /\ q[m] = "BEGIN"
                      /\ CharAt(q, m - 1) \notin WordChars /\ c \notin WordChars
          BY <1>5, <2>3, <3>1, <4>7, AloneInLonger DEF m
        <5>2. p # << >>
          BY <2>3, <4>7
        <5>3. LastKept(i)
          BY <4>4, <5>1, <5>2 DEF p
        <5>4. Precedes(i)
          <6> HIDE DEF Single
          <6> QED BY <4>4
        <5>5. Seen(i) <=> Upto(i)
          <6> HIDE DEF Upto
          <6> QED BY <3>3, <4>2, <4>3, <5>1 DEF p
        <5> HIDE DEF LastKept, Precedes, Seen, Upto
        <5> QED BY <2>1, <5>3, <5>4, <5>5
      <4> QED BY <4>5, <4>6, <4>7
    <3> QED BY <3>5, <3>6
  <2> QED BY <2>4, <2>5
<1>10. n = 0 \/ Is(n)
  <2>1. 0 \in T
    BY <1>1
  <2> HIDE DEF T
  <2>2. \A i \in 0..n : i \in T
    BY <1>1, <1>9, <2>1, UpTo
  <2>3. n \in T
    BY <1>1, <2>2
  <2> HIDE DEF Is
  <2> QED BY <2>3 DEF T
<1>11. StripComments(text) = K(n) /\ DOMAIN K(n) = 1..L(n) /\ L(n) \in Nat
  <2>1. StripComments(text) = K(n)
    BY <1>2 DEF StripComments
  <2>2. K(n) \in Seq(Chars)
    BY <1>1, <1>3
  <2> HIDE DEF K
  <2> QED BY <2>1, <2>2
<1>12. BareBegin(text) <=> \E k \in 1..L(n) : StandsAlone(K(n), k)
  <2> HIDE DEF K, L
  <2> QED BY <1>11 DEF BareBegin
<1>13. CASE n = 0
  <2>1. L(n) = 0
    BY <1>2, <1>13 DEF Scanner
  <2>2. ~SqlBegin(text)
    BY <1>1, <1>13 DEF SqlBegin
  <2> HIDE DEF K, L
  <2> QED BY <1>12, <2>1, <2>2
<1>14. CASE n # 0
  <2>1. Is(n)
    BY <1>10, <1>14
  <2> DEFINE q == K(n)
             m == Len(q)
  <2>2. /\ q # << >> /\ m \in Nat /\ q \in Seq(Chars)
        /\ Single(n) => q[m] = text[n]
        /\ ~Single(n) => q[m] \in Blank
    <3>1. q \in Seq(Chars)
      BY <1>1, <1>3
    <3>2. q # << >> /\ (Single(n) => q[m] = text[n]) /\ (~Single(n) => q[m] \in Blank)
      <4> HIDE DEF Single
      <4> QED BY <2>1
    <3> HIDE DEF q, Single
    <3> QED BY <3>1, <3>2
  <2>3. Single(n) => (CharAt(q, m - 1) \in WordChars <=> CharAt(text, n - 1) \in WordChars)
    <3> HIDE DEF Single
    <3> QED BY <2>1
  <2>4. (\E k \in 1..m - 1 : StandsAlone(q, k)) <=> Upto(n)
    <3> HIDE DEF LastKept, Precedes, Upto
    <3> QED BY <2>1
  <2>5. CharAt(q, m + 1) = "end" /\ CharAt(text, n + 1) = "end"
    <3> HIDE DEF q
    <3> QED BY <1>1, <1>6, <2>2 DEF CharAt
  <2>6. StandsAlone(q, m) <=> n \in Tokens(text) /\ StandsAlone(text, n)
    <3>1. CASE Single(n)
      <4> HIDE DEF q, m
      <4> QED BY <1>4, <2>2, <2>3, <2>5, <3>1, AloneIs
    <3>2. CASE ~Single(n)
      <4>1. ~(n \in Tokens(text) /\ StandsAlone(text, n))
        BY <1>8, <3>2
      <4> HIDE DEF q, m
      <4> QED BY <1>5, <2>2, <3>2, <4>1, AloneIs
    <3> QED BY <3>1, <3>2
  <2>7. \A k : k \in 1..m <=> k \in 1..m - 1 \/ k = m
    <3>1. m # 0
      <4> HIDE DEF q
      <4> QED BY <2>2
    <3> HIDE DEF m
    <3> QED BY <2>2, <3>1
  <2>8. SqlBegin(text) <=> Upto(n) \/ (n \in Tokens(text) /\ StandsAlone(text, n))
    BY <1>1 DEF SqlBegin
  <2>9. BareBegin(text) <=> \E k \in 1..m : StandsAlone(q, k)
    BY <1>12
  <2> HIDE DEF q, m, Upto
  <2> QED BY <2>4, <2>6, <2>7, <2>8, <2>9
<1> QED BY <1>13, <1>14

\* Max is one of the numbers of a set that has a bound.
LEMMA MaxIs ==
    ASSUME NEW n \in Nat, NEW T, T \subseteq 0..n, T # {}
    PROVE  Max(T) \in T
<1> DEFINE U == {n - k : k \in T}
<1>1. U \subseteq Nat /\ U # {}
  <2>1. \A k \in T : n - k \in Nat
    OBVIOUS
  <2>2. PICK k \in T : TRUE
    OBVIOUS
  <2>3. n - k \in U
    OBVIOUS
  <2> QED BY <2>1, <2>3
<1>2. PICK m \in U : \A k \in U : m <= k
  <2> HIDE DEF U
  <2> QED BY <1>1, LeastNumber
<1>3. PICK x \in T : m = n - x
  OBVIOUS
<1>4. ASSUME NEW y \in T PROVE x >= y
  <2>1. n - y \in U /\ x \in Nat /\ y \in Nat
    OBVIOUS
  <2>2. n - x <= n - y
    BY <1>2, <1>3, <2>1
  <2> QED BY <2>1, <2>2
<1> QED BY <1>4 DEF Max

\* A piece of a text is one.
LEMMA PieceIs ==
    ASSUME NEW text \in Seq(Chars), NEW cuts, cuts \subseteq 1..Len(text),
           NEW end \in cuts \cup {Len(text) + 1}
    PROVE  Piece(text, cuts, end) \in Seq(Chars)
<1> DEFINE n == Len(text)
           T == {0} \cup {i \in cuts : i < end}
           k == Max(T)
<1>1. n \in Nat /\ end \in 1..n + 1
  OBVIOUS
<1>2. T \subseteq 0..n /\ T # {}
  <2>1. cuts \subseteq 0..n
    OBVIOUS
  <2> DEFINE below == {i \in cuts : i < end}
  <2>2. below \subseteq cuts
    OBVIOUS
  <2> HIDE DEF n, below
  <2>3. {0} \cup below \subseteq 0..n /\ {0} \cup below # {}
    BY <1>1, <2>1, <2>2
  <2> QED BY <2>3 DEF below
<1>3. k \in 0..n
  <2> HIDE DEF T, n
  <2> QED BY <1>1, <1>2, MaxIs
<1>4. Piece(text, cuts, end) = SubSeq(text, k + 1, end - 1)
  BY DEF Piece
<1> HIDE DEF k
<1>5. k + 1 \in Nat \ {0} /\ end - 1 \in 0..n
  BY <1>1, <1>3
<1>6. \A i \in k + 1..end - 1 : text[i] \in Chars
  BY <1>3, <1>5
<1>7. SubSeq(text, k + 1, end - 1) \in Seq(Chars)
  BY <1>3, <1>5, <1>6
<1> QED BY <1>4, <1>7

\* The statements are those that SQL sees.
LEMMA StatementsAre ==
    ASSUME NEW text \in Seq(Chars), ~ShortComment(text)
    PROVE  Statements(text) = SqlStatements(text)
<1> DEFINE cuts == Scan(text, FALSE).cuts
           all == cuts \cup {Len(text) + 1}
           sql == {i \in Tokens(text) : text[i] = ";"}
<1>1. cuts = sql
  BY CutsAre
<1>2. cuts \subseteq 1..Len(text)
  <2>1. Tokens(text) \subseteq 1..Len(text)
    BY TokensAre
  <2> QED BY <1>1, <2>1
<1>3. ASSUME NEW j \in all
      PROVE  HasExecutableSQL(Piece(text, cuts, j)) <=> Executable(Piece(text, cuts, j))
  <2>1. Piece(text, cuts, j) \in Seq(Chars)
    <3> HIDE DEF cuts
    <3> QED BY <1>2, PieceIs
  <2> QED BY <2>1, ExecutableIs
<1>4. {j \in all : HasExecutableSQL(Piece(text, cuts, j))}
         = {j \in all : Executable(Piece(text, cuts, j))}
  <2> HIDE DEF all, cuts
  <2> QED BY <1>3
<1>5. Statements(text) = Pieces(text, cuts, {j \in all : HasExecutableSQL(Piece(text, cuts, j))})
  BY DEF Statements
<1>6. SqlStatements(text) =
         Pieces(text, sql, {j \in sql \cup {Len(text) + 1} : Executable(Piece(text, sql, j))})
  BY DEF SqlStatements
<1>7. SqlStatements(text) = Pieces(text, cuts, {j \in all : Executable(Piece(text, cuts, j))})
  <2> HIDE DEF cuts, sql
  <2> QED BY <1>1, <1>6
<1> HIDE DEF cuts, all, sql
<1> QED BY <1>4, <1>5, <1>7

-----------------------------------------------------------------------------

\* The texts of the scripts stay, and so does what is made of them.
AssetsInv ==
    /\ case \in Cases
    /\ valid = [i \in DOMAIN case.texts |-> Valid(case.texts[i])]
    /\ statements = [i \in DOMAIN case.texts |-> Statements(case.texts[i])]

\* Statements and Validate: what the splitter does with a script is what SQL would,
\* whatever its text, however long: the same statements, and a compound statement is
\* seen exactly where there is one.
THEOREM SplitterReadsSql == Spec => []SplitsLikeSql
<1>1. Init => AssetsInv
  BY DEF Init, AssetsInv
<1>2. AssetsInv /\ [Next]_vars => AssetsInv'
  <2>1. [Next]_vars => UNCHANGED assetVars
    BY DEF Next, Runs, Migrate, Busy, Overtaken, Fails, Start, Validate, Open, EnsureTable,
           ReadHistory, NextScript, Execute, RecordHistory, Commit, GoesDown, vars
  <2> QED BY <2>1 DEF AssetsInv, assetVars
<1>3. AssetsInv => SplitsLikeSql
  <2> SUFFICES ASSUME AssetsInv, NEW i \in DOMAIN case.texts, ~ShortComment(case.texts[i])
               PROVE  /\ statements[i] = SqlStatements(case.texts[i])
                      /\ valid[i] <=> ~SqlBegin(case.texts[i]) /\ statements[i] # << >>
    BY DEF SplitsLikeSql
  <2> DEFINE text == case.texts[i]
  <2>1. text \in Seq(Chars)
    BY BootAssumption DEF AssetsInv
  <2>2. statements[i] = Statements(text) /\ valid[i] = Valid(text)
    BY DEF AssetsInv
  <2>3. Statements(text) = SqlStatements(text) /\ (BareBegin(text) <=> SqlBegin(text))
    BY <2>1, StatementsAre, BeginIs
  <2> HIDE DEF text
  <2> QED BY <2>2, <2>3 DEF text, Valid
<1> QED
  BY <1>1, <1>2, <1>3, PTL DEF Spec
=============================================================================
