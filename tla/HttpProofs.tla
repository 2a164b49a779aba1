----------------------------- MODULE HttpProofs ------------------------------
(***************************************************************************)
(* Theorems about Http, for any callers, requests and connections and      *)
(* whatever the store refuses.                                             *)
(***************************************************************************)
EXTENDS Http, SequenceTheorems, TLAPS

ConnSteps == {"idle", "dispatch", "body", "call", "reply", "closed"}

\* A request at a handler was let through by everything in front of it.
LetThrough(r) ==
    /\ r \in Requests
    /\ r.method \in Resolve(r.path).methods

Checked(c) ==
    /\ at[c] = "dispatch" => req[c] \in Requests
    /\ at[c] \in {"body", "call"} => LetThrough(req[c])
    /\ at[c] = "call" /\ HasBody(req[c]) => Failed(Checks(req[c])) = {}

HInv ==
    /\ at \in [Conns -> ConnSteps]
    /\ req = [c \in Conns |-> req[c]]
    /\ answer = [c \in Conns |-> answer[c]]
    /\ \A c \in Conns : Checked(c)
    /\ GivenIsStorable

-----------------------------------------------------------------------------
(* Routes, and what a refusal says.                                        *)

\* Only an entry is PUT, and an instance is always POSTed.
LEMMA Routes ==
    ASSUME NEW path
    PROVE  /\ "PUT" \in Resolve(path).methods => Resolve(path).kind = "item"
           /\ Resolve(path).kind = "spawn" => Resolve(path).methods = {"POST"}
BY DEF Resolve, Read, NoRoute

\* The first of a few refusals is one of them.
LEMMA FirstIsOne ==
    ASSUME NEW T \in SUBSET (1..8), T # {}
    PROVE  (CHOOSE k \in T : \A j \in T : k <= j) \in T
<1>1. \E k \in T : \A j \in T : k <= j
  <2>1. CASE {1, 2, 3} \cap T # {}
    <3>1. CASE 1 \in T
      BY <3>1
    <3>2. CASE 1 \notin T /\ 2 \in T
      BY <3>2
    <3>3. CASE 1 \notin T /\ 2 \notin T /\ 3 \in T
      BY <3>3
    <3> QED BY <2>1, <3>1, <3>2, <3>3
  <2>2. CASE T \subseteq 4..8
    <3>1. CASE 4 \in T
      BY <2>2, <3>1
    <3>2. CASE 4 \notin T /\ 5 \in T
      BY <2>2, <3>2
    <3>3. CASE 4 \notin T /\ 5 \notin T /\ 6 \in T
      BY <2>2, <3>3
    <3>4. CASE {4, 5, 6} \cap T = {}
      <4>1. T \subseteq {7, 8}
        BY <2>2, <3>4
      <4>2. CASE 7 \in T
        BY <4>1, <4>2
      <4>3. CASE 7 \notin T
        <5>1. T = {8}
          BY <4>1, <4>3
        <5> QED BY <5>1
      <4> QED BY <4>2, <4>3
    <3> QED BY <3>1, <3>2, <3>3, <3>4
  <2> QED BY <2>1, <2>2
<1> QED BY <1>1

\* None of them says that a write was tried.
LEMMA RefusalSays ==
    ASSUME NEW r, NEW body
    PROVE  /\ Applying(Refusals(r)) # {} =>
                  FirstOf(Refusals(r)).says # "not persisted"
           /\ Applying(BodyRefusals(body)) # {} =>
                  FirstOf(BodyRefusals(body)).says # "not persisted"
<1>1. ASSUME Applying(Refusals(r)) # {}
      PROVE  FirstOf(Refusals(r)).says # "not persisted"
  <2>1. Applying(Refusals(r)) \subseteq 1..4
    <3>1. DOMAIN Refusals(r) = 1..4
      BY DEF Refusals
    <3> QED BY <3>1 DEF Applying
  <2>2. PICK k \in 1..4 : FirstOf(Refusals(r)) = Refusals(r)[k][1]
    BY <1>1, <2>1, FirstIsOne DEF FirstOf
  <2>3. /\ Refusals(r)[1][1].says = "too large"
        /\ Refusals(r)[2][1].says = "unknown endpoint"
        /\ Refusals(r)[3][1].says = "method not allowed"
        /\ Refusals(r)[4][1].says = "unauthorized"
    BY DEF Refusals, Says
  <2>4. k = 1 \/ k = 2 \/ k = 3 \/ k = 4
    OBVIOUS
  <2> QED BY <2>2, <2>3, <2>4
<1>2. ASSUME Applying(BodyRefusals(body)) # {}
      PROVE  FirstOf(BodyRefusals(body)).says # "not persisted"
  <2>1. Applying(BodyRefusals(body)) \subseteq 1..2
    <3>1. DOMAIN BodyRefusals(body) = 1..2
      BY DEF BodyRefusals
    <3> QED BY <3>1 DEF Applying
  <2>2. PICK k \in 1..2 : FirstOf(BodyRefusals(body)) = BodyRefusals(body)[k][1]
    BY <1>2, <2>1, FirstIsOne DEF FirstOf
  <2>3. BodyRefusals(body)[1][1].says = "too large" /\ BodyRefusals(body)[2][1].says = "body"
    BY DEF BodyRefusals, Says
  <2>4. k = 1 \/ k = 2
    OBVIOUS
  <2> QED BY <2>2, <2>3, <2>4
<1> QED BY <1>1, <1>2

-----------------------------------------------------------------------------
(* What the checks let through.                                            *)

\* Each check of a registration, and of an instance, was passed.
LEMMA RegistrationPassed ==
    ASSUME NEW body, Failed(RegistrationChecks(body)) = {}
    PROVE  /\ IsText(body.cmd) /\ ~Blank(body.cmd) /\ Within(body.cmd, cmdMaxLen)
           /\ Present(body.label) => Within(body.label, labelMaxLen)
<1> DEFINE checks == RegistrationChecks(body)
<1>1. DOMAIN checks = 1..7
  BY DEF RegistrationChecks
<1>2. checks[1][2] /\ checks[2][2] /\ checks[4][2]
  <2> HIDE DEF checks
  <2>1. {1, 2, 3, 4, 6, 7} \subseteq DOMAIN checks
    BY <1>1
  <2>2. \A k \in DOMAIN checks : checks[k][2]
    BY Zenon DEF Failed, checks
  <2> QED BY <2>1, <2>2
<1> QED BY <1>2 DEF RegistrationChecks

\* The same of an instance.
LEMMA InstancePassed ==
    ASSUME NEW body, Failed(SpawnChecks(body)) = {}
    PROVE  /\ Within(body.requester, requesterMaxLen)
           /\ body.kind.is \in allowedKinds
           /\ Present(body.label) => Within(body.label, spawnLabelMaxLen)
           /\ Present(body.ttl) => ttlAllowed(body.ttl.is)
<1> DEFINE checks == SpawnChecks(body)
<1>1. DOMAIN checks = 1..7
  BY DEF SpawnChecks
<1>2. checks[2][2] /\ checks[3][2] /\ checks[6][2] /\ checks[7][2]
  <2> HIDE DEF checks
  <2>1. {1, 2, 3, 4, 6, 7} \subseteq DOMAIN checks
    BY <1>1
  <2>2. \A k \in DOMAIN checks : checks[k][2]
    BY Zenon DEF Failed, checks
  <2> QED BY <2>1, <2>2
<1> QED BY <1>2 DEF SpawnChecks

\* A concatenation begins with its first part.
LEMMA ConcatFirst ==
    ASSUME NEW S, NEW s \in Seq(S), NEW t \in Seq(S)
    PROVE  \A k \in 1..Len(s) : k \in DOMAIN (s \o t) /\ (s \o t)[k] = s[k]
<1>1. s \o t \in Seq(S) /\ Len(s \o t) = Len(s) + Len(t)
  BY ConcatProperties
<1>2. Len(s) \in Nat /\ Len(t) \in Nat
  OBVIOUS
<1>3. \A k \in 1..Len(s) : (s \o t)[k] = s[k]
  BY <1>2, ConcatProperties
<1>4. DOMAIN (s \o t) = 1..Len(s) + Len(t)
  BY <1>1
<1> QED BY <1>1, <1>2, <1>3, <1>4

\* The check of "start" comes after the others.
LEMMA StartPassed ==
    ASSUME NEW body, Failed(RegistrationChecks(body) \o StartCheck(body)) = {}
    PROVE  Failed(RegistrationChecks(body)) = {}
<1> DEFINE first == RegistrationChecks(body)
           second == StartCheck(body)
           S == {first[k] : k \in 1..7} \cup {second[1]}
<1>1. first \in Seq(S) /\ Len(first) = 7
  BY DEF RegistrationChecks
<1>2. second \in Seq(S) /\ Len(second) = 1
  BY DEF StartCheck
<1>3. \A k \in 1..7 : k \in DOMAIN (first \o second) /\ (first \o second)[k] = first[k]
  <2> HIDE DEF first, second, S
  <2>1. \A k \in 1..Len(first) : /\ k \in DOMAIN (first \o second)
                                 /\ (first \o second)[k] = first[k]
    BY <1>1, <1>2, ConcatFirst, Zenon
  <2> QED BY <1>1, <2>1, Zenon
<1>4. DOMAIN first = 1..7
  BY <1>1
<1> HIDE DEF first, second
<1>5. \A k \in DOMAIN (first \o second) : (first \o second)[k][2]
  BY Zenon DEF Failed, first, second
<1>6. \A k \in DOMAIN first : first[k][2]
  BY <1>3, <1>4, <1>5
<1> QED BY <1>6, Zenon DEF Failed, first

\* The numbers of a registration and of the columns of its row.
LEMMA EntryLimits ==
    ASSUME NEW body, body.cmd.length \in Nat, body.cmd.word \in 0..body.cmd.length,
           body.cmd.word # 0, body.cmd.length <= 4096, DerivedLabel(body).length <= 128
    PROVE  EntryFits(body)
<1>1. 1 <= body.cmd.length
  OBVIOUS
<1> QED BY <1>1, SMT DEF EntryFits

\* The numbers of an instance and of the columns of its row.
LEMMA InstanceLimits ==
    ASSUME NEW body, Within(body.requester, requesterMaxLen),
           body.kind.is \in allowedKinds,
           Present(body.label) => Within(body.label, spawnLabelMaxLen),
           Present(body.ttl) => ttlAllowed(body.ttl.is)
    PROVE  InstanceFits(body)
BY SMT DEF InstanceFits, Within, requesterMaxLen, allowedKinds, spawnLabelMaxLen, ttlAllowed

\* The check that fails names a field.
Named(S) == \A check \in S : check[1] # "not persisted"

\* The first check that fails is one of them, and says a name of theirs.
LEMMA CheckNames ==
    ASSUME NEW S, NEW checks \in Seq(S), Len(checks) <= 8, Named(S), Failed(checks) # {}
    PROVE  FirstFailed(checks) # "not persisted"
<1>1. Failed(checks) \subseteq DOMAIN checks
  BY DEF Failed
<1>2. DOMAIN checks \subseteq 1..8
  OBVIOUS
<1>3. PICK k \in Failed(checks) : FirstFailed(checks) = checks[k][1]
  BY <1>1, <1>2, FirstIsOne DEF FirstFailed
<1>4. checks[k] \in S
  BY <1>1
<1> QED BY <1>3, <1>4 DEF Named

\* The names in the checks of a registration.
LEMMA RegistrationNames ==
    ASSUME NEW body
    PROVE  \E S : /\ Named(S)
                  /\ RegistrationChecks(body) \in Seq(S) /\ Len(RegistrationChecks(body)) = 7
                  /\ StartCheck(body) \in Seq(S) /\ Len(StartCheck(body)) = 1
<1> DEFINE S == {RegistrationChecks(body)[k] : k \in 1..7} \cup {StartCheck(body)[1]}
<1>1. RegistrationChecks(body) \in Seq(S) /\ Len(RegistrationChecks(body)) = 7
  BY DEF RegistrationChecks
<1>2. StartCheck(body) \in Seq(S) /\ Len(StartCheck(body)) = 1
  BY DEF StartCheck
<1>3. \A k \in 1..7 : RegistrationChecks(body)[k][1] # "not persisted"
  <2>1. /\ RegistrationChecks(body)[1][1] = "cmd"
        /\ RegistrationChecks(body)[2][1] = "cmd"
        /\ RegistrationChecks(body)[3][1] = "label"
        /\ RegistrationChecks(body)[4][1] = "label"
        /\ RegistrationChecks(body)[5][1] = "cwd"
        /\ RegistrationChecks(body)[6][1] = "env"
        /\ RegistrationChecks(body)[7][1] = "auto_start"
    BY DEF RegistrationChecks
  <2>2. \A k \in 1..7 : k = 1 \/ k = 2 \/ k = 3 \/ k = 4 \/ k = 5 \/ k = 6 \/ k = 7
    OBVIOUS
  <2> QED BY <2>1, <2>2
<1>4. StartCheck(body)[1][1] # "not persisted"
  BY DEF StartCheck
<1>5. Named(S)
  BY <1>3, <1>4, Zenon DEF Named
<1> QED BY <1>1, <1>2, <1>5, Zenon

\* The names in the checks of an instance.
LEMMA InstanceNames ==
    ASSUME NEW body
    PROVE  \E S : /\ Named(S)
                  /\ SpawnChecks(body) \in Seq(S) /\ Len(SpawnChecks(body)) = 7
<1> DEFINE S == {SpawnChecks(body)[k] : k \in 1..7}
<1>1. SpawnChecks(body) \in Seq(S) /\ Len(SpawnChecks(body)) = 7
  BY DEF SpawnChecks
<1>2. \A k \in 1..7 : SpawnChecks(body)[k][1] # "not persisted"
  <2>1. /\ SpawnChecks(body)[1][1] = "requester"
        /\ SpawnChecks(body)[2][1] = "requester"
        /\ SpawnChecks(body)[3][1] = "kind"
        /\ SpawnChecks(body)[4][1] = "request_key"
        /\ SpawnChecks(body)[5][1] = "options"
        /\ SpawnChecks(body)[6][1] = "options.label"
        /\ SpawnChecks(body)[7][1] = "options.ttl_seconds"
    BY DEF SpawnChecks
  <2>2. \A k \in 1..7 : k = 1 \/ k = 2 \/ k = 3 \/ k = 4 \/ k = 5 \/ k = 6 \/ k = 7
    OBVIOUS
  <2> QED BY <2>1, <2>2
<1>3. Named(S)
  BY <1>2, Zenon DEF Named
<1> QED BY <1>1, <1>3, Zenon

\* Two lists of checks are one of at most eight.
LEMMA NamesJoined ==
    ASSUME NEW S, NEW s \in Seq(S), NEW t \in Seq(S), Len(s) = 7, Len(t) = 1
    PROVE  s \o t \in Seq(S) /\ Len(s \o t) <= 8
<1>1. s \o t \in Seq(S) /\ Len(s \o t) = Len(s) + Len(t)
  BY ConcatProperties, Zenon
<1>2. Len(s) + Len(t) <= 8
  OBVIOUS
<1> QED BY <1>1, <1>2, Zenon

\* What a refused body is answered is the name of a field.
LEMMA ChecksName ==
    ASSUME NEW r, Failed(Checks(r)) # {}
    PROVE  FirstFailed(Checks(r)) # "not persisted"
<1>1. \E S : Named(S) /\ Checks(r) \in Seq(S) /\ Len(Checks(r)) <= 8
  <2> DEFINE body == r.fields
  <2>1. CASE Checks(r) = SpawnChecks(body)
    <3>1. PICK S : Named(S) /\ SpawnChecks(body) \in Seq(S) /\ Len(SpawnChecks(body)) = 7
      BY InstanceNames, Zenon
    <3>2. Len(Checks(r)) <= 8
      BY <2>1, <3>1
    <3> QED BY <2>1, <3>1, <3>2, Zenon
  <2>2. PICK S : /\ Named(S)
                 /\ RegistrationChecks(body) \in Seq(S) /\ Len(RegistrationChecks(body)) = 7
                 /\ StartCheck(body) \in Seq(S) /\ Len(StartCheck(body)) = 1
    BY RegistrationNames, Zenon
  <2>3. CASE Checks(r) = RegistrationChecks(body)
    <3>1. Len(Checks(r)) = 7
      BY <2>2, <2>3, Zenon
    <3>2. Len(Checks(r)) <= 8
      BY <3>1
    <3> QED BY <2>2, <2>3, <3>2, Zenon
  <2>4. CASE Checks(r) = RegistrationChecks(body) \o StartCheck(body)
    BY <2>2, <2>4, NamesJoined, Zenon
  <2> QED BY <2>1, <2>3, <2>4, Zenon DEF Checks
<1> QED BY <1>1, CheckNames, Zenon

\* So what is written fits, but for the label that a command gives.
LEMMA EntriesFit ==
    ASSUME NEW r, LetThrough(r), Resolve(r.path).kind # "spawn",
           Failed(Checks(r)) = {}, Present(r.fields.label)
    PROVE  EntryFits(r.fields)
<1> DEFINE body == r.fields
<1>1. Failed(RegistrationChecks(body)) = {}
  <2>1. Checks(r) \in {RegistrationChecks(body),
                       RegistrationChecks(body) \o StartCheck(body)}
    BY Zenon DEF Checks
  <2> QED BY <2>1, StartPassed
<1>2. /\ IsText(body.cmd) /\ ~Blank(body.cmd) /\ Within(body.cmd, cmdMaxLen)
      /\ Within(body.label, labelMaxLen)
  BY <1>1, RegistrationPassed
<1>3. body.cmd.length \in Nat /\ body.cmd.word \in 0..body.cmd.length
  BY <1>2, CommandAssumption DEF LetThrough
<1>4. body.cmd.word # 0 /\ body.cmd.length <= 4096
  BY <1>2 DEF Blank, Within, cmdMaxLen
<1>5. DerivedLabel(body).length <= 128
  BY <1>2, Zenon DEF DerivedLabel, Within, labelMaxLen
<1>6. EntryFits(body)
  <2> HIDE DEF body
  <2> QED BY <1>3, <1>4, <1>5, EntryLimits
<1> QED BY <1>6

\* An instance that is let through fits.
LEMMA InstancesFit ==
    ASSUME NEW r, Resolve(r.path).kind = "spawn", Failed(Checks(r)) = {}
    PROVE  InstanceFits(r.fields)
<1>1. Failed(SpawnChecks(r.fields)) = {}
  BY Zenon DEF Checks
<1> QED BY <1>1, InstancePassed, InstanceLimits, Zenon

-----------------------------------------------------------------------------
(* The steps.                                                              *)

\* At first every connection is idle.
LEMMA InitHInv == Init => HInv
BY DEF Init, HInv, ConnSteps, Checked, GivenIsStorable, Unsaved

Others(c) ==
    /\ req' = [d \in Conns |-> req'[d]] /\ answer' = [d \in Conns |-> answer'[d]]
    /\ \A d \in Conns \ {c} : req'[d] = req[d] /\ answer'[d] = answer[d]

\* What a request is told is of its own making.
LEMMA OneConn ==
    ASSUME HInv, NEW c \in Conns, NEW step \in ConnSteps, Goto(c, step), Others(c),
           Checked(c)',
           Unsaved(c)' => /\ Resolve(req'[c].path).kind # "spawn"
                          /\ ~Present(req'[c].fields.label)
    PROVE  HInv'
<1>1. at' \in [Conns -> ConnSteps] /\ \A d \in Conns \ {c} : at'[d] = at[d]
  BY DEF HInv, Goto
<1>2. \A d \in Conns : Checked(d)'
  <2> TAKE d \in Conns
  <2>1. CASE d # c
    BY <1>1, <2>1 DEF HInv, Checked, Others
  <2> QED BY <2>1
<1>3. GivenIsStorable'
  <2> SUFFICES ASSUME NEW d \in Conns, Unsaved(d)'
               PROVE  Resolve(req'[d].path).kind # "spawn" /\ ~Present(req'[d].fields.label)
    BY DEF GivenIsStorable
  <2>1. CASE d # c
    BY <1>1, <2>1 DEF HInv, GivenIsStorable, Unsaved, Others
  <2> QED BY <2>1
<1> QED BY <1>1, <1>2, <1>3 DEF HInv, Others

\* A request arrives.
LEMMA ReceiveKeeps == ASSUME HInv, NEW c \in Conns, Receive(c) PROVE HInv'
<1>1. Others(c) /\ Goto(c, "dispatch")
  BY DEF Receive, HInv, Others
<1>2. at'[c] = "dispatch" /\ req'[c] \in Requests
  BY DEF Receive, HInv, Goto
<1>3. Checked(c)' /\ ~Unsaved(c)'
  BY <1>2 DEF Checked, Unsaved
<1> QED BY <1>1, <1>3, OneConn DEF ConnSteps

\* An answer, of whichever kind.
LEMMA RepliesKeep ==
    ASSUME HInv, NEW c \in Conns, NEW what, Replies(c, what), UNCHANGED req,
           what.says = "not persisted" /\ ~what.fault =>
               Resolve(req[c].path).kind # "spawn" /\ ~Present(req[c].fields.label)
    PROVE  HInv'
<1>1. Others(c) /\ Goto(c, "reply")
  BY DEF Replies, HInv, Others
<1>2. at'[c] = "reply" /\ answer'[c] = what
  BY DEF Replies, HInv, Goto
<1>3. Checked(c)'
  BY <1>2 DEF Checked
<1>4. Unsaved(c)' => what.says = "not persisted" /\ ~what.fault
  BY <1>2 DEF Unsaved
<1> QED BY <1>1, <1>3, <1>4, OneConn DEF ConnSteps

\* The refusals in front of the handlers: 405 is one of them.
LEMMA DispatchKeeps == ASSUME HInv, NEW c \in Conns, Dispatch(c) PROVE HInv'
<1> DEFINE r == req[c]
<1>1. r \in Requests /\ UNCHANGED req
  BY DEF Dispatch, HInv, Checked
<1>2. CASE Applying(Refusals(r)) # {}
  <2>1. Replies(c, FirstOf(Refusals(r)))
    BY <1>2 DEF Dispatch
  <2> QED BY <1>1, <1>2, <2>1, RefusalSays, RepliesKeep
<1>3. CASE Applying(Refusals(r)) = {}
  <2>1. Goto(c, IF HasBody(r) THEN "body" ELSE "call") /\ UNCHANGED answer
    BY <1>3 DEF Dispatch
  <2>2. LetThrough(r)
    <3>1. 3 \in DOMAIN Refusals(r)
      BY DEF Refusals
    <3>2. ~Refusals(r)[3][2]
      BY <1>3, <3>1 DEF Applying
    <3>3. Refusals(r)[3][2] = (r.method \notin Resolve(r.path).methods)
      BY DEF Refusals
    <3> QED BY <1>1, <3>2, <3>3 DEF LetThrough
  <2>3. at'[c] = IF HasBody(r) THEN "body" ELSE "call"
    BY <2>1 DEF HInv, Goto
  <2>4. Checked(c)' /\ ~Unsaved(c)'
    BY <1>1, <2>2, <2>3 DEF Checked, Unsaved
  <2>5. Others(c)
    BY <1>1, <2>1 DEF HInv, Others
  <2> QED BY <2>1, <2>4, <2>5, OneConn DEF ConnSteps
<1> QED BY <1>2, <1>3

\* The body is refused, or all its checks were passed.
LEMMA ReadBodyKeeps == ASSUME HInv, NEW c \in Conns, ReadBody(c) PROVE HInv'
<1> DEFINE r == req[c]
           body == IF phase = "cut" THEN "broken off" ELSE req[c].body
<1>1. LetThrough(r) /\ UNCHANGED req
  BY DEF ReadBody, HInv, Checked
<1>2. \/ /\ Applying(BodyRefusals(body)) # {}
         /\ Replies(c, FirstOf(BodyRefusals(body)))
      \/ /\ Failed(Checks(r)) # {}
         /\ Replies(c, Says(400, FirstFailed(Checks(r))))
      \/ Failed(Checks(r)) = {} /\ Goto(c, "call") /\ UNCHANGED answer
  BY DEF ReadBody
<1>3. CASE Applying(BodyRefusals(body)) # {} /\ Replies(c, FirstOf(BodyRefusals(body)))
  BY <1>1, <1>3, RefusalSays, RepliesKeep
<1>4. CASE Failed(Checks(r)) # {} /\ Replies(c, Says(400, FirstFailed(Checks(r))))
  <2>1. Says(400, FirstFailed(Checks(r))).says # "not persisted"
    BY <1>4, ChecksName DEF Says
  <2> QED BY <1>1, <1>4, <2>1, RepliesKeep
<1>5. CASE Failed(Checks(r)) = {} /\ Goto(c, "call") /\ UNCHANGED answer
  <2>1. at'[c] = "call"
    BY <1>5 DEF HInv, Goto
  <2>2. Checked(c)' /\ ~Unsaved(c)'
    BY <1>1, <1>5, <2>1 DEF Checked, Unsaved
  <2>3. Others(c)
    BY <1>1, <1>5 DEF HInv, Others
  <2> QED BY <1>5, <2>2, <2>3, OneConn DEF ConnSteps
<1> QED BY <1>2, <1>3, <1>4, <1>5

\* A write without a fault is refused for its row.
LEMMA WrittenSays ==
    ASSUME NEW fits \in BOOLEAN, NEW fault \in BOOLEAN,
           Written(fits, fault).says = "not persisted", ~Written(fits, fault).fault
    PROVE  ~fits
BY DEF Written

\* A row fits or does not.
LEMMA FitIsBoolean == ASSUME NEW body PROVE EntryFits(body) \in BOOLEAN
BY DEF EntryFits

\* A row of a registration is refused for its label alone.
LEMMA WrittenEntry ==
    ASSUME HInv, NEW c \in Conns, NEW fault \in BOOLEAN, at[c] = "call", HasBody(req[c]),
           Resolve(req[c].path).kind # "spawn", UNCHANGED req,
           Replies(c, Written(EntryFits(req[c].fields), fault))
    PROVE  HInv'
<1> DEFINE r == req[c]
           what == Written(EntryFits(r.fields), fault)
<1>1. LetThrough(r) /\ Failed(Checks(r)) = {}
  BY DEF HInv, Checked
<1>2. what.says = "not persisted" /\ ~what.fault => ~EntryFits(r.fields)
  BY WrittenSays, FitIsBoolean, Zenon
<1>3. EntryFits(r.fields) \/ ~Present(r.fields.label)
  BY <1>1, EntriesFit, Zenon
<1> HIDE DEF what
<1>4. Replies(c, what)
  BY DEF what
<1> QED BY <1>2, <1>3, <1>4, RepliesKeep, Zenon

\* A call writes a row that was let through, or writes nothing.
LEMMA CallKeeps == ASSUME HInv, NEW c \in Conns, Call(c) PROVE HInv'
<1> DEFINE r == req[c]
<1>1. at[c] = "call" /\ LetThrough(r) /\ UNCHANGED req
  BY DEF Call, HInv, Checked
<1>2. r.method \in Resolve(r.path).methods
  BY <1>1 DEF LetThrough
<1>3. CASE Register(c)
  <2>1. HasBody(r) /\ Resolve(r.path).kind # "spawn"
    BY <1>3 DEF Register, HasBody
  <2>2. PICK fault \in BOOLEAN : Replies(c, Written(EntryFits(r.fields), fault))
    BY <1>3, Zenon DEF Register
  <2> QED BY <1>1, <2>1, <2>2, WrittenEntry
<1>4. ASSUME NEW id, Update(c, id) PROVE HInv'
  <2>1. Resolve(r.path).kind = "item" /\ r.method = "PUT"
    BY <1>2, <1>4, Routes DEF Update
  <2>2. HasBody(r) /\ Resolve(r.path).kind # "spawn"
    BY <2>1 DEF HasBody
  <2>3. PICK fault \in BOOLEAN : Replies(c, Written(EntryFits(r.fields), fault))
    BY <1>4, Zenon DEF Update
  <2> QED BY <1>1, <2>2, <2>3, WrittenEntry
<1>5. ASSUME NEW id, Delete(c, id) PROVE HInv'
  <2>1. PICK fault \in BOOLEAN : Replies(c, Written(TRUE, fault))
    BY <1>5, Zenon DEF Delete
  <2>2. ~(Written(TRUE, fault).says = "not persisted" /\ ~Written(TRUE, fault).fault)
    BY WrittenSays, Zenon
  <2> QED BY <1>1, <2>1, <2>2, RepliesKeep
<1>6. CASE Spawn(c)
  <2>1. Resolve(r.path).kind = "spawn" /\ HasBody(r)
    BY <1>2, <1>6, Routes DEF Spawn, HasBody
  <2>2. InstanceFits(r.fields)
    BY <1>1, <2>1, InstancesFit DEF HInv, Checked
  <2>3. PICK fault \in BOOLEAN :
           Replies(c, IF ~fault THEN Written(InstanceFits(r.fields), fault)
                      ELSE [status |-> 500, says |-> "not persisted", fault |-> fault])
    BY <1>6, <2>2, Zenon DEF Spawn
  <2>4. CASE fault = TRUE
    <3>1. Replies(c, [status |-> 500, says |-> "not persisted", fault |-> fault])
      BY <2>3, <2>4, Zenon
    <3> QED BY <1>1, <2>4, <3>1, RepliesKeep
  <2>5. CASE fault = FALSE
    <3>1. Replies(c, Written(InstanceFits(r.fields), fault))
      BY <2>3, <2>5, Zenon
    <3>2. InstanceFits(r.fields) \in BOOLEAN
      BY DEF InstanceFits
    <3>3. ~(/\ Written(InstanceFits(r.fields), fault).says = "not persisted"
            /\ ~Written(InstanceFits(r.fields), fault).fault)
      BY <2>2, <3>2, WrittenSays, Zenon
    <3> QED BY <1>1, <3>1, <3>3, RepliesKeep
  <2> QED BY <2>4, <2>5
<1>7. ASSUME NEW what, Replies(c, what), what \in {NotFound, Says(200, "process"), Says(200, "content")}
      PROVE  HInv'
  <2>1. what.says # "not persisted"
    <3>1. /\ NotFound.says = "process not found"
          /\ Says(200, "process").says = "process" /\ Says(200, "content").says = "content"
      BY DEF NotFound, Says
    <3> QED BY <1>7, <3>1
  <2> QED BY <1>1, <1>7, <2>1, RepliesKeep
<1>8. CASE Item(c)
  BY <1>4, <1>5, <1>7, <1>8, Zenon DEF Item
<1>9. CASE Content(c)
  BY <1>7, <1>9, Zenon DEF Content
<1> QED BY <1>3, <1>6, <1>8, <1>9 DEF Call

\* A connection without an answer says nothing of a write.
LEMMA ReplyKeeps == ASSUME HInv, NEW c \in Conns, Reply(c) \/ CloseIdle(c) PROVE HInv'
<1>1. PICK step \in {"closed", "idle"} : Goto(c, step)
  BY DEF Reply, CloseIdle
<1>2. at'[c] = step
  BY <1>1 DEF HInv, Goto
<1>3. Checked(c)' /\ ~Unsaved(c)'
  BY <1>2 DEF Checked, Unsaved
<1>4. Others(c)
  BY DEF Reply, CloseIdle, HInv, Others
<1> QED BY <1>1, <1>3, <1>4, OneConn DEF ConnSteps

\* The actions together; the phases leave requests and answers alone.
LEMMA HInductive == HInv /\ [Next]_vars => HInv'
<1> SUFFICES ASSUME HInv, [Next]_vars PROVE HInv'
  OBVIOUS
<1>1. CASE UNCHANGED connVars
  BY <1>1 DEF connVars, HInv, Checked, GivenIsStorable, Unsaved
<1>2. ASSUME NEW c \in Conns, Receive(c) \/ ReadBody(c) \/ Runs(c) PROVE HInv'
  BY <1>2, ReceiveKeeps, ReadBodyKeeps, DispatchKeeps, CallKeeps, ReplyKeeps DEF Runs
<1> QED
  BY <1>1, <1>2 DEF Next, vars, connVars, StopAccepting, StartWait, BudgetEnds

\* The checks and the schema together: an instance, or a registration with a label
\* of its own, that is accepted is never refused by a constraint behind it,
\* whatever is asked at the same time.
THEOREM AcceptedFits == Spec => []GivenIsStorable
<1>1. HInv => GivenIsStorable
  BY DEF HInv
<1> QED
  BY InitHInv, HInductive, <1>1, PTL DEF Spec
=============================================================================
