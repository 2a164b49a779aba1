------------------------------- MODULE Issuer --------------------------------
(***************************************************************************)
(* internal/issuer: requests for an instance, each served by a goroutine   *)
(* of its own, on a database that all of them share.  A request looks for  *)
(* an instance of the same request key, takes the next number of the day,  *)
(* and inserts under an identifier made of day, number and a random tail,  *)
(* drawing another tail when the identifier is taken.                      *)
(*                                                                         *)
(* Every database call is one step (NextSeq is a transaction); between two *)
(* calls any other request may run.  The tail is printed with a fixed      *)
(* number of digits, so an identifier is the triple it was made of.        *)
(***************************************************************************)
EXTENDS Integers, FiniteSets

CONSTANTS
    Clients,      \* goroutines that serve POST /spawn
    Keys, NoKey,  \* request keys, and a request without one
    Tails, NoTail, \* the random tails, and none drawn yet
    Legacy,       \* identifiers taken before the first request
    Window,       \* dedupWindow
    DayLength,    \* length of a day
    SeqLimit,     \* sequenceLimit
    Retries,      \* collisionRetries
    Faults,       \* database calls may fail
    Overlaps,     \* requests with the same key may overlap
    MaxTime       \* bound: the clock

Days == 0..(MaxTime \div DayLength)
Identifiers == [day : Days, seq : 1..SeqLimit, tail : Tails]

ASSUME IssuerAssumption ==
    /\ NoKey \notin Keys /\ NoTail \notin Tails
    /\ Tails # {}
    /\ Legacy \subseteq Identifiers
    /\ Window \in Nat \ {0} /\ DayLength \in Nat \ {0}
    /\ SeqLimit \in Nat \ {0} /\ Retries \in Nat /\ MaxTime \in Nat
    /\ {Faults, Overlaps} \subseteq BOOLEAN

VARIABLES
    clock,
    lastSeq,   \* spawn_daily_seq
    rows,      \* spawn_instance
    pc,
    req,       \* the request of each goroutine and its local variables
    answer     \* what it answered last

vars == <<clock, lastSeq, rows, pc, req, answer>>

KeyOrNone == Keys \cup {NoKey}
Row == [id : Identifiers, key : KeyOrNone, created : 0..MaxTime]
Request == [key : KeyOrNone, now : 0..MaxTime, seq : 0..SeqLimit,
            tail : Tails \cup {NoTail}, attempt : 0..Retries]
NoRequest == [key |-> NoKey, now |-> 0, seq |-> 0, tail |-> NoTail, attempt |-> 0]
\* kind: a new instance, an existing one, or none (a storage error).
NoAnswer == [kind |-> "none", row |-> {}]
Steps == {"idle", "find", "sequence", "insert", "findAgain", "retry"}

-----------------------------------------------------------------------------

Init ==
    /\ clock = 0
    /\ lastSeq = [d \in Days |-> 0]
    /\ rows = [id : Legacy, key : {NoKey}, created : {0}]
    /\ pc = [t \in Clients |-> "idle"]
    /\ req = [t \in Clients |-> NoRequest]
    /\ answer = [t \in Clients |-> NoAnswer]

Goto(t, step) == pc' = [pc EXCEPT ![t] = step]

Reply(t, kind, found) ==
    /\ answer' = [answer EXCEPT ![t] = [kind |-> kind, row |-> found]]
    /\ req' = [req EXCEPT ![t] = NoRequest]
    /\ Goto(t, "idle")

\* Any database call, and the draw of a tail, may fail the request.
Fail(t) == Faults /\ Reply(t, "none", {})

FirstCall(key) == IF key = NoKey THEN "sequence" ELSE "find"

Begin(t, k) ==
    /\ pc[t] = "idle"
    /\ Overlaps \/ k = NoKey \/ \A u \in Clients : pc[u] # "idle" => req[u].key # k
    /\ req' = [req EXCEPT ![t].key = k, ![t].now = clock]
    /\ answer' = [answer EXCEPT ![t] = NoAnswer]
    /\ Goto(t, FirstCall(k))
    /\ UNCHANGED <<clock, lastSeq, rows>>

BugStale(created, now) == created > now - Window + 1
Fresh(created, now) == created > now - Window

Matches(t) == {r \in rows : r.key = req[t].key /\ Fresh(r.created, req[t].now)}
Latest(S) == {r \in S : \A s \in S : s.created <= r.created}

\* FindActiveByKey: the most recent instance of the key inside the window.
FindOr(t, step) ==
    \/ \E r \in Latest(Matches(t)) : Reply(t, "existing", {r})
    \/ /\ Matches(t) = {}
       /\ Goto(t, step)
       /\ UNCHANGED <<req, answer>>

Find(t) ==
    /\ \/ pc[t] = "find" /\ FindOr(t, "sequence")
       \/ pc[t] = "findAgain" /\ FindOr(t, "retry")
       \/ pc[t] \in {"find", "findAgain"} /\ Fail(t)
    /\ UNCHANGED <<clock, lastSeq, rows>>

BugSequence(n) == 1
\* The counter grows without bound; past the limit all values are alike.
Sequence(n) == IF n > SeqLimit THEN n ELSE n + 1

\* The limit is looked at after the number was taken.
NextSeq(t) ==
    LET day == req[t].now \div DayLength
        n == Sequence(lastSeq[day])
    IN  /\ pc[t] = "sequence"
        /\ \/ /\ lastSeq' = [lastSeq EXCEPT ![day] = n]
              /\ \/ /\ n <= SeqLimit
                    /\ \E x \in Tails : req' = [req EXCEPT ![t].seq = n, ![t].tail = x]
                    /\ Goto(t, "insert")
                    /\ UNCHANGED answer
                 \/ /\ n > SeqLimit \/ Faults
                    /\ Reply(t, "none", {})
           \/ /\ Fail(t)
              /\ UNCHANGED lastSeq
        /\ UNCHANGED <<clock, rows>>

Candidate(t) ==
    [id |-> [day |-> req[t].now \div DayLength, seq |-> req[t].seq, tail |-> req[t].tail],
     key |-> req[t].key, created |-> req[t].now]

\* The primary key of spawn_instance.
Taken(r) == \E s \in rows : s.id = r.id

Insert(t) ==
    /\ pc[t] = "insert"
    /\ \/ /\ ~Taken(Candidate(t))
          /\ rows' = rows \cup {Candidate(t)}
          /\ Reply(t, "new", {Candidate(t)})
       \/ /\ Taken(Candidate(t))
          /\ Goto(t, IF req[t].key = NoKey THEN "retry" ELSE "findAgain")
          /\ UNCHANGED <<rows, req, answer>>
       \/ /\ Fail(t)
          /\ UNCHANGED rows
    /\ UNCHANGED <<clock, lastSeq>>

BugMayRetry(attempt) == TRUE
BugOneMore(attempt) == attempt <= Retries
MayRetry(attempt) == attempt < Retries
\* The attempt counter; past the limit all values are alike.
NextAttempt(attempt) == IF attempt > Retries THEN attempt ELSE attempt + 1

\* A collision: another tail for the same number, a bounded number of times.
Retry(t) ==
    /\ pc[t] = "retry"
    /\ \/ /\ MayRetry(req[t].attempt)
          /\ \E x \in Tails :
                req' = [req EXCEPT ![t].tail = x, ![t].attempt = NextAttempt(@)]
          /\ Goto(t, "insert")
          /\ UNCHANGED answer
       \/ /\ ~MayRetry(req[t].attempt) \/ Faults
          /\ Reply(t, "none", {})
    /\ UNCHANGED <<clock, lastSeq, rows>>

Tick ==
    /\ clock < MaxTime
    /\ clock' = clock + 1
    /\ UNCHANGED <<lastSeq, rows, pc, req, answer>>

Issue(t) == Find(t) \/ NextSeq(t) \/ Insert(t) \/ Retry(t)

Next ==
    \/ \E t \in Clients, k \in KeyOrNone : Begin(t, k)
    \/ \E t \in Clients : Issue(t)
    \/ Tick

\* A goroutine that serves a request gets to run; nobody has to send one.
Spec == Init /\ [][Next]_vars /\ \A t \in Clients : WF_vars(Issue(t))

-----------------------------------------------------------------------------
(* Properties.                                                             *)

\* Every variable has its type.
TypeOK ==
    /\ clock \in 0..MaxTime
    /\ lastSeq \in [Days -> 0..SeqLimit + 1]
    /\ rows \subseteq Row
    /\ pc \in [Clients -> Steps]
    /\ req \in [Clients -> Request]
    /\ answer \in [Clients -> {NoAnswer} \cup
                      [kind : {"new", "existing"}, row : {{r} : r \in rows}]]

Made == {r \in rows : r.id \notin Legacy}

\* The number of the day alone tells instances apart: neither two instances
\* this service made nor an instance and a request still at work share one.
NumbersAreUnique ==
    /\ \A r, s \in Made : r.id.day = s.id.day /\ r.id.seq = s.id.seq => r = s
    /\ \A t \in Clients, r \in Made :
          pc[t] \in {"insert", "findAgain", "retry"} =>
              ~(r.id.day = req[t].now \div DayLength /\ r.id.seq = req[t].seq)

\* Two instances of one key are at least the deduplication window apart.
OnePerWindow ==
    \A r, s \in rows :
        r.key # NoKey /\ r.key = s.key /\ r # s =>
            r.created - s.created >= Window \/ s.created - r.created >= Window

\* Every request is answered, even when every identifier it tries is taken.
RequestsAnswered == \A t \in Clients : (pc[t] # "idle") ~> (pc[t] = "idle")
=============================================================================
