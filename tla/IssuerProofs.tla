---------------------------- MODULE IssuerProofs -----------------------------
(***************************************************************************)
(* Theorems about Issuer, for every set of clients, keys and tails, every  *)
(* window and length of the day, and whatever fails.                       *)
(***************************************************************************)
EXTENDS Issuer, TLAPS

-----------------------------------------------------------------------------
(* The inductive invariant.                                                *)

Day(t) == req[t].now \div DayLength
AtWork(t) == pc[t] \in {"insert", "findAgain", "retry"}

\* A request at work has a number of its day, taken from the sequence.
TakenInv ==
    /\ \A t \in Clients : AtWork(t) =>
          /\ req[t].seq \in 1..SeqLimit /\ req[t].seq <= lastSeq[Day(t)]
          /\ req[t].tail \in Tails
    /\ \A r \in Made : r.id.seq <= lastSeq[r.id.day]

\* No two requests at work have the same number of the same day.
ApartInv ==
    \A t, u \in Clients :
        AtWork(t) /\ AtWork(u) /\ t # u /\ Day(t) = Day(u) => req[t].seq # req[u].seq

\* When requests of one key do not overlap, one that went past its lookup is
\* the only one of its key, and what it looked up still stands.
AloneInv ==
    ~Overlaps =>
        /\ \A t, u \in Clients :
              pc[t] # "idle" /\ pc[u] # "idle" /\ t # u =>
                  req[t].key = NoKey \/ req[t].key # req[u].key
        /\ \A t \in Clients :
              pc[t] \in {"sequence"} \cup {"insert", "findAgain", "retry"} =>
                  req[t].key = NoKey \/ Matches(t) = {}
        /\ OnePerWindow

NumbersInv == TakenInv /\ ApartInv /\ NumbersAreUnique
IInv == TypeOK /\ NumbersInv /\ AloneInv

-----------------------------------------------------------------------------
(* Types.                                                                  *)

\* Multiplication by a natural number keeps an order.
LEMMA ProductMonotone ==
    ASSUME NEW m \in Nat, NEW a \in Int, NEW b \in Int, a <= b
    PROVE  m * a <= m * b
<1>1. m * (b - a) >= 0
  <2>1. b - a \in Nat
    OBVIOUS
  <2>2. \A k \in Nat : m * k >= 0
    OBVIOUS
  <2> QED BY <2>1, <2>2
<1>2. m * b = m * a + m * (b - a)
  OBVIOUS
<1>3. m * a \in Int /\ m * b \in Int /\ m * (b - a) \in Int
  OBVIOUS
<1> QED BY <1>1, <1>2, <1>3

\* A day is the quotient of a time by the length of days.
LEMMA DayOfTime ==
    ASSUME NEW n \in 0..MaxTime
    PROVE  n \div DayLength \in Days
<1> DEFINE d == n \div DayLength
           last == MaxTime \div DayLength
<1>1. /\ d \in Int /\ DayLength * d <= n /\ n < DayLength * (d + 1)
      /\ last \in Int /\ DayLength * last <= MaxTime /\ MaxTime < DayLength * (last + 1)
      /\ DayLength \in Nat \ {0} /\ n \in Nat /\ n <= MaxTime
  BY IssuerAssumption
<1> HIDE DEF d, last
<1>2. d >= 0
  BY <1>1
<1>3. d <= last
  <2> SUFFICES ASSUME last + 1 <= d PROVE FALSE
    BY <1>1
  <2>1. DayLength * (last + 1) <= DayLength * d
    BY <1>1, ProductMonotone
  <2>2. DayLength * (last + 1) \in Int /\ DayLength * d \in Int /\ MaxTime \in Nat
    BY <1>1, IssuerAssumption
  <2> QED BY <1>1, <2>1, <2>2
<1> QED BY <1>1, <1>2, <1>3 DEF Days, d, last

\* The record of a request that begins has its type.
LEMMA RequestTyped ==
    ASSUME TypeOK, NEW t \in Clients
    PROVE  /\ req[t].key \in KeyOrNone /\ req[t].now \in 0..MaxTime
           /\ req[t].seq \in 0..SeqLimit /\ req[t].tail \in Tails \cup {NoTail}
           /\ req[t].attempt \in 0..Retries /\ Day(t) \in Days
BY DayOfTime DEF TypeOK, Request, Day

\* So has the identifier a request would insert.
LEMMA CandidateTyped ==
    ASSUME TypeOK, TakenInv, NEW t \in Clients, AtWork(t)
    PROVE  /\ Candidate(t) \in Row
           /\ Candidate(t).id.day = Day(t) /\ Candidate(t).id.seq = req[t].seq
           /\ Candidate(t).key = req[t].key /\ Candidate(t).created = req[t].now
BY RequestTyped DEF TakenInv, Candidate, Row, Identifiers, Day

\* And the record of an idle client.
LEMMA NoRequestTyped == NoRequest \in Request
BY IssuerAssumption DEF NoRequest, Request, KeyOrNone

-----------------------------------------------------------------------------
(* The steps.                                                              *)

\* The tables hold what an earlier server left; nobody is at work.
LEMMA InitInv == Init => IInv
<1> SUFFICES ASSUME Init PROVE IInv
  OBVIOUS
<1>1. TypeOK
  <2>1. rows \subseteq Row /\ 0 \in 0..MaxTime
    BY IssuerAssumption DEF Init, Row, KeyOrNone
  <2>2. lastSeq \in [Days -> 0..SeqLimit + 1]
    BY IssuerAssumption DEF Init
  <2> QED BY <2>1, <2>2, NoRequestTyped DEF Init, TypeOK, Steps
<1>2. Made = {}
  BY DEF Init, Made
<1>3. \A t \in Clients : pc[t] = "idle" /\ ~AtWork(t)
  BY DEF Init, AtWork
<1>4. NumbersInv
  BY <1>2, <1>3 DEF NumbersInv, TakenInv, ApartInv, NumbersAreUnique, AtWork
<1>5. OnePerWindow
  BY DEF Init, OnePerWindow
<1> QED BY <1>1, <1>3, <1>4, <1>5 DEF IInv, AloneInv

\* The numbers of a day only go up.
Grows ==
    /\ lastSeq' \in [Days -> 0..SeqLimit + 1]
    /\ \A d \in Days : lastSeq[d] <= lastSeq'[d]

\* A sequence that is not touched has not gone back.
LEMMA Unchanged == TypeOK /\ UNCHANGED lastSeq => Grows
BY IssuerAssumption DEF TypeOK, Grows

\* A request ends, or goes on with the number it has.
LEMMA NumbersKept ==
    ASSUME IInv, Grows, UNCHANGED rows, NEW t \in Clients,
           \A u \in Clients \ {t} : pc'[u] = pc[u] /\ req'[u] = req[u],
           AtWork(t)' => /\ AtWork(t) /\ req'[t].now = req[t].now
                         /\ req'[t].seq = req[t].seq /\ req'[t].tail \in Tails
    PROVE  NumbersInv'
<1>1. Made' = Made
  BY DEF Made
<1>2. \A u \in Clients : AtWork(u)' =>
          /\ AtWork(u) /\ Day(u)' = Day(u) /\ req'[u].seq = req[u].seq
          /\ req'[u].tail \in Tails
  BY DEF AtWork, Day, IInv, NumbersInv, TakenInv
<1>3. TakenInv'
  <2>1. \A u \in Clients : AtWork(u)' => req'[u].seq \in 1..SeqLimit /\ req'[u].seq <= lastSeq'[Day(u)']
    <3> SUFFICES ASSUME NEW u \in Clients, AtWork(u)'
                 PROVE  req'[u].seq \in 1..SeqLimit /\ req'[u].seq <= lastSeq'[Day(u)']
      OBVIOUS
    <3>1. req[u].seq \in 1..SeqLimit /\ req[u].seq <= lastSeq[Day(u)]
      BY <1>2 DEF IInv, NumbersInv, TakenInv
    <3>2. Day(u) \in Days /\ lastSeq[Day(u)] \in Int /\ lastSeq'[Day(u)] \in Int
      BY RequestTyped, IssuerAssumption DEF IInv, TypeOK, Grows
    <3> QED BY <1>2, <3>1, <3>2, IssuerAssumption DEF Grows
  <2>2. \A r \in Made : r.id.seq <= lastSeq'[r.id.day]
    <3> SUFFICES ASSUME NEW r \in Made PROVE r.id.seq <= lastSeq'[r.id.day]
      OBVIOUS
    <3>1. r.id.day \in Days /\ r.id.seq \in Int /\ r.id.seq <= lastSeq[r.id.day]
      BY IssuerAssumption DEF IInv, NumbersInv, TakenInv, TypeOK, Made, Row, Identifiers
    <3>2. lastSeq[r.id.day] \in Int /\ lastSeq'[r.id.day] \in Int
      BY <3>1, IssuerAssumption DEF IInv, TypeOK, Grows
    <3> QED BY <3>1, <3>2 DEF Grows
  <2> QED BY <1>1, <1>2, <2>1, <2>2 DEF TakenInv
<1>4. ApartInv'
  BY <1>2 DEF IInv, NumbersInv, ApartInv
<1>5. NumbersAreUnique'
  BY <1>1, <1>2 DEF IInv, NumbersInv, NumbersAreUnique, AtWork, Day
<1> QED BY <1>3, <1>4, <1>5 DEF NumbersInv

\* The same of the lookups.
LEMMA AloneKept ==
    ASSUME IInv, UNCHANGED rows, NEW t \in Clients,
           \A u \in Clients \ {t} : pc'[u] = pc[u] /\ req'[u] = req[u],
           pc'[t] # "idle" =>
               /\ pc[t] # "idle" /\ req'[t].key = req[t].key /\ req'[t].now = req[t].now
               /\ \/ pc'[t] \in {"find", "findAgain"} /\ pc[t] = pc'[t]
                  \/ pc[t] \in {"sequence", "insert", "findAgain", "retry"}
                  \/ req[t].key = NoKey \/ Matches(t) = {}
    PROVE  AloneInv'
<1>1. \A u \in Clients : pc'[u] # "idle" =>
          pc[u] # "idle" /\ req'[u].key = req[u].key /\ Matches(u)' = Matches(u)
  BY DEF Matches, Fresh
<1>2. OnePerWindow => OnePerWindow'
  BY DEF OnePerWindow
<1>3. ASSUME ~Overlaps, NEW u \in Clients,
             pc'[u] \in {"sequence"} \cup {"insert", "findAgain", "retry"}
      PROVE  req'[u].key = NoKey \/ Matches(u)' = {}
  BY <1>1, <1>3 DEF IInv, AloneInv
<1> QED BY <1>1, <1>2, <1>3 DEF IInv, AloneInv

\* A request that begins has no number yet.
LEMMA BeginInv ==
    ASSUME IInv, NEW t \in Clients, NEW k \in KeyOrNone, Begin(t, k) PROVE IInv'
<1>1. /\ pc[t] = "idle" /\ pc' = [pc EXCEPT ![t] = FirstCall(k)]
      /\ req' = [req EXCEPT ![t].key = k, ![t].now = clock]
      /\ answer' = [answer EXCEPT ![t] = NoAnswer]
      /\ UNCHANGED <<clock, lastSeq, rows>>
      /\ Overlaps \/ k = NoKey \/ \A u \in Clients : pc[u] # "idle" => req[u].key # k
  BY DEF Begin, Goto
<1>2. TypeOK'
  <2>1. /\ req \in [Clients -> Request] /\ req'[t] = [req[t] EXCEPT !.key = k, !.now = clock]
        /\ req' = [req EXCEPT ![t] = req'[t]]
    BY <1>1 DEF IInv, TypeOK
  <2>2. req'[t] \in Request
    BY <2>1 DEF IInv, TypeOK, Request
  <2>3. req' \in [Clients -> Request]
    BY <2>1, <2>2
  <2>4. pc' \in [Clients -> Steps]
    BY <1>1 DEF IInv, TypeOK, Steps, FirstCall
  <2> QED BY <1>1, <2>3, <2>4 DEF IInv, TypeOK
<1>3. FirstCall(k) \in {"sequence", "find"} /\ (FirstCall(k) = "sequence" => k = NoKey)
  BY DEF FirstCall
<1>4. NumbersInv'
  BY <1>1, <1>3, NumbersKept, Unchanged DEF AtWork, IInv, TypeOK
<1>5. AloneInv'
  <2>1. \A u \in Clients \ {t} : pc'[u] = pc[u] /\ req'[u] = req[u] /\ Matches(u)' = Matches(u)
    BY <1>1 DEF Matches, Fresh, IInv, TypeOK
  <2>2. pc'[t] = FirstCall(k) /\ req'[t].key = k
    BY <1>1 DEF IInv, TypeOK, Request
  <2>3. OnePerWindow => OnePerWindow'
    BY <1>1 DEF OnePerWindow
  <2>4. ASSUME ~Overlaps, NEW u \in Clients \ {t}, pc'[u] # "idle"
        PROVE  req'[t].key = NoKey \/ req'[u].key # req'[t].key
    BY <1>1, <2>1, <2>2, <2>4
  <2>5. ~Overlaps => \A u, v \in Clients :
              pc'[u] # "idle" /\ pc'[v] # "idle" /\ u # v =>
                  req'[u].key = NoKey \/ req'[u].key # req'[v].key
    BY <2>1, <2>4 DEF IInv, AloneInv
  <2>6. ~Overlaps => \A u \in Clients :
              pc'[u] \in {"sequence"} \cup {"insert", "findAgain", "retry"} =>
                  req'[u].key = NoKey \/ Matches(u)' = {}
    BY <1>3, <2>1, <2>2 DEF IInv, AloneInv
  <2> QED BY <2>3, <2>5, <2>6 DEF IInv, AloneInv
<1> QED BY <1>2, <1>4, <1>5 DEF IInv

\* The two shapes of a step of a request that leaves numbers and rows alone.
LEMMA ReplyInv ==
    ASSUME IInv, NEW t \in Clients, NEW kind, NEW found, Reply(t, kind, found),
           Grows, UNCHANGED <<clock, rows>>,
           \/ kind = "none" /\ found = {}
           \/ kind \in {"new", "existing"} /\ \E r \in rows : found = {r}
    PROVE  IInv'
<1>1. /\ pc' = [pc EXCEPT ![t] = "idle"] /\ req' = [req EXCEPT ![t] = NoRequest]
      /\ answer' = [answer EXCEPT ![t] = [kind |-> kind, row |-> found]]
  BY DEF Reply, Goto
<1>2. TypeOK'
  <2>1. [kind |-> kind, row |-> found] \in
            {NoAnswer} \cup [kind : {"new", "existing"}, row : {{r} : r \in rows}]
    BY DEF NoAnswer
  <2> QED BY <1>1, <2>1, NoRequestTyped DEF IInv, TypeOK, Steps, Grows
<1>3. NumbersInv'
  BY <1>1, NumbersKept DEF AtWork, IInv, TypeOK
<1>4. AloneInv'
  BY <1>1, AloneKept DEF IInv, TypeOK
<1> QED BY <1>2, <1>3, <1>4 DEF IInv

\* A request that moves on with what it has keeps the invariant.
LEMMA MoveInv ==
    ASSUME IInv, NEW t \in Clients, NEW step \in Steps, NEW q \in Request,
           pc[t] # "idle", pc' = [pc EXCEPT ![t] = step], req' = [req EXCEPT ![t] = q],
           UNCHANGED <<clock, lastSeq, rows, answer>>,
           q.key = req[t].key, q.now = req[t].now,
           step \in {"insert", "findAgain", "retry"} =>
               AtWork(t) /\ q.seq = req[t].seq /\ q.tail \in Tails,
           AtWork(t) \/ Matches(t) = {}
    PROVE  IInv'
<1>1. TypeOK'
  BY DEF IInv, TypeOK
<1>2. pc'[t] = step /\ req'[t] = q
  BY DEF IInv, TypeOK
<1>3. NumbersInv'
  BY <1>2, NumbersKept, Unchanged DEF AtWork, IInv, TypeOK
<1>4. AloneInv'
  BY <1>2, AloneKept DEF AtWork, IInv, TypeOK
<1> QED BY <1>1, <1>3, <1>4 DEF IInv

\* A failed call ends the request without an instance, perhaps with a number lost.
LEMMA FailInv ==
    ASSUME IInv, NEW t \in Clients, Fail(t), Grows, UNCHANGED <<clock, rows>>
    PROVE  IInv'
BY ReplyInv DEF Fail

\* A lookup goes on to the sequence only if it found nothing.
LEMMA FindInv == ASSUME IInv, NEW t \in Clients, Find(t) PROVE IInv'
<1>1. pc[t] \in {"find", "findAgain"} /\ UNCHANGED <<clock, lastSeq, rows>> /\ Grows
  BY Unchanged DEF Find, IInv
<1>2. CASE Fail(t)
  BY <1>1, <1>2, FailInv
<1>3. CASE \E r \in Latest(Matches(t)) : Reply(t, "existing", {r})
  <2>1. PICK r \in rows : Reply(t, "existing", {r})
    BY <1>3 DEF Latest, Matches
  <2> QED BY <1>1, <2>1, ReplyInv
<1>4. CASE /\ Matches(t) = {} /\ UNCHANGED <<req, answer>>
           /\ \/ pc[t] = "find" /\ Goto(t, "sequence")
              \/ pc[t] = "findAgain" /\ Goto(t, "retry")
  <2>1. PICK step \in {"sequence", "retry"} :
            pc' = [pc EXCEPT ![t] = step] /\ (step = "retry" => pc[t] = "findAgain")
    BY <1>4 DEF Goto
  <2>2. req' = [req EXCEPT ![t] = req[t]] /\ req[t] \in Request
    BY <1>4 DEF IInv, TypeOK
  <2>3. AtWork(t) => req[t].tail \in Tails
    BY DEF IInv, NumbersInv, TakenInv
  <2>4. step = "retry" => AtWork(t)
    BY <2>1 DEF AtWork
  <2> QED BY <1>1, <1>4, <2>1, <2>2, <2>3, <2>4, MoveInv DEF Steps
<1> QED BY <1>2, <1>3, <1>4 DEF Find, FindOr

\* A request that tries again does so with the number it has.
LEMMA RetryInv == ASSUME IInv, NEW t \in Clients, Retry(t) PROVE IInv'
<1>1. /\ pc[t] = "retry" /\ AtWork(t) /\ UNCHANGED <<clock, lastSeq, rows>> /\ Grows
  BY Unchanged DEF Retry, AtWork, IInv
<1>2. CASE Reply(t, "none", {})
  BY <1>1, <1>2, ReplyInv
<1>3. CASE /\ MayRetry(req[t].attempt) /\ UNCHANGED answer /\ Goto(t, "insert")
           /\ \E x \in Tails :
                 req' = [req EXCEPT ![t].tail = x, ![t].attempt = NextAttempt(@)]
  <2>1. PICK x \in Tails : req' = [req EXCEPT ![t].tail = x, ![t].attempt = NextAttempt(@)]
    BY <1>3
  <2> DEFINE q == [req[t] EXCEPT !.tail = x, !.attempt = NextAttempt(@)]
  <2>2. req' = [req EXCEPT ![t] = q] /\ req[t] \in Request
    BY <2>1 DEF IInv, TypeOK
  <2>3. NextAttempt(req[t].attempt) \in 0..Retries
    BY <1>3, <2>2, IssuerAssumption DEF NextAttempt, MayRetry, Request
  <2>4. q \in Request /\ q.key = req[t].key /\ q.now = req[t].now /\ q.seq = req[t].seq
        /\ q.tail \in Tails
    BY <2>2, <2>3 DEF Request
  <2> HIDE DEF q
  <2> QED BY <1>1, <1>3, <2>2, <2>4, MoveInv DEF Goto, Steps
<1> QED BY <1>2, <1>3 DEF Retry

\* NextSeq hands out a number nobody has.
LEMMA NextSeqInv == ASSUME IInv, NEW t \in Clients, NextSeq(t) PROVE IInv'
<1> DEFINE day == Day(t)
           n == Sequence(lastSeq[day])
<1>1. /\ pc[t] = "sequence" /\ UNCHANGED <<clock, rows>>
      /\ day \in Days /\ lastSeq[day] \in 0..SeqLimit + 1 /\ SeqLimit \in Nat
  BY RequestTyped, IssuerAssumption DEF NextSeq, IInv, TypeOK
<1>2. /\ n \in 0..SeqLimit + 1 /\ lastSeq[day] <= n
      /\ n <= SeqLimit => lastSeq[day] < n
  BY <1>1 DEF Sequence
<1>3. CASE Fail(t) /\ UNCHANGED lastSeq
  BY <1>1, <1>3, FailInv, Unchanged DEF IInv
<1>4. ASSUME lastSeq' = [lastSeq EXCEPT ![day] = n] PROVE Grows
  <2> HIDE DEF n, day
  <2>1. lastSeq \in [Days -> 0..SeqLimit + 1]
    BY DEF IInv, TypeOK
  <2>2. \A d \in Days : lastSeq[d] <= lastSeq[d]
    BY <1>1, <2>1
  <2> QED BY <1>1, <1>2, <1>4, <2>1, <2>2 DEF Grows
<1>5. CASE lastSeq' = [lastSeq EXCEPT ![day] = n] /\ Reply(t, "none", {})
  BY <1>1, <1>4, <1>5, ReplyInv
<1>6. CASE /\ lastSeq' = [lastSeq EXCEPT ![day] = n] /\ n <= SeqLimit
           /\ \E x \in Tails : req' = [req EXCEPT ![t].seq = n, ![t].tail = x]
           /\ Goto(t, "insert") /\ UNCHANGED answer
  <2>1. PICK x \in Tails : req' = [req EXCEPT ![t].seq = n, ![t].tail = x]
    BY <1>6
  <2>2. /\ pc' = [pc EXCEPT ![t] = "insert"] /\ req[t] \in Request
        /\ n \in 1..SeqLimit
    BY <1>1, <1>2, <1>6 DEF Goto, IInv, TypeOK
  <2>3. /\ req'[t].seq = n /\ req'[t].tail = x /\ req'[t].key = req[t].key
        /\ req'[t].now = req[t].now /\ req'[t] \in Request
        /\ \A u \in Clients \ {t} : req'[u] = req[u]
    <3> DEFINE q == [req[t] EXCEPT !.seq = n, !.tail = x]
    <3> HIDE DEF n
    <3>1. req' = [req EXCEPT ![t] = q] /\ req \in [Clients -> Request]
      BY <2>1 DEF IInv, TypeOK
    <3>2. /\ q \in Request /\ q.seq = n /\ q.tail = x
          /\ q.key = req[t].key /\ q.now = req[t].now
      <4>1. req[t] \in Request /\ n \in 0..SeqLimit /\ x \in Tails \cup {NoTail}
        BY <1>1, <2>1, <2>2
      <4> QED BY <4>1 DEF Request
    <3> HIDE DEF q
    <3> QED BY <3>1, <3>2
  <2>4. TypeOK'
    <3>1. req' \in [Clients -> Request]
      BY <2>1, <2>3 DEF IInv, TypeOK
    <3> QED BY <1>1, <1>4, <1>6, <2>2, <3>1 DEF IInv, TypeOK, Steps, Grows
  <2>5. NumbersInv'
    <3> HIDE DEF n
    <3>1. /\ Made' = Made /\ Day(t)' = day /\ lastSeq'[day] = n /\ AtWork(t)'
          /\ \A d \in Days \ {day} : lastSeq'[d] = lastSeq[d]
      BY <1>1, <1>6, <2>2, <2>3 DEF Made, Day, AtWork, IInv, TypeOK
    <3>2. \A u \in Clients \ {t} : /\ AtWork(u)' = AtWork(u) /\ Day(u)' = Day(u)
                                   /\ req'[u] = req[u]
      BY <2>2, <2>3 DEF AtWork, Day, IInv, TypeOK
    <3>3. \A u \in Clients \ {t} : AtWork(u) =>
              /\ req[u].seq \in 1..SeqLimit /\ req[u].tail \in Tails
              /\ req[u].seq <= lastSeq'[Day(u)]
              /\ Day(u) = day => req[u].seq < n
      <4> SUFFICES ASSUME NEW u \in Clients \ {t}, AtWork(u)
                   PROVE  /\ req[u].seq \in 1..SeqLimit /\ req[u].tail \in Tails
                          /\ req[u].seq <= lastSeq'[Day(u)]
                          /\ Day(u) = day => req[u].seq < n
        OBVIOUS
      <4>1. /\ req[u].seq \in 1..SeqLimit /\ req[u].tail \in Tails
            /\ req[u].seq <= lastSeq[Day(u)]
        BY DEF IInv, NumbersInv, TakenInv
      <4>2. Day(u) \in Days
        BY RequestTyped DEF IInv
      <4> QED BY <1>1, <1>2, <1>6, <2>2, <3>1, <4>1, <4>2
    <3>4. \A r \in Made : r.id.seq <= lastSeq'[r.id.day] /\ (r.id.day = day => r.id.seq < n)
      <4> SUFFICES ASSUME NEW r \in Made
                   PROVE  r.id.seq <= lastSeq'[r.id.day] /\ (r.id.day = day => r.id.seq < n)
        OBVIOUS
      <4>1. /\ r.id.day \in Days /\ r.id.seq \in 1..SeqLimit
            /\ r.id.seq <= lastSeq[r.id.day]
        BY DEF IInv, NumbersInv, TakenInv, TypeOK, Made, Row, Identifiers
      <4> QED BY <1>1, <1>2, <1>6, <2>2, <3>1, <4>1
    <3>5. TakenInv'
      <4>1. n <= n
        BY <2>2
      <4> QED BY <2>2, <2>3, <3>1, <3>2, <3>3, <3>4, <4>1 DEF TakenInv
    <3>6. ApartInv'
      <4>1. \A u \in Clients \ {t} : AtWork(u)' /\ Day(u)' = day => req'[u].seq # n
        BY <1>1, <2>2, <3>2, <3>3
      <4> QED BY <2>3, <3>1, <3>2, <4>1 DEF ApartInv, IInv, NumbersInv
    <3>7. NumbersAreUnique'
      <4>1. \A r \in Made : ~(r.id.day = Day(t)' /\ r.id.seq = req'[t].seq)
        BY <2>2, <2>3, <3>1, <3>4
      <4>2. \A u \in Clients, r \in Made : AtWork(u)' =>
                ~(r.id.day = Day(u)' /\ r.id.seq = req'[u].seq)
        BY <3>2, <4>1 DEF IInv, NumbersInv, NumbersAreUnique, AtWork, Day
      <4> QED BY <3>1, <4>2 DEF IInv, NumbersInv, NumbersAreUnique, AtWork, Day
    <3> QED BY <3>5, <3>6, <3>7 DEF NumbersInv
  <2>6. AloneInv'
    BY <1>1, <2>2, <2>3, AloneKept DEF IInv, TypeOK
  <2> QED BY <2>4, <2>5, <2>6 DEF IInv
<1> QED BY <1>3, <1>5, <1>6 DEF NextSeq, Fail, Day

\* An insert makes an instance under a number nobody else has.
LEMMA InsertInv == ASSUME IInv, NEW t \in Clients, Insert(t) PROVE IInv'
<1> DEFINE row == Candidate(t)
<1>1. /\ pc[t] = "insert" /\ AtWork(t) /\ UNCHANGED <<clock, lastSeq>> /\ Grows
  BY Unchanged DEF Insert, AtWork, IInv
<1>2. CASE Fail(t) /\ UNCHANGED rows
  BY <1>1, <1>2, FailInv
<1>3. CASE /\ UNCHANGED <<rows, req, answer>>
           /\ \E step \in {"retry", "findAgain"} : Goto(t, step)
  <2>1. PICK step \in {"retry", "findAgain"} : pc' = [pc EXCEPT ![t] = step]
    BY <1>3 DEF Goto
  <2>2. req' = [req EXCEPT ![t] = req[t]] /\ req[t] \in Request /\ req[t].tail \in Tails
    BY <1>1, <1>3 DEF IInv, TypeOK, NumbersInv, TakenInv
  <2> QED BY <1>1, <1>3, <2>1, <2>2, MoveInv DEF Steps
<1>4. CASE ~Taken(row) /\ rows' = rows \cup {row} /\ Reply(t, "new", {row})
  <2>1. /\ row \in Row /\ row.id.day = Day(t) /\ row.id.seq = req[t].seq
        /\ row.key = req[t].key /\ row.created = req[t].now
    BY <1>1, CandidateTyped DEF IInv, NumbersInv
  <2> HIDE DEF row
  <2>2. /\ pc' = [pc EXCEPT ![t] = "idle"] /\ req' = [req EXCEPT ![t] = NoRequest]
        /\ answer' = [answer EXCEPT ![t] = [kind |-> "new", row |-> {row}]]
    BY <1>4 DEF Reply, Goto
  <2>3. /\ pc'[t] = "idle" /\ ~AtWork(t)'
        /\ \A u \in Clients \ {t} : /\ pc'[u] = pc[u] /\ req'[u] = req[u]
                                    /\ AtWork(u)' = AtWork(u) /\ Day(u)' = Day(u)
    BY <2>2 DEF IInv, TypeOK, AtWork, Day
  <2>4. TypeOK'
    <3>1. rows' \subseteq Row /\ rows \subseteq rows' /\ row \in rows'
      BY <1>4, <2>1 DEF IInv, TypeOK
    <3>2. answer' \in [Clients -> {NoAnswer} \cup
                         [kind : {"new", "existing"}, row : {{r} : r \in rows'}]]
      BY <2>2, <3>1 DEF IInv, TypeOK
    <3>3. pc' \in [Clients -> Steps] /\ req' \in [Clients -> Request]
      BY <2>2, NoRequestTyped DEF IInv, TypeOK, Steps
    <3> QED BY <1>1, <3>1, <3>2, <3>3 DEF IInv, TypeOK
  <2>5. Made' \subseteq Made \cup {row}
    BY <1>4 DEF Made
  <2>6. TakenInv'
    <3>1. \A r \in Made' : r.id.seq <= lastSeq[r.id.day]
      BY <1>1, <2>1, <2>5 DEF IInv, NumbersInv, TakenInv
    <3> QED BY <1>1, <2>3, <3>1 DEF IInv, NumbersInv, TakenInv
  <2>7. ApartInv'
    BY <2>3 DEF IInv, NumbersInv, ApartInv
  <2>8. NumbersAreUnique'
    <3>1. \A r \in Made : ~(r.id.day = row.id.day /\ r.id.seq = row.id.seq)
      BY <1>1, <2>1 DEF IInv, NumbersInv, NumbersAreUnique, AtWork, Day
    <3>2. \A r, s \in Made' : r.id.day = s.id.day /\ r.id.seq = s.id.seq => r = s
      BY <2>5, <3>1 DEF IInv, NumbersInv, NumbersAreUnique
    <3>3. \A u \in Clients \ {t} : AtWork(u) =>
              ~(row.id.day = Day(u) /\ row.id.seq = req[u].seq)
      BY <1>1, <2>1 DEF IInv, NumbersInv, ApartInv
    <3>4. \A u \in Clients, r \in Made' : AtWork(u)' =>
              ~(r.id.day = Day(u)' /\ r.id.seq = req'[u].seq)
      BY <2>3, <2>5, <3>3 DEF IInv, NumbersInv, NumbersAreUnique, AtWork, Day
    <3> QED BY <3>2, <3>4 DEF NumbersAreUnique, AtWork, Day
  <2>9. AloneInv'
    <3>1. ASSUME ~Overlaps, NEW u \in Clients,
                 pc'[u] \in {"sequence"} \cup {"insert", "findAgain", "retry"}
          PROVE  req'[u].key = NoKey \/ Matches(u)' = {}
      <4>1. u # t /\ pc[u] # "idle" /\ pc[t] # "idle"
        BY <1>1, <2>3, <3>1
      <4>2. req[u].key = NoKey \/ (req[u].key # row.key /\ Matches(u) = {})
        BY <2>1, <2>3, <3>1, <4>1 DEF IInv, AloneInv
      <4> QED BY <1>4, <2>3, <4>1, <4>2 DEF Matches, Fresh
    <3>2. ASSUME ~Overlaps PROVE OnePerWindow'
      <4>1. ASSUME NEW r \in rows, row.key # NoKey, r.key = row.key
            PROVE  row.created - r.created >= Window
        <5>1. r \notin Matches(t)
          BY <1>1, <2>1, <3>2, <4>1 DEF IInv, AloneInv, AtWork
        <5>2. r.created \in Int /\ row.created \in Int /\ Window \in Int
          BY <2>1, IssuerAssumption DEF IInv, TypeOK, Row
        <5> QED BY <2>1, <4>1, <5>1, <5>2 DEF Matches, Fresh
      <4> QED BY <1>4, <3>2, <4>1 DEF IInv, AloneInv, OnePerWindow
    <3> QED BY <2>3, <3>1, <3>2 DEF IInv, AloneInv
  <2> QED BY <2>4, <2>6, <2>7, <2>8, <2>9 DEF IInv, NumbersInv
<1> QED BY <1>2, <1>3, <1>4 DEF Insert

\* Time moves on, and what is in the window stays in it or leaves it.
LEMMA TickInv == ASSUME IInv, Tick PROVE IInv'
<1>1. UNCHANGED <<lastSeq, rows, pc, req, answer>> /\ clock' \in 0..MaxTime
  BY IssuerAssumption DEF Tick, IInv, TypeOK
<1>2. TypeOK'
  BY <1>1 DEF IInv, TypeOK
<1>3. NumbersInv'
  BY <1>1 DEF IInv, NumbersInv, TakenInv, ApartInv, NumbersAreUnique, AtWork, Day, Made
<1>4. AloneInv'
  BY <1>1 DEF IInv, AloneInv, Matches, Fresh, OnePerWindow
<1> QED BY <1>2, <1>3, <1>4 DEF IInv

-----------------------------------------------------------------------------
(* The theorems.                                                           *)

\* The actions together.
LEMMA Inductive == IInv /\ [Next]_vars => IInv'
<1> SUFFICES ASSUME IInv, [Next]_vars PROVE IInv'
  OBVIOUS
<1>1. CASE UNCHANGED vars
  BY <1>1 DEF vars, IInv, TypeOK, NumbersInv, TakenInv, ApartInv, NumbersAreUnique, AtWork, Day,
     Made, AloneInv, Matches, Fresh, OnePerWindow
<1>2. CASE \E t \in Clients, k \in KeyOrNone : Begin(t, k)
  BY <1>2, BeginInv
<1>3. CASE \E t \in Clients : Issue(t)
  BY <1>3, FindInv, NextSeqInv, InsertInv, RetryInv DEF Issue
<1>4. CASE Tick
  BY <1>4, TickInv
<1> QED BY <1>1, <1>2, <1>3, <1>4 DEF Next

\* The invariant holds in every reachable state.
LEMMA InvariantHolds == Spec => []IInv
BY InitInv, Inductive, PTL DEF Spec

\* Every variable has its type in every reachable state.
THEOREM TypeCorrect == Spec => []TypeOK
BY InvariantHolds, PTL DEF IInv

\* NextSeq and the primary key: no two instances, and no instance and request,
\* share a number of a day, however many requests there are at once.
THEOREM UniqueNumbers == Spec => []NumbersAreUnique
BY InvariantHolds, PTL DEF IInv, NumbersInv

\* FindActiveByKey: as long as requests of one key do not overlap, two instances
\* of a key are the deduplication window apart.
THEOREM WindowApart ==
    ASSUME ~Overlaps
    PROVE  Spec => []OnePerWindow
<1>1. IInv => OnePerWindow
  BY DEF IInv, AloneInv
<1> QED BY <1>1, InvariantHolds, PTL
=============================================================================
