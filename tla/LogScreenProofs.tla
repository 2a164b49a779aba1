--------------------------- MODULE LogScreenProofs ---------------------------
(***************************************************************************)
(* Theorems about LogScreen, for any text a child may write, any number of *)
(* polls under way, and any limits of the server.                          *)
(***************************************************************************)
EXTENDS LogScreen, FiniteSetTheorems, TLAPS

-----------------------------------------------------------------------------
(* The inductive invariant.                                                *)

\* What a query finds at the path now, as place counts it.
Current == IF present THEN 2 * Len(starts) - 1 ELSE 2 * Len(starts)

ViewType == [base : Nat, from : Nat, to : Nat, next : Nat,
             reset : BOOLEAN, truncated : BOOLEAN, file : Nat]
Sent == [step : {"sent"}, ask : {NoOffset} \cup Nat, place : Nat \X Nat]
Viewed == [step : {"read", "answered"}, view : ViewType, place : Nat \X Nat]

LogInv ==
    /\ scenario \in Scenarios
    /\ out \in Seq(Stored) /\ given \in Nat /\ files \in Nat
    /\ starts \in Seq(Nat) /\ \A n \in 1..Len(starts) : starts[n] <= Len(out)
    /\ present \in BOOLEAN /\ (present => Len(starts) > 0)
    /\ present => \A k \in Base + 2..Len(out) : out[k] # "header"

ScreenInv ==
    /\ offset \in {NoOffset} \cup Nat
    /\ shown \subseteq [file : Nat, from : Nat, to : Nat]
    /\ \A s \in shown : s.from < s.to
    /\ place \in Nat \X Nat
    /\ poll \in [Polls -> {Idle} \cup Sent \cup Viewed]

\* A view is a stretch of the file it names, and of no file before the one the
\* screen showed when it asked.
ViewOk(q) ==
    q \in Viewed =>
        /\ q.view.from <= q.view.next /\ q.view.next <= q.view.to
        /\ q.view.base + q.view.to <= Len(out)
        /\ \A k \in q.view.base + 2..q.view.base + q.view.to : out[k] # "header"
        /\ q.step = "read" => q.view.from < q.view.to
        /\ q.place[2] <= q.view.file /\ q.view.file <= Current
        /\ \A n \in 1..Len(starts) : q.view.file = 2 * n - 1 => q.view.base = starts[n]
        /\ \/ \E n \in 1..Len(starts) : q.view.file = 2 * n - 1
           \/ q.view.from = q.view.to /\ ~q.view.reset

ViewInv == \A p \in Polls : ViewOk(poll[p])

\* Screen and queries only move on to later files.
PlaceOk(q) ==
    q # Idle =>
        /\ q.place[2] <= Current
        /\ q \in Sent /\ q.ask = NoOffset => q.place[2] = 0
        /\ ~crossed => /\ q.place[1] <= place[1]
                       /\ q.place[1] = place[1] => q.place[2] <= place[2]

PlaceInv ==
    /\ place[2] <= Current
    /\ offset = NoOffset => place[2] = 0
    /\ ~crossed => \A s \in shown : s.file <= place[2]
    /\ \A p \in Polls : PlaceOk(poll[p])

\* Where in the file that the screen stands in an answer may go on.
AnchorsOf(q) ==
    IF q \in Sent /\ q.place = place THEN {q.ask}
    ELSE IF q \in Viewed /\ q.place = place /\ q.view.file = place[2] THEN {q.view.from}
    ELSE {}
Anchors == {offset} \cup UNION {AnchorsOf(poll[p]) : p \in Polls}
ResetOk(q) ==
    q \in Viewed /\ q.place = place /\ q.view.file = place[2] => ~q.view.reset

\* Nothing is left out between two places of the log.
Behind(x, y) == x + 1..y \subseteq Covered

\* Wherever an answer goes on, it does so without a gap before or after.
Places(n) == {starts[n] + a : a \in Anchors}
SpansOf(n) == {s \in shown : s.file = 2 * n - 1}
Stretch(n) ==
    /\ \A x \in Places(n) : x <= Len(out)
    /\ \A e \in Places(n) \cup {s.to : s \in SpansOf(n)},
          b \in Places(n) \cup {s.from : s \in SpansOf(n)} : Behind(e, b)
    /\ \A p \in Polls : ResetOk(poll[p])

AnchorInv ==
    ~crossed => \A n \in 1..Len(starts) : place[2] = 2 * n - 1 => Stretch(n)

SInv ==
    /\ LogInv
    /\ ScreenInv
    /\ ViewInv
    /\ PlaceInv
    /\ AnchorInv
    /\ OneStretch

-----------------------------------------------------------------------------
(* The least of a set, and what the reader makes of it.                    *)

\* The lesser of two numbers.
LEMMA PairMin ==
    ASSUME NEW a \in Int, NEW b \in Int
    PROVE  Min({a, b}) \in {a, b} /\ Min({a, b}) <= a /\ Min({a, b}) <= b
<1>1. \E x \in {a, b} : \A y \in {a, b} : x <= y
  OBVIOUS
<1> QED BY <1>1 DEF Min

\* A set of numbers has a least one: of the parts of it below one of its
\* elements, each of them finite, some is the smallest.
LEMMA NatMin ==
    ASSUME NEW T, T \subseteq Nat, T # {}
    PROVE  Min(T) \in T
<1> DEFINE Below(n) == T \cap 0..n
           Parts == {Below(n) : n \in T}
<1>1. Parts \subseteq FiniteSubsetsOf(Nat) /\ Parts # {}
  <2>1. ASSUME NEW n \in T PROVE IsFiniteSet(Below(n)) /\ Below(n) \subseteq Nat
    <3>1. n \in Nat /\ IsFiniteSet(0..n)
      BY FS_Interval
    <3>2. Below(n) \in SUBSET (0..n)
      OBVIOUS
    <3> QED BY <3>1, <3>2, FS_Subset
  <2> QED BY <2>1 DEF FiniteSubsetsOf
<1>2. PICK P \in Parts : \A Q \in Parts : ~(<<Q, P>> \in StrictSubsetOrdering(Nat))
  BY <1>1, WFMin, FS_StrictSubsetOrderingWellFounded
<1>3. PICK m \in T : P = Below(m)
  OBVIOUS
<1>4. ASSUME NEW n \in T, n < m PROVE FALSE
  <2>1. Below(n) \subseteq Below(m) /\ m \in Below(m) /\ m \notin Below(n)
    BY <1>4
  <2>2. Below(n) \in SUBSET Nat /\ Below(m) \in SUBSET Nat /\ Below(n) # Below(m)
    BY <2>1
  <2>3. <<Below(n), P>> \in StrictSubsetOrdering(Nat)
    BY <1>3, <2>1, <2>2 DEF StrictSubsetOrdering
  <2> QED BY <1>2, <2>3
<1>5. \A n \in T : m <= n
  BY <1>4
<1> QED BY <1>5 DEF Min

\* A file lies within what was written.
LEMMA FileBounds ==
    ASSUME LogInv, present
    PROVE  /\ Len(starts) \in Nat \ {0} /\ Len(out) \in Nat
           /\ Base \in Nat /\ Size \in Nat /\ Base + Size = Len(out)
  BY DEF LogInv, Base, Size

\* The tail begins inside the file,
LEMMA TailBounds ==
    ASSUME LogInv, present
    PROVE  TailStart \in 0..Size
<1>1. TailWindow \in Nat \ {0} /\ ScanLimit \in Nat \ {0} /\ Size \in Nat
  BY LogScreenAssumption, FileBounds
<1>2. CASE Size <= TailWindow
  BY <1>1, <1>2 DEF TailStart
<1>3. CASE Size > TailWindow
  <2> DEFINE pos == Size - TailWindow
             bound == Min({Size, pos + ScanLimit})
             after == {p \in pos + 1..bound : EndsLine(At(p - 1))}
  <2>1. pos \in 1..Size /\ pos + ScanLimit \in Int /\ Size \in Int
    BY <1>1, <1>3
  <2>2. bound \in Int /\ bound <= Size
    <3> HIDE DEF pos
    <3>1. bound \in {Size, pos + ScanLimit} /\ bound <= Size
      BY <2>1, PairMin
    <3> QED BY <2>1, <3>1
  <2>3. after \subseteq 0..Size
    <3> HIDE DEF pos, bound
    <3> QED BY <1>1, <2>1, <2>2
  <2>4. after # {} => Min(after) \in after
    <3> HIDE DEF after
    <3>1. after \subseteq Nat
      BY <1>1, <2>3
    <3> QED BY <3>1, NatMin
  <2>5. LineStart(pos) \in {pos} \cup after
    BY <2>4 DEF LineStart
  <2>6. TailStart = LineStart(pos)
    BY <1>1, <1>3 DEF TailStart
  <2>7. pos \in 0..Size
    BY <1>1, <2>1
  <2> HIDE DEF after, pos
  <2> QED BY <2>3, <2>5, <2>6, <2>7
<1> QED BY <1>1, <1>2, <1>3

\* and a read goes on from there, or from an offset the file has.
LEMMA ReadBounds ==
    ASSUME LogInv, present, NEW ask \in {NoOffset} \cup Nat
    PROVE  /\ ResolveStart(ask) \in 0..Size
           /\ End(ResolveStart(ask)) \in ResolveStart(ask)..Size
           /\ ask # NoOffset /\ ask <= Size => ResolveStart(ask) = ask
<1>1. ResponseMax \in Nat /\ Size \in Nat
  BY LogScreenAssumption, FileBounds
<1>2. ResolveStart(ask) \in 0..Size
  BY <1>1, TailBounds DEF ResolveStart, NoOffset
<1>3. ASSUME NEW from \in 0..Size PROVE End(from) \in from..Size
  <2>1. from \in Int /\ Size \in Int /\ from + ResponseMax \in Int
    BY <1>1, <1>3
  <2>2. from <= Size /\ from <= from + ResponseMax
    BY <1>1, <1>3
  <2> DEFINE e == Min({Size, from + ResponseMax})
  <2>3. e \in {Size, from + ResponseMax} /\ e <= Size /\ e <= from + ResponseMax
    BY <2>1, PairMin
  <2>4. e \in Int /\ from <= e
    BY <2>1, <2>2, <2>3
  <2>5. e \in from..Size
    BY <2>1, <2>3, <2>4
  <2> QED BY <2>5 DEF End
<1>4. ask # NoOffset /\ ask <= Size => ResolveStart(ask) = ask
  BY <1>1 DEF ResolveStart, NoOffset
<1> QED BY <1>2, <1>3, <1>4

\* What is decoded ends where the read does, or a byte before.
LEMMA DecodeBounds ==
    ASSUME NEW text \in Seq(Stored), NEW m \in Nat, NEW n \in Nat, m < n, n <= Len(text)
    PROVE  LET data == SubSeq(text, m + 1, n) IN
           Len(data) = n - m /\ Consumed(data) \in {n - m - 1, n - m}
<1> DEFINE data == SubSeq(text, m + 1, n)
<1>1. Len(data) = n - m
  OBVIOUS
<1> HIDE DEF data
<1>2. Consumed(data) \in {Len(data) - 1, Len(data)}
  BY DEF Consumed
<1> QED BY <1>1, <1>2 DEF data

-----------------------------------------------------------------------------
(* The log and the queries.                                                *)

\* A query is idle, sent, or has a view, and only one of them.
LEMMA Kinds ==
    ASSUME NEW q \in {Idle} \cup Sent \cup Viewed
    PROVE  /\ q \in Sent <=> q.step = "sent"
           /\ q \in Viewed <=> q.step \in {"read", "answered"}
           /\ q = Idle <=> q.step = "idle"
           /\ q.step \in {"idle", "sent", "read", "answered"}
  BY DEF Idle, Sent, Viewed

\* The log only grows: no file shrinks, and a new one comes after all others.
LogGrows ==
    /\ Len(out') >= Len(out) /\ Current' >= Current
    /\ \A k \in 1..Len(out) : out'[k] = out[k]
    /\ Len(starts') \in Nat /\ Len(starts) \in Nat /\ Len(starts') >= Len(starts)
    /\ \A n \in 1..Len(starts) : starts'[n] = starts[n]
    /\ \A n \in 1..Len(starts') : n \notin 1..Len(starts) => 2 * n - 1 > Current

\* A byte is added at the end, the header only to an empty file.
LEMMA LogAppends ==
    ASSUME LogInv, present, NEW b \in Stored, out' = Append(out, b), given' \in Nat,
           UNCHANGED <<scenario, files, starts, present>>, b = "header" => Size = 0
    PROVE  LogInv' /\ LogGrows
<1>1. /\ Len(starts) \in Nat /\ Base \in Nat /\ Base + Size = Len(out)
      /\ out \in Seq(Stored) /\ Len(out) \in Nat /\ starts \in Seq(Nat) /\ Len(starts) > 0
      /\ \A n \in 1..Len(starts) : starts[n] \in Nat /\ starts[n] <= Len(out)
  BY FileBounds DEF LogInv
<1>2. /\ out' \in Seq(Stored) /\ Len(out') = Len(out) + 1 /\ out'[Len(out) + 1] = b
      /\ \A k \in 1..Len(out) : out'[k] = out[k]
  BY <1>1
<1>3. Base' = Base /\ Current' = Current /\ Current \in Int
  BY <1>1 DEF Base, Current
<1>4. \A k \in Base + 2..Len(out') : out'[k] # "header"
  <2>1. SUFFICES ASSUME NEW k \in Base + 2..Len(out') PROVE out'[k] # "header"
    OBVIOUS
  <2>2. CASE k \in 1..Len(out)
    <3>1. k \in Base + 2..Len(out)
      BY <1>1, <1>2, <2>1, <2>2
    <3> QED BY <1>2, <2>2, <3>1 DEF LogInv
  <2>3. CASE k = Len(out) + 1
    <3>1. Size # 0
      BY <1>1, <2>1, <2>3
    <3> QED BY <1>2, <2>3, <3>1
  <2> QED BY <1>1, <1>2, <2>1, <2>2, <2>3
<1>5. \A n \in 1..Len(starts) : starts[n] <= Len(out')
  BY <1>1, <1>2
<1>6. LogInv'
  BY <1>1, <1>2, <1>3, <1>4, <1>5 DEF LogInv
<1> QED BY <1>1, <1>2, <1>3, <1>6 DEF LogGrows

\* A file comes into sight: a new one, or again the one at the path.
LEMMA LogSights ==
    ASSUME LogInv, NEW base \in 0..Len(out), starts' = Append(starts, base),
           present' = TRUE, files' \in Nat, UNCHANGED <<scenario, out, given>>,
           \A k \in base + 2..Len(out) : out[k] # "header"
    PROVE  LogInv' /\ LogGrows
<1>1. /\ starts \in Seq(Nat) /\ Len(starts) \in Nat /\ Len(out) \in Nat /\ base \in Nat
      /\ base <= Len(out)
  BY DEF LogInv
<1>2. /\ starts' \in Seq(Nat) /\ Len(starts') = Len(starts) + 1
      /\ starts'[Len(starts) + 1] = base
      /\ \A n \in 1..Len(starts) : starts'[n] = starts[n]
  BY <1>1
<1>3. Base' = base /\ Current' = 2 * Len(starts) + 1
  BY <1>1, <1>2 DEF Base, Current
<1>4. \A n \in 1..Len(starts') : starts'[n] <= Len(out)
  BY <1>1, <1>2 DEF LogInv
<1>5. LogInv'
  BY <1>1, <1>2, <1>3, <1>4 DEF LogInv
<1>6. Current <= 2 * Len(starts)
  BY <1>1 DEF Current
<1>7. Current \in Int
  BY <1>1 DEF Current
<1> QED BY <1>1, <1>2, <1>3, <1>5, <1>6, <1>7 DEF LogGrows

\* The child and its collector only add to the log.
LEMMA LogMoves ==
    ASSUME LogInv, Creates \/ WritesHeader \/ Writes \/ Rotates \/ Ends
    PROVE  /\ LogInv' /\ LogGrows
           /\ UNCHANGED <<offset, shown, poll, place, crossed>>
<1>1. /\ Len(out) \in Nat /\ Len(starts) \in Nat /\ present \in BOOLEAN /\ given \in Nat
      /\ files \in Nat
  BY DEF LogInv
<1>2. CASE Creates
  <2>1. /\ starts' = Append(starts, Len(out)) /\ present' = TRUE /\ files' = files + 1
        /\ UNCHANGED <<scenario, out, given>>
        /\ UNCHANGED <<offset, shown, poll, place, crossed>>
    BY <1>2 DEF Creates, screenVars, histVars
  <2>2. \A k \in Len(out) + 2..Len(out) : out[k] # "header"
    BY <1>1
  <2>3. Len(out) \in 0..Len(out) /\ files' \in Nat
    BY <1>1, <2>1
  <2> QED BY <2>1, <2>2, <2>3, LogSights
<1>3. CASE WritesHeader
  <2>1. /\ present /\ Size = 0 /\ out' = Append(out, "header")
        /\ UNCHANGED <<scenario, given, files, starts, present>>
        /\ UNCHANGED <<offset, shown, poll, place, crossed>>
    BY <1>3 DEF WritesHeader, NeedsHeader, screenVars, histVars
  <2>2. "header" \in Stored
    BY DEF Stored
  <2> QED BY <1>1, <2>1, <2>2, LogAppends
<1>4. CASE Writes
  <2> DEFINE b == scenario.text[given + 1]
  <2>1. /\ present /\ given < Len(scenario.text) /\ out' = Append(out, b)
        /\ given' = given + 1 /\ UNCHANGED <<scenario, files, starts, present>>
        /\ UNCHANGED <<offset, shown, poll, place, crossed>>
    BY <1>4 DEF Writes, screenVars, histVars
  <2>2. scenario.text \in Seq(Bytes)
    BY LogScreenAssumption DEF LogInv
  <2>3. b \in Bytes
    BY <1>1, <2>1, <2>2
  <2>4. b \in Stored /\ b # "header"
    <3> HIDE DEF b
    <3> QED BY <2>3 DEF Bytes, Stored
  <2>5. given' \in Nat
    BY <1>1, <2>1
  <2> HIDE DEF b
  <2> QED BY <2>1, <2>4, <2>5, LogAppends
<1>5. CASE Rotates \/ Ends
  <2>1. /\ UNCHANGED <<scenario, out, given, files, starts>>
        /\ present' \in BOOLEAN /\ (present' => present)
        /\ UNCHANGED <<offset, shown, poll, place, crossed>>
    <3>1. CASE Rotates
      BY <3>1, Zenon DEF Rotates, screenVars, histVars
    <3>2. CASE Ends
      <4>1. UNCHANGED <<scenario, out, given, files, starts, present, screenVars, poll, histVars>>
        BY <3>2 DEF Ends
      <4> QED BY <1>1, <4>1, Zenon DEF screenVars, histVars
    <3> QED BY <1>5, <3>1, <3>2
  <2>2. LogInv'
    BY <2>1 DEF LogInv, Base
  <2>3. Current' >= Current
    BY <1>1, <2>1 DEF Current
  <2> QED BY <1>1, <2>1, <2>2, <2>3 DEF LogGrows
<1> QED BY <1>2, <1>3, <1>4, <1>5

\* Offsets, spans and places are numbers.
LEMMA Numbers ==
    ASSUME LogInv, ScreenInv
    PROVE  /\ Len(starts) \in Nat /\ Len(out) \in Nat /\ Current \in Int
           /\ \A n \in 1..Len(starts) : starts[n] \in Nat
           /\ place[1] \in Nat /\ place[2] \in Nat
  BY DEF LogInv, ScreenInv, Current

\* So are the places where answers may go on.
LEMMA AnchorsAreNumbers ==
    ASSUME ScreenInv
    PROVE  Anchors \subseteq Int
<1>1. ASSUME NEW p \in Polls PROVE AnchorsOf(poll[p]) \subseteq Int
  <2>1. poll[p] \in {Idle} \cup Sent \cup Viewed
    BY DEF ScreenInv
  <2>2. poll[p] \in Sent => poll[p].ask \in Int
    BY DEF Sent, NoOffset
  <2>3. poll[p] \in Viewed => poll[p].view.from \in Int
    BY DEF Viewed, ViewType
  <2> QED BY <2>2, <2>3 DEF AnchorsOf
<1>2. offset \in Int
  BY DEF ScreenInv, NoOffset
<1> QED BY <1>1, <1>2 DEF Anchors

-----------------------------------------------------------------------------
(* Steps that leave the screen as it is.                                   *)

\* The log grows, and a query or none takes a step: what was read or shown stays
\* what it is, wherever a file of the log comes into sight.
LEMMA MoveKeeps ==
    ASSUME SInv, LogInv', LogGrows, UNCHANGED <<offset, shown, place, crossed>>,
           poll' \in [Polls -> {Idle} \cup Sent \cup Viewed],
           \A p \in Polls :
              \/ poll'[p] = poll[p]
              \/ /\ ViewOk(poll[p])' /\ PlaceOk(poll[p])'
                 /\ ~crossed /\ (\E n \in 1..Len(starts) : place[2] = 2 * n - 1) =>
                       AnchorsOf(poll[p])' \subseteq Anchors /\ ResetOk(poll[p])'
    PROVE  SInv'
<1>2. ScreenInv'
  BY DEF SInv, ScreenInv
<1>3. /\ Len(out') \in Nat /\ Current' \in Int /\ Len(out) \in Nat /\ Current \in Int
      /\ place[2] \in Nat
  <2>1. Len(out) \in Nat /\ Current \in Int /\ place[2] \in Nat
    BY Numbers DEF SInv
  <2>2. Len(out') \in Nat
    BY DEF LogInv
  <2>3. Current' \in Int
    BY DEF LogGrows, Current
  <2> QED BY <2>1, <2>2, <2>3
<1>4. ViewInv'
  <2>1. SUFFICES ASSUME NEW p \in Polls, poll'[p] = poll[p], poll[p] \in Viewed
                 PROVE  ViewOk(poll[p])'
    BY DEF ViewInv, ViewOk
  <2> DEFINE q == poll[p]
  <2>2. /\ q.view.base \in Nat /\ q.view.to \in Nat /\ q.view.file \in Nat
        /\ ViewOk(q)
    BY <2>1 DEF Viewed, ViewType, SInv, ViewInv
  <2>3. \A n \in 1..Len(starts') : q.view.file = 2 * n - 1 => n \in 1..Len(starts)
    BY <1>3, <2>1, <2>2 DEF ViewOk, LogGrows
  <2>4. 1..Len(starts) \subseteq 1..Len(starts')
    BY DEF LogGrows
  <2>5. ViewOk(q)' = /\ q.view.from <= q.view.next /\ q.view.next <= q.view.to
                     /\ q.view.base + q.view.to <= Len(out')
                     /\ \A k \in q.view.base + 2..q.view.base + q.view.to : out'[k] # "header"
                     /\ q.step = "read" => q.view.from < q.view.to
                     /\ q.place[2] <= q.view.file /\ q.view.file <= Current'
                     /\ \A n \in 1..Len(starts') :
                           q.view.file = 2 * n - 1 => q.view.base = starts'[n]
                     /\ \/ \E n \in 1..Len(starts') : q.view.file = 2 * n - 1
                        \/ q.view.from = q.view.to /\ ~q.view.reset
    BY <2>1 DEF ViewOk
  <2>6. /\ q.view.from <= q.view.next /\ q.view.next <= q.view.to
        /\ q.view.base + q.view.to <= Len(out')
        /\ \A k \in q.view.base + 2..q.view.base + q.view.to : out'[k] # "header"
        /\ q.step = "read" => q.view.from < q.view.to
        /\ q.place[2] <= q.view.file /\ q.view.file <= Current'
    <3>1. /\ q.view.from <= q.view.next /\ q.view.next <= q.view.to
          /\ q.view.base + q.view.to <= Len(out)
          /\ \A k \in q.view.base + 2..q.view.base + q.view.to : out[k] # "header"
          /\ q.step = "read" => q.view.from < q.view.to
          /\ q.place[2] <= q.view.file /\ q.view.file <= Current
      BY <2>1, <2>2 DEF ViewOk
    <3>2. /\ Len(out) <= Len(out') /\ Current <= Current'
          /\ \A k \in 1..Len(out) : out'[k] = out[k]
      BY DEF LogGrows
    <3>3. q.view.base + q.view.to <= Len(out') /\ q.view.file <= Current'
      <4> HIDE DEF q
      <4> QED BY <1>3, <2>2, <3>1, <3>2
    <3>4. \A k \in q.view.base + 2..q.view.base + q.view.to : out'[k] # "header"
      <4> HIDE DEF q
      <4>1. \A k \in q.view.base + 2..q.view.base + q.view.to : k \in 1..Len(out)
        BY <1>3, <2>2, <3>1
      <4> QED BY <3>1, <3>2, <4>1
    <3> QED BY <3>1, <3>3, <3>4
  <2>7. \A n \in 1..Len(starts') : q.view.file = 2 * n - 1 => q.view.base = starts'[n]
    BY <2>1, <2>2, <2>3 DEF ViewOk, LogGrows
  <2>8. \/ \E n \in 1..Len(starts') : q.view.file = 2 * n - 1
        \/ q.view.from = q.view.to /\ ~q.view.reset
    BY <2>1, <2>2, <2>4 DEF ViewOk
  <2> QED BY <2>5, <2>6, <2>7, <2>8
<1>5. PlaceInv'
  <2>1. ASSUME NEW p \in Polls, poll'[p] = poll[p] PROVE PlaceOk(poll[p])'
    <3>1. PlaceOk(poll[p]) /\ poll[p] \in {Idle} \cup Sent \cup Viewed
      BY DEF SInv, PlaceInv, ScreenInv
    <3>2. poll[p] # Idle => poll[p].place[2] \in Nat
      BY <3>1 DEF Sent, Viewed
    <3> QED BY <1>3, <2>1, <3>1, <3>2 DEF PlaceOk, LogGrows
  <2>2. \A p \in Polls : PlaceOk(poll[p])'
    BY <2>1
  <2> QED BY <1>3, <2>2 DEF SInv, PlaceInv, LogGrows
<1>6. AnchorInv'
  <2>1. SUFFICES ASSUME ~crossed, NEW n \in 1..Len(starts'), place[2] = 2 * n - 1
                 PROVE  Stretch(n)'
    BY DEF AnchorInv
  <2>2. n \in 1..Len(starts) /\ starts'[n] = starts[n]
    BY <1>3, <2>1 DEF SInv, PlaceInv, LogGrows
  <2>3. Stretch(n)
    BY <2>1, <2>2 DEF SInv, AnchorInv
  <2>4. ASSUME NEW p \in Polls
        PROVE  AnchorsOf(poll[p])' \subseteq Anchors /\ ResetOk(poll[p])'
    <3>1. CASE poll'[p] = poll[p]
      <4>1. AnchorsOf(poll[p])' = AnchorsOf(poll[p]) /\ ResetOk(poll[p])' = ResetOk(poll[p])
        BY <3>1 DEF AnchorsOf, ResetOk
      <4> QED BY <2>3, <4>1 DEF Anchors, Stretch
    <3> QED BY <2>1, <2>2, <3>1
  <2>5. Anchors' \subseteq Anchors
    BY <2>4 DEF Anchors
  <2>6. SpansOf(n)' = SpansOf(n) /\ Covered' = Covered
    BY DEF SpansOf, Covered
  <2>7. Places(n)' \subseteq Places(n) /\ Places(n) \subseteq Int
    BY <2>2, <2>5, Numbers, AnchorsAreNumbers DEF Places, SInv
  <2>8. \A x \in Places(n)' : x <= Len(out')
    BY <1>3, <2>3, <2>7 DEF Stretch, LogGrows
  <2>9. \A e \in Places(n)' \cup {s.to : s \in SpansOf(n)'},
           b \in Places(n)' \cup {s.from : s \in SpansOf(n)'} : Behind(e, b)'
    BY <2>3, <2>6, <2>7 DEF Stretch, Behind
  <2> QED BY <2>4, <2>8, <2>9 DEF Stretch
<1>7. OneStretch'
  BY DEF SInv, OneStretch, Covered
<1> QED BY <1>2, <1>4, <1>5, <1>6, <1>7 DEF SInv

\* The child and its collector change nothing that was read or shown.
LEMMA LogKeeps ==
    ASSUME SInv, Creates \/ WritesHeader \/ Writes \/ Rotates \/ Ends
    PROVE  SInv'
<1>1. /\ LogInv' /\ LogGrows
      /\ UNCHANGED <<offset, shown, poll, place, crossed>>
  BY LogMoves DEF SInv
<1>2. poll' \in [Polls -> {Idle} \cup Sent \cup Viewed]
  BY <1>1 DEF SInv, ScreenInv
<1> QED BY <1>1, <1>2, MoveKeeps

-----------------------------------------------------------------------------
(* Steps of one query.                                                     *)

\* A step of a query that changes nothing in the log or on the screen.
LEMMA QueryMoves ==
    ASSUME SInv, NEW p \in Polls, NEW q \in {Idle} \cup Sent \cup Viewed,
           poll' = [poll EXCEPT ![p] = q],
           UNCHANGED <<logVars, offset, shown, place, crossed>>,
           ViewOk(q), PlaceOk(q),
           ~crossed /\ (\E n \in 1..Len(starts) : place[2] = 2 * n - 1) =>
               AnchorsOf(q) \subseteq Anchors /\ ResetOk(q)
    PROVE  SInv'
<1>1. /\ LogInv' /\ UNCHANGED <<out, starts, Current>> /\ LogInv
      /\ Len(out) \in Nat /\ Len(starts) \in Nat /\ Current \in Int
  BY DEF SInv, LogInv, logVars, childVars, Current, Base
<1>2. LogGrows
  BY <1>1 DEF LogGrows
<1>3. poll'[p] = q /\ \A u \in Polls \ {p} : poll'[u] = poll[u]
  BY DEF SInv, ScreenInv
<1>4. poll' \in [Polls -> {Idle} \cup Sent \cup Viewed]
  BY DEF SInv, ScreenInv
<1>5. ViewOk(poll[p])' /\ PlaceOk(poll[p])'
  BY <1>1, <1>3 DEF ViewOk, PlaceOk
<1>6. AnchorsOf(poll[p])' = AnchorsOf(q) /\ ResetOk(poll[p])' = ResetOk(q)
  BY <1>3 DEF AnchorsOf, ResetOk
<1> QED BY <1>1, <1>2, <1>3, <1>4, <1>5, <1>6, MoveKeeps

\* A step that none of this notices.
LEMMA Unmoved ==
    ASSUME SInv, UNCHANGED <<logVars, offset, shown, poll, place, crossed>>
    PROVE  SInv'
<1>1. /\ LogInv' /\ UNCHANGED <<out, starts, Current>>
      /\ Len(out) \in Nat /\ Len(starts) \in Nat /\ Current \in Int
  BY DEF SInv, LogInv, logVars, childVars, Current, Base
<1>2. LogGrows
  BY <1>1 DEF LogGrows
<1>3. poll' \in [Polls -> {Idle} \cup Sent \cup Viewed] /\ poll' = poll
  BY DEF SInv, ScreenInv
<1> QED BY <1>1, <1>2, <1>3, MoveKeeps

\* A query is sent, from where the screen stands.
LEMMA SendKeeps ==
    ASSUME SInv, NEW p \in Polls, Send(p), UNCHANGED <<logVars, offset, shown, histVars>>
    PROVE  SInv'
<1> DEFINE q == [step |-> "sent", ask |-> offset, place |-> place]
<1>1. q \in Sent
  BY DEF SInv, ScreenInv, Sent
<1>2. q \notin Viewed /\ q # Idle
  BY DEF Viewed, Idle
<1>3. place[1] \in Nat /\ place[2] \in Nat /\ Current \in Int
  BY Numbers DEF SInv
<1>4. ViewOk(q) /\ PlaceOk(q)
  BY <1>2, <1>3 DEF ViewOk, PlaceOk, SInv, PlaceInv
<1>5. AnchorsOf(q) \subseteq Anchors /\ ResetOk(q)
  BY <1>2 DEF AnchorsOf, Anchors, ResetOk
<1>6. poll' = [poll EXCEPT ![p] = q]
  BY DEF Send
<1>7. UNCHANGED <<logVars, offset, shown, place, crossed>>
  BY DEF histVars
<1> HIDE DEF q
<1> QED BY <1>1, <1>4, <1>5, <1>6, <1>7, QueryMoves

\* It is lost.
LEMMA LoseKeeps ==
    ASSUME SInv, NEW p \in Polls, Lose(p)
    PROVE  SInv'
<1>1. Idle \notin Viewed /\ Idle \notin Sent
  BY DEF Idle, Viewed, Sent
<1>2. ViewOk(Idle) /\ PlaceOk(Idle) /\ AnchorsOf(Idle) = {} /\ ResetOk(Idle)
  BY <1>1 DEF ViewOk, PlaceOk, AnchorsOf, ResetOk
<1>3. /\ poll' = [poll EXCEPT ![p] = Idle]
      /\ UNCHANGED <<logVars, offset, shown, place, crossed>>
  BY DEF Lose
<1> QED BY <1>2, <1>3, QueryMoves

\* The file is read: on from the offset asked for, unless this is a later file.
LEMMA ReadKeeps ==
    ASSUME SInv, NEW p \in Polls, ReadFile(p)
    PROVE  SInv'
<1> DEFINE r == poll[p]
           from == ResolveStart(r.ask)
           to == End(from)
<1>1. r \in {Idle} \cup Sent \cup Viewed /\ r.step = "sent"
  BY DEF SInv, ScreenInv, ReadFile
<1>2. /\ r \in Sent /\ r # Idle /\ r \notin Viewed
      /\ r.ask \in {NoOffset} \cup Nat /\ r.place \in Nat \X Nat
  BY <1>1, Kinds DEF Sent
<1>3. /\ Current \in Int /\ Len(starts) \in Nat /\ Len(out) \in Nat /\ place[2] \in Nat
      /\ PlaceOk(r) /\ r.place[2] \in Nat /\ r.place[2] <= Current
  BY <1>2, Numbers DEF SInv, PlaceInv, PlaceOk
<1>4. UNCHANGED <<childVars, offset, shown, place, crossed>>
  BY DEF ReadFile, screenVars, histVars
<1>5. CASE NoAnswer(p)
  <2> DEFINE v == [NoFile EXCEPT !.file = 2 * Len(starts)]
             q == [step |-> "answered", place |-> r.place, view |-> v]
  <2>1. poll' = [poll EXCEPT ![p] = q]
    BY <1>5 DEF NoAnswer
  <2>2. /\ v.from = 0 /\ v.next = 0 /\ v.to = 0 /\ v.base = 0 /\ v.reset = FALSE
        /\ v.file = 2 * Len(starts) /\ v \in ViewType
    <3>1. /\ NoFile \in ViewType /\ 2 * Len(starts) \in Nat
          /\ NoFile.from = 0 /\ NoFile.next = 0 /\ NoFile.to = 0 /\ NoFile.base = 0
          /\ NoFile.reset = FALSE
      BY <1>3 DEF NoFile, ViewType
    <3> QED BY <3>1 DEF ViewType
  <2> HIDE DEF v
  <2>3. q \in Viewed /\ q \notin Sent /\ q # Idle
    BY <1>2, <2>2 DEF Viewed, Sent, Idle
  <2>4. /\ q.view = v /\ q.place = r.place
        /\ \A k \in v.base + 2..v.base + v.to : out[k] # "header"
    BY <2>2
  <2>5. PlaceOk(q)
    BY <1>2, <1>3, <2>3 DEF PlaceOk
  <2>6. (\E n \in 1..Len(starts) : place[2] = 2 * n - 1) => q.view.file # place[2]
    BY <1>3, <2>2
  <2>7. (\E n \in 1..Len(starts) : place[2] = 2 * n - 1) =>
            AnchorsOf(q) \subseteq Anchors /\ ResetOk(q)
    BY <2>3, <2>6 DEF AnchorsOf, ResetOk
  <2>8. CASE ~present /\ UNCHANGED starts
    <3>1. ViewOk(q)
      BY <1>3, <2>2, <2>4, <2>8 DEF ViewOk, Current
    <3>2. UNCHANGED <<logVars, offset, shown, place, crossed>>
      BY <1>4, <2>8 DEF logVars
    <3> HIDE DEF q
    <3> QED BY <2>1, <2>3, <2>5, <2>7, <3>1, <3>2, QueryMoves
  <2>9. CASE present /\ starts' = Append(starts, Base)
    <3>1. /\ Base \in 0..Len(out) /\ LogInv
          /\ \A k \in Base + 2..Len(out) : out[k] # "header"
      BY <2>9, FileBounds DEF SInv, LogInv
    <3>2. UNCHANGED <<scenario, out, given, files, present>> /\ files' \in Nat
      BY <1>4 DEF childVars, SInv, LogInv
    <3>3. LogInv' /\ LogGrows
      BY <2>9, <3>1, <3>2, LogSights
    <3>4. poll'[p] = q /\ \A u \in Polls \ {p} : poll'[u] = poll[u]
      BY <2>1 DEF SInv, ScreenInv
    <3>5. poll' \in [Polls -> {Idle} \cup Sent \cup Viewed]
      BY <2>1, <2>3 DEF SInv, ScreenInv
    <3>6. /\ Len(starts') = Len(starts) + 1 /\ Current' = 2 * Len(starts) + 1
          /\ Current = 2 * Len(starts) - 1
      <4>1. Len(starts') = Len(starts) + 1
        BY <2>9 DEF SInv, LogInv
      <4> QED BY <1>3, <2>9, <3>2, <4>1 DEF Current
    <3>7. ViewOk(poll[p])'
      <4>1. \A n \in 1..Len(starts') : v.file # 2 * n - 1
        BY <1>3, <2>2, <3>6
      <4>2. r.place[2] <= v.file /\ v.file <= Current'
        BY <1>3, <2>2, <3>6
      <4>3. /\ v.from <= v.next /\ v.next <= v.to /\ v.base + v.to <= Len(out')
            /\ v.from = v.to /\ ~v.reset
        BY <1>3, <2>2, <3>2
      <4> QED BY <2>4, <3>2, <3>4, <4>1, <4>2, <4>3 DEF ViewOk
    <3>8. PlaceOk(poll[p])'
      <4>1. r.place[2] <= Current'
        BY <1>3, <3>6
      <4> QED BY <1>4, <2>3, <2>4, <2>5, <3>4, <4>1 DEF PlaceOk
    <3>9. (\E n \in 1..Len(starts) : place[2] = 2 * n - 1) =>
              AnchorsOf(poll[p])' \subseteq Anchors /\ ResetOk(poll[p])'
      <4>1. AnchorsOf(poll[p])' = AnchorsOf(q) /\ ResetOk(poll[p])' = ResetOk(q)
        BY <1>4, <3>4 DEF AnchorsOf, ResetOk
      <4> QED BY <2>7, <4>1
    <3> HIDE DEF q
    <3> QED BY <1>4, <3>3, <3>4, <3>5, <3>7, <3>8, <3>9, MoveKeeps
  <2> QED BY <1>5, <2>8, <2>9 DEF NoAnswer
<1>6. CASE FileAnswer(p)
  <2> DEFINE v == [base |-> Base, from |-> from, to |-> to, next |-> from,
                   reset |-> r.ask > Size, truncated |-> from < to /\ to < Size,
                   file |-> 2 * Len(starts) - 1]
             q == [step |-> IF from < to THEN "read" ELSE "answered",
                   place |-> r.place, view |-> v]
  <2>0. present /\ UNCHANGED <<logVars, offset, shown, place, crossed>>
    BY <1>4, <1>6 DEF FileAnswer, logVars
  <2>1. poll' = [poll EXCEPT ![p] = q]
    BY <1>6 DEF FileAnswer
  <2>2. /\ Len(starts) \in Nat \ {0} /\ Base \in Nat /\ Size \in Nat
        /\ Base + Size = Len(out) /\ Base = starts[Len(starts)]
        /\ from \in Nat /\ to \in Nat /\ from <= to /\ to <= Size
        /\ r.ask # NoOffset /\ r.ask <= Size => from = r.ask
    BY <1>2, <2>0, FileBounds, ReadBounds DEF SInv, Base
  <2> HIDE DEF from, to
  <2>3. /\ v.from = from /\ v.next = from /\ v.to = to /\ v.base = Base
        /\ v.reset = (r.ask > Size) /\ v.file = 2 * Len(starts) - 1 /\ v \in ViewType
    BY <2>2 DEF ViewType
  <2> HIDE DEF v
  <2>4. q \in Viewed /\ q \notin Sent /\ q # Idle
    BY <1>2, <2>3 DEF Viewed, Sent, Idle
  <2>5. ViewOk(q)
    <3>1. q.step = "read" => from < to
      OBVIOUS
    <3>2. \E n \in 1..Len(starts) : q.view.file = 2 * n - 1
      BY <2>2, <2>3
    <3>3. \A n \in 1..Len(starts) : q.view.file = 2 * n - 1 => q.view.base = starts[n]
      BY <2>2, <2>3
    <3>4. /\ q.view = v /\ q.place = r.place /\ (q.step = "answered" => ~(from < to))
      OBVIOUS
    <3>5. Current = 2 * Len(starts) - 1
      BY <2>0 DEF Current
    <3>6. /\ v.from <= v.next /\ v.next <= v.to /\ v.base + v.to <= Len(out)
          /\ q.place[2] <= v.file /\ v.file <= Current
      BY <1>3, <2>2, <2>3, <3>4, <3>5
    <3>7. \A k \in v.base + 2..v.base + v.to : out[k] # "header"
      <4>1. \A k \in Base + 2..Len(out) : out[k] # "header"
        BY <2>0 DEF SInv, LogInv
      <4>2. v.base + 2..v.base + v.to \subseteq Base + 2..Len(out)
        BY <1>3, <2>2, <2>3
      <4> QED BY <4>1, <4>2
    <3> QED BY <3>1, <3>2, <3>3, <3>4, <3>6, <3>7, <2>2, <2>3 DEF ViewOk
  <2>6. PlaceOk(q)
    BY <1>2, <1>3, <2>4 DEF PlaceOk
  <2>7. ASSUME ~crossed, NEW n \in 1..Len(starts), place[2] = 2 * n - 1
        PROVE  AnchorsOf(q) \subseteq Anchors /\ ResetOk(q)
    <3>1. SUFFICES ASSUME q.place = place, q.view.file = place[2]
                   PROVE  q.view.from \in Anchors /\ ~q.view.reset
      BY <2>4 DEF AnchorsOf, ResetOk
    <3>2. n = Len(starts) /\ r.place = place /\ r.ask # NoOffset
      <4>1. 2 * n - 1 = 2 * Len(starts) - 1
        BY <2>3, <2>7, <3>1
      <4>2. n = Len(starts)
        BY <2>2, <4>1
      <4>3. r.place = place
        BY <3>1
      <4>4. place[2] # 0
        BY <2>2, <2>7
      <4> QED BY <1>2, <1>3, <4>2, <4>3, <4>4 DEF PlaceOk
    <3>3. r.ask \in Anchors
      <4>1. r.ask \in AnchorsOf(r)
        BY <1>2, <3>2 DEF AnchorsOf
      <4> QED BY <4>1 DEF Anchors
    <3>4. Base + r.ask <= Len(out)
      BY <2>2, <2>7, <3>2, <3>3 DEF SInv, AnchorInv, Stretch, Places
    <3>5. r.ask <= Size
      BY <1>2, <1>3, <2>2, <3>2, <3>4
    <3>6. q.view.from = r.ask
      BY <2>2, <2>3, <3>2, <3>5
    <3>7. ~(r.ask > Size)
      BY <1>2, <2>2, <3>2, <3>5
    <3> QED BY <2>3, <3>3, <3>6, <3>7
  <2> HIDE DEF q
  <2> QED BY <2>0, <2>1, <2>4, <2>5, <2>6, <2>7, QueryMoves
<1> QED BY <1>5, <1>6 DEF ReadFile

\* What was read is decoded, up to where the next query goes on.
LEMMA DecodesKeeps ==
    ASSUME SInv, NEW p \in Polls, Decodes(p)
    PROVE  SInv'
<1> DEFINE r == poll[p]
           v == r.view
           data == SubSeq(out, v.base + v.from + 1, v.base + v.to)
           gaveUp == Consumed(data) = 0 /\ Final
           next == v.from + (IF gaveUp THEN Len(data) ELSE Consumed(data))
           q == [r EXCEPT !.step = "answered", !.view.next = next]
<1>1. r \in Viewed /\ r.step = "read"
  BY Kinds DEF SInv, ScreenInv, Decodes
<1>2. /\ v \in ViewType /\ ViewOk(r) /\ PlaceOk(r) /\ r # Idle /\ r \notin Sent
      /\ v.base \in Nat /\ v.from \in Nat /\ v.to \in Nat /\ v.from < v.to
      /\ v.base + v.to <= Len(out)
  BY <1>1 DEF SInv, ViewInv, PlaceInv, ViewOk, Viewed, ViewType, Idle, Sent
<1>3. Len(data) = v.to - v.from /\ Consumed(data) \in {v.to - v.from - 1, v.to - v.from}
  <2>0. out \in Seq(Stored)
    BY DEF SInv, LogInv
  <2>1. /\ out \in Seq(Stored) /\ v.base + v.from \in Nat /\ v.base + v.to \in Nat
        /\ v.base + v.from < v.base + v.to
    <3> HIDE DEF v, data
    <3> QED BY <1>2, <2>0
  <2>2. /\ Len(data) = (v.base + v.to) - (v.base + v.from)
        /\ Consumed(data) \in {(v.base + v.to) - (v.base + v.from) - 1,
                               (v.base + v.to) - (v.base + v.from)}
    BY <1>2, <2>1, DecodeBounds
  <2> HIDE DEF data
  <2> QED BY <1>2, <2>2
<1>4. next \in Nat /\ v.from <= next /\ next <= v.to
  <2>1. next \in {v.from + Len(data), v.from + Consumed(data)}
    OBVIOUS
  <2>2. Len(data) \in 0..v.to - v.from /\ Consumed(data) \in 0..v.to - v.from
    <3> HIDE DEF data, v
    <3> QED BY <1>2, <1>3
  <2> HIDE DEF data, next, v
  <2> QED BY <1>2, <2>1, <2>2
<1>5. poll' = [poll EXCEPT ![p] = q]
  BY DEF Decodes, SInv, ScreenInv
<1>6. UNCHANGED <<logVars, offset, shown, place, crossed>>
  BY DEF Decodes, screenVars
<1> HIDE DEF next
<1>7. /\ q \in Viewed /\ q # Idle /\ q \notin Sent /\ q.step = "answered" /\ q.place = r.place
      /\ q.view.from = v.from /\ q.view.to = v.to /\ q.view.base = v.base
      /\ q.view.next = next /\ q.view.reset = v.reset /\ q.view.file = v.file
  BY <1>1, <1>2, <1>4 DEF Viewed, ViewType, Idle, Sent
<1> HIDE DEF q
<1>8. ViewOk(q)
  <2>1. \E n \in 1..Len(starts) : v.file = 2 * n - 1
    BY <1>1, <1>2 DEF ViewOk, SInv
  <2> QED BY <1>1, <1>2, <1>4, <1>7, <2>1 DEF ViewOk
<1>9. PlaceOk(q)
  BY <1>2, <1>7 DEF PlaceOk
<1>10. ASSUME ~crossed, NEW n \in 1..Len(starts), place[2] = 2 * n - 1
       PROVE  AnchorsOf(q) \subseteq Anchors /\ ResetOk(q)
  <2>1. AnchorsOf(q) = AnchorsOf(r) /\ ResetOk(q) = ResetOk(r)
    BY <1>1, <1>2, <1>7 DEF AnchorsOf, ResetOk
  <2>2. AnchorsOf(r) \subseteq Anchors
    BY DEF Anchors
  <2>3. ResetOk(r)
    BY <1>10 DEF SInv, AnchorInv, Stretch
  <2> QED BY <2>1, <2>2, <2>3
<1> QED BY <1>5, <1>6, <1>7, <1>8, <1>9, <1>10, QueryMoves

-----------------------------------------------------------------------------
(* Steps of the screen.                                                    *)

\* A new stream begins with nothing on the screen, and no query belongs to it.
LEMMA NewStreamKeeps ==
    ASSUME SInv, NewStream
    PROVE  SInv'
<1>1. /\ offset' \in {NoOffset, 0} /\ shown' = {} /\ place' = <<place[1] + 1, 0>>
      /\ UNCHANGED <<poll, crossed, out, given, files, starts, present, scenario>>
  BY DEF NewStream, logVars, childVars
<1>2. /\ Current \in Int /\ Len(starts) \in Nat /\ place[1] \in Nat /\ place[2] \in Nat
      /\ Current >= 0 /\ Current' = Current
  BY <1>1, Numbers DEF SInv, PlaceInv, Current
<1>3. place' \in Nat \X Nat /\ place'[1] = place[1] + 1 /\ place'[2] = 0
  BY <1>1, <1>2
<1>4. LogInv' /\ ScreenInv'
  BY <1>1, <1>3 DEF SInv, LogInv, ScreenInv, Base
<1>5. ViewInv'
  BY <1>1, <1>2 DEF SInv, ViewInv, ViewOk
<1>6. PlaceInv'
  <2>1. ASSUME NEW p \in Polls PROVE PlaceOk(poll[p])'
    <3>1. PlaceOk(poll[p]) /\ poll[p] \in {Idle} \cup Sent \cup Viewed
      BY DEF SInv, PlaceInv, ScreenInv
    <3>2. poll[p] # Idle => poll[p].place[1] \in Nat /\ poll[p].place[2] \in Nat
      BY <3>1 DEF Sent, Viewed
    <3> QED BY <1>1, <1>2, <1>3, <3>1, <3>2 DEF PlaceOk
  <2> QED BY <1>1, <1>2, <1>3, <2>1 DEF PlaceInv
<1>7. AnchorInv'
  BY <1>1, <1>2, <1>3 DEF AnchorInv
<1>8. OneStretch'
  BY <1>1 DEF OneStretch
<1> QED BY <1>4, <1>5, <1>6, <1>7, <1>8 DEF SInv

\* What an answer does to the screen, crossed or not.
LEMMA Applied ==
    ASSUME SInv, NEW p \in Polls, Apply(p)
    PROVE  LET v == poll[p].view IN
           /\ poll[p] \in Viewed /\ v \in ViewType /\ ViewOk(poll[p])
           /\ UNCHANGED <<scenario, out, given, files, starts, present>> /\ Current' = Current
           /\ offset' = v.next /\ place' = <<place[1], v.file>>
           /\ poll' = [poll EXCEPT ![p] = Idle]
           /\ shown' = (IF v.reset THEN {} ELSE shown)
                          \cup {s \in {Span(v)} : s.from < s.to}
           /\ crossed' = (crossed \/ poll[p].place # place)
           /\ LogInv' /\ ScreenInv' /\ ViewInv'
<1> DEFINE v == poll[p].view
<1>1. poll[p] \in Viewed
  BY Kinds DEF SInv, ScreenInv, Apply
<1>2. v \in ViewType /\ ViewOk(poll[p])
  BY <1>1 DEF Viewed, SInv, ViewInv
<1>3. /\ UNCHANGED <<scenario, out, given, files, starts, present>> /\ Current' = Current
      /\ offset' = v.next /\ place' = <<place[1], v.file>>
      /\ poll' = [poll EXCEPT ![p] = Idle]
      /\ shown' = (IF v.reset THEN {} ELSE shown) \cup {s \in {Span(v)} : s.from < s.to}
      /\ crossed' = (crossed \/ poll[p].place # place)
  BY DEF Apply, Following, logVars, childVars, Current
<1>4. LogInv'
  BY <1>3 DEF SInv, LogInv, Base
<1>5. ScreenInv'
  <2>1. /\ v.next \in Nat /\ v.file \in Nat /\ v.base \in Nat /\ v.from \in Nat
        /\ place[1] \in Nat
    BY <1>2, Numbers DEF ViewType, SInv
  <2>2. Span(v) \in [file : Nat, from : Nat, to : Nat]
    BY <2>1 DEF Span
  <2>3. shown' \subseteq [file : Nat, from : Nat, to : Nat] /\ \A s \in shown' : s.from < s.to
    BY <1>3, <2>2 DEF SInv, ScreenInv
  <2>4. place' \in Nat \X Nat /\ offset' \in {NoOffset} \cup Nat
    BY <1>3, <2>1
  <2>5. poll' \in [Polls -> {Idle} \cup Sent \cup Viewed]
    BY <1>3 DEF SInv, ScreenInv
  <2> QED BY <2>3, <2>4, <2>5 DEF ScreenInv
<1>6. ViewInv'
  <2>1. Idle \notin Viewed
    BY DEF Idle, Viewed
  <2> QED BY <1>3, <2>1 DEF SInv, ScreenInv, ViewInv, ViewOk
<1> HIDE DEF v
<1> QED BY <1>1, <1>2, <1>3, <1>4, <1>5, <1>6 DEF v

\* An answer moves the screen on to the file it is about.
LEMMA ApplyPlace ==
    ASSUME SInv, NEW p \in Polls, Apply(p)
    PROVE  PlaceInv'
<1> DEFINE v == poll[p].view
<1>1. /\ poll[p] \in Viewed /\ v \in ViewType /\ ViewOk(poll[p]) /\ Current' = Current
      /\ offset' = v.next /\ place' = <<place[1], v.file>>
      /\ poll' = [poll EXCEPT ![p] = Idle]
      /\ shown' = (IF v.reset THEN {} ELSE shown) \cup {s \in {Span(v)} : s.from < s.to}
      /\ crossed' = (crossed \/ poll[p].place # place)
  BY Applied
<1>2. /\ v.next \in Nat /\ v.file \in Nat /\ v.file <= Current
      /\ ~crossed' => ~crossed /\ place[2] <= v.file
      /\ place[1] \in Nat /\ place[2] \in Nat /\ Current \in Int
      /\ place'[1] = place[1] /\ place'[2] = v.file
  BY <1>1, Numbers DEF ViewType, ViewOk, SInv
<1>3. offset' # NoOffset
  BY <1>1, <1>2 DEF NoOffset
<1>4. ~crossed' => \A s \in shown' : s.file <= v.file
  <2>1. Span(v).file = v.file
    BY DEF Span
  <2>2. ~crossed => \A s \in shown : s.file \in Nat /\ s.file <= place[2]
    BY DEF SInv, PlaceInv, ScreenInv
  <2> QED BY <1>1, <1>2, <2>1, <2>2
<1>5. ASSUME NEW u \in Polls PROVE PlaceOk(poll[u])'
  <2>1. u # p => poll'[u] = poll[u]
    BY <1>1 DEF SInv, ScreenInv
  <2>2. u = p => poll'[u] = Idle
    BY <1>1 DEF SInv, ScreenInv
  <2>3. PlaceOk(poll[u]) /\ poll[u] \in {Idle} \cup Sent \cup Viewed
    BY DEF SInv, PlaceInv, ScreenInv
  <2>4. poll[u] # Idle => poll[u].place[1] \in Nat /\ poll[u].place[2] \in Nat
    BY <2>3 DEF Sent, Viewed
  <2> QED BY <1>1, <1>2, <2>1, <2>2, <2>3, <2>4 DEF PlaceOk
<1> HIDE DEF v
<1> QED BY <1>1, <1>2, <1>3, <1>4, <1>5 DEF PlaceInv

\* The answer comes from a later file: all it shows of that file is its own.
LEMMA LaterFile ==
    ASSUME SInv, NEW p \in Polls, Apply(p), ~crossed, poll[p].place = place,
           poll[p].view.file # place[2]
    PROVE  AnchorInv' /\ OneStretch'
<1> DEFINE v == poll[p].view
<1>1. /\ poll[p] \in Viewed /\ v \in ViewType /\ ViewOk(poll[p])
      /\ UNCHANGED <<out, starts>>
      /\ offset' = v.next /\ place' = <<place[1], v.file>>
      /\ poll' = [poll EXCEPT ![p] = Idle]
      /\ shown' = (IF v.reset THEN {} ELSE shown) \cup {s \in {Span(v)} : s.from < s.to}
      /\ PlaceInv' /\ ScreenInv'
  BY Applied, ApplyPlace
<1>2. /\ v.next \in Nat /\ v.from \in Nat /\ v.to \in Nat /\ v.base \in Nat /\ v.file \in Nat
      /\ v.from <= v.next /\ v.base + v.next <= Len(out) /\ Len(out) \in Nat
      /\ place[2] \in Nat /\ place[2] < v.file
      /\ place'[1] = place[1] /\ place'[2] = v.file
  <2>1. /\ v.next \in Nat /\ v.from \in Nat /\ v.to \in Nat /\ v.base \in Nat /\ v.file \in Nat
    BY <1>1 DEF ViewType
  <2>2. Len(out) \in Nat /\ place[2] \in Nat
    BY Numbers DEF SInv
  <2>3. /\ v.from <= v.next /\ v.next <= v.to /\ v.base + v.to <= Len(out)
        /\ place[2] <= v.file
    BY <1>1 DEF ViewOk
  <2>4. place'[1] = place[1] /\ place'[2] = v.file
    BY <1>1
  <2> HIDE DEF v
  <2>5. v.base + v.next <= Len(out)
    BY <2>1, <2>2, <2>3
  <2>6. v.file # place[2]
    BY DEF v
  <2>7. place[2] < v.file
    BY <2>1, <2>2, <2>3, <2>6
  <2> QED BY <2>1, <2>2, <2>3, <2>4, <2>5, <2>7
<1>3. /\ Span(v).file = v.file /\ Span(v).from = v.base + v.from /\ Span(v).to = v.base + v.next
  BY DEF Span
<1> HIDE DEF v
<1>4. \A s \in shown : s.file # v.file
  BY <1>2 DEF SInv, PlaceInv, ScreenInv
<1>5. \A s \in shown' : s.file = v.file => s = Span(v)
  BY <1>1, <1>4
<1>6. ASSUME NEW u \in Polls PROVE AnchorsOf(poll[u])' = {} /\ ResetOk(poll[u])'
  <2>1. CASE u = p
    <3>1. poll'[u] = Idle /\ Idle \notin Sent /\ Idle \notin Viewed
      BY <1>1, <2>1 DEF SInv, ScreenInv, Idle, Sent, Viewed
    <3> QED BY <3>1 DEF AnchorsOf, ResetOk
  <2>2. CASE u # p
    <3>1. poll'[u] = poll[u] /\ PlaceOk(poll[u]) /\ poll[u] \in {Idle} \cup Sent \cup Viewed
      BY <1>1, <2>2 DEF SInv, ScreenInv, PlaceInv
    <3>2. poll[u] # Idle => poll[u].place[2] \in Nat
      BY <3>1 DEF Sent, Viewed
    <3>3. poll[u] # Idle => poll[u].place # place'
      BY <1>2, <3>1, <3>2 DEF PlaceOk
    <3>4. Idle \notin Sent /\ Idle \notin Viewed
      BY DEF Idle, Sent, Viewed
    <3> QED BY <3>1, <3>3, <3>4 DEF AnchorsOf, ResetOk
  <2> QED BY <2>1, <2>2
<1>7. Anchors' = {v.next}
  BY <1>1, <1>6 DEF Anchors
<1>8. AnchorInv'
  <2>1. SUFFICES ASSUME NEW n \in 1..Len(starts), v.file = 2 * n - 1
                 PROVE  Stretch(n)'
    BY <1>1, <1>2 DEF AnchorInv
  <2>2. v.base = starts[n]
    BY <1>1, <2>1 DEF ViewOk, v
  <2>3. Places(n)' = {v.base + v.next}
    BY <1>1, <1>7, <2>2 DEF Places
  <2>4. SpansOf(n)' \subseteq {Span(v)}
    BY <1>5, <2>1 DEF SpansOf
  <2>5. ASSUME NEW e \in {v.base + v.next},
               NEW b \in {v.base + v.from, v.base + v.next}
        PROVE  Behind(e, b)'
    <3>1. e \in Int /\ b \in Int /\ b <= e
      BY <1>2
    <3>2. e + 1..b = {}
      BY <3>1
    <3> QED BY <3>2 DEF Behind
  <2>6. \A x \in Places(n)' : x <= Len(out')
    BY <1>1, <1>2, <2>3
  <2>7. Places(n)' \cup {s.to : s \in SpansOf(n)'} \subseteq {v.base + v.next}
    BY <1>3, <2>3, <2>4
  <2>8. Places(n)' \cup {s.from : s \in SpansOf(n)'}
            \subseteq {v.base + v.from, v.base + v.next}
    BY <1>3, <2>3, <2>4
  <2> QED BY <1>6, <2>5, <2>6, <2>7, <2>8 DEF Stretch
<1>9. OneStretch'
  <2>1. SUFFICES ASSUME NEW s \in shown', NEW t \in shown', s.file = t.file
                 PROVE  s.to + 1..t.from \subseteq Covered'
    BY DEF OneStretch
  <2>2. CASE s.file = v.file
    <3>1. s = Span(v) /\ t = Span(v)
      BY <1>5, <2>1, <2>2
    <3> QED BY <1>2, <1>3, <3>1
  <2>3. CASE s.file # v.file
    <3>1. s \in shown /\ t \in shown /\ ~v.reset
      BY <1>1, <1>3, <2>1, <2>3
    <3>2. s.to + 1..t.from \subseteq Covered
      BY <2>1, <3>1 DEF SInv, OneStretch
    <3>3. shown \subseteq shown'
      BY <1>1, <3>1
    <3>4. Covered \subseteq Covered'
      BY <3>3 DEF Covered
    <3> QED BY <3>2, <3>4
  <2> QED BY <2>2, <2>3
<1> QED BY <1>8, <1>9

\* The answer goes on in the file the screen shows: it begins at an anchor, so
\* it is joined to everything before and after, and so is where it ends.
LEMMA SameFile ==
    ASSUME SInv, NEW p \in Polls, Apply(p), ~crossed, poll[p].place = place,
           poll[p].view.file = place[2]
    PROVE  AnchorInv' /\ OneStretch'
<1> DEFINE v == poll[p].view
           x == v.base + v.from
           y == v.base + v.next
<1>1. /\ poll[p] \in Viewed /\ v \in ViewType /\ ViewOk(poll[p])
      /\ UNCHANGED <<out, starts>>
      /\ offset' = v.next /\ place' = <<place[1], v.file>>
      /\ poll' = [poll EXCEPT ![p] = Idle]
      /\ shown' = (IF v.reset THEN {} ELSE shown) \cup {s \in {Span(v)} : s.from < s.to}
  BY Applied
<1>2. /\ v.next \in Nat /\ v.from \in Nat /\ v.to \in Nat /\ v.base \in Nat /\ v.file \in Nat
      /\ v.from <= v.next /\ v.next <= v.to /\ y <= Len(out) /\ Len(out) \in Nat
      /\ Len(starts) \in Nat /\ place' = place /\ v.file = place[2]
  BY <1>1, Numbers DEF ViewType, ViewOk, SInv, ScreenInv
<1>3. /\ Span(v).file = v.file /\ Span(v).from = x /\ Span(v).to = y
  BY DEF Span
<1>4. CASE \A n \in 1..Len(starts) : place[2] # 2 * n - 1
  <2>1. v.from = v.next /\ ~v.reset
    BY <1>1, <1>2, <1>4 DEF ViewOk
  <2>2. shown' = shown
    BY <1>1, <1>2, <1>3, <2>1
  <2> QED BY <1>1, <1>2, <1>4, <2>2 DEF AnchorInv, OneStretch, Covered, SInv
<1>5. ASSUME NEW n \in 1..Len(starts), place[2] = 2 * n - 1
      PROVE  AnchorInv' /\ OneStretch'
  <2>1. Stretch(n) /\ v.base = starts[n] /\ ~v.reset
    BY <1>1, <1>2, <1>5 DEF SInv, AnchorInv, Stretch, ResetOk, ViewOk
  <2>2. shown' = shown \cup {s \in {Span(v)} : s.from < s.to}
    BY <1>1, <2>1
  <2> HIDE DEF v
  <2>3. x \in Places(n)
    <3>1. v.from \in AnchorsOf(poll[p])
      BY <1>1 DEF AnchorsOf, Viewed, Sent, v
    <3>2. v.from \in Anchors
      BY <3>1 DEF Anchors
    <3> QED BY <2>1, <3>2 DEF Places
  <2>4. x \in Int /\ y \in Int /\ x <= y
    BY <1>2
  <2> HIDE DEF x, y
  <2>5. Covered \subseteq Covered' /\ x + 1..y \subseteq Covered'
    <3>1. Covered \subseteq Covered'
      BY <2>2 DEF Covered
    <3>2. CASE x < y
      <4>1. Span(v) \in shown'
        BY <1>3, <2>2, <3>2
      <4> QED BY <1>3, <3>1, <4>1 DEF Covered
    <3>3. CASE ~(x < y)
      BY <2>4, <3>1, <3>3
    <3> QED BY <3>2, <3>3, <3>1
  <2>6. SpansOf(n)' \subseteq SpansOf(n) \cup {Span(v)}
    BY <2>2 DEF SpansOf
  <2>7. \A u \in Polls \ {p} : poll'[u] = poll[u]
    BY <1>1 DEF SInv, ScreenInv
  <2>8. poll'[p] = Idle /\ Idle \notin Sent /\ Idle \notin Viewed
    BY <1>1 DEF SInv, ScreenInv, Idle, Sent, Viewed
  <2>9. Places(n)' \subseteq Places(n) \cup {y}
    <3>1. ASSUME NEW u \in Polls PROVE AnchorsOf(poll[u])' \subseteq Anchors
      <4>1. CASE u = p
        BY <2>8, <4>1 DEF AnchorsOf
      <4>2. CASE u # p
        <5>1. AnchorsOf(poll[u])' = AnchorsOf(poll[u])
          BY <1>2, <2>7, <4>2 DEF AnchorsOf
        <5> QED BY <5>1 DEF Anchors
      <4> QED BY <4>1, <4>2
    <3>2. Anchors' \subseteq Anchors \cup {v.next}
      BY <1>1, <3>1 DEF Anchors
    <3> QED BY <1>1, <2>1, <3>2 DEF Places, y
  <2> DEFINE Closing == Places(n) \cup {s.to : s \in SpansOf(n)}
             Begins == Places(n) \cup {s.from : s \in SpansOf(n)}
  <2>10. /\ \A e \in Closing, b \in Begins : Behind(e, b)
         /\ Closing \subseteq Int /\ Begins \subseteq Int /\ x \in Closing /\ x \in Begins
    <3>1. \A e \in Closing, b \in Begins : Behind(e, b)
      BY <2>1 DEF Stretch
    <3>2. Places(n) \subseteq Int
      BY Numbers, AnchorsAreNumbers DEF Places, SInv
    <3>3. \A s \in SpansOf(n) : s.to \in Int /\ s.from \in Int
      BY DEF SInv, ScreenInv, SpansOf
    <3> QED BY <2>3, <3>1, <3>2, <3>3
  <2>11. /\ (Places(n) \cup {s.to : s \in SpansOf(n)})' \subseteq Closing \cup {y}
         /\ (Places(n) \cup {s.from : s \in SpansOf(n)})' \subseteq Begins \cup {y}
    BY <1>3, <2>3, <2>6, <2>9
  <2> HIDE DEF Closing, Begins
  <2>12. ASSUME NEW e \in Closing \cup {y}, NEW b \in Begins \cup {y}
         PROVE  Behind(e, b)'
    <3>1. CASE e \in Closing /\ b \in Begins
      BY <2>5, <2>10, <3>1 DEF Behind
    <3>2. CASE e = y /\ b \in Begins
      <4>1. x + 1..b \subseteq Covered
        BY <2>10, <3>2 DEF Behind
      <4>2. y + 1..b \subseteq x + 1..b
        BY <2>4, <2>10, <3>2
      <4> QED BY <2>5, <3>2, <4>1, <4>2 DEF Behind
    <3>3. CASE e \in Closing /\ b = y
      <4>1. e + 1..x \subseteq Covered
        BY <2>10, <3>3 DEF Behind
      <4>2. e + 1..y \subseteq (e + 1..x) \cup (x + 1..y)
        BY <2>4, <2>10, <3>3
      <4> QED BY <2>5, <3>3, <4>1, <4>2 DEF Behind
    <3>4. CASE e = y /\ b = y
      BY <2>4, <3>4 DEF Behind
    <3> QED BY <3>1, <3>2, <3>3, <3>4
  <2>13. Stretch(n)'
    <3>1. \A z \in Places(n)' : z <= Len(out')
      BY <1>1, <1>2, <2>1, <2>9 DEF Stretch, y
    <3>2. ASSUME NEW u \in Polls PROVE ResetOk(poll[u])'
      <4>1. CASE u = p
        BY <2>8, <4>1 DEF ResetOk
      <4>2. CASE u # p
        BY <1>2, <2>1, <2>7, <4>2 DEF ResetOk, Stretch
      <4> QED BY <4>1, <4>2
    <3> QED BY <2>11, <2>12, <3>1, <3>2 DEF Stretch
  <2>14. AnchorInv'
    BY <1>1, <1>2, <1>5, <2>13 DEF AnchorInv
  <2>15. OneStretch'
    <3>1. SUFFICES ASSUME NEW s \in shown', NEW t \in shown', s.file = t.file
                   PROVE  s.to + 1..t.from \subseteq Covered'
      BY DEF OneStretch
    <3>2. CASE s.file = v.file
      <4>1. s \in SpansOf(n)' /\ t \in SpansOf(n)'
        BY <1>2, <1>5, <3>1, <3>2 DEF SpansOf
      <4>2. s.to \in Closing \cup {y} /\ t.from \in Begins \cup {y}
        BY <2>11, <4>1
      <4> QED BY <2>12, <4>2 DEF Behind
    <3>3. CASE s.file # v.file
      <4>1. s \in shown /\ t \in shown
        BY <1>3, <2>2, <3>1, <3>3
      <4> QED BY <2>5, <3>1, <4>1 DEF SInv, OneStretch
    <3> QED BY <3>2, <3>3
  <2> QED BY <2>14, <2>15
<1> QED BY <1>4, <1>5

\* An answer is added to the stretch that the screen shows, or begins another.
LEMMA ApplyKeeps ==
    ASSUME SInv, NEW p \in Polls, Apply(p)
    PROVE  SInv'
<1>1. /\ LogInv' /\ ScreenInv' /\ ViewInv' /\ PlaceInv'
      /\ crossed' = (crossed \/ poll[p].place # place)
  BY Applied, ApplyPlace
<1>2. CASE crossed'
  BY <1>1, <1>2 DEF SInv, AnchorInv, OneStretch
<1>3. CASE ~crossed'
  <2>1. ~crossed /\ poll[p].place = place
    BY <1>1, <1>3
  <2>2. AnchorInv' /\ OneStretch'
    BY <2>1, LaterFile, SameFile
  <2> QED BY <1>1, <2>2 DEF SInv
<1> QED BY <1>2, <1>3

-----------------------------------------------------------------------------
(* The theorem.                                                            *)

\* The invariant holds initially,
LEMMA InitSInv == Init => SInv
<1> SUFFICES ASSUME Init PROVE SInv
  OBVIOUS
<1>1. /\ scenario \in Scenarios /\ out = << >> /\ starts = << >> /\ present = FALSE
      /\ given = 0 /\ files = 0
      /\ offset = NoOffset /\ shown = {} /\ place = <<1, 0>> /\ crossed = FALSE
      /\ \A p \in Polls : poll[p] = Idle
      /\ poll = [p \in Polls |-> Idle]
  BY DEF Init
<1>2. Idle \notin Viewed
  BY DEF Idle, Viewed
<1>4. LogInv
  <2>1. Len(out) = 0 /\ Len(starts) = 0 /\ out \in Seq(Stored) /\ starts \in Seq(Nat)
    BY <1>1
  <2>2. \A n \in 1..Len(starts) : starts[n] <= Len(out)
    BY <2>1
  <2>3. present \in BOOLEAN /\ ~present /\ given \in Nat /\ files \in Nat
    BY <1>1
  <2> QED BY <1>1, <2>1, <2>2, <2>3 DEF LogInv
<1>5. ScreenInv
  BY <1>1 DEF ScreenInv
<1>6. ViewInv
  BY <1>1, <1>2 DEF ViewInv, ViewOk
<1>7. PlaceInv
  BY <1>1 DEF PlaceInv, PlaceOk, Current
<1>8. AnchorInv /\ OneStretch
  BY <1>1 DEF AnchorInv, OneStretch
<1> QED BY <1>4, <1>5, <1>6, <1>7, <1>8 DEF SInv

\* and is preserved by every step.
LEMMA SInvInductive == SInv /\ [Next]_vars => SInv'
<1> SUFFICES ASSUME SInv, [Next]_vars PROVE SInv'
  OBVIOUS
<1>1. CASE UNCHANGED vars \/ Reconnects
  <2>1. UNCHANGED <<logVars, offset, shown, poll, place, crossed>>
    BY <1>1 DEF vars, Reconnects, screenVars, histVars
  <2> QED BY <2>1, Unmoved
<1>2. CASE Timer \/ Forced \/ More
  <2>1. UNCHANGED <<logVars, offset, shown, histVars>>
    BY <1>2 DEF Timer, Forced, More, screenVars
  <2>2. CASE UNCHANGED poll
    BY <2>1, <2>2, Unmoved DEF histVars
  <2>3. CASE \E p \in Polls : Send(p)
    BY <2>1, <2>3, SendKeeps
  <2> QED BY <1>2, <2>2, <2>3 DEF Timer, Forced, More
<1>3. ASSUME NEW p \in Polls, Query(p) \/ Lose(p) PROVE SInv'
  BY <1>3, ReadKeeps, DecodesKeeps, ApplyKeeps, LoseKeeps DEF Query
<1> QED
  BY <1>1, <1>2, <1>3, LogKeeps, NewStreamKeeps DEF Next

\* Poller, query and reader together: as long as every answer is applied where it
\* was asked for, the screen shows of a file, from where it began in it, one stretch
\* without a gap, wherever the log is rotated.  A file that a query was refused
\* counts as another from then on.
THEOREM OneStretchOfAFile == Spec => []OneStretch
<1>1. SInv => OneStretch
  BY DEF SInv
<1> QED
  BY InitSInv, SInvInductive, <1>1, PTL DEF Spec

-----------------------------------------------------------------------------
(* Characters.                                                             *)

\* A stretch of the log that begins neither inside a character nor with half of one
\* does not end inside one, unless it ends with all that will ever be written.
CutWell(from, to) ==
    from < to /\ ~Inside(from) /\ ~Torn(from, to) =>
        out[to] # "lead" \/ (drained /\ to = Len(out))

Answered(q) ==
    q \in Viewed => CutWell(q.view.base + q.view.from, q.view.base + q.view.next)

\* What is written is the text so far, with a header here and there; behind the end
\* of the output comes nothing more.
TextInv ==
    /\ drained => present /\ ~NeedsHeader
    /\ Len(out) > 0 /\ out[Len(out)] # "header" =>
          given > 0 /\ out[Len(out)] = scenario.text[given]
    /\ Utf8 => \A k \in 1..Len(out) - 1 :
          out[k] = "lead" /\ out[k + 1] # "header" => out[k + 1] = "rest"

CharInv ==
    /\ drained \in BOOLEAN /\ running \in BOOLEAN /\ raced \in BOOLEAN
    /\ TextInv
    /\ \A s \in shown : s.to <= Len(out)
    /\ Utf8 /\ ~raced => /\ \A s \in shown : CutWell(s.from, s.to)
                        /\ \A p \in Polls : Answered(poll[p])

\* Of a character that is UTF-8 no byte comes but its own, or a header.
LEMMA TextGrows ==
    ASSUME LogInv, TextInv, Creates \/ WritesHeader \/ Writes \/ Rotates \/ Ends
    PROVE  TextInv' /\ (drained => drained' /\ out' = out)
<1>1. /\ out \in Seq(Stored) /\ Len(out) \in Nat /\ given \in Nat
      /\ (drained => present /\ ~NeedsHeader)
  BY DEF LogInv, TextInv
<1>2. ASSUME ~drained', UNCHANGED <<scenario, out, given>> PROVE TextInv'
  BY <1>2 DEF TextInv, Utf8
<1>3. ASSUME ~drained', NEW b, out' = Append(out, b), UNCHANGED scenario,
             b # "header" => given' > 0 /\ b = scenario.text[given'],
             /\ Utf8 /\ Len(out) > 0 /\ out[Len(out)] = "lead" /\ b # "header" => b = "rest"
      PROVE  TextInv'
  <2>1. /\ Len(out') = Len(out) + 1 /\ out'[Len(out) + 1] = b
        /\ \A k \in 1..Len(out) : out'[k] = out[k]
    BY <1>1, <1>3
  <2>2. Utf8' = Utf8
    BY <1>3 DEF Utf8
  <2>3. ASSUME Utf8, NEW k \in 1..Len(out') - 1, out'[k] = "lead", out'[k + 1] # "header"
        PROVE  out'[k + 1] = "rest"
    <3>1. CASE k = Len(out)
      BY <1>1, <1>3, <2>1, <2>3, <3>1
    <3>2. CASE k # Len(out)
      <4>1. k \in 1..Len(out) - 1 /\ k \in 1..Len(out) /\ k + 1 \in 1..Len(out)
        BY <1>1, <2>1, <2>3, <3>2
      <4> QED BY <2>1, <2>3, <4>1 DEF TextInv
    <3> QED BY <3>1, <3>2
  <2>4. Len(out') > 0 /\ out'[Len(out')] # "header" =>
            given' > 0 /\ out'[Len(out')] = scenario'.text[given']
    BY <1>3, <2>1
  <2> QED BY <1>3, <2>2, <2>3, <2>4 DEF TextInv
<1>4. CASE Creates
  <2>1. ~drained /\ ~drained' /\ UNCHANGED <<scenario, out, given>>
    BY <1>1, <1>4 DEF Creates
  <2> QED BY <1>2, <2>1
<1>5. CASE WritesHeader
  <2>1. ~drained /\ ~drained' /\ UNCHANGED scenario /\ out' = Append(out, "header")
    BY <1>1, <1>5 DEF WritesHeader
  <2> QED BY <1>3, <2>1
<1>6. CASE Writes
  <2> DEFINE b == scenario.text[given + 1]
  <2>1. /\ ~drained /\ ~drained' /\ UNCHANGED scenario /\ out' = Append(out, b)
        /\ given' = given + 1 /\ given < Len(scenario.text)
    BY <1>6 DEF Writes
  <2>2. Len(scenario.text) \in Nat
    BY LogScreenAssumption DEF LogInv
  <2>3. ASSUME Utf8, Len(out) > 0, out[Len(out)] = "lead" PROVE b = "rest"
    <3>1. given > 0 /\ scenario.text[given] = "lead"
      BY <2>3 DEF TextInv
    <3>2. given \in 1..Len(scenario.text) - 1
      BY <1>1, <2>1, <2>2, <3>1
    <3> QED BY <2>3, <3>1, <3>2 DEF Utf8
  <2>4. given' > 0 /\ b = scenario.text[given']
    BY <1>1, <2>1
  <2> HIDE DEF b
  <2> QED BY <1>3, <2>1, <2>3, <2>4
<1>7. CASE Rotates
  <2>1. ~drained /\ ~drained' /\ UNCHANGED <<scenario, out, given>>
    BY <1>7 DEF Rotates
  <2> QED BY <1>2, <2>1
<1>8. CASE Ends
  <2>1. UNCHANGED <<scenario, out, given, files, starts, present>>
    BY <1>8 DEF Ends
  <2>2. drained' => drained \/ Settled
    BY <1>8 DEF Ends
  <2>3. Settled => present /\ ~NeedsHeader
    BY DEF Settled, NeedsHeader
  <2>4. NeedsHeader' = NeedsHeader /\ present' = present
    BY <2>1 DEF NeedsHeader, Size, Base
  <2>5. drained => drained'
    BY <1>8 DEF Ends
  <2>6. Utf8' = Utf8
    BY <2>1 DEF Utf8
  <2> QED BY <1>1, <2>1, <2>2, <2>3, <2>4, <2>5, <2>6 DEF TextInv
<1> QED BY <1>4, <1>5, <1>6, <1>7, <1>8

\* A file that comes into sight again is the same file.
LEMMA SightedAgain ==
    ASSUME LogInv, UNCHANGED childVars,
           UNCHANGED starts \/ (present /\ starts' = Append(starts, Base))
    PROVE  NeedsHeader' = NeedsHeader
<1>1. starts \in Seq(Nat)
  BY DEF LogInv
<1>2. CASE UNCHANGED starts
  BY <1>2 DEF NeedsHeader, Size, Base, childVars
<1>3. CASE present /\ starts' = Append(starts, Base)
  <2>1. Len(starts') = Len(starts) + 1 /\ starts'[Len(starts) + 1] = Base
    BY <1>1, <1>3
  <2>2. Base' = Base
    BY <2>1 DEF Base
  <2>3. Size' = Size
    BY <2>2 DEF Size, childVars
  <2> QED BY <2>3 DEF NeedsHeader, childVars
<1> QED BY <1>2, <1>3

\* Reading changes nothing of the text.
LEMMA TextSame ==
    ASSUME LogInv, TextInv, UNCHANGED childVars,
           UNCHANGED starts \/ (present /\ starts' = Append(starts, Base))
    PROVE  TextInv'
<1>1. NeedsHeader' = NeedsHeader
  BY SightedAgain
<1>2. Utf8' = Utf8
  BY DEF Utf8, childVars
<1> QED BY <1>1, <1>2 DEF TextInv, childVars

\* What is decoded of such a text ends at the end of a character.
LEMMA DecodeEnds ==
    ASSUME LogInv, TextInv, Utf8, NEW m \in Nat, NEW n \in Nat, m < n, n <= Len(out),
           \A k \in m + 2..n : out[k] # "header",
           ~Inside(m), ~Torn(m, m + Consumed(SubSeq(out, m + 1, n))),
           m < m + Consumed(SubSeq(out, m + 1, n))
    PROVE  out[m + Consumed(SubSeq(out, m + 1, n))] # "lead"
<1> DEFINE data == SubSeq(out, m + 1, n)
<1>1. out \in Seq(Stored) /\ Len(out) \in Nat
  BY DEF LogInv
<1>2. Len(data) = n - m /\ \A k \in 1..n - m : data[k] = out[m + k]
  BY <1>1
<1>3. Consumed(data) \in {n - m - 1, n - m}
  BY <1>1, DecodeBounds
<1>4. CASE Consumed(data) = n - m
  <2>1. m + (n - m) = n /\ n - m \in 1..n - m /\ ~Torn(m, n)
    BY <1>4
  <2>2. SUFFICES ASSUME out[n] = "lead" PROVE FALSE
    BY <1>4, <2>1
  <2>3. data[Len(data)] = "lead" /\ Len(data) # Len(data) - 1
    BY <1>2, <2>1, <2>2
  <2>4. Malformed(data)
    <3> HIDE DEF data
    <3>1. Consumed(data) # Len(data) - 1
      BY <1>2, <1>4, <2>3
    <3> QED BY <2>3, <3>1 DEF Consumed
  <2>5. data[1] # "rest"
    <3>1. data[1] = out[m + 1] /\ m + 1 \in m + 1..n /\ m + 1 - 1 = m
      BY <1>2
    <3> HIDE DEF data
    <3>2. SUFFICES ASSUME out[m + 1] = "rest" PROVE FALSE
      BY <3>1
    <3>3. m + 1 # 1 /\ out[m] = "lead"
      BY <2>1, <3>1, <3>2 DEF Torn
    <3>4. m \in 1..Len(out) - 1
      BY <1>1, <3>3
    <3> QED BY <3>2, <3>3, <3>4 DEF Inside
  <2>6. ASSUME NEW k \in 1..Len(data) - 1 PROVE (data[k] = "lead") = (data[k + 1] = "rest")
    <3>1. data[k] = out[m + k] /\ data[k + 1] = out[m + k + 1]
      BY <1>2
    <3> HIDE DEF data
    <3>2. /\ m + k \in 1..Len(out) - 1 /\ m + k + 1 \in m + 1..n /\ m + k + 1 \in m + 2..n
          /\ m + k + 1 # 1 /\ m + k + 1 - 1 = m + k
      BY <1>1, <1>2
    <3>3. out[m + k] = "lead" => out[m + k + 1] = "rest"
      BY <3>2 DEF TextInv
    <3>4. out[m + k + 1] = "rest" => out[m + k] = "lead"
      BY <2>1, <3>2 DEF Torn
    <3> QED BY <3>1, <3>3, <3>4
  <2> HIDE DEF data
  <2> QED BY <2>4, <2>5, <2>6 DEF Malformed
<1>5. CASE Consumed(data) = n - m - 1
  <2>1. n - m - 1 \in 1..n - m - 1 /\ m + (n - m - 1) = n - 1 /\ n - m - 1 + 1 = n - m
    <3>1. m < m + Consumed(data)
      OBVIOUS
    <3> HIDE DEF data
    <3> QED BY <1>5, <3>1
  <2>2. data[n - m - 1] = out[n - 1]
    BY <1>2, <2>1
  <2> HIDE DEF data
  <2>3. ~Malformed(data) /\ data[n - m] = "lead"
    <3>1. Consumed(data) # Len(data)
      BY <1>2, <1>5
    <3> QED BY <1>2, <3>1 DEF Consumed
  <2>4. (data[n - m - 1] = "lead") = (data[n - m] = "rest")
    BY <1>2, <2>1, <2>3 DEF Malformed
  <2>5. out[m + Consumed(data)] # "lead"
    BY <1>5, <2>1, <2>2, <2>3, <2>4
  <2> QED BY <2>5 DEF data
<1> HIDE DEF data
<1> QED BY <1>3, <1>4, <1>5 DEF data

\* Where a stretch was cut stays well cut: nothing is written after the end.
LEMMA CutKept ==
    ASSUME LogInv, NEW m \in Nat, NEW n \in Nat, n <= Len(out), Len(out') \in Nat,
           Len(out') >= Len(out), \A k \in 1..Len(out) : out'[k] = out[k],
           CutWell(m, n), drained => drained' /\ out' = out
    PROVE  CutWell(m, n)'
<1>1. Len(out) \in Nat
  BY DEF LogInv
<1>2. SUFFICES ASSUME m < n, ~Inside(m)', ~Torn(m, n)'
               PROVE  (out'[n] # "lead") \/ (drained' /\ n = Len(out'))
  BY DEF CutWell
<1>3. n \in 1..Len(out) /\ out'[n] = out[n]
  BY <1>1, <1>2
<1>4. ~Inside(m)
  <2>1. SUFFICES ASSUME Inside(m) PROVE FALSE
    OBVIOUS
  <2>2. m \in 1..Len(out) - 1 /\ m \in 1..Len(out) /\ m + 1 \in 1..Len(out)
    BY <1>1, <2>1 DEF Inside
  <2>3. m \in 1..Len(out') - 1
    BY <1>1, <2>2
  <2> QED BY <1>2, <2>1, <2>2, <2>3 DEF Inside
<1>5. ~Torn(m, n)
  <2>1. SUFFICES ASSUME NEW k \in m + 1..n, out[k] = "rest", k = 1 \/ out[k - 1] # "lead"
                 PROVE  FALSE
    BY DEF Torn
  <2>2. k \in 1..Len(out) /\ (k = 1 \/ k - 1 \in 1..Len(out))
    BY <1>1, <2>1
  <2> QED BY <1>2, <2>1, <2>2 DEF Torn
<1> QED BY <1>2, <1>3, <1>4, <1>5 DEF CutWell

\* At first there is nothing.
LEMMA InitChar == Init => CharInv
<1> SUFFICES ASSUME Init PROVE CharInv
  OBVIOUS
<1>1. Idle \notin Viewed
  BY DEF Idle, Viewed
<1>2. TextInv
  BY DEF Init, TextInv
<1> QED BY <1>1, <1>2 DEF Init, CharInv, Answered

\* A step that shows nothing and decodes nothing.
Quiet ==
    /\ Len(out') \in Nat /\ Len(out') >= Len(out)
    /\ \A k \in 1..Len(out) : out'[k] = out[k]
    /\ drained => drained' /\ out' = out
    /\ TextInv'
    /\ drained' \in BOOLEAN /\ running' \in BOOLEAN
    /\ scenario' = scenario /\ shown' = shown /\ raced' = raced
    /\ \A p \in Polls :
          \/ poll'[p] = poll[p]
          \/ poll'[p] \in Viewed => poll'[p].view.next = poll'[p].view.from

\* It leaves everything well cut.
LEMMA CharKept ==
    ASSUME SInv, CharInv, Quiet
    PROVE  CharInv'
<1> USE DEF Quiet
<1>1. LogInv /\ Len(out) \in Nat /\ Len(out') \in Nat /\ Len(out) <= Len(out')
  BY DEF SInv, LogInv
<1>2. \A s \in shown : s.to <= Len(out) /\ s.from \in Nat /\ s.to \in Nat
  BY DEF CharInv, SInv, ScreenInv
<1>3. ASSUME Utf8', ~raced', NEW s \in shown' PROVE CutWell(s.from, s.to)'
  <2>1. CutWell(s.from, s.to)
    BY <1>3 DEF CharInv, Utf8
  <2> QED BY <1>1, <1>2, <1>3, <2>1, CutKept DEF CharInv
<1>4. ASSUME Utf8', ~raced', NEW p \in Polls PROVE Answered(poll[p])'
  <2>1. CASE poll'[p] = poll[p] /\ poll[p] \in Viewed
    <3> DEFINE v == poll[p].view
    <3>1. Answered(poll[p])
      BY <1>4 DEF CharInv, Utf8
    <3>2. /\ v.base + v.from \in Nat /\ v.base + v.next \in Nat
          /\ v.base + v.next <= Len(out)
      <4>1. v \in ViewType /\ v.next <= v.to /\ v.base + v.to <= Len(out)
        BY <2>1 DEF SInv, ViewInv, ViewOk, Viewed
      <4>2. v.base \in Nat /\ v.from \in Nat /\ v.next \in Nat /\ v.to \in Nat
        BY <4>1 DEF ViewType
      <4> HIDE DEF v
      <4> QED BY <1>1, <4>1, <4>2
    <3>3. CutWell(v.base + v.from, v.base + v.next)'
      BY <1>1, <2>1, <3>1, <3>2, CutKept DEF Answered, CharInv
    <3> QED BY <2>1, <3>3 DEF Answered
  <2>2. CASE poll'[p] \notin Viewed
    BY <2>2 DEF Answered
  <2>3. CASE poll'[p] \in Viewed /\ poll'[p].view.next = poll'[p].view.from
    <3>1. poll'[p].view \in ViewType
      BY <2>3 DEF Viewed
    <3>2. poll'[p].view.base \in Nat /\ poll'[p].view.from \in Nat
      BY <3>1 DEF ViewType
    <3> QED BY <2>3, <3>2 DEF Answered, CutWell
  <2> QED BY <2>1, <2>2, <2>3
<1>5. \A s \in shown' : s.to <= Len(out')
  BY <1>1, <1>2
<1>6. raced' \in BOOLEAN
  BY DEF CharInv
<1> QED BY <1>3, <1>4, <1>5, <1>6 DEF CharInv

\* The rest of ReadLog ends what is read at the end of a character.
LEMMA CharDecodes ==
    ASSUME SInv, CharInv, NEW p \in Polls, Decodes(p)
    PROVE  CharInv'
<1> DEFINE r == poll[p]
           v == r.view
           m == v.base + v.from
           n == v.base + v.to
           data == SubSeq(out, m + 1, n)
           gaveUp == Consumed(data) = 0 /\ Final
           next == v.from + (IF gaveUp THEN Len(data) ELSE Consumed(data))
           q == [r EXCEPT !.step = "answered", !.view.next = next]
<1>1. r \in Viewed /\ r.step = "read"
  BY Kinds DEF SInv, ScreenInv, Decodes
<1>2. /\ v \in ViewType /\ v.base \in Nat /\ v.from \in Nat /\ v.to \in Nat /\ v.from < v.to
      /\ v.base + v.to <= Len(out)
  BY <1>1 DEF SInv, ViewInv, ViewOk, Viewed, ViewType
<1>3. m \in Nat /\ n \in Nat /\ m < n /\ n <= Len(out) /\ LogInv /\ out \in Seq(Stored)
  <2>1. LogInv /\ out \in Seq(Stored)
    BY DEF SInv, LogInv
  <2>2. m \in Nat /\ n \in Nat /\ m < n
    <3> HIDE DEF v
    <3> QED BY <1>2
  <2> QED BY <1>2, <2>1, <2>2
<1>4. /\ poll' = [poll EXCEPT ![p] = q]
      /\ UNCHANGED <<childVars, starts, scenario, out, running, drained, shown>>
      /\ raced' = (raced \/ (gaveUp /\ ~running /\ (~drained \/ Len(out) > n)))
  BY DEF Decodes, SInv, ScreenInv, logVars, childVars, screenVars
<1>5. Len(data) = n - m /\ Consumed(data) \in {n - m - 1, n - m}
  BY <1>3, DecodeBounds
<1>6. q.view.base = v.base /\ q.view.from = v.from /\ q.view.next = next
  BY <1>1, <1>2 DEF Viewed, ViewType
<1>7. ASSUME Utf8, ~raced' PROVE CutWell(m, v.base + next)
  <2>1. SUFFICES ASSUME m < v.base + next, ~Inside(m), ~Torn(m, v.base + next)
                 PROVE  \/ out[v.base + next] # "lead"
                        \/ drained /\ v.base + next = Len(out)
    BY DEF CutWell
  <2>2. CASE gaveUp
    <3>1. next = v.from + (n - m)
      BY <1>5, <2>2
    <3>2. v.base + next = n
      <4> HIDE DEF next, data, gaveUp
      <4> QED BY <1>2, <3>1
    <3>3. ~running
      BY <2>2 DEF Final
    <3>4. drained /\ ~(Len(out) > n)
      BY <1>4, <1>7, <2>2, <3>3
    <3>5. n = Len(out)
      <4> HIDE DEF n
      <4> QED BY <1>3, <3>4
    <3> QED BY <3>2, <3>4, <3>5
  <2>3. CASE ~gaveUp
    <3>1. next = v.from + Consumed(data)
      BY <2>3
    <3>2. v.base + next = m + Consumed(data)
      <4>1. Consumed(data) \in Int
        <5> HIDE DEF data, n, m
        <5> QED BY <1>3, <1>5
      <4> HIDE DEF next, data
      <4> QED BY <1>2, <3>1, <4>1
    <3>3. \A k \in m + 2..n : out[k] # "header"
      <4>1. \A k \in v.base + 2..v.base + v.to : out[k] # "header"
        BY <1>1 DEF SInv, ViewInv, ViewOk
      <4>2. m + 2..n \subseteq v.base + 2..v.base + v.to
        <5> HIDE DEF v
        <5> QED BY <1>2
      <4> QED BY <4>1, <4>2
    <3>4. TextInv
      BY DEF CharInv
    <3> HIDE DEF next
    <3> QED BY <1>3, <1>7, <2>1, <3>2, <3>3, <3>4, DecodeEnds
  <2> QED BY <2>2, <2>3
<1>8. ASSUME Utf8', ~raced', NEW u \in Polls PROVE Answered(poll[u])'
  <2>1. ~raced /\ Utf8
    BY <1>4, <1>8, Zenon DEF Utf8
  <2>2. CASE u = p
    <3>1. /\ poll'[u].view.base = v.base /\ poll'[u].view.from = v.from
          /\ poll'[u].view.next = next
      BY <1>4, <1>6, <2>2 DEF SInv, ScreenInv
    <3>2. CutWell(m, v.base + next)
      BY <1>7, <1>8, <2>1
    <3> HIDE DEF q, next, v
    <3>3. ASSUME NEW a, NEW b, CutWell(a, b) PROVE CutWell(a, b)'
      BY <1>4, <3>3 DEF CutWell, Inside, Torn
    <3>4. /\ m = poll'[u].view.base + poll'[u].view.from
          /\ v.base + next = poll'[u].view.base + poll'[u].view.next
      BY <3>1
    <3>5. \A a, b : CutWell(a, b) => CutWell(a, b)'
      BY <3>3
    <3> QED BY <3>2, <3>4, <3>5, Zenon DEF Answered
  <2>3. CASE u # p
    <3>1. poll'[u] = poll[u]
      BY <1>4, <2>3 DEF SInv, ScreenInv
    <3>2. Answered(poll[u])
      BY <2>1 DEF CharInv
    <3> QED BY <1>4, <3>1, <3>2 DEF Answered, CutWell, Inside, Torn
  <2> QED BY <2>2, <2>3
<1>9. ASSUME Utf8', ~raced', NEW s \in shown' PROVE CutWell(s.from, s.to)'
  <2>1. ~raced /\ Utf8
    BY <1>4, <1>9, Zenon DEF Utf8
  <2>2. CutWell(s.from, s.to)
    BY <1>4, <1>9, <2>1 DEF CharInv
  <2> QED BY <1>4, <2>2 DEF CutWell, Inside, Torn
<1>10. raced' \in BOOLEAN
  BY <1>4, Zenon
<1> HIDE DEF q, gaveUp, data
<1>11. TextInv'
  BY <1>3, <1>4, TextSame DEF CharInv
<1> QED BY <1>4, <1>8, <1>9, <1>10, <1>11 DEF CharInv

\* What is shown is what was answered.
LEMMA CharApplies ==
    ASSUME SInv, CharInv, NEW p \in Polls, Apply(p)
    PROVE  CharInv'
<1> DEFINE v == poll[p].view
<1>1. /\ poll[p] \in Viewed /\ v \in ViewType /\ v.next <= v.to /\ v.base + v.to <= Len(out)
      /\ poll' = [poll EXCEPT ![p] = Idle]
      /\ shown' = (IF v.reset THEN {} ELSE shown) \cup {s \in {Span(v)} : s.from < s.to}
  BY Applied DEF ViewOk, SInv
<1>2. UNCHANGED <<childVars, starts, scenario, out, running, drained, raced>>
  BY DEF Apply, logVars, childVars
<1>3. v.base \in Nat /\ v.from \in Nat /\ v.next \in Nat /\ v.to \in Nat /\ Len(out) \in Nat
  BY <1>1 DEF ViewType, SInv, LogInv
<1>4. Span(v).from = v.base + v.from /\ Span(v).to = v.base + v.next
  BY DEF Span
<1>5. ASSUME NEW s \in shown' PROVE s \in shown \/ s = Span(v)
  BY <1>1, <1>5
<1>6. Span(v).to <= Len(out)
  <2> HIDE DEF v
  <2> QED BY <1>1, <1>3, <1>4
<1>7. ASSUME Utf8', ~raced', NEW s \in shown' PROVE CutWell(s.from, s.to)'
  <2>1. Utf8 /\ ~raced
    BY <1>2, <1>7 DEF Utf8
  <2>2. Answered(poll[p]) /\ (s \in shown => CutWell(s.from, s.to))
    BY <2>1 DEF CharInv
  <2>3. CutWell(v.base + v.from, v.base + v.next)
    BY <1>1, <2>2 DEF Answered
  <2>4. CutWell(s.from, s.to)
    BY <1>4, <1>5, <1>7, <2>2, <2>3
  <2> QED BY <1>2, <2>4 DEF CutWell, Inside, Torn
<1>8. ASSUME Utf8', ~raced', NEW u \in Polls PROVE Answered(poll[u])'
  <2>1. Utf8 /\ ~raced
    BY <1>2, <1>8 DEF Utf8
  <2>2. poll'[u] = Idle \/ poll'[u] = poll[u]
    BY <1>1 DEF SInv, ScreenInv
  <2>3. Idle \notin Viewed
    BY DEF Idle, Viewed
  <2>4. Answered(poll[u])
    BY <2>1 DEF CharInv
  <2> QED BY <1>2, <2>2, <2>3, <2>4 DEF Answered, CutWell, Inside, Torn
<1>9. \A s \in shown' : s.to <= Len(out')
  BY <1>2, <1>5, <1>6 DEF CharInv
<1>10. TextInv'
  BY <1>2, TextSame DEF CharInv, SInv
<1> QED BY <1>2, <1>7, <1>8, <1>9, <1>10 DEF CharInv

\* Every step keeps answers and the screen well cut.
LEMMA CharInductive == SInv /\ CharInv /\ [Next]_vars => CharInv'
<1> SUFFICES ASSUME SInv, CharInv, [Next]_vars PROVE CharInv'
  OBVIOUS
<1>0. /\ drained \in BOOLEAN /\ running \in BOOLEAN /\ raced \in BOOLEAN
      /\ LogInv /\ TextInv /\ Len(out) \in Nat
  BY DEF CharInv, SInv, LogInv
<1>1. ASSUME UNCHANGED <<childVars, shown, raced>>,
             UNCHANGED starts \/ (present /\ starts' = Append(starts, Base)),
             \A p \in Polls :
                \/ poll'[p] = poll[p]
                \/ poll'[p] \in Viewed => poll'[p].view.next = poll'[p].view.from
      PROVE  CharInv'
  <2>1. TextInv'
    BY <1>0, <1>1, TextSame
  <2>2. UNCHANGED <<scenario, out, running, drained, shown, raced>>
    BY <1>1 DEF childVars
  <2>3. Len(out') \in Nat /\ Len(out') >= Len(out) /\ \A k \in 1..Len(out) : out'[k] = out[k]
    BY <1>0, <2>2
  <2>4. Quiet
    BY <1>0, <1>1, <2>1, <2>2, <2>3, Zenon DEF Quiet
  <2> QED BY <2>4, CharKept
<1>2. CASE Creates \/ WritesHeader \/ Writes \/ Rotates \/ Ends
  <2>1. TextInv' /\ (drained => drained' /\ out' = out)
    BY <1>0, <1>2, TextGrows
  <2>2. LogInv' /\ LogGrows /\ UNCHANGED <<shown, poll>>
    BY <1>0, <1>2, LogMoves
  <2>3. drained' \in BOOLEAN /\ running' \in BOOLEAN /\ UNCHANGED <<scenario, raced>>
    <3>1. CASE Ends
      BY <1>0, <3>1, Zenon DEF Ends, histVars
    <3>2. CASE Creates \/ WritesHeader \/ Writes \/ Rotates
      <4>1. UNCHANGED <<scenario, running, drained, raced>>
        BY <3>2 DEF Creates, WritesHeader, Writes, Rotates, histVars
      <4> QED BY <1>0, <4>1, Zenon
    <3> QED BY <1>2, <3>1, <3>2
  <2>4. Len(out') \in Nat /\ Len(out') >= Len(out) /\ \A k \in 1..Len(out) : out'[k] = out[k]
    BY <2>2 DEF LogGrows, LogInv
  <2>5. Quiet
    BY <2>1, <2>2, <2>3, <2>4, Zenon DEF Quiet
  <2> QED BY <2>5, CharKept
<1>3. CASE UNCHANGED vars \/ Reconnects
  <2>1. UNCHANGED <<childVars, starts, shown, poll, raced>>
    BY <1>3 DEF vars, Reconnects, logVars, screenVars, histVars
  <2> QED BY <1>1, <2>1
<1>4. CASE Timer \/ Forced \/ More
  <2>1. UNCHANGED <<childVars, starts, shown, raced>>
    BY <1>4 DEF Timer, Forced, More, logVars, screenVars, histVars
  <2>2. ASSUME NEW u \in Polls PROVE poll'[u] = poll[u] \/ poll'[u] \notin Viewed
    <3>1. CASE UNCHANGED poll
      BY <3>1
    <3>2. CASE \E p \in Polls : Send(p)
      BY <3>2 DEF Send, Viewed, SInv, ScreenInv
    <3> QED BY <1>4, <3>1, <3>2 DEF Timer, Forced, More
  <2> QED BY <1>1, <2>1, <2>2
<1>5. CASE NewStream
  <2>1. /\ shown' = {} /\ UNCHANGED <<childVars, starts, poll, raced>>
        /\ UNCHANGED <<scenario, out, running, drained>>
    BY <1>5 DEF NewStream, logVars, childVars
  <2>2. TextInv'
    BY <1>0, <2>1, TextSame
  <2> QED BY <2>1, <2>2 DEF CharInv, Answered, CutWell, Inside, Torn, Utf8
<1>6. ASSUME NEW p \in Polls, ReadFile(p) \/ Lose(p) PROVE CharInv'
  <2>1. /\ UNCHANGED <<childVars, shown, raced>>
        /\ UNCHANGED starts \/ (present /\ starts' = Append(starts, Base))
    BY <1>6 DEF ReadFile, NoAnswer, FileAnswer, Lose, logVars, screenVars, histVars
  <2>2. ASSUME NEW u \in Polls
        PROVE  \/ poll'[u] = poll[u]
               \/ poll'[u] \in Viewed => poll'[u].view.next = poll'[u].view.from
    <3>1. CASE u # p
      BY <1>6, <3>1 DEF ReadFile, NoAnswer, FileAnswer, Lose, SInv, ScreenInv
    <3>2. CASE u = p /\ Lose(p)
      BY <3>2 DEF Lose, Idle, Viewed, SInv, ScreenInv
    <3>3. CASE u = p /\ ReadFile(p)
      <4>1. NoAnswer(p) => poll'[p].view.next = poll'[p].view.from
        BY DEF NoAnswer, NoFile, SInv, ScreenInv
      <4>2. FileAnswer(p) => poll'[p].view.next = poll'[p].view.from
        BY DEF FileAnswer, SInv, ScreenInv
      <4> QED BY <3>3, <4>1, <4>2 DEF ReadFile
    <3> QED BY <1>6, <3>1, <3>2, <3>3
  <2> QED BY <1>1, <2>1, <2>2
<1> QED
  BY <1>2, <1>3, <1>4, <1>5, <1>6, CharDecodes, CharApplies DEF Next, Query

\* What is well cut ends inside no character.
LEMMA CutOutside == SInv /\ CharInv => WholeCharacters
<1> SUFFICES ASSUME SInv, CharInv, Utf8, ~raced, NEW s \in shown, ~Inside(s.from),
                    ~Torn(s.from, s.to), Inside(s.to)
             PROVE  FALSE
  BY DEF WholeCharacters
<1>1. s.from < s.to /\ Len(out) \in Nat /\ s.to \in 1..Len(out) - 1 /\ out[s.to] = "lead"
  BY DEF SInv, ScreenInv, LogInv, Inside
<1>2. s.to # Len(out)
  BY <1>1
<1>3. CutWell(s.from, s.to)
  BY DEF CharInv
<1> QED BY <1>1, <1>2, <1>3 DEF CutWell

\* Reader, decoder and screen together: of a child that writes UTF-8 every character
\* is shown whole, wherever an answer is capped and however the end of the file
\* moves meanwhile, unless a lost race of the collector gave it up.
THEOREM CharactersWhole == Spec => []WholeCharacters
<1>1. Init => SInv /\ CharInv
  BY InitSInv, InitChar
<1>2. SInv /\ CharInv /\ [Next]_vars => SInv' /\ CharInv'
  BY SInvInductive, CharInductive
<1> QED
  BY <1>1, <1>2, CutOutside, PTL DEF Spec
-----------------------------------------------------------------------------
(* Types.                                                                  *)

\* A file is begun for every rotation and one more, each after the first with a
\* header, and comes into sight again for every query it is refused to.
CountInv ==
    /\ files <= scenario.rotations + 1 /\ (~present => files <= scenario.rotations)
    /\ Len(starts) <= files + scenario.refusals
    /\ given <= Len(scenario.text)
    /\ Len(out) + (IF NeedsHeader THEN 1 ELSE 0) <= given + (IF files > 1 THEN files - 1 ELSE 0)

\* What a query asks for, and where from, is something the screen had.
TInv ==
    /\ CountInv
    /\ paused \in BOOLEAN /\ crossed \in BOOLEAN
    /\ link \in {"up", "down", "refused"}
    /\ offset \in {NoOffset} \cup Offsets
    /\ place[1] \in 1..scenario.streams /\ lost \in 0..scenario.losses
    /\ \A p \in Polls :
          /\ poll[p] # Idle => poll[p].place[1] \in 1..scenario.streams
          /\ poll[p] \in Sent => poll[p].ask \in {NoOffset} \cup Offsets

\* The bounds of the scenario.
LEMMA ScenarioBounds ==
    ASSUME LogInv
    PROVE  /\ scenario.rotations \in Nat /\ scenario.losses \in Nat
           /\ scenario.refusals \in Nat
           /\ scenario.streams \in Nat \ {0} /\ Len(scenario.text) \in Nat
<1>1. scenario \in Scenarios
  BY DEF LogInv
<1>2. scenario.text \in Seq(Bytes)
  BY <1>1, LogScreenAssumption
<1> QED BY <1>1, <1>2, LogScreenAssumption

\* The child and its collector keep count,
LEMMA CountGrows ==
    ASSUME LogInv, CountInv, Creates \/ WritesHeader \/ Writes \/ Rotates \/ Ends
    PROVE  CountInv'
<1>1. /\ out \in Seq(Stored) /\ Len(out) \in Nat /\ given \in Nat /\ files \in Nat
      /\ starts \in Seq(Nat) /\ Len(starts) \in Nat
      /\ scenario.rotations \in Nat /\ scenario.refusals \in Nat /\ Len(scenario.text) \in Nat
  BY ScenarioBounds DEF LogInv
<1>2. CASE Creates
  <2>1. /\ ~present /\ present' /\ files' = files + 1 /\ UNCHANGED <<scenario, out, given>>
        /\ Len(starts') = Len(starts) + 1
    BY <1>1, <1>2 DEF Creates
  <2>2. ~NeedsHeader /\ (NeedsHeader' => files' > 1)
    BY <2>1 DEF NeedsHeader
  <2> QED BY <1>1, <2>1, <2>2 DEF CountInv
<1>3. CASE WritesHeader
  <2>1. /\ UNCHANGED <<scenario, given, files, starts, present>> /\ NeedsHeader
        /\ Len(out') = Len(out) + 1 /\ present /\ Size = 0
    BY <1>1, <1>3 DEF WritesHeader, NeedsHeader
  <2>2. Size' # 0
    BY <2>1, FileBounds DEF Size, Base
  <2>3. ~NeedsHeader'
    BY <2>2 DEF NeedsHeader
  <2> QED BY <1>1, <2>1, <2>3 DEF CountInv
<1>4. CASE Writes
  <2>1. /\ UNCHANGED <<scenario, files, starts, present>> /\ ~NeedsHeader /\ present
        /\ given' = given + 1 /\ given < Len(scenario.text)
        /\ Len(out') = Len(out) + 1
    BY <1>1, <1>4 DEF Writes
  <2>2. Size' # 0
    BY <2>1, FileBounds DEF Size, Base
  <2>3. ~NeedsHeader'
    BY <2>2 DEF NeedsHeader
  <2> QED BY <1>1, <2>1, <2>3 DEF CountInv
<1>5. CASE Rotates
  <2>1. /\ UNCHANGED <<scenario, out, given, files, starts>> /\ ~present'
        /\ files <= scenario.rotations
    BY <1>5 DEF Rotates
  <2>2. ~NeedsHeader'
    BY <2>1 DEF NeedsHeader
  <2> QED BY <1>1, <2>1, <2>2 DEF CountInv
<1>6. CASE Ends
  <2>1. UNCHANGED <<scenario, out, given, files, starts, present>>
    BY <1>6 DEF Ends
  <2>2. NeedsHeader' = NeedsHeader
    BY <2>1 DEF NeedsHeader, Size, Base
  <2> QED BY <2>1, <2>2 DEF CountInv
<1> QED BY <1>2, <1>3, <1>4, <1>5, <1>6

\* and a query is refused the file no more often than the scenario has it.
LEMMA CountSame ==
    ASSUME LogInv, CountInv, UNCHANGED childVars,
           \/ UNCHANGED starts
           \/ /\ present /\ Len(starts) - files < scenario.refusals
              /\ starts' = Append(starts, Base)
    PROVE  CountInv'
<1>1. NeedsHeader' = NeedsHeader
  BY SightedAgain
<1>2. /\ starts \in Seq(Nat) /\ Len(starts) \in Nat /\ files \in Nat
      /\ scenario.refusals \in Nat
  BY ScenarioBounds DEF LogInv
<1>3. Len(starts') <= files + scenario.refusals
  <2>1. CASE UNCHANGED starts
    BY <2>1 DEF CountInv
  <2>2. CASE ~UNCHANGED starts
    <3>1. Len(starts') = Len(starts) + 1 /\ Len(starts) - files < scenario.refusals
      BY <1>2, <2>2
    <3> QED BY <1>2, <3>1
  <2> QED BY <2>1, <2>2
<1> QED BY <1>1, <1>3 DEF CountInv, childVars

\* What was written is within the bounds of the scenario.
LEMMA OffsetBounds ==
    ASSUME LogInv, CountInv
    PROVE  Len(out) \in Offsets
<1>1. /\ Len(out) \in Nat /\ given \in Nat /\ files \in Nat
      /\ scenario.rotations \in Nat /\ Len(scenario.text) \in Nat
  BY ScenarioBounds DEF LogInv
<1>2. Len(out) <= given + (IF files > 1 THEN files - 1 ELSE 0)
  BY <1>1 DEF CountInv
<1>3. Len(out) <= Len(scenario.text) + scenario.rotations
  BY <1>1, <1>2 DEF CountInv
<1> QED BY <1>1, <1>3 DEF Offsets

\* At first nothing is written, asked for or lost.
LEMMA InitTypes == Init => TInv
<1> SUFFICES ASSUME Init PROVE TInv
  OBVIOUS
<1>1. LogInv
  BY InitSInv DEF SInv
<1>2. Idle \notin Sent
  BY DEF Idle, Sent
<1>3. /\ Len(starts) = 0 /\ offset = NoOffset /\ place[1] = 1 /\ lost = 0
      /\ paused = FALSE /\ crossed = FALSE /\ \A p \in Polls : poll[p] = Idle
      /\ Len(out) = 0 /\ given = 0 /\ files = 0 /\ present = FALSE /\ link = "up"
  BY DEF Init
<1>4. paused \in BOOLEAN /\ crossed \in BOOLEAN
  BY <1>3, Zenon
<1>5. /\ 0 <= scenario.rotations + 1 /\ 0 <= scenario.rotations
      /\ 0 <= scenario.refusals /\ 0 <= Len(scenario.text)
      /\ 1 \in 1..scenario.streams /\ 0 \in 0..scenario.losses
  BY <1>1, ScenarioBounds
<1>6. CountInv
  <2>1. ~NeedsHeader
    BY <1>3 DEF NeedsHeader
  <2>2. scenario.refusals \in Nat
    BY <1>1, ScenarioBounds
  <2> QED BY <1>3, <1>5, <2>1, <2>2 DEF CountInv
<1> QED BY <1>2, <1>3, <1>4, <1>5, <1>6 DEF TInv

\* A step that leaves the screen where it is, and whose queries were there before, or
\* are sent or answered from where the screen, or a query before it, stands.
LEMMA TypesKept ==
    ASSUME SInv, TInv, scenario' = scenario, offset' = offset, place' = place,
           CountInv', link' \in {"up", "down", "refused"},
           paused' \in BOOLEAN, crossed' \in BOOLEAN, lost' \in 0..scenario.losses,
           \A p \in Polls :
              \/ poll'[p] = poll[p]
              \/ poll'[p] = Idle
              \/ poll'[p].place = place /\ poll'[p].ask = offset
              \/ poll'[p] \notin Sent /\ poll[p] # Idle /\ poll'[p].place = poll[p].place
    PROVE  TInv'
<1>1. ASSUME NEW p \in Polls
      PROVE  /\ poll'[p] # Idle => poll'[p].place[1] \in 1..scenario.streams
             /\ poll'[p] \in Sent => poll'[p].ask \in {NoOffset} \cup Offsets
  <2>1. Idle \notin Sent
    BY DEF Idle, Sent
  <2> QED BY <2>1 DEF TInv
<1>2. Offsets' = Offsets
  BY DEF Offsets
<1>3. offset' \in {NoOffset} \cup Offsets /\ place'[1] \in 1..scenario.streams
  BY DEF TInv
<1> QED BY <1>1, <1>2, <1>3 DEF TInv

\* Every step keeps the types.
LEMMA TypesInductive == SInv /\ TInv /\ [Next]_vars => TInv'
<1> SUFFICES ASSUME SInv, TInv, [Next]_vars PROVE TInv'
  OBVIOUS
<1>0. /\ paused \in BOOLEAN /\ crossed \in BOOLEAN /\ lost \in 0..scenario.losses
      /\ link \in {"up", "down", "refused"} /\ LogInv /\ CountInv
      /\ poll \in [Polls -> {Idle} \cup Sent \cup Viewed]
  BY DEF TInv, SInv, ScreenInv
<1>1. CASE UNCHANGED vars \/ Reconnects
  <2>1. /\ UNCHANGED <<childVars, starts, scenario, offset, paused, poll, place, crossed, lost>>
        /\ link' \in {"up", "down", "refused"}
    BY <1>0, <1>1 DEF vars, Reconnects, logVars, childVars, screenVars, histVars
  <2> QED BY <1>0, <2>1, CountSame, TypesKept
<1>2. CASE Creates \/ WritesHeader \/ Writes \/ Rotates \/ Ends
  <2>1. UNCHANGED <<scenario, offset, paused, link, poll, place, crossed, lost>>
    BY <1>2 DEF Creates, WritesHeader, Writes, Rotates, Ends, screenVars, histVars
  <2> QED BY <1>0, <1>2, <2>1, CountGrows, TypesKept
<1>3. CASE Timer \/ Forced \/ More
  <2>1. UNCHANGED <<childVars, starts, scenario, offset, link, place, crossed, lost>>
    BY <1>3 DEF Timer, Forced, More, logVars, childVars, screenVars, histVars
  <2>2. paused' \in BOOLEAN
    BY <1>0, <1>3, Zenon DEF Timer, Forced, More, screenVars
  <2>3. ASSUME NEW u \in Polls
        PROVE  poll'[u] = poll[u] \/ (poll'[u].place = place /\ poll'[u].ask = offset)
    <3>1. CASE UNCHANGED poll
      BY <3>1
    <3>2. CASE \E p \in Polls : Send(p)
      BY <1>0, <3>2 DEF Send
    <3> QED BY <1>3, <3>1, <3>2 DEF Timer, Forced, More
  <2> QED BY <1>0, <2>1, <2>2, <2>3, CountSame, TypesKept
<1>4. CASE NewStream
  <2>1. /\ place'[1] = place[1] + 1 /\ place[1] < scenario.streams
        /\ paused' = FALSE /\ offset' \in {NoOffset, 0}
        /\ UNCHANGED <<childVars, starts, scenario, link, poll, crossed, lost>>
    BY <1>4 DEF NewStream, logVars, childVars
  <2>2. place'[1] \in 1..scenario.streams
    BY <1>0, <2>1, ScenarioBounds DEF TInv
  <2>3. Offsets' = Offsets /\ 0 \in Offsets
    BY <1>0, <2>1, ScenarioBounds DEF Offsets
  <2>4. CountInv'
    BY <1>0, <2>1, CountSame
  <2> QED BY <1>0, <2>1, <2>2, <2>3, <2>4 DEF TInv
<1>5. ASSUME NEW p \in Polls, ReadFile(p) \/ Decodes(p) \/ Lose(p) PROVE TInv'
  <2>1. /\ UNCHANGED <<childVars, scenario, offset, paused, place, crossed>>
        /\ lost' \in 0..scenario.losses
    <3>1. UNCHANGED <<childVars, scenario, offset, paused, place, crossed>>
      BY <1>5 DEF ReadFile, Decodes, Lose, logVars, childVars, screenVars, histVars
    <3>2. lost' = lost \/ (lost < scenario.losses /\ lost' = lost + 1)
      BY <1>5 DEF ReadFile, Decodes, Lose, histVars
    <3> QED BY <1>0, <3>1, <3>2, ScenarioBounds
  <2>2. CountInv'
    <3>1. \/ UNCHANGED starts
          \/ /\ present /\ Len(starts) - files < scenario.refusals
             /\ starts' = Append(starts, Base)
      BY <1>5 DEF ReadFile, NoAnswer, FileAnswer, Decodes, Lose, logVars
    <3> QED BY <1>0, <2>1, <3>1, CountSame
  <2>3. link' \in {"up", "down", "refused"}
    BY <1>0, <1>5 DEF ReadFile, Decodes, Lose, screenVars
  <2>4. ASSUME NEW u \in Polls, poll'[u] # poll[u]
        PROVE  \/ poll'[u] = Idle
               \/ poll'[u] \notin Sent /\ poll[u] # Idle /\ poll'[u].place = poll[u].place
    <3>1. u = p
      BY <1>0, <1>5, <2>4 DEF ReadFile, NoAnswer, FileAnswer, Decodes, Lose
    <3>2. poll[p] # Idle
      BY <1>5 DEF ReadFile, Decodes, Lose, Idle
    <3>3. Lose(p) => poll'[p] = Idle
      BY <1>0 DEF Lose
    <3>4. NoAnswer(p) \/ FileAnswer(p) => /\ poll'[p].step \in {"read", "answered"}
                                          /\ poll'[p].place = poll[p].place
      BY <1>0 DEF NoAnswer, FileAnswer
    <3>5. Decodes(p) => poll'[p].step = "answered" /\ poll'[p].place = poll[p].place
      <4> SUFFICES ASSUME Decodes(p)
                   PROVE  poll'[p].step = "answered" /\ poll'[p].place = poll[p].place
        OBVIOUS
      <4>1. poll[p] \in Viewed
        BY <1>0, Kinds DEF Decodes
      <4> QED BY <1>0, <4>1 DEF Decodes, Viewed
    <3> QED BY <1>5, <3>1, <3>2, <3>3, <3>4, <3>5 DEF ReadFile, Sent
  <2> QED BY <1>0, <2>1, <2>2, <2>3, <2>4, TypesKept
<1>6. ASSUME NEW p \in Polls, Apply(p) PROVE TInv'
  <2> DEFINE v == poll[p].view
  <2>1. /\ poll' = [poll EXCEPT ![p] = Idle] /\ offset' = v.next
        /\ place' = <<place[1], v.file>>
        /\ UNCHANGED <<childVars, starts, scenario, lost>>
        /\ poll[p] \in Viewed /\ v \in ViewType
        /\ v.from <= v.next /\ v.next <= v.to /\ v.base + v.to <= Len(out)
    BY <1>6, Applied DEF Apply, Following, logVars, childVars, SInv, ViewOk
  <2>2. offset' \in Offsets
    <3>1. /\ v.base \in Nat /\ v.next \in Nat /\ v.to \in Nat /\ Len(out) \in Nat
      BY <1>0, <2>1 DEF ViewType, LogInv
    <3>2. Len(out) \in Offsets
      BY <1>0, OffsetBounds
    <3>3. v.next <= Len(out)
      <4> HIDE DEF v
      <4> QED BY <2>1, <3>1
    <3> HIDE DEF v
    <3> QED BY <1>0, <2>1, <3>1, <3>2, <3>3, ScenarioBounds DEF Offsets
  <2>3. paused' \in BOOLEAN /\ crossed' \in BOOLEAN
    BY <1>0, <1>6, Zenon DEF Apply
  <2>4. \A u \in Polls : poll'[u] = poll[u] \/ poll'[u] = Idle
    BY <1>0, <2>1
  <2>5. Idle \notin Sent /\ Offsets' = Offsets
    BY <2>1 DEF Idle, Sent, Offsets
  <2>6. CountInv'
    BY <1>0, <2>1, CountSame
  <2>7. link' \in {"up", "down", "refused"}
    BY <1>0, <1>6 DEF Apply
  <2> QED BY <1>0, <2>1, <2>2, <2>3, <2>4, <2>5, <2>6, <2>7 DEF TInv
<1> QED
  BY <1>1, <1>2, <1>3, <1>4, <1>5, <1>6 DEF Next, Query

\* With the places and views of the first invariant this is the type invariant.
LEMMA TypesHold == SInv /\ CharInv /\ TInv => TypeOK
<1> SUFFICES ASSUME SInv, CharInv, TInv PROVE TypeOK
  OBVIOUS
<1>1. LogInv /\ ScreenInv /\ PlaceInv /\ ViewInv
  BY DEF SInv
<1> DEFINE N == Len(scenario.text) + scenario.rotations
           F == 2 * (scenario.rotations + scenario.refusals) + 2
<1>2. /\ N \in Nat /\ scenario.rotations \in Nat /\ scenario.refusals \in Nat
      /\ Len(out) \in Nat /\ Len(starts) \in Nat /\ F \in Nat /\ files \in Nat
      /\ CountInv /\ TextInv
  <2>1. CountInv /\ TextInv
    BY DEF TInv, CharInv
  <2>2. Len(out) \in Nat /\ Len(starts) \in Nat /\ files \in Nat
    BY <1>1 DEF LogInv
  <2>3. /\ scenario.rotations \in Nat /\ scenario.refusals \in Nat
        /\ Len(scenario.text) \in Nat
    BY <1>1, ScenarioBounds
  <2> QED BY <2>1, <2>2, <2>3
<1>3. Current \in Int /\ Current <= F
  <2> DEFINE r == scenario.rotations
             n == scenario.refusals
  <2>1. /\ files <= r + 1 /\ (~present => files <= r) /\ Len(starts) <= files + n
    BY <1>2 DEF CountInv
  <2>2. r \in Nat /\ n \in Nat /\ files \in Nat /\ Len(starts) \in Nat
    BY <1>2
  <2>3. F = 2 * (r + n) + 2
    OBVIOUS
  <2> HIDE DEF F, N, r, n
  <2>4. /\ Len(starts) <= r + n + 1 /\ (~present => Len(starts) <= r + n)
    BY <2>1, <2>2
  <2> QED BY <2>2, <2>3, <2>4 DEF Current
<1>4. /\ scenario \in Scenarios /\ out \in Seq(Stored) /\ Len(out) \in Offsets
      /\ Len(out) <= N /\ given \in 0..Len(scenario.text)
      /\ files \in 0..scenario.rotations + 1
  <2>1. given \in Nat /\ given <= Len(scenario.text) /\ files <= scenario.rotations + 1
    BY <1>1, <1>2 DEF LogInv, CountInv
  <2>2. Len(out) \in Offsets
    BY <1>1, <1>2, OffsetBounds
  <2>3. Len(out) <= N
    <3>1. Len(out) \in 0..N
      BY <2>2 DEF Offsets
    <3> HIDE DEF N
    <3> QED BY <1>2, <3>1
  <2>4. scenario \in Scenarios /\ out \in Seq(Stored)
    BY <1>1 DEF LogInv
  <2>5. /\ Len(scenario.text) \in Nat /\ scenario.rotations \in Nat /\ files \in Nat
    BY <1>1, <1>2, ScenarioBounds
  <2> HIDE DEF N, F
  <2> QED BY <2>1, <2>2, <2>3, <2>4, <2>5
<1>5. starts \in Seq(Offsets) /\ (present => starts # << >>)
  <2>1. \A n \in 1..Len(starts) : starts[n] \in Offsets
    BY <1>1, <1>2, <1>4 DEF LogInv, Offsets
  <2> QED BY <1>1, <2>1 DEF LogInv
<1>6. {present, running, drained, paused, crossed, raced} \subseteq BOOLEAN
  <2>1. /\ present \in BOOLEAN /\ running \in BOOLEAN /\ drained \in BOOLEAN
        /\ paused \in BOOLEAN /\ crossed \in BOOLEAN /\ raced \in BOOLEAN
    BY <1>1 DEF CharInv, TInv, LogInv
  <2> QED BY <2>1
<1>7. place \in Place
  <2>1. place[2] \in 0..F
    BY <1>1, <1>2, <1>3, Numbers DEF PlaceInv
  <2> QED BY <1>1, <2>1 DEF TInv, ScreenInv, Place, Sights
<1>8. \A s \in shown : s.from < s.to /\ s.to <= Len(out)
  BY <1>1 DEF ScreenInv, CharInv
<1>9. ASSUME NEW p \in Polls
      PROVE  poll[p] \in {Idle}
                \cup [step : {"sent"}, ask : {NoOffset} \cup Offsets, place : Place]
                \cup {q \in [step : {"read", "answered"}, view : View, place : Place] :
                        q.view.base + q.view.to <= Len(out)}
  <2> DEFINE q == poll[p]
             v == q.view
  <2>1. q \in {Idle} \cup Sent \cup Viewed /\ PlaceOk(q) /\ ViewOk(q)
    BY <1>1 DEF ScreenInv, PlaceInv, ViewInv
  <2>2. ASSUME q # Idle PROVE q.place \in Place
    <3>1. q.place \in Nat \X Nat /\ q.place[2] <= Current
      BY <2>1, <2>2 DEF Sent, Viewed, PlaceOk
    <3>2. q.place[2] \in 0..F
      BY <1>2, <1>3, <3>1
    <3> QED BY <2>2, <3>1, <3>2 DEF TInv, Place, Sights
  <2>3. CASE q \in Sent
    <3>1. q # Idle
      BY <2>3 DEF Idle, Sent
    <3> QED BY <2>2, <2>3, <3>1 DEF TInv, Sent
  <2>4. CASE q \in Viewed
    <3>1. q # Idle
      BY <2>4 DEF Idle, Viewed
    <3>2. /\ v \in ViewType /\ v.from <= v.next /\ v.next <= v.to
          /\ v.base + v.to <= Len(out) /\ v.file <= Current
      BY <2>1, <2>4 DEF Viewed, ViewOk
    <3>3. /\ v.base \in Nat /\ v.from \in Nat /\ v.next \in Nat /\ v.to \in Nat
          /\ v.file \in Nat
      BY <3>2 DEF ViewType
    <3>4. /\ v.base \in 0..N /\ v.from \in 0..N /\ v.next \in 0..N /\ v.to \in 0..N
          /\ v.file \in 0..F
      <4> HIDE DEF v, N, F
      <4>1. v.base <= Len(out) /\ v.to <= Len(out) /\ v.from <= v.to /\ v.next <= v.to
        BY <1>2, <3>2, <3>3
      <4>2. v.base <= N /\ v.to <= N /\ v.from <= N /\ v.next <= N
        <5>1. Len(out) \in Nat /\ N \in Nat /\ Len(out) <= N
          BY <1>2, <1>4
        <5> QED BY <3>3, <4>1, <5>1
      <4>3. N \in Nat /\ v.file <= F
        BY <1>2, <1>3, <3>2, <3>3
      <4> QED BY <1>2, <3>3, <4>2, <4>3
    <3>5. v \in View
      BY <3>2, <3>4 DEF View, ViewType, Offsets, Sights
    <3> QED BY <2>2, <2>4, <3>1, <3>2, <3>5 DEF Viewed
  <2> QED BY <2>1, <2>3, <2>4
<1> QED
  BY <1>4, <1>5, <1>6, <1>7, <1>8, <1>9 DEF TInv, TypeOK

\* Every variable of the log view keeps its type: every view lies within what was
\* written, and no more files are begun, polls lost or logs asked for than the
\* scenario has.
THEOREM TypesOfTheLog == Spec => []TypeOK
<1>1. Init => SInv /\ CharInv /\ TInv
  BY InitSInv, InitChar, InitTypes
<1>2. (SInv /\ CharInv /\ TInv) /\ [Next]_vars => (SInv /\ CharInv /\ TInv)'
  BY SInvInductive, CharInductive, TypesInductive
<1> QED
  BY <1>1, <1>2, TypesHold, PTL DEF Spec
==============================================================================
