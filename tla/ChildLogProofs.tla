--------------------------- MODULE ChildLogProofs ----------------------------
(***************************************************************************)
(* Theorems about ChildLog, for any number of runs and any output, either  *)
(* platform, and whatever the file system refuses.                         *)
(***************************************************************************)
EXTENDS ChildLog, FiniteSetTheorems, TLAPS

-----------------------------------------------------------------------------

\* What a step of the server may do to the operations log.
OpsMove ==
    \/ UNCHANGED opsVars
    \/ Log("other") \/ Log("rotated") \/ Once("failed")
    \/ OpsClose

\* Every step is one of them.
LEMMA OpsMoves == [Next]_vars => OpsMove
<1> SUFFICES ASSUME [Next]_vars PROVE OpsMove
  OBVIOUS
<1>1. CASE UNCHANGED vars
  BY <1>1 DEF vars, OpsMove
<1>2. CASE WriteMarker \/ StartFails \/ StartCollector \/ Query \/ Server
  BY <1>2 DEF WriteMarker, StartFails, StartCollector, Query, Server, OpsOther, OpsMove
<1>3. ASSUME NEW r \in RunNos, ChildWrites(r) \/ ChildEnds(r) \/ Collect(r) PROVE OpsMove
  BY <1>3 DEF ChildWrites, ChildEnds, Collect, Read, EndOfStream, ReadFails, Put, Close,
              RemoveOldest, Shift, Aside, Reopen, ReportsReopen, Header, Tell, OpsMove
<1> QED BY <1>1, <1>2, <1>3 DEF Next

\* What was recorded once stays so.
LEMMA OnceStays == OpsMove => once \subseteq once'
  BY DEF OpsMove, opsVars, Log, Once, OpsClose

-----------------------------------------------------------------------------

\* What PipesAreDrained is about, in its types.  The property is inductive: the
\* end of the stream is the only way out of the loop of a collector, but for a
\* failure that is recorded.
DrainInv ==
    /\ at \in [RunNos -> CollSteps]
    /\ held \in [RunNos -> BOOLEAN]
    /\ alive \in [RunNos -> BOOLEAN]
    /\ pipe \in [RunNos -> Seq(Nat)]
    /\ produced \in Nat /\ run \in Nat
    /\ PipesAreDrained

\* At first nothing is held and nothing was written.
LEMMA InitDrain == Init => DrainInv
  BY DEF Init, DrainInv, PipesAreDrained, CollSteps

\* A collector that goes on to another step of its loop goes on draining.
LEMMA LoopStep ==
    ASSUME DrainInv, NEW r \in RunNos, NEW step \in CollSteps \ {"none", "done"},
           once \subseteq once', step = "unreadable" => "failed" \in once',
           Goto(r, step), UNCHANGED <<alive, held, run, produced>>,
           pipe' = pipe \/ (pipe' = [pipe EXCEPT ![r] = Tail(@)] /\ pipe[r] # << >>)
    PROVE  DrainInv'
<1>1. at' \in [RunNos -> CollSteps]
  BY DEF DrainInv, Goto
<1>2. pipe' \in [RunNos -> Seq(Nat)]
  <2>1. pipe[r] \in Seq(Nat)
    BY DEF DrainInv
  <2>2. pipe[r] # << >> => Tail(pipe[r]) \in Seq(Nat)
    BY <2>1
  <2> QED BY <2>2 DEF DrainInv
<1>3. ASSUME NEW q \in RunNos, held'[q] \/ pipe'[q] # << >>
      PROVE  Attached(q)' /\ (at'[q] = "unreadable" => "failed" \in once')
  <2>1. CASE q = r
    BY <2>1 DEF DrainInv, Goto, Attached
  <2>2. CASE q # r
    <3>1. at'[q] = at[q] /\ pipe'[q] = pipe[q]
      BY <2>2 DEF DrainInv, Goto
    <3> QED BY <1>3, <3>1 DEF DrainInv, PipesAreDrained, Attached
  <2> QED BY <2>1, <2>2
<1> QED
  BY <1>1, <1>2, <1>3 DEF DrainInv, PipesAreDrained

\* A collector goes on to another step of its loop, or ends with its stream.
LEMMA CollectDrain ==
    ASSUME DrainInv, NEW r \in RunNos, Collect(r), once \subseteq once'
    PROVE  DrainInv'
<1>1. CASE EndOfStream(r)
  <2>1. at' = [at EXCEPT ![r] = "done"] /\ ~held[r] /\ pipe[r] = << >> /\ UNCHANGED runVars
    BY <1>1 DEF EndOfStream, Goto
  <2>2. at' \in [RunNos -> CollSteps]
    BY <2>1 DEF DrainInv, CollSteps
  <2>3. ASSUME NEW q \in RunNos, held'[q] \/ pipe'[q] # << >>
      PROVE  Attached(q)' /\ (at'[q] = "unreadable" => "failed" \in once')
    BY <2>1, <2>3 DEF DrainInv, PipesAreDrained, Attached, runVars
  <2> QED
    BY <2>1, <2>2, <2>3 DEF DrainInv, PipesAreDrained, runVars
<1>2. CASE ~EndOfStream(r)
  <2>1. /\ \E step \in CollSteps \ {"none", "done"} :
              Goto(r, step) /\ (step = "unreadable" => "failed" \in once')
        /\ UNCHANGED <<alive, held, run, produced>>
        /\ pipe' = pipe \/ (pipe' = [pipe EXCEPT ![r] = Tail(@)] /\ pipe[r] # << >>)
    <3>1. CASE Read(r)
      BY <3>1 DEF Read, OnNoFile, CollSteps, Rotating
    <3>2. CASE Put(r) \/ Close(r) \/ RemoveOldest(r) \/ Shift(r)
      BY <3>2 DEF Put, Close, RemoveOldest, Shift, CollSteps, Rotating, runVars
    <3>3. CASE Aside(r) \/ Reopen(r) \/ Header(r) \/ Tell(r)
      BY <3>3 DEF Aside, Reopen, Header, Tell, CollSteps, Rotating, runVars
    <3>4. CASE ReadFails(r)
      <4>1. "failed" \in once'
        BY <3>4 DEF ReadFails, Once, opsVars
      <4> QED BY <3>4, <4>1 DEF ReadFails, CollSteps, runVars
    <3> QED BY <1>2, <3>1, <3>2, <3>3, <3>4 DEF Collect
  <2> QED BY <2>1, LoopStep
<1> QED BY <1>1, <1>2

\* The child and whoever inherited its pipe.
LEMMA ChildDrain ==
    ASSUME DrainInv, NEW r \in RunNos, ChildWrites(r) \/ ChildEnds(r), once \subseteq once'
    PROVE  DrainInv'
<1>1. CASE ChildWrites(r)
  <2>1. /\ held[r] /\ UNCHANGED <<at, alive, held, run>>
        /\ produced' = produced + 1
        /\ pipe' = [pipe EXCEPT ![r] = Append(@, produced + 1)]
    BY <1>1 DEF ChildWrites, collVars
  <2>2. pipe' \in [RunNos -> Seq(Nat)] /\ produced' \in Nat
    BY <2>1 DEF DrainInv
  <2>3. ASSUME NEW q \in RunNos, held'[q] \/ pipe'[q] # << >>
      PROVE  Attached(q)' /\ (at'[q] = "unreadable" => "failed" \in once')
    BY <2>1, <2>3 DEF DrainInv, PipesAreDrained, Attached
  <2> QED BY <2>1, <2>2, <2>3 DEF DrainInv, PipesAreDrained
<1>2. CASE ChildEnds(r)
  <2>1. /\ UNCHANGED <<at, pipe, run, produced>>
        /\ alive' = [alive EXCEPT ![r] = FALSE]
        /\ held' \in {held, [held EXCEPT ![r] = FALSE]}
    BY <1>2 DEF ChildEnds, collVars
  <2>2. alive' \in [RunNos -> BOOLEAN] /\ held' \in [RunNos -> BOOLEAN]
    BY <2>1 DEF DrainInv
  <2>3. ASSUME NEW q \in RunNos, held'[q] \/ pipe'[q] # << >>
      PROVE  Attached(q)' /\ (at'[q] = "unreadable" => "failed" \in once')
    <3>1. held'[q] => held[q]
      BY <2>1 DEF DrainInv
    <3> QED BY <2>1, <2>3, <3>1 DEF DrainInv, PipesAreDrained, Attached
  <2> QED BY <2>1, <2>2, <2>3 DEF DrainInv, PipesAreDrained
<1> QED BY <1>1, <1>2

\* The start of a run, its collector's included.
LEMMA SpawnDrain ==
    ASSUME DrainInv, WriteMarker \/ StartFails \/ StartCollector, once \subseteq once'
    PROVE  DrainInv'
<1>1. CASE WriteMarker \/ StartFails
  <2>1. UNCHANGED <<at, alive, held, pipe, produced>> /\ run' \in {run, run + 1}
    BY <1>1 DEF WriteMarker, StartFails, collVars
  <2> QED BY <2>1 DEF DrainInv, PipesAreDrained, Attached
<1>2. CASE StartCollector
  <2> DEFINE r == run + 1
  <2>1. /\ run' = r /\ UNCHANGED <<pipe, produced>>
        /\ alive' = [alive EXCEPT ![r] = TRUE] /\ held' = [held EXCEPT ![r] = TRUE]
        /\ at' = [at EXCEPT ![r] = "read"]
    BY <1>2 DEF StartCollector, Goto
  <2>2. /\ alive' \in [RunNos -> BOOLEAN] /\ held' \in [RunNos -> BOOLEAN]
        /\ at' \in [RunNos -> CollSteps] /\ run' \in Nat
    <3>1. alive' \in [RunNos -> BOOLEAN] /\ held' \in [RunNos -> BOOLEAN]
      BY <2>1 DEF DrainInv
    <3>2. at' \in [RunNos -> CollSteps]
      BY <2>1 DEF DrainInv, CollSteps
    <3>3. run' \in Nat
      BY <2>1 DEF DrainInv
    <3> QED BY <3>1, <3>2, <3>3
  <2>3. ASSUME NEW q \in RunNos, held'[q] \/ pipe'[q] # << >>
      PROVE  Attached(q)' /\ (at'[q] = "unreadable" => "failed" \in once')
    <3>1. CASE q = r
      BY <2>1, <3>1 DEF DrainInv, Attached
    <3>2. CASE q # r
      <4>1. at'[q] = at[q] /\ held'[q] = held[q] /\ pipe'[q] = pipe[q]
        BY <2>1, <3>2 DEF DrainInv
      <4> QED BY <2>3, <4>1 DEF DrainInv, PipesAreDrained, Attached
    <3> QED BY <3>1, <3>2
  <2> QED BY <2>1, <2>2, <2>3 DEF DrainInv, PipesAreDrained
<1> QED BY <1>1, <1>2

\* Every other step leaves collectors where they are.
LEMMA DrainInductive == DrainInv /\ [Next]_vars => DrainInv'
<1> SUFFICES ASSUME DrainInv, [Next]_vars PROVE DrainInv'
  OBVIOUS
<1>0. once \subseteq once'
  BY OpsMoves, OnceStays
<1>1. CASE Query \/ Server \/ UNCHANGED vars
  <2>1. UNCHANGED <<at, alive, held, pipe, produced, run>>
    BY <1>1 DEF Query, Server, vars, collVars, runVars
  <2> QED BY <1>0, <2>1 DEF DrainInv, PipesAreDrained, Attached
<1> QED
  BY <1>0, <1>1, SpawnDrain, ChildDrain, CollectDrain DEF Next

\* Collectors and child processes together: a pipe that something can still write
\* to, or that output is left in, has a collector at work on it, so no child
\* ever waits for room that nobody is going to make, unless the log says why.
THEOREM NobodyIsStuck == Spec => []PipesAreDrained
<1>1. DrainInv => PipesAreDrained
  BY DEF DrainInv
<1> QED
  BY InitDrain, DrainInductive, <1>1, PTL DEF Spec

-----------------------------------------------------------------------------
(* Files and names.                                                        *)

\* What the provers need to know of the constants.
LEMMA Constants ==
    /\ Runs \in Nat \ {0} /\ Chunks \in Nat /\ Keep \in Nat \ {0}
    /\ OpsRotate \in Nat \ {0, 1} /\ OpsKeep \in Nat \ {0}
    /\ 0 \in Slots /\ Keep \in Slots /\ Slots \subseteq Nat
    /\ Inodes \subseteq Nat \ {0} /\ Nil \notin Inodes /\ Nil = 0
  BY ChildLogAssumption, OpsAssumption DEF Slots, Inodes, Nil

Names ==
    /\ dir \in [Slots -> Inodes \cup {Nil}] /\ fd \in [RunNos -> Inodes \cup {Nil}]
    /\ query \in Inodes \cup {Nil}

\* There are more inodes than archives, collectors and queries can hold, so one is
\* free for a path that is not there: no two inodes are held by the same holder.
LEMMA SpareInode ==
    ASSUME Names, dir[0] = Nil
    PROVE  \E i \in Inodes : i \notin InUse
<1> DEFINE N == Keep + Runs + 1
           holder == [h \in 1..N |-> IF h <= Keep THEN dir[h]
                                     ELSE IF h <= Keep + Runs THEN fd[h - Keep] ELSE query]
           of == [i \in Inodes |-> CHOOSE h \in 1..N : holder[h] = i]
<1>1. /\ Keep \in Nat /\ Runs \in Nat /\ N \in Nat /\ Inodes = 1..N + 1 /\ Nil \notin Inodes
  BY Constants DEF Inodes
<1>2. SUFFICES ASSUME \A i \in Inodes : i \in InUse PROVE FALSE
  OBVIOUS
<1>3. ASSUME NEW i \in Inodes PROVE \E h \in 1..N : holder[h] = i
  <2>1. i # Nil /\ i \in InUse
    BY <1>1, <1>2
  <2>2. CASE \E n \in Slots : dir[n] = i
    <3>1. PICK n \in Slots : dir[n] = i
      BY <2>2
    <3>2. n \in 1..Keep
      BY <2>1, <3>1, Constants DEF Slots
    <3>3. n \in 1..N /\ n <= Keep
      BY <1>1, <3>2
    <3> HIDE DEF N
    <3> QED BY <3>1, <3>3
  <2>3. CASE \E r \in RunNos : fd[r] = i
    <3>1. PICK r \in RunNos : fd[r] = i
      BY <2>3
    <3>2. /\ Keep + r \in 1..N /\ ~(Keep + r <= Keep) /\ Keep + r <= Keep + Runs
          /\ (Keep + r) - Keep = r
      BY <1>1, <3>1 DEF RunNos
    <3> HIDE DEF N
    <3> QED BY <3>1, <3>2
  <2>4. CASE query = i
    <3>1. N \in 1..N /\ ~(N <= Keep) /\ ~(N <= Keep + Runs)
      BY <1>1, Constants
    <3> HIDE DEF N
    <3> QED BY <2>4, <3>1
  <2> QED BY <2>1, <2>2, <2>3, <2>4 DEF InUse
<1>4. of \in [Inodes -> 1..N] /\ \A i \in Inodes : holder[of[i]] = i
  <2> HIDE DEF N, holder
  <2> QED BY <1>3
<1>5. /\ IsFiniteSet(Inodes) /\ IsFiniteSet(1..N)
      /\ Cardinality(1..N) < Cardinality(Inodes)
  <2>1. 1 \in Int /\ N \in Int /\ N + 1 \in Int
    BY <1>1
  <2>2. /\ IsFiniteSet(1..N) /\ Cardinality(1..N) = IF 1 > N THEN 0 ELSE N - 1 + 1
        /\ IsFiniteSet(1..N + 1) /\ Cardinality(1..N + 1) = IF 1 > N + 1 THEN 0 ELSE N + 1 - 1 + 1
    <3> HIDE DEF N
    <3> QED BY <2>1, FS_Interval
  <2> HIDE DEF N
  <2> QED BY <1>1, <2>2
<1>6. \E x, y \in Inodes : x # y /\ of[x] = of[y]
  <2> DEFINE T == 1..N
  <2>1. of \in [Inodes -> T] /\ IsFiniteSet(Inodes) /\ IsFiniteSet(T)
        /\ Cardinality(T) < Cardinality(Inodes)
    BY <1>4, <1>5
  <2> HIDE DEF T, N, of
  <2> QED BY <2>1, FS_PigeonHole, Zenon
<1> HIDE DEF N, holder, of
<1>7. PICK x \in Inodes, y \in Inodes : x # y /\ of[x] = of[y]
  BY <1>6
<1>8. holder[of[x]] = x /\ holder[of[y]] = y
  BY <1>4
<1> QED BY <1>7, <1>8

\* What the path is opened as: the file that is there, or one nobody holds.
LEMMA PathIsThere ==
    ASSUME Names
    PROVE  /\ Path \in Inodes /\ Path # Nil
           /\ dir[0] # Nil => Path = dir[0]
           /\ dir[0] = Nil => Path \notin InUse
<1>1. 0 \in Slots /\ Nil \notin Inodes
  BY Constants
<1>2. CASE dir[0] # Nil
  BY <1>1, <1>2 DEF Path, Names
<1>3. CASE dir[0] = Nil
  <2>1. PICK i \in Inodes : i \notin InUse
    BY <1>3, SpareInode
  <2>2. Path = CHOOSE j \in Inodes : j \notin InUse
    BY <1>3 DEF Path
  <2>3. Path \in Inodes /\ Path \notin InUse
    BY <2>1, <2>2
  <2> QED BY <1>1, <1>3, <2>3
<1> QED BY <1>2, <1>3
-----------------------------------------------------------------------------
(* The operations log.                                                     *)

\* A record is added to a log that keeps its type.
LEMMA WriteTypes ==
    ASSUME OpsTypeOK, NEW about \in Subjects, OpsWrite(about)
    PROVE  /\ fault' = fault /\ opsFile' \in [0..OpsKeep -> Seq(Record)] /\ opsSize' \in Nat
           /\ opsClosed' \in BOOLEAN /\ writeErr' \in BOOLEAN /\ opsCount' \in Nat
           /\ opsStuck' \in BOOLEAN
<1>1. PICK stuck \in Sticking, moved \in Outcomes("opsAside"),
           reopened \in Outcomes("opsReopen"), written \in Outcomes("opsWrite") :
         LET rotates == opsSize + 1 >= OpsRotate
             files == IF rotates THEN SetAside(Shifted(opsFile, stuck), moved) ELSE opsFile
             up == rotates => reopened
             goes == up /\ written
         IN
         /\ UNCHANGED fault
         /\ opsFile' = IF goes
                       THEN [files EXCEPT ![0] =
                                 Append(@, [no |-> opsCount + 1, about |-> about])]
                       ELSE files
         /\ opsSize' = (IF rotates /\ up THEN 0 ELSE opsSize) + (IF goes THEN 1 ELSE 0)
         /\ opsClosed' = ~up
         /\ writeErr' = (writeErr \/ Failed(moved, reopened, written))
         /\ opsCount' = opsCount + 1
         /\ opsStuck' = (opsStuck \/ \E n \in stuck \ {OpsKeep} : opsFile[n] # << >>)
  BY DEF OpsWrite
<1> DEFINE rotates == opsSize + 1 >= OpsRotate
           files == IF rotates THEN SetAside(Shifted(opsFile, stuck), moved) ELSE opsFile
           record == [no |-> opsCount + 1, about |-> about]
<1>2. files \in [0..OpsKeep -> Seq(Record)]
  <2>1. OpsKeep \in Nat \ {0}
    BY Constants
  <2>2. Shifted(opsFile, stuck) \in [0..OpsKeep -> Seq(Record)]
    BY <2>1 DEF OpsTypeOK, Shifted, MovesUp
  <2>3. 0 \in 0..OpsKeep /\ << >> \in Seq(Record) /\ opsFile[0] \in Seq(Record)
    BY <2>1 DEF OpsTypeOK
  <2> QED BY <2>2, <2>3 DEF OpsTypeOK, SetAside
<1>3. record \in Record
  BY DEF OpsTypeOK, Record
<1>4. opsFile' \in [0..OpsKeep -> Seq(Record)]
  <2>1. 0 \in 0..OpsKeep
    BY Constants
  <2>2. files[0] \in Seq(Record)
    <3> HIDE DEF files
    <3> QED BY <1>2, <2>1
  <2>3. Append(files[0], record) \in Seq(Record)
    <3> HIDE DEF files, record
    <3> QED BY <1>3, <2>2
  <2>4. opsFile' = files \/ opsFile' = [files EXCEPT ![0] = Append(files[0], record)]
    BY <1>1
  <2> HIDE DEF files, record
  <2> QED BY <1>2, <2>3, <2>4
<1>5. opsSize' \in Nat /\ opsCount' \in Nat /\ fault' = fault
  BY <1>1 DEF OpsTypeOK
<1>6. opsClosed' \in BOOLEAN /\ writeErr' \in BOOLEAN /\ opsStuck' \in BOOLEAN
  BY <1>1, Zenon
<1> QED BY <1>4, <1>5, <1>6

\* The log keeps its type.
LEMMA OpsTypes ==
    ASSUME OpsTypeOK, OpsMove
    PROVE  OpsTypeOK' /\ fault' = fault
<1>1. /\ fault \in Faults /\ opsFile \in [0..OpsKeep -> Seq(Record)] /\ opsSize \in Nat
      /\ opsClosed \in BOOLEAN /\ writeErr \in BOOLEAN
      /\ once \subseteq Subjects /\ opsCount \in Nat /\ opsStuck \in BOOLEAN
  BY DEF OpsTypeOK
<1>2. {"other", "rotated", "failed"} \subseteq Subjects
  BY DEF Subjects
<1>3. /\ fault' = fault /\ opsFile' \in [0..OpsKeep -> Seq(Record)] /\ opsSize' \in Nat
      /\ opsClosed' \in BOOLEAN /\ writeErr' \in BOOLEAN /\ opsCount' \in Nat
      /\ opsStuck' \in BOOLEAN
  <2>1. CASE \E about \in Subjects : OpsWrite(about)
    BY <2>1, WriteTypes
  <2>2. CASE UNCHANGED <<fault, opsFile, opsSize, opsClosed, writeErr, opsCount, opsStuck>>
    BY <1>1, <2>2
  <2>3. CASE OpsClose
    BY <1>1, <2>3 DEF OpsClose
  <2> QED BY <1>2, <2>1, <2>2, <2>3 DEF OpsMove, opsVars, Log, Once, OpsRecord
<1>4. once' \subseteq Subjects
  BY <1>1, <1>2 DEF OpsMove, opsVars, Log, Once, OpsClose
<1>5. {opsClosed', writeErr'} \subseteq BOOLEAN
  BY <1>3, Zenon
<1> QED BY <1>1, <1>3, <1>4, <1>5 DEF OpsTypeOK
-----------------------------------------------------------------------------
(* Types.                                                                  *)

\* The first of a sequence and the rest of it.
LEMMA HeadAndTail ==
    ASSUME NEW S, NEW s \in Seq(S), s # << >>
    PROVE  /\ Head(s) \in S /\ Tail(s) \in Seq(S) /\ Head(s) = s[1]
           /\ Len(s) \in Nat \ {0} /\ Len(Tail(s)) = Len(s) - 1
           /\ \A k \in 1..Len(s) - 1 : Tail(s)[k] = s[k + 1]
  OBVIOUS

\* No file has two names.
FilesInv ==
    /\ file \in [Inodes -> Seq(0..Chunks)] /\ dir \in [Slots -> Inodes \cup {Nil}]
    /\ \A m, n \in Slots : m # n => dir[m] # dir[n] \/ dir[m] = Nil

RunInv ==
    /\ run \in 0..Runs /\ spawning \in BOOLEAN /\ (spawning => run < Runs)
    /\ alive \in [RunNos -> BOOLEAN] /\ held \in [RunNos -> BOOLEAN]
    /\ pipe \in [RunNos -> Seq(1..Chunks)] /\ produced \in 0..Chunks

\* A collector has a chunk in hand from its read until it is put away, and the file
\* open but while it is set aside; the archives above level have been moved.
Local(step, f, c, l) ==
    /\ c = 0 <=> step \in {"none", "read", "done", "unreadable"}
    /\ step \in {"none", "done", "unreadable", "remove", "shift", "aside", "reopen"} => f = Nil
    /\ step \in {"put", "close", "header", "tell"} => f # Nil
    /\ step = "shift" => l \in 1..Keep - 1
    /\ step = "aside" => l = 0

CollInv ==
    /\ at \in [RunNos -> CollSteps] /\ fd \in [RunNos -> Inodes \cup {Nil}]
    /\ size \in [RunNos -> Nat] /\ chunk \in [RunNos -> 0..Chunks]
    /\ renamed \in [RunNos -> BOOLEAN] /\ level \in [RunNos -> 0..Keep]
    /\ \A r \in RunNos : Local(at[r], fd[r], chunk[r], level[r])

\* A run that has not begun has no collector.
LaterInv == \A r \in RunNos : r > run => at[r] = "none"

HistInv ==
    /\ query \in Inodes \cup {Nil} /\ dropped \subseteq 1..Chunks /\ rotations \in Nat
    /\ met \in BOOLEAN /\ refused \subseteq {"archive", "path"}

TInv ==
    /\ OpsTypeOK /\ <<platform, fault>> \in Settings
    /\ FilesInv /\ RunInv /\ CollInv /\ LaterInv /\ HistInv

\* At first there is at most one file, and nothing runs.
LEMMA InitTypes == Init => TInv
<1> SUFFICES ASSUME Init PROVE TInv
  OBVIOUS
<1>1. /\ Runs \in Nat \ {0} /\ Chunks \in Nat /\ Keep \in Nat \ {0} /\ Existing \subseteq Nat
      /\ Settings \subseteq {"windows", "posix"} \X Faults /\ Nil = 0 /\ Slots \subseteq Nat
      /\ 1 \in Inodes
  BY ChildLogAssumption DEF Nil, Slots, Inodes
<1>2. OpsTypeOK
  <2>1. opsFile \in [0..OpsKeep -> Seq(Record)]
    BY DEF Init, OpsInit
  <2>2. {opsClosed, writeErr} \subseteq BOOLEAN /\ once \subseteq Subjects /\ opsCount \in Nat
        /\ opsStuck \in BOOLEAN /\ fault \in Faults /\ opsSize \in Nat
    BY DEF Init, OpsInit
  <2> QED BY <2>1, <2>2 DEF OpsTypeOK
<1>3. <<platform, fault>> \in Settings
  BY <1>1 DEF Init
<1>4. FilesInv
  <2>1. PICK length \in Existing :
          /\ file = [i \in Inodes |-> IF i = 1 THEN [k \in 1..length |-> 0] ELSE << >>]
          /\ dir = [n \in Slots |-> IF n = 0 /\ length > 0 THEN 1 ELSE Nil]
    BY DEF Init
  <2>2. [k \in 1..length |-> 0] \in Seq(0..Chunks) /\ << >> \in Seq(0..Chunks)
    BY <1>1
  <2>3. file \in [Inodes -> Seq(0..Chunks)]
    BY <2>1, <2>2
  <2> QED BY <1>1, <2>1, <2>3 DEF FilesInv
<1>5. RunInv
  <2>1. /\ run = 0 /\ spawning = FALSE /\ produced = 0
        /\ alive = [r \in RunNos |-> FALSE] /\ held = alive
        /\ pipe = [r \in RunNos |-> << >>]
    BY DEF Init
  <2>2. run \in 0..Runs /\ run < Runs /\ produced \in 0..Chunks
    BY <1>1, <2>1
  <2>3. alive \in [RunNos -> BOOLEAN] /\ held \in [RunNos -> BOOLEAN]
    BY <2>1
  <2>4. << >> \in Seq(1..Chunks)
    OBVIOUS
  <2>5. pipe \in [RunNos -> Seq(1..Chunks)]
    BY <2>1, <2>4
  <2>6. spawning \in BOOLEAN
    BY <2>1, Zenon
  <2> QED BY <2>2, <2>3, <2>5, <2>6, <2>1 DEF RunInv
<1>6. CollInv
  BY <1>1 DEF Init, CollInv, Local, CollSteps, RunNos
<1>7. HistInv
  BY DEF Init, HistInv
<1>8. LaterInv
  BY DEF Init, LaterInv
<1> QED BY <1>2, <1>3, <1>4, <1>5, <1>6, <1>7, <1>8 DEF TInv

\* The path is opened, and something may be added to what is there.
LEMMA OpenKeeps ==
    ASSUME FilesInv, Names, OpenPath, NEW text \in Seq(0..Chunks),
           file' = [file EXCEPT ![Path] = text]
    PROVE  FilesInv'
<1>1. Path \in Inodes /\ 0 \in Slots
  BY PathIsThere, Constants
<1>2. file' \in [Inodes -> Seq(0..Chunks)] /\ dir' \in [Slots -> Inodes \cup {Nil}]
  BY <1>1 DEF FilesInv, OpenPath
<1>3. ASSUME NEW n \in Slots, n # 0 PROVE dir[n] # Path \/ dir[n] = Nil
  <2>1. CASE dir[0] = Nil
    BY <2>1, PathIsThere DEF InUse
  <2>2. CASE dir[0] # Nil
    BY <1>1, <1>3, <2>2, PathIsThere DEF FilesInv
  <2> QED BY <2>1, <2>2
<1>4. ASSUME NEW m \in Slots, NEW n \in Slots, m # n
      PROVE  dir'[m] # dir'[n] \/ dir'[m] = Nil
  <2>1. /\ dir'[m] = IF m = 0 THEN Path ELSE dir[m]
        /\ dir'[n] = IF n = 0 THEN Path ELSE dir[n]
    BY <1>1 DEF FilesInv, OpenPath
  <2> QED BY <1>3, <1>4, <2>1, PathIsThere DEF FilesInv
<1> QED BY <1>2, <1>4 DEF FilesInv

\* Something is added to the file a collector has open.
LEMMA AppendKeeps ==
    ASSUME FilesInv, dir' = dir, NEW i, NEW c \in 0..Chunks,
           file' = [file EXCEPT ![i] = Append(@, c)]
    PROVE  FilesInv'
<1>1. CASE i \in Inodes
  <2>1. Append(file[i], c) \in Seq(0..Chunks)
    BY <1>1 DEF FilesInv
  <2> QED BY <2>1 DEF FilesInv
<1>2. CASE i \notin Inodes
  <2>1. file' = file
    BY <1>2 DEF FilesInv
  <2> QED BY <2>1 DEF FilesInv
<1> QED BY <1>1, <1>2

\* An archive is moved up.
LEMMA MoveKeeps ==
    ASSUME FilesInv, NEW n \in 0..Keep - 1, dir' = MovedUp(n), UNCHANGED file
    PROVE  FilesInv'
<1>1. n \in Slots /\ n + 1 \in Slots /\ n # n + 1
  BY Constants DEF Slots
<1>2. CASE dir[n] = Nil
  BY <1>2 DEF MovedUp, FilesInv
<1>3. CASE dir[n] # Nil
  <2>1. dir' = [dir EXCEPT ![n + 1] = dir[n], ![n] = Nil]
    BY <1>3 DEF MovedUp
  <2>2. \A m \in Slots : dir'[m] = IF m = n THEN Nil ELSE IF m = n + 1 THEN dir[n] ELSE dir[m]
    BY <1>1, <2>1 DEF FilesInv
  <2>3. dir' \in [Slots -> Inodes \cup {Nil}]
    BY <1>1, <2>1 DEF FilesInv
  <2> QED BY <1>1, <2>2, <2>3 DEF FilesInv
<1> QED BY <1>2, <1>3

\* The oldest archive is removed.
LEMMA RemoveKeeps ==
    ASSUME FilesInv, dir' = [dir EXCEPT ![Oldest] = Nil], UNCHANGED file
    PROVE  FilesInv'
<1>1. Oldest \in Slots
  BY Constants DEF Oldest
<1>2. \A m \in Slots : dir'[m] = IF m = Oldest THEN Nil ELSE dir[m]
  BY DEF FilesInv
<1> QED BY <1>2 DEF FilesInv

\* A collector takes a step.
Moves(r, step, f, c, l) ==
    /\ at' = [at EXCEPT ![r] = step] /\ fd' = [fd EXCEPT ![r] = f]
    /\ chunk' = [chunk EXCEPT ![r] = c] /\ level' = [level EXCEPT ![r] = l]
    /\ Local(step, f, c, l)

\* It keeps the types if what it comes to has them.
LEMMA MovesKeeps ==
    ASSUME CollInv, NEW r \in RunNos, NEW step \in CollSteps, NEW f \in Inodes \cup {Nil},
           NEW c \in 0..Chunks, NEW l \in 0..Keep, NEW z \in Nat, NEW m \in BOOLEAN,
           Moves(r, step, f, c, l), size' = [size EXCEPT ![r] = z],
           renamed' = [renamed EXCEPT ![r] = m]
    PROVE  CollInv'
<1>1. /\ at' \in [RunNos -> CollSteps] /\ fd' \in [RunNos -> Inodes \cup {Nil}]
      /\ size' \in [RunNos -> Nat] /\ chunk' \in [RunNos -> 0..Chunks]
      /\ level' \in [RunNos -> 0..Keep]
  BY DEF CollInv, Moves
<1>2. renamed' \in [RunNos -> BOOLEAN]
  BY DEF CollInv
<1>3. ASSUME NEW q \in RunNos PROVE Local(at'[q], fd'[q], chunk'[q], level'[q])
  <2>1. CASE q = r
    BY <2>1 DEF CollInv, Moves
  <2>2. CASE q # r
    <3>1. /\ at'[q] = at[q] /\ fd'[q] = fd[q] /\ chunk'[q] = chunk[q] /\ level'[q] = level[q]
      BY <2>2 DEF CollInv, Moves
    <3> QED BY <3>1 DEF CollInv
  <2> QED BY <2>1, <2>2
<1> QED BY <1>1, <1>2, <1>3 DEF CollInv
\* The steps of a collector that leave the run, the query and the platform alone.
LEMMA CollectTypes ==
    ASSUME TInv, NEW r \in RunNos, Collect(r)
    PROVE  FilesInv' /\ RunInv' /\ CollInv' /\ HistInv' /\ platform' = platform
<1>1. /\ FilesInv /\ RunInv /\ CollInv /\ HistInv /\ Names
      /\ at[r] \in CollSteps /\ fd[r] \in Inodes \cup {Nil} /\ size[r] \in Nat
      /\ chunk[r] \in 0..Chunks /\ renamed[r] \in BOOLEAN /\ level[r] \in 0..Keep
      /\ Local(at[r], fd[r], chunk[r], level[r])
      /\ Chunks \in Nat /\ Keep \in Nat \ {0} /\ Nil = 0
  BY Constants DEF TInv, FilesInv, CollInv, HistInv, Names
<1>2. /\ fd = [fd EXCEPT ![r] = fd[r]] /\ size = [size EXCEPT ![r] = size[r]]
      /\ chunk = [chunk EXCEPT ![r] = chunk[r]] /\ level = [level EXCEPT ![r] = level[r]]
      /\ renamed = [renamed EXCEPT ![r] = renamed[r]]
  BY <1>1 DEF CollInv
<1>3. CASE Read(r)
  <2>1. /\ at[r] = "read" /\ pipe[r] # << >> /\ pipe' = [pipe EXCEPT ![r] = Tail(@)]
        /\ pipe[r] \in Seq(1..Chunks)
    BY <1>1, <1>3 DEF Read, RunInv
  <2>2. Head(pipe[r]) \in 1..Chunks /\ Tail(pipe[r]) \in Seq(1..Chunks)
    BY <2>1, HeadAndTail
  <2>3. RunInv'
    BY <1>1, <1>3, <2>1, <2>2 DEF Read, RunInv
  <2>4. HistInv'
    BY <1>1, <1>3, <2>2 DEF Read, HistInv
  <2>5. FilesInv' /\ platform' = platform
    BY <1>1, <1>3 DEF Read, FilesInv, fileVars
  <2>6. CASE fd[r] = Nil
    <3>1. Moves(r, "read", Nil, 0, level[r])
      BY <1>1, <1>2, <1>3, <2>1, <2>6 DEF Read, OnNoFile, Goto, Moves, Local
    <3>2. UNCHANGED <<size, renamed>>
      BY <1>3 DEF Read
    <3>3. "read" \in CollSteps /\ 0 \in 0..Chunks /\ Nil \in Inodes \cup {Nil}
      BY <1>1 DEF CollSteps
    <3>4. CollInv'
      BY <1>1, <1>2, <3>1, <3>2, <3>3, MovesKeeps
    <3> QED BY <2>3, <2>4, <2>5, <3>4
  <2>7. CASE fd[r] # Nil
    <3>1. PICK step \in {"close", "put"} : Moves(r, step, fd[r], Head(pipe[r]), level[r])
      BY <1>1, <1>2, <1>3, <2>2, <2>7 DEF Read, Goto, Moves, Local
    <3>2. UNCHANGED <<size, renamed>>
      BY <1>3 DEF Read
    <3>3. step \in CollSteps /\ Head(pipe[r]) \in 0..Chunks
      BY <2>2, <3>1 DEF CollSteps, Rotating
    <3> QED BY <1>1, <1>2, <2>3, <2>4, <2>5, <3>1, <3>2, <3>3, MovesKeeps
  <2> QED BY <2>6, <2>7
<1>4. CASE EndOfStream(r) \/ ReadFails(r) \/ Close(r)
  <2>1. PICK step \in {"done", "unreadable", "remove"} :
           /\ Moves(r, step, Nil, chunk[r], level[r]) /\ UNCHANGED renamed
           /\ \E z \in Nat : size' = [size EXCEPT ![r] = z]
    BY <1>1, <1>2, <1>4 DEF EndOfStream, ReadFails, Close, Goto, Moves, Local
  <2>2. step \in CollSteps
    BY <2>1 DEF CollSteps, Rotating
  <2>3. CollInv'
    <3>1. PICK z \in Nat : size' = [size EXCEPT ![r] = z]
      BY <2>1
    <3>2. renamed' = [renamed EXCEPT ![r] = renamed[r]]
      BY <1>2, <2>1
    <3>3. Nil \in Inodes \cup {Nil} /\ Moves(r, step, Nil, chunk[r], level[r])
      BY <2>1
    <3> QED BY <1>1, <2>2, <3>1, <3>2, <3>3, MovesKeeps
  <2>4. UNCHANGED <<fileVars, runVars, query, histVars>>
    BY <1>4 DEF EndOfStream, ReadFails, Close
  <2> QED BY <1>1, <2>3, <2>4 DEF FilesInv, RunInv, HistInv, fileVars, runVars, histVars
<1>5. CASE Put(r)
  <2>1. /\ at[r] = "put" /\ Moves(r, "read", fd[r], 0, level[r]) /\ UNCHANGED renamed
    BY <1>1, <1>2, <1>5 DEF Put, Goto, Moves, Local
  <2>2. PICK z \in Nat : size' = [size EXCEPT ![r] = z]
    <3>1. \/ size' = [size EXCEPT ![r] = size[r] + 1]
          \/ size' = [size EXCEPT ![r] = size[r]]
      BY <1>2, <1>5 DEF Put
    <3>2. size[r] + 1 \in Nat /\ size[r] \in Nat
      BY <1>1
    <3> QED BY <3>1, <3>2
  <2>3. CollInv'
    <3>1. "read" \in CollSteps /\ 0 \in 0..Chunks
      BY <1>1 DEF CollSteps
    <3> QED BY <1>1, <1>2, <2>1, <2>2, <3>1, MovesKeeps
  <2>4. FilesInv'
    <3>1. CASE file' = [file EXCEPT ![fd[r]] = Append(@, chunk[r])]
      BY <1>1, <1>5, <3>1, AppendKeeps DEF Put
    <3>2. CASE UNCHANGED file
      BY <1>1, <1>5, <3>2 DEF Put, FilesInv
    <3> QED BY <1>5, <3>1, <3>2 DEF Put
  <2>5. chunk[r] \in 1..Chunks
    BY <1>1, <2>1 DEF Local
  <2>6. HistInv' /\ RunInv' /\ platform' = platform
    BY <1>1, <1>5, <2>5 DEF Put, HistInv, RunInv, runVars
  <2> QED BY <2>3, <2>4, <2>6
<1>6. CASE RemoveOldest(r) \/ Shift(r)
  <2>1. PICK step \in {"shift", "aside"}, l \in 0..Keep : Moves(r, step, fd[r], chunk[r], l)
    <3>1. CASE RemoveOldest(r)
      <4>1. Keep - 1 \in 0..Keep /\ (Keep > 1 => Keep - 1 \in 1..Keep - 1)
            /\ (~(Keep > 1) => Keep - 1 = 0)
        BY <1>1
      <4>2. \E step \in {"shift", "aside"} : Moves(r, step, fd[r], chunk[r], Keep - 1)
        BY <1>1, <1>2, <3>1, <4>1 DEF RemoveOldest, Goto, Moves, Local
      <4> QED BY <4>1, <4>2
    <3>2. CASE Shift(r)
      <4>1. level[r] \in 1..Keep - 1
        BY <1>1, <3>2 DEF Shift, Local
      <4>2. level[r] - 1 \in 0..Keep /\ (level[r] > 1 => level[r] - 1 \in 1..Keep - 1)
            /\ (~(level[r] > 1) => level[r] - 1 = 0)
        BY <1>1, <4>1
      <4>3. \E step \in {"shift", "aside"} : Moves(r, step, fd[r], chunk[r], level[r] - 1)
        BY <1>1, <1>2, <3>2, <4>2 DEF Shift, Goto, Moves, Local
      <4> QED BY <4>2, <4>3
    <3> QED BY <1>6, <3>1, <3>2
  <2>2. step \in CollSteps
    BY <2>1 DEF CollSteps, Rotating
  <2>3. /\ UNCHANGED <<platform, file, runVars, size, renamed, query, dropped, rotations, met>>
        /\ refused' \in {refused, refused \cup {"archive"}}
    BY <1>6 DEF RemoveOldest, Shift, histVars
  <2>4. CollInv'
    BY <1>1, <1>2, <2>1, <2>2, <2>3, MovesKeeps
  <2>5. FilesInv'
    <3>1. CASE RemoveOldest(r)
      <4>1. CASE dir' = dir
        BY <1>1, <2>3, <4>1 DEF FilesInv
      <4> QED BY <1>1, <2>3, <3>1, <4>1, RemoveKeeps DEF RemoveOldest
    <3>2. CASE Shift(r)
      <4>1. level[r] \in 0..Keep - 1
        BY <1>1, <3>2 DEF Shift, Local
      <4>2. CASE dir' = dir
        BY <1>1, <2>3, <4>2 DEF FilesInv
      <4> QED BY <1>1, <2>3, <3>2, <4>1, <4>2, MoveKeeps DEF Shift
    <3> QED BY <1>6, <3>1, <3>2
  <2> QED BY <1>1, <2>3, <2>4, <2>5 DEF RunInv, HistInv, runVars
<1>7. CASE Aside(r)
  <2>1. PICK m \in BOOLEAN :
        /\ at[r] = "aside" /\ renamed' = [renamed EXCEPT ![r] = m]
        /\ UNCHANGED <<platform, file, runVars, size, query, dropped, rotations, met>>
        /\ (m => dir' = MovedUp(0)) /\ (~m => UNCHANGED dir)
        /\ refused' \in {refused, refused \cup {"path"}}
    BY <1>7 DEF Aside
  <2>2. Moves(r, "reopen", fd[r], chunk[r], level[r])
    BY <1>1, <1>2, <1>7 DEF Aside, Goto, Moves, Local
  <2>3. CollInv'
    BY <1>1, <1>2, <2>1, <2>2, MovesKeeps DEF CollSteps, Rotating
  <2>4. FilesInv'
    <3>1. 0 \in 0..Keep - 1
      BY <1>1
    <3>2. CASE m
      BY <1>1, <2>1, <3>1, <3>2, MoveKeeps
    <3>3. CASE ~m
      BY <1>1, <2>1, <3>3 DEF FilesInv
    <3> QED BY <3>2, <3>3
  <2> QED BY <1>1, <2>1, <2>3, <2>4 DEF RunInv, HistInv, runVars
<1>8. CASE Reopen(r)
  <2>1. /\ at[r] = "reopen" /\ UNCHANGED <<runVars, renamed, level, query, rotations, met, refused>>
        /\ chunk[r] \in 1..Chunks
    BY <1>1, <1>8 DEF Reopen, Local
  <2>2. RunInv' /\ HistInv'
    <3>1. dropped' = dropped \/ dropped' = dropped \cup {chunk[r]}
      BY <1>8 DEF Reopen
    <3>2. RunInv'
      BY <1>1, <2>1 DEF RunInv, runVars
    <3> QED BY <1>1, <2>1, <3>1, <3>2 DEF HistInv
  <2>3. CASE OpenPath /\ file' = [file EXCEPT ![Path] = Opened(Content)]
             /\ fd' = [fd EXCEPT ![r] = Path]
             /\ size' = [size EXCEPT ![r] = Len(Opened(Content))]
             /\ Goto(r, IF renamed[r] THEN "header" ELSE "put") /\ UNCHANGED chunk
    <3>1. Opened(Content) \in Seq(0..Chunks) /\ Path \in Inodes /\ Path # Nil
      <4>1. 0 \in Slots /\ << >> \in Seq(0..Chunks)
        BY Constants
      <4>2. Content \in Seq(0..Chunks)
        BY <1>1, <4>1 DEF Content, FilesInv
      <4> QED BY <1>1, <4>2, PathIsThere DEF Opened
    <3>2. FilesInv' /\ platform' = platform
      BY <1>1, <2>3, <3>1, OpenKeeps DEF OpenPath
    <3>3. PICK step \in {"header", "put"} : Moves(r, step, Path, chunk[r], level[r])
      BY <1>1, <1>2, <2>1, <2>3, <3>1 DEF Goto, Moves, Local
    <3>4. Len(Opened(Content)) \in Nat /\ step \in CollSteps
      BY <3>1, <3>3 DEF CollSteps, Rotating
    <3>5. CollInv'
      BY <1>1, <1>2, <2>1, <2>3, <3>1, <3>3, <3>4, MovesKeeps
    <3> QED BY <2>2, <3>2, <3>5
  <2>4. CASE /\ chunk' = [chunk EXCEPT ![r] = 0] /\ Goto(r, "read")
             /\ UNCHANGED <<fileVars, fd, size>>
    <3>1. Moves(r, "read", fd[r], 0, level[r])
      BY <1>1, <1>2, <2>1, <2>4 DEF Goto, Moves, Local
    <3>2. CollInv'
      <4>1. "read" \in CollSteps /\ 0 \in 0..Chunks
        BY <1>1 DEF CollSteps
      <4> QED BY <1>1, <1>2, <2>1, <2>4, <3>1, <4>1, MovesKeeps
    <3> QED BY <1>1, <2>2, <2>4, <3>2 DEF FilesInv, fileVars
  <2> QED BY <1>8, <2>3, <2>4 DEF Reopen
<1>9. CASE Header(r) \/ Tell(r)
  <2>1. PICK step \in {"tell", "put"} : Moves(r, step, fd[r], chunk[r], level[r])
    BY <1>1, <1>2, <1>9 DEF Header, Tell, Goto, Moves, Local
  <2>2. /\ step \in CollSteps /\ UNCHANGED <<platform, dir, runVars, renamed, query>>
        /\ UNCHANGED <<dropped, met, refused>> /\ rotations' \in {rotations, rotations + 1}
    BY <1>9, <2>1 DEF Header, Tell, CollSteps, Rotating, histVars, fileVars
  <2>3. PICK z \in Nat : size' = [size EXCEPT ![r] = z]
    <3>1. \/ size' = [size EXCEPT ![r] = size[r] + 1]
          \/ size' = [size EXCEPT ![r] = size[r]]
      BY <1>2, <1>9 DEF Header, Tell
    <3>2. size[r] + 1 \in Nat /\ size[r] \in Nat
      BY <1>1
    <3> QED BY <3>1, <3>2
  <2>4. CollInv'
    BY <1>1, <1>2, <2>1, <2>2, <2>3, MovesKeeps
  <2>5. FilesInv'
    <3>1. CASE file' = [file EXCEPT ![fd[r]] = Append(@, 0)]
      <4>1. 0 \in 0..Chunks
        BY <1>1
      <4> QED BY <1>1, <2>2, <3>1, <4>1, AppendKeeps
    <3>2. CASE UNCHANGED file
      BY <1>1, <2>2, <3>2 DEF FilesInv
    <3> QED BY <1>9, <3>1, <3>2 DEF Header, Tell, fileVars
  <2> QED BY <1>1, <2>2, <2>4, <2>5 DEF RunInv, HistInv, runVars
<1> QED
  BY <1>3, <1>4, <1>5, <1>6, <1>7, <1>8, <1>9 DEF Collect
\* A run is started, its marker and the file of its collector included.
LEMMA SpawnTypes ==
    ASSUME TInv, WriteMarker \/ StartFails \/ StartCollector
    PROVE  FilesInv' /\ RunInv' /\ CollInv' /\ HistInv' /\ platform' = platform
<1>1. /\ FilesInv /\ RunInv /\ CollInv /\ HistInv /\ Names
      /\ Chunks \in Nat /\ Runs \in Nat \ {0} /\ Nil = 0 /\ run \in 0..Runs
  BY Constants DEF TInv, FilesInv, RunInv, CollInv, HistInv, Names
<1>2. Opened(Content) \in Seq(0..Chunks) /\ Path \in Inodes /\ Path # Nil
  <2>1. 0 \in Slots /\ << >> \in Seq(0..Chunks)
    BY Constants
  <2>2. Content \in Seq(0..Chunks)
    BY <1>1, <2>1 DEF Content, FilesInv
  <2> QED BY <1>1, <2>2, PathIsThere DEF Opened
<1>3. CASE WriteMarker
  <2>1. /\ run < Runs /\ spawning' = TRUE
        /\ UNCHANGED <<run, alive, held, pipe, produced, collVars, query, histVars>>
    BY <1>1, <1>3 DEF WriteMarker
  <2>2. RunInv'
    BY <1>1, <2>1 DEF RunInv
  <2>3. CollInv' /\ HistInv'
    BY <1>1, <2>1 DEF CollInv, HistInv, collVars, histVars
  <2>4. CASE UNCHANGED fileVars
    BY <1>1, <2>2, <2>3, <2>4 DEF FilesInv, fileVars
  <2>5. CASE OpenPath /\ file' = [file EXCEPT ![Path] = Opened(Content)]
    BY <1>1, <1>2, <2>2, <2>3, <2>5, OpenKeeps DEF OpenPath
  <2>6. CASE OpenPath /\ file' = [file EXCEPT ![Path] = Append(Opened(Content), 0)]
    <3>1. 0 \in 0..Chunks
      BY <1>1
    <3>2. Append(Opened(Content), 0) \in Seq(0..Chunks)
      BY <1>2, <3>1
    <3>3. FilesInv'
      BY <1>1, <2>6, <3>2, OpenKeeps
    <3> QED BY <2>2, <2>3, <2>6, <3>3 DEF OpenPath
  <2> QED BY <1>3, <2>4, <2>5, <2>6 DEF WriteMarker
<1>4. CASE StartFails
  <2>1. /\ spawning /\ spawning' = FALSE /\ run' = run + 1
        /\ UNCHANGED <<fileVars, alive, held, pipe, produced, collVars, query, histVars>>
    BY <1>4 DEF StartFails
  <2>2. run' \in 0..Runs
    BY <1>1, <2>1 DEF RunInv
  <2>3. RunInv'
    BY <1>1, <2>1, <2>2 DEF RunInv
  <2> QED
    BY <1>1, <2>1, <2>3 DEF FilesInv, CollInv, HistInv, fileVars, collVars, histVars
<1>5. CASE StartCollector
  <2> DEFINE r == run + 1
  <2>1. /\ spawning /\ spawning' = FALSE /\ run' = r /\ at' = [at EXCEPT ![r] = "read"]
        /\ alive' = [alive EXCEPT ![r] = TRUE] /\ held' = [held EXCEPT ![r] = TRUE]
        /\ met' = (met \/ \E q \in RunNos : Attached(q))
        /\ UNCHANGED <<pipe, produced, chunk, renamed, level, query, dropped, rotations, refused>>
    BY <1>5 DEF StartCollector, Goto
  <2>2. r \in RunNos /\ r \in 0..Runs
    BY <1>1, <2>1 DEF RunInv, RunNos
  <2>3. RunInv' /\ HistInv'
    <3>1. alive' \in [RunNos -> BOOLEAN] /\ held' \in [RunNos -> BOOLEAN]
      BY <1>1, <2>1 DEF RunInv
    <3>2. RunInv'
      BY <1>1, <2>1, <2>2, <3>1 DEF RunInv
    <3>3. met' \in BOOLEAN
      BY <2>1, Zenon
    <3> QED BY <1>1, <2>1, <3>2, <3>3 DEF HistInv
  <2>4. PICK f \in Inodes \cup {Nil}, z \in Nat :
           fd' = [fd EXCEPT ![r] = f] /\ size' = [size EXCEPT ![r] = z]
    <3>1. CASE /\ fd' = [fd EXCEPT ![r] = Path]
               /\ size' = [size EXCEPT ![r] = Tracked(Opened(Content))]
      <4>1. Tracked(Opened(Content)) \in Nat
        BY <1>2 DEF Tracked
      <4> QED BY <1>2, <3>1, <4>1
    <3>2. CASE UNCHANGED <<fd, size>>
      <4>1. /\ fd = [fd EXCEPT ![r] = fd[r]] /\ size = [size EXCEPT ![r] = size[r]]
            /\ fd[r] \in Inodes \cup {Nil} /\ size[r] \in Nat
        BY <1>1, <2>2 DEF CollInv
      <4> QED BY <3>2, <4>1
    <3> QED BY <1>5, <3>1, <3>2 DEF StartCollector
  <2>5. CollInv'
    <3> HIDE DEF r
    <3>1. /\ at' \in [RunNos -> CollSteps] /\ fd' \in [RunNos -> Inodes \cup {Nil}]
          /\ size' \in [RunNos -> Nat]
      BY <1>1, <2>1, <2>4 DEF CollInv, CollSteps
    <3>2. ASSUME NEW q \in RunNos PROVE Local(at'[q], fd'[q], chunk'[q], level'[q])
      <4>1. CASE q # r
        <5>1. at'[q] = at[q] /\ fd'[q] = fd[q]
          BY <1>1, <2>1, <2>4, <4>1 DEF CollInv
        <5> QED BY <1>1, <2>1, <5>1 DEF CollInv
      <4>2. CASE q = r
        <5>1. at'[r] = "read"
          BY <1>1, <2>1, <2>2 DEF CollInv
        <5>2. chunk[r] = 0
          <6>1. r > run /\ r \in RunNos
            BY <1>1, <2>2 DEF r
          <6>2. at[r] = "none"
            BY <6>1 DEF TInv, LaterInv
          <6> QED BY <1>1, <6>1, <6>2 DEF CollInv, Local
        <5> QED BY <2>1, <4>2, <5>1, <5>2 DEF Local
      <4> QED BY <4>1, <4>2
    <3> QED BY <1>1, <2>1, <3>1, <3>2 DEF CollInv
  <2>6. FilesInv' /\ platform' = platform
    <3>1. CASE UNCHANGED fileVars
      BY <1>1, <3>1 DEF FilesInv, fileVars
    <3>2. CASE OpenPath /\ file' = [file EXCEPT ![Path] = Opened(Content)]
      BY <1>1, <1>2, <3>2, OpenKeeps DEF OpenPath
    <3> QED BY <1>5, <3>1, <3>2 DEF StartCollector
  <2> QED BY <2>3, <2>5, <2>6
<1> QED BY <1>3, <1>4, <1>5
\* Collectors begin with their run.
LEMMA LaterKeeps ==
    ASSUME TInv, [Next]_vars
    PROVE  LaterInv'
<1>1. at \in [RunNos -> CollSteps] /\ run \in Nat /\ LaterInv /\ RunNos \subseteq Nat
  BY Constants DEF TInv, CollInv, RunInv, RunNos
<1>2. CASE /\ UNCHANGED at /\ run' \in {run, run + 1}
  BY <1>1, <1>2 DEF LaterInv
<1>3. CASE StartCollector
  <2>1. run' = run + 1 /\ at' = [at EXCEPT ![run + 1] = "read"]
    BY <1>3 DEF StartCollector, Goto
  <2> QED BY <1>1, <2>1 DEF LaterInv
<1>4. ASSUME NEW r \in RunNos, Collect(r) PROVE LaterInv'
  <2>1. run' = run /\ (\E step \in CollSteps : at' = [at EXCEPT ![r] = step]) /\ at[r] # "none"
    <3>1. CASE \/ Read(r) \/ EndOfStream(r) \/ ReadFails(r) \/ Put(r) \/ Close(r)
               \/ RemoveOldest(r)
      BY <3>1 DEF Read, EndOfStream, ReadFails, Put, Close, RemoveOldest, Goto, OnNoFile,
                  CollSteps, Rotating, runVars
    <3>2. CASE Shift(r) \/ Aside(r) \/ Reopen(r) \/ Header(r) \/ Tell(r)
      BY <3>2 DEF Shift, Aside, Reopen, Header, Tell, Goto, CollSteps, Rotating, runVars
    <3> QED BY <1>4, <3>1, <3>2 DEF Collect
  <2> QED BY <1>1, <2>1 DEF LaterInv
<1>5. CASE \/ WriteMarker \/ StartFails \/ Query \/ Server \/ UNCHANGED vars
           \/ \E r \in RunNos : ChildWrites(r) \/ ChildEnds(r)
  <2>1. UNCHANGED at /\ run' \in {run, run + 1}
    BY <1>5 DEF WriteMarker, StartFails, Query, Server, vars, ChildWrites, ChildEnds, collVars, runVars
  <2> QED BY <1>2, <2>1
<1> QED BY <1>3, <1>4, <1>5 DEF Next

\* Every step keeps the types.
LEMMA TypesInductive == TInv /\ [Next]_vars => TInv'
<1> SUFFICES ASSUME TInv, [Next]_vars PROVE TInv'
  OBVIOUS
<1>1. OpsTypeOK' /\ fault' = fault /\ LaterInv'
  BY OpsMoves, OpsTypes, LaterKeeps DEF TInv
<1>2. FilesInv' /\ RunInv' /\ CollInv' /\ HistInv' /\ platform' = platform
  <2>1. CASE WriteMarker \/ StartFails \/ StartCollector
    BY <2>1, SpawnTypes
  <2>2. ASSUME NEW r \in RunNos, Collect(r)
        PROVE  FilesInv' /\ RunInv' /\ CollInv' /\ HistInv' /\ platform' = platform
    BY <2>2, CollectTypes
  <2>3. ASSUME NEW r \in RunNos, ChildWrites(r) \/ ChildEnds(r)
        PROVE  FilesInv' /\ RunInv' /\ CollInv' /\ HistInv' /\ platform' = platform
    <3>1. UNCHANGED <<fileVars, run, spawning, collVars, query, histVars>>
      BY <2>3 DEF ChildWrites, ChildEnds
    <3>2. ASSUME ChildWrites(r) PROVE RunInv'
      <4>1. /\ produced < Chunks /\ produced' = produced + 1 /\ UNCHANGED <<alive, held>>
            /\ pipe' = [pipe EXCEPT ![r] = Append(@, produced + 1)]
        BY <3>2 DEF ChildWrites
      <4>2. produced + 1 \in 1..Chunks /\ produced' \in 0..Chunks /\ pipe[r] \in Seq(1..Chunks)
        BY <4>1, Constants DEF TInv, RunInv
      <4>3. Append(pipe[r], produced + 1) \in Seq(1..Chunks)
        BY <4>2
      <4> QED BY <3>1, <4>1, <4>2, <4>3 DEF TInv, RunInv
    <3>3. ASSUME ChildEnds(r) PROVE RunInv'
      <4>1. /\ UNCHANGED <<pipe, produced>> /\ alive' = [alive EXCEPT ![r] = FALSE]
            /\ held' \in {held, [held EXCEPT ![r] = FALSE]}
        BY <3>3 DEF ChildEnds
      <4>2. alive' \in [RunNos -> BOOLEAN] /\ held' \in [RunNos -> BOOLEAN]
        BY <4>1 DEF TInv, RunInv
      <4> QED BY <3>1, <4>1, <4>2 DEF TInv, RunInv
    <3>4. RunInv'
      BY <2>3, <3>2, <3>3
    <3> QED
      BY <3>1, <3>4 DEF TInv, FilesInv, CollInv, HistInv, fileVars, collVars, histVars
  <2>4. CASE Query \/ Server \/ UNCHANGED vars
    <3>1. UNCHANGED <<fileVars, runVars, collVars, histVars>>
      BY <2>4 DEF Query, Server, vars
    <3>2. query' \in Inodes \cup {Nil}
      <4>1. query' \in {query, dir[0], Nil}
        BY <2>4 DEF Query, Server, vars
      <4> QED BY <4>1, Constants DEF TInv, HistInv, FilesInv
    <3> QED
      BY <3>1, <3>2 DEF TInv, FilesInv, RunInv, CollInv, HistInv, fileVars, runVars, collVars,
                        histVars
  <2> QED BY <2>1, <2>2, <2>3, <2>4 DEF Next
<1> QED BY <1>1, <1>2 DEF TInv

\* The invariant says more than the types.
LEMMA TypesHold == TInv => TypeOK
<1> SUFFICES ASSUME TInv PROVE TypeOK
  OBVIOUS
<1>1. {alive, held} \subseteq [RunNos -> BOOLEAN]
  <2>1. alive \in [RunNos -> BOOLEAN] /\ held \in [RunNos -> BOOLEAN]
    BY DEF TInv, RunInv
  <2> QED BY <2>1
<1>2. \A r \in RunNos : at[r] \in {"none", "done", "unreadable"} => fd[r] = Nil
  BY DEF TInv, CollInv, Local
<1> QED
  BY <1>1, <1>2 DEF TInv, FilesInv, RunInv, CollInv, HistInv, TypeOK

\* Every variable has its type, no file has two names, and there is an inode for
\* every file that is created: of any number of runs, archives and chunks.
THEOREM TypesOfCollectors == Spec => []TypeOK
<1> QED
  BY InitTypes, TypesInductive, TypesHold, PTL DEF Spec
-----------------------------------------------------------------------------
(* Archives.                                                               *)

\* As long as collectors have not met there is one at work at most.
OneInv == ~met => \A q, r \in RunNos : Attached(q) /\ Attached(r) => q = r

\* The archives are the first ones, and no fewer than count unless there are Keep.
Upto(count) == \E j \in 0..Keep : Archives = 1..j /\ (j = Keep \/ count <= j)

\* So they were before the rotation under way, whose step l comes next: up to l they
\* still are, above it each has moved up, and the slot in between is free, unless it
\* is that of the oldest, which could not be removed.
Shifting(l) ==
    \E j \in 0..Keep, left \in BOOLEAN :
        /\ j = Keep \/ rotations <= j
        /\ \A n \in 1..Keep :
              dir[n] # Nil <=> \/ n <= l /\ n <= j
                               \/ n >= l + 2 /\ n - 1 <= j
                               \/ left /\ j = Keep /\ n = Keep /\ l = Keep - 1

\* What a rotation has done at each of its steps.
Stage(r) ==
    IF at[r] \in {"shift", "aside"} THEN Shifting(level[r])
    ELSE IF at[r] \in {"header", "tell"} \/ (at[r] = "reopen" /\ renamed[r])
         THEN Upto(rotations + 1) ELSE Upto(rotations)

\* A collector with a file has it at the path until it is set aside.
PathInv ==
    \A r \in RunNos : at[r] \in {"remove", "shift", "aside"} \/ fd[r] # Nil => dir[0] # Nil

StageInv ==
    /\ \A r \in RunNos : Attached(r) => Stage(r)
    /\ (\A r \in RunNos : ~Attached(r)) => Upto(rotations)

AInv ==
    /\ OneInv
    /\ ~met /\ refused = {} => PathInv /\ StageInv

\* A collector that takes a step is at work, and alone in taking it.
LEMMA CollectorAt ==
    ASSUME TInv, NEW r \in RunNos, Collect(r)
    PROVE  /\ Attached(r) /\ met' = met /\ run' = run /\ refused \subseteq refused'
           /\ \E step \in CollSteps : at' = [at EXCEPT ![r] = step]
           /\ \A q \in RunNos \ {r} : /\ at'[q] = at[q] /\ fd'[q] = fd[q] /\ chunk'[q] = chunk[q]
                                      /\ level'[q] = level[q] /\ renamed'[q] = renamed[q]
<1>1. /\ at \in [RunNos -> CollSteps] /\ fd \in [RunNos -> Inodes \cup {Nil}]
      /\ chunk \in [RunNos -> 0..Chunks] /\ level \in [RunNos -> 0..Keep]
      /\ renamed \in [RunNos -> BOOLEAN]
  BY DEF TInv, CollInv
<1>2. Attached(r) /\ met' = met /\ run' = run
  BY DEF Collect, Attached, Read, EndOfStream, ReadFails, Put, Close, RemoveOldest, Shift, Aside,
         Reopen, Header, Tell, runVars, histVars
<1>3. refused \subseteq refused'
  BY DEF Collect, Read, EndOfStream, ReadFails, Put, Close, RemoveOldest, Shift, Aside, Reopen,
         Header, Tell, histVars
<1>4. \E step \in CollSteps : at' = [at EXCEPT ![r] = step]
  BY DEF Collect, Read, EndOfStream, ReadFails, Put, Close, RemoveOldest, Shift, Aside, Reopen,
         Header, Tell, Goto, OnNoFile, CollSteps, Rotating
<1>5. ASSUME NEW q \in RunNos \ {r}
      PROVE  /\ at'[q] = at[q] /\ fd'[q] = fd[q] /\ chunk'[q] = chunk[q]
             /\ level'[q] = level[q] /\ renamed'[q] = renamed[q]
  <2>1. at'[q] = at[q]
    BY <1>1, <1>4
  <2>2. CASE \/ Read(r) \/ EndOfStream(r) \/ ReadFails(r) \/ Put(r) \/ Close(r)
             \/ RemoveOldest(r)
    BY <1>1, <2>1, <2>2 DEF Read, EndOfStream, ReadFails, Put, Close, RemoveOldest
  <2>3. CASE Shift(r) \/ Aside(r) \/ Reopen(r) \/ Header(r) \/ Tell(r)
    BY <1>1, <2>1, <2>3 DEF Shift, Aside, Reopen, Header, Tell
  <2> QED BY <2>2, <2>3 DEF Collect
<1> QED BY <1>2, <1>3, <1>4, <1>5

\* At first there are no archives.
LEMMA InitArchives == Init => AInv
<1> SUFFICES ASSUME Init PROVE AInv
  OBVIOUS
<1>1. \A r \in RunNos : ~Attached(r) /\ at[r] = "none" /\ fd[r] = Nil
  BY DEF Init, Attached
<1>2. Archives = 1..0 /\ rotations = 0 /\ 0 \in 0..Keep
  <2>1. \A n \in 1..Keep : n \in Slots /\ n # 0
    BY Constants DEF Slots
  <2>2. \A n \in 1..Keep : dir[n] = Nil
    BY <2>1 DEF Init
  <2> QED BY <2>2, Constants DEF Archives, Init
<1>3. Upto(rotations)
  BY <1>2 DEF Upto
<1> QED BY <1>1, <1>3 DEF AInv, OneInv, PathInv, StageInv

\* A step that leaves archives and collectors alone.
LEMMA ArchivesStay ==
    ASSUME TInv, AInv, UNCHANGED <<at, fd, level, renamed, rotations, met, refused>>,
           \A n \in 1..Keep : dir'[n] = dir[n], dir[0] # Nil => dir'[0] # Nil
    PROVE  AInv'
<1>1. Archives' = Archives
  BY DEF Archives
<1>2. \A r \in RunNos : Attached(r)' = Attached(r)
  BY DEF Attached
<1>3. Upto(rotations)' = Upto(rotations) /\ Upto(rotations + 1)' = Upto(rotations + 1)
  BY <1>1 DEF Upto
<1>4. \A r \in RunNos : Shifting(level[r])' = Shifting(level[r])
  BY DEF Shifting
<1>5. \A r \in RunNos : Stage(r)' = Stage(r)
  BY <1>3, <1>4 DEF Stage
<1> QED BY <1>2, <1>3, <1>5, Zenon DEF AInv, OneInv, PathInv, StageInv
\* A step of the only collector at work: it is enough to see where it gets to.
LEMMA StageGoesOn ==
    ASSUME TInv, AInv, ~met, refused = {}, NEW r \in RunNos, Collect(r),
           PathInv', IF Attached(r)' THEN Stage(r)' ELSE Upto(rotations)'
    PROVE  AInv'
<1>1. \A q \in RunNos \ {r} : ~Attached(q) /\ at'[q] = at[q]
  BY CollectorAt DEF AInv, OneInv
<1>2. \A q \in RunNos \ {r} : ~Attached(q)'
  BY <1>1 DEF Attached
<1>3. OneInv'
  BY <1>2 DEF OneInv
<1>4. StageInv'
  BY <1>2 DEF StageInv
<1> QED BY <1>3, <1>4 DEF AInv

\* A rotation counted or not, the archives are the same.
LEMMA UptoLess ==
    ASSUME TInv, Upto(rotations + 1)
    PROVE  Upto(rotations)
<1>1. rotations \in Nat
  BY DEF TInv, HistInv
<1> QED BY <1>1, Constants DEF Upto

\* Before and after a rotation.
LEMMA OutsideRotation ==
    ASSUME TInv, AInv, ~met, refused = {}, NEW r \in RunNos,
           \/ Read(r) \/ EndOfStream(r) \/ ReadFails(r) \/ Put(r) \/ Close(r)
           \/ Header(r) \/ Tell(r)
    PROVE  AInv'
<1>1. /\ Collect(r) /\ Attached(r) /\ Stage(r) /\ PathInv /\ at \in [RunNos -> CollSteps]
      /\ fd \in [RunNos -> Inodes \cup {Nil}] /\ Local(at[r], fd[r], chunk[r], level[r])
      /\ \A q \in RunNos \ {r} : at'[q] = at[q] /\ fd'[q] = fd[q]
      /\ rotations \in Nat
  <2>1. Collect(r)
    BY DEF Collect
  <2> QED BY <2>1, CollectorAt DEF AInv, StageInv, TInv, CollInv, HistInv
<1>2. dir' = dir /\ Archives' = Archives
  <2>1. dir' = dir
    BY DEF Read, EndOfStream, ReadFails, Put, Close, Header, Tell, fileVars
  <2> QED BY <2>1 DEF Archives
<1>3. /\ at[r] \in {"read", "put", "close"} => Upto(rotations)
      /\ at[r] \in {"header", "tell"} => Upto(rotations + 1)
  BY <1>1 DEF Stage
<1>4. \A k : Upto(k) => Upto(k)'
  <2> SUFFICES ASSUME NEW k, Upto(k) PROVE Upto(k)'
    OBVIOUS
  <2> QED BY <1>2 DEF Upto
<1>5. /\ fd'[r] # Nil => fd[r] # Nil
      /\ at'[r] = "remove" => at[r] = "close"
      /\ at'[r] \in {"read", "put", "close", "remove", "done", "unreadable", "tell"}
      /\ rotations' = IF at[r] = "tell" THEN rotations + 1 ELSE rotations
      /\ at[r] = "tell" => at'[r] = "put"
      /\ at'[r] = "tell" <=> at[r] = "header"
      /\ at[r] \in {"read", "put", "close", "header", "tell"}
  <2>1. CASE Read(r) \/ EndOfStream(r) \/ ReadFails(r) \/ Put(r)
    BY <1>1, <2>1 DEF Read, EndOfStream, ReadFails, Put, Goto, OnNoFile, histVars
  <2>2. CASE Close(r) \/ Header(r) \/ Tell(r)
    BY <1>1, <2>2 DEF Close, Header, Tell, Goto, histVars
  <2> QED BY <2>1, <2>2
<1>6. PathInv'
  <2>1. ASSUME NEW q \in RunNos, at'[q] \in {"remove", "shift", "aside"} \/ fd'[q] # Nil
        PROVE  dir[0] # Nil
    <3>1. CASE q # r
      BY <1>1, <2>1, <3>1 DEF PathInv
    <3>2. CASE q = r
      <4>1. at[r] = "close" => fd[r] # Nil
        BY <1>1 DEF Local
      <4> QED BY <1>1, <1>5, <2>1, <3>2, <4>1 DEF PathInv
    <3> QED BY <3>1, <3>2
  <2> QED BY <1>2, <2>1 DEF PathInv
<1>7. IF Attached(r)' THEN Stage(r)' ELSE Upto(rotations)'
  <2>1. CASE at[r] \in {"read", "put", "close"}
    <3>1. /\ rotations' = rotations
          /\ at'[r] \in {"read", "put", "close", "remove", "done", "unreadable"}
      BY <1>5, <2>1
    <3>2. Upto(rotations)'
      BY <1>3, <1>4, <2>1, <3>1 DEF Upto
    <3> QED BY <3>1, <3>2 DEF Stage
  <2>2. CASE at[r] = "header"
    <3>1. rotations' = rotations /\ at'[r] = "tell"
      BY <1>5, <2>2
    <3>2. Upto(rotations + 1)'
      BY <1>2, <1>3, <2>2, <3>1 DEF Upto
    <3> QED BY <3>1, <3>2 DEF Stage, Attached
  <2>3. CASE at[r] = "tell"
    <3>1. rotations' = rotations + 1 /\ at'[r] = "put"
      BY <1>5, <2>3
    <3>2. Upto(rotations)'
      BY <1>2, <1>3, <2>3, <3>1 DEF Upto
    <3> QED BY <3>1, <3>2 DEF Stage
  <2> QED BY <1>5, <2>1, <2>2, <2>3
<1> QED BY <1>1, <1>6, <1>7, StageGoesOn

\* The oldest archive is removed.
LEMMA RemoveArchive ==
    ASSUME TInv, AInv, ~met, refused = {}, NEW r \in RunNos, RemoveOldest(r)
    PROVE  AInv'
<1>1. /\ Collect(r) /\ Attached(r) /\ Stage(r) /\ PathInv /\ at \in [RunNos -> CollSteps]
      /\ level \in [RunNos -> 0..Keep] /\ dir \in [Slots -> Inodes \cup {Nil}]
      /\ \A q \in RunNos \ {r} : at'[q] = at[q] /\ fd'[q] = fd[q]
      /\ rotations \in Nat /\ Keep \in Nat \ {0} /\ 0 \in Slots
  <2>1. Collect(r)
    BY DEF Collect
  <2> QED
    BY <2>1, CollectorAt, Constants DEF AInv, StageInv, TInv, CollInv, HistInv, FilesInv
<1>2. /\ at[r] = "remove" /\ at'[r] = (IF Keep > 1 THEN "shift" ELSE "aside")
      /\ level'[r] = Keep - 1 /\ fd' = fd /\ rotations' = rotations
      /\ \E left \in BOOLEAN :
            \A n \in Slots : dir'[n] = IF n = Keep /\ ~left THEN Nil ELSE dir[n]
  BY <1>1 DEF RemoveOldest, Goto, Oldest, histVars
<1>3. PICK j \in 0..Keep : Archives = 1..j /\ (j = Keep \/ rotations <= j)
  BY <1>1, <1>2 DEF Stage, Upto
<1>4. \A n \in 1..Keep : dir[n] # Nil <=> n <= j
  BY <1>3 DEF Archives
<1> DEFINE k == Keep - 1
<1>5. PICK left \in BOOLEAN : \A n \in Slots : dir'[n] = IF n = Keep /\ ~left THEN Nil ELSE dir[n]
  BY <1>2
<1>6. ASSUME NEW n \in 1..Keep
      PROVE  dir'[n] # Nil <=> \/ n <= k /\ n <= j
                               \/ n >= k + 2 /\ n - 1 <= j
                               \/ left /\ j = Keep /\ n = Keep /\ k = Keep - 1
  <2>1. n \in Slots
    BY <1>1 DEF Slots
  <2>2. dir'[n] = IF n = Keep /\ ~left THEN Nil ELSE dir[n]
    BY <1>5, <2>1
  <2>3. dir[n] # Nil <=> n <= j
    BY <1>4
  <2> QED BY <1>1, <2>2, <2>3
<1>7. Shifting(level[r])'
  <2>1. level'[r] = k /\ rotations' = rotations
    BY <1>2
  <2> HIDE DEF k
  <2> QED BY <1>3, <1>6, <2>1 DEF Shifting
<1>8. PathInv'
  <2>1. dir'[0] = dir[0] /\ dir[0] # Nil
    BY <1>1, <1>2, <1>5 DEF PathInv
  <2> QED BY <2>1 DEF PathInv
<1>9. Attached(r)' /\ Stage(r)'
  BY <1>2, <1>7 DEF Attached, Stage
<1> QED BY <1>1, <1>8, <1>9, StageGoesOn

\* An archive is moved up, the highest first.
LEMMA ShiftArchive ==
    ASSUME TInv, AInv, ~met, refused = {}, NEW r \in RunNos, Shift(r), refused' = {}
    PROVE  AInv'
<1> DEFINE l == level[r]
<1>1. /\ Collect(r) /\ Attached(r) /\ Stage(r) /\ PathInv /\ at \in [RunNos -> CollSteps]
      /\ level \in [RunNos -> 0..Keep] /\ dir \in [Slots -> Inodes \cup {Nil}]
      /\ rotations \in Nat /\ Keep \in Nat \ {0} /\ 0 \in Slots
      /\ at[r] = "shift" /\ l \in 1..Keep - 1
  <2>1. Collect(r) /\ at[r] = "shift"
    BY DEF Collect, Shift
  <2> QED
    BY <2>1, CollectorAt, Constants DEF AInv, StageInv, TInv, CollInv, HistInv, FilesInv, Local
<1>2. /\ at'[r] = (IF l > 1 THEN "shift" ELSE "aside")
      /\ level'[r] = l - 1 /\ rotations' = rotations /\ dir' = MovedUp(l)
  BY <1>1 DEF Shift, Goto, histVars
<1>3. PICK j \in 0..Keep, left \in BOOLEAN :
         /\ j = Keep \/ rotations <= j
         /\ \A n \in 1..Keep :
               dir[n] # Nil <=> \/ n <= l /\ n <= j
                                \/ n >= l + 2 /\ n - 1 <= j
                                \/ left /\ j = Keep /\ n = Keep /\ l = Keep - 1
  BY <1>1 DEF Stage, Shifting
<1> HIDE DEF l
<1>4. l \in Slots /\ l + 1 \in Slots /\ l # 0 /\ l \in 1..Keep /\ l + 1 \in 1..Keep
  BY <1>1 DEF Slots
<1>5. dir[l] # Nil <=> l <= j
  BY <1>1, <1>3, <1>4
<1>6. dir[l + 1] = Nil \/ dir[l] # Nil
  BY <1>1, <1>3, <1>4
<1>7. \A n \in Slots : dir'[n] = IF n = l THEN Nil ELSE IF n = l + 1 THEN dir[l] ELSE dir[n]
  <2>1. CASE dir[l] = Nil
    BY <1>2, <1>6, <2>1 DEF MovedUp
  <2>2. CASE dir[l] # Nil
    BY <1>1, <1>2, <1>4, <2>2 DEF MovedUp
  <2> QED BY <2>1, <2>2
<1>8. ASSUME NEW n \in 1..Keep
      PROVE  dir'[n] # Nil <=> \/ n <= l - 1 /\ n <= j
                               \/ n >= l - 1 + 2 /\ n - 1 <= j
                               \/ FALSE /\ j = Keep /\ n = Keep /\ l - 1 = Keep - 1
  <2>1. n \in Slots
    BY <1>1 DEF Slots
  <2>2. dir'[n] = IF n = l THEN Nil ELSE IF n = l + 1 THEN dir[l] ELSE dir[n]
    BY <1>7, <2>1
  <2>3. n # l + 1 =>
           (dir[n] # Nil <=> (n <= l /\ n <= j) \/ (n >= l + 2 /\ n - 1 <= j))
    BY <1>1, <1>3
  <2> QED BY <1>1, <1>5, <2>2, <2>3
<1>9. Shifting(level[r])'
  <2> DEFINE k == l - 1
  <2>1. level'[r] = k /\ rotations' = rotations
    BY <1>2
  <2>2. \A n \in 1..Keep :
           dir'[n] # Nil <=> \/ n <= k /\ n <= j
                             \/ n >= k + 2 /\ n - 1 <= j
                             \/ FALSE /\ j = Keep /\ n = Keep /\ k = Keep - 1
    BY <1>8
  <2> HIDE DEF k
  <2> QED BY <1>3, <2>1, <2>2 DEF Shifting
<1>10. PathInv'
  <2>1. 0 # l + 1
    BY <1>1
  <2>2. dir'[0] = dir[0] /\ dir[0] # Nil
    BY <1>1, <1>4, <1>7, <2>1 DEF PathInv
  <2> QED BY <2>2 DEF PathInv
<1>11. Attached(r)' /\ Stage(r)'
  BY <1>2, <1>9 DEF Attached, Stage
<1> QED BY <1>1, <1>10, <1>11, StageGoesOn

\* The file itself becomes the first archive.
LEMMA SetAsideArchive ==
    ASSUME TInv, AInv, ~met, refused = {}, NEW r \in RunNos, Aside(r), refused' = {}
    PROVE  AInv'
<1>1. /\ Collect(r) /\ Attached(r) /\ Stage(r) /\ PathInv /\ at \in [RunNos -> CollSteps]
      /\ renamed \in [RunNos -> BOOLEAN] /\ dir \in [Slots -> Inodes \cup {Nil}]
      /\ rotations \in Nat /\ Keep \in Nat \ {0} /\ 0 \in Slots /\ 1 \in Slots
      /\ at[r] = "aside" /\ level[r] = 0
      /\ \A q \in RunNos \ {r} : at'[q] = at[q] /\ fd'[q] = fd[q] /\ ~Attached(q)
  <2>1. Collect(r) /\ at[r] = "aside"
    BY DEF Collect, Aside
  <2>2. 1 \in Slots
    BY Constants DEF Slots
  <2> QED
    BY <2>1, <2>2, CollectorAt, Constants
    DEF AInv, OneInv, StageInv, TInv, CollInv, HistInv, FilesInv, Local
<1>2. dir[0] # Nil
  BY <1>1 DEF PathInv
<1>3. /\ at'[r] = "reopen" /\ renamed'[r] = TRUE /\ rotations' = rotations /\ fd' = fd
      /\ dir' = [dir EXCEPT ![1] = dir[0], ![0] = Nil]
  <2>1. /\ at' = [at EXCEPT ![r] = "reopen"] /\ rotations' = rotations /\ fd' = fd
        /\ dir' = MovedUp(0) /\ renamed' = [renamed EXCEPT ![r] = TRUE]
    BY <1>2 DEF Aside, Goto
  <2>2. MovedUp(0) = [dir EXCEPT ![1] = dir[0], ![0] = Nil]
    BY <1>2 DEF MovedUp
  <2>3. renamed'[r] = TRUE /\ at'[r] = "reopen"
    BY <1>1, <2>1
  <2> QED BY <1>2, <2>1, <2>2, <2>3
<1>4. PICK j \in 0..Keep, left \in BOOLEAN :
         /\ j = Keep \/ rotations <= j
         /\ \A n \in 1..Keep :
               dir[n] # Nil <=> \/ n <= 0 /\ n <= j
                                \/ n >= 0 + 2 /\ n - 1 <= j
                                \/ left /\ j = Keep /\ n = Keep /\ 0 = Keep - 1
  BY <1>1 DEF Stage, Shifting
<1> DEFINE k == IF j = Keep THEN Keep ELSE j + 1
<1>5. k \in 0..Keep /\ (k = Keep \/ rotations + 1 <= k)
  BY <1>1, <1>4
<1>6. ASSUME NEW n \in 1..Keep PROVE dir'[n] # Nil <=> n <= k
  <2>1. n \in Slots /\ n # 0
    BY <1>1 DEF Slots
  <2>2. dir'[n] = IF n = 1 THEN dir[0] ELSE dir[n]
    BY <1>1, <1>3, <2>1
  <2> QED BY <1>1, <1>2, <1>4, <2>2
<1>7. Archives' = 1..k
  <2> HIDE DEF k
  <2> QED BY <1>1, <1>5, <1>6 DEF Archives
<1>8. Stage(r)'
  <2> HIDE DEF k
  <2> QED BY <1>3, <1>5, <1>7 DEF Stage, Upto
<1>9. PathInv'
  <2>1. \A q \in RunNos : fd'[q] = Nil /\ at'[q] \notin {"remove", "shift", "aside"}
    <3>1. fd[r] = Nil
      BY <1>1 DEF TInv, CollInv, Local
    <3>2. ASSUME NEW q \in RunNos \ {r} PROVE fd[q] = Nil /\ at[q] \in {"none", "done"}
      <4>1. at[q] \in {"none", "done"} /\ Local(at[q], fd[q], chunk[q], level[q])
        BY <1>1 DEF Attached, TInv, CollInv
      <4> QED BY <4>1 DEF Local
    <3> QED BY <1>1, <1>3, <3>1, <3>2
  <2> QED BY <2>1 DEF PathInv
<1> QED BY <1>1, <1>3, <1>8, <1>9, StageGoesOn DEF Attached
\* The path is opened again, or cannot be.
LEMMA ReopenArchive ==
    ASSUME TInv, AInv, ~met, refused = {}, NEW r \in RunNos, Reopen(r)
    PROVE  AInv'
<1>1. /\ Collect(r) /\ Attached(r) /\ Stage(r) /\ PathInv /\ at \in [RunNos -> CollSteps]
      /\ fd \in [RunNos -> Inodes \cup {Nil}] /\ dir \in [Slots -> Inodes \cup {Nil}]
      /\ 0 \in Slots /\ at[r] = "reopen" /\ Names
      /\ \A q \in RunNos \ {r} : at'[q] = at[q] /\ fd'[q] = fd[q]
  <2>1. Collect(r) /\ at[r] = "reopen"
    BY DEF Collect, Reopen
  <2> QED
    BY <2>1, CollectorAt, Constants
    DEF AInv, StageInv, TInv, CollInv, HistInv, FilesInv, Names
<1>2. UNCHANGED <<renamed, rotations>>
  BY DEF Reopen
<1>3. CASE OpenPath /\ fd' = [fd EXCEPT ![r] = Path]
           /\ Goto(r, IF renamed[r] THEN "header" ELSE "put")
  <2>1. /\ \A n \in Slots : dir'[n] = IF n = 0 THEN Path ELSE dir[n]
        /\ Path # Nil /\ at'[r] = IF renamed[r] THEN "header" ELSE "put"
    BY <1>1, <1>3, PathIsThere DEF OpenPath, Goto
  <2>2. Archives' = Archives
    <3>1. \A n \in 1..Keep : n \in Slots /\ n # 0
      BY Constants DEF Slots
    <3> QED BY <2>1, <3>1 DEF Archives
  <2>3. PathInv'
    BY <1>1, <2>1 DEF PathInv
  <2>4. Upto(rotations)' = Upto(rotations) /\ Upto(rotations + 1)' = Upto(rotations + 1)
    BY <1>2, <2>2 DEF Upto
  <2>5. Attached(r)' /\ Stage(r)'
    BY <1>1, <1>2, <2>1, <2>4 DEF Stage, Attached
  <2> QED BY <1>1, <2>3, <2>5, StageGoesOn
<1>4. CASE UNCHANGED <<fileVars, fd, size>> /\ Goto(r, "read")
  <2>1. dir' = dir /\ fd' = fd /\ at'[r] = "read"
    BY <1>1, <1>4 DEF Goto, fileVars
  <2>2. PathInv'
    BY <1>1, <2>1 DEF PathInv
  <2>3. Upto(rotations)' = Upto(rotations)
    BY <1>2, <2>1 DEF Upto, Archives
  <2>4. Upto(rotations)
    BY <1>1, UptoLess DEF Stage
  <2>5. Attached(r)' /\ Stage(r)'
    BY <2>1, <2>3, <2>4 DEF Stage, Attached
  <2> QED BY <1>1, <2>2, <2>5, StageGoesOn
<1> QED BY <1>3, <1>4 DEF Reopen

\* A run is started: the archives stay, and its collector is the only one or has met
\* another.
LEMMA SpawnArchives ==
    ASSUME TInv, AInv, WriteMarker \/ StartFails \/ StartCollector
    PROVE  AInv'
<1>1. /\ Names /\ FilesInv /\ CollInv /\ RunInv /\ LaterInv /\ met \in BOOLEAN
      /\ 0 \in Slots /\ \A n \in 1..Keep : n \in Slots /\ n # 0
  BY Constants DEF TInv, FilesInv, CollInv, HistInv, Names, Slots
<1>2. /\ \A n \in 1..Keep : dir'[n] = dir[n]
      /\ dir[0] # Nil => dir'[0] # Nil
      /\ OpenPath => dir'[0] # Nil
  <2>1. OpenPath \/ UNCHANGED dir
    BY DEF WriteMarker, StartFails, StartCollector, fileVars
  <2>2. CASE OpenPath
    BY <1>1, <2>2, PathIsThere DEF OpenPath, FilesInv
  <2> QED BY <2>1, <2>2, PathIsThere, <1>1
<1>3. CASE WriteMarker \/ StartFails
  <2>1. UNCHANGED <<at, fd, level, renamed, rotations, met, refused>>
    BY <1>3 DEF WriteMarker, StartFails, collVars, histVars
  <2> QED BY <1>2, <2>1, ArchivesStay
<1>4. CASE StartCollector
  <2> DEFINE r == run + 1
  <2>1. /\ at' = [at EXCEPT ![r] = "read"] /\ UNCHANGED <<level, renamed, rotations, refused>>
        /\ met' = (met \/ \E q \in RunNos : Attached(q)) /\ r \in RunNos /\ at[r] = "none"
        /\ \/ OpenPath /\ fd' = [fd EXCEPT ![r] = Path]
           \/ UNCHANGED fd
    <3>1. r \in RunNos /\ r > run
      <4>1. spawning
        BY <1>4 DEF StartCollector
      <4>2. run \in 0..Runs /\ run < Runs /\ Runs \in Nat
        BY <1>1, <4>1, Constants DEF RunInv
      <4> QED BY <4>2 DEF RunNos
    <3>2. at[r] = "none"
      BY <1>1, <3>1 DEF LaterInv
    <3> QED BY <1>4, <3>1, <3>2 DEF StartCollector, Goto
  <2> HIDE DEF r
  <2>2. SUFFICES ASSUME ~met' PROVE AInv'
    BY DEF AInv, OneInv
  <2>3. ~met /\ \A q \in RunNos : ~Attached(q)
    BY <2>1, <2>2
  <2>4. at'[r] = "read" /\ \A q \in RunNos \ {r} : at'[q] = at[q]
    BY <1>1, <2>1 DEF CollInv
  <2>5. \A q \in RunNos \ {r} : ~Attached(q)'
    BY <2>3, <2>4 DEF Attached
  <2>6. OneInv'
    BY <2>5 DEF OneInv
  <2>7. SUFFICES ASSUME refused' = {} PROVE PathInv' /\ StageInv'
    BY <2>6 DEF AInv
  <2>8. PathInv /\ Upto(rotations)
    BY <2>1, <2>3, <2>7 DEF AInv, StageInv
  <2>9. PathInv'
    <3>1. ASSUME NEW q \in RunNos, at'[q] \in {"remove", "shift", "aside"} \/ fd'[q] # Nil
          PROVE  dir'[0] # Nil
      <4>1. at[q] \in {"none", "done"} /\ fd[q] = Nil
        BY <1>1, <2>3 DEF CollInv, Local, Attached
      <4>2. fd'[q] # Nil
        BY <2>4, <3>1, <4>1
      <4> QED BY <1>2, <2>1, <4>1, <4>2
    <3> QED BY <3>1 DEF PathInv
  <2>10. Upto(rotations)'
    BY <1>2, <2>1, <2>8 DEF Upto, Archives
  <2>11. StageInv'
    BY <2>4, <2>5, <2>10 DEF StageInv, Stage
  <2> QED BY <2>9, <2>11
<1> QED BY <1>3, <1>4

\* Every step keeps the archives together.
LEMMA ArchivesInductive == TInv /\ AInv /\ [Next]_vars => AInv'
<1> SUFFICES ASSUME TInv, AInv, [Next]_vars PROVE AInv'
  OBVIOUS
<1>1. ASSUME NEW r \in RunNos, Collect(r) PROVE AInv'
  <2>1. CASE met
    BY <1>1, <2>1, CollectorAt DEF AInv, OneInv
  <2>2. CASE ~met /\ refused' # {}
    <3>1. met' = met
      BY <1>1, CollectorAt
    <3>2. \A q \in RunNos \ {r} : ~Attached(q)
      BY <1>1, <2>2, CollectorAt DEF AInv, OneInv
    <3>3. \A q \in RunNos \ {r} : ~Attached(q)'
      BY <1>1, <3>2, CollectorAt DEF Attached
    <3> QED BY <2>2, <3>1, <3>3 DEF AInv, OneInv
  <2>3. CASE ~met /\ refused' = {}
    <3>1. refused = {}
      BY <1>1, <2>3, CollectorAt
    <3> QED
      BY <1>1, <2>3, <3>1, OutsideRotation, RemoveArchive, ShiftArchive, SetAsideArchive,
         ReopenArchive
      DEF Collect
  <2> QED BY <2>1, <2>2, <2>3
<1>2. CASE \/ Query \/ Server \/ UNCHANGED vars
           \/ \E r \in RunNos : ChildWrites(r) \/ ChildEnds(r)
  <2>1. UNCHANGED <<at, fd, level, renamed, rotations, met, refused, dir>>
    BY <1>2 DEF Query, Server, vars, ChildWrites, ChildEnds, collVars, histVars, fileVars
  <2> QED BY <2>1, ArchivesStay
<1> QED BY <1>1, <1>2, SpawnArchives DEF Next

\* Outside a rotation the archives are the first ones, as many as there were
\* rotations, or all Keep.
LEMMA ArchivesHold == TInv /\ AInv => ArchivesKept
<1> SUFFICES ASSUME TInv, AInv, refused = {}, ~met, Quiet
             PROVE  Cardinality(Archives) >= rotations \/ Archives = 1..Keep
  BY DEF ArchivesKept, AllArchives
<1>1. Upto(rotations)
  <2>1. \A r \in RunNos : Stage(r) => Upto(rotations)
    BY DEF Stage, Quiet, Rotating
  <2> QED BY <2>1 DEF AInv, StageInv
<1>2. PICK j \in 0..Keep : Archives = 1..j /\ (j = Keep \/ rotations <= j)
  BY <1>1 DEF Upto
<1>3. j \in Nat /\ 1 \in Int /\ j \in Int
  BY Constants
<1>4. Cardinality(1..j) = IF 1 > j THEN 0 ELSE j - 1 + 1
  BY <1>3, FS_Interval
<1>5. Cardinality(1..j) = j
  BY <1>3, <1>4
<1>6. rotations \in Nat
  BY DEF TInv, HistInv
<1> QED BY <1>2, <1>3, <1>5, <1>6

\* Output leaves the archives only by being older than Keep rotations, wherever
\* between two calls of a rotation a run ends, a marker is written or a file is
\* refused: for any number of runs and archives, as long as one collector at a
\* time is at work and no rename is refused.  The removal of the oldest may be.
THEOREM ArchivesAreKept == Spec => []ArchivesKept
<1>1. Init => TInv /\ AInv
  BY InitTypes, InitArchives
<1>2. TInv /\ AInv /\ [Next]_vars => TInv' /\ AInv'
  BY TypesInductive, ArchivesInductive
<1> QED
  BY <1>1, <1>2, ArchivesHold, PTL DEF Spec
-----------------------------------------------------------------------------
(* Sequences put together.                                                 *)

\* A set of numbers has a least one: of the parts of it below one of its
\* elements, each of them finite, some is the smallest.
LEMMA LeastNumber ==
    ASSUME NEW T, T \subseteq Nat, T # {}
    PROVE  \E m \in T : \A n \in T : m <= n
<1> DEFINE Below(n) == T \cap 0..n
           Parts == {Below(n) : n \in T}
<1>1. Parts \subseteq FiniteSubsetsOf(Nat) /\ Parts # {}
  <2>1. ASSUME NEW n \in T PROVE IsFiniteSet(Below(n)) /\ Below(n) \subseteq Nat
    <3>1. n \in Nat /\ IsFiniteSet(0..n)
      BY FS_Interval
    <3>2. Below(n) \in SUBSET (0..n)
      OBVIOUS
    <3> QED BY <3>1, <3>2, FS_Subset
  <2> QED BY <2>1 DEF FiniteSubsetsOf
<1>2. PICK P \in Parts : \A Q \in Parts : ~(<<Q, P>> \in StrictSubsetOrdering(Nat))
  BY <1>1, WFMin, FS_StrictSubsetOrderingWellFounded
<1>3. PICK m \in T : P = Below(m)
  OBVIOUS
<1>4. ASSUME NEW n \in T, n < m PROVE FALSE
  <2>1. Below(n) \subseteq Below(m) /\ m \in Below(m) /\ m \notin Below(n)
    BY <1>4
  <2>2. Below(n) \in SUBSET Nat /\ Below(m) \in SUBSET Nat /\ Below(n) # Below(m)
    BY <2>1
  <2>3. <<Below(n), P>> \in StrictSubsetOrdering(Nat)
    BY <1>3, <2>1, <2>2 DEF StrictSubsetOrdering
  <2> QED BY <1>2, <2>3
<1> QED BY <1>4

\* Induction, for a set instead of a formula.
LEMMA UpTo ==
    ASSUME NEW T, NEW m \in Nat, 1 \in T, \A i \in 1..m - 1 : i \in T => i + 1 \in T
    PROVE  1..m \subseteq T
<1> SUFFICES ASSUME (1..m) \ T # {} PROVE FALSE
  OBVIOUS
<1>1. PICK n \in (1..m) \ T : \A i \in (1..m) \ T : n <= i
  <2>1. (1..m) \ T \subseteq Nat
    OBVIOUS
  <2> QED BY <2>1, LeastNumber
<1>2. n - 1 \in 1..m - 1 /\ (n - 1) + 1 = n
  BY <1>1
<1>3. n - 1 \in T
  BY <1>1, <1>2
<1> QED BY <1>1, <1>2, <1>3

\* What FlattenSeq puts together, part after part.
LEMMA FlattenParts ==
    ASSUME NEW S, NEW s \in Seq(Seq(S)), Len(s) > 0
    PROVE  \E f \in [1..Len(s) -> Seq(S)] :
              /\ f[1] = s[1] /\ FlattenSeq(s) = f[Len(s)]
              /\ \A i \in 1..Len(s) - 1 : f[i + 1] = f[i] \o s[i + 1]
<1> DEFINE m == Len(s)
           Is(f, n) == f = [i \in 1..n |-> IF i = 1 THEN s[i] ELSE f[i - 1] \o s[i]]
           T == {n \in 1..m : \E f : Is(f, n)}
<1>1. m \in Nat /\ m > 0 /\ 1 \in 1..m /\ \A i \in 1..m : s[i] \in Seq(S)
  OBVIOUS
<1> HIDE DEF m
<1>2. 1 \in T
  <2>1. Is([i \in 1..1 |-> s[1]], 1)
    OBVIOUS
  <2> HIDE DEF Is
  <2> QED BY <1>1, <2>1
<1>3. ASSUME NEW n \in 1..m - 1, n \in T PROVE n + 1 \in T
  <2>1. PICK f : Is(f, n)
    BY <1>3
  <2> DEFINE g == [i \in 1..n + 1 |-> IF i <= n THEN f[i] ELSE f[n] \o s[n + 1]]
  <2>2. ASSUME NEW i \in 1..n + 1
        PROVE  g[i] = IF i = 1 THEN s[i] ELSE g[i - 1] \o s[i]
    <3>1. CASE i = 1
      BY <1>1, <2>1, <3>1
    <3>2. CASE i # 1 /\ i <= n
      <4>1. i \in 1..n /\ i - 1 \in 1..n + 1 /\ i - 1 <= n
        BY <3>2
      <4> QED BY <2>1, <3>2, <4>1
    <3>3. CASE i # 1 /\ i > n
      <4>1. /\ i = n + 1 /\ i - 1 = n /\ n \in 1..n + 1 /\ n + 1 \in 1..n + 1
            /\ ~(n + 1 <= n) /\ n <= n
        BY <3>3
      <4>2. g[n + 1] = f[n] \o s[n + 1]
        BY <4>1
      <4>3. g[n] = f[n]
        BY <4>1
      <4> HIDE DEF g
      <4> QED BY <3>3, <4>1, <4>2, <4>3
    <3> QED BY <3>1, <3>2, <3>3
  <2>3. Is(g, n + 1)
    BY <2>2
  <2>4. n + 1 \in 1..m
    BY <1>1
  <2> HIDE DEF Is
  <2> QED BY <2>3, <2>4
<1>4. m \in T
  <2> HIDE DEF T
  <2>1. \A i \in 1..m - 1 : i \in T => i + 1 \in T
    BY <1>3
  <2>2. 1..m \subseteq T
    BY <1>1, <1>2, <2>1, UpTo
  <2> QED BY <1>1, <2>2
<1> DEFINE c == CHOOSE f : f = [i \in 1..m |-> IF i = 1 THEN s[i] ELSE f[i - 1] \o s[i]]
<1>5. c = [i \in 1..m |-> IF i = 1 THEN s[i] ELSE c[i - 1] \o s[i]]
  BY <1>4
<1>6. FlattenSeq(s) = c[m]
  BY <1>1 DEF FlattenSeq, m
<1> HIDE DEF c
<1>7. c[1] = s[1] /\ \A i \in 1..m - 1 : c[i + 1] = c[i] \o s[i + 1]
  <2>1. c[1] = s[1]
    BY <1>1, <1>5
  <2>2. ASSUME NEW i \in 1..m - 1 PROVE c[i + 1] = c[i] \o s[i + 1]
    <3>1. i + 1 \in 1..m /\ i + 1 # 1 /\ (i + 1) - 1 = i
      BY <1>1
    <3> QED BY <1>5, <3>1
  <2> QED BY <2>1, <2>2
<1>8. \A i \in 1..m : c[i] \in Seq(S)
  <2> DEFINE U == {i \in 1..m : c[i] \in Seq(S)}
  <2>1. 1 \in U
    BY <1>1, <1>7
  <2>2. ASSUME NEW i \in 1..m - 1, i \in U PROVE i + 1 \in U
    <3>1. i + 1 \in 1..m /\ s[i + 1] \in Seq(S) /\ c[i] \in Seq(S)
      BY <1>1, <2>2
    <3>2. c[i] \o s[i + 1] \in Seq(S)
      BY <3>1
    <3> QED BY <1>7, <3>1, <3>2
  <2> HIDE DEF U
  <2>3. 1..m \subseteq U
    BY <1>1, <2>1, <2>2, UpTo
  <2> QED BY <2>3 DEF U
<1>9. c \in [1..m -> Seq(S)]
  BY <1>5, <1>8
<1> QED BY <1>6, <1>7, <1>9 DEF m

\* One sequence after another.
LEMMA Joined ==
    ASSUME NEW S, NEW a \in Seq(S), NEW b \in Seq(S)
    PROVE  /\ a \o b \in Seq(S) /\ Len(a \o b) = Len(a) + Len(b)
           /\ Len(a) \in Nat /\ Len(b) \in Nat
           /\ \A k \in 1..Len(a) : (a \o b)[k] = a[k]
           /\ \A k \in 1..Len(b) : (a \o b)[Len(a) + k] = b[k]
<1>1. /\ a \o b \in Seq(S) /\ Len(a \o b) = Len(a) + Len(b)
      /\ Len(a) \in Nat /\ Len(b) \in Nat
  OBVIOUS
<1>2. \A k \in 1..Len(a) : (a \o b)[k] = a[k]
  OBVIOUS
<1>3. ASSUME NEW k \in 1..Len(b) PROVE (a \o b)[Len(a) + k] = b[k]
  OBVIOUS
<1> QED BY <1>1, <1>2, <1>3

\* All that is in a part is in the whole.
LEMMA FlattenHas ==
    ASSUME NEW S, NEW s \in Seq(Seq(S)), NEW j \in 1..Len(s), NEW k \in 1..Len(s[j])
    PROVE  \E h \in DOMAIN FlattenSeq(s) : FlattenSeq(s)[h] = s[j][k]
<1> DEFINE m == Len(s)
<1>1. PICK f \in [1..m -> Seq(S)] :
         /\ f[1] = s[1] /\ FlattenSeq(s) = f[m]
         /\ \A i \in 1..m - 1 : f[i + 1] = f[i] \o s[i + 1]
  <2>1. m > 0
    OBVIOUS
  <2> QED BY <2>1, FlattenParts
<1>2. m \in Nat /\ j \in 1..m /\ \A i \in 1..m : s[i] \in Seq(S)
  OBVIOUS
<1> DEFINE T == {i \in 1..m : i >= j => \E h \in 1..Len(f[i]) : f[i][h] = s[j][k]}
<1> HIDE DEF m
<1>3. ASSUME NEW i \in 1..m - 1, i + 1 >= j, i + 1 # j => \E h \in 1..Len(f[i]) : f[i][h] = s[j][k]
      PROVE  \E h \in 1..Len(f[i + 1]) : f[i + 1][h] = s[j][k]
  <2>1. f[i] \in Seq(S) /\ s[i + 1] \in Seq(S) /\ f[i + 1] = f[i] \o s[i + 1]
    <3>1. i \in 1..m /\ i + 1 \in 1..m
      BY <1>2
    <3> QED BY <1>1, <1>2, <3>1
  <2>2. CASE i + 1 = j
    <3> DEFINE a == f[i]
               b == s[j]
    <3>1. a \in Seq(S) /\ b \in Seq(S) /\ f[i + 1] = a \o b /\ k \in 1..Len(b)
      BY <2>1, <2>2
    <3> HIDE DEF a, b
    <3>2. Len(a) + k \in 1..Len(a \o b) /\ (a \o b)[Len(a) + k] = b[k]
      BY <3>1, Joined
    <3> QED BY <3>1, <3>2 DEF b
  <2>3. CASE i + 1 # j
    <3>1. PICK h \in 1..Len(f[i]) : f[i][h] = s[j][k]
      BY <1>3, <2>3
    <3> DEFINE a == f[i]
               b == s[i + 1]
    <3>2. a \in Seq(S) /\ b \in Seq(S) /\ f[i + 1] = a \o b /\ h \in 1..Len(a)
          /\ a[h] = s[j][k]
      BY <2>1, <3>1
    <3> HIDE DEF a, b
    <3>3. h \in 1..Len(a \o b) /\ (a \o b)[h] = a[h]
      BY <3>2, Joined
    <3> QED BY <3>2, <3>3
  <2> QED BY <2>2, <2>3
<1>4. 1 \in T
  <2>1. 1 >= j => f[1] = s[j]
    BY <1>1, <1>2
  <2>2. 1 >= j => \E h \in 1..Len(f[1]) : f[1][h] = s[j][k]
    BY <2>1
  <2>3. 1 \in 1..m
    BY <1>2
  <2> QED BY <2>2, <2>3
<1>5. \A i \in 1..m - 1 : i \in T => i + 1 \in T
  <2> SUFFICES ASSUME NEW i \in 1..m - 1, i \in T PROVE i + 1 \in T
    OBVIOUS
  <2>1. i + 1 \in 1..m /\ (i + 1 >= j /\ i + 1 # j => i >= j)
    BY <1>2
  <2>2. i + 1 >= j => \E h \in 1..Len(f[i + 1]) : f[i + 1][h] = s[j][k]
    BY <1>3, <2>1
  <2> QED BY <2>1, <2>2
<1>6. m \in T
  <2> HIDE DEF T
  <2>1. 1..m \subseteq T
    BY <1>2, <1>4, <1>5, UpTo
  <2> QED BY <1>2, <2>1
<1>7. f[m] \in Seq(S) /\ \E h \in 1..Len(f[m]) : f[m][h] = s[j][k]
  BY <1>1, <1>2, <1>6
<1> QED BY <1>1, <1>7
-----------------------------------------------------------------------------
(* The records of the operations log.                                      *)

Full == OpsRotate - 1      \* how many records an archive has
Now == Len(opsFile[0])

\* There are a archives, all of them full, and with the file itself they hold the
\* latest records one after another; all there are, before the last is used.
Shape(a) ==
    /\ opsSize = Now /\ Now <= Full /\ (Now = 0 => a = 0)
    /\ \A n \in 1..OpsKeep : Len(opsFile[n]) = IF n <= a THEN Full ELSE 0
    /\ a < OpsKeep => opsCount = Now + a * Full
    /\ \A k \in 1..Now : opsFile[0][k].no = opsCount - Now + k
    /\ \A n \in 1..a : \A k \in 1..Full : opsFile[n][k].no = opsCount - Now - n * Full + k

\* A failure that was recorded is among them, or older.
Recorded(a) ==
    "failed" \in once /\ ~opsClosed =>
        \/ \E n \in 0..OpsKeep : \E k \in 1..Len(opsFile[n]) : opsFile[n][k].about = "failed"
        \/ opsCount > Now + a * Full

RecInv == ~writeErr /\ ~opsStuck => \E a \in 0..OpsKeep : Shape(a) /\ Recorded(a)

\* A record that gets out, without or with a rotation.
Added(files, about) ==
    /\ opsCount' = opsCount + 1 /\ opsClosed' = FALSE /\ ~writeErr
    /\ IF opsSize + 1 >= OpsRotate
       THEN /\ opsSize' = 1
            /\ files = [n \in 0..OpsKeep |->
                           IF n = 0 THEN <<[no |-> opsCount + 1, about |-> about]>>
                           ELSE opsFile[n - 1]]
       ELSE /\ opsSize' = opsSize + 1
            /\ files = [opsFile EXCEPT ![0] =
                           Append(@, [no |-> opsCount + 1, about |-> about])]

\* With nothing to report and no archive stuck the record got out, and the archives
\* have moved up: one that could not be removed was written over.
LEMMA RecordGetsOut ==
    ASSUME OpsTypeOK, NEW about \in Subjects, OpsWrite(about), ~writeErr', ~opsStuck',
           NEW a \in 0..OpsKeep, Shape(a)
    PROVE  Added(opsFile', about)
<1>1. PICK stuck \in Sticking, moved \in Outcomes("opsAside"),
           reopened \in Outcomes("opsReopen"), written \in Outcomes("opsWrite") :
         LET rotates == opsSize + 1 >= OpsRotate
             files == IF rotates THEN SetAside(Shifted(opsFile, stuck), moved) ELSE opsFile
             up == rotates => reopened
             goes == up /\ written
         IN
         /\ opsFile' = IF goes
                       THEN [files EXCEPT ![0] =
                                 Append(@, [no |-> opsCount + 1, about |-> about])]
                       ELSE files
         /\ opsSize' = (IF rotates /\ up THEN 0 ELSE opsSize) + (IF goes THEN 1 ELSE 0)
         /\ opsClosed' = ~up
         /\ writeErr' = (writeErr \/ Failed(moved, reopened, written))
         /\ opsCount' = opsCount + 1
         /\ opsStuck' = (opsStuck \/ \E n \in stuck \ {OpsKeep} : opsFile[n] # << >>)
  BY Zenon DEF OpsWrite
<1>2. moved /\ reopened /\ written /\ ~writeErr
  BY <1>1, Zenon DEF Failed
<1> DEFINE record == [no |-> opsCount + 1, about |-> about]
           rotates == opsSize + 1 >= OpsRotate
           shifted == Shifted(opsFile, stuck)
           files == IF rotates THEN SetAside(shifted, TRUE) ELSE opsFile
<1>3. /\ moved = TRUE /\ reopened = TRUE /\ written = TRUE
  <2>1. \A kind : Outcomes(kind) \subseteq BOOLEAN
    BY DEF Outcomes
  <2> QED BY <1>2, <2>1, Zenon
<1>4. /\ opsFile' = [files EXCEPT ![0] = Append(@, record)]
      /\ opsSize' = (IF rotates THEN 0 ELSE opsSize) + 1
      /\ opsClosed' = FALSE /\ opsCount' = opsCount + 1
  BY <1>1, <1>3
<1>5. OpsKeep \in Nat \ {0} /\ opsSize \in Nat /\ opsFile \in [0..OpsKeep -> Seq(Record)]
  BY Constants DEF OpsTypeOK
<1> HIDE DEF record
<1>6. CASE rotates
  <2>1. files = [shifted EXCEPT ![1] = shifted[0], ![0] = << >>]
    BY <1>6 DEF SetAside
  <2>2. 0 \in 0..OpsKeep /\ 1 \in 0..OpsKeep
    BY <1>5
  <2>3. shifted[0] = opsFile[0]
    BY <2>2 DEF Shifted, MovesUp
  <2>4. files = [n \in 0..OpsKeep |-> IF n = 0 THEN << >> ELSE opsFile[n - 1]]
    <3>1. files = [n \in 0..OpsKeep |-> IF n = 0 THEN << >> ELSE IF n = 1 THEN opsFile[0]
                                        ELSE shifted[n]]
      BY <2>1, <2>2, <2>3 DEF Shifted
    <3>2. ASSUME NEW n \in 0..OpsKeep, n # 0, n # 1 PROVE shifted[n] = opsFile[n - 1]
      <4>1. n \in Nat /\ n > 1 /\ n - 1 \in 1..OpsKeep /\ n - 1 # OpsKeep /\ n \in 1..OpsKeep
        BY <1>5, <3>2
      <4>2. \A i \in 1..OpsKeep : i \in stuck /\ i # OpsKeep => opsFile[i] = << >>
        BY <1>1
      <4>3. opsFile[n - 1] = << >> => opsFile[n] = << >>
        <5>1. /\ Len(opsFile[n]) = IF n <= a THEN Full ELSE 0
              /\ Len(opsFile[n - 1]) = IF n - 1 <= a THEN Full ELSE 0
          BY <4>1 DEF Shape
        <5>2. Full \in Nat \ {0} /\ opsFile[n] \in Seq(Record) /\ a \in Nat
          BY <1>5, Constants DEF Full
        <5> HIDE DEF Full
        <5> QED BY <4>1, <5>1, <5>2
      <4>4. shifted[n] = IF n - 1 \notin stuck /\ opsFile[n - 1] # << >> THEN opsFile[n - 1]
                         ELSE IF n \in stuck THEN opsFile[n] ELSE << >>
        BY <4>1 DEF Shifted, MovesUp
      <4> QED BY <4>1, <4>2, <4>3, <4>4
    <3> HIDE DEF files, shifted
    <3> QED BY <3>1, <3>2
  <2> HIDE DEF files
  <2>5. opsFile' = [n \in 0..OpsKeep |-> IF n = 0 THEN Append(<< >>, record) ELSE opsFile[n - 1]]
    BY <1>4, <2>2, <2>4
  <2>6. Append(<< >>, record) = <<record>>
    OBVIOUS
  <2>7. opsSize' = 1
    BY <1>4, <1>6
  <2> QED BY <1>2, <1>4, <1>6, <2>5, <2>6, <2>7 DEF Added, record
<1>7. CASE ~rotates
  BY <1>2, <1>4, <1>5, <1>7 DEF Added, record
<1> QED BY <1>6, <1>7

\* A record is added to the file.
LEMMA AddKeeps ==
    ASSUME OpsTypeOK, NEW a \in 0..OpsKeep, Shape(a), Recorded(a), NEW about \in Subjects,
           Added(opsFile', about), opsSize + 1 < OpsRotate, ~opsClosed,
           "failed" \in once' => "failed" \in once \/ about = "failed"
    PROVE  Shape(a)' /\ Recorded(a)'
<1> DEFINE record == [no |-> opsCount + 1, about |-> about]
           q == Full
<1>1. /\ OpsKeep \in Nat \ {0} /\ opsSize \in Nat /\ opsCount \in Nat /\ a \in Nat
      /\ opsFile \in [0..OpsKeep -> Seq(Record)] /\ q \in Nat \ {0} /\ OpsRotate = q + 1
  BY Constants DEF OpsTypeOK, Full
<1>2. /\ opsSize' = opsSize + 1 /\ opsCount' = opsCount + 1
      /\ opsFile' = [opsFile EXCEPT ![0] = Append(@, record)]
  BY <1>1 DEF Added
<1>3. /\ opsFile[0] \in Seq(Record) /\ record \in Record /\ Now \in Nat
      /\ \A n \in 1..OpsKeep : n \in 0..OpsKeep /\ opsFile'[n] = opsFile[n]
      /\ opsFile'[0] = Append(opsFile[0], record)
  <2>1. record \in Record
    BY <1>1 DEF Record
  <2>2. 0 \in 0..OpsKeep
    BY <1>1
  <2> HIDE DEF record
  <2> QED BY <1>1, <1>2, <2>1, <2>2 DEF Now
<1> HIDE DEF record
<1>4. /\ Now' = Now + 1 /\ opsFile'[0][Now + 1] = record
      /\ \A k \in 1..Now : opsFile'[0][k] = opsFile[0][k]
  BY <1>3 DEF Now
<1>5. /\ opsSize = Now /\ Now <= q /\ (Now = 0 => a = 0)
      /\ \A n \in 1..OpsKeep : Len(opsFile[n]) = IF n <= a THEN q ELSE 0
      /\ a < OpsKeep => opsCount = Now + a * q
      /\ \A k \in 1..Now : opsFile[0][k].no = opsCount - Now + k
      /\ \A n \in 1..a : \A k \in 1..q : opsFile[n][k].no = opsCount - Now - n * q + k
  BY DEF Shape
<1> HIDE DEF q
<1>6. Now' <= q /\ Now' # 0 /\ opsSize' = Now'
  BY <1>1, <1>2, <1>3, <1>4, <1>5
<1>7. \A n \in 1..OpsKeep : Len(opsFile'[n]) = IF n <= a THEN q ELSE 0
  BY <1>3, <1>5
<1>8. a < OpsKeep => opsCount' = Now' + a * q
  <2>1. a * q \in Nat
    BY <1>1
  <2> QED BY <1>1, <1>2, <1>3, <1>4, <1>5, <2>1
<1>9. ASSUME NEW k \in 1..Now' PROVE opsFile'[0][k].no = opsCount' - Now' + k
  <2>1. Now \in Nat /\ opsCount \in Nat /\ Now' = Now + 1 /\ opsCount' = opsCount + 1
    BY <1>1, <1>2, <1>3, <1>4
  <2>2. CASE k <= Now
    <3>1. k \in 1..Now
      BY <2>1, <2>2
    <3>2. opsFile'[0][k].no = opsCount - Now + k
      BY <1>4, <1>5, <3>1
    <3> QED BY <2>1, <3>1, <3>2
  <2>3. CASE k > Now
    <3>1. k = Now + 1
      BY <2>1, <2>3
    <3>2. opsFile'[0][k].no = opsCount + 1
      BY <1>4, <3>1 DEF record
    <3> QED BY <2>1, <3>1, <3>2
  <2> QED BY <2>1, <2>2, <2>3
<1>10. ASSUME NEW n \in 1..a, NEW k \in 1..q
       PROVE  opsFile'[n][k].no = opsCount' - Now' - n * q + k
  <2>1. n \in 1..OpsKeep /\ n * q \in Nat
    BY <1>1
  <2>2. opsFile'[n][k].no = opsCount - Now - n * q + k
    BY <1>3, <1>5, <2>1
  <2> QED BY <1>1, <1>2, <1>3, <1>4, <2>1, <2>2
<1>11. Full' = q
  BY DEF Full, q
<1>12. Shape(a)'
  BY <1>6, <1>7, <1>8, <1>9, <1>10, <1>11 DEF Shape
<1>13. Recorded(a)'
  <2> SUFFICES ASSUME "failed" \in once'
               PROVE  \/ \E n \in 0..OpsKeep : \E k \in 1..Len(opsFile'[n]) :
                            opsFile'[n][k].about = "failed"
                      \/ opsCount' > Now' + a * q
    BY <1>11 DEF Recorded
  <2>1. CASE about = "failed"
    <3>1. opsFile'[0][Now + 1].about = "failed"
      BY <1>4, <2>1 DEF record
    <3>2. Now + 1 \in 1..Len(opsFile'[0]) /\ 0 \in 0..OpsKeep
      BY <1>1, <1>3, <1>4 DEF Now
    <3> QED BY <3>1, <3>2
  <2>2. CASE "failed" \in once
    <3>1. CASE opsCount > Now + a * q
      <4>1. a * q \in Nat
        BY <1>1
      <4> QED BY <1>1, <1>2, <1>3, <1>4, <3>1, <4>1
    <3>2. CASE \E n \in 0..OpsKeep : \E k \in 1..Len(opsFile[n]) :
                  opsFile[n][k].about = "failed"
      <4>0. PICK n \in 0..OpsKeep :
               \E k \in 1..Len(opsFile[n]) : opsFile[n][k].about = "failed"
        BY <3>2
      <4>1. PICK k \in 1..Len(opsFile[n]) : opsFile[n][k].about = "failed"
        BY <4>0
      <4>2. CASE n = 0
        <5>1. k \in 1..Now /\ k \in 1..Len(opsFile'[0])
          BY <1>3, <1>4, <4>1, <4>2 DEF Now
        <5> QED BY <1>4, <4>1, <4>2, <5>1
      <4>3. CASE n # 0
        <5>1. opsFile'[n] = opsFile[n]
          BY <1>3, <4>3
        <5> QED BY <4>1, <5>1
      <4> QED BY <4>2, <4>3
    <3> QED BY <2>2, <3>1, <3>2 DEF Recorded, q
  <2> QED BY <2>1, <2>2
<1> QED BY <1>12, <1>13

\* A record begins a new file, and the one before it becomes an archive.
LEMMA RotateKeeps ==
    ASSUME OpsTypeOK, NEW a \in 0..OpsKeep, Shape(a), Recorded(a), NEW about \in Subjects,
           Added(opsFile', about), opsSize + 1 >= OpsRotate, ~opsClosed,
           "failed" \in once' => "failed" \in once \/ about = "failed"
    PROVE  \E b \in 0..OpsKeep : Shape(b)' /\ Recorded(b)'
<1> DEFINE record == [no |-> opsCount + 1, about |-> about]
           q == Full
           b == IF a < OpsKeep THEN a + 1 ELSE OpsKeep
<1>1. /\ OpsKeep \in Nat \ {0} /\ opsSize \in Nat /\ opsCount \in Nat /\ a \in Nat
      /\ a <= OpsKeep /\ opsFile \in [0..OpsKeep -> Seq(Record)]
      /\ q \in Nat \ {0} /\ OpsRotate = q + 1
  BY Constants DEF OpsTypeOK, Full
<1>2. /\ opsSize' = 1 /\ opsCount' = opsCount + 1
      /\ opsFile' = [n \in 0..OpsKeep |-> IF n = 0 THEN <<record>> ELSE opsFile[n - 1]]
  BY <1>1 DEF Added
<1> HIDE DEF record
<1>3. /\ 0 \in 0..OpsKeep /\ opsFile'[0] = <<record>> /\ Now' = 1
      /\ \A n \in 1..OpsKeep : n \in 0..OpsKeep /\ n - 1 \in 0..OpsKeep /\ opsFile'[n] = opsFile[n - 1]
  BY <1>1, <1>2 DEF Now
<1>4. /\ opsSize = Now /\ Now <= q
      /\ \A n \in 1..OpsKeep : Len(opsFile[n]) = IF n <= a THEN q ELSE 0
      /\ a < OpsKeep => opsCount = Now + a * q
      /\ \A k \in 1..Now : opsFile[0][k].no = opsCount - Now + k
      /\ \A n \in 1..a : \A k \in 1..q : opsFile[n][k].no = opsCount - Now - n * q + k
  BY DEF Shape
<1> HIDE DEF q
<1>5. Now = q
  BY <1>1, <1>4
<1>6. b \in 1..OpsKeep /\ (b < OpsKeep => b = a + 1) /\ b - 1 <= a /\ (a < OpsKeep => b = a + 1)
      /\ (a = OpsKeep => b = a)
  BY <1>1
<1>7. \A n \in Nat : n * q \in Nat /\ (n + 1) * q = n * q + q
  BY <1>1
<1> HIDE DEF b
<1>8. ASSUME NEW n \in 1..OpsKeep PROVE Len(opsFile'[n]) = IF n <= b THEN q ELSE 0
  <2>1. CASE n = 1
    <3>1. opsFile'[n] = opsFile[0] /\ n <= b
      BY <1>3, <1>6, <2>1
    <3> QED BY <1>5, <3>1 DEF Now
  <2>2. CASE n # 1
    <3>1. opsFile'[n] = opsFile[n - 1] /\ n - 1 \in 1..OpsKeep /\ (n <= b <=> n - 1 <= a)
      BY <1>1, <1>3, <1>6, <2>2
    <3> QED BY <1>4, <3>1
  <2> QED BY <2>1, <2>2
<1>9. b < OpsKeep => opsCount' = 1 + b * q
  BY <1>1, <1>2, <1>4, <1>5, <1>6, <1>7
<1>10. ASSUME NEW k \in 1..1 PROVE opsFile'[0][k].no = opsCount' - 1 + k
  <2>1. k = 1 /\ record.no = opsCount + 1
    BY DEF record
  <2> QED BY <1>1, <1>2, <1>3, <2>1
<1>11. ASSUME NEW n \in 1..b, NEW k \in 1..q
       PROVE  opsFile'[n][k].no = opsCount' - 1 - n * q + k
  <2>1. n \in 1..OpsKeep /\ opsFile'[n] = opsFile[n - 1]
    BY <1>1, <1>3, <1>6
  <2>2. CASE n = 1
    <3>1. k \in 1..Now /\ opsFile'[n] = opsFile[0]
      BY <1>5, <2>1, <2>2
    <3>2. opsFile'[n][k].no = opsCount - q + k
      BY <1>4, <1>5, <3>1
    <3>3. n * q = q
      BY <1>1, <2>2
    <3> QED BY <1>1, <1>2, <3>2, <3>3
  <2>3. CASE n # 1
    <3>1. n - 1 \in 1..a /\ n - 1 \in Nat /\ (n - 1) + 1 = n
      BY <1>1, <1>6, <2>3
    <3>2. opsFile'[n][k].no = opsCount - q - (n - 1) * q + k
      BY <1>4, <1>5, <2>1, <3>1
    <3>3. n * q = (n - 1) * q + q /\ (n - 1) * q \in Nat
      BY <1>7, <3>1
    <3> QED BY <1>1, <1>2, <3>2, <3>3
  <2> QED BY <2>2, <2>3
<1>12. Full' = q
  BY DEF Full, q
<1>13. Shape(b)'
  <2>1. /\ opsSize' = Now' /\ Now' <= q /\ Now' # 0
    BY <1>1, <1>2, <1>3
  <2> QED BY <1>3, <1>8, <1>9, <1>10, <1>11, <1>12, <2>1 DEF Shape
<1>14. Recorded(b)'
  <2> SUFFICES ASSUME "failed" \in once'
               PROVE  \/ \E n \in 0..OpsKeep : \E k \in 1..Len(opsFile'[n]) :
                            opsFile'[n][k].about = "failed"
                      \/ opsCount' > 1 + b * q
    BY <1>3, <1>12 DEF Recorded
  <2>1. CASE about = "failed"
    <3>1. opsFile'[0][1].about = "failed" /\ 1 \in 1..Len(opsFile'[0])
      BY <1>3, <2>1 DEF record
    <3> QED BY <1>3, <3>1
  <2>2. CASE "failed" \in once
    <3>1. CASE opsCount > Now + a * q
      <4>1. a = OpsKeep /\ b = a
        BY <1>1, <1>4, <1>6, <3>1
      <4> QED BY <1>1, <1>2, <1>5, <1>7, <3>1, <4>1
    <3>2. CASE \E n \in 0..OpsKeep : \E k \in 1..Len(opsFile[n]) :
                  opsFile[n][k].about = "failed"
      <4>0. PICK n \in 0..OpsKeep :
               \E k \in 1..Len(opsFile[n]) : opsFile[n][k].about = "failed"
        BY <3>2
      <4>1. PICK k \in 1..Len(opsFile[n]) : opsFile[n][k].about = "failed"
        BY <4>0
      <4>2. CASE n < OpsKeep
        <5>1. n + 1 \in 1..OpsKeep /\ (n + 1) - 1 = n
          BY <1>1, <4>2
        <5>2. opsFile'[n + 1] = opsFile[n] /\ n + 1 \in 0..OpsKeep
          BY <1>3, <5>1
        <5> QED BY <4>1, <5>2
      <4>3. CASE n = OpsKeep
        <5>1. n \in 1..OpsKeep /\ Len(opsFile[n]) \in Nat /\ Len(opsFile[n]) # 0
          BY <1>1, <4>1, <4>3
        <5>2. a = OpsKeep /\ 1 \in 1..q
          BY <1>1, <1>4, <4>3, <5>1
        <5>3. opsFile[n][1].no = opsCount - q - n * q + 1
          BY <1>4, <1>5, <4>3, <5>1, <5>2
        <5>4. opsFile[n][1].no \in Nat \ {0}
          <6>1. opsFile[n] \in Seq(Record) /\ 1 \in 1..Len(opsFile[n])
            BY <1>1, <5>1
          <6>2. opsFile[n][1] \in Record
            BY <6>1
          <6> QED BY <6>2 DEF Record
        <5>5. b = n /\ n * q \in Nat
          BY <1>6, <1>7, <4>3, <5>1, <5>2
        <5> QED BY <1>1, <1>2, <5>3, <5>4, <5>5
      <4>4. n < OpsKeep \/ n = OpsKeep
        BY <1>1
      <4> QED BY <4>2, <4>3, <4>4
    <3> QED BY <1>3, <2>2, <3>1, <3>2 DEF Recorded, q
  <2> QED BY <2>1, <2>2
<1> QED BY <1>6, <1>13, <1>14

\* At first there is nothing to say.
LEMMA InitRecords == Init => RecInv
<1> SUFFICES ASSUME Init PROVE Shape(0) /\ Recorded(0)
  BY Constants DEF RecInv
<1>1. /\ OpsKeep \in Nat \ {0} /\ Full \in Nat
      /\ opsFile = [n \in 0..OpsKeep |-> << >>] /\ opsSize = 0 /\ opsCount = 0 /\ once = {}
  BY Constants DEF Init, OpsInit, Full
<1>2. Now = 0 /\ \A n \in 1..OpsKeep : Len(opsFile[n]) = 0
  BY <1>1 DEF Now
<1>3. 0 * Full = 0
  BY <1>1
<1>4. Shape(0)
  <2> HIDE DEF Full, Now
  <2>1. \A n \in 1..OpsKeep : ~(n <= 0)
    OBVIOUS
  <2> QED BY <1>1, <1>2, <1>3, <2>1 DEF Shape
<1> QED BY <1>1, <1>4 DEF Recorded

\* The records keep their shape as long as there is nothing to report.
LEMMA RecordsInductive == OpsTypeOK /\ RecInv /\ OpsMove => RecInv'
<1> SUFFICES ASSUME OpsTypeOK, RecInv, OpsMove, ~writeErr', ~opsStuck'
             PROVE  \E b \in 0..OpsKeep : Shape(b)' /\ Recorded(b)'
  BY DEF RecInv
<1>1. CASE /\ UNCHANGED <<opsFile, opsSize, writeErr, opsCount, opsStuck>>
           /\ opsClosed' \/ UNCHANGED <<opsClosed, once>>
  <2>1. PICK a \in 0..OpsKeep : Shape(a) /\ Recorded(a)
    BY <1>1 DEF RecInv
  <2>2. Shape(a)'
    BY <1>1, <2>1 DEF Shape, Full, Now
  <2>3. Recorded(a)'
    BY <1>1, <2>1 DEF Recorded, Full, Now
  <2> QED BY <2>2, <2>3
<1>2. ASSUME NEW about \in Subjects, ~opsClosed, OpsWrite(about), once' \subseteq once \cup {about}
      PROVE  \E b \in 0..OpsKeep : Shape(b)' /\ Recorded(b)'
  <2>0. ~writeErr /\ ~opsStuck
    BY <1>2, Zenon DEF OpsWrite, Failed
  <2>2. PICK a \in 0..OpsKeep : Shape(a) /\ Recorded(a)
    BY <2>0 DEF RecInv
  <2>1. Added(opsFile', about)
    BY <1>2, <2>2, RecordGetsOut
  <2>3. "failed" \in once' => "failed" \in once \/ about = "failed"
    BY <1>2
  <2>4. CASE opsSize + 1 >= OpsRotate
    BY <1>2, <2>1, <2>2, <2>3, <2>4, RotateKeeps
  <2>5. CASE ~(opsSize + 1 >= OpsRotate)
    <3>1. opsSize + 1 < OpsRotate
      BY <2>5, Constants DEF OpsTypeOK
    <3> QED BY <1>2, <2>1, <2>2, <2>3, <3>1, AddKeeps
  <2> QED BY <2>4, <2>5
<1>3. {"other", "rotated", "failed"} \subseteq Subjects
  BY DEF Subjects
<1>4. CASE UNCHANGED opsVars \/ OpsClose
  BY <1>1, <1>4 DEF opsVars, OpsClose
<1>5. ASSUME NEW about \in Subjects, Log(about) \/ Once(about), ~UNCHANGED opsVars
      PROVE  \E b \in 0..OpsKeep : Shape(b)' /\ Recorded(b)'
  <2>1. OpsRecord(about) /\ once' \subseteq once \cup {about}
    BY <1>5 DEF Log, Once
  <2>2. CASE opsClosed
    BY <1>1, <2>1, <2>2 DEF OpsRecord
  <2>3. CASE ~opsClosed
    BY <1>2, <2>1, <2>3 DEF OpsRecord
  <2> QED BY <2>2, <2>3
<1> QED BY <1>3, <1>4, <1>5 DEF OpsMove

\* Another part is put behind those before it.
LEMMA NextPart ==
    ASSUME NEW b \in Int, NEW g \in Seq(Record), NEW h \in Seq(Record),
           \A k \in 1..Len(g) : g[k].no = b + k,
           \A k \in 1..Len(h) : h[k].no = b + Len(g) + k
    PROVE  /\ g \o h \in Seq(Record) /\ Len(g \o h) = Len(g) + Len(h)
           /\ \A k \in 1..Len(g \o h) : (g \o h)[k].no = b + k
<1>1. /\ g \o h \in Seq(Record) /\ Len(g \o h) = Len(g) + Len(h)
      /\ Len(g) \in Nat /\ Len(h) \in Nat
      /\ \A k \in 1..Len(g) : (g \o h)[k] = g[k]
      /\ \A k \in 1..Len(h) : (g \o h)[Len(g) + k] = h[k]
  BY Joined
<1>2. ASSUME NEW k \in 1..Len(g \o h) PROVE (g \o h)[k].no = b + k
  <2>1. CASE k <= Len(g)
    <3>1. k \in 1..Len(g)
      BY <2>1
    <3> QED BY <1>1, <3>1
  <2>2. CASE k > Len(g)
    <3> DEFINE j == k - Len(g)
    <3>1. j \in 1..Len(h) /\ k = Len(g) + j
      BY <1>1, <2>2
    <3>2. (g \o h)[k] = h[j]
      BY <1>1, <3>1
    <3> HIDE DEF j
    <3>3. (g \o h)[k].no = b + Len(g) + j
      BY <3>1, <3>2
    <3> QED BY <1>1, <3>1, <3>3
  <2> QED BY <1>1, <2>1, <2>2
<1> QED BY <1>1, <1>2

\* The files from the oldest to the latest, one record after another.
LEMMA OpsKeptIs ==
    ASSUME OpsTypeOK, NEW a \in 0..OpsKeep, Shape(a)
    PROVE  /\ OpsKept \in Seq(Record) /\ Len(OpsKept) = a * Full + Now
           /\ \A k \in 1..Len(OpsKept) : OpsKept[k].no = opsCount - Len(OpsKept) + k
<1> DEFINE q == Full
           m == OpsKeep
           s == [n \in 1..m + 1 |-> opsFile[m + 1 - n]]
           b == opsCount - Now - a * q
           long(i) == IF i <= m - a THEN 0 ELSE (i - (m - a)) * q
<1>1. /\ m \in Nat \ {0} /\ opsCount \in Nat /\ a \in Nat /\ a <= m
      /\ opsFile \in [0..m -> Seq(Record)] /\ q \in Nat \ {0}
  BY Constants DEF OpsTypeOK, Full
<1>2. /\ \A n \in 1..m : Len(opsFile[n]) = IF n <= a THEN q ELSE 0
      /\ \A k \in 1..Now : opsFile[0][k].no = opsCount - Now + k
      /\ \A n \in 1..a : \A k \in 1..q : opsFile[n][k].no = opsCount - Now - n * q + k
  BY DEF Shape
<1>3. Now \in Nat /\ opsFile[0] \in Seq(Record) /\ Now = Len(opsFile[0])
  <2>1. opsFile[0] \in Seq(Record)
    BY <1>1
  <2> QED BY <2>1 DEF Now
<1> HIDE DEF q, m, Now
<1>4. \A n, j \in Nat : n * q \in Nat /\ (n + j) * q = n * q + j * q /\ 0 * q = 0 /\ 1 * q = q
  BY <1>1
<1>5. s \in Seq(Seq(Record)) /\ Len(s) = m + 1 /\ \A i \in 1..m + 1 : s[i] = opsFile[m + 1 - i]
  <2>1. \A i \in 1..m + 1 : m + 1 - i \in 0..m
    BY <1>1
  <2>2. s \in [1..m + 1 -> Seq(Record)]
    BY <1>1, <2>1
  <2>3. m + 1 \in Nat
    BY <1>1
  <2>4. s \in Seq(Seq(Record)) /\ Len(s) = m + 1
    <3> HIDE DEF s
    <3> QED BY <2>2, <2>3
  <2> QED BY <2>4
<1>6. OpsKept = FlattenSeq(s)
  BY DEF OpsKept, s, m
<1> HIDE DEF s
<1>7. b \in Int
  BY <1>1, <1>3, <1>4
<1>8. ASSUME NEW i \in 0..m - 1, NEW g \in Seq(Record), Len(g) = long(i),
             \A k \in 1..Len(g) : g[k].no = b + k
      PROVE  LET h == g \o opsFile[m - i] IN
             h \in Seq(Record) /\ Len(h) = long(i + 1) /\ \A k \in 1..Len(h) : h[k].no = b + k
  <2> DEFINE n == m - i
             p == opsFile[n]
  <2>1. n \in 1..m /\ n \in 0..m /\ i \in Nat /\ i = m - n
    BY <1>1
  <2>2. p \in Seq(Record) /\ Len(p) = IF n <= a THEN q ELSE 0
    BY <1>1, <1>2, <2>1
  <2> HIDE DEF n
  <2>3. CASE n <= a
    <3> DEFINE j == a - n
    <3>1. j \in Nat /\ a = n + j /\ n \in Nat /\ j = i - (m - a) /\ j + 1 = (i + 1) - (m - a)
      BY <1>1, <2>1, <2>3
    <3>2. ~(i + 1 <= m - a) /\ (i <= m - a <=> j = 0)
      BY <1>1, <2>1, <3>1
    <3> HIDE DEF j
    <3>3. long(i) = j * q /\ long(i + 1) = j * q + q /\ a * q = n * q + j * q /\ n * q \in Nat
          /\ j * q \in Nat
      <4>1. n * q \in Nat /\ j * q \in Nat /\ a * q = n * q + j * q
        BY <1>4, <3>1
      <4>2. 1 * q = q /\ 0 * q = 0 /\ (j + 1) * q = j * q + 1 * q
        BY <1>4, <3>1
      <4>3. (i - (m - a)) * q = j * q /\ ((i + 1) - (m - a)) * q = (j + 1) * q
        BY <3>1
      <4>4. long(i) = j * q
        BY <3>2, <4>2, <4>3
      <4>5. long(i + 1) = j * q + q
        BY <3>2, <4>2, <4>3
      <4> QED BY <4>1, <4>4, <4>5
    <3> HIDE DEF long
    <3>4. ASSUME NEW k \in 1..Len(p) PROVE p[k].no = b + Len(g) + k
      <4>1. n \in 1..a /\ k \in 1..q
        BY <2>1, <2>2, <2>3
      <4>2. p[k].no = opsCount - Now - n * q + k
        BY <1>2, <4>1
      <4>3. b + Len(g) = opsCount - Now - n * q
        <5> DEFINE x == n * q
                   y == j * q
        <5>1. x \in Nat /\ y \in Nat /\ b = opsCount - Now - (x + y) /\ Len(g) = y
          BY <1>8, <3>3
        <5> HIDE DEF b, x, y
        <5>2. b + Len(g) = opsCount - Now - x
          BY <1>1, <1>3, <5>1
        <5> QED BY <5>2 DEF x
      <4> QED BY <4>2, <4>3
    <3> HIDE DEF p, b
    <3>5. /\ g \o p \in Seq(Record) /\ Len(g \o p) = Len(g) + Len(p)
          /\ \A k \in 1..Len(g \o p) : (g \o p)[k].no = b + k
      BY <1>7, <1>8, <2>2, <3>4, NextPart
    <3> QED BY <1>1, <1>8, <2>2, <2>3, <3>3, <3>5 DEF p, n
  <2>4. CASE ~(n <= a)
    <3>1. i <= m - a /\ i + 1 <= m - a /\ long(i) = 0 /\ long(i + 1) = 0
      BY <1>1, <2>1, <2>4
    <3> HIDE DEF p, b, long
    <3>2. \A k \in 1..Len(p) : p[k].no = b + Len(g) + k
      BY <2>2, <2>4
    <3>3. /\ g \o p \in Seq(Record) /\ Len(g \o p) = Len(g) + Len(p)
          /\ \A k \in 1..Len(g \o p) : (g \o p)[k].no = b + k
      BY <1>7, <1>8, <2>2, <3>2, NextPart
    <3> QED BY <1>8, <2>2, <2>4, <3>1, <3>3 DEF p, n
  <2> QED BY <2>3, <2>4
<1>9. PICK f \in [1..m + 1 -> Seq(Record)] :
         /\ f[1] = s[1] /\ FlattenSeq(s) = f[m + 1]
         /\ \A i \in 1..m : f[i + 1] = f[i] \o s[i + 1]
  <2>1. Len(s) > 0 /\ Len(s) - 1 = m
    BY <1>1, <1>5
  <2>2. s \in Seq(Seq(Record)) /\ Len(s) > 0
    BY <1>5, <2>1
  <2>3. \E f \in [1..Len(s) -> Seq(Record)] :
           /\ f[1] = s[1] /\ FlattenSeq(s) = f[Len(s)]
           /\ \A i \in 1..Len(s) - 1 : f[i + 1] = f[i] \o s[i + 1]
    BY <2>2, FlattenParts, Zenon
  <2> QED BY <1>5, <2>1, <2>3, Zenon
<1> DEFINE T == {i \in 1..m : Len(f[i]) = long(i) /\ \A k \in 1..Len(f[i]) : f[i][k].no = b + k}
<1>10. 1 \in T
  <2>1. 0 \in 0..m - 1 /\ << >> \in Seq(Record) /\ Len(<< >>) = 0 /\ m - 0 = m /\ 0 + 1 = 1
        /\ 1 \in 1..m
    BY <1>1
  <2>2. long(0) = 0
    BY <1>1
  <2>3. << >> \o opsFile[m] = opsFile[m]
    <3>1. opsFile[m] \in Seq(Record)
      BY <1>1
    <3> QED BY <3>1
  <2>4. f[1] = opsFile[m]
    BY <1>1, <1>5, <1>9
  <2> HIDE DEF long, b
  <2>5. Len(opsFile[m]) = long(1) /\ \A k \in 1..Len(opsFile[m]) : opsFile[m][k].no = b + k
    <3>1. \A k \in 1..Len(<< >>) : << >>[k].no = b + k
      BY <2>1
    <3>2. LET h == << >> \o opsFile[m - 0] IN
             h \in Seq(Record) /\ Len(h) = long(0 + 1) /\ \A k \in 1..Len(h) : h[k].no = b + k
      BY <1>8, <2>1, <2>2, <3>1
    <3> QED BY <2>1, <2>3, <3>2
  <2> QED BY <2>1, <2>4, <2>5
<1>11. \A i \in 1..m - 1 : i \in T => i + 1 \in T
  <2> SUFFICES ASSUME NEW i \in 1..m - 1, i \in T PROVE i + 1 \in T
    OBVIOUS
  <2>1. i \in 0..m - 1 /\ i \in 1..m /\ i \in 1..m + 1 /\ i + 1 \in 1..m /\ i + 1 \in 1..m + 1
        /\ m + 1 - (i + 1) = m - i
    BY <1>1
  <2>2. f[i] \in Seq(Record) /\ f[i + 1] = f[i] \o opsFile[m - i]
    BY <1>5, <1>9, <2>1
  <2> HIDE DEF long, b
  <2>3. LET h == f[i] \o opsFile[m - i] IN
           h \in Seq(Record) /\ Len(h) = long(i + 1) /\ \A k \in 1..Len(h) : h[k].no = b + k
    BY <1>8, <2>1, <2>2
  <2> QED BY <2>1, <2>2, <2>3
<1>12. m \in T
  <2> HIDE DEF T
  <2>1. 1..m \subseteq T
    BY <1>1, <1>10, <1>11, UpTo
  <2> QED BY <1>1, <2>1
<1>13. long(m) = a * q
  <2>1. m - (m - a) = a /\ (m <= m - a <=> a = 0)
    BY <1>1
  <2> QED BY <1>4, <2>1
<1> HIDE DEF long
<1>14. f[m] \in Seq(Record) /\ Len(f[m]) = a * q /\ OpsKept = f[m] \o opsFile[0]
  <2>1. m \in 1..m + 1 /\ m \in 1..m /\ m + 1 \in 1..m + 1 /\ m + 1 - (m + 1) = 0
    BY <1>1
  <2> HIDE DEF b
  <2> QED BY <1>5, <1>6, <1>9, <1>12, <1>13, <2>1
<1>15. \A k \in 1..Len(opsFile[0]) : opsFile[0][k].no = b + Len(f[m]) + k
  <2> SUFFICES ASSUME NEW k \in 1..Now PROVE opsFile[0][k].no = b + a * q + k
    BY <1>3, <1>14
  <2> QED BY <1>1, <1>2, <1>3, <1>4
<1>16. /\ OpsKept \in Seq(Record) /\ Len(OpsKept) = a * q + Now
       /\ \A k \in 1..Len(OpsKept) : OpsKept[k].no = b + k
  <2>1. \A k \in 1..Len(f[m]) : f[m][k].no = b + k
    BY <1>12
  <2> HIDE DEF b
  <2>2. /\ f[m] \o opsFile[0] \in Seq(Record)
        /\ Len(f[m] \o opsFile[0]) = Len(f[m]) + Len(opsFile[0])
        /\ \A k \in 1..Len(f[m] \o opsFile[0]) : (f[m] \o opsFile[0])[k].no = b + k
    BY <1>3, <1>7, <1>14, <1>15, <2>1, NextPart
  <2> QED BY <1>3, <1>14, <2>2, Zenon
<1>17. b = opsCount - Len(OpsKept)
  <2> DEFINE x == a * q
  <2>1. x \in Nat
    BY <1>1, <1>4
  <2>2. b = opsCount - Now - x /\ Len(OpsKept) = x + Now
    BY <1>16
  <2> HIDE DEF x, b
  <2> QED BY <1>1, <1>3, <2>1, <2>2
<1> QED BY <1>16, <1>17 DEF q

\* What the theorems on the records rest on.
LEMMA RecordsStay == TInv /\ RecInv /\ [Next]_vars => RecInv'
  BY OpsMoves, RecordsInductive DEF TInv

\* The records of each file come after those of the older ones, and none is later
\* than the last call.
Ordered(files) ==
    \A m, n \in 0..OpsKeep : \A j \in DOMAIN files[m], k \in DOMAIN files[n] :
        m > n \/ (m = n /\ j < k) => files[m][j].no < files[n][k].no
Until(files, count) == \A n \in 0..OpsKeep : \A k \in DOMAIN files[n] : files[n][k].no <= count
OrderInv == Ordered(opsFile) /\ Until(opsFile, opsCount)

\* Files that move without passing each other stay in their order.
LEMMA MovedInOrder ==
    ASSUME NEW f \in [0..OpsKeep -> Seq(Record)], NEW g \in [0..OpsKeep -> Seq(Record)],
           NEW count, Ordered(f), Until(f, count),
           NEW from \in [0..OpsKeep -> 0..OpsKeep],
           \A n \in 0..OpsKeep : g[n] = << >> \/ g[n] = f[from[n]],
           \A m, n \in 0..OpsKeep : m > n /\ g[m] # << >> /\ g[n] # << >> => from[m] > from[n]
    PROVE  Ordered(g) /\ Until(g, count)
<1>1. ASSUME NEW n \in 0..OpsKeep, NEW k \in DOMAIN g[n]
      PROVE  g[n] # << >> /\ g[n] = f[from[n]] /\ from[n] \in 0..OpsKeep
  BY <1>1
<1>2. Until(g, count)
  BY <1>1 DEF Until
<1>3. ASSUME NEW m \in 0..OpsKeep, NEW n \in 0..OpsKeep,
             NEW j \in DOMAIN g[m], NEW k \in DOMAIN g[n], m > n \/ (m = n /\ j < k)
      PROVE  g[m][j].no < g[n][k].no
  <2>1. /\ g[m] # << >> /\ g[m] = f[from[m]] /\ from[m] \in 0..OpsKeep
        /\ g[n] # << >> /\ g[n] = f[from[n]] /\ from[n] \in 0..OpsKeep
    BY <1>1
  <2>2. from[m] > from[n] \/ (from[m] = from[n] /\ j < k)
    BY <1>3, <2>1
  <2> QED BY <2>1, <2>2 DEF Ordered
<1> QED BY <1>2, <1>3 DEF Ordered

\* So they are by a rotation, whatever is stuck.
LEMMA ShiftedInOrder ==
    ASSUME NEW f \in [0..OpsKeep -> Seq(Record)], NEW count, Ordered(f), Until(f, count),
           NEW stuck
    PROVE  /\ Shifted(f, stuck) \in [0..OpsKeep -> Seq(Record)]
           /\ Ordered(Shifted(f, stuck)) /\ Until(Shifted(f, stuck), count)
<1> DEFINE g == Shifted(f, stuck)
           from == [n \in 0..OpsKeep |-> IF MovesUp(f, stuck, n) THEN n - 1 ELSE n]
<1>1. /\ OpsKeep \in Nat \ {0}
      /\ \A n \in 0..OpsKeep :
            /\ g[n] = IF MovesUp(f, stuck, n) THEN f[n - 1]
                      ELSE IF n = 0 \/ n \in stuck THEN f[n] ELSE << >>
            /\ from[n] = IF MovesUp(f, stuck, n) THEN n - 1 ELSE n
            /\ MovesUp(f, stuck, n) <=> n > 1 /\ n - 1 \notin stuck /\ f[n - 1] # << >>
  BY Constants DEF Shifted, MovesUp
<1>2. g \in [0..OpsKeep -> Seq(Record)] /\ from \in [0..OpsKeep -> 0..OpsKeep]
  BY <1>1 DEF Shifted, MovesUp
<1> HIDE DEF g, from
<1>3. \A n \in 0..OpsKeep : g[n] = << >> \/ g[n] = f[from[n]]
  BY <1>1
<1>4. ASSUME NEW m \in 0..OpsKeep, NEW n \in 0..OpsKeep, m > n, g[m] # << >>, g[n] # << >>
      PROVE  from[m] > from[n]
  <2>0. from[n] <= n /\ m \in Nat /\ n \in Nat /\ from[n] \in Nat
    <3>1. OpsKeep \in Nat /\ m \in Nat /\ n \in Nat /\ from[n] \in 0..OpsKeep
      BY <1>1, <1>2
    <3>2. from[n] = n \/ from[n] = n - 1
      BY <1>1
    <3> QED BY <3>1, <3>2
  <2>1. CASE ~MovesUp(f, stuck, m)
    <3>1. from[m] = m
      BY <1>1, <2>1
    <3> QED BY <1>4, <2>0, <3>1
  <2>2. CASE MovesUp(f, stuck, m) /\ m - 1 > n
    <3>1. from[m] = m - 1
      BY <1>1, <2>2
    <3> QED BY <2>0, <2>2, <3>1
  <2>3. CASE MovesUp(f, stuck, m) /\ m - 1 = n
    <3>1. n \notin stuck /\ n # 0
      BY <1>1, <2>3
    <3>2. MovesUp(f, stuck, n)
      BY <1>1, <1>4, <3>1
    <3> QED BY <1>1, <2>3, <3>2
  <2> QED BY <1>4, <2>1, <2>2, <2>3
<1>5. Ordered(g) /\ Until(g, count)
  BY <1>2, <1>3, <1>4, MovedInOrder
<1> QED BY <1>2, <1>5 DEF g

\* And when the file itself is set aside.
LEMMA AsideInOrder ==
    ASSUME NEW f \in [0..OpsKeep -> Seq(Record)], NEW count, Ordered(f), Until(f, count),
           NEW moved \in BOOLEAN
    PROVE  /\ SetAside(f, moved) \in [0..OpsKeep -> Seq(Record)]
           /\ Ordered(SetAside(f, moved)) /\ Until(SetAside(f, moved), count)
<1> DEFINE g == SetAside(f, TRUE)
           from == [n \in 0..OpsKeep |-> IF n = 1 THEN 0 ELSE n]
<1>1. /\ OpsKeep \in Nat \ {0} /\ 0 \in 0..OpsKeep /\ 1 \in 0..OpsKeep
      /\ \A n \in 0..OpsKeep :
            /\ g[n] = IF n = 0 THEN << >> ELSE IF n = 1 THEN f[0] ELSE f[n]
            /\ from[n] = IF n = 1 THEN 0 ELSE n
  BY Constants DEF SetAside
<1>2. g \in [0..OpsKeep -> Seq(Record)] /\ from \in [0..OpsKeep -> 0..OpsKeep]
  BY <1>1 DEF SetAside
<1> HIDE DEF g, from
<1>3. \A n \in 0..OpsKeep : g[n] = << >> \/ g[n] = f[from[n]]
  BY <1>1
<1>4. \A m, n \in 0..OpsKeep : m > n /\ g[m] # << >> /\ g[n] # << >> => from[m] > from[n]
  BY <1>1
<1>5. Ordered(g) /\ Until(g, count)
  BY <1>2, <1>3, <1>4, MovedInOrder
<1>6. SetAside(f, moved) = IF moved THEN g ELSE f
  BY DEF SetAside, g
<1> QED BY <1>2, <1>5, <1>6

\* The record of a call is put behind all the others.
LEMMA WriteInOrder ==
    ASSUME OpsTypeOK, OrderInv, NEW about \in Subjects, OpsWrite(about)
    PROVE  OrderInv'
<1>1. PICK stuck \in Sticking, moved \in Outcomes("opsAside"), goes \in BOOLEAN :
         LET files == IF opsSize + 1 >= OpsRotate
                      THEN SetAside(Shifted(opsFile, stuck), moved) ELSE opsFile
         IN  /\ opsFile' = IF goes
                           THEN [files EXCEPT ![0] =
                                     Append(@, [no |-> opsCount + 1, about |-> about])]
                           ELSE files
             /\ opsCount' = opsCount + 1
  BY Zenon DEF OpsWrite
<1> DEFINE files == IF opsSize + 1 >= OpsRotate
                    THEN SetAside(Shifted(opsFile, stuck), moved) ELSE opsFile
           record == [no |-> opsCount + 1, about |-> about]
<1>2. opsFile \in [0..OpsKeep -> Seq(Record)] /\ opsCount \in Nat /\ 0 \in 0..OpsKeep
  BY Constants DEF OpsTypeOK
<1>3. moved \in BOOLEAN
  BY DEF Outcomes
<1>4. /\ files \in [0..OpsKeep -> Seq(Record)]
      /\ Ordered(files) /\ Until(files, opsCount)
  <2> DEFINE shifted == Shifted(opsFile, stuck)
  <2>1. shifted \in [0..OpsKeep -> Seq(Record)] /\ Ordered(shifted) /\ Until(shifted, opsCount)
    BY <1>2, ShiftedInOrder DEF OrderInv
  <2> HIDE DEF shifted
  <2>2. /\ SetAside(shifted, moved) \in [0..OpsKeep -> Seq(Record)]
        /\ Ordered(SetAside(shifted, moved)) /\ Until(SetAside(shifted, moved), opsCount)
    BY <1>3, <2>1, AsideInOrder
  <2> QED BY <1>2, <2>2 DEF OrderInv, shifted
<1>5. opsFile' = (IF goes THEN [files EXCEPT ![0] = Append(files[0], record)] ELSE files)
      /\ opsCount' = opsCount + 1
  BY <1>1
<1>6. record \in Record /\ record.no = opsCount + 1
  BY <1>2 DEF Record
<1> HIDE DEF files, record
<1>7. Until(files, opsCount + 1)
  <2>1. ASSUME NEW n \in 0..OpsKeep, NEW k \in DOMAIN files[n] PROVE files[n][k].no <= opsCount + 1
    <3>1. files[n] \in Seq(Record) /\ files[n][k] \in Record /\ files[n][k].no <= opsCount
      BY <1>4 DEF Until
    <3>2. files[n][k].no \in Nat
      BY <3>1 DEF Record
    <3> QED BY <1>2, <3>1, <3>2
  <2> QED BY <2>1 DEF Until
<1>8. CASE ~goes
  BY <1>4, <1>5, <1>7, <1>8 DEF OrderInv
<1>9. CASE goes
  <2> DEFINE g == [files EXCEPT ![0] = Append(files[0], record)]
  <2>1. /\ files[0] \in Seq(Record) /\ Len(files[0]) \in Nat /\ DOMAIN files[0] = 1..Len(files[0])
        /\ g[0] = Append(files[0], record) /\ \A n \in 0..OpsKeep : n # 0 => g[n] = files[n]
    BY <1>2, <1>4
  <2>2. /\ DOMAIN g[0] = 1..Len(files[0]) + 1 /\ g[0][Len(files[0]) + 1] = record
        /\ \A k \in DOMAIN files[0] : g[0][k] = files[0][k]
    BY <1>6, <2>1
  <2> HIDE DEF g
  <2>3. ASSUME NEW n \in 0..OpsKeep, NEW k \in DOMAIN g[n]
        PROVE  \/ k \in DOMAIN files[n] /\ g[n][k] = files[n][k]
               \/ n = 0 /\ k = Len(files[0]) + 1 /\ g[n][k].no = opsCount + 1
    <3>1. CASE n = 0
      BY <1>6, <2>1, <2>2, <3>1
    <3>2. CASE n # 0
      BY <2>1, <3>2
    <3> QED BY <3>1, <3>2
  <2>4. Until(g, opsCount + 1)
    BY <1>2, <1>7, <2>3 DEF Until
  <2>5. Ordered(g)
    <3>1. ASSUME NEW m \in 0..OpsKeep, NEW n \in 0..OpsKeep, NEW j \in DOMAIN g[m],
                 NEW k \in DOMAIN g[n], m > n \/ (m = n /\ j < k)
          PROVE  g[m][j].no < g[n][k].no
      <4>1. j \in DOMAIN files[m] /\ g[m][j] = files[m][j]
        <5>1. CASE m = 0 /\ j = Len(files[0]) + 1
          <6>1. n = 0 /\ j < k /\ k \in 1..Len(files[0]) + 1
            BY <2>2, <3>1, <5>1
          <6> QED BY <2>1, <5>1, <6>1
        <5> QED BY <2>3, <5>1
      <4>2. CASE k \in DOMAIN files[n] /\ g[n][k] = files[n][k]
        BY <1>4, <3>1, <4>1, <4>2 DEF Ordered
      <4>3. CASE g[n][k].no = opsCount + 1
        <5>1. files[m][j].no <= opsCount /\ files[m] \in Seq(Record) /\ files[m][j] \in Record
          BY <1>4, <4>1 DEF Until
        <5>2. files[m][j].no \in Nat
          BY <5>1 DEF Record
        <5> QED BY <1>2, <4>1, <4>3, <5>1, <5>2
      <4> QED BY <2>3, <4>2, <4>3
    <3> QED BY <3>1 DEF Ordered
  <2> QED BY <1>5, <1>9, <2>4, <2>5 DEF OrderInv, g
<1> QED BY <1>8, <1>9

\* At first there are no records.
LEMMA InitInOrder == Init => OrderInv
<1> SUFFICES ASSUME Init PROVE OrderInv
  OBVIOUS
<1>1. \A n \in 0..OpsKeep : DOMAIN opsFile[n] = {}
  BY DEF Init, OpsInit
<1> QED BY <1>1 DEF OrderInv, Ordered, Until

\* Every step keeps the records in order.
LEMMA OrderInductive == OpsTypeOK /\ OrderInv /\ OpsMove => OrderInv'
<1> SUFFICES ASSUME OpsTypeOK, OrderInv, OpsMove PROVE OrderInv'
  OBVIOUS
<1>1. CASE UNCHANGED <<opsFile, opsCount>>
  BY <1>1 DEF OrderInv
<1>2. CASE \E about \in Subjects : OpsWrite(about)
  BY <1>2, WriteInOrder
<1>3. {"other", "rotated", "failed"} \subseteq Subjects
  BY DEF Subjects
<1> QED BY <1>1, <1>2, <1>3 DEF OpsMove, opsVars, Log, Once, OpsRecord, OpsClose

\* The archives and the file have all that the shape promises.
LEMMA RecordsHold == TInv /\ RecInv /\ OrderInv => RecordsKept
<1>0. TInv /\ OrderInv => OpsInOrder
  BY DEF OrderInv, Ordered, OpsInOrder
<1> SUFFICES ASSUME TInv, RecInv, OrderInv, ~writeErr, ~opsStuck
             PROVE  /\ \A k \in DOMAIN OpsKept : OpsKept[k].no = opsCount - Len(OpsKept) + k
                    /\ \/ Len(OpsKept) = opsCount
                       \/ Len(OpsKept) >= OpsKeep * (OpsRotate - 1) + 1
  BY <1>0 DEF RecordsKept
<1>1. PICK a \in 0..OpsKeep : Shape(a)
  BY DEF RecInv
<1>2. /\ OpsKept \in Seq(Record) /\ Len(OpsKept) = a * Full + Now
      /\ \A k \in 1..Len(OpsKept) : OpsKept[k].no = opsCount - Len(OpsKept) + k
  BY <1>1, OpsKeptIs DEF TInv
<1>3. DOMAIN OpsKept = 1..Len(OpsKept)
  BY <1>2
<1>4. /\ OpsKeep \in Nat \ {0} /\ Full \in Nat /\ Now \in Nat /\ opsCount \in Nat
      /\ (Now = 0 => a = 0) /\ (a < OpsKeep => opsCount = Now + a * Full)
  <2>1. OpsKeep \in Nat \ {0} /\ Full \in Nat /\ opsCount \in Nat
    BY Constants DEF TInv, OpsTypeOK, Full
  <2>2. opsFile[0] \in Seq(Record)
    BY Constants DEF TInv, OpsTypeOK
  <2>3. Now \in Nat
    BY <2>2 DEF Now
  <2> QED BY <1>1, <2>1, <2>3 DEF Shape
<1>5. Len(OpsKept) = opsCount \/ Len(OpsKept) >= OpsKeep * (OpsRotate - 1) + 1
  <2> USE DEF Full
  <2>1. CASE a < OpsKeep
    <3>1. a * Full \in Nat
      BY <1>4
    <3> HIDE DEF Full
    <3> QED BY <1>2, <1>4, <2>1, <3>1
  <2>2. CASE a = OpsKeep
    <3>1. Now >= 1 /\ OpsKeep * Full \in Nat
      BY <1>4, <2>2
    <3>2. Len(OpsKept) >= OpsKeep * Full + 1
      <4> HIDE DEF Full
      <4> QED BY <1>2, <1>4, <2>2, <3>1
    <3> QED BY <3>2
  <2> QED BY <1>4, <2>1, <2>2
<1> QED BY <1>2, <1>3, <1>5

\* The files hold the records in the order of the calls, whatever was refused.
\* Until the log reports a failure of its own, or an archive could not be moved,
\* they are the latest ones without a gap, at least OpsKeep archives of them once
\* so many were written: through any number of rotations.
THEOREM RecordsAreKept == Spec => []RecordsKept
<1>1. Init => TInv /\ RecInv /\ OrderInv
  BY InitTypes, InitRecords, InitInOrder
<1>2. TInv /\ RecInv /\ OrderInv /\ [Next]_vars => TInv' /\ RecInv' /\ OrderInv'
  <2>1. TInv => OpsTypeOK
    BY DEF TInv
  <2> QED BY <2>1, TypesInductive, RecordsStay, OpsMoves, OrderInductive
<1> QED
  BY <1>1, <1>2, RecordsHold, PTL DEF Spec
-----------------------------------------------------------------------------
(* Losses.                                                                 *)

\* A loss has been recorded, and so has what makes a collector read without a file:
\* whatever it drops from then on needs no record of its own.
LossInv ==
    /\ dropped # {} => "failed" \in once
    /\ \A r \in RunNos : at[r] = "read" /\ fd[r] = Nil => "failed" \in once

\* At first nobody reads and nothing is lost.
LEMMA InitLoss == Init => LossInv
  BY DEF Init, LossInv

\* A step that neither loses a chunk nor takes a collector back to its pipe without
\* a file needs no record.
LEMMA LossStays ==
    ASSUME LossInv, OpsMove, dropped' = dropped,
           \A r \in RunNos : at'[r] = "read" /\ fd'[r] = Nil => at[r] = "read" /\ fd[r] = Nil
    PROVE  LossInv'
  BY OnceStays DEF LossInv

\* One that has made a record may do both.
LEMMA LossIsTold == ASSUME Once("failed") PROVE LossInv'
<1>1. "failed" \in once'
  BY DEF Once, opsVars
<1> QED BY <1>1 DEF LossInv

\* Every step is one or the other, but for the reader without a file, who has the
\* record already.
LEMMA LossInductive == TInv /\ LossInv /\ [Next]_vars => LossInv'
<1> SUFFICES ASSUME TInv, LossInv, [Next]_vars PROVE LossInv'
  OBVIOUS
<1>1. OpsMove
  BY OpsMoves
<1>2. CASE \/ WriteMarker \/ StartFails \/ Query \/ Server \/ UNCHANGED vars
           \/ \E r \in RunNos : ChildWrites(r) \/ ChildEnds(r)
  <2>1. UNCHANGED <<at, fd, dropped>>
    BY <1>2 DEF WriteMarker, StartFails, Query, Server, ChildWrites, ChildEnds, vars,
                collVars, histVars
  <2> QED BY <1>1, <2>1, LossStays
<1>3. CASE StartCollector
  <2>1. CASE Once("failed")
    BY <2>1, LossIsTold
  <2>2. CASE ~Once("failed")
    <3> DEFINE r == run + 1
    <3>1. /\ at' = [at EXCEPT ![r] = "read"] /\ fd' = [fd EXCEPT ![r] = Path]
          /\ dropped' = dropped
      BY <1>3, <2>2 DEF StartCollector, Goto
    <3>2. r \in RunNos /\ at \in [RunNos -> CollSteps] /\ fd \in [RunNos -> Inodes \cup {Nil}]
      BY <1>3, Constants DEF StartCollector, TInv, RunInv, CollInv, RunNos
    <3>3. Path # Nil
      BY PathIsThere, Constants DEF TInv, FilesInv, CollInv, HistInv, Names
    <3> HIDE DEF r
    <3>4. ASSUME NEW q \in RunNos, at'[q] = "read", fd'[q] = Nil
          PROVE  at[q] = "read" /\ fd[q] = Nil
      BY <3>1, <3>2, <3>3, <3>4
    <3> QED BY <1>1, <3>1, <3>4, LossStays
  <2> QED BY <2>1, <2>2
<1>4. ASSUME NEW r \in RunNos, Collect(r) PROVE LossInv'
  <2>1. /\ at \in [RunNos -> CollSteps] /\ fd \in [RunNos -> Inodes \cup {Nil}]
        /\ \A q \in RunNos : Local(at[q], fd[q], chunk[q], level[q])
    BY DEF TInv, CollInv
  <2>2. CASE Once("failed")
    BY <2>2, LossIsTold
  <2>3. CASE Read(r) /\ fd[r] = Nil
    <3>1. "failed" \in once
      BY <2>3 DEF Read, LossInv
    <3>2. "failed" \in once'
      BY <1>1, <3>1, OnceStays
    <3> QED BY <3>2 DEF LossInv
  <2>4. CASE Read(r) /\ fd[r] # Nil
    <3>1. UNCHANGED <<fd, dropped>> /\ \E step \in {"put", "close"} : at' = [at EXCEPT ![r] = step]
      BY <2>4 DEF Read, Goto
    <3>2. ASSUME NEW q \in RunNos, at'[q] = "read" PROVE at[q] = "read"
      BY <2>1, <3>1, <3>2
    <3> QED BY <1>1, <3>1, <3>2, LossStays
  <2>5. CASE Put(r) /\ ~Once("failed")
    <3>1. /\ at[r] = "put" /\ UNCHANGED <<fd, dropped>> /\ at' = [at EXCEPT ![r] = "read"]
      BY <2>5 DEF Put, Goto
    <3>2. fd[r] # Nil
      BY <2>1, <3>1 DEF Local
    <3>3. ASSUME NEW q \in RunNos, at'[q] = "read", fd'[q] = Nil PROVE at[q] = "read" /\ fd[q] = Nil
      BY <2>1, <3>1, <3>2, <3>3
    <3> QED BY <1>1, <3>1, <3>3, LossStays
  <2>6. CASE /\ \/ EndOfStream(r) \/ ReadFails(r) \/ Close(r) \/ RemoveOldest(r) \/ Shift(r) \/ Aside(r)
                \/ Reopen(r) \/ Header(r) \/ Tell(r)
             /\ ~Once("failed")
    <3>1. /\ dropped' = dropped
          /\ \E step \in CollSteps \ {"read"} : at' = [at EXCEPT ![r] = step]
          /\ \A q \in RunNos : q # r => fd'[q] = fd[q]
      <4>1. CASE EndOfStream(r) \/ ReadFails(r) \/ Close(r)
        BY <2>1, <4>1 DEF EndOfStream, ReadFails, Close, Goto, histVars, CollSteps, Rotating
      <4>2. CASE RemoveOldest(r) \/ Shift(r) \/ Aside(r)
        BY <4>2 DEF RemoveOldest, Shift, Aside, Goto, histVars, CollSteps, Rotating
      <4>3. CASE Reopen(r)
        BY <2>1, <2>6, <4>3 DEF Reopen, ReportsReopen, Goto, CollSteps, Rotating
      <4>4. CASE Header(r) \/ Tell(r)
        BY <4>4 DEF Header, Tell, Goto, histVars, CollSteps, Rotating
      <4> QED BY <2>6, <4>1, <4>2, <4>3, <4>4
    <3>2. ASSUME NEW q \in RunNos, at'[q] = "read", fd'[q] = Nil PROVE at[q] = "read" /\ fd[q] = Nil
      BY <2>1, <3>1, <3>2
    <3> QED BY <1>1, <3>1, <3>2, LossStays
  <2> QED BY <1>4, <2>2, <2>3, <2>4, <2>5, <2>6 DEF Collect
<1> QED BY <1>2, <1>3, <1>4 DEF Next

\* The record of a failure is in the files, or older than the oldest in them.
LEMMA LossHolds == TInv /\ RecInv /\ LossInv => LossIsOnRecord
<1> SUFFICES ASSUME TInv, RecInv, LossInv, dropped # {}, ~opsClosed, ~writeErr, ~opsStuck
             PROVE  \/ \E k \in DOMAIN OpsKept : OpsKept[k].about = "failed"
                    \/ OpsKept # << >> /\ OpsKept[1].no > 1
  BY DEF LossIsOnRecord, LossInv
<1>1. PICK a \in 0..OpsKeep : Shape(a) /\ Recorded(a)
  BY DEF RecInv
<1>2. "failed" \in once
  BY DEF LossInv
<1>3. OpsKeep \in Nat \ {0} /\ opsFile \in [0..OpsKeep -> Seq(Record)] /\ opsCount \in Nat
      /\ Full \in Nat
  BY Constants DEF TInv, OpsTypeOK, Full
<1>4. CASE \E n \in 0..OpsKeep : \E k \in 1..Len(opsFile[n]) : opsFile[n][k].about = "failed"
  <2>1. PICK n \in 0..OpsKeep : \E k \in 1..Len(opsFile[n]) : opsFile[n][k].about = "failed"
    BY <1>4
  <2>2. PICK k \in 1..Len(opsFile[n]) : opsFile[n][k].about = "failed"
    BY <2>1
  <2> DEFINE s == [i \in 1..OpsKeep + 1 |-> opsFile[OpsKeep + 1 - i]]
             j == OpsKeep + 1 - n
  <2>3. j \in 1..OpsKeep + 1 /\ OpsKeep + 1 - j = n
    BY <1>3
  <2>4. s \in Seq(Seq(Record)) /\ Len(s) = OpsKeep + 1
    <3>1. \A i \in 1..OpsKeep + 1 : OpsKeep + 1 - i \in 0..OpsKeep
      BY <1>3
    <3>2. s \in [1..OpsKeep + 1 -> Seq(Record)] /\ OpsKeep + 1 \in Nat
      BY <1>3, <3>1
    <3> HIDE DEF s
    <3> QED BY <3>2
  <2>5. s[j] = opsFile[n]
    BY <2>3
  <2>6. OpsKept = FlattenSeq(s)
    BY DEF OpsKept
  <2> HIDE DEF s, j
  <2>7. j \in 1..Len(s) /\ k \in 1..Len(s[j])
    BY <2>2, <2>3, <2>4, <2>5
  <2>8. \E h \in DOMAIN FlattenSeq(s) : FlattenSeq(s)[h] = s[j][k]
    BY <2>4, <2>7, FlattenHas
  <2> QED BY <2>2, <2>5, <2>6, <2>8
<1>5. CASE opsCount > Now + a * Full
  <2>1. /\ OpsKept \in Seq(Record) /\ Len(OpsKept) = a * Full + Now
        /\ \A k \in 1..Len(OpsKept) : OpsKept[k].no = opsCount - Len(OpsKept) + k
    BY <1>1, OpsKeptIs DEF TInv
  <2>2. opsFile[0] \in Seq(Record)
    BY <1>3
  <2>3. Now \in Nat /\ a * Full \in Nat
    BY <1>3, <2>2 DEF Now
  <2>4. (Now = 0 => a = 0) /\ (a < OpsKeep => opsCount = Now + a * Full)
    BY <1>1 DEF Shape
  <2> HIDE DEF Now, Full
  <2>5. Len(OpsKept) >= 1 /\ opsCount > Len(OpsKept) /\ Len(OpsKept) \in Nat
    <3>1. a = OpsKeep
      BY <1>3, <1>5, <2>3, <2>4
    <3>2. Now >= 1
      BY <1>3, <2>3, <2>4, <3>1
    <3>3. Len(OpsKept) = a * Full + Now
      BY <2>1
    <3> DEFINE p == a * Full
    <3>4. p \in Nat /\ Len(OpsKept) = p + Now /\ opsCount > Now + p
      BY <1>5, <2>3, <3>3
    <3> HIDE DEF p
    <3> QED BY <1>3, <2>3, <3>2, <3>4
  <2>6. OpsKept[1].no > 1
    <3>1. 1 \in 1..Len(OpsKept)
      BY <2>5
    <3>2. OpsKept[1].no = opsCount - Len(OpsKept) + 1
      BY <2>1, <3>1
    <3> QED BY <1>3, <2>5, <3>2
  <2>7. OpsKept # << >>
    BY <2>5
  <2> QED BY <2>6, <2>7
<1> QED BY <1>1, <1>2, <1>4, <1>5 DEF Recorded

\* No output is lost silently: a collector that drops what it has read has told the
\* operations log, and the record is there, unless that log has failed, was closed,
\* or has moved on since.
THEOREM LossesAreOnRecord == Spec => []LossIsOnRecord
<1>1. Init => TInv /\ RecInv /\ LossInv
  BY InitTypes, InitRecords, InitLoss
<1>2. TInv /\ RecInv /\ LossInv /\ [Next]_vars => TInv' /\ RecInv' /\ LossInv'
  BY TypesInductive, RecordsStay, LossInductive
<1> QED
  BY <1>1, <1>2, LossHolds, PTL DEF Spec
-----------------------------------------------------------------------------
(* The window.                                                             *)

\* The texts of the files by their slots, the chunks in them, and whether they are
\* in their order.
SlotTexts == [Slots -> Seq(0..Chunks)]
ChunksIn(t) == {c \in 1..Chunks : \E n \in Slots : \E k \in 1..Len(t[n]) : t[n][k] = c}
OrderIn(t) ==
    \A m, n \in Slots : \A j \in 1..Len(t[m]), k \in 1..Len(t[n]) :
        /\ m > n \/ (m = n /\ j < k)
        /\ t[m][j] # 0 /\ t[n][k] # 0
        => t[m][j] < t[n][k]

\* They are the latest of those that are done with, but for what was lost.
WindowIn(t, done, lost) ==
    /\ ChunksIn(t) \subseteq done /\ OrderIn(t)
    /\ \A c \in done \ lost : (\E k \in ChunksIn(t) : k < c) => c \in ChunksIn(t)

\* What a place holds that is not a marker.
LEMMA PlaceHolds ==
    ASSUME NEW t \in SlotTexts, NEW n \in Slots, NEW k \in 1..Len(t[n])
    PROVE  /\ t[n] \in Seq(0..Chunks) /\ Len(t[n]) \in Nat
           /\ t[n][k] \in 0..Chunks /\ (t[n][k] # 0 => t[n][k] \in ChunksIn(t))
<1>1. t[n] \in Seq(0..Chunks)
  BY DEF SlotTexts
<1>2. Len(t[n]) \in Nat /\ t[n][k] \in 0..Chunks
  <2> DEFINE u == t[n]
             S == 0..Chunks
  <2>1. u \in Seq(S) /\ k \in 1..Len(u)
    BY <1>1
  <2> HIDE DEF u, S
  <2>2. Len(u) \in Nat /\ u[k] \in S
    BY <2>1
  <2> QED BY <2>2 DEF u, S
<1>3. t[n][k] # 0 => t[n][k] \in 1..Chunks
  BY <1>2, Constants
<1> QED BY <1>1, <1>2, <1>3 DEF ChunksIn

\* A sequence with something behind it.
LEMMA Appended ==
    ASSUME NEW S, NEW s \in Seq(S), NEW c \in S
    PROVE  /\ Append(s, c) \in Seq(S) /\ Len(Append(s, c)) = Len(s) + 1 /\ Len(s) \in Nat
           /\ Append(s, c)[Len(s) + 1] = c
           /\ \A k \in 1..Len(s) : Append(s, c)[k] = s[k]
  OBVIOUS

\* Markers change nothing, nor does a chunk that is lost.
LEMMA MarkersOnly ==
    ASSUME NEW s \in SlotTexts, NEW t \in SlotTexts,
           \A n \in Slots : t[n] = s[n] \/ t[n] = Append(s[n], 0),
           NEW done \in SUBSET Nat, NEW lost, NEW then \in SUBSET Nat, NEW lostThen,
           WindowIn(s, done, lost), done \subseteq then,
           then \ lostThen \subseteq done \ lost
    PROVE  WindowIn(t, then, lostThen)
<1>1. ASSUME NEW n \in Slots
      PROVE  /\ \A k \in 1..Len(s[n]) : k \in 1..Len(t[n]) /\ t[n][k] = s[n][k]
             /\ \A k \in 1..Len(t[n]) : t[n][k] # 0 => k \in 1..Len(s[n])
  <2>1. s[n] \in Seq(0..Chunks) /\ 0 \in 0..Chunks
    BY Constants DEF SlotTexts
  <2>2. CASE t[n] = s[n]
    BY <2>2
  <2>3. CASE t[n] = Append(s[n], 0)
    <3>1. /\ Len(t[n]) = Len(s[n]) + 1 /\ Len(s[n]) \in Nat /\ t[n][Len(s[n]) + 1] = 0
          /\ \A k \in 1..Len(s[n]) : t[n][k] = s[n][k]
      BY <2>1, <2>3, Appended
    <3> QED BY <3>1
  <2> QED BY <2>2, <2>3
<1>2. ChunksIn(t) = ChunksIn(s)
  <2>1. ASSUME NEW c \in ChunksIn(s) PROVE c \in ChunksIn(t)
    BY <1>1 DEF ChunksIn
  <2>2. ASSUME NEW c \in ChunksIn(t) PROVE c \in ChunksIn(s)
    <3>1. c \in 1..Chunks /\ c # 0
      BY Constants DEF ChunksIn
    <3>2. PICK n \in Slots : \E k \in 1..Len(t[n]) : t[n][k] = c
      BY DEF ChunksIn
    <3>3. PICK k \in 1..Len(t[n]) : t[n][k] = c
      BY <3>2
    <3>4. k \in 1..Len(s[n]) /\ s[n][k] = c
      BY <1>1, <3>1, <3>3
    <3> QED BY <3>1, <3>4 DEF ChunksIn
  <2> QED BY <2>1, <2>2
<1>3. OrderIn(t)
  <2> SUFFICES ASSUME NEW m \in Slots, NEW n \in Slots,
                      NEW j \in 1..Len(t[m]), NEW k \in 1..Len(t[n]),
                      m > n \/ (m = n /\ j < k), t[m][j] # 0, t[n][k] # 0
               PROVE  t[m][j] < t[n][k]
    BY DEF OrderIn
  <2>1. /\ j \in 1..Len(s[m]) /\ t[m][j] = s[m][j]
        /\ k \in 1..Len(s[n]) /\ t[n][k] = s[n][k]
    BY <1>1
  <2> QED BY <2>1 DEF WindowIn, OrderIn
<1> QED BY <1>2, <1>3 DEF WindowIn

\* A chunk is written, the latest of all.
LEMMA ChunkWritten ==
    ASSUME NEW s \in SlotTexts, NEW t \in SlotTexts, NEW c \in 1..Chunks,
           t[0] = Append(s[0], c), \A n \in Slots \ {0} : t[n] = s[n],
           NEW done \in SUBSET Nat, NEW lost, NEW then \in SUBSET Nat,
           WindowIn(s, done, lost), done \subseteq then, c \in then,
           then \subseteq done \cup {c}, \A d \in done : d < c
    PROVE  WindowIn(t, then, lost)
<1>1. /\ Len(t[0]) = Len(s[0]) + 1 /\ Len(s[0]) \in Nat /\ t[0][Len(s[0]) + 1] = c
      /\ \A k \in 1..Len(s[0]) : t[0][k] = s[0][k]
  <2>1. s[0] \in Seq(0..Chunks) /\ c \in 0..Chunks
    BY Constants DEF SlotTexts
  <2> QED BY <2>1, Appended
<1>2. ASSUME NEW n \in Slots
      PROVE  /\ \A k \in 1..Len(s[n]) : k \in 1..Len(t[n]) /\ t[n][k] = s[n][k]
             /\ \A k \in 1..Len(t[n]) :
                   \/ k \in 1..Len(s[n])
                   \/ n = 0 /\ k = Len(s[0]) + 1 /\ t[n][k] = c
  <2>1. CASE n = 0
    BY <1>1, <2>1
  <2>2. CASE n # 0
    BY <2>2
  <2> QED BY <2>1, <2>2
<1>3. ChunksIn(t) = ChunksIn(s) \cup {c}
  <2>1. ASSUME NEW d \in ChunksIn(s) PROVE d \in ChunksIn(t)
    BY <1>2 DEF ChunksIn
  <2>2. c \in ChunksIn(t)
    <3>1. Len(s[0]) + 1 \in 1..Len(t[0]) /\ 0 \in Slots
      BY <1>1, Constants
    <3> QED BY <1>1, <3>1 DEF ChunksIn
  <2>3. ASSUME NEW d \in ChunksIn(t), d # c PROVE d \in ChunksIn(s)
    <3>1. PICK n \in Slots : \E k \in 1..Len(t[n]) : t[n][k] = d
      BY DEF ChunksIn
    <3>2. PICK k \in 1..Len(t[n]) : t[n][k] = d
      BY <3>1
    <3>3. k \in 1..Len(s[n]) /\ s[n][k] = d
      BY <1>2, <2>3, <3>2
    <3> QED BY <3>3 DEF ChunksIn
  <2> QED BY <2>1, <2>2, <2>3
<1>4. OrderIn(t)
  <2> SUFFICES ASSUME NEW m \in Slots, NEW n \in Slots,
                      NEW j \in 1..Len(t[m]), NEW k \in 1..Len(t[n]),
                      m > n \/ (m = n /\ j < k), t[m][j] # 0, t[n][k] # 0
               PROVE  t[m][j] < t[n][k]
    BY DEF OrderIn
  <2>1. m \in Nat /\ n \in Nat /\ m >= 0 /\ n >= 0
    BY Constants
  <2>2. Len(t[m]) \in Nat /\ Len(t[n]) \in Nat /\ j \in Nat /\ k \in Nat
    BY PlaceHolds
  <2>3. j \in 1..Len(s[m])
    <3>1. CASE m = 0 /\ j = Len(s[0]) + 1
      <4>1. n = 0 /\ j < k
        BY <2>1, <3>1
      <4> QED BY <1>1, <2>2, <3>1, <4>1
    <3> QED BY <1>2, <3>1
  <2>4. CASE k \in 1..Len(s[n])
    <3>1. t[m][j] = s[m][j] /\ t[n][k] = s[n][k]
      BY <1>2, <2>3, <2>4
    <3> QED BY <2>3, <2>4, <3>1 DEF WindowIn, OrderIn
  <2>5. CASE t[n][k] = c
    <3>1. t[m][j] = s[m][j]
      BY <1>2, <2>3
    <3>2. s[m][j] \in ChunksIn(s)
      BY <2>3, <3>1, PlaceHolds
    <3> QED BY <2>5, <3>1, <3>2 DEF WindowIn
  <2> QED BY <1>2, <2>4, <2>5
<1> QED
  <2>1. \A d \in ChunksIn(s) : d \in done
    BY DEF WindowIn
  <2>2. ChunksIn(t) \subseteq then
    BY <1>3, <2>1
  <2>3. ASSUME NEW d \in then \ lost, NEW k \in ChunksIn(t), k < d PROVE d \in ChunksIn(t)
    <3>1. CASE d = c
      BY <1>3, <3>1
    <3>2. CASE d # c
      <4>1. d \in done /\ d < c /\ c \in Nat /\ d \in Nat
        BY <3>2
      <4>2. k # c
        BY <2>3, <4>1
      <4>3. k \in ChunksIn(s)
        BY <1>3, <4>2
      <4> QED BY <1>3, <2>3, <4>1, <4>3 DEF WindowIn
    <3> QED BY <3>1, <3>2
  <2> QED BY <1>4, <2>2, <2>3 DEF WindowIn

\* A file goes.  What is in the oldest archive is older than the rest; with another
\* one the order is all that is left.
LEMMA OneGoes ==
    ASSUME NEW s \in SlotTexts, NEW t \in SlotTexts, NEW o \in Slots,
           t[o] = << >>, \A n \in Slots \ {o} : t[n] = s[n],
           NEW done \in SUBSET Nat, NEW lost, WindowIn(s, done, lost),
           o = Keep \/ done \subseteq lost
    PROVE  WindowIn(t, done, lost)
<1>1. ASSUME NEW n \in Slots, NEW k \in 1..Len(t[n])
      PROVE  n # o /\ t[n] = s[n] /\ k \in 1..Len(s[n]) /\ t[n][k] = s[n][k]
  BY <1>1
<1>2. ChunksIn(t) \subseteq ChunksIn(s)
  BY <1>1 DEF ChunksIn
<1>3. OrderIn(t)
  BY <1>1 DEF WindowIn, OrderIn
<1>4. ASSUME NEW c \in done \ lost, NEW d \in ChunksIn(t), d < c PROVE c \in ChunksIn(t)
  <2>1. c \in ChunksIn(s)
    BY <1>2, <1>4 DEF WindowIn
  <2>2. PICK m \in Slots : \E j \in 1..Len(s[m]) : s[m][j] = c
    BY <2>1 DEF ChunksIn
  <2>3. PICK j \in 1..Len(s[m]) : s[m][j] = c
    BY <2>2
  <2>4. CASE m = o
    <3>1. PICK n \in Slots : \E k \in 1..Len(t[n]) : t[n][k] = d
      BY DEF ChunksIn
    <3>2. PICK k \in 1..Len(t[n]) : t[n][k] = d
      BY <3>1
    <3>3. n # o /\ k \in 1..Len(s[n]) /\ s[n][k] = d
      BY <1>1, <3>2
    <3>4. o = Keep
      BY <1>4
    <3>5. m > n
      BY <2>4, <3>3, <3>4, Constants DEF Slots
    <3>6. c # 0 /\ d # 0 /\ c \in Nat /\ d \in Nat
      BY <2>1, Constants DEF ChunksIn
    <3>7. c < d
      BY <2>3, <3>3, <3>5, <3>6 DEF WindowIn, OrderIn
    <3> QED BY <1>4, <3>6, <3>7
  <2>5. CASE m # o
    <3>1. t[m] = s[m]
      BY <2>5
    <3> QED BY <2>1, <2>3, <3>1 DEF ChunksIn
  <2> QED BY <2>4, <2>5
<1> QED BY <1>2, <1>3, <1>4 DEF WindowIn

\* A file moves up into a slot that is free.
LEMMA OneMovesUp ==
    ASSUME NEW s \in SlotTexts, NEW t \in SlotTexts, NEW i \in 0..Keep - 1,
           s[i + 1] = << >>, t[i + 1] = s[i], t[i] = << >>,
           \A n \in Slots \ {i, i + 1} : t[n] = s[n],
           NEW done \in SUBSET Nat, NEW lost, WindowIn(s, done, lost)
    PROVE  WindowIn(t, done, lost)
<1> DEFINE from(n) == IF n = i + 1 THEN i ELSE n
           to(n) == IF n = i THEN i + 1 ELSE n
<1>0. i \in Slots /\ i + 1 \in Slots /\ i \in Nat /\ Slots \subseteq Nat /\ i + 1 # i
  BY Constants DEF Slots
<1>1. ASSUME NEW n \in Slots, NEW k \in 1..Len(t[n])
      PROVE  n # i /\ from(n) \in Slots /\ k \in 1..Len(s[from(n)]) /\ t[n][k] = s[from(n)][k]
  <2>1. n # i
    BY <1>1
  <2> QED BY <1>0, <2>1
<1>2. ASSUME NEW n \in Slots, NEW k \in 1..Len(s[n])
      PROVE  to(n) \in Slots /\ k \in 1..Len(t[to(n)]) /\ t[to(n)][k] = s[n][k]
  <2>1. n # i + 1
    BY <1>2
  <2> QED BY <1>0, <2>1
<1>3. ASSUME NEW m \in Slots, NEW n \in Slots, m # i, n # i, m > n
      PROVE  from(m) > from(n)
  BY <1>0, <1>3
<1> HIDE DEF from, to
<1>4. ChunksIn(t) = ChunksIn(s)
  <2>1. ASSUME NEW c \in ChunksIn(t) PROVE c \in ChunksIn(s)
    BY <1>1 DEF ChunksIn
  <2>2. ASSUME NEW c \in ChunksIn(s) PROVE c \in ChunksIn(t)
    BY <1>2 DEF ChunksIn
  <2> QED BY <2>1, <2>2
<1>5. OrderIn(t)
  <2> SUFFICES ASSUME NEW m \in Slots, NEW n \in Slots,
                      NEW j \in 1..Len(t[m]), NEW k \in 1..Len(t[n]),
                      m > n \/ (m = n /\ j < k), t[m][j] # 0, t[n][k] # 0
               PROVE  t[m][j] < t[n][k]
    BY DEF OrderIn
  <2>1. /\ m # i /\ from(m) \in Slots /\ j \in 1..Len(s[from(m)]) /\ t[m][j] = s[from(m)][j]
        /\ n # i /\ from(n) \in Slots /\ k \in 1..Len(s[from(n)]) /\ t[n][k] = s[from(n)][k]
    BY <1>1
  <2>2. from(m) > from(n) \/ (from(m) = from(n) /\ j < k)
    BY <1>3, <2>1
  <2> QED BY <2>1, <2>2 DEF WindowIn, OrderIn
<1> QED BY <1>4, <1>5 DEF WindowIn

\* One moves up, over what is there.
LEMMA OneMovesOver ==
    ASSUME NEW s \in SlotTexts, NEW t \in SlotTexts, NEW i \in 0..Keep - 1,
           t[i + 1] = s[i], t[i] = << >>, \A n \in Slots \ {i, i + 1} : t[n] = s[n],
           NEW done \in SUBSET Nat, NEW lost, WindowIn(s, done, lost),
           s[i + 1] = << >> \/ i + 1 = Keep \/ done \subseteq lost
    PROVE  WindowIn(t, done, lost)
<1>0. i \in Slots /\ i + 1 \in Slots /\ i # i + 1
  BY Constants DEF Slots
<1>1. CASE s[i + 1] = << >>
  BY <1>1, OneMovesUp
<1>2. CASE i + 1 = Keep \/ done \subseteq lost
  <2> DEFINE u == [s EXCEPT ![i + 1] = << >>]
  <2>1. /\ u \in SlotTexts /\ u[i + 1] = << >>
        /\ \A n \in Slots \ {i + 1} : u[n] = s[n]
    <3>1. << >> \in Seq(0..Chunks)
      OBVIOUS
    <3> QED BY <1>0, <3>1 DEF SlotTexts
  <2> HIDE DEF u
  <2>2. WindowIn(u, done, lost)
    BY <1>0, <1>2, <2>1, OneGoes
  <2>3. t[i + 1] = u[i] /\ t[i] = << >> /\ \A n \in Slots \ {i, i + 1} : t[n] = u[n]
    BY <1>0, <2>1
  <2> QED BY <2>1, <2>2, <2>3, OneMovesUp
<1> QED BY <1>1, <1>2

Texts == [n \in Slots |-> Text(n)]

\* What a collector has in hand and what is in its pipe are the latest chunks, one
\* after another.
Queue(waiting, hand, total) ==
    /\ \A k \in 1..Len(waiting) : waiting[k] = total - Len(waiting) + k
    /\ hand # 0 => hand = total - Len(waiting)

\* A slot that a file can be moved to and nothing newer than the rest is lost, unless
\* an archive could not be moved before.
Free(n) == dir[n] = Nil \/ n = Keep \/ "archive" \in refused

\* What need not be in the files.
Lost == IF "archive" \in refused THEN Nat ELSE dropped

\* A collector that has a file open has the one at the path, and the slot that its
\* rotation fills next is free.
PlaceOf(r) ==
    /\ fd[r] # Nil => fd[r] = dir[0]
    /\ at[r] \in {"shift", "aside"} => Free(level[r] + 1)

QueueInv == \A r \in RunNos : Queue(pipe[r], chunk[r], produced)
PlaceInv == \A r \in RunNos : PlaceOf(r)

\* As long as collectors have not met.
WInv == ~met => QueueInv /\ PlaceInv /\ WindowIn(Texts, Taken, Lost)

\* The texts have their type.
LEMMA TextsTyped == FilesInv => Texts \in SlotTexts
<1> SUFFICES ASSUME FilesInv PROVE Texts \in SlotTexts
  OBVIOUS
<1>1. ASSUME NEW n \in Slots PROVE Text(n) \in Seq(0..Chunks)
  <2>1. << >> \in Seq(0..Chunks)
    OBVIOUS
  <2>2. dir[n] # Nil => file[dir[n]] \in Seq(0..Chunks)
    BY DEF FilesInv
  <2> QED BY <2>1, <2>2 DEF Text
<1> QED BY <1>1 DEF Texts, SlotTexts

\* The property in terms of the texts.
LEMMA WindowHolds == TInv /\ WInv => WindowKept
<1> SUFFICES ASSUME TInv, WInv, ~met
             PROVE  /\ InOrder
                    /\ "archive" \notin refused =>
                        \A c \in Taken \ dropped : (\E k \in Kept : k < c) => c \in Kept
  BY DEF WindowKept
<1>1. /\ Texts \in SlotTexts /\ WindowIn(Texts, Taken, Lost)
      /\ "archive" \notin refused => Lost = dropped
  BY TextsTyped DEF TInv, WInv, Lost
<1>2. \A n \in Slots : Texts[n] = Text(n)
  BY DEF Texts
<1>3. \A n \in Slots : DOMAIN Text(n) = 1..Len(Text(n)) /\ Text(n) \in Seq(0..Chunks)
  BY <1>1, <1>2 DEF SlotTexts
<1>4. InOrder
  BY <1>1, <1>2, <1>3 DEF WindowIn, OrderIn, InOrder
<1>5. Kept = ChunksIn(Texts)
  <2>1. ASSUME NEW c \in Kept PROVE c \in ChunksIn(Texts)
    <3>1. c # 0 /\ \E n \in Slots : c \in ToSet(Text(n))
      BY Zenon DEF Kept
    <3>2. PICK n \in Slots : c \in ToSet(Text(n))
      BY <3>1
    <3>3. PICK k \in DOMAIN Text(n) : Text(n)[k] = c
      BY <3>2 DEF ToSet
    <3>4. k \in 1..Len(Texts[n]) /\ Texts[n][k] = c
      BY <1>2, <1>3, <3>3
    <3> QED BY <1>1, <3>1, <3>4, PlaceHolds
  <2>2. ASSUME NEW c \in ChunksIn(Texts) PROVE c \in Kept
    <3>1. PICK n \in Slots : \E k \in 1..Len(Texts[n]) : Texts[n][k] = c
      BY DEF ChunksIn
    <3>2. PICK k \in 1..Len(Texts[n]) : Texts[n][k] = c
      BY <3>1
    <3>3. c \in ToSet(Text(n))
      BY <1>2, <1>3, <3>2 DEF ToSet
    <3>4. c # 0
      BY Constants DEF ChunksIn
    <3> QED BY <3>3, <3>4, Zenon DEF Kept
  <2> QED BY <2>1, <2>2
<1> QED BY <1>1, <1>4, <1>5 DEF WindowIn

\* The path is opened, and something may be added to what is there.
LEMMA OpenedText ==
    ASSUME FilesInv, Names, OpenPath, NEW text, file' = [file EXCEPT ![Path] = text]
    PROVE  /\ Content = Texts[0] /\ Texts'[0] = text
           /\ \A n \in Slots \ {0} : Texts'[n] = Texts[n]
<1>1. Path \in Inodes /\ 0 \in Slots /\ Path # Nil
  BY PathIsThere, Constants
<1>2. Content = Texts[0]
  BY <1>1 DEF Content, Texts, Text
<1>3. dir'[0] = Path /\ \A n \in Slots \ {0} : dir'[n] = dir[n]
  BY <1>1 DEF OpenPath, FilesInv
<1>4. file'[Path] = text /\ \A i \in Inodes \ {Path} : file'[i] = file[i]
  BY <1>1 DEF FilesInv
<1>5. Texts'[0] = text
  BY <1>1, <1>3, <1>4 DEF Texts, Text
<1>6. ASSUME NEW n \in Slots \ {0} PROVE Texts'[n] = Texts[n]
  <2>1. dir[n] \in Inodes \cup {Nil} /\ (dir[n] # Path \/ dir[n] = Nil)
    <3>1. CASE dir[0] = Nil
      BY <3>1, PathIsThere DEF InUse, FilesInv
    <3>2. CASE dir[0] # Nil
      BY <1>1, <3>2, PathIsThere DEF FilesInv
    <3> QED BY <3>1, <3>2
  <2> QED BY <1>3, <1>4, <2>1 DEF Texts, Text
<1> QED BY <1>2, <1>5, <1>6

\* Something is added to the file at the path.
LEMMA AppendedText ==
    ASSUME FilesInv, dir' = dir, dir[0] # Nil, NEW c,
           file' = [file EXCEPT ![dir[0]] = Append(@, c)]
    PROVE  /\ Texts'[0] = Append(Texts[0], c)
           /\ \A n \in Slots \ {0} : Texts'[n] = Texts[n]
<1>1. 0 \in Slots /\ dir[0] \in Inodes
  BY Constants DEF FilesInv
<1>2. file'[dir[0]] = Append(file[dir[0]], c) /\ \A i \in Inodes \ {dir[0]} : file'[i] = file[i]
  BY <1>1 DEF FilesInv
<1>3. Texts'[0] = Append(Texts[0], c)
  BY <1>1, <1>2 DEF Texts, Text
<1>4. ASSUME NEW n \in Slots \ {0} PROVE Texts'[n] = Texts[n]
  <2>1. dir[n] \in Inodes \cup {Nil} /\ (dir[n] # dir[0] \/ dir[n] = Nil)
    BY <1>1 DEF FilesInv
  <2> QED BY <1>2, <2>1 DEF Texts, Text
<1> QED BY <1>3, <1>4

\* A file is moved up, or there is none to move.
LEMMA MovedText ==
    ASSUME FilesInv, NEW i \in 0..Keep - 1, dir' = MovedUp(i), file' = file
    PROVE  \/ Texts' = Texts
           \/ /\ Texts'[i + 1] = Texts[i] /\ Texts'[i] = << >>
              /\ \A n \in Slots \ {i, i + 1} : Texts'[n] = Texts[n]
<1>1. i \in Slots /\ i + 1 \in Slots /\ i # i + 1
  BY Constants DEF Slots
<1>2. CASE dir[i] = Nil
  BY <1>2 DEF MovedUp, Texts, Text
<1>3. CASE dir[i] # Nil
  <2>1. dir' = [dir EXCEPT ![i + 1] = dir[i], ![i] = Nil]
    BY <1>3 DEF MovedUp
  <2>2. /\ dir'[i + 1] = dir[i] /\ dir'[i] = Nil
        /\ \A n \in Slots \ {i, i + 1} : dir'[n] = dir[n]
    BY <1>1, <2>1 DEF FilesInv
  <2> QED BY <1>1, <2>2 DEF Texts, Text
<1> QED BY <1>2, <1>3

\* What has been taken is older than what is in hand.
LEMMA TakenBefore ==
    ASSUME TInv, QueueInv, NEW r \in RunNos, chunk[r] # 0, NEW d \in Taken
    PROVE  d < chunk[r]
<1>1. pipe[r] \in Seq(1..Chunks) /\ produced \in Nat /\ chunk[r] \in 0..Chunks
  BY Constants DEF TInv, RunInv, CollInv
<1>2. Len(pipe[r]) \in Nat /\ DOMAIN pipe[r] = 1..Len(pipe[r])
  BY <1>1
<1>3. /\ chunk[r] = produced - Len(pipe[r])
      /\ \A k \in 1..Len(pipe[r]) : pipe[r][k] = produced - Len(pipe[r]) + k
  BY DEF QueueInv, Queue
<1>4. d \in 1..produced /\ d \notin ToSet(pipe[r]) /\ d # chunk[r]
  BY DEF Taken
<1>5. CASE d > chunk[r]
  <2> DEFINE k == d - chunk[r]
  <2>1. k \in 1..Len(pipe[r]) /\ d = produced - Len(pipe[r]) + k
    <3> DEFINE l == Len(pipe[r])
               c == chunk[r]
    <3>1. l \in Nat /\ c \in Int /\ produced \in Nat /\ c = produced - l
          /\ d \in 1..produced /\ d > c
      BY <1>1, <1>2, <1>3, <1>4, <1>5
    <3> HIDE DEF l, c
    <3>2. d - c \in 1..l /\ d = produced - l + (d - c)
      BY <3>1
    <3> QED BY <3>2 DEF l, c
  <2>2. pipe[r][k] = d
    BY <1>3, <2>1
  <2>3. d \in ToSet(pipe[r])
    BY <1>2, <2>1, <2>2 DEF ToSet
  <2> QED BY <1>4, <2>3
<1> QED BY <1>1, <1>4, <1>5

\* The types of what a step leaves.
LEMMA WindowTypes ==
    ASSUME TInv, TInv'
    PROVE  /\ Texts \in SlotTexts /\ Texts' \in SlotTexts
           /\ Taken \in SUBSET Nat /\ Taken' \in SUBSET Nat
<1>1. Texts \in SlotTexts
  BY TextsTyped DEF TInv
<1>2. FilesInv' => (Texts \in SlotTexts)'
  BY TextsTyped, PTL
<1>3. Texts' \in SlotTexts
  BY <1>2 DEF TInv, SlotTexts, Slots
<1>4. produced \in Nat /\ produced' \in Nat
  BY Constants DEF TInv, RunInv
<1>5. Taken \subseteq 1..produced /\ Taken' \subseteq 1..produced'
  BY DEF Taken
<1> QED BY <1>1, <1>3, <1>4, <1>5

\* A step that writes nothing but markers, and loses what it takes and does not write.
LEMMA OnlyMarkers ==
    ASSUME TInv, TInv', WindowIn(Texts, Taken, Lost),
           \A n \in Slots : Texts'[n] = Texts[n] \/ Texts'[n] = Append(Texts[n], 0),
           Taken \subseteq Taken', Taken' \ Lost' \subseteq Taken \ Lost
    PROVE  WindowIn(Texts', Taken', Lost')
<1> DEFINE s == Texts
           t == Texts'
           done == Taken
           then == Taken'
           lost == Lost
           lostThen == Lost'
<1>1. /\ s \in SlotTexts /\ t \in SlotTexts /\ done \in SUBSET Nat /\ then \in SUBSET Nat
      /\ \A n \in Slots : t[n] = s[n] \/ t[n] = Append(s[n], 0)
      /\ WindowIn(s, done, lost) /\ done \subseteq then /\ then \ lostThen \subseteq done \ lost
  BY WindowTypes
<1> HIDE DEF s, t, done, then, lost, lostThen
<1>2. WindowIn(t, then, lostThen)
  BY <1>1, MarkersOnly
<1> QED BY <1>2 DEF t, then, lostThen

\* Who is not at work has nothing: the one that is, as long as collectors have not
\* met, has it all.
LEMMA OthersIdle ==
    ASSUME TInv, AInv, DrainInv, ~met, NEW r \in RunNos, Attached(r), NEW q \in RunNos \ {r}
    PROVE  ~Attached(q) /\ fd[q] = Nil /\ chunk[q] = 0 /\ pipe[q] = << >>
<1>1. ~Attached(q)
  BY DEF AInv, OneInv
<1>2. at[q] \in {"none", "done"}
  BY <1>1 DEF Attached
<1>3. fd[q] = Nil /\ chunk[q] = 0
  BY <1>2 DEF TInv, CollInv, Local
<1>4. pipe[q] = << >>
  BY <1>1 DEF DrainInv, PipesAreDrained
<1> QED BY <1>1, <1>3, <1>4

\* Which chunks have been taken.
LEMMA TakenIs ==
    Taken = {c \in 1..produced : \A q \in RunNos : c \notin ToSet(pipe[q]) /\ c # chunk[q]}
<1>1. \A c : c \in UNION {ToSet(pipe[r]) \cup {chunk[r]} : r \in RunNos}
             <=> \E q \in RunNos : c \in ToSet(pipe[q]) \/ c = chunk[q]
  OBVIOUS
<1> QED BY <1>1 DEF Taken

\* And after a step.
LEMMA TakenIsThen ==
    Taken' = {c \in 1..produced' :
                 \A q \in RunNos : c \notin ToSet(pipe'[q]) /\ c # chunk'[q]}
<1>1. \A c : c \in UNION {ToSet(pipe'[r]) \cup {chunk'[r]} : r \in RunNos}
             <=> \E q \in RunNos : c \in ToSet(pipe'[q]) \/ c = chunk'[q]
  OBVIOUS
<1> QED BY <1>1 DEF Taken

\* What is in a sequence, its first apart.
LEMMA SetOfTail ==
    ASSUME NEW S, NEW s \in Seq(S), s # << >>
    PROVE  ToSet(s) = {Head(s)} \cup ToSet(Tail(s))
<1>1. /\ Tail(s) \in Seq(S) /\ Head(s) = s[1]
      /\ Len(s) \in Nat \ {0} /\ Len(Tail(s)) = Len(s) - 1
      /\ \A k \in 1..Len(s) - 1 : Tail(s)[k] = s[k + 1]
  BY HeadAndTail
<1>2. DOMAIN s = 1..Len(s) /\ DOMAIN Tail(s) = 1..Len(s) - 1
  BY <1>1
<1>3. ASSUME NEW k \in 1..Len(s) PROVE s[k] \in {Head(s)} \cup ToSet(Tail(s))
  <2>1. CASE k = 1
    BY <1>1, <2>1
  <2>2. CASE k # 1
    <3>1. k - 1 \in 1..Len(s) - 1 /\ (k - 1) + 1 = k
      BY <1>1, <2>2
    <3>2. Tail(s)[k - 1] = s[k]
      BY <1>1, <3>1
    <3> QED BY <1>2, <3>1, <3>2 DEF ToSet
  <2> QED BY <2>1, <2>2
<1>4. ASSUME NEW k \in 1..Len(s) - 1 PROVE Tail(s)[k] \in ToSet(s)
  <2>1. k + 1 \in 1..Len(s) /\ Tail(s)[k] = s[k + 1]
    BY <1>1
  <2> QED BY <1>2, <2>1 DEF ToSet
<1>5. Head(s) \in ToSet(s)
  <2>1. 1 \in 1..Len(s)
    BY <1>1
  <2> QED BY <1>1, <1>2, <2>1 DEF ToSet
<1> QED BY <1>2, <1>3, <1>4, <1>5 DEF ToSet

\* What is in one that gets longer.
LEMMA SetOfAppend ==
    ASSUME NEW S, NEW s \in Seq(S), NEW c \in S
    PROVE  ToSet(Append(s, c)) = ToSet(s) \cup {c}
<1>1. /\ Append(s, c) \in Seq(S) /\ Len(Append(s, c)) = Len(s) + 1 /\ Len(s) \in Nat
      /\ Append(s, c)[Len(s) + 1] = c
      /\ \A k \in 1..Len(s) : Append(s, c)[k] = s[k]
  BY Appended
<1>2. DOMAIN s = 1..Len(s) /\ DOMAIN Append(s, c) = 1..Len(s) + 1
  BY <1>1
<1>3. ASSUME NEW k \in 1..Len(s) + 1 PROVE Append(s, c)[k] \in ToSet(s) \cup {c}
  <2>1. CASE k = Len(s) + 1
    BY <1>1, <2>1
  <2>2. CASE k # Len(s) + 1
    <3>1. k \in 1..Len(s)
      BY <1>1, <2>2
    <3> QED BY <1>1, <1>2, <3>1 DEF ToSet
  <2> QED BY <2>1, <2>2
<1>4. ASSUME NEW k \in 1..Len(s) PROVE s[k] \in ToSet(Append(s, c))
  <2>1. k \in 1..Len(s) + 1 /\ Append(s, c)[k] = s[k]
    BY <1>1
  <2> QED BY <1>2, <2>1 DEF ToSet
<1>5. c \in ToSet(Append(s, c))
  <2>1. Len(s) + 1 \in 1..Len(s) + 1
    BY <1>1
  <2> QED BY <1>1, <1>2, <2>1 DEF ToSet
<1> QED BY <1>2, <1>3, <1>4, <1>5 DEF ToSet

\* A collector reads the next chunk.
LEMMA QueueRead ==
    ASSUME NEW S, NEW p \in Seq(S), p # << >>, NEW hand, NEW total \in Nat, Queue(p, 0, total),
           hand = 0 \/ hand = Head(p)
    PROVE  Queue(Tail(p), hand, total)
<1>1. /\ Head(p) = p[1] /\ Len(p) \in Nat \ {0} /\ Len(Tail(p)) = Len(p) - 1
      /\ \A k \in 1..Len(p) - 1 : Tail(p)[k] = p[k + 1]
  BY HeadAndTail
<1>2. \A k \in 1..Len(p) : p[k] = total - Len(p) + k
  BY DEF Queue
<1>3. ASSUME NEW k \in 1..Len(Tail(p)) PROVE Tail(p)[k] = total - Len(Tail(p)) + k
  <2>1. k + 1 \in 1..Len(p) /\ Tail(p)[k] = p[k + 1]
    BY <1>1
  <2>2. p[k + 1] = total - Len(p) + (k + 1)
    BY <1>2, <2>1
  <2> QED BY <1>1, <2>1, <2>2
<1>4. Head(p) = total - Len(Tail(p))
  <2>1. 1 \in 1..Len(p)
    BY <1>1
  <2>2. p[1] = total - Len(p) + 1
    BY <1>2, <2>1
  <2> QED BY <1>1, <2>2
<1> QED BY <1>3, <1>4 DEF Queue

\* The child writes another.
LEMMA QueueWrite ==
    ASSUME NEW p \in Seq(Nat), NEW hand \in Nat, NEW total \in Nat, Queue(p, hand, total)
    PROVE  Queue(Append(p, total + 1), hand, total + 1)
<1>1. /\ Len(Append(p, total + 1)) = Len(p) + 1 /\ Len(p) \in Nat
      /\ Append(p, total + 1)[Len(p) + 1] = total + 1
      /\ \A k \in 1..Len(p) : Append(p, total + 1)[k] = p[k]
  BY Appended
<1>2. /\ \A k \in 1..Len(p) : p[k] = total - Len(p) + k
      /\ hand # 0 => hand = total - Len(p)
  BY DEF Queue
<1>3. ASSUME NEW k \in 1..Len(p) + 1
      PROVE  Append(p, total + 1)[k] = (total + 1) - (Len(p) + 1) + k
  <2>1. CASE k = Len(p) + 1
    BY <1>1, <2>1
  <2>2. CASE k # Len(p) + 1
    <3>1. k \in 1..Len(p)
      BY <1>1, <2>2
    <3>2. p[k] = total - Len(p) + k
      BY <1>2, <3>1
    <3> QED BY <1>1, <3>1, <3>2
  <2> QED BY <2>1, <2>2
<1>4. hand # 0 => hand = (total + 1) - (Len(p) + 1)
  BY <1>1, <1>2
<1> QED BY <1>1, <1>3, <1>4 DEF Queue

\* What a step of a collector does to its pipe and to the chunk in its hand.
LEMMA CollectQueue ==
    ASSUME TInv, NEW r \in RunNos, Collect(r)
    PROVE  /\ produced' = produced
           /\ \/ pipe' = pipe /\ \E c \in {0, chunk[r]} : chunk' = [chunk EXCEPT ![r] = c]
              \/ /\ Read(r) /\ pipe[r] # << >> /\ chunk[r] = 0
                 /\ pipe' = [pipe EXCEPT ![r] = Tail(@)]
                 /\ \E c \in {0, Head(pipe[r])} : chunk' = [chunk EXCEPT ![r] = c]
<1>1. chunk \in [RunNos -> 0..Chunks] /\ \A q \in RunNos : Local(at[q], fd[q], chunk[q], level[q])
  BY DEF TInv, CollInv
<1>2. chunk = [chunk EXCEPT ![r] = chunk[r]]
  BY <1>1
<1>3. CASE Read(r)
  <2>1. chunk[r] = 0
    BY <1>1, <1>3 DEF Read, Local
  <2>2. produced' = produced /\ pipe[r] # << >> /\ pipe' = [pipe EXCEPT ![r] = Tail(@)]
        /\ (chunk' = chunk \/ chunk' = [chunk EXCEPT ![r] = Head(pipe[r])])
    BY <1>3 DEF Read
  <2>3. \E c \in {0, Head(pipe[r])} : chunk' = [chunk EXCEPT ![r] = c]
    BY <1>2, <2>1, <2>2
  <2> QED BY <1>3, <2>1, <2>2, <2>3
<1>4. CASE ~Read(r)
  <2>1. pipe' = pipe /\ produced' = produced
        /\ (chunk' = chunk \/ chunk' = [chunk EXCEPT ![r] = 0])
    <3>1. CASE \/ EndOfStream(r) \/ ReadFails(r) \/ Put(r) \/ Close(r)
               \/ RemoveOldest(r) \/ Shift(r)
      BY <3>1 DEF EndOfStream, ReadFails, Put, Close, RemoveOldest, Shift, runVars
    <3>2. CASE Aside(r) \/ Reopen(r) \/ Header(r) \/ Tell(r)
      BY <3>2 DEF Aside, Reopen, Header, Tell, runVars
    <3> QED BY <1>4, <3>1, <3>2 DEF Collect
  <2>2. \E c \in {0, chunk[r]} : chunk' = [chunk EXCEPT ![r] = c]
    BY <1>2, <2>1
  <2> QED BY <2>1, <2>2
<1> QED BY <1>3, <1>4

\* A collector leaves the chunks waiting one after another.
LEMMA QueueCollect ==
    ASSUME TInv, QueueInv, NEW r \in RunNos, Collect(r)
    PROVE  QueueInv'
<1>1. /\ pipe \in [RunNos -> Seq(1..Chunks)] /\ chunk \in [RunNos -> 0..Chunks]
      /\ produced \in Nat /\ produced' = produced
  BY Constants, CollectQueue DEF TInv, RunInv, CollInv
<1>2. ASSUME NEW q \in RunNos PROVE Queue(pipe'[q], chunk'[q], produced')
  <2>1. Queue(pipe[q], chunk[q], produced)
    BY DEF QueueInv
  <2>2. CASE pipe' = pipe /\ \E c \in {0, chunk[r]} : chunk' = [chunk EXCEPT ![r] = c]
    <3>1. pipe'[q] = pipe[q] /\ (chunk'[q] = chunk[q] \/ chunk'[q] = 0)
      BY <1>1, <2>2
    <3>2. Queue(pipe[q], 0, produced)
      BY <2>1 DEF Queue
    <3> QED BY <1>1, <2>1, <3>1, <3>2
  <2>3. CASE /\ pipe[r] # << >> /\ chunk[r] = 0 /\ pipe' = [pipe EXCEPT ![r] = Tail(@)]
             /\ \E c \in {0, Head(pipe[r])} : chunk' = [chunk EXCEPT ![r] = c]
    <3>1. CASE q = r
      <4>1. /\ pipe'[q] = Tail(pipe[q]) /\ pipe[q] # << >> /\ Queue(pipe[q], 0, produced)
            /\ chunk'[q] = 0 \/ chunk'[q] = Head(pipe[q])
        BY <1>1, <2>1, <2>3, <3>1
      <4>2. pipe[q] \in Seq(1..Chunks)
        BY <1>1
      <4>3. Queue(Tail(pipe[q]), chunk'[q], produced)
        BY <1>1, <4>1, <4>2, QueueRead
      <4> QED BY <1>1, <4>1, <4>3
    <3>2. CASE q # r
      <4>1. pipe'[q] = pipe[q] /\ chunk'[q] = chunk[q]
        BY <1>1, <2>3, <3>2
      <4> QED BY <1>1, <2>1, <4>1
    <3> QED BY <3>1, <3>2
  <2> QED BY <2>2, <2>3, CollectQueue
<1> QED BY <1>2 DEF QueueInv, Queue

\* A child leaves them so, and takes none.
LEMMA WriteWindow ==
    ASSUME TInv, TInv', AInv, DrainInv, WInv, ~met, NEW r \in RunNos, ChildWrites(r)
    PROVE  QueueInv' /\ PlaceInv' /\ WindowIn(Texts', Taken', Lost')
<1>1. /\ pipe \in [RunNos -> Seq(1..Chunks)] /\ chunk \in [RunNos -> 0..Chunks]
      /\ produced \in Nat /\ chunk[r] \in Nat /\ Chunks \in Nat
  BY Constants DEF TInv, RunInv, CollInv
<1>2. /\ held[r] /\ produced' = produced + 1 /\ UNCHANGED <<file, dir, fd, at, level, chunk, dropped, refused>>
      /\ pipe' = [pipe EXCEPT ![r] = Append(@, produced + 1)]
  BY DEF ChildWrites, fileVars, collVars, histVars
<1>3. Attached(r)
  BY <1>2 DEF DrainInv, PipesAreDrained
<1>4. pipe[r] \in Seq(Nat)
  BY DEF DrainInv
<1>5. QueueInv'
  <2>1. ASSUME NEW q \in RunNos PROVE Queue(pipe'[q], chunk'[q], produced')
    <3>1. CASE q = r
      <4>1. Queue(pipe[r], chunk[r], produced)
        BY DEF WInv, QueueInv
      <4>2. Queue(Append(pipe[r], produced + 1), chunk[r], produced + 1)
        BY <1>1, <1>4, <4>1, QueueWrite
      <4>3. pipe'[q] = Append(pipe[r], produced + 1) /\ chunk'[q] = chunk[r]
        BY <1>1, <1>2, <3>1
      <4> QED BY <1>2, <4>2, <4>3
    <3>2. CASE q # r
      <4>1. pipe'[q] = << >> /\ chunk'[q] = 0
        BY <1>1, <1>2, <1>3, <3>2, OthersIdle
      <4> QED BY <4>1 DEF Queue
    <3> QED BY <3>1, <3>2
  <2> QED BY <2>1 DEF QueueInv, Queue
<1>6. PlaceInv'
  BY <1>2 DEF WInv, PlaceInv, PlaceOf, Free
<1>7. Taken' = Taken
  <2>1. ASSUME NEW c
        PROVE  c \in Taken' <=> c \in Taken
    <3>1. ToSet(pipe'[r]) = ToSet(pipe[r]) \cup {produced + 1}
      <4>1. ToSet(Append(pipe[r], produced + 1)) = ToSet(pipe[r]) \cup {produced + 1}
        BY <1>1, <1>4, SetOfAppend
      <4> QED BY <1>1, <1>2, <4>1
    <3>2. \A q \in RunNos \ {r} : pipe'[q] = pipe[q]
      BY <1>1, <1>2
    <3>3. (\A q \in RunNos : c \notin ToSet(pipe'[q]) /\ c # chunk'[q])
          <=> c # produced + 1 /\ \A q \in RunNos : c \notin ToSet(pipe[q]) /\ c # chunk[q]
      BY <1>2, <3>1, <3>2
    <3>4. c \in 1..produced + 1 /\ c # produced + 1 <=> c \in 1..produced
      BY <1>1
    <3> QED BY <1>2, <3>3, <3>4, TakenIs, TakenIsThen
  <2> QED BY <2>1
<1>8. Texts' = Texts
  BY <1>2 DEF Texts, Text
<1> QED BY <1>2, <1>5, <1>6, <1>7, <1>8 DEF WInv, Lost

\* A step that has nothing to do with the output or the files.
LEMMA WindowStays ==
    ASSUME WInv, ~met,
           UNCHANGED <<file, dir, fd, at, level, chunk, pipe, produced, dropped, refused>>
    PROVE  QueueInv' /\ PlaceInv' /\ WindowIn(Texts', Taken', Lost')
<1>1. QueueInv'
  BY DEF WInv, QueueInv, Queue
<1>2. PlaceInv'
  BY DEF WInv, PlaceInv, PlaceOf, Free
<1>3. Texts' = Texts
  BY DEF Texts, Text
<1>4. Taken' = Taken
  BY DEF Taken
<1> QED BY <1>1, <1>2, <1>3, <1>4 DEF WInv, Lost

\* A collector at work keeps to the file at the path, and frees each slot before it
\* moves a file into it.
LEMMA PlaceCollect ==
    ASSUME TInv, TInv', AInv, DrainInv, WInv, ~met, NEW r \in RunNos, Collect(r)
    PROVE  PlaceInv'
<1> DEFINE FreeThen(n) == dir'[n] = Nil \/ n = Keep \/ "archive" \in refused'
<1>1. /\ fd \in [RunNos -> Inodes \cup {Nil}] /\ level \in [RunNos -> 0..Keep]
      /\ at \in [RunNos -> CollSteps] /\ dir \in [Slots -> Inodes \cup {Nil}]
      /\ Local(at[r], fd[r], chunk[r], level[r]) /\ PlaceOf(r) /\ Attached(r)
      /\ Keep \in Nat \ {0} /\ Keep \in Slots /\ 0 \in Slots
  BY Constants, CollectorAt DEF TInv, CollInv, FilesInv, WInv, PlaceInv
<1>2. ASSUME NEW q \in RunNos \ {r}
      PROVE  /\ fd'[q] # Nil => fd'[q] = dir'[0]
             /\ at'[q] \in {"shift", "aside"} => FreeThen(level'[q] + 1)
  <2>1. at'[q] = at[q] /\ fd'[q] = fd[q]
    BY CollectorAt
  <2>2. ~Attached(q) /\ fd[q] = Nil
    BY <1>1, OthersIdle
  <2> QED BY <2>1, <2>2 DEF Attached
<1>3. SUFFICES /\ fd'[r] # Nil => fd'[r] = dir'[0]
               /\ at'[r] \in {"shift", "aside"} => FreeThen(level'[r] + 1)
  BY <1>2 DEF PlaceInv, PlaceOf, Free
<1>4. CASE Read(r) \/ Put(r) \/ Header(r) \/ Tell(r)
  <2>1. UNCHANGED <<fd, dir>> /\ \E step \in {"read", "put", "close", "tell"} : at' = [at EXCEPT ![r] = step]
    BY <1>4 DEF Read, Put, Header, Tell, Goto, OnNoFile, fileVars
  <2>2. at'[r] \notin {"shift", "aside"}
    BY <1>1, <2>1
  <2> QED BY <1>1, <2>1, <2>2 DEF PlaceOf
<1>5. CASE EndOfStream(r) \/ ReadFails(r) \/ Close(r)
  <2>1. /\ fd' = [fd EXCEPT ![r] = Nil]
        /\ \E step \in {"done", "unreadable", "remove"} : at' = [at EXCEPT ![r] = step]
    BY <1>5 DEF EndOfStream, ReadFails, Close, Goto
  <2> QED BY <1>1, <2>1
<1>6. CASE RemoveOldest(r)
  <2>1. fd' = fd /\ at[r] = "remove" /\ level' = [level EXCEPT ![r] = Keep - 1]
    BY <1>6 DEF RemoveOldest
  <2>2. fd'[r] = Nil /\ level'[r] = Keep - 1 /\ (Keep - 1) + 1 = Keep
    BY <1>1, <2>1 DEF Local
  <2> QED BY <2>2
<1>7. CASE Shift(r)
  <2>1. /\ fd' = fd /\ at[r] = "shift" /\ level' = [level EXCEPT ![r] = @ - 1]
        /\ dir' = MovedUp(level[r]) \/ "archive" \in refused'
    BY <1>7 DEF Shift
  <2> DEFINE l == level[r]
  <2>2. fd'[r] = Nil /\ l \in 1..Keep - 1
    BY <1>1, <2>1 DEF Local
  <2>3. level'[r] = l - 1 /\ (l - 1) + 1 = l /\ l \in Slots /\ l # l + 1
    BY <1>1, <2>1, <2>2 DEF Slots
  <2>4. dir'[l] = Nil \/ "archive" \in refused'
    BY <1>1, <2>1, <2>3 DEF MovedUp
  <2> QED BY <2>2, <2>3, <2>4
<1>8. CASE Aside(r)
  <2>1. fd' = fd /\ at[r] = "aside" /\ at' = [at EXCEPT ![r] = "reopen"]
    BY <1>8 DEF Aside, Goto
  <2> QED BY <1>1, <2>1 DEF Local
<1>9. CASE Reopen(r)
  <2>1. at[r] = "reopen" /\ \E step \in {"header", "put", "read"} : at' = [at EXCEPT ![r] = step]
    BY <1>9 DEF Reopen, Goto
  <2>2. fd[r] = Nil /\ at'[r] \notin {"shift", "aside"}
    BY <1>1, <2>1 DEF Local
  <2>3. fd' = fd \/ (fd' = [fd EXCEPT ![r] = Path] /\ dir' = [dir EXCEPT ![0] = Path])
    BY <1>9 DEF Reopen, OpenPath
  <2> QED BY <1>1, <2>2, <2>3
<1> QED BY <1>4, <1>5, <1>6, <1>7, <1>8, <1>9 DEF Collect

\* A chunk that leaves a collector's hand has been taken, and no other with it.
LEMMA TakenMore ==
    ASSUME TInv, NEW r \in RunNos, UNCHANGED <<pipe, produced>>, chunk' = [chunk EXCEPT ![r] = 0]
    PROVE  Taken \subseteq Taken' /\ Taken' \subseteq Taken \cup {chunk[r]}
<1>1. chunk \in [RunNos -> 0..Chunks] /\ produced \in Nat
  BY Constants DEF TInv, CollInv, RunInv
<1>2. ASSUME NEW c \in Taken PROVE c \in Taken'
  <2>1. c # 0 /\ c \in 1..produced
    BY <1>1, TakenIs
  <2>2. \A q \in RunNos : c # chunk'[q]
    BY <1>1, <2>1, TakenIs
  <2> QED BY <2>1, <2>2, TakenIs, TakenIsThen
<1>3. ASSUME NEW c \in Taken', c # chunk[r] PROVE c \in Taken
  <2>1. \A q \in RunNos : c # chunk[q]
    BY <1>1, <1>3, TakenIsThen
  <2> QED BY <2>1, TakenIs, TakenIsThen
<1> QED BY <1>2, <1>3

\* It has been, if the collector is the only one at work.
LEMMA TakenNow ==
    ASSUME TInv, AInv, DrainInv, QueueInv, ~met, NEW r \in RunNos, Attached(r), chunk[r] # 0,
           UNCHANGED <<pipe, produced>>, chunk' = [chunk EXCEPT ![r] = 0]
    PROVE  chunk[r] \in Taken' /\ chunk[r] \in 1..Chunks
<1> DEFINE c == chunk[r]
<1>1. /\ chunk \in [RunNos -> 0..Chunks] /\ pipe[r] \in Seq(1..Chunks)
      /\ produced \in Nat /\ Chunks \in Nat
  BY Constants DEF TInv, CollInv, RunInv
<1>2. c \in 1..Chunks /\ Len(pipe[r]) \in Nat /\ DOMAIN pipe[r] = 1..Len(pipe[r])
  BY <1>1
<1>3. /\ c = produced - Len(pipe[r])
      /\ \A k \in 1..Len(pipe[r]) : pipe[r][k] = produced - Len(pipe[r]) + k
  BY DEF QueueInv, Queue
<1>4. c \notin ToSet(pipe[r])
  <2> SUFFICES ASSUME c \in ToSet(pipe[r]) PROVE FALSE
    OBVIOUS
  <2>1. PICK k \in 1..Len(pipe[r]) : pipe[r][k] = c
    BY <1>2 DEF ToSet
  <2>2. c = c + k
    BY <1>3, <2>1
  <2> HIDE DEF c
  <2> QED BY <1>2, <2>1, <2>2
<1>5. ASSUME NEW q \in RunNos PROVE c \notin ToSet(pipe'[q]) /\ c # chunk'[q]
  <2>1. CASE q = r
    BY <1>1, <1>4, <2>1
  <2>2. CASE q # r
    <3>1. pipe[q] = << >> /\ chunk'[q] = 0
      BY <1>1, <2>2, OthersIdle
    <3> QED BY <3>1 DEF ToSet
  <2> QED BY <2>1, <2>2
<1>6. c \in 1..produced'
  <2> HIDE DEF c
  <2> QED BY <1>1, <1>2, <1>3
<1> QED BY <1>2, <1>5, <1>6, TakenIsThen

\* With a file a read takes nothing yet.
LEMMA TakenRead ==
    ASSUME TInv, NEW r \in RunNos, pipe[r] # << >>, chunk[r] = 0, produced' = produced,
           pipe' = [pipe EXCEPT ![r] = Tail(@)],
           chunk' = chunk \/ chunk' = [chunk EXCEPT ![r] = Head(pipe[r])]
    PROVE  /\ Taken \subseteq Taken' /\ Taken' \subseteq Taken \cup {Head(pipe[r])}
           /\ chunk' # chunk => Taken' = Taken
<1>1. /\ chunk \in [RunNos -> 0..Chunks] /\ pipe \in [RunNos -> Seq(1..Chunks)]
      /\ produced \in Nat
  BY Constants DEF TInv, CollInv, RunInv
<1>2. ToSet(pipe[r]) = {Head(pipe[r])} \cup ToSet(Tail(pipe[r]))
  <2>1. pipe[r] \in Seq(1..Chunks)
    BY <1>1
  <2> QED BY <2>1, SetOfTail
<1>3. ToSet(pipe[r]) = {Head(pipe[r])} \cup ToSet(pipe'[r])
  BY <1>1, <1>2
<1>4. \A q \in RunNos \ {r} : pipe'[q] = pipe[q] /\ chunk'[q] = chunk[q]
  BY <1>1
<1>5. chunk'[r] = chunk[r] \/ chunk'[r] = Head(pipe[r])
  BY <1>1
<1>6. ASSUME NEW c \in Taken PROVE c \in Taken'
  BY <1>3, <1>4, <1>5, TakenIs, TakenIsThen
<1>7. ASSUME NEW c \in Taken', c # Head(pipe[r]) PROVE c \in Taken
  <2>1. c # 0
    BY <1>1, TakenIsThen
  <2> QED BY <1>3, <1>4, <1>7, <2>1, TakenIs, TakenIsThen
<1>8. chunk' # chunk => Head(pipe[r]) \notin Taken'
  <2>1. chunk' # chunk => chunk'[r] = Head(pipe[r])
    BY <1>1
  <2> QED BY <2>1, TakenIsThen
<1> QED BY <1>6, <1>7, <1>8

\* What a collector writes is later than all that is there, and what it removes is
\* older than all that stays.
LEMMA WindowCollect ==
    ASSUME TInv, TInv', AInv, DrainInv, WInv, ~met, NEW r \in RunNos, Collect(r)
    PROVE  WindowIn(Texts', Taken', Lost')
<1>1. /\ FilesInv /\ Names /\ QueueInv /\ PlaceOf(r) /\ Attached(r)
      /\ WindowIn(Texts, Taken, Lost) /\ Local(at[r], fd[r], chunk[r], level[r])
      /\ level[r] \in 0..Keep /\ Keep \in Nat \ {0} /\ 0 \in Slots
  BY Constants, CollectorAt DEF TInv, CollInv, FilesInv, HistInv, Names, WInv, PlaceInv
<1>2. /\ Texts \in SlotTexts /\ Texts' \in SlotTexts
      /\ Taken \in SUBSET Nat /\ Taken' \in SUBSET Nat
  BY WindowTypes
<1>3. UNCHANGED <<file, dir>> => Texts' = Texts
  BY DEF Texts, Text
<1>4. /\ UNCHANGED <<pipe, produced, chunk>> => Taken' = Taken
      /\ UNCHANGED <<dropped, refused>> => Lost' = Lost
      /\ dropped \subseteq dropped' /\ refused' = refused => Lost \subseteq Lost'
  BY DEF Taken, Lost
<1>5. CASE Read(r)
  <2>1. /\ pipe[r] # << >> /\ chunk[r] = 0 /\ produced' = produced /\ UNCHANGED <<file, dir>>
        /\ pipe' = [pipe EXCEPT ![r] = Tail(@)]
        /\ refused' = refused
        /\ \/ chunk' = chunk /\ dropped' = dropped \cup {Head(pipe[r])}
           \/ chunk' = [chunk EXCEPT ![r] = Head(pipe[r])] /\ dropped' = dropped
    BY <1>1, <1>5 DEF Read, Local, fileVars
  <2>2. /\ Taken \subseteq Taken' /\ Taken' \subseteq Taken \cup {Head(pipe[r])}
        /\ chunk' # chunk => Taken' = Taken
    BY <2>1, TakenRead
  <2>3. CASE chunk' = chunk /\ dropped' = dropped \cup {Head(pipe[r])}
    <3>1. Taken' \ Lost' \subseteq Taken \ Lost
      BY <1>2, <2>1, <2>2, <2>3 DEF Lost
    <3> QED BY <1>1, <1>3, <2>1, <2>2, <3>1, OnlyMarkers
  <2>4. CASE chunk' = [chunk EXCEPT ![r] = Head(pipe[r])] /\ dropped' = dropped
    <3>1. chunk' # chunk
      <4>1. chunk \in [RunNos -> 0..Chunks] /\ pipe[r] \in Seq(1..Chunks)
        BY DEF TInv, CollInv, RunInv
      <4>2. Head(pipe[r]) \in 1..Chunks
        BY <2>1, <4>1, HeadAndTail
      <4>3. chunk'[r] = Head(pipe[r]) /\ Head(pipe[r]) # 0
        BY <2>4, <4>1, <4>2, Constants
      <4> QED BY <2>1, <4>3
    <3>2. Taken' = Taken /\ Lost' = Lost /\ Texts' = Texts
      BY <1>3, <1>4, <2>1, <2>2, <2>4, <3>1
    <3> QED BY <1>1, <3>2
  <2> QED BY <2>1, <2>3, <2>4
<1>6. CASE EndOfStream(r) \/ ReadFails(r) \/ Close(r) \/ Tell(r)
  <2>1. UNCHANGED <<file, dir, pipe, produced, chunk, dropped, refused>>
    BY <1>6 DEF EndOfStream, ReadFails, Close, Tell, fileVars, runVars, histVars
  <2> QED BY <1>1, <1>3, <1>4, <2>1
<1>7. CASE Put(r)
  <2>1. /\ at[r] = "put" /\ UNCHANGED <<dir, pipe, produced, refused>> /\ chunk' = [chunk EXCEPT ![r] = 0]
        /\ \/ file' = [file EXCEPT ![fd[r]] = Append(@, chunk[r])] /\ dropped' = dropped
           \/ file' = file /\ dropped' = dropped \cup {chunk[r]}
    BY <1>7 DEF Put, runVars
  <2>2. chunk[r] # 0 /\ fd[r] # Nil /\ fd[r] = dir[0]
    BY <1>1, <2>1 DEF Local, PlaceOf
  <2>3. Taken \subseteq Taken' /\ Taken' \subseteq Taken \cup {chunk[r]}
    BY <2>1, TakenMore
  <2>4. CASE file' = [file EXCEPT ![fd[r]] = Append(@, chunk[r])] /\ dropped' = dropped
    <3>1. chunk[r] \in Taken' /\ chunk[r] \in 1..Chunks
      BY <1>1, <2>1, <2>2, TakenNow
    <3>2. \A d \in Taken : d < chunk[r]
      BY <1>1, <2>2, TakenBefore
    <3>3. Texts'[0] = Append(Texts[0], chunk[r]) /\ \A n \in Slots \ {0} : Texts'[n] = Texts[n]
      BY <1>1, <2>1, <2>2, <2>4, AppendedText
    <3> DEFINE s == Texts
               t == Texts'
               done == Taken
               then == Taken'
               lost == Lost
               c == chunk[r]
    <3>4. /\ s \in SlotTexts /\ t \in SlotTexts /\ done \in SUBSET Nat /\ then \in SUBSET Nat
          /\ c \in 1..Chunks /\ t[0] = Append(s[0], c) /\ \A n \in Slots \ {0} : t[n] = s[n]
          /\ WindowIn(s, done, lost) /\ done \subseteq then /\ c \in then
          /\ then \subseteq done \cup {c} /\ \A d \in done : d < c
      BY <1>1, <1>2, <2>3, <3>1, <3>2, <3>3
    <3>5. Lost' = lost
      BY <1>4, <2>1, <2>4
    <3> HIDE DEF s, t, done, then, lost, c
    <3>6. WindowIn(t, then, lost)
      BY <3>4, ChunkWritten
    <3> QED BY <3>5, <3>6 DEF t, then
  <2>5. CASE file' = file /\ dropped' = dropped \cup {chunk[r]}
    <3>1. Taken' \ Lost' \subseteq Taken \ Lost
      BY <1>2, <2>1, <2>3, <2>5 DEF Lost
    <3> QED BY <1>1, <1>3, <2>1, <2>3, <2>5, <3>1, OnlyMarkers
  <2> QED BY <2>1, <2>4, <2>5
<1>8. CASE RemoveOldest(r)
  <2>1. /\ UNCHANGED <<file, pipe, produced, chunk, dropped, refused>>
        /\ dir' = dir \/ dir' = [dir EXCEPT ![Keep] = Nil]
    BY <1>8 DEF RemoveOldest, Oldest, runVars, histVars
  <2>2. Taken' = Taken /\ Lost' = Lost
    BY <1>4, <2>1
  <2>3. CASE dir' = dir
    BY <1>1, <1>3, <2>1, <2>2, <2>3
  <2>4. CASE dir' = [dir EXCEPT ![Keep] = Nil]
    <3>1. Texts'[Keep] = << >> /\ \A n \in Slots \ {Keep} : Texts'[n] = Texts[n]
      BY <1>1, <2>1, <2>4, Constants DEF FilesInv, Texts, Text
    <3> DEFINE s == Texts
               t == Texts'
    <3>2. /\ s \in SlotTexts /\ t \in SlotTexts /\ WindowIn(s, Taken, Lost)
          /\ t[Keep] = << >> /\ \A n \in Slots \ {Keep} : t[n] = s[n]
      BY <1>1, <1>2, <3>1
    <3> HIDE DEF s, t
    <3>3. WindowIn(t, Taken, Lost)
      BY <1>2, <3>2, OneGoes, Constants
    <3> QED BY <2>2, <3>3 DEF t
  <2> QED BY <2>1, <2>3, <2>4
<1>9. ASSUME NEW i \in 0..Keep - 1, dir' = MovedUp(i), Free(i + 1),
             UNCHANGED <<file, pipe, produced, chunk, dropped, refused>>
      PROVE  WindowIn(Texts', Taken', Lost')
  <2>1. Taken' = Taken /\ Lost' = Lost
    BY <1>4, <1>9
  <2>2. \/ Texts' = Texts
        \/ /\ Texts'[i + 1] = Texts[i] /\ Texts'[i] = << >>
           /\ \A n \in Slots \ {i, i + 1} : Texts'[n] = Texts[n]
    BY <1>1, <1>9, MovedText
  <2>3. CASE Texts' = Texts
    BY <1>1, <2>1, <2>3
  <2>4. CASE Texts' # Texts
    <3>1. Texts[i + 1] = << >> \/ i + 1 = Keep \/ Taken \subseteq Lost
      <4>1. i + 1 \in Slots
        BY Constants DEF Slots
      <4> QED BY <1>2, <1>9, <4>1 DEF Free, Lost, Texts, Text
    <3> DEFINE s == Texts
               t == Texts'
               done == Taken
               lost == Lost
    <3>2. /\ s \in SlotTexts /\ t \in SlotTexts /\ done \in SUBSET Nat
          /\ WindowIn(s, done, lost) /\ t[i + 1] = s[i] /\ t[i] = << >>
          /\ \A n \in Slots \ {i, i + 1} : t[n] = s[n]
          /\ s[i + 1] = << >> \/ i + 1 = Keep \/ done \subseteq lost
      BY <1>1, <1>2, <2>2, <2>4, <3>1
    <3> HIDE DEF s, t, done, lost
    <3>3. WindowIn(t, done, lost)
      BY <3>2, OneMovesOver
    <3> QED BY <2>1, <3>3 DEF t, done, lost
  <2> QED BY <2>3, <2>4
<1>10. CASE Shift(r)
  <2>1. /\ at[r] = "shift" /\ UNCHANGED <<file, pipe, produced, chunk, dropped>>
        /\ \/ dir' = MovedUp(level[r]) /\ refused' = refused
           \/ dir' = dir /\ refused' = refused \cup {"archive"}
    BY <1>10 DEF Shift, runVars
  <2>2. level[r] \in 0..Keep - 1 /\ Free(level[r] + 1)
    BY <1>1, <2>1 DEF Local, PlaceOf
  <2>3. CASE dir' = dir /\ refused' = refused \cup {"archive"}
    <3>1. Taken' \ Lost' \subseteq Taken \ Lost
      BY <1>2, <2>3 DEF Lost
    <3>2. Texts' = Texts /\ Taken' = Taken
      BY <1>3, <1>4, <2>1, <2>3
    <3> QED BY <1>1, <3>1, <3>2, OnlyMarkers
  <2> QED BY <1>9, <2>1, <2>2, <2>3
<1>11. CASE Aside(r)
  <2>1. /\ at[r] = "aside" /\ UNCHANGED <<file, pipe, produced, chunk, dropped>>
        /\ \/ dir' = MovedUp(0) /\ refused' = refused
           \/ dir' = dir /\ refused' \in {refused, refused \cup {"path"}}
    BY <1>11 DEF Aside, runVars
  <2>2. 0 \in 0..Keep - 1 /\ Free(0 + 1)
    BY <1>1, <2>1 DEF Local, PlaceOf
  <2>3. CASE dir' = dir /\ refused' \in {refused, refused \cup {"path"}}
    <3>1. Lost' = Lost /\ Texts' = Texts /\ Taken' = Taken
      BY <1>3, <1>4, <2>1, <2>3 DEF Lost
    <3> QED BY <1>1, <3>1
  <2> QED BY <1>9, <2>1, <2>2, <2>3
<1>12. CASE Reopen(r)
  <2>1. /\ UNCHANGED <<pipe, produced, refused>>
        /\ \/ OpenPath /\ file' = [file EXCEPT ![Path] = Content] /\ UNCHANGED <<chunk, dropped>>
           \/ /\ UNCHANGED <<file, dir>> /\ dropped' = dropped \cup {chunk[r]}
              /\ chunk' = [chunk EXCEPT ![r] = 0]
    BY <1>12 DEF Reopen, Opened, runVars, fileVars
  <2>2. CASE OpenPath /\ file' = [file EXCEPT ![Path] = Content] /\ UNCHANGED <<chunk, dropped>>
    <3>1. Content = Texts[0] /\ Texts'[0] = Content /\ \A n \in Slots \ {0} : Texts'[n] = Texts[n]
      BY <1>1, <2>2, OpenedText
    <3>2. \A n \in Slots : Texts'[n] = Texts[n]
      BY <3>1
    <3>3. Taken' = Taken /\ Lost' = Lost
      BY <1>4, <2>1, <2>2
    <3> QED BY <1>1, <3>2, <3>3, OnlyMarkers
  <2>3. CASE /\ UNCHANGED <<file, dir>> /\ dropped' = dropped \cup {chunk[r]}
             /\ chunk' = [chunk EXCEPT ![r] = 0]
    <3>1. Taken \subseteq Taken' /\ Taken' \subseteq Taken \cup {chunk[r]}
      BY <2>1, <2>3, TakenMore
    <3>2. Taken' \ Lost' \subseteq Taken \ Lost
      BY <1>2, <2>1, <2>3, <3>1 DEF Lost
    <3> QED BY <1>1, <1>3, <2>3, <3>1, <3>2, OnlyMarkers
  <2> QED BY <2>1, <2>2, <2>3
<1>13. CASE Header(r)
  <2>1. /\ at[r] = "header" /\ UNCHANGED <<dir, pipe, produced, chunk, dropped, refused>>
        /\ file' = [file EXCEPT ![fd[r]] = Append(@, 0)] \/ file' = file
    BY <1>13 DEF Header, runVars, histVars
  <2>2. fd[r] # Nil /\ fd[r] = dir[0]
    BY <1>1, <2>1 DEF Local, PlaceOf
  <2>3. \A n \in Slots : Texts'[n] = Texts[n] \/ Texts'[n] = Append(Texts[n], 0)
    <3>1. CASE file' = file
      BY <1>3, <2>1, <3>1
    <3>2. CASE file' = [file EXCEPT ![fd[r]] = Append(@, 0)]
      <4>1. Texts'[0] = Append(Texts[0], 0) /\ \A n \in Slots \ {0} : Texts'[n] = Texts[n]
        BY <1>1, <2>1, <2>2, <3>2, AppendedText
      <4> QED BY <4>1
    <3> QED BY <2>1, <3>1, <3>2
  <2>4. Taken' = Taken /\ Lost' = Lost
    BY <1>4, <2>1
  <2> QED BY <1>1, <2>3, <2>4, OnlyMarkers
<1> QED BY <1>5, <1>6, <1>7, <1>8, <1>10, <1>11, <1>12, <1>13 DEF Collect

\* A run is started, and a marker written before it.
LEMMA WindowSpawn ==
    ASSUME TInv, TInv', AInv, WInv, ~met, ~met', WriteMarker \/ StartFails \/ StartCollector
    PROVE  QueueInv' /\ PlaceInv' /\ WindowIn(Texts', Taken', Lost')
<1>1. /\ FilesInv /\ Names /\ QueueInv /\ PlaceInv /\ CollInv
      /\ WindowIn(Texts, Taken, Lost) /\ Keep \in Nat \ {0} /\ 0 \in Slots
  BY Constants DEF TInv, FilesInv, CollInv, HistInv, Names, WInv
<1>2. CASE UNCHANGED <<file, dir, fd, at, level, chunk, pipe, produced, dropped, refused>>
  BY <1>2, WindowStays
<1>3. ASSUME OpenPath, NEW text, file' = [file EXCEPT ![Path] = text],
             text = Content \/ text = Append(Content, 0),
             UNCHANGED <<level, chunk, pipe, produced, dropped, refused>>
      PROVE  QueueInv' /\ WindowIn(Texts', Taken', Lost')
  <2>1. Content = Texts[0] /\ Texts'[0] = text /\ \A n \in Slots \ {0} : Texts'[n] = Texts[n]
    BY <1>1, <1>3, OpenedText
  <2>2. \A n \in Slots : Texts'[n] = Texts[n] \/ Texts'[n] = Append(Texts[n], 0)
    BY <1>3, <2>1
  <2>3. Taken' = Taken /\ Lost' = Lost
    BY <1>3 DEF Taken, Lost
  <2>4. QueueInv'
    BY <1>1, <1>3 DEF QueueInv, Queue
  <2> QED BY <1>1, <2>2, <2>3, <2>4, OnlyMarkers
<1>4. ASSUME OpenPath, NEW q \in RunNos, at'[q] = at[q], fd'[q] = fd[q],
             level' = level, refused' = refused
      PROVE  /\ fd'[q] # Nil => fd'[q] = dir'[0]
             /\ at'[q] \in {"shift", "aside"} => Free(level[q] + 1)'
  <2>1. PlaceOf(q) /\ dir' = [dir EXCEPT ![0] = Path] /\ level[q] \in 0..Keep
    BY <1>1, <1>4 DEF PlaceInv, OpenPath, CollInv
  <2>2. dir[0] # Nil => dir'[0] = dir[0]
    BY <1>1, <2>1, PathIsThere DEF FilesInv
  <2>3. level[q] + 1 # 0
    BY <1>1, <2>1
  <2>4. dir'[level[q] + 1] = dir[level[q] + 1]
    BY <1>1, <2>1, <2>3 DEF FilesInv
  <2> QED BY <1>4, <2>1, <2>2, <2>4 DEF PlaceOf, Free
<1>5. CASE WriteMarker \/ StartFails
  <2>1. /\ UNCHANGED <<fd, at, level, chunk, pipe, produced, dropped, refused>>
        /\ \/ UNCHANGED <<file, dir>>
           \/ /\ OpenPath
              /\ \E text \in {Content, Append(Content, 0)} : file' = [file EXCEPT ![Path] = text]
    BY <1>5 DEF WriteMarker, StartFails, Opened, fileVars, collVars, histVars
  <2>2. CASE UNCHANGED <<file, dir>>
    BY <1>2, <2>1, <2>2
  <2>3. CASE /\ OpenPath
             /\ \E text \in {Content, Append(Content, 0)} : file' = [file EXCEPT ![Path] = text]
    <3>1. PlaceInv'
      BY <1>4, <2>1, <2>3 DEF PlaceInv, PlaceOf
    <3> QED BY <1>3, <2>1, <2>3, <3>1
  <2> QED BY <2>1, <2>2, <2>3
<1>6. CASE StartCollector
  <2> DEFINE r == run + 1
  <2>1. /\ at' = [at EXCEPT ![r] = "read"] /\ UNCHANGED <<level, chunk, pipe, produced, dropped, refused>>
        /\ met' = (met \/ \E q \in RunNos : Attached(q))
        /\ \/ /\ OpenPath /\ fd' = [fd EXCEPT ![r] = Path]
              /\ file' = [file EXCEPT ![Path] = Content]
           \/ UNCHANGED <<file, dir, fd>>
    BY <1>6 DEF StartCollector, Goto, Opened, fileVars
  <2>2. ASSUME NEW q \in RunNos PROVE fd[q] = Nil
    <3>1. ~Attached(q)
      BY <2>1
    <3> QED BY <1>1, <3>1 DEF Attached, CollInv, Local
  <2>3. PlaceInv'
    <3>1. ASSUME NEW q \in RunNos
          PROVE  /\ fd'[q] # Nil => fd'[q] = dir'[0]
                 /\ at'[q] \notin {"shift", "aside"}
      <4>1. at'[q] = at[q] \/ at'[q] = "read"
        BY <1>1, <2>1 DEF CollInv
      <4>2. ~Attached(q)
        BY <2>1
      <4>3. at'[q] \notin {"shift", "aside"}
        BY <4>1, <4>2 DEF Attached
      <4>4. fd'[q] # Nil => fd'[q] = dir'[0]
        <5>1. CASE OpenPath /\ fd' = [fd EXCEPT ![r] = Path]
          <6>1. dir'[0] = Path
            BY <1>1, <5>1 DEF OpenPath, FilesInv
          <6>2. fd'[q] = Path \/ fd'[q] = fd[q]
            BY <1>1, <5>1 DEF CollInv
          <6> QED BY <2>2, <6>1, <6>2
        <5>2. CASE fd' = fd
          BY <2>2, <5>2
        <5> QED BY <2>1, <5>1, <5>2
      <4> QED BY <4>3, <4>4
    <3> QED BY <3>1 DEF PlaceInv, PlaceOf
  <2>4. CASE OpenPath /\ file' = [file EXCEPT ![Path] = Content]
    BY <1>3, <2>1, <2>3, <2>4
  <2>5. CASE UNCHANGED <<file, dir, fd>>
    <3>1. QueueInv'
      BY <1>1, <2>1 DEF QueueInv, Queue
    <3>2. Texts' = Texts /\ Taken' = Taken /\ Lost' = Lost
      BY <2>1, <2>5 DEF Texts, Text, Taken, Lost
    <3> QED BY <1>1, <2>3, <3>1, <3>2
  <2> QED BY <2>1, <2>3, <2>4, <2>5
<1> QED BY <1>5, <1>6

\* At first there are at most markers in the file.
LEMMA InitWindow == Init => WInv
<1> SUFFICES ASSUME Init PROVE QueueInv /\ PlaceInv /\ WindowIn(Texts, Taken, Lost)
  BY DEF WInv
<1>1. QueueInv
  <2>1. \A r \in RunNos : pipe[r] = << >> /\ chunk[r] = 0
    BY DEF Init, Nil
  <2> QED BY <2>1 DEF QueueInv, Queue
<1>2. PlaceInv
  BY DEF Init, PlaceInv, PlaceOf
<1>3. ASSUME NEW n \in Slots, NEW k \in 1..Len(Texts[n]) PROVE Texts[n][k] = 0
  <2>1. PICK length \in Existing :
           /\ file = [i \in Inodes |-> IF i = 1 THEN [j \in 1..length |-> 0] ELSE << >>]
           /\ dir = [m \in Slots |-> IF m = 0 /\ length > 0 THEN 1 ELSE Nil]
    BY DEF Init
  <2>2. length \in Nat /\ 1 \in Inodes /\ Nil = 0
    BY <2>1, ChildLogAssumption DEF Inodes, Nil
  <2>3. CASE n = 0 /\ length > 0
    <3>1. Texts[n] = [j \in 1..length |-> 0]
      BY <2>1, <2>2, <2>3 DEF Texts, Text
    <3>2. Len(Texts[n]) = length
      BY <2>2, <3>1
    <3> QED BY <3>1, <3>2
  <2>4. CASE ~(n = 0 /\ length > 0)
    <3>1. Texts[n] = << >>
      BY <2>1, <2>2, <2>4 DEF Texts, Text
    <3> QED BY <3>1
  <2> QED BY <2>3, <2>4
<1>4. ChunksIn(Texts) = {}
  <2> SUFFICES ASSUME NEW c \in ChunksIn(Texts) PROVE FALSE
    OBVIOUS
  <2>1. c # 0 /\ \E n \in Slots : \E k \in 1..Len(Texts[n]) : Texts[n][k] = c
    BY Constants DEF ChunksIn
  <2> QED BY <1>3, <2>1
<1>5. OrderIn(Texts)
  BY <1>3 DEF OrderIn
<1> QED BY <1>1, <1>2, <1>4, <1>5 DEF WindowIn

\* Every step keeps the window.
LEMMA WindowInductive == TInv /\ TInv' /\ AInv /\ DrainInv /\ WInv /\ [Next]_vars => WInv'
<1> SUFFICES ASSUME TInv, TInv', AInv, DrainInv, WInv, [Next]_vars, ~met'
             PROVE  (QueueInv /\ PlaceInv /\ WindowIn(Texts, Taken, Lost))'
  BY DEF WInv
<1> SUFFICES QueueInv' /\ PlaceInv' /\ WindowIn(Texts', Taken', Lost')
  OBVIOUS
<1>1. CASE WriteMarker \/ StartFails \/ StartCollector
  <2>1. ~met
    BY <1>1 DEF WriteMarker, StartFails, StartCollector, histVars
  <2> QED BY <1>1, <2>1, WindowSpawn
<1>2. ASSUME NEW r \in RunNos, Collect(r)
      PROVE  QueueInv' /\ PlaceInv' /\ WindowIn(Texts', Taken', Lost')
  <2>1. ~met /\ QueueInv
    BY <1>2, CollectorAt DEF WInv
  <2> QED BY <1>2, <2>1, QueueCollect, PlaceCollect, WindowCollect
<1>3. ASSUME NEW r \in RunNos, ChildWrites(r)
      PROVE  QueueInv' /\ PlaceInv' /\ WindowIn(Texts', Taken', Lost')
  <2>1. ~met
    BY <1>3 DEF ChildWrites, histVars
  <2> QED BY <1>3, <2>1, WriteWindow
<1>4. CASE \/ Query \/ Server \/ UNCHANGED vars
           \/ \E r \in RunNos : ChildEnds(r)
  <2>1. UNCHANGED <<file, dir, fd, at, level, chunk, pipe, produced, dropped, refused, met>>
    BY <1>4 DEF Query, Server, vars, ChildEnds, fileVars, runVars, collVars, histVars
  <2> QED BY <2>1, WindowStays
<1> QED BY <1>1, <1>2, <1>3, <1>4 DEF Next

\* As long as one collector at a time is at work, the files hold the output in its
\* order, wherever its rotation has got to, and whatever a write, an open, a removal
\* or a rename came to; and the latest of it without a gap, as long as every archive
\* could be moved: for any number of runs, archives and chunks, on either platform.
THEOREM WindowIsKept == Spec => []WindowKept
<1> DEFINE Inv == TInv /\ AInv /\ DrainInv /\ WInv
<1>1. Init => Inv
  BY InitTypes, InitArchives, InitDrain, InitWindow
<1>2. Inv /\ [Next]_vars => Inv'
  BY TypesInductive, ArchivesInductive, DrainInductive, WindowInductive
<1>3. Inv => WindowKept
  BY WindowHolds
<1> QED
  BY <1>1, <1>2, <1>3, PTL DEF Spec
=============================================================================
