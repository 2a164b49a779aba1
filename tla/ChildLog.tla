------------------------------ MODULE ChildLog -------------------------------
(***************************************************************************)
(* internal/runner/collect.go: the collectors that drain the output pipes  *)
(* of one entry's runs into its log file, with the rotation of that file,  *)
(* the markers spawn writes into it, and the log queries that hold it      *)
(* open.  Every file system call is a step, so the collectors of two runs  *)
(* interleave in between.  Trouble is recorded in the operations log.      *)
(*                                                                         *)
(* A chunk is one read of the pipe, one unit long, and numbered in the     *)
(* order of the child's writes; a marker and a rotation header are 0.      *)
(***************************************************************************)
EXTENDS OpsLog

CONSTANTS
    Runs,       \* bound: how often the entry is started
    Chunks,     \* bound: how many chunks its children write
    Capacity,   \* what a pipe holds
    Rotate,     \* child_log_rotate_bytes
    Keep,       \* child_log_archive_keep
    Existing,   \* how long the log is that an earlier server left, 0 for none
    Meeting,    \* bound: the kinds of fault with which collectors may meet
    Settings    \* pairs of a platform and a kind of fault; on "windows" a file
                \* that is open cannot be renamed, on "posix" it can

ASSUME ChildLogAssumption ==
    /\ Runs \in Nat \ {0} /\ Chunks \in Nat /\ Capacity \in Nat \ {0}
    /\ Rotate \in Nat \ {0, 1} /\ Keep \in Nat \ {0} /\ Existing \subseteq Nat
    /\ Settings \subseteq {"windows", "posix"} \X Faults

VARIABLES
    platform,
    \* the files: what is in them, and which one each name stands for
    file, dir,
    \* the runs: the latest start, whether spawn is under way, the process, the
    \* write end of the pipe, the pipe, and the chunks written so far
    run, spawning, alive, held, pipe, produced,
    \* the collector of each run; level is the loop variable of rotate
    at, fd, size, chunk, renamed, level,
    \* the file a log query has open
    query,
    \* history: chunks never written, rotations told of, whether two collectors
    \* ever met, what a rename was ever refused for
    dropped, rotations, met, refused

fileVars == <<platform, file, dir>>
runVars == <<run, spawning, alive, held, pipe, produced>>
collVars == <<at, fd, size, chunk, renamed, level>>
histVars == <<dropped, rotations, met, refused>>
vars == <<fileVars, runVars, collVars, query, histVars, opsVars>>

Nil == 0
RunNos == 1..Runs
Slots == 0..Keep                   \* 0: the path itself, n: <path>.<n>
Inodes == 1..Keep + Runs + 2
Rotating == {"close", "remove", "shift", "aside", "reopen", "header", "tell"}
CollSteps == {"none", "read", "put", "done", "unreadable"} \cup Rotating

Init ==
    /\ \E s \in Settings : platform = s[1] /\ fault = s[2]
    /\ \E length \in Existing :
          /\ file = [i \in Inodes |-> IF i = 1 THEN [k \in 1..length |-> 0] ELSE << >>]
          /\ dir = [n \in Slots |-> IF n = 0 /\ length > 0 THEN 1 ELSE Nil]
    /\ run = 0 /\ spawning = FALSE /\ produced = 0
    /\ alive = [r \in RunNos |-> FALSE] /\ held = alive
    /\ pipe = [r \in RunNos |-> << >>]
    /\ at = [r \in RunNos |-> "none"]
    /\ fd = [r \in RunNos |-> Nil] /\ size = fd /\ chunk = fd /\ level = fd
    /\ renamed = alive
    /\ query = Nil
    /\ dropped = {} /\ rotations = 0 /\ met = FALSE /\ refused = {}
    /\ OpsInit

Goto(r, step) == at' = [at EXCEPT ![r] = step]
Running == run # 0 /\ alive[run]
Attached(r) == at[r] \notin {"none", "done"}
Fails(kind) == fault = kind

-----------------------------------------------------------------------------
(* Files.                                                                  *)

InUse == {dir[n] : n \in Slots} \cup {fd[r] : r \in RunNos} \cup {query}
Path == IF dir[0] # Nil THEN dir[0] ELSE CHOOSE i \in Inodes : i \notin InUse

\* openLog: the file is created if it is not there.
OpenPath ==
    /\ dir' = [dir EXCEPT ![0] = Path]
    /\ UNCHANGED platform

Content == IF dir[0] # Nil THEN file[dir[0]] ELSE << >>

BugOpened(content) == << >>
\* The file is opened for appending.
Opened(content) == content

\* os.Rename of the path: Windows refuses it while anybody has the file open.
Refused ==
    platform = "windows" /\ (query = dir[0] \/ \E r \in RunNos : fd[r] = dir[0])

-----------------------------------------------------------------------------
(* spawn, as far as the log is concerned, and the child.                   *)

\* The marker of a run that is not the first.
WriteMarker ==
    /\ ~spawning /\ ~Running /\ run < Runs
    /\ fault \in Meeting \/ \A q \in RunNos : ~Attached(q)
    /\ spawning' = TRUE
    /\ \/ /\ run = 0
          /\ UNCHANGED <<fileVars, opsVars>>
       \/ /\ run # 0
          /\ OpenPath
          /\ file' = [file EXCEPT ![Path] = Append(Opened(Content), 0)]
          /\ UNCHANGED opsVars
       \/ /\ run # 0 /\ Fails("open")
          /\ Once("failed")
          /\ UNCHANGED fileVars
       \/ /\ run # 0 /\ Fails("write")
          /\ OpenPath
          /\ file' = [file EXCEPT ![Path] = Opened(Content)]
          /\ Once("failed")
    /\ UNCHANGED <<run, alive, held, pipe, produced, collVars, query, histVars>>

\* The command cannot be started.
StartFails ==
    /\ spawning
    /\ spawning' = FALSE /\ run' = run + 1
    /\ UNCHANGED <<fileVars, alive, held, pipe, produced, collVars, query,
                   histVars, opsVars>>

\* The tracked size begins with what is in the file.
Tracked(content) == Len(content)

\* The child is started, and the collector on its pipe.
StartCollector ==
    LET r == run + 1 IN
    /\ spawning
    /\ spawning' = FALSE /\ run' = r
    /\ alive' = [alive EXCEPT ![r] = TRUE] /\ held' = [held EXCEPT ![r] = TRUE]
    /\ \/ /\ OpenPath
          /\ file' = [file EXCEPT ![Path] = Opened(Content)]
          /\ fd' = [fd EXCEPT ![r] = Path]
          /\ size' = [size EXCEPT ![r] = Tracked(Opened(Content))]
          /\ UNCHANGED opsVars
       \/ /\ Fails("open")
          /\ Once("failed")
          /\ UNCHANGED <<fileVars, fd, size>>
    /\ Goto(r, "read")
    /\ met' = (met \/ \E q \in RunNos : Attached(q))
    /\ UNCHANGED <<pipe, produced, chunk, renamed, level, query, dropped, rotations, refused>>

ChildWrites(r) ==
    /\ held[r] /\ Len(pipe[r]) < Capacity /\ produced < Chunks
    /\ produced' = produced + 1
    /\ pipe' = [pipe EXCEPT ![r] = Append(@, produced + 1)]
    /\ UNCHANGED <<fileVars, run, spawning, alive, held, collVars, query, histVars, opsVars>>

\* The process ends; a descendant of it may keep the pipe open.
ChildEnds(r) ==
    /\ \/ alive[r] /\ held' \in {held, [held EXCEPT ![r] = FALSE]}
       \/ ~alive[r] /\ held[r] /\ held' = [held EXCEPT ![r] = FALSE]
    /\ alive' = [alive EXCEPT ![r] = FALSE]
    /\ UNCHANGED <<fileVars, run, spawning, pipe, produced, collVars, query, histVars, opsVars>>

-----------------------------------------------------------------------------
(* The collector.                                                          *)

BugOnNoFile == "done"
\* With no file to write to the pipe is drained all the same.
OnNoFile == "read"

Read(r) ==
    /\ at[r] = "read" /\ pipe[r] # << >>
    /\ pipe' = [pipe EXCEPT ![r] = Tail(@)]
    /\ IF fd[r] = Nil
       THEN /\ dropped' = dropped \cup {Head(pipe[r])}
            /\ Goto(r, OnNoFile)
            /\ UNCHANGED chunk
       ELSE /\ chunk' = [chunk EXCEPT ![r] = Head(pipe[r])]
            /\ Goto(r, IF size[r] + 1 >= Rotate THEN "close" ELSE "put")
            /\ UNCHANGED dropped
    /\ UNCHANGED <<fileVars, run, spawning, alive, held, produced, fd, size, renamed,
                   level, query, rotations, met, refused, opsVars>>

EndOfStream(r) ==
    /\ at[r] = "read" /\ pipe[r] = << >> /\ ~held[r]
    /\ fd' = [fd EXCEPT ![r] = Nil]
    /\ size' = [size EXCEPT ![r] = 0]
    /\ Goto(r, "done")
    /\ UNCHANGED <<fileVars, runVars, chunk, renamed, level, query, histVars, opsVars>>

\* Any other error makes the pipe unusable: it is recorded, and nobody reads on.
ReadFails(r) ==
    /\ at[r] = "read" /\ Fails("read")
    /\ Once("failed")
    /\ fd' = [fd EXCEPT ![r] = Nil]
    /\ size' = [size EXCEPT ![r] = 0]
    /\ Goto(r, "unreadable")
    /\ UNCHANGED <<fileVars, runVars, chunk, renamed, level, query, histVars>>

\* The chunk is written, or lost and the loss recorded (reportWriteFailure).
Put(r) ==
    /\ at[r] = "put"
    /\ \/ /\ file' = [file EXCEPT ![fd[r]] = Append(@, chunk[r])]
          /\ size' = [size EXCEPT ![r] = @ + 1]
          /\ UNCHANGED <<dropped, opsVars>>
       \/ /\ Fails("write")
          /\ dropped' = dropped \cup {chunk[r]}
          /\ Once("failed")
          /\ UNCHANGED <<file, size>>
    /\ chunk' = [chunk EXCEPT ![r] = 0]
    /\ Goto(r, "read")
    /\ UNCHANGED <<platform, dir, runVars, fd, renamed, level, query, rotations, met,
                   refused>>

\* rotate, one file system call after another.
Close(r) ==
    /\ at[r] = "close"
    /\ fd' = [fd EXCEPT ![r] = Nil]
    /\ Goto(r, "remove")
    /\ UNCHANGED <<fileVars, runVars, size, chunk, renamed, level, query, histVars, opsVars>>

BugOldest == Keep - 1
Oldest == Keep

\* What os.Remove and os.Rename of an archive come to is not looked at: one that
\* somebody holds open stays, and the next file is moved over it.
RemoveOldest(r) ==
    /\ at[r] = "remove"
    /\ \/ dir' = [dir EXCEPT ![Oldest] = Nil]
       \/ Fails("move") /\ UNCHANGED dir
    /\ level' = [level EXCEPT ![r] = Keep - 1]
    /\ Goto(r, IF Keep > 1 THEN "shift" ELSE "aside")
    /\ UNCHANGED <<platform, file, runVars, fd, size, chunk, renamed, query, histVars, opsVars>>

BugMovedUp(n) == [dir EXCEPT ![n + 1] = dir[n]]
MovedUp(n) ==
    IF dir[n] = Nil THEN dir ELSE [dir EXCEPT ![n + 1] = dir[n], ![n] = Nil]

Shift(r) ==
    /\ at[r] = "shift"
    /\ \/ dir' = MovedUp(level[r]) /\ UNCHANGED refused
       \/ /\ Fails("move") /\ dir[level[r]] # Nil
          /\ refused' = refused \cup {"archive"}
          /\ UNCHANGED dir
    /\ level' = [level EXCEPT ![r] = @ - 1]
    /\ Goto(r, IF level[r] > 1 THEN "shift" ELSE "aside")
    /\ UNCHANGED <<platform, file, runVars, fd, size, chunk, renamed, query, dropped,
                   rotations, met, opsVars>>

\* A path that is not there is no trouble; a refused rename is.
Aside(r) ==
    /\ at[r] = "aside"
    /\ \/ /\ dir[0] # Nil /\ ~Refused
          /\ dir' = MovedUp(0)
          /\ renamed' = [renamed EXCEPT ![r] = TRUE]
          /\ UNCHANGED <<refused, opsVars>>
       \/ /\ dir[0] # Nil /\ (Refused \/ Fails("move"))
          /\ Once("failed")
          /\ renamed' = [renamed EXCEPT ![r] = FALSE]
          /\ refused' = refused \cup {"path"}
          /\ UNCHANGED dir
       \/ /\ dir[0] = Nil
          /\ renamed' = [renamed EXCEPT ![r] = FALSE]
          /\ UNCHANGED <<dir, refused, opsVars>>
    /\ Goto(r, "reopen")
    /\ UNCHANGED <<platform, file, runVars, fd, size, chunk, level, query, dropped,
                   rotations, met>>

BugReportsReopen == UNCHANGED opsVars
ReportsReopen == Once("failed")

\* The size is taken from the file; a reopen that fails loses the chunk and
\* every later one.
Reopen(r) ==
    /\ at[r] = "reopen"
    /\ \/ /\ OpenPath
          /\ file' = [file EXCEPT ![Path] = Opened(Content)]
          /\ fd' = [fd EXCEPT ![r] = Path]
          /\ size' = [size EXCEPT ![r] = Len(Opened(Content))]
          /\ Goto(r, IF renamed[r] THEN "header" ELSE "put")
          /\ UNCHANGED <<chunk, dropped, opsVars>>
       \/ /\ Fails("open")
          /\ dropped' = dropped \cup {chunk[r]}
          /\ chunk' = [chunk EXCEPT ![r] = 0]
          /\ ReportsReopen
          /\ Goto(r, "read")
          /\ UNCHANGED <<fileVars, fd, size>>
    /\ UNCHANGED <<runVars, renamed, level, query, rotations, met, refused>>

Header(r) ==
    /\ at[r] = "header"
    /\ \/ /\ file' = [file EXCEPT ![fd[r]] = Append(@, 0)]
          /\ size' = [size EXCEPT ![r] = @ + 1]
          /\ UNCHANGED opsVars
       \/ /\ Fails("write")
          /\ Once("failed")
          /\ UNCHANGED <<file, size>>
    /\ Goto(r, "tell")
    /\ UNCHANGED <<platform, dir, runVars, fd, chunk, renamed, level, query, histVars>>

\* "child log rotated" in the operations log.
Tell(r) ==
    /\ at[r] = "tell"
    /\ Log("rotated")
    /\ rotations' = rotations + 1
    /\ Goto(r, "put")
    /\ UNCHANGED <<fileVars, runVars, fd, size, chunk, renamed, level, query, dropped,
                   met, refused>>

-----------------------------------------------------------------------------

\* A log query opens the file and closes it; only Windows minds.
Query ==
    /\ platform = "windows"
    /\ query' = IF query = Nil THEN dir[0] ELSE Nil
    /\ query' # query
    /\ UNCHANGED <<fileVars, runVars, collVars, histVars, opsVars>>

\* The rest of the server logs, or the shutdown sequence, which has stopped the
\* child and begins nothing more, closes the log.
Server ==
    /\ OpsOther \/ (run = Runs /\ ~Running /\ OpsClose)
    /\ UNCHANGED <<fileVars, runVars, collVars, query, histVars>>

Collect(r) ==
    \/ Read(r) \/ EndOfStream(r) \/ ReadFails(r) \/ Put(r)
    \/ Close(r) \/ RemoveOldest(r) \/ Shift(r) \/ Aside(r) \/ Reopen(r)
    \/ Header(r) \/ Tell(r)

Next ==
    \/ WriteMarker \/ StartFails \/ StartCollector
    \/ \E r \in RunNos : ChildWrites(r) \/ ChildEnds(r) \/ Collect(r)
    \/ Query
    \/ Server

Spec == Init /\ [][Next]_vars

-----------------------------------------------------------------------------
(* Properties.                                                             *)

\* Every variable has its type, no file has two names, and a collector that
\* has not begun or has ended holds none open.
TypeOK ==
    /\ OpsTypeOK
    /\ <<platform, fault>> \in Settings
    /\ file \in [Inodes -> Seq(0..Chunks)] /\ dir \in [Slots -> Inodes \cup {Nil}]
    /\ run \in 0..Runs /\ spawning \in BOOLEAN
    /\ {alive, held} \subseteq [RunNos -> BOOLEAN]
    /\ pipe \in [RunNos -> Seq(1..Chunks)] /\ produced \in 0..Chunks
    /\ at \in [RunNos -> CollSteps] /\ fd \in [RunNos -> Inodes \cup {Nil}]
    /\ size \in [RunNos -> Nat] /\ chunk \in [RunNos -> 0..Chunks]
    /\ renamed \in [RunNos -> BOOLEAN] /\ level \in [RunNos -> 0..Keep]
    /\ query \in Inodes \cup {Nil}
    /\ dropped \subseteq 1..Chunks /\ rotations \in Nat
    /\ met \in BOOLEAN /\ refused \subseteq {"archive", "path"}
    /\ \A r \in RunNos : at[r] \in {"none", "done", "unreadable"} => fd[r] = Nil
    /\ \A m, n \in Slots : m # n => dir[m] # dir[n] \/ dir[m] = Nil

\* What a person finds in the files of the entry: the text of each of them, the
\* higher the slot the older, and the chunks in all of them.
Text(n) == IF dir[n] = Nil THEN << >> ELSE file[dir[n]]
Kept == (UNION {ToSet(Text(n)) : n \in Slots}) \ {0}

\* A chunk that comes before another was written before it.
InOrder ==
    \A m, n \in Slots : \A j \in DOMAIN Text(m), k \in DOMAIN Text(n) :
        /\ m > n \/ (m = n /\ j < k)
        /\ Text(m)[j] # 0 /\ Text(n)[k] # 0
        => Text(m)[j] < Text(n)[k]

Taken == 1..produced \ UNION {ToSet(pipe[r]) \cup {chunk[r]} : r \in RunNos}

\* The files hold the output in its order, at every moment of a rotation too,
\* whatever was refused.  They hold the latest of it without a gap, but for what
\* was lost to a failure: what else is missing is older than all of them.  A
\* rename of the path may be refused, or the removal of the oldest archive; only
\* one of an archive costs output that is newer than some that stays.
WindowKept ==
    ~met =>
        /\ InOrder
        /\ "archive" \notin refused =>
            \A c \in Taken \ dropped : (\E k \in Kept : k < c) => c \in Kept

Archives == {n \in 1..Keep : dir[n] # Nil}
Quiet == \A r \in RunNos : at[r] \notin Rotating

\* Output leaves the archives only by being older than Keep rotations: after
\* n of them the files hold n archives, or all Keep of them, as long as no
\* rename was refused; the removal of the oldest may be.
AllArchives == ~met /\ Quiet => Cardinality(Archives) >= rotations \/ Archives = 1..Keep
ArchivesKept == refused = {} => AllArchives

\* Output that a collector had to give up, for want of a file or because a write
\* failed, is not lost silently: that has been recorded, and the record is in the
\* operations log unless that log failed, was closed, could not move an archive,
\* or has moved on.
LossIsOnRecord ==
    dropped # {} =>
        /\ "failed" \in once
        /\ \/ opsClosed \/ writeErr \/ opsStuck
           \/ \E k \in DOMAIN OpsKept : OpsKept[k].about = "failed"
           \/ OpsKept # << >> /\ OpsKept[1].no > 1

\* A full pipe stops the child dead, so somebody goes on reading it as long as
\* anything can still write to it or is left in it: with a full disk, a missing
\* directory, or the collector of the next run on the same file.  If it cannot be
\* read at all, that has been recorded.
PipesAreDrained ==
    \A r \in RunNos : held[r] \/ pipe[r] # << >> =>
        Attached(r) /\ (at[r] = "unreadable" => "failed" \in once)
=============================================================================
