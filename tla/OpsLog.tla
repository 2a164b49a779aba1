------------------------------- MODULE OpsLog --------------------------------
(***************************************************************************)
(* internal/opslog: the one operations log of the process.  Every call     *)
(* holds the logger's lock from its first test to its last write, so a     *)
(* call is one step here, the rotation it may begin with included.         *)
(*                                                                         *)
(* A record is its number in the order of the calls and what it is about;  *)
(* every record is one unit long.  Slot 0 is the file being written, slot  *)
(* n the archive <path>.<n>; an empty slot and a missing file are the same *)
(* to this code.                                                           *)
(***************************************************************************)
EXTENDS Integers, Sequences, SequencesExt, FiniteSets

\* What a file system refuses: moving or removing archives of the operations log,
\* renaming, opening or writing that log itself; moving, opening or writing the
\* files of a child's log, or reading its pipe.
FaultKinds == {"none", "opsShift", "opsAside", "opsReopen", "opsWrite",
               "move", "open", "write", "read"}

CONSTANTS
    OpsRotate,   \* the size at which the file is rotated, in records
    OpsKeep,     \* how many archives are kept
    Faults,      \* bound: the kinds of fault a behaviour may have
    Records      \* bound: records logged by the rest of the server

ASSUME OpsAssumption ==
    /\ OpsRotate \in Nat \ {0, 1} /\ OpsKeep \in Nat \ {0}
    /\ Faults \subseteq FaultKinds
    /\ Records \in Nat

VARIABLES
    fault,       \* the kind of fault that may strike, any number of times
    opsFile,     \* what is in each slot
    opsSize,     \* l.size
    opsClosed,   \* l.closed
    writeErr,    \* l.writeErr is set
    once,        \* l.once
    opsCount,    \* history: records handed to an open log
    opsStuck     \* history: an archive could not be renamed

opsVars == <<fault, opsFile, opsSize, opsClosed, writeErr, once, opsCount, opsStuck>>

Subjects == {"other", "rotated", "failed"}
Record == [no : Nat \ {0}, about : Subjects]

OpsTypeOK ==
    /\ fault \in Faults
    /\ opsFile \in [0..OpsKeep -> Seq(Record)]
    /\ opsSize \in Nat
    /\ {opsClosed, writeErr} \subseteq BOOLEAN
    /\ once \subseteq Subjects
    /\ opsCount \in Nat /\ opsStuck \in BOOLEAN

\* Open: nothing is there yet.
OpsInit ==
    /\ fault \in Faults
    /\ opsFile = [n \in 0..OpsKeep |-> << >>]
    /\ opsSize = 0
    /\ opsClosed = FALSE /\ writeErr = FALSE
    /\ once = {} /\ opsCount = 0 /\ opsStuck = FALSE

-----------------------------------------------------------------------------

MovesUp(files, stuck, n) == n > 1 /\ n - 1 \notin stuck /\ files[n - 1] # << >>

BugShifted(files, stuck) == files
\* The oldest archive is removed and the others move up, the highest first, over
\* whatever is in their way; those that are stuck stay, and nobody is told.
Shifted(files, stuck) ==
    [n \in 0..OpsKeep |-> IF MovesUp(files, stuck, n) THEN files[n - 1]
                          ELSE IF n = 0 \/ n \in stuck THEN files[n] ELSE << >>]

\* The file itself is renamed to the first archive, if it can be.
SetAside(files, moved) ==
    IF moved THEN [files EXCEPT ![1] = files[0], ![0] = << >>] ELSE files

Outcomes(kind) == IF fault = kind THEN BOOLEAN ELSE {TRUE}
Sticking == IF fault = "opsShift" THEN SUBSET (1..OpsKeep) ELSE {{}}

\* What sets writeErr: after a reopen that failed the write goes to the file
\* that was closed, and fails as well.
Failed(moved, reopened, written) == ~moved \/ ~reopened \/ ~written

\* write, with the rotation before it: a reopen that fails closes the log.
OpsWrite(about) ==
    \E stuck \in Sticking, moved \in Outcomes("opsAside"),
       reopened \in Outcomes("opsReopen"), written \in Outcomes("opsWrite") :
        LET rotates == opsSize + 1 >= OpsRotate
            files == IF rotates THEN SetAside(Shifted(opsFile, stuck), moved) ELSE opsFile
            up == rotates => reopened
            goes == up /\ written
        IN
        /\ UNCHANGED fault
        /\ ~rotates => moved /\ reopened /\ stuck = {}
        /\ opsFile' = IF goes
                      THEN [files EXCEPT ![0] =
                                Append(@, [no |-> opsCount + 1, about |-> about])]
                      ELSE files
        /\ opsSize' = (IF rotates /\ up THEN 0 ELSE opsSize) + (IF goes THEN 1 ELSE 0)
        /\ opsClosed' = ~up
        /\ writeErr' = (writeErr \/ Failed(moved, reopened, written))
        /\ opsCount' = opsCount + 1
        /\ opsStuck' = (opsStuck \/ \E n \in stuck \ {OpsKeep} : opsFile[n] # << >>)

\* Log: a closed log drops the record.
OpsRecord(about) ==
    IF opsClosed
    THEN UNCHANGED <<fault, opsFile, opsSize, opsClosed, writeErr, opsCount, opsStuck>>
    ELSE OpsWrite(about)

Log(about) == OpsRecord(about) /\ UNCHANGED once

\* Once: the pair of event and id is spent whether or not the record gets out.
Once(about) ==
    IF about \in once
    THEN UNCHANGED opsVars
    ELSE /\ once' = once \cup {about}
         /\ OpsRecord(about)

\* The rest of the server logs something.
OpsOther ==
    /\ opsCount < Records
    /\ Log("other")

\* Close, as often as the shutdown sequence likes.
OpsClose ==
    /\ opsClosed' = TRUE
    /\ UNCHANGED <<fault, opsFile, opsSize, writeErr, once, opsCount, opsStuck>>

-----------------------------------------------------------------------------
(* Properties.                                                             *)

\* The log as a reader of all its files sees it, oldest first.
OpsKept == FlattenSeq([n \in 1..OpsKeep + 1 |-> opsFile[OpsKeep + 1 - n]])

\* The records are in the order of the calls, whatever was refused.
OpsInOrder ==
    \A m, n \in 0..OpsKeep : \A j \in DOMAIN opsFile[m], k \in DOMAIN opsFile[n] :
        m > n \/ (m = n /\ j < k) => opsFile[m][j].no < opsFile[n][k].no

\* The files hold the records in their order.  As long as Err has nothing to
\* report none is missing: they are the latest ones without a gap, and every
\* archive there should be is full.  That Err does not report is a rename of an
\* archive that was refused: the next file is then moved over it.  The oldest
\* archive may be stuck, as it is the one to be written over.
RecordsKept ==
    /\ OpsInOrder
    /\ ~writeErr /\ ~opsStuck =>
        /\ \A k \in DOMAIN OpsKept : OpsKept[k].no = opsCount - Len(OpsKept) + k
        /\ \/ Len(OpsKept) = opsCount
           \/ Len(OpsKept) >= OpsKeep * (OpsRotate - 1) + 1
=============================================================================
