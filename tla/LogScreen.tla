----------------------------- MODULE LogScreen -------------------------------
(***************************************************************************)
(* A page that follows the log of a running entry: the screen's poller     *)
(* (internal/webui/index.html), the query it sends (serveLogs), and the    *)
(* reader behind it (internal/runner/logread.go with internal/textdec),    *)
(* while a child writes to the file and the collector rotates it.          *)
(*                                                                         *)
(* The poller is a timer that does not wait for answers, so several polls  *)
(* are under way at once and are answered in any order.  All that was ever *)
(* written is one sequence of bytes, cut into files where the collector    *)
(* rotated; an offset counts from the beginning of a file.  A character is *)
(* a byte of its own, or a lead and a continuation; the header that the    *)
(* collector puts first into the next file is a line of one byte.          *)
(***************************************************************************)
EXTENDS Integers, Sequences, FiniteSets, FiniteSetsExt, SequencesExt

CONSTANTS
    Polls,         \* the queries that may be under way at once
    TailWindow,    \* LogTailDefaultBytes
    ResponseMax,   \* LogResponseMaxBytes
    ScanLimit,     \* LogLineScanLimitBytes
    Scenarios      \* bound: what the child may write, and with it how often the
                   \* file is rotated, how often the user asks for the log, how
                   \* many answers never arrive and how many queries are refused
                   \* the file

\* What a child may write, a byte or half a character at a time.
Bytes == {"letter", "newline", "lead", "rest"}
Stored == Bytes \cup {"header"}

ASSUME LogScreenAssumption ==
    /\ {TailWindow, ScanLimit} \subseteq Nat \ {0}
    /\ ResponseMax \in Nat \ {0, 1}   \* room for a character
    /\ \A c \in Scenarios :
          /\ c.text \in Seq(Bytes)
          /\ \A k \in DOMAIN c.text :
                c.text[k] = "rest" => k > 1 /\ c.text[k - 1] = "lead"
          /\ {c.rotations, c.losses, c.refusals} \subseteq Nat /\ c.streams \in Nat \ {0}

VARIABLES
    \* the scenario and the log: what was written, how many bytes of it the
    \* child's, how many files were begun, whether the latest of them is at the
    \* path, the entry's status, whether the collector has reached the end of
    \* the output
    scenario, out, given, files, present, running, drained,
    \* history: where the file at the path begins, each time one came into sight:
    \* when it was made, and again after a query was refused it
    starts,
    \* the screen: logOffset, the spans it shows, logPaused, and whether it is
    \* connected, is not, or was told that it needs a token
    offset, shown, paused, link,
    \* the queries
    poll,
    \* history: the stream the user asked for and the file it stands in; whether
    \* an answer was applied that was asked for from another place; whether a
    \* stalled character was given up that was not yet final; answers lost
    place, crossed, raced, lost

childVars == <<scenario, out, given, files, present, running, drained>>
logVars == <<childVars, starts>>
screenVars == <<offset, shown, paused, link>>
histVars == <<place, crossed, raced, lost>>
vars == <<logVars, screenVars, poll, histVars>>

NoOffset == -1                                    \* no offset in the query
Idle == [step |-> "idle"]
\* emptyView.  In a view, and in place, the file that was the n-th to come into
\* sight is 2n - 1, and 2n the time it is gone, or is not to be read.
NoFile == [base |-> 0, from |-> 0, to |-> 0, next |-> 0,
           reset |-> FALSE, truncated |-> FALSE, file |-> 0]

Init ==
    /\ scenario \in Scenarios /\ out = << >> /\ given = 0
    /\ files = 0 /\ starts = << >> /\ present = FALSE
    /\ running = TRUE /\ drained = FALSE
    /\ offset = NoOffset /\ shown = {} /\ paused = FALSE /\ link = "up"
    /\ poll = [p \in Polls |-> Idle]
    /\ place = <<1, 0>> /\ crossed = FALSE /\ raced = FALSE /\ lost = 0

-----------------------------------------------------------------------------
(* The child and its collector.                                            *)

Base == starts[Len(starts)]
Size == Len(out) - Base
At(pos) == out[Base + pos + 1]                \* the byte at an offset

\* The collector holds its file open, with the output so far in it.
Settled == present /\ (IF Size = 0 THEN files = 1 ELSE At(Size - 1) # "header")

\* A file that follows on another begins with the header.
NeedsHeader == present /\ Size = 0 /\ files > 1

Creates ==
    /\ ~present
    /\ present' = TRUE
    /\ files' = files + 1
    /\ starts' = Append(starts, Len(out))
    /\ UNCHANGED <<scenario, out, given, running, drained, screenVars, poll, histVars>>

WritesHeader ==
    /\ NeedsHeader
    /\ out' = Append(out, "header")
    /\ UNCHANGED <<scenario, given, files, starts, present, running, drained, screenVars,
                   poll, histVars>>

Writes ==
    /\ present /\ ~NeedsHeader /\ ~drained
    /\ given < Len(scenario.text)
    /\ out' = Append(out, scenario.text[given + 1])
    /\ given' = given + 1
    /\ UNCHANGED <<scenario, files, starts, present, running, drained, screenVars, poll,
                   histVars>>

\* The file is set aside with a chunk in hand for the next one.
Rotates ==
    /\ Settled /\ Size > 0 /\ ~drained
    /\ files <= scenario.rotations /\ given < Len(scenario.text)
    /\ present' = FALSE
    /\ UNCHANGED <<scenario, out, given, files, starts, running, drained, screenVars, poll,
                   histVars>>

\* The child ends and its waiter says so, and the collector, later, ends too.
Ends ==
    /\ \/ running /\ running' = FALSE /\ UNCHANGED drained
       \/ ~running /\ ~drained /\ Settled /\ drained' = TRUE /\ UNCHANGED running
    /\ UNCHANGED <<scenario, out, given, files, starts, present, screenVars, poll, histVars>>

-----------------------------------------------------------------------------
(* The reader.                                                             *)

EndsLine(byte) == byte \in {"newline", "header"}

\* advanceToLineStart
LineStart(pos) ==
    LET after == {p \in pos + 1..Min({Size, pos + ScanLimit}) : EndsLine(At(p - 1))}
    IN  IF EndsLine(At(pos - 1)) \/ after = {} THEN pos ELSE Min(after)

TailStart == IF Size <= TailWindow THEN 0 ELSE LineStart(Size - TailWindow)

ResolveStart(ask) == IF ask = NoOffset \/ ask > Size THEN TailStart ELSE ask

BugEnd(from) == from + ResponseMax
\* Where a read ends, for an offset inside the file.
End(from) == Min({Size, from + ResponseMax})

\* decodeUTF8 refuses a continuation without its lead, and a lead without its
\* continuation unless it is the last byte.
Malformed(data) ==
    \/ data[1] = "rest"
    \/ \E k \in 1..Len(data) - 1 : (data[k] = "lead") # (data[k + 1] = "rest")

\* Decode leaves a character that is not finished to the next query; what is
\* not text is replaced, and consumed.
Consumed(data) ==
    IF ~Malformed(data) /\ data[Len(data)] = "lead" THEN Len(data) - 1 ELSE Len(data)

BugFinal == FALSE
BugAlwaysFinal == TRUE
\* The status is read after the file.
Final == ~running

\* There is no file, or it is there and its open or its stat is refused: the
\* answer is the same.
NoAnswer(p) ==
    /\ \/ ~present /\ UNCHANGED starts
       \/ /\ present /\ Len(starts) - files < scenario.refusals
          /\ starts' = Append(starts, Base)
    /\ poll' = [poll EXCEPT ![p] = [step |-> "answered", place |-> @.place,
                                    view |-> [NoFile EXCEPT !.file = 2 * Len(starts)]]]

FileAnswer(p) ==
    LET from == ResolveStart(poll[p].ask)
        to == End(from)
    IN
    /\ present
    /\ poll' = [poll EXCEPT ![p] =
          [step |-> IF from < to THEN "read" ELSE "answered", place |-> @.place,
           view |-> [base |-> Base, from |-> from, to |-> to, next |-> from,
                     reset |-> @.ask > Size, truncated |-> from < to /\ to < Size,
                     file |-> 2 * Len(starts) - 1]]]
    /\ UNCHANGED starts

\* ReadLog up to its read of the file; what is in a file does not change, so
\* its open, stat and reads are one step.
ReadFile(p) ==
    /\ poll[p].step = "sent"
    /\ NoAnswer(p) \/ FileAnswer(p)
    /\ UNCHANGED <<childVars, screenVars, histVars>>

\* The rest of ReadLog: what nobody will finish is replaced.
Decodes(p) ==
    LET view == poll[p].view
        data == SubSeq(out, view.base + view.from + 1, view.base + view.to)
        gaveUp == Consumed(data) = 0 /\ Final
    IN
    /\ poll[p].step = "read"
    /\ poll' = [poll EXCEPT
          ![p].step = "answered",
          ![p].view.next =
              view.from + (IF gaveUp THEN Len(data) ELSE Consumed(data))]
    /\ raced' = (raced \/ (gaveUp /\ ~running
                           /\ (~drained \/ Len(out) > view.base + view.to)))
    /\ UNCHANGED <<logVars, screenVars, place, crossed, lost>>

-----------------------------------------------------------------------------
(* The screen.                                                             *)

\* pollLog, by the timer or a button.
Send(p) ==
    /\ poll[p] = Idle
    /\ poll' = [poll EXCEPT ![p] = [step |-> "sent", ask |-> offset, place |-> place]]

Timer ==
    /\ ~paused /\ link = "up"
    /\ \E p \in Polls : Send(p)
    /\ UNCHANGED <<logVars, screenVars, histVars>>

\* The poll after a run, a stop or a restart, or of startLogStream, is not held up
\* by a pause or a broken connection; otherwise it is as good as the timer's.
Forced ==
    /\ (paused /\ link = "up") \/ link = "down"
    /\ \E p \in Polls : Send(p)
    /\ UNCHANGED <<logVars, screenVars, histVars>>

\* "Load more"
More ==
    /\ paused
    /\ paused' = FALSE
    /\ IF link = "refused" THEN UNCHANGED poll ELSE \E p \in Polls : Send(p)
    /\ UNCHANGED <<logVars, offset, shown, link, histVars>>

\* markOnline, by the list of processes, which is polled apart.
Reconnects ==
    /\ link = "down"
    /\ link' = "up"
    /\ UNCHANGED <<logVars, offset, shown, paused, poll, histVars>>

\* The entry is selected, or "From the start" pressed; the poll of
\* startLogStream is then one of the timer's.
NewStream ==
    /\ place[1] < scenario.streams
    /\ offset' \in {NoOffset, 0}
    /\ shown' = {} /\ paused' = FALSE
    /\ place' = <<place[1] + 1, 0>>
    /\ UNCHANGED <<logVars, link, poll, crossed, raced, lost>>

BugFollowing(view) == view.to
\* The next poll goes on after what was decoded, not after what was read.
Following(view) == view.next

Span(view) == [file |-> view.file, from |-> view.base + view.from,
               to |-> view.base + view.next]

\* The answer is applied whatever the screen shows by now, as long as the same
\* entry is selected.
Apply(p) ==
    LET view == poll[p].view IN
    /\ poll[p].step = "answered"
    /\ shown' = (IF view.reset THEN {} ELSE shown)
                    \cup {s \in {Span(view)} : s.from < s.to}
    /\ offset' = Following(view)
    /\ paused' = (paused \/ view.truncated)
    /\ link' = IF link = "down" THEN "up" ELSE link
    /\ crossed' = (crossed \/ poll[p].place # place)
    /\ place' = <<place[1], view.file>>
    /\ poll' = [poll EXCEPT ![p] = Idle]
    /\ UNCHANGED <<logVars, raced, lost>>

\* The connection breaks, or the answer is an error; one that asks for a token
\* stops the timer for good.
Lose(p) ==
    /\ poll[p] # Idle
    /\ lost < scenario.losses
    /\ lost' = lost + 1
    /\ link' \in {link} \cup (IF link = "refused" THEN {} ELSE {"down", "refused"})
    /\ poll' = [poll EXCEPT ![p] = Idle]
    /\ UNCHANGED <<logVars, offset, shown, paused, place, crossed, raced>>

Query(p) == ReadFile(p) \/ Decodes(p) \/ Apply(p)

Next ==
    \/ Creates \/ WritesHeader \/ Writes \/ Rotates \/ Ends
    \/ Timer \/ Forced \/ More \/ Reconnects \/ NewStream
    \/ \E p \in Polls : Query(p) \/ Lose(p)

\* The timer ticks and queries are answered; the child and the user do as they
\* please.
Spec ==
    /\ Init /\ [][Next]_vars
    /\ WF_vars(Timer)
    /\ \A p \in Polls : WF_vars(Query(p))

-----------------------------------------------------------------------------
(* Properties.                                                             *)

Offsets == 0..Len(scenario.text) + scenario.rotations
Sights == 0..2 * (scenario.rotations + scenario.refusals) + 2
View == [base : Offsets, from : Offsets, to : Offsets, next : Offsets,
         reset : BOOLEAN, truncated : BOOLEAN, file : Sights]
Place == (1..scenario.streams) \X Sights

\* Every variable has its type, and no view reaches past what was written.
TypeOK ==
    /\ scenario \in Scenarios /\ out \in Seq(Stored) /\ Len(out) \in Offsets
    /\ given \in 0..Len(scenario.text) /\ files \in 0..scenario.rotations + 1
    /\ starts \in Seq(Offsets) /\ (present => starts # << >>)
    /\ link \in {"up", "down", "refused"}
    /\ {present, running, drained, paused, crossed, raced} \subseteq BOOLEAN
    /\ offset \in {NoOffset} \cup Offsets
    /\ \A s \in shown : s.from < s.to /\ s.to <= Len(out)
    /\ place \in Place /\ lost \in 0..scenario.losses
    /\ \A p \in Polls :
          poll[p] \in {Idle}
             \cup [step : {"sent"}, ask : {NoOffset} \cup Offsets, place : Place]
             \cup {q \in [step : {"read", "answered"}, view : View, place : Place] :
                     q.view.base + q.view.to <= Len(out)}

Covered == UNION {s.from + 1..s.to : s \in shown}

\* Of a file the screen shows one stretch, however many polls are under way at once:
\* from where it began in it, no byte is passed over.  An empty answer sends it back
\* to the beginning, where another stretch begins.  An answer that was asked for
\* before the screen was cleared or moved on to another file may be applied after
\* it (crossed); and where a stretch begins is not said: after a rotation that went
\* unnoticed it is where the screen stood in the file before.
OneStretch ==
    ~crossed => \A s, t \in shown : s.file = t.file => s.to + 1..t.from \subseteq Covered

\* A place inside a character.
Inside(pos) == pos \in 1..Len(out) - 1 /\ out[pos] = "lead" /\ out[pos + 1] = "rest"
\* A rotation came between the two halves of a character, and the second is read.
Torn(from, to) ==
    \E k \in from + 1..to : out[k] = "rest" /\ (k = 1 \/ out[k - 1] # "lead")

\* What the child writes is UTF-8, but perhaps for its last character.
Utf8 ==
    \A k \in 1..Len(scenario.text) - 1 :
        scenario.text[k] = "lead" => scenario.text[k + 1] = "rest"

\* A character the child wrote whole is shown whole: no answer ends inside one,
\* were it capped, cut off by the end of the file so far, or the last before the
\* child ended.  Only an answer that begins inside one may - in a line too long to
\* find the beginning of, or where a rotation was not noticed - or one that begins
\* with the half a rotation left over.  Of text that is not UTF-8 whatever was read
\* is replaced and passed over.
WholeCharacters ==
    Utf8 /\ ~raced => \A s \in shown :
        ~Inside(s.from) /\ ~Torn(s.from, s.to) => ~Inside(s.to)

AtEnd == starts = << >> \/ offset = Size

\* Once the log has come to its end the screen does too, or says that there is
\* more to load or that it is cut off: an unfinished character does not hold it up
\* for ever, nor does a rotation leave it waiting for an offset that no longer comes.
ScreenReachesEnd == [](drained => <>[](AtEnd \/ paused \/ link # "up"))
=============================================================================
