# SpawnPoint: formal models and proofs

SpawnPoint is a Go server that keeps a registry of commands, runs them as child
processes, collects their output, and hands out identified "instances" over
HTTP. It runs as a Windows service or in a console, and on POSIX in the
foreground. This directory holds TLA+ modules that model it, TLC configurations
that check them on small instances, and TLAPS proofs about them for every value
of the constants.

Paths below are relative to the repository.

## The system

| component | state | operations | hard behaviour | what makes it correct | module |
|---|---|---|---|---|---|
| runner manager (`internal/runner/manager.go`, `entry.go`, `autostart.go`) | map of entries; per entry a registration half and a live half (status, pid, exit code, stop flag, group handle, run number); `opMu` and `mu` of each entry, `m.mu`, `autoStartMu` | Register, RegisterOnly, Update, Run, Stop, Restart, Delete, Restore, AutoStart, StopChildren, StopCollectors, CloseServerJob, the waiter of each child | requests, waiters, boot and shutdown interleave; a child may ignore its signal or die at any point; store writes happen outside the locks | one process per entry, nothing leaked, status and exit code of the latest run, store and memory agree, no child outlives the server, everything returns | `Manager`, `RunSlot` |
| process groups (`internal/jobs`) | job objects on Windows, process group ids on POSIX | New, Assign, Terminate, Kill, TerminateTree, Close | creation may be refused; closing kills the members | a group is released once, by one party | in `Manager` |
| child log collector (`internal/runner/collect.go`) | an open file, its size, the archives | write, rotate, marker, drain | a file system that fails between two calls; collectors of two runs; Windows refuses to rename an open file | output stays in order; none is lost but the oldest, what a failure loses, which is on record, and what an archive that cannot be moved costs, which is not; no pipe is left to fill | `ChildLog` |
| operations log (`internal/opslog`) | file, size, records written once, the latest write error | Log, Once, rotation, Close | a rotation that fails half way | records in order, and without a gap unless there is an error to show or an archive could not be moved | `OpsLog` |
| log reader and screen (`logread.go`, `internal/textdec`, `httpapi/logs.go`, `internal/webui`) | the reader has none; the page keeps an offset and a text | a query by offset or for the tail; poll, Load more, From the start | polls that overlap, a cap or an end inside a character, a rotation between two polls, a log that cannot be opened, a broken connection | one stretch of each file without a gap, characters whole, the page comes to the end | `LogScreen` |
| issuer (`internal/issuer`) | none of its own: the instance and sequence tables | Issue | several requests on one database, identifier collisions, the deduplication window, the daily limit | an identifier is given once; one instance per key and window; every request is answered | `Issuer` |
| store (`internal/store`) and scripts (`internal/dialect`) | SQLite tables, the history of migrations | Open, Migrate, Validate; NextSeq, Insert, FindActiveByKey, SaveEntry, DeleteEntry, ListEntries | crashes between two statements; two servers of different builds on one database | a migration is in effect whole and once, in order | `Boot`; entry rows in `Manager`, instances in `Issuer` |
| SQL splitter (`internal/sqlsplit`) | none | Statements, HasExecutableSQL, BareBegin | comments, quotes and doubled quotes inside statements | the statements SQL sees | `SqlSplit` |
| HTTP API (`internal/httpapi`) | the stopping flag; connections | routing, authentication, bodies, validation, handlers | requests and bodies under way during a shutdown; two places that check limits | refusals in order, what is accepted can be stored, no connection holds a shutdown up | `Http` |
| lifecycle (`internal/lifecycle`) | `once`, `stop`, `done`, the exit code | Startup, Serve, Shutdown | several events and a panic at once, also during startup; a stage of startup fails | one sequence, in order, to its end; one exit code; always an end | `Lifecycle` |
| hosts (`internal/host`) | service status, exit code | Run, signal, console and service handlers | handlers run on foreign threads | every event ends in Shutdown | callers in `Lifecycle` |
| wiring (`cmd/spawnpoint/main.go`) | the store handle, the listener, the HTTP server | open, migrate, close, bind, serve, stopAccepting, waitInflight | hooks of startup and of shutdown on two goroutines | nothing left open, nothing accepted after the stop | `Lifecycle`, `Manager`, `Http` |
| configuration, time format, API description, `tools/exitprobe` | none that changes | parsing, formatting, static content | none | | not modelled |

How they interact: `main` builds everything and gives it to `lifecycle.Server`
as hooks. The host calls Startup and then Serve on the main goroutine and
Shutdown from event handlers. HTTP handlers call the manager and the issuer on
goroutines of their own. The manager writes each registration through the
wiring's `database` to the store, starts children in groups of `jobs`, and has
for each child one waiter goroutine, which reports the end back under `e.mu`, and
one collector goroutine, which drains its pipe into the entry's log. Collectors
write their troubles and rotations to the operations log. The issuer only talks
to the store. The page polls the log reader through the HTTP API.

`PROJECT.json` lists the hazards of this code line by line, each with the
properties that would notice it going wrong.

## Modules

    RunSlot <- Manager <- ManagerProofs <- PoliteProofs
    Lifecycle <- LifecycleProofs      Issuer <- IssuerProofs
    OpsLog <- ChildLog <- ChildLogProofs
    LogScreen <- LogScreenProofs      SqlSplit <- Boot <- BootProofs
    Http <- HttpProofs

An MC module adds what one instance for TLC needs. Definitions that begin with
`Bug` are defects that the code does not have; they are used nowhere, and stand
next to the definition they are variants of, to try whether a property notices.

### Manager

An actor is a request handler, or the goroutine that StopChildren starts for an
entry (it bears the entry's name). `pc` and `loc` hold where each actor is and
its local variables; a step is what happens under `e.mu`, or one call to the
store, the operating system or a channel. `opMu` is explicit.

- `Begins`, `BeginRegister`, `BeginCall`: a request looks its entry up or makes
  it under `m.mu` (`register`, `entry`).
- `Edit`, `Snapshot`, `Save`: Update under `e.mu`; `persist` copies the row under
  `e.mu` and writes it after giving the lock up. A version number stands for the
  registration half.
- `RegisterStart`: the start at the end of Register, under `e.mu` but not `opMu`.
- `Lock`, `SpawnStep`, `Return`: Run, Restart, Stop and Delete under `opMu`.
- `Spawn`: `spawn`, with `contain` and `serverGroup`. A start fails, or makes run
  `gen + 1` with a process, a waiter, and a child group unless job objects are
  off or refused.
- `StopBegin`, `Terminate`, `AwaitExit`, `ForceStop`, `Release`, `Finish`:
  `stopChild`, with its two bounded waits.
- `Unmap`, `DeleteRow`, `RemoveLogs`: Delete. The removal of a log may be refused,
  which the code only counts.
- `Rotate`, `CollectorEnds`: as far as a deletion is concerned with them, the
  collectors that stopChild gave up waiting for. One that rotates creates the log
  of a deleted entry anew. `leftLogs` remembers the two ways in which a log may
  outlive its entry.
- `Die`, `Record`, `CloseExited`: a process ends, its waiter records the end, and
  closes `exited` after it gave `e.mu` up.
- `Restore`, `AutoStart`, `AutoStartEnds`: the boot hooks.
- `RequestShutdown`, `StopChildren`, `SweepEntry`, `SweepEnds`, `CloseDatabase`,
  `CloseServerJob`, `Exit`: the shutdown hooks that touch children.

An entry's pid, group handle and `exited` channel are represented by the number
of the run they were made for; 0 is nil. An element of `Ids` is one entry object, and
so is used once; `newID` looks only at the entries there are (manager.go:836-852),
and may in principle draw the identifier of a deleted one again (32 random bits),
which the model leaves out. A group that was told to kill turns
its members from `up` to `doomed`: they will end, with a code other than zero.

`RunSlot` is what the manager promises about runs: an entry has one slot, a run
takes the free slot with one new process and a higher number, and the slot is
given back only after that process ended or cannot survive. `ImplementsRunSlot`
is the refinement of it by `Manager`, with the slot mapped to "status is running".

### Issuer

One goroutine per `POST /spawn`. Every database call is a step (`NextSeq` is one
because it is a transaction): `Begin`, `Find` (both lookups), `NextSeq`,
`Insert`, `Retry`. The tail of an identifier has a fixed number of digits, so
the identifier is the triple of day, number and tail it is printed from. `rows`
is the `spawn_instance` table and `lastSeq` is `spawn_daily_seq`. `Tick` advances
the clock; `now` is read once per request, as in the code.

### Lifecycle

The main goroutine (`Main`) and one goroutine per event (`Callers`). Hook calls
are steps. `Startup` goes through the five stages and unwinds on failure;
`AutoStart`, `FrontEnd`, `ServeReturns` are the Serve hook and the wait after it;
`Panic` is a panic of the Serve hook. `Event`, `Enter`, `Hook`, `Finish`,
`ShutdownReturns` are `Server.shutdown` and `run`; a terminal event (console
close, logoff) ends the process when its handler returns. `server` tells apart
an `http.Server` that is new, serving or shut down, because one that was shut
down before it was started refuses to serve.

`early` remembers that the shutdown began before Startup was over. Nothing in
Startup looks at the stop channel, so then Startup runs on against a sequence
that closes things under it: it may fail on the closed database and end the
process with 1 in the middle of the sequence, or open the database and bind the
listener after the hooks that close them (`stopAccepting` returns when there is
no listener yet, main.go:325). The model has these behaviours, and the properties
about the end of the process say what is left of them: an end in the middle of
the sequence is a failed start (`NoExitBeforeDone`, `ExitCodeIsOfFirst`), and such
a failed start has released what it opened (`ReleasedAtExit`). What is given up
then is that a process that ends normally has closed everything, and
`NothingAcceptedAfterStop`, which is stated for shutdowns that are not early.

### OpsLog and ChildLog

`OpsLog` is the one operations log. Every call of the logger holds its lock from
the first test to the last write, so `Log`, `Once` and `OpsClose` are one step
each, with the rotation a write may begin with (`OpsWrite`). A record is its
number; a file is a sequence of them; slot 0 is the path, slot n the archive
`.n`. Moving the archives, renaming the file, reopening and writing may fail, each
in its own way. Whatever set of archives is stuck (`Sticking`), `Shifted` moves the
others up over what is in their way, as the code does, and sets no error;
`opsStuck` remembers it.

`ChildLog` extends it with the collectors of one entry's runs, on the same
variables: what a collector reports goes through `Once` and `Log`. `dir` says
which file each name stands for and `fd` which file a collector holds, so a
collector that was abandoned at its drain timeout goes on writing into a file
that another one has renamed. Every file system call is a step: `Close`,
`RemoveOldest`, `Shift` (one archive at a time), `Aside`, `Reopen`, `Header`,
`Tell`, `Put` are `write` and `rotate`. The oldest archive may refuse to be removed
and any other to be renamed; the rotation goes on, as in the code, and the next
file is moved over the one that stayed. `refused` remembers whether an archive or
the path was refused. `EndOfStream` and `ReadFails` are the two ends of the loop; a
pipe that fails is given up (`unreadable`) although a child may hold it.
`WriteMarker`, `StartFails` and `StartCollector` are `spawn` as far as the log is
concerned; the open of a marker and its write may each fail. `ChildEnds` may leave
the write end of the pipe with a descendant. A chunk is one read, one unit long.

### LogScreen

What was ever written is one sequence, cut into files where the collector rotated.
A rotation is three steps: `Rotates` sets the file aside, `Creates` makes the next
one and `WritesHeader` begins it with a header, which is a line of one byte here.
The poller of the page is a timer that does not wait for its answers,
so `Polls` queries may be under way at once and are answered in any order. A
query is `Timer`, `Forced` or `More` (with the page's offset of that moment),
`ReadFile` (open, stat, `resolveStart`, the read; or `NoAnswer`, when there is no file
or it is refused), `Decodes` (the status of the entry is asked after the
file was read, as in the code), `Apply`. `NewStream` is the selection of an entry
and the button "From the start"; `More` is "Load more"; `Forced` is the poll that
follows a run, stop or restart, or a new stream, and goes out while the page is
paused or offline. `Lose` is an answer that does not come, or an error: `link` is then
down until another answer or the list of processes comes through (`Reconnects`), or,
after a 401, refused for good. Bytes are letters, newlines, and the two halves of a
character.

An empty answer sends the page back to offset 0 without a reset. When the file was
there and could not be read, the page goes on to show it from its beginning after
what it shows already. In the model such a file counts as another from then on
(`starts` has its beginning twice), so that `OneStretch` speaks of one stretch of a
file between two such answers.

`crossed` and `raced` are history. `crossed`: an answer was applied that had been
asked for from another place than the page stood in by then. The page checks
the entry (index.html:745) but not the stream or the offset it asked with, so
after "From the start", or after another answer moved it on, it applies an
answer to another question. `raced`: a stalled character was given up because
the entry was read as ended although the file went on after it had been read.

### SqlSplit and Boot

`SqlSplit` has the loops of `Statements` and `stripComments`: `Turn` is one turn of
them at a character, with the next one in view, and `Scan` is all of them. Beside
it is how SQL reads the same text: a token begins where the one before it ended,
and each kind has places where it may end (`Ends`, `Tokens`, `SqlStatements`,
`SqlBegin`).

`Boot` starts servers on one database. `Validate` refuses a defective build,
`Open`, `EnsureTable`, `ReadHistory`, `NextScript`, `Execute` (one statement in the
transaction), `RecordHistory` and `Commit` are `Migrate` and `applyOne`. `Fails` is a
crash or any failure of a step; `Busy` is the busy timeout against another
writer; `Overtaken` is a script that the other server applied meanwhile. A server
that went down is started again with any build (the service manager does it),
but not one that was refused.

### Http

Each connection is kept alive and serves one request after another: `Receive`,
`Dispatch` (the refusals of `ServeHTTP` in their order), `ReadBody` (reading,
decoding and the checks of `validateRegistration` and `validateSpawn`), `Call`
(`Register`, `Update`, `Delete`, `Item`, `Spawn`, `Content`), `Reply`. What a call
does in the runner is in `Manager`; here it writes a row, which the constraints
of the schema may refuse. `StopAccepting`, `StartWait`, `BudgetEnds` and
`CloseIdle` are the shutdown as connections see it. A text is its length and the
length of its first word, because a registration without a label is named by
that word.

## Runs

All runs are exhaustive. Model values and bounds are in the `.cfg` files.

| run | configuration | properties | what it shows |
|---|---|---|---|
| polite | one entry that may be restored or registered, two clients, two starts, two versions, faults of the store, of job objects and of the removal of logs, collectors that outlive their run, shutdown at any moment | TypeOK, OneProcess, GroupsReleased, StoreMatches, DeletedLeavesNothing, NoSurvivors, ImplementsRunSlot | as long as no registration, edit or deletion of an entry overlaps another call on it, the manager keeps all its promises; a log outlives a deletion only if its removal was refused or a collector was still at work on it |
| any | one entry, two clients, two starts, without that courtesy: deletions that overlap a start too, and handlers that are as late as the shutdown lets them be | RunningIsOwned, OutcomeIsOfLatestRun, StopperOwnsGroup | what holds however calls overlap |
| shutdown | one auto-started entry with two callers and two runs, or two with one caller and a run each; shutdown at any moment, under fairness | OperationsReturn, DeathIsNoticed, ShutdownEnds | nobody waits for ever |
| issuer | two clients, one key, two tails, window and days of two ticks, two numbers a day, three retries, failing database; one identifier taken beforehand | TypeOK, NumbersAreUnique, OnePerWindow, RequestsAnswered | numbers are given once; deduplication is right for requests that do not overlap; every request is answered |
| lifecycle | three events, one of them terminal, a panic, any startup stage failing | TypeOK, SequenceInOrder, NoExitBeforeDone, ExitCodeIsOfFirst, ReleasedAtExit, NothingAcceptedAfterStop, EventsEndTheProcess | one sequence, to its end, with one exit code |
| child_log | two runs, three chunks (four where archives cannot be moved), pipes of one, files of three, two archives, a log left by an earlier server or none, both platforms, eight kinds of fault | TypeOK, RecordsKept, WindowKept, ArchivesKept, LossIsOnRecord, PipesAreDrained | output stays in order, and is lost only by being old, to a failure that is on record, or to an archive that could not be moved; children never wait for a pipe nobody drains, but for one that cannot be read, which is on record |
| log_screen | two polls, nine scenarios of two to four bytes with a rotation and its header, a second stream, a lost answer, a refused file or a byte that is not UTF-8; tail and cap of two bytes | TypeOK, OneStretch, WholeCharacters, ScreenReachesEnd | the page shows of each file one stretch, in whole characters, and comes to the end or says why not |
| boot | every text of up to six characters over several small alphabets; two servers, two or three scripts, two failures | SplitsLikeSql, SchemaMatchesHistory, MigratedMeansApplied, EveryServerSettles | the splitter reads as SQL does; migrations survive crashes and a second server |
| http | two connections, 21 requests of every kind and with every refusal, one failing write, shutdown at any moment | GivenIsStorable, ConnectionsLeave | what passes the checks fits the schema; no caller holds a shutdown up |

Three more runs each exhibit a behaviour that a comment, a test or a document of
the repository rules out:

| run | property | behaviour |
|---|---|---|
| double_start | OneProcess | `register` publishes the entry before it starts it, and starts it without `opMu` and without looking at its status: a Run in between leaves two processes |
| duplicate | OnePerWindow | two overlapping requests of one key both insert an instance |
| unstorable | AcceptedIsStorable | a registration without a label is named by the first word of its command, which may be longer than the schema allows: it is started, and its row is refused |

Other behaviours that the models have and no run is spent on:

- Run does not look the entry up again after it waited for `opMu`
  (manager.go:312), so it starts a process for an entry deleted meanwhile.
- `persist` writes outside the lock (manager.go:290-303), so two edits of one
  entry may reach the store in the other order.
- `serverGroup` makes no group after CloseServerJob (manager.go:628): a
  registration still in its save when the grace period ends starts a process
  that outlives the server. The three of them need overlapping calls, or
  requests that outlive the grace period; run "polite" excludes these.
- Delete goes on when a log cannot be removed (manager.go:243-247), and a collector
  that stopChild gave up waiting for may create the log of a deleted entry anew by
  rotating it; the answer is the same. src/README.md:189 says "HTTP 200 means the
  process was stopped and the in-memory registration and logs were removed".
  `DeletedLeavesNothing` says that these two are the only ways.
- A rotation moves the archives up before it tries to set the file aside
  (collect.go:188-198). When Windows refuses that rename, the archives have moved
  for nothing, and the oldest of them is gone: `ArchivesKept` is stated for
  behaviours without a refused rename.
- Nor does it look at what becomes of the archives (collect.go:180-186). When one
  cannot be renamed, the next file is moved over it: output is gone that is newer
  than some that stays, and nothing says so, although collect.go:168-172 calls
  losing output because a rename failed the wrong trade. `WindowKept` keeps its order
  then but not its window.
- The same in the operations log (opslog.go:234-240): a record in the middle is gone
  and `Err` is nil, although opslog.go:242-243 calls a stalled rotation preferable to
  a silent gap. `RecordsKept` is stated for behaviours in which no archive was stuck
  but the oldest (`opsStuck`).
- A log that cannot be opened is answered like one that is not there
  (logread.go:67-78). The page goes back to offset 0 without clearing and shows the
  file from its beginning again, below what it shows already.
- A page whose offset lies within the next file after a rotation goes on from there:
  it never shows the head of that file, the header included, which
  collect.go:220-222 calls the only thing that tells that reader of the rotation.
  `OneStretch` does not say where a stretch begins.
- `Statements` takes the star that opens a comment for one that may close it, so
  that `/*/` is a whole comment to it and the beginning of one to SQL:
  `SplitsLikeSql` leaves texts with it out (`ShortComment`).

### Bounds, and why they are enough

`Manager`: two clients and the shutdown's goroutine are three actors on one entry,
and every race found needs at most two. Entries share only the server group, `m.mu`
and the `noChildJobs` flag; two entries are there for the sweep that waits for
several. Run "shutdown" therefore has either one entry, with two callers who contend
for `opMu` and a second run that may start before the first one's waiter is done, or
two entries with one caller and one run each (`SmallEnough`, in `MCManager`): both
at once are out of reach of the liveness check. The bound forbids calls, which
nobody owes, and starts that succeed, as any may fail: what fairness demands stays
possible. Two starts let a waiter be late for an earlier run; an entry has no more
history than its latest run and the waiters of the runs before it. Two versions tell
a stale row from a current one. `any` leaves edits and the faults of the store and
of job objects out to end in minutes; the theorems below cover them. `MaxGen` and
`MaxVersion` are bounds of the model, not of the code; at `MaxGen` starts fail,
which they may anyway.

`Issuer`: days and window of two ticks on a clock of three put requests on both
sides of midnight and of the boundary, and one taken identifier with two tails
lets a request meet one to four collisions. `Lifecycle`: three callers make a
first, a waiting and a terminal one.

`ChildLog`: a file takes two chunks besides its header, so three chunks after a
file an earlier server left rotate it more than once, reach the oldest archive
and start a second run in a file half full. Only an archive that is stuck takes a
fourth chunk before it leaves a gap, which children write where archives may be stuck
(`MCSpec`). A behaviour has one kind of fault
(`Faults`, paired with a platform in `Settings`), which may strike any number of
times: each kind has a path of its own out of `rotate`, and each property would
have to be excused for the others anyway. Collectors of two runs meet only
without faults (`Meeting`). `Records` is one record of the rest of the server,
enough to rotate the operations log between two of the collector's.

`LogScreen`: a cap of two bytes falls inside a character, at its end and before it;
two polls are the least that can be answered in the other order. Each of
`Scenarios` fixes a text and what may happen to it, since their product is out of
reach: rotations, streams, losses and refusals are at most one. The run does not
check deadlock: a page that was told it needs a token polls no more.

`Boot`: a script matters by the order of its statements and by how many there are
(one or two), a history by which scripts it has; two failures cover a failed
start and a failed retry. The splitter's state depends on a mode and on one
character of lookahead; six characters open, double and close every mode and
leave a statement on either side.

`Http`: `Requests` has texts and numbers at each limit and one beyond it, and each
refusal once. Requests with a body are refused independently of what other
connections do, so two connections are enough for an entry to be deleted between
the checks of a request and its call. `Further` stands for identifiers beyond
`Ids`, which requests never name.

### Fairness

`Manager`: goroutines run (`WF` of each actor's steps, of waiters, of the boot and
shutdown goroutine), `sync.Mutex` starves nobody (`SF` of `Lock`: its starvation
mode hands the lock over), a timer fires (part of an actor's steps), and a
process that was killed ends. Nothing is assumed of clients, of signals, nor
of a process nobody killed: it may run for ever. `ShutdownEnds` is checked with
`Drains`: requests in flight end by themselves and StopChildren waits for them.
When the grace period ends first StopChildren starts earlier, with fewer
conditions.

`Issuer`: a goroutine that serves a request runs. `Lifecycle`: goroutines run and
hooks return, which they do by their time limits or because they only close
things; events and panics need not happen. `LogScreen`: the page's interval timer
ticks, and a query that was sent is read, decoded and applied unless it is lost;
the child, the rotation and the user do as they please. `Boot`: a server's
goroutine runs, and the service manager starts a server that went down.
Failures are finitely many, or nobody would ever settle. `Http`: handlers run,
`http.Server.Shutdown` looks for idle connections and its context expires, the
shutdown goroutine goes on; the rest of a body is waited for only on a
connection that was closed, where the read fails. `ChildLog` states no fairness:
its properties are about safety, `PipesAreDrained` too, which says that the
reader is there and leaves it to the runtime to schedule it.

## Proofs

Every theorem is of the form `Spec => []P` or a refinement, for any values of the
constants that satisfy the module's assumption, and rests on an inductive
invariant that TLC checked before. Each action has a lemma, or a step, for the
part of the invariant that it can disturb; "quiet" lemmas deal with the others.

`ManagerProofs`, for any sets of entries and clients, any bounds, whatever the
clients do and whatever fails:

- `TypeCorrect`: `TypeOK`
- `RunningOwned`: an entry that says running has a waiter, or a stop of that very
  run, that will take it out of that status
- `OutcomeCorrect`: exit code and status are those of the latest run
- `GroupOwned`: the group a stop captured stays open until that stop releases it
- `OneLockedOperation`: at most one actor is inside the locked part of an
  operation on an entry

None of the three run properties is inductive. The argument: the stop that
captured a run clears its status only while that run is the latest, which takes
the lock (`LockInv`: whoever is in the locked part holds `opMu`), at most one
sweep goroutine per entry (`SweepInv`), and that the captured run is never newer
than the entry's (`StopperInv`). That the stop flag decides who closes the
group needs `JobInv`: an entry's group is its latest run's and open until a stop
is requested. That the exit code is the latest run's needs `ExitInv`: it is there
only once that run's waiter recorded it. `BootInv` says that nothing happens
before Restore, which clears the live halves.

`PoliteProofs` adds the properties of run "polite", from `Polite` and `Drains`, on
top of that invariant: `OneProcessOnly` (`OneProcess`), `GroupsGivenBack`
(`GroupsReleased`), `StoreAgrees` (`StoreMatches`), `DeletedIsGone`
(`DeletedLeavesNothing`), `NoneSurvives` (`NoSurvivors`) and `ImplementsSlot`: the
manager implements `RunSlot`, with initial states and every step mapped. The
argument is in `SlotInv`: the only processes that may live on, and the only open
groups, are those of the run an entry shows. It is kept because a start happens
only where nobody runs (`Vacant`), for which actors are on the steps of their
own operations (`ActorInv`), alone with an entry they register, edit or delete
(`CourtesyInv`), and because a stop ends only when its process is dead or
beyond escape (`StopInv`, with `WaiterInv`). `StoreInv` and `LogInv` say which write
is still to come, and `CloseInv` that StopChildren misses nobody.

`LifecycleProofs`, for any callers: `TypeCorrect`, `InSequence` (`SequenceInOrder`),
`EndsComplete` (`NoExitBeforeDone`), `CodeOfFirst` (`ExitCodeIsOfFirst`),
`NothingLeftOpen` (`ReleasedAtExit`), `AcceptsNothing` (`NothingAcceptedAfterStop`).
`OnceInv` is `sync.Once`: one actor runs the sequence, with its own exit code.
`TraceInv`: what was called is what comes before the next hook. `ClosedInv`: what
the hooks closed stays closed, for which `StartInv` keeps Startup's opening steps
before a shutdown that is not early; `ExitInv` that what ended the process before
the sequence was over is a failed start that has released what it opened.

`IssuerProofs`: `TypeCorrect`, `UniqueNumbers` (`NumbersAreUnique`) for any number of
concurrent requests, and `WindowApart` (`OnePerWindow`) when requests of one key do
not overlap. A request at work has a number of its own, taken from the sequence
(`TakenInv`, `ApartInv`), and what it looked up still stands (`AloneInv`).

`ChildLogProofs`, for any number of runs, archives and chunks, on either platform
and with any faults of the files:

- `NobodyIsStuck` (`PipesAreDrained`), inductive with the types it speaks of
  (`DrainInv`); a pipe that could not be read has been put on record
- `TypesOfCollectors` (`TypeOK`). `TInv` says what the types rest on: no file has two
  names, and what a collector has in hand at each of its steps. That an inode is
  free for every file that is created is a pigeonhole argument: there are more
  of them than names, open files and queries
- `ArchivesAreKept` (`ArchivesKept`), as long as collectors have not met and no
  rename of the file or of an archive was refused; the removal of the oldest may
  be. `AInv` states for each stage of a rotation which slots are full, and that one
  collector is at work (`OneInv`)
- `RecordsAreKept` (`RecordsKept`). That the files hold the records in their order
  is kept whatever fails (`OrderInv`). Until an archive was stuck or an error is to
  be shown, the operations log has some number `a` of archives, each of them full
  (`Shape`), and what they hold in their order is the latest records (`Recorded`).
  The property is about the contents of the files one after the other: the lemmas
  take `FlattenSeq` apart one file at a time, and a claim about the first `m` files
  follows from finite sets being well-founded (`UpTo`), not from an induction
  principle over operators
- `LossesAreOnRecord` (`LossIsOnRecord`), from that and `LossInv`: whatever makes a
  collector go on without a file has been told to the operations log, so that
  what it drops from then on needs no record of its own
- `WindowIsKept` (`WindowKept`), as long as collectors have not met: the order
  whatever was refused, the window until a rename of an archive is. The chunk in
  hand and those in the pipe are the latest ones, consecutively (`QueueInv`); the
  open file is the one at the path, and the next slot of a rotation is free
  (`PlaceInv`); then each step moves one file, cuts the oldest off or adds the next
  chunk at the end (`WindowIn`)

`BootProofs`, for any servers, scripts and failures: `MigratedIsApplied`
(`MigratedMeansApplied`): the history only grows, and a server at a script has all
earlier ones in it, whoever put them there (`AppliedInv`); `SchemaIsHistory`
(`SchemaMatchesHistory`): the statements beyond the history are those of the one
server that holds the writer's lock, up to where it has got (`WriterInv`), and
the history is always a first part of the scripts (`HistoryInv`), so that a
commit adds one whole script at the end.
`SplitterReadsSql` (`SplitsLikeSql`) is about scripts of any length, over all
characters. `At` says how the scanner stands after each character of a token:
outside again where the token ends, and before that inside it, between the
quotes of a doubled one (after an even number of them, `CountIs`), between the
two characters that open a comment, or between those that close it. A token that
begins has it so (`TokenBegins`), and it goes on until the token ends
(`TokenGoesOn`, with a lemma for each kind of token); so a scan goes from token to
token (`ScanSteps`), cuts at the semicolons that are tokens (`CutsAre`) and keeps
the plain characters and blanks between them (`ExecutableIs`, `BeginIs`). The
definitions by recursion over a text are functions on its places: that they are
what their equations say (`Recursion`), and every induction over a text
(`UpTo`), follow from finite sets being well-founded (`LeastNumber`).

`LogScreenProofs`: `OneStretchOfAFile` (`OneStretch`), for any text, cap, window,
number of polls, refused files and broken connections. The spans of the file that
the page stands in are one stretch, and each answer that is under way from this
place, and the page's offset, goes on from inside it or from its end (`AnchorInv`);
an answer is a stretch of the file it names (`ViewInv`), and pages and queries move
to later files only (`PlaceInv`). `CharactersWhole` (`WholeCharacters`) adds to that
where each answer ends: outside a character, at the end of the file so far, or where
it began inside one (`CharInv`); it speaks of children that write UTF-8 (`Utf8`), as
the property does. `TypesOfTheLog` (`TypeOK`) needs both, and that the constants are
such as `LogScreenAssumption` has them (`TInv`).

`HttpProofs`: `AcceptedFits` (`GivenIsStorable`), for any connections and requests in
which a command is no shorter than its first word. A request in a handler was let
through by the refusals in front of it and passed every check of its body
(`HInv`), and the checks imply the constraints of the row, but for a label that
the command gives: that one is what the run `unstorable` finds.

Only model-checked: everything about liveness, which is out of the prover's reach
with its fairness. Every invariant and every action property of the runs that
pass has a theorem.

## Not modelled

- Durations: a wait is a step that ends or times out. So the time budget of the
  shutdown hooks, which StopCollectors may overrun by one drain timeout per
  collector (lifecycle.go:297), has no property.
- Reuse of process ids by the operating system: closing the server group on POSIX
  signals the ids of children that ended long ago (jobs_posix.go:75).
- What the two platforms do to signal a tree of processes. What the manager
  relies on, that a kill cannot be ignored and a terminate can, is in `Doom` and
  `Die`.
- The status the Windows service reports to the service manager
  (host_windows.go:138-250): pending, running, stopped, and the exit code in
  them. Its handlers are callers of Shutdown in `Lifecycle`. Reading the code, a
  second control may report "stop pending" after "stopped", and an interrogation
  reports the state without the exit code.
- Timestamps of entries, the texts of errors and records, the order of listings,
  environment variables, command-line quoting, code pages of Windows, the
  `tail:<n>` form of a log query, which the page does not send; the process list
  and the dialogs of the page; configuration, time formats, the API description
  and `tools/exitprobe`, which are functions without state.
- A header of a rotation that fails to be written, in `LogScreen`; it is in `ChildLog`.
- Texts with NUL characters, which SQLite's length() cuts off.
- Memory and file limits.

Two hazards have no property: the budgets and the ids above.

## Plan

What is left, in this order:

1. A module for the Windows service host: its status reports against the service
   manager's view, composed with `Lifecycle`.
2. `ChildLog` with faults while collectors of two runs meet, at smaller bounds.
