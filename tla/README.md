# Pharos in TLA+

Pharos is an MCP server that gives coding agents the language servers of the
editor world. This directory models its concurrent core in TLA+: the pool that
starts and shares language servers, the actor in front of each of them, the
dispatch and cancellation of MCP requests, HTTP sessions, and the daemon that
several clients share; and the Python around it that decides whether a build of
pharos is good: the drivers and test scripts, the dogfood pass, the benchmark.
TLC checks the models on small instances; TLAPS proves, for every instance, the
safety properties of the concurrent core (pool, proc, byte stream, dispatch,
HTTP sessions, shared daemon), of the drivers, of the dogfood pass and of the
benchmark, and that the pool and the drivers implement their promises. Of the
safety invariants and action properties of the runs only those of the test
scripts are left to TLC alone.

- [The system](#the-system): components, state, operations, interactions
- [The modules](#the-modules): what each models and how it maps to the code
- [The runs](#the-runs): what is checked, with which bounds
- [The proofs](#the-proofs)
- [Where the code and its documents disagree](#where-the-code-and-its-documents-disagree)
- [Not modelled](#not-modelled) and [The plan](#the-plan)

Source paths are relative to the repository; `P/` stands for `src/pharos/`.

## The system

```
 MCP client --stdio--> stdio_worker ----+
 MCP client --shim---> daemon/conn -----+--> dispatch.spawn: one process per line
 MCP client --HTTP---> mcp/http --------+        |  (a request, or the cancel of one)
                          |                      v
                     mcp/sessions          tools/* --> tools/session --> lsp/pool
                                                              |             |
                                                              |        spawn worker
                                                              v             v
                            language server <--port--  lsp/proc <-- pharos_lsp_dyn_sup
```

Everything between the client and the port is an Erlang process; they share
nothing but messages and a few public ETS tables (`pharos_request_workers`,
`pharos_inflight`, the bridge from pool key to proc, the diagnostics cache, the
daemon's sessions). The shim and the daemon are OS processes that share a
directory: a lock file, a socket, a pid file. The program is Gleam, Erlang and
Rust; what tests and measures it is Python, and starts a pharos of its own:

```
 test-suite.py, dogfood-adr-029.py, dogfood-adr-032.py --> _pharos_drive.py --stdio--> pharos
                                       the same scripts --> _pharos_drive_http.py --HTTP--> pharos
 dogfood-23lang.py --> Stdio/HttpTransport --> pharos        report --> pass-to-matrix.py --> matrix
 oracle.py --> McpStdio --> pharos      bank --> harness.py | harness_deepseek.py --> rows --> score.py
```

| component | state it keeps | operations | what makes it hard |
|---|---|---|---|
| LSP pool `P/lsp/pool.gleam` | cache, waitlist, monitors and spawner monitors, opened documents, state per key; idle limits | get, evict, evict-all, kill, close-all, ensure-open, idle sweep; SpawnProgress, SpawnCompleted, DOWNs | never blocks on a start, so starts, crashes, evictions and DOWNs interleave; stale rows and stale DOWNs |
| spawn worker (`spawn_worker`), dyn supervisor `pharos_lsp_dyn_sup.erl` | bridge table, children, restarts due | recover or start, probe until ready, close; start, restart, terminate | one supervisor process runs every handshake; restarts race with evictions; restart intensity |
| LSP proc `P/lsp/proc.gleam`, `client`, `framing`, port | client: buffer, queue, handlers; `pharos_inflight` rows; diagnostics cache | request, wait-for-publish, with-handler, send, cancel; port data and exit | runs its receive loop inside a handler; callers time out; late answers; split and coalesced frames |
| dispatch, stdio worker, daemon connection | workers counted, `pharos_request_workers`, sessions | lines, replies, DOWNs, cancel, end of input, drain, clean-up | ids collide between clients; cancels race with what they cancel; kills are asynchronous |
| HTTP sessions `P/mcp/sessions.gleam`, `http.gleam` | table, SSE subject, last activity, eviction timer | issue, validate, attach, detach, evict | streams notice a dead client late; the table can restart |
| drivers `bin/_pharos_drive.py`, `_pharos_drive_http.py` | responses, buffer, process, pipes | drive, drive_serial, drive over HTTP, find_response | full pipes at both ends, cut lines, deadlines, late answers, a child that dies or will not |
| test scripts `bin/test-suite.py`, `dogfood-adr-029.py`, `dogfood-adr-032.py` | responses, verdicts | batches, checks, the choice of a dependency and a symbol | tolerant checks, cells that depend on each other, errors that look like passes |
| dogfood pass `bin/dogfood-23lang.py`, `pass-to-matrix.py` | rows, request ids, prepared items, timeouts in a row | call, cancel, bump, retry, short-circuit, poll, report, collapse | hours of calls on servers that stall; late answers; early exits of a long loop |
| benchmark `bench/oracle.py`, `harness*.py`, `score.py` | symbols, diagnostics pool, bank, rows | collect, generate, run, score | calls that fail half way; questions whose truth does not follow from what they show |
| daemon `P/daemon.gleam`, `pharos_daemon_ffi.erl`; shim `shim/src/client.rs` | lock, socket file, pid file; listener, sessions table, last activity | find, start, wait, hello, relay; listen, accept, idle exit, stop, clean-up | crash anywhere between two file operations; start-up and exit race |

What makes each correct: *pool*: every get is answered once, by a live server
of its key or an error; one spawn per key; a dead server leaves the cache.
*Proc*: an answer goes to the call it answers; calls are served in order;
frames are handled once and in order; cancels hit the request they mean.
*Dispatch*: cancels stay on their connection; nothing is lost at the end of
input; nothing survives a disconnect. *Sessions*: no session in use is
forgotten, no idle one is kept; streams end. *Daemon*: one per key, always
reachable, gone when idle, never while used. *Drivers*: every line pharos wrote is
returned, and the driver returns. *Scripts*: they fail only when
something has regressed, and succeed only when nothing has but what their checks
are known to overlook. *Dogfood*: every cell has its row, and has earned it;
the matrix says no more than the report. *Benchmark*: the truth of a question is
true, and the arms are compared over the same questions. `PROJECT.json` lists the
places where each of these could go wrong ("hazards") with the properties that
watch them.

## The modules

Conventions. A module has a constant `Faults`: the disruptions an instance
considers; with `Faults = {}` the environment is friendly. Definitions marked
*(mutation)* stand for a plausible bug in the definition that follows them
(a dropped guard, a forgotten reset): replacing the one by the other must break
a property, which shows that the property depends on that line of the code. They
are part of no specification. Definitions keep the names of the functions they
model; `PROJECT.json` "map" gives the lines of each.

### PoolService and LspPool

`PoolService` is the promise of `pool.get`: a key is absent, spawning or ready;
whoever asks while it is spawning joins; the end of a spawn answers all who wait
at once and alike; an eviction or a crash may make a ready key absent.

`LspPool` is the code: pool, spawn workers, dyn supervisor, procs, callers.

| variables | code |
|---|---|
| `cache inflight monitors spawnerMons opened lspState closed` | `State` of pool.gleam (287-352); the two monitor dicts are the workers whose monitor entry they hold |
| `wphase wkey wproc` | a spawn worker's position in `spawn_worker`, and its key and proc |
| `notes` | workers with a SpawnProgress on its way to the pool: it overtakes nothing of its sender |
| `strays` | workers whose pool has crashed: they report to nobody |
| `pstate pkey row` | procs, and the bridge table |
| `exits sup` | restarts the supervisor owes, and the child it is initialising: it serves nobody meanwhile |
| `mail heard` | didOpens a timed-out ensure-open left in a proc's mailbox; how often a server was told to open a document |

Pool messages come from different senders, so they are not queued: any may be
taken next (Erlang orders only messages of the same pair of processes; a
worker's three messages to the pool are taken in order through `wphase`). The
name of a worker or a proc may be reused once nobody holds it (`Retire`,
`FreshPid`), so two of each are enough for runs of any length. A proc that
crashes is restarted (`transient` children), the supervisor may exceed its
intensity (`DynSupDown`) and take the pool with it (`PoolCrash`). An idle sweep
is modelled by what it may do: stop any cached key. `LspPool` implements
`PoolService` under `status`: ready if cached, spawning if somebody waits.

### LspProc

One proc and its server. The mailbox is a sequence, since here order matters:
between handlers the actor takes its head; inside `wait_for_response` or the
publish drain `receive_data` takes the first *port* message. A handler threads
a copy of the client (`work`), which becomes the actor's client only if the
handler succeeds (proc.gleam 805-813): the source of two of the findings. Frames
are records, cut into a head and a tail where a read splits them; the parser's
behaviour on a cut stream is `Joined`, `Frames` (the frames found in a stretch of
pieces, in order), `MayParse` (a tail alone is an error if it was cut inside its
header, and waited for if inside its body), `Complete`, `Leftover`. A
call's ticket is also the LSP id it gets. Time is ticks, which pass only when
the actor waits. External: the server (`Send`, `Answer`, `Chat`, ...), the pipe.

### McpDispatch

The lines clients send, the worker each becomes, and both kinds of stream. A
worker registers *itself*, replies and deregisters; a cancel is a worker too,
which looks up, kills, clears the row, and cancels the LSP call. A kill is a
signal on its way (`doomed`): its victim may take more steps. `Scope` is the
session part of a key: a daemon connection binds its own, everything else is
`direct`. `transport` is chosen in the initial state from `Transports`.

### HttpSessions

The table actor with its mailbox, POST handlers, SSE processes. Ages are
capped just past the point at which they matter. A restarted table is one the
listener does not know (`held`): the handler closure keeps the subject of the
start.

### SharedDaemon

Shims and daemons as a graph of positions (`phase`, `stage`), one per system
call that another process can see: connect, flock, read pid, unlink, unlink,
exec; probe, unlink, bind, write pid, read sessions, read last activity, read pid
file, unlink, unlink, close. The end of a process closes its connections, its
listener and its lock. `trouble` records the faults that have happened; `late`
is a history variable: sessions that got their row after the last read of the
table. A daemon is a child of the shim that started it and has its name; the shim
never waits for it, so that once dead it is a zombie (`Zombie`) as long as the
shim is there, which `kill(pid, 0)` takes for alive (`Exists`): a shim that waits
for it waits to the deadline (`WaitedInVain`). Two processes never share a pid.

### DriveService and Drive

`DriveService` is what a script may rely on: each request is answered, failed by
the driver (only by one that waits for each request, in order), or missing, once
and for all; the driver returns or raises. `Drive` is the three drivers and the
pipes: `stdin`, `stdout`, `logs` are bounded (`PipeSize`, `LogSize`), a line is
two pieces, of which a read takes any number, and `phase` is the driver's place
in the code. Deadlines are nondeterministic: any wait may end. Pharos is
external: it takes requests, answers in any order or not at all, dies, dies in
the middle of a line, exits at the end of its input. The reads to the end of a
pipe (`ReadsToEnd`) end with pharos because the language servers, which inherit
its stderr, are assumed to leave with it; `"orphan"` is an instance in which one
does not. That it goes on taking
stdin while its stdout is full is an assumption: its stdin is a port, which reads
ahead into `stdio_worker`'s mailbox whatever that actor is blocked on, and `Take`
stands for the port's read; without it see `"shared_io"` below. `Kept` is what a
sequence has at some places: of the pieces those that end a line (`Whole`), of
the responses those by the server. `outcome` is `find_response`, and under it
`Drive` implements `DriveService`.

### Verdicts and Scripts

`Verdicts` has the checks as pure operators: an answer is whether it has a
result, its error flag, and which of the signals a check looks for its text
contains. It also has adr032's choices: `rust_dependency_source` (the manifest's
order, then the lockfile's; a file that defines a name the project imports) and
`anchor_from_symbols` (preorder with depth; no symbols of test modules; names the
project uses first). `Scripts` runs the three scripts over batches of requests.
A request is answered by pharos, or in its place by the driver (`TimesOut`), or
the driver raises: `DriveService`'s three cases for `drive_serial`. `broken` is
what has regressed in pharos, drawn at the start: a cell or a tool in one of four
ways (`Ways`: the request is refused with a JSON-RPC error, which has no result
and so is no tool error; the tool reports an error; its content is not what was
asked for; it has none), a rule of ADR-032's routing, or one of its requests
refused. `Answers` says what such a pharos says instead, `Root`, `Routed` and
`Noted` (`P/tools/session.gleam`) how a working one routes. `Overlooked` lists what
the checks let pass, check by check: `RegressionsAreCaught` says that there is
nothing else. The exit code of adr029 is the number of cells 1 to 5 that failed
when there is no URI to go on with, up to 5.

### Dogfood

`run_pass` as a machine: `plan` is the rest of the cells, `waiting` the request
under way (`call`, `bump`, `retry`), `rid` and `poll_rid` the two sequences of
ids, `inflight` and `out` what pharos has and what is on its way back. An answer
may come after its call was given up, and is read by a later `send`. The end of
every loop iteration (a `continue` after the short-circuit, missing arguments, the
retry) is an action or a disjunct of its own. `mark`, `parsed` and `collapse` are
the way from a row to the matrix; a mark goes by the text of the row, so that an
error that quotes "server gap" (`quoting`) is a gap to it. HTTP differs from stdio in
what a deadline and a dead pharos look like (`Nothing`, `Reachable`, `Initialize`),
in that a body may be empty or unreadable, which is no response, and in that
answers do not mix. A wait over HTTP ends because `Nothing` is a step of the
harness: `urlopen`'s timeout is one for each socket operation, so that a server that
sends a byte now and then could hold a call for longer than it says, and a write
to pharos's stdin has no deadline at all; neither is modelled.

### Bench

The oracle collects symbols and diagnostics file by file, each call of which may
fail, then generates questions in either sampling mode; a question keeps the
symbol it is about (`of`) besides what is written, so that its truth can be
compared with the workspace. A workspace is any sequence of files and any finite
set of symbols; `WorkspaceAssumption` says that no path is walked twice, that a
name lies within its range, and that a site refers to one declaration, so that
find_references and goto_definition agree. `unseen` is the files pharos's language
server has not read yet: its answers succeed all the same and leave out what is in
them, and `Index` reads one more at any time. A question records whether every
file had been read when it was made (`full`). A question names a file by
`basename` only, a constant that need not be injective; `Wording` is what a reader
of the question is told. `pool` holds places in `records`,
which is what the pops from the front of `_diag_pool` amount to. A harness runs
trials, questions and arms in order; a pass of DeepSeek's ends early when pharos is
dead or answers an error (`Written`, `Abort`); the
model's answer is any of `Outcomes`; `score_one` judges it by its form:
exact, escaped, within other words, as part of a longer word. `Defines` is the
language server's goto_definition.

The modules talk about different layers and share no variables; what joins
them: `McpDispatch` uses of a proc only that it serves calls and keeps
`pharos_inflight` current (`LspProc`'s `CallsKeepTheirPlace`); `LspPool` uses of a
proc only that it initialises or fails, lives and dies; `SharedDaemon` uses of a
connection only that it registers and ends (`McpDispatch`'s `RequestsEnd`); `Drive` uses of pharos that it answers everything it
has read before it exits (`McpDispatch`'s `NothingLostAtExit`), and `Scripts` of a
driver what `DriveService` promises.

Several properties are conjunctions of named parts, each stated and commented
where it is defined: `CallersServed` is `CallersAreListed /\ AnsweredOnce`,
`FlightsApart` is `SingleFlight /\ OnlyCrashesFailWaiters`, `CallsKeepTheirPlace`
is `AnswersAreOwn /\ WaitersAreInLine /\ InflightIsCurrent`, `RequestsAreTracked` is
`RowsAreCurrent /\ LeftoversAreStopped`, `RequestsEnd` is `DrainEnds /\
CancelFreesTheWorker`, `ExchangesEnd` is `PostsAreAnswered /\ StreamsEnd`,
`DaemonIsShared` is `OneDaemon /\ ListenersAreReachable`, `AllSettle` is
`ShimsSettle /\ IdleDaemonsExit`.

## The runs

All runs finish within five minutes on two workers.

| run | instance | checks |
|---|---|---|
| pool_safety | 2 callers, 2 keys (one without probe), 2 workers, 2 procs; crashes of procs, workers and the pool | `TypeOK`, `WaitersHaveASpawner`, `CallersServed`, `FlightsApart`, `CachedIsMonitored`; refinement of `PoolService` |
| pool_liveness | 1 caller, 1 key, 1 document, every fault | every get ends (`ServiceLiveness`), `DeadProcIsDropped`, `OpenedAtCachedProc` |
| proc_safety | 2 clients, 2 calls, 2 frames, every fault | `TypeOK`, `CallsKeepTheirPlace`, `HandledInOrder` |
| proc_liveness | 1 client, all methods, server requests | `LoopsAdvance` |
| dispatch_streams | stdio, or two daemon connections using the same id; request and cancel, and a request; crash, hang, over-long line | `TypeOK`, `CancelsStayHome`, `NothingLostAtExit`, `RequestsAreTracked`, `RequestsEnd` |
| sessions_table | 1 client, 2 sessions, 2 streams; drop, crash | `TypeOK`, `LivesWhileUsed`, `DeadStreamsAreDropped`, `ExchangesEnd` |
| daemon_share | 2 shims, 2 daemons; one fault of six kinds, or any number of start timeouts | `TypeOK` (with the lock discipline), `DaemonIsShared`, `IdleMeansIdle`, `AllSettle` |
| drive | 4 requests, one a notification; the three drivers; pipes of 3, stderr of 2; crash, torn line | `TypeOK`, `EveryLineArrives`, `ServicePromise` (refinement of `DriveService`, and that drivers come back) |
| scripts | the three scripts; 5 kinds of languages; 5 lockfiles, 3 projects, 4 symbol trees; up to 2 regressions, each in any of its ways, and 1 late request | `TypeOK`, `RegressionsAreCaught` |
| dogfood | 7 ways to start (transports, profiles, filter, skip, memory only, poller); 3 languages, 4 tools with a chain, a global tool; threshold 2; 1 odd answer | `TypeOK`, `RowsAreEarned`, `CallsAreSettled`, `MatrixIsHonest`, `PassEnds` |
| bench | 2 workspaces, 8 kinds of questions, both modes, up to 3 of each; a server that has read any of the files; both arms and harnesses, 2 trials of 2 questions; 1 failed call, a pharos that may die | `TypeOK`, `QuestionsAreSound`, `ComparisonIsFair` |
| pool_respawn | 2 callers, 1 key, no faults | `RespawnsAfterExit`, violated: see below |

Why these bounds. In the pool, interference needs two callers of one key (a
waitlist), two keys (a start behind another, a group eviction), a worker per
spawn and a proc to be replaced by another; since names are recycled, runs are
unbounded in length and in spawns. `OpenedAtCachedProc` concerns one key and is
checked in the liveness instance, where every fault happens. In the proc, the
hazards are about a call and its successor, a frame and its successor:
`MaxCalls = MaxFrames = 2` have both, in the order server and client can
produce; `Budget = Slack = 1` make every timeout possible. In dispatch, a
request, its cancel, and another client's request of the same id; `Leavers`
lets one of them leave. In the daemon, a shim starts one daemon at most, so the two
of two shims are all there can be; `MaxTrouble = 1` leaves out two
independent faults in one behaviour (an instance with 2 also passes, in a little
over five minutes). `MaxSessions`, `IdleTimeout`, `Interval` are the smallest
that separate idle from in use. A driver's hazards need a pipe shorter than the
requests, a request behind one that has timed out, and one that is never
answered: four requests, one of them without an answer. Two regressions at once
are enough for one to hide the other; two of the symbol trees have a test module
before or around the symbol that is wanted. In the dogfood pass an answer must be
able to come during the call after the next, a language must reach the
threshold, and a chained tool must come after it: four tools and a threshold of
two (the code's is three). The bench workspace has one symbol for each way a
truth could be wrong: a name in two files, a method that opens on its class's
line, a recursive function, a test within it, a reference to another symbol; its
two files have the same basename. Its passes put two questions to both arms twice
(`Limit = Trials = 2`), enough for an arm to fall a row behind or a trial to be cut
short; the model's answer has one form, since no property of the run depends on it.

`CHECK_DEADLOCK FALSE` where an instance's inputs are bounded (calls, frames,
lines) or one-shot (shims): then having nothing left to do is the end. The
pool and the sessions table must not stop, and are checked for it.

Fairness is that of the code's schedulers. *Pool*: it takes every message of
its mailbox, workers run, the probe loop ends within its budget, an initialiser
within its timeout. Strong fairness, for a get, a close and a request to the
supervisor, stands for mailboxes served in arrival order: a message may be
unservable for a while, but is not passed over for ever. Nobody has to ask,
evict or crash. *Proc*: the actor runs, port data
and time arrive; the server need not answer, and need not stop talking either.
`MaxFrames` does stop it in an instance, so nothing is claimed that would rest on
that: `LoopsAdvance` says that a request's receive loop ends *or dispatches another
frame*, since `wait_for_response` starts its whole budget again with every frame. *Dispatch*: connections and workers
run, kills land, the drain timer fires; clients need not send or leave, tools
may hang (`"hang"`). *Sessions*: the table runs, heartbeats come. *Daemon*:
processes run and time passes; nobody has to leave, stop or fail. The start
timeout is needed where a shim waits for a daemon that has died and is still a
zombie (`WaitedInVain`), and nowhere else: `ShimsSettle` says that no other wait needs it.
*Drive*: the driver and its clocks run, pharos boots, reads its input and heeds
the end of it or a SIGTERM; it need not answer. The reads of its pipes to their end
are fair unless the instance has an `"orphan"`. *Dogfood*: the harness runs and
its deadlines pass; pharos need do nothing. *Scripts*, *Bench*: safety only.

## The proofs

Every theorem holds for all values of the constants under the named assumptions
of its module, which TLC evaluates on every run. Each follows the same line: an
invariant that is inductive, one lemma per action (or per conjunct and action),
and a temporal step at the end.

### LspPool_proofs

For every number of keys, callers, workers, procs, documents and every `Faults`,
from `KeysAssumption` and `NoPidAssumption`:

| theorem | property | argument |
|---|---|---|
| `TypeCorrect` | `TypeOK` | inductive by itself |
| `NobodyIsStranded` | `WaitersHaveASpawner` | with `StraysApart`: the pool's spawner monitors and the strays of a crashed pool are disjoint, so the worker behind a waitlist is one that does report |
| `DeathIsNoticed` | `CachedIsMonitored` | inductive over types: a monitor leaves only with its cache entry |
| `EveryCallerIsListed` | `CallersServed` | together: that a caller is on no other list is needed to see that answering one waitlist takes nobody off another |
| `OneSpawnPerKey` | `FlightsApart` | with `SpawnersRun` and `SpawnersServe`: the monitored workers of the pool are exactly the unfinished ones, one for a key that is uncached with a waitlist and none for any other |
| `OpenOnTheCachedProc` | `OpenedAtCachedProc` | with `InitApart`: the child the supervisor is initialising is not cached, probed or in the bridge, so a restart never reuses the name of a proc a document is open at |
| `PoolKeepsItsPromise` | `ServiceSpec` | with `CachedHasNoWaiters` and `ProbersHaveProc`: each action maps to a step of `PoolService` or a stutter |

`SingleFlight` is not inductive as it stands: nothing in it says that an
unfinished worker has a monitor entry, without which its completion could be
followed by a DOWN that fails the next spawn's waiters, and nothing says the key
of such a worker is still waited for. `SpawnersRun /\ SpawnersServe` adds both.
Steps that touch only workers or only the supervisor are dispatched by "quiet"
lemmas (`WorkerStepQuiet`, `SupStepQuiet`, `EnvironmentQuiet`): they say once and
for all that no worker starts to run and no pool variable changes.

### LspProc_proofs

For every number of callers, calls and frames, every budget and every `Faults`,
from `ConstantsAssumption`:

| theorem | property | argument |
|---|---|---|
| `ProcTypes` | `TypeOK` | together with the next |
| `CallsAreKept` | `CallsKeepTheirPlace` | `TicketsInv`: a ticket belongs to one call, which is installed, in line, or served, and never two of these at once |
| `FramesInOrder` | `HandledInOrder` | `FifoInv`, below |

`HandledInOrder` compares only what was dispatched with what was sent; its
invariant says where all the rest is. The stream is counted in halves of a frame
(a head covers the first half, a tail the second, a whole piece both). After the
frames handled come, with nothing missing, doubled or out of place, those queued
in the client, the pieces its parser holds, the reads in the mailbox one after
the other, and the pieces in the pipe, up to the last frame sent (`Stream`, from
`Spans`, `Fills`, `Linked`). While a handler runs, the client is its copy and the
bytes are those in its buffer and those it has read since (`Current`, `reading`);
`ReadingInv` says when there are none of the latter. A failed handler discards
its copy, and then nothing is claimed any more (`clean`): that is the finding
about lost frames below. The lemmas follow the code: `StreamSend`,
`StreamDeliver`, `StreamRead`, `StreamParse`, `StreamHandle`, `StreamDrain`.

What the parser makes of an arbitrary stream of pieces is shown by induction on
its length: `FramesDefined` derives the equations of the recursive function
`Frames` with `SetInduction`, induction stated for a *set* of numbers. (The
library's induction theorems take an operator, which the installed provers cannot
instantiate.) `Kept` in Drive and `FlattenSeq`, which Dogfood uses, get their
equations in the same way (`KeptDefined`, `FlattenDefined`).

### McpDispatch_proofs

For every set of connections, lines and faults, from `ConstantsAssumption`,
`LinesFinite` (finitely many lines) and `RequestIdsAreFresh` (a client does not
use a request id twice on a connection, as MCP demands of it):

| theorem | property | argument |
|---|---|---|
| `DispatchTypes` | `TypeOK` | that `inflight` stays in range needs `CountInv` |
| `CancelsKeepToTheirConnection` | `CancelsStayHome` | `DispatchInv`: what is on a wire is of its connection and unsent to any other, a daemon connection binds its session before its first worker, and rows, victims, kills and calls are of the key that names them (`NamesInv`) |
| `ExitLosesNothing` | `NothingLostAtExit` | `CountedInv`: `inflight` is the number of workers whose DOWN is not taken (`CountInv`), a worker goes down once, and its reply is in the mailbox ahead of its DOWN (`WritesComeFirst`) |
| `TableMatchesWorkers` | `RequestsAreTracked` | `TrackInv`: a row without its worker is one that a cancel is clearing, or whose worker panicked, or that came after the clean-up of its connection |

The second has a hypothesis on the transports: stdio and the daemon, one at a
time. HTTP sessions share the key space with each other and with stdio, and there
a cancel does reach the request of another client
([below](#where-the-code-and-its-documents-disagree)).

### SharedDaemon_proofs

For every number of shims and every `Faults`:

| theorem | property | argument |
|---|---|---|
| `DaemonTypes` | `TypeOK` | inductive by itself |
| `OneDaemonForAll` | `DaemonIsShared` | `DaemonInv`: the lock is held by whoever is in a phase that holds it; until a start timeout has run out (`Hurried`) one daemon at most is current, the pid file names it, a daemon under way is one somebody awaits (`Orderly`) |
| `IdleExitSparesSessions` | `IdleMeansIdle` | `ConnInv`: a session that was connected when the table was read has its row, and a daemon asked to stop had none |

`Hurried` cannot be dropped: a shim whose patience ends starts another daemon
beside the one still booting.

### HttpSessions_proofs

From `ConstantsAssumption` (finitely many clients, an interval of at least one
tick):

| theorem | property | argument |
|---|---|---|
| `SessionTypes` | `TypeOK` | needs all of `IInv` |
| `SessionsLiveWhileUsed` | `LivesWhileUsed` | the cutoff of a sweep is never below `IdleTimeout`, whatever `now_us` it carries |
| `NoStreamDangles` | `DeadStreamsAreDropped` | a detach leaves the mailbox only when it is served (`DetachStays`, `DetachWaits`), and a stream that closes was attached under the id its detach names |

The types are not inductive by themselves: that an issue stays within
`MaxSessions` needs one place kept for each POST that waits for one (`Room`), that
an answer finds somebody who asked needs `AllAwaited` and `OneAsk` (each message
belongs to somebody who waits for it, and is the only one of theirs), and that
the timer's stamp stays within the interval needs `TimerRuns`. `SseMatch` says
that the table points only at streams of that session that have attached.

### Drive_proofs

For every number of requests, every set of notifications, the three drivers,
pipes of any size and every `Faults`, from `DriveAssumption`:

| theorem | property | argument |
|---|---|---|
| `DriveTypes` | `TypeOK` | with `Known`: what drive_serial has written is at most the request it is at, so pharos can answer nothing later |
| `NoLineIsLost` | `EveryLineArrives` | `Arriving`: what pharos has written in full is, in order, what is heard, what the pieces in the buffer and in the pipe amount to; at the end there is nothing in either (`NothingLeft`) |
| `DriversKeepTheirPromise` | `Service!Spec`, the safety half of `ServicePromise` | `SettledSoFar`: a driver that waits has a response for every request before the one it is at; the first response with an id stays the first (`FirstStays`, `FirstComes`) |

`EveryLineArrives` speaks of the end only. `Arriving` says it at every moment,
and rests on how lines behave under cutting and joining: `Answers` of two
sequences of pieces in a row is one after the other (`AnswersConcat`, from
`KeptConcat`), what remains in a buffer holds no whole line (`RestFacts`), the
serial reader's split at the line it waits for loses nothing (`SplitFacts`) and
does have that line (`TargetAnswered`). Under the mapping a read that brings
answers to requests not seen before is one `Settle` of all of them, and the last
read is part of `Return`; drive_serial returns nothing missing because it closes
with every request settled.

### Dogfood_proofs

For every set of languages and tools, every way to start the pass, every
threshold and any number of odd answers, from `DogfoodAssumption` (among it: no
language twice, no per-language tool twice), `ChainedAssumption` (the chained
tools and those that prepare for them are per-language tools, and not filtered)
and `IdsFit` (a plan takes three ids a cell at most, and the poller's begin at
900000):

| theorem | property | argument |
|---|---|---|
| `DogfoodTypes` | `TypeOK` | `PlanInv`: a language that is given up is not called (`CallsGoOut`), without which resetting the count after a late success would leave the flag behind |
| `AnswersAreNotMixedUp` | `CallsAreSettled` | `PassInv`: ids in use are at most `rid` or the poller's, so the next one is on nothing in flight (`FreshId`); what has the awaited id is the awaited request, in one place (`OneAwaited`); what was not answered over stdio is cancelled before the next request goes out (`LeftIsCancelled`) |
| `ReportIsEarned` | `RowsAreEarned` | `EarnedInv`: the report and the rest of the plan are the plan (`Reported`); the count of timeouts is at most what the rows since the last pass show (`Timed`); what is prepared has a passed row; the answer to a tool that the profile filters is a refusal or a leak, so if its row passes it is noted as such (`Refused`, by `OneAwaited`) |
| `MatrixTellsTheTruth` | `MatrixIsHonest` | each language and tool is once in the plan (`PlanIsNeat`), so a cell has one row (`RowIsAlone`) and the parser's pick is that row's mark (`MarkShows`); the notes the parser reads as better than a failure are only on passes (`NotesEarned`), but for the quotes the property names |

`IdsStayApart` shows from `IdsCounted` (three ids for each cell that is off the
plan) that the two sequences of ids never meet. What an action does to the
messages is one of three things, whatever its branch: a request under the next id
(`Sends`), no request (`Rests`), a write that raises (`Raise`), on top of what was
in flight or of that with the call cancelled (`AfterMoves`). A language that is given
up takes the rest of its cells off the plan at once; that these are the next ones
on it, with none left behind, is that the cells of a language are a block of the
plan (`InBlocks`), and stay one as it is worked off.

### Bench_proofs

For every workspace, every order of the kinds and of the arms, every shuffle of
the symbols, any number of trials and outcomes, and calls that fail at any time,
from `WorkspaceAssumption` (above) and `BenchAssumption` (no kind and no arm twice;
the arms are those two):

| theorem | property | argument |
|---|---|---|
| `BenchTypes` | `TypeOK` | `Types` with `Stages` (what the oracle has not begun is empty; the shuffled symbols are distinct) and `OnPass`, which bounds the questions still to be put |
| `BankIsSound` | `QuestionsAreSound` | `BankedInv`, below |
| `ArmsAreComparedFairly` | `ComparisonIsFair` | `OnPass`: the rows and what is to do are `Runs`, cut in two; `ByTurns`: with two arms, the first is ahead by one row exactly when the rows are odd in number (`NextTurn`, `InRounds`); `Ends`: a pass that is cut short is DeepSeek's, before its first row or with the arm that has pharos to do |

That a single question is true is a lemma per generator (`CountIsSound`,
`UseIsSound`, `DefinitionIsSound`, `CollisionIsSound`, `CallersIsSound`,
`ContainerIsSound`, `ImplementationsIsSound`, `KindIsSound`, `DiagnosticsIsSound`).
The truth of the two kinds that follow a reference is that of whatever is defined
at it, and it is the file of the symbol asked about because a site refers to one
declaration. A truth that is a count is at most what there is, and all of it if every
file had been read (`Tells`): what a server that is still reading knows is part of
what there is (`Refs`, `Impls`, `SomePlaces`), a reading of a file's diagnostics is
between nothing and all of them (`IsReading`), and reading on keeps every question
as it was (`IndexKeeps`). `QuestionsAreSound` also speaks of pairs of questions, and for these
it is not inductive: nothing in it says where the walk over the symbols has got
to, nor whose turn the files with diagnostics are. `Passed` says that a question's
symbol is at a place its kind has come past (in the order of the symbols; by turns
in round robin, where a place is of one kind), so that the next is another. `InTurn`
says that the pool is always the end of the files that have diagnostics, and that
of two such files the one asked about has not come again before the other
(`TurnPasses`, `TurnComesAgain`); `AgainInTurn` is what follows when it does come
again. `Recorded` ties the records to the files walked, each once, whichever calls
failed; without it a path would not tell two of them apart. `Counted` ties the
counter of the loop to what is in the bank.

The truth of `call_hierarchy_in` counts callers by file and name, and so the
theorem has it right for callers that these tell apart (`ToldApart`); where they do
not it is wrong, which is the divergence `CallersAreCounted` below. Nothing is said
of basenames: that two questions may read the same is `QuestionsAreUnambiguous`.

### Checked by TLC only

Liveness and everything about fairness, which with ENABLED is outside the
prover's reach: with it the liveness half of `PoolService`, and that drivers come
back (`Service!Ends`). And `Scripts`, with its `TypeOK` and
`RegressionsAreCaught`: tables of cells and checks over a pharos that answers by a
table too, so that most of a proof would be the run's enumeration written out,
script by script and cell by cell. The run is exhaustive in the regressions that
the scripts are there for and in the ways they may show, up to two at once, and in
where one request is late.

## Where the code and its documents disagree

Run by TLC, with a counterexample:

| run | property | what happens |
|---|---|---|
| pool_respawn | `RespawnsAfterExit` | After a failed probe the worker closes the proc but leaves its bridge row; every later get of the key "recovers" the dead proc, probes it until the budget ends, and fails. pool.gleam:16-20 promises a transparent respawn. |

Stated in the modules, found violated with TLC, and not part of the standing
runs. To reproduce one, give TLC the instance named and the property alone:

| module | property | instance | what happens |
|---|---|---|---|
| LspPool | `OneServerPerKey` | pool_safety with `Docs = {u1}` | an eviction overtakes the DOWN of a proc that the supervisor has already restarted: the restarted server runs on, orphaned |
| LspPool | `SpawnIsVisible` | same | a stale DOWN clears the state shown for the key's new spawn |
| LspPool | `DidOpenOnce` | same | a didOpen that timed out is delivered all the same, and sent again |
| LspPool | `SpawnsInParallel` | same | the supervisor serves one handshake at a time (ADR-025 moved the wait off the pool, not off the supervisor) |
| LspProc | `CancelIsPrompt` | 2 clients, `Methods = {"request"}`, `Faults = {"slow"}`, `MaxCalls = MaxFrames = 2`, `Budget = 2` | a `$/cancelRequest` is a message to the actor that is blocked in the request it is to cancel: it is written after the request has ended. ADR-016:86-87 says it reaches the server while the request is in flight |
| LspProc | `CacheIsLatest` | 1 client, `{"request"}`, `Chatter = {"publish"}`, `{"slow"}`, 3, 3 | a failed call rolls the client back (proc.gleam:811); a `publishDiagnostics` handled during it is handled again later, over a newer one (diagnostics_cache.gleam:28-30: "the latest") |
| McpDispatch | `CancelsStayHome` | `Transports = {"both"}`, `Lines <- MCOverHttp`, `Leavers = {c1}`, no faults | with `PHAROS_TRANSPORT=both`, HTTP requests bind no session (session_ctx.gleam:62) and share the key space of stdio: a cancel on one kills the request of the other (doc/init.md:734 says the contrary) |
| HttpSessions | `SessionsExpire` | sessions_table, no faults | the eviction sweep is scheduled once, with the time of its scheduling (sessions.gleam:241): idle sessions stay for ever, where sessions.gleam:6-8 says a sweep runs every interval |
| LspProc | `OverrideEnds` | 1 client, `Methods = {"rename"}`, `Chatter = {"applyEdit"}`, `MaxCalls = 2`, `MaxFrames = 3`, no faults | a call that raises leaves its handler installed |
| LspProc | `CapturesOwnEdit` | 2 clients, `{"rename"}`, 2, 2 | two renames at once: one captures the other's edit |
| LspProc | `TypedErrorFirst` | 1 client, `{"request"}`, `{"publish"}`, `{"slow"}`, 1, 3 | chatter restarts the receive timeout (lifecycle.gleam 511, 515, 526) until the caller's own timeout raises; proc.gleam:339-341 says that the budget covers "any notifications drained while waiting" |
| LspProc | `AnsweredOnce` | 1 client, `{"request"}`, `{"configuration"}`, `{"slow"}`, 3, 3 | the rollback answers a server's request twice |
| LspProc | `StreamInStep` | 1 client, `{"request"}`, `{"publish"}`, `{"slow", "split"}`, 2, 3 | a timeout inside a split frame drops its head |
| LspProc | `ServerRequestsAnswered` | `FairSpec`, 1 client, `{"request"}`, `{"configuration"}`, no faults, 1, 2 | a request that arrived together with an answer waits in the queue for the next call |
| McpDispatch | `CancelFindsTheRequest` | `Transports = {"stdio"}`, no faults | the cancel's worker runs before the request's has registered |
| McpDispatch | `NobodyOutlivesTheSession` | `{"daemon"}`, `{"long"}` | the same, at a connection's clean-up after an over-long line |
| McpDispatch | `ExitsAtEndOfInput` | `FairSpec`, `{"stdio"}`, `{"hang"}` | a hung tool keeps the stdio process alive: `PHAROS_SHUTDOWN_DRAIN_MS` (README.md:349) is read by daemon connections only (conn.gleam:393) |
| HttpSessions | `ReconnectStays` | `{"drop"}` | the old stream's detach removes the new stream, since it names only the session |
| HttpSessions | `NewClientsAreServed` | `{"crash"}` | after a restart of the table every POST goes to the dead one (ADR-013:48) |
| SharedDaemon | `NoSessionIsCut` | daemon_share | a session that registers after the idle check's two reads is cut by the exit |
| SharedDaemon | `LiveSocketsAreSpared` | daemon_share | past its start timeout a shim unlinks the socket of a live daemon (ADR-034:87-91: "waited for, never orphaned") |
| SharedDaemon | `DeadDaemonsAreNoticed` | daemon_share with `Faults = {"kill"}` | a daemon that dies before it accepts is a zombie of the shim that started it, which `kill(pid, 0)` finds (client.rs 123-127, 252-253): the shim waits to its deadline, where client.rs:155 says it polls "until the daemon accepts, it dies, or `deadline`" |
| Drive | `Service!Ends` | `Faults = {"orphan"}` | a language server that outlives pharos holds the stderr it inherited (`pharos_lsp_port_ffi.erl` 59-67), and the driver reads that to its end after the kill, without a deadline (`_pharos_drive.py` 107-111, 219-222; `_pharos_drive_http.py` 141) |
| Drive | `Service!Ends` | `Faults = {"shared_io"}`, `PipeSize = 1` | with a pharos that does not read while it writes, a batch longer than the pipes blocks both for ever: drive writes everything before it reads (`_pharos_drive.py` 59-61) |
| Drive | `Service!Ends` | `Faults = {"stubborn"}` | when the port file does not appear the HTTP driver terminates pharos and reads its stderr to the end without a deadline or a kill (`_pharos_drive_http.py` 78-84); at the other end it does kill (133-139) |
| Drive | `phase # "raised"` | `Faults = {"closed_flush"}` | `communicate` after `stdin.close` raises in a Python without the fix of its issue 74389: every stdio driver would |
| Scripts | `PassesAreEarned` | scripts | a driver's timeout has no `result`, and so is not a tool's error: cells 3 and 7 of adr029 and 3 of adr032 pass on a request that was never answered, and cell 2 of adr032 when the call it is about never came through |
| Scripts | `NothingIsOverlooked` | scripts | the suite's header says that every cell is a result that "contains a language-specific landmark substring" (test-suite.py 14-18): `check_position_tool` looks for none, and an empty answer passes; cells 3 and 7 of adr029 (dogfood-adr-029.py 93, 186) pass on a JSON-RPC error |
| Scripts | `ExitTwoIsSetup` | scripts | exit code 2 is "setup failure" (dogfood-adr-029.py 17-20), and also the number of failed cells when two of 1 to 5 fail and there is no URI (432) |
| Dogfood | `FailuresShow` | dogfood | an error whose text has "server gap" in it is marked GAP (dogfood-23lang.py 1558-1560), and shows as G; by the report's key a gap is one of three messages and "FAIL = anything else" (1540-1542) |
| Dogfood | `HttpCallsAreSettled` | dogfood | over HTTP a deadline is an exception, reported as an error of the transport (801-809), which `is_timeout_summary` (858-863: "the harness's own wall-clock deadline") does not know: no cancel, no retry, no short-circuit |
| Dogfood | `MatrixIsComplete` | dogfood | a tool that passed after a retry is marked RETRY, which the parser drops: it shows as never run (`pass-to-matrix.py` 82) |
| Bench | `QuestionsAreUnambiguous` | bench | a question names its file by basename (`oracle.py` 675-678, 328-329, 411, 645): two files of one name make one question with two truths |
| Bench | `CountsAreWhole` | bench | the prewarm waits for symbols in one file, since an answer from a server still reading "silently poisons the downstream sampling" (`oracle.py` 895-902); it need not have read the others, and a count is then too low |
| Bench | `PathsAreWhole` | bench | an answer that goes on after the right path is right (`score.py` 114-115) |
| Bench | `RecursionIsExcluded` | bench | the question leaves a recursive symbol out of its own callers, the truth counts it |
| Bench | `CallersAreCounted` | bench | the question asks for distinct callers; methods of one name in one file are counted once (`oracle.py` 532-543) |
| Bench | `LinesAreInTheBody` | bench | the line asked of is the second of a range, which may begin before the declaration |
| Bench | `ContainersAreInnermost` | bench | the symbols of tests were dropped before the innermost is looked for |

(`Budget = Slack = 1` in LspProc but where it says otherwise; in Drive `FairSpec` with
the constants of the drive run.) This is also why `OneDaemon` and
`ListenersAreReachable` are stated for behaviours in which no start timeout runs
out, and `HandledInOrder` until a call fails: the condition is exactly what the
code does not protect against.

Seen while modelling, and in the models as the code has them:

- The default profile's filtered tools are fired (dogfood-23lang.py 1253-1267), where
  the help of --profile (1589-1593) says they are recorded without being fired.
- A retry that succeeds does not reset the count of consecutive timeouts, and a
  retry that fails for any reason adds to it (1371-1402). A budget counts as raised
  when the answer has a result, a tool's error included, but not on a JSON-RPC error
  (1347).
- A memory cell that expects an error passes on a timeout (1002).
- Over stdio a pharos that dies ends the pass with an exception and no report.
- gen_diagnostics_count says it returns None once its pool is empty; it fills the
  pool again. A pharos that dies while a bank is made leaves a shorter bank and
  exit code 0; so does a workspace whose symbols are all tests. `McpStdio._send`
  waits without a deadline, so that a pharos that is silent hangs the oracle (the
  model has a call fail or succeed).
- harness_deepseek lists pharos's tools outside its `try`: a dead pharos ends the
  pass. An answer without its tags counts for DeepSeek's rows only, which alone
  keep the text.
- drive_serial raises when pharos is dead at the next write, and the answers it
  had are lost with it.

## Not modelled

The parts listed as `not_modelled` in `PROJECT.json`, with reasons: tools that
build one request and render one answer, project memory, registry and
configuration tables, boot and command line, the shim's release management,
build and installers, and the scripts that run one check and print what pharos
says. Within the modelled parts: the contents of requests and
answers, workspace resolution, capabilities, what a tool computes, JSON, HTTP
headers, logging; of the Python, positions and paths of the fixtures, the wording of
reports, costs, the model's own tools and the oracle's prewarm poll. Time is abstracted to ticks or to a bit; memory limits, disk
errors on the pid file and two uses of one pid are left out.

## The plan

In order of what matters most to a user of the program.

1. *Proofs*: `Scripts` (that a verdict is what its checks add up to).
2. *SessionRetry*: `with_session_and_retry`, its eviction of every server of a
   workspace, and several sessions at once, over `PoolService` instead of
   `LspPool`: each of the sessions ends, with at most one retry.
3. *IdleStop*: limits, last use, sweep tokens and intervals; refines the
   pool's "any key may be stopped" by when.
4. *Readiness*: `drain_until_ready` with its budgets against the initialiser's
   timeout and what `lifecycle.gleam` says of silent servers.
5. *Reaper* (`pharos_instance_track_ffi.erl`): one reaper per server, pid reuse
   between check and signal, final and boot reaping.
6. *LogWriter*: bounded mailbox, drop notes, target switch, rotation.
7. *ApplyEdit*: overlap check and splice against a reference definition over all
   small texts and edits; two writers and one temporary name.
8. *DiagnosticsTool*: cache first, then pull, push or merge.
