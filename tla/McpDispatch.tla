----------------------------- MODULE McpDispatch -----------------------------
(***************************************************************************)
(* How MCP lines become requests, and how requests are cancelled:          *)
(* pharos/mcp/dispatch.gleam spawns one unlinked worker per line for the   *)
(* stdio worker (pharos/stdio_worker.gleam) or a daemon connection         *)
(* (pharos/daemon/conn.gleam); server.gleam log_cancel_notification, which *)
(* runs on a worker of its own, looks the cancelled one up in              *)
(* pharos_request_workers and pharos_inflight.                             *)
(*                                                                         *)
(* A line is the worker that will serve it: a request or the cancel of     *)
(* one, named by connection and MCP id (MCP forbids reusing an id on a     *)
(* connection).  The tool a request runs is abstracted to an LSP call it   *)
(* may make; the proc at the other end tracks the call in pharos_inflight  *)
(* whether or not its caller is still there.  Erlang's kill is a signal:   *)
(* its victim may take more steps before it lands.                         *)
(***************************************************************************)
EXTENDS Naturals, Sequences, FiniteSets

CONSTANTS
  Conns,       \* clients: each has the stdio stream, a daemon socket or an HTTP session
  StdioConn,   \* the one on the stdio stream when the process has one
  Transports,  \* transport modes this instance considers
  Lines,       \* bound: the lines the clients may send, each at most once
  Leavers,     \* bound: the clients that may end their input
  NoLine,
  Anonymous,   \* request_workers.anonymous_id
  Eof,         \* end of a client's input
  OverLong,    \* a line past max_line_bytes
  Faults       \* which disruptions this instance considers

ASSUME ConstantsAssumption ==
  /\ StdioConn \in Conns /\ Leavers \subseteq Conns
  /\ Transports \subseteq {"stdio", "http", "both", "daemon"}
  /\ \A w \in Lines : w.conn \in Conns /\ w.kind \in {"request", "cancel"}
  /\ {NoLine, Eof, OverLong} \cap Lines = {} /\ Eof # OverLong
  /\ \A w \in Lines : w.id # Anonymous
  /\ Faults \subseteq {"crash", "hang", "long"}

ASSUME LinesFinite == IsFiniteSet(Lines)

\* MCP: an id is used for one request of a connection.
ASSUME RequestIdsAreFresh ==
  \A v, w \in Lines :
    v.kind = "request" /\ w.kind = "request" /\ v.conn = w.conn /\ v.id = w.id => v = w

VARIABLES
  transport,  \* supervisor.Transport, fixed at boot
  phase,      \* of a connection's process
  wire,       \* what a client has written and the process has not read
  mailbox,    \* what workers have sent it: replies and DOWNs
  inflight,   \* State.inflight: workers spawned, less DOWNs taken
  written,    \* replies that reached the client
  sessions,   \* the daemon's registry of sessions
  pc,         \* of a worker
  victim,     \* whom a cancel found
  rows,       \* pharos_request_workers
  calls,      \* LSP calls a proc is serving, by the worker that made them
  lspRows,    \* pharos_inflight
  doomed,     \* workers a kill signal is on its way to
  kills,      \* <<cancel, whom it killed>>
  cancels,    \* <<cancel, whose LSP call it cancelled>>
  crashed,    \* workers that died of a panic
  missed      \* workers a finishing connection did not find in the table

connVars == <<phase, wire, mailbox, inflight, written, sessions>>
workerVars == <<pc, victim, crashed>>
tables == <<rows, lspRows>>
cancelVars == <<doomed, kills, cancels, missed>>
vars == <<transport, connVars, workerVars, tables, calls, cancelVars>>

-----------------------------------------------------------------------------
(* Transports, sessions and keys.                                           *)

\* supervisor.gleam starts the children of the transport.
Kind(c) ==
  CASE transport = "daemon" -> "daemon"
    [] transport \in {"stdio", "both"} /\ c = StdioConn -> "stdio"
    [] transport \in {"http", "both"} /\ (transport = "http" \/ c # StdioConn) -> "http"
    [] OTHER -> "absent"

\* (mutation) Keys without their session.
Unscoped(c) == <<>>

\* A daemon connection binds its session; every other process falls back to
\* direct_id.
Scope(c) == IF Kind(c) = "daemon" THEN <<c>> ELSE <<>>

PeekId(w) == IF w.kind = "request" THEN w.id ELSE Anonymous
KeyOf(c, id) == <<Scope(c), id>>
WorkerKey(w) == KeyOf(w.conn, PeekId(w))

Ids == {w.id : w \in Lines}
Keys == ({<<>>} \cup {<<c>> : c \in Conns}) \X (Ids \cup {Anonymous})

Of(c) == {w \in Lines : w.conn = c}
Requests == {w \in Lines : w.kind = "request"}
Living == {w \in Lines : pc[w] \notin {"unsent", "sent", "dropped", "dead"}}

Init ==
  /\ transport \in Transports
  /\ phase = [c \in Conns |-> IF Kind(c) = "daemon" THEN "hello" ELSE "serving"]
  /\ wire = [c \in Conns |-> <<>>]
  /\ mailbox = [c \in Conns |-> <<>>]
  /\ inflight = [c \in Conns |-> 0]
  /\ written = {} /\ sessions = {}
  /\ pc = [w \in Lines |-> "unsent"]
  /\ victim = [w \in Lines |-> NoLine]
  /\ rows = [k \in Keys |-> NoLine] /\ lspRows = [k \in Keys |-> NoLine]
  /\ calls = {} /\ doomed = {} /\ kills = {} /\ cancels = {} /\ crashed = {} /\ missed = {}

-----------------------------------------------------------------------------
(* The clients.                                                             *)

Ended(c) == wire[c] # <<>> /\ wire[c][Len(wire[c])] \in {Eof, OverLong}

\* A client cancels only what it has asked for.
Send(w) ==
  /\ Kind(w.conn) # "absent"
  /\ pc[w] = "unsent"
  /\ w.kind = "cancel" =>
       \E r \in Requests : r.conn = w.conn /\ r.id = w.id /\ pc[r] # "unsent"
  /\ phase[w.conn] \in {"hello", "serving"} /\ ~Ended(w.conn)
  /\ pc' = [pc EXCEPT ![w] = "sent"]
  /\ wire' = [wire EXCEPT ![w.conn] = Append(@, w)]
  /\ UNCHANGED <<transport, phase, mailbox, inflight, written, sessions, victim, crashed,
                 tables, calls, cancelVars>>

\* It closes its end, or (a fault) sends a line past max_line_bytes.
End(c, how) ==
  /\ c \in Leavers /\ Kind(c) \in {"stdio", "daemon"}
  /\ how = OverLong => Kind(c) = "daemon" /\ "long" \in Faults
  /\ phase[c] \in {"hello", "serving"} /\ ~Ended(c)
  /\ wire' = [wire EXCEPT ![c] = Append(@, how)]
  /\ UNCHANGED <<transport, phase, mailbox, inflight, written, sessions,
                 workerVars, tables, calls, cancelVars>>

-----------------------------------------------------------------------------
(* The connection's process: stdio_worker and conn.                         *)

\* Streams are read in order; every HTTP request is a process of its own.
Readable(c) == IF Kind(c) = "http" THEN DOMAIN wire[c] ELSE {1} \cap DOMAIN wire[c]
Without(s, i) == SubSeq(s, 1, i - 1) \o SubSeq(s, i + 1, Len(s))

\* dispatch.spawn and a monitor; an HTTP request runs handle_line where it is,
\* with no row in the table.
ReadLine(c) ==
  /\ phase[c] = "serving"
  /\ \E i \in Readable(c) :
       LET w == wire[c][i] IN
       /\ w \in Lines
       /\ wire' = [wire EXCEPT ![c] = Without(@, i)]
       /\ pc' = [pc EXCEPT ![w] = IF Kind(c) = "http" THEN "running" ELSE "spawned"]
  /\ inflight' = [inflight EXCEPT ![c] = IF Kind(c) = "http" THEN @ ELSE @ + 1]
  /\ UNCHANGED <<transport, phase, mailbox, written, sessions, victim, crashed,
                 tables, calls, cancelVars>>

\* Lines a finished process leaves unread are lost.
Drop(c) == pc' = [w \in Lines |-> IF w.conn = c /\ pc[w] = "sent" THEN "dropped" ELSE pc[w]]

\* conn.handle_hello: the first line opens a session; a refused one, a one-shot
\* operator request or a client that leaves at once ends the connection.
ReadHello(c) ==
  /\ phase[c] = "hello"
  /\ \/ /\ phase' = [phase EXCEPT ![c] = "serving"]
        /\ sessions' = sessions \cup {c}
        /\ UNCHANGED pc
     \/ /\ phase' = [phase EXCEPT ![c] = "finished"]
        /\ Drop(c)
        /\ UNCHANGED sessions
  /\ UNCHANGED <<transport, wire, mailbox, inflight, written, victim, crashed,
                 tables, calls, cancelVars>>

\* conn.finish starts with cancel_leftovers; stdio_worker just stops.
Finishes(c) ==
  /\ phase' = [phase EXCEPT ![c] = IF c \in sessions THEN "cancelling" ELSE "finished"]
  /\ Drop(c)

\* stdio_worker.handle_eof and conn.handle_closed, which also starts the timer.
ReadEof(c) ==
  /\ phase[c] = "serving"
  /\ wire[c] # <<>> /\ Head(wire[c]) = Eof
  /\ wire' = [wire EXCEPT ![c] = Tail(@)]
  /\ IF inflight[c] = 0
     THEN Finishes(c)
     ELSE phase' = [phase EXCEPT ![c] = "draining"] /\ UNCHANGED pc
  /\ UNCHANGED <<transport, mailbox, inflight, written, sessions, victim, crashed,
                 tables, calls, cancelVars>>

\* conn.handle_data gives a connection that sends an over-long line up.
ReadLong(c) ==
  /\ phase[c] = "serving"
  /\ wire[c] # <<>> /\ Head(wire[c]) = OverLong
  /\ wire' = [wire EXCEPT ![c] = Tail(@)]
  /\ Finishes(c)
  /\ UNCHANGED <<transport, mailbox, inflight, written, sessions, victim, crashed,
                 tables, calls, cancelVars>>

\* (mutation) A request is over when it has replied.
CountsReplies(m) == m.tag # "down"

\* (mutation) It is counted twice.
CountsBoth(m) == m.tag \in {"write", "down"}

\* Is a worker finished once this message is taken?
Counts(m) == m.tag = "down"

\* Write, WorkerComplete and WorkerExited.
TakeMessage(c) ==
  /\ phase[c] \in {"serving", "draining"}
  /\ mailbox[c] # <<>>
  /\ LET m == Head(mailbox[c]) IN
     /\ written' = IF m.tag = "write" THEN written \cup {m.worker} ELSE written
     /\ inflight' = [inflight EXCEPT ![c] = IF Counts(m) THEN @ - 1 ELSE @]
     /\ mailbox' = [mailbox EXCEPT ![c] = Tail(@)]
     /\ IF Counts(m) /\ phase[c] = "draining" /\ inflight'[c] = 0
        THEN Finishes(c)
        ELSE UNCHANGED <<phase, pc>>
  /\ UNCHANGED <<transport, wire, sessions, victim, crashed, tables, calls, cancelVars>>

\* Only conn bounds its drain.
HasDrainTimer(c) == Kind(c) = "daemon"

DrainTimeout(c) ==
  /\ phase[c] = "draining" /\ HasDrainTimer(c)
  /\ Finishes(c)
  /\ UNCHANGED <<transport, wire, mailbox, inflight, written, sessions, victim, crashed,
                 tables, calls, cancelVars>>

\* cancel_leftovers, first half: cancel and forget the LSP calls of the session.
CancelCalls(c) ==
  /\ phase[c] = "cancelling"
  /\ phase' = [phase EXCEPT ![c] = "killing"]
  /\ lspRows' = [k \in Keys |-> IF k[1] = Scope(c) THEN NoLine ELSE lspRows[k]]
  /\ UNCHANGED <<transport, wire, mailbox, inflight, written, sessions,
                 workerVars, rows, calls, cancelVars>>

\* Second half: kill the workers in the table; then unregister and close.
KillLeftovers(c) ==
  LET found == {w \in Lines : \E k \in Keys : k[1] = Scope(c) /\ rows[k] = w} IN
  /\ phase[c] = "killing"
  /\ phase' = [phase EXCEPT ![c] = "finished"]
  /\ doomed' = doomed \cup found
  /\ missed' = missed \cup ({w \in Of(c) : pc[w] = "spawned"} \ found)
  /\ rows' = [k \in Keys |-> IF k[1] = Scope(c) THEN NoLine ELSE rows[k]]
  /\ sessions' = sessions \ {c}
  /\ UNCHANGED <<transport, wire, mailbox, inflight, written, workerVars, lspRows, calls,
                 kills, cancels>>

-----------------------------------------------------------------------------
(* A worker: the body of dispatch.spawn.                                    *)

Open(c) == phase[c] # "finished"
Tell(c, m) == mailbox' = IF Open(c) THEN [mailbox EXCEPT ![c] = Append(@, m)] ELSE mailbox

At(w, label) == pc[w] = label
GoTo(w, label) == pc' = [pc EXCEPT ![w] = label]

Register(w) ==
  /\ At(w, "spawned")
  /\ rows' = [rows EXCEPT ![WorkerKey(w)] = w]
  /\ GoTo(w, "running")
  /\ UNCHANGED <<transport, connVars, victim, crashed, lspRows, calls, cancelVars>>

\* proc.request: the proc tracks the call and serves it.
CallLsp(w) ==
  /\ w \in Requests /\ At(w, "running")
  /\ GoTo(w, "calling")
  /\ calls' = calls \cup {w}
  /\ lspRows' = [lspRows EXCEPT ![WorkerKey(w)] = w]
  /\ UNCHANGED <<transport, connVars, victim, crashed, rows, cancelVars>>

\* The proc ends a call, answered or not, and untracks its key.
LspAnswers(w) ==
  /\ w \in calls
  /\ calls' = calls \ {w}
  /\ lspRows' = [lspRows EXCEPT ![WorkerKey(w)] = NoLine]
  /\ pc' = [pc EXCEPT ![w] = IF @ = "calling" THEN "answered" ELSE @]
  /\ UNCHANGED <<transport, connVars, victim, crashed, rows, cancelVars>>

\* handle_line returned: the reply goes to the writer, or straight back over HTTP.
Reply(w) ==
  /\ \/ w \in Requests /\ (At(w, "running") \/ At(w, "answered"))
     \/ w \notin Requests /\ At(w, "cancelled")
  /\ IF Kind(w.conn) = "http"
     THEN /\ GoTo(w, "dead")
          /\ written' = written \cup {w}
          /\ UNCHANGED mailbox
     ELSE /\ GoTo(w, "replied")
          /\ Tell(w.conn, [tag |-> IF w \in Requests THEN "write" ELSE "done", worker |-> w])
          /\ UNCHANGED written
  /\ UNCHANGED <<transport, phase, wire, inflight, sessions, victim, crashed,
                 tables, calls, cancelVars>>

\* Its process is gone: the connection's monitor fires.
Exits(w) ==
  /\ GoTo(w, "dead")
  /\ Tell(w.conn, [tag |-> "down", worker |-> w])
  /\ UNCHANGED <<transport, phase, wire, inflight, written, sessions, victim>>

Deregister(w) ==
  /\ At(w, "replied")
  /\ rows' = [rows EXCEPT ![WorkerKey(w)] = NoLine]
  /\ Exits(w)
  /\ UNCHANGED <<crashed, lspRows, calls, cancelVars>>

\* A kill signal lands.
Dies(w) ==
  /\ w \in doomed /\ w \in Living
  /\ Exits(w)
  /\ UNCHANGED <<crashed, tables, calls, cancelVars>>

\* A tool panics (nothing in handle_line rescues it), or never returns.
Panics(w) ==
  /\ "crash" \in Faults
  /\ w \in Requests /\ (At(w, "running") \/ At(w, "answered")) /\ Kind(w.conn) # "http"
  /\ crashed' = crashed \cup {w}
  /\ Exits(w)
  /\ UNCHANGED <<tables, calls, cancelVars>>

Hangs(w) ==
  /\ "hang" \in Faults
  /\ w \in Requests /\ At(w, "running")
  /\ GoTo(w, "hung")
  /\ UNCHANGED <<transport, connVars, victim, crashed, tables, calls, cancelVars>>

-----------------------------------------------------------------------------
(* notifications/cancelled: server.gleam log_cancel_notification.           *)

LookUpWorker(w) ==
  LET k == KeyOf(w.conn, w.id) IN
  /\ w \notin Requests /\ At(w, "running")
  /\ victim' = [victim EXCEPT ![w] = rows[k]]
  /\ GoTo(w, IF rows[k] = NoLine THEN "routing" ELSE "killing")
  /\ UNCHANGED <<transport, connVars, crashed, tables, calls, cancelVars>>

\* (mutation) An exit signal with reason normal, which a worker ignores.
ExitNormally(w) ==
  /\ At(w, "killing")
  /\ GoTo(w, "clearing")
  /\ UNCHANGED <<transport, connVars, victim, crashed, tables, calls, cancelVars>>

\* process.kill.
Kill(w) ==
  /\ At(w, "killing")
  /\ kills' = kills \cup {<<w, victim[w]>>}
  /\ doomed' = doomed \cup {victim[w]}
  /\ GoTo(w, "clearing")
  /\ UNCHANGED <<transport, connVars, victim, crashed, tables, calls, cancels, missed>>

\* (mutation) The killed worker's row stays.
KeepRow(w) ==
  /\ At(w, "clearing")
  /\ GoTo(w, "routing")
  /\ UNCHANGED <<transport, connVars, victim, crashed, tables, calls, cancelVars>>

ClearRow(w) ==
  /\ At(w, "clearing")
  /\ rows' = [rows EXCEPT ![KeyOf(w.conn, w.id)] = NoLine]
  /\ GoTo(w, "routing")
  /\ UNCHANGED <<transport, connVars, victim, crashed, lspRows, calls, cancelVars>>

\* The in-flight LSP call is cancelled at its proc, best effort.
CancelCall(w) ==
  LET k == KeyOf(w.conn, w.id) IN
  /\ At(w, "routing")
  /\ cancels' = IF lspRows[k] = NoLine THEN cancels ELSE cancels \cup {<<w, lspRows[k]>>}
  /\ GoTo(w, "cancelled")
  /\ UNCHANGED <<transport, connVars, victim, crashed, tables, calls, doomed, kills, missed>>

-----------------------------------------------------------------------------
Client == (\E w \in Lines : Send(w)) \/ (\E c \in Conns : End(c, Eof) \/ End(c, OverLong))

Process(c) ==
  \/ ReadLine(c) \/ ReadHello(c) \/ ReadEof(c) \/ ReadLong(c)
  \/ TakeMessage(c) \/ CancelCalls(c) \/ KillLeftovers(c)

Works(w) ==
  \/ Register(w) \/ Reply(w) \/ Deregister(w)
  \/ LookUpWorker(w) \/ Kill(w) \/ ClearRow(w) \/ CancelCall(w)

Next ==
  \/ Client
  \/ \E c \in Conns : Process(c) \/ DrainTimeout(c)
  \/ \E w \in Lines : Works(w) \/ CallLsp(w) \/ LspAnswers(w) \/ Dies(w) \/ Panics(w) \/ Hangs(w)

Spec == Init /\ [][Next]_vars

\* The scheduler runs every process; signals and timers arrive; and a proc ends
\* every call (LspProc!LoopsEnd).  Clients owe nothing, hung tools are stuck.
Fairness ==
  /\ \A c \in Conns : WF_vars(Process(c)) /\ WF_vars(DrainTimeout(c))
  /\ \A w \in Lines : WF_vars(Works(w)) /\ WF_vars(LspAnswers(w)) /\ WF_vars(Dies(w))

FairSpec == Spec /\ Fairness

-----------------------------------------------------------------------------
(* Properties.                                                              *)

\* Types of the variables.
TypeOK ==
  /\ transport \in Transports
  /\ phase \in [Conns -> {"hello", "serving", "draining", "cancelling", "killing", "finished"}]
  /\ \A c \in Conns : \A i \in DOMAIN wire[c] : wire[c][i] \in Lines \cup {Eof, OverLong}
  /\ \A c \in Conns : \A i \in DOMAIN mailbox[c] :
       mailbox[c][i] \in [tag : {"write", "done", "down"}, worker : Lines]
  /\ inflight \in [Conns -> 0..Cardinality(Lines)]
  /\ pc \in [Lines -> {"unsent", "sent", "dropped", "spawned", "running", "calling", "answered",
                       "hung", "killing", "clearing", "routing", "cancelled", "replied", "dead"}]
  /\ victim \in [Lines -> Lines \cup {NoLine}]
  /\ rows \in [Keys -> Lines \cup {NoLine}] /\ lspRows \in [Keys -> Lines \cup {NoLine}]
  /\ sessions \subseteq Conns
  /\ written \subseteq Lines /\ calls \subseteq Lines /\ doomed \subseteq Lines
  /\ crashed \subseteq Lines /\ missed \subseteq Lines
  /\ kills \subseteq Lines \X Lines /\ cancels \subseteq Lines \X Lines

\* A cancel stops nothing but the request it names on its own connection, even
\* when other connections use the same id (session_ctx.scoped).
CancelsStayHome ==
  \A p \in kills \cup cancels :
    p[2].kind = "request" /\ p[2].conn = p[1].conn /\ p[2].id = p[1].id

\* The process exits on end of input only when nothing is left to write: every
\* worker is gone and every reply it sent has been written (handle_eof,
\* step_inflight).
NothingLostAtExit ==
  \A c \in Conns : Kind(c) = "stdio" /\ phase[c] = "finished" =>
    /\ Of(c) \cap Living = {}
    /\ \A i \in DOMAIN mailbox[c] : mailbox[c][i].tag # "write"

\* A row of pharos_request_workers outlives its worker only while the cancel
\* that killed it is still at work, or if the worker panicked (dispatch.spawn
\* has no cleanup for that, whatever request_workers.gleam says), or if the row
\* came after its connection had cleaned up.
RowsAreCurrent ==
  \A k \in Keys : rows[k] # NoLine /\ rows[k] \notin Living =>
    \/ rows[k] \in crashed \cup missed
    \/ \E w \in Living : victim[w] = rows[k] /\ pc[w] \in {"killing", "clearing"}

\* A connection that has finished leaves no request running, but for workers
\* spawned too recently to be in the table when cancel_leftovers read it.
LeftoversAreStopped ==
  \A c \in Conns : Kind(c) = "daemon" /\ phase[c] = "finished" =>
    Of(c) \cap Requests \cap Living \subseteq doomed \cup missed

\* The table of request workers and the workers that run agree, for the cancels
\* and the clean-up that go by it.
RequestsAreTracked == RowsAreCurrent /\ LeftoversAreStopped

\* Once its client has gone a connection finishes, hung tools or not; the stdio
\* worker, which has no drain timer, finishes unless a tool hangs.
DrainEnds ==
  \A c \in Conns : phase[c] = "draining" ~>
    \/ phase[c] = "finished"
    \/ Kind(c) = "stdio" /\ \E w \in Of(c) : pc[w] = "hung"

\* A cancel that found its request in the table ends it, however deaf the
\* language server and however stuck the tool; unless its connection finishes
\* meanwhile, which kills the cancel too.
CancelFreesTheWorker ==
  \A w \in Requests : (\E x \in Lines : At(x, "killing") /\ victim[x] = w) ~>
    pc[w] = "dead" \/ w \in missed

\* Both ways in which a client stops its requests come to an end.
RequestsEnd == DrainEnds /\ CancelFreesTheWorker

\* Not so: doc/init.md says the worker of a cancelled request is stopped, that the
\* cancel, read after the request, finds it.  The cancel's worker may run first.
CancelFindsTheRequest ==
  \A w \in Requests : \A x \in Lines \ Requests :
    x.conn = w.conn /\ x.id = w.id /\ pc[x] = "cancelled" /\ pc[w] # "dead" => w \in doomed

\* Not so: conn.gleam says that what the session left running is cancelled.  What
\* is missed is not.
NobodyOutlivesTheSession ==
  \A c \in Conns : Kind(c) = "daemon" /\ phase[c] = "finished" =>
    Of(c) \cap Requests \cap Living \subseteq doomed

\* Not so, for stdio: at the end of input the process waits for requests, but
\* PHAROS_SHUTDOWN_DRAIN_MS at most.
ExitsAtEndOfInput == \A c \in Conns : phase[c] = "draining" ~> phase[c] = "finished"
=============================================================================
