----------------------------- MODULE SharedDaemon -----------------------------
(***************************************************************************)
(* How shims find, start and share the daemon of one build and key         *)
(* (shim/src/client.rs), and how a daemon takes the key's socket, counts   *)
(* its sessions and exits when idle (pharos/daemon.gleam,                  *)
(* pharos_daemon_ffi.erl, the hello of pharos/daemon/conn.gleam).          *)
(*                                                                         *)
(* A shim runs once and starts at most one daemon, a child of its own that *)
(* it does not wait for: the daemon has the shim's name here.  The socket  *)
(* and the pid file are what they name.  Time is one bit per daemon:       *)
(* whether the idle timeout has gone by since its last activity.           *)
(***************************************************************************)
EXTENDS Naturals, FiniteSets

CONSTANTS
  Shims,        \* shim processes
  None,
  Faults,       \* which disruptions this instance considers
  MaxTrouble    \* bound: how many of them but slowness one behaviour may see

ASSUME ConstantsAssumption ==
  /\ None \notin Shims
  /\ MaxTrouble \in Nat
  /\ Faults \subseteq {"slow", "exec", "listener", "conn", "kill", "term"}

\* The daemon a shim starts, if it does.
Daemons == Shims

VARIABLES
  phase,     \* how far each shim is
  of,        \* the daemon a shim waits for or talks to
  lock,      \* who holds the flock
  socket,    \* the daemon whose listener made the socket file
  pidfile,   \* the daemon the pid file names
  stage,     \* how far each daemon is
  listening, \* its listener is open
  conn,      \* the daemon's side of a shim's connection
  rows,      \* pharos_daemon_sessions: the shims whose session has a row
  quiet,     \* last_active is at least idle_ms ago
  late,      \* sessions that got their row after the last read of sessions_live
  trouble    \* the faults that have happened

shimVars == <<phase, of, lock>>
fileVars == <<socket, pidfile>>
daemonVars == <<stage, listening, quiet>>
connVars == <<conn, rows, late>>
vars == <<shimVars, fileVars, daemonVars, connVars, trouble>>

Init ==
  /\ phase = [s \in Shims |-> "start"]
  /\ of = [s \in Shims |-> None]
  /\ lock = None /\ socket = None /\ pidfile = None
  /\ stage = [d \in Daemons |-> "unborn"]
  /\ listening = [d \in Daemons |-> FALSE]
  /\ conn = [s \in Shims |-> "none"]
  /\ rows = {} /\ late = {}
  /\ quiet = [d \in Daemons |-> FALSE]
  /\ trouble = {}

\* States of a connection that hold no process of the daemon.
Done == {"none", "closed", "ended"}

Alive(d) == d \in Daemons /\ stage[d] \notin {"unborn", "dead"}

\* The shim that started it is still there (in direct mode it has become the
\* session's own pharos) and has not waited for it: the pid stays taken.
Zombie(d) == d \in Daemons /\ stage[d] = "dead" /\ phase[d] \notin {"left", "lost"}

\* alive: kill(pid, 0) finds the process, or what is left of it.
Exists(d) == Alive(d) \/ Zombie(d)

\* connect(2) reaches a listener only through its file.
Connectable == socket # None /\ listening[socket]

\* A wait for a daemon that is dead, and whose pid does not say so.
InVain(s) == phase[s] \in {"waitold", "waitnew"} /\ ~Connectable /\ Zombie(of[s])

\* A start timeout runs out by slowness alone, as often as it likes, or once
\* somebody waits in vain: the others wait meanwhile.  Another fault happens once.
Happens(f) ==
  /\ f \in Faults
  /\ f = "slow" => trouble = {} \/ f \in trouble \/ \E s \in Shims : InVain(s)
  /\ f # "slow" => trouble \cap {f, "slow"} = {} /\ Cardinality(trouble) < MaxTrouble
  /\ trouble' = trouble \cup {f}

-----------------------------------------------------------------------------
(* The shim.                                                                *)

\* A connected shim sends its hello and lets go of the lock.
Connects(s) ==
  /\ Connectable
  /\ phase' = [phase EXCEPT ![s] = "hello"]
  /\ of' = [of EXCEPT ![s] = socket]
  /\ conn' = [conn EXCEPT ![s] = "queued"]
  /\ lock' = IF lock = s THEN None ELSE lock
  /\ UNCHANGED <<fileVars, daemonVars, rows, late, trouble>>

Goes(s, p) ==
  /\ phase' = [phase EXCEPT ![s] = p]
  /\ UNCHANGED <<fileVars, daemonVars, connVars>>

\* (mutation) The lock is not let go of on the way out.
GivesUpHolding(s) ==
  /\ Goes(s, "direct")
  /\ of' = [of EXCEPT ![s] = IF conn[s] \in Done THEN None ELSE @]
  /\ UNCHANGED lock

\* The session runs without the daemon; the lock file is closed.
GivesUp(s) ==
  /\ Goes(s, "direct")
  /\ lock' = IF lock = s THEN None ELSE lock
  /\ of' = [of EXCEPT ![s] = IF conn[s] \in Done THEN None ELSE @]

\* run: the first connect, without the lock.
Start(s) ==
  /\ phase[s] = "start"
  /\ \/ Connects(s)
     \/ ~Connectable /\ Goes(s, "locking") /\ UNCHANGED <<of, lock, trouble>>

TakeLock(s) ==
  /\ phase[s] = "locking" /\ lock = None
  /\ Goes(s, "locked")
  /\ lock' = s
  /\ UNCHANGED <<of, trouble>>

\* (mutation) Whoever gets the lock starts a daemon.
RecheckNothing(s) ==
  phase[s] = "locked" /\ Goes(s, "readpid") /\ UNCHANGED <<of, lock, trouble>>

\* Another shim may have just started it.
Recheck(s) ==
  /\ phase[s] = "locked"
  /\ \/ Connects(s)
     \/ ~Connectable /\ Goes(s, "readpid") /\ UNCHANGED <<of, lock, trouble>>

\* is_our_daemon: the command line of a zombie is empty, and two processes of the
\* model never share a pid.
IsOurDaemon(d) == Alive(d)

ReadPid(s) ==
  /\ phase[s] = "readpid"
  /\ IF IsOurDaemon(pidfile)
     THEN Goes(s, "waitold") /\ of' = [of EXCEPT ![s] = pidfile]
     ELSE Goes(s, "unlink") /\ UNCHANGED of
  /\ UNCHANGED <<lock, trouble>>

\* An old daemon is replaced when the wait for it fails.
EndsWait(s) ==
  IF phase[s] = "waitold" THEN Goes(s, "unlink") /\ UNCHANGED <<of, lock>> ELSE GivesUp(s)

\* wait_for_accept, on a daemon that was there and on one's own.
Waits(s) ==
  /\ phase[s] \in {"waitold", "waitnew"}
  /\ \/ Connects(s)
     \/ ~Connectable /\ ~Exists(of[s]) /\ EndsWait(s) /\ UNCHANGED trouble

\* What it waits for has died unnoticed: the wait lasts to the deadline, and the
\* time is spent for what comes after it.
WaitedInVain(s) ==
  /\ InVain(s)
  /\ EndsWait(s)
  /\ trouble' = trouble \cup {"slow"}

RemoveSocket(s) ==
  /\ phase[s] = "unlink"
  /\ phase' = [phase EXCEPT ![s] = "unpid"]
  /\ socket' = None
  /\ UNCHANGED <<of, lock, pidfile, daemonVars, connVars, trouble>>

RemovePid(s) ==
  /\ phase[s] = "unpid"
  /\ phase' = [phase EXCEPT ![s] = "spawn"]
  /\ pidfile' = None
  /\ UNCHANGED <<of, lock, socket, daemonVars, connVars, trouble>>

SpawnDaemon(s) ==
  /\ phase[s] = "spawn"
  /\ phase' = [phase EXCEPT ![s] = "waitnew"]
  /\ of' = [of EXCEPT ![s] = s]
  /\ stage' = [stage EXCEPT ![s] = "probe"]
  /\ UNCHANGED <<lock, fileVars, listening, quiet, connVars, trouble>>

SpawnFails(s) ==
  /\ Happens("exec")
  /\ phase[s] = "spawn" /\ GivesUp(s)

\* PHAROS_DAEMON_START_TIMEOUT_MS runs out, for the lock, a wait or the ack.
\* A live daemon is replaced as if it were dead.
StartTimeout(s) ==
  /\ Happens("slow")
  /\ phase[s] \in {"locking", "waitold", "waitnew", "hello"}
  /\ EndsWait(s)

\* An ack that was sent can be read even if the connection is closed since.
HelloEnds(s) ==
  /\ phase[s] = "hello"
  /\ \/ conn[s] \in {"serving", "closed"} /\ Goes(s, "session") /\ UNCHANGED <<of, lock>>
     \/ conn[s] = "ended" /\ GivesUp(s)
  /\ UNCHANGED trouble

\* The client closes stdin.
Leave(s) == phase[s] = "session" /\ Goes(s, "left") /\ UNCHANGED <<of, lock, trouble>>

\* relay: the daemon's end closed first.
Lose(s) ==
  /\ phase[s] = "session" /\ conn[s] = "closed"
  /\ Goes(s, "lost") /\ UNCHANGED <<of, lock, trouble>>

-----------------------------------------------------------------------------
(* A daemon takes the key: start_supervised, at boot and after a restart.   *)

\* What is connected to d and in one of these states has its socket closed, before
\* the ack or after.
Cut(d, states) ==
  conn' = [s \in Shims |-> IF of[s] # d \/ conn[s] \notin states THEN conn[s]
                            ELSE IF conn[s] \in {"serving", "leaving"} THEN "closed" ELSE "ended"]

DaemonAt(d, from, to) == stage[d] = from /\ stage' = [stage EXCEPT ![d] = to]

\* listen/1 on a file that is there: someone's, or stale.  The initialiser that
\* fails takes the application down.
Probe(d) ==
  /\ DaemonAt(d, "probe", CASE socket = None -> "bind"
                            [] Connectable -> "cleanup"
                            [] OTHER -> "stale")
  /\ UNCHANGED <<shimVars, fileVars, listening, quiet, connVars, trouble>>

RemoveStale(d) ==
  /\ DaemonAt(d, "stale", "bind")
  /\ socket' = None
  /\ UNCHANGED <<shimVars, pidfile, listening, quiet, connVars, trouble>>

\* bind(2) makes the file or fails.
Bind(d) ==
  /\ IF socket = None
     THEN /\ DaemonAt(d, "bind", "writepid")
          /\ socket' = d
          /\ listening' = [listening EXCEPT ![d] = TRUE]
     ELSE DaemonAt(d, "bind", "cleanup") /\ UNCHANGED <<socket, listening>>
  /\ UNCHANGED <<shimVars, pidfile, quiet, connVars, trouble>>

\* write_pid_file and register_cleanup; the acceptor and the idle timer start.
WritePid(d) ==
  /\ DaemonAt(d, "writepid", "serving")
  /\ pidfile' = d
  /\ UNCHANGED <<shimVars, socket, listening, quiet, connVars, trouble>>

-----------------------------------------------------------------------------
(* Its connections.                                                         *)

ConnStep(s, from, to) == conn[s] = from /\ conn' = [conn EXCEPT ![s] = to]

Accept(s) ==
  /\ ConnStep(s, "queued", "accepted")
  /\ stage[of[s]] # "writepid"
  /\ UNCHANGED <<shimVars, fileVars, daemonVars, rows, late, trouble>>

\* session_register: the row ...
InsertRow(s) ==
  /\ ConnStep(s, "accepted", "listed")
  /\ rows' = rows \cup {s} /\ late' = late \cup {s}
  /\ UNCHANGED <<shimVars, fileVars, daemonVars, trouble>>

Touch(d) == quiet' = [quiet EXCEPT ![d] = FALSE]

\* ... then sessions_touch, and the ack.
Acknowledge(s) ==
  /\ ConnStep(s, "listed", "serving")
  /\ Touch(of[s])
  /\ UNCHANGED <<shimVars, fileVars, stage, listening, rows, late, trouble>>

\* finish, once the shim's end is closed: session_unregister, row first.
DeleteRow(s) ==
  /\ ConnStep(s, "serving", "leaving")
  /\ phase[s] \notin {"hello", "session"}
  /\ rows' = rows \ {s} /\ late' = late \ {s}
  /\ UNCHANGED <<shimVars, fileVars, daemonVars, trouble>>

Unregister(s) ==
  /\ ConnStep(s, "leaving", "closed")
  /\ Touch(of[s])
  /\ UNCHANGED <<shimVars, fileVars, stage, listening, rows, late, trouble>>

\* The connection's process crashes; its row stays.
ConnCrash(s) ==
  /\ Happens("conn")
  /\ ConnStep(s, "serving", "closed")
  /\ UNCHANGED <<shimVars, fileVars, daemonVars, rows, late>>

-----------------------------------------------------------------------------
(* Idle exit, stop and death.                                               *)

RowsOf(d) == {s \in rows : of[s] = d}

\* (mutation) Rows of connections that crashed are never pruned.
AllRows(d) == RowsOf(d)

\* The filter of sessions_live.
LiveRows(d) == {s \in RowsOf(d) : conn[s] \notin Done}

\* IdleCheck reads sessions_live, which prunes; with sessions it touches ...
CheckLive(d) ==
  /\ stage[d] = "serving"
  /\ rows' = rows \ (RowsOf(d) \ LiveRows(d))
  /\ late' = {s \in late : of[s] # d}
  /\ IF LiveRows(d) = {}
     THEN DaemonAt(d, "serving", "asked") /\ UNCHANGED quiet
     ELSE Touch(d) /\ UNCHANGED stage
  /\ UNCHANGED <<shimVars, fileVars, listening, conn, trouble>>

\* ... without, it looks at last_active.
CheckQuiet(d) ==
  /\ DaemonAt(d, "asked", IF quiet[d] THEN "cleanup" ELSE "serving")
  /\ UNCHANGED <<shimVars, fileVars, listening, quiet, connVars, trouble>>

\* Only what an idle check can still see matters.
Elapse(d) ==
  /\ stage[d] \in {"serving", "asked"} /\ ~quiet[d]
  /\ quiet' = [quiet EXCEPT ![d] = TRUE]
  /\ UNCHANGED <<shimVars, fileVars, stage, listening, connVars, trouble>>

Mine(d) == pidfile = d

\* cleanup runs twice: before init:stop, with the listener still open, and again
\* as the application stops, the daemon actor gone.
AfterCleanup(d) == IF listening[d] THEN "halt" ELSE "dead"

\* The end of the process closes every connection; its table goes with it.
Ends(d) ==
  /\ Cut(d, {"queued", "accepted", "listed", "serving", "leaving"})
  /\ rows' = rows \ RowsOf(d) /\ late' = late \ RowsOf(d)

Moves(d, from, to) ==
  /\ DaemonAt(d, from, to)
  /\ IF to = "dead" THEN Ends(d) ELSE UNCHANGED connVars
  /\ UNCHANGED <<shimVars, listening, quiet, trouble>>

Cleanup(d) ==
  /\ Moves(d, "cleanup", IF Mine(d) THEN "rmsocket" ELSE AfterCleanup(d))
  /\ UNCHANGED fileVars

CleanupSocket(d) == Moves(d, "rmsocket", "rmpid") /\ socket' = None /\ UNCHANGED pidfile

CleanupPid(d) == Moves(d, "rmpid", AfterCleanup(d)) /\ pidfile' = None /\ UNCHANGED socket

\* init:stop reaches the daemon actor: its listener closes.
Halt(d) ==
  /\ DaemonAt(d, "halt", "cleanup")
  /\ listening' = [listening EXCEPT ![d] = FALSE]
  /\ Cut(d, {"queued"})
  /\ UNCHANGED <<shimVars, fileVars, quiet, rows, late, trouble>>

\* pharos daemon stop, and SIGTERM, which goes straight to init:stop.
Stop(d) ==
  /\ Happens("term")
  /\ \E to \in {"cleanup", "halt"} : DaemonAt(d, "serving", to)
  /\ UNCHANGED <<shimVars, fileVars, listening, quiet, connVars>>

\* (mutation) The table belongs to the actor.
ListenerCrashForgets(d) ==
  /\ Happens("listener")
  /\ DaemonAt(d, "serving", "probe")
  /\ listening' = [listening EXCEPT ![d] = FALSE]
  /\ Cut(d, {"queued"})
  /\ rows' = rows \ RowsOf(d) /\ late' = late
  /\ UNCHANGED <<shimVars, fileVars, quiet>>

\* The daemon actor or its acceptor crashes: connections live on, the supervisor
\* starts the actor again.
ListenerCrash(d) ==
  /\ Happens("listener")
  /\ DaemonAt(d, "serving", "probe")
  /\ listening' = [listening EXCEPT ![d] = FALSE]
  /\ Cut(d, {"queued"})
  /\ UNCHANGED <<shimVars, fileVars, quiet, rows, late>>

Kill(d) ==
  /\ Happens("kill")
  /\ Alive(d)
  /\ stage' = [stage EXCEPT ![d] = "dead"]
  /\ listening' = [listening EXCEPT ![d] = FALSE]
  /\ Ends(d)
  /\ UNCHANGED <<shimVars, fileVars, quiet>>

-----------------------------------------------------------------------------
ShimStep(s) ==
  \/ Start(s) \/ TakeLock(s) \/ Recheck(s) \/ ReadPid(s) \/ Waits(s) \/ WaitedInVain(s)
  \/ RemoveSocket(s) \/ RemovePid(s) \/ SpawnDaemon(s)
  \/ HelloEnds(s) \/ Lose(s)

ServeStep(s) ==
  Accept(s) \/ InsertRow(s) \/ Acknowledge(s) \/ DeleteRow(s) \/ Unregister(s)

DaemonStep(d) ==
  \/ Probe(d) \/ RemoveStale(d) \/ Bind(d) \/ WritePid(d) \/ CheckLive(d) \/ CheckQuiet(d)
  \/ Cleanup(d) \/ CleanupSocket(d) \/ CleanupPid(d) \/ Halt(d)

Next ==
  \/ \E s \in Shims : ShimStep(s) \/ ServeStep(s) \/ SpawnFails(s) \/ StartTimeout(s) \/ Leave(s) \/ ConnCrash(s)
  \/ \E d \in Daemons : DaemonStep(d) \/ Elapse(d) \/ Stop(d) \/ ListenerCrash(d) \/ Kill(d)

Spec == Init /\ [][Next]_vars

\* Processes run and time passes; nobody has to leave, stop or fail.
FairSpec ==
  /\ Spec
  /\ \A s \in Shims : WF_vars(ShimStep(s)) /\ WF_vars(ServeStep(s))
  /\ \A d \in Daemons : WF_vars(DaemonStep(d)) /\ WF_vars(Elapse(d))

-----------------------------------------------------------------------------
(* Properties.                                                              *)

TypeOK ==
  /\ phase \in [Shims -> {"start", "locking", "locked", "readpid", "waitold", "unlink", "unpid",
                          "spawn", "waitnew", "hello", "session", "left", "lost", "direct"}]
  /\ of \in [Shims -> Daemons \cup {None}]
  /\ lock \in {s \in Shims : phase[s] \in {"locked", "readpid", "waitold", "unlink", "unpid",
                                           "spawn", "waitnew"}} \cup {None}
  /\ socket \in Daemons \cup {None} /\ pidfile \in Daemons \cup {None}
  /\ stage \in [Daemons -> {"unborn", "probe", "stale", "bind", "writepid", "serving", "asked",
                            "cleanup", "rmsocket", "rmpid", "halt", "dead"}]
  /\ listening \in [Daemons -> BOOLEAN]
  /\ conn \in [Shims -> {"none", "queued", "accepted", "listed", "serving", "leaving", "closed", "ended"}]
  /\ rows \subseteq Shims /\ late \subseteq Shims
  /\ quiet \in [Daemons -> BOOLEAN] /\ trouble \subseteq Faults \cup {"slow"}

Hurried == "slow" \in trouble

\* Daemons that have not been told, or decided, to end.
Up(d) == stage[d] \in {"probe", "stale", "bind", "writepid", "serving", "asked"}

\* As long as no start timeout runs out, shims starting at once get one daemon,
\* whatever crashes, is killed or stops meanwhile.
OneDaemon == ~Hurried => \A d, e \in Daemons : Up(d) /\ Up(e) => d = e

\* As long as no start timeout runs out, the socket file leads to the daemon that
\* listens: no shim and no dying daemon ever removes it from under a newer one.
ListenersAreReachable ==
  ~Hurried => \A d \in Daemons : Up(d) /\ listening[d] => socket = d

\* There is one daemon, and the shims that come find it.
DaemonIsShared == OneDaemon /\ ListenersAreReachable

Served(d) == {s \in Shims : of[s] = d /\ conn[s] \in {"listed", "serving"}}

\* A daemon that finds itself idle has no session but one that got its row after
\* the check began: restarts of the actor and crashed connections mislead nobody.
IdleMeansIdle ==
  [][\A d \in Daemons : stage[d] = "asked" /\ stage'[d] = "cleanup" => Served(d) \subseteq late]_vars

\* Every shim ends up with a session or in direct mode.  The one wait that needs
\* its timeout for that is the wait for a daemon that has died and is still
\* somebody's zombie.
ShimsSettle ==
  \A s \in Shims : phase[s] = "start" ~> phase[s] \in {"session", "left", "lost", "direct"}

\* A daemon whose sessions have all ended, well or badly, exits.
IdleDaemonsExit ==
  \A d \in Daemons : <>[](\A s \in Shims : of[s] = d => conn[s] \in Done)
                     => <>[](stage[d] \in {"unborn", "dead"})

\* Shims and daemons come to rest.
AllSettle == ShimsSettle /\ IdleDaemonsExit

\* Not so: a session acknowledged after the idle check looked is cut when the
\* daemon it has just joined exits.
NoSessionIsCut ==
  [][\A d \in Daemons : stage[d] = "rmpid" /\ stage'[d] = "halt" /\ "term" \notin trouble
       => Served(d) = {}]_vars

\* Not so: a shim polls "until the daemon accepts, it dies, or `deadline`"
\* (client.rs 155), so no deadline runs out on a daemon that is dead.  The daemon a
\* shim has started stays its zombie, which kill(pid, 0) finds (123-127, 252-253).
DeadDaemonsAreNoticed == [][\A s \in Shims : InVain(s) => Hurried' = Hurried]_vars

\* Not so: past its start timeout a shim unlinks the socket of a daemon that is
\* alive but slow, which ADR-034 says is waited for, never orphaned.
LiveSocketsAreSpared ==
  [][\A s \in Shims : phase[s] = "unlink" /\ phase'[s] = "unpid" /\ socket # None => ~Up(socket)]_vars
=============================================================================
