------------------------- MODULE SharedDaemon_proofs -------------------------
(***************************************************************************)
(* Invariants of the shared daemon, for every number of shims, every       *)
(* choice of faults and any bound on them.                                 *)
(***************************************************************************)
EXTENDS SharedDaemon, TLAPS

USE ConstantsAssumption

USE DEF Daemons

-----------------------------------------------------------------------------
(* Type correctness.                                                        *)


\* Whoever moves lets go of the lock if it has it: the lock stays with a shim that may hold it.
LEMMA LockLetGo ==
  ASSUME TypeOK, NEW s \in Shims, NEW p, phase' = [phase EXCEPT ![s] = p],
         lock' = IF lock = s THEN None ELSE lock
  PROVE  lock' \in {t \in Shims : phase'[t] \in {"locked", "readpid", "waitold", "unlink", "unpid",
                                                "spawn", "waitnew"}} \cup {None}
<1>1. CASE lock = s \/ lock = None
  BY <1>1
<1>2. ASSUME lock # s, lock # None
      PROVE  phase'[lock] = phase[lock]
  BY <1>2 DEF TypeOK
<1> QED
  BY <1>1, <1>2 DEF TypeOK

\* Or it keeps the lock, and is where it may hold it.
LEMMA LockKept ==
  ASSUME TypeOK, NEW s \in Shims, NEW p, phase' = [phase EXCEPT ![s] = p], lock' = lock,
         lock = s => p \in {"locked", "readpid", "waitold", "unlink", "unpid", "spawn", "waitnew"}
  PROVE  lock' \in {t \in Shims : phase'[t] \in {"locked", "readpid", "waitold", "unlink", "unpid",
                                              "spawn", "waitnew"}} \cup {None}
<1>1. CASE lock = s \/ lock = None
  BY <1>1 DEF TypeOK
<1>2. ASSUME lock # s, lock # None
      PROVE  phase'[lock] = phase[lock]
  BY <1>2 DEF TypeOK
<1> QED
  BY <1>1, <1>2 DEF TypeOK

LEMMA ConnectsType ==
  ASSUME TypeOK, NEW s \in Shims, Connects(s)
  PROVE  TypeOK'
<1>1. lock' \in {t \in Shims : phase'[t] \in {"locked", "readpid", "waitold", "unlink", "unpid",
                                              "spawn", "waitnew"}} \cup {None}
  BY LockLetGo DEF Connects
<1> QED
  BY <1>1 DEF TypeOK, Connects, Connectable, fileVars, daemonVars

LEMMA GivesUpType ==
  ASSUME TypeOK, NEW s \in Shims, GivesUp(s), trouble' \subseteq Faults \cup {"slow"}
  PROVE  TypeOK'
<1>1. lock' \in {t \in Shims : phase'[t] \in {"locked", "readpid", "waitold", "unlink", "unpid",
                                              "spawn", "waitnew"}} \cup {None}
  BY LockLetGo DEF GivesUp, Goes
<1> QED
  BY <1>1 DEF TypeOK, GivesUp, Goes, fileVars, daemonVars, connVars

LEMMA ShimStepType ==
  ASSUME TypeOK, NEW s \in Shims, ShimStep(s) \/ Leave(s)
  PROVE  TypeOK'
<1> DEFINE Held == {t \in Shims : phase'[t] \in {"locked", "readpid", "waitold", "unlink", "unpid",
                                  "spawn", "waitnew"}} \cup {None}
<1>1. ASSUME Start(s) \/ Recheck(s), ~Connects(s) PROVE TypeOK'
  <2>1. lock' \in Held
    BY <1>1, LockKept DEF Start, Recheck, Goes, TypeOK
  <2> QED
    BY <1>1, <2>1 DEF Start, Recheck, TypeOK, Goes, fileVars, daemonVars, connVars
<1>2. CASE TakeLock(s)
  BY <1>2 DEF TakeLock, TypeOK, Goes, fileVars, daemonVars, connVars
<1>3. CASE ReadPid(s)
  <2>1. lock' \in Held
    BY <1>3, LockKept DEF ReadPid, Goes, TypeOK
  <2> QED
    BY <1>3, <2>1 DEF ReadPid, IsOurDaemon, Alive, TypeOK, Goes, fileVars, daemonVars, connVars
<1>4. ASSUME Waits(s) \/ WaitedInVain(s), ~Connects(s), ~GivesUp(s) PROVE TypeOK'
  <2>1. lock' \in Held
    BY <1>4, LockKept DEF Waits, WaitedInVain, EndsWait, Goes
  <2> QED
    BY <1>4, <2>1 DEF Waits, WaitedInVain, EndsWait, TypeOK, Goes, fileVars, daemonVars, connVars
<1>5. CASE RemoveSocket(s) \/ RemovePid(s)
  <2>1. lock' \in Held
    BY <1>5, LockKept DEF RemoveSocket, RemovePid
  <2> QED
    BY <1>5, <2>1 DEF RemoveSocket, RemovePid, TypeOK, daemonVars, connVars
<1>6. CASE SpawnDaemon(s)
  <2>1. lock' \in Held
    BY <1>6, LockKept DEF SpawnDaemon
  <2> QED
    BY <1>6, <2>1 DEF SpawnDaemon, TypeOK, fileVars, connVars
<1>7. ASSUME Leave(s) \/ Lose(s) \/ HelloEnds(s), ~GivesUp(s) PROVE TypeOK'
  <2>1. lock' \in Held
    BY <1>7, LockKept DEF Leave, Lose, HelloEnds, Goes, TypeOK
  <2> QED
    BY <1>7, <2>1 DEF Leave, Lose, HelloEnds, TypeOK, Goes, fileVars, daemonVars, connVars
<1>8. CASE Connects(s)
  BY <1>8, ConnectsType
<1>9. ASSUME Waits(s) \/ WaitedInVain(s) \/ HelloEnds(s) \/ Leave(s) \/ Lose(s), GivesUp(s) PROVE TypeOK'
  <2>1. trouble' \subseteq Faults \cup {"slow"}
    BY <1>9 DEF Waits, WaitedInVain, HelloEnds, Leave, Lose, Connects, TypeOK
  <2> QED
    BY <1>9, <2>1, GivesUpType
<1> QED
  BY <1>1, <1>2, <1>3, <1>4, <1>5, <1>6, <1>7, <1>8, <1>9 DEF ShimStep

LEMMA ServeStepType ==
  ASSUME TypeOK, NEW s \in Shims, ServeStep(s)
  PROVE  TypeOK'
<1> USE DEF TypeOK, ConnStep, Touch, shimVars, fileVars, daemonVars
<1>1. CASE Accept(s)
  BY <1>1 DEF Accept
<1>2. CASE InsertRow(s)
  BY <1>2 DEF InsertRow
<1>3. CASE Acknowledge(s)
  BY <1>3 DEF Acknowledge
<1>4. CASE DeleteRow(s)
  BY <1>4 DEF DeleteRow
<1>5. CASE Unregister(s)
  BY <1>5 DEF Unregister
<1> QED
  BY <1>1, <1>2, <1>3, <1>4, <1>5 DEF ServeStep

LEMMA CutType ==
  ASSUME TypeOK, NEW d, NEW states, Cut(d, states)
  PROVE  conn' \in [Shims -> {"none", "queued", "accepted", "listed", "serving", "leaving",
                              "closed", "ended"}]
  BY DEF TypeOK, Cut

LEMMA MovesType ==
  ASSUME TypeOK, NEW d \in Daemons, NEW from,
         NEW to \in {"rmsocket", "rmpid", "halt", "dead"}, Moves(d, from, to),
         socket' \in Daemons \cup {None}, pidfile' \in Daemons \cup {None}
  PROVE  TypeOK'
<1>1. UNCHANGED <<shimVars, listening, quiet, trouble>> /\ stage' = [stage EXCEPT ![d] = to]
  BY DEF Moves, DaemonAt
<1>2. /\ conn' \in [Shims -> {"none", "queued", "accepted", "listed", "serving", "leaving",
                              "closed", "ended"}]
      /\ rows' \subseteq Shims /\ late' \subseteq Shims
  <2>1. CASE to = "dead"
    BY <2>1, CutType DEF Moves, Ends, TypeOK
  <2>2. CASE to # "dead"
    BY <2>2 DEF Moves, connVars, TypeOK
  <2> QED
    BY <2>1, <2>2
<1> QED
  BY <1>1, <1>2 DEF TypeOK, shimVars

LEMMA DaemonStepType ==
  ASSUME TypeOK, NEW d \in Daemons, DaemonStep(d)
  PROVE  TypeOK'
<1> USE DEF TypeOK, DaemonAt, Touch, shimVars, fileVars, daemonVars, connVars
<1>1. CASE Probe(d) \/ RemoveStale(d)
  BY <1>1 DEF Probe, RemoveStale
<1>2. CASE Bind(d) \/ WritePid(d)
  BY <1>2 DEF Bind, WritePid
<1>3. CASE CheckLive(d)
  BY <1>3 DEF CheckLive
<1>4. CASE CheckQuiet(d)
  BY <1>4 DEF CheckQuiet
<1>5. CASE Halt(d)
  BY <1>5, CutType DEF Halt
<1> HIDE DEF DaemonAt
<1>6. CASE Cleanup(d) \/ CleanupSocket(d) \/ CleanupPid(d)
  <2> HIDE DEF TypeOK
  <2>1. socket' \in Daemons \cup {None} /\ pidfile' \in Daemons \cup {None}
    BY <1>6 DEF Cleanup, CleanupSocket, CleanupPid, TypeOK
  <2>2. \E from, to : /\ to \in {"rmsocket", "rmpid", "halt", "dead"}
                      /\ Moves(d, from, to)
    BY <1>6 DEF Cleanup, CleanupSocket, CleanupPid, AfterCleanup
  <2> QED
    BY <2>1, <2>2, MovesType
<1> QED
  BY <1>1, <1>2, <1>3, <1>4, <1>5, <1>6 DEF DaemonStep

LEMMA FaultType ==
  ASSUME TypeOK, NEW f, Happens(f)
  PROVE  trouble' \subseteq Faults \cup {"slow"}
  BY DEF TypeOK, Happens

LEMMA ShimFaultType ==
  ASSUME TypeOK, NEW s \in Shims, SpawnFails(s) \/ StartTimeout(s) \/ ConnCrash(s)
  PROVE  TypeOK'
<1>1. trouble' \subseteq Faults \cup {"slow"}
  BY FaultType DEF SpawnFails, StartTimeout, ConnCrash
<1>2. CASE GivesUp(s)
  BY <1>1, <1>2, GivesUpType
<1>3. ASSUME StartTimeout(s), ~GivesUp(s) PROVE TypeOK'
  BY <1>1, <1>3 DEF TypeOK, StartTimeout, EndsWait, Goes, fileVars, daemonVars, connVars
<1>4. CASE ConnCrash(s)
  BY <1>1, <1>4 DEF TypeOK, ConnCrash, ConnStep, shimVars, fileVars, daemonVars
<1> QED
  BY <1>2, <1>3, <1>4 DEF SpawnFails

LEMMA DaemonFaultType ==
  ASSUME TypeOK, NEW d \in Daemons, Elapse(d) \/ Stop(d) \/ ListenerCrash(d) \/ Kill(d)
  PROVE  TypeOK'
<1> USE DEF TypeOK, DaemonAt, shimVars, fileVars, connVars
<1>1. CASE Elapse(d)
  BY <1>1 DEF Elapse
<1>2. CASE Stop(d)
  BY <1>2, FaultType DEF Stop
<1>3. CASE ListenerCrash(d)
  BY <1>3, FaultType, CutType DEF ListenerCrash
<1>4. CASE Kill(d)
  BY <1>4, FaultType, CutType DEF Kill, Ends
<1> QED
  BY <1>1, <1>2, <1>3, <1>4

LEMMA TypeStep ==
  ASSUME TypeOK, [Next]_vars
  PROVE  TypeOK'
<1>1. CASE UNCHANGED vars
  BY <1>1 DEF TypeOK, vars, shimVars, fileVars, daemonVars, connVars
<1>2. CASE Next
  BY <1>2, ShimStepType, ServeStepType, DaemonStepType, ShimFaultType, DaemonFaultType DEF Next
<1> QED
  BY <1>1, <1>2

LEMMA InitType == Init => TypeOK
  BY DEF Init, TypeOK

\* Every variable of the daemon model keeps its type; only a shim between taking
\* the lock and reaching a daemon holds it (client.rs).
THEOREM DaemonTypes == Spec => []TypeOK
<1>1. TypeOK /\ [Next]_vars => TypeOK'
  BY TypeStep
<1> QED
  BY InitType, <1>1, PTL DEF Spec

-----------------------------------------------------------------------------
(* One daemon: what shims and daemons know of each other.                   *)

\* Phases in which a shim holds the lock.
Holding == {"locked", "readpid", "waitold", "unlink", "unpid", "spawn", "waitnew"}

\* Phases of a shim that has not reached a daemon.
Early == {"start", "locking"} \cup Holding

\* A shim starts its daemon in one step, and only once.
Unstarted == \A s \in Shims : phase[s] \in Early \ {"waitnew"} => stage[s] = "unborn"

LEMMA UnstartedStep ==
  ASSUME TypeOK, Unstarted, [Next]_vars
  PROVE  Unstarted'
<1> USE DEF Unstarted, Early, Holding
<1>1. ASSUME NEW s \in Shims, ShimStep(s) \/ SpawnFails(s) \/ StartTimeout(s) \/ Leave(s)
      PROVE  Unstarted'
  <2>1. \/ UNCHANGED stage
        \/ phase'[s] = "waitnew" /\ stage' = [stage EXCEPT ![s] = "probe"]
    BY <1>1 DEF ShimStep, SpawnFails, StartTimeout, Leave, Start, TakeLock, Recheck, ReadPid, Waits,
       WaitedInVain, EndsWait, RemoveSocket, RemovePid, SpawnDaemon, HelloEnds, Lose, Goes, GivesUp,
       Connects, daemonVars, TypeOK
  <2>2. \E p : /\ phase' = [phase EXCEPT ![s] = p]
               /\ p \in Early \ {"waitnew"} => phase[s] \in Early \ {"waitnew"}
    BY <1>1 DEF ShimStep, SpawnFails, StartTimeout, Leave, Start, TakeLock, Recheck, ReadPid, Waits,
       WaitedInVain, EndsWait, RemoveSocket, RemovePid, SpawnDaemon, HelloEnds, Lose, Goes, GivesUp,
       Connects
  <2> QED
    BY <2>1, <2>2 DEF TypeOK
<1>2. ASSUME NEW s \in Shims, ServeStep(s) \/ ConnCrash(s) PROVE Unstarted'
  BY <1>2 DEF ServeStep, Accept, InsertRow, Acknowledge, DeleteRow, Unregister, ConnCrash, shimVars,
     daemonVars
<1>3. ASSUME NEW d \in Daemons,
             DaemonStep(d) \/ Elapse(d) \/ Stop(d) \/ ListenerCrash(d) \/ Kill(d)
      PROVE  Unstarted'
  <2>1. UNCHANGED stage \/ (stage[d] # "unborn" /\ \E x : stage' = [stage EXCEPT ![d] = x])
    BY <1>3 DEF DaemonStep, Probe, RemoveStale, Bind, WritePid, CheckLive, CheckQuiet, Cleanup,
       CleanupSocket, CleanupPid, Halt, Moves, DaemonAt, Elapse, Stop, ListenerCrash, Kill, Alive
  <2>2. UNCHANGED phase
    BY <1>3 DEF DaemonStep, Probe, RemoveStale, Bind, WritePid, CheckLive, CheckQuiet, Cleanup,
       CleanupSocket, CleanupPid, Halt, Moves, Elapse, Stop, ListenerCrash, Kill, shimVars
  <2> QED
    BY <2>1, <2>2 DEF TypeOK
<1>4. CASE UNCHANGED vars
  BY <1>4 DEF vars, shimVars, daemonVars
<1> QED
  BY <1>1, <1>2, <1>3, <1>4 DEF Next

LEMMA AlwaysUnstarted == Spec => []Unstarted
<1>1. Init => Unstarted
  BY DEF Init, Unstarted
<1> QED
  BY <1>1, UnstartedStep, DaemonTypes, PTL DEF Spec

\* A daemon told to end that has already given its key up.
Leaving(d) == stage[d] \in {"cleanup", "halt"} /\ pidfile # d

\* The daemons that have, or may yet take, the key.
Current(d) == Alive(d) /\ ~Leaving(d)

\* Whoever is in a phase that takes the lock has it: at most one shim is.
HoldersHold == \A s \in Shims : phase[s] \in Holding => lock = s

OneCurrent == \A d, e \in Daemons : Current(d) /\ Current(e) => d = e

\* A daemon at work, or on its way out with the files still to remove, is the pid file's.
PidNamesIt ==
  \A d \in Daemons :
    stage[d] \in {"serving", "asked", "rmsocket", "rmpid"} => pidfile = d

\* The pid file is removed after the socket.
SocketGoneFirst == \A d \in Daemons : stage[d] = "rmpid" => socket # d

\* A daemon listens from bind on, and until it ends its socket is there.
BoundListens ==
  \A d \in Daemons :
    /\ stage[d] \in {"writepid", "serving", "asked"} => listening[d] /\ socket = d
    /\ stage[d] \in {"unborn", "probe", "stale", "bind", "dead"} => ~listening[d]

\* What can be connected to has the key.
ReachedIsCurrent == Connectable => Current(socket)

\* A daemon on its way to the socket that no pid file names is waited for by the
\* shim that started it.
NewbornIsAwaited ==
  \A d \in Daemons :
    stage[d] \in {"probe", "stale", "bind"} /\ pidfile # d =>
      \E s \in Shims : phase[s] = "waitnew" /\ of[s] = d

\* A shim that removes files, or is about to start a daemon, knows there is none.
NoneWhenCleared ==
  \A s \in Shims, d \in Daemons :
    phase[s] \in {"unlink", "unpid", "spawn"} => ~Current(d)

\* A shim waits for the only daemon there can be.
WaitsForTheOne ==
  \A s \in Shims, d \in Daemons :
    phase[s] \in {"waitold", "waitnew"} /\ Current(d) => of[s] = d

\* To a shim that found nothing to connect to, the pid file tells the truth.
PidTellsTheTruth ==
  \A s \in Shims, d \in Daemons :
    phase[s] \in {"readpid", "waitold"} /\ Current(d) => pidfile = d

\* What holds as long as no start timeout has run out.
Orderly ==
  /\ OneCurrent /\ PidNamesIt /\ SocketGoneFirst /\ BoundListens /\ ReachedIsCurrent
  /\ NewbornIsAwaited /\ NoneWhenCleared /\ WaitsForTheOne /\ PidTellsTheTruth

DaemonInv == HoldersHold /\ (~Hurried => Orderly)

LEMMA InitDaemonInv == Init => DaemonInv
  BY DEF Init, DaemonInv, HoldersHold, Holding, Orderly, OneCurrent, PidNamesIt, SocketGoneFirst,
     BoundListens, ReachedIsCurrent, NewbornIsAwaited, NoneWhenCleared, WaitsForTheOne,
     PidTellsTheTruth, Connectable, Current, Alive

LEMMA HurryLasts ==
  ASSUME NEW f, Happens(f)
  PROVE  Hurried => Hurried'
  BY DEF Happens, Hurried

\* A shim goes on to phase p, of' being the daemon it then waits for, and touches
\* no file and no daemon.
LEMMA ShimMoves ==
  ASSUME TypeOK, DaemonInv, NEW s \in Shims, NEW p,
         phase' = [phase EXCEPT ![s] = p], \A t \in Shims : t # s => of'[t] = of[t],
         UNCHANGED <<socket, pidfile, stage, listening>>, Hurried => Hurried',
         p \in Holding => lock' = s,
         \A t \in Shims : t # s /\ lock = t => lock' = t,
         ~Hurried' => \A d \in Daemons :
           /\ phase[s] = "waitnew" /\ of[s] = d =>
                stage[d] \notin {"probe", "stale", "bind"} \/ (p = "waitnew" /\ of'[s] = d)
           /\ p \in {"unlink", "unpid", "spawn"} => ~Current(d)
           /\ p \in {"waitold", "waitnew"} /\ Current(d) => of'[s] = d
           /\ p \in {"readpid", "waitold"} /\ Current(d) => pidfile = d
  PROVE  DaemonInv'
<1>1. \A t \in Shims : phase'[t] = IF t = s THEN p ELSE phase[t]
  BY DEF TypeOK
<1>2. \A d \in Daemons : Current(d)' <=> Current(d)
  BY DEF Current, Alive, Leaving
<1>3. HoldersHold'
  BY <1>1 DEF DaemonInv, HoldersHold
<1>4. ASSUME ~Hurried' PROVE Orderly'
  <2>1. Orderly
    BY <1>4 DEF DaemonInv
  <2>2. (OneCurrent /\ PidNamesIt /\ SocketGoneFirst /\ BoundListens)'
    BY <1>2, <2>1 DEF Orderly, OneCurrent, PidNamesIt, SocketGoneFirst, BoundListens
  <2>3. ReachedIsCurrent'
    BY <2>1 DEF Orderly, ReachedIsCurrent, Connectable, Current, Alive, Leaving
  <2>4. NewbornIsAwaited'
    <3> SUFFICES ASSUME NEW d \in Daemons, stage[d] \in {"probe", "stale", "bind"}, pidfile # d
                 PROVE  \E t \in Shims : phase'[t] = "waitnew" /\ of'[t] = d
      BY DEF NewbornIsAwaited
    <3>1. PICK t \in Shims : phase[t] = "waitnew" /\ of[t] = d
      BY <2>1 DEF Orderly, NewbornIsAwaited
    <3> QED
      BY <1>1, <1>4, <3>1
  <2>5. (NoneWhenCleared /\ WaitsForTheOne /\ PidTellsTheTruth)'
    BY <1>1, <1>2, <1>4, <2>1 DEF Orderly, NoneWhenCleared, WaitsForTheOne, PidTellsTheTruth
  <2> QED
    BY <2>2, <2>3, <2>4, <2>5 DEF Orderly
<1> QED
  BY <1>3, <1>4 DEF DaemonInv

\* What is connected to is the daemon a shim waits for: it is past bind.
LEMMA ReachedIsBound ==
  ASSUME TypeOK, DaemonInv, ~Hurried, Connectable
  PROVE  /\ Current(socket)
         /\ stage[socket] \notin {"probe", "stale", "bind"}
<1>1. socket \in Daemons /\ listening[socket]
  BY DEF Connectable, TypeOK
<1> QED
  BY <1>1 DEF DaemonInv, Orderly, ReachedIsCurrent, BoundListens, Connectable

\* A shim that takes no part any more: nobody else was counting on it.
LEMMA ShimMovesOut ==
  ASSUME TypeOK, DaemonInv, NEW s \in Shims, NEW p \in {"hello", "direct"},
         phase' = [phase EXCEPT ![s] = p], \A t \in Shims : t # s => of'[t] = of[t],
         UNCHANGED <<socket, pidfile, stage, listening>>, Hurried => Hurried',
         \A t \in Shims : t # s /\ lock = t => lock' = t,
         ~Hurried' /\ phase[s] = "waitnew" =>
           \A d \in Daemons : of[s] = d => stage[d] \notin {"probe", "stale", "bind"}
  PROVE  DaemonInv'
<1>1. /\ p \notin Holding /\ p \notin {"unlink", "unpid", "spawn"}
      /\ p \notin {"waitold", "waitnew"} /\ p \notin {"readpid", "waitold"}
  BY DEF Holding
<1> QED
  BY <1>1, ShimMoves

LEMMA ConnectsInv ==
  ASSUME TypeOK, DaemonInv, NEW s \in Shims, Connects(s)
  PROVE  DaemonInv'
<1>1. /\ phase' = [phase EXCEPT ![s] = "hello"] /\ \A t \in Shims : t # s => of'[t] = of[t]
      /\ UNCHANGED <<socket, pidfile, stage, listening>> /\ (Hurried => Hurried')
      /\ \A t \in Shims : t # s /\ lock = t => lock' = t
  BY DEF Connects, fileVars, daemonVars, TypeOK, Hurried
<1>2. ASSUME ~Hurried', NEW d \in Daemons, phase[s] = "waitnew", of[s] = d
      PROVE  stage[d] \notin {"probe", "stale", "bind"}
  <2>1. Connectable /\ ~Hurried
    BY <1>1, <1>2 DEF Connects
  <2>2. of[s] = socket
    BY <1>2, <2>1, ReachedIsBound DEF DaemonInv, Orderly, WaitsForTheOne, Current, Alive
  <2> QED
    BY <1>2, <2>1, <2>2, ReachedIsBound
<1> QED
  BY <1>1, <1>2, ShimMovesOut

LEMMA GivesUpInv ==
  ASSUME TypeOK, DaemonInv, NEW s \in Shims, GivesUp(s), Hurried => Hurried',
         ~Hurried' /\ phase[s] = "waitnew" => ~Alive(of[s])
  PROVE  DaemonInv'
<1>1. /\ phase' = [phase EXCEPT ![s] = "direct"] /\ \A t \in Shims : t # s => of'[t] = of[t]
      /\ UNCHANGED <<socket, pidfile, stage, listening>>
      /\ \A t \in Shims : t # s /\ lock = t => lock' = t
  BY DEF GivesUp, Goes, fileVars, daemonVars, TypeOK
<1>2. ~Hurried' => \A d \in Daemons :
        phase[s] = "waitnew" /\ of[s] = d => stage[d] \notin {"probe", "stale", "bind"}
  BY DEF Alive
<1> QED
  BY <1>1, <1>2, ShimMovesOut

LEMMA ReadPidInv ==
  ASSUME TypeOK, DaemonInv, NEW s \in Shims, ReadPid(s)
  PROVE  DaemonInv'
<1>1. PICK p \in {"waitold", "unlink"} :
        /\ phase' = [phase EXCEPT ![s] = p]
        /\ p = "waitold" => of' = [of EXCEPT ![s] = pidfile]
        /\ p = "unlink" => UNCHANGED of /\ ~Alive(pidfile)
  BY DEF ReadPid, Goes, IsOurDaemon
<1>2. /\ phase[s] = "readpid" /\ UNCHANGED <<lock, trouble, socket, pidfile, stage, listening>>
      /\ lock = s
  BY DEF ReadPid, Goes, fileVars, daemonVars, DaemonInv, HoldersHold, Holding
<1>3. ASSUME ~Hurried, NEW d \in Daemons, Current(d)
      PROVE  pidfile = d
  BY <1>2, <1>3 DEF DaemonInv, Orderly, PidTellsTheTruth
<1>4. /\ \A t \in Shims : t # s => of'[t] = of[t]
      /\ p = "waitold" => of'[s] = pidfile
      /\ Hurried <=> Hurried'
  BY <1>1, <1>2 DEF TypeOK, Hurried
<1>5. ~Hurried => \A d \in Daemons : p = "unlink" => ~Current(d)
  BY <1>1, <1>3 DEF Current
<1> QED
  BY <1>1, <1>2, <1>3, <1>4, <1>5, ShimMoves

\* Whoever has the lock and finds nothing to connect to can believe the pid file.
LEMMA LockedReadsTheTruth ==
  ASSUME TypeOK, DaemonInv, ~Hurried, NEW s \in Shims, phase[s] = "locked", ~Connectable,
         NEW d \in Daemons, Current(d)
  PROVE  pidfile = d
<1>1. lock = s
  BY DEF DaemonInv, HoldersHold, Holding
<1>2. CASE stage[d] \in {"probe", "stale", "bind"}
  <2>1. \A t \in Shims : phase[t] = "waitnew" => lock = t
    BY DEF DaemonInv, HoldersHold, Holding
  <2> QED
    BY <1>1, <1>2, <2>1 DEF DaemonInv, Orderly, NewbornIsAwaited
<1>3. stage[d] # "writepid"
  BY DEF DaemonInv, Orderly, BoundListens, Connectable
<1>4. CASE stage[d] \in {"serving", "asked", "rmsocket", "rmpid"}
  BY <1>4 DEF DaemonInv, Orderly, PidNamesIt
<1>5. CASE stage[d] \in {"cleanup", "halt"}
  BY <1>5 DEF Current, Leaving
<1> QED
  BY <1>2, <1>3, <1>4, <1>5 DEF TypeOK, Current, Alive

LEMMA WaitsInv ==
  ASSUME TypeOK, DaemonInv, NEW s \in Shims, phase[s] = "waitold", ~Alive(of[s]) \/ Hurried',
         Goes(s, "unlink"), UNCHANGED <<of, lock>>, Hurried => Hurried'
  PROVE  DaemonInv'
<1>1. lock = s
  BY DEF DaemonInv, HoldersHold, Holding
<1>2. ASSUME ~Hurried', NEW d \in Daemons, Current(d)
      PROVE  FALSE
  BY <1>2 DEF DaemonInv, Orderly, WaitsForTheOne, Current
<1>3. /\ phase' = [phase EXCEPT ![s] = "unlink"]
      /\ UNCHANGED <<of, lock, socket, pidfile, stage, listening>>
  BY DEF Goes, fileVars, daemonVars
<1> QED
  BY <1>1, <1>2, <1>3, ShimMoves

LEMMA TakeLockInv ==
  ASSUME TypeOK, DaemonInv, NEW s \in Shims, TakeLock(s)
  PROVE  DaemonInv'
<1>1. /\ phase[s] = "locking" /\ lock = None /\ lock' = s
      /\ phase' = [phase EXCEPT ![s] = "locked"]
      /\ UNCHANGED <<of, socket, pidfile, stage, listening, trouble>>
  BY DEF TakeLock, Goes, fileVars, daemonVars
<1> QED
  BY <1>1, ShimMoves, s # None DEF Hurried

\* Steps that take a shim where nothing is asked of it.
LEMMA PlainShimInv ==
  ASSUME TypeOK, DaemonInv, NEW s \in Shims, phase[s] \in {"start", "hello", "session"},
         NEW p \in {"locking", "session", "left", "lost"}, Goes(s, p), UNCHANGED <<of, lock, trouble>>
  PROVE  DaemonInv'
<1>1. /\ phase' = [phase EXCEPT ![s] = p]
      /\ UNCHANGED <<of, lock, socket, pidfile, stage, listening, trouble>>
  BY DEF Goes, fileVars, daemonVars
<1> QED
  BY <1>1, ShimMoves DEF Holding, Hurried

LEMMA ShimPhaseInv ==
  ASSUME TypeOK, DaemonInv, NEW s \in Shims,
         \/ Start(s) \/ TakeLock(s) \/ Recheck(s) \/ ReadPid(s) \/ Waits(s) \/ WaitedInVain(s)
         \/ HelloEnds(s) \/ Lose(s) \/ Leave(s) \/ SpawnFails(s) \/ StartTimeout(s)
  PROVE  DaemonInv'
<1>1. CASE Connects(s)
  BY <1>1, ConnectsInv
<1>2. CASE TakeLock(s) \/ ReadPid(s)
  BY <1>2, TakeLockInv, ReadPidInv
<1>3. ASSUME Recheck(s), ~Connects(s) PROVE DaemonInv'
  <2>1. /\ phase[s] = "locked" /\ ~Connectable /\ phase' = [phase EXCEPT ![s] = "readpid"]
        /\ UNCHANGED <<of, lock, trouble, socket, pidfile, stage, listening>>
    BY <1>3 DEF Recheck, Goes, fileVars, daemonVars
  <2>2. lock = s
    BY <2>1 DEF DaemonInv, HoldersHold, Holding
  <2>3. ~Hurried => \A d \in Daemons : Current(d) => pidfile = d
    BY <2>1, LockedReadsTheTruth
  <2> QED
    BY <2>1, <2>2, <2>3, ShimMoves DEF Hurried
<1>4. ASSUME Waits(s), ~Connects(s) PROVE DaemonInv'
  BY <1>4, WaitsInv, GivesUpInv DEF Waits, EndsWait, Exists, Hurried
<1>5. ASSUME StartTimeout(s) \/ WaitedInVain(s) PROVE DaemonInv'
  <2>1. Hurried'
    BY <1>5 DEF StartTimeout, WaitedInVain, Happens, Hurried
  <2> QED
    BY <1>5, <2>1, WaitsInv, GivesUpInv DEF StartTimeout, WaitedInVain, EndsWait
<1>6. CASE SpawnFails(s)
  BY <1>6, HurryLasts, GivesUpInv DEF SpawnFails
<1>7. ASSUME Start(s) \/ HelloEnds(s) \/ Lose(s) \/ Leave(s), ~Connects(s) PROVE DaemonInv'
  BY <1>7, PlainShimInv, GivesUpInv DEF Start, HelloEnds, Lose, Leave, Hurried
<1> QED
  BY <1>1, <1>2, <1>3, <1>4, <1>5, <1>6, <1>7

\* What a daemon's steps have to keep: the files and listeners, and that no daemon
\* comes to have the key, loses the pid file while it has it, or is back before bind unnamed.
FilesAreRight == PidNamesIt /\ SocketGoneFirst /\ BoundListens /\ ReachedIsCurrent

KeepsOrder ==
  /\ FilesAreRight'
  /\ \A e \in Daemons :
       /\ Current(e)' => Current(e) /\ (pidfile = e => pidfile' = e)
       /\ stage'[e] \in {"probe", "stale", "bind"} /\ pidfile' # e
            => stage[e] \in {"probe", "stale", "bind"} /\ pidfile # e

LEMMA DaemonMoves ==
  ASSUME TypeOK, DaemonInv, UNCHANGED <<phase, of, lock>>, Hurried => Hurried',
         Orderly => KeepsOrder
  PROVE  DaemonInv'
<1>1. HoldersHold'
  BY DEF DaemonInv, HoldersHold
<1>2. ASSUME ~Hurried' PROVE Orderly'
  <2>1. Orderly /\ KeepsOrder
    BY <1>2 DEF DaemonInv
  <2>2. \A e \in Daemons : Current(e)' => Current(e) /\ (pidfile = e => pidfile' = e)
    BY <2>1 DEF KeepsOrder
  <2>3. OneCurrent'
    BY <2>1, <2>2 DEF Orderly, OneCurrent
  <2>4. NewbornIsAwaited'
    BY <2>1 DEF Orderly, KeepsOrder, NewbornIsAwaited
  <2>5. (NoneWhenCleared /\ WaitsForTheOne)'
    BY <2>1, <2>2 DEF Orderly, NoneWhenCleared, WaitsForTheOne
  <2>6. PidTellsTheTruth'
    BY <2>1, <2>2 DEF Orderly, PidTellsTheTruth
  <2> QED
    BY <2>1, <2>3, <2>4, <2>5, <2>6 DEF Orderly, KeepsOrder, FilesAreRight
<1> QED
  BY <1>1, <1>2 DEF DaemonInv

LEMMA ProbeKeeps ==
  ASSUME TypeOK, Orderly, NEW d \in Daemons, Probe(d)
  PROVE  KeepsOrder
<1> DEFINE to == CASE socket = None -> "bind" [] Connectable -> "cleanup" [] OTHER -> "stale"
<1>0. to \in {"stale", "bind", "cleanup"}
  OBVIOUS
<1>1. /\ stage[d] = "probe" /\ stage' = [stage EXCEPT ![d] = to]
      /\ UNCHANGED <<socket, pidfile, listening>>
  BY DEF Probe, DaemonAt, fileVars
<1> HIDE DEF to
<1>2. ~listening[d]
  BY <1>1 DEF Orderly, BoundListens
<1>3. (PidNamesIt /\ SocketGoneFirst /\ BoundListens)'
  BY <1>0, <1>1, <1>2 DEF Orderly, PidNamesIt, SocketGoneFirst, BoundListens, TypeOK
<1>4. ReachedIsCurrent'
  BY <1>0, <1>1, <1>2 DEF Orderly, ReachedIsCurrent, Connectable, Current, Alive, Leaving, TypeOK
<1>5. \A e \in Daemons :
        /\ Current(e)' => Current(e) /\ (pidfile = e => pidfile' = e)
        /\ stage'[e] \in {"probe", "stale", "bind"} /\ pidfile' # e
             => stage[e] \in {"probe", "stale", "bind"} /\ pidfile # e
  BY <1>0, <1>1 DEF Current, Alive, Leaving, TypeOK
<1> QED
  BY <1>3, <1>4, <1>5 DEF KeepsOrder, FilesAreRight

\* A daemon that makes the socket, or removes it, is the one that has the key.
LEMMA BindKeeps ==
  ASSUME TypeOK, Orderly, NEW d \in Daemons, RemoveStale(d) \/ Bind(d)
  PROVE  KeepsOrder
<1>1. \A e \in Daemons : Current(e) => e = d
  BY DEF RemoveStale, Bind, DaemonAt, Orderly, OneCurrent, Current, Alive, Leaving
<1>2. \A e \in Daemons : e # d => stage[e] \notin {"writepid", "serving", "asked"}
  BY <1>1 DEF Current, Alive, Leaving
<1>3. PICK to \in {"bind", "writepid", "cleanup"} :
        /\ stage[d] \in {"stale", "bind"} /\ stage' = [stage EXCEPT ![d] = to] /\ UNCHANGED pidfile
        /\ to = "writepid" => socket' = d /\ listening' = [listening EXCEPT ![d] = TRUE]
        /\ to # "writepid" => UNCHANGED listening /\ socket' \in {socket, None}
  BY DEF RemoveStale, Bind, DaemonAt
<1>4. ~listening[d]
  BY <1>3 DEF Orderly, BoundListens
<1>5. (PidNamesIt /\ BoundListens)'
  BY <1>2, <1>3, <1>4 DEF Orderly, PidNamesIt, BoundListens, TypeOK
<1>6. (SocketGoneFirst /\ ReachedIsCurrent)'
  BY <1>3, <1>4, None \notin Daemons
     DEF Orderly, SocketGoneFirst, ReachedIsCurrent, Connectable, Current, Alive, Leaving, TypeOK
<1>7. \A e \in Daemons :
        /\ Current(e)' => Current(e) /\ (pidfile = e => pidfile' = e)
        /\ stage'[e] \in {"probe", "stale", "bind"} /\ pidfile' # e
             => stage[e] \in {"probe", "stale", "bind"} /\ pidfile # e
  BY <1>3 DEF Current, Alive, Leaving, TypeOK
<1> QED
  BY <1>5, <1>6, <1>7 DEF KeepsOrder, FilesAreRight

LEMMA WritePidKeeps ==
  ASSUME TypeOK, Orderly, NEW d \in Daemons, WritePid(d)
  PROVE  KeepsOrder
<1>1. /\ stage[d] = "writepid" /\ stage' = [stage EXCEPT ![d] = "serving"] /\ pidfile' = d
      /\ UNCHANGED <<socket, listening>>
  BY DEF WritePid, DaemonAt
<1>2. \A e \in Daemons : Current(e) => e = d
  BY <1>1 DEF Orderly, OneCurrent, Current, Alive, Leaving
<1>3. \A e \in Daemons :
        e # d => stage[e] \notin {"probe", "stale", "bind", "writepid", "serving", "asked", "rmsocket", "rmpid"}
  BY <1>2 DEF Current, Alive, Leaving
<1>4. (PidNamesIt /\ SocketGoneFirst /\ BoundListens)'
  BY <1>1, <1>3 DEF Orderly, PidNamesIt, SocketGoneFirst, BoundListens, TypeOK
<1>5. Connectable => socket = d
  BY <1>1 DEF Orderly, BoundListens
<1>6. ReachedIsCurrent'
  BY <1>1, <1>5 DEF ReachedIsCurrent, Connectable, Current, Alive, Leaving, TypeOK
<1>7. \A e \in Daemons :
        /\ Current(e)' => Current(e) /\ (pidfile = e => pidfile' = e)
        /\ stage'[e] \in {"probe", "stale", "bind"} /\ pidfile' # e
             => stage[e] \in {"probe", "stale", "bind"} /\ pidfile # e
  BY <1>1, <1>2, <1>3 DEF Current, Alive, Leaving, TypeOK
<1> QED
  BY <1>4, <1>6, <1>7 DEF KeepsOrder, FilesAreRight

\* Serving, asking, being told to stop: the pid file is the daemon's throughout.
LEMMA ServingKeeps ==
  ASSUME TypeOK, Orderly, NEW d \in Daemons, stage[d] \in {"serving", "asked"},
         NEW to \in {"serving", "asked", "cleanup", "halt"}, stage' = [stage EXCEPT ![d] = to],
         UNCHANGED <<socket, pidfile, listening>>
  PROVE  KeepsOrder
<1>1. pidfile = d /\ listening[d] /\ socket = d
  BY DEF Orderly, PidNamesIt, BoundListens
<1>2. (PidNamesIt /\ SocketGoneFirst /\ BoundListens)'
  BY <1>1 DEF Orderly, PidNamesIt, SocketGoneFirst, BoundListens, TypeOK
<1>3. ReachedIsCurrent'
  BY <1>1 DEF Orderly, ReachedIsCurrent, Connectable, Current, Alive, Leaving, TypeOK
<1>4. \A e \in Daemons :
        /\ Current(e)' => Current(e) /\ (pidfile = e => pidfile' = e)
        /\ stage'[e] \in {"probe", "stale", "bind"} /\ pidfile' # e
             => stage[e] \in {"probe", "stale", "bind"} /\ pidfile # e
  BY <1>1 DEF Current, Alive, Leaving, TypeOK
<1> QED
  BY <1>2, <1>3, <1>4 DEF KeepsOrder, FilesAreRight

\* A daemon ends: past the removal of its files only a socket that is not there is left of it.
LEMMA CleanupKeeps ==
  ASSUME TypeOK, Orderly, NEW d \in Daemons, Cleanup(d) \/ CleanupSocket(d) \/ CleanupPid(d)
  PROVE  KeepsOrder
<1>1. CASE Cleanup(d)
  <2> DEFINE to == IF Mine(d) THEN "rmsocket" ELSE AfterCleanup(d)
  <2>1. /\ to \in {"rmsocket", "halt", "dead"}
        /\ to = "rmsocket" <=> pidfile = d
        /\ to = "dead" => ~listening[d]
    BY DEF Mine, AfterCleanup
  <2>2. /\ stage[d] = "cleanup" /\ stage' = [stage EXCEPT ![d] = to]
        /\ UNCHANGED <<socket, pidfile, listening>>
    BY <1>1 DEF Cleanup, Moves, DaemonAt, fileVars
  <2> HIDE DEF to
  <2>3. (PidNamesIt /\ SocketGoneFirst /\ BoundListens)'
    BY <2>1, <2>2 DEF Orderly, PidNamesIt, SocketGoneFirst, BoundListens, TypeOK
  <2>4. ReachedIsCurrent'
    BY <2>1, <2>2 DEF Orderly, ReachedIsCurrent, Connectable, Current, Alive, Leaving, TypeOK
  <2>5. \A e \in Daemons :
          /\ Current(e)' => Current(e) /\ (pidfile = e => pidfile' = e)
          /\ stage'[e] \in {"probe", "stale", "bind"} /\ pidfile' # e
               => stage[e] \in {"probe", "stale", "bind"} /\ pidfile # e
    BY <2>1, <2>2 DEF Current, Alive, Leaving, TypeOK
  <2> QED
    BY <2>3, <2>4, <2>5 DEF KeepsOrder, FilesAreRight
<1>2. CASE CleanupSocket(d) \/ CleanupPid(d)
  <2>1. stage[d] \in {"rmsocket", "rmpid"} /\ pidfile = d
    BY <1>2 DEF CleanupSocket, CleanupPid, Moves, DaemonAt, Orderly, PidNamesIt
  <2>2. \A e \in Daemons :
          e # d => stage[e] \notin {"probe", "stale", "bind", "writepid", "serving", "asked", "rmsocket", "rmpid"}
    BY <2>1 DEF Orderly, OneCurrent, Current, Alive, Leaving
  <2>3. CASE CleanupSocket(d)
    <3>1. /\ stage[d] = "rmsocket" /\ stage' = [stage EXCEPT ![d] = "rmpid"] /\ socket' = None
          /\ UNCHANGED <<pidfile, listening>>
      BY <2>3 DEF CleanupSocket, Moves, DaemonAt
    <3>2. FilesAreRight'
      BY <2>1, <2>2, <3>1, None \notin Daemons
         DEF Orderly, FilesAreRight, PidNamesIt, SocketGoneFirst, BoundListens, ReachedIsCurrent,
             Connectable, TypeOK
    <3>3. \A e \in Daemons :
            /\ Current(e)' => Current(e) /\ (pidfile = e => pidfile' = e)
            /\ stage'[e] \in {"probe", "stale", "bind"} /\ pidfile' # e
                 => stage[e] \in {"probe", "stale", "bind"} /\ pidfile # e
      BY <3>1 DEF Current, Alive, Leaving, TypeOK
    <3> QED
      BY <3>2, <3>3 DEF KeepsOrder
  <2>4. CASE CleanupPid(d)
    <3> DEFINE to == AfterCleanup(d)
    <3>1. to \in {"halt", "dead"} /\ (to = "dead" => ~listening[d])
      BY DEF AfterCleanup
    <3>2. /\ stage[d] = "rmpid" /\ stage' = [stage EXCEPT ![d] = to] /\ pidfile' = None
          /\ UNCHANGED <<socket, listening>>
      BY <2>4 DEF CleanupPid, Moves, DaemonAt
    <3> HIDE DEF to
    <3>3. (PidNamesIt /\ SocketGoneFirst /\ BoundListens)'
      BY <2>2, <3>1, <3>2 DEF Orderly, PidNamesIt, SocketGoneFirst, BoundListens, TypeOK
    <3>4. socket # d
      BY <3>2 DEF Orderly, SocketGoneFirst
    <3>5. \A e \in Daemons : Current(e) => e = d
      BY <2>1 DEF Orderly, OneCurrent, Current, Alive, Leaving
    <3>6. ReachedIsCurrent'
      BY <3>2, <3>4, <3>5 DEF Orderly, ReachedIsCurrent, Connectable, Current, Alive
    <3>7. \A e \in Daemons :
            /\ Current(e)' => Current(e) /\ (pidfile = e => pidfile' = e)
            /\ stage'[e] \in {"probe", "stale", "bind"} /\ pidfile' # e
                 => stage[e] \in {"probe", "stale", "bind"} /\ pidfile # e
      BY <2>1, <2>2, <3>1, <3>2, None \notin Daemons DEF Current, Alive, Leaving, TypeOK
    <3> QED
      BY <3>3, <3>6, <3>7 DEF KeepsOrder, FilesAreRight
  <2> QED
    BY <1>2, <2>3, <2>4
<1> QED
  BY <1>1, <1>2

\* A listener closes: the actor's stop or crash, or the daemon's death.
LEMMA ListenerClosesKeeps ==
  ASSUME TypeOK, Orderly, NEW d \in Daemons, listening' = [listening EXCEPT ![d] = FALSE],
         NEW to, stage' = [stage EXCEPT ![d] = to],
         \/ stage[d] = "halt" /\ to = "cleanup"
         \/ stage[d] = "serving" /\ to = "probe"
         \/ Alive(d) /\ to = "dead",
         UNCHANGED <<socket, pidfile>>
  PROVE  KeepsOrder
<1>1. (PidNamesIt /\ SocketGoneFirst /\ BoundListens)'
  BY DEF Orderly, PidNamesIt, SocketGoneFirst, BoundListens, TypeOK
<1>2. ReachedIsCurrent'
  BY DEF Orderly, ReachedIsCurrent, Connectable, Current, Alive, Leaving, TypeOK
<1>3. stage[d] = "serving" => pidfile = d
  BY DEF Orderly, PidNamesIt
<1>4. \A e \in Daemons :
        /\ Current(e)' => Current(e) /\ (pidfile = e => pidfile' = e)
        /\ stage'[e] \in {"probe", "stale", "bind"} /\ pidfile' # e
             => stage[e] \in {"probe", "stale", "bind"} /\ pidfile # e
  BY <1>3 DEF Current, Alive, Leaving, TypeOK
<1> QED
  BY <1>1, <1>2, <1>4 DEF KeepsOrder, FilesAreRight

LEMMA DaemonStepInv ==
  ASSUME TypeOK, DaemonInv, NEW d \in Daemons,
         DaemonStep(d) \/ Stop(d) \/ ListenerCrash(d) \/ Kill(d)
  PROVE  DaemonInv'
<1>1. UNCHANGED <<phase, of, lock>>
  BY DEF DaemonStep, Probe, RemoveStale, Bind, WritePid, CheckLive, CheckQuiet, Cleanup,
         CleanupSocket, CleanupPid, Moves, Halt, Stop, ListenerCrash, Kill, shimVars
<1>2. Hurried => Hurried'
  BY HurryLasts DEF DaemonStep, Probe, RemoveStale, Bind, WritePid, CheckLive, CheckQuiet, Cleanup,
         CleanupSocket, CleanupPid, Moves, Halt, Stop, ListenerCrash, Kill, Hurried
<1>3. ASSUME Orderly PROVE KeepsOrder
  <2>1. CASE Probe(d)
    BY <1>3, <2>1, ProbeKeeps
  <2>2. CASE RemoveStale(d) \/ Bind(d)
    BY <1>3, <2>2, BindKeeps
  <2>3. CASE WritePid(d)
    BY <1>3, <2>3, WritePidKeeps
  <2>4. CASE CheckLive(d) \/ CheckQuiet(d) \/ Stop(d)
    <3> DEFINE Serves(to) == stage' = [stage EXCEPT ![d] = to]
    <3>1. \E to \in {"serving", "asked", "cleanup", "halt"} : Serves(to)
      BY <2>4 DEF CheckLive, CheckQuiet, Stop, DaemonAt, TypeOK
    <3>2. stage[d] \in {"serving", "asked"} /\ UNCHANGED <<socket, pidfile, listening>>
      BY <2>4 DEF CheckLive, CheckQuiet, Stop, DaemonAt, fileVars
    <3> QED
      BY <1>3, <3>1, <3>2, ServingKeeps
  <2>5. CASE Cleanup(d) \/ CleanupSocket(d) \/ CleanupPid(d)
    BY <1>3, <2>5, CleanupKeeps
  <2>6. CASE Halt(d) \/ ListenerCrash(d) \/ Kill(d)
    BY <1>3, <2>6, ListenerClosesKeeps DEF Halt, ListenerCrash, Kill, DaemonAt, fileVars
  <2> QED
    BY <2>1, <2>2, <2>3, <2>4, <2>5, <2>6 DEF DaemonStep
<1> QED
  BY <1>1, <1>2, <1>3, DaemonMoves

LEMMA RemovalInv ==
  ASSUME TypeOK, DaemonInv, NEW s \in Shims, RemoveSocket(s) \/ RemovePid(s)
  PROVE  DaemonInv'
<1>1. PICK p \in {"unpid", "spawn"} :
        /\ phase[s] \in {"unlink", "unpid"} /\ phase' = [phase EXCEPT ![s] = p]
        /\ UNCHANGED <<of, lock, stage, listening, trouble>>
        /\ socket' \in {socket, None} /\ pidfile' \in {pidfile, None}
  BY DEF RemoveSocket, RemovePid, daemonVars
<1>2. lock = s /\ \A t \in Shims : phase'[t] = IF t = s THEN p ELSE phase[t]
  BY <1>1 DEF DaemonInv, HoldersHold, Holding, TypeOK
<1>3. HoldersHold'
  BY <1>1, <1>2 DEF DaemonInv, HoldersHold
<1>4. ASSUME ~Hurried PROVE Orderly'
  <2>1. \A d \in Daemons : ~Current(d)
    BY <1>1, <1>4 DEF DaemonInv, Orderly, NoneWhenCleared
  <2>2. \A d \in Daemons : stage[d] \in {"unborn", "cleanup", "halt", "dead"} /\ ~Current(d)'
    BY <1>1, <2>1, None \notin Daemons DEF Current, Alive, Leaving, TypeOK
  <2>3. (BoundListens /\ PidNamesIt /\ SocketGoneFirst /\ NewbornIsAwaited)'
    BY <1>1, <1>4, <2>2
       DEF DaemonInv, Orderly, BoundListens, PidNamesIt, SocketGoneFirst, NewbornIsAwaited
  <2>4. ~Connectable
    BY <1>4, <2>1, ReachedIsBound DEF Current, Alive
  <2>5. (ReachedIsCurrent /\ OneCurrent)'
    BY <1>1, <2>2, <2>4 DEF ReachedIsCurrent, Connectable, OneCurrent
  <2>6. (NoneWhenCleared /\ WaitsForTheOne /\ PidTellsTheTruth)'
    BY <2>2 DEF NoneWhenCleared, WaitsForTheOne, PidTellsTheTruth
  <2> QED
    BY <2>3, <2>5, <2>6 DEF Orderly
<1> QED
  BY <1>1, <1>3, <1>4 DEF DaemonInv, Hurried

LEMMA SpawnInv ==
  ASSUME TypeOK, Unstarted, DaemonInv, NEW s \in Shims, SpawnDaemon(s)
  PROVE  DaemonInv'
<1> DEFINE n == s
<1>1. n \in Daemons /\ stage[n] = "unborn"
  BY DEF Unstarted, Early, Holding, SpawnDaemon
<1>2. /\ phase[s] = "spawn" /\ phase' = [phase EXCEPT ![s] = "waitnew"]
      /\ of' = [of EXCEPT ![s] = n] /\ stage' = [stage EXCEPT ![n] = "probe"]
      /\ UNCHANGED <<lock, socket, pidfile, listening, trouble>>
  BY DEF SpawnDaemon, fileVars
<1> HIDE DEF n
<1>3. /\ lock = s /\ \A t \in Shims : t # s => phase[t] \notin Holding
      /\ \A t \in Shims : phase'[t] = IF t = s THEN "waitnew" ELSE phase[t]
  BY <1>2 DEF DaemonInv, HoldersHold, Holding, TypeOK
<1>4. HoldersHold'
  BY <1>2, <1>3 DEF HoldersHold
<1>5. ASSUME ~Hurried PROVE Orderly'
  <2>1. \A d \in Daemons : ~Current(d)
    BY <1>2, <1>5 DEF DaemonInv, Orderly, NoneWhenCleared
  <2>2. /\ \A d \in Daemons : Current(d)' => d = n
        /\ \A d \in Daemons : d # n => stage[d] \in {"unborn", "cleanup", "halt", "dead"}
    BY <1>1, <1>2, <2>1 DEF Current, Alive, Leaving, TypeOK
  <2>3. (PidNamesIt /\ SocketGoneFirst /\ BoundListens)'
    BY <1>1, <1>2, <1>5, <2>2
       DEF DaemonInv, Orderly, PidNamesIt, SocketGoneFirst, BoundListens, TypeOK
  <2>4. ~Connectable
    BY <1>5, <2>1, ReachedIsBound DEF Current, Alive
  <2>5. (ReachedIsCurrent /\ OneCurrent)'
    BY <1>2, <2>2, <2>4 DEF ReachedIsCurrent, Connectable, OneCurrent
  <2>6. phase'[s] = "waitnew" /\ of'[s] = n
    BY <1>2 DEF TypeOK
  <2>7. NewbornIsAwaited'
    BY <1>1, <1>2, <2>2, <2>6 DEF NewbornIsAwaited, TypeOK
  <2>8. (NoneWhenCleared /\ WaitsForTheOne /\ PidTellsTheTruth)'
    BY <1>3, <2>2, <2>6 DEF NoneWhenCleared, WaitsForTheOne, PidTellsTheTruth, Holding
  <2> QED
    BY <2>3, <2>5, <2>7, <2>8 DEF Orderly
<1> QED
  BY <1>2, <1>4, <1>5 DEF DaemonInv, Hurried

\* What neither the start-up of a daemon nor its end looks at.
LEMMA OtherStepInv ==
  ASSUME DaemonInv, UNCHANGED <<phase, of, lock, socket, pidfile, stage, listening>>,
         Hurried => Hurried'
  PROVE  DaemonInv'
<1>1. HoldersHold'
  BY DEF DaemonInv, HoldersHold
<1>2. ASSUME Orderly PROVE Orderly'
  BY <1>2 DEF Orderly, OneCurrent, PidNamesIt, SocketGoneFirst, BoundListens, ReachedIsCurrent,
     NewbornIsAwaited, NoneWhenCleared, WaitsForTheOne, PidTellsTheTruth, Connectable, Current,
     Alive, Leaving
<1> QED
  BY <1>1, <1>2 DEF DaemonInv

LEMMA DaemonInvStep ==
  ASSUME TypeOK, Unstarted, DaemonInv, [Next]_vars
  PROVE  DaemonInv'
<1>1. CASE UNCHANGED vars
  BY <1>1, OtherStepInv DEF vars, shimVars, fileVars, daemonVars, Hurried
<1>2. ASSUME NEW s \in Shims, ServeStep(s) PROVE DaemonInv'
  BY <1>2, OtherStepInv
     DEF ServeStep, Accept, InsertRow, Acknowledge, DeleteRow, Unregister, shimVars, fileVars,
         daemonVars, Hurried
<1>3. ASSUME NEW s \in Shims, ConnCrash(s) PROVE DaemonInv'
  BY <1>3, OtherStepInv, HurryLasts DEF ConnCrash, shimVars, fileVars, daemonVars
<1>4. ASSUME NEW d \in Daemons, Elapse(d) PROVE DaemonInv'
  BY <1>4, OtherStepInv DEF Elapse, shimVars, fileVars, Hurried
<1> QED
  BY <1>1, <1>2, <1>3, <1>4, ShimPhaseInv, RemovalInv, SpawnInv, DaemonStepInv DEF Next, ShimStep

LEMMA DaemonInvShares ==
  ASSUME TypeOK, DaemonInv
  PROVE  DaemonIsShared
<1>1. \A d \in Daemons : Up(d) => Current(d)
  BY DEF Up, Current, Alive, Leaving
<1>2. OneDaemon
  BY <1>1 DEF OneDaemon, DaemonInv, Orderly, OneCurrent
<1>3. ListenersAreReachable
  BY DEF ListenersAreReachable, Up, DaemonInv, Orderly, BoundListens
<1> QED
  BY <1>2, <1>3 DEF DaemonIsShared

\* As long as no start timeout runs out, shims starting at once get one daemon and
\* the socket file leads to it, whatever crashes, is killed or stops meanwhile
\* (client.rs, pharos_daemon_ffi.erl).
THEOREM OneDaemonForAll == Spec => []DaemonIsShared
<1>1. Init => DaemonInv
  BY InitDaemonInv
<1>2. TypeOK /\ Unstarted /\ DaemonInv /\ [Next]_vars => DaemonInv'
  BY DaemonInvStep
<1>3. TypeOK /\ DaemonInv => DaemonIsShared
  BY DaemonInvShares
<1> QED
  BY <1>1, <1>2, <1>3, DaemonTypes, AlwaysUnstarted, PTL DEF Spec

-----------------------------------------------------------------------------
(* Idle means idle: which sessions the daemon's check can miss.             *)

\* A session has its row from before its ack until it leaves.
RowsComplete == \A s \in Shims : conn[s] \in {"listed", "serving"} => s \in rows

\* No daemon knows of a shim that has not reached one.
NoConnYet == \A s \in Shims : phase[s] \in Early => conn[s] = "none"

\* Between its read of the sessions and its decision, a daemon gets sessions only late.
AskedServesLate ==
  \A d \in Daemons, s \in Shims :
    stage[d] = "asked" /\ of[s] = d /\ conn[s] \in {"listed", "serving"} => s \in late

ConnInv == RowsComplete /\ NoConnYet /\ AskedServesLate

LEMMA InitConnInv == Init => ConnInv
  BY DEF Init, ConnInv, RowsComplete, NoConnYet, AskedServesLate

\* A shim that does not connect: of changes only while no session depends on it.
LEMMA ShimMovesConn ==
  ASSUME TypeOK, ConnInv, NEW s \in Shims, NEW p, phase' = [phase EXCEPT ![s] = p],
         p \in Early => phase[s] \in Early,
         \A t \in Shims : of'[t] = of[t] \/ conn[t] \in Done,
         \A d \in Daemons : stage'[d] = "asked" => stage[d] = "asked",
         UNCHANGED <<conn, rows, late>>
  PROVE  ConnInv'
<1>1. \A t \in Shims : phase'[t] \in Early => phase[t] \in Early
  BY DEF TypeOK
<1>2. (RowsComplete /\ NoConnYet)'
  BY <1>1 DEF ConnInv, RowsComplete, NoConnYet
<1>3. AskedServesLate'
  BY DEF ConnInv, AskedServesLate, Done
<1> QED
  BY <1>2, <1>3 DEF ConnInv

LEMMA ConnectsConn ==
  ASSUME TypeOK, ConnInv, NEW s \in Shims, Connects(s)
  PROVE  ConnInv'
<1>1. /\ phase' = [phase EXCEPT ![s] = "hello"] /\ of' = [of EXCEPT ![s] = socket]
      /\ conn' = [conn EXCEPT ![s] = "queued"] /\ UNCHANGED <<stage, rows, late>>
  BY DEF Connects, daemonVars
<1> QED
  BY <1>1 DEF TypeOK, ConnInv, RowsComplete, NoConnYet, AskedServesLate, Early, Holding

LEMMA GivesUpConn ==
  ASSUME TypeOK, ConnInv, NEW s \in Shims, GivesUp(s)
  PROVE  ConnInv'
<1>1. /\ phase' = [phase EXCEPT ![s] = "direct"]
      /\ \A t \in Shims : of'[t] = of[t] \/ conn[t] \in Done
      /\ UNCHANGED <<stage, conn, rows, late>>
  BY DEF GivesUp, Goes, daemonVars, connVars, TypeOK
<1>2. "direct" \notin Early
  BY DEF Early, Holding
<1> QED
  BY <1>1, <1>2, ShimMovesConn

LEMMA ShimConnInv ==
  ASSUME TypeOK, ConnInv, NEW s \in Shims,
         ShimStep(s) \/ SpawnFails(s) \/ StartTimeout(s) \/ Leave(s)
  PROVE  ConnInv'
<1>1. CASE Connects(s)
  BY <1>1, ConnectsConn
<1>2. CASE GivesUp(s)
  BY <1>2, GivesUpConn
<1>3. ASSUME ~Connects(s), ~GivesUp(s) PROVE ConnInv'
  <2>1. /\ \E p : /\ phase' = [phase EXCEPT ![s] = p]
                  /\ p \in Early => phase[s] \in Early
        /\ UNCHANGED <<conn, rows, late>>
    BY <1>3 DEF ShimStep, StartTimeout, SpawnFails, Leave, Start, TakeLock, Recheck, ReadPid, Waits, WaitedInVain, EndsWait,
       RemoveSocket, RemovePid, SpawnDaemon, HelloEnds, Lose, Goes, connVars, Early, Holding
  <2>2. \A d \in Daemons : stage'[d] = "asked" => stage[d] = "asked"
    BY <1>3 DEF ShimStep, StartTimeout, SpawnFails, Leave, Start, TakeLock, Recheck, WaitedInVain, EndsWait,
       ReadPid, Waits, RemoveSocket, RemovePid, SpawnDaemon, HelloEnds, Lose, Goes, daemonVars, TypeOK
  <2>3. \A t \in Shims : of'[t] = of[t] \/ conn[t] \in Done
    <3>1. CASE ReadPid(s) \/ SpawnDaemon(s)
      <4>1. phase[s] \in Early
        BY <3>1 DEF ReadPid, SpawnDaemon, Early, Holding
      <4>2. conn[s] \in Done
        BY <4>1 DEF ConnInv, NoConnYet, Done
      <4>3. UNCHANGED of \/ \E x : of' = [of EXCEPT ![s] = x]
        BY <3>1 DEF ReadPid, SpawnDaemon
      <4> QED
        BY <4>2, <4>3 DEF TypeOK
    <3>2. ASSUME ~(ReadPid(s) \/ SpawnDaemon(s)) PROVE UNCHANGED of
      BY <1>3, <3>2 DEF ShimStep, StartTimeout, SpawnFails, Leave, Start, TakeLock, Recheck, Waits, WaitedInVain, EndsWait,
         RemoveSocket, RemovePid, HelloEnds, Lose
    <3> QED
      BY <3>1, <3>2
  <2> QED
    BY <2>1, <2>2, <2>3, ShimMovesConn
<1> QED
  BY <1>1, <1>2, <1>3

LEMMA ServeConnInv ==
  ASSUME TypeOK, ConnInv, NEW s \in Shims, ServeStep(s) \/ ConnCrash(s)
  PROVE  ConnInv'
<1>1. UNCHANGED <<phase, of, stage>>
  BY DEF ServeStep, Accept, InsertRow, Acknowledge, DeleteRow, Unregister, ConnCrash, shimVars, daemonVars
<1>2. PICK from, to :
        /\ conn[s] = from /\ conn' = [conn EXCEPT ![s] = to] /\ from # "none"
        /\ \/ to \notin {"listed", "serving"} /\ rows \ {s} \subseteq rows' /\ late \ {s} \subseteq late'
           \/ from \in {"listed", "serving"} /\ UNCHANGED <<rows, late>>
           \/ rows' = rows \cup {s} /\ late' = late \cup {s}
  BY DEF ServeStep, Accept, InsertRow, Acknowledge, DeleteRow, Unregister, ConnCrash, ConnStep
<1>3. \A t \in Shims : conn'[t] = IF t = s THEN to ELSE conn[t]
  BY <1>2 DEF TypeOK
<1>4. NoConnYet'
  BY <1>1, <1>2, <1>3 DEF ConnInv, NoConnYet
<1>5. RowsComplete'
  BY <1>2, <1>3 DEF ConnInv, RowsComplete
<1>6. AskedServesLate'
  BY <1>1, <1>2, <1>3 DEF ConnInv, AskedServesLate
<1> QED
  BY <1>4, <1>5, <1>6 DEF ConnInv

\* Connections of d are cut, at least those with a row that goes.
LEMMA CutConnInv ==
  ASSUME TypeOK, ConnInv, NEW d \in Daemons, NEW states, "none" \notin states, Cut(d, states),
         UNCHANGED <<phase, of>>,
         \A e \in Daemons : stage'[e] = "asked" => stage[e] = "asked",
         \/ UNCHANGED <<rows, late>>
         \/ /\ {"listed", "serving"} \subseteq states
            /\ rows' = rows \ RowsOf(d) /\ late' = late \ RowsOf(d)
  PROVE  ConnInv'
<1>1. \A s \in Shims :
        /\ conn'[s] \in {"listed", "serving"} =>
             conn[s] = conn'[s] /\ (of[s] # d \/ conn[s] \notin states)
        /\ conn[s] = "none" => conn'[s] = "none"
  BY DEF Cut
<1>2. NoConnYet'
  BY <1>1 DEF ConnInv, NoConnYet
<1>3. \A s \in Shims : conn'[s] \in {"listed", "serving"} =>
        (s \in rows => s \in rows') /\ (s \in late => s \in late')
  BY <1>1 DEF RowsOf
<1>4. (RowsComplete /\ AskedServesLate)'
  BY <1>1, <1>3 DEF ConnInv, RowsComplete, AskedServesLate
<1> QED
  BY <1>2, <1>4 DEF ConnInv

LEMMA CheckLiveConnInv ==
  ASSUME TypeOK, ConnInv, NEW d \in Daemons, CheckLive(d)
  PROVE  ConnInv'
<1>1. /\ UNCHANGED <<phase, of, conn>> /\ stage[d] = "serving"
      /\ rows' = rows \ (RowsOf(d) \ LiveRows(d)) /\ late' = {s \in late : of[s] # d}
      /\ IF LiveRows(d) = {} THEN stage' = [stage EXCEPT ![d] = "asked"] ELSE UNCHANGED stage
  BY DEF CheckLive, DaemonAt, shimVars
<1>2. (RowsComplete /\ NoConnYet)'
  BY <1>1 DEF ConnInv, RowsComplete, NoConnYet, LiveRows, Done
<1>3. AskedServesLate'
  <2> SUFFICES ASSUME NEW e \in Daemons, NEW s \in Shims, stage'[e] = "asked", of[s] = e,
                      conn[s] \in {"listed", "serving"}
               PROVE  s \in late'
    BY <1>1 DEF AskedServesLate
  <2>1. CASE e = d
    <3>1. s \in LiveRows(d)
      BY <2>1 DEF LiveRows, RowsOf, Done, ConnInv, RowsComplete
    <3> QED
      BY <1>1, <2>1, <3>1
  <2>2. CASE e # d
    BY <1>1, <2>2 DEF ConnInv, AskedServesLate, TypeOK
  <2> QED
    BY <2>1, <2>2
<1> QED
  BY <1>2, <1>3 DEF ConnInv

LEMMA DaemonConnInv ==
  ASSUME TypeOK, ConnInv, NEW d \in Daemons,
         DaemonStep(d) \/ Elapse(d) \/ Stop(d) \/ ListenerCrash(d) \/ Kill(d)
  PROVE  ConnInv'
<1>1. CASE CheckLive(d)
  BY <1>1, CheckLiveConnInv
<1>2. ASSUME ~CheckLive(d)
      PROVE  \A e \in Daemons : stage'[e] = "asked" => stage[e] = "asked"
  BY <1>2 DEF DaemonStep, Probe, RemoveStale, Bind, WritePid, CheckQuiet, Cleanup, CleanupSocket,
     CleanupPid, AfterCleanup, Moves, Halt, Elapse, Stop, ListenerCrash, Kill, DaemonAt, TypeOK
<1>3. UNCHANGED <<phase, of>>
  BY DEF DaemonStep, Probe, RemoveStale, Bind, WritePid, CheckLive, CheckQuiet, Cleanup,
         CleanupSocket, CleanupPid, Moves, Halt, Elapse, Stop, ListenerCrash, Kill, shimVars
<1>4. ASSUME ~CheckLive(d)
      PROVE  UNCHANGED connVars \/ Ends(d) \/ (Cut(d, {"queued"}) /\ UNCHANGED <<rows, late>>)
  BY <1>4 DEF DaemonStep, Probe, RemoveStale, Bind, WritePid, CheckQuiet, Cleanup,
         CleanupSocket, CleanupPid, Moves, Halt, Elapse, Stop, ListenerCrash, Kill
<1>5. ASSUME ~CheckLive(d), UNCHANGED connVars PROVE ConnInv'
  BY <1>2, <1>3, <1>5 DEF connVars, ConnInv, RowsComplete, NoConnYet, AskedServesLate
<1> QED
  BY <1>1, <1>2, <1>3, <1>4, <1>5, CutConnInv DEF Ends

LEMMA ConnInvStep ==
  ASSUME TypeOK, ConnInv, [Next]_vars
  PROVE  ConnInv'
<1>1. CASE UNCHANGED vars
  BY <1>1 DEF vars, shimVars, daemonVars, connVars, ConnInv, RowsComplete, NoConnYet, AskedServesLate
<1> QED
  BY <1>1, ShimConnInv, ServeConnInv, DaemonConnInv DEF Next

\* A daemon that finds itself idle has no session but one that got its row after the
\* check began (IdleCheck of daemon.gleam), however its actor and its connections crashed.
THEOREM IdleExitSparesSessions == Spec => IdleMeansIdle
<1>1. TypeOK /\ ConnInv /\ [Next]_vars => ConnInv'
  BY ConnInvStep
<1>2. TypeOK /\ ConnInv /\ [Next]_vars =>
        [\A d \in Daemons : stage[d] = "asked" /\ stage'[d] = "cleanup" => Served(d) \subseteq late]_vars
  BY DEF ConnInv, AskedServesLate, Served
<1> QED
  BY <1>1, <1>2, InitConnInv, DaemonTypes, PTL DEF Spec, IdleMeansIdle
=============================================================================
