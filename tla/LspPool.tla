------------------------------- MODULE LspPool -------------------------------
(***************************************************************************)
(* The LSP pool: one actor (pharos/lsp/pool.gleam) that hands out language *)
(* servers, the spawn workers it starts, the simple_one_for_one supervisor *)
(* the servers run under (pharos_lsp_dyn_sup.erl) and the ETS bridge that  *)
(* maps a key to the server last started for it.                           *)
(*                                                                         *)
(* The pool handles one message at a time, so each handler is one action.  *)
(* Messages from different senders may arrive in any order; messages from  *)
(* one sender (a worker's progress note, its completion, its DOWN) arrive  *)
(* in the order they were sent.  A message is "in flight" while its        *)
(* sender's state says it was sent and the pool has not taken it.          *)
(*                                                                         *)
(* Time is abstracted: every timeout is a nondeterministic outcome of the  *)
(* step that waits.  Process ids and monitor references are drawn from     *)
(* finite sets and taken again once nothing refers to them any more, so    *)
(* runs are of unbounded length.                                           *)
(***************************************************************************)
EXTENDS Naturals

CONSTANTS
  Keys,        \* ProcKey: (language, workspace, server key)
  Groups,      \* sets of keys that share a language and a workspace
  Selections,  \* sets of keys a kill request can name besides a whole group
  Unprobed,    \* keys whose server is configured without a readiness probe
  Callers,     \* processes that call pool.get
  Docs,        \* document URIs
  Pids,        \* lsp_proc actors
  Workers,     \* spawn workers; each also names the monitor set on its result
  Faults,      \* which disruptions this instance considers
  NoPid        \* no lsp_proc

ASSUME KeysAssumption ==
  /\ Groups \subseteq SUBSET Keys
  /\ Selections \subseteq SUBSET Keys
  /\ Unprobed \subseteq Keys
ASSUME FaultsAssumption ==
  Faults \subseteq {"proc_crash", "worker_crash", "dyn_sup_down", "pool_crash", "shutdown"}
ASSUME NoPidAssumption == NoPid \notin Pids
ASSUME KeysNonempty == Keys # {}

VARIABLES
  \* The pool actor's state record.
  cache,       \* Dict(ProcKey, Proc)
  inflight,    \* Dict(ProcKey, waiters): {} when the key has no entry
  monitors,    \* references to cached procs, named by the worker that made them
  spawnerMons, \* references to spawn workers
  opened,      \* (key, uri) pairs the pool believes it has announced
  lspState,    \* what runtime_lsp_state reports
  closed,      \* CloseAll was handled: the program is on its way out
  \* The spawn workers.
  wphase, wkey, wproc,
  notes,       \* workers whose SpawnProgress note is in flight
  strays,      \* workers of an earlier incarnation of the pool
  \* The supervisor, its children and the bridge.
  pstate, pkey,
  row,         \* pharos_lsp_proc_subjects: key -> the proc last started for it
  exits,       \* children whose abnormal exit the supervisor has yet to handle
  sup,         \* the child whose init the supervisor is running, or NoPid
  \* What the language servers have been told.
  mail,        \* didOpen notices the pool gave up on that are still queued
  heard,       \* how often each server was sent didOpen for each document (0..2)
  \* The callers.
  cphase, ckey

poolVars == <<cache, inflight, monitors, spawnerMons, opened, lspState, closed>>
workerVars == <<wphase, wkey, wproc, notes, strays>>
supVars == <<pstate, pkey, row, exits, sup>>
docVars == <<mail, heard>>
callerVars == <<cphase, ckey>>
vars == <<poolVars, workerVars, supVars, docVars, callerVars>>

WorkerPhases == {"free", "resolving", "queued", "starting", "started",
                 "probing", "closing", "ok", "error", "crashed", "exiting"}
LspStates == {"none", "Spawning", "Probing", "Ready", "Failed"}

(***************************************************************************)
(* Derived state.                                                          *)
(***************************************************************************)
Alive(p) == p \in Pids /\ pstate[p] = "live"
Cached(k) == cache[k] # NoPid

\* Phases in which a worker runs its own code and may still crash.
Running == {"resolving", "queued", "starting", "started", "probing", "closing"}

\* The worker has not had its outcome (completion or crash) taken by the pool.
Unfinished(w) == wphase[w] \in Running \cup {"ok", "error", "crashed"}

AnyKey == CHOOSE k \in Keys : TRUE
Unheard == [u \in Docs |-> 0]

\* Nothing refers to the pid or the worker any more: a new process may take it.
FreshPid(p) ==
  /\ pstate[p] = "dead" /\ p \notin exits
  /\ \A k \in Keys : cache[k] # p /\ row[k] # p
  /\ \A w \in Workers : wproc[w] = p => wphase[w] = "free" /\ w \notin monitors
FreshWorker(w) ==
  wphase[w] = "free" /\ w \notin monitors /\ w \notin spawnerMons

Init ==
  /\ cache = [k \in Keys |-> NoPid]
  /\ inflight = [k \in Keys |-> {}]
  /\ monitors = {} /\ spawnerMons = {} /\ opened = {}
  /\ lspState = [k \in Keys |-> "none"]
  /\ closed = FALSE
  /\ wphase = [w \in Workers |-> "free"]
  /\ wkey = [w \in Workers |-> AnyKey]
  /\ wproc = [w \in Workers |-> NoPid]
  /\ notes = {} /\ strays = {}
  /\ pstate = [p \in Pids |-> "dead"]
  /\ pkey = [p \in Pids |-> AnyKey]
  /\ row = [k \in Keys |-> NoPid]
  /\ exits = {} /\ sup = NoPid
  /\ mail = {} /\ heard = [p \in Pids |-> Unheard]
  /\ cphase = [c \in Callers |-> "idle"]
  /\ ckey = [c \in Callers |-> AnyKey]

-----------------------------------------------------------------------------
(* Callers. *)

\* pool.get: the Get message is on its way.
Ask(c, k) ==
  /\ cphase[c] = "idle"
  /\ cphase' = [cphase EXCEPT ![c] = "asked"]
  /\ ckey' = [ckey EXCEPT ![c] = k]
  /\ UNCHANGED <<poolVars, workerVars, supVars, docVars>>

\* The caller has used its answer.
Finish(c) ==
  /\ cphase[c] \in {"got", "failed"}
  /\ cphase' = [cphase EXCEPT ![c] = "idle"]
  /\ ckey' = [ckey EXCEPT ![c] = AnyKey]
  /\ UNCHANGED <<poolVars, workerVars, supVars, docVars>>

Answer(waiters, reply) ==
  cphase' = [c \in Callers |-> IF c \in waiters THEN reply ELSE cphase[c]]

-----------------------------------------------------------------------------
(* Get: a hit is answered, a second caller joins the waitlist, the first    *)
(* one starts a monitored spawn worker.                                     *)

HandleGetHit(c) ==
  /\ cphase[c] = "asked" /\ Cached(ckey[c])
  /\ Answer({c}, "got")
  /\ UNCHANGED <<poolVars, workerVars, supVars, docVars, ckey>>

JoinWaitlist(c) ==
  LET k == ckey[c] IN
  /\ cphase[c] = "asked" /\ ~Cached(k) /\ inflight[k] # {}
  /\ inflight' = [inflight EXCEPT ![k] = @ \cup {c}]
  /\ cphase' = [cphase EXCEPT ![c] = "waiting"]
  /\ UNCHANGED <<cache, monitors, spawnerMons, opened, lspState, closed,
                 workerVars, supVars, docVars, ckey>>

StartSpawn(c, w) ==
  LET k == ckey[c] IN
  /\ cphase[c] = "asked" /\ ~Cached(k) /\ inflight[k] = {}
  /\ FreshWorker(w)
  /\ wphase' = [wphase EXCEPT ![w] = "resolving"]
  /\ wkey' = [wkey EXCEPT ![w] = k]
  /\ wproc' = [wproc EXCEPT ![w] = NoPid]
  /\ inflight' = [inflight EXCEPT ![k] = {c}]
  /\ spawnerMons' = spawnerMons \cup {w}
  /\ lspState' = [lspState EXCEPT ![k] = "Spawning"]
  /\ cphase' = [cphase EXCEPT ![c] = "waiting"]
  /\ UNCHANGED <<cache, monitors, opened, closed, notes, strays,
                 supVars, docVars, ckey>>

HandleGet(c) ==
  HandleGetHit(c) \/ JoinWaitlist(c) \/ \E w \in Workers : StartSpawn(c, w)

-----------------------------------------------------------------------------
(* The spawn worker: recover the proc the bridge names, or start one.       *)

Advance(w, phase) == wphase' = [wphase EXCEPT ![w] = phase]

\* The worker has a proc: it posts the Probing note.
EnterProbe(w, p) ==
  /\ Advance(w, "probing")
  /\ wproc' = [wproc EXCEPT ![w] = p]
  /\ notes' = IF w \in strays THEN notes ELSE notes \cup {w}

\* The bridge row is taken at its word: nobody asks whether its proc lives.
Recover(w) ==
  /\ wphase[w] = "resolving" /\ row[wkey[w]] # NoPid
  /\ EnterProbe(w, row[wkey[w]])
  /\ UNCHANGED <<poolVars, wkey, strays, supVars, docVars, callerVars>>

RequestStart(w) ==
  /\ wphase[w] = "resolving" /\ row[wkey[w]] = NoPid
  /\ Advance(w, "queued")
  /\ UNCHANGED <<poolVars, wkey, wproc, notes, strays, supVars, docVars, callerVars>>

\* After start_child returns the worker looks its proc up in the bridge.
LookUpStarted(w) ==
  LET p == row[wkey[w]] IN
  /\ wphase[w] = "started"
  /\ IF p = NoPid
       THEN Advance(w, "error") /\ UNCHANGED <<wproc, notes>>
       ELSE EnterProbe(w, p)
  /\ UNCHANGED <<poolVars, wkey, strays, supVars, docVars, callerVars>>

\* One probe that gets no useful answer: note it and try again after a pause.
ProbeAgain(w) ==
  /\ wphase[w] = "probing" /\ wkey[w] \notin Unprobed
  /\ Alive(wproc[w]) /\ w \notin notes /\ w \notin strays
  /\ notes' = notes \cup {w}
  /\ UNCHANGED <<poolVars, wphase, wkey, wproc, strays, supVars, docVars, callerVars>>

\* The probe was answered, or there is none: SpawnCompleted(Ok) goes out.
ProbeOk(w) ==
  /\ wphase[w] = "probing"
  /\ Alive(wproc[w]) \/ wkey[w] \in Unprobed
  /\ Advance(w, "ok")
  /\ UNCHANGED <<poolVars, wkey, wproc, notes, strays, supVars, docVars, callerVars>>

\* The proc is dead, or the ready budget ran out.
ProbeFails(w) ==
  /\ wphase[w] = "probing" /\ wkey[w] \notin Unprobed
  /\ Advance(w, "closing")
  /\ UNCHANGED <<poolVars, wkey, wproc, notes, strays, supVars, docVars, callerVars>>

\* An Erlang-level crash of the worker before it reports.
WorkerCrash(w) ==
  /\ "worker_crash" \in Faults /\ wphase[w] \in {"resolving", "started", "probing"}
  /\ Advance(w, "crashed")
  /\ UNCHANGED <<poolVars, wkey, wproc, notes, strays, supVars, docVars, callerVars>>

-----------------------------------------------------------------------------
(* The supervisor runs one request at a time, and a child's init (the whole *)
(* initialize handshake) runs inside it.                                    *)

\* The procs of S end without the supervisor restarting them.
Terminate(S) ==
  /\ pstate' = [p \in Pids |-> IF p \in S THEN "dead" ELSE pstate[p]]
  /\ exits' = exits \ S
  /\ heard' = [p \in Pids |-> IF p \in S THEN Unheard ELSE heard[p]]
  /\ mail' = {m \in mail : m[1] \notin S}

BeginInit(p, k) ==
  /\ sup = NoPid /\ FreshPid(p)
  /\ pstate' = [pstate EXCEPT ![p] = "init"]
  /\ pkey' = [pkey EXCEPT ![p] = k]
  /\ sup' = p

StartChild(w, p) ==
  /\ wphase[w] = "queued"
  /\ BeginInit(p, wkey[w])
  /\ Advance(w, "starting")
  /\ wproc' = [wproc EXCEPT ![w] = p]
  /\ UNCHANGED <<poolVars, wkey, notes, strays, row, exits, docVars, callerVars>>

\* The child fails before its init has anything to run (no such binary).
StartRefused(w) ==
  /\ wphase[w] = "queued" /\ sup = NoPid
  /\ Advance(w, "error")
  /\ UNCHANGED <<poolVars, wkey, wproc, notes, strays, supVars, docVars, callerVars>>

\* A transient child that exited abnormally is started again.
RestartChild(q, p) ==
  /\ q \in exits
  /\ BeginInit(p, pkey[q])
  /\ exits' = exits \ {q}
  /\ UNCHANGED <<poolVars, workerVars, row, docVars, callerVars>>

\* The init ends well: the bridge row is overwritten with the new proc.
InitOk ==
  /\ sup # NoPid
  /\ pstate' = [pstate EXCEPT ![sup] = "live"]
  /\ row' = [row EXCEPT ![pkey[sup]] = sup]
  /\ wphase' = [w \in Workers |-> IF wphase[w] = "starting" THEN "started" ELSE wphase[w]]
  /\ sup' = NoPid
  /\ UNCHANGED <<poolVars, wkey, wproc, notes, strays, pkey, exits, docVars, callerVars>>

\* It fails: a starting worker is told; a restart is tried again.
InitFails ==
  /\ sup # NoPid
  /\ pstate' = [pstate EXCEPT ![sup] = "dead"]
  /\ LET asking == {w \in Workers : wphase[w] = "starting"} IN
       /\ wphase' = [w \in Workers |-> IF w \in asking THEN "error" ELSE wphase[w]]
       /\ exits' = IF asking = {} THEN exits \cup {sup} ELSE exits
  /\ sup' = NoPid
  /\ UNCHANGED <<poolVars, wkey, wproc, notes, strays, pkey, row, docVars, callerVars>>

\* The worker closes a proc that never became ready; the bridge row stays.
CloseProbed(w) ==
  /\ wphase[w] = "closing" /\ sup = NoPid
  /\ Terminate({wproc[w]})
  /\ Advance(w, "error")
  /\ UNCHANGED <<poolVars, wkey, wproc, notes, strays, pkey, row, sup, callerVars>>

\* A proc dies abnormally (its port failed under it).
ProcCrash(p) ==
  /\ "proc_crash" \in Faults /\ pstate[p] = "live"
  /\ pstate' = [pstate EXCEPT ![p] = "dead"]
  /\ exits' = exits \cup {p}
  /\ heard' = [heard EXCEPT ![p] = Unheard]
  /\ mail' = {m \in mail : m[1] # p}
  /\ UNCHANGED <<poolVars, workerVars, pkey, row, sup, callerVars>>

\* Everything under the supervisor goes; calls into it fail.
SupervisorGone ==
  /\ pstate' = [p \in Pids |-> "dead"]
  /\ exits' = {} /\ sup' = NoPid
  /\ mail' = {} /\ heard' = [p \in Pids |-> Unheard]
  /\ wphase' = [w \in Workers |-> IF wphase[w] \in {"queued", "starting", "closing"}
                                    THEN "crashed" ELSE wphase[w]]
  /\ UNCHANGED <<pkey, row>>

\* Too many restarts within the period: the supervisor gives up and is itself
\* restarted, empty.  Children outside Keys use up the intensity too, so one
\* pending restart is enough.
DynSupDown ==
  /\ "dyn_sup_down" \in Faults /\ exits # {}
  /\ SupervisorGone
  /\ UNCHANGED <<poolVars, wkey, wproc, notes, strays, callerVars>>

\* The same while the pool is inside terminate_child: the pool crashes with it
\* and both start empty.  Callers in the middle of a call go down; the workers
\* run on, and report to a pool that no longer exists.
PoolCrash ==
  /\ "pool_crash" \in Faults /\ exits # {} /\ \E k \in Keys : Cached(k)
  /\ SupervisorGone
  /\ cache' = [k \in Keys |-> NoPid]
  /\ inflight' = [k \in Keys |-> {}]
  /\ monitors' = {} /\ spawnerMons' = {} /\ opened' = {}
  /\ lspState' = [k \in Keys |-> "none"]
  /\ strays' = {w \in Workers : wphase[w] # "free"}
  /\ notes' = {}
  /\ cphase' = [c \in Callers |-> IF cphase[c] \in {"asked", "waiting"}
                                    THEN "failed" ELSE cphase[c]]
  /\ UNCHANGED <<closed, wkey, wproc, ckey>>

-----------------------------------------------------------------------------
(* Messages from the workers and monitors.                                  *)

\* The worker is forgotten: a later spawn may take its name.
Retire(w) ==
  /\ wphase' = [wphase EXCEPT ![w] = "free"]
  /\ wkey' = IF w \in monitors THEN wkey ELSE [wkey EXCEPT ![w] = AnyKey]
  /\ wproc' = IF w \in monitors THEN wproc ELSE [wproc EXCEPT ![w] = NoPid]

HandleSpawnProgress(w) ==
  /\ w \in notes
  /\ notes' = notes \ {w}
  /\ lspState' = [lspState EXCEPT ![wkey[w]] = "Probing"]
  /\ UNCHANGED <<cache, inflight, monitors, spawnerMons, opened, closed,
                 wphase, wkey, wproc, strays, supVars, docVars, callerVars>>

\* Mutation: a completed spawn leaves its worker's monitor entry behind.
KeepSpawnerMonitor(k) == k \in Keys /\ UNCHANGED spawnerMons

\* Drop the first spawner monitor found for the key (dict order is arbitrary).
DropSpawnerMonitor(k) ==
  LET forKey == {v \in spawnerMons : wkey[v] = k} IN
  IF forKey = {} THEN UNCHANGED spawnerMons
  ELSE \E v \in forKey : spawnerMons' = spawnerMons \ {v}

\* Mutation: the waitlist survives the completion that answered it.
SpawnCompletedKeepsWaitlist(w, phase) ==
  /\ wphase[w] = phase /\ w \notin notes /\ w \notin strays
  /\ DropSpawnerMonitor(wkey[w])
  /\ Advance(w, "exiting")
  /\ UNCHANGED <<inflight, opened, closed, wkey, wproc, notes, strays, supVars,
                 docVars, ckey>>

SpawnCompleted(w, phase) ==
  /\ wphase[w] = phase /\ w \notin notes /\ w \notin strays
  /\ inflight' = [inflight EXCEPT ![wkey[w]] = {}]
  /\ DropSpawnerMonitor(wkey[w])
  /\ Advance(w, "exiting")
  /\ UNCHANGED <<opened, closed, wkey, wproc, notes, strays, supVars, docVars, ckey>>

\* Mutation: the finished proc is cached without a monitor.
HandleSpawnOkUnmonitored(w) ==
  /\ SpawnCompleted(w, "ok")
  /\ Answer(inflight[wkey[w]], "got")
  /\ cache' = [cache EXCEPT ![wkey[w]] = wproc[w]]
  /\ lspState' = [lspState EXCEPT ![wkey[w]] = "Ready"]
  /\ UNCHANGED monitors

HandleSpawnOk(w) ==
  /\ SpawnCompleted(w, "ok")
  /\ Answer(inflight[wkey[w]], "got")
  /\ cache' = [cache EXCEPT ![wkey[w]] = wproc[w]]
  /\ monitors' = monitors \cup {w}
  /\ lspState' = [lspState EXCEPT ![wkey[w]] = "Ready"]

HandleSpawnError(w) ==
  /\ SpawnCompleted(w, "error")
  /\ Answer(inflight[wkey[w]], "failed")
  /\ lspState' = [lspState EXCEPT ![wkey[w]] = "Failed"]
  /\ UNCHANGED <<cache, monitors>>

\* Mutation: a crashed worker's entry goes, its waiters stay.
HandleSpawnerDownNoFlush(w) ==
  /\ wphase[w] \in {"crashed", "exiting"} /\ w \notin notes
  /\ Retire(w)
  /\ spawnerMons' = spawnerMons \ {w}
  /\ strays' = strays \ {w}
  /\ UNCHANGED <<cache, inflight, monitors, opened, lspState, closed, notes,
                 supVars, docVars, callerVars>>

\* The DOWN of a worker.  Unknown references are ignored.
HandleSpawnerDown(w) ==
  /\ wphase[w] \in {"crashed", "exiting"} /\ w \notin notes
  /\ Retire(w)
  /\ UNCHANGED <<cache, monitors, opened, closed, notes, supVars, docVars, ckey>>
  /\ IF w \in spawnerMons
       THEN /\ inflight' = [inflight EXCEPT ![wkey[w]] = {}]
            /\ Answer(inflight[wkey[w]], "failed")
            /\ spawnerMons' = spawnerMons \ {w}
            /\ lspState' = [lspState EXCEPT ![wkey[w]] = "Failed"]
       ELSE UNCHANGED <<inflight, spawnerMons, lspState, cphase>>
  /\ strays' = strays \ {w}

\* A worker whose pool is gone reports to nobody.
StrayEnds(w) ==
  /\ w \in strays /\ wphase[w] \in {"ok", "error"}
  /\ Advance(w, "exiting")
  /\ UNCHANGED <<poolVars, wkey, wproc, notes, strays, supVars, docVars, callerVars>>

\* Mutation: the opened documents outlive the proc they were opened on.
KeepDocs(S) == S \subseteq Keys /\ opened' = opened

ForgetDocs(S) == opened' = {d \in opened : d[1] \notin S}

\* Mutation: the DOWN of a proc also drops the waitlist of its key.
ChildDownDropsWaitlist(w) ==
  LET k == wkey[w] IN
  /\ w \in monitors /\ pstate[wproc[w]] = "dead"
  /\ cache' = [cache EXCEPT ![k] = NoPid]
  /\ inflight' = [inflight EXCEPT ![k] = {}]
  /\ monitors' = monitors \ {w}
  /\ lspState' = [lspState EXCEPT ![k] = "none"]
  /\ ForgetDocs({k})
  /\ UNCHANGED <<spawnerMons, closed, workerVars, supVars, docVars, callerVars>>

\* Mutation: the DOWN of a proc leaves a state nobody knows behind.
ChildDownMarksStopped(w) ==
  LET k == wkey[w] IN
  /\ w \in monitors /\ pstate[wproc[w]] = "dead"
  /\ cache' = [cache EXCEPT ![k] = NoPid]
  /\ monitors' = monitors \ {w}
  /\ lspState' = [lspState EXCEPT ![k] = "Stopped"]
  /\ ForgetDocs({k})
  /\ UNCHANGED <<inflight, spawnerMons, closed, workerVars, supVars, docVars,
                 callerVars>>

\* The DOWN of a cached proc: whatever is cached under the key is dropped.
HandleLspChildDown(w) ==
  LET k == wkey[w] IN
  /\ w \in monitors /\ pstate[wproc[w]] = "dead"
  /\ cache' = [cache EXCEPT ![k] = NoPid]
  /\ monitors' = monitors \ {w}
  /\ lspState' = [lspState EXCEPT ![k] = "none"]
  /\ ForgetDocs({k})
  /\ wkey' = IF wphase[w] = "free" THEN [wkey EXCEPT ![w] = AnyKey] ELSE wkey
  /\ wproc' = IF wphase[w] = "free" THEN [wproc EXCEPT ![w] = NoPid] ELSE wproc
  /\ UNCHANGED <<inflight, spawnerMons, closed, wphase, notes, strays, supVars,
                 docVars, callerVars>>

-----------------------------------------------------------------------------
(* Evictions: close what is cached under the keys of S and forget the       *)
(* bridge row.  The monitor entries stay until the DOWN arrives.            *)

EvictKeys(S) ==
  LET hit == {k \in S : Cached(k)} IN
  /\ hit # {} /\ sup = NoPid
  /\ Terminate({cache[k] : k \in hit})
  /\ row' = [k \in Keys |-> IF k \in hit THEN NoPid ELSE row[k]]
  /\ cache' = [k \in Keys |-> IF k \in hit THEN NoPid ELSE cache[k]]
  /\ lspState' = [k \in Keys |-> IF k \in hit THEN "none" ELSE lspState[k]]
  /\ ForgetDocs(hit)
  /\ UNCHANGED <<inflight, monitors, spawnerMons, closed, workerVars, pkey, sup,
                 callerVars>>

\* One key after a transport error, or the idle sweep's choice of keys.
HandleEvict(k) == EvictKeys({k})
HandleIdleSweep == \E S \in SUBSET Keys : EvictKeys(S)
HandleEvictAll(g) == EvictKeys(g)
HandleKillLsp(S) == EvictKeys(S)

\* Shutdown: every cached proc is closed, rows and spawner monitors stay, and
\* the waitlists are dropped without an answer.
HandleCloseAll ==
  /\ "shutdown" \in Faults /\ sup = NoPid
  /\ Terminate({cache[k] : k \in {j \in Keys : Cached(j)}})
  /\ cache' = [k \in Keys |-> NoPid]
  /\ inflight' = [k \in Keys |-> {}]
  /\ monitors' = {} /\ opened' = {}
  /\ lspState' = [k \in Keys |-> "none"]
  /\ closed' = TRUE
  /\ UNCHANGED <<spawnerMons, workerVars, pkey, row, sup, callerVars>>

-----------------------------------------------------------------------------
(* EnsureOpen: announce a document to the cached proc once.  The send is a  *)
(* call with a timeout; a notice the pool gave up on stays in the proc's    *)
(* mailbox and is sent when the proc comes to it.                           *)

Hear(p, u, n) == heard' = [heard EXCEPT ![p][u] = IF @ + n > 2 THEN 2 ELSE @ + n]

EnsureOpenOk(k, u) ==
  LET p == cache[k] IN
  /\ <<k, u>> \notin opened /\ Alive(p)
  /\ Hear(p, u, IF <<p, u>> \in mail THEN 2 ELSE 1)
  /\ mail' = mail \ {<<p, u>>}
  /\ opened' = opened \cup {<<k, u>>}
  /\ UNCHANGED <<cache, inflight, monitors, spawnerMons, lspState, closed,
                 workerVars, supVars, callerVars>>

EnsureOpenTimesOut(k, u) ==
  /\ <<k, u>> \notin opened /\ Alive(cache[k]) /\ <<cache[k], u>> \notin mail
  /\ mail' = mail \cup {<<cache[k], u>>}
  /\ UNCHANGED <<poolVars, workerVars, supVars, heard, callerVars>>

EnsureOpen(k, u) == EnsureOpenOk(k, u) \/ EnsureOpenTimesOut(k, u)

LateDidOpen(m) ==
  /\ mail' = mail \ {m}
  /\ Hear(m[1], m[2], 1)
  /\ UNCHANGED <<poolVars, workerVars, supVars, callerVars>>

-----------------------------------------------------------------------------
CallerStep(c) == (\E k \in Keys : Ask(c, k)) \/ Finish(c)

WorkerStep(w) ==
  \/ Recover(w) \/ RequestStart(w) \/ LookUpStarted(w)
  \/ ProbeAgain(w) \/ ProbeOk(w) \/ ProbeFails(w)
  \/ CloseProbed(w) \/ WorkerCrash(w) \/ StrayEnds(w)

SupStep ==
  \/ \E w \in Workers : StartRefused(w) \/ \E p \in Pids : StartChild(w, p)
  \/ \E q, p \in Pids : RestartChild(q, p)
  \/ InitOk \/ InitFails

PoolStep ==
  \/ \E c \in Callers : HandleGet(c)
  \/ \E w \in Workers : \/ HandleSpawnProgress(w)
                        \/ HandleSpawnOk(w) \/ HandleSpawnError(w)
                        \/ HandleSpawnerDown(w) \/ HandleLspChildDown(w)
  \/ \E k \in Keys : HandleEvict(k)
  \/ \E g \in Groups : HandleEvictAll(g)
  \/ \E S \in Selections : HandleKillLsp(S)
  \/ HandleIdleSweep
  \/ HandleCloseAll
  \/ \E k \in Keys, u \in Docs : EnsureOpen(k, u)

Environment ==
  \/ \E p \in Pids : ProcCrash(p)
  \/ \E m \in mail : LateDidOpen(m)
  \/ DynSupDown
  \/ PoolCrash

Next ==
  \/ \E c \in Callers : CallerStep(c)
  \/ \E w \in Workers : WorkerStep(w)
  \/ SupStep \/ PoolStep \/ Environment

Spec == Init /\ [][Next]_vars

\* The pool takes every message in its mailbox; a worker runs on, and its probe
\* loop ends within the ready budget; the supervisor serves its mailbox in order
\* and an init ends within its timeout.
Fairness ==
  /\ \A c \in Callers : SF_vars(HandleGet(c))
  /\ \A w \in Workers :
       /\ WF_vars(HandleSpawnProgress(w))
       /\ WF_vars(HandleSpawnOk(w) \/ HandleSpawnError(w))
       /\ WF_vars(HandleSpawnerDown(w))
       /\ WF_vars(HandleLspChildDown(w))
       /\ WF_vars(Recover(w) \/ RequestStart(w) \/ LookUpStarted(w) \/ StrayEnds(w))
       /\ WF_vars(ProbeOk(w) \/ ProbeFails(w))
       /\ SF_vars(CloseProbed(w))
       /\ SF_vars(StartRefused(w) \/ \E p \in Pids : StartChild(w, p))
  /\ WF_vars(InitOk \/ InitFails)
FairSpec == Spec /\ Fairness

-----------------------------------------------------------------------------
(* What the pool promises its callers (module PoolService), and how its     *)
(* state shows it.                                                          *)

status == [k \in Keys |-> IF Cached(k) THEN "ready"
                         ELSE IF inflight[k] # {} THEN "spawning" ELSE "absent"]

Service == INSTANCE PoolService WITH
       Keys <- Keys, Callers <- Callers,
       status <- status, cphase <- cphase, ckey <- ckey, closed <- closed
ServiceSpec == Service!Spec
ServiceLiveness == Service!Liveness

-----------------------------------------------------------------------------
(* Properties.                                                              *)

\* Every variable holds what the code's types allow.
TypeOK ==
  /\ cache \in [Keys -> Pids \cup {NoPid}]
  /\ inflight \in [Keys -> SUBSET Callers]
  /\ monitors \subseteq Workers /\ spawnerMons \subseteq Workers
  /\ opened \subseteq Keys \X Docs
  /\ lspState \in [Keys -> LspStates]
  /\ closed \in BOOLEAN
  /\ wphase \in [Workers -> WorkerPhases]
  /\ wkey \in [Workers -> Keys]
  /\ wproc \in [Workers -> Pids \cup {NoPid}]
  /\ notes \subseteq Workers /\ strays \subseteq Workers
  /\ pstate \in [Pids -> {"dead", "init", "live"}]
  /\ pkey \in [Pids -> Keys]
  /\ row \in [Keys -> Pids \cup {NoPid}]
  /\ exits \subseteq Pids
  /\ sup \in Pids \cup {NoPid}
  /\ mail \subseteq Pids \X Docs
  /\ heard \in [Pids -> [Docs -> 0..2]]
  /\ cphase \in [Callers -> {"idle", "asked", "waiting", "got", "failed"}]
  /\ ckey \in [Callers -> Keys]

\* Whoever waits for a key has a spawn worker behind it that the pool monitors
\* and whose outcome it has not taken: no waiter is left hanging, whatever
\* closes, crashes or is evicted meanwhile.
WaitersHaveASpawner ==
  \A k \in Keys : inflight[k] # {} =>
    \E w \in spawnerMons : wkey[w] = k /\ Unfinished(w)

\* Until shutdown a caller inside pool.get is on the waitlist of its key: an
\* answer sent to the waitlist reaches everyone who asked.
CallersAreListed ==
  ~closed => \A c \in Callers :
    cphase[c] = "waiting" <=> c \in inflight[ckey[c]]

\* A caller waits for one key only, so it is answered at most once.
AnsweredOnce ==
  \A k \in Keys : \A c \in inflight[k] : cphase[c] = "waiting" /\ ckey[c] = k

\* An answer sent to a waitlist reaches everyone who asked for the key, and
\* nobody else (handle_get, handle_spawn_completed).
CallersServed == CallersAreListed /\ AnsweredOnce

\* Until shutdown concurrent gets of a key share one spawn: at most one worker
\* of the current pool is unfinished for it, and none when the key is cached.
SingleFlight ==
  ~closed => \A v, w \in Workers \ strays :
    Unfinished(v) /\ Unfinished(w) /\ wkey[v] = wkey[w] =>
      v = w /\ ~Cached(wkey[w]) /\ inflight[wkey[w]] # {}

\* A worker's DOWN fails the waiters only if the worker really crashed: once its
\* completion was taken, the monitor entry is gone before the DOWN arrives.
OnlyCrashesFailWaiters ==
  ~closed => \A w \in spawnerMons : wphase[w] # "exiting"

\* One spawn serves all who ask for a key, and its end is taken once.
FlightsApart == SingleFlight /\ OnlyCrashesFailWaiters

\* The death of a cached proc is always noticed: its monitor is still in place.
CachedIsMonitored ==
  \A k \in Keys : Cached(k) =>
    \E w \in monitors : wkey[w] = k /\ wproc[w] = cache[k]

\* A document the pool believes open was sent to the very proc that is cached
\* now, not to one it replaced.
OpenedAtCachedProc ==
  ~closed => \A d \in opened :
    /\ Cached(d[1])
    /\ Alive(cache[d[1]]) => heard[cache[d[1]]][d[2]] > 0

\* A dead proc does not stay in the cache.
DeadProcIsDropped ==
  \A k \in Keys, p \in Pids : cache[k] = p /\ ~Alive(p) ~> cache[k] # p

\* A worker that found a dead proc in the bridge, with no restart on the way,
\* does not take it: the next get after an exit starts a new server.
RespawnsAfterExit ==
  [][\A w \in Workers :
       wphase[w] = "resolving" /\ wphase'[w] = "probing" =>
         Alive(wproc'[w]) \/ wproc'[w] \in exits \/ sup # NoPid]_vars

\* Not so: at most one server runs for a key.  A restarted proc may be orphaned.
OneServerPerKey ==
  \A p, q \in Pids : Alive(p) /\ Alive(q) /\ pkey[p] = pkey[q] => p = q

\* Not so: runtime_lsp_state shows every spawn that callers wait for.  A stale
\* DOWN clears it.
SpawnIsVisible == \A k \in Keys : inflight[k] # {} => lspState[k] # "none"

\* Not so: ensure_open is idempotent, no server is told to open a document twice.
\* A notice that timed out is sent all the same.
DidOpenOnce == \A p \in Pids, u \in Docs : heard[p][u] <= 1

\* Not so: spawns of distinct keys run in parallel, none waits for another's
\* handshake.  There is one supervisor.
SpawnsInParallel ==
  \A w \in Workers : wphase[w] = "queued" /\ sup # NoPid => pkey[sup] = wkey[w]

=============================================================================
