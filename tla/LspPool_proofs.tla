--------------------------- MODULE LspPool_proofs ---------------------------
(***************************************************************************)
(* Invariants of the LSP pool, for every number of keys, callers, workers, *)
(* procs and documents and every choice of faults.                         *)
(***************************************************************************)
EXTENDS LspPool, TLAPS

USE KeysAssumption, NoPidAssumption

LEMMA AnyKeyType == AnyKey \in Keys
  BY KeysNonempty DEF AnyKey

-----------------------------------------------------------------------------
(* Type correctness.                                                        *)

LEMMA CallerStepType ==
  ASSUME TypeOK, NEW c \in Callers, CallerStep(c)
  PROVE  TypeOK'
<1> USE DEF TypeOK, poolVars, workerVars, supVars, docVars
<1>1. ASSUME NEW k \in Keys, Ask(c, k) PROVE TypeOK'
  BY <1>1 DEF Ask
<1>2. CASE Finish(c)
  BY <1>2, AnyKeyType DEF Finish
<1> QED
  BY <1>1, <1>2, CallerStep(c) DEF CallerStep

LEMMA WorkerStepType ==
  ASSUME TypeOK, NEW w \in Workers, WorkerStep(w)
  PROVE  TypeOK'
<1> USE DEF TypeOK, Advance, EnterProbe, poolVars, supVars, docVars, callerVars, WorkerPhases
<1>1. CASE Recover(w)
  BY <1>1 DEF Recover
<1>2. CASE RequestStart(w)
  BY <1>2 DEF RequestStart
<1>3. CASE LookUpStarted(w)
  <2>1. CASE row[wkey[w]] = NoPid
    BY <1>3, <2>1 DEF LookUpStarted
  <2>2. CASE row[wkey[w]] # NoPid
    <3>1. /\ wphase' = [wphase EXCEPT ![w] = "probing"]
          /\ wproc' = [wproc EXCEPT ![w] = row[wkey[w]]]
          /\ notes' \in {notes, notes \cup {w}}
      BY <1>3, <2>2 DEF LookUpStarted
    <3>2. UNCHANGED <<poolVars, wkey, strays, supVars, docVars, callerVars>>
      BY <1>3 DEF LookUpStarted
    <3> QED
      BY <3>1, <3>2
  <2> QED
    BY <2>1, <2>2
<1>4. CASE ProbeAgain(w)
  BY <1>4 DEF ProbeAgain
<1>5. CASE ProbeOk(w)
  BY <1>5 DEF ProbeOk
<1>6. CASE ProbeFails(w)
  BY <1>6 DEF ProbeFails
<1>7. CASE CloseProbed(w)
  BY <1>7 DEF CloseProbed, Terminate, Unheard
<1>8. CASE WorkerCrash(w)
  BY <1>8 DEF WorkerCrash
<1>9. CASE StrayEnds(w)
  BY <1>9 DEF StrayEnds
<1> QED
  BY <1>1, <1>2, <1>3, <1>4, <1>5, <1>6, <1>7, <1>8, <1>9, WorkerStep(w) DEF WorkerStep

LEMMA SupStepType ==
  ASSUME TypeOK, SupStep
  PROVE  TypeOK'
<1> USE DEF TypeOK, Advance, poolVars, workerVars, docVars, callerVars, WorkerPhases, supVars
<1>1. ASSUME NEW w \in Workers, StartRefused(w) PROVE TypeOK'
  BY <1>1 DEF StartRefused
<1>2. ASSUME NEW w \in Workers, NEW p \in Pids, StartChild(w, p) PROVE TypeOK'
  BY <1>2 DEF StartChild, BeginInit
<1>3. ASSUME NEW q \in Pids, NEW p \in Pids, RestartChild(q, p) PROVE TypeOK'
  BY <1>3 DEF RestartChild, BeginInit
<1>4. CASE InitOk
  BY <1>4 DEF InitOk
<1>5. CASE InitFails
  BY <1>5 DEF InitFails
<1> QED
  BY <1>1, <1>2, <1>3, <1>4, <1>5, SupStep DEF SupStep

LEMMA HandleGetType ==
  ASSUME TypeOK, NEW c \in Callers, HandleGet(c)
  PROVE  TypeOK'
<1> USE DEF TypeOK, Answer, poolVars, workerVars, supVars, docVars, WorkerPhases, LspStates
<1>1. CASE HandleGetHit(c)
  BY <1>1 DEF HandleGetHit
<1>2. CASE JoinWaitlist(c)
  BY <1>2 DEF JoinWaitlist
<1>3. ASSUME NEW w \in Workers, StartSpawn(c, w) PROVE TypeOK'
  BY <1>3 DEF StartSpawn
<1> QED
  BY <1>1, <1>2, <1>3, HandleGet(c) DEF HandleGet

LEMMA WorkerMessageType ==
  ASSUME TypeOK, NEW w \in Workers,
         \/ HandleSpawnProgress(w) \/ HandleSpawnOk(w) \/ HandleSpawnError(w)
         \/ HandleSpawnerDown(w) \/ HandleLspChildDown(w)
  PROVE  TypeOK'
<1> USE DEF TypeOK, Answer, Advance, poolVars, workerVars, supVars, docVars, callerVars,
            WorkerPhases, LspStates
<1>1. CASE HandleSpawnProgress(w)
  BY <1>1 DEF HandleSpawnProgress
<1>2. CASE HandleSpawnOk(w)
  BY <1>2 DEF HandleSpawnOk, SpawnCompleted, DropSpawnerMonitor
<1>3. CASE HandleSpawnError(w)
  BY <1>3 DEF HandleSpawnError, SpawnCompleted, DropSpawnerMonitor
<1>4. CASE HandleSpawnerDown(w)
  BY <1>4, AnyKeyType DEF HandleSpawnerDown, Retire
<1>5. CASE HandleLspChildDown(w)
  BY <1>5, AnyKeyType DEF HandleLspChildDown, ForgetDocs
<1> QED
  BY <1>1, <1>2, <1>3, <1>4, <1>5

LEMMA EvictKeysType ==
  ASSUME TypeOK, NEW S \in SUBSET Keys, EvictKeys(S)
  PROVE  TypeOK'
  BY DEF TypeOK, EvictKeys, Terminate, ForgetDocs, Unheard, LspStates, workerVars, callerVars

LEMMA CloseAllType ==
  ASSUME TypeOK, HandleCloseAll
  PROVE  TypeOK'
  BY DEF TypeOK, HandleCloseAll, Terminate, Unheard, LspStates, workerVars, callerVars

LEMMA EnsureOpenType ==
  ASSUME TypeOK, NEW k \in Keys, NEW u \in Docs, EnsureOpen(k, u)
  PROVE  TypeOK'
<1> USE DEF TypeOK, poolVars, workerVars, supVars, callerVars, Alive
<1>1. CASE EnsureOpenOk(k, u)
  <2>1. heard' \in [Pids -> [Docs -> 0..2]]
    BY <1>1 DEF EnsureOpenOk, Hear
  <2> QED
    BY <1>1, <2>1 DEF EnsureOpenOk
<1>2. CASE EnsureOpenTimesOut(k, u)
  BY <1>2 DEF EnsureOpenTimesOut
<1> QED
  BY <1>1, <1>2, EnsureOpen(k, u) DEF EnsureOpen

LEMMA PoolStepType ==
  ASSUME TypeOK, PoolStep
  PROVE  TypeOK'
  BY HandleGetType, WorkerMessageType, EvictKeysType, CloseAllType, EnsureOpenType, PoolStep
  DEF PoolStep, HandleEvict, HandleEvictAll, HandleKillLsp, HandleIdleSweep

LEMMA EnvironmentType ==
  ASSUME TypeOK, Environment
  PROVE  TypeOK'
<1> USE DEF TypeOK, poolVars, workerVars, supVars, docVars, callerVars, WorkerPhases,
            LspStates, Unheard
<1>1. ASSUME NEW p \in Pids, ProcCrash(p) PROVE TypeOK'
  BY <1>1 DEF ProcCrash
<1>2. ASSUME NEW m \in mail, LateDidOpen(m) PROVE TypeOK'
  BY <1>2 DEF LateDidOpen, Hear
<1>3. CASE DynSupDown
  BY <1>3 DEF DynSupDown, SupervisorGone
<1>4. CASE PoolCrash
  BY <1>4 DEF PoolCrash, SupervisorGone
<1> QED
  BY <1>1, <1>2, <1>3, <1>4, Environment DEF Environment

LEMMA InitType == Init => TypeOK
<1> SUFFICES ASSUME Init PROVE TypeOK
  OBVIOUS
<1>1. cache \in [Keys -> Pids \cup {NoPid}] /\ inflight \in [Keys -> SUBSET Callers]
  BY DEF Init
<1>2. lspState \in [Keys -> LspStates] /\ wphase \in [Workers -> WorkerPhases]
  BY DEF Init, LspStates, WorkerPhases
<1>3. pkey \in [Pids -> Keys] /\ ckey \in [Callers -> Keys] /\ wkey \in [Workers -> Keys]
  BY AnyKeyType DEF Init
<1>4. heard \in [Pids -> [Docs -> 0..2]]
  BY DEF Init, Unheard
<1> QED
  BY <1>1, <1>2, <1>3, <1>4 DEF Init, TypeOK

LEMMA TypeStep ==
  ASSUME TypeOK, [Next]_vars
  PROVE  TypeOK'
<1>1. CASE UNCHANGED vars
  BY <1>1 DEF TypeOK, vars, poolVars, workerVars, supVars, docVars, callerVars
<1>2. CASE Next
  BY <1>2, CallerStepType, WorkerStepType, SupStepType, PoolStepType, EnvironmentType
  DEF Next
<1> QED
  BY <1>1, <1>2

\* Every variable holds what the types of the code allow.
THEOREM TypeCorrect == Spec => []TypeOK
<1>1. TypeOK /\ [Next]_vars => TypeOK'
  BY TypeStep
<1> QED
  BY InitType, <1>1, PTL DEF Spec
-----------------------------------------------------------------------------
(* Most steps are quiet: they leave the waitlists, the monitors and the     *)
(* callers alone, let no worker of this pool finish, and at most empty the  *)
(* cache.                                                                   *)

Same(v) == wphase'[v] = wphase[v] /\ wproc'[v] = wproc[v]
StillRuns(v) ==
  /\ Unfinished(v) /\ wphase'[v] # "free"
  /\ v \notin strays => Unfinished(v)'

Quiet ==
  /\ UNCHANGED <<inflight, cphase, ckey, monitors, spawnerMons, closed, wkey, strays>>
  /\ \A v \in Workers : Same(v) \/ StillRuns(v)
  /\ \A k \in Keys : cache'[k] \in {cache[k], NoPid}

LEMMA WorkerStepQuiet ==
  ASSUME TypeOK, NEW w \in Workers, WorkerStep(w)
  PROVE  Quiet
<1> USE DEF TypeOK, Advance, EnterProbe, poolVars, supVars, docVars, callerVars,
            Quiet, Same, StillRuns, Unfinished, Running
<1>1. CASE Recover(w)
  BY <1>1 DEF Recover
<1>2. CASE RequestStart(w)
  BY <1>2 DEF RequestStart
<1>3. CASE LookUpStarted(w)
  BY <1>3 DEF LookUpStarted
<1>4. CASE ProbeAgain(w)
  BY <1>4 DEF ProbeAgain
<1>5. CASE ProbeOk(w)
  BY <1>5 DEF ProbeOk
<1>6. CASE ProbeFails(w)
  BY <1>6 DEF ProbeFails
<1>7. CASE CloseProbed(w)
  BY <1>7 DEF CloseProbed
<1>8. CASE WorkerCrash(w)
  BY <1>8 DEF WorkerCrash
<1>9. CASE StrayEnds(w)
  BY <1>9 DEF StrayEnds
<1> QED
  BY <1>1, <1>2, <1>3, <1>4, <1>5, <1>6, <1>7, <1>8, <1>9, WorkerStep(w) DEF WorkerStep

LEMMA SupStepQuiet ==
  ASSUME TypeOK, SupStep
  PROVE  Quiet
<1> USE DEF TypeOK, Advance, poolVars, workerVars, docVars, callerVars, supVars,
            Quiet, Same, StillRuns, Unfinished, Running
<1>1. ASSUME NEW w \in Workers, StartRefused(w) PROVE Quiet
  BY <1>1 DEF StartRefused
<1>2. ASSUME NEW w \in Workers, NEW p \in Pids, StartChild(w, p) PROVE Quiet
  BY <1>2 DEF StartChild
<1>3. ASSUME NEW q \in Pids, NEW p \in Pids, RestartChild(q, p) PROVE Quiet
  BY <1>3 DEF RestartChild
<1>4. CASE InitOk
  BY <1>4 DEF InitOk
<1>5. CASE InitFails
  BY <1>5 DEF InitFails
<1> QED
  BY <1>1, <1>2, <1>3, <1>4, <1>5, SupStep DEF SupStep

LEMMA EnvironmentQuiet ==
  ASSUME TypeOK, Environment
  PROVE  Quiet \/ PoolCrash
<1> USE DEF TypeOK, poolVars, workerVars, supVars, callerVars,
            Quiet, Same, StillRuns, Unfinished, Running
<1>1. ASSUME NEW p \in Pids, ProcCrash(p) PROVE Quiet
  BY <1>1 DEF ProcCrash
<1>2. ASSUME NEW m \in mail, LateDidOpen(m) PROVE Quiet
  BY <1>2 DEF LateDidOpen
<1>3. CASE DynSupDown
  BY <1>3 DEF DynSupDown, SupervisorGone
<1> QED
  BY <1>1, <1>2, <1>3, Environment DEF Environment

LEMMA PoolStepQuiet ==
  ASSUME TypeOK, PoolStep
  PROVE  \/ Quiet \/ HandleCloseAll
         \/ \E c \in Callers : HandleGet(c)
         \/ \E w \in Workers : \/ HandleSpawnOk(w) \/ HandleSpawnError(w)
                               \/ HandleSpawnerDown(w) \/ HandleLspChildDown(w)
<1> USE DEF TypeOK, poolVars, workerVars, supVars, docVars, callerVars, Quiet, Same
<1>1. ASSUME NEW w \in Workers, HandleSpawnProgress(w) PROVE Quiet
  BY <1>1 DEF HandleSpawnProgress
<1>2. ASSUME NEW S \in SUBSET Keys, EvictKeys(S) PROVE Quiet
  BY <1>2 DEF EvictKeys
<1>3. ASSUME NEW k \in Keys, NEW u \in Docs, EnsureOpen(k, u) PROVE Quiet
  BY <1>3 DEF EnsureOpen, EnsureOpenOk, EnsureOpenTimesOut
<1> HIDE DEF TypeOK, Quiet
<1>4. ASSUME \/ \E k \in Keys : HandleEvict(k)
             \/ \E g \in Groups : HandleEvictAll(g)
             \/ \E S \in Selections : HandleKillLsp(S)
             \/ HandleIdleSweep
      PROVE  Quiet
  BY <1>2, <1>4 DEF HandleEvict, HandleEvictAll, HandleKillLsp, HandleIdleSweep
<1> QED
  BY <1>1, <1>3, <1>4, PoolStep DEF PoolStep

LEMMA StepKinds ==
  ASSUME TypeOK, [Next]_vars
  PROVE  \/ Quiet \/ HandleCloseAll \/ PoolCrash
         \/ \E c \in Callers : CallerStep(c) \/ HandleGet(c)
         \/ \E w \in Workers : \/ HandleSpawnOk(w) \/ HandleSpawnError(w)
                               \/ HandleSpawnerDown(w) \/ HandleLspChildDown(w)
<1>1. CASE UNCHANGED vars
  BY <1>1 DEF TypeOK, vars, poolVars, workerVars, callerVars, Quiet, Same
<1>2. CASE Next
  BY <1>2, WorkerStepQuiet, SupStepQuiet, PoolStepQuiet, EnvironmentQuiet DEF Next
<1> QED
  BY <1>1, <1>2
-----------------------------------------------------------------------------
(* Workers of an earlier pool are unknown to the present one.               *)

StraysApart ==
  /\ strays \cap spawnerMons = {}
  /\ \A w \in strays : wphase[w] # "free"

LEMMA StraysStep ==
  ASSUME TypeOK, StraysApart, [Next]_vars
  PROVE  StraysApart'
<1> USE DEF TypeOK, StraysApart, poolVars, workerVars, supVars, docVars
<1>1. CASE Quiet
  BY <1>1 DEF Quiet, Same, StillRuns
<1>2. CASE HandleCloseAll
  BY <1>2 DEF HandleCloseAll
<1>3. CASE PoolCrash
  BY <1>3 DEF PoolCrash, SupervisorGone
<1>4. ASSUME NEW c \in Callers, CallerStep(c) PROVE StraysApart'
  BY <1>4 DEF CallerStep, Ask, Finish
<1>5. ASSUME NEW c \in Callers, HandleGet(c) PROVE StraysApart'
  BY <1>5 DEF HandleGet, HandleGetHit, JoinWaitlist, StartSpawn, FreshWorker
<1>6. ASSUME NEW w \in Workers, HandleSpawnOk(w) PROVE StraysApart'
  BY <1>6 DEF HandleSpawnOk, SpawnCompleted, DropSpawnerMonitor, Advance
<1>7. ASSUME NEW w \in Workers, HandleSpawnError(w) PROVE StraysApart'
  BY <1>7 DEF HandleSpawnError, SpawnCompleted, DropSpawnerMonitor, Advance
<1>8. ASSUME NEW w \in Workers, HandleSpawnerDown(w) PROVE StraysApart'
  BY <1>8 DEF HandleSpawnerDown, Retire
<1>9. ASSUME NEW w \in Workers, HandleLspChildDown(w) PROVE StraysApart'
  BY <1>9 DEF HandleLspChildDown
<1> QED
  BY <1>1, <1>2, <1>3, <1>4, <1>5, <1>6, <1>7, <1>8, <1>9, StepKinds

-----------------------------------------------------------------------------
(* Nobody waits without a spawner.  A waitlist is made together with its    *)
(* monitored worker, and whatever takes a worker's outcome or its monitor   *)
(* entry empties the waitlist of its key.                                   *)

LEMMA WaitersStep ==
  ASSUME TypeOK, StraysApart, WaitersHaveASpawner, [Next]_vars
  PROVE  WaitersHaveASpawner'
<1> USE DEF TypeOK, WaitersHaveASpawner, poolVars, workerVars, supVars, docVars,
            Unfinished, Running
<1>1. CASE Quiet
  BY <1>1 DEF Quiet, Same, StillRuns, StraysApart
<1>2. CASE HandleCloseAll
  BY <1>2 DEF HandleCloseAll
<1>3. CASE PoolCrash
  BY <1>3 DEF PoolCrash
<1>4. ASSUME NEW c \in Callers, CallerStep(c) PROVE WaitersHaveASpawner'
  BY <1>4 DEF CallerStep, Ask, Finish
<1>5. ASSUME NEW c \in Callers, HandleGetHit(c) \/ JoinWaitlist(c)
      PROVE  WaitersHaveASpawner'
  <2>1. UNCHANGED <<spawnerMons, wkey, wphase>>
    BY <1>5 DEF HandleGetHit, JoinWaitlist
  <2>2. \A k \in Keys : inflight'[k] # {} => inflight[k] # {}
    BY <1>5 DEF HandleGetHit, JoinWaitlist
  <2> QED
    BY <2>1, <2>2, SMTT(30)
<1>6. ASSUME NEW c \in Callers, NEW w \in Workers, StartSpawn(c, w)
      PROVE  WaitersHaveASpawner'
  BY <1>6 DEF StartSpawn, FreshWorker
<1>7. ASSUME NEW w \in Workers, HandleSpawnOk(w) \/ HandleSpawnError(w)
      PROVE  WaitersHaveASpawner'
  <2>1. PICK phase : SpawnCompleted(w, phase)
    BY <1>7 DEF HandleSpawnOk, HandleSpawnError
  <2>2. \A v \in spawnerMons : wkey[v] # wkey[w] => v \in spawnerMons'
    BY <2>1 DEF SpawnCompleted, DropSpawnerMonitor
  <2> QED
    BY <2>1, <2>2 DEF SpawnCompleted, Advance
<1>8. ASSUME NEW w \in Workers, HandleSpawnerDown(w) \/ HandleLspChildDown(w),
             NEW k \in Keys, inflight'[k] # {}
      PROVE  \E v \in spawnerMons' : wkey'[v] = k /\ Unfinished(v)'
  <2>1. inflight[k] # {}
    <3>1. inflight' = inflight \/ inflight' = [inflight EXCEPT ![wkey[w]] = {}]
      BY <1>8 DEF HandleSpawnerDown, HandleLspChildDown
    <3>2. inflight'[k] \in {inflight[k], {}}
      BY <3>1
    <3> QED
      BY <1>8, <3>2
  <2>2. PICK v \in spawnerMons : wkey[v] = k /\ Unfinished(v)
    BY <2>1
  <2>3. v \in Workers /\ wphase[v] # "free"
    BY <2>2
  <2>4. CASE HandleSpawnerDown(w)
    <3>1. v # w
      BY <2>2, <2>4, <1>8 DEF HandleSpawnerDown
    <3>2. v \in spawnerMons'
      BY <2>2, <2>4, <3>1 DEF HandleSpawnerDown
    <3> QED
      BY <2>2, <2>3, <2>4, <3>1, <3>2 DEF HandleSpawnerDown, Retire
  <2>5. CASE HandleLspChildDown(w)
    BY <2>2, <2>3, <2>5 DEF HandleLspChildDown
  <2> QED
    BY <1>8, <2>4, <2>5
<1> QED
  BY <1>1, <1>2, <1>3, <1>4, <1>5, <1>6, <1>7, <1>8, StepKinds DEF HandleGet

\* Whoever waits for a key has a monitored spawn worker behind it whose outcome
\* the pool has yet to take.
THEOREM NobodyIsStranded == Spec => []WaitersHaveASpawner
<1> DEFINE IInv == TypeOK /\ StraysApart /\ WaitersHaveASpawner
<1>1. Init => IInv
  BY InitType DEF Init, StraysApart, WaitersHaveASpawner
<1>2. IInv /\ [Next]_vars => IInv'
  BY TypeStep, StraysStep, WaitersStep
<1> QED
  BY <1>1, <1>2, PTL DEF Spec

-----------------------------------------------------------------------------
(* A cached proc has its monitor.  The worker that named the monitor is     *)
(* done with its own code, so no step of it renames the monitor's proc.     *)

MonitorsAreDone == \A w \in monitors : wphase[w] \in {"exiting", "free"}

LEMMA MonitorsStep ==
  ASSUME TypeOK, MonitorsAreDone, CachedIsMonitored, [Next]_vars
  PROVE  MonitorsAreDone' /\ CachedIsMonitored'
<1> DEFINE Good == MonitorsAreDone /\ CachedIsMonitored
<1> USE DEF TypeOK, MonitorsAreDone, CachedIsMonitored, Cached,
            poolVars, workerVars, supVars, docVars
<1>1. CASE Quiet
  <2>1. \A w \in monitors : Same(w)
    BY <1>1 DEF Quiet, StillRuns, Unfinished, Running
  <2> QED
    BY <1>1, <2>1 DEF Quiet, Same
<1>2. CASE HandleCloseAll
  BY <1>2 DEF HandleCloseAll
<1>3. CASE PoolCrash
  BY <1>3 DEF PoolCrash
<1>4. ASSUME NEW c \in Callers, CallerStep(c) PROVE Good'
  BY <1>4 DEF CallerStep, Ask, Finish
<1>5. ASSUME NEW c \in Callers, HandleGetHit(c) \/ JoinWaitlist(c) PROVE Good'
  BY <1>5 DEF HandleGetHit, JoinWaitlist
<1>6. ASSUME NEW c \in Callers, NEW w \in Workers, StartSpawn(c, w) PROVE Good'
  BY <1>6 DEF StartSpawn, FreshWorker
<1>7. ASSUME NEW w \in Workers, HandleSpawnOk(w) PROVE Good'
  BY <1>7 DEF HandleSpawnOk, SpawnCompleted, Advance
<1>8. ASSUME NEW w \in Workers, HandleSpawnError(w) PROVE Good'
  BY <1>8 DEF HandleSpawnError, SpawnCompleted, Advance
<1>9. ASSUME NEW w \in Workers, HandleSpawnerDown(w) PROVE Good'
  BY <1>9 DEF HandleSpawnerDown, Retire
<1>10. ASSUME NEW w \in Workers, HandleLspChildDown(w) PROVE Good'
  <2>1. /\ monitors' = monitors \ {w} /\ wphase' = wphase
        /\ cache' = [cache EXCEPT ![wkey[w]] = NoPid]
        /\ \A v \in Workers \ {w} : wkey'[v] = wkey[v] /\ wproc'[v] = wproc[v]
    BY <1>10 DEF HandleLspChildDown
  <2>2. MonitorsAreDone'
    BY <2>1
  <2>3. CachedIsMonitored'
    <3> SUFFICES ASSUME NEW k \in Keys, cache'[k] # NoPid
                 PROVE  \E v \in monitors' : wkey'[v] = k /\ wproc'[v] = cache'[k]
      OBVIOUS
    <3>1. k # wkey[w] /\ cache'[k] = cache[k]
      BY <2>1
    <3>2. PICK v \in monitors : wkey[v] = k /\ wproc[v] = cache[k]
      BY <3>1
    <3> QED
      BY <2>1, <3>1, <3>2
  <2> QED
    BY <2>2, <2>3
<1> QED
  BY <1>1, <1>2, <1>3, <1>4, <1>5, <1>6, <1>7, <1>8, <1>9, <1>10, StepKinds
  DEF HandleGet

\* The death of a cached proc is always noticed.
THEOREM DeathIsNoticed == Spec => []CachedIsMonitored
<1> DEFINE IInv == TypeOK /\ MonitorsAreDone /\ CachedIsMonitored
<1>1. Init => IInv
  BY InitType DEF Init, MonitorsAreDone, CachedIsMonitored, Cached
<1>2. IInv /\ [Next]_vars => IInv'
  BY TypeStep, MonitorsStep
<1> QED
  BY <1>1, <1>2, PTL DEF Spec
-----------------------------------------------------------------------------
(* Callers and waitlists agree.                                             *)

LEMMA SpawnerDownEffect ==
  ASSUME TypeOK, NEW w \in Workers, HandleSpawnerDown(w)
  PROVE  /\ UNCHANGED <<ckey, closed>>
         /\ \/ UNCHANGED <<inflight, cphase>>
            \/ /\ wkey[w] \in Keys
               /\ inflight' = [inflight EXCEPT ![wkey[w]] = {}]
               /\ Answer(inflight[wkey[w]], "failed")
  BY HandleSpawnerDown(w) DEF HandleSpawnerDown, TypeOK

LEMMA AnsweredElsewhere ==
  ASSUME TypeOK, AnsweredOnce, NEW k \in Keys, ckey' = ckey,
         inflight' = [inflight EXCEPT ![k] = {}],
         \A c \in Callers \ inflight[k] : cphase'[c] = cphase[c]
  PROVE  AnsweredOnce'
<1> SUFFICES ASSUME NEW j \in Keys, NEW c \in inflight'[j]
             PROVE  cphase'[c] = "waiting" /\ ckey'[c] = j
  BY DEF AnsweredOnce
<1>1. j # k /\ c \in inflight[j] /\ c \in Callers
  BY DEF TypeOK
<1>2. c \notin inflight[k]
  BY <1>1 DEF AnsweredOnce
<1> QED
  BY <1>1, <1>2 DEF AnsweredOnce

LEMMA AnswersStep ==
  ASSUME TypeOK, AnsweredOnce, [Next]_vars
  PROVE  AnsweredOnce'
<1> USE DEF TypeOK, AnsweredOnce, Answer, poolVars, workerVars, supVars, docVars, callerVars
<1>1. CASE Quiet
  BY <1>1 DEF Quiet
<1>2. CASE HandleCloseAll
  BY <1>2 DEF HandleCloseAll
<1>3. CASE PoolCrash
  BY <1>3 DEF PoolCrash
<1>4. ASSUME NEW c \in Callers, CallerStep(c) PROVE AnsweredOnce'
  BY <1>4 DEF CallerStep, Ask, Finish
<1>5. ASSUME NEW c \in Callers, HandleGetHit(c) PROVE AnsweredOnce'
  BY <1>5 DEF HandleGetHit
<1>6. ASSUME NEW c \in Callers, JoinWaitlist(c) PROVE AnsweredOnce'
  BY <1>6 DEF JoinWaitlist
<1>7. ASSUME NEW c \in Callers, NEW w \in Workers, StartSpawn(c, w) PROVE AnsweredOnce'
  BY <1>7 DEF StartSpawn
<1>8. ASSUME NEW w \in Workers, HandleSpawnOk(w) \/ HandleSpawnError(w)
      PROVE  AnsweredOnce'
  <2>1. /\ UNCHANGED ckey
        /\ inflight' = [inflight EXCEPT ![wkey[w]] = {}]
    BY <1>8 DEF HandleSpawnOk, HandleSpawnError, SpawnCompleted
  <2>2. \A c \in Callers \ inflight[wkey[w]] : cphase'[c] = cphase[c]
    BY <1>8 DEF HandleSpawnOk, HandleSpawnError
  <2> QED
    BY <2>1, <2>2, AnsweredElsewhere
<1>9. ASSUME NEW w \in Workers, HandleSpawnerDown(w) PROVE AnsweredOnce'
  <2>1. CASE UNCHANGED <<inflight, cphase>>
    BY <1>9, <2>1, SpawnerDownEffect
  <2>2. CASE ~UNCHANGED <<inflight, cphase>>
    <3>1. /\ ckey' = ckey /\ wkey[w] \in Keys
          /\ inflight' = [inflight EXCEPT ![wkey[w]] = {}]
          /\ \A c \in Callers \ inflight[wkey[w]] : cphase'[c] = cphase[c]
      BY <1>9, <2>2, SpawnerDownEffect
    <3> QED
      BY <3>1, AnsweredElsewhere
  <2> QED
    BY <2>1, <2>2
<1>10. ASSUME NEW w \in Workers, HandleLspChildDown(w) PROVE AnsweredOnce'
  BY <1>10 DEF HandleLspChildDown
<1> QED
  BY <1>1, <1>2, <1>3, <1>4, <1>5, <1>6, <1>7, <1>8, <1>9, <1>10, StepKinds
  DEF HandleGet

LEMMA ListedStep ==
  ASSUME TypeOK, AnsweredOnce, CallersAreListed, [Next]_vars
  PROVE  CallersAreListed'
<1> USE DEF TypeOK, AnsweredOnce, CallersAreListed, Answer,
            poolVars, workerVars, supVars, docVars, callerVars
<1>1. CASE Quiet
  BY <1>1 DEF Quiet
<1>2. CASE HandleCloseAll
  BY <1>2 DEF HandleCloseAll
<1>3. CASE PoolCrash
  BY <1>3 DEF PoolCrash
<1>4. ASSUME NEW c \in Callers, CallerStep(c) PROVE CallersAreListed'
  <2>1. UNCHANGED <<inflight, closed>>
    BY <1>4 DEF CallerStep, Ask, Finish
  <2>2. /\ cphase[c] # "waiting" /\ cphase'[c] # "waiting" /\ ckey'[c] \in Keys
        /\ \A b \in Callers \ {c} : cphase'[b] = cphase[b] /\ ckey'[b] = ckey[b]
    BY <1>4, AnyKeyType DEF CallerStep, Ask, Finish
  <2>3. \A k \in Keys : c \notin inflight[k]
    BY <2>2
  <2> QED
    BY <2>1, <2>2, <2>3
<1>5. ASSUME NEW c \in Callers, HandleGetHit(c) PROVE CallersAreListed'
  BY <1>5 DEF HandleGetHit
<1>6. ASSUME NEW c \in Callers, JoinWaitlist(c) PROVE CallersAreListed'
  BY <1>6 DEF JoinWaitlist
<1>7. ASSUME NEW c \in Callers, NEW w \in Workers, StartSpawn(c, w)
      PROVE  CallersAreListed'
  BY <1>7 DEF StartSpawn
<1>8. ASSUME NEW w \in Workers, HandleSpawnOk(w) \/ HandleSpawnError(w)
      PROVE  CallersAreListed'
  <2>1. /\ UNCHANGED <<ckey, closed>>
        /\ inflight' = [inflight EXCEPT ![wkey[w]] = {}]
    BY <1>8 DEF HandleSpawnOk, HandleSpawnError, SpawnCompleted
  <2>2. \E reply \in {"got", "failed"} : Answer(inflight[wkey[w]], reply)
    BY <1>8 DEF HandleSpawnOk, HandleSpawnError
  <2> QED
    BY <2>1, <2>2
<1>9. ASSUME NEW w \in Workers, HandleSpawnerDown(w) PROVE CallersAreListed'
  BY <1>9, SpawnerDownEffect
<1>10. ASSUME NEW w \in Workers, HandleLspChildDown(w) PROVE CallersAreListed'
  BY <1>10 DEF HandleLspChildDown
<1> QED
  BY <1>1, <1>2, <1>3, <1>4, <1>5, <1>6, <1>7, <1>8, <1>9, <1>10, StepKinds
  DEF HandleGet

\* An answer sent to a waitlist reaches everyone who asked, and each once.
THEOREM EveryCallerIsListed == Spec => []CallersServed
<1> DEFINE IInv == TypeOK /\ AnsweredOnce /\ CallersAreListed
<1>1. Init => IInv
  BY InitType DEF Init, AnsweredOnce, CallersAreListed, TypeOK
<1>2. IInv /\ [Next]_vars => IInv'
  BY TypeStep, AnswersStep, ListedStep
<1>3. IInv => CallersServed
  BY DEF CallersServed
<1> QED
  BY <1>1, <1>2, <1>3, PTL DEF Spec

-----------------------------------------------------------------------------
(* Single flight.  Until shutdown the monitored workers are exactly the     *)
(* unfinished ones, there is one for a key with waiters and none otherwise. *)

SpawnersRun ==
  \A w \in Workers \ strays : w \in spawnerMons <=> Unfinished(w)
SpawnersServe ==
  /\ \A v, w \in spawnerMons : wkey[v] = wkey[w] => v = w
  /\ \A w \in spawnerMons : inflight[wkey[w]] # {} /\ ~Cached(wkey[w])
Flights == ~closed => SpawnersRun /\ SpawnersServe

LEMMA ServeKept ==
  ASSUME TypeOK, SpawnersServe, spawnerMons' \subseteq spawnerMons,
         \A v \in spawnerMons' :
           /\ wkey'[v] = wkey[v] /\ inflight'[wkey[v]] # {}
           /\ cache'[wkey[v]] \in {cache[wkey[v]], NoPid}
  PROVE  SpawnersServe'
  BY DEF SpawnersServe, Cached, TypeOK

LEMMA FlightsStep ==
  ASSUME TypeOK, StraysApart, WaitersHaveASpawner, Flights, [Next]_vars
  PROVE  Flights'
<1> USE DEF TypeOK, Flights, SpawnersRun, SpawnersServe, Unfinished, Running, Cached,
            poolVars, workerVars, supVars, docVars, callerVars
<1>1. CASE Quiet
  <2>1. \A w \in Workers \ strays : Unfinished(w)' <=> Unfinished(w)
    BY <1>1 DEF Quiet, Same, StillRuns
  <2> QED
    BY <1>1, <2>1 DEF Quiet, StraysApart
<1>2. CASE HandleCloseAll
  BY <1>2 DEF HandleCloseAll
<1>3. CASE PoolCrash
  BY <1>3 DEF PoolCrash, SupervisorGone
<1>4. ASSUME NEW c \in Callers, CallerStep(c) PROVE Flights'
  BY <1>4 DEF CallerStep, Ask, Finish
<1>5. ASSUME NEW c \in Callers, HandleGetHit(c) PROVE Flights'
  BY <1>5 DEF HandleGetHit
<1>6. ASSUME NEW c \in Callers, JoinWaitlist(c) PROVE Flights'
  BY <1>6 DEF JoinWaitlist
<1>7. ASSUME NEW c \in Callers, NEW w \in Workers, StartSpawn(c, w), ~closed PROVE Flights'
  <2> DEFINE k == ckey[c]
  <2>1. k \in Keys /\ inflight[k] = {} /\ ~Cached(k) /\ w \notin spawnerMons
    BY <1>7 DEF StartSpawn, FreshWorker
  <2>2. /\ UNCHANGED <<cache, strays, closed>> /\ spawnerMons' = spawnerMons \cup {w}
        /\ wphase'[w] = "resolving" /\ wkey'[w] = k
        /\ \A v \in Workers \ {w} : wphase'[v] = wphase[v] /\ wkey'[v] = wkey[v]
        /\ inflight' = [inflight EXCEPT ![k] = {c}]
    BY <1>7 DEF StartSpawn
  <2>3. w \notin strays
    BY <1>7 DEF StartSpawn, FreshWorker, StraysApart
  <2>4. \A v \in spawnerMons : wkey[v] # k
    BY <2>1, <1>7
  <2>5. SpawnersRun'
    BY <2>2, <2>3, <1>7
  <2>6. \A v \in spawnerMons : v # w /\ wkey'[v] = wkey[v] /\ inflight'[wkey[v]] = inflight[wkey[v]]
    BY <2>1, <2>2, <2>4
  <2>7. inflight'[k] # {}
    BY <2>1, <2>2
  <2>8. SpawnersServe'
    <3>1. \A v \in spawnerMons' : inflight'[wkey'[v]] # {} /\ cache'[wkey'[v]] = NoPid
      <4>1. \A v \in spawnerMons : inflight[wkey[v]] # {} /\ cache[wkey[v]] = NoPid
        BY <1>7
      <4>2. \A v \in spawnerMons : inflight'[wkey'[v]] # {} /\ cache'[wkey'[v]] = NoPid
        BY <2>2, <2>6, <4>1
      <4>3. inflight'[wkey'[w]] # {} /\ cache'[wkey'[w]] = NoPid
        BY <2>1, <2>2, <2>7
      <4> QED
        BY <2>2, <4>2, <4>3
    <3>2. \A u, v \in spawnerMons' : wkey'[u] = wkey'[v] => u = v
      BY <2>2, <2>4, <2>6, <1>7
    <3> QED
      BY <3>1, <3>2
  <2> QED
    BY <2>5, <2>8
<1>8. ASSUME NEW w \in Workers, HandleSpawnOk(w) \/ HandleSpawnError(w), ~closed
      PROVE  Flights'
  <2>1. PICK phase \in {"ok", "error"} : SpawnCompleted(w, phase)
    BY <1>8 DEF HandleSpawnOk, HandleSpawnError
  <2>2. w \in spawnerMons
    BY <2>1, <1>8 DEF SpawnCompleted
  <2>3. spawnerMons' = spawnerMons \ {w}
    BY <2>1, <2>2, <1>8 DEF SpawnCompleted, DropSpawnerMonitor
  <2>4. \A v \in Workers : v # w => wphase'[v] = wphase[v]
    BY <2>1 DEF SpawnCompleted, Advance
  <2>5. wphase'[w] = "exiting" /\ UNCHANGED <<wkey, strays, closed>>
    BY <2>1 DEF SpawnCompleted, Advance
  <2>6. \A k \in Keys \ {wkey[w]} : inflight'[k] = inflight[k] /\ cache'[k] = cache[k]
    BY <1>8, <2>1 DEF SpawnCompleted, HandleSpawnOk, HandleSpawnError
  <2>7. \A v \in spawnerMons' : wkey[v] # wkey[w]
    BY <2>2, <2>3, <1>8
  <2>8. SpawnersRun'
    BY <1>8, <2>3, <2>4, <2>5
  <2>9. \A v \in spawnerMons' : inflight'[wkey[v]] # {} /\ cache'[wkey[v]] = cache[wkey[v]]
    BY <1>8, <2>3, <2>6, <2>7
  <2>10. SpawnersServe'
    BY <1>8, <2>3, <2>5, <2>9, ServeKept
  <2> QED
    BY <2>8, <2>10
<1>9. ASSUME NEW w \in Workers, HandleSpawnerDown(w), ~closed PROVE Flights'
  <2>1. ~Unfinished(w)' /\ \A v \in Workers : v # w => wphase'[v] = wphase[v] /\ wkey'[v] = wkey[v]
    BY <1>9 DEF HandleSpawnerDown, Retire
  <2>2. spawnerMons' = spawnerMons \ {w} /\ strays' = strays \ {w} /\ UNCHANGED <<cache, closed>>
    BY <1>9 DEF HandleSpawnerDown
  <2>3. \A v \in spawnerMons' : inflight'[wkey[v]] # {}
    BY <1>9, <2>2 DEF HandleSpawnerDown
  <2>4. SpawnersRun'
    BY <1>9, <2>1, <2>2
  <2>5. SpawnersServe'
    BY <1>9, <2>1, <2>2, <2>3, ServeKept
  <2> QED
    BY <2>4, <2>5
<1>10. ASSUME NEW w \in Workers, HandleLspChildDown(w), ~closed PROVE Flights'
  <2>1. UNCHANGED <<inflight, spawnerMons, strays, wphase, closed>>
    BY <1>10 DEF HandleLspChildDown
  <2>2. \A k \in Keys : cache'[k] \in {cache[k], NoPid}
    BY <1>10 DEF HandleLspChildDown
  <2>3. \A v \in Workers : wphase[v] # "free" => wkey'[v] = wkey[v]
    BY <1>10 DEF HandleLspChildDown
  <2>4. \A v \in spawnerMons : wphase[v] # "free"
    BY <1>10 DEF StraysApart
  <2>5. SpawnersRun'
    BY <2>1, <1>10
  <2>6. SpawnersServe'
    BY <2>1, <2>2, <2>3, <2>4, <1>10, ServeKept
  <2> QED
    BY <2>5, <2>6
<1>11. ASSUME NEW w \in Workers,
              \/ HandleSpawnOk(w) \/ HandleSpawnError(w)
              \/ HandleSpawnerDown(w) \/ HandleLspChildDown(w),
              closed
       PROVE  Flights'
  BY <1>11 DEF HandleSpawnOk, HandleSpawnError, SpawnCompleted, HandleSpawnerDown,
               HandleLspChildDown
<1>12. ASSUME NEW c \in Callers, NEW w \in Workers, StartSpawn(c, w), closed PROVE Flights'
  BY <1>12 DEF StartSpawn
<1> QED
  BY <1>1, <1>2, <1>3, <1>4, <1>5, <1>6, <1>7, <1>8, <1>9, <1>10, <1>11, <1>12, StepKinds
  DEF HandleGet

\* Until shutdown, concurrent gets of a key share one spawn, and a worker whose
\* completion was taken has no monitor entry left to fail anyone by.
THEOREM OneSpawnPerKey == Spec => []FlightsApart
<1> DEFINE IInv == TypeOK /\ StraysApart /\ WaitersHaveASpawner /\ Flights
<1>1. Init => IInv
  BY InitType
  DEF Init, StraysApart, WaitersHaveASpawner, Flights, SpawnersRun, SpawnersServe,
      Unfinished, Running
<1>2. IInv /\ [Next]_vars => IInv'
  BY TypeStep, StraysStep, WaitersStep, FlightsStep
<1>3. IInv => FlightsApart
  BY DEF TypeOK, StraysApart, Flights, SpawnersRun, SpawnersServe, FlightsApart, SingleFlight,
         OnlyCrashesFailWaiters, Unfinished, Running
<1> QED
  BY <1>1, <1>2, <1>3, PTL DEF Spec
-----------------------------------------------------------------------------
(* Opened documents.  While a child's init runs nobody has its pid yet but  *)
(* the worker that asked for it, so the proc that comes to life is never    *)
(* one that is cached; and a key that gets a proc had none, so no document  *)
(* is counted as open on it.                                                *)

InitApart ==
  sup # NoPid =>
    /\ \A k \in Keys : cache[k] # sup /\ row[k] # sup
    /\ \A w \in Workers : wproc[w] = sup => wphase[w] \in {"starting", "free"}

LEMMA InitApartStep ==
  ASSUME TypeOK, InitApart, [Next]_vars
  PROVE  InitApart'
<1> USE DEF TypeOK, InitApart, Advance, poolVars, workerVars, supVars, docVars, callerVars
<1>1. CASE UNCHANGED vars
  BY <1>1 DEF vars
<1>2. ASSUME NEW c \in Callers, CallerStep(c) \/ HandleGet(c) PROVE InitApart'
  BY <1>2 DEF CallerStep, Ask, Finish, HandleGet, HandleGetHit, JoinWaitlist, StartSpawn
<1>3. ASSUME NEW w \in Workers, WorkerStep(w) PROVE InitApart'
  <2> USE DEF EnterProbe
  <2>1. CASE Recover(w) \/ RequestStart(w) \/ LookUpStarted(w)
    <3>1. UNCHANGED <<cache, row, sup, pstate>>
      BY <2>1 DEF Recover, RequestStart, LookUpStarted
    <3>2. \A v \in Workers : v # w => Same(v)
      BY <2>1 DEF Recover, RequestStart, LookUpStarted, Same
    <3>3. wproc'[w] = row[wkey[w]] \/ (wproc'[w] = wproc[w] /\ wphase[w] \in {"resolving", "started"})
      BY <2>1 DEF Recover, RequestStart, LookUpStarted
    <3> QED
      BY <3>1, <3>2, <3>3 DEF Same
  <2>2. CASE ProbeAgain(w) \/ ProbeOk(w) \/ ProbeFails(w)
    BY <2>2 DEF ProbeAgain, ProbeOk, ProbeFails
  <2>3. CASE CloseProbed(w) \/ WorkerCrash(w) \/ StrayEnds(w)
    BY <2>3 DEF CloseProbed, WorkerCrash, StrayEnds
  <2> QED
    BY <1>3, <2>1, <2>2, <2>3 DEF WorkerStep
<1>4. ASSUME NEW w \in Workers, StartRefused(w) \/ \E p \in Pids : StartChild(w, p)
      PROVE  InitApart'
  BY <1>4 DEF StartRefused, StartChild, BeginInit, FreshPid
<1>5. ASSUME NEW q \in Pids, NEW p \in Pids, RestartChild(q, p) PROVE InitApart'
  BY <1>5 DEF RestartChild, BeginInit, FreshPid
<1>6. CASE InitOk \/ InitFails
  BY <1>6 DEF InitOk, InitFails
<1>7. ASSUME NEW w \in Workers,
             \/ HandleSpawnProgress(w) \/ HandleSpawnOk(w) \/ HandleSpawnError(w)
             \/ HandleSpawnerDown(w) \/ HandleLspChildDown(w)
      PROVE  InitApart'
  <2>1. CASE HandleSpawnProgress(w) \/ HandleSpawnError(w)
    BY <2>1 DEF HandleSpawnProgress, HandleSpawnError, SpawnCompleted
  <2>2. CASE HandleSpawnOk(w)
    BY <2>2 DEF HandleSpawnOk, SpawnCompleted
  <2>3. CASE HandleSpawnerDown(w)
    BY <2>3 DEF HandleSpawnerDown, Retire
  <2>4. CASE HandleLspChildDown(w)
    BY <2>4 DEF HandleLspChildDown
  <2> QED
    BY <1>7, <2>1, <2>2, <2>3, <2>4
<1>8. ASSUME NEW S \in SUBSET Keys, EvictKeys(S) PROVE InitApart'
  BY <1>8 DEF EvictKeys
<1>9. CASE HandleCloseAll
  BY <1>9 DEF HandleCloseAll
<1>10. ASSUME NEW k \in Keys, NEW u \in Docs, EnsureOpen(k, u) PROVE InitApart'
  BY <1>10 DEF EnsureOpen, EnsureOpenOk, EnsureOpenTimesOut
<1>11. CASE Environment
  BY <1>11 DEF Environment, ProcCrash, LateDidOpen, DynSupDown, PoolCrash, SupervisorGone
<1> HIDE DEF TypeOK, InitApart
<1> QED
  BY <1>1, <1>2, <1>3, <1>4, <1>5, <1>6, <1>7, <1>8, <1>9, <1>10, <1>11
  DEF Next, SupStep, PoolStep, HandleEvict, HandleEvictAll, HandleKillLsp, HandleIdleSweep

\* No proc comes to life that could be cached, and a live one is not made to
\* forget what it heard.
Remembers ==
  /\ UNCHANGED <<cache, opened, closed>>
  /\ \A p \in Pids : p # sup /\ Alive(p)' =>
       Alive(p) /\ \A u \in Docs : heard[p][u] > 0 => heard'[p][u] > 0

LEMMA RemembersKeepsOpen ==
  ASSUME TypeOK, InitApart, OpenedAtCachedProc, Remembers
  PROVE  OpenedAtCachedProc'
<1> SUFFICES ASSUME ~closed, NEW d \in opened
             PROVE  Cached(d[1]) /\ (Alive(cache[d[1]])' => heard'[cache[d[1]]][d[2]] > 0)
  BY DEF OpenedAtCachedProc, Remembers, Cached
<1>1. Cached(d[1]) /\ (Alive(cache[d[1]]) => heard[cache[d[1]]][d[2]] > 0)
  BY DEF OpenedAtCachedProc
<1>2. d[1] \in Keys /\ d[2] \in Docs
  BY DEF TypeOK
<1>3. ASSUME Alive(cache[d[1]])' PROVE heard'[cache[d[1]]][d[2]] > 0
  <2>1. cache[d[1]] \in Pids /\ cache[d[1]] # sup
    BY <1>1, <1>2, <1>3 DEF Alive, InitApart, TypeOK, Cached, Remembers
  <2> QED
    BY <1>1, <1>2, <1>3, <2>1 DEF Remembers
<1> QED
  BY <1>1, <1>3

LEMMA WorkerStepRemembers ==
  ASSUME TypeOK, NEW w \in Workers, WorkerStep(w)
  PROVE  Remembers
<1> USE DEF TypeOK, Remembers, Alive, Advance, EnterProbe,
            poolVars, supVars, docVars, callerVars
<1>1. CASE Recover(w) \/ RequestStart(w) \/ LookUpStarted(w)
  BY <1>1 DEF Recover, RequestStart, LookUpStarted
<1>2. CASE ProbeAgain(w) \/ ProbeOk(w) \/ ProbeFails(w)
  BY <1>2 DEF ProbeAgain, ProbeOk, ProbeFails
<1>3. CASE WorkerCrash(w) \/ StrayEnds(w)
  BY <1>3 DEF WorkerCrash, StrayEnds
<1>4. CASE CloseProbed(w)
  BY <1>4 DEF CloseProbed, Terminate
<1> QED
  BY <1>1, <1>2, <1>3, <1>4 DEF WorkerStep

LEMMA SupStepRemembers ==
  ASSUME TypeOK, SupStep
  PROVE  Remembers
<1> USE DEF TypeOK, Remembers, Alive, poolVars, workerVars, supVars, docVars, callerVars
<1>1. ASSUME NEW w \in Workers, StartRefused(w) \/ \E p \in Pids : StartChild(w, p)
      PROVE  Remembers
  BY <1>1 DEF StartRefused, StartChild, BeginInit, FreshPid
<1>2. ASSUME NEW q \in Pids, NEW p \in Pids, RestartChild(q, p) PROVE Remembers
  BY <1>2 DEF RestartChild, BeginInit, FreshPid
<1>3. CASE InitOk \/ InitFails
  BY <1>3 DEF InitOk, InitFails
<1> QED
  BY <1>1, <1>2, <1>3 DEF SupStep

LEMMA HearGrows ==
  ASSUME TypeOK, NEW p \in Pids, NEW u \in Docs, NEW n \in {1, 2}, Hear(p, u, n)
  PROVE  /\ heard'[p][u] > 0
         /\ \A q \in Pids, v \in Docs : heard[q][v] > 0 => heard'[q][v] > 0
<1>1. heard[p][u] \in 0..2 /\ heard \in [Pids -> [Docs -> 0..2]]
  BY DEF TypeOK
<1>2. heard' = [heard EXCEPT ![p][u] = IF heard[p][u] + n > 2 THEN 2 ELSE heard[p][u] + n]
  BY DEF Hear
<1>3. heard'[p][u] > 0
  BY <1>1, <1>2
<1>4. \A q \in Pids, v \in Docs : heard'[q][v] = heard[q][v] \/ (q = p /\ v = u)
  BY <1>1, <1>2
<1> QED
  BY <1>3, <1>4

LEMMA EnvironmentRemembers ==
  ASSUME TypeOK, Environment
  PROVE  Remembers \/ PoolCrash
<1> USE DEF TypeOK, Remembers, Alive, poolVars, workerVars, supVars, callerVars
<1>1. ASSUME NEW p \in Pids, ProcCrash(p) PROVE Remembers
  BY <1>1 DEF ProcCrash
<1>2. ASSUME NEW m \in mail, LateDidOpen(m) PROVE Remembers
  <2>1. m[1] \in Pids /\ m[2] \in Docs /\ Hear(m[1], m[2], 1)
    BY <1>2 DEF LateDidOpen
  <2>2. \A q \in Pids, v \in Docs : heard[q][v] > 0 => heard'[q][v] > 0
    BY <2>1, HearGrows
  <2> QED
    BY <1>2, <2>2 DEF LateDidOpen
<1>3. CASE DynSupDown
  BY <1>3 DEF DynSupDown, SupervisorGone
<1> QED
  BY <1>1, <1>2, <1>3 DEF Environment

LEMMA OpenedStep ==
  ASSUME TypeOK, StraysApart, Flights, InitApart, OpenedAtCachedProc, [Next]_vars
  PROVE  OpenedAtCachedProc'
<1> DEFINE Good == OpenedAtCachedProc'
<1> USE DEF TypeOK, poolVars, workerVars, supVars, docVars, callerVars
<1>1. CASE UNCHANGED vars
  BY <1>1 DEF vars, OpenedAtCachedProc, Cached, Alive
<1>2. ASSUME NEW c \in Callers, CallerStep(c) \/ HandleGet(c) PROVE Good
  BY <1>2 DEF CallerStep, Ask, Finish, HandleGet, HandleGetHit, JoinWaitlist, StartSpawn,
              OpenedAtCachedProc, Cached, Alive
<1>3. ASSUME Remembers PROVE Good
  BY <1>3, RemembersKeepsOpen
<1>4. ASSUME NEW w \in Workers, HandleSpawnProgress(w) \/ HandleSpawnError(w) \/ HandleSpawnerDown(w)
      PROVE  Good
  BY <1>4 DEF HandleSpawnProgress, HandleSpawnError, SpawnCompleted, HandleSpawnerDown,
              OpenedAtCachedProc, Cached, Alive
<1>5. ASSUME NEW w \in Workers, HandleSpawnOk(w), ~closed PROVE Good
  <2>1. ~Cached(wkey[w])
    BY <1>5 DEF HandleSpawnOk, SpawnCompleted, Flights, SpawnersRun, SpawnersServe, Unfinished
  <2>2. \A d \in opened : d[1] \in Keys /\ d[1] # wkey[w]
    BY <1>5, <2>1 DEF OpenedAtCachedProc
  <2>3. /\ UNCHANGED <<opened, pstate, heard, closed>>
        /\ \A k \in Keys : k # wkey[w] => cache'[k] = cache[k]
    BY <1>5 DEF HandleSpawnOk, SpawnCompleted
  <2> QED
    BY <2>2, <2>3 DEF OpenedAtCachedProc, Cached, Alive
<1>6. ASSUME NEW w \in Workers, HandleLspChildDown(w) PROVE Good
  <2>1. /\ UNCHANGED <<pstate, heard, closed>>
        /\ opened' = {d \in opened : d[1] # wkey[w]}
        /\ \A k \in Keys : k # wkey[w] => cache'[k] = cache[k]
    BY <1>6 DEF HandleLspChildDown, ForgetDocs
  <2> QED
    BY <2>1 DEF OpenedAtCachedProc, Cached, Alive
<1>7. ASSUME NEW S \in SUBSET Keys, EvictKeys(S) PROVE Good
  <2>1. /\ UNCHANGED closed
        /\ opened' \subseteq opened
        /\ \A d \in opened' : d[1] \in Keys /\ cache'[d[1]] = cache[d[1]]
        /\ \A p \in Pids : Alive(p)' => Alive(p) /\ heard'[p] = heard[p]
    BY <1>7 DEF EvictKeys, ForgetDocs, Terminate, Alive, Cached, OpenedAtCachedProc
  <2> QED
    BY <2>1 DEF OpenedAtCachedProc, Cached, Alive
<1>8. CASE HandleCloseAll \/ PoolCrash
  BY <1>8 DEF HandleCloseAll, PoolCrash, OpenedAtCachedProc
<1>9. ASSUME NEW k \in Keys, NEW u \in Docs, EnsureOpenOk(k, u) PROVE Good
  <2> DEFINE p == cache[k]
  <2>1. p \in Pids /\ Alive(p)
    BY <1>9 DEF EnsureOpenOk, Alive
  <2>2. \E n \in {1, 2} : Hear(p, u, n)
    BY <1>9 DEF EnsureOpenOk
  <2>3. /\ heard'[p][u] > 0
        /\ \A q \in Pids, v \in Docs : heard[q][v] > 0 => heard'[q][v] > 0
    BY <2>1, <2>2, HearGrows
  <2>4. UNCHANGED <<cache, pstate, closed>> /\ opened' = opened \cup {<<k, u>>}
    BY <1>9 DEF EnsureOpenOk
  <2>5. \A d \in opened' : d = <<k, u>> \/ d \in opened
    BY <2>4
  <2> QED
    BY <2>1, <2>3, <2>4, <2>5 DEF OpenedAtCachedProc, Cached, Alive
<1>10. ASSUME NEW k \in Keys, NEW u \in Docs, EnsureOpenTimesOut(k, u) PROVE Good
  BY <1>10 DEF EnsureOpenTimesOut, OpenedAtCachedProc, Cached, Alive
<1>11. ASSUME NEW w \in Workers, HandleSpawnOk(w), closed PROVE Good
  BY <1>11 DEF HandleSpawnOk, SpawnCompleted, OpenedAtCachedProc
<1> HIDE DEF TypeOK
<1> QED
  BY <1>1, <1>2, <1>3, <1>4, <1>5, <1>6, <1>7, <1>8, <1>9, <1>10, <1>11,
     WorkerStepRemembers, SupStepRemembers, EnvironmentRemembers
  DEF Next, PoolStep, HandleEvict, HandleEvictAll, HandleKillLsp, HandleIdleSweep, EnsureOpen

\* Until shutdown a document counts as open only on the proc that is cached now,
\* and that proc, if it lives, was told of it.
THEOREM OpenOnTheCachedProc == Spec => []OpenedAtCachedProc
<1> DEFINE IInv == /\ TypeOK /\ StraysApart /\ WaitersHaveASpawner /\ Flights
                   /\ InitApart /\ OpenedAtCachedProc
<1>1. Init => IInv
  BY InitType
  DEF Init, StraysApart, WaitersHaveASpawner, Flights, SpawnersRun, SpawnersServe,
      Unfinished, Running, InitApart, OpenedAtCachedProc
<1>2. IInv /\ [Next]_vars => IInv'
  BY TypeStep, StraysStep, WaitersStep, FlightsStep, InitApartStep, OpenedStep
<1> QED
  BY <1>1, <1>2, PTL DEF Spec

-----------------------------------------------------------------------------
(* The pool implements PoolService.  A key is ready when a proc is cached,  *)
(* spawning when it has waiters; single flight makes the two exclusive.     *)

CachedHasNoWaiters == \A k \in Keys : Cached(k) => inflight[k] = {}

LEMMA ReadyOrSpawning ==
  ASSUME TypeOK, WaitersHaveASpawner, Flights, ~closed
  PROVE  CachedHasNoWaiters
  BY DEF CachedHasNoWaiters, WaitersHaveASpawner, Flights, SpawnersServe

\* A worker that probes, or has reported success, has a proc to report.
ProbersHaveProc == \A w \in Workers : wphase[w] \in {"probing", "ok"} => wproc[w] # NoPid

LEMMA ProbersStep ==
  ASSUME TypeOK, ProbersHaveProc, [Next]_vars
  PROVE  ProbersHaveProc'
<1> USE DEF TypeOK, ProbersHaveProc, Advance, poolVars, workerVars, supVars, docVars, callerVars
<1>1. CASE UNCHANGED vars
  BY <1>1 DEF vars
<1>2. ASSUME NEW c \in Callers, CallerStep(c) \/ HandleGet(c) PROVE ProbersHaveProc'
  BY <1>2 DEF CallerStep, Ask, Finish, HandleGet, HandleGetHit, JoinWaitlist, StartSpawn
<1>3. ASSUME NEW w \in Workers, WorkerStep(w) PROVE ProbersHaveProc'
  <2>1. CASE Recover(w) \/ RequestStart(w)
    BY <2>1 DEF Recover, RequestStart, EnterProbe
  <2>2. CASE LookUpStarted(w)
    <3>1. CASE row[wkey[w]] = NoPid
      BY <2>2, <3>1 DEF LookUpStarted
    <3>2. CASE row[wkey[w]] # NoPid
      BY <2>2, <3>2 DEF LookUpStarted, EnterProbe
    <3> QED
      BY <3>1, <3>2
  <2>3. CASE ProbeAgain(w) \/ ProbeOk(w) \/ ProbeFails(w)
    BY <2>3 DEF ProbeAgain, ProbeOk, ProbeFails
  <2>4. CASE CloseProbed(w) \/ WorkerCrash(w) \/ StrayEnds(w)
    BY <2>4 DEF CloseProbed, WorkerCrash, StrayEnds
  <2> QED
    BY <1>3, <2>1, <2>2, <2>3, <2>4 DEF WorkerStep
<1>4. CASE SupStep
  BY <1>4 DEF SupStep, StartRefused, StartChild, RestartChild, BeginInit, InitOk, InitFails
<1>5. ASSUME NEW w \in Workers,
             \/ HandleSpawnProgress(w) \/ HandleSpawnOk(w) \/ HandleSpawnError(w)
             \/ HandleSpawnerDown(w) \/ HandleLspChildDown(w)
      PROVE  ProbersHaveProc'
  BY <1>5 DEF HandleSpawnProgress, HandleSpawnOk, HandleSpawnError, SpawnCompleted,
              HandleSpawnerDown, Retire, HandleLspChildDown
<1>6. ASSUME NEW S \in SUBSET Keys, EvictKeys(S) PROVE ProbersHaveProc'
  BY <1>6 DEF EvictKeys
<1>7. ASSUME NEW k \in Keys, NEW u \in Docs, EnsureOpen(k, u) PROVE ProbersHaveProc'
  BY <1>7 DEF EnsureOpen, EnsureOpenOk, EnsureOpenTimesOut
<1>8. CASE HandleCloseAll \/ Environment
  BY <1>8 DEF HandleCloseAll, Environment, ProcCrash, LateDidOpen, DynSupDown, PoolCrash,
              SupervisorGone
<1> HIDE DEF TypeOK, ProbersHaveProc
<1> QED
  BY <1>1, <1>2, <1>3, <1>4, <1>5, <1>6, <1>7, <1>8
  DEF Next, PoolStep, HandleEvict, HandleEvictAll, HandleKillLsp, HandleIdleSweep

LEMMA StatusOf ==
  ASSUME NEW k \in Keys
  PROVE  /\ status[k] = IF Cached(k) THEN "ready"
                        ELSE IF inflight[k] # {} THEN "spawning" ELSE "absent"
         /\ status'[k] = IF cache'[k] # NoPid THEN "ready"
                         ELSE IF inflight'[k] # {} THEN "spawning" ELSE "absent"
  BY DEF status, Cached

LEMMA StatusDomain == /\ status = [k \in Keys |-> status[k]]
                      /\ status' = [k \in Keys |-> status'[k]]
  BY DEF status

LEMMA StatusKept ==
  ASSUME UNCHANGED <<cache, inflight>>
  PROVE  status' = status
  BY DEF status, Cached

\* The callers that wait for a key, seen from outside, are its waitlist.
LEMMA WaitersAreListed ==
  ASSUME TypeOK, CallersServed, ~closed, NEW k \in Keys
  PROVE  Service!Waiters(k) = inflight[k]
  BY DEF Service!Waiters, CallersServed, CallersAreListed, AnsweredOnce, TypeOK

\* A pool that is shutting down stays so.
LEMMA ClosedForGood ==
  ASSUME TypeOK, [Next]_vars, closed
  PROVE  closed'
<1> USE DEF poolVars, workerVars, supVars, docVars, callerVars
<1>1. CASE Quiet \/ HandleCloseAll \/ PoolCrash
  BY <1>1 DEF Quiet, HandleCloseAll, PoolCrash
<1>2. ASSUME NEW c \in Callers, CallerStep(c) \/ HandleGet(c) PROVE closed'
  BY <1>2 DEF CallerStep, Ask, Finish, HandleGet, HandleGetHit, JoinWaitlist, StartSpawn
<1>3. ASSUME NEW w \in Workers, \/ HandleSpawnOk(w) \/ HandleSpawnError(w)
                                \/ HandleSpawnerDown(w) \/ HandleLspChildDown(w)
      PROVE  closed'
  BY <1>3 DEF HandleSpawnOk, HandleSpawnError, SpawnCompleted, HandleSpawnerDown,
              HandleLspChildDown
<1> QED
  BY <1>1, <1>2, <1>3, StepKinds

LEMMA QuietDrops ==
  ASSUME TypeOK, CachedHasNoWaiters, Quiet
  PROVE  \E S \in SUBSET Keys : Service!Drop(S)
<1> DEFINE S == {k \in Keys : Cached(k) /\ ~Cached(k)'}
<1>1. UNCHANGED <<inflight, cphase, ckey, closed>>
  BY DEF Quiet
<1>2. \A k \in Keys : Cached(k)' => Cached(k)
  BY DEF Quiet, Cached
<1>3. \A k \in S : status[k] = "ready"
  BY StatusOf
<1>4. \A k \in Keys : status'[k] = IF k \in S THEN "absent" ELSE status[k]
  <2> SUFFICES ASSUME NEW k \in Keys
               PROVE  status'[k] = IF k \in S THEN "absent" ELSE status[k]
    OBVIOUS
  <2>1. CASE k \in S
    BY <1>1, <2>1, StatusOf DEF CachedHasNoWaiters, Cached
  <2>2. CASE k \notin S
    BY <1>1, <1>2, <2>2, StatusOf DEF Cached
  <2> QED
    BY <2>1, <2>2
<1>5. status' = [k \in Keys |-> IF k \in S THEN "absent" ELSE status[k]]
  <2> HIDE DEF S
  <2> QED
    BY <1>4, StatusDomain
<1> QED
  BY <1>1, <1>3, <1>5 DEF Service!Drop

LEMMA CallerStepServed ==
  ASSUME TypeOK, NEW c \in Callers, CallerStep(c)
  PROVE  Service!Finish(c) \/ \E k \in Keys : Service!Ask(c, k)
<1> USE DEF TypeOK, Service!Answered, poolVars
<1>1. ASSUME NEW k \in Keys, Ask(c, k) PROVE Service!Ask(c, k)
  BY <1>1, StatusKept DEF Ask, Service!Ask
<1>2. CASE Finish(c)
  BY <1>2, StatusKept, AnyKeyType DEF Finish, Service!Finish
<1> QED
  BY <1>1, <1>2 DEF CallerStep

LEMMA HandleGetServed ==
  ASSUME TypeOK, NEW c \in Callers, HandleGet(c)
  PROVE  Service!Hit(c) \/ Service!Join(c) \/ Service!Begin(c)
<1> USE DEF TypeOK, Answer, Service!Answered, poolVars
<1>1. CASE HandleGetHit(c)
  <2>1. status[ckey[c]] = "ready"
    BY <1>1, StatusOf DEF HandleGetHit
  <2> QED
    BY <1>1, <2>1, StatusKept DEF HandleGetHit, Service!Hit
<1>2. CASE JoinWaitlist(c)
  <2>1. status[ckey[c]] = "spawning"
    BY <1>2, StatusOf DEF JoinWaitlist
  <2>2. \A k \in Keys : status'[k] = status[k]
    BY <1>2, StatusOf DEF JoinWaitlist, Cached
  <2>3. status' = status
    BY <2>2, StatusDomain
  <2> QED
    BY <1>2, <2>1, <2>3 DEF JoinWaitlist, Service!Join
<1>3. ASSUME NEW w \in Workers, StartSpawn(c, w) PROVE Service!Begin(c)
  <2>1. status[ckey[c]] = "absent"
    BY <1>3, StatusOf DEF StartSpawn
  <2>2. /\ UNCHANGED cache /\ cache[ckey[c]] = NoPid /\ ckey[c] \in Keys
        /\ \A k \in Keys : inflight'[k] = IF k = ckey[c] THEN {c} ELSE inflight[k]
    BY <1>3 DEF StartSpawn, Cached
  <2>3. ASSUME NEW k \in Keys
        PROVE  status'[k] = IF k = ckey[c] THEN "spawning" ELSE status[k]
    <3>1. CASE k = ckey[c]
      BY <2>2, <3>1, StatusOf
    <3>2. CASE k # ckey[c]
      BY <2>2, <3>2, StatusOf DEF Cached
    <3> QED
      BY <3>1, <3>2
  <2>4. status' = [status EXCEPT ![ckey[c]] = "spawning"]
    BY <2>3, StatusDomain
  <2> QED
    BY <1>3, <2>1, <2>4 DEF StartSpawn, Service!Begin
<1> QED
  BY <1>1, <1>2, <1>3 DEF HandleGet

\* Taking the end of a spawn settles its key and answers its waiters alike.
LEMMA Settled ==
  ASSUME TypeOK, CallersServed, ~closed, NEW k \in Keys, status[k] = "spawning",
         UNCHANGED <<ckey, closed>>,
         inflight' = [inflight EXCEPT ![k] = {}],
         NEW reply \in {"got", "failed"}, Answer(inflight[k], reply),
         \A j \in Keys : j # k => cache'[j] = cache[j],
         cache'[k] # NoPid <=> reply = "got"
  PROVE  Service!Succeed(k) \/ Service!Fail(k)
<1> DEFINE new == IF reply = "got" THEN "ready" ELSE "absent"
<1>1. \A j \in Keys : status'[j] = IF j = k THEN new ELSE status[j]
  BY StatusOf DEF TypeOK, Cached
<1>2. status' = [status EXCEPT ![k] = new]
  <2> HIDE DEF new
  <2> QED
    BY <1>1, StatusDomain
<1>3. Service!Answered(Service!Waiters(k), reply)
  BY WaitersAreListed DEF Answer, Service!Answered
<1> QED
  BY <1>2, <1>3 DEF Service!Succeed, Service!Fail

LEMMA SpawnEndServed ==
  ASSUME TypeOK, ProbersHaveProc, CallersServed, Flights, ~closed, NEW w \in Workers,
         HandleSpawnOk(w) \/ HandleSpawnError(w)
  PROVE  Service!Succeed(wkey[w]) \/ Service!Fail(wkey[w])
<1>1. PICK phase \in {"ok", "error"} : SpawnCompleted(w, phase)
  BY DEF HandleSpawnOk, HandleSpawnError
<1>2. wkey[w] \in Keys /\ inflight[wkey[w]] # {} /\ ~Cached(wkey[w])
  BY <1>1 DEF SpawnCompleted, Flights, SpawnersRun, SpawnersServe, Unfinished, TypeOK
<1>3. status[wkey[w]] = "spawning"
  BY <1>2, StatusOf
<1>4. UNCHANGED <<ckey, closed>> /\ inflight' = [inflight EXCEPT ![wkey[w]] = {}]
  BY <1>1 DEF SpawnCompleted
<1>5. CASE HandleSpawnOk(w)
  <2>1. wproc[w] # NoPid /\ cache' = [cache EXCEPT ![wkey[w]] = wproc[w]]
    BY <1>5 DEF HandleSpawnOk, SpawnCompleted, ProbersHaveProc
  <2>2. cache'[wkey[w]] # NoPid /\ \A j \in Keys : j # wkey[w] => cache'[j] = cache[j]
    BY <1>2, <2>1 DEF Cached, TypeOK
  <2>3. Answer(inflight[wkey[w]], "got")
    BY <1>5 DEF HandleSpawnOk
  <2> QED
    BY <1>2, <1>3, <1>4, <2>2, <2>3, Settled
<1>6. CASE HandleSpawnError(w)
  <2>1. Answer(inflight[wkey[w]], "failed") /\ UNCHANGED cache
    BY <1>6 DEF HandleSpawnError
  <2> QED
    BY <1>2, <1>3, <1>4, <2>1, Settled DEF Cached
<1> QED
  BY <1>5, <1>6

LEMMA SpawnerDownServed ==
  ASSUME TypeOK, CallersServed, Flights, ~closed, NEW w \in Workers, HandleSpawnerDown(w)
  PROVE  Service!Fail(wkey[w]) \/ UNCHANGED Service!vars
<1>1. CASE w \in spawnerMons
  <2>1. wkey[w] \in Keys /\ inflight[wkey[w]] # {} /\ ~Cached(wkey[w])
    BY <1>1 DEF Flights, SpawnersServe, TypeOK
  <2>2. status[wkey[w]] = "spawning"
    BY <2>1, StatusOf
  <2>3. /\ UNCHANGED <<cache, ckey, closed>> /\ Answer(inflight[wkey[w]], "failed")
        /\ inflight' = [inflight EXCEPT ![wkey[w]] = {}]
    BY <1>1 DEF HandleSpawnerDown
  <2>4. \A j \in Keys : status'[j] = IF j = wkey[w] THEN "absent" ELSE status[j]
    BY <2>1, <2>3, StatusOf DEF TypeOK, Cached
  <2>5. status' = [status EXCEPT ![wkey[w]] = "absent"]
    BY <2>4, StatusDomain
  <2>6. Service!Answered(Service!Waiters(wkey[w]), "failed")
    BY <2>1, <2>3, WaitersAreListed DEF Answer, Service!Answered
  <2> QED
    BY <2>2, <2>3, <2>5, <2>6 DEF Service!Fail
<1>2. CASE w \notin spawnerMons
  BY <1>2, StatusKept DEF HandleSpawnerDown, Service!vars
<1> QED
  BY <1>1, <1>2

LEMMA ChildDownServed ==
  ASSUME TypeOK, CachedHasNoWaiters, NEW w \in Workers, HandleLspChildDown(w)
  PROVE  Service!Drop({wkey[w]}) \/ UNCHANGED Service!vars
<1> DEFINE k == wkey[w]
<1>1. /\ UNCHANGED <<inflight, cphase, ckey, closed>> /\ k \in Keys
      /\ cache' = [cache EXCEPT ![k] = NoPid]
  BY DEF HandleLspChildDown, TypeOK, callerVars
<1>2. CASE Cached(k)
  <2>1. status[k] = "ready"
    BY <1>1, <1>2, StatusOf
  <2>2. \A j \in Keys : status'[j] = IF j \in {k} THEN "absent" ELSE status[j]
    BY <1>1, <1>2, StatusOf DEF CachedHasNoWaiters, TypeOK, Cached
  <2>3. status' = [j \in Keys |-> IF j \in {k} THEN "absent" ELSE status[j]]
    <3> HIDE DEF k
    <3> QED
      BY <2>2, StatusDomain
  <2> QED
    BY <1>1, <2>1, <2>3 DEF Service!Drop
<1>3. CASE ~Cached(k)
  <2>1. cache' = cache
    BY <1>1, <1>3 DEF Cached, TypeOK
  <2> QED
    BY <1>1, <2>1, StatusKept DEF Service!vars
<1> QED
  BY <1>2, <1>3

LEMMA PoolCrashServed ==
  ASSUME TypeOK, PoolCrash
  PROVE  Service!Crash
<1>1. status' = [k \in Keys |-> "absent"]
  BY DEF PoolCrash, status, Cached
<1> QED
  BY <1>1 DEF PoolCrash, Service!Crash, Service!Answered

\* Every step of the pool is one the service may take, or changes nothing that
\* its callers can see.
LEMMA ServiceStep ==
  ASSUME TypeOK, ProbersHaveProc, WaitersHaveASpawner, Flights, CallersServed, [Next]_vars
  PROVE  Service!Next \/ UNCHANGED Service!vars
<1>1. CASE closed
  BY <1>1, ClosedForGood DEF Service!Next, Service!Closing
<1>2. CASE HandleCloseAll
  BY <1>2 DEF HandleCloseAll, Service!Next, Service!Closing
<1>3. CASE ~closed /\ ~HandleCloseAll
  <2>1. CachedHasNoWaiters
    BY <1>3, ReadyOrSpawning
  <2>2. ASSUME NEW w \in Workers, HandleLspChildDown(w)
        PROVE  Service!Next \/ UNCHANGED Service!vars
    <3>1. {wkey[w]} \in SUBSET Keys
      BY DEF TypeOK
    <3> QED
      BY <2>1, <2>2, <3>1, ChildDownServed DEF Service!Next
  <2>3. ASSUME NEW w \in Workers,
               HandleSpawnOk(w) \/ HandleSpawnError(w) \/ HandleSpawnerDown(w)
        PROVE  Service!Next \/ UNCHANGED Service!vars
    <3>1. wkey[w] \in Keys
      BY DEF TypeOK
    <3> QED
      BY <1>3, <2>3, <3>1, SpawnEndServed, SpawnerDownServed DEF Service!Next
  <2>4. ASSUME NEW c \in Callers, CallerStep(c) \/ HandleGet(c) PROVE Service!Next
    BY <2>4, CallerStepServed, HandleGetServed DEF Service!Next
  <2>5. CASE Quiet \/ PoolCrash
    BY <2>1, <2>5, QuietDrops, PoolCrashServed DEF Service!Next
  <2> QED
    BY <1>3, <2>2, <2>3, <2>4, <2>5, StepKinds
<1> QED
  BY <1>1, <1>2, <1>3

\* The pool, with its workers, monitors, supervisor and crashes, keeps what
\* PoolService promises: one spawn per key, shared by all who ask meanwhile,
\* whose end answers all of them at once and alike.
THEOREM PoolKeepsItsPromise == Spec => ServiceSpec
<1> DEFINE IInv == /\ TypeOK /\ StraysApart /\ WaitersHaveASpawner /\ Flights
                   /\ ProbersHaveProc /\ AnsweredOnce /\ CallersAreListed
<1>1. Init => IInv
  BY InitType
  DEF Init, StraysApart, WaitersHaveASpawner, Flights, SpawnersRun, SpawnersServe,
      Unfinished, Running, ProbersHaveProc, AnsweredOnce, CallersAreListed, TypeOK
<1>2. IInv /\ [Next]_vars => IInv'
  BY TypeStep, StraysStep, WaitersStep, FlightsStep, ProbersStep, AnswersStep, ListedStep
<1>3. Init => Service!Init
  BY AnyKeyType DEF Init, Service!Init, status, Cached
<1>4. IInv /\ [Next]_vars => [Service!Next]_(Service!vars)
  BY ServiceStep DEF CallersServed
<1> QED
  BY <1>1, <1>2, <1>3, <1>4, PTL DEF Spec, ServiceSpec, Service!Spec

=============================================================================
