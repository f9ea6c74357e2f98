-------------------------- MODULE DaemonFile_proofs --------------------------
(***************************************************************************)
(* What is owed is done: a change reaches state.json, a job that could     *)
(* start finds the scheduler awake, and what the file says is enough for   *)
(* the daemon that follows.  Each task pays these debts under later locks  *)
(* than the one it made them under, so each proof is about who still has   *)
(* them to pay.                                                            *)
(***************************************************************************)
EXTENDS DaemonTasks_proofs

-----------------------------------------------------------------------------
(* Chores *)

LEMMA ThenChores ==
    ASSUME ConnTypeOK, NEW h \in Handlers, Idle(h), NEW ids \in SUBSET Nat,
           NEW todo \in ChoreLists, Then(h, ids, todo)
    PROVE  \A c : /\ HasChore(c) => HasChore(c)'
                  /\ c \in Range(todo) => HasChore(c)'
<1>1. /\ \A other \in Handlers \ {h} : conn'[other] = conn[other]
      /\ conn'[h].todo = todo
  BY ThenFacts
<1>2. Range(conn[h].todo) = {}
  BY ChoreListRanges DEF Idle
<1> QED
  BY <1>1, <1>2 DEF HasChore

LEMMA DoneChores ==
    ASSUME ConnTypeOK, NEW h \in Handlers, NEW chore, Owes(h, chore), ChoreDone(h)
    PROVE  \A c : HasChore(c) /\ c # chore => HasChore(c)'
<1>1. /\ \A other \in Handlers \ {h} : conn'[other] = conn[other]
      /\ Range(conn'[h].todo) = Range(conn[h].todo) \ {chore}
  BY DoneFacts DEF Owes
<1> QED
  BY <1>1 DEF HasChore

-----------------------------------------------------------------------------
(* Requests, by the debts they leave *)

\* No job joins the queue, or asks for something else than before.
Narrows ==
    /\ UNCHANGED cpu_limit
    /\ \A id \in InState({"Queued"})' : id \in InState({"Queued"}) /\ jobs'[id].gpus = jobs[id].gpus

LEMMA UnchangedNarrows == UNCHANGED <<jobs, cpu_limit>> => Narrows
BY DEF Narrows, InState

LEMMA PruneNarrows == PruneCall => Narrows
BY DEF PruneCall, Narrows, InState, Restrict

LEMMA MoveNarrows ==
    ASSUME TypeOK, NEW ids, NEW state, state # "Queued", NEW stamp, MoveAll(ids, state, stamp)
    PROVE  Narrows
<1>1. \A id \in DOMAIN jobs : jobs[id] \in Job
  BY DEF TypeOK, QueueTypeOK, IsQueue
<1>2. DOMAIN jobs' = DOMAIN jobs /\ UNCHANGED cpu_limit
  BY DEF MoveAll
<1>3. \A id \in DOMAIN jobs : jobs'[id] = jobs[id] \/ jobs'[id].state = state
  BY <1>1 DEF MoveAll, Job
<1> QED
  BY <1>2, <1>3 DEF Narrows, InState

LEMMA MoveDomain == ASSUME NEW ids, NEW state, NEW stamp, MoveAll(ids, state, stamp)
                    PROVE  DOMAIN jobs' = DOMAIN jobs
BY DEF MoveAll

\* What does not run and is not waiting for a GPU or a CPU takes none away.
LEMMA NarrowRunnable ==
    ASSUME RunningKept, Narrows, UNCHANGED gpu_total
    PROVE  Runnable' \subseteq Runnable
<1>1. FreeGpus' = FreeGpus
  BY DEF FreeGpus, RunningKept, Running
<1>2. RunningCpu' = RunningCpu
  BY DEF RunningCpu, RunningKept, Running
<1>3. CpuHasRoom' = CpuHasRoom
  BY <1>2 DEF CpuHasRoom, Narrows
<1>4. ASSUME NEW id \in Runnable' PROVE id \in Runnable
  <2>1. id \in InState({"Queued"})' /\ Fits(jobs[id])'
    BY DEF Runnable
  <2>2. id \in InState({"Queued"}) /\ jobs'[id].gpus = jobs[id].gpus
    BY <2>1 DEF Narrows
  <2>3. Fits(jobs[id])
    BY <1>1, <1>3, <2>1, <2>2 DEF Fits
  <2> QED
    BY <2>2, <2>3 DEF Runnable
<1> QED
  BY <1>4

\* A request saves what it changes under its own lock, or leaves the save to a
\* later one; it leaves a wake-up, or nothing more can start.
Unlocks(h, ids, todo) ==
    /\ Unlock(h, ids, todo)
    /\ DOMAIN jobs' = DOMAIN jobs
    /\ "persist" \in Range(todo) \/ UNCHANGED <<next_id, jobs, cpu_limit>>
    /\ "notify" \in Range(todo) \/ Narrows

LEMMA RequestEndings ==
    ASSUME DaemonInv, NEW h \in Handlers, Request(h)
    PROVE  \/ AddCall /\ CommitNewJob(h)
           \/ \E todo \in ChoreLists : Commit(h, todo) /\ ("notify" \in Range(todo) \/ Narrows)
           \/ \E ids \in SUBSET Nat, todo \in ChoreLists : Unlocks(h, ids, todo)
<1> USE DEF Chores
<1>0. TypeOK /\ QueueTypeOK /\ DOMAIN jobs \subseteq Nat
  BY DEF DaemonInv, TypeOK, QueueTypeOK, IsQueue
<1>a. /\ <<"persist">> \in ChoreLists /\ "persist" \in Range(<<"persist">>)
      /\ <<"notify">> \in ChoreLists /\ "notify" \in Range(<<"notify">>)
      /\ <<"fire">> \in ChoreLists /\ <<>> \in ChoreLists
      /\ <<"fire", "persist">> \in ChoreLists /\ "persist" \in Range(<<"fire", "persist">>)
      /\ <<"persist", "notify">> \in ChoreLists
      /\ {"persist", "notify"} \subseteq Range(<<"persist", "notify">>)
  BY ChoreListRanges DEF ChoreLists
<1>1. CASE AddRequest(h) \/ RerunRequest(h)
  BY <1>0, <1>1, RerunIsAdd DEF AddRequest, RerunRequest, AddCall
<1>2. CASE Kill(h)
  <2>1. PICK id \in DOMAIN jobs :
               \/ DropPending(id) /\ Unlock(h, {}, <<"persist">>)
               \/ Unlock(h, {id}, <<"fire">>) /\ UNCHANGED queueVars
    BY <1>2 DEF Kill
  <2>2. CASE DropPending(id) /\ Unlock(h, {}, <<"persist">>)
    BY <1>0, <1>a, <2>2, MoveNarrows, MoveDomain DEF Unlocks, DropPending
  <2>3. CASE Unlock(h, {id}, <<"fire">>) /\ UNCHANGED queueVars
    <3>1. {id} \in SUBSET Nat
      BY <1>0
    <3> QED
      BY <1>a, <2>3, <3>1, UnchangedNarrows DEF Unlocks, queueVars
  <2> QED
    BY <2>1, <2>2, <2>3
<1>3. CASE KillAll(h)
  <2>1. InState({"Running"}) \in SUBSET Nat
    BY <1>0 DEF InState
  <2>2. Unlocks(h, InState({"Running"}), <<"fire", "persist">>)
    BY <1>0, <1>3, <1>a, MoveNarrows, MoveDomain DEF Unlocks, KillAll, CancelAll
  <2> QED
    BY <1>a, <2>1, <2>2
<1>4. CASE Restart(h)
  <2>1. PICK id \in DOMAIN jobs : RequestRestart(id) /\ Unlock(h, {id}, <<"fire">>)
    BY <1>4 DEF Restart
  <2>2. {id} \in SUBSET Nat
    BY <1>0
  <2> QED
    BY <1>a, <2>1, <2>2, UnchangedNarrows DEF Unlocks, RequestRestart
<1>5. CASE SetPriorityRequest(h) \/ ResumeJobRequest(h)
  <2>1. DOMAIN jobs' = DOMAIN jobs /\ Unlock(h, {}, <<"persist", "notify">>)
    BY <1>5, MoveDomain DEF SetPriorityRequest, ResumeJobRequest, SetPriority, ResumeJob
  <2> QED
    BY <1>a, <2>1 DEF Unlocks
<1>6. CASE PauseJobRequest(h)
  BY <1>0, <1>6, <1>a, MoveNarrows, MoveDomain DEF Unlocks, PauseJobRequest, PauseJob
<1>7. CASE SetLabel(h)
  BY <1>7, <1>a, UnchangedNarrows DEF SetLabel, queueVars
<1>8. CASE RemoveRequest(h) \/ Clear(h)
  BY <1>8, <1>a, Prunings, PruneNarrows DEF RemoveRequest, Clear
<1>9. CASE SetCpuLimitRequest(h) \/ ResumeAllPausedRequest(h)
  BY <1>9, <1>a DEF SetCpuLimitRequest, ResumeAllPausedRequest
<1>10. CASE PauseAllQueuedRequest(h)
  BY <1>0, <1>10, <1>a, MoveNarrows DEF PauseAllQueuedRequest, PauseAllQueued
<1> QED
  BY <1>1, <1>2, <1>3, <1>4, <1>5, <1>6, <1>7, <1>8, <1>9, <1>10 DEF Request

-----------------------------------------------------------------------------
(* Every step, by the debts it leaves *)

\* What Persist, SchedPersist and RunPersists do when no save fails.
LEMMA SavesSucceed ==
    ASSUME ~SaveMayFail, Save \/ SaveFails
    PROVE  Save
BY DEF SaveFails

\* After a save of the new memory nothing is unsaved.
LEMMA SavedIsClean ==
    ASSUME Save
    PROVE  state_file' = Snapshot'
BY DEF Save

\* Steps of the connection tasks do not move any run.
LEMMA PhasesKept ==
    ASSUME DaemonInv, \E h \in Handlers : Request(h) \/ Chore(h)
    PROVE  \A S : RunsIn(S)' = RunsIn(S)
<1>1. DOMAIN runs' = DOMAIN runs /\ \A r \in DOMAIN runs : runs'[r].phase = runs[r].phase
  <2>1. CASE \E h \in Handlers : Fire(h)
    BY <2>1, FireFacts DEF DaemonInv
  <2> QED
    BY <2>1, Bystanders DEF Chore
<1> QED
  BY <1>1 DEF RunsIn

-----------------------------------------------------------------------------
(* No job is stranded *)

LEMMA WakeStep ==
    ASSUME ~SaveMayFail
    PROVE  DaemonInv /\ ConnTypeOK /\ NoneStranded /\ [DaemonNext]_vars => NoneStranded'
<1> SUFFICES ASSUME DaemonInv, ConnTypeOK, NoneStranded, [DaemonNext]_vars
             PROVE  NoneStranded'
  OBVIOUS
<1>0. (WakePending => WakePending') /\ Runnable' \subseteq Runnable => NoneStranded'
  BY DEF NoneStranded
<1>a. WakePending' => NoneStranded'
  BY DEF NoneStranded
<1>b. TypeOK
  BY DEF DaemonInv
<1>c. UNCHANGED <<queueVars, gpu_total>> => Runnable' = Runnable
  BY DEF queueVars, Runnable, InState, Fits, CpuHasRoom, RunningCpu, FreeGpus
<1>1. CASE \E h \in Handlers : Request(h)
  <2>1. PICK h \in Handlers : Request(h) /\ Idle(h)
    BY <1>1 DEF Request
  <2>2. UNCHANGED <<notify, sched, gpu_total>>
    BY <2>1 DEF Request
  <2>3. RunsIn({"settled", "persisted"})' = RunsIn({"settled", "persisted"})
    BY <1>1, PhasesKept
  <2>4. ASSUME NEW ids \in SUBSET Nat, NEW todo \in ChoreLists, Then(h, ids, todo)
        PROVE  /\ WakePending => WakePending'
               /\ "notify" \in Range(todo) => WakePending'
    <3>1. /\ HasChore("notify") => HasChore("notify")'
          /\ "notify" \in Range(todo) => HasChore("notify")'
      BY <2>1, <2>4, ThenChores
    <3> QED
      BY <2>2, <2>3, <3>1 DEF WakePending
  <2>5. Narrows => Runnable' \subseteq Runnable
    <3>1. RunningKept
      <4>1. QuietStep
        BY <2>1, RequestIsQuiet
      <4>2. CASE UNCHANGED queueVars
        BY <4>2 DEF queueVars, RunningKept, Running, InState
      <4>3. CASE QuietCall
        BY <1>b, <4>3, RunningUntouched DEF RunningKept
      <4> QED
        BY <4>1, <4>2, <4>3 DEF QuietStep
    <3> QED
      BY <2>2, <3>1, NarrowRunnable
  <2>6. CASE AddCall /\ CommitNewJob(h)
    <3>1. Then(h, {}, <<"notify">>)
      BY <2>6 DEF CommitNewJob, SaveFails
    <3>2. <<"notify">> \in ChoreLists /\ "notify" \in Range(<<"notify">>)
      BY ChoreListRanges DEF ChoreLists, Chores
    <3> QED
      BY <1>a, <2>4, <3>1, <3>2
  <2>7. CASE \E todo \in ChoreLists : Commit(h, todo) /\ ("notify" \in Range(todo) \/ Narrows)
    <3>1. PICK todo \in ChoreLists : Commit(h, todo) /\ ("notify" \in Range(todo) \/ Narrows)
      BY <2>7
    <3>2. Then(h, {}, todo)
      BY <3>1 DEF Commit, SaveFails
    <3> QED
      BY <1>0, <1>a, <2>4, <2>5, <3>1, <3>2
  <2>8. CASE \E ids \in SUBSET Nat, todo \in ChoreLists : Unlocks(h, ids, todo)
    BY <1>0, <1>a, <2>4, <2>5, <2>8 DEF Unlocks, Unlock
  <2> QED
    BY <2>1, <2>6, <2>7, <2>8, RequestEndings
<1>2. CASE \E h \in Handlers : Fire(h) \/ Persist(h)
  <2>1. PICK h \in Handlers : Fire(h) \/ Persist(h)
    BY <1>2
  <2>2. UNCHANGED <<queueVars, gpu_total, notify, sched>>
    BY <2>1 DEF Fire, Persist, appVars
  <2>3. HasChore("notify") => HasChore("notify")'
    BY <2>1, DoneChores DEF Fire, Persist
  <2>4. RunsIn({"settled", "persisted"})' = RunsIn({"settled", "persisted"})
    BY <1>2, PhasesKept DEF Chore
  <2> QED
    BY <1>0, <1>c, <2>2, <2>3, <2>4 DEF WakePending
<1>3. CASE \/ \E h \in Handlers : NotifyOne(h)
           \/ \E r \in DOMAIN runs : RunTask(r) /\ RunNotifies(r)
           \/ DieAndStart
  <2>1. notify' = TRUE
    BY <1>3 DEF NotifyOne, RunNotifies, DieAndStart
  <2> QED
    BY <1>a, <2>1 DEF WakePending
<1>4. CASE Wake \/ Pick \/ SchedPersist \/ Arm
  BY <1>4, <1>a DEF Wake, Pick, SchedPersist, Arm, WakePending, DaemonInv, SchedTypeOK
<1>5. CASE NothingFits
  BY <1>5, <1>c DEF NothingFits, NoneStranded, appVars
<1>6. CASE \E r \in DOMAIN runs : (RunTask(r) \/ ProcessExits(r)) /\ ~RunNotifies(r)
  <2>1. PICK r \in DOMAIN runs :
               /\ RunTask(r) \/ ProcessExits(r)
               /\ \/ Spawn(r) \/ SpawnFails(r) \/ KilledTree(r) \/ Exits(r) \/ Disarm(r)
                  \/ Settle(r) \/ RunPersists(r)
    BY <1>6 DEF RunTask, ProcessExits
  <2>2. CASE Settle(r)
    <3>1. r \in RunsIn({"settled", "persisted"})'
      BY <2>2, SettleFacts DEF DaemonInv, RunsIn
    <3> QED
      BY <1>a, <3>1 DEF WakePending
  <2>3. CASE Spawn(r) \/ SpawnFails(r) \/ KilledTree(r) \/ Exits(r) \/ Disarm(r) \/ RunPersists(r)
    <3>1. UNCHANGED <<queueVars, gpu_total, notify, sched, conn>>
      BY <2>1, <2>3 DEF RunTask, ProcessExits, Spawn, SpawnFails, KilledTree, Exits, Disarm, RunPersists, appVars
    <3>2. PICK from, to : OnlyPhase(r, from, to) /\ (from = "settled" => to = "persisted") /\ from # "persisted"
      BY <2>3, MoveFacts DEF DaemonInv
    <3>3. RunsIn({"settled", "persisted"}) \subseteq RunsIn({"settled", "persisted"})'
      BY <3>2 DEF OnlyPhase, RunsIn
    <3> QED
      BY <1>0, <1>c, <3>1, <3>3 DEF WakePending, HasChore
  <2> QED
    BY <2>1, <2>2, <2>3
<1>7. CASE LeftoverExits \/ UNCHANGED vars
  <2>1. UNCHANGED <<queueVars, gpu_total, notify, sched, conn, runs>>
    BY <1>7 DEF LeftoverExits, vars, taskVars, appVars
  <2> QED
    BY <1>0, <1>c, <2>1 DEF WakePending, HasChore, RunsIn
<1> QED
  BY <1>1, <1>2, <1>3, <1>4, <1>5, <1>6, <1>7 DEF DaemonNext, Chore, Scheduler, ProcessExits, Exits, RunTask

-----------------------------------------------------------------------------
(* No change stays unsaved *)

LEMMA UnsavedStep ==
    ASSUME ~SaveMayFail
    PROVE  DaemonInv /\ ConnTypeOK /\ NothingLeftUnsaved /\ [DaemonNext]_vars => NothingLeftUnsaved'
<1> SUFFICES ASSUME DaemonInv, ConnTypeOK, NothingLeftUnsaved, [DaemonNext]_vars
             PROVE  NothingLeftUnsaved'
  OBVIOUS
<1> DEFINE Owed == sched.pc = "saving" \/ HasChore("persist") \/ RunsIn({"settled"}) # {}
<1>0. Owed' => NothingLeftUnsaved'
  BY DEF NothingLeftUnsaved
<1>a. (Owed => Owed') /\ UNCHANGED <<state_file, next_id, jobs, cpu_limit>> => NothingLeftUnsaved'
  BY DEF NothingLeftUnsaved, Snapshot
<1>b. Save => NothingLeftUnsaved'
  BY SavedIsClean DEF NothingLeftUnsaved
<1>1. CASE \E h \in Handlers : Request(h)
  <2>1. PICK h \in Handlers : Request(h) /\ Idle(h)
    BY <1>1 DEF Request
  <2>2. UNCHANGED sched /\ RunsIn({"settled"})' = RunsIn({"settled"})
    BY <1>1, <2>1, PhasesKept DEF Request
  <2>3. CASE CommitNewJob(h) \/ \E todo \in ChoreLists : Commit(h, todo)
    BY <1>b, <2>3 DEF CommitNewJob, Commit, SaveFails
  <2>4. CASE \E ids \in SUBSET Nat, todo \in ChoreLists : Unlocks(h, ids, todo)
    <3>1. PICK ids \in SUBSET Nat, todo \in ChoreLists : Unlocks(h, ids, todo)
      BY <2>4
    <3>2. /\ Then(h, ids, todo)
          /\ UNCHANGED state_file
          /\ "persist" \in Range(todo) \/ UNCHANGED <<next_id, jobs, cpu_limit>>
      BY <3>1 DEF Unlocks, Unlock
    <3>3. /\ HasChore("persist") => HasChore("persist")'
          /\ "persist" \in Range(todo) => HasChore("persist")'
      BY <2>1, <3>2, ThenChores
    <3> QED
      BY <1>0, <1>a, <2>2, <3>2, <3>3
  <2> QED
    BY <2>1, <2>3, <2>4, RequestEndings
<1>2. CASE \E h \in Handlers : Fire(h) \/ NotifyOne(h)
  <2>1. PICK h \in Handlers : Fire(h) \/ NotifyOne(h)
    BY <1>2
  <2>2. UNCHANGED <<state_file, next_id, jobs, cpu_limit, sched>>
    BY <2>1 DEF Fire, NotifyOne, appVars, queueVars
  <2>3. HasChore("persist") => HasChore("persist")'
    BY <2>1, DoneChores DEF Fire, NotifyOne
  <2>4. RunsIn({"settled"})' = RunsIn({"settled"})
    BY <1>2, PhasesKept DEF Chore
  <2> QED
    BY <1>a, <2>2, <2>3, <2>4
<1>3. CASE \/ \E h \in Handlers : Persist(h)
           \/ SchedPersist
           \/ \E r \in DOMAIN runs : RunPersists(r)
           \/ DieAndStart
  BY <1>3, <1>b, SavesSucceed DEF Persist, SchedPersist, RunPersists, DieAndStart
<1>4. CASE Wake \/ NothingFits \/ Arm
  <2>1. UNCHANGED <<state_file, next_id, jobs, cpu_limit, conn>> /\ sched.pc # "saving"
    BY <1>4 DEF Wake, NothingFits, Arm, appVars, queueVars
  <2>2. RunsIn({"settled"})' = RunsIn({"settled"})
    <3>1. CASE Wake \/ NothingFits
      BY <3>1 DEF Wake, NothingFits, RunsIn
    <3>2. CASE Arm
      BY <3>2, ArmFacts DEF OnlyPhase, RunsIn
    <3> QED
      BY <1>4, <3>1, <3>2
  <2> QED
    BY <1>a, <2>1, <2>2 DEF HasChore
<1>5. CASE Pick
  BY <1>0, <1>5 DEF Pick
<1>6. CASE \E r \in DOMAIN runs : (RunTask(r) \/ ProcessExits(r)) /\ ~RunPersists(r)
  <2>1. PICK r \in DOMAIN runs :
               /\ RunTask(r) \/ ProcessExits(r)
               /\ \/ Spawn(r) \/ SpawnFails(r) \/ KilledTree(r) \/ Exits(r) \/ Disarm(r)
                  \/ Settle(r) \/ RunNotifies(r)
    BY <1>6 DEF RunTask, ProcessExits
  <2>2. CASE Settle(r)
    <3>1. r \in RunsIn({"settled"})'
      BY <2>2, SettleFacts DEF DaemonInv, RunsIn
    <3> QED
      BY <1>0, <3>1
  <2>3. CASE Spawn(r) \/ SpawnFails(r) \/ KilledTree(r) \/ Exits(r) \/ Disarm(r) \/ RunNotifies(r)
    <3>1. UNCHANGED <<state_file, next_id, jobs, cpu_limit, sched, conn>>
      BY <2>1, <2>3 DEF RunTask, ProcessExits, Spawn, SpawnFails, KilledTree, Exits, Disarm, RunNotifies,
                        appVars, queueVars
    <3>2. RunsIn({"settled"}) \subseteq RunsIn({"settled"})'
      <4>1. CASE RunNotifies(r)
        BY <4>1, LeaveFacts DEF RunsIn
      <4>2. CASE ~RunNotifies(r)
        <5>1. PICK from, to : OnlyPhase(r, from, to) /\ from # "settled"
          BY <2>3, <4>2, MoveFacts DEF DaemonInv
        <5> QED
          BY <5>1 DEF OnlyPhase, RunsIn
      <4> QED
        BY <4>1, <4>2
    <3> QED
      BY <1>a, <3>1, <3>2 DEF HasChore
  <2> QED
    BY <2>1, <2>2, <2>3
<1>7. CASE LeftoverExits \/ UNCHANGED vars
  <2>1. UNCHANGED <<state_file, next_id, jobs, cpu_limit, sched, conn, runs>>
    BY <1>7 DEF LeftoverExits, vars, taskVars, appVars, queueVars
  <2> QED
    BY <1>a, <2>1 DEF HasChore, RunsIn
<1> QED
  BY <1>1, <1>2, <1>3, <1>4, <1>5, <1>6, <1>7 DEF DaemonNext, Chore, Scheduler

-----------------------------------------------------------------------------
(* No job runs a second time unasked *)

FileSaysRunning(id) == id \in DOMAIN state_file.jobs /\ state_file.jobs[id].state = "Running"

\* Before the scheduler starts a run, and for as long as the run is Current.
FileInv ==
    /\ \A r \in RunsIn(Current \ {"spec"}) : FileSaysRunning(runs[r].job)
    /\ sched.pc = "arming" => FileSaysRunning(runs[sched.run].job)

\* A save puts every running job in the file.
LEMMA SaveTellsRuns ==
    ASSUME DaemonInv', Save
    PROVE  FileInv'
<1>1. ASSUME NEW r \in RunsIn(Current)' PROVE FileSaysRunning(runs[r].job)'
  <2>1. runs'[r].job \in InState({"Running"})'
    BY DEF DaemonInv, RunPerRunningJob, EachRunHasItsJob
  <2>2. state_file'.jobs = jobs'
    BY DEF Save, Snapshot
  <2> QED
    BY <2>1, <2>2 DEF FileSaysRunning, InState
<1>2. sched'.pc = "arming" => sched'.run \in RunsIn(Current)'
  BY DEF DaemonInv, RunPerRunningJob, SchedulerHoldsTheSpec, RunsIn, Current
<1>3. RunsIn(Current \ {"spec"})' \subseteq RunsIn(Current)'
  BY DEF RunsIn
<1> QED
  BY <1>1, <1>2, <1>3 DEF FileInv

\* A step that leaves the file alone and makes no run Current.
LEMMA FileKept ==
    ASSUME FileInv, UNCHANGED <<state_file, sched>>,
           RunsIn(Current \ {"spec"})' \subseteq RunsIn(Current \ {"spec"}),
           \A r \in DOMAIN runs : runs'[r].job = runs[r].job \/ r \notin DOMAIN runs',
           sched.pc = "arming" => sched.run \in DOMAIN runs \cap DOMAIN runs'
    PROVE  FileInv'
BY DEF FileInv, FileSaysRunning, RunsIn

LEMMA FileStep ==
    ASSUME ~SaveMayFail
    PROVE  DaemonInv /\ FileInv /\ [DaemonNext]_vars => FileInv'
<1> SUFFICES ASSUME DaemonInv, FileInv, [DaemonNext]_vars, ~Save
             PROVE  FileInv'
  BY SaveTellsRuns, DaemonStep
<1> USE DEF Current, Armed
<1>0. sched.pc = "arming" => sched.run \in DOMAIN runs /\ runs[sched.run].phase = "spec"
  BY DEF DaemonInv, RunPerRunningJob, SchedulerHoldsTheSpec, RunsIn
<1>1. CASE \/ \E h \in Handlers : Request(h) \/ Chore(h)
           \/ LeftoverExits \/ UNCHANGED vars
  <2>1. UNCHANGED <<state_file, sched>>
    <3>1. CASE \E h \in Handlers : Request(h)
      <4>1. PICK h \in Handlers : Request(h)
        BY <3>1
      <4>2. UNCHANGED state_file
        BY <4>1, RequestIsQuiet DEF QuietStep
      <4> QED
        BY <4>1, <4>2 DEF Request
    <3>2. CASE \E h \in Handlers : Chore(h)
      BY <3>2, SavesSucceed DEF Chore, Fire, Persist, NotifyOne, appVars
    <3>3. CASE LeftoverExits \/ UNCHANGED vars
      BY <3>3 DEF LeftoverExits, vars, taskVars, appVars
    <3> QED
      BY <1>1, <3>1, <3>2, <3>3
  <2>2. /\ DOMAIN runs' = DOMAIN runs
        /\ \A r \in DOMAIN runs : runs'[r].job = runs[r].job /\ runs'[r].phase = runs[r].phase
    <3>1. CASE \E h \in Handlers : Fire(h)
      BY <3>1, FireFacts DEF DaemonInv
    <3> QED
      BY <1>1, <3>1, Bystanders DEF Chore
  <2> QED
    BY <1>0, <2>1, <2>2, FileKept DEF RunsIn
<1>2. CASE Wake \/ NothingFits
  <2>1. UNCHANGED <<state_file, runs>> /\ sched'.pc # "arming"
    BY <1>2 DEF Wake, NothingFits, DaemonInv, SchedTypeOK, appVars
  <2> QED
    BY <2>1 DEF FileInv, FileSaysRunning, RunsIn
<1>3. CASE Pick
  <2>1. PICK slot \in Nat \ DOMAIN runs :
               /\ DOMAIN runs' = DOMAIN runs \cup {slot}
               /\ \A r \in DOMAIN runs : runs'[r] = runs[r]
               /\ runs'[slot].phase = "spec"
    BY <1>3, PickFacts
  <2>2. UNCHANGED state_file /\ sched'.pc = "saving"
    BY <1>3 DEF Pick
  <2> QED
    BY <2>1, <2>2 DEF FileInv, FileSaysRunning, RunsIn
<1>4. CASE SchedPersist
  BY <1>4, SavesSucceed DEF SchedPersist
<1>5. CASE Arm
  <2>1. OnlyPhase(sched.run, "spec", "starting")
    BY <1>5, ArmFacts
  <2>2. UNCHANGED state_file /\ sched'.pc = "picking" /\ sched.pc = "arming"
    BY <1>5 DEF Arm, appVars
  <2> QED
    BY <2>1, <2>2 DEF FileInv, FileSaysRunning, RunsIn, OnlyPhase, SameRun
<1>6. CASE \E r \in DOMAIN runs : RunTask(r) \/ ProcessExits(r)
  <2>1. PICK r \in DOMAIN runs :
               /\ UNCHANGED sched
               /\ \/ Spawn(r) \/ SpawnFails(r) \/ KilledTree(r) \/ Exits(r) \/ Disarm(r)
                  \/ Settle(r) \/ RunPersists(r) \/ RunNotifies(r)
    BY <1>6 DEF RunTask, ProcessExits
  <2>2. UNCHANGED state_file
    BY <2>1, SavesSucceed DEF Spawn, SpawnFails, KilledTree, Exits, Disarm, Settle, RunPersists,
                              RunNotifies, appVars
  <2>3. CASE Spawn(r) \/ SpawnFails(r) \/ KilledTree(r) \/ Exits(r) \/ Disarm(r) \/ RunPersists(r)
    <3>1. PICK from, to : OnlyPhase(r, from, to) /\ Advances(from, to) /\ from # "spec"
      BY <2>3, MoveFacts DEF DaemonInv, Advances
    <3>2. /\ DOMAIN runs' = DOMAIN runs
          /\ \A other \in DOMAIN runs : runs'[other].job = runs[other].job
          /\ \A other \in DOMAIN runs \ {r} : runs'[other] = runs[other]
          /\ runs[r].phase = from /\ runs'[r].phase = to
      BY <3>1 DEF OnlyPhase, SameRun
    <3>3. RunsIn(Current \ {"spec"})' \subseteq RunsIn(Current \ {"spec"})
      BY <3>1, <3>2 DEF RunsIn, Advances
    <3> QED
      BY <1>0, <2>1, <2>2, <3>2, <3>3, FileKept
  <2>4. CASE Settle(r) \/ RunNotifies(r)
    <3>1. /\ DOMAIN runs' \subseteq DOMAIN runs
          /\ \A other \in DOMAIN runs \ {r} : other \in DOMAIN runs' /\ runs'[other] = runs[other]
          /\ runs[r].phase # "spec"
          /\ r \in DOMAIN runs' => runs'[r].phase = "settled" /\ runs'[r].job = runs[r].job
      BY <2>4, SettleFacts, LeaveFacts DEF DaemonInv
    <3>2. RunsIn(Current \ {"spec"})' \subseteq RunsIn(Current \ {"spec"})
      BY <3>1 DEF RunsIn
    <3> QED
      BY <1>0, <2>1, <2>2, <3>1, <3>2, FileKept
  <2> QED
    BY <2>1, <2>3, <2>4
<1>7. CASE DieAndStart
  BY <1>7 DEF DieAndStart
<1> QED
  BY <1>1, <1>2, <1>3, <1>4, <1>5, <1>6, <1>7 DEF DaemonNext, Scheduler

-----------------------------------------------------------------------------
(* An accepted job is in memory and in the file *)

AcceptInv == accepted \subseteq DOMAIN jobs \cap DOMAIN state_file.jobs

LEMMA AcceptSaved ==
    ASSUME accepted' \subseteq DOMAIN jobs', Save \/ (UNCHANGED state_file /\ accepted' \subseteq accepted),
           AcceptInv
    PROVE  AcceptInv'
BY DEF AcceptInv, Save, Snapshot

LEMMA AcceptStep ==
    DaemonInv /\ ConnTypeOK /\ AcceptInv /\ [DaemonNext]_vars => AcceptInv'
<1> SUFFICES ASSUME DaemonInv, ConnTypeOK, AcceptInv, [DaemonNext]_vars PROVE AcceptInv'
  OBVIOUS
<1>0. TypeOK /\ accepted \subseteq DOMAIN jobs
  BY DEF DaemonInv, AcceptInv
<1>1. CASE \E h \in Handlers : Request(h)
  <2>1. PICK h \in Handlers : Request(h)
    BY <1>1
  <2>2. CASE AddCall /\ CommitNewJob(h)
    <3>1. DOMAIN jobs' = DOMAIN jobs \cup {next_id}
      BY <2>2 DEF AddCall, Add
    <3> QED
      BY <1>0, <2>2, <3>1, AcceptSaved DEF CommitNewJob, SaveFails
  <2>3. CASE \E todo \in ChoreLists : Commit(h, todo)
    <3>1. accepted' = accepted \cap DOMAIN jobs' /\ (Save \/ UNCHANGED state_file)
      BY <2>3 DEF Commit, SaveFails
    <3> QED
      BY <3>1, AcceptSaved
  <2>4. CASE \E ids \in SUBSET Nat, todo \in ChoreLists : Unlocks(h, ids, todo)
    BY <1>0, <2>4, AcceptSaved DEF Unlocks, Unlock
  <2> QED
    BY <2>1, <2>2, <2>3, <2>4, RequestEndings
<1>2. CASE \E h \in Handlers : Chore(h)
  <2>1. /\ UNCHANGED <<jobs, accepted>> /\ (Save \/ UNCHANGED state_file)
    BY <1>2 DEF Chore, Fire, Persist, NotifyOne, SaveFails, appVars, queueVars
  <2> QED
    BY <1>0, <2>1, AcceptSaved
<1>3. CASE Scheduler
  <2>1. UNCHANGED accepted /\ DOMAIN jobs' = DOMAIN jobs /\ (Save \/ UNCHANGED state_file)
    BY <1>3 DEF Scheduler, Wake, NothingFits, Pick, TakeNextRunnable, SchedPersist, Arm, SaveFails,
                appVars, queueVars
  <2> QED
    BY <1>0, <2>1, AcceptSaved
<1>4. CASE \E r \in DOMAIN runs : RunTask(r) \/ ProcessExits(r)
  <2>1. PICK r \in DOMAIN runs : RunTask(r) \/ ProcessExits(r)
    BY <1>4
  <2>2. UNCHANGED accepted
    BY <2>1 DEF RunTask, ProcessExits
  <2>3. CASE Settle(r)
    <3>1. DOMAIN jobs' = DOMAIN jobs /\ UNCHANGED state_file
      BY <2>3 DEF Settle, FinishOrRestart, Requeue, Finish
    <3> QED
      BY <1>0, <2>2, <3>1, AcceptSaved
  <2>4. CASE ~Settle(r)
    <3>1. UNCHANGED jobs /\ (Save \/ UNCHANGED state_file)
      BY <2>1, <2>4 DEF RunTask, ProcessExits, Spawn, SpawnFails, KilledTree, Exits, Disarm, RunPersists,
                        RunNotifies, SaveFails, appVars, queueVars
    <3> QED
      BY <1>0, <2>2, <3>1, AcceptSaved
  <2> QED
    BY <2>3, <2>4
<1>5. CASE DieAndStart
  <2>1. UNCHANGED accepted /\ DOMAIN jobs' = DOMAIN state_file.jobs /\ Save
    BY <1>5 DEF DieAndStart, Load
  <2>2. accepted \subseteq DOMAIN state_file.jobs
    BY DEF AcceptInv
  <2> QED
    BY <2>1, <2>2, AcceptSaved
<1>6. CASE LeftoverExits \/ UNCHANGED vars
  <2>1. UNCHANGED <<accepted, jobs, state_file>>
    BY <1>6 DEF LeftoverExits, vars, appVars, queueVars
  <2> QED
    BY <1>0, <2>1, AcceptSaved
<1> QED
  BY <1>1, <1>2, <1>3, <1>4, <1>5, <1>6 DEF DaemonNext

-----------------------------------------------------------------------------
(* Processes, and the types of the rest *)

LEMMA LeftoversShrink ==
    ASSUME [DaemonNext]_vars, ~DieAndStart
    PROVE  leftovers' \subseteq leftovers
<1>1. CASE LeftoverExits
  BY <1>1 DEF LeftoverExits
<1>2. CASE ~LeftoverExits
  BY <1>2 DEF DaemonNext, Request, Chore, Fire, Persist, NotifyOne, Scheduler, Wake, NothingFits, Pick,
              SchedPersist, Arm, RunTask, ProcessExits, vars
<1> QED
  BY <1>1, <1>2

\* A process and its job, as Processes shows them.
ProcessRecords == [job : Nat, gpus : SUBSET Nat]

RestTypeOK == notify \in BOOLEAN /\ leftovers \subseteq ProcessRecords

LEMMA RestStep == DaemonInv /\ RestTypeOK /\ [DaemonNext]_vars => RestTypeOK'
<1> SUFFICES ASSUME DaemonInv, RestTypeOK, [DaemonNext]_vars PROVE RestTypeOK'
  OBVIOUS
<1>1. leftovers' \subseteq ProcessRecords
  <2>1. CASE DieAndStart
    <3>1. \A r \in RunsIn({"alive"}) : [job |-> runs[r].job, gpus |-> runs[r].gpus] \in ProcessRecords
      <4> SUFFICES ASSUME NEW r \in RunsIn({"alive"})
                   PROVE  [job |-> runs[r].job, gpus |-> runs[r].gpus] \in ProcessRecords
        OBVIOUS
      <4>1. runs[r] \in Run
        BY DEF RunsIn, DaemonInv, RunsTypeOK
      <4> QED
        BY <4>1 DEF Run, ProcessRecords
    <3>2. Processes \subseteq ProcessRecords
      BY <3>1 DEF Processes, RestTypeOK
    <3> QED
      BY <2>1, <3>2 DEF DieAndStart
  <2>2. CASE ~DieAndStart
    BY <2>2, LeftoversShrink DEF RestTypeOK
  <2> QED
    BY <2>1, <2>2
<1>2. notify' = notify \/ notify' = TRUE \/ notify' = FALSE
  BY DEF DaemonNext, Request, Chore, Fire, Persist, NotifyOne, Scheduler, Wake, NothingFits, Pick,
         SchedPersist, Arm, RunTask, ProcessExits, Spawn, SpawnFails, KilledTree, Exits, Disarm, Settle,
         RunPersists, RunNotifies, DieAndStart, LeftoverExits, taskVars, vars
<1>3. notify' \in BOOLEAN
  BY <1>2 DEF RestTypeOK
<1> QED
  BY <1>1, <1>3 DEF RestTypeOK

-----------------------------------------------------------------------------
(* Results *)

LEMMA AcceptInvariant == DaemonSpec => []AcceptInv
<1>1. DaemonInit => AcceptInv
  BY DEF DaemonInit, AcceptInv
<1>2. DaemonInv /\ TasksInv /\ AcceptInv /\ [DaemonNext]_vars => AcceptInv'
  BY AcceptStep DEF TasksInv
<1> QED
  BY <1>1, <1>2, DaemonInvariant, TasksInvariant, PTL DEF DaemonSpec

\* A job whose add or rerun was answered Ok is there until a client prunes it,
\* whichever saves fail and wherever the daemon dies (daemon.rs 123-134, 228-250).
THEOREM AcceptedJobsSurvive == DaemonSpec => []AcceptedSurvives
<1>1. AcceptInv => AcceptedSurvives
  BY DEF AcceptInv, AcceptedSurvives
<1> QED
  BY <1>1, AcceptInvariant, PTL

\* When saves succeed, a job that could start always finds the scheduler awake,
\* or a task that will wake it: the single permit of Notify strands nobody
\* (daemon.rs 506-517, 541-542, and each notify_one of handle_request).
THEOREM NobodyIsStranded ==
    ASSUME ~SaveMayFail
    PROVE  DaemonSpec => []NoneStranded
<1>1. DaemonInit => NoneStranded
  BY DEF DaemonInit, NoneStranded, WakePending
<1>2. DaemonInv /\ TasksInv /\ NoneStranded /\ [DaemonNext]_vars => NoneStranded'
  BY WakeStep DEF TasksInv
<1> QED
  BY <1>1, <1>2, DaemonInvariant, TasksInvariant, PTL DEF DaemonSpec

\* When saves succeed, whatever memory holds that the file does not is about to
\* be saved by a task on its way there (daemon.rs 409-414 and its callers).
THEOREM NothingStaysUnsaved ==
    ASSUME ~SaveMayFail
    PROVE  DaemonSpec => []NothingLeftUnsaved
<1>1. DaemonInit => NothingLeftUnsaved
  BY DEF DaemonInit, Init, NothingLeftUnsaved
<1>2. DaemonInv /\ TasksInv /\ NothingLeftUnsaved /\ [DaemonNext]_vars => NothingLeftUnsaved'
  BY UnsavedStep DEF TasksInv
<1> QED
  BY <1>1, <1>2, DaemonInvariant, TasksInvariant, PTL DEF DaemonSpec

\* When saves succeed, the file says of a job that it runs from before its task
\* is started until its end is recorded, so that a daemon that dies in between
\* leaves a job its successor marks Failed, and not one it starts again
\* (daemon.rs 518-543).
THEOREM NothingRunsTwiceUnasked ==
    ASSUME ~SaveMayFail
    PROVE  DaemonSpec => []NoSilentRerun
<1>1. DaemonInit => FileInv
  BY DEF DaemonInit, FileInv, RunsIn
<1>2. FileInv => NoSilentRerun
  BY DEF FileInv, FileSaysRunning, NoSilentRerun
<1> QED
  BY <1>1, <1>2, FileStep, DaemonInvariant, PTL DEF DaemonSpec

\* Where the jobs of a dead daemon die with it, no two live processes hold a GPU
\* in common, whatever dies and restarts; elsewhere two can, as README.md
\* says (process_tree.rs 17-20, 86-123, daemon.rs 517-543).
THEOREM GpusHaveOneProcess ==
    ASSUME KillOnClose
    PROVE  DaemonSpec => []ProcessesShareNoGpu
<1>1. DaemonInit => leftovers = {}
  BY DEF DaemonInit
<1>2. leftovers = {} /\ [DaemonNext]_vars => (leftovers = {})'
  <2> SUFFICES ASSUME leftovers = {}, [DaemonNext]_vars PROVE leftovers' = {}
    OBVIOUS
  <2>1. CASE DieAndStart
    BY <2>1 DEF DieAndStart
  <2>2. CASE ~DieAndStart
    BY <2>2, LeftoversShrink
  <2> QED
    BY <2>1, <2>2
<1>3. DaemonInv /\ GpusExclusive /\ leftovers = {} => ProcessesShareNoGpu
  <2> SUFFICES ASSUME DaemonInv, GpusExclusive, leftovers = {},
                      NEW p \in Processes, NEW q \in Processes, p # q
               PROVE  p.gpus \cap q.gpus = {}
    BY DEF ProcessesShareNoGpu
  <2>1. PICK r \in RunsIn({"alive"}) : p = [job |-> runs[r].job, gpus |-> runs[r].gpus]
    BY DEF Processes
  <2>2. PICK other \in RunsIn({"alive"}) : q = [job |-> runs[other].job, gpus |-> runs[other].gpus]
    BY DEF Processes
  <2>3. r \in RunsIn(Current) /\ other \in RunsIn(Current) \ {r}
    BY <2>1, <2>2 DEF RunsIn, Current, Armed
  <2>4. /\ runs[r].job \in InState({"Running"}) /\ runs[other].job \in InState({"Running"})
        /\ runs[r].gpus = jobs[runs[r].job].assigned_gpus
        /\ runs[other].gpus = jobs[runs[other].job].assigned_gpus
        /\ runs[other].job # runs[r].job
    BY <2>3 DEF DaemonInv, RunPerRunningJob, EachRunHasItsJob
  <2>5. jobs[runs[r].job].assigned_gpus \cap jobs[runs[other].job].assigned_gpus = {}
    BY <2>4 DEF GpusExclusive
  <2> QED
    BY <2>1, <2>2, <2>4, <2>5
<1> QED
  BY <1>1, <1>2, <1>3, DaemonInvariant, DaemonGpus, PTL DEF DaemonSpec

\* The tasks around the queue keep their types; a switch in kills is that of a
\* job that was handed out (daemon.rs 37-60, 513-546).
THEOREM DaemonTypesCorrect == DaemonSpec => []DaemonTypeOK
<1>1. DaemonInit => RestTypeOK
  BY DEF DaemonInit, RestTypeOK
<1>2. DaemonInv /\ TasksInv /\ AcceptInv /\ RestTypeOK => DaemonTypeOK
  <2> SUFFICES ASSUME DaemonInv, TasksInv, AcceptInv, RestTypeOK PROVE DaemonTypeOK
    OBVIOUS
  <2>1. DOMAIN jobs \subseteq 0 .. next_id - 1 /\ next_id \in 0 .. MaxJobs
    BY DEF DaemonInv, TypeOK, QueueTypeOK, IsQueue
  <2>2. DOMAIN kills \subseteq 0 .. next_id - 1
    <3> SUFFICES ASSUME NEW id \in DOMAIN kills PROVE id \in DOMAIN jobs
      BY <2>1
    <3>1. kills[id] \in RunsIn(Current) /\ runs[kills[id]].job = id
      BY DEF TasksInv, KillsInv, Killable, RunsIn, Current
    <3> QED
      BY <3>1 DEF DaemonInv, RunPerRunningJob, EachRunHasItsJob, InState
  <2>3. accepted \subseteq 0 .. MaxJobs - 1
    BY <2>1, ConstantsAssumption DEF AcceptInv
  <2> QED
    BY <2>2, <2>3 DEF DaemonTypeOK, DaemonInv, TasksInv, ConnTypeOK, KillsInv, RestTypeOK, ProcessRecords
<1> QED
  BY <1>1, <1>2, RestStep, AcceptInvariant, DaemonInvariant, TasksInvariant, PTL DEF DaemonSpec
=============================================================================
