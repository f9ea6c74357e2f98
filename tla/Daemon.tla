------------------------------- MODULE Daemon -------------------------------
(***************************************************************************)
(* src/ipc/daemon.rs: the tasks of the daemon around the queue.  The       *)
(* runtime is multi-threaded, so the scheduler task, one task per          *)
(* connection and one task per run interleave at every lock, and the       *)
(* daemon may die anywhere.  What one task does under one lock is one      *)
(* step; what it does after the unlock is a later step.                    *)
(*                                                                         *)
(* Requests that only read the state, and replies that report an error     *)
(* before anything was touched, change nothing and are not actions.        *)
(***************************************************************************)
EXTENDS AppState, Sequences

CONSTANTS
    Handlers,     \* connection tasks: how many requests can be in flight
    Requests,     \* the kinds of request clients send in this instance
    SaveMayFail,  \* whether writing state.json can fail (a full disk, say)
    KillOnClose,  \* TRUE where a job object reaps the jobs of a dead daemon (Windows)
    MayDie,       \* whether the daemon can die
    MaxTasks      \* bound of the model: run tasks outstanding at once

RequestKinds == {"Add", "Rerun", "Kill", "KillAll", "SetPriority", "SetLabel", "Restart",
                 "Remove", "Clear", "SetCpuLimit", "PauseAllQueued", "ResumeAllPaused",
                 "PauseJob", "ResumeJob"}

ASSUME DaemonAssumption ==
    /\ Requests \subseteq RequestKinds
    /\ SaveMayFail \in BOOLEAN
    /\ KillOnClose \in BOOLEAN
    /\ MayDie \in BOOLEAN
    /\ MaxTasks \in Nat

VARIABLES
    notify,     \* the single permit of tokio's Notify
    kills,      \* kill switches: a function from job ids to the run each would stop
    sched,      \* the scheduler task: where it is, and the run it is starting
    runs,       \* the run tasks: a function from slots to run records
    conn,       \* what each connection task still has to do after its first lock
    leftovers,  \* processes that outlived the daemon that started them
    accepted    \* history: jobs whose add was answered Ok and that nobody pruned

taskVars == <<notify, kills, sched, runs, conn>>
vars     == <<appVars, taskVars, leftovers, accepted>>

\* What a connection task may have left to do, in this order of locks.
Chores == {"fire", "persist", "notify"}

\* A run, from the moment its spec is taken to the last step of its task.
\*   spec      taken from the queue; no kill switch and no task yet
\*   starting  the switch is registered, the task is about to spawn the process
\*   alive     the process runs
\*   ended     run_one has returned
\*   disarmed  the switch is gone from kills
\*   settled   finish_or_restart has been called
\*   persisted the state is saved; the wake-up is what remains
Armed   == {"starting", "alive"}
Current == {"spec", "ended", "disarmed"} \cup Armed
Phases  == Current \cup {"settled", "persisted"}

Run == [job : Nat, gpus : SUBSET Nat, phase : Phases, fired : BOOLEAN,
        result : RunResults,
        asked : {"nothing", "late", "kill", "restart"}, \* history: the last request about this run
        armed : BOOLEAN]                  \* history: some request came while it was Armed

RunsIn(S)     == {r \in DOMAIN runs : runs[r].phase \in S}
Processes     == {[job |-> runs[r].job, gpus |-> runs[r].gpus] : r \in RunsIn({"alive"})} \cup leftovers
Idle(h)       == conn[h].todo = <<>>
HasChore(c)   == \E h \in Handlers : c \in Range(conn[h].todo)
AboutToFire(id) == \E h \in Handlers : "fire" \in Range(conn[h].todo) /\ id \in conn[h].fire

-----------------------------------------------------------------------------
(* handle_request: the first lock of each request *)

\* The connection task goes on, with these switches to fire and these chores.
Then(h, ids, todo) == conn' = [conn EXCEPT ![h] = [fire |-> ids, todo |-> todo]]

SaveFails == SaveMayFail /\ UNCHANGED state_file

\* The save under the same lock as the change; when it fails, the client gets an
\* error, and the change stays in memory.
Commit(h, todo) ==
    /\ \/ Save /\ Then(h, {}, todo)
       \/ SaveFails /\ UNCHANGED conn
    /\ accepted' = accepted \cap DOMAIN jobs'
    /\ UNCHANGED runs

\* Mutant of CommitNewJob: the answer is Ok whether or not the save succeeded.
CommitNewJob_IgnoresError(h) ==
    /\ Save \/ SaveFails
    /\ Then(h, {}, <<"notify">>)
    /\ accepted' = accepted \cup {next_id}
    /\ UNCHANGED runs

\* The same for a request that creates a job.
CommitNewJob(h) ==
    /\ \/ Save /\ Then(h, {}, <<"notify">>) /\ accepted' = accepted \cup {next_id}
       \/ SaveFails /\ UNCHANGED <<conn, accepted>>
    /\ UNCHANGED runs

\* The lock is released and the chores follow.
Unlock(h, ids, todo) == Then(h, ids, todo) /\ UNCHANGED <<state_file, accepted>>

\* History: the current run of each of these jobs has been asked to stop.
Ask(ids, what) ==
    runs' = [r \in DOMAIN runs |->
               IF runs[r].job \in ids /\ runs[r].phase \in Current
               THEN [runs[r] EXCEPT !.asked = what, !.armed = @ \/ runs[r].phase \in Armed]
               ELSE runs[r]]

AddRequest(h) ==
    \E gpus \in GpuRequests, priority \in Priorities :
        gpus <= gpu_total /\ Add(gpus, priority) /\ CommitNewJob(h)

RerunRequest(h) ==
    \E id \in DOMAIN jobs, priority \in Priorities :
        jobs[id].gpus <= gpu_total /\ Rerun(id, priority) /\ CommitNewJob(h)

Kill(h) ==
    \E id \in DOMAIN jobs :
        \/ DropPending(id) /\ Unlock(h, {}, <<"persist">>) /\ UNCHANGED runs
        \/ /\ id \in InState({"Running"})
           /\ Ask({id}, "kill")
           /\ Unlock(h, {id}, <<"fire">>)
           /\ UNCHANGED queueVars

KillAll(h) ==
    /\ CancelAll
    /\ Ask(InState({"Running"}), "kill")
    /\ Unlock(h, InState({"Running"}), <<"fire", "persist">>)

\* Mutant of Restart: the intent is recorded, the process is left alone.
Restart_NoSignal(h) ==
    \E id \in DOMAIN jobs :
        RequestRestart(id) /\ Ask({id}, "restart") /\ Unlock(h, {}, <<>>)

Restart(h) ==
    \E id \in DOMAIN jobs :
        RequestRestart(id) /\ Ask({id}, "restart") /\ Unlock(h, {id}, <<"fire">>)

SetPriorityRequest(h) ==
    \E id \in DOMAIN jobs, priority \in Priorities :
        SetPriority(id, priority) /\ Unlock(h, {}, <<"persist", "notify">>) /\ UNCHANGED runs

PauseJobRequest(h) ==
    \E id \in DOMAIN jobs : PauseJob(id) /\ Unlock(h, {}, <<"persist">>) /\ UNCHANGED runs

ResumeJobRequest(h) ==
    \E id \in DOMAIN jobs : ResumeJob(id) /\ Unlock(h, {}, <<"persist", "notify">>) /\ UNCHANGED runs

\* A label is data nothing here reads: what is left of the request is its save.
SetLabel(h) == DOMAIN jobs # {} /\ UNCHANGED queueVars /\ Commit(h, <<>>)

RemoveRequest(h)          == \E id \in DOMAIN jobs : Remove(id) /\ Commit(h, <<>>)
Clear(h)                  == ClearFinished /\ Commit(h, <<>>)
SetCpuLimitRequest(h)     == \E limit \in CpuLimits : SetCpuLimit(limit) /\ Commit(h, <<"notify">>)
PauseAllQueuedRequest(h)  == PauseAllQueued /\ Commit(h, <<>>)
ResumeAllPausedRequest(h) == ResumeAllPaused /\ Commit(h, <<"notify">>)

Request(h) ==
    /\ Idle(h)
    /\ \/ "Add" \in Requests /\ AddRequest(h)
       \/ "Rerun" \in Requests /\ RerunRequest(h)
       \/ "Kill" \in Requests /\ Kill(h)
       \/ "KillAll" \in Requests /\ KillAll(h)
       \/ "SetPriority" \in Requests /\ SetPriorityRequest(h)
       \/ "SetLabel" \in Requests /\ SetLabel(h)
       \/ "Restart" \in Requests /\ Restart(h)
       \/ "Remove" \in Requests /\ RemoveRequest(h)
       \/ "Clear" \in Requests /\ Clear(h)
       \/ "SetCpuLimit" \in Requests /\ SetCpuLimitRequest(h)
       \/ "PauseAllQueued" \in Requests /\ PauseAllQueuedRequest(h)
       \/ "ResumeAllPaused" \in Requests /\ ResumeAllPausedRequest(h)
       \/ "PauseJob" \in Requests /\ PauseJobRequest(h)
       \/ "ResumeJob" \in Requests /\ ResumeJobRequest(h)
    /\ UNCHANGED <<notify, kills, sched, leftovers, gpu_total>>

-----------------------------------------------------------------------------
(* handle_request: the later locks *)

ChoreDone(h) == conn' = [conn EXCEPT ![h] = [fire |-> {}, todo |-> Tail(conn[h].todo)]]
Owes(h, c)  == ~Idle(h) /\ Head(conn[h].todo) = c

\* Mutant of Fire: every switch there is, and not only those the request chose.
Fire_EverySwitch(h) ==
    /\ Owes(h, "fire")
    /\ LET hit == {kills[id] : id \in DOMAIN kills}
       IN  runs' = [r \in DOMAIN runs |->
                      IF r \in hit THEN [runs[r] EXCEPT !.fired = TRUE] ELSE runs[r]]
    /\ kills' = [id \in {} |-> 0]
    /\ ChoreDone(h)
    /\ UNCHANGED <<appVars, notify, sched, leftovers, accepted>>

\* Takes the switches out of kills and sends on each; a job without one is skipped.
Fire(h) ==
    /\ Owes(h, "fire")
    /\ LET hit == {kills[id] : id \in conn[h].fire \cap DOMAIN kills}
       IN  runs' = [r \in DOMAIN runs |->
                      IF r \in hit THEN [runs[r] EXCEPT !.fired = TRUE] ELSE runs[r]]
    /\ kills' = Restrict(kills, DOMAIN kills \ conn[h].fire)
    /\ ChoreDone(h)
    /\ UNCHANGED <<appVars, notify, sched, leftovers, accepted>>

\* persist: a failure is only logged.
Persist(h) ==
    /\ Owes(h, "persist")
    /\ UNCHANGED <<queueVars, gpu_total, notify, kills, sched, runs, leftovers, accepted>>
    /\ Save \/ SaveFails
    /\ ChoreDone(h)

NotifyOne(h) ==
    /\ Owes(h, "notify")
    /\ notify' = TRUE
    /\ ChoreDone(h)
    /\ UNCHANGED <<appVars, kills, sched, runs, leftovers, accepted>>

Chore(h) == Fire(h) \/ Persist(h) \/ NotifyOne(h)

-----------------------------------------------------------------------------
(* The scheduler task *)

Wake ==
    /\ sched.pc = "waiting"
    /\ notify
    /\ notify' = FALSE
    /\ sched' = [sched EXCEPT !.pc = "picking"]
    /\ UNCHANGED <<appVars, kills, runs, conn, leftovers, accepted>>

NothingFits ==
    /\ sched.pc = "picking"
    /\ Runnable = {}
    /\ sched' = [sched EXCEPT !.pc = "waiting"]
    /\ UNCHANGED <<appVars, notify, kills, runs, conn, leftovers, accepted>>

FreeSlot == CHOOSE r \in (0 .. MaxTasks - 1) \ DOMAIN runs :
               \A other \in (0 .. MaxTasks - 1) \ DOMAIN runs : r <= other

\* Mutant of Pick: the task is started before the choice is persisted.
Pick_SkipsPersist ==
    /\ sched.pc = "picking"
    /\ (0 .. MaxTasks - 1) \ DOMAIN runs # {}
    /\ TakeNextRunnable
    /\ runs' = [r \in DOMAIN runs \cup {FreeSlot} |->
                  IF r = FreeSlot
                  THEN [job |-> NextRunnable, gpus |-> jobs'[NextRunnable].assigned_gpus,
                        phase |-> "spec", fired |-> FALSE, result |-> "Exited",
                        asked |-> IF AboutToFire(NextRunnable) THEN "late" ELSE "nothing",
                        armed |-> FALSE]
                  ELSE runs[r]]
    /\ sched' = [pc |-> "arming", run |-> FreeSlot]
    /\ UNCHANGED <<state_file, gpu_total, notify, kills, conn, leftovers, accepted>>

Pick ==
    /\ sched.pc = "picking"
    /\ (0 .. MaxTasks - 1) \ DOMAIN runs # {}
    /\ TakeNextRunnable
    /\ runs' = [r \in DOMAIN runs \cup {FreeSlot} |->
                  IF r = FreeSlot
                  THEN [job |-> NextRunnable, gpus |-> jobs'[NextRunnable].assigned_gpus,
                        phase |-> "spec", fired |-> FALSE, result |-> "Exited",
                        asked |-> IF AboutToFire(NextRunnable) THEN "late" ELSE "nothing",
                        armed |-> FALSE]
                  ELSE runs[r]]
    /\ sched' = [pc |-> "saving", run |-> FreeSlot]
    /\ UNCHANGED <<state_file, gpu_total, notify, kills, conn, leftovers, accepted>>

SchedPersist ==
    /\ sched.pc = "saving"
    /\ UNCHANGED <<queueVars, gpu_total, notify, kills, runs, conn, leftovers, accepted>>
    /\ Save \/ SaveFails
    /\ sched' = [sched EXCEPT !.pc = "arming"]

\* Registers the switch and starts the task of the run.
Arm ==
    /\ sched.pc = "arming"
    /\ kills' = [id \in DOMAIN kills \cup {runs[sched.run].job} |->
                   IF id = runs[sched.run].job THEN sched.run ELSE kills[id]]
    /\ runs' = [runs EXCEPT ![sched.run].phase = "starting"]
    /\ sched' = [pc |-> "picking", run |-> 0]
    /\ UNCHANGED <<appVars, notify, conn, leftovers, accepted>>

Scheduler == Wake \/ NothingFits \/ Pick \/ SchedPersist \/ Arm

-----------------------------------------------------------------------------
(* The task of a run *)

Moves(r, from, to) ==
    /\ runs[r].phase = from
    /\ runs' = [runs EXCEPT ![r].phase = to]

Ends(r, from, result) ==
    /\ runs[r].phase = from
    /\ runs' = [runs EXCEPT ![r].phase = "ended", ![r].result = result]

\* run_one: the log file and the process are made, or one of them is not.
Spawn(r)      == Moves(r, "starting", "alive") /\ UNCHANGED <<appVars, kills, notify>>
SpawnFails(r) == Ends(r, "starting", "SpawnFailed") /\ UNCHANGED <<appVars, kills, notify>>

\* The two branches of the select; when both are ready it takes either.
Exits(r) == Ends(r, "alive", "Exited") /\ UNCHANGED <<appVars, kills, notify>>

KilledTree(r) == runs[r].fired /\ Ends(r, "alive", "Killed") /\ UNCHANGED <<appVars, kills, notify>>

\* Mutant of Disarm: a switch that was already used is not expected to be gone.
Disarm_ExpectsSwitch(r) ==
    /\ runs[r].job \in DOMAIN kills
    /\ Moves(r, "ended", "disarmed")
    /\ kills' = Restrict(kills, DOMAIN kills \ {runs[r].job})
    /\ UNCHANGED <<appVars, notify>>

Disarm(r) ==
    /\ Moves(r, "ended", "disarmed")
    /\ kills' = Restrict(kills, DOMAIN kills \ {runs[r].job})
    /\ UNCHANGED <<appVars, notify>>

\* What is left of a run when its result has been handed over.
Spent(run) == [run EXCEPT !.phase = "settled", !.gpus = {}, !.fired = FALSE,
                          !.result = "Exited", !.asked = "nothing", !.armed = FALSE]

Settle(r) ==
    /\ runs[r].phase = "disarmed"
    /\ runs' = [runs EXCEPT ![r] = Spent(runs[r])]
    /\ FinishOrRestart(runs[r].job, runs[r].result)
    /\ UNCHANGED <<state_file, gpu_total, kills, notify>>

\* Mutant of RunPersists: the end of a run is not saved.
RunPersists_Never(r) ==
    /\ Moves(r, "settled", "persisted")
    /\ UNCHANGED <<appVars, kills, notify>>

RunPersists(r) ==
    /\ Moves(r, "settled", "persisted")
    /\ UNCHANGED <<queueVars, gpu_total, kills, notify>>
    /\ Save \/ SaveFails

\* Mutant of RunNotifies: the task leaves without a wake-up.
RunNotifies_Silent(r) ==
    /\ runs[r].phase = "persisted"
    /\ runs' = Restrict(runs, DOMAIN runs \ {r})
    /\ UNCHANGED <<appVars, kills, notify>>

\* Mutant of RunNotifies: the switch is taken out when the task leaves, and not
\* only before it hands its result over.
RunNotifies_RemovesSwitch(r) ==
    /\ runs[r].phase = "persisted"
    /\ runs' = Restrict(runs, DOMAIN runs \ {r})
    /\ kills' = Restrict(kills, DOMAIN kills \ {runs[r].job})
    /\ notify' = TRUE
    /\ UNCHANGED appVars

RunNotifies(r) ==
    /\ runs[r].phase = "persisted"
    /\ runs' = Restrict(runs, DOMAIN runs \ {r})
    /\ notify' = TRUE
    /\ UNCHANGED <<appVars, kills>>

\* The steps the daemon takes by itself; how long a process lives is not one.
RunTask(r) ==
    /\ r \in DOMAIN runs
    /\ \/ Spawn(r) \/ SpawnFails(r) \/ KilledTree(r) \/ Disarm(r)
       \/ Settle(r) \/ RunPersists(r) \/ RunNotifies(r)
    /\ UNCHANGED <<sched, conn, leftovers, accepted>>

ProcessExits(r) ==
    /\ r \in DOMAIN runs
    /\ Exits(r)
    /\ UNCHANGED <<sched, conn, leftovers, accepted>>

-----------------------------------------------------------------------------
(* The life of the daemon *)

\* Mutant of DieAndStart: what was reconciled is not saved.
DieAndStart_NoSave ==
    /\ MayDie
    /\ Load /\ UNCHANGED state_file
    /\ leftovers' = IF KillOnClose THEN {} ELSE Processes
    /\ notify' = TRUE
    /\ kills' = [id \in {} |-> 0]
    /\ runs' = [r \in {} |-> 0]
    /\ sched' = [pc |-> "waiting", run |-> 0]
    /\ conn' = [h \in Handlers |-> [fire |-> {}, todo |-> <<>>]]
    /\ UNCHANGED accepted

\* The daemon dies (shutdown's exit, a crash, a kill) and a new one starts: it
\* loads the file, saves what it reconciled and kicks its scheduler.  A daemon
\* that cannot save does not start, and clients that find none wait.
DieAndStart ==
    /\ MayDie
    /\ Load /\ Save
    /\ leftovers' = IF KillOnClose THEN {} ELSE Processes
    /\ notify' = TRUE
    /\ kills' = [id \in {} |-> 0]
    /\ runs' = [r \in {} |-> 0]
    /\ sched' = [pc |-> "waiting", run |-> 0]
    /\ conn' = [h \in Handlers |-> [fire |-> {}, todo |-> <<>>]]
    /\ UNCHANGED accepted

LeftoverExits ==
    /\ \E p \in leftovers : leftovers' = leftovers \ {p}
    /\ UNCHANGED <<appVars, taskVars, accepted>>

DaemonInit ==
    /\ Init
    /\ notify = TRUE
    /\ kills = [id \in {} |-> 0]
    /\ runs = [r \in {} |-> 0]
    /\ sched = [pc |-> "waiting", run |-> 0]
    /\ conn = [h \in Handlers |-> [fire |-> {}, todo |-> <<>>]]
    /\ leftovers = {}
    /\ accepted = {}

DaemonNext ==
    \/ \E h \in Handlers : Request(h) \/ Chore(h)
    \/ Scheduler
    \/ \E r \in DOMAIN runs : RunTask(r) \/ ProcessExits(r)
    \/ DieAndStart
    \/ LeftoverExits

DaemonSpec == DaemonInit /\ [][DaemonNext]_vars

\* The runtime polls a task that is ready and a contended lock is granted: every
\* step a task owes happens.  Clients, processes and crashes owe nothing.
Fairness ==
    /\ WF_vars(Scheduler)
    /\ \A h \in Handlers : WF_vars(Chore(h))
    /\ \A r \in 0 .. MaxTasks - 1 : WF_vars(RunTask(r))

FairSpec == DaemonSpec /\ Fairness

-----------------------------------------------------------------------------
(* Properties *)

\* A run of which nothing has been asked yet is "late" when it began while a task
\* was still to fire its job's switch, for a request about an earlier run.
AskedForItself == {"kill", "restart"}

ChoreLists == {<<>>} \cup {<<c>> : c \in Chores}
              \cup {<<"fire", "persist">>, <<"persist", "notify">>}

RunsTypeOK ==
    /\ DOMAIN runs \subseteq 0 .. MaxTasks - 1
    /\ runs \in [DOMAIN runs -> Run]

SchedTypeOK == sched \in [pc : {"waiting", "picking", "saving", "arming"}, run : Nat]

\* The types of the tasks around the queue.
DaemonTypeOK ==
    /\ TypeOK
    /\ RunsTypeOK
    /\ SchedTypeOK
    /\ notify \in BOOLEAN
    /\ kills \in [DOMAIN kills -> Nat]
    /\ DOMAIN kills \subseteq 0 .. next_id - 1
    /\ conn \in [Handlers -> [fire : SUBSET Nat, todo : ChoreLists]]
    /\ leftovers \subseteq [job : Nat, gpus : SUBSET Nat]
    /\ accepted \subseteq 0 .. MaxJobs - 1

EachRunHasItsJob ==
    \A r \in RunsIn(Current) :
        /\ runs[r].job \in InState({"Running"})
        /\ runs[r].gpus = jobs[runs[r].job].assigned_gpus
        /\ \A other \in RunsIn(Current) \ {r} : runs[other].job # runs[r].job

EachRunningJobHasARun ==
    \A id \in InState({"Running"}) : \E r \in RunsIn(Current) : runs[r].job = id

SchedulerHoldsTheSpec ==
    /\ \A r \in RunsIn({"spec"}) : sched.pc \in {"saving", "arming"} /\ sched.run = r
    /\ sched.pc \in {"saving", "arming"} => sched.run \in RunsIn({"spec"})

\* A job is Running exactly while one run of it is under way, and the run was
\* given the GPUs the queue has reserved: no job is lost between the scheduler
\* and its task, started twice, or removed under its run (daemon.rs 517-543).
RunPerRunningJob == EachRunHasItsJob /\ EachRunningJobHasARun /\ SchedulerHoldsTheSpec

\* A process can always be stopped: a run whose task exists has been signalled
\* or has its switch in kills, and kills holds no switch of another run.
Killable ==
    /\ \A r \in RunsIn(Armed) : \/ runs[r].fired
                                \/ runs[r].job \in DOMAIN kills /\ kills[runs[r].job] = r
    /\ \A id \in DOMAIN kills : kills[id] \in RunsIn(Armed \cup {"ended"}) /\ runs[kills[id]].job = id

\* Someone will wake the scheduler, or it is awake.
WakePending ==
    \/ notify
    \/ sched.pc # "waiting"
    \/ HasChore("notify")
    \/ RunsIn({"settled", "persisted"}) # {}

\* The single permit is enough: whenever a job could start, the scheduler is
\* awake or about to be (daemon.rs 511-512).
NoneStranded == Runnable # {} => WakePending

\* When no save fails, the file is behind the memory only while a task is on
\* its way to persist: no change stays unsaved (daemon.rs 409-414).
NothingLeftUnsaved ==
    state_file # Snapshot =>
        sched.pc = "saving" \/ HasChore("persist") \/ RunsIn({"settled"}) # {}

\* A process is started only after the file says its job runs, and the file says
\* so until its end is recorded: a daemon that dies can never run the job a
\* second time unasked (the order of daemon.rs 518-531).
NoSilentRerun ==
    \A r \in RunsIn(Current \ {"spec"}) :
        /\ runs[r].job \in DOMAIN state_file.jobs
        /\ state_file.jobs[runs[r].job].state = "Running"

\* An add or a rerun that was answered Ok survives every death of the daemon,
\* also when other saves fail (daemon.rs 123-130, 241-246).
AcceptedSurvives == accepted \subseteq DOMAIN jobs

\* No two live processes hold a GPU in common: each GPU is a reservable resource
\* (daemon.rs 517-543, and what a daemon finds when it starts, scheduler.rs 101-130).
ProcessesShareNoGpu == \A p, q \in Processes : p # q => p.gpus \cap q.gpus = {}

\* A signal never comes from nowhere: it reaches a run of which something was
\* asked, or one that began while a request about an earlier run of the same job
\* was still to be carried out (daemon.rs 156-192, 252-263, 525-534).
SignalsHaveRequests == \A r \in RunsIn(Armed) : runs[r].fired => runs[r].asked # "nothing"

\* A signal reaches only a run that somebody asked to stop.
OnlyAskedRunsAreSignalled == \A r \in RunsIn(Armed) : runs[r].fired => runs[r].asked \in AskedForItself

\* A kill or restart answered Ok has signalled the process of the run it found.
AskedRunsAreSignalled ==
    \A r \in RunsIn(Armed) :
        runs[r].asked \in AskedForItself => runs[r].fired \/ AboutToFire(runs[r].job)

\* The same for the requests that came after the switch was registered.
ArmedAsksSignal ==
    \A r \in RunsIn(Armed) : runs[r].armed => runs[r].fired \/ AboutToFire(runs[r].job)

\* The runs whose task has just called finish_or_restart.
Settling == {r \in RunsIn({"disarmed"}) : r \in DOMAIN runs' /\ runs'[r].phase = "settled"}

\* A run whose restart was requested while it was under way re-queues its job,
\* and a run nobody asked to restart never does (scheduler.rs 363-384).
RestartRequeues ==
    [][\A r \in Settling :
          /\ runs[r].asked = "restart" => jobs'[runs[r].job].state = "Queued"
          /\ runs[r].asked \notin AskedForItself => jobs'[runs[r].job].state \in Terminal]_vars

\* A run that was last asked to die leaves its job in a terminal state.
KillIsFinal ==
    [][\A r \in Settling : runs[r].asked = "kill" => jobs'[runs[r].job].state \in Terminal]_vars

\* A job that could start stops waiting: it starts, or it no longer fits, or a
\* client takes it out of the queue.
QueueMoves == \A id \in 0 .. MaxJobs - 1 : id \in Runnable ~> id \notin Runnable

\* A kill or restart answered Ok once the switch was there brings the run to its
\* end, and its job out of Running, whichever task fires that switch.
StopsTakeEffect ==
    \A r \in 0 .. MaxTasks - 1 :
        r \in RunsIn(Current) /\ runs[r].armed ~> r \notin RunsIn(Current)

\* What has been changed reaches the disk.
ChangesReachDisk == state_file # Snapshot ~> state_file = Snapshot
=============================================================================
