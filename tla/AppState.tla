------------------------------ MODULE AppState ------------------------------
(***************************************************************************)
(* The queue of src/ipc/scheduler.rs: the AppState struct, with one action *)
(* per method.  The daemon keeps it behind one mutex, so a method call is  *)
(* one atomic step; Daemon.tla puts these steps in the tasks that make     *)
(* them.  Read alone, this module is the object itself: any caller, any    *)
(* legal order of calls, each of them saved or not.                        *)
(*                                                                         *)
(* Abstracted: argv, cwd, env, label, log path and exit code are carried   *)
(* by a job and read by nothing here.  A time stamp is its Option          *)
(* discriminant, TRUE for Some.  assigned_gpus is a set: the code keeps it *)
(* in ascending order.                                                     *)
(***************************************************************************)
EXTENDS Integers, FiniteSets, Functions

CONSTANTS
    GpuTotals,    \* pool sizes the daemon may detect when it starts
    GpuRequests,  \* values of `add --gpus`
    Priorities,   \* values of `add --priority`, i32
    CpuLimits,    \* values of cpu_limit: NoLimit (None) or a positive number
    NoLimit,      \* None
    MaxJobs       \* bound of the model: ids 0 .. MaxJobs-1 are handed out

I32Min == -2147483647 - 1
I32Max == 2147483647

ASSUME ConstantsAssumption ==
    /\ GpuTotals \subseteq Nat
    /\ GpuRequests \subseteq Nat
    /\ Priorities \subseteq I32Min .. I32Max
    /\ NoLimit \notin Nat
    /\ NoLimit \in CpuLimits
    /\ CpuLimits \subseteq Nat \cup {NoLimit}
    /\ MaxJobs \in Nat

VARIABLES
    next_id,            \* the id of the next job
    jobs,               \* the BTreeMap: a function whose domain is the ids present
    cpu_limit,          \* cap on concurrent CPU jobs
    restart_requested,  \* ids whose run must re-queue them when it ends
    state_file,         \* what state.json holds
    gpu_total           \* the pool size every call is given; fixed while a daemon lives

queueVars == <<next_id, jobs, cpu_limit, restart_requested>>
appVars   == <<queueVars, state_file, gpu_total>>

-----------------------------------------------------------------------------
(* job.rs *)

Terminal == {"Finished", "Killed", "Failed"}
Pending  == {"Queued", "Paused"}
JobState == Pending \cup {"Running"} \cup Terminal

Job == [state : JobState, priority : Priorities, gpus : GpuRequests,
        assigned_gpus : SUBSET Nat, started_at : BOOLEAN, finished_at : BOOLEAN]

\* How a run can end (RunResult).
RunResults == {"Exited", "Killed", "SpawnFailed"}

\* The part of AppState that serde writes: restart_requested is skipped.
Snapshot == [next_id |-> next_id, jobs |-> jobs, cpu_limit |-> cpu_limit]

InState(S) == {id \in DOMAIN jobs : jobs[id].state \in S}

-----------------------------------------------------------------------------
(* What fits *)

\* Mutant of FreeGpus: the indices that running jobs hold are not taken away.
FreeGpus_WholePool == 0 .. gpu_total - 1

FreeGpus == (0 .. gpu_total - 1) \ UNION {jobs[id].assigned_gpus : id \in InState({"Running"})}

RunningCpu == {id \in InState({"Running"}) : jobs[id].gpus = 0}

\* Mutant of CpuHasRoom: off by one.
CpuHasRoom_OneMore == cpu_limit = NoLimit \/ Cardinality(RunningCpu) <= cpu_limit

CpuHasRoom == cpu_limit = NoLimit \/ Cardinality(RunningCpu) < cpu_limit

Fits(job) == IF job.gpus = 0 THEN CpuHasRoom ELSE job.gpus <= Cardinality(FreeGpus)

Runnable == {id \in InState({"Queued"}) : Fits(jobs[id])}

\* `-j.priority` on an i32 of a release build: negating i32::MIN wraps to itself.
Neg32(p) == IF p = I32Min THEN I32Min ELSE -p

\* Mutant of Before: the priority is not negated.
Before_LowFirst(a, b) ==
    \/ jobs[a].priority < jobs[b].priority
    \/ jobs[a].priority = jobs[b].priority /\ a < b

\* The order of min_by_key(|j| (-j.priority, j.id)).
Before(a, b) ==
    \/ Neg32(jobs[a].priority) < Neg32(jobs[b].priority)
    \/ Neg32(jobs[a].priority) = Neg32(jobs[b].priority) /\ a < b

NextRunnable == CHOOSE id \in Runnable : \A other \in Runnable \ {id} : Before(id, other)

\* Mutant of Lowest: off by one.
Lowest_OneMore(S, n) == {g \in S : Cardinality({h \in S : h < g}) <= n}

\* free.into_iter().take(n): the n lowest members of a set of indices.
Lowest(S, n) == {g \in S : Cardinality({h \in S : h < g}) < n}

-----------------------------------------------------------------------------
(* The methods that change the queue.  A guard is the success branch of    *)
(* the method; its other branches change nothing.                          *)

Add(gpus, priority) ==
    /\ next_id < MaxJobs
    /\ jobs' = [id \in DOMAIN jobs \cup {next_id} |->
                  IF id = next_id
                  THEN [state |-> "Queued", priority |-> priority, gpus |-> gpus,
                        assigned_gpus |-> {}, started_at |-> FALSE, finished_at |-> FALSE]
                  ELSE jobs[id]]
    /\ next_id' = next_id + 1
    /\ UNCHANGED <<cpu_limit, restart_requested>>

Rerun(id, priority) ==
    /\ id \in DOMAIN jobs
    /\ Add(jobs[id].gpus, priority)

TakeNextRunnable ==
    /\ Runnable # {}
    /\ jobs' = [jobs EXCEPT ![NextRunnable].state = "Running",
                            ![NextRunnable].started_at = TRUE,
                            ![NextRunnable].assigned_gpus =
                                Lowest(FreeGpus, jobs[NextRunnable].gpus)]
    /\ UNCHANGED <<next_id, cpu_limit, restart_requested>>

\* The state finish leaves a job in, by the result of its run.
FinishState(result) ==
    CASE result = "Exited"      -> "Finished"
      [] result = "Killed"      -> "Killed"
      [] result = "SpawnFailed" -> "Failed"

Finish(id, result) ==
    jobs' = [jobs EXCEPT ![id].state = FinishState(result),
                         ![id].finished_at = TRUE,
                         ![id].assigned_gpus = {}]

\* Mutant of Requeue: the start stamp is not reset.
Requeue_KeepsStart(id) ==
    jobs' = [jobs EXCEPT ![id].state = "Queued",
                         ![id].finished_at = FALSE,
                         ![id].assigned_gpus = {}]

Requeue(id) ==
    jobs' = [jobs EXCEPT ![id].state = "Queued",
                         ![id].started_at = FALSE,
                         ![id].finished_at = FALSE,
                         ![id].assigned_gpus = {}]

\* Mutant of FinishOrRestart: the intent is read and not consumed.
FinishOrRestart_KeepsIntent(id, result) ==
    /\ IF id \in restart_requested THEN Requeue(id) ELSE Finish(id, result)
    /\ UNCHANGED <<next_id, cpu_limit, restart_requested>>

\* Mutant of FinishOrRestart: a process that exits by itself is not run again.
FinishOrRestart_OnlyKilled(id, result) ==
    /\ IF id \in restart_requested /\ result = "Killed" THEN Requeue(id) ELSE Finish(id, result)
    /\ restart_requested' = restart_requested \ {id}
    /\ UNCHANGED <<next_id, cpu_limit>>

\* Called by the run task of a running job when its process has ended.
FinishOrRestart(id, result) ==
    /\ IF id \in restart_requested THEN Requeue(id) ELSE Finish(id, result)
    /\ restart_requested' = restart_requested \ {id}
    /\ UNCHANGED <<next_id, cpu_limit>>

\* Mutant of RequestRestart: a job in any state will do.
RequestRestart_AnyState(id) ==
    /\ id \in DOMAIN jobs
    /\ restart_requested' = restart_requested \cup {id}
    /\ UNCHANGED <<next_id, jobs, cpu_limit>>

RequestRestart(id) ==
    /\ id \in InState({"Running"})
    /\ restart_requested' = restart_requested \cup {id}
    /\ UNCHANGED <<next_id, jobs, cpu_limit>>

\* Moves every job of ids to a state, stamping finished_at when asked to.
MoveAll(ids, state, stamp) ==
    /\ jobs' = [id \in DOMAIN jobs |->
                  IF id \in ids
                  THEN [jobs[id] EXCEPT !.state = state, !.finished_at = @ \/ stamp]
                  ELSE jobs[id]]
    /\ UNCHANGED <<next_id, cpu_limit, restart_requested>>

\* request_kill on a queued or paused job.
DropPending(id) == id \in InState(Pending) /\ MoveAll({id}, "Killed", TRUE)

\* The queue's share of cancel_all; the caller gets InState({"Running"}).
CancelAll == MoveAll(InState(Pending), "Killed", TRUE)

PauseJob(id)    == id \in InState({"Queued"}) /\ MoveAll({id}, "Paused", FALSE)
ResumeJob(id)   == id \in InState({"Paused"}) /\ MoveAll({id}, "Queued", FALSE)
PauseAllQueued  == MoveAll(InState({"Queued"}), "Paused", FALSE)
ResumeAllPaused == MoveAll(InState({"Paused"}), "Queued", FALSE)

SetPriority(id, priority) ==
    /\ id \in InState({"Queued"})
    /\ jobs' = [jobs EXCEPT ![id].priority = priority]
    /\ UNCHANGED <<next_id, cpu_limit, restart_requested>>

SetCpuLimit(limit) ==
    /\ cpu_limit' = limit
    /\ UNCHANGED <<next_id, jobs, restart_requested>>

\* Mutant of Remove: a running job can be removed.
Remove_Running(id) ==
    /\ id \in DOMAIN jobs
    /\ jobs' = Restrict(jobs, DOMAIN jobs \ {id})
    /\ UNCHANGED <<next_id, cpu_limit, restart_requested>>

Remove(id) ==
    /\ id \in DOMAIN jobs \ InState({"Running"})
    /\ jobs' = Restrict(jobs, DOMAIN jobs \ {id})
    /\ UNCHANGED <<next_id, cpu_limit, restart_requested>>

ClearFinished ==
    /\ jobs' = Restrict(jobs, DOMAIN jobs \ InState(Terminal))
    /\ UNCHANGED <<next_id, cpu_limit, restart_requested>>

-----------------------------------------------------------------------------
(* The state file *)

\* The temporary file and the rename make a save all or nothing.
Save == state_file' = Snapshot'

\* Jobs that were running when the daemon died have lost their run.
Reconcile(job) ==
    IF job.state = "Running" THEN [job EXCEPT !.state = "Failed", !.finished_at = TRUE] ELSE job

\* Mutant of Load: next_id is not restored.
Load_RestartsIds ==
    /\ next_id' = 0
    /\ jobs' = [id \in DOMAIN state_file.jobs |-> Reconcile(state_file.jobs[id])]
    /\ cpu_limit' = state_file.cpu_limit
    /\ restart_requested' = {}
    /\ gpu_total' \in GpuTotals

\* A new daemon: load, and detection of the pool.
Load ==
    /\ next_id' = state_file.next_id
    /\ jobs' = [id \in DOMAIN state_file.jobs |-> Reconcile(state_file.jobs[id])]
    /\ cpu_limit' = state_file.cpu_limit
    /\ restart_requested' = {}
    /\ gpu_total' \in GpuTotals

-----------------------------------------------------------------------------
Init ==
    /\ next_id = 0
    /\ jobs = [id \in {} |-> {}]
    /\ cpu_limit = NoLimit
    /\ restart_requested = {}
    /\ state_file = Snapshot
    /\ gpu_total \in GpuTotals

Call ==
    \/ \E gpus \in GpuRequests, priority \in Priorities : Add(gpus, priority)
    \/ \E limit \in CpuLimits : SetCpuLimit(limit)
    \/ TakeNextRunnable
    \/ CancelAll
    \/ PauseAllQueued
    \/ ResumeAllPaused
    \/ ClearFinished
    \/ \E id \in DOMAIN jobs :
          \/ \E priority \in Priorities : Rerun(id, priority) \/ SetPriority(id, priority)
          \/ \E result \in RunResults : id \in InState({"Running"}) /\ FinishOrRestart(id, result)
          \/ RequestRestart(id)
          \/ DropPending(id)
          \/ PauseJob(id)
          \/ ResumeJob(id)
          \/ Remove(id)

\* A call, saved under its lock or later; a save; a new daemon.
Next ==
    \/ Call /\ (Save \/ UNCHANGED state_file) /\ UNCHANGED gpu_total
    \/ UNCHANGED queueVars /\ Save /\ UNCHANGED gpu_total
    \/ Load /\ Save

Spec == Init /\ [][Next]_appVars

\* The same when every call is saved at once, for checking more jobs.
SavedNext ==
    \/ Call /\ Save /\ UNCHANGED gpu_total
    \/ Load /\ Save

SavedSpec == Init /\ [][SavedNext]_appVars

-----------------------------------------------------------------------------
(* Properties *)

\* A queue whose jobs have ids that were handed out.
IsQueue(n, js, limit) ==
    /\ n \in 0 .. MaxJobs
    /\ DOMAIN js \subseteq 0 .. n - 1
    /\ js \in [DOMAIN js -> Job]
    /\ limit \in CpuLimits

QueueTypeOK ==
    /\ IsQueue(next_id, jobs, cpu_limit)
    /\ restart_requested \subseteq 0 .. next_id - 1

FileTypeOK ==
    /\ DOMAIN state_file = {"next_id", "jobs", "cpu_limit"}
    /\ IsQueue(state_file.next_id, state_file.jobs, state_file.cpu_limit)

\* The types, in memory and on disk; an id that is present was handed out, so
\* the next add (scheduler.rs 149-167) never overwrites a job.
TypeOK == QueueTypeOK /\ FileTypeOK /\ gpu_total \in GpuTotals

\* Running jobs never share a GPU and hold only GPUs of the pool, through
\* re-queues, kills, daemon restarts and pools that change their size
\* (take_next_runnable, finish, finish_or_restart, load).
GpusExclusive ==
    \A id \in InState({"Running"}) :
        /\ jobs[id].assigned_gpus \subseteq 0 .. gpu_total - 1
        /\ \A other \in InState({"Running"}) \ {id} :
              jobs[id].assigned_gpus \cap jobs[other].assigned_gpus = {}

\* A running job holds as many GPUs as it asked for (scheduler.rs 310-317).
GpusAsRequested ==
    \A id \in InState({"Running"}) : Cardinality(jobs[id].assigned_gpus) = jobs[id].gpus

\* A restart intent belongs to a job that is running: it can never outlive the
\* run it was meant for and re-queue a later one (scheduler.rs 363-368).
IntentOnlyWhileRunning == restart_requested \subseteq InState({"Running"})

\* In memory and on disk, the stamps tell the story of the state: nothing pending has any, a running
\* job has only started, a job that ran to its end has both, and no terminal
\* job lacks its end (finish, finish_or_restart, request_kill, cancel_all, load).
StampsMatch(job) ==
    /\ job.state \in Pending => ~job.started_at /\ ~job.finished_at
    /\ job.state = "Running" => job.started_at /\ ~job.finished_at
    /\ job.state \in Terminal => job.finished_at
    /\ job.state \in {"Finished", "Failed"} => job.started_at

StampsMatchState ==
    /\ \A id \in DOMAIN jobs : StampsMatch(jobs[id])
    /\ \A id \in DOMAIN state_file.jobs : StampsMatch(state_file.jobs[id])

-----------------------------------------------------------------------------
(* The life of each job, as JobLife tells it *)

StageOf(id) ==
    IF id >= next_id THEN "new"
    ELSE IF id \notin DOMAIN jobs THEN "gone"
    ELSE IF jobs[id].state \in Pending THEN "waiting"
    ELSE IF jobs[id].state = "Running" THEN "running"
    ELSE "over"

Life == INSTANCE JobLife WITH
    Ids   <- 0 .. MaxJobs - 1,
    stage <- [id \in 0 .. MaxJobs - 1 |-> StageOf(id)],
    asked <- restart_requested

\* Saved calls, and daemons that come and go, never give an id twice, start a job
\* that is not waiting, run again what is over or removed, or queue a job again
\* whose restart nobody asked for (scheduler.rs 100-487).
EachJobLivesOnce == Life!LifeSpec

-----------------------------------------------------------------------------
\* What runs next, said with the integers themselves: the higher priority, and
\* among equals the older job.
Outranks(a, b) ==
    \/ jobs[a].priority > jobs[b].priority
    \/ jobs[a].priority = jobs[b].priority /\ a < b

Starts(id) ==
    /\ id \in InState({"Queued"})
    /\ id \in DOMAIN jobs'
    /\ jobs'[id].state = "Running"

\* A job that starts outranks every other job that could have started: backfill
\* lets a job pass only those that do not fit (scheduler.rs 289-295).
StartsHighestPriority ==
    [][\A id \in DOMAIN jobs : Starts(id) =>
          id \in Runnable /\ \A other \in Runnable \ {id} : Outranks(id, other)]_appVars

\* The number of CPU jobs running grows only up to the limit in force, whatever
\* lowering the limit, pausing, restarting and GPU jobs do in between.
CpuLimitHolds ==
    [][Cardinality(RunningCpu') > Cardinality(RunningCpu) =>
          cpu_limit' = NoLimit \/ Cardinality(RunningCpu') <= cpu_limit']_appVars
=============================================================================
