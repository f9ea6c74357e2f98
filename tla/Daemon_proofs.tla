---------------------------- MODULE Daemon_proofs ----------------------------
(***************************************************************************)
(* The tasks of the daemon use the queue as AppState.tla says it is used,  *)
(* whatever their number and order, whatever fails and dies.  The step     *)
(* that needs an argument is finish_or_restart: its caller holds a job     *)
(* that is still running, because each running job has exactly one run.    *)
(***************************************************************************)
EXTENDS Daemon, AppState_proofs

DaemonInv == TypeOK /\ RunsTypeOK /\ SchedTypeOK /\ RunPerRunningJob

-----------------------------------------------------------------------------
(* Steps that keep every run where it is *)

\* Runs may be asked or signalled, and change between phases of one kind.
RunsKept ==
    /\ RunsIn(Current)' = RunsIn(Current)
    /\ RunsIn({"spec"})' = RunsIn({"spec"})
    /\ \A r \in RunsIn(Current) : runs'[r].job = runs[r].job /\ runs'[r].gpus = runs[r].gpus

RunningKept == Running' = Running /\ \A id \in Running : jobs'[id] = jobs[id]

LEMMA KeptPreserves ==
    ASSUME RunPerRunningJob, RunsKept, RunningKept, UNCHANGED sched
    PROVE  RunPerRunningJob'
<1>1. EachRunHasItsJob'
  BY DEF RunPerRunningJob, EachRunHasItsJob, RunsKept, RunningKept, Running
<1>2. EachRunningJobHasARun'
  BY DEF RunPerRunningJob, EachRunningJobHasARun, RunsKept, RunningKept, Running
<1>3. SchedulerHoldsTheSpec'
  BY DEF RunPerRunningJob, SchedulerHoldsTheSpec, RunsKept
<1> QED
  BY <1>1, <1>2, <1>3 DEF RunPerRunningJob

LEMMA UnchangedRunsKept == UNCHANGED runs => RunsKept
BY DEF RunsKept, RunsIn

LEMMA AskKeepsRuns ==
    ASSUME RunsTypeOK, NEW ids, NEW what \in {"kill", "restart"}, Ask(ids, what)
    PROVE  RunsKept /\ RunsTypeOK'
<1>1. DOMAIN runs' = DOMAIN runs
  BY DEF Ask
<1>2. \A r \in DOMAIN runs : /\ runs[r] \in Run
                             /\ runs'[r] \in Run
                             /\ runs'[r].job = runs[r].job
                             /\ runs'[r].gpus = runs[r].gpus
                             /\ runs'[r].phase = runs[r].phase
  <2> SUFFICES ASSUME NEW r \in DOMAIN runs
               PROVE  /\ runs[r] \in Run
                      /\ runs'[r] \in Run
                      /\ runs'[r].job = runs[r].job
                      /\ runs'[r].gpus = runs[r].gpus
                      /\ runs'[r].phase = runs[r].phase
    OBVIOUS
  <2>1. runs[r] \in Run
    BY DEF RunsTypeOK
  <2> QED
    BY <2>1 DEF Ask, Run
<1> QED
  BY <1>1, <1>2 DEF RunsKept, RunsIn, RunsTypeOK, Ask

-----------------------------------------------------------------------------
(* Requests *)

\* A request calls one method of the queue that leaves the running jobs alone,
\* or none, and keeps the runs where they are.
QuietStep ==
    /\ \/ Call /\ QuietCall
       \/ UNCHANGED queueVars
    /\ Save \/ UNCHANGED state_file
    /\ RunsKept
    /\ RunsTypeOK'

LEMMA CommitIsQuiet ==
    ASSUME DaemonInv, NEW h, NEW todo, Commit(h, todo),
           (Call /\ QuietCall) \/ UNCHANGED queueVars
    PROVE  QuietStep
BY UnchangedRunsKept DEF QuietStep, Commit, SaveFails, DaemonInv, RunsTypeOK

LEMMA CommitNewJobIsQuiet ==
    ASSUME DaemonInv, NEW h, CommitNewJob(h), Call, QuietCall
    PROVE  QuietStep
BY UnchangedRunsKept DEF QuietStep, CommitNewJob, SaveFails, DaemonInv, RunsTypeOK

LEMMA UnlockIsQuiet ==
    ASSUME DaemonInv, NEW h, NEW ids, NEW todo, Unlock(h, ids, todo),
           (Call /\ QuietCall) \/ UNCHANGED queueVars,
           \/ UNCHANGED runs
           \/ \E asked, what : what \in {"kill", "restart"} /\ Ask(asked, what)
    PROVE  QuietStep
<1>1. RunsKept /\ RunsTypeOK'
  <2>1. CASE UNCHANGED runs
    BY <2>1, UnchangedRunsKept DEF DaemonInv, RunsTypeOK
  <2>2. CASE \E asked, what : what \in {"kill", "restart"} /\ Ask(asked, what)
    BY <2>2, AskKeepsRuns DEF DaemonInv
  <2> QED
    BY <2>1, <2>2
<1> QED
  BY <1>1 DEF QuietStep, Unlock

LEMMA RequestIsQuiet ==
    ASSUME DaemonInv, NEW h \in Handlers, Request(h)
    PROVE  QuietStep
<1> USE DEF QuietCall
<1>0. QueueTypeOK
  BY DEF DaemonInv, TypeOK
<1>1. CASE AddRequest(h)
  <2>1. PICK gpus \in GpuRequests, priority \in Priorities : Add(gpus, priority) /\ CommitNewJob(h)
    BY <1>1 DEF AddRequest
  <2>2. Call /\ AddCall
    BY <2>1 DEF Call, AddCall
  <2> QED
    BY <2>1, <2>2, CommitNewJobIsQuiet
<1>2. CASE RerunRequest(h)
  <2>1. PICK id \in DOMAIN jobs, priority \in Priorities : Rerun(id, priority) /\ CommitNewJob(h)
    BY <1>2 DEF RerunRequest
  <2>2. Call /\ AddCall
    BY <1>0, <2>1, RerunIsAdd DEF Call
  <2> QED
    BY <2>1, <2>2, CommitNewJobIsQuiet
<1>3. CASE Kill(h)
  <2>1. PICK id \in DOMAIN jobs :
               \/ DropPending(id) /\ Unlock(h, {}, <<"persist">>) /\ UNCHANGED runs
               \/ /\ Ask({id}, "kill")
                  /\ Unlock(h, {id}, <<"fire">>)
                  /\ UNCHANGED queueVars
    BY <1>3 DEF Kill
  <2>2. CASE DropPending(id) /\ Unlock(h, {}, <<"persist">>) /\ UNCHANGED runs
    <3>1. Call /\ MoveCall
      BY <2>2, PendingMoves DEF Call
    <3> QED
      BY <2>2, <3>1, UnlockIsQuiet
  <2>3. CASE Ask({id}, "kill") /\ Unlock(h, {id}, <<"fire">>) /\ UNCHANGED queueVars
    BY <2>3, UnlockIsQuiet
  <2> QED
    BY <2>1, <2>2, <2>3
<1>4. CASE KillAll(h)
  <2>1. Call /\ MoveCall
    BY <1>4, PendingMoves DEF KillAll, Call
  <2> QED
    BY <1>4, <2>1, UnlockIsQuiet DEF KillAll
<1>5. CASE Restart(h)
  <2>1. PICK id \in DOMAIN jobs :
               RequestRestart(id) /\ Ask({id}, "restart") /\ Unlock(h, {id}, <<"fire">>)
    BY <1>5 DEF Restart
  <2>2. Call /\ RestartCall
    BY <2>1 DEF Call, RestartCall, RequestRestart
  <2> QED
    BY <2>1, <2>2, UnlockIsQuiet
<1>6. CASE SetPriorityRequest(h)
  <2>1. PICK id \in DOMAIN jobs, priority \in Priorities :
               SetPriority(id, priority) /\ Unlock(h, {}, <<"persist", "notify">>) /\ UNCHANGED runs
    BY <1>6 DEF SetPriorityRequest
  <2>2. Call /\ PriorityCall
    BY <2>1 DEF Call, PriorityCall, SetPriority
  <2> QED
    BY <2>1, <2>2, UnlockIsQuiet
<1>7. CASE PauseJobRequest(h) \/ ResumeJobRequest(h)
  <2>1. PICK id \in DOMAIN jobs, todo \in {<<"persist">>, <<"persist", "notify">>} :
               (PauseJob(id) \/ ResumeJob(id)) /\ Unlock(h, {}, todo) /\ UNCHANGED runs
    BY <1>7 DEF PauseJobRequest, ResumeJobRequest
  <2>2. Call /\ MoveCall
    BY <2>1, PendingMoves DEF Call
  <2> QED
    BY <2>1, <2>2, UnlockIsQuiet
<1>8. CASE SetLabel(h)
  BY <1>8, CommitIsQuiet DEF SetLabel
<1>9. CASE RemoveRequest(h) \/ Clear(h)
  <2>1. (ClearFinished \/ \E id \in DOMAIN jobs : Remove(id)) /\ Commit(h, <<>>)
    BY <1>9 DEF RemoveRequest, Clear
  <2>2. Call /\ PruneCall
    BY <2>1, Prunings DEF Call
  <2> QED
    BY <2>1, <2>2, CommitIsQuiet
<1>10. CASE SetCpuLimitRequest(h)
  <2>1. PICK limit \in CpuLimits : SetCpuLimit(limit) /\ Commit(h, <<"notify">>)
    BY <1>10 DEF SetCpuLimitRequest
  <2>2. Call /\ LimitCall
    BY <2>1 DEF Call, LimitCall
  <2> QED
    BY <2>1, <2>2, CommitIsQuiet
<1>11. CASE PauseAllQueuedRequest(h) \/ ResumeAllPausedRequest(h)
  <2>1. PICK todo \in {<<>>, <<"notify">>} :
               (PauseAllQueued \/ ResumeAllPaused) /\ Commit(h, todo)
    BY <1>11 DEF PauseAllQueuedRequest, ResumeAllPausedRequest
  <2>2. Call /\ MoveCall
    BY <2>1, PendingMoves DEF Call
  <2> QED
    BY <2>1, <2>2, CommitIsQuiet
<1> QED
  BY <1>1, <1>2, <1>3, <1>4, <1>5, <1>6, <1>7, <1>8, <1>9, <1>10, <1>11 DEF Request

LEMMA QuietStepPreserves ==
    ASSUME DaemonInv, QuietStep, UNCHANGED <<sched, gpu_total>>
    PROVE  [Next]_appVars /\ RunsTypeOK' /\ SchedTypeOK' /\ RunPerRunningJob'
<1>1. [Next]_appVars
  BY DEF QuietStep, Next, appVars
<1>2. RunningKept
  <2>1. CASE UNCHANGED queueVars
    BY <2>1 DEF queueVars, RunningKept, Running, InState
  <2>2. CASE QuietCall
    BY <2>2, RunningUntouched DEF RunningKept, DaemonInv
  <2> QED
    BY <2>1, <2>2 DEF QuietStep
<1>3. SchedTypeOK'
  BY DEF DaemonInv, SchedTypeOK
<1> QED
  BY <1>1, <1>2, <1>3, KeptPreserves DEF QuietStep, DaemonInv

-----------------------------------------------------------------------------
(* The later locks of a request *)

LEMMA FireKeepsRuns ==
    ASSUME RunsTypeOK, NEW h, Fire(h)
    PROVE  RunsKept /\ RunsTypeOK'
<1>1. DOMAIN runs' = DOMAIN runs
  BY DEF Fire
<1>2. ASSUME NEW r \in DOMAIN runs
      PROVE  /\ runs'[r] \in Run
             /\ runs'[r].job = runs[r].job
             /\ runs'[r].gpus = runs[r].gpus
             /\ runs'[r].phase = runs[r].phase
  <2>1. runs[r] \in Run
    BY DEF RunsTypeOK
  <2>2. runs'[r] = runs[r] \/ runs'[r] = [runs[r] EXCEPT !.fired = TRUE]
    BY DEF Fire
  <2> QED
    BY <2>1, <2>2 DEF Run
<1>3. runs' = [r \in DOMAIN runs' |-> runs'[r]]
  BY DEF Fire
<1> QED
  BY <1>1, <1>2, <1>3 DEF RunsKept, RunsIn, RunsTypeOK

LEMMA ChoreIsQuiet ==
    ASSUME DaemonInv, NEW h \in Handlers, Chore(h)
    PROVE  QuietStep /\ UNCHANGED <<sched, gpu_total>>
<1>1. CASE Fire(h)
  BY <1>1, FireKeepsRuns DEF QuietStep, DaemonInv, Fire, appVars
<1>2. CASE Persist(h) \/ NotifyOne(h)
  BY <1>2, UnchangedRunsKept DEF QuietStep, DaemonInv, RunsTypeOK, Persist, NotifyOne, SaveFails, appVars
<1> QED
  BY <1>1, <1>2 DEF Chore

-----------------------------------------------------------------------------
(* The scheduler *)

LEMMA PickPreserves ==
    ASSUME DaemonInv, Pick
    PROVE  [Next]_appVars /\ RunsTypeOK' /\ SchedTypeOK' /\ RunPerRunningJob'
<1> DEFINE job == NextRunnable
           slot == FreeSlot
<1>1. [Next]_appVars
  BY DEF Pick, Next, Call
<1>2. slot \in 0 .. MaxTasks - 1 /\ slot \notin DOMAIN runs
  <2>1. PICK r \in (0 .. MaxTasks - 1) \ DOMAIN runs :
               \A other \in (0 .. MaxTasks - 1) \ DOMAIN runs : r <= other
    <3>1. (0 .. MaxTasks - 1) \ DOMAIN runs \in SUBSET Nat
      OBVIOUS
    <3> QED
      BY <3>1, LeastNatural DEF Pick
  <2> QED
    BY <2>1 DEF FreeSlot
<1>3. /\ job \in DOMAIN jobs \ Running
      /\ Running' = Running \cup {job}
      /\ \A other \in Running : jobs'[other] = jobs[other]
      /\ jobs'[job].assigned_gpus \subseteq FreeGpus
  BY RunningTaken DEF DaemonInv, Pick
<1>4. job \in Nat /\ jobs'[job].assigned_gpus \in SUBSET Nat
  BY <1>3, FreeGpusInPool DEF DaemonInv, TypeOK, QueueTypeOK, IsQueue
<1>5. /\ DOMAIN runs' = DOMAIN runs \cup {slot}
      /\ \A r \in DOMAIN runs : runs'[r] = runs[r]
      /\ runs'[slot] \in Run
      /\ runs'[slot].phase = "spec"
      /\ runs'[slot].job = job
      /\ runs'[slot].gpus = jobs'[job].assigned_gpus
      /\ runs' \in [DOMAIN runs' -> Run]
  BY <1>2, <1>4 DEF Pick, Run, Phases, Current, RunResults, DaemonInv, RunsTypeOK
<1>6. RunsTypeOK'
  BY <1>2, <1>5 DEF DaemonInv, RunsTypeOK
<1>7. RunsIn(Current)' = RunsIn(Current) \cup {slot} /\ RunsIn({"spec"})' = RunsIn({"spec"}) \cup {slot}
  BY <1>2, <1>5 DEF RunsIn, Current
<1>8. \A r \in RunsIn(Current) : r \in DOMAIN runs /\ runs[r].job \in Running
  BY DEF DaemonInv, RunPerRunningJob, EachRunHasItsJob, Running, RunsIn
<1>9. EachRunHasItsJob'
  <2> SUFFICES ASSUME NEW r \in RunsIn(Current)'
               PROVE  /\ runs'[r].job \in Running'
                      /\ runs'[r].gpus = jobs'[runs'[r].job].assigned_gpus
                      /\ \A other \in RunsIn(Current)' \ {r} : runs'[other].job # runs'[r].job
    BY DEF EachRunHasItsJob, Running
  <2>1. CASE r = slot
    BY <1>3, <1>5, <1>7, <1>8, <2>1
  <2>2. CASE r \in RunsIn(Current)
    <3>1. /\ runs[r].gpus = jobs[runs[r].job].assigned_gpus
          /\ \A other \in RunsIn(Current) \ {r} : runs[other].job # runs[r].job
      BY <2>2 DEF DaemonInv, RunPerRunningJob, EachRunHasItsJob
    <3> QED
      BY <1>3, <1>5, <1>7, <1>8, <2>2, <3>1
  <2> QED
    BY <1>7, <2>1, <2>2
<1>10. EachRunningJobHasARun'
  <2> SUFFICES ASSUME NEW id \in Running'
               PROVE  \E r \in RunsIn(Current)' : runs'[r].job = id
    BY DEF EachRunningJobHasARun, Running
  <2>1. CASE id = job
    BY <1>5, <1>7, <2>1
  <2>2. CASE id \in Running
    <3>1. PICK r \in RunsIn(Current) : runs[r].job = id
      BY <2>2 DEF DaemonInv, RunPerRunningJob, EachRunningJobHasARun, Running
    <3> QED
      BY <1>5, <1>7, <1>8, <3>1
  <2> QED
    BY <1>3, <2>1, <2>2
<1>11. SchedulerHoldsTheSpec'
  <2>1. RunsIn({"spec"}) = {}
    BY DEF DaemonInv, RunPerRunningJob, SchedulerHoldsTheSpec, Pick
  <2>2. sched'.pc = "saving" /\ sched'.run = slot
    BY DEF Pick
  <2> QED
    BY <1>7, <2>1, <2>2 DEF SchedulerHoldsTheSpec
<1>12. SchedTypeOK'
  BY <1>2 DEF Pick, SchedTypeOK
<1> QED
  BY <1>1, <1>6, <1>9, <1>10, <1>11, <1>12 DEF RunPerRunningJob

LEMMA ArmPreserves ==
    ASSUME DaemonInv, Arm
    PROVE  UNCHANGED appVars /\ RunsTypeOK' /\ RunPerRunningJob'
<1> DEFINE slot == sched.run
<1>1. RunsIn({"spec"}) = {slot} /\ slot \in DOMAIN runs /\ runs[slot].phase = "spec"
  BY DEF DaemonInv, RunPerRunningJob, SchedulerHoldsTheSpec, Arm, RunsIn
<1>2. /\ DOMAIN runs' = DOMAIN runs
      /\ \A r \in DOMAIN runs \ {slot} : runs'[r] = runs[r]
      /\ runs'[slot].phase = "starting"
      /\ runs'[slot].job = runs[slot].job
      /\ runs'[slot].gpus = runs[slot].gpus
      /\ RunsTypeOK'
  <2>1. runs[slot] \in Run /\ runs' = [runs EXCEPT ![slot].phase = "starting"]
    BY <1>1 DEF DaemonInv, RunsTypeOK, Arm
  <2> QED
    BY <1>1, <2>1 DEF DaemonInv, RunsTypeOK, Run, Phases, Current, Armed
<1>3. RunsIn(Current)' = RunsIn(Current) /\ RunsIn({"spec"})' = {}
  BY <1>1, <1>2 DEF RunsIn, Current, Armed
<1>4. Running' = Running /\ jobs' = jobs
  BY DEF Arm, appVars, queueVars, Running, InState
<1>5. \A r \in RunsIn(Current) : runs'[r].job = runs[r].job /\ runs'[r].gpus = runs[r].gpus
  BY <1>2 DEF RunsIn
<1>6. EachRunHasItsJob'
  BY <1>3, <1>4, <1>5 DEF DaemonInv, RunPerRunningJob, EachRunHasItsJob, Running
<1>7. EachRunningJobHasARun'
  BY <1>3, <1>4, <1>5 DEF DaemonInv, RunPerRunningJob, EachRunningJobHasARun, Running
<1>8. SchedulerHoldsTheSpec'
  BY <1>3 DEF SchedulerHoldsTheSpec, Arm
<1> QED
  BY <1>2, <1>6, <1>7, <1>8 DEF RunPerRunningJob, Arm

LEMMA SchedulerPreserves ==
    ASSUME DaemonInv, Scheduler
    PROVE  [Next]_appVars /\ RunsTypeOK' /\ SchedTypeOK' /\ RunPerRunningJob'
<1>1. CASE Wake \/ NothingFits \/ SchedPersist
  <2>1. UNCHANGED <<queueVars, gpu_total, runs>> /\ (Save \/ UNCHANGED state_file)
    BY <1>1 DEF Wake, NothingFits, SchedPersist, SaveFails, appVars
  <2>2. SchedTypeOK' /\ SchedulerHoldsTheSpec'
    <3>1. RunsIn({"spec"})' = RunsIn({"spec"})
      BY <2>1 DEF RunsIn
    <3>2. /\ sched' \in [pc : {"waiting", "picking", "saving", "arming"}, run : Nat]
          /\ sched'.run = sched.run
          /\ \/ {sched.pc, sched'.pc} \subseteq {"waiting", "picking"}
             \/ {sched.pc, sched'.pc} \subseteq {"saving", "arming"}
      BY <1>1 DEF DaemonInv, SchedTypeOK, Wake, NothingFits, SchedPersist
    <3> QED
      BY <3>1, <3>2 DEF SchedTypeOK, DaemonInv, RunPerRunningJob, SchedulerHoldsTheSpec
  <2>3. RunsTypeOK' /\ EachRunHasItsJob' /\ EachRunningJobHasARun'
    BY <2>1 DEF DaemonInv, RunPerRunningJob, RunsTypeOK, EachRunHasItsJob,
                EachRunningJobHasARun, RunsIn, InState, queueVars
  <2> QED
    BY <2>1, <2>2, <2>3 DEF RunPerRunningJob, Next, appVars
<1>2. CASE Pick
  BY <1>2, PickPreserves
<1>3. CASE Arm
  <2>1. SchedTypeOK'
    BY <1>3 DEF Arm, SchedTypeOK
  <2> QED
    BY <1>3, <2>1, ArmPreserves
<1> QED
  BY <1>1, <1>2, <1>3 DEF Scheduler

-----------------------------------------------------------------------------
(* The task of a run *)

\* A run changes its phase, before its result is handed over or after.
LEMMA MovingRunIsKept ==
    ASSUME RunsTypeOK, NEW r \in DOMAIN runs, NEW run \in Run,
           runs' = [runs EXCEPT ![r] = run],
           run.job = runs[r].job, run.gpus = runs[r].gpus,
           \/ {runs[r].phase, run.phase} \subseteq Current \ {"spec"}
           \/ {runs[r].phase, run.phase} \cap Current = {}
    PROVE  RunsKept /\ RunsTypeOK'
<1>1. /\ DOMAIN runs' = DOMAIN runs
      /\ runs'[r] = run
      /\ \A other \in DOMAIN runs \ {r} : runs'[other] = runs[other]
      /\ RunsTypeOK'
  BY DEF RunsTypeOK
<1>2. "spec" \in Current
  BY DEF Current
<1> QED
  BY <1>1, <1>2 DEF RunsKept, RunsIn

LEMMA MovesKeepRuns ==
    ASSUME RunsTypeOK, NEW r \in DOMAIN runs,
           \/ Moves(r, "starting", "alive") \/ Moves(r, "ended", "disarmed")
           \/ Moves(r, "settled", "persisted")
           \/ Ends(r, "starting", "SpawnFailed")
           \/ Ends(r, "alive", "Exited") \/ Ends(r, "alive", "Killed")
    PROVE  RunsKept /\ RunsTypeOK'
<1>1. runs[r] \in Run
  BY DEF RunsTypeOK
<1>2. CASE \/ Moves(r, "starting", "alive") \/ Moves(r, "ended", "disarmed")
           \/ Moves(r, "settled", "persisted")
  <2>1. PICK to \in {"alive", "disarmed", "persisted"} :
               /\ runs' = [runs EXCEPT ![r].phase = to]
               /\ \/ to \in {"alive", "disarmed"} /\ runs[r].phase \in {"starting", "ended"}
                  \/ to = "persisted" /\ runs[r].phase = "settled"
    BY <1>2 DEF Moves
  <2> DEFINE run == [runs[r] EXCEPT !.phase = to]
  <2>2. run \in Run /\ run.job = runs[r].job /\ run.gpus = runs[r].gpus /\ run.phase = to
    BY <1>1 DEF Run, Phases, Current, Armed
  <2>3. runs' = [runs EXCEPT ![r] = run]
    BY <2>1
  <2>4. \/ {runs[r].phase, to} \subseteq Current \ {"spec"}
        \/ {runs[r].phase, to} \cap Current = {}
    BY <2>1 DEF Current, Armed
  <2> HIDE DEF run
  <2> QED
    BY <2>2, <2>3, <2>4, MovingRunIsKept
<1>3. CASE \/ Ends(r, "starting", "SpawnFailed")
           \/ Ends(r, "alive", "Exited") \/ Ends(r, "alive", "Killed")
  <2>1. PICK result \in RunResults :
               /\ runs[r].phase \in {"starting", "alive"}
               /\ runs' = [runs EXCEPT ![r].phase = "ended", ![r].result = result]
    BY <1>3 DEF Ends, RunResults
  <2> DEFINE run == [runs[r] EXCEPT !.phase = "ended", !.result = result]
  <2>2. run \in Run /\ run.job = runs[r].job /\ run.gpus = runs[r].gpus /\ run.phase = "ended"
    BY <1>1 DEF Run, Phases, Current
  <2>3. runs' = [runs EXCEPT ![r] = run]
    BY <2>1, <1>1 DEF Run
  <2>4. {runs[r].phase, "ended"} \subseteq Current \ {"spec"}
    BY <2>1 DEF Current, Armed
  <2> HIDE DEF run
  <2> QED
    BY <2>2, <2>3, <2>4, MovingRunIsKept
<1> QED
  BY <1>2, <1>3

\* A task that leaves had already handed over its result.
LEMMA LeavingRunIsKept ==
    ASSUME RunsTypeOK, NEW r \in DOMAIN runs, RunNotifies(r)
    PROVE  RunsKept /\ RunsTypeOK'
<1>1. /\ DOMAIN runs' = DOMAIN runs \ {r}
      /\ \A other \in DOMAIN runs \ {r} : runs'[other] = runs[other]
      /\ runs' = [other \in DOMAIN runs' |-> runs'[other]]
  BY DEF RunNotifies, Restrict
<1>2. runs[r].phase \notin Current
  BY DEF RunNotifies, Current, Armed
<1>3. RunsTypeOK'
  BY <1>1 DEF RunsTypeOK
<1> QED
  BY <1>1, <1>2, <1>3 DEF RunsKept, RunsIn, Current

\* finish_or_restart is called for a job that is running, and ends its run.
LEMMA SettlePreserves ==
    ASSUME DaemonInv, NEW r \in DOMAIN runs, Settle(r), UNCHANGED sched
    PROVE  [Next]_appVars /\ RunsTypeOK' /\ RunPerRunningJob'
<1> DEFINE job == runs[r].job
<1>1. runs[r] \in Run /\ r \in RunsIn(Current) /\ runs[r].phase # "spec"
  BY DEF DaemonInv, RunsTypeOK, Settle, RunsIn, Current
<1>2. job \in Running /\ \A other \in RunsIn(Current) \ {r} : runs[other].job # job
  BY <1>1 DEF DaemonInv, RunPerRunningJob, EachRunHasItsJob, Running
<1>3. FinishOrRestart(job, runs[r].result) /\ runs[r].result \in RunResults
  BY <1>1 DEF Settle, Run
<1>4. Running' = Running \ {job} /\ \A other \in Running \ {job} : jobs'[other] = jobs[other]
  BY <1>2, <1>3, RunningFinished DEF DaemonInv
<1>5. [Next]_appVars
  <2>1. Call
    BY <1>2, <1>3 DEF Call, Running, InState
  <2> QED
    BY <2>1 DEF Settle, Next
<1>6. Spent(runs[r]) \in Run /\ Spent(runs[r]).phase = "settled"
  BY <1>1 DEF Spent, Run, Phases, RunResults
<1>7. /\ DOMAIN runs' = DOMAIN runs
      /\ runs'[r] = Spent(runs[r])
      /\ \A other \in DOMAIN runs \ {r} : runs'[other] = runs[other]
      /\ RunsTypeOK'
  BY <1>6 DEF Settle, DaemonInv, RunsTypeOK
<1>8. RunsIn(Current)' = RunsIn(Current) \ {r} /\ RunsIn({"spec"})' = RunsIn({"spec"})
  BY <1>1, <1>6, <1>7 DEF RunsIn, Current, Armed
<1>9. \A other \in RunsIn(Current) \ {r} : runs'[other] = runs[other]
  BY <1>7 DEF RunsIn
<1>10. EachRunHasItsJob'
  <2> SUFFICES ASSUME NEW own \in RunsIn(Current) \ {r}
               PROVE  /\ runs'[own].job \in Running'
                      /\ runs'[own].gpus = jobs'[runs'[own].job].assigned_gpus
                      /\ \A other \in RunsIn(Current)' \ {own} : runs'[other].job # runs'[own].job
    BY <1>8 DEF EachRunHasItsJob, Running
  <2>1. /\ runs[own].job \in Running \ {job}
        /\ runs[own].gpus = jobs[runs[own].job].assigned_gpus
        /\ \A other \in RunsIn(Current) \ {own} : runs[other].job # runs[own].job
    BY <1>2 DEF DaemonInv, RunPerRunningJob, EachRunHasItsJob, Running
  <2> QED
    BY <1>4, <1>8, <1>9, <2>1
<1>11. EachRunningJobHasARun'
  <2> SUFFICES ASSUME NEW id \in Running \ {job}
               PROVE  \E own \in RunsIn(Current) \ {r} : runs'[own].job = id
    BY <1>4, <1>8 DEF EachRunningJobHasARun, Running
  <2>1. PICK own \in RunsIn(Current) : runs[own].job = id
    BY DEF DaemonInv, RunPerRunningJob, EachRunningJobHasARun, Running
  <2> QED
    BY <1>9, <2>1
<1>12. SchedulerHoldsTheSpec'
  BY <1>8 DEF DaemonInv, RunPerRunningJob, SchedulerHoldsTheSpec
<1> QED
  BY <1>5, <1>7, <1>10, <1>11, <1>12 DEF RunPerRunningJob

LEMMA RunTaskPreserves ==
    ASSUME DaemonInv, NEW r \in DOMAIN runs, RunTask(r) \/ ProcessExits(r)
    PROVE  [Next]_appVars /\ RunsTypeOK' /\ SchedTypeOK' /\ RunPerRunningJob'
<1>1. UNCHANGED sched /\ SchedTypeOK'
  BY DEF RunTask, ProcessExits, DaemonInv, SchedTypeOK
<1>2. CASE Settle(r)
  BY <1>1, <1>2, SettlePreserves
<1>3. CASE Spawn(r) \/ SpawnFails(r) \/ KilledTree(r) \/ Exits(r) \/ Disarm(r) \/ RunPersists(r)
  <2>1. RunsKept /\ RunsTypeOK'
    BY <1>3, MovesKeepRuns DEF DaemonInv, Spawn, SpawnFails, KilledTree, Exits, Disarm, RunPersists
  <2>2. UNCHANGED <<queueVars, gpu_total>> /\ (Save \/ UNCHANGED state_file)
    BY <1>3 DEF Spawn, SpawnFails, KilledTree, Exits, Disarm, RunPersists, SaveFails, appVars
  <2>3. QuietStep
    BY <2>1, <2>2 DEF QuietStep
  <2> QED
    BY <1>1, <2>2, <2>3, QuietStepPreserves
<1>4. CASE RunNotifies(r)
  <2>1. RunsKept /\ RunsTypeOK'
    BY <1>4, LeavingRunIsKept DEF DaemonInv
  <2>2. QuietStep /\ UNCHANGED gpu_total
    BY <1>4, <2>1 DEF QuietStep, RunNotifies, appVars
  <2> QED
    BY <1>1, <2>2, QuietStepPreserves
<1> QED
  BY <1>2, <1>3, <1>4 DEF RunTask, ProcessExits

-----------------------------------------------------------------------------
(* The life of the daemon *)

LEMMA DieAndStartPreserves ==
    ASSUME DaemonInv, DieAndStart
    PROVE  [Next]_appVars /\ RunsTypeOK' /\ SchedTypeOK' /\ RunPerRunningJob'
<1>1. [Next]_appVars
  BY DEF DieAndStart, Next
<1>2. Running' = {}
  BY LoadStopsAll DEF DaemonInv, DieAndStart
<1>3. DOMAIN runs' = {} /\ runs' = [r \in {} |-> 0] /\ sched' = [pc |-> "waiting", run |-> 0]
  BY DEF DieAndStart
<1>4. RunsTypeOK' /\ SchedTypeOK'
  BY <1>3 DEF RunsTypeOK, SchedTypeOK
<1>5. RunsIn(Current)' = {} /\ RunsIn({"spec"})' = {}
  BY <1>3 DEF RunsIn
<1>6. RunPerRunningJob'
  BY <1>2, <1>3, <1>5 DEF RunPerRunningJob, EachRunHasItsJob, EachRunningJobHasARun,
                          SchedulerHoldsTheSpec, Running
<1> QED
  BY <1>1, <1>4, <1>6

LEMMA IdlePreserves ==
    ASSUME DaemonInv, UNCHANGED <<appVars, runs, sched>>
    PROVE  [Next]_appVars /\ RunsTypeOK' /\ SchedTypeOK' /\ RunPerRunningJob'
<1>1. QuietStep
  BY UnchangedRunsKept DEF QuietStep, DaemonInv, RunsTypeOK, appVars
<1> QED
  BY <1>1, QuietStepPreserves DEF appVars

\* Every step of every task is a step of the queue, or none, and keeps one run
\* per running job.
LEMMA DaemonStep ==
    DaemonInv /\ [DaemonNext]_vars => DaemonInv' /\ [Next]_appVars
<1> SUFFICES ASSUME DaemonInv, [DaemonNext]_vars PROVE DaemonInv' /\ [Next]_appVars
  OBVIOUS
<1>1. [Next]_appVars /\ RunsTypeOK' /\ SchedTypeOK' /\ RunPerRunningJob'
  <2>1. CASE \E h \in Handlers : Request(h)
    BY <2>1, RequestIsQuiet, QuietStepPreserves DEF Request
  <2>2. CASE \E h \in Handlers : Chore(h)
    BY <2>2, ChoreIsQuiet, QuietStepPreserves
  <2>3. CASE Scheduler
    BY <2>3, SchedulerPreserves
  <2>4. CASE \E r \in DOMAIN runs : RunTask(r) \/ ProcessExits(r)
    BY <2>4, RunTaskPreserves
  <2>5. CASE DieAndStart
    BY <2>5, DieAndStartPreserves
  <2>6. CASE LeftoverExits \/ UNCHANGED vars
    BY <2>6, IdlePreserves DEF LeftoverExits, vars, taskVars
  <2> QED
    BY <2>1, <2>2, <2>3, <2>4, <2>5, <2>6 DEF DaemonNext
<1>2. TypeOK'
  BY <1>1, TypeOKStep DEF DaemonInv
<1> QED
  BY <1>1, <1>2 DEF DaemonInv

LEMMA DaemonInvInit == DaemonInit => DaemonInv
<1> SUFFICES ASSUME DaemonInit PROVE DaemonInv
  OBVIOUS
<1>1. TypeOK
  BY TypeOKInit DEF DaemonInit
<1>2. RunsTypeOK /\ SchedTypeOK /\ RunsIn(Current) = {} /\ RunsIn({"spec"}) = {}
  BY DEF DaemonInit, RunsTypeOK, SchedTypeOK, RunsIn
<1>3. RunPerRunningJob
  BY <1>2 DEF DaemonInit, Init, RunPerRunningJob, EachRunHasItsJob, EachRunningJobHasARun,
              SchedulerHoldsTheSpec, InState
<1> QED
  BY <1>1, <1>2, <1>3 DEF DaemonInv

LEMMA DaemonInvariant == DaemonSpec => []DaemonInv
BY DaemonInvInit, DaemonStep, PTL DEF DaemonSpec

-----------------------------------------------------------------------------
(* Results *)

\* A job is Running exactly while one run of it is under way, holding the GPUs
\* the queue reserved, for any number of connections, jobs and runs, and
\* whatever fails or dies (daemon.rs 517-543).
THEOREM OneRunPerRunningJob == DaemonSpec => []RunPerRunningJob
<1>1. DaemonInv => RunPerRunningJob
  BY DEF DaemonInv
<1> QED
  BY <1>1, DaemonInvariant, PTL

\* The daemon implements the queue: with its tasks hidden, all it does to the
\* queue and to state.json is what AppState.tla allows (daemon.rs 37-546).
THEOREM DaemonImplementsQueue == DaemonSpec => Spec
<1>1. DaemonInit => Init
  BY DEF DaemonInit
<1> QED
  BY <1>1, DaemonInvariant, DaemonStep, PTL DEF DaemonSpec, Spec

\* In the daemon too, a restart intent belongs to a job that is running
\* (scheduler.rs 363-384 as daemon.rs 533-543 calls it).
THEOREM DaemonIntents == DaemonSpec => []IntentOnlyWhileRunning
BY DaemonImplementsQueue, IntentsCorrect, PTL

\* In the daemon too, running jobs never share a GPU (scheduler.rs 296-330 as
\* daemon.rs 517-522 calls it).
THEOREM DaemonGpus == DaemonSpec => []GpusExclusive
BY DaemonImplementsQueue, GpusNeverShared, PTL

\* In the daemon too, time stamps match the state of each job, in memory and on
\* disk, over saves that fail and deaths (scheduler.rs 105-145, 386-440).
THEOREM DaemonStamps == DaemonSpec => []StampsMatchState
BY DaemonImplementsQueue, StampsCorrect, PTL

\* In the daemon too, a running job holds as many GPUs as it asked for
\* (scheduler.rs 296-330 as daemon.rs 517-522 calls it).
THEOREM DaemonGpuCounts == DaemonSpec => []GpusAsRequested
BY DaemonImplementsQueue, GpusMatchRequests, PTL

\* In the daemon too, CPU jobs start only below the limit in force, whichever
\* connection changes it while the scheduler works (scheduler.rs 217-231, 289-330
\* as daemon.rs 300-311 and 517-522 call them).
THEOREM DaemonCpuLimit == DaemonSpec => CpuLimitHolds
BY DaemonImplementsQueue, CpuLimitRespected, PTL
=============================================================================
