-------------------------- MODULE AppState_proofs --------------------------
(***************************************************************************)
(* What holds of the queue for every pool, every set of requests and any   *)
(* number of jobs.                                                         *)
(***************************************************************************)
EXTENDS Listing, FiniteSetTheorems, Chains, TLAPS

\* The calls, by what they do to the queue: eight kinds of change.
AddCall       == \E gpus \in GpuRequests, priority \in Priorities : Add(gpus, priority)

\* Pending jobs are killed, paused or resumed.
MoveCall ==
    \E ids \in SUBSET InState(Pending), state \in Pending \cup {"Killed"} :
        MoveAll(ids, state, state = "Killed")

FinishCall    == \E id \in InState({"Running"}), result \in RunResults : FinishOrRestart(id, result)
RestartCall   == \E id \in InState({"Running"}) : RequestRestart(id)
PriorityCall  == \E id \in InState({"Queued"}), priority \in Priorities : SetPriority(id, priority)
LimitCall     == \E limit \in CpuLimits : SetCpuLimit(limit)

\* Jobs that do not run are pruned.
PruneCall ==
    /\ \E keep \in SUBSET DOMAIN jobs :
          InState({"Running"}) \subseteq keep /\ jobs' = Restrict(jobs, keep)
    /\ UNCHANGED <<next_id, cpu_limit, restart_requested>>

LEMMA RerunIsAdd ==
    ASSUME QueueTypeOK, \E id \in DOMAIN jobs, priority \in Priorities : Rerun(id, priority)
    PROVE  AddCall
BY DEF AddCall, Rerun, QueueTypeOK, IsQueue, Job

LEMMA PendingMoves ==
    ASSUME \/ CancelAll \/ PauseAllQueued \/ ResumeAllPaused
           \/ \E id \in DOMAIN jobs : DropPending(id) \/ PauseJob(id) \/ ResumeJob(id)
    PROVE  MoveCall
<1>1. CASE CancelAll \/ PauseAllQueued \/ ResumeAllPaused
  BY <1>1 DEF MoveCall, CancelAll, PauseAllQueued, ResumeAllPaused, InState, Pending
<1>2. CASE \E id \in DOMAIN jobs : DropPending(id) \/ PauseJob(id) \/ ResumeJob(id)
  BY <1>2 DEF MoveCall, DropPending, PauseJob, ResumeJob, InState, Pending
<1> QED
  BY <1>1, <1>2

LEMMA Prunings ==
    ASSUME ClearFinished \/ \E id \in DOMAIN jobs : Remove(id)
    PROVE  PruneCall
<1>1. CASE ClearFinished
  <2> DEFINE keep == DOMAIN jobs \ InState(Terminal)
  <2>1. keep \in SUBSET DOMAIN jobs /\ InState({"Running"}) \subseteq keep
    BY DEF InState, Terminal
  <2> QED
    BY <1>1, <2>1 DEF PruneCall, ClearFinished
<1>2. CASE \E id \in DOMAIN jobs : Remove(id)
  <2>1. PICK id \in DOMAIN jobs : Remove(id)
    BY <1>2
  <2> DEFINE keep == DOMAIN jobs \ {id}
  <2>2. keep \in SUBSET DOMAIN jobs /\ InState({"Running"}) \subseteq keep
    BY <2>1 DEF Remove, InState
  <2> QED
    BY <2>1, <2>2 DEF PruneCall, Remove
<1> QED
  BY <1>1, <1>2

\* The calls that leave the running jobs alone.
QuietCall == AddCall \/ MoveCall \/ RestartCall \/ PriorityCall \/ LimitCall \/ PruneCall

LEMMA CallKinds ==
    ASSUME QueueTypeOK, Call
    PROVE  QuietCall \/ TakeNextRunnable \/ FinishCall
<1> USE DEF QuietCall
<1>1. CASE \E gpus \in GpuRequests, priority \in Priorities : Add(gpus, priority)
  BY <1>1 DEF AddCall
<1>2. CASE \E id \in DOMAIN jobs, priority \in Priorities : Rerun(id, priority)
  BY <1>2, RerunIsAdd
<1>3. CASE \/ CancelAll \/ PauseAllQueued \/ ResumeAllPaused
           \/ \E id \in DOMAIN jobs : DropPending(id) \/ PauseJob(id) \/ ResumeJob(id)
  BY <1>3, PendingMoves
<1>4. CASE ClearFinished \/ \E id \in DOMAIN jobs : Remove(id)
  BY <1>4, Prunings
<1>5. CASE \E limit \in CpuLimits : SetCpuLimit(limit)
  BY <1>5 DEF LimitCall
<1>6. CASE TakeNextRunnable
  BY <1>6
<1>7. CASE \E id \in DOMAIN jobs, result \in RunResults :
              id \in InState({"Running"}) /\ FinishOrRestart(id, result)
  BY <1>7 DEF FinishCall
<1>8. CASE \E id \in DOMAIN jobs : RequestRestart(id)
  BY <1>8 DEF RestartCall, RequestRestart
<1>9. CASE \E id \in DOMAIN jobs, priority \in Priorities : SetPriority(id, priority)
  BY <1>9 DEF PriorityCall, SetPriority
<1> QED
  BY <1>1, <1>2, <1>3, <1>4, <1>5, <1>6, <1>7, <1>8, <1>9 DEF Call

-----------------------------------------------------------------------------
(* Types *)

LEMMA FreeGpusInPool == TypeOK => FreeGpus \subseteq Nat /\ FreeGpus \subseteq 0 .. gpu_total - 1
BY ConstantsAssumption DEF TypeOK, FreeGpus

LEMMA CallTypes ==
    ASSUME TypeOK, Call
    PROVE  QueueTypeOK'
<1> USE DEF TypeOK, QueueTypeOK, IsQueue
<1>0. next_id \in Nat
  BY ConstantsAssumption
<1>1. CASE AddCall
  <2>1. PICK gpus \in GpuRequests, priority \in Priorities : Add(gpus, priority)
    BY <1>1 DEF AddCall
  <2>2. next_id' = next_id + 1 /\ next_id' \in 0 .. MaxJobs
    BY <1>0, <2>1, ConstantsAssumption DEF Add
  <2>3. DOMAIN jobs' = DOMAIN jobs \cup {next_id}
    BY <2>1 DEF Add
  <2>4. DOMAIN jobs' \subseteq 0 .. next_id' - 1
    BY <1>0, <2>2, <2>3
  <2>5. jobs' \in [DOMAIN jobs' -> Job]
    BY <2>1, <2>3 DEF Add, Job, JobState, Pending
  <2>6. restart_requested' \subseteq 0 .. next_id' - 1
    BY <1>0, <2>1, <2>2 DEF Add
  <2>7. cpu_limit' \in CpuLimits
    BY <2>1 DEF Add
  <2> QED
    BY <2>2, <2>4, <2>5, <2>6, <2>7
<1>2. CASE MoveCall
  <2>1. PICK ids \in SUBSET InState(Pending), state \in Pending \cup {"Killed"} :
               MoveAll(ids, state, state = "Killed")
    BY <1>2 DEF MoveCall
  <2>2. state \in JobState /\ (state = "Killed") \in BOOLEAN
    BY DEF JobState, Terminal
  <2>3. DOMAIN jobs' = DOMAIN jobs
    BY <2>1 DEF MoveAll
  <2>4. ASSUME NEW id \in DOMAIN jobs PROVE jobs'[id] \in Job
    BY <2>1, <2>2 DEF MoveAll, Job
  <2> QED
    BY <2>1, <2>3, <2>4 DEF MoveAll
<1>3. CASE TakeNextRunnable
  <2>1. Lowest(FreeGpus, jobs[NextRunnable].gpus) \in SUBSET Nat
    BY FreeGpusInPool DEF Lowest
  <2>2. DOMAIN jobs' = DOMAIN jobs
    BY <1>3 DEF TakeNextRunnable
  <2>3. ASSUME NEW id \in DOMAIN jobs PROVE jobs'[id] \in Job
    BY <1>3, <2>1 DEF TakeNextRunnable, Job, JobState
  <2> QED
    BY <1>3, <2>2, <2>3 DEF TakeNextRunnable
<1>4. CASE FinishCall
  <2>1. PICK id \in InState({"Running"}), result \in RunResults : FinishOrRestart(id, result)
    BY <1>4 DEF FinishCall
  <2>2. FinishState(result) \in JobState
    BY DEF FinishState, RunResults, JobState, Terminal
  <2>3. jobs' \in [DOMAIN jobs -> Job]
    <3>1. CASE id \in restart_requested
      BY <2>1, <3>1 DEF FinishOrRestart, Requeue, Job, JobState, Pending
    <3>2. CASE id \notin restart_requested
      BY <2>1, <2>2, <3>2 DEF FinishOrRestart, Finish, Job
    <3> QED
      BY <3>1, <3>2
  <2> QED
    BY <2>1, <2>3 DEF FinishOrRestart
<1>5. CASE RestartCall
  BY <1>5 DEF RestartCall, RequestRestart, InState
<1>6. CASE PriorityCall
  <2>1. PICK id \in InState({"Queued"}), priority \in Priorities : SetPriority(id, priority)
    BY <1>6 DEF PriorityCall
  <2>2. DOMAIN jobs' = DOMAIN jobs
    BY <2>1 DEF SetPriority
  <2>3. ASSUME NEW other \in DOMAIN jobs PROVE jobs'[other] \in Job
    BY <2>1 DEF SetPriority, Job
  <2> QED
    BY <2>1, <2>2, <2>3 DEF SetPriority
<1>7. CASE LimitCall
  BY <1>7 DEF LimitCall, SetCpuLimit
<1>8. CASE PruneCall
  <2>1. PICK keep \in SUBSET DOMAIN jobs : jobs' = Restrict(jobs, keep)
    BY <1>8 DEF PruneCall
  <2>2. DOMAIN jobs' = keep /\ \A id \in keep : jobs'[id] = jobs[id]
    BY <2>1 DEF Restrict
  <2>3. jobs' \in [DOMAIN jobs' -> Job]
    BY <2>1, <2>2 DEF Restrict
  <2> QED
    BY <1>8, <2>2, <2>3 DEF PruneCall
<1> QED
  BY <1>1, <1>2, <1>3, <1>4, <1>5, <1>6, <1>7, <1>8, CallKinds DEF QuietCall

LEMMA LoadTypes ==
    ASSUME TypeOK, Load
    PROVE  QueueTypeOK'
<1>1. DOMAIN jobs' = DOMAIN state_file.jobs
  BY DEF Load
<1>2. ASSUME NEW id \in DOMAIN jobs' PROVE jobs'[id] \in Job
  <2>1. state_file.jobs[id] \in Job
    BY <1>1 DEF TypeOK, FileTypeOK, IsQueue
  <2> QED
    BY <1>1, <2>1 DEF Load, Reconcile, Job, JobState, Terminal
<1> QED
  BY <1>1, <1>2 DEF TypeOK, FileTypeOK, QueueTypeOK, IsQueue, Load

LEMMA SaveTypes ==
    ASSUME QueueTypeOK', Save
    PROVE  FileTypeOK'
BY DEF QueueTypeOK, FileTypeOK, IsQueue, Save, Snapshot

LEMMA TypeOKInit == Init => TypeOK
<1> SUFFICES ASSUME Init PROVE TypeOK
  OBVIOUS
<1>1. QueueTypeOK
  BY ConstantsAssumption DEF Init, QueueTypeOK, IsQueue
<1>2. FileTypeOK
  BY <1>1 DEF Init, QueueTypeOK, FileTypeOK, IsQueue, Snapshot
<1> QED
  BY <1>1, <1>2 DEF Init, TypeOK

LEMMA TypeOKStep == TypeOK /\ [Next]_appVars => TypeOK'
<1> SUFFICES ASSUME TypeOK, [Next]_appVars PROVE TypeOK'
  OBVIOUS
<1>1. CASE Call /\ (Save \/ UNCHANGED state_file) /\ UNCHANGED gpu_total
  <2>1. QueueTypeOK'
    BY <1>1, CallTypes
  <2>2. FileTypeOK'
    BY <1>1, <2>1, SaveTypes DEF TypeOK, FileTypeOK, IsQueue
  <2> QED
    BY <1>1, <2>1, <2>2 DEF TypeOK
<1>2. CASE UNCHANGED queueVars /\ Save /\ UNCHANGED gpu_total
  <2>1. QueueTypeOK'
    BY <1>2 DEF TypeOK, QueueTypeOK, IsQueue, queueVars
  <2> QED
    BY <1>2, <2>1, SaveTypes DEF TypeOK
<1>3. CASE Load /\ Save
  BY <1>3, LoadTypes, SaveTypes DEF TypeOK, Load
<1>4. CASE UNCHANGED appVars
  BY <1>4 DEF appVars, queueVars, TypeOK, QueueTypeOK, FileTypeOK, IsQueue
<1> QED
  BY <1>1, <1>2, <1>3, <1>4 DEF Next

\* Memory and file hold well-formed queues, and no id is handed out twice while
\* its job is there.
THEOREM TypesCorrect == Spec => []TypeOK
BY TypeOKInit, TypeOKStep, PTL DEF Spec

-----------------------------------------------------------------------------
(* The choice of the next job *)

\* Negation leaves the i32 range only at its lowest value, where it wraps.
LEMMA I32Range == I32Min \in Int /\ I32Max \in Int /\ I32Max = 0 - (I32Min + 1)
BY SMT DEF I32Min, I32Max

LEMMA Neg32Range ==
    ASSUME NEW p \in I32Min .. I32Max
    PROVE  /\ Neg32(p) \in I32Min .. I32Max
           /\ p # I32Min => Neg32(p) = 0 - p
BY I32Range DEF Neg32

\* min_by_key has a minimum to return whenever something can run.
LEMMA NextRunnableIsFirst ==
    ASSUME TypeOK, Runnable # {}
    PROVE  /\ NextRunnable \in Runnable
           /\ \A other \in Runnable \ {NextRunnable} : Before(NextRunnable, other)
<1> DEFINE Rank(id) == Neg32(jobs[id].priority) - I32Min
<1>1. \A id \in Runnable : id \in Nat /\ Neg32(jobs[id].priority) \in Int /\ Rank(id) \in Nat
  <2> SUFFICES ASSUME NEW id \in Runnable
               PROVE  id \in Nat /\ Neg32(jobs[id].priority) \in Int /\ Rank(id) \in Nat
    OBVIOUS
  <2>1. id \in Nat /\ jobs[id].priority \in I32Min .. I32Max
    BY ConstantsAssumption DEF Runnable, InState, TypeOK, QueueTypeOK, IsQueue, Job
  <2> QED
    BY <2>1, Neg32Range, I32Range
<1>2. PICK rank \in {Rank(id) : id \in Runnable} : \A r \in {Rank(id) : id \in Runnable} : rank <= r
  <2>1. {Rank(id) : id \in Runnable} \in SUBSET Nat /\ {Rank(id) : id \in Runnable} # {}
    BY <1>1
  <2> HIDE DEF Rank
  <2> QED
    BY <2>1, LeastNatural
<1>3. PICK first \in {id \in Runnable : Rank(id) = rank} :
              \A id \in {other \in Runnable : Rank(other) = rank} : first <= id
  <2>1. /\ {id \in Runnable : Rank(id) = rank} \in SUBSET Nat
        /\ {id \in Runnable : Rank(id) = rank} # {}
    BY <1>1, <1>2
  <2> HIDE DEF Rank
  <2> QED
    BY <2>1, LeastNatural
<1>4. \A other \in Runnable \ {first} : Before(first, other)
  <2> SUFFICES ASSUME NEW other \in Runnable \ {first} PROVE Before(first, other)
    OBVIOUS
  <2>1. Rank(first) <= Rank(other)
    BY <1>2, <1>3
  <2>2. Rank(first) = Rank(other) => first < other
    BY <1>1, <1>3
  <2> QED
    BY <1>1, <1>3, <2>1, <2>2, I32Range DEF Before
<1> QED
  BY <1>3, <1>4 DEF NextRunnable

\* A start is a choice of the scheduler.
LEMMA StartIsTake ==
    ASSUME TypeOK, [Next]_appVars, NEW id \in DOMAIN jobs, Starts(id)
    PROVE  TakeNextRunnable /\ id = NextRunnable
<1>1. jobs[id].state = "Queued" /\ id \in DOMAIN jobs' /\ jobs'[id].state = "Running"
  BY DEF Starts, InState
<1>2. jobs[id] \in Job
  BY DEF TypeOK, QueueTypeOK, IsQueue
<1>3. Call
  <2>1. CASE Load /\ Save
    <3>1. DOMAIN jobs' = DOMAIN state_file.jobs /\ jobs'[id] = Reconcile(state_file.jobs[id])
      BY <1>1, <2>1 DEF Load
    <3>2. state_file.jobs[id] \in Job
      BY <1>1, <3>1 DEF TypeOK, FileTypeOK, IsQueue
    <3> QED
      BY <1>1, <3>1, <3>2 DEF Reconcile, Job
  <2>2. CASE UNCHANGED queueVars \/ UNCHANGED appVars
    BY <1>1, <2>2 DEF queueVars, appVars
  <2> QED
    BY <2>1, <2>2 DEF Next
<1>4. ~AddCall /\ ~MoveCall
  <2>1. ~AddCall
    BY <1>1 DEF AddCall, Add
  <2>2. ~MoveCall
    <3> SUFFICES ASSUME NEW ids \in SUBSET InState(Pending), NEW state \in Pending \cup {"Killed"},
                        NEW stamp \in BOOLEAN, MoveAll(ids, state, stamp)
                 PROVE  FALSE
      BY DEF MoveCall
    <3>1. jobs'[id].state = state \/ jobs'[id] = jobs[id]
      BY <1>1, <1>2 DEF MoveAll, Job
    <3> QED
      BY <1>1, <3>1 DEF Pending
  <2> QED
    BY <2>1, <2>2
<1>5. ~FinishCall
  <2> SUFFICES ASSUME NEW other \in InState({"Running"}), NEW result \in RunResults,
                      FinishOrRestart(other, result)
               PROVE  FALSE
    BY DEF FinishCall
  <2> QED
    BY <1>1, <1>2 DEF FinishOrRestart, Requeue, Finish, FinishState, RunResults, InState, Job
<1>6. ~RestartCall /\ ~LimitCall
  BY <1>1 DEF RestartCall, RequestRestart, LimitCall, SetCpuLimit
<1>7. ~PriorityCall
  BY <1>1, <1>2 DEF PriorityCall, SetPriority, Job
<1>8. ~PruneCall
  BY <1>1 DEF PruneCall, Restrict
<1>9. TakeNextRunnable
  BY <1>3, <1>4, <1>5, <1>6, <1>7, <1>8, CallKinds DEF TypeOK, QuietCall
<1> QED
  BY <1>1, <1>2, <1>9 DEF TakeNextRunnable, Job

LEMMA BestStarts ==
    ASSUME I32Min \notin Priorities, TypeOK, [Next]_appVars, NEW id \in DOMAIN jobs, Starts(id)
    PROVE  id \in Runnable /\ \A other \in Runnable \ {id} : Outranks(id, other)
<1>1. TakeNextRunnable /\ id = NextRunnable
  BY StartIsTake
<1>2. id \in Runnable /\ \A other \in Runnable \ {id} : Before(id, other)
  BY <1>1, NextRunnableIsFirst DEF TakeNextRunnable
<1>3. ASSUME NEW other \in Runnable
      PROVE  /\ jobs[other].priority \in Int
             /\ Neg32(jobs[other].priority) = 0 - jobs[other].priority
  <2>1. jobs[other].priority \in I32Min .. I32Max /\ jobs[other].priority # I32Min
    BY ConstantsAssumption DEF Runnable, InState, TypeOK, QueueTypeOK, IsQueue, Job
  <2> QED
    BY <2>1, Neg32Range, I32Range
<1> QED
  BY <1>2, <1>3 DEF Before, Outranks

\* Unless a priority is the lowest i32, the scheduler starts the job of highest
\* priority that fits, the oldest of its rank.
THEOREM HighestPriorityStarts ==
    ASSUME I32Min \notin Priorities
    PROVE  Spec => StartsHighestPriority
<1> DEFINE Best == \A id \in DOMAIN jobs : Starts(id) =>
                     id \in Runnable /\ \A other \in Runnable \ {id} : Outranks(id, other)
<1>1. TypeOK /\ [Next]_appVars => [Best]_appVars
  BY BestStarts
<1>2. Spec => [][Best]_appVars
  BY <1>1, TypesCorrect, PTL DEF Spec
<1> QED
  BY <1>2 DEF StartsHighestPriority

-----------------------------------------------------------------------------
(* Running jobs *)

Running == InState({"Running"})

LEMMA RunningUntouched ==
    ASSUME TypeOK, QuietCall
    PROVE  Running' = Running /\ \A id \in Running : jobs'[id] = jobs[id]
<1> USE DEF Running, InState
<1>0. \A id \in DOMAIN jobs : jobs[id] \in Job /\ id \in 0 .. next_id - 1 /\ next_id \in Nat
  BY ConstantsAssumption DEF TypeOK, QueueTypeOK, IsQueue
<1>1. CASE AddCall
  <2>1. PICK gpus \in GpuRequests, priority \in Priorities : Add(gpus, priority)
    BY <1>1 DEF AddCall
  <2>2. next_id \notin DOMAIN jobs
    BY <1>0
  <2> QED
    BY <2>1, <2>2 DEF Add
<1>2. CASE MoveCall
  <2>1. PICK ids \in SUBSET InState(Pending), state \in Pending \cup {"Killed"} :
               MoveAll(ids, state, state = "Killed")
    BY <1>2 DEF MoveCall
  <2>2. DOMAIN jobs' = DOMAIN jobs /\ \A id \in DOMAIN jobs : id \notin ids => jobs'[id] = jobs[id]
    BY <2>1 DEF MoveAll
  <2>3. \A id \in ids : jobs[id].state # "Running"
    BY <2>1 DEF Pending
  <2>4. \A id \in ids : jobs'[id].state = state
    BY <1>0, <2>1 DEF MoveAll, Job
  <2>5. state # "Running"
    BY DEF Pending
  <2> QED
    BY <2>2, <2>3, <2>4, <2>5
<1>3. CASE RestartCall \/ LimitCall
  BY <1>3 DEF RestartCall, RequestRestart, LimitCall, SetCpuLimit
<1>4. CASE PriorityCall
  <2>1. PICK id \in InState({"Queued"}), priority \in Priorities : SetPriority(id, priority)
    BY <1>4 DEF PriorityCall
  <2>2. DOMAIN jobs' = DOMAIN jobs /\ \A other \in DOMAIN jobs : other # id => jobs'[other] = jobs[other]
    BY <2>1 DEF SetPriority
  <2>3. jobs[id].state = "Queued" /\ jobs'[id].state = "Queued"
    BY <1>0, <2>1 DEF SetPriority, Job
  <2> QED
    BY <2>2, <2>3
<1>5. CASE PruneCall
  BY <1>5 DEF PruneCall, Restrict
<1> QED
  BY <1>1, <1>2, <1>3, <1>4, <1>5 DEF QuietCall

\* The run of one job ends; the other running jobs are left alone.
LEMMA RunningFinished ==
    ASSUME TypeOK, NEW id \in Running, NEW result \in RunResults, FinishOrRestart(id, result)
    PROVE  Running' = Running \ {id} /\ \A other \in Running \ {id} : jobs'[other] = jobs[other]
<1> USE DEF Running, InState
<1>1. DOMAIN jobs' = DOMAIN jobs
  BY DEF FinishOrRestart, Finish, Requeue
<1>2. \A other \in DOMAIN jobs \ {id} : jobs'[other] = jobs[other]
  BY DEF FinishOrRestart, Finish, Requeue
<1>3. jobs'[id].state # "Running"
  <2>1. jobs[id] \in Job
    BY DEF TypeOK, QueueTypeOK, IsQueue
  <2> QED
    BY <2>1 DEF FinishOrRestart, Finish, Requeue, FinishState, RunResults, Job
<1> QED
  BY <1>1, <1>2, <1>3

\* The scheduler adds one running job, on GPUs that were free.
LEMMA RunningTaken ==
    ASSUME TypeOK, TakeNextRunnable
    PROVE  /\ NextRunnable \in DOMAIN jobs \ Running
           /\ Running' = Running \cup {NextRunnable}
           /\ \A other \in Running : jobs'[other] = jobs[other]
           /\ jobs'[NextRunnable].assigned_gpus \subseteq FreeGpus
<1>1. NextRunnable \in InState({"Queued"})
  BY NextRunnableIsFirst DEF TakeNextRunnable, Runnable
<1>2. jobs[NextRunnable] \in Job /\ jobs[NextRunnable].state = "Queued" /\ NextRunnable \in DOMAIN jobs
  BY <1>1 DEF TypeOK, QueueTypeOK, IsQueue, InState
<1>3. DOMAIN jobs' = DOMAIN jobs /\ \A other \in DOMAIN jobs \ {NextRunnable} : jobs'[other] = jobs[other]
  BY DEF TakeNextRunnable
<1>4. /\ jobs'[NextRunnable].state = "Running"
      /\ jobs'[NextRunnable].assigned_gpus = Lowest(FreeGpus, jobs[NextRunnable].gpus)
  BY <1>2 DEF TakeNextRunnable, Job
<1> QED
  BY <1>2, <1>3, <1>4 DEF Running, InState, Lowest

LEMMA LoadStopsAll == ASSUME TypeOK, Load PROVE Running' = {}
<1> SUFFICES ASSUME NEW id \in DOMAIN jobs' PROVE jobs'[id].state # "Running"
  BY DEF Running, InState
<1>1. state_file.jobs[id] \in Job /\ jobs'[id] = Reconcile(state_file.jobs[id])
  BY DEF Load, TypeOK, FileTypeOK, IsQueue
<1> QED
  BY <1>1 DEF Reconcile, Job

-----------------------------------------------------------------------------
(* Restart intents *)

LEMMA IntentStep == TypeOK /\ IntentOnlyWhileRunning /\ [Next]_appVars => IntentOnlyWhileRunning'
<1> SUFFICES ASSUME TypeOK, restart_requested \subseteq Running, [Next]_appVars
             PROVE  restart_requested' \subseteq Running'
  BY DEF IntentOnlyWhileRunning, Running, InState
<1>1. CASE Call
  <2>1. CASE AddCall \/ MoveCall \/ PriorityCall \/ LimitCall \/ PruneCall
    <3>1. restart_requested' = restart_requested
      BY <2>1 DEF AddCall, Add, MoveCall, MoveAll, PriorityCall, SetPriority, LimitCall,
                  SetCpuLimit, PruneCall
    <3> QED
      BY <2>1, <3>1, RunningUntouched DEF QuietCall
  <2>2. CASE RestartCall
    <3>1. PICK id \in Running : restart_requested' = restart_requested \cup {id}
      BY <2>2 DEF RestartCall, RequestRestart, Running
    <3> QED
      BY <2>2, <3>1, RunningUntouched DEF QuietCall
  <2>3. CASE FinishCall
    <3>1. PICK id \in Running, result \in RunResults : FinishOrRestart(id, result)
      BY <2>3 DEF FinishCall, Running
    <3> QED
      BY <3>1, RunningFinished DEF FinishOrRestart
  <2>4. CASE TakeNextRunnable
    BY <2>4, RunningTaken DEF TakeNextRunnable
  <2> QED
    BY <1>1, <2>1, <2>2, <2>3, <2>4, CallKinds DEF TypeOK, QuietCall
<1>2. CASE Load
  BY <1>2 DEF Load
<1>3. CASE UNCHANGED queueVars \/ UNCHANGED appVars
  BY <1>3 DEF queueVars, appVars, Running, InState
<1> QED
  BY <1>1, <1>2, <1>3 DEF Next

\* No restart intent outlives the run it was recorded for.
THEOREM IntentsCorrect == Spec => []IntentOnlyWhileRunning
<1>1. Init => IntentOnlyWhileRunning
  BY DEF Init, IntentOnlyWhileRunning
<1> QED
  BY <1>1, IntentStep, TypesCorrect, PTL DEF Spec

-----------------------------------------------------------------------------
(* GPUs *)

LEMMA GpusStep == TypeOK /\ GpusExclusive /\ [Next]_appVars => GpusExclusive'
<1> DEFINE Held(id) == jobs[id].assigned_gpus
<1> SUFFICES ASSUME TypeOK, GpusExclusive, [Next]_appVars
             PROVE  \A id \in Running' :
                       /\ Held(id)' \subseteq 0 .. gpu_total' - 1
                       /\ \A other \in Running' \ {id} : Held(id)' \cap Held(other)' = {}
  BY DEF GpusExclusive, Running, InState
<1>0. \A id \in Running : /\ Held(id) \subseteq 0 .. gpu_total - 1
                          /\ \A other \in Running \ {id} : Held(id) \cap Held(other) = {}
  BY DEF GpusExclusive, Running
<1>1. CASE Call /\ UNCHANGED gpu_total
  <2>1. CASE QuietCall
    BY <1>0, <1>1, <2>1, RunningUntouched
  <2>2. CASE FinishCall
    <3>1. PICK id \in Running, result \in RunResults : FinishOrRestart(id, result)
      BY <2>2 DEF FinishCall, Running
    <3> QED
      BY <1>0, <1>1, <3>1, RunningFinished
  <2>3. CASE TakeNextRunnable
    <3>1. jobs'[NextRunnable].assigned_gpus \subseteq FreeGpus
      BY <2>3, RunningTaken
    <3>2. /\ FreeGpus \subseteq 0 .. gpu_total - 1
          /\ \A id \in Running : Held(id) \cap FreeGpus = {}
      BY FreeGpusInPool DEF FreeGpus, Running
    <3> QED
      BY <1>0, <1>1, <2>3, <3>1, <3>2, RunningTaken
  <2> QED
    BY <1>1, <2>1, <2>2, <2>3, CallKinds DEF TypeOK
<1>2. CASE Load
  BY <1>2, LoadStopsAll
<1>3. CASE UNCHANGED <<queueVars, gpu_total>>
  BY <1>0, <1>3 DEF queueVars, Running, InState
<1> QED
  BY <1>1, <1>2, <1>3 DEF Next, appVars

\* No GPU is ever held by two running jobs, whatever the pool and the requests.
THEOREM GpusNeverShared == Spec => []GpusExclusive
<1>1. Init => GpusExclusive
  BY DEF Init, GpusExclusive, InState
<1> QED
  BY <1>1, GpusStep, TypesCorrect, PTL DEF Spec

-----------------------------------------------------------------------------
(* Time stamps *)

LEMMA StampsCall ==
    ASSUME TypeOK, \A id \in DOMAIN jobs : StampsMatch(jobs[id]), Call
    PROVE  \A id \in DOMAIN jobs' : StampsMatch(jobs'[id])
<1> USE DEF StampsMatch, Pending, Terminal
<1>0. \A id \in DOMAIN jobs : jobs[id] \in Job
  BY DEF TypeOK, QueueTypeOK, IsQueue
<1> SUFFICES ASSUME NEW id \in DOMAIN jobs' PROVE StampsMatch(jobs'[id])
  OBVIOUS
<1>1. CASE AddCall
  BY <1>1 DEF AddCall, Add
<1>2. CASE MoveCall
  <2>1. PICK ids \in SUBSET InState(Pending), state \in Pending \cup {"Killed"} :
               MoveAll(ids, state, state = "Killed")
    BY <1>2 DEF MoveCall
  <2>2. id \in DOMAIN jobs /\ jobs[id] \in Job
    BY <1>0, <2>1 DEF MoveAll
  <2>3. CASE id \in ids
    <3>1. /\ jobs'[id].state = state
          /\ jobs'[id].started_at = jobs[id].started_at
          /\ jobs'[id].finished_at = (jobs[id].finished_at \/ state = "Killed")
      BY <2>1, <2>2, <2>3 DEF MoveAll, Job
    <3>2. ~jobs[id].started_at /\ ~jobs[id].finished_at
      BY <2>2, <2>3 DEF InState
    <3> QED
      BY <3>1, <3>2
  <2>4. CASE id \notin ids
    BY <2>1, <2>2, <2>4 DEF MoveAll
  <2> QED
    BY <2>3, <2>4
<1>3. CASE TakeNextRunnable
  <2>1. NextRunnable \in InState({"Queued"})
    BY <1>3, NextRunnableIsFirst DEF TakeNextRunnable, Runnable
  <2>2. id \in DOMAIN jobs /\ jobs[id] \in Job /\ StampsMatch(jobs[id])
    BY <1>0, <1>3 DEF TakeNextRunnable
  <2>3. CASE id = NextRunnable
    <3>1. /\ jobs'[id].state = "Running"
          /\ jobs'[id].started_at
          /\ jobs'[id].finished_at = jobs[id].finished_at
      BY <1>3, <2>2, <2>3 DEF TakeNextRunnable, Job
    <3>2. ~jobs[id].finished_at
      BY <2>1, <2>2, <2>3 DEF InState
    <3> QED
      BY <3>1, <3>2
  <2>4. CASE id # NextRunnable
    BY <1>3, <2>2, <2>4 DEF TakeNextRunnable
  <2> QED
    BY <2>3, <2>4
<1>4. CASE FinishCall
  <2>1. PICK run \in InState({"Running"}), result \in RunResults : FinishOrRestart(run, result)
    BY <1>4 DEF FinishCall
  <2>2. id \in DOMAIN jobs /\ jobs[id] \in Job /\ StampsMatch(jobs[id])
    BY <1>0, <2>1 DEF FinishOrRestart, Requeue, Finish
  <2>3. CASE id # run
    BY <2>1, <2>2, <2>3 DEF FinishOrRestart, Requeue, Finish
  <2>4. CASE id = run /\ run \in restart_requested
    <3>1. jobs' = [jobs EXCEPT ![id].state = "Queued", ![id].started_at = FALSE,
                               ![id].finished_at = FALSE, ![id].assigned_gpus = {}]
      BY <2>1, <2>4 DEF FinishOrRestart, Requeue
    <3>2. jobs'[id].state = "Queued" /\ ~jobs'[id].started_at /\ ~jobs'[id].finished_at
      BY <2>2, <3>1 DEF Job
    <3> QED
      BY <3>2
  <2>5. CASE id = run /\ run \notin restart_requested
    <3>1. /\ jobs'[id].state \in Terminal
          /\ jobs'[id].started_at = jobs[id].started_at
          /\ jobs'[id].finished_at
      <4>1. jobs' = [jobs EXCEPT ![id].state = FinishState(result), ![id].finished_at = TRUE,
                                 ![id].assigned_gpus = {}]
        BY <2>1, <2>5 DEF FinishOrRestart, Finish
      <4>2. FinishState(result) \in Terminal
        BY <2>1 DEF FinishState, RunResults
      <4> QED
        BY <2>2, <4>1, <4>2 DEF Job
    <3>2. jobs[id].started_at
      BY <2>2, <2>5 DEF InState
    <3> QED
      BY <3>1, <3>2
  <2> QED
    BY <2>3, <2>4, <2>5
<1>5. CASE RestartCall \/ LimitCall
  BY <1>5 DEF RestartCall, RequestRestart, LimitCall, SetCpuLimit
<1>6. CASE PriorityCall
  <2>1. PICK other \in InState({"Queued"}), priority \in Priorities : SetPriority(other, priority)
    BY <1>6 DEF PriorityCall
  <2>2. id \in DOMAIN jobs /\ jobs[id] \in Job /\ StampsMatch(jobs[id])
    BY <1>0, <2>1 DEF SetPriority
  <2>3. /\ jobs'[id].state = jobs[id].state
        /\ jobs'[id].started_at = jobs[id].started_at
        /\ jobs'[id].finished_at = jobs[id].finished_at
    BY <2>1, <2>2 DEF SetPriority, Job
  <2> QED
    BY <2>2, <2>3
<1>7. CASE PruneCall
  BY <1>7 DEF PruneCall, Restrict
<1> QED
  BY <1>1, <1>2, <1>3, <1>4, <1>5, <1>6, <1>7, CallKinds DEF TypeOK, QuietCall

LEMMA StampsLoad ==
    ASSUME TypeOK, StampsMatchState, Load
    PROVE  \A id \in DOMAIN jobs' : StampsMatch(jobs'[id])
<1> SUFFICES ASSUME NEW id \in DOMAIN jobs' PROVE StampsMatch(jobs'[id])
  OBVIOUS
<1>1. /\ jobs'[id] = Reconcile(state_file.jobs[id])
      /\ state_file.jobs[id] \in Job
      /\ StampsMatch(state_file.jobs[id])
  BY DEF Load, TypeOK, FileTypeOK, IsQueue, StampsMatchState
<1> QED
  BY <1>1 DEF Reconcile, StampsMatch, Job, Pending, Terminal

LEMMA StampsStep == TypeOK /\ StampsMatchState /\ [Next]_appVars => StampsMatchState'
<1> SUFFICES ASSUME TypeOK, StampsMatchState, [Next]_appVars PROVE StampsMatchState'
  OBVIOUS
<1>1. \A id \in DOMAIN jobs' : StampsMatch(jobs'[id])
  <2>1. CASE UNCHANGED queueVars \/ UNCHANGED appVars
    BY <2>1 DEF queueVars, appVars, StampsMatchState
  <2> QED
    BY <2>1, StampsCall, StampsLoad DEF Next, StampsMatchState
<1>2. state_file' = state_file \/ Save
  BY DEF Next, appVars
<1> QED
  BY <1>1, <1>2 DEF StampsMatchState, Save, Snapshot

\* The stamps of every job, in memory and on disk, agree with its state.
THEOREM StampsCorrect == Spec => []StampsMatchState
<1>1. Init => StampsMatchState
  BY DEF Init, StampsMatchState, Snapshot
<1> QED
  BY <1>1, StampsStep, TypesCorrect, PTL DEF Spec

-----------------------------------------------------------------------------
(* How many GPUs *)

Below(R, S, g) == {h \in S : <<h, g>> \in R}

StrictOrder(R, S) ==
    /\ \A g \in S : <<g, g>> \notin R
    /\ \A g, h \in S : g = h \/ <<g, h>> \in R \/ <<h, g>> \in R
    /\ \A g, h, k \in S : <<g, h>> \in R /\ <<h, k>> \in R => <<g, k>> \in R

LEMMA BelowFinite ==
    ASSUME NEW S, IsFiniteSet(S), NEW R, StrictOrder(R, S), NEW g \in S
    PROVE  /\ IsFiniteSet(Below(R, S, g))
           /\ Cardinality(Below(R, S, g)) \in 0 .. Cardinality(S) - 1
<1>1. IsFiniteSet(S \ {g}) /\ Cardinality(S \ {g}) = Cardinality(S) - 1 /\ Cardinality(S) \in Nat
  BY FS_RemoveElement, FS_CardinalityType
<1>2. Below(R, S, g) \in SUBSET (S \ {g})
  BY DEF Below, StrictOrder
<1>3. IsFiniteSet(Below(R, S, g)) /\ Cardinality(Below(R, S, g)) <= Cardinality(S \ {g})
  BY <1>1, <1>2, FS_Subset
<1>4. Cardinality(Below(R, S, g)) \in Nat
  BY <1>3, FS_CardinalityType
<1> QED
  BY <1>1, <1>3, <1>4

LEMMA BelowGrows ==
    ASSUME NEW S, IsFiniteSet(S), NEW R, StrictOrder(R, S),
           NEW g \in S, NEW h \in S, <<g, h>> \in R
    PROVE  Cardinality(Below(R, S, g)) < Cardinality(Below(R, S, h))
<1>1. /\ IsFiniteSet(Below(R, S, g)) /\ Cardinality(Below(R, S, g)) \in Nat
      /\ IsFiniteSet(Below(R, S, h)) /\ Cardinality(Below(R, S, h)) \in Nat
  BY BelowFinite, FS_CardinalityType
<1>2. g \notin Below(R, S, g) /\ Below(R, S, g) \cup {g} \in SUBSET Below(R, S, h)
  BY DEF Below, StrictOrder
<1>3. Cardinality(Below(R, S, g) \cup {g}) = Cardinality(Below(R, S, g)) + 1
  BY <1>1, <1>2, FS_AddElement
<1>4. Cardinality(Below(R, S, g) \cup {g}) <= Cardinality(Below(R, S, h))
  BY <1>1, <1>2, FS_Subset
<1> QED
  BY <1>1, <1>3, <1>4

\* The number of elements below each numbers the elements from 0 without a gap.
LEMMA Ranks ==
    ASSUME NEW S, IsFiniteSet(S), NEW R, StrictOrder(R, S), NEW rank,
           rank = [g \in S |-> Cardinality(Below(R, S, g))]
    PROVE  /\ rank \in Bijection(S, 0 .. Cardinality(S) - 1)
           /\ \A g, h \in S : <<g, h>> \in R <=> rank[g] < rank[h]
<1> DEFINE size == Cardinality(S)
<1>1. size \in Nat /\ IsFiniteSet(0 .. size - 1) /\ Cardinality(0 .. size - 1) = size
  <2>1. size \in Nat
    BY FS_CardinalityType
  <2> HIDE DEF size
  <2>2. 0 \in Int /\ size - 1 \in Int
    BY <2>1
  <2>3. IsFiniteSet(0 .. size - 1) /\ Cardinality(0 .. size - 1) = IF 0 > size - 1 THEN 0 ELSE size - 1 - 0 + 1
    BY <2>2, FS_Interval
  <2> QED
    BY <2>1, <2>3
<1>2. rank \in [S -> 0 .. size - 1]
  BY BelowFinite
<1>3. ASSUME NEW g \in S, NEW h \in S
      PROVE  /\ <<g, h>> \in R <=> rank[g] < rank[h]
             /\ rank[g] = rank[h] => g = h
  <2>1. rank[g] \in Nat /\ rank[h] \in Nat
    BY <1>2
  <2>2. <<g, h>> \in R => rank[g] < rank[h]
    BY BelowGrows
  <2>3. <<h, g>> \in R => rank[h] < rank[g]
    BY BelowGrows
  <2>4. g = h \/ <<g, h>> \in R \/ <<h, g>> \in R
    BY DEF StrictOrder
  <2>5. <<g, h>> \in R => ~(<<h, g>> \in R) /\ g # h
    BY DEF StrictOrder
  <2> QED
    BY <2>1, <2>2, <2>3, <2>4, <2>5
<1>4. rank \in Injection(S, 0 .. size - 1)
  BY <1>2, <1>3 DEF Injection, IsInjective
<1>5. rank \in Surjection(S, 0 .. size - 1)
  BY <1>1, <1>4, FS_Injection
<1> QED
  BY <1>3, <1>4, <1>5 DEF Bijection

\* take(n) of n indices or more takes n.
LEMMA LowestCount ==
    ASSUME NEW S \in SUBSET Nat, IsFiniteSet(S), NEW n \in Nat, n <= Cardinality(S)
    PROVE  Cardinality(Lowest(S, n)) = n
<1> DEFINE size == Cardinality(S)
           R    == {p \in S \X S : p[1] < p[2]}
           rank == [g \in S |-> Cardinality(Below(R, S, g))]
<1>1. \A g, h \in S : <<g, h>> \in R <=> g < h
  OBVIOUS
<1>2. StrictOrder(R, S)
  <2>1. \A g \in S : g \in Nat
    OBVIOUS
  <2> HIDE DEF R
  <2> QED
    BY <1>1, <2>1 DEF StrictOrder
<1>3. ASSUME NEW g \in S PROVE g \in Lowest(S, n) <=> rank[g] < n
  <2>1. Below(R, S, g) = {h \in S : h < g}
    BY <1>1 DEF Below
  <2> HIDE DEF R
  <2> QED
    BY <2>1 DEF Lowest
<1> HIDE DEF R
<1>4. rank \in Bijection(S, 0 .. size - 1)
  BY <1>2, Ranks
<1>5. size \in Nat
  BY FS_CardinalityType
<1> HIDE DEF rank, size
<1>6. rank \in [S -> 0 .. size - 1] /\ \A g, h \in S : rank[g] = rank[h] => g = h
  BY <1>4 DEF Bijection, Injection, IsInjective
<1> DEFINE low == [g \in Lowest(S, n) |-> rank[g]]
<1>7. Lowest(S, n) \subseteq S
  BY DEF Lowest
<1>8. low \in Bijection(Lowest(S, n), 0 .. n - 1)
  <2>1. low \in [Lowest(S, n) -> 0 .. n - 1]
    <3>1. ASSUME NEW g \in Lowest(S, n) PROVE rank[g] \in 0 .. n - 1
      <4>1. g \in S /\ rank[g] \in 0 .. size - 1 /\ rank[g] < n
        BY <1>3, <1>6, <1>7
      <4> QED
        BY <1>5, <4>1
    <3> QED
      BY <3>1
  <2>2. low \in Injection(Lowest(S, n), 0 .. n - 1)
    BY <1>6, <1>7, <2>1 DEF Injection, IsInjective
  <2>3. \A k \in 0 .. n - 1 : \E g \in Lowest(S, n) : low[g] = k
    <3> SUFFICES ASSUME NEW k \in 0 .. n - 1 PROVE \E g \in Lowest(S, n) : low[g] = k
      OBVIOUS
    <3>1. k \in 0 .. size - 1 /\ k < n
      BY <1>5 DEF size
    <3>2. PICK g \in S : rank[g] = k
      BY <1>4, <3>1 DEF Bijection, Surjection
    <3> QED
      BY <1>3, <3>1, <3>2
  <2> QED
    BY <2>1, <2>2, <2>3 DEF Bijection, Surjection
<1>9. IsFiniteSet(Lowest(S, n))
  BY <1>7, FS_Subset
<1>10. Cardinality(0 .. n - 1) = n
  BY FS_Interval
<1> HIDE DEF low
<1> QED
  BY <1>8, <1>9, <1>10, FS_Bijection DEF ExistsBijection

LEMMA FreeGpusFinite == ASSUME TypeOK PROVE IsFiniteSet(FreeGpus)
<1>1. gpu_total \in Nat
  BY ConstantsAssumption DEF TypeOK
<1>2. IsFiniteSet(0 .. gpu_total - 1)
  BY <1>1, FS_Interval
<1> QED
  BY <1>2, FreeGpusInPool, FS_Subset

LEMMA TakenCount ==
    ASSUME TypeOK, TakeNextRunnable
    PROVE  Cardinality(jobs'[NextRunnable].assigned_gpus) = jobs'[NextRunnable].gpus
<1> DEFINE n == jobs[NextRunnable].gpus
<1>1. NextRunnable \in InState({"Queued"}) /\ Fits(jobs[NextRunnable])
  BY NextRunnableIsFirst DEF TakeNextRunnable, Runnable
<1>2. NextRunnable \in DOMAIN jobs /\ jobs[NextRunnable] \in Job /\ n \in Nat
  BY <1>1, ConstantsAssumption DEF TypeOK, QueueTypeOK, IsQueue, InState, Job
<1>3. jobs'[NextRunnable].gpus = n /\ jobs'[NextRunnable].assigned_gpus = Lowest(FreeGpus, n)
  BY <1>2 DEF TakeNextRunnable, Job
<1>4. n <= Cardinality(FreeGpus)
  <2>1. Cardinality(FreeGpus) \in Nat
    BY FreeGpusFinite, FS_CardinalityType
  <2> QED
    BY <1>1, <1>2, <2>1 DEF Fits
<1>5. FreeGpus \in SUBSET Nat /\ IsFiniteSet(FreeGpus)
  BY FreeGpusInPool, FreeGpusFinite
<1> QED
  BY <1>2, <1>3, <1>4, <1>5, LowestCount

LEMMA CountStep == TypeOK /\ GpusAsRequested /\ [Next]_appVars => GpusAsRequested'
<1> SUFFICES ASSUME TypeOK, [Next]_appVars,
                    \A id \in Running : Cardinality(jobs[id].assigned_gpus) = jobs[id].gpus
             PROVE  \A id \in Running' : Cardinality(jobs'[id].assigned_gpus) = jobs'[id].gpus
  BY DEF GpusAsRequested, Running, InState
<1>1. CASE Call
  <2>1. CASE QuietCall
    BY <2>1, RunningUntouched
  <2>2. CASE FinishCall
    BY <2>2, RunningFinished DEF FinishCall, Running
  <2>3. CASE TakeNextRunnable
    BY <2>3, RunningTaken, TakenCount
  <2> QED
    BY <1>1, <2>1, <2>2, <2>3, CallKinds DEF TypeOK
<1>2. CASE Load
  BY <1>2, LoadStopsAll
<1>3. CASE UNCHANGED queueVars \/ UNCHANGED appVars
  BY <1>3 DEF queueVars, appVars, Running, InState
<1> QED
  BY <1>1, <1>2, <1>3 DEF Next

\* A running job holds exactly as many GPUs as it asked for, whatever the pool
\* and the other jobs (scheduler.rs 296-330).
THEOREM GpusMatchRequests == Spec => []GpusAsRequested
<1>1. Init => GpusAsRequested
  BY DEF Init, GpusAsRequested, InState
<1> QED
  BY <1>1, CountStep, TypesCorrect, PTL DEF Spec

-----------------------------------------------------------------------------
(* CPU jobs *)

LEMMA RunningCpuFinite == ASSUME QueueTypeOK PROVE IsFiniteSet(RunningCpu)
<1>1. RunningCpu \in SUBSET (0 .. next_id - 1) /\ 0 \in Int /\ next_id - 1 \in Int
  BY ConstantsAssumption DEF QueueTypeOK, IsQueue, RunningCpu, InState
<1> QED
  BY <1>1, FS_Interval, FS_Subset

LEMMA SameRunningCpu ==
    ASSUME Running' = Running, \A id \in Running : jobs'[id] = jobs[id]
    PROVE  RunningCpu' = RunningCpu
BY DEF RunningCpu, Running

LEMMA FewerRunningCpu ==
    ASSUME QueueTypeOK, RunningCpu' \subseteq RunningCpu
    PROVE  ~(Cardinality(RunningCpu') > Cardinality(RunningCpu))
<1>1. IsFiniteSet(RunningCpu) /\ RunningCpu' \in SUBSET RunningCpu
  BY RunningCpuFinite
<1>2. IsFiniteSet(RunningCpu') /\ Cardinality(RunningCpu') <= Cardinality(RunningCpu)
  BY <1>1, FS_Subset
<1>3. Cardinality(RunningCpu') \in Nat /\ Cardinality(RunningCpu) \in Nat
  BY <1>1, <1>2, FS_CardinalityType
<1> QED
  BY <1>2, <1>3

\* A step starts CPU jobs only where there is room.
WithinLimit ==
    Cardinality(RunningCpu') > Cardinality(RunningCpu) =>
        cpu_limit' = NoLimit \/ Cardinality(RunningCpu') <= cpu_limit'

LEMMA TakeWithinLimit ==
    ASSUME TypeOK, TakeNextRunnable
    PROVE  WithinLimit
<1> DEFINE job == NextRunnable
           count == Cardinality(RunningCpu)
<1>1. /\ job \in DOMAIN jobs \ Running
      /\ Running' = Running \cup {job}
      /\ \A other \in Running : jobs'[other] = jobs[other]
  BY RunningTaken
<1>2. job \in InState({"Queued"}) /\ Fits(jobs[job])
  BY NextRunnableIsFirst DEF TakeNextRunnable, Runnable
<1>3. jobs'[job].gpus = jobs[job].gpus
  BY <1>1 DEF TakeNextRunnable, TypeOK, QueueTypeOK, IsQueue, Job
<1>4. QueueTypeOK /\ IsFiniteSet(RunningCpu) /\ count \in Nat /\ UNCHANGED cpu_limit
  BY RunningCpuFinite, FS_CardinalityType DEF TypeOK, TakeNextRunnable
<1>5. CASE jobs[job].gpus = 0
  <2>1. RunningCpu' = RunningCpu \cup {job} /\ job \notin RunningCpu
    BY <1>1, <1>3, <1>5 DEF RunningCpu, Running
  <2>2. Cardinality(RunningCpu') = count + 1
    BY <1>4, <2>1, FS_AddElement
  <2>3. cpu_limit = NoLimit \/ (cpu_limit \in Nat /\ count < cpu_limit)
    BY <1>2, <1>4, <1>5, ConstantsAssumption DEF Fits, CpuHasRoom, QueueTypeOK, IsQueue
  <2> HIDE DEF count
  <2> QED
    BY <1>4, <2>2, <2>3 DEF WithinLimit
<1>6. CASE jobs[job].gpus # 0
  <2>1. RunningCpu' = RunningCpu
    BY <1>1, <1>3, <1>6 DEF RunningCpu, Running
  <2> QED
    BY <1>4, <2>1, FewerRunningCpu DEF WithinLimit
<1> QED
  BY <1>5, <1>6

LEMMA LimitStep ==
    ASSUME TypeOK, [Next]_appVars
    PROVE  WithinLimit
<1>0. QueueTypeOK
  BY DEF TypeOK
<1>1. CASE Call
  <2>1. CASE QuietCall
    BY <1>0, <2>1, RunningUntouched, SameRunningCpu, FewerRunningCpu DEF WithinLimit
  <2>2. CASE FinishCall
    <3>1. PICK id \in Running, result \in RunResults : FinishOrRestart(id, result)
      BY <2>2 DEF FinishCall, Running
    <3>2. RunningCpu' \subseteq RunningCpu
      BY <3>1, RunningFinished DEF RunningCpu, Running
    <3> QED
      BY <1>0, <3>2, FewerRunningCpu DEF WithinLimit
  <2>3. CASE TakeNextRunnable
    BY <2>3, TakeWithinLimit
  <2> QED
    BY <1>0, <1>1, <2>1, <2>2, <2>3, CallKinds
<1>2. CASE Load
  <2>1. RunningCpu' \subseteq RunningCpu
    BY <1>2, LoadStopsAll DEF RunningCpu, Running
  <2> QED
    BY <1>0, <2>1, FewerRunningCpu DEF WithinLimit
<1>3. CASE UNCHANGED queueVars \/ UNCHANGED appVars
  <2>1. RunningCpu' = RunningCpu
    BY <1>3 DEF queueVars, appVars, RunningCpu, InState
  <2> QED
    BY <1>0, <2>1, FewerRunningCpu DEF WithinLimit
<1> QED
  BY <1>1, <1>2, <1>3 DEF Next

\* CPU jobs start only below the limit in force: lowering it stops none, and none
\* starts until enough have ended (scheduler.rs 217-231, 289-330).
THEOREM CpuLimitRespected == Spec => CpuLimitHolds
<1>1. TypeOK /\ [Next]_appVars => [WithinLimit]_appVars
  BY LimitStep
<1>2. Spec => [][WithinLimit]_appVars
  BY <1>1, TypesCorrect, PTL DEF Spec
<1> QED
  BY <1>2 DEF CpuLimitHolds, WithinLimit

-----------------------------------------------------------------------------
(* The listing *)

Sorted(l, R) == \A i, j \in DOMAIN l : i < j => <<l[i], l[j]>> \in R

LEMMA OneToSize ==
    ASSUME NEW size \in Nat
    PROVE  IsFiniteSet(1 .. size) /\ Cardinality(1 .. size) = size
<1>1. 1 \in Int /\ size \in Int
  OBVIOUS
<1>2. IsFiniteSet(1 .. size) /\ Cardinality(1 .. size) = IF 1 > size THEN 0 ELSE size - 1 + 1
  BY <1>1, FS_Interval
<1> QED
  BY <1>2

\* A finite set can be sorted by a strict order.
LEMMA SortedExists ==
    ASSUME NEW S, IsFiniteSet(S), NEW R, StrictOrder(R, S)
    PROVE  \E l \in [1 .. Cardinality(S) -> S] : Sorted(l, R)
<1> DEFINE size == Cardinality(S)
           rank == [g \in S |-> Cardinality(Below(R, S, g))]
           at   == [i \in 1 .. size |-> CHOOSE g \in S : rank[g] = i - 1]
<1>1. size \in Nat
  BY FS_CardinalityType
<1>2. /\ rank \in Bijection(S, 0 .. size - 1)
      /\ \A g, h \in S : <<g, h>> \in R <=> rank[g] < rank[h]
  BY Ranks
<1> HIDE DEF rank, size
<1>3. \A i \in 1 .. size : at[i] \in S /\ rank[at[i]] = i - 1
  <2> SUFFICES ASSUME NEW i \in 1 .. size PROVE at[i] \in S /\ rank[at[i]] = i - 1
    OBVIOUS
  <2>1. i - 1 \in 0 .. size - 1
    BY <1>1
  <2>2. \E g \in S : rank[g] = i - 1
    BY <1>2, <2>1 DEF Bijection, Surjection
  <2> QED
    BY <2>2
<1>4. at \in [1 .. size -> S] /\ DOMAIN at = 1 .. size
  BY <1>3
<1> HIDE DEF at
<1>5. Sorted(at, R)
  <2> SUFFICES ASSUME NEW i \in 1 .. size, NEW j \in 1 .. size, i < j
               PROVE  <<at[i], at[j]>> \in R
    BY <1>4 DEF Sorted
  <2>1. i - 1 < j - 1
    BY <1>1
  <2> QED
    BY <1>2, <1>3, <2>1
<1> QED
  BY <1>4, <1>5 DEF size

\* As many places as elements, and no element at two of them: each has its place.
LEMMA SortedCovers ==
    ASSUME NEW S, IsFiniteSet(S), NEW R, StrictOrder(R, S),
           NEW l \in [1 .. Cardinality(S) -> S], Sorted(l, R)
    PROVE  \A g \in S : \E i \in 1 .. Cardinality(S) : l[i] = g
<1> DEFINE size == Cardinality(S)
<1>1. size \in Nat /\ IsFiniteSet(1 .. size) /\ Cardinality(1 .. size) = size
  BY FS_CardinalityType, OneToSize
<1> HIDE DEF size
<1>2. l \in [1 .. size -> S]
  BY DEF size
<1>3. ASSUME NEW i \in 1 .. size, NEW j \in 1 .. size, i < j PROVE l[i] # l[j]
  <2>1. <<l[i], l[j]>> \in R /\ l[i] \in S
    BY <1>2, <1>3 DEF Sorted
  <2> QED
    BY <2>1 DEF StrictOrder
<1>4. ASSUME NEW i \in 1 .. size, NEW j \in 1 .. size, l[i] = l[j] PROVE i = j
  <2>1. i < j \/ j < i \/ i = j
    BY <1>1
  <2> QED
    BY <1>3, <1>4, <2>1
<1>5. l \in Injection(1 .. size, S)
  BY <1>2, <1>4 DEF Injection, IsInjective
<1>6. l \in Surjection(1 .. size, S)
  BY <1>1, <1>5, FS_Injection DEF size
<1> QED
  BY <1>6 DEF size, Surjection

Lexicographic(k, l) ==
    \/ k[1] < l[1]
    \/ k[1] = l[1] /\ k[2] < l[2]
    \/ k[1] = l[1] /\ k[2] = l[2] /\ k[3] < l[3]

LEMMA KeyBeforeIsLexicographic ==
    ASSUME NEW k \in Int \X Int \X Int, NEW l \in Int \X Int \X Int
    PROVE  KeyBefore(k, l) <=> Lexicographic(k, l)
<1> DEFINE Decides(i) == k[i] < l[i] /\ \A j \in 1 .. i - 1 : k[j] = l[j]
<1>1. KeyBefore(k, l) <=> Decides(1) \/ Decides(2) \/ Decides(3)
  <2>1. 1 .. 3 = {1, 2, 3}
    OBVIOUS
  <2>2. KeyBefore(k, l) <=> \E i \in {1, 2, 3} : Decides(i)
    BY <2>1 DEF KeyBefore
  <2> HIDE DEF Decides
  <2> QED
    BY <2>2
<1>2. Decides(1) <=> k[1] < l[1]
  <2>1. 1 .. 1 - 1 = {}
    OBVIOUS
  <2> QED
    BY <2>1
<1>3. Decides(2) <=> k[1] = l[1] /\ k[2] < l[2]
  <2>1. 1 .. 2 - 1 = {1}
    OBVIOUS
  <2> QED
    BY <2>1
<1>4. Decides(3) <=> k[1] = l[1] /\ k[2] = l[2] /\ k[3] < l[3]
  <2>1. 1 .. 3 - 1 = {1, 2}
    OBVIOUS
  <2> QED
    BY <2>1
<1> HIDE DEF Decides
<1> QED
  BY <1>1, <1>2, <1>3, <1>4 DEF Lexicographic

LEMMA KeysAreTuples ==
    ASSUME QueueTypeOK, NEW id \in DOMAIN jobs
    PROVE  /\ execution_order_key(id) \in Int \X Int \X Int
           /\ execution_order_key(id)[3] = id
           /\ jobs[id].state = "Queued" =>
                  /\ execution_order_key(id)[1] = 1
                  /\ execution_order_key(id)[2] = 0 - jobs[id].priority
           /\ jobs[id].priority \in Int /\ id \in Nat
<1>1. id \in Nat /\ jobs[id].priority \in I32Min .. I32Max
  BY ConstantsAssumption DEF QueueTypeOK, IsQueue, Job
<1>2. jobs[id].priority \in Int /\ -jobs[id].priority = 0 - jobs[id].priority
  BY <1>1, I32Range
<1> QED
  BY <1>1, <1>2 DEF execution_order_key

\* Above a job in the default view stand jobs of smaller keys.
LEMMA AboveComesFirst ==
    ASSUME TypeOK, NEW id \in InState({"Queued"}), NEW other \in ListedAbove(id)
    PROVE  /\ other \in DOMAIN jobs
           /\ KeyBefore(execution_order_key(other), execution_order_key(id))
<1> DEFINE shown   == {job \in DOMAIN jobs : state_wanted(FALSE, {}, jobs[job].state)}
           R       == {p \in shown \X shown : KeyBefore(execution_order_key(p[1]), execution_order_key(p[2]))}
           Ordered(l) == \A i, j \in DOMAIN l :
                             i < j => KeyBefore(execution_order_key(l[i]), execution_order_key(l[j]))
           listing == list_jobs(FALSE, {}, FALSE)
           size    == Cardinality(shown)
<1>1. QueueTypeOK
  BY DEF TypeOK
<1>2. id \in shown
  BY DEF InState, state_wanted
<1>3. shown \subseteq DOMAIN jobs
  OBVIOUS
<1>4. \A a, b \in shown : <<a, b>> \in R <=> KeyBefore(execution_order_key(a), execution_order_key(b))
  OBVIOUS
<1>5. listing = CHOOSE l \in [1 .. size -> shown] : Ordered(l)
  BY DEF list_jobs
<1> HIDE DEF shown, R, listing, size
<1>6. IsFiniteSet(shown)
  <2>1. DOMAIN jobs \in SUBSET (0 .. next_id - 1) /\ 0 \in Int /\ next_id - 1 \in Int
    BY <1>1, ConstantsAssumption DEF QueueTypeOK, IsQueue
  <2> QED
    BY <1>3, <2>1, FS_Interval, FS_Subset
<1>7. StrictOrder(R, shown)
  <2>1. ASSUME NEW a \in shown
        PROVE  /\ execution_order_key(a) \in Int \X Int \X Int
               /\ execution_order_key(a)[3] = a
    BY <1>1, <1>3, KeysAreTuples
  <2>2. ASSUME NEW a \in shown, NEW b \in shown
        PROVE  <<a, b>> \in R <=> Lexicographic(execution_order_key(a), execution_order_key(b))
    BY <1>4, <2>1, KeyBeforeIsLexicographic
  <2>3. \A a \in shown : ~Lexicographic(execution_order_key(a), execution_order_key(a))
    BY <2>1 DEF Lexicographic
  <2>4. ASSUME NEW a \in shown, NEW b \in shown
        PROVE  \/ a = b
               \/ Lexicographic(execution_order_key(a), execution_order_key(b))
               \/ Lexicographic(execution_order_key(b), execution_order_key(a))
    BY <2>1 DEF Lexicographic
  <2>5. ASSUME NEW a \in shown, NEW b \in shown, NEW c \in shown,
               Lexicographic(execution_order_key(a), execution_order_key(b)),
               Lexicographic(execution_order_key(b), execution_order_key(c))
        PROVE  Lexicographic(execution_order_key(a), execution_order_key(c))
    BY <2>1, <2>5 DEF Lexicographic
  <2> QED
    BY <2>2, <2>3, <2>4, <2>5 DEF StrictOrder
<1>8. \A l \in [1 .. size -> shown] : Sorted(l, R) <=> Ordered(l)
  BY <1>4 DEF Sorted
<1>9. \E l \in [1 .. size -> shown] : Ordered(l)
  BY <1>6, <1>7, <1>8, SortedExists DEF size
<1> HIDE DEF Ordered
<1>10. listing \in [1 .. size -> shown] /\ Ordered(listing)
  BY <1>5, <1>9
<1>11. \E i \in 1 .. size : listing[i] = id
  BY <1>2, <1>6, <1>7, <1>8, <1>10, SortedCovers DEF size
<1> DEFINE place == CHOOSE k \in DOMAIN listing : listing[k] = id
<1>12. place \in 1 .. size /\ listing[place] = id /\ size \in Nat
  BY <1>6, <1>10, <1>11, FS_CardinalityType DEF size
<1>13. PICK k \in 1 .. place - 1 : other = listing[k]
  BY DEF ListedAbove, listing
<1> HIDE DEF place
<1>14. k \in 1 .. size /\ k < place
  BY <1>12
<1> QED
  BY <1>3, <1>10, <1>12, <1>13, <1>14 DEF Ordered

\* Unless a priority is the lowest i32, the default view foretells the scheduler:
\* what is listed above the job that starts could not start (client.rs 324-340,
\* scheduler.rs 300-315).
THEOREM ListingForetells ==
    ASSUME I32Min \notin Priorities
    PROVE  Spec => ListingForetellsStarts
<1> DEFINE Foretold == \A id \in DOMAIN jobs : Starts(id) => ListedAbove(id) \cap Runnable = {}
<1>1. TypeOK /\ [Next]_appVars => [Foretold]_appVars
  <2> SUFFICES ASSUME TypeOK, [Next]_appVars, NEW id \in DOMAIN jobs, Starts(id),
                      NEW other \in ListedAbove(id), other \in Runnable
               PROVE  FALSE
    OBVIOUS
  <2>1. id \in Runnable /\ (other # id => Outranks(id, other))
    BY BestStarts
  <2>2. QueueTypeOK /\ id \in InState({"Queued"}) /\ other \in DOMAIN jobs
    BY <2>1 DEF TypeOK, Runnable, InState
  <2>3. jobs[id].state = "Queued" /\ jobs[other].state = "Queued"
    BY <2>1 DEF Runnable, InState
  <2>4. KeyBefore(execution_order_key(other), execution_order_key(id))
    BY <2>2, AboveComesFirst
  <2>5. /\ jobs[id].priority \in Int /\ jobs[other].priority \in Int /\ id \in Nat /\ other \in Nat
        /\ \/ 0 - jobs[other].priority < 0 - jobs[id].priority
           \/ jobs[other].priority = jobs[id].priority /\ other < id
    BY <2>2, <2>3, <2>4, KeysAreTuples, KeyBeforeIsLexicographic DEF Lexicographic
  <2> QED
    BY <2>1, <2>5 DEF Outranks
<1>2. Spec => [][Foretold]_appVars
  BY <1>1, TypesCorrect, PTL DEF Spec
<1> QED
  BY <1>2 DEF ListingForetellsStarts

-----------------------------------------------------------------------------
(* The life of a job: the queue implements JobLife. *)

JobIds == 0 .. MaxJobs - 1

\* What a job may do in one step, said of StageOf.
StageMoves(id, from, to) == StageOf(id) = from /\ StageOf(id)' = to

LivesOn(id) ==
    \/ StageOf(id)' = StageOf(id) /\ (id \in restart_requested' <=> id \in restart_requested)
    \/ StageMoves(id, "running", "running") /\ id \in restart_requested'
    \/ /\ id \notin restart_requested'
       /\ \/ StageMoves(id, "new", "waiting")
          \/ StageMoves(id, "waiting", "running")
          \/ StageMoves(id, "running", "waiting") /\ id \in restart_requested
          \/ StageMoves(id, "running", "over")
          \/ StageMoves(id, "waiting", "over")
          \/ StageMoves(id, "waiting", "gone")
          \/ StageMoves(id, "over", "gone")

LEMMA LivesOnIsLifeNext ==
    ASSUME \A id \in JobIds : LivesOn(id)
    PROVE  Life!LifeNext
<1> SUFFICES ASSUME NEW id \in JobIds
             PROVE  \/ Life!Rests(id) \/ Life!Ask(id) \/ Life!Submit(id) \/ Life!Begin(id)
                    \/ Life!Again(id) \/ Life!End(id) \/ Life!Cancel(id) \/ Life!Discard(id)
  BY DEF Life!LifeNext, JobIds
<1>1. LivesOn(id)
  OBVIOUS
<1> QED
  BY <1>1 DEF LivesOn, StageMoves, JobIds, Life!Rests, Life!Ask, Life!Submit, Life!Begin, Life!Again,
              Life!End, Life!Cancel, Life!Discard, Life!Goes, Life!AskedBefore, Life!AskedAfter

-----------------------------------------------------------------------------
(* Each call *)

\* The types, and whose restart may be asked for.
LifeInv == TypeOK /\ IntentOnlyWhileRunning /\ state_file = Snapshot

LEMMA LifeTypes ==
    ASSUME LifeInv
    PROVE  /\ next_id \in Nat
           /\ \A id \in DOMAIN jobs : id \in Nat /\ id < next_id /\ jobs[id] \in Job
           /\ restart_requested \subseteq Running
BY ConstantsAssumption DEF LifeInv, TypeOK, QueueTypeOK, IsQueue, IntentOnlyWhileRunning, Running

\* A job whose entry is as it was, or only differs within its stage, rests.
LEMMA SameStage ==
    ASSUME NEW id, next_id' = next_id, restart_requested' = restart_requested,
           id \in DOMAIN jobs' <=> id \in DOMAIN jobs,
           id \in DOMAIN jobs => jobs'[id].state = jobs[id].state
    PROVE  LivesOn(id)
BY DEF LivesOn, StageOf

LEMMA AddLives ==
    ASSUME LifeInv, AddCall, NEW id \in JobIds
    PROVE  LivesOn(id)
<1>1. PICK gpus \in GpuRequests, priority \in Priorities : Add(gpus, priority)
  BY DEF AddCall
<1>2. /\ next_id' = next_id + 1 /\ restart_requested' = restart_requested
      /\ DOMAIN jobs' = DOMAIN jobs \cup {next_id}
      /\ jobs'[next_id].state = "Queued"
      /\ \A other \in DOMAIN jobs : other # next_id => jobs'[other] = jobs[other]
  BY <1>1 DEF Add
<1>3. /\ next_id \in Nat /\ next_id \notin DOMAIN jobs /\ id \in Nat
      /\ restart_requested \subseteq Running /\ next_id \notin Running
  BY LifeTypes DEF JobIds, Running, InState
<1>4. CASE id = next_id
  BY <1>2, <1>3, <1>4 DEF LivesOn, StageMoves, StageOf, Pending
<1>5. CASE id # next_id
  <2>1. (id >= next_id' <=> id >= next_id) /\ (id \in DOMAIN jobs' <=> id \in DOMAIN jobs)
    BY <1>2, <1>3, <1>5
  <2>2. id \in DOMAIN jobs => jobs'[id] = jobs[id]
    BY <1>2, <1>5
  <2> QED
    BY <1>2, <2>1, <2>2 DEF LivesOn, StageOf
<1> QED
  BY <1>4, <1>5

LEMMA MoveLives ==
    ASSUME LifeInv, MoveCall, NEW id \in JobIds
    PROVE  LivesOn(id)
<1>1. PICK ids \in SUBSET InState(Pending), state \in Pending \cup {"Killed"} :
             MoveAll(ids, state, state = "Killed")
  BY DEF MoveCall
<1>2. /\ next_id' = next_id /\ restart_requested' = restart_requested
      /\ DOMAIN jobs' = DOMAIN jobs
      /\ \A other \in DOMAIN jobs \ ids : jobs'[other] = jobs[other]
  BY <1>1 DEF MoveAll
<1>3. CASE id \notin ids
  BY <1>2, <1>3, SameStage
<1>4. CASE id \in ids
  <2>1. /\ id \in DOMAIN jobs /\ jobs[id].state \in Pending /\ jobs[id] \in Job
        /\ next_id \in Nat /\ id \in Nat /\ id < next_id
    BY <1>4, LifeTypes DEF InState
  <2>2. jobs'[id].state = state
    BY <1>1, <1>4, <2>1 DEF MoveAll, Job
  <2>3. id \notin restart_requested
    BY <2>1, LifeTypes DEF Running, InState, Pending
  <2>4. StageOf(id) = "waiting"
    BY <2>1 DEF StageOf
  <2>5. StageOf(id)' = IF state \in Pending THEN "waiting" ELSE "over"
    BY <1>2, <2>1, <2>2 DEF StageOf, Pending
  <2> QED
    BY <1>2, <2>3, <2>4, <2>5 DEF LivesOn, StageMoves
<1> QED
  BY <1>3, <1>4

LEMMA PruneLives ==
    ASSUME LifeInv, PruneCall, NEW id \in JobIds
    PROVE  LivesOn(id)
<1>1. PICK keep \in SUBSET DOMAIN jobs :
             InState({"Running"}) \subseteq keep /\ jobs' = Restrict(jobs, keep)
  BY DEF PruneCall
<1>2. /\ next_id' = next_id /\ restart_requested' = restart_requested
      /\ DOMAIN jobs' = keep /\ \A other \in keep : jobs'[other] = jobs[other]
  BY <1>1 DEF PruneCall, Restrict
<1>3. CASE id \in keep \/ id \notin DOMAIN jobs
  BY <1>2, <1>3, SameStage
<1>4. CASE id \in DOMAIN jobs \ keep
  <2>1. /\ next_id \in Nat /\ id \in Nat /\ id < next_id
        /\ id \notin restart_requested /\ jobs[id].state # "Running"
    BY <1>1, <1>4, LifeTypes DEF Running, InState
  <2>2. StageOf(id) \in {"waiting", "over"}
    BY <1>4, <2>1 DEF StageOf
  <2>3. StageOf(id)' = "gone"
    BY <1>2, <1>4, <2>1 DEF StageOf
  <2> QED
    BY <1>2, <2>1, <2>2, <2>3 DEF LivesOn, StageMoves
<1> QED
  BY <1>3, <1>4

LEMMA OtherQuietLives ==
    ASSUME LifeInv, RestartCall \/ PriorityCall \/ LimitCall, NEW id \in JobIds
    PROVE  LivesOn(id)
<1>1. CASE RestartCall
  <2>1. PICK asked \in Running : /\ restart_requested' = restart_requested \cup {asked}
                                 /\ next_id' = next_id /\ jobs' = jobs
    BY <1>1 DEF RestartCall, RequestRestart, Running
  <2>2. CASE id = asked
    <3>1. id \in DOMAIN jobs /\ jobs[id].state = "Running" /\ id \in Nat /\ id < next_id /\ next_id \in Nat
      BY <2>2, LifeTypes DEF Running, InState
    <3> QED
      BY <2>1, <2>2, <3>1 DEF LivesOn, StageMoves, StageOf, Pending
  <2>3. CASE id # asked
    BY <2>1, <2>3 DEF LivesOn, StageOf
  <2> QED
    BY <2>2, <2>3
<1>2. CASE PriorityCall
  <2>1. PICK other \in InState({"Queued"}), priority \in Priorities : SetPriority(other, priority)
    BY <1>2 DEF PriorityCall
  <2>2. DOMAIN jobs' = DOMAIN jobs /\ \A any \in DOMAIN jobs : jobs[any] \in Job
    BY <2>1, LifeTypes DEF SetPriority
  <2>3. ASSUME id \in DOMAIN jobs PROVE jobs'[id].state = jobs[id].state
    BY <2>1, <2>2, <2>3 DEF SetPriority, Job
  <2> QED
    BY <2>1, <2>2, <2>3, SameStage DEF SetPriority
<1>3. CASE LimitCall
  BY <1>3, SameStage DEF LimitCall, SetCpuLimit
<1> QED
  BY <1>1, <1>2, <1>3

LEMMA TakeLives ==
    ASSUME LifeInv, TakeNextRunnable, NEW id \in JobIds
    PROVE  LivesOn(id)
<1>1. NextRunnable \in InState({"Queued"})
  BY NextRunnableIsFirst DEF TakeNextRunnable, Runnable, LifeInv
<1>2. /\ NextRunnable \in DOMAIN jobs /\ jobs[NextRunnable].state = "Queued" /\ jobs[NextRunnable] \in Job
      /\ next_id \in Nat /\ NextRunnable \in Nat /\ NextRunnable < next_id
      /\ NextRunnable \notin restart_requested
  BY <1>1, LifeTypes DEF InState, Running
<1>3. /\ next_id' = next_id /\ restart_requested' = restart_requested /\ DOMAIN jobs' = DOMAIN jobs
      /\ \A other \in DOMAIN jobs \ {NextRunnable} : jobs'[other] = jobs[other]
  BY DEF TakeNextRunnable
<1>4. jobs'[NextRunnable].state = "Running"
  BY <1>2 DEF TakeNextRunnable, Job
<1>5. CASE id = NextRunnable
  BY <1>2, <1>3, <1>4, <1>5 DEF LivesOn, StageMoves, StageOf, Pending
<1>6. CASE id # NextRunnable
  BY <1>3, <1>6, SameStage
<1> QED
  BY <1>5, <1>6

LEMMA FinishLives ==
    ASSUME LifeInv, FinishCall, NEW id \in JobIds
    PROVE  LivesOn(id)
<1>1. PICK over \in Running, result \in RunResults : FinishOrRestart(over, result)
  BY DEF FinishCall, Running
<1>2. /\ over \in DOMAIN jobs /\ jobs[over].state = "Running" /\ jobs[over] \in Job
      /\ next_id \in Nat /\ over \in Nat /\ over < next_id
  BY LifeTypes DEF Running, InState
<1>3. /\ next_id' = next_id /\ restart_requested' = restart_requested \ {over}
      /\ DOMAIN jobs' = DOMAIN jobs
      /\ \A other \in DOMAIN jobs \ {over} : jobs'[other] = jobs[other]
  BY <1>1 DEF FinishOrRestart, Finish, Requeue
<1>4. jobs'[over].state = IF over \in restart_requested THEN "Queued" ELSE FinishState(result)
  BY <1>1, <1>2 DEF FinishOrRestart, Finish, Requeue, Job
<1>5. FinishState(result) \in Terminal
  BY DEF FinishState, RunResults, Terminal
<1>6. CASE id = over
  BY <1>2, <1>3, <1>4, <1>5, <1>6 DEF LivesOn, StageMoves, StageOf, Pending, Terminal
<1>7. CASE id # over
  BY <1>3, <1>7 DEF LivesOn, StageOf
<1> QED
  BY <1>6, <1>7

\* A new daemon: the file was up to date, so only the runs are lost.
LEMMA LoadLives ==
    ASSUME LifeInv, Load, NEW id \in JobIds
    PROVE  LivesOn(id)
<1>1. state_file.next_id = next_id /\ state_file.jobs = jobs
  BY DEF LifeInv, Snapshot
<1>2. /\ next_id' = next_id /\ restart_requested' = {} /\ DOMAIN jobs' = DOMAIN jobs
      /\ \A other \in DOMAIN jobs : jobs'[other] = Reconcile(jobs[other])
  BY <1>1 DEF Load
<1>3. CASE id \in Running
  <2>1. id \in DOMAIN jobs /\ jobs[id].state = "Running" /\ id \in Nat /\ id < next_id /\ next_id \in Nat
        /\ jobs[id] \in Job
    BY <1>3, LifeTypes DEF Running, InState
  <2>2. jobs'[id].state = "Failed"
    BY <1>2, <2>1 DEF Reconcile, Job
  <2> QED
    BY <1>2, <2>1, <2>2 DEF LivesOn, StageMoves, StageOf, Pending
<1>4. CASE id \notin Running
  <2>1. id \notin restart_requested
    BY <1>4, LifeTypes
  <2>2. id \in DOMAIN jobs => jobs'[id] = jobs[id]
    BY <1>2, <1>4 DEF Running, InState, Reconcile
  <2> QED
    BY <1>2, <2>1, <2>2 DEF LivesOn, StageOf
<1> QED
  BY <1>3, <1>4

-----------------------------------------------------------------------------
(* The refinement *)

LEMMA LifeStep ==
    ASSUME LifeInv, [SavedNext]_appVars
    PROVE  [Life!LifeNext]_(Life!lifeVars)
<1>1. CASE Call
  <2>1. QuietCall \/ TakeNextRunnable \/ FinishCall
    BY <1>1, CallKinds DEF LifeInv, TypeOK
  <2>2. \A id \in JobIds : LivesOn(id)
    BY <2>1, AddLives, MoveLives, PruneLives, OtherQuietLives, TakeLives, FinishLives DEF QuietCall
  <2> QED
    BY <2>2, LivesOnIsLifeNext
<1>2. CASE Load
  BY <1>2, LoadLives, LivesOnIsLifeNext
<1>3. CASE UNCHANGED appVars
  <2>1. \A id \in JobIds : StageOf(id)' = StageOf(id)
    BY <1>3 DEF appVars, queueVars, StageOf
  <2> QED
    BY <1>3, <2>1 DEF Life!lifeVars, appVars, queueVars, JobIds
<1> QED
  BY <1>1, <1>2, <1>3 DEF SavedNext

LEMMA LifeInvStep == LifeInv /\ [SavedNext]_appVars => LifeInv'
<1> SUFFICES ASSUME LifeInv, [SavedNext]_appVars PROVE LifeInv'
  OBVIOUS
<1>1. [Next]_appVars
  BY DEF SavedNext, Next
<1>2. TypeOK' /\ IntentOnlyWhileRunning'
  BY <1>1, TypeOKStep, IntentStep DEF LifeInv
<1>3. state_file' = Snapshot'
  BY DEF LifeInv, SavedNext, Save, appVars, queueVars, Snapshot
<1> QED
  BY <1>2, <1>3 DEF LifeInv

LEMMA LifeInit == ASSUME Init PROVE LifeInv /\ Life!LifeInit
<1>1. LifeInv
  BY TypeOKInit DEF Init, LifeInv, IntentOnlyWhileRunning
<1>2. \A id \in JobIds : StageOf(id) = "new"
  BY DEF Init, JobIds, StageOf
<1> QED
  BY <1>1, <1>2 DEF Init, JobIds, Life!LifeInit

\* Whatever the queue is asked to do, and however often its daemon dies, each job
\* lives once: its id is not given again, it starts only from waiting, a run is
\* repeated only on request, and what is over or removed never runs again
\* (scheduler.rs 100-487).
THEOREM QueueImplementsJobLife == SavedSpec => EachJobLivesOnce
<1>1. Init => LifeInv /\ Life!LifeInit
  BY LifeInit
<1>2. LifeInv /\ [SavedNext]_appVars => LifeInv' /\ [Life!LifeNext]_(Life!lifeVars)
  BY LifeInvStep, LifeStep
<1> QED
  BY <1>1, <1>2, PTL DEF SavedSpec, EachJobLivesOnce, Life!LifeSpec
=============================================================================
