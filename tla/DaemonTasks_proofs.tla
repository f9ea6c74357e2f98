-------------------------- MODULE DaemonTasks_proofs --------------------------
(***************************************************************************)
(* Signals: whoever is to be stopped is, and nobody else.  A request       *)
(* chooses its jobs under one lock and fires their switches under a later  *)
(* one, while the scheduler starts runs, tasks end them and the daemon     *)
(* dies; what ties the two locks together is the set of jobs some task is  *)
(* still about to signal.                                                  *)
(***************************************************************************)
EXTENDS Daemon_proofs

-----------------------------------------------------------------------------
(* What the connection tasks have left to do *)

ConnTypeOK == conn \in [Handlers -> [fire : SUBSET Nat, todo : ChoreLists]]

LEMMA ChoreListKinds ==
    ASSUME NEW todo \in ChoreLists
    PROVE  \/ todo = <<>>
           \/ \E c \in Chores : todo = <<c>>
           \/ todo = <<"fire", "persist">>
           \/ todo = <<"persist", "notify">>
BY DEF ChoreLists

LEMMA ChoreListRanges ==
    /\ Range(<<>>) = {}
    /\ \A c \in Chores : Range(<<c>>) = {c}
    /\ Range(<<"fire", "persist">>) = {"fire", "persist"}
    /\ Range(<<"persist", "notify">>) = {"persist", "notify"}
BY DEF Range

\* The chore that is done first leaves the list; the signals come first of all.
LEMMA ChoreDoneFacts ==
    ASSUME NEW todo \in ChoreLists, todo # <<>>
    PROVE  /\ Head(todo) \in Range(todo)
           /\ Tail(todo) \in ChoreLists
           /\ Range(Tail(todo)) = Range(todo) \ {Head(todo)}
           /\ "fire" \in Range(todo) => Head(todo) = "fire"
<1>1. CASE \E c \in Chores : todo = <<c>>
  <2>1. PICK c \in Chores : todo = <<c>>
    BY <1>1
  <2>2. Head(todo) = c /\ Tail(todo) = <<>>
    BY <2>1
  <2> QED
    BY <2>1, <2>2, ChoreListRanges DEF ChoreLists
<1>2. CASE todo = <<"fire", "persist">>
  <2>1. Head(todo) = "fire" /\ Tail(todo) = <<"persist">> /\ "persist" \in Chores
    BY <1>2 DEF Chores
  <2> QED
    BY <1>2, <2>1, ChoreListRanges DEF ChoreLists
<1>3. CASE todo = <<"persist", "notify">>
  <2>1. Head(todo) = "persist" /\ Tail(todo) = <<"notify">> /\ "notify" \in Chores
    BY <1>3 DEF Chores
  <2> QED
    BY <1>3, <2>1, ChoreListRanges DEF ChoreLists
<1> QED
  BY <1>1, <1>2, <1>3, ChoreListKinds

\* The jobs whose switch some task is about to fire.
Due == {id \in Nat : AboutToFire(id)}

LEMMA UnchangedConn == UNCHANGED conn => Due' = Due /\ (ConnTypeOK => ConnTypeOK')
BY DEF Due, AboutToFire, ConnTypeOK

LEMMA ThenFacts ==
    ASSUME ConnTypeOK, NEW h \in Handlers, Idle(h), NEW ids \in SUBSET Nat,
           NEW todo \in ChoreLists, Then(h, ids, todo)
    PROVE  /\ ConnTypeOK'
           /\ \A other \in Handlers \ {h} : conn'[other] = conn[other]
           /\ conn'[h].todo = todo
           /\ "fire" \in Range(todo) => Due' = Due \cup ids
           /\ "fire" \notin Range(todo) => Due' = Due
<1>1. /\ \A other \in Handlers \ {h} : conn'[other] = conn[other]
      /\ conn'[h] = [fire |-> ids, todo |-> todo]
      /\ ConnTypeOK'
  BY DEF Then, ConnTypeOK
<1>2. conn'[h].todo = todo /\ conn'[h].fire = ids
  BY <1>1
<1>3. "fire" \notin Range(conn[h].todo)
  BY ChoreListRanges DEF Idle
<1>4. \A id : AboutToFire(id)' <=> AboutToFire(id) \/ ("fire" \in Range(todo) /\ id \in ids)
  BY <1>1, <1>2, <1>3 DEF AboutToFire
<1> QED
  BY <1>1, <1>2, <1>4 DEF Due

LEMMA DoneFacts ==
    ASSUME ConnTypeOK, NEW h \in Handlers, ~Idle(h), ChoreDone(h)
    PROVE  /\ ConnTypeOK'
           /\ \A other \in Handlers \ {h} : conn'[other] = conn[other]
           /\ Range(conn'[h].todo) = Range(conn[h].todo) \ {Head(conn[h].todo)}
           /\ Head(conn[h].todo) # "fire" => Due' = Due
           /\ Head(conn[h].todo) = "fire" => Due' \subseteq Due /\ Due \subseteq Due' \cup conn[h].fire
<1> DEFINE todo == conn[h].todo
<1>1. todo \in ChoreLists /\ todo # <<>> /\ conn[h].fire \in SUBSET Nat
  BY DEF ConnTypeOK, Idle
<1>2. /\ Head(todo) \in Range(todo)
      /\ Tail(todo) \in ChoreLists
      /\ Range(Tail(todo)) = Range(todo) \ {Head(todo)}
      /\ "fire" \in Range(todo) => Head(todo) = "fire"
  BY <1>1, ChoreDoneFacts
<1>3. /\ \A other \in Handlers \ {h} : conn'[other] = conn[other]
      /\ conn'[h] = [fire |-> {}, todo |-> Tail(todo)]
      /\ ConnTypeOK'
  BY <1>2 DEF ChoreDone, ConnTypeOK
<1>4. conn'[h].todo = Tail(todo) /\ conn'[h].fire = {}
  BY <1>3
<1>5. \A id : AboutToFire(id)' => AboutToFire(id)
  BY <1>3, <1>4 DEF AboutToFire
<1>6. \A id : AboutToFire(id) => AboutToFire(id)' \/ ("fire" \in Range(todo) /\ id \in conn[h].fire)
  BY <1>3, <1>4 DEF AboutToFire
<1> QED
  BY <1>2, <1>3, <1>4, <1>5, <1>6 DEF Due

-----------------------------------------------------------------------------
(* Requests, by what they do to the runs *)

\* The calls of requests, RequestRestart apart.
PlainCall == AddCall \/ MoveCall \/ PriorityCall \/ LimitCall \/ PruneCall

\* Most requests ask nothing of any run.
Silent(h) ==
    /\ UNCHANGED runs
    /\ \/ UNCHANGED conn
       \/ \E todo \in ChoreLists : "fire" \notin Range(todo) /\ Then(h, {}, todo)
    /\ PlainCall \/ UNCHANGED queueVars

\* Kill, KillAll and Restart ask it of running jobs, and go on to signal them.
Signals(h, ids, what) ==
    /\ ids \in SUBSET Running
    /\ Ask(ids, what)
    /\ \E todo \in ChoreLists : "fire" \in Range(todo) /\ Then(h, ids, todo)
    /\ \/ what = "kill" /\ (MoveCall \/ UNCHANGED queueVars)
       \/ /\ what = "restart"
          /\ "Restart" \in Requests
          /\ UNCHANGED <<next_id, jobs, cpu_limit>>
          /\ restart_requested' = restart_requested \cup ids

SomeoneSignals(h) == \E ids, what : Signals(h, ids, what)

LEMMA QuietLists ==
    ASSUME NEW todo \in {<<>>, <<"persist">>, <<"notify">>, <<"persist", "notify">>}
    PROVE  todo \in ChoreLists /\ "fire" \notin Range(todo)
BY ChoreListRanges DEF ChoreLists, Chores

LEMMA LoudLists ==
    ASSUME NEW todo \in {<<"fire">>, <<"fire", "persist">>}
    PROVE  todo \in ChoreLists /\ "fire" \in Range(todo)
BY ChoreListRanges DEF ChoreLists, Chores

LEMMA SavedIsSilent ==
    ASSUME NEW h, NEW todo \in {<<>>, <<"persist">>, <<"notify">>, <<"persist", "notify">>},
           Commit(h, todo) \/ CommitNewJob(h) \/ (Unlock(h, {}, todo) /\ UNCHANGED runs),
           PlainCall \/ UNCHANGED queueVars
    PROVE  Silent(h)
BY QuietLists DEF Silent, Commit, CommitNewJob, Unlock, SaveFails

LEMMA RequestShapes ==
    ASSUME DaemonInv, NEW h \in Handlers, Request(h)
    PROVE  Silent(h) \/ SomeoneSignals(h)
<1> USE DEF PlainCall
<1>0. QueueTypeOK
  BY DEF DaemonInv, TypeOK
<1>1. CASE AddRequest(h) \/ RerunRequest(h)
  <2>1. AddCall /\ CommitNewJob(h)
    BY <1>0, <1>1, RerunIsAdd DEF AddRequest, RerunRequest, AddCall
  <2> QED
    BY <2>1, SavedIsSilent
<1>2. CASE Kill(h)
  <2>1. PICK id \in DOMAIN jobs :
               \/ DropPending(id) /\ Unlock(h, {}, <<"persist">>) /\ UNCHANGED runs
               \/ /\ id \in InState({"Running"})
                  /\ Ask({id}, "kill")
                  /\ Unlock(h, {id}, <<"fire">>)
                  /\ UNCHANGED queueVars
    BY <1>2 DEF Kill
  <2>2. CASE DropPending(id) /\ Unlock(h, {}, <<"persist">>) /\ UNCHANGED runs
    BY <2>2, PendingMoves, SavedIsSilent
  <2>3. CASE /\ id \in InState({"Running"})
             /\ Ask({id}, "kill")
             /\ Unlock(h, {id}, <<"fire">>)
             /\ UNCHANGED queueVars
    <3>1. Signals(h, {id}, "kill")
      BY <2>3, LoudLists DEF Signals, Unlock, Running
    <3> QED
      BY <3>1 DEF SomeoneSignals
  <2> QED
    BY <2>1, <2>2, <2>3
<1>3. CASE KillAll(h)
  <2>1. Signals(h, Running, "kill")
    BY <1>3, PendingMoves, LoudLists DEF KillAll, Signals, Unlock, Running
  <2> QED
    BY <2>1 DEF SomeoneSignals
<1>4. CASE "Restart" \in Requests /\ Restart(h)
  <2>1. PICK id \in DOMAIN jobs :
               RequestRestart(id) /\ Ask({id}, "restart") /\ Unlock(h, {id}, <<"fire">>)
    BY <1>4 DEF Restart
  <2>2. Signals(h, {id}, "restart")
    BY <1>4, <2>1, LoudLists DEF Signals, Unlock, RequestRestart, Running
  <2> QED
    BY <2>2 DEF SomeoneSignals
<1>5. CASE SetPriorityRequest(h)
  <2>1. PriorityCall /\ Unlock(h, {}, <<"persist", "notify">>) /\ UNCHANGED runs
    BY <1>5 DEF SetPriorityRequest, PriorityCall, SetPriority
  <2> QED
    BY <2>1, SavedIsSilent
<1>6. CASE PauseJobRequest(h) \/ ResumeJobRequest(h)
  <2>1. PICK todo \in {<<"persist">>, <<"persist", "notify">>} :
               MoveCall /\ Unlock(h, {}, todo) /\ UNCHANGED runs
    BY <1>6, PendingMoves DEF PauseJobRequest, ResumeJobRequest
  <2> QED
    BY <2>1, SavedIsSilent
<1>7. CASE SetLabel(h)
  BY <1>7, SavedIsSilent DEF SetLabel
<1>8. CASE RemoveRequest(h) \/ Clear(h)
  <2>1. PruneCall /\ Commit(h, <<>>)
    BY <1>8, Prunings DEF RemoveRequest, Clear
  <2> QED
    BY <2>1, SavedIsSilent
<1>9. CASE SetCpuLimitRequest(h)
  <2>1. LimitCall /\ Commit(h, <<"notify">>)
    BY <1>9 DEF SetCpuLimitRequest, LimitCall
  <2> QED
    BY <2>1, SavedIsSilent
<1>10. CASE PauseAllQueuedRequest(h) \/ ResumeAllPausedRequest(h)
  <2>1. PICK todo \in {<<>>, <<"notify">>} : MoveCall /\ Commit(h, todo)
    BY <1>10, PendingMoves DEF PauseAllQueuedRequest, ResumeAllPausedRequest
  <2> QED
    BY <2>1, SavedIsSilent
<1> QED
  BY <1>1, <1>2, <1>3, <1>4, <1>5, <1>6, <1>7, <1>8, <1>9, <1>10 DEF Request

\* Of a request, what concerns the tasks.
LEMMA RequestConn ==
    ASSUME DaemonInv, ConnTypeOK, NEW h \in Handlers, Idle(h)
    PROVE  /\ Silent(h) => Due' = Due /\ ConnTypeOK'
           /\ \A ids, what : Signals(h, ids, what) => Due' = Due \cup ids /\ ConnTypeOK'
<1>1. ASSUME Silent(h) PROVE Due' = Due /\ ConnTypeOK'
  BY <1>1, ThenFacts, UnchangedConn DEF Silent
<1>2. ASSUME NEW ids, NEW what, Signals(h, ids, what) PROVE Due' = Due \cup ids /\ ConnTypeOK'
  <2>1. ids \in SUBSET Nat
    BY <1>2 DEF Signals, Running, InState, DaemonInv, TypeOK, QueueTypeOK, IsQueue
  <2> QED
    BY <1>2, <2>1, ThenFacts DEF Signals
<1> QED
  BY <1>1, <1>2

-----------------------------------------------------------------------------
(* What each step does to the runs *)

\* All of a run but its phase and its result.
SameRun(r) ==
    /\ runs'[r].job = runs[r].job
    /\ runs'[r].gpus = runs[r].gpus
    /\ runs'[r].fired = runs[r].fired
    /\ runs'[r].asked = runs[r].asked
    /\ runs'[r].armed = runs[r].armed

\* One run changes its phase.
OnlyPhase(r, from, to) ==
    /\ DOMAIN runs' = DOMAIN runs
    /\ \A other \in DOMAIN runs \ {r} : runs'[other] = runs[other]
    /\ SameRun(r)
    /\ runs[r].phase = from
    /\ runs'[r].phase = to

LEMMA AskFacts ==
    ASSUME RunsTypeOK, NEW ids, NEW what, Ask(ids, what)
    PROVE  /\ DOMAIN runs' = DOMAIN runs
           /\ \A r \in DOMAIN runs :
                 /\ runs'[r].job = runs[r].job
                 /\ runs'[r].gpus = runs[r].gpus
                 /\ runs'[r].phase = runs[r].phase
                 /\ runs'[r].fired = runs[r].fired
                 /\ IF runs[r].job \in ids /\ runs[r].phase \in Current
                    THEN /\ runs'[r].asked = what
                         /\ runs[r].phase \notin Armed => runs'[r].armed = runs[r].armed
                    ELSE runs'[r] = runs[r]
<1>1. DOMAIN runs' = DOMAIN runs
  BY DEF Ask
<1> SUFFICES ASSUME NEW r \in DOMAIN runs
             PROVE  /\ runs'[r].job = runs[r].job
                    /\ runs'[r].gpus = runs[r].gpus
                    /\ runs'[r].phase = runs[r].phase
                    /\ runs'[r].fired = runs[r].fired
                    /\ IF runs[r].job \in ids /\ runs[r].phase \in Current
                       THEN /\ runs'[r].asked = what
                            /\ runs[r].phase \notin Armed => runs'[r].armed = runs[r].armed
                       ELSE runs'[r] = runs[r]
  BY <1>1
<1>2. runs[r] \in Run
  BY DEF RunsTypeOK
<1>3. CASE runs[r].job \in ids /\ runs[r].phase \in Current
  <2>1. runs'[r] = [runs[r] EXCEPT !.asked = what, !.armed = @ \/ runs[r].phase \in Armed]
    BY <1>3 DEF Ask
  <2>2. runs[r].phase \notin Armed => (runs[r].armed \/ runs[r].phase \in Armed) = runs[r].armed
    BY <1>2 DEF Run
  <2> QED
    BY <1>2, <1>3, <2>1, <2>2 DEF Run
<1>4. CASE ~(runs[r].job \in ids /\ runs[r].phase \in Current)
  BY <1>4 DEF Ask
<1> QED
  BY <1>3, <1>4

LEMMA FireFacts ==
    ASSUME RunsTypeOK, NEW h, Fire(h)
    PROVE  /\ DOMAIN runs' = DOMAIN runs
           /\ \A r \in DOMAIN runs :
                 /\ runs'[r].job = runs[r].job
                 /\ runs'[r].gpus = runs[r].gpus
                 /\ runs'[r].phase = runs[r].phase
                 /\ runs'[r].asked = runs[r].asked
                 /\ runs'[r].armed = runs[r].armed
                 /\ runs'[r] = runs[r] \/ runs'[r].fired = TRUE
                 /\ \A id \in conn[h].fire \cap DOMAIN kills :
                       kills[id] = r => runs'[r].fired = TRUE
<1>1. DOMAIN runs' = DOMAIN runs
  BY DEF Fire
<1>2. ASSUME NEW r \in DOMAIN runs
      PROVE  /\ runs[r] \in Run
             /\ runs'[r] = IF \E id \in conn[h].fire \cap DOMAIN kills : kills[id] = r
                           THEN [runs[r] EXCEPT !.fired = TRUE] ELSE runs[r]
  BY DEF Fire, RunsTypeOK
<1> QED
  BY <1>1, <1>2 DEF Run

LEMMA ArmFacts ==
    ASSUME DaemonInv, Arm
    PROVE  /\ sched.run \in RunsIn({"spec"})
           /\ OnlyPhase(sched.run, "spec", "starting")
<1>1. sched.run \in DOMAIN runs /\ runs[sched.run].phase = "spec"
  BY DEF DaemonInv, RunPerRunningJob, SchedulerHoldsTheSpec, Arm, RunsIn
<1>2. runs[sched.run] \in Run
  BY <1>1 DEF DaemonInv, RunsTypeOK
<1> QED
  BY <1>1, <1>2 DEF Arm, OnlyPhase, SameRun, RunsIn, Run

\* The steps of a run task before its result is handed over, and after.
LEMMA MoveFacts ==
    ASSUME RunsTypeOK, NEW r \in DOMAIN runs
    PROVE  /\ Spawn(r) => OnlyPhase(r, "starting", "alive")
           /\ SpawnFails(r) => OnlyPhase(r, "starting", "ended")
           /\ Exits(r) \/ KilledTree(r) => OnlyPhase(r, "alive", "ended")
           /\ Disarm(r) => OnlyPhase(r, "ended", "disarmed")
           /\ RunPersists(r) => OnlyPhase(r, "settled", "persisted")
<1>1. runs[r] \in Run
  BY DEF RunsTypeOK
<1>2. ASSUME NEW from, NEW to, Moves(r, from, to)
      PROVE  OnlyPhase(r, from, to)
  BY <1>1, <1>2 DEF Moves, OnlyPhase, SameRun, Run
<1>3. ASSUME NEW from, NEW result, Ends(r, from, result)
      PROVE  OnlyPhase(r, from, "ended")
  BY <1>1, <1>3 DEF Ends, OnlyPhase, SameRun, Run
<1> QED
  BY <1>2, <1>3 DEF Spawn, SpawnFails, Exits, KilledTree, Disarm, RunPersists

LEMMA SettleFacts ==
    ASSUME RunsTypeOK, NEW r \in DOMAIN runs, Settle(r)
    PROVE  /\ DOMAIN runs' = DOMAIN runs
           /\ \A other \in DOMAIN runs \ {r} : runs'[other] = runs[other]
           /\ runs[r].phase = "disarmed"
           /\ runs'[r].phase = "settled"
           /\ runs'[r].job = runs[r].job
<1>1. runs[r] \in Run
  BY DEF RunsTypeOK
<1> QED
  BY <1>1 DEF Settle, Spent, Run

LEMMA LeaveFacts ==
    ASSUME NEW r \in DOMAIN runs, RunNotifies(r)
    PROVE  /\ DOMAIN runs' = DOMAIN runs \ {r}
           /\ \A other \in DOMAIN runs \ {r} : runs'[other] = runs[other]
           /\ runs[r].phase = "persisted"
BY DEF RunNotifies, Restrict

LEMMA PickFacts ==
    ASSUME DaemonInv, Pick
    PROVE  /\ FreeSlot \in Nat \ DOMAIN runs
           /\ DOMAIN runs' = DOMAIN runs \cup {FreeSlot}
           /\ \A r \in DOMAIN runs : runs'[r] = runs[r]
           /\ runs'[FreeSlot] = [job |-> NextRunnable, gpus |-> jobs'[NextRunnable].assigned_gpus,
                                 phase |-> "spec", fired |-> FALSE, result |-> "Exited",
                                 asked |-> IF AboutToFire(NextRunnable) THEN "late" ELSE "nothing",
                                 armed |-> FALSE]
<1>1. FreeSlot \in (0 .. MaxTasks - 1) \ DOMAIN runs
  <2>1. (0 .. MaxTasks - 1) \ DOMAIN runs \in SUBSET Nat
    OBVIOUS
  <2>2. \E r \in (0 .. MaxTasks - 1) \ DOMAIN runs :
           \A other \in (0 .. MaxTasks - 1) \ DOMAIN runs : r <= other
    BY <2>1, LeastNatural DEF Pick
  <2> QED
    BY <2>2 DEF FreeSlot
<1> QED
  BY <1>1 DEF Pick

-----------------------------------------------------------------------------
(* Kill switches *)

\* The connection and scheduler steps that start no task, fire no switch and
\* end no daemon.
LEMMA Bystanders ==
    ASSUME DaemonInv,
           \/ \E h \in Handlers : Request(h) \/ Persist(h) \/ NotifyOne(h)
           \/ Wake \/ NothingFits \/ SchedPersist
           \/ LeftoverExits \/ UNCHANGED vars
    PROVE  /\ UNCHANGED kills
           /\ DOMAIN runs' = DOMAIN runs
           /\ \A r \in DOMAIN runs : /\ runs'[r].job = runs[r].job
                                     /\ runs'[r].phase = runs[r].phase
                                     /\ runs'[r].fired = runs[r].fired
<1>1. CASE \E h \in Handlers : Request(h)
  <2>1. PICK h \in Handlers : Request(h)
    BY <1>1
  <2>2. UNCHANGED runs \/ \E ids, what : Ask(ids, what)
    BY <2>1, RequestShapes DEF Silent, SomeoneSignals, Signals
  <2> QED
    BY <2>1, <2>2, AskFacts DEF Request, DaemonInv
<1>2. CASE \/ \E h \in Handlers : Persist(h) \/ NotifyOne(h)
           \/ Wake \/ NothingFits \/ SchedPersist
           \/ LeftoverExits \/ UNCHANGED vars
  BY <1>2 DEF Persist, NotifyOne, Wake, NothingFits, SchedPersist, LeftoverExits, vars, taskVars
<1> QED
  BY <1>1, <1>2

KillsInv == Killable /\ kills \in [DOMAIN kills -> Nat]

LEMMA MoveKillable ==
    ASSUME DaemonInv, KillsInv, NEW r \in DOMAIN runs, NEW from, NEW to, OnlyPhase(r, from, to),
           \/ <<from, to>> = <<"starting", "alive">>
           \/ from \in Armed /\ to = "ended"
           \/ from \notin Armed \cup {"ended"} /\ to \notin Armed \cup {"ended"},
           UNCHANGED kills
    PROVE  KillsInv'
<1> USE DEF Armed
<1>1. DOMAIN runs' = DOMAIN runs /\ \A other \in DOMAIN runs \ {r} : runs'[other] = runs[other]
  BY DEF OnlyPhase
<1>2. runs'[r].job = runs[r].job /\ runs'[r].fired = runs[r].fired
  BY DEF OnlyPhase, SameRun
<1>3. /\ RunsIn(Armed)' \subseteq RunsIn(Armed)
      /\ RunsIn(Armed \cup {"ended"}) \subseteq RunsIn(Armed \cup {"ended"})'
  BY <1>1 DEF OnlyPhase, RunsIn
<1>4. \A other \in DOMAIN runs : runs'[other].job = runs[other].job /\ runs'[other].fired = runs[other].fired
  BY <1>1, <1>2
<1> QED
  BY <1>3, <1>4 DEF KillsInv, Killable, RunsIn

LEMMA KillableStep ==
    DaemonInv /\ KillsInv /\ [DaemonNext]_vars => KillsInv'
<1> SUFFICES ASSUME DaemonInv, KillsInv, [DaemonNext]_vars PROVE KillsInv'
  OBVIOUS
<1> USE DEF Armed
<1>0. /\ \A r \in RunsIn(Armed) : \/ runs[r].fired
                                  \/ runs[r].job \in DOMAIN kills /\ kills[runs[r].job] = r
      /\ \A id \in DOMAIN kills : kills[id] \in RunsIn(Armed \cup {"ended"}) /\ runs[kills[id]].job = id
      /\ kills \in [DOMAIN kills -> Nat]
  BY DEF KillsInv, Killable
<1>a. \A r, other \in RunsIn(Current) : runs[r].job = runs[other].job => r = other
  BY DEF DaemonInv, RunPerRunningJob, EachRunHasItsJob
<1>1. CASE \/ \E h \in Handlers : Request(h) \/ Persist(h) \/ NotifyOne(h)
           \/ Wake \/ NothingFits \/ SchedPersist
           \/ LeftoverExits \/ UNCHANGED vars
  <2>1. /\ UNCHANGED kills
        /\ DOMAIN runs' = DOMAIN runs
        /\ \A r \in DOMAIN runs : /\ runs'[r].job = runs[r].job
                                  /\ runs'[r].phase = runs[r].phase
                                  /\ runs'[r].fired = runs[r].fired
    BY <1>1, Bystanders
  <2> QED
    BY <2>1 DEF KillsInv, Killable, RunsIn
<1>2. CASE \E h \in Handlers : Fire(h)
  <2>1. PICK h \in Handlers : Fire(h)
    BY <1>2
  <2>2. /\ DOMAIN kills' = DOMAIN kills \ conn[h].fire
        /\ \A id \in DOMAIN kills' : kills'[id] = kills[id]
        /\ kills' = [id \in DOMAIN kills' |-> kills'[id]]
    BY <2>1 DEF Fire, Restrict
  <2>3. /\ DOMAIN runs' = DOMAIN runs
        /\ \A r \in DOMAIN runs :
              /\ runs'[r].job = runs[r].job
              /\ runs'[r].phase = runs[r].phase
              /\ runs'[r] = runs[r] \/ runs'[r].fired = TRUE
              /\ \A id \in conn[h].fire \cap DOMAIN kills : kills[id] = r => runs'[r].fired = TRUE
    BY <2>1, FireFacts DEF DaemonInv
  <2>4. RunsIn(Armed)' = RunsIn(Armed) /\ RunsIn(Armed \cup {"ended"})' = RunsIn(Armed \cup {"ended"})
    BY <2>3 DEF RunsIn
  <2>5. ASSUME NEW r \in RunsIn(Armed)
        PROVE  \/ runs'[r].fired
               \/ runs'[r].job \in DOMAIN kills' /\ kills'[runs'[r].job] = r
    BY <1>0, <2>2, <2>3, <2>5 DEF RunsIn
  <2>6. ASSUME NEW id \in DOMAIN kills'
        PROVE  kills'[id] \in RunsIn(Armed \cup {"ended"})' /\ runs'[kills'[id]].job = id
    BY <1>0, <2>2, <2>3, <2>4 DEF RunsIn
  <2>7. kills' \in [DOMAIN kills' -> Nat]
    BY <1>0, <2>2
  <2> QED
    BY <2>4, <2>5, <2>6, <2>7 DEF KillsInv, Killable
<1>3. CASE Pick
  <2>1. /\ FreeSlot \notin DOMAIN runs
        /\ DOMAIN runs' = DOMAIN runs \cup {FreeSlot}
        /\ \A r \in DOMAIN runs : runs'[r] = runs[r]
        /\ runs'[FreeSlot].phase = "spec"
        /\ UNCHANGED kills
    BY <1>3, PickFacts DEF Pick
  <2> HIDE DEF FreeSlot
  <2>2. RunsIn(Armed)' = RunsIn(Armed) /\ RunsIn(Armed \cup {"ended"})' = RunsIn(Armed \cup {"ended"})
    BY <2>1 DEF RunsIn
  <2> QED
    BY <1>0, <2>1, <2>2 DEF KillsInv, Killable, RunsIn
<1>4. CASE Arm
  <2> DEFINE slot == sched.run
             job  == runs[slot].job
  <2>1. slot \in RunsIn({"spec"}) /\ OnlyPhase(slot, "spec", "starting")
    BY <1>4, ArmFacts
  <2>2. slot \in Nat /\ slot \in DOMAIN runs /\ slot \in RunsIn(Current)
    BY <2>1 DEF RunsIn, DaemonInv, RunsTypeOK, Current
  <2>3. /\ DOMAIN kills' = DOMAIN kills \cup {job}
        /\ kills'[job] = slot
        /\ \A id \in DOMAIN kills \ {job} : kills'[id] = kills[id]
        /\ kills' = [id \in DOMAIN kills' |-> kills'[id]]
    BY <1>4 DEF Arm
  <2>4. /\ DOMAIN runs' = DOMAIN runs
        /\ \A r \in DOMAIN runs \ {slot} : runs'[r] = runs[r]
        /\ runs[slot].phase = "spec"
        /\ runs'[slot].phase = "starting"
        /\ runs'[slot].job = job
    BY <2>1 DEF OnlyPhase, SameRun
  <2> HIDE DEF slot
  <2>5. /\ RunsIn(Armed)' = RunsIn(Armed) \cup {slot}
        /\ RunsIn(Armed \cup {"ended"})' = RunsIn(Armed \cup {"ended"}) \cup {slot}
        /\ slot \notin RunsIn(Armed \cup {"ended"})
        /\ RunsIn(Armed) \subseteq RunsIn(Current)
    BY <2>2, <2>4 DEF RunsIn, Current
  <2>6. ASSUME NEW r \in RunsIn(Armed)'
        PROVE  \/ runs'[r].fired
               \/ runs'[r].job \in DOMAIN kills' /\ kills'[runs'[r].job] = r
    <3>1. CASE r = slot
      BY <2>3, <2>4, <3>1
    <3>2. CASE r # slot
      <4>1. r \in RunsIn(Armed) /\ runs'[r] = runs[r] /\ runs[r].job # job
        BY <1>a, <2>2, <2>4, <2>5, <3>2 DEF RunsIn
      <4> QED
        BY <1>0, <2>3, <4>1
    <3> QED
      BY <3>1, <3>2
  <2>7. ASSUME NEW id \in DOMAIN kills'
        PROVE  kills'[id] \in RunsIn(Armed \cup {"ended"})' /\ runs'[kills'[id]].job = id
    <3>1. CASE id = job
      BY <2>3, <2>4, <2>5, <3>1
    <3>2. CASE id # job
      BY <1>0, <2>3, <2>4, <2>5, <3>2 DEF RunsIn
    <3> QED
      BY <3>1, <3>2
  <2>8. kills' \in [DOMAIN kills' -> Nat]
    BY <1>0, <2>2, <2>3
  <2> QED
    BY <2>6, <2>7, <2>8 DEF KillsInv, Killable
<1>5. CASE \E r \in DOMAIN runs : RunTask(r) \/ ProcessExits(r)
  <2>1. PICK r \in DOMAIN runs :
               \/ Spawn(r) \/ SpawnFails(r) \/ KilledTree(r) \/ Exits(r) \/ Disarm(r)
               \/ Settle(r) \/ RunPersists(r) \/ RunNotifies(r)
    BY <1>5 DEF RunTask, ProcessExits
  <2>2. CASE Spawn(r) \/ SpawnFails(r) \/ KilledTree(r) \/ Exits(r) \/ RunPersists(r)
    <3>1. UNCHANGED kills
      BY <2>2 DEF Spawn, SpawnFails, KilledTree, Exits, RunPersists
    <3>2. PICK from, to : /\ OnlyPhase(r, from, to)
                          /\ \/ <<from, to>> = <<"starting", "alive">>
                             \/ from \in Armed /\ to = "ended"
                             \/ from \notin Armed \cup {"ended"} /\ to \notin Armed \cup {"ended"}
      BY <2>2, MoveFacts DEF DaemonInv
    <3> QED
      BY <3>1, <3>2, MoveKillable
  <2>3. CASE Disarm(r)
    <3>1. OnlyPhase(r, "ended", "disarmed")
      BY <2>3, MoveFacts DEF DaemonInv
    <3>2. /\ DOMAIN kills' = DOMAIN kills \ {runs[r].job}
          /\ \A id \in DOMAIN kills' : kills'[id] = kills[id]
          /\ kills' = [id \in DOMAIN kills' |-> kills'[id]]
      BY <2>3 DEF Disarm, Restrict
    <3>3. /\ DOMAIN runs' = DOMAIN runs
          /\ \A other \in DOMAIN runs \ {r} : runs'[other] = runs[other]
          /\ runs[r].phase = "ended"
          /\ runs'[r].phase = "disarmed"
      BY <3>1 DEF OnlyPhase
    <3>4. /\ RunsIn(Armed)' = RunsIn(Armed)
          /\ RunsIn(Armed \cup {"ended"})' = RunsIn(Armed \cup {"ended"}) \ {r}
          /\ r \in RunsIn(Current) /\ r \notin RunsIn(Armed)
          /\ RunsIn(Armed) \subseteq RunsIn(Current)
      BY <3>3 DEF RunsIn, Current
    <3>5. ASSUME NEW other \in RunsIn(Armed)
          PROVE  \/ runs'[other].fired
                 \/ runs'[other].job \in DOMAIN kills' /\ kills'[runs'[other].job] = other
      <4>1. runs'[other] = runs[other] /\ runs[other].job # runs[r].job
        BY <1>a, <3>3, <3>4 DEF RunsIn
      <4> QED
        BY <1>0, <3>2, <4>1
    <3>6. ASSUME NEW id \in DOMAIN kills'
          PROVE  kills'[id] \in RunsIn(Armed \cup {"ended"})' /\ runs'[kills'[id]].job = id
      <4>1. kills[id] # r /\ kills[id] \in DOMAIN runs
        BY <1>0, <3>2 DEF RunsIn
      <4> QED
        BY <1>0, <3>2, <3>3, <3>4, <4>1
    <3>7. kills' \in [DOMAIN kills' -> Nat]
      BY <1>0, <3>2
    <3> QED
      BY <3>4, <3>5, <3>6, <3>7 DEF KillsInv, Killable
  <2>4. CASE Settle(r) \/ RunNotifies(r)
    <3>1. /\ UNCHANGED kills
          /\ \A other \in DOMAIN runs \ {r} : other \in DOMAIN runs' /\ runs'[other] = runs[other]
          /\ DOMAIN runs' \subseteq DOMAIN runs
          /\ runs[r].phase \in {"disarmed", "persisted"}
          /\ r \in DOMAIN runs' => runs'[r].phase = "settled"
      BY <2>4, SettleFacts, LeaveFacts DEF DaemonInv, Settle, RunNotifies
    <3>2. RunsIn(Armed)' = RunsIn(Armed) /\ RunsIn(Armed \cup {"ended"})' = RunsIn(Armed \cup {"ended"})
      BY <3>1 DEF RunsIn
    <3>3. \A other \in RunsIn(Armed \cup {"ended"}) : runs'[other] = runs[other]
      BY <3>1 DEF RunsIn
    <3>4. RunsIn(Armed) \subseteq RunsIn(Armed \cup {"ended"})
      BY DEF RunsIn
    <3> QED
      BY <1>0, <3>1, <3>2, <3>3, <3>4 DEF KillsInv, Killable
  <2> QED
    BY <2>1, <2>2, <2>3, <2>4
<1>6. CASE DieAndStart
  <2>1. DOMAIN kills' = {} /\ DOMAIN runs' = {} /\ kills' \in [DOMAIN kills' -> Nat]
    BY <1>6 DEF DieAndStart
  <2> QED
    BY <2>1 DEF KillsInv, Killable, RunsIn
<1> QED
  BY <1>1, <1>2, <1>3, <1>4, <1>5, <1>6 DEF DaemonNext, Chore, Scheduler

-----------------------------------------------------------------------------
(* The steps of the daemon, as far as signals are concerned *)

\* Nothing is asked, signalled, started or ended.
QuietTurn ==
    /\ UNCHANGED runs
    /\ Due' = Due
    /\ PlainCall \/ UNCHANGED queueVars

\* Running jobs are asked to stop, and will be signalled.
SignalTurn ==
    \E h, ids, what : Signals(h, ids, what) /\ Due' = Due \cup ids

\* Switches are fired.
FireTurn ==
    \E h \in Handlers :
        /\ Fire(h)
        /\ conn[h].fire \subseteq Due
        /\ Due' \subseteq Due
        /\ Due \subseteq Due' \cup conn[h].fire
        /\ UNCHANGED queueVars

\* The way of a run up to the hand-over of its result, and after it.
Advances(from, to) ==
    \/ from = "spec" /\ to = "starting"
    \/ from = "starting" /\ to \in {"alive", "ended"}
    \/ from = "alive" /\ to = "ended"
    \/ from = "ended" /\ to = "disarmed"
    \/ from = "settled" /\ to = "persisted"

PhaseTurn ==
    /\ \E r \in DOMAIN runs : \E from, to : Advances(from, to) /\ OnlyPhase(r, from, to)
    /\ Due' = Due
    /\ UNCHANGED queueVars

PickTurn   == Pick /\ Due' = Due
SettleTurn == \E r \in DOMAIN runs : Settle(r) /\ Due' = Due
LeaveTurn  == \E r \in DOMAIN runs : RunNotifies(r) /\ Due' = Due /\ UNCHANGED queueVars

LEMMA Turns ==
    ASSUME DaemonInv, ConnTypeOK, [DaemonNext]_vars
    PROVE  /\ \/ QuietTurn \/ SignalTurn \/ FireTurn \/ PhaseTurn
              \/ PickTurn \/ SettleTurn \/ LeaveTurn \/ DieAndStart
           /\ ConnTypeOK'
<1> USE DEF appVars
<1>1. CASE \E h \in Handlers : Request(h)
  <2>1. PICK h \in Handlers : Request(h) /\ Idle(h)
    BY <1>1 DEF Request
  <2>2. CASE Silent(h)
    BY <2>1, <2>2, RequestConn DEF QuietTurn, Silent
  <2>3. CASE SomeoneSignals(h)
    BY <2>1, <2>3, RequestConn DEF SignalTurn, SomeoneSignals
  <2> QED
    BY <2>1, <2>2, <2>3, RequestShapes
<1>2. CASE \E h \in Handlers : Fire(h)
  <2>1. PICK h \in Handlers : Fire(h)
    BY <1>2
  <2>2. ~Idle(h) /\ Head(conn[h].todo) = "fire" /\ ChoreDone(h) /\ UNCHANGED queueVars
    BY <2>1 DEF Fire, Owes
  <2>3. ConnTypeOK' /\ Due' \subseteq Due /\ Due \subseteq Due' \cup conn[h].fire
    BY <2>2, DoneFacts
  <2>4. conn[h].fire \subseteq Due
    <3>1. conn[h].todo \in ChoreLists /\ conn[h].todo # <<>> /\ conn[h].fire \subseteq Nat
      BY <2>2 DEF ConnTypeOK, Idle
    <3>2. "fire" \in Range(conn[h].todo)
      BY <2>2, <3>1, ChoreDoneFacts
    <3> QED
      BY <3>1, <3>2 DEF Due, AboutToFire
  <2> QED
    BY <2>1, <2>2, <2>3, <2>4 DEF FireTurn
<1>3. CASE \E h \in Handlers : Persist(h) \/ NotifyOne(h)
  <2>1. PICK h \in Handlers : Persist(h) \/ NotifyOne(h)
    BY <1>3
  <2>2. ~Idle(h) /\ Head(conn[h].todo) # "fire" /\ ChoreDone(h) /\ UNCHANGED <<queueVars, runs>>
    BY <2>1 DEF Persist, NotifyOne, Owes
  <2> QED
    BY <2>2, DoneFacts DEF QuietTurn
<1>4. CASE Wake \/ NothingFits \/ SchedPersist \/ LeftoverExits \/ UNCHANGED vars
  <2>1. UNCHANGED <<queueVars, runs, conn>>
    BY <1>4 DEF Wake, NothingFits, SchedPersist, LeftoverExits, vars, taskVars
  <2> QED
    BY <2>1, UnchangedConn DEF QuietTurn
<1>5. CASE Pick
  BY <1>5, UnchangedConn DEF PickTurn, Pick
<1>6. CASE Arm
  <2>1. UNCHANGED <<queueVars, conn>>
    BY <1>6 DEF Arm
  <2>2. sched.run \in DOMAIN runs /\ OnlyPhase(sched.run, "spec", "starting")
    BY <1>6, ArmFacts DEF RunsIn
  <2> QED
    BY <2>1, <2>2, UnchangedConn DEF PhaseTurn, Advances
<1>7. CASE \E r \in DOMAIN runs : RunTask(r) \/ ProcessExits(r)
  <2>1. PICK r \in DOMAIN runs :
               \/ Spawn(r) \/ SpawnFails(r) \/ KilledTree(r) \/ Exits(r) \/ Disarm(r)
               \/ Settle(r) \/ RunPersists(r) \/ RunNotifies(r)
    BY <1>7 DEF RunTask, ProcessExits
  <2>2. Due' = Due /\ ConnTypeOK'
    BY <1>7, UnchangedConn DEF RunTask, ProcessExits
  <2>3. CASE Spawn(r) \/ SpawnFails(r) \/ KilledTree(r) \/ Exits(r) \/ Disarm(r) \/ RunPersists(r)
    <3>1. UNCHANGED queueVars
      BY <2>3 DEF Spawn, SpawnFails, KilledTree, Exits, Disarm, RunPersists
    <3>2. \E from, to : Advances(from, to) /\ OnlyPhase(r, from, to)
      BY <2>3, MoveFacts DEF DaemonInv, Advances
    <3> QED
      BY <2>2, <3>1, <3>2 DEF PhaseTurn
  <2>4. CASE Settle(r)
    BY <2>2, <2>4 DEF SettleTurn
  <2>5. CASE RunNotifies(r)
    BY <2>2, <2>5 DEF LeaveTurn, RunNotifies
  <2> QED
    BY <2>1, <2>3, <2>4, <2>5
<1>8. CASE DieAndStart
  <2>1. conn' = [h \in Handlers |-> [fire |-> {}, todo |-> <<>>]]
    BY <1>8 DEF DieAndStart
  <2> QED
    BY <1>8, <2>1 DEF ConnTypeOK, ChoreLists
<1> QED
  BY <1>1, <1>2, <1>3, <1>4, <1>5, <1>6, <1>7, <1>8 DEF DaemonNext, Chore, Scheduler

-----------------------------------------------------------------------------
(* A request that came after the switch was registered has signalled its run *)

Signalled(r) == runs[r].fired
WasArmed(r)  == runs[r].armed

\* No run that still waits for its switch has been marked.
ArmedInv ==
    /\ \A r \in RunsIn(Armed) : WasArmed(r) => Signalled(r) \/ runs[r].job \in Due
    /\ \A r \in RunsIn({"spec"}) : ~WasArmed(r)

LEMMA ArmedStep ==
    ASSUME DaemonInv, ConnTypeOK, KillsInv, ArmedInv, [DaemonNext]_vars
    PROVE  ArmedInv'
<1> USE DEF Armed
<1>0. DOMAIN runs \subseteq Nat /\ \A r \in DOMAIN runs : runs[r] \in Run
  BY DEF DaemonInv, RunsTypeOK
<1>1. CASE QuietTurn
  BY <1>1 DEF QuietTurn, ArmedInv, RunsIn, WasArmed, Signalled
<1>2. CASE SignalTurn
  <2>1. PICK h, ids, what : Signals(h, ids, what) /\ Due' = Due \cup ids
    BY <1>2 DEF SignalTurn
  <2>2. /\ DOMAIN runs' = DOMAIN runs
        /\ \A r \in DOMAIN runs :
              /\ runs'[r].job = runs[r].job
              /\ runs'[r].phase = runs[r].phase
              /\ runs'[r].fired = runs[r].fired
              /\ \/ runs'[r].armed = runs[r].armed
                 \/ runs[r].job \in ids /\ runs[r].phase \in Armed
    BY <2>1, AskFacts DEF Signals, DaemonInv
  <2>3. \A r \in DOMAIN runs : /\ Signalled(r)' <=> Signalled(r)
                               /\ \/ WasArmed(r)' <=> WasArmed(r)
                                  \/ runs[r].job \in ids /\ runs[r].phase \in Armed
    BY <2>2, Zenon DEF Signalled, WasArmed
  <2> QED
    BY <2>1, <2>2, <2>3 DEF ArmedInv, RunsIn
<1>3. CASE FireTurn
  <2>1. PICK h \in Handlers : /\ Fire(h)
                              /\ Due \subseteq Due' \cup conn[h].fire
    BY <1>3 DEF FireTurn
  <2>2. /\ DOMAIN runs' = DOMAIN runs
        /\ \A r \in DOMAIN runs :
              /\ runs'[r].job = runs[r].job
              /\ runs'[r].phase = runs[r].phase
              /\ runs'[r].armed = runs[r].armed
              /\ runs'[r].fired = runs[r].fired \/ runs'[r].fired = TRUE
              /\ \A id \in conn[h].fire \cap DOMAIN kills :
                    kills[id] = r => runs'[r].fired = TRUE
    BY <2>1, FireFacts DEF DaemonInv
  <2>3. \A r \in DOMAIN runs : /\ Signalled(r) => Signalled(r)'
                               /\ WasArmed(r)' <=> WasArmed(r)
                               /\ \A id \in conn[h].fire \cap DOMAIN kills :
                                     kills[id] = r => Signalled(r)'
    BY <2>2, Zenon DEF Signalled, WasArmed
  <2>4. \A r \in RunsIn(Armed) : \/ Signalled(r)
                                 \/ runs[r].job \in DOMAIN kills /\ kills[runs[r].job] = r
    BY DEF KillsInv, Killable, Signalled
  <2> QED
    BY <2>1, <2>2, <2>3, <2>4 DEF ArmedInv, RunsIn
<1>4. CASE PhaseTurn
  <2>0. PICK r \in DOMAIN runs : \E from, to : Advances(from, to) /\ OnlyPhase(r, from, to)
    BY <1>4 DEF PhaseTurn
  <2>1. PICK from, to : Advances(from, to) /\ OnlyPhase(r, from, to)
    BY <2>0
  <2>2. /\ DOMAIN runs' = DOMAIN runs
        /\ \A other \in DOMAIN runs : /\ runs'[other].job = runs[other].job
                                      /\ runs'[other].fired = runs[other].fired
                                      /\ runs'[other].armed = runs[other].armed
                                      /\ runs'[other].phase = runs[other].phase \/ other = r
        /\ runs[r].phase = from /\ runs'[r].phase = to
        /\ Due' = Due
    BY <1>4, <2>1 DEF OnlyPhase, SameRun, PhaseTurn
  <2>3. \A other \in DOMAIN runs : /\ Signalled(other)' <=> Signalled(other)
                                   /\ WasArmed(other)' <=> WasArmed(other)
    BY <2>2, Zenon DEF Signalled, WasArmed
  <2> QED
    BY <2>1, <2>2, <2>3 DEF ArmedInv, RunsIn, Advances
<1>5. CASE PickTurn
  <2>1. PICK slot \in Nat \ DOMAIN runs :
               /\ DOMAIN runs' = DOMAIN runs \cup {slot}
               /\ \A r \in DOMAIN runs : runs'[r] = runs[r]
               /\ runs'[slot].phase = "spec"
               /\ runs'[slot].armed = FALSE
    BY <1>5, PickFacts DEF PickTurn
  <2>2. /\ \A r \in DOMAIN runs : (Signalled(r)' <=> Signalled(r)) /\ (WasArmed(r)' <=> WasArmed(r))
        /\ ~WasArmed(slot)'
    BY <2>1, Zenon DEF Signalled, WasArmed
  <2> QED
    BY <1>5, <2>1, <2>2 DEF ArmedInv, RunsIn, PickTurn
<1>6. CASE SettleTurn \/ LeaveTurn
  <2>1. PICK r \in DOMAIN runs : (Settle(r) \/ RunNotifies(r)) /\ Due' = Due
    BY <1>6 DEF SettleTurn, LeaveTurn
  <2>2. /\ DOMAIN runs' \subseteq DOMAIN runs
        /\ \A other \in DOMAIN runs' \ {r} : runs'[other] = runs[other]
        /\ r \in DOMAIN runs' => runs'[r].phase = "settled"
    BY <2>1, SettleFacts, LeaveFacts DEF DaemonInv
  <2>3. \A other \in DOMAIN runs' \ {r} : /\ Signalled(other)' <=> Signalled(other)
                                          /\ WasArmed(other)' <=> WasArmed(other)
    BY <2>2, Zenon DEF Signalled, WasArmed
  <2> QED
    BY <2>1, <2>2, <2>3 DEF ArmedInv, RunsIn
<1>7. CASE DieAndStart
  BY <1>7 DEF DieAndStart, ArmedInv, RunsIn
<1> QED
  BY <1>1, <1>2, <1>3, <1>4, <1>5, <1>6, <1>7, Turns

-----------------------------------------------------------------------------
(* Signals have requests behind them *)

WasAsked(r) == runs[r].asked # "nothing"

\* A run whose job some task is about to signal was asked to stop, or began late;
\* and so is one that has been signalled.
SignalInv ==
    \A r \in RunsIn(Current) : runs[r].job \in Due \/ Signalled(r) => WasAsked(r)

\* For a step that keeps each Current run, its job and that it was asked.
LEMMA SignalKept ==
    ASSUME SignalInv, Due' \subseteq Due,
           RunsIn(Current)' \subseteq RunsIn(Current),
           \A r \in RunsIn(Current)' : /\ runs'[r].job = runs[r].job
                                       /\ WasAsked(r) => WasAsked(r)'
                                       /\ Signalled(r)' => Signalled(r) \/ WasAsked(r)
    PROVE  SignalInv'
BY DEF SignalInv

LEMMA SignalStep ==
    ASSUME DaemonInv, ConnTypeOK, KillsInv, SignalInv, [DaemonNext]_vars
    PROVE  SignalInv'
<1> USE DEF Armed, Current
<1>0. DOMAIN runs \subseteq Nat /\ TypeOK
  BY DEF DaemonInv, RunsTypeOK
<1>1. CASE QuietTurn
  BY <1>1, SignalKept DEF QuietTurn, RunsIn, WasAsked, Signalled
<1>2. CASE SignalTurn
  <2>1. PICK h, ids, what : Signals(h, ids, what) /\ Due' = Due \cup ids
    BY <1>2 DEF SignalTurn
  <2>2. what # "nothing" /\ Ask(ids, what)
    BY <2>1 DEF Signals
  <2>3. /\ DOMAIN runs' = DOMAIN runs
        /\ \A r \in DOMAIN runs :
              /\ runs'[r].job = runs[r].job
              /\ runs'[r].phase = runs[r].phase
              /\ runs'[r].fired = runs[r].fired
              /\ \/ runs'[r].asked = what
                 \/ runs'[r].asked = runs[r].asked /\ (runs[r].phase \in Current => runs[r].job \notin ids)
    BY <2>2, AskFacts DEF DaemonInv
  <2>4. RunsIn(Current)' = RunsIn(Current)
    BY <2>3 DEF RunsIn
  <2>5. \A r \in RunsIn(Current) : /\ runs'[r].job = runs[r].job
                                   /\ WasAsked(r) => WasAsked(r)'
                                   /\ runs[r].job \in ids => WasAsked(r)'
    BY <2>2, <2>3 DEF RunsIn, WasAsked
  <2>6. \A r \in RunsIn(Current) : runs'[r].fired = runs[r].fired
    BY <2>3 DEF RunsIn
  <2>7. \A r \in RunsIn(Current) : Signalled(r)' <=> Signalled(r)
    BY <2>6, Zenon DEF Signalled
  <2> QED
    BY <2>1, <2>4, <2>5, <2>7 DEF SignalInv
<1>3. CASE FireTurn
  <2>1. PICK h \in Handlers : Fire(h) /\ conn[h].fire \subseteq Due /\ Due' \subseteq Due
    BY <1>3 DEF FireTurn
  <2>2. /\ DOMAIN runs' = DOMAIN runs
        /\ \A r \in DOMAIN runs :
              /\ runs'[r].job = runs[r].job
              /\ runs'[r].phase = runs[r].phase
              /\ runs'[r].asked = runs[r].asked
    BY <2>1, FireFacts DEF DaemonInv
  <2>3. \A r \in DOMAIN runs :
           runs'[r] = runs[r] \/ \E id \in conn[h].fire \cap DOMAIN kills : kills[id] = r
    BY <2>1 DEF Fire
  <2>4. RunsIn(Current)' = RunsIn(Current) /\ \A r \in RunsIn(Current) : WasAsked(r)' <=> WasAsked(r)
    BY <2>2 DEF RunsIn, WasAsked
  <2>5. ASSUME NEW r \in RunsIn(Current), NEW id \in conn[h].fire \cap DOMAIN kills, kills[id] = r
        PROVE  WasAsked(r)
    <3>1. runs[r].job = id /\ id \in Due
      BY <2>1, <2>5 DEF KillsInv, Killable
    <3> QED
      BY <3>1 DEF SignalInv
  <2>6. \A r \in RunsIn(Current) : Signalled(r)' => Signalled(r) \/ WasAsked(r)
    BY <2>3, <2>5 DEF RunsIn, Signalled
  <2>7. \A r \in RunsIn(Current) : runs'[r].job = runs[r].job
    BY <2>2 DEF RunsIn
  <2> QED
    BY <2>1, <2>4, <2>6, <2>7, SignalKept
<1>4. CASE PhaseTurn
  <2>0. PICK r \in DOMAIN runs : \E from, to : Advances(from, to) /\ OnlyPhase(r, from, to)
    BY <1>4 DEF PhaseTurn
  <2>1. PICK from, to : Advances(from, to) /\ OnlyPhase(r, from, to)
    BY <2>0
  <2>2. /\ DOMAIN runs' = DOMAIN runs
        /\ \A other \in DOMAIN runs : /\ runs'[other].job = runs[other].job
                                      /\ runs'[other].fired = runs[other].fired
                                      /\ runs'[other].asked = runs[other].asked
                                      /\ runs'[other].phase = runs[other].phase \/ other = r
        /\ runs[r].phase = from /\ runs'[r].phase = to
    BY <2>1 DEF OnlyPhase, SameRun
  <2>3. RunsIn(Current)' = RunsIn(Current)
    BY <2>1, <2>2 DEF RunsIn, Advances
  <2>4. \A other \in DOMAIN runs : /\ Signalled(other)' <=> Signalled(other)
                                   /\ WasAsked(other)' <=> WasAsked(other)
    BY <2>2, Zenon DEF Signalled, WasAsked
  <2>5. \A other \in RunsIn(Current) : other \in DOMAIN runs
    BY DEF RunsIn
  <2>6. Due' = Due
    BY <1>4 DEF PhaseTurn
  <2> QED
    BY <2>2, <2>3, <2>4, <2>5, <2>6, SignalKept
<1>5. CASE PickTurn
  <2>1. PICK slot \in Nat \ DOMAIN runs :
               /\ DOMAIN runs' = DOMAIN runs \cup {slot}
               /\ \A r \in DOMAIN runs : runs'[r] = runs[r]
               /\ runs'[slot].phase = "spec"
               /\ runs'[slot].fired = FALSE
               /\ runs'[slot].job = NextRunnable
               /\ runs'[slot].asked = IF AboutToFire(NextRunnable) THEN "late" ELSE "nothing"
    BY <1>5, PickFacts DEF PickTurn
  <2>2. RunsIn(Current)' = RunsIn(Current) \cup {slot} /\ RunsIn(Current) \subseteq DOMAIN runs
    BY <2>1 DEF RunsIn
  <2>3. Due' = Due
    BY <1>5 DEF PickTurn
  <2>4. \A r \in DOMAIN runs : (Signalled(r)' <=> Signalled(r)) /\ (WasAsked(r)' <=> WasAsked(r))
    BY <2>1, Zenon DEF Signalled, WasAsked
  <2>5. ~Signalled(slot)'
    BY <2>1, Zenon DEF Signalled
  <2>6. NextRunnable \in Due => WasAsked(slot)'
    BY <2>1 DEF Due, WasAsked
  <2> QED
    BY <2>1, <2>2, <2>3, <2>4, <2>5, <2>6 DEF SignalInv
<1>6. CASE SettleTurn
  <2>1. PICK r \in DOMAIN runs : Settle(r) /\ Due' = Due
    BY <1>6 DEF SettleTurn
  <2>2. /\ DOMAIN runs' = DOMAIN runs
        /\ \A other \in DOMAIN runs \ {r} : runs'[other] = runs[other]
        /\ runs[r].phase = "disarmed"
        /\ runs'[r].phase = "settled"
    BY <2>1, SettleFacts DEF DaemonInv
  <2>3. RunsIn(Current)' = RunsIn(Current) \ {r}
    BY <2>2 DEF RunsIn
  <2>4. \A other \in RunsIn(Current)' : runs'[other] = runs[other]
    BY <2>2, <2>3 DEF RunsIn
  <2>5. \A other \in RunsIn(Current)' : (Signalled(other)' <=> Signalled(other)) /\ (WasAsked(other)' <=> WasAsked(other))
    BY <2>4, Zenon DEF Signalled, WasAsked
  <2> QED
    BY <2>1, <2>3, <2>4, <2>5, SignalKept
<1>7. CASE LeaveTurn
  <2>1. PICK r \in DOMAIN runs : RunNotifies(r) /\ Due' = Due
    BY <1>7 DEF LeaveTurn
  <2>2. /\ DOMAIN runs' = DOMAIN runs \ {r}
        /\ \A other \in DOMAIN runs \ {r} : runs'[other] = runs[other]
        /\ runs[r].phase = "persisted"
    BY <2>1, LeaveFacts
  <2>3. RunsIn(Current)' = RunsIn(Current) /\ \A other \in RunsIn(Current) : runs'[other] = runs[other]
    BY <2>2 DEF RunsIn
  <2>4. \A other \in RunsIn(Current) : (Signalled(other)' <=> Signalled(other)) /\ (WasAsked(other)' <=> WasAsked(other))
    BY <2>3, Zenon DEF Signalled, WasAsked
  <2> QED
    BY <2>1, <2>3, <2>4, SignalKept
<1>8. CASE DieAndStart
  BY <1>8 DEF DieAndStart, SignalInv, RunsIn
<1> QED
  BY <1>1, <1>2, <1>3, <1>4, <1>5, <1>6, <1>7, <1>8, Turns

-----------------------------------------------------------------------------
(* The restart that was asked of a run is the one its end consumes *)

\* What was last asked of a run is what the queue remembers of its job.
AskInv ==
    \A r \in RunsIn(Current) :
        /\ runs[r].asked = "restart" => runs[r].job \in restart_requested
        /\ runs[r].asked \notin AskedForItself => runs[r].job \notin restart_requested

LEMMA AskStep ==
    ASSUME DaemonInv, ConnTypeOK, IntentOnlyWhileRunning, AskInv, [DaemonNext]_vars
    PROVE  AskInv'
<1> USE DEF Armed, Current, AskedForItself
<1>0. DOMAIN runs \subseteq Nat /\ TypeOK
  BY DEF DaemonInv, RunsTypeOK
<1>a. \A r, other \in RunsIn(Current) : runs[r].job = runs[other].job => r = other
  BY DEF DaemonInv, RunPerRunningJob, EachRunHasItsJob
<1>1. CASE QuietTurn
  <2>1. restart_requested' = restart_requested
    BY <1>1 DEF QuietTurn, PlainCall, AddCall, Add, MoveCall, MoveAll, PriorityCall, SetPriority,
                LimitCall, SetCpuLimit, PruneCall, queueVars
  <2> QED
    BY <1>1, <2>1 DEF QuietTurn, AskInv, RunsIn
<1>2. CASE SignalTurn
  <2>1. PICK h, ids, what : Signals(h, ids, what)
    BY <1>2 DEF SignalTurn
  <2>2. /\ Ask(ids, what)
        /\ \/ what = "kill" /\ restart_requested' = restart_requested
           \/ what = "restart" /\ restart_requested' = restart_requested \cup ids
    BY <2>1 DEF Signals, MoveCall, MoveAll, queueVars
  <2>3. /\ DOMAIN runs' = DOMAIN runs
        /\ \A r \in DOMAIN runs :
              /\ runs'[r].job = runs[r].job
              /\ runs'[r].phase = runs[r].phase
              /\ runs[r].phase \in Current =>
                    IF runs[r].job \in ids THEN runs'[r].asked = what ELSE runs'[r].asked = runs[r].asked
    BY <2>2, AskFacts DEF DaemonInv
  <2> QED
    BY <2>2, <2>3 DEF AskInv, RunsIn
<1>3. CASE FireTurn
  <2>1. PICK h \in Handlers : Fire(h) /\ UNCHANGED restart_requested
    BY <1>3 DEF FireTurn, queueVars
  <2>2. /\ DOMAIN runs' = DOMAIN runs
        /\ \A r \in DOMAIN runs :
              /\ runs'[r].job = runs[r].job
              /\ runs'[r].phase = runs[r].phase
              /\ runs'[r].asked = runs[r].asked
    BY <2>1, FireFacts DEF DaemonInv
  <2> QED
    BY <2>1, <2>2 DEF AskInv, RunsIn
<1>4. CASE PhaseTurn
  <2>0. PICK r \in DOMAIN runs : \E from, to : Advances(from, to) /\ OnlyPhase(r, from, to)
    BY <1>4 DEF PhaseTurn
  <2>1. PICK from, to : Advances(from, to) /\ OnlyPhase(r, from, to)
    BY <2>0
  <2>2. /\ DOMAIN runs' = DOMAIN runs
        /\ \A other \in DOMAIN runs : /\ runs'[other].job = runs[other].job
                                      /\ runs'[other].asked = runs[other].asked
                                      /\ runs'[other].phase = runs[other].phase \/ other = r
        /\ runs[r].phase = from /\ runs'[r].phase = to
        /\ UNCHANGED restart_requested
    BY <1>4, <2>1 DEF OnlyPhase, SameRun, PhaseTurn, queueVars
  <2> QED
    BY <2>1, <2>2 DEF AskInv, RunsIn, Advances
<1>5. CASE PickTurn
  <2>1. PICK slot \in Nat \ DOMAIN runs :
               /\ DOMAIN runs' = DOMAIN runs \cup {slot}
               /\ \A r \in DOMAIN runs : runs'[r] = runs[r]
               /\ runs'[slot].asked # "restart"
               /\ runs'[slot].job = NextRunnable
    BY <1>5, PickFacts DEF PickTurn
  <2>2. NextRunnable \notin restart_requested
    BY <1>0, <1>5, RunningTaken DEF PickTurn, Pick, IntentOnlyWhileRunning, Running
  <2>3. UNCHANGED restart_requested
    BY <1>5 DEF PickTurn, Pick, TakeNextRunnable
  <2> QED
    BY <2>1, <2>2, <2>3 DEF AskInv, RunsIn
<1>6. CASE SettleTurn
  <2>1. PICK r \in DOMAIN runs : Settle(r)
    BY <1>6 DEF SettleTurn
  <2>2. /\ DOMAIN runs' = DOMAIN runs
        /\ \A other \in DOMAIN runs \ {r} : runs'[other] = runs[other]
        /\ runs[r].phase = "disarmed"
        /\ runs'[r].phase = "settled"
    BY <2>1, SettleFacts DEF DaemonInv
  <2>3. restart_requested' = restart_requested \ {runs[r].job}
    BY <2>1 DEF Settle, FinishOrRestart
  <2> QED
    BY <1>a, <2>2, <2>3 DEF AskInv, RunsIn
<1>7. CASE LeaveTurn
  <2>1. PICK r \in DOMAIN runs : RunNotifies(r) /\ UNCHANGED restart_requested
    BY <1>7 DEF LeaveTurn, queueVars
  <2> QED
    BY <2>1, LeaveFacts DEF AskInv, RunsIn
<1>8. CASE DieAndStart
  BY <1>8 DEF DieAndStart, AskInv, RunsIn
<1> QED
  BY <1>1, <1>2, <1>3, <1>4, <1>5, <1>6, <1>7, <1>8, Turns

\* Only the task of a run hands its result over.
LEMMA SettlingSettles ==
    ASSUME DaemonInv, ConnTypeOK, [DaemonNext]_vars, NEW r \in Settling
    PROVE  Settle(r)
<1>0. /\ r \in DOMAIN runs /\ runs[r].phase = "disarmed"
      /\ r \in DOMAIN runs' /\ runs'[r].phase = "settled"
  BY DEF Settling, RunsIn
<1>1. ~QuietTurn
  BY <1>0 DEF QuietTurn
<1>2. ~SignalTurn
  BY <1>0, AskFacts DEF SignalTurn, Signals, DaemonInv
<1>3. ~FireTurn
  BY <1>0, FireFacts DEF FireTurn, DaemonInv
<1>4. ~PhaseTurn
  BY <1>0 DEF PhaseTurn, OnlyPhase, Advances
<1>5. ~PickTurn
  BY <1>0, PickFacts DEF PickTurn
<1>6. ASSUME SettleTurn PROVE Settle(r)
  <2>1. PICK other \in DOMAIN runs : Settle(other)
    BY <1>6 DEF SettleTurn
  <2> QED
    BY <1>0, <2>1, SettleFacts DEF DaemonInv
<1>7. ~LeaveTurn
  BY <1>0, LeaveFacts DEF LeaveTurn
<1>8. ~DieAndStart
  BY <1>0 DEF DieAndStart
<1> QED
  BY <1>1, <1>2, <1>3, <1>4, <1>5, <1>6, <1>7, <1>8, Turns

\* What Settling asks of a step.
RequeuesAsAsked ==
    \A r \in Settling :
        /\ runs[r].asked = "restart" => jobs'[runs[r].job].state = "Queued"
        /\ runs[r].asked \notin AskedForItself => jobs'[runs[r].job].state \in Terminal

LEMMA RequeueStep ==
    ASSUME DaemonInv, ConnTypeOK, AskInv, [DaemonNext]_vars
    PROVE  RequeuesAsAsked
<1> USE DEF AskedForItself
<1> SUFFICES ASSUME NEW r \in Settling
             PROVE  /\ runs[r].asked = "restart" => jobs'[runs[r].job].state = "Queued"
                    /\ runs[r].asked \notin AskedForItself => jobs'[runs[r].job].state \in Terminal
  BY DEF RequeuesAsAsked
<1>1. Settle(r)
  BY SettlingSettles
<1>2. r \in RunsIn(Current) /\ runs[r] \in Run
  BY DEF Settling, RunsIn, Current, DaemonInv, RunsTypeOK
<1>3. runs[r].job \in Running
  BY <1>2 DEF DaemonInv, RunPerRunningJob, EachRunHasItsJob, Running
<1>4. FinishOrRestart(runs[r].job, runs[r].result) /\ runs[r].result \in RunResults
  BY <1>1, <1>2 DEF Settle, Run
<1>5. CASE runs[r].asked = "restart"
  <2>1. Requeue(runs[r].job)
    BY <1>2, <1>4, <1>5 DEF AskInv, FinishOrRestart
  <2>2. jobs[runs[r].job] \in Job /\ runs[r].job \in DOMAIN jobs
    BY <1>3 DEF DaemonInv, TypeOK, QueueTypeOK, IsQueue, Running, InState
  <2> QED
    BY <1>5, <2>1, <2>2 DEF Requeue, Job
<1>6. CASE runs[r].asked \notin AskedForItself
  <2>1. Finish(runs[r].job, runs[r].result)
    BY <1>2, <1>4, <1>6 DEF AskInv, FinishOrRestart
  <2>2. jobs[runs[r].job] \in Job /\ runs[r].job \in DOMAIN jobs
    BY <1>3 DEF DaemonInv, TypeOK, QueueTypeOK, IsQueue, Running, InState
  <2>3. FinishState(runs[r].result) \in Terminal
    BY <1>4 DEF FinishState, RunResults, Terminal
  <2> QED
    BY <1>6, <2>1, <2>2, <2>3 DEF Finish, Job
<1> QED
  BY <1>5, <1>6

-----------------------------------------------------------------------------
(* Results *)

TasksInv == ConnTypeOK /\ KillsInv /\ ArmedInv /\ AskInv

LEMMA TasksInvInit == DaemonInit => TasksInv
<1> SUFFICES ASSUME DaemonInit PROVE TasksInv
  OBVIOUS
<1>1. DOMAIN runs = {} /\ kills = [id \in {} |-> 0]
  BY DEF DaemonInit
<1>2. ConnTypeOK
  BY DEF DaemonInit, ConnTypeOK, ChoreLists
<1> QED
  BY <1>1, <1>2 DEF TasksInv, KillsInv, Killable, ArmedInv, AskInv, RunsIn

LEMMA TasksStep ==
    DaemonInv /\ IntentOnlyWhileRunning /\ TasksInv /\ [DaemonNext]_vars => TasksInv'
BY Turns, KillableStep, ArmedStep, AskStep DEF TasksInv

LEMMA TasksInvariant == DaemonSpec => []TasksInv
BY TasksInvInit, TasksStep, DaemonInvariant, DaemonIntents, PTL DEF DaemonSpec

\* A process can always be stopped: each run whose task exists has been
\* signalled or has its switch in kills, and no other switch is there
\* (daemon.rs 525-534).
THEOREM AlwaysKillable == DaemonSpec => []Killable
<1>1. TasksInv => Killable
  BY DEF TasksInv, KillsInv
<1> QED
  BY <1>1, TasksInvariant, PTL

\* A kill, kill --all or restart that finds the switch registered reaches the
\* process, whatever the other tasks do between its two locks (daemon.rs 156-192,
\* 252-263).
THEOREM ArmedAsksReachTheRun == DaemonSpec => []ArmedAsksSignal
<1>1. DaemonInv /\ TasksInv => ArmedAsksSignal
  <2> SUFFICES ASSUME DaemonInv, TasksInv, NEW r \in RunsIn(Armed), runs[r].armed
               PROVE  runs[r].fired \/ AboutToFire(runs[r].job)
    BY DEF ArmedAsksSignal
  <2>1. Signalled(r) \/ runs[r].job \in Due
    BY DEF TasksInv, ArmedInv, WasArmed
  <2> QED
    BY <2>1 DEF Signalled, Due
<1> QED
  BY <1>1, TasksInvariant, DaemonInvariant, PTL

\* A restart that came while its run was under way re-queues the job when that
\* run ends; the end of a run of which nothing was asked does not (scheduler.rs
\* 363-384 as daemon.rs 533-543 calls it).
THEOREM RestartsRequeue == DaemonSpec => RestartRequeues
<1>1. DaemonInv /\ TasksInv /\ [DaemonNext]_vars => [RequeuesAsAsked]_vars
  BY RequeueStep DEF TasksInv
<1>2. DaemonSpec => [][RequeuesAsAsked]_vars
  BY <1>1, DaemonInvariant, TasksInvariant, PTL DEF DaemonSpec
<1> QED
  BY <1>2 DEF RestartRequeues, RequeuesAsAsked

\* A signal reaches only a run of which something was asked, or one that began
\* while a request about an earlier run of its job was still to be carried out: a
\* switch that is fired late never hits another job, nor a run that began after it
\* was due (daemon.rs 156-192, 252-263, 525-534).
THEOREM SignalsAreAsked == DaemonSpec => []SignalsHaveRequests
<1>1. DaemonInit => SignalInv
  BY DEF DaemonInit, SignalInv, RunsIn
<1>2. DaemonInv /\ TasksInv /\ SignalInv /\ [DaemonNext]_vars => SignalInv'
  BY SignalStep DEF TasksInv
<1>3. SignalInv => SignalsHaveRequests
  <2> SUFFICES ASSUME SignalInv, NEW r \in RunsIn(Armed), runs[r].fired
               PROVE  WasAsked(r)
    BY DEF SignalsHaveRequests, WasAsked
  <2>1. r \in RunsIn(Current)
    BY DEF RunsIn, Current
  <2>2. Signalled(r)
    BY DEF Signalled
  <2> QED
    BY <2>1, <2>2 DEF SignalInv
<1> QED
  BY <1>1, <1>2, <1>3, DaemonInvariant, TasksInvariant, PTL DEF DaemonSpec
=============================================================================
