----------------------------- MODULE LogFollow -----------------------------
(***************************************************************************)
(* `msc watch` (src/ipc/client.rs): a client that follows the log of one   *)
(* job while the daemon and the job's processes go on.  The client learns  *)
(* the job's state from the daemon and reads the log file itself, so its   *)
(* steps interleave with the run that writes the file, with a restart that *)
(* truncates it, with processes that an earlier run left behind and that   *)
(* go on writing where they were, and with the death of the daemon.        *)
(*                                                                         *)
(* A byte of output is <<run, n>>: who wrote it and its place in the file. *)
(* A hole, which a write past the end of the file leaves, has run 0.       *)
(***************************************************************************)
EXTENDS Naturals, Sequences

CONSTANTS
    MayRestart,  \* whether clients restart the job
    MayDie,      \* whether the daemon can die
    KillOnClose, \* whether processes end with the run and the daemon that started them
    MaxRuns,     \* bound of the model: how often the job is started
    MaxLog       \* bound of the model: the length of the log

ASSUME LogFollowAssumption ==
    /\ MayRestart \in BOOLEAN
    /\ MayDie \in BOOLEAN
    /\ KillOnClose \in BOOLEAN
    /\ MaxRuns \in Nat
    /\ MaxLog \in Nat \ {0}

VARIABLES
    job,        \* the job's state, as Info reports it
    saved,      \* its state in the daemon's file
    restart,    \* whether the current run was asked to restart
    run,        \* the number of the last run started
    phase,      \* where the task of the run is
    writers,    \* the runs some of whose processes live and have the log open
    offset,     \* the offset in the log that the processes of each run share
    log,        \* the log file; empty as well before it exists
    pc,         \* where the client is
    seen,       \* the job's state in the last answer it got
    pos,        \* its offset in the log
    shown,      \* what it has written to its standard output
    start,      \* history: the offset it began at
    owed,       \* history: the log when the job became terminal under it
    disturbed   \* history: whether bytes that it has read or is owed were lost

jobVars == <<job, saved, restart, run, phase>>
fileVars == <<writers, offset, log>>
worldVars == <<jobVars, fileVars, owed, disturbed>>
clientVars == <<pc, seen, pos, shown, start>>
vars == <<worldVars, clientVars>>

Over == job \in {"Terminal", "Gone"}

Following == pc \in {"locate", "measure", "poll", "drain", "last"}

\* How much of the log the client has read or is owed.
Held == IF pos < Len(owed) THEN Len(owed) ELSE pos

\* A follower is owed what the log holds when its job becomes terminal.
Owe == owed' = IF Following /\ job # "Terminal" /\ job' = "Terminal" THEN log ELSE owed

-----------------------------------------------------------------------------
(* The log file *)

\* The log after run r has written at place p.  Every run opens the file without
\* O_APPEND: what lies there is overwritten, and a gap before it becomes a hole.
Written(r, p) ==
    [n \in 1 .. (IF p > Len(log) THEN p ELSE Len(log)) |->
        IF n = p THEN <<r, p>> ELSE IF n <= Len(log) THEN log[n] ELSE <<0, n>>]

\* File::create truncates the file; who has it open keeps its offset.
Truncate(new) == log' = new /\ disturbed' = (disturbed \/ Held > 0)

-----------------------------------------------------------------------------
(* The daemon and the processes of the job *)

StartRun ==
    /\ job = "Queued"
    /\ run < MaxRuns
    /\ job' = "Running"
    /\ run' = run + 1
    /\ phase' = "starting"
    /\ UNCHANGED <<saved, restart, fileVars, clientVars, owed, disturbed>>

\* run_one truncates the file; when it cannot be opened the run is over.
CreateLog ==
    /\ phase = "starting"
    /\ \/ phase' = "created" /\ Truncate(<<>>)
       \/ phase' = "ended" /\ UNCHANGED <<log, disturbed>>
    /\ UNCHANGED <<job, saved, restart, run, writers, offset, clientVars, owed>>

Spawn ==
    /\ phase = "created"
    /\ phase' = "alive"
    /\ writers' = writers \cup {run}
    /\ UNCHANGED <<job, saved, restart, run, offset, log, clientVars, owed, disturbed>>

\* The second handle cannot be had, or the spawn fails and the file is written
\* anew with the reason, which may fail before or after it is truncated.
SpawnFails ==
    /\ phase = "created"
    /\ phase' = "ended"
    /\ \/ UNCHANGED <<log, disturbed>>
       \/ Truncate(<<>>)
       \/ Truncate(<< <<run, 1>> >>)
    /\ UNCHANGED <<job, saved, restart, run, writers, offset, clientVars, owed>>

\* A process of run r, the current one or an earlier one, writes at their offset.
Output(r) ==
    LET place == offset[r] + 1
    IN  /\ r \in writers
        /\ place <= MaxLog
        /\ log' = Written(r, place)
        /\ offset' = [offset EXCEPT ![r] = place]
        /\ disturbed' = (disturbed \/ place <= Held)
        /\ UNCHANGED <<jobVars, writers, clientVars, owed>>

\* The direct child ends; what it started may go on.
RunEnds ==
    /\ phase = "alive"
    /\ phase' = "ended"
    /\ \/ writers' = writers \ {run}
       \/ ~KillOnClose /\ writers' = writers
    /\ UNCHANGED <<job, saved, restart, run, offset, log, clientVars, owed, disturbed>>

SettleRun ==
    /\ phase = "ended"
    /\ phase' = "none"
    /\ job' = IF restart THEN "Queued" ELSE "Terminal"
    /\ restart' = FALSE
    /\ Owe
    /\ UNCHANGED <<saved, run, fileVars, clientVars, disturbed>>

AskRestart ==
    /\ MayRestart
    /\ job = "Running"
    /\ restart' = TRUE
    /\ UNCHANGED <<job, saved, run, phase, fileVars, clientVars, owed, disturbed>>

\* A kill of a job that waits makes it terminal.
KillPending ==
    /\ job = "Queued"
    /\ job' = "Terminal"
    /\ Owe
    /\ UNCHANGED <<saved, restart, run, phase, fileVars, clientVars, disturbed>>

\* It saves at once, which may fail.
RemoveJob ==
    /\ job \in {"Queued", "Terminal"}
    /\ job' = "Gone"
    /\ saved' \in {saved, "Gone"}
    /\ UNCHANGED <<restart, run, phase, fileVars, clientVars, owed, disturbed>>

\* Some task saves the queue: any time later, or not before the daemon dies.
Save ==
    /\ saved # job
    /\ saved' = job
    /\ UNCHANGED <<job, restart, run, phase, fileVars, clientVars, owed, disturbed>>

\* The next daemon goes by the file, and marks a job that was running failed.
\* Where a dead daemon's processes live on, they have the log open.
DaemonDies ==
    /\ MayDie
    /\ job' = IF saved = "Running" THEN "Terminal" ELSE saved
    /\ saved' = job'
    /\ restart' = FALSE
    /\ phase' = "none"
    /\ writers' \in IF KillOnClose THEN {{}} ELSE SUBSET writers
    /\ Owe
    /\ UNCHANGED <<run, offset, log, clientVars, disturbed>>

-----------------------------------------------------------------------------
(* The client *)

\* Mutant of DrainLog: the log is read without the seek.
DrainLog_FromTheStart == shown' = shown \o log /\ pos' = pos + Len(log)

\* Mutant of DrainLog: the new offset is the length of the file.
DrainLog_ToTheEnd ==
    shown' = shown \o SubSeq(log, pos + 1, Len(log)) /\ pos' = Len(log)

\* What lies past pos is written out; nothing when the log is shorter.
DrainLog ==
    LET new == SubSeq(log, pos + 1, Len(log))
    IN  shown' = shown \o new /\ pos' = pos + Len(new)

\* Only a running job is followed.
Watch ==
    /\ pc = "idle"
    /\ job = "Running"
    /\ pc' \in {"locate", "poll"}
    /\ UNCHANGED <<worldVars, seen, pos, shown, start>>

\* Without --from-start, it begins at the current end of the log of a job that still exists.
Locate ==
    /\ pc = "locate"
    /\ pc' = IF job = "Gone" THEN "poll" ELSE "measure"
    /\ UNCHANGED <<worldVars, seen, pos, shown, start>>

\* Mutant of Measure: the offset is not used.
Measure_FromNowOn ==
    /\ pc = "measure"
    /\ pc' = "poll"
    /\ start' = Len(log)
    /\ UNCHANGED <<worldVars, seen, pos, shown>>

Measure ==
    /\ pc = "measure"
    /\ pc' = "poll"
    /\ pos' = Len(log)
    /\ start' = Len(log)
    /\ UNCHANGED <<worldVars, seen, shown>>

\* Mutant of Poll: a job that no longer exists is asked for again.
Poll_RetriesMissing ==
    /\ pc = "poll"
    /\ job # "Gone"
    /\ seen' = job
    /\ pc' = "drain"
    /\ UNCHANGED <<worldVars, pos, shown, start>>

\* Mutant of Poll: the loop is left before the log is read.
Poll_LeavesAtOnce ==
    /\ pc = "poll"
    /\ job # "Gone"
    /\ seen' = job
    /\ pc' = IF job = "Terminal" THEN "done" ELSE "drain"
    /\ UNCHANGED <<worldVars, pos, shown, start>>

Poll ==
    /\ pc = "poll"
    /\ \/ job # "Gone" /\ seen' = job /\ pc' = "drain"
       \/ job = "Gone" /\ seen' = seen /\ pc' = "missing"
    /\ UNCHANGED <<worldVars, pos, shown, start>>

Drain ==
    /\ pc = "drain"
    /\ DrainLog
    /\ pc' = IF seen = "Terminal" THEN "last" ELSE "poll"
    /\ UNCHANGED <<worldVars, seen, start>>

DrainAgain ==
    /\ pc = "last"
    /\ DrainLog
    /\ pc' = "done"
    /\ UNCHANGED <<worldVars, seen, start>>

Follow == Locate \/ Measure \/ Poll \/ Drain \/ DrainAgain

\* Ctrl+C, or an error of a request, of a read or of the output.
Interrupt ==
    /\ pc \in {"locate", "measure", "poll", "drain", "last"}
    /\ pc' = "interrupted"
    /\ UNCHANGED <<worldVars, seen, pos, shown, start>>

-----------------------------------------------------------------------------
Init ==
    /\ job = "Queued"
    /\ saved = "Queued"
    /\ restart = FALSE
    /\ run = 0
    /\ phase = "none"
    /\ writers = {}
    /\ offset = [r \in 1 .. MaxRuns |-> 0]
    /\ log = <<>>
    /\ pc = "idle"
    /\ seen = "Queued"
    /\ pos = 0
    /\ shown = <<>>
    /\ start = 0
    /\ owed = <<>>
    /\ disturbed = FALSE

JobStep ==
    \/ StartRun \/ CreateLog \/ Spawn \/ SpawnFails \/ RunEnds \/ SettleRun
    \/ AskRestart \/ KillPending \/ RemoveJob \/ Save \/ DaemonDies
    \/ \E r \in 1 .. MaxRuns : Output(r)

Next == JobStep \/ Watch \/ Follow \/ Interrupt

Spec == Init /\ [][Next]_vars

\* The client is one loop that waits for nothing but a timer and the answers of the
\* daemon, which is taken to answer.  Nothing is asked of the job or of its runs.
FairSpec == Spec /\ WF_vars(Follow)

-----------------------------------------------------------------------------
(* Properties *)

Byte == (0 .. MaxRuns) \X (1 .. MaxLog)

LogFollowTypeOK ==
    /\ job \in {"Queued", "Running", "Terminal", "Gone"}
    /\ saved \in {"Queued", "Running", "Terminal", "Gone"}
    /\ restart \in BOOLEAN
    /\ run \in 0 .. MaxRuns
    /\ phase \in {"none", "starting", "created", "alive", "ended"}
    /\ writers \subseteq 1 .. MaxRuns
    /\ offset \in [1 .. MaxRuns -> 0 .. MaxLog]
    /\ log \in Seq(Byte)
    /\ pc \in {"idle", "locate", "measure", "poll", "drain", "last",
               "missing", "done", "interrupted"}
    /\ seen \in {"Queued", "Running", "Terminal"}
    /\ pos \in 0 .. MaxLog
    /\ shown \in Seq(Byte)
    /\ start \in 0 .. MaxLog
    /\ owed \in Seq(Byte)
    /\ disturbed \in BOOLEAN

\* Whatever is truncated, overwritten or written past the end meanwhile, a follower
\* shows each place of the file from the one it began at to the one it has reached,
\* once and in their order (client.rs 454-473).
EachPlaceOnce ==
    /\ Len(shown) = pos - start
    /\ \A i \in DOMAIN shown : shown[i][2] = start + i

\* As long as nothing it has read is lost, a follower has shown the log from the
\* offset it began at to the one it has reached: nothing twice, nothing left out,
\* nothing out of order, holes and the output of earlier runs included
\* (client.rs 427-473).
ShownIsTheLog == ~disturbed => pos <= Len(log) /\ shown = SubSeq(log, start + 1, pos)

\* A follower that leaves because the job is over has shown everything that was
\* in the log when it ended (client.rs 342-343).
CompleteAtEnd ==
    pc = "done" => \A n \in start + 1 .. Len(owed) : \E i \in DOMAIN shown : shown[i] = owed[n]

\* It has, unless bytes were lost to a truncation or an overwrite under it, whatever
\* raced with its reads (client.rs 441-447).
CompleteUnlessDisturbed == ~disturbed => CompleteAtEnd

\* A run that has its log has it to itself: the log is truncated for the fresh run
\* of a restarted job, so all that it holds is of that run (README.md 133).
FreshLog ==
    phase \in {"created", "alive"} => \A n \in DOMAIN log : log[n][1] = run

\* A follower does not outlive its job: once the job has ended or was removed for
\* good, it leaves, whoever removed it and however the daemon went.
FollowerLeaves ==
    []([]Over /\ pc # "idle" => <>(pc \in {"missing", "done", "interrupted"}))
=============================================================================
