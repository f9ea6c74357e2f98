# Formal model of mochi_scheduler

`msc` runs shell commands as queued jobs. A client sends one request per
connection to a background daemon; the daemon keeps the queue, starts jobs as
GPUs and CPU slots allow, and writes the queue to `state.json`. This directory
models the daemon and its queue, the clients and how they come by a daemon, a
client that follows a log, and the tables that clients print, in TLA+.  It
checks the models with TLC on small instances and proves the central results
with TLAPS for every instance.

## 1. The system

| Component | State | Operations | What makes it correct |
|---|---|---|---|
| Queue, `ipc/scheduler.rs`, `ipc/job.rs` | `next_id`, `jobs`, `cpu_limit`, `restart_requested`; `state.json` | one method per request, `take_next_runnable`, `finish_or_restart`, `load`, `save` | no GPU given twice; CPU limit kept; the right job starts; a restart intent never outlives its run; records and stamps consistent in memory and on disk |
| Daemon, `ipc/daemon.rs` | the queue behind a mutex, the kill switches behind another, one `Notify` permit, one task per connection, one per run, the scheduler task | `handle_request`, `persist`, `scheduler`, `run_one`, `run` | one run per running job; a run can always be signalled, and no signal comes without a request; no wake-up or save is lost; nothing runs twice after a crash |
| Process trees, `process_tree.rs` | an OS handle per run | attach, kill | a kill ends the whole tree; what happens when the daemon dies |
| Log follower, `ipc/client.rs` 342-508 | read offset; the log file, shared with the runs | poll the job, drain the log | nothing shown twice or skipped; ends with everything shown, as long as nothing of it was lost |
| Daemon bootstrap, `ipc/client.rs` 568-627, `daemon.rs` 37-95, `settings.rs` | socket name, process table | connect, spawn, bind, retry | one daemon per queue; a client reaches the daemon of its queue |
| Client commands, `ipc/client.rs` 18-322, 481-654 | the number of the request a command works on, `had_error` | one connection per request; commands of several ids; `resume` with its confirmation | requests are executed in order, none twice; the exit status tells the truth; a command ends |
| Listing, `ipc/client.rs` 324-340, 510-566 | none | filter and sort | the order shown is the order of starts |
| Wire protocol, `ipc/protocol.rs` | none | `read_msg`, `write_msg` | a message that is written can be read |
| Table printing, `utils/pretty_table/table.rs` | header, rows, width | set header, add row, set width, display | rectangular in characters, lines without wide characters fit the terminal, no text lost |
| GPU detection, `gpu.rs` | none | `detect` | a pool size, fixed while a daemon lives |
| Settings, command line | none | resolve, parse | who shares a data directory shares its daemon |

How they interact.  A connection task takes the state lock, changes the queue,
and either saves under the same lock (`add`, `rerun`, `remove`, `clear`,
labels, limits, bulk pauses) or releases it and later takes the kills lock to
fire a switch, the state lock again to save, and `Notify` to wake the
scheduler.  The scheduler takes a runnable job under the state lock, saves
under a second one, registers a kill switch under the kills lock and starts the
task of the run.  That task spawns the process, waits for its exit or its
switch, removes the switch, hands the result to the queue, saves, and wakes the
scheduler.  Between any two of these locks every other task may run, and the
daemon may die.  A client reaches the daemon over a socket named by its
settings, and starts one when nothing answers there; daemons settle by binding
the socket which of them has the queue.

What is hard about it, with the line where it bites and the property that
watches it, is listed in `PROJECT.json` under `hazards`.

## 2. Modules

| Module | Models | Kind |
|---|---|---|
| `JobLife.tla` | what the queue promises about the life of each job | abstract specification of the queue |
| `AppState.tla` | the queue: every method that changes it as an action, the file, load and reconcile | object specification; implements `JobLife`; abstract specification of the daemon |
| `Listing.tla` | which jobs `list` shows and in which order, extends `AppState` | functions of the state of the queue |
| `Daemon.tla` | the tasks around the queue, extends `AppState` | detailed specification |
| `LogFollow.tla` | `watch`: a client that follows the log of a job, against what writes it | detailed specification of its own |
| `Commands.tla` | commands as the requests they send; ids and ranges | pure functions |
| `Client.tla` | clients that run commands, and the daemons they start, extends `Commands` | detailed specification of its own |
| `Table.tla` | the tables of `list` and `info` | object specification and pure functions |
| `MCAppState.tla`, `MCDaemon.tla`, `MCClient.tla`, `MCTable.tla` | values for TLC | |
| `Chains.tla` | lemmas the proofs share: least elements, recursive functions followed step by step | |
| `AppState_proofs.tla` | theorems about the queue and its listing; that it implements `JobLife` | |
| `Daemon_proofs.tla` | the daemon implements the queue; runs and running jobs | |
| `DaemonTasks_proofs.tla` | signals: switches, intents, who is stopped | |
| `DaemonFile_proofs.tla` | saves, wake-ups, deaths | |
| `LogFollow_proofs.tla` | what a follower has shown | |
| `Client_proofs.tla` | one daemon per queue, requests in order, each id once; exit statuses and failures | |
| `Table_proofs.tla` | tables are rectangular, their narrow lines fit, and no text is lost | |

### AppState

`Spec` is the queue as any caller may use it: any order of calls, each saved at
once, later, or not at all, and a new daemon at any time, with a pool that may
have changed its size.  A method that reports an error changes nothing and is
not an action; the guard of an action is the success branch of the method.
`finish` is called by `finish_or_restart` only, so it is a part of
`FinishOrRestart`.  `FinishOrRestart` is enabled for running jobs only: that its
caller keeps to this is proved of the daemon.

`SavedSpec` saves with every call.  It has far fewer states and serves for
checking more jobs.

Data that no guard reads is left out: argv, cwd, env, label, log path and exit
code.  A time stamp is whether it is set.  `assigned_gpus` is a set, which the
code keeps in ascending order.  `-j.priority` is modelled at 32 bits, as a
release build computes it; a debug build panics instead.

`EachJobLivesOnce` says that the queue implements `JobLife`: `StageOf` maps a job
to its stage, where paused jobs wait as queued ones do, an id below `next_id`
that is in no record is gone, and a restart intent is `asked`.  The mapping
forgets priorities, GPUs, limits and neighbours.  It is stated of `SavedSpec`:
a queue that is loaded from an older file has indeed lived twice.

### Listing

`list_jobs` is a function of the queue and of the options of `list`.  The client
negates a priority as an `i64`, the scheduler as an `i32`.
`ListingForetellsStarts` relates the view before a step to the job that the step
starts; it does so for the default view, the others come by id.

### Daemon

What one task does while it holds one lock is one step.

* `runs` are the tasks of the runs, from the moment the scheduler holds a
  `RunSpec` (phase `spec`) through the registration of the switch (`starting`),
  the process (`alive`), the return of `run_one` (`ended`), the removal of the
  switch (`disarmed`), `finish_or_restart` (`settled`) and the save
  (`persisted`) to the last `notify_one`.
* `kills` maps a job id to the run whose `oneshot` sender is stored under it; a
  run whose sender was used has `fired` set.
* `notify` is the permit of tokio's `Notify`; `notify_one` with no waiter stores
  one permit, and more calls store no more.
* `conn` holds what a connection task still has to do after its first lock:
  fire switches, save, notify, in this order.
* `leftovers` are processes whose daemon died.  `KillOnClose` says whether
  there can be any (Unix) or not (Windows).
* `accepted`, and `asked` and `armed` of a run, are history and guard nothing.
  `asked` is `kill` or `restart` once that was asked of the run; a run that begins
  while a task is still to fire its job's switch, for a request about an earlier
  run, begins `late`.

`DieAndStart` is the exit after `shutdown`, a crash or a kill, at any moment,
and the start of the next daemon.  A save is atomic, since it writes another
file and renames it; that makes a crash inside a save one before or after it.  A
daemon that cannot save at startup exits, and then there is no daemon, so this
is not a state of the model.  `set_label` is a save and nothing else here.

The two branches of the `select!` of `run_one` may both be ready; either is
taken.  `child.wait` failing is the same step as a failed spawn seen by the
queue and is covered by `SpawnFails`.  Killing the tree and waiting for it is
one step, `KilledTree`.

### LogFollow

A follower asks the daemon for the job and reads the log file itself, so the
two can differ.  The daemon is reduced to what a follower can notice: the state
of one job (`job`, with `Terminal` for the three terminal states and `Gone` for
a removed job) and what the file says of it (`saved`, which follows `job` sooner
or later and is what the next daemon goes by), whether its run will be re-queued
(`restart`), where the task of the run is (`phase`), and the log.

A byte of output is the number of its run and its place in the file.  Each run
opens the log without append and truncates it; its processes share one `offset`.
`writers` are the runs some of whose processes live: where `KillOnClose` is false
(any system but Windows), those outlive the run, the next start of the job and
the daemon.  A survivor writes on at its old offset, so it overwrites a fresh
log or leaves a hole before what it writes (`Written`; a hole has run 0).  A
run may fail before its log is truncated, before its process is spawned, or with
the spawn, which rewrites the file (`SpawnFails`).

`pc` walks through `watch`: `Locate` and `Measure` find the end of
the log when `--from-start` is not given, then `Poll` and `Drain` alternate, and
`DrainAgain` is the last read.  `Interrupt` is Ctrl+C and every error that ends
the client.  `start`, `owed` and `disturbed` are history: a follower is disturbed
once bytes it has read, or is owed because the job ended, are truncated or
overwritten.  What it shows then is still each place of the file once
(`EachPlaceOnce`), but no longer one log.

### Commands and Client

A command is the sequence of its requests, each on a connection of its own.
`Commands.tla` says what that sequence is, `Client.tla` what happens on the way.
What a request does to the queue is the subject of `Daemon.tla`: here it is
executed or not, and answered with success or an error, either of which may
come.

A client is in `connect`, then perhaps in `retry` (after it has spawned a
daemon), then in `receive`; `ask` is the prompt of `resume`.  `mail` is its
connection: what was written is `sent`, then `handled` (executed), then
`answered`; a daemon that ends breaks what it has not answered, while an
answer that was written can still be read.  A daemon is `starting` until it has
the socket, `bound` until it has loaded and saved the queue, then `serving`;
connections are possible from `bound` on, since the kernel queues them.
`link` is the daemon a client is connected to or, while it retries, the daemon
it has spawned.  `executed` and `lost` are history.

`Namespaced` chooses between names that go with the process and socket files
that stay (`Stale`).  `GiveUp` stands for the hundredth attempt, five seconds
after the spawn: time is not modelled, so it may come whenever nobody listens,
whether the spawned daemon has gone or is slow to come up.  `SpawnFails` is an
error of `spawn_daemon`.  `Refuse` is `read_msg` in the daemon: a request of
`LongRequests` may exceed 16 MiB, and then its connection is dropped while the
daemon goes on.  `PrivateHomes` assumes that no two users share a data directory.
External to `src/`: that the system gives a name to one listener only, that it
closes the sockets of a process that ends, Ctrl+C, and crashes.

### Table

A text is its number of characters, its number of bytes, and the columns of the
terminal each of its characters takes, one or two (`cells`); a text that mixes
both kinds is left out.  What is printed of it is an interval of its characters,
so that "everything is shown" can be said without any text.  A line is its pieces
and its length in characters; `WidthOf` is what it takes on the terminal.  As in
the code, columns are measured in bytes and cells in characters, and nothing
measures the third.  Both callers shrink their last column.

### Bounds

`MaxJobs` ids are handed out (`Add` is disabled after the last).  `MaxTasks` run
tasks exist at once; a further `Pick` waits.  A restart re-queues a job without
taking an id, so runs repeat without bound.  Two jobs suffice for what the
daemon runs check: each property relates one job to one other, or one run to the
next run of the same job; three jobs in the queue allow one to run, one to wait
for capacity and one to pass it.  Two connections are enough for
two requests about the same run to race each other and the run's task.  A pool
that changes with the daemon is left to the proofs: no job runs when it changes.
`daemon_deaths` has one job, whose runs follow each other, and two requests in
flight about them; that what was accepted survives with any number of jobs is
proved.
When the ids are used up and every job is terminal the daemon idles, so deadlock
is not checked; the liveness run checks instead that whatever is owed happens.

`LogFollow` has one job, two runs of it and a log of two bytes (three in
`logfollow_restart`): one truncation under a follower, with a second log
shorter than and as long as the offset, and a survivor of the first run that
overwrites the second's output or leaves a hole.  It comes to rest when the job is over and the follower has left.

`Client` has two clients, which is what a race for a socket takes, with two
requests each where their command has several, so that there is something
before, between and after; a client may shut the daemon down under the other.
`MaxDaemons` is the number of daemon processes at one time, one for each client;
when they end others are started without bound.  It comes to rest when both
commands are over.

`Table` has two columns, like the table of `info`: one that shrinks and one that
does not, with texts around the minimum of the flex column, a text of two-byte
characters and one of wide three-byte characters, and widths below, at and above the widths of its tables.  Two rows
suffice for a row to be widest in one column and another row in the other.

### Fairness

`FairSpec` asks weak fairness of each task the daemon owns: the scheduler, every
connection task and every run task.  The tokio runtime polls a task that is
ready, and a lock that is held is released without waiting for anything.
`LogFollow` asks it of the follower alone, a loop that waits for answers and a
timer.  `read_msg` has no timeout, so a client waits for as long as a daemon lives
that does not answer; `LogFollow` assumes that it answers, which is what `Daemon`
and `Client` ask of it.
`FairClientSpec` asks it of each client while it works, of each connection at a
daemon and of each daemon: their processes are scheduled, reads of a closed
connection return, and the 50 ms before the exit of a shutdown pass.  The user
who starts commands, answers the prompt and presses Ctrl+C owes nothing.
Nothing is asked of other clients, of how long a process lives, of failures,
crashes or deaths.

## 3. Runs

| Run | Question |
|---|---|
| `appstate_queue` | three jobs, two GPUs, one CPU slot, daemons that come and go: is the queue consistent, does the right job start, the one `list` shows first, and does each job live once? |
| `daemon_stopping` | two connections kill, restart and remove two jobs whose runs come and go, the daemon dies anywhere, saves succeed: do switches and intents stay with their run, does every signal come from a request, does nothing run twice, is no wake-up and no save lost, and is the queue implemented? |
| `daemon_deaths` | two connections kill and restart the runs of one job over and over, the daemon dies anywhere and any save fails: is what was accepted still there, and, under fairness, does a run that was asked to stop end? |
| `daemon_progress` | under fairness, with one connection: do jobs that can start start, and do changes reach the disk? |
| `logfollow_watch` | runs write, fail, end, leave processes behind, restart, and the daemon dies: does a follower show each place once, the log as it is and to its end unless bytes were lost under it, and leave? |
| `client_commands` | two clients start daemons, or fail to, shut them down and lose them to crashes and failed loads: one daemon for the queue, requests in order and never twice, true exit statuses, no failure but by the causes named, and an end under fairness |
| `table_layout` | all tables of up to two rows at five widths and without one: rectangular, narrow lines fitting, and nothing lost |

These restrictions are part of what the runs say.

* `QueueMoves` is checked without `restart`: a client that restarts one job for
  ever keeps another of the same priority waiting for ever, since the re-queued
  job has the lower id.
* `NoneStranded`, `NothingLeftUnsaved` and `NoSilentRerun` are checked with saves
  that succeed; what a save that fails does to the first is said below.
* `StopsTakeEffect` speaks of requests that came once the switch was registered;
  `daemon_early_kill` shows what becomes of earlier ones.
* `SignalsHaveRequests` allows a run that begins while a request about an earlier
  run of its job is still under way to be signalled by it; that this happens is
  shown by `daemon_late_restart`.
* `StartsHighestPriority` and `ListingForetellsStarts` are checked with the least and
  the greatest priority that can be negated, so without `i32::MIN`.
* `ShownIsTheLog` and `CompleteUnlessDisturbed` speak of a follower under which
  nothing it has read or is owed is lost; `logfollow_restart` shows how it is.
* `NarrowLinesFit` leaves out lines that show wide characters, which are wider than
  the code believes.

### Where the code and its documentation disagree

Each of these runs checks one statement of a comment or of the README and is
expected to be violated; `PROJECT.json` quotes the statement.

| Run | What happens |
|---|---|
| `daemon_early_kill` | a kill between the choice of a job and the registration of its switch answers "Killed" and stops nothing |
| `daemon_late_restart` | a restart (or kill) whose run ends before its switch is looked up can stop the next run of the job |
| `daemon_kill_after_restart` | a kill after a restart of the same run does not stop the job for good: it is queued again |
| `logfollow_restart` | a restart truncates the log, the follower keeps its offset and shows nothing of the new run below it |
| `client_separate_queues` | with namespaced sockets `MOCHI_HOME` does not separate queues (`settings.rs:9-10`), since the socket is named after the user |

More are recorded here without a run of their own; where a property is named,
TLC finds it violated with the constants given.

* A request whose save fails has changed the queue and wakes nobody
  (`daemon.rs:127` and its like; `daemon.rs:511-512` says "no queued job is left
  stranded"): `NoneStranded` in `MCDaemon_early_kill.cfg` with
  `SaveMayFail = TRUE`, after one add.
* On Unix the processes of a dead daemon live on, which `process_tree.rs:17` calls a
  known asymmetry; `load` marks their jobs failed because "their child processes
  are gone" (`scheduler.rs:106`), and their GPUs are given out again:
  `ProcessesShareNoGpu` in the same cfg with `KillOnClose = FALSE` and
  `MayDie = TRUE`.
* A process that outlives its run, where `KillOnClose` is false, writes on into the
  log that the next run has truncated (`daemon.rs:418`; `README.md:133` says "the
  log is truncated for the fresh run"): `FreshLog` in `LogFollow_restart.cfg` with
  `KillOnClose = FALSE`.
* A job of priority `i32::MIN` starts first in a release build, and a debug build
  panics under the state lock (`scheduler.rs:314`; `job.rs:48` says "higher runs
  first"): `StartsHighestPriority` with `I32Min` among `MCPriorities`.
* A table of wide characters is wider than the terminal (`table.rs:217` speaks of
  "display columns"): `FitsTerminal` in `MCTable_layout.cfg`.
* After a reload a failed job still lists the GPUs it had
  (`scheduler.rs:117-122`; `job.rs:55` says they are empty unless the job runs);
  they are not lost to the pool, as `GpusExclusive` and `free_gpus` count running
  jobs only.
* `parse_job_ids` returns ids in the order of the arguments; `client.rs:88-89`
  says "sorted".
* Columns are measured in bytes (`table.rs:165`), so a text of multi-byte
  characters can be cut although the table would fit without; `table.rs:63-64`
  says "when the natural layout would be wider".
* Where sockets are files, a daemon that exits leaves its file, nothing calls
  `socket_name(true)`, and no later daemon can bind (`settings.rs:57-61`).

## 4. Proofs

All proofs assume only the named assumptions on the constants
(`ConstantsAssumption`, `DaemonAssumption`, `LogFollowAssumption`,
`ClientAssumption`, `PrivateHomes`, `TableAssumption`).  `Chains.tla` has the
lemmas of more than one module: a set of naturals has a least element
(`LeastNatural`), a recursive function over 0..n exists (`ChainExists`), and what
each of its steps preserves holds at its end (`ChainArrives`).

`AppState_proofs.tla`.  Calls are grouped by what they do (add one job, move
pending jobs, prune, take, finish, ...), so each invariant is argued once per
group.

* `TypesCorrect`: `TypeOK` is inductive as it stands.
* `HighestPriorityStarts`: the order of `min_by_key` is the order of the
  priorities unless one of them is `i32::MIN`, which is its assumption.  A
  minimum exists because priority and id map the runnable jobs into naturals.
* `IntentsCorrect`, `GpusNeverShared`, `StampsCorrect`: inductive together with
  `TypeOK`.  The stamps of the file are part of the third, since `load` turns
  them into those of the memory.
* `GpusMatchRequests`: a job that starts fits, so the free GPUs are at least as
  many as it asks for, and the lowest *n* of at least *n* are *n* (`LowestCount`):
  counting, for each index, the free ones below it numbers them without a gap
  (`Ranks`).
* `CpuLimitRespected`: each step either leaves the set of running CPU jobs as it
  is or smaller, or is a start, which adds one job to it below the limit.
* `ListingForetells`: a finite set is sorted by a strict order in one way
  (`Ranks` again), so a job stands above another in the default view exactly
  when its key is smaller.  Two queued jobs compare by their keys as the scheduler
  ranks them, unless a priority is `i32::MIN`, which is its assumption.
* `QueueImplementsJobLife` uses the types and intents of the queue: only
  `IntentOnlyWhileRunning` says that a job which is over has no intent left to
  bring it back, and only that memory and file agree under `SavedSpec` says that a
  reload brings back no older life.  Each group of calls is shown to move the jobs
  it names by one rule of `JobLife` and to let the others rest.

`Daemon_proofs.tla`.  The inductive invariant is `DaemonInv`: the types, and
`RunPerRunningJob`, in three parts.  Each current run has a running job of its
own; each running job has a current run; only the scheduler holds a run that
has no task.  It is needed because `Settle` calls `finish_or_restart` without
looking at the state of the job: only the invariant says that the job is
there and running.  Most steps are shown quiet, that is, they leave running
jobs and current runs where they are; `Pick`, `Arm`, `Settle` and `DieAndStart`
are argued one by one.

* `OneRunPerRunningJob`: the invariant.
* `DaemonImplementsQueue`: every step of the daemon is a step of `AppState` or
  stutters, by the identity mapping.
* `DaemonIntents`, `DaemonGpus`, `DaemonStamps`, `DaemonGpuCounts`,
  `DaemonCpuLimit`: what was proved of the queue holds in the daemon.

`DaemonTasks_proofs.tla`.  A request chooses its jobs under the state lock and
fires their switches later.  `Due` is the set of jobs that some connection task
is still about to signal; every step of every task is one of eight turns
(`Turns`: quiet, a request that signals, a firing, a phase of a run, `Pick`,
`Settle`, the end of a task, a death), each with what it does to `Due` and to the
runs, and the invariants are argued once for each turn.

* `AlwaysKillable`: `Killable` with the type of `kills`, together with
  `DaemonInv`, which says that a job has one current run: only then is the switch
  that `Arm` overwrites, or `Disarm` removes, that of the run itself.
* `ArmedAsksReachTheRun`: a run that was asked to stop while armed has been
  signalled or its job is `Due` (`ArmedInv`).  A run that is just starting has
  not been asked while armed, which is what keeps a job from inheriting the
  request made of its earlier run.
* `RestartsRequeue`: what was asked of a current run agrees with the intents of
  the queue (`AskInv`): an intent is set together with the question, and goes with
  the run.
* `SignalsAreAsked` holds for every set of requests.  A job that is due, or whose
  current run is signalled, has a run of which something was asked, or that began
  `late` (`SignalInv`): `Pick` is the only step that gives a job that is due a new
  run, and it marks that run.  With it a late firing is confined to the runs of
  one job that begin before it; that it can reach such a run is the finding of
  `daemon_late_restart`.

`DaemonFile_proofs.tla`.  Requests are grouped by the chores they leave
(`RequestEndings`); a step that changes the queue either saves it with the same
lock or leaves a task that will.

* `AcceptedJobsSurvive`, for saves that fail as well: an accepted job is in memory
  and in the file (`AcceptInv`), since its answer is sent after a save and an id
  leaves the file only when it is pruned.
* `NobodyIsStranded` and `NothingStaysUnsaved` are inductive with `DaemonInv`.
  They assume that saves succeed: a request whose save fails returns before its
  `notify_one`, so with failing saves they are false (section 3).
* `NothingRunsTwiceUnasked`: the file says `Running` of every current run past its
  choice, and of the run the scheduler is about to arm (`FileInv`): the scheduler
  saves before it arms, and nothing but the end of the run changes the state of a
  running job.  It assumes that saves succeed, as a process is started although
  the save before it has failed.
* `GpusHaveOneProcess` assumes `KillOnClose`, without which it is false
  (section 3).  Then a process is that of a current run; two current runs
  are of two running jobs and hold their GPUs (`DaemonInv`), and running jobs
  share none (`DaemonGpus`).
* `DaemonTypesCorrect`: the types, from the invariants above.

`LogFollow_proofs.tla`.  The inductive invariant is `FollowInv`.  The place in a
byte is where it stands in the file, whoever wrote it and however holes came
about (`LogInv`), so that what was read is in order although the file under it
changed.  As long as nothing was lost, what the follower has read and what it is
owed are beginnings of the log ever after (`OffsetInv`, `OwedInv`): a write or a
truncation either leaves the held part alone (`Keeps`) or sets `disturbed`.
`DoneInv` says that a follower that has left because the job is over has read all
it was owed.

* `FollowerShowsEachPlaceOnce`: nothing twice, nothing left out, nothing out of
  order, whatever is done to the file.
* `FollowerShowsTheLog`: and it is the log, unless disturbed.
* `FollowerShowsAll`: and all of it that was there when the job ended.
* `FollowerTypesCorrect`: the types, by the same invariant.

`Client_proofs.tla`.

* `OneDaemonEach`: a daemon past bind has the name of its settings, and a name
  that is taken belongs to such a daemon (`SocketInv`).  Two daemons of one data
  directory have one name, by `PrivateHomes`, and a name has one daemon.
* `InOrder`: how many requests were executed follows from where the client is
  and from what has become of the last one (`CountInv`).  It is what makes
  the invariant inductive: a request is executed only while it is `sent`, and
  then one fewer than `next` were executed.
* `ClientTypesCorrect`: the types, with `OnRequest`: `next` stays within the
  command.
* `EachIdOnce` assumes that commands are those the command line can ask for
  (`Askable`).  `ParsedOnceEach` shows of `parse_job_ids` that it names each id
  that its arguments name, once, and no other, for any number of ranges: the loops
  of the code are chains of lists, each step of which adds one id or range
  (`Chains.tla`).
* `ExitsAreTruthful`: `had_error` is the disjunction of the answers so far, or
  of all but the last while that one is on its way (`HonestInv`).
* `FailuresHaveReasons` assumes `Namespaced`.  Whoever waits for an answer is
  connected to the daemon that has its socket or has lost it, and whoever waits
  for a daemon has one on its way, finds the socket taken, or has lost one
  (`FailInv`).  The second is what a race of clients could break: a daemon that
  loses the race exits, but then the winner has the socket of its client.  So a
  client that gives up has lost a daemon, or the one it started is not up yet.

`Table_proofs.tla`.  The number of columns and rows, the texts and the width are
arbitrary.  A table is printed once and nothing follows, so each property is
inductive together with the types (`OnceLaid`); what there is to prove is about
`Layout`.

* `NarrowLinesStayWithin`: a line without wide characters takes as many columns as
  it has characters.  A sum in which one summand is replaced changes by the difference
  (`SumChanges`), so what `shrink_flex_column` takes from one column it takes from
  the table.  Either it takes nothing, or the column ends at its minimum or at
  what just fits (`ShrinkOrKeep`).
* `TablesAreRectangular`: a line has as many characters as a frame if no piece is longer than
  its column.  A column that was not shrunk is at least as many characters as each
  of its texts has bytes, so nothing of it is cut; one that was is at least
  `MIN_FLEX_WIDTH`, so the dots have room.
* `NothingIsLost`: the chunks of a wrapped cell are a partition of its text in
  order, which is division with remainder, and the last one is not empty.  The
  rows that the layout concatenates are found in it at an offset, and no two rows
  share a line.
* `TableTypesCorrect`: the types, by the same lemmas.

Model-checked only: liveness under fairness (`QueueMoves`, `ChangesReachDisk`,
`StopsTakeEffect`, `FollowerLeaves`, `CommandsEnd`) and whatever needs `ENABLED`,
which are outside the prover's reach.  Every other property of a passing run is a
theorem.

## 5. Not modelled

* Requests that only read, in the daemon; error replies of requests that changed
  nothing.
* Poisoned mutexes, a panic in a task, a `Guard` that could not be attached.
* The JSON encoding, GPU probing, the declarations of the command line, and of
  the tables colours, frame characters, padding and the formatting of fields:
  input, output and pure functions of one value.
* `cat`, which reads a log once, as the client has it.
* The shrinking of the GPU pool below what a queued job asks for, which leaves
  the job queued for ever; the wrap of `next_id` after 2^32 jobs.

## 6. Plan

1. Socket files: what should become of a stale one, once the code or a document
   says so.
2. Proofs: the steps of the liveness arguments that are safety, namely that a
   task that has a chore keeps it until it is done.
