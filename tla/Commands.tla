------------------------------ MODULE Commands ------------------------------
(***************************************************************************)
(* The commands of src/ipc/client.rs as the requests they send: a command  *)
(* is a sequence of requests, each of them a connection of its own.  What  *)
(* a client does with the answers is in Client.tla.                        *)
(*                                                                         *)
(* A request is <<kind>> or <<kind, id>>; what else it carries (labels,    *)
(* priorities, directories, environments) is left out.  A range of ids is  *)
(* <<first, last>>, a plain id n is <<n, n>>; an argument that is not a    *)
(* number is rejected as a range that runs backwards is.                   *)
(***************************************************************************)
EXTENDS Integers, Sequences, Functions

\* The commands build_request turns into one request; List is list_jobs'.
Singles == {"Add", "Info", "Cat", "KillAll", "SetLabel", "Remove", "Clear", "List", "GetDevices",
            "GetCpuLimit", "SetCpuLimit", "PauseAllQueued", "Shutdown"}

Kinds == Singles \cup {"Kill", "SetPriority", "Rerun", "Restart", "PauseJob", "ResumeJob", "ResumeAllPaused"}

build_request(kind) == << <<kind>> >>

Valid(args) == \A i \in DOMAIN args : args[i][1] <= args[i][2]

\* Mutant of Push: an id that was given before is taken again.
Push_Again(ids, id) == Append(ids, id)

\* seen.insert and ids.push.
Push(ids, id) == IF id \in Range(ids) THEN ids ELSE Append(ids, id)

\* The ids of a range that is valid, one after another.
PushRange(ids, range) ==
    LET pushed[n \in 0 .. range[2] - range[1] + 1] ==
            IF n = 0 THEN ids ELSE Push(pushed[n - 1], range[1] + n - 1)
    IN  pushed[range[2] - range[1] + 1]

\* In the order of the arguments, each id once.
parse_job_ids(args) ==
    LET parsed[n \in 0 .. Len(args)] == IF n = 0 THEN <<>> ELSE PushRange(parsed[n - 1], args[n])
    IN  parsed[Len(args)]

\* One request per id; all arguments are parsed before the first is sent, and
\* arguments that are not valid send nothing.
Each(kind, args) ==
    LET ids == IF Valid(args) THEN parse_job_ids(args) ELSE <<>>
    IN  [i \in DOMAIN ids |-> <<kind, ids[i]>>]

kill_many(args)         == Each("Kill", args)
set_priority_many(args) == Each("SetPriority", args)
rerun_many(args)        == Each("Rerun", args)
restart_many(args)      == Each("Restart", args)

pause_all  == build_request("PauseAllQueued")

\* Asks for all jobs, and may then resume those that are paused.
resume_all == << <<"List">>, <<"ResumeAllPaused">> >>

pause_or_resume(args, pause) ==
    IF args = <<>> THEN IF pause THEN pause_all ELSE resume_all
    ELSE Each(IF pause THEN "PauseJob" ELSE "ResumeJob", args)
=============================================================================
