------------------------------ MODULE Listing ------------------------------
(***************************************************************************)
(* `list` (src/ipc/client.rs): which jobs of a List answer it shows, and   *)
(* in which order.  The client sorts by a key of its own; the scheduler    *)
(* chooses by another.                                                     *)
(***************************************************************************)
EXTENDS AppState

\* Mutant of execution_order_key: the key is the plain priority.
execution_order_key_Plain(id) ==
    LET job == jobs[id]
    IN  CASE job.state = "Running" -> <<0, 0, id>>
          [] job.state = "Queued"  -> <<1, job.priority, id>>
          [] job.state = "Paused"  -> <<2, job.priority, id>>
          [] OTHER                 -> <<3, 0, id>>

\* The key of the default view; the priority is negated as an i64, which has room.
execution_order_key(id) ==
    LET job == jobs[id]
    IN  CASE job.state = "Running" -> <<0, 0, id>>
          [] job.state = "Queued"  -> <<1, -job.priority, id>>
          [] job.state = "Paused"  -> <<2, -job.priority, id>>
          [] OTHER                 -> <<3, 0, id>>

\* The order of tuples.
KeyBefore(k, l) ==
    \E i \in 1 .. 3 : k[i] < l[i] /\ \A j \in 1 .. i - 1 : k[j] = l[j]

\* A filter is the name of the state it matches.
state_wanted(all, states, state) ==
    all \/ state \in IF states = {} THEN {"Running", "Queued", "Paused"} ELSE states

\* The jobs shown: in the order of execution by default, otherwise as they came.
list_jobs(all, states, by_id) ==
    LET shown       == {id \in DOMAIN jobs : state_wanted(all, states, jobs[id].state)}
        Above(a, b) == IF ~by_id /\ ~all /\ states = {}
                       THEN KeyBefore(execution_order_key(a), execution_order_key(b))
                       ELSE a < b
    IN  CHOOSE listing \in [1 .. Cardinality(shown) -> shown] :
            \A i, j \in DOMAIN listing : i < j => Above(listing[i], listing[j])

ListedAbove(id) ==
    LET listing == list_jobs(FALSE, {}, FALSE)
    IN  {listing[k] : k \in 1 .. (CHOOSE k \in DOMAIN listing : listing[k] = id) - 1}

\* The default view, read from the top, foretells the scheduler: of the jobs that
\* could start, one that is listed further up starts first, whether they were
\* queued all along, resumed, re-queued or given another priority
\* (client.rs 324-340, "matches scheduler"; scheduler.rs 300-304).
ListingForetellsStarts ==
    [][\A id \in DOMAIN jobs : Starts(id) => ListedAbove(id) \cap Runnable = {}]_appVars
=============================================================================
