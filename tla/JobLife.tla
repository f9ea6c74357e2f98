------------------------------ MODULE JobLife ------------------------------
(***************************************************************************)
(* What the queue promises about the life of each job, whatever its        *)
(* priority, its GPUs and its neighbours: its id is given once, it starts  *)
(* only from waiting, it goes back to waiting only from a run whose        *)
(* restart was asked for, and once over or gone it never runs again.       *)
(*                                                                         *)
(* A call may move many jobs, or none: in a step every job moves by a rule *)
(* of its own life or rests.                                               *)
(***************************************************************************)
CONSTANT Ids

VARIABLES
    stage,   \* of each job: "new", "waiting", "running", "over" or "gone"
    asked    \* the jobs whose present run is to be followed by another

lifeVars == <<stage, asked>>

Goes(id, from, to) == stage[id] = from /\ stage'[id] = to
AskedBefore(id)    == id \in asked
AskedAfter(id)     == id \in asked'

Rests(id)   == stage'[id] = stage[id] /\ (AskedAfter(id) <=> AskedBefore(id))
Ask(id)     == Goes(id, "running", "running") /\ AskedAfter(id)
Submit(id)  == Goes(id, "new", "waiting") /\ ~AskedAfter(id)
Begin(id)   == Goes(id, "waiting", "running") /\ ~AskedAfter(id)
Again(id)   == AskedBefore(id) /\ Goes(id, "running", "waiting") /\ ~AskedAfter(id)
Cancel(id)  == Goes(id, "waiting", "over") /\ ~AskedAfter(id)
Discard(id) == (Goes(id, "waiting", "gone") \/ Goes(id, "over", "gone")) /\ ~AskedAfter(id)

\* The run ends and the job with it, be it that the daemon died: what was asked of
\* the run is forgotten.
End(id) == Goes(id, "running", "over") /\ ~AskedAfter(id)

LifeInit == stage = [id \in Ids |-> "new"] /\ asked = {}

LifeNext == \A id \in Ids :
    \/ Rests(id) \/ Ask(id) \/ Submit(id) \/ Begin(id)
    \/ Again(id) \/ End(id) \/ Cancel(id) \/ Discard(id)

LifeSpec == LifeInit /\ [][LifeNext]_lifeVars
=============================================================================
