----------------------------- MODULE MCAppState -----------------------------
(* Values for checking the queue alone. *)
EXTENDS Listing

\* The ends of the range in which the negation of a priority keeps their order.
MCPriorities == {I32Min + 1, I32Max}
MCCpuLimits  == {NoLimit, 1}
=============================================================================
