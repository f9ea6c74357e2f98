------------------------------ MODULE MCDaemon ------------------------------
(* Values for checking the daemon. *)
EXTENDS Daemon, TLC

MCCpuLimits  == {NoLimit, 1}
MCNoCpuLimit == {NoLimit}

\* Connection tasks are interchangeable.
HandlerSymmetry == Permutations(Handlers)
=============================================================================
