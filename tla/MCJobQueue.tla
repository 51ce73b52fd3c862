---------------------------- MODULE MCJobQueue ----------------------------
(* Instances of JobQueue for TLC.                                          *)
EXTENDS JobQueue, TLC

CONSTANTS p1, p2

\* Two replicas of one service, polling the same queue.
Replicas == [p \in Procs |-> Jobs]

\* Outcomes are written and never read: a run whose property does not mention
\* them need not tell them apart.
WithoutOutcomes ==
    <<rowVars, procVars, execVars, sweepVars, egressVars, reclaimed>>

ReplicaSymmetry == Permutations(Procs)
=============================================================================
