------------------------------ MODULE MCScheduler ------------------------------
(* Small instances of Scheduler for TLC.                                   *)
EXTENDS Scheduler

CONSTANTS j1, j2, j3, w1, w2

MCJobs == {j1, j2, j3}

MCWorkers == {w1, w2}

OneWorker == {w1}

\* One urgent job and two of equal rank.
MCPriority == (j1 :> 1 @@ j2 :> 1 @@ j3 :> 0)

MCSymmetry == Permutations(MCWorkers)
================================================================================
