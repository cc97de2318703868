---------------------------- MODULE MCPriorityQueue ----------------------------
(* Small instances of PriorityQueue for TLC.                               *)
EXTENDS PriorityQueue, TLC

CONSTANTS j1, j2, j3, j4, w1, w2

MCJobs == {j1, j2, j3, j4}

MCWorkers == {w1, w2}

\* One urgent job and three of equal rank, so that both the priority and the
\* arrival order decide.
MCPriority == [j \in MCJobs |-> IF j = j4 THEN 0 ELSE 1]

MCSymmetry == Permutations(MCWorkers) \cup Permutations(MCJobs \ {j4})

\* No stop() is called: what then goes wrong, goes wrong in normal service.
SteadySpec == Init /\ [][Next /\ aborted' = {}]_vars /\ Fairness
================================================================================
