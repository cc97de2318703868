------------------------------ MODULE MCGeneration -----------------------------
(* Small instances of Generation for TLC.                                  *)
EXTENDS Generation, TLC

CONSTANTS j1, j2, loop

MCJobs == {j1, j2}

MCCallers == {j1, j2, loop}

MCSymmetry == Permutations(MCJobs)
================================================================================
