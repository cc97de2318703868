------------------------------ MODULE AbstractJobs ------------------------------
(***************************************************************************)
(* What the scheduler promises whoever submits a job: it waits, runs at    *)
(* most once in one of a number of slots, and ends with one answer, which  *)
(* stays.  Only a job that waits can be cancelled, and only a shutdown     *)
(* takes a job away without an answer.  Nothing here says how: no queue,   *)
(* no workers and threads, no timeouts, no records.  Scheduler implements  *)
(* this.                                                                   *)
(***************************************************************************)
EXTENDS Integers, FiniteSets

CONSTANTS Jobs, Slots

VARIABLES
  submitted,  \* jobs that were submitted
  waiting,    \* jobs that have not begun
  running,    \* jobs in a slot
  answer,     \* answer[j]: what whoever awaits j reads, once j has ended
  stopped     \* a shutdown has begun

vars == <<submitted, waiting, running, answer, stopped>>

Init ==
  /\ submitted = {}
  /\ waiting = {}
  /\ running = {}
  /\ answer = [j \in {} |-> "none"]
  /\ stopped = FALSE

Answer(j, a) == answer' = [k \in DOMAIN answer \cup {j} |-> IF k = j THEN a ELSE answer[k]]

Submit(j) ==
  /\ j \notin submitted
  /\ submitted' = submitted \cup {j}
  /\ waiting' = waiting \cup {j}
  /\ UNCHANGED <<running, answer, stopped>>

Cancel(j) ==
  /\ j \in waiting
  /\ waiting' = waiting \ {j}
  /\ Answer(j, "cancelled")
  /\ UNCHANGED <<submitted, running, stopped>>

Begin(j) ==
  /\ j \in waiting
  /\ Cardinality(running) < Slots
  /\ waiting' = waiting \ {j}
  /\ running' = running \cup {j}
  /\ UNCHANGED <<submitted, answer, stopped>>

\* The job generated a text, failed, or took too long.
End(j) ==
  /\ j \in running
  /\ \E a \in {"text", "error", "timeout"} : Answer(j, a)
  /\ \/ running' = running \ {j} /\ waiting' = waiting
     \/ \E k \in waiting :  \* its slot goes to the next job at once
          /\ running' = (running \ {j}) \cup {k}
          /\ waiting' = waiting \ {k}
  /\ UNCHANGED <<submitted, stopped>>

Stop ==
  /\ stopped' = TRUE
  /\ UNCHANGED <<submitted, waiting, running, answer>>

\* The shutdown takes a job out of its slot.
Abandon(j) ==
  /\ stopped
  /\ j \in running
  /\ running' = running \ {j}
  /\ UNCHANGED <<submitted, waiting, answer, stopped>>

Next ==
  \/ \E j \in Jobs : Submit(j) \/ Cancel(j) \/ Begin(j) \/ End(j) \/ Abandon(j)
  \/ Stop

Spec == Init /\ [][Next]_vars
================================================================================
