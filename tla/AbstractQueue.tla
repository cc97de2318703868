----------------------------- MODULE AbstractQueue -----------------------------
(***************************************************************************)
(* What scheduler/queue.py promises its callers: a bounded priority queue. *)
(* A job waits until there is room, is then pending, and is handed to      *)
(* exactly one worker, the best pending job first, unless it is dropped    *)
(* before.  Nothing here says how: no heap, no tombstones, no condition    *)
(* variable, no event loop.  PriorityQueue implements this.                *)
(***************************************************************************)
EXTENDS Integers, FiniteSets

CONSTANTS Jobs, Workers, Priority, MaxSize, NoJob

VARIABLES
  seq,      \* the next sequence number
  arrival,  \* arrival[j]: the sequence number of j's put, NotPut before it
  waiting,  \* jobs whose submitter waits for room
  pending,  \* jobs in the queue, neither taken nor dropped
  got       \* got[w]: the job worker w was handed last and still works on

vars == <<seq, arrival, waiting, pending, got>>

NotPut == -1

Room == MaxSize = 0 \/ Cardinality(pending) < MaxSize

\* Lower priority value first, arrival order between equals.
Before(i, k) ==
  \/ Priority[i] < Priority[k]
  \/ Priority[i] = Priority[k] /\ arrival[i] < arrival[k]

Init ==
  /\ seq = 0
  /\ arrival = [j \in Jobs |-> NotPut]
  /\ waiting = {}
  /\ pending = {}
  /\ got = [w \in Workers |-> NoJob]

Arrive(j) ==
  /\ arrival[j] = NotPut
  /\ arrival' = [arrival EXCEPT ![j] = seq]
  /\ seq' = seq + 1
  /\ \/ Room /\ pending' = pending \cup {j} /\ waiting' = waiting
     \/ ~Room /\ waiting' = waiting \cup {j} /\ pending' = pending
  /\ UNCHANGED got

Enter(j) ==
  /\ j \in waiting
  /\ Room
  /\ waiting' = waiting \ {j}
  /\ pending' = pending \cup {j}
  /\ UNCHANGED <<seq, arrival, got>>

Take(w, j) ==
  /\ j \in pending
  /\ \A k \in pending \ {j} : Before(j, k)
  /\ pending' = pending \ {j}
  /\ got' = [got EXCEPT ![w] = j]
  /\ UNCHANGED <<seq, arrival, waiting>>

Drop(j) ==
  /\ j \in pending
  /\ pending' = pending \ {j}
  /\ UNCHANGED <<seq, arrival, waiting, got>>

Release(w) ==
  /\ got' = [got EXCEPT ![w] = NoJob]
  /\ UNCHANGED <<seq, arrival, waiting, pending>>

Next ==
  \/ \E j \in Jobs : Arrive(j) \/ Enter(j) \/ Drop(j)
  \/ \E w \in Workers, j \in Jobs : Take(w, j)
  \/ \E w \in Workers : Release(w)

Spec == Init /\ [][Next]_vars
================================================================================
