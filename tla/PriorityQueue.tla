----------------------------- MODULE PriorityQueue -----------------------------
(***************************************************************************)
(* scheduler/queue.py: the asyncio priority queue between submitters and   *)
(* workers.                                                                *)
(*                                                                         *)
(* put, get and cancel hold the condition's lock but suspend only in       *)
(* Condition.wait(), which gives it up: every call is one atomic step up   *)
(* to its end or to its wait, and a woken task takes one more such step.   *)
(* One condition serves both sides, so submitters blocked on a full queue  *)
(* and workers blocked on an empty one share a single FIFO wait set.       *)
(*                                                                         *)
(* A task is named by what it works for: job j names the task that submits *)
(* j, w the worker.  The heap is the set of queued jobs; the order it      *)
(* keeps is Before.                                                        *)
(***************************************************************************)
EXTENDS Integers, FiniteSets, SequencesExt

CONSTANTS
  Jobs,      \* every job of the run; ids are uuids, so a job is put once
  Workers,   \* the scheduler's worker tasks
  Priority,  \* Priority[j]: QueueItem.priority, lower is served first
  MaxSize,   \* PriorityQueue(maxsize); 0 is unbounded
  NoJob

ASSUME QueueAssumption ==
  /\ IsFiniteSet(Jobs)
  /\ IsFiniteSet(Workers)
  /\ Jobs \cap Workers = {}
  /\ Priority \in [Jobs -> Int]
  /\ MaxSize \in Nat
  /\ NoJob \notin Jobs

VARIABLES
  seq,         \* Scheduler._seq: the next sequence number
  arrival,     \* arrival[j]: QueueItem.seq of job j, NotPut before its put
  heap,        \* _heap: jobs in the heap, the tombstoned ones included
  tombstones,  \* _tombstones: jobs cancelled while in the heap
  waiters,     \* _cond._waiters: tasks inside Condition.wait(), oldest first
  ready,       \* notified tasks, in the order the event loop resumes them
  aborted,     \* workers cancelled inside get() that have not run since
  got          \* got[w]: the job w's last get() returned, NoJob when done

vars == <<seq, arrival, heap, tombstones, waiters, ready, aborted, got>>

Tasks == Jobs \cup Workers

NotPut == -1

InWait == ToSet(waiters) \cup ToSet(ready)

Init ==
  /\ seq = 0
  /\ arrival = [j \in Jobs |-> NotPut]
  /\ heap = {}
  /\ tombstones = {}
  /\ waiters = <<>>
  /\ ready = <<>>
  /\ aborted = {}
  /\ got = [w \in Workers |-> NoJob]

--------------------------------------------------------------------------------
(* The queue's own operators.                                              *)

\* Mutant of Before: equals are served last in, first out.
BeforeLifo(i, k) ==
  \/ Priority[i] < Priority[k]
  \/ Priority[i] = Priority[k] /\ arrival[i] > arrival[k]

Before(i, k) ==
  \/ Priority[i] < Priority[k]
  \/ Priority[i] = Priority[k] /\ arrival[i] < arrival[k]

QSize == Cardinality(heap) - Cardinality(tombstones)

Full == MaxSize > 0 /\ QSize >= MaxSize

\* The jobs a get() can return.
Live == heap \ tombstones

\* Condition.notify() passes over waiters whose future is already done.
Notifiable == {i \in DOMAIN waiters : waiters[i] \notin aborted}

\* Condition.notify(): the oldest notifiable waiter joins the tasks to run.
Notify(running) ==
  \/ /\ Notifiable = {}
     /\ waiters' = waiters
     /\ ready' = running
  \/ \E i \in Notifiable :
       /\ \A k \in Notifiable : i <= k
       /\ waiters' = RemoveAt(waiters, i)
       /\ ready' = Append(running, waiters[i])

\* Condition.wait(): task t goes to sleep behind the others.
Wait(t, running) ==
  /\ waiters' = Append(waiters, t)
  /\ ready' = running

\* Mutant of Put: the push is not followed by a notify().
PutQuiet(j, running) ==
  /\ \/ /\ ~Full
        /\ heap' = heap \cup {j}
        /\ ready' = running
        /\ UNCHANGED waiters
     \/ /\ Full
        /\ Wait(j, running)
        /\ UNCHANGED heap
  /\ UNCHANGED tombstones

\* put(j), from its call or from a wake-up: the while re-tests full().
Put(j, running) ==
  /\ \/ /\ ~Full
        /\ heap' = heap \cup {j}
        /\ Notify(running)
     \/ /\ Full
        /\ Wait(j, running)
        /\ UNCHANGED heap
  /\ UNCHANGED tombstones

\* get(): pop the least item that has no tombstone, dropping on the way the
\* tombstoned ones that come before it; on an empty heap, sleep.
Ahead(j) == {k \in heap : Before(k, j)}

Pop(w, running) ==
  \E j \in Live :
    /\ \A k \in Live \ {j} : Before(j, k)
    /\ heap' = heap \ (Ahead(j) \cup {j})
    /\ tombstones' = tombstones \ Ahead(j)
    /\ got' = [got EXCEPT ![w] = j]
    /\ Notify(running)

Starve(w, running) ==
  /\ Live = {}
  /\ heap' = {}
  /\ tombstones' = tombstones \ heap
  /\ got' = [got EXCEPT ![w] = NoJob]
  /\ Wait(w, running)

Get(w, running) == Pop(w, running) \/ Starve(w, running)

--------------------------------------------------------------------------------
(* Steps of the tasks that use the queue.                                  *)

\* A submitter calls put() with a fresh item (Scheduler.submit_chat).
PutCall(j) ==
  /\ arrival[j] = NotPut
  /\ arrival' = [arrival EXCEPT ![j] = seq]
  /\ seq' = seq + 1
  /\ Put(j, ready)
  /\ UNCHANGED <<aborted, got>>

\* Mutant of PutWake: an if instead of the while, full() is not re-tested.
PutWakeOnce ==
  /\ ready # <<>>
  /\ Head(ready) \in Jobs
  /\ heap' = heap \cup {Head(ready)}
  /\ Notify(Tail(ready))
  /\ UNCHANGED <<seq, arrival, tombstones, aborted, got>>

\* A submitter notified in put() runs again.
PutWake ==
  /\ ready # <<>>
  /\ Head(ready) \in Jobs
  /\ Put(Head(ready), Tail(ready))
  /\ UNCHANGED <<seq, arrival, aborted, got>>

\* A worker calls get(), done with the job it was handed before.
GetCall(w) ==
  /\ w \notin InWait
  /\ Get(w, ready)
  /\ UNCHANGED <<seq, arrival, aborted>>

\* A worker notified in get() runs again.
GetWake ==
  /\ ready # <<>>
  /\ Head(ready) \in Workers \ aborted
  /\ Get(Head(ready), Tail(ready))
  /\ UNCHANGED <<seq, arrival, aborted>>

\* Mutant of Cancel: a job that has left the heap is tombstoned too.
CancelAny(j) ==
  /\ arrival[j] # NotPut
  /\ tombstones' = tombstones \cup {j}
  /\ ready' = ready \o waiters
  /\ waiters' = <<>>
  /\ UNCHANGED <<seq, arrival, heap, aborted, got>>

\* cancel(j): tombstone a job found in the heap, an already tombstoned one
\* included, and notify_all().  (An aborted worker's entry moves along: where
\* it stands until the worker leaves is seen by nobody.)
Cancel(j) ==
  /\ j \in heap
  /\ tombstones' = tombstones \cup {j}
  /\ ready' = ready \o waiters
  /\ waiters' = <<>>
  /\ UNCHANGED <<seq, arrival, heap, aborted, got>>

\* Scheduler.stop() cancels every worker task.  One that sleeps keeps its
\* entry in the deque, its future done; one already notified keeps its turn.
Abort ==
  /\ aborted' = aborted \cup (Workers \cap InWait)
  /\ UNCHANGED <<seq, arrival, heap, tombstones, waiters, ready, got>>

\* An aborted worker runs: wait() removes its entry and raises, and the
\* notification it may have had goes to nobody.
Leave(w) ==
  /\ w \in aborted
  /\ \/ /\ ready # <<>>
        /\ Head(ready) = w
        /\ ready' = Tail(ready)
        /\ UNCHANGED waiters
     \/ \E i \in DOMAIN waiters :
          /\ waiters[i] = w
          /\ waiters' = RemoveAt(waiters, i)
          /\ UNCHANGED ready
  /\ aborted' = aborted \ {w}
  /\ UNCHANGED <<seq, arrival, heap, tombstones, got>>

\* A worker cancelled while it runs its job never calls get() for it.
Release(w) ==
  /\ got[w] # NoJob
  /\ got' = [got EXCEPT ![w] = NoJob]
  /\ UNCHANGED <<seq, arrival, heap, tombstones, waiters, ready, aborted>>

Next ==
  \/ \E j \in Jobs : PutCall(j) \/ Cancel(j)
  \/ PutWake
  \/ \E w \in Workers : GetCall(w) \/ Leave(w) \/ Release(w)
  \/ GetWake
  \/ Abort

Spec == Init /\ [][Next]_vars

\* The event loop runs every task that is ready, and a worker that was
\* handed a job comes back for the next one.
Fairness ==
  /\ WF_vars(PutWake \/ GetWake)
  /\ \A w \in Workers : WF_vars(GetCall(w)) /\ WF_vars(Leave(w))

FairSpec == Spec /\ Fairness

--------------------------------------------------------------------------------
(* Properties.                                                             *)

\* Types, and each task waits in at most one place at a time.
TypeOK ==
  /\ seq \in Nat
  /\ arrival \in [Jobs -> Nat \cup {NotPut}]
  /\ heap \subseteq Jobs
  /\ tombstones \subseteq Jobs
  /\ waiters \in Seq(Tasks)
  /\ ready \in Seq(Tasks)
  /\ aborted \subseteq Workers
  /\ got \in [Workers -> Jobs \cup {NoJob}]

\* A task that waits has one place to wait in.
OneTurn(ws, rs) ==
  /\ IsInjective(ws)
  /\ IsInjective(rs)
  /\ ToSet(ws) \cap ToSet(rs) = {}

\* Submitters in put(), asleep or notified.
Blocked == InWait \cap Jobs

\* The lazy removal is sound: a tombstone never outlives the item it is for,
\* so qsize(), which subtracts the number of tombstones from the length of
\* the heap and which full(), can_admit() and health() trust, counts exactly
\* the jobs a get() can still return; and a job is in the heap or its
\* submitter is still in put(), never both.
QueueInv ==
  /\ tombstones \subseteq heap
  /\ QSize = Cardinality(Live)
  /\ OneTurn(waiters, ready)
  /\ heap \cap Blocked = {}
  /\ \A j \in heap \cup Blocked : arrival[j] # NotPut

\* put() re-tests full() whenever it is woken: the bound of the queue holds
\* however wake-ups, other puts and cancels interleave.
CapacityRespected == MaxSize > 0 => QSize <= MaxSize

\* "A bounded pool of async workers drains the queue": while no submitter is
\* suspended in put(), a worker sleeps with a job in the queue only if
\* another worker is already on its way to it.
WorkConserving ==
  (/\ InWait \cap Jobs = {}
   /\ Live # {}
   /\ ToSet(waiters) \cap (Workers \ aborted) # {})
  => ToSet(ready) \cap (Workers \ aborted) # {}

\* The queue is what its callers think it is: a bounded priority queue in
\* which each job is handed out once, best first, unless cancelled.
Abstract == INSTANCE AbstractQueue WITH waiting <- Blocked, pending <- Live

ImplementsQueue == Abstract!Spec

\* put(): "Add a job to the queue, blocking while full (backpressure)", and
\* scheduler/README.md: "`submit_chat` blocks until capacity frees".
PutReturns == \A j \in Jobs : j \in Blocked ~> j \notin Blocked
================================================================================
