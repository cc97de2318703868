---------------------------- MODULE SchedulerProofs ----------------------------
(***************************************************************************)
(* Proofs about Scheduler for every number of jobs, workers and threads.   *)
(*                                                                         *)
(* Section 1 shows that every step of the scheduler is a step of the queue *)
(* and says what the queue's actions do to the few views of it that the    *)
(* scheduler has: the jobs that can be taken, the submitters that are      *)
(* blocked, the workers that sleep.  Section 2 states the inductive        *)
(* invariant in those terms and section 3 proves it.  The other sections   *)
(* add to it what one property each needs; section 4 and the end of every  *)
(* section state the theorems.  Section 9 puts them together: the          *)
(* scheduler implements AbstractJobs.                                      *)
(***************************************************************************)
EXTENDS Scheduler, PriorityQueueProofs

--------------------------------------------------------------------------------
(* 1. The queue as the scheduler sees it.                                  *)

\* Each step of the scheduler is a step of the queue, or leaves it alone.
LEMMA StepUsesQueue == [SchedulerNext]_schedulerVars => [Next]_vars
<1> SUFFICES ASSUME [SchedulerNext]_schedulerVars PROVE Next \/ UNCHANGED queueVars
  BY DEF queueVars, vars
<1> USE DEF Next
<1>1. ASSUME NEW j \in Jobs, Submit(j) PROVE Next
  BY <1>1 DEF Submit, Create
<1>2. ASSUME NEW j \in Jobs, CancelJob(j) PROVE Next
  BY <1>2 DEF CancelJob, SetDone, Archive
<1>3. ASSUME NEW j \in Jobs, ThreadBegin(j) \/ ThreadEnd(j)
      PROVE  UNCHANGED queueVars
  BY <1>3 DEF ThreadBegin, ThreadEnd
<1>4. CASE SubmitResume
  BY <1>4 DEF SubmitResume
<1>5. CASE WorkerWake
  BY <1>5 DEF WorkerWake
<1>6. ASSUME NEW w \in Workers, WorkerStart(w) \/ Finish(w) \/ Reap(w)
      PROVE  Next
  <2>1. GetCall(w)
    BY <1>6 DEF WorkerStart, Finish, Reap, EndJob, SetDone, Archive
  <2>2. QED
    BY <2>1
<1>7. ASSUME NEW w \in Workers,
             InnerStart(w) \/ InnerEnd(w) \/ Timeout(w) \/ CancelledFresh(w)
      PROVE  UNCHANGED queueVars
  BY <1>7 DEF InnerStart, InnerEnd, Timeout, CancelledFresh
<1>8. ASSUME NEW w \in Workers, CancelledInRun(w) \/ CancelledInGet(w)
      PROVE  Next
  BY <1>8 DEF CancelledInRun, CancelledInGet, Archive
<1>9. CASE StopCancel
  BY <1>9 DEF StopCancel
<1>10. CASE Start \/ StopCall \/ StopReturn
  BY <1>10 DEF Start, StopCall, StopReturn
<1>11. CASE UNCHANGED schedulerVars
  BY <1>11 DEF schedulerVars
<1>12. QED
  BY <1>1, <1>2, <1>3, <1>4, <1>5, <1>6, <1>7, <1>8, <1>9, <1>10, <1>11 DEF SchedulerNext

\* The queue inside the scheduler is the queue of PriorityQueue: what the
\* theorems of PriorityQueueProofs say of every behaviour of it holds here.
THEOREM SchedulerUsesQueue == SchedulerSpec => Spec
<1>1. SchedulerInit => Init
  BY DEF SchedulerInit
<1>2. QED
  BY <1>1, StepUsesQueue, PTL DEF SchedulerSpec, Spec

\* qsize(), which admission and health() trust, is exact in the scheduler too,
\* and a blocked submitter waits in one place.
COROLLARY QueueInScheduler == SchedulerSpec => [](QueueInv /\ CapacityRespected)
BY SchedulerUsesQueue, QueueInvariant, CapacityTheorem, PTL

\* The workers asleep in get(), or notified there and not run since.
Sleeping == InWait \cap Workers

Views == <<heap, Live, Blocked, Sleeping, got>>

\* put(): the job is queued or its submitter is blocked, as there is room.
LEMMA PutCallViews ==
  ASSUME TypeOK, Shape, NEW j \in Jobs, PutCall(j)
  PROVE  /\ j \notin heap /\ j \notin Blocked
         /\ heap' \subseteq heap \cup {j}
         /\ \/ ~Full /\ Live' = Live \cup {j} /\ Blocked' = Blocked
            \/ Full /\ Live' = Live /\ Blocked' = Blocked \cup {j}
         /\ Sleeping' = Sleeping
         /\ got' = got
<1>1. /\ arrival[j] = NotPut /\ Put(j, ready) /\ got' = got
      /\ ready \in Seq(Tasks) /\ tombstones \subseteq heap
      /\ OneTurn(waiters, ready)
      /\ j \notin heap /\ j \notin Blocked /\ j \notin Workers
  BY QueueAssumption DEF PutCall, Shape, TypeOK
<1>2. j \notin ToSet(waiters) \cup ToSet(ready)
  BY <1>1 DEF Blocked, InWait
<1>3. QED
  BY <1>1, <1>2, PutEffect DEF Blocked, InWait, Sleeping

\* A submitter woken in put() enters the queue or blocks again.
LEMMA PutWakeViews ==
  ASSUME TypeOK, Shape, PutWake
  PROVE  /\ heap' \subseteq heap \cup Blocked
         /\ Live' \cup Blocked' = Live \cup Blocked
         /\ Sleeping' = Sleeping
         /\ got' = got
         /\ Blocked # {}
<1> DEFINE j == Head(ready)
<1>1. /\ j \in Jobs /\ ready # <<>> /\ Put(j, Tail(ready)) /\ got' = got
      /\ tombstones \subseteq heap /\ OneTurn(waiters, ready)
      /\ heap \cap Blocked = {} /\ j \notin Workers
  BY QueueAssumption DEF PutWake, Shape
<1>2. /\ OneTurn(waiters, Tail(ready)) /\ j \in InWait
      /\ Tail(ready) \in Seq(Tasks)
      /\ ToSet(waiters) \cup ToSet(Tail(ready)) = InWait \ {j}
  BY <1>1, ResumeTurn
<1>3. j \in Blocked /\ j \notin heap
  BY <1>1, <1>2 DEF Blocked
<1> HIDE DEF j
<1>4. \/ heap' = heap \cup {j} /\ Live' = Live \cup {j} /\ InWait' = InWait \ {j}
      \/ heap' = heap /\ Live' = Live /\ InWait' = (InWait \ {j}) \cup {j}
  BY <1>1, <1>2, <1>3, PutEffect
<1>5. QED
  BY <1>1, <1>2, <1>3, <1>4 DEF Blocked, Sleeping

\* get(), from its call or from a wake-up: worker w has the best job there is,
\* or sleeps.
Served(w) ==
  \E j \in Live : /\ j \notin heap' /\ heap' \subseteq heap
                  /\ Live' = Live \ {j}
                  /\ Blocked' = Blocked
                  /\ got' = [got EXCEPT ![w] = j]
                  /\ Sleeping' = Sleeping \ {w}

Starved(w) ==
  /\ Live = {} /\ Live' = {} /\ heap' \subseteq heap
  /\ Blocked' = Blocked
  /\ got' = [got EXCEPT ![w] = NoJob]
  /\ Sleeping' = Sleeping \cup {w}

LEMMA GetViews ==
  ASSUME TypeOK, Shape, NEW w \in Workers, NEW STATE running,
         running \in Seq(Tasks), OneTurn(waiters, running),
         ToSet(waiters) \cup ToSet(running) = InWait \ {w},
         Get(w, running)
  PROVE  Served(w) \/ Starved(w)
<1>1. tombstones \subseteq heap /\ w \notin Jobs
  BY QueueAssumption DEF Shape
<1>2. CASE Pop(w, running)
  <2>1. PICK j \in Live : /\ heap' = heap \ (Ahead(j) \cup {j})
                          /\ got' = [got EXCEPT ![w] = j]
                          /\ Notify(running)
                          /\ \A k \in Live \ {j} : Before(j, k)
                          /\ tombstones' = tombstones \ Ahead(j)
    BY <1>2 DEF Pop
  <2>2. InWait' = InWait \ {w}
    BY <2>1, NotifySet DEF InWait
  <2>3. Live' = Live \ {j}
    <3>1. ASSUME NEW k \in Live, k # j PROVE k \notin Ahead(j)
      <4>1. Before(j, k) /\ k \in Jobs /\ j \in Jobs /\ arrival[k] \in Int /\ arrival[j] \in Int
            /\ Priority[k] \in Int /\ Priority[j] \in Int
        BY <2>1, <3>1, QueueAssumption DEF Live, TypeOK, NotPut
      <4>2. QED
        BY <4>1 DEF Before, Ahead
    <3>2. QED
      BY <2>1, <3>1 DEF Live
  <2>4. QED
    BY <1>1, <2>1, <2>2, <2>3 DEF Served, Blocked, Sleeping
<1>3. CASE Starve(w, running)
  <2>1. InWait' = (InWait \ {w}) \cup {w}
    <3>1. w \in Tasks
      BY DEF Tasks
    <3>2. QED
      BY <1>3, <3>1, WaitSet DEF Starve, InWait
  <2>2. QED
    BY <1>1, <1>3, <2>1 DEF Starve, Starved, Blocked, Sleeping, Live
<1>4. QED
  BY <1>2, <1>3 DEF Get

LEMMA GetCallViews ==
  ASSUME TypeOK, Shape, NEW w \in Workers, GetCall(w)
  PROVE  w \notin Sleeping /\ (Served(w) \/ Starved(w))
<1>1. w \notin InWait /\ Get(w, ready) /\ OneTurn(waiters, ready)
      /\ ready \in Seq(Tasks)
  BY DEF GetCall, Shape, TypeOK
<1>2. ToSet(waiters) \cup ToSet(ready) = InWait \ {w}
  BY <1>1 DEF InWait
<1>3. QED
  BY <1>1, <1>2, GetViews DEF Sleeping

LEMMA GetWakeViews ==
  ASSUME TypeOK, Shape, GetWake
  PROVE  /\ Head(ready) \in Workers
         /\ Head(ready) \in Sleeping
         /\ Served(Head(ready)) \/ Starved(Head(ready))
<1>1. /\ Head(ready) \in Workers /\ ready # <<>> /\ Get(Head(ready), Tail(ready))
      /\ OneTurn(waiters, ready)
  BY DEF GetWake, Shape
<1>2. /\ OneTurn(waiters, Tail(ready)) /\ Head(ready) \in InWait
      /\ Tail(ready) \in Seq(Tasks)
      /\ ToSet(waiters) \cup ToSet(Tail(ready)) = InWait \ {Head(ready)}
  BY <1>1, ResumeTurn
<1>3. QED
  BY <1>1, <1>2, GetViews DEF Sleeping

\* cancel() takes the job from those that can be taken, and wakes everybody.
LEMMA CancelViews ==
  ASSUME TypeOK, Shape, NEW j \in Jobs, Cancel(j)
  PROVE  /\ j \in heap /\ heap' = heap
         /\ Live' = Live \ {j}
         /\ UNCHANGED <<Blocked, Sleeping, got>>
<1>1. InWait' = InWait
  <2>1. ToSet(<<>>) = {}
    BY DEF ToSet
  <2>2. ToSet(ready \o waiters) = ToSet(ready) \cup ToSet(waiters)
    BY ConcatSet DEF TypeOK
  <2>3. QED
    BY <2>1, <2>2 DEF Cancel, InWait
<1>2. QED
  BY <1>1 DEF Cancel, Live, Blocked, Sleeping

\* A cancelled worker leaves get().
LEMMA LeaveViews ==
  ASSUME TypeOK, Shape, NEW w \in Workers, Leave(w)
  PROVE  /\ w \in Sleeping /\ Sleeping' = Sleeping \ {w}
         /\ UNCHANGED <<heap, Live, Blocked, got>>
<1>1. /\ OneTurn(waiters, ready) /\ waiters \in Seq(Tasks) /\ ready \in Seq(Tasks)
      /\ w \notin Jobs
  BY QueueAssumption DEF Shape, TypeOK
<1>2. w \in InWait /\ InWait' = InWait \ {w}
  <2>1. CASE ready # <<>> /\ Head(ready) = w /\ ready' = Tail(ready) /\ waiters' = waiters
    BY <1>1, <2>1, ResumeTurn DEF InWait
  <2>2. ASSUME NEW i \in DOMAIN waiters, waiters[i] = w,
               waiters' = RemoveAt(waiters, i), ready' = ready
        PROVE  w \in InWait /\ InWait' = InWait \ {w}
    <3>1. ToSet(waiters) = ToSet(RemoveAt(waiters, i)) \cup {w}
      BY <1>1, <2>2, RemoveAtSet
    <3>2. w \notin ToSet(RemoveAt(waiters, i))
      BY <1>1, <2>2, RemoveAtDistinct DEF OneTurn
    <3>3. w \notin ToSet(ready)
      BY <1>1, <3>1 DEF OneTurn
    <3>4. QED
      BY <2>2, <3>1, <3>2, <3>3 DEF InWait
  <2>3. QED
    BY <2>1, <2>2 DEF Leave
<1>3. QED
  BY <1>1, <1>2 DEF Leave, Live, Blocked, Sleeping

--------------------------------------------------------------------------------
(* 2. The inductive invariant.                                             *)

Running == {"spawned", "calling", "returned", "raised", "reap"}

Types ==
  /\ status \in [Jobs -> Status]
  /\ result \in [Jobs -> {"none", "text", "error", "timeout"}]
  /\ done \subseteq Jobs
  /\ store \subseteq Jobs
  /\ pc \in [Workers -> Pc]
  /\ thread \in [Jobs -> {"none", "queued", "running", "returned", "raised"}]
  /\ cancelled \subseteq Workers
  /\ phase \in {"off", "up", "draining", "joining"}

\* A worker has a job exactly while it runs one, and sleeps exactly while it
\* is in get(); start() finds no worker.
Posts ==
  /\ \A w \in Workers : got[w] # NoJob <=> pc[w] \in Running
  /\ \A w \in Workers : w \in Sleeping <=> pc[w] = "get"
  /\ phase = "off" => \A w \in Workers : pc[w] = "dead"

\* A record is live because its job is in the queue, blocked before it, or held
\* by one worker, and its status says which.  A job in the heap, tombstoned or
\* not, is held by nobody: without this, cancel() of a tombstoned item might
\* end a running job.
Records ==
  /\ heap \cap Held = {}
  /\ store = Live \cup Blocked \cup Held
  /\ \A j \in Live \cup Blocked : status[j] = "queued"
  /\ \A j \in Held : status[j] = "running"
  /\ \A v, w \in Busy : got[v] = got[w] => v = w

Queue == TypeOK /\ Shape

Inv == Types /\ Posts /\ Records

LEMMA ViewFacts ==
  ASSUME Queue
  PROVE  /\ Live \subseteq heap /\ heap \subseteq Jobs
         /\ Blocked \subseteq Jobs
         /\ heap \cap Blocked = {}
         /\ Held \subseteq Jobs
         /\ Busy \subseteq Workers
         /\ \A w \in Workers : w \in Busy <=> got[w] # NoJob
         /\ got \in [Workers -> Jobs \cup {NoJob}]
         /\ NoJob \notin Jobs
         /\ Sleeping \subseteq Workers
BY QueueAssumption DEF Queue, TypeOK, Shape, Live, Blocked, Held, Busy, Sleeping

LEMMA SameHeld == UNCHANGED got => UNCHANGED <<Busy, Held>>
BY DEF Busy, Held

LEMMA QueueRests == UNCHANGED queueVars => UNCHANGED Views
BY DEF queueVars, vars, Views, Live, Blocked, Sleeping, InWait

LEMMA AbortRests == Abort => UNCHANGED Views
BY DEF Abort, Views, Live, Blocked, Sleeping, InWait

\* What a worker holds after a get(): one of the jobs that could be taken, or
\* nothing; what the others hold does not change.
LEMMA HeldAfterGet ==
  ASSUME Queue, Records, NEW w \in Workers, Served(w) \/ Starved(w)
  PROVE  /\ Held' = (Held \ {got[w]}) \cup ({got'[w]} \ {NoJob})
         /\ Busy' = IF got'[w] = NoJob THEN Busy \ {w} ELSE Busy \cup {w}
         /\ \A v \in Workers \ {w} : got'[v] = got[v]
         /\ got'[w] # NoJob => got'[w] \in Live /\ got'[w] \notin Live' /\ got'[w] \notin heap'
         /\ Live' = Live \ {got'[w]}
         /\ got' \in [Workers -> Jobs \cup {NoJob}]
<1>1. PICK g \in Live \cup {NoJob} :
        /\ got' = [got EXCEPT ![w] = g]
        /\ g # NoJob => g \in Live /\ g \notin heap'
        /\ Live' = Live \ {g}
  BY ViewFacts DEF Served, Starved
<1>2. /\ got'[w] = g
      /\ \A v \in Workers \ {w} : got'[v] = got[v]
      /\ got' \in [Workers -> Jobs \cup {NoJob}]
  BY <1>1, ViewFacts
<1>3. Busy' = IF g = NoJob THEN Busy \ {w} ELSE Busy \cup {w}
  BY <1>1, <1>2, ViewFacts DEF Busy
<1>4. Held' = (Held \ {got[w]}) \cup ({g} \ {NoJob})
  <2>1. ASSUME NEW j, j \in Held' PROVE j \in (Held \ {got[w]}) \cup ({g} \ {NoJob})
    <3>1. PICK v \in Workers : got'[v] # NoJob /\ j = got'[v]
      BY <2>1 DEF Held, Busy
    <3>2. CASE v = w
      BY <1>2, <3>1, <3>2
    <3>3. CASE v # w
      <4>1. v \in Busy /\ got[v] = j
        BY <1>2, <3>1, <3>3, ViewFacts
      <4>2. got[w] # j
        BY <3>1, <3>3, <4>1, ViewFacts DEF Records
      <4>3. QED
        BY <4>1, <4>2 DEF Held
    <3>4. QED
      BY <3>2, <3>3
  <2>2. ASSUME NEW j, j \in (Held \ {got[w]}) \cup ({g} \ {NoJob}) PROVE j \in Held'
    <3>1. CASE j \in Held \ {got[w]}
      <4>1. PICK v \in Busy : j = got[v]
        BY <3>1 DEF Held
      <4>2. v \in Workers /\ v # w /\ got'[v] = j /\ got'[v] # NoJob
        BY <1>2, <3>1, <4>1 DEF Busy
      <4>3. QED
        BY <4>2 DEF Held, Busy
    <3>2. CASE j = g /\ g # NoJob
      BY <1>2, <3>2 DEF Held, Busy
    <3>3. QED
      BY <2>2, <3>1, <3>2
  <2>3. QED
    BY <2>1, <2>2
<1>5. QED
  BY <1>1, <1>2, <1>3, <1>4, ViewFacts

\* A worker whose job, if it had one, is settled and archived goes through
\* get(): `statuses' are the records before AfterGet, those of the other live
\* jobs unchanged.
LEMMA Handover ==
  ASSUME Queue, Inv, Queue', NEW w \in Workers, Served(w) \/ Starved(w),
         NEW STATE statuses, statuses \in [Jobs -> Status],
         \A j \in Jobs \ {got[w]} : statuses[j] = status[j],
         NEW STATE running, AfterGet(w, statuses, running),
         store' = store \ {got[w]}, phase' = phase, pc[w] # "dead"
  PROVE  /\ Posts' /\ Records'
         /\ status' \in [Jobs -> Status] /\ pc' \in [Workers -> Pc]
         /\ store' \subseteq Jobs
<1>1. /\ Held' = (Held \ {got[w]}) \cup ({got'[w]} \ {NoJob})
      /\ Busy' = IF got'[w] = NoJob THEN Busy \ {w} ELSE Busy \cup {w}
      /\ \A v \in Workers \ {w} : got'[v] = got[v]
      /\ got'[w] # NoJob => got'[w] \in Live /\ got'[w] \notin Live' /\ got'[w] \notin heap'
      /\ Live' = Live \ {got'[w]}
      /\ got' \in [Workers -> Jobs \cup {NoJob}]
  BY HeldAfterGet DEF Inv
<1>2. /\ heap' \subseteq heap /\ Blocked' = Blocked
      /\ got'[w] = NoJob => Sleeping' = Sleeping \cup {w}
      /\ got'[w] # NoJob => Sleeping' = Sleeping \ {w}
  BY ViewFacts DEF Served, Starved
<1>3. /\ got'[w] = NoJob => pc' = [pc EXCEPT ![w] = "get"] /\ status' = statuses
      /\ got'[w] # NoJob => /\ pc' = [pc EXCEPT ![w] = "spawned"]
                            /\ status' = [statuses EXCEPT ![got'[w]] = "running"]
  BY DEF AfterGet
<1>4. pc \in [Workers -> Pc] /\ pc' \in [Workers -> Pc] /\ pc[w] \in Pc
  BY <1>3 DEF Inv, Types, Pc
<1>5. Posts'
  <2>1. \A v \in Workers : got'[v] # NoJob <=> pc'[v] \in Running
    BY <1>1, <1>3, <1>4 DEF Inv, Posts, Running
  <2>2. \A v \in Workers : v \in Sleeping' <=> pc'[v] = "get"
    BY <1>2, <1>3, <1>4 DEF Inv, Posts
  <2>3. phase # "off"
    BY DEF Inv, Posts
  <2>4. QED
    BY <2>1, <2>2, <2>3 DEF Posts
<1>6. status' \in [Jobs -> Status]
  BY <1>1, <1>3, ViewFacts DEF Status
<1>7. Records'
  <2>1. heap' \cap Held' = {}
    BY <1>1, <1>2 DEF Inv, Records
  <2>2. got[w] \notin Live \cup Blocked
    <3>1. CASE got[w] = NoJob
      BY <3>1, ViewFacts
    <3>2. CASE got[w] # NoJob
      <4>1. got[w] \in Held
        BY <3>2 DEF Held, Busy
      <4>2. QED
        BY <4>1, ViewFacts DEF Inv, Records
    <3>3. QED
      BY <3>1, <3>2
  <2>3. store' = Live' \cup Blocked' \cup Held'
    BY <1>1, <1>2, <2>2, ViewFacts DEF Inv, Records
  <2>4. \A j \in Live' \cup Blocked' : status'[j] = "queued"
    <3>1. ASSUME NEW j \in Live' \cup Blocked' PROVE status'[j] = "queued"
      <4>1. j \in Live \cup Blocked /\ j \in Jobs /\ j # got'[w] /\ j # got[w]
        BY <1>1, <1>2, <2>2, ViewFacts
      <4>2. statuses[j] = "queued"
        BY <4>1 DEF Inv, Records
      <4>3. QED
        BY <1>3, <4>1, <4>2
    <3>2. QED
      BY <3>1
  <2>5. \A j \in Held' : status'[j] = "running"
    <3>1. ASSUME NEW j \in Held' PROVE status'[j] = "running"
      <4>1. CASE j = got'[w] /\ got'[w] # NoJob
        BY <1>1, <1>3, <4>1, ViewFacts
      <4>2. CASE j \in Held \ {got[w]} /\ j # got'[w]
        BY <1>3, <4>2, ViewFacts DEF Inv, Records
      <4>3. QED
        BY <1>1, <3>1, <4>1, <4>2, ViewFacts
    <3>2. QED
      BY <3>1
  <2>6. \A u, v \in Busy' : got'[u] = got'[v] => u = v
    <3>1. ASSUME NEW u \in Busy', NEW v \in Busy', got'[u] = got'[v], u # v
          PROVE  FALSE
      <4>1. u \in Workers /\ v \in Workers /\ got'[u] # NoJob
        BY DEF Busy
      <4>2. ASSUME NEW x \in Workers \ {w}, got'[x] = got'[w], got'[w] # NoJob
            PROVE  FALSE
        <5>1. got'[w] \in Held
          BY <1>1, <4>2 DEF Held, Busy
        <5>2. QED
          BY <1>1, <4>2, <5>1, ViewFacts DEF Inv, Records
      <4>3. CASE u # w /\ v # w
        BY <1>1, <3>1, <4>1, <4>3, ViewFacts DEF Inv, Records
      <4>4. QED
        BY <3>1, <4>1, <4>2, <4>3
    <3>2. QED
      BY <3>1
  <2>7. QED
    BY <2>1, <2>3, <2>4, <2>5, <2>6 DEF Records
<1>8. QED
  BY <1>4, <1>5, <1>6, <1>7 DEF Inv, Types

--------------------------------------------------------------------------------
(* 3. The invariant is inductive.                                          *)

LEMMA QueueStep == Queue /\ [SchedulerNext]_schedulerVars => Queue'
<1> SUFFICES ASSUME Queue, [SchedulerNext]_schedulerVars PROVE Queue'
  OBVIOUS
<1>1. [Next]_vars
  BY StepUsesQueue
<1>2. QED
  BY <1>1, TypeStep, ShapeStep DEF Queue

LEMMA InvInit == SchedulerInit => Queue /\ Inv
<1> SUFFICES ASSUME SchedulerInit PROVE Queue /\ Inv
  OBVIOUS
<1>1. Init
  BY DEF SchedulerInit
<1>2. Queue
  BY <1>1, TypeInit, ShapeInit DEF Queue
<1>3. /\ Live = {} /\ Blocked = {} /\ Sleeping = {} /\ heap = {}
      /\ Busy = {} /\ Held = {}
  <2>1. ToSet(<<>>) = {}
    BY DEF ToSet
  <2>2. QED
    BY <1>1, <2>1 DEF Init, Live, Blocked, Sleeping, InWait, Busy, Held
<1>4. Types
  BY DEF SchedulerInit, Types, Status, Terminal, Pc
<1>5. Posts
  BY <1>1, <1>3 DEF SchedulerInit, Posts, Running, Init
<1>6. Records
  BY <1>3 DEF SchedulerInit, Records
<1>7. QED
  BY <1>2, <1>4, <1>5, <1>6 DEF Inv

\* A step that leaves the queue, the live records and the statuses alone, and
\* moves workers between the stages of a job, to nothing, or to a fresh start.
LEMMA Elsewhere ==
  ASSUME Queue, Inv, UNCHANGED Views, UNCHANGED <<status, store>>,
         phase' = "off" => \A w \in Workers : pc'[w] = "dead",
         \A w \in Workers : \/ pc'[w] = pc[w]
                            \/ pc[w] \in Running /\ pc'[w] \in Running
                            \/ /\ pc[w] \notin Running \cup {"get"}
                               /\ pc'[w] \notin Running \cup {"get"}
  PROVE  Posts' /\ Records'
<1>1. UNCHANGED <<Busy, Held>>
  BY SameHeld DEF Views
<1>2. Posts'
  <2>1. \A w \in Workers : got'[w] # NoJob <=> pc'[w] \in Running
    BY DEF Views, Inv, Posts
  <2>2. \A w \in Workers : w \in Sleeping' <=> pc'[w] = "get"
    BY DEF Views, Inv, Posts, Running
  <2>3. QED
    BY <2>1, <2>2 DEF Posts
<1>3. Records'
  BY <1>1 DEF Views, Inv, Records
<1>4. QED
  BY <1>2, <1>3

LEMMA SubmitStep ==
  ASSUME Queue, Inv, NEW j \in Jobs, Submit(j)
  PROVE  Posts' /\ Records' /\ status' \in [Jobs -> Status] /\ store' \subseteq Jobs
<1>1. /\ PutCall(j) /\ status[j] = "new"
      /\ status' = [status EXCEPT ![j] = "queued"] /\ store' = store \cup {j}
      /\ UNCHANGED <<pc, phase>>
  BY DEF Submit, Create
<1>2. /\ heap' \subseteq heap \cup {j}
      /\ Live' \cup Blocked' = Live \cup Blocked \cup {j}
      /\ Sleeping' = Sleeping /\ got' = got
  BY <1>1, PutCallViews DEF Queue
<1>3. UNCHANGED <<Busy, Held>>
  BY <1>2, SameHeld
<1>4. j \notin Held
  BY <1>1 DEF Inv, Records
<1>5. status' \in [Jobs -> Status] /\ store' \subseteq Jobs
  BY <1>1 DEF Inv, Types, Status
<1>6. Posts'
  BY <1>1, <1>2 DEF Inv, Posts
<1>7. Records'
  BY <1>1, <1>2, <1>3, <1>4, ViewFacts DEF Inv, Records, Types
<1>8. QED
  BY <1>5, <1>6, <1>7

LEMMA ResumeStep ==
  ASSUME Queue, Inv, SubmitResume
  PROVE  Posts' /\ Records'
<1>1. PutWake /\ UNCHANGED <<status, store, pc, phase>>
  BY DEF SubmitResume, jobVars
<1>2. /\ heap' \subseteq heap \cup Blocked
      /\ Live' \cup Blocked' = Live \cup Blocked
      /\ Sleeping' = Sleeping /\ got' = got
  BY <1>1, PutWakeViews DEF Queue
<1>3. UNCHANGED <<Busy, Held>>
  BY <1>2, SameHeld
<1>4. Blocked \cap Held = {}
  BY DEF Inv, Records
<1>5. Posts'
  BY <1>1, <1>2 DEF Inv, Posts
<1>6. Records'
  BY <1>1, <1>2, <1>3, <1>4 DEF Inv, Records
<1>7. QED
  BY <1>5, <1>6

LEMMA CancelStep ==
  ASSUME Queue, Inv, NEW j \in Jobs, CancelJob(j)
  PROVE  /\ Posts' /\ Records'
         /\ status' \in [Jobs -> Status] /\ store' \subseteq Jobs /\ done' \subseteq Jobs
         /\ \/ /\ status[j] = "queued" /\ j \in store
               /\ status' = [status EXCEPT ![j] = "cancelled"]
               /\ done' = done \cup {j}
            \/ UNCHANGED <<status, done, store>>
<1>1. /\ Cancel(j) /\ UNCHANGED <<pc, phase>>
      /\ \/ /\ j \in store
            /\ status' = [status EXCEPT ![j] = "cancelled"]
            /\ done' = done \cup {j}
            /\ store' = store \ {j}
         \/ j \notin store /\ UNCHANGED <<status, done, store>>
  BY DEF CancelJob, SetDone, Archive
<1>2. /\ j \in heap /\ heap' = heap /\ Live' = Live \ {j}
      /\ UNCHANGED <<Blocked, Sleeping, got>>
  BY <1>1, CancelViews DEF Queue
<1>3. UNCHANGED <<Busy, Held>>
  BY <1>2, SameHeld
<1>4. j \notin Held /\ j \notin Blocked /\ (j \in store <=> j \in Live)
  BY <1>2, ViewFacts DEF Inv, Records
<1>5. status' \in [Jobs -> Status] /\ store' \subseteq Jobs /\ done' \subseteq Jobs
  BY <1>1 DEF Inv, Types, Status, Terminal
<1>6. Posts'
  BY <1>1, <1>2 DEF Inv, Posts
<1>7. Records'
  <2>1. store' = Live' \cup Blocked' \cup Held'
    BY <1>1, <1>2, <1>3, <1>4 DEF Inv, Records
  <2>2. \A k \in Jobs \ {j} : status'[k] = status[k]
    BY <1>1 DEF Inv, Types
  <2>3. QED
    BY <1>2, <1>3, <1>4, <2>1, <2>2, ViewFacts DEF Inv, Records
<1>8. QED
  BY <1>1, <1>4, <1>5, <1>6, <1>7 DEF Inv, Records

\* A worker's first get(), and a get() it is woken in.
LEMMA FetchStep ==
  ASSUME Queue, Inv, Queue', NEW w \in Workers,
         \/ WorkerStart(w)
         \/ WorkerWake /\ w = Head(ready)
  PROVE  /\ Served(w) \/ Starved(w)
         /\ got[w] = NoJob /\ pc[w] \in {"fresh", "get"}
         /\ AfterGet(w, status, inFlight)
         /\ Posts' /\ Records'
         /\ status' \in [Jobs -> Status] /\ pc' \in [Workers -> Pc]
         /\ store' \subseteq Jobs
<1>1. /\ Served(w) \/ Starved(w)
      /\ pc[w] \in {"fresh", "get"}
      /\ AfterGet(w, status, inFlight)
      /\ UNCHANGED <<store, phase>>
  <2>1. CASE WorkerStart(w)
    BY <2>1, GetCallViews DEF WorkerStart, Queue
  <2>2. CASE WorkerWake /\ w = Head(ready)
    BY <2>2, GetWakeViews DEF WorkerWake, Queue, Inv, Posts
  <2>3. QED
    BY <2>1, <2>2
<1>2. got[w] = NoJob
  BY <1>1 DEF Inv, Posts, Running
<1>3. store' = store \ {got[w]}
  BY <1>1, <1>2, ViewFacts DEF Inv, Types
<1>4. status \in [Jobs -> Status] /\ pc[w] # "dead"
  BY <1>1 DEF Inv, Types
<1>5. QED
  BY <1>1, <1>2, <1>3, <1>4, Handover

\* A job ends, in any way, and its worker goes through get().
LEMMA EndStep ==
  ASSUME Queue, Inv, Queue', NEW w \in Workers, Finish(w) \/ Reap(w)
  PROVE  /\ Served(w) \/ Starved(w)
         /\ got[w] \in Held /\ got[w] \in Jobs
         /\ \E end \in {"completed", "failed"} :
              /\ AfterGet(w, [status EXCEPT ![got[w]] = end], inFlight - 1)
              /\ end = "completed" => pc[w] = "returned" /\ result' = result
              /\ end = "failed" => \E r \in {"error", "timeout"} :
                                     result' = [result EXCEPT ![got[w]] = r]
         /\ done' = done \cup {got[w]}
         /\ UNCHANGED <<thread, phase, stops>> /\ cancelled' \subseteq cancelled
         /\ Posts' /\ Records'
         /\ status' \in [Jobs -> Status] /\ pc' \in [Workers -> Pc]
         /\ store' \subseteq Jobs
<1>1. PICK end \in {"completed", "failed"} :
        /\ EndJob(w, end)
        /\ pc[w] \in {"returned", "raised", "reap"}
        /\ end = "completed" => pc[w] = "returned" /\ result' = result
        /\ end = "failed" => \E r \in {"error", "timeout"} :
                               result' = [result EXCEPT ![got[w]] = r]
  BY DEF Finish, Reap
<1>2. /\ AfterGet(w, [status EXCEPT ![got[w]] = end], inFlight - 1)
      /\ done' = done \cup {got[w]} /\ store' = store \ {got[w]}
      /\ Served(w) \/ Starved(w)
  BY <1>1, GetCallViews DEF EndJob, Queue, SetDone, Archive
<1>3. UNCHANGED <<thread, phase, stops>> /\ cancelled' \subseteq cancelled
  BY DEF Finish, Reap
<1>4. got[w] \in Held /\ got[w] \in Jobs
  <2>1. got[w] # NoJob
    BY <1>1 DEF Inv, Posts, Running
  <2>2. QED
    BY <2>1, ViewFacts DEF Held, Busy
<1>5. [status EXCEPT ![got[w]] = end] \in [Jobs -> Status]
  BY DEF Inv, Types, Status, Terminal
<1>6. \A j \in Jobs \ {got[w]} : [status EXCEPT ![got[w]] = end][j] = status[j]
  BY DEF Inv, Types
<1>7. Posts' /\ Records' /\ status' \in [Jobs -> Status] /\ pc' \in [Workers -> Pc]
      /\ store' \subseteq Jobs
  BY <1>1, <1>2, <1>3, <1>5, <1>6, Handover
<1>8. QED
  BY <1>1, <1>2, <1>3, <1>4, <1>7

\* stop() ends a worker in the middle of a job.
LEMMA CutStep ==
  ASSUME Queue, Inv, NEW w \in Workers, CancelledInRun(w)
  PROVE  /\ got[w] \in Held
         /\ Held' = Held \ {got[w]}
         /\ Busy' = Busy \ {w} /\ w \in Busy
         /\ Posts' /\ Records' /\ pc' \in [Workers -> Pc] /\ store' \subseteq Jobs
<1>1. /\ Release(w) /\ pc[w] \in Running /\ pc' = [pc EXCEPT ![w] = "dead"]
      /\ store' = store \ {got[w]} /\ UNCHANGED <<status, phase>>
  BY DEF CancelledInRun, Running, Archive
<1>2. /\ got' = [got EXCEPT ![w] = NoJob] /\ UNCHANGED <<heap, Live, Blocked, Sleeping>>
  BY <1>1 DEF Release, Live, Blocked, Sleeping, InWait
<1>3. w \in Busy /\ got[w] \in Held
  BY <1>1, ViewFacts DEF Inv, Posts, Held
<1>4. Busy' = Busy \ {w}
  BY <1>2, ViewFacts DEF Busy
<1>5. Held' = Held \ {got[w]}
  BY <1>2, <1>3, <1>4, ViewFacts DEF Held, Inv, Records
<1>6. pc' \in [Workers -> Pc] /\ store' \subseteq Jobs
  BY <1>1 DEF Inv, Types, Pc
<1>7. Posts'
  BY <1>1, <1>2, ViewFacts DEF Inv, Posts, Types, Running
<1>8. Records'
  <2>1. got[w] \notin Live \cup Blocked
    BY <1>3 DEF Inv, Records
  <2>2. \A v \in Busy' : got'[v] = got[v]
    BY <1>2, <1>4, ViewFacts
  <2>3. QED
    BY <1>1, <1>2, <1>4, <1>5, <2>1, <2>2 DEF Inv, Records
<1>9. QED
  BY <1>3, <1>4, <1>5, <1>6, <1>7, <1>8

\* stop() ends a worker that sleeps.
LEMMA WakeDeadStep ==
  ASSUME Queue, Inv, NEW w \in Workers, CancelledInGet(w)
  PROVE  Posts' /\ Records' /\ pc' \in [Workers -> Pc] /\ UNCHANGED <<Busy, Held>>
<1>1. /\ Leave(w) /\ pc[w] = "get" /\ pc' = [pc EXCEPT ![w] = "dead"]
      /\ UNCHANGED <<status, store, phase>>
  BY DEF CancelledInGet, jobVars
<1>2. Sleeping' = Sleeping \ {w} /\ UNCHANGED <<heap, Live, Blocked, got>>
  BY <1>1, LeaveViews DEF Queue
<1>3. UNCHANGED <<Busy, Held>>
  BY <1>2, SameHeld
<1>4. Posts'
  BY <1>1, <1>2 DEF Inv, Posts, Types, Running
<1>5. Records'
  BY <1>1, <1>2, <1>3 DEF Inv, Records
<1>6. pc' \in [Workers -> Pc]
  BY <1>1 DEF Inv, Types, Pc
<1>7. QED
  BY <1>3, <1>4, <1>5, <1>6

\* Inv is inductive relative to the invariants of the queue.
LEMMA InvStep == Queue /\ Inv /\ [SchedulerNext]_schedulerVars => Inv'
<1> SUFFICES ASSUME Queue, Inv, [SchedulerNext]_schedulerVars PROVE Inv'
  OBVIOUS
<1>1. Queue'
  BY QueueStep
<1>2. Types
  BY DEF Inv
<1>3. ASSUME NEW j \in Jobs, Submit(j) PROVE Inv'
  BY <1>2, <1>3, SubmitStep DEF Inv, Types, Submit, Create
<1>4. CASE SubmitResume
  BY <1>2, <1>4, ResumeStep DEF Inv, Types, SubmitResume, jobVars
<1>5. ASSUME NEW j \in Jobs, CancelJob(j) PROVE Inv'
  BY <1>2, <1>5, CancelStep DEF Inv, Types, CancelJob, SetDone, Archive
<1>6. ASSUME NEW j \in Jobs, ThreadBegin(j) \/ ThreadEnd(j) PROVE Inv'
  <2>1. /\ UNCHANGED queueVars
        /\ UNCHANGED <<status, result, done, store, pc, cancelled, phase>>
        /\ thread' \in [Jobs -> {"none", "queued", "running", "returned", "raised"}]
    BY <1>2, <1>6 DEF ThreadBegin, ThreadEnd, jobVars, Types
  <2>2. Posts' /\ Records'
    BY <2>1, QueueRests, Elsewhere DEF Inv, Posts
  <2>3. QED
    BY <1>2, <2>1, <2>2 DEF Inv, Types
<1>7. ASSUME NEW w \in Workers, WorkerStart(w) \/ (WorkerWake /\ w = Head(ready))
      PROVE  Inv'
  <2>1. /\ Posts' /\ Records'
        /\ status' \in [Jobs -> Status] /\ pc' \in [Workers -> Pc]
        /\ store' \subseteq Jobs
    BY <1>1, <1>7, FetchStep
  <2>2. UNCHANGED <<result, done, thread, cancelled, phase>>
    BY <1>7 DEF WorkerStart, WorkerWake
  <2>3. QED
    BY <1>2, <2>1, <2>2 DEF Inv, Types
<1>8. ASSUME NEW w \in Workers, Finish(w) \/ Reap(w) PROVE Inv'
  <2>1. /\ got[w] \in Jobs /\ done' = done \cup {got[w]}
        /\ UNCHANGED <<thread, phase>> /\ cancelled' \subseteq cancelled
        /\ Posts' /\ Records'
        /\ status' \in [Jobs -> Status] /\ pc' \in [Workers -> Pc]
        /\ store' \subseteq Jobs
    BY <1>1, <1>8, EndStep
  <2>2. result' \in [Jobs -> {"none", "text", "error", "timeout"}]
    BY <1>2, <1>8 DEF Finish, Reap, Types
  <2>3. QED
    BY <1>2, <2>1, <2>2 DEF Inv, Types
<1>9. ASSUME NEW w \in Workers,
             InnerStart(w) \/ InnerEnd(w) \/ Timeout(w) \/ CancelledFresh(w)
      PROVE  Inv'
  <2>1. /\ UNCHANGED queueVars
        /\ UNCHANGED <<status, done, store, phase>>
        /\ cancelled' \subseteq cancelled
    BY <1>9 DEF InnerStart, InnerEnd, Timeout, CancelledFresh, jobVars
  <2>2. \E p \in Pc :
          /\ pc' = [pc EXCEPT ![w] = p]
          /\ \/ pc[w] \in Running /\ p \in Running
             \/ pc[w] = "fresh" /\ p = "dead"
    BY <1>9 DEF InnerStart, InnerEnd, Timeout, CancelledFresh, Pc, Running
  <2>3. /\ pc' \in [Workers -> Pc]
        /\ \A v \in Workers : \/ pc'[v] = pc[v]
                              \/ pc[v] \in Running /\ pc'[v] \in Running
                              \/ /\ pc[v] \notin Running \cup {"get"}
                                 /\ pc'[v] \notin Running \cup {"get"}
    BY <1>2, <2>2 DEF Types, Running
  <2>4. phase' = "off" => \A v \in Workers : pc'[v] = "dead"
    BY <2>1, <2>2 DEF Inv, Posts, Running
  <2>5. Posts' /\ Records'
    BY <2>1, <2>3, <2>4, QueueRests, Elsewhere
  <2>6. /\ result' \in [Jobs -> {"none", "text", "error", "timeout"}]
        /\ thread' \in [Jobs -> {"none", "queued", "running", "returned", "raised"}]
    <3>1. result' \in [Jobs -> {"none", "text", "error", "timeout"}]
      BY <1>2, <1>9 DEF InnerStart, InnerEnd, Timeout, CancelledFresh,
                        jobVars, Types
    <3>2. thread' \in [Jobs -> {"none", "queued", "running", "returned", "raised"}]
      BY <1>2, <1>9 DEF InnerStart, InnerEnd, Timeout, CancelledFresh,
                        DropCall, Types
    <3>3. QED
      BY <3>1, <3>2
  <2>7. QED
    BY <1>2, <2>1, <2>3, <2>5, <2>6 DEF Inv, Types
<1>10. ASSUME NEW w \in Workers, CancelledInRun(w) PROVE Inv'
  <2>1. Posts' /\ Records' /\ pc' \in [Workers -> Pc] /\ store' \subseteq Jobs
    BY <1>10, CutStep
  <2>2. thread' \in [Jobs -> {"none", "queued", "running", "returned", "raised"}]
    BY <1>2, <1>10 DEF CancelledInRun, DropCall, Types, Archive
  <2>3. UNCHANGED <<status, result, done, phase>> /\ cancelled' \subseteq cancelled
    BY <1>10 DEF CancelledInRun, Archive
  <2>4. QED
    BY <1>2, <2>1, <2>2, <2>3 DEF Inv, Types
<1>11. ASSUME NEW w \in Workers, CancelledInGet(w) PROVE Inv'
  <2>1. Posts' /\ Records' /\ pc' \in [Workers -> Pc]
    BY <1>11, WakeDeadStep
  <2>2. /\ UNCHANGED <<status, result, done, store, thread, phase>>
        /\ cancelled' \subseteq cancelled
    BY <1>11 DEF CancelledInGet, jobVars
  <2>3. QED
    BY <1>2, <2>1, <2>2 DEF Inv, Types
<1>12. CASE Start \/ StopCall \/ StopCancel \/ StopReturn
  <2>1. UNCHANGED Views
    BY <1>12, QueueRests, AbortRests
    DEF Start, StopCall, StopCancel, StopReturn
  <2>2. UNCHANGED <<status, result, done, store, thread>>
    BY <1>12 DEF Start, StopCall, StopCancel, StopReturn, jobVars
  <2>3. /\ pc' \in [Workers -> Pc] /\ cancelled' \subseteq Workers
        /\ phase' \in {"off", "up", "draining", "joining"}
    BY <1>2, <1>12 DEF Start, StopCall, StopCancel, StopReturn, Types, Pc
  <2>4. Posts' /\ Records'
    <3>1. CASE Start
      <4>1. /\ \A w \in Workers : pc[w] = "dead" /\ pc'[w] = "fresh"
            /\ phase' = "up"
        BY <3>1 DEF Start, Inv, Posts
      <4>2. QED
        BY <2>1, <2>2, <4>1, Elsewhere DEF Running
    <3>2. CASE StopCall \/ StopCancel \/ StopReturn
      <4>1. pc' = pc /\ (phase' = "off" => \A w \in Workers : pc'[w] = "dead")
        BY <3>2 DEF StopCall, StopCancel, StopReturn
      <4>2. QED
        BY <2>1, <2>2, <4>1, Elsewhere
    <3>3. QED
      BY <1>12, <3>1, <3>2
  <2>5. QED
    BY <1>2, <2>2, <2>3, <2>4 DEF Inv, Types
<1>13. CASE UNCHANGED schedulerVars
  <2>1. UNCHANGED queueVars
        /\ UNCHANGED <<status, result, done, store, pc, thread, cancelled, phase>>
    BY <1>13 DEF schedulerVars, jobVars
  <2>2. Posts' /\ Records'
    BY <2>1, QueueRests, Elsewhere DEF Inv, Posts
  <2>3. QED
    BY <1>2, <2>1, <2>2 DEF Inv, Types
<1>14. CASE WorkerWake
  <2>1. Head(ready) \in Workers
    BY <1>14, GetWakeViews DEF WorkerWake, Queue
  <2>2. QED
    BY <1>7, <1>14, <2>1
<1>15. QED
  BY <1>3, <1>4, <1>5, <1>6, <1>7, <1>8, <1>9, <1>10, <1>11, <1>12, <1>13, <1>14
  DEF SchedulerNext

--------------------------------------------------------------------------------
(* 4. Theorems.                                                            *)

\* The live map, the queue and the workers agree at all times: the job a
\* worker is handed is queued, live and nobody else's, so that the test
\* _worker makes after get() has nothing to catch.
THEOREM RecordsTheorem == SchedulerSpec => []RecordsAgree
<1>1. SchedulerInit => Queue /\ Inv
  BY InvInit
<1>2. Queue /\ Inv /\ [SchedulerNext]_schedulerVars => (Queue /\ Inv)'
  BY QueueStep, InvStep
<1>3. Inv => RecordsAgree
  BY DEF Inv, Records, RecordsAgree
<1>4. QED
  BY <1>1, <1>2, <1>3, PTL DEF SchedulerSpec

--------------------------------------------------------------------------------
(* 5. in_flight.                                                           *)

Count == inFlight = Cardinality(Busy)

LEMMA BusyFinite ==
  ASSUME Queue
  PROVE  /\ IsFiniteSet(Busy) /\ Cardinality(Busy) \in Nat
         /\ \A w \in Workers :
              /\ w \notin Busy => Cardinality(Busy \cup {w}) = Cardinality(Busy) + 1
              /\ w \in Busy => Cardinality(Busy \ {w}) = Cardinality(Busy) - 1
<1>1. IsFiniteSet(Busy)
  BY QueueAssumption, ViewFacts, FS_Subset
<1>2. QED
  BY <1>1, FS_CardinalityType, FS_AddElement, FS_RemoveElement

\* What each step does to the set of busy workers and to the counter: only a
\* worker's passage through get(), the end of its job and its cancellation
\* concern them.
LEMMA CountStep ==
  ASSUME Queue, Inv, Count, [SchedulerNext]_schedulerVars
  PROVE  Count'
<1>1. Queue'
  BY QueueStep
<1>2. ASSUME NEW w \in Workers, WorkerStart(w) \/ (WorkerWake /\ w = Head(ready))
      PROVE  Count'
  <2>1. /\ Served(w) \/ Starved(w)
        /\ got[w] = NoJob
        /\ AfterGet(w, status, inFlight)
    BY <1>1, <1>2, FetchStep
  <2>2. Busy' = IF got'[w] = NoJob THEN Busy \ {w} ELSE Busy \cup {w}
    BY <2>1, HeldAfterGet DEF Inv
  <2>3. w \notin Busy
    BY <2>1 DEF Busy
  <2>4. QED
    BY <2>1, <2>2, <2>3, BusyFinite DEF AfterGet, Count
<1>3. ASSUME NEW w \in Workers, Finish(w) \/ Reap(w) PROVE Count'
  <2>1. /\ Served(w) \/ Starved(w)
        /\ got[w] \in Jobs
        /\ \E end \in {"completed", "failed"} :
             AfterGet(w, [status EXCEPT ![got[w]] = end], inFlight - 1)
    BY <1>1, <1>3, EndStep
  <2>2. Busy' = IF got'[w] = NoJob THEN Busy \ {w} ELSE Busy \cup {w}
    BY <2>1, HeldAfterGet DEF Inv
  <2>3. w \in Busy
    BY <2>1, QueueAssumption DEF Busy
  <2>4. inFlight' = IF got'[w] = NoJob THEN inFlight - 1 ELSE (inFlight - 1) + 1
    BY <2>1 DEF AfterGet
  <2>5. Busy \cup {w} = Busy
    BY <2>3
  <2>6. /\ Cardinality(Busy) \in Nat
        /\ Cardinality(Busy \ {w}) = Cardinality(Busy) - 1
    BY <2>3, BusyFinite
  <2>7. CASE got'[w] = NoJob
    BY <2>2, <2>4, <2>6, <2>7 DEF Count
  <2>8. CASE got'[w] # NoJob
    <3>1. Busy' = Busy
      BY <2>2, <2>5, <2>8
    <3>2. inFlight' = inFlight
      BY <2>4, <2>6, <2>8 DEF Count
    <3>3. QED
      BY <3>1, <3>2 DEF Count
  <2>9. QED
    BY <2>7, <2>8
<1>4. ASSUME NEW w \in Workers, CancelledInRun(w) PROVE Count'
  BY <1>4, CutStep, BusyFinite DEF CancelledInRun, Count, Archive
<1>5. CASE UNCHANGED <<got, inFlight>>
  BY <1>5, SameHeld DEF Count
<1>6. ASSUME NEW j \in Jobs, Submit(j) \/ CancelJob(j) \/ ThreadBegin(j) \/ ThreadEnd(j)
      PROVE  UNCHANGED <<got, inFlight>>
  BY <1>6 DEF Submit, CancelJob, ThreadBegin, ThreadEnd, queueVars, vars,
                         PutCall, Cancel, Create, SetDone, Archive
<1>7. ASSUME NEW w \in Workers,
             \/ InnerStart(w) \/ InnerEnd(w) \/ Timeout(w) \/ CancelledFresh(w)
             \/ CancelledInGet(w)
      PROVE  UNCHANGED <<got, inFlight>>
  BY <1>7 DEF InnerStart, InnerEnd, Timeout, CancelledFresh,
                         CancelledInGet, queueVars, vars, Leave
<1>8. CASE SubmitResume \/ Start \/ StopCall \/ StopCancel \/ StopReturn
           \/ UNCHANGED schedulerVars
  BY <1>5, <1>8 DEF SubmitResume, Start, StopCall, StopCancel,
                               StopReturn, schedulerVars, queueVars, vars, PutWake, Abort
<1>9. CASE WorkerWake
  <2>1. Head(ready) \in Workers
    BY <1>9, GetWakeViews DEF WorkerWake, Queue
  <2>2. QED
    BY <1>2, <1>9, <2>1
<1>10. QED
  BY <1>2, <1>3, <1>4, <1>5, <1>6, <1>7, <1>8, <1>9 DEF SchedulerNext

LEMMA CountInit == SchedulerInit => Count
<1> SUFFICES ASSUME SchedulerInit PROVE Count
  OBVIOUS
<1>1. Busy = {}
  BY DEF SchedulerInit, Init, Busy
<1>2. QED
  BY <1>1, FS_EmptySet DEF SchedulerInit, Count

\* in_flight is the number of jobs the workers run, whatever completes, fails,
\* times out or is cancelled, and however stop() cuts workers off.
THEOREM InFlightTheorem == SchedulerSpec => []InFlightExact
<1>1. SchedulerInit => Queue /\ Inv /\ Count
  BY InvInit, CountInit
<1>2. Queue /\ Inv /\ Count /\ [SchedulerNext]_schedulerVars => (Queue /\ Inv /\ Count)'
  BY QueueStep, InvStep, CountStep
<1>3. Count => InFlightExact
  BY DEF Count, InFlightExact
<1>4. QED
  BY <1>1, <1>2, <1>3, PTL DEF SchedulerSpec

--------------------------------------------------------------------------------
(* 6. What a waiter reads.                                                 *)

\* The done event and the outcome go with the status.  The last two parts make
\* it inductive: a job that no worker has begun has no result and no work item,
\* and an inner task that ended well has left its text behind.
Outcomes ==
  /\ done = {j \in Jobs : status[j] \in Terminal}
  /\ \A j \in Jobs : /\ status[j] = "completed" => result[j] = "text"
                     /\ status[j] = "failed" => result[j] \in {"error", "timeout"}
  /\ \A j \in Jobs : status[j] \in {"new", "queued", "cancelled"} =>
                       result[j] = "none" /\ thread[j] = "none"
  /\ \A w \in Workers : pc[w] = "returned" => result[got[w]] = "text"

\* A job that ended stays as it is.
Final == \A j \in done : j \in done' /\ status'[j] = status[j] /\ result'[j] = result[j]

\* The jobs some worker runs have not ended, and those in the queue neither.
LEMMA UndoneFacts ==
  ASSUME Queue, Inv, Outcomes
  PROVE  /\ \A w \in Workers : pc[w] \in Running =>
                /\ got[w] \in Jobs /\ got[w] \in Held
                /\ got[w] \notin done /\ status[got[w]] = "running"
         /\ \A j \in Live \cup Blocked : j \in Jobs /\ j \notin done /\ status[j] = "queued"
         /\ \A v, w \in Workers :
                pc[v] \in Running /\ pc[w] \in Running /\ got[v] = got[w] => v = w
<1>1. ASSUME NEW w \in Workers, pc[w] \in Running
      PROVE  w \in Busy /\ got[w] \in Held /\ got[w] \in Jobs
  BY <1>1, ViewFacts DEF Inv, Posts, Held
<1>2. ASSUME NEW w \in Workers, pc[w] \in Running
      PROVE  got[w] \notin done /\ status[got[w]] = "running"
  BY <1>1, <1>2 DEF Inv, Records, Outcomes, Terminal
<1>3. \A j \in Live \cup Blocked : j \in Jobs /\ j \notin done /\ status[j] = "queued"
  BY ViewFacts DEF Inv, Records, Outcomes, Terminal
<1>4. QED
  BY <1>1, <1>2, <1>3 DEF Inv, Records

LEMMA OutcomesInit == SchedulerInit => Outcomes
BY DEF SchedulerInit, Outcomes, Terminal

\* A worker goes through get(), its job, if it had one, settled before.
LEMMA OutcomesGet ==
  ASSUME Queue, Inv, Outcomes, NEW w \in Workers, Served(w) \/ Starved(w),
         NEW STATE statuses, statuses \in [Jobs -> Status],
         NEW STATE running, AfterGet(w, statuses, running),
         \A j \in Jobs \ {got[w]} : statuses[j] = status[j] /\ result'[j] = result[j],
         got[w] \in Jobs => /\ statuses[got[w]] = "completed" =>
                                 result'[got[w]] = "text"
                            /\ statuses[got[w]] = "failed" =>
                                 result'[got[w]] \in {"error", "timeout"}
                            /\ statuses[got[w]] \in {"completed", "failed"}
                            /\ pc[w] \in Running,
         got[w] \notin Jobs => done' = done,
         got[w] \in Jobs => done' = done \cup {got[w]},
         result' \in [Jobs -> {"none", "text", "error", "timeout"}],
         thread' = thread
  PROVE  Outcomes' /\ Final
<1>1. /\ \A v \in Workers \ {w} : got'[v] = got[v]
      /\ got'[w] # NoJob => got'[w] \in Live
      /\ got' \in [Workers -> Jobs \cup {NoJob}]
  BY HeldAfterGet DEF Inv
<1>2. /\ got'[w] = NoJob => pc' = [pc EXCEPT ![w] = "get"] /\ status' = statuses
      /\ got'[w] # NoJob => /\ pc' = [pc EXCEPT ![w] = "spawned"]
                            /\ status' = [statuses EXCEPT ![got'[w]] = "running"]
  BY DEF AfterGet
<1>3. got'[w] # NoJob => /\ got'[w] \in Jobs /\ got'[w] \notin done
                         /\ status[got'[w]] = "queued" /\ got'[w] # got[w]
  BY <1>1, UndoneFacts
<1>4. ASSUME NEW j \in Jobs, j # got'[w] PROVE status'[j] = statuses[j]
  BY <1>2, <1>4
<1>5. ASSUME NEW j \in Jobs, j = got'[w]
      PROVE  status'[j] = "running" /\ statuses[j] = "queued" /\ j \notin done /\ j # got[w]
  BY <1>2, <1>3, <1>5, QueueAssumption
<1>6. done' = {j \in Jobs : status'[j] \in Terminal}
  <2>1. \A j \in Jobs : j \in done <=> status[j] \in Terminal
    BY DEF Outcomes
  <2>2. done' \subseteq Jobs
    BY DEF Inv, Types
  <2>3. ASSUME NEW j \in Jobs PROVE j \in done' <=> status'[j] \in Terminal
    <3>1. CASE j = got'[w]
      BY <1>5, <3>1 DEF Terminal
    <3>2. CASE j # got'[w]
      BY <1>4, <2>1, <3>2 DEF Terminal
    <3>3. QED
      BY <3>1, <3>2
  <2>4. QED
    BY <2>2, <2>3
<1>7. ASSUME NEW j \in Jobs
      PROVE  /\ status'[j] = "completed" => result'[j] = "text"
             /\ status'[j] = "failed" => result'[j] \in {"error", "timeout"}
             /\ status'[j] \in {"new", "queued", "cancelled"} =>
                  result'[j] = "none" /\ thread'[j] = "none"
  BY <1>4, <1>5 DEF Outcomes
<1>8. ASSUME NEW v \in Workers, pc'[v] = "returned" PROVE result'[got'[v]] = "text"
  <2>1. v # w /\ pc[v] = "returned"
    BY <1>2, <1>8 DEF Inv, Types
  <2>2. got'[v] = got[v] /\ got[v] \in Jobs /\ (got[w] \in Jobs => got[v] # got[w])
    BY <1>1, <2>1, UndoneFacts DEF Running
  <2>3. QED
    BY <2>1, <2>2 DEF Outcomes
<1>9. Final
  <2>1. ASSUME NEW j \in done
        PROVE  j \in done' /\ status'[j] = status[j] /\ result'[j] = result[j]
    <3>1. j \in Jobs /\ j # got'[w] /\ j # got[w]
      BY <1>3, <1>5, UndoneFacts DEF Inv, Types
    <3>2. QED
      BY <1>4, <3>1
  <2>2. QED
    BY <2>1 DEF Final
<1>10. QED
  BY <1>6, <1>7, <1>8, <1>9 DEF Outcomes

\* What the other steps have to show: statuses change only from "new" to
\* "queued", the results only of jobs that are being run.
LEMMA OutcomesStep ==
  ASSUME Queue, Inv, Outcomes, [SchedulerNext]_schedulerVars
  PROVE  Outcomes' /\ Final
<1>0. Queue' /\ Types
  BY QueueStep DEF Inv
<1>1. ASSUME UNCHANGED <<status, result, done>>,
             \A j \in Jobs : thread'[j] = "none" \/ thread[j] # "none",
             \A w \in Workers : pc'[w] = "returned" => pc[w] = "returned" /\ got'[w] = got[w]
      PROVE  Outcomes' /\ Final
  <2>1. ASSUME NEW j \in Jobs, status[j] \in {"new", "queued", "cancelled"}
        PROVE  thread'[j] = "none"
    BY <1>1, <2>1 DEF Outcomes
  <2>2. Outcomes'
    BY <1>1, <2>1 DEF Outcomes
  <2>3. QED
    BY <1>1, <2>2 DEF Final
<1>2. ASSUME NEW j \in Jobs, Submit(j) PROVE Outcomes' /\ Final
  <2>1. /\ status[j] = "new" /\ status' = [status EXCEPT ![j] = "queued"]
        /\ UNCHANGED <<result, done, thread, pc, got>>
    BY <1>2 DEF Submit, PutCall, Create
  <2>2. \A k \in Jobs : k # j => status'[k] = status[k]
    BY <1>0, <2>1 DEF Types
  <2>3. status'[j] = "queued" /\ j \notin done
    BY <1>0, <2>1 DEF Types, Outcomes, Terminal
  <2>4. QED
    BY <2>1, <2>2, <2>3 DEF Outcomes, Final, Terminal
<1>3. ASSUME NEW j \in Jobs, CancelJob(j) PROVE Outcomes' /\ Final
  <2>1. /\ \/ /\ status[j] = "queued"
              /\ status' = [status EXCEPT ![j] = "cancelled"]
              /\ done' = done \cup {j}
           \/ UNCHANGED <<status, done>>
        /\ UNCHANGED <<result, thread, pc, got>>
    BY <1>3, CancelStep DEF CancelJob, Cancel, SetDone, Archive
  <2>2. CASE UNCHANGED <<status, done>>
    BY <1>1, <2>1, <2>2
  <2>3. CASE /\ status[j] = "queued"
             /\ status' = [status EXCEPT ![j] = "cancelled"]
             /\ done' = done \cup {j}
    <3>1. \A k \in Jobs : k # j => status'[k] = status[k]
      BY <1>0, <2>3 DEF Types
    <3>2. status'[j] = "cancelled" /\ j \notin done
      BY <1>0, <2>3 DEF Types, Outcomes, Terminal
    <3>3. QED
      BY <2>1, <2>3, <3>1, <3>2 DEF Outcomes, Final, Terminal
  <2>4. QED
    BY <2>1, <2>2, <2>3
<1>4. ASSUME NEW j \in Jobs, ThreadBegin(j) \/ ThreadEnd(j) PROVE Outcomes' /\ Final
  <2>1. /\ UNCHANGED <<status, result, done, pc, got>>
        /\ thread[j] # "none" /\ \A k \in Jobs \ {j} : thread'[k] = thread[k]
    BY <1>0, <1>4 DEF ThreadBegin, ThreadEnd, jobVars, queueVars, vars, Types
  <2>2. QED
    BY <1>1, <2>1
<1>5. ASSUME NEW w \in Workers, WorkerStart(w) \/ (WorkerWake /\ w = Head(ready))
      PROVE  Outcomes' /\ Final
  <2>1. /\ Served(w) \/ Starved(w)
        /\ got[w] = NoJob
        /\ AfterGet(w, status, inFlight)
    BY <1>0, <1>5, FetchStep
  <2>2. UNCHANGED <<result, done, thread>>
    BY <1>5 DEF WorkerStart, WorkerWake
  <2>3. got[w] \notin Jobs /\ status \in [Jobs -> Status]
    BY <1>0, <2>1, QueueAssumption DEF Types
  <2>4. QED
    BY <1>0, <2>1, <2>2, <2>3, OutcomesGet DEF Types
<1>6. ASSUME NEW w \in Workers, Finish(w) \/ Reap(w) PROVE Outcomes' /\ Final
  <2>1. /\ Served(w) \/ Starved(w)
        /\ got[w] \in Held /\ got[w] \in Jobs
        /\ \E end \in {"completed", "failed"} :
             /\ AfterGet(w, [status EXCEPT ![got[w]] = end], inFlight - 1)
             /\ end = "completed" => pc[w] = "returned" /\ result' = result
             /\ end = "failed" => \E r \in {"error", "timeout"} :
                                    result' = [result EXCEPT ![got[w]] = r]
        /\ done' = done \cup {got[w]}
        /\ thread' = thread
    BY <1>0, <1>6, EndStep
  <2>2. pc[w] \in Running
    BY <1>6 DEF Finish, Reap, Running
  <2>3. PICK end \in {"completed", "failed"} :
          /\ AfterGet(w, [status EXCEPT ![got[w]] = end], inFlight - 1)
          /\ end = "completed" => pc[w] = "returned" /\ result' = result
          /\ end = "failed" => \E r \in {"error", "timeout"} :
                                 result' = [result EXCEPT ![got[w]] = r]
    BY <2>1
  <2> DEFINE settled == [status EXCEPT ![got[w]] = end]
  <2>4. /\ settled \in [Jobs -> Status]
        /\ settled[got[w]] = end
        /\ \A j \in Jobs \ {got[w]} : settled[j] = status[j]
    BY <1>0, <2>1 DEF Types, Status, Terminal
  <2>5. /\ result' \in [Jobs -> {"none", "text", "error", "timeout"}]
        /\ \A j \in Jobs \ {got[w]} : result'[j] = result[j]
        /\ end = "completed" => result'[got[w]] = "text"
        /\ end = "failed" => result'[got[w]] \in {"error", "timeout"}
    BY <1>0, <2>1, <2>3 DEF Types, Outcomes
  <2>6. AfterGet(w, settled, inFlight - 1)
    BY <2>3
  <2> HIDE DEF settled
  <2>7. QED
    BY <2>1, <2>2, <2>4, <2>5, <2>6, OutcomesGet
<1>7. ASSUME NEW w \in Workers, InnerStart(w) PROVE Outcomes' /\ Final
  <2>1. /\ pc[w] = "spawned" /\ pc' = [pc EXCEPT ![w] = "calling"]
        /\ thread' = [thread EXCEPT ![got[w]] = "queued"]
        /\ UNCHANGED <<status, result, done, got>>
    BY <1>7 DEF InnerStart, jobVars, queueVars, vars
  <2>2. got[w] \in Jobs /\ status[got[w]] = "running"
    BY <2>1, UndoneFacts DEF Running
  <2>3. /\ \A j \in Jobs : j # got[w] => thread'[j] = thread[j]
        /\ \A v \in Workers : pc'[v] = "returned" => pc[v] = "returned"
    BY <1>0, <2>1 DEF Types
  <2>4. QED
    BY <2>1, <2>2, <2>3 DEF Outcomes, Final
<1>8. ASSUME NEW w \in Workers, InnerEnd(w) PROVE Outcomes' /\ Final
  <2>1. /\ pc[w] = "calling"
        /\ \/ pc' = [pc EXCEPT ![w] = "returned"] /\ result' = [result EXCEPT ![got[w]] = "text"]
           \/ pc' = [pc EXCEPT ![w] = "raised"] /\ result' = result
        /\ UNCHANGED <<status, done, thread, got>>
    BY <1>8 DEF InnerEnd, queueVars, vars
  <2>2. got[w] \in Jobs /\ status[got[w]] = "running" /\ got[w] \notin done
    BY <2>1, UndoneFacts DEF Running
  <2>3. /\ \A j \in Jobs : j # got[w] => result'[j] = result[j]
        /\ \A v \in Workers : pc'[v] = "returned" =>
             \/ v # w /\ pc[v] = "returned"
             \/ v = w /\ result'[got[w]] = "text"
    BY <1>0, <2>1, <2>2 DEF Types
  <2>4. \A v \in Workers : v # w /\ pc[v] = "returned" => got[v] # got[w] /\ got[v] \in Jobs
    BY <2>1, UndoneFacts DEF Running
  <2>5. \A v \in Workers : pc'[v] = "returned" => result'[got'[v]] = "text"
    BY <2>1, <2>3, <2>4 DEF Outcomes
  <2>6. Outcomes'
    BY <2>1, <2>2, <2>3, <2>5 DEF Outcomes
  <2>7. Final
    BY <2>1, <2>2, <2>3, <1>0 DEF Final, Types
  <2>8. QED
    BY <2>6, <2>7
<1>9. ASSUME NEW w \in Workers, Timeout(w) \/ CancelledInRun(w) PROVE Outcomes' /\ Final
  <2>1. /\ UNCHANGED <<status, result, done>>
        /\ pc' = [pc EXCEPT ![w] = "reap"] \/ pc' = [pc EXCEPT ![w] = "dead"]
        /\ DropCall(got[w])
        /\ \A v \in Workers \ {w} : got'[v] = got[v]
    BY <1>9, ViewFacts DEF Timeout, CancelledInRun, jobVars, queueVars, vars, Release, Archive
  <2>2. \A j \in Jobs : thread'[j] = "none" \/ thread'[j] = thread[j]
    BY <1>0, <2>1 DEF DropCall, Types
  <2>3. \A v \in Workers : pc'[v] = "returned" => v # w /\ pc[v] = "returned"
    BY <1>0, <2>1 DEF Types
  <2>4. QED
    BY <1>1, <2>1, <2>2, <2>3
<1>10. ASSUME NEW w \in Workers, CancelledInGet(w) \/ CancelledFresh(w)
       PROVE  Outcomes' /\ Final
  <2>1. /\ UNCHANGED <<status, result, done, thread, got>>
        /\ pc' = [pc EXCEPT ![w] = "dead"]
    BY <1>10 DEF CancelledInGet, CancelledFresh, jobVars, queueVars, vars, Leave
  <2>2. \A v \in Workers : pc'[v] = "returned" => pc[v] = "returned"
    BY <1>0, <2>1 DEF Types
  <2>3. QED
    BY <1>1, <2>1, <2>2
<1>11. CASE SubmitResume \/ Start \/ StopCall \/ StopCancel \/ StopReturn
            \/ UNCHANGED schedulerVars
  <2>1. /\ UNCHANGED <<status, result, done, thread, got>>
        /\ pc' = pc \/ pc' = [w \in Workers |-> "fresh"]
    BY <1>11 DEF SubmitResume, Start, StopCall, StopCancel, StopReturn,
                 schedulerVars, jobVars, queueVars, vars, PutWake, Abort
  <2>2. QED
    BY <1>1, <2>1
<1>12. CASE WorkerWake
  <2>1. Head(ready) \in Workers
    BY <1>12, GetWakeViews DEF WorkerWake, Queue
  <2>2. QED
    BY <1>5, <1>12, <2>1
<1>13. QED
  BY <1>2, <1>3, <1>4, <1>5, <1>6, <1>7, <1>8, <1>9, <1>10, <1>11, <1>12 DEF SchedulerNext

\* The done event is set exactly when the job has ended, and its waiter then
\* finds the outcome in the record.
THEOREM SettledTheorem == SchedulerSpec => []DoneMeansSettled
<1>1. SchedulerInit => Queue /\ Inv /\ Outcomes
  BY InvInit, OutcomesInit
<1>2. Queue /\ Inv /\ Outcomes /\ [SchedulerNext]_schedulerVars => (Queue /\ Inv /\ Outcomes)'
  BY QueueStep, InvStep, OutcomesStep
<1>3. Outcomes => DoneMeansSettled
  BY DEF Outcomes, DoneMeansSettled
<1>4. QED
  BY <1>1, <1>2, <1>3, PTL DEF SchedulerSpec

\* What a waiter read stays true, whatever the threads, timers and callers of
\* cancel() that are left behind still do.
THEOREM FinalTheorem == SchedulerSpec => DoneIsFinal
<1>1. SchedulerInit => Queue /\ Inv /\ Outcomes
  BY InvInit, OutcomesInit
<1>2. Queue /\ Inv /\ Outcomes /\ [SchedulerNext]_schedulerVars => (Queue /\ Inv /\ Outcomes)'
  BY QueueStep, InvStep, OutcomesStep
<1>3. Queue /\ Inv /\ Outcomes /\ [SchedulerNext]_schedulerVars =>
        [\A j \in done : /\ j \in done'
                         /\ status'[j] = status[j]
                         /\ result'[j] = result[j]]_schedulerVars
  BY OutcomesStep DEF Final
<1>4. QED
  BY <1>1, <1>2, <1>3, PTL DEF SchedulerSpec, DoneIsFinal

--------------------------------------------------------------------------------
(* 7. Before the first stop().                                             *)

\* As long as nothing was stopped nobody is cancelled, and a job that has not
\* ended is on record.
Calm ==
  /\ stops \in Nat
  /\ stops = 0 => cancelled = {}
  /\ stops = 0 => phase \in {"off", "up"}
  /\ NoJobLost

LEMMA CalmStep ==
  ASSUME Queue, Inv, Calm, [SchedulerNext]_schedulerVars
  PROVE  Calm'
<1>0. Queue' /\ Types
  BY QueueStep DEF Inv
<1>1. ASSUME stops' = stops, cancelled' \subseteq cancelled, phase' = phase,
             stops = 0 => \A j \in Jobs : status'[j] \in {"queued", "running"} => j \in store'
      PROVE  Calm'
  BY <1>1 DEF Calm, NoJobLost
<1>2. ASSUME NEW j \in Jobs, Submit(j) PROVE Calm'
  BY <1>0, <1>1, <1>2 DEF Submit, Calm, NoJobLost, Types, Create
<1>3. ASSUME NEW j \in Jobs, CancelJob(j) PROVE Calm'
  BY <1>0, <1>1, <1>3 DEF CancelJob, Calm, NoJobLost, Types, SetDone, Archive
<1>4. ASSUME NEW w \in Workers, Served(w) \/ Starved(w),
             NEW STATE statuses, statuses \in [Jobs -> Status],
             NEW STATE running, AfterGet(w, statuses, running),
             \A j \in Jobs \ {got[w]} : statuses[j] = status[j],
             got[w] \in Jobs => statuses[got[w]] \in Terminal,
             store' = store \ {got[w]}, stops' = stops, cancelled' \subseteq cancelled,
             phase' = phase
      PROVE  Calm'
  <2>1. got'[w] # NoJob => got'[w] \in Live /\ got'[w] \in Jobs
    BY <1>4, HeldAfterGet, ViewFacts DEF Inv
  <2>2. ASSUME stops = 0, NEW j \in Jobs, status'[j] \in {"queued", "running"}
        PROVE  j \in store'
    <3>1. CASE j = got'[w] /\ got'[w] # NoJob
      <4>1. j \in store
        BY <2>1, <3>1 DEF Inv, Records
      <4>2. j # got[w]
        <5>1. got[w] # NoJob => got[w] \notin Live
          BY ViewFacts DEF Inv, Records, Held, Busy
        <5>2. QED
          BY <2>1, <3>1, <5>1
      <4>3. QED
        BY <1>4, <4>1, <4>2
    <3>2. CASE ~(j = got'[w] /\ got'[w] # NoJob)
      <4>1. status'[j] = statuses[j]
        BY <1>4, <3>2 DEF AfterGet
      <4>2. j # got[w] /\ status[j] \in {"queued", "running"}
        BY <1>4, <2>2, <4>1 DEF Terminal
      <4>3. QED
        BY <1>4, <2>2, <4>2 DEF Calm, NoJobLost
    <3>3. QED
      BY <3>1, <3>2
  <2>3. QED
    BY <1>1, <1>4, <2>2
<1>5. ASSUME NEW w \in Workers, WorkerStart(w) \/ (WorkerWake /\ w = Head(ready))
      PROVE  Calm'
  <2>1. /\ Served(w) \/ Starved(w)
        /\ got[w] = NoJob
        /\ AfterGet(w, status, inFlight)
    BY <1>0, <1>5, FetchStep
  <2>2. UNCHANGED <<store, stops, cancelled, phase>>
    BY <1>5 DEF WorkerStart, WorkerWake
  <2>3. got[w] \notin Jobs /\ store \ {got[w]} = store /\ status \in [Jobs -> Status]
    BY <1>0, <2>1, QueueAssumption DEF Types
  <2>4. QED
    BY <1>4, <2>1, <2>2, <2>3
<1>6. ASSUME NEW w \in Workers, Finish(w) \/ Reap(w) PROVE Calm'
  <2>1. /\ Served(w) \/ Starved(w)
        /\ got[w] \in Jobs
        /\ \E end \in {"completed", "failed"} :
             AfterGet(w, [status EXCEPT ![got[w]] = end], inFlight - 1)
        /\ UNCHANGED <<phase, stops>> /\ cancelled' \subseteq cancelled
    BY <1>0, <1>6, EndStep
  <2>2. store' = store \ {got[w]}
    BY <1>6 DEF Finish, Reap, EndJob, SetDone, Archive
  <2>3. PICK end \in {"completed", "failed"} :
          AfterGet(w, [status EXCEPT ![got[w]] = end], inFlight - 1)
    BY <2>1
  <2> DEFINE settled == [status EXCEPT ![got[w]] = end]
  <2>4. /\ settled \in [Jobs -> Status]
        /\ settled[got[w]] \in Terminal
        /\ \A j \in Jobs \ {got[w]} : settled[j] = status[j]
    BY <1>0, <2>1 DEF Types, Status, Terminal
  <2>5. AfterGet(w, settled, inFlight - 1)
    BY <2>3
  <2> HIDE DEF settled
  <2>6. QED
    BY <1>4, <2>1, <2>2, <2>4, <2>5
<1>7. ASSUME NEW w \in Workers, CancelledInRun(w) PROVE Calm'
  <2>1. stops # 0 /\ stops' = stops /\ cancelled' \subseteq cancelled /\ phase' = phase
    BY <1>7 DEF CancelledInRun, Calm, Archive
  <2>2. QED
    BY <1>1, <2>1
<1>8. ASSUME NEW w \in Workers,
             \/ InnerStart(w) \/ InnerEnd(w) \/ Timeout(w) \/ CancelledFresh(w)
             \/ CancelledInGet(w)
      PROVE  Calm'
  <2>1. /\ UNCHANGED <<status, store, stops, phase>> /\ cancelled' \subseteq cancelled
    BY <1>8 DEF InnerStart, InnerEnd, Timeout, CancelledFresh,
                CancelledInGet, jobVars
  <2>2. QED
    BY <1>1, <2>1 DEF Calm, NoJobLost
<1>9. CASE SubmitResume \/ (\E j \in Jobs : ThreadBegin(j) \/ ThreadEnd(j))
           \/ UNCHANGED schedulerVars
  <2>1. UNCHANGED <<status, store, stops, phase, cancelled>>
    BY <1>9 DEF SubmitResume, ThreadBegin, ThreadEnd, schedulerVars, jobVars
  <2>2. QED
    BY <1>1, <2>1 DEF Calm, NoJobLost
<1>10. CASE Start
  BY <1>10 DEF Start, jobVars, Calm, NoJobLost
<1>11. CASE StopCall \/ StopCancel \/ StopReturn
  <2>1. stops' \in Nat \ {0}
    BY <1>11 DEF StopCall, StopCancel, StopReturn, Calm
  <2>2. QED
    BY <2>1 DEF Calm, NoJobLost
<1>12. CASE WorkerWake
  <2>1. Head(ready) \in Workers
    BY <1>12, GetWakeViews DEF WorkerWake, Queue
  <2>2. QED
    BY <1>5, <1>12, <2>1
<1>13. QED
  BY <1>2, <1>3, <1>5, <1>6, <1>7, <1>8, <1>9, <1>10, <1>11, <1>12 DEF SchedulerNext

\* Until stop() is called no job is lost: one that has not ended is in the
\* live map, where status() and cancel() find it.
THEOREM NoJobLostTheorem == SchedulerSpec => []NoJobLost
<1>1. SchedulerInit => Queue /\ Inv /\ Calm
  <2>1. SchedulerInit => Calm
    BY DEF SchedulerInit, Calm, NoJobLost
  <2>2. QED
    BY <2>1, InvInit
<1>2. Queue /\ Inv /\ Calm /\ [SchedulerNext]_schedulerVars => (Queue /\ Inv /\ Calm)'
  BY QueueStep, InvStep, CalmStep
<1>3. Calm => NoJobLost
  BY DEF Calm
<1>4. QED
  BY <1>1, <1>2, <1>3, PTL DEF SchedulerSpec

--------------------------------------------------------------------------------
(* 8. Admission, and the types.                                            *)

\* With a queue that is no smaller than max_in_flight nobody ever blocks in
\* put(), and what was admitted fits.
Admitted ==
  /\ Blocked = {}
  /\ inFlight + Cardinality(Live) <= MaxInFlight

RoomForAll == MaxInFlight \in Nat /\ (MaxSize = 0 \/ MaxInFlight <= MaxSize)

\* A submitter that CanAdmit lets through finds room, and adds one job.
LEMMA AdmittedSubmit ==
  ASSUME RoomForAll, Queue, Queue', Inv, Count, Admitted, NEW j \in Jobs, Submit(j)
  PROVE  Admitted'
<1>1. QSize = Cardinality(Live) /\ IsFiniteSet(Live) /\ QSize \in Nat /\ inFlight \in Nat
  BY LiveCount, BusyFinite DEF Queue, Count
<1>2. inFlight + QSize < MaxInFlight /\ PutCall(j) /\ inFlight' = inFlight
  BY DEF Submit, CanAdmit, Create
<1>3. ~Full
  BY <1>1, <1>2, QueueAssumption DEF Full, RoomForAll
<1>4. heap' = heap \cup {j} /\ tombstones' = tombstones /\ Notify(ready)
  BY <1>2, <1>3 DEF PutCall, Put
<1>5. Blocked' = {}
  <2>1. InWait' = InWait
    BY <1>4, NotifySet DEF Queue, TypeOK, InWait
  <2>2. QED
    BY <2>1 DEF Blocked, Admitted
<1>6. Cardinality(Live') <= Cardinality(Live) + 1
  <2>1. Live' \subseteq Live \cup {j}
    BY <1>4 DEF Live
  <2>2. /\ IsFiniteSet(Live \cup {j})
        /\ Cardinality(Live \cup {j}) <= Cardinality(Live) + 1
    <3>1. Cardinality(Live) \in Nat
      BY <1>1
    <3>2. /\ IsFiniteSet(Live \cup {j})
          /\ \/ Cardinality(Live \cup {j}) = Cardinality(Live)
             \/ Cardinality(Live \cup {j}) = Cardinality(Live) + 1
      BY <1>1, FS_AddElement
    <3>3. QED
      BY <3>1, <3>2
  <2>3. /\ Cardinality(Live') <= Cardinality(Live \cup {j})
        /\ Cardinality(Live') \in Nat /\ Cardinality(Live \cup {j}) \in Nat
    BY <2>1, <2>2, FS_Subset, FS_CardinalityType
  <2>4. QED
    BY <1>1, <2>2, <2>3
<1>7. Cardinality(Live') \in Nat
  BY LiveCountNext, <1>4, <1>1, FS_Subset, FS_AddElement, FS_CardinalityType DEF Live
<1>8. QED
  BY <1>1, <1>2, <1>5, <1>6, <1>7 DEF Admitted, RoomForAll

\* A worker that goes through get() takes one job for the one it counts.
LEMMA AdmittedGet ==
  ASSUME RoomForAll, Queue, Admitted, NEW w \in Workers, Served(w) \/ Starved(w),
         NEW STATE running, running \in Int, running <= inFlight, inFlight \in Nat,
         NEW STATE statuses, AfterGet(w, statuses, running)
  PROVE  Admitted'
<1>1. QSize = Cardinality(Live) /\ IsFiniteSet(Live) /\ Cardinality(Live) \in Nat
  BY LiveCount DEF Queue
<1>2. CASE Served(w)
  <2>1. PICK j \in Live : Live' = Live \ {j} /\ Blocked' = Blocked /\ got'[w] = j
    BY <1>2, ViewFacts DEF Served
  <2>2. Cardinality(Live') = Cardinality(Live) - 1
    BY <1>1, <2>1, FS_RemoveElement
  <2>3. inFlight' = running + 1
    BY <2>1, ViewFacts DEF AfterGet
  <2>4. QED
    BY <1>1, <2>1, <2>2, <2>3 DEF Admitted, RoomForAll
<1>3. CASE Starved(w)
  <2>1. Live' = Live /\ Blocked' = Blocked /\ got'[w] = NoJob
    BY <1>3, ViewFacts DEF Starved
  <2>2. inFlight' = running
    BY <2>1 DEF AfterGet
  <2>3. QED
    BY <1>1, <2>1, <2>2 DEF Admitted, RoomForAll
<1>4. QED
  BY <1>2, <1>3

LEMMA AdmittedStep ==
  ASSUME RoomForAll, Queue, Inv, Count, Admitted, [SchedulerNext]_schedulerVars
  PROVE  Admitted'
<1>0. Queue' /\ inFlight \in Nat
  BY QueueStep, BusyFinite DEF Count
<1>1. CASE UNCHANGED <<Live, Blocked>> /\ inFlight' \in Int /\ inFlight' <= inFlight
  <2>1. Cardinality(Live) \in Nat
    BY LiveCount DEF Queue
  <2>2. QED
    BY <1>0, <1>1, <2>1 DEF Admitted, RoomForAll
<1>2. ASSUME NEW j \in Jobs, Submit(j) PROVE Admitted'
  BY <1>0, <1>2, AdmittedSubmit
<1>3. CASE SubmitResume
  <2>1. ready # <<>> /\ Head(ready) \in Jobs
    BY <1>3 DEF SubmitResume, PutWake
  <2>2. Head(ready) \in Blocked
    BY <2>1, ResumeTurn DEF Queue, Shape, Blocked
  <2>3. QED
    BY <2>2 DEF Admitted
<1>4. ASSUME NEW j \in Jobs, CancelJob(j) PROVE Admitted'
  <2>1. Live' = Live \ {j} /\ Blocked' = Blocked /\ inFlight' = inFlight
    BY <1>4, CancelViews DEF CancelJob, Queue, SetDone, Archive
  <2>2. Cardinality(Live') <= Cardinality(Live) /\ Cardinality(Live') \in Nat
        /\ Cardinality(Live) \in Nat
    BY <2>1, LiveCount, FS_Subset, FS_CardinalityType DEF Queue
  <2>3. QED
    BY <1>0, <2>1, <2>2 DEF Admitted, RoomForAll
<1>5. ASSUME NEW w \in Workers, WorkerStart(w) \/ (WorkerWake /\ w = Head(ready))
      PROVE  Admitted'
  BY <1>0, <1>5, FetchStep, AdmittedGet
<1>6. ASSUME NEW w \in Workers, Finish(w) \/ Reap(w) PROVE Admitted'
  <2>1. /\ Served(w) \/ Starved(w)
        /\ \E end \in {"completed", "failed"} :
             AfterGet(w, [status EXCEPT ![got[w]] = end], inFlight - 1)
    BY <1>0, <1>6, EndStep
  <2>2. PICK end \in {"completed", "failed"} :
          AfterGet(w, [status EXCEPT ![got[w]] = end], inFlight - 1)
    BY <2>1
  <2> DEFINE settled == [status EXCEPT ![got[w]] = end]
  <2>3. AfterGet(w, settled, inFlight - 1)
    BY <2>2
  <2>4. inFlight - 1 \in Int /\ inFlight - 1 <= inFlight
    BY <1>0
  <2> HIDE DEF settled
  <2>5. QED
    BY <1>0, <2>1, <2>3, <2>4, AdmittedGet
<1>7. ASSUME NEW w \in Workers, CancelledInRun(w) PROVE Admitted'
  <2>1. UNCHANGED <<Live, Blocked>> /\ inFlight' = inFlight - 1
    BY <1>7 DEF CancelledInRun, Release, Live, Blocked, InWait, Archive
  <2>2. QED
    BY <1>0, <1>1, <2>1
<1>8. ASSUME NEW w \in Workers, CancelledInGet(w) PROVE Admitted'
  <2>1. UNCHANGED <<Live, Blocked>> /\ inFlight' = inFlight
    BY <1>8, LeaveViews DEF CancelledInGet, Queue
  <2>2. QED
    BY <1>0, <1>1, <2>1
<1>9. CASE UNCHANGED Views /\ inFlight' = inFlight
  BY <1>0, <1>1, <1>9 DEF Views
<1>10. ASSUME NEW w \in Workers,
              InnerStart(w) \/ InnerEnd(w) \/ Timeout(w) \/ CancelledFresh(w)
       PROVE  UNCHANGED Views /\ inFlight' = inFlight
  BY <1>10, QueueRests DEF InnerStart, InnerEnd, Timeout, CancelledFresh
<1>11. CASE \/ Start \/ StopCall \/ StopCancel \/ StopReturn
            \/ (\E j \in Jobs : ThreadBegin(j) \/ ThreadEnd(j))
            \/ UNCHANGED schedulerVars
  BY <1>9, <1>11, QueueRests, AbortRests
  DEF Start, StopCall, StopCancel, StopReturn, ThreadBegin, ThreadEnd, schedulerVars
<1>12. CASE WorkerWake
  <2>1. Head(ready) \in Workers
    BY <1>12, GetWakeViews DEF WorkerWake, Queue
  <2>2. QED
    BY <1>5, <1>12, <2>1
<1>13. QED
  BY <1>2, <1>3, <1>4, <1>5, <1>6, <1>7, <1>8, <1>9, <1>10, <1>11, <1>12 DEF SchedulerNext

\* "queued + running" stays within max_in_flight if the queue is not smaller
\* than it; the runs show that the assumption is needed.
THEOREM AdmissionTheorem ==
  ASSUME MaxInFlight \in Nat, MaxSize = 0 \/ MaxInFlight <= MaxSize
  PROVE  SchedulerSpec => []AdmissionBound
<1>0. RoomForAll
  BY DEF RoomForAll
<1>1. SchedulerInit => Queue /\ Inv /\ Count /\ Admitted
  <2> SUFFICES ASSUME SchedulerInit PROVE Admitted
    BY InvInit, CountInit
  <2>1. Live = {} /\ Blocked = {}
    <3>1. ToSet(<<>>) = {}
      BY DEF ToSet
    <3>2. QED
      BY <3>1 DEF SchedulerInit, Init, Live, Blocked, InWait
  <2>2. QED
    BY <1>0, <2>1, FS_EmptySet DEF SchedulerInit, Admitted, RoomForAll
<1>2. Queue /\ Inv /\ Count /\ Admitted /\ [SchedulerNext]_schedulerVars
      => (Queue /\ Inv /\ Count /\ Admitted)'
  BY <1>0, QueueStep, InvStep, CountStep, AdmittedStep
<1>3. Queue /\ Admitted => AdmissionBound
  BY LiveCount DEF Queue, Admitted, AdmissionBound
<1>4. QED
  BY <1>1, <1>2, <1>3, PTL DEF SchedulerSpec

\* The types of the scheduler's state, the queue's included.
THEOREM SchedulerTypes ==
  ASSUME MaxStops \in Nat
  PROVE  SchedulerSpec => []SchedulerTypeOK
<1> DEFINE Stops == stops \in 0..MaxStops
<1>1. SchedulerInit => Queue /\ Inv /\ Count /\ Stops
  BY InvInit, CountInit DEF SchedulerInit
<1>2. Queue /\ Inv /\ Count /\ Stops /\ [SchedulerNext]_schedulerVars
      => (Queue /\ Inv /\ Count /\ Stops)'
  <2>1. Stops /\ [SchedulerNext]_schedulerVars => Stops'
    <3>1. Stops /\ StopCall => Stops'
      BY DEF StopCall
    <3>2. [SchedulerNext]_schedulerVars => StopCall \/ stops' = stops
      BY DEF SchedulerNext, schedulerVars, Submit, SubmitResume, CancelJob, WorkerStart, WorkerWake,
             InnerStart, InnerEnd, Finish, Timeout, Reap, CancelledInRun,
             CancelledInGet, CancelledFresh, ThreadBegin, ThreadEnd, Start,
             StopCancel, StopReturn, Create, SetDone, Archive
    <3>3. QED
      BY <3>1, <3>2
  <2>2. QED
    BY <2>1, QueueStep, InvStep, CountStep
<1>3. Queue /\ Inv /\ Count /\ Stops => SchedulerTypeOK
  <2>1. TypeOK => TypeOK
    BY DEF TypeOK, TypeOK, Tasks, Tasks, NotPut, NotPut
  <2>2. QED
    BY <2>1, BusyFinite DEF Queue, Inv, Types, Count, SchedulerTypeOK
<1>4. QED
  BY <1>1, <1>2, <1>3, PTL DEF SchedulerSpec

--------------------------------------------------------------------------------
(* 9. What a submitter sees: the scheduler implements AbstractJobs.        *)

Waiting == Live \cup Blocked

\* A slot is free as long as some worker has no job: the jobs that are held are
\* no more than the workers that hold them.
LEMMA RoomToBegin ==
  ASSUME Queue, Inv, NEW w \in Workers, got[w] = NoJob
  PROVE  Cardinality(Held) < Cardinality(Workers)
<1> DEFINE holder == [j \in Held |-> CHOOSE v \in Busy : got[v] = j]
<1>1. ASSUME NEW j \in Held PROVE holder[j] \in Busy /\ got[holder[j]] = j
  <2>1. \E v \in Busy : got[v] = j
    BY DEF Held
  <2>2. QED
    BY <2>1
<1>2. holder \in Injection(Held, Busy)
  BY <1>1 DEF Injection, IsInjective
<1> HIDE DEF holder
<1>3. /\ IsFiniteSet(Busy)
      /\ Cardinality(Busy \cup {w}) = Cardinality(Busy) + 1
      /\ Cardinality(Busy) \in Nat
  BY BusyFinite, ViewFacts
<1>4. Cardinality(Held) <= Cardinality(Busy) /\ Cardinality(Held) \in Nat
  <2>1. IsFiniteSet(Held) /\ Cardinality(Held) <= Cardinality(Busy)
    BY <1>2, <1>3, FS_Injection
  <2>2. QED
    BY <2>1, FS_CardinalityType
<1>5. Cardinality(Busy \cup {w}) <= Cardinality(Workers) /\ Cardinality(Workers) \in Nat
  <2>1. Busy \cup {w} \subseteq Workers /\ IsFiniteSet(Workers)
    BY ViewFacts, QueueAssumption
  <2>2. QED
    BY <2>1, FS_Subset, FS_CardinalityType
<1>6. QED
  BY <1>3, <1>4, <1>5

\* A step that settles nothing leaves every answer as it was.
LEMMA AnswersKept ==
  ASSUME done' = done, Final
  PROVE  [j \in done |-> Read(j)]' = [j \in done |-> Read(j)]
BY DEF Final, Read

\* A step that settles a job adds one answer.
LEMMA AnswerGiven ==
  ASSUME Final, NEW j, done' = done \cup {j}, NEW a,
         a = IF status'[j] = "cancelled" THEN "cancelled" ELSE result'[j]
  PROVE  Lifecycle!Answer(j, a)
<1> DEFINE before == [k \in done |-> Read(k)]
<1>1. [k \in done |-> Read(k)]' =
        [k \in done \cup {j} |-> IF k = j THEN a ELSE before[k]]
  BY DEF Final, Read
<1>2. DOMAIN before = done
  OBVIOUS
<1>3. QED
  BY <1>1, <1>2 DEF Lifecycle!Answer

\* What a worker's passage through get() does to the jobs that wait or are held:
\* the job it had, which is settled, gives its slot to one that waited, if any.
LEMMA SlotAfterGet ==
  ASSUME Queue, Inv, NEW w \in Workers, Served(w) \/ Starved(w),
         NEW STATE statuses, NEW STATE running, AfterGet(w, statuses, running)
  PROVE  \/ /\ Held' = Held \ {got[w]} /\ Waiting' = Waiting
            /\ status' = statuses
         \/ \E k \in Waiting :
              /\ Held' = (Held \ {got[w]}) \cup {k} /\ Waiting' = Waiting \ {k}
              /\ status' = [statuses EXCEPT ![k] = "running"]
<1>1. /\ Held' = (Held \ {got[w]}) \cup ({got'[w]} \ {NoJob})
      /\ got'[w] # NoJob => got'[w] \in Live
      /\ Live' = Live \ {got'[w]}
  BY HeldAfterGet DEF Inv
<1>2. Blocked' = Blocked /\ NoJob \notin Live /\ Live \cap Blocked = {}
  BY ViewFacts DEF Served, Starved
<1>3. CASE got'[w] = NoJob
  BY <1>1, <1>2, <1>3 DEF AfterGet, Waiting
<1>4. CASE got'[w] # NoJob
  <2>1. /\ got'[w] \in Waiting
        /\ Held' = (Held \ {got[w]}) \cup {got'[w]} /\ Waiting' = Waiting \ {got'[w]}
    BY <1>1, <1>2, <1>4 DEF Waiting
  <2>2. status' = [statuses EXCEPT ![got'[w]] = "running"]
    BY <1>4 DEF AfterGet
  <2>3. QED
    BY <2>1, <2>2
<1>5. QED
  BY <1>3, <1>4

\* Every step of the scheduler is a step of the abstract jobs, or none.
LEMMA LifecycleStep ==
  ASSUME Queue, Inv, Outcomes, Calm, [SchedulerNext]_schedulerVars
  PROVE  [Lifecycle!Next]_(Lifecycle!vars)
<1> DEFINE Submitted == {j \in Jobs : status[j] # "new"}
           Answers == [j \in done |-> Read(j)]
<1>0. /\ Queue' /\ Inv' /\ Outcomes' /\ Calm' /\ Final
      /\ Types /\ Types' /\ stops \in Nat
  BY QueueStep, InvStep, OutcomesStep, CalmStep DEF Inv, Calm
<1>stutter. ASSUME UNCHANGED <<Submitted, Waiting, Held, done, stops>>
            PROVE  UNCHANGED Lifecycle!vars
  BY <1>0, <1>stutter, AnswersKept DEF Lifecycle!vars, Waiting
<1>1. ASSUME NEW j \in Jobs, Submit(j) PROVE Lifecycle!Submit(j)
  <2>1. /\ status[j] = "new" /\ status' = [status EXCEPT ![j] = "queued"]
        /\ UNCHANGED <<done, stops>> /\ PutCall(j)
    BY <1>1 DEF Submit, Create
  <2>2. Waiting' = Waiting \cup {j} /\ got' = got
    BY <2>1, PutCallViews DEF Queue, Waiting
  <2>3. Held' = Held
    BY <2>2, SameHeld
  <2>4. Submitted' = Submitted \cup {j} /\ j \notin Submitted
    BY <1>0, <2>1 DEF Types
  <2>5. Answers' = Answers
    BY <1>0, <2>1, AnswersKept
  <2>6. QED
    BY <2>1, <2>2, <2>3, <2>4, <2>5 DEF Lifecycle!Submit, Waiting
<1>2. CASE SubmitResume
  <2>1. PutWake /\ UNCHANGED <<status, done, stops>>
    BY <1>2 DEF SubmitResume, jobVars
  <2>2. Waiting' = Waiting /\ got' = got
    BY <2>1, PutWakeViews DEF Queue, Waiting
  <2>3. QED
    BY <1>stutter, <2>1, <2>2, SameHeld
<1>3. ASSUME NEW j \in Jobs, CancelJob(j) PROVE Lifecycle!Cancel(j) \/ UNCHANGED Lifecycle!vars
  <2>1. /\ j \in heap /\ Live' = Live \ {j} /\ UNCHANGED <<Blocked, got>>
    BY <1>3, CancelViews DEF CancelJob, Queue
  <2>2. j \notin Blocked /\ j \notin Held /\ Held' = Held
    BY <2>1, ViewFacts, SameHeld DEF Inv, Records
  <2>3. CASE j \in store
    <3>1. /\ status' = [status EXCEPT ![j] = "cancelled"] /\ done' = done \cup {j}
          /\ stops' = stops
      BY <1>3, <2>3 DEF CancelJob, SetDone, Archive
    <3>2. j \in Live /\ status[j] = "queued"
      BY <2>2, <2>3 DEF Inv, Records
    <3>3. Waiting' = Waiting \ {j} /\ j \in Waiting
      BY <2>1, <2>2, <3>2 DEF Waiting
    <3>4. Submitted' = Submitted /\ status'[j] = "cancelled"
      BY <1>0, <3>1, <3>2 DEF Types
    <3>5. Lifecycle!Answer(j, "cancelled")
      BY <1>0, <3>1, <3>4, AnswerGiven
    <3>6. QED
      BY <2>2, <3>1, <3>3, <3>4, <3>5 DEF Lifecycle!Cancel, Waiting
  <2>4. CASE j \notin store
    <3>1. UNCHANGED <<status, done, stops>>
      BY <1>3, <2>4 DEF CancelJob, SetDone, Archive
    <3>2. j \notin Live
      BY <2>4 DEF Inv, Records
    <3>3. Waiting' = Waiting
      BY <2>1, <3>2 DEF Waiting
    <3>4. QED
      BY <1>stutter, <2>2, <3>1, <3>3
  <2>5. QED
    BY <2>3, <2>4
<1>4. ASSUME NEW w \in Workers, WorkerStart(w) \/ (WorkerWake /\ w = Head(ready))
      PROVE  (\E j \in Jobs : Lifecycle!Begin(j)) \/ UNCHANGED Lifecycle!vars
  <2>1. /\ Served(w) \/ Starved(w)
        /\ got[w] = NoJob /\ AfterGet(w, status, inFlight)
    BY <1>0, <1>4, FetchStep
  <2>2. UNCHANGED <<done, stops>> /\ got[w] \notin Held
    BY <1>4, <2>1, ViewFacts DEF WorkerStart, WorkerWake
  <2>3. \/ Held' = Held /\ Waiting' = Waiting /\ status' = status
        \/ \E k \in Waiting :
             /\ Held' = Held \cup {k} /\ Waiting' = Waiting \ {k}
             /\ status' = [status EXCEPT ![k] = "running"]
    BY <2>1, <2>2, SlotAfterGet
  <2>4. CASE Held' = Held /\ Waiting' = Waiting /\ status' = status
    BY <1>stutter, <2>2, <2>4
  <2>5. ASSUME NEW k \in Waiting,
               Held' = Held \cup {k}, Waiting' = Waiting \ {k},
               status' = [status EXCEPT ![k] = "running"]
        PROVE  k \in Jobs /\ Lifecycle!Begin(k)
    <3>1. k \in Jobs /\ status[k] = "queued"
      BY <1>0, UndoneFacts DEF Waiting
    <3>2. Submitted' = Submitted
      BY <1>0, <2>5, <3>1 DEF Types
    <3>3. Answers' = Answers
      BY <1>0, <2>2, AnswersKept
    <3>4. Lifecycle!Cardinality(Held) = Cardinality(Held)
      BY DEF Lifecycle!Cardinality, Cardinality
    <3>5. Cardinality(Held) < Cardinality(Workers)
      BY <2>1, RoomToBegin
    <3>6. QED
      BY <2>2, <2>5, <3>1, <3>2, <3>3, <3>4, <3>5 DEF Lifecycle!Begin, Waiting
  <2>6. QED
    BY <2>3, <2>4, <2>5
<1>5. ASSUME NEW w \in Workers, Finish(w) \/ Reap(w)
      PROVE  \E j \in Jobs : Lifecycle!End(j)
  <2>1. /\ Served(w) \/ Starved(w)
        /\ got[w] \in Held /\ got[w] \in Jobs
        /\ \E end \in {"completed", "failed"} :
             AfterGet(w, [status EXCEPT ![got[w]] = end], inFlight - 1)
        /\ done' = done \cup {got[w]} /\ stops' = stops
    BY <1>0, <1>5, EndStep
  <2>2. PICK j \in Jobs : j = got[w]
    BY <2>1
  <2>3. PICK end \in {"completed", "failed"} :
          AfterGet(w, [status EXCEPT ![j] = end], inFlight - 1)
    BY <2>1, <2>2
  <2> DEFINE settled == [status EXCEPT ![j] = end]
  <2>4. AfterGet(w, settled, inFlight - 1)
    BY <2>3
  <2>5. /\ settled \in [Jobs -> Status] /\ settled[j] = end
        /\ \A k \in Jobs \ {j} : settled[k] = status[k]
    BY <1>0, <2>1 DEF Types, Status, Terminal
  <2> HIDE DEF settled
  <2>6. \/ Held' = Held \ {j} /\ Waiting' = Waiting /\ status' = settled
        \/ \E k \in Waiting :
             /\ Held' = (Held \ {j}) \cup {k} /\ Waiting' = Waiting \ {k}
             /\ status' = [settled EXCEPT ![k] = "running"]
    BY <2>1, <2>2, <2>4, SlotAfterGet
  <2>7. /\ \A k \in Waiting : k \in Jobs /\ k # j /\ status[k] = "queued"
        /\ status[j] = "running"
    BY <1>0, <2>1, <2>2, UndoneFacts DEF Waiting, Inv, Records
  <2>8. status'[j] = end
    BY <2>5, <2>6, <2>7
  <2>9. Submitted' = Submitted
    BY <2>5, <2>6, <2>7
  <2>10. \E a \in {"text", "error", "timeout"} : Lifecycle!Answer(j, a)
    <3>1. result'[j] \in {"text", "error", "timeout"}
      BY <1>0, <2>8 DEF Outcomes
    <3>2. done' = done \cup {j} /\ status'[j] # "cancelled"
      BY <2>1, <2>2, <2>8
    <3>3. PICK a \in {"text", "error", "timeout"} : a = result'[j]
      BY <3>1
    <3>4. Lifecycle!Answer(j, a)
      BY <1>0, <3>2, <3>3, AnswerGiven
    <3>5. QED
      BY <3>4
  <2>11. Lifecycle!End(j)
    BY <2>1, <2>2, <2>6, <2>9, <2>10 DEF Lifecycle!End, Waiting
  <2>12. QED
    BY <2>11
<1>6. ASSUME NEW w \in Workers, CancelledInRun(w)
      PROVE  \E j \in Jobs : Lifecycle!Abandon(j)
  <2>1. got[w] \in Held /\ Held' = Held \ {got[w]}
    BY <1>6, CutStep
  <2>2. /\ UNCHANGED <<status, done, stops>> /\ w \in cancelled /\ Release(w)
    BY <1>6 DEF CancelledInRun, Archive
  <2>3. Waiting' = Waiting
    BY <2>2 DEF Release, Waiting, Live, Blocked, InWait
  <2>4. stops > 0
    BY <1>0, <2>2 DEF Calm
  <2>5. Submitted' = Submitted /\ Answers' = Answers
    BY <1>0, <2>2, AnswersKept
  <2>6. Lifecycle!Abandon(got[w]) /\ got[w] \in Jobs
    BY <2>1, <2>2, <2>3, <2>4, <2>5, ViewFacts DEF Lifecycle!Abandon, Waiting
  <2>7. QED
    BY <2>6
<1>7. CASE StopCall
  <2>1. UNCHANGED queueVars /\ UNCHANGED <<status, done>> /\ stops' = stops + 1
    BY <1>7 DEF StopCall, jobVars
  <2>2. UNCHANGED <<Waiting, got>>
    BY <2>1, QueueRests DEF Views, Waiting
  <2>3. Held' = Held /\ Answers' = Answers
    BY <1>0, <2>1, <2>2, SameHeld, AnswersKept
  <2>4. Lifecycle!Stop
    BY <1>0, <2>1, <2>2, <2>3 DEF Lifecycle!Stop, Waiting
  <2>5. QED
    BY <2>4 DEF Lifecycle!Next
<1>8. ASSUME NEW w \in Workers, CancelledInGet(w) PROVE UNCHANGED Lifecycle!vars
  <2>1. Leave(w) /\ UNCHANGED <<status, done, stops>>
    BY <1>8 DEF CancelledInGet, jobVars
  <2>2. UNCHANGED <<Waiting, got>>
    BY <2>1, LeaveViews DEF Queue, Waiting
  <2>3. QED
    BY <1>stutter, <2>1, <2>2, SameHeld
<1>9. CASE UNCHANGED Views /\ UNCHANGED <<status, done, stops>>
  BY <1>stutter, <1>9, SameHeld DEF Views, Waiting
<1>10. ASSUME NEW w \in Workers,
              InnerStart(w) \/ InnerEnd(w) \/ Timeout(w) \/ CancelledFresh(w)
       PROVE  UNCHANGED Views /\ UNCHANGED <<status, done, stops>>
  BY <1>10, QueueRests DEF InnerStart, InnerEnd, Timeout, CancelledFresh, jobVars
<1>11. CASE \/ Start \/ StopCancel \/ StopReturn
            \/ (\E j \in Jobs : ThreadBegin(j) \/ ThreadEnd(j))
            \/ UNCHANGED schedulerVars
  BY <1>9, <1>11, QueueRests, AbortRests
  DEF Start, StopCancel, StopReturn, ThreadBegin, ThreadEnd, schedulerVars, jobVars
<1>12. CASE WorkerWake
  <2>1. Head(ready) \in Workers
    BY <1>12, GetWakeViews DEF WorkerWake, Queue
  <2>2. QED
    BY <1>4, <1>12, <2>1 DEF Lifecycle!Next
<1>13. QED
  <2> HIDE DEF Submitted, Answers
  <2>1. ASSUME NEW j \in Jobs, Submit(j) \/ CancelJob(j)
        PROVE  Lifecycle!Next \/ UNCHANGED Lifecycle!vars
    BY <1>1, <1>3, <2>1 DEF Lifecycle!Next
  <2>2. ASSUME NEW w \in Workers, WorkerStart(w) \/ Finish(w) \/ Reap(w) \/ CancelledInRun(w)
        PROVE  Lifecycle!Next \/ UNCHANGED Lifecycle!vars
    BY <1>4, <1>5, <1>6, <2>2 DEF Lifecycle!Next
  <2>3. QED
    BY <1>2, <1>7, <1>8, <1>9, <1>10, <1>11, <1>12, <2>1, <2>2 DEF SchedulerNext

\* However workers, inner tasks, threads, timeouts and callers of cancel()
\* interleave, who submitted a job sees what AbstractJobs promises: it waits, is
\* run at most once, in a slot that was free, ends with one answer, and only a
\* shutdown takes it away without one.
THEOREM ImplementsAbstractJobs == SchedulerSpec => ImplementsJobs
<1>1. SchedulerInit => Queue /\ Inv /\ Outcomes /\ Calm
  <2>1. SchedulerInit => Calm
    BY DEF SchedulerInit, Calm, NoJobLost
  <2>2. QED
    BY <2>1, InvInit, OutcomesInit
<1>2. SchedulerInit => Lifecycle!Init
  <2>1. ToSet(<<>>) = {}
    BY DEF ToSet
  <2>2. SchedulerInit => /\ Live \cup Blocked = {} /\ Held = {} /\ ~(stops > 0)
                         /\ {j \in Jobs : status[j] # "new"} = {} /\ done = {}
    BY <2>1 DEF SchedulerInit, Init, Live, Blocked, InWait, Held, Busy
  <2>3. SchedulerInit => [j \in done |-> Read(j)] = [j \in {} |-> "none"]
    BY <2>2
  <2>4. QED
    BY <2>2, <2>3 DEF Lifecycle!Init
<1>3. Queue /\ Inv /\ Outcomes /\ Calm /\ [SchedulerNext]_schedulerVars
      => (Queue /\ Inv /\ Outcomes /\ Calm)'
  BY QueueStep, InvStep, OutcomesStep, CalmStep
<1>4. Queue /\ Inv /\ Outcomes /\ Calm /\ [SchedulerNext]_schedulerVars
      => [Lifecycle!Next]_(Lifecycle!vars)
  BY LifecycleStep
<1>5. QED
  BY <1>1, <1>2, <1>3, <1>4, PTL DEF SchedulerSpec, ImplementsJobs, Lifecycle!Spec
================================================================================
