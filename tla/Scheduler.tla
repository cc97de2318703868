------------------------------- MODULE Scheduler -------------------------------
(***************************************************************************)
(* scheduler/scheduler.py with store.py: admission, the worker pool, the   *)
(* timeout of a job, cancellation and shutdown, over the queue of          *)
(* PriorityQueue.  The jobs are non-streaming ones.                        *)
(*                                                                         *)
(* An action is what the event loop runs between two suspensions.  A       *)
(* worker that ends a job goes on, in the same step, to the next get(),    *)
(* and one that pops a job goes on to _run: neither suspends in between.   *)
(* asyncio.wait_for runs _execute as a task of its own, which hands the    *)
(* generation to a thread of the loop's default executor: worker, inner    *)
(* task and thread are three actors, and only the thread runs outside the  *)
(* event loop.  wait_for, to_thread and the executor are CPython 3.11's.   *)
(***************************************************************************)
EXTENDS PriorityQueue

CONSTANTS
  MaxInFlight,  \* admission control: max_in_flight
  PoolSize,     \* threads of the default executor: min(32, cpus + 4)
  MaxStops      \* bound of the model: how many times stop() is called

ASSUME SchedulerAssumption ==
  /\ MaxInFlight \in Nat
  /\ PoolSize \in Nat
  /\ MaxStops \in Nat

VARIABLES
  status,     \* status[j]: Job.status, "new" before submit_chat creates j
  result,     \* result[j]: what Job.result holds, "none" before
  done,       \* jobs whose done event is set
  store,      \* JobStore._jobs: the live map
  inFlight,   \* Scheduler.in_flight
  pc,         \* pc[w]: where worker w and the inner task of its job are
  thread,     \* thread[j]: the executor's work item that generates for j
  cancelled,  \* workers whose task.cancel() has not been delivered yet
  phase,      \* "off", "up", or where stop() is: "draining", "joining"
  stops       \* calls of stop() so far

queueVars == vars
jobVars == <<status, result, done, store>>
schedulerVars == <<queueVars, jobVars, inFlight, pc, thread, cancelled, phase, stops>>

Terminal == {"completed", "failed", "cancelled"}

Status == {"new", "queued", "running"} \cup Terminal

\* "dead"     no task, or a task that ended
\* "fresh"    created by start(), not run yet
\* "get"      inside queue.get()
\* "spawned"  in wait_for; the inner task has not run yet
\* "calling"  in wait_for; the inner task awaits its thread
\* "returned" in wait_for; the inner task ended with a result
\* "raised"   in wait_for; the inner task ended with an exception
\* "reap"     wait_for timed out and awaits the inner task it cancelled
Pc == {"dead", "fresh", "get", "spawned", "calling", "returned", "raised", "reap"}

SchedulerInit ==
  /\ Init
  /\ status = [j \in Jobs |-> "new"]
  /\ result = [j \in Jobs |-> "none"]
  /\ done = {}
  /\ store = {}
  /\ inFlight = 0
  /\ pc = [w \in Workers |-> "dead"]
  /\ thread = [j \in Jobs |-> "none"]
  /\ cancelled = {}
  /\ phase = "off"
  /\ stops = 0

--------------------------------------------------------------------------------
(* Submitters.                                                             *)

\* Mutant of CanAdmit: one job too many.
CanAdmitOneMore == inFlight + QSize <= MaxInFlight

CanAdmit == inFlight + QSize < MaxInFlight

\* store.create(): a record in the live map, queued.
Create(j) ==
  /\ status' = [status EXCEPT ![j] = "queued"]
  /\ store' = store \cup {j}

\* store.set_status() with a terminal status also sets the done event.
SetDone(j) == done' = done \cup {j}

\* store.archive(): the record leaves the live map.  (Of the bounded history
\* that it enters nothing reads but list().)
Archive(j) == store' = store \ {j}

\* submit_chat(): create the record and put the job; the put may block.  A
\* submit that is not admitted raises and changes nothing.
Submit(j) ==
  /\ status[j] = "new"
  /\ CanAdmit
  /\ Create(j)
  /\ PutCall(j)
  /\ UNCHANGED <<result, done, inFlight, pc, thread, cancelled, phase, stops>>

\* A submitter blocked in put() is notified: admission is not tested again.
SubmitResume ==
  /\ PutWake
  /\ UNCHANGED <<jobVars, inFlight, pc, thread, cancelled, phase, stops>>

\* Mutant of CancelJob: the record is not archived.
CancelUnarchived(j) ==
  /\ Cancel(j)
  /\ j \in store
  /\ status' = [status EXCEPT ![j] = "cancelled"]
  /\ SetDone(j)
  /\ UNCHANGED <<store, result, inFlight, pc, thread, cancelled, phase, stops>>

\* Mutant of CancelJob: set_status does not set the done event.
CancelUnsettled(j) ==
  /\ Cancel(j)
  /\ j \in store
  /\ status' = [status EXCEPT ![j] = "cancelled"]
  /\ Archive(j)
  /\ UNCHANGED <<done, result, inFlight, pc, thread, cancelled, phase, stops>>

\* cancel(): a job found in the heap and still in the live map ends.
CancelJob(j) ==
  /\ Cancel(j)
  /\ \/ /\ j \in store
        /\ status' = [status EXCEPT ![j] = "cancelled"]
        /\ SetDone(j)
        /\ Archive(j)
     \/ /\ j \notin store
        /\ UNCHANGED <<status, done, store>>
  /\ UNCHANGED <<result, inFlight, pc, thread, cancelled, phase, stops>>

--------------------------------------------------------------------------------
(* Workers.                                                                *)

\* Mutant of AfterGet: a worker that goes to sleep counts a job less.
AfterGetDown(w, statuses, running) ==
  \/ /\ got'[w] = NoJob
     /\ pc' = [pc EXCEPT ![w] = "get"]
     /\ status' = statuses
     /\ inFlight' = running - 1
  \/ /\ got'[w] # NoJob
     /\ pc' = [pc EXCEPT ![w] = "spawned"]
     /\ status' = [statuses EXCEPT ![got'[w]] = "running"]
     /\ inFlight' = running + 1

\* What follows queue.get() in the same step: sleep in it, or start _run on
\* the job it returned.  `statuses' and `running' are the job records and
\* in_flight at the time of the call.  (_worker skips a job that is gone or
\* ended; RecordsAgree says that get() never returns one.)
AfterGet(w, statuses, running) ==
  \/ /\ got'[w] = NoJob
     /\ pc' = [pc EXCEPT ![w] = "get"]
     /\ status' = statuses
     /\ inFlight' = running
  \/ /\ got'[w] # NoJob
     /\ pc' = [pc EXCEPT ![w] = "spawned"]
     /\ status' = [statuses EXCEPT ![got'[w]] = "running"]
     /\ inFlight' = running + 1

\* A worker's first step.
WorkerStart(w) ==
  /\ pc[w] = "fresh"
  /\ w \notin cancelled
  /\ GetCall(w)
  /\ AfterGet(w, status, inFlight)
  /\ UNCHANGED <<result, done, store, thread, cancelled, phase, stops>>

\* A worker notified in get() runs again.
WorkerWake ==
  /\ GetWake
  /\ AfterGet(Head(ready), status, inFlight)
  /\ UNCHANGED <<result, done, store, thread, cancelled, phase, stops>>

\* The inner task's first step: _execute hands the generation to a thread.
InnerStart(w) ==
  /\ pc[w] = "spawned"
  /\ pc' = [pc EXCEPT ![w] = "calling"]
  /\ thread' = [thread EXCEPT ![got[w]] = "queued"]
  /\ UNCHANGED <<queueVars, jobVars, inFlight, cancelled, phase, stops>>

\* The thread's answer reaches the event loop and the inner task ends with
\* it: set_result, or the exception.  Not once the worker is cancelled: its
\* wake-up is then scheduled already and comes first.
InnerEnd(w) ==
  /\ pc[w] = "calling"
  /\ w \notin cancelled
  /\ \/ /\ thread[got[w]] = "returned"
        /\ pc' = [pc EXCEPT ![w] = "returned"]
        /\ result' = [result EXCEPT ![got[w]] = "text"]
     \/ /\ thread[got[w]] = "raised"
        /\ pc' = [pc EXCEPT ![w] = "raised"]
        /\ UNCHANGED result
  /\ UNCHANGED <<queueVars, status, done, store, inFlight, thread, cancelled,
                 phase, stops>>

\* Mutant of EndJob: the job is archived without a final status.
EndJobUnsettled(w, end) ==
  /\ Archive(got[w])
  /\ GetCall(w)
  /\ AfterGet(w, status, inFlight - 1)
  /\ UNCHANGED done

\* set_status(terminal), then the finally of _run, then the next get().
EndJob(w, end) ==
  LET j == got[w] IN
  /\ SetDone(j)
  /\ Archive(j)
  /\ GetCall(w)
  /\ AfterGet(w, [status EXCEPT ![j] = end], inFlight - 1)

\* The inner task ended and the worker runs.  A cancellation that arrived in
\* between is lost: wait_for finds the inner task done and returns its outcome.
Finish(w) ==
  /\ \/ /\ pc[w] = "returned"
        /\ EndJob(w, "completed")
        /\ UNCHANGED result
     \/ /\ pc[w] = "raised"
        /\ EndJob(w, "failed")
        /\ result' = [result EXCEPT ![got[w]] = "error"]
  /\ cancelled' = cancelled \ {w}
  /\ UNCHANGED <<thread, phase, stops>>

\* Cancelling the inner task cancels the work item it awaits: one that no
\* thread has begun never runs, one that runs goes on with nobody waiting.
DropCall(j) ==
  thread' = [thread EXCEPT ![j] = IF @ = "queued" THEN "none" ELSE @]

\* Mutant of Timeout: it applies only until a thread takes the job.
TimeoutQueued(w) ==
  /\ pc[w] = "calling"
  /\ w \notin cancelled
  /\ thread[got[w]] = "queued"
  /\ pc' = [pc EXCEPT ![w] = "reap"]
  /\ DropCall(got[w])
  /\ UNCHANGED <<queueVars, jobVars, inFlight, cancelled, phase, stops>>

\* job_timeout_seconds passed and the inner task has not ended.
Timeout(w) ==
  /\ pc[w] = "calling"
  /\ w \notin cancelled
  /\ pc' = [pc EXCEPT ![w] = "reap"]
  /\ DropCall(got[w])
  /\ UNCHANGED <<queueVars, jobVars, inFlight, cancelled, phase, stops>>

\* The cancelled inner task ended: wait_for raises TimeoutError.
Reap(w) ==
  /\ pc[w] = "reap"
  /\ w \notin cancelled
  /\ EndJob(w, "failed")
  /\ result' = [result EXCEPT ![got[w]] = "timeout"]
  /\ UNCHANGED <<thread, cancelled, phase, stops>>

\* Mutant of CancelledInRun: in_flight is decremented by outcomes only.
CancelledInRunCounted(w) ==
  /\ w \in cancelled
  /\ pc[w] \in {"calling", "reap"}
  /\ Release(w)
  /\ Archive(got[w])
  /\ DropCall(got[w])
  /\ pc' = [pc EXCEPT ![w] = "dead"]
  /\ cancelled' = cancelled \ {w}
  /\ UNCHANGED <<status, result, done, inFlight, phase, stops>>

\* CancelledError reaches a worker that runs a job (whose inner task, were it
\* just spawned, starts before): only the finally of _run applies.  The job
\* keeps its status and its done event is never set.
CancelledInRun(w) ==
  /\ w \in cancelled
  /\ pc[w] \in {"calling", "reap"}
  /\ Release(w)
  /\ inFlight' = inFlight - 1
  /\ Archive(got[w])
  /\ DropCall(got[w])
  /\ pc' = [pc EXCEPT ![w] = "dead"]
  /\ cancelled' = cancelled \ {w}
  /\ UNCHANGED <<status, result, done, phase, stops>>

\* CancelledError reaches a worker inside get().
CancelledInGet(w) ==
  /\ w \in cancelled
  /\ pc[w] = "get"
  /\ Leave(w)
  /\ pc' = [pc EXCEPT ![w] = "dead"]
  /\ cancelled' = cancelled \ {w}
  /\ UNCHANGED <<jobVars, inFlight, thread, phase, stops>>

\* A task cancelled before its first step never runs.
CancelledFresh(w) ==
  /\ w \in cancelled
  /\ pc[w] = "fresh"
  /\ pc' = [pc EXCEPT ![w] = "dead"]
  /\ cancelled' = cancelled \ {w}
  /\ UNCHANGED <<queueVars, jobVars, inFlight, thread, phase, stops>>

--------------------------------------------------------------------------------
(* Threads of the executor.  A generation may never end.                   *)

Generating == {j \in Jobs : thread[j] = "running"}

ThreadBegin(j) ==
  /\ thread[j] = "queued"
  /\ Cardinality(Generating) < PoolSize
  /\ thread' = [thread EXCEPT ![j] = "running"]
  /\ UNCHANGED <<queueVars, jobVars, inFlight, pc, cancelled, phase, stops>>

\* Mutant of ThreadEnd: the thread itself writes the job's result.
ThreadEndWrites(j) ==
  /\ thread[j] = "running"
  /\ thread' = [thread EXCEPT ![j] = "returned"]
  /\ result' = [result EXCEPT ![j] = "text"]
  /\ UNCHANGED <<queueVars, status, done, store, inFlight, pc, cancelled,
                 phase, stops>>

ThreadEnd(j) ==
  /\ thread[j] = "running"
  /\ \E end \in {"returned", "raised"} : thread' = [thread EXCEPT ![j] = end]
  /\ UNCHANGED <<queueVars, jobVars, inFlight, pc, cancelled, phase, stops>>

--------------------------------------------------------------------------------
(* start() and stop().                                                     *)

Start ==
  /\ phase = "off"
  /\ phase' = "up"
  /\ pc' = [w \in Workers |-> "fresh"]
  /\ UNCHANGED <<queueVars, jobVars, inFlight, thread, cancelled, stops>>

StopCall ==
  /\ phase = "up"
  /\ stops < MaxStops
  /\ phase' = "draining"
  /\ stops' = stops + 1
  /\ UNCHANGED <<queueVars, jobVars, inFlight, pc, thread, cancelled>>

\* The polling loop of stop() ends, with nothing in flight or at the
\* deadline, and every worker is cancelled.
StopCancel ==
  /\ phase = "draining"
  /\ phase' = "joining"
  /\ cancelled' = Workers
  /\ Abort
  /\ UNCHANGED <<jobVars, inFlight, pc, thread, stops>>

\* gather() returns when every worker task has ended.
StopReturn ==
  /\ phase = "joining"
  /\ \A w \in Workers : pc[w] = "dead"
  /\ phase' = "off"
  /\ UNCHANGED <<queueVars, jobVars, inFlight, pc, thread, cancelled, stops>>

SchedulerNext ==
  \/ \E j \in Jobs : Submit(j) \/ CancelJob(j) \/ ThreadBegin(j) \/ ThreadEnd(j)
  \/ SubmitResume
  \/ WorkerWake
  \/ \E w \in Workers :
       \/ WorkerStart(w) \/ InnerStart(w) \/ InnerEnd(w) \/ Finish(w)
       \/ Timeout(w) \/ Reap(w)
       \/ CancelledInRun(w) \/ CancelledInGet(w) \/ CancelledFresh(w)
  \/ Start \/ StopCall \/ StopCancel \/ StopReturn

SchedulerSpec == SchedulerInit /\ [][SchedulerNext]_schedulerVars

\* The event loop runs every task that can run, timers fire, a free thread
\* takes a work item, and the application calls start() once at boot and
\* awaits the stop() it calls.  No thread is promised to end.
SchedulerFairness ==
  /\ WF_schedulerVars(SubmitResume \/ WorkerWake)
  /\ \A w \in Workers :
       /\ WF_schedulerVars(WorkerStart(w))
       /\ WF_schedulerVars(InnerStart(w))
       /\ WF_schedulerVars(InnerEnd(w))
       /\ WF_schedulerVars(Finish(w))
       /\ WF_schedulerVars(Timeout(w))
       /\ WF_schedulerVars(Reap(w))
       /\ WF_schedulerVars(CancelledInRun(w) \/ CancelledInGet(w) \/ CancelledFresh(w))
  /\ \A j \in Jobs : WF_schedulerVars(ThreadBegin(j))
  /\ WF_schedulerVars(Start /\ stops = 0)
  /\ WF_schedulerVars(StopCancel)
  /\ WF_schedulerVars(StopReturn)

SchedulerFairSpec == SchedulerSpec /\ SchedulerFairness

--------------------------------------------------------------------------------
(* Properties.                                                             *)

SchedulerTypeOK ==
  /\ TypeOK
  /\ status \in [Jobs -> Status]
  /\ result \in [Jobs -> {"none", "text", "error", "timeout"}]
  /\ done \subseteq Jobs
  /\ store \subseteq Jobs
  /\ inFlight \in Nat
  /\ pc \in [Workers -> Pc]
  /\ thread \in [Jobs -> {"none", "queued", "running", "returned", "raised"}]
  /\ cancelled \subseteq Workers
  /\ phase \in {"off", "up", "draining", "joining"}
  /\ stops \in 0..MaxStops

\* Workers that run a job, and their jobs.
Busy == {w \in Workers : got[w] # NoJob}

Held == {got[w] : w \in Busy}

\* The live map, the queue and the workers agree: a live record is queued,
\* waits for room or is run by exactly one worker, and its status says which.
\* The re-test after get() ("job is None or _is_terminal") has nothing to
\* catch, although cancel() ends a job whose item stays in the heap.
RecordsAgree ==
  /\ store = Live \cup Blocked \cup Held
  /\ \A j \in Live \cup Blocked : status[j] = "queued"
  /\ \A j \in Held : status[j] = "running"
  /\ \A v, w \in Busy : got[v] = got[w] => v = w

\* in_flight, which admission and the drain of stop() trust, is the number of
\* jobs the workers run, whatever timed out, failed or was cancelled.
InFlightExact == inFlight = Cardinality(Busy)

\* "queued + running" stays within max_in_flight ("reject submits beyond
\* this"), although the test and the push are steps of many submitters, and
\* jobs move from the queue to the workers meanwhile.
AdmissionBound == inFlight + QSize <= MaxInFlight

\* The done event is set exactly when the status is terminal, and what a
\* waiter then reads is the outcome: a text, or an error.
DoneMeansSettled ==
  /\ done = {j \in Jobs : status[j] \in Terminal}
  /\ \A j \in Jobs :
       /\ status[j] = "completed" => result[j] = "text"
       /\ status[j] = "failed" => result[j] \in {"error", "timeout"}
       /\ status[j] = "cancelled" => result[j] = "none" /\ thread[j] = "none"

\* Before any stop() no job is lost: one that has not ended is in the live map.
NoJobLost ==
  stops = 0 => \A j \in Jobs : status[j] \in {"queued", "running"} => j \in store

\* JobStore.archive(): "Move a finished job from the live map into the bounded
\* history."  No job leaves the live map without its done event set.  It is not so
\* of a job that stop() cancels: the finally of _run archives it still running, and
\* whoever awaits done is never told.
ArchivedAreDone == \A j \in Jobs : status[j] # "new" => j \in store \cup done

\* What a waiter read stays true: a generation that answers after its job
\* timed out, or a cancel() that arrives late, changes nothing.
DoneIsFinal ==
  [][\A j \in done : /\ j \in done'
                     /\ status'[j] = status[j]
                     /\ result'[j] = result[j]]_schedulerVars

\* store.py: every job carries an event, done, "that a caller can await to
\* learn when the job reaches a terminal state".  Every submitted job settles,
\* even if every generation hangs: the timeout gives the worker back and no
\* wake-up is lost, even if the threads that hang use up the executor.  (It takes
\* that nobody calls stop(); ArchivedAreDone is about those who do.)
JobsSettle == \A j \in Jobs : status[j] # "new" ~> j \in done

\* stop() returns.
StopReturns == phase = "draining" ~> phase = "off"

\* What the record of a job that ended says: that it was cancelled, or its result.
Read(j) == IF status[j] = "cancelled" THEN "cancelled" ELSE result[j]

\* The jobs as who submits them sees them: those held by a worker are in a slot.
Lifecycle == INSTANCE AbstractJobs WITH
  Slots <- Cardinality(Workers),
  submitted <- {j \in Jobs : status[j] # "new"},
  waiting <- Live \cup Blocked,
  running <- Held,
  answer <- [j \in done |-> Read(j)],
  stopped <- stops > 0

\* The scheduler is what whoever submits a job thinks it is: the job runs at most
\* once, in one of as many slots as there are workers, and is answered once, however
\* workers, inner tasks, threads, timeouts and callers of cancel() interleave.
ImplementsJobs == Lifecycle!Spec
================================================================================
