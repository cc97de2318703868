---------------------------- MODULE StreamDelivery -----------------------------
(***************************************************************************)
(* One streaming job from its worker to its SSE reader: Scheduler._run and *)
(* _stream, the StreamBus of events.py, subscribe_stream, and the reader   *)
(* of routers/chat.py.                                                     *)
(*                                                                         *)
(* The worker runs _stream as the inner task of wait_for.  _stream tracks  *)
(* a bounded asyncio.Queue on the bus, publishes each delta that a thread  *)
(* yields without ever waiting, and at the end stops tracking the queue    *)
(* and puts the sentinel, which does wait for room.  The reader polls the  *)
(* bus until the queue is there, then reads it up to the sentinel.  Three  *)
(* tasks may end the stream: the inner task, the worker, and stop().       *)
(***************************************************************************)
EXTENDS Integers, Sequences, SequencesExt

CONSTANTS
  Capacity,   \* StreamBus(queue_size), 1000 in the code
  MaxDeltas,  \* bound of the model: deltas the generation yields at most
  MaxPolls    \* polls of the bus before the reader gives up, 200 in the code

ASSUME StreamAssumption ==
  /\ Capacity \in Nat \ {0}
  /\ MaxDeltas \in Nat
  /\ MaxPolls \in Nat

VARIABLES
  status,     \* Job.status
  live,       \* the job is in JobStore._jobs
  tracked,    \* StreamBus._queues has the job
  buffer,     \* the job's asyncio.Queue
  collected,  \* how many deltas _stream collected
  inner,      \* where the inner task is
  ending,     \* how the inner task ends once its put of the sentinel returns
  worker,     \* where the worker is
  cancel,     \* tasks with a cancellation to be delivered
  stop,       \* where stop() is
  reader,     \* where the reader is
  polls,      \* polls the reader has left
  received,   \* deltas the reader was given
  reported    \* the reader reported the job's outcome to the router

jobVars == <<status, live>>
busVars == <<tracked, buffer>>
innerVars == <<inner, ending, collected>>
readerVars == <<reader, polls, received, reported>>
vars == <<jobVars, busVars, innerVars, worker, cancel, stop, readerVars>>

END == 0

Room == Len(buffer) < Capacity

Terminal == {"completed", "failed", "cancelled"}

\* inner   "none"      not created
\*         "spawned"   created, not run
\*         "next"      awaits a thread for the next delta
\*         "putting"   in bus.close, awaits room for the sentinel
\*         "returned", "raised", "gone"  ended: result, exception, cancelled
\* worker  "away"      busy with other jobs or idle
\*         "wait"      in wait_for
\*         "reap"      wait_for timed out and awaits the cancelled inner task
\*         "abort"     as "reap", but the worker itself was cancelled
\*         "free"      done with the job, or ended
\* stop    "no", "joining" (workers cancelled), "done", or "stuck": the worker lost
\*         its cancellation and gather() waits for it for ever
\* reader  "polling", "reading", "ended" (saw the sentinel),
\*         "noStream" (subscribe_stream returned without one), "left"
Init ==
  /\ status = "queued"
  /\ live = TRUE
  /\ tracked = FALSE
  /\ buffer = <<>>
  /\ collected = 0
  /\ inner = "none"
  /\ ending = "none"
  /\ worker = "away"
  /\ cancel = {}
  /\ stop = "no"
  /\ reader = "polling"
  /\ polls = MaxPolls
  /\ received = <<>>
  /\ reported = FALSE

--------------------------------------------------------------------------------
(* The inner task: Scheduler._stream.  It takes no further step once its   *)
(* worker is cancelled, for then the worker's wake-up comes first; a step  *)
(* that was due already may as well have come before the cancellation.     *)

Undisturbed ==
  /\ "inner" \notin cancel
  /\ worker = "wait" => "worker" \notin cancel

\* Mutant of CloseInner: the bus goes on tracking the queue.
CloseInnerTracked(how) ==
  /\ \/ /\ tracked /\ Room
        /\ buffer' = Append(buffer, END)
        /\ inner' = how
        /\ UNCHANGED ending
     \/ /\ tracked /\ ~Room
        /\ inner' = "putting"
        /\ ending' = how
        /\ UNCHANGED buffer
  /\ UNCHANGED tracked

\* Mutant of CloseInner: a sentinel that finds no room is dropped, like a delta.
CloseInnerDrops(how) ==
  /\ tracked' = FALSE
  /\ inner' = how
  /\ buffer' = IF tracked /\ Room THEN Append(buffer, END) ELSE buffer
  /\ UNCHANGED ending

\* bus.close() by the inner task in its finally, and how the task then ends.
CloseInner(how) ==
  /\ tracked' = FALSE
  /\ \/ /\ ~tracked
        /\ inner' = how
        /\ UNCHANGED <<buffer, ending>>
     \/ /\ tracked /\ Room
        /\ buffer' = Append(buffer, END)
        /\ inner' = how
        /\ UNCHANGED ending
     \/ /\ tracked /\ ~Room
        /\ inner' = "putting"
        /\ ending' = how
        /\ UNCHANGED buffer

\* bus.create(), then the model's stream() returns an iterator or raises,
\* outside the try.
InnerStart ==
  /\ inner = "spawned"
  /\ tracked' = TRUE
  /\ buffer' = <<>>
  /\ inner' \in {"next", "raised"}
  /\ UNCHANGED <<jobVars, ending, collected, worker, cancel, stop, readerVars>>

\* Mutant of Delta: when the queue is full the oldest place is overwritten.
DeltaOverwrites ==
  /\ inner = "next"
  /\ Undisturbed
  /\ collected < MaxDeltas
  /\ collected' = collected + 1
  /\ buffer' = IF Room THEN Append(buffer, collected')
                       ELSE <<collected'>> \o Tail(buffer)
  /\ UNCHANGED <<jobVars, tracked, inner, ending, worker, cancel, stop, readerVars>>

\* The thread yielded a delta: publish() drops it when the queue is full.
Delta ==
  /\ inner = "next"
  /\ Undisturbed
  /\ collected < MaxDeltas
  /\ collected' = collected + 1
  /\ buffer' = IF Room /\ tracked THEN Append(buffer, collected') ELSE buffer
  /\ UNCHANGED <<jobVars, tracked, inner, ending, worker, cancel, stop, readerVars>>

\* The iterator is exhausted, or it raised.
Exhausted ==
  /\ inner = "next"
  /\ Undisturbed
  /\ \E how \in {"returned", "raised"} : CloseInner(how)
  /\ UNCHANGED <<jobVars, collected, worker, cancel, stop, readerVars>>

\* The reader made room and the put of the sentinel goes on.
PutResume ==
  /\ inner = "putting"
  /\ Undisturbed
  /\ Room
  /\ buffer' = Append(buffer, END)
  /\ inner' = ending
  /\ UNCHANGED <<jobVars, tracked, ending, collected, worker, cancel, stop, readerVars>>

\* Mutant of InnerCancelled: no finally, the stream is dropped unclosed.
InnerCancelledUnclosed ==
  /\ "inner" \in cancel
  /\ inner' = "gone"
  /\ tracked' = FALSE
  /\ cancel' = cancel \ {"inner"}
  /\ UNCHANGED <<jobVars, buffer, ending, collected, worker, stop, readerVars>>

\* CancelledError in the await of the thread runs the finally; in the put of
\* the sentinel, it ends the task and the sentinel is never put.
InnerCancelled ==
  /\ "inner" \in cancel
  /\ \/ /\ inner = "next"
        /\ CloseInner("gone")
     \/ /\ inner = "putting"
        /\ inner' = "gone"
        /\ UNCHANGED <<busVars, ending>>
  /\ cancel' = cancel \ {"inner"}
  /\ UNCHANGED <<jobVars, collected, worker, stop, readerVars>>

--------------------------------------------------------------------------------
(* The worker: Scheduler._run.                                             *)

\* wait_for returns the outcome of an inner task that had ended when the worker
\* was cancelled, and the cancellation is lost.
LoseCancellation ==
  /\ cancel' = cancel \ {"worker"}
  /\ stop' = IF "worker" \in cancel THEN "stuck" ELSE stop

\* stop() does not keep a worker from picking a job, neither while it drains nor
\* when it cancels the worker in the moment in which its last job ended.
Pick ==
  /\ worker = "away"
  /\ status = "queued"
  /\ status' = "running"
  /\ worker' = "wait"
  /\ inner' = "spawned"
  /\ LoseCancellation
  /\ UNCHANGED <<live, busVars, ending, collected, readerVars>>

\* set_status, the bus.close() of the except clauses, archive: no suspension
\* in between, for the queue this close may find tracked is empty.
Settle(end) ==
  /\ status' = end
  /\ live' = FALSE
  /\ worker' = "free"
  /\ tracked' = (tracked /\ end = "completed")
  /\ buffer' = IF tracked /\ end = "failed" THEN Append(buffer, END) ELSE buffer

\* The inner task ended first.
InnerDone ==
  /\ worker = "wait"
  /\ \/ inner = "returned" /\ Settle("completed")
     \/ inner = "raised" /\ Settle("failed")
  /\ LoseCancellation
  /\ UNCHANGED <<innerVars, readerVars>>

\* Mutant of Timeout: it covers the end of the stream only.
TimeoutLate ==
  /\ worker = "wait"
  /\ inner = "putting"
  /\ "worker" \notin cancel
  /\ worker' = "reap"
  /\ cancel' = cancel \cup {"inner"}
  /\ UNCHANGED <<jobVars, busVars, innerVars, stop, readerVars>>

\* job_timeout_seconds passed: wait_for cancels the inner task and awaits it.
Timeout ==
  /\ worker = "wait"
  /\ inner \in {"next", "putting"}
  /\ "worker" \notin cancel
  /\ worker' = "reap"
  /\ cancel' = cancel \cup {"inner"}
  /\ UNCHANGED <<jobVars, busVars, innerVars, stop, readerVars>>

TimedOut ==
  /\ worker = "reap"
  /\ inner = "gone"
  /\ "worker" \notin cancel
  /\ Settle("failed")
  /\ UNCHANGED <<innerVars, cancel, stop, readerVars>>

\* Mutant of WorkerCancelled: the worker does not await its inner task.
WorkerCancelledAtOnce ==
  /\ "worker" \in cancel
  /\ worker' = "free"
  /\ cancel' = IF inner \in {"next", "putting"} THEN {"inner"} ELSE {}
  /\ live' = (live /\ worker = "away")
  /\ UNCHANGED <<status, busVars, innerVars, stop, readerVars>>

\* CancelledError in the worker: in wait_for it cancels the inner task and
\* awaits it; while wait_for already awaits it, the worker ends at once.  A worker
\* that is away ends, or loses it and goes on to another job.
WorkerCancelled ==
  /\ "worker" \in cancel
  /\ \/ /\ worker = "wait"
        /\ inner \in {"next", "putting"}
        /\ worker' = "abort"
        /\ cancel' = {"inner"}
        /\ UNCHANGED <<live, stop>>
     \/ /\ worker = "reap"
        /\ "inner" \notin cancel
        /\ worker' = "free"
        /\ live' = FALSE
        /\ cancel' = cancel \ {"worker"}
        /\ UNCHANGED stop
     \/ /\ worker = "away"
        /\ worker' = "free"
        /\ cancel' = cancel \ {"worker"}
        /\ UNCHANGED <<live, stop>>
     \/ /\ worker = "away"
        /\ LoseCancellation
        /\ UNCHANGED <<live, worker>>
  /\ UNCHANGED <<status, busVars, innerVars, readerVars>>

\* The finally of _run is all that applies: the status stays as it is.
Aborted ==
  /\ worker = "abort"
  /\ inner = "gone"
  /\ worker' = "free"
  /\ live' = FALSE
  /\ UNCHANGED <<status, busVars, innerVars, cancel, stop, readerVars>>

--------------------------------------------------------------------------------
(* stop() and cancel().                                                    *)

StopCancel ==
  /\ stop = "no"
  /\ stop' = "joining"
  /\ cancel' = IF worker = "free" THEN cancel ELSE cancel \cup {"worker"}
  /\ UNCHANGED <<jobVars, busVars, innerVars, worker, readerVars>>

\* gather() returned: close_all() closes the stream if the bus still tracks
\* it.  It never does (NothingLeftToClose), so its put is not seen to wait.
CloseAll ==
  /\ stop = "joining"
  /\ worker = "free"
  /\ stop' = "done"
  /\ tracked' = FALSE
  /\ buffer' = IF tracked THEN Append(buffer, END) ELSE buffer
  /\ UNCHANGED <<jobVars, innerVars, worker, cancel, readerVars>>

\* Scheduler.cancel() of a job that is still queued.
CancelQueued ==
  /\ status = "queued"
  /\ worker = "away"
  /\ live
  /\ status' = "cancelled"
  /\ live' = FALSE
  /\ UNCHANGED <<busVars, innerVars, worker, cancel, stop, readerVars>>

--------------------------------------------------------------------------------
(* The reader: subscribe_stream, inside the SSE generator of chat.py.      *)

\* The finally of the generator: the outcome is reported to the router only
\* when the live map still has the job, with a final status.
LeaveWith(how) ==
  /\ reader' = how
  /\ reported' = (live /\ status \in {"completed", "failed"})

Poll ==
  /\ reader = "polling"
  /\ \/ /\ polls > 0 /\ tracked
        /\ reader' = "reading"
        /\ UNCHANGED <<polls, reported>>
     \/ /\ polls > 0 /\ ~tracked /\ live /\ status \notin Terminal
        /\ polls' = polls - 1
        /\ UNCHANGED <<reader, reported>>
     \/ /\ polls > 0 /\ ~tracked /\ (~live \/ status \in Terminal)
        /\ LeaveWith("noStream")
        /\ UNCHANGED polls
     \/ /\ polls = 0
        /\ LeaveWith("noStream")
        /\ UNCHANGED polls
  /\ UNCHANGED <<jobVars, busVars, innerVars, worker, cancel, stop, received>>

\* Mutant of Read: the sentinel is handed on as a delta.
ReadAll ==
  /\ reader = "reading"
  /\ buffer # <<>>
  /\ buffer' = Tail(buffer)
  /\ received' = Append(received, Head(buffer))
  /\ UNCHANGED <<jobVars, tracked, innerVars, worker, cancel, stop, reader, polls,
                 reported>>

Read ==
  /\ reader = "reading"
  /\ buffer # <<>>
  /\ buffer' = Tail(buffer)
  /\ \/ /\ Head(buffer) = END
        /\ LeaveWith("ended")
        /\ UNCHANGED received
     \/ /\ Head(buffer) # END
        /\ received' = Append(received, Head(buffer))
        /\ UNCHANGED <<reader, reported>>
  /\ UNCHANGED <<jobVars, tracked, innerVars, worker, cancel, stop, polls>>

\* The client disconnects.
Disconnect ==
  /\ reader \in {"polling", "reading"}
  /\ LeaveWith("left")
  /\ UNCHANGED <<jobVars, busVars, innerVars, worker, cancel, stop, polls, received>>

Next ==
  \/ InnerStart \/ Delta \/ Exhausted \/ PutResume \/ InnerCancelled
  \/ Pick \/ InnerDone \/ Timeout \/ TimedOut \/ WorkerCancelled \/ Aborted
  \/ StopCancel \/ CloseAll \/ CancelQueued
  \/ Poll \/ Read \/ Disconnect

Spec == Init /\ [][Next]_vars

\* Tasks that can run do, the timer fires, stop() goes on once it is called.
\* Nothing is promised of the model's threads, of stop() being called, of a
\* worker becoming free for the job, or of the client.
Fairness ==
  /\ WF_vars(InnerStart) /\ WF_vars(PutResume) /\ WF_vars(InnerCancelled)
  /\ WF_vars(InnerDone) /\ WF_vars(Timeout) /\ WF_vars(TimedOut)
  /\ WF_vars(WorkerCancelled) /\ WF_vars(Aborted)
  /\ WF_vars(CloseAll) /\ WF_vars(Poll) /\ WF_vars(Read)

FairSpec == Spec /\ Fairness

--------------------------------------------------------------------------------
(* Properties.                                                             *)

TypeOK ==
  /\ status \in {"queued", "running"} \cup Terminal
  /\ live \in BOOLEAN
  /\ tracked \in BOOLEAN
  /\ buffer \in Seq(0..MaxDeltas)
  /\ collected \in 0..MaxDeltas
  /\ inner \in {"none", "spawned", "next", "putting", "returned", "raised", "gone"}
  /\ ending \in {"none", "returned", "raised", "gone"}
  /\ worker \in {"away", "wait", "reap", "abort", "free"}
  /\ cancel \subseteq {"inner", "worker"}
  /\ stop \in {"no", "joining", "done", "stuck"}
  /\ reader \in {"polling", "reading", "ended", "noStream", "left"}
  /\ polls \in 0..MaxPolls
  /\ received \in Seq(1..MaxDeltas)
  /\ reported \in BOOLEAN

\* The deltas that wait in the buffer, in front of the sentinel.
Deltas == IF buffer # <<>> /\ Last(buffer) = END THEN Front(buffer) ELSE buffer

\* Three tasks may close the stream (the inner task's finally, the except
\* clauses of _run, stop()), yet the sentinel is put at most once, after every
\* delta, when the bus has let go of the queue; the reader that saw it has
\* read all there ever is.
SentinelOnceAndLast ==
  /\ Len(buffer) <= Capacity
  /\ \A i \in DOMAIN buffer : buffer[i] = END => i = Len(buffer) /\ ~tracked
  /\ inner = "putting" => ~tracked /\ END \notin ToSet(buffer)
  /\ reader = "ended" => ~tracked /\ buffer = <<>> /\ inner # "putting"

\* The reader has, or will have, the deltas in order and each at most once.
\* publish() drops what a slow reader leaves no room for, and nothing else: until
\* that can happen not one is missing, whichever tasks end the stream.
DeltasIntact ==
  LET given == received \o Deltas IN
  /\ \A i, k \in DOMAIN given : i < k => given[i] < given[k]
  /\ collected <= Capacity => given = [i \in 1..collected |-> i]

\* Whichever way gather() came to return, no stream of a worker it joined is
\* still tracked: close_all() finds nothing to close.
NothingLeftToClose == stop = "joining" /\ worker = "free" => ~tracked

\* Where the stream is, for who reads it.
Progress ==
  CASE tracked -> "open"
    [] ~tracked /\ inner \in {"none", "spawned"} -> "unborn"
    [] ~tracked /\ inner = "putting" -> "closing"
    [] OTHER -> IF reader = "ended" \/ buffer # Deltas THEN "closed" ELSE "cut"

\* Where the reader is, for the stream.
Audience ==
  CASE reader = "polling" -> "away"
    [] reader = "reading" -> "on"
    [] reader = "ended" -> "told"
    [] reader \in {"noStream", "left"} -> "gone"

\* The stream as its reader sees it: the deltas in front of the sentinel wait.
Channel == INSTANCE AbstractStream WITH
  made <- collected,
  waiting <- Deltas,
  given <- received,
  stream <- Progress,
  reader <- Audience

\* Whoever ends the stream, and whatever is cancelled meanwhile, it is a channel
\* that gives its reader the deltas in order, loses some only while the buffer is
\* full, and tells of the end after the last, or never if it was cut off while the
\* sentinel waited for room.
ImplementsStream == Channel!Spec

\* The put of the sentinel waits for room when a cancellation reaches it.
SentinelLost == inner = "putting" /\ "inner" \in cancel

\* Unless its sentinel is lost, a reader that found the stream is released, with
\* the sentinel or because it left: failure-modes.md, "SSE subscriber gets
\* `[DONE]` instead of hanging forever".
ReaderReleased ==
  []~SentinelLost => (reader = "reading" ~> reader \in {"ended", "left"})

\* The same of every stream, whether its sentinel is lost or not, as
\* failure-modes.md has it.  It is not so: a cancellation that reaches the put of
\* the sentinel in StreamBus.close() loses it, and no other close() finds the queue.
ReaderTold == reader = "reading" ~> reader \in {"ended", "left"}

\* Nobody will ever make room in the buffer.
Clogged == ~Room /\ reader # "reading"

\* The worker comes back from every streaming job, whether the thread hangs or
\* the reader is slow, unless the buffer is full and nobody reads it:
\* failure-modes.md, "The worker is freed the moment the timeout fires, so a
\* wedged generation can't starve the pool".
WorkerFreed == worker = "wait" ~> worker = "free" \/ Clogged

\* The same of every streaming job, whoever reads it, as failure-modes.md has it.
\* It is not so: wait_for awaits the inner task it cancelled, whose finally awaits
\* room in a buffer that nobody reads.
WorkerComesBack == worker = "wait" ~> worker = "free"

\* subscribe_stream: "Yield token deltas for a streaming job until it
\* finishes."  A reader that finds no stream had no delta to miss.
NothingMissed ==
  [][reader = "polling" /\ polls > 0 /\ reader' = "noStream" => collected = 0]_vars

\* router.md: "Backend failure on the primary route -> report_outcome(id,
\* ok=False)".  A stream read to its end reports the failure of its job.
FailureReported == reader = "ended" /\ status = "failed" => reported
================================================================================
