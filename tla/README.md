# A verification of openinference in TLA+

openinference is an OpenAI-compatible inference server in Python. A FastAPI
application routes each chat request to one of several model backends and
submits it as a job to an asyncio scheduler, whose workers run the model in
threads and hand the answer back as a whole or as a stream of deltas. This
directory holds TLA+ modules that model the concurrent core of it, the TLC
configurations that check them on small instances, and proofs, checked by
TLAPS, that hold for instances of every size.

Paths below are relative to `src/`: `queue.py`, `scheduler.py`, `store.py`,
`events.py` and `config.py` are those of `scheduler/src/scheduler/`; `chat.py`
is `inference-server/src/inference_server/routers/chat.py`; `bpe.py`,
`kv_cache.py`, `model.py` and `loader.py` are those of
`scratch-inference/src/scratch_inference/`; `main.py`, `auth.py`, `rate_limit.py` and
`metrics.py` are those of `inference-server/src/inference_server/`.

Contents: [1 the system](#1-the-system), [2 the modules](#2-the-modules),
[3 the runs](#3-the-runs), [4 the proofs](#4-the-proofs),
[5 findings](#5-findings), [6 what is not modelled](#6-what-is-not-modelled),
[7 plan](#7-plan), [8 how to run](#8-how-to-run).

## 1. The system

| Component | State | Operations | Hard behaviour | Correct when |
|---|---|---|---|---|
| Priority queue (`queue.py`) | heap, set of cancelled ids (tombstones), sequence counter, one condition | `put`, `get`, `cancel`, `qsize`, `full` | submitters and workers share one condition and `notify()` wakes one waiter of either kind; cancellation is lazy; a waiting task may be cancelled | the bound holds, `qsize()` is exact, each job is handed out once and best first, no wake-up is lost |
| Scheduler (`scheduler.py`) | job records, `in_flight`, worker tasks | `submit_chat`, `cancel`, `start`, `stop`, the worker loop, `_run`, `_execute` | worker, inner task of `wait_for` and executor thread are three actors; timeout, cancellation, shutdown and late answers race | records, queue and workers agree; `in_flight` is exact; every job settles once and for good |
| Job store (`store.py`) | live map, `done` events, bounded history | `create`, `set_status`, `set_result`, `archive`, `get` | archived in the step that makes it final | a waiter on `done` reads a final outcome |
| Stream bus (`events.py`) | one bounded queue per streaming job | `create`, `publish`, `close`, `close_all`, `stream_or_none` | `publish` drops on overflow; `close` waits for room; three tasks close | deltas in order, one sentinel, last; reader and worker are released |
| SSE reader (`subscribe_stream`, the generator of `chat.py`) | polls left, what was received | poll, read, leave, report | polls for a stream that comes and goes; looks up a record that is archived meanwhile | nothing missed, outcome reported |
| Route health (`router/health.py`) | window of outcomes, cooldown deadlines | `record`, `healthy` | outcomes of concurrent requests arrive in any order | a cooldown covers failing routes only; when it ends the route is used again (section 5) |
| Router (`router/engine.py`, `models.py`, `registry.py`) | the route table | `route`, `_score`, fallback order, `available` | health and files change between decision and fallback; three axes, clamped hints and a raw budget in one score | picks only usable routes; the choice follows the client's hints |
| Chat handler (`chat.py`) | routes attempted, fallbacks used | submit, wait, report, retry, answer | a fallback can be refused; the answer itself can fail after success was reported | bounded, distinct retries; gives up only for cause |
| Rate limiter (`rate_limit.py`) | timestamps per key | `allow`, `remaining` | timestamps are pruned on every call; both ends of the window | at most `max_requests` in any window, wherever it starts; refuses for that reason only |
| Metrics (`metrics.py`) | counters, lists of samples, one lock | `record_*`, `summary` | every method takes the lock for itself; `summary()` runs on a thread of the pool between any two of them | every snapshot adds up |
| HTTP application (`main.py`, `auth.py`, the routers) | requests in flight | middleware, authentication, rate limit, handlers | each request records several samples at different moments; an exception takes another way out | each request is counted once, however it ends |
| Tool loop (`_generate_with_tools`, `tools.py`) | messages of the job | parse, run tool, next turn | a tool that raises; text that looks like a call | ends within its turn budget |
| Model engines (`llm.py`, `engines.py`) | lazily loaded model | `_load`, `generate`, `stream`, `count_tokens` | check-then-act load from several threads | whoever generates has a model; the race of the first use is the only one |
| KV cache and model (`kv_cache.py`, `model.py`) | rows per layer, positions | `append`, growth, forward pass, decode loop | growth in the middle of a generation, absolute positions, end of the rotary table | the cache changes no result |
| BPE tokenizer (`bpe.py`, prompts of `loader.py`) | ranks, vocabulary | `encode`, `decode` | merge order, overlapping pairs, special tokens | merges by rank, loses no byte |
| Weight loader, benchmarks | none that outlives a call | | | |

How they interact. A request passes the middleware of `main.py`, authentication (on a
thread) and the rate limit. The chat handler calls `Router.route`, then awaits
`Scheduler.submit_chat`, which may refuse (admission), create the record in the
job store and then suspend in `PriorityQueue.put`. A worker takes the job from
`PriorityQueue.get`, sets its status, and runs `_execute` under
`asyncio.wait_for`, which hands the generation to a thread. When it ends, or
times out, the worker sets the final status (which sets `done`) and archives the
record. A non-streaming handler awaits `done`, reports the outcome to the route's
health and answers or retries; a streaming one polls the stream bus, which the
worker's inner task feeds, and reports when its reader ends. The middleware and the
handlers record into the metrics, which `/metrics` reads on a thread.

All of it runs on one event loop except the generating threads. A coroutine is
interrupted only where it suspends, and an `await` of something that does not
suspend (a lock that is free, a coroutine that returns) does not interrupt it.
An action of the models is therefore what one task does between two
suspensions, which is longer than one method: a worker that ends a job goes on,
in the same step, to its next `get()`.

## 2. The modules

| Module | Models | Built on |
|---|---|---|
| `AbstractQueue` | what the queue promises: a bounded priority queue, with no word of heap, tombstones or wake-ups | |
| `PriorityQueue` | `queue.py`, with the condition and the cancellation of waiting tasks | `AbstractQueue` (refinement mapping) |
| `AbstractJobs` | what the scheduler promises who submits a job: it waits, runs at most once in one of several slots, is answered once | |
| `Scheduler` | `scheduler.py` and `store.py` for non-streaming jobs | extends `PriorityQueue`; `AbstractJobs` (refinement mapping) |
| `AbstractStream` | what a stream promises its reader: the deltas in order, some lost while too many wait, the end after the last | |
| `StreamDelivery` | one streaming job from worker to SSE reader: `_run`, `_stream`, `events.py`, `subscribe_stream`, the generator of `chat.py` | `AbstractStream` (refinement mapping) |
| `RouteHealth` | `router/health.py` | |
| `RouteScore` | `_score` and the sort of `router/engine.py`, over the hints that `chat.py` reads from the headers | extends `RouteHealth` |
| `ChatRouting` | a non-streaming request in `chat.py` with `router/engine.py`, `models.py`, `registry.py` | extends `RouteScore` |
| `RateLimiter` | `rate_limit.py`, with the clock | |
| `Metrics` | `metrics.py` | |
| `Gateway` | a request from the middleware of `main.py` to the end of its response, over limiter and metrics | extends `RateLimiter`, `Metrics` |
| `LazyModel` | `_load` of the engines in `llm.py` and `engines.py`, shared by threads | |
| `Generation` | what a generating thread does: `_generate_with_tools`, `tools.py`, `generate` of the engines | extends `LazyModel` |
| `BPE`, `KVCache` | the operators of `bpe.py` and `kv_cache.py`, with a reference for the former | |
| `Decoding` | `generate()` of `model.py` over the cache, with a reference | extends `KVCache` |
| `ScratchEngine` | one chat completion of the from-scratch engine: `loader.py` over encoding and decoding | extends `BPE`, `Decoding` |
| `MCPriorityQueue`, `MCScheduler`, `MCChatRouting`, `MCGateway`, `MCGeneration`, `MCScratchEngine` | small instances | |
| `PriorityQueueProofs`, `SchedulerProofs`, `StreamProofs`, `ChatRoutingProofs`, `GatewayProofs`, `GenerationProofs`, `DecodingProofs`, `ScratchEngineProofs` | proofs | |

### PriorityQueue

`heap` is the set of queued jobs and `Before` the order the heap keeps;
`tombstones` is `_cancelled`; `waiters` is the condition's FIFO of sleeping tasks
and `ready` the tasks it notified that have not run yet; `aborted` are workers
whose cancellation is on its way; `got[w]` is the job a worker was handed. A task
is named by what it works for: a job names its submitter. `PutCall`, `GetCall`,
`PutWake`, `GetWake` and `Cancel` are calls up to their end or to their wait, and
the continuation of a woken one. `Abort` and `Leave` are what `Scheduler.stop` does
to workers that wait here. `Notify` and `Wait` follow `asyncio.Condition`
(external): a notification goes to the longest waiter whatever it waits for, and a
waiter whose cancellation arrives after its notification has already used it up.
The refinement mapping to `AbstractQueue` takes the live items (`heap` less
`tombstones`) for its pending jobs and the suspended submitters for its waiting
ones.

### Scheduler

It adds to the queue the job records (`status`, `result`, `done`, the live map
`store`), `inFlight`, the program counter of each worker and of the inner task
of its job (`pc`), the executor's work item for each job (`thread`), the
cancellations not delivered yet, and where `start`/`stop` is. `EndJob` is the end
of `_run` with everything the code does before it suspends again: final status,
`done`, archive, decrement, next `get()`. `Finish` is the interesting case of
CPython 3.11's `wait_for`: when the inner task ended before a cancellation is
delivered, the outcome is returned and the cancellation is swallowed.
`CancelledInRun` is the other one: only the `finally` of `_run` applies.
`DropCall` and `ThreadBegin` are `asyncio.to_thread` and the default executor: a
work item that no thread has begun is withdrawn, one that runs goes on.
`MaxStops` is the only bound of the model: how many times `stop()` is called.
The refinement mapping to `AbstractJobs` takes the live and the blocked jobs for those
that wait, the jobs the workers hold for those in a slot (there are as many slots as
workers), and the outcome on record, once `done` is set, for the answer. The end of a
job and the start of the next one by the same worker are one abstract step, as they
are one step of the event loop.

### StreamDelivery

`buffer` is the job's `asyncio.Queue`, `tracked` whether the bus still knows it,
`collected` how many deltas the generation yielded; the delta with number `k` is
`k`, the sentinel `END`. Worker, inner task, `stop()` and reader each have a
location. `close()` stops tracking the queue and then waits for room, so the model
has a place (`putting`) where the sentinel is on its way and can still be lost.
A cancellation of the worker by `stop()` may be lost in two places: `wait_for` returns the
outcome of an inner task that has ended (`LoseCancellation`), for this job or for the one
before it, in which case the worker may still pick this one; `stop()` is `stuck` from then on.
`MaxDeltas` is the model's bound. `MaxPolls` is the code's 200 polls made small;
how many there are makes no difference beyond none, one, and more than one.
The refinement mapping to `AbstractStream` takes the deltas in front of the sentinel for
those that wait and reads the state of the stream off `tracked`, the inner task's
location and whether the sentinel is in the buffer or was read (`Progress`). The sentinel
itself is not a thing of the abstract stream: that it is behind the last delta is what
lets the reader be told of the end only when nothing waits. `Cut` is the cancellation
that reaches the put of the sentinel; which task sends it, the abstract stream cannot say.

### RouteHealth, RouteScore and ChatRouting

`outcomes[r]` is the deque of a route, `cooling` the routes whose cooldown deadline
lies ahead; time is abstracted, so a cooldown may end at any moment after it
began. `Record(r, oks)` is `record()` once for each outcome that one step of a
handler reports. `ChatRouting` has the handler's locals (`state`, `attempted`), the
weight files on disk and the models loaded. `Arrive` is a request up to its first
wait, `AttemptFails`, `AttemptServes` and `AttemptUncounted` what the handler does
when the job it awaits is done. `RouteScore` computes the score of a route exactly,
over a common denominator, where the code computes it in floating point; two routes
whose scores differ by a rounding error may therefore change places in the program.
Hints are clamped as the code clamps them, the budget is not: `Divides` is the budget
of zero that ends a request with a 500, and under a negative budget `LatencyValue`
grows with the latency, as it does in the code. Fallbacks follow quality, then
registration, and know no hints. `AttemptUncounted` is the path on which
`_build_response` raises because the model that counts the tokens (that of the
route asked for, not of the one that served) cannot be loaded: success and failure
of the same attempt are both reported and the request is generated again.

### RateLimiter, Metrics and Gateway

`stamps[k]` holds, for each timestamp in the list of key `k`, the request that left it,
and `at[q]` when that was; `now` is `time.monotonic()`, which steps on between any two
requests. The key is the authorization header as it came, as in the code. `Active` is
the list comprehension that drops what fell out of the window. `Metrics` keeps the
lengths of the lists of samples and the counters; the values are left out but for
`Percentile`, which is `_percentile()` over integers, in hundredths. `Gateway` has where
each request is (`phase`), the code of its response and the deltas its stream delivered.
`Receive` has the body that is no JSON, which FastAPI refuses before it calls any
dependency: neither key nor limit is asked. `Admit` is what follows `require_api_key`
without suspension: the limiter, the check of the body against its schema, and the
start of the handler. `Observe` and `Clock` are the two times the middleware takes the lock;
no task of the event loop runs between them (`LoopFree`), but the thread that serves
`/metrics` may, so the state between them is a state of its own. Which codes a handler
comes to is a choice; `ChatRouting` says which when.

### LazyModel and Generation

To `Scheduler` a generation is a thread that returns, raises or hangs; here are its
turns. `llm` is the engine's lazily constructed model, `loads` how many were
constructed, `at[c]` where the thread `c` is between the test of `_llm` and the read
that returns it: four steps of bytecode, with other threads in between, because
nothing is locked. The callers are the generating threads and the event loop, which
counts tokens on the same engine. `Ask` is the head of the loop over
`MAX_TOOL_TURNS`; `AnswerText`, `AnswerRaises` and `AnswerCalls` what the model may
answer; `RunTool` and `ToolRaises` one call of the answer. A call is good when its
name is known and its handler takes the arguments. `messages` is what the thread
appended to the job's messages, `asked` (history) every call the model made.
`MaxCalls` is the model's bound.

### Decoding and ScratchEngine

`BPE` takes a symbol for the sequence of bytes it stands for: joining symbols is
joining sequences, and a symbol of the vocabulary is its own id. `KVCache` has the rows
of a layer in an array of a capacity, with `Garbage` where `np.empty` wrote nothing.
`ScratchEngine` encodes a prompt piece by piece (`plan`, `word`, `ids`); `Decoding` runs
the prefill and then one token at a time, layer by layer (`x`, `layer`, `offset`). A
hidden state is the term of what it was computed from: the state before the layer and
the rows it attended to. Equal terms mean equal numbers, so a property about terms
holds for every set of weights. `Sample` picks any token. The table of merges must be
one that training produces (`MergesAssumption`): each merge joins what bytes and
earlier merges made, and no two make the same symbol. What goes through a sequence in
the code is a recursive function here (`Scan`, `Without`, `Pieces`), so that it can be
reasoned about. The decode loop forwards the
last token of its budget too, whose logits nobody reads; the model keeps that.

## 3. The runs

Twelve runs, each for one question. Those marked *violation* check one statement of the
documentation or of a docstring which the code does not keep (section 5).

| Run | Module, configuration | Question | Answer |
|---|---|---|---|
| `queue_safety` | `MCPriorityQueue`, `.cfg` | Does the heap with tombstones and one shared condition behave as a bounded priority queue, whatever is cancelled, woken or stopped? | `QueueInv`, `CapacityRespected`, `WorkConserving`, `ImplementsQueue` hold |
| `queue_blocked` | `MCPriorityQueueBlocked.cfg` | Does a submitter suspended in `put()` come back? | *violation* of `PutReturns` |
| `scheduler_safety` | `MCSchedulerSafety.cfg` | Do records, queue, workers and `in_flight` agree, is what a waiter reads final, and does each job run at most once, through blocking submits, timeouts, hung threads, cancels and a `stop()`? | `RecordsAgree`, `InFlightExact`, `DoneMeansSettled`, `DoneIsFinal`, `ImplementsJobs` hold |
| `scheduler_settles` | `MCSchedulerLive.cfg` | Without `stop()`, is admitted work bounded and does every job settle though a hung generation keeps the only thread? | `AdmissionBound`, `JobsSettle` hold |
| `stop_hangs` | `MCSchedulerStopHangs.cfg` | Does `stop()` return? | *violation* of `StopReturns` |
| `stream` | `StreamDelivery`, `MCStream.cfg` | Are deltas in order and at most once, lost only to an overflow, is the sentinel single and last, whoever ends the stream, does the reader see the abstract stream, and are reader and worker released? | `SentinelOnceAndLast`, `DeltasIntact`, `NothingLeftToClose`, `ImplementsStream`, `ReaderReleased`, `WorkerFreed` hold |
| `stream_missed` | `MCStreamMissed.cfg` | Does the reader see the stream of its job? | *violation* of `NothingMissed` |
| `routing` | `MCChatRouting`, `MCRouting.cfg` | Are retries bounded and distinct, does a request give up only for cause, does the choice follow the hints, and what does a cooldown cover? | `CooldownMeansFailing`, `RetriesBounded`, `GivesUpForCause`, `HintsSteer` hold |
| `cooldown_for_good` | `MCCooldown.cfg` | Is a route used again when its cooldown has run out? | *violation* of `CooldownWakes` |
| `gateway` | `MCGateway`, `.cfg` | Does the limit hold in every window, is a request refused for that only, and does every snapshot of the metrics add up? | `WindowBound`, `RefusedForCause`, `SummaryCoherent` hold |
| `generation` | `MCGeneration`, `.cfg` | What can threads that race for an unloaded engine do to it, and is every tool call run once, in order and within the turn budget? | `LoadsBounded`, `InUseLoaded`, `ModelSettles`, `TurnBudget`, `CallsAnswered` hold |
| `scratch_engine` | `MCScratchEngine`, `.cfg` | Does encoding keep every byte and merge by rank, does the cache change any result, and when does a call fail? | `BytesKept`, `MergedByRank`, `CacheTransparent`, `FailsAtContext` hold |

Every property of a passing run has a mutant: an operator, next to the definition
it replaces, that makes the mistake a careless edit of the code would make. TLC
finds the property violated when the mutant takes the definition's place.

### Bounds

- **Queue.** Four jobs, one of them urgent, so that priority and arrival order both
  decide; a queue of two places, so that two jobs can be ordered in it while two
  submitters are blocked; two workers, so that a wake-up can go to the wrong one.
  `queue_blocked` needs one place only.
- **Scheduler.** Three jobs and two workers. `scheduler_safety` takes `MaxInFlight = 3`
  over a queue of one place (admission lets submitters block) and one `stop()`.
  `scheduler_settles` takes `MaxSize = MaxInFlight = 2`, no `stop()`, and an executor of
  one thread for two workers: a generation that hangs takes it for good, and the other
  jobs end by their timeout. The proofs of
  section 4 make the safety part independent of these sizes.
- **Streams.** Five deltas over two places: the buffer overflows in some behaviours
  and not in others, and between two drops there is room again. Three polls: the
  reader can be too early, in time, or give up.
- **Routing.** A local route, a quantized sibling and an endpoint with the attributes
  that `registry.py` and `config.py` give them; two concurrent requests, one that asks
  for the sibling and one that leaves the choice open, so that the reports of each meet
  the other's choice; a window of three, the smallest in which a failure need not make
  a route fail; one fallback of two possible, so that the limit and the exhaustion of
  routes both end requests. Nine headers: each route wins under one, hints lie outside
  their range, the budget is absent, met, zero or negative.
- **Gateway.** Five requests, one of each kind; three share a key with a limit of two,
  so that one is refused unless time passes. A window of one unit in a time of two:
  grants fall out of the window, and a grant at each end of it is counted. Two deltas
  tell the first from the others.
- **Generation.** Two jobs and the event loop over one engine: three threads are enough
  for a model to be replaced while another thread reads it. Two turns, so that the
  budget ends some jobs and not others; two structured calls in one answer, so that one
  can run and the next raise.
- **Scratch engine.** Every text of up to four symbols over two bytes and a special
  token; six merges whose pairs overlap, nest and compete. `Grain = 2` in place of
  64, so that the prefill and the decoding each make an array grow; nine positions and
  four new tokens, so that some calls end at the table's end, some by the budget,
  some with `<|im_end|>`, and some prompts fit as they are. Two layers, since what the
  second one reads was computed by the first.

### Fairness

Safety runs assume none. Elsewhere:

- Tasks that can run do: the event loop is FIFO over ready callbacks, so weak
  fairness of each task's next step is what it provides. Timers fire.
- An executor with a free thread takes a work item (`ThreadBegin`). **No generation
  is ever promised to end**; `JobsSettle` rests on the timeout alone.
- The application calls `start()` once at boot (`lifespan` of `main.py`) and awaits
  the `stop()` it calls. Nobody is promised to call `stop()` or `cancel()`, and no
  client to disconnect or to stay.
- A stream's worker is not promised to pick its job, nor a thread to yield a
  delta.
- Nothing is promised of the clock, or of the clients, in `gateway`.

Deadlock is not checked where the system may rightly stop (all jobs of the instance
submitted and settled, stream over, all requests answered). It is checked in
`queue_safety`, where workers can always release or abort.

## 4. The proofs

All theorems hold for every finite set of jobs and workers and every value of the
other constants, from the assumptions named in the modules (`QueueAssumption`,
`SchedulerAssumption`: finite sets, natural bounds, integer priorities;
`HealthAssumption`, `RoutingAssumption`: a window of at least one outcome, the
default route among the routes; `ScoreAssumption`: attributes are numbers, latencies
positive, places of registration distinct; `StreamAssumption`: a buffer of at least one
place; `LimiterAssumption`, `GatewayAssumption`: finitely many requests, natural limits;
`LoadAssumption`, `GenerationAssumption`: a finite set of threads, the jobs among them,
at least one turn; `GrainAssumption`, `DecodingAssumption`: at least one layer and two
positions; `MergesAssumption`, `ScratchAssumption`: a table that training can produce,
special tokens that are no bytes, prompts of at least one text, the opener).

**`PriorityQueueProofs`.** `TypeCorrect` is inductive on its own. `QueueInvariant`
comes from `Shape`: a tombstone is always for an item of the heap, no task waits
twice or in two places, no queued job's submitter still waits, and whatever is
queued or blocked has arrived. The last two are not asked for by callers but are
needed: without them a notified submitter could push an item a second time, and a
tombstone could name an item already gone. `QSizeIsLive` derives the exactness of
`qsize()` from the inclusion. `CapacityTheorem` uses that every push re-tests `full()`
in the step that pushes. `WorkConservingTheorem` is about notification: a step that
adds a live item notifies the head of the wait set, which, if no submitter waits
there, is a worker; a step that takes the notified worker away takes an item or
passes on. `ImplementsAbstractQueue` maps each action to its abstract one or to a
stutter; a `get()` that pops tombstones only, and a notification, are stutters.

**`SchedulerProofs`.** `SchedulerUsesQueue` shows that every step of the scheduler is a
step of the queue or leaves it alone, so the queue's theorems hold inside it
(`QueueInScheduler`). The rest talks about the queue through three views: live jobs,
blocked submitters, sleeping workers (section 1 of the module). The inductive
invariant is `Queue /\ Inv`, with `Inv == Types /\ Posts /\ Records`:

- `Posts`: a worker holds a job exactly while its location says that it runs one,
  sleeps in the queue exactly while it is in `get()`, and is gone when the scheduler
  is off;
- `Records`: the live map is what the queue, its blocked submitters and the workers
  hold, with the status that goes with each, one worker per job; and no job held by
  a worker is still in the heap, tombstoned or not, without which `cancel()` of a
  tombstoned item might end a running job.

`RecordsTheorem` follows. `Count` adds `in_flight = |Busy|` (`InFlightTheorem`);
`Outcomes` adds what result goes with what status and location, for `SettledTheorem`
and the action property `FinalTheorem`: a late thread can change neither, because the
only step that writes a result needs the worker to be waiting for it. `Calm` is the
state before the first `stop()`: no cancellation exists, so no worker dies with a
job in hand (`NoJobLostTheorem`). `Admitted` says that nobody is blocked and that
queued plus running jobs stay within the limit, from which `AdmissionTheorem` derives
the admission bound **assuming `MaxSize = 0` or `MaxInFlight <= MaxSize`**, as in the default configuration (4 and
1000): without it the bound is false (section 5). `SchedulerTypes` is last because the
type of `inFlight` (a natural number after a decrement) needs `Count`.
`ImplementsAbstractJobs` then maps each action to its abstract one or to a stutter, from
`Queue`, `Inv`, `Outcomes` and `Calm` together: `RoomToBegin` counts the held jobs against
the workers (one that has none leaves a slot free), `SlotAfterGet` is the hand-over of
a slot, `AnswerGiven` uses `Final` for the answers given before, and only `Calm` says
that a job which disappears without an answer does so after a `stop()`.

**`StreamProofs`.** `Shape` says where worker, inner task and cancellations stand to each
other (`TasksAgree`), that a stream is on the bus only while its task runs, or if it
failed before its first delta (`TrackedMeans`), and that the sentinel is last and put when the bus has let go
(`SentinelLast`). None of the three is inductive without the others: that nobody puts a
second sentinel rests on the worker being past its wait whenever another task closes.
`IntactTheorem` adds `Intact`, which compares what the reader was given and what waits
for it with the number of deltas collected; a delta is dropped only when the two have
grown beyond the buffer (`DeltaGiven`), reading moves one from the second to the first
(`Moved`), and the sentinel is in neither. It needs no induction over the sequence: the
step changes one end of it. `ImplementsAbstractStream` needs `Shape` alone. `EndIsLeftOut`
says of any buffer that the sentinel is in it exactly when not all of it are deltas, so
reading a delta does not move the stream from closed to cut (`ReadTakes`); `CloseIsClose`
is the abstract `Close`, with and without room, for the three ways the inner task ends;
the close of the worker's except clauses is the other step that maps to it, and is one
only because `TrackedMeans` leaves it an empty buffer. What is left of cancellations, timeouts and
shutdown are stutters.

**`ChatRoutingProofs`.** The window comes first. A failure that is appended may push an
older outcome out, and the error rate of what is left must not fall below the
threshold: `FailureReplaces` maps each failure the deque held to one it holds now,
injectively, with the new failure in the place of the one that left, and
`StillFailing` concludes that a failing route which fails again is still failing.
With it `RecordStep` shows that one report, of one or of two outcomes, leaves a
cooldown only on a failing route. The inductive invariant is `TypeOK`,
`CooldownMeansFailing` and `Progress`: a waiting request has tried something and its
attempts are distinct and bounded. The bound alone is not inductive: that the next
attempt is on a new route rests on `Fallbacks` leaving out what was attempted, that
it is within the limit on the test made in the same step. `RetriesTheorem`
and `CooldownTheorem` follow at once, and with the latter `HealthyIsErrorRate`: of the
two conditions of `healthy()` the cooldown is redundant. `GivesUpTheorem` and
`SleepersTheorem` are about actions; both use that a health report changes only
the route of the attempt that ended. The latter is no promise of the code but the extent
of a finding (`cooldown_for_good`). `SteerTheorem` is about arithmetic: of two routes
that each win at their own weight of an axis, the one that wins at the larger weight has
no less of it (`HeavierWins`), whatever the rest of the score is. It holds for any set of
usable routes and any hints, so `HintsSteer` is an invariant whatever the health of
the routes does.

**`GatewayProofs`.** `WindowBound` is not inductive: the limiter compares the length of a
pruned list, and the property speaks of all grants there ever were. `StampsComplete`
closes the gap: a grant that a window ending now or later can hold is still in the list.
With it `AllowStep` shows that each window that holds the new grant holds, of the older
ones, only what was counted. `GatewayUsesLimiter` carries this over to the application,
and `CauseTheorem` follows from the same invariant. `SummaryTheorem` is split into what
ends are counted (`EndsCounted`), deltas and usages; each step changes one of the three
and moves one request into, out of or between the sets counted (`OneMore`, `OneLess`).
`PercentilesOrdered` states of `Percentile`, for sorted samples, that it stays between
the extremes and does not fall as `q` rises.

**`GenerationProofs`.** `LazyModel` has a specification of its own, and
`GenerationLoads` shows that a generation only ever does to its engine what that
allows, so the race is analysed without turns and tools. The bound of
`LoadsTheorem` is not inductive; `LoadCount` is: as long as `_llm` is unset, the models
constructed are exactly those some thread is about to assign, and from the first
assignment on nobody starts to build, so that models and builders together are no
more than the threads. `InUseTheorem` needs `Served` (a thread that is about to read
finds something), `SettlesTheorem` that a thread which tests a loaded engine does not
build. `AnsweredTheorem` rests on `Pending` (calls are left exactly while some are
being run) and on `ConversationGrows`, which says what one exchange does to a
conversation of `2n` messages.

**`DecodingProofs`.** The reference is a recursive function over layers. The library's
induction theorems take an operator as a parameter, which the provers cannot
instantiate, so `ReferenceExists` goes by a least layer for which the recursion has no
solution (`NatMin`, from the well-foundedness of `<`), and so does `ReferenceCausal`: no
layer looks ahead, so a longer text has the same states at the same positions. Section 2
shows that `append()` keeps the rows there are and puts the new ones behind them, for
every capacity and whatever `np.empty` leaves (`AppendKeeps`). The invariant `DInv` says
that at any time in a pass the layers already passed hold the rows of the whole text, the
others those of the text before it (`DPass`). `CacheTheorem` and `ContextTheorem` are about
`DecodeSpec(input)`, one call of `generate()` with any non-empty input.

**`ScratchEngineProofs`.** Induction over the length of a sequence is `UpTo`, for the set
of the numbers a fact holds for; `Iterates` gives every recursive function its values,
from the steps it makes, so that `FlattenSeq`, `Without`, `Scan`, `Pieces` and `Passes` can be
unfolded (`FlatIs`, `KeptIs`, `ScanIs`, `CutsAre`, `PassesIs`). The bytes are easy to follow
then: a scan keeps them (`ScanKeeps`), so does the cut of a text (`CutsKeep`), and the plan
has those of the texts (`PlanIs`). The order of merges is the hard part. `MergedByRank`
says nothing of a word that can still be merged; `InRank` does: the word is what the
passes up to some rank `k` make of its bytes, and all merges still possible have ranks
above `k`. It is kept because a scan for the best rank `r` leaves no pair of rank `r` or
below: a pair in its output was one before, or has the new symbol for a part
(`ScanPairs`), and only later merges have it (`JoinedFacts`, where `MergesAssumption`
is needed: with a table that makes one symbol in two ways `MergedByRank` is false). Between `k`
and `r` the passes change nothing (`PassesIdle`). The invariant `SInv` is `Encoding`,
which has the bytes and `InRank`, or `Generating`, which has the prompt's ids as they were
and `DInv` of `DecodingProofs`; `PrefillStarts` joins the two. With it `CacheTransparent`
and `FailsAtContext` hold of whole completions (`ScratchCache`, `ScratchContext`).

**Only model-checked:** the liveness properties (`JobsSettle`, `ReaderReleased`,
`WorkerFreed`), which the prover cannot reach under fairness; and the violations.
**Only proved:** `NoJobLost`, which `ImplementsJobs` and `RecordsAgree` leave no room to
break in `scheduler_safety`, and the types of the queue alone (`TypeCorrect`), which that
run checks as a part of `SchedulerTypeOK`.

## 5. Findings

Each is a run TLC refutes; the trace is the shortest or close to it.

- `queue_blocked` (`queue.py:69`). A worker sleeps ahead of a blocked submitter in
  the one wait set. The `notify()` of a `get()` wakes that worker, which finds nothing
  and sleeps again; the submitter is never woken though the queue is empty.
  It needs `MAX_QUEUE_SIZE` below the number of concurrent submitters.
- `stop_hangs` (`scheduler.py:116`). The cancellation of a worker whose job has just
  ended is swallowed by `wait_for`; the worker goes back to `get()`, and `gather()` in
  `stop()` waits for it for ever. It takes a grace window that runs out in the same
  pass of the event loop in which a job ends.
- `stream_missed` (`scheduler.py:208`). A job that starts and ends between two polls
  leaves nothing on the bus: its reader gets no delta at all.
- `cooldown_for_good` (`health.py:61`). "`error_rate >= 0.5` puts it to sleep for 30s"
  (`docs/notes/router.md:77`), but `healthy()` also tests the error rate, which only
  attempts can change: a route that cooled down stays out. `SleepersTheorem` proves
  for how long: for good, unless a request waits for the route already. One failure is
  enough when it is the first outcome of the route.

Further statements of the documentation and of comments are in the modules, and TLC refutes
each when it takes the place of the properties of the configuration named:

- `FailureReported`, `MCStream.cfg` (`chat.py:317`). "Backend failure on the primary route
  → `report_outcome(id, ok=False)`" (`docs/notes/router.md:74`), but final status and archive
  are one step, so the generator's look-up finds either a record that is not final or
  none. No streaming job is ever reported.
- `ReaderTold`, `MCStream.cfg` (`events.py:49`). "SSE subscriber gets `[DONE]` instead of
  hanging forever" (`docs/notes/failure-modes.md:13`), but `close()` takes the queue off the
  bus and then waits to put the sentinel: a timeout in that wait loses it.
  `ReaderReleased` holds of all other streams.
- `WorkerComesBack`, `MCStream.cfg` (`scheduler.py:308`). "The worker is freed the moment the
  timeout fires" (`docs/notes/failure-modes.md:36`), but `wait_for` awaits the task it
  cancelled, whose `finally` waits for room in a full buffer that nobody reads any more.
  `WorkerFreed` holds of all other streams.
- `AdmissionBound`, `MCSchedulerLive.cfg` with `MaxSize = 1` (`scheduler.py:158`). "reject
  submits beyond this" (`config.py:15`), but a submitter that blocks in `put()` is counted
  neither by `in_flight` nor by `qsize()` and is not tested again. With a queue no
  smaller than `MaxInFlight` `AdmissionTheorem` proves the limit.
- `ArchivedAreDone`, `MCSchedulerSafety.cfg` (`scheduler.py:251`). A job that `stop()` cancels
  is archived by the `finally` of `_run` with the status `running`; its `done` is never set,
  and a caller that awaits it hangs, though `archive()` is for "a finished job" (`store.py:62`).
- `ProviderIsEnough`, `MCRouting.cfg` (`registry.py:94`). The provider route is built with the
  availability check of the local model, so "or configure a provider endpoint"
  (`chat.py:85`) does not help a server without the model's file.
- `LoadedOnce`, `MCGeneration.cfg` (`llm.py:48`). "so the same file is never loaded twice"
  (`llm.py:215`): two threads that find an engine unloaded both load it. `LoadsBounded`,
  `InUseLoaded` and `ModelSettles` say what remains true.
- `GoodCallsRun`, `MCGeneration.cfg` (`engines.py:247`). "the exact same
  scheduler/tooling/health machinery as a local GGUF" (`docs/explainer.md:384`): the
  provider engine passes structured calls on as dictionaries, and `run_tool` fails on
  every one of them.
- `SpecialsKept`, `MCScratchEngine.cfg` (`bpe.py:141`). "Special / added tokens are matched
  verbatim during encoding" (`bpe.py:75`): the split drops them. `BytesKept` says what is kept.

Met while modelling, and no property of a run: the documentation calls the limit a
fixed window (`rate_limit.py:1`, `docs/explainer.md:86`), the code slides it, which is
the stronger promise (`WindowBound`). `latency_ms` and its siblings hold seconds
(`metrics.py:141`). The latency of a stream is the time to its response, not to its end
(`main.py:65`). "reject slower than this" (`router/models.py:62`) has no code. The table
of qualities has a `q6_k` that the pattern for file names never finds
(`registry.py:49`, `81`). `generate_chat_text` decodes the ids of the prompt along with
those of the reply (`loader.py:135`).

## 6. What is not modelled

- `put_nowait`, which nothing calls; the bounded history and `list()` of the store,
  which nothing reads back; `health()` and other rendering.
- The model registry. To `Scheduler` a generation is a thread that returns, raises or
  hangs; its turns are a module of their own, `Generation`, and the two meet only in
  the outcome of the thread.
- `BPE`'s byte-to-printable table and Unicode normalisation; `SPLIT_RE`, which no
  code of the repository uses. What llama.cpp does when threads share one of its
  contexts.
- More than one streaming job at once: the bus keeps one queue per job, and jobs
  share only workers, whose allocation is `Scheduler`.
- Clocks, but for the rate limiter's: a timeout or the end of a cooldown may happen at any time after it is due
  to be possible. Properties that hold so hold for every duration.
- The contents of `/v1/models`, `/v1/routes` and embeddings, schemas (an invalid body is
  an early answer of `Gateway`), unknown paths and the landing page: rendering.
- `load_weights` and the numerics of the transformer: pure, and out of TLC's reach.
- The benchmark scripts (`run.py`, `sweep.py`): clients of the service, not part of it.
- The values of the samples in the metrics; `reset()`, which only tests call.
- llama.cpp, asyncio and the executor are external; `Notify`, `Wait`, `DropCall`,
  `ThreadBegin` and the swallowed cancellation model them as the code relies on them.

## 7. Plan

Built, in this order: `AbstractQueue`, `PriorityQueue` and its proofs; `Scheduler` and
its proofs, `AbstractJobs` over it; `StreamDelivery`, `AbstractStream` over it; `RouteHealth`, `ChatRouting` and their proofs; `LazyModel`,
`Generation` and their proofs; `BPE`, `KVCache`, `ScratchEngine`; `StreamProofs`;
`RateLimiter`, `Metrics`, `Gateway` and their proofs; `RouteScore` with the choice by
hints; `Decoding` and its proofs; `ScratchEngineProofs`. The order follows what everything else stands on.

What would come next:

1. Several streaming jobs over the workers of `Scheduler`: one bus, jobs that wait for
   each other's workers, `close_all` over all of them.
2. The retries of `ChatRouting` over the admission of `Scheduler`: today a refusal is a
   choice of the environment.

## 8. How to run

    tlc -workers 2 -config MCSchedulerSafety.cfg MCScheduler.tla
    tlapm SchedulerProofs.tla

`PROJECT.json` lists the runs with their modules and properties, the mutants, the
source lines each definition models, the hazards and the theorems. The longest run,
`gateway`, takes about two minutes with two workers; the others take seconds to a minute.
