-------------------------------- MODULE Gateway --------------------------------
(***************************************************************************)
(* The HTTP application: what happens to a request from the middleware of  *)
(* main.py to the end of its response, over the rate limiter and the       *)
(* metrics.  Requests under /v1 pass require_api_key, on a thread, and     *)
(* then the rate limit; /health, /metrics and / do not.  Of the handlers   *)
(* the model keeps where they suspend and which responses they come to:    *)
(* ChatRouting and StreamDelivery say how.                                 *)
(*                                                                         *)
(* An action is what the event loop does between two suspensions, but for  *)
(* the end of a request: the middleware takes the lock of the metrics      *)
(* twice, and a thread that reports them may come in between.              *)
(***************************************************************************)
EXTENDS RateLimiter, Metrics

CONSTANTS
  Kind,      \* Kind[q]: "chat", "stream", "embed", "list" or "open"
  Valid,     \* authorization headers that carry settings.api_key
  MaxDeltas  \* bound of the model: deltas a stream delivers at most

ASSUME GatewayAssumption ==
  /\ Kind \in [Requests -> {"chat", "stream", "embed", "list", "open"}]
  /\ Valid \subseteq Keys
  /\ MaxDeltas \in Nat

VARIABLES
  phase,   \* phase[q]: where the request is
  status,  \* status[q]: the code of its response, once there is one
  deltas   \* deltas[q]: deltas its stream has delivered

requestVars == <<phase, status, deltas>>
vars == <<limiterVars, metricsVars, requestVars>>

NoStatus == 0

\* "new"         not arrived
\* "auth"        its key is checked, on a thread
\* "waiting"     its handler waits for a job or a thread, or runs on one
\* "responding"  its response, or the exception, goes to the middleware
\* "counted"     between record_request() and record_latency()
\* "streaming"   the SSE generator runs
\* "done"
Phases == {"new", "auth", "waiting", "responding", "counted", "streaming", "done"}

Init ==
  /\ LimiterInit
  /\ MetricsInit
  /\ phase = [q \in Requests |-> "new"]
  /\ status = [q \in Requests |-> NoStatus]
  /\ deltas = [q \in Requests |-> 0]

\* No handler of the loop is in the middle of a step.
LoopFree == \A q \in Requests : phase[q] # "counted"

Move(q, to) == phase' = [phase EXCEPT ![q] = to] /\ UNCHANGED <<status, deltas>>

\* A response is made; 500 stands for an exception that no handler turns into one.
Respond(q, code) ==
  /\ phase' = [phase EXCEPT ![q] = "responding"]
  /\ status' = [status EXCEPT ![q] = code]
  /\ UNCHANGED deltas

--------------------------------------------------------------------------------
(* The way in.                                                             *)

\* The body is parsed before any dependency is called: one that is no JSON ends
\* the request here, with 422.
Receive(q) ==
  /\ LoopFree
  /\ phase[q] = "new"
  /\ \/ Kind[q] = "open" /\ Move(q, "waiting")
     \/ Kind[q] # "open" /\ Move(q, "auth")
     \/ Kind[q] \in {"chat", "stream", "embed"} /\ Respond(q, 422)
  /\ UNCHANGED <<limiterVars, metricsVars>>

\* How a request may end behind the dependencies and before its handler first
\* suspends: a body that does not fit the schema (422, which stands for no route,
\* 404, as well), no model or not admitted (503), or a hint that is no number (500).
Early(q) ==
  CASE Kind[q] \in {"chat", "stream"} -> {422, 500, 503}
    [] Kind[q] = "embed" -> {422, 503}
    [] OTHER -> {}

\* require_api_key() finds the key in the header.
Authorized(q) == Header[q] \in Valid

\* require_api_key() is back; the rate limit, which it comes before, and the
\* first part of the handler follow without suspension.
Admit(q) ==
  /\ LoopFree
  /\ phase[q] = "auth"
  /\ \/ ~Authorized(q) /\ Respond(q, 401) /\ UNCHANGED limiterVars
     \/ Authorized(q) /\ Refuse(q) /\ Respond(q, 429)
     \/ /\ Authorized(q) /\ Allow(q)
        /\ Move(q, "waiting") \/ \E code \in Early(q) : Respond(q, code)
  /\ UNCHANGED metricsVars

\* How it may end later.
Late(q) ==
  CASE Kind[q] \in {"chat", "embed"} -> {200, 500, 503}
    [] OTHER -> {200}

\* The handler returns or raises.  An answered chat records its tokens; a stream
\* returns as soon as its job is submitted.
Finish(q) ==
  /\ LoopFree
  /\ phase[q] = "waiting"
  /\ \E code \in Late(q) :
       /\ Respond(q, code)
       /\ IF Kind[q] = "chat" /\ code = 200 THEN RecordTokens ELSE UNCHANGED metricsVars
  /\ UNCHANGED limiterVars

--------------------------------------------------------------------------------
(* The way out: observe_requests().                                        *)

\* Mutant of Observe: what was raised goes on to record a latency.
ObserveRaised(q) ==
  /\ LoopFree
  /\ phase[q] = "responding"
  /\ RecordRequest(status[q])
  /\ Move(q, "counted")
  /\ UNCHANGED limiterVars

\* record_request(); an exception is raised again, without a latency.
Observe(q) ==
  /\ LoopFree
  /\ phase[q] = "responding"
  /\ RecordRequest(status[q])
  /\ Move(q, IF status[q] = 500 THEN "done" ELSE "counted")
  /\ UNCHANGED limiterVars

\* record_latency(), when the response starts: a stream goes on after it.
Clock(q) ==
  /\ phase[q] = "counted"
  /\ RecordLatency
  /\ Move(q, IF Kind[q] = "stream" /\ status[q] = 200 THEN "streaming" ELSE "done")
  /\ UNCHANGED limiterVars

\* The reader of the stream got a delta.
StreamDelta(q) ==
  /\ LoopFree
  /\ phase[q] = "streaming"
  /\ deltas[q] < MaxDeltas
  /\ IF deltas[q] = 0 THEN RecordTtft ELSE RecordInterToken
  /\ deltas' = [deltas EXCEPT ![q] = @ + 1]
  /\ UNCHANGED <<limiterVars, phase, status>>

\* The stream is over, or its client is gone.
StreamEnd(q) ==
  /\ LoopFree
  /\ phase[q] = "streaming"
  /\ Move(q, "done")
  /\ UNCHANGED <<limiterVars, metricsVars>>

TimePasses == Tick /\ UNCHANGED <<metricsVars, requestVars>>

Next ==
  \/ \E q \in Requests :
       \/ Receive(q) \/ Admit(q) \/ Finish(q)
       \/ Observe(q) \/ Clock(q) \/ StreamDelta(q) \/ StreamEnd(q)
  \/ TimePasses

Spec == Init /\ [][Next]_vars

--------------------------------------------------------------------------------
(* Properties.                                                             *)

Codes == {200, 401, 422, 429, 500, 503}

TypeOK ==
  /\ LimiterTypeOK
  /\ MetricsTypeOK
  /\ phase \in [Requests -> Phases]
  /\ status \in [Requests -> {NoStatus} \cup Codes]
  /\ deltas \in [Requests -> 0..MaxDeltas]

\* A request is turned away exactly when its key has used up its limit in the
\* window that ends now: refusals cost nothing, other keys do not matter, nor
\* do requests whose key was not valid.
RefusedForCause ==
  [][\A q \in Requests : phase[q] = "auth" /\ phase'[q] # "auth" /\ Authorized(q) =>
       LET lately == {p \in Grants(Header[q]) : at[p] >= now - WindowLen} IN
       /\ status'[q] = 429 <=> Cardinality(lately) = MaxRequests
       /\ Remaining(Header[q]) = MaxRequests - Cardinality(lately)]_vars

Ended == {q \in Requests : phase[q] \in {"counted", "streaming", "done"}}

\* Whenever a thread takes the snapshot, the summary adds up: each request that
\* ended is counted once, under the status it ended with, whichever way it ended;
\* each that got a response has its latency, but for the one that is between the
\* two locks; first deltas and later ones are told apart, over all streams.
SummaryCoherent ==
  /\ total = Cardinality(Ended)
  /\ \A c \in 1..5 : byStatus[c] = Cardinality({q \in Ended : status[q] \div 100 = c})
  /\ errors = byStatus[4] + byStatus[5]
  /\ LET raised == {q \in Ended : status[q] = 500}
         between == {q \in Ended : phase[q] = "counted"}
     IN  latencies = total - Cardinality(raised) - Cardinality(between)
         /\ Cardinality(between) <= 1
  /\ ttfts = Cardinality({q \in Requests : deltas[q] > 0})
  /\ interTokens = Cardinality({d \in Requests \X (2..MaxDeltas) : d[2] <= deltas[d[1]]})
  /\ usages = Cardinality({q \in Requests : Kind[q] = "chat" /\ status[q] = 200})
================================================================================
