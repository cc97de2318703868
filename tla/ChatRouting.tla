------------------------------ MODULE ChatRouting ------------------------------
(***************************************************************************)
(* routers/chat.py with router/engine.py and registry.py: how a            *)
(* non-streaming request picks a route, how a failed attempt is reported   *)
(* and retried, and how the request ends; over the health of RouteHealth.  *)
(* (Streaming requests report nothing: FailureReported of StreamDelivery.) *)
(*                                                                         *)
(* A request handler suspends only where it awaits the job it submitted,   *)
(* so an action is all it does from one such wait to the next.  What the   *)
(* job's worker and its thread do meanwhile (Scheduler) shows here as the  *)
(* outcome of the attempt and as model files loaded on first use.  Eligible *)
(* routes are ranked by RouteScore.  Nothing disables a route.             *)
(***************************************************************************)
EXTENDS RouteScore

CONSTANTS
  Requests,
  Wanted,        \* Wanted[q]: the model field of q; it may name no route
  Default,       \* the route of settings.model_path
  Providers,     \* routes to a configured endpoint
  MaxFallbacks   \* settings.router_max_fallbacks

ASSUME RoutingAssumption ==
  /\ Default \in Routes
  /\ Providers \subseteq Routes \ {Default}
  /\ MaxFallbacks \in Nat

VARIABLES
  state,      \* state[q]: where the request is, or how it ended
  attempted,  \* attempted[q]: the routes tried, in order
  files,      \* local routes whose weight file is on disk
  loaded      \* local routes whose model has been loaded

vars == <<healthVars, state, attempted, files, loaded>>

Local == Routes \ Providers

\* "new"          not arrived
\* "waiting"      awaits the job of its last attempt
\* "answered"     200
\* "unavailable"  refused before routing: ModelUnavailableError
\* "notfound"     404, no eligible route
\* "rejected"     503, the scheduler did not admit an attempt
\* "failed"       ModelUnavailableError, all attempts failed
\* "error"        500, the hints raised
Ended == {"answered", "unavailable", "notfound", "rejected", "failed", "error"}

\* build_routes() found every file at boot; the default route alone is
\* registered without one.
Init ==
  /\ HealthInit
  /\ state = [q \in Requests |-> "new"]
  /\ attempted = [q \in Requests |-> <<>>]
  /\ files \in {Local, Local \ {Default}}
  /\ loaded = {}

Attempts(q) == ToSet(attempted[q])

Current(q) == Last(attempted[q])

Waiting == {q \in Requests : state[q] = "waiting"}

\* Route.available().  The provider route is built with the same check as the
\* default route: the model's file.
Available(r) == IF r \in Providers THEN Default \in files ELSE r \in files

Usable(r) == Available(r) /\ Healthy(r)

--------------------------------------------------------------------------------
(* Requests.                                                               *)

UsableRoutes == {r \in Routes : Usable(r)}

\* route(): the route asked for if it is usable, else the best that is.
Candidates(q, hints) ==
  IF Wanted[q] \in UsableRoutes THEN {Wanted[q]} ELSE Best(UsableRoutes, hints)

\* _score() raises: a route is there to score.
Undivided(q, hints) ==
  /\ Divides(hints)
  /\ UsableRoutes # {} /\ Wanted[q] \notin UsableRoutes

\* _submit_job(): the handler goes on to wait, unless the job is not admitted.
Try(q, r) ==
  /\ attempted' = [attempted EXCEPT ![q] = Append(@, r)]
  /\ \E end \in {"waiting", "rejected"} : state' = [state EXCEPT ![q] = end]

Turned(q, end) == state' = [state EXCEPT ![q] = end] /\ UNCHANGED attempted

\* The request is routed by its hints.
Route(q, hints) ==
  \/ Undivided(q, hints) /\ Turned(q, "error")
  \/ UsableRoutes = {} /\ Turned(q, "notfound")
  \/ /\ ~Undivided(q, hints)
     /\ \E r \in Candidates(q, hints) : Try(q, r)

\* create_chat_completion() up to the first wait.  A hint may be no number.
Arrive(q) ==
  /\ state[q] = "new"
  /\ IF ~Available(Default) /\ \A p \in Providers : ~Available(p)
     THEN Turned(q, "unavailable")
     ELSE \/ Turned(q, "error")
          \/ \E header \in Headers : Route(q, Hinted(header))
  /\ UNCHANGED <<healthVars, files, loaded>>

\* The routes _next_fallback() may take, after what was recorded.
Fallbacks(q) == {r \in Routes \ Attempts(q) : Usable(r)'}

\* Mutant of MayRetry: one fallback too many.
MayRetryOnceMore(q) == Len(attempted[q]) - 1 <= MaxFallbacks /\ Fallbacks(q) # {}

\* Mutant of MayRetry: one fallback too few.
MayRetryOnceLess(q) == Len(attempted[q]) < MaxFallbacks /\ Fallbacks(q) # {}

\* fallbacks_used < router_max_fallbacks, and there is a route to turn to.
MayRetry(q) == Len(attempted[q]) - 1 < MaxFallbacks /\ Fallbacks(q) # {}

\* except ModelUnavailableError, after report_outcome(ok=False): submit the
\* request again on the best fallback, or give up.
Retry(q) ==
  \/ /\ MayRetry(q)
     /\ \E r \in Fallbacks(q) :
          /\ \A s \in Fallbacks(q) : Precedes(Quality[r], r, Quality[s], s)
          /\ Try(q, r)
  \/ /\ ~MayRetry(q)
     /\ state' = [state EXCEPT ![q] = "failed"]
     /\ UNCHANGED attempted

\* The job's result is an error: its generation raised or timed out.  (So is a
\* generated text that starts with "error:".)
AttemptFails(q) ==
  /\ state[q] = "waiting"
  /\ UNCHANGED <<files, loaded>>
  /\ Record(Current(q), <<FALSE>>)
  /\ Retry(q)

\* A text was generated; a local model has been loaded for it.
Generated(q) ==
  /\ state[q] = "waiting"
  /\ Current(q) \in Providers \cup loaded

\* _scheduler_model_for(request.model): the model that counts the tokens is
\* that of the route asked for, not of the route that served.
Counter(q) == IF Wanted[q] \in Routes THEN Wanted[q] ELSE Default

\* _build_response() can count: loading the counter, if need be.
CanCount(q) == Counter(q) \in Providers \cup loaded \cup files

AttemptServes(q) ==
  /\ Generated(q)
  /\ CanCount(q)
  /\ Record(Current(q), <<TRUE>>)
  /\ state' = [state EXCEPT ![q] = "answered"]
  /\ loaded' = loaded \cup ({Counter(q)} \cap Local)
  /\ UNCHANGED <<attempted, files>>

\* The counter cannot be loaded: _build_response() raises after the success
\* was reported, and the attempt is reported again, as failed, and retried.
AttemptUncounted(q) ==
  /\ Generated(q)
  /\ ~CanCount(q)
  /\ UNCHANGED <<files, loaded>>
  /\ Record(Current(q), <<TRUE, FALSE>>)
  /\ Retry(q)

--------------------------------------------------------------------------------
(* The environment of the handlers.                                        *)

\* A job's thread loads its model.
Load(r) ==
  /\ r \in files \ loaded
  /\ \E q \in Waiting : Current(q) = r
  /\ loaded' = loaded \cup {r}
  /\ UNCHANGED <<healthVars, state, attempted, files>>

CooldownEnds(r) ==
  /\ Expire(r)
  /\ UNCHANGED <<state, attempted, files, loaded>>

\* The operator downloads or deletes a weight file.
FileChanges(r) ==
  /\ r \in Local
  /\ files' = IF r \in files THEN files \ {r} ELSE files \cup {r}
  /\ UNCHANGED <<healthVars, state, attempted, loaded>>

Next ==
  \/ \E q \in Requests :
       Arrive(q) \/ AttemptFails(q) \/ AttemptServes(q) \/ AttemptUncounted(q)
  \/ \E r \in Routes : Load(r) \/ CooldownEnds(r) \/ FileChanges(r)

Spec == Init /\ [][Next]_vars

--------------------------------------------------------------------------------
(* Properties.                                                             *)

TypeOK ==
  /\ HealthTypeOK
  /\ state \in [Requests -> {"new", "waiting"} \cup Ended]
  /\ attempted \in [Requests -> Seq(Routes)]
  /\ files \subseteq Local
  /\ loaded \subseteq Local

\* "Retries are bounded by settings.router_max_fallbacks so a run of failures
\* can't spin the whole route set", and none goes to a route that failed this
\* request already, although the health of the routes changes meanwhile.
RetriesBounded ==
  \A q \in Requests :
    /\ Len(attempted[q]) <= 1 + MaxFallbacks
    /\ IsInjective(attempted[q])

\* A request gives up on a failed attempt only when its fallbacks are used up
\* or every route it has not tried is without its file or failing too much.
GivesUpForCause ==
  [][\A q \in Waiting : state'[q] = "failed" =>
       \/ Len(attempted[q]) = 1 + MaxFallbacks
       \/ \A r \in Routes \ Attempts(q) :
            ~Available(r) \/ Failing(outcomes'[r])]_vars

\* Raised(one, two, what): the headers agree but for the hint named, which two raises.
Raised(one, two, what) ==
  one[what] < two[what] /\ two = [one EXCEPT ![what] = two[what]]

\* From U, a client that asks for more quality, all else equal, is not given less,
\* nor one that cares more about cost a dearer route.
Steers(U) ==
  \A one, two \in Headers :
    /\ Raised(one, two, "quality") =>
         \A r \in Best(U, Hinted(one)), s \in Best(U, Hinted(two)) :
           Quality[r] <= Quality[s]
    /\ Raised(one, two, "cost") =>
         \A r \in Best(U, Hinted(one)), s \in Best(U, Hinted(two)) :
           CostValue(r) <= CostValue(s)

Steered == [U \in SUBSET Routes |-> Steers(U)]

\* "The weights react to client hints so a quality-seeking client weighs quality
\* more, a cost-conscious one weighs cost more": whatever is usable, and whatever
\* the budget does to latencies, the choice follows the hints.
HintsSteer == Steered[UsableRoutes]

\* router.md: a route that fails repeatedly trips the cooldown, which "puts it to
\* sleep for 30s"; health.py: it is "disabled for a cooldown window".
\* When the time is up the route can be chosen again.  It cannot: healthy() tests
\* the error rate as well.
CooldownWakes == [][\A r \in Routes : CooldownEnds(r) => Healthy(r)']_vars

\* Route r fails too much and no request waits for it.
Unattended(r) == Failing(outcomes[r]) /\ \A q \in Waiting : Current(q) # r

\* How far the code is from CooldownWakes: not only the moment in which the
\* cooldown ends, but no later one finds an unattended route in use again, for
\* the record that keeps it out changes only by its being used.
SleepersStayAsleep ==
  [][\A r \in Routes : Unattended(r) => Unattended(r)' /\ outcomes'[r] = outcomes[r]]_vars

\* create_chat_completion() refuses with "Download the chat model (...) or
\* configure a provider endpoint": a configured endpoint is enough to serve.
ProviderIsEnough ==
  \A q \in Requests : state[q] = "unavailable" => Providers = {}
================================================================================
