------------------------------ MODULE RateLimiter ------------------------------
(***************************************************************************)
(* rate_limit.py: how many requests each key made lately.  The dependency  *)
(* and allow() run on the event loop without suspending.  Of a timestamp   *)
(* in the list of its key the model keeps the request that left it.        *)
(***************************************************************************)
EXTENDS Integers, FiniteSets

CONSTANTS
  Requests,
  Keys,
  Header,       \* Header[q]: the key of q, its authorization header
  MaxRequests,  \* settings.rate_limit_max_requests
  WindowLen,    \* settings.rate_limit_window_seconds
  MaxTime       \* bound of the model: how far the clock goes

ASSUME LimiterAssumption ==
  /\ IsFiniteSet(Requests)
  /\ Header \in [Requests -> Keys]
  /\ MaxRequests \in Nat /\ WindowLen \in Nat /\ MaxTime \in Nat

VARIABLES
  now,     \* time.monotonic()
  stamps,  \* stamps[k]: _requests[k]
  at       \* at[q]: when q was granted

limiterVars == <<now, stamps, at>>

Never == -1

LimiterInit ==
  /\ now = 0
  /\ stamps = [k \in Keys |-> {}]
  /\ at = [q \in Requests |-> Never]

\* Mutant of Active: the window is open on its old side.
ActiveOpen(k) == {q \in stamps[k] : at[q] > now - WindowLen}

\* Mutant of Active: nothing falls out of the window.
ActiveAll(k) == stamps[k]

\* The timestamps of k that have not fallen out of the window.
Active(k) == {q \in stamps[k] : at[q] >= now - WindowLen}

\* remaining()
Remaining(k) ==
  LET made == Cardinality(Active(k)) IN
  IF made >= MaxRequests THEN 0 ELSE MaxRequests - made

\* allow() answers True.
Allow(q) ==
  LET k == Header[q] IN
  /\ at[q] = Never
  /\ Cardinality(Active(k)) < MaxRequests
  /\ stamps' = [stamps EXCEPT ![k] = Active(k) \cup {q}]
  /\ at' = [at EXCEPT ![q] = now]
  /\ UNCHANGED now

\* allow() answers False: 429.
Refuse(q) ==
  LET k == Header[q] IN
  /\ at[q] = Never
  /\ Cardinality(Active(k)) >= MaxRequests
  /\ stamps' = [stamps EXCEPT ![k] = Active(k)]
  /\ UNCHANGED <<now, at>>

\* Mutant of Tick: the clock of the wall, which may be set back.
TickBack ==
  /\ now < MaxTime
  /\ now' \in {now - 1, now + 1}
  /\ UNCHANGED <<stamps, at>>

\* The clock allow() reads is time.monotonic(): between two reads it only advances.
Tick ==
  /\ now < MaxTime
  /\ now' = now + 1
  /\ UNCHANGED <<stamps, at>>

LimiterNext == Tick \/ \E q \in Requests : Allow(q) \/ Refuse(q)

LimiterSpec == LimiterInit /\ [][LimiterNext]_limiterVars

--------------------------------------------------------------------------------
(* Properties.                                                             *)

LimiterTypeOK ==
  /\ now \in 0..MaxTime
  /\ stamps \in [Keys -> SUBSET Requests]
  /\ at \in [Requests -> {Never} \cup 0..MaxTime]

\* The requests of k that were granted, all that ever were.
Grants(k) == {q \in Requests : Header[q] = k /\ at[q] # Never}

\* The limit is one of every window of that length, wherever it starts, and not
\* only of those the code looked at when it pruned: timestamps are forgotten
\* only when no window could hold them with a later grant.
WindowBound ==
  \A k \in Keys :
    LET granted == Grants(k) IN
    \A t \in 0..MaxTime :
      Cardinality({q \in granted : at[q] \in t..t + WindowLen}) <= MaxRequests
================================================================================
