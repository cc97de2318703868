------------------------------ MODULE RouteHealth ------------------------------
(***************************************************************************)
(* router/health.py: the outcomes of the last attempts on each route, and  *)
(* the cooldown of a route that fails too often.  Every method runs under  *)
(* one lock.  Time is abstracted: a cooldown may run out at any moment.    *)
(***************************************************************************)
EXTENDS Integers, FiniteSets, SequencesExt

CONSTANTS
  Routes,  \* the ids of the registered routes
  Window   \* RouteHealth(window): how many outcomes are kept

ASSUME HealthAssumption == Window \in Nat \ {0}

VARIABLES
  outcomes,  \* outcomes[r]: _outcomes[r], TRUE for a success, oldest first
  cooling    \* routes whose _cooldown_until lies ahead

healthVars == <<outcomes, cooling>>

HealthInit ==
  /\ outcomes = [r \in Routes |-> <<>>]
  /\ cooling = {}

Failures(os) == {i \in DOMAIN os : ~os[i]}

\* error_rate() >= fail_threshold, which is 0.5; without outcomes the rate is 0.
Failing(os) == os # <<>> /\ 2 * Cardinality(Failures(os)) >= Len(os)

Healthy(r) == r \notin cooling /\ ~Failing(outcomes[r])

\* Mutant of Recent: the window keeps one outcome too many.
RecentLong(os) ==
  IF Len(os) <= Window + 1 THEN os ELSE SubSeq(os, Len(os) - Window, Len(os))

\* deque(maxlen=window): what is left of the entries appended so far.
Recent(os) ==
  IF Len(os) <= Window THEN os ELSE SubSeq(os, 1 + Len(os) - Window, Len(os))

\* Mutant of Record: any failure starts a cooldown.
RecordHasty(r, oks) ==
  /\ outcomes' = [outcomes EXCEPT ![r] = Recent(@ \o oks)]
  /\ cooling' = IF Last(oks) THEN cooling \ {r} ELSE cooling \cup {r}

\* record(), once for each of the outcomes that one step reports: a success
\* ends the cooldown, a failure of a failing route starts it anew.
Record(r, oks) ==
  /\ outcomes' = [outcomes EXCEPT ![r] = Recent(@ \o oks)]
  /\ LET still == IF TRUE \in ToSet(oks) THEN cooling \ {r} ELSE cooling IN
     cooling' = IF ~Last(oks) /\ Failing(outcomes'[r]) THEN still \cup {r}
                ELSE still

\* cooldown_seconds passed since the last failure.
Expire(r) ==
  /\ r \in cooling
  /\ cooling' = cooling \ {r}
  /\ UNCHANGED outcomes

--------------------------------------------------------------------------------
(* Properties.                                                             *)

HealthTypeOK ==
  /\ outcomes \in [Routes -> Seq(BOOLEAN)]
  /\ \A r \in Routes : Len(outcomes[r]) <= Window
  /\ cooling \subseteq Routes

\* A route in cooldown is always one whose window holds too many failures,
\* whatever was recorded since the cooldown began: the two conditions that
\* healthy() tests never disagree in the direction that would keep a route
\* with a good record out of use.
CooldownMeansFailing == \A r \in cooling : Failing(outcomes[r])
================================================================================
