--------------------------- MODULE ChatRoutingProofs ---------------------------
(***************************************************************************)
(* Proofs about RouteHealth and ChatRouting for every number of requests   *)
(* and routes, every window and every number of fallbacks.                 *)
(*                                                                         *)
(* Section 1 is about the window: failures only make a failing route       *)
(* worse, also when they push older outcomes out.  Section 2 is the        *)
(* inductive invariant of the requests, and section 3 has the theorems.    *)
(***************************************************************************)
EXTENDS ChatRouting, FiniteSetTheorems, TLAPS

--------------------------------------------------------------------------------
(* 1. The window.                                                          *)

LEMMA FailuresFinite ==
  ASSUME NEW os \in Seq(BOOLEAN)
  PROVE  IsFiniteSet(Failures(os)) /\ Cardinality(Failures(os)) \in Nat
<1>1. Failures(os) \in SUBSET (1..Len(os)) /\ Len(os) \in Nat
  BY DEF Failures
<1>2. IsFiniteSet(1..Len(os))
  BY <1>1, FS_Interval
<1>3. IsFiniteSet(Failures(os))
  BY <1>1, <1>2, FS_Subset
<1>4. QED
  BY <1>3, FS_CardinalityType

\* What the deque holds after appends.
LEMMA RecentType ==
  ASSUME NEW os \in Seq(BOOLEAN)
  PROVE  Recent(os) \in Seq(BOOLEAN) /\ Len(Recent(os)) <= Window
<1>1. Window \in Nat \ {0} /\ Len(os) \in Nat
  BY HealthAssumption
<1>2. CASE Len(os) <= Window
  BY <1>1, <1>2 DEF Recent
<1>3. CASE ~(Len(os) <= Window)
  <2>1. Recent(os) = SubSeq(os, 1 + Len(os) - Window, Len(os))
    BY <1>3 DEF Recent
  <2>2. 1 + Len(os) - Window \in 1..Len(os)
    BY <1>1, <1>3
  <2>3. /\ SubSeq(os, 1 + Len(os) - Window, Len(os)) \in Seq(BOOLEAN)
        /\ Len(SubSeq(os, 1 + Len(os) - Window, Len(os))) = Window
    BY <1>1, <2>2
  <2>4. QED
    BY <1>1, <2>1, <2>3
<1>4. QED
  BY <1>2, <1>3

\* A failure that pushes out an older outcome: what it pushed out was at most
\* one failure, whose place in the count it takes.
LEMMA FailureReplaces ==
  ASSUME NEW os \in Seq(BOOLEAN), NEW new \in Seq(BOOLEAN),
         Len(new) = Len(os), os # <<>>,
         new[Len(os)] = FALSE,
         \A i \in 2..Len(os) : new[i - 1] = os[i]
  PROVE  Cardinality(Failures(os)) <= Cardinality(Failures(new))
<1> DEFINE f == [i \in Failures(os) |-> IF i = 1 THEN Len(os) ELSE i - 1]
<1>1. Len(os) \in Nat \ {0}
  OBVIOUS
<1>2. ASSUME NEW i \in Failures(os)
      PROVE  f[i] \in Failures(new)
  <2>1. i \in 1..Len(os) /\ ~os[i]
    BY DEF Failures
  <2>2. CASE i = 1
    <3>1. f[i] = Len(os) /\ Len(os) \in 1..Len(new)
      BY <1>1, <2>2
    <3>2. QED
      BY <3>1 DEF Failures
  <2>3. CASE i # 1
    <3>1. i \in 2..Len(os) /\ f[i] = i - 1 /\ i - 1 \in 1..Len(new)
      BY <1>1, <2>1, <2>3
    <3>2. ~new[i - 1]
      BY <2>1, <3>1
    <3>3. QED
      BY <3>1, <3>2 DEF Failures
  <2>4. QED
    BY <2>2, <2>3
<1>3. f \in [Failures(os) -> Failures(new)]
  BY <1>2
<1>4. ASSUME NEW i \in Failures(os), NEW k \in Failures(os), f[i] = f[k]
      PROVE  i = k
  <2>1. i \in 1..Len(os) /\ k \in 1..Len(os)
    BY DEF Failures
  <2>2. QED
    BY <1>1, <1>4, <2>1
<1> HIDE DEF f
<1>5. f \in Injection(Failures(os), Failures(new))
  BY <1>3, <1>4 DEF Injection, IsInjective
<1>6. QED
  BY <1>5, FailuresFinite, FS_Injection

\* A failing route that fails once more is still failing.
LEMMA StillFailing ==
  ASSUME NEW os \in Seq(BOOLEAN), Len(os) <= Window, Failing(os)
  PROVE  Failing(Recent(os \o <<FALSE>>))
<1> DEFINE long == os \o <<FALSE>>
<1>1. Window \in Nat \ {0} /\ Len(os) \in Nat \ {0}
  BY HealthAssumption DEF Failing
<1>2. /\ long \in Seq(BOOLEAN) /\ Len(long) = Len(os) + 1
      /\ \A i \in 1..Len(os) : long[i] = os[i]
      /\ long[Len(os) + 1] = FALSE
  BY <1>1
<1> HIDE DEF long
<1>3. CASE Len(os) < Window
  <2>1. Recent(long) = long
    BY <1>1, <1>2, <1>3 DEF Recent
  <2>2. Failures(long) = Failures(os) \cup {Len(os) + 1}
    BY <1>1, <1>2 DEF Failures
  <2>3. Len(os) + 1 \notin Failures(os)
    BY <1>1 DEF Failures
  <2>4. Cardinality(Failures(long)) = Cardinality(Failures(os)) + 1
    BY <2>2, <2>3, FailuresFinite, FS_AddElement
  <2>5. 2 * Cardinality(Failures(os)) >= Len(os) /\ Cardinality(Failures(os)) \in Nat
    BY FailuresFinite DEF Failing
  <2>6. 2 * Cardinality(Failures(long)) >= Len(long) /\ long # <<>>
    BY <1>1, <1>2, <2>4, <2>5
  <2>7. QED
    BY <2>1, <2>6 DEF Failing, long
<1>4. CASE Len(os) = Window
  <2> DEFINE new == SubSeq(long, 2, Len(long))
  <2>1. Recent(long) = new
    BY <1>1, <1>2, <1>4 DEF Recent
  <2>2. /\ new \in Seq(BOOLEAN) /\ Len(new) = Len(os)
        /\ \A i \in 1..Len(os) : new[i] = long[i + 1]
    BY <1>1, <1>2
  <2> HIDE DEF new
  <2>3. new[Len(os)] = FALSE
    BY <1>1, <1>2, <2>2
  <2>4. \A i \in 2..Len(os) : new[i - 1] = os[i]
    BY <1>1, <1>2, <2>2
  <2>5. Cardinality(Failures(os)) <= Cardinality(Failures(new))
    <3>1. os # <<>>
      BY DEF Failing
    <3>2. QED
      BY <2>2, <2>3, <2>4, <3>1, FailureReplaces
  <2>6. /\ 2 * Cardinality(Failures(os)) >= Len(os)
        /\ Cardinality(Failures(os)) \in Nat /\ Cardinality(Failures(new)) \in Nat
    BY <2>2, FailuresFinite DEF Failing
  <2>7. 2 * Cardinality(Failures(new)) >= Len(new) /\ new # <<>>
    BY <1>1, <2>2, <2>5, <2>6
  <2>8. QED
    BY <2>1, <2>7 DEF Failing, long
<1>5. QED
  BY <1>1, <1>3, <1>4

\* What one step of a handler may report about its attempt.
Reports == {<<TRUE>>, <<FALSE>>, <<TRUE, FALSE>>}

LEMMA ReportFacts ==
  ASSUME NEW oks \in Reports
  PROVE  oks \in Seq(BOOLEAN) /\ (oks = <<FALSE>> \/ TRUE \in ToSet(oks))
<1>1. CASE oks = <<TRUE>>
  <2>1. oks \in Seq(BOOLEAN) /\ 1 \in DOMAIN oks /\ oks[1] = TRUE
    BY <1>1
  <2>2. QED
    BY <2>1 DEF ToSet
<1>2. CASE oks = <<FALSE>>
  BY <1>2
<1>3. CASE oks = <<TRUE, FALSE>>
  <2>1. oks \in Seq(BOOLEAN) /\ 1 \in DOMAIN oks /\ oks[1] = TRUE
    BY <1>3
  <2>2. QED
    BY <2>1 DEF ToSet
<1>4. QED
  BY <1>1, <1>2, <1>3 DEF Reports

\* What one step reports disturbs neither the types nor the other routes, and
\* leaves the route in cooldown only if it is failing.
LEMMA RecordStep ==
  ASSUME HealthTypeOK, CooldownMeansFailing,
         NEW r \in Routes, NEW oks \in Reports, Record(r, oks)
  PROVE  /\ HealthTypeOK' /\ CooldownMeansFailing'
         /\ \A s \in Routes \ {r} : outcomes'[s] = outcomes[s]
<1>1. outcomes[r] \in Seq(BOOLEAN) /\ Len(outcomes[r]) <= Window
  BY DEF HealthTypeOK
<1>2. oks \in Seq(BOOLEAN)
  BY ReportFacts
<1>3. outcomes' = [outcomes EXCEPT ![r] = Recent(outcomes[r] \o oks)]
  BY DEF Record
<1>4. Recent(outcomes[r] \o oks) \in Seq(BOOLEAN) /\ Len(Recent(outcomes[r] \o oks)) <= Window
  <2>1. outcomes[r] \o oks \in Seq(BOOLEAN)
    BY <1>1, <1>2
  <2>2. QED
    BY <2>1, RecentType
<1>5. /\ outcomes'[r] = Recent(outcomes[r] \o oks)
      /\ \A s \in Routes \ {r} : outcomes'[s] = outcomes[s]
  BY <1>3 DEF HealthTypeOK
<1>6. cooling' \subseteq cooling \cup {r}
  BY DEF Record
<1>7. HealthTypeOK'
  <2>1. outcomes' \in [Routes -> Seq(BOOLEAN)]
    BY <1>3, <1>4 DEF HealthTypeOK
  <2>2. \A s \in Routes : Len(outcomes'[s]) <= Window
    BY <1>4, <1>5 DEF HealthTypeOK
  <2>3. QED
    BY <1>6, <2>1, <2>2 DEF HealthTypeOK
<1>8. r \in cooling' => Failing(outcomes'[r])
  <2>1. CASE oks = <<FALSE>>
    <3>1. r \in cooling => Failing(outcomes'[r])
      BY <1>1, <1>5, <2>1, StillFailing DEF CooldownMeansFailing
    <3>2. TRUE \notin ToSet(oks)
      <4>1. DOMAIN oks = {1} /\ oks[1] = FALSE
        BY <2>1
      <4>2. QED
        BY <4>1 DEF ToSet
    <3>3. QED
      BY <3>1, <3>2 DEF Record
  <2>2. CASE TRUE \in ToSet(oks)
    BY <2>2 DEF Record
  <2>3. QED
    BY <2>1, <2>2, ReportFacts
<1>9. ASSUME NEW s \in cooling', s # r
      PROVE  Failing(outcomes'[s])
  <2>1. s \in cooling /\ s \in Routes
    BY <1>6, <1>9 DEF HealthTypeOK
  <2>2. outcomes'[s] = outcomes[s]
    BY <1>5, <1>9, <2>1
  <2>3. QED
    BY <2>1, <2>2 DEF CooldownMeansFailing
<1>10. QED
  BY <1>5, <1>7, <1>8, <1>9 DEF CooldownMeansFailing

--------------------------------------------------------------------------------
(* 2. The inductive invariant.                                             *)

\* The requests: one that has not arrived tried nothing, one that waits has
\* tried something, and the attempts are distinct and bounded.
Progress ==
  /\ state \in [Requests -> {"new", "waiting"} \cup Ended]
  /\ attempted \in [Requests -> Seq(Routes)]
  /\ \A q \in Requests : state[q] = "new" => attempted[q] = <<>>
  /\ \A q \in Requests : state[q] = "waiting" => attempted[q] # <<>>
  /\ RetriesBounded

IInv == TypeOK /\ CooldownMeansFailing /\ Progress

LEMMA InvInit == Init => IInv
<1> SUFFICES ASSUME Init PROVE IInv
  OBVIOUS
<1>1. HealthTypeOK /\ CooldownMeansFailing
  BY HealthAssumption DEF Init, HealthInit, HealthTypeOK, CooldownMeansFailing
<1>2. RetriesBounded
  BY RoutingAssumption DEF Init, RetriesBounded, IsInjective
<1>3. files \subseteq Local /\ loaded \subseteq Local
  BY DEF Init
<1>4. QED
  BY <1>1, <1>2, <1>3 DEF IInv, TypeOK, Progress, Init

LEMMA CurrentRoute ==
  ASSUME IInv, NEW q \in Waiting
  PROVE  q \in Requests /\ Current(q) \in Routes
BY DEF IInv, Progress, Waiting, Current, Last

\* An attempt on another route.
LEMMA AppendRoute ==
  ASSUME NEW tried \in Seq(Routes), IsInjective(tried), NEW r \in Routes \ ToSet(tried)
  PROVE  /\ Append(tried, r) \in Seq(Routes)
         /\ Len(Append(tried, r)) = Len(tried) + 1
         /\ Last(Append(tried, r)) = r
         /\ IsInjective(Append(tried, r))
<1> DEFINE long == Append(tried, r)
<1>1. /\ long \in Seq(Routes) /\ Len(long) = Len(tried) + 1 /\ Len(tried) \in Nat
      /\ DOMAIN long = 1..(Len(tried) + 1)
      /\ long[Len(tried) + 1] = r
      /\ \A i \in 1..Len(tried) : long[i] = tried[i]
  OBVIOUS
<1>2. \A i \in 1..Len(tried) : tried[i] # r
  BY DEF ToSet
<1> HIDE DEF long
<1>3. ASSUME NEW i \in 1..(Len(tried) + 1), NEW k \in 1..(Len(tried) + 1),
             long[i] = long[k]
      PROVE  i = k
  <2>1. CASE i \in 1..Len(tried) /\ k \in 1..Len(tried)
    BY <1>1, <1>3, <2>1 DEF IsInjective
  <2>2. CASE i = Len(tried) + 1 \/ k = Len(tried) + 1
    BY <1>1, <1>2, <1>3, <2>2
  <2>3. QED
    BY <1>1, <2>1, <2>2
<1>4. IsInjective(long)
  BY <1>1, <1>3 DEF IsInjective
<1>5. QED
  BY <1>1, <1>4 DEF long, Last

\* Try() moves its own request only, which then waits for the new route.
LEMMA TryStep ==
  ASSUME IInv, NEW q \in Requests, NEW r \in Routes \ Attempts(q),
         Len(attempted[q]) <= MaxFallbacks, Try(q, r)
  PROVE  /\ Progress'
         /\ state'[q] \in {"waiting", "rejected"}
         /\ \A p \in Waiting' : \/ p = q /\ Current(p)' = r
                                \/ p \in Waiting /\ Current(p)' = Current(p)
<1> DEFINE long == Append(attempted[q], r)
<1>1. attempted[q] \in Seq(Routes) /\ IsInjective(attempted[q])
  BY DEF IInv, Progress, RetriesBounded
<1>2. /\ long \in Seq(Routes) /\ Len(long) = Len(attempted[q]) + 1
      /\ Last(long) = r /\ IsInjective(long)
  BY <1>1, AppendRoute DEF Attempts
<1> HIDE DEF long
<1>3. attempted' = [attempted EXCEPT ![q] = long]
  BY DEF Try, long
<1>4. PICK end \in {"waiting", "rejected"} : state' = [state EXCEPT ![q] = end]
  BY DEF Try
<1>5. /\ attempted' \in [Requests -> Seq(Routes)] /\ attempted'[q] = long
      /\ \A p \in Requests \ {q} : attempted'[p] = attempted[p]
  BY <1>2, <1>3 DEF IInv, Progress
<1>6. /\ state' \in [Requests -> {"new", "waiting"} \cup Ended] /\ state'[q] = end
      /\ \A p \in Requests \ {q} : state'[p] = state[p]
  BY <1>4 DEF IInv, Progress, Ended
<1>7. Len(long) <= 1 + MaxFallbacks /\ long # <<>>
  BY <1>1, <1>2, RoutingAssumption
<1>8. RetriesBounded'
  BY <1>2, <1>5, <1>7 DEF IInv, Progress, RetriesBounded
<1>9. Progress'
  BY <1>5, <1>6, <1>7, <1>8 DEF IInv, Progress
<1>10. ASSUME NEW p \in Waiting'
       PROVE  \/ p = q /\ Current(p)' = r
              \/ p \in Waiting /\ Current(p)' = Current(p)
  <2>1. p \in Requests /\ state'[p] = "waiting"
    BY DEF Waiting
  <2>2. CASE p = q
    BY <1>2, <1>5, <2>2 DEF Current
  <2>3. CASE p # q
    BY <1>5, <1>6, <2>1, <2>3 DEF Current, Waiting
  <2>4. QED
    BY <2>2, <2>3
<1>11. QED
  BY <1>4, <1>6, <1>9, <1>10

\* A request that ends and tries nothing more.
LEMMA EndStep ==
  ASSUME IInv, NEW q \in Requests, NEW end \in Ended,
         state' = [state EXCEPT ![q] = end], UNCHANGED attempted
  PROVE  /\ Progress'
         /\ \A p \in Waiting' : p \in Waiting /\ Current(p)' = Current(p)
<1>1. end # "waiting" /\ end # "new"
  BY DEF Ended
<1>2. /\ state' \in [Requests -> {"new", "waiting"} \cup Ended] /\ state'[q] = end
      /\ \A p \in Requests \ {q} : state'[p] = state[p]
  BY DEF IInv, Progress
<1>3. Progress'
  BY <1>1, <1>2 DEF IInv, Progress, RetriesBounded
<1>4. QED
  BY <1>1, <1>2, <1>3 DEF Waiting, Current

\* After a failed attempt: the request gives up, or waits for a route that is
\* not failing.
LEMMA RetryStep ==
  ASSUME IInv, NEW q \in Waiting, Retry(q)
  PROVE  /\ Progress'
         /\ state'[q] = "failed" => ~MayRetry(q)
         /\ \A p \in Waiting' : \/ p = q /\ ~Failing(outcomes'[Current(p)'])
                                \/ p \in Waiting /\ Current(p)' = Current(p)
<1>1. q \in Requests
  BY DEF Waiting
<1>2. CASE MayRetry(q)
  <2>1. PICK r \in Fallbacks(q) : Try(q, r)
    BY <1>2 DEF Retry
  <2>2. r \in Routes \ Attempts(q) /\ ~Failing(outcomes'[r])
    BY <2>1 DEF Fallbacks, Usable, Healthy
  <2>3. Len(attempted[q]) <= MaxFallbacks
    <3>1. Len(attempted[q]) \in Nat
      BY <1>1 DEF IInv, Progress
    <3>2. QED
      BY <1>2, <3>1, RoutingAssumption DEF MayRetry
  <2>4. QED
    BY <1>1, <2>1, <2>2, <2>3, TryStep
<1>3. CASE ~MayRetry(q)
  <2>1. state' = [state EXCEPT ![q] = "failed"] /\ UNCHANGED attempted
    BY <1>3 DEF Retry
  <2>2. QED
    BY <1>1, <1>3, <2>1, EndStep DEF Ended
<1>4. QED
  BY <1>2, <1>3

\* What arrives tries a route that is not failing, or ends at once.
LEMMA ArriveStep ==
  ASSUME IInv, NEW q \in Requests, Arrive(q)
  PROVE  /\ Progress'
         /\ \A p \in Waiting' : \/ p = q /\ ~Failing(outcomes[Current(p)'])
                                \/ p \in Waiting /\ Current(p)' = Current(p)
<1>1. \/ \E end \in Ended : state' = [state EXCEPT ![q] = end] /\ UNCHANGED attempted
      \/ \E hints : \E r \in Candidates(q, hints) : Try(q, r)
  BY DEF Arrive, Route, Turned, Ended
<1>2. CASE \E end \in Ended : state' = [state EXCEPT ![q] = end] /\ UNCHANGED attempted
  BY <1>2, EndStep
<1>3. CASE \E hints : \E r \in Candidates(q, hints) : Try(q, r)
  <2>1. PICK hints : \E r \in Candidates(q, hints) : Try(q, r)
    BY <1>3
  <2> PICK r \in Candidates(q, hints) : Try(q, r)
    BY <2>1
  <2>2. r \in Routes /\ ~Failing(outcomes[r])
    BY DEF Candidates, Best, UsableRoutes, Usable, Healthy
  <2>3. attempted[q] = <<>>
    BY DEF Arrive, IInv, Progress
  <2>4. Len(attempted[q]) <= MaxFallbacks /\ r \notin Attempts(q)
    BY <2>3, RoutingAssumption DEF Attempts, ToSet
  <2>5. QED
    BY <2>2, <2>4, TryStep
<1>4. QED
  BY <1>1, <1>2, <1>3

Attempt(q) == AttemptFails(q) \/ AttemptServes(q) \/ AttemptUncounted(q)

\* The end of an attempt is reported for the route it was made on.
LEMMA AttemptReport ==
  ASSUME IInv, NEW q \in Requests, Attempt(q)
  PROVE  /\ q \in Waiting /\ Current(q) \in Routes
         /\ HealthTypeOK' /\ CooldownMeansFailing'
         /\ \A s \in Routes \ {Current(q)} : outcomes'[s] = outcomes[s]
<1>1. q \in Waiting
  BY DEF Attempt, AttemptFails, AttemptServes, AttemptUncounted, Generated, Waiting
<1>2. Current(q) \in Routes
  BY <1>1, CurrentRoute
<1>3. PICK oks \in Reports : Record(Current(q), oks)
  BY DEF Attempt, AttemptFails, AttemptServes, AttemptUncounted, Reports
<1>4. HealthTypeOK /\ CooldownMeansFailing
  BY DEF IInv, TypeOK
<1>5. QED
  BY <1>1, <1>2, <1>3, <1>4, RecordStep

\* Then the request is over, or it is retried.
LEMMA AttemptOutcome ==
  ASSUME IInv, NEW q \in Requests, Attempt(q)
  PROVE  \/ Retry(q) /\ UNCHANGED <<files, loaded>>
         \/ /\ state' = [state EXCEPT ![q] = "answered"]
            /\ UNCHANGED <<attempted, files>>
            /\ loaded' \subseteq loaded \cup Local
BY DEF Attempt, AttemptFails, AttemptServes, AttemptUncounted

LEMMA AttemptStep ==
  ASSUME IInv, NEW q \in Requests, Attempt(q)
  PROVE  /\ IInv'
         /\ \A p \in Waiting' : \/ p = q /\ ~Failing(outcomes'[Current(p)'])
                                \/ p \in Waiting /\ Current(p)' = Current(p)
<1>1. q \in Waiting /\ HealthTypeOK' /\ CooldownMeansFailing'
  BY AttemptReport
<1>2. CASE Retry(q) /\ UNCHANGED <<files, loaded>>
  <2>1. Progress'
    BY <1>1, <1>2, RetryStep
  <2>2. TypeOK'
    BY <1>1, <1>2, <2>1 DEF IInv, TypeOK, Progress
  <2>3. QED
    BY <1>1, <1>2, <2>1, <2>2, RetryStep DEF IInv
<1>3. CASE /\ state' = [state EXCEPT ![q] = "answered"]
           /\ UNCHANGED <<attempted, files>>
           /\ loaded' \subseteq loaded \cup Local
  <2>1. /\ Progress'
        /\ \A p \in Waiting' : p \in Waiting /\ Current(p)' = Current(p)
    BY <1>3, EndStep DEF Ended
  <2>2. TypeOK'
    BY <1>1, <1>3, <2>1 DEF IInv, TypeOK, Progress
  <2>3. QED
    BY <1>1, <2>1, <2>2 DEF IInv
<1>4. QED
  BY <1>2, <1>3, AttemptOutcome

\* What the handlers' environment does: models load, files come and go,
\* cooldowns end.  No request moves and no outcome is recorded.
Environment(r) == Load(r) \/ CooldownEnds(r) \/ FileChanges(r)

LEMMA EnvironmentStep ==
  ASSUME IInv, NEW r \in Routes, Environment(r)
  PROVE  IInv' /\ UNCHANGED <<outcomes, state, attempted>>
<1>1. UNCHANGED <<outcomes, state, attempted>> /\ cooling' \subseteq cooling
  BY DEF Environment, Load, CooldownEnds, Expire, FileChanges, healthVars
<1>2. files' \subseteq Local /\ loaded' \subseteq Local
  BY DEF IInv, TypeOK, Environment, Load, CooldownEnds, FileChanges
<1>3. Progress'
  BY <1>1 DEF IInv, Progress, RetriesBounded
<1>4. CooldownMeansFailing' /\ HealthTypeOK'
  BY <1>1 DEF IInv, TypeOK, CooldownMeansFailing, HealthTypeOK
<1>5. QED
  BY <1>1, <1>2, <1>3, <1>4 DEF IInv, TypeOK

\* The steps of Next, by who takes them.
LEMMA NextCases ==
  ASSUME Next
  PROVE  \/ \E q \in Requests : Arrive(q)
         \/ \E q \in Requests : Attempt(q)
         \/ \E r \in Routes : Environment(r)
BY DEF Next, Attempt, Environment

LEMMA InvStep == IInv /\ [Next]_vars => IInv'
<1> SUFFICES ASSUME IInv, [Next]_vars PROVE IInv'
  OBVIOUS
<1>1. ASSUME NEW q \in Requests, Arrive(q) PROVE IInv'
  <2>1. Progress'
    BY <1>1, ArriveStep
  <2>2. UNCHANGED <<outcomes, cooling, files, loaded>>
    BY <1>1 DEF Arrive, healthVars
  <2>3. CooldownMeansFailing' /\ HealthTypeOK'
    BY <2>2 DEF IInv, TypeOK, CooldownMeansFailing, HealthTypeOK
  <2>4. QED
    BY <2>1, <2>2, <2>3 DEF IInv, TypeOK, Progress
<1>2. ASSUME NEW q \in Requests, Attempt(q) PROVE IInv'
  BY <1>2, AttemptStep
<1>3. ASSUME NEW r \in Routes, Environment(r) PROVE IInv'
  BY <1>3, EnvironmentStep
<1>4. CASE UNCHANGED vars
  <2>1. UNCHANGED <<outcomes, cooling, state, attempted, files, loaded>>
    BY <1>4 DEF vars, healthVars
  <2>2. QED
    BY <2>1 DEF IInv, TypeOK, HealthTypeOK, CooldownMeansFailing, Progress, RetriesBounded
<1>5. QED
  BY <1>1, <1>2, <1>3, <1>4, NextCases

\* The inductive invariant holds in every reachable state.
THEOREM Invariant == Spec => []IInv
<1>1. QED
  BY InvInit, InvStep, PTL DEF Spec

--------------------------------------------------------------------------------
(* 3. Theorems.                                                            *)

\* Type correctness; the window never holds more than its size.
THEOREM RoutingTypes == Spec => []TypeOK
<1>1. IInv => TypeOK
  BY DEF IInv
<1>2. QED
  BY <1>1, Invariant, PTL

\* A cooldown covers failing routes only, for every window: with the test of
\* the error rate beside it, it never changes what healthy() answers.
THEOREM CooldownTheorem == Spec => []CooldownMeansFailing
<1>1. IInv => CooldownMeansFailing
  BY DEF IInv
<1>2. QED
  BY <1>1, Invariant, PTL

COROLLARY HealthyIsErrorRate ==
  Spec => [](\A r \in Routes : Healthy(r) <=> ~Failing(outcomes[r]))
<1>1. CooldownMeansFailing => \A r \in Routes : Healthy(r) <=> ~Failing(outcomes[r])
  BY DEF CooldownMeansFailing, Healthy
<1>2. QED
  BY <1>1, CooldownTheorem, PTL

\* A request makes at most one attempt on each route and uses no more than its
\* fallbacks, however the health of the routes changes meanwhile.
THEOREM RetriesTheorem == Spec => []RetriesBounded
<1>1. IInv => RetriesBounded
  BY DEF IInv, Progress
<1>2. QED
  BY <1>1, Invariant, PTL

\* A request gives up only when its fallbacks are used up or no route is left
\* that is there and not failing: the cooldown alone never makes it give up.
THEOREM GivesUpTheorem == Spec => GivesUpForCause
<1> DEFINE Cause(q) == \/ Len(attempted[q]) = 1 + MaxFallbacks
                       \/ \A r \in Routes \ Attempts(q) :
                            ~Available(r) \/ Failing(outcomes'[r])
           Step == \A q \in Waiting : state'[q] = "failed" => Cause(q)
<1>1. ASSUME IInv, [Next]_vars PROVE Step
  <2> SUFFICES ASSUME NEW q \in Waiting, state'[q] = "failed" PROVE Cause(q)
    OBVIOUS
  <2>1. q \in Requests /\ state[q] = "waiting"
    BY DEF Waiting
  <2>2. Attempt(q)
    <3>1. ASSUME NEW p \in Requests, Arrive(p) PROVE FALSE
      <4>1. p # q
        BY <2>1, <3>1 DEF Arrive
      <4>2. state'[q] = state[q]
        BY <1>1, <2>1, <3>1, <4>1 DEF Arrive, Route, Turned, Try, IInv, Progress
      <4>3. QED
        BY <2>1, <4>2
    <3>2. ASSUME NEW p \in Requests, Attempt(p), p # q PROVE FALSE
      <4>1. state'[q] = state[q]
        BY <1>1, <2>1, <3>2
        DEF Attempt, AttemptFails, AttemptServes, AttemptUncounted, Retry, Try, IInv, Progress
      <4>2. QED
        BY <2>1, <4>1
    <3>3. ASSUME NEW r \in Routes, Environment(r) PROVE FALSE
      BY <1>1, <2>1, <3>3, EnvironmentStep
    <3>4. CASE UNCHANGED vars
      BY <2>1, <3>4 DEF vars
    <3>5. QED
      BY <1>1, <3>1, <3>2, <3>3, <3>4, NextCases
  <2>3. CASE state' = [state EXCEPT ![q] = "answered"]
    BY <1>1, <2>1, <2>3 DEF IInv, Progress
  <2>4. CASE Retry(q) /\ UNCHANGED <<files, loaded>>
    <3>1. ~MayRetry(q)
      BY <1>1, <2>4, RetryStep
    <3>2. CASE Len(attempted[q]) - 1 >= MaxFallbacks
      <4>1. Len(attempted[q]) \in Nat /\ Len(attempted[q]) <= 1 + MaxFallbacks
        BY <1>1, <2>1 DEF IInv, Progress, RetriesBounded
      <4>2. QED
        BY <3>2, <4>1, RoutingAssumption
    <3>3. CASE Fallbacks(q) = {}
      <4>1. CooldownMeansFailing'
        BY <1>1, <2>1, <2>2, AttemptReport
      <4>2. ASSUME NEW r \in Routes \ Attempts(q), Available(r)
            PROVE  Failing(outcomes'[r])
        <5>1. Available(r)'
          BY <2>4, <4>2 DEF Available
        <5>2. ~Healthy(r)'
          BY <3>3, <5>1 DEF Fallbacks, Usable
        <5>3. QED
          BY <4>1, <5>2 DEF Healthy, CooldownMeansFailing
      <4>3. QED
        BY <4>2
    <3>4. Len(attempted[q]) \in Nat /\ MaxFallbacks \in Nat
      BY <1>1, <2>1, RoutingAssumption DEF IInv, Progress
    <3>5. QED
      BY <3>1, <3>2, <3>3, <3>4 DEF MayRetry
  <2>5. QED
    BY <1>1, <2>1, <2>2, <2>3, <2>4, AttemptOutcome
<1>2. Spec => [][Step]_vars
  BY <1>1, Invariant, PTL DEF Spec
<1>3. QED
  BY <1>2 DEF GivesUpForCause

\* Why CooldownWakes is not so, and for how long: a failing route that no request
\* waits for never serves again.
THEOREM SleepersTheorem == Spec => SleepersStayAsleep
<1> DEFINE Step == \A r \in Routes :
                     Unattended(r) => Unattended(r)' /\ outcomes'[r] = outcomes[r]
<1>1. ASSUME IInv, [Next]_vars PROVE Step
  <2> SUFFICES ASSUME NEW r \in Routes, Unattended(r)
               PROVE  Unattended(r)' /\ outcomes'[r] = outcomes[r]
    OBVIOUS
  <2>1. Failing(outcomes[r]) /\ \A q \in Waiting : Current(q) # r
    BY DEF Unattended
  <2>2. ASSUME NEW q \in Requests, Arrive(q)
        PROVE  Unattended(r)' /\ outcomes'[r] = outcomes[r]
    <3>1. UNCHANGED outcomes
      BY <2>2 DEF Arrive, healthVars
    <3>2. \A p \in Waiting' : Current(p)' # r
      BY <1>1, <2>1, <2>2, ArriveStep
    <3>3. QED
      BY <2>1, <3>1, <3>2 DEF Unattended
  <2>3. ASSUME NEW q \in Requests, Attempt(q)
        PROVE  Unattended(r)' /\ outcomes'[r] = outcomes[r]
    <3>1. outcomes'[r] = outcomes[r]
      BY <1>1, <2>1, <2>3, AttemptReport
    <3>2. \A p \in Waiting' : Current(p)' # r
      BY <1>1, <2>1, <2>3, <3>1, AttemptStep
    <3>3. QED
      BY <2>1, <3>1, <3>2 DEF Unattended
  <2>4. ASSUME NEW x \in Routes, Environment(x)
        PROVE  Unattended(r)' /\ outcomes'[r] = outcomes[r]
    <3>1. UNCHANGED <<outcomes, state, attempted>>
      BY <1>1, <2>4, EnvironmentStep
    <3>2. QED
      BY <2>1, <3>1 DEF Unattended, Waiting, Current
  <2>5. CASE UNCHANGED vars
    <3>1. UNCHANGED <<outcomes, state, attempted>>
      BY <2>5 DEF vars, healthVars
    <3>2. QED
      BY <2>1, <3>1 DEF Unattended, Waiting, Current
  <2>6. QED
    BY <1>1, <2>2, <2>3, <2>4, <2>5, NextCases
<1>2. Spec => [][Step]_vars
  BY <1>1, Invariant, PTL DEF Spec
<1>3. QED
  BY <1>2 DEF SleepersStayAsleep

--------------------------------------------------------------------------------
(* 4. The choice by score.                                                 *)

LEMMA ProductOrder ==
  ASSUME NEW x \in Int, NEW y \in Int, NEW a \in Int, NEW b \in Int,
         x < y, b < a
  PROVE  (y - x) * (a - b) > 0
<1> DEFINE u == y - x
           v == a - b
<1>1. u \in Nat \ {0} /\ v \in Nat \ {0}
  OBVIOUS
<1> HIDE DEF u, v
<1>2. u * v > 0
  BY <1>1
<1> QED
  BY <1>2 DEF u, v

\* If a wins at weight x and b at a larger weight y, then b has no less of what
\* is weighed; c and d are the rest of their scores.
LEMMA HeavierWins ==
  ASSUME NEW x \in Int, NEW y \in Int, NEW a \in Int, NEW b \in Int,
         NEW c \in Int, NEW d \in Int,
         x < y, x * a + c >= x * b + d, y * b + d >= y * a + c
  PROVE  a <= b
<1> SUFFICES ASSUME b < a PROVE FALSE
  OBVIOUS
<1>1. (y - x) * (a - b) > 0
  BY ProductOrder
<1>2. (y - x) * (a - b) = y * a - y * b - x * a + x * b
  OBVIOUS
<1> QED
  BY <1>1, <1>2

LEMMA Cancelled ==
  ASSUME NEW n \in Nat \ {0}, NEW a \in Int, NEW b \in Int, (5 * n) * a <= (5 * n) * b
  PROVE  a <= b
<1> SUFFICES ASSUME b < a PROVE FALSE
  OBVIOUS
<1>1. (5 * n - 0) * (a - b) > 0
  BY ProductOrder
<1>2. (5 * n - 0) * (a - b) = (5 * n) * a - (5 * n) * b
  OBVIOUS
<1> QED
  BY <1>1, <1>2

\* The parts of a score.
QualityPart(r, h) == 5 * Scale(h) * Quality[r]
LatencyPart(r, h) == (IF h.limited THEN 200 ELSE 100) * (500 * LatencyValue(r, h))
CostPart(r, h) == Scale(h) * CostValue(r)

LEMMA PartTypes ==
  ASSUME NEW r \in Routes, NEW h \in Hints
  PROVE  /\ Scale(h) \in Nat
         /\ CostValue(r) \in Nat
         /\ QualityPart(r, h) \in Int /\ LatencyPart(r, h) \in Int /\ CostPart(r, h) \in Int
<1>1. /\ Quality[r] \in Int /\ Cost[r] \in Nat /\ Latency[r] \in Nat
      /\ h.limited \in BOOLEAN /\ h.budget \in Int
  BY ScoreAssumption DEF Hints
<1>2. Scale(h) \in Nat
  BY <1>1 DEF Scale
<1>3. CostValue(r) \in Nat
  BY <1>1 DEF CostValue, Positive
<1>4. LatencyValue(r, h) \in Int
  BY <1>1, <1>2 DEF LatencyValue, Positive
<1>5. QualityPart(r, h) \in Int
  BY <1>1, <1>2 DEF QualityPart
<1>6. CostPart(r, h) \in Int
  BY <1>2, <1>3 DEF CostPart
<1>7. LatencyPart(r, h) \in Int
  BY <1>1, <1>4 DEF LatencyPart
<1> QED
  BY <1>2, <1>3, <1>5, <1>6, <1>7

LEMMA ScoreParts ==
  ASSUME NEW r \in Routes, NEW h \in Hints
  PROVE  /\ Score(r, h) = (100 + h.quality) * QualityPart(r, h)
                          + (LatencyPart(r, h) + (100 + 4 * h.cost) * CostPart(r, h))
         /\ Score(r, h) \in Int
<1>1. h.quality \in Int /\ h.cost \in Int
  BY DEF Hints
<1>2. (100 + h.quality) * QualityPart(r, h) \in Int
  BY <1>1, PartTypes
<1>3. (100 + 4 * h.cost) * CostPart(r, h) \in Int
  BY <1>1, PartTypes
<1>4. Score(r, h) = (100 + h.quality) * QualityPart(r, h) + LatencyPart(r, h)
                    + (100 + 4 * h.cost) * CostPart(r, h)
  BY DEF Score, QualityPart, LatencyPart, CostPart
<1> QED
  BY <1>2, <1>3, <1>4, PartTypes

LEMMA HintedType ==
  ASSUME NEW header \in Headers
  PROVE  /\ Hinted(header) \in Hints /\ header \in Hints
         /\ Hinted(header) = [header EXCEPT !.quality = Clamp(header.quality),
                                            !.cost = Clamp(header.cost)]
<1>1. header \in Hints
  BY ScoreAssumption
<1>2. Clamp(header.quality) \in Int /\ Clamp(header.cost) \in Int
  BY <1>1 DEF Hints, Clamp, Positive
<1> QED
  BY <1>1, <1>2 DEF Hinted, Hints

\* The choice is one route.
LEMMA BestUnique ==
  ASSUME NEW U \in SUBSET Routes, NEW h \in Hints, NEW k \in Hints,
         NEW r \in Best(U, h), NEW s \in Best(U, k),
         \A p \in Routes : Score(p, h) = Score(p, k)
  PROVE  r = s
<1>1. /\ r \in Routes /\ s \in Routes
      /\ Precedes(Score(r, h), r, Score(s, h), s) /\ Precedes(Score(s, k), s, Score(r, k), r)
  BY DEF Best
<1>2. /\ Score(r, h) \in Int /\ Score(s, h) \in Int
      /\ Score(r, k) = Score(r, h) /\ Score(s, k) = Score(s, h)
  BY <1>1, ScoreParts
<1>3. Order[r] = Order[s]
  BY <1>1, <1>2, ScoreAssumption DEF Precedes
<1> QED
  BY <1>1, <1>3, ScoreAssumption DEF IsInjective

\* The larger clamped hint wins no less.
LEMMA BestScores ==
  ASSUME NEW U \in SUBSET Routes, NEW h \in Hints, NEW k \in Hints,
         NEW r \in Best(U, h), NEW s \in Best(U, k)
  PROVE  Score(r, h) >= Score(s, h) /\ Score(s, k) >= Score(r, k)
<1>1. /\ r \in Routes /\ s \in Routes
      /\ Precedes(Score(r, h), r, Score(s, h), s) /\ Precedes(Score(s, k), s, Score(r, k), r)
  BY DEF Best
<1>2. Score(r, h) \in Int /\ Score(s, h) \in Int /\ Score(r, k) \in Int /\ Score(s, k) \in Int
  BY <1>1, ScoreParts
<1> QED
  BY <1>1, <1>2 DEF Precedes

LEMMA SameBudget ==
  ASSUME NEW h \in Hints, NEW k \in Hints, h.limited = k.limited, h.budget = k.budget,
         NEW r \in Routes
  PROVE  /\ Scale(h) = Scale(k) /\ LatencyValue(r, h) = LatencyValue(r, k)
         /\ QualityPart(r, h) = QualityPart(r, k)
         /\ LatencyPart(r, h) = LatencyPart(r, k)
         /\ CostPart(r, h) = CostPart(r, k)
<1>1. Scale(h) = Scale(k)
  BY DEF Scale
<1>2. LatencyValue(r, h) = LatencyValue(r, k)
  BY <1>1 DEF LatencyValue
<1> QED
  BY <1>1, <1>2 DEF QualityPart, LatencyPart, CostPart

LEMMA ClampOrder ==
  ASSUME NEW x \in Int, NEW y \in Int, x < y
  PROVE  Clamp(x) \in Int /\ Clamp(y) \in Int /\ Clamp(x) <= Clamp(y)
BY DEF Clamp, Positive

LEMMA HintTypes ==
  ASSUME NEW h \in Hints
  PROVE  h.quality \in Int /\ h.cost \in Int /\ h.limited \in BOOLEAN /\ h.budget \in Int
BY DEF Hints

\* At the same budget and cost hint, more quality asked for is no less given.
LEMMA QualityWeighs ==
  ASSUME NEW U \in SUBSET Routes, NEW h \in Hints, NEW k \in Hints,
         h.limited = k.limited, h.budget = k.budget,
         h.cost = k.cost, h.quality <= k.quality,
         NEW r \in Best(U, h), NEW s \in Best(U, k)
  PROVE  Quality[r] <= Quality[s]
<1> DEFINE x == 100 + h.quality
           y == 100 + k.quality
           part(o) == QualityPart(o, h)
           rest(o) == LatencyPart(o, h) + (100 + 4 * h.cost) * CostPart(o, h)
<1>1. x \in Int /\ y \in Int /\ x <= y /\ 100 + 4 * h.cost \in Int
  BY HintTypes
<1>2. r \in Routes /\ s \in Routes /\ Quality[r] \in Int /\ Quality[s] \in Int
  BY ScoreAssumption DEF Best
<1>3. \A o \in Routes : part(o) \in Int /\ rest(o) \in Int
  BY <1>1, PartTypes
<1>4. \A o \in Routes : Score(o, h) = x * part(o) + rest(o) /\ Score(o, k) = y * part(o) + rest(o)
  <2> TAKE o \in Routes
  <2>1. Score(o, h) = x * part(o) + rest(o)
    BY ScoreParts
  <2>2. Score(o, k) = y * QualityPart(o, k)
                      + (LatencyPart(o, k) + (100 + 4 * k.cost) * CostPart(o, k))
    BY ScoreParts
  <2> QED BY <2>1, <2>2, SameBudget
<1> HIDE DEF x, y, part, rest
<1>5. Score(r, h) >= Score(s, h) /\ Score(s, k) >= Score(r, k)
  BY BestScores
<1>6. CASE \A o \in Routes : Score(o, h) = Score(o, k)
  BY <1>2, <1>6, BestUnique
<1>7. CASE \E o \in Routes : Score(o, h) # Score(o, k)
  <2>1. PICK o \in Routes : x * part(o) # y * part(o)
    BY <1>4, <1>7
  <2>2. x < y
    BY <1>1, <2>1
  <2>3. Scale(h) \in Nat \ {0}
    <3>1. CASE Scale(h) = 0
      <4>1. part(o) = 0
        BY <3>1, ScoreAssumption DEF part, QualityPart
      <4> QED BY <1>1, <2>1, <4>1
    <3> QED BY <1>2, <3>1, PartTypes
  <2>4. part(r) <= part(s)
    BY <1>1, <1>2, <1>3, <1>4, <1>5, <2>2, HeavierWins
  <2>5. (5 * Scale(h)) * Quality[r] <= (5 * Scale(h)) * Quality[s]
    BY <2>4 DEF part, QualityPart
  <2> QED BY <1>2, <2>3, <2>5, Cancelled
<1> QED
  BY <1>6, <1>7

\* At the same budget and quality hint, the more a client cares about cost, the less
\* dear its route.
LEMMA CostWeighs ==
  ASSUME NEW U \in SUBSET Routes, NEW h \in Hints, NEW k \in Hints,
         h.limited = k.limited, h.budget = k.budget,
         h.quality = k.quality, h.cost <= k.cost,
         NEW r \in Best(U, h), NEW s \in Best(U, k)
  PROVE  CostValue(r) <= CostValue(s)
<1> DEFINE x == 100 + 4 * h.cost
           y == 100 + 4 * k.cost
           part(o) == CostPart(o, h)
           rest(o) == LatencyPart(o, h) + (100 + h.quality) * QualityPart(o, h)
<1>1. x \in Int /\ y \in Int /\ x <= y /\ 100 + h.quality \in Int
  BY HintTypes
<1>2. r \in Routes /\ s \in Routes /\ CostValue(r) \in Nat /\ CostValue(s) \in Nat
  BY PartTypes DEF Best
<1>3. \A o \in Routes : part(o) \in Int /\ rest(o) \in Int
  BY <1>1, PartTypes
<1>4. \A o \in Routes : Score(o, h) = x * part(o) + rest(o) /\ Score(o, k) = y * part(o) + rest(o)
  <2> TAKE o \in Routes
  <2>1. /\ Score(o, h) = (100 + h.quality) * QualityPart(o, h)
                         + (LatencyPart(o, h) + x * CostPart(o, h))
        /\ Score(o, k) = (100 + k.quality) * QualityPart(o, k)
                         + (LatencyPart(o, k) + y * CostPart(o, k))
    BY ScoreParts
  <2>2. /\ QualityPart(o, h) = QualityPart(o, k) /\ LatencyPart(o, h) = LatencyPart(o, k)
        /\ CostPart(o, h) = CostPart(o, k)
    BY SameBudget
  <2>3. /\ (100 + h.quality) * QualityPart(o, h) \in Int /\ LatencyPart(o, h) \in Int
        /\ x * part(o) \in Int /\ y * part(o) \in Int
    BY <1>1, <1>3, PartTypes
  <2> QED BY <2>1, <2>2, <2>3
<1> HIDE DEF x, y, part, rest
<1>5. Score(r, h) >= Score(s, h) /\ Score(s, k) >= Score(r, k)
  BY BestScores
<1>6. CASE \A o \in Routes : Score(o, h) = Score(o, k)
  BY <1>2, <1>6, BestUnique
<1>7. CASE \E o \in Routes : Score(o, h) # Score(o, k)
  <2>1. PICK o \in Routes : x * part(o) # y * part(o)
    BY <1>4, <1>7
  <2>2. x < y
    BY <1>1, <2>1
  <2>3. Scale(h) \in Nat \ {0}
    <3>1. CASE Scale(h) = 0
      <4>1. part(o) = 0
        BY <3>1, PartTypes DEF part, CostPart
      <4> QED BY <1>1, <2>1, <4>1
    <3> QED BY <1>2, <3>1, PartTypes
  <2>4. part(r) <= part(s)
    BY <1>1, <1>2, <1>3, <1>4, <1>5, <2>2, HeavierWins
  <2>5. (5 * Scale(h)) * CostValue(r) <= (5 * Scale(h)) * CostValue(s)
    BY <1>2, <2>3, <2>4 DEF part, CostPart
  <2> QED BY <1>2, <2>3, <2>5, Cancelled
<1> QED
  BY <1>6, <1>7

\* Whatever is usable, the choice follows the hints.
THEOREM SteerTheorem == Spec => []HintsSteer
<1>1. ASSUME NEW U \in SUBSET Routes PROVE Steers(U)
  <2> SUFFICES ASSUME NEW one \in Headers, NEW two \in Headers,
                      NEW r \in Best(U, Hinted(one)), NEW s \in Best(U, Hinted(two))
               PROVE  /\ Raised(one, two, "quality") => Quality[r] <= Quality[s]
                      /\ Raised(one, two, "cost") => CostValue(r) <= CostValue(s)
    BY DEF Steers
  <2> DEFINE h == Hinted(one)
             k == Hinted(two)
  <2>1. /\ h \in Hints /\ k \in Hints /\ one \in Hints /\ two \in Hints
        /\ h = [one EXCEPT !.quality = Clamp(one.quality), !.cost = Clamp(one.cost)]
        /\ k = [two EXCEPT !.quality = Clamp(two.quality), !.cost = Clamp(two.cost)]
    BY HintedType
  <2>2. ASSUME Raised(one, two, "quality")
        PROVE  /\ h.cost = k.cost /\ h.limited = k.limited /\ h.budget = k.budget
               /\ h.quality <= k.quality
    <3>1. one.quality < two.quality /\ two = [one EXCEPT !.quality = two.quality]
      BY <2>2 DEF Raised
    <3>2. /\ h.quality = Clamp(one.quality) /\ k.quality = Clamp(two.quality)
          /\ h.cost = k.cost /\ h.limited = k.limited /\ h.budget = k.budget
      BY <2>1, <3>1 DEF Hints
    <3> QED BY <2>1, <3>1, <3>2, HintTypes, ClampOrder
  <2>3. ASSUME Raised(one, two, "cost")
        PROVE  /\ h.quality = k.quality /\ h.limited = k.limited /\ h.budget = k.budget
               /\ h.cost <= k.cost
    <3>1. one.cost < two.cost /\ two = [one EXCEPT !.cost = two.cost]
      BY <2>3 DEF Raised
    <3>2. /\ h.cost = Clamp(one.cost) /\ k.cost = Clamp(two.cost)
          /\ h.quality = k.quality /\ h.limited = k.limited /\ h.budget = k.budget
      BY <2>1, <3>1 DEF Hints
    <3> QED BY <2>1, <3>1, <3>2, HintTypes, ClampOrder
  <2> HIDE DEF h, k
  <2>4. r \in Best(U, h) /\ s \in Best(U, k)
    BY DEF h, k
  <2> QED
    BY <2>1, <2>2, <2>3, <2>4, QualityWeighs, CostWeighs
<1>2. HintsSteer
  BY <1>1 DEF HintsSteer, Steered, UsableRoutes
<1> QED
  BY <1>2, PTL
================================================================================
