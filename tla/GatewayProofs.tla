----------------------------- MODULE GatewayProofs -----------------------------
(***************************************************************************)
(* Proofs about RateLimiter, Metrics and Gateway, for any requests, keys,  *)
(* limit and window.                                                       *)
(***************************************************************************)
EXTENDS Gateway, FiniteSetTheorems, TLAPS

--------------------------------------------------------------------------------
(* The limiter by itself.                                                  *)

\* Timestamps are of granted requests of their key, none lies ahead, and a grant
\* that a window ending now or later can hold is still there.
StampsComplete ==
  /\ \A k \in Keys : stamps[k] \subseteq Grants(k)
  /\ \A q \in Requests : at[q] <= now
  /\ \A k \in Keys : \A q \in Grants(k) : at[q] >= now - WindowLen => q \in stamps[k]

LimiterInv == LimiterTypeOK /\ StampsComplete /\ WindowBound

\* The grants of k in the window that starts at t.
InWindow(k, t) == {q \in Grants(k) : at[q] \in t..t + WindowLen}

LEMMA RequestsFinite ==
  ASSUME NEW S, S \subseteq Requests
  PROVE  IsFiniteSet(S) /\ Cardinality(S) \in Nat
BY LimiterAssumption, FS_Subset, FS_CardinalityType

\* What is active is what was granted lately.
LEMMA ActiveIsLately ==
  ASSUME LimiterTypeOK, StampsComplete, NEW k \in Keys
  PROVE  Active(k) = {q \in Grants(k) : at[q] >= now - WindowLen}
BY DEF Active, StampsComplete, LimiterTypeOK

LEMMA LimiterInitial == LimiterInit => LimiterInv
<1> SUFFICES ASSUME LimiterInit PROVE LimiterInv
  OBVIOUS
<1> USE LimiterAssumption DEF LimiterInit, Never
<1>1. LimiterTypeOK
  BY DEF LimiterTypeOK
<1>2. \A k \in Keys : Grants(k) = {}
  BY DEF Grants
<1>3. StampsComplete
  BY <1>2 DEF StampsComplete
<1>4. \A k \in Keys, t \in 0..MaxTime : {q \in Grants(k) : at[q] \in t..t + WindowLen} = {}
  BY <1>2
<1>5. Cardinality({}) <= MaxRequests
  BY FS_EmptySet
<1>6. WindowBound
  BY <1>4, <1>5, Zenon DEF WindowBound
<1> QED
  BY <1>1, <1>3, <1>6 DEF LimiterInv

\* A grant leaves the limit of every window intact: a window that holds it holds,
\* besides, only what was active.
LEMMA AllowStep ==
  ASSUME LimiterInv, NEW q \in Requests, Allow(q)
  PROVE  LimiterInv'
<1> DEFINE k == Header[q]
<1> USE LimiterAssumption DEF Never
<1>1. /\ k \in Keys /\ at[q] = Never /\ now \in 0..MaxTime /\ now' = now
      /\ stamps' = [stamps EXCEPT ![k] = Active(k) \cup {q}]
      /\ at' = [at EXCEPT ![q] = now]
  BY DEF Allow, LimiterInv, LimiterTypeOK
<1>2. LimiterTypeOK'
  BY <1>1 DEF LimiterInv, LimiterTypeOK, Active
<1>3. /\ at'[q] = now /\ \A p \in Requests \ {q} : at'[p] = at[p]
      /\ stamps'[k] = Active(k) \cup {q} /\ \A j \in Keys \ {k} : stamps'[j] = stamps[j]
  BY <1>1 DEF LimiterInv, LimiterTypeOK
<1>4. Grants(k)' = Grants(k) \cup {q} /\ \A j \in Keys \ {k} : Grants(j)' = Grants(j)
  BY <1>1, <1>3 DEF Grants
<1>5. StampsComplete'
  BY <1>1, <1>3, <1>4 DEF LimiterInv, StampsComplete, Active, Grants
<1>6. WindowBound'
  <2> SUFFICES ASSUME NEW j \in Keys, NEW t \in 0..MaxTime
               PROVE  Cardinality(InWindow(j, t)') <= MaxRequests
    BY DEF WindowBound, InWindow
  <2>1. Cardinality(InWindow(j, t)) <= MaxRequests
    BY DEF LimiterInv, WindowBound, InWindow
  <2>2. CASE j # k \/ now \notin t..t + WindowLen
    <3>1. InWindow(j, t)' = InWindow(j, t)
      BY <1>1, <1>3, <1>4, <2>2 DEF InWindow, Grants
    <3> QED BY <2>1, <3>1
  <2>3. CASE j = k /\ now \in t..t + WindowLen
    <3>1. InWindow(k, t)' \subseteq Active(k) \cup {q}
      BY <1>1, <1>3, <1>4, <2>3, ActiveIsLately
         DEF InWindow, LimiterInv, StampsComplete, Grants, LimiterTypeOK
    <3>2. /\ IsFiniteSet(Active(k)) /\ Cardinality(Active(k)) \in Nat /\ q \notin Active(k)
      BY <1>1, RequestsFinite DEF Active, LimiterInv, LimiterTypeOK, StampsComplete, Grants
    <3>3. /\ IsFiniteSet(Active(k) \cup {q})
          /\ Cardinality(Active(k) \cup {q}) = Cardinality(Active(k)) + 1
      BY <3>2, FS_AddElement
    <3>4. Cardinality(Active(k)) < MaxRequests
      BY DEF Allow
    <3>5. Cardinality(InWindow(k, t)') <= Cardinality(Active(k) \cup {q})
          /\ Cardinality(InWindow(k, t)') \in Nat
      BY <3>1, <3>3, FS_Subset, FS_CardinalityType
    <3> QED BY <2>3, <3>2, <3>3, <3>4, <3>5
  <2> QED BY <2>2, <2>3
<1> QED
  BY <1>2, <1>5, <1>6 DEF LimiterInv

LEMMA RefuseStep ==
  ASSUME LimiterInv, NEW q \in Requests, Refuse(q)
  PROVE  LimiterInv'
<1> DEFINE k == Header[q]
<1>1. /\ k \in Keys /\ now' = now /\ at' = at
      /\ stamps' = [stamps EXCEPT ![k] = Active(k)]
  BY LimiterAssumption DEF Refuse
<1>2. stamps'[k] = Active(k) /\ \A j \in Keys \ {k} : stamps'[j] = stamps[j]
  BY <1>1 DEF LimiterInv, LimiterTypeOK
<1>3. LimiterTypeOK'
  BY <1>1 DEF LimiterInv, LimiterTypeOK, Active
<1>4. \A j \in Keys : Grants(j)' = Grants(j)
  BY <1>1 DEF Grants
<1>5. StampsComplete'
  BY <1>1, <1>2, <1>4, ActiveIsLately DEF LimiterInv, StampsComplete
<1>6. WindowBound'
  BY <1>1, <1>4 DEF LimiterInv, WindowBound
<1> QED
  BY <1>3, <1>5, <1>6 DEF LimiterInv

LEMMA LimiterStep == LimiterInv /\ [LimiterNext]_limiterVars => LimiterInv'
<1> SUFFICES ASSUME LimiterInv, [LimiterNext]_limiterVars PROVE LimiterInv'
  OBVIOUS
<1>1. CASE UNCHANGED limiterVars
  BY <1>1 DEF limiterVars, LimiterInv, LimiterTypeOK, StampsComplete, WindowBound, Grants
<1>2. CASE Tick
  <2>1. \A k \in Keys : Grants(k)' = Grants(k)
    BY <1>2 DEF Tick, Grants
  <2>2. LimiterTypeOK'
    BY <1>2, LimiterAssumption DEF Tick, LimiterInv, LimiterTypeOK
  <2>3. StampsComplete'
    BY <1>2, <2>1, LimiterAssumption
       DEF Tick, LimiterInv, LimiterTypeOK, StampsComplete, Never, Grants
  <2>4. WindowBound'
    BY <1>2, <2>1 DEF Tick, LimiterInv, WindowBound
  <2> QED BY <2>2, <2>3, <2>4 DEF LimiterInv
<1> QED
  BY <1>1, <1>2, AllowStep, RefuseStep DEF LimiterNext

\* The bound holds for the limiter alone, whatever uses it.
THEOREM LimiterTheorem == LimiterSpec => []WindowBound
<1>1. LimiterInv => WindowBound
  BY DEF LimiterInv
<1> QED
  BY <1>1, LimiterInitial, LimiterStep, PTL DEF LimiterSpec

--------------------------------------------------------------------------------
(* The limiter in the application.                                         *)

LEMMA NextLimits == [Next]_vars => [LimiterNext]_limiterVars
<1> SUFFICES ASSUME [Next]_vars PROVE [LimiterNext]_limiterVars
  OBVIOUS
<1>1. CASE UNCHANGED vars
  BY <1>1 DEF vars
<1>2. CASE TimePasses
  BY <1>2 DEF TimePasses, LimiterNext
<1>3. ASSUME NEW q \in Requests, Admit(q) PROVE [LimiterNext]_limiterVars
  BY <1>3 DEF Admit, LimiterNext
<1>4. ASSUME NEW q \in Requests,
             Receive(q) \/ Finish(q) \/ Observe(q) \/ Clock(q) \/ StreamDelta(q) \/ StreamEnd(q)
      PROVE  UNCHANGED limiterVars
  BY <1>4 DEF Receive, Finish, Observe, Clock, StreamDelta, StreamEnd, limiterVars
<1> QED
  BY <1>1, <1>2, <1>3, <1>4 DEF Next

\* Every behaviour of the application is one of the limiter.
THEOREM GatewayUsesLimiter == Spec => LimiterSpec
<1>1. Init => LimiterInit
  BY DEF Init
<1> QED
  BY <1>1, NextLimits, PTL DEF Spec, LimiterSpec

LEMMA LimiterAlways == Spec => []LimiterInv
BY GatewayUsesLimiter, LimiterInitial, LimiterStep, PTL DEF LimiterSpec

\* No key is granted more than its limit in any window of that length, wherever
\* the window starts and however requests interleave.
THEOREM WindowTheorem == Spec => []WindowBound
BY GatewayUsesLimiter, LimiterTheorem, PTL

--------------------------------------------------------------------------------
(* Requests and their responses.                                           *)

\* A response there is from the moment it is made.
Responses ==
  \A q \in Requests :
    IF phase[q] \in {"new", "auth", "waiting"} THEN status[q] = NoStatus
    ELSE status[q] \in Codes

GatewayInv == LimiterInv /\ TypeOK /\ Responses

\* What an action of q leaves alone.
LEMMA Moved ==
  ASSUME TypeOK, NEW q \in Requests, NEW to \in Phases, Move(q, to)
  PROVE  /\ phase'[q] = to /\ \A p \in Requests \ {q} : phase'[p] = phase[p]
         /\ phase' \in [Requests -> Phases]
         /\ status' = status /\ deltas' = deltas
BY DEF Move, TypeOK

LEMMA Responded ==
  ASSUME TypeOK, NEW q \in Requests, NEW code \in Codes, Respond(q, code)
  PROVE  /\ phase'[q] = "responding" /\ \A p \in Requests \ {q} : phase'[p] = phase[p]
         /\ status'[q] = code /\ \A p \in Requests \ {q} : status'[p] = status[p]
         /\ phase' \in [Requests -> Phases]
         /\ status' \in [Requests -> {NoStatus} \cup Codes]
         /\ deltas' = deltas
BY DEF Respond, TypeOK, Phases

LEMMA PhaseNames ==
  {"new", "auth", "waiting", "responding", "counted", "streaming", "done"} = Phases
BY DEF Phases

\* One case for each way the phase of a request may change.
LEMMA RequestStep ==
  ASSUME TypeOK, NEW q \in Requests,
         Receive(q) \/ Admit(q) \/ Finish(q) \/ Observe(q) \/ Clock(q) \/ StreamEnd(q)
  PROVE  \/ \E to \in Phases : Move(q, to)
         \/ \E code \in Codes : Respond(q, code)
<1>1. CASE Receive(q)
  BY <1>1, PhaseNames DEF Receive, Codes
<1>2. CASE Admit(q)
  BY <1>2, PhaseNames DEF Admit, Early, Codes
<1>3. CASE Finish(q)
  BY <1>3 DEF Finish, Late, Codes
<1>4. CASE Observe(q)
  BY <1>4, PhaseNames DEF Observe
<1>5. CASE Clock(q)
  BY <1>5, PhaseNames DEF Clock
<1>6. CASE StreamEnd(q)
  BY <1>6, PhaseNames DEF StreamEnd
<1> QED
  BY <1>1, <1>2, <1>3, <1>4, <1>5, <1>6

LEMMA MetricsTypes == MetricsTypeOK /\ [Next]_vars /\ TypeOK /\ Responses => MetricsTypeOK'
<1> SUFFICES ASSUME MetricsTypeOK, [Next]_vars, TypeOK, Responses PROVE MetricsTypeOK'
  OBVIOUS
<1> USE DEF MetricsTypeOK
<1>1. CASE UNCHANGED metricsVars
  BY <1>1 DEF metricsVars
<1>2. CASE RecordLatency
  BY <1>2 DEF RecordLatency
<1>3. CASE RecordTtft
  BY <1>3 DEF RecordTtft
<1>4. CASE RecordInterToken
  BY <1>4 DEF RecordInterToken
<1>5. CASE RecordTokens
  BY <1>5 DEF RecordTokens
<1>6. ASSUME NEW code \in Codes, RecordRequest(code) PROVE MetricsTypeOK'
  <2>1. code \div 100 \in 1..5
    BY DEF Codes
  <2>2. byStatus'  \in [1..5 -> Nat]
    BY <1>6, <2>1 DEF RecordRequest
  <2> QED BY <1>6, <2>2 DEF RecordRequest, sampleVars
<1>7. ASSUME NEW q \in Requests, Observe(q) PROVE MetricsTypeOK'
  BY <1>6, <1>7 DEF Observe, Responses
<1>8. CASE UNCHANGED vars
  BY <1>1, <1>8 DEF vars
<1> QED
  BY <1>1, <1>2, <1>3, <1>4, <1>5, <1>7, <1>8
     DEF Next, TimePasses, Receive, Admit, Finish, Clock, StreamDelta, StreamEnd

LEMMA RequestTypes ==
  ASSUME GatewayInv, [Next]_vars
  PROVE  /\ phase' \in [Requests -> Phases]
         /\ status' \in [Requests -> {NoStatus} \cup Codes]
         /\ deltas' \in [Requests -> 0..MaxDeltas]
<1>1. TypeOK
  BY DEF GatewayInv
<1>2. CASE UNCHANGED requestVars
  BY <1>1, <1>2 DEF TypeOK, requestVars
<1>3. ASSUME NEW q \in Requests,
             Receive(q) \/ Admit(q) \/ Finish(q) \/ Observe(q) \/ Clock(q) \/ StreamEnd(q)
      PROVE  /\ phase' \in [Requests -> Phases]
             /\ status' \in [Requests -> {NoStatus} \cup Codes]
             /\ deltas' = deltas
  <2>1. CASE \E to \in Phases : Move(q, to)
    BY <1>1, <2>1, Moved DEF TypeOK
  <2>2. CASE \E code \in Codes : Respond(q, code)
    BY <1>1, <2>2, Responded
  <2> QED BY <1>1, <1>3, <2>1, <2>2, RequestStep
<1>4. ASSUME NEW q \in Requests, StreamDelta(q)
      PROVE  /\ phase' = phase /\ status' = status /\ deltas' \in [Requests -> 0..MaxDeltas]
  BY <1>1, <1>4, GatewayAssumption DEF StreamDelta, TypeOK
<1>5. CASE UNCHANGED vars
  BY <1>2, <1>5 DEF vars
<1>6. CASE TimePasses
  BY <1>2, <1>6 DEF TimePasses
<1> QED
  BY <1>1, <1>3, <1>4, <1>5, <1>6 DEF Next, TypeOK

LEMMA ResponsesStep ==
  ASSUME GatewayInv, [Next]_vars
  PROVE  Responses'
<1>1. TypeOK /\ Responses
  BY DEF GatewayInv
<1>2. ASSUME NEW q \in Requests, NEW to \in Phases, Move(q, to),
             to \in {"new", "auth", "waiting"} <=> phase[q] \in {"new", "auth", "waiting"}
      PROVE  Responses'
  BY <1>1, <1>2, Moved DEF Responses
<1>3. ASSUME NEW q \in Requests, NEW code \in Codes, Respond(q, code)
      PROVE  Responses'
  BY <1>1, <1>3, Responded DEF Responses
<1>4. CASE UNCHANGED <<phase, status>>
  BY <1>1, <1>4 DEF Responses
<1>5. ASSUME NEW q \in Requests, Receive(q) PROVE Responses'
  <2>1. phase[q] = "new"
    BY <1>5 DEF Receive
  <2>2. Move(q, "waiting") \/ Move(q, "auth") \/ \E code \in Codes : Respond(q, code)
    BY <1>5 DEF Receive, Codes
  <2> QED BY <1>2, <1>3, <2>1, <2>2, PhaseNames
<1>6. ASSUME NEW q \in Requests, Admit(q) PROVE Responses'
  <2>1. phase[q] = "auth"
    BY <1>6 DEF Admit
  <2>2. Move(q, "waiting") \/ \E code \in Codes : Respond(q, code)
    BY <1>6 DEF Admit, Early, Codes
  <2> QED BY <1>2, <1>3, <2>1, <2>2, PhaseNames
<1>7. ASSUME NEW q \in Requests, Finish(q) PROVE Responses'
  <2>1. \E code \in Codes : Respond(q, code)
    BY <1>7 DEF Finish, Late, Codes
  <2> QED BY <1>3, <2>1
<1>8. ASSUME NEW q \in Requests, Observe(q) \/ Clock(q) \/ StreamEnd(q) PROVE Responses'
  <2>1. phase[q] \in {"responding", "counted", "streaming"}
    BY <1>8 DEF Observe, Clock, StreamEnd
  <2>2. Move(q, "done") \/ Move(q, "counted") \/ Move(q, "streaming")
    BY <1>8 DEF Observe, Clock, StreamEnd
  <2> QED BY <1>2, <2>1, <2>2, PhaseNames
<1>9. ASSUME NEW q \in Requests, StreamDelta(q) PROVE Responses'
  BY <1>4, <1>9 DEF StreamDelta
<1>10. CASE UNCHANGED vars \/ TimePasses
  BY <1>4, <1>10 DEF vars, requestVars, TimePasses
<1> QED
  BY <1>5, <1>6, <1>7, <1>8, <1>9, <1>10 DEF Next

LEMMA GatewayInitial == Init => GatewayInv
<1> SUFFICES ASSUME Init PROVE GatewayInv
  OBVIOUS
<1>1. LimiterInv
  BY LimiterInitial DEF Init
<1>2. MetricsTypeOK
  BY DEF Init, MetricsInit, MetricsTypeOK
<1>3. /\ phase \in [Requests -> Phases] /\ status \in [Requests -> {NoStatus} \cup Codes]
      /\ deltas \in [Requests -> 0..MaxDeltas]
  BY PhaseNames, GatewayAssumption DEF Init
<1>4. Responses
  BY DEF Init, Responses
<1> QED
  BY <1>1, <1>2, <1>3, <1>4 DEF GatewayInv, TypeOK, LimiterInv

LEMMA GatewayStep == GatewayInv /\ [Next]_vars => GatewayInv'
<1> SUFFICES ASSUME GatewayInv, [Next]_vars PROVE GatewayInv'
  OBVIOUS
<1>1. LimiterInv'
  BY NextLimits, LimiterStep DEF GatewayInv
<1>2. MetricsTypeOK'
  BY MetricsTypes DEF GatewayInv, TypeOK
<1> QED
  BY <1>1, <1>2, RequestTypes, ResponsesStep DEF GatewayInv, TypeOK, LimiterInv

LEMMA GatewayAlways == Spec => []GatewayInv
BY GatewayInitial, GatewayStep, PTL DEF Spec

\* Type correctness of the application, its limiter and its metrics.
THEOREM GatewayTypes == Spec => []TypeOK
<1>1. GatewayInv => TypeOK
  BY DEF GatewayInv
<1> QED
  BY <1>1, GatewayAlways, PTL

--------------------------------------------------------------------------------
(* Why requests are refused.                                               *)

\* The window that ends now is one of those that are bounded.
LEMMA LatelyBounded ==
  ASSUME LimiterInv, NEW k \in Keys
  PROVE  /\ Active(k) = {q \in Grants(k) : at[q] >= now - WindowLen}
         /\ Cardinality(Active(k)) \in Nat /\ Cardinality(Active(k)) <= MaxRequests
<1> DEFINE t == IF now >= WindowLen THEN now - WindowLen ELSE 0
<1>1. Active(k) = {q \in Grants(k) : at[q] >= now - WindowLen}
  BY ActiveIsLately DEF LimiterInv
<1>2. t \in 0..MaxTime /\ now <= t + WindowLen /\ now \in Nat
  BY LimiterAssumption DEF LimiterInv, LimiterTypeOK
<1>3. \A q \in Grants(k) : at[q] \in Nat /\ at[q] <= now
  BY DEF Grants, LimiterInv, LimiterTypeOK, StampsComplete
<1>4. Active(k) \subseteq InWindow(k, t)
  BY <1>1, <1>2, <1>3, LimiterAssumption DEF InWindow
<1>5. IsFiniteSet(InWindow(k, t)) /\ Cardinality(InWindow(k, t)) \in Nat
  BY RequestsFinite DEF InWindow, Grants
<1>6. Cardinality(InWindow(k, t)) <= MaxRequests
  BY <1>2 DEF LimiterInv, WindowBound, InWindow
<1>7. Cardinality(Active(k)) <= Cardinality(InWindow(k, t)) /\ Cardinality(Active(k)) \in Nat
  BY <1>4, <1>5, FS_Subset, FS_CardinalityType
<1> QED
  BY <1>1, <1>5, <1>6, <1>7, LimiterAssumption

\* A request with a valid key is refused if, and only if, its key has made as many
\* requests as it may in the window that ends now.
THEOREM CauseTheorem == Spec => RefusedForCause
<1> DEFINE Cause(q) ==
             LET lately == {p \in Grants(Header[q]) : at[p] >= now - WindowLen} IN
             /\ status'[q] = 429 <=> Cardinality(lately) = MaxRequests
             /\ Remaining(Header[q]) = MaxRequests - Cardinality(lately)
           Step == \A q \in Requests :
                     phase[q] = "auth" /\ phase'[q] # "auth" /\ Authorized(q) => Cause(q)
<1>1. ASSUME GatewayInv, [Next]_vars PROVE Step
  <2> SUFFICES ASSUME NEW q \in Requests,
                      phase[q] = "auth", phase'[q] # "auth", Authorized(q)
               PROVE  Cause(q)
    OBVIOUS
  <2>1. TypeOK /\ Responses /\ LimiterInv
    BY <1>1 DEF GatewayInv
  <2>2. Admit(q)
    <3>1. ASSUME NEW p \in Requests, StreamDelta(p) PROVE FALSE
      BY <3>1 DEF StreamDelta
    <3>2. ASSUME NEW p \in Requests, p # q,
                 Receive(p) \/ Admit(p) \/ Finish(p) \/ Observe(p) \/ Clock(p) \/ StreamEnd(p)
          PROVE  FALSE
      BY <2>1, <3>2, RequestStep, Moved, Responded
    <3>3. ~(Receive(q) \/ Finish(q) \/ Observe(q) \/ Clock(q) \/ StreamEnd(q))
      BY DEF Receive, Finish, Observe, Clock, StreamEnd
    <3>4. CASE UNCHANGED vars \/ TimePasses
      BY <3>4 DEF vars, requestVars, TimePasses
    <3> QED BY <1>1, <3>1, <3>2, <3>3, <3>4 DEF Next
  <2> DEFINE k == Header[q]
             made == Cardinality(Active(k))
  <2>3. /\ k \in Keys /\ made \in Nat /\ made <= MaxRequests
        /\ Active(k) = {p \in Grants(k) : at[p] >= now - WindowLen}
    BY <2>1, LatelyBounded, LimiterAssumption
  <2>4. status'[q] = 429 <=> made = MaxRequests
    <3>1. CASE Refuse(q) /\ Respond(q, 429)
      <4>1. made >= MaxRequests
        BY <3>1 DEF Refuse
      <4>2. status'[q] = 429
        BY <2>1, <3>1, Responded DEF Codes
      <4> QED BY <2>3, <4>1, <4>2, LimiterAssumption
    <3>2. CASE Allow(q) /\ (Move(q, "waiting") \/ \E code \in Early(q) : Respond(q, code))
      <4>1. made < MaxRequests
        BY <3>2 DEF Allow
      <4>2. CASE Move(q, "waiting")
        <5>1. status'[q] = NoStatus
          BY <2>1, <4>2 DEF Move, Responses
        <5> QED BY <2>3, <4>1, <5>1, LimiterAssumption DEF NoStatus
      <4>3. ASSUME NEW code \in Early(q), Respond(q, code)
            PROVE  status'[q] = 429 <=> made = MaxRequests
        <5>1. code \in Codes /\ code # 429
          BY DEF Early, Codes
        <5>2. status'[q] = code
          BY <2>1, <4>3, <5>1, Responded
        <5> QED BY <2>3, <4>1, <5>1, <5>2, LimiterAssumption
      <4> QED BY <3>2, <4>2, <4>3
    <3> QED BY <2>2, <3>1, <3>2 DEF Admit
  <2>5. Remaining(k) = MaxRequests - made
    BY <2>3, LimiterAssumption DEF Remaining
  <2> QED BY <2>3, <2>4, <2>5
<1>2. Spec => [][Step]_vars
  BY <1>1, GatewayAlways, PTL DEF Spec
<1> QED
  BY <1>2 DEF RefusedForCause

--------------------------------------------------------------------------------
(* The summary.                                                            *)

LEMMA OneMore ==
  ASSUME NEW S \in SUBSET Requests, NEW q \in Requests, q \notin S
  PROVE  /\ Cardinality(S) \in Nat /\ Cardinality(S \cup {q}) = Cardinality(S) + 1
BY RequestsFinite, FS_AddElement

LEMMA OneLess ==
  ASSUME NEW S \in SUBSET Requests, NEW q \in S
  PROVE  /\ Cardinality(S) \in Nat /\ Cardinality(S \ {q}) = Cardinality(S) - 1
BY RequestsFinite, FS_RemoveElement

\* The parts of the summary, and the sets they count.
WithClass(c) == {q \in Ended : status[q] \div 100 = c}
Raised == {q \in Ended : status[q] = 500}
Between == {q \in Ended : phase[q] = "counted"}
Begun == {q \in Requests : deltas[q] > 0}
LaterDeltas == {d \in Requests \X (2..MaxDeltas) : d[2] <= deltas[d[1]]}
Served == {q \in Requests : Kind[q] = "chat" /\ status[q] = 200}

EndsCounted ==
  /\ total = Cardinality(Ended)
  /\ \A c \in 1..5 : byStatus[c] = Cardinality(WithClass(c))
  /\ errors = byStatus[4] + byStatus[5]
  /\ latencies = total - Cardinality(Raised) - Cardinality(Between)
  /\ Cardinality(Between) <= 1

DeltasCounted == ttfts = Cardinality(Begun) /\ interTokens = Cardinality(LaterDeltas)

UsagesCounted == usages = Cardinality(Served)

LEMMA SummaryParts == SummaryCoherent <=> EndsCounted /\ DeltasCounted /\ UsagesCounted
BY DEF SummaryCoherent, EndsCounted, DeltasCounted, UsagesCounted,
       WithClass, Raised, Between, Begun, LaterDeltas, Served

LEMMA SummaryInitial == Init => SummaryCoherent
<1> SUFFICES ASSUME Init PROVE SummaryCoherent
  OBVIOUS
<1>1. /\ Ended = {} /\ Raised = {} /\ Between = {} /\ \A c \in 1..5 : WithClass(c) = {}
  BY DEF Init, Ended, Raised, Between, WithClass
<1>2. Begun = {} /\ LaterDeltas = {}
  BY GatewayAssumption DEF Init, Begun, LaterDeltas
<1>3. Served = {}
  BY DEF Init, Served, NoStatus
<1>4. Cardinality({}) = 0
  BY FS_EmptySet
<1>5. EndsCounted
  BY <1>1, <1>4 DEF EndsCounted, Init, MetricsInit
<1>6. DeltasCounted
  BY <1>2, <1>4 DEF DeltasCounted, Init, MetricsInit
<1>7. UsagesCounted
  BY <1>3, <1>4 DEF UsagesCounted, Init, MetricsInit
<1> QED
  BY <1>5, <1>6, <1>7, SummaryParts

endVars == <<total, errors, byStatus, latencies>>

\* Requests that have not ended may do as they like.
LEMMA EndsSteady ==
  ASSUME EndsCounted, UNCHANGED endVars, Ended' = Ended,
         \A q \in Ended : /\ status'[q] = status[q]
                          /\ phase'[q] = "counted" <=> phase[q] = "counted"
  PROVE  EndsCounted'
<1>1. \A c \in 1..5 : WithClass(c)' = WithClass(c)
  BY DEF WithClass
<1>2. Raised' = Raised /\ Between' = Between
  BY DEF Raised, Between
<1> QED
  BY <1>1, <1>2 DEF EndsCounted, endVars

\* record_request() counts one that ends.
LEMMA ObserveCounts ==
  ASSUME GatewayInv, EndsCounted, NEW q \in Requests, Observe(q)
  PROVE  EndsCounted'
<1>1. /\ TypeOK /\ Responses /\ MetricsTypeOK
  BY DEF GatewayInv, TypeOK
<1>2. /\ phase[q] = "responding" /\ q \notin Ended /\ RecordRequest(status[q])
      /\ \A p \in Requests : phase[p] # "counted"
  BY DEF Observe, LoopFree, Ended
<1> DEFINE code == status[q]
<1>3. /\ code \in Codes /\ code \div 100 \in 1..5
      /\ code >= 400 <=> code \div 100 \in {4, 5}
  BY <1>1, <1>2 DEF Responses, Codes
<1>4. /\ phase'[q] = IF code = 500 THEN "done" ELSE "counted"
      /\ \A p \in Requests \ {q} : phase'[p] = phase[p]
      /\ status' = status
  <2>1. (IF code = 500 THEN "done" ELSE "counted") \in Phases
    BY PhaseNames
  <2> QED BY <1>1, <2>1, Moved DEF Observe
<1>5. Ended' = Ended \cup {q}
  BY <1>4 DEF Ended
<1>6. \A c \in 1..5 :
        WithClass(c)' = IF c = code \div 100 THEN WithClass(c) \cup {q} ELSE WithClass(c)
  BY <1>4, <1>5 DEF WithClass
<1>7. /\ \A c \in 1..5 : q \notin WithClass(c) /\ WithClass(c) \subseteq Requests
      /\ Ended \subseteq Requests /\ Raised \subseteq Requests /\ q \notin Raised
  BY <1>2 DEF WithClass, Raised, Ended
<1>8. /\ total' = total + 1 /\ total \in Nat /\ errors \in Nat /\ latencies \in Nat
      /\ byStatus \in [1..5 -> Nat]
      /\ byStatus' = [byStatus EXCEPT ![code \div 100] = byStatus[code \div 100] + 1]
      /\ errors' = IF code >= 400 THEN errors + 1 ELSE errors
      /\ latencies' = latencies
  BY <1>1, <1>2 DEF RecordRequest, sampleVars, MetricsTypeOK
<1> HIDE DEF code
<1>9. total' = Cardinality(Ended')
  BY <1>2, <1>5, <1>7, <1>8, OneMore DEF EndsCounted
<1>10. \A c \in 1..5 : byStatus'[c] = Cardinality(WithClass(c)')
  <2> TAKE c \in 1..5
  <2>1. CASE c = code \div 100
    <3>1. byStatus'[c] = byStatus[c] + 1
      BY <1>3, <1>8, <2>1
    <3>2. Cardinality(WithClass(c)') = Cardinality(WithClass(c)) + 1
      <4> DEFINE S == WithClass(c)
      <4>1. S \in SUBSET Requests /\ q \notin S /\ WithClass(c)' = S \cup {q}
        BY <1>6, <1>7, <2>1
      <4> HIDE DEF S
      <4>2. Cardinality(S \cup {q}) = Cardinality(S) + 1
        BY <4>1, OneMore
      <4> QED BY <4>1, <4>2 DEF S
    <3> QED BY <3>1, <3>2 DEF EndsCounted
  <2>2. CASE c # code \div 100
    BY <1>3, <1>6, <1>8, <2>2 DEF EndsCounted
  <2> QED BY <2>1, <2>2
<1>11. errors' = byStatus'[4] + byStatus'[5]
  BY <1>3, <1>8 DEF EndsCounted
<1>12. Between = {} /\ Cardinality(Between) = 0
  BY <1>2, FS_EmptySet DEF Between, Ended
<1>13. CASE code = 500
  <2>1. status[q] = 500 /\ status'[q] = 500 /\ phase'[q] = "done"
    BY <1>4, <1>13 DEF code
  <2>2. Raised' = Raised \cup {q}
    BY <2>1, <1>4, <1>5 DEF Raised
  <2>3. Between' = {}
    BY <2>1, <1>2, <1>4, <1>5 DEF Between, Ended
  <2>4. Raised' = Raised \cup {q} /\ Between' = {}
    BY <2>2, <2>3
  <2>5. Cardinality(Raised') = Cardinality(Raised) + 1 /\ Cardinality(Raised) \in Nat
    BY <1>7, <2>4, OneMore
  <2>6. Cardinality(Between') = 0
    BY <2>4, FS_EmptySet
  <2>7. latencies' = total' - Cardinality(Raised') - Cardinality(Between')
    BY <1>8, <1>12, <2>5, <2>6 DEF EndsCounted
  <2> QED BY <1>9, <1>10, <1>11, <2>6, <2>7 DEF EndsCounted
<1>14. CASE code # 500
  <2>1. Raised' = Raised /\ Between' = {q}
    BY <1>2, <1>4, <1>5, <1>14 DEF Raised, Between, code, Ended
  <2>2. Cardinality(Between') = 1 /\ Cardinality(Raised) \in Nat
    BY <1>7, <2>1, FS_Singleton, RequestsFinite
  <2>3. latencies' = total' - Cardinality(Raised') - Cardinality(Between')
    BY <1>8, <1>12, <2>1, <2>2 DEF EndsCounted
  <2> QED BY <1>9, <1>10, <1>11, <2>2, <2>3 DEF EndsCounted
<1> QED
  BY <1>13, <1>14

\* record_latency() makes up for the second lock.
LEMMA ClockCounts ==
  ASSUME GatewayInv, EndsCounted, NEW q \in Requests, Clock(q)
  PROVE  EndsCounted'
<1>1. TypeOK /\ MetricsTypeOK
  BY DEF GatewayInv, TypeOK
<1>2. /\ phase[q] = "counted" /\ q \in Ended /\ q \in Between /\ RecordLatency
  BY DEF Clock, Ended, Between
<1>3. /\ phase'[q] \in {"streaming", "done"}
      /\ \A p \in Requests \ {q} : phase'[p] = phase[p]
      /\ status' = status
  BY <1>1, Moved, PhaseNames DEF Clock
<1>4. Ended' = Ended
  BY <1>2, <1>3 DEF Ended
<1>5. /\ \A c \in 1..5 : WithClass(c)' = WithClass(c)
      /\ Raised' = Raised /\ Between' = Between \ {q}
  BY <1>3, <1>4 DEF WithClass, Raised, Between, Ended
<1>6. /\ Cardinality(Between) \in Nat
      /\ Cardinality(Between') = Cardinality(Between) - 1
  BY <1>2, <1>5, OneLess DEF Between, Ended
<1>7. Cardinality(Raised) \in Nat
  BY RequestsFinite DEF Raised, Ended
<1>8. /\ latencies' = latencies + 1 /\ total' = total /\ errors' = errors
      /\ byStatus' = byStatus /\ total \in Nat /\ latencies \in Nat
  BY <1>1, <1>2 DEF RecordLatency, MetricsTypeOK
<1> QED
  BY <1>4, <1>5, <1>6, <1>7, <1>8 DEF EndsCounted

LEMMA EndsStep ==
  ASSUME GatewayInv, EndsCounted, [Next]_vars
  PROVE  EndsCounted'
<1>1. TypeOK
  BY DEF GatewayInv
<1>2. ASSUME NEW q \in Requests,
             (\E to \in Phases : to \notin {"counted", "streaming", "done"} /\ Move(q, to))
               \/ (\E code \in Codes : Respond(q, code)),
             phase[q] \notin {"counted", "streaming", "done"},
             UNCHANGED endVars
      PROVE  EndsCounted'
  <2>1. /\ phase'[q] \notin {"counted", "streaming", "done"}
        /\ \A p \in Requests \ {q} : phase'[p] = phase[p] /\ status'[p] = status[p]
    BY <1>1, <1>2, Moved, Responded
  <2>2. Ended' = Ended /\ q \notin Ended
    BY <1>2, <2>1 DEF Ended
  <2>3. \A p \in Ended : /\ status'[p] = status[p]
                         /\ phase'[p] = "counted" <=> phase[p] = "counted"
    BY <2>1, <2>2 DEF Ended
  <2> QED BY <1>2, <2>2, <2>3, EndsSteady
<1>3. ASSUME NEW q \in Requests, Receive(q) PROVE EndsCounted'
  <2>1. Move(q, "waiting") \/ Move(q, "auth") \/ \E code \in Codes : Respond(q, code)
    BY <1>3 DEF Receive, Codes
  <2>2. UNCHANGED endVars /\ phase[q] = "new"
    BY <1>3 DEF Receive, metricsVars, endVars
  <2> QED BY <1>2, <2>1, <2>2, PhaseNames
<1>4. ASSUME NEW q \in Requests, Admit(q) PROVE EndsCounted'
  <2>1. Move(q, "waiting") \/ \E code \in Codes : Respond(q, code)
    BY <1>4 DEF Admit, Early, Codes
  <2>2. UNCHANGED endVars /\ phase[q] = "auth"
    BY <1>4 DEF Admit, metricsVars, endVars
  <2> QED BY <1>2, <2>1, <2>2, PhaseNames
<1>5. ASSUME NEW q \in Requests, Finish(q) PROVE EndsCounted'
  <2>1. \E code \in Codes : Respond(q, code)
    BY <1>5 DEF Finish, Late, Codes
  <2>2. UNCHANGED endVars /\ phase[q] = "waiting"
    BY <1>5 DEF Finish, RecordTokens, metricsVars, endVars
  <2> QED BY <1>2, <2>1, <2>2
<1>6. CASE UNCHANGED <<phase, status, total, errors, byStatus, latencies>>
  <2>1. Ended' = Ended
    BY <1>6 DEF Ended
  <2> QED BY <1>6, <2>1, EndsSteady DEF endVars
<1>7. ASSUME NEW q \in Requests, StreamDelta(q) PROVE EndsCounted'
  BY <1>6, <1>7 DEF StreamDelta, RecordTtft, RecordInterToken
<1>8. ASSUME NEW q \in Requests, StreamEnd(q) PROVE EndsCounted'
  <2>1. /\ phase[q] = "streaming" /\ phase'[q] = "done" /\ status' = status
        /\ \A p \in Requests \ {q} : phase'[p] = phase[p]
    BY <1>1, <1>8, Moved, PhaseNames DEF StreamEnd
  <2>2. Ended' = Ended
    BY <2>1 DEF Ended
  <2>3. \A p \in Ended : /\ status'[p] = status[p]
                         /\ phase'[p] = "counted" <=> phase[p] = "counted"
    BY <2>1 DEF Ended
  <2>4. UNCHANGED endVars
    BY <1>8 DEF StreamEnd, metricsVars, endVars
  <2> QED BY <2>2, <2>3, <2>4, EndsSteady
<1>9. CASE UNCHANGED vars \/ TimePasses
  BY <1>6, <1>9 DEF vars, requestVars, metricsVars, TimePasses
<1> QED
  BY <1>3, <1>4, <1>5, <1>7, <1>8, <1>9, ObserveCounts, ClockCounts DEF Next

\* What keeps no delta and no sample of one leaves their counts alone.
LEMMA DeltasSteady ==
  DeltasCounted /\ UNCHANGED <<deltas, ttfts, interTokens>> => DeltasCounted'
BY DEF DeltasCounted, Begun, LaterDeltas

LEMMA DeltaCounts ==
  ASSUME GatewayInv, DeltasCounted, NEW q \in Requests, StreamDelta(q)
  PROVE  DeltasCounted'
<1>1. TypeOK /\ MetricsTypeOK
  BY DEF GatewayInv, TypeOK
<1>2. /\ deltas[q] \in 0..MaxDeltas /\ deltas[q] < MaxDeltas
      /\ deltas'[q] = deltas[q] + 1
      /\ \A p \in Requests : deltas[p] \in 0..MaxDeltas
      /\ \A p \in Requests \ {q} : deltas'[p] = deltas[p]
  BY <1>1 DEF StreamDelta, TypeOK
<1>3. CASE deltas[q] = 0
  <2>1. ttfts' = ttfts + 1 /\ interTokens' = interTokens
    BY <1>3 DEF StreamDelta, RecordTtft
  <2>2. Begun' = Begun \cup {q} /\ q \notin Begun /\ Begun \in SUBSET Requests
    BY <1>2, <1>3 DEF Begun
  <2>3. Cardinality(Begun') = Cardinality(Begun) + 1
    BY <2>2, OneMore
  <2>4. LaterDeltas' = LaterDeltas
    BY <1>2, <1>3, GatewayAssumption DEF LaterDeltas
  <2> QED BY <2>1, <2>3, <2>4 DEF DeltasCounted
<1>4. CASE deltas[q] # 0
  <2> DEFINE new == <<q, deltas[q] + 1>>
  <2>1. ttfts' = ttfts /\ interTokens' = interTokens + 1
    BY <1>4 DEF StreamDelta, RecordInterToken
  <2>2. Begun' = Begun
    BY <1>2, <1>4 DEF Begun
  <2>3. LaterDeltas' = LaterDeltas \cup {new} /\ new \notin LaterDeltas
    <3>1. \A d \in Requests \X (2..MaxDeltas) :
            d[2] <= deltas'[d[1]] <=> d[2] <= deltas[d[1]] \/ d = new
      <4> TAKE d \in Requests \X (2..MaxDeltas)
      <4>1. d = <<d[1], d[2]>> /\ d[1] \in Requests /\ d[2] \in Int
        OBVIOUS
      <4>2. CASE d[1] = q
        BY <1>2, <4>1, <4>2
      <4>3. CASE d[1] # q
        BY <1>2, <4>1, <4>3
      <4> QED BY <4>2, <4>3
    <3>2. new \in Requests \X (2..MaxDeltas) /\ ~(new[2] <= deltas[new[1]])
      BY <1>2, <1>4, GatewayAssumption
    <3> HIDE DEF new
    <3> QED BY <3>1, <3>2 DEF LaterDeltas
  <2>4. IsFiniteSet(LaterDeltas)
    <3>1. IsFiniteSet(2..MaxDeltas)
      BY GatewayAssumption, FS_Interval
    <3>2. IsFiniteSet(Requests \X (2..MaxDeltas))
      BY <3>1, LimiterAssumption, FS_Product
    <3> QED BY <3>2, FS_Subset DEF LaterDeltas
  <2> HIDE DEF new
  <2>5. Cardinality(LaterDeltas') = Cardinality(LaterDeltas) + 1
    BY <2>3, <2>4, FS_AddElement
  <2> QED BY <2>1, <2>2, <2>5 DEF DeltasCounted
<1> QED
  BY <1>3, <1>4

LEMMA DeltasStep ==
  ASSUME GatewayInv, DeltasCounted, [Next]_vars
  PROVE  DeltasCounted'
<1>1. CASE UNCHANGED <<deltas, ttfts, interTokens>>
  BY <1>1, DeltasSteady
<1>2. ASSUME NEW q \in Requests,
             Receive(q) \/ Admit(q) \/ Finish(q) \/ Observe(q) \/ Clock(q) \/ StreamEnd(q)
      PROVE  UNCHANGED <<deltas, ttfts, interTokens>>
  BY <1>2 DEF Receive, Admit, Finish, Observe, Clock, StreamEnd, Move, Respond,
              metricsVars, RecordTokens, RecordRequest, RecordLatency, sampleVars
<1>3. CASE UNCHANGED vars \/ TimePasses
  BY <1>1, <1>3 DEF vars, requestVars, metricsVars, TimePasses
<1> QED
  BY <1>1, <1>2, <1>3, DeltaCounts DEF Next

LEMMA UsagesStep ==
  ASSUME GatewayInv, UsagesCounted, [Next]_vars
  PROVE  UsagesCounted'
<1>1. TypeOK /\ Responses /\ MetricsTypeOK
  BY DEF GatewayInv, TypeOK
<1>2. CASE UNCHANGED <<status, usages>>
  BY <1>2 DEF UsagesCounted, Served
<1>3. ASSUME NEW q \in Requests, NEW code \in Codes, Respond(q, code), status[q] = NoStatus,
             IF Kind[q] = "chat" /\ code = 200 THEN usages' = usages + 1 ELSE usages' = usages
      PROVE  UsagesCounted'
  <2>1. status'[q] = code /\ \A p \in Requests \ {q} : status'[p] = status[p]
    BY <1>1, <1>3, Responded
  <2>2. q \notin Served /\ Served \in SUBSET Requests
    BY <1>3 DEF Served, NoStatus
  <2>3. CASE Kind[q] = "chat" /\ code = 200
    <3>1. Served' = Served \cup {q}
      BY <2>1, <2>3 DEF Served
    <3> QED BY <1>3, <2>2, <2>3, <3>1, OneMore DEF UsagesCounted
  <2>4. CASE ~(Kind[q] = "chat" /\ code = 200)
    <3>1. Served' = Served
      BY <2>1, <2>2, <2>4 DEF Served
    <3> QED BY <1>3, <2>4, <3>1 DEF UsagesCounted
  <2> QED BY <2>3, <2>4
<1>4. ASSUME NEW q \in Requests, Admit(q) PROVE UsagesCounted'
  <2>1. phase[q] = "auth" /\ usages' = usages
    BY <1>4 DEF Admit, metricsVars
  <2>2. status[q] = NoStatus
    BY <1>1, <2>1 DEF Responses
  <2>3. Move(q, "waiting") \/ \E code \in Codes : code # 200 /\ Respond(q, code)
    BY <1>4 DEF Admit, Early, Codes
  <2>4. CASE Move(q, "waiting")
    BY <1>2, <2>1, <2>4 DEF Move
  <2> QED BY <1>3, <2>1, <2>2, <2>3, <2>4
<1>5. ASSUME NEW q \in Requests, Finish(q) PROVE UsagesCounted'
  <2>1. status[q] = NoStatus
    BY <1>1, <1>5 DEF Finish, Responses
  <2>2. PICK code \in Late(q) :
          /\ Respond(q, code)
          /\ IF Kind[q] = "chat" /\ code = 200 THEN RecordTokens ELSE UNCHANGED metricsVars
    BY <1>5 DEF Finish
  <2>3. code \in Codes
    BY DEF Late, Codes
  <2>4. IF Kind[q] = "chat" /\ code = 200 THEN usages' = usages + 1 ELSE usages' = usages
    BY <2>2 DEF RecordTokens, metricsVars
  <2> QED BY <1>3, <2>1, <2>2, <2>3, <2>4
<1>8. ASSUME NEW q \in Requests, Receive(q) PROVE UsagesCounted'
  <2>1. phase[q] = "new" /\ usages' = usages
    BY <1>8 DEF Receive, metricsVars
  <2>2. status[q] = NoStatus
    BY <1>1, <2>1 DEF Responses
  <2>3. CASE Move(q, "waiting") \/ Move(q, "auth")
    BY <1>2, <2>1, <2>3 DEF Move
  <2>4. CASE Respond(q, 422)
    BY <1>3, <2>1, <2>2, <2>4 DEF Codes
  <2> QED BY <1>8, <2>3, <2>4 DEF Receive
<1>6. ASSUME NEW q \in Requests,
             Observe(q) \/ Clock(q) \/ StreamDelta(q) \/ StreamEnd(q)
      PROVE  UNCHANGED <<status, usages>>
  BY <1>6 DEF Observe, Clock, StreamDelta, StreamEnd, Move, metricsVars,
              RecordRequest, RecordLatency, RecordTtft, RecordInterToken, sampleVars
<1>7. CASE UNCHANGED vars \/ TimePasses
  BY <1>2, <1>7 DEF vars, requestVars, metricsVars, TimePasses
<1> QED
  BY <1>2, <1>4, <1>5, <1>6, <1>7, <1>8 DEF Next

\* The summary adds up between any two sections under its lock, for any number of
\* requests of any kind.
THEOREM SummaryTheorem == Spec => []SummaryCoherent
<1>1. Init => GatewayInv /\ SummaryCoherent
  BY GatewayInitial, SummaryInitial
<1>2. GatewayInv /\ SummaryCoherent /\ [Next]_vars => (GatewayInv /\ SummaryCoherent)'
  <2>1. SummaryCoherent' <=> EndsCounted' /\ DeltasCounted' /\ UsagesCounted'
    BY SummaryParts, PTL
  <2> QED BY <2>1, GatewayStep, SummaryParts, EndsStep, DeltasStep, UsagesStep
<1> QED
  BY <1>1, <1>2, PTL DEF Spec

--------------------------------------------------------------------------------
(* Percentiles.                                                            *)

LEMMA Interpolated ==
  ASSUME NEW a \in Int, NEW b \in Int, a <= b, NEW f \in 0..99, NEW g \in 0..99, f <= g
  PROVE  /\ 100 * a <= 100 * a + (b - a) * f
         /\ 100 * a + (b - a) * f <= 100 * b
         /\ 100 * a + (b - a) * f <= 100 * a + (b - a) * g
<1> DEFINE d == b - a
<1>1. d \in Nat /\ f \in Nat /\ g - f \in Nat /\ 100 - f \in Nat
  OBVIOUS
<1>2. \A m, n \in Nat : m * n \in Nat
  OBVIOUS
<1>3. d * f \in Nat /\ d * (g - f) \in Nat /\ d * (100 - f) \in Nat
  BY <1>1, <1>2
<1>4. d * (g - f) = d * g - d * f /\ d * (100 - f) = 100 * d - d * f
  BY <1>1
<1> QED
  BY <1>1, <1>3, <1>4

Sorted(samples) ==
  \A i, j \in 1..Len(samples) : i <= j => samples[i] <= samples[j]

\* The position of a percentile in n samples, and its neighbours.
Scaled(n, q) == (n - 1) * q
Lo(n, q) == Scaled(n, q) \div 100
Hi(n, q) == IF Lo(n, q) + 1 < n - 1 THEN Lo(n, q) + 1 ELSE n - 1
Part(n, q) == Scaled(n, q) % 100

LEMMA NatProduct == \A a, b \in Nat : a * b \in Nat
OBVIOUS

LEMMA ScaledBounds ==
  ASSUME NEW n \in Nat \ {0}, NEW p \in 1..99, NEW q \in 1..99, p <= q
  PROVE  /\ Scaled(n, p) \in Nat /\ Scaled(n, q) \in Nat
         /\ Scaled(n, p) <= Scaled(n, q)
         /\ Scaled(n, q) <= 100 * (n - 1)
<1>1. n - 1 \in Nat /\ p \in Nat /\ q \in Nat /\ q - p \in Nat /\ 100 - q \in Nat
  OBVIOUS
<1>2. /\ (n - 1) * p \in Nat /\ (n - 1) * q \in Nat
      /\ (n - 1) * (q - p) \in Nat /\ (n - 1) * (100 - q) \in Nat
  BY <1>1, NatProduct
<1>3. /\ (n - 1) * (q - p) = (n - 1) * q - (n - 1) * p
      /\ (n - 1) * (100 - q) = 100 * (n - 1) - (n - 1) * q
  OBVIOUS
<1>4. (n - 1) * p <= (n - 1) * q
  BY <1>2, <1>3
<1>5. (n - 1) * q <= 100 * (n - 1)
  BY <1>2, <1>3
<1> QED
  BY <1>2, <1>4, <1>5 DEF Scaled

LEMMA Position ==
  ASSUME NEW n \in Nat \ {0}, NEW q \in 1..99
  PROVE  Lo(n, q) \in 0..n - 1 /\ Hi(n, q) \in Lo(n, q)..n - 1 /\ Part(n, q) \in 0..99
<1>1. Scaled(n, q) \in Nat /\ Scaled(n, q) <= 100 * (n - 1)
  <2>1. q <= q
    OBVIOUS
  <2> QED BY <2>1, ScaledBounds, Zenon
<1>2. Lo(n, q) \in 0..n - 1 /\ Part(n, q) \in 0..99
  BY <1>1 DEF Lo, Part
<1> QED
  BY <1>2 DEF Hi

LEMMA PositionOrder ==
  ASSUME NEW n \in Nat \ {0}, NEW p \in 1..99, NEW q \in 1..99, p <= q
  PROVE  \/ Hi(n, p) <= Lo(n, q)
         \/ Lo(n, p) = Lo(n, q) /\ Hi(n, p) = Hi(n, q) /\ Part(n, p) <= Part(n, q)
<1>1. Scaled(n, p) \in Nat /\ Scaled(n, q) \in Nat /\ Scaled(n, p) <= Scaled(n, q)
  BY ScaledBounds
<1>2. Lo(n, p) < Lo(n, q) \/ (Lo(n, p) = Lo(n, q) /\ Part(n, p) <= Part(n, q))
  BY <1>1 DEF Lo, Part
<1>3. Lo(n, p) \in 0..n - 1 /\ Lo(n, q) \in 0..n - 1
  BY Position, Zenon
<1>4. CASE Lo(n, p) < Lo(n, q)
  BY <1>3, <1>4 DEF Hi
<1>5. CASE Lo(n, p) = Lo(n, q) /\ Part(n, p) <= Part(n, q)
  BY <1>5 DEF Hi
<1> QED
  BY <1>2, <1>4, <1>5

LEMMA PercentileBetween ==
  ASSUME NEW samples \in Seq(Int), samples # <<>>, Sorted(samples), NEW q \in 1..99,
         NEW n, n = Len(samples)
  PROVE  /\ n \in Nat \ {0}
         /\ 1 + Lo(n, q) \in 1..n /\ 1 + Hi(n, q) \in 1..n
         /\ samples[1 + Lo(n, q)] \in Int /\ samples[1 + Hi(n, q)] \in Int
         /\ samples[1 + Lo(n, q)] <= samples[1 + Hi(n, q)]
         /\ Percentile(samples, q) = 100 * samples[1 + Lo(n, q)]
              + (samples[1 + Hi(n, q)] - samples[1 + Lo(n, q)]) * Part(n, q)
         /\ Percentile(samples, q) \in Int
         /\ 100 * samples[1 + Lo(n, q)] <= Percentile(samples, q)
         /\ Percentile(samples, q) <= 100 * samples[1 + Hi(n, q)]
<1>1. n \in Nat \ {0}
  OBVIOUS
<1>2. /\ Lo(n, q) \in 0..n - 1 /\ Hi(n, q) \in Lo(n, q)..n - 1 /\ Part(n, q) \in 0..99
  BY <1>1, Position
<1>3. Part(n, q) \in Int
  <2>1. \A i \in 0..99 : i \in Int
    OBVIOUS
  <2> QED BY <1>2, <2>1, Zenon
<1> DEFINE a == samples[1 + Lo(n, q)]
           b == samples[1 + Hi(n, q)]
<1>4. 1 + Lo(n, q) \in 1..n /\ 1 + Hi(n, q) \in 1..n /\ 1 + Lo(n, q) <= 1 + Hi(n, q)
  BY <1>1, <1>2
<1>5. a \in Int /\ b \in Int
  BY <1>4
<1>6. a <= b
  BY <1>4 DEF Sorted
<1>7. Percentile(samples, q) = 100 * a + (b - a) * Part(n, q)
  BY DEF Percentile, Lo, Hi, Part, Scaled
<1> HIDE DEF a, b
<1>8. /\ 100 * a <= 100 * a + (b - a) * Part(n, q)
      /\ 100 * a + (b - a) * Part(n, q) <= 100 * b
  <2>1. Part(n, q) <= Part(n, q)
    BY <1>3
  <2> QED BY <2>1, <1>2, <1>5, <1>6, Interpolated, Zenon
<1>9. 100 * a + (b - a) * Part(n, q) \in Int
  <2>1. b - a \in Int
    BY <1>5
  <2> QED BY <2>1, <1>5, <1>3
<1> QED
  BY <1>1, <1>4, <1>5, <1>6, <1>7, <1>8, <1>9 DEF a, b

\* Percentiles of sorted samples come in order and stay within the samples: the
\* summary never reports a p50 above its p95.
THEOREM PercentilesOrdered ==
  ASSUME NEW samples \in Seq(Int), samples # <<>>, Sorted(samples),
         NEW p \in 1..99, NEW q \in 1..99, p <= q
  PROVE  /\ 100 * samples[1] <= Percentile(samples, p)
         /\ Percentile(samples, p) <= Percentile(samples, q)
         /\ Percentile(samples, q) <= 100 * samples[Len(samples)]
<1> DEFINE n == Len(samples)
<1>1. n \in Nat \ {0} /\ 1 \in 1..n /\ n \in 1..n
  OBVIOUS
<1>2. ASSUME NEW x \in 1..99
      PROVE  /\ 1 + Lo(n, x) \in 1..n /\ 1 + Hi(n, x) \in 1..n
             /\ samples[1 + Lo(n, x)] \in Int /\ samples[1 + Hi(n, x)] \in Int
             /\ samples[1 + Lo(n, x)] <= samples[1 + Hi(n, x)]
             /\ Percentile(samples, x) = 100 * samples[1 + Lo(n, x)]
                  + (samples[1 + Hi(n, x)] - samples[1 + Lo(n, x)]) * Part(n, x)
             /\ Percentile(samples, x) \in Int
             /\ 100 * samples[1 + Lo(n, x)] <= Percentile(samples, x)
             /\ Percentile(samples, x) <= 100 * samples[1 + Hi(n, x)]
  BY PercentileBetween
<1>3. \A i, j \in 1..n : i <= j => samples[i] <= samples[j]
  BY DEF Sorted
<1>4. samples[1] \in Int /\ samples[n] \in Int
  BY <1>1
<1> HIDE DEF n
<1>5. 100 * samples[1] <= Percentile(samples, p)
  <2>1. /\ 1 + Lo(n, p) \in 1..n /\ samples[1 + Lo(n, p)] \in Int
        /\ 100 * samples[1 + Lo(n, p)] <= Percentile(samples, p)
        /\ Percentile(samples, p) \in Int
    BY <1>2
  <2>2. samples[1] <= samples[1 + Lo(n, p)]
    BY <1>1, <1>3, <2>1
  <2> QED BY <1>4, <2>1, <2>2
<1>6. Percentile(samples, q) <= 100 * samples[n]
  <2>1. /\ 1 + Hi(n, q) \in 1..n /\ samples[1 + Hi(n, q)] \in Int
        /\ Percentile(samples, q) <= 100 * samples[1 + Hi(n, q)]
        /\ Percentile(samples, q) \in Int
    BY <1>2
  <2>2. samples[1 + Hi(n, q)] <= samples[n]
    BY <1>1, <1>3, <2>1
  <2> QED BY <1>4, <2>1, <2>2
<1>7. CASE Hi(n, p) <= Lo(n, q)
  <2>1. /\ 1 + Hi(n, p) \in 1..n /\ samples[1 + Hi(n, p)] \in Int
        /\ Percentile(samples, p) <= 100 * samples[1 + Hi(n, p)]
        /\ Percentile(samples, p) \in Int
    BY <1>2
  <2>2. /\ 1 + Lo(n, q) \in 1..n /\ samples[1 + Lo(n, q)] \in Int
        /\ 100 * samples[1 + Lo(n, q)] <= Percentile(samples, q)
        /\ Percentile(samples, q) \in Int
    BY <1>2
  <2>3. Hi(n, p) \in Int /\ Lo(n, q) \in Int
    <3>1. Lo(n, q) \in 0..n - 1 /\ Hi(n, p) \in Lo(n, p)..n - 1
      BY <1>1, Position, Zenon
    <3> QED BY <3>1, <1>1
  <2>4. samples[1 + Hi(n, p)] <= samples[1 + Lo(n, q)]
    BY <1>3, <1>7, <2>1, <2>2, <2>3
  <2>5. Percentile(samples, p) <= Percentile(samples, q)
    BY <2>1, <2>2, <2>4
  <2> QED BY <1>5, <1>6, <2>5 DEF n
<1>8. CASE Lo(n, p) = Lo(n, q) /\ Hi(n, p) = Hi(n, q) /\ Part(n, p) <= Part(n, q)
  <2> DEFINE a == samples[1 + Lo(n, p)]
             b == samples[1 + Hi(n, p)]
  <2>1. a \in Int /\ b \in Int /\ a <= b
    BY <1>2
  <2>2. /\ Percentile(samples, p) = 100 * a + (b - a) * Part(n, p)
        /\ Percentile(samples, q) = 100 * a + (b - a) * Part(n, q)
    BY <1>2, <1>8
  <2>3. Part(n, p) \in 0..99 /\ Part(n, q) \in 0..99
    BY <1>1, Position
  <2> HIDE DEF a, b
  <2>4. 100 * a + (b - a) * Part(n, p) <= 100 * a + (b - a) * Part(n, q)
    BY <1>8, <2>1, <2>3, Interpolated
  <2> QED BY <1>5, <1>6, <2>2, <2>4 DEF n
<1> QED
  BY <1>1, <1>7, <1>8, PositionOrder
================================================================================
