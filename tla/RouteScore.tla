------------------------------- MODULE RouteScore -------------------------------
(***************************************************************************)
(* Which of several usable routes serves a request: _score() and the sort  *)
(* of router/engine.py, over the hints of the request's headers.  Scores   *)
(* are exact where the code rounds them; qualities, hints and dollars are  *)
(* counted in hundredths.                                                  *)
(***************************************************************************)
EXTENDS RouteHealth

CONSTANTS
  Quality,  \* Quality[r], Cost[r] (per 1k tokens), Latency[r] (ms)
  Cost,
  Latency,
  Order,    \* Order[r]: place of r in the order of registration
  Headers   \* what the hint headers of a request may say

\* An absent header of quality or cost acts as 0; a budget there is only if limited.
Hints == [quality : Int, cost : Int, limited : BOOLEAN, budget : Int]

ASSUME ScoreAssumption ==
  /\ Quality \in [Routes -> Int] /\ Cost \in [Routes -> Nat]
  /\ Latency \in [Routes -> Nat \ {0}]
  /\ Order \in [Routes -> Nat] /\ IsInjective(Order)
  /\ Headers \subseteq Hints

\* max(0.0, x)
Positive(x) == IF x > 0 THEN x ELSE 0

Clamp(x) == IF x > 100 THEN 100 ELSE Positive(x)

\* _hints_from_headers(): the budget alone is taken as it is.
Hinted(header) == [header EXCEPT !.quality = Clamp(@), !.cost = Clamp(@)]

\* The latency value is a fraction of this.
Scale(h) ==
  IF ~h.limited THEN 1000 ELSE IF h.budget >= 0 THEN h.budget ELSE -h.budget

\* Over a negative budget the value grows with the latency.
LatencyValue(r, h) ==
  CASE ~h.limited -> Positive(1000 - Latency[r])
    [] h.limited /\ Latency[r] <= h.budget -> Scale(h)
    [] h.limited /\ Latency[r] > h.budget /\ h.budget >= 0 ->
         Positive(2 * h.budget - Latency[r])
    [] h.limited /\ h.budget < 0 -> 2 * Scale(h) + Latency[r]

CostValue(r) == Positive(500 - Cost[r])

\* _score(), over a common denominator: the total weight is that of all routes.
Score(r, h) ==
  (100 + h.quality) * (5 * Scale(h) * Quality[r])
  + (IF h.limited THEN 200 ELSE 100) * (500 * LatencyValue(r, h))
  + (100 + 4 * h.cost) * (Scale(h) * CostValue(r))

\* A budget of zero divides: ZeroDivisionError once there is a route to score.
Divides(h) == h.limited /\ h.budget = 0

\* r, valued x, comes no later than s, valued y: sorts with reverse=True are
\* stable, so equal routes stay in the order of registration.
Precedes(x, r, y, s) == x > y \/ (x = y /\ Order[r] <= Order[s])

\* Mutant of Best: the sort is ascending.
Worst(U, h) == {r \in U : \A s \in U : Precedes(Score(s, h), r, Score(r, h), s)}

\* The route that _scored_decision() takes from U, if U has one.
Best(U, h) == {r \in U : \A s \in U : Precedes(Score(r, h), r, Score(s, h), s)}
================================================================================
