----------------------------- MODULE MCChatRouting -----------------------------
(* Small instances of ChatRouting for TLC.                                 *)
EXTENDS ChatRouting, TLC

CONSTANTS local, quant, cloud, q1, q2

MCRoutes == {local, quant, cloud}

MCProviders == {cloud}

MCRequests == {q1, q2}

\* A local route asked for by its name, and a name that leaves the choice to the
\* router; the endpoint only by choice or as a fallback.
MCWanted == q1 :> quant @@ q2 :> "unknown"

\* registry.py and config.py: the default route, a q5_k_m file and an endpoint.
MCQuality == local :> 50 @@ quant :> 65 @@ cloud :> 90

MCCost == local :> 0 @@ quant :> 0 @@ cloud :> 200

MCLatency == local :> 1000 @@ quant :> 1500 @@ cloud :> 900

MCOrder == local :> 1 @@ cloud :> 2 @@ quant :> 3

Header(quality, cost, limited, budget) ==
  [quality |-> quality, cost |-> cost, limited |-> limited, budget |-> budget]

\* Hints that make each route win somewhere, out of range, or divide by zero.
MCHeaders ==
  { Header(0, 0, FALSE, 0), Header(150, 0, FALSE, 0), Header(0, 60, FALSE, 0),
    Header(-20, 60, TRUE, 1000), Header(0, 0, TRUE, 1000), Header(80, 60, TRUE, 1000),
    Header(0, 0, TRUE, -500), Header(100, 0, TRUE, -500), Header(0, 0, TRUE, 0) }
================================================================================
