------------------------------- MODULE MCGateway -------------------------------
(* Small instances of Gateway for TLC.                                     *)
EXTENDS Gateway, TLC

CONSTANTS key, wrong, q1, q2, q3, q4, q5

MCRequests == {q1, q2, q3, q4, q5}

MCKeys == {key, wrong}

MCValid == {key}

\* One request of each kind; three compete for the quota of one key.
MCKind ==
  q1 :> "chat" @@ q2 :> "stream" @@ q3 :> "embed" @@ q4 :> "list" @@ q5 :> "open"

MCHeader == q1 :> key @@ q2 :> key @@ q3 :> key @@ q4 :> wrong @@ q5 :> wrong
================================================================================
