----------------------------- MODULE AbstractStream ----------------------------
(***************************************************************************)
(* What a stream promises its reader: the deltas in order, but for those   *)
(* made while too many wait, and the end after the last of them.  The end  *)
(* may have to wait for room, and only there it can be cut off.  Nothing   *)
(* here says who ends the stream: no worker, no inner task, no timeout, no *)
(* shutdown.  StreamDelivery implements this.                              *)
(***************************************************************************)
EXTENDS Integers, Sequences

CONSTANT Capacity

VARIABLES
  made,     \* deltas made so far; the next one is made + 1
  waiting,  \* deltas that wait for the reader
  given,    \* deltas the reader was given
  stream,   \* "unborn", "open", "closing" (its end waits for room), "closed",
            \* or "cut" (its end will never come)
  reader    \* "away", "on", "told" (of the end), "gone"

vars == <<made, waiting, given, stream, reader>>

Init ==
  /\ made = 0
  /\ waiting = <<>>
  /\ given = <<>>
  /\ stream = "unborn"
  /\ reader = "away"

HasRoom == Len(waiting) < Capacity

Open ==
  /\ stream = "unborn"
  /\ stream' = "open"
  /\ UNCHANGED <<made, waiting, given, reader>>

\* The next delta; one that finds no room is lost.
Make ==
  /\ stream = "open"
  /\ made' = made + 1
  /\ waiting' = IF HasRoom THEN Append(waiting, made + 1) ELSE waiting
  /\ UNCHANGED <<given, stream, reader>>

Close ==
  /\ stream = "open"
  /\ stream' = IF HasRoom THEN "closed" ELSE "closing"
  /\ UNCHANGED <<made, waiting, given, reader>>

CloseAtLast ==
  /\ stream = "closing"
  /\ HasRoom
  /\ stream' = "closed"
  /\ UNCHANGED <<made, waiting, given, reader>>

Cut ==
  /\ stream = "closing"
  /\ stream' = "cut"
  /\ UNCHANGED <<made, waiting, given, reader>>

\* A reader finds only a stream that is open.
Come ==
  /\ reader = "away"
  /\ stream = "open"
  /\ reader' = "on"
  /\ UNCHANGED <<made, waiting, given, stream>>

Take ==
  /\ reader = "on"
  /\ waiting # <<>>
  /\ given' = Append(given, Head(waiting))
  /\ waiting' = Tail(waiting)
  /\ UNCHANGED <<made, stream, reader>>

\* The reader is told of the end when there is nothing left to read.
Told ==
  /\ reader = "on"
  /\ stream = "closed"
  /\ waiting = <<>>
  /\ reader' = "told"
  /\ UNCHANGED <<made, waiting, given, stream>>

\* It gives up looking for the stream, or leaves it.
Leave ==
  /\ reader \in {"away", "on"}
  /\ reader' = "gone"
  /\ UNCHANGED <<made, waiting, given, stream>>

Next ==
  \/ Open \/ Make \/ Close \/ CloseAtLast \/ Cut
  \/ Come \/ Take \/ Told \/ Leave

Spec == Init /\ [][Next]_vars
================================================================================
