------------------------------ MODULE StreamProofs -----------------------------
(***************************************************************************)
(* Proofs about StreamDelivery, for any capacity of the buffer, any number *)
(* of deltas and of polls.                                                 *)
(***************************************************************************)
EXTENDS StreamDelivery, SequenceTheorems, TLAPS

--------------------------------------------------------------------------------
(* Who may touch the stream when.                                          *)

\* Where the tasks stand to each other: the inner task lives between Pick and
\* the end of its worker's wait, and is cancelled only by a worker that then
\* waits for it.
TasksAgree ==
  /\ inner = "none" => worker \in {"away", "free"}
  /\ worker = "away" => inner = "none"
  /\ inner = "spawned" => worker = "wait"
  /\ inner = "next" => worker \in {"wait", "reap", "abort"}
  /\ inner = "putting" => /\ ending \in {"returned", "raised", "gone"}
                          /\ worker = "wait" => ending # "gone"
  /\ worker = "wait" =>
       /\ inner \in {"spawned", "next", "putting", "returned", "raised"}
       /\ "inner" \notin cancel
  /\ worker \in {"reap", "abort"} /\ inner = "next" => "inner" \in cancel
  /\ "inner" \in cancel => inner \in {"next", "putting"} /\ worker \in {"reap", "abort"}

\* Only a stream whose task runs, or that failed before its first delta, is on
\* the bus.
TrackedMeans ==
  tracked => \/ inner = "next"
             \/ inner = "raised" /\ worker = "wait" /\ buffer = <<>>

\* While the inner task runs its stream is on the bus; before it, nothing is.
NextMeans ==
  /\ inner = "next" => tracked
  /\ inner \in {"none", "spawned"} =>
       buffer = <<>> /\ received = <<>> /\ collected = 0 /\ reader # "ended"

\* The sentinel is behind everything else, and who put it has let go.
SentinelLast ==
  /\ Len(buffer) <= Capacity
  /\ \A i \in DOMAIN buffer :
       buffer[i] = END => i = Len(buffer) /\ ~tracked /\ inner # "putting"
  /\ reader = "ended" => ~tracked /\ buffer = <<>> /\ inner # "putting"

Shape == TypeOK /\ TasksAgree /\ TrackedMeans /\ NextMeans /\ SentinelLast

\* TypeOK in three parts.
Flags == live \in BOOLEAN /\ tracked \in BOOLEAN /\ reported \in BOOLEAN

Places ==
  /\ status \in {"queued", "running"} \cup Terminal
  /\ inner \in {"none", "spawned", "next", "putting", "returned", "raised", "gone"}
  /\ ending \in {"none", "returned", "raised", "gone"}
  /\ worker \in {"away", "wait", "reap", "abort", "free"}
  /\ cancel \subseteq {"inner", "worker"}
  /\ stop \in {"no", "joining", "done", "stuck"}
  /\ reader \in {"polling", "reading", "ended", "noStream", "left"}

Data ==
  /\ buffer \in Seq(0..MaxDeltas)
  /\ received \in Seq(1..MaxDeltas)
  /\ collected \in 0..MaxDeltas
  /\ polls \in 0..MaxPolls

LEMMA ThreeTypes == TypeOK <=> Flags /\ Places /\ Data
BY DEF TypeOK, Flags, Places, Data

LEMMA ShapeInit == Init => Shape
<1> SUFFICES ASSUME Init PROVE Shape
  OBVIOUS
<1> USE StreamAssumption DEF Init, Terminal
<1>1. Flags /\ Places
  BY DEF Flags, Places
<1>2. Data
  BY EmptySeq DEF Data
<1>3. TasksAgree /\ TrackedMeans /\ NextMeans /\ SentinelLast
  BY DEF TasksAgree, TrackedMeans, NextMeans, SentinelLast
<1> QED
  BY <1>1, <1>2, <1>3, ThreeTypes DEF Shape

LEMMA FlagsStep == Flags /\ [Next]_vars => Flags'
<1> SUFFICES ASSUME Flags, [Next]_vars PROVE Flags'
  OBVIOUS
<1> USE DEF Flags, jobVars, busVars, innerVars, readerVars
<1>1. CASE UNCHANGED vars
  BY <1>1 DEF vars
<1>2. CASE InnerStart
  BY <1>2 DEF InnerStart
<1>3. CASE Delta
  BY <1>3 DEF Delta, Room, Undisturbed
<1>4. CASE Exhausted
  BY <1>4 DEF Exhausted, CloseInner, Room, Undisturbed
<1>5. CASE PutResume
  BY <1>5 DEF PutResume, Room, Undisturbed
<1>6. CASE InnerCancelled
  BY <1>6 DEF InnerCancelled, CloseInner, Room
<1>7. CASE Pick
  BY <1>7 DEF Pick, LoseCancellation
<1>8. CASE InnerDone
  BY <1>8 DEF InnerDone, LoseCancellation, Settle
<1>9. CASE Timeout
  BY <1>9 DEF Timeout
<1>10. CASE TimedOut
  BY <1>10 DEF TimedOut, Settle
<1>11. CASE WorkerCancelled
  BY <1>11 DEF WorkerCancelled, LoseCancellation
<1>12. CASE Aborted
  BY <1>12 DEF Aborted
<1>13. CASE StopCancel
  BY <1>13 DEF StopCancel
<1>14. CASE CloseAll
  BY <1>14 DEF CloseAll
<1>15. CASE CancelQueued
  BY <1>15 DEF CancelQueued
<1>16. CASE Poll
  BY <1>16 DEF Poll, LeaveWith
<1>17. CASE Read
  BY <1>17 DEF Read, LeaveWith
<1>18. CASE Disconnect
  BY <1>18 DEF Disconnect, LeaveWith
<1> QED
  BY <1>1, <1>2, <1>3, <1>4, <1>5, <1>6, <1>7, <1>8, <1>9, <1>10, <1>11, <1>12, <1>13, <1>14, <1>15, <1>16, <1>17, <1>18 DEF Next

LEMMA PlacesStep == Places /\ [Next]_vars => Places'
<1> SUFFICES ASSUME Places, [Next]_vars PROVE Places'
  OBVIOUS
<1> USE DEF Places, Terminal, jobVars, busVars, innerVars, readerVars
<1>1. CASE UNCHANGED vars
  BY <1>1 DEF vars
<1>2. CASE InnerStart
  BY <1>2 DEF InnerStart
<1>3. CASE Delta
  BY <1>3 DEF Delta, Room, Undisturbed
<1>4. CASE Exhausted
  BY <1>4 DEF Exhausted, CloseInner, Room, Undisturbed
<1>5. CASE PutResume
  BY <1>5 DEF PutResume, Room, Undisturbed
<1>6. CASE InnerCancelled
  BY <1>6 DEF InnerCancelled, CloseInner, Room
<1>7. CASE Pick
  BY <1>7 DEF Pick, LoseCancellation
<1>8. CASE InnerDone
  BY <1>8 DEF InnerDone, LoseCancellation, Settle
<1>9. CASE Timeout
  BY <1>9 DEF Timeout
<1>10. CASE TimedOut
  BY <1>10 DEF TimedOut, Settle
<1>11. CASE WorkerCancelled
  BY <1>11 DEF WorkerCancelled, LoseCancellation
<1>12. CASE Aborted
  BY <1>12 DEF Aborted
<1>13. CASE StopCancel
  BY <1>13 DEF StopCancel
<1>14. CASE CloseAll
  BY <1>14 DEF CloseAll
<1>15. CASE CancelQueued
  BY <1>15 DEF CancelQueued
<1>16. CASE Poll
  BY <1>16 DEF Poll, LeaveWith
<1>17. CASE Read
  BY <1>17 DEF Read, LeaveWith
<1>18. CASE Disconnect
  BY <1>18 DEF Disconnect, LeaveWith
<1> QED
  BY <1>1, <1>2, <1>3, <1>4, <1>5, <1>6, <1>7, <1>8, <1>9, <1>10, <1>11, <1>12, <1>13, <1>14, <1>15, <1>16, <1>17, <1>18 DEF Next

\* What the steps may do to the buffer.
LEMMA BufferSteps ==
  ASSUME buffer \in Seq(0..MaxDeltas)
  PROVE  /\ Append(buffer, END) \in Seq(0..MaxDeltas)
         /\ \A d \in 0..MaxDeltas : Append(buffer, d) \in Seq(0..MaxDeltas)
         /\ buffer # <<>> => Tail(buffer) \in Seq(0..MaxDeltas) /\ Head(buffer) \in 0..MaxDeltas
<1>1. END \in 0..MaxDeltas
  BY StreamAssumption DEF END
<1> QED
  BY <1>1, AppendProperties, HeadTailProperties

LEMMA DataStep == Data /\ [Next]_vars => Data'
<1> SUFFICES ASSUME Data, [Next]_vars PROVE Data'
  OBVIOUS
<1> USE StreamAssumption DEF Data, jobVars, busVars, innerVars, readerVars
<1>1. UNCHANGED <<buffer, received, collected, polls>> => Data'
  OBVIOUS
<1>2. buffer' \in {buffer, Append(buffer, END)} /\ UNCHANGED <<received, collected, polls>>
        => Data'
  BY BufferSteps
<1>3. CASE UNCHANGED vars
  BY <1>3, <1>1 DEF vars
<1>4. CASE InnerStart
  BY <1>4, EmptySeq DEF InnerStart
<1>5. CASE Delta
  <2>1. collected' \in 0..MaxDeltas /\ UNCHANGED <<received, polls>>
    BY <1>5 DEF Delta
  <2>2. buffer' \in {buffer, Append(buffer, collected')}
    BY <1>5 DEF Delta
  <2> QED BY <2>1, <2>2, BufferSteps
<1>6. CASE Exhausted
  BY <1>6, <1>2 DEF Exhausted, CloseInner
<1>7. CASE PutResume \/ CloseAll
  BY <1>7, <1>2 DEF PutResume, CloseAll
<1>8. CASE InnerCancelled
  BY <1>8, <1>2 DEF InnerCancelled, CloseInner
<1>9. CASE InnerDone \/ TimedOut
  BY <1>9, <1>2 DEF InnerDone, LoseCancellation, TimedOut, Settle
<1>10. CASE Pick \/ Timeout \/ WorkerCancelled \/ Aborted \/ StopCancel \/ CancelQueued
            \/ Disconnect
  BY <1>10, <1>1 DEF Pick, LoseCancellation, Timeout, WorkerCancelled, Aborted, StopCancel, CancelQueued,
     Disconnect
<1>11. CASE Poll
  BY <1>11 DEF Poll
<1>12. CASE Read
  <2>1. /\ buffer # <<>> /\ buffer' = Tail(buffer)
        /\ UNCHANGED <<collected, polls>>
        /\ \/ received' = received
           \/ Head(buffer) # END /\ received' = Append(received, Head(buffer))
    BY <1>12 DEF Read
  <2>2. Head(buffer) # END => Head(buffer) \in 1..MaxDeltas
    BY <2>1, BufferSteps DEF END
  <2>3. Head(buffer) # END => Append(received, Head(buffer)) \in Seq(1..MaxDeltas)
    BY <2>2, AppendProperties
  <2>4. received' \in Seq(1..MaxDeltas)
    BY <2>1, <2>3
  <2> QED BY <2>1, <2>4, BufferSteps
<1> QED
  BY <1>3, <1>4, <1>5, <1>6, <1>7, <1>8, <1>9, <1>10, <1>11, <1>12 DEF Next

LEMMA TasksStep == Shape /\ [Next]_vars => TasksAgree'
<1> SUFFICES ASSUME Shape, [Next]_vars PROVE TasksAgree'
  OBVIOUS
<1> USE StreamAssumption
    DEF Shape, TypeOK, jobVars, busVars, innerVars, readerVars, END, Terminal, TasksAgree
<1>1. CASE UNCHANGED vars
  BY <1>1 DEF vars
<1>2. CASE InnerStart
  BY <1>2 DEF InnerStart
<1>3. CASE Delta
  BY <1>3 DEF Delta, Room, Undisturbed
<1>4. CASE Exhausted
  BY <1>4 DEF Exhausted, CloseInner, Room, Undisturbed
<1>5. CASE PutResume
  BY <1>5 DEF PutResume, Room, Undisturbed
<1>6. CASE InnerCancelled
  BY <1>6 DEF InnerCancelled, CloseInner, Room
<1>7. CASE Pick
  BY <1>7 DEF Pick, LoseCancellation
<1>8. CASE InnerDone
  BY <1>8 DEF InnerDone, LoseCancellation, Settle
<1>9. CASE Timeout
  BY <1>9 DEF Timeout
<1>10. CASE TimedOut
  BY <1>10 DEF TimedOut, Settle
<1>11. CASE WorkerCancelled
  BY <1>11 DEF WorkerCancelled, LoseCancellation
<1>12. CASE Aborted
  BY <1>12 DEF Aborted
<1>13. CASE StopCancel
  BY <1>13 DEF StopCancel
<1>14. CASE CloseAll
  BY <1>14 DEF CloseAll
<1>15. CASE CancelQueued
  BY <1>15 DEF CancelQueued
<1>16. CASE Poll
  BY <1>16 DEF Poll, LeaveWith
<1>17. CASE Read
  BY <1>17 DEF Read, LeaveWith
<1>18. CASE Disconnect
  BY <1>18 DEF Disconnect, LeaveWith
<1> QED
  BY <1>1, <1>2, <1>3, <1>4, <1>5, <1>6, <1>7, <1>8, <1>9, <1>10, <1>11, <1>12, <1>13, <1>14, <1>15, <1>16, <1>17, <1>18 DEF Next

LEMMA BusStep == Shape /\ [Next]_vars => TrackedMeans' /\ NextMeans'
<1> SUFFICES ASSUME Shape, [Next]_vars PROVE TrackedMeans' /\ NextMeans'
  OBVIOUS
<1> USE StreamAssumption
    DEF Shape, TypeOK, jobVars, busVars, innerVars, readerVars, END, Terminal, TasksAgree, TrackedMeans, NextMeans
<1>1. CASE UNCHANGED vars
  BY <1>1 DEF vars
<1>2. CASE InnerStart
  BY <1>2 DEF InnerStart
<1>3. CASE Delta
  BY <1>3 DEF Delta, Room, Undisturbed
<1>4. CASE Exhausted
  BY <1>4 DEF Exhausted, CloseInner, Room, Undisturbed
<1>5. CASE PutResume
  BY <1>5 DEF PutResume, Room, Undisturbed
<1>6. CASE InnerCancelled
  BY <1>6 DEF InnerCancelled, CloseInner, Room
<1>7. CASE Pick
  BY <1>7 DEF Pick, LoseCancellation
<1>8. CASE InnerDone
  BY <1>8 DEF InnerDone, LoseCancellation, Settle
<1>9. CASE Timeout
  BY <1>9 DEF Timeout
<1>10. CASE TimedOut
  BY <1>10 DEF TimedOut, Settle
<1>11. CASE WorkerCancelled
  BY <1>11 DEF WorkerCancelled, LoseCancellation
<1>12. CASE Aborted
  BY <1>12 DEF Aborted
<1>13. CASE StopCancel
  BY <1>13 DEF StopCancel
<1>14. CASE CloseAll
  BY <1>14 DEF CloseAll
<1>15. CASE CancelQueued
  BY <1>15 DEF CancelQueued
<1>16. CASE Poll
  BY <1>16 DEF Poll, LeaveWith
<1>17. CASE Read
  BY <1>17 DEF Read, LeaveWith
<1>18. CASE Disconnect
  BY <1>18 DEF Disconnect, LeaveWith
<1> QED
  BY <1>1, <1>2, <1>3, <1>4, <1>5, <1>6, <1>7, <1>8, <1>9, <1>10, <1>11, <1>12, <1>13, <1>14, <1>15, <1>16, <1>17, <1>18 DEF Next

\* bus.close() by the inner task: it lets go, and what it puts is the last.
LEMMA ClosingPuts ==
  ASSUME Shape, inner = "next", NEW how \in {"returned", "raised", "gone"}, CloseInner(how),
         UNCHANGED reader
  PROVE  SentinelLast'
<1> USE DEF Shape, TypeOK, NextMeans, SentinelLast, END
<1>1. tracked /\ ~tracked' /\ \A i \in DOMAIN buffer : buffer[i] # END
  BY DEF CloseInner
<1>2. CASE Room /\ buffer' = Append(buffer, END) /\ inner' = how
  <2>1. /\ buffer' \in Seq(0..MaxDeltas)
        /\ Len(buffer') = Len(buffer) + 1
        /\ \A i \in 1..Len(buffer) : buffer'[i] = buffer[i]
    BY <1>2, BufferSteps, AppendProperties
  <2>2. Len(buffer') <= Capacity
    BY <1>2, <2>1, StreamAssumption DEF Room
  <2> QED BY <1>1, <1>2, <2>1, <2>2
<1>3. CASE buffer' = buffer /\ inner' = "putting"
  BY <1>1, <1>3
<1> QED
  BY <1>1, <1>2, <1>3 DEF CloseInner

LEMMA SentinelStep == Shape /\ [Next]_vars => SentinelLast'
<1> SUFFICES ASSUME Shape, [Next]_vars PROVE SentinelLast'
  OBVIOUS
<1> USE StreamAssumption
    DEF Shape, TypeOK, jobVars, busVars, innerVars, readerVars, END, Terminal, TasksAgree, TrackedMeans, NextMeans, SentinelLast
<1>1. CASE UNCHANGED vars
  BY <1>1 DEF vars
<1>2. CASE InnerStart
  BY <1>2 DEF InnerStart
<1>3. CASE Delta
  BY <1>3 DEF Delta, Room, Undisturbed
<1>4. CASE Exhausted
  <2>1. PICK how : CloseInner(how) /\ how \in {"returned", "raised"}
    BY <1>4 DEF Exhausted
  <2> QED BY <1>4, <2>1, ClosingPuts DEF Exhausted
<1>5. CASE PutResume
  BY <1>5 DEF PutResume, Room, Undisturbed
<1>6. CASE InnerCancelled
  <2>1. CASE inner = "next" /\ CloseInner("gone")
    BY <1>6, <2>1, ClosingPuts DEF InnerCancelled
  <2>2. CASE inner = "putting" /\ inner' = "gone" /\ UNCHANGED busVars
    BY <1>6, <2>2 DEF InnerCancelled
  <2> QED BY <1>6, <2>1, <2>2 DEF InnerCancelled
<1>7. CASE Pick
  BY <1>7 DEF Pick, LoseCancellation
<1>8. CASE InnerDone
  <2>1. CASE tracked
    <3>1. buffer = <<>> /\ inner = "raised" /\ Settle("failed") /\ UNCHANGED <<inner, reader>>
      BY <1>8, <2>1 DEF InnerDone, LoseCancellation
    <3>2. ~tracked'
      BY <3>1 DEF Settle
    <3>3. buffer' = Append(<<>>, END)
      BY <2>1, <3>1 DEF Settle
    <3>4. buffer' = <<END>>
      BY <3>3
    <3> QED BY <2>1, <3>1, <3>2, <3>4
  <2>2. CASE ~tracked
    <3>1. ~tracked' /\ buffer' = buffer /\ UNCHANGED <<inner, reader>>
      BY <1>8, <2>2 DEF InnerDone, LoseCancellation, Settle
    <3> QED BY <1>8, <3>1, <2>2 DEF InnerDone, LoseCancellation
  <2> QED BY <2>1, <2>2
<1>9. CASE Timeout
  BY <1>9 DEF Timeout
<1>10. CASE TimedOut
  BY <1>10 DEF TimedOut, Settle
<1>11. CASE WorkerCancelled
  BY <1>11 DEF WorkerCancelled, LoseCancellation
<1>12. CASE Aborted
  BY <1>12 DEF Aborted
<1>13. CASE StopCancel
  BY <1>13 DEF StopCancel
<1>14. CASE CloseAll
  BY <1>14 DEF CloseAll
<1>15. CASE CancelQueued
  BY <1>15 DEF CancelQueued
<1>16. CASE Poll
  BY <1>16 DEF Poll, LeaveWith
<1>17. CASE Read
  BY <1>17 DEF Read, LeaveWith
<1>18. CASE Disconnect
  BY <1>18 DEF Disconnect, LeaveWith
<1> QED
  BY <1>1, <1>2, <1>3, <1>4, <1>5, <1>6, <1>7, <1>8, <1>9, <1>10, <1>11, <1>12, <1>13, <1>14, <1>15, <1>16, <1>17, <1>18 DEF Next

LEMMA ShapeStep == Shape /\ [Next]_vars => Shape'
<1> SUFFICES ASSUME Shape, [Next]_vars PROVE Shape'
  OBVIOUS
<1>1. Flags /\ Places /\ Data
  BY ThreeTypes DEF Shape
<1>2. TypeOK'
  BY <1>1, FlagsStep, PlacesStep, DataStep DEF TypeOK, Flags, Places, Data
<1> QED
  BY <1>2, TasksStep, BusStep, SentinelStep DEF Shape

LEMMA ShapeAlways == Spec => []Shape
BY ShapeInit, ShapeStep, PTL DEF Spec

--------------------------------------------------------------------------------
(* What the reader is given.                                               *)

Given == received \o Deltas

\* DeltasIntact, and that nothing is given that was not collected.
Intact ==
  /\ \A i \in 1..Len(Given) : Given[i] \in 1..collected
  /\ \A i, k \in 1..Len(Given) : i < k => Given[i] < Given[k]
  /\ collected <= Capacity =>
       Len(Given) = collected /\ \A i \in 1..Len(Given) : Given[i] = i

StreamInv == Shape /\ Intact

\* What is in front of the sentinel, for any buffer b.
Before(b) == IF b # <<>> /\ Last(b) = END THEN Front(b) ELSE b

LEMMA DeltasAreBefore == Deltas = Before(buffer) /\ Deltas' = Before(buffer')
BY DEF Deltas, Before

LEMMA Narrow ==
  ASSUME NEW s \in Seq(0..MaxDeltas), \A i \in 1..Len(s) : s[i] # END
  PROVE  s \in Seq(1..MaxDeltas)
<1>1. s \in [1..Len(s) -> 0..MaxDeltas] /\ Len(s) \in Nat
  BY LenProperties
<1>2. s \in [1..Len(s) -> 1..MaxDeltas]
  BY <1>1 DEF END
<1>3. [1..Len(s) -> 1..MaxDeltas] \in {[1..n -> 1..MaxDeltas] : n \in Nat}
  BY <1>1
<1>4. s \in UNION {[1..n -> 1..MaxDeltas] : n \in Nat}
  BY <1>2, <1>3
<1> QED
  BY <1>4, SeqDef, Zenon

LEMMA BeforeProperties ==
  ASSUME NEW b \in Seq(0..MaxDeltas), \A i \in 1..Len(b) : b[i] = END => i = Len(b)
  PROVE  /\ Before(b) \in Seq(1..MaxDeltas)
         /\ Len(Before(b)) = IF b # <<>> /\ b[Len(b)] = END THEN Len(b) - 1 ELSE Len(b)
         /\ \A i \in 1..Len(Before(b)) : Before(b)[i] = b[i]
<1>1. Len(b) \in Nat /\ (b # <<>> => Len(b) > 0)
  BY EmptySeq, LenProperties
<1>2. CASE b # <<>> /\ b[Len(b)] = END
  <2>1. Before(b) = SubSeq(b, 1, Len(b) - 1)
    BY <1>2 DEF Before, Last, Front
  <2>2. /\ Before(b) \in Seq(0..MaxDeltas) /\ Len(Before(b)) = Len(b) - 1
        /\ \A i \in 1..Len(Before(b)) : Before(b)[i] = b[i]
    <3>0. Len(b) - 1 \in Nat
      BY <1>1, <1>2
    <3>1. Len(b) - 1 \in Nat /\ \A i \in 1..Len(b) - 1 : b[i] \in 0..MaxDeltas
      <4> SUFFICES ASSUME NEW i \in 1..Len(b) - 1 PROVE b[i] \in 0..MaxDeltas
        BY <3>0
      <4>1. i \in 1..Len(b)
        BY <3>0
      <4> QED BY <4>1, ElementOfSeq
    <3>2. /\ Before(b) \in Seq(0..MaxDeltas)
          /\ Len(Before(b)) = IF 1 <= Len(b) - 1 THEN Len(b) - 1 - 1 + 1 ELSE 0
          /\ \A i \in 1..Len(b) - 1 - 1 + 1 : Before(b)[i] = b[1 + i - 1]
      BY <2>1, <3>1, SubSeqProperties
    <3>3. Len(b) - 1 - 1 + 1 = Len(b) - 1 /\ Len(Before(b)) = Len(b) - 1
      <4>1. Len(b) - 1 - 1 + 1 = Len(b) - 1 /\ (1 <= Len(b) - 1 \/ Len(b) - 1 = 0)
        <5>1. \A n \in Nat : n - 1 \in Nat =>
                 n - 1 - 1 + 1 = n - 1 /\ (1 <= n - 1 \/ n - 1 = 0)
          OBVIOUS
        <5> QED BY <1>1, <3>0, <5>1
      <4>2. CASE 1 <= Len(b) - 1
        BY <3>2, <4>1, <4>2
      <4>3. CASE ~(1 <= Len(b) - 1)
        BY <3>2, <4>1, <4>3
      <4> QED BY <4>2, <4>3, <4>1
    <3>4. ASSUME NEW i \in 1..Len(b) - 1 PROVE Before(b)[i] = b[i]
      <4>1. 1 + i - 1 = i
        OBVIOUS
      <4> QED BY <3>2, <3>3, <4>1
    <3> QED BY <3>2, <3>3, <3>4
  <2>3. \A i \in 1..Len(Before(b)) : Before(b)[i] # END
    BY <1>1, <2>2
  <2> QED BY <1>2, <2>2, <2>3, Narrow
<1>3. CASE b = <<>> \/ b[Len(b)] # END
  <2>1. Before(b) = b
    BY <1>3 DEF Before, Last
  <2>2. \A i \in 1..Len(b) : b[i] # END
    BY <1>3, EmptySeq
  <2> QED BY <1>3, <2>1, <2>2, Narrow
<1> QED
  BY <1>2, <1>3

\* Without the sentinel everything in the buffer is a delta.
LEMMA NoSentinel ==
  ASSUME buffer \in Seq(0..MaxDeltas), \A i \in DOMAIN buffer : buffer[i] # END
  PROVE  Deltas = buffer
<1>1. buffer # <<>> => Len(buffer) \in DOMAIN buffer
  BY LenProperties, EmptySeq
<1> QED
  BY <1>1 DEF Deltas, Last

\* The shape of what is given, before and after a step.
LEMMA GivenProperties ==
  ASSUME NEW r \in Seq(1..MaxDeltas), NEW d \in Seq(1..MaxDeltas)
  PROVE  /\ r \o d \in Seq(1..MaxDeltas)
         /\ Len(r) \in Nat /\ Len(d) \in Nat
         /\ Len(r \o d) = Len(r) + Len(d)
         /\ \A i \in 1..Len(r) : (r \o d)[i] = r[i]
         /\ \A i \in 1..Len(d) : (r \o d)[Len(r) + i] = d[i]
<1>1. \A i \in 1..Len(r) + Len(d) : (r \o d)[i] = IF i <= Len(r) THEN r[i] ELSE d[i - Len(r)]
  BY ConcatProperties
<1>2. Len(r) \in Nat /\ Len(d) \in Nat
  BY LenProperties
<1>3. \A i \in 1..Len(r) : (r \o d)[i] = r[i]
  BY <1>1, <1>2
<1>4. \A i \in 1..Len(d) : (r \o d)[Len(r) + i] = d[i]
  BY <1>1, <1>2
<1> QED
  BY <1>2, <1>3, <1>4, ConcatProperties

\* An element moved from the front of d to the end of r.
LEMMA Moved ==
  ASSUME NEW r \in Seq(1..MaxDeltas), NEW d \in Seq(1..MaxDeltas), d # <<>>
  PROVE  Append(r, Head(d)) \o Tail(d) = r \o d
<1>0. Head(d) \in 1..MaxDeltas /\ Tail(d) \in Seq(1..MaxDeltas)
  BY HeadTailProperties
<1>1. Head(d) \in 1..MaxDeltas /\ Tail(d) \in Seq(1..MaxDeltas) /\ <<Head(d)>> \in Seq(1..MaxDeltas)
  BY <1>0
<1>2. Append(r, Head(d)) \o Tail(d) = (r \o <<Head(d)>>) \o Tail(d)
  BY <1>1, AppendIsConcat
<1>3. @ = r \o (<<Head(d)>> \o Tail(d))
  BY <1>1, ConcatAssociative
<1>4. <<Head(d)>> \o Tail(d) = d
  BY <1>1, HeadTailProperties, SeqEqual
<1> QED
  BY <1>2, <1>3, <1>4

\* The sentinel is in the buffer exactly when not all of it are deltas.
LEMMA EndIsLeftOut ==
  ASSUME NEW b \in Seq(0..MaxDeltas), \A i \in 1..Len(b) : b[i] = END => i = Len(b)
  PROVE  b # Before(b) <=> \E i \in 1..Len(b) : b[i] = END
<1>1. Len(b) \in Nat /\ (b # <<>> => Len(b) > 0)
  BY EmptySeq, LenProperties
<1>2. b # <<>> /\ b[Len(b)] = END => Len(Before(b)) # Len(b) /\ Len(b) \in 1..Len(b)
  BY <1>1, BeforeProperties
<1>3. b = <<>> \/ b[Len(b)] # END => Before(b) = b
  BY DEF Before, Last
<1>4. b = <<>> => 1..Len(b) = {}
  BY EmptySeq
<1>5. CASE b # <<>> /\ b[Len(b)] = END
  BY <1>2, <1>5
<1>6. CASE b = <<>> \/ b[Len(b)] # END
  BY <1>3, <1>4, <1>6
<1> QED
  BY <1>5, <1>6

LEMMA EndWaits ==
  ASSUME Shape
  PROVE  /\ buffer # Deltas <=> \E i \in 1..Len(buffer) : buffer[i] = END
         /\ Deltas \in Seq(1..MaxDeltas)
<1>1. /\ buffer \in Seq(0..MaxDeltas)
      /\ \A i \in 1..Len(buffer) : buffer[i] = END => i = Len(buffer)
  BY LenProperties DEF Shape, TypeOK, SentinelLast
<1> QED
  BY <1>1, EndIsLeftOut, BeforeProperties, DeltasAreBefore

\* Putting the sentinel leaves the deltas alone.
LEMMA SentinelPut ==
  ASSUME Shape, \A i \in DOMAIN buffer : buffer[i] # END, buffer' = Append(buffer, END)
  PROVE  Deltas = buffer /\ Deltas' = buffer
<1> USE DEF Shape, TypeOK, END
<1>1. Deltas = buffer
  BY NoSentinel
<1>2. /\ Append(buffer, END) \in Seq(0..MaxDeltas)
      /\ Len(Append(buffer, END)) = Len(buffer) + 1
      /\ Append(buffer, END)[Len(buffer) + 1] = END
      /\ \A i \in 1..Len(buffer) : Append(buffer, END)[i] = buffer[i]
  BY StreamAssumption, AppendProperties, BufferSteps
<1>3. Deltas' = SubSeq(Append(buffer, END), 1, Len(buffer))
  BY <1>2 DEF Deltas, Last, Front
<1>4. Deltas' = buffer
  BY <1>2, <1>3, SeqEqual
<1> QED
  BY <1>1, <1>4

\* Reading takes the first delta, or the sentinel behind the last.
LEMMA ReadTakes ==
  ASSUME Shape, Read
  PROVE  \/ /\ Head(buffer) = END /\ received' = received
            /\ buffer' = <<>> /\ Deltas = <<>> /\ Deltas' = <<>>
         \/ /\ Head(buffer) # END /\ Deltas # <<>>
            /\ received' = Append(received, Head(Deltas))
            /\ Deltas' = Tail(Deltas)
<1>0. /\ buffer \in Seq(0..MaxDeltas) /\ received \in Seq(1..MaxDeltas)
      /\ \A i \in DOMAIN buffer : buffer[i] = END => i = Len(buffer)
  BY DEF Shape, TypeOK, SentinelLast
<1>1. buffer # <<>> /\ buffer' = Tail(buffer)
  BY DEF Read
<1>2. /\ Len(buffer) \in Nat \ {0} /\ DOMAIN buffer = 1..Len(buffer)
      /\ buffer' \in Seq(0..MaxDeltas) /\ Len(buffer') = Len(buffer) - 1
      /\ \A i \in 1..Len(buffer') : buffer'[i] = buffer[i + 1]
      /\ Head(buffer) = buffer[1]
  BY <1>0, <1>1, HeadTailProperties, LenProperties, EmptySeq
<1>3. CASE Head(buffer) = END /\ received' = received
  <2>1. Len(buffer) = 1
    BY <1>0, <1>2, <1>3
  <2>2. buffer' = <<>>
    BY <1>2, <2>1
  <2>3. Deltas' = <<>>
    BY <2>2 DEF Deltas
  <2>4. Deltas = SubSeq(buffer, 1, 0)
    BY <1>1, <1>2, <1>3, <2>1 DEF Deltas, Last, Front
  <2>5. Deltas = <<>>
    BY <2>4, <1>2
  <2> QED BY <1>3, <2>2, <2>3, <2>5
<1>4. CASE Head(buffer) # END /\ received' = Append(received, Head(buffer))
  <2>1. \A i \in 1..Len(buffer) : buffer[i] = END => i = Len(buffer)
    BY <1>0, <1>2
  <2>2. \A i \in 1..Len(buffer') : buffer'[i] = END => i = Len(buffer')
    <3> SUFFICES ASSUME NEW i \in 1..Len(buffer'), buffer'[i] = END PROVE i = Len(buffer')
      OBVIOUS
    <3>1. i + 1 \in 1..Len(buffer) /\ buffer[i + 1] = END
      BY <1>2
    <3>2. i + 1 = Len(buffer)
      BY <2>1, <3>1
    <3>3. i \in Int
      OBVIOUS
    <3>4. Len(buffer') = Len(buffer) - 1
      BY <1>2
    <3> QED BY <3>2, <3>3, <3>4
  <2>3. /\ Deltas \in Seq(1..MaxDeltas)
        /\ Len(Deltas) = IF buffer[Len(buffer)] = END THEN Len(buffer) - 1 ELSE Len(buffer)
        /\ \A i \in 1..Len(Deltas) : Deltas[i] = buffer[i]
    BY <1>0, <1>1, <2>1, BeforeProperties, DeltasAreBefore
  <2>4. /\ Deltas' \in Seq(1..MaxDeltas)
        /\ Len(Deltas') = IF buffer' # <<>> /\ buffer'[Len(buffer')] = END
                           THEN Len(buffer') - 1 ELSE Len(buffer')
        /\ \A i \in 1..Len(Deltas') : Deltas'[i] = buffer'[i]
    BY <1>2, <2>2, BeforeProperties, DeltasAreBefore
  <2>5. Len(Deltas') = Len(Deltas) - 1
    <3>1. CASE Len(buffer) = 1
      BY <1>2, <1>4, <2>3, <2>4, <3>1
    <3>2. CASE Len(buffer) > 1
      <4>1. buffer' # <<>> /\ buffer'[Len(buffer')] = buffer[Len(buffer)]
        BY <1>2, <3>2
      <4> QED BY <1>2, <2>3, <2>4, <4>1
    <3> QED BY <1>2, <3>1, <3>2
  <2>6. Deltas # <<>> /\ Head(Deltas) = Head(buffer)
    <3>1. Len(Deltas) > 0
      <4>1. Len(buffer) = 1 => buffer[Len(buffer)] # END
        BY <1>2, <1>4
      <4>2. Len(buffer) = 1 \/ Len(buffer) - 1 > 0
        BY <1>2
      <4>3. CASE buffer[Len(buffer)] = END
        BY <1>2, <2>3, <4>1, <4>2, <4>3
      <4>4. CASE buffer[Len(buffer)] # END
        BY <1>2, <2>3, <4>4
      <4> QED BY <4>3, <4>4
    <3>2. Deltas # <<>> /\ Head(Deltas) = Deltas[1] /\ 1 \in 1..Len(Deltas)
      BY <2>3, <3>1
    <3>3. Deltas[1] = buffer[1]
      BY <2>3, <3>2
    <3>4. Head(buffer) = buffer[1]
      BY <1>2
    <3> QED BY <3>2, <3>3, <3>4
  <2>7. Deltas' = Tail(Deltas)
    <3>1. /\ Tail(Deltas) \in Seq(1..MaxDeltas) /\ Len(Tail(Deltas)) = Len(Deltas) - 1
          /\ \A i \in 1..Len(Tail(Deltas)) : Tail(Deltas)[i] = Deltas[i + 1]
      BY <2>3, <2>6, HeadTailProperties
    <3>2. \A i \in 1..Len(Deltas') : Deltas'[i] = Tail(Deltas)[i]
      <4> SUFFICES ASSUME NEW i \in 1..Len(Deltas') PROVE Deltas'[i] = Tail(Deltas)[i]
        OBVIOUS
      <4>0. /\ Len(Deltas) \in Nat /\ i \in Nat /\ 1 <= i /\ i <= Len(Deltas) - 1
            /\ Len(Deltas) - 1 <= Len(buffer')
        <5>1. Len(Deltas) \in Nat /\ Len(Deltas') = Len(Deltas) - 1
          BY <2>3, <2>5, LenProperties
        <5>2. Len(Deltas) \in {Len(buffer), Len(buffer) - 1}
          BY <2>3
        <5>3. \A n, m, k \in Nat : k \in 1..m /\ m = n - 1 =>
                 1 <= k /\ k <= n - 1
          OBVIOUS
        <5>4. Len(Deltas') \in Nat /\ i \in Nat
          BY <2>4, LenProperties
        <5>5. 1 <= i /\ i <= Len(Deltas) - 1
          BY <5>1, <5>3, <5>4
        <5>6. Len(Deltas) - 1 <= Len(buffer')
          <6>1. \A n, m, k \in Int : k = n - 1 /\ m \in {n, n - 1} => m - 1 <= k
            OBVIOUS
          <6>2. Len(buffer) \in Int /\ Len(Deltas) \in Int /\ Len(buffer') \in Int
            BY <1>2, <5>1, LenProperties
          <6> QED BY <1>2, <5>2, <6>1, <6>2
        <5> QED BY <5>1, <5>4, <5>5, <5>6
      <4>1. /\ i \in 1..Len(buffer') /\ i \in 1..Len(Tail(Deltas))
            /\ i + 1 \in 1..Len(Deltas)
        BY <1>2, <3>1, <4>0
      <4> QED BY <1>2, <2>3, <2>4, <3>1, <4>1
    <3> QED BY <2>4, <2>5, <3>1, <3>2, SeqEqual
  <2> QED BY <1>4, <2>6, <2>7
<1> QED
  BY <1>3, <1>4 DEF Read

\* Neither the sentinel nor the reader changes what is given.
LEMMA SentinelGivesNothing ==
  ASSUME Shape, \A i \in DOMAIN buffer : buffer[i] # END, buffer' = Append(buffer, END),
         received' = received
  PROVE  Given' = Given
BY SentinelPut DEF Given

LEMMA ReadGivesNothing ==
  ASSUME Shape, Read
  PROVE  Given' = Given
<1>1. Deltas \in Seq(1..MaxDeltas) /\ received \in Seq(1..MaxDeltas)
  BY EndWaits DEF Shape, TypeOK
<1> QED
  BY <1>1, ReadTakes, Moved DEF Given

\* A delta that found room is the next to be given.
LEMMA DeltaGiven ==
  ASSUME Shape, tracked, collected + 1 \in 1..MaxDeltas, buffer' = Append(buffer, collected + 1),
         received' = received
  PROVE  /\ Given' = Append(Given, collected + 1)
         /\ Deltas = buffer /\ Deltas' = buffer'
<1> DEFINE d == collected + 1
<1>1. /\ buffer \in Seq(0..MaxDeltas) /\ received \in Seq(1..MaxDeltas)
      /\ \A i \in 1..Len(buffer) : buffer[i] # END
  BY LenProperties DEF Shape, TypeOK, SentinelLast
<1>2. buffer \in Seq(1..MaxDeltas) /\ Deltas = buffer
  BY <1>1, Narrow, NoSentinel, LenProperties
<1>3. buffer' \in Seq(1..MaxDeltas) /\ buffer' \in Seq(0..MaxDeltas) /\ buffer' # <<>>
      /\ Len(buffer') = Len(buffer) + 1 /\ buffer'[Len(buffer) + 1] = d
  BY <1>1, <1>2, AppendProperties
<1>4. d # END
  BY DEF END
<1>5. Deltas' = buffer'
  BY <1>3, <1>4 DEF Deltas, Last
<1>6. <<d>> \in Seq(1..MaxDeltas) /\ buffer' = buffer \o <<d>>
  BY <1>2, AppendIsConcat
<1>7. received \o (buffer \o <<d>>) = (received \o buffer) \o <<d>>
  BY <1>1, <1>2, <1>6, ConcatAssociative
<1>8. received \o buffer \in Seq(1..MaxDeltas)
  BY <1>1, <1>2, ConcatProperties
<1>9. (received \o buffer) \o <<d>> = Append(received \o buffer, d)
  BY <1>8, AppendIsConcat
<1> QED
  BY <1>2, <1>5, <1>6, <1>7, <1>9 DEF Given

\* The types of Given.
LEMMA GivenIsSeq ==
  ASSUME Shape
  PROVE  Given \in Seq(1..MaxDeltas) /\ Len(Given) \in Nat /\ Len(Given) = Len(received) + Len(Deltas)
<1>1. received \in Seq(1..MaxDeltas) /\ Deltas \in Seq(1..MaxDeltas)
  BY BeforeProperties, DeltasAreBefore, LenProperties DEF Shape, TypeOK, SentinelLast
<1> QED
  BY <1>1, GivenProperties, LenProperties DEF Given

LEMMA IntactStep == StreamInv /\ [Next]_vars => Intact'
<1> SUFFICES ASSUME Shape, Intact, [Next]_vars PROVE Intact'
  BY DEF StreamInv
<1>1. Given' = Given /\ collected' = collected => Intact'
  BY DEF Intact
<1>2. UNCHANGED <<buffer, received, collected>> => Intact'
  BY <1>1 DEF Given, Deltas
<1>3. ASSUME buffer' = Append(buffer, END), tracked \/ inner = "putting",
             UNCHANGED <<received, collected>>
      PROVE  Intact'
  <2>1. \A i \in DOMAIN buffer : buffer[i] # END
    BY <1>3 DEF Shape, SentinelLast
  <2> QED BY <1>1, <1>3, <2>1, SentinelGivesNothing
<1>4. CASE Delta
  <2>1. /\ tracked /\ collected \in Nat /\ collected' = collected + 1
        /\ collected + 1 \in 1..MaxDeltas /\ received' = received
    BY <1>4, StreamAssumption DEF Delta, Shape, TypeOK, NextMeans, readerVars
  <2>2. /\ Given \in Seq(1..MaxDeltas) /\ Len(Given) \in Nat
        /\ Len(Given) = Len(received) + Len(Deltas)
    BY GivenIsSeq
  <2>3. CASE Room
    <3>1. Given' = Append(Given, collected + 1)
      BY <1>4, <2>1, <2>3, DeltaGiven DEF Delta
    <3>2. /\ Len(Given') = Len(Given) + 1
          /\ \A i \in 1..Len(Given) : Given'[i] = Given[i]
          /\ Given'[Len(Given) + 1] = collected + 1
      BY <2>1, <2>2, <3>1, AppendProperties
    <3>3. \A i \in 1..Len(Given') : i \in 1..Len(Given) \/ i = Len(Given) + 1
      BY <2>2, <3>2
    <3>4. \A i \in 1..Len(Given') : Given'[i] \in 1..collected'
      BY <2>1, <2>2, <3>2, <3>3 DEF Intact
    <3>5. \A i, k \in 1..Len(Given') : i < k => Given'[i] < Given'[k]
      <4> SUFFICES ASSUME NEW i \in 1..Len(Given'), NEW k \in 1..Len(Given'), i < k
                   PROVE  Given'[i] < Given'[k]
        OBVIOUS
      <4>1. i \in 1..Len(Given)
        BY <2>2, <3>2, <3>3
      <4>2. CASE k \in 1..Len(Given)
        BY <3>2, <4>1, <4>2 DEF Intact
      <4>3. CASE k = Len(Given) + 1
        BY <2>1, <3>2, <4>1, <4>3 DEF Intact
      <4> QED BY <3>3, <4>2, <4>3
    <3>6. collected' <= Capacity =>
            Len(Given') = collected' /\ \A i \in 1..Len(Given') : Given'[i] = i
      BY <2>1, <2>2, <3>2, <3>3, StreamAssumption DEF Intact
    <3> QED BY <3>4, <3>5, <3>6 DEF Intact
  <2>4. CASE ~Room
    <3>1. Given' = Given
      BY <1>4, <2>4 DEF Delta, Given, Deltas, readerVars
    <3>2. \A i \in DOMAIN buffer : buffer[i] # END
      BY <2>1 DEF Shape, SentinelLast
    <3>3. Deltas = buffer
      BY <3>2, NoSentinel DEF Shape, TypeOK
    <3>4. Len(received) \in Nat /\ Len(buffer) \in Nat /\ Len(buffer) >= Capacity
      BY <2>4, StreamAssumption, LenProperties DEF Room, Shape, TypeOK
    <3>5. Len(Given) >= Capacity
      BY <2>2, <3>3, <3>4, StreamAssumption
    <3>6. ~(collected' <= Capacity)
      BY <2>1, <3>5, StreamAssumption DEF Intact
    <3> QED BY <2>1, <3>1, <3>6 DEF Intact
  <2> QED BY <2>3, <2>4
<1>5. CASE UNCHANGED vars
  BY <1>2, <1>5 DEF vars, busVars, innerVars, readerVars
<1>6. CASE InnerStart
  BY <1>2, <1>6 DEF InnerStart, Shape, NextMeans, readerVars
<1>7. CASE Exhausted
  BY <1>2, <1>3, <1>7 DEF Exhausted, CloseInner, readerVars
<1>8. CASE PutResume
  BY <1>3, <1>8 DEF PutResume, readerVars
<1>9. CASE InnerCancelled
  BY <1>2, <1>3, <1>9 DEF InnerCancelled, CloseInner, busVars, readerVars
<1>10. CASE CloseAll
  BY <1>2, <1>3, <1>10 DEF CloseAll, innerVars, readerVars
<1>11. CASE InnerDone \/ TimedOut
  BY <1>2, <1>3, <1>11 DEF InnerDone, LoseCancellation, TimedOut, Settle, innerVars, readerVars
<1>12. CASE Pick \/ Timeout \/ WorkerCancelled \/ Aborted \/ StopCancel \/ CancelQueued
            \/ Poll \/ Disconnect
  BY <1>2, <1>12 DEF Pick, LoseCancellation, Timeout, WorkerCancelled, Aborted, StopCancel, CancelQueued, Poll,
     Disconnect, busVars, innerVars, readerVars
<1>13. CASE Read
  BY <1>1, <1>13, ReadGivesNothing DEF Read, innerVars
<1> QED
  BY <1>4, <1>5, <1>6, <1>7, <1>8, <1>9, <1>10, <1>11, <1>12, <1>13 DEF Next

LEMMA StreamInvAlways == Spec => []StreamInv
<1>1. Init => Intact
  <2> SUFFICES ASSUME Init PROVE Intact
    OBVIOUS
  <2>1. Deltas = <<>> /\ received = <<>> /\ collected = 0
    BY DEF Init, Deltas
  <2>2. Given = <<>>
    BY <2>1 DEF Given
  <2> QED BY <2>1, <2>2 DEF Intact
<1>2. StreamInv /\ [Next]_vars => StreamInv'
  BY ShapeStep, IntactStep DEF StreamInv
<1> QED
  BY <1>1, <1>2, ShapeInit, PTL DEF Spec, StreamInv

--------------------------------------------------------------------------------
(* The theorems.                                                           *)

\* Type correctness: in particular a queue of deltas and at most one sentinel.
THEOREM StreamTypes == Spec => []TypeOK
<1>1. Shape => TypeOK
  BY DEF Shape
<1> QED
  BY <1>1, ShapeAlways, PTL

\* Whoever ends the stream, and in whatever order the timeout, stop() and the
\* model's thread get to it, the sentinel is put at most once and last.
THEOREM SentinelTheorem == Spec => []SentinelOnceAndLast
<1>1. Shape => SentinelOnceAndLast
  <2> SUFFICES ASSUME Shape PROVE SentinelOnceAndLast
    OBVIOUS
  <2>1. inner = "putting" => ~tracked
    BY DEF Shape, TrackedMeans
  <2>2. inner = "putting" => END \notin ToSet(buffer)
    BY LenProperties DEF Shape, TypeOK, SentinelLast, ToSet
  <2> QED BY <2>1, <2>2 DEF Shape, SentinelLast, SentinelOnceAndLast
<1> QED
  BY <1>1, ShapeAlways, PTL

\* For every capacity: what the reader is given is in order and without
\* repetition, and complete until more was generated than the buffer holds.
THEOREM IntactTheorem == Spec => []DeltasIntact
<1>1. StreamInv => DeltasIntact
  <2> SUFFICES ASSUME Shape, Intact PROVE DeltasIntact
    BY DEF StreamInv
  <2>1. Given \in Seq(1..MaxDeltas) /\ Len(Given) \in Nat /\ DOMAIN Given = 1..Len(Given)
    BY GivenIsSeq, LenProperties
  <2>2. collected <= Capacity => Given = [i \in 1..collected |-> i]
    BY <2>1 DEF Intact
  <2> QED BY <2>1, <2>2 DEF DeltasIntact, Intact, Given
<1> QED
  BY <1>1, StreamInvAlways, PTL

\* close_all() of stop() never finds a stream of a worker it has joined.
THEOREM NothingLeftTheorem == Spec => []NothingLeftToClose
<1>1. Shape => NothingLeftToClose
  BY DEF Shape, TasksAgree, TrackedMeans, NothingLeftToClose
<1> QED
  BY <1>1, ShapeAlways, PTL

--------------------------------------------------------------------------------
(* What the reader sees: a stream implements AbstractStream.               *)

\* Progress without its CASE.
LEMMA ProgressIs ==
  ASSUME tracked \in BOOLEAN
  PROVE  /\ tracked => Progress = "open"
         /\ ~tracked /\ inner \in {"none", "spawned"} => Progress = "unborn"
         /\ ~tracked /\ inner = "putting" => Progress = "closing"
         /\ ~tracked /\ inner \notin {"none", "spawned", "putting"} =>
              Progress = IF reader = "ended" \/ buffer # Deltas THEN "closed" ELSE "cut"
BY DEF Progress

\* A step that only moves a reader, or tasks within the same part of the stream's
\* life.
LEMMA ProgressKept ==
  ASSUME Shape, Shape', UNCHANGED <<tracked, buffer>>,
         reader' = "ended" <=> reader = "ended",
         tracked \/ inner' = inner \/ {inner, inner'} \subseteq {"none", "spawned"}
  PROVE  Progress' = Progress /\ Deltas' = Deltas
<1>1. tracked \in BOOLEAN /\ tracked' = tracked
  BY DEF Shape, TypeOK
<1>2. Deltas' = Deltas
  BY DEF Deltas
<1> QED
  BY <1>1, <1>2 DEF Progress

\* bus.close() by the inner task is the abstract Close.
LEMMA CloseIsClose ==
  ASSUME Shape, Shape', inner = "next", NEW how \in {"returned", "raised", "gone"},
         CloseInner(how), UNCHANGED <<collected, received, reader>>
  PROVE  Channel!Close
<1>1. /\ tracked /\ ~tracked' /\ tracked \in BOOLEAN /\ tracked' \in BOOLEAN
      /\ \A i \in DOMAIN buffer : buffer[i] # END
      /\ buffer \in Seq(0..MaxDeltas)
  BY DEF Shape, TypeOK, NextMeans, SentinelLast, CloseInner
<1>2. Deltas = buffer
  BY <1>1, NoSentinel
<1>3. Progress = "open"
  BY <1>1, ProgressIs
<1>4. CASE Room /\ buffer' = Append(buffer, END) /\ inner' = how
  <2>1. Deltas' = buffer /\ buffer' # buffer
    <3>1. Deltas' = buffer
      BY <1>1, <1>4, SentinelPut
    <3>2. Len(buffer') = Len(buffer) + 1 /\ Len(buffer) \in Nat
      BY <1>1, <1>4, BufferSteps, AppendProperties, LenProperties
    <3>3. Len(buffer') # Len(buffer)
      BY <3>2
    <3> QED BY <3>1, <3>3
  <2>2. Progress' = "closed"
    BY <1>1, <1>4, <2>1 DEF Progress
  <2> QED
    BY <1>2, <1>3, <1>4, <2>1, <2>2 DEF Channel!Close, Channel!HasRoom, Room, Audience
<1>5. CASE ~Room /\ buffer' = buffer /\ inner' = "putting"
  <2>1. Deltas' = Deltas
    BY <1>5 DEF Deltas
  <2>2. Progress' = "closing"
    BY <1>1, <1>5 DEF Progress
  <2> QED
    BY <1>2, <1>3, <1>5, <2>1, <2>2 DEF Channel!Close, Channel!HasRoom, Room, Audience
<1> QED
  BY <1>1, <1>4, <1>5 DEF CloseInner

\* Every step of a stream's tasks and of its reader is a step of the abstract
\* stream, or none.
LEMMA ChannelStep ==
  ASSUME Shape, [Next]_vars
  PROVE  [Channel!Next]_(Channel!vars)
<1> DEFINE Nothing == UNCHANGED Channel!vars
<1>0. /\ Shape' /\ tracked \in BOOLEAN /\ tracked' \in BOOLEAN
      /\ tracked => inner \in {"next", "raised"}
      /\ buffer \in Seq(0..MaxDeltas) /\ received \in Seq(1..MaxDeltas)
  BY ShapeStep DEF Shape, TypeOK, TrackedMeans
<1>stay. ASSUME UNCHANGED <<tracked, buffer, collected, readerVars>>,
                inner' = inner \/ {inner, inner'} \subseteq {"none", "spawned"}
         PROVE  Nothing
  <2>1. UNCHANGED <<reader, received>>
    BY <1>stay DEF readerVars
  <2>2. Progress' = Progress /\ Deltas' = Deltas
    BY <1>0, <1>stay, <2>1, ProgressKept
  <2> QED BY <1>stay, <2>1, <2>2 DEF Channel!vars, Audience
<1>1. CASE UNCHANGED vars
  BY <1>1, <1>stay DEF vars, busVars, innerVars
<1>2. CASE InnerStart
  <2>1. /\ ~tracked /\ tracked' /\ buffer = <<>> /\ buffer' = <<>> /\ inner = "spawned"
        /\ UNCHANGED <<collected, received, reader>>
    BY <1>0, <1>2 DEF InnerStart, Shape, NextMeans, readerVars
  <2>2. Progress = "unborn" /\ Progress' = "open" /\ Deltas' = Deltas
    BY <2>1 DEF Progress, Deltas
  <2> QED BY <2>1, <2>2 DEF Channel!Next, Channel!Open, Audience
<1>3. CASE Delta
  <2>1. /\ tracked /\ tracked' /\ collected' = collected + 1 /\ collected + 1 \in 1..MaxDeltas
        /\ UNCHANGED <<received, reader>>
        /\ \A i \in DOMAIN buffer : buffer[i] # END
    BY <1>3, StreamAssumption
    DEF Delta, Shape, TypeOK, NextMeans, SentinelLast, readerVars
  <2>2. Deltas = buffer
    BY <1>0, <2>1, NoSentinel
  <2>3. Progress = "open" /\ Progress' = "open"
    BY <2>1 DEF Progress
  <2>4. Deltas' = IF Room THEN Append(Deltas, collected + 1) ELSE Deltas
    <3>1. CASE Room
      BY <1>3, <2>1, <2>2, <3>1, DeltaGiven DEF Delta
    <3>2. CASE ~Room
      BY <1>3, <3>2 DEF Delta, Deltas
    <3> QED BY <3>1, <3>2
  <2> QED
    BY <2>1, <2>2, <2>3, <2>4 DEF Channel!Next, Channel!Make, Channel!HasRoom, Room, Audience
<1>4. CASE Exhausted
  <2>1. PICK how \in {"returned", "raised"} : CloseInner(how)
    BY <1>4 DEF Exhausted
  <2> QED
    BY <1>0, <1>4, <2>1, CloseIsClose DEF Exhausted, readerVars, Channel!Next
<1>5. CASE PutResume
  <2>1. /\ ~tracked /\ ~tracked' /\ inner = "putting" /\ Room
        /\ inner' \in {"returned", "raised", "gone"}
        /\ UNCHANGED <<collected, received, reader>>
        /\ \A i \in DOMAIN buffer : buffer[i] # END
        /\ buffer' = Append(buffer, END)
    BY <1>0, <1>5 DEF PutResume, Shape, TasksAgree, SentinelLast, readerVars
  <2>2. Deltas = buffer /\ Deltas' = buffer
    BY <2>1, SentinelPut
  <2>3. buffer' # buffer
    <3>1. Len(buffer') = Len(buffer) + 1 /\ Len(buffer) \in Nat
      BY <1>0, <2>1, BufferSteps, AppendProperties, LenProperties
    <3>2. Len(buffer') # Len(buffer)
      BY <3>1
    <3> QED BY <3>2
  <2>4. Progress = "closing" /\ Progress' = "closed"
    BY <2>1, <2>2, <2>3 DEF Progress
  <2> QED
    BY <2>1, <2>2, <2>4 DEF Channel!Next, Channel!CloseAtLast, Channel!HasRoom, Room, Audience
<1>6. CASE InnerCancelled
  <2>1. CASE inner = "next" /\ CloseInner("gone")
    BY <1>0, <1>6, <2>1, CloseIsClose DEF InnerCancelled, readerVars, Channel!Next
  <2>2. CASE inner = "putting" /\ inner' = "gone" /\ UNCHANGED busVars
    <3>1. /\ ~tracked /\ ~tracked' /\ UNCHANGED <<buffer, collected, received, reader>>
          /\ reader # "ended" /\ \A i \in DOMAIN buffer : buffer[i] # END
      BY <1>0, <1>6, <2>2 DEF InnerCancelled, Shape, SentinelLast, busVars, readerVars
    <3>2. Deltas = buffer /\ Deltas' = buffer
      BY <1>0, <3>1, NoSentinel DEF Deltas
    <3>3. Progress = "closing" /\ Progress' = "cut"
      BY <2>2, <3>1, <3>2 DEF Progress
    <3> QED BY <3>1, <3>2, <3>3 DEF Channel!Next, Channel!Cut, Audience
  <2> QED BY <1>6, <2>1, <2>2 DEF InnerCancelled
<1>7. CASE Pick
  BY <1>7, <1>stay DEF Pick, LoseCancellation, busVars, Shape, TasksAgree
<1>8. CASE InnerDone
  <2>1. CASE tracked
    <3>1. /\ buffer = <<>> /\ inner = "raised" /\ Settle("failed")
          /\ UNCHANGED <<inner, collected, received, reader>>
      BY <1>8, <2>1 DEF InnerDone, LoseCancellation, Shape, TrackedMeans, innerVars, readerVars
    <3>2. ~tracked' /\ buffer' = Append(buffer, END)
      BY <2>1, <3>1 DEF Settle
    <3>hollow. \A i \in DOMAIN buffer : buffer[i] # END
      BY <2>1 DEF Shape, SentinelLast
    <3>3. Deltas = <<>> /\ Deltas' = <<>>
      BY <3>1, <3>2, <3>hollow, SentinelPut
    <3>4. buffer' # <<>>
      BY <3>1, <3>2
    <3>5. Progress = "open" /\ Progress' = "closed"
      BY <2>1, <3>1, <3>2, <3>3, <3>4 DEF Progress
    <3>6. Channel!HasRoom
      BY <3>3, StreamAssumption DEF Channel!HasRoom
    <3> QED BY <3>1, <3>3, <3>5, <3>6 DEF Channel!Next, Channel!Close, Audience
  <2>2. CASE ~tracked
    <3>1. buffer' = buffer /\ (tracked' <=> tracked) /\ inner' = inner
          /\ UNCHANGED <<collected, readerVars>>
      BY <1>0, <1>8, <2>2 DEF InnerDone, LoseCancellation, Settle, innerVars
    <3>2. tracked' = tracked
      BY <1>0, <3>1
    <3> QED BY <1>stay, <3>1, <3>2
  <2> QED BY <2>1, <2>2
<1>9. CASE TimedOut
  BY <1>0, <1>9, <1>stay DEF TimedOut, Settle, innerVars
<1>10. CASE Timeout \/ WorkerCancelled \/ Aborted \/ StopCancel \/ CancelQueued
  BY <1>10, <1>stay
  DEF Timeout, WorkerCancelled, LoseCancellation, Aborted, StopCancel, CancelQueued, busVars, innerVars
<1>11. CASE CloseAll
  BY <1>0, <1>11, <1>stay DEF CloseAll, innerVars, Shape, TasksAgree, TrackedMeans
<1>12. CASE Poll
  <2>1. /\ UNCHANGED <<tracked, buffer, inner, collected, received>> /\ reader = "polling"
        /\ \/ tracked /\ reader' = "reading"
           \/ reader' = "polling"
           \/ reader' = "noStream"
    BY <1>12 DEF Poll, LeaveWith, busVars, innerVars
  <2>2. Progress' = Progress /\ Deltas' = Deltas /\ (tracked => Progress = "open")
    BY <1>0, <2>1, ProgressKept, ProgressIs
  <2> QED
    BY <2>1, <2>2 DEF Channel!Next, Channel!Come, Channel!Leave, Channel!vars, Audience
<1>13. CASE Disconnect
  <2>1. /\ UNCHANGED <<tracked, buffer, inner, collected, received>>
        /\ reader \in {"polling", "reading"} /\ reader' = "left"
    BY <1>13 DEF Disconnect, LeaveWith, busVars, innerVars
  <2>2. Progress' = Progress /\ Deltas' = Deltas
    BY <1>0, <2>1, ProgressKept
  <2> QED BY <2>1, <2>2 DEF Channel!Next, Channel!Leave, Audience
<1>14. CASE Read
  <2>1. /\ reader = "reading" /\ buffer # <<>> /\ buffer' = Tail(buffer)
        /\ UNCHANGED <<tracked, inner, collected>>
        /\ Head(buffer) = END => reader' = "ended"
        /\ Head(buffer) # END => reader' = "reading"
        /\ inner \notin {"none", "spawned"}
    BY <1>14 DEF Read, LeaveWith, innerVars, Shape, NextMeans
  <2>2. CASE Head(buffer) = END
    <3>1. received' = received /\ Deltas = <<>> /\ Deltas' = <<>>
      BY <1>14, <2>2, ReadTakes
    <3>2. ~tracked /\ inner # "putting"
      <4>1. 1 \in DOMAIN buffer /\ buffer[1] = END
        BY <1>0, <2>1, <2>2, HeadTailProperties, LenProperties, EmptySeq
      <4> QED BY <4>1 DEF Shape, SentinelLast
    <3>3. Progress = "closed" /\ Progress' = "closed"
      BY <2>1, <2>2, <3>1, <3>2 DEF Progress
    <3> QED BY <2>1, <2>2, <3>1, <3>3 DEF Channel!Next, Channel!Told, Audience
  <2>3. CASE Head(buffer) # END
    <3>1. /\ Deltas # <<>> /\ received' = Append(received, Head(Deltas))
          /\ Deltas' = Tail(Deltas)
      BY <1>14, <2>3, ReadTakes
    <3>2. (buffer' # Deltas') <=> (buffer # Deltas)
      <4>1. /\ Len(buffer') = Len(buffer) - 1 /\ Len(buffer) \in Nat \ {0}
            /\ \A i \in 1..Len(buffer') : buffer'[i] = buffer[i + 1]
            /\ buffer[1] # END
        BY <1>0, <2>1, <2>3, HeadTailProperties, EmptySeq
      <4>2. (\E i \in 1..Len(buffer) : buffer[i] = END)
              <=> (\E i \in 1..Len(buffer') : buffer'[i] = END)
        <5>1. ASSUME NEW i \in 1..Len(buffer), buffer[i] = END
              PROVE  i - 1 \in 1..Len(buffer') /\ buffer'[i - 1] = END
          <6>1. i # 1
            BY <4>1, <5>1
          <6>2. i - 1 \in 1..Len(buffer') /\ (i - 1) + 1 = i
            BY <4>1, <6>1
          <6> QED BY <4>1, <5>1, <6>2
        <5>2. ASSUME NEW i \in 1..Len(buffer'), buffer'[i] = END
              PROVE  i + 1 \in 1..Len(buffer) /\ buffer[i + 1] = END
          BY <4>1, <5>2
        <5> QED BY <5>1, <5>2
      <4>3. buffer # Deltas <=> \E i \in 1..Len(buffer) : buffer[i] = END
        BY EndWaits
      <4>4. /\ buffer' \in Seq(0..MaxDeltas)
            /\ \A i \in 1..Len(buffer') : buffer'[i] = END => i = Len(buffer')
        BY <1>0, LenProperties DEF Shape, TypeOK, SentinelLast
      <4>5. buffer' # Deltas' <=> \E i \in 1..Len(buffer') : buffer'[i] = END
        BY <4>4, EndIsLeftOut, DeltasAreBefore
      <4> QED BY <4>2, <4>3, <4>5
    <3>3. Progress' = Progress
      BY <1>0, <2>1, <2>3, <3>2 DEF Progress
    <3> QED BY <2>1, <2>3, <3>1, <3>3 DEF Channel!Next, Channel!Take, Audience
  <2> QED BY <2>2, <2>3
<1> QED
  BY <1>1, <1>2, <1>3, <1>4, <1>5, <1>6, <1>7, <1>8, <1>9, <1>10, <1>11, <1>12, <1>13, <1>14 DEF Next

\* Whoever ends the stream and whatever is cancelled meanwhile, the reader sees the
\* channel of AbstractStream: the deltas in order, some lost only while the buffer
\* is full, the end told after the last, or cut off while it waited for room.
THEOREM ImplementsAbstractStream == Spec => ImplementsStream
<1>1. Init => Channel!Init
  BY DEF Init, Channel!Init, Progress, Audience, Deltas
<1>2. Shape /\ [Next]_vars => [Channel!Next]_(Channel!vars)
  BY ChannelStep
<1> QED
  BY <1>1, <1>2, ShapeAlways, PTL DEF Spec, ImplementsStream, Channel!Spec
================================================================================
