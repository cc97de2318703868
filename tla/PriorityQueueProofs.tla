-------------------------- MODULE PriorityQueueProofs --------------------------
(***************************************************************************)
(* Theorems about scheduler/queue.py as PriorityQueue models it, for every *)
(* set of jobs and workers, every priority and every bound.                *)
(***************************************************************************)
EXTENDS PriorityQueue, FiniteSetTheorems, SequenceTheorems, TLAPS

--------------------------------------------------------------------------------
(* Sequences of tasks.                                                     *)

\* Removing one entry of a wait set loses that entry and nothing else.
LEMMA RemoveAtSeq ==
  ASSUME NEW S, NEW s \in Seq(S), NEW i \in DOMAIN s
  PROVE  /\ RemoveAt(s, i) \in Seq(S)
         /\ Len(RemoveAt(s, i)) = Len(s) - 1
         /\ \A k \in 1..(Len(s) - 1) :
              RemoveAt(s, i)[k] = IF k < i THEN s[k] ELSE s[k + 1]
<1> DEFINE before == SubSeq(s, 1, i - 1)
           after == SubSeq(s, i + 1, Len(s))
<1>1. i \in 1..Len(s) /\ Len(s) \in Nat
  OBVIOUS
<1>2. /\ before \in Seq(S) /\ Len(before) = i - 1
      /\ \A k \in 1..(i - 1) : before[k] = s[k]
  BY <1>1
<1>3. /\ after \in Seq(S) /\ Len(after) = Len(s) - i
      /\ \A k \in 1..(Len(s) - i) : after[k] = s[i + k]
  BY <1>1
<1> HIDE DEF before, after
<1>4. /\ before \o after \in Seq(S)
      /\ Len(before \o after) = Len(s) - 1
  BY <1>1, <1>2, <1>3
<1>5. ASSUME NEW k \in 1..(Len(s) - 1)
      PROVE  (before \o after)[k] = IF k < i THEN s[k] ELSE s[k + 1]
  <2>1. CASE k < i
    <3>1. k \in 1..(i - 1)
      BY <1>1, <2>1
    <3>2. (before \o after)[k] = before[k]
      BY <1>1, <1>2, <1>3, <3>1
    <3>3. QED
      BY <1>2, <2>1, <3>1, <3>2
  <2>2. CASE ~(k < i)
    <3>1. k - (i - 1) \in 1..(Len(s) - i)
      BY <1>1, <2>2
    <3>2. k \in 1..(Len(before) + Len(after)) /\ ~(k <= Len(before))
      BY <1>1, <1>2, <1>3, <2>2
    <3>3. (before \o after)[k] = after[k - Len(before)]
      BY <1>2, <1>3, <3>2, ConcatProperties
    <3>4. after[k - (i - 1)] = s[i + (k - (i - 1))] /\ i + (k - (i - 1)) = k + 1
      BY <1>1, <1>3, <3>1
    <3>5. QED
      BY <1>2, <2>2, <3>3, <3>4
  <2>3. QED
    BY <2>1, <2>2
<1>6. QED
  BY <1>4, <1>5 DEF RemoveAt, before, after

\* What the wait set holds after one entry was removed.
LEMMA RemoveAtSet ==
  ASSUME NEW S, NEW s \in Seq(S), NEW i \in DOMAIN s
  PROVE  /\ ToSet(RemoveAt(s, i)) \subseteq ToSet(s)
         /\ ToSet(s) = ToSet(RemoveAt(s, i)) \cup {s[i]}
<1>1. ASSUME NEW k \in DOMAIN RemoveAt(s, i)
      PROVE  RemoveAt(s, i)[k] \in ToSet(s)
  <2>1. k \in 1..(Len(s) - 1) /\ Len(s) \in Nat
    BY RemoveAtSeq
  <2>2. RemoveAt(s, i)[k] = s[k] \/ RemoveAt(s, i)[k] = s[k + 1]
    BY <2>1, RemoveAtSeq
  <2>3. QED
    BY <2>1, <2>2 DEF ToSet
<1>2. ASSUME NEW k \in DOMAIN s, k # i
      PROVE  s[k] \in ToSet(RemoveAt(s, i))
  <2>1. /\ i \in 1..Len(s) /\ k \in 1..Len(s) /\ Len(s) \in Nat
        /\ DOMAIN RemoveAt(s, i) = 1..(Len(s) - 1)
    BY RemoveAtSeq
  <2>2. CASE k < i
    <3>1. k \in 1..(Len(s) - 1)
      BY <2>1, <2>2
    <3>2. RemoveAt(s, i)[k] = s[k]
      BY <2>2, <3>1, RemoveAtSeq
    <3>3. QED
      BY <2>1, <3>1, <3>2 DEF ToSet
  <2>3. CASE k > i
    <3>1. k - 1 \in 1..(Len(s) - 1) /\ ~(k - 1 < i) /\ (k - 1) + 1 = k
      BY <2>1, <2>3
    <3>2. RemoveAt(s, i)[k - 1] = s[(k - 1) + 1]
      BY <3>1, RemoveAtSeq
    <3>3. QED
      BY <2>1, <3>1, <3>2 DEF ToSet
  <2>4. QED
    BY <1>2, <2>1, <2>2, <2>3
<1>3. QED
  BY <1>1, <1>2 DEF ToSet

LEMMA AppendSet ==
  ASSUME NEW S, NEW s \in Seq(S), NEW t \in S
  PROVE  ToSet(Append(s, t)) = ToSet(s) \cup {t}
<1>1. t \in ToSet(Append(s, t))
  <2>1. Len(s) + 1 \in DOMAIN Append(s, t) /\ Append(s, t)[Len(s) + 1] = t
    OBVIOUS
  <2>2. QED
    BY <2>1 DEF ToSet
<1>2. ToSet(s) \subseteq ToSet(Append(s, t))
  <2>1. \A i \in DOMAIN s : i \in DOMAIN Append(s, t) /\ Append(s, t)[i] = s[i]
    OBVIOUS
  <2>2. QED
    BY <2>1 DEF ToSet
<1>3. ToSet(Append(s, t)) \subseteq ToSet(s) \cup {t}
  BY DEF ToSet
<1>4. QED
  BY <1>1, <1>2, <1>3

LEMMA TailSet ==
  ASSUME NEW S, NEW s \in Seq(S), s # <<>>
  PROVE  /\ Tail(s) \in Seq(S)
         /\ Head(s) \in S
         /\ ToSet(Tail(s)) \subseteq ToSet(s)
         /\ ToSet(s) = ToSet(Tail(s)) \cup {Head(s)}
<1>1. Tail(s) \in Seq(S) /\ Head(s) \in S
  OBVIOUS
<1>2. ToSet(Tail(s)) \subseteq ToSet(s)
  BY DEF ToSet
<1>3. ASSUME NEW k \in DOMAIN s
      PROVE  s[k] \in ToSet(Tail(s)) \cup {Head(s)}
  <2>1. CASE k = 1
    BY <2>1
  <2>2. CASE k # 1
    <3>1. k - 1 \in DOMAIN Tail(s) /\ Tail(s)[k - 1] = s[k]
      BY <2>2
    <3>2. QED
      BY <3>1 DEF ToSet
  <2>3. QED
    BY <2>1, <2>2
<1>4. Head(s) \in ToSet(s)
  BY DEF ToSet
<1>5. QED
  BY <1>1, <1>2, <1>3, <1>4 DEF ToSet

LEMMA ConcatSet ==
  ASSUME NEW S, NEW s \in Seq(S), NEW t \in Seq(S)
  PROVE  /\ s \o t \in Seq(S)
         /\ ToSet(s \o t) = ToSet(s) \cup ToSet(t)
<1>1. \A i \in DOMAIN s : i \in DOMAIN (s \o t) /\ (s \o t)[i] = s[i]
  OBVIOUS
<1>2. \A i \in DOMAIN t : Len(s) + i \in DOMAIN (s \o t) /\ (s \o t)[Len(s) + i] = t[i]
  OBVIOUS
<1>3. ToSet(s) \subseteq ToSet(s \o t)
  BY <1>1 DEF ToSet
<1>4. ToSet(t) \subseteq ToSet(s \o t)
  BY <1>2 DEF ToSet
<1>5. ToSet(s \o t) \subseteq ToSet(s) \cup ToSet(t)
  BY DEF ToSet
<1>6. QED
  BY <1>3, <1>4, <1>5

--------------------------------------------------------------------------------
(* Type correctness.                                                       *)

\* What waiting and notifying do to the tasks that wait and are ready.
LEMMA WaitSet ==
  ASSUME TypeOK, NEW STATE running, running \in Seq(Tasks),
         NEW t \in Tasks, Wait(t, running)
  PROVE  /\ waiters' \in Seq(Tasks)
         /\ ready' \in Seq(Tasks)
         /\ ToSet(waiters') = ToSet(waiters) \cup {t}
         /\ ready' = running
  BY AppendSet DEF TypeOK, Wait

LEMMA NotifySet ==
  ASSUME TypeOK, NEW STATE running, running \in Seq(Tasks), Notify(running)
  PROVE  /\ waiters' \in Seq(Tasks)
         /\ ready' \in Seq(Tasks)
         /\ ToSet(waiters') \subseteq ToSet(waiters)
         /\ ToSet(running) \subseteq ToSet(ready')
         /\ ToSet(waiters') \cup ToSet(ready') = ToSet(waiters) \cup ToSet(running)
<1>1. CASE Notifiable = {} /\ waiters' = waiters /\ ready' = running
  BY <1>1 DEF TypeOK
<1>2. ASSUME NEW i \in Notifiable,
             waiters' = RemoveAt(waiters, i), ready' = Append(running, waiters[i])
      PROVE  /\ waiters' \in Seq(Tasks)
             /\ ready' \in Seq(Tasks)
             /\ ToSet(waiters') \subseteq ToSet(waiters)
             /\ ToSet(running) \subseteq ToSet(ready')
             /\ ToSet(waiters') \cup ToSet(ready')
                  = ToSet(waiters) \cup ToSet(running)
  <2>1. waiters \in Seq(Tasks) /\ i \in DOMAIN waiters /\ waiters[i] \in Tasks
    BY DEF TypeOK, Notifiable
  <2>2. /\ RemoveAt(waiters, i) \in Seq(Tasks)
        /\ ToSet(RemoveAt(waiters, i)) \subseteq ToSet(waiters)
        /\ ToSet(waiters) = ToSet(RemoveAt(waiters, i)) \cup {waiters[i]}
    BY <2>1, RemoveAtSeq, RemoveAtSet
  <2>3. ToSet(Append(running, waiters[i])) = ToSet(running) \cup {waiters[i]}
    BY <2>1, AppendSet
  <2>4. Append(running, waiters[i]) \in Seq(Tasks)
    BY <2>1
  <2>5. QED
    BY <1>2, <2>2, <2>3, <2>4
<1>3. QED
  BY <1>1, <1>2 DEF Notify

\* put() and get() keep the wait sets well-typed, whichever way they end.
LEMMA PutWaitSets ==
  ASSUME TypeOK, NEW STATE running, running \in Seq(Tasks),
         NEW j \in Jobs, Put(j, running)
  PROVE  /\ waiters' \in Seq(Tasks)
         /\ ready' \in Seq(Tasks)
         /\ heap' \subseteq Jobs
         /\ tombstones' = tombstones
<1>1. j \in Tasks
  BY DEF Tasks
<1>2. QED
  BY <1>1, WaitSet, NotifySet DEF Put, TypeOK

LEMMA GetWaitSets ==
  ASSUME TypeOK, NEW STATE running, running \in Seq(Tasks),
         NEW w \in Workers, Get(w, running)
  PROVE  /\ waiters' \in Seq(Tasks)
         /\ ready' \in Seq(Tasks)
         /\ heap' \subseteq heap
         /\ tombstones' \subseteq tombstones
         /\ got' \in [Workers -> Jobs \cup {NoJob}]
<1>1. w \in Tasks
  BY DEF Tasks
<1>2. CASE Pop(w, running)
  <2>1. Notify(running)
    BY <1>2 DEF Pop
  <2>2. Live \subseteq Jobs
    BY DEF TypeOK, Live
  <2>3. QED
    BY <1>2, <2>1, <2>2, NotifySet DEF Pop, TypeOK
<1>3. CASE Starve(w, running)
  BY <1>1, <1>3, WaitSet DEF Starve, TypeOK
<1>4. QED
  BY <1>2, <1>3 DEF Get

\* Every step leaves every variable in its type.
LEMMA TypeStep == TypeOK /\ [Next]_vars => TypeOK'
<1> SUFFICES ASSUME TypeOK, [Next]_vars PROVE TypeOK'
  OBVIOUS
<1>0. ready # <<>> => /\ Head(ready) \in Tasks
                      /\ Tail(ready) \in Seq(Tasks)
  BY TailSet DEF TypeOK
<1>1. ASSUME NEW j \in Jobs, PutCall(j) PROVE TypeOK'
  <2>1. ready \in Seq(Tasks) /\ Put(j, ready)
    BY <1>1 DEF PutCall, TypeOK
  <2>2. QED
    BY <1>1, <2>1, PutWaitSets DEF PutCall, TypeOK
<1>2. ASSUME PutWake PROVE TypeOK'
  <2>1. Put(Head(ready), Tail(ready)) /\ Head(ready) \in Jobs /\ Tail(ready) \in Seq(Tasks)
    BY <1>0, <1>2 DEF PutWake
  <2>2. QED
    BY <1>2, <2>1, PutWaitSets DEF PutWake, TypeOK
<1>3. ASSUME NEW w \in Workers, GetCall(w) PROVE TypeOK'
  <2>1. ready \in Seq(Tasks) /\ Get(w, ready)
    BY <1>3 DEF GetCall, TypeOK
  <2>2. QED
    BY <1>3, <2>1, GetWaitSets DEF GetCall, TypeOK
<1>4. ASSUME GetWake PROVE TypeOK'
  <2>1. Get(Head(ready), Tail(ready)) /\ Head(ready) \in Workers /\ Tail(ready) \in Seq(Tasks)
    BY <1>0, <1>4 DEF GetWake
  <2>2. QED
    BY <1>4, <2>1, GetWaitSets DEF GetWake, TypeOK
<1>5. ASSUME NEW j \in Jobs, Cancel(j) PROVE TypeOK'
  <2>1. ready \o waiters \in Seq(Tasks)
    BY ConcatSet DEF TypeOK
  <2>2. QED
    BY <1>5, <2>1 DEF Cancel, TypeOK
<1>6. ASSUME Abort PROVE TypeOK'
  BY <1>6 DEF Abort, TypeOK
<1>7. ASSUME NEW w \in Workers, Leave(w) PROVE TypeOK'
  <2>1. \A i \in DOMAIN waiters : RemoveAt(waiters, i) \in Seq(Tasks)
    BY RemoveAtSeq DEF TypeOK
  <2>2. waiters' \in Seq(Tasks) /\ ready' \in Seq(Tasks)
    BY <1>0, <1>7, <2>1 DEF Leave, TypeOK
  <2>3. QED
    BY <1>7, <2>2 DEF Leave, TypeOK
<1>8. ASSUME NEW w \in Workers, Release(w) PROVE TypeOK'
  BY <1>8 DEF Release, TypeOK
<1>9. CASE UNCHANGED vars
  BY <1>9 DEF vars, TypeOK
<1>10. QED
  BY <1>1, <1>2, <1>3, <1>4, <1>5, <1>6, <1>7, <1>8, <1>9 DEF Next

LEMMA TypeInit == Init => TypeOK
  BY QueueAssumption DEF Init, TypeOK, Tasks, NotPut

\* Every variable of the queue keeps its type in every reachable state.
THEOREM TypeCorrect == Spec => []TypeOK
  BY TypeInit, TypeStep, PTL DEF Spec

--------------------------------------------------------------------------------
(* Each task waits in one place.                                           *)

LEMMA AppendDistinct ==
  ASSUME NEW S, NEW s \in Seq(S), NEW t \in S, IsInjective(s), t \notin ToSet(s)
  PROVE  IsInjective(Append(s, t))
<1> DEFINE r == Append(s, t)
<1>1. /\ Len(s) \in Nat /\ DOMAIN s = 1..Len(s) /\ DOMAIN r = 1..(Len(s) + 1)
      /\ \A k \in 1..Len(s) : r[k] = s[k]
      /\ r[Len(s) + 1] = t
  OBVIOUS
<1>2. \A k \in 1..Len(s) : r[k] # t
  BY <1>1 DEF ToSet
<1> HIDE DEF r
<1>3. ASSUME NEW a \in 1..(Len(s) + 1), NEW b \in 1..(Len(s) + 1), r[a] = r[b]
      PROVE  a = b
  <2>1. CASE a \in 1..Len(s) /\ b \in 1..Len(s)
    BY <1>1, <1>3, <2>1 DEF IsInjective
  <2>2. CASE a = Len(s) + 1 \/ b = Len(s) + 1
    BY <1>1, <1>2, <1>3, <2>2
  <2>3. QED
    BY <1>1, <2>1, <2>2
<1>4. QED
  BY <1>1, <1>3 DEF IsInjective, r

LEMMA TailDistinct ==
  ASSUME NEW S, NEW s \in Seq(S), s # <<>>, IsInjective(s)
  PROVE  IsInjective(Tail(s)) /\ Head(s) \notin ToSet(Tail(s))
  BY DEF IsInjective, ToSet

LEMMA RemoveAtDistinct ==
  ASSUME NEW S, NEW s \in Seq(S), NEW i \in DOMAIN s, IsInjective(s)
  PROVE  IsInjective(RemoveAt(s, i)) /\ s[i] \notin ToSet(RemoveAt(s, i))
<1> DEFINE at(k) == IF k < i THEN k ELSE k + 1
<1>1. /\ i \in 1..Len(s) /\ Len(s) \in Nat
      /\ DOMAIN RemoveAt(s, i) = 1..(Len(s) - 1)
  BY RemoveAtSeq
<1>2. ASSUME NEW k \in 1..(Len(s) - 1)
      PROVE  at(k) \in DOMAIN s /\ at(k) # i /\ RemoveAt(s, i)[k] = s[at(k)]
  <2>1. RemoveAt(s, i)[k] = IF k < i THEN s[k] ELSE s[k + 1]
    BY RemoveAtSeq
  <2>2. at(k) \in 1..Len(s) /\ at(k) # i
    BY <1>1
  <2>3. RemoveAt(s, i)[k] = s[at(k)]
    BY <2>1
  <2>4. QED
    BY <1>1, <2>2, <2>3
<1>3. \A k, m \in 1..(Len(s) - 1) : at(k) = at(m) => k = m
  BY <1>1
<1> HIDE DEF at
<1>4. ASSUME NEW a \in 1..(Len(s) - 1), NEW b \in 1..(Len(s) - 1),
             RemoveAt(s, i)[a] = RemoveAt(s, i)[b]
      PROVE  a = b
  <2>1. s[at(a)] = s[at(b)] /\ at(a) \in DOMAIN s /\ at(b) \in DOMAIN s
    BY <1>2, <1>4
  <2>2. at(a) = at(b)
    BY <2>1 DEF IsInjective
  <2>3. QED
    BY <1>3, <2>2
<1>5. \A k \in 1..(Len(s) - 1) : RemoveAt(s, i)[k] # s[i]
  BY <1>1, <1>2 DEF IsInjective
<1>6. QED
  BY <1>1, <1>4, <1>5 DEF IsInjective, ToSet

LEMMA ConcatDistinct ==
  ASSUME NEW S, NEW s \in Seq(S), NEW t \in Seq(S),
         IsInjective(s), IsInjective(t), ToSet(s) \cap ToSet(t) = {}
  PROVE  IsInjective(s \o t)
<1> SUFFICES ASSUME NEW a \in DOMAIN (s \o t), NEW b \in DOMAIN (s \o t),
                    (s \o t)[a] = (s \o t)[b]
             PROVE  a = b
  BY DEF IsInjective
<1>1. /\ Len(s) \in Nat /\ Len(t) \in Nat
      /\ a \in 1..(Len(s) + Len(t)) /\ b \in 1..(Len(s) + Len(t))
  BY ConcatProperties
<1>2. ASSUME NEW k \in 1..(Len(s) + Len(t))
      PROVE  \/ k <= Len(s) /\ k \in DOMAIN s /\ (s \o t)[k] = s[k]
             \/ ~(k <= Len(s)) /\ k - Len(s) \in DOMAIN t /\ (s \o t)[k] = t[k - Len(s)]
  BY <1>1, ConcatProperties
<1>3. CASE a <= Len(s) /\ b <= Len(s)
  BY <1>1, <1>2, <1>3 DEF IsInjective
<1>4. CASE ~(a <= Len(s)) /\ ~(b <= Len(s))
  <2>1. a - Len(s) = b - Len(s)
    BY <1>1, <1>2, <1>4 DEF IsInjective
  <2>2. QED
    BY <1>1, <2>1
<1>5. \A m \in DOMAIN s, n \in DOMAIN t : s[m] # t[n]
  BY DEF ToSet
<1>6. QED
  BY <1>1, <1>2, <1>3, <1>4, <1>5

\* Notifying moves a task, so each task still has one place.
LEMMA NotifyTurn ==
  ASSUME TypeOK, NEW STATE running, running \in Seq(Tasks), Notify(running),
         OneTurn(waiters, running)
  PROVE  OneTurn(waiters', ready')
<1>1. CASE waiters' = waiters /\ ready' = running
  BY <1>1
<1>2. ASSUME NEW i \in Notifiable,
             waiters' = RemoveAt(waiters, i), ready' = Append(running, waiters[i])
      PROVE  OneTurn(waiters', ready')
  <2>1. waiters \in Seq(Tasks) /\ i \in DOMAIN waiters /\ waiters[i] \in Tasks
    BY DEF TypeOK, Notifiable
  <2>2. waiters[i] \in ToSet(waiters) /\ waiters[i] \notin ToSet(running)
    BY <2>1 DEF OneTurn, ToSet
  <2>3. /\ IsInjective(RemoveAt(waiters, i))
        /\ waiters[i] \notin ToSet(RemoveAt(waiters, i))
        /\ ToSet(RemoveAt(waiters, i)) \subseteq ToSet(waiters)
    BY <2>1, RemoveAtDistinct, RemoveAtSet DEF OneTurn
  <2>4. /\ IsInjective(Append(running, waiters[i]))
        /\ ToSet(Append(running, waiters[i])) = ToSet(running) \cup {waiters[i]}
    <3>1. IsInjective(running)
      BY DEF OneTurn
    <3>2. IsInjective(Append(running, waiters[i]))
      BY <2>1, <2>2, <3>1, AppendDistinct
    <3>3. QED
      BY <2>1, <3>2, AppendSet
  <2>5. QED
    BY <1>2, <2>3, <2>4 DEF OneTurn
<1>3. QED
  BY <1>1, <1>2 DEF Notify

LEMMA WaitTurn ==
  ASSUME TypeOK, NEW STATE running, running \in Seq(Tasks),
         NEW t \in Tasks, Wait(t, running),
         OneTurn(waiters, running), t \notin ToSet(waiters) \cup ToSet(running)
  PROVE  OneTurn(waiters', ready')
  BY AppendDistinct, AppendSet DEF TypeOK, Wait, OneTurn

\* The tasks that wait, before a put() or get() is resumed: the task resumed
\* is no longer among them.
LEMMA ResumeTurn ==
  ASSUME TypeOK, OneTurn(waiters, ready), ready # <<>>
  PROVE  /\ OneTurn(waiters, Tail(ready))
         /\ Head(ready) \in InWait
         /\ Tail(ready) \in Seq(Tasks)
         /\ ToSet(waiters) \cup ToSet(Tail(ready)) = InWait \ {Head(ready)}
<1>1. ready \in Seq(Tasks)
  BY DEF TypeOK
<1>2. IsInjective(Tail(ready)) /\ Head(ready) \notin ToSet(Tail(ready))
  BY <1>1, TailDistinct DEF OneTurn
<1>3. ToSet(ready) = ToSet(Tail(ready)) \cup {Head(ready)} /\ Tail(ready) \in Seq(Tasks)
  BY <1>1, TailSet
<1>4. QED
  BY <1>2, <1>3 DEF OneTurn, InWait

--------------------------------------------------------------------------------
(* The tombstones and the heap.                                            *)

\* While every tombstone has its item, qsize() counts the live jobs.
LEMMA QSizeIsLive ==
  ASSUME NEW H \in SUBSET Jobs, NEW T \in SUBSET H
  PROVE  /\ Cardinality(H) - Cardinality(T) = Cardinality(H \ T)
         /\ IsFiniteSet(H \ T)
         /\ Cardinality(H \ T) \in Nat
<1>1. IsFiniteSet(H) /\ H \cap T = T
  BY QueueAssumption, FS_Subset
<1>2. Cardinality(H \ T) = Cardinality(H) - Cardinality(T)
  BY <1>1, FS_Difference
<1>3. IsFiniteSet(H \ T) /\ Cardinality(H \ T) \in Nat
  BY <1>1, FS_Difference, FS_CardinalityType
<1>4. QED
  BY <1>2, <1>3

\* A put() that pushes adds exactly its job to the live ones; one that blocks
\* adds its submitter to those that wait.
LEMMA PutEffect ==
  ASSUME TypeOK, NEW STATE running, running \in Seq(Tasks),
         NEW j \in Jobs, j \notin heap, tombstones \subseteq heap,
         j \notin ToSet(waiters) \cup ToSet(running),
         OneTurn(waiters, running), Put(j, running)
  PROVE  /\ OneTurn(waiters', ready')
         /\ tombstones' \subseteq heap'
         /\ \/ /\ ~Full
               /\ Notify(running)
               /\ heap' = heap \cup {j}
               /\ Live' = Live \cup {j}
               /\ InWait' = ToSet(waiters) \cup ToSet(running)
            \/ /\ Full
               /\ Wait(j, running)
               /\ heap' = heap
               /\ Live' = Live
               /\ InWait' = ToSet(waiters) \cup ToSet(running) \cup {j}
<1>1. j \in Tasks
  BY DEF Tasks
<1>2. CASE ~Full /\ heap' = heap \cup {j} /\ Notify(running) /\ UNCHANGED tombstones
  <2>1. InWait' = ToSet(waiters) \cup ToSet(running)
    BY <1>2, NotifySet DEF InWait
  <2>2. Live' = Live \cup {j}
    BY <1>2 DEF Live
  <2>3. QED
    BY <1>2, <2>1, <2>2, NotifyTurn
<1>3. CASE Full /\ heap' = heap /\ Wait(j, running) /\ UNCHANGED tombstones
  <2>1. InWait' = ToSet(waiters) \cup ToSet(running) \cup {j}
    BY <1>1, <1>3, WaitSet DEF InWait
  <2>2. Live' = Live
    BY <1>3 DEF Live
  <2>3. QED
    BY <1>1, <1>3, <2>1, <2>2, WaitTurn
<1>4. QED
  BY <1>2, <1>3 DEF Put

\* A get() that pops removes exactly the best live job from the live ones,
\* however many tombstones it discards on the way.
LEMMA GetEffect ==
  ASSUME TypeOK, NEW STATE running, running \in Seq(Tasks),
         NEW w \in Workers, tombstones \subseteq heap,
         w \notin ToSet(waiters) \cup ToSet(running),
         OneTurn(waiters, running), Get(w, running)
  PROVE  /\ OneTurn(waiters', ready')
         /\ tombstones' \subseteq heap'
         /\ heap' \subseteq heap
         /\ \/ /\ \E j \in Live :
                    /\ \A k \in Live \ {j} : Before(j, k)
                    /\ Live' = Live \ {j}
                    /\ got' = [got EXCEPT ![w] = j]
               /\ Notify(running)
               /\ InWait' = ToSet(waiters) \cup ToSet(running)
            \/ /\ Live = {} /\ Live' = {}
               /\ got' = [got EXCEPT ![w] = NoJob]
               /\ Wait(w, running)
               /\ InWait' = ToSet(waiters) \cup ToSet(running) \cup {w}
<1>1. w \in Tasks
  BY DEF Tasks
<1>2. ASSUME NEW j \in Live,
             \A k \in Live \ {j} : Before(j, k),
             heap' = heap \ (Ahead(j) \cup {j}),
             tombstones' = tombstones \ Ahead(j),
             got' = [got EXCEPT ![w] = j],
             Notify(running)
      PROVE  /\ OneTurn(waiters', ready')
             /\ tombstones' \subseteq heap'
             /\ heap' \subseteq heap
             /\ Live' = Live \ {j}
             /\ InWait' = ToSet(waiters) \cup ToSet(running)
  <2>1. /\ \A k \in Jobs : Priority[k] \in Int /\ arrival[k] \in Int
        /\ Live \subseteq Jobs
    BY QueueAssumption DEF TypeOK, NotPut, Live
  <2>2. ASSUME NEW k \in Live PROVE k \notin Ahead(j)
    <3>1. k = j \/ Before(j, k)
      BY <1>2
    <3>2. ~Before(k, j)
      BY <2>1, <3>1 DEF Before
    <3>3. QED
      BY <3>2 DEF Ahead
  <2>3. Live' = Live \ {j}
    BY <1>2, <2>2 DEF Live
  <2>4. tombstones' \subseteq heap' /\ heap' \subseteq heap
    BY <1>2 DEF Live
  <2>5. InWait' = ToSet(waiters) \cup ToSet(running)
    BY <1>2, NotifySet DEF InWait
  <2>6. QED
    BY <1>2, <2>3, <2>4, <2>5, NotifyTurn
<1>3. CASE Starve(w, running)
  <2>1. Wait(w, running) /\ Live = {} /\ heap' = {} /\ tombstones' = {}
    BY <1>3 DEF Starve
  <2>2. Live' = {} /\ got' = [got EXCEPT ![w] = NoJob]
    BY <1>3, <2>1 DEF Live, Starve
  <2>3. InWait' = ToSet(waiters) \cup ToSet(running) \cup {w}
    BY <1>1, <2>1, WaitSet DEF InWait
  <2>4. QED
    BY <1>1, <2>1, <2>2, <2>3, WaitTurn
<1>4. QED
  BY <1>2, <1>3 DEF Get, Pop

--------------------------------------------------------------------------------
(* The queue's invariant.                                                  *)

\* QueueInv without its count, which follows from the rest.
Shape ==
  /\ tombstones \subseteq heap
  /\ OneTurn(waiters, ready)
  /\ heap \cap Blocked = {}
  /\ \A j \in heap \cup Blocked : arrival[j] # NotPut

LEMMA ShapeInit == Init => Shape
<1> SUFFICES ASSUME Init PROVE Shape
  OBVIOUS
<1>1. ToSet(<<>>) = {} /\ IsInjective(<<>>)
  BY DEF ToSet, IsInjective
<1>2. QED
  BY <1>1 DEF Init, Shape, OneTurn, Blocked, InWait

LEMMA ShapeStep == TypeOK /\ Shape /\ [Next]_vars => Shape'
<1> SUFFICES ASSUME TypeOK, Shape, [Next]_vars PROVE Shape'
  OBVIOUS
<1> USE DEF Shape, Blocked
<1>0. /\ Jobs \cap Workers = {}
      /\ ready \in Seq(Tasks)
      /\ InWait = ToSet(waiters) \cup ToSet(ready)
  BY QueueAssumption DEF TypeOK, InWait
<1>1. ASSUME NEW j \in Jobs, PutCall(j) PROVE Shape'
  <2>1. /\ j \notin heap /\ j \notin InWait
        /\ Put(j, ready)
        /\ seq # NotPut
        /\ arrival' = [arrival EXCEPT ![j] = seq]
    BY <1>1 DEF PutCall, TypeOK, NotPut
  <2>2. /\ OneTurn(waiters', ready')
        /\ tombstones' \subseteq heap'
        /\ \/ heap' = heap \cup {j} /\ InWait' = InWait
           \/ heap' = heap /\ InWait' = InWait \cup {j}
    BY <1>0, <2>1, PutEffect
  <2>3. \A k \in Jobs : arrival'[k] = IF k = j THEN seq ELSE arrival[k]
    BY <2>1 DEF TypeOK
  <2>4. heap' \cup Blocked' = heap \cup Blocked \cup {j}
    BY <2>2
  <2>5. heap' \cap Blocked' = {}
    BY <2>1, <2>2
  <2>6. \A k \in heap' \cup Blocked' : arrival'[k] # NotPut
    BY <2>1, <2>3, <2>4 DEF TypeOK
  <2>7. QED
    BY <2>2, <2>5, <2>6
<1>2. ASSUME PutWake PROVE Shape'
  <2> DEFINE j == Head(ready)
  <2>1. j \in Jobs /\ ready # <<>> /\ Put(j, Tail(ready)) /\ arrival' = arrival
    BY <1>2 DEF PutWake
  <2>2. /\ OneTurn(waiters, Tail(ready)) /\ j \in InWait
        /\ Tail(ready) \in Seq(Tasks)
        /\ ToSet(waiters) \cup ToSet(Tail(ready)) = InWait \ {j}
    BY <2>1, ResumeTurn
  <2>3. j \notin heap
    BY <2>1, <2>2
  <2> HIDE DEF j
  <2>4. /\ OneTurn(waiters', ready')
        /\ tombstones' \subseteq heap'
        /\ \/ heap' = heap \cup {j} /\ InWait' = InWait \ {j}
           \/ heap' = heap /\ InWait' = (InWait \ {j}) \cup {j}
    BY <2>1, <2>2, <2>3, PutEffect
  <2>5. QED
    BY <2>1, <2>2, <2>4
<1>3. ASSUME NEW w \in Workers, GetCall(w) PROVE Shape'
  <2>1. w \notin InWait /\ Get(w, ready) /\ arrival' = arrival
    BY <1>3 DEF GetCall
  <2>2. /\ OneTurn(waiters', ready')
        /\ tombstones' \subseteq heap'
        /\ heap' \subseteq heap
        /\ InWait' = InWait \/ InWait' = InWait \cup {w}
    BY <1>0, <2>1, GetEffect
  <2>3. Blocked' = Blocked
    BY <1>0, <2>2
  <2>4. QED
    BY <2>1, <2>2, <2>3
<1>4. ASSUME GetWake PROVE Shape'
  <2> DEFINE w == Head(ready)
  <2>1. w \in Workers /\ ready # <<>> /\ Get(w, Tail(ready)) /\ arrival' = arrival
    BY <1>4 DEF GetWake
  <2>2. /\ OneTurn(waiters, Tail(ready)) /\ w \in InWait
        /\ Tail(ready) \in Seq(Tasks)
        /\ ToSet(waiters) \cup ToSet(Tail(ready)) = InWait \ {w}
    BY <2>1, ResumeTurn
  <2> HIDE DEF w
  <2>3. /\ OneTurn(waiters', ready')
        /\ tombstones' \subseteq heap'
        /\ heap' \subseteq heap
        /\ InWait' = InWait \ {w} \/ InWait' = (InWait \ {w}) \cup {w}
    BY <2>1, <2>2, GetEffect
  <2>4. Blocked' = Blocked
    BY <1>0, <2>1, <2>3
  <2>5. QED
    BY <2>1, <2>3, <2>4
<1>5. ASSUME NEW j \in Jobs, Cancel(j) PROVE Shape'
  <2>1. ToSet(<<>>) = {} /\ IsInjective(<<>>)
    BY DEF ToSet, IsInjective
  <2>2. /\ ToSet(ready \o waiters) = ToSet(ready) \cup ToSet(waiters)
        /\ IsInjective(ready \o waiters)
    BY ConcatSet, ConcatDistinct DEF TypeOK, OneTurn
  <2>3. InWait' = InWait /\ OneTurn(waiters', ready')
    BY <1>5, <2>1, <2>2 DEF Cancel, OneTurn, InWait
  <2>4. QED
    BY <1>5, <2>3 DEF Cancel
<1>6. ASSUME Abort PROVE Shape'
  BY <1>6 DEF Abort, InWait, OneTurn
<1>7. ASSUME NEW w \in Workers, Leave(w) PROVE Shape'
  <2>1. CASE ready # <<>> /\ Head(ready) = w /\ ready' = Tail(ready) /\ waiters' = waiters
    <3>1. InWait' = InWait \ {w} /\ OneTurn(waiters', ready')
      BY <2>1, ResumeTurn DEF InWait
    <3>2. QED
      BY <1>7, <3>1 DEF Leave
  <2>2. ASSUME NEW i \in DOMAIN waiters, waiters' = RemoveAt(waiters, i), ready' = ready
        PROVE  Shape'
    <3>1. InWait' \subseteq InWait /\ OneTurn(waiters', ready')
      BY <2>2, RemoveAtSet, RemoveAtDistinct DEF TypeOK, OneTurn, InWait
    <3>2. QED
      BY <1>7, <3>1 DEF Leave
  <2>3. QED
    BY <1>7, <2>1, <2>2 DEF Leave
<1>8. ASSUME NEW w \in Workers, Release(w) PROVE Shape'
  BY <1>8 DEF Release, InWait, OneTurn
<1>9. CASE UNCHANGED vars
  BY <1>9 DEF vars, InWait, OneTurn
<1>10. QED
  BY <1>1, <1>2, <1>3, <1>4, <1>5, <1>6, <1>7, <1>8, <1>9 DEF Next

\* qsize() and the lazy removal are exact in every reachable state.
THEOREM QueueInvariant == Spec => []QueueInv
<1>1. TypeOK /\ Shape => QueueInv
  BY QSizeIsLive DEF TypeOK, Shape, QueueInv, QSize, Live
<1>2. QED
  BY <1>1, TypeInit, TypeStep, ShapeInit, ShapeStep, PTL DEF Spec

--------------------------------------------------------------------------------
(* The bound of the queue.                                                 *)

\* Counting the live jobs, then and next.
LEMMA LiveCount ==
  ASSUME TypeOK, Shape
  PROVE  /\ QSize = Cardinality(Live)
         /\ IsFiniteSet(Live)
         /\ QSize \in Nat
  BY QSizeIsLive DEF TypeOK, Shape, QSize, Live

LEMMA LiveCountNext ==
  ASSUME TypeOK', Shape'
  PROVE  QSize' = Cardinality(Live')
  BY QSizeIsLive DEF TypeOK, Shape, QSize, Live

\* Which steps can make the queue longer: a put() that found room.
LEMMA LiveGrows ==
  ASSUME TypeOK, Shape, [Next]_vars
  PROVE  \/ Live' \subseteq Live
         \/ ~Full /\ \E j \in Jobs : Live' = Live \cup {j}
<1>0. /\ ready \in Seq(Tasks)
      /\ InWait = ToSet(waiters) \cup ToSet(ready)
      /\ tombstones \subseteq heap
      /\ OneTurn(waiters, ready)
      /\ heap \cap (InWait \cap Jobs) = {}
      /\ \A j \in heap \cup (InWait \cap Jobs) : arrival[j] # NotPut
  BY DEF TypeOK, InWait, Shape, Blocked
<1>1. ASSUME NEW j \in Jobs, PutCall(j)
      PROVE  Live' = Live \/ (~Full /\ Live' = Live \cup {j})
  <2>1. j \notin heap /\ j \notin InWait /\ Put(j, ready)
    BY <1>0, <1>1 DEF PutCall
  <2>2. QED
    BY <1>0, <2>1, PutEffect
<1>2. ASSUME PutWake
      PROVE  \E j \in Jobs : Live' = Live \/ (~Full /\ Live' = Live \cup {j})
  <2> DEFINE j == Head(ready)
  <2>1. j \in Jobs /\ ready # <<>> /\ Put(j, Tail(ready))
    BY <1>2 DEF PutWake
  <2>2. /\ OneTurn(waiters, Tail(ready)) /\ j \in InWait
        /\ Tail(ready) \in Seq(Tasks)
        /\ ToSet(waiters) \cup ToSet(Tail(ready)) = InWait \ {j}
    BY <1>0, <2>1, ResumeTurn
  <2>3. j \notin heap
    BY <1>0, <2>1, <2>2
  <2> HIDE DEF j
  <2>4. QED
    BY <1>0, <2>1, <2>2, <2>3, PutEffect
<1>3. ASSUME NEW w \in Workers, GetCall(w) PROVE Live' \subseteq Live
  <2>1. w \notin InWait /\ Get(w, ready)
    BY <1>3 DEF GetCall
  <2>2. QED
    BY <1>0, <2>1, GetEffect
<1>4. ASSUME GetWake PROVE Live' \subseteq Live
  <2> DEFINE w == Head(ready)
  <2>1. w \in Workers /\ ready # <<>> /\ Get(w, Tail(ready))
    BY <1>4 DEF GetWake
  <2>2. /\ OneTurn(waiters, Tail(ready)) /\ w \in InWait
        /\ Tail(ready) \in Seq(Tasks)
        /\ ToSet(waiters) \cup ToSet(Tail(ready)) = InWait \ {w}
    BY <1>0, <2>1, ResumeTurn
  <2> HIDE DEF w
  <2>3. QED
    BY <1>0, <2>1, <2>2, GetEffect
<1>5. ASSUME NEW j \in Jobs, Cancel(j) PROVE Live' \subseteq Live
  BY <1>5 DEF Cancel, Live
<1>6. ASSUME Abort \/ UNCHANGED vars \/ \E w \in Workers : Leave(w) \/ Release(w)
      PROVE  Live' \subseteq Live
  BY <1>6 DEF Abort, Leave, Release, vars, Live
<1>7. QED
  BY <1>1, <1>2, <1>3, <1>4, <1>5, <1>6 DEF Next

\* The queue never holds more jobs than maxsize, however puts, wake-ups and
\* cancels interleave.
THEOREM CapacityTheorem == Spec => []CapacityRespected
<1>1. Init => CapacityRespected
  BY QueueAssumption, FS_EmptySet DEF Init, CapacityRespected, QSize
<1>2. TypeOK /\ TypeOK' /\ Shape /\ Shape' /\ CapacityRespected /\ [Next]_vars
        => CapacityRespected'
  <2> SUFFICES ASSUME TypeOK, TypeOK', Shape, Shape', CapacityRespected,
                      [Next]_vars, MaxSize > 0
               PROVE  QSize' <= MaxSize
    BY DEF CapacityRespected
  <2>1. /\ QSize = Cardinality(Live) /\ IsFiniteSet(Live) /\ QSize \in Nat
        /\ QSize' = Cardinality(Live')
        /\ QSize <= MaxSize /\ MaxSize \in Nat
    BY LiveCount, LiveCountNext, QueueAssumption DEF CapacityRespected
  <2>2. CASE Live' \subseteq Live
    <3>1. Cardinality(Live') <= Cardinality(Live) /\ Cardinality(Live') \in Nat
      BY <2>1, <2>2, FS_Subset, FS_CardinalityType
    <3>2. QED
      BY <2>1, <3>1
  <2>3. ASSUME ~Full, NEW j \in Jobs, Live' = Live \cup {j}
        PROVE  QSize' <= MaxSize
    <3>1. QSize < MaxSize
      BY <2>1, <2>3 DEF Full
    <3>2. Cardinality(Live \cup {j}) <= Cardinality(Live) + 1
      BY <2>1, FS_AddElement
    <3>3. Cardinality(Live \cup {j}) \in Nat
      BY <2>1, FS_AddElement, FS_CardinalityType
    <3>4. QED
      BY <2>1, <2>3, <3>1, <3>2, <3>3
  <2>4. QED
    BY <2>2, <2>3, LiveGrows
<1>3. QED
  BY <1>1, <1>2, TypeInit, TypeStep, ShapeInit, ShapeStep, PTL DEF Spec

--------------------------------------------------------------------------------
(* No idle worker while there is work.                                     *)

\* When only workers sleep, a notification reaches a worker.
LEMMA NotifyReachesWorker ==
  ASSUME TypeOK, NEW STATE running, running \in Seq(Tasks), Notify(running),
         ToSet(waiters) \cap Jobs = {},
         ToSet(waiters') \cap (Workers \ aborted) # {}
  PROVE  ToSet(ready') \cap (Workers \ aborted) # {}
<1>1. waiters \in Seq(Tasks)
  BY DEF TypeOK
<1>2. ToSet(waiters) \cap (Workers \ aborted) # {}
  BY NotifySet
<1>3. Notifiable # {}
  BY <1>2 DEF Notifiable, ToSet
<1>4. PICK i \in Notifiable : ready' = Append(running, waiters[i])
  BY <1>3 DEF Notify
<1>5. waiters[i] \in Tasks /\ waiters[i] \in ToSet(waiters) /\ waiters[i] \notin aborted
  BY <1>1 DEF Notifiable, ToSet
<1>6. waiters[i] \in Workers \ aborted
  BY <1>5 DEF Tasks
<1>7. waiters[i] \in ToSet(ready')
  BY <1>4, <1>5, AppendSet
<1>8. QED
  BY <1>6, <1>7

LEMMA WorkConservingStep ==
  ASSUME TypeOK, Shape, WorkConserving, [Next]_vars
  PROVE  WorkConserving'
<1>0. /\ ready \in Seq(Tasks)
      /\ waiters \in Seq(Tasks)
      /\ InWait = ToSet(waiters) \cup ToSet(ready)
      /\ tombstones \subseteq heap
      /\ OneTurn(waiters, ready)
      /\ heap \cap (InWait \cap Jobs) = {}
      /\ \A j \in heap \cup (InWait \cap Jobs) : arrival[j] # NotPut
      /\ Jobs \cap Workers = {}
  BY QueueAssumption DEF TypeOK, InWait, Shape, Blocked
<1>1. ASSUME NEW j \in Jobs, PutCall(j) PROVE WorkConserving'
  <2>1. j \notin heap /\ j \notin InWait /\ Put(j, ready) /\ aborted' = aborted
    BY <1>0, <1>1 DEF PutCall
  <2>2. CASE Notify(ready) /\ InWait' = InWait
    <3> SUFFICES ASSUME InWait' \cap Jobs = {},
                        ToSet(waiters') \cap (Workers \ aborted') # {}
                 PROVE  ToSet(ready') \cap (Workers \ aborted') # {}
      BY DEF WorkConserving
    <3>1. ToSet(waiters) \cap Jobs = {}
      BY <1>0, <2>2
    <3>2. QED
      BY <1>0, <2>1, <2>2, <3>1, NotifyReachesWorker
  <2>3. CASE InWait' = InWait \cup {j}
    BY <2>3 DEF WorkConserving
  <2>4. QED
    BY <1>0, <2>1, <2>2, <2>3, PutEffect
<1>2. ASSUME PutWake PROVE WorkConserving'
  <2> DEFINE j == Head(ready)
  <2>1. j \in Jobs /\ ready # <<>> /\ Put(j, Tail(ready)) /\ aborted' = aborted
    BY <1>2 DEF PutWake
  <2>2. /\ OneTurn(waiters, Tail(ready)) /\ j \in InWait
        /\ Tail(ready) \in Seq(Tasks)
        /\ ToSet(waiters) \cup ToSet(Tail(ready)) = InWait \ {j}
    BY <1>0, <2>1, ResumeTurn
  <2> HIDE DEF j
  <2>3. CASE Notify(Tail(ready)) /\ InWait' = InWait \ {j}
    <3> SUFFICES ASSUME InWait' \cap Jobs = {},
                        ToSet(waiters') \cap (Workers \ aborted') # {}
                 PROVE  ToSet(ready') \cap (Workers \ aborted') # {}
      BY DEF WorkConserving
    <3>1. ToSet(waiters) \cap Jobs = {}
      BY <2>2, <2>3
    <3>2. QED
      BY <2>1, <2>2, <2>3, <3>1, NotifyReachesWorker
  <2>4. CASE InWait' = (InWait \ {j}) \cup {j}
    BY <2>1, <2>4 DEF WorkConserving
  <2>5. QED
    BY <1>0, <2>1, <2>2, <2>3, <2>4, PutEffect
<1>3. ASSUME NEW w \in Workers, GetCall(w) PROVE WorkConserving'
  <2>1. w \notin InWait /\ Get(w, ready) /\ aborted' = aborted
    BY <1>3 DEF GetCall
  <2>2. CASE Notify(ready) /\ InWait' = InWait
    <3> SUFFICES ASSUME InWait' \cap Jobs = {},
                        ToSet(waiters') \cap (Workers \ aborted') # {}
                 PROVE  ToSet(ready') \cap (Workers \ aborted') # {}
      BY DEF WorkConserving
    <3>1. ToSet(waiters) \cap Jobs = {}
      BY <1>0, <2>2
    <3>2. QED
      BY <1>0, <2>1, <2>2, <3>1, NotifyReachesWorker
  <2>3. CASE Live' = {}
    BY <2>3 DEF WorkConserving
  <2>4. QED
    BY <1>0, <2>1, <2>2, <2>3, GetEffect
<1>4. ASSUME GetWake PROVE WorkConserving'
  <2> DEFINE w == Head(ready)
  <2>1. w \in Workers /\ ready # <<>> /\ Get(w, Tail(ready)) /\ aborted' = aborted
    BY <1>4 DEF GetWake
  <2>2. /\ OneTurn(waiters, Tail(ready)) /\ w \in InWait
        /\ Tail(ready) \in Seq(Tasks)
        /\ ToSet(waiters) \cup ToSet(Tail(ready)) = InWait \ {w}
    BY <1>0, <2>1, ResumeTurn
  <2> HIDE DEF w
  <2>3. CASE Notify(Tail(ready)) /\ InWait' = InWait \ {w}
    <3> SUFFICES ASSUME InWait' \cap Jobs = {},
                        ToSet(waiters') \cap (Workers \ aborted') # {}
                 PROVE  ToSet(ready') \cap (Workers \ aborted') # {}
      BY DEF WorkConserving
    <3>1. ToSet(waiters) \cap Jobs = {}
      BY <2>2, <2>3
    <3>2. QED
      BY <2>1, <2>2, <2>3, <3>1, NotifyReachesWorker
  <2>4. CASE Live' = {}
    BY <2>4 DEF WorkConserving
  <2>5. QED
    BY <1>0, <2>1, <2>2, <2>3, <2>4, GetEffect
<1>5. ASSUME NEW j \in Jobs, Cancel(j) PROVE WorkConserving'
  <2>1. ToSet(waiters') = {}
    BY <1>5 DEF Cancel, ToSet
  <2>2. QED
    BY <2>1 DEF WorkConserving
<1>6. ASSUME Abort PROVE WorkConserving'
  <2>1. ToSet(waiters') \cap (Workers \ aborted') = {}
    BY <1>0, <1>6 DEF Abort
  <2>2. QED
    BY <2>1 DEF WorkConserving
<1>7. ASSUME NEW w \in Workers, Leave(w) PROVE WorkConserving'
  <2>1. w \in aborted /\ aborted' = aborted \ {w} /\ Live' = Live
    BY <1>7 DEF Leave, Live
  <2>2. /\ ToSet(waiters') = ToSet(waiters) \ {w}
        /\ ToSet(ready') = ToSet(ready) \ {w}
    <3>1. CASE ready # <<>> /\ Head(ready) = w /\ ready' = Tail(ready) /\ waiters' = waiters
      <4>1. /\ ToSet(ready) = ToSet(Tail(ready)) \cup {w}
            /\ w \notin ToSet(Tail(ready))
        BY <1>0, <3>1, TailSet, TailDistinct DEF OneTurn
      <4>2. w \notin ToSet(waiters)
        BY <1>0, <4>1 DEF OneTurn
      <4>3. QED
        BY <3>1, <4>1, <4>2
    <3>2. ASSUME NEW i \in DOMAIN waiters, waiters[i] = w,
                 waiters' = RemoveAt(waiters, i), ready' = ready
          PROVE  /\ ToSet(waiters') = ToSet(waiters) \ {w}
                 /\ ToSet(ready') = ToSet(ready) \ {w}
      <4>1. /\ ToSet(waiters) = ToSet(RemoveAt(waiters, i)) \cup {w}
            /\ w \notin ToSet(RemoveAt(waiters, i))
        BY <1>0, <3>2, RemoveAtSet, RemoveAtDistinct DEF OneTurn
      <4>2. w \notin ToSet(ready)
        BY <1>0, <4>1 DEF OneTurn
      <4>3. QED
        BY <3>2, <4>1, <4>2
    <3>3. QED
      BY <1>7, <3>1, <3>2 DEF Leave
  <2>3. InWait' \cap Jobs = InWait \cap Jobs
    BY <1>0, <2>2 DEF InWait
  <2>4. QED
    BY <2>1, <2>2, <2>3 DEF WorkConserving
<1>8. ASSUME NEW w \in Workers, Release(w) PROVE WorkConserving'
  BY <1>8 DEF Release, WorkConserving, InWait, Live
<1>9. CASE UNCHANGED vars
  BY <1>9 DEF vars, WorkConserving, InWait, Live
<1>10. QED
  BY <1>1, <1>2, <1>3, <1>4, <1>5, <1>6, <1>7, <1>8, <1>9 DEF Next

\* While no submitter is suspended in put(), no job waits for a worker that
\* nobody is going to wake.
THEOREM WorkConservingTheorem == Spec => []WorkConserving
<1>1. Init => WorkConserving
  BY DEF Init, WorkConserving, Live
<1>2. TypeOK /\ Shape /\ WorkConserving /\ [Next]_vars => WorkConserving'
  BY WorkConservingStep
<1>3. QED
  BY <1>1, <1>2, TypeInit, TypeStep, ShapeInit, ShapeStep, PTL DEF Spec

--------------------------------------------------------------------------------
(* The queue implements its abstract specification.                        *)

LEMMA AbstractStep ==
  ASSUME TypeOK, Shape, [Next]_vars
  PROVE  [Abstract!Next]_(Abstract!vars)
<1> USE DEF Abstract!vars, Blocked
<1>0. /\ ready \in Seq(Tasks)
      /\ InWait = ToSet(waiters) \cup ToSet(ready)
      /\ tombstones \subseteq heap
      /\ OneTurn(waiters, ready)
      /\ heap \cap (InWait \cap Jobs) = {}
      /\ \A j \in heap \cup (InWait \cap Jobs) : arrival[j] # NotPut
      /\ Jobs \cap Workers = {}
      /\ Live \subseteq Jobs
      /\ Live \subseteq heap
  BY QueueAssumption DEF TypeOK, InWait, Shape, Live
<1>room. Abstract!Room <=> ~Full
  <2>1. Abstract!Cardinality(Live) = Cardinality(Live)
    BY DEF Abstract!Cardinality, Cardinality
  <2>2. QED
    BY <2>1, LiveCount, QueueAssumption DEF Abstract!Room, Full
<1>1. ASSUME NEW j \in Jobs, PutCall(j) PROVE Abstract!Arrive(j)
  <2>1. /\ j \notin heap /\ j \notin InWait /\ Put(j, ready)
        /\ arrival[j] = NotPut /\ arrival' = [arrival EXCEPT ![j] = seq]
        /\ seq' = seq + 1 /\ got' = got
    BY <1>0, <1>1 DEF PutCall
  <2>2. \/ ~Full /\ Live' = Live \cup {j} /\ InWait' = InWait
        \/ Full /\ Live' = Live /\ InWait' = InWait \cup {j}
    BY <1>0, <2>1, PutEffect
  <2>3. \/ Abstract!Room /\ Live' = Live \cup {j} /\ Blocked' = Blocked
        \/ ~Abstract!Room /\ Live' = Live /\ Blocked' = Blocked \cup {j}
    BY <1>room, <2>2
  <2>4. QED
    BY <2>1, <2>3 DEF Abstract!Arrive, Abstract!NotPut, NotPut
<1>2. ASSUME PutWake
      PROVE  UNCHANGED Abstract!vars \/ \E j \in Jobs : Abstract!Enter(j)
  <2> DEFINE j == Head(ready)
  <2>1. /\ j \in Jobs /\ ready # <<>> /\ Put(j, Tail(ready))
        /\ UNCHANGED <<seq, arrival, got>>
    BY <1>2 DEF PutWake
  <2>2. /\ OneTurn(waiters, Tail(ready)) /\ j \in InWait
        /\ Tail(ready) \in Seq(Tasks)
        /\ ToSet(waiters) \cup ToSet(Tail(ready)) = InWait \ {j}
    BY <1>0, <2>1, ResumeTurn
  <2>3. j \notin heap
    BY <1>0, <2>1, <2>2
  <2> HIDE DEF j
  <2>4. \/ ~Full /\ Live' = Live \cup {j} /\ InWait' = InWait \ {j}
        \/ Full /\ Live' = Live /\ InWait' = (InWait \ {j}) \cup {j}
    BY <1>0, <2>1, <2>2, <2>3, PutEffect
  <2>5. QED
    BY <1>room, <2>1, <2>2, <2>4 DEF Abstract!Enter
<1>3. ASSUME NEW w \in Workers, NEW STATE running, running \in Seq(Tasks),
             w \notin ToSet(waiters) \cup ToSet(running),
             OneTurn(waiters, running), Get(w, running),
             (ToSet(waiters) \cup ToSet(running)) \cap Jobs = InWait \cap Jobs,
             UNCHANGED <<seq, arrival>>
      PROVE  Abstract!Release(w) \/ \E j \in Jobs : Abstract!Take(w, j)
  <2>1. CASE \E j \in Live :
               /\ \A k \in Live \ {j} : Before(j, k)
               /\ Live' = Live \ {j}
               /\ got' = [got EXCEPT ![w] = j]
               /\ InWait' = ToSet(waiters) \cup ToSet(running)
    BY <1>0, <1>3, <2>1 DEF Abstract!Take, Abstract!Before, Before
  <2>2. CASE /\ Live = {} /\ Live' = {}
             /\ got' = [got EXCEPT ![w] = NoJob]
             /\ InWait' = ToSet(waiters) \cup ToSet(running) \cup {w}
    <3>1. Blocked' = Blocked
      BY <1>0, <1>3, <2>2
    <3>2. QED
      BY <1>3, <2>2, <3>1 DEF Abstract!Release
  <2>3. QED
    BY <1>0, <1>3, <2>1, <2>2, GetEffect
<1>4. ASSUME NEW w \in Workers, GetCall(w)
      PROVE  Abstract!Release(w) \/ \E j \in Jobs : Abstract!Take(w, j)
  <2>1. w \notin InWait /\ Get(w, ready) /\ UNCHANGED <<seq, arrival>>
    BY <1>4 DEF GetCall
  <2>2. QED
    BY <1>0, <1>3, <2>1
<1>5. ASSUME GetWake
      PROVE  \E w \in Workers :
               Abstract!Release(w) \/ \E j \in Jobs : Abstract!Take(w, j)
  <2> DEFINE w == Head(ready)
  <2>1. /\ w \in Workers /\ ready # <<>> /\ Get(w, Tail(ready))
        /\ UNCHANGED <<seq, arrival>>
    BY <1>5 DEF GetWake
  <2>2. /\ OneTurn(waiters, Tail(ready)) /\ w \in InWait
        /\ Tail(ready) \in Seq(Tasks)
        /\ ToSet(waiters) \cup ToSet(Tail(ready)) = InWait \ {w}
    BY <1>0, <2>1, ResumeTurn
  <2> HIDE DEF w
  <2>3. (ToSet(waiters) \cup ToSet(Tail(ready))) \cap Jobs = InWait \cap Jobs
    BY <1>0, <2>1, <2>2
  <2>4. QED
    BY <1>3, <2>1, <2>2, <2>3
<1>6. ASSUME NEW j \in Jobs, Cancel(j)
      PROVE  UNCHANGED Abstract!vars \/ Abstract!Drop(j)
  <2>1. InWait' = InWait
    <3>1. ToSet(<<>>) = {}
      BY DEF ToSet
    <3>2. ToSet(ready \o waiters) = ToSet(ready) \cup ToSet(waiters)
      BY ConcatSet DEF TypeOK
    <3>3. QED
      BY <1>6, <3>1, <3>2 DEF Cancel, InWait
  <2>2. Live' = Live \ {j} /\ UNCHANGED <<seq, arrival, got>>
    BY <1>6 DEF Cancel, Live
  <2>3. QED
    BY <2>1, <2>2 DEF Abstract!Drop
<1>7. ASSUME Abort \/ UNCHANGED vars PROVE UNCHANGED Abstract!vars
  BY <1>7 DEF Abort, vars, InWait, Live
<1>8. ASSUME NEW w \in Workers, Leave(w) PROVE UNCHANGED Abstract!vars
  <2>1. InWait' \cup {w} = InWait \cup {w}
    <3>1. CASE ready # <<>> /\ Head(ready) = w /\ ready' = Tail(ready) /\ waiters' = waiters
      BY <1>0, <3>1, TailSet DEF InWait
    <3>2. ASSUME NEW i \in DOMAIN waiters, waiters[i] = w,
                 waiters' = RemoveAt(waiters, i), ready' = ready
          PROVE  InWait' \cup {w} = InWait \cup {w}
      <4>1. ToSet(waiters) = ToSet(RemoveAt(waiters, i)) \cup {w}
        BY <3>2, RemoveAtSet DEF TypeOK
      <4>2. QED
        BY <3>2, <4>1 DEF InWait
    <3>3. QED
      BY <1>8, <3>1, <3>2 DEF Leave
  <2>2. Blocked' = Blocked
    BY <1>0, <2>1
  <2>3. QED
    BY <1>8, <2>2 DEF Leave, Live
<1>9. ASSUME NEW w \in Workers, Release(w) PROVE Abstract!Release(w)
  BY <1>9 DEF Release, Abstract!Release, InWait, Live
<1>10. QED
  BY <1>1, <1>2, <1>4, <1>5, <1>6, <1>7, <1>8, <1>9 DEF Next, Abstract!Next

\* Every behaviour of the heap, the tombstones and the shared condition is a
\* behaviour of the abstract bounded priority queue.
THEOREM ImplementsAbstractQueue == Spec => ImplementsQueue
<1>1. Init => Abstract!Init
  <2>1. ToSet(<<>>) = {}
    BY DEF ToSet
  <2>2. QED
    BY <2>1 DEF Init, Abstract!Init, Abstract!NotPut, NotPut, Blocked, InWait, Live
<1>2. TypeOK /\ Shape /\ [Next]_vars => [Abstract!Next]_(Abstract!vars)
  BY AbstractStep
<1>3. QED
  BY <1>1, <1>2, TypeInit, TypeStep, ShapeInit, ShapeStep, PTL
  DEF Spec, ImplementsQueue, Abstract!Spec
================================================================================
