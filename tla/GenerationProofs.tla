---------------------------- MODULE GenerationProofs ---------------------------
(***************************************************************************)
(* Proofs about LazyModel and Generation, for any set of threads, any      *)
(* number of turns and of calls in an answer.                              *)
(***************************************************************************)
EXTENDS Generation, FiniteSetTheorems, SequenceTheorems, TLAPS

--------------------------------------------------------------------------------
(* The load by itself.                                                     *)

Where(place) == {c \in Callers : at[c] = place}

\* Who has got a model, or is sure to find one.
Served ==
  \A c \in Callers :
    /\ at[c] \in {"assign", "have"} => mine[c] # Unset
    /\ at[c] = "read" => llm # Unset

\* Until the first assignment every model has a thread that is about to assign
\* it; afterwards nobody starts to build, and each thread that still does was
\* there before.
LoadCount ==
  IF llm = Unset THEN loads = Cardinality(Where("assign"))
  ELSE loads + Cardinality(Where("build")) <= Cardinality(Callers)

LoadInv == LoadTypeOK /\ Served /\ LoadCount

\* LoadTypeOK and Served are inductive.
LEMMA LoadTypesStep == LoadTypeOK /\ Served /\ [LoadNext]_loadVars => LoadTypeOK' /\ Served'
<1> SUFFICES ASSUME LoadTypeOK, Served, [LoadNext]_loadVars PROVE LoadTypeOK' /\ Served'
  OBVIOUS
<1> USE DEF LoadTypeOK, Served, At, Unset
<1>1. CASE UNCHANGED loadVars
  BY <1>1 DEF loadVars
<1>2. ASSUME NEW c \in Callers, Enter(c), UNCHANGED <<llm, loads, mine>>
      PROVE  LoadTypeOK' /\ Served'
  BY <1>2 DEF Enter
<1>3. ASSUME NEW c \in Callers, Check(c) PROVE LoadTypeOK' /\ Served'
  BY <1>3 DEF Check
<1>4. ASSUME NEW c \in Callers, Build(c) PROVE LoadTypeOK' /\ Served'
  BY <1>4 DEF Build
<1>5. ASSUME NEW c \in Callers, Assign(c) PROVE LoadTypeOK' /\ Served'
  BY <1>5 DEF Assign
<1>6. ASSUME NEW c \in Callers, Read(c) PROVE LoadTypeOK' /\ Served'
  BY <1>6 DEF Read
<1>7. ASSUME NEW c \in Callers, BuildFails(c) PROVE LoadTypeOK' /\ Served'
  BY <1>7 DEF BuildFails
<1>8. ASSUME NEW c \in Callers, Done(c) PROVE LoadTypeOK' /\ Served'
  BY <1>8 DEF Done
<1> QED
  BY <1>1, <1>2, <1>3, <1>4, <1>5, <1>6, <1>7, <1>8 DEF LoadNext, LoadStep

\* The threads at a place are finitely many, no more than there are; and those
\* at two places are apart.
LEMMA WhereFinite ==
  ASSUME NEW place
  PROVE  /\ IsFiniteSet(Where(place)) /\ Cardinality(Where(place)) \in Nat
         /\ IsFiniteSet(Callers) /\ Cardinality(Callers) \in Nat
         /\ Cardinality(Where(place)) <= Cardinality(Callers)
BY LoadAssumption, FS_Subset, FS_CardinalityType DEF Where

LEMMA AssignersAndBuilders ==
  Cardinality(Where("assign")) + Cardinality(Where("build")) <= Cardinality(Callers)
<1> DEFINE Both == Where("assign") \cup Where("build")
<1>1. /\ IsFiniteSet(Both) /\ Cardinality(Both) <= Cardinality(Callers)
  BY LoadAssumption, FS_Subset DEF Where
<1>2. Where("assign") \cap Where("build") = {}
  BY DEF Where
<1>3. Cardinality(Both) = Cardinality(Where("assign")) + Cardinality(Where("build"))
  BY <1>2, WhereFinite, FS_Union, FS_EmptySet
<1> QED
  BY <1>1, <1>3

\* One thread moves: the places it leaves and enters lose and gain one.
LEMMA Move ==
  ASSUME LoadTypeOK, NEW c \in Callers, NEW new, at' = [at EXCEPT ![c] = new],
         NEW place
  PROVE  /\ at[c] # place /\ new # place => Where(place)' = Where(place)
         /\ at[c] # place /\ new = place =>
              Cardinality(Where(place)') = Cardinality(Where(place)) + 1
         /\ at[c] = place /\ new # place =>
              Cardinality(Where(place)') = Cardinality(Where(place)) - 1
<1>1. at'[c] = new /\ \A d \in Callers \ {c} : at'[d] = at[d]
  BY DEF LoadTypeOK
<1>2. at[c] # place /\ new # place => Where(place)' = Where(place)
  BY <1>1 DEF Where
<1>3. at[c] # place /\ new = place =>
        c \notin Where(place) /\ Where(place)' = Where(place) \cup {c}
  BY <1>1 DEF Where
<1>4. at[c] = place /\ new # place =>
        c \in Where(place) /\ Where(place)' = Where(place) \ {c}
  BY <1>1 DEF Where
<1> QED
  BY <1>2, <1>3, <1>4, WhereFinite, FS_AddElement, FS_RemoveElement

\* LoadCount is inductive, given the types.
LEMMA LoadCountStep == LoadInv /\ [LoadNext]_loadVars => LoadCount'
<1> SUFFICES ASSUME LoadInv, [LoadNext]_loadVars PROVE LoadCount'
  OBVIOUS
<1> USE DEF LoadInv
<1>w. \A place : Cardinality(Where(place)) \in Nat
  BY WhereFinite
<1>t. loads \in Nat /\ llm \in Nat /\ Cardinality(Callers) \in Nat
  BY LoadAssumption, FS_CardinalityType DEF LoadTypeOK
<1>1. CASE UNCHANGED loadVars
  BY <1>1 DEF loadVars, LoadCount, Where
<1>2. ASSUME NEW c \in Callers, Enter(c), UNCHANGED <<llm, loads, mine>> PROVE LoadCount'
  <2>1. Where("assign")' = Where("assign") /\ Where("build")' = Where("build")
    BY <1>2, Move DEF Enter
  <2> QED BY <1>2, <2>1 DEF LoadCount
<1>3. ASSUME NEW c \in Callers, Check(c) PROVE LoadCount'
  <2>1. Where("assign")' = Where("assign")
    BY <1>3, Move DEF Check
  <2>2. llm # Unset => Where("build")' = Where("build")
    BY <1>3, Move DEF Check
  <2> QED BY <1>3, <2>1, <2>2 DEF LoadCount, Check
<1>4. ASSUME NEW c \in Callers, Build(c) PROVE LoadCount'
  <2>1. /\ Cardinality(Where("assign")') = Cardinality(Where("assign")) + 1
        /\ Cardinality(Where("build")') = Cardinality(Where("build")) - 1
    BY <1>4, Move DEF Build
  <2> QED BY <1>4, <1>t, <1>w, <2>1 DEF LoadCount, Build
<1>5. ASSUME NEW c \in Callers, Assign(c) PROVE LoadCount'
  <2>1. Where("build")' = Where("build")
    BY <1>5, Move DEF Assign
  <2>2. loads + Cardinality(Where("build")) <= Cardinality(Callers)
    BY <1>t, <1>w, AssignersAndBuilders DEF LoadCount
  <2>3. llm' # Unset /\ loads' = loads
    BY <1>5 DEF Assign, Served
  <2> QED BY <2>1, <2>2, <2>3 DEF LoadCount
<1>6. ASSUME NEW c \in Callers, Read(c) PROVE LoadCount'
  <2>1. Where("assign")' = Where("assign") /\ Where("build")' = Where("build")
    BY <1>6, Move DEF Read
  <2> QED BY <1>6, <2>1 DEF LoadCount, Read
<1>7. ASSUME NEW c \in Callers, BuildFails(c) PROVE LoadCount'
  <2>1. /\ Where("assign")' = Where("assign")
        /\ Cardinality(Where("build")') = Cardinality(Where("build")) - 1
    BY <1>7, Move DEF BuildFails
  <2> QED BY <1>7, <1>t, <1>w, <2>1 DEF LoadCount, BuildFails
<1>8. ASSUME NEW c \in Callers, Done(c) PROVE LoadCount'
  <2>1. Where("assign")' = Where("assign") /\ Where("build")' = Where("build")
    BY <1>8, Move DEF Done
  <2> QED BY <1>8, <2>1 DEF LoadCount, Done
<1> QED
  BY <1>1, <1>2, <1>3, <1>4, <1>5, <1>6, <1>7, <1>8 DEF LoadNext, LoadStep

\* The inductive invariant of an engine's load.
THEOREM LoadInvariant == LoadSpec => []LoadInv
<1>1. LoadInit => LoadInv
  <2> SUFFICES ASSUME LoadInit PROVE LoadInv
    OBVIOUS
  <2>1. Where("assign") = {}
    BY DEF LoadInit, Where
  <2>2. LoadTypeOK /\ Served
    BY DEF LoadInit, LoadTypeOK, Served, At, Unset
  <2> QED
    BY <2>1, <2>2, FS_EmptySet DEF LoadInv, LoadCount, LoadInit
<1>2. LoadInv /\ [LoadNext]_loadVars => LoadInv'
  BY LoadTypesStep, LoadCountStep DEF LoadInv
<1> QED
  BY <1>1, <1>2, PTL DEF LoadSpec

\* At most one model is constructed for each thread that calls the engine.
LEMMA LoadInvBounds == LoadInv => LoadsBounded /\ InUseLoaded
<1> SUFFICES ASSUME LoadInv PROVE LoadsBounded /\ InUseLoaded
  OBVIOUS
<1>1. /\ loads \in Nat
      /\ Cardinality(Where("build")) \in Nat
      /\ Cardinality(Callers) \in Nat
      /\ Cardinality(Where("assign")) <= Cardinality(Callers)
  BY WhereFinite DEF LoadInv, LoadTypeOK
<1>2. LoadsBounded
  BY <1>1 DEF LoadInv, LoadCount, LoadsBounded
<1> QED
  BY <1>2 DEF LoadInv, Served, InUseLoaded

--------------------------------------------------------------------------------
(* The load inside a generation.                                           *)

\* Every step of a generation is one of its engine's load, or leaves it alone.
LEMMA StepLoads == Next => [LoadNext]_loadVars
<1> SUFFICES ASSUME Next PROVE [LoadNext]_loadVars
  OBVIOUS
<1> USE GenerationAssumption DEF LoadNext, loadVars
<1>1. ASSUME NEW j \in Jobs, Ask(j), UNCHANGED <<llm, loads, mine>> PROVE [LoadNext]_loadVars
  BY <1>1 DEF Ask
<1>2. ASSUME NEW j \in Jobs, Thread(j) PROVE [LoadNext]_loadVars
  <2>1. CASE Begin(j)
    BY <1>1, <2>1 DEF Begin
  <2>2. CASE AnswerText(j) \/ AnswerRaises(j) \/ AnswerCalls(j)
    BY <2>2 DEF AnswerText, AnswerRaises, AnswerCalls, Answer
  <2>3. CASE RunTool(j)
    <3>1. CASE Len(todo[j]) = 1
      BY <1>1, <2>3, <3>1 DEF RunTool
    <3>2. CASE Len(todo[j]) # 1
      BY <2>3, <3>2 DEF RunTool
    <3> QED BY <3>1, <3>2
  <2>4. CASE ToolRaises(j)
    BY <2>4 DEF ToolRaises
  <2>5. CASE LoadRaises(j)
    BY <2>5 DEF LoadRaises
  <2> QED BY <1>2, <2>1, <2>2, <2>3, <2>4, <2>5 DEF Thread
<1>3. ASSUME NEW c \in Callers, Count(c) \/ CountRaises(c) PROVE [LoadNext]_loadVars
  BY <1>3 DEF Count, CountRaises
<1>4. ASSUME NEW c \in Callers, LoadStep(c) PROVE [LoadNext]_loadVars
  BY <1>4
<1> QED
  BY <1>2, <1>3, <1>4 DEF Next

\* A generation uses its engine as LazyModel describes.
THEOREM GenerationLoads == Spec => LoadSpec
<1>1. Init => LoadInit
  BY DEF Init
<1>2. [Next]_vars => [LoadNext]_loadVars
  BY StepLoads DEF vars, loadVars
<1> QED
  BY <1>1, <1>2, PTL DEF Spec, LoadSpec

\* However many threads race for the first use of an engine, and however many
\* loads fail, no more models are constructed than there are threads.
THEOREM LoadsTheorem == Spec => []LoadsBounded
BY GenerationLoads, LoadInvariant, LoadInvBounds, PTL

\* No thread generates without a model.
THEOREM InUseTheorem == Spec => []InUseLoaded
BY GenerationLoads, LoadInvariant, LoadInvBounds, PTL

\* After the race of the first use the model stays the same for good.
THEOREM SettlesTheorem == Spec => ModelSettles
<1>1. LoadInv /\ [LoadNext]_loadVars =>
        [llm # Unset /\ Loading = {} => llm' = llm /\ Loading' = {}]_loadVars
  <2> SUFFICES ASSUME LoadInv, LoadNext, llm # Unset, Loading = {}
               PROVE  llm' = llm /\ Loading' = {}
    OBVIOUS
  <2>t. at \in [Callers -> At]
    BY DEF LoadInv, LoadTypeOK
  <2>1. \A c \in Callers : at[c] \notin {"build", "assign"}
    BY DEF Loading
  <2>2. PICK c \in Callers : \/ Enter(c) /\ UNCHANGED <<llm, loads, mine>>
                             \/ LoadStep(c) \/ BuildFails(c) \/ Done(c)
    BY DEF LoadNext
  <2>3. ~Build(c) /\ ~Assign(c) /\ ~BuildFails(c)
    BY <2>1 DEF Build, Assign, BuildFails
  <2>4. CASE Enter(c) /\ UNCHANGED <<llm, loads, mine>>
    BY <2>t, <2>1, <2>4 DEF Enter, Loading
  <2>5. CASE Check(c)
    BY <2>t, <2>1, <2>5 DEF Check, Loading
  <2>6. CASE Read(c)
    BY <2>t, <2>1, <2>6 DEF Read, Loading
  <2>7. CASE Done(c)
    BY <2>t, <2>1, <2>7 DEF Done, Loading
  <2> QED
    BY <2>2, <2>3, <2>4, <2>5, <2>6, <2>7 DEF LoadStep
<1> QED
  BY <1>1, GenerationLoads, LoadInvariant, PTL DEF LoadSpec, ModelSettles

--------------------------------------------------------------------------------
(* The turns of a generation.                                              *)

\* The load's invariant does not depend on the generations.
LEMMA LoadTypesHold == Spec => []LoadTypeOK
<1>1. LoadInv => LoadTypeOK
  BY DEF LoadInv
<1> QED
  BY <1>1, GenerationLoads, LoadInvariant, PTL

GenTypeOK ==
  /\ engine \in {"local", "scratch", "provider"}
  /\ pc \in [Jobs -> Pc]
  /\ turn \in [Jobs -> Nat]
  /\ todo \in [Jobs -> Seq(Call)]
  /\ messages \in [Jobs -> Seq(Message)]
  /\ asked \in [Jobs -> Seq(Call)]

\* Calls are being run exactly while some are left.
Pending ==
  \A j \in Jobs :
    /\ pc[j] \in {"new", "asking"} => todo[j] = <<>>
    /\ pc[j] = "running" => todo[j] # <<>>

LEMMA CallsType ==
  ASSUME GenTypeOK, NEW j \in Jobs, NEW text \in BOOLEAN,
         NEW n \in Nat, NEW goods \in [1 .. n -> BOOLEAN]
  PROVE  Calls(j, text, goods) \in Seq(Call) /\ Len(Calls(j, text, goods)) = n
<1>1. goods \in Seq(BOOLEAN) /\ Len(goods) = n
  OBVIOUS
<1>2. Len(asked[j]) \in Nat
  BY DEF GenTypeOK
<1>3. \A i \in 1 .. n :
        [id |-> Len(asked[j]) + i, text |-> text, good |-> goods[i]] \in Call
  BY <1>2 DEF Call
<1> QED
  BY <1>1, <1>3 DEF Calls

\* What Ask leaves: the thread asks within the budget, or has raised.
LEMMA AskLeaves ==
  ASSUME GenTypeOK, NEW j \in Jobs, Ask(j)
  PROVE  /\ pc' \in [Jobs -> Pc]
         /\ \A k \in Jobs \ {j} : pc'[k] = pc[k]
         /\ pc'[j] \in {"asking", "raised"}
         /\ pc'[j] = "asking" => turn[j] < MaxTurns
BY DEF Ask, GenTypeOK, Pc

\* A generation that answers with calls has some to run.
LEMMA AnswerCallsLeaves ==
  ASSUME GenTypeOK, NEW j \in Jobs, AnswerCalls(j)
  PROVE  \E calls \in Seq(Call) :
           /\ calls # <<>>
           /\ todo' = [todo EXCEPT ![j] = calls]
           /\ asked' = [asked EXCEPT ![j] = @ \o calls]
<1>1. PICK text \in BOOLEAN :
        \E goods \in UNION {[1 .. n -> BOOLEAN] : n \in 1 .. IF text THEN 1 ELSE MaxCalls} :
          /\ todo' = [todo EXCEPT ![j] = Calls(j, text, goods)]
          /\ asked' = [asked EXCEPT ![j] = @ \o Calls(j, text, goods)]
  BY DEF AnswerCalls
<1>2. PICK goods \in UNION {[1 .. n -> BOOLEAN] : n \in 1 .. IF text THEN 1 ELSE MaxCalls} :
        /\ todo' = [todo EXCEPT ![j] = Calls(j, text, goods)]
        /\ asked' = [asked EXCEPT ![j] = @ \o Calls(j, text, goods)]
  BY <1>1
<1>3. PICK n \in 1 .. IF text THEN 1 ELSE MaxCalls : goods \in [1 .. n -> BOOLEAN]
  BY <1>2
<1>4. n \in Nat /\ n # 0
  BY <1>3, GenerationAssumption
<1>5. Calls(j, text, goods) \in Seq(Call) /\ Len(Calls(j, text, goods)) = n
  BY <1>3, <1>4, CallsType
<1>6. Calls(j, text, goods) # <<>>
  BY <1>4, <1>5
<1> QED
  BY <1>2, <1>5, <1>6

LEMMA ExchangeType ==
  ASSUME NEW call \in Call
  PROVE  /\ Exchange(call) \in Seq(Message) /\ Len(Exchange(call)) = 2
         /\ Exchange(call)[1] = [role |-> "assistant", call |-> call]
         /\ Exchange(call)[2] = [role |-> "tool", call |-> call]
BY DEF Exchange, Message

\* What is left when the first of some calls is taken.
LEMMA TailFacts ==
  ASSUME NEW S, NEW s \in Seq(S), s # <<>>
  PROVE  /\ Len(s) \in Nat \ {0}
         /\ Head(s) \in S /\ Head(s) = s[1]
         /\ Tail(s) \in Seq(S) /\ Len(Tail(s)) = Len(s) - 1
         /\ \A i \in 1 .. Len(Tail(s)) : Tail(s)[i] = s[i + 1] /\ i + 1 \in 1 .. Len(s)
         /\ Tail(s) = <<>> <=> Len(s) = 1
<1>1. Len(s) \in Nat \ {0}
  BY EmptySeq
<1>2. /\ Head(s) \in S /\ Tail(s) \in Seq(S) /\ Len(Tail(s)) = Len(s) - 1
      /\ \A i \in 1 .. Len(Tail(s)) : Tail(s)[i] = s[i + 1]
  BY HeadTailProperties
<1>3. Head(s) = s[1]
  BY <1>1
<1>4. \A i \in 1 .. Len(Tail(s)) : i + 1 \in 1 .. Len(s)
  BY <1>1, <1>2
<1>5. Tail(s) = <<>> <=> Len(Tail(s)) = 0
  BY <1>2, EmptySeq
<1> QED
  BY <1>1, <1>2, <1>3, <1>4, <1>5

\* A conversation grows by the exchange for one more call.
LEMMA ConversationGrows ==
  ASSUME NEW run \in Nat, NEW said \in Seq(Message), Len(said) = 2 * run,
         NEW call \in Call
  PROVE  /\ Len(said \o Exchange(call)) = 2 * (run + 1)
         /\ \A i \in 1 .. 2 * run : (said \o Exchange(call))[i] = said[i]
         /\ (said \o Exchange(call))[2 * (run + 1) - 1] =
              [role |-> "assistant", call |-> call]
         /\ (said \o Exchange(call))[2 * (run + 1)] = [role |-> "tool", call |-> call]
<1> DEFINE both == said \o Exchange(call)
<1>1. /\ Exchange(call) \in Seq(Message) /\ Len(Exchange(call)) = 2
      /\ Exchange(call)[1] = [role |-> "assistant", call |-> call]
      /\ Exchange(call)[2] = [role |-> "tool", call |-> call]
  BY ExchangeType
<1>2. /\ Len(both) = Len(said) + Len(Exchange(call))
      /\ \A i \in 1 .. Len(said) + Len(Exchange(call)) : both[i] =
           IF i <= Len(said) THEN said[i] ELSE Exchange(call)[i - Len(said)]
  BY <1>1, ConcatProperties
<1>3. /\ Len(both) = 2 * run + 2
      /\ \A i \in 1 .. 2 * run + 2 : both[i] =
           IF i <= 2 * run THEN said[i] ELSE Exchange(call)[i - 2 * run]
  BY <1>1, <1>2
<1> HIDE DEF both
<1>4. ASSUME NEW m \in {1, 2} PROVE both[2 * run + m] = Exchange(call)[m]
  <2>1. /\ 2 * run + m \in 1 .. 2 * run + 2
        /\ ~(2 * run + m <= 2 * run)
        /\ 2 * run + m - 2 * run = m
    OBVIOUS
  <2> QED
    BY <1>3, <2>1
<1>5. both[2 * run + 1] = Exchange(call)[1] /\ both[2 * run + 2] = Exchange(call)[2]
  BY <1>4
<1>6. 2 * (run + 1) - 1 = 2 * run + 1 /\ 2 * (run + 1) = 2 * run + 2
  OBVIOUS
<1>7. \A i \in 1 .. 2 * run : both[i] = said[i]
  BY <1>3
<1> QED
  BY <1>1, <1>3, <1>5, <1>6, <1>7 DEF both

GenInv == GenTypeOK /\ Pending /\ TurnBudget

\* One step per action: types, Pending and TurnBudget together.
LEMMA GenInvStep == GenInv /\ [Next]_vars => GenInv'
<1> SUFFICES ASSUME GenInv, [Next]_vars PROVE GenInv'
  OBVIOUS
<1> USE GenerationAssumption DEF GenInv
<1>t. /\ pc \in [Jobs -> Pc] /\ turn \in [Jobs -> Nat] /\ todo \in [Jobs -> Seq(Call)]
      /\ messages \in [Jobs -> Seq(Message)] /\ asked \in [Jobs -> Seq(Call)]
  BY DEF GenTypeOK
<1>1. CASE UNCHANGED genVars
  BY <1>1 DEF genVars, GenTypeOK, Pending, TurnBudget
<1>2. ASSUME NEW j \in Jobs, Begin(j) PROVE GenInv'
  BY <1>2, <1>t, AskLeaves DEF Begin, GenTypeOK, Pending, TurnBudget
<1>3. ASSUME NEW j \in Jobs, AnswerText(j) \/ AnswerRaises(j) PROVE GenInv'
  <2>1. PICK end \in {"returned", "raised"} : pc' = [pc EXCEPT ![j] = end]
    BY <1>3 DEF AnswerText, AnswerRaises
  <2>2. /\ pc[j] = "asking" /\ turn' = [turn EXCEPT ![j] = @ + 1]
        /\ UNCHANGED <<engine, messages, todo, asked>>
    BY <1>3 DEF AnswerText, AnswerRaises, Answer
  <2>3. GenTypeOK'
    BY <1>t, <2>1, <2>2 DEF GenTypeOK, Pc
  <2>4. TurnBudget'
    BY <1>t, <2>1, <2>2 DEF TurnBudget
  <2> QED
    BY <1>t, <2>1, <2>2, <2>3, <2>4 DEF Pending
<1>4. ASSUME NEW j \in Jobs, AnswerCalls(j) PROVE GenInv'
  <2>1. PICK calls \in Seq(Call) : /\ calls # <<>>
                                   /\ todo' = [todo EXCEPT ![j] = calls]
                                   /\ asked' = [asked EXCEPT ![j] = @ \o calls]
    BY <1>4, AnswerCallsLeaves
  <2>2. /\ pc[j] = "asking" /\ pc' = [pc EXCEPT ![j] = "running"]
        /\ turn' = [turn EXCEPT ![j] = @ + 1]
        /\ UNCHANGED <<engine, messages>>
    BY <1>4 DEF AnswerCalls, Answer
  <2>3. asked[j] \o calls \in Seq(Call)
    BY <1>t, <2>1
  <2>4. GenTypeOK'
    BY <1>t, <2>1, <2>2, <2>3 DEF GenTypeOK, Pc
  <2> QED
    BY <1>t, <2>1, <2>2, <2>4 DEF Pending, TurnBudget
<1>5. ASSUME NEW j \in Jobs, RunTool(j) PROVE GenInv'
  <2>1. /\ todo[j] \in Seq(Call) /\ todo[j] # <<>>
        /\ Head(todo[j]) \in Call /\ Tail(todo[j]) \in Seq(Call)
        /\ Tail(todo[j]) = <<>> <=> Len(todo[j]) = 1
    BY <1>5, <1>t, TailFacts DEF RunTool, Pending
  <2>2. messages[j] \o Exchange(Head(todo[j])) \in Seq(Message)
    <3>1. messages[j] \in Seq(Message) /\ Exchange(Head(todo[j])) \in Seq(Message)
      BY <1>t, <2>1, ExchangeType
    <3> QED BY <3>1, ConcatProperties
  <2>3. /\ todo' = [todo EXCEPT ![j] = Tail(@)]
        /\ messages' = [messages EXCEPT ![j] = @ \o Exchange(Head(todo[j]))]
        /\ UNCHANGED <<engine, turn, asked>>
    BY <1>5 DEF RunTool
  <2>4. CASE Len(todo[j]) = 1
    <3>1. Ask(j)
      BY <1>5, <2>4 DEF RunTool
    <3>2. GenTypeOK'
      BY <3>1, <1>t, <2>1, <2>2, <2>3, AskLeaves DEF GenTypeOK
    <3>3. todo'[j] = <<>>
      BY <1>t, <2>1, <2>3, <2>4
    <3> QED
      BY <3>1, <3>2, <3>3, <1>t, <2>3, AskLeaves DEF Pending, TurnBudget
  <2>5. CASE Len(todo[j]) # 1
    <3>1. pc' = pc /\ pc[j] = "running"
      BY <1>5, <2>5 DEF RunTool
    <3>2. GenTypeOK'
      BY <3>1, <1>t, <2>1, <2>2, <2>3 DEF GenTypeOK
    <3>3. todo'[j] # <<>>
      BY <1>t, <2>1, <2>3, <2>5
    <3> QED
      BY <3>1, <3>2, <3>3, <1>t, <2>3 DEF Pending, TurnBudget
  <2> QED BY <2>4, <2>5
<1>6. ASSUME NEW j \in Jobs, ToolRaises(j) \/ LoadRaises(j) PROVE GenInv'
  BY <1>6, <1>t DEF ToolRaises, LoadRaises, GenTypeOK, Pending, TurnBudget, Pc
<1>7. ASSUME NEW c \in Callers, Count(c) \/ CountRaises(c) PROVE UNCHANGED genVars
  BY <1>7 DEF Count, CountRaises
<1> QED
  BY <1>1, <1>2, <1>3, <1>4, <1>5, <1>6, <1>7 DEF Next, Thread, vars

LEMMA GenInvariant == Spec => []GenInv
<1>1. Init => GenInv
  BY GenerationAssumption DEF Init, GenInv, GenTypeOK, Pending, TurnBudget, Pc
<1> QED
  BY <1>1, GenInvStep, PTL DEF Spec

\* Type correctness of generations and of the load they share.
THEOREM GenerationTypes == Spec => []TypeOK
<1>1. LoadTypeOK /\ GenInv => TypeOK
  BY DEF GenInv, GenTypeOK, TypeOK
<1> QED
  BY <1>1, LoadTypesHold, GenInvariant, PTL

\* A generation asks its model at most MAX_TOOL_TURNS times, whatever it is
\* answered and however many calls an answer holds.
THEOREM BudgetTheorem == Spec => []TurnBudget
<1>1. GenInv => TurnBudget
  BY DEF GenInv
<1> QED
  BY <1>1, GenInvariant, PTL

--------------------------------------------------------------------------------
(* The conversation.                                                       *)

\* CallsAnswered, for one job.
AnsweredSoFar(j) ==
  LET run == Len(asked[j]) - Len(todo[j]) IN
  /\ Len(messages[j]) = 2 * run
  /\ \A i \in 1 .. run :
       /\ messages[j][2 * i - 1] = [role |-> "assistant", call |-> asked[j][i]]
       /\ messages[j][2 * i] = [role |-> "tool", call |-> asked[j][i]]
  /\ \A i \in 1 .. Len(todo[j]) : todo[j][i] = asked[j][run + i]
  /\ pc[j] = "asking" => todo[j] = <<>>

LEMMA AnsweredIs == CallsAnswered <=> \A j \in Jobs : AnsweredSoFar(j)
BY DEF CallsAnswered, AnsweredSoFar

LEMMA AnsweredStep == GenInv /\ CallsAnswered /\ [Next]_vars => CallsAnswered'
<1> SUFFICES ASSUME GenInv, [Next]_vars, NEW k \in Jobs, AnsweredSoFar(k)
             PROVE  AnsweredSoFar(k)'
  BY DEF CallsAnswered, AnsweredSoFar
<1> USE GenerationAssumption
<1>t. /\ pc \in [Jobs -> Pc] /\ todo \in [Jobs -> Seq(Call)]
      /\ messages \in [Jobs -> Seq(Message)] /\ asked \in [Jobs -> Seq(Call)]
  BY DEF GenInv, GenTypeOK
<1>i. GenInv'
  BY GenInvStep
<1>a. pc'[k] = "asking" => todo'[k] = <<>>
  BY <1>i DEF GenInv, Pending
<1>s. ASSUME todo'[k] = todo[k], messages'[k] = messages[k], asked'[k] = asked[k]
      PROVE  AnsweredSoFar(k)'
  BY <1>s, <1>a DEF AnsweredSoFar
<1>1. CASE UNCHANGED genVars
  BY <1>1, <1>s DEF genVars
<1>2. ASSUME NEW j \in Jobs, Begin(j) \/ AnswerText(j) \/ AnswerRaises(j)
                             \/ ToolRaises(j) \/ LoadRaises(j)
      PROVE  AnsweredSoFar(k)'
  BY <1>2, <1>s DEF Begin, AnswerText, AnswerRaises, Answer, ToolRaises, LoadRaises
<1>3. ASSUME NEW j \in Jobs, AnswerCalls(j) PROVE AnsweredSoFar(k)'
  <2>1. PICK calls \in Seq(Call) : /\ todo' = [todo EXCEPT ![j] = calls]
                                   /\ asked' = [asked EXCEPT ![j] = @ \o calls]
    BY <1>3, AnswerCallsLeaves DEF GenInv
  <2>2. messages' = messages /\ pc[j] = "asking"
    BY <1>3 DEF AnswerCalls, Answer
  <2>3. CASE k # j
    BY <1>t, <1>s, <2>1, <2>2, <2>3
  <2>4. CASE k = j
    <3>1. todo[k] = <<>> /\ todo'[k] = calls /\ asked'[k] = asked[k] \o calls
      BY <1>t, <2>1, <2>2, <2>4 DEF GenInv, Pending
    <3>2. Len(asked'[k]) - Len(todo'[k]) = Len(asked[k]) - Len(todo[k])
      BY <1>t, <3>1
    <3>3. \A i \in 1 .. Len(asked[k]) : asked'[k][i] = asked[k][i]
      BY <1>t, <3>1
    <3>4. \A i \in 1 .. Len(calls) : calls[i] = asked'[k][Len(asked[k]) + i]
      BY <1>t, <3>1
    <3> QED
      BY <1>t, <1>a, <2>2, <3>1, <3>2, <3>3, <3>4 DEF AnsweredSoFar
  <2> QED BY <2>3, <2>4
<1>4. ASSUME NEW j \in Jobs, RunTool(j) PROVE AnsweredSoFar(k)'
  <2>1. /\ todo' = [todo EXCEPT ![j] = Tail(@)]
        /\ messages' = [messages EXCEPT ![j] = @ \o Exchange(Head(todo[j]))]
        /\ asked' = asked /\ todo[j] # <<>>
    BY <1>4 DEF RunTool, GenInv, Pending
  <2>2. CASE k # j
    BY <1>t, <1>s, <2>1, <2>2
  <2>3. CASE k = j
    <3> DEFINE run == Len(asked[k]) - Len(todo[k])
               call == asked[k][run + 1]
    <3>0. /\ todo[k] \in Seq(Call) /\ asked[k] \in Seq(Call) /\ messages[k] \in Seq(Message)
          /\ Len(todo[k]) \in Nat /\ Len(asked[k]) \in Nat /\ Len(messages[k]) \in Nat
      BY <1>t, LenProperties
    <3>1. Len(todo[k]) \in Nat \ {0} /\ run \in Int /\ Len(messages[k]) = 2 * run
      BY <3>0, <2>1, <2>3, TailFacts DEF AnsweredSoFar
    <3>2. run \in Nat
      <4> \A n \in Int : 2 * n \in Nat => n \in Nat
        OBVIOUS
      <4> QED BY <3>0, <3>1
    <3>3. Head(todo[k]) = call /\ call \in Call
      <4>1. Head(todo[k]) = todo[k][1] /\ Head(todo[k]) \in Call
        BY <3>0, <2>1, <2>3, TailFacts
      <4>2. 1 \in 1 .. Len(todo[k])
        BY <3>1
      <4>3. todo[k][1] = call
        BY <4>2 DEF AnsweredSoFar
      <4> QED BY <4>1, <4>3
    <3>4. /\ todo'[k] = Tail(todo[k]) /\ asked'[k] = asked[k]
          /\ messages'[k] = messages[k] \o Exchange(call)
      BY <1>t, <2>1, <2>3, <3>3
    <3>5. Len(asked'[k]) - Len(todo'[k]) = run + 1
      <4>1. Len(todo'[k]) = Len(todo[k]) - 1
        BY <3>0, <3>4, <2>1, <2>3, TailFacts
      <4>2. Len(asked'[k]) = Len(asked[k])
        BY <3>4
      <4> QED BY <3>0, <4>1, <4>2
    <3>g. LET grown == messages[k] \o Exchange(call) IN
            /\ Len(grown) = 2 * (run + 1)
            /\ \A i \in 1 .. 2 * run : grown[i] = messages[k][i]
            /\ grown[2 * (run + 1) - 1] = [role |-> "assistant", call |-> call]
            /\ grown[2 * (run + 1)] = [role |-> "tool", call |-> call]
      <4>1. messages[k] \in Seq(Message) /\ Len(messages[k]) = 2 * run
        BY <3>0, <3>1
      <4>2. run \in Nat /\ call \in Call
        BY <3>2, <3>3
      <4> HIDE DEF run, call
      <4> QED BY <4>1, <4>2, ConversationGrows
    <3>6. Len(messages'[k]) = 2 * (run + 1)
      BY ONLY <3>4, <3>g
    <3>7. /\ messages'[k][2 * (run + 1) - 1] = [role |-> "assistant", call |-> call]
          /\ messages'[k][2 * (run + 1)] = [role |-> "tool", call |-> call]
      BY ONLY <3>4, <3>g
    <3>8. \A i \in 1 .. 2 * run : messages'[k][i] = messages[k][i]
      BY ONLY <3>4, <3>g
    <3>9. \A i \in 1 .. run + 1 :
            /\ messages'[k][2 * i - 1] = [role |-> "assistant", call |-> asked'[k][i]]
            /\ messages'[k][2 * i] = [role |-> "tool", call |-> asked'[k][i]]
      <4> TAKE i \in 1 .. run + 1
      <4>1. CASE i = run + 1
        BY <4>1, <3>4, <3>7
      <4>2. CASE i # run + 1
        <5>1. i \in 1 .. run /\ 2 * i - 1 \in 1 .. 2 * run /\ 2 * i \in 1 .. 2 * run
          <6> HIDE DEF run
          <6> QED BY <4>2, <3>2
        <5> QED BY <5>1, <3>4, <3>8 DEF AnsweredSoFar
      <4> QED BY <4>1, <4>2
    <3>10. \A i \in 1 .. Len(todo'[k]) : todo'[k][i] = asked'[k][run + 1 + i]
      <4> TAKE i \in 1 .. Len(todo'[k])
      <4>1. /\ todo'[k][i] = todo[k][i + 1] /\ i + 1 \in 1 .. Len(todo[k])
            /\ run + (i + 1) = run + 1 + i
        <5>1. \A m \in 1 .. Len(Tail(todo[k])) :
                Tail(todo[k])[m] = todo[k][m + 1] /\ m + 1 \in 1 .. Len(todo[k])
          BY <3>0, <2>1, <2>3, TailFacts
        <5>2. i \in Int
          BY <3>4, <3>0, <2>1, <2>3, TailFacts
        <5> HIDE DEF run, call
        <5> QED BY <3>2, <3>4, <5>1, <5>2
      <4> QED BY <4>1, <3>4 DEF AnsweredSoFar
    <3> QED
      BY <1>a, <3>5, <3>6, <3>9, <3>10 DEF AnsweredSoFar
  <2> QED BY <2>2, <2>3
<1>5. ASSUME NEW c \in Callers, Count(c) \/ CountRaises(c) PROVE UNCHANGED genVars
  BY <1>5 DEF Count, CountRaises
<1> QED
  BY <1>1, <1>2, <1>3, <1>4, <1>5 DEF Next, Thread, vars

\* Every call is run once and in order, its result directly after it, before
\* the model is asked again: for any number of turns and of calls in an answer.
THEOREM AnsweredTheorem == Spec => []CallsAnswered
<1>1. Init => CallsAnswered
  BY DEF Init, CallsAnswered
<1> QED
  BY <1>1, GenInvariant, AnsweredStep, PTL DEF Spec
================================================================================
