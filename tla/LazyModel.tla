------------------------------- MODULE LazyModel -------------------------------
(***************************************************************************)
(* _load() of LocalModel, EmbeddingModel and ScratchEngine, and            *)
(* _get_client() of ProviderEngine: one engine object shared by every      *)
(* thread, whose model is constructed on first use.  The test, the         *)
(* construction, the assignment and the read that returns are steps of     *)
(* their own, between which other threads run: nothing is locked.          *)
(***************************************************************************)
EXTENDS Integers, FiniteSets

CONSTANT Callers  \* the threads that call into the engine

ASSUME LoadAssumption == IsFiniteSet(Callers)

VARIABLES
  llm,    \* engine._llm: Unset, or the number of the model it refers to
  loads,  \* how many models were constructed
  at,     \* at[c]: where c is in _load()
  mine    \* mine[c]: the model c has constructed, or was returned by _load()

loadVars == <<llm, loads, at, mine>>

Unset == 0

\* "out"     not in the engine
\* "check"   about to test _llm
\* "build"   found none
\* "assign"  has constructed a model
\* "read"    about to return _llm
\* "have"    _load() has returned
At == {"out", "check", "build", "assign", "read", "have"}

LoadInit ==
  /\ llm = Unset
  /\ loads = 0
  /\ at = [c \in Callers |-> "out"]
  /\ mine = [c \in Callers |-> Unset]

Enter(c) ==
  /\ at[c] = "out"
  /\ at' = [at EXCEPT ![c] = "check"]

Loading == {c \in Callers : at[c] \in {"build", "assign"}}

\* Mutant of Check: a thread that finds another one loading goes on.
CheckOnce(c) ==
  /\ at[c] = "check"
  /\ at' = [at EXCEPT ![c] = IF llm = Unset /\ Loading = {} THEN "build" ELSE "read"]
  /\ UNCHANGED <<llm, loads, mine>>

\* Mutant of Check: every call loads.
CheckNothing(c) ==
  /\ at[c] = "check"
  /\ at' = [at EXCEPT ![c] = "build"]
  /\ UNCHANGED <<llm, loads, mine>>

Check(c) ==
  /\ at[c] = "check"
  /\ at' = [at EXCEPT ![c] = IF llm = Unset THEN "build" ELSE "read"]
  /\ UNCHANGED <<llm, loads, mine>>

Build(c) ==
  /\ at[c] = "build"
  /\ loads' = loads + 1
  /\ mine' = [mine EXCEPT ![c] = loads + 1]
  /\ at' = [at EXCEPT ![c] = "assign"]
  /\ UNCHANGED llm

\* The file is missing, or the constructor raises.
BuildFails(c) ==
  /\ at[c] = "build"
  /\ at' = [at EXCEPT ![c] = "out"]
  /\ UNCHANGED <<llm, loads, mine>>

\* Mutant of Assign: the model is returned but not kept.
AssignForgets(c) ==
  /\ at[c] = "assign"
  /\ at' = [at EXCEPT ![c] = "have"]
  /\ UNCHANGED <<llm, loads, mine>>

\* Whatever another thread assigned in between is replaced.
Assign(c) ==
  /\ at[c] = "assign"
  /\ llm' = mine[c]
  /\ at' = [at EXCEPT ![c] = "read"]
  /\ UNCHANGED <<loads, mine>>

\* return self._llm, which another thread may have replaced.
Read(c) ==
  /\ at[c] = "read"
  /\ mine' = [mine EXCEPT ![c] = llm]
  /\ at' = [at EXCEPT ![c] = "have"]
  /\ UNCHANGED <<llm, loads>>

\* The caller is done with the model.
Done(c) ==
  /\ at[c] = "have"
  /\ at' = [at EXCEPT ![c] = "out"]
  /\ mine' = [mine EXCEPT ![c] = Unset]
  /\ UNCHANGED <<llm, loads>>

\* _load() once it is entered.
LoadStep(c) == Check(c) \/ Build(c) \/ Assign(c) \/ Read(c)

\* An engine that is called without an end.
LoadNext ==
  \E c \in Callers :
    \/ Enter(c) /\ UNCHANGED <<llm, loads, mine>>
    \/ LoadStep(c)
    \/ BuildFails(c)
    \/ Done(c)

LoadSpec == LoadInit /\ [][LoadNext]_loadVars

--------------------------------------------------------------------------------
(* Properties.                                                             *)

\* Type correctness of the load: nothing refers to a model never constructed.
LoadTypeOK ==
  /\ llm \in 0 .. loads
  /\ loads \in Nat
  /\ at \in [Callers -> At]
  /\ mine \in [Callers -> 0 .. loads]

\* The race of the first use is the only one: each thread constructs at most
\* one model, so memory for as many models as there are threads is the worst
\* case, however long the engine serves.
LoadsBounded == loads <= Cardinality(Callers)

\* Whoever uses a model has one.
InUseLoaded == \A c \in Callers : at[c] = "have" => mine[c] # Unset

\* Once no thread is loading, the engine's model never changes again.
ModelSettles == [][llm # Unset /\ Loading = {} => llm' = llm /\ Loading' = {}]_loadVars

\* llm.py: each route's model "is keyed by its GGUF path so the same file is
\* never loaded twice".
LoadedOnce == loads <= 1
================================================================================
