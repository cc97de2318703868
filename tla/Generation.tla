------------------------------ MODULE Generation -------------------------------
(***************************************************************************)
(* _generate_with_tools() of scheduler.py with tools.py and the generate() *)
(* of the three engines: what the executor's threads do with the jobs that *)
(* Scheduler hands them, over one engine shared through LazyModel.         *)
(*                                                                         *)
(* To Scheduler a generation is a thread that returns or raises; here are  *)
(* its turns.  The model may answer with text, with text that is or looks  *)
(* like a tool call, or with structured calls; a call that can be run has  *)
(* a known name and arguments that its handler takes.                      *)
(***************************************************************************)
EXTENDS LazyModel, SequencesExt

CONSTANTS
  Jobs,      \* the jobs being generated, named as their threads
  MaxTurns,  \* MAX_TOOL_TURNS
  MaxCalls   \* bound of the model: structured calls in one answer

ASSUME GenerationAssumption ==
  /\ Jobs \subseteq Callers
  /\ MaxTurns \in Nat \ {0}
  /\ MaxCalls \in Nat

VARIABLES
  engine,    \* which engine serves: "local", "scratch" or "provider"
  pc,        \* pc[j]: where the thread of j is
  turn,      \* turn[j]: how many times the model was asked
  todo,      \* todo[j]: calls of the last answer that have not been run
  messages,  \* messages[j]: what was appended to the job's messages
  asked      \* asked[j]: every call the model made (history)

genVars == <<engine, pc, turn, todo, messages, asked>>
vars == <<loadVars, genVars>>

\* "new", "asking" the model, "running" its tools, "returned", "raised"
Pc == {"new", "asking", "running", "returned", "raised"}

\* A tool call: its number, whether it came as text, whether its name and its
\* arguments are good.
Call == [id : Nat, text : BOOLEAN, good : BOOLEAN]

Message == [role : {"assistant", "tool"}, call : Call]

Init ==
  /\ LoadInit
  /\ engine \in {"local", "scratch", "provider"}
  /\ pc = [j \in Jobs |-> "new"]
  /\ turn = [j \in Jobs |-> 0]
  /\ todo = [j \in Jobs |-> <<>>]
  /\ messages = [j \in Jobs |-> <<>>]
  /\ asked = [j \in Jobs |-> <<>>]

--------------------------------------------------------------------------------
(* The thread of job j.                                                    *)

\* Mutant of Ask: the turn budget is not tested.
AskAlways(j) ==
  /\ pc' = [pc EXCEPT ![j] = "asking"]
  /\ Enter(j)

\* The head of the loop: call generate(), which loads its model first, or run
\* out of turns.
Ask(j) ==
  \/ /\ turn[j] < MaxTurns
     /\ pc' = [pc EXCEPT ![j] = "asking"]
     /\ Enter(j)
  \/ /\ turn[j] >= MaxTurns
     /\ pc' = [pc EXCEPT ![j] = "raised"]
     /\ UNCHANGED at

Begin(j) ==
  /\ pc[j] = "new"
  /\ Ask(j)
  /\ UNCHANGED <<llm, loads, mine, engine, turn, todo, messages, asked>>

\* generate() returns.
Answer(j) ==
  /\ pc[j] = "asking"
  /\ Done(j)
  /\ turn' = [turn EXCEPT ![j] = @ + 1]
  /\ UNCHANGED <<engine, messages>>

\* Text without a call that the server knows how to run.
AnswerText(j) ==
  /\ Answer(j)
  /\ pc' = [pc EXCEPT ![j] = "returned"]
  /\ UNCHANGED <<todo, asked>>

\* The engine raises; or the text holds a call without its tags, for which the
\* pattern has no group to take it from.
AnswerRaises(j) ==
  /\ Answer(j)
  /\ pc' = [pc EXCEPT ![j] = "raised"]
  /\ UNCHANGED <<todo, asked>>

Calls(j, text, goods) ==
  [i \in 1 .. Len(goods) |->
     [id |-> Len(asked[j]) + i, text |-> text, good |-> goods[i]]]

\* ScratchEngine.generate(): no structured calls.
TextOnly == engine = "scratch"

\* ProviderEngine.generate(): the structured calls of the endpoint are passed
\* on as they came, as dictionaries, which have no attribute `function'.
RawCalls == engine = "provider"

\* One call as text, or structured calls.
AnswerCalls(j) ==
  /\ Answer(j)
  /\ pc' = [pc EXCEPT ![j] = "running"]
  /\ \E text \in IF TextOnly THEN {TRUE} ELSE BOOLEAN :
     \E goods \in UNION {[1 .. n -> BOOLEAN] : n \in 1 .. IF text THEN 1 ELSE MaxCalls} :
       /\ todo' = [todo EXCEPT ![j] = Calls(j, text, goods)]
       /\ asked' = [asked EXCEPT ![j] = @ \o Calls(j, text, goods)]

\* run_tool() finds the handler and the handler takes the arguments.
Runs(call) == call.good /\ (call.text \/ ~RawCalls)

\* Mutant of Exchange: the result goes by the name results once had.
ExchangeFunction(call) ==
  <<[role |-> "assistant", call |-> call], [role |-> "function", call |-> call]>>

\* What is appended for a call: the call itself, then its result.
Exchange(call) ==
  <<[role |-> "assistant", call |-> call], [role |-> "tool", call |-> call]>>

\* Mutant of RunTool: only the first call of an answer is run.
RunToolFirst(j) ==
  /\ pc[j] = "running"
  /\ Runs(Head(todo[j]))
  /\ todo' = [todo EXCEPT ![j] = <<>>]
  /\ messages' = [messages EXCEPT ![j] = @ \o Exchange(Head(todo[j]))]
  /\ Ask(j)
  /\ UNCHANGED <<llm, loads, mine, engine, turn, asked>>

\* run_tool() for the next call, whose result follows it in the messages; after
\* the last one the model is asked again.
RunTool(j) ==
  /\ pc[j] = "running"
  /\ Runs(Head(todo[j]))
  /\ todo' = [todo EXCEPT ![j] = Tail(@)]
  /\ messages' = [messages EXCEPT ![j] = @ \o Exchange(Head(todo[j]))]
  /\ IF Len(todo[j]) = 1 THEN Ask(j) ELSE UNCHANGED <<at, pc>>
  /\ UNCHANGED <<llm, loads, mine, engine, turn, asked>>

\* run_tool() raises, and with it the generation.
ToolRaises(j) ==
  /\ pc[j] = "running"
  /\ ~Runs(Head(todo[j]))
  /\ pc' = [pc EXCEPT ![j] = "raised"]
  /\ UNCHANGED <<loadVars, engine, turn, todo, messages, asked>>

\* _load() raises.
LoadRaises(j) ==
  /\ pc[j] = "asking"
  /\ engine # "provider"
  /\ BuildFails(j)
  /\ pc' = [pc EXCEPT ![j] = "raised"]
  /\ UNCHANGED <<engine, turn, todo, messages, asked>>

--------------------------------------------------------------------------------
(* The event loop counts tokens on the same engine.                        *)

\* ProviderEngine.count_tokens() estimates, and needs no client.
Estimates == engine = "provider"

Count(c) ==
  /\ c \notin Jobs
  /\ ~Estimates
  /\ \/ Enter(c) /\ UNCHANGED <<llm, loads, mine>>
     \/ Done(c)
  /\ UNCHANGED genVars

CountRaises(c) == c \notin Jobs /\ BuildFails(c) /\ UNCHANGED genVars

Thread(j) ==
  \/ Begin(j) \/ AnswerText(j) \/ AnswerRaises(j) \/ AnswerCalls(j)
  \/ RunTool(j) \/ ToolRaises(j) \/ LoadRaises(j)

Next ==
  \/ \E j \in Jobs : Thread(j)
  \/ \E c \in Callers : Count(c) \/ CountRaises(c)
  \/ \E c \in Callers : LoadStep(c) /\ UNCHANGED genVars

Spec == Init /\ [][Next]_vars

--------------------------------------------------------------------------------
(* Properties.                                                             *)

\* Type correctness: what each variable of a generation holds.
TypeOK ==
  /\ LoadTypeOK
  /\ engine \in {"local", "scratch", "provider"}
  /\ pc \in [Jobs -> Pc]
  /\ turn \in [Jobs -> Nat]
  /\ todo \in [Jobs -> Seq(Call)]
  /\ messages \in [Jobs -> Seq(Message)]
  /\ asked \in [Jobs -> Seq(Call)]

\* "Tool-calling loop exceeded its turn budget": the model is asked at most
\* MAX_TOOL_TURNS times, whatever it answers.
TurnBudget ==
  \A j \in Jobs : turn[j] <= MaxTurns /\ (pc[j] = "asking" => turn[j] < MaxTurns)

\* The conversation the model is asked about: the calls it made so far, in
\* order and each directly followed by its result, except those that are still
\* to be run; when it is asked again there are none of those.
CallsAnswered ==
  \A j \in Jobs :
    LET run == Len(asked[j]) - Len(todo[j]) IN
    /\ Len(messages[j]) = 2 * run
    /\ \A i \in 1 .. run :
         /\ messages[j][2 * i - 1] = [role |-> "assistant", call |-> asked[j][i]]
         /\ messages[j][2 * i] = [role |-> "tool", call |-> asked[j][i]]
    /\ \A i \in 1 .. Len(todo[j]) : todo[j][i] = asked[j][run + i]
    /\ pc[j] = "asking" => todo[j] = <<>>

\* explainer.md: through the provider engine a request is served "with the exact
\* same scheduler/tooling/health machinery as a local GGUF": a good call is run.
GoodCallsRun ==
  [][\A j \in Jobs : pc[j] = "running" /\ pc'[j] = "raised" /\ turn[j] < MaxTurns
       => ~Head(todo[j]).good]_vars
================================================================================
