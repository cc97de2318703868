-------------------------------- MODULE Decoding --------------------------------
(***************************************************************************)
(* generate() of model.py over kv_cache.py: the prompt's ids go through    *)
(* the layers in one pass, then each sampled token in a pass of its own.   *)
(*                                                                         *)
(* The numbers are abstracted to what they were computed from: the hidden  *)
(* state of a position after a layer is the term of its inputs, the state  *)
(* before the layer and the rows it attended to.  Two hidden states are    *)
(* equal in the program whenever their terms are.                          *)
(***************************************************************************)
EXTENDS KVCache, SequencesExt

CONSTANTS
  Vocabulary,  \* the tokens that may be sampled
  Eos,         \* eos_id
  Layers,      \* how many layers the model has
  MaxSeq,      \* the positions that have a rotary entry
  MaxNew       \* max_new_tokens

ASSUME DecodingAssumption ==
  /\ Layers \in Nat \ {0}
  /\ MaxSeq \in Nat \ {0, 1}
  /\ MaxNew \in Nat

VARIABLES
  ids,     \* the token ids: the prompt's, then also the generated
  born,    \* how many ids the prompt has
  cache,   \* the KVCache of the call
  x,       \* the hidden states of the forward pass, one for each position in it
  layer,   \* the next layer of the forward pass
  offset,  \* the position the forward pass starts at
  phase    \* "encode", "forward", "sample", "done" or "raised"

modelVars == <<born, cache, x, layer, offset, phase>>
decodeVars == <<ids, modelVars>>

ModelInit ==
  /\ born = 0
  /\ cache = [i \in 1 .. Layers |-> NewLayer]
  /\ x = <<>>
  /\ layer = 1
  /\ offset = 0
  /\ phase = "encode"

\* The start of _forward(): the embeddings of the last n ids.
Forward(all, n, start) ==
  /\ x' = SubSeq(all, Len(all) - n + 1, Len(all))
  /\ layer' = 1
  /\ offset' = start
  /\ phase' = "forward"

Prefill ==
  /\ phase = "encode"
  /\ born' = Len(ids)
  /\ Forward(ids, Len(ids), 0)
  /\ UNCHANGED <<ids, cache>>

\* Mutant of Rotary: one position too few.
RotaryLess == offset + Len(x) < MaxSeq

\* Every position of the pass has a rotary entry.
Rotary == offset + Len(x) <= MaxSeq

\* The rows of the pass: the state of a position, turned by the position.
NewRows == [i \in DOMAIN x |-> [pos |-> offset + i - 1, of |-> x[i]]]

\* The causal mask: how many rows the i-th query of the pass attends to.
Visible(i) == offset + i

Layer ==
  /\ phase = "forward"
  /\ Rotary
  /\ LET full == AppendRows(cache[layer], NewRows) IN
     /\ cache' = [cache EXCEPT ![layer] = full]
     /\ x' = [i \in DOMAIN x |-> [of |-> x[i], saw |-> SubSeq(Rows(full), 1, Visible(i))]]
  /\ layer' = layer + 1
  /\ phase' = IF layer = Layers THEN "sample" ELSE "forward"
  /\ UNCHANGED <<ids, born, offset>>

\* The shapes of the pass and of the rotary table do not fit.  A prefill raises where
\* they meet; a single token is broadcast to no row at all, the cache is given none,
\* and attention() raises where it gives its output the shape of the pass.
LayerRaises ==
  /\ phase = "forward"
  /\ ~Rotary
  /\ phase' = "raised"
  /\ UNCHANGED <<ids, born, cache, x, layer, offset>>

\* One token through the model, at its own position.
Step(t) == Forward(Append(ids, t), 1, Len(ids))

\* Mutant of MayStep: one token more than was asked for.
MayStepOnceMore == Len(ids) - born <= MaxNew

\* The loop over max_new_tokens goes on.
MayStep == Len(ids) - born < MaxNew

Sample(t) ==
  /\ phase = "sample"
  /\ MayStep
  /\ ids' = Append(ids, t)
  /\ IF t = Eos THEN phase' = "done" /\ UNCHANGED <<x, layer, offset>>
     ELSE Step(t)
  /\ UNCHANGED <<born, cache>>

\* The budget is used up.
Stop ==
  /\ phase = "sample"
  /\ ~MayStep
  /\ phase' = "done"
  /\ UNCHANGED <<ids, born, cache, x, layer, offset>>

Pass == Layer \/ LayerRaises \/ Stop \/ \E t \in Vocabulary : Sample(t)

DecodeNext == Prefill \/ Pass

\* generate() of the given ids.
DecodeSpec(input) == ids = input /\ ModelInit /\ [][DecodeNext]_decodeVars

--------------------------------------------------------------------------------
(* Properties.                                                             *)

\* What each variable of a call holds, and that it generates no more than
\* max_new_tokens.
DecodeTypeOK ==
  /\ born \in 0 .. Len(ids)
  /\ phase # "encode" => Len(ids) - born <= MaxNew
  /\ DOMAIN cache = 1 .. Layers
  /\ layer \in 1 .. Layers + 1
  /\ offset \in 0 .. Len(ids)
  /\ phase \in {"encode", "forward", "sample", "done", "raised"}

\* The state of a position after layer l without a cache, from the states g that
\* all positions have after the layers below.
Attend(s, g, l, p) ==
  IF l = 0 THEN s[p]
  ELSE [of |-> g[l - 1][p],
        saw |-> [q \in 1 .. p |-> [pos |-> q - 1, of |-> g[l - 1][q]]]]

\* The states of all positions of s after each layer, computed from s alone.
Reference(s) ==
  LET State[l \in 0 .. Layers] == [p \in DOMAIN s |-> Attend(s, State, l, p)]
  IN  State

\* The cache changes no result: the next token is sampled from what a full
\* recomputation over all ids would give.
CacheTransparent ==
  phase = "sample" => Last(x) = Reference(ids)[Layers][Len(ids)]

\* A call fails exactly when a token that is not the end of the text has no
\* position, be it the last of the budget, whose logits nobody needs.
FailsAtContext ==
  /\ phase = "raised" => Len(ids) > MaxSeq
  /\ phase \in {"sample", "done"} => Len(ids) <= MaxSeq \/ Last(ids) = Eos
================================================================================
