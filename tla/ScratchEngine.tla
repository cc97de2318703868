----------------------------- MODULE ScratchEngine -----------------------------
(***************************************************************************)
(* loader.py over bpe.py and model.py: one chat completion of the          *)
(* from-scratch engine, from the texts of the prompt to the text of the    *)
(* reply: encode() and then generate(), which Decoding models.  Every call *)
(* has a cache of its own, so calls do not meet.                           *)
(***************************************************************************)
EXTENDS BPE, Decoding

CONSTANTS
  Prompts,  \* the texts a call may be made of
  ImStart   \* <|im_start|>

\* <|im_end|> is also eos_id.
ImEnd == Eos

ASSUME ScratchAssumption ==
  /\ {ImStart, ImEnd} \subseteq Specials
  /\ \A p \in Prompts : p \in Seq(Seq(Bytes \cup Specials)) /\ p # <<>>

VARIABLES
  prompt,  \* the texts given to encode(), one for each message and the opener
  plan,    \* what is left to encode: ids to put out, and pieces
  word     \* the symbols of the piece being encoded

encodeVars == <<prompt, plan, word>>
vars == <<encodeVars, decodeVars>>

\* encode(): the specials around the text are added to the pieces of it.
Plan(texts) ==
  FlattenSeq([i \in DOMAIN texts |-> <<ImStart>> \o Pieces(texts[i]) \o <<ImEnd>>])

Init ==
  /\ prompt \in Prompts
  /\ plan = Plan(prompt)
  /\ word = <<>>
  /\ ids = <<>>
  /\ ModelInit

--------------------------------------------------------------------------------
(* encode().                                                               *)

EncodeSpecial ==
  /\ phase = "encode" /\ word = <<>> /\ plan # <<>>
  /\ Head(plan) \in Specials
  /\ ids' = Append(ids, Head(plan))
  /\ plan' = Tail(plan)
  /\ UNCHANGED <<prompt, word, modelVars>>

EncodePiece ==
  /\ phase = "encode" /\ word = <<>> /\ plan # <<>>
  /\ Head(plan) \notin Specials
  /\ word' = Symbols(Head(plan))
  /\ plan' = Tail(plan)
  /\ UNCHANGED <<prompt, ids, modelVars>>

\* An iteration of _bpe().
Merge ==
  /\ Candidates(word) # {}
  /\ word' = MergePair(word, Best(word))
  /\ UNCHANGED <<prompt, plan, ids, modelVars>>

EmitWord ==
  /\ word # <<>> /\ Candidates(word) = {}
  /\ ids' = ids \o word
  /\ word' = <<>>
  /\ UNCHANGED <<prompt, plan, modelVars>>

\* encode() is back and generate() begins.
Encoded == phase = "encode" /\ word = <<>> /\ plan = <<>>

Generate ==
  /\ (Encoded /\ Prefill) \/ Pass
  /\ UNCHANGED encodeVars

Next == EncodeSpecial \/ EncodePiece \/ Merge \/ EmitWord \/ Generate

Spec == Init /\ [][Next]_vars

--------------------------------------------------------------------------------
(* Properties.                                                             *)

\* Type correctness: the prompt is given, and generate() has its types.
TypeOK == prompt \in Prompts /\ DecodeTypeOK

\* encode() loses and invents no byte, whatever is merged: at any time what is
\* encoded, being encoded and to be encoded is the text without its specials.
BytesKept ==
  Decode(SubSeq(ids, 1, IF phase = "encode" THEN Len(ids) ELSE born))
    \o FlattenSeq(word) \o Decode(plan)
  = FlattenSeq([i \in DOMAIN prompt |-> Plain(prompt[i])])

\* The loop of _bpe() comes to what one pass over the merges by rank gives.
MergedByRank ==
  word # <<>> /\ Candidates(word) = {} => word = RankOrder(FlattenSeq(word))

\* bpe.py: "Special / added tokens are matched verbatim during encoding."
SpecialsKept ==
  phase # "encode" =>
    LET specials(seq) == SelectSeq(seq, LAMBDA t : t \in Specials) IN
    specials(SubSeq(ids, 1, born)) =
      FlattenSeq([i \in DOMAIN prompt |-> <<ImStart>> \o specials(prompt[i]) \o <<ImEnd>>])
================================================================================
