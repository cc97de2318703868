---------------------------------- MODULE BPE ----------------------------------
(***************************************************************************)
(* bpe.py: byte-pair encoding.  A symbol is the sequence of the bytes it   *)
(* stands for, so that joining symbols is joining sequences and a symbol   *)
(* that is in the vocabulary is its own id.  The byte-to-unicode table     *)
(* only makes bytes printable and is left out.                             *)
(***************************************************************************)
EXTENDS Integers, SequencesExt

CONSTANTS
  Bytes,     \* the bytes that occur
  Specials,  \* the special tokens of tokenizer.json, each atomic in a text
  Merges     \* the merges by rank: pairs of symbols

\* A table as training produces it: a merge joins what bytes and earlier
\* merges made, into a symbol that no other merge makes.
ASSUME MergesAssumption ==
  /\ Bytes \cap Specials = {}
  /\ \A s \in Specials : s \notin Seq(Bytes)
  /\ Merges \in Seq(Seq(Seq(Bytes)))
  /\ \A r \in DOMAIN Merges : Len(Merges[r]) = 2
  /\ \A r \in DOMAIN Merges : \A part \in {1, 2} :
       \/ \E b \in Bytes : Merges[r][part] = <<b>>
       \/ \E e \in 1 .. r - 1 : Merges[r][part] = Merges[e][1] \o Merges[e][2]
  /\ \A r, e \in DOMAIN Merges :
       Merges[r][1] \o Merges[r][2] = Merges[e][1] \o Merges[e][2] => r = e

\* The ranks of the pairs of neighbours in a word that can be merged.
Candidates(word) ==
  {r \in DOMAIN Merges :
     \E i \in 1 .. Len(word) - 1 : Merges[r] = <<word[i], word[i + 1]>>}

\* Mutant of Best: the highest rank first.
BestLast(word) == CHOOSE r \in Candidates(word) : \A e \in Candidates(word) : e <= r

Best(word) == CHOOSE r \in Candidates(word) : \A e \in Candidates(word) : r <= e

\* Mutant of MergePair: the scan goes on with the symbol it has just merged.
MergePairOverlap(word, r) ==
  LET left == Merges[r][1]
      right == Merges[r][2]
  IN FlattenSeq([i \in DOMAIN word |->
       IF i < Len(word) /\ word[i] = left /\ word[i + 1] = right
       THEN <<left \o right>>
       ELSE <<word[i]>>])

\* The scan of _bpe(): what it has put out when it has gone over the first n
\* symbols.  A pair of rank r becomes one symbol.  (What was put out last is the
\* symbol before, or a longer one that was merged and is not the left part.)
Scan(word, r) ==
  LET left == Merges[r][1]
      right == Merges[r][2]
      out[n \in 0 .. Len(word)] ==
        IF n = 0 THEN <<>>
        ELSE LET past == out[n - 1] IN
             IF word[n] = right /\ past # <<>> /\ Last(past) = left
             THEN Append(Front(past), left \o right)
             ELSE Append(past, word[n])
  IN out

MergePair(word, r) == Scan(word, r)[Len(word)]

\* The sequence without the elements that are in S.
Without(seq, S) ==
  LET kept[n \in 0 .. Len(seq)] ==
        IF n = 0 THEN <<>>
        ELSE IF seq[n] \in S THEN kept[n - 1] ELSE Append(kept[n - 1], seq[n])
  IN kept[Len(seq)]

\* _split_on_specials(): a special token ends a piece and begins another, and
\* is lost, as are empty pieces.
Pieces(text) ==
  LET cut[n \in 0 .. Len(text)] ==
        IF n = 0 THEN << <<>> >>
        ELSE LET past == cut[n - 1] IN
             IF text[n] \in Specials THEN Append(past, <<>>)
             ELSE Append(Front(past), Append(Last(past), text[n]))
  IN Without(cut[Len(text)], {<<>>})

\* The symbols _bpe() starts from.
Symbols(piece) == [i \in DOMAIN piece |-> <<piece[i]>>]

\* decode(): the bytes of the tokens.  Special tokens are not in the
\* vocabulary that ids are looked up in, and are skipped.
Decode(ids) == FlattenSeq(Without(ids, Specials))

--------------------------------------------------------------------------------
(* The reference.                                                          *)

\* One pass over the merges in the order of their ranks, up to rank k.
Passes(piece) ==
  LET pass[k \in 0 .. Len(Merges)] ==
        IF k = 0 THEN Symbols(piece) ELSE MergePair(pass[k - 1], k)
  IN pass

RankOrder(piece) == Passes(piece)[Len(Merges)]

\* The bytes of a text without its special tokens.
Plain(text) == Without(text, Specials)
================================================================================
