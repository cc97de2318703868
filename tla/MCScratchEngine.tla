---------------------------- MODULE MCScratchEngine ----------------------------
(* A small instance of ScratchEngine for TLC.                              *)
EXTENDS ScratchEngine

CONSTANTS a, b, Role

\* Role is a special token that is neither the start nor the end of a message.
MCBytes == {a, b}

\* Any token may be sampled; merged ones make no difference to what follows.
MCVocabulary == {<<a>>, <<b>>, Eos}

MCSpecials == {ImStart, ImEnd, Role}

\* Pairs that overlap, pairs of merged symbols, and a later merge that an
\* earlier one takes its left part from.
MCMerges ==
  << <<<<b>>, <<b>>>>, <<<<a>>, <<b>>>>, <<<<a, b>>, <<a, b>>>>,
     <<<<a>>, <<a, b>>>>, <<<<b, b>>, <<a>>>>, <<<<a>>, <<a>>>> >>

MCTexts == UNION {[1 .. n -> {a, b, Role}] : n \in 0 .. 4}

Opener == <<ImStart, a>>

\* One message and the opener, or the opener alone.
MCPrompts ==
  {<<Opener>>} \cup {<<<<ImStart>> \o text \o <<ImEnd>>, Opener>> : text \in MCTexts}
================================================================================
