-------------------------------- MODULE KVCache --------------------------------
(***************************************************************************)
(* kv_cache.py: the rows of one layer, in an array that grows.  The arrays *)
(* for keys and for values go through the same steps and are one here.     *)
(***************************************************************************)
EXTENDS Integers, Sequences

CONSTANTS
  Grain,    \* the least capacity of an array: 64
  Garbage   \* what np.empty() leaves in a row

ASSUME GrainAssumption == Grain \in Nat \ {0}

NewLayer == [rows |-> <<>>, size |-> 0]

\* Mutant of Ensure: the rows are not copied.
EnsureEmpty(rows, needed) ==
  IF needed <= Len(rows) THEN rows
  ELSE [i \in 1 .. IF Grain > 2 * needed THEN Grain ELSE 2 * needed |-> Garbage]

\* _ensure(): an array with at least the rows needed, and what was in it.
Ensure(rows, needed) ==
  IF needed <= Len(rows) THEN rows
  ELSE [i \in 1 .. IF Grain > 2 * needed THEN Grain ELSE 2 * needed |->
          IF i <= Len(rows) THEN rows[i] ELSE Garbage]

\* LayerKV.append()
AppendRows(layer, new) ==
  LET needed == layer.size + Len(new)
      grown == Ensure(layer.rows, needed)
  IN [rows |-> [i \in DOMAIN grown |->
                  IF i \in layer.size + 1 .. needed THEN new[i - layer.size] ELSE grown[i]],
      size |-> needed]

\* LayerKV.get()
Rows(layer) == SubSeq(layer.rows, 1, layer.size)
================================================================================
