----------------------------- MODULE DecodingProofs -----------------------------
(***************************************************************************)
(* Proofs about KVCache and Decoding for any prompt, vocabulary, number of *)
(* layers, context and budget, and whatever np.empty() leaves in the rows. *)
(*                                                                         *)
(* Section 1 unfolds the reference computation, a recursion over layers,   *)
(* and shows that what it says of a position depends on no later token.    *)
(* Section 2 is about the growing array.  Section 3 has the invariant: at  *)
(* any time the rows of each layer are those of the reference.             *)
(***************************************************************************)
EXTENDS Decoding, WellFoundedInduction, TLAPS

--------------------------------------------------------------------------------
(* 1. The reference.                                                       *)

LEMMA NatMin ==
  ASSUME NEW T, T \subseteq Nat, T # {}
  PROVE  \E m \in T : \A k \in T : m <= k
<1> DEFINE R == {p \in Nat \X Nat : p[1] < p[2]}
<1>1. OpToRel(<, Nat) = R
  BY DEF OpToRel
<1>2. IsWellFoundedOn(R, Nat)
  BY <1>1, NatLessThanWellFounded
<1>3. PICK m \in T : \A k \in T : ~(<<k, m>> \in R)
  BY <1>2, WFMin
<1>4. \A k \in T : m <= k
  <2> TAKE k \in T
  <2>1. k \in Nat /\ m \in Nat /\ ~(<<k, m>> \in R)
    BY <1>3
  <2>2. ~(k < m)
    BY <2>1
  <2> QED BY <2>1, <2>2
<1> QED
  BY <1>4

\* The states of all positions after layer l, from those after the layers below.
Level(s, g, l) == [p \in DOMAIN s |-> Attend(s, g, l, p)]

LEMMA LevelDepends ==
  ASSUME NEW s, NEW g, NEW h, NEW l \in Nat, l > 0 => g[l - 1] = h[l - 1]
  PROVE  Level(s, g, l) = Level(s, h, l)
<1>1. CASE l = 0
  BY <1>1 DEF Level, Attend
<1>2. CASE l > 0
  <2> DEFINE e == g[l - 1]
  <2>1. e = g[l - 1] /\ e = h[l - 1] /\ l # 0
    BY <1>2
  <2> HIDE DEF e
  <2>2. \A p : Attend(s, g, l, p) =
          [of |-> e[p], saw |-> [q \in 1 .. p |-> [pos |-> q - 1, of |-> e[q]]]]
    BY <2>1 DEF Attend
  <2>3. \A p : Attend(s, h, l, p) =
          [of |-> e[p], saw |-> [q \in 1 .. p |-> [pos |-> q - 1, of |-> e[q]]]]
    BY <2>1 DEF Attend
  <2>4. \A p \in DOMAIN s : Attend(s, g, l, p) = Attend(s, h, l, p)
    BY <2>2, <2>3
  <2> QED BY <2>4 DEF Level
<1> QED
  BY <1>1, <1>2

LEMMA ReferenceExists ==
  ASSUME NEW s
  PROVE  \E g : g = [l \in 0 .. Layers |-> Level(s, g, l)]
<1> DEFINE Solved(n) == \E g : g = [l \in 0 .. n |-> Level(s, g, l)]
           Bad == {n \in Nat : ~Solved(n)}
<1>1. SUFFICES ASSUME Bad # {} PROVE FALSE
  BY DecodingAssumption
<1>2. PICK m \in Bad : \A k \in Bad : m <= k
  BY <1>1, NatMin
<1>3. m \in Nat /\ ~Solved(m)
  BY <1>2
<1>4. CASE m = 0
  <2> DEFINE h == [l \in 0 .. 0 |-> Level(s, <<>>, 0)]
  <2>1. Level(s, h, 0) = Level(s, <<>>, 0)
    BY LevelDepends
  <2>2. h = [l \in 0 .. 0 |-> Level(s, h, l)]
    BY <2>1
  <2> QED BY <1>3, <1>4, <2>2
<1>5. CASE m # 0
  <2>1. m - 1 \in Nat /\ m - 1 \notin Bad
    BY <1>2, <1>3, <1>5
  <2>2. PICK g : g = [l \in 0 .. m - 1 |-> Level(s, g, l)]
    BY <2>1
  <2> DEFINE h == [l \in 0 .. m |-> IF l < m THEN g[l] ELSE Level(s, g, m)]
  <2>3. \A l \in 0 .. m - 1 : h[l] = g[l] /\ g[l] = Level(s, g, l)
    BY <1>3, <2>2
  <2>4. \A l \in 0 .. m : Level(s, h, l) = Level(s, g, l)
    <3> TAKE l \in 0 .. m
    <3>1. l > 0 => h[l - 1] = g[l - 1]
      BY <1>3, <2>3
    <3> HIDE DEF h
    <3> QED BY <1>3, <3>1, LevelDepends
  <2>5. \A l \in 0 .. m : h[l] = Level(s, h, l)
    BY <1>3, <2>3, <2>4
  <2>6. h = [l \in 0 .. m |-> Level(s, h, l)]
    BY <2>5
  <2> QED BY <1>3, <2>6
<1> QED
  BY <1>4, <1>5

LEMMA ReferenceIs ==
  ASSUME NEW s
  PROVE  Reference(s) = [l \in 0 .. Layers |-> Level(s, Reference(s), l)]
<1>1. \E g : g = [l \in 0 .. Layers |-> Level(s, g, l)]
  BY ReferenceExists
<1>2. Reference(s) = CHOOSE g : g = [l \in 0 .. Layers |-> Level(s, g, l)]
  BY DEF Reference, Level
<1> QED
  BY <1>1, <1>2

\* The state of position p after layer l, from the states after layer l - 1.
After(s, l, p) ==
  [of |-> Reference(s)[l - 1][p],
   saw |-> [q \in 1 .. p |-> [pos |-> q - 1, of |-> Reference(s)[l - 1][q]]]]

LEMMA ReferenceAt ==
  ASSUME NEW s, NEW p \in DOMAIN s
  PROVE  /\ Reference(s)[0][p] = s[p]
         /\ \A l \in 1 .. Layers : Reference(s)[l][p] = After(s, l, p)
<1> DEFINE g == Reference(s)
<1>1. \A l \in 0 .. Layers : g[l] = Level(s, g, l)
  BY ReferenceIs
<1> HIDE DEF g
<1>2. \A l \in 0 .. Layers : g[l][p] = Attend(s, g, l, p)
  BY <1>1 DEF Level
<1>3. 0 \in 0 .. Layers
  BY DecodingAssumption
<1>4. g[0][p] = s[p]
  BY <1>2, <1>3 DEF Attend
<1>5. \A l \in 1 .. Layers : g[l][p] =
        [of |-> g[l - 1][p], saw |-> [q \in 1 .. p |-> [pos |-> q - 1, of |-> g[l - 1][q]]]]
  BY <1>2, DecodingAssumption DEF Attend
<1> QED
  BY <1>4, <1>5 DEF g, After

\* No layer looks ahead: a longer text has the same states at the same positions.
LEMMA ReferenceCausal ==
  ASSUME NEW T, NEW s \in Seq(T), NEW t \in T
  PROVE  \A l \in 0 .. Layers, p \in 1 .. Len(s) :
           Reference(Append(s, t))[l][p] = Reference(s)[l][p]
<1> DEFINE u == Append(s, t)
           Same(l) == \A p \in 1 .. Len(s) : Reference(u)[l][p] = Reference(s)[l][p]
           Bad == {l \in 0 .. Layers : ~Same(l)}
<1>1. SUFFICES ASSUME Bad # {} PROVE FALSE
  OBVIOUS
<1>2. Bad \subseteq Nat
  BY DecodingAssumption
<1>3. PICK m \in Bad : \A k \in Bad : m <= k
  BY <1>1, <1>2, NatMin
<1>4. /\ DOMAIN s = 1 .. Len(s) /\ DOMAIN u = 1 .. Len(s) + 1 /\ Len(s) \in Nat
      /\ \A p \in 1 .. Len(s) : p \in DOMAIN s /\ p \in DOMAIN u /\ u[p] = s[p]
  OBVIOUS
<1> HIDE DEF u
<1>5. m \in 0 .. Layers /\ ~Same(m)
  BY <1>3
<1>6. CASE m = 0
  <2>1. \A p \in 1 .. Len(s) : Reference(u)[0][p] = u[p] /\ Reference(s)[0][p] = s[p]
    BY <1>4, ReferenceAt
  <2> QED BY <1>4, <1>5, <1>6, <2>1
<1>7. CASE m # 0
  <2>1. m \in 1 .. Layers /\ m - 1 \in 0 .. Layers /\ m - 1 \notin Bad
    BY <1>3, <1>5, <1>7, DecodingAssumption
  <2>2. Same(m - 1)
    BY <2>1
  <2>3. ASSUME NEW p \in 1 .. Len(s) PROVE Reference(u)[m][p] = Reference(s)[m][p]
    <3>1. Reference(u)[m][p] = After(u, m, p)
      <4>1. p \in DOMAIN u
        BY <1>4
      <4>2. \A l \in 1 .. Layers : Reference(u)[l][p] = After(u, l, p)
        BY <4>1, ReferenceAt
      <4> QED BY <2>1, <4>2
    <3>2. Reference(s)[m][p] = After(s, m, p)
      <4>1. p \in DOMAIN s
        BY <1>4
      <4>2. \A l \in 1 .. Layers : Reference(s)[l][p] = After(s, l, p)
        BY <4>1, ReferenceAt
      <4> QED BY <2>1, <4>2
    <3>3. \A q \in 1 .. p : Reference(u)[m - 1][q] = Reference(s)[m - 1][q]
      BY <1>4, <2>2
    <3>4. [q \in 1 .. p |-> [pos |-> q - 1, of |-> Reference(u)[m - 1][q]]]
          = [q \in 1 .. p |-> [pos |-> q - 1, of |-> Reference(s)[m - 1][q]]]
      BY <3>3
    <3>5. Reference(u)[m - 1][p] = Reference(s)[m - 1][p]
      BY <2>2
    <3>6. After(u, m, p) = After(s, m, p)
      BY <3>4, <3>5 DEF After
    <3> QED BY <3>1, <3>2, <3>6
  <2> QED BY <1>5, <2>3
<1> QED
  BY <1>6, <1>7

--------------------------------------------------------------------------------
(* 2. The growing array.                                                   *)

\* A sequence, of whatever elements.
IsList(f) == f \in Seq({f[i] : i \in DOMAIN f})

LEMMA ListFacts ==
  ASSUME NEW f, IsList(f)
  PROVE  /\ Len(f) \in Nat
         /\ DOMAIN f = 1 .. Len(f)
         /\ f = [i \in 1 .. Len(f) |-> f[i]]
BY DEF IsList

LEMMA ListOf ==
  ASSUME NEW n \in Nat, NEW f, f = [i \in 1 .. n |-> f[i]]
  PROVE  IsList(f) /\ Len(f) = n /\ DOMAIN f = 1 .. n
BY DEF IsList

LEMMA EnsureKeeps ==
  ASSUME NEW rows, IsList(rows), NEW needed \in Nat
  PROVE  /\ IsList(Ensure(rows, needed))
         /\ needed <= Len(Ensure(rows, needed))
         /\ \A i \in 1 .. Len(rows) : Ensure(rows, needed)[i] = rows[i]
         /\ Len(rows) <= Len(Ensure(rows, needed))
<1>1. Len(rows) \in Nat
  BY ListFacts
<1>2. CASE needed <= Len(rows)
  BY <1>1, <1>2 DEF Ensure
<1>3. CASE ~(needed <= Len(rows))
  <2> DEFINE n == IF Grain > 2 * needed THEN Grain ELSE 2 * needed
             e == Ensure(rows, needed)
  <2>1. n \in Nat /\ needed <= n /\ Len(rows) <= n
    BY <1>1, <1>3, GrainAssumption
  <2>2. e = [i \in 1 .. n |-> IF i <= Len(rows) THEN rows[i] ELSE Garbage]
    BY <1>3 DEF Ensure
  <2> HIDE DEF n, e
  <2>3. e = [i \in 1 .. n |-> e[i]]
    BY <2>2
  <2>4. IsList(e) /\ Len(e) = n
    BY <2>1, <2>3, ListOf
  <2>5. \A i \in 1 .. Len(rows) : e[i] = rows[i]
    BY <1>1, <2>1, <2>2
  <2> QED BY <2>1, <2>4, <2>5 DEF e
<1> QED
  BY <1>2, <1>3

\* The layer d is c with the rows new after its own, and a place for each.
Extended(d, c, new) ==
  /\ IsList(d.rows)
  /\ d.size = c.size + Len(new)
  /\ d.size <= Len(d.rows)
  /\ \A i \in 1 .. c.size : d.rows[i] = c.rows[i]
  /\ \A i \in 1 .. Len(new) : d.rows[c.size + i] = new[i]

\* append() does just that.
LEMMA AppendKeeps ==
  ASSUME NEW c, NEW new, IsList(c.rows), IsList(new), c.size \in 0 .. Len(c.rows)
  PROVE  Extended(AppendRows(c, new), c, new)
<1> DEFINE needed == c.size + Len(new)
           grown == Ensure(c.rows, needed)
           full == AppendRows(c, new)
<1>1. Len(new) \in Nat /\ Len(c.rows) \in Nat /\ c.size \in Nat /\ needed \in Nat
  BY ListFacts
<1>2. /\ IsList(grown) /\ needed <= Len(grown)
      /\ \A i \in 1 .. Len(c.rows) : grown[i] = c.rows[i]
  BY <1>1, EnsureKeeps
<1>3. Len(grown) \in Nat /\ DOMAIN grown = 1 .. Len(grown)
  BY <1>2, ListFacts
<1>4. /\ full.size = needed
      /\ full.rows = [i \in 1 .. Len(grown) |->
                       IF i \in c.size + 1 .. needed THEN new[i - c.size] ELSE grown[i]]
  BY <1>3 DEF AppendRows
<1>5. needed = c.size + Len(new)
  OBVIOUS
<1> HIDE DEF grown, full, needed
<1>6. full.rows = [i \in 1 .. Len(grown) |-> full.rows[i]]
  BY <1>4
<1>7. IsList(full.rows) /\ Len(full.rows) = Len(grown)
  BY <1>3, <1>6, ListOf
<1>8. \A i \in 1 .. c.size : full.rows[i] = c.rows[i]
  BY <1>1, <1>2, <1>3, <1>4, <1>5
<1>9. \A i \in 1 .. Len(new) : full.rows[c.size + i] = new[i]
  <2> TAKE i \in 1 .. Len(new)
  <2>1. /\ c.size + i \in c.size + 1 .. needed /\ c.size + i \in 1 .. Len(grown)
        /\ (c.size + i) - c.size = i
    BY <1>1, <1>2, <1>3, <1>5
  <2> QED BY <1>4, <2>1
<1> QED
  BY <1>2, <1>4, <1>5, <1>7, <1>8, <1>9 DEF full, Extended

\* What a query that may see the first v rows attends to.
LEMMA SeenRows ==
  ASSUME NEW c, IsList(c.rows), c.size \in 0 .. Len(c.rows), NEW v \in 0 .. c.size
  PROVE  SubSeq(Rows(c), 1, v) = [q \in 1 .. v |-> c.rows[q]]
<1>1. Len(c.rows) \in Nat /\ c.size \in Nat /\ v \in Nat
  BY ListFacts
<1>2. Rows(c) = [q \in 1 .. c.size |-> c.rows[q]]
  BY <1>1 DEF Rows, IsList
<1> DEFINE r == Rows(c)
<1>3. r = [q \in 1 .. c.size |-> r[q]]
  BY <1>2
<1> HIDE DEF r
<1>4. IsList(r) /\ Len(r) = c.size
  BY <1>1, <1>3, ListOf
<1>5. SubSeq(r, 1, v) = [q \in 1 .. v |-> r[q]]
  BY <1>1, <1>4 DEF IsList
<1>6. [q \in 1 .. v |-> r[q]] = [q \in 1 .. v |-> c.rows[q]]
  BY <1>1, <1>2 DEF r
<1> QED
  BY <1>5, <1>6 DEF r

--------------------------------------------------------------------------------
(* 3. The invariant.                                                       *)

\* The cache of layer l holds n rows, those of the reference.
Filled(l, n) ==
  /\ IsList(cache[l].rows)
  /\ cache[l].size = n
  /\ n \in 0 .. Len(cache[l].rows)
  /\ \A q \in 1 .. n :
       cache[l].rows[q] = [pos |-> q - 1, of |-> Reference(ids)[l - 1][q]]

DTypes(T) ==
  /\ ids \in Seq(T) /\ Len(ids) >= 1
  /\ cache = [l \in 1 .. Layers |-> cache[l]]
  /\ DecodeTypeOK

\* Before the first pass the cache is empty.
DEmpty == phase = "encode" => \A l \in 1 .. Layers : Filled(l, 0)

\* During and after a pass its positions are the last of the text, the layers
\* it went through have the rows of the whole text and the others those of the
\* text before it, and its hidden states are those of the reference.
DPass ==
  phase \in {"forward", "sample"} =>
    /\ IsList(x) /\ Len(x) >= 1
    /\ offset + Len(x) = Len(ids)
    /\ \A l \in 1 .. Layers : Filled(l, IF l < layer THEN Len(ids) ELSE offset)
    /\ \A i \in 1 .. Len(x) : x[i] = Reference(ids)[layer - 1][offset + i]

DEnds ==
  /\ phase = "forward" => layer <= Layers
  /\ phase = "sample" => layer = Layers + 1
  /\ FailsAtContext

DInv(T) == DTypes(T) /\ DEmpty /\ DPass /\ DEnds

LEMMA DInvInit ==
  ASSUME NEW T, NEW input \in Seq(T), input # <<>>, ids = input, ModelInit
  PROVE  DInv(T)
<1>1. Len(ids) \in Nat /\ Len(ids) >= 1 /\ ids \in Seq(T)
  OBVIOUS
<1>2. DTypes(T)
  BY <1>1, DecodingAssumption DEF DTypes, DecodeTypeOK, ModelInit
<1>3. \A l \in 1 .. Layers : cache[l].rows = <<>> /\ cache[l].size = 0
  BY DEF ModelInit, NewLayer
<1>4. IsList(<<>>) /\ Len(<<>>) = 0
  BY DEF IsList
<1>5. DEmpty
  BY <1>3, <1>4 DEF DEmpty, Filled
<1> QED
  BY <1>2, <1>5, DecodingAssumption DEF DInv, DPass, DEnds, FailsAtContext, ModelInit

LEMMA PrefillKeeps ==
  ASSUME NEW T, DInv(T), Prefill
  PROVE  DInv(T)'
<1> USE DEF Prefill
<1>1. /\ ids \in Seq(T) /\ Len(ids) \in Nat /\ Len(ids) >= 1
      /\ ids' = ids /\ cache' = cache /\ born' = Len(ids)
      /\ layer' = 1 /\ offset' = 0 /\ phase' = "forward"
      /\ x' = SubSeq(ids, Len(ids) - Len(ids) + 1, Len(ids))
  BY DEF DInv, DTypes, Forward
<1>2. x' = [i \in 1 .. Len(ids) |-> ids[i]]
  BY <1>1
<1>3. x' = [i \in 1 .. Len(ids) |-> x'[i]]
  BY <1>2
<1>4. IsList(x') /\ Len(x') = Len(ids)
  BY <1>1, <1>3, ListOf
<1>5. DTypes(T)'
  BY <1>1, DecodingAssumption DEF DInv, DTypes, DecodeTypeOK
<1>6. \A l \in 1 .. Layers : Filled(l, 0)'
  BY <1>1 DEF DInv, DEmpty, Filled
<1>7. \A i \in 1 .. Len(ids) : x'[i] = Reference(ids)[0][i]
  <2> TAKE i \in 1 .. Len(ids)
  <2>1. i \in DOMAIN ids
    BY <1>1
  <2>2. Reference(ids)[0][i] = ids[i]
    BY <2>1, ReferenceAt
  <2> QED BY <1>2, <2>2
<1>8. DPass'
  <2>1. \A i \in 1 .. Len(x') : x'[i] = Reference(ids')[layer' - 1][offset' + i]
    <3>1. layer' - 1 = 0 /\ \A i \in 1 .. Len(x') : offset' + i = i
      BY <1>1, <1>4
    <3> QED BY <1>1, <1>4, <1>7, <3>1
  <2>2. \A l \in 1 .. Layers : Filled(l, IF l < layer THEN Len(ids) ELSE offset)'
    BY <1>1, <1>6 DEF Filled
  <2> QED BY <1>1, <1>4, <2>1, <2>2 DEF DPass
<1> QED
  BY <1>1, <1>5, <1>8, DecodingAssumption DEF DInv, DEmpty, DEnds, FailsAtContext

\* One layer: the rows of the pass are appended, and every position attends to
\* the rows up to its own.
LEMMA LayerKeeps ==
  ASSUME NEW T, DInv(T), Layer
  PROVE  DInv(T)'
<1> DEFINE n == Len(ids)
           full == AppendRows(cache[layer], NewRows)
<1>1. /\ phase = "forward" /\ Rotary /\ layer \in 1 .. Layers
      /\ ids \in Seq(T) /\ n \in Nat /\ n >= 1
      /\ cache = [l \in 1 .. Layers |-> cache[l]]
      /\ offset \in 0 .. n /\ IsList(x) /\ Len(x) >= 1 /\ offset + Len(x) = n
      /\ \A l \in 1 .. Layers : Filled(l, IF l < layer THEN n ELSE offset)
      /\ \A i \in 1 .. Len(x) : x[i] = Reference(ids)[layer - 1][offset + i]
  BY DecodingAssumption DEF Layer, DInv, DTypes, DecodeTypeOK, DPass, DEnds
<1>2. /\ cache' = [cache EXCEPT ![layer] = full]
      /\ x' = [i \in DOMAIN x |-> [of |-> x[i], saw |-> SubSeq(Rows(full), 1, Visible(i))]]
      /\ layer' = layer + 1
      /\ phase' = IF layer = Layers THEN "sample" ELSE "forward"
      /\ UNCHANGED <<ids, born, offset>>
  BY DEF Layer
<1>3. Len(x) \in Nat /\ DOMAIN x = 1 .. Len(x)
  BY <1>1, ListFacts
<1>4. /\ IsList(NewRows) /\ Len(NewRows) = Len(x)
      /\ \A i \in 1 .. Len(x) : NewRows[i] = [pos |-> offset + i - 1, of |-> x[i]]
  <2>1. NewRows = [i \in 1 .. Len(x) |-> [pos |-> offset + i - 1, of |-> x[i]]]
    BY <1>3 DEF NewRows
  <2> DEFINE r == NewRows
  <2> HIDE DEF r
  <2>2. r = [i \in 1 .. Len(x) |-> r[i]]
    BY <2>1 DEF r
  <2>3. IsList(r) /\ Len(r) = Len(x)
    BY <1>3, <2>2, ListOf
  <2> QED BY <2>1, <2>3 DEF r
<1>5. Filled(layer, offset)
  BY <1>1
<1>6. /\ IsList(full.rows) /\ full.size = n /\ n <= Len(full.rows)
      /\ \A i \in 1 .. offset : full.rows[i] = cache[layer].rows[i]
      /\ \A i \in 1 .. Len(x) : full.rows[offset + i] = NewRows[i]
  <2>1. /\ IsList(cache[layer].rows) /\ cache[layer].size = offset
        /\ cache[layer].size \in 0 .. Len(cache[layer].rows)
    BY <1>5 DEF Filled
  <2>2. Extended(full, cache[layer], NewRows)
    BY <1>4, <2>1, AppendKeeps
  <2> HIDE DEF full
  <2> QED BY <1>1, <1>4, <2>1, <2>2 DEF Extended
<1> HIDE DEF full
<1>7. \A q \in 1 .. n : full.rows[q] = [pos |-> q - 1, of |-> Reference(ids)[layer - 1][q]]
  <2> TAKE q \in 1 .. n
  <2>1. CASE q <= offset
    <3>1. q \in 1 .. offset
      BY <1>1, <2>1
    <3>2. cache[layer].rows[q] = [pos |-> q - 1, of |-> Reference(ids)[layer - 1][q]]
      BY <1>5, <3>1 DEF Filled
    <3> QED BY <1>6, <3>1, <3>2
  <2>2. CASE q > offset
    <3>1. /\ q - offset \in 1 .. Len(x) /\ offset + (q - offset) = q
          /\ offset + (q - offset) - 1 = q - 1
      BY <1>1, <1>3, <2>2
    <3>2. full.rows[q] = NewRows[q - offset]
      BY <1>6, <3>1
    <3>3. NewRows[q - offset] = [pos |-> q - 1, of |-> x[q - offset]]
      BY <1>4, <3>1
    <3>4. x[q - offset] = Reference(ids)[layer - 1][q]
      BY <1>1, <3>1
    <3> QED BY <3>2, <3>3, <3>4
  <2> QED BY <1>1, <2>1, <2>2
<1>8. \A l \in 1 .. Layers : l = layer => Filled(l, n)'
  <2> SUFFICES ASSUME NEW l \in 1 .. Layers, l = layer PROVE Filled(l, n)'
    OBVIOUS
  <2>1. cache'[l] = full /\ ids' = ids
    BY <1>1, <1>2
  <2>2. Len(full.rows) \in Nat
    BY <1>6, ListFacts
  <2> QED BY <1>1, <1>6, <1>7, <2>1, <2>2 DEF Filled
<1>9. \A l \in 1 .. Layers : Filled(l, IF l < layer THEN n ELSE offset)'
  <2> TAKE l \in 1 .. Layers
  <2>1. CASE l = layer
    <3>1. Filled(l, n)' /\ l < layer'
      BY <1>1, <1>2, <1>8, <2>1
    <3> QED BY <3>1 DEF Filled
  <2>2. CASE l # layer
    <3>1. cache'[l] = cache[l]
      BY <1>1, <1>2, <2>2
    <3>2. Filled(l, IF l < layer THEN n ELSE offset)
      BY <1>1
    <3>3. (l < layer) <=> (l < layer')
      BY <1>1, <1>2, <2>2
    <3> QED BY <1>2, <3>1, <3>2, <3>3 DEF Filled
  <2> QED BY <2>1, <2>2
<1>10. \A i \in 1 .. Len(x) : x'[i] = Reference(ids)[layer][offset + i]
  <2> TAKE i \in 1 .. Len(x)
  <2> DEFINE p == offset + i
  <2>1. p \in 1 .. n /\ p \in DOMAIN ids
    BY <1>1, <1>3
  <2>2. x'[i] = [of |-> x[i], saw |-> SubSeq(Rows(full), 1, p)]
    BY <1>2, <1>3 DEF Visible
  <2>3. x[i] = Reference(ids)[layer - 1][p]
    BY <1>1
  <2>4. Reference(ids)[layer][p] = After(ids, layer, p)
    <3>1. \A l \in 1 .. Layers : Reference(ids)[l][p] = After(ids, l, p)
      BY <2>1, ReferenceAt
    <3> QED BY <1>1, <3>1
  <2> HIDE DEF p
  <2>5. SubSeq(Rows(full), 1, p) = [q \in 1 .. p |-> full.rows[q]]
    <3>1. full.size \in 0 .. Len(full.rows) /\ p \in 0 .. full.size
      BY <1>1, <1>6, <2>1, ListFacts
    <3> QED BY <1>6, <3>1, SeenRows
  <2>6. [q \in 1 .. p |-> full.rows[q]]
        = [q \in 1 .. p |-> [pos |-> q - 1, of |-> Reference(ids)[layer - 1][q]]]
    BY <1>1, <1>7, <2>1
  <2>7. x'[i] = After(ids, layer, p)
    BY <2>2, <2>3, <2>5, <2>6 DEF After
  <2> QED BY <2>4, <2>7 DEF p
<1>11. DPass'
  <2>1. x' = [i \in 1 .. Len(x) |-> x'[i]]
    BY <1>2, <1>3
  <2>2. IsList(x') /\ Len(x') = Len(x)
    BY <1>3, <2>1, ListOf
  <2>3. layer' - 1 = layer
    BY <1>1, <1>2
  <2>4. \A i \in 1 .. Len(x') : x'[i] = Reference(ids')[layer' - 1][offset' + i]
    BY <1>2, <1>10, <2>2, <2>3
  <2>5. \A l \in 1 .. Layers : Filled(l, IF l < layer THEN Len(ids) ELSE offset)'
    BY <1>2, <1>9 DEF Filled
  <2> QED BY <1>1, <1>2, <2>2, <2>4, <2>5 DEF DPass
<1>12. DTypes(T)'
  <2>1. cache' = [l \in 1 .. Layers |-> cache'[l]] /\ DOMAIN cache' = 1 .. Layers
    BY <1>1, <1>2
  <2>2. layer' \in 1 .. Layers + 1 /\ phase' \in {"forward", "sample"}
    BY <1>1, <1>2, DecodingAssumption
  <2>3. born \in 0 .. n /\ n - born <= MaxNew /\ offset \in 0 .. n
    BY <1>1 DEF DInv, DTypes, DecodeTypeOK
  <2>4. DecodeTypeOK'
    BY <1>2, <2>1, <2>2, <2>3 DEF DecodeTypeOK
  <2> QED BY <1>1, <1>2, <2>1, <2>4 DEF DTypes
<1>13. DEnds'
  BY <1>1, <1>2, DecodingAssumption DEF DEnds, FailsAtContext, Rotary
<1> QED
  BY <1>1, <1>2, <1>11, <1>12, <1>13 DEF DInv, DEmpty

LEMMA EndKeeps ==
  ASSUME NEW T, DInv(T), LayerRaises \/ Stop
  PROVE  DInv(T)'
<1>1. /\ phase' \in {"done", "raised"}
      /\ UNCHANGED <<ids, born, cache, x, layer, offset>>
  BY DEF LayerRaises, Stop
<1>2. DTypes(T)'
  BY <1>1 DEF LayerRaises, Stop, DInv, DTypes, DecodeTypeOK
<1>3. FailsAtContext'
  <2>1. CASE LayerRaises
    <3>1. phase = "forward" /\ phase' = "raised" /\ ids' = ids /\ ~(Len(ids) <= MaxSeq)
      BY <2>1 DEF LayerRaises, Rotary, DInv, DPass
    <3>2. Len(ids) \in Nat
      BY DEF DInv, DTypes
    <3> QED BY <3>1, <3>2, DecodingAssumption DEF FailsAtContext
  <2>2. CASE Stop
    BY <2>2 DEF Stop, DInv, DEnds, FailsAtContext
  <2> QED BY <2>1, <2>2
<1> QED
  BY <1>1, <1>2, <1>3 DEF DInv, DEmpty, DPass, DEnds

LEMMA SampleKeeps ==
  ASSUME NEW T, DInv(T), NEW t \in T, Sample(t)
  PROVE  DInv(T)'
<1> DEFINE n == Len(ids)
<1>1. /\ phase = "sample" /\ n - born < MaxNew /\ born \in 0 .. n
      /\ ids \in Seq(T) /\ n \in Nat /\ n >= 1
      /\ cache = [l \in 1 .. Layers |-> cache[l]] /\ DOMAIN cache = 1 .. Layers
      /\ layer = Layers + 1 /\ offset \in 0 .. n
      /\ \A l \in 1 .. Layers : Filled(l, IF l < layer THEN n ELSE offset)
  BY DEF Sample, MayStep, DInv, DTypes, DecodeTypeOK, DPass, DEnds, FailsAtContext
<1>2. ids' = Append(ids, t) /\ born' = born /\ cache' = cache
  BY DEF Sample
<1>3. /\ ids' \in Seq(T) /\ Len(ids') = n + 1 /\ ids'[n + 1] = t
      /\ \A i \in 1 .. n : ids'[i] = ids[i]
  BY <1>1, <1>2
<1>4. CASE t = Eos
  <2>1. phase' = "done" /\ x' = x /\ layer' = layer /\ offset' = offset
    BY <1>4 DEF Sample
  <2>2. DTypes(T)'
    BY <1>1, <1>2, <1>3, <2>1, DecodingAssumption DEF DTypes, DecodeTypeOK
  <2>3. Last(ids') = Eos
    BY <1>3, <1>4 DEF Last
  <2> QED BY <2>1, <2>2, <2>3 DEF DInv, DEmpty, DPass, DEnds, FailsAtContext
<1>5. CASE t # Eos
  <2>1. /\ phase' = "forward" /\ layer' = 1 /\ offset' = n
        /\ x' = SubSeq(Append(ids, t), Len(Append(ids, t)) - 1 + 1, Len(Append(ids, t)))
    BY <1>5 DEF Sample, Step, Forward
  <2>2. x' = SubSeq(ids', n + 1, n + 1)
    BY <1>1, <1>2, <1>3, <2>1
  <2>3. x' = [i \in 1 .. 1 |-> ids'[n + 1]]
    BY <1>1, <1>3, <2>2
  <2>4. x' = [i \in 1 .. 1 |-> x'[i]]
    BY <2>3
  <2>5. IsList(x') /\ Len(x') = 1
    BY <2>4, ListOf
  <2>6. DTypes(T)'
    BY <1>1, <1>2, <1>3, <2>1, DecodingAssumption DEF DTypes, DecodeTypeOK
  <2>7. \A l \in 1 .. Layers : Filled(l, offset)'
    <3> TAKE l \in 1 .. Layers
    <3>1. Filled(l, n)
      <4>1. l < layer /\ Filled(l, IF l < layer THEN n ELSE offset)
        BY <1>1, DecodingAssumption
      <4> QED BY <4>1
    <3>2. \A q \in 1 .. n : Reference(ids')[l - 1][q] = Reference(ids)[l - 1][q]
      <4>1. l - 1 \in 0 .. Layers
        BY DecodingAssumption
      <4>2. \A k \in 0 .. Layers, q \in 1 .. n :
              Reference(ids')[k][q] = Reference(ids)[k][q]
        <5>1. \A k \in 0 .. Layers, q \in 1 .. Len(ids) :
                Reference(Append(ids, t))[k][q] = Reference(ids)[k][q]
          BY <1>1, ReferenceCausal
        <5> QED BY <1>2, <5>1
      <4> QED BY <4>1, <4>2
    <3> QED BY <1>1, <1>2, <2>1, <3>1, <3>2 DEF Filled
  <2>8. \A l \in 1 .. Layers : Filled(l, IF l < layer THEN Len(ids) ELSE offset)'
    <3> TAKE l \in 1 .. Layers
    <3>1. Filled(l, offset)' /\ ~(l < layer')
      BY <2>1, <2>7
    <3> QED BY <3>1 DEF Filled
  <2>9. \A i \in 1 .. Len(x') : x'[i] = Reference(ids')[layer' - 1][offset' + i]
    <3>1. n + 1 \in DOMAIN ids'
      BY <1>1, <1>3
    <3>2. Reference(ids')[0][n + 1] = ids'[n + 1]
      BY <3>1, ReferenceAt
    <3>3. x'[1] = ids'[n + 1] /\ offset' + 1 = n + 1 /\ layer' - 1 = 0
      BY <2>1, <2>3
    <3> QED BY <2>5, <3>2, <3>3
  <2>10. DPass'
    BY <1>1, <1>3, <2>1, <2>5, <2>8, <2>9 DEF DPass
  <2> QED BY <2>1, <2>6, <2>10, DecodingAssumption DEF DInv, DEmpty, DEnds, FailsAtContext
<1> QED
  BY <1>4, <1>5

LEMMA DInvStep ==
  ASSUME NEW T, Vocabulary \subseteq T, DInv(T), [DecodeNext]_decodeVars
  PROVE  DInv(T)'
<1>1. CASE UNCHANGED decodeVars
  <2>1. UNCHANGED <<ids, born, cache, x, layer, offset, phase>>
    BY <1>1 DEF decodeVars, modelVars
  <2> QED BY <2>1 DEF DInv, DTypes, DecodeTypeOK, DEmpty, DPass, DEnds, FailsAtContext, Filled
<1>2. CASE Prefill
  BY <1>2, PrefillKeeps
<1>3. CASE Layer
  BY <1>3, LayerKeeps
<1>4. CASE LayerRaises \/ Stop
  BY <1>4, EndKeeps
<1>5. ASSUME NEW t \in Vocabulary, Sample(t) PROVE DInv(T)'
  BY <1>5, SampleKeeps
<1> QED
  BY <1>1, <1>2, <1>3, <1>4, <1>5 DEF DecodeNext, Pass

\* The next token is sampled from the state that the reference has last.
LEMMA DInvSampled ==
  ASSUME NEW T, DInv(T)
  PROVE  CacheTransparent
<1> SUFFICES ASSUME phase = "sample"
             PROVE  Last(x) = Reference(ids)[Layers][Len(ids)]
  BY DEF CacheTransparent
<1>1. /\ IsList(x) /\ Len(x) >= 1 /\ offset + Len(x) = Len(ids) /\ layer = Layers + 1
      /\ \A i \in 1 .. Len(x) : x[i] = Reference(ids)[layer - 1][offset + i]
  BY DEF DInv, DPass, DEnds
<1>2. Len(x) \in 1 .. Len(x) /\ layer - 1 = Layers
  BY <1>1, ListFacts, DecodingAssumption
<1> QED
  BY <1>1, <1>2 DEF Last

LEMMA DInvAlways ==
  ASSUME NEW CONSTANT T, Vocabulary \subseteq T,
         NEW CONSTANT input \in Seq(T), input # <<>>
  PROVE  DecodeSpec(input) => []DInv(T)
<1>1. ids = input /\ ModelInit => DInv(T)
  BY DInvInit
<1>2. DInv(T) /\ [DecodeNext]_decodeVars => DInv(T)'
  BY DInvStep
<1> QED
  BY <1>1, <1>2, PTL DEF DecodeSpec

--------------------------------------------------------------------------------
(* Theorems: T holds the tokens there are, and input is what encode() gave. *)

\* The types of a call of generate(), and its budget.
THEOREM DecodeTypes ==
  ASSUME NEW CONSTANT T, Vocabulary \subseteq T,
         NEW CONSTANT input \in Seq(T), input # <<>>
  PROVE  DecodeSpec(input) => []DecodeTypeOK
<1>1. DInv(T) => DecodeTypeOK
  BY DEF DInv, DTypes
<1> QED
  BY <1>1, DInvAlways, PTL

\* Decoding token by token over the cache samples from the same state as a full
\* recomputation of the text would, whatever the array held before.
THEOREM CacheTheorem ==
  ASSUME NEW CONSTANT T, Vocabulary \subseteq T,
         NEW CONSTANT input \in Seq(T), input # <<>>
  PROVE  DecodeSpec(input) => []CacheTransparent
<1>1. DInv(T) => CacheTransparent
  BY DInvSampled
<1> QED
  BY <1>1, DInvAlways, PTL

\* A call fails exactly when a token that has to go through the model has no
\* position.
THEOREM ContextTheorem ==
  ASSUME NEW CONSTANT T, Vocabulary \subseteq T,
         NEW CONSTANT input \in Seq(T), input # <<>>
  PROVE  DecodeSpec(input) => []FailsAtContext
<1>1. DInv(T) => FailsAtContext
  BY DEF DInv, DEnds
<1> QED
  BY <1>1, DInvAlways, PTL
================================================================================
