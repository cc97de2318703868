-------------------------- MODULE ScratchEngineProofs --------------------------
(***************************************************************************)
(* Proofs about BPE and ScratchEngine for any bytes, special tokens, table *)
(* of merges and prompts.                                                  *)
(*                                                                         *)
(* Sections 1 to 3 unfold the recursive functions of BPE and of FlattenSeq *)
(* and say how they go with Append and \o; each is an induction over the   *)
(* length of a sequence, by UpTo.  Section 4 is about one scan of _bpe(),  *)
(* section 5 about its loop, section 6 about the cut of a text.  Section 7 *)
(* has the invariant of a call.                                            *)
(***************************************************************************)
EXTENDS ScratchEngine, DecodingProofs, SequenceTheorems

--------------------------------------------------------------------------------
(* 1. Induction and recursion up to a length.                              *)

\* Induction over 0 .. n, with the set of the numbers a fact holds for.
LEMMA UpTo ==
  ASSUME NEW n \in Nat, NEW S, 0 \in S, \A i \in 1 .. n : i - 1 \in S => i \in S
  PROVE  \A i \in 0 .. n : i \in S
<1> DEFINE Bad == {i \in 0 .. n : i \notin S}
<1>1. SUFFICES ASSUME Bad # {} PROVE FALSE
  OBVIOUS
<1>2. PICK m \in Bad : \A k \in Bad : m <= k
  <2>1. Bad \subseteq Nat
    OBVIOUS
  <2> QED BY <1>1, <2>1, NatMin
<1>3. m \in 1 .. n /\ m \notin S
  BY <1>2
<1>4. m - 1 \in 0 .. n /\ ~(m <= m - 1)
  BY <1>3
<1>5. m - 1 \in S
  BY <1>2, <1>4
<1> QED
  BY <1>3, <1>5

\* What n steps F[1], ..., F[n] on X make of b, one after the other.
Iterated(g, n, X, b, F) ==
  /\ g \in [0 .. n -> X]
  /\ g[0] = b
  /\ \A i \in 1 .. n : g[i] = F[i][g[i - 1]]

LEMMA Iterates ==
  ASSUME NEW n \in Nat, NEW X, NEW b \in X, NEW F \in [1 .. n -> [X -> X]]
  PROVE  \E g : Iterated(g, n, X, b, F)
<1> DEFINE G(i) == {g \in [0 .. i -> X] : g[0] = b /\ \A j \in 1 .. i : g[j] = F[j][g[j - 1]]}
           S == {i \in 0 .. n : G(i) # {}}
<1>1. 0 \in S
  <2> DEFINE h == [j \in 0 .. 0 |-> b]
  <2>1. h \in G(0)
    OBVIOUS
  <2> HIDE DEF h, G
  <2> QED BY <2>1
<1>2. ASSUME NEW i \in 1 .. n, i - 1 \in S PROVE i \in S
  <2>1. PICK g : g \in G(i - 1)
    BY <1>2
  <2> DEFINE h == [j \in 0 .. i |-> IF j < i THEN g[j] ELSE F[i][g[i - 1]]]
  <2>2. i - 1 \in 0 .. i - 1 /\ g[i - 1] \in X /\ F[i] \in [X -> X]
    BY <1>2, <2>1
  <2>3. h \in [0 .. i -> X]
    BY <2>1, <2>2
  <2>4. h[0] = b
    BY <2>1
  <2>5. \A j \in 1 .. i : h[j] = F[j][h[j - 1]]
    BY <2>1
  <2>6. h \in G(i)
    BY <2>3, <2>4, <2>5
  <2> HIDE DEF h, G
  <2> QED BY <2>6
<1>3. \A i \in 0 .. n : i \in S
  <2> HIDE DEF S
  <2> QED BY <1>1, <1>2, UpTo
<1>4. PICK g : g \in G(n)
  BY <1>3
<1> QED
  BY <1>4 DEF Iterated

\* Induction over sequences, with the set of those a fact holds for.
LEMMA ByAppending ==
  ASSUME NEW T, NEW S, <<>> \in S,
         \A s \in Seq(T), e \in T : s \in S => Append(s, e) \in S
  PROVE  \A s \in Seq(T) : s \in S
<1> SUFFICES ASSUME NEW s \in Seq(T) PROVE s \in S
  OBVIOUS
<1> DEFINE n == Len(s)
           N == {i \in 0 .. n : \A t \in Seq(T) : Len(t) = i => t \in S}
<1>1. n \in Nat
  OBVIOUS
<1>2. 0 \in N
  <2>1. \A t \in Seq(T) : Len(t) = 0 => t = <<>>
    OBVIOUS
  <2> QED BY <1>1, <2>1
<1>3. ASSUME NEW i \in 1 .. n, i - 1 \in N PROVE i \in N
  <2> SUFFICES ASSUME NEW t \in Seq(T), Len(t) = i PROVE t \in S
    BY <1>1
  <2>1. t # <<>>
    BY <1>3
  <2>2. PICK r \in Seq(T), e \in T : t = Append(r, e)
    BY <2>1, SequenceEmptyOrAppend
  <2>3. Len(r) = i - 1
    BY <1>1, <2>2
  <2>4. r \in S
    BY <1>3, <2>3
  <2> QED BY <2>2, <2>4
<1>4. \A i \in 0 .. n : i \in N
  <2> HIDE DEF N, n
  <2> QED BY <1>1, <1>2, <1>3, UpTo
<1> QED
  BY <1>1, <1>4

--------------------------------------------------------------------------------
(* 2. FlattenSeq().                                                        *)

Flat(s) == CHOOSE f : f = [i \in 1 .. Len(s) |-> IF i = 1 THEN s[i] ELSE f[i - 1] \o s[i]]

\* The flattened prefixes of a sequence of sequences.
LEMMA FlatIs ==
  ASSUME NEW T, NEW s \in Seq(Seq(T))
  PROVE  /\ \A i \in 1 .. Len(s) : Flat(s)[i] = IF i = 1 THEN s[i] ELSE Flat(s)[i - 1] \o s[i]
         /\ \A i \in 1 .. Len(s) : Flat(s)[i] \in Seq(T)
         /\ FlattenSeq(s) = IF s = <<>> THEN <<>> ELSE Flat(s)[Len(s)]
<1> DEFINE n == Len(s)
           F == [i \in 1 .. n |-> [p \in Seq(T) |-> p \o s[i]]]
<1>1. n \in Nat /\ \A i \in 1 .. n : s[i] \in Seq(T)
  OBVIOUS
<1>2. F \in [1 .. n -> [Seq(T) -> Seq(T)]] /\ <<>> \in Seq(T)
  BY <1>1
<1>3. PICK g : Iterated(g, n, Seq(T), <<>>, F)
  <2> HIDE DEF F, n
  <2> QED BY <1>1, <1>2, Iterates
<1>4. g \in [0 .. n -> Seq(T)] /\ g[0] = <<>> /\ \A i \in 1 .. n : g[i] = g[i - 1] \o s[i]
  <2>1. /\ g \in [0 .. n -> Seq(T)] /\ g[0] = <<>>
        /\ \A i \in 1 .. n : g[i] = F[i][g[i - 1]]
    BY <1>3 DEF Iterated
  <2>2. ASSUME NEW i \in 1 .. n PROVE g[i] = g[i - 1] \o s[i]
    <3>1. i - 1 \in 0 .. n /\ g[i - 1] \in Seq(T)
      <4> HIDE DEF n, F
      <4> QED BY <1>1, <2>1
    <3> QED BY <2>1, <3>1
  <2> QED BY <2>1, <2>2
<1> DEFINE h == [i \in 1 .. n |-> g[i]]
<1>5. \A i \in 1 .. n : h[i] = IF i = 1 THEN s[i] ELSE h[i - 1] \o s[i]
  <2> TAKE i \in 1 .. n
  <2>1. CASE i = 1
    <3>1. g[1] = g[0] \o s[1] /\ s[1] \in Seq(T)
      <4>1. 1 \in 1 .. n /\ 1 - 1 = 0
        BY <2>1
      <4> QED BY <1>1, <1>4, <4>1
    <3>2. g[1] = s[1]
      BY <1>4, <3>1, ConcatEmptySeq
    <3> QED BY <2>1, <3>2
  <2>2. CASE i # 1
    <3>1. i - 1 \in 1 .. n
      BY <1>1, <2>2
    <3> QED BY <1>4, <2>2, <3>1
  <2> QED BY <2>1, <2>2
<1>6. h = [i \in 1 .. n |-> IF i = 1 THEN s[i] ELSE h[i - 1] \o s[i]]
  BY <1>5
<1>7. Flat(s) = [i \in 1 .. n |-> IF i = 1 THEN s[i] ELSE Flat(s)[i - 1] \o s[i]]
  <2> HIDE DEF h
  <2> QED BY <1>6 DEF Flat
<1>8. \A i \in 1 .. n : Flat(s)[i] = IF i = 1 THEN s[i] ELSE Flat(s)[i - 1] \o s[i]
  BY <1>7
<1>9. \A i \in 1 .. n : Flat(s)[i] \in Seq(T)
  <2> DEFINE S == {i \in 0 .. n : i > 0 => Flat(s)[i] \in Seq(T)}
  <2>1. 0 \in S
    BY <1>1
  <2>2. ASSUME NEW i \in 1 .. n, i - 1 \in S PROVE i \in S
    <3>1. i = 1 \/ (i - 1 > 0 /\ Flat(s)[i - 1] \in Seq(T))
      BY <1>1, <2>2
    <3>2. Flat(s)[i] \in Seq(T)
      BY <1>1, <1>8, <3>1, ConcatProperties
    <3> QED BY <3>2
  <2>3. \A i \in 0 .. n : i \in S
    <3> HIDE DEF S
    <3> QED BY <1>1, <2>1, <2>2, UpTo
  <2> QED BY <1>1, <2>3
<1>10. FlattenSeq(s) = IF s = <<>> THEN <<>> ELSE Flat(s)[n]
  <2>1. s = <<>> <=> n = 0
    OBVIOUS
  <2> QED BY <2>1 DEF FlattenSeq, Flat
<1> QED
  BY <1>8, <1>9, <1>10

LEMMA FlattenAppend ==
  ASSUME NEW T, NEW s \in Seq(Seq(T)), NEW e \in Seq(T)
  PROVE  /\ FlattenSeq(s) \in Seq(T)
         /\ FlattenSeq(Append(s, e)) = FlattenSeq(s) \o e
<1> DEFINE n == Len(s)
           u == Append(s, e)
           S == {i \in 0 .. n : i > 0 => Flat(u)[i] = Flat(s)[i]}
<1>1. /\ n \in Nat /\ u \in Seq(Seq(T)) /\ Len(u) = n + 1 /\ u[n + 1] = e /\ u # <<>>
      /\ \A i \in 1 .. n : u[i] = s[i] /\ s[i] \in Seq(T)
  BY AppendProperties, ElementOfSeq, LenProperties
<1> HIDE DEF u
<1>2. \A i \in 1 .. n + 1 : Flat(u)[i] = IF i = 1 THEN u[i] ELSE Flat(u)[i - 1] \o u[i]
  BY <1>1, FlatIs
<1>3. /\ \A i \in 1 .. n : Flat(s)[i] = IF i = 1 THEN s[i] ELSE Flat(s)[i - 1] \o s[i]
      /\ \A i \in 1 .. n : Flat(s)[i] \in Seq(T)
  BY FlatIs
<1>4. \A i \in 1 .. n : i - 1 \in S => i \in S
  <2> SUFFICES ASSUME NEW i \in 1 .. n, i - 1 \in S PROVE Flat(u)[i] = Flat(s)[i]
    BY <1>1
  <2>1. CASE i = 1
    BY <1>1, <1>2, <1>3, <2>1
  <2>2. CASE i # 1
    BY <1>1, <1>2, <1>3, <2>2
  <2> QED BY <2>1, <2>2
<1>5. \A i \in 0 .. n : i \in S
  <2>1. 0 \in S
    BY <1>1
  <2> HIDE DEF S, n
  <2> QED BY <1>1, <1>4, <2>1, UpTo
<1>6. FlattenSeq(s) = IF s = <<>> THEN <<>> ELSE Flat(s)[n]
  BY FlatIs
<1>7. FlattenSeq(u) = Flat(u)[n + 1]
  BY <1>1, FlatIs
<1>8. s = <<>> <=> n = 0
  OBVIOUS
<1>9. CASE n = 0
  <2>1. FlattenSeq(s) = <<>> /\ FlattenSeq(u) = e
    BY <1>1, <1>2, <1>6, <1>7, <1>8, <1>9
  <2>2. <<>> \o e = e /\ <<>> \in Seq(T)
    BY ConcatEmptySeq
  <2> QED BY <2>1, <2>2 DEF u
<1>10. CASE n > 0
  <2>1. Flat(u)[n] = Flat(s)[n]
    BY <1>1, <1>5, <1>10
  <2>2. Flat(u)[n + 1] = Flat(u)[n] \o e
    <3>1. n + 1 \in 1 .. n + 1 /\ n + 1 # 1 /\ (n + 1) - 1 = n
      BY <1>1, <1>10
    <3> QED BY <1>1, <1>2, <3>1
  <2>3. Flat(s)[n] \in Seq(T)
    BY <1>1, <1>3, <1>10
  <2>4. n # 0 /\ s # <<>>
    BY <1>1, <1>8, <1>10
  <2>5. FlattenSeq(s) = Flat(s)[n] /\ FlattenSeq(u) = Flat(s)[n] \o e
    BY <1>6, <1>7, <2>1, <2>2, <2>4
  <2> QED BY <2>3, <2>5 DEF u
<1> QED
  BY <1>1, <1>9, <1>10

LEMMA FlattenConcat ==
  ASSUME NEW T, NEW s \in Seq(Seq(T)), NEW t \in Seq(Seq(T))
  PROVE  /\ FlattenSeq(s) \in Seq(T)
         /\ FlattenSeq(s \o t) = FlattenSeq(s) \o FlattenSeq(t)
<1>1. FlattenSeq(s) \in Seq(T) /\ FlattenSeq(<<>>) = <<>>
  <2>1. <<>> \in Seq(T)
    OBVIOUS
  <2>2. FlattenSeq(s) \in Seq(T)
    BY <2>1, FlattenAppend
  <2> QED BY <2>2 DEF FlattenSeq
<1> DEFINE S == {r \in Seq(Seq(T)) : FlattenSeq(s \o r) = FlattenSeq(s) \o FlattenSeq(r)}
<1>2. <<>> \in S
  <2>1. s \o <<>> = s /\ FlattenSeq(s) \o <<>> = FlattenSeq(s) /\ <<>> \in Seq(Seq(T))
    BY <1>1, ConcatEmptySeq
  <2> QED BY <1>1, <2>1
<1>3. ASSUME NEW r \in Seq(Seq(T)), NEW e \in Seq(T), r \in S PROVE Append(r, e) \in S
  <2>1. s \o Append(r, e) = Append(s \o r, e) /\ s \o r \in Seq(Seq(T)) /\ Append(r, e) \in Seq(Seq(T))
    OBVIOUS
  <2>2. FlattenSeq(s \o r) = FlattenSeq(s) \o FlattenSeq(r)
    BY <1>3
  <2>3. /\ FlattenSeq(Append(s \o r, e)) = FlattenSeq(s \o r) \o e
        /\ FlattenSeq(Append(r, e)) = FlattenSeq(r) \o e
        /\ FlattenSeq(r) \in Seq(T)
    BY <2>1, FlattenAppend
  <2>4. (FlattenSeq(s) \o FlattenSeq(r)) \o e = FlattenSeq(s) \o (FlattenSeq(r) \o e)
    BY <1>1, <2>3, ConcatAssociative
  <2>5. FlattenSeq(s \o Append(r, e)) = FlattenSeq(s) \o FlattenSeq(Append(r, e))
    BY <2>1, <2>2, <2>3, <2>4
  <2> QED BY <2>1, <2>5
<1>4. t \in S
  <2> HIDE DEF S
  <2> QED BY <1>2, <1>3, ByAppending
<1> QED
  BY <1>1, <1>4

LEMMA FlattenOne ==
  ASSUME NEW T, NEW e \in Seq(T)
  PROVE  FlattenSeq(<<>>) = <<>> /\ FlattenSeq(<<e>>) = e
<1>1. FlattenSeq(<<>>) = <<>>
  BY DEF FlattenSeq
<1>2. Append(<<>>, e) = <<e>> /\ <<>> \in Seq(Seq(T)) /\ <<>> \o e = e
  BY ConcatEmptySeq
<1>3. FlattenSeq(Append(<<>>, e)) = FlattenSeq(<<>>) \o e
  BY <1>2, FlattenAppend
<1> QED
  BY <1>1, <1>2, <1>3

--------------------------------------------------------------------------------
(* 3. Without().                                                           *)

Kept(s, S) ==
  CHOOSE f : f = [n \in 0 .. Len(s) |->
                    IF n = 0 THEN <<>>
                    ELSE IF s[n] \in S THEN f[n - 1] ELSE Append(f[n - 1], s[n])]

\* What Without() keeps of the prefixes of a sequence.
LEMMA KeptIs ==
  ASSUME NEW T, NEW s \in Seq(T), NEW S
  PROVE  /\ Kept(s, S)[0] = <<>>
         /\ \A n \in 1 .. Len(s) :
              Kept(s, S)[n] = IF s[n] \in S THEN Kept(s, S)[n - 1]
                              ELSE Append(Kept(s, S)[n - 1], s[n])
         /\ \A n \in 0 .. Len(s) : Kept(s, S)[n] \in Seq(T \ S)
         /\ Without(s, S) = Kept(s, S)[Len(s)]
<1> DEFINE m == Len(s)
           X == Seq(T \ S)
           F == [n \in 1 .. m |-> [p \in X |-> IF s[n] \in S THEN p ELSE Append(p, s[n])]]
           k == Kept(s, S)
<1>1. m \in Nat /\ \A n \in 1 .. m : s[n] \in T
  OBVIOUS
<1>2. F \in [1 .. m -> [X -> X]] /\ <<>> \in X
  BY <1>1
<1>3. PICK g : Iterated(g, m, X, <<>>, F)
  <2> HIDE DEF F, m, X
  <2> QED BY <1>1, <1>2, Iterates
<1>4. g \in [0 .. m -> X] /\ g[0] = <<>> /\ \A n \in 1 .. m : g[n] = F[n][g[n - 1]]
  BY <1>3 DEF Iterated
<1>5. ASSUME NEW n \in 0 .. m
      PROVE  g[n] = IF n = 0 THEN <<>>
                    ELSE IF s[n] \in S THEN g[n - 1] ELSE Append(g[n - 1], s[n])
  <2>1. CASE n = 0
    BY <1>4, <2>1
  <2>2. CASE n # 0
    <3>1. n \in 1 .. m /\ n - 1 \in 0 .. m /\ g[n - 1] \in X
      <4> HIDE DEF m, X, F
      <4> QED BY <1>1, <1>4, <2>2
    <3>2. g[n] = F[n][g[n - 1]]
      BY <1>4, <3>1
    <3> QED BY <2>2, <3>1, <3>2
  <2> QED BY <2>1, <2>2
<1>6. g = [n \in 0 .. m |-> IF n = 0 THEN <<>>
                            ELSE IF s[n] \in S THEN g[n - 1] ELSE Append(g[n - 1], s[n])]
  BY <1>4, <1>5
<1>7. k = [n \in 0 .. m |-> IF n = 0 THEN <<>>
                            ELSE IF s[n] \in S THEN k[n - 1] ELSE Append(k[n - 1], s[n])]
  BY <1>6 DEF Kept
<1> HIDE DEF k
<1>8. /\ k[0] = <<>>
      /\ \A n \in 1 .. m : k[n] = IF s[n] \in S THEN k[n - 1] ELSE Append(k[n - 1], s[n])
  <2> HIDE DEF m
  <2>1. \A n \in 0 .. m : k[n] = IF n = 0 THEN <<>>
                                 ELSE IF s[n] \in S THEN k[n - 1] ELSE Append(k[n - 1], s[n])
    BY <1>7
  <2>2. 0 \in 0 .. m /\ \A n \in 1 .. m : n \in 0 .. m /\ n # 0
    BY <1>1
  <2> QED BY <2>1, <2>2
<1>9. \A n \in 0 .. m : k[n] \in X
  <2> DEFINE N == {n \in 0 .. m : k[n] \in X}
  <2>1. 0 \in N
    <3> HIDE DEF X, m
    <3> QED BY <1>1, <1>2, <1>8
  <2>2. ASSUME NEW n \in 1 .. m, n - 1 \in N PROVE n \in N
    <3>1. n \in 0 .. m /\ k[n - 1] \in X /\ s[n] \in T
      BY <1>1, <2>2
    <3>2. s[n] \notin S => Append(k[n - 1], s[n]) \in X
      BY <3>1
    <3> HIDE DEF X
    <3> QED BY <1>8, <3>1, <3>2
  <2>3. \A n \in 0 .. m : n \in N
    <3> HIDE DEF N
    <3> QED BY <1>1, <2>1, <2>2, UpTo
  <2> QED BY <2>3
<1>10. Without(s, S) = k[m]
  BY DEF Without, k, Kept
<1> QED
  BY <1>8, <1>9, <1>10 DEF k

LEMMA WithoutTypes ==
  ASSUME NEW T, NEW s \in Seq(T), NEW S
  PROVE  Without(<<>>, S) = <<>> /\ Without(s, S) \in Seq(T \ S)
<1>1. ASSUME NEW z \in Seq(T)
      PROVE  /\ Kept(z, S)[0] = <<>>
             /\ \A n \in 0 .. Len(z) : Kept(z, S)[n] \in Seq(T \ S)
             /\ Without(z, S) = Kept(z, S)[Len(z)]
  BY KeptIs
<1>2. ASSUME NEW z \in Seq(T)
      PROVE  Kept(z, S)[0] = <<>> /\ Without(z, S) = Kept(z, S)[Len(z)]
  BY <1>1
<1>3. <<>> \in Seq(T) /\ Len(<<>>) = 0 /\ Len(s) \in 0 .. Len(s)
  OBVIOUS
<1>4. Without(<<>>, S) = <<>>
  BY <1>2, <1>3
<1>5. Without(s, S) \in Seq(T \ S)
  BY <1>1, <1>3
<1> QED
  BY <1>4, <1>5

LEMMA WithoutAppend ==
  ASSUME NEW T, NEW s \in Seq(T), NEW e \in T, NEW S
  PROVE  Without(Append(s, e), S)
         = IF e \in S THEN Without(s, S) ELSE Append(Without(s, S), e)
<1> DEFINE m == Len(s)
           u == Append(s, e)
           N == {n \in 0 .. m : Kept(u, S)[n] = Kept(s, S)[n]}
<1>1. /\ m \in Nat /\ u \in Seq(T) /\ Len(u) = m + 1 /\ u[m + 1] = e
      /\ \A i \in 1 .. m : u[i] = s[i]
  BY AppendProperties, LenProperties
<1> HIDE DEF u
<1>2. /\ Kept(u, S)[0] = <<>>
      /\ \A n \in 1 .. m + 1 : Kept(u, S)[n] = IF u[n] \in S THEN Kept(u, S)[n - 1]
                                               ELSE Append(Kept(u, S)[n - 1], u[n])
      /\ Without(u, S) = Kept(u, S)[m + 1]
  <2>1. /\ Kept(u, S)[0] = <<>>
        /\ \A n \in 1 .. Len(u) : Kept(u, S)[n] = IF u[n] \in S THEN Kept(u, S)[n - 1]
                                                  ELSE Append(Kept(u, S)[n - 1], u[n])
        /\ \A n \in 0 .. Len(u) : Kept(u, S)[n] \in Seq(T \ S)
        /\ Without(u, S) = Kept(u, S)[Len(u)]
    BY <1>1, KeptIs
  <2> HIDE DEF m
  <2> QED BY <1>1, <2>1
<1>3. /\ Kept(s, S)[0] = <<>>
      /\ \A n \in 1 .. m : Kept(s, S)[n] = IF s[n] \in S THEN Kept(s, S)[n - 1]
                                           ELSE Append(Kept(s, S)[n - 1], s[n])
      /\ Kept(s, S)[m] \in Seq(T \ S)
      /\ Without(s, S) = Kept(s, S)[m]
  BY <1>1, KeptIs
<1>4. 0 \in N
  BY <1>1, <1>2, <1>3
<1>5. ASSUME NEW n \in 1 .. m, n - 1 \in N PROVE n \in N
  BY <1>1, <1>2, <1>3, <1>5
<1>6. Kept(u, S)[m] = Kept(s, S)[m]
  <2>1. \A n \in 0 .. m : n \in N
    <3> HIDE DEF N, m
    <3> QED BY <1>1, <1>4, <1>5, UpTo
  <2> QED BY <1>1, <2>1
<1>7. Without(u, S) = IF e \in S THEN Without(s, S) ELSE Append(Without(s, S), e)
  <2>1. m + 1 \in 1 .. m + 1 /\ (m + 1) - 1 = m
    BY <1>1
  <2> QED BY <1>1, <1>2, <1>3, <1>6, <2>1
<1> QED
  BY <1>7 DEF u

LEMMA WithoutConcat ==
  ASSUME NEW T, NEW s \in Seq(T), NEW t \in Seq(T), NEW S
  PROVE  Without(s \o t, S) = Without(s, S) \o Without(t, S)
<1> DEFINE N == {r \in Seq(T) : Without(s \o r, S) = Without(s, S) \o Without(r, S)}
<1>1. ASSUME NEW r \in Seq(T), NEW e \in T
      PROVE  Without(Append(r, e), S)
             = IF e \in S THEN Without(r, S) ELSE Append(Without(r, S), e)
  BY WithoutAppend
<1>2. Without(<<>>, S) = <<>> /\ \A r \in Seq(T) : Without(r, S) \in Seq(T \ S)
  BY WithoutTypes
<1>3. <<>> \in N
  <2>1. s \o <<>> = s /\ Without(s, S) \o <<>> = Without(s, S) /\ <<>> \in Seq(T)
    BY <1>2, ConcatEmptySeq
  <2> QED BY <1>2, <2>1
<1>4. ASSUME NEW r \in Seq(T), NEW e \in T, r \in N PROVE Append(r, e) \in N
  <2>1. s \o Append(r, e) = Append(s \o r, e) /\ s \o r \in Seq(T) /\ Append(r, e) \in Seq(T)
    OBVIOUS
  <2>2. Without(s \o r, S) = Without(s, S) \o Without(r, S)
    BY <1>4
  <2>3. Without(Append(s \o r, e), S)
        = IF e \in S THEN Without(s \o r, S) ELSE Append(Without(s \o r, S), e)
    BY <1>1, <2>1
  <2>4. Without(Append(r, e), S) = IF e \in S THEN Without(r, S) ELSE Append(Without(r, S), e)
    BY <1>1
  <2>5. e \notin S => Without(s, S) \o Append(Without(r, S), e)
                      = Append(Without(s, S) \o Without(r, S), e)
    <3>1. Without(r, S) \in Seq(T \ S)
      BY <1>2
    <3> QED BY <1>2, <3>1
  <2>6. Without(s \o Append(r, e), S) = Without(s, S) \o Without(Append(r, e), S)
    BY <2>1, <2>2, <2>3, <2>4, <2>5
  <2> QED BY <2>1, <2>6
<1>5. t \in N
  <2> HIDE DEF N
  <2> QED BY <1>3, <1>4, ByAppending
<1> QED
  BY <1>5

\* What encode() puts out: special tokens and symbols.
Token == Specials \cup Seq(Bytes)

LEMMA DecodeConcat ==
  ASSUME NEW s \in Seq(Token), NEW t \in Seq(Token)
  PROVE  Decode(s) \in Seq(Bytes) /\ Decode(s \o t) = Decode(s) \o Decode(t)
<1>1. ASSUME NEW r \in Seq(Token) PROVE Without(r, Specials) \in Seq(Seq(Bytes))
  <2>1. Token \ Specials \subseteq Seq(Bytes)
    BY DEF Token
  <2>2. Without(r, Specials) \in Seq(Token \ Specials)
    BY WithoutTypes
  <2> QED BY <2>1, <2>2
<1>2. Without(s \o t, Specials) = Without(s, Specials) \o Without(t, Specials)
  BY WithoutConcat
<1>3. Without(s, Specials) \in Seq(Seq(Bytes)) /\ Without(t, Specials) \in Seq(Seq(Bytes))
  BY <1>1
<1> QED
  BY <1>2, <1>3, FlattenConcat DEF Decode

\* A special token stands for no byte, a symbol for its own.
LEMMA DecodeOne ==
  /\ Decode(<<>>) = <<>>
  /\ \A t \in Token : Decode(<<t>>) = IF t \in Specials THEN <<>> ELSE t
<1>1. ASSUME NEW t \in Token
      PROVE  /\ Without(<<>>, Specials) = <<>>
             /\ Without(<<t>>, Specials) = IF t \in Specials THEN <<>> ELSE <<t>>
  <2>1. <<>> \in Seq(Token) /\ Append(<<>>, t) = <<t>>
    OBVIOUS
  <2>2. Without(<<>>, Specials) = <<>>
    BY <2>1, WithoutTypes
  <2>3. Without(Append(<<>>, t), Specials)
        = IF t \in Specials THEN Without(<<>>, Specials)
          ELSE Append(Without(<<>>, Specials), t)
    BY <2>1, WithoutAppend
  <2> QED BY <2>1, <2>2, <2>3
<1>2. <<>> \in Token /\ <<>> \in Seq(Bytes)
  BY DEF Token
<1>3. FlattenSeq(<<>>) = <<>>
  BY DEF FlattenSeq
<1>4. ASSUME NEW t \in Token PROVE Decode(<<t>>) = IF t \in Specials THEN <<>> ELSE t
  <2>1. CASE t \in Specials
    BY <1>1, <1>3, <2>1 DEF Decode
  <2>2. CASE t \notin Specials
    <3>1. t \in Seq(Bytes)
      BY <2>2 DEF Token
    <3>2. FlattenSeq(<<t>>) = t
      BY <3>1, FlattenOne
    <3> QED BY <1>1, <2>2, <3>2 DEF Decode
  <2> QED BY <2>1, <2>2
<1>5. Decode(<<>>) = <<>>
  BY <1>1, <1>2, <1>3 DEF Decode
<1> QED
  BY <1>4, <1>5

\* Symbols decode to what they were joined from.
LEMMA DecodeSymbols ==
  ASSUME NEW w \in Seq(Seq(Bytes))
  PROVE  w \in Seq(Token) /\ Decode(w) = FlattenSeq(w)
<1> DEFINE N == {v \in Seq(Seq(Bytes)) : Decode(v) = FlattenSeq(v)}
<1>1. \A v \in Seq(Seq(Bytes)) : v \in Seq(Token)
  <2>1. Seq(Bytes) \subseteq Token
    BY DEF Token
  <2> QED BY <2>1
<1>2. <<>> \in N
  <2>1. FlattenSeq(<<>>) = <<>>
    BY DEF FlattenSeq
  <2> QED BY <2>1, DecodeOne
<1>3. ASSUME NEW v \in Seq(Seq(Bytes)), NEW e \in Seq(Bytes), v \in N PROVE Append(v, e) \in N
  <2>1. Append(v, e) = v \o <<e>> /\ <<e>> \in Seq(Token) /\ v \in Seq(Token) /\ e \in Token
    <3>1. e \in Token
      BY DEF Token
    <3> QED BY <1>1, <3>1, AppendIsConcat
  <2>2. Decode(v \o <<e>>) = Decode(v) \o Decode(<<e>>)
    BY <2>1, DecodeConcat
  <2>3. Decode(<<e>>) = e
    BY <2>1, DecodeOne, MergesAssumption
  <2>4. FlattenSeq(Append(v, e)) = FlattenSeq(v) \o e
    BY FlattenAppend
  <2>5. Decode(v) = FlattenSeq(v) /\ Append(v, e) \in Seq(Seq(Bytes))
    BY <1>3
  <2>6. Decode(Append(v, e)) = FlattenSeq(Append(v, e))
    BY <2>1, <2>2, <2>3, <2>4, <2>5
  <2> QED BY <2>5, <2>6
<1>4. w \in N
  <2> HIDE DEF N
  <2> QED BY <1>2, <1>3, ByAppending
<1> QED
  BY <1>1, <1>4

--------------------------------------------------------------------------------
(* 4. One scan of _bpe().                                                  *)

Symbol == Seq(Bytes) \ {<<>>}

\* The symbol that the merge of rank r makes.
Joined(r) == Merges[r][1] \o Merges[r][2]

LEMMA FrontLast ==
  ASSUME NEW T, NEW s \in Seq(T), s # <<>>
  PROVE  /\ Front(s) \in Seq(T) /\ Last(s) \in T
         /\ Len(s) >= 1 /\ Len(Front(s)) = Len(s) - 1
         /\ \A i \in 1 .. Len(s) - 1 : Front(s)[i] = s[i]
         /\ s = Append(Front(s), Last(s))
<1>1. PICK r \in Seq(T), e \in T : s = Append(r, e)
  BY SequenceEmptyOrAppend
<1>2. Len(s) = Len(r) + 1 /\ Len(r) \in Nat /\ s[Len(s)] = e /\ \A i \in 1 .. Len(r) : s[i] = r[i]
  BY <1>1
<1>3. Front(s) = r
  <2>1. SubSeq(s, 1, Len(r)) = [i \in 1 .. Len(r) |-> s[i]]
    BY <1>1, <1>2
  <2>2. r = [i \in 1 .. Len(r) |-> r[i]]
    OBVIOUS
  <2> QED BY <1>2, <2>1, <2>2 DEF Front
<1>4. Last(s) = e
  BY <1>2 DEF Last
<1> QED
  BY <1>1, <1>2, <1>3, <1>4

\* No part of a merge is empty: it is a byte, or an earlier merge made it.
LEMMA MergeParts ==
  /\ Len(Merges) \in Nat /\ DOMAIN Merges = 1 .. Len(Merges)
  /\ \A r \in DOMAIN Merges :
       /\ Merges[r] = <<Merges[r][1], Merges[r][2]>>
       /\ Merges[r][1] \in Symbol /\ Merges[r][2] \in Symbol
<1> DEFINE m == Len(Merges)
           Good(e) == Merges[e][1] \in Symbol /\ Merges[e][2] \in Symbol
           N == {n \in 0 .. m : \A e \in 1 .. n : Good(e)}
<1>1. m \in Nat /\ DOMAIN Merges = 1 .. m
  BY MergesAssumption
<1>2. ASSUME NEW r \in DOMAIN Merges
      PROVE  /\ Merges[r] = <<Merges[r][1], Merges[r][2]>>
             /\ Merges[r][1] \in Seq(Bytes) /\ Merges[r][2] \in Seq(Bytes)
  <2>1. Merges[r] \in Seq(Seq(Bytes)) /\ Len(Merges[r]) = 2
    BY MergesAssumption
  <2> QED BY <2>1
<1>3. 0 \in N
  BY <1>1
<1>4. ASSUME NEW n \in 1 .. m, n - 1 \in N PROVE n \in N
  <2>1. \A e \in 1 .. n - 1 : Good(e)
    BY <1>4
  <2>2. ASSUME NEW part \in {1, 2} PROVE Merges[n][part] \in Symbol
    <3>1. Merges[n][part] \in Seq(Bytes)
      BY <1>1, <1>2
    <3>2. CASE \E b \in Bytes : Merges[n][part] = <<b>>
      BY <3>1, <3>2 DEF Symbol
    <3>3. CASE \E e \in 1 .. n - 1 : Merges[n][part] = Merges[e][1] \o Merges[e][2]
      <4>1. PICK e \in 1 .. n - 1 : Merges[n][part] = Merges[e][1] \o Merges[e][2]
        BY <3>3
      <4>2. Good(e)
        BY <2>1
      <4>3. Merges[n][part] # <<>>
        BY <4>1, <4>2, ConcatEqualIffEmpty DEF Symbol
      <4> QED BY <3>1, <4>3 DEF Symbol
    <3> QED BY <1>1, <3>2, <3>3, MergesAssumption
  <2>3. Good(n)
    BY <2>2
  <2>4. \A e \in 1 .. n : e = n \/ e \in 1 .. n - 1
    BY <1>1
  <2> HIDE DEF Good
  <2> QED BY <2>1, <2>3, <2>4
<1>5. \A n \in 0 .. m : n \in N
  <2> HIDE DEF N, m
  <2> QED BY <1>1, <1>3, <1>4, UpTo
<1>6. \A r \in 1 .. m : Good(r)
  BY <1>1, <1>5
<1> QED
  BY <1>1, <1>2, <1>6

\* A merge makes a longer symbol, which is none of its parts, and only later
\* merges take it for a part.
LEMMA JoinedFacts ==
  ASSUME NEW r \in DOMAIN Merges
  PROVE  /\ Joined(r) \in Symbol
         /\ Joined(r) # Merges[r][1] /\ Joined(r) # Merges[r][2]
         /\ \A e \in DOMAIN Merges :
              Merges[e][1] = Joined(r) \/ Merges[e][2] = Joined(r) => r < e
<1>1. Merges[r][1] \in Symbol /\ Merges[r][2] \in Symbol
  BY MergeParts
<1>2. /\ Joined(r) \in Seq(Bytes)
      /\ Len(Joined(r)) = Len(Merges[r][1]) + Len(Merges[r][2])
  BY <1>1, ConcatProperties DEF Joined, Symbol
<1>3. /\ Len(Merges[r][1]) \in Nat /\ Len(Merges[r][1]) >= 1
      /\ Len(Merges[r][2]) \in Nat /\ Len(Merges[r][2]) >= 1
  <2>1. \A s \in Symbol : Len(s) \in Nat /\ Len(s) >= 1
    BY EmptySeq DEF Symbol
  <2> QED BY <1>1, <2>1
<1>4. /\ Len(Joined(r)) # Len(Merges[r][1]) /\ Len(Joined(r)) # Len(Merges[r][2])
      /\ Len(Joined(r)) # 0 /\ Len(Joined(r)) # 1
  <2> DEFINE m == Len(Merges[r][1])
             n == Len(Merges[r][2])
  <2>1. m \in Nat /\ n \in Nat /\ m >= 1 /\ n >= 1 /\ Len(Joined(r)) = m + n
    BY <1>2, <1>3
  <2> HIDE DEF m, n
  <2>2. m + n # m /\ m + n # n /\ m + n # 0 /\ m + n # 1
    BY <2>1
  <2> QED BY <2>1, <2>2 DEF m, n
<1>5. Joined(r) \in Symbol /\ Joined(r) # Merges[r][1] /\ Joined(r) # Merges[r][2]
  <2>1. Len(<<>>) = 0
    OBVIOUS
  <2> QED BY <1>2, <1>4, <2>1 DEF Symbol
<1>6. ASSUME NEW e \in DOMAIN Merges, NEW part \in {1, 2}, Merges[e][part] = Joined(r)
      PROVE  r < e
  <2>1. ASSUME NEW b \in Bytes PROVE Joined(r) # <<b>>
    <3>1. Len(<<b>>) = 1
      OBVIOUS
    <3> QED BY <1>4, <3>1
  <2>2. PICK f \in 1 .. e - 1 : Joined(r) = Merges[f][1] \o Merges[f][2]
    <3>1. \/ \E b \in Bytes : Merges[e][part] = <<b>>
          \/ \E f \in 1 .. e - 1 : Merges[e][part] = Merges[f][1] \o Merges[f][2]
      BY MergesAssumption
    <3> QED BY <1>6, <2>1, <3>1
  <2>3. e \in 1 .. Len(Merges) /\ r \in 1 .. Len(Merges) /\ Len(Merges) \in Nat
    BY MergeParts
  <2>4. f \in DOMAIN Merges
    BY <2>3, MergeParts
  <2>5. f = r
    BY <2>2, <2>4, MergesAssumption DEF Joined
  <2> QED BY <2>3, <2>5
<1> QED
  BY <1>5, <1>6

LEMMA Associative ==
  \A f, l, e \in Seq(Bytes) : f \o (l \o e) = (f \o l) \o e
BY ConcatAssociative

\* What the scan puts out when it comes to symbol e after the output p.
Joins(p, e, r) == e = Merges[r][2] /\ p # <<>> /\ Last(p) = Merges[r][1]

Put(p, e, r) == IF Joins(p, e, r) THEN Append(Front(p), Joined(r)) ELSE Append(p, e)

LEMMA ScanIs ==
  ASSUME NEW w \in Seq(Symbol), NEW r \in DOMAIN Merges
  PROVE  /\ Scan(w, r)[0] = <<>>
         /\ \A n \in 1 .. Len(w) : Scan(w, r)[n] = Put(Scan(w, r)[n - 1], w[n], r)
         /\ \A n \in 0 .. Len(w) : Scan(w, r)[n] \in Seq(Symbol)
<1> DEFINE m == Len(w)
           X == Seq(Symbol)
           F == [n \in 1 .. m |-> [p \in X |-> Put(p, w[n], r)]]
           k == Scan(w, r)
<1>1. m \in Nat /\ <<>> \in X /\ \A n \in 1 .. m : w[n] \in Symbol
  OBVIOUS
<1>2. ASSUME NEW p \in X, NEW e \in Symbol PROVE Put(p, e, r) \in X
  <2>1. CASE Joins(p, e, r)
    <3>1. Front(p) \in X /\ Joined(r) \in Symbol
      BY <2>1, FrontLast, JoinedFacts DEF Joins
    <3> QED BY <2>1, <3>1 DEF Put
  <2>2. CASE ~Joins(p, e, r)
    BY <2>2 DEF Put
  <2> QED BY <2>1, <2>2
<1>3. F \in [1 .. m -> [X -> X]]
  <2> HIDE DEF X, m
  <2> QED BY <1>1, <1>2
<1>4. PICK g : Iterated(g, m, X, <<>>, F)
  <2> HIDE DEF F, m, X
  <2> QED BY <1>1, <1>3, Iterates
<1>5. g \in [0 .. m -> X] /\ g[0] = <<>> /\ \A n \in 1 .. m : g[n] = F[n][g[n - 1]]
  BY <1>4 DEF Iterated
<1>6. \A n \in 1 .. m : g[n] = Put(g[n - 1], w[n], r)
  <2> TAKE n \in 1 .. m
  <2>1. n - 1 \in 0 .. m /\ g[n - 1] \in X
    <3> HIDE DEF m, X, F
    <3> QED BY <1>1, <1>5
  <2>2. F[n][g[n - 1]] = Put(g[n - 1], w[n], r)
    <3> HIDE DEF m, X
    <3> QED BY <2>1
  <2> HIDE DEF F, X, m
  <2> QED BY <1>5, <2>2
<1>7. g = [n \in 0 .. m |-> IF n = 0 THEN <<>> ELSE Put(g[n - 1], w[n], r)]
  <2>1. ASSUME NEW n \in 0 .. m
        PROVE  g[n] = IF n = 0 THEN <<>> ELSE Put(g[n - 1], w[n], r)
    <3>1. n = 0 \/ n \in 1 .. m
      BY <1>1
    <3> HIDE DEF m, X, F
    <3> QED BY <1>5, <1>6, <3>1
  <2> HIDE DEF m, X, F
  <2> QED BY <1>5, <2>1
<1>8. k = CHOOSE f : f = [n \in 0 .. m |-> IF n = 0 THEN <<>> ELSE Put(f[n - 1], w[n], r)]
  BY DEF Scan, Put, Joins, Joined
<1>9. k = [n \in 0 .. m |-> IF n = 0 THEN <<>> ELSE Put(k[n - 1], w[n], r)]
  <2> HIDE DEF k, m, X, F
  <2> QED BY <1>7, <1>8
<1> HIDE DEF k
<1>10. k[0] = <<>> /\ \A n \in 1 .. m : k[n] = Put(k[n - 1], w[n], r)
  <2> HIDE DEF m
  <2>1. \A n \in 0 .. m : k[n] = IF n = 0 THEN <<>> ELSE Put(k[n - 1], w[n], r)
    BY <1>9
  <2>2. 0 \in 0 .. m /\ \A n \in 1 .. m : n \in 0 .. m /\ n # 0
    BY <1>1
  <2> QED BY <2>1, <2>2
<1>11. \A n \in 0 .. m : k[n] \in X
  <2> DEFINE N == {n \in 0 .. m : k[n] \in X}
  <2> HIDE DEF X, m
  <2>1. 0 \in N
    BY <1>1, <1>10
  <2>2. ASSUME NEW n \in 1 .. m, n - 1 \in N PROVE n \in N
    <3>1. n \in 0 .. m /\ k[n - 1] \in X /\ w[n] \in Symbol
      BY <1>1, <2>2
    <3> QED BY <1>2, <1>10, <3>1
  <2>3. \A n \in 0 .. m : n \in N
    <3> HIDE DEF N
    <3> QED BY <1>1, <2>1, <2>2, UpTo
  <2> QED BY <2>3
<1> QED
  BY <1>10, <1>11 DEF k

\* A scan keeps the bytes: those put out are those gone over.
LEMMA ScanKeeps ==
  ASSUME NEW w \in Seq(Symbol), NEW r \in DOMAIN Merges
  PROVE  /\ MergePair(w, r) \in Seq(Symbol)
         /\ FlattenSeq(MergePair(w, r)) = FlattenSeq(w)
         /\ w # <<>> => MergePair(w, r) # <<>>
<1> DEFINE m == Len(w)
           k == Scan(w, r)
           B == Seq(Seq(Bytes))
           N == {n \in 0 .. m : /\ FlattenSeq(k[n]) = FlattenSeq(SubSeq(w, 1, n))
                                /\ n > 0 => k[n] # <<>>}
<1>1. /\ m \in Nat /\ w \in B /\ Symbol \subseteq Seq(Bytes)
      /\ \A n \in 1 .. m : w[n] \in Seq(Bytes)
  BY DEF Symbol
<1>2. /\ k[0] = <<>>
      /\ \A n \in 1 .. m : k[n] = Put(k[n - 1], w[n], r)
      /\ \A n \in 0 .. m : k[n] \in Seq(Symbol)
  BY ScanIs
<1>3. \A n \in 0 .. m : k[n] \in B
  BY <1>1, <1>2
<1> HIDE DEF k
<1>4. 0 \in N
  <2>1. SubSeq(w, 1, 0) = <<>>
    BY SubSeqEmpty
  <2>2. FlattenSeq(k[0]) = FlattenSeq(SubSeq(w, 1, 0))
    BY <1>2, <2>1, Zenon
  <2> QED BY <1>1, <2>2
<1>5. ASSUME NEW n \in 1 .. m, n - 1 \in N PROVE n \in N
  <2> DEFINE p == k[n - 1]
             e == w[n]
             q == SubSeq(w, 1, n - 1)
  <2>1. /\ n - 1 \in 0 .. m /\ p \in B /\ e \in Seq(Bytes) /\ q \in B
        /\ FlattenSeq(p) = FlattenSeq(q)
        /\ k[n] = Put(p, e, r)
    BY <1>1, <1>2, <1>3, <1>5
  <2>2. FlattenSeq(SubSeq(w, 1, n)) = FlattenSeq(q) \o e
    <3>1. SubSeq(w, 1, n) = Append(q, e)
      BY <1>1
    <3> HIDE DEF q, e
    <3> QED BY <2>1, <3>1, FlattenAppend
  <2>3. n \in 0 .. m /\ \A s \in B, t \in Seq(Bytes) : Append(s, t) # <<>>
    BY AppendProperties
  <2> HIDE DEF p, e, q
  <2> SUFFICES FlattenSeq(k[n]) = FlattenSeq(q) \o e /\ k[n] # <<>>
    BY <2>2, <2>3
  <2>4. CASE Joins(p, e, r)
    <3>1. /\ p = Append(Front(p), Merges[r][1]) /\ Front(p) \in B /\ e = Merges[r][2]
      BY <2>1, <2>4, FrontLast DEF Joins
    <3>2. Merges[r][1] \in Seq(Bytes) /\ Joined(r) \in Seq(Bytes)
      BY <1>1, MergeParts, JoinedFacts
    <3>3. /\ FlattenSeq(Front(p)) \in Seq(Bytes)
          /\ FlattenSeq(p) = FlattenSeq(Front(p)) \o Merges[r][1]
      BY <3>1, <3>2, FlattenAppend
    <3>4. FlattenSeq(Append(Front(p), Joined(r))) = FlattenSeq(Front(p)) \o Joined(r)
      BY <3>1, <3>2, FlattenAppend
    <3>5. FlattenSeq(Front(p)) \o (Merges[r][1] \o e) = (FlattenSeq(Front(p)) \o Merges[r][1]) \o e
      <4> DEFINE f == FlattenSeq(Front(p))
                 l == Merges[r][1]
      <4>1. f \in Seq(Bytes) /\ l \in Seq(Bytes) /\ e \in Seq(Bytes)
        BY <2>1, <3>2, <3>3
      <4> HIDE DEF f, l
      <4>2. f \o (l \o e) = (f \o l) \o e
        BY <4>1, Associative
      <4> QED BY <4>2 DEF f, l
    <3>6. k[n] = Append(Front(p), Joined(r)) /\ k[n] # <<>>
      BY <2>1, <2>3, <2>4, <3>1, <3>2 DEF Put
    <3>7. FlattenSeq(k[n]) = FlattenSeq(p) \o e
      BY <3>1, <3>3, <3>4, <3>5, <3>6 DEF Joined
    <3> QED BY <2>1, <3>6, <3>7
  <2>5. CASE ~Joins(p, e, r)
    <3>1. k[n] = Append(p, e) /\ k[n] # <<>>
      BY <2>1, <2>3, <2>5 DEF Put
    <3>2. FlattenSeq(k[n]) = FlattenSeq(p) \o e
      BY <2>1, <3>1, FlattenAppend
    <3> QED BY <2>1, <3>1, <3>2
  <2> QED BY <2>4, <2>5
<1>6. m \in N
  <2>1. \A n \in 0 .. m : n \in N
    <3> HIDE DEF N, m
    <3> QED BY <1>1, <1>4, <1>5, UpTo
  <2> QED BY <1>1, <2>1
<1>7. SubSeq(w, 1, m) = w
  BY SubSeqFull
<1>8. MergePair(w, r) = k[m] /\ m \in 0 .. m /\ (w # <<>> => m > 0)
  BY <1>1 DEF MergePair, k
<1> QED
  BY <1>2, <1>6, <1>7, <1>8

\* Neighbours in the output q of a scan for rank r over the first n symbols: the
\* pair of rank r is not among them, and where neither was merged they were
\* neighbours in the word.
Neighbours(q, i, w, n, r) ==
  /\ ~(q[i] = Merges[r][1] /\ q[i + 1] = Merges[r][2])
  /\ \/ q[i] = Joined(r) \/ q[i + 1] = Joined(r)
     \/ \E j \in 1 .. n - 1 : w[j] = q[i] /\ w[j + 1] = q[i + 1]

Scanned(q, w, n, r) ==
  /\ n > 0 => q # <<>> /\ Last(q) \in {w[n], Joined(r)}
  /\ \A i \in 1 .. Len(q) - 1 : Neighbours(q, i, w, n, r)

LEMMA ScanStep ==
  ASSUME NEW w \in Seq(Symbol), NEW r \in DOMAIN Merges, NEW n \in 1 .. Len(w),
         NEW p \in Seq(Symbol), Scanned(p, w, n - 1, r), p # <<>> => n > 1
  PROVE  Scanned(Put(p, w[n], r), w, n, r)
<1> DEFINE e == w[n]
           q == Put(p, e, r)
<1>1. /\ Len(w) \in Nat /\ n \in Nat /\ n >= 1 /\ Len(p) \in Nat /\ e \in Symbol
      /\ Joined(r) \in Symbol /\ Joined(r) # Merges[r][1] /\ Joined(r) # Merges[r][2]
  BY JoinedFacts
<1>2. \A i \in 1 .. Len(p) - 1 : Neighbours(p, i, w, n, r)
  <2> TAKE i \in 1 .. Len(p) - 1
  <2>1. Neighbours(p, i, w, n - 1, r)
    BY DEF Scanned
  <2>2. \A j \in 1 .. (n - 1) - 1 : j \in 1 .. n - 1
    BY <1>1
  <2> QED BY <2>1, <2>2 DEF Neighbours
<1>3. CASE Joins(p, e, r)
  <2> DEFINE f == Front(p)
  <2>1. /\ f \in Seq(Symbol) /\ Len(f) = Len(p) - 1 /\ Len(p) >= 1
        /\ \A i \in 1 .. Len(p) - 1 : f[i] = p[i]
    BY <1>3, FrontLast DEF Joins
  <2>2. q = Append(f, Joined(r))
    BY <1>3 DEF Put
  <2> HIDE DEF f, q
  <2>3. /\ Len(q) = Len(p) /\ q[Len(p)] = Joined(r)
        /\ \A i \in 1 .. Len(p) - 1 : q[i] = p[i]
    BY <1>1, <2>1, <2>2
  <2>4. q # <<>> /\ Last(q) = Joined(r)
    BY <1>1, <2>1, <2>2, <2>3, AppendProperties DEF Last
  <2>5. ASSUME NEW i \in 1 .. Len(q) - 1 PROVE Neighbours(q, i, w, n, r)
    <3>1. i \in 1 .. Len(p) - 1 /\ q[i] = p[i] /\ Neighbours(p, i, w, n, r)
      BY <1>2, <2>3
    <3>2. CASE i = Len(p) - 1
      <4>1. q[i + 1] = Joined(r)
        BY <1>1, <2>3, <3>2
      <4> QED BY <1>1, <4>1 DEF Neighbours
    <3>3. CASE i # Len(p) - 1
      <4>1. q[i + 1] = p[i + 1]
        BY <1>1, <2>3, <3>1, <3>3
      <4> QED BY <3>1, <4>1 DEF Neighbours
    <3> QED BY <3>2, <3>3
  <2> QED BY <2>4, <2>5 DEF Scanned, q
<1>4. CASE ~Joins(p, e, r)
  <2>1. q = Append(p, e)
    BY <1>4 DEF Put
  <2> HIDE DEF q
  <2>2. /\ Len(q) = Len(p) + 1 /\ q[Len(p) + 1] = e
        /\ \A i \in 1 .. Len(p) : q[i] = p[i]
    BY <1>1, <2>1
  <2>3. q # <<>> /\ Last(q) = e
    BY <1>1, <2>1, <2>2, AppendProperties DEF Last
  <2>4. ASSUME NEW i \in 1 .. Len(q) - 1 PROVE Neighbours(q, i, w, n, r)
    <3>1. i \in 1 .. Len(p) /\ q[i] = p[i]
      BY <1>1, <2>2
    <3>2. CASE i = Len(p)
      <4>1. p # <<>> /\ q[i] = Last(p) /\ q[i + 1] = e
        BY <1>1, <2>2, <3>1, <3>2 DEF Last
      <4>2. n - 1 > 0 /\ Last(p) \in {w[n - 1], Joined(r)}
        BY <1>1, <4>1 DEF Scanned
      <4>3. n - 1 \in 1 .. n - 1 /\ w[(n - 1) + 1] = e
        BY <1>1, <4>2
      <4>4. ~(q[i] = Merges[r][1] /\ q[i + 1] = Merges[r][2])
        BY <1>4, <4>1 DEF Joins
      <4> QED BY <4>1, <4>2, <4>3, <4>4 DEF Neighbours
    <3>3. CASE i # Len(p)
      <4>1. i \in 1 .. Len(p) - 1 /\ q[i + 1] = p[i + 1]
        BY <1>1, <2>2, <3>1, <3>3
      <4> QED BY <1>2, <3>1, <4>1 DEF Neighbours
    <3> QED BY <3>2, <3>3
  <2> QED BY <2>3, <2>4 DEF Scanned, q
<1> QED
  BY <1>3, <1>4

LEMMA ScanPairs ==
  ASSUME NEW w \in Seq(Symbol), NEW r \in DOMAIN Merges
  PROVE  Scanned(MergePair(w, r), w, Len(w), r)
<1> DEFINE m == Len(w)
           k == Scan(w, r)
           N == {n \in 0 .. m : Scanned(k[n], w, n, r)}
<1>1. m \in Nat
  OBVIOUS
<1>2. /\ k[0] = <<>>
      /\ \A n \in 1 .. m : k[n] = Put(k[n - 1], w[n], r)
      /\ \A n \in 0 .. m : k[n] \in Seq(Symbol)
  BY ScanIs
<1> HIDE DEF k
<1>3. 0 \in N
  BY <1>1, <1>2 DEF Scanned
<1>4. ASSUME NEW n \in 1 .. m, n - 1 \in N PROVE n \in N
  <2>1. k[n - 1] \in Seq(Symbol) /\ Scanned(k[n - 1], w, n - 1, r) /\ n \in 0 .. m
    BY <1>1, <1>2, <1>4
  <2>2. k[n - 1] # <<>> => n > 1
    BY <1>1, <1>2
  <2>3. Scanned(Put(k[n - 1], w[n], r), w, n, r)
    BY <2>1, <2>2, ScanStep
  <2> QED BY <1>2, <2>1, <2>3
<1>5. m \in N
  <2>1. \A n \in 0 .. m : n \in N
    <3> HIDE DEF N, m
    <3> QED BY <1>1, <1>3, <1>4, UpTo
  <2> QED BY <1>1, <2>1
<1> QED
  BY <1>5 DEF MergePair, k

\* After the scan for the best rank only pairs of higher ranks are left.
LEMMA MergeRaises ==
  ASSUME NEW w \in Seq(Symbol), NEW r \in Candidates(w),
         \A e \in Candidates(w) : r <= e
  PROVE  \A e \in Candidates(MergePair(w, r)) : r < e
<1> DEFINE q == MergePair(w, r)
<1>1. r \in DOMAIN Merges /\ DOMAIN Merges = 1 .. Len(Merges) /\ Len(Merges) \in Nat
  BY MergeParts DEF Candidates
<1>2. q \in Seq(Symbol) /\ Scanned(q, w, Len(w), r)
  BY <1>1, ScanKeeps, ScanPairs
<1> HIDE DEF q
<1> SUFFICES ASSUME NEW e \in Candidates(q) PROVE r < e
  BY DEF q
<1>3. PICK i \in 1 .. Len(q) - 1 : Merges[e] = <<q[i], q[i + 1]>>
  BY DEF Candidates
<1>4. e \in DOMAIN Merges /\ Merges[e][1] = q[i] /\ Merges[e][2] = q[i + 1]
  BY <1>3 DEF Candidates
<1>5. Neighbours(q, i, w, Len(w), r)
  BY <1>2 DEF Scanned
<1>6. CASE q[i] = Joined(r) \/ q[i + 1] = Joined(r)
  BY <1>1, <1>4, <1>6, JoinedFacts
<1>7. CASE \E j \in 1 .. Len(w) - 1 : w[j] = q[i] /\ w[j + 1] = q[i + 1]
  <2>1. e \in Candidates(w)
    BY <1>3, <1>4, <1>7 DEF Candidates
  <2>2. e # r
    BY <1>4, <1>5 DEF Neighbours
  <2> QED BY <1>1, <1>4, <2>1, <2>2
<1> QED
  BY <1>5, <1>6, <1>7 DEF Neighbours

\* A scan for a pair that is not there changes nothing.
LEMMA MergeIdle ==
  ASSUME NEW w \in Seq(Symbol), NEW r \in DOMAIN Merges, r \notin Candidates(w)
  PROVE  MergePair(w, r) = w
<1> DEFINE m == Len(w)
           k == Scan(w, r)
           N == {n \in 0 .. m : k[n] = SubSeq(w, 1, n)}
<1>1. m \in Nat
  OBVIOUS
<1>2. /\ k[0] = <<>>
      /\ \A n \in 1 .. m : k[n] = Put(k[n - 1], w[n], r)
  BY ScanIs
<1> HIDE DEF k
<1>3. 0 \in N
  <2>1. SubSeq(w, 1, 0) = <<>>
    BY SubSeqEmpty
  <2>2. k[0] = SubSeq(w, 1, 0)
    BY <1>2, <2>1, Zenon
  <2> QED BY <1>1, <2>2
<1>4. ASSUME NEW n \in 1 .. m, n - 1 \in N PROVE n \in N
  <2> DEFINE p == SubSeq(w, 1, n - 1)
  <2>1. k[n] = Put(p, w[n], r) /\ n \in 0 .. m
    <3>1. k[n - 1] = p
      BY <1>4
    <3>2. k[n] = Put(k[n - 1], w[n], r)
      BY <1>2
    <3>3. n \in 0 .. m
      BY <1>1
    <3> QED BY <3>1, <3>2, <3>3, Zenon
  <2>2. Len(p) = n - 1 /\ \A i \in 1 .. n - 1 : p[i] = w[i]
    BY <1>1
  <2>3. SubSeq(w, 1, n) = Append(p, w[n])
    BY <1>1
  <2> HIDE DEF p
  <2>4. ~Joins(p, w[n], r)
    <3> SUFFICES ASSUME Joins(p, w[n], r) PROVE FALSE
      OBVIOUS
    <3>1. n - 1 \in 1 .. m - 1
      <4>1. CASE n = 1
        <5>1. p = <<>>
          BY <4>1, SubSeqEmpty DEF p
        <5> QED BY <5>1 DEF Joins
      <4>2. CASE n # 1
        BY <1>1, <4>2
      <4> QED BY <4>1, <4>2
    <3>2. Merges[r][1] = w[n - 1] /\ Merges[r][2] = w[(n - 1) + 1]
      BY <1>1, <2>2, <3>1 DEF Joins, Last
    <3>3. Merges[r] = <<w[n - 1], w[(n - 1) + 1]>>
      BY <3>2, MergeParts
    <3> QED BY <3>1, <3>3 DEF Candidates
  <2> QED BY <2>1, <2>3, <2>4 DEF Put
<1>5. m \in N
  <2>1. \A n \in 0 .. m : n \in N
    <3> HIDE DEF N, m
    <3> QED BY <1>1, <1>3, <1>4, UpTo
  <2> QED BY <1>1, <2>1
<1> QED
  BY <1>5, SubSeqFull DEF MergePair, k

--------------------------------------------------------------------------------
(* 5. The loop of _bpe().                                                  *)

\* The symbols of a piece are its bytes.
LEMMA SymbolsAre ==
  ASSUME NEW piece \in Symbol
  PROVE  /\ Symbols(piece) \in Seq(Symbol)
         /\ Symbols(piece) # <<>>
         /\ FlattenSeq(Symbols(piece)) = piece
<1> DEFINE N == {s \in Seq(Bytes) : FlattenSeq(Symbols(s)) = s}
<1>1. \A s \in Seq(Bytes) :
        Symbols(s) \in Seq(Symbol) /\ Symbols(s) \in Seq(Seq(Bytes)) /\ Len(Symbols(s)) = Len(s)
  <2> TAKE s \in Seq(Bytes)
  <2>1. Len(s) \in Nat /\ DOMAIN s = 1 .. Len(s) /\ \A i \in 1 .. Len(s) : s[i] \in Bytes
    OBVIOUS
  <2>2. \A b \in Bytes : <<b>> \in Seq(Bytes) /\ <<b>> # <<>>
    OBVIOUS
  <2>3. \A i \in 1 .. Len(s) : <<s[i]>> \in Symbol /\ <<s[i]>> \in Seq(Bytes)
    BY <2>1, <2>2 DEF Symbol
  <2> QED BY <2>1, <2>3 DEF Symbols
<1>2. <<>> \in N
  <2>1. Symbols(<<>>) = <<>>
    BY DEF Symbols
  <2>2. FlattenSeq(<<>>) = <<>>
    BY DEF FlattenSeq
  <2> QED BY <2>1, <2>2
<1>3. ASSUME NEW s \in Seq(Bytes), NEW b \in Bytes, s \in N PROVE Append(s, b) \in N
  <2>1. Symbols(Append(s, b)) = Append(Symbols(s), <<b>>)
    BY <1>1 DEF Symbols
  <2>2. /\ Append(s, b) \in Seq(Bytes) /\ Append(s, b) = s \o <<b>> /\ <<b>> \in Seq(Bytes)
        /\ Symbols(s) \in Seq(Seq(Bytes)) /\ FlattenSeq(Symbols(s)) = s
    BY <1>1, <1>3, AppendIsConcat
  <2>3. FlattenSeq(Append(Symbols(s), <<b>>)) = FlattenSeq(Symbols(s)) \o <<b>>
    BY <2>2, FlattenAppend
  <2>4. FlattenSeq(Symbols(Append(s, b))) = Append(s, b)
    BY <2>1, <2>2, <2>3
  <2> QED BY <2>2, <2>4
<1>4. \A s \in Seq(Bytes) : s \in N
  <2> HIDE DEF N
  <2> QED BY <1>2, <1>3, ByAppending
<1>5. piece \in Seq(Bytes) /\ Len(piece) # 0
  BY EmptySeq DEF Symbol
<1>6. Symbols(piece) # <<>>
  <2>1. Len(Symbols(piece)) # Len(<<>>)
    BY <1>1, <1>5
  <2> QED BY <2>1
<1> QED
  BY <1>1, <1>4, <1>5, <1>6

LEMMA PassesIs ==
  ASSUME NEW piece \in Symbol
  PROVE  /\ Passes(piece)[0] = Symbols(piece)
         /\ \A k \in 1 .. Len(Merges) : Passes(piece)[k] = MergePair(Passes(piece)[k - 1], k)
         /\ \A k \in 0 .. Len(Merges) : Passes(piece)[k] \in Seq(Symbol)
<1> DEFINE m == Len(Merges)
           X == Seq(Symbol)
           F == [k \in 1 .. m |-> [w \in X |-> MergePair(w, k)]]
           p == Passes(piece)
<1>1. m \in Nat /\ DOMAIN Merges = 1 .. m /\ Symbols(piece) \in X
  BY MergeParts, SymbolsAre
<1>2. \A w \in X : \A k \in 1 .. m : MergePair(w, k) \in X
  BY <1>1, ScanKeeps
<1>3. F \in [1 .. m -> [X -> X]]
  <2> HIDE DEF X, m
  <2> QED BY <1>2
<1>4. PICK g : Iterated(g, m, X, Symbols(piece), F)
  <2> HIDE DEF F, m, X
  <2> QED BY <1>1, <1>3, Iterates
<1>5. /\ g \in [0 .. m -> X] /\ g[0] = Symbols(piece)
      /\ \A k \in 1 .. m : g[k] = F[k][g[k - 1]]
  BY <1>4 DEF Iterated
<1>6. \A k \in 1 .. m : g[k] = MergePair(g[k - 1], k)
  <2> TAKE k \in 1 .. m
  <2>1. k - 1 \in 0 .. m /\ g[k - 1] \in X
    <3> HIDE DEF m, X, F
    <3> QED BY <1>1, <1>5
  <2>2. F[k][g[k - 1]] = MergePair(g[k - 1], k)
    <3> HIDE DEF m, X
    <3> QED BY <2>1
  <2> HIDE DEF F, X, m
  <2> QED BY <1>5, <2>2
<1>7. g = [k \in 0 .. m |-> IF k = 0 THEN Symbols(piece) ELSE MergePair(g[k - 1], k)]
  <2>1. ASSUME NEW k \in 0 .. m
        PROVE  g[k] = IF k = 0 THEN Symbols(piece) ELSE MergePair(g[k - 1], k)
    <3>1. k = 0 \/ k \in 1 .. m
      BY <1>1
    <3> HIDE DEF m, X, F
    <3> QED BY <1>5, <1>6, <3>1
  <2> HIDE DEF m, X, F
  <2> QED BY <1>5, <2>1
<1>8. p = CHOOSE f : f = [k \in 0 .. m |-> IF k = 0 THEN Symbols(piece)
                                           ELSE MergePair(f[k - 1], k)]
  BY DEF Passes
<1>9. p = [k \in 0 .. m |-> IF k = 0 THEN Symbols(piece) ELSE MergePair(p[k - 1], k)]
  <2> HIDE DEF p, m, X, F
  <2> QED BY <1>7, <1>8
<1> HIDE DEF p
<1>10. p[0] = Symbols(piece) /\ \A k \in 1 .. m : p[k] = MergePair(p[k - 1], k)
  <2> HIDE DEF m
  <2>1. \A k \in 0 .. m : p[k] = IF k = 0 THEN Symbols(piece) ELSE MergePair(p[k - 1], k)
    BY <1>9
  <2>2. 0 \in 0 .. m /\ \A k \in 1 .. m : k \in 0 .. m /\ k # 0
    BY <1>1
  <2> QED BY <2>1, <2>2
<1>11. \A k \in 0 .. m : p[k] \in X
  <2> DEFINE N == {k \in 0 .. m : p[k] \in X}
  <2> HIDE DEF X, m
  <2>1. 0 \in N
    BY <1>1, <1>10
  <2>2. ASSUME NEW k \in 1 .. m, k - 1 \in N PROVE k \in N
    <3>1. k \in 0 .. m /\ p[k - 1] \in X
      BY <1>1, <2>2
    <3> QED BY <1>2, <1>10, <3>1
  <2>3. \A k \in 0 .. m : k \in N
    <3> HIDE DEF N
    <3> QED BY <1>1, <2>1, <2>2, UpTo
  <2> QED BY <2>3
<1> QED
  BY <1>10, <1>11 DEF p

\* Passes for ranks that no pair of neighbours has change nothing.
LEMMA PassesIdle ==
  ASSUME NEW piece \in Symbol, NEW k \in 0 .. Len(Merges), NEW e \in k .. Len(Merges),
         \A c \in Candidates(Passes(piece)[k]) : e < c
  PROVE  Passes(piece)[e] = Passes(piece)[k]
<1> DEFINE m == Len(Merges)
           p == Passes(piece)
           w == p[k]
           N == {d \in 0 .. e - k : p[k + d] = w}
<1>1. m \in Nat /\ DOMAIN Merges = 1 .. m /\ k \in Nat /\ e \in Nat /\ e - k \in Nat
  BY MergeParts
<1>2. /\ \A i \in 1 .. m : p[i] = MergePair(p[i - 1], i)
      /\ w \in Seq(Symbol)
  BY PassesIs
<1>3. \A c \in Candidates(w) : e < c
  OBVIOUS
<1> HIDE DEF p
<1>4. 0 \in N
  BY <1>1
<1>5. ASSUME NEW d \in 1 .. e - k, d - 1 \in N PROVE d \in N
  <2>1. /\ k + d \in 1 .. m /\ (k + d) - 1 = k + (d - 1) /\ ~(e < k + d) /\ d \in 0 .. e - k
        /\ p[k + (d - 1)] = w
    BY <1>1, <1>5
  <2>2. k + d \notin Candidates(w)
    BY <1>3, <2>1
  <2> HIDE DEF w
  <2>3. p[k + d] = MergePair(p[(k + d) - 1], k + d)
    BY <1>2, <2>1
  <2>4. p[k + d] = MergePair(w, k + d)
    BY <2>1, <2>3
  <2>5. MergePair(w, k + d) = w
    BY <1>1, <1>2, <2>1, <2>2, MergeIdle
  <2> QED BY <2>1, <2>4, <2>5
<1>6. e - k \in N
  <2>1. \A d \in 0 .. e - k : d \in N
    <3> HIDE DEF N
    <3> QED BY <1>1, <1>4, <1>5, UpTo
  <2> QED BY <1>1, <2>1
<1>7. k + (e - k) = e
  BY <1>1
<1> QED
  BY <1>6, <1>7 DEF p

\* A word of _bpe() is what the passes up to some rank make of its bytes, and only
\* merges of higher ranks are left.
InRank(w) ==
  LET piece == FlattenSeq(w) IN
  /\ piece \in Symbol
  /\ \E k \in 0 .. Len(Merges) :
       /\ w = Passes(piece)[k]
       /\ \A c \in Candidates(w) : k < c

LEMMA BestIs ==
  ASSUME NEW w, Candidates(w) # {}
  PROVE  /\ Best(w) \in Candidates(w)
         /\ \A e \in Candidates(w) : Best(w) <= e
<1>1. Candidates(w) \subseteq Nat
  BY MergeParts DEF Candidates
<1>2. \E m \in Candidates(w) : \A e \in Candidates(w) : m <= e
  <2> DEFINE C == Candidates(w)
  <2>1. C \subseteq Nat /\ C # {}
    BY <1>1
  <2> HIDE DEF C
  <2>2. \E m \in C : \A e \in C : m <= e
    BY <2>1, NatMin
  <2> QED BY <2>2 DEF C
<1> QED
  BY <1>2 DEF Best

LEMMA InRankStart ==
  ASSUME NEW piece \in Symbol
  PROVE  InRank(Symbols(piece))
<1>1. FlattenSeq(Symbols(piece)) = piece
  BY SymbolsAre
<1>2. Passes(piece)[0] = Symbols(piece)
  BY PassesIs
<1>3. 0 \in 0 .. Len(Merges) /\ \A c \in Candidates(Symbols(piece)) : 0 < c
  BY MergeParts DEF Candidates
<1> QED
  BY <1>1, <1>2, <1>3 DEF InRank

LEMMA InRankStep ==
  ASSUME NEW w \in Seq(Symbol), InRank(w), Candidates(w) # {}
  PROVE  InRank(MergePair(w, Best(w)))
<1> DEFINE r == Best(w)
           piece == FlattenSeq(w)
           m == Len(Merges)
           next == MergePair(w, r)
<1>1. r \in Candidates(w) /\ \A e \in Candidates(w) : r <= e
  BY BestIs
<1>2. r \in DOMAIN Merges /\ DOMAIN Merges = 1 .. m /\ m \in Nat /\ Candidates(w) \subseteq Nat
  BY <1>1, MergeParts DEF Candidates
<1>3. piece \in Symbol
  BY DEF InRank
<1>4. PICK k \in 0 .. m : w = Passes(piece)[k] /\ \A c \in Candidates(w) : k < c
  BY DEF InRank
<1>5. FlattenSeq(next) = piece
  BY <1>2, ScanKeeps
<1>6. \A c \in Candidates(next) : r < c
  <2> HIDE DEF r
  <2> QED BY <1>1, MergeRaises
<1> HIDE DEF r, piece, m
<1>7. r - 1 \in k .. m /\ r \in 1 .. m /\ r \in 0 .. m
  BY <1>1, <1>2, <1>4
<1>8. \A c \in Candidates(w) : r - 1 < c
  BY <1>1, <1>2
<1>9. Passes(piece)[r - 1] = w
  BY <1>3, <1>4, <1>7, <1>8, PassesIdle DEF m
<1>10. Passes(piece)[r] = next
  <2>1. Passes(piece)[r] = MergePair(Passes(piece)[r - 1], r)
    BY <1>3, <1>7, PassesIs DEF m
  <2> QED BY <1>9, <2>1
<1> HIDE DEF next
<1>11. InRank(next)
  BY <1>3, <1>5, <1>6, <1>7, <1>10 DEF InRank, m
<1> QED
  BY <1>11 DEF next, r

LEMMA InRankEnd ==
  ASSUME NEW w, InRank(w), Candidates(w) = {}
  PROVE  w = RankOrder(FlattenSeq(w))
<1> DEFINE piece == FlattenSeq(w)
           m == Len(Merges)
<1>1. piece \in Symbol /\ m \in Nat
  BY MergeParts DEF InRank
<1>2. PICK k \in 0 .. m : w = Passes(piece)[k]
  BY DEF InRank
<1>3. m \in k .. m /\ \A c \in Candidates(Passes(piece)[k]) : m < c
  BY <1>1, <1>2
<1> HIDE DEF piece
<1>4. Passes(piece)[m] = Passes(piece)[k]
  BY <1>1, <1>2, <1>3, PassesIdle
<1> QED
  BY <1>2, <1>4 DEF RankOrder, piece

--------------------------------------------------------------------------------
(* 6. The cut of a text, and what encode() goes over.                      *)

\* What may occur in a text.
Char == Bytes \cup Specials

\* A text is cut at the specials, one character after the other.
Cut(past, e) ==
  IF e \in Specials THEN Append(past, <<>>)
  ELSE Append(Front(past), Append(Last(past), e))

Cuts(text) ==
  CHOOSE f : f = [n \in 0 .. Len(text) |-> IF n = 0 THEN << <<>> >> ELSE Cut(f[n - 1], text[n])]

LEMMA CutsAre ==
  ASSUME NEW text \in Seq(Char)
  PROVE  /\ Cuts(text)[0] = << <<>> >>
         /\ \A n \in 1 .. Len(text) : Cuts(text)[n] = Cut(Cuts(text)[n - 1], text[n])
         /\ \A n \in 0 .. Len(text) : Cuts(text)[n] \in Seq(Seq(Bytes)) \ {<<>>}
         /\ Pieces(text) = Without(Cuts(text)[Len(text)], {<<>>})
<1> DEFINE m == Len(text)
           X == Seq(Seq(Bytes)) \ {<<>>}
           F == [n \in 1 .. m |-> [p \in X |-> Cut(p, text[n])]]
           k == Cuts(text)
           start == << <<>> >>
<1>1. m \in Nat /\ \A n \in 1 .. m : text[n] \in Char
  OBVIOUS
<1>2. start \in X
  <2>1. <<>> \in Seq(Bytes) /\ Len(start) = 1 /\ Len(<<>>) = 0
    OBVIOUS
  <2> QED BY <2>1
<1>3. ASSUME NEW p \in X, NEW e \in Char PROVE Cut(p, e) \in X
  <2>1. \A q \in Seq(Seq(Bytes)), s \in Seq(Bytes) : Append(q, s) \in X
    BY AppendProperties
  <2>2. Front(p) \in Seq(Seq(Bytes)) /\ Last(p) \in Seq(Bytes)
    BY FrontLast
  <2>3. e \notin Specials => Append(Last(p), e) \in Seq(Bytes)
    BY <2>2 DEF Char
  <2>4. <<>> \in Seq(Bytes)
    OBVIOUS
  <2> QED BY <2>1, <2>2, <2>3, <2>4 DEF Cut
<1>4. F \in [1 .. m -> [X -> X]]
  <2> HIDE DEF X, m
  <2> QED BY <1>1, <1>3
<1>5. PICK g : Iterated(g, m, X, start, F)
  <2> HIDE DEF F, m, X, start
  <2> QED BY <1>1, <1>2, <1>4, Iterates
<1>6. g \in [0 .. m -> X] /\ g[0] = start /\ \A n \in 1 .. m : g[n] = F[n][g[n - 1]]
  BY <1>5 DEF Iterated
<1>7. \A n \in 1 .. m : g[n] = Cut(g[n - 1], text[n])
  <2> TAKE n \in 1 .. m
  <2>1. n - 1 \in 0 .. m /\ g[n - 1] \in X
    <3> HIDE DEF m, X, F, start
    <3> QED BY <1>1, <1>6
  <2>2. F[n][g[n - 1]] = Cut(g[n - 1], text[n])
    <3> HIDE DEF m, X
    <3> QED BY <2>1
  <2> HIDE DEF F, X, m, start
  <2> QED BY <1>6, <2>2
<1>8. g = [n \in 0 .. m |-> IF n = 0 THEN start ELSE Cut(g[n - 1], text[n])]
  <2>1. ASSUME NEW n \in 0 .. m
        PROVE  g[n] = IF n = 0 THEN start ELSE Cut(g[n - 1], text[n])
    <3>1. n = 0 \/ n \in 1 .. m
      BY <1>1
    <3> HIDE DEF m, X, F, start
    <3> QED BY <1>6, <1>7, <3>1
  <2> HIDE DEF m, X, F, start
  <2> QED BY <1>6, <2>1
<1>9. k = CHOOSE f : f = [n \in 0 .. m |-> IF n = 0 THEN start ELSE Cut(f[n - 1], text[n])]
  BY DEF Cuts
<1>10. k = [n \in 0 .. m |-> IF n = 0 THEN start ELSE Cut(k[n - 1], text[n])]
  <2> HIDE DEF k, m, X, F, start
  <2> QED BY <1>8, <1>9
<1> HIDE DEF k
<1>11. k[0] = start /\ \A n \in 1 .. m : k[n] = Cut(k[n - 1], text[n])
  <2> HIDE DEF m, start
  <2>1. \A n \in 0 .. m : k[n] = IF n = 0 THEN start ELSE Cut(k[n - 1], text[n])
    BY <1>10
  <2>2. 0 \in 0 .. m /\ \A n \in 1 .. m : n \in 0 .. m /\ n # 0
    BY <1>1
  <2> QED BY <2>1, <2>2
<1>12. \A n \in 0 .. m : k[n] \in X
  <2> DEFINE N == {n \in 0 .. m : k[n] \in X}
  <2> HIDE DEF X, m, start
  <2>1. 0 \in N
    BY <1>1, <1>2, <1>11
  <2>2. ASSUME NEW n \in 1 .. m, n - 1 \in N PROVE n \in N
    <3>1. n \in 0 .. m /\ k[n - 1] \in X /\ text[n] \in Char
      BY <1>1, <2>2
    <3> QED BY <1>3, <1>11, <3>1
  <2>3. \A n \in 0 .. m : n \in N
    <3> HIDE DEF N
    <3> QED BY <1>1, <2>1, <2>2, UpTo
  <2> QED BY <2>3
<1>13. Pieces(text) = Without(k[m], {<<>>})
  BY DEF Pieces, Cut, Cuts, k
<1> QED
  BY <1>11, <1>12, <1>13 DEF k

\* The cut of a text keeps its bytes and loses the specials.
LEMMA CutsKeep ==
  ASSUME NEW text \in Seq(Char)
  PROVE  FlattenSeq(Cuts(text)[Len(text)]) = Plain(text)
<1> DEFINE m == Len(text)
           k == Cuts(text)
           p == Kept(text, Specials)
           N == {n \in 0 .. m : FlattenSeq(k[n]) = p[n]}
<1>1. m \in Nat /\ \A n \in 1 .. m : text[n] \in Char
  OBVIOUS
<1>2. /\ k[0] = << <<>> >>
      /\ \A n \in 1 .. m : k[n] = Cut(k[n - 1], text[n])
      /\ \A n \in 0 .. m : k[n] \in Seq(Seq(Bytes)) \ {<<>>}
  BY CutsAre
<1>3. /\ p[0] = <<>>
      /\ \A n \in 1 .. m : p[n] = IF text[n] \in Specials THEN p[n - 1]
                                  ELSE Append(p[n - 1], text[n])
      /\ \A n \in 0 .. m : p[n] \in Seq(Char \ Specials)
      /\ Without(text, Specials) = p[m]
  BY KeptIs
<1> HIDE DEF k, p
<1>4. 0 \in N
  <2>1. FlattenSeq(<< <<>> >>) = <<>>
    <3>1. <<>> \in Seq(Bytes)
      OBVIOUS
    <3>2. \A e \in Seq(Bytes) : FlattenSeq(<<e>>) = e
      BY FlattenOne
    <3> QED BY <3>1, <3>2
  <2>2. FlattenSeq(k[0]) = p[0]
    BY <1>2, <1>3, <2>1, Zenon
  <2> QED BY <1>1, <2>2
<1>5. ASSUME NEW n \in 1 .. m, n - 1 \in N PROVE n \in N
  <2> DEFINE q == k[n - 1]
             e == text[n]
  <2>1. n - 1 \in 0 .. m /\ n \in 0 .. m
    BY <1>1
  <2>2. /\ q \in Seq(Seq(Bytes)) /\ q # <<>> /\ FlattenSeq(q) = p[n - 1]
        /\ k[n] = Cut(q, e) /\ e \in Char
    BY <1>1, <1>2, <1>5, <2>1
  <2>3. p[n] = IF e \in Specials THEN FlattenSeq(q) ELSE Append(FlattenSeq(q), e)
    BY <1>3, <2>2
  <2> HIDE DEF q, e
  <2>4. FlattenSeq(q) \in Seq(Bytes) /\ <<>> \in Seq(Bytes)
    BY <2>2, FlattenConcat
  <2>5. CASE e \in Specials
    <3>1. FlattenSeq(Append(q, <<>>)) = FlattenSeq(q) \o <<>>
      BY <2>2, <2>4, FlattenAppend
    <3>2. FlattenSeq(q) \o <<>> = FlattenSeq(q)
      BY <2>4, ConcatEmptySeq
    <3>3. FlattenSeq(k[n]) = p[n]
      BY <2>2, <2>3, <2>5, <3>1, <3>2 DEF Cut
    <3> QED BY <2>1, <3>3
  <2>6. CASE e \notin Specials
    <3> DEFINE f == Front(q)
               l == Last(q)
    <3>1. f \in Seq(Seq(Bytes)) /\ l \in Seq(Bytes) /\ q = Append(f, l) /\ e \in Bytes
      BY <2>2, <2>6, FrontLast DEF Char
    <3>2. k[n] = Append(f, Append(l, e))
      BY <2>2, <2>6 DEF Cut
    <3> HIDE DEF f, l
    <3>3. Append(l, e) \in Seq(Bytes) /\ FlattenSeq(f) \in Seq(Bytes)
      BY <3>1, FlattenAppend
    <3>4. FlattenSeq(q) = FlattenSeq(f) \o l /\ FlattenSeq(k[n]) = FlattenSeq(f) \o Append(l, e)
      BY <3>1, <3>2, <3>3, FlattenAppend
    <3>5. FlattenSeq(f) \o Append(l, e) = Append(FlattenSeq(f) \o l, e)
      <4> DEFINE g == FlattenSeq(f)
      <4>1. g \in Seq(Bytes)
        BY <3>3
      <4> HIDE DEF g
      <4>2. g \o Append(l, e) = Append(g \o l, e)
        BY <3>1, <4>1
      <4> QED BY <4>2 DEF g
    <3>6. FlattenSeq(k[n]) = p[n]
      BY <2>3, <2>6, <3>4, <3>5
    <3> QED BY <2>1, <3>6
  <2> QED BY <2>5, <2>6
<1>6. m \in N
  <2>1. \A n \in 0 .. m : n \in N
    <3> HIDE DEF N, m
    <3> QED BY <1>1, <1>4, <1>5, UpTo
  <2> QED BY <1>1, <2>1
<1> QED
  BY <1>3, <1>6 DEF Plain, k

LEMMA PiecesAre ==
  ASSUME NEW text \in Seq(Char)
  PROVE  /\ Pieces(text) \in Seq(Symbol)
         /\ FlattenSeq(Pieces(text)) = Plain(text)
<1> DEFINE B == Seq(Bytes)
           empty == {<<>>}
           cut == Cuts(text)[Len(text)]
           N == {s \in Seq(B) : FlattenSeq(Without(s, empty)) = FlattenSeq(s)}
<1>1. cut \in Seq(B) /\ Pieces(text) = Without(cut, empty)
  BY CutsAre
<1>2. \A s \in Seq(B) : Without(s, empty) \in Seq(B \ empty) /\ Without(<<>>, empty) = <<>>
  <2> HIDE DEF B, empty
  <2> QED BY WithoutTypes
<1>3. <<>> \in N
  <2>1. <<>> \in Seq(B)
    OBVIOUS
  <2>2. FlattenSeq(Without(<<>>, empty)) = FlattenSeq(<<>>)
    BY <1>2, <2>1, Zenon
  <2> QED BY <2>1, <2>2
<1>4. ASSUME NEW s \in Seq(B), NEW e \in B, s \in N PROVE Append(s, e) \in N
  <2> DEFINE w == Without(s, empty)
  <2>1. FlattenSeq(w) = FlattenSeq(s) /\ w \in Seq(B)
    BY <1>2, <1>4
  <2>2. Without(Append(s, e), empty) = IF e \in empty THEN w ELSE Append(w, e)
    <3> HIDE DEF B, empty
    <3> QED BY WithoutAppend
  <2> HIDE DEF w
  <2>3. /\ FlattenSeq(Append(s, e)) = FlattenSeq(s) \o e /\ FlattenSeq(s) \in B
        /\ FlattenSeq(Append(w, e)) = FlattenSeq(s) \o e
    BY <2>1, FlattenAppend
  <2>4. e = <<>> => FlattenSeq(s) \o e = FlattenSeq(s)
    BY <2>3, ConcatEmptySeq
  <2>5. FlattenSeq(Without(Append(s, e), empty)) = FlattenSeq(Append(s, e))
    BY <2>1, <2>2, <2>3, <2>4
  <2> QED BY <2>5
<1>5. cut \in N
  <2> HIDE DEF N, cut, B
  <2> QED BY <1>1, <1>3, <1>4, ByAppending
<1> QED
  BY <1>1, <1>2, <1>5, CutsKeep DEF Symbol

\* What encode() goes over: specials to put out, and pieces.
Item == Specials \cup Symbol

Message(text) == <<ImStart>> \o Pieces(text) \o <<ImEnd>>

LEMMA ItemTypes ==
  /\ Item \subseteq Token /\ ImStart \in Specials /\ ImEnd \in Specials
  /\ Seq(Symbol) \subseteq Seq(Item) /\ Seq(Item) \subseteq Seq(Token)
  /\ Seq(Symbol) \subseteq Seq(Seq(Bytes))
<1>1. Item \subseteq Token /\ Symbol \subseteq Item /\ Symbol \subseteq Seq(Bytes)
  BY DEF Item, Token, Symbol
<1> QED
  BY <1>1, ScratchAssumption

LEMMA MessageIs ==
  ASSUME NEW text \in Seq(Char)
  PROVE  /\ Message(text) \in Seq(Item) /\ Message(text) # <<>>
         /\ Decode(Message(text)) = Plain(text)
<1> DEFINE s == <<ImStart>>
           t == Pieces(text)
           e == <<ImEnd>>
<1>1. /\ s \in Seq(Item) /\ e \in Seq(Item) /\ ImStart \in Item /\ ImEnd \in Item
  BY ItemTypes DEF Item
<1>2. t \in Seq(Symbol) /\ t \in Seq(Item) /\ t \in Seq(Seq(Bytes)) /\ FlattenSeq(t) = Plain(text)
  BY PiecesAre, ItemTypes
<1>3. ImStart \in Token /\ ImEnd \in Token /\ ImStart \in Specials /\ ImEnd \in Specials
  BY ItemTypes DEF Token
<1>4. Decode(s) = <<>> /\ Decode(e) = <<>>
  BY <1>3, DecodeOne
<1>5. Decode(t) = Plain(text)
  BY <1>2, DecodeSymbols
<1>6. e # <<>>
  OBVIOUS
<1> HIDE DEF s, t, e
<1>7. s \in Seq(Token) /\ t \in Seq(Token) /\ e \in Seq(Token)
  BY <1>1, <1>2, ItemTypes
<1>8. s \o t \in Seq(Item) /\ s \o t \in Seq(Token) /\ (s \o t) \o e \in Seq(Item)
  BY <1>1, <1>2, <1>7
<1>9. Decode((s \o t) \o e) = Plain(text)
  <2>1. /\ Decode(s \o t) = Decode(s) \o Decode(t)
        /\ Decode((s \o t) \o e) = Decode(s \o t) \o Decode(e)
        /\ Decode(t) \in Seq(Bytes)
    BY <1>7, <1>8, DecodeConcat
  <2> QED BY <1>4, <1>5, <2>1, ConcatEmptySeq
<1>10. (s \o t) \o e # <<>>
  BY <1>1, <1>6, <1>8, ConcatEqualIffEmpty
<1> QED
  BY <1>8, <1>9, <1>10 DEF Message, s, t, e

\* encode() goes over something, which has the bytes of the texts.
LEMMA PlanIs ==
  ASSUME NEW texts \in Seq(Seq(Char)), texts # <<>>
  PROVE  /\ Plan(texts) \in Seq(Item) /\ Plan(texts) # <<>>
         /\ Decode(Plan(texts)) = FlattenSeq([i \in DOMAIN texts |-> Plain(texts[i])])
<1> DEFINE M(ts) == [i \in DOMAIN ts |-> Message(ts[i])]
           P(ts) == [i \in DOMAIN ts |-> Plain(ts[i])]
           T == Seq(Char)
           N == {ts \in Seq(T) : Decode(FlattenSeq(M(ts))) = FlattenSeq(P(ts))}
<1>1. \A t \in T : Message(t) \in Seq(Item) /\ Plain(t) \in Seq(Bytes)
  <2> TAKE t \in T
  <2>1. Plain(t) \in Seq(Char \ Specials)
    BY WithoutTypes DEF Plain
  <2>2. Char \ Specials \subseteq Bytes
    BY DEF Char
  <2> QED BY <2>1, <2>2, MessageIs
<1>2. ASSUME NEW ts \in Seq(T)
      PROVE  M(ts) \in Seq(Seq(Item)) /\ P(ts) \in Seq(Seq(Bytes))
  <2>1. Len(ts) \in Nat /\ DOMAIN ts = 1 .. Len(ts) /\ \A i \in 1 .. Len(ts) : ts[i] \in T
    OBVIOUS
  <2> HIDE DEF T
  <2> QED BY <1>1, <2>1
<1>3. ASSUME NEW ts \in Seq(T), NEW t \in T
      PROVE  /\ M(Append(ts, t)) = Append(M(ts), Message(t))
             /\ P(Append(ts, t)) = Append(P(ts), Plain(t))
  <2>1. /\ Len(ts) \in Nat /\ DOMAIN ts = 1 .. Len(ts)
        /\ DOMAIN Append(ts, t) = 1 .. Len(ts) + 1
        /\ Append(ts, t)[Len(ts) + 1] = t
        /\ \A i \in 1 .. Len(ts) : Append(ts, t)[i] = ts[i]
    BY AppendProperties
  <2>2. Len(M(ts)) = Len(ts) /\ Len(P(ts)) = Len(ts)
    BY <1>2, <2>1
  <2> HIDE DEF T
  <2>3. Append(M(ts), Message(t)) = [i \in 1 .. Len(ts) + 1 |-> IF i = Len(ts) + 1 THEN Message(t) ELSE M(ts)[i]]
    BY <1>1, <1>2, <2>2
  <2>4. Append(P(ts), Plain(t)) = [i \in 1 .. Len(ts) + 1 |-> IF i = Len(ts) + 1 THEN Plain(t) ELSE P(ts)[i]]
    BY <1>1, <1>2, <2>2
  <2> QED BY <2>1, <2>3, <2>4
<1>4. \A ts \in Seq(T) : FlattenSeq(M(ts)) \in Seq(Item) /\ FlattenSeq(P(ts)) \in Seq(Bytes)
  <2> HIDE DEF M, P, T
  <2> QED BY <1>2, FlattenConcat
<1>5. <<>> \in N
  <2>1. M(<<>>) = <<>> /\ P(<<>>) = <<>> /\ FlattenSeq(<<>>) = <<>>
    BY DEF FlattenSeq
  <2> QED BY <2>1, DecodeOne
<1>6. ASSUME NEW ts \in Seq(T), NEW t \in T
      PROVE  FlattenSeq(M(Append(ts, t))) = FlattenSeq(M(ts)) \o Message(t)
  <2> HIDE DEF M, T
  <2> QED BY <1>1, <1>2, <1>3, FlattenAppend
<1>7. ASSUME NEW ts \in Seq(T), NEW t \in T, ts \in N PROVE Append(ts, t) \in N
  <2>1. Append(ts, t) \in Seq(T) /\ Decode(FlattenSeq(M(ts))) = FlattenSeq(P(ts))
    BY <1>7
  <2> SUFFICES Decode(FlattenSeq(M(Append(ts, t)))) = FlattenSeq(P(Append(ts, t)))
    BY <2>1
  <2> HIDE DEF M, P, N
  <2>2. FlattenSeq(P(Append(ts, t))) = FlattenSeq(P(ts)) \o Plain(t)
    BY <1>1, <1>2, <1>3, FlattenAppend
  <2>3. FlattenSeq(M(ts)) \in Seq(Token) /\ Message(t) \in Seq(Token)
    BY <1>1, <1>4, ItemTypes
  <2>4. Decode(FlattenSeq(M(ts)) \o Message(t)) = Decode(FlattenSeq(M(ts))) \o Decode(Message(t))
    BY <2>3, DecodeConcat
  <2>5. Decode(Message(t)) = Plain(t)
    BY MessageIs
  <2> QED BY <1>6, <2>1, <2>2, <2>4, <2>5
<1>8. texts \in N
  <2>1. texts \in Seq(T)
    OBVIOUS
  <2> HIDE DEF N, T
  <2> QED BY <1>5, <1>7, <2>1, ByAppending
<1>9. Plan(texts) = FlattenSeq(M(texts))
  BY DEF Plan, Message
<1>10. FlattenSeq(M(texts)) # <<>>
  <2>1. PICK ts \in Seq(T), t \in T : texts = Append(ts, t)
    BY SequenceEmptyOrAppend
  <2>2. FlattenSeq(M(texts)) = FlattenSeq(M(ts)) \o Message(t)
    BY <1>6, <2>1
  <2>3. Message(t) # <<>>
    BY MessageIs
  <2> QED BY <1>1, <1>4, <2>2, <2>3, ConcatEqualIffEmpty
<1> QED
  BY <1>4, <1>8, <1>9, <1>10

--------------------------------------------------------------------------------
(* 7. The invariant of a call.                                             *)

\* The bytes of the prompt without its specials.
PlainPrompt == FlattenSeq([i \in DOMAIN prompt |-> Plain(prompt[i])])

\* During encode() the bytes of the prompt are those put out, those of the word
\* and those of the plan, and the word is one of the passes over the merges.
Encoding ==
  /\ ids \in Seq(Token) /\ word \in Seq(Symbol) /\ plan \in Seq(Item)
  /\ ids # <<>> \/ word # <<>> \/ plan # <<>>
  /\ word # <<>> => InRank(word)
  /\ Decode(ids) \o FlattenSeq(word) \o Decode(plan) = PlainPrompt
  /\ ModelInit

\* The tokens there are.
AnyToken == Token \cup Vocabulary

\* After it the prompt stays the beginning of the ids, and generate() has its
\* own invariant.
Generating ==
  /\ phase # "encode" /\ word = <<>> /\ plan = <<>>
  /\ SubSeq(ids, 1, born) \in Seq(Token)
  /\ Decode(SubSeq(ids, 1, born)) = PlainPrompt
  /\ DInv(AnyToken)

SInv == prompt \in Prompts /\ (Encoding \/ Generating)

LEMMA Nothing ==
  /\ Decode(<<>>) = <<>> /\ FlattenSeq(<<>>) = <<>>
  /\ <<>> \in Seq(Token) /\ <<>> \in Seq(Symbol) /\ <<>> \in Seq(Item)
  /\ Candidates(<<>>) = {}
<1>1. FlattenSeq(<<>>) = <<>>
  BY DEF FlattenSeq
<1>2. Candidates(<<>>) = {}
  BY DEF Candidates
<1> QED
  BY <1>1, <1>2, DecodeOne

LEMMA SInvInit ==
  ASSUME Init
  PROVE  SInv
<1>1. prompt \in Prompts /\ ids = <<>> /\ word = <<>> /\ plan = Plan(prompt) /\ ModelInit
  BY DEF Init
<1>2. prompt \in Seq(Seq(Char)) /\ prompt # <<>>
  BY <1>1, ScratchAssumption DEF Char
<1>3. plan \in Seq(Item) /\ plan # <<>> /\ Decode(plan) = PlainPrompt
  BY <1>1, <1>2, PlanIs DEF PlainPrompt
<1>4. Decode(plan) \in Seq(Bytes)
  BY <1>3, ItemTypes, DecodeConcat
<1>5. Decode(ids) = <<>> /\ FlattenSeq(word) = <<>>
  BY <1>1, Nothing, Zenon
<1>6. (<<>> \o <<>>) \o Decode(plan) = Decode(plan)
  BY <1>4, ConcatEmptySeq
<1>7. Decode(ids) \o FlattenSeq(word) \o Decode(plan) = PlainPrompt
  BY <1>3, <1>5, <1>6
<1>8. ids \in Seq(Token) /\ word \in Seq(Symbol)
  BY <1>1, Nothing
<1> QED
  BY <1>1, <1>3, <1>7, <1>8 DEF SInv, Encoding

\* What encode() takes from its plan, and what is left of it.
LEMMA PlanHead ==
  ASSUME NEW p \in Seq(Item), p # <<>>
  PROVE  /\ Head(p) \in Item /\ Tail(p) \in Seq(Item)
         /\ Decode(p) = Decode(<<Head(p)>>) \o Decode(Tail(p))
         /\ Decode(Tail(p)) \in Seq(Bytes)
<1> DEFINE h == <<Head(p)>>
           t == Tail(p)
<1>1. Head(p) \in Item /\ t \in Seq(Item) /\ p = h \o t /\ h \in Seq(Item)
  OBVIOUS
<1>2. h \in Seq(Token) /\ t \in Seq(Token)
  BY <1>1, ItemTypes
<1> HIDE DEF h, t
<1>3. Decode(h \o t) = Decode(h) \o Decode(t) /\ Decode(t) \in Seq(Bytes)
  BY <1>2, DecodeConcat
<1> QED
  BY <1>1, <1>3 DEF h, t

LEMMA SpecialKeeps ==
  ASSUME Encoding, EncodeSpecial
  PROVE  Encoding'
<1> DEFINE h == Head(plan)
           t == Tail(plan)
<1>1. /\ word = <<>> /\ plan # <<>> /\ h \in Specials
      /\ ids' = Append(ids, h) /\ plan' = t /\ word' = word /\ prompt' = prompt
      /\ UNCHANGED modelVars
  BY DEF EncodeSpecial
<1>2. /\ ids \in Seq(Token) /\ word \in Seq(Symbol) /\ plan \in Seq(Item) /\ ModelInit
      /\ Decode(ids) \o FlattenSeq(word) \o Decode(plan) = PlainPrompt
  BY DEF Encoding
<1>3. t \in Seq(Item) /\ Decode(plan) = Decode(<<h>>) \o Decode(t) /\ Decode(t) \in Seq(Bytes)
  BY <1>1, <1>2, PlanHead
<1>4. h \in Token /\ Decode(<<h>>) = <<>>
  <2> HIDE DEF h
  <2>1. h \in Token
    BY <1>1 DEF Token
  <2> QED BY <1>1, <2>1, DecodeOne
<1> HIDE DEF h, t
<1>5. ids' = ids \o <<h>> /\ <<h>> \in Seq(Token) /\ ids' \in Seq(Token) /\ ids' # <<>>
  BY <1>1, <1>2, <1>4, AppendIsConcat, AppendProperties
<1>6. Decode(ids \o <<h>>) = Decode(ids) \o Decode(<<h>>) /\ Decode(ids) \in Seq(Bytes)
  BY <1>2, <1>5, DecodeConcat
<1>7. Decode(ids') = Decode(ids) /\ Decode(plan) = Decode(t)
  BY <1>3, <1>4, <1>5, <1>6, ConcatEmptySeq
<1>8. ModelInit' /\ PlainPrompt' = PlainPrompt
  BY <1>1, <1>2 DEF ModelInit, modelVars, PlainPrompt
<1>9. (Decode(ids) \o FlattenSeq(word) \o Decode(plan))' = PlainPrompt
  BY <1>1, <1>2, <1>7, Zenon
<1> QED
  BY <1>1, <1>2, <1>3, <1>5, <1>8, <1>9 DEF Encoding

LEMMA PieceKeeps ==
  ASSUME Encoding, EncodePiece
  PROVE  Encoding'
<1> DEFINE h == Head(plan)
           t == Tail(plan)
<1>1. /\ word = <<>> /\ plan # <<>> /\ h \notin Specials
      /\ word' = Symbols(h) /\ plan' = t /\ ids' = ids /\ prompt' = prompt
      /\ UNCHANGED modelVars
  BY DEF EncodePiece
<1>2. /\ ids \in Seq(Token) /\ word \in Seq(Symbol) /\ plan \in Seq(Item) /\ ModelInit
      /\ Decode(ids) \o FlattenSeq(word) \o Decode(plan) = PlainPrompt
  BY DEF Encoding
<1>3. /\ h \in Item /\ t \in Seq(Item) /\ Decode(plan) = Decode(<<h>>) \o Decode(t)
      /\ Decode(t) \in Seq(Bytes)
  BY <1>1, <1>2, PlanHead
<1> HIDE DEF h, t
<1>4. h \in Symbol /\ h \in Token /\ h \in Seq(Bytes)
  BY <1>1, <1>3, ItemTypes DEF Item, Symbol
<1>5. Decode(<<h>>) = h
  BY <1>1, <1>4, DecodeOne
<1>6. word' \in Seq(Symbol) /\ word' # <<>> /\ FlattenSeq(word') = h /\ InRank(word')
  BY <1>1, <1>4, SymbolsAre, InRankStart, Zenon
<1>7. Decode(ids) \in Seq(Bytes) /\ FlattenSeq(word) = <<>>
  <2>1. Decode(ids) \in Seq(Bytes)
    BY <1>2, DecodeConcat
  <2>2. FlattenSeq(word) = <<>>
    BY <1>1, Nothing, Zenon
  <2> QED BY <2>1, <2>2
<1>8. Decode(ids) \o h \o Decode(t) = (Decode(ids) \o <<>>) \o (h \o Decode(t))
  <2> DEFINE d == Decode(ids)
             e == Decode(t)
  <2>1. d \in Seq(Bytes) /\ e \in Seq(Bytes) /\ h \in Seq(Bytes)
    BY <1>3, <1>4, <1>7
  <2> HIDE DEF d, e
  <2>2. d \o <<>> = d /\ (d \o h) \o e = d \o (h \o e)
    BY <2>1, ConcatEmptySeq, ConcatAssociative
  <2> QED BY <2>2 DEF d, e
<1>9. ModelInit' /\ PlainPrompt' = PlainPrompt
  BY <1>1, <1>2 DEF ModelInit, modelVars, PlainPrompt
<1>10. (Decode(ids) \o FlattenSeq(word) \o Decode(plan))' = PlainPrompt
  <2>1. (Decode(ids) \o FlattenSeq(word) \o Decode(plan))' = Decode(ids) \o h \o Decode(t)
    BY <1>1, <1>6, Zenon
  <2> QED BY <1>2, <1>3, <1>5, <1>7, <1>8, <2>1
<1> QED
  BY <1>1, <1>2, <1>3, <1>6, <1>9, <1>10 DEF Encoding

LEMMA MergeKeeps ==
  ASSUME Encoding, Merge
  PROVE  Encoding'
<1>1. /\ Candidates(word) # {} /\ word' = MergePair(word, Best(word))
      /\ prompt' = prompt /\ plan' = plan /\ ids' = ids /\ UNCHANGED modelVars
  BY DEF Merge
<1>2. /\ ids \in Seq(Token) /\ word \in Seq(Symbol) /\ plan \in Seq(Item) /\ ModelInit
      /\ Decode(ids) \o FlattenSeq(word) \o Decode(plan) = PlainPrompt
      /\ word # <<>> => InRank(word)
  BY DEF Encoding
<1>3. word # <<>>
  BY <1>1, Nothing, Zenon
<1>4. Best(word) \in DOMAIN Merges
  BY <1>1, BestIs DEF Candidates
<1>5. word' \in Seq(Symbol) /\ word' # <<>> /\ FlattenSeq(word') = FlattenSeq(word)
  BY <1>1, <1>2, <1>3, <1>4, ScanKeeps
<1>6. InRank(word')
  BY <1>1, <1>2, <1>3, InRankStep
<1>7. ModelInit' /\ PlainPrompt' = PlainPrompt
  BY <1>1, <1>2 DEF ModelInit, modelVars, PlainPrompt
<1>8. (Decode(ids) \o FlattenSeq(word) \o Decode(plan))' = PlainPrompt
  BY <1>1, <1>2, <1>5, Zenon
<1> QED
  BY <1>1, <1>2, <1>5, <1>6, <1>7, <1>8 DEF Encoding

LEMMA EmitKeeps ==
  ASSUME Encoding, EmitWord
  PROVE  Encoding'
<1>1. /\ word # <<>> /\ ids' = ids \o word /\ word' = <<>>
      /\ prompt' = prompt /\ plan' = plan /\ UNCHANGED modelVars
  BY DEF EmitWord
<1>2. /\ ids \in Seq(Token) /\ word \in Seq(Symbol) /\ plan \in Seq(Item) /\ ModelInit
      /\ Decode(ids) \o FlattenSeq(word) \o Decode(plan) = PlainPrompt
  BY DEF Encoding
<1>3. word \in Seq(Token) /\ Decode(word) = FlattenSeq(word)
  BY <1>2, ItemTypes, DecodeSymbols
<1>4. ids' \in Seq(Token) /\ ids' # <<>>
  BY <1>1, <1>2, <1>3, ConcatEqualIffEmpty
<1>5. /\ Decode(ids \o word) = Decode(ids) \o Decode(word)
      /\ Decode(ids \o word) \in Seq(Bytes)
  BY <1>1, <1>2, <1>3, <1>4, DecodeConcat
<1>6. word' \in Seq(Symbol) /\ FlattenSeq(word') = <<>>
  BY <1>1, Nothing, Zenon
<1>7. ModelInit' /\ PlainPrompt' = PlainPrompt
  BY <1>1, <1>2 DEF ModelInit, modelVars, PlainPrompt
<1>8. (Decode(ids) \o FlattenSeq(word) \o Decode(plan))' = PlainPrompt
  <2>1. (Decode(ids) \o FlattenSeq(word) \o Decode(plan))'
        = (Decode(ids \o word) \o <<>>) \o Decode(plan)
    BY <1>1, <1>6, Zenon
  <2>2. Decode(ids \o word) \o <<>> = Decode(ids) \o FlattenSeq(word)
    BY <1>3, <1>5, ConcatEmptySeq
  <2> QED BY <1>2, <2>1, <2>2
<1> QED
  BY <1>1, <1>2, <1>4, <1>6, <1>7, <1>8 DEF Encoding

\* generate() starts with what encode() gave.
LEMMA PrefillStarts ==
  ASSUME Encoding, Encoded, Prefill, UNCHANGED encodeVars
  PROVE  Generating'
<1>1. word = <<>> /\ plan = <<>> /\ word' = word /\ plan' = plan /\ prompt' = prompt
  BY DEF Encoded, encodeVars
<1>2. /\ ids \in Seq(Token) /\ ids # <<>> /\ ModelInit
      /\ Decode(ids) \o FlattenSeq(word) \o Decode(plan) = PlainPrompt
  BY <1>1 DEF Encoding
<1>3. Decode(ids) = PlainPrompt
  <2>1. FlattenSeq(word) = <<>> /\ Decode(plan) = <<>>
    BY <1>1, Nothing, Zenon
  <2>2. Decode(ids) \in Seq(Bytes)
    BY <1>2, DecodeConcat
  <2> QED BY <1>2, <2>1, <2>2, ConcatEmptySeq
<1>4. DInv(AnyToken)'
  <2>1. ids \in Seq(AnyToken)
    BY <1>2 DEF AnyToken
  <2>2. DInv(AnyToken)
    BY <1>2, <2>1, DInvInit
  <2> QED BY <2>2, PrefillKeeps
<1>5. born' = Len(ids) /\ ids' = ids /\ phase' = "forward"
  BY DEF Prefill, Forward
<1>6. SubSeq(ids', 1, born') = ids
  BY <1>2, <1>5, SubSeqFull
<1>7. PlainPrompt' = PlainPrompt
  BY <1>1 DEF PlainPrompt
<1> QED
  BY <1>1, <1>2, <1>3, <1>4, <1>5, <1>6, <1>7 DEF Generating

LEMMA PassKeeps ==
  ASSUME Generating, Pass, UNCHANGED encodeVars
  PROVE  Generating'
<1>1. word' = word /\ plan' = plan /\ prompt' = prompt
  BY DEF encodeVars
<1>2. DInv(AnyToken)'
  <2>1. [DecodeNext]_decodeVars /\ Vocabulary \subseteq AnyToken
    BY DEF DecodeNext, AnyToken
  <2> QED BY <2>1, DInvStep DEF Generating
<1>3. ids \in Seq(AnyToken) /\ born \in 0 .. Len(ids) /\ Len(ids) \in Nat
  BY DEF Generating, DInv, DTypes, DecodeTypeOK
<1>4. born' = born /\ phase' # "encode"
  <2>1. CASE Layer
    BY <2>1 DEF Layer
  <2>2. CASE LayerRaises
    BY <2>2 DEF LayerRaises
  <2>3. CASE Stop
    BY <2>3 DEF Stop
  <2>4. CASE \E t \in Vocabulary : Sample(t)
    BY <2>4 DEF Sample, Step, Forward
  <2> QED BY <2>1, <2>2, <2>3, <2>4 DEF Pass
<1>5. ids' = ids \/ \E t \in AnyToken : ids' = Append(ids, t)
  BY DEF Pass, Layer, LayerRaises, Stop, Sample, AnyToken
<1>6. SubSeq(ids', 1, born') = SubSeq(ids, 1, born)
  <2>1. CASE ids' = ids
    BY <1>4, <2>1
  <2>2. ASSUME NEW t \in AnyToken, ids' = Append(ids, t)
        PROVE  SubSeq(ids', 1, born') = SubSeq(ids, 1, born)
    <3>1. \A i \in 1 .. born : Append(ids, t)[i] = ids[i]
      BY <1>3
    <3> QED BY <1>3, <1>4, <2>2, <3>1
  <2> QED BY <1>5, <2>1, <2>2
<1>7. PlainPrompt' = PlainPrompt
  BY <1>1 DEF PlainPrompt
<1> QED
  BY <1>1, <1>2, <1>4, <1>6, <1>7 DEF Generating

LEMMA SInvStep ==
  ASSUME SInv, [Next]_vars
  PROVE  SInv'
<1>1. CASE UNCHANGED vars
  <2>1. /\ UNCHANGED <<prompt, plan, word, ids, born, cache, x, layer, offset, phase>>
        /\ UNCHANGED decodeVars
    BY <1>1 DEF vars, encodeVars, decodeVars, modelVars
  <2>2. PlainPrompt' = PlainPrompt
    BY <2>1 DEF PlainPrompt
  <2>3. CASE Encoding
    BY <2>1, <2>2, <2>3 DEF SInv, Encoding, ModelInit
  <2>4. CASE Generating
    <3>1. DInv(AnyToken)'
      BY <2>1, <2>4, DInvStep DEF Generating, AnyToken
    <3> QED BY <2>1, <2>2, <2>4, <3>1 DEF SInv, Generating
  <2> QED BY <2>3, <2>4 DEF SInv
<1>2. CASE Next
  <2>1. prompt' \in Prompts
    BY <1>2 DEF SInv, Next, EncodeSpecial, EncodePiece, Merge, EmitWord, Generate, encodeVars
  <2>2. CASE Encoding
    <3>1. phase = "encode"
      BY <2>2 DEF Encoding, ModelInit
    <3>2. ~Pass
      BY <3>1 DEF Pass, Layer, LayerRaises, Stop, Sample
    <3>3. CASE Generate
      BY <2>1, <2>2, <3>2, <3>3, PrefillStarts DEF Generate, SInv
    <3> QED BY <1>2, <2>1, <2>2, <3>3, SpecialKeeps, PieceKeeps, MergeKeeps, EmitKeeps
            DEF Next, SInv
  <2>3. CASE Generating
    <3>1. phase # "encode" /\ word = <<>>
      BY <2>3 DEF Generating
    <3>2. Candidates(word) = {}
      BY <3>1, Nothing, Zenon
    <3>3. Pass /\ UNCHANGED encodeVars
      BY <1>2, <3>1, <3>2
         DEF Next, EncodeSpecial, EncodePiece, Merge, EmitWord, Generate, Encoded, Prefill
    <3> QED BY <2>1, <2>3, <3>3, PassKeeps DEF SInv
  <2> QED BY <2>2, <2>3 DEF SInv
<1> QED
  BY <1>1, <1>2

LEMMA SInvAlways == Spec => []SInv
<1>1. Init => SInv
  BY SInvInit
<1>2. SInv /\ [Next]_vars => SInv'
  BY SInvStep
<1> QED
  BY <1>1, <1>2, PTL DEF Spec

--------------------------------------------------------------------------------
(* Theorems.                                                               *)

\* The types of a chat completion: its prompt is given, and generate() has its
\* types and its budget.
THEOREM ScratchTypes == Spec => []TypeOK
<1>1. SInv => TypeOK
  <2>1. Encoding => DecodeTypeOK
    BY DecodingAssumption DEF Encoding, ModelInit, DecodeTypeOK
  <2>2. Generating => DecodeTypeOK
    BY DEF Generating, DInv, DTypes
  <2> QED BY <2>1, <2>2 DEF SInv, TypeOK
<1> QED
  BY <1>1, SInvAlways, PTL

\* encode() neither loses nor invents a byte, at any point of it and whatever the
\* table merges, and generate() leaves the prompt's ids as they are.
THEOREM BytesTheorem == Spec => []BytesKept
<1>1. SInv => BytesKept
  <2>1. CASE Encoding
    <3>1. /\ phase = "encode" /\ ids \in Seq(Token)
          /\ Decode(ids) \o FlattenSeq(word) \o Decode(plan) = PlainPrompt
      BY <2>1 DEF Encoding, ModelInit
    <3>2. SubSeq(ids, 1, Len(ids)) = ids
      BY <3>1, SubSeqFull
    <3> QED BY <3>1, <3>2 DEF BytesKept, PlainPrompt
  <2>2. CASE Generating
    <3>1. /\ phase # "encode" /\ word = <<>> /\ plan = <<>>
          /\ SubSeq(ids, 1, born) \in Seq(Token)
          /\ Decode(SubSeq(ids, 1, born)) = PlainPrompt
      BY <2>2 DEF Generating
    <3> DEFINE d == Decode(SubSeq(ids, 1, born))
    <3>2. d \in Seq(Bytes) /\ FlattenSeq(word) = <<>> /\ Decode(plan) = <<>>
      <4>1. d \in Seq(Bytes)
        BY <3>1, DecodeConcat
      <4>2. FlattenSeq(word) = <<>> /\ Decode(plan) = <<>>
        BY <3>1, Nothing, Zenon
      <4> QED BY <4>1, <4>2
    <3>3. (d \o <<>>) \o <<>> = d
      BY <3>2, ConcatEmptySeq
    <3> QED BY <3>1, <3>2, <3>3 DEF BytesKept, PlainPrompt
  <2> QED BY <2>1, <2>2 DEF SInv
<1> QED
  BY <1>1, SInvAlways, PTL

\* When the loop of _bpe(), which looks for the best pair anew each time, ends, the
\* word is what one pass over the table in the order of its ranks makes.
THEOREM RankTheorem == Spec => []MergedByRank
<1>1. SInv => MergedByRank
  <2>1. CASE Encoding
    BY <2>1, InRankEnd DEF Encoding, MergedByRank
  <2>2. CASE Generating
    BY <2>2 DEF Generating, MergedByRank
  <2> QED BY <2>1, <2>2 DEF SInv
<1> QED
  BY <1>1, SInvAlways, PTL

\* Over whatever encode() gives, the cache changes no token.
THEOREM ScratchCache == Spec => []CacheTransparent
<1>1. SInv => CacheTransparent
  <2>1. Encoding => CacheTransparent
    BY DEF Encoding, ModelInit, CacheTransparent
  <2>2. Generating => CacheTransparent
    BY DInvSampled DEF Generating
  <2> QED BY <2>1, <2>2 DEF SInv
<1> QED
  BY <1>1, SInvAlways, PTL

\* A completion fails exactly when its ids outgrow the context.
THEOREM ScratchContext == Spec => []FailsAtContext
<1>1. SInv => FailsAtContext
  <2>1. Encoding => FailsAtContext
    BY DEF Encoding, ModelInit, FailsAtContext
  <2>2. Generating => FailsAtContext
    BY DEF Generating, DInv, DEnds
  <2> QED BY <2>1, <2>2 DEF SInv
<1> QED
  BY <1>1, SInvAlways, PTL

\* generate() goes on from ids that decode() turns back into the prompt.
THEOREM PromptDecodes ==
  Spec => [](phase # "encode" => Decode(SubSeq(ids, 1, born)) = PlainPrompt)
<1>1. SInv => (phase # "encode" => Decode(SubSeq(ids, 1, born)) = PlainPrompt)
  BY DEF SInv, Encoding, Generating, ModelInit
<1> QED
  BY <1>1, SInvAlways, PTL
================================================================================
