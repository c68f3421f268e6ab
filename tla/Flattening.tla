---------------------------- MODULE Flattening ----------------------------
(***************************************************************************)
(* What FlattenSeq of the community modules gives, a piece at a time, for  *)
(* the proofs about models that concatenate: packets in PacketQueues, the  *)
(* options around a file in PlayTree.  It is defined by a recursive        *)
(* function, so everything here is an induction over the number of pieces. *)
(***************************************************************************)
EXTENDS Integers, Sequences, SequencesExt, SequenceTheorems, WellFoundedInduction, TLAPS

-----------------------------------------------------------------------------
(* What holds of 0, and of n + 1 where it holds of n, holds of every number. *)

LEMMA Least ==
  ASSUME NEW S, S \subseteq Nat, S # {}
  PROVE  \E n \in S : \A m \in S : n <= m
<1> DEFINE R == OpToRel(<, Nat)
<1>1. IsWellFoundedOn(R, Nat)
  BY NatLessThanWellFounded
<1>2. \A x \in Nat, y \in Nat : y < x => <<y, x>> \in R
  BY DEF OpToRel
<1> HIDE DEF R
<1>3. PICK n \in S : \A m \in S : ~(<<m, n>> \in R)
  BY <1>1, WFMin
<1>4. ASSUME NEW m \in S PROVE n <= m
  <2>1. m \in Nat /\ n \in Nat
    OBVIOUS
  <2>2. ~(m < n)
    BY <1>2, <1>3, <2>1, Zenon
  <2> QED
    BY <2>1, <2>2
<1> QED
  BY <1>4

LEMMA Induction ==
  ASSUME NEW P, 0 \in P, \A n \in Nat : n \in P => n + 1 \in P
  PROVE  Nat \subseteq P
<1> SUFFICES ASSUME Nat \ P # {} PROVE FALSE
  OBVIOUS
<1>1. PICK n \in Nat \ P : \A m \in Nat \ P : n <= m
  <2> DEFINE S == Nat \ P
  <2>1. S \subseteq Nat /\ S # {}
    OBVIOUS
  <2> HIDE DEF S
  <2>2. \E n \in S : \A m \in S : n <= m
    BY <2>1, Least
  <2> QED
    BY <2>2 DEF S
<1>2. n # 0 /\ n - 1 \in Nat /\ (n - 1) + 1 = n /\ ~(n <= n - 1)
  OBVIOUS
<1>3. n - 1 \in P
  BY <1>1, <1>2
<1> QED
  BY <1>2, <1>3

-----------------------------------------------------------------------------
(* Sequences of sequences: FlattenSeq of one more, in front or behind. *)

\* The concatenations of the beginnings of seqs.
Flattens(f, seqs) == f = [i \in 1 .. Len(seqs) |-> IF i = 1 THEN seqs[i] ELSE f[i - 1] \o seqs[i]]

LEMMA FlattenExists ==
  ASSUME NEW seqs, Len(seqs) \in Nat
  PROVE  \E f : Flattens(f, seqs)
<1> DEFINE Part(f, n) == f = [i \in 1 .. n |-> IF i = 1 THEN seqs[i] ELSE f[i - 1] \o seqs[i]]
           P == {n \in Nat : \E f : Part(f, n)}
<1>1. 0 \in P
  <2>1. Part([i \in 1 .. 0 |-> << >>], 0)
    OBVIOUS
  <2> QED
    BY <2>1
<1>2. ASSUME NEW n \in Nat, NEW g, Part(g, n) PROVE \E f : Part(f, n + 1)
  <2> DEFINE h == [i \in 1 .. n + 1 |-> IF i = 1 THEN seqs[i] ELSE g[i - 1] \o seqs[i]]
  <2>1. \A i \in 1 .. n : h[i] = g[i]
    <3>1. \A i \in 1 .. n : i \in 1 .. n + 1
      OBVIOUS
    <3> QED
      BY <1>2, <3>1
  <2>2. \A i \in 1 .. n + 1 : i # 1 => i - 1 \in 1 .. n
    OBVIOUS
  <2>3. Part(h, n + 1)
    <3>1. \A i \in 1 .. n + 1 : i # 1 => h[i - 1] = g[i - 1]
      BY <2>1, <2>2, Zenon
    <3>2. h = [i \in 1 .. n + 1 |-> IF i = 1 THEN seqs[i] ELSE h[i - 1] \o seqs[i]]
      <4> HIDE DEF Part
      <4> SUFFICES ASSUME NEW i \in 1 .. n + 1
                   PROVE  (IF i = 1 THEN seqs[i] ELSE g[i - 1] \o seqs[i]) = (IF i = 1 THEN seqs[i] ELSE h[i - 1] \o seqs[i])
        BY Zenon
      <4> QED
        BY <3>1
    <3> QED
      BY <3>2
  <2> QED
    BY <2>3
<1>3. \A n \in Nat : n \in P => n + 1 \in P
  <2> HIDE DEF Part
  <2> QED
    BY <1>2
<1> HIDE DEF P
<1>4. Len(seqs) \in P
  BY <1>1, <1>3, Induction
<1> QED
  BY <1>4 DEF P, Flattens

LEMMA FlattenIs ==
  ASSUME NEW seqs, Len(seqs) \in Nat
  PROVE  /\ Len(seqs) = 0 => FlattenSeq(seqs) = seqs
         /\ Len(seqs) # 0 => \E f : Flattens(f, seqs) /\ FlattenSeq(seqs) = f[Len(seqs)]
<1>1. \E f : Flattens(f, seqs)
  BY FlattenExists
<1> QED
  BY <1>1 DEF FlattenSeq, Flattens

Pieces(T) == Seq(Seq(T))

LEMMA PiecesAre ==
  ASSUME NEW T, NEW seqs \in Pieces(T)
  PROVE  /\ Len(seqs) \in Nat /\ (Len(seqs) = 0 <=> seqs = << >>)
         /\ \A n \in 1 .. Len(seqs) : seqs[n] \in Seq(T)
  BY DEF Pieces

LEMMA MorePieces ==
  ASSUME NEW T, NEW seqs \in Pieces(T), NEW x \in Seq(T)
  PROVE  /\ Append(seqs, x) \in Pieces(T) /\ Len(Append(seqs, x)) = Len(seqs) + 1
         /\ Append(seqs, x)[Len(seqs) + 1] = x
         /\ \A n \in 1 .. Len(seqs) : Append(seqs, x)[n] = seqs[n]
         /\ <<x>> \in Pieces(T) /\ <<x>> \o seqs \in Pieces(T) /\ <<x>> \o << >> = <<x>>
         /\ Len(<<x>>) = 1 /\ <<x>>[1] = x /\ Append(<< >>, x) = <<x>>
  BY DEF Pieces

Built(T, f, seqs) ==
  \A n \in 1 .. Len(seqs) : f[n] \in Seq(T) /\ f[n] = IF n = 1 THEN seqs[n] ELSE f[n - 1] \o seqs[n]

LEMMA FlattenParts ==
  ASSUME NEW T, NEW seqs \in Pieces(T), NEW f, Flattens(f, seqs)
  PROVE  Built(T, f, seqs)
<1>1. \A n \in 1 .. Len(seqs) : f[n] = (IF n = 1 THEN seqs[n] ELSE f[n - 1] \o seqs[n])
  BY DEF Flattens
<1>2. \A n \in 1 .. Len(seqs) : seqs[n] \in Seq(T)
  BY PiecesAre
<1>3. Len(seqs) \in Nat
  BY PiecesAre
<1> DEFINE P == {n \in Nat : n + 1 \in 1 .. Len(seqs) => f[n + 1] \in Seq(T)}
<1>4. 0 \in P
  BY <1>1, <1>2, <1>3
<1>5. ASSUME NEW n \in Nat, n \in P PROVE n + 1 \in P
  <2> SUFFICES ASSUME n + 2 \in 1 .. Len(seqs) PROVE f[n + 2] \in Seq(T)
    BY <1>3
  <2>1. n + 1 \in 1 .. Len(seqs) /\ (n + 2) - 1 = n + 1 /\ n + 2 # 1
    BY <1>3
  <2>2. f[n + 1] \in Seq(T)
    BY <1>5, <2>1
  <2>3. f[n + 2] = f[n + 1] \o seqs[n + 2]
    BY <1>1, <2>1
  <2> QED
    BY <1>2, <2>2, <2>3, ConcatProperties
<1>6. Nat \subseteq P
  <2> HIDE DEF P
  <2> QED
    BY <1>4, <1>5, Induction
<1>7. ASSUME NEW n \in 1 .. Len(seqs) PROVE f[n] \in Seq(T)
  <2>1. n - 1 \in Nat /\ (n - 1) + 1 = n
    BY <1>3
  <2>2. n - 1 \in P
    BY <1>6, <2>1
  <2> QED
    BY <2>1, <2>2
<1> QED
  BY <1>1, <1>7 DEF Built

LEMMA FlattenEmpty == FlattenSeq(<< >>) = << >>
  BY FlattenIs

LEMMA FlattenOne ==
  ASSUME NEW T, NEW x \in Seq(T)
  PROVE  FlattenSeq(<<x>>) = x
<1> DEFINE s == <<x>>
<1>1. s \in Pieces(T) /\ Len(s) = 1 /\ s[1] = x
  BY DEF Pieces
<1> HIDE DEF s
<1>2. Len(s) \in Nat /\ Len(s) # 0
  BY <1>1
<1>3. PICK f : Flattens(f, s) /\ FlattenSeq(s) = f[Len(s)]
  BY <1>2, FlattenIs, Zenon
<1>4. f[1] = s[1]
  <2>1. Built(T, f, s)
    BY <1>1, <1>3, FlattenParts
  <2> QED
    BY <1>1, <2>1 DEF Built
<1>5. FlattenSeq(s) = x
  BY <1>1, <1>3, <1>4
<1> QED
  BY <1>5 DEF s

LEMMA FlattenType ==
  ASSUME NEW T, NEW seqs \in Pieces(T)
  PROVE  FlattenSeq(seqs) \in Seq(T)
<1>1. CASE Len(seqs) = 0
  <2>1. seqs = << >> /\ << >> \in Seq(T)
    BY <1>1, PiecesAre
  <2> QED
    BY <2>1, FlattenEmpty
<1>2. CASE Len(seqs) # 0
  <2>1. Len(seqs) \in 1 .. Len(seqs) /\ Len(seqs) \in Nat
    BY <1>2, PiecesAre
  <2>2. PICK f : Flattens(f, seqs) /\ FlattenSeq(seqs) = f[Len(seqs)]
    BY <1>2, <2>1, FlattenIs, Zenon
  <2>3. Built(T, f, seqs)
    BY <2>2, FlattenParts
  <2> QED
    BY <2>1, <2>2, <2>3 DEF Built
<1> QED
  BY <1>1, <1>2

\* The concatenations of a sequence and of the same with more behind it.
LEMMA FlattenSame ==
  ASSUME NEW T, NEW s \in Pieces(T), NEW t \in Pieces(T), NEW f, NEW g,
         Flattens(f, s), Flattens(g, t), NEW m \in Nat, m <= Len(s), m <= Len(t),
         \A n \in 1 .. m : s[n] = t[n]
  PROVE  \A n \in 1 .. m : f[n] = g[n]
<1>f. Built(T, f, s)
  BY FlattenParts
<1>g. Built(T, g, t)
  BY FlattenParts
<1>1. Len(s) \in Nat /\ Len(t) \in Nat
  BY PiecesAre
<1> DEFINE P == {n \in Nat : n + 1 \in 1 .. m => f[n + 1] = g[n + 1]}
<1>2. \A n \in 1 .. m : n \in 1 .. Len(s) /\ n \in 1 .. Len(t)
  BY <1>1
<1>3. 0 \in P
  <2> SUFFICES ASSUME 1 \in 1 .. m PROVE f[1] = g[1]
    OBVIOUS
  <2>1. 1 \in 1 .. Len(s) /\ 1 \in 1 .. Len(t)
    BY <1>2
  <2> QED
    BY <2>1, <1>f, <1>g DEF Built
<1>4. ASSUME NEW n \in Nat, n \in P PROVE n + 1 \in P
  <2> SUFFICES ASSUME n + 2 \in 1 .. m PROVE f[n + 2] = g[n + 2]
    OBVIOUS
  <2>1. n + 1 \in 1 .. m /\ (n + 2) - 1 = n + 1 /\ n + 2 # 1
    OBVIOUS
  <2>2. f[n + 1] = g[n + 1]
    BY <1>4, <2>1
  <2>3. f[n + 2] = f[n + 1] \o s[n + 2]
    <3>1. n + 2 \in 1 .. Len(s)
      BY <1>2
    <3> QED
      BY <2>1, <3>1, <1>f DEF Built
  <2>4. g[n + 2] = g[n + 1] \o t[n + 2]
    <3>1. n + 2 \in 1 .. Len(t)
      BY <1>2
    <3> QED
      BY <2>1, <3>1, <1>g DEF Built
  <2> QED
    BY <2>2, <2>3, <2>4
<1>5. Nat \subseteq P
  <2> HIDE DEF P
  <2> QED
    BY <1>3, <1>4, Induction
<1> SUFFICES ASSUME NEW n \in 1 .. m PROVE f[n] = g[n]
  OBVIOUS
<1>6. n - 1 \in Nat /\ (n - 1) + 1 = n
  OBVIOUS
<1>7. n - 1 \in P
  BY <1>5, <1>6
<1> QED
  BY <1>6, <1>7

LEMMA FlattenAppend ==
  ASSUME NEW T, NEW seqs \in Pieces(T), NEW x \in Seq(T)
  PROVE  FlattenSeq(Append(seqs, x)) = FlattenSeq(seqs) \o x
<1>0. /\ Append(seqs, x) \in Pieces(T) /\ Len(Append(seqs, x)) = Len(seqs) + 1
      /\ Append(seqs, x)[Len(seqs) + 1] = x
      /\ \A n \in 1 .. Len(seqs) : Append(seqs, x)[n] = seqs[n]
  BY DEF Pieces
<1> DEFINE more == Append(seqs, x)
<1>1. /\ Len(seqs) \in Nat /\ more \in Pieces(T) /\ Len(more) = Len(seqs) + 1 /\ more[Len(seqs) + 1] = x
      /\ \A n \in 1 .. Len(seqs) : seqs[n] = more[n]
  BY <1>0, PiecesAre
<1>2. CASE seqs = << >>
  <2>1. more = <<x>> /\ << >> \o x = x
    BY <1>2
  <2> QED
    BY <1>2, <2>1, FlattenEmpty, FlattenOne
<1>3. CASE seqs # << >>
  <2> HIDE DEF more
  <2>1. Len(seqs) # 0 /\ Len(more) # 0 /\ Len(more) \in Nat
    BY <1>1, <1>3, PiecesAre
  <2>2. PICK f : Flattens(f, seqs) /\ FlattenSeq(seqs) = f[Len(seqs)]
    BY <1>1, <2>1, FlattenIs
  <2>3. PICK g : Flattens(g, more) /\ FlattenSeq(more) = g[Len(more)]
    BY <2>1, FlattenIs
  <2> DEFINE m == Len(seqs)
  <2>4. m \in Nat /\ m <= Len(seqs) /\ m <= Len(more) /\ m \in 1 .. m
    BY <1>1, <2>1
  <2>5. f[m] = g[m]
    <3> HIDE DEF m
    <3>1. \A n \in 1 .. m : seqs[n] = more[n]
      BY <1>1 DEF m
    <3> QED
      BY SMTT(30), <1>1, <2>2, <2>3, <2>4, <3>1, FlattenSame
  <2>6. m + 1 \in 1 .. Len(more) /\ m + 1 # 1 /\ (m + 1) - 1 = m
    BY <1>1, <2>1
  <2>7. g[m + 1] = g[m] \o more[m + 1]
    <3>1. Built(T, g, more)
      BY <1>1, <2>3, FlattenParts
    <3> QED
      BY <2>6, <3>1 DEF Built
  <2> QED
    BY <1>1, <2>2, <2>3, <2>5, <2>7 DEF more
<1> QED
  BY <1>2, <1>3

LEMMA FlattenFront ==
  ASSUME NEW T, NEW x \in Seq(T), NEW seqs \in Pieces(T)
  PROVE  FlattenSeq(<<x>> \o seqs) = x \o FlattenSeq(seqs)
<1> DEFINE For(n) == \A s \in Pieces(T) : Len(s) = n => FlattenSeq(<<x>> \o s) = x \o FlattenSeq(s)
           P == {n \in Nat : For(n)}
<1>1. For(0)
  <2> SUFFICES ASSUME NEW s \in Pieces(T), Len(s) = 0 PROVE FlattenSeq(<<x>> \o s) = x \o FlattenSeq(s)
    BY Zenon
  <2>1. s = << >> /\ <<x>> \o << >> = <<x>> /\ x \o << >> = x
    BY PiecesAre
  <2> QED
    BY <2>1, FlattenEmpty, FlattenOne
<1>2. ASSUME NEW n \in Nat, For(n) PROVE For(n + 1)
  <2> SUFFICES ASSUME NEW s \in Pieces(T), Len(s) = n + 1 PROVE FlattenSeq(<<x>> \o s) = x \o FlattenSeq(s)
    BY Zenon
  <2>1. s # << >>
    BY PiecesAre
  <2>2. PICK front \in Pieces(T), y \in Seq(T) : s = Append(front, y)
    BY <2>1, SequenceEmptyOrAppend DEF Pieces
  <2>3. Len(front) = n
    BY <2>2, MorePieces, PiecesAre
  <2>4. FlattenSeq(<<x>> \o front) = x \o FlattenSeq(front)
    BY <1>2, <2>3
  <2>5. <<x>> \o s = Append(<<x>> \o front, y) /\ <<x>> \o front \in Pieces(T)
    BY <2>2 DEF Pieces
  <2>6. FlattenSeq(<<x>> \o s) = FlattenSeq(<<x>> \o front) \o y
    BY <2>5, FlattenAppend
  <2>7. FlattenSeq(s) = FlattenSeq(front) \o y /\ FlattenSeq(front) \in Seq(T)
    BY <2>2, FlattenAppend, FlattenType
  <2>8. (x \o FlattenSeq(front)) \o y = x \o (FlattenSeq(front) \o y)
    BY SMTT(30), <2>7, ConcatAssociative
  <2> QED
    BY <2>4, <2>6, <2>7, <2>8
<1> HIDE DEF For
<1>3. 0 \in P /\ \A n \in Nat : n \in P => n + 1 \in P
  BY <1>1, <1>2
<1>4. Nat \subseteq P
  <2> HIDE DEF P
  <2> QED
    BY <1>3, Induction
<1>5. Len(seqs) \in Nat
  BY PiecesAre
<1>6. For(Len(seqs))
  BY <1>4, <1>5
<1> QED
  BY <1>6 DEF For
=============================================================================
