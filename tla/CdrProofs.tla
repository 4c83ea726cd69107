------------------------------ MODULE CdrProofs ------------------------------
(***************************************************************************)
(* Lemmas on the operators that the conversions are made of.  First on     *)
(* numbers, sequences and folds: induction with a set for the property,    *)
(* what joined and cut sequences are, and what the operators of            *)
(* SequencesExt return that are defined by recursion.  Then on the codecs  *)
(* (Cdr), the types and values of the messages (Messages) and the samples  *)
(* of the middleware (RawSerdata): what a reader reads and where it stops, *)
(* that both languages read and write the same, and that what was written  *)
(* is read back.                                                           *)
(***************************************************************************)
EXTENDS Messages, RawSerdata, FiniteSetsExt, SequenceTheorems, WellFoundedInduction,
        TLAPS

-----------------------------------------------------------------------------
(* Induction.                                                              *)

\* A set of numbers that is not empty has a least element.
LEMMA LeastOf ==
    ASSUME NEW T, T \subseteq Nat, T # {}
    PROVE  \E n \in T : \A m \in T : n <= m
<1>1. \E x \in T : \A y \in T : <<y, x>> \notin OpToRel(<, Nat)
  BY NatLessThanWellFounded, WFMin
<1>2. \A x, y \in Nat : y < x => <<y, x>> \in OpToRel(<, Nat)
  BY DEF OpToRel
<1>3. PICK x \in T : \A y \in T : <<y, x>> \notin OpToRel(<, Nat)
  BY <1>1
<1>4. \A y \in T : ~(y < x)
  BY <1>2, <1>3
<1>5. \A m, n \in Nat : ~(m < n) => n <= m
  OBVIOUS
<1>6. \A y \in T : x <= y
  BY <1>3, <1>4, <1>5
<1> QED BY <1>3, <1>6

\* Induction over the numbers, with a set for the property: the library states it with
\* an operator for a parameter, which no prover here can instantiate.
LEMMA NatInductionSet ==
    ASSUME NEW P, 0 \in P, \A n \in Nat : n \in P => n + 1 \in P
    PROVE  Nat \subseteq P
<1> SUFFICES ASSUME ~(Nat \subseteq P) PROVE FALSE
  OBVIOUS
<1> DEFINE T == Nat \ P
<1>1. T \subseteq Nat /\ T # {}
  OBVIOUS
<1>2. PICK n \in T : \A m \in T : n <= m
  BY <1>1, LeastOf
<1>3. n # 0 /\ n - 1 \in Nat /\ n - 1 \notin T
  BY <1>2
<1>4. n - 1 \in P /\ (n - 1) + 1 = n
  BY <1>3
<1> QED BY <1>2, <1>3, <1>4

\* Induction over the sequences, from the empty one by Append, with a set for the property.
LEMMA SeqInductionSet ==
    ASSUME NEW S, NEW P, << >> \in P,
           \A s \in Seq(S), e \in S : s \in P => Append(s, e) \in P
    PROVE  Seq(S) \subseteq P
<1> DEFINE Q == {n \in Nat : \A s \in Seq(S) : Len(s) = n => s \in P}
<1>1. 0 \in Q
  <2>1. \A s \in Seq(S) : Len(s) = 0 => s = << >>
    OBVIOUS
  <2> QED BY <2>1
<1>2. \A n \in Nat : n \in Q => n + 1 \in Q
  <2> SUFFICES ASSUME NEW n \in Nat, n \in Q, NEW s \in Seq(S), Len(s) = n + 1
               PROVE  s \in P
    OBVIOUS
  <2> DEFINE f == SubSeq(s, 1, n)
             e == s[n + 1]
  <2>1. f \in Seq(S) /\ Len(f) = n /\ e \in S
    OBVIOUS
  <2>2. s = Append(f, e)
    OBVIOUS
  <2> HIDE DEF f, e
  <2>3. f \in P
    BY <2>1
  <2> QED BY <2>1, <2>2, <2>3
<1> HIDE DEF Q
<1>3. Nat \subseteq Q
  BY <1>1, <1>2, NatInductionSet
<1>4. \A s \in Seq(S) : Len(s) \in Nat
  OBVIOUS
<1> QED BY <1>3, <1>4 DEF Q

-----------------------------------------------------------------------------
(* Sequences joined and cut.                                               *)

\* A sequence that is not empty ends in an element.
LEMMA Splits ==
    ASSUME NEW S, NEW p \in Seq(S), p # << >>
    PROVE  \E q \in Seq(S), t \in S : p = Append(q, t) /\ Len(p) = Len(q) + 1
<1>1. PICK n \in Nat : Len(p) = n + 1
  <2>1. Len(p) \in Nat /\ Len(p) # 0
    OBVIOUS
  <2>2. \A k \in Nat : k # 0 => k - 1 \in Nat /\ k = (k - 1) + 1
    OBVIOUS
  <2> QED BY <2>1, <2>2
<1> DEFINE q == SubSeq(p, 1, n)
           t == p[n + 1]
<1>2. q \in Seq(S) /\ Len(q) = n /\ t \in S
  BY <1>1
<1>3. p = Append(q, t)
  BY <1>1
<1> HIDE DEF q, t
<1> QED BY <1>1, <1>2, <1>3

\* Of two sequences that both begin another one, the shorter begins the longer.
LEMMA PrefixesNest ==
    ASSUME NEW S, NEW p \in Seq(S), NEW q \in Seq(S), NEW t \in Seq(S),
           IsPrefix(p, t), IsPrefix(q, t)
    PROVE  IsPrefix(p, q) \/ IsPrefix(q, p)
<1>1. ASSUME NEW a \in Seq(S), NEW b \in Seq(S), IsPrefix(a, t), IsPrefix(b, t),
             Len(a) <= Len(b)
      PROVE  IsPrefix(a, b)
  <2>1. /\ Len(a) \in Nat /\ Len(b) \in Nat /\ Len(t) \in Nat
        /\ Len(a) <= Len(t) /\ Len(b) <= Len(t)
    BY <1>1 DEF IsPrefix
  <2>2. \A i \in 1..Len(a) : a[i] = t[i]
    BY <1>1, <2>1 DEF IsPrefix
  <2>3. \A i \in 1..Len(b) : b[i] = t[i]
    BY <1>1, <2>1 DEF IsPrefix
  <2>4. \A i \in 1..Len(a) : a[i] = b[i]
    BY <1>1, <2>1, <2>2, <2>3
  <2>5. SubSeq(a, 1, Len(a)) = SubSeq(b, 1, Len(a))
    BY <1>1, <2>1, <2>4
  <2> QED BY <1>1, <2>5 DEF IsPrefix
<1>2. Len(p) \in Nat /\ Len(q) \in Nat
  OBVIOUS
<1> QED BY <1>1, <1>2

\* An equation with \o, named so that it stays a fact of its own in a proof.
Joins(ss, s1, s2) == ss = s1 \o s2

\* What two sequences joined have at which place.
LEMMA Joined ==
    ASSUME NEW SS, NEW s1 \in Seq(SS), NEW s2 \in Seq(SS), NEW ss, Joins(ss, s1, s2)
    PROVE  /\ ss \in Seq(SS) /\ Len(s1) \in Nat /\ Len(s2) \in Nat
           /\ Len(ss) = Len(s1) + Len(s2)
           /\ \A i \in 1..Len(s1) : ss[i] = s1[i]
           /\ \A i \in 1..Len(s2) : ss[Len(s1) + i] = s2[i]
<1>1. /\ ss \in Seq(SS) /\ Len(ss) = Len(s1) + Len(s2)
      /\ \A i \in 1..(Len(s1) + Len(s2)) :
           ss[i] = IF i <= Len(s1) THEN s1[i] ELSE s2[i - Len(s1)]
  BY ConcatProperties DEF Joins
<1>2. Len(s1) \in Nat /\ Len(s2) \in Nat
  OBVIOUS
<1>4. \A m, n \in Nat : \A i \in 1..n : /\ m + i \in 1..(m + n) /\ ~(m + i <= m)
                                        /\ (m + i) - m = i
  OBVIOUS
<1>5. \A m, n \in Nat : \A i \in 1..m : i \in 1..(m + n) /\ i <= m
  OBVIOUS
<1>6. \A i \in 1..Len(s2) : ss[Len(s1) + i] = s2[i]
  BY <1>1, <1>2, <1>4
<1>7. \A i \in 1..Len(s1) : ss[i] = s1[i]
  BY <1>1, <1>2, <1>5
<1> QED BY <1>1, <1>2, <1>6, <1>7

\* What a sequence behind one first element has at which place.
LEMMA FirstPiece ==
    ASSUME NEW S, NEW fqn \in Seq(S), NEW x \in S, NEW w, Joins(w, <<x>>, fqn)
    PROVE  /\ w \in Seq(S) /\ w # << >> /\ w[1] = x /\ Len(w) = Len(fqn) + 1
           /\ \A i \in 1..Len(fqn) : w[i + 1] = fqn[i]
<1> DEFINE a == <<x>>
<1>1. a \in Seq(S)
  OBVIOUS
<1>2. Len(a) = 1 /\ a[1] = x
  OBVIOUS
<1>3. Joins(w, a, fqn)
  OBVIOUS
<1> HIDE DEF a
<1>4. /\ w \in Seq(S) /\ Len(w) = Len(a) + Len(fqn) /\ Len(fqn) \in Nat
      /\ \A i \in 1..Len(a) : w[i] = a[i]
      /\ \A i \in 1..Len(fqn) : w[Len(a) + i] = fqn[i]
  BY <1>1, <1>3, Joined
<1>5. 1 \in 1..Len(a) /\ \A i \in 1..Len(fqn) : Len(a) + i = i + 1
  BY <1>2, <1>4
<1>6. w[1] = x /\ \A i \in 1..Len(fqn) : w[i + 1] = fqn[i]
  BY <1>2, <1>4, <1>5
<1>7. Len(w) = Len(fqn) + 1 /\ Len(w) # 0
  BY <1>2, <1>4
<1>8. w # << >>
  BY <1>7
<1> QED BY <1>4, <1>6, <1>7, <1>8

\* What a sequence before one last element has at which place.
LEMMA LastPiece ==
    ASSUME NEW S, NEW s \in Seq(S), NEW z \in S, NEW w, Joins(w, s, <<z>>)
    PROVE  /\ w \in Seq(S) /\ Len(w) = Len(s) + 1 /\ Last(w) = z
           /\ \A i \in 1..Len(s) : w[i] = s[i]
<1> DEFINE a == <<z>>
<1>1. a \in Seq(S)
  OBVIOUS
<1>2. Len(a) = 1 /\ a[1] = z
  OBVIOUS
<1>3. Joins(w, s, a)
  OBVIOUS
<1> HIDE DEF a
<1>4. /\ w \in Seq(S) /\ Len(w) = Len(s) + Len(a) /\ Len(s) \in Nat
      /\ \A i \in 1..Len(s) : w[i] = s[i]
      /\ \A i \in 1..Len(a) : w[Len(s) + i] = a[i]
  BY <1>1, <1>3, Joined
<1>5. 1 \in 1..Len(a)
  BY <1>2
<1>6. Last(w) = z /\ Len(w) = Len(s) + 1
  BY <1>2, <1>4, <1>5 DEF Last
<1> QED BY <1>4, <1>6

\* The length and the elements of a part of a sequence, empty parts included.
LEMMA PiecesOfSubSeq ==
    ASSUME NEW S, NEW s \in Seq(S), NEW m \in Nat, NEW n \in Nat, 1 <= m, m <= n + 1, n <= Len(s)
    PROVE  /\ SubSeq(s, m, n) \in Seq(S) /\ Len(SubSeq(s, m, n)) = n - m + 1
           /\ \A i \in 1..(n - m + 1) : SubSeq(s, m, n)[i] = s[m + i - 1]
<1>1. \A i \in m..n : s[i] \in S
  OBVIOUS
<1>2. /\ SubSeq(s, m, n) \in Seq(S)
      /\ Len(SubSeq(s, m, n)) = IF m <= n THEN n - m + 1 ELSE 0
      /\ \A i \in 1..(n - m + 1) : SubSeq(s, m, n)[i] = s[m + i - 1]
  BY <1>1, SubSeqProperties
<1>3. (IF m <= n THEN n - m + 1 ELSE 0) = n - m + 1
  OBVIOUS
<1> QED BY <1>2, <1>3

\* A sequence of one known element.
LEMMA OnePiece ==
    ASSUME NEW S, NEW s \in Seq(S), NEW x \in S, Len(s) = 1, s[1] = x
    PROVE  s = <<x>>
<1>1. <<x>> \in Seq(S) /\ Len(<<x>>) = 1 /\ <<x>>[1] = x
  OBVIOUS
<1> DEFINE t == <<x>>
<1> HIDE DEF t
<1>2. \A i \in 1..Len(s) : i = 1
  OBVIOUS
<1>3. s = t
  BY <1>1, <1>2, SeqEqual DEF t
<1> QED BY <1>3 DEF t

\* A sequence of three known elements.
LEMMA ThreePieces ==
    ASSUME NEW S, NEW s \in Seq(S), NEW x \in S, NEW y \in S, NEW z \in S,
           Len(s) = 3, s[1] = x, s[2] = y, s[3] = z
    PROVE  s = <<x, y, z>>
<1> DEFINE t == <<x, y, z>>
<1>1. t \in Seq(S) /\ Len(t) = 3 /\ t[1] = x /\ t[2] = y /\ t[3] = z
  OBVIOUS
<1> HIDE DEF t
<1>2. \A i \in 1..Len(s) : i = 1 \/ i = 2 \/ i = 3
  OBVIOUS
<1>3. \A i \in 1..Len(s) : s[i] = t[i]
  BY <1>1, <1>2
<1>4. s = t
  BY <1>1, <1>3, SeqEqual
<1> QED BY <1>4 DEF t

\* Three sequences of one element each.
LEMMA ThreeJoined ==
    ASSUME NEW x, NEW y, NEW z
    PROVE  <<x>> \o <<y>> \o <<z>> = <<x, y, z>>
<1> DEFINE S == {x, y, z}
           a == <<x>>
           b == <<y>>
           c == <<z>>
           d == a \o b
           e == d \o c
<1>1. /\ a \in Seq(S) /\ b \in Seq(S) /\ c \in Seq(S) /\ Len(a) = 1 /\ Len(b) = 1
      /\ Len(c) = 1 /\ a[1] = x /\ b[1] = y /\ c[1] = z /\ x \in S /\ y \in S /\ z \in S
  OBVIOUS
<1> HIDE DEF S, a, b, c
<1>0. 1 \in 1..1 /\ 1 + 1 = 2 /\ 1 \in 1..2 /\ 2 \in 1..2 /\ 2 + 1 = 3
  OBVIOUS
<1>5. /\ d \in Seq(S) /\ Len(d) = Len(a) + Len(b)
      /\ \A i \in 1..Len(a) : d[i] = a[i]
      /\ \A i \in 1..Len(b) : d[Len(a) + i] = b[i]
  <2>1. Joins(d, a, b)
    BY DEF Joins
  <2>2. a \in Seq(S) /\ b \in Seq(S)
    BY <1>1
  <2> HIDE DEF d
  <2> QED BY <2>1, <2>2, Joined
<1> HIDE DEF d
<1>2. d \in Seq(S) /\ Len(d) = 2 /\ d[1] = x /\ d[2] = y
  BY <1>0, <1>1, <1>5
<1>6. /\ e \in Seq(S) /\ Len(e) = Len(d) + Len(c)
      /\ \A i \in 1..Len(d) : e[i] = d[i]
      /\ \A i \in 1..Len(c) : e[Len(d) + i] = c[i]
  <2>1. Joins(e, d, c)
    BY DEF Joins
  <2>2. d \in Seq(S) /\ c \in Seq(S)
    BY <1>1, <1>2
  <2> HIDE DEF e
  <2> QED BY <2>1, <2>2, Joined
<1> HIDE DEF e
<1>3. e \in Seq(S) /\ Len(e) = 3 /\ e[1] = x /\ e[2] = y /\ e[3] = z
  BY <1>0, <1>1, <1>2, <1>6
<1>4. e = <<x, y, z>>
  BY <1>1, <1>3, ThreePieces
<1> QED BY <1>4 DEF a, b, c, d, e

\* Three elements and one more.
LEMMA FourPieces ==
    ASSUME NEW x, NEW y, NEW z, NEW v
    PROVE  <<x, y, z>> \o <<v>> = <<x, y, z, v>>
<1> DEFINE S == {x, y, z, v}
           a == <<x, y, z>>
           b == <<v>>
           c == <<x, y, z, v>>
           e == a \o b
<1>1. /\ a \in Seq(S) /\ b \in Seq(S) /\ c \in Seq(S) /\ Len(a) = 3 /\ Len(b) = 1 /\ Len(c) = 4
      /\ a[1] = x /\ a[2] = y /\ a[3] = z /\ b[1] = v
      /\ c[1] = x /\ c[2] = y /\ c[3] = z /\ c[4] = v
  OBVIOUS
<1> HIDE DEF S, a, b, c
<1>6. /\ e \in Seq(S) /\ Len(e) = Len(a) + Len(b)
      /\ \A i \in 1..Len(a) : e[i] = a[i]
      /\ \A i \in 1..Len(b) : e[Len(a) + i] = b[i]
  <2>1. Joins(e, a, b)
    BY DEF Joins
  <2>2. a \in Seq(S) /\ b \in Seq(S)
    BY <1>1
  <2> HIDE DEF e
  <2> QED BY <2>1, <2>2, Joined
<1> HIDE DEF e
<1>7. 1 \in 1..3 /\ 2 \in 1..3 /\ 3 \in 1..3 /\ 1 \in 1..1 /\ 3 + 1 = 4
  OBVIOUS
<1>2. e \in Seq(S) /\ Len(e) = 4 /\ e[1] = x /\ e[2] = y /\ e[3] = z /\ e[4] = v
  BY <1>1, <1>6, <1>7
<1>3. \A i \in 1..4 : i = 1 \/ i = 2 \/ i = 3 \/ i = 4
  OBVIOUS
<1>4. \A i \in 1..Len(e) : e[i] = c[i]
  BY <1>1, <1>2, <1>3
<1>5. e = c
  BY <1>1, <1>2, <1>4, SeqEqual
<1> QED BY <1>5 DEF a, b, c, e

\* A piece alone is a part of a sequence that has it.
LEMMA OneOfSubSeqs ==
    ASSUME NEW S, NEW s \in Seq(S), NEW x \in S
    PROVE  <<x>> \in SubSeqs(s) <=> \E i \in 1..Len(s) : s[i] = x
<1>0. Len(s) \in Nat
  OBVIOUS
<1>1. ASSUME NEW i \in 1..Len(s), s[i] = x PROVE <<x>> \in SubSeqs(s)
  <2>1. i - 1 \in 0..Len(s) /\ i \in 0..Len(s) /\ (i - 1) + 1 = i
    BY <1>0
  <2>2. SubSeq(s, i, i) = <<x>>
    <3>1. i \in Nat /\ 1 <= i /\ i <= i + 1 /\ i <= Len(s) /\ i - i + 1 = 1 /\ i + 1 - 1 = i
      BY <1>0
    <3> DEFINE q == SubSeq(s, i, i)
    <3>2. q \in Seq(S) /\ Len(q) = 1 /\ q[1] = s[i + 1 - 1]
      BY <3>1, PiecesOfSubSeq
    <3> HIDE DEF q
    <3>3. q = <<x>>
      BY <1>1, <3>1, <3>2, OnePiece
    <3> QED BY <3>3 DEF q
  <2>3. <<x>> = SubSeq(s, (i - 1) + 1, i)
    BY <2>1, <2>2, Zenon
  <2> DEFINE y == <<x>>
  <2>4. y = SubSeq(s, (i - 1) + 1, i)
    BY <2>3
  <2> HIDE DEF y
  <2>5. y \in SubSeqs(s)
    <3>1. \E a, b \in 0..Len(s) : y = SubSeq(s, a + 1, b)
      BY <2>1, <2>4, Zenon
    <3> QED BY <3>1 DEF SubSeqs
  <2> QED BY <2>5 DEF y
<1>2. ASSUME <<x>> \in SubSeqs(s) PROVE \E i \in 1..Len(s) : s[i] = x
  <2>1. PICK i, j \in 0..Len(s) : <<x>> = SubSeq(s, i + 1, j)
    BY <1>2 DEF SubSeqs
  <2>2. i + 1 <= j
    <3> SUFFICES ASSUME ~(i + 1 <= j) PROVE FALSE
      OBVIOUS
    <3>1. SubSeq(s, i + 1, j) = << >>
      BY <1>0, SubSeqEmpty
    <3> QED BY <2>1, <3>1
  <2>3. i + 1 \in 1..Len(s) /\ SubSeq(s, i + 1, j)[1] = s[i + 1]
    BY <1>0, <2>2
  <2>4. <<x>>[1] = x
    OBVIOUS
  <2> QED BY <2>1, <2>3, <2>4
<1> QED BY <1>1, <1>2

-----------------------------------------------------------------------------
(* FlattenSeq.                                                             *)

\* What the recursive function inside FlattenSeq satisfies.
Flattens(f, ss, n) ==
    f = [i \in 1..n |-> IF i = 1 THEN ss[i] ELSE f[i - 1] \o ss[i]]

\* The recursive function inside FlattenSeq is defined, for any length.
LEMMA FlattensExists ==
    ASSUME NEW ss, NEW n \in Nat
    PROVE  \E f : Flattens(f, ss, n)
<1> DEFINE P == {k \in Nat : \E f : Flattens(f, ss, k)}
<1>1. 0 \in P
  <2>1. Flattens([i \in 1..0 |-> ss], ss, 0)
    BY DEF Flattens
  <2> QED BY <2>1
<1>2. \A k \in Nat : k \in P => k + 1 \in P
  <2> SUFFICES ASSUME NEW k \in Nat, NEW f, Flattens(f, ss, k)
               PROVE  \E g : Flattens(g, ss, k + 1)
    OBVIOUS
  <2> DEFINE g == [i \in 1..(k + 1) |->
                     IF i <= k THEN f[i]
                     ELSE IF i = 1 THEN ss[i] ELSE f[i - 1] \o ss[i]]
  <2>1. \A i \in 1..(k + 1) : g[i] = IF i = 1 THEN ss[i] ELSE g[i - 1] \o ss[i]
    <3> SUFFICES ASSUME NEW i \in 1..(k + 1)
                 PROVE  g[i] = IF i = 1 THEN ss[i] ELSE g[i - 1] \o ss[i]
      OBVIOUS
    <3>1. CASE i <= k
      <4>1. i \in 1..k /\ (i # 1 => i - 1 \in 1..(k + 1) /\ i - 1 <= k)
        BY <3>1
      <4>2. f[i] = IF i = 1 THEN ss[i] ELSE f[i - 1] \o ss[i]
        BY <4>1 DEF Flattens
      <4>3. i # 1 => g[i - 1] = f[i - 1]
        BY <4>1
      <4>4. g[i] = f[i]
        BY <3>1
      <4> HIDE DEF g
      <4> QED BY <4>2, <4>3, <4>4
    <3>2. CASE i = k + 1
      <4>1. ~(i <= k) /\ (i # 1 => i - 1 \in 1..(k + 1) /\ i - 1 <= k)
        BY <3>2
      <4>2. i # 1 => g[i - 1] = f[i - 1]
        BY <4>1
      <4>3. g[i] = IF i = 1 THEN ss[i] ELSE f[i - 1] \o ss[i]
        BY <4>1
      <4> HIDE DEF g
      <4> QED BY <4>2, <4>3
    <3> QED BY <3>1, <3>2
  <2>2. g = [i \in 1..(k + 1) |-> g[i]]
    OBVIOUS
  <2> HIDE DEF g
  <2>3. Flattens(g, ss, k + 1)
    BY <2>1, <2>2 DEF Flattens
  <2> QED BY <2>3
<1> HIDE DEF P
<1>3. n \in P
  BY <1>1, <1>2, NatInductionSet
<1> QED BY <1>3 DEF P

\* The equation at one place.
LEMMA FlattensAt ==
    ASSUME NEW ss, NEW f, NEW n \in Nat, Flattens(f, ss, n), NEW i \in 1..n
    PROVE  f[i] = IF i = 1 THEN ss[i] ELSE f[i - 1] \o ss[i]
BY DEF Flattens

\* Of two sequences that begin alike, what is flattened is alike as far.
LEMMA FlattensAgree ==
    ASSUME NEW ss, NEW tt, NEW f, NEW g, NEW m \in Nat, NEW n \in Nat,
           Flattens(f, ss, m), Flattens(g, tt, n),
           m <= n, \A i \in 1..m : ss[i] = tt[i]
    PROVE  \A i \in 1..m : f[i] = g[i]
<1> DEFINE P == {k \in Nat : k \in 1..m => f[k] = g[k]}
<1>1. 0 \in P
  OBVIOUS
<1>2. \A k \in Nat : k \in P => k + 1 \in P
  <2> SUFFICES ASSUME NEW k \in Nat, k \in P, k + 1 \in 1..m
               PROVE  f[k + 1] = g[k + 1]
    OBVIOUS
  <2>1. k + 1 \in 1..n /\ (k + 1) - 1 = k /\ (k + 1 # 1 => k \in 1..m)
    OBVIOUS
  <2>2. f[k + 1] = IF k + 1 = 1 THEN ss[k + 1] ELSE f[k] \o ss[k + 1]
    <3> DEFINE i == k + 1
    <3>1. i \in 1..m /\ i - 1 = k
      BY <2>1
    <3> HIDE DEF i
    <3>2. f[i] = IF i = 1 THEN ss[i] ELSE f[i - 1] \o ss[i]
      BY <3>1, FlattensAt
    <3> QED BY <3>1, <3>2, Zenon DEF i
  <2>3. g[k + 1] = IF k + 1 = 1 THEN tt[k + 1] ELSE g[k] \o tt[k + 1]
    <3> DEFINE i == k + 1
    <3>1. i \in 1..n /\ i - 1 = k
      BY <2>1
    <3> HIDE DEF i
    <3>2. g[i] = IF i = 1 THEN tt[i] ELSE g[i - 1] \o tt[i]
      BY <3>1, FlattensAt
    <3> QED BY <3>1, <3>2, Zenon DEF i
  <2>4. k + 1 # 1 => f[k] = g[k]
    BY <2>1
  <2> QED BY <2>2, <2>3, <2>4
<1> HIDE DEF P
<1>3. \A i \in 1..m : i \in Nat /\ i \in P
  BY <1>1, <1>2, NatInductionSet
<1> QED BY <1>3 DEF P

\* FlattenSeq returns the last value of that function.
LEMMA FlattenSeqIs ==
    ASSUME NEW ss, NEW n \in Nat, Len(ss) = n, n # 0
    PROVE  \E f : Flattens(f, ss, n) /\ FlattenSeq(ss) = f[n]
<1> DEFINE f == CHOOSE f : f = [i \in 1..Len(ss) |->
                                  IF i = 1 THEN ss[i] ELSE f[i - 1] \o ss[i]]
<1>1. FlattenSeq(ss) = f[n]
  BY DEF FlattenSeq
<1>2. Flattens(f, ss, n)
  BY FlattensExists DEF Flattens
<1> QED BY <1>1, <1>2

\* Nothing to flatten.
LEMMA FlattenSeqEmpty ==
    FlattenSeq(<< >>) = << >>
BY DEF FlattenSeq

\* FlattenSeq unrolled at its end: what is flattened, and then the last sequence.
LEMMA FlattenSeqAppend ==
    ASSUME NEW S, NEW ss \in Seq(Seq(S)), NEW s \in Seq(S)
    PROVE  FlattenSeq(Append(ss, s)) = FlattenSeq(ss) \o s
<1> DEFINE n == Len(ss)
           tt == Append(ss, s)
<1>1. /\ n \in Nat /\ Len(tt) = n + 1 /\ n + 1 # 0 /\ (n + 1) - 1 = n
      /\ tt[n + 1] = s /\ \A i \in 1..n : ss[i] = tt[i]
  OBVIOUS
<1> HIDE DEF tt
<1>2. PICK g : Flattens(g, tt, n + 1) /\ FlattenSeq(tt) = g[n + 1]
  BY <1>1, FlattenSeqIs
<1>3. CASE n = 0
  <2>1. ss = << >>
    BY <1>3
  <2>2. g[1] = tt[1] /\ tt[1] = s
    BY <1>1, <1>2, <1>3 DEF Flattens
  <2>3. << >> \o s = s
    OBVIOUS
  <2> QED BY <1>2, <1>3, <2>1, <2>2, <2>3, FlattenSeqEmpty DEF tt
<1>4. CASE n # 0
  <2>1. PICK f : Flattens(f, ss, n) /\ FlattenSeq(ss) = f[n]
    BY <1>1, <1>4, FlattenSeqIs
  <2>2. f[n] = g[n]
    <3>1. n + 1 \in Nat /\ n <= n + 1 /\ n \in 1..n
      BY <1>1, <1>4
    <3> HIDE DEF n
    <3>2. /\ n \in Nat /\ \A i \in 1..n : ss[i] = tt[i]
          /\ Flattens(f, ss, n) /\ Flattens(g, tt, n + 1)
      BY <1>1, <1>2, <2>1
    <3>3. \A i \in 1..n : f[i] = g[i]
      BY <3>1, <3>2, FlattensAgree
    <3> QED BY <3>1, <3>3
  <2>3. n + 1 \in 1..(n + 1) /\ n + 1 # 1
    BY <1>1, <1>4
  <2>4. g[n + 1] = g[(n + 1) - 1] \o tt[n + 1]
    BY <1>2, <2>3 DEF Flattens
  <2> QED BY <1>1, <1>2, <2>1, <2>2, <2>4 DEF tt
<1> QED BY <1>3, <1>4

-----------------------------------------------------------------------------
(* Folds.                                                                  *)

\* The largest of the first numbers, and of a set that holds the largest.
LEMMA MaxIs ==
    ASSUME NEW s, s \subseteq Nat, NEW m \in s, \A x \in s : x <= m
    PROVE  Max(s) = m
<1>1. \A x \in s : m >= x
  OBVIOUS
<1>2. \A y \in s : (\A x \in s : y >= x) => y = m
  <2> SUFFICES ASSUME NEW y \in s, \A x \in s : y >= x PROVE y = m
    OBVIOUS
  <2>1. y >= m /\ y <= m /\ y \in Nat /\ m \in Nat
    OBVIOUS
  <2> QED BY <2>1
<1> QED BY <1>1, <1>2 DEF Max

\* What the recursive function inside FoldLeft satisfies, with the operator as a function of
\* the value so far and the place in the sequence.
Iterates(it, R, g, base, n) ==
    /\ it \in [SUBSET (1..n) -> R]
    /\ \A s \in SUBSET (1..n) :
         it[s] = IF s = {} THEN base ELSE g[<<it[s \ {Max(s)}], Max(s)>>]

\* Such a function exists: the recursion inside FoldLeft is well founded.
LEMMA IteratesExists ==
    ASSUME NEW R, NEW base \in R, NEW N \in Nat, NEW g \in [R \X (1..N) -> R]
    PROVE  \E it : Iterates(it, R, g, base, N)
<1> DEFINE P == {n \in Nat : n <= N => \E it : Iterates(it, R, g, base, n)}
<1>1. 0 \in P
  <2> DEFINE it == [s \in SUBSET (1..0) |-> base]
  <2>1. \A s \in SUBSET (1..0) : s = {}
    OBVIOUS
  <2>2. it \in [SUBSET (1..0) -> R] /\ \A s \in SUBSET (1..0) : it[s] = base
    OBVIOUS
  <2> HIDE DEF it
  <2>3. Iterates(it, R, g, base, 0)
    BY <2>1, <2>2 DEF Iterates
  <2> QED BY <2>3
<1>2. \A n \in Nat : n \in P => n + 1 \in P
  <2> SUFFICES ASSUME NEW n \in Nat, n + 1 <= N, NEW it, Iterates(it, R, g, base, n)
               PROVE  \E jt : Iterates(jt, R, g, base, n + 1)
    <3>1. \A n \in Nat : n + 1 <= N => n <= N
      OBVIOUS
    <3> QED BY <3>1
  <2> DEFINE jt == [s \in SUBSET (1..(n + 1)) |->
                      IF n + 1 \in s THEN g[<<it[s \ {n + 1}], n + 1>>] ELSE it[s]]
  <2>0. /\ it \in [SUBSET (1..n) -> R]
        /\ \A s \in SUBSET (1..n) :
             it[s] = IF s = {} THEN base ELSE g[<<it[s \ {Max(s)}], Max(s)>>]
    BY DEF Iterates
  <2>1. \A s \in SUBSET (1..(n + 1)) : n + 1 \notin s => s \in SUBSET (1..n)
    <3>1. \A x \in 1..(n + 1) : x # n + 1 => x \in 1..n
      OBVIOUS
    <3> QED BY <3>1
  <2>2. \A s \in SUBSET (1..(n + 1)) : s \ {n + 1} \in SUBSET (1..n)
    <3>1. \A x \in 1..(n + 1) : x # n + 1 => x \in 1..n
      OBVIOUS
    <3> QED BY <3>1
  <2>3. n + 1 \in 1..N
    OBVIOUS
  <2>4. \A s \in SUBSET (1..(n + 1)) :
          jt[s] = IF n + 1 \in s THEN g[<<it[s \ {n + 1}], n + 1>>] ELSE it[s]
    OBVIOUS
  <2>5. ASSUME NEW s \in SUBSET (1..(n + 1))
        PROVE  /\ n + 1 \in s => it[s \ {n + 1}] \in R /\ g[<<it[s \ {n + 1}], n + 1>>] \in R
               /\ n + 1 \notin s => it[s] \in R
    <3>1. s \ {n + 1} \in SUBSET (1..n) /\ (n + 1 \notin s => s \in SUBSET (1..n))
      BY <2>1, <2>2
    <3>2. it[s \ {n + 1}] \in R /\ (n + 1 \notin s => it[s] \in R)
      BY <2>0, <3>1
    <3> QED BY <2>3, <3>2
  <2>6. jt \in [SUBSET (1..(n + 1)) -> R]
    BY <2>5
  <2> HIDE DEF jt
  <2>7. ASSUME NEW s \in SUBSET (1..(n + 1))
        PROVE  jt[s] = IF s = {} THEN base ELSE g[<<jt[s \ {Max(s)}], Max(s)>>]
    <3>1. CASE n + 1 \in s
      <4>1. Max(s) = n + 1
        <5>1. s \subseteq Nat /\ \A x \in s : x <= n + 1
          OBVIOUS
        <5> QED BY <3>1, <5>1, MaxIs
      <4>2. s \ {n + 1} \in SUBSET (1..(n + 1)) /\ n + 1 \notin s \ {n + 1}
        OBVIOUS
      <4>3. jt[s \ {n + 1}] = it[s \ {n + 1}]
        BY <2>4, <4>2
      <4>4. jt[s] = g[<<it[s \ {n + 1}], n + 1>>]
        BY <2>4, <3>1
      <4> QED BY <3>1, <4>1, <4>3, <4>4
    <3>2. CASE n + 1 \notin s
      <4>1. s \in SUBSET (1..n) /\ jt[s] = it[s]
        BY <2>1, <2>4, <3>2
      <4>2. it[s] = IF s = {} THEN base ELSE g[<<it[s \ {Max(s)}], Max(s)>>]
        BY <2>0, <4>1
      <4>3. /\ s \ {Max(s)} \in SUBSET (1..(n + 1)) /\ n + 1 \notin s \ {Max(s)}
        BY <3>2
      <4>4. jt[s \ {Max(s)}] = it[s \ {Max(s)}]
        BY <2>4, <4>3
      <4> QED BY <4>1, <4>2, <4>4
    <3> QED BY <3>1, <3>2
  <2>8. Iterates(jt, R, g, base, n + 1)
    BY <2>6, <2>7 DEF Iterates
  <2> QED BY <2>8
<1> HIDE DEF P
<1>3. N \in P
  BY <1>1, <1>2, NatInductionSet
<1> QED BY <1>3 DEF P

\* A run of the recursive function along the sequence.
LEMMA FirstNumbers ==
    ASSUME NEW k \in Nat
    PROVE  /\ Max(1..(k + 1)) = k + 1 /\ 1..(k + 1) # {} /\ (1..(k + 1)) \ {k + 1} = 1..k
           /\ 1..0 = {}
<1>1. 1..(k + 1) \subseteq Nat /\ k + 1 \in 1..(k + 1) /\ \A x \in 1..(k + 1) : x <= k + 1
  OBVIOUS
<1>2. Max(1..(k + 1)) = k + 1
  BY <1>1, MaxIs
<1> QED BY <1>1, <1>2

\* The largest of some of the first numbers is one of them.
LEMMA MaxIn ==
    ASSUME NEW n \in Nat, NEW s \in SUBSET (1..n), s # {}
    PROVE  Max(s) \in s
<1> DEFINE T == {n - x : x \in s}
<1>1. T \subseteq Nat /\ T # {}
  OBVIOUS
<1>2. PICK t \in T : \A u \in T : t <= u
  BY <1>1, LeastOf
<1>3. PICK m \in s : t = n - m
  BY <1>2
<1>4. \A x \in s : x <= m
  <2> SUFFICES ASSUME NEW x \in s PROVE x <= m
    OBVIOUS
  <2>1. n - m <= n - x
    BY <1>2, <1>3
  <2>2. n \in Nat /\ m \in Nat /\ x \in Nat
    OBVIOUS
  <2> HIDE DEF T
  <2> QED BY <2>1, <2>2
<1>5. s \subseteq Nat
  OBVIOUS
<1> HIDE DEF T
<1>6. Max(s) = m
  BY <1>3, <1>4, <1>5, MaxIs
<1> QED BY <1>3, <1>6

\* The values that a fold goes through.
Run(F, R, g, base, n) ==
    /\ F \in [0..n -> R] /\ F[0] = base
    /\ \A k \in 1..n : F[k] = g[<<F[k - 1], k>>]

\* A function that satisfies the recursion as long as the values are in R.
Along(it, R, g, base, n) ==
    /\ base \in R /\ n \in Nat /\ g \in [R \X (1..n) -> R] /\ it[{}] = base
    /\ \A s \in SUBSET (1..n) : s # {} /\ it[s \ {Max(s)}] \in R =>
         it[s] = g[<<it[s \ {Max(s)}], Max(s)>>]

\* The recursive function of a fold, along the beginnings of the sequence.
LEMMA RunOf ==
    ASSUME NEW R, NEW base, NEW n, NEW g, NEW it, Along(it, R, g, base, n)
    PROVE  \E F : Run(F, R, g, base, n) /\ F[n] = it[1..n]
<1>0. /\ base \in R /\ n \in Nat /\ g \in [R \X (1..n) -> R] /\ it[{}] = base
      /\ \A s \in SUBSET (1..n) : s # {} /\ it[s \ {Max(s)}] \in R =>
           it[s] = g[<<it[s \ {Max(s)}], Max(s)>>]
  BY DEF Along
<1>1. ASSUME NEW k \in Nat, k + 1 <= n, it[1..k] \in R
      PROVE  it[1..(k + 1)] = g[<<it[1..k], k + 1>>]
  <2>1. /\ Max(1..(k + 1)) = k + 1 /\ 1..(k + 1) # {} /\ (1..(k + 1)) \ {k + 1} = 1..k
    BY FirstNumbers
  <2>2. 1..(k + 1) \in SUBSET (1..n)
    BY <1>0, <1>1
  <2> QED BY <1>0, <1>1, <2>1, <2>2
<1> DEFINE F == [k \in 0..n |-> it[1..k]]
           P == {k \in Nat : k <= n => it[1..k] \in R}
<1>2. 0 \in P /\ it[1..0] = base
  <2>1. 1..0 = {}
    OBVIOUS
  <2> QED BY <1>0, <2>1
<1>3. \A k \in Nat : k \in P => k + 1 \in P
  <2> SUFFICES ASSUME NEW k \in Nat, k \in P, k + 1 <= n PROVE it[1..(k + 1)] \in R
    OBVIOUS
  <2>1. k <= n /\ k + 1 \in 1..n
    BY <1>0
  <2>2. it[1..k] \in R
    BY <2>1
  <2>3. it[1..(k + 1)] = g[<<it[1..k], k + 1>>]
    BY <1>1, <2>2
  <2> QED BY <1>0, <2>1, <2>2, <2>3
<1> HIDE DEF P
<1>4. \A k \in 0..n : it[1..k] \in R
  <2>1. \A k \in 0..n : k \in Nat /\ k <= n
    BY <1>0
  <2> QED BY <1>2, <1>3, <2>1, NatInductionSet DEF P
<1>5. \A k \in 1..n : k - 1 \in 0..n /\ k \in 0..n /\ k - 1 \in Nat /\ (k - 1) + 1 = k
  BY <1>0
<1>6. F \in [0..n -> R] /\ \A k \in 0..n : F[k] = it[1..k]
  BY <1>4
<1>7. 0 \in 0..n /\ n \in 0..n
  BY <1>0
<1> HIDE DEF F
<1>8. \A k \in 1..n : F[k] = g[<<F[k - 1], k>>]
  <2> SUFFICES ASSUME NEW k \in 1..n PROVE F[k] = g[<<F[k - 1], k>>]
    OBVIOUS
  <2>1. F[k] = it[1..k] /\ F[k - 1] = it[1..(k - 1)] /\ it[1..(k - 1)] \in R
    BY <1>4, <1>5, <1>6
  <2>2. it[1..((k - 1) + 1)] = g[<<it[1..(k - 1)], (k - 1) + 1>>]
    <3>1. k - 1 \in Nat /\ (k - 1) + 1 <= n
      BY <1>0
    <3> QED BY <1>1, <2>1, <3>1
  <2> QED BY <1>5, <2>1, <2>2
<1>9. Run(F, R, g, base, n)
  BY <1>2, <1>6, <1>7, <1>8 DEF Run
<1> QED BY <1>6, <1>7, <1>9

-----------------------------------------------------------------------------
(* The folds of the codecs and the values they go through.                 *)

\* What raw_from_ser does with one fragment.
copy(bytes, frag) == IF frag.maxp1 > Len(bytes)
                     THEN bytes \o Fresh(frag, Len(bytes)) ELSE bytes

\* A number or a string, read in Python.
PyReadOne(r, t) == IF t = "string" THEN py_rstring(r) ELSE py_take(r, t, 1)

\* The parts of an element, read in Python.
PyReadElem(r, elem) == FoldLeft(PyReadOne, r, elem)

\* The next element of a member, unless the reader has failed.
ReadNext(r, elem) == IF r.ok THEN ReadElem(r, elem) ELSE r

\* n elements of a member, read one by one.
ReadAll(r, elem, n) == FoldLeft(LAMBDA s, i : ReadNext(s, elem), r, [i \in 1..n |-> i])

\* The members of a message, read by the generated code.
ReadMembers(base, type) == FoldLeft(emit_deserialize, base, type)

\* The members of a message, read in Python.
PyReadMembers(base, type) == FoldLeft(py_read, base, type)

\* The members of a message, written by the generated code.
WriteMembers(base, type, val) == FoldLeftDomain(LAMBDA b, i : emit_serialize(b, type[i], val[i]), base, type)

\* The parts of an element, written in Python.
PyWriteElem(base, elem, e) == FoldLeftDomain(LAMBDA b, i : py_one(b, elem[i], e[i]), base, elem)

\* The members of a message, written in Python.
PyWriteMembers(base, type, val) == FoldLeftDomain(LAMBDA b, i : py_write(b, type[i], val[i]), base, type)

\* What raw_from_ser has copied of a chain of fragments.
copied(base, seq) == FoldLeft(copy, base, seq)

\* The elements of a member, written one by one.
WriteAll(b, elem, val) == FoldLeft(LAMBDA c, e : WriteElem(c, elem, e), b, val)

\* The steps of this fold stay in R.
CopyIn(seq, R, n) ==
    /\ n \in Nat /\ DOMAIN seq = 1..n
    /\ \A r \in R, i \in 1..n : copy(r, seq[i]) \in R

\* The values it goes through.
CopyRun(F, seq, R, base, n) ==
    /\ F \in [0..n -> R] /\ F[0] = base /\ F[n] = copied(base, seq)
    /\ \A k \in 1..n : F[k] = copy(F[k - 1], seq[k])

\* raw_from_ser() copies the fragments one by one.
LEMMA CopyFold ==
    ASSUME NEW seq, NEW R, NEW base \in R, NEW n, CopyIn(seq, R, n)
    PROVE  \E F : CopyRun(F, seq, R, base, n)
<1> USE DEF CopyIn
<1> DEFINE g == [p \in R \X (1..n) |-> copy(p[1], seq[p[2]])]
           Is(it) == it = [s \in SUBSET DOMAIN seq |->
                             IF s = {} THEN base
                             ELSE copy(it[s \ {Max(s)}], seq[Max(s)])]
           jt == CHOOSE it : Is(it)
<1>1. \A r \in R, i \in 1..n : g[<<r, i>>] = copy(r, seq[i])
  OBVIOUS
<1>2. g \in [R \X (1..n) -> R]
  OBVIOUS
<1> HIDE DEF g
<1>3. PICK it : Iterates(it, R, g, base, n)
  BY <1>2, IteratesExists
<1>4. Is(it)
  <2>1. /\ it \in [SUBSET (1..n) -> R]
        /\ \A s \in SUBSET (1..n) :
             it[s] = IF s = {} THEN base ELSE g[<<it[s \ {Max(s)}], Max(s)>>]
    BY <1>3 DEF Iterates
  <2>2. \A s \in SUBSET (1..n) : s # {} =>
          g[<<it[s \ {Max(s)}], Max(s)>>] = copy(it[s \ {Max(s)}], seq[Max(s)])
    BY <1>1, <2>1, MaxIn
  <2> QED BY <2>1, <2>2
<1>5. copied(base, seq) = jt[1..n]
  BY DEF copied, FoldLeft, MapThenFoldSet
<1>6. Is(jt)
  BY <1>4
<1> HIDE DEF jt
<1>7. Along(jt, R, g, base, n)
  <2>1. \A s \in SUBSET (1..n) :
          jt[s] = IF s = {} THEN base ELSE copy(jt[s \ {Max(s)}], seq[Max(s)])
    BY <1>6
  <2> QED BY <1>1, <1>2, <2>1, MaxIn DEF Along
<1>8. PICK F : Run(F, R, g, base, n) /\ F[n] = jt[1..n]
  BY <1>7, RunOf
<1>9. F \in [0..n -> R] /\ F[0] = base /\ \A k \in 1..n : F[k] = g[<<F[k - 1], k>>]
  BY <1>8 DEF Run
<1>10. \A k \in 1..n : F[k] = copy(F[k - 1], seq[k])
  <2>1. \A k \in 1..n : k - 1 \in 0..n
    OBVIOUS
  <2> QED BY <1>1, <1>9, <2>1
<1> QED BY <1>5, <1>8, <1>9, <1>10 DEF CopyRun

\* The steps of this fold stay in R.
ReadElemIn(elem, R, n) ==
    /\ n \in Nat /\ DOMAIN elem = 1..n
    /\ \A r \in R, i \in 1..n : ReadOne(r, elem[i]) \in R

\* The values it goes through.
ReadElemRun(F, elem, R, base, n) ==
    /\ F \in [0..n -> R] /\ F[0] = base /\ F[n] = ReadElem(base, elem)
    /\ \A k \in 1..n : F[k] = ReadOne(F[k - 1], elem[k])

\* ReadElem() reads the parts of an element one by one.
LEMMA ReadElemFold ==
    ASSUME NEW elem, NEW R, NEW base \in R, NEW n, ReadElemIn(elem, R, n)
    PROVE  \E F : ReadElemRun(F, elem, R, base, n)
<1> USE DEF ReadElemIn
<1> DEFINE g == [p \in R \X (1..n) |-> ReadOne(p[1], elem[p[2]])]
           Is(it) == it = [s \in SUBSET DOMAIN elem |->
                             IF s = {} THEN base
                             ELSE ReadOne(it[s \ {Max(s)}], elem[Max(s)])]
           jt == CHOOSE it : Is(it)
<1>1. \A r \in R, i \in 1..n : g[<<r, i>>] = ReadOne(r, elem[i])
  OBVIOUS
<1>2. g \in [R \X (1..n) -> R]
  OBVIOUS
<1> HIDE DEF g
<1>3. PICK it : Iterates(it, R, g, base, n)
  BY <1>2, IteratesExists
<1>4. Is(it)
  <2>1. /\ it \in [SUBSET (1..n) -> R]
        /\ \A s \in SUBSET (1..n) :
             it[s] = IF s = {} THEN base ELSE g[<<it[s \ {Max(s)}], Max(s)>>]
    BY <1>3 DEF Iterates
  <2>2. \A s \in SUBSET (1..n) : s # {} =>
          g[<<it[s \ {Max(s)}], Max(s)>>] = ReadOne(it[s \ {Max(s)}], elem[Max(s)])
    BY <1>1, <2>1, MaxIn
  <2> QED BY <2>1, <2>2
<1>5. ReadElem(base, elem) = jt[1..n]
  BY DEF ReadElem, FoldLeft, MapThenFoldSet
<1>6. Is(jt)
  BY <1>4
<1> HIDE DEF jt
<1>7. Along(jt, R, g, base, n)
  <2>1. \A s \in SUBSET (1..n) :
          jt[s] = IF s = {} THEN base ELSE ReadOne(jt[s \ {Max(s)}], elem[Max(s)])
    BY <1>6
  <2> QED BY <1>1, <1>2, <2>1, MaxIn DEF Along
<1>8. PICK F : Run(F, R, g, base, n) /\ F[n] = jt[1..n]
  BY <1>7, RunOf
<1>9. F \in [0..n -> R] /\ F[0] = base /\ \A k \in 1..n : F[k] = g[<<F[k - 1], k>>]
  BY <1>8 DEF Run
<1>10. \A k \in 1..n : F[k] = ReadOne(F[k - 1], elem[k])
  <2>1. \A k \in 1..n : k - 1 \in 0..n
    OBVIOUS
  <2> QED BY <1>1, <1>9, <2>1
<1> QED BY <1>5, <1>8, <1>9, <1>10 DEF ReadElemRun

\* The steps of this fold stay in R.
PyReadElemIn(elem, R, n) ==
    /\ n \in Nat /\ DOMAIN elem = 1..n
    /\ \A r \in R, i \in 1..n : PyReadOne(r, elem[i]) \in R

\* The values it goes through.
PyReadElemRun(F, elem, R, base, n) ==
    /\ F \in [0..n -> R] /\ F[0] = base /\ F[n] = PyReadElem(base, elem)
    /\ \A k \in 1..n : F[k] = PyReadOne(F[k - 1], elem[k])

\* The Python reader does so, too.
LEMMA PyReadElemFold ==
    ASSUME NEW elem, NEW R, NEW base \in R, NEW n, PyReadElemIn(elem, R, n)
    PROVE  \E F : PyReadElemRun(F, elem, R, base, n)
<1> USE DEF PyReadElemIn
<1> DEFINE g == [p \in R \X (1..n) |-> PyReadOne(p[1], elem[p[2]])]
           Is(it) == it = [s \in SUBSET DOMAIN elem |->
                             IF s = {} THEN base
                             ELSE PyReadOne(it[s \ {Max(s)}], elem[Max(s)])]
           jt == CHOOSE it : Is(it)
<1>1. \A r \in R, i \in 1..n : g[<<r, i>>] = PyReadOne(r, elem[i])
  OBVIOUS
<1>2. g \in [R \X (1..n) -> R]
  OBVIOUS
<1> HIDE DEF g
<1>3. PICK it : Iterates(it, R, g, base, n)
  BY <1>2, IteratesExists
<1>4. Is(it)
  <2>1. /\ it \in [SUBSET (1..n) -> R]
        /\ \A s \in SUBSET (1..n) :
             it[s] = IF s = {} THEN base ELSE g[<<it[s \ {Max(s)}], Max(s)>>]
    BY <1>3 DEF Iterates
  <2>2. \A s \in SUBSET (1..n) : s # {} =>
          g[<<it[s \ {Max(s)}], Max(s)>>] = PyReadOne(it[s \ {Max(s)}], elem[Max(s)])
    BY <1>1, <2>1, MaxIn
  <2> QED BY <2>1, <2>2
<1>5. PyReadElem(base, elem) = jt[1..n]
  BY DEF PyReadElem, FoldLeft, MapThenFoldSet
<1>6. Is(jt)
  BY <1>4
<1> HIDE DEF jt
<1>7. Along(jt, R, g, base, n)
  <2>1. \A s \in SUBSET (1..n) :
          jt[s] = IF s = {} THEN base ELSE PyReadOne(jt[s \ {Max(s)}], elem[Max(s)])
    BY <1>6
  <2> QED BY <1>1, <1>2, <2>1, MaxIn DEF Along
<1>8. PICK F : Run(F, R, g, base, n) /\ F[n] = jt[1..n]
  BY <1>7, RunOf
<1>9. F \in [0..n -> R] /\ F[0] = base /\ \A k \in 1..n : F[k] = g[<<F[k - 1], k>>]
  BY <1>8 DEF Run
<1>10. \A k \in 1..n : F[k] = PyReadOne(F[k - 1], elem[k])
  <2>1. \A k \in 1..n : k - 1 \in 0..n
    OBVIOUS
  <2> QED BY <1>1, <1>9, <2>1
<1> QED BY <1>5, <1>8, <1>9, <1>10 DEF PyReadElemRun

\* The steps of this fold stay in R.
ReadManyIn(elem, R, n) ==
    /\ n \in Nat /\ DOMAIN [i \in 1..n |-> i] = 1..n
    /\ \A r \in R, i \in 1..n : ReadNext(r, elem) \in R

\* The values it goes through.
ReadManyRun(F, elem, R, base, n) ==
    /\ F \in [0..n -> R] /\ F[0] = base /\ F[n] = ReadAll(base, elem, n)
    /\ \A k \in 1..n : F[k] = ReadNext(F[k - 1], elem)

\* The elements of a member are read one by one.
LEMMA ReadManyFold ==
    ASSUME NEW elem, NEW R, NEW base \in R, NEW n, ReadManyIn(elem, R, n)
    PROVE  \E F : ReadManyRun(F, elem, R, base, n)
<1> USE DEF ReadManyIn
<1> DEFINE g == [p \in R \X (1..n) |-> ReadNext(p[1], elem)]
           Is(it) == it = [s \in SUBSET DOMAIN [i \in 1..n |-> i] |->
                             IF s = {} THEN base
                             ELSE ReadNext(it[s \ {Max(s)}], elem)]
           jt == CHOOSE it : Is(it)
<1>1. \A r \in R, i \in 1..n : g[<<r, i>>] = ReadNext(r, elem)
  OBVIOUS
<1>2. g \in [R \X (1..n) -> R]
  OBVIOUS
<1> HIDE DEF g
<1>3. PICK it : Iterates(it, R, g, base, n)
  BY <1>2, IteratesExists
<1>4. Is(it)
  <2>1. /\ it \in [SUBSET (1..n) -> R]
        /\ \A s \in SUBSET (1..n) :
             it[s] = IF s = {} THEN base ELSE g[<<it[s \ {Max(s)}], Max(s)>>]
    BY <1>3 DEF Iterates
  <2>2. \A s \in SUBSET (1..n) : s # {} =>
          g[<<it[s \ {Max(s)}], Max(s)>>] = ReadNext(it[s \ {Max(s)}], elem)
    BY <1>1, <2>1, MaxIn
  <2> QED BY <2>1, <2>2
<1>5. ReadAll(base, elem, n) = jt[1..n]
  BY DEF ReadAll, FoldLeft, MapThenFoldSet
<1>6. Is(jt)
  BY <1>4
<1> HIDE DEF jt
<1>7. Along(jt, R, g, base, n)
  <2>1. \A s \in SUBSET (1..n) :
          jt[s] = IF s = {} THEN base ELSE ReadNext(jt[s \ {Max(s)}], elem)
    BY <1>6
  <2> QED BY <1>1, <1>2, <2>1, MaxIn DEF Along
<1>8. PICK F : Run(F, R, g, base, n) /\ F[n] = jt[1..n]
  BY <1>7, RunOf
<1>9. F \in [0..n -> R] /\ F[0] = base /\ \A k \in 1..n : F[k] = g[<<F[k - 1], k>>]
  BY <1>8 DEF Run
<1>10. \A k \in 1..n : F[k] = ReadNext(F[k - 1], elem)
  <2>1. \A k \in 1..n : k - 1 \in 0..n
    OBVIOUS
  <2> QED BY <1>1, <1>9, <2>1
<1> QED BY <1>5, <1>8, <1>9, <1>10 DEF ReadManyRun

\* The steps of this fold stay in R.
DeserializeIn(type, R, n) ==
    /\ n \in Nat /\ DOMAIN type = 1..n
    /\ \A r \in R, i \in 1..n : emit_deserialize(r, type[i]) \in R

\* The values it goes through.
DeserializeRun(F, type, R, base, n) ==
    /\ F \in [0..n -> R] /\ F[0] = base /\ F[n] = ReadMembers(base, type)
    /\ \A k \in 1..n : F[k] = emit_deserialize(F[k - 1], type[k])

\* The generated code reads a message's members one by one.
LEMMA DeserializeFold ==
    ASSUME NEW type, NEW R, NEW base \in R, NEW n, DeserializeIn(type, R, n)
    PROVE  \E F : DeserializeRun(F, type, R, base, n)
<1> USE DEF DeserializeIn
<1> DEFINE g == [p \in R \X (1..n) |-> emit_deserialize(p[1], type[p[2]])]
           Is(it) == it = [s \in SUBSET DOMAIN type |->
                             IF s = {} THEN base
                             ELSE emit_deserialize(it[s \ {Max(s)}], type[Max(s)])]
           jt == CHOOSE it : Is(it)
<1>1. \A r \in R, i \in 1..n : g[<<r, i>>] = emit_deserialize(r, type[i])
  OBVIOUS
<1>2. g \in [R \X (1..n) -> R]
  OBVIOUS
<1> HIDE DEF g
<1>3. PICK it : Iterates(it, R, g, base, n)
  BY <1>2, IteratesExists
<1>4. Is(it)
  <2>1. /\ it \in [SUBSET (1..n) -> R]
        /\ \A s \in SUBSET (1..n) :
             it[s] = IF s = {} THEN base ELSE g[<<it[s \ {Max(s)}], Max(s)>>]
    BY <1>3 DEF Iterates
  <2>2. \A s \in SUBSET (1..n) : s # {} =>
          g[<<it[s \ {Max(s)}], Max(s)>>] = emit_deserialize(it[s \ {Max(s)}], type[Max(s)])
    BY <1>1, <2>1, MaxIn
  <2> QED BY <2>1, <2>2
<1>5. ReadMembers(base, type) = jt[1..n]
  BY DEF ReadMembers, FoldLeft, MapThenFoldSet
<1>6. Is(jt)
  BY <1>4
<1> HIDE DEF jt
<1>7. Along(jt, R, g, base, n)
  <2>1. \A s \in SUBSET (1..n) :
          jt[s] = IF s = {} THEN base ELSE emit_deserialize(jt[s \ {Max(s)}], type[Max(s)])
    BY <1>6
  <2> QED BY <1>1, <1>2, <2>1, MaxIn DEF Along
<1>8. PICK F : Run(F, R, g, base, n) /\ F[n] = jt[1..n]
  BY <1>7, RunOf
<1>9. F \in [0..n -> R] /\ F[0] = base /\ \A k \in 1..n : F[k] = g[<<F[k - 1], k>>]
  BY <1>8 DEF Run
<1>10. \A k \in 1..n : F[k] = emit_deserialize(F[k - 1], type[k])
  <2>1. \A k \in 1..n : k - 1 \in 0..n
    OBVIOUS
  <2> QED BY <1>1, <1>9, <2>1
<1> QED BY <1>5, <1>8, <1>9, <1>10 DEF DeserializeRun

\* The steps of this fold stay in R.
PyReadIn(type, R, n) ==
    /\ n \in Nat /\ DOMAIN type = 1..n
    /\ \A r \in R, i \in 1..n : py_read(r, type[i]) \in R

\* The values it goes through.
PyReadRun(F, type, R, base, n) ==
    /\ F \in [0..n -> R] /\ F[0] = base /\ F[n] = PyReadMembers(base, type)
    /\ \A k \in 1..n : F[k] = py_read(F[k - 1], type[k])

\* from_cdr() does so, too.
LEMMA PyReadFold ==
    ASSUME NEW type, NEW R, NEW base \in R, NEW n, PyReadIn(type, R, n)
    PROVE  \E F : PyReadRun(F, type, R, base, n)
<1> USE DEF PyReadIn
<1> DEFINE g == [p \in R \X (1..n) |-> py_read(p[1], type[p[2]])]
           Is(it) == it = [s \in SUBSET DOMAIN type |->
                             IF s = {} THEN base
                             ELSE py_read(it[s \ {Max(s)}], type[Max(s)])]
           jt == CHOOSE it : Is(it)
<1>1. \A r \in R, i \in 1..n : g[<<r, i>>] = py_read(r, type[i])
  OBVIOUS
<1>2. g \in [R \X (1..n) -> R]
  OBVIOUS
<1> HIDE DEF g
<1>3. PICK it : Iterates(it, R, g, base, n)
  BY <1>2, IteratesExists
<1>4. Is(it)
  <2>1. /\ it \in [SUBSET (1..n) -> R]
        /\ \A s \in SUBSET (1..n) :
             it[s] = IF s = {} THEN base ELSE g[<<it[s \ {Max(s)}], Max(s)>>]
    BY <1>3 DEF Iterates
  <2>2. \A s \in SUBSET (1..n) : s # {} =>
          g[<<it[s \ {Max(s)}], Max(s)>>] = py_read(it[s \ {Max(s)}], type[Max(s)])
    BY <1>1, <2>1, MaxIn
  <2> QED BY <2>1, <2>2
<1>5. PyReadMembers(base, type) = jt[1..n]
  BY DEF PyReadMembers, FoldLeft, MapThenFoldSet
<1>6. Is(jt)
  BY <1>4
<1> HIDE DEF jt
<1>7. Along(jt, R, g, base, n)
  <2>1. \A s \in SUBSET (1..n) :
          jt[s] = IF s = {} THEN base ELSE py_read(jt[s \ {Max(s)}], type[Max(s)])
    BY <1>6
  <2> QED BY <1>1, <1>2, <2>1, MaxIn DEF Along
<1>8. PICK F : Run(F, R, g, base, n) /\ F[n] = jt[1..n]
  BY <1>7, RunOf
<1>9. F \in [0..n -> R] /\ F[0] = base /\ \A k \in 1..n : F[k] = g[<<F[k - 1], k>>]
  BY <1>8 DEF Run
<1>10. \A k \in 1..n : F[k] = py_read(F[k - 1], type[k])
  <2>1. \A k \in 1..n : k - 1 \in 0..n
    OBVIOUS
  <2> QED BY <1>1, <1>9, <2>1
<1> QED BY <1>5, <1>8, <1>9, <1>10 DEF PyReadRun

\* The steps of this fold stay in R.
WriteElemIn(elem, e, R, n) ==
    /\ n \in Nat /\ DOMAIN elem = 1..n
    /\ \A r \in R, i \in 1..n : WriteOne(r, elem[i], e[i]) \in R

\* The values it goes through.
WriteElemRun(F, elem, e, R, base, n) ==
    /\ F \in [0..n -> R] /\ F[0] = base /\ F[n] = WriteElem(base, elem, e)
    /\ \A k \in 1..n : F[k] = WriteOne(F[k - 1], elem[k], e[k])

\* WriteElem() writes the parts of an element one by one.
LEMMA WriteElemFold ==
    ASSUME NEW elem, NEW e, NEW R, NEW base \in R, NEW n, WriteElemIn(elem, e, R, n)
    PROVE  \E F : WriteElemRun(F, elem, e, R, base, n)
<1> USE DEF WriteElemIn
<1> DEFINE ix == [i \in DOMAIN elem |-> i]
           g == [p \in R \X (1..n) |-> WriteOne(p[1], elem[p[2]], e[p[2]])]
           Is(it) == it = [s \in SUBSET DOMAIN ix |->
                             IF s = {} THEN base
                             ELSE WriteOne(it[s \ {Max(s)}], elem[ix[Max(s)]], e[ix[Max(s)]])]
           jt == CHOOSE it : Is(it)
<1>0. DOMAIN ix = 1..n /\ \A i \in 1..n : ix[i] = i
  OBVIOUS
<1>1. \A r \in R, i \in 1..n : g[<<r, i>>] = WriteOne(r, elem[i], e[i])
  OBVIOUS
<1>2. g \in [R \X (1..n) -> R]
  OBVIOUS
<1> HIDE DEF g
<1>3. PICK it : Iterates(it, R, g, base, n)
  BY <1>2, IteratesExists
<1>4. Is(it)
  <2>1. /\ it \in [SUBSET (1..n) -> R]
        /\ \A s \in SUBSET (1..n) :
             it[s] = IF s = {} THEN base ELSE g[<<it[s \ {Max(s)}], Max(s)>>]
    BY <1>3 DEF Iterates
  <2>2. \A s \in SUBSET (1..n) : s # {} =>
          g[<<it[s \ {Max(s)}], Max(s)>>] = WriteOne(it[s \ {Max(s)}], elem[ix[Max(s)]], e[ix[Max(s)]])
    BY <1>0, <1>1, <2>1, MaxIn
  <2> QED BY <1>0, <2>1, <2>2
<1>5. WriteElem(base, elem, e) = jt[1..n]
  BY <1>0 DEF WriteElem, FoldLeftDomain, FoldLeft, MapThenFoldSet
<1>6. Is(jt)
  BY <1>4
<1> HIDE DEF jt, ix
<1>7. Along(jt, R, g, base, n)
  <2>1. \A s \in SUBSET (1..n) :
          jt[s] = IF s = {} THEN base ELSE WriteOne(jt[s \ {Max(s)}], elem[ix[Max(s)]], e[ix[Max(s)]])
    BY <1>0, <1>6
  <2>2. \A s \in SUBSET (1..n) : s # {} => Max(s) \in 1..n /\ ix[Max(s)] = Max(s)
    BY <1>0, MaxIn
  <2>3. \A s \in SUBSET (1..n) : s # {} =>
          jt[s] = WriteOne(jt[s \ {Max(s)}], elem[Max(s)], e[Max(s)])
    BY <2>1, <2>2
  <2>4. jt[{}] = base
    BY <2>1
  <2> QED BY <1>1, <1>2, <2>2, <2>3, <2>4 DEF Along
<1>8. PICK F : Run(F, R, g, base, n) /\ F[n] = jt[1..n]
  BY <1>7, RunOf
<1>9. F \in [0..n -> R] /\ F[0] = base /\ \A k \in 1..n : F[k] = g[<<F[k - 1], k>>]
  BY <1>8 DEF Run
<1>10. \A k \in 1..n : F[k] = WriteOne(F[k - 1], elem[k], e[k])
  <2>1. \A k \in 1..n : k - 1 \in 0..n
    OBVIOUS
  <2> QED BY <1>1, <1>9, <2>1
<1> QED BY <1>5, <1>8, <1>9, <1>10 DEF WriteElemRun

\* The steps of this fold stay in R.
WriteManyIn(elem, val, R, n) ==
    /\ n \in Nat /\ DOMAIN val = 1..n
    /\ \A r \in R, i \in 1..n : WriteElem(r, elem, val[i]) \in R

\* The values it goes through.
WriteManyRun(F, elem, val, R, base, n) ==
    /\ F \in [0..n -> R] /\ F[0] = base /\ F[n] = WriteAll(base, elem, val)
    /\ \A k \in 1..n : F[k] = WriteElem(F[k - 1], elem, val[k])

\* The elements of a member are written one by one.
LEMMA WriteManyFold ==
    ASSUME NEW elem, NEW val, NEW R, NEW base \in R, NEW n, WriteManyIn(elem, val, R, n)
    PROVE  \E F : WriteManyRun(F, elem, val, R, base, n)
<1> USE DEF WriteManyIn
<1> DEFINE g == [p \in R \X (1..n) |-> WriteElem(p[1], elem, val[p[2]])]
           Is(it) == it = [s \in SUBSET DOMAIN val |->
                             IF s = {} THEN base
                             ELSE WriteElem(it[s \ {Max(s)}], elem, val[Max(s)])]
           jt == CHOOSE it : Is(it)
<1>1. \A r \in R, i \in 1..n : g[<<r, i>>] = WriteElem(r, elem, val[i])
  OBVIOUS
<1>2. g \in [R \X (1..n) -> R]
  OBVIOUS
<1> HIDE DEF g
<1>3. PICK it : Iterates(it, R, g, base, n)
  BY <1>2, IteratesExists
<1>4. Is(it)
  <2>1. /\ it \in [SUBSET (1..n) -> R]
        /\ \A s \in SUBSET (1..n) :
             it[s] = IF s = {} THEN base ELSE g[<<it[s \ {Max(s)}], Max(s)>>]
    BY <1>3 DEF Iterates
  <2>2. \A s \in SUBSET (1..n) : s # {} =>
          g[<<it[s \ {Max(s)}], Max(s)>>] = WriteElem(it[s \ {Max(s)}], elem, val[Max(s)])
    BY <1>1, <2>1, MaxIn
  <2> QED BY <2>1, <2>2
<1>5. WriteAll(base, elem, val) = jt[1..n]
  BY DEF WriteAll, FoldLeft, MapThenFoldSet
<1>6. Is(jt)
  BY <1>4
<1> HIDE DEF jt
<1>7. Along(jt, R, g, base, n)
  <2>1. \A s \in SUBSET (1..n) :
          jt[s] = IF s = {} THEN base ELSE WriteElem(jt[s \ {Max(s)}], elem, val[Max(s)])
    BY <1>6
  <2> QED BY <1>1, <1>2, <2>1, MaxIn DEF Along
<1>8. PICK F : Run(F, R, g, base, n) /\ F[n] = jt[1..n]
  BY <1>7, RunOf
<1>9. F \in [0..n -> R] /\ F[0] = base /\ \A k \in 1..n : F[k] = g[<<F[k - 1], k>>]
  BY <1>8 DEF Run
<1>10. \A k \in 1..n : F[k] = WriteElem(F[k - 1], elem, val[k])
  <2>1. \A k \in 1..n : k - 1 \in 0..n
    OBVIOUS
  <2> QED BY <1>1, <1>9, <2>1
<1> QED BY <1>5, <1>8, <1>9, <1>10 DEF WriteManyRun

\* The steps of this fold stay in R.
SerializeIn(type, val, R, n) ==
    /\ n \in Nat /\ DOMAIN type = 1..n
    /\ \A r \in R, i \in 1..n : emit_serialize(r, type[i], val[i]) \in R

\* The values it goes through.
SerializeRun(F, type, val, R, base, n) ==
    /\ F \in [0..n -> R] /\ F[0] = base /\ F[n] = WriteMembers(base, type, val)
    /\ \A k \in 1..n : F[k] = emit_serialize(F[k - 1], type[k], val[k])

\* The generated code writes a message's members one by one.
LEMMA SerializeFold ==
    ASSUME NEW type, NEW val, NEW R, NEW base \in R, NEW n, SerializeIn(type, val, R, n)
    PROVE  \E F : SerializeRun(F, type, val, R, base, n)
<1> USE DEF SerializeIn
<1> DEFINE ix == [i \in DOMAIN type |-> i]
           g == [p \in R \X (1..n) |-> emit_serialize(p[1], type[p[2]], val[p[2]])]
           Is(it) == it = [s \in SUBSET DOMAIN ix |->
                             IF s = {} THEN base
                             ELSE emit_serialize(it[s \ {Max(s)}], type[ix[Max(s)]], val[ix[Max(s)]])]
           jt == CHOOSE it : Is(it)
<1>0. DOMAIN ix = 1..n /\ \A i \in 1..n : ix[i] = i
  OBVIOUS
<1>1. \A r \in R, i \in 1..n : g[<<r, i>>] = emit_serialize(r, type[i], val[i])
  OBVIOUS
<1>2. g \in [R \X (1..n) -> R]
  OBVIOUS
<1> HIDE DEF g
<1>3. PICK it : Iterates(it, R, g, base, n)
  BY <1>2, IteratesExists
<1>4. Is(it)
  <2>1. /\ it \in [SUBSET (1..n) -> R]
        /\ \A s \in SUBSET (1..n) :
             it[s] = IF s = {} THEN base ELSE g[<<it[s \ {Max(s)}], Max(s)>>]
    BY <1>3 DEF Iterates
  <2>2. \A s \in SUBSET (1..n) : s # {} =>
          g[<<it[s \ {Max(s)}], Max(s)>>] = emit_serialize(it[s \ {Max(s)}], type[ix[Max(s)]], val[ix[Max(s)]])
    BY <1>0, <1>1, <2>1, MaxIn
  <2> QED BY <1>0, <2>1, <2>2
<1>5. WriteMembers(base, type, val) = jt[1..n]
  BY <1>0 DEF WriteMembers, FoldLeftDomain, FoldLeft, MapThenFoldSet
<1>6. Is(jt)
  BY <1>4
<1> HIDE DEF jt, ix
<1>7. Along(jt, R, g, base, n)
  <2>1. \A s \in SUBSET (1..n) :
          jt[s] = IF s = {} THEN base ELSE emit_serialize(jt[s \ {Max(s)}], type[ix[Max(s)]], val[ix[Max(s)]])
    BY <1>0, <1>6
  <2>2. \A s \in SUBSET (1..n) : s # {} => Max(s) \in 1..n /\ ix[Max(s)] = Max(s)
    BY <1>0, MaxIn
  <2>3. \A s \in SUBSET (1..n) : s # {} =>
          jt[s] = emit_serialize(jt[s \ {Max(s)}], type[Max(s)], val[Max(s)])
    BY <2>1, <2>2
  <2>4. jt[{}] = base
    BY <2>1
  <2> QED BY <1>1, <1>2, <2>2, <2>3, <2>4 DEF Along
<1>8. PICK F : Run(F, R, g, base, n) /\ F[n] = jt[1..n]
  BY <1>7, RunOf
<1>9. F \in [0..n -> R] /\ F[0] = base /\ \A k \in 1..n : F[k] = g[<<F[k - 1], k>>]
  BY <1>8 DEF Run
<1>10. \A k \in 1..n : F[k] = emit_serialize(F[k - 1], type[k], val[k])
  <2>1. \A k \in 1..n : k - 1 \in 0..n
    OBVIOUS
  <2> QED BY <1>1, <1>9, <2>1
<1> QED BY <1>5, <1>8, <1>9, <1>10 DEF SerializeRun

\* The steps of this fold stay in R.
PyWriteElemIn(elem, e, R, n) ==
    /\ n \in Nat /\ DOMAIN elem = 1..n
    /\ \A r \in R, i \in 1..n : py_one(r, elem[i], e[i]) \in R

\* The values it goes through.
PyWriteElemRun(F, elem, e, R, base, n) ==
    /\ F \in [0..n -> R] /\ F[0] = base /\ F[n] = PyWriteElem(base, elem, e)
    /\ \A k \in 1..n : F[k] = py_one(F[k - 1], elem[k], e[k])

\* The Python writer writes the parts of an element one by one.
LEMMA PyWriteElemFold ==
    ASSUME NEW elem, NEW e, NEW R, NEW base \in R, NEW n, PyWriteElemIn(elem, e, R, n)
    PROVE  \E F : PyWriteElemRun(F, elem, e, R, base, n)
<1> USE DEF PyWriteElemIn
<1> DEFINE ix == [i \in DOMAIN elem |-> i]
           g == [p \in R \X (1..n) |-> py_one(p[1], elem[p[2]], e[p[2]])]
           Is(it) == it = [s \in SUBSET DOMAIN ix |->
                             IF s = {} THEN base
                             ELSE py_one(it[s \ {Max(s)}], elem[ix[Max(s)]], e[ix[Max(s)]])]
           jt == CHOOSE it : Is(it)
<1>0. DOMAIN ix = 1..n /\ \A i \in 1..n : ix[i] = i
  OBVIOUS
<1>1. \A r \in R, i \in 1..n : g[<<r, i>>] = py_one(r, elem[i], e[i])
  OBVIOUS
<1>2. g \in [R \X (1..n) -> R]
  OBVIOUS
<1> HIDE DEF g
<1>3. PICK it : Iterates(it, R, g, base, n)
  BY <1>2, IteratesExists
<1>4. Is(it)
  <2>1. /\ it \in [SUBSET (1..n) -> R]
        /\ \A s \in SUBSET (1..n) :
             it[s] = IF s = {} THEN base ELSE g[<<it[s \ {Max(s)}], Max(s)>>]
    BY <1>3 DEF Iterates
  <2>2. \A s \in SUBSET (1..n) : s # {} =>
          g[<<it[s \ {Max(s)}], Max(s)>>] = py_one(it[s \ {Max(s)}], elem[ix[Max(s)]], e[ix[Max(s)]])
    BY <1>0, <1>1, <2>1, MaxIn
  <2> QED BY <1>0, <2>1, <2>2
<1>5. PyWriteElem(base, elem, e) = jt[1..n]
  BY <1>0 DEF PyWriteElem, FoldLeftDomain, FoldLeft, MapThenFoldSet
<1>6. Is(jt)
  BY <1>4
<1> HIDE DEF jt, ix
<1>7. Along(jt, R, g, base, n)
  <2>1. \A s \in SUBSET (1..n) :
          jt[s] = IF s = {} THEN base ELSE py_one(jt[s \ {Max(s)}], elem[ix[Max(s)]], e[ix[Max(s)]])
    BY <1>0, <1>6
  <2>2. \A s \in SUBSET (1..n) : s # {} => Max(s) \in 1..n /\ ix[Max(s)] = Max(s)
    BY <1>0, MaxIn
  <2>3. \A s \in SUBSET (1..n) : s # {} =>
          jt[s] = py_one(jt[s \ {Max(s)}], elem[Max(s)], e[Max(s)])
    BY <2>1, <2>2
  <2>4. jt[{}] = base
    BY <2>1
  <2> QED BY <1>1, <1>2, <2>2, <2>3, <2>4 DEF Along
<1>8. PICK F : Run(F, R, g, base, n) /\ F[n] = jt[1..n]
  BY <1>7, RunOf
<1>9. F \in [0..n -> R] /\ F[0] = base /\ \A k \in 1..n : F[k] = g[<<F[k - 1], k>>]
  BY <1>8 DEF Run
<1>10. \A k \in 1..n : F[k] = py_one(F[k - 1], elem[k], e[k])
  <2>1. \A k \in 1..n : k - 1 \in 0..n
    OBVIOUS
  <2> QED BY <1>1, <1>9, <2>1
<1> QED BY <1>5, <1>8, <1>9, <1>10 DEF PyWriteElemRun

\* The steps of this fold stay in R.
PySerializeIn(type, val, R, n) ==
    /\ n \in Nat /\ DOMAIN type = 1..n
    /\ \A r \in R, i \in 1..n : py_write(r, type[i], val[i]) \in R

\* The values it goes through.
PySerializeRun(F, type, val, R, base, n) ==
    /\ F \in [0..n -> R] /\ F[0] = base /\ F[n] = PyWriteMembers(base, type, val)
    /\ \A k \in 1..n : F[k] = py_write(F[k - 1], type[k], val[k])

\* py_serialize() writes the members one by one.
LEMMA PySerializeFold ==
    ASSUME NEW type, NEW val, NEW R, NEW base \in R, NEW n, PySerializeIn(type, val, R, n)
    PROVE  \E F : PySerializeRun(F, type, val, R, base, n)
<1> USE DEF PySerializeIn
<1> DEFINE ix == [i \in DOMAIN type |-> i]
           g == [p \in R \X (1..n) |-> py_write(p[1], type[p[2]], val[p[2]])]
           Is(it) == it = [s \in SUBSET DOMAIN ix |->
                             IF s = {} THEN base
                             ELSE py_write(it[s \ {Max(s)}], type[ix[Max(s)]], val[ix[Max(s)]])]
           jt == CHOOSE it : Is(it)
<1>0. DOMAIN ix = 1..n /\ \A i \in 1..n : ix[i] = i
  OBVIOUS
<1>1. \A r \in R, i \in 1..n : g[<<r, i>>] = py_write(r, type[i], val[i])
  OBVIOUS
<1>2. g \in [R \X (1..n) -> R]
  OBVIOUS
<1> HIDE DEF g
<1>3. PICK it : Iterates(it, R, g, base, n)
  BY <1>2, IteratesExists
<1>4. Is(it)
  <2>1. /\ it \in [SUBSET (1..n) -> R]
        /\ \A s \in SUBSET (1..n) :
             it[s] = IF s = {} THEN base ELSE g[<<it[s \ {Max(s)}], Max(s)>>]
    BY <1>3 DEF Iterates
  <2>2. \A s \in SUBSET (1..n) : s # {} =>
          g[<<it[s \ {Max(s)}], Max(s)>>] = py_write(it[s \ {Max(s)}], type[ix[Max(s)]], val[ix[Max(s)]])
    BY <1>0, <1>1, <2>1, MaxIn
  <2> QED BY <1>0, <2>1, <2>2
<1>5. PyWriteMembers(base, type, val) = jt[1..n]
  BY <1>0 DEF PyWriteMembers, FoldLeftDomain, FoldLeft, MapThenFoldSet
<1>6. Is(jt)
  BY <1>4
<1> HIDE DEF jt, ix
<1>7. Along(jt, R, g, base, n)
  <2>1. \A s \in SUBSET (1..n) :
          jt[s] = IF s = {} THEN base ELSE py_write(jt[s \ {Max(s)}], type[ix[Max(s)]], val[ix[Max(s)]])
    BY <1>0, <1>6
  <2>2. \A s \in SUBSET (1..n) : s # {} => Max(s) \in 1..n /\ ix[Max(s)] = Max(s)
    BY <1>0, MaxIn
  <2>3. \A s \in SUBSET (1..n) : s # {} =>
          jt[s] = py_write(jt[s \ {Max(s)}], type[Max(s)], val[Max(s)])
    BY <2>1, <2>2
  <2>4. jt[{}] = base
    BY <2>1
  <2> QED BY <1>1, <1>2, <2>2, <2>3, <2>4 DEF Along
<1>8. PICK F : Run(F, R, g, base, n) /\ F[n] = jt[1..n]
  BY <1>7, RunOf
<1>9. F \in [0..n -> R] /\ F[0] = base /\ \A k \in 1..n : F[k] = g[<<F[k - 1], k>>]
  BY <1>8 DEF Run
<1>10. \A k \in 1..n : F[k] = py_write(F[k - 1], type[k], val[k])
  <2>1. \A k \in 1..n : k - 1 \in 0..n
    OBVIOUS
  <2> QED BY <1>1, <1>9, <2>1
<1> QED BY <1>5, <1>8, <1>9, <1>10 DEF PySerializeRun

-----------------------------------------------------------------------------
(* The bytes at a position, read as numbers.                               *)

\* The sizes of the primitives, which are their alignments.
Sizes == {1, 4, 8}

\* The primitives.
Numeric == {"bool", "uint8", "int32", "uint32", "uint64", "int64", "float64"}

\* What an element is made of.
Prims == Numeric \cup {"string"}

\* The sizes that matter below.
LEMMA SizeOfIs ==
    /\ \A t \in Numeric : SizeOf(t) \in Sizes
    /\ SizeOf("bool") = 1 /\ SizeOf("uint8") = 1 /\ SizeOf("uint32") = 4
    /\ SizeOf("float64") = 8
BY DEF SizeOf, Sizes, Numeric

\* Padding to the next boundary.
LEMMA PaddingIs ==
    ASSUME NEW o \in Nat, NEW n \in Sizes
    PROVE  /\ Padding(o, n) \in Nat /\ Padding(o, n) < n
           /\ (o + Padding(o, n)) % n = 0
           /\ (-o) % n = Padding(o, n)
           /\ o % n = 0 => Padding(o, n) = 0
<1>1. n = 1 \/ n = 4 \/ n = 8
  BY DEF Sizes
<1> QED BY <1>1 DEF Padding

\* What a reader puts out: numbers and strings.
Outs == Nat \cup Seq(Nat)

\* The readers of the buffer b.
Readers(b) ==
    [buf : {b}, pos : {p \in Nat : p >= 4}, out : Seq(Outs), resized : Nat, odd : BOOLEAN,
     utf8 : BOOLEAN, ok : BOOLEAN]

\* The bytes that a reader of b finds at pos, and the numbers they are.
BytesAt(b, pos, n) == [i \in 1..n |-> IF pos + i <= Len(b) THEN b[pos + i] ELSE 0]

\* The numbers of type t that begin there.
NumbersAt(b, pos, t, count) ==
    [i \in 1..count |-> Decoded(t, BytesAt(b, pos + (i - 1) * SizeOf(t), SizeOf(t)))]

\* The fields of a reader.
LEMMA ReaderFields ==
    ASSUME NEW b, NEW r \in Readers(b)
    PROVE  /\ r.buf = b /\ r.pos \in Nat /\ r.pos >= 4 /\ r.out \in Seq(Outs)
           /\ r.resized \in Nat /\ r.odd \in BOOLEAN /\ r.ok \in BOOLEAN
           /\ r.pos - 4 \in Nat /\ r.utf8 \in BOOLEAN
BY DEF Readers

\* A reader that throws changes nothing else.
LEMMA Throws ==
    ASSUME NEW b, NEW r \in Readers(b)
    PROVE  /\ Throw(r) \in Readers(b) /\ ~Throw(r).ok /\ Throw(r).pos = r.pos
           /\ Throw(r).resized = r.resized /\ Throw(r).out = r.out /\ Throw(r).odd = r.odd
           /\ Throw(r).utf8 = r.utf8
BY DEF Throw, Readers

\* A reader at another position.
LEMMA Moves ==
    ASSUME NEW b, NEW r \in Readers(b), NEW p \in Nat, p >= 4
    PROVE  LET s == [r EXCEPT !.pos = p]
           IN  /\ s \in Readers(b) /\ s.pos = p /\ s.buf = b
               /\ s.out = r.out /\ s.resized = r.resized /\ s.odd = r.odd /\ s.ok = r.ok
               /\ s.utf8 = r.utf8
<1> DEFINE s == [r EXCEPT !.pos = p]
<1>1. s \in Readers(b)
  BY DEF Readers
<1>2. s.pos = p /\ s.buf = b
  BY DEF Readers
<1>3. s.out = r.out /\ s.resized = r.resized
  BY DEF Readers
<1>4. s.odd = r.odd
  BY DEF Readers
<1>5. s.ok = r.ok
  BY DEF Readers
<1>6. s.utf8 = r.utf8
  BY DEF Readers
<1> QED BY <1>1, <1>2, <1>3, <1>4, <1>5, <1>6

\* The position moved to the next boundary.
Boundary(pos, n) == pos + Padding(pos - 4, n)

\* The next boundary is less than n bytes ahead.
LEMMA BoundaryIs ==
    ASSUME NEW pos \in Nat, pos >= 4, NEW n \in Sizes
    PROVE  Boundary(pos, n) \in Nat /\ Boundary(pos, n) >= pos /\ Boundary(pos, n) < pos + n
<1>1. pos - 4 \in Nat /\ n \in Nat
  BY DEF Sizes
<1>2. Padding(pos - 4, n) \in Nat /\ Padding(pos - 4, n) < n
  BY <1>1, PaddingIs
<1> QED BY <1>1, <1>2 DEF Boundary

\* CdrReader::align moves to the next boundary, or fails where it is.
LEMMA RAlignIs ==
    ASSUME NEW b \in Seq(Nat), NEW r \in Readers(b), NEW n \in Sizes
    PROVE  /\ RAlign(r, n) \in Readers(b)
           /\ RAlign(r, n).out = r.out /\ RAlign(r, n).resized = r.resized
           /\ RAlign(r, n).odd = r.odd /\ RAlign(r, n).utf8 = r.utf8
           /\ Boundary(r.pos, n) > Len(b) => ~RAlign(r, n).ok /\ RAlign(r, n).pos = r.pos
           /\ Boundary(r.pos, n) <= Len(b) => /\ RAlign(r, n).ok = r.ok
                                              /\ RAlign(r, n).pos = Boundary(r.pos, n)
<1>1. /\ r.buf = b /\ r.pos \in Nat /\ r.pos >= 4
  BY ReaderFields
<1>2. Boundary(r.pos, n) \in Nat /\ Boundary(r.pos, n) >= 4
  BY <1>1, BoundaryIs
<1> DEFINE to == Boundary(r.pos, n)
<1>3. RAlign(r, n) = IF to > Len(b) THEN Throw(r) ELSE [r EXCEPT !.pos = to]
  BY <1>1 DEF RAlign, Boundary
<1>4. Len(b) \in Nat
  OBVIOUS
<1> HIDE DEF to
<1>5. CASE to > Len(b)
  <2>1. RAlign(r, n) = Throw(r) /\ ~(to <= Len(b))
    BY <1>2, <1>3, <1>4, <1>5 DEF to
  <2> QED BY <2>1, Throws, Zenon DEF to
<1>6. CASE ~(to > Len(b))
  <2>1. RAlign(r, n) = [r EXCEPT !.pos = to] /\ to \in Nat /\ to >= 4
    BY <1>2, <1>3, <1>4, <1>6 DEF to
  <2>2. LET s == [r EXCEPT !.pos = to]
        IN  /\ s \in Readers(b) /\ s.pos = to /\ s.buf = b
            /\ s.out = r.out /\ s.resized = r.resized /\ s.odd = r.odd /\ s.ok = r.ok
            /\ s.utf8 = r.utf8
    BY <2>1, Moves
  <2> QED BY <1>6, <2>1, <2>2, Zenon DEF to
<1> QED BY <1>5, <1>6

\* _pad moves to the next boundary and fails there if it is beyond the buffer.
LEMMA PyPadIs ==
    ASSUME NEW b \in Seq(Nat), NEW r \in Readers(b), NEW n \in Sizes
    PROVE  /\ py_rpad(r, n) \in Readers(b)
           /\ py_rpad(r, n).out = r.out /\ py_rpad(r, n).resized = r.resized
           /\ py_rpad(r, n).odd = r.odd /\ py_rpad(r, n).utf8 = r.utf8
           /\ py_rpad(r, n).pos = Boundary(r.pos, n)
           /\ Boundary(r.pos, n) > Len(b) => ~py_rpad(r, n).ok
           /\ Boundary(r.pos, n) <= Len(b) => py_rpad(r, n).ok = r.ok
<1>1. /\ r.buf = b /\ r.pos \in Nat /\ r.pos >= 4 /\ r.pos - 4 \in Nat
  BY ReaderFields
<1>2. Boundary(r.pos, n) \in Nat /\ Boundary(r.pos, n) >= 4
  BY <1>1, BoundaryIs
<1> DEFINE to == Boundary(r.pos, n)
           s == [r EXCEPT !.pos = to]
<1>3. (-(r.pos - 4)) % n = Padding(r.pos - 4, n)
  BY <1>1, PaddingIs
<1>4. py_rpad(r, n) = IF s.pos > Len(s.buf) THEN Throw(s) ELSE s
  BY <1>3 DEF py_rpad, Boundary
<1>5. Len(b) \in Nat /\ s \in Readers(b) /\ s.buf = b /\ s.pos = to
      /\ s.out = r.out /\ s.resized = r.resized /\ s.odd = r.odd /\ s.ok = r.ok
      /\ s.utf8 = r.utf8
  <2>1. to \in Nat /\ to >= 4 /\ Len(b) \in Nat
    BY <1>2
  <2> HIDE DEF to
  <2> QED BY <2>1, Moves
<1> HIDE DEF to, s
<1>6. CASE to > Len(b)
  <2>1. py_rpad(r, n) = Throw(s) /\ ~(to <= Len(b))
    BY <1>2, <1>4, <1>5, <1>6 DEF to
  <2>2. /\ Throw(s) \in Readers(b) /\ ~Throw(s).ok /\ Throw(s).pos = s.pos
        /\ Throw(s).resized = s.resized /\ Throw(s).out = s.out /\ Throw(s).odd = s.odd
        /\ Throw(s).utf8 = s.utf8
    BY <1>5, Throws
  <2> QED BY <1>5, <2>1, <2>2, Zenon DEF to
<1>7. CASE ~(to > Len(b))
  <2>1. py_rpad(r, n) = s
    BY <1>2, <1>4, <1>5, <1>7 DEF to
  <2> QED BY <1>5, <1>7, <2>1, Zenon DEF to
<1> QED BY <1>6, <1>7

\* Bytes are read as a number.
LEMMA NumberIs ==
    ASSUME NEW n \in Sizes, NEW bs \in [1..n -> Nat], NEW t
    PROVE  Number(bs) \in Nat /\ Decoded(t, bs) \in Nat
<1>1. bs \in Seq(Nat) /\ Len(bs) = n /\ n \in Nat /\ n >= 1
  BY DEF Sizes
<1>2. bs[1] \in Nat /\ (Len(bs) > 1 => bs[2] \in Nat)
  BY <1>1
<1>3. Number(bs) \in Nat
  BY <1>2 DEF Number, Huge
<1> QED BY <1>3 DEF Decoded

\* They are as many numbers as are asked for.
LEMMA NumbersAtSeq ==
    ASSUME NEW b \in Seq(Nat), NEW pos \in Nat, NEW t \in Numeric, NEW count \in Nat
    PROVE  NumbersAt(b, pos, t, count) \in Seq(Nat) /\ Len(NumbersAt(b, pos, t, count)) = count
<1>1. SizeOf(t) \in Sizes /\ SizeOf(t) \in Nat
  BY SizeOfIs DEF Sizes
<1>2. ASSUME NEW i \in 1..count
      PROVE  Decoded(t, BytesAt(b, pos + (i - 1) * SizeOf(t), SizeOf(t))) \in Nat
  <2> DEFINE q == pos + (i - 1) * SizeOf(t)
  <2>1. q \in Nat
    <3>1. i - 1 \in Nat
      OBVIOUS
    <3>2. \A x, y \in Nat : x * y \in Nat
      OBVIOUS
    <3> QED BY <1>1, <3>1, <3>2
  <2> HIDE DEF q
  <2>2. BytesAt(b, q, SizeOf(t)) \in [1..SizeOf(t) -> Nat]
    BY <1>1, <2>1 DEF BytesAt
  <2> QED BY <1>1, <2>2, NumberIs DEF q
<1>3. NumbersAt(b, pos, t, count) \in [1..count -> Nat]
  BY <1>2 DEF NumbersAt
<1> HIDE DEF NumbersAt
<1> QED BY <1>3

\* q is the reader r after it has read outs, up to the position to; if that is beyond the
\* buffer, it has failed.
Reads(q, r, b, to, outs) ==
    /\ q \in Readers(b) /\ q.resized = r.resized
    /\ q.ok <=> r.ok /\ to <= Len(b)
    /\ q.ok => q.pos = to /\ q.out = r.out \o outs

\* What a reader sees are the bytes at its position.
LEMMA PeekIs ==
    ASSUME NEW b, NEW r \in Readers(b), NEW n
    PROVE  Peek(r, n) = BytesAt(b, r.pos, n)
BY ReaderFields DEF Peek, BytesAt

\* read_bytes reads count numbers or fails where it is.
LEMMA ReadBytesIs ==
    ASSUME NEW b \in Seq(Nat), NEW r \in Readers(b), NEW t \in Numeric, NEW count \in Nat
    PROVE  LET q == read_bytes(r, t, count)
           IN  /\ Reads(q, r, b, r.pos + count * SizeOf(t), NumbersAt(b, r.pos, t, count))
               /\ ~q.ok => q.pos = r.pos
               /\ q.ok /\ (t = "bool" => BytesAt(b, r.pos, SizeOf(t))[1] <= 1) => q.odd = r.odd
<1> DEFINE q == read_bytes(r, t, count)
           size == count * SizeOf(t)
           outs == NumbersAt(b, r.pos, t, count)
           odd == r.odd \/ (t = "bool" /\ BytesAt(b, r.pos, SizeOf(t))[1] > 1)
<1>0. /\ r.buf = b /\ r.pos \in Nat /\ r.pos >= 4 /\ r.out \in Seq(Outs)
      /\ r.resized \in Nat /\ r.odd \in BOOLEAN /\ r.ok \in BOOLEAN
  BY ReaderFields
<1>1. SizeOf(t) \in Nat
  BY SizeOfIs DEF Sizes
<1>2. size \in Nat
  <2>1. \A x, y \in Nat : x * y \in Nat
    OBVIOUS
  <2> QED BY <1>1, <2>1
<1>3. ASSUME NEW i \in Nat, i >= 1
      PROVE  Peek([r EXCEPT !.pos = @ + (i - 1) * SizeOf(t)], SizeOf(t))
               = BytesAt(b, r.pos + (i - 1) * SizeOf(t), SizeOf(t))
  <2> DEFINE p == r.pos + (i - 1) * SizeOf(t)
             s == [r EXCEPT !.pos = p]
  <2>1. p \in Nat /\ p >= 4
    <3>1. i - 1 \in Nat
      BY <1>3
    <3>2. \A x, y \in Nat : x * y \in Nat
      OBVIOUS
    <3>3. (i - 1) * SizeOf(t) \in Nat
      BY <1>1, <3>1, <3>2
    <3> QED BY <1>0, <3>3
  <2> HIDE DEF p
  <2>2. s \in Readers(b) /\ s.pos = p
    BY <2>1, Moves
  <2> HIDE DEF s
  <2>3. Peek(s, SizeOf(t)) = BytesAt(b, p, SizeOf(t))
    BY <2>2, PeekIs
  <2> QED BY <2>3 DEF s, p
<1>4. (1 - 1) * SizeOf(t) = 0 /\ r.pos + 0 = r.pos
  BY <1>0, <1>1
<1>5. Peek([r EXCEPT !.pos = @ + (1 - 1) * SizeOf(t)], SizeOf(t))
        = BytesAt(b, r.pos, SizeOf(t))
  <2>1. 1 \in Nat /\ 1 >= 1
    OBVIOUS
  <2> QED BY <1>3, <1>4, <2>1
<1>6. [i \in 1..count |->
         Decoded(t, Peek([r EXCEPT !.pos = @ + (i - 1) * SizeOf(t)], SizeOf(t)))] = outs
  <2>1. \A i \in 1..count : i \in Nat /\ i >= 1
    OBVIOUS
  <2> QED BY <1>3, <2>1, Zenon DEF NumbersAt
<1>7. q = IF ~r.ok THEN r
          ELSE IF r.pos + size > Len(r.buf) THEN Throw(r)
          ELSE [r EXCEPT !.pos = @ + size, !.out = @ \o outs, !.odd = odd]
  BY <1>5, <1>6, Zenon DEF read_bytes
<1>8. outs \in Seq(Outs)
  <2>1. outs \in Seq(Nat) /\ Nat \subseteq Outs
    BY <1>0, NumbersAtSeq DEF Outs
  <2> QED BY <2>1, SeqMonotonic
<1>9. odd \in BOOLEAN
  OBVIOUS
<1> HIDE DEF outs, size, odd, q
<1>10. CASE ~r.ok
  <2>1. q = r /\ q.ok = r.ok
    BY <1>7, <1>10
  <2> QED BY <1>10, <2>1, Zenon DEF Reads, q, size, outs
<1>11. CASE r.ok /\ r.pos + size > Len(b)
  <2>1. q = Throw(r) /\ ~(r.pos + size <= Len(b))
    BY <1>0, <1>2, <1>7, <1>11
  <2>2. /\ Throw(r) \in Readers(b) /\ ~Throw(r).ok /\ Throw(r).pos = r.pos
        /\ Throw(r).resized = r.resized
    BY Throws
  <2> QED BY <2>1, <2>2, Zenon DEF Reads, q, size, outs
<1>12. CASE r.ok /\ ~(r.pos + size > Len(b))
  <2> DEFINE s == [r EXCEPT !.pos = @ + size, !.out = @ \o outs, !.odd = odd]
  <2>1. q = s /\ r.pos + size <= Len(b)
    BY <1>0, <1>2, <1>7, <1>12
  <2>2. r.pos + size \in Nat /\ r.pos + size >= 4 /\ r.out \o outs \in Seq(Outs)
    BY <1>0, <1>2, <1>8
  <2>3. s \in Readers(b)
    BY <1>9, <2>2 DEF Readers
  <2>4. s.pos = r.pos + size /\ s.out = r.out \o outs /\ s.resized = r.resized
    BY DEF Readers
  <2>5. s.odd = odd
    BY DEF Readers
  <2>6. s.ok = r.ok
    BY DEF Readers
  <2>7. Reads(q, r, b, r.pos + size, outs) /\ q.ok
    BY <1>12, <2>1, <2>3, <2>4, <2>6, Zenon DEF Reads
  <2>8. (t = "bool" => BytesAt(b, r.pos, SizeOf(t))[1] <= 1) => odd = r.odd
    <3>1. ASSUME t = "bool" PROVE BytesAt(b, r.pos, SizeOf(t))[1] \in Nat
      <4>1. SizeOf(t) = 1
        BY <3>1, SizeOfIs
      <4> QED BY <1>0, <4>1 DEF BytesAt
    <3>2. \A x \in Nat : x <= 1 => ~(x > 1)
      OBVIOUS
    <3>3. (t = "bool" => BytesAt(b, r.pos, SizeOf(t))[1] <= 1)
             => ~(t = "bool" /\ BytesAt(b, r.pos, SizeOf(t))[1] > 1)
      BY <3>1, <3>2
    <3> QED BY <1>0, <3>3, Zenon DEF odd
  <2> QED BY <2>1, <2>5, <2>7, <2>8, Zenon DEF q, size, outs
<1> QED BY <1>0, <1>10, <1>11, <1>12

\* Numbers say nothing about strings.
LEMMA ReadBytesKeeps ==
    ASSUME NEW b \in Seq(Nat), NEW r \in Readers(b), NEW t \in Numeric, NEW count \in Nat
    PROVE  read_bytes(r, t, count).utf8 = r.utf8
<1>1. CASE ~r.ok
  <2>1. read_bytes(r, t, count) = r
    BY <1>1 DEF read_bytes
  <2> QED BY <2>1
<1>2. CASE r.ok /\ r.pos + count * SizeOf(t) > Len(r.buf)
  <2>1. read_bytes(r, t, count) = Throw(r)
    BY <1>2 DEF read_bytes
  <2> QED BY <2>1, Throws
<1>3. CASE r.ok /\ ~(r.pos + count * SizeOf(t) > Len(r.buf))
  <2>1. \E p, o, d : read_bytes(r, t, count) = [r EXCEPT !.pos = p, !.out = o, !.odd = d]
    BY <1>3, Zenon DEF read_bytes
  <2>2. PICK p, o, d : read_bytes(r, t, count) = [r EXCEPT !.pos = p, !.out = o, !.odd = d]
    BY <2>1
  <2> QED BY <2>2 DEF Readers
<1> QED BY <1>1, <1>2, <1>3

\* Neither does one number.
LEMMA ReadKeeps ==
    ASSUME NEW b \in Seq(Nat), NEW r \in Readers(b), NEW t \in Numeric
    PROVE  read(r, t).utf8 = r.utf8
<1> DEFINE a == RAlign(r, SizeOf(t))
<1>1. a \in Readers(b) /\ a.utf8 = r.utf8 /\ 1 \in Nat
  BY SizeOfIs, RAlignIs
<1>2. read(r, t) = IF r.ok THEN read_bytes(a, t, 1) ELSE r
  BY DEF read
<1> HIDE DEF a
<1>3. read_bytes(a, t, 1).utf8 = a.utf8
  BY <1>1, ReadBytesKeeps
<1> QED BY <1>1, <1>2, <1>3

\* Nor numbers in Python.
LEMMA PyTakeKeeps ==
    ASSUME NEW b \in Seq(Nat), NEW r \in Readers(b), NEW t \in Numeric, NEW count \in Nat
    PROVE  py_take(r, t, count).utf8 = r.utf8
<1> DEFINE a == py_rpad(r, SizeOf(t))
<1>1. a \in Readers(b) /\ a.utf8 = r.utf8
  BY SizeOfIs, PyPadIs
<1>2. py_take(r, t, count) = IF r.ok THEN read_bytes(a, t, count) ELSE r
  BY DEF py_take
<1> HIDE DEF a
<1>3. read_bytes(a, t, count).utf8 = a.utf8
  BY <1>1, ReadBytesKeeps
<1> QED BY <1>1, <1>2, <1>3

\* The reader of C++ keeps its position and what it resizes in the buffer.
Inside(r) == r.pos <= Len(r.buf) /\ r.resized <= Len(r.buf)

\* CdrReader::read reads one number behind the next boundary and stays in the buffer.
LEMMA ReadIs ==
    ASSUME NEW b \in Seq(Nat), NEW r \in Readers(b), NEW t \in Numeric
    PROVE  LET q == read(r, t)
               at == Boundary(r.pos, SizeOf(t))
           IN  /\ Reads(q, r, b, at + SizeOf(t), NumbersAt(b, at, t, 1))
               /\ Inside(r) => Inside(q)
               /\ q.ok /\ (t = "bool" => BytesAt(b, at, SizeOf(t))[1] <= 1) => q.odd = r.odd
<1> DEFINE q == read(r, t)
           at == Boundary(r.pos, SizeOf(t))
           a == RAlign(r, SizeOf(t))
<1>0. SizeOf(t) \in Sizes /\ SizeOf(t) \in Nat /\ SizeOf(t) >= 1 /\ 1 * SizeOf(t) = SizeOf(t)
  BY SizeOfIs DEF Sizes
<1>1. r.buf = b /\ r.pos \in Nat /\ r.pos >= 4 /\ r.resized \in Nat /\ Len(b) \in Nat
  BY ReaderFields
<1>2. at \in Nat /\ at >= r.pos
  BY <1>0, <1>1, BoundaryIs
<1>3. CASE ~r.ok
  <2>1. q = r
    BY <1>3 DEF read
  <2> QED BY <1>3, <2>1, Zenon DEF Reads
<1>4. CASE r.ok
  <2>1. q = read_bytes(a, t, 1)
    BY <1>4 DEF read
  <2>2. /\ a \in Readers(b) /\ a.out = r.out /\ a.resized = r.resized /\ a.odd = r.odd
        /\ at > Len(b) => ~a.ok /\ a.pos = r.pos
        /\ at <= Len(b) => a.ok = r.ok /\ a.pos = at
    BY <1>0, RAlignIs
  <2>3. LET u == read_bytes(a, t, 1)
        IN  /\ Reads(u, a, b, a.pos + 1 * SizeOf(t), NumbersAt(b, a.pos, t, 1))
            /\ ~u.ok => u.pos = a.pos
            /\ u.ok /\ (t = "bool" => BytesAt(b, a.pos, SizeOf(t))[1] <= 1) => u.odd = a.odd
    <3>1. a \in Readers(b) /\ 1 \in Nat
      BY <2>2
    <3> HIDE DEF a
    <3> QED BY <3>1, ReadBytesIs
  <2> HIDE DEF q, a, at
  <2>4. CASE at > Len(b)
    <3>1. ~a.ok /\ a.pos = r.pos /\ ~(at + SizeOf(t) <= Len(b))
      BY <1>0, <1>1, <1>2, <2>2, <2>4
    <3>2. ~q.ok /\ q.resized = r.resized /\ q \in Readers(b) /\ q.pos = r.pos
      BY <2>1, <2>2, <2>3, <3>1, Zenon DEF Reads
    <3>3. Inside(r) => Inside(q)
      <4>1. q.buf = r.buf
        BY <1>1, <3>2, ReaderFields, Zenon
      <4> QED BY <3>2, <4>1, Zenon DEF Inside
    <3> QED BY <3>1, <3>2, <3>3, Zenon DEF Reads, q, at
  <2>5. CASE at <= Len(b)
    <3>1. a.ok = r.ok /\ a.pos = at
      BY <2>2, <2>5
    <3>2. Reads(q, r, b, at + SizeOf(t), NumbersAt(b, at, t, 1))
      BY <1>0, <2>1, <2>2, <2>3, <3>1, Zenon DEF Reads
    <3>3. q.ok /\ (t = "bool" => BytesAt(b, at, SizeOf(t))[1] <= 1) => q.odd = r.odd
      BY <2>1, <2>2, <2>3, <3>1, Zenon
    <3>4. Inside(r) => Inside(q)
      <4>1. q \in Readers(b) /\ q.resized = r.resized
        BY <3>2, Zenon DEF Reads
      <4>2. q.buf = b
        BY <4>1, ReaderFields
      <4>3. q.pos <= Len(b)
        <5>1. CASE q.ok
          <6>1. at + SizeOf(t) <= Len(b) /\ q.pos = at + SizeOf(t)
            BY <3>2, <5>1, Zenon DEF Reads
          <6> QED BY <6>1
        <5>2. CASE ~q.ok
          <6>1. q.pos = at
            BY <2>1, <2>3, <3>1, <5>2, Zenon
          <6> QED BY <2>5, <6>1
        <5> QED BY <5>1, <5>2
      <4> QED BY <1>1, <4>1, <4>2, <4>3, Zenon DEF Inside
    <3> QED BY <3>2, <3>3, <3>4, Zenon DEF q, at
  <2> QED BY <1>1, <1>2, <2>4, <2>5
<1> QED BY <1>3, <1>4

\* _take reads the same numbers in Python.
LEMMA PyTakeIs ==
    ASSUME NEW b \in Seq(Nat), NEW r \in Readers(b), NEW t \in Numeric, NEW count \in Nat
    PROVE  LET q == py_take(r, t, count)
               at == Boundary(r.pos, SizeOf(t))
           IN  Reads(q, r, b, at + count * SizeOf(t), NumbersAt(b, at, t, count))
<1> DEFINE q == py_take(r, t, count)
           at == Boundary(r.pos, SizeOf(t))
           a == py_rpad(r, SizeOf(t))
           size == count * SizeOf(t)
<1>0. SizeOf(t) \in Sizes /\ SizeOf(t) \in Nat /\ SizeOf(t) >= 1
  BY SizeOfIs DEF Sizes
<1>1. r.buf = b /\ r.pos \in Nat /\ r.pos >= 4 /\ r.resized \in Nat /\ Len(b) \in Nat
  BY ReaderFields
<1>2. at \in Nat /\ at >= r.pos
  BY <1>0, <1>1, BoundaryIs
<1>3. size \in Nat
  <2>1. \A x, y \in Nat : x * y \in Nat
    OBVIOUS
  <2> QED BY <1>0, <2>1
<1>4. CASE ~r.ok
  <2>1. q = r
    BY <1>4 DEF py_take
  <2> QED BY <1>4, <2>1, Zenon DEF Reads
<1>5. CASE r.ok
  <2>1. q = read_bytes(a, t, count)
    BY <1>5 DEF py_take
  <2>2. /\ a \in Readers(b) /\ a.out = r.out /\ a.resized = r.resized /\ a.pos = at
        /\ at > Len(b) => ~a.ok
        /\ at <= Len(b) => a.ok = r.ok
    BY <1>0, PyPadIs
  <2>3. Reads(read_bytes(a, t, count), a, b, a.pos + size, NumbersAt(b, a.pos, t, count))
    <3>1. a \in Readers(b)
      BY <2>2
    <3> HIDE DEF a
    <3> QED BY <3>1, ReadBytesIs
  <2> HIDE DEF q, a, at, size
  <2>4. CASE at > Len(b)
    <3>1. ~a.ok /\ ~(at + size <= Len(b))
      BY <1>1, <1>2, <1>3, <2>2, <2>4
    <3> QED BY <2>1, <2>2, <2>3, <3>1, Zenon DEF Reads, q, at, size
  <2>5. CASE at <= Len(b)
    <3>1. a.ok = r.ok
      BY <2>2, <2>5
    <3> QED BY <2>1, <2>2, <2>3, <3>1, Zenon DEF Reads, q, at, size
  <2> QED BY <1>1, <1>2, <2>4, <2>5
<1> QED BY <1>4, <1>5

-----------------------------------------------------------------------------
(* Strings.                                                                *)

\* The length at a boundary, the end of the string behind it and its bytes; a length of 0
\* is refused.
LengthAt(b, at) == Decoded("uint32", BytesAt(b, at, 4))

\* Where the string ends.
StringEnd(b, at) == IF LengthAt(b, at) = 0 THEN Len(b) + 1 ELSE at + 4 + LengthAt(b, at)

\* Its bytes, without the 0 behind them.
StringOut(b, at) == <<BytesAt(b, at + 4, LengthAt(b, at) - 1)>>

\* The length of a string is one number.
LEMMA LengthAtIs ==
    ASSUME NEW b \in Seq(Nat), NEW at \in Nat
    PROVE  /\ LengthAt(b, at) \in Nat
           /\ NumbersAt(b, at, "uint32", 1) = <<LengthAt(b, at)>>
<1>1. SizeOf("uint32") = 4 /\ 4 \in Sizes
  BY SizeOfIs DEF Sizes
<1>2. BytesAt(b, at, 4) \in [1..4 -> Nat]
  BY DEF BytesAt
<1>3. LengthAt(b, at) \in Nat
  BY <1>1, <1>2, NumberIs DEF LengthAt
<1>4. at + (1 - 1) * 4 = at
  OBVIOUS
<1> DEFINE ns == NumbersAt(b, at, "uint32", 1)
<1>5. "uint32" \in Numeric
  BY DEF Numeric
<1>6. ns \in Seq(Nat) /\ Len(ns) = 1
  BY <1>5, NumbersAtSeq
<1>7. ns[1] = LengthAt(b, at)
  BY <1>1, <1>4 DEF NumbersAt, LengthAt
<1> HIDE DEF ns
<1>8. ns = <<LengthAt(b, at)>>
  BY <1>3, <1>6, <1>7, OnePiece
<1> QED BY <1>3, <1>8 DEF ns

\* The last of what has been read, and what is before it.
LEMMA LastRead ==
    ASSUME NEW S, NEW s \in Seq(S), NEW x \in S, NEW w, w = s \o <<x>>
    PROVE  w # << >> /\ Last(w) = x /\ Front(w) = s /\ w = Append(s, x)
<1>1. w = Append(s, x)
  OBVIOUS
<1>2. Len(w) = Len(s) + 1 /\ w[Len(s) + 1] = x /\ Len(s) \in Nat /\ w # << >>
  BY <1>1
<1>3. Front(w) = s
  BY <1>1 DEF Front
<1> QED BY <1>1, <1>2, <1>3 DEF Last

\* After its length, a string is read if it fits the buffer; in both languages.
LEMMA StringReadIs ==
    ASSUME NEW b \in Seq(Nat), NEW r \in Readers(b), NEW at \in Nat, NEW l,
           Reads(l, r, b, at + 4, NumbersAt(b, at, "uint32", 1)), NEW q,
           q = IF ~l.ok THEN l
               ELSE IF Last(l.out) # 0 /\ l.pos + Last(l.out) <= Len(l.buf)
                    THEN StringAt(l, Last(l.out)) ELSE Throw(l)
    PROVE  /\ Reads(q, r, b, StringEnd(b, at), StringOut(b, at))
           /\ ~q.ok => q.pos = l.pos
           /\ q.odd = l.odd
           /\ q.ok => (q.utf8 <=> l.utf8 /\ Utf8(StringOut(b, at)[1]))
<1> DEFINE n == LengthAt(b, at)
           str == BytesAt(b, at + 4, n - 1)
<1>0. n \in Nat /\ Len(b) \in Nat
  BY LengthAtIs
<1>1. l \in Readers(b) /\ l.resized = r.resized /\ (l.ok <=> r.ok /\ at + 4 <= Len(b))
  BY Zenon DEF Reads
<1>2. /\ l.buf = b /\ l.pos \in Nat /\ l.pos >= 4 /\ l.out \in Seq(Outs)
  BY <1>1, ReaderFields
<1>3. r.out \in Seq(Outs)
  BY ReaderFields
<1>4. CASE ~l.ok
  <2>1. q = l
    BY <1>4
  <2>2. at + 4 <= Len(b) => ~r.ok
    BY <1>1, <1>4, Zenon
  <2>3. StringEnd(b, at) <= Len(b) => at + 4 <= Len(b)
    BY <1>0 DEF StringEnd
  <2> QED BY <1>1, <1>4, <2>1, <2>2, <2>3, Zenon DEF Reads
<1>5. CASE l.ok
  <2>1. l.pos = at + 4 /\ l.out = r.out \o <<n>>
    BY <1>5, LengthAtIs, Zenon DEF Reads
  <2>2. n \in Outs
    BY <1>0 DEF Outs
  <2> HIDE DEF n, str
  <2>3. Last(l.out) = n /\ Front(l.out) = r.out
    BY <1>3, <2>1, <2>2, LastRead
  <2>4. r.ok
    BY <1>1, <1>5, Zenon
  <2>5. CASE n # 0 /\ l.pos + n <= Len(b)
    <3> DEFINE s == [l EXCEPT !.pos = @ + n, !.out = Append(Front(@), Peek(l, n - 1)),
                              !.utf8 = @ /\ Utf8(Peek(l, n - 1))]
    <3>1. q = s
      BY <1>2, <1>5, <2>3, <2>5, Zenon DEF StringAt
    <3>2. Peek(l, n - 1) = str
      BY <1>1, <2>1, PeekIs DEF str
    <3>3. str \in Outs
      <4>1. n - 1 \in Nat
        BY <1>0, <2>5
      <4>2. str \in [1..(n - 1) -> Nat]
        BY <4>1 DEF str, BytesAt
      <4>3. str \in Seq(Nat)
        BY <4>1, <4>2
      <4> QED BY <4>3 DEF Outs
    <3>4. Append(Front(l.out), Peek(l, n - 1)) = r.out \o <<str>>
      BY <1>3, <2>3, <3>2, <3>3
    <3>5. Append(Front(l.out), Peek(l, n - 1)) \in Seq(Outs)
      BY <1>3, <2>3, <3>2, <3>3
    <3>6. l.pos + n \in Nat /\ l.pos + n >= 4
      BY <1>0, <1>2
    <3> DEFINE out == Append(Front(l.out), Peek(l, n - 1))
               to == l.pos + n
               utf8 == l.utf8 /\ Utf8(Peek(l, n - 1))
    <3>7. s = [l EXCEPT !.pos = to, !.out = out, !.utf8 = utf8]
      OBVIOUS
    <3>7a. utf8 \in BOOLEAN
      OBVIOUS
    <3>7b. utf8 <=> l.utf8 /\ Utf8(StringOut(b, at)[1])
      <4>1. StringOut(b, at)[1] = str
        BY DEF StringOut, str, n
      <4> QED BY <3>2, <4>1, Zenon
    <3> HIDE DEF out, to, utf8, s
    <3>8. s \in Readers(b)
      BY <1>1, <3>5, <3>6, <3>7, <3>7a DEF Readers, out, to
    <3>8a. s.utf8 = utf8
      BY <1>1, <3>7 DEF Readers
    <3>9. s.pos = to /\ s.out = out /\ s.resized = l.resized
      BY <1>1, <3>7 DEF Readers
    <3>10. s.ok = l.ok
      BY <1>1, <3>7 DEF Readers
    <3>11. s.odd = l.odd
      BY <1>1, <3>7 DEF Readers
    <3>12. StringEnd(b, at) = to /\ to <= Len(b)
      BY <1>0, <2>1, <2>5 DEF StringEnd, n, to
    <3>13. out = r.out \o StringOut(b, at)
      BY <3>4, Zenon DEF out, StringOut, str, n
    <3>14. Reads(q, r, b, StringEnd(b, at), StringOut(b, at)) /\ q.ok /\ q.odd = l.odd
      BY <1>1, <1>5, <2>4, <3>1, <3>8, <3>9, <3>10, <3>11, <3>12, <3>13, Zenon DEF Reads
    <3> QED BY <3>1, <3>7b, <3>8a, <3>14, Zenon
  <2>6. CASE ~(n # 0 /\ l.pos + n <= Len(b))
    <3>1. q = Throw(l)
      BY <1>2, <1>5, <2>3, <2>6, Zenon
    <3>2. /\ Throw(l) \in Readers(b) /\ ~Throw(l).ok /\ Throw(l).pos = l.pos
          /\ Throw(l).resized = l.resized /\ Throw(l).odd = l.odd
      BY <1>1, Throws
    <3>3. ~(StringEnd(b, at) <= Len(b))
      BY <1>0, <2>1, <2>6 DEF StringEnd, n
    <3> QED BY <1>1, <3>1, <3>2, <3>3, Zenon DEF Reads
  <2> QED BY <2>5, <2>6
<1> QED BY <1>4, <1>5

\* CdrReader::read_string reads a string and stays in the buffer.
LEMMA ReadStringIs ==
    ASSUME NEW b \in Seq(Nat), NEW r \in Readers(b)
    PROVE  LET q == read_string(r)
               at == Boundary(r.pos, 4)
           IN  /\ Reads(q, r, b, StringEnd(b, at), StringOut(b, at))
               /\ Inside(r) => Inside(q)
               /\ q.ok => q.odd = r.odd
               /\ q.ok => (q.utf8 <=> r.utf8 /\ Utf8(StringOut(b, at)[1]))
<1> DEFINE q == read_string(r)
           at == Boundary(r.pos, 4)
           l == read(r, "uint32")
<1>0. SizeOf("uint32") = 4 /\ 4 \in Sizes /\ "uint32" \in Numeric /\ "uint32" # "bool"
  BY SizeOfIs DEF Sizes, Numeric
<1>1. r.buf = b /\ r.pos \in Nat /\ r.pos >= 4 /\ Len(b) \in Nat
  BY ReaderFields
<1>2. at \in Nat
  BY <1>0, <1>1, BoundaryIs
<1>3. /\ Reads(l, r, b, at + 4, NumbersAt(b, at, "uint32", 1))
      /\ Inside(r) => Inside(l)
      /\ l.ok => l.odd = r.odd
  <2>1. LET s == read(r, "uint32")
            to == Boundary(r.pos, SizeOf("uint32"))
        IN  /\ Reads(s, r, b, to + SizeOf("uint32"), NumbersAt(b, to, "uint32", 1))
            /\ Inside(r) => Inside(s)
            /\ s.ok /\ ("uint32" = "bool" => BytesAt(b, to, SizeOf("uint32"))[1] <= 1)
                 => s.odd = r.odd
    BY <1>0, ReadIs
  <2> QED BY <1>0, <2>1, Zenon
<1>4. q = IF ~l.ok THEN l
          ELSE IF Last(l.out) # 0 /\ l.pos + Last(l.out) <= Len(l.buf)
               THEN StringAt(l, Last(l.out)) ELSE Throw(l)
  BY Zenon DEF read_string, StringFits
<1>4a. l.utf8 = r.utf8
  BY <1>0, ReadKeeps
<1> HIDE DEF q, l, at
<1>5. /\ Reads(q, r, b, StringEnd(b, at), StringOut(b, at))
      /\ ~q.ok => q.pos = l.pos
      /\ q.odd = l.odd
      /\ q.ok => (q.utf8 <=> l.utf8 /\ Utf8(StringOut(b, at)[1]))
  BY <1>2, <1>3, <1>4, StringReadIs
<1>6. q \in Readers(b) /\ l \in Readers(b) /\ q.resized = r.resized /\ l.resized = r.resized
  BY <1>3, <1>5, Zenon DEF Reads
<1>7. q.buf = b /\ l.buf = b
  BY <1>6, ReaderFields
<1>8. Inside(r) => Inside(q)
  <2>1. q.ok => q.pos <= Len(b)
    BY <1>5, Zenon DEF Reads
  <2> QED BY <1>1, <1>3, <1>5, <1>6, <1>7, <2>1, Zenon DEF Inside
<1>9. q.ok => l.ok
  BY <1>4, <1>6, Zenon
<1> QED BY <1>3, <1>4a, <1>5, <1>8, <1>9, Zenon DEF q, at

\* q is the reader r after Python has read outs, up to the position to.  It has failed if that
\* is beyond the buffer, or if what it read is not good; what Python has read is UTF-8.
PyReads(q, r, b, to, outs, good) ==
    /\ q \in Readers(b) /\ q.resized = r.resized
    /\ q.ok => r.ok /\ to <= Len(b) /\ q.pos = to /\ q.out = r.out \o outs
    /\ r.utf8 => (q.ok <=> r.ok /\ to <= Len(b) /\ good) /\ (q.ok => q.utf8)

\* string() of messages.py reads the same string, if it is UTF-8.
LEMMA PyStringIs ==
    ASSUME NEW b \in Seq(Nat), NEW r \in Readers(b)
    PROVE  LET at == Boundary(r.pos, 4)
           IN  PyReads(py_rstring(r), r, b, StringEnd(b, at), StringOut(b, at),
                       Utf8(StringOut(b, at)[1]))
<1> DEFINE q == py_rstring(r)
           at == Boundary(r.pos, 4)
           l == py_take(r, "uint32", 1)
<1>0. SizeOf("uint32") = 4 /\ 4 \in Sizes /\ "uint32" \in Numeric /\ 1 * 4 = 4 /\ 1 \in Nat
  BY SizeOfIs DEF Sizes, Numeric
<1>1. r.pos \in Nat /\ r.pos >= 4
  BY ReaderFields
<1>2. at \in Nat
  BY <1>0, <1>1, BoundaryIs
<1>3. Reads(l, r, b, at + 4, NumbersAt(b, at, "uint32", 1))
  <2>1. LET s == py_take(r, "uint32", 1)
            to == Boundary(r.pos, SizeOf("uint32"))
        IN  Reads(s, r, b, to + 1 * SizeOf("uint32"), NumbersAt(b, to, "uint32", 1))
    BY <1>0, PyTakeIs
  <2> QED BY <1>0, <2>1, Zenon
<1> DEFINE z == IF ~l.ok THEN l
                ELSE IF Last(l.out) # 0 /\ l.pos + Last(l.out) <= Len(l.buf)
                     THEN StringAt(l, Last(l.out)) ELSE Throw(l)
<1>4a. l.utf8 = r.utf8
  BY <1>0, PyTakeKeeps
<1>4. q = IF ~l.ok THEN l
          ELSE IF Last(l.out) # 0 /\ l.pos + Last(l.out) <= Len(l.buf)
               THEN IF z.utf8 THEN z ELSE Throw(z) ELSE Throw(l)
  BY Zenon DEF py_rstring, PyStringFits, decode
<1>5. PICK y : y = z
  OBVIOUS
<1>6. y = IF ~l.ok THEN l
          ELSE IF Last(l.out) # 0 /\ l.pos + Last(l.out) <= Len(l.buf)
               THEN StringAt(l, Last(l.out)) ELSE Throw(l)
  BY <1>5
<1>7. l \in Readers(b)
  BY <1>3, Zenon DEF Reads
<1>8. ~Throw(l).ok
  BY <1>7, Throws
<1>9. (y.ok /\ ~y.utf8 /\ q = Throw(y)) \/ (~(y.ok /\ ~y.utf8) /\ (q = y \/ (~y.ok /\ q = Throw(y))))
  BY <1>4, <1>5, <1>6, <1>8, Zenon
<1> HIDE DEF q, l, at, z
<1>10. /\ Reads(y, r, b, StringEnd(b, at), StringOut(b, at))
       /\ y.ok => (y.utf8 <=> l.utf8 /\ Utf8(StringOut(b, at)[1]))
  BY <1>2, <1>3, <1>6, StringReadIs
<1>11. /\ y \in Readers(b) /\ Throw(y) \in Readers(b) /\ ~Throw(y).ok
       /\ Throw(y).resized = y.resized
  <2>1. y \in Readers(b)
    BY <1>10, Zenon DEF Reads
  <2> QED BY <2>1, Throws
<1>12. PyReads(q, r, b, StringEnd(b, at), StringOut(b, at), Utf8(StringOut(b, at)[1]))
  BY <1>4a, <1>9, <1>10, <1>11, Zenon DEF Reads, PyReads
<1> QED BY <1>12 DEF q, at

-----------------------------------------------------------------------------
(* An element, in both languages.                                          *)

\* Induction along a run.
LEMMA UpTo ==
    ASSUME NEW n \in Nat, NEW P, 0 \in P, \A k \in 1..n : k - 1 \in P => k \in P
    PROVE  \A k \in 0..n : k \in P
<1> DEFINE Q == {k \in Nat : k <= n => k \in P}
<1>1. 0 \in Q
  OBVIOUS
<1>2. \A k \in Nat : k \in Q => k + 1 \in Q
  <2> SUFFICES ASSUME NEW k \in Nat, k \in Q, k + 1 <= n PROVE k + 1 \in P
    OBVIOUS
  <2>1. k + 1 \in 1..n /\ (k + 1) - 1 = k /\ k \in P
    OBVIOUS
  <2> HIDE DEF Q
  <2> QED BY <2>1
<1> HIDE DEF Q
<1>3. \A k \in 0..n : k \in Nat /\ k <= n
  OBVIOUS
<1> QED BY <1>1, <1>2, <1>3, NatInductionSet DEF Q

\* Where a number or a string that begins at pos ends, and what is put out for it.
OneEnd(b, pos, t) ==
    IF t = "string" THEN StringEnd(b, Boundary(pos, 4)) ELSE Boundary(pos, SizeOf(t)) + SizeOf(t)

\* What is put out for it.
OneOut(b, pos, t) ==
    IF t = "string" THEN StringOut(b, Boundary(pos, 4))
    ELSE NumbersAt(b, Boundary(pos, SizeOf(t)), t, 1)

\* Whether Python takes it.
OneGood(b, pos, t) == t = "string" => Utf8(OneOut(b, pos, t)[1])

\* The generated code reads one number or string and stays in the buffer.
LEMMA ReadOneIs ==
    ASSUME NEW b \in Seq(Nat), NEW r \in Readers(b), NEW t \in Prims
    PROVE  /\ Reads(ReadOne(r, t), r, b, OneEnd(b, r.pos, t), OneOut(b, r.pos, t))
           /\ Inside(r) => Inside(ReadOne(r, t))
           /\ ReadOne(r, t).ok => (ReadOne(r, t).utf8 <=> r.utf8 /\ OneGood(b, r.pos, t))
<1>1. CASE t = "string"
  <2>1. ReadOne(r, t) = read_string(r)
    BY <1>1 DEF ReadOne
  <2> DEFINE at == Boundary(r.pos, 4)
             q == read_string(r)
  <2>2. /\ Reads(q, r, b, StringEnd(b, at), StringOut(b, at)) /\ (Inside(r) => Inside(q))
        /\ q.ok => (q.utf8 <=> r.utf8 /\ Utf8(StringOut(b, at)[1]))
    BY ReadStringIs
  <2>3. /\ OneEnd(b, r.pos, t) = StringEnd(b, at) /\ OneOut(b, r.pos, t) = StringOut(b, at)
        /\ OneGood(b, r.pos, t) <=> Utf8(StringOut(b, at)[1])
    BY <1>1, Zenon DEF OneEnd, OneOut, OneGood
  <2> HIDE DEF at, q
  <2> QED BY <2>1, <2>2, <2>3, Zenon DEF q
<1>2. CASE t # "string"
  <2>1. t \in Numeric /\ ReadOne(r, t) = read(r, t)
    BY <1>2 DEF ReadOne, Prims
  <2>2. LET q == read(r, t)
            at == Boundary(r.pos, SizeOf(t))
        IN  /\ Reads(q, r, b, at + SizeOf(t), NumbersAt(b, at, t, 1))
            /\ Inside(r) => Inside(q)
    BY <2>1, ReadIs
  <2>3. read(r, t).utf8 = r.utf8
    BY <2>1, ReadKeeps
  <2> QED BY <1>2, <2>1, <2>2, <2>3, Zenon DEF OneEnd, OneOut, OneGood
<1> QED BY <1>1, <1>2

\* Python reads the same.
LEMMA PyReadOneIs ==
    ASSUME NEW b \in Seq(Nat), NEW r \in Readers(b), NEW t \in Prims
    PROVE  PyReads(PyReadOne(r, t), r, b, OneEnd(b, r.pos, t), OneOut(b, r.pos, t),
                   OneGood(b, r.pos, t))
<1>1. CASE t = "string"
  <2>1. PyReadOne(r, t) = py_rstring(r)
    BY <1>1 DEF PyReadOne
  <2> DEFINE at == Boundary(r.pos, 4)
  <2>2. PyReads(PyReadOne(r, t), r, b, StringEnd(b, at), StringOut(b, at),
                Utf8(StringOut(b, at)[1]))
    BY <2>1, PyStringIs
  <2>3. /\ OneEnd(b, r.pos, t) = StringEnd(b, at) /\ OneOut(b, r.pos, t) = StringOut(b, at)
        /\ OneGood(b, r.pos, t) <=> Utf8(StringOut(b, at)[1])
    BY <1>1, Zenon DEF OneEnd, OneOut, OneGood
  <2> HIDE DEF at
  <2> QED BY <2>2, <2>3, Zenon DEF PyReads
<1>2. CASE t # "string"
  <2>1. t \in Numeric /\ PyReadOne(r, t) = py_take(r, t, 1) /\ 1 \in Nat
    BY <1>2 DEF PyReadOne, Prims
  <2>2. LET at == Boundary(r.pos, SizeOf(t))
        IN  Reads(py_take(r, t, 1), r, b, at + 1 * SizeOf(t), NumbersAt(b, at, t, 1))
    BY <2>1, PyTakeIs
  <2>3. 1 * SizeOf(t) = SizeOf(t)
    BY <2>1, SizeOfIs DEF Sizes
  <2>4. Reads(PyReadOne(r, t), r, b, OneEnd(b, r.pos, t), OneOut(b, r.pos, t))
    BY <1>2, <2>1, <2>2, <2>3, Zenon DEF OneEnd, OneOut
  <2>5. PyReadOne(r, t).utf8 = r.utf8 /\ OneGood(b, r.pos, t)
    <3>1. py_take(r, t, 1).utf8 = r.utf8
      BY <2>1, PyTakeKeeps
    <3> QED BY <1>2, <2>1, <3>1, Zenon DEF OneGood
  <2> QED BY <2>4, <2>5, Zenon DEF Reads, PyReads
<1> QED BY <1>1, <1>2

\* The readers of the two languages have read the same so far; Python has failed at a string
\* that is not UTF-8, C++ has read it.
Same(c, p, b) ==
    /\ c \in Readers(b) /\ p \in Readers(b)
    /\ p.ok <=> c.ok /\ c.utf8
    /\ p.ok => p.utf8 /\ c.pos = p.pos /\ c.out = p.out

\* Two readers that read the same stay the same.
LEMMA SameReads ==
    ASSUME NEW b, NEW c, NEW p, NEW to, NEW outs, NEW good, NEW c2, NEW p2, Same(c, p, b),
           Reads(c2, c, b, to, outs), c2.ok => (c2.utf8 <=> c.utf8 /\ good),
           p.ok => PyReads(p2, p, b, to, outs, good),
           ~p.ok => p2 \in Readers(b) /\ ~p2.ok
    PROVE  Same(c2, p2, b)
<1>1. CASE p.ok
  BY <1>1, Zenon DEF Same, Reads, PyReads
<1>2. CASE ~p.ok
  BY <1>2, Zenon DEF Same, Reads
<1> QED BY <1>1, <1>2

\* One number or string, read in both languages.
LEMMA SameOne ==
    ASSUME NEW b \in Seq(Nat), NEW c, NEW p, NEW t \in Prims, Same(c, p, b)
    PROVE  Same(ReadOne(c, t), PyReadOne(p, t), b)
<1>1. c \in Readers(b) /\ p \in Readers(b)
  BY Zenon DEF Same
<1>2. /\ Reads(ReadOne(c, t), c, b, OneEnd(b, c.pos, t), OneOut(b, c.pos, t))
      /\ ReadOne(c, t).ok => (ReadOne(c, t).utf8 <=> c.utf8 /\ OneGood(b, c.pos, t))
  BY <1>1, ReadOneIs
<1>3. PyReads(PyReadOne(p, t), p, b, OneEnd(b, p.pos, t), OneOut(b, p.pos, t),
              OneGood(b, p.pos, t))
  BY <1>1, PyReadOneIs
<1> DEFINE to == OneEnd(b, c.pos, t)
           outs == OneOut(b, c.pos, t)
           good == OneGood(b, c.pos, t)
           c2 == ReadOne(c, t)
           p2 == PyReadOne(p, t)
<1>4. p.ok => PyReads(p2, p, b, to, outs, good)
  <2>1. p.ok => p.pos = c.pos
    BY Zenon DEF Same
  <2> QED BY <1>3, <2>1, Zenon
<1>5. ~p.ok => p2 \in Readers(b) /\ ~p2.ok
  BY <1>3, Zenon DEF PyReads
<1> HIDE DEF to, outs, good, c2, p2
<1>6. Reads(c2, c, b, to, outs) /\ (c2.ok => (c2.utf8 <=> c.utf8 /\ good))
  BY <1>2, Zenon DEF to, outs, good, c2
<1>7. Same(c2, p2, b)
  BY <1>4, <1>5, <1>6, SameReads
<1> QED BY <1>7 DEF c2, p2

\* The generated code reads an element and stays in the buffer.
LEMMA ReadElemIs ==
    ASSUME NEW b \in Seq(Nat), NEW r \in Readers(b), NEW elem \in Seq(Prims)
    PROVE  /\ ReadElem(r, elem) \in Readers(b)
           /\ Inside(r) => Inside(ReadElem(r, elem))
<1> DEFINE n == Len(elem)
<1>1. n \in Nat /\ DOMAIN elem = 1..n /\ \A i \in 1..n : elem[i] \in Prims
  OBVIOUS
<1> HIDE DEF n
<1>2. ReadElem(r, elem) \in Readers(b)
  <2>1. \A s \in Readers(b), i \in 1..n : ReadOne(s, elem[i]) \in Readers(b)
    <3>1. \A s \in Readers(b), t \in Prims : ReadOne(s, t) \in Readers(b)
      BY ReadOneIs, Zenon DEF Reads
    <3> QED BY <1>1, <3>1
  <2> DEFINE R == Readers(b)
  <2>2. r \in R /\ \A s \in R, i \in 1..n : ReadOne(s, elem[i]) \in R
    BY <2>1
  <2> HIDE DEF R
  <2>3. PICK F : ReadElemRun(F, elem, R, r, n)
    <3>1. ReadElemIn(elem, R, n)
      BY <1>1, <2>2 DEF ReadElemIn
    <3> QED BY <2>2, <3>1, ReadElemFold
  <2>4. n \in 0..n
    BY <1>1
  <2> QED BY <2>3, <2>4 DEF R, ReadElemRun
<1>3. ASSUME Inside(r) PROVE Inside(ReadElem(r, elem))
  <2> DEFINE R == {s \in Readers(b) : Inside(s)}
  <2>1. \A s \in R, t \in Prims : ReadOne(s, t) \in R
    BY ReadOneIs, Zenon DEF Reads
  <2>2. r \in R
    BY <1>3
  <2> HIDE DEF R
  <2>3. \A s \in R, i \in 1..n : ReadOne(s, elem[i]) \in R
    BY <1>1, <2>1
  <2>4. PICK F : ReadElemRun(F, elem, R, r, n)
    <3>1. ReadElemIn(elem, R, n)
      BY <1>1, <2>3 DEF ReadElemIn
    <3> QED BY <2>2, <3>1, ReadElemFold
  <2>5. n \in 0..n
    BY <1>1
  <2>6. ReadElem(r, elem) \in R
    BY <2>4, <2>5 DEF ReadElemRun
  <2> QED BY <2>6 DEF R
<1> QED BY <1>2, <1>3

\* An element, read in both languages.
LEMMA SameElem ==
    ASSUME NEW b \in Seq(Nat), NEW c, NEW p, NEW elem \in Seq(Prims), Same(c, p, b)
    PROVE  Same(ReadElem(c, elem), PyReadElem(p, elem), b)
<1> DEFINE n == Len(elem)
           R == Readers(b)
<1>1. n \in Nat /\ DOMAIN elem = 1..n /\ \A i \in 1..n : elem[i] \in Prims
  OBVIOUS
<1>2. c \in R /\ p \in R
  BY Zenon DEF Same
<1>3. \A s \in R, t \in Prims : ReadOne(s, t) \in R /\ PyReadOne(s, t) \in R
  BY ReadOneIs, PyReadOneIs, Zenon DEF Reads, PyReads
<1> HIDE DEF n, R
<1>4. \A s \in R, i \in 1..n : ReadOne(s, elem[i]) \in R
  BY <1>1, <1>3
<1>5. \A s \in R, i \in 1..n : PyReadOne(s, elem[i]) \in R
  BY <1>1, <1>3
<1>6a. PICK F : ReadElemRun(F, elem, R, c, n)
  <2>1. ReadElemIn(elem, R, n)
    BY <1>1, <1>4 DEF ReadElemIn
  <2> QED BY <1>2, <2>1, ReadElemFold
<1>6. /\ F \in [0..n -> R] /\ F[0] = c /\ F[n] = ReadElem(c, elem)
      /\ \A k \in 1..n : F[k] = ReadOne(F[k - 1], elem[k])
  BY <1>6a DEF ReadElemRun
<1>7a. PICK G : PyReadElemRun(G, elem, R, p, n)
  <2>1. PyReadElemIn(elem, R, n)
    BY <1>1, <1>5 DEF PyReadElemIn
  <2> QED BY <1>2, <2>1, PyReadElemFold
<1>7. /\ G \in [0..n -> R] /\ G[0] = p /\ G[n] = PyReadElem(p, elem)
      /\ \A k \in 1..n : G[k] = PyReadOne(G[k - 1], elem[k])
  BY <1>7a DEF PyReadElemRun
<1> DEFINE P == {k \in 0..n : Same(F[k], G[k], b)}
<1>8. 0 \in P
  BY <1>1, <1>6, <1>7
<1>9. \A k \in 1..n : k - 1 \in P => k \in P
  <2> SUFFICES ASSUME NEW k \in 1..n, k - 1 \in P PROVE k \in P
    OBVIOUS
  <2>1. Same(F[k - 1], G[k - 1], b) /\ k \in 0..n
    BY <1>1
  <2>2. Same(ReadOne(F[k - 1], elem[k]), PyReadOne(G[k - 1], elem[k]), b)
    BY <1>1, <2>1, SameOne
  <2> QED BY <1>6, <1>7, <2>1, <2>2
<1> HIDE DEF P
<1>10. n \in P
  <2>1. n \in 0..n
    BY <1>1
  <2> QED BY <1>1, <1>8, <1>9, <2>1, UpTo
<1> QED BY <1>6, <1>7, <1>10 DEF P

-----------------------------------------------------------------------------
(* Members.                                                                *)

\* The members of the messages, and those of the messages Python has a codec for.
Members ==
    {m \in [many : {"one", "array", "seq"}, n : Nat, elem : Seq(Prims)] : m.elem # << >>}

\* Those Python has a codec for: one element, or numbers copied in one piece.
PyMembers == {m \in Members : (m.many = "one" /\ m.n = 1) \/ Bulk(m)}

\* The fields of a member.
LEMMA MemberFields ==
    ASSUME NEW m \in Members
    PROVE  /\ m.many \in {"one", "array", "seq"} /\ m.n \in Nat /\ m.elem \in Seq(Prims)
           /\ m.elem[1] \in Prims /\ (Bulk(m) => m.elem[1] \in Numeric)
<1>1. m.many \in {"one", "array", "seq"} /\ m.n \in Nat /\ m.elem \in Seq(Prims) /\ m.elem # << >>
  BY DEF Members
<1>2. m.elem[1] \in Prims
  BY <1>1
<1>3. Bulk(m) => m.elem[1] # "string"
  BY Zenon DEF Bulk
<1> QED BY <1>1, <1>2, <1>3 DEF Prims

\* What has been aligned stays where it is.
LEMMA BoundaryTwice ==
    ASSUME NEW pos \in Nat, pos >= 4, NEW n \in Sizes
    PROVE  /\ Boundary(Boundary(pos, n), n) = Boundary(pos, n)
           /\ (Boundary(pos, n) - 4) % n = 0
<1>1. pos - 4 \in Nat /\ n \in Nat
  BY DEF Sizes
<1> DEFINE p == Padding(pos - 4, n)
<1>2. p \in Nat /\ ((pos - 4) + p) % n = 0
  BY <1>1, PaddingIs
<1> HIDE DEF p
<1>3. (pos + p) - 4 = (pos - 4) + p /\ (pos - 4) + p \in Nat
  BY <1>1, <1>2
<1>4. Padding((pos - 4) + p, n) = 0
  BY <1>2, <1>3, PaddingIs
<1>5. Boundary(pos, n) = pos + p
  BY DEF Boundary, p
<1>6. Boundary(pos + p, n) = pos + p + 0
  BY <1>3, <1>4 DEF Boundary
<1>7. pos + p + 0 = pos + p
  BY <1>2
<1> QED BY <1>2, <1>3, <1>5, <1>6, <1>7

\* A 4-byte boundary is one of 1 byte, too, and the one of 8 is at it or behind.
LEMMA BoundariesAfterFour ==
    ASSUME NEW pos \in Nat, pos >= 4, (pos - 4) % 4 = 0
    PROVE  Boundary(pos, 1) = pos /\ Boundary(pos, 4) = pos
<1>1. pos - 4 \in Nat
  OBVIOUS
<1> QED BY <1>1 DEF Boundary, Padding

\* Reading count numbers in one piece.
LEMMA BulkReadIs ==
    ASSUME NEW b \in Seq(Nat), NEW r \in Readers(b), NEW t \in Numeric, NEW count \in Nat
    PROVE  LET q == read_bytes(RAlign(r, SizeOf(t)), t, count)
               at == Boundary(r.pos, SizeOf(t))
           IN  /\ Reads(q, r, b, at + count * SizeOf(t), NumbersAt(b, at, t, count))
               /\ Inside(r) => Inside(q)
<1> DEFINE q == read_bytes(RAlign(r, SizeOf(t)), t, count)
           at == Boundary(r.pos, SizeOf(t))
           a == RAlign(r, SizeOf(t))
           size == count * SizeOf(t)
<1>0. SizeOf(t) \in Sizes /\ SizeOf(t) \in Nat /\ SizeOf(t) >= 1
  BY SizeOfIs DEF Sizes
<1>1. r.buf = b /\ r.pos \in Nat /\ r.pos >= 4 /\ r.resized \in Nat /\ Len(b) \in Nat
  BY ReaderFields
<1>2. at \in Nat /\ at >= r.pos
  BY <1>0, <1>1, BoundaryIs
<1>3. size \in Nat
  <2>1. \A x, y \in Nat : x * y \in Nat
    OBVIOUS
  <2> QED BY <1>0, <2>1
<1>4. /\ a \in Readers(b) /\ a.out = r.out /\ a.resized = r.resized
      /\ at > Len(b) => ~a.ok /\ a.pos = r.pos
      /\ at <= Len(b) => a.ok = r.ok /\ a.pos = at
  BY <1>0, RAlignIs
<1>5. LET u == read_bytes(a, t, count)
      IN  /\ Reads(u, a, b, a.pos + count * SizeOf(t), NumbersAt(b, a.pos, t, count))
          /\ ~u.ok => u.pos = a.pos
  <2>1. a \in Readers(b)
    BY <1>4
  <2> HIDE DEF a
  <2> QED BY <2>1, ReadBytesIs
<1>5a. Reads(q, a, b, a.pos + size, NumbersAt(b, a.pos, t, count)) /\ (~q.ok => q.pos = a.pos)
  BY <1>5
<1> HIDE DEF q, a, at, size
<1>6. q \in Readers(b) /\ q.resized = r.resized
  BY <1>4, <1>5a, Zenon DEF Reads
<1>7. q.buf = b
  BY <1>6, ReaderFields
<1>8. CASE at > Len(b)
  <2>1. ~a.ok /\ a.pos = r.pos /\ ~(at + size <= Len(b))
    BY <1>1, <1>2, <1>3, <1>4, <1>8
  <2>2. ~q.ok /\ q.pos = r.pos
    BY <1>5a, <2>1, Zenon DEF Reads
  <2>3. Inside(r) => Inside(q)
    BY <1>1, <1>6, <1>7, <2>2, Zenon DEF Inside
  <2> QED BY <1>6, <2>1, <2>2, <2>3, Zenon DEF Reads, q, at, size
<1>9. CASE at <= Len(b)
  <2>1. a.ok = r.ok /\ a.pos = at
    BY <1>4, <1>9
  <2>2. Reads(q, r, b, at + size, NumbersAt(b, at, t, count))
    BY <1>4, <1>5a, <2>1, Zenon DEF Reads
  <2>3. q.pos <= Len(b)
    <3>1. CASE q.ok
      BY <2>2, <3>1, Zenon DEF Reads
    <3>2. CASE ~q.ok
      <4>1. q.pos = at
        BY <1>5a, <2>1, <3>2, Zenon
      <4> QED BY <1>9, <4>1
    <3> QED BY <3>1, <3>2
  <2>4. Inside(r) => Inside(q)
    BY <1>1, <1>6, <1>7, <2>3, Zenon DEF Inside
  <2> QED BY <2>2, <2>4, Zenon DEF q, at, size
<1> QED BY <1>1, <1>2, <1>8, <1>9

\* Reading the length of a sequence, which the generated code aligns for twice.
LEMMA CountReadIs ==
    ASSUME NEW b \in Seq(Nat), NEW r \in Readers(b)
    PROVE  LET c == read(RAlign(r, 4), "uint32")
               at == Boundary(r.pos, 4)
           IN  /\ Reads(c, r, b, at + 4, NumbersAt(b, at, "uint32", 1))
               /\ Inside(r) => Inside(c)
<1> DEFINE a == RAlign(r, 4)
           c == read(a, "uint32")
           at == Boundary(r.pos, 4)
<1>0. SizeOf("uint32") = 4 /\ 4 \in Sizes /\ "uint32" \in Numeric
  BY SizeOfIs DEF Sizes, Numeric
<1>1. r.buf = b /\ r.pos \in Nat /\ r.pos >= 4 /\ r.resized \in Nat /\ Len(b) \in Nat
  BY ReaderFields
<1>2. at \in Nat /\ at >= r.pos /\ Boundary(at, 4) = at
  BY <1>0, <1>1, BoundaryIs, BoundaryTwice
<1>4. /\ a \in Readers(b) /\ a.out = r.out /\ a.resized = r.resized
      /\ at > Len(b) => ~a.ok /\ a.pos = r.pos
      /\ at <= Len(b) => a.ok = r.ok /\ a.pos = at
  BY <1>0, RAlignIs
<1>5. LET s == read(a, "uint32")
          to == Boundary(a.pos, SizeOf("uint32"))
      IN  /\ Reads(s, a, b, to + SizeOf("uint32"), NumbersAt(b, to, "uint32", 1))
          /\ Inside(a) => Inside(s)
  <2>1. a \in Readers(b)
    BY <1>4
  <2> HIDE DEF a
  <2> QED BY <1>0, <2>1, ReadIs
<1>6. /\ Reads(c, a, b, Boundary(a.pos, 4) + 4, NumbersAt(b, Boundary(a.pos, 4), "uint32", 1))
      /\ Inside(a) => Inside(c)
  BY <1>0, <1>5, Zenon
<1>7. a.buf = b
  BY <1>4, ReaderFields
<1> HIDE DEF a, c, at
<1>8. CASE at > Len(b)
  <2>1. ~a.ok /\ a.pos = r.pos /\ ~(at + 4 <= Len(b))
    BY <1>1, <1>2, <1>4, <1>8
  <2>2. Inside(r) => Inside(a)
    BY <1>1, <1>4, <1>7, <2>1, Zenon DEF Inside
  <2> QED BY <1>4, <1>6, <2>1, <2>2, Zenon DEF Reads, c, at, a
<1>9. CASE at <= Len(b)
  <2>1. a.ok = r.ok /\ a.pos = at
    BY <1>4, <1>9
  <2>2. Reads(c, r, b, at + 4, NumbersAt(b, at, "uint32", 1))
    BY <1>2, <1>4, <1>6, <2>1, Zenon DEF Reads
  <2>3. Inside(r) => Inside(a)
    BY <1>1, <1>4, <1>7, <1>9, <2>1, Zenon DEF Inside
  <2> QED BY <1>6, <2>2, <2>3, Zenon DEF c, at, a
<1> QED BY <1>1, <1>2, <1>8, <1>9

\* Elements of a member read one by one, until one fails.
LEMMA ReadAllIs ==
    ASSUME NEW b \in Seq(Nat), NEW r \in Readers(b), NEW elem \in Seq(Prims), NEW n \in Nat
    PROVE  /\ ReadAll(r, elem, n) \in Readers(b)
           /\ Inside(r) => Inside(ReadAll(r, elem, n))
<1>0. DOMAIN [i \in 1..n |-> i] = 1..n /\ n \in 0..n
  OBVIOUS
<1>1. ReadAll(r, elem, n) \in Readers(b)
  <2> DEFINE R == Readers(b)
  <2>1. \A s \in R : ReadNext(s, elem) \in R
    BY ReadElemIs DEF ReadNext
  <2>2. r \in R
    OBVIOUS
  <2> HIDE DEF R
  <2>3. ReadManyIn(elem, R, n)
    BY <1>0, <2>1 DEF ReadManyIn
  <2>4. PICK F : ReadManyRun(F, elem, R, r, n)
    BY <2>2, <2>3, ReadManyFold
  <2> QED BY <1>0, <2>4 DEF R, ReadManyRun
<1>2. ASSUME Inside(r) PROVE Inside(ReadAll(r, elem, n))
  <2> DEFINE R == {s \in Readers(b) : Inside(s)}
  <2>1. \A s \in R : ReadNext(s, elem) \in R
    BY ReadElemIs DEF ReadNext
  <2>2. r \in R
    BY <1>2
  <2> HIDE DEF R
  <2>3. ReadManyIn(elem, R, n)
    BY <1>0, <2>1 DEF ReadManyIn
  <2>4. PICK F : ReadManyRun(F, elem, R, r, n)
    BY <2>2, <2>3, ReadManyFold
  <2>5. ReadAll(r, elem, n) \in R
    BY <1>0, <2>4 DEF ReadManyRun
  <2> QED BY <2>5 DEF R
<1> QED BY <1>1, <1>2

\* Members that are not copied in one piece.
LEMMA ReadManyOneByOne ==
    ASSUME NEW r, NEW m, NEW n, ~Bulk(m)
    PROVE  ReadMany(r, m, n) = ReadAll(r, m.elem, n)
BY DEF ReadMany, ReadAll, ReadNext, FoldLeft, MapThenFoldSet

\* Members that are copied in one piece.
LEMMA ReadManyBulk ==
    ASSUME NEW r, NEW m, NEW n, Bulk(m)
    PROVE  ReadMany(r, m, n) = IF m.many = "seq" /\ n = 0 THEN r
                               ELSE read_bytes(RAlign(r, SizeOf(m.elem[1])), m.elem[1], n)
BY Zenon DEF ReadMany

\* An empty sequence of numbers.
LEMMA ReadManyNone ==
    ASSUME NEW r, NEW m, Bulk(m), m.many = "seq"
    PROVE  ReadMany(r, m, 0) = r
BY Zenon DEF ReadMany

\* The elements of a member are read within the buffer.
LEMMA ReadManyIs ==
    ASSUME NEW b \in Seq(Nat), NEW r \in Readers(b), NEW m \in Members, NEW n \in Nat
    PROVE  /\ ReadMany(r, m, n) \in Readers(b)
           /\ Inside(r) => Inside(ReadMany(r, m, n))
<1>0. m.elem \in Seq(Prims) /\ (Bulk(m) => m.elem[1] \in Numeric)
  BY MemberFields
<1>1. CASE ~Bulk(m)
  BY <1>0, <1>1, ReadManyOneByOne, ReadAllIs
<1>2. CASE Bulk(m)
  <2> DEFINE t == m.elem[1]
             q == read_bytes(RAlign(r, SizeOf(t)), t, n)
  <2>1. ReadMany(r, m, n) = r \/ ReadMany(r, m, n) = q
    BY <1>2, ReadManyBulk
  <2>2. t \in Numeric
    BY <1>0, <1>2
  <2> HIDE DEF t
  <2>3. LET at == Boundary(r.pos, SizeOf(t))
        IN  /\ Reads(q, r, b, at + n * SizeOf(t), NumbersAt(b, at, t, n))
            /\ Inside(r) => Inside(q)
    BY <2>2, BulkReadIs
  <2> HIDE DEF q
  <2>4. q \in Readers(b) /\ (Inside(r) => Inside(q))
    BY <2>3, Zenon DEF Reads
  <2> QED BY <2>1, <2>4
<1> QED BY <1>1, <1>2

\* A reader that has resized a sequence.
LEMMA Resizes ==
    ASSUME NEW b, NEW r \in Readers(b), NEW n \in Nat
    PROVE  LET s == [r EXCEPT !.resized = n]
           IN  /\ s \in Readers(b) /\ s.pos = r.pos /\ s.buf = b
               /\ s.out = r.out /\ s.resized = n /\ s.odd = r.odd /\ s.ok = r.ok
               /\ s.utf8 = r.utf8
<1> DEFINE s == [r EXCEPT !.resized = n]
<1>1. s \in Readers(b)
  BY DEF Readers
<1>2. s.pos = r.pos /\ s.buf = b
  BY DEF Readers
<1>3. s.out = r.out /\ s.resized = n
  BY DEF Readers
<1>4. s.odd = r.odd
  BY DEF Readers
<1>5. s.ok = r.ok
  BY DEF Readers
<1>6. s.utf8 = r.utf8
  BY DEF Readers
<1> QED BY <1>1, <1>2, <1>3, <1>4, <1>5, <1>6

\* After its length has been read, a sequence's elements: they are read if the buffer may
\* hold them.
LEMMA CountIs ==
    ASSUME NEW b \in Seq(Nat), NEW r \in Readers(b), NEW c, NEW at \in Nat, 
           Reads(c, r, b, at + 4, NumbersAt(b, at, "uint32", 1)), c.ok
    PROVE  /\ LengthAt(b, at) \in Nat /\ Last(c.out) = LengthAt(b, at)
           /\ c.out = r.out \o <<LengthAt(b, at)>> /\ c.pos = at + 4 /\ c \in Readers(b)
           /\ c.resized = r.resized /\ r.ok
           /\ CountFits(c, LengthAt(b, at)) <=> LengthAt(b, at) <= Len(b) - (at + 4)
<1> DEFINE n == LengthAt(b, at)
<1>1. n \in Nat /\ NumbersAt(b, at, "uint32", 1) = <<n>>
  BY LengthAtIs
<1> HIDE DEF n
<1>2. c \in Readers(b) /\ c.resized = r.resized /\ r.ok /\ c.pos = at + 4 /\ c.out = r.out \o <<n>>
  BY <1>1, Zenon DEF Reads
<1>3. c.buf = b
  BY <1>2, ReaderFields
<1>4. r.out \in Seq(Outs) /\ n \in Outs
  BY <1>1, ReaderFields DEF Outs
<1>5. Last(c.out) = n
  <2>1. c.out = r.out \o <<n>>
    BY <1>2
  <2> DEFINE w == c.out
             s == r.out
  <2>2. w = s \o <<n>> /\ s \in Seq(Outs)
    BY <1>4, <2>1
  <2> HIDE DEF w, s
  <2>3. Last(w) = n
    BY <1>4, <2>2, LastRead
  <2> QED BY <2>3 DEF w
<1>6. CountFits(c, n) <=> n <= Len(b) - (at + 4)
  BY <1>2, <1>3 DEF CountFits, Remaining
<1> QED BY <1>1, <1>2, <1>5, <1>6 DEF n

\* emit_deserialize reads a member and stays in the buffer, whatever length it finds.
LEMMA DeserializeMemberIs ==
    ASSUME NEW b \in Seq(Nat), NEW r \in Readers(b), NEW m \in Members
    PROVE  /\ emit_deserialize(r, m) \in Readers(b)
           /\ Inside(r) => Inside(emit_deserialize(r, m))
<1> DEFINE c == read(RAlign(r, 4), "uint32")
           at == Boundary(r.pos, 4)
           n == LengthAt(b, at)
           q == emit_deserialize(r, m)
           s == [c EXCEPT !.resized = n]
<1>0. m.n \in Nat
  BY MemberFields
<1>1. Reads(c, r, b, at + 4, NumbersAt(b, at, "uint32", 1)) /\ (Inside(r) => Inside(c))
  BY CountReadIs
<1>2. at \in Nat /\ Len(b) \in Nat
  <2>1. r.pos \in Nat /\ r.pos >= 4 /\ 4 \in Sizes
    BY ReaderFields DEF Sizes
  <2> QED BY <2>1, BoundaryIs
<1>3. q = IF ~r.ok THEN r
          ELSE IF m.many # "seq" THEN ReadMany(r, m, m.n)
          ELSE IF ~c.ok THEN c
          ELSE IF CountFits(c, Last(c.out)) THEN ReadMany([c EXCEPT !.resized = Last(c.out)], m, Last(c.out))
          ELSE Throw(c)
  BY Zenon DEF emit_deserialize
<1>4. c \in Readers(b)
  BY <1>1, Zenon DEF Reads
<1> HIDE DEF c, at, q, n
<1>5. CASE ~r.ok
  <2>1. q = r
    BY <1>3, <1>5, Zenon
  <2> QED BY <2>1, Zenon DEF q
<1>6. CASE r.ok /\ m.many # "seq"
  <2>1. q = ReadMany(r, m, m.n)
    BY <1>3, <1>6, Zenon
  <2> QED BY <1>0, <2>1, ReadManyIs, Zenon DEF q
<1>7. CASE r.ok /\ m.many = "seq" /\ ~c.ok
  <2>1. q = c
    BY <1>3, <1>7, Zenon
  <2> QED BY <1>1, <1>4, <2>1, Zenon DEF q
<1>8. CASE r.ok /\ m.many = "seq" /\ c.ok
  <2>1. /\ n \in Nat /\ Last(c.out) = n /\ c.pos = at + 4
        /\ CountFits(c, n) <=> n <= Len(b) - (at + 4)
    BY <1>1, <1>2, <1>8, CountIs DEF n
  <2>2. c.buf = b /\ c.pos \in Nat
    BY <1>4, ReaderFields
  <2>3. CASE CountFits(c, n)
    <3>1. q = ReadMany(s, m, n)
      BY <1>3, <1>8, <2>1, <2>3, Zenon DEF s
    <3>2. s \in Readers(b) /\ s.pos = c.pos /\ s.buf = b /\ s.resized = n
      BY <1>4, <2>1, Resizes
    <3> HIDE DEF s
    <3>3. n <= Len(b)
      BY <1>2, <2>1, <2>3
    <3>4. Inside(c) => Inside(s)
      BY <2>2, <3>2, <3>3, Zenon DEF Inside
    <3>5. ReadMany(s, m, n) \in Readers(b) /\ (Inside(s) => Inside(ReadMany(s, m, n)))
      BY <2>1, <3>2, ReadManyIs
    <3> QED BY <1>1, <3>1, <3>4, <3>5, Zenon DEF q
  <2>4. CASE ~CountFits(c, n)
    <3>1. q = Throw(c)
      BY <1>3, <1>8, <2>1, <2>4, Zenon
    <3>2. /\ Throw(c) \in Readers(b) /\ Throw(c).pos = c.pos /\ Throw(c).resized = c.resized
      BY <1>4, Throws
    <3>3. Throw(c).buf = b
      BY <3>2, ReaderFields
    <3> QED BY <1>1, <2>2, <3>1, <3>2, <3>3, Zenon DEF q, Inside
  <2> QED BY <2>3, <2>4
<1> QED BY <1>5, <1>6, <1>7, <1>8

\* The reader in Python fails if it would go beyond the buffer.
PyInside(r) == (r.ok => r.pos <= Len(r.buf)) /\ r.resized <= Len(r.buf)

\* What has been read in Python is in the buffer.
LEMMA ReadsInside ==
    ASSUME NEW b \in Seq(Nat), NEW r \in Readers(b), NEW q, NEW to, NEW outs,
           Reads(q, r, b, to, outs)
    PROVE  q \in Readers(b) /\ (PyInside(r) => PyInside(q))
<1>1. q \in Readers(b) /\ q.resized = r.resized /\ (q.ok => q.pos <= Len(b))
  BY Zenon DEF Reads
<1>2. q.buf = b /\ r.buf = b
  BY <1>1, ReaderFields
<1> QED BY <1>1, <1>2, Zenon DEF PyInside

\* A number or a string is; after a failure nothing is read.
LEMMA PyReadOneInside ==
    ASSUME NEW b \in Seq(Nat), NEW r \in Readers(b), NEW t \in Prims
    PROVE  /\ PyReadOne(r, t) \in Readers(b) /\ (PyInside(r) => PyInside(PyReadOne(r, t)))
           /\ ~r.ok => ~PyReadOne(r, t).ok
<1> DEFINE q == PyReadOne(r, t)
           to == OneEnd(b, r.pos, t)
           outs == OneOut(b, r.pos, t)
           good == OneGood(b, r.pos, t)
<1>1. PyReads(q, r, b, to, outs, good)
  BY PyReadOneIs
<1> HIDE DEF q, to, outs, good
<1>2. /\ q \in Readers(b) /\ q.resized = r.resized /\ (q.ok => q.pos <= Len(b))
      /\ ~r.ok => ~q.ok
  BY <1>1, Zenon DEF PyReads
<1>3. q.buf = b /\ r.buf = b
  BY <1>2, ReaderFields
<1>4. PyInside(r) => PyInside(q)
  BY <1>2, <1>3, Zenon DEF PyInside
<1> QED BY <1>2, <1>4 DEF q

\* So are numbers copied in one piece.
LEMMA PyTakeInside ==
    ASSUME NEW b \in Seq(Nat), NEW r \in Readers(b), NEW t \in Numeric, NEW n \in Nat
    PROVE  py_take(r, t, n) \in Readers(b) /\ (PyInside(r) => PyInside(py_take(r, t, n)))
<1>1. LET q == py_take(r, t, n)
          at == Boundary(r.pos, SizeOf(t))
      IN  Reads(q, r, b, at + n * SizeOf(t), NumbersAt(b, at, t, n))
  BY PyTakeIs
<1> QED BY <1>1, ReadsInside

\* So is an element.
LEMMA PyReadElemIs ==
    ASSUME NEW b \in Seq(Nat), NEW r \in Readers(b), NEW elem \in Seq(Prims)
    PROVE  /\ PyReadElem(r, elem) \in Readers(b)
           /\ PyInside(r) => PyInside(PyReadElem(r, elem))
           /\ ~r.ok => ~PyReadElem(r, elem).ok
<1> DEFINE n == Len(elem)
<1>1. n \in Nat /\ DOMAIN elem = 1..n /\ \A i \in 1..n : elem[i] \in Prims
  OBVIOUS
<1>0. n \in 0..n
  BY <1>1
<1> HIDE DEF n
<1>2. PyReadElem(r, elem) \in Readers(b)
  <2> DEFINE R == Readers(b)
  <2>1. \A s \in R, t \in Prims : PyReadOne(s, t) \in R
    BY PyReadOneInside
  <2>2. r \in R
    OBVIOUS
  <2> HIDE DEF R
  <2>3. PyReadElemIn(elem, R, n)
    BY <1>1, <2>1 DEF PyReadElemIn
  <2>4. PICK F : PyReadElemRun(F, elem, R, r, n)
    BY <2>2, <2>3, PyReadElemFold
  <2> QED BY <1>0, <2>4 DEF R, PyReadElemRun
<1>3. ASSUME PyInside(r) PROVE PyInside(PyReadElem(r, elem))
  <2> DEFINE R == {s \in Readers(b) : PyInside(s)}
  <2>1. \A s \in R, t \in Prims : PyReadOne(s, t) \in R
    BY PyReadOneInside
  <2>2. r \in R
    BY <1>3
  <2> HIDE DEF R
  <2>3. PyReadElemIn(elem, R, n)
    BY <1>1, <2>1 DEF PyReadElemIn
  <2>4. PICK F : PyReadElemRun(F, elem, R, r, n)
    BY <2>2, <2>3, PyReadElemFold
  <2>5. PyReadElem(r, elem) \in R
    BY <1>0, <2>4 DEF PyReadElemRun
  <2> QED BY <2>5 DEF R
<1>4. ASSUME ~r.ok PROVE ~PyReadElem(r, elem).ok
  <2> DEFINE R == {s \in Readers(b) : ~s.ok}
  <2>1. \A s \in R, t \in Prims : PyReadOne(s, t) \in R
    BY PyReadOneInside
  <2>2. r \in R
    BY <1>4
  <2> HIDE DEF R
  <2>3. PyReadElemIn(elem, R, n)
    BY <1>1, <2>1 DEF PyReadElemIn
  <2>4. PICK F : PyReadElemRun(F, elem, R, r, n)
    BY <2>2, <2>3, PyReadElemFold
  <2>5. PyReadElem(r, elem) \in R
    BY <1>0, <2>4 DEF PyReadElemRun
  <2> QED BY <2>5 DEF R
<1> QED BY <1>2, <1>3, <1>4

\* What py_read does for each kind of member.
LEMMA PyReadCases ==
    ASSUME NEW r, NEW m
    PROVE  LET c == py_take(r, "uint32", 1)
           IN  py_read(r, m) = IF ~r.ok THEN r
                               ELSE IF m.many = "one" THEN PyReadElem(r, m.elem)
                               ELSE IF m.many = "array" THEN py_take(r, m.elem[1], m.n)
                               ELSE IF c.ok THEN py_take(c, m.elem[1], Last(c.out)) ELSE c
BY DEF py_read, PyReadElem, PyReadOne, FoldLeft, MapThenFoldSet

\* A reader in Python has the length of a sequence where one in C++ has it.
LEMMA PyCountReadIs ==
    ASSUME NEW b \in Seq(Nat), NEW r \in Readers(b)
    PROVE  LET at == Boundary(r.pos, 4)
           IN  Reads(py_take(r, "uint32", 1), r, b, at + 4, NumbersAt(b, at, "uint32", 1))
<1>0. SizeOf("uint32") = 4 /\ "uint32" \in Numeric /\ 1 * 4 = 4 /\ 1 \in Nat
  BY SizeOfIs DEF Sizes, Numeric
<1>1. LET s == py_take(r, "uint32", 1)
          to == Boundary(r.pos, SizeOf("uint32"))
      IN  Reads(s, r, b, to + 1 * SizeOf("uint32"), NumbersAt(b, to, "uint32", 1))
  BY <1>0, PyTakeIs
<1> QED BY <1>0, <1>1, Zenon

\* Python reads a member within the buffer.
LEMMA PyReadIs ==
    ASSUME NEW b \in Seq(Nat), NEW r \in Readers(b), NEW m \in PyMembers
    PROVE  py_read(r, m) \in Readers(b) /\ (PyInside(r) => PyInside(py_read(r, m)))
<1> DEFINE c == py_take(r, "uint32", 1)
           q == py_read(r, m)
           at == Boundary(r.pos, 4)
<1>0. m \in Members /\ (m.many = "one" \/ Bulk(m))
  BY Zenon DEF PyMembers
<1>1. m.n \in Nat /\ m.elem \in Seq(Prims) /\ (m.many # "one" => m.elem[1] \in Numeric)
  BY <1>0, MemberFields
<1>2. q = IF ~r.ok THEN r
          ELSE IF m.many = "one" THEN PyReadElem(r, m.elem)
          ELSE IF m.many = "array" THEN py_take(r, m.elem[1], m.n)
          ELSE IF c.ok THEN py_take(c, m.elem[1], Last(c.out)) ELSE c
  BY PyReadCases
<1>3. Reads(c, r, b, at + 4, NumbersAt(b, at, "uint32", 1))
  BY PyCountReadIs
<1>4. at \in Nat
  <2>1. r.pos \in Nat /\ r.pos >= 4 /\ 4 \in Sizes
    BY ReaderFields DEF Sizes
  <2> QED BY <2>1, BoundaryIs
<1> HIDE DEF c, q, at
<1>5. c \in Readers(b) /\ (PyInside(r) => PyInside(c))
  BY <1>3, ReadsInside
<1>6. CASE ~r.ok
  <2>1. q = r
    BY <1>2, <1>6, Zenon
  <2> QED BY <2>1, Zenon DEF q
<1>7. CASE r.ok /\ m.many = "one"
  <2>1. q = PyReadElem(r, m.elem)
    BY <1>2, <1>7, Zenon
  <2> QED BY <1>1, <2>1, PyReadElemIs, Zenon DEF q
<1>8. CASE r.ok /\ m.many # "one" /\ m.many = "array"
  <2>1. q = py_take(r, m.elem[1], m.n)
    BY <1>2, <1>8, Zenon
  <2> QED BY <1>1, <1>8, <2>1, PyTakeInside, Zenon DEF q
<1>9. CASE r.ok /\ m.many # "one" /\ m.many # "array" /\ c.ok
  <2>1. q = py_take(c, m.elem[1], Last(c.out))
    BY <1>2, <1>9, Zenon
  <2>2. Last(c.out) \in Nat
    BY <1>3, <1>4, <1>9, CountIs, Zenon
  <2> QED BY <1>1, <1>5, <1>9, <2>1, <2>2, PyTakeInside, Zenon DEF q
<1>10. CASE r.ok /\ m.many # "one" /\ m.many # "array" /\ ~c.ok
  <2>1. q = c
    BY <1>2, <1>10, Zenon
  <2> QED BY <1>5, <2>1, Zenon DEF q
<1> QED BY <1>6, <1>7, <1>8, <1>9, <1>10

\* A new reader is behind the header.
LEMMA NewReaderIs ==
    ASSUME NEW b \in Seq(Nat)
    PROVE  /\ NewReader(b) \in Readers(b)
           /\ Len(b) >= 4 => Inside(NewReader(b)) /\ PyInside(NewReader(b))
           /\ NewReader(b).utf8
<1> DEFINE ok == Len(b) >= 4 /\ SubSeq(b, 1, 2) = <<0, 1>>
           r == [buf |-> b, pos |-> 4, out |-> << >>, resized |-> 0, odd |-> FALSE,
                 utf8 |-> TRUE, ok |-> ok]
<1>1. ok \in BOOLEAN
  OBVIOUS
<1>2. NewReader(b) = r
  BY DEF NewReader
<1> HIDE DEF ok
<1>3. r \in Readers(b) /\ r.buf = b /\ r.pos = 4 /\ r.resized = 0
  BY <1>1 DEF Readers
<1>3a. r.utf8
  OBVIOUS
<1> HIDE DEF r
<1>4. Len(b) >= 4 => 4 <= Len(b) /\ 0 <= Len(b)
  OBVIOUS
<1> QED BY <1>2, <1>3, <1>3a, <1>4, Zenon DEF Inside, PyInside

\* A message is read within its buffer in C++.
LEMMA DeserializeIs ==
    ASSUME NEW b \in Seq(Nat), NEW type \in Seq(Members)
    PROVE  /\ deserialize(type, b) \in Readers(b)
           /\ Len(b) >= 4 => Inside(deserialize(type, b))
<1> DEFINE n == Len(type)
           r == NewReader(b)
<1>0. deserialize(type, b) = ReadMembers(r, type)
  BY DEF deserialize, ReadMembers, FoldLeft, MapThenFoldSet
<1>1. n \in Nat /\ DOMAIN type = 1..n /\ \A i \in 1..n : type[i] \in Members
  OBVIOUS
<1>2. n \in 0..n
  BY <1>1
<1>3. r \in Readers(b) /\ (Len(b) >= 4 => Inside(r))
  BY NewReaderIs
<1> HIDE DEF n, r
<1>4. ReadMembers(r, type) \in Readers(b)
  <2> DEFINE R == Readers(b)
  <2>1. \A s \in R, m \in Members : emit_deserialize(s, m) \in R
    BY DeserializeMemberIs
  <2>2. r \in R
    BY <1>3
  <2> HIDE DEF R
  <2>3. DeserializeIn(type, R, n)
    BY <1>1, <2>1 DEF DeserializeIn
  <2>4. PICK F : DeserializeRun(F, type, R, r, n)
    BY <2>2, <2>3, DeserializeFold
  <2> QED BY <1>2, <2>4 DEF R, DeserializeRun
<1>5. ASSUME Len(b) >= 4 PROVE Inside(ReadMembers(r, type))
  <2> DEFINE R == {s \in Readers(b) : Inside(s)}
  <2>1. \A s \in R, m \in Members : emit_deserialize(s, m) \in R
    BY DeserializeMemberIs
  <2>2. r \in R
    BY <1>3, <1>5
  <2> HIDE DEF R
  <2>3. DeserializeIn(type, R, n)
    BY <1>1, <2>1 DEF DeserializeIn
  <2>4. PICK F : DeserializeRun(F, type, R, r, n)
    BY <2>2, <2>3, DeserializeFold
  <2>5. ReadMembers(r, type) \in R
    BY <1>2, <2>4 DEF DeserializeRun
  <2> QED BY <2>5 DEF R
<1> QED BY <1>0, <1>4, <1>5

\* A message is read within its buffer in Python.
LEMMA FromCdrIs ==
    ASSUME NEW b \in Seq(Nat), NEW type \in Seq(PyMembers)
    PROVE  /\ from_cdr(type, b) \in Readers(b)
           /\ Len(b) >= 4 => PyInside(from_cdr(type, b))
<1> DEFINE n == Len(type)
           r == NewReader(b)
<1>0. from_cdr(type, b) = PyReadMembers(r, type)
  BY DEF from_cdr, PyReadMembers, FoldLeft, MapThenFoldSet
<1>1. n \in Nat /\ DOMAIN type = 1..n /\ \A i \in 1..n : type[i] \in PyMembers
  OBVIOUS
<1>2. n \in 0..n
  BY <1>1
<1>3. r \in Readers(b) /\ (Len(b) >= 4 => PyInside(r))
  BY NewReaderIs
<1> HIDE DEF n, r
<1>4. PyReadMembers(r, type) \in Readers(b)
  <2> DEFINE R == Readers(b)
  <2>1. \A s \in R, m \in PyMembers : py_read(s, m) \in R
    BY PyReadIs
  <2>2. r \in R
    BY <1>3
  <2> HIDE DEF R
  <2>3. PyReadIn(type, R, n)
    BY <1>1, <2>1 DEF PyReadIn
  <2>4. PICK F : PyReadRun(F, type, R, r, n)
    BY <2>2, <2>3, PyReadFold
  <2> QED BY <1>2, <2>4 DEF R, PyReadRun
<1>5. ASSUME Len(b) >= 4 PROVE PyInside(PyReadMembers(r, type))
  <2> DEFINE R == {s \in Readers(b) : PyInside(s)}
  <2>1. \A s \in R, m \in PyMembers : py_read(s, m) \in R
    BY PyReadIs
  <2>2. r \in R
    BY <1>3, <1>5
  <2> HIDE DEF R
  <2>3. PyReadIn(type, R, n)
    BY <1>1, <2>1 DEF PyReadIn
  <2>4. PICK F : PyReadRun(F, type, R, r, n)
    BY <2>2, <2>3, PyReadFold
  <2>5. PyReadMembers(r, type) \in R
    BY <1>2, <2>4 DEF PyReadRun
  <2> QED BY <2>5 DEF R
<1> QED BY <1>0, <1>4, <1>5

-----------------------------------------------------------------------------
(* The two readers agree.                                                  *)

\* After an empty sequence of numbers of 8 bytes, Python has moved to the next boundary
\* already, or failed to; C++ has not.
Lag(c, p, b) ==
    /\ c \in Readers(b) /\ p \in Readers(b) /\ c.ok
    /\ p.ok <=> Boundary(c.pos, 8) <= Len(b)
    /\ p.ok => p.pos = Boundary(c.pos, 8) /\ p.out = c.out

\* A sequence of numbers of 8 bytes.
Wide(m) == m.many = "seq" /\ SizeOf(m.elem[1]) = 8

\* An array of them.
WideArray(m) == m.many = "array" /\ SizeOf(m.elem[1]) = 8

\* One element is read as itself.
LEMMA ReadAllOne ==
    ASSUME NEW b \in Seq(Nat), NEW r \in Readers(b), NEW elem \in Seq(Prims), r.ok
    PROVE  ReadAll(r, elem, 1) = ReadElem(r, elem)
<1>0. DOMAIN [i \in 1..1 |-> i] = 1..1 /\ 1 \in 1..1 /\ 1 - 1 = 0 /\ 1 \in Nat
  OBVIOUS
<1> DEFINE R == Readers(b)
<1>1. \A s \in R : ReadNext(s, elem) \in R
  BY ReadElemIs DEF ReadNext
<1>2. r \in R
  OBVIOUS
<1> HIDE DEF R
<1>3. ReadManyIn(elem, R, 1)
  BY <1>0, <1>1 DEF ReadManyIn
<1>4. PICK F : ReadManyRun(F, elem, R, r, 1)
  BY <1>2, <1>3, ReadManyFold
<1>5. F[0] = r /\ F[1] = ReadAll(r, elem, 1) /\ F[1] = ReadNext(F[1 - 1], elem)
  BY <1>0, <1>4 DEF ReadManyRun
<1>6. ReadAll(r, elem, 1) = ReadNext(r, elem)
  BY <1>0, <1>5
<1> QED BY <1>6 DEF ReadNext

\* A sequence the buffer has not as many bytes left as it has elements.
LEMMA TooMany ==
    ASSUME NEW pos \in Nat, pos >= 4, NEW s \in Sizes, NEW n \in Nat, NEW len \in Nat,
           ~(n <= len - pos)
    PROVE  ~(Boundary(pos, s) + n * s <= len)
<1>1. Boundary(pos, s) \in Nat /\ Boundary(pos, s) >= pos
  BY BoundaryIs
<1>2. n * s \in Nat /\ n * s >= n
  BY DEF Sizes
<1> DEFINE at == Boundary(pos, s)
           sz == n * s
<1> HIDE DEF at, sz
<1>3. at \in Nat /\ at >= pos /\ sz \in Nat /\ sz >= n
  BY <1>1, <1>2 DEF at, sz
<1>4. ~(at + sz <= len)
  BY <1>3
<1> QED BY <1>4 DEF at, sz

\* Of no numbers, nothing is put out.
LEMMA NoNumbers ==
    ASSUME NEW b, NEW at, NEW t
    PROVE  NumbersAt(b, at, t, 0) = << >>
BY DEF NumbersAt

\* The readers of the two languages have read the same numbers.
Alike(c, p, b) ==
    /\ c \in Readers(b) /\ p \in Readers(b)
    /\ c.ok <=> p.ok
    /\ c.ok => c.pos = p.pos /\ c.out = p.out

\* The elements of a sequence whose length both have read.
LEMMA AlikeElements ==
    ASSUME NEW b \in Seq(Nat), NEW c, NEW p, NEW m \in Members, Bulk(m), m.many = "seq",
           NEW n \in Nat, Alike(c, p, b), c.ok, (c.pos - 4) % 4 = 0, n <= Len(b) - c.pos,
           NEW s \in Readers(b), s.ok = c.ok, s.pos = c.pos, s.out = c.out
    PROVE  LET q == ReadMany(s, m, n)
               u == py_take(p, m.elem[1], n)
           IN  Alike(q, u, b) \/ (Wide(m) /\ Lag(q, u, b))
<1> DEFINE t == m.elem[1]
           q == ReadMany(s, m, n)
           u == py_take(p, t, n)
           at == Boundary(c.pos, SizeOf(t))
<1>0. t \in Numeric
  BY MemberFields
<1>1. SizeOf(t) \in Sizes /\ SizeOf(t) \in Nat
  BY <1>0, SizeOfIs DEF Sizes
<1>2. c \in Readers(b) /\ p \in Readers(b) /\ p.ok /\ p.pos = c.pos /\ p.out = c.out
  BY Zenon DEF Alike
<1>3. c.pos \in Nat /\ c.pos >= 4 /\ c.out \in Seq(Outs) /\ Len(b) \in Nat
  BY <1>2, ReaderFields
<1> HIDE DEF t
<1>4. Reads(u, p, b, at + n * SizeOf(t), NumbersAt(b, at, t, n))
  <2>1. LET v == py_take(p, t, n)
            to == Boundary(p.pos, SizeOf(t))
        IN  Reads(v, p, b, to + n * SizeOf(t), NumbersAt(b, to, t, n))
    BY <1>0, <1>2, PyTakeIs
  <2> QED BY <1>2, <2>1, Zenon
<1>5. q = IF n = 0 THEN s ELSE read_bytes(RAlign(s, SizeOf(t)), t, n)
  BY ReadManyBulk DEF t
<1> HIDE DEF q, u
<1>6. CASE n # 0
  <2>1. q = read_bytes(RAlign(s, SizeOf(t)), t, n)
    BY <1>5, <1>6
  <2>2. Reads(q, s, b, at + n * SizeOf(t), NumbersAt(b, at, t, n))
    <3>1. LET v == read_bytes(RAlign(s, SizeOf(t)), t, n)
              to == Boundary(s.pos, SizeOf(t))
          IN  Reads(v, s, b, to + n * SizeOf(t), NumbersAt(b, to, t, n))
      BY <1>0, BulkReadIs
    <3> QED BY <2>1, <3>1, Zenon
  <2>3. Alike(q, u, b)
    BY <1>2, <1>4, <2>2, Zenon DEF Alike, Reads
  <2> QED BY <2>3 DEF q, u, t
<1>7. CASE n = 0
  <2>1. q = s /\ n * SizeOf(t) = 0
    BY <1>1, <1>5, <1>7
  <2>2. at \in Nat /\ at + n * SizeOf(t) = at
    BY <1>1, <1>3, <2>1, BoundaryIs
  <2>3. NumbersAt(b, at, t, n) = << >>
    BY <1>7, NoNumbers
  <2>4. p.out \o << >> = c.out
    BY <1>2, <1>3
  <2>5. u \in Readers(b) /\ (u.ok <=> at <= Len(b)) /\ (u.ok => u.pos = at /\ u.out = c.out)
    BY <1>2, <1>4, <2>2, <2>3, <2>4, Zenon DEF Reads
  <2>6. CASE SizeOf(t) = 8
    <3>1. Wide(m) /\ Lag(q, u, b)
      BY <1>2, <2>1, <2>5, <2>6, Zenon DEF Wide, Lag, t, at
    <3> QED BY <3>1 DEF q, u, t
  <2>7. CASE SizeOf(t) # 8
    <3>1. at = c.pos
      <4>1. SizeOf(t) = 1 \/ SizeOf(t) = 4
        BY <1>1, <2>7 DEF Sizes
      <4> QED BY <1>3, <4>1, BoundariesAfterFour
    <3>2. at <= Len(b)
      BY <1>3, <1>7, <3>1
    <3>3. Alike(q, u, b)
      BY <2>1, <2>5, <3>1, <3>2, Zenon DEF Alike
    <3> QED BY <3>3 DEF q, u, t
  <2> QED BY <2>6, <2>7
<1> QED BY <1>6, <1>7

\* Numbers copied in one piece, read in both languages.
LEMMA AlikeMember ==
    ASSUME NEW b \in Seq(Nat), NEW c, NEW p, NEW m \in PyMembers, Alike(c, p, b), Bulk(m)
    PROVE  LET q == emit_deserialize(c, m)
               u == py_read(p, m)
           IN  Alike(q, u, b) \/ (Wide(m) /\ Lag(q, u, b))
<1> DEFINE q == emit_deserialize(c, m)
           u == py_read(p, m)
           d == read(RAlign(c, 4), "uint32")
           e == py_take(p, "uint32", 1)
           at == Boundary(c.pos, 4)
           n == LengthAt(b, at)
           s == [d EXCEPT !.resized = n]
           nums == NumbersAt(b, at, "uint32", 1)
<1>0. c \in Readers(b) /\ p \in Readers(b)
  BY Zenon DEF Alike
<1>1. m \in Members /\ Bulk(m) /\ m.many # "one"
  BY Zenon DEF PyMembers, Bulk
<1>2. /\ m.many \in {"array", "seq"} /\ m.n \in Nat /\ m.elem \in Seq(Prims)
      /\ m.many # "one" => m.elem[1] \in Numeric
  BY <1>1, MemberFields
<1>3. q = IF ~c.ok THEN c
          ELSE IF m.many # "seq" THEN ReadMany(c, m, m.n)
          ELSE IF ~d.ok THEN d
          ELSE IF CountFits(d, Last(d.out)) THEN ReadMany([d EXCEPT !.resized = Last(d.out)], m, Last(d.out))
          ELSE Throw(d)
  BY Zenon DEF emit_deserialize
<1>4. u = IF ~p.ok THEN p
          ELSE IF m.many = "one" THEN PyReadElem(p, m.elem)
          ELSE IF m.many = "array" THEN py_take(p, m.elem[1], m.n)
          ELSE IF e.ok THEN py_take(e, m.elem[1], Last(e.out)) ELSE e
  BY PyReadCases
<1>5. Reads(d, c, b, at + 4, nums)
  BY <1>0, CountReadIs
<1>6. Reads(e, p, b, Boundary(p.pos, 4) + 4, NumbersAt(b, Boundary(p.pos, 4), "uint32", 1))
  BY <1>0, PyCountReadIs
<1>7. c.pos \in Nat /\ c.pos >= 4 /\ Len(b) \in Nat /\ 4 \in Sizes
  BY <1>0, ReaderFields DEF Sizes
<1>8. at \in Nat /\ at >= 4 /\ (at - 4) % 4 = 0
  <2>1. at \in Nat /\ at >= c.pos
    BY <1>7, BoundaryIs
  <2>2. (at - 4) % 4 = 0
    BY <1>7, BoundaryTwice
  <2> QED BY <1>7, <2>1, <2>2
<1> HIDE DEF q, u, d, e, at, n, nums
<1>9. CASE ~c.ok
  <2>1. q = c /\ u = p
    BY <1>3, <1>4, <1>9, Zenon DEF Alike
  <2> QED BY <2>1, Zenon DEF q, u
<1>11. CASE c.ok /\ m.many = "array"
  <2> DEFINE t == m.elem[1]
             to == Boundary(c.pos, SizeOf(t))
             len == m.n
  <2>0. t \in Numeric /\ len \in Nat
    BY <1>2, <1>11
  <2>1. p.ok /\ p.pos = c.pos /\ Bulk(m) /\ m.many # "seq" /\ m.many # "one"
    BY <1>1, <1>11, Zenon DEF Alike
  <2>2. q = read_bytes(RAlign(c, SizeOf(t)), t, len) /\ u = py_take(p, t, len)
    BY <1>3, <1>4, <1>11, <2>1, ReadManyBulk, Zenon
  <2> HIDE DEF t, len
  <2>3. Reads(q, c, b, to + len * SizeOf(t), NumbersAt(b, to, t, len))
    <3>1. LET v == read_bytes(RAlign(c, SizeOf(t)), t, len)
              z == Boundary(c.pos, SizeOf(t))
          IN  Reads(v, c, b, z + len * SizeOf(t), NumbersAt(b, z, t, len))
      BY <1>0, <2>0, BulkReadIs
    <3> QED BY <2>2, <3>1, Zenon
  <2>4. Reads(u, p, b, to + len * SizeOf(t), NumbersAt(b, to, t, len))
    <3>1. LET v == py_take(p, t, len)
              z == Boundary(p.pos, SizeOf(t))
          IN  Reads(v, p, b, z + len * SizeOf(t), NumbersAt(b, z, t, len))
      BY <1>0, <2>0, PyTakeIs
    <3> QED BY <2>1, <2>2, <3>1, Zenon
  <2>5. Alike(q, u, b)
    BY <1>11, <2>3, <2>4, Zenon DEF Alike, Reads
  <2> QED BY <2>5 DEF q, u
<1>12. CASE c.ok /\ m.many = "seq"
  <2>0. Bulk(m) /\ m.many # "one" /\ m.many # "array"
    BY <1>1, <1>12, Zenon
  <2>1. p.ok /\ p.pos = c.pos /\ p.out = c.out
    BY <1>12, Zenon DEF Alike
  <2>2. Reads(e, p, b, at + 4, nums)
    BY <1>6, <2>1, Zenon DEF at, nums
  <2>3. Alike(d, e, b)
    BY <1>5, <1>12, <2>1, <2>2, Zenon DEF Alike, Reads
  <2>4. CASE ~d.ok
    <3>1. q = d /\ u = e
      BY <1>3, <1>4, <1>12, <2>0, <2>1, <2>3, <2>4, Zenon DEF Alike
    <3> QED BY <2>3, <3>1, Zenon DEF q, u
  <2>5. CASE d.ok
    <3>1. /\ n \in Nat /\ Last(d.out) = n /\ d.pos = at + 4 /\ d \in Readers(b)
          /\ CountFits(d, n) <=> n <= Len(b) - (at + 4)
      BY <1>0, <1>5, <1>8, <2>5, CountIs DEF n, nums
    <3>2. e.ok /\ e.pos = at + 4 /\ e.out = d.out /\ e \in Readers(b)
      BY <2>3, <2>5, <3>1, Zenon DEF Alike
    <3>3. u = py_take(e, m.elem[1], n)
      BY <1>4, <2>0, <2>1, <3>1, <3>2, Zenon
    <3>4. CASE CountFits(d, n)
      <4>1. q = ReadMany(s, m, n)
        BY <1>3, <1>12, <2>5, <3>1, <3>4, Zenon DEF s
      <4>2. s \in Readers(b) /\ s.pos = d.pos /\ s.out = d.out /\ s.ok = d.ok
        BY <3>1, Resizes
      <4> HIDE DEF s
      <4>3. (d.pos - 4) % 4 = 0 /\ n <= Len(b) - d.pos
        BY <1>7, <1>8, <3>1, <3>4
      <4>4. LET v == ReadMany(s, m, n)
                z == py_take(e, m.elem[1], n)
            IN  Alike(v, z, b) \/ (Wide(m) /\ Lag(v, z, b))
        BY <1>1, <1>12, <2>0, <2>3, <2>5, <3>1, <4>2, <4>3, AlikeElements
      <4> QED BY <3>3, <4>1, <4>4, Zenon DEF q, u
    <3>5. CASE ~CountFits(d, n)
      <4> DEFINE t == m.elem[1]
                 to == Boundary(at + 4, SizeOf(t))
      <4>1. q = Throw(d)
        BY <1>3, <1>12, <2>5, <3>1, <3>5, Zenon
      <4>2. ~q.ok /\ q \in Readers(b)
        BY <3>1, <4>1, Throws
      <4>3. t \in Numeric /\ SizeOf(t) \in Sizes
        BY <1>2, <2>0, SizeOfIs
      <4>4. ~(n <= Len(b) - (at + 4)) /\ at + 4 \in Nat /\ at + 4 >= 4
        BY <1>8, <3>1, <3>5
      <4> HIDE DEF t
      <4>5. Reads(u, e, b, to + n * SizeOf(t), NumbersAt(b, to, t, n))
        <5>1. LET v == py_take(e, t, n)
                  z == Boundary(e.pos, SizeOf(t))
              IN  Reads(v, e, b, z + n * SizeOf(t), NumbersAt(b, z, t, n))
          BY <3>1, <3>2, <4>3, PyTakeIs
        <5> QED BY <3>2, <3>3, <5>1, Zenon DEF t
      <4>6. ~(to + n * SizeOf(t) <= Len(b))
        BY <1>7, <3>1, <4>3, <4>4, TooMany
      <4>7. Alike(q, u, b)
        BY <4>2, <4>5, <4>6, Zenon DEF Alike, Reads
      <4> QED BY <4>7 DEF q, u
    <3> QED BY <3>4, <3>5
  <2> QED BY <2>4, <2>5
<1> QED BY <1>2, <1>9, <1>11, <1>12

\* The array behind an empty sequence: both pad to the same boundary.
LEMMA LagMember ==
    ASSUME NEW b \in Seq(Nat), NEW c, NEW p, NEW m \in PyMembers, WideArray(m), Lag(c, p, b)
    PROVE  Alike(emit_deserialize(c, m), py_read(p, m), b)
<1> DEFINE q == emit_deserialize(c, m)
           u == py_read(p, m)
           t == m.elem[1]
           at == Boundary(c.pos, 8)
           len == m.n
           nums == NumbersAt(b, at, t, len)
<1>0. c \in Readers(b) /\ p \in Readers(b) /\ c.ok
  BY Zenon DEF Lag
<1>1. m \in Members /\ m.many # "one" /\ m.many # "seq" /\ m.many = "array" /\ SizeOf(t) = 8
  BY Zenon DEF PyMembers, WideArray
<1>2. Bulk(m)
  BY <1>1, Zenon DEF PyMembers
<1>3. t \in Numeric /\ len \in Nat
  BY <1>1, <1>2, MemberFields
<1>4. q = read_bytes(RAlign(c, SizeOf(t)), t, len)
  BY <1>0, <1>1, <1>2, ReadManyBulk, Zenon DEF emit_deserialize
<1>5. u = IF p.ok THEN py_take(p, t, len) ELSE p
  BY <1>1, PyReadCases
<1>6. c.pos \in Nat /\ c.pos >= 4 /\ Len(b) \in Nat /\ 8 \in Sizes
  BY <1>0, ReaderFields DEF Sizes
<1>7. at \in Nat /\ Boundary(at, 8) = at
  BY <1>6, BoundaryIs, BoundaryTwice
<1> HIDE DEF q, u, t, len
<1>8. Reads(q, c, b, at + len * 8, nums)
  <2>1. LET v == read_bytes(RAlign(c, SizeOf(t)), t, len)
            z == Boundary(c.pos, SizeOf(t))
        IN  Reads(v, c, b, z + len * SizeOf(t), NumbersAt(b, z, t, len))
    BY <1>0, <1>3, BulkReadIs
  <2> QED BY <1>1, <1>4, <2>1, Zenon
<1>9. CASE p.ok
  <2>1. p.pos = at /\ p.out = c.out
    BY <1>9, Zenon DEF Lag
  <2>2. LET v == py_take(p, t, len)
            z == Boundary(p.pos, SizeOf(t))
        IN  Reads(v, p, b, z + len * SizeOf(t), NumbersAt(b, z, t, len))
    BY <1>0, <1>3, PyTakeIs
  <2>3. Reads(u, p, b, at + len * 8, nums)
    BY <1>1, <1>5, <1>7, <1>9, <2>1, <2>2, Zenon
  <2>4. Alike(q, u, b)
    BY <1>0, <1>8, <1>9, <2>1, <2>3, Zenon DEF Alike, Reads
  <2> QED BY <2>4 DEF q, u
<1>10. CASE ~p.ok
  <2>1. u = p /\ ~(at <= Len(b))
    BY <1>5, <1>10, Zenon DEF Lag
  <2>2. ~(at + len * 8 <= Len(b))
    BY <1>3, <1>6, <1>7, <2>1
  <2>3. Alike(q, u, b)
    BY <1>0, <1>8, <1>10, <2>1, <2>2, Zenon DEF Alike, Reads
  <2> QED BY <2>3 DEF q, u
<1> QED BY <1>9, <1>10

\* In C++, numbers copied in one piece say nothing about strings.
LEMMA BulkKeeps ==
    ASSUME NEW b \in Seq(Nat), NEW r \in Readers(b), NEW m \in Members, Bulk(m)
    PROVE  emit_deserialize(r, m).utf8 = r.utf8
<1> DEFINE a == RAlign(r, 4)
           c == read(a, "uint32")
           at == Boundary(r.pos, 4)
           q == emit_deserialize(r, m)
<1>0. m.n \in Nat /\ m.elem[1] \in Numeric /\ "uint32" \in Numeric /\ 4 \in Sizes
  BY MemberFields DEF Numeric, Sizes
<1>1. ASSUME NEW s \in Readers(b), NEW n \in Nat
      PROVE  ReadMany(s, m, n).utf8 = s.utf8
  <2> DEFINE t == m.elem[1]
             z == RAlign(s, SizeOf(t))
  <2>1. z \in Readers(b) /\ z.utf8 = s.utf8 /\ t \in Numeric
    BY <1>0, SizeOfIs, RAlignIs
  <2>2. ReadMany(s, m, n) = s \/ ReadMany(s, m, n) = read_bytes(z, t, n)
    BY ReadManyBulk
  <2> HIDE DEF z, t
  <2>3. read_bytes(z, t, n).utf8 = z.utf8
    BY <2>1, ReadBytesKeeps
  <2> QED BY <2>1, <2>2, <2>3
<1>2. q = IF ~r.ok THEN r
          ELSE IF m.many # "seq" THEN ReadMany(r, m, m.n)
          ELSE IF ~c.ok THEN c
          ELSE IF CountFits(c, Last(c.out)) THEN ReadMany([c EXCEPT !.resized = Last(c.out)], m, Last(c.out))
          ELSE Throw(c)
  BY Zenon DEF emit_deserialize
<1>3. a \in Readers(b) /\ a.utf8 = r.utf8
  BY <1>0, RAlignIs
<1>4. Reads(c, r, b, at + 4, NumbersAt(b, at, "uint32", 1))
  BY CountReadIs
<1>5. at \in Nat
  <2>1. r.pos \in Nat /\ r.pos >= 4
    BY ReaderFields
  <2> QED BY <1>0, <2>1, BoundaryIs
<1> HIDE DEF a, q, at
<1>6. c.utf8 = r.utf8
  BY <1>0, <1>3, ReadKeeps
<1> HIDE DEF c
<1>7. c \in Readers(b)
  BY <1>4, Zenon DEF Reads
<1>8. Throw(c).utf8 = r.utf8
  BY <1>6, <1>7, Throws
<1>9. ASSUME c.ok PROVE ReadMany([c EXCEPT !.resized = Last(c.out)], m, Last(c.out)).utf8 = r.utf8
  <2> DEFINE n == Last(c.out)
             s == [c EXCEPT !.resized = n]
  <2>1. n \in Nat
    BY <1>4, <1>5, <1>9, CountIs
  <2> HIDE DEF n
  <2>2. s \in Readers(b) /\ s.utf8 = c.utf8
    BY <1>7, <2>1, Resizes
  <2> HIDE DEF s
  <2>3. ReadMany(s, m, n).utf8 = r.utf8
    BY <1>1, <1>6, <2>1, <2>2
  <2> QED BY <2>3 DEF s, n
<1>10. ReadMany(r, m, m.n).utf8 = r.utf8
  BY <1>0, <1>1
<1> QED BY <1>2, <1>6, <1>8, <1>9, <1>10, Zenon DEF q

\* Neither do they in Python.
LEMMA PyBulkKeeps ==
    ASSUME NEW b \in Seq(Nat), NEW r \in Readers(b), NEW m \in Members, Bulk(m)
    PROVE  py_read(r, m).utf8 = r.utf8
<1> DEFINE c == py_take(r, "uint32", 1)
           at == Boundary(r.pos, 4)
           q == py_read(r, m)
<1>0. /\ m.n \in Nat /\ m.elem[1] \in Numeric /\ "uint32" \in Numeric /\ 4 \in Sizes
      /\ m.many # "one" /\ 1 \in Nat
  BY MemberFields DEF Numeric, Sizes, Bulk
<1>1. q = IF ~r.ok THEN r
          ELSE IF m.many = "one" THEN PyReadElem(r, m.elem)
          ELSE IF m.many = "array" THEN py_take(r, m.elem[1], m.n)
          ELSE IF c.ok THEN py_take(c, m.elem[1], Last(c.out)) ELSE c
  BY PyReadCases
<1>2. Reads(c, r, b, at + 4, NumbersAt(b, at, "uint32", 1))
  BY PyCountReadIs
<1>3. at \in Nat
  <2>1. r.pos \in Nat /\ r.pos >= 4
    BY ReaderFields
  <2> QED BY <1>0, <2>1, BoundaryIs
<1>4. c.utf8 = r.utf8 /\ py_take(r, m.elem[1], m.n).utf8 = r.utf8
  BY <1>0, PyTakeKeeps
<1> HIDE DEF c, at, q
<1>5. c \in Readers(b)
  BY <1>2, Zenon DEF Reads
<1>6. ASSUME c.ok PROVE py_take(c, m.elem[1], Last(c.out)).utf8 = r.utf8
  <2>1. Last(c.out) \in Nat
    BY <1>2, <1>3, <1>6, CountIs
  <2> QED BY <1>0, <1>4, <1>5, <2>1, PyTakeKeeps
<1> QED BY <1>0, <1>1, <1>4, <1>6, Zenon DEF q

\* Both have taken all strings so far.
Taken(c, p) == c.utf8 /\ (p.ok => p.utf8)

\* One member, read in both languages.
LEMMA SameMember ==
    ASSUME NEW b \in Seq(Nat), NEW c, NEW p, NEW m \in PyMembers, Same(c, p, b)
    PROVE  LET q == emit_deserialize(c, m)
               u == py_read(p, m)
           IN  Same(q, u, b) \/ (Wide(m) /\ Lag(q, u, b) /\ Taken(q, u))
<1> DEFINE q == emit_deserialize(c, m)
           u == py_read(p, m)
<1>0. c \in Readers(b) /\ p \in Readers(b)
  BY Zenon DEF Same
<1>1. m \in Members /\ ((m.many = "one" /\ m.n = 1) \/ Bulk(m))
  BY Zenon DEF PyMembers
<1>2. m.elem \in Seq(Prims)
  BY <1>1, MemberFields
<1>3. (~c.ok => q = c) /\ (~p.ok => u = p)
  BY PyReadCases, Zenon DEF emit_deserialize
<1>4. q \in Readers(b) /\ u \in Readers(b)
  BY <1>0, <1>1, DeserializeMemberIs, PyReadIs
<1>5. CASE ~c.ok
  <2>1. q = c /\ u = p
    BY <1>3, <1>5, Zenon DEF Same
  <2> QED BY <2>1, Zenon
<1>6. CASE c.ok /\ m.many = "one"
  <2>1. ~Bulk(m) /\ m.n = 1 /\ m.many # "seq"
    BY <1>1, <1>6, Zenon DEF Bulk
  <2>2. q = ReadMany(c, m, 1)
    BY <1>6, <2>1, Zenon DEF emit_deserialize
  <2>3. q = ReadElem(c, m.elem)
    BY <1>0, <1>2, <1>6, <2>1, <2>2, ReadManyOneByOne, ReadAllOne
  <2>4. Same(ReadElem(c, m.elem), PyReadElem(p, m.elem), b)
    BY <1>2, SameElem
  <2>5. u = IF p.ok THEN PyReadElem(p, m.elem) ELSE p
    BY <1>6, PyReadCases, Zenon
  <2>6. ~p.ok => ~PyReadElem(p, m.elem).ok
    BY <1>0, <1>2, PyReadElemIs
  <2> HIDE DEF q, u
  <2>7. Same(q, u, b)
    BY <1>0, <2>3, <2>4, <2>5, <2>6, Zenon DEF Same
  <2> QED BY <2>7 DEF q, u
<1>7. CASE c.ok /\ m.many # "one"
  <2>0. Bulk(m)
    BY <1>1, <1>7, Zenon
  <2>1. q.utf8 = c.utf8 /\ u.utf8 = p.utf8
    BY <1>0, <1>1, <2>0, BulkKeeps, PyBulkKeeps
  <2>2. CASE ~c.utf8
    <3>1. ~p.ok /\ u = p /\ ~q.utf8
      BY <1>3, <2>1, <2>2, Zenon DEF Same
    <3>2. Same(q, u, b)
      BY <1>4, <3>1, Zenon DEF Same
    <3> QED BY <3>2
  <2>3. CASE c.utf8
    <3>1. Alike(c, p, b) /\ p.ok /\ p.utf8
      BY <1>7, <2>3, Zenon DEF Same, Alike
    <3>2. Alike(q, u, b) \/ (Wide(m) /\ Lag(q, u, b))
      BY <2>0, <3>1, AlikeMember
    <3> HIDE DEF q, u
    <3>3. Same(q, u, b) \/ (Wide(m) /\ Lag(q, u, b) /\ Taken(q, u))
      BY <2>1, <2>3, <3>1, <3>2, Zenon DEF Alike, Same, Taken
    <3> QED BY <3>3 DEF q, u
  <2> QED BY <2>2, <2>3
<1> QED BY <1>5, <1>6, <1>7

\* The array behind an empty sequence.
LEMMA SameAfter ==
    ASSUME NEW b \in Seq(Nat), NEW c, NEW p, NEW m \in PyMembers, WideArray(m), Lag(c, p, b),
           Taken(c, p)
    PROVE  Same(emit_deserialize(c, m), py_read(p, m), b)
<1> DEFINE q == emit_deserialize(c, m)
           u == py_read(p, m)
<1>0. c \in Readers(b) /\ p \in Readers(b)
  BY Zenon DEF Lag
<1>1. m \in Members /\ Bulk(m)
  <2>1. m.many # "one"
    BY DEF WideArray
  <2> QED BY <2>1, Zenon DEF PyMembers
<1>2. q.utf8 = c.utf8 /\ u.utf8 = p.utf8
  BY <1>0, <1>1, BulkKeeps, PyBulkKeeps
<1>3. ~p.ok => u = p
  BY PyReadCases, Zenon
<1>4. Alike(q, u, b)
  BY LagMember
<1> HIDE DEF q, u
<1>5. Same(q, u, b)
  BY <1>2, <1>3, <1>4, Zenon DEF Alike, Same, Taken
<1> QED BY <1>5 DEF q, u

\* A sequence of numbers of 8 bytes has an array of such numbers behind it.
Followed(type) ==
    \A k \in DOMAIN type : Wide(type[k]) => k + 1 \in DOMAIN type /\ WideArray(type[k + 1])

\* Both languages read the same message from any buffer, or both fail; only a string that is
\* not UTF-8 fails in Python alone.
LEMMA SameMessage ==
    ASSUME NEW b \in Seq(Nat), NEW type \in Seq(PyMembers), Followed(type)
    PROVE  Same(deserialize(type, b), from_cdr(type, b), b)
<1> DEFINE n == Len(type)
           r == NewReader(b)
           R == Readers(b)
<1>0. deserialize(type, b) = ReadMembers(r, type) /\ from_cdr(type, b) = PyReadMembers(r, type)
  BY DEF deserialize, from_cdr, ReadMembers, PyReadMembers, FoldLeft, MapThenFoldSet
<1>1. n \in Nat /\ DOMAIN type = 1..n /\ \A i \in 1..n : type[i] \in PyMembers
  OBVIOUS
<1>2. n \in 0..n /\ \A k \in 1..n : k - 1 \in 0..n /\ k \in 0..n
  BY <1>1
<1>3. r \in R /\ Same(r, r, b)
  BY NewReaderIs, Zenon DEF Same
<1>4. \A s \in R, m \in PyMembers : emit_deserialize(s, m) \in R /\ py_read(s, m) \in R
  BY DeserializeMemberIs, PyReadIs DEF PyMembers
<1> HIDE DEF n, r, R
<1>5. DeserializeIn(type, R, n) /\ PyReadIn(type, R, n)
  BY <1>1, <1>4 DEF DeserializeIn, PyReadIn
<1>6. PICK F : DeserializeRun(F, type, R, r, n)
  BY <1>3, <1>5, DeserializeFold
<1>7. PICK G : PyReadRun(G, type, R, r, n)
  BY <1>3, <1>5, PyReadFold
<1>8. /\ F \in [0..n -> R] /\ F[0] = r /\ F[n] = ReadMembers(r, type)
      /\ \A k \in 1..n : F[k] = emit_deserialize(F[k - 1], type[k])
  BY <1>6 DEF DeserializeRun
<1>9. /\ G \in [0..n -> R] /\ G[0] = r /\ G[n] = PyReadMembers(r, type)
      /\ \A k \in 1..n : G[k] = py_read(G[k - 1], type[k])
  BY <1>7 DEF PyReadRun
<1> DEFINE P == {k \in 0..n : Same(F[k], G[k], b)
                              \/ (k # 0 /\ Wide(type[k]) /\ Lag(F[k], G[k], b) /\ Taken(F[k], G[k]))}
<1>10. 0 \in P
  BY <1>2, <1>3, <1>8, <1>9
<1>11. ASSUME NEW k \in 1..n, k - 1 \in P PROVE k \in P
  <2> DEFINE m == type[k]
             j == k - 1
  <2>0. k \in 0..n /\ j \in 0..n /\ m \in PyMembers /\ k # 0
    BY <1>1, <1>2
  <2>1. F[k] = emit_deserialize(F[j], m) /\ G[k] = py_read(G[j], m)
    BY <1>8, <1>9
  <2>2. Same(F[j], G[j], b) \/ (j # 0 /\ Wide(type[j]) /\ Lag(F[j], G[j], b) /\ Taken(F[j], G[j]))
    BY <1>11
  <2>3. ASSUME j # 0, Wide(type[j]) PROVE WideArray(m)
    <3>1. j \in 1..n /\ j + 1 = k
      BY <1>1, <2>3
    <3>2. WideArray(type[j + 1])
      BY <1>1, <2>3, <3>1 DEF Followed
    <3> QED BY <3>1, <3>2
  <2> HIDE DEF m, j, P
  <2>4. CASE Same(F[j], G[j], b)
    <3>1. LET q == emit_deserialize(F[j], m)
              u == py_read(G[j], m)
          IN  Same(q, u, b) \/ (Wide(m) /\ Lag(q, u, b) /\ Taken(q, u))
      BY <2>0, <2>4, SameMember
    <3> QED BY <2>0, <2>1, <3>1, Zenon DEF P, m
  <2>5. CASE j # 0 /\ Wide(type[j]) /\ Lag(F[j], G[j], b) /\ Taken(F[j], G[j])
    <3>1. Same(emit_deserialize(F[j], m), py_read(G[j], m), b)
      BY <2>0, <2>3, <2>5, SameAfter
    <3> QED BY <2>0, <2>1, <3>1, Zenon DEF P, m
  <2> QED BY <2>2, <2>4, <2>5
<1> HIDE DEF P
<1>12. n \in P
  BY <1>1, <1>2, <1>10, <1>11, UpTo
<1>13. n # 0 => ~Wide(type[n])
  <2> SUFFICES ASSUME n # 0, Wide(type[n]) PROVE FALSE
    OBVIOUS
  <2>1. n \in 1..n /\ n + 1 \notin 1..n
    BY <1>1
  <2> QED BY <1>1, <2>1 DEF Followed
<1>14. Same(F[n], G[n], b)
  BY <1>12, <1>13, Zenon DEF P
<1> QED BY <1>0, <1>8, <1>9, <1>14

-----------------------------------------------------------------------------
(* The types of the messages.                                              *)

\* A member of one element is one that Python has.
LEMMA OneMember ==
    ASSUME NEW elem \in Seq(Prims), elem # << >>
    PROVE  One(elem) \in PyMembers /\ ~Wide(One(elem)) /\ One(elem).many = "one"
<1> DEFINE m == One(elem)
<1>1. m \in Members /\ m.many = "one" /\ m.n = 1
  BY DEF One, Members
<1> HIDE DEF m
<1>2. m \in PyMembers /\ ~Wide(m)
  BY <1>1, Zenon DEF PyMembers, Wide
<1> QED BY <1>1, <1>2 DEF m

\* So is an array of numbers.
LEMMA ArrayMember ==
    ASSUME NEW t \in Numeric, t # "bool", NEW n \in Nat
    PROVE  /\ Array(t, n) \in PyMembers /\ ~Wide(Array(t, n))
           /\ SizeOf(t) = 8 => WideArray(Array(t, n))
<1> DEFINE m == Array(t, n)
<1>0. t # "string" /\ t \in Prims
  BY DEF Numeric, Prims
<1>1. m \in Members /\ m.many = "array" /\ m.elem[1] = t /\ Len(m.elem) = 1
  BY <1>0 DEF Array, Members
<1> HIDE DEF m
<1>2. Bulk(m)
  BY <1>0, <1>1 DEF Bulk
<1>3. m \in PyMembers /\ ~Wide(m) /\ (SizeOf(t) = 8 => WideArray(m))
  BY <1>1, <1>2, Zenon DEF PyMembers, Wide, WideArray
<1> QED BY <1>3 DEF m

\* So is a sequence of numbers.
LEMMA SeqMember ==
    ASSUME NEW t \in Numeric, t # "bool"
    PROVE  /\ SeqOfElem(<<t>>) \in PyMembers
           /\ Wide(SeqOfElem(<<t>>)) => SizeOf(t) = 8
<1> DEFINE m == SeqOfElem(<<t>>)
<1>0. t # "string" /\ t \in Prims
  BY DEF Numeric, Prims
<1>1. m \in Members /\ m.many = "seq" /\ m.elem[1] = t /\ Len(m.elem) = 1
  BY <1>0 DEF SeqOfElem, Members
<1> HIDE DEF m
<1>2. Bulk(m)
  BY <1>0, <1>1 DEF Bulk
<1>3. m \in PyMembers /\ (Wide(m) => SizeOf(t) = 8)
  BY <1>1, <1>2, Zenon DEF PyMembers, Wide
<1> QED BY <1>3 DEF m

\* A sequence of anything is a member.
LEMMA SeqMemberOf ==
    ASSUME NEW elem \in Seq(Prims), elem # << >>
    PROVE  SeqOfElem(elem) \in Members
BY DEF SeqOfElem, Members

\* The elements of the messages.
LEMMA Elems ==
    /\ StdHeader \in Seq(Prims) /\ StdHeader # << >>
    /\ Vector3 \o Quaternion \in Seq(Prims) /\ Vector3 \o Quaternion # << >>
    /\ <<"uint32", "uint32">> \o RegionOfInterest \in Seq(Prims)
    /\ <<"uint32", "uint32">> \o RegionOfInterest # << >>
    /\ \A t \in Prims : <<t>> \in Seq(Prims) /\ <<t>> # << >>
    /\ <<"uint32", "uint32", "string", "uint8", "uint32">> \in Seq(Prims)
    /\ <<"uint32", "uint32", "string", "uint8", "uint32">> # << >>
    /\ <<"uint32", "uint32", "string">> \in Seq(Prims) /\ <<"uint32", "uint32", "string">> # << >>
    /\ <<"uint64", "int64">> \in Seq(Prims) /\ <<"uint64", "int64">> # << >>
    /\ <<"bool", "string">> \in Seq(Prims) /\ <<"bool", "string">> # << >>
<1>0. \A a, c \in Seq(Prims) : a # << >> => a \o c \in Seq(Prims) /\ a \o c # << >>
  OBVIOUS
<1>1. /\ "bool" \in Prims /\ "uint8" \in Prims /\ "int32" \in Prims /\ "uint32" \in Prims
      /\ "uint64" \in Prims /\ "int64" \in Prims /\ "float64" \in Prims /\ "string" \in Prims
  BY DEF Prims, Numeric
<1>2. /\ <<"uint32", "uint32">> \in Seq(Prims) /\ <<"uint32", "uint32">> # << >>
      /\ <<"int32", "uint32">> \in Seq(Prims) /\ <<"int32", "uint32">> # << >>
      /\ <<"uint64", "int64">> \in Seq(Prims) /\ <<"uint64", "int64">> # << >>
      /\ <<"bool", "string">> \in Seq(Prims) /\ <<"bool", "string">> # << >>
      /\ <<"uint32", "uint32", "string">> \in Seq(Prims) /\ <<"uint32", "uint32", "string">> # << >>
      /\ <<"uint32", "uint32", "string", "uint8", "uint32">> \in Seq(Prims)
      /\ <<"uint32", "uint32", "string", "uint8", "uint32">> # << >>
  BY <1>1
<1>3. \A t \in Prims : <<t>> \in Seq(Prims) /\ <<t>> # << >>
  OBVIOUS
<1>4. \A t \in Prims : Copies(t, 3) \in Seq(Prims) /\ Copies(t, 4) \in Seq(Prims)
  BY DEF Copies
<1>5. \A t \in Prims : Copies(t, 3) # << >> /\ Copies(t, 4) # << >>
  <2>1. \A t : 1 \in DOMAIN Copies(t, 3) /\ 1 \in DOMAIN Copies(t, 4) /\ 1 \notin DOMAIN << >>
    BY DEF Copies
  <2> QED BY <2>1
<1>6. StdHeader \in Seq(Prims) /\ StdHeader # << >>
  BY <1>0, <1>1, <1>2, <1>3 DEF StdHeader, Time
<1>7. Vector3 \o Quaternion \in Seq(Prims) /\ Vector3 \o Quaternion # << >>
  BY <1>0, <1>1, <1>4, <1>5 DEF Vector3, Quaternion
<1>8. RegionOfInterest \in Seq(Prims)
  BY <1>0, <1>1, <1>3, <1>4, <1>5 DEF RegionOfInterest
<1>9. /\ <<"uint32", "uint32">> \o RegionOfInterest \in Seq(Prims)
      /\ <<"uint32", "uint32">> \o RegionOfInterest # << >>
  BY <1>0, <1>2, <1>8
<1> QED BY <1>2, <1>3, <1>6, <1>7, <1>9

\* The types both languages have.
LEMMA BothTypes ==
    ASSUME NEW name \in Both, Matrix \in Nat
    PROVE  TypeOf(name) \in Seq(PyMembers) /\ Followed(TypeOf(name))
<1>0. /\ "float64" \in Numeric /\ "uint8" \in Numeric /\ "float64" # "bool" /\ "uint8" # "bool"
      /\ SizeOf("float64") = 8 /\ SizeOf("uint8") # 8 /\ "string" \in Prims
  BY SizeOfIs DEF Numeric, Prims
<1>1. CASE name = "Empty"
  <2>1. TypeOf(name) = << >>
    BY <1>1 DEF TypeOf, Empty
  <2> QED BY <2>1 DEF Followed
<1>2. CASE name = "String"
  <2> DEFINE a == One(<<"string">>)
  <2>1. TypeOf(name) = <<a>>
    BY <1>2 DEF TypeOf, String
  <2>2. a \in PyMembers /\ ~Wide(a)
    BY <1>0, Elems, OneMember
  <2> HIDE DEF a
  <2> QED BY <2>1, <2>2 DEF Followed
<1>3. CASE name = "PoseStamped"
  <2> DEFINE a == One(StdHeader)
             c == One(Vector3 \o Quaternion)
  <2>1. TypeOf(name) = <<a, c>>
    BY <1>3 DEF TypeOf, PoseStamped
  <2>2. a \in PyMembers /\ ~Wide(a) /\ c \in PyMembers /\ ~Wide(c)
    BY <1>0, Elems, OneMember
  <2> HIDE DEF a, c
  <2> QED BY <2>1, <2>2 DEF Followed
<1>4. CASE name = "TransformStamped"
  <2> DEFINE a == One(StdHeader)
             d == One(<<"string">>)
             c == One(Vector3 \o Quaternion)
  <2>1. TypeOf(name) = <<a, d, c>>
    BY <1>4 DEF TypeOf, TransformStamped
  <2>2. a \in PyMembers /\ ~Wide(a) /\ c \in PyMembers /\ ~Wide(c) /\ d \in PyMembers /\ ~Wide(d)
    BY <1>0, Elems, OneMember
  <2> HIDE DEF a, c, d
  <2> QED BY <2>1, <2>2 DEF Followed
<1>5. CASE name = "Image"
  <2> DEFINE a == One(StdHeader)
             d == One(<<"uint32", "uint32", "string", "uint8", "uint32">>)
             c == SeqOfElem(<<"uint8">>)
  <2>1. TypeOf(name) = <<a, d, c>>
    BY <1>5 DEF TypeOf, Image
  <2>2. a \in PyMembers /\ ~Wide(a) /\ d \in PyMembers /\ ~Wide(d)
    BY <1>0, Elems, OneMember
  <2>3. c \in PyMembers /\ ~Wide(c)
    BY <1>0, SeqMember
  <2> HIDE DEF a, c, d
  <2> QED BY <2>1, <2>2, <2>3 DEF Followed
<1>6. CASE name = "CameraInfo"
  <2> DEFINE a == One(StdHeader)
             d == One(<<"uint32", "uint32", "string">>)
             c == SeqOfElem(<<"float64">>)
             x == Array("float64", Matrix)
             z == One(<<"uint32", "uint32">> \o RegionOfInterest)
  <2>1. TypeOf(name) = <<a, d, c, x, x, x, z>>
    BY <1>6 DEF TypeOf, CameraInfo
  <2>2. a \in PyMembers /\ ~Wide(a) /\ d \in PyMembers /\ ~Wide(d) /\ z \in PyMembers /\ ~Wide(z)
    BY <1>0, Elems, OneMember
  <2>3. c \in PyMembers
    BY <1>0, SeqMember
  <2>4. x \in PyMembers /\ ~Wide(x) /\ WideArray(x)
    BY <1>0, ArrayMember
  <2> HIDE DEF a, c, d, x, z
  <2> DEFINE ty == <<a, d, c, x, x, x, z>>
  <2>5. ty \in Seq(PyMembers) /\ DOMAIN ty = 1..7
    BY <2>2, <2>3, <2>4
  <2>6. ty[1] = a /\ ty[2] = d /\ ty[3] = c /\ ty[4] = x /\ ty[5] = x /\ ty[6] = x /\ ty[7] = z
    OBVIOUS
  <2> HIDE DEF ty
  <2>7. \A k \in 1..7 : Wide(ty[k]) => k = 3
    BY <2>2, <2>4, <2>6
  <2>8. \A k \in 1..7 : Wide(ty[k]) => k + 1 \in 1..7 /\ WideArray(ty[k + 1])
    BY <2>4, <2>6, <2>7
  <2> QED BY <2>1, <2>5, <2>8 DEF Followed, ty
<1> QED BY <1>1, <1>2, <1>3, <1>4, <1>5, <1>6 DEF Both

\* The types of all messages are made of members.
LEMMA AllTypes ==
    ASSUME NEW name \in Both \cup CppOnly, Matrix \in Nat
    PROVE  TypeOf(name) \in Seq(Members)
<1>1. CASE name \in Both
  BY <1>1, BothTypes, SeqMonotonic DEF PyMembers
<1> DEFINE h == One(<<"uint64", "int64">>)
<1>2. h \in Members
  BY Elems, OneMember DEF PyMembers
<1>3. \A c, d \in Members : <<h>> \o <<c, d>> \in Seq(Members) /\ <<h>> \o <<c>> \in Seq(Members)
  BY <1>2
<1>4. CASE name = "ListReply"
  <2> DEFINE c == SeqOfElem(<<"string">>)
  <2>1. TypeOf(name) = <<h>> \o <<c, c>>
    BY <1>4 DEF TypeOf, ListReply, ServiceHeader
  <2>2. c \in Members
    <3>1. "string" \in Prims
      BY DEF Prims
    <3> QED BY <3>1, Elems, SeqMemberOf
  <2> HIDE DEF h, c
  <2> QED BY <1>3, <2>1, <2>2
<1>5. CASE name = "SetReply"
  <2> DEFINE c == SeqOfElem(<<"bool", "string">>)
  <2>1. TypeOf(name) = <<h>> \o <<c>>
    BY <1>5 DEF TypeOf, SetReply, ServiceHeader
  <2>2. c \in Members
    BY Elems, SeqMemberOf
  <2> HIDE DEF h, c
  <2> QED BY <1>3, <2>1, <2>2
<1> QED BY <1>1, <1>4, <1>5 DEF CppOnly

-----------------------------------------------------------------------------
(* Writers.                                                                *)

\* What a writer has written, the header at least.
Writers == {w \in Seq(Nat) : Len(w) >= 4}

\* A writer only appends.
Grown(w, u) ==
    w \in Writers /\ u \in Writers /\ Len(w) <= Len(u) /\ \A i \in 1..Len(w) : u[i] = w[i]

\* What is appended twice is appended.
LEMMA GrownTwice ==
    ASSUME NEW w, NEW u, NEW v, Grown(w, u), Grown(u, v)
    PROVE  Grown(w, v)
<1>1. Len(w) \in Nat /\ Len(u) \in Nat /\ Len(v) \in Nat /\ Len(w) <= Len(u) /\ Len(u) <= Len(v)
  BY DEF Grown, Writers
<1>2. \A i \in 1..Len(w) : i \in 1..Len(u)
  BY <1>1
<1> QED BY <1>1, <1>2 DEF Grown

\* Or nothing is.
LEMMA GrownSelf ==
    ASSUME NEW w \in Writers
    PROVE  Grown(w, w)
BY DEF Grown, Writers

\* What is appended is where it was put.
LEMMA Appended ==
    ASSUME NEW w \in Writers, NEW s \in Seq(Nat), NEW u, u = w \o s
    PROVE  /\ u \in Writers /\ Grown(w, u) /\ Len(u) = Len(w) + Len(s) /\ Len(w) \in Nat
           /\ Len(s) \in Nat /\ \A i \in 1..Len(s) : u[Len(w) + i] = s[i]
<1>0. w \in Seq(Nat) /\ Len(w) >= 4
  BY DEF Writers
<1>1. /\ u \in Seq(Nat) /\ Len(w) \in Nat /\ Len(s) \in Nat
      /\ Len(u) = Len(w) + Len(s)
      /\ \A i \in 1..Len(w) : u[i] = w[i]
      /\ \A i \in 1..Len(s) : u[Len(w) + i] = s[i]
  BY <1>0, Joined DEF Joins
<1> QED BY <1>0, <1>1 DEF Writers, Grown

\* Zeros are zeros.
LEMMA ZerosIs ==
    ASSUME NEW n \in Nat
    PROVE  Zeros(n) \in Seq(Nat) /\ Len(Zeros(n)) = n /\ \A i \in 1..n : Zeros(n)[i] = 0
BY DEF Zeros

\* Both writers pad to the next boundary.
LEMMA WAlignIs ==
    ASSUME NEW w \in Writers, NEW n \in Sizes
    PROVE  /\ WAlign(w, n) \in Writers /\ Len(WAlign(w, n)) = Boundary(Len(w), n)
           /\ Grown(w, WAlign(w, n)) /\ py_wpad(w, n) = WAlign(w, n)
<1> DEFINE p == Padding(Len(w) - 4, n)
           z == Zeros(p)
           u == WAlign(w, n)
<1>1. Len(w) - 4 \in Nat
  BY DEF Writers
<1>2. p \in Nat /\ (-(Len(w) - 4)) % n = p
  BY <1>1, PaddingIs
<1>3. u = w \o z /\ py_wpad(w, n) = u
  BY <1>2 DEF WAlign, py_wpad
<1>4. Boundary(Len(w), n) = Len(w) + p
  BY DEF Boundary
<1> HIDE DEF p
<1>5. z \in Seq(Nat) /\ Len(z) = p
  BY <1>2, ZerosIs
<1> HIDE DEF z, u
<1>6. u \in Writers /\ Grown(w, u) /\ Len(u) = Len(w) + Len(z)
  BY <1>3, <1>5, Appended
<1> QED BY <1>3, <1>4, <1>5, <1>6 DEF u

\* A number's bytes, and what they are read as.
Limit(t) == IF t = "bool" THEN 2 ELSE IF t = "uint8" THEN 256 ELSE Huge

\* The bytes of a number.
LEMMA BytesIs ==
    ASSUME NEW v \in Nat, NEW s \in Sizes
    PROVE  /\ Bytes(v, s) \in Seq(Nat) /\ Len(Bytes(v, s)) = s
           /\ Bytes(v, s)[1] = v % 256 /\ (s > 1 => Bytes(v, s)[2] = v \div 256)
           /\ \A i \in 3..s : Bytes(v, s)[i] = 0
<1>1. s \in Nat /\ s >= 1
  BY DEF Sizes
<1>2. v % 256 \in Nat /\ v \div 256 \in Nat
  OBVIOUS
<1>3. /\ Bytes(v, s) \in [1..s -> Nat] /\ Bytes(v, s)[1] = v % 256
      /\ s > 1 => Bytes(v, s)[2] = v \div 256
      /\ \A i \in 3..s : Bytes(v, s)[i] = 0
  BY <1>1, <1>2 DEF Bytes
<1> HIDE DEF Bytes
<1> QED BY <1>1, <1>3

\* bs begins with the s bytes that the writer makes of the number v.
SameBytes(bs, v, s) == \A i \in 1..s : bs[i] = Bytes(v, s)[i]

\* Those bytes, spelled out: the low byte, the high byte and zeros.
TwoBytes(bs, v, s) ==
    bs[1] = v % 256 /\ (s > 1 => bs[2] = v \div 256) /\ \A i \in 3..s : bs[i] = 0

\* Bytes equal to the writer's bytes are the low byte, the high byte and zeros.
LEMMA BytesFound ==
    ASSUME NEW v \in Nat, NEW s \in Sizes, NEW bs, SameBytes(bs, v, s)
    PROVE  TwoBytes(bs, v, s)
<1>1. /\ 1 \in 1..s /\ (s > 1 => 2 \in 1..s)
      /\ \A i \in 3..s : i \in 1..s
  BY DEF Sizes
<1>2. TwoBytes(Bytes(v, s), v, s)
  BY BytesIs DEF TwoBytes
<1> DEFINE vs == Bytes(v, s)
<1>3. \A i \in 1..s : bs[i] = vs[i]
  BY Zenon DEF SameBytes
<1> HIDE DEF vs
<1>4. bs[1] = vs[1] /\ (s > 1 => bs[2] = vs[2]) /\ \A i \in 3..s : bs[i] = vs[i]
  BY <1>1, <1>3
<1>5. vs[1] = v % 256 /\ (s > 1 => vs[2] = v \div 256) /\ \A i \in 3..s : vs[i] = 0
  BY <1>2, Zenon DEF TwoBytes, vs
<1>6. \A i \in 3..s : bs[i] = 0
  BY <1>4, <1>5, Zenon
<1> QED BY <1>4, <1>5, <1>6, Zenon DEF TwoBytes

\* A number is read from its bytes.
LEMMA Decodes ==
    ASSUME NEW t \in Numeric, NEW v \in Nat, v < Limit(t), NEW bs, bs \in [1..SizeOf(t) -> Nat],
           \A i \in 1..SizeOf(t) : bs[i] = Bytes(v, SizeOf(t))[i]
    PROVE  Decoded(t, bs) = v
<1> DEFINE s == SizeOf(t)
<1>1. s \in Sizes /\ s \in Nat /\ s >= 1
  BY SizeOfIs DEF Sizes
<1>2. /\ bs[1] = v % 256 /\ (s > 1 => bs[2] = v \div 256) /\ \A i \in 3..s : bs[i] = 0
  <2> HIDE DEF s
  <2>1. SameBytes(bs, v, s)
    BY Zenon DEF s, SameBytes
  <2>2. TwoBytes(bs, v, s)
    BY <1>1, <2>1, BytesFound
  <2> QED BY <2>2, Zenon DEF TwoBytes
<1>3. bs \in Seq(Nat) /\ Len(bs) = s
  BY <1>1
<1>4. t \in {"bool", "uint8"} => s = 1
  BY SizeOfIs
<1>5. t \notin {"bool", "uint8"} => s > 1
  BY DEF SizeOf, Numeric
<1> HIDE DEF s
<1>6. Number(bs) = bs[1] + (IF s > 1 THEN 256 * bs[2] ELSE 0)
  BY <1>1, <1>2, <1>3 DEF Number
<1>7. CASE t = "bool"
  <2>1. s = 1 /\ (v = 0 \/ v = 1)
    BY <1>4, <1>7 DEF Limit
  <2>2. bs[1] = v /\ Number(bs) = v
    BY <1>2, <1>6, <2>1
  <2> QED BY <1>7, <2>1, <2>2 DEF Decoded
<1>8. CASE t = "uint8"
  <2>1. s = 1 /\ v < 256
    BY <1>4, <1>8 DEF Limit
  <2>2. Number(bs) = v
    BY <1>2, <1>6, <2>1
  <2> QED BY <1>8, <2>2 DEF Decoded
<1>9. CASE t \notin {"bool", "uint8"}
  <2>1. Number(bs) = (v % 256) + 256 * (v \div 256)
    BY <1>2, <1>5, <1>6, <1>9
  <2>2. Number(bs) = v
    BY <2>1
  <2> QED BY <1>9, <2>2 DEF Decoded
<1> QED BY <1>7, <1>8, <1>9

\* A number is written at the next boundary.
LEMMA WriteIs ==
    ASSUME NEW w \in Writers, NEW t \in Numeric, NEW v \in Nat
    PROVE  LET u == write(w, t, v)
               s == SizeOf(t)
               at == Boundary(Len(w), s)
           IN  /\ u \in Writers /\ Grown(w, u) /\ Len(u) = at + s /\ at \in Nat /\ at >= Len(w)
               /\ \A i \in 1..s : u[at + i] = Bytes(v, s)[i]
               /\ py_number(w, t, v) = u
<1> DEFINE s == SizeOf(t)
           a == WAlign(w, s)
           bs == Bytes(v, s)
           u == write(w, t, v)
           at == Boundary(Len(w), s)
<1>1. s \in Sizes
  BY SizeOfIs
<1>2. a \in Writers /\ Len(a) = at /\ Grown(w, a) /\ py_wpad(w, s) = a
  BY <1>1, WAlignIs
<1>3. bs \in Seq(Nat) /\ Len(bs) = s
  BY <1>1, BytesIs
<1>4. u = a \o bs /\ py_number(w, t, v) = u
  BY <1>2 DEF write, write_aligned, py_number
<1>5. at \in Nat /\ at >= Len(w)
  <2>1. Len(w) \in Nat /\ Len(w) >= 4
    BY DEF Writers
  <2> QED BY <1>1, <2>1, BoundaryIs
<1> HIDE DEF s, a, bs, u, at
<1>6. /\ u \in Writers /\ Grown(a, u) /\ Len(u) = Len(a) + Len(bs)
      /\ \A i \in 1..Len(bs) : u[Len(a) + i] = bs[i]
  BY <1>2, <1>3, <1>4, Appended
<1>7. Grown(w, u)
  BY <1>2, <1>6, GrownTwice
<1> QED BY <1>2, <1>3, <1>4, <1>5, <1>6, <1>7 DEF s, bs, u, at

\* A string is written at the next boundary: its length, its bytes and a 0; in both
\* languages.
LEMMA WriteStringIs ==
    ASSUME NEW w \in Writers, NEW str \in Seq(Nat)
    PROVE  LET u == write_string(w, str)
               at == Boundary(Len(w), 4)
           IN  /\ u \in Writers /\ Grown(w, u) /\ Len(u) = at + 4 + Len(str) + 1
               /\ at \in Nat /\ at >= Len(w)
               /\ \A i \in 1..4 : u[at + i] = Bytes(Len(str) + 1, 4)[i]
               /\ \A i \in 1..Len(str) : u[at + 4 + i] = str[i]
               /\ py_string(w, str) = u
<1> DEFINE u == write_string(w, str)
           at == Boundary(Len(w), 4)
           n == Len(str)
           l == write(w, "uint32", n + 1)
           z == <<0>>
           k == l \o str
<1>0. "uint32" \in Numeric /\ SizeOf("uint32") = 4 /\ n \in Nat /\ n + 1 \in Nat
  BY SizeOfIs DEF Numeric
<1>1. /\ l \in Writers /\ Grown(w, l) /\ Len(l) = at + 4 /\ at \in Nat /\ at >= Len(w)
      /\ \A i \in 1..4 : l[at + i] = Bytes(n + 1, 4)[i]
      /\ py_number(w, "uint32", n + 1) = l
  <2>1. LET v == write(w, "uint32", n + 1)
            s == SizeOf("uint32")
            to == Boundary(Len(w), s)
        IN  /\ v \in Writers /\ Grown(w, v) /\ Len(v) = to + s /\ to \in Nat /\ to >= Len(w)
            /\ \A i \in 1..s : v[to + i] = Bytes(n + 1, s)[i]
            /\ py_number(w, "uint32", n + 1) = v
    BY <1>0, WriteIs
  <2> QED BY <1>0, <2>1
<1>2. u = k \o z /\ py_string(w, str) = u
  BY <1>1 DEF write_string, py_string
<1>3. z \in Seq(Nat) /\ Len(z) = 1
  OBVIOUS
<1> HIDE DEF u, at, l, z
<1>4. /\ k \in Writers /\ Grown(l, k) /\ Len(k) = Len(l) + n
      /\ \A i \in 1..n : k[Len(l) + i] = str[i]
  <2>1. l \in Writers /\ str \in Seq(Nat) /\ k = l \o str
    BY <1>1, Zenon
  <2> HIDE DEF k
  <2> QED BY <2>1, Appended, Zenon
<1> HIDE DEF k, n
<1>5. /\ u \in Writers /\ Grown(k, u) /\ Len(u) = Len(k) + 1
  <2>1. k \in Writers /\ z \in Seq(Nat) /\ u = k \o z
    BY <1>2, <1>3, <1>4
  <2>2. u \in Writers /\ Grown(k, u) /\ Len(u) = Len(k) + Len(z)
    BY <2>1, Appended
  <2> QED BY <1>3, <2>2
<1>6. Grown(w, u)
  BY <1>1, <1>4, <1>5, GrownTwice
<1>7. Len(u) = at + 4 + n + 1
  BY <1>0, <1>1, <1>4, <1>5
<1>8. \A i \in 1..4 : u[at + i] = Bytes(n + 1, 4)[i]
  <2>1. \A i \in 1..4 : at + i \in 1..Len(l) /\ at + i \in 1..Len(k)
    BY <1>0, <1>1, <1>4
  <2> QED BY <1>1, <1>4, <1>5, <2>1 DEF Grown
<1>9. \A i \in 1..n : u[at + 4 + i] = str[i]
  <2>1. \A i \in 1..n : at + 4 + i \in 1..Len(k) /\ k[at + 4 + i] = str[i]
    BY <1>0, <1>1, <1>4
  <2> QED BY <1>5, <2>1 DEF Grown
<1> QED BY <1>1, <1>2, <1>5, <1>6, <1>7, <1>8, <1>9 DEF u, at, n

-----------------------------------------------------------------------------
(* What was written is read back: numbers and strings.                     *)

\* Bytes that are characters of their own.
Ascii(v) == \A i \in 1..Len(v) : v[i] < 128

\* They are UTF-8.
LEMMA AsciiIsUtf8 ==
    ASSUME NEW v \in Seq(Nat), Ascii(v)
    PROVE  Utf8(v)
<1> DEFINE n == Len(v)
           begins == {i \in DOMAIN v : v[i] \notin Continuation} \cup {n + 1}
<1>1. n \in Nat /\ DOMAIN v = 1..n
  OBVIOUS
<1>2. \A i \in 1..n : v[i] \in Nat /\ v[i] < 128 /\ v[i] \notin Continuation
  <2> SUFFICES ASSUME NEW i \in 1..n
               PROVE  v[i] \in Nat /\ v[i] < 128 /\ v[i] \notin Continuation
    OBVIOUS
  <2>1. v[i] \in Nat
    BY <1>1
  <2>2. v[i] < 128
    BY DEF Ascii
  <2>3. \A x \in Nat : x < 128 => x \notin 128..191
    OBVIOUS
  <2> QED BY <2>1, <2>2, <2>3 DEF Continuation
<1>3. begins = 1..(n + 1)
  BY <1>1, <1>2
<1>4. ASSUME NEW i \in 1..n PROVE IsChar(SubSeq(v, i, i + 1 - 1))
  <2>1. i + 1 - 1 = i /\ i \in 1..(n + 1) /\ i \in (i - 1)..n
    BY <1>1
  <2> DEFINE c == SubSeq(v, i, i)
  <2>2. Len(c) = 1 /\ c[1] = v[i]
    BY <1>1
  <2>3. IsChar(c)
    BY <1>2, <2>2 DEF IsChar
  <2> QED BY <2>1, <2>3
<1>5. 1 \in begins
  BY <1>1, <1>3
<1>6. \A i \in begins \ {n + 1} : i \in 1..n /\ i + 1 \in begins
  BY <1>1, <1>3
<1>7. 1 \in 1..4
  OBVIOUS
<1> HIDE DEF begins, n
<1>8. \A i \in begins \ {n + 1} : \E k \in 1..4 : i + k \in begins /\ IsChar(SubSeq(v, i, i + k - 1))
  BY <1>4, <1>6, <1>7
<1> QED BY <1>5, <1>8, Zenon DEF Utf8, begins, n

\* The values of a type, of an element and of a member; strings are of characters of one byte.
Fits(t, v) ==
    IF t = "string" THEN v \in Seq(Nat) /\ Len(v) + 1 < Huge /\ Ascii(v)
    ELSE v \in Nat /\ v < Limit(t)

\* The values of an element.
ElemFits(elem, e) ==
    e \in Seq(Outs) /\ Len(e) = Len(elem) /\ \A k \in 1..Len(elem) : Fits(elem[k], e[k])

\* b holds the first c bytes of w, and behind them the zeros up to a multiple of 4.
Holds(b, w, c) ==
    /\ b \in Seq(Nat) /\ w \in Writers /\ c \in Nat
    /\ c <= Len(b) /\ Len(b) < c + 4 /\ Len(b) % 4 = 0
    /\ \A i \in 1..Len(w) : i <= c => b[i] = w[i]
    /\ \A i \in 1..Len(b) : i > c => b[i] = 0

\* The reader r of b has read what is written in w: it has failed if that is beyond the
\* buffer, and it has read what was written if that has not been cut; all strings are UTF-8.
Back(r, b, w, c, out) ==
    /\ r \in Readers(b)
    /\ r.ok <=> Len(w) <= Len(b)
    /\ r.ok => r.utf8
    /\ r.ok => r.pos = Len(w) /\ (Len(w) <= c => r.out = out)

\* What holds all of w holds what had been written before.
LEMMA HoldsLess ==
    ASSUME NEW b, NEW u, NEW w, NEW c, Holds(b, w, c), Grown(u, w)
    PROVE  Holds(b, u, c)
<1>1. Len(u) \in Nat /\ Len(w) \in Nat /\ Len(u) <= Len(w)
  BY DEF Grown, Writers
<1>2. \A i \in 1..Len(u) : i \in 1..Len(w)
  BY <1>1
<1> QED BY <1>2 DEF Holds, Grown

\* Reading on where the writer wrote on.
LEMMA ReadsBack ==
    ASSUME NEW b, NEW r, NEW w, NEW c, NEW out, NEW u, NEW q, NEW to, NEW outs, NEW more,
           Back(r, b, w, c, out), Grown(w, u), Reads(q, r, b, to, outs), b \in Seq(Nat), c \in Nat,
           r.ok => /\ to <= Len(b) <=> Len(u) <= Len(b)
                   /\ Len(u) <= Len(b) => to = Len(u)
                   /\ Len(u) <= c => outs = more,
           r.utf8 /\ q.ok => q.utf8
    PROVE  Back(q, b, u, c, out \o more)
<1>1. Len(w) \in Nat /\ Len(u) \in Nat /\ Len(w) <= Len(u) /\ Len(b) \in Nat
  BY DEF Grown, Writers
<1>2. (Len(u) <= Len(b) => Len(w) <= Len(b)) /\ (Len(u) <= c => Len(w) <= c)
  BY <1>1
<1> QED BY <1>2, Zenon DEF Back, Reads

\* These are the n bytes of w behind at.
Found(bs, w, at, n) == bs \in [1..n -> Nat] /\ \A i \in 1..n : bs[i] = w[at + i]

\* The bytes that a reader finds where they were written.
LEMMA FoundBytes ==
    ASSUME NEW b, NEW w, NEW c, Holds(b, w, c), NEW at \in Nat, NEW n \in Nat,
           at + n <= Len(w), at + n <= c
    PROVE  Found(BytesAt(b, at, n), w, at, n)
<1>0. /\ b \in Seq(Nat) /\ w \in Writers /\ c \in Nat /\ c <= Len(b)
      /\ \A i \in 1..Len(w) : i <= c => b[i] = w[i]
  BY Zenon DEF Holds
<1>1. Len(w) \in Nat /\ Len(b) \in Nat
  BY <1>0 DEF Writers
<1>2. ASSUME NEW i \in 1..n
      PROVE  at + i \in 1..Len(w) /\ at + i \in 1..Len(b) /\ at + i <= c /\ at + i <= Len(b)
  BY <1>0, <1>1
<1>3. \A i \in 1..n : b[at + i] = w[at + i] /\ b[at + i] \in Nat
  BY <1>0, <1>2
<1>4. BytesAt(b, at, n) = [i \in 1..n |-> b[at + i]]
  BY <1>2 DEF BytesAt
<1> QED BY <1>3, <1>4 DEF Found

\* A number is read back.
LEMMA BackNumber ==
    ASSUME NEW b, NEW r, NEW w, NEW c, NEW out, NEW t \in Numeric, NEW v,
           v \in Nat, v < Limit(t), Back(r, b, w, c, out), w \in Writers,
           Holds(b, write(w, t, v), c)
    PROVE  Back(read(r, t), b, write(w, t, v), c, out \o <<v>>)
<1> DEFINE s == SizeOf(t)
           at == Boundary(Len(w), s)
           u == write(w, t, v)
           q == read(r, t)
           nums == NumbersAt(b, Boundary(r.pos, s), t, 1)
<1>0. s \in Sizes /\ s \in Nat
  BY SizeOfIs DEF Sizes
<1>1. b \in Seq(Nat) /\ c \in Nat /\ r \in Readers(b)
  BY DEF Holds, Back
<1>2. /\ u \in Writers /\ Grown(w, u) /\ Len(u) = at + s /\ at \in Nat
      /\ \A i \in 1..s : u[at + i] = Bytes(v, s)[i]
  BY WriteIs
<1>3. Reads(q, r, b, Boundary(r.pos, s) + s, nums)
  BY <1>1, ReadIs
<1>3a. r.utf8 /\ q.ok => q.utf8
  BY <1>1, ReadKeeps
<1> HIDE DEF u, q
<1>4. ASSUME Len(u) <= c PROVE NumbersAt(b, at, t, 1) = <<v>>
  <2> DEFINE bs == BytesAt(b, at, s)
  <2>1. bs \in [1..s -> Nat] /\ \A i \in 1..s : bs[i] = u[at + i]
    <3>1. at + s <= Len(u) /\ at + s <= c
      BY <1>0, <1>2, <1>4
    <3>2. Holds(b, u, c)
      BY DEF u
    <3> HIDE DEF at, s
    <3>3. Found(bs, u, at, s)
      BY <1>0, <1>2, <3>1, <3>2, FoundBytes
    <3> QED BY <3>3 DEF Found
  <2>2. \A i \in 1..s : bs[i] = Bytes(v, s)[i]
    BY <1>2, <2>1
  <2> HIDE DEF bs
  <2>3. Decoded(t, bs) = v
    BY <2>1, <2>2, Decodes
  <2> DEFINE ns == NumbersAt(b, at, t, 1)
  <2>4. ns \in Seq(Nat) /\ Len(ns) = 1
    <3>1. 1 \in Nat /\ at \in Nat
      BY <1>2
    <3> HIDE DEF at
    <3> QED BY <1>1, <3>1, NumbersAtSeq
  <2>5. at + (1 - 1) * SizeOf(t) = at
    BY <1>0, <1>2
  <2>6. ns[1] = v
    BY <2>3, <2>5 DEF NumbersAt, bs
  <2> HIDE DEF ns
  <2>7. ns = <<v>>
    BY <2>4, <2>6, OnePiece
  <2> QED BY <2>7 DEF ns
<1>5. r.ok => r.pos = Len(w)
  BY Zenon DEF Back
<1> DEFINE to == Boundary(r.pos, s) + s
<1>6. r.ok => to = Len(u) /\ (Len(u) <= c => nums = <<v>>)
  BY <1>2, <1>4, <1>5, Zenon
<1> HIDE DEF to, nums
<1>7. r.ok => /\ to <= Len(b) <=> Len(u) <= Len(b)
              /\ Len(u) <= Len(b) => to = Len(u)
              /\ Len(u) <= c => nums = <<v>>
  BY <1>6, Zenon
<1>8. Reads(q, r, b, to, nums)
  BY <1>3 DEF to, nums
<1>9. Back(q, b, u, c, out \o <<v>>)
  BY <1>1, <1>2, <1>3a, <1>7, <1>8, ReadsBack
<1> QED BY <1>9 DEF q, u

\* The length of a string or a sequence that is whole.
LEMMA LengthFound ==
    ASSUME NEW b, NEW w, NEW c, Holds(b, w, c), NEW at \in Nat, NEW n \in Nat, n < Huge,
           at + 4 <= Len(w), at + 4 <= c, \A i \in 1..4 : w[at + i] = Bytes(n, 4)[i]
    PROVE  LengthAt(b, at) = n
<1> DEFINE bs == BytesAt(b, at, 4)
<1>0. "uint32" \in Numeric /\ SizeOf("uint32") = 4 /\ 4 \in Nat /\ Limit("uint32") = Huge
  BY SizeOfIs DEF Numeric, Limit
<1>1. bs \in [1..4 -> Nat] /\ \A i \in 1..4 : bs[i] = w[at + i]
  <2> DEFINE k == 4
  <2>1. k \in Nat /\ at + k <= Len(w) /\ at + k <= c
    OBVIOUS
  <2> HIDE DEF k
  <2>2. Found(BytesAt(b, at, k), w, at, k)
    BY <2>1, FoundBytes
  <2> QED BY <2>2 DEF k, Found
<1>2. \A i \in 1..4 : bs[i] = Bytes(n, 4)[i]
  BY <1>1
<1> HIDE DEF bs
<1>3. Decoded("uint32", bs) = n
  <2> DEFINE t == "uint32"
  <2>1. /\ t \in Numeric /\ n < Limit(t) /\ bs \in [1..SizeOf(t) -> Nat]
        /\ \A i \in 1..SizeOf(t) : bs[i] = Bytes(n, SizeOf(t))[i]
    BY <1>0, <1>1, <1>2
  <2> HIDE DEF t
  <2>2. Decoded(t, bs) = n
    BY <2>1, Decodes
  <2> QED BY <2>2 DEF t
<1> QED BY <1>3 DEF LengthAt, bs

\* If a length has been cut, the buffer ends behind it at most.
LEMMA CutLength ==
    ASSUME NEW b, NEW w, NEW c, Holds(b, w, c), NEW at \in Nat, at >= 4, (at - 4) % 4 = 0,
           ~(at + 4 <= c)
    PROVE  Len(b) <= at + 4
<1>1. c \in Nat /\ Len(b) \in Nat /\ c <= Len(b) /\ Len(b) < c + 4 /\ Len(b) % 4 = 0
  BY DEF Holds
<1>2. c < at + 4 /\ Len(b) < at + 8
  BY <1>1
<1> QED BY <1>1, <1>2

\* A string is read back.
LEMMA BackString ==
    ASSUME NEW b, NEW r, NEW w, NEW c, NEW out, NEW v \in Seq(Nat), Len(v) + 1 < Huge,
           Ascii(v), Back(r, b, w, c, out), w \in Writers, Holds(b, write_string(w, v), c)
    PROVE  Back(read_string(r), b, write_string(w, v), c, out \o <<v>>)
<1> DEFINE at == Boundary(Len(w), 4)
           u == write_string(w, v)
           q == read_string(r)
           n == Len(v)
           end == StringEnd(b, at)
           str == StringOut(b, at)
<1>0. 4 \in Sizes /\ Len(w) \in Nat /\ Len(w) >= 4 /\ n \in Nat
  BY DEF Sizes, Writers
<1>1. b \in Seq(Nat) /\ c \in Nat /\ r \in Readers(b) /\ c <= Len(b)
  BY Zenon DEF Holds, Back
<1>2. /\ u \in Writers /\ Grown(w, u) /\ Len(u) = at + 4 + n + 1 /\ at \in Nat /\ at >= Len(w)
      /\ \A i \in 1..4 : u[at + i] = Bytes(n + 1, 4)[i]
      /\ \A i \in 1..n : u[at + 4 + i] = v[i]
  BY WriteStringIs
<1>3. /\ Reads(q, r, b, StringEnd(b, Boundary(r.pos, 4)), StringOut(b, Boundary(r.pos, 4)))
      /\ q.ok => (q.utf8 <=> r.utf8 /\ Utf8(StringOut(b, Boundary(r.pos, 4))[1]))
  BY <1>1, ReadStringIs
<1>4. (at - 4) % 4 = 0 /\ at >= 4
  BY <1>0, <1>2, BoundaryTwice
<1>5. r.ok => r.pos = Len(w)
  BY Zenon DEF Back
<1>6. Holds(b, u, c)
  OBVIOUS
<1> HIDE DEF u, q, at, n
<1>7. Len(b) \in Nat /\ LengthAt(b, at) \in Nat
  BY <1>1, <1>2, LengthAtIs
<1>8. ASSUME at + 4 <= c PROVE LengthAt(b, at) = n + 1 /\ end = Len(u)
  <2>1. n + 1 \in Nat /\ n + 1 < Huge /\ at + 4 <= Len(u)
    BY <1>0, <1>2 DEF n
  <2>2. LengthAt(b, at) = n + 1
    <3> DEFINE k == n + 1
    <3>1. k \in Nat /\ k < Huge /\ \A i \in 1..4 : u[at + i] = Bytes(k, 4)[i]
      BY <1>2, <2>1
    <3> HIDE DEF k
    <3>2. LengthAt(b, at) = k
      BY <1>2, <1>6, <1>8, <2>1, <3>1, LengthFound
    <3> QED BY <3>2 DEF k
  <2>3. at \in Nat /\ Len(u) = at + 4 + n + 1
    BY <1>2
  <2>4. end = at + 4 + (n + 1)
    BY <1>0, <2>2 DEF StringEnd
  <2> HIDE DEF end
  <2> QED BY <1>0, <2>2, <2>3, <2>4
<1>9. ASSUME Len(u) <= c PROVE str = <<v>>
  <2>1. at + 4 <= c /\ at + 4 \in Nat /\ (at + 4) + n <= Len(u) /\ (at + 4) + n <= c
    BY <1>0, <1>1, <1>2, <1>9
  <2>2. LengthAt(b, at) - 1 = n
    BY <1>0, <1>8, <2>1
  <2> DEFINE p == at + 4
             bs == BytesAt(b, p, n)
  <2>3. Found(bs, u, p, n)
    <3>1. p \in Nat /\ p + n <= Len(u) /\ p + n <= c
      BY <2>1
    <3> HIDE DEF p
    <3> QED BY <1>0, <1>6, <3>1, FoundBytes
  <2>4. bs \in [1..n -> Nat] /\ \A i \in 1..n : bs[i] = u[p + i]
    BY <2>3 DEF Found
  <2> HIDE DEF bs
  <2>5. \A i \in 1..n : bs[i] = v[i]
    BY <1>2, <2>4
  <2>6. bs = v
    <3>1. bs \in Seq(Nat) /\ Len(bs) = n
      BY <1>0, <2>4
    <3> QED BY <2>5, <3>1, SeqEqual DEF n
  <2> QED BY <2>2, <2>6 DEF StringOut, bs
<1>10. ASSUME ~(at + 4 <= c) PROVE ~(end <= Len(b)) /\ ~(Len(u) <= Len(b))
  <2>1. Len(b) <= at + 4
    BY <1>2, <1>4, <1>6, <1>10, CutLength
  <2>2. ~(Len(u) <= Len(b))
    BY <1>0, <1>2, <1>7, <2>1
  <2>3. ~(end <= Len(b))
    BY <1>2, <1>7, <2>1 DEF StringEnd
  <2> QED BY <2>2, <2>3
<1>10a. ASSUME at + 4 <= c PROVE Utf8(str[1])
  <2> DEFINE p == at + 4
             bs == BytesAt(b, p, n)
  <2>1. LengthAt(b, at) - 1 = n /\ p \in Nat
    BY <1>0, <1>2, <1>8, <1>10a
  <2>2. str[1] = bs
    BY <2>1 DEF StringOut
  <2>3. ASSUME NEW i \in 1..n PROVE bs[i] \in Nat /\ bs[i] < 128
    <3>1. bs[i] = IF p + i <= Len(b) THEN b[p + i] ELSE 0
      BY DEF BytesAt
    <3>2. CASE ~(p + i <= Len(b))
      BY <3>1, <3>2
    <3>3. CASE p + i <= Len(b) /\ ~(p + i <= c)
      <4>1. p + i \in 1..Len(b) /\ p + i > c
        BY <1>0, <1>1, <1>7, <2>1, <3>3
      <4>2. b[p + i] = 0
        BY <1>6, <4>1 DEF Holds
      <4> QED BY <3>1, <3>3, <4>2
    <3>4. CASE p + i <= Len(b) /\ p + i <= c
      <4>1. p + i \in 1..Len(u)
        <5>1. Len(u) = at + 4 + n + 1 /\ at \in Nat /\ n \in Nat /\ i \in 1..n
          BY <1>0, <1>2
        <5> HIDE DEF bs
        <5> QED BY <5>1
      <4>2. b[p + i] = u[p + i]
        BY <1>6, <3>4, <4>1 DEF Holds
      <4>3. u[p + i] = v[i]
        BY <1>2
      <4>4. v[i] \in Nat /\ v[i] < 128
        BY DEF Ascii, n
      <4> QED BY <3>1, <3>4, <4>2, <4>3, <4>4
    <3> QED BY <3>2, <3>3, <3>4
  <2>4. DOMAIN bs = 1..n /\ bs = [i \in 1..n |-> bs[i]]
    BY DEF BytesAt
  <2> HIDE DEF bs
  <2>5. bs \in Seq(Nat) /\ Len(bs) = n
    <3>1. n \in Nat
      BY <1>0
    <3> HIDE DEF n
    <3>2. bs \in [1..n -> Nat]
      BY <2>3, <2>4, Zenon
    <3> QED BY <3>1, <3>2
  <2>6. Ascii(bs)
    BY <2>3, <2>5 DEF Ascii
  <2> QED BY <2>2, <2>5, <2>6, AsciiIsUtf8
<1> HIDE DEF end, str
<1>11. /\ end <= Len(b) <=> Len(u) <= Len(b)
       /\ Len(u) <= Len(b) => end = Len(u)
       /\ Len(u) <= c => str = <<v>>
  BY <1>8, <1>9, <1>10, Zenon
<1> DEFINE to == StringEnd(b, Boundary(r.pos, 4))
           outs == StringOut(b, Boundary(r.pos, 4))
<1>12. r.ok => to = end /\ outs = str
  BY <1>5, Zenon DEF end, str, at
<1>13. Reads(q, r, b, to, outs)
  BY <1>3
<1> HIDE DEF to, outs
<1>14. r.ok => /\ to <= Len(b) <=> Len(u) <= Len(b)
               /\ Len(u) <= Len(b) => to = Len(u)
               /\ Len(u) <= c => outs = <<v>>
  BY <1>11, <1>12, Zenon
<1>14a. q.ok => r.ok /\ to <= Len(b)
  BY <1>13, Zenon DEF Reads
<1>14b. r.utf8 /\ q.ok => q.utf8
  BY <1>3, <1>10, <1>10a, <1>12, <1>14a, Zenon DEF outs
<1>15. Back(q, b, u, c, out \o <<v>>)
  BY <1>1, <1>2, <1>13, <1>14, <1>14b, ReadsBack
<1> QED BY <1>15 DEF q, u

\* A number or a string is read back.
LEMMA BackOne ==
    ASSUME NEW b, NEW r, NEW w, NEW c, NEW out, NEW t \in Prims, NEW v, Fits(t, v),
           Back(r, b, w, c, out), w \in Writers, Holds(b, WriteOne(w, t, v), c)
    PROVE  Back(ReadOne(r, t), b, WriteOne(w, t, v), c, out \o <<v>>)
<1>1. CASE t = "string"
  <2>1. /\ WriteOne(w, t, v) = write_string(w, v) /\ ReadOne(r, t) = read_string(r)
        /\ v \in Seq(Nat) /\ Len(v) + 1 < Huge /\ Ascii(v)
    BY <1>1 DEF WriteOne, ReadOne, Fits
  <2>2. Holds(b, write_string(w, v), c)
    BY <2>1
  <2>3. Back(read_string(r), b, write_string(w, v), c, out \o <<v>>)
    BY <2>1, <2>2, BackString
  <2> QED BY <2>1, <2>3
<1>2. CASE t # "string"
  <2>1. /\ WriteOne(w, t, v) = write(w, t, v) /\ ReadOne(r, t) = read(r, t)
        /\ v \in Nat /\ v < Limit(t) /\ t \in Numeric
    BY <1>2 DEF WriteOne, ReadOne, Fits, Prims
  <2>2. Holds(b, write(w, t, v), c)
    BY <2>1
  <2>3. Back(read(r, t), b, write(w, t, v), c, out \o <<v>>)
    BY <2>1, <2>2, BackNumber
  <2> QED BY <2>1, <2>3
<1> QED BY <1>1, <1>2

\* A number or a string is written in both languages as the same bytes.
LEMMA WriteOneIs ==
    ASSUME NEW w \in Writers, NEW t \in Prims, NEW v, Fits(t, v)
    PROVE  LET u == WriteOne(w, t, v)
           IN  Grown(w, u) /\ u \in Writers /\ Len(u) > Len(w) /\ py_one(w, t, v) = u
<1>0. Len(w) \in Nat
  BY DEF Writers
<1>1. CASE t = "string"
  <2> DEFINE u == write_string(w, v)
             at == Boundary(Len(w), 4)
  <2>1. /\ WriteOne(w, t, v) = u /\ py_one(w, t, v) = py_string(w, v) /\ v \in Seq(Nat)
    BY <1>1 DEF WriteOne, py_one, Fits
  <2>2. /\ u \in Writers /\ Grown(w, u) /\ Len(u) = at + 4 + Len(v) + 1 /\ at \in Nat
        /\ at >= Len(w) /\ py_string(w, v) = u
    BY <2>1, WriteStringIs
  <2>3. Len(v) \in Nat
    BY <2>1
  <2> HIDE DEF u, at
  <2>4. Len(u) > Len(w)
    BY <1>0, <2>2, <2>3
  <2> QED BY <2>1, <2>2, <2>4
<1>2. CASE t # "string"
  <2> DEFINE u == write(w, t, v)
             at == Boundary(Len(w), SizeOf(t))
  <2>1. /\ WriteOne(w, t, v) = u /\ py_one(w, t, v) = py_number(w, t, v)
        /\ v \in Nat /\ t \in Numeric
    BY <1>2 DEF WriteOne, py_one, Fits, Prims
  <2>2. /\ u \in Writers /\ Grown(w, u) /\ Len(u) = at + SizeOf(t) /\ at \in Nat
        /\ at >= Len(w) /\ py_number(w, t, v) = u
    BY <2>1, WriteIs
  <2>3. SizeOf(t) \in Nat /\ SizeOf(t) >= 1
    BY <2>1, SizeOfIs DEF Sizes
  <2> HIDE DEF u, at
  <2>4. Len(u) > Len(w)
    BY <1>0, <2>2, <2>3
  <2> QED BY <2>1, <2>2, <2>4
<1> QED BY <1>1, <1>2

\* The writers a fold goes through.
Growing(W, n) ==
    /\ n \in Nat /\ W \in [0..n -> Writers]
    /\ \A k \in 1..n : Grown(W[k - 1], W[k])

\* Each of these writers has what those before it have.
LEMMA GrownRun ==
    ASSUME NEW W, NEW n, Growing(W, n)
    PROVE  \A k \in 0..n : Grown(W[k], W[n]) /\ Grown(W[0], W[k])
<1>0. n \in Nat /\ W \in [0..n -> Writers] /\ \A k \in 1..n : Grown(W[k - 1], W[k])
  BY DEF Growing
<1> DEFINE P == {j \in 0..n : \A k \in 0..j : Grown(W[k], W[j])}
<1>1. 0 \in P
  <2>1. \A k \in 0..0 : k = 0
    OBVIOUS
  <2>2. 0 \in 0..n /\ W[0] \in Writers
    BY <1>0
  <2> QED BY <2>1, <2>2, GrownSelf
<1>2. ASSUME NEW j \in 1..n, j - 1 \in P PROVE j \in P
  <2>1. j \in 0..n /\ W[j] \in Writers /\ Grown(W[j - 1], W[j])
    BY <1>0
  <2>2. ASSUME NEW k \in 0..j PROVE Grown(W[k], W[j])
    <3>1. CASE k = j
      BY <2>1, <3>1, GrownSelf
    <3>2. CASE k # j
      <4>1. k \in 0..(j - 1)
        BY <1>0, <3>2
      <4>2. Grown(W[k], W[j - 1])
        BY <1>2, <4>1
      <4> QED BY <2>1, <4>2, GrownTwice
    <3> QED BY <3>1, <3>2
  <2> QED BY <2>1, <2>2
<1> HIDE DEF P
<1>3. \A j \in 0..n : j \in P
  BY <1>0, <1>1, <1>2, UpTo
<1>4. n \in 0..n /\ \A k \in 0..n : 0 \in 0..k
  BY <1>0
<1> QED BY <1>3, <1>4 DEF P

-----------------------------------------------------------------------------
(* Elements.                                                               *)

\* The parts of an element have values of their types.
LEMMA ElemFitsIs ==
    ASSUME NEW elem \in Seq(Prims), NEW e, ElemFits(elem, e), NEW n, n = Len(elem)
    PROVE  /\ n \in Nat /\ DOMAIN elem = 1..n /\ e \in Seq(Outs) /\ Len(e) = n
           /\ \A i \in 1..n : elem[i] \in Prims /\ Fits(elem[i], e[i]) /\ e[i] \in Outs
<1>1. e \in Seq(Outs) /\ Len(e) = n /\ \A k \in 1..n : Fits(elem[k], e[k])
  BY DEF ElemFits
<1> QED BY <1>1

\* An element's parts, written one by one.
LEMMA WriteElemSteps ==
    ASSUME NEW elem \in Seq(Prims), NEW e, ElemFits(elem, e), NEW w \in Writers, NEW n, n = Len(elem)
    PROVE  \E W : WriteElemRun(W, elem, e, Writers, w, n) /\ Growing(W, n)
<1>1. /\ n \in Nat /\ DOMAIN elem = 1..n
      /\ \A i \in 1..n : elem[i] \in Prims /\ Fits(elem[i], e[i])
  BY ElemFitsIs
<1>2. \A u \in Writers, i \in 1..n : WriteOne(u, elem[i], e[i]) \in Writers
                                     /\ Grown(u, WriteOne(u, elem[i], e[i]))
  BY <1>1, WriteOneIs
<1>3. WriteElemIn(elem, e, Writers, n)
  BY <1>1, <1>2 DEF WriteElemIn
<1>4. PICK W : WriteElemRun(W, elem, e, Writers, w, n)
  BY <1>3, WriteElemFold
<1>5. W \in [0..n -> Writers] /\ \A k \in 1..n : W[k] = WriteOne(W[k - 1], elem[k], e[k])
  BY <1>4 DEF WriteElemRun
<1>6. \A k \in 1..n : k - 1 \in 0..n
  BY <1>1
<1>7. \A k \in 1..n : Grown(W[k - 1], W[k])
  BY <1>2, <1>5, <1>6
<1> QED BY <1>1, <1>4, <1>5, <1>7 DEF Growing

\* An element is written behind what was there.
LEMMA WriteElemIs ==
    ASSUME NEW elem \in Seq(Prims), NEW e, ElemFits(elem, e), NEW w \in Writers
    PROVE  LET u == WriteElem(w, elem, e)
           IN  u \in Writers /\ Grown(w, u) /\ (elem # << >> => Len(u) > Len(w))
<1> DEFINE n == Len(elem)
           u == WriteElem(w, elem, e)
<1>1. PICK W : WriteElemRun(W, elem, e, Writers, w, n) /\ Growing(W, n)
  BY WriteElemSteps
<1>2. /\ n \in Nat /\ \A i \in 1..n : elem[i] \in Prims /\ Fits(elem[i], e[i])
  BY ElemFitsIs
<1>3. elem # << >> => n # 0
  OBVIOUS
<1> HIDE DEF n, u
<1>4. /\ W \in [0..n -> Writers] /\ W[0] = w /\ W[n] = u
      /\ \A k \in 1..n : W[k] = WriteOne(W[k - 1], elem[k], e[k])
  BY <1>1 DEF WriteElemRun, u
<1>5. \A k \in 0..n : Grown(W[k], W[n]) /\ Grown(W[0], W[k])
  BY <1>1, GrownRun
<1>6. n \in 0..n
  BY <1>2
<1>7. ASSUME n # 0 PROVE Len(u) > Len(w)
  <2>1. n - 1 \in 0..n /\ n \in 1..n
    BY <1>2, <1>7
  <2>2. Grown(w, W[n - 1]) /\ u = WriteOne(W[n - 1], elem[n], e[n]) /\ W[n - 1] \in Writers
    BY <1>4, <1>5, <2>1
  <2>3. Len(u) > Len(W[n - 1]) /\ u \in Writers
    BY <1>2, <2>1, <2>2, WriteOneIs
  <2>4. Len(w) \in Nat /\ Len(W[n - 1]) \in Nat /\ Len(u) \in Nat /\ Len(w) <= Len(W[n - 1])
    BY <2>2, <2>3 DEF Grown, Writers
  <2> QED BY <2>3, <2>4
<1> QED BY <1>3, <1>4, <1>5, <1>6, <1>7 DEF u

\* The writer in Python writes the same.
LEMMA PyWriteElemIs ==
    ASSUME NEW elem \in Seq(Prims), NEW e, ElemFits(elem, e), NEW w \in Writers
    PROVE  PyWriteElem(w, elem, e) = WriteElem(w, elem, e)
<1> DEFINE n == Len(elem)
<1>1. PICK W : WriteElemRun(W, elem, e, Writers, w, n) /\ Growing(W, n)
  BY WriteElemSteps
<1>2. /\ n \in Nat /\ DOMAIN elem = 1..n
      /\ \A i \in 1..n : elem[i] \in Prims /\ Fits(elem[i], e[i])
  BY ElemFitsIs
<1> HIDE DEF n
<1>3. \A u \in Writers, i \in 1..n : /\ py_one(u, elem[i], e[i]) = WriteOne(u, elem[i], e[i])
                                     /\ py_one(u, elem[i], e[i]) \in Writers
  BY <1>2, WriteOneIs
<1>4. PyWriteElemIn(elem, e, Writers, n)
  BY <1>2, <1>3 DEF PyWriteElemIn
<1>5. PICK V : PyWriteElemRun(V, elem, e, Writers, w, n)
  BY <1>4, PyWriteElemFold
<1>6. /\ W \in [0..n -> Writers] /\ W[0] = w /\ W[n] = WriteElem(w, elem, e)
      /\ \A k \in 1..n : W[k] = WriteOne(W[k - 1], elem[k], e[k])
  BY <1>1 DEF WriteElemRun
<1>7. /\ V \in [0..n -> Writers] /\ V[0] = w /\ V[n] = PyWriteElem(w, elem, e)
      /\ \A k \in 1..n : V[k] = py_one(V[k - 1], elem[k], e[k])
  BY <1>5 DEF PyWriteElemRun
<1> DEFINE P == {k \in 0..n : V[k] = W[k]}
<1>8. 0 \in P /\ n \in 0..n /\ \A k \in 1..n : k \in 0..n /\ k - 1 \in 0..n
  BY <1>2, <1>6, <1>7
<1>9. \A k \in 1..n : k - 1 \in P => k \in P
  <2> SUFFICES ASSUME NEW k \in 1..n, k - 1 \in P PROVE V[k] = W[k]
    BY <1>8
  <2>1. V[k - 1] = W[k - 1] /\ W[k - 1] \in Writers
    BY <1>6, <1>8
  <2> QED BY <1>3, <1>6, <1>7, <2>1
<1> HIDE DEF P
<1>10. n \in P
  BY <1>2, <1>8, <1>9, UpTo
<1> QED BY <1>6, <1>7, <1>10 DEF P

\* It makes no difference which are joined first.
Associate(a, c, d) == (a \o c) \o d = a \o (c \o d)

\* The same, of any three sequences.
LEMMA Associative ==
    ASSUME NEW S, NEW a \in Seq(S), NEW c \in Seq(S), NEW d \in Seq(S)
    PROVE  Associate(a, c, d)
BY ConcatAssociative DEF Associate

\* The first elements of a sequence, and one more.
LEMMA FirstOnes ==
    ASSUME NEW S, NEW e \in Seq(S), NEW k \in 1..Len(e)
    PROVE  SubSeq(e, 1, k - 1) \in Seq(S) /\ SubSeq(e, 1, k) = Append(SubSeq(e, 1, k - 1), e[k])
<1> DEFINE x == SubSeq(e, 1, k - 1)
           y == SubSeq(e, 1, k)
<1>1. Len(e) \in Nat /\ k - 1 \in Nat /\ k \in Nat /\ e[k] \in S
  OBVIOUS
<1>2. x \in Seq(S) /\ Len(x) = k - 1 /\ \A i \in 1..(k - 1) : x[i] = e[i]
  <2> DEFINE j == k - 1
  <2>1. j \in Nat /\ 1 <= j + 1 /\ j <= Len(e) /\ 1 \in Nat /\ 1 <= 1
    BY <1>1
  <2> HIDE DEF j
  <2>2. SubSeq(e, 1, j) \in Seq(S) /\ Len(SubSeq(e, 1, j)) = j - 1 + 1
        /\ \A i \in 1..(j - 1 + 1) : SubSeq(e, 1, j)[i] = e[1 + i - 1]
    BY <2>1, PiecesOfSubSeq
  <2>3. j - 1 + 1 = j /\ \A i \in 1..j : 1 + i - 1 = i
    BY <2>1
  <2> QED BY <2>2, <2>3 DEF j
<1>3. y \in Seq(S) /\ Len(y) = k /\ \A i \in 1..k : y[i] = e[i]
  <2>1. 1 <= k + 1 /\ k <= Len(e) /\ 1 \in Nat /\ 1 <= 1
    BY <1>1
  <2>2. SubSeq(e, 1, k) \in Seq(S) /\ Len(SubSeq(e, 1, k)) = k - 1 + 1
        /\ \A i \in 1..(k - 1 + 1) : SubSeq(e, 1, k)[i] = e[1 + i - 1]
    BY <1>1, <2>1, PiecesOfSubSeq
  <2>3. k - 1 + 1 = k /\ \A i \in 1..k : 1 + i - 1 = i
    BY <2>1
  <2> QED BY <2>2, <2>3
<1> HIDE DEF x, y
<1>4. y = Append(x, e[k])
  <2>1. Append(x, e[k]) \in Seq(S) /\ Len(Append(x, e[k])) = k
    BY <1>1, <1>2
  <2>2. \A i \in 1..k : y[i] = Append(x, e[k])[i]
    BY <1>1, <1>2, <1>3
  <2> QED BY <1>3, <2>1, <2>2, SeqEqual
<1> QED BY <1>2, <1>4 DEF x, y

\* The beginnings of a sequence.
LEMMA Beginnings ==
    ASSUME NEW S, NEW e \in Seq(S), NEW out \in Seq(S), NEW k \in 1..Len(e)
    PROVE  (out \o SubSeq(e, 1, k - 1)) \o <<e[k]>> = out \o SubSeq(e, 1, k)
<1> DEFINE x == SubSeq(e, 1, k - 1)
           v == e[k]
           z == <<v>>
<1>1. x \in Seq(S) /\ SubSeq(e, 1, k) = Append(x, v)
  BY FirstOnes
<1>2. v \in S
  OBVIOUS
<1> HIDE DEF x, v
<1>3. Append(x, v) = x \o z /\ z \in Seq(S)
  BY <1>1, <1>2
<1> HIDE DEF z
<1>4. Associate(out, x, z)
  BY <1>1, <1>3, Associative
<1> QED BY <1>1, <1>3, <1>4 DEF Associate, x, v, z

\* An element is read back.
LEMMA BackElem ==
    ASSUME NEW b, NEW r, NEW w \in Writers, NEW c, NEW out \in Seq(Outs), NEW elem \in Seq(Prims),
           NEW e, ElemFits(elem, e), Back(r, b, w, c, out), Holds(b, WriteElem(w, elem, e), c)
    PROVE  Back(ReadElem(r, elem), b, WriteElem(w, elem, e), c, out \o e)
<1> DEFINE n == Len(elem)
           R == Readers(b)
           u == WriteElem(w, elem, e)
           o(k) == out \o SubSeq(e, 1, k)
<1>0. b \in Seq(Nat) /\ r \in R
  BY Zenon DEF Holds, Back
<1>1. PICK W : WriteElemRun(W, elem, e, Writers, w, n) /\ Growing(W, n)
  BY WriteElemSteps
<1>2. /\ n \in Nat /\ DOMAIN elem = 1..n /\ e \in Seq(Outs) /\ Len(e) = n
      /\ \A i \in 1..n : elem[i] \in Prims /\ Fits(elem[i], e[i])
  BY ElemFitsIs
<1>3. \A s \in R, t \in Prims : ReadOne(s, t) \in R
  BY <1>0, ReadOneIs, Zenon DEF Reads
<1>4. SubSeq(e, 1, 0) = << >> /\ SubSeq(e, 1, n) = e /\ out \o << >> = out
  BY <1>2
<1> HIDE DEF n, R, u
<1>5. ReadElemIn(elem, R, n)
  BY <1>2, <1>3 DEF ReadElemIn
<1>6. PICK F : ReadElemRun(F, elem, R, r, n)
  BY <1>0, <1>5, ReadElemFold
<1>7. /\ F \in [0..n -> R] /\ F[0] = r /\ F[n] = ReadElem(r, elem)
      /\ \A k \in 1..n : F[k] = ReadOne(F[k - 1], elem[k])
  BY <1>6 DEF ReadElemRun
<1>8. /\ W \in [0..n -> Writers] /\ W[0] = w /\ W[n] = u
      /\ \A k \in 1..n : W[k] = WriteOne(W[k - 1], elem[k], e[k])
  BY <1>1 DEF WriteElemRun, u
<1>9. \A k \in 0..n : Holds(b, W[k], c)
  <2>1. \A k \in 0..n : Grown(W[k], u)
    BY <1>1, <1>8, GrownRun
  <2>2. Holds(b, u, c)
    BY DEF u
  <2> QED BY <2>1, <2>2, HoldsLess
<1> DEFINE P == {k \in 0..n : Back(F[k], b, W[k], c, o(k))}
<1>10. 0 \in P
  <2>1. 0 \in 0..n
    BY <1>2
  <2>2. o(0) = out
    BY <1>4
  <2> QED BY <1>7, <1>8, <2>1, <2>2, Zenon
<1>11. ASSUME NEW k \in 1..n, k - 1 \in P PROVE k \in P
  <2> DEFINE j == k - 1
             x == o(j)
             v == e[k]
             t == elem[k]
  <2>1. k \in 0..n /\ j \in 0..n
    BY <1>2
  <2>2. Back(F[j], b, W[j], c, x)
    BY <1>11
  <2>3. W[j] \in Writers /\ t \in Prims /\ Fits(t, v)
    BY <1>2, <1>8, <2>1
  <2>4. W[k] = WriteOne(W[j], t, v) /\ F[k] = ReadOne(F[j], t)
    BY <1>7, <1>8
  <2>5. x \o <<v>> = o(k)
    BY <1>2, Beginnings
  <2> HIDE DEF j, x, v, t, P
  <2>6. Holds(b, WriteOne(W[j], t, v), c)
    BY <1>9, <2>1, <2>4
  <2>7. Back(ReadOne(F[j], t), b, WriteOne(W[j], t, v), c, x \o <<v>>)
    BY <2>2, <2>3, <2>6, BackOne
  <2> QED BY <2>1, <2>4, <2>5, <2>7 DEF P
<1> HIDE DEF P
<1>12. n \in P
  <2>1. n \in 0..n
    BY <1>2
  <2> QED BY <1>2, <1>10, <1>11, <2>1, UpTo
<1> QED BY <1>4, <1>7, <1>8, <1>12 DEF P, u

\* What is flattened has the elements of its parts.
LEMMA FlattenSeqIn ==
    ASSUME NEW S, NEW ss \in Seq(Seq(S))
    PROVE  FlattenSeq(ss) \in Seq(S)
<1> DEFINE P == {tt \in Seq(Seq(S)) : FlattenSeq(tt) \in Seq(S)}
<1>1. << >> \in P
  <2>1. << >> \in Seq(Seq(S)) /\ << >> \in Seq(S)
    OBVIOUS
  <2>2. FlattenSeq(<< >>) \in Seq(S)
    BY <2>1, FlattenSeqEmpty, Zenon
  <2> QED BY <2>1, <2>2, Zenon
<1>2. \A tt \in Seq(Seq(S)), s \in Seq(S) : tt \in P => Append(tt, s) \in P
  <2> SUFFICES ASSUME NEW tt \in Seq(Seq(S)), NEW s \in Seq(S), FlattenSeq(tt) \in Seq(S)
               PROVE  Append(tt, s) \in Seq(Seq(S)) /\ FlattenSeq(Append(tt, s)) \in Seq(S)
    OBVIOUS
  <2>1. FlattenSeq(Append(tt, s)) = FlattenSeq(tt) \o s
    BY FlattenSeqAppend
  <2> QED BY <2>1
<1> HIDE DEF P
<1>3. Seq(Seq(S)) \subseteq P
  BY <1>1, <1>2, SeqInductionSet
<1> QED BY <1>3 DEF P

\* What is flattened, one part further.
LEMMA FlatBeginnings ==
    ASSUME NEW S, NEW ss \in Seq(Seq(S)), NEW out \in Seq(S), NEW k \in 1..Len(ss)
    PROVE  /\ FlattenSeq(SubSeq(ss, 1, k - 1)) \in Seq(S)
           /\ (out \o FlattenSeq(SubSeq(ss, 1, k - 1))) \o ss[k] = out \o FlattenSeq(SubSeq(ss, 1, k))
<1> DEFINE x == SubSeq(ss, 1, k - 1)
           y == SubSeq(ss, 1, k)
           s == ss[k]
           f == FlattenSeq(x)
<1>1. x \in Seq(Seq(S)) /\ y = Append(x, s)
  BY FirstOnes
<1>2. s \in Seq(S)
  OBVIOUS
<1> HIDE DEF x, y, s
<1>3. f \in Seq(S) /\ FlattenSeq(y) = f \o s
  BY <1>1, <1>2, FlattenSeqIn, FlattenSeqAppend
<1> HIDE DEF f
<1>4. Associate(out, f, s)
  BY <1>2, <1>3, Associative
<1> QED BY <1>3, <1>4 DEF Associate, x, y, s, f

\* The values of a member.
ValuesFit(elem, val) ==
    val \in Seq(Seq(Outs)) /\ \A j \in 1..Len(val) : ElemFits(elem, val[j])

\* The elements of a member have values of its type.
LEMMA ValuesFitIs ==
    ASSUME NEW elem, NEW val, ValuesFit(elem, val), NEW n, n = Len(val)
    PROVE  /\ n \in Nat /\ DOMAIN val = 1..n /\ val \in Seq(Seq(Outs))
           /\ \A j \in 1..n : ElemFits(elem, val[j]) /\ val[j] \in Seq(Outs)
<1>1. val \in Seq(Seq(Outs)) /\ \A j \in 1..n : ElemFits(elem, val[j])
  BY DEF ValuesFit
<1> QED BY <1>1

\* The elements of a member are written one behind the other.
LEMMA WriteAllSteps ==
    ASSUME NEW elem \in Seq(Prims), NEW val, ValuesFit(elem, val), NEW w \in Writers,
           NEW n, n = Len(val)
    PROVE  \E W : WriteManyRun(W, elem, val, Writers, w, n) /\ Growing(W, n)
<1>1. n \in Nat /\ DOMAIN val = 1..n /\ \A i \in 1..n : ElemFits(elem, val[i])
  BY ValuesFitIs
<1>2. \A u \in Writers, i \in 1..n : WriteElem(u, elem, val[i]) \in Writers
                                     /\ Grown(u, WriteElem(u, elem, val[i]))
  BY <1>1, WriteElemIs
<1>3. WriteManyIn(elem, val, Writers, n)
  BY <1>1, <1>2 DEF WriteManyIn
<1>4. PICK W : WriteManyRun(W, elem, val, Writers, w, n)
  BY <1>3, WriteManyFold
<1>5. W \in [0..n -> Writers] /\ \A k \in 1..n : W[k] = WriteElem(W[k - 1], elem, val[k])
  BY <1>4 DEF WriteManyRun
<1>6. \A k \in 1..n : k - 1 \in 0..n
  BY <1>1
<1>7. \A k \in 1..n : Grown(W[k - 1], W[k])
  BY <1>2, <1>5, <1>6
<1> QED BY <1>1, <1>4, <1>5, <1>7 DEF Growing

\* Each takes a byte at least.
LEMMA WriteAllIs ==
    ASSUME NEW elem \in Seq(Prims), elem # << >>, NEW val, ValuesFit(elem, val), NEW w \in Writers
    PROVE  LET u == WriteAll(w, elem, val)
           IN  u \in Writers /\ Grown(w, u) /\ Len(u) >= Len(w) + Len(val)
<1> DEFINE n == Len(val)
           u == WriteAll(w, elem, val)
<1>1. PICK W : WriteManyRun(W, elem, val, Writers, w, n) /\ Growing(W, n)
  BY WriteAllSteps
<1>2. n \in Nat /\ \A i \in 1..n : ElemFits(elem, val[i])
  BY ValuesFitIs
<1> HIDE DEF n, u
<1>3. /\ W \in [0..n -> Writers] /\ W[0] = w /\ W[n] = u
      /\ \A k \in 1..n : W[k] = WriteElem(W[k - 1], elem, val[k])
  BY <1>1 DEF WriteManyRun, u
<1>4. \A k \in 0..n : Grown(W[k], W[n]) /\ Grown(W[0], W[k])
  BY <1>1, GrownRun
<1>5. n \in 0..n /\ 0 \in 0..n
  BY <1>2
<1>6. \A k \in 0..n : Len(W[k]) \in Nat
  BY <1>3 DEF Writers
<1> DEFINE P == {k \in 0..n : Len(W[k]) >= Len(w) + k}
<1>7. 0 \in P
  BY <1>3, <1>5, <1>6
<1>8. ASSUME NEW k \in 1..n, k - 1 \in P PROVE k \in P
  <2>1. k \in 0..n /\ k - 1 \in 0..n /\ Len(W[k - 1]) >= Len(w) + (k - 1)
    BY <1>2, <1>8
  <2>2. Len(W[k]) > Len(W[k - 1])
    BY <1>2, <1>3, <2>1, WriteElemIs
  <2>3. Len(w) \in Nat /\ Len(W[k]) \in Nat /\ Len(W[k - 1]) \in Nat
    BY <1>3, <1>5, <1>6, <2>1
  <2>4. Len(W[k]) >= Len(w) + k
    BY <2>1, <2>2, <2>3
  <2> QED BY <2>1, <2>4
<1> HIDE DEF P
<1>9. n \in P
  BY <1>2, <1>5, <1>7, <1>8, UpTo
<1> QED BY <1>3, <1>4, <1>5, <1>9 DEF P, u, n

\* A reader that has failed stays behind.
LEMMA BackFailed ==
    ASSUME NEW b \in Seq(Nat), NEW r, NEW w, NEW c, NEW out, NEW u, NEW more,
           Back(r, b, w, c, out), ~r.ok, Grown(w, u)
    PROVE  Back(r, b, u, c, more)
<1>1. Len(w) \in Nat /\ Len(u) \in Nat /\ Len(w) <= Len(u) /\ Len(b) \in Nat
  BY DEF Grown, Writers
<1>2. Len(u) <= Len(b) => Len(w) <= Len(b)
  BY <1>1
<1> QED BY <1>2, Zenon DEF Back

\* Elements are read back one by one.
LEMMA BackAll ==
    ASSUME NEW b, NEW r, NEW w \in Writers, NEW c, NEW out \in Seq(Outs), NEW elem \in Seq(Prims),
           NEW val, ValuesFit(elem, val), Back(r, b, w, c, out), Holds(b, WriteAll(w, elem, val), c)
    PROVE  Back(ReadAll(r, elem, Len(val)), b, WriteAll(w, elem, val), c, out \o FlattenSeq(val))
<1> DEFINE n == Len(val)
           R == Readers(b)
           u == WriteAll(w, elem, val)
           o(k) == out \o FlattenSeq(SubSeq(val, 1, k))
<1>0. b \in Seq(Nat) /\ r \in R
  BY Zenon DEF Holds, Back
<1>1. PICK W : WriteManyRun(W, elem, val, Writers, w, n) /\ Growing(W, n)
  BY WriteAllSteps
<1>2. /\ n \in Nat /\ val \in Seq(Seq(Outs))
      /\ \A i \in 1..n : ElemFits(elem, val[i])
  BY ValuesFitIs
<1>3. \A s \in R : ReadNext(s, elem) \in R
  BY <1>0, ReadElemIs DEF ReadNext
<1>4. SubSeq(val, 1, n) = val /\ o(0) = out
  <2>1. SubSeq(val, 1, 0) = << >> /\ SubSeq(val, 1, n) = val /\ out \o << >> = out
    BY <1>2
  <2> QED BY <2>1, FlattenSeqEmpty
<1> HIDE DEF n, R, u
<1>5. ReadManyIn(elem, R, n)
  BY <1>2, <1>3 DEF ReadManyIn
<1>6. PICK F : ReadManyRun(F, elem, R, r, n)
  BY <1>0, <1>5, ReadManyFold
<1>7. /\ F \in [0..n -> R] /\ F[0] = r /\ F[n] = ReadAll(r, elem, n)
      /\ \A k \in 1..n : F[k] = ReadNext(F[k - 1], elem)
  BY <1>6 DEF ReadManyRun
<1>8. /\ W \in [0..n -> Writers] /\ W[0] = w /\ W[n] = u
      /\ \A k \in 1..n : W[k] = WriteElem(W[k - 1], elem, val[k])
  BY <1>1 DEF WriteManyRun, u
<1>9. \A k \in 0..n : Holds(b, W[k], c)
  <2>1. \A k \in 0..n : Grown(W[k], u)
    BY <1>1, <1>8, GrownRun
  <2>2. Holds(b, u, c)
    BY DEF u
  <2> QED BY <2>1, <2>2, HoldsLess
<1> DEFINE P == {k \in 0..n : Back(F[k], b, W[k], c, o(k))}
<1>10. 0 \in P
  <2>1. 0 \in 0..n
    BY <1>2
  <2> QED BY <1>4, <1>7, <1>8, <2>1, Zenon
<1>11. ASSUME NEW k \in 1..n, k - 1 \in P PROVE k \in P
  <2> DEFINE j == k - 1
             x == o(j)
             v == val[k]
  <2>1. k \in 0..n /\ j \in 0..n
    BY <1>2
  <2>2. Back(F[j], b, W[j], c, x)
    BY <1>11
  <2>3. W[j] \in Writers /\ ElemFits(elem, v)
    BY <1>2, <1>8, <2>1
  <2>4. W[k] = WriteElem(W[j], elem, v) /\ F[k] = ReadNext(F[j], elem)
    BY <1>7, <1>8
  <2>5. x \o v = o(k) /\ x \in Seq(Outs)
    <3>1. k \in 1..Len(val)
      BY DEF n
    <3>2. /\ FlattenSeq(SubSeq(val, 1, k - 1)) \in Seq(Outs)
          /\ (out \o FlattenSeq(SubSeq(val, 1, k - 1))) \o val[k] = out \o FlattenSeq(SubSeq(val, 1, k))
      BY <1>2, <3>1, FlatBeginnings
    <3>3. \A a, d \in Seq(Outs) : a \o d \in Seq(Outs)
      OBVIOUS
    <3>4. x \in Seq(Outs)
      BY <3>2, <3>3
    <3> QED BY <3>2, <3>4
  <2>6. Grown(W[j], W[k])
    BY <1>1 DEF Growing
  <2> HIDE DEF j, x, v, P, o
  <2>7. Holds(b, WriteElem(W[j], elem, v), c)
    BY <1>9, <2>1, <2>4
  <2>8. CASE F[j].ok
    <3>1. Back(ReadElem(F[j], elem), b, WriteElem(W[j], elem, v), c, x \o v)
      BY <2>2, <2>3, <2>5, <2>7, BackElem
    <3>2. F[k] = ReadElem(F[j], elem)
      BY <2>4, <2>8 DEF ReadNext
    <3> QED BY <2>1, <2>4, <2>5, <3>1, <3>2 DEF P
  <2>9. CASE ~F[j].ok
    <3>1. F[k] = F[j]
      BY <2>4, <2>9 DEF ReadNext
    <3>2. Back(F[j], b, W[k], c, o(k))
      BY <1>0, <2>2, <2>6, <2>9, BackFailed
    <3> QED BY <2>1, <3>1, <3>2 DEF P
  <2> QED BY <2>8, <2>9
<1> HIDE DEF P
<1>12. n \in P
  <2>1. n \in 0..n
    BY <1>2
  <2> QED BY <1>2, <1>10, <1>11, <2>1, UpTo
<1> QED BY <1>4, <1>7, <1>8, <1>12 DEF P, u, n

-----------------------------------------------------------------------------
(* Numbers copied in one piece.                                            *)

\* Pieces of s bytes laid one behind the other.
Laid(f, ss, s) ==
    /\ Len(f) = Len(ss) * s
    /\ \A j \in 1..Len(ss), i \in 1..s : f[(j - 1) * s + i] = ss[j][i]

\* Where the j-th of n pieces of s bytes is.
LEMMA Places ==
    ASSUME NEW s \in Sizes, NEW n \in Nat
    PROVE  /\ n * s \in Nat /\ (n + 1) * s = n * s + s /\ ((n + 1) - 1) * s = n * s /\ 0 * s = 0
           /\ n * s >= n
           /\ \A j \in 1..n, i \in 1..s : /\ (j - 1) * s + i \in 1..(n * s) /\ (j - 1) * s \in Nat
                                          /\ (j - 1) * s + s <= n * s
<1>1. CASE s = 1
  BY <1>1
<1>2. CASE s = 4
  BY <1>2
<1>3. CASE s = 8
  BY <1>3
<1> QED BY <1>1, <1>2, <1>3 DEF Sizes

\* One piece more.
LEMMA LaidStep ==
    ASSUME NEW S, NEW ss \in Seq(Seq(S)), NEW x \in Seq(S), NEW s \in Sizes, NEW f \in Seq(S),
           Len(x) = s, Laid(f, ss, s), NEW g, g = f \o x, NEW tt, tt = Append(ss, x)
    PROVE  Laid(g, tt, s)
<1> DEFINE n == Len(ss)
<1>1. n \in Nat /\ Len(tt) = n + 1 /\ tt[n + 1] = x /\ \A j \in 1..n : tt[j] = ss[j]
  OBVIOUS
<1>2. /\ Len(g) = Len(f) + Len(x) /\ Len(f) \in Nat
      /\ \A i \in 1..Len(f) : g[i] = f[i]
      /\ \A i \in 1..Len(x) : g[Len(f) + i] = x[i]
  BY Joined DEF Joins
<1>3. Len(f) = n * s /\ \A j \in 1..n, i \in 1..s : f[(j - 1) * s + i] = ss[j][i]
  BY DEF Laid
<1> HIDE DEF n
<1>4. /\ n * s \in Nat /\ (n + 1) * s = n * s + s /\ ((n + 1) - 1) * s = n * s
      /\ \A j \in 1..n, i \in 1..s : (j - 1) * s + i \in 1..(n * s)
  BY <1>1, Places
<1>5. Len(g) = Len(tt) * s
  BY <1>1, <1>2, <1>3, <1>4
<1>6. ASSUME NEW j \in 1..(n + 1), NEW i \in 1..s
      PROVE  g[(j - 1) * s + i] = tt[j][i]
  <2>1. CASE j = n + 1
    <3>1. (j - 1) * s + i = Len(f) + i
      BY <1>3, <1>4, <2>1
    <3>2. g[Len(f) + i] = x[i]
      BY <1>2
    <3> QED BY <1>1, <2>1, <3>1, <3>2
  <2>2. CASE j # n + 1
    <3>1. j \in 1..n
      BY <1>1, <2>2
    <3> DEFINE p == (j - 1) * s + i
    <3>2. p \in 1..Len(f) /\ f[p] = ss[j][i]
      BY <1>3, <1>4, <3>1
    <3> HIDE DEF p
    <3>3. g[p] = f[p] /\ tt[j] = ss[j]
      BY <1>1, <1>2, <3>1, <3>2
    <3> QED BY <3>2, <3>3 DEF p
  <2> QED BY <2>1, <2>2
<1> QED BY <1>1, <1>5, <1>6 DEF Laid

\* Pieces of one size are flattened one behind the other.
LEMMA FlattenUniform ==
    ASSUME NEW S, NEW ss \in Seq(Seq(S)), NEW s \in Sizes, \A j \in 1..Len(ss) : Len(ss[j]) = s
    PROVE  Laid(FlattenSeq(ss), ss, s)
<1> DEFINE P == {tt \in Seq(Seq(S)) :
                   (\A j \in 1..Len(tt) : Len(tt[j]) = s) => Laid(FlattenSeq(tt), tt, s)}
<1>1. << >> \in P
  <2>1. << >> \in Seq(Seq(S)) /\ Len(<< >>) = 0 /\ 1..0 = {} /\ 0 * s = 0
    BY DEF Sizes
  <2>2. Laid(<< >>, << >>, s)
    BY <2>1 DEF Laid
  <2> QED BY <2>1, <2>2, FlattenSeqEmpty
<1>2. ASSUME NEW tt \in Seq(Seq(S)), NEW x \in Seq(S), tt \in P PROVE Append(tt, x) \in P
  <2> DEFINE vv == Append(tt, x)
             n == Len(tt)
  <2>1. /\ vv \in Seq(Seq(S)) /\ Len(vv) = n + 1 /\ n \in Nat /\ vv[n + 1] = x
        /\ \A j \in 1..n : vv[j] = tt[j] /\ j \in 1..(n + 1)
    OBVIOUS
  <2> HIDE DEF vv
  <2>2. ASSUME \A j \in 1..Len(vv) : Len(vv[j]) = s PROVE Laid(FlattenSeq(vv), vv, s)
    <3>1. Len(x) = s /\ \A j \in 1..n : Len(tt[j]) = s
      <4>1. n + 1 \in 1..(n + 1)
        BY <2>1
      <4> QED BY <2>1, <2>2, <4>1
    <3>2. Laid(FlattenSeq(tt), tt, s)
      BY <1>2, <3>1
    <3> DEFINE f == FlattenSeq(tt)
               g == FlattenSeq(vv)
    <3>3. f \in Seq(S) /\ g = f \o x
      BY FlattenSeqIn, FlattenSeqAppend DEF vv
    <3> HIDE DEF f, g
    <3>4. Laid(g, vv, s)
      BY <3>1, <3>2, <3>3, LaidStep DEF f, vv
    <3> QED BY <3>4 DEF g
  <2> HIDE DEF P
  <2>3. vv \in P
    BY <2>1, <2>2 DEF P
  <2> QED BY <2>3 DEF vv
<1> HIDE DEF P
<1>3. Seq(Seq(S)) \subseteq P
  BY <1>1, <1>2, SeqInductionSet
<1> QED BY <1>3 DEF P

\* The values of a member whose elements are one number each.
LEMMA OneNumberEach ==
    ASSUME NEW t \in Numeric, NEW elem, elem \in Seq(Prims), Len(elem) = 1, elem[1] = t,
           NEW val, ValuesFit(elem, val)
    PROVE  /\ \A j \in 1..Len(val) : /\ val[j][1] \in Nat /\ val[j][1] < Limit(t)
                                     /\ Len(val[j]) = 1
           /\ Len(FlattenSeq(val)) = Len(val) /\ FlattenSeq(val) \in Seq(Outs)
           /\ \A j \in 1..Len(val) : FlattenSeq(val)[j] = val[j][1]
<1> DEFINE n == Len(val)
<1>1. n \in Nat /\ val \in Seq(Seq(Outs)) /\ \A j \in 1..n : ElemFits(elem, val[j])
  BY ValuesFitIs
<1>2. t # "string"
  BY DEF Numeric
<1>3. ASSUME NEW j \in 1..n PROVE val[j][1] \in Nat /\ val[j][1] < Limit(t) /\ Len(val[j]) = 1
  <2>1. ElemFits(elem, val[j])
    BY <1>1
  <2>2. Len(val[j]) = 1 /\ Fits(elem[1], val[j][1])
    BY <2>1 DEF ElemFits
  <2> QED BY <1>2, <2>2 DEF Fits
<1> DEFINE f == FlattenSeq(val)
<1>4. Laid(f, val, 1) /\ f \in Seq(Outs)
  BY <1>1, <1>3, FlattenUniform, FlattenSeqIn DEF Sizes
<1> HIDE DEF n, f
<1>5. Len(f) = n * 1 /\ \A j \in 1..n, i \in 1..1 : f[(j - 1) * 1 + i] = val[j][i]
  BY <1>4 DEF Laid, n
<1>6. n * 1 = n /\ 1 \in 1..1 /\ \A j \in 1..n : (j - 1) * 1 + 1 = j
  BY <1>1
<1>7. \A j \in 1..n : f[j] = val[j][1]
  BY <1>5, <1>6
<1> QED BY <1>3, <1>4, <1>5, <1>6, <1>7 DEF n, f

\* val has n elements that begin with a number.
NumbersIn(val, n) ==
    /\ n \in Nat /\ Len(val) = n /\ DOMAIN val = 1..n
    /\ \A j \in 1..n : val[j][1] \in Nat

\* f has the bytes of these numbers, behind its first at ones.
Put(f, at, t, val, n) ==
    \A j \in 1..n, i \in 1..SizeOf(t) :
        f[at + ((j - 1) * SizeOf(t) + i)] = Bytes(val[j][1], SizeOf(t))[i]

\* The bytes of the numbers of a member.
LEMMA AllBytesIs ==
    ASSUME NEW t \in Numeric, NEW val, NEW n, NumbersIn(val, n)
    PROVE  /\ AllBytes(t, val) \in Seq(Nat) /\ Len(AllBytes(t, val)) = n * SizeOf(t)
           /\ Put(AllBytes(t, val), 0, t, val, n)
<1> DEFINE s == SizeOf(t)
           ss == [j \in DOMAIN val |-> Bytes(val[j][1], s)]
<1>0. n \in Nat /\ DOMAIN val = 1..n /\ \A j \in 1..n : val[j][1] \in Nat
  BY DEF NumbersIn
<1>1. s \in Sizes
  BY SizeOfIs
<1>2. \A j \in 1..n : Bytes(val[j][1], s) \in Seq(Nat) /\ Len(Bytes(val[j][1], s)) = s
  BY <1>0, <1>1, BytesIs
<1>3. ss \in [1..n -> Seq(Nat)] /\ \A j \in 1..n : ss[j] = Bytes(val[j][1], s)
  BY <1>0, <1>2
<1>4. AllBytes(t, val) = FlattenSeq(ss)
  BY DEF AllBytes
<1> HIDE DEF ss, s
<1>5. ss \in Seq(Seq(Nat)) /\ Len(ss) = n
  BY <1>0, <1>3
<1>6. \A j \in 1..Len(ss) : Len(ss[j]) = s
  BY <1>2, <1>3, <1>5
<1> DEFINE f == FlattenSeq(ss)
<1>7. Laid(f, ss, s) /\ f \in Seq(Nat)
  BY <1>1, <1>5, <1>6, FlattenUniform, FlattenSeqIn
<1>8. AllBytes(t, val) = f
  BY <1>4
<1> HIDE DEF f
<1>9. Len(f) = n * s /\ \A j \in 1..n, i \in 1..s : f[(j - 1) * s + i] = ss[j][i]
  BY <1>5, <1>7 DEF Laid
<1>10. ASSUME NEW j \in 1..n, NEW i \in 1..s
       PROVE  f[0 + ((j - 1) * s + i)] = Bytes(val[j][1], s)[i]
  <2>1. f[(j - 1) * s + i] = ss[j][i]
    BY <1>9
  <2>2. ss[j] = Bytes(val[j][1], s)
    BY <1>3
  <2>3. 0 + ((j - 1) * s + i) = (j - 1) * s + i
    BY <1>0, <1>1, Places
  <2> QED BY <2>1, <2>2, <2>3, Zenon
<1>11. Put(f, 0, t, val, n)
  BY <1>10, Zenon DEF Put, s
<1> QED BY <1>7, <1>8, <1>9, <1>11, Zenon DEF s

\* The numbers of a member that is copied in one piece are written at the next boundary.
LEMMA BulkWriteIs ==
    ASSUME NEW w \in Writers, NEW t \in Numeric, NEW val, NEW n, NumbersIn(val, n)
    PROVE  LET s == SizeOf(t)
               u == write_aligned(w, AllBytes(t, val), s)
               at == Boundary(Len(w), s)
           IN  /\ u \in Writers /\ Grown(w, u) /\ Len(u) = at + n * s /\ at \in Nat
               /\ at >= Len(w) /\ Put(u, at, t, val, n)
               /\ py_wpad(w, s) \o AllBytes(t, val) = u
<1> DEFINE s == SizeOf(t)
           a == WAlign(w, s)
           bs == AllBytes(t, val)
           u == write_aligned(w, bs, s)
           at == Boundary(Len(w), s)
<1>0. n \in Nat
  BY DEF NumbersIn
<1>1. s \in Sizes
  BY SizeOfIs
<1>2. a \in Writers /\ Len(a) = at /\ Grown(w, a) /\ py_wpad(w, s) = a
  BY <1>1, WAlignIs
<1>3. bs \in Seq(Nat) /\ Len(bs) = n * s /\ Put(bs, 0, t, val, n)
  BY AllBytesIs
<1>4. u = a \o bs /\ py_wpad(w, s) \o bs = u
  BY <1>2 DEF write_aligned
<1>5. at \in Nat /\ at >= Len(w)
  <2>1. Len(w) \in Nat /\ Len(w) >= 4
    BY DEF Writers
  <2> QED BY <1>1, <2>1, BoundaryIs
<1> HIDE DEF a, bs, u, s, at
<1>6. /\ u \in Writers /\ Grown(a, u) /\ Len(u) = Len(a) + Len(bs)
      /\ \A i \in 1..Len(bs) : u[Len(a) + i] = bs[i]
  <2>1. a \in Writers /\ bs \in Seq(Nat) /\ u = a \o bs
    BY <1>2, <1>3, <1>4, Zenon
  <2> QED BY <2>1, Appended, Zenon
<1>7. Grown(w, u)
  BY <1>2, <1>6, GrownTwice
<1>8. ASSUME NEW j \in 1..n, NEW i \in 1..s
      PROVE  u[at + ((j - 1) * s + i)] = Bytes(val[j][1], s)[i]
  <2> DEFINE p == (j - 1) * s + i
  <2>1. p \in 1..Len(bs) /\ 0 + p = p
    <3>1. (j - 1) * s + i \in 1..(n * s) /\ n * s \in Nat
      BY <1>0, <1>1, Places
    <3> HIDE DEF p
    <3>2. p \in 1..(n * s) /\ n * s \in Nat
      BY <3>1 DEF p
    <3>3. p \in Nat
      BY <3>2
    <3> QED BY <1>3, <3>2, <3>3
  <2>2. bs[0 + p] = Bytes(val[j][1], s)[i]
    BY <1>3 DEF Put, s
  <2> HIDE DEF p
  <2>3. u[at + p] = bs[p]
    BY <1>2, <1>6, <2>1
  <2> QED BY <2>1, <2>2, <2>3, Zenon DEF p
<1>9. Len(u) = at + n * s
  BY <1>2, <1>3, <1>6
<1>10. Put(u, at, t, val, n)
  BY <1>8, Zenon DEF Put, s
<1>11. /\ u \in Writers /\ Grown(w, u) /\ Len(u) = at + n * s /\ at \in Nat
       /\ at >= Len(w) /\ Put(u, at, t, val, n) /\ py_wpad(w, s) \o bs = u
  BY <1>4, <1>5, <1>6, <1>7, <1>9, <1>10, Zenon
<1> QED BY <1>11, Zenon DEF s, u, bs, at

\* They are numbers of type t.
SmallNumbers(t, val, n) == \A j \in 1..n : val[j][1] \in Nat /\ val[j][1] < Limit(t)

\* The numbers a reader finds where they were written.
LEMMA BulkFound ==
    ASSUME NEW b, NEW u, NEW c, Holds(b, u, c), NEW t \in Numeric, NEW val, NEW n \in Nat,
           NEW at \in Nat, Len(u) = at + n * SizeOf(t), Len(u) <= c,
           SmallNumbers(t, val, n), Put(u, at, t, val, n)
    PROVE  \A j \in 1..n : NumbersAt(b, at, t, n)[j] = val[j][1]
<1> DEFINE s == SizeOf(t)
<1>1. s \in Sizes /\ s \in Nat
  BY SizeOfIs DEF Sizes
<1> SUFFICES ASSUME NEW j \in 1..n PROVE NumbersAt(b, at, t, n)[j] = val[j][1]
  OBVIOUS
<1> DEFINE p == at + (j - 1) * s
           bs == BytesAt(b, p, s)
<1> HIDE DEF s
<1>2. /\ (j - 1) * s \in Nat /\ (j - 1) * s + s <= n * s /\ n * s \in Nat
      /\ \A i \in 1..s : (j - 1) * s + i \in 1..(n * s)
  BY <1>1, Places DEF Sizes
<1>3. p \in Nat /\ p + s <= Len(u) /\ p + s <= c
  <2>1. c \in Nat
    BY DEF Holds
  <2> DEFINE x == (j - 1) * s
             y == n * s
  <2>2. x \in Nat /\ y \in Nat /\ x + s <= y /\ Len(u) = at + y
    BY <1>2 DEF s
  <2>3. p = at + x
    OBVIOUS
  <2> HIDE DEF x, y, p
  <2> QED BY <1>1, <2>1, <2>2, <2>3
<1>4. \A i \in 1..s : p + i = at + ((j - 1) * s + i)
  BY <1>1, <1>2
<1> HIDE DEF p
<1>5. Found(bs, u, p, s)
  BY <1>1, <1>3, FoundBytes
<1>6. bs \in [1..s -> Nat] /\ \A i \in 1..s : bs[i] = u[p + i]
  BY <1>5 DEF Found
<1> HIDE DEF bs
<1>7. \A i \in 1..s : bs[i] = Bytes(val[j][1], s)[i]
  BY <1>4, <1>6 DEF s, Put
<1>8. Decoded(t, bs) = val[j][1]
  BY <1>6, <1>7, Decodes DEF s, SmallNumbers
<1>9. NumbersAt(b, at, t, n)[j] = Decoded(t, bs)
  BY DEF NumbersAt, bs, p, s
<1> QED BY <1>8, <1>9

\* They are read back in one piece.
LEMMA BackBulk ==
    ASSUME NEW b, NEW r, NEW w \in Writers, NEW c, NEW out \in Seq(Outs), NEW t \in Numeric,
           NEW elem \in Seq(Prims), Len(elem) = 1, elem[1] = t, NEW val, ValuesFit(elem, val),
           Back(r, b, w, c, out), Holds(b, write_aligned(w, AllBytes(t, val), SizeOf(t)), c)
    PROVE  Back(read_bytes(RAlign(r, SizeOf(t)), t, Len(val)), b,
                write_aligned(w, AllBytes(t, val), SizeOf(t)), c, out \o FlattenSeq(val))
<1> DEFINE s == SizeOf(t)
           n == Len(val)
           u == write_aligned(w, AllBytes(t, val), s)
           q == read_bytes(RAlign(r, s), t, n)
           at == Boundary(Len(w), s)
           to == Boundary(r.pos, s) + n * s
           nums == NumbersAt(b, Boundary(r.pos, s), t, n)
           more == FlattenSeq(val)
<1>1. n \in Nat /\ DOMAIN val = 1..n
  BY ValuesFitIs
<1>2. /\ \A j \in 1..n : val[j][1] \in Nat /\ val[j][1] < Limit(t)
      /\ Len(more) = n /\ more \in Seq(Outs) /\ \A j \in 1..n : more[j] = val[j][1]
  BY OneNumberEach
<1>3. u \in Writers /\ Grown(w, u) /\ Len(u) = at + n * s /\ at \in Nat /\ Put(u, at, t, val, n)
  <2>1. NumbersIn(val, n)
    BY <1>1, <1>2 DEF NumbersIn
  <2> HIDE DEF n
  <2> QED BY <2>1, BulkWriteIs
<1>4. b \in Seq(Nat) /\ c \in Nat /\ r \in Readers(b)
  BY DEF Holds, Back
<1>5. Reads(q, r, b, to, nums)
  BY <1>1, <1>4, BulkReadIs
<1>5a. r.utf8 /\ q.ok => q.utf8
  <2> DEFINE a == RAlign(r, s)
  <2>1. a \in Readers(b) /\ a.utf8 = r.utf8
    BY <1>4, SizeOfIs, RAlignIs
  <2> HIDE DEF a, n
  <2>2. read_bytes(a, t, n).utf8 = a.utf8
    BY <1>1, <1>4, <2>1, ReadBytesKeeps
  <2> QED BY <2>1, <2>2 DEF a
<1>6. Holds(b, u, c)
  OBVIOUS
<1> HIDE DEF n, more, u, q, at
<1>8. ASSUME Len(u) <= c PROVE NumbersAt(b, at, t, n) = more
  <2> DEFINE ns == NumbersAt(b, at, t, n)
  <2>4. \A j \in 1..n : ns[j] = val[j][1]
    <3>1. Len(u) = at + n * SizeOf(t) /\ SmallNumbers(t, val, n)
      BY <1>2, <1>3 DEF SmallNumbers
    <3> QED BY <1>1, <1>3, <1>6, <1>8, <3>1, BulkFound
  <2>5. ns \in Seq(Nat) /\ Len(ns) = n
    BY <1>1, <1>3, <1>4, NumbersAtSeq
  <2> HIDE DEF ns
  <2>6. ns \in Seq(Outs)
    BY <2>5 DEF Outs
  <2>7. \A j \in 1..Len(ns) : ns[j] = more[j]
    BY <1>2, <2>4, <2>5
  <2>8. ns = more
    BY <1>2, <2>5, <2>6, <2>7, SeqEqual
  <2> QED BY <2>8 DEF ns
<1>9. r.ok => r.pos = Len(w)
  BY Zenon DEF Back
<1>10. r.ok => to = Len(u) /\ (Len(u) <= c => nums = more)
  BY <1>3, <1>8, <1>9, Zenon DEF at
<1> HIDE DEF to, nums
<1>11. r.ok => /\ to <= Len(b) <=> Len(u) <= Len(b)
               /\ Len(u) <= Len(b) => to = Len(u)
               /\ Len(u) <= c => nums = more
  BY <1>10, Zenon
<1>12. Back(q, b, u, c, out \o more)
  BY <1>3, <1>4, <1>5, <1>5a, <1>11, ReadsBack
<1> QED BY <1>12 DEF q, u, n, more, s

-----------------------------------------------------------------------------
(* Members and messages.                                                   *)

\* A member's value.
MemberFits(m, val) ==
    ValuesFit(m.elem, val) /\ IF m.many = "seq" THEN Len(val) < Huge ELSE Len(val) = m.n

\* What a reader of it puts out.
FlatMember(m, val) ==
    (IF m.many = "seq" THEN <<Len(val)>> ELSE << >>) \o FlattenSeq(val)

\* emit_serialize writes the length of a sequence and then the elements.
Count(w, m, val) == IF m.many = "seq" THEN write(WAlign(w, 4), "uint32", Len(val)) ELSE w

\* The elements alone.
Elements(w, m, val) ==
    IF ~Bulk(m) THEN WriteAll(w, m.elem, val)
    ELSE IF m.many = "seq" /\ val = << >> THEN w
    ELSE write_aligned(w, AllBytes(m.elem[1], val), SizeOf(m.elem[1]))

\* emit_serialize is these two.
LEMMA SerializeMember ==
    ASSUME NEW w, NEW m, NEW val
    PROVE  emit_serialize(w, m, val) = Elements(Count(w, m, val), m, val)
<1> DEFINE k == Count(w, m, val)
<1>1. emit_serialize(w, m, val) =
        IF ~Bulk(m) THEN FoldLeft(LAMBDA b, e : WriteElem(b, m.elem, e), k, val)
        ELSE IF m.many = "seq" /\ val = << >> THEN k
        ELSE write_aligned(k, AllBytes(m.elem[1], val), SizeOf(m.elem[1]))
  BY DEF emit_serialize, Count, FoldLeft, MapThenFoldSet
<1>2. FoldLeft(LAMBDA b, e : WriteElem(b, m.elem, e), k, val) = WriteAll(k, m.elem, val)
  BY DEF WriteAll, FoldLeft, MapThenFoldSet
<1> HIDE DEF k
<1> QED BY <1>1, <1>2, Zenon DEF Elements, k

\* One number is in every element of a member that is copied in one piece.
LEMMA BulkFits ==
    ASSUME NEW m \in Members, Bulk(m), NEW val, ValuesFit(m.elem, val)
    PROVE  /\ m.elem[1] \in Numeric /\ Len(m.elem) = 1 /\ NumbersIn(val, Len(val))
           /\ m.many # "one"
<1>1. m.elem[1] \in Numeric /\ m.elem \in Seq(Prims)
  BY MemberFields
<1>2. Len(m.elem) = 1 /\ m.many # "one"
  BY DEF Bulk
<1> DEFINE t == m.elem[1]
<1>3. \A j \in 1..Len(val) : val[j][1] \in Nat
  BY <1>1, <1>2, OneNumberEach
<1>4. Len(val) \in Nat /\ DOMAIN val = 1..Len(val)
  BY ValuesFitIs
<1> QED BY <1>1, <1>2, <1>3, <1>4 DEF NumbersIn

\* The elements are written behind what was there, a byte each at least.
LEMMA ElementsIs ==
    ASSUME NEW w \in Writers, NEW m \in Members, NEW val, ValuesFit(m.elem, val)
    PROVE  LET u == Elements(w, m, val)
           IN  u \in Writers /\ Grown(w, u) /\ Len(u) >= Len(w) + Len(val) /\ Len(val) \in Nat
<1> DEFINE u == Elements(w, m, val)
           n == Len(val)
<1>1. m.elem \in Seq(Prims) /\ m.elem # << >> /\ n \in Nat /\ Len(w) \in Nat
  BY ValuesFitIs, MemberFields DEF Members, Writers
<1>2. CASE ~Bulk(m)
  <2>1. u = WriteAll(w, m.elem, val)
    BY <1>2, Zenon DEF Elements
  <2> HIDE DEF u
  <2>2. u \in Writers /\ Grown(w, u) /\ Len(u) >= Len(w) + Len(val)
    BY <1>1, <2>1, WriteAllIs
  <2> QED BY <1>1, <2>2 DEF u
<1>3. CASE Bulk(m) /\ m.many = "seq" /\ val = << >>
  <2>1. u = w
    BY <1>3, Zenon DEF Elements
  <2> HIDE DEF u
  <2>2. n = 0
    BY <1>3
  <2>3. u \in Writers /\ Grown(w, u) /\ Len(u) >= Len(w) + Len(val)
    BY <1>1, <2>1, <2>2, GrownSelf
  <2> QED BY <1>1, <2>3 DEF u
<1>4. CASE Bulk(m) /\ ~(m.many = "seq" /\ val = << >>)
  <2> DEFINE t == m.elem[1]
             at == Boundary(Len(w), SizeOf(t))
  <2>1. u = write_aligned(w, AllBytes(t, val), SizeOf(t))
    BY <1>4, Zenon DEF Elements
  <2> HIDE DEF u
  <2>2. t \in Numeric /\ NumbersIn(val, n)
    BY <1>4, BulkFits
  <2> HIDE DEF t, n
  <2>3. /\ u \in Writers /\ Grown(w, u) /\ Len(u) = at + n * SizeOf(t) /\ at \in Nat
        /\ at >= Len(w)
    BY <2>1, <2>2, BulkWriteIs
  <2> HIDE DEF at
  <2>4. n * SizeOf(t) \in Nat /\ n * SizeOf(t) >= n
    BY <1>1, <2>2, SizeOfIs, Places
  <2>5. Len(u) >= Len(w) + n
    BY <1>1, <2>3, <2>4
  <2> QED BY <1>1, <2>3, <2>5 DEF u, n
<1> QED BY <1>2, <1>3, <1>4

\* The length of a sequence is written at the next boundary.
LEMMA CountWriteIs ==
    ASSUME NEW w \in Writers, NEW n \in Nat
    PROVE  LET u == write(WAlign(w, 4), "uint32", n)
               at == Boundary(Len(w), 4)
           IN  /\ u \in Writers /\ Grown(w, u) /\ Len(u) = at + 4 /\ at \in Nat /\ at >= 4
               /\ (at - 4) % 4 = 0
               /\ \A i \in 1..4 : u[at + i] = Bytes(n, 4)[i]
<1> DEFINE a == WAlign(w, 4)
           u == write(a, "uint32", n)
           at == Boundary(Len(w), 4)
<1>0. SizeOf("uint32") = 4 /\ "uint32" \in Numeric /\ 4 \in Sizes
  BY SizeOfIs DEF Numeric, Sizes
<1>1. Len(w) \in Nat /\ Len(w) >= 4
  BY DEF Writers
<1>2. a \in Writers /\ Len(a) = at /\ Grown(w, a)
  BY <1>0, WAlignIs
<1>3. Boundary(at, 4) = at /\ (at - 4) % 4 = 0 /\ at \in Nat /\ at >= 4
  BY <1>0, <1>1, BoundaryTwice, BoundaryIs
<1> HIDE DEF a, at
<1>4. LET v == write(a, "uint32", n)
          s == SizeOf("uint32")
          to == Boundary(Len(a), s)
      IN  /\ v \in Writers /\ Grown(a, v) /\ Len(v) = to + s /\ to \in Nat /\ to >= Len(a)
          /\ \A i \in 1..s : v[to + i] = Bytes(n, s)[i]
          /\ py_number(a, "uint32", n) = v
  BY <1>0, <1>2, WriteIs
<1> HIDE DEF u
<1>5. /\ u \in Writers /\ Grown(a, u) /\ Len(u) = at + 4
      /\ \A i \in 1..4 : u[at + i] = Bytes(n, 4)[i]
  BY <1>0, <1>2, <1>3, <1>4, Zenon DEF u
<1>6. Grown(w, u)
  BY <1>2, <1>5, GrownTwice
<1>7. /\ u \in Writers /\ Grown(w, u) /\ Len(u) = at + 4 /\ at \in Nat /\ at >= 4
      /\ (at - 4) % 4 = 0 /\ \A i \in 1..4 : u[at + i] = Bytes(n, 4)[i]
  BY <1>3, <1>5, <1>6, Zenon
<1> QED BY <1>7, Zenon DEF u, a, at

\* A member is written behind what was there.
LEMMA SerializeMemberIs ==
    ASSUME NEW w \in Writers, NEW m \in Members, NEW val, ValuesFit(m.elem, val)
    PROVE  /\ emit_serialize(w, m, val) \in Writers /\ Grown(w, emit_serialize(w, m, val))
<1> DEFINE k == Count(w, m, val)
           u == Elements(k, m, val)
<1>0. Len(val) \in Nat
  BY ValuesFitIs
<1>1. k \in Writers /\ Grown(w, k)
  <2>1. CASE m.many = "seq"
    <3>1. k = write(WAlign(w, 4), "uint32", Len(val))
      BY <2>1, Zenon DEF Count
    <3> QED BY <1>0, <3>1, CountWriteIs
  <2>2. CASE m.many # "seq"
    <3>1. k = w
      BY <2>2, Zenon DEF Count
    <3> QED BY <3>1, GrownSelf
  <2> QED BY <2>1, <2>2
<1> HIDE DEF k
<1>2. u \in Writers /\ Grown(k, u)
  BY <1>1, ElementsIs
<1> HIDE DEF u
<1>3. Grown(w, u)
  BY <1>1, <1>2, GrownTwice
<1>4. emit_serialize(w, m, val) = u
  BY SerializeMember DEF u, k
<1> QED BY <1>2, <1>3, <1>4

\* Joining nothing changes nothing.
LEMMA JoinNothing ==
    ASSUME NEW S, NEW out \in Seq(S)
    PROVE  out \o << >> = out /\ << >> \o out = out
OBVIOUS

\* A member's elements are read back.
LEMMA BackElements ==
    ASSUME NEW b, NEW r, NEW w \in Writers, NEW c, NEW out \in Seq(Outs), NEW m \in Members,
           NEW val, ValuesFit(m.elem, val), Back(r, b, w, c, out), Holds(b, Elements(w, m, val), c)
    PROVE  Back(ReadMany(r, m, Len(val)), b, Elements(w, m, val), c, out \o FlattenSeq(val))
<1> DEFINE n == Len(val)
           u == Elements(w, m, val)
           q == ReadMany(r, m, n)
<1>1. m.elem \in Seq(Prims) /\ n \in Nat /\ val \in Seq(Seq(Outs))
  BY MemberFields, ValuesFitIs
<1>2. CASE ~Bulk(m)
  <2>1. u = WriteAll(w, m.elem, val) /\ q = ReadAll(r, m.elem, Len(val))
    BY <1>2, ReadManyOneByOne, Zenon DEF Elements
  <2> HIDE DEF u, q
  <2>2. Holds(b, WriteAll(w, m.elem, val), c)
    BY <2>1 DEF u
  <2>3. Back(q, b, u, c, out \o FlattenSeq(val))
    BY <1>1, <2>1, <2>2, BackAll
  <2> QED BY <2>3 DEF u, q
<1>3. CASE Bulk(m) /\ m.many = "seq" /\ val = << >>
  <2>1. n = 0 /\ u = w
    BY <1>3 DEF Elements
  <2>2. q = r
    <3>1. ReadMany(r, m, 0) = r
      BY <1>3, ReadManyNone
    <3> QED BY <2>1, <3>1, Zenon
  <2>3. out \o FlattenSeq(val) = out
    BY <1>3, FlattenSeqEmpty, JoinNothing
  <2> HIDE DEF u, q
  <2> QED BY <2>1, <2>2, <2>3 DEF u, q
<1>4. CASE Bulk(m) /\ ~(m.many = "seq" /\ val = << >>)
  <2> DEFINE t == m.elem[1]
             e == m.elem
  <2>1. u = write_aligned(w, AllBytes(t, val), SizeOf(t))
    BY <1>4, Zenon DEF Elements
  <2>2. n = 0 => val = << >>
    BY <1>1, EmptySeq
  <2>3. q = read_bytes(RAlign(r, SizeOf(t)), t, Len(val))
    BY <1>4, <2>2, ReadManyBulk, Zenon
  <2>4. t \in Numeric /\ Len(e) = 1 /\ e[1] = t /\ e \in Seq(Prims) /\ ValuesFit(e, val)
    BY <1>1, <1>4, BulkFits
  <2>5. Holds(b, write_aligned(w, AllBytes(t, val), SizeOf(t)), c)
    BY <2>1
  <2> HIDE DEF u, q, t, n, e
  <2>6. Back(q, b, u, c, out \o FlattenSeq(val))
    BY <2>1, <2>3, <2>4, <2>5, BackBulk
  <2> QED BY <2>6 DEF u, q, n
<1> QED BY <1>2, <1>3, <1>4

\* A buffer that ends in the word behind at.
LEMMA NextWord ==
    ASSUME NEW at \in Nat, NEW l \in Nat, NEW c \in Nat, at % 4 = 0, l % 4 = 0,
           c <= l, l < c + 4, at + 4 <= l, ~(at + 4 <= c)
    PROVE  l = at + 4 /\ at + 1 <= c
OBVIOUS

\* w has the length n of a sequence behind its first at bytes, which end at a boundary.
CountAt(w, at, n) ==
    /\ at \in Nat /\ at >= 4 /\ (at - 4) % 4 = 0 /\ n \in Nat /\ n < Huge
    /\ at + 4 <= Len(w) /\ \A i \in 1..4 : w[at + i] = Bytes(n, 4)[i]

\* A length that was cut behind its first byte is not taken for 0: it would be, if it were
\* a multiple of 256.
LEMMA CutCount ==
    ASSUME NEW b, NEW w, NEW c, Holds(b, w, c), NEW at, NEW n, CountAt(w, at, n),
           at + 4 <= Len(b), ~(at + 4 <= c)
    PROVE  /\ Len(b) = at + 4
           /\ n = 0 => LengthAt(b, at) = 0
           /\ n % 256 # 0 => LengthAt(b, at) # 0
<1> at \in Nat /\ at >= 4 /\ (at - 4) % 4 = 0
  BY Zenon DEF CountAt
<1> n \in Nat /\ n < Huge /\ at + 4 <= Len(w)
  BY Zenon DEF CountAt
<1> \A i \in 1..4 : w[at + i] = Bytes(n, 4)[i]
  BY Zenon DEF CountAt
<1>1. /\ b \in Seq(Nat) /\ w \in Writers /\ c \in Nat
      /\ c <= Len(b) /\ Len(b) < c + 4 /\ Len(b) % 4 = 0
      /\ \A i \in 1..Len(w) : i <= c => b[i] = w[i]
      /\ \A i \in 1..Len(b) : i > c => b[i] = 0
  BY Zenon DEF Holds
<1>2. Len(b) = at + 4 /\ at + 1 <= c
  <2>0. b \in Seq(Nat) /\ c \in Nat /\ c <= Len(b) /\ Len(b) < c + 4 /\ Len(b) % 4 = 0
    BY <1>1, Zenon
  <2>1. Len(b) \in Nat /\ c \in Nat /\ c <= Len(b) /\ Len(b) < c + 4 /\ Len(b) % 4 = 0
    BY <2>0, LenProperties, Zenon
  <2>2. at % 4 = 0
    OBVIOUS
  <2> DEFINE l == Len(b)
  <2> HIDE DEF l
  <2>3. l \in Nat /\ c <= l /\ l < c + 4 /\ l % 4 = 0 /\ at + 4 <= l /\ ~(at + 4 <= c)
    BY <2>1 DEF l
  <2>4. l = at + 4 /\ at + 1 <= c
    BY <2>1, <2>2, <2>3, NextWord, Zenon
  <2> QED BY <2>4 DEF l
<1> DEFINE bs == BytesAt(b, at, 4)
           vs == Bytes(n, 4)
<1>3. \A i \in 1..4 : at + i \in 1..Len(b) /\ at + i \in 1..Len(w) /\ at + i <= Len(b)
  <2>1. Len(w) \in Nat
    BY <1>1 DEF Writers
  <2> QED BY <1>2, <2>1
<1>4. \A i \in 1..4 : bs[i] = b[at + i]
  BY <1>3 DEF BytesAt
<1>5. bs \in [1..4 -> Nat]
  <2>0. b \in Seq(Nat)
    BY <1>1, Zenon
  <2>1. \A i \in 1..Len(b) : b[i] \in Nat
    BY <2>0, ElementOfSeq, Zenon
  <2>2. \A i \in 1..4 : b[at + i] \in Nat
    BY <1>3, <2>1, Zenon
  <2> QED BY <1>3, <2>2 DEF BytesAt
<1>6. /\ vs[1] = n % 256 /\ vs[2] = n \div 256 /\ \A i \in 3..4 : vs[i] = 0
  BY BytesIs DEF Sizes
<1> HIDE DEF bs, vs
<1>7. bs[1] = vs[1]
  <2>1. 1 \in 1..4
    OBVIOUS
  <2> QED BY <1>1, <1>2, <1>3, <1>4, <2>1 DEF vs
<1>8. LengthAt(b, at) = Number(bs)
  BY DEF LengthAt, Decoded, bs
<1>9. Len(bs) = 4
  BY <1>5
<1>10. ASSUME n = 0 PROVE LengthAt(b, at) = 0
  <2>1. vs[1] = 0 /\ vs[2] = 0 /\ vs[3] = 0 /\ vs[4] = 0
    BY <1>6, <1>10
  <2>2. \A i \in 1..4 : vs[i] = 0
    BY <2>1
  <2>3. \A i \in 1..4 : bs[i] = 0
    <3> SUFFICES ASSUME NEW i \in 1..4 PROVE bs[i] = 0
      OBVIOUS
    <3> DEFINE p == at + i
    <3>1. p \in 1..Len(b) /\ p \in 1..Len(w) /\ bs[i] = b[p] /\ w[p] = 0
      BY <1>3, <1>4, <2>2 DEF vs
    <3> HIDE DEF p
    <3>2. CASE p <= c
      BY <1>1, <3>1, <3>2
    <3>3. CASE ~(p <= c)
      <4>1. p > c
        BY <1>1, <3>1, <3>3
      <4> QED BY <1>1, <3>1, <4>1
    <3> QED BY <3>2, <3>3
  <2>4. Number(bs) = 0
    BY <1>9, <2>3 DEF Number
  <2> QED BY <1>8, <2>4
<1>11. ASSUME n % 256 # 0 PROVE LengthAt(b, at) # 0
  <2>1. bs[1] # 0 /\ bs[1] \in Nat /\ bs[2] \in Nat
    BY <1>5, <1>6, <1>7, <1>11
  <2>2. Number(bs) # 0
    BY <1>9, <2>1 DEF Number, Huge
  <2> QED BY <1>8, <2>2
<1> QED BY <1>2, <1>10, <1>11

\* A cut in the length of this member is noticed.
Noticed(m, val, u, c) ==
    m.many # "seq" \/ Len(u) <= c \/ Len(val) = 0 \/ Len(val) % 256 # 0

\* What emit_deserialize does with a reader that has not failed.
LEMMA DeserializeCases ==
    ASSUME NEW r, NEW m, NEW k, k = read(RAlign(r, 4), "uint32"), NEW n, n = Last(k.out)
    PROVE  /\ ~r.ok => emit_deserialize(r, m) = r
           /\ r.ok /\ m.many # "seq" => emit_deserialize(r, m) = ReadMany(r, m, m.n)
           /\ r.ok /\ m.many = "seq" /\ ~k.ok => emit_deserialize(r, m) = k
           /\ r.ok /\ m.many = "seq" /\ k.ok /\ CountFits(k, n) =>
                emit_deserialize(r, m) = ReadMany([k EXCEPT !.resized = n], m, n)
           /\ r.ok /\ m.many = "seq" /\ k.ok /\ ~CountFits(k, n) =>
                emit_deserialize(r, m) = Throw(k)
BY Zenon DEF emit_deserialize

\* A reader that has failed on what is beyond the buffer.
LEMMA BackBeyond ==
    ASSUME NEW b, NEW q \in Readers(b), NEW u, NEW c, NEW more, ~q.ok, ~(Len(u) <= Len(b))
    PROVE  Back(q, b, u, c, more)
BY Zenon DEF Back

\* A sequence is read back, its length and then its elements.
LEMMA BackSequence ==
    ASSUME NEW b, NEW r, NEW w \in Writers, NEW c, NEW out \in Seq(Outs), NEW m \in Members,
           m.many = "seq", NEW val, ValuesFit(m.elem, val), Len(val) < Huge, r.ok,
           Back(r, b, w, c, out), NEW k, k = write(WAlign(w, 4), "uint32", Len(val)), NEW u,
           u = Elements(k, m, val), Holds(b, u, c), Noticed(m, val, u, c)
    PROVE  Back(emit_deserialize(r, m), b, u, c, (out \o <<Len(val)>>) \o FlattenSeq(val))
<1> DEFINE n == Len(val)
           at == Boundary(Len(w), 4)
           d == read(RAlign(r, 4), "uint32")
           N == LengthAt(b, at)
           q == emit_deserialize(r, m)
           s == [d EXCEPT !.resized = N]
           out1 == out \o <<n>>
           out2 == out1 \o FlattenSeq(val)
<1>0. n \in Nat
  BY ValuesFitIs
<1>1. /\ k \in Writers /\ Grown(w, k) /\ Len(k) = at + 4 /\ at \in Nat /\ at >= 4
      /\ (at - 4) % 4 = 0 /\ \A i \in 1..4 : k[at + i] = Bytes(n, 4)[i]
  BY <1>0, CountWriteIs
<1>2. b \in Seq(Nat) /\ c \in Nat /\ r \in Readers(b) /\ r.pos = Len(w)
  BY Zenon DEF Holds, Back
<1>3. u \in Writers /\ Grown(k, u) /\ Len(u) >= Len(k) + n
  BY <1>1, ElementsIs
<1>4. Holds(b, k, c)
  BY <1>3, HoldsLess
<1>5. Reads(d, r, b, at + 4, NumbersAt(b, at, "uint32", 1))
  BY <1>2, CountReadIs
<1>5a. d.utf8
  <2> DEFINE a == RAlign(r, 4)
  <2>1. a \in Readers(b) /\ a.utf8 = r.utf8
    <3>1. 4 \in Sizes
      BY DEF Sizes
    <3> QED BY <1>2, <3>1, RAlignIs
  <2>2. "uint32" \in Numeric
    BY DEF Numeric
  <2>3. r.utf8
    BY Zenon DEF Back
  <2> HIDE DEF a
  <2>4. read(a, "uint32").utf8 = a.utf8
    BY <1>2, <2>1, <2>2, ReadKeeps
  <2> QED BY <2>1, <2>3, <2>4 DEF a
<1>6. out1 \in Seq(Outs)
  <2>1. n \in Outs
    BY <1>0 DEF Outs
  <2> QED BY <2>1
<1>7. d \in Readers(b) /\ (d.ok <=> at + 4 <= Len(b))
  BY <1>5, Zenon DEF Reads
<1>8. Len(b) \in Nat /\ Len(u) \in Nat /\ Len(k) \in Nat
  <2>1. Len(b) \in Nat
    BY <1>2, LenProperties, Zenon
  <2>2. u \in Seq(Nat) /\ k \in Seq(Nat)
    BY <1>1, <1>3, Zenon DEF Writers
  <2> QED BY <2>1, <2>2, LenProperties, Zenon
<1> HIDE DEF n, at, d, N, q, s, out1, out2
<1>9. CASE ~d.ok
  <2>1. q = d
    BY <1>9, DeserializeCases, Zenon DEF q, d
  <2>2. ~(Len(u) <= Len(b))
    BY <1>0, <1>1, <1>3, <1>7, <1>8, <1>9
  <2>3. Back(q, b, u, c, out2)
    BY <1>7, <1>9, <2>1, <2>2, BackBeyond
  <2> QED BY <2>3 DEF q, out2, out1, n
<1>10. CASE d.ok
  <2>1. /\ N \in Nat /\ Last(d.out) = N /\ d.out = r.out \o <<N>> /\ d.pos = at + 4
        /\ CountFits(d, N) <=> N <= Len(b) - (at + 4)
    <3>1. at \in Nat
      BY <1>1, Zenon
    <3>2. b \in Seq(Nat) /\ r \in Readers(b)
      BY <1>2, Zenon
    <3> QED BY <1>5, <1>10, <3>1, <3>2, CountIs, Zenon DEF N
  <2>2. at + 4 <= Len(b)
    BY <1>7, <1>10
  <2>3. /\ CountFits(d, N) => q = ReadMany(s, m, N)
        /\ ~CountFits(d, N) => q = Throw(d)
    <3>1. d = read(RAlign(r, 4), "uint32") /\ N = Last(d.out)
      BY <2>1 DEF d
    <3>2. /\ CountFits(d, N) => emit_deserialize(r, m) = ReadMany([d EXCEPT !.resized = N], m, N)
          /\ ~CountFits(d, N) => emit_deserialize(r, m) = Throw(d)
      BY <1>10, <3>1, DeserializeCases
    <3> QED BY <3>2, Zenon DEF q, s
  <2>4. Throw(d) \in Readers(b) /\ ~Throw(d).ok
    BY <1>7, Throws
  <2>5. N = n \/ (n # 0 /\ N # 0 /\ Len(b) = at + 4)
    <3>1. CASE at + 4 <= c
      <4>1. at + 4 <= Len(k)
        BY <1>1, <1>8
      <4>2. N = n
        <5>1. n < Huge /\ at \in Nat /\ \A i \in 1..4 : k[at + i] = Bytes(n, 4)[i]
          BY <1>1, Zenon DEF n
        <5>2. LengthAt(b, at) = n
          BY <1>0, <1>4, <3>1, <4>1, <5>1, LengthFound
        <5> QED BY <5>2 DEF N
      <4> QED BY <4>2, Zenon
    <3>2. CASE ~(at + 4 <= c)
      <4>1. at + 4 <= Len(k)
        BY <1>1, <1>8
      <4>2. /\ Len(b) = at + 4 /\ (n = 0 => N = 0) /\ (n % 256 # 0 => N # 0)
        <5>1. /\ n < Huge /\ at \in Nat /\ at >= 4 /\ (at - 4) % 4 = 0
              /\ \A i \in 1..4 : k[at + i] = Bytes(n, 4)[i]
          BY <1>1, Zenon DEF n
        <5>2. CountAt(k, at, n)
          BY <1>0, <4>1, <5>1, Zenon DEF CountAt
        <5>3. /\ Len(b) = at + 4 /\ (n = 0 => LengthAt(b, at) = 0)
              /\ (n % 256 # 0 => LengthAt(b, at) # 0)
          BY <1>4, <2>2, <3>2, <5>2, CutCount
        <5> QED BY <5>3, Zenon DEF N
      <4>3. ~(Len(u) <= c)
        BY <1>0, <1>1, <1>2, <1>3, <1>8, <3>2
      <4>4. n = 0 \/ n % 256 # 0
        BY <4>3, Zenon DEF Noticed, n
      <4>5. CASE n = 0
        <5>1. N = n
          BY <4>2, <4>5, Zenon
        <5> QED BY <5>1, Zenon
      <4>6. CASE n # 0
        BY <4>2, <4>4, <4>6, Zenon
      <4> QED BY <4>5, <4>6, Zenon
    <3> QED BY <3>1, <3>2
  <2>6. CASE ~CountFits(d, N)
    <3>1. q = Throw(d)
      BY <2>3, <2>6
    <3>2. ~(Len(u) <= Len(b))
      <4>1. ~(N <= Len(b) - (at + 4))
        BY <2>1, <2>6
      <4> QED BY <1>0, <1>1, <1>3, <1>8, <2>1, <2>2, <2>5, <4>1
    <3>3. Back(q, b, u, c, out2)
      BY <2>4, <3>1, <3>2, BackBeyond
    <3> QED BY <3>3 DEF q, out2, out1, n
  <2>7. CASE CountFits(d, N)
    <3>1. q = ReadMany(s, m, N)
      BY <2>3, <2>7
    <3>2. N = n
      <4>1. N <= Len(b) - (at + 4)
        BY <2>1, <2>7
      <4> QED BY <1>1, <1>8, <2>1, <2>5, <4>1
    <3>3. /\ s \in Readers(b) /\ s.pos = d.pos /\ s.out = d.out /\ s.ok = d.ok
          /\ s.utf8 = d.utf8
      BY <1>7, <2>1, Resizes DEF s
    <3>4. Back(s, b, k, c, out1)
      <4>1. s.ok /\ s.pos = Len(k) /\ Len(k) <= Len(b)
        BY <1>1, <1>10, <2>1, <2>2, <3>3
      <4>2. Len(k) <= c => r.out = out
        <5>1. Len(k) <= c => Len(w) <= c
          <6>1. Len(w) <= Len(k) /\ Len(w) \in Nat
            BY <1>1 DEF Grown, Writers
          <6> QED BY <1>2, <1>8, <6>1
        <5>2. Len(w) <= c => r.out = out
          BY Zenon DEF Back
        <5> QED BY <5>1, <5>2
      <4>3. Len(k) <= c => s.out = out1
        BY <2>1, <3>2, <3>3, <4>2 DEF out1
      <4> QED BY <1>5a, <3>3, <4>1, <4>3, Zenon DEF Back
    <3>5. Holds(b, Elements(k, m, val), c)
      OBVIOUS
    <3>6. Back(ReadMany(s, m, Len(val)), b, Elements(k, m, val), c, out1 \o FlattenSeq(val))
      BY <1>1, <1>6, <3>4, <3>5, BackElements
    <3>7. Back(q, b, u, c, out2)
      BY <3>1, <3>2, <3>6 DEF n, out2
    <3> QED BY <3>7 DEF q, out2, out1, n
  <2> QED BY <2>6, <2>7
<1> QED BY <1>9, <1>10

\* A member is read back.
LEMMA BackMember ==
    ASSUME NEW b, NEW r, NEW w \in Writers, NEW c, NEW out \in Seq(Outs), NEW m \in Members,
           NEW val, MemberFits(m, val), Back(r, b, w, c, out),
           NEW u, u = emit_serialize(w, m, val), Holds(b, u, c), Noticed(m, val, u, c)
    PROVE  Back(emit_deserialize(r, m), b, u, c, out \o FlatMember(m, val))
<1> DEFINE q == emit_deserialize(r, m)
           n == Len(val)
           f == FlattenSeq(val)
           more == FlatMember(m, val)
<1>1. /\ ValuesFit(m.elem, val) /\ (m.many = "seq" => n < Huge) /\ (m.many # "seq" => n = m.n)
  BY Zenon DEF MemberFits
<1>2. u = Elements(Count(w, m, val), m, val)
  BY SerializeMember
<1>3. b \in Seq(Nat) /\ r \in Readers(b)
  BY DEF Holds, Back
<1>4. Grown(w, u)
  BY <1>1, SerializeMemberIs
<1>5. f \in Seq(Outs) /\ n \in Nat
  BY <1>1, ValuesFitIs, FlattenSeqIn
<1>6. CASE ~r.ok
  <2>1. q = r
    BY <1>6, DeserializeCases, Zenon
  <2> QED BY <1>3, <1>4, <1>6, <2>1, BackFailed
<1>7. CASE r.ok /\ m.many # "seq"
  <2>1. q = ReadMany(r, m, n)
    BY <1>1, <1>7, DeserializeCases, Zenon
  <2>2. Count(w, m, val) = w
    BY <1>7, Zenon DEF Count
  <2>3. more = f
    BY <1>5, <1>7, JoinNothing DEF FlatMember
  <2>4. Holds(b, Elements(w, m, val), c)
    BY <1>2, <2>2
  <2>5. Back(ReadMany(r, m, Len(val)), b, Elements(w, m, val), c, out \o FlattenSeq(val))
    BY <1>1, <2>4, BackElements
  <2> HIDE DEF q, more
  <2>6. Back(q, b, u, c, out \o more)
    BY <1>2, <2>1, <2>2, <2>3, <2>5
  <2> QED BY <2>6 DEF q, more
<1>8. CASE r.ok /\ m.many = "seq"
  <2> DEFINE k == write(WAlign(w, 4), "uint32", n)
             l == <<n>>
  <2>1. u = Elements(k, m, val)
    BY <1>2, <1>8, Zenon DEF Count
  <2>2. Back(q, b, u, c, (out \o l) \o f)
    BY <1>1, <1>8, <2>1, BackSequence
  <2>3. more = l \o f
    BY <1>8, Zenon DEF FlatMember
  <2>4. l \in Seq(Outs)
    BY <1>5 DEF Outs
  <2> HIDE DEF l, f, q, more
  <2>5. Associate(out, l, f)
    BY <1>5, <2>4, Associative
  <2>6. Back(q, b, u, c, out \o more)
    BY <2>2, <2>3, <2>5, Zenon DEF Associate
  <2> QED BY <2>6 DEF q, more
<1> QED BY <1>6, <1>7, <1>8

\* The value of a message.
MessageFits(type, val) == \A i \in 1..Len(type) : MemberFits(type[i], val[i])

\* The header.
LEMMA HeaderIs == Header \in Writers /\ Len(Header) = 4 /\ Header[1] = 0 /\ Header[2] = 1
BY DEF Header, Writers

\* A reader begins behind the header.
LEMMA BackHeader ==
    ASSUME NEW b, NEW w, NEW c, Holds(b, w, c), Grown(Header, w), c >= 4
    PROVE  Back(NewReader(b), b, Header, c, << >>)
<1>0. /\ b \in Seq(Nat) /\ w \in Writers /\ c \in Nat /\ c <= Len(b)
      /\ \A i \in 1..Len(w) : i <= c => b[i] = w[i]
  BY Zenon DEF Holds
<1>1. Len(b) \in Nat /\ Len(b) >= 4 /\ \A i \in 1..Len(b) : b[i] \in Nat
  <2>1. Len(b) \in Nat
    BY <1>0, LenProperties, Zenon
  <2> QED BY <1>0, <2>1, ElementOfSeq
<1>2. Len(w) \in Nat /\ Len(w) >= 4
  BY <1>0 DEF Writers
<1>3. w[1] = 0 /\ w[2] = 1
  <2>1. \A i \in 1..4 : w[i] = Header[i]
    BY HeaderIs DEF Grown
  <2> QED BY <2>1, HeaderIs
<1>4. b[1] = 0 /\ b[2] = 1
  <2>1. 1 \in 1..Len(w) /\ 2 \in 1..Len(w) /\ 1 <= c /\ 2 <= c
    BY <1>0, <1>2
  <2> QED BY <1>0, <1>3, <2>1
<1> DEFINE h == SubSeq(b, 1, 2)
           ok == Len(b) >= 4 /\ h = <<0, 1>>
           r == [buf |-> b, pos |-> 4, out |-> << >>, resized |-> 0, odd |-> FALSE,
                 utf8 |-> TRUE, ok |-> ok]
<1>5. h = <<0, 1>>
  <2>1. 1 \in 1..(Len(b) + 1) /\ 2 \in (1 - 1)..Len(b)
    BY <1>1
  <2>2. /\ h \in Seq(Nat) /\ Len(h) = 2 - 1 + 1 /\ \A i \in 1..(2 - 1 + 1) : h[i] = b[1 + i - 1]
    BY <1>0, <2>1, SubSeqProperties
  <2> DEFINE g == <<0, 1>>
  <2>3. g \in Seq(Nat) /\ Len(g) = 2 /\ g[1] = 0 /\ g[2] = 1
    OBVIOUS
  <2> HIDE DEF h, g
  <2>4. Len(h) = 2 /\ h[1] = 0 /\ h[2] = 1
    <3>1. 1 \in 1..(2 - 1 + 1) /\ 2 \in 1..(2 - 1 + 1) /\ 1 + 1 - 1 = 1 /\ 1 + 2 - 1 = 2 /\ 2 - 1 + 1 = 2
      OBVIOUS
    <3> QED BY <1>4, <2>2, <3>1
  <2>5. \A i \in 1..Len(h) : h[i] = g[i]
    BY <2>3, <2>4
  <2>6. h = g
    BY <2>2, <2>3, <2>4, <2>5, SeqEqual
  <2> QED BY <2>6 DEF h, g
<1>6. ok = TRUE
  BY <1>1, <1>5
<1>7. NewReader(b) = r
  BY DEF NewReader
<1> HIDE DEF ok
<1>8. r \in Readers(b) /\ r.ok = TRUE /\ r.pos = 4 /\ r.out = << >> /\ r.utf8 = TRUE
  BY <1>6 DEF Readers
<1> HIDE DEF r
<1>9. Back(r, b, Header, c, << >>)
  BY <1>1, <1>8, HeaderIs DEF Back
<1> QED BY <1>7, <1>9

\* A message's members, written one by one.
LEMMA SerializeSteps ==
    ASSUME NEW type \in Seq(Members), NEW val, MessageFits(type, val), NEW n, n = Len(type)
    PROVE  \E W : SerializeRun(W, type, val, Writers, Header, n) /\ Growing(W, n)
<1>1. n \in Nat /\ DOMAIN type = 1..n /\ \A i \in 1..n : type[i] \in Members
  OBVIOUS
<1>2. \A i \in 1..n : ValuesFit(type[i].elem, val[i])
  BY Zenon DEF MessageFits, MemberFits
<1>3. \A u \in Writers, i \in 1..n : emit_serialize(u, type[i], val[i]) \in Writers
                                     /\ Grown(u, emit_serialize(u, type[i], val[i]))
  BY <1>1, <1>2, SerializeMemberIs
<1>4. SerializeIn(type, val, Writers, n)
  BY <1>1, <1>3 DEF SerializeIn
<1>5. PICK W : SerializeRun(W, type, val, Writers, Header, n)
  BY <1>4, HeaderIs, SerializeFold
<1>6. W \in [0..n -> Writers] /\ \A k \in 1..n : W[k] = emit_serialize(W[k - 1], type[k], val[k])
  BY <1>5 DEF SerializeRun
<1>7. \A k \in 1..n : k - 1 \in 0..n
  BY <1>1
<1>8. \A k \in 1..n : Grown(W[k - 1], W[k])
  BY <1>3, <1>6, <1>7
<1> QED BY <1>1, <1>5, <1>6, <1>8 DEF Growing

\* A message is written behind the header.
LEMMA SerializeIs ==
    ASSUME NEW type \in Seq(Members), NEW val, MessageFits(type, val)
    PROVE  /\ serialize(type, val) = WriteMembers(Header, type, val)
           /\ serialize(type, val) \in Writers /\ Grown(Header, serialize(type, val))
<1> DEFINE n == Len(type)
<1>1. serialize(type, val) = WriteMembers(Header, type, val)
  BY DEF serialize, WriteMembers, FoldLeftDomain, FoldLeft, MapThenFoldSet
<1>2. PICK W : SerializeRun(W, type, val, Writers, Header, n) /\ Growing(W, n)
  BY SerializeSteps
<1>3. n \in Nat /\ 0 \in 0..n /\ n \in 0..n
  OBVIOUS
<1> HIDE DEF n
<1>4. W[0] = Header /\ W[n] = WriteMembers(Header, type, val) /\ W[n] \in Writers
  BY <1>2, <1>3 DEF SerializeRun
<1>5. Grown(W[0], W[n])
  BY <1>2, <1>3, GrownRun
<1> QED BY <1>1, <1>4, <1>5

\* What the reader of a member puts out.
LEMMA FlatMemberIs ==
    ASSUME NEW m, NEW val, MemberFits(m, val)
    PROVE  FlatMember(m, val) \in Seq(Outs)
<1> DEFINE f == FlattenSeq(val)
           n == Len(val)
<1>1. f \in Seq(Outs) /\ n \in Nat
  BY ValuesFitIs, FlattenSeqIn DEF MemberFits
<1> HIDE DEF f
<1>2. <<n>> \in Seq(Outs) /\ << >> \in Seq(Outs)
  BY <1>1 DEF Outs
<1> QED BY <1>1, <1>2 DEF FlatMember, f

\* A message is read back.
LEMMA BackMessage ==
    ASSUME NEW b, NEW c, NEW type \in Seq(Members), NEW val, MessageFits(type, val),
           NEW u, u = serialize(type, val), Holds(b, u, c), c >= 4,
           \A i \in 1..Len(type) : Noticed(type[i], val[i], u, c)
    PROVE  Back(deserialize(type, b), b, u, c, Flat(type, val))
<1> DEFINE n == Len(type)
           R == Readers(b)
           r == NewReader(b)
           fs == [i \in DOMAIN type |-> FlatMember(type[i], val[i])]
           e == << >>
           o(k) == e \o FlattenSeq(SubSeq(fs, 1, k))
<1>0. b \in Seq(Nat) /\ c \in Nat
  BY Zenon DEF Holds
<1>1. /\ n \in Nat /\ DOMAIN type = 1..n /\ \A i \in 1..n : type[i] \in Members
      /\ 0 \in 0..n /\ n \in 0..n
  OBVIOUS
<1>2. \A i \in 1..n : MemberFits(type[i], val[i])
  BY Zenon DEF MessageFits
<1>3. PICK W : SerializeRun(W, type, val, Writers, Header, n) /\ Growing(W, n)
  BY SerializeSteps
<1>4. /\ fs \in Seq(Seq(Outs)) /\ Len(fs) = n /\ e \in Seq(Outs)
      /\ \A i \in 1..n : fs[i] = FlatMember(type[i], val[i])
  <2>1. \A i \in 1..n : FlatMember(type[i], val[i]) \in Seq(Outs)
    BY <1>2, FlatMemberIs
  <2> QED BY <1>1, <2>1
<1>5. Flat(type, val) = FlattenSeq(fs)
  BY DEF Flat, FlatMember
<1> HIDE DEF fs, e
<1>6. o(n) = FlattenSeq(fs) /\ o(0) = << >>
  <2>1. SubSeq(fs, 1, 0) = << >> /\ SubSeq(fs, 1, n) = fs
    BY <1>1, <1>4
  <2>2. FlattenSeq(fs) \in Seq(Outs) /\ << >> \in Seq(Outs)
    BY <1>4, FlattenSeqIn
  <2> QED BY <2>1, <2>2, FlattenSeqEmpty, JoinNothing DEF e
<1>7. \A s \in R, m \in Members : emit_deserialize(s, m) \in R
  BY <1>0, DeserializeMemberIs
<1>8. r \in R
  BY <1>0, NewReaderIs
<1>9. deserialize(type, b) = ReadMembers(r, type)
  BY DEF deserialize, ReadMembers, FoldLeft, MapThenFoldSet
<1>10. u = WriteMembers(Header, type, val) /\ Grown(Header, u)
  BY SerializeIs
<1>11. \A k \in 1..n : /\ k - 1 \in 0..n /\ k \in 0..n
                       /\ o(k - 1) \o fs[k] = o(k) /\ o(k - 1) \in Seq(Outs)
  <2> SUFFICES ASSUME NEW k \in 1..n
               PROVE  /\ k - 1 \in 0..n /\ k \in 0..n
                      /\ o(k - 1) \o fs[k] = o(k) /\ o(k - 1) \in Seq(Outs)
    OBVIOUS
  <2>1. k - 1 \in 0..n /\ k \in 0..n
    BY <1>1
  <2>2. k \in 1..Len(fs)
    BY <1>4
  <2>3. /\ FlattenSeq(SubSeq(fs, 1, k - 1)) \in Seq(Outs)
        /\ (e \o FlattenSeq(SubSeq(fs, 1, k - 1))) \o fs[k] = e \o FlattenSeq(SubSeq(fs, 1, k))
    BY <1>4, <2>2, FlatBeginnings
  <2>4. \A a, d \in Seq(Outs) : a \o d \in Seq(Outs)
    OBVIOUS
  <2> QED BY <1>4, <2>1, <2>3, <2>4
<1> HIDE DEF n, R, r, o
<1>12. DeserializeIn(type, R, n)
  BY <1>1, <1>7 DEF DeserializeIn
<1>13. PICK F : DeserializeRun(F, type, R, r, n)
  BY <1>8, <1>12, DeserializeFold
<1>14. /\ F \in [0..n -> R] /\ F[0] = r /\ F[n] = ReadMembers(r, type)
       /\ \A k \in 1..n : F[k] = emit_deserialize(F[k - 1], type[k])
  BY <1>13 DEF DeserializeRun
<1>15. /\ W \in [0..n -> Writers] /\ W[0] = Header /\ W[n] = u
       /\ \A k \in 1..n : W[k] = emit_serialize(W[k - 1], type[k], val[k])
  BY <1>3, <1>10 DEF SerializeRun
<1>16. \A k \in 0..n : Grown(W[k], u)
  BY <1>3, <1>15, GrownRun
<1>17. \A k \in 0..n : Holds(b, W[k], c)
  BY <1>16, HoldsLess
<1>18. \A k \in 1..n : Noticed(type[k], val[k], W[k], c)
  <2> SUFFICES ASSUME NEW k \in 1..n PROVE Noticed(type[k], val[k], W[k], c)
    OBVIOUS
  <2>1. Noticed(type[k], val[k], u, c)
    BY DEF n
  <2>2. Len(W[k]) \in Nat /\ Len(u) \in Nat /\ Len(W[k]) <= Len(u)
    BY <1>11, <1>16 DEF Grown, Writers
  <2>3. Len(u) <= c => Len(W[k]) <= c
    BY <1>0, <2>2
  <2> QED BY <2>1, <2>3, Zenon DEF Noticed
<1> DEFINE P == {k \in 0..n : Back(F[k], b, W[k], c, o(k))}
<1>19. 0 \in P
  <2>1. Back(r, b, Header, c, << >>)
    BY <1>10, BackHeader DEF r
  <2> QED BY <1>1, <1>6, <1>14, <1>15, <2>1, Zenon
<1>20. ASSUME NEW k \in 1..n, k - 1 \in P PROVE k \in P
  <2> DEFINE j == k - 1
             x == o(j)
             v == val[k]
             m == type[k]
             q == W[k]
  <2>1. Back(F[j], b, W[j], c, x)
    BY <1>20
  <2>2. W[j] \in Writers /\ MemberFits(m, v) /\ m \in Members
    BY <1>1, <1>2, <1>11, <1>15
  <2>3. q = emit_serialize(W[j], m, v) /\ F[k] = emit_deserialize(F[j], m)
    BY <1>14, <1>15
  <2>4. x \o FlatMember(m, v) = o(k) /\ x \in Seq(Outs)
    BY <1>4, <1>11
  <2>5. Holds(b, q, c) /\ Noticed(m, v, q, c) /\ k \in 0..n
    BY <1>11, <1>17, <1>18
  <2> HIDE DEF j, x, v, m, q, P
  <2>6. Back(emit_deserialize(F[j], m), b, q, c, x \o FlatMember(m, v))
    BY <2>1, <2>2, <2>3, <2>4, <2>5, BackMember
  <2>7. Back(F[k], b, W[k], c, o(k))
    BY <2>3, <2>4, <2>6 DEF q
  <2> QED BY <2>5, <2>7 DEF P
<1> HIDE DEF P
<1>21. n \in P
  BY <1>1, <1>19, <1>20, UpTo
<1>22. Back(F[n], b, W[n], c, o(n))
  BY <1>21 DEF P
<1> QED BY <1>5, <1>6, <1>9, <1>14, <1>15, <1>22

-----------------------------------------------------------------------------
(* Samples: fragments and padding.                                         *)

\* The fragments of a sample: where the k-th begins and ends.
From(k, size, overlap) == IF (k - 1) * size > overlap THEN (k - 1) * size - overlap ELSE 0

\* How far the first k fragments reach.
UpToByte(k, size, overlap, l) ==
    IF k = 0 THEN 0 ELSE IF k * size + overlap < l THEN k * size + overlap ELSE l

\* Each begins before the end of what the ones before it hold.
LEMMA NoGaps ==
    ASSUME NEW l \in Nat, NEW size \in Nat \ {0}, NEW overlap \in Nat,
           NEW n, n = (l + size - 1) \div size
    PROVE  /\ n \in Nat
           /\ UpToByte(n, size, overlap, l) = l
           /\ \A k \in 1..n :
                /\ From(k, size, overlap) \in 0..UpToByte(k - 1, size, overlap, l)
                /\ UpToByte(k - 1, size, overlap, l) \in 0..UpToByte(k, size, overlap, l)
                /\ UpToByte(k, size, overlap, l) \in 0..l
<1>1. n \in Nat
  OBVIOUS
<1>2. n * size >= l /\ n * size <= l + size - 1 /\ n * size \in Nat
  <2> DEFINE a == l + size - 1
  <2>1. a \in Nat
    OBVIOUS
  <2>2. a = size * (a \div size) + (a % size) /\ a % size < size /\ a % size >= 0
    BY <2>1
  <2> DEFINE m == a % size
             x == size * n
  <2>3. a = x + m /\ m < size /\ m >= 0 /\ m \in Int /\ x \in Nat
    BY <1>1, <2>1, <2>2
  <2>4. x = n * size
    BY <1>1
  <2> HIDE DEF m, x
  <2> QED BY <2>3, <2>4
<1>3. UpToByte(n, size, overlap, l) = l
  <2>1. CASE n = 0
    <3>1. l = 0
      BY <1>2, <2>1
    <3> QED BY <2>1, <3>1 DEF UpToByte
  <2>2. CASE n # 0
    <3> DEFINE x == n * size
    <3>1. x \in Nat /\ x >= l
      BY <1>2
    <3> HIDE DEF x
    <3>2. ~(x + overlap < l)
      BY <3>1
    <3> QED BY <2>2, <3>2 DEF UpToByte, x
  <2> QED BY <2>1, <2>2
<1>4. ASSUME NEW k \in 1..n
      PROVE  /\ From(k, size, overlap) \in 0..UpToByte(k - 1, size, overlap, l)
             /\ UpToByte(k - 1, size, overlap, l) \in 0..UpToByte(k, size, overlap, l)
             /\ UpToByte(k, size, overlap, l) \in 0..l
  <2> DEFINE x == (k - 1) * size
             y == k * size
             z == n * size
  <2>1. x \in Nat /\ y \in Nat /\ z \in Nat /\ y = x + size /\ y <= z /\ z <= l + size - 1
    <3>1. k \in Nat /\ k <= n /\ k - 1 \in Nat
      BY <1>1
    <3>2. k * size <= n * size
      BY <1>1, <3>1
    <3> QED BY <1>1, <1>2, <3>1, <3>2
  <2>2. k = 1 => x = 0
    OBVIOUS
  <2> HIDE DEF x, y, z
  <2>3. x < l
    BY <2>1
  <2>4. From(k, size, overlap) = IF x > overlap THEN x - overlap ELSE 0
    BY DEF From, x
  <2>5. UpToByte(k, size, overlap, l) = IF y + overlap < l THEN y + overlap ELSE l
    BY DEF UpToByte, y
  <2>6. UpToByte(k - 1, size, overlap, l) =
          IF k = 1 THEN 0 ELSE IF x + overlap < l THEN x + overlap ELSE l
    BY <1>1 DEF UpToByte, x
  <2> QED BY <2>1, <2>2, <2>3, <2>4, <2>5, <2>6
<1> QED BY <1>1, <1>3, <1>4

\* The bytes of p behind its first a ones, up to the d-th.
Between(x, p, a, d) ==
    x \in Seq(Nat) /\ Len(x) = d - a /\ \A i \in 1..(d - a) : x[i] = p[a + i]

\* A part of a sequence is that.
LEMMA BetweenIs ==
    ASSUME NEW p \in Seq(Nat), NEW a \in Nat, NEW d \in Nat, a <= d, d <= Len(p)
    PROVE  Between(SubSeq(p, a + 1, d), p, a, d)
<1> DEFINE x == SubSeq(p, a + 1, d)
           m == a + 1
<1>1. m \in 1..(Len(p) + 1) /\ d \in (m - 1)..Len(p)
  OBVIOUS
<1> HIDE DEF m
<1>2. /\ SubSeq(p, m, d) \in Seq(Nat) /\ Len(SubSeq(p, m, d)) = d - m + 1
      /\ \A i \in 1..(d - m + 1) : SubSeq(p, m, d)[i] = p[m + i - 1]
  BY <1>1, SubSeqProperties
<1>3. d - m + 1 = d - a /\ \A i \in 1..(d - a) : m + i - 1 = a + i
  BY DEF m
<1>4. /\ x \in Seq(Nat) /\ Len(x) = d - m + 1 /\ \A i \in 1..(d - m + 1) : x[i] = p[m + i - 1]
  BY <1>2 DEF m
<1> HIDE DEF x
<1>5. Between(x, p, a, d)
  BY <1>3, <1>4 DEF Between
<1> QED BY <1>5 DEF x

\* What a fragment adds to what has been copied.
LEMMA FreshIs ==
    ASSUME NEW p \in Seq(Nat), NEW a \in Nat, NEW d \in Nat, NEW h \in Nat, a <= h, h <= d,
           d <= Len(p), NEW frag, frag.min = a, frag.maxp1 = d, Between(frag.bytes, p, a, d)
    PROVE  Between(Fresh(frag, h), p, h, d)
<1> DEFINE y == frag.bytes
           f == h - a
           t == d - a
           z == SubSeq(y, f + 1, t)
<1>1. Fresh(frag, h) = z
  BY DEF Fresh
<1>2. y \in Seq(Nat) /\ Len(y) = t /\ \A i \in 1..t : y[i] = p[a + i]
  BY Zenon DEF Between
<1>3. f \in Nat /\ t \in Nat /\ f <= t /\ a + f = h /\ t - f = d - h
  OBVIOUS
<1>4. \A i \in 1..(t - f) : f + i \in 1..t /\ a + (f + i) = h + i
  OBVIOUS
<1> HIDE DEF y, f, t
<1>5. Between(z, y, f, t)
  BY <1>2, <1>3, BetweenIs
<1> HIDE DEF z
<1>6. z \in Seq(Nat) /\ Len(z) = t - f /\ \A i \in 1..(t - f) : z[i] = y[f + i]
  BY <1>5 DEF Between
<1>7. \A i \in 1..(t - f) : z[i] = p[h + i]
  BY <1>2, <1>4, <1>6
<1>8. Between(z, p, h, d)
  BY <1>3, <1>6, <1>7 DEF Between
<1> QED BY <1>1, <1>8

\* Pieces that follow on each other.
LEMMA BetweenJoined ==
    ASSUME NEW p \in Seq(Nat), NEW h \in Nat, NEW d \in Nat, h <= d, d <= Len(p), NEW x, NEW z,
           Between(x, p, 0, h), Between(z, p, h, d)
    PROVE  Between(x \o z, p, 0, d)
<1> DEFINE s == x \o z
<1>1. x \in Seq(Nat) /\ Len(x) = h /\ \A i \in 1..h : x[i] = p[i]
  <2>1. x \in Seq(Nat) /\ Len(x) = h - 0 /\ \A i \in 1..(h - 0) : x[i] = p[0 + i]
    BY Zenon DEF Between
  <2>2. h - 0 = h /\ \A i \in 1..h : 0 + i = i
    OBVIOUS
  <2> QED BY <2>1, <2>2
<1>2. z \in Seq(Nat) /\ Len(z) = d - h /\ \A i \in 1..(d - h) : z[i] = p[h + i]
  BY Zenon DEF Between
<1>3. Joins(s, x, z)
  BY DEF Joins
<1> HIDE DEF s
<1>4. /\ s \in Seq(Nat) /\ Len(s) = Len(x) + Len(z)
      /\ \A i \in 1..Len(x) : s[i] = x[i]
      /\ \A i \in 1..Len(z) : s[Len(x) + i] = z[i]
  <2>1. x \in Seq(Nat) /\ z \in Seq(Nat)
    BY <1>1, <1>2, Zenon
  <2> QED BY <1>3, <2>1, Joined
<1>5. ASSUME NEW i \in 1..d PROVE s[i] = p[i]
  <2>1. CASE i <= h
    <3>1. i \in 1..h
      BY <2>1
    <3> QED BY <1>1, <1>4, <3>1
  <2>2. CASE i > h
    <3> DEFINE j == i - h
    <3>1. j \in 1..(d - h) /\ h + j = i
      BY <2>2
    <3> HIDE DEF j
    <3> QED BY <1>1, <1>2, <1>4, <3>1
  <2> QED BY <2>1, <2>2
<1>6. d - 0 = d /\ \A i \in 1..d : 0 + i = i
  OBVIOUS
<1>7. Len(s) = d
  BY <1>1, <1>2, <1>4
<1>8. Between(s, p, 0, d)
  BY <1>4, <1>5, <1>6, <1>7 DEF Between
<1> QED BY <1>8 DEF s

\* All of it is the sequence.
LEMMA BetweenWhole ==
    ASSUME NEW p \in Seq(Nat), NEW x, Between(x, p, 0, Len(p))
    PROVE  x = p
<1> DEFINE l == Len(p)
<1>0. l \in Nat
  OBVIOUS
<1> HIDE DEF l
<1>1. x \in Seq(Nat) /\ Len(x) = l - 0 /\ \A i \in 1..(l - 0) : x[i] = p[0 + i]
  BY Zenon DEF Between, l
<1>2. l - 0 = l /\ \A i \in 1..l : 0 + i = i
  BY <1>0
<1>3. Len(x) = Len(p) /\ \A i \in 1..Len(x) : x[i] = p[i]
  BY <1>1, <1>2 DEF l
<1> QED BY <1>1, <1>3, SeqEqual

\* A part of what is defined everywhere.
LEMMA SubSeqAny ==
    ASSUME NEW s, NEW m \in Int, NEW n \in Int, NEW V, \A i \in Int : s[i] \in V
    PROVE  SubSeq(s, m, n) \in Seq(V)
OBVIOUS

\* raw_from_ser puts the fragments together again.
LEMMA FragmentsJoined ==
    ASSUME NEW p \in Seq(Nat), NEW size \in Nat \ {0}, NEW overlap \in Nat
    PROVE  copied(<< >>, Fragments(p, size, overlap)) = p
<1> DEFINE l == Len(p)
           n == (l + size - 1) \div size
           lo(k) == From(k, size, overlap)
           hi(k) == UpToByte(k, size, overlap, l)
           chain == Fragments(p, size, overlap)
           V == Nat \cup {chain[j].bytes[i] : j \in 1..n, i \in Int}
           R == Seq(V)
<1>0. l \in Nat
  OBVIOUS
<1>1. /\ n \in Nat /\ hi(n) = l /\ hi(0) = 0
      /\ \A k \in 1..n : /\ lo(k) \in 0..hi(k - 1) /\ hi(k - 1) \in 0..hi(k) /\ hi(k) \in 0..l
  <2>1. hi(0) = 0
    BY DEF UpToByte
  <2>2. n = (l + size - 1) \div size
    OBVIOUS
  <2> HIDE DEF l, n
  <2>3. /\ n \in Nat
        /\ UpToByte(n, size, overlap, l) = l
        /\ \A k \in 1..n :
             /\ From(k, size, overlap) \in 0..UpToByte(k - 1, size, overlap, l)
             /\ UpToByte(k - 1, size, overlap, l) \in 0..UpToByte(k, size, overlap, l)
             /\ UpToByte(k, size, overlap, l) \in 0..l
    BY <1>0, <2>2, NoGaps, Zenon
  <2> QED BY <2>1, <2>3, Zenon
<1>2. /\ DOMAIN chain = 1..n
      /\ \A k \in 1..n : chain[k] = [min |-> lo(k), maxp1 |-> hi(k),
                                     bytes |-> SubSeq(p, lo(k) + 1, lo(k) + (hi(k) - lo(k)))]
  <2>1. \A k \in 1..n : k # 0
    BY <1>1
  <2> QED BY <2>1 DEF Fragments, raw_size, raw_to_ser, From, UpToByte
<1> HIDE DEF n, lo, hi, chain, V
<1>3. \A k \in 1..n : /\ chain[k].min = lo(k) /\ chain[k].maxp1 = hi(k)
                      /\ Between(chain[k].bytes, p, lo(k), hi(k))
                      /\ lo(k) \in Nat /\ hi(k) \in Nat /\ hi(k - 1) \in Nat
                      /\ lo(k) <= hi(k - 1) /\ hi(k - 1) <= hi(k) /\ hi(k) <= l
  <2> SUFFICES ASSUME NEW k \in 1..n
               PROVE  /\ chain[k].min = lo(k) /\ chain[k].maxp1 = hi(k)
                      /\ Between(chain[k].bytes, p, lo(k), hi(k))
                      /\ lo(k) \in Nat /\ hi(k) \in Nat /\ hi(k - 1) \in Nat
                      /\ lo(k) <= hi(k - 1) /\ hi(k - 1) <= hi(k) /\ hi(k) <= l
    OBVIOUS
  <2> DEFINE a == lo(k)
             d == hi(k)
             h == hi(k - 1)
  <2>1. a \in 0..h /\ h \in 0..d /\ d \in 0..l
    BY <1>1
  <2> HIDE DEF a, d, h
  <2>2. a \in Nat /\ d \in Nat /\ h \in Nat /\ a <= h /\ h <= d /\ d <= l /\ a <= d
    BY <1>0, <2>1
  <2>3. a + (d - a) = d
    BY <2>2
  <2>4. chain[k] = [min |-> a, maxp1 |-> d, bytes |-> SubSeq(p, a + 1, a + (d - a))]
    BY <1>2 DEF a, d
  <2>5. chain[k].min = a /\ chain[k].maxp1 = d /\ chain[k].bytes = SubSeq(p, a + 1, d)
    <3> DEFINE y == SubSeq(p, a + 1, a + (d - a))
    <3>1. y = SubSeq(p, a + 1, d)
      BY <2>3, Zenon
    <3>2. chain[k] = [min |-> a, maxp1 |-> d, bytes |-> y]
      BY <2>4
    <3> HIDE DEF y
    <3> DEFINE c == chain[k]
    <3>3. c = [min |-> a, maxp1 |-> d, bytes |-> y]
      BY <3>2
    <3> HIDE DEF c
    <3>4. c.min = a
      BY <3>3
    <3>5. c.maxp1 = d
      BY <3>3
    <3>6. c.bytes = y
      BY <3>3
    <3> QED BY <3>1, <3>4, <3>5, <3>6, Zenon DEF c
  <2>6. Between(SubSeq(p, a + 1, d), p, a, d)
    BY <2>2, BetweenIs
  <2> QED BY <2>2, <2>5, <2>6 DEF a, d, h
<1>4. CopyIn(chain, R, n)
  <2>1. ASSUME NEW r \in R, NEW i \in 1..n PROVE copy(r, chain[i]) \in R
    <3> DEFINE y == chain[i].bytes
               m == Len(r) - chain[i].min + 1
               t == chain[i].maxp1 - chain[i].min
    <3>1. m \in Int /\ t \in Int
      <4>1. Len(r) \in Nat
        OBVIOUS
      <4> QED BY <1>3, <4>1
    <3>2. \A j \in Int : y[j] \in V
      BY DEF V
    <3>3. Fresh(chain[i], Len(r)) = SubSeq(y, m, t)
      BY DEF Fresh
    <3> HIDE DEF y, m, t
    <3>4. Fresh(chain[i], Len(r)) \in Seq(V)
      BY <3>1, <3>2, <3>3, SubSeqAny
    <3> DEFINE f == Fresh(chain[i], Len(r))
    <3> HIDE DEF f
    <3>5. r \o f \in Seq(V)
      BY <3>4 DEF f
    <3>6. copy(r, chain[i]) = r \/ copy(r, chain[i]) = r \o f
      BY Zenon DEF copy, f
    <3> QED BY <3>5, <3>6
  <2> QED BY <1>1, <1>2, <2>1 DEF CopyIn
<1>5. << >> \in R
  OBVIOUS
<1> HIDE DEF R
<1>6. PICK F : CopyRun(F, chain, R, << >>, n)
  BY <1>4, <1>5, CopyFold
<1>7. /\ F[0] = << >> /\ F[n] = copied(<< >>, chain)
      /\ \A k \in 1..n : F[k] = copy(F[k - 1], chain[k])
  BY <1>6 DEF CopyRun
<1> DEFINE P == {k \in 0..n : Between(F[k], p, 0, hi(k))}
<1>8. 0 \in P
  <2>1. 0 \in 0..n /\ 1..(0 - 0) = {} /\ 0 - 0 = 0 /\ << >> \in Seq(Nat) /\ Len(<< >>) = 0
    BY <1>1
  <2>2. Between(<< >>, p, 0, 0)
    BY <2>1 DEF Between
  <2> QED BY <1>1, <1>7, <2>1, <2>2
<1>9. ASSUME NEW k \in 1..n, k - 1 \in P PROVE k \in P
  <2> DEFINE a == lo(k)
             d == hi(k)
             h == hi(k - 1)
             x == F[k - 1]
             c == chain[k]
             z == Fresh(c, h)
  <2>1. Between(x, p, 0, h)
    BY <1>9
  <2>2. k \in 0..n
    BY <1>1
  <2>3. /\ c.min = a /\ c.maxp1 = d /\ Between(c.bytes, p, a, d)
        /\ a \in Nat /\ d \in Nat /\ h \in Nat /\ a <= h /\ h <= d /\ d <= Len(p)
    BY <1>3 DEF l
  <2>4. F[k] = copy(x, c)
    BY <1>7
  <2> HIDE DEF a, d, h, x, c, P
  <2>5. Len(x) = h
    <3>1. Len(x) = h - 0
      BY <2>1, Zenon DEF Between
    <3> QED BY <2>3, <3>1
  <2>6. Between(z, p, h, d)
    BY <2>3, FreshIs
  <2>7. F[k] = IF d > h THEN x \o z ELSE x
    BY <2>3, <2>4, <2>5, Zenon DEF copy
  <2> HIDE DEF z
  <2>8. CASE d > h
    <3>1. Between(x \o z, p, 0, d)
      BY <2>1, <2>3, <2>6, BetweenJoined
    <3> QED BY <2>2, <2>7, <2>8, <3>1 DEF P, d
  <2>9. CASE ~(d > h)
    <3>1. d = h
      BY <2>3, <2>9
    <3> QED BY <2>1, <2>2, <2>7, <2>9, <3>1 DEF P, d
  <2> QED BY <2>8, <2>9
<1> HIDE DEF P
<1>10. n \in P
  <2>1. n \in 0..n
    BY <1>1
  <2> QED BY <1>1, <1>8, <1>9, <2>1, UpTo
<1>11. Between(F[n], p, 0, Len(p))
  BY <1>1, <1>10 DEF P, l
<1>12. F[n] = p
  BY <1>11, BetweenWhole
<1> QED BY <1>7, <1>12 DEF chain

\* q is p with the zeros that raw_resize puts behind it.
Padded(q, p) ==
    /\ q \in Seq(Nat) /\ Len(q) >= Len(p) /\ Len(q) < Len(p) + 4 /\ Len(q) % 4 = 0
    /\ \A i \in 1..Len(p) : q[i] = p[i]
    /\ \A i \in 1..Len(q) : i > Len(p) => q[i] = 0

\* raw_resize pads with zeros to the next multiple of 4.
LEMMA ResizedIs ==
    ASSUME NEW p \in Seq(Nat), NEW q, q = Resized(p, Len(p))
    PROVE  Padded(q, p) /\ (Len(p) % 4 = 0 => q = p)
<1> DEFINE l == Len(p)
           d == l + (RawPad(l) - l)
           z == [i \in 1..d |-> 0]
<1>0. l \in Nat
  OBVIOUS
<1>1. q = p \o z
  BY DEF Resized
<1> HIDE DEF l
<1>2. RawPad(l) \in 0..3 /\ (l + RawPad(l)) % 4 = 0 /\ (l % 4 = 0 => RawPad(l) = 0)
  BY <1>0 DEF RawPad
<1>3. d \in 0..3 /\ (l + d) % 4 = 0 /\ (l % 4 = 0 => d = 0)
  <2> DEFINE r == RawPad(l)
  <2>1. r \in 0..3 /\ (l + r) % 4 = 0 /\ (l % 4 = 0 => r = 0)
    BY <1>2
  <2> HIDE DEF r
  <2>2. d = r
    <3>1. d = l + (r - l)
      BY DEF r
    <3> HIDE DEF d
    <3> QED BY <1>0, <2>1, <3>1
  <2> HIDE DEF d
  <2> QED BY <2>1, <2>2
<1> HIDE DEF d
<1>4. z \in Seq(Nat) /\ Len(z) = d /\ \A i \in 1..d : z[i] = 0
  BY <1>3
<1> HIDE DEF z
<1>5. Joins(q, p, z)
  BY <1>1 DEF Joins
<1>6. /\ q \in Seq(Nat) /\ Len(q) = l + d
      /\ \A i \in 1..l : q[i] = p[i]
      /\ \A i \in 1..d : q[l + i] = z[i]
  BY <1>4, <1>5, Joined DEF l
<1>7. ASSUME NEW i \in 1..Len(q), i > l PROVE q[i] = 0
  <2> DEFINE j == i - l
  <2>1. j \in 1..d /\ l + j = i
    BY <1>0, <1>3, <1>6, <1>7
  <2> HIDE DEF j
  <2> QED BY <1>4, <1>6, <2>1
<1>8. ASSUME l % 4 = 0 PROVE q = p
  <2>1. Len(q) = Len(p)
    BY <1>0, <1>3, <1>6, <1>8 DEF l
  <2> QED BY <1>6, <2>1, SeqEqual DEF l
<1>9. Len(q) >= l /\ Len(q) < l + 4 /\ Len(q) % 4 = 0
  BY <1>0, <1>3, <1>6
<1> QED BY <1>6, <1>7, <1>8, <1>9 DEF l, Padded

\* A sample in one piece.
LEMMA OnePieceIov ==
    ASSUME NEW p \in Seq(Nat)
    PROVE  raw_from_ser_iov(<<p>>) = Resized(p, Len(p))
<1> DEFINE e == << >>
<1>1. <<p>> = Append(e, p) /\ e \in Seq(Seq(Nat))
  OBVIOUS
<1>2. FlattenSeq(Append(e, p)) = FlattenSeq(e) \o p
  BY <1>1, FlattenSeqAppend
<1>3. FlattenSeq(<<p>>) = p
  BY <1>1, <1>2, FlattenSeqEmpty, JoinNothing
<1> QED BY <1>3 DEF raw_from_ser_iov

\* A sample in fragments.
LEMMA FragmentsIs ==
    ASSUME NEW p \in Seq(Nat), NEW size \in Nat \ {0}, NEW overlap \in Nat
    PROVE  raw_from_ser(Fragments(p, size, overlap), Len(p)) = Resized(p, Len(p))
<1> DEFINE chain == Fragments(p, size, overlap)
<1>1. raw_from_ser(chain, Len(p)) = Resized(copied(<< >>, chain), Len(p))
  BY DEF raw_from_ser, copied, copy, FoldLeft, MapThenFoldSet
<1>2. copied(<< >>, chain) = p
  BY FragmentsJoined
<1> QED BY <1>1, <1>2

-----------------------------------------------------------------------------
(* The writer in Python.                                                   *)

\* A member whose elements are one element.
LEMMA WriteAllOne ==
    ASSUME NEW w \in Writers, NEW elem \in Seq(Prims), NEW val, ValuesFit(elem, val), Len(val) = 1
    PROVE  WriteAll(w, elem, val) = WriteElem(w, elem, val[1])
<1>1. PICK W : WriteManyRun(W, elem, val, Writers, w, 1)
  BY WriteAllSteps
<1>2. W[0] = w /\ W[1] = WriteAll(w, elem, val) /\ \A k \in 1..1 : W[k] = WriteElem(W[k - 1], elem, val[k])
  BY <1>1 DEF WriteManyRun
<1>3. 1 \in 1..1 /\ 1 - 1 = 0
  OBVIOUS
<1> QED BY <1>2, <1>3

\* The writer in Python writes a member as the generated one does.  It would not pad an
\* array without elements.
LEMMA PyWriteIs ==
    ASSUME NEW w \in Writers, NEW m \in PyMembers, NEW val, MemberFits(m, val),
           m.many = "array" => m.n # 0
    PROVE  py_write(w, m, val) = emit_serialize(w, m, val)
<1> DEFINE n == Len(val)
           k == Count(w, m, val)
           u == emit_serialize(w, m, val)
<1>1. ValuesFit(m.elem, val) /\ (m.many # "seq" => n = m.n) /\ n \in Nat /\ val \in Seq(Seq(Outs))
  BY ValuesFitIs, Zenon DEF MemberFits
<1>2. m \in Members /\ ((m.many = "one" /\ m.n = 1) \/ Bulk(m))
  BY DEF PyMembers
<1>3. m.elem \in Seq(Prims)
  BY <1>2, MemberFields
<1>4. u = Elements(k, m, val)
  BY SerializeMember
<1>5. CASE m.many = "one"
  <2>1. ~Bulk(m) /\ m.n = 1 /\ m.many # "seq"
    BY <1>2, <1>5, Zenon DEF Bulk
  <2>2. k = w /\ n = 1
    BY <1>1, <2>1, Zenon DEF Count
  <2>3. u = WriteAll(w, m.elem, val)
    BY <1>4, <2>1, <2>2, Zenon DEF Elements
  <2> DEFINE v == val[1]
             e == m.elem
  <2>4. u = WriteElem(w, e, v)
    BY <1>1, <1>3, <2>2, <2>3, WriteAllOne
  <2>5. ElemFits(e, v)
    <3>1. \A j \in 1..n : ElemFits(m.elem, val[j])
      BY <1>1, ValuesFitIs
    <3>2. 1 \in 1..n
      BY <2>2
    <3> QED BY <3>1, <3>2
  <2>6. py_write(w, m, val) = PyWriteElem(w, m.elem, val[1])
    BY <1>5 DEF py_write, PyWriteElem, FoldLeftDomain, FoldLeft, MapThenFoldSet
  <2>7. PyWriteElem(w, e, v) = WriteElem(w, e, v)
    BY <1>3, <2>5, PyWriteElemIs
  <2> QED BY <2>4, <2>6, <2>7
<1>6. CASE m.many # "one"
  <2> DEFINE t == m.elem[1]
             s == SizeOf(t)
             c == IF m.many = "seq" THEN py_number(py_wpad(w, 4), "uint32", n) ELSE w
             bs == AllBytes(t, val)
  <2>1. Bulk(m)
    BY <1>2, <1>6
  <2>2. t \in Numeric /\ NumbersIn(val, n)
    BY <1>1, <1>2, <2>1, BulkFits
  <2>3. py_write(w, m, val) = IF val = << >> THEN c ELSE py_wpad(c, s) \o bs
    BY <1>6, Zenon DEF py_write, py_many
  <2>4. c = k /\ k \in Writers
    <3>1. CASE m.many = "seq"
      <4> DEFINE a == WAlign(w, 4)
                 x == "uint32"
      <4>1. a \in Writers /\ py_wpad(w, 4) = a /\ x \in Numeric
        BY WAlignIs DEF Sizes, Numeric
      <4> HIDE DEF a, x
      <4>2. py_number(a, x, n) = write(a, x, n) /\ write(a, x, n) \in Writers
        BY <1>1, <4>1, WriteIs
      <4>3. c = py_number(a, x, n) /\ k = write(a, x, n)
        BY <3>1, <4>1, Zenon DEF Count, a, x
      <4> QED BY <4>2, <4>3
    <3>2. CASE m.many # "seq"
      BY <3>2, Zenon DEF Count
    <3> QED BY <3>1, <3>2
  <2> HIDE DEF c, k, t, n
  <2>5. CASE val = << >>
    <3>1. m.many = "seq"
      <4>1. Len(val) = 0
        BY <2>5
      <4>2. m.many \in {"one", "array", "seq"}
        BY <1>2, MemberFields
      <4> QED BY <1>1, <1>6, <4>1, <4>2 DEF n
    <3>2. u = k
      BY <1>4, <2>1, <2>5, <3>1, Zenon DEF Elements
    <3> QED BY <2>3, <2>4, <2>5, <3>2
  <2>6. CASE val # << >>
    <3>1. u = write_aligned(k, bs, s)
      BY <1>4, <2>1, <2>6, Zenon DEF Elements, t
    <3>2. py_wpad(k, s) \o bs = write_aligned(k, bs, s)
      BY <2>2, <2>4, BulkWriteIs
    <3> QED BY <2>3, <2>4, <2>6, <3>1, <3>2, Zenon
  <2> QED BY <2>5, <2>6
<1> QED BY <1>5, <1>6

\* No array of the type is without elements.
Filled(type) == \A i \in 1..Len(type) : type[i].many = "array" => type[i].n # 0

\* A message in Python is the same bytes.
LEMMA PySerializeIs ==
    ASSUME NEW type \in Seq(PyMembers), Filled(type), NEW val, MessageFits(type, val)
    PROVE  py_serialize(type, val) = serialize(type, val)
<1> DEFINE n == Len(type)
<1>1. n \in Nat /\ DOMAIN type = 1..n /\ (\A i \in 1..n : type[i] \in PyMembers) /\ n \in 0..n /\ 0 \in 0..n
  OBVIOUS
<1>2. type \in Seq(Members)
  BY DEF PyMembers
<1>3. /\ \A i \in 1..n : MemberFits(type[i], val[i])
      /\ \A i \in 1..n : type[i].many = "array" => type[i].n # 0
  BY Zenon DEF MessageFits, Filled
<1>4. py_serialize(type, val) = PyWriteMembers(Header, type, val)
  BY DEF py_serialize, PyWriteMembers, FoldLeftDomain, FoldLeft, MapThenFoldSet
<1>5. serialize(type, val) = WriteMembers(Header, type, val)
  BY <1>2, SerializeIs
<1>6. PICK W : SerializeRun(W, type, val, Writers, Header, n) /\ Growing(W, n)
  BY <1>2, SerializeSteps
<1> HIDE DEF n
<1>7. \A u \in Writers, i \in 1..n : /\ py_write(u, type[i], val[i]) = emit_serialize(u, type[i], val[i])
                                     /\ py_write(u, type[i], val[i]) \in Writers
  <2> SUFFICES ASSUME NEW u \in Writers, NEW i \in 1..n
               PROVE  /\ py_write(u, type[i], val[i]) = emit_serialize(u, type[i], val[i])
                      /\ py_write(u, type[i], val[i]) \in Writers
    OBVIOUS
  <2> DEFINE m == type[i]
             v == val[i]
  <2>1. m \in PyMembers /\ m \in Members /\ MemberFits(m, v) /\ (m.many = "array" => m.n # 0)
    BY <1>1, <1>3 DEF PyMembers
  <2> HIDE DEF m, v
  <2>2. py_write(u, m, v) = emit_serialize(u, m, v)
    BY <2>1, PyWriteIs
  <2>3. ValuesFit(m.elem, v)
    BY <2>1, Zenon DEF MemberFits
  <2>4. emit_serialize(u, m, v) \in Writers
    BY <2>1, <2>3, SerializeMemberIs
  <2> QED BY <2>2, <2>4 DEF m, v
<1>8. PySerializeIn(type, val, Writers, n)
  BY <1>1, <1>7 DEF PySerializeIn
<1>9. PICK V : PySerializeRun(V, type, val, Writers, Header, n)
  BY <1>8, HeaderIs, PySerializeFold
<1>10. /\ W \in [0..n -> Writers] /\ W[0] = Header /\ W[n] = WriteMembers(Header, type, val)
       /\ \A k \in 1..n : W[k] = emit_serialize(W[k - 1], type[k], val[k])
  BY <1>6 DEF SerializeRun
<1>11. /\ V[0] = Header /\ V[n] = PyWriteMembers(Header, type, val)
       /\ \A k \in 1..n : V[k] = py_write(V[k - 1], type[k], val[k])
  BY <1>9 DEF PySerializeRun
<1> DEFINE P == {k \in 0..n : V[k] = W[k]}
<1>12. 0 \in P
  BY <1>1, <1>10, <1>11
<1>13. ASSUME NEW k \in 1..n, k - 1 \in P PROVE k \in P
  <2>1. k \in 0..n /\ k - 1 \in 0..n /\ V[k - 1] = W[k - 1]
    BY <1>1, <1>13
  <2>2. W[k - 1] \in Writers
    BY <1>10, <2>1
  <2>3. V[k] = W[k]
    BY <1>7, <1>10, <1>11, <2>1, <2>2
  <2> QED BY <2>1, <2>3
<1> HIDE DEF P
<1>14. n \in P
  BY <1>1, <1>12, <1>13, UpTo
<1> QED BY <1>4, <1>5, <1>10, <1>11, <1>14 DEF P

-----------------------------------------------------------------------------
(* The values of the messages.                                             *)

\* The bound on lengths.
LEMMA HugeIs == Huge \in Nat /\ Huge - 3 \in Nat /\ (Huge - 3) + 3 = Huge
BY DEF Huge

\* The numbers and strings of a value.
LEMMA ScalarFits ==
    ASSUME NEW t \in Numeric, NEW k \in 0..126
    PROVE  Fits(t, Scalar(t, k))
<1>1. CASE t = "bool"
  <2>1. Scalar(t, k) = 1
    BY <1>1 DEF Scalar
  <2> QED BY <1>1, <2>1 DEF Fits, Limit
<1>2. CASE t = "uint8"
  <2>1. Scalar(t, k) = k
    BY <1>2 DEF Scalar
  <2> QED BY <1>2, <2>1 DEF Fits, Limit
<1>3. CASE t \notin {"bool", "uint8"}
  <2>1. Scalar(t, k) = 256 * k + (k + 1)
    BY <1>3 DEF Scalar
  <2>2. t # "string"
    BY DEF Numeric
  <2>3. Scalar(t, k) \in Nat /\ Scalar(t, k) < Huge
    BY <2>1 DEF Huge
  <2> QED BY <1>3, <2>2, <2>3 DEF Fits, Limit
<1> QED BY <1>1, <1>2, <1>3

\* The strings of a value.
LEMMA TextFits ==
    ASSUME NEW len \in 0..(Huge - 3), NEW j \in Nat, j >= 1
    PROVE  Fits("string", Text((len + j - 1) % (len + 2)))
<1> DEFINE l == (len + j - 1) % (len + 2)
<1>1. l \in Nat /\ l <= len + 1
  <2>1. len \in Nat /\ len + j - 1 \in Nat /\ len + 2 \in Nat \ {0}
    <3>1. Huge - 3 \in Nat
      BY HugeIs
    <3>2. len \in Nat
      BY <3>1
    <3> QED BY <3>2
  <2>2. \A a \in Nat, d \in Nat \ {0} : a % d \in Nat /\ a % d < d
    OBVIOUS
  <2>3. l \in Nat /\ l < len + 2
    BY <2>1, <2>2
  <2> HIDE DEF l
  <2> QED BY <2>1, <2>3
<1> HIDE DEF l
<1>2. Text(l) \in Seq(Nat) /\ Len(Text(l)) = l
  <2>1. \A i \in 1..l : 97 + (i % 26) \in Nat
    BY <1>1
  <2> QED BY <1>1, <2>1 DEF Text
<1>2a. Ascii(Text(l))
  <2>1. \A i \in 1..l : 97 + (i % 26) < 128
    BY <1>1
  <2>2. \A i \in 1..l : Text(l)[i] = 97 + (i % 26)
    BY DEF Text
  <2> QED BY <1>2, <2>1, <2>2 DEF Ascii
<1>3. Len(Text(l)) + 1 < Huge
  <2> DEFINE h == Huge - 3
  <2>1. h \in Nat /\ Huge = h + 3 /\ len \in 0..h
    BY HugeIs
  <2> HIDE DEF h
  <2> QED BY <1>1, <1>2, <2>1
<1> QED BY <1>2, <1>2a, <1>3 DEF Fits, l

\* A value is what a reader may put out.
LEMMA FitsOut ==
    ASSUME NEW t, NEW v, Fits(t, v)
    PROVE  v \in Outs
BY DEF Fits, Outs

\* The elements of a value.
LEMMA ElementFits ==
    ASSUME NEW m \in Members, NEW i \in Nat, NEW j \in Nat, j >= 1, NEW len \in 0..(Huge - 3)
    PROVE  ElemFits(m.elem, Element(m, i, j, len))
<1> DEFINE elem == m.elem
           n == Len(elem)
           e == Element(m, i, j, len)
<1>1. elem \in Seq(Prims)
  BY MemberFields
<1>2. n \in Nat /\ DOMAIN elem = 1..n /\ \A k \in 1..n : elem[k] \in Prims
  BY <1>1
<1>3. e = [k \in 1..n |-> IF elem[k] = "string" THEN Text((len + j - 1) % (len + 2))
                          ELSE Scalar(elem[k], (11 * i + 3 * j + k) % 127)]
  BY <1>2 DEF Element
<1> HIDE DEF elem, n, e
<1>4. ASSUME NEW k \in 1..n PROVE Fits(elem[k], e[k])
  <2> DEFINE t == elem[k]
             x == (11 * i + 3 * j + k) % 127
  <2>1. CASE t = "string"
    <3>1. e[k] = Text((len + j - 1) % (len + 2))
      BY <1>3, <2>1
    <3> QED BY <2>1, <3>1, TextFits
  <2>2. CASE t # "string"
    <3>1. e[k] = Scalar(t, x)
      BY <1>3, <2>2
    <3>2. t \in Numeric
      BY <1>2, <2>2 DEF Prims
    <3>3. x \in 0..126
      <4>1. 11 * i + 3 * j + k \in Nat
        BY <1>2
      <4> QED BY <4>1
    <3> HIDE DEF x, t
    <3>4. Fits(t, Scalar(t, x))
      BY <3>2, <3>3, ScalarFits
    <3> QED BY <3>1, <3>4 DEF t
  <2> QED BY <2>1, <2>2
<1>5. \A k \in 1..n : e[k] \in Outs
  BY <1>4, FitsOut
<1>6. e \in Seq(Outs) /\ Len(e) = n
  <2>1. e = [k \in 1..n |-> e[k]]
    BY <1>3
  <2> QED BY <1>2, <1>5, <2>1
<1>7. ElemFits(elem, e)
  BY <1>4, <1>6 DEF ElemFits, n
<1> QED BY <1>7 DEF elem, e

\* The values the messages have.
LEMMA ValueFits ==
    ASSUME NEW type \in Seq(Members), NEW lens, \A i \in DOMAIN lens : lens[i] \in 0..(Huge - 3)
    PROVE  /\ MessageFits(type, Value(type, lens))
           /\ \A i \in 1..Len(type) : type[i].many = "seq" =>
                Len(Value(type, lens)[i]) = IF i \in DOMAIN lens THEN lens[i] ELSE 0
<1> DEFINE val == Value(type, lens)
           n == Len(type)
<1>1. n \in Nat /\ DOMAIN type = 1..n /\ \A i \in 1..n : type[i] \in Members
  OBVIOUS
<1> HIDE DEF n, val
<1>2. ASSUME NEW i \in 1..n
      PROVE  /\ MemberFits(type[i], val[i])
             /\ type[i].many = "seq" => Len(val[i]) = IF i \in DOMAIN lens THEN lens[i] ELSE 0
  <2> DEFINE m == type[i]
             len == IF i \in DOMAIN lens THEN lens[i] ELSE 0
             l == IF m.many = "seq" THEN len ELSE m.n
             v == val[i]
  <2>1. m \in Members /\ m.n \in Nat
    BY <1>1, MemberFields
  <2>2. len \in 0..(Huge - 3) /\ len \in Nat /\ len < Huge
    <3> DEFINE h == Huge - 3
    <3>1. h \in Nat /\ Huge = h + 3 /\ 0 \in 0..h
      BY HugeIs
    <3>2. len \in 0..h
      <4>1. CASE i \in DOMAIN lens
        BY <4>1
      <4>2. CASE i \notin DOMAIN lens
        BY <3>1, <4>2
      <4> QED BY <4>1, <4>2
    <3> HIDE DEF len, h
    <3>3. len \in Nat /\ len < Huge
      BY <3>1, <3>2
    <3> QED BY <3>2, <3>3 DEF h
  <2>3. v = [j \in 1..l |-> Element(m, i, j, len)]
    BY <1>1 DEF Value, val
  <2>4. l \in Nat
    BY <2>1, <2>2
  <2>5. m.many = "seq" => l = len
    OBVIOUS
  <2>6. m.many # "seq" => l = m.n
    OBVIOUS
  <2> HIDE DEF m, l, v, len
  <2>7. \A j \in 1..l : ElemFits(m.elem, Element(m, i, j, len))
    <3>1. i \in Nat /\ \A j \in 1..l : j \in Nat /\ j >= 1
      BY <1>1, <2>4
    <3> QED BY <2>1, <2>2, <3>1, ElementFits
  <2>8. \A j \in 1..l : v[j] = Element(m, i, j, len)
    BY <2>3
  <2>9. \A j \in 1..l : ElemFits(m.elem, v[j])
    BY <2>7, <2>8
  <2>10. \A j \in 1..l : v[j] \in Seq(Outs)
    BY <2>9 DEF ElemFits
  <2>11. v \in Seq(Seq(Outs)) /\ Len(v) = l
    <3>1. v = [j \in 1..l |-> v[j]]
      BY <2>3
    <3> QED BY <2>4, <2>10, <3>1
  <2>12. ValuesFit(m.elem, v)
    BY <2>9, <2>11 DEF ValuesFit
  <2>13. m.many = "seq" => Len(v) < Huge
    BY <2>2, <2>5, <2>11
  <2>14. MemberFits(m, v)
    BY <2>6, <2>11, <2>12, <2>13, Zenon DEF MemberFits
  <2>15. m.many = "seq" => Len(v) = len
    BY <2>5, <2>11
  <2> QED BY <2>14, <2>15 DEF m, v, len
<1> QED BY <1>2 DEF MessageFits, n, val

\* The arrays of the types have Matrix elements.
LEMMA BothFilled ==
    ASSUME NEW name \in Both, Matrix # 0
    PROVE  Filled(TypeOf(name))
<1>1. \A elem : One(elem).many # "array" /\ SeqOfElem(elem).many # "array"
  BY DEF One, SeqOfElem
<1>2. \A t : Array(t, Matrix).n # 0
  BY DEF Array
<1>3. CASE name = "Empty"
  BY <1>3 DEF TypeOf, Empty, Filled
<1>4. CASE name = "String"
  <2> DEFINE a == One(<<"string">>)
  <2>1. TypeOf(name) = <<a>> /\ a.many # "array"
    BY <1>1, <1>4 DEF TypeOf, String
  <2> HIDE DEF a
  <2> QED BY <2>1 DEF Filled
<1>5. CASE name = "PoseStamped"
  <2> DEFINE a == One(StdHeader)
             c == One(Vector3 \o Quaternion)
  <2>1. TypeOf(name) = <<a, c>> /\ a.many # "array" /\ c.many # "array"
    BY <1>1, <1>5 DEF TypeOf, PoseStamped
  <2> HIDE DEF a, c
  <2> QED BY <2>1 DEF Filled
<1>6. CASE name = "TransformStamped"
  <2> DEFINE a == One(StdHeader)
             d == One(<<"string">>)
             c == One(Vector3 \o Quaternion)
  <2>1. TypeOf(name) = <<a, d, c>> /\ a.many # "array" /\ c.many # "array" /\ d.many # "array"
    BY <1>1, <1>6 DEF TypeOf, TransformStamped
  <2> HIDE DEF a, c, d
  <2> QED BY <2>1 DEF Filled
<1>7. CASE name = "Image"
  <2> DEFINE a == One(StdHeader)
             d == One(<<"uint32", "uint32", "string", "uint8", "uint32">>)
             c == SeqOfElem(<<"uint8">>)
  <2>1. TypeOf(name) = <<a, d, c>> /\ a.many # "array" /\ c.many # "array" /\ d.many # "array"
    BY <1>1, <1>7 DEF TypeOf, Image
  <2> HIDE DEF a, c, d
  <2> QED BY <2>1 DEF Filled
<1>8. CASE name = "CameraInfo"
  <2> DEFINE a == One(StdHeader)
             d == One(<<"uint32", "uint32", "string">>)
             c == SeqOfElem(<<"float64">>)
             x == Array("float64", Matrix)
             z == One(<<"uint32", "uint32">> \o RegionOfInterest)
  <2>1. TypeOf(name) = <<a, d, c, x, x, x, z>>
    BY <1>8 DEF TypeOf, CameraInfo
  <2>2. a.many # "array" /\ c.many # "array" /\ d.many # "array" /\ z.many # "array" /\ x.n # 0
    BY <1>1, <1>2
  <2> HIDE DEF a, c, d, x, z
  <2> QED BY <2>1, <2>2 DEF Filled
<1> QED BY <1>3, <1>4, <1>5, <1>6, <1>7, <1>8 DEF Both

==============================================================================
