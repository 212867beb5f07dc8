----------------------------- MODULE SequenceFacts -----------------------------
(***************************************************************************)
(* Facts about sequences and numbers that several proofs need.  FlattenSeq *)
(* of the community modules is a recursive function, so what it returns is *)
(* shown by induction on the number of sequences.  The induction theorems  *)
(* of the library have an operator as a parameter, which no backend here   *)
(* can instantiate; induction on a SET of numbers needs none, and follows  *)
(* from the least-element theorem WFMin.                                   *)
(***************************************************************************)
EXTENDS Integers, Sequences, SequencesExt, FiniteSets, WellFoundedInduction, FiniteSetTheorems,
        SequenceTheorems, TLAPS

(* The natural numbers are well founded.                                   *)
LEMMA NatLess == IsWellFoundedOn({p \in Nat \X Nat : p[1] < p[2]}, Nat)
BY NatLessThanWellFounded, Zenon DEF OpToRel

(* Every inhabited set of natural numbers has a least element,             *)
LEMMA LeastNat ==
  ASSUME NEW T, T \subseteq Nat, T # {}
  PROVE  \E x \in T : \A y \in T : x <= y
<1>1. PICK x \in T : \A y \in T : ~ (<<y, x>> \in {p \in Nat \X Nat : p[1] < p[2]})
      BY NatLess, WFMin
<1>2. ASSUME NEW y \in T PROVE x <= y
  <2>1. x \in Nat /\ y \in Nat  OBVIOUS
  <2>2. <<y, x>> \in Nat \X Nat /\ <<y, x>>[1] = y /\ <<y, x>>[2] = x  BY <2>1
  <2>3. ~(y < x)  BY <1>1, <2>2, Zenon
  <2> QED  BY <2>1, <2>3
<1> QED  BY <1>2

(* so a set with 0 and the successors of its numbers has them all.         *)
LEMMA InductionOnSet ==
  ASSUME NEW T, 0 \in T, \A n \in Nat : n \in T => n + 1 \in T
  PROVE  \A n \in Nat : n \in T
<1> SUFFICES ASSUME Nat \ T # {} PROVE FALSE  OBVIOUS
<1>1. PICK x \in Nat \ T : \A y \in Nat \ T : x <= y  BY LeastNat
<1>2. x # 0 /\ x - 1 \in Nat /\ x - 1 \in T /\ x - 1 + 1 = x  BY <1>1
<1> QED  BY <1>2
-----------------------------------------------------------------------------
(* The recursion of FlattenSeq, for its first n sequences.                 *)
Flattens(seqs, n, f) == f = [i \in 1 .. n |-> IF i = 1 THEN seqs[i] ELSE f[i - 1] \o seqs[i]]

(* The recursion of FlattenSeq has a solution of every length.             *)
LEMMA FlattensExists ==
  ASSUME NEW seqs
  PROVE  \A n \in Nat : \E f : Flattens(seqs, n, f)
<1> DEFINE T == {n \in Nat : \E f : Flattens(seqs, n, f)}
<1>1. 0 \in T
  <2>1. Flattens(seqs, 0, [i \in 1 .. 0 |-> 0])  BY DEF Flattens
  <2> QED  BY <2>1
<1>2. ASSUME NEW n \in Nat, n \in T PROVE n + 1 \in T
  <2>1. PICK f : Flattens(seqs, n, f)  BY <1>2
  <2> DEFINE g == [i \in 1 .. n + 1 |->
                     IF i = n + 1 THEN (IF i = 1 THEN seqs[i] ELSE f[n] \o seqs[i]) ELSE f[i]]
             h == [i \in 1 .. n + 1 |-> IF i = 1 THEN seqs[i] ELSE g[i - 1] \o seqs[i]]
  <2>2. ASSUME NEW i \in 1 .. n + 1 PROVE g[i] = h[i]
    <3>1. CASE i = n + 1
      <4>1. i # 1 => i - 1 = n /\ n \in 1 .. n + 1 /\ n # n + 1  BY <3>1
      <4>2. i # 1 => g[i - 1] = f[n]  BY <4>1
      <4> QED  BY <3>1, <4>2
    <3>2. CASE i # n + 1
      <4>1. i \in 1 .. n /\ (i # 1 => i - 1 \in 1 .. n /\ i - 1 # n + 1 /\ i - 1 \in 1 .. n + 1)
            BY <3>2
      <4>2. f[i] = IF i = 1 THEN seqs[i] ELSE f[i - 1] \o seqs[i]  BY <2>1, <4>1 DEF Flattens
      <4> QED  BY <3>2, <4>1, <4>2
    <3> QED  BY <3>1, <3>2
  <2>3. g = h  BY <2>2
  <2>4. Flattens(seqs, n + 1, g)  BY <2>3 DEF Flattens
  <2>5. \E f2 : Flattens(seqs, n + 1, f2)  BY <2>4
  <2> QED  BY <2>5
<1> HIDE DEF T
<1>3. \A n \in Nat : n \in T  BY <1>1, <1>2, InductionOnSet
<1> QED  BY <1>3 DEF T

(* FlattenSeq is the last value of a solution.                             *)
LEMMA FlattenSeqDef ==
  ASSUME NEW seqs, Len(seqs) \in Nat, Len(seqs) # 0
  PROVE  \E f : Flattens(seqs, Len(seqs), f) /\ FlattenSeq(seqs) = f[Len(seqs)]
<1> DEFINE f == CHOOSE f : Flattens(seqs, Len(seqs), f)
<1>1. Flattens(seqs, Len(seqs), f)  BY FlattensExists
<1>2. FlattenSeq(seqs) = f[Len(seqs)]  BY DEF FlattenSeq, Flattens
<1> QED  BY <1>1, <1>2

-----------------------------------------------------------------------------
(* Where each sequence starts in the flattened one, less one.              *)
IsOffsets(seqs, off) ==
  /\ off \in [1 .. Len(seqs) + 1 -> Nat]
  /\ off[1] = 0
  /\ \A i \in 1 .. Len(seqs) : off[i + 1] = off[i] + Len(seqs[i])

(* The offsets up to the n-th sequence.                                    *)
Sums(seqs, n, off) ==
  /\ off \in [1 .. n + 1 -> Nat]
  /\ off[1] = 0
  /\ \A i \in 1 .. n : off[i + 1] = off[i] + Len(seqs[i])

(* The lengths of the parts add up: every part has an offset.              *)
LEMMA OffsetsExist ==
  ASSUME NEW S, NEW seqs \in Seq(Seq(S))
  PROVE  \E off : IsOffsets(seqs, off)
<1> DEFINE T == {n \in Nat : n <= Len(seqs) => \E off : Sums(seqs, n, off)}
<1>1. 0 \in T
  <2>1. Sums(seqs, 0, [i \in 1 .. 1 |-> 0])  BY DEF Sums
  <2> QED  BY <2>1
<1>2. ASSUME NEW n \in Nat, n \in T PROVE n + 1 \in T
  <2>1. SUFFICES ASSUME n + 1 <= Len(seqs) PROVE \E off : Sums(seqs, n + 1, off)  OBVIOUS
  <2>2. PICK off : Sums(seqs, n, off)  BY <1>2, <2>1
  <2>3. seqs[n + 1] \in Seq(S) /\ Len(seqs[n + 1]) \in Nat  BY <2>1
  <2> DEFINE g == [i \in 1 .. n + 2 |-> IF i = n + 2 THEN off[n + 1] + Len(seqs[n + 1]) ELSE off[i]]
  <2>4. off[n + 1] \in Nat /\ g \in [1 .. n + 1 + 1 -> Nat] /\ g[1] = 0
    <3>1. n + 1 \in 1 .. n + 1 /\ 1 \in 1 .. n + 2 /\ 1 # n + 2 /\ n + 1 + 1 = n + 2  OBVIOUS
    <3>2. off[n + 1] \in Nat /\ off[n + 1] + Len(seqs[n + 1]) \in Nat  BY <2>2, <2>3, <3>1 DEF Sums
    <3>3. \A i \in 1 .. n + 2 : i # n + 2 => i \in 1 .. n + 1  OBVIOUS
    <3> QED  BY <2>2, <3>1, <3>2, <3>3 DEF Sums
  <2>5. ASSUME NEW i \in 1 .. n + 1 PROVE g[i + 1] = g[i] + Len(seqs[i])
    <3>1. CASE i = n + 1
      <4>1. i + 1 = n + 2 /\ i \in 1 .. n + 2 /\ i # n + 2 /\ i + 1 \in 1 .. n + 2  BY <3>1
      <4> QED  BY <3>1, <4>1
    <3>2. CASE i # n + 1
      <4>1. /\ i \in 1 .. n /\ i + 1 # n + 2 /\ i # n + 2
            /\ i + 1 \in 1 .. n + 2 /\ i \in 1 .. n + 2
            BY <3>2
      <4>2. off[i + 1] = off[i] + Len(seqs[i])  BY <2>2, <4>1 DEF Sums
      <4> QED  BY <4>1, <4>2
    <3> QED  BY <3>1, <3>2
  <2>6. Sums(seqs, n + 1, g)  BY <2>4, <2>5 DEF Sums
  <2> QED  BY <2>6
<1> HIDE DEF T
<1>3. \A n \in Nat : n \in T  BY <1>1, <1>2, InductionOnSet
<1>4. Len(seqs) \in Nat /\ Len(seqs) <= Len(seqs)  OBVIOUS
<1>5. PICK off : Sums(seqs, Len(seqs), off)  BY <1>3, <1>4 DEF T
<1> QED  BY <1>5 DEF Sums, IsOffsets

(* A later sequence starts after an earlier one has ended,                 *)
LEMMA OffsetsMonotone ==
  ASSUME NEW S, NEW seqs \in Seq(Seq(S)), NEW off, IsOffsets(seqs, off),
         NEW i \in 1 .. Len(seqs), NEW k \in 1 .. Len(seqs) + 1, i < k
  PROVE  off[i] + Len(seqs[i]) <= off[k]
<1> DEFINE T == {n \in Nat : i + 1 + n <= Len(seqs) + 1 => off[i + 1] <= off[i + 1 + n]}
<1>l. PICK l \in Nat : l = Len(seqs)  OBVIOUS
<1>o. /\ off \in [1 .. l + 1 -> Nat]
      /\ \A j \in 1 .. l : off[j + 1] = off[j] + Len(seqs[j])
      BY <1>l DEF IsOffsets
<1>0. i + 1 \in 1 .. l + 1 /\ off[i + 1] \in Nat /\ off[i + 1] = off[i] + Len(seqs[i])
  <2>1. i + 1 \in 1 .. l + 1 /\ i \in 1 .. l  BY <1>l
  <2> QED  BY <1>o, <2>1
<1>1. 0 \in T  BY <1>0
<1>2. ASSUME NEW n \in Nat, n \in T PROVE n + 1 \in T
  <2>1. SUFFICES ASSUME i + 1 + (n + 1) <= Len(seqs) + 1
                 PROVE  off[i + 1] <= off[i + 1 + (n + 1)]
        OBVIOUS
  <2>2. PICK j : j = i + 1 + n  OBVIOUS
  <2>3. j \in 1 .. Len(seqs) /\ j + 1 = i + 1 + (n + 1) /\ j + 1 \in 1 .. Len(seqs) + 1
        /\ j \in 1 .. Len(seqs) + 1
        BY <2>1, <2>2
  <2>4. off[i + 1] <= off[j]  BY <1>2, <2>2, <2>3
  <2>5. off[j + 1] = off[j] + Len(seqs[j])  BY <2>3 DEF IsOffsets
  <2>6. seqs[j] \in Seq(S) /\ off[j] \in Nat
    <3>1. j \in 1 .. l + 1  BY <1>l, <2>3
    <3>2. off[j] \in Nat  BY <1>o, <3>1
    <3>3. seqs[j] \in Seq(S)  BY <2>3
    <3> QED  BY <3>2, <3>3
  <2>7. off[i + 1] <= off[j + 1]  BY <1>0, <2>4, <2>5, <2>6
  <2> QED  BY <2>3, <2>7
<1> HIDE DEF T
<1>3. \A n \in Nat : n \in T  BY <1>1, <1>2, InductionOnSet
<1>4. PICK n : n = k - (i + 1)  OBVIOUS
<1>5. n \in Nat /\ i + 1 + n = k /\ k <= Len(seqs) + 1  BY <1>l, <1>4
<1>6. off[i + 1] <= off[k]  BY <1>3, <1>5 DEF T
<1> QED  BY <1>0, <1>6

(* and every place up to the end is in one of them.                        *)
LEMMA OffsetsCover ==
  ASSUME NEW S, NEW seqs \in Seq(Seq(S)), NEW off, IsOffsets(seqs, off),
         NEW k \in 1 .. off[Len(seqs) + 1]
  PROVE  \E i \in 1 .. Len(seqs) : \E j \in 1 .. Len(seqs[i]) : k = off[i] + j
<1> DEFINE T == {n \in Nat : n + 1 <= Len(seqs) + 1 /\ k <= off[n + 1]}
<1>0. Len(seqs) \in Nat  OBVIOUS
<1>1. Len(seqs) \in T  BY <1>0
<1>2. PICK n \in T : \A m \in T : n <= m
  <2>1. T \subseteq Nat /\ T # {}  BY <1>1
  <2> HIDE DEF T
  <2> QED  BY <2>1, LeastNat
<1>3. n # 0
  <2>1. off[0 + 1] = 0 /\ k \in Nat /\ k >= 1  BY DEF IsOffsets
  <2> QED  BY <2>1
<1>l. PICK l \in Nat : l = Len(seqs)  OBVIOUS
<1>n. n \in Nat /\ n + 1 <= l + 1 /\ k <= off[n + 1]  BY <1>2, <1>l
<1>4. n \in 1 .. Len(seqs) /\ n - 1 \in Nat /\ n - 1 + 1 = n
  <2>1. n \in 1 .. l /\ n - 1 \in Nat /\ n - 1 + 1 = n  BY <1>n, <1>3
  <2> QED  BY <1>l, <2>1
<1>5. n - 1 \notin T
  <2> HIDE DEF T
  <2>1. n - 1 \in T => n <= n - 1  BY <1>2
  <2> QED  BY <1>4, <2>1
<1>6. ~(k <= off[n])
  <2>1. n - 1 + 1 <= Len(seqs) + 1  BY <1>l, <1>n, <1>4
  <2>2. ~(k <= off[n - 1 + 1])  BY <1>4, <1>5, <2>1
  <2> QED  BY <1>4, <2>2
<1>7. off[n] \in Nat /\ off[n + 1] = off[n] + Len(seqs[n]) /\ k <= off[n + 1]
  <2>1. off \in [1 .. l + 1 -> Nat] /\ n \in 1 .. l + 1 /\ n \in 1 .. l  BY <1>l, <1>4 DEF IsOffsets
  <2>2. off[n] \in Nat  BY <2>1
  <2> QED  BY <1>l, <1>n, <2>1, <2>2 DEF IsOffsets
<1>8. seqs[n] \in Seq(S) /\ Len(seqs[n]) \in Nat  BY <1>4
<1>9. k - off[n] \in 1 .. Len(seqs[n]) /\ k = off[n] + (k - off[n])  BY <1>6, <1>7, <1>8
<1> QED  BY <1>4, <1>9

(* What a recursion of FlattenSeq holds after its n-th step.               *)
Holds(S, seqs, off, n, g) ==
  /\ g \in Seq(S)
  /\ Len(g) = off[n + 1]
  /\ \A i \in 1 .. n : \A j \in 1 .. Len(seqs[i]) : g[off[i] + j] = seqs[i][j]

(* The first n parts lie at their offsets in the n-th value.               *)
LEMMA FlattensHolds ==
  ASSUME NEW S, NEW seqs \in Seq(Seq(S)), NEW off, IsOffsets(seqs, off),
         NEW f, Flattens(seqs, Len(seqs), f)
  PROVE  \A n \in 1 .. Len(seqs) : Holds(S, seqs, off, n, f[n])
<1> DEFINE T == {n \in Nat : n + 1 <= Len(seqs) => Holds(S, seqs, off, n + 1, f[n + 1])}
<1>l. PICK l \in Nat : l = Len(seqs)  OBVIOUS
<1>s. \A i \in 1 .. l : seqs[i] \in Seq(S) /\ Len(seqs[i]) \in Nat  BY <1>l
<1>o. /\ off \in [1 .. l + 1 -> Nat]
      /\ off[1] = 0
      /\ \A i \in 1 .. l : off[i + 1] = off[i] + Len(seqs[i])
      BY <1>l DEF IsOffsets
<1>f. \A i \in 1 .. l : f[i] = IF i = 1 THEN seqs[i] ELSE f[i - 1] \o seqs[i]
      BY <1>l DEF Flattens
<1>g. \A i \in 1 .. l : i # 1 => f[i] = f[i - 1] \o seqs[i]  BY <1>f
<1>1. 0 \in T
  <2> SUFFICES ASSUME 1 <= l PROVE Holds(S, seqs, off, 1, f[1])
    <3>1. 0 + 1 = 1  OBVIOUS
    <3> QED  BY <1>l, <3>1
  <2>1. 1 \in 1 .. l /\ f[1] = seqs[1] /\ off[1 + 1] = off[1] + Len(seqs[1])  BY <1>f, <1>o
  <2>2. f[1] \in Seq(S) /\ Len(f[1]) = off[1 + 1]  BY <1>o, <1>s, <2>1
  <2>3. ASSUME NEW i \in 1 .. 1, NEW j \in 1 .. Len(seqs[i]) PROVE f[1][off[i] + j] = seqs[i][j]
    <3>1. i = 1  OBVIOUS
    <3>2. Len(seqs[1]) \in Nat /\ 0 + j = j  BY <1>s, <2>1, <3>1
    <3> QED  BY <1>o, <2>1, <3>1, <3>2
  <2> QED  BY <2>2, <2>3 DEF Holds
<1>2. ASSUME NEW n \in Nat, n \in T PROVE n + 1 \in T
  <2> SUFFICES ASSUME n + 1 + 1 <= l PROVE Holds(S, seqs, off, n + 1 + 1, f[n + 1 + 1])
      BY <1>l
  <2>1. PICK m \in Nat : m = n + 1  OBVIOUS
  <2>2. m \in 1 .. l /\ m + 1 \in 1 .. l /\ m + 1 # 1 /\ m + 1 - 1 = m  BY <2>1
  <2>3. Holds(S, seqs, off, m, f[m])  BY <1>2, <1>l, <2>1, <2>2
  <2>4. f[m + 1] = f[m] \o seqs[m + 1]
    <3>1. PICK k \in 1 .. l : k = m + 1 /\ k # 1 /\ k - 1 = m  BY <2>2
    <3>2. f[k] = f[k - 1] \o seqs[k]  BY <1>g, <3>1, Zenon
    <3> QED  BY <3>1, <3>2
  <2>5. PICK g, s : g = f[m] /\ s = seqs[m + 1]  OBVIOUS
  <2>6. g \in Seq(S) /\ s \in Seq(S)  BY <1>s, <2>2, <2>3, <2>5 DEF Holds
  <2>7. /\ g \o s \in Seq(S) /\ Len(g \o s) = Len(g) + Len(s)
        /\ \A k \in 1 .. Len(g) : (g \o s)[k] = g[k]
        /\ \A k \in 1 .. Len(s) : (g \o s)[Len(g) + k] = s[k]
        BY <2>6
  <2>8. Len(g) = off[m + 1] /\ off[m + 1 + 1] = off[m + 1] + Len(s)
        BY <1>o, <2>2, <2>3, <2>5 DEF Holds
  <2>9. ASSUME NEW i \in 1 .. m + 1, NEW j \in 1 .. Len(seqs[i])
        PROVE  (g \o s)[off[i] + j] = seqs[i][j]
    <3>1. CASE i = m + 1  BY <2>5, <2>7, <2>8, <3>1
    <3>2. CASE i # m + 1
      <4>1. i \in 1 .. m /\ i \in 1 .. l /\ m + 1 \in 1 .. l + 1 /\ i < m + 1  BY <2>2, <3>2
      <4>2. g[off[i] + j] = seqs[i][j]  BY <2>3, <2>5, <4>1 DEF Holds
      <4>3. off[i] + Len(seqs[i]) <= off[m + 1]  BY <1>l, <4>1, OffsetsMonotone
      <4>4. off[i] \in Nat /\ off[m + 1] \in Nat /\ Len(seqs[i]) \in Nat
        <5>1. i \in 1 .. l + 1  BY <4>1
        <5> QED  BY <1>o, <1>s, <4>1, <5>1
      <4>5. off[i] + j \in 1 .. Len(g)
        <5>1. PICK a, b, c : a = off[i] /\ b = off[m + 1] /\ c = Len(seqs[i])  OBVIOUS
        <5>2. a \in Nat /\ b \in Nat /\ c \in Nat /\ a + c <= b /\ Len(g) = b /\ j \in 1 .. c
              BY <2>8, <4>3, <4>4, <5>1
        <5>3. a + j \in 1 .. b  BY <5>2
        <5> QED  BY <5>1, <5>2, <5>3
      <4> QED  BY <2>7, <4>2, <4>5
    <3> QED  BY <3>1, <3>2
  <2>10. Holds(S, seqs, off, m + 1, g \o s)  BY <2>7, <2>8, <2>9 DEF Holds
  <2> QED  BY <2>1, <2>4, <2>5, <2>10
<1> HIDE DEF T
<1>3. \A n \in Nat : n \in T  BY <1>1, <1>2, InductionOnSet
<1>4. ASSUME NEW n \in 1 .. Len(seqs) PROVE Holds(S, seqs, off, n, f[n])
  <2>1. n - 1 \in Nat /\ n - 1 + 1 = n /\ n <= Len(seqs)  BY <1>l
  <2>2. n - 1 + 1 <= Len(seqs) => Holds(S, seqs, off, n - 1 + 1, f[n - 1 + 1])
        BY <1>3, <2>1 DEF T
  <2> QED  BY <2>1, <2>2
<1> QED  BY <1>4

(* FlattenSeq puts entry j of sequence i behind the i - 1 sequences before *)
(* it, and nothing else anywhere.                                          *)
LEMMA FlattenSeqPlaces ==
  ASSUME NEW S, NEW seqs \in Seq(Seq(S)), NEW off, IsOffsets(seqs, off)
  PROVE  /\ FlattenSeq(seqs) \in Seq(S)
         /\ Len(FlattenSeq(seqs)) = off[Len(seqs) + 1]
         /\ \A i \in 1 .. Len(seqs) : \A j \in 1 .. Len(seqs[i]) :
              FlattenSeq(seqs)[off[i] + j] = seqs[i][j]
<1>0. Len(seqs) \in Nat  OBVIOUS
<1>1. CASE Len(seqs) = 0
  <2>1. FlattenSeq(seqs) = <<>>  BY <1>1 DEF FlattenSeq
  <2>2. off[0 + 1] = 0  BY DEF IsOffsets
  <2>3. <<>> \in Seq(S) /\ Len(<<>>) = 0  OBVIOUS
  <2> QED  BY <1>1, <2>1, <2>2, <2>3
<1>2. CASE Len(seqs) # 0
  <2>1. PICK f : Flattens(seqs, Len(seqs), f) /\ FlattenSeq(seqs) = f[Len(seqs)]
        BY <1>0, <1>2, FlattenSeqDef
  <2>2. Len(seqs) \in 1 .. Len(seqs)  BY <1>0, <1>2
  <2>3. Holds(S, seqs, off, Len(seqs), FlattenSeq(seqs))  BY <2>1, <2>2, FlattensHolds
  <2> QED  BY <2>3 DEF Holds
<1> QED  BY <1>1, <1>2

(* Every entry of the flattened sequence is an entry of one of them,       *)
LEMMA FlattenSeqFrom ==
  ASSUME NEW S, NEW seqs \in Seq(Seq(S)), NEW k \in DOMAIN FlattenSeq(seqs)
  PROVE  \E i \in DOMAIN seqs : \E j \in DOMAIN seqs[i] : FlattenSeq(seqs)[k] = seqs[i][j]
<1>1. PICK off : IsOffsets(seqs, off)  BY OffsetsExist
<1>2. k \in 1 .. off[Len(seqs) + 1]  BY <1>1, FlattenSeqPlaces
<1>c. PICK i \in 1 .. Len(seqs) : \E j \in 1 .. Len(seqs[i]) : k = off[i] + j
      BY <1>1, <1>2, OffsetsCover
<1>3. PICK j \in 1 .. Len(seqs[i]) : k = off[i] + j  BY <1>c
<1>4. FlattenSeq(seqs)[k] = seqs[i][j]  BY <1>1, <1>3, FlattenSeqPlaces
<1>5. i \in DOMAIN seqs /\ j \in DOMAIN seqs[i]  BY <1>3
<1> QED  BY <1>4, <1>5

(* An entry has the neighbours it has in its own sequence.                 *)
Beside(u, k, s, j) ==
  /\ u[k] = s[j]
  /\ j # 1 => k - 1 \in DOMAIN u /\ u[k - 1] = s[j - 1]
  /\ j # Len(s) => k + 1 \in DOMAIN u /\ u[k + 1] = s[j + 1]
(* An entry of a flattened sequence is one of one of its parts, and beside *)
(* it are its neighbours there.                                            *)
LEMMA FlattenSeqWhere ==
  ASSUME NEW S, NEW seqs \in Seq(Seq(S)), NEW k \in DOMAIN FlattenSeq(seqs)
  PROVE  \E i \in DOMAIN seqs : \E j \in DOMAIN seqs[i] : Beside(FlattenSeq(seqs), k, seqs[i], j)
<1>1. PICK off : IsOffsets(seqs, off)  BY OffsetsExist
<1>2. k \in 1 .. off[Len(seqs) + 1]  BY <1>1, FlattenSeqPlaces
<1>c. PICK i \in 1 .. Len(seqs) : \E j \in 1 .. Len(seqs[i]) : k = off[i] + j
      BY <1>1, <1>2, OffsetsCover
<1>3. PICK j \in 1 .. Len(seqs[i]) : k = off[i] + j  BY <1>c
<1>4. PICK F : F = FlattenSeq(seqs)  OBVIOUS
<1>5. PICK l \in Nat : l = Len(seqs)  OBVIOUS
<1>f. /\ F \in Seq(S) /\ Len(F) = off[Len(seqs) + 1]
      /\ \A h \in 1 .. Len(seqs) : \A m \in 1 .. Len(seqs[h]) : F[off[h] + m] = seqs[h][m]
      BY <1>1, <1>4, FlattenSeqPlaces
<1>6. /\ F \in Seq(S) /\ Len(F) = off[l + 1]
      /\ \A m \in 1 .. Len(seqs[i]) : F[off[i] + m] = seqs[i][m]
      BY <1>f, <1>5
<1>7. off[i] + Len(seqs[i]) <= off[l + 1]
  <2>1. Len(seqs) + 1 \in 1 .. Len(seqs) + 1 /\ i < Len(seqs) + 1  BY <1>5
  <2>2. off[i] + Len(seqs[i]) <= off[Len(seqs) + 1]  BY <1>1, <2>1, OffsetsMonotone
  <2> QED  BY <1>5, <2>2
<1>8. off[i] \in Nat /\ Len(seqs[i]) \in Nat /\ off[l + 1] \in Nat
  <2>1. off \in [1 .. l + 1 -> Nat]  BY <1>1, <1>5 DEF IsOffsets
  <2>2. i \in 1 .. l + 1 /\ l + 1 \in 1 .. l + 1 /\ seqs[i] \in Seq(S)  BY <1>5
  <2> QED  BY <2>1, <2>2
<1>o. PICK a, q, z : a = off[i] /\ q = Len(seqs[i]) /\ z = off[l + 1]  OBVIOUS
<1>p. a \in Nat /\ q \in Nat /\ z \in Nat /\ a + q <= z /\ j \in 1 .. q /\ k = a + j
      BY <1>3, <1>7, <1>8, <1>o
<1>9. F[k] = seqs[i][j]  BY <1>3, <1>6
<1>d. DOMAIN F = 1 .. z /\ \A m \in 1 .. q : F[a + m] = seqs[i][m]  BY <1>6, <1>o
<1>10. ASSUME j # 1 PROVE k - 1 \in DOMAIN F /\ F[k - 1] = seqs[i][j - 1]
  <2>1. j - 1 \in 1 .. q /\ k - 1 = a + (j - 1) /\ k - 1 \in 1 .. z
        BY <1>p, <1>10
  <2> QED  BY <1>d, <2>1
<1>11. ASSUME j # Len(seqs[i]) PROVE k + 1 \in DOMAIN F /\ F[k + 1] = seqs[i][j + 1]
  <2>1. j + 1 \in 1 .. q /\ k + 1 = a + (j + 1) /\ k + 1 \in 1 .. z
    <3>1. j # q  BY <1>o, <1>11
    <3> QED  BY <1>p, <3>1
  <2> QED  BY <1>d, <2>1
<1>12. i \in DOMAIN seqs /\ j \in DOMAIN seqs[i]  BY <1>3
<1>13. Beside(F, k, seqs[i], j)  BY <1>9, <1>10, <1>11 DEF Beside
<1> QED  BY <1>4, <1>12, <1>13

(* and none is lost.                                                       *)
LEMMA FlattenSeqHas ==
  ASSUME NEW S, NEW seqs \in Seq(Seq(S)), NEW i \in 1 .. Len(seqs), NEW j \in 1 .. Len(seqs[i])
  PROVE  \E k \in DOMAIN FlattenSeq(seqs) : FlattenSeq(seqs)[k] = seqs[i][j]
<1>1. PICK off : IsOffsets(seqs, off)  BY OffsetsExist
<1>4. PICK F : F = FlattenSeq(seqs)  OBVIOUS
<1>5. PICK l \in Nat : l = Len(seqs)  OBVIOUS
<1>f. /\ F \in Seq(S) /\ Len(F) = off[Len(seqs) + 1]
      /\ \A h \in 1 .. Len(seqs) : \A m \in 1 .. Len(seqs[h]) : F[off[h] + m] = seqs[h][m]
      BY <1>1, <1>4, FlattenSeqPlaces
<1>6. F \in Seq(S) /\ Len(F) = off[l + 1] /\ F[off[i] + j] = seqs[i][j]  BY <1>5, <1>f
<1>7. off[i] + Len(seqs[i]) <= off[l + 1]
  <2>1. Len(seqs) + 1 \in 1 .. Len(seqs) + 1 /\ i < Len(seqs) + 1  BY <1>5
  <2>2. off[i] + Len(seqs[i]) <= off[Len(seqs) + 1]  BY <1>1, <2>1, OffsetsMonotone
  <2> QED  BY <1>5, <2>2
<1>8. off[i] \in Nat /\ Len(seqs[i]) \in Nat /\ off[l + 1] \in Nat
  <2>1. off \in [1 .. l + 1 -> Nat]  BY <1>1, <1>5 DEF IsOffsets
  <2>2. i \in 1 .. l + 1 /\ l + 1 \in 1 .. l + 1 /\ seqs[i] \in Seq(S)  BY <1>5
  <2> QED  BY <2>1, <2>2
<1>o. PICK a, q, z : a = off[i] /\ q = Len(seqs[i]) /\ z = off[l + 1]  OBVIOUS
<1>p. a \in Nat /\ q \in Nat /\ z \in Nat /\ a + q <= z /\ j \in 1 .. q
      BY <1>7, <1>8, <1>o
<1>9. off[i] + j \in 1 .. Len(F)
  <2>1. a + j \in 1 .. z  BY <1>p
  <2> QED  BY <1>6, <1>o, <2>1
<1> QED  BY <1>4, <1>6, <1>9

(* and of no two places when they have no entry in common and none twice.  *)
LEMMA FlattenSeqInjective ==
  ASSUME NEW S, NEW seqs \in Seq(Seq(S)),
         \A h, i \in DOMAIN seqs : \A j \in DOMAIN seqs[h], l \in DOMAIN seqs[i] :
           seqs[h][j] = seqs[i][l] => h = i /\ j = l,
         NEW k \in DOMAIN FlattenSeq(seqs), NEW m \in DOMAIN FlattenSeq(seqs),
         FlattenSeq(seqs)[k] = FlattenSeq(seqs)[m]
  PROVE  k = m
<1>1. PICK off : IsOffsets(seqs, off)  BY OffsetsExist
<1>2. k \in 1 .. off[Len(seqs) + 1] /\ m \in 1 .. off[Len(seqs) + 1]  BY <1>1, FlattenSeqPlaces
<1>c. PICK h \in 1 .. Len(seqs) : \E j \in 1 .. Len(seqs[h]) : k = off[h] + j
      BY <1>1, <1>2, OffsetsCover
<1>3. PICK j \in 1 .. Len(seqs[h]) : k = off[h] + j  BY <1>c
<1>d. PICK i \in 1 .. Len(seqs) : \E l \in 1 .. Len(seqs[i]) : m = off[i] + l
      BY <1>1, <1>2, OffsetsCover
<1>4. PICK l \in 1 .. Len(seqs[i]) : m = off[i] + l  BY <1>d
<1>5. FlattenSeq(seqs)[k] = seqs[h][j] /\ FlattenSeq(seqs)[m] = seqs[i][l]
      BY <1>1, <1>3, <1>4, FlattenSeqPlaces
<1>6. h \in DOMAIN seqs /\ i \in DOMAIN seqs /\ j \in DOMAIN seqs[h] /\ l \in DOMAIN seqs[i]
      BY <1>3, <1>4
<1>7. seqs[h][j] = seqs[i][l]  BY <1>5
<1>8. h = i /\ j = l  BY <1>6, <1>7
<1> QED  BY <1>3, <1>4, <1>8
-----------------------------------------------------------------------------
(* Where the entries of two sequences are, one behind the other.           *)
LEMMA ConcatPlaces ==
  ASSUME NEW S, NEW a \in Seq(S), NEW b \in Seq(S)
  PROVE  /\ a \o b \in Seq(S) /\ Len(a \o b) = Len(a) + Len(b)
         /\ \A i \in 1 .. Len(a) : (a \o b)[i] = a[i]
         /\ \A i \in 1 .. Len(b) : (a \o b)[Len(a) + i] = b[i]
OBVIOUS

(* A function on 1 .. n is a sequence.                                     *)
ListOf(s, n, X) == s \in [1 .. n -> X]
(* Such a function is a sequence of that length.                           *)
LEMMA ListIsSeq ==
  ASSUME NEW X, NEW n \in Nat, NEW s, ListOf(s, n, X)
  PROVE  s \in Seq(X) /\ Len(s) = n
BY DEF ListOf

(* Two sequences of one length with the same entries are the same.         *)
LEMMA SameSeq ==
  ASSUME NEW S, NEW a \in Seq(S), NEW b \in Seq(S), Len(a) = Len(b),
         \A i \in 1 .. Len(a) : a[i] = b[i]
  PROVE  a = b
OBVIOUS

(* What is found in the first or the second sequence is found in both.     *)
LEMMA ConcatIs ==
  ASSUME NEW S, NEW a \in Seq(S), NEW b \in Seq(S), NEW c \in Seq(S), Len(c) = Len(a) + Len(b),
         \A i \in 1 .. Len(a) : c[i] = a[i], \A i \in 1 .. Len(b) : c[Len(a) + i] = b[i]
  PROVE  c = a \o b
<1>1. PICK d : d = a \o b  OBVIOUS
<1>2. /\ d \in Seq(S) /\ Len(d) = Len(a) + Len(b)
      /\ \A i \in 1 .. Len(a) : d[i] = a[i]
      /\ \A i \in 1 .. Len(b) : d[Len(a) + i] = b[i]
      BY <1>1, ConcatPlaces
<1>3. ASSUME NEW k \in 1 .. Len(c) PROVE c[k] = d[k]
  <2>0. Len(a) \in Nat /\ Len(b) \in Nat  OBVIOUS
  <2>1. CASE k <= Len(a)
    <3>1. k \in 1 .. Len(a)  BY <2>0, <2>1
    <3> QED  BY <1>2, <3>1
  <2>2. CASE k > Len(a)
    <3>1. k - Len(a) \in 1 .. Len(b) /\ k = Len(a) + (k - Len(a))  BY <2>0, <2>2
    <3> QED  BY <1>2, <3>1
  <2> QED  BY <2>0, <2>1, <2>2
<1> QED  BY <1>1, <1>2, <1>3, SameSeq

(* Two sequences with the entries of two sequences, one behind the other.  *)
LEMMA FlattenSeqConcat ==
  ASSUME NEW S, NEW a \in Seq(Seq(S)), NEW b \in Seq(Seq(S))
  PROVE  FlattenSeq(a \o b) = FlattenSeq(a) \o FlattenSeq(b)
<1>1. PICK u : IsOffsets(a, u)  BY OffsetsExist
<1>2. PICK v : IsOffsets(b, v)  BY OffsetsExist
<1>3. PICK m \in Nat : m = Len(a)  OBVIOUS
<1>4. PICK n \in Nat : n = Len(b)  OBVIOUS
<1>5. PICK c : c = a \o b  OBVIOUS
<1>6. /\ c \in Seq(Seq(S)) /\ Len(c) = m + n
      /\ \A i \in 1 .. m : c[i] = a[i]
      /\ \A i \in 1 .. n : c[m + i] = b[i]
      BY <1>3, <1>4, <1>5
<1>7. PICK w : w = [i \in 1 .. m + n + 1 |-> IF i <= m + 1 THEN u[i] ELSE u[m + 1] + v[i - m]]  OBVIOUS
<1>8. /\ u \in [1 .. m + 1 -> Nat] /\ u[1] = 0 /\ \A i \in 1 .. m : u[i + 1] = u[i] + Len(a[i])
      /\ v \in [1 .. n + 1 -> Nat] /\ v[1] = 0 /\ \A i \in 1 .. n : v[i + 1] = v[i] + Len(b[i])
      BY <1>1, <1>2, <1>3, <1>4 DEF IsOffsets
<1>9. \A i \in 1 .. n + 1 : w[m + i] = u[m + 1] + v[i]
  <2> TAKE i \in 1 .. n + 1
  <2>1. m + i \in 1 .. m + n + 1 /\ (m + i <= m + 1 <=> i = 1) /\ (m + i) - m = i /\ m + 1 \in 1 .. m + 1
        OBVIOUS
  <2>2. CASE i = 1  BY <1>7, <1>8, <2>1, <2>2
  <2>3. CASE i # 1  BY <1>7, <2>1, <2>3
  <2> QED  BY <2>2, <2>3
<1>10. \A i \in 1 .. m + 1 : w[i] = u[i]  BY <1>7
<1>11. IsOffsets(c, w)
  <2>1. w \in [1 .. Len(c) + 1 -> Nat]
    <3> SUFFICES ASSUME NEW i \in 1 .. m + n + 1
                 PROVE  (IF i <= m + 1 THEN u[i] ELSE u[m + 1] + v[i - m]) \in Nat
        BY <1>6, <1>7
    <3>1. i > m + 1 => i - m \in 1 .. n + 1  OBVIOUS
    <3>2. i <= m + 1 => i \in 1 .. m + 1  OBVIOUS
    <3> QED  BY <1>8, <3>1, <3>2
  <2>2. w[1] = 0  BY <1>8, <1>10
  <2>3. ASSUME NEW i \in 1 .. Len(c) PROVE w[i + 1] = w[i] + Len(c[i])
    <3>1. CASE i <= m
      <4>1. i \in 1 .. m /\ i \in 1 .. m + 1 /\ i + 1 \in 1 .. m + 1  BY <3>1
      <4> QED  BY <1>6, <1>8, <1>10, <4>1
    <3>2. CASE i > m
      <4>0. i - m \in 1 .. n /\ i = m + (i - m)  BY <1>6, <3>2
      <4>1. PICK k \in 1 .. n : i = m + k  BY <4>0
      <4>2. k \in 1 .. n + 1 /\ k + 1 \in 1 .. n + 1 /\ i + 1 = m + (k + 1)  BY <4>1
      <4>3. w[i + 1] = u[m + 1] + v[k + 1] /\ w[i] = u[m + 1] + v[k]  BY <1>9, <4>1, <4>2
      <4>4. v[k + 1] = v[k] + Len(b[k]) /\ c[i] = b[k]  BY <1>6, <1>8, <4>1
      <4>5. u[m + 1] \in Nat /\ v[k] \in Nat /\ Len(b[k]) \in Nat
        <5>1. b[k] \in Seq(S) /\ m + 1 \in 1 .. m + 1  BY <1>4
        <5> QED  BY <1>8, <4>2, <5>1
      <4> QED  BY <4>3, <4>4, <4>5
    <3> QED  BY <3>1, <3>2, <1>6
  <2> QED  BY <2>1, <2>2, <2>3 DEF IsOffsets
<1>12. PICK fa : fa = FlattenSeq(a)  OBVIOUS
<1>13. PICK fb : fb = FlattenSeq(b)  OBVIOUS
<1>14. PICK fc : fc = FlattenSeq(c)  OBVIOUS
<1>15. /\ fa \in Seq(S) /\ Len(fa) = u[m + 1]
       /\ \A i \in 1 .. m : \A j \in 1 .. Len(a[i]) : fa[u[i] + j] = a[i][j]
       BY <1>1, <1>3, <1>12, FlattenSeqPlaces
<1>16. /\ fb \in Seq(S) /\ Len(fb) = v[n + 1]
       /\ \A i \in 1 .. n : \A j \in 1 .. Len(b[i]) : fb[v[i] + j] = b[i][j]
  <2>1. /\ FlattenSeq(b) \in Seq(S) /\ Len(FlattenSeq(b)) = v[Len(b) + 1]
        /\ \A i \in 1 .. Len(b) : \A j \in 1 .. Len(b[i]) : FlattenSeq(b)[v[i] + j] = b[i][j]
        BY <1>2, FlattenSeqPlaces
  <2> QED  BY <1>4, <1>13, <2>1
<1>17. /\ fc \in Seq(S) /\ Len(fc) = w[m + n + 1]
       /\ \A i \in 1 .. m + n : \A j \in 1 .. Len(c[i]) : fc[w[i] + j] = c[i][j]
  <2>1. /\ FlattenSeq(c) \in Seq(S) /\ Len(FlattenSeq(c)) = w[Len(c) + 1]
        /\ \A i \in 1 .. Len(c) : \A j \in 1 .. Len(c[i]) : FlattenSeq(c)[w[i] + j] = c[i][j]
    <3>1. c \in Seq(Seq(S))  BY <1>6
    <3> QED  BY <3>1, <1>11, FlattenSeqPlaces
  <2> QED  BY <1>6, <1>14, <2>1
<1>18. Len(fc) = Len(fa) + Len(fb)
  <2>1. n + 1 \in 1 .. n + 1 /\ m + (n + 1) = m + n + 1  OBVIOUS
  <2> QED  BY <1>9, <1>15, <1>16, <1>17, <2>1
<1>19. ASSUME NEW k \in 1 .. Len(fa) PROVE fc[k] = fa[k]
  <2>1. k \in 1 .. u[Len(a) + 1]  BY <1>3, <1>15
  <2>2. PICK i \in 1 .. m : \E j \in 1 .. Len(a[i]) : k = u[i] + j  BY <1>1, <1>3, <2>1, OffsetsCover
  <2>3. PICK j \in 1 .. Len(a[i]) : k = u[i] + j  BY <2>2
  <2>4. i \in 1 .. m + n /\ i \in 1 .. m + 1  OBVIOUS
  <2>5. c[i] = a[i] /\ w[i] = u[i]  BY <1>6, <1>10, <2>4
  <2>6. fc[k] = a[i][j]  BY <1>17, <2>3, <2>4, <2>5
  <2> QED  BY <1>15, <2>3, <2>6
<1>20. ASSUME NEW k \in 1 .. Len(fb) PROVE fc[Len(fa) + k] = fb[k]
  <2>1. k \in 1 .. v[Len(b) + 1]  BY <1>4, <1>16
  <2>2. PICK i \in 1 .. n : \E j \in 1 .. Len(b[i]) : k = v[i] + j
    <3>1. \E i \in 1 .. Len(b) : \E j \in 1 .. Len(b[i]) : k = v[i] + j
      <4>1. b \in Seq(Seq(S)) /\ IsOffsets(b, v)  BY <1>2
      <4> QED  BY <4>1, <2>1, OffsetsCover, SMTT(60)
    <3> QED  BY <1>4, <3>1
  <2>3. PICK j \in 1 .. Len(b[i]) : k = v[i] + j  BY <2>2
  <2>4. m + i \in 1 .. m + n /\ i \in 1 .. n + 1  OBVIOUS
  <2>5. c[m + i] = b[i] /\ w[m + i] = u[m + 1] + v[i]  BY <1>6, <1>9, <2>4
  <2>6. fc[w[m + i] + j] = b[i][j]  BY <1>17, <2>3, <2>4, <2>5
  <2>7. v[i] \in Nat /\ u[m + 1] \in Nat /\ j \in Nat
    <3>1. i \in 1 .. n + 1 /\ m + 1 \in 1 .. m + 1 /\ b[i] \in Seq(S)  BY <1>4, <2>4
    <3>2. Len(b[i]) \in Nat  BY <3>1
    <3> QED  BY <1>8, <2>3, <3>1, <3>2
  <2>8. w[m + i] + j = Len(fa) + k
    <3>1. Len(fa) = u[m + 1]  BY <1>15
    <3> QED  BY <3>1, <2>3, <2>5, <2>7
  <2> QED  BY <1>16, <2>3, <2>6, <2>8
<1>21. fc = fa \o fb  BY <1>15, <1>16, <1>17, <1>18, <1>19, <1>20, ConcatIs
<1> QED  BY <1>5, <1>12, <1>13, <1>14, <1>21

(* No parts flatten into nothing.                                          *)
LEMMA FlattenSeqEmpty == FlattenSeq(<<>>) = <<>>
BY DEF FlattenSeq

(* One part flattens into itself.                                          *)
LEMMA FlattenSeqOne == ASSUME NEW S, NEW s \in Seq(S) PROVE FlattenSeq(<<s>>) = s
<1>1. PICK ss : ss = <<s>>  OBVIOUS
<1>2. Len(ss) = 1 /\ ss[1] = s  BY <1>1
<1>3. PICK f : Flattens(ss, Len(ss), f) /\ FlattenSeq(ss) = f[Len(ss)]
  <2>1. Len(ss) \in Nat /\ Len(ss) # 0  BY <1>2
  <2> QED  BY <2>1, FlattenSeqDef
<1>4. f[1] = s  BY <1>2, <1>3 DEF Flattens
<1> QED  BY <1>1, <1>2, <1>3, <1>4
-----------------------------------------------------------------------------
(* What the entries of s stand for by P, one behind the other.             *)
Mapped(P, s) == [k \in DOMAIN s |-> P[s[k]]]
Spread(P, s) == FlattenSeq(Mapped(P, s))
\* P gives every element of A an element of X.
Maps(P, A, X) == \A p \in A : P[p] \in X

(* Mapping the entries keeps the length.                                   *)
LEMMA MappedType ==
  ASSUME NEW A, NEW X, NEW P, Maps(P, A, X), NEW s \in Seq(A)
  PROVE  /\ Mapped(P, s) \in Seq(X) /\ Len(Mapped(P, s)) = Len(s)
         /\ \A k \in 1 .. Len(s) : Mapped(P, s)[k] = P[s[k]]
<1>1. PICK n \in Nat : n = Len(s) /\ DOMAIN s = 1 .. n  OBVIOUS
<1>2. \A k \in 1 .. n : s[k] \in A  BY <1>1
<1>3. Mapped(P, s) \in [1 .. n -> X]  BY <1>1, <1>2 DEF Mapped, Maps
<1>4. \A k \in 1 .. n : Mapped(P, s)[k] = P[s[k]]  BY <1>1 DEF Mapped
<1> QED  BY <1>1, <1>3, <1>4

(* Mapping commutes with concatenation.                                    *)
LEMMA MappedConcat ==
  ASSUME NEW A, NEW X, NEW P, Maps(P, A, X), NEW s \in Seq(A), NEW t \in Seq(A)
  PROVE  Mapped(P, s \o t) = Mapped(P, s) \o Mapped(P, t)
<1>1. PICK d : d = s \o t  OBVIOUS
<1>2. /\ d \in Seq(A) /\ Len(d) = Len(s) + Len(t)
      /\ \A i \in 1 .. Len(s) : d[i] = s[i]
      /\ \A i \in 1 .. Len(t) : d[Len(s) + i] = t[i]
      BY <1>1, ConcatPlaces
<1>a. PICK a : a = Mapped(P, s)  OBVIOUS
<1>b. PICK b : b = Mapped(P, t)  OBVIOUS
<1>c. PICK c : c = Mapped(P, d)  OBVIOUS
<1>3. a \in Seq(X) /\ Len(a) = Len(s) /\ \A k \in 1 .. Len(s) : a[k] = P[s[k]]  BY <1>a, MappedType
<1>4. b \in Seq(X) /\ Len(b) = Len(t) /\ \A k \in 1 .. Len(t) : b[k] = P[t[k]]  BY <1>b, MappedType
<1>5. c \in Seq(X) /\ Len(c) = Len(d) /\ \A k \in 1 .. Len(d) : c[k] = P[d[k]]  BY <1>2, <1>c, MappedType
<1>6. Len(s) \in Nat /\ Len(t) \in Nat  OBVIOUS
<1>8. \A i \in 1 .. Len(a) : c[i] = a[i]  BY <1>2, <1>3, <1>5, <1>6
<1>9. ASSUME NEW i \in 1 .. Len(b) PROVE c[Len(a) + i] = b[i]
  <2>1. i \in 1 .. Len(t) /\ Len(s) + i \in 1 .. Len(d)  BY <1>2, <1>4, <1>6
  <2>2. c[Len(s) + i] = P[t[i]] /\ b[i] = P[t[i]]  BY <1>2, <1>4, <1>5, <2>1
  <2> QED  BY <1>3, <2>2
<1>10. c = a \o b
  <2>1. a \in Seq(X) /\ b \in Seq(X) /\ c \in Seq(X) /\ Len(c) = Len(a) + Len(b)  BY <1>2, <1>3, <1>4, <1>5
  <2> QED  BY <1>8, <1>9, <2>1, ConcatIs
<1> QED  BY <1>1, <1>a, <1>b, <1>c, <1>10

(* Sequences over a set flatten into a sequence over it.                   *)
LEMMA FlattenSeqType ==
  ASSUME NEW S, NEW ss \in Seq(Seq(S))
  PROVE  FlattenSeq(ss) \in Seq(S)
<1>1. PICK off : IsOffsets(ss, off)  BY OffsetsExist
<1> QED  BY <1>1, FlattenSeqPlaces

(* Entries that stand for sequences map to a sequence of sequences.        *)
LEMMA SpreadsMapped ==
  ASSUME NEW A, NEW S, NEW P, Maps(P, A, Seq(S)), NEW s \in Seq(A)
  PROVE  Mapped(P, s) \in Seq(Seq(S))
BY MappedType

(* What the entries stand for, one behind the other, is a sequence.        *)
LEMMA SpreadType ==
  ASSUME NEW A, NEW S, NEW P, Maps(P, A, Seq(S)), NEW s \in Seq(A)
  PROVE  Spread(P, s) \in Seq(S)
BY SpreadsMapped, FlattenSeqType DEF Spread

(* Spreading commutes with concatenation.                                  *)
LEMMA SpreadConcat ==
  ASSUME NEW A, NEW S, NEW P, Maps(P, A, Seq(S)), NEW s \in Seq(A), NEW t \in Seq(A)
  PROVE  Spread(P, s \o t) = Spread(P, s) \o Spread(P, t)
<1>3. Mapped(P, s \o t) = Mapped(P, s) \o Mapped(P, t)  BY MappedConcat
<1>4. PICK a \in Seq(Seq(S)) : a = Mapped(P, s)  BY SpreadsMapped
<1>5. PICK b \in Seq(Seq(S)) : b = Mapped(P, t)  BY SpreadsMapped
<1>6. FlattenSeq(a \o b) = FlattenSeq(a) \o FlattenSeq(b)  BY FlattenSeqConcat
<1> QED  BY <1>3, <1>4, <1>5, <1>6 DEF Spread

(* No entries stand for nothing.                                           *)
LEMMA SpreadEmpty == ASSUME NEW P PROVE Spread(P, <<>>) = <<>>
<1>1. Mapped(P, <<>>) = <<>>  BY DEF Mapped
<1> QED  BY <1>1, FlattenSeqEmpty DEF Spread

(* One entry stands for its own sequence.                                  *)
LEMMA SpreadOne ==
  ASSUME NEW A, NEW S, NEW P, Maps(P, A, Seq(S)), NEW p \in A
  PROVE  Spread(P, <<p>>) = P[p]
<1>1. Mapped(P, <<p>>) = <<P[p]>>  BY DEF Mapped
<1>2. P[p] \in Seq(S)  BY DEF Maps
<1> QED  BY <1>1, <1>2, FlattenSeqOne DEF Spread

(* A prefix that grows by one has the next entry at its end.               *)
LEMMA PrefixPlaces ==
  ASSUME NEW S, NEW s \in Seq(S), NEW n \in Nat, n < Len(s)
  PROVE  /\ SubSeq(s, 1, n) \in Seq(S)
         /\ SubSeq(s, 1, n + 1) = SubSeq(s, 1, n) \o <<s[n + 1]>>
OBVIOUS

(* The shortest prefix is empty, the longest the whole.                    *)
LEMMA WholePrefix ==
  ASSUME NEW S, NEW s \in Seq(S) PROVE SubSeq(s, 1, 0) = <<>> /\ SubSeq(s, 1, Len(s)) = s
OBVIOUS

(* Spreading flattened parts with one more part behind them spreads that   *)
(* part behind the rest.                                                   *)
LEMMA SpreadNext ==
  ASSUME NEW A, NEW S, NEW P, Maps(P, A, Seq(S)), NEW a \in Seq(Seq(A)), NEW s \in Seq(A),
         NEW b, b = <<s>>
  PROVE  Spread(P, FlattenSeq(a \o b)) = Spread(P, FlattenSeq(a)) \o Spread(P, s)
<1>2. b \in Seq(Seq(A))  OBVIOUS
<1>3. FlattenSeq(a \o b) = FlattenSeq(a) \o FlattenSeq(b)  BY <1>2, FlattenSeqConcat
<1>4. FlattenSeq(b) = s  BY FlattenSeqOne
<1>5. PICK f \in Seq(A) : f = FlattenSeq(a)  BY FlattenSeqType
<1>6. Spread(P, f \o s) = Spread(P, f) \o Spread(P, s)  BY SpreadConcat
<1> QED  BY <1>3, <1>4, <1>5, <1>6

(* Spreading sequences that lie one behind the other spreads each.         *)
LEMMA SpreadFlatten ==
  ASSUME NEW A, NEW S, NEW P, Maps(P, A, Seq(S)), NEW ss \in Seq(Seq(A)),
         NEW tt \in Seq(Seq(S)), Len(tt) = Len(ss), \A i \in 1 .. Len(ss) : tt[i] = Spread(P, ss[i])
  PROVE  Spread(P, FlattenSeq(ss)) = FlattenSeq(tt)
<1> DEFINE T == {n \in Nat : n <= Len(ss) => Spread(P, FlattenSeq(SubSeq(ss, 1, n))) = FlattenSeq(SubSeq(tt, 1, n))}
<1>2. 0 \in T
  <2>1. SubSeq(ss, 1, 0) = <<>> /\ SubSeq(tt, 1, 0) = <<>>  BY WholePrefix
  <2> QED  BY <2>1, FlattenSeqEmpty, SpreadEmpty
<1>3. ASSUME NEW n \in Nat, n \in T PROVE n + 1 \in T
  <2> SUFFICES ASSUME n + 1 <= Len(ss)
               PROVE  Spread(P, FlattenSeq(SubSeq(ss, 1, n + 1))) = FlattenSeq(SubSeq(tt, 1, n + 1))
      OBVIOUS
  <2>0. Len(ss) \in Nat /\ n < Len(ss) /\ n <= Len(ss) /\ n + 1 \in 1 .. Len(ss)  OBVIOUS
  <2>1. Spread(P, FlattenSeq(SubSeq(ss, 1, n))) = FlattenSeq(SubSeq(tt, 1, n))  BY <1>3, <2>0
  <2>a. PICK s \in Seq(A) : s = ss[n + 1]  BY <2>0
  <2>b. PICK t \in Seq(S) : t = tt[n + 1] /\ t = Spread(P, s)
    <3>1. tt[n + 1] = Spread(P, s)  BY <2>0, <2>a
    <3>2. Spread(P, s) \in Seq(S)  BY SpreadType
    <3> QED  BY <3>1, <3>2
  <2>3. PICK a \in Seq(Seq(A)) : a = SubSeq(ss, 1, n)  BY <2>0, PrefixPlaces
  <2>4. PICK b \in Seq(Seq(S)) : b = SubSeq(tt, 1, n)  BY <2>0, PrefixPlaces
  <2>c. PICK d : d = <<s>>  OBVIOUS
  <2>5. SubSeq(ss, 1, n + 1) = a \o d  BY <2>c, <2>0, <2>3, <2>a, PrefixPlaces
  <2>6. SubSeq(tt, 1, n + 1) = b \o <<t>>  BY <2>0, <2>4, <2>b, PrefixPlaces
  <2>7. <<s>> \in Seq(Seq(A)) /\ <<t>> \in Seq(Seq(S))  OBVIOUS
  <2>8. Spread(P, FlattenSeq(a \o d)) = Spread(P, FlattenSeq(a)) \o Spread(P, s)  BY <2>c, SpreadNext
  <2>9. FlattenSeq(b \o <<t>>) = FlattenSeq(b) \o t
    <3>1. FlattenSeq(b \o <<t>>) = FlattenSeq(b) \o FlattenSeq(<<t>>)  BY <2>7, FlattenSeqConcat
    <3>2. FlattenSeq(<<t>>) = t  BY FlattenSeqOne
    <3> QED  BY <3>1, <3>2
  <2> QED  BY <2>1, <2>3, <2>4, <2>5, <2>6, <2>8, <2>9, <2>b
<1>4. Len(ss) \in T
  <2>1. Len(ss) \in Nat  OBVIOUS
  <2> HIDE DEF T
  <2> QED  BY <1>2, <1>3, <2>1, InductionOnSet
<1>5. SubSeq(ss, 1, Len(ss)) = ss /\ SubSeq(tt, 1, Len(ss)) = tt
  <2>1. SubSeq(tt, 1, Len(tt)) = tt  BY WholePrefix
  <2>2. SubSeq(ss, 1, Len(ss)) = ss  BY WholePrefix
  <2> QED  BY <2>1, <2>2
<1>6. Len(ss) \in Nat /\ Len(ss) <= Len(ss)  OBVIOUS
<1> QED  BY <1>4, <1>5, <1>6
------------------------------------------------------------------------------
(* A sequence, whatever it holds.                                          *)
IsSeq(s) == s \in Seq(ToSet(s))
(* A sequence has its entries at 1 up to its length.                       *)
LEMMA SeqPlaces ==
  ASSUME NEW X, NEW s \in Seq(X)
  PROVE  Len(s) \in Nat /\ DOMAIN s = 1 .. Len(s) /\ s = [i \in 1 .. Len(s) |-> s[i]]
OBVIOUS

(* One of a sequence is of its set.                                        *)
LEMMA SeqEntry == ASSUME NEW X, NEW s \in Seq(X), NEW i \in 1 .. Len(s) PROVE s[i] \in X  OBVIOUS

(* The entries of a sequence of positive numbers are positive.             *)
LEMMA Dimension ==
  ASSUME NEW s \in Seq(Nat \ {0}), NEW i \in 1 .. Len(s)
  PROVE  s[i] \in Nat /\ s[i] > 0
<1>1. PICK X : X = Nat \ {0}  OBVIOUS
<1>2. s[i] \in X  BY <1>1, SeqEntry
<1> QED  BY <1>1, <1>2

(* A sequence is one of its entries.                                       *)
LEMMA SeqEntries ==
  ASSUME NEW s, IsSeq(s)
  PROVE  /\ Len(s) \in Nat /\ DOMAIN s = 1 .. Len(s) /\ s = [i \in 1 .. Len(s) |-> s[i]]
         /\ \A i \in DOMAIN s : s[i] \in ToSet(s)
<1>1. Len(s) \in Nat /\ DOMAIN s = 1 .. Len(s) /\ s = [i \in 1 .. Len(s) |-> s[i]]
      BY SeqPlaces DEF IsSeq
<1>2. \A i \in DOMAIN s : s[i] \in ToSet(s)  BY DEF ToSet
<1> QED  BY <1>1, <1>2

(* A function on 1 .. n is a sequence.                                     *)
LEMMA IsSeqIf ==
  ASSUME NEW s, NEW n \in Nat, DOMAIN s = 1 .. n, s = [i \in 1 .. n |-> s[i]]
  PROVE  IsSeq(s) /\ Len(s) = n
<1>1. \A i \in 1 .. n : s[i] \in ToSet(s)  BY DEF ToSet
<1>2. PICK X : X = ToSet(s)  OBVIOUS
<1>3. s \in [1 .. n -> X]  BY <1>1, <1>2
<1>4. s \in Seq(X) /\ Len(s) = n  BY <1>3
<1> QED  BY <1>2, <1>4 DEF IsSeq

(* A sequence over any set is one of its entries.                          *)
LEMMA IsSeqOver ==
  ASSUME NEW X, NEW s \in Seq(X)
  PROVE  IsSeq(s)
<1>1. Len(s) \in Nat /\ DOMAIN s = 1 .. Len(s) /\ s = [i \in 1 .. Len(s) |-> s[i]]  OBVIOUS
<1> QED  BY <1>1, IsSeqIf

(* Sequences of sequences flatten into a sequence of their entries.        *)
EntriesOf(ss) == UNION {ToSet(ss[i]) : i \in DOMAIN ss}
IsSeqs(ss) == \E n \in Nat : DOMAIN ss = 1 .. n /\ ss = [i \in 1 .. n |-> ss[i]] /\ \A i \in 1 .. n : IsSeq(ss[i])
(* Lists of lists are sequences of sequences.                              *)
LEMMA SeqsType ==
  ASSUME NEW ss, IsSeqs(ss)
  PROVE  ss \in Seq(Seq(EntriesOf(ss)))
<1>1. PICK n \in Nat : DOMAIN ss = 1 .. n /\ ss = [i \in 1 .. n |-> ss[i]] /\ \A i \in 1 .. n : IsSeq(ss[i])
      BY DEF IsSeqs
<1>2. PICK X : X = EntriesOf(ss)  OBVIOUS
<1>3. ASSUME NEW i \in 1 .. n PROVE ss[i] \in Seq(X)
  <2>1. PICK s : s = ss[i]  OBVIOUS
  <2>2. IsSeq(s)  BY <1>1, <2>1
  <2>3. /\ Len(s) \in Nat /\ DOMAIN s = 1 .. Len(s) /\ s = [k \in 1 .. Len(s) |-> s[k]]
        /\ \A k \in DOMAIN s : s[k] \in ToSet(s)
        BY <2>2, SeqEntries
  <2>4. i \in DOMAIN ss  BY <1>1
  <2>5. ToSet(s) \subseteq X  BY <1>2, <2>1, <2>4 DEF EntriesOf
  <2>6. s \in [1 .. Len(s) -> X]  BY <2>3, <2>5
  <2>7. s \in Seq(X)  BY <2>3, <2>6
  <2> QED  BY <2>1, <2>7
<1>4. PICK Y : Y = Seq(X)  OBVIOUS
<1>5. \A i \in 1 .. n : ss[i] \in Y  BY <1>3, <1>4
<1>6. ss \in [1 .. n -> Y]  BY <1>1, <1>5
<1>7. ss \in Seq(Y)  BY <1>6
<1> QED  BY <1>2, <1>4, <1>7

(* What is in a flattened list is what is in its lists.                    *)
LEMMA FlatEntries ==
  ASSUME NEW ss, IsSeqs(ss)
  PROVE  /\ IsSeq(FlattenSeq(ss))
         /\ \A k \in DOMAIN FlattenSeq(ss) : \E i \in DOMAIN ss : \E j \in DOMAIN ss[i] : FlattenSeq(ss)[k] = ss[i][j]
         /\ \A i \in DOMAIN ss : \A j \in DOMAIN ss[i] : \E k \in DOMAIN FlattenSeq(ss) : FlattenSeq(ss)[k] = ss[i][j]
<1>1. PICK X : X = EntriesOf(ss)  OBVIOUS
<1>2. ss \in Seq(Seq(X))  BY <1>1, SeqsType
<1>3. IsSeq(FlattenSeq(ss))
  <2>1. FlattenSeq(ss) \in Seq(X)  BY <1>2, FlattenSeqType
  <2> QED  BY <2>1, IsSeqOver
<1>4. ASSUME NEW k \in DOMAIN FlattenSeq(ss)
      PROVE  \E i \in DOMAIN ss : \E j \in DOMAIN ss[i] : FlattenSeq(ss)[k] = ss[i][j]
      BY <1>2, FlattenSeqFrom
<1>5. ASSUME NEW i \in DOMAIN ss, NEW j \in DOMAIN ss[i]
      PROVE  \E k \in DOMAIN FlattenSeq(ss) : FlattenSeq(ss)[k] = ss[i][j]
  <2>1. PICK n \in Nat : DOMAIN ss = 1 .. n /\ ss = [h \in 1 .. n |-> ss[h]] /\ \A h \in 1 .. n : IsSeq(ss[h])
        BY DEF IsSeqs
  <2>2. i \in 1 .. Len(ss)  BY <1>2
  <2>3. IsSeq(ss[i])  BY <2>1
  <2>4. j \in 1 .. Len(ss[i])  BY <2>3, SeqEntries
  <2> QED  BY <1>2, <2>2, <2>4, FlattenSeqHas
<1> QED  BY <1>3, <1>4, <1>5

(* A member of a sequence longer by one.                                   *)
LongerBy(r, s, m) == r = Append(s, m)
(* What appending leaves and adds.                                         *)
LEMMA AppendIs ==
  ASSUME NEW s, IsSeq(s), NEW m, NEW r, LongerBy(r, s, m)
  PROVE  /\ IsSeq(r) /\ Len(r) = Len(s) + 1 /\ r[Len(s) + 1] = m /\ \A i \in DOMAIN s : i \in DOMAIN r /\ r[i] = s[i]
         /\ DOMAIN r = DOMAIN s \cup {Len(s) + 1} /\ Len(s) + 1 \notin DOMAIN s
<1>1. PICK X : X = ToSet(s) \cup {m}  OBVIOUS
<1>2. s \in Seq(ToSet(s))  BY DEF IsSeq
<1>3. PICK n \in Nat : n = Len(s) /\ DOMAIN s = 1 .. n /\ s = [i \in 1 .. n |-> s[i]] /\ \A i \in 1 .. n : s[i] \in X
      BY <1>1, SeqEntries
<1>4. s \in [1 .. n -> X]  BY <1>3
<1>5. s \in Seq(X) /\ m \in X  BY <1>1, <1>4
<1>6. r \in Seq(X) /\ Len(r) = n + 1 /\ r[n + 1] = m /\ \A i \in 1 .. n : r[i] = s[i]  BY <1>3, <1>5 DEF LongerBy
<1>7. DOMAIN r = 1 .. n + 1 /\ n + 1 \notin 1 .. n /\ 1 .. n + 1 = (1 .. n) \cup {n + 1}  BY <1>6
<1> QED  BY <1>3, <1>6, <1>7, IsSeqOver

(* A list of count rows of n, after its first ones.                        *)
Span(rows, n, first, count) ==
  /\ first \in Nat /\ count \in Nat /\ IsSeq(rows) /\ Len(rows) = count
  /\ \A j \in 1 .. count : rows[j] = <<n, first + j>>
(* A part of a list has the rows between.                                  *)
LEMMA SubSpan ==
  ASSUME NEW rows, NEW n, NEW first, NEW count, Span(rows, n, first, count), NEW a \in Nat, NEW c \in Nat, a + c <= count,
         NEW p, p = SubSeq(rows, a + 1, a + c)
  PROVE  Span(p, n, first + a, c)
<1>1. first \in Nat /\ count \in Nat /\ Len(rows) = count /\ IsSeq(rows)  BY DEF Span
<1>2. PICK X : X = ToSet(rows)  OBVIOUS
<1>3. rows \in Seq(X)  BY <1>1, <1>2 DEF IsSeq
<1>4. a + 1 \in Nat /\ a + c \in Nat /\ a + c <= Len(rows) /\ a + 1 >= 1  BY <1>1
<1>5. PICK b \in Nat : b = a + c  OBVIOUS
<1>6. PICK d \in Nat : d = a + 1  OBVIOUS
<1>7. p = SubSeq(rows, d, b) /\ d >= 1 /\ b <= Len(rows) /\ b - d + 1 = c  BY <1>4, <1>5, <1>6
<1>8. p \in Seq(X) /\ Len(p) = c /\ \A j \in 1 .. c : p[j] = rows[d + j - 1]
  <2>1. \A i \in d .. b : rows[i] \in X
    <3>1. \A i \in d .. b : i \in 1 .. Len(rows)  BY <1>1, <1>7
    <3>2. \A i \in 1 .. Len(rows) : rows[i] \in X  BY <1>3
    <3> QED  BY <3>1, <3>2
  <2>2. d \in Int /\ b \in Int  OBVIOUS
  <2>3. /\ SubSeq(rows, d, b) \in Seq(X)
        /\ Len(SubSeq(rows, d, b)) = IF d <= b THEN b - d + 1 ELSE 0
        /\ \A i \in 1 .. b - d + 1 : SubSeq(rows, d, b)[i] = rows[d + i - 1]
        BY <2>1, <2>2, SubSeqProperties
  <2>4. (IF d <= b THEN b - d + 1 ELSE 0) = c  BY <1>5, <1>6
  <2> QED  BY <1>7, <2>3, <2>4
<1>9. ASSUME NEW j \in 1 .. c PROVE p[j] = <<n, first + a + j>>
  <2>1. d + j - 1 \in 1 .. count /\ first + (d + j - 1) = first + a + j  BY <1>1, <1>6
  <2>2. PICK h \in 1 .. count : h = d + j - 1  BY <2>1
  <2>3. p[j] = rows[h] /\ rows[h] = <<n, first + h>> /\ first + h = first + a + j  BY <1>8, <2>1, <2>2 DEF Span
  <2> QED  BY <2>3
<1>10. IsSeq(p)  BY <1>8, IsSeqOver
<1>11. first + a \in Nat  BY <1>1
<1> QED  BY <1>8, <1>9, <1>10, <1>11 DEF Span

(* The entries of a list of three, and what is behind the second.          *)
LEMMA ThreeEntries ==
  ASSUME NEW X, NEW s \in Seq(X), Len(s) = 3
  PROVE  /\ s[1] \in X /\ s[2] \in X /\ s[3] \in X /\ s = <<s[1], s[2], s[3]>>
         /\ Tail(s) \in Seq(X) /\ SubSeq(s, 3, 3) = <<s[3]>>
<1>1. 1 \in 1 .. Len(s) /\ 2 \in 1 .. Len(s) /\ 3 \in 1 .. Len(s)  OBVIOUS
<1>2. PICK a, b, c \in X : a = s[1] /\ b = s[2] /\ c = s[3]  BY <1>1, SeqEntry
<1>3. s = <<a, b, c>>  BY <1>2
<1>4. Tail(s) \in Seq(X)
  <2>1. s # <<>>
    <3>1. Len(<<>>) = 0 /\ 3 # 0  OBVIOUS
    <3> QED  BY <3>1
  <2> QED  BY <2>1, HeadTailProperties
<1>5. SubSeq(s, 3, 3) = <<c>>
  <2>1. \A i \in 3 .. 3 : s[i] \in X  BY <1>2
  <2>2. PICK q : q = SubSeq(s, 3, 3)  OBVIOUS
  <2>3. q \in Seq(X) /\ Len(q) = (IF 3 <= 3 THEN 3 - 3 + 1 ELSE 0) /\ \A i \in 1 .. 3 - 3 + 1 : q[i] = s[3 + i - 1]
        BY <2>1, <2>2, SubSeqProperties
  <2>4. Len(q) = 1 /\ q[1] = s[3]
    <3>1. 1 \in 1 .. 3 - 3 + 1 /\ 3 + 1 - 1 = 3 /\ 3 - 3 + 1 = 1  OBVIOUS
    <3> QED  BY <2>3, <3>1
  <2>5. PICK u : u = <<c>>  OBVIOUS
  <2>6. u \in Seq(X) /\ Len(u) = 1 /\ u[1] = c  BY <2>5
  <2>7. \A i \in 1 .. Len(q) : q[i] = u[i]  BY <1>2, <2>4, <2>6
  <2>8. q = u  BY <2>3, <2>4, <2>6, <2>7, SameSeq
  <2> QED  BY <2>2, <2>5, <2>8
<1> QED  BY <1>2, <1>3, <1>4, <1>5

(* Lists without a repeated entry, within one or across two,               *)
NoneTwice(ss) ==
  \A h, i \in DOMAIN ss : \A j \in DOMAIN ss[h], l \in DOMAIN ss[i] : ss[h][j] = ss[i][l] => h = i /\ j = l
(* make one without a repeated entry.                                      *)
LEMMA FlatOnce ==
  ASSUME NEW ss, IsSeqs(ss), NoneTwice(ss)
  PROVE  IsInjective(FlattenSeq(ss))
<1>1. PICK S : ss \in Seq(Seq(S))  BY SeqsType
<1>2. \A h, i \in DOMAIN ss : \A j \in DOMAIN ss[h], l \in DOMAIN ss[i] : ss[h][j] = ss[i][l] => h = i /\ j = l
      BY DEF NoneTwice
<1>3. ASSUME NEW k \in DOMAIN FlattenSeq(ss), NEW m \in DOMAIN FlattenSeq(ss), FlattenSeq(ss)[k] = FlattenSeq(ss)[m]
      PROVE  k = m
      BY <1>1, <1>2, <1>3, FlattenSeqInjective
<1> QED  BY <1>3 DEF IsInjective

(* Every entry of the lists is in the one made of them.                    *)
LEMMA FlatHas ==
  ASSUME NEW ss, IsSeqs(ss), NEW x, NEW i \in DOMAIN ss, NEW j \in DOMAIN ss[i], ss[i][j] = x
  PROVE  x \in ToSet(FlattenSeq(ss))
<1>1. \A h \in DOMAIN ss : \A l \in DOMAIN ss[h] : \E k \in DOMAIN FlattenSeq(ss) : FlattenSeq(ss)[k] = ss[h][l]
      BY FlatEntries
<1>2. PICK k \in DOMAIN FlattenSeq(ss) : FlattenSeq(ss)[k] = x  BY <1>1
<1> QED  BY <1>2 DEF ToSet
------------------------------------------------------------------------------
(* Quotient and remainder are unique.                                      *)
LEMMA QuotientIs ==
  ASSUME NEW b \in Nat \ {0}, NEW q \in Int, NEW r \in 0 .. b - 1, NEW a \in Int, a = b * q + r
  PROVE  a \div b = q /\ a % b = r
<1>1. PICK d \in Int, m \in Int : d = a \div b /\ m = a % b  OBVIOUS
<1>2. a = b * d + m /\ 0 <= m /\ m < b  BY <1>1, SMT
<1>3. b * (d - q) = r - m  BY <1>2, SMT
<1>4. d - q < 1  BY <1>2, <1>3, SMT
<1>5. d - q > -1  BY <1>2, <1>3, SMT
<1>6. d = q  BY <1>4, <1>5
<1>7. m = r  BY <1>2, <1>6
<1> QED  BY <1>1, <1>6, <1>7

(* A number is its quotient and its remainder.                             *)
LEMMA QuotientOf ==
  ASSUME NEW a \in Nat, NEW b \in Nat \ {0}
  PROVE  a \div b \in Nat /\ a % b \in 0 .. b - 1 /\ a = b * (a \div b) + (a % b)
<1>1. a % b \in 0 .. b - 1 /\ a = b * (a \div b) + (a % b) /\ a \div b \in Int  BY SMT
<1>2. PICK d \in Int : d = a \div b  BY <1>1
<1>3. d >= 0
  <2> SUFFICES ASSUME d <= -1 PROVE FALSE  BY <1>2
  <2>1. b * d <= -b  BY SMT
  <2> QED  BY <2>1, <1>1, <1>2
<1> QED  BY <1>1, <1>2, <1>3

(* A product divided by one factor is the other.                           *)
LEMMA DivProduct ==
  ASSUME NEW a \in Nat \ {0}, NEW b \in Nat
  PROVE  (a * b) \div a = b
<1>1. 0 \in 0 .. a - 1 /\ a * b \in Int /\ a * b = a * b + 0  OBVIOUS
<1> QED  BY <1>1, QuotientIs

(* The part a row is in and its place there, with k rows to a part.        *)
LEMMA DivMod ==
  ASSUME NEW k \in Nat \ {0}, NEW e \in Nat, NEW y \in 0 .. k - 1
  PROVE  (e * k + y) \div k = e /\ (e * k + y) % k = y
<1>1. PICK a \in Int : a = e * k + y /\ a = k * e + y  OBVIOUS
<1> QED  BY <1>1, QuotientIs

(* A count of equal parts does not reach past the end.                     *)
LEMMA PartBound ==
  ASSUME NEW l \in Nat, NEW count \in Nat \ {0}, NEW e \in 0 .. count - 1, NEW k, k = l \div count
  PROVE  k \in Nat /\ e * k \in Nat /\ e * k + k <= l /\ (e + 1) * k = e * k + k
<1>1. k \in Nat /\ count * k <= l  OBVIOUS
<1>2. PICK d \in Nat : count = e + 1 + d
  <2>1. count - e - 1 \in Nat /\ count = e + 1 + (count - e - 1)  OBVIOUS
  <2> QED  BY <2>1
<1>3. e \in Nat  OBVIOUS
<1>4. count * k = e * k + k + d * k /\ (e + 1) * k = e * k + k  BY <1>1, <1>2, <1>3
<1>5. e * k \in Nat /\ d * k \in Nat  BY <1>1, <1>3
<1>6. e * k + k <= l
  <2>1. PICK x \in Nat : x = e * k  BY <1>5
  <2>2. PICK y \in Nat : y = d * k  BY <1>5
  <2>3. x + k + y <= l  BY <1>1, <1>4, <2>1, <2>2
  <2>4. x + k <= l  BY <1>1, <2>3
  <2> QED  BY <2>1, <2>4
<1> QED  BY <1>1, <1>4, <1>5, <1>6

(* With s layers to a sparse one, the sparse layers below depth are        *)
(* s * j + s - 1 for the j below depth \div s.                             *)
LEMMA SparseLayers ==
  ASSUME NEW s \in Nat \ {0}, NEW depth \in Nat
  PROVE  /\ \A l \in Nat : (l + 1) % s = 0 =>
              l \div s \in Nat /\ l = s * (l \div s) + s - 1 /\ (l < depth => l \div s < depth \div s)
         /\ \A j \in Nat : j < depth \div s =>
              LET l == s * j + s - 1 IN l \in 0 .. depth - 1 /\ (l + 1) % s = 0 /\ l \div s = j
<1>0. depth \div s \in Nat /\ depth % s \in 0 .. s - 1 /\ depth = s * (depth \div s) + (depth % s)  BY QuotientOf
<1>1. PICK n \in Nat, r \in Nat : n = depth \div s /\ r = depth % s  BY <1>0
<1>2. depth = s * n + r /\ r < s  BY <1>0, <1>1
<1>3. ASSUME NEW l \in Nat, (l + 1) % s = 0
      PROVE  l \div s \in Nat /\ l = s * (l \div s) + s - 1 /\ (l < depth => l \div s < n)
  <2>1. PICK q \in Nat : q = (l + 1) \div s /\ l + 1 = s * q + 0  BY <1>3, QuotientOf
  <2>2. q > 0  BY <2>1, SMT
  <2>3. q - 1 \in Nat /\ s * (q - 1) = s * q - s  BY <2>2, SMT
  <2>4. l = s * (q - 1) + (s - 1) /\ s - 1 \in 0 .. s - 1  BY <2>1, <2>3
  <2>5. l \div s = q - 1  BY <2>3, <2>4, QuotientIs
  <2>6. ASSUME l < depth, q > n PROVE FALSE
    <3>1. q >= n + 1 /\ l + 1 <= s * n + r  BY <2>6, <1>2
    <3>2. s * q >= s * (n + 1)  BY <3>1, SMT
    <3>3. s * (n + 1) = s * n + s  BY SMT
    <3> QED  BY <3>1, <3>2, <3>3, <2>1, <1>2
  <2> QED  BY <2>3, <2>4, <2>5, <2>6
<1>4. ASSUME NEW j \in Nat, j < n
      PROVE  LET l == s * j + s - 1 IN l \in 0 .. depth - 1 /\ (l + 1) % s = 0 /\ l \div s = j
  <2>1. PICK l \in Int : l = s * j + s - 1  OBVIOUS
  <2>2. s * (j + 1) <= s * n /\ s * (j + 1) = s * j + s  BY <1>4, SMT
  <2>3. s * j >= 0  BY SMT
  <2>4. l \in 0 .. depth - 1  BY <2>1, <2>2, <2>3, <1>2
  <2>5. l \div s = j  BY <2>1, QuotientIs
  <2>6. (l + 1) % s = 0
    <3>1. PICK k \in Int, a \in Int : k = j + 1 /\ a = l + 1  OBVIOUS
    <3>2. a = s * k + 0 /\ 0 \in 0 .. s - 1  BY <2>1, <2>2, <3>1
    <3>3. a % s = 0  BY <3>2, QuotientIs
    <3> QED  BY <3>1, <3>3
  <2> QED  BY <2>1, <2>4, <2>5, <2>6
<1> QED  BY <1>1, <1>3, <1>4

(* How many layers below depth are at offset o of a period of p.           *)
AtOffset(p, o, depth) == Cardinality({l \in 0 .. depth - 1 : l % p = o})
(* With a sparse layer at offset o of every period p, the sparse layers    *)
(* below depth are p * j + o for the j below their number.                 *)
LEMMA PeriodicLayers ==
  ASSUME NEW p \in Nat \ {0}, NEW o \in 0 .. p - 1, NEW depth \in Nat, NEW count, count = AtOffset(p, o, depth)
  PROVE  /\ count \in Nat
         /\ \A l \in Nat : l % p = o =>
              (l - o) \div p \in Nat /\ l = p * ((l - o) \div p) + o /\ (l < depth => (l - o) \div p < count)
         /\ \A j \in Nat : j < count =>
              LET l == p * j + o IN l \in 0 .. depth - 1 /\ l % p = o /\ (l - o) \div p = j
<1> DEFINE S == {l \in 0 .. depth - 1 : l % p = o}
           J == {j \in Nat : p * j + o < depth}
<1>s. \A l : l \in S <=> l \in 0 .. depth - 1 /\ l % p = o  OBVIOUS
<1>j. \A j : j \in J <=> j \in Nat /\ p * j + o < depth  OBVIOUS
<1>c. count = Cardinality(S)  BY DEF AtOffset
<1> HIDE DEF S, J
<1>1. ASSUME NEW l \in Nat, l % p = o
      PROVE  (l - o) \div p \in Nat /\ l = p * ((l - o) \div p) + o
  <2>1. PICK q \in Nat : q = l \div p /\ l = p * q + o  BY <1>1, QuotientOf
  <2>2. l - o = p * q + 0 /\ 0 \in 0 .. p - 1 /\ l - o \in Int  BY <2>1
  <2>3. (l - o) \div p = q  BY <2>2, QuotientIs
  <2> QED  BY <2>1, <2>3
<1>2. ASSUME NEW j \in Nat
      PROVE  LET l == p * j + o IN l \in Nat /\ l % p = o /\ (l - o) \div p = j
  <2>1. PICK l \in Nat : l = p * j + o  BY SMT
  <2>2. l % p = o
    <3>1. l \in Int /\ j \in Int /\ l = p * j + o  BY <2>1
    <3> QED  BY <3>1, QuotientIs
  <2>3. l - o = p * j + 0 /\ 0 \in 0 .. p - 1 /\ l - o \in Int  BY <2>1
  <2>4. (l - o) \div p = j  BY <2>3, QuotientIs
  <2> QED  BY <2>1, <2>2, <2>4
<1>3. PICK n \in Nat : J = 0 .. n - 1
  <2>1. depth \in Nat /\ ~ (p * depth + o < depth)  BY SMT
  <2>2. {j \in Nat : ~ (p * j + o < depth)} \subseteq Nat /\ {j \in Nat : ~ (p * j + o < depth)} # {}  BY <2>1
  <2>3. PICK n \in {j \in Nat : ~ (p * j + o < depth)} : \A k \in {j \in Nat : ~ (p * j + o < depth)} : n <= k
        BY <2>2, LeastNat
  <2>4. \A j \in Nat : j < n => p * j + o < depth  BY <2>3
  <2>5. ASSUME NEW j \in Nat, j >= n PROVE ~ (p * j + o < depth)
    <3>1. p * j >= p * n  BY <2>5, SMT
    <3>2. p * j \in Int /\ p * n \in Int /\ ~ (p * n + o < depth)  BY <2>3
    <3> QED  BY <3>1, <3>2
  <2>6. \A j : j \in J <=> j \in 0 .. n - 1
    <3>1. ASSUME NEW j, j \in 0 .. n - 1 PROVE j \in J  BY <2>4, <3>1, <1>j
    <3>2. ASSUME NEW j, j \in J PROVE j \in 0 .. n - 1
      <4>1. j \in Nat /\ ~ (j >= n)  BY <3>2, <2>5, <1>j
      <4> QED  BY <4>1
    <3> QED  BY <3>1, <3>2
  <2> QED  BY <2>3, <2>6
<1>4. Cardinality(J) = n /\ IsFiniteSet(J)
  <2>1. PICK z \in Int, m \in Int : z = 0 /\ m = n - 1  OBVIOUS
  <2>2. IsFiniteSet(z .. m) /\ Cardinality(z .. m) = IF z > m THEN 0 ELSE m - z + 1  BY FS_Interval, Zenon
  <2>3. Cardinality(0 .. m) = n /\ IsFiniteSet(0 .. m)  BY <2>1, <2>2
  <2> QED  BY <1>3, <2>1, <2>2, <2>3
<1>5. Cardinality(S) = Cardinality(J)
  <2> DEFINE f == [j \in J |-> p * j + o]
  <2>1. \A j \in J : f[j] \in S
    <3> SUFFICES ASSUME NEW j \in J PROVE p * j + o \in S  OBVIOUS
    <3>1. p * j + o \in Nat /\ (p * j + o) % p = o /\ p * j + o < depth  BY <1>2, <1>j
    <3> QED  BY <3>1, <1>s
  <2>2. \A i, j \in J : f[i] = f[j] => i = j
    <3> SUFFICES ASSUME NEW i \in J, NEW j \in J, p * i + o = p * j + o PROVE i = j  OBVIOUS
    <3>1. i \in Nat /\ j \in Nat  BY <1>j
    <3>2. PICK l \in Nat : l = p * i + o /\ l = p * j + o  BY <1>2, <3>1
    <3>3. (l - o) \div p = i /\ (l - o) \div p = j  BY <1>2, <3>1, <3>2
    <3> QED  BY <3>3
  <2>3. \A l \in S : \E j \in J : f[j] = l
    <3> SUFFICES ASSUME NEW l \in S PROVE \E j \in J : f[j] = l  OBVIOUS
    <3>1. l \in Nat /\ l % p = o /\ l < depth  BY <1>s
    <3>2. PICK j \in Nat : j = (l - o) \div p /\ l = p * j + o  BY <1>1, <3>1
    <3> QED  BY <3>1, <3>2, <1>j
  <2>4. f \in [J -> S]  BY <2>1
  <2>5. f \in Bijection(J, S)
    <3> HIDE DEF f
    <3> QED  BY <2>2, <2>3, <2>4 DEF Bijection, Injection, Surjection, IsInjective
  <2>6. ExistsBijection(J, S)  BY <2>5 DEF ExistsBijection
  <2> QED  BY <1>4, <2>6, FS_Bijection
<1>6. count = n  BY <1>4, <1>5, <1>c
<1>7. ASSUME NEW l \in Nat, l % p = o, l < depth PROVE (l - o) \div p < count
  <2>1. PICK j \in Nat : j = (l - o) \div p /\ l = p * j + o  BY <1>1, <1>7
  <2>2. j \in J  BY <2>1, <1>7, <1>j
  <2> QED  BY <1>3, <1>6, <2>1, <2>2
<1>8. ASSUME NEW j \in Nat, j < count PROVE p * j + o < depth
  <2>1. j \in J  BY <1>3, <1>6, <1>8
  <2> QED  BY <2>1, <1>j
<1>9. count \in Nat  BY <1>6
<1>10. ASSUME NEW j \in Nat, j < count
       PROVE  LET l == p * j + o IN l \in 0 .. depth - 1 /\ l % p = o /\ (l - o) \div p = j
  <2>1. PICK l \in Nat : l = p * j + o  BY <1>2
  <2> QED  BY <2>1, <1>2, <1>8, <1>10
<1> QED  BY <1>1, <1>7, <1>9, <1>10

(* x is c times some number.                                               *)
Multiple(c, x) == \E q \in Nat : x = c * q
(* The products of the first i numbers of s.                               *)
Products(s, n, f) == f \in [0 .. n -> Nat] /\ f[0] = 1 /\ \A i \in 1 .. n : f[i] = f[i - 1] * s[i]
(* The recursion of a product over a sequence.                             *)
ProdFrom(s, n, f) == f = [i \in 0 .. n |-> IF i = 0 THEN 1 ELSE f[i - 1] * s[i]]
(* There are products of every prefix of a sequence.                       *)
LEMMA ProductsExist ==
  ASSUME NEW s \in Seq(Nat)
  PROVE  \E f : Products(s, Len(s), f)
<1> DEFINE T == {n \in Nat : n <= Len(s) => \E f : Products(s, n, f)}
<1>1. 0 \in T
  <2>1. Products(s, 0, [i \in 0 .. 0 |-> 1])  BY DEF Products
  <2> QED  BY <2>1
<1>2. ASSUME NEW n \in Nat, n \in T PROVE n + 1 \in T
  <2> SUFFICES ASSUME n + 1 <= Len(s) PROVE \E f : Products(s, n + 1, f)  OBVIOUS
  <2>1. PICK f : Products(s, n, f)  BY <1>2
  <2>2. PICK a \in Nat : a = s[n + 1]  OBVIOUS
  <2>3. PICK b \in Nat : b = f[n]  BY <2>1 DEF Products
  <2>4. a * b \in Nat /\ b * a \in Nat  OBVIOUS
  <2> DEFINE g == [i \in 0 .. n + 1 |-> IF i = n + 1 THEN b * a ELSE f[i]]
  <2>5. g \in [0 .. n + 1 -> Nat] /\ g[0] = 1
    <3>1. \A i \in 0 .. n + 1 : i # n + 1 => i \in 0 .. n  OBVIOUS
    <3>2. 0 \in 0 .. n + 1 /\ 0 # n + 1  OBVIOUS
    <3> QED  BY <2>1, <2>4, <3>1, <3>2 DEF Products
  <2>6. ASSUME NEW i \in 1 .. n + 1 PROVE g[i] = g[i - 1] * s[i]
    <3>0. i \in 0 .. n + 1 /\ i - 1 \in 0 .. n + 1 /\ i - 1 # n + 1  OBVIOUS
    <3>1. CASE i = n + 1
      <4>1. g[i] = b * a /\ g[i - 1] = b /\ s[i] = a  BY <2>2, <2>3, <3>0, <3>1
      <4> QED  BY <4>1
    <3>2. CASE i # n + 1
      <4>1. i \in 1 .. n  BY <3>2
      <4>2. g[i] = f[i] /\ g[i - 1] = f[i - 1]  BY <3>0, <3>2
      <4>3. f[i] = f[i - 1] * s[i]  BY <2>1, <4>1 DEF Products
      <4> QED  BY <4>2, <4>3
    <3> QED  BY <3>1, <3>2
  <2>7. Products(s, n + 1, g)  BY <2>5, <2>6 DEF Products
  <2> QED  BY <2>7
<1> HIDE DEF T
<1>3. \A n \in Nat : n \in T  BY <1>1, <1>2, InductionOnSet
<1>4. Len(s) \in Nat /\ Len(s) <= Len(s)  OBVIOUS
<1> QED  BY <1>3, <1>4 DEF T
==============================================================================
