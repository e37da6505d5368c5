---------------------------- MODULE DataInduction ----------------------------
(***************************************************************************)
(* Induction over the natural numbers, and functions that are defined by   *)
(* recursion over them.  What is to hold of every number is a set, and a   *)
(* step of the recursion a function, so that the lemmas have no operator   *)
(* for a parameter and the provers can use them as they are.  The other    *)
(* proof modules reason with them about varints and about the bytes that   *)
(* lie in many chunks.                                                     *)
(***************************************************************************)
EXTENDS Integers, SequencesExt, FiniteSetTheorems, SequenceTheorems, TLAPS

(* A set of natural numbers that is not empty has a least one: the strict  *)
(* subsets of intervals are well founded.                                  *)
LEMMA LeastNatural ==
  ASSUME NEW T \in SUBSET Nat, T # {}
  PROVE  \E m \in T : \A n \in T : m <= n
<1> DEFINE R == StrictSubsetOrdering(Nat)
           S == FiniteSubsetsOf(Nat)
           I == {0 .. n : n \in T}
<1>1. IsWellFoundedOn(R, S)
  BY FS_StrictSubsetOrderingWellFounded
<1>2. \A n \in T : 0 .. n \in SUBSET Nat /\ IsFiniteSet(0 .. n)
  BY FS_Interval
<1>3. I \subseteq S /\ I # {}
  BY <1>2 DEF FiniteSubsetsOf
<1>4. PICK x \in I : \A y \in I : <<y, x>> \notin R
  <2> HIDE DEF R, S, I
  <2>1. QED
    BY <1>1, <1>3, WFMin
<1>5. PICK m \in T : x = 0 .. m
  BY <1>4
<1>6. ASSUME NEW n \in T, n < m
      PROVE  FALSE
  <2>1. <<0 .. n, 0 .. m>> \notin R
    BY <1>4, <1>5
  <2>2. 0 .. n \in SUBSET Nat /\ 0 .. m \in SUBSET Nat
    BY <1>2
  <2>3. 0 .. n \subseteq 0 .. m /\ m \in 0 .. m /\ m \notin 0 .. n
    BY <1>6
  <2>4. QED
    BY <2>1, <2>2, <2>3 DEF StrictSubsetOrdering
<1>7. QED
  BY <1>6

(* A set with zero and the successor of each of its numbers has them all.  *)
LEMMA SetInduction ==
  ASSUME NEW T, 0 \in T, \A n \in Nat : n \in T => n + 1 \in T
  PROVE  Nat \subseteq T
<1> DEFINE U == Nat \ T
<1>1. SUFFICES ASSUME U # {} PROVE FALSE
  OBVIOUS
<1>2. PICK m \in U : \A n \in U : m <= n
  BY <1>1, LeastNatural
<1>3. m # 0 /\ m - 1 \in Nat
  BY <1>2
<1>4. m - 1 \in T
  BY <1>2, <1>3
<1>5. QED
  BY <1>2, <1>3, <1>4

(* The same between two numbers.                                           *)
LEMMA IntervalInduction ==
  ASSUME NEW a \in Int, NEW b \in Int, NEW T,
         a <= b => a \in T,
         \A n \in a .. b - 1 : n \in T => n + 1 \in T
  PROVE  a .. b \subseteq T
<1> DEFINE U == {n \in Nat : a + n <= b => a + n \in T}
<1>1. 0 \in U
  OBVIOUS
<1>2. ASSUME NEW n \in Nat, n \in U
      PROVE  n + 1 \in U
  <2>1. SUFFICES ASSUME a + (n + 1) <= b
                 PROVE  a + (n + 1) \in T
    OBVIOUS
  <2>2. a + n \in T /\ a + n \in a .. b - 1
    BY <1>2, <2>1
  <2>3. (a + n) + 1 \in T
    BY <2>2
  <2>4. a + (n + 1) = (a + n) + 1
    OBVIOUS
  <2>5. QED
    BY <2>3, <2>4
<1>3. Nat \subseteq U
  <2> HIDE DEF U
  <2>1. QED
    BY <1>1, <1>2, SetInduction
<1>4. ASSUME NEW i \in a .. b
      PROVE  i \in T
  <2>1. i - a \in U /\ a + (i - a) = i
    BY <1>3
  <2>2. QED
    BY <2>1
<1>5. QED
  BY <1>4

-----------------------------------------------------------------------------
(* The values of a recursion up to n.                                      *)
Follows(g, n, c, step) ==
  /\ g[0] = c
  /\ \A i \in 1 .. n : g[i] = step[<<g[i - 1], i>>]

(* A recursion can be followed as far as one likes.                        *)
LEMMA RecursionUpTo ==
  ASSUME NEW S, NEW c \in S, NEW step \in [S \X Nat -> S], NEW n \in Nat
  PROVE  \E g \in [0 .. n -> S] : Follows(g, n, c, step)
<1> DEFINE T == {k \in Nat : \E g \in [0 .. k -> S] : Follows(g, k, c, step)}
<1>1. 0 \in T
  <2>1. [i \in 0 .. 0 |-> c] \in [0 .. 0 -> S]
    OBVIOUS
  <2>2. Follows([i \in 0 .. 0 |-> c], 0, c, step)
    BY DEF Follows
  <2>3. QED
    BY <2>1, <2>2
<1>2. ASSUME NEW k \in Nat, k \in T
      PROVE  k + 1 \in T
  <2>1. PICK g \in [0 .. k -> S] : Follows(g, k, c, step)
    BY <1>2
  <2> DEFINE h == [i \in 0 .. k + 1 |-> IF i = k + 1 THEN step[<<g[k], k + 1>>] ELSE g[i]]
  <2>2. step[<<g[k], k + 1>>] \in S
    OBVIOUS
  <2>3. h \in [0 .. k + 1 -> S]
    BY <2>2
  <2>4. h[0] = c
    BY <2>1 DEF Follows
  <2>5. ASSUME NEW i \in 1 .. k + 1
        PROVE  h[i] = step[<<h[i - 1], i>>]
    <3>1. CASE i = k + 1
      <4>1. h[i - 1] = g[k] /\ h[i] = step[<<g[k], k + 1>>]
        BY <3>1
      <4>2. QED
        BY <3>1, <4>1
    <3>2. CASE i # k + 1
      <4>1. i \in 1 .. k
        BY <3>2
      <4>2. h[i] = g[i] /\ h[i - 1] = g[i - 1]
        BY <4>1
      <4>3. QED
        BY <2>1, <4>1, <4>2 DEF Follows
    <3>3. QED
      BY <3>1, <3>2
  <2>6. Follows(h, k + 1, c, step)
    <3> HIDE DEF h
    <3>1. QED
      BY <2>4, <2>5 DEF Follows
  <2>7. QED
    BY <2>3, <2>6
<1>3. Nat \subseteq T
  <2> HIDE DEF T
  <2>1. QED
    BY <1>1, <1>2, SetInduction
<1>4. QED
  BY <1>3

(* There is only one way to follow it.                                     *)
LEMMA RecursionAgrees ==
  ASSUME NEW c, NEW step, NEW m \in Nat, NEW n \in Nat, NEW g, NEW h,
         Follows(g, m, c, step), Follows(h, n, c, step)
  PROVE  \A i \in Nat : i <= m /\ i <= n => g[i] = h[i]
<1> DEFINE T == {i \in Nat : i <= m /\ i <= n => g[i] = h[i]}
<1>1. 0 \in T
  BY DEF Follows
<1>2. ASSUME NEW i \in Nat, i \in T
      PROVE  i + 1 \in T
  <2>1. SUFFICES ASSUME i + 1 <= m, i + 1 <= n
                 PROVE  g[i + 1] = h[i + 1]
    OBVIOUS
  <2>2. g[i] = h[i]
    BY <1>2, <2>1
  <2>3. i + 1 \in 1 .. m /\ i + 1 \in 1 .. n /\ (i + 1) - 1 = i
    BY <2>1
  <2>4. QED
    BY <2>2, <2>3 DEF Follows
<1>3. Nat \subseteq T
  <2> HIDE DEF T
  <2>1. QED
    BY <1>1, <1>2, SetInduction
<1>4. QED
  BY <1>3

Recursive(g, S, c, step) ==
  /\ g \in [Nat -> S]
  /\ g[0] = c
  /\ \A i \in Nat \ {0} : g[i] = step[<<g[i - 1], i>>]

(* A recursion over all natural numbers has a function.                    *)
LEMMA Recursion ==
  ASSUME NEW S, NEW c \in S, NEW step \in [S \X Nat -> S]
  PROVE  \E g : Recursive(g, S, c, step)
<1> DEFINE upTo(n) == CHOOSE h \in [0 .. n -> S] : Follows(h, n, c, step)
           g == [n \in Nat |-> upTo(n)[n]]
<1>1. ASSUME NEW n \in Nat
      PROVE  upTo(n) \in [0 .. n -> S] /\ Follows(upTo(n), n, c, step)
  <2>1. \E h \in [0 .. n -> S] : Follows(h, n, c, step)
    BY RecursionUpTo
  <2>2. QED
    BY <2>1
<1>2. ASSUME NEW n \in Nat
      PROVE  g[n] \in S
  <2>1. n \in 0 .. n
    OBVIOUS
  <2>2. g[n] = upTo(n)[n] /\ upTo(n) \in [0 .. n -> S]
    BY <1>1
  <2> HIDE DEF g, upTo
  <2>3. QED
    BY <2>1, <2>2
<1>3. g[0] = c
  <2>1. g[0] = upTo(0)[0] /\ Follows(upTo(0), 0, c, step)
    BY <1>1
  <2> HIDE DEF g, upTo
  <2>2. QED
    BY <2>1 DEF Follows
<1>4. ASSUME NEW i \in Nat \ {0}
      PROVE  g[i] = step[<<g[i - 1], i>>]
  <2>1. i \in Nat /\ i - 1 \in Nat
    OBVIOUS
  <2>2. /\ g[i] = upTo(i)[i] /\ Follows(upTo(i), i, c, step)
        /\ g[i - 1] = upTo(i - 1)[i - 1] /\ Follows(upTo(i - 1), i - 1, c, step)
    BY <1>1, <2>1
  <2> HIDE DEF g, upTo
  <2>3. upTo(i)[i - 1] = upTo(i - 1)[i - 1]
    <3> DEFINE j == i - 1
               long == upTo(i)
               short == upTo(j)
    <3>1. j \in Nat /\ j <= i /\ j <= j
      BY <2>1
    <3>2. Follows(long, i, c, step) /\ Follows(short, j, c, step)
      BY <2>2
    <3>3. long[j] = short[j]
      <4> HIDE DEF j, long, short
      <4>1. \A k \in Nat : k <= i /\ k <= j => long[k] = short[k]
        BY <2>1, <3>1, <3>2, RecursionAgrees
      <4>2. QED
        BY <3>1, <4>1
    <3>4. QED
      BY <3>3
  <2>4. i \in 1 .. i
    OBVIOUS
  <2>5. QED
    BY <2>2, <2>3, <2>4 DEF Follows
<1>5. g \in [Nat -> S]
  <2>1. \A n \in Nat : upTo(n)[n] \in S
    BY <1>2
  <2> HIDE DEF upTo
  <2>2. QED
    BY <2>1
<1>6. QED
  <2> HIDE DEF g
  <2>1. Recursive(g, S, c, step)
    BY <1>3, <1>4, <1>5 DEF Recursive
  <2>2. QED
    BY <2>1

(* A function of numbers that no step makes smaller.                       *)
LEMMA Monotonic ==
  ASSUME NEW f \in [Nat -> Nat], \A n \in Nat : f[n] <= f[n + 1],
         NEW m \in Nat, NEW n \in Nat, m <= n
  PROVE  f[m] <= f[n]
<1> DEFINE T == {i \in m .. n : f[m] <= f[i]}
<1>1. m <= n => m \in T
  OBVIOUS
<1>2. ASSUME NEW i \in m .. n - 1, i \in T
      PROVE  i + 1 \in T
  <2>1. i \in Nat /\ i + 1 \in m .. n /\ f[m] <= f[i] /\ f[i] <= f[i + 1]
    BY <1>2
  <2>2. f[m] \in Nat /\ f[i] \in Nat /\ f[i + 1] \in Nat
    BY <2>1
  <2>3. QED
    BY <2>1, <2>2
<1>3. m .. n \subseteq T
  <2>1. m \in Int /\ n \in Int
    OBVIOUS
  <2> HIDE DEF T
  <2>2. QED
    BY <1>1, <1>2, <2>1, IntervalInduction
<1>4. QED
  BY <1>3

-----------------------------------------------------------------------------
(* Lemmas about sequences.                                                 *)

(* A function over 1 .. n is a sequence of length n.                       *)
LEMMA FunctionIsSeq ==
  ASSUME NEW S, NEW n \in Nat, NEW f \in [1 .. n -> S]
  PROVE  f \in Seq(S) /\ Len(f) = n
<1>1. f \in Seq(S)
  BY SeqDef
<1>2. DOMAIN f = 1 .. Len(f) /\ Len(f) \in Nat
  BY <1>1, LenProperties
<1>3. QED
  BY <1>1, <1>2

(* Dropping the last element keeps the others.                             *)
LEMMA DropLast ==
  ASSUME NEW S, NEW s \in Seq(S), s # <<>>
  PROVE  /\ SubSeq(s, 1, Len(s) - 1) \in Seq(S)
         /\ Len(SubSeq(s, 1, Len(s) - 1)) = Len(s) - 1
         /\ \A i \in 1 .. Len(s) - 1 : SubSeq(s, 1, Len(s) - 1)[i] = s[i]
<1> DEFINE n == Len(s) - 1
           t == SubSeq(s, 1, n)
<1>1. Len(s) \in Nat \ {0}
  BY EmptySeq
<1>2. \A i \in 1 .. n : s[i] \in S
  BY <1>1, ElementOfSeq
<1>3. n \in Int
  BY <1>1
<1>4. /\ t \in Seq(S)
      /\ Len(t) = IF 1 <= n THEN n - 1 + 1 ELSE 0
      /\ \A i \in 1 .. n - 1 + 1 : t[i] = s[1 + i - 1]
  <2> HIDE DEF n
  <2> QED
    BY <1>2, <1>3, SubSeqProperties
<1>5. n \in Nat
  BY <1>1
<1>6. Len(t) = n /\ \A i \in 1 .. n : t[i] = s[i]
  <2> HIDE DEF n, t
  <2> QED
    BY <1>4, <1>5
<1> QED
  BY <1>4, <1>6

(* What FlattenSeq computes, step by step.                                 *)
LEMMA FlattenDef ==
  ASSUME NEW S, NEW seqs \in Seq(Seq(S)), Len(seqs) > 0
  PROVE  \E f \in [1 .. Len(seqs) -> Seq(S)] :
           /\ f[1] = seqs[1]
           /\ \A i \in 1 .. Len(seqs) - 1 : f[i + 1] = f[i] \o seqs[i + 1]
           /\ FlattenSeq(seqs) = f[Len(seqs)]
<1> DEFINE n == Len(seqs)
           Q == Seq(S)
           at == [i \in 1 .. n |-> seqs[i]]
           step == [p \in Q \X Nat |->
                      IF p[2] \in 1 .. n
                      THEN IF p[2] = 1 THEN seqs[1] ELSE p[1] \o seqs[p[2]]
                      ELSE <<>>]
           eq(h) == h = [i \in 1 .. n |-> IF i = 1 THEN seqs[i] ELSE h[i - 1] \o seqs[i]]
<1>1. n \in Nat \ {0} /\ \A i \in 1 .. n : seqs[i] \in Q
  BY LenProperties, ElementOfSeq
<1>2. <<>> \in Q /\ \A s, t \in Q : s \o t \in Q
  BY EmptySeq, ConcatProperties
<1> HIDE DEF Q, n
<1>3. step \in [Q \X Nat -> Q]
  BY <1>1, <1>2
<1>4. PICK g : Recursive(g, Q, <<>>, step)
  <2> HIDE DEF step
  <2>1. QED
    BY <1>2, <1>3, Recursion
<1>5. g \in [Nat -> Q] /\ \A i \in Nat \ {0} : g[i] = step[<<g[i - 1], i>>]
  BY <1>4 DEF Recursive
<1>6. ASSUME NEW i \in 1 .. n
      PROVE  g[i] = IF i = 1 THEN seqs[i] ELSE g[i - 1] \o seqs[i]
  <2>1. i \in Nat \ {0} /\ i - 1 \in Nat /\ g[i - 1] \in Q
    BY <1>1, <1>5
  <2>2. g[i] = step[<<g[i - 1], i>>]
    BY <1>5, <2>1
  <2>3. QED
    BY <2>1, <2>2
<1> DEFINE h == [i \in 1 .. n |-> g[i]]
<1>7. ASSUME NEW i \in 1 .. n
      PROVE  h[i] = IF i = 1 THEN seqs[i] ELSE h[i - 1] \o seqs[i]
  <2>1. CASE i = 1
    BY <1>6, <2>1
  <2>2. CASE i # 1
    <3>1. i - 1 \in 1 .. n
      BY <1>1, <2>2
    <3>2. h[i] = g[i] /\ h[i - 1] = g[i - 1]
      BY <3>1
    <3>3. QED
      BY <1>6, <2>2, <3>2
  <2>3. QED
    BY <2>1, <2>2
<1>8. eq(h)
  <2>1. h = [i \in 1 .. n |-> h[i]]
    OBVIOUS
  <2> HIDE DEF h
  <2>2. QED
    BY <1>7, <2>1
<1> DEFINE f == CHOOSE x : eq(x)
<1>9. eq(f)
  <2> HIDE DEF h
  <2>1. QED
    BY <1>8
<1>10. FlattenSeq(seqs) = f[n]
  BY <1>1 DEF FlattenSeq, n
<1> HIDE DEF f
<1>11. f = [i \in 1 .. n |-> IF i = 1 THEN seqs[i] ELSE f[i - 1] \o seqs[i]]
  BY <1>9
<1>12. ASSUME NEW i \in 1 .. n
       PROVE  f[i] = IF i = 1 THEN seqs[i] ELSE f[i - 1] \o seqs[i]
  BY <1>11
<1>13. f[1] = seqs[1] /\ \A i \in 1 .. n - 1 : f[i + 1] = f[i] \o seqs[i + 1]
  <2>1. ASSUME NEW i \in 1 .. n - 1
        PROVE  f[i + 1] = f[i] \o seqs[i + 1]
    <3>1. i + 1 \in 1 .. n /\ i + 1 # 1 /\ (i + 1) - 1 = i
      BY <1>1
    <3>2. QED
      BY <1>12, <3>1
  <2>2. 1 \in 1 .. n
    BY <1>1
  <2>3. QED
    BY <1>12, <2>1, <2>2
<1>14. \A i \in 1 .. n : f[i] \in Q
  <2> DEFINE T == {i \in 1 .. n : f[i] \in Q}
  <2>1. 1 <= n => 1 \in T
    BY <1>1, <1>13
  <2>2. ASSUME NEW i \in 1 .. n - 1, i \in T
        PROVE  i + 1 \in T
    <3>1. i + 1 \in 1 .. n
      BY <1>1
    <3>2. f[i + 1] = f[i] \o seqs[i + 1]
      BY <1>13
    <3>3. seqs[i + 1] \in Q /\ f[i] \in Q
      BY <1>1, <2>2, <3>1
    <3>4. QED
      BY <1>2, <3>1, <3>2, <3>3
  <2>3. 1 .. n \subseteq T
    <3>1. 1 \in Int /\ n \in Int
      BY <1>1
    <3> HIDE DEF T
    <3>2. QED
      BY <2>1, <2>2, <3>1, IntervalInduction
  <2>4. QED
    BY <2>3
<1>15. f \in [1 .. n -> Q]
  BY <1>11, <1>14
<1>16. QED
  BY <1>10, <1>13, <1>15 DEF n, Q
=============================================================================
