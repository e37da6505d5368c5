----------------------------- MODULE WireProofs -----------------------------
(***************************************************************************)
(* What a varint is, for bytes of every size and varints of every length:  *)
(* each value has one encoding, what is decoded is what was encoded, and   *)
(* no other bytes are decoded as it.                                       *)
(***************************************************************************)
EXTENDS Wire, DataInduction

B == ContinueBit

-----------------------------------------------------------------------------
(* Arithmetic.                                                             *)

(* A product with a sum.                                                   *)
LEMMA Factor ==
  ASSUME NEW a \in Int, NEW b \in Int, NEW d \in Int
  PROVE  (a + b) * d = a * d + b * d
OBVIOUS

(* Products by a natural number are monotone.                              *)
LEMMA Monotone ==
  ASSUME NEW a \in Int, NEW b \in Int, NEW d \in Nat, a <= b
  PROVE  a * d <= b * d
<1>1. b - a \in Nat /\ b = a + (b - a)
  OBVIOUS
<1>2. b * d = a * d + (b - a) * d
  BY <1>1, Factor
<1>3. (b - a) * d \in Nat /\ a * d \in Int
  BY <1>1
<1>4. QED
  BY <1>2, <1>3

(* A byte with the continuation bit and what is left after it.             *)
LEMMA Divide ==
  ASSUME NEW v \in Nat, NEW d \in Nat \ {0}
  PROVE  /\ v \div d \in Nat /\ v % d \in 0 .. d - 1
         /\ v = (v \div d) * d + (v % d)
<1>1. v \div d \in Int /\ v % d \in 0 .. d - 1
  OBVIOUS
<1>2. v = d * (v \div d) + (v % d)
  OBVIOUS
<1>3. v \div d >= 0
  BY <1>1, <1>2
<1>4. QED
  BY <1>1, <1>2, <1>3

(* Quotient and rest are the only ones.                                    *)
LEMMA DivideUnique ==
  ASSUME NEW q \in Int, NEW d \in Nat \ {0}, NEW r \in 0 .. d - 1, q * d + r \in Nat
  PROVE  (q * d + r) \div d = q /\ (q * d + r) % d = r
<1> DEFINE v == q * d + r
           p == v \div d
           s == v % d
<1>1. p \in Int /\ s \in 0 .. d - 1 /\ v = p * d + s
  <2>1. v \in Nat
    OBVIOUS
  <2> HIDE DEF v
  <2>2. QED
    BY <2>1, Divide
<1>2. q * d + r = p * d + s
  BY <1>1
<1> HIDE DEF p, s
<1>3. (q - p) * d = s - r
  <2>1. (q - p) * d = q * d - p * d
    BY <1>1
  <2>2. q * d \in Int /\ p * d \in Int
    BY <1>1
  <2>3. QED
    BY <1>1, <1>2, <2>1, <2>2
<1>4. CASE q > p
  <2>1. 1 * d <= (q - p) * d
    BY <1>1, <1>4, Monotone
  <2>2. QED
    BY <1>1, <1>3, <2>1
<1>5. CASE p > q
  <2>1. (q - p) * d <= (-1) * d
    BY <1>1, <1>5, Monotone
  <2>2. QED
    BY <1>1, <1>3, <2>1
<1>6. CASE p = q
  BY <1>1, <1>2, <1>6 DEF p, s
<1>7. QED
  BY <1>1, <1>4, <1>5, <1>6

-----------------------------------------------------------------------------
(* The recursive functions of Wire are the ones their equations define.    *)

(* What the assumption says of the weight of a byte.                       *)
LEMMA BFacts == B \in Nat /\ B \in Nat \ {0} /\ B >= 8 /\ MaxVarint \in Nat \ {0}
BY WireAssumption DEF B

(* A byte is a number below twice the continuation bit.                    *)
LEMMA ByteIsNat == \A b \in Byte : b \in Nat /\ b < 2 * B
BY BFacts DEF Byte, B

(* The weights of the bytes are the powers of the continuation bit: the    *)
(* recursive function is what its equation says.                           *)
LEMMA WeightDef ==
  /\ Weight \in [Nat -> Nat]
  /\ Weight[0] = 1
  /\ \A n \in Nat \ {0} : Weight[n] = Weight[n - 1] * B
<1> DEFINE step == [p \in Nat \X Nat |-> p[1] * B]
<1>1. step \in [Nat \X Nat -> Nat]
  BY BFacts
<1>2. PICK g : Recursive(g, Nat, 1, step)
  <2> HIDE DEF step
  <2>1. QED
    BY <1>1, Recursion
<1>3. /\ g \in [Nat -> Nat] /\ g[0] = 1
      /\ \A i \in Nat \ {0} : g[i] = step[<<g[i - 1], i>>]
  BY <1>2 DEF Recursive
<1>4. \A i \in Nat \ {0} : g[i] = g[i - 1] * B
  <2>1. \A i \in Nat \ {0} : i - 1 \in Nat /\ g[i - 1] \in Nat
    BY <1>3
  <2>2. QED
    BY <1>3, <2>1
<1>5. g = [n \in Nat |-> IF n = 0 THEN 1 ELSE g[n - 1] * ContinueBit]
  BY <1>3, <1>4 DEF B
<1>6. Weight = [n \in Nat |-> IF n = 0 THEN 1 ELSE Weight[n - 1] * ContinueBit]
  BY <1>5 DEF Weight
<1>7. Weight[0] = 1 /\ \A n \in Nat \ {0} : Weight[n] = Weight[n - 1] * B
  <2> HIDE DEF Weight
  <2>1. QED
  BY <1>6 DEF B
<1>8. ASSUME NEW n \in Nat
      PROVE  Weight[n] \in Nat
  <2> DEFINE T == {i \in Nat : Weight[i] \in Nat}
  <2>1. 0 \in T
    BY <1>7
  <2>2. ASSUME NEW i \in Nat, i \in T
        PROVE  i + 1 \in T
    <3>1. Weight[i + 1] = Weight[i] * B
      BY <1>7
    <3>2. QED
      BY <2>2, <3>1, BFacts
  <2>3. Nat \subseteq T
    <3> HIDE DEF T
    <3>1. QED
      BY <2>1, <2>2, SetInduction
  <2>4. QED
    BY <2>3
<1>9. QED
  BY <1>6, <1>7, <1>8

(* Likewise the least number that does not fit so many bytes.              *)
LEMMA LimitDef ==
  /\ VarintLimit \in [Nat -> Nat]
  /\ VarintLimit[0] = 0
  /\ \A n \in Nat \ {0} : VarintLimit[n] = (VarintLimit[n - 1] + 1) * B
<1> DEFINE step == [p \in Nat \X Nat |-> (p[1] + 1) * B]
<1>1. step \in [Nat \X Nat -> Nat]
  BY BFacts
<1>2. PICK g : Recursive(g, Nat, 0, step)
  <2> HIDE DEF step
  <2>1. QED
    BY <1>1, Recursion
<1>3. /\ g \in [Nat -> Nat] /\ g[0] = 0
      /\ \A i \in Nat \ {0} : g[i] = step[<<g[i - 1], i>>]
  BY <1>2 DEF Recursive
<1>4. \A i \in Nat \ {0} : g[i] = (g[i - 1] + 1) * B
  <2>1. \A i \in Nat \ {0} : i - 1 \in Nat /\ g[i - 1] \in Nat
    BY <1>3
  <2>2. QED
    BY <1>3, <2>1
<1>5. g = [n \in Nat |-> IF n = 0 THEN 0 ELSE (g[n - 1] + 1) * ContinueBit]
  BY <1>3, <1>4 DEF B
<1>6. VarintLimit =
        [n \in Nat |-> IF n = 0 THEN 0 ELSE (VarintLimit[n - 1] + 1) * ContinueBit]
  BY <1>5 DEF VarintLimit
<1>7. /\ VarintLimit[0] = 0
      /\ \A n \in Nat \ {0} : VarintLimit[n] = (VarintLimit[n - 1] + 1) * B
  <2> HIDE DEF VarintLimit
  <2>1. QED
    BY <1>6 DEF B
<1>8. ASSUME NEW n \in Nat
      PROVE  VarintLimit[n] \in Nat
  <2> DEFINE T == {i \in Nat : VarintLimit[i] \in Nat}
  <2>1. 0 \in T
    BY <1>7
  <2>2. ASSUME NEW i \in Nat, i \in T
        PROVE  i + 1 \in T
    <3>1. VarintLimit[i + 1] = (VarintLimit[i] + 1) * B
      BY <1>7
    <3>2. QED
      BY <2>2, <3>1, BFacts
  <2>3. Nat \subseteq T
    <3> HIDE DEF T
    <3>1. QED
      BY <2>1, <2>2, SetInduction
  <2>4. QED
    BY <2>3
<1>9. QED
  BY <1>6, <1>7, <1>8

(* What is left before each byte, as a recursion over the bytes.           *)
LEMMA RestsDef ==
  ASSUME NEW v \in Nat, NEW len \in Nat, len = EncodedLenVarint(v)
  PROVE  /\ \A i \in 1 .. len : Rests(v)[i] \in Int
         /\ len >= 1 => Rests(v)[1] = v
         /\ \A i \in 2 .. len : Rests(v)[i] = (Rests(v)[i - 1] \div B) - 1
<1> DEFINE step == [p \in Int \X Nat |-> (p[1] \div B) - 1]
           eq(h) == h = [i \in 1 .. len |->
                           IF i = 1 THEN v ELSE (h[i - 1] \div ContinueBit) - 1]
<1>1. step \in [Int \X Nat -> Int]
  BY BFacts
<1>2. PICK g : Recursive(g, Int, v, step)
  <2> HIDE DEF step
  <2>1. v \in Int
    OBVIOUS
  <2>2. QED
    BY <1>1, <2>1, Recursion
<1>3. /\ g \in [Nat -> Int] /\ g[0] = v
      /\ \A i \in Nat \ {0} : g[i] = step[<<g[i - 1], i>>]
  BY <1>2 DEF Recursive
<1>4. \A i \in Nat \ {0} : g[i] = (g[i - 1] \div B) - 1
  <2>1. \A i \in Nat \ {0} : i - 1 \in Nat /\ g[i - 1] \in Int
    BY <1>3
  <2>2. QED
    BY <1>3, <2>1
<1> DEFINE h == [i \in 1 .. len |-> g[i - 1]]
<1>5. ASSUME NEW i \in 1 .. len
      PROVE  h[i] = IF i = 1 THEN v ELSE (h[i - 1] \div ContinueBit) - 1
  <2>1. CASE i = 1
    BY <1>3, <2>1
  <2>2. CASE i # 1
    <3>1. i - 1 \in Nat \ {0} /\ i - 1 \in 1 .. len
      BY <2>2
    <3>2. g[i - 1] = (g[(i - 1) - 1] \div B) - 1
      BY <1>4, <3>1
    <3>3. QED
      BY <2>2, <3>1, <3>2 DEF B
  <2>3. QED
    BY <2>1, <2>2
<1>6. eq(h)
  <2>1. h = [i \in 1 .. len |-> h[i]]
    OBVIOUS
  <2> HIDE DEF h
  <2>2. QED
    BY <1>5, <2>1
<1>7. eq(Rests(v))
  <2> HIDE DEF h
  <2>1. QED
    BY <1>6 DEF Rests
<1>8. /\ len >= 1 => Rests(v)[1] = v
      /\ \A i \in 2 .. len : Rests(v)[i] = (Rests(v)[i - 1] \div B) - 1
  <2> DEFINE r == Rests(v)
  <2>1. r = [i \in 1 .. len |-> IF i = 1 THEN v ELSE (r[i - 1] \div B) - 1]
    BY <1>7 DEF B
  <2> HIDE DEF r
  <2>2. ASSUME NEW i \in 1 .. len
        PROVE  r[i] = IF i = 1 THEN v ELSE (r[i - 1] \div B) - 1
    BY <2>1
  <2>3. len >= 1 => r[1] = v
    BY <2>2
  <2>4. \A i \in 2 .. len : r[i] = (r[i - 1] \div B) - 1
    BY <2>2
  <2>5. QED
    BY <2>3, <2>4 DEF r
<1>9. 1 .. len \subseteq {i \in 1 .. len : Rests(v)[i] \in Int}
  <2> DEFINE T == {i \in 1 .. len : Rests(v)[i] \in Int}
  <2>1. 1 <= len => 1 \in T
    BY <1>8
  <2>2. ASSUME NEW i \in 1 .. len - 1, i \in T
        PROVE  i + 1 \in T
    <3>1. Rests(v)[i + 1] = (Rests(v)[i] \div B) - 1
      BY <1>8
    <3>2. QED
      BY <2>2, <3>1, BFacts
  <2>3. 1 .. len \subseteq T
    <3> HIDE DEF T
    <3>1. QED
      BY <2>1, <2>2, IntervalInduction
  <2>4. QED
    BY <2>3
<1>10. QED
  BY <1>8, <1>9

(* What the first bytes add up to, as a recursion over the bytes.          *)
LEMMA SumsDef ==
  ASSUME NEW bytes \in Seq(Byte)
  PROVE  /\ \A i \in 0 .. Len(bytes) : Sums(bytes)[i] \in Nat
         /\ Sums(bytes)[0] = 0
         /\ \A i \in 1 .. Len(bytes) :
              Sums(bytes)[i] = Sums(bytes)[i - 1] + bytes[i] * Weight[i - 1]
<1> DEFINE n == Len(bytes)
           step == [p \in Nat \X Nat |->
                      IF p[2] \in 1 .. n THEN p[1] + bytes[p[2]] * Weight[p[2] - 1] ELSE 0]
           eq(h) == h = [i \in 0 .. n |->
                           IF i = 0 THEN 0 ELSE h[i - 1] + bytes[i] * Weight[i - 1]]
<1>1. n \in Nat /\ \A i \in 1 .. n : bytes[i] \in Nat /\ Weight[i - 1] \in Nat
  <2>1. n \in Nat /\ \A i \in 1 .. n : bytes[i] \in Byte
    BY LenProperties, ElementOfSeq
  <2>2. \A i \in 1 .. n : i - 1 \in Nat
    BY <2>1
  <2>3. QED
    BY <2>1, <2>2, WeightDef, ByteIsNat
<1>2. \A i \in 1 .. n : bytes[i] * Weight[i - 1] \in Nat
  BY <1>1
<1> HIDE DEF n
<1>3. step \in [Nat \X Nat -> Nat]
  BY <1>2
<1>4. PICK g : Recursive(g, Nat, 0, step)
  <2> HIDE DEF step
  <2>1. QED
    BY <1>3, Recursion
<1>5. /\ g \in [Nat -> Nat] /\ g[0] = 0
      /\ \A i \in Nat \ {0} : g[i] = step[<<g[i - 1], i>>]
  BY <1>4 DEF Recursive
<1>6. ASSUME NEW i \in 1 .. n
      PROVE  g[i] = g[i - 1] + bytes[i] * Weight[i - 1]
  <2>1. i \in Nat \ {0} /\ i - 1 \in Nat /\ g[i - 1] \in Nat
    BY <1>1, <1>5
  <2>2. g[i] = step[<<g[i - 1], i>>]
    BY <1>5, <2>1
  <2>3. QED
    BY <2>1, <2>2
<1> DEFINE h == [i \in 0 .. n |-> g[i]]
<1>7. ASSUME NEW i \in 0 .. n
      PROVE  h[i] = IF i = 0 THEN 0 ELSE h[i - 1] + bytes[i] * Weight[i - 1]
  <2>1. CASE i = 0
    BY <1>5, <2>1
  <2>2. CASE i # 0
    <3>1. i \in 1 .. n /\ i - 1 \in 0 .. n
      BY <1>1, <2>2
    <3>2. QED
      BY <1>6, <3>1
  <2>3. QED
    BY <2>1, <2>2
<1>8. eq(h)
  <2>1. h = [i \in 0 .. n |-> h[i]]
    OBVIOUS
  <2> HIDE DEF h
  <2>2. QED
    BY <1>7, <2>1
<1> DEFINE s == Sums(bytes)
<1>9. s = [i \in 0 .. n |-> IF i = 0 THEN 0 ELSE s[i - 1] + bytes[i] * Weight[i - 1]]
  <2> HIDE DEF h
  <2>1. QED
    BY <1>8 DEF Sums, n
<1> HIDE DEF s
<1>10. ASSUME NEW i \in 0 .. n
       PROVE  s[i] = IF i = 0 THEN 0 ELSE s[i - 1] + bytes[i] * Weight[i - 1]
  BY <1>9
<1>11. 0 .. n \subseteq {i \in 0 .. n : s[i] \in Nat}
  <2> DEFINE T == {i \in 0 .. n : s[i] \in Nat}
  <2>1. 0 <= n => 0 \in T
    BY <1>10
  <2>2. ASSUME NEW i \in 0 .. n - 1, i \in T
        PROVE  i + 1 \in T
    <3>1. i + 1 \in 1 .. n /\ i + 1 \in 0 .. n /\ (i + 1) - 1 = i
      BY <1>1
    <3>2. s[i + 1] = s[i] + bytes[i + 1] * Weight[(i + 1) - 1]
      BY <1>10, <3>1
    <3>3. QED
      BY <1>2, <2>2, <3>1, <3>2
  <2>3. 0 .. n \subseteq T
    <3>1. 0 \in Int /\ n \in Int
      BY <1>1
    <3> HIDE DEF T
    <3>2. QED
      BY <2>1, <2>2, <3>1, IntervalInduction
  <2>4. QED
    BY <2>3
<1>12. /\ s[0] = 0
       /\ \A i \in 1 .. n : s[i] = s[i - 1] + bytes[i] * Weight[i - 1]
  BY <1>1, <1>10
<1>13. QED
  BY <1>11, <1>12 DEF s, n

-----------------------------------------------------------------------------
(* The limits between the lengths.                                         *)

(* Longer varints begin at greater numbers.                                *)
LEMMA WeightGrows ==
  ASSUME NEW m \in Nat, NEW n \in Nat, m <= n
  PROVE  /\ Weight[m] \in Nat /\ Weight[n] \in Nat
         /\ 1 <= Weight[m] /\ Weight[m] <= Weight[n]
<1>1. ASSUME NEW i \in Nat
      PROVE  Weight[i] <= Weight[i + 1]
  <2>1. Weight[i] \in Nat /\ Weight[i + 1] = Weight[i] * B
    BY WeightDef
  <2>2. 1 * Weight[i] <= B * Weight[i]
    BY <2>1, BFacts, Monotone
  <2>3. QED
    BY <2>1, <2>2, BFacts
<1>2. Weight[0] <= Weight[m] /\ Weight[m] <= Weight[n]
  <2>1. 0 \in Nat /\ 0 <= m /\ Weight \in [Nat -> Nat]
    BY WeightDef
  <2>2. Weight[0] <= Weight[m]
    BY <1>1, <2>1, Monotonic
  <2>3. Weight[m] <= Weight[n]
    BY <1>1, <2>1, Monotonic
  <2>4. QED
    BY <2>2, <2>3
<1>3. QED
  BY <1>2, WeightDef

(* The numbers there are, in terms of the weight of the last byte.         *)
LEMMA RangeFacts ==
  /\ VarintRange \in Nat \ {0}
  /\ VarintRange = Weight[MaxVarint - 1] * (2 * B)
<1>1. Weight[MaxVarint - 1] \in Nat /\ 1 <= Weight[MaxVarint - 1]
  BY BFacts, WeightGrows
<1> DEFINE w == Weight[MaxVarint - 1]
<1>2. VarintRange = w * (2 * B)
  BY DEF VarintRange, B
<1> HIDE DEF w
<1>3. 1 * (2 * B) <= w * (2 * B)
  BY <1>1, BFacts, Monotone DEF w
<1>4. w * (2 * B) \in Nat
  BY <1>1, BFacts DEF w
<1>5. QED
  BY <1>2, <1>3, <1>4, BFacts DEF w

(* Longer varints hold greater numbers.                                    *)
LEMMA LimitGrows ==
  ASSUME NEW m \in Nat, NEW n \in Nat, m <= n
  PROVE  VarintLimit[m] \in Nat /\ VarintLimit[n] \in Nat /\ VarintLimit[m] <= VarintLimit[n]
<1>1. ASSUME NEW i \in Nat
      PROVE  VarintLimit[i] <= VarintLimit[i + 1]
  <2>1. VarintLimit[i] \in Nat /\ VarintLimit[i + 1] = (VarintLimit[i] + 1) * B
    BY LimitDef
  <2>2. 1 * (VarintLimit[i] + 1) <= B * (VarintLimit[i] + 1)
    BY <2>1, BFacts, Monotone
  <2>3. QED
    BY <2>1, <2>2, BFacts
<1>2. VarintLimit[m] <= VarintLimit[n]
  BY <1>1, LimitDef, Monotonic
<1>3. QED
  BY <1>2, LimitDef

HasLength(v, n) ==
  /\ v >= VarintLimit[n - 1]
  /\ n = MaxVarint \/ v < VarintLimit[n]

(* Every value has one length.                                             *)
LEMMA LengthIs ==
  ASSUME NEW v \in Nat
  PROVE  EncodedLenVarint(v) \in 1 .. MaxVarint /\ HasLength(v, EncodedLenVarint(v))
<1> DEFINE T == {n \in Nat : 1 <= n /\ (n = MaxVarint \/ v < VarintLimit[n])}
<1>1. PICK m \in T : \A n \in T : m <= n
  <2>1. MaxVarint \in T
    BY BFacts
  <2>2. T \in SUBSET Nat
    OBVIOUS
  <2> HIDE DEF T
  <2>3. QED
    BY <2>1, <2>2, LeastNatural
<1>2. m \in 1 .. MaxVarint
  <2>1. MaxVarint \in T
    BY BFacts
  <2>2. QED
    BY <1>1, <2>1, BFacts
<1>3. v >= VarintLimit[m - 1]
  <2>1. CASE m = 1
    BY <2>1, LimitDef
  <2>2. CASE m # 1
    <3>1. m - 1 \in Nat /\ 1 <= m - 1 /\ m - 1 \notin T
      BY <1>1, <1>2, <2>2
    <3>2. ~ (v < VarintLimit[m - 1]) /\ VarintLimit[m - 1] \in Nat
      BY <3>1, LimitDef
    <3>3. QED
      BY <3>2
  <2>3. QED
    BY <2>1, <2>2
<1>4. HasLength(v, m)
  BY <1>1, <1>3 DEF HasLength
<1>5. QED
  BY <1>2, <1>4 DEF EncodedLenVarint, HasLength

(* A number has one length.                                                *)
LEMMA LengthUnique ==
  ASSUME NEW v \in Nat, NEW n \in 1 .. MaxVarint, HasLength(v, n)
  PROVE  EncodedLenVarint(v) = n
<1> DEFINE m == EncodedLenVarint(v)
<1>1. m \in 1 .. MaxVarint /\ HasLength(v, m)
  BY LengthIs
<1> HIDE DEF m
<1>2. n \in Nat /\ m \in Nat /\ n - 1 \in Nat /\ m - 1 \in Nat
  BY <1>1, BFacts
<1>3. CASE m < n
  <2>1. VarintLimit[m] <= VarintLimit[n - 1] /\ VarintLimit[m] \in Nat
    BY <1>2, <1>3, LimitGrows
  <2>2. v < VarintLimit[m] /\ v >= VarintLimit[n - 1]
    BY <1>1, <1>2, <1>3, BFacts DEF HasLength
  <2>3. QED
    BY <1>2, <2>1, <2>2, LimitDef
<1>4. CASE n < m
  <2>1. VarintLimit[n] <= VarintLimit[m - 1] /\ VarintLimit[n] \in Nat
    BY <1>2, <1>4, LimitGrows
  <2>2. v < VarintLimit[n] /\ v >= VarintLimit[m - 1]
    BY <1>1, <1>2, <1>4, BFacts DEF HasLength
  <2>3. QED
    BY <1>2, <2>1, <2>2, LimitDef
<1>5. QED
  BY <1>2, <1>3, <1>4 DEF m

-----------------------------------------------------------------------------
(* Encoding.                                                               *)

(* What is at least, or below, a multiple is so after division.            *)
LEMMA DivideBounds ==
  ASSUME NEW v \in Nat, NEW d \in Nat \ {0}, NEW a \in Int
  PROVE  /\ a * d <= v => a <= v \div d
         /\ v < a * d => v \div d < a
<1> DEFINE q == v \div d
           r == v % d
<1>1. q \in Nat /\ r \in 0 .. d - 1 /\ v = q * d + r
  BY Divide
<1> HIDE DEF q, r
<1>2. q * d \in Nat /\ a * d \in Int
  BY <1>1
<1>3. ASSUME a * d <= v, a > q
      PROVE  FALSE
  <2>1. (q + 1) * d <= a * d
    BY <1>1, <1>3, Monotone
  <2>2. (q + 1) * d = q * d + d
    BY <1>1
  <2>3. QED
    BY <1>1, <1>2, <1>3, <2>1, <2>2
<1>4. ASSUME v < a * d, q >= a
      PROVE  FALSE
  <2>1. a * d <= q * d
    BY <1>1, <1>4, Monotone
  <2>2. QED
    BY <1>1, <1>2, <1>4, <2>1
<1>5. QED
  BY <1>1, <1>3, <1>4 DEF q

(* What is left before a byte needs the bytes that are still to come.      *)
LEMMA RestsBounds ==
  ASSUME NEW v \in Nat, NEW len \in Nat, len = EncodedLenVarint(v), NEW i \in 1 .. len
  PROVE  /\ Rests(v)[i] \in Nat
         /\ Rests(v)[i] >= VarintLimit[len - i]
         /\ len < MaxVarint => Rests(v)[i] < VarintLimit[len - i + 1]
         /\ Rests(v)[i] * Weight[i - 1] <= v
<1> DEFINE r == Rests(v)
           Good(k) == /\ r[k] \in Nat
                      /\ r[k] >= VarintLimit[len - k]
                      /\ len < MaxVarint => r[k] < VarintLimit[len - k + 1]
                      /\ r[k] * Weight[k - 1] <= v
           T == {k \in 1 .. len : Good(k)}
<1>1. /\ r[1] = v
      /\ \A k \in 2 .. len : r[k] = (r[k - 1] \div B) - 1
  BY RestsDef
<1>2. len \in 1 .. MaxVarint /\ HasLength(v, len)
  BY LengthIs
<1> HIDE DEF r
<1>3. 1 <= len => 1 \in T
  <2>1. r[1] \in Nat /\ r[1] >= VarintLimit[len - 1]
    BY <1>1, <1>2 DEF HasLength
  <2>2. len < MaxVarint => r[1] < VarintLimit[len - 1 + 1]
    BY <1>1, <1>2, BFacts DEF HasLength
  <2>3. r[1] * Weight[1 - 1] <= v
    BY <1>1, WeightDef
  <2>4. QED
    BY <1>2, <2>1, <2>2, <2>3
<1>4. ASSUME NEW k \in 1 .. len - 1, k \in T
      PROVE  k + 1 \in T
  <2> DEFINE low == VarintLimit[len - (k + 1)]
             high == VarintLimit[len - (k + 1) + 1]
  <2>1. k + 1 \in 1 .. len /\ Good(k) /\ r[k + 1] = (r[k] \div B) - 1
    BY <1>1, <1>4
  <2>2. /\ low \in Nat /\ VarintLimit[len - k] = (low + 1) * B
        /\ high \in Nat /\ VarintLimit[len - k + 1] = (high + 1) * B
    <3>1. len - k \in Nat \ {0} /\ (len - k) - 1 = len - (k + 1)
      BY <1>4
    <3>2. len - k + 1 \in Nat \ {0} /\ (len - k + 1) - 1 = len - (k + 1) + 1
      BY <1>4
    <3>3. len - (k + 1) \in Nat /\ len - (k + 1) + 1 \in Nat
      BY <1>4
    <3>4. QED
      BY <3>1, <3>2, <3>3, LimitDef
  <2>10. r[k] \in Nat /\ low + 1 \in Int /\ high + 1 \in Int
    BY <2>1, <2>2
  <2>11. (low + 1) * B <= r[k]
    BY <2>1, <2>2
  <2> HIDE DEF low, high
  <2>3. low + 1 <= r[k] \div B
    BY <2>10, <2>11, BFacts, DivideBounds
  <2>4. len < MaxVarint => r[k] \div B < high + 1
    <3>1. SUFFICES ASSUME len < MaxVarint PROVE r[k] \div B < high + 1
      OBVIOUS
    <3>2. r[k] < (high + 1) * B
      BY <2>1, <2>2, <3>1
    <3>3. QED
      BY <2>10, <3>2, BFacts, DivideBounds
  <2>5. r[k] \div B \in Nat
    BY <2>10, BFacts, Divide
  <2>6. r[k + 1] * Weight[(k + 1) - 1] <= v
    <3> DEFINE w == Weight[k - 1]
    <3>1. w \in Nat /\ Weight[(k + 1) - 1] = w * B
      <4>1. k \in Nat \ {0} /\ k - 1 \in Nat /\ (k + 1) - 1 = k
        OBVIOUS
      <4>2. QED
        BY <4>1, WeightDef
    <3>2. r[k + 1] * B <= r[k]
      <4> DEFINE q == r[k] \div B
                 m == r[k] % B
      <4>1. q \in Nat /\ m \in 0 .. B - 1 /\ r[k] = q * B + m
        BY <2>10, BFacts, Divide
      <4>2. r[k + 1] = q - 1
        BY <2>1
      <4> HIDE DEF q, m
      <4>3. (q - 1) * B = q * B - B
        BY <4>1, BFacts
      <4>4. QED
        BY <4>1, <4>2, <4>3, BFacts
    <3> HIDE DEF w
    <3>3. (r[k + 1] * B) * w <= r[k] * w
      BY <2>1, <2>5, <3>1, <3>2, BFacts, Monotone
    <3>4. r[k + 1] * (w * B) = (r[k + 1] * B) * w
      BY <2>1, <2>5, <3>1, BFacts
    <3>5. r[k] * w <= v
      BY <2>1 DEF w
    <3>6. QED
      BY <2>1, <2>5, <3>1, <3>3, <3>4, <3>5, BFacts
  <2>7. r[k + 1] \in Nat /\ r[k + 1] >= low /\ (len < MaxVarint => r[k + 1] < high)
    BY <2>1, <2>2, <2>3, <2>4, <2>5
  <2>8. Good(k + 1)
    BY <2>6, <2>7 DEF low, high
  <2>9. QED
    BY <2>1, <2>8
<1>5. 1 .. len \subseteq T
  <2>1. 1 \in Int /\ len \in Int
    OBVIOUS
  <2> HIDE DEF T
  <2>2. QED
    BY <1>3, <1>4, <2>1, IntervalInduction
<1>6. QED
  BY <1>5 DEF r

(* The bytes of a varint: as many as it is long, all but the last with the *)
(* continuation bit, and the last without, unless it is the longest.       *)
LEMMA EncodedBytes ==
  ASSUME NEW v \in 0 .. VarintRange - 1, NEW len \in Nat, len = EncodedLenVarint(v)
  PROVE  /\ EncodeVarint(v) \in Seq(Byte)
         /\ Len(EncodeVarint(v)) = len /\ len \in 1 .. MaxVarint
         /\ \A i \in 1 .. len : Rests(v)[i] \in Nat
         /\ \A i \in 1 .. len - 1 : EncodeVarint(v)[i] = B + (Rests(v)[i] % B)
         /\ \A i \in 1 .. len - 1 : EncodeVarint(v)[i] >= B
         /\ EncodeVarint(v)[len] = Rests(v)[len]
         /\ len = MaxVarint \/ EncodeVarint(v)[len] < B
<1> DEFINE r == Rests(v)
           e == EncodeVarint(v)
<1>1. len \in 1 .. MaxVarint /\ v \in Nat
  <2>1. v \in Nat
    BY RangeFacts
  <2>2. QED
    BY <2>1, LengthIs
<1>2. e = [i \in 1 .. len |-> IF i = len THEN r[i] ELSE B + (r[i] % B)]
  BY DEF EncodeVarint, B
<1>3. \A i \in 1 .. len : r[i] \in Nat /\ r[i] * Weight[i - 1] <= v
  BY <1>1, RestsBounds
<1>4. len < MaxVarint => r[len] < B
  <2>1. 1 <= len /\ len \in 1 .. len
    BY <1>1
  <2>2. len < MaxVarint => r[len] < VarintLimit[len - len + 1]
    BY <1>1, <2>1, RestsBounds
  <2>3. VarintLimit[len - len + 1] = B
    <3>1. VarintLimit[1] = (VarintLimit[0] + 1) * B
      BY LimitDef
    <3>2. (0 + 1) * B = B
      BY BFacts
    <3>3. len - len + 1 = 1
      OBVIOUS
    <3>4. QED
      BY <3>1, <3>2, <3>3, LimitDef
  <2>4. QED
    BY <2>2, <2>3
<1>5. r[len] < 2 * B
  <2>1. CASE len < MaxVarint
    BY <1>1, <1>3, <1>4, <2>1, BFacts
  <2>2. CASE len = MaxVarint
    <3> DEFINE w == Weight[MaxVarint - 1]
    <3>1. w \in Nat /\ 1 <= w
      BY BFacts, WeightGrows
    <3>2. v < w * (2 * B)
      BY RangeFacts
    <3>3. r[len] \in Nat /\ r[len] * w <= v
      BY <1>1, <1>3, <2>2
    <3> HIDE DEF w
    <3>4. ASSUME r[len] >= 2 * B
          PROVE  FALSE
      <4>1. (2 * B) * w <= r[len] * w
        BY <3>1, <3>3, <3>4, BFacts, Monotone
      <4>2. (2 * B) * w = w * (2 * B) /\ w * (2 * B) \in Int /\ r[len] * w \in Int
        BY <3>1, <3>3, BFacts
      <4>3. QED
        BY <1>1, <3>2, <3>3, <4>1, <4>2
    <3>5. QED
      BY <3>3, <3>4, BFacts
  <2>3. QED
    BY <1>1, <2>1, <2>2, BFacts
<1> HIDE DEF r, e
<1>6. \A i \in 1 .. len : r[i] % B \in 0 .. B - 1
  BY <1>3, BFacts, Divide
<1>7. \A i \in 1 .. len : e[i] = IF i = len THEN r[i] ELSE B + (r[i] % B)
  BY <1>2
<1>8. \A i \in 1 .. len : e[i] \in Byte
  <2>1. Byte = 0 .. 2 * B - 1
    BY DEF Byte, B
  <2>2. ASSUME NEW i \in 1 .. len
        PROVE  e[i] \in 0 .. 2 * B - 1
    BY <1>1, <1>3, <1>5, <1>6, <1>7, BFacts
  <2>3. QED
    BY <2>1, <2>2
<1>9. e \in [1 .. len -> Byte]
  BY <1>2, <1>7, <1>8
<1>10. e \in Seq(Byte) /\ Len(e) = len
  BY <1>9, FunctionIsSeq
<1>11. \A i \in 1 .. len - 1 : e[i] = B + (r[i] % B) /\ e[i] >= B
  BY <1>6, <1>7, BFacts
<1>12. e[len] = r[len]
  BY <1>1, <1>7
<1>13. len = MaxVarint \/ e[len] < B
  BY <1>1, <1>4, <1>12, BFacts
<1>14. \A i \in 1 .. len : r[i] \in Nat
  BY <1>3
<1>15. QED
  BY <1>1, <1>10, <1>11, <1>12, <1>13, <1>14 DEF r, e

-----------------------------------------------------------------------------
(* Decoding.                                                               *)

(* A varint ends in one place.                                             *)
LEMMA EndUnique ==
  ASSUME NEW bytes \in Seq(Byte), NEW n \in VarintEnds(bytes)
  PROVE  /\ (CHOOSE i \in VarintEnds(bytes) : TRUE) = n
         /\ VarintEnds(bytes) # {}
         /\ n \in 1 .. Len(bytes) /\ n \in 1 .. MaxVarint
<1>1. \A i \in 1 .. Len(bytes) : bytes[i] \in Nat
  BY ElementOfSeq, ByteIsNat
<1>2. Len(bytes) \in Nat
  BY LenProperties
<1>3. ASSUME NEW i \in VarintEnds(bytes), NEW j \in VarintEnds(bytes), i < j
      PROVE  FALSE
  <2>1. /\ i \in 1 .. Len(bytes) /\ j \in 1 .. Len(bytes) /\ j <= MaxVarint
        /\ bytes[i] < ContinueBit \/ i = MaxVarint
        /\ \A k \in 1 .. j - 1 : bytes[k] >= ContinueBit
    BY DEF VarintEnds
  <2>2. i \in 1 .. j - 1
    BY <1>2, <1>3, <2>1
  <2>3. bytes[i] >= ContinueBit /\ i # MaxVarint
    BY <1>2, <1>3, <2>1, <2>2, BFacts
  <2>4. QED
    BY <1>1, <2>1, <2>3, BFacts DEF B
<1>4. n \in 1 .. Len(bytes) /\ n <= MaxVarint
  BY DEF VarintEnds
<1>5. \A i \in VarintEnds(bytes) : i \in 1 .. Len(bytes)
  BY DEF VarintEnds
<1> DEFINE c == CHOOSE i \in VarintEnds(bytes) : TRUE
<1>6. c \in VarintEnds(bytes)
  OBVIOUS
<1> HIDE DEF c
<1>7. c = n
  BY <1>2, <1>3, <1>5, <1>6
<1>8. QED
  BY <1>2, <1>4, <1>7, BFacts DEF c

(* Where a varint ends decides what it is decoded to.                      *)
LEMMA DecodedAt ==
  ASSUME NEW bytes \in Seq(Byte), NEW n \in VarintEnds(bytes)
  PROVE  DecodeVarint(bytes) =
           [error |-> IF Sums(bytes)[n] < VarintRange THEN "none" ELSE "InvalidVarint",
            value |-> Sums(bytes)[n], used |-> n]
BY EndUnique DEF DecodeVarint

(* What the first bytes add up to is less than thrice what the next one    *)
(* counts for, so that only the last byte of the longest varint can leave  *)
(* the range.                                                              *)
LEMMA SumsBound ==
  ASSUME NEW bytes \in Seq(Byte), NEW i \in 0 .. Len(bytes)
  PROVE  /\ Sums(bytes)[i] \in Nat
         /\ Sums(bytes)[i] < 3 * Weight[i]
         /\ i < MaxVarint => Sums(bytes)[i] < VarintRange
<1> DEFINE s == Sums(bytes)
           n == Len(bytes)
           T == {k \in 0 .. n : s[k] < 3 * Weight[k]}
<1>1. /\ n \in Nat
      /\ \A k \in 0 .. n : s[k] \in Nat
      /\ s[0] = 0
      /\ \A k \in 1 .. n : s[k] = s[k - 1] + bytes[k] * Weight[k - 1]
  BY SumsDef, LenProperties
<1>2. \A k \in 1 .. n : bytes[k] \in Nat /\ bytes[k] < 2 * B
  BY ElementOfSeq, ByteIsNat
<1> HIDE DEF s, n
<1>3. 0 <= n => 0 \in T
  <2>1. s[0] < 3 * Weight[0]
    <3>1. Weight[0] = 1 /\ 3 * 1 = 3
      BY WeightDef
    <3>2. QED
      BY <1>1, <3>1
  <2>2. QED
    BY <1>1, <2>1
<1>4. ASSUME NEW k \in 0 .. n - 1, k \in T
      PROVE  k + 1 \in T
  <2> DEFINE w == Weight[k]
             b == bytes[k + 1]
  <2>1. k \in Nat /\ k + 1 \in 1 .. n /\ (k + 1) - 1 = k
    BY <1>1
  <2>2. w \in Nat /\ 1 <= w /\ Weight[k + 1] = w * B
    BY <2>1, WeightDef, WeightGrows
  <2>3. b \in Nat /\ b <= 2 * B - 1
    BY <1>2, <2>1, BFacts
  <2>4. s[k + 1] = s[k] + b * w /\ s[k] \in Nat /\ s[k] < 3 * w
    BY <1>1, <1>4, <2>1
  <2> HIDE DEF w, b
  <2>5. b * w <= (2 * B - 1) * w
    BY <2>2, <2>3, BFacts, Monotone
  <2>6. (3 + (2 * B - 1)) * w = 3 * w + (2 * B - 1) * w
    BY <2>2, BFacts
  <2>7. (3 + (2 * B - 1)) * w <= (3 * B) * w
    BY <2>2, BFacts, Monotone
  <2>8. (3 * B) * w = 3 * (w * B)
    BY <2>2, BFacts
  <2>9. b * w \in Int /\ (2 * B - 1) * w \in Int /\ w * B \in Int
    BY <2>2, <2>3, BFacts
  <2>10. s[k + 1] < 3 * (w * B)
    <3>1. s[k + 1] < 3 * w + (2 * B - 1) * w
      BY <2>2, <2>4, <2>5, <2>9
    <3> HIDE DEF n
    <3>2. (3 + (2 * B - 1)) * w \in Int /\ 3 * w \in Int /\ s[k + 1] \in Int
      BY <2>2, <2>4, <2>9, BFacts
    <3>3. QED
      BY <2>6, <2>7, <2>8, <2>9, <3>1, <3>2
  <2>11. QED
    BY <1>1, <2>1, <2>2, <2>10
<1>5. 0 .. n \subseteq T
  <2>1. 0 \in Int /\ n \in Int
    BY <1>1
  <2> HIDE DEF T
  <2>2. QED
    BY <1>3, <1>4, <2>1, IntervalInduction
<1>6. i \in 0 .. n
  BY DEF n
<1>7. ASSUME i < MaxVarint
      PROVE  s[i] < VarintRange
  <2> DEFINE v == Weight[i]
             w == Weight[MaxVarint - 1]
  <2>1. v \in Nat /\ w \in Nat /\ v <= w
    BY <1>1, <1>6, <1>7, BFacts, WeightGrows
  <2>2. s[i] \in Nat /\ s[i] < 3 * v /\ VarintRange = w * (2 * B) /\ VarintRange \in Nat
    BY <1>1, <1>5, <1>6, RangeFacts
  <2> HIDE DEF v, w
  <2>3. 3 * w <= (2 * B) * w
    BY <2>1, BFacts, Monotone
  <2>4. (2 * B) * w = w * (2 * B)
    BY <2>1, BFacts
  <2>5. 3 * v <= 3 * w
    BY <2>1
  <2>6. QED
    BY <2>1, <2>2, <2>3, <2>4, <2>5
<1>8. QED
  BY <1>1, <1>5, <1>6, <1>7 DEF s

(* Two byte strings with the same beginning have the same sums over it.    *)
LEMMA SumsAgree ==
  ASSUME NEW a \in Seq(Byte), NEW b \in Seq(Byte), NEW n \in Nat,
         n <= Len(a), n <= Len(b), \A i \in 1 .. n : a[i] = b[i],
         NEW i \in 0 .. n
  PROVE  Sums(a)[i] = Sums(b)[i]
<1> DEFINE s == Sums(a)
           t == Sums(b)
           T == {k \in 0 .. n : s[k] = t[k]}
<1>1. Len(a) \in Nat /\ Len(b) \in Nat
  BY LenProperties
<1>2. /\ s[0] = 0 /\ t[0] = 0
      /\ \A k \in 1 .. n : s[k] = s[k - 1] + a[k] * Weight[k - 1]
      /\ \A k \in 1 .. n : t[k] = t[k - 1] + b[k] * Weight[k - 1]
  BY <1>1, SumsDef
<1> HIDE DEF s, t
<1>3. 0 <= n => 0 \in T
  BY <1>2
<1>4. ASSUME NEW k \in 0 .. n - 1, k \in T
      PROVE  k + 1 \in T
  <2>1. k + 1 \in 1 .. n /\ k + 1 \in 0 .. n /\ (k + 1) - 1 = k /\ s[k] = t[k]
    BY <1>4
  <2>2. QED
    BY <1>2, <2>1
<1>5. 0 .. n \subseteq T
  <2>1. 0 \in Int /\ n \in Int
    OBVIOUS
  <2> HIDE DEF T
  <2>2. QED
    BY <1>3, <1>4, <2>1, IntervalInduction
<1>6. QED
  BY <1>5 DEF s, t

(* What was encoded is decoded, whatever follows it.                       *)
LEMMA DecodesPrefix ==
  ASSUME NEW v \in 0 .. VarintRange - 1, NEW bytes \in Seq(Byte),
         NEW len \in Nat, len = EncodedLenVarint(v), len <= Len(bytes),
         \A i \in 1 .. len : bytes[i] = EncodeVarint(v)[i]
  PROVE  /\ len \in VarintEnds(bytes)
         /\ Sums(bytes)[len] = v
         /\ DecodeVarint(bytes) = [error |-> "none", value |-> v, used |-> len]
<1> DEFINE s == Sums(bytes)
           r == Rests(v)
           T == {k \in 1 .. len : v = s[k - 1] + r[k] * Weight[k - 1]}
<1>1. /\ len \in 1 .. MaxVarint
      /\ \A i \in 1 .. len : r[i] \in Nat
      /\ \A i \in 1 .. len - 1 : bytes[i] = B + (r[i] % B) /\ bytes[i] >= B
      /\ bytes[len] = r[len]
      /\ len = MaxVarint \/ bytes[len] < B
  <2>1. /\ len \in 1 .. MaxVarint
        /\ \A i \in 1 .. len : r[i] \in Nat
    BY EncodedBytes
  <2>2. len \in 1 .. len /\ \A i \in 1 .. len - 1 : i \in 1 .. len
    BY <2>1
  <2>3. QED
    BY <2>1, <2>2, EncodedBytes
<1>2. v \in Nat /\ v < VarintRange /\ Len(bytes) \in Nat
  BY RangeFacts, LenProperties
<1>3. r[1] = v /\ \A k \in 2 .. len : r[k] = (r[k - 1] \div B) - 1
  BY <1>1, <1>2, RestsDef
<1>4. /\ s[0] = 0
      /\ \A k \in 0 .. len : s[k] \in Nat
      /\ \A k \in 1 .. len : s[k] = s[k - 1] + bytes[k] * Weight[k - 1]
  BY <1>2, SumsDef
<1> HIDE DEF s, r
<1>5. 1 <= len => 1 \in T
  <2>1. Weight[1 - 1] = 1 /\ s[1 - 1] = 0
    BY <1>4, WeightDef
  <2>2. v * 1 = v
    BY <1>2
  <2>3. QED
    BY <1>1, <1>3, <2>1, <2>2
<1>6. ASSUME NEW k \in 1 .. len - 1, k \in T
      PROVE  k + 1 \in T
  <2> DEFINE w == Weight[k - 1]
             q == r[k] \div B
             m == r[k] % B
  <2>1. k \in 1 .. len /\ k + 1 \in 2 .. len /\ (k + 1) - 1 = k /\ k \in Nat \ {0} /\ k - 1 \in Nat
    BY <1>1
  <2>2. w \in Nat /\ Weight[k] = w * B
    BY <2>1, WeightDef
  <2>3. q \in Nat /\ m \in 0 .. B - 1 /\ r[k] = q * B + m
    BY <1>1, <2>1, BFacts, Divide
  <2>4. s[k] = s[k - 1] + (B + m) * w /\ r[k + 1] = q - 1
    BY <1>1, <1>3, <1>4, <2>1
  <2>5. v = s[k - 1] + r[k] * w /\ s[k - 1] \in Nat
    BY <1>4, <1>6, <2>1
  <2> HIDE DEF w, q, m
  <2>6. (B + m) * w + (q - 1) * (w * B) = (q * B + m) * w
    BY <2>2, <2>3, BFacts
  <2>7. (B + m) * w \in Int /\ (q - 1) * (w * B) \in Int
    <3>1. w \in Int /\ B \in Int /\ m \in Int /\ q \in Int
      BY <2>2, <2>3, BFacts
    <3> QED
      BY ONLY <3>1
  <2>8. v = s[k] + r[k + 1] * Weight[k]
    <3>1. r[k + 1] * Weight[k] = (q - 1) * (w * B)
      BY ONLY <2>2, <2>4
    <3>2. v = s[k - 1] + (q * B + m) * w
      BY ONLY <2>3, <2>5
    <3>3. s[k - 1] \in Int /\ s[k] = s[k - 1] + (B + m) * w
      BY <2>4, <2>5
    <3> QED
      BY ONLY <2>6, <2>7, <3>1, <3>2, <3>3
  <2>9. QED
    BY <2>1, <2>8
<1>7. 1 .. len \subseteq T
  <2>1. 1 \in Int /\ len \in Int
    OBVIOUS
  <2> HIDE DEF T
  <2>2. QED
    BY <1>5, <1>6, <2>1, IntervalInduction
<1>8. s[len] = v
  BY <1>1, <1>4, <1>7
<1>9. len \in VarintEnds(bytes)
  BY <1>1, <1>2, BFacts DEF VarintEnds, B
<1>10. DecodeVarint(bytes) = [error |-> "none", value |-> v, used |-> len]
  BY <1>2, <1>8, <1>9, DecodedAt DEF s
<1>11. QED
  BY <1>8, <1>9, <1>10 DEF s

(* A common positive factor cancels.                                       *)
LEMMA Cancel ==
  ASSUME NEW a \in Int, NEW b \in Int, NEW d \in Nat \ {0}, a * d = b * d
  PROVE  a = b
<1>1. a * d \in Int /\ b * d \in Int
  OBVIOUS
<1>2. ASSUME NEW x \in Int, NEW y \in Int, x * d = y * d, x < y
      PROVE  FALSE
  <2>1. (x + 1) * d <= y * d
    BY <1>2, Monotone
  <2>2. (x + 1) * d = x * d + d
    OBVIOUS
  <2>3. x * d \in Int
    OBVIOUS
  <2>4. QED
    BY <1>2, <2>1, <2>2, <2>3
<1>3. QED
  BY <1>2

(* What the bytes from one on to the end stand for: with the continuation  *)
(* bit left in, as the sums have it.                                       *)
LEMMA TailOf ==
  ASSUME NEW bytes \in Seq(Byte), NEW n \in VarintEnds(bytes), NEW i \in 1 .. n
  PROVE  \E t \in Nat :
           /\ Sums(bytes)[n] = Sums(bytes)[i - 1] + t * Weight[i - 1]
           /\ t >= VarintLimit[n - i]
           /\ n < MaxVarint => t < VarintLimit[n - i + 1]
<1> DEFINE s == Sums(bytes)
           v == Sums(bytes)[n]
           Is(t, j) == /\ v = s[n - j - 1] + t * Weight[n - j - 1]
                       /\ t >= VarintLimit[j]
                       /\ n < MaxVarint => t < VarintLimit[j + 1]
           T == {j \in 0 .. n - 1 : \E t \in Nat : Is(t, j)}
<1>1. /\ n \in 1 .. MaxVarint /\ n \in 1 .. Len(bytes) /\ Len(bytes) \in Nat
      /\ n \in Nat \ {0}
  BY EndUnique, LenProperties, BFacts
<1>2. /\ \A k \in 1 .. n : bytes[k] \in Nat /\ bytes[k] < 2 * B
      /\ \A k \in 1 .. n - 1 : bytes[k] >= B
      /\ n < MaxVarint => bytes[n] < B
  <2>1. \A k \in 1 .. n : bytes[k] \in Nat /\ bytes[k] < 2 * B
    BY <1>1, ElementOfSeq, ByteIsNat
  <2>2. QED
    BY <2>1, <1>1 DEF VarintEnds, B
<1>3. /\ \A k \in 0 .. n : s[k] \in Nat
      /\ \A k \in 1 .. n : s[k] = s[k - 1] + bytes[k] * Weight[k - 1]
      /\ v = s[n]
  BY <1>1, SumsDef
<1>4. /\ VarintLimit[0] = 0 /\ VarintLimit[1] = B
      /\ \A k \in Nat : VarintLimit[k] \in Nat /\ VarintLimit[k + 1] = (VarintLimit[k] + 1) * B
  <2>1. ASSUME NEW k \in Nat
        PROVE  VarintLimit[k] \in Nat /\ VarintLimit[k + 1] = (VarintLimit[k] + 1) * B
    <3>1. k + 1 \in Nat \ {0} /\ (k + 1) - 1 = k
      OBVIOUS
    <3>2. QED
      BY <3>1, LimitDef
  <2>2. VarintLimit[0 + 1] = (VarintLimit[0] + 1) * B
    BY <2>1
  <2>3. (0 + 1) * B = B /\ 0 + 1 = 1
    BY BFacts
  <2>4. QED
    BY <2>1, <2>2, <2>3, LimitDef
<1> HIDE DEF s, v
<1>5. 0 <= n - 1 => 0 \in T
  <2>1. n \in 1 .. n /\ n - 0 - 1 = n - 1
    BY <1>1
  <2>2. v = s[n - 0 - 1] + bytes[n] * Weight[n - 0 - 1] /\ bytes[n] \in Nat
    BY <1>2, <1>3, <2>1
  <2>3. n < MaxVarint => bytes[n] < VarintLimit[0 + 1]
    <3>1. 0 + 1 = 1
      OBVIOUS
    <3>2. QED
      BY <1>2, <1>4, <3>1
  <2>4. bytes[n] >= VarintLimit[0]
    <3>1. VarintLimit[0] = 0 /\ bytes[n] \in Nat
      BY <1>4, <2>2
    <3>2. QED
      BY <3>1
  <2> HIDE DEF T
  <2> DEFINE b == bytes[n]
  <2>5. Is(b, 0)
    <3> HIDE DEF b
    <3>1. QED
      BY <2>2, <2>3, <2>4 DEF b
  <2>6. QED
    BY <1>1, <2>2, <2>5 DEF T
<1>6. ASSUME NEW j \in 0 .. n - 1 - 1, j \in T
      PROVE  j + 1 \in T
  <2> DEFINE k == n - j - 1
             w == Weight[k - 1]
             b == bytes[k]
             low == VarintLimit[j]
             high == VarintLimit[j + 1]
  <2>1. /\ k \in 1 .. n - 1 /\ k \in 1 .. n /\ k - 1 = n - (j + 1) - 1 /\ k \in Nat \ {0}
        /\ k - 1 \in Nat /\ k - 1 \in 0 .. n /\ k \in 0 .. n /\ k = n - j - 1
        /\ j \in Nat /\ j + 1 \in Nat /\ j + 1 \in 0 .. n - 1
    BY <1>1
  <2>2. PICK t \in Nat : Is(t, j)
    BY <1>6
  <2> HIDE DEF k
  <2>3. w \in Nat /\ Weight[k] = w * B
    BY <2>1, WeightDef
  <2>4. b \in Nat /\ B <= b /\ b < 2 * B
    BY <1>2, <2>1
  <2>5. s[k] = s[k - 1] + b * w /\ s[k - 1] \in Nat /\ s[k] \in Nat
    BY <1>3, <2>1
  <2>6. v = s[k] + t * (w * B)
    BY <2>1, <2>2, <2>3
  <2>7. /\ low \in Nat /\ high \in Nat
        /\ high = (low + 1) * B /\ VarintLimit[(j + 1) + 1] = (high + 1) * B
    BY <1>4, <2>1
  <2>8. t >= low /\ (n < MaxVarint => t < high)
    BY <2>2
  <2> HIDE DEF w, b, low, high, Is
  <2> DEFINE u == t * B + b
  <2>9. u \in Nat
    BY <2>4, BFacts
  <2>10. v = s[k - 1] + u * w
    <3>1. b * w + t * (w * B) = (t * B + b) * w
      BY <2>3, <2>4, BFacts
    <3>2. b * w \in Int /\ t * (w * B) \in Int
      BY <2>3, <2>4, BFacts
    <3>3. QED
      BY <2>5, <2>6, <3>1, <3>2
  <2>11. u >= high
    <3>1. (low + 1) * B <= (t + 1) * B
      BY <2>7, <2>8, BFacts, Monotone
    <3>2. (t + 1) * B = t * B + B /\ t * B \in Int
      BY BFacts
    <3>3. QED
      BY <2>4, <2>7, <3>1, <3>2, BFacts
  <2>12. n < MaxVarint => u < (high + 1) * B
    <3>1. SUFFICES ASSUME n < MaxVarint PROVE u < (high + 1) * B
      OBVIOUS
    <3>2. t + 1 <= high
      BY <2>7, <2>8, <3>1
    <3>3. (t + 2) * B <= (high + 1) * B
      BY <2>7, <3>2, BFacts, Monotone
    <3>4. (t + 2) * B = t * B + 2 * B /\ t * B \in Int /\ (high + 1) * B \in Int
      BY <2>7, BFacts
    <3>5. QED
      BY <2>4, <3>3, <3>4, BFacts
  <2>13. Is(u, j + 1)
    <3>1. v = s[n - (j + 1) - 1] + u * Weight[n - (j + 1) - 1]
      BY <2>1, <2>10 DEF w, k
    <3>2. u >= VarintLimit[j + 1]
      BY <2>11 DEF high
    <3>3. n < MaxVarint => u < VarintLimit[(j + 1) + 1]
      BY <2>7, <2>12
    <3> HIDE DEF u
    <3>4. QED
      BY <3>1, <3>2, <3>3 DEF Is
  <2>14. QED
    BY <2>1, <2>9, <2>13
<1>7. 0 .. n - 1 \subseteq T
  <2>1. 0 \in Int /\ n - 1 \in Int
    BY <1>1
  <2> HIDE DEF T
  <2>2. QED
    BY <1>5, <1>6, <2>1, IntervalInduction
<1>8. n - i \in 0 .. n - 1 /\ n - (n - i) - 1 = i - 1
  BY <1>1
<1>9. PICK t \in Nat : Is(t, n - i)
  BY <1>7, <1>8
<1>10. QED
  BY <1>8, <1>9 DEF s, v

(* What is decoded has no other encoding than the bytes it was decoded     *)
(* from.                                                                   *)
LEMMA DecodedIsEncoding ==
  ASSUME NEW bytes \in Seq(Byte), NEW n \in VarintEnds(bytes),
         Sums(bytes)[n] < VarintRange
  PROVE  /\ EncodedLenVarint(Sums(bytes)[n]) = n
         /\ EncodeVarint(Sums(bytes)[n]) = SubSeq(bytes, 1, n)
<1> DEFINE s == Sums(bytes)
           v == Sums(bytes)[n]
           r == Rests(v)
           e == EncodeVarint(v)
           T == {k \in 1 .. n : v = s[k - 1] + r[k] * Weight[k - 1]}
<1>1. /\ n \in 1 .. MaxVarint /\ n \in 1 .. Len(bytes) /\ Len(bytes) \in Nat
      /\ n \in Nat \ {0}
  BY EndUnique, LenProperties, BFacts
<1>2. /\ \A k \in 1 .. n : bytes[k] \in Nat /\ bytes[k] < 2 * B /\ bytes[k] \in Byte
      /\ \A k \in 1 .. n - 1 : bytes[k] >= B
  <2>1. \A k \in 1 .. n : bytes[k] \in Nat /\ bytes[k] < 2 * B /\ bytes[k] \in Byte
    BY <1>1, ElementOfSeq, ByteIsNat
  <2>2. QED
    BY <2>1, <1>1 DEF VarintEnds, B
<1>3. /\ \A k \in 0 .. n : s[k] \in Nat
      /\ \A k \in 1 .. n : s[k] = s[k - 1] + bytes[k] * Weight[k - 1]
      /\ s[0] = 0 /\ v = s[n] /\ v \in Nat /\ v \in 0 .. VarintRange - 1
  BY <1>1, SumsDef, RangeFacts
<1>4. \A k \in 1 .. n : \E t \in Nat : v = s[k - 1] + t * Weight[k - 1]
  BY TailOf
<1>5. EncodedLenVarint(v) = n
  <2>1. PICK t \in Nat : /\ v = s[1 - 1] + t * Weight[1 - 1]
                         /\ t >= VarintLimit[n - 1]
                         /\ n < MaxVarint => t < VarintLimit[n - 1 + 1]
    <3>1. 1 \in 1 .. n
      BY <1>1
    <3>2. QED
      BY <3>1, TailOf
  <2>2. s[1 - 1] = 0 /\ Weight[1 - 1] = 1 /\ t * 1 = t /\ n - 1 + 1 = n
    BY <1>1, <1>3, WeightDef
  <2> HIDE DEF s, v
  <2>3. v = t
    BY <1>3, <2>1, <2>2
  <2>4. HasLength(v, n)
    BY <1>1, <2>1, <2>2, <2>3, BFacts DEF HasLength
  <2>5. QED
    BY <1>1, <1>3, <2>4, LengthUnique
<1>6. /\ \A k \in 1 .. n : r[k] \in Nat
      /\ r[1] = v
      /\ \A k \in 2 .. n : r[k] = (r[k - 1] \div B) - 1
  <2>1. \A k \in 1 .. n : r[k] \in Nat
    BY <1>1, <1>3, <1>5, EncodedBytes
  <2>2. QED
    BY <1>1, <1>3, <1>5, <2>1, RestsDef
<1>7. /\ e \in Seq(Byte) /\ Len(e) = n
      /\ \A k \in 1 .. n - 1 : e[k] = B + (r[k] % B)
      /\ e[n] = r[n]
  BY <1>1, <1>3, <1>5, EncodedBytes
<1> HIDE DEF s, v, r, e
<1>8. 1 <= n => 1 \in T
  <2>1. Weight[1 - 1] = 1 /\ s[1 - 1] = 0 /\ v * 1 = v
    BY <1>3, WeightDef
  <2>2. QED
    BY <1>1, <1>3, <1>6, <2>1
<1>9. ASSUME NEW k \in 1 .. n - 1, v = s[k - 1] + r[k] * Weight[k - 1]
      PROVE  /\ v = s[(k + 1) - 1] + r[k + 1] * Weight[(k + 1) - 1]
             /\ e[k] = bytes[k]
  <2> DEFINE w == Weight[k - 1]
             b == bytes[k]
  <2>1. /\ k \in 1 .. n /\ k + 1 \in 2 .. n /\ (k + 1) - 1 = k /\ k \in Nat \ {0}
        /\ k - 1 \in Nat /\ k - 1 \in 0 .. n /\ k + 1 \in 1 .. n
    BY <1>1
  <2>2. w \in Nat \ {0} /\ Weight[k] = w * B
    BY <2>1, WeightDef, WeightGrows
  <2>3. b \in Nat /\ B <= b /\ b < 2 * B
    BY <1>2, <2>1
  <2>4. s[k] = s[k - 1] + b * w /\ s[k - 1] \in Nat
    BY <1>3, <2>1
  <2>5. PICK t \in Nat : v = s[(k + 1) - 1] + t * Weight[(k + 1) - 1]
    BY <1>4, <2>1
  <2>6. v = s[k] + t * (w * B) /\ v = s[k - 1] + r[k] * w /\ r[k] \in Nat
    BY <1>6, <1>9, <2>1, <2>2, <2>5
  <2> HIDE DEF w, b
  <2>7. r[k] * w = (t * B + b) * w
    <3>1. b * w + t * (w * B) = (t * B + b) * w
      BY <2>2, <2>3, BFacts
    <3>2. b * w \in Int /\ t * (w * B) \in Int /\ r[k] * w \in Int
      BY <2>2, <2>3, <2>6, BFacts
    <3>3. QED
      BY <2>4, <2>6, <3>1, <3>2, SMTT(30)
  <2>8. r[k] = t * B + b
    <3>1. t * B + b \in Int /\ r[k] \in Int
      BY <2>3, <2>6, BFacts
    <3>2. QED
      BY <2>2, <2>7, <3>1, Cancel
  <2>9. r[k] = (t + 1) * B + (b - B)
    <3>1. (t + 1) * B = t * B + B /\ t * B \in Int
      BY BFacts
    <3>2. QED
      BY <2>3, <2>8, <3>1, BFacts
  <2>10. r[k] \div B = t + 1 /\ r[k] % B = b - B
    <3>1. t + 1 \in Int /\ b - B \in 0 .. B - 1 /\ (t + 1) * B + (b - B) \in Nat
      BY <2>3, <2>6, <2>9, BFacts
    <3>2. /\ ((t + 1) * B + (b - B)) \div B = t + 1
          /\ ((t + 1) * B + (b - B)) % B = b - B
      BY <3>1, BFacts, DivideUnique
    <3>3. QED
      BY <2>9, <3>2
  <2>11. r[k + 1] = t
    BY <1>6, <2>1, <2>10
  <2>12. e[k] = b
    BY <1>7, <2>3, <2>10, BFacts
  <2>13. QED
    BY <2>5, <2>11, <2>12 DEF b
<1>10. 1 .. n \subseteq T
  <2>1. 1 \in Int /\ n \in Int
    BY <1>1
  <2>2. ASSUME NEW k \in 1 .. n - 1, k \in T
        PROVE  k + 1 \in T
    <3>1. k + 1 \in 1 .. n
      BY <1>1
    <3>2. QED
      BY <1>9, <2>2, <3>1
  <2> HIDE DEF T
  <2>3. QED
    BY <1>8, <2>1, <2>2, IntervalInduction
<1>11. e[n] = bytes[n]
  <2> DEFINE w == Weight[n - 1]
  <2>1. n \in 1 .. n /\ n - 1 \in Nat /\ n - 1 \in 0 .. n
    BY <1>1
  <2>2. v = s[n - 1] + r[n] * w /\ v = s[n - 1] + bytes[n] * w /\ s[n - 1] \in Nat
    BY <1>3, <1>10, <2>1
  <2>3. w \in Nat \ {0} /\ r[n] \in Nat /\ bytes[n] \in Nat
    BY <1>2, <1>6, <2>1, WeightGrows
  <2> HIDE DEF w
  <2>4. r[n] * w \in Int /\ bytes[n] * w \in Int
    BY <2>3
  <2>5. r[n] * w = bytes[n] * w
    BY <2>2, <2>4
  <2>6. r[n] = bytes[n]
    <3>1. r[n] \in Int /\ bytes[n] \in Int
      BY <2>3
    <3>2. QED
      BY <2>3, <2>5, <3>1, Cancel
  <2>7. QED
    BY <1>7, <2>6
<1>12. \A k \in 1 .. n : e[k] = bytes[k]
  BY <1>1, <1>9, <1>10, <1>11
<1>13. e = SubSeq(bytes, 1, n)
  <2> DEFINE p == SubSeq(bytes, 1, n)
  <2>1. p \in Seq(Byte) /\ Len(p) = n /\ \A k \in 1 .. n : p[k] = bytes[k]
    <3>1. \A k \in 1 .. n : bytes[k] \in Byte
      BY <1>2
    <3>2. /\ p \in Seq(Byte)
          /\ Len(p) = IF 1 <= n THEN n - 1 + 1 ELSE 0
          /\ \A k \in 1 .. n - 1 + 1 : p[k] = bytes[1 + k - 1]
      BY <1>1, <3>1, SubSeqProperties
    <3> HIDE DEF p
    <3>3. QED
      BY <1>1, <3>2
  <2> HIDE DEF p
  <2>2. QED
    BY <1>7, <1>12, <2>1, SeqEqual
<1>14. QED
  BY <1>5, <1>13 DEF v, e

(* A byte string without an end is shorter than the longest varint, and    *)
(* every one of its bytes promises another.                                *)
LEMMA NoEnd ==
  ASSUME NEW bytes \in Seq(Byte), VarintEnds(bytes) = {}
  PROVE  /\ Len(bytes) < MaxVarint
         /\ \A i \in 1 .. Len(bytes) : bytes[i] >= B
         /\ DecodeVarint(bytes) =
              [error |-> "Truncated", value |-> 0, used |-> Len(bytes)]
<1> DEFINE T == {i \in 1 .. Len(bytes) :
                   i <= MaxVarint /\ (bytes[i] < ContinueBit \/ i = MaxVarint)}
<1>1. Len(bytes) \in Nat /\ \A i \in 1 .. Len(bytes) : bytes[i] \in Nat
  BY LenProperties, ElementOfSeq, ByteIsNat
<1>2. ASSUME T # {}
      PROVE  FALSE
  <2>1. T \in SUBSET Nat
    BY <1>1
  <2>2. PICK m \in T : \A i \in T : m <= i
    <3> HIDE DEF T
    <3>1. QED
      BY <1>2, <2>1, LeastNatural
  <2>3. \A j \in 1 .. m - 1 : j \in 1 .. Len(bytes) /\ j <= MaxVarint /\ j \notin T
    BY <1>1, <2>2, BFacts
  <2>4. \A j \in 1 .. m - 1 : bytes[j] >= ContinueBit
    BY <1>1, <2>3, BFacts DEF B
  <2>5. m \in VarintEnds(bytes)
    BY <2>2, <2>4 DEF VarintEnds
  <2>6. QED
    BY <2>5
<1>3. Len(bytes) < MaxVarint
  <2>1. SUFFICES ASSUME MaxVarint <= Len(bytes) PROVE FALSE
    BY <1>1, BFacts
  <2>2. MaxVarint \in T
    BY <1>1, <2>1, BFacts
  <2>3. QED
    BY <1>2, <2>2
<1>4. \A i \in 1 .. Len(bytes) : bytes[i] >= B
  <2>1. \A i \in 1 .. Len(bytes) : i <= MaxVarint /\ i \notin T
    BY <1>1, <1>2, <1>3, BFacts
  <2>2. QED
    BY <1>1, <2>1, BFacts DEF B
<1>5. QED
  BY <1>3, <1>4 DEF DecodeVarint

(* DecodeVarint gives one of three errors, a value that is a number of the *)
(* range when there is none, and the number of bytes it went over.         *)
LEMMA DecodeTypes ==
  ASSUME NEW bytes \in Seq(Byte)
  PROVE  /\ DecodeVarint(bytes).error \in {"none", "Truncated", "InvalidVarint"}
         /\ DecodeVarint(bytes).value \in Nat
         /\ DecodeVarint(bytes).used \in 0 .. Len(bytes)
         /\ DecodeVarint(bytes).error = "none" =>
              /\ DecodeVarint(bytes).value \in 0 .. VarintRange - 1
              /\ DecodeVarint(bytes).used \in VarintEnds(bytes)
              /\ DecodeVarint(bytes).value = Sums(bytes)[DecodeVarint(bytes).used]
<1>1. Len(bytes) \in Nat
  BY LenProperties
<1>2. CASE VarintEnds(bytes) = {}
  BY <1>1, <1>2, NoEnd
<1>3. CASE VarintEnds(bytes) # {}
  <2>1. PICK n \in VarintEnds(bytes) : TRUE
    BY <1>3
  <2>2. n \in 1 .. Len(bytes)
    BY EndUnique
  <2>3. Sums(bytes)[n] \in Nat
    BY <1>1, <2>2, SumsDef
  <2>4. DecodeVarint(bytes) =
          [error |-> IF Sums(bytes)[n] < VarintRange THEN "none" ELSE "InvalidVarint",
           value |-> Sums(bytes)[n], used |-> n]
    BY DecodedAt
  <2>5. Sums(bytes)[n] < VarintRange => Sums(bytes)[n] \in 0 .. VarintRange - 1
    BY <2>3, RangeFacts
  <2>6. QED
    BY <1>1, <2>2, <2>3, <2>4, <2>5
<1>4. QED
  BY <1>2, <1>3

-----------------------------------------------------------------------------
(* encode_varint and decode_varint are inverse: every value of the range   *)
(* is read back from what it is written as, with whatever comes after, and *)
(* the bytes that a value is read from are those it is written as.         *)
THEOREM VarintsAreBijective ==
  /\ \A v \in 0 .. VarintRange - 1 : \A suffix \in Seq(Byte) :
       DecodeVarint(EncodeVarint(v) \o suffix) =
         [error |-> "none", value |-> v, used |-> EncodedLenVarint(v)]
  /\ \A bytes \in Seq(Byte) :
       DecodeVarint(bytes).error = "none" =>
         EncodeVarint(DecodeVarint(bytes).value) =
           SubSeq(bytes, 1, DecodeVarint(bytes).used)
<1>1. ASSUME NEW v \in 0 .. VarintRange - 1, NEW suffix \in Seq(Byte)
      PROVE  DecodeVarint(EncodeVarint(v) \o suffix) =
               [error |-> "none", value |-> v, used |-> EncodedLenVarint(v)]
  <2> DEFINE len == EncodedLenVarint(v)
             e == EncodeVarint(v)
             bytes == e \o suffix
  <2>1. v \in Nat
    BY RangeFacts
  <2>2. len \in Nat
    BY <2>1, LengthIs
  <2>3. e \in Seq(Byte) /\ Len(e) = len
    BY <2>2, EncodedBytes
  <2> HIDE DEF e
  <2>4. /\ bytes \in Seq(Byte) /\ Len(bytes) = len + Len(suffix)
        /\ \A i \in 1 .. len + Len(suffix) : bytes[i] = IF i <= len THEN e[i] ELSE suffix[i - len]
    <3>1. /\ e \o suffix \in Seq(Byte) /\ Len(e \o suffix) = Len(e) + Len(suffix)
          /\ \A i \in 1 .. Len(e) + Len(suffix) :
               (e \o suffix)[i] = IF i <= Len(e) THEN e[i] ELSE suffix[i - Len(e)]
      BY <2>3, ConcatProperties
    <3> HIDE DEF len
    <3>2. QED
      BY <2>3, <3>1
  <2>5. Len(suffix) \in Nat
    BY LenProperties
  <2> HIDE DEF bytes, len
  <2>6. len <= Len(bytes) /\ \A i \in 1 .. len : bytes[i] = e[i]
    BY <2>2, <2>4, <2>5
  <2>7. DecodeVarint(bytes) = [error |-> "none", value |-> v, used |-> len]
    BY <2>2, <2>4, <2>6, DecodesPrefix DEF e, len
  <2>8. QED
    BY <2>7 DEF bytes, e, len
<1>2. ASSUME NEW bytes \in Seq(Byte), DecodeVarint(bytes).error = "none"
      PROVE  EncodeVarint(DecodeVarint(bytes).value) =
               SubSeq(bytes, 1, DecodeVarint(bytes).used)
  <2> DEFINE n == DecodeVarint(bytes).used
  <2>1. n \in VarintEnds(bytes) /\ DecodeVarint(bytes).value = Sums(bytes)[n]
    BY <1>2, DecodeTypes
  <2>2. Sums(bytes)[n] < VarintRange
    BY <1>2, <2>1, DecodeTypes, RangeFacts
  <2> HIDE DEF n
  <2>3. EncodeVarint(Sums(bytes)[n]) = SubSeq(bytes, 1, n)
    BY <2>1, <2>2, DecodedIsEncoding
  <2>4. QED
    BY <2>1, <2>3 DEF n
<1>3. QED
  BY <1>1, <1>2
=============================================================================
