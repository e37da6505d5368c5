----------------------------- MODULE TimeProofs -----------------------------
(***************************************************************************)
(* That values keep their types and that normalisation returns the nearest *)
(* canonical pair, for integers of any width and seconds of any number of  *)
(* nanoseconds that fits the smaller one; and that the conversions keep    *)
(* the time, through dates of the proleptic Gregorian calendar, for days   *)
(* of any length: that the algorithms of datetime.rs, which count the days *)
(* in cycles of 400, 100, 4 years and one and months from March, compute   *)
(* that calendar for every year.                                           *)
(* Then that the dates, times, offsets and durations of other libraries    *)
(* are read back from their encodings, in one of them only and by the      *)
(* types of the other library too.                                         *)
(***************************************************************************)
EXTENDS ForeignTime, DataInduction

(* Division to zero leaves a rest of the dividend's sign, smaller than the *)
(* divisor.                                                                *)
LEMMA Division ==
  ASSUME NEW n \in Int, NEW d \in Nat \ {0}
  PROVE  /\ Quotient(n, d) \in Int /\ Remainder(n, d) \in Int
         /\ n = d * Quotient(n, d) + Remainder(n, d)
         /\ n >= 0 => Remainder(n, d) \in 0 .. d - 1 /\ Quotient(n, d) >= 0
         /\ n < 0 => Remainder(n, d) \in -(d - 1) .. 0 /\ Quotient(n, d) <= 0
<1>1. CASE n >= 0
  <2>1. n \div d \in Int /\ n % d \in 0 .. d - 1
    BY <1>1
  <2>2. n = d * (n \div d) + (n % d)
    BY <1>1
  <2>3. n \div d >= 0
    BY <1>1, <2>1, <2>2
  <2> QED
    BY <1>1, <2>1, <2>2, <2>3 DEF Quotient, Remainder
<1>2. CASE n < 0
  <2>1. (-n) \div d \in Int /\ (-n) % d \in 0 .. d - 1
    BY <1>2
  <2>2. -n = d * ((-n) \div d) + ((-n) % d)
    BY <1>2
  <2>3. (-n) \div d >= 0
    BY <1>2, <2>1, <2>2
  <2>4. d * (-((-n) \div d)) = -(d * ((-n) \div d))
    BY <2>1
  <2> QED
    BY <1>2, <2>1, <2>2, <2>3, <2>4 DEF Quotient, Remainder
<1> QED
  BY <1>1, <1>2

(* Wrapping stays in the range of the integer.                             *)
LEMMA WrappedInRange ==
  ASSUME NEW n \in Int, NEW max \in Nat
  PROVE  Wrapped(n, max) \in -max - 1 .. max
<1>1. (n + max + 1) % (2 * max + 2) \in 0 .. 2 * max + 1
  OBVIOUS
<1> QED
  BY <1>1 DEF Wrapped

(* Products distribute over sums, also by a factor that is not a literal.  *)
LEMMA Sums ==
  ASSUME NEW a \in Int, NEW b \in Int, NEW d \in Int
  PROVE  (a + b) * d = a * d + b * d
OBVIOUS

(* Products by a natural number are monotone.                              *)
LEMMA Products ==
  ASSUME NEW a \in Int, NEW b \in Int, NEW d \in Nat, a <= b
  PROVE  a * d <= b * d
<1>1. PICK k \in Nat : b = a + k
  <2>1. b - a \in Nat /\ b = a + (b - a)
    OBVIOUS
  <2> QED
    BY <2>1
<1>2. b * d = a * d + k * d
  BY <1>1, Sums
<1>3. k * d \in Nat /\ a * d \in Int
  OBVIOUS
<1> QED
  BY <1>2, <1>3

(* What Carried does to a pair: nothing to one whose nanoseconds are less  *)
(* than a second; otherwise it keeps the time unless it is out of range.   *)
LEMMA CarryKeepsTotal ==
  ASSUME NEW v \in Duration \cup Timestamp, NEW least, NEW greatest,
         ~Sized(v.nanos)
  PROVE  LET c == Carried(v, least, greatest)
         IN  \/ /\ c.kind = v.kind /\ c \in Duration \cup Timestamp
                /\ Sized(c.nanos) /\ Total(c) = Total(v)
             \/ c = least /\ Total(v) <= (-I64Max - 2) * NANOS_PER_SECOND
             \/ c = greatest /\ Total(v) >= (I64Max + 1) * NANOS_PER_SECOND
<1> DEFINE N == NANOS_PER_SECOND
           q == Quotient(v.nanos, N)
           r == Remainder(v.nanos, N)
           s == v.seconds + q
           c == Carried(v, least, greatest)
<1>1. N \in Nat \ {0} /\ N <= I32Max /\ I32Max \in Nat /\ I64Max \in Nat
  BY TimeAssumption
<1>2. v.seconds \in Int /\ v.seconds \in I64 /\ v.nanos \in Int /\ v.nanos \in I32
  BY <1>1 DEF Duration, Timestamp, I64, I32
<1>3. /\ q \in Int /\ r \in Int /\ v.nanos = N * q + r
      /\ v.nanos >= 0 => r \in 0 .. N - 1 /\ q >= 0
      /\ v.nanos < 0 => r \in -(N - 1) .. 0 /\ q <= 0
  BY <1>1, <1>2, Division
<1>4. N * q \in Int /\ v.seconds * N \in Int /\ s \in Int /\ s * N \in Int
  BY <1>1, <1>2, <1>3
<1>5. Total(v) = s * N + r
  <2>1. s * N = v.seconds * N + q * N
    BY <1>1, <1>2, <1>3, Sums
  <2>2. q * N = N * q
    BY <1>1, <1>3
  <2> HIDE DEF q, r, s
  <2> QED
    BY <1>1, <1>2, <1>3, <1>4, <2>1, <2>2 DEF Total
<1>6. CASE s \in I64
  <2>1. c = [v EXCEPT !.seconds = s, !.nanos = r]
    BY <1>6 DEF Carried
  <2>2. Sized(r) /\ r \in I32
    <3> HIDE DEF q, r, s
    <3> QED
      BY <1>1, <1>2, <1>3 DEF Sized, I32
  <2> HIDE DEF q, r, s, c
  <2>3. c.kind = v.kind /\ c.seconds = s /\ c.nanos = r
    BY <2>1 DEF Duration, Timestamp
  <2>4. c \in Duration \cup Timestamp
    BY <1>6, <2>1, <2>2 DEF Duration, Timestamp
  <2>5. Total(c) = Total(v)
    BY <1>5, <2>3 DEF Total
  <2> QED
    BY <2>2, <2>3, <2>4, <2>5 DEF c
<1>7. CASE s \notin I64 /\ v.nanos < 0
  <2>1. c = least
    BY <1>7 DEF Carried
  <2> HIDE DEF q, r, s
  <2>2. s <= -I64Max - 2
    <3>1. q <= 0 /\ v.seconds <= I64Max
      BY <1>1, <1>2, <1>3, <1>7 DEF I64
    <3>2. s <= I64Max
      BY <1>1, <1>2, <1>3, <3>1 DEF s
    <3> QED
      BY <1>1, <1>4, <1>7, <3>2 DEF I64
  <2>3. s * N <= (-I64Max - 2) * N
    <3>1. -I64Max - 2 \in Int /\ N \in Nat /\ s \in Int
      BY <1>1, <1>4
    <3> QED
      BY <3>1, <2>2, Products
  <2>4. r <= 0 /\ r \in Int /\ (-I64Max - 2) * N \in Int
    BY <1>1, <1>3, <1>7
  <2>5. Total(v) <= (-I64Max - 2) * N
    <3> DEFINE p == s * N
               b == (-I64Max - 2) * N
    <3>1. p \in Int /\ b \in Int /\ p <= b /\ r <= 0 /\ r \in Int
      BY <1>4, <2>3, <2>4
    <3> HIDE DEF p, b
    <3>2. p + r <= b
      BY <3>1
    <3> QED
      BY <3>2, <1>5 DEF p, b
  <2> QED
    BY <2>1, <2>5 DEF c
<1>8. CASE s \notin I64 /\ ~(v.nanos < 0)
  <2>1. c = greatest
    BY <1>8 DEF Carried
  <2> HIDE DEF q, r, s
  <2>2. I64Max + 1 <= s
    <3>1. q >= 0 /\ v.seconds >= -I64Max - 1
      BY <1>1, <1>2, <1>3, <1>8 DEF I64
    <3>2. s >= -I64Max - 1
      BY <1>1, <1>2, <1>3, <3>1 DEF s
    <3> QED
      BY <1>1, <1>4, <1>8, <3>2 DEF I64
  <2>3. (I64Max + 1) * N <= s * N
    <3>1. I64Max + 1 \in Int /\ N \in Nat /\ s \in Int
      BY <1>1, <1>4
    <3> QED
      BY <3>1, <2>2, Products
  <2>4. r >= 0 /\ r \in Int /\ (I64Max + 1) * N \in Int
    BY <1>1, <1>2, <1>3, <1>8
  <2>5. Total(v) >= (I64Max + 1) * N
    <3> DEFINE p == s * N
               b == (I64Max + 1) * N
    <3>1. p \in Int /\ b \in Int /\ b <= p /\ r >= 0 /\ r \in Int
      BY <1>4, <2>3, <2>4
    <3> HIDE DEF p, b
    <3>2. p + r >= b
      BY <3>1
    <3> QED
      BY <3>2, <1>5 DEF p, b
  <2> QED
    BY <2>1, <2>5 DEF c
<1> QED
  BY <1>6, <1>7, <1>8

-----------------------------------------------------------------------------
(* The second halves of the two functions, on nanoseconds of less than a   *)
(* second: they keep the time and reach the canonical pair.                *)

Aligned(c) ==
  IF c.seconds < 0 /\ c.nanos > 0 THEN Borrowed(c, 1, NANOS_MAX)
  ELSE IF c.seconds > 0 /\ c.nanos < 0 THEN Borrowed(c, -1, -NANOS_MAX)
  ELSE c

Forward(c) == IF c.nanos < 0 THEN Borrowed(c, -1, 0) ELSE c

(* Moving a second between the fields keeps the time.                      *)
LEMMA BorrowKeepsTotal ==
  ASSUME NEW c \in Duration \cup Timestamp, NEW x \in {1, -1}, NEW cut,
         c.seconds + x \in I64, Sized(c.nanos),
         x = 1 => c.nanos >= 0, x = -1 => c.nanos <= 0
  PROVE  LET n == Borrowed(c, x, cut)
         IN  /\ n = [c EXCEPT !.seconds = c.seconds + x,
                              !.nanos = c.nanos - x * NANOS_PER_SECOND]
             /\ n.kind = c.kind /\ n.seconds = c.seconds + x
             /\ n.nanos = c.nanos - x * NANOS_PER_SECOND
             /\ n \in Duration \cup Timestamp
             /\ Total(n) = Total(c)
<1> DEFINE N == NANOS_PER_SECOND
           n == Borrowed(c, x, cut)
<1>1. N \in Nat \ {0} /\ N <= I32Max /\ I32Max \in Nat /\ I64Max \in Nat
  BY TimeAssumption
<1>2. c.seconds \in Int /\ c.nanos \in Int
  BY <1>1 DEF Duration, Timestamp, I64, I32
<1>3. n = [c EXCEPT !.seconds = c.seconds + x, !.nanos = c.nanos - x * N]
  BY DEF Borrowed
<1>4. c.nanos - x * N \in I32
  <2>1. CASE x = 1
    BY <1>1, <1>2, <2>1 DEF Sized, I32
  <2>2. CASE x = -1
    BY <1>1, <1>2, <2>2 DEF Sized, I32
  <2> QED
    BY <2>1, <2>2
<1> HIDE DEF n
<1>5. n.kind = c.kind /\ n.seconds = c.seconds + x /\ n.nanos = c.nanos - x * N
  BY <1>3 DEF Duration, Timestamp
<1>6. n \in Duration \cup Timestamp
  BY <1>3, <1>4 DEF Duration, Timestamp
<1>7. Total(n) = Total(c)
  <2>1. (c.seconds + x) * N = c.seconds * N + x * N
    BY <1>1, <1>2, Sums
  <2>2. c.seconds * N \in Int /\ x * N \in Int
    BY <1>1, <1>2
  <2> QED
    BY <1>2, <1>5, <2>1, <2>2 DEF Total
<1> QED
  BY <1>3, <1>5, <1>6, <1>7 DEF n

(* Giving both parts of a carried duration one sign keeps its time, and    *)
(* changes nothing that is canonical.                                      *)
LEMMA SignedIsCanonical ==
  ASSUME NEW c \in Duration, Sized(c.nanos)
  PROVE  /\ Aligned(c) \in Duration
         /\ DurationIsCanonical(Aligned(c))
         /\ Total(Aligned(c)) = Total(c)
         /\ DurationIsCanonical(c) => Aligned(c) = c
<1>1. NANOS_PER_SECOND \in Nat \ {0} /\ I32Max \in Nat /\ I64Max \in Nat
  BY TimeAssumption
<1>2. c.seconds \in I64 /\ c.seconds \in Int /\ c.nanos \in Int /\ c.kind = "duration"
  BY <1>1 DEF Duration, I64, I32
<1>3. \A n \in Duration \cup Timestamp : n.kind = "duration" => n \in Duration
  BY DEF Duration, Timestamp
<1>4. CASE c.seconds < 0 /\ c.nanos > 0
  <2>1. Aligned(c) = Borrowed(c, 1, NANOS_MAX)
    BY <1>4 DEF Aligned
  <2>2. c.seconds + 1 \in I64 /\ c.nanos >= 0 /\ 1 \in {1, -1} /\ ~(1 = -1)
    BY <1>1, <1>2, <1>4 DEF I64
  <2>3. /\ Aligned(c) \in Duration \cup Timestamp /\ Aligned(c).kind = "duration"
        /\ Aligned(c).seconds = c.seconds + 1
        /\ Aligned(c).nanos = c.nanos - 1 * NANOS_PER_SECOND
        /\ Total(Aligned(c)) = Total(c)
    <3> DEFINE x == 1
    <3>1. c \in Duration \cup Timestamp
      OBVIOUS
    <3>2. x \in {1, -1} /\ c.seconds + x \in I64
      BY <2>2
    <3>3. (x = 1 => c.nanos >= 0) /\ (x = -1 => c.nanos <= 0)
      BY <2>2
    <3> HIDE DEF x
    <3>4. /\ Borrowed(c, x, NANOS_MAX) \in Duration \cup Timestamp
          /\ Borrowed(c, x, NANOS_MAX).kind = c.kind
          /\ Borrowed(c, x, NANOS_MAX).seconds = c.seconds + x
          /\ Borrowed(c, x, NANOS_MAX).nanos = c.nanos - x * NANOS_PER_SECOND
          /\ Total(Borrowed(c, x, NANOS_MAX)) = Total(c)
      BY <3>1, <3>2, <3>3, BorrowKeepsTotal, ZenonT(60)
    <3> QED
      BY <1>2, <2>1, <3>4 DEF x
  <2>4. DurationIsCanonical(Aligned(c))
    BY <1>1, <1>2, <1>4, <2>3 DEF DurationIsCanonical, Sized
  <2>5. ~DurationIsCanonical(c)
    BY <1>2, <1>4 DEF DurationIsCanonical
  <2> QED
    BY <1>3, <2>3, <2>4, <2>5
<1>5. CASE c.seconds > 0 /\ c.nanos < 0
  <2>1. Aligned(c) = Borrowed(c, -1, -NANOS_MAX)
    BY <1>2, <1>5 DEF Aligned
  <2>2. c.seconds + (-1) \in I64 /\ c.nanos <= 0 /\ -1 \in {1, -1} /\ ~(-1 = 1)
    BY <1>1, <1>2, <1>5 DEF I64
  <2>3. /\ Aligned(c) \in Duration \cup Timestamp /\ Aligned(c).kind = "duration"
        /\ Aligned(c).seconds = c.seconds + (-1)
        /\ Aligned(c).nanos = c.nanos - (-1) * NANOS_PER_SECOND
        /\ Total(Aligned(c)) = Total(c)
    <3> DEFINE x == (-1)
    <3>1. c \in Duration \cup Timestamp
      OBVIOUS
    <3>2. x \in {1, -1} /\ c.seconds + x \in I64
      BY <2>2
    <3>3. (x = 1 => c.nanos >= 0) /\ (x = -1 => c.nanos <= 0)
      BY <2>2
    <3> HIDE DEF x
    <3>4. /\ Borrowed(c, x, -NANOS_MAX) \in Duration \cup Timestamp
          /\ Borrowed(c, x, -NANOS_MAX).kind = c.kind
          /\ Borrowed(c, x, -NANOS_MAX).seconds = c.seconds + x
          /\ Borrowed(c, x, -NANOS_MAX).nanos = c.nanos - x * NANOS_PER_SECOND
          /\ Total(Borrowed(c, x, -NANOS_MAX)) = Total(c)
      BY <3>1, <3>2, <3>3, BorrowKeepsTotal, ZenonT(60)
    <3> QED
      BY <1>2, <2>1, <3>4 DEF x
  <2>4. DurationIsCanonical(Aligned(c))
    BY <1>1, <1>2, <1>5, <2>3 DEF DurationIsCanonical, Sized
  <2>5. ~DurationIsCanonical(c)
    BY <1>2, <1>5 DEF DurationIsCanonical
  <2> QED
    BY <1>3, <2>3, <2>4, <2>5
<1>6. CASE ~(c.seconds < 0 /\ c.nanos > 0) /\ ~(c.seconds > 0 /\ c.nanos < 0)
  <2>1. Aligned(c) = c
    BY <1>6 DEF Aligned
  <2>2. DurationIsCanonical(c)
    BY <1>2, <1>6 DEF DurationIsCanonical
  <2> QED
    BY <2>1, <2>2
<1> QED
  BY <1>4, <1>5, <1>6

(* A canonical duration is within the least and the greatest.              *)
LEMMA DurationBounds ==
  /\ \A c \in Duration : DurationIsCanonical(c) =>
       Total(DurationMin) <= Total(c) /\ Total(c) <= Total(DurationMax)
  /\ Total(DurationMin) = (-I64Max - 2) * NANOS_PER_SECOND + 1
  /\ Total(DurationMax) = (I64Max + 1) * NANOS_PER_SECOND - 1
<1> DEFINE N == NANOS_PER_SECOND
<1>1. N \in Nat \ {0} /\ I32Max \in Nat /\ I64Max \in Nat /\ N <= I32Max
  BY TimeAssumption
<1>2. Total(DurationMin) = (-I64Max - 1) * N - (N - 1)
  BY <1>1 DEF Total, DurationMin, NANOS_MAX
<1>3. Total(DurationMax) = I64Max * N + (N - 1)
  BY <1>1 DEF Total, DurationMax, NANOS_MAX
<1>4. (-I64Max - 1) * N = (-I64Max - 2) * N + N
  BY <1>1, Sums
<1>5. (I64Max + 1) * N = I64Max * N + N
  BY <1>1, Sums
<1>6. ASSUME NEW c \in Duration, DurationIsCanonical(c)
      PROVE  Total(DurationMin) <= Total(c) /\ Total(c) <= Total(DurationMax)
  <2>1. /\ c.seconds \in Int /\ -I64Max - 1 <= c.seconds /\ c.seconds <= I64Max
        /\ c.nanos \in Int
    BY <1>1 DEF Duration, I64, I32
  <2>2. -N < c.nanos /\ c.nanos < N
    BY <1>6 DEF DurationIsCanonical, Sized
  <2>3. (-I64Max - 1) * N <= c.seconds * N /\ c.seconds * N <= I64Max * N
    BY <1>1, <2>1, Products
  <2>4. c.seconds * N \in Int /\ I64Max * N \in Int /\ (-I64Max - 1) * N \in Int
    BY <1>1, <2>1
  <2>5. Total(c) = c.seconds * N + c.nanos
    BY DEF Total
  <2> HIDE DEF N
  <2> QED
    BY <1>1, <1>2, <1>3, <2>1, <2>2, <2>3, <2>4, <2>5
<1> QED
  BY <1>1, <1>2, <1>3, <1>4, <1>5, <1>6

(* Making the nanoseconds of a carried timestamp positive keeps its time   *)
(* unless that is below the least timestamp.                               *)
LEMMA ForwardIsCanonical ==
  ASSUME NEW c \in Timestamp, Sized(c.nanos)
  PROVE  /\ Forward(c) \in Timestamp
         /\ TimestampIsCanonical(Forward(c))
         /\ TimestampIsCanonical(c) => Forward(c) = c
         /\ \/ Total(Forward(c)) = Total(c)
            \/ Forward(c) = TimestampMin /\ Total(c) < Total(TimestampMin)
<1>1. NANOS_PER_SECOND \in Nat \ {0} /\ I32Max \in Nat /\ I64Max \in Nat
  BY TimeAssumption
<1>2. /\ c.seconds \in I64 /\ c.seconds \in Int /\ c.nanos \in Int
      /\ c.kind = "timestamp" /\ c = [kind |-> "timestamp", seconds |-> c.seconds,
                                      nanos |-> c.nanos]
  BY <1>1 DEF Timestamp, I64, I32
<1>3. \A n \in Duration \cup Timestamp : n.kind = "timestamp" => n \in Timestamp
  BY DEF Duration, Timestamp
<1>4. CASE c.nanos >= 0
  <2>1. Forward(c) = c
    BY <1>2, <1>4 DEF Forward
  <2>2. TimestampIsCanonical(c)
    BY <1>1, <1>2, <1>4 DEF TimestampIsCanonical, Subsecond, NANOS_MAX, Sized
  <2> QED
    BY <2>1, <2>2
<1>5. CASE c.nanos < 0 /\ c.seconds + (-1) \in I64
  <2> DEFINE x == -1
  <2>1. Forward(c) = Borrowed(c, x, 0)
    BY <1>5 DEF Forward
  <2>2. c \in Duration \cup Timestamp /\ x \in {1, -1} /\ c.seconds + x \in I64
    BY <1>5
  <2>3. (x = 1 => c.nanos >= 0) /\ (x = -1 => c.nanos <= 0)
    BY <1>2, <1>5
  <2>4. x = -1
    OBVIOUS
  <2> HIDE DEF x
  <2>5. /\ Borrowed(c, x, 0) \in Duration \cup Timestamp
        /\ Borrowed(c, x, 0).kind = c.kind
        /\ Borrowed(c, x, 0).nanos = c.nanos - x * NANOS_PER_SECOND
        /\ Total(Borrowed(c, x, 0)) = Total(c)
    BY <2>2, <2>3, BorrowKeepsTotal, ZenonT(60)
  <2>6. Forward(c).nanos = c.nanos + NANOS_PER_SECOND
    BY <1>1, <1>2, <2>1, <2>4, <2>5
  <2>7. TimestampIsCanonical(Forward(c)) /\ ~TimestampIsCanonical(c)
    BY <1>1, <1>2, <1>5, <2>6
       DEF TimestampIsCanonical, Subsecond, NANOS_MAX, Sized
  <2> QED
    BY <1>2, <1>3, <2>1, <2>5, <2>7
<1>6. CASE c.nanos < 0 /\ c.seconds + (-1) \notin I64
  <2>1. c.seconds = -I64Max - 1
    BY <1>1, <1>2, <1>6 DEF I64
  <2>2. Forward(c) = [c EXCEPT !.nanos = 0]
    BY <1>6 DEF Forward, Borrowed
  <2>3. Forward(c) = TimestampMin
    BY <1>2, <2>1, <2>2 DEF TimestampMin
  <2>4. TimestampMin \in Timestamp /\ TimestampIsCanonical(TimestampMin)
    BY <1>1 DEF TimestampMin, Timestamp, TimestampIsCanonical, Subsecond,
                NANOS_MAX, I64, I32
  <2>5. ~TimestampIsCanonical(c)
    BY <1>1, <1>2, <1>6 DEF TimestampIsCanonical, Subsecond, NANOS_MAX
  <2>6. Total(c) < Total(TimestampMin)
    <3>1. Total(c) = (-I64Max - 1) * NANOS_PER_SECOND + c.nanos
      BY <2>1 DEF Total
    <3>2. Total(TimestampMin) = (-I64Max - 1) * NANOS_PER_SECOND
      BY <1>1 DEF Total, TimestampMin
    <3>3. (-I64Max - 1) * NANOS_PER_SECOND \in Int
      BY <1>1
    <3> QED
      BY <1>2, <1>6, <3>1, <3>2, <3>3
  <2> QED
    BY <2>3, <2>4, <2>5, <2>6
<1> QED
  BY <1>2, <1>4, <1>5, <1>6

(* A canonical timestamp is within the least and the greatest.             *)
LEMMA TimestampBounds ==
  /\ \A c \in Timestamp : TimestampIsCanonical(c) =>
       Total(TimestampMin) <= Total(c) /\ Total(c) <= Total(TimestampMax)
  /\ Total(TimestampMin) = (-I64Max - 2) * NANOS_PER_SECOND + NANOS_PER_SECOND
  /\ Total(TimestampMax) = (I64Max + 1) * NANOS_PER_SECOND - 1
<1> DEFINE N == NANOS_PER_SECOND
<1>1. N \in Nat \ {0} /\ I32Max \in Nat /\ I64Max \in Nat /\ N <= I32Max
  BY TimeAssumption
<1>2. Total(TimestampMin) = (-I64Max - 1) * N
  BY <1>1 DEF Total, TimestampMin
<1>3. Total(TimestampMax) = I64Max * N + (N - 1)
  BY <1>1 DEF Total, TimestampMax, NANOS_MAX
<1>4. (-I64Max - 1) * N = (-I64Max - 2) * N + N
  BY <1>1, Sums
<1>5. (I64Max + 1) * N = I64Max * N + N
  BY <1>1, Sums
<1>6. ASSUME NEW c \in Timestamp, TimestampIsCanonical(c)
      PROVE  Total(TimestampMin) <= Total(c) /\ Total(c) <= Total(TimestampMax)
  <2>1. /\ c.seconds \in Int /\ -I64Max - 1 <= c.seconds /\ c.seconds <= I64Max
        /\ c.nanos \in Int
    BY <1>1 DEF Timestamp, I64, I32
  <2>2. 0 <= c.nanos /\ c.nanos < N
    BY <1>1, <1>6, <2>1 DEF TimestampIsCanonical, Subsecond, NANOS_MAX
  <2>3. (-I64Max - 1) * N <= c.seconds * N /\ c.seconds * N <= I64Max * N
    BY <1>1, <2>1, Products
  <2>4. c.seconds * N \in Int /\ I64Max * N \in Int /\ (-I64Max - 1) * N \in Int
    BY <1>1, <2>1
  <2>5. Total(c) = c.seconds * N + c.nanos
    BY DEF Total
  <2> HIDE DEF N
  <2> QED
    BY <1>1, <1>2, <1>3, <2>1, <2>2, <2>3, <2>4, <2>5
<1> QED
  BY <1>1, <1>2, <1>3, <1>4, <1>5, <1>6

(* Every duration and timestamp is a whole number of nanoseconds.          *)
LEMMA TotalIsInt ==
  ASSUME NEW v \in Duration \cup Timestamp
  PROVE  Total(v) \in Int
<1>1. NANOS_PER_SECOND \in Int /\ I64Max \in Nat /\ I32Max \in Nat
  BY TimeAssumption
<1>2. v.seconds \in Int /\ v.nanos \in Int
  BY <1>1 DEF Duration, Timestamp, I64, I32
<1> QED
  BY <1>1, <1>2 DEF Total

(* The ends of both ranges are values, and canonical.                      *)
LEMMA Ends ==
  /\ DurationMin \in Duration /\ DurationIsCanonical(DurationMin)
  /\ DurationMax \in Duration /\ DurationIsCanonical(DurationMax)
  /\ TimestampMin \in Timestamp /\ TimestampIsCanonical(TimestampMin)
  /\ TimestampMax \in Timestamp /\ TimestampIsCanonical(TimestampMax)
<1>1. /\ NANOS_PER_SECOND \in Nat \ {0} /\ I64Max \in Nat /\ I32Max \in Nat
      /\ NANOS_PER_SECOND <= I32Max
  BY TimeAssumption
<1> QED
  BY <1>1 DEF DurationMin, DurationMax, TimestampMin, TimestampMax, Duration,
              Timestamp, DurationIsCanonical, TimestampIsCanonical, Sized,
              Subsecond, NANOS_MAX, I64, I32

-----------------------------------------------------------------------------
(* normalize.                                                              *)

(* Of a duration: carrying keeps the time or is beyond the limits.         *)
LEMMA NormalDurationNearest ==
  ASSUME NEW v \in Duration
  PROVE  /\ NormalDuration(v) \in Duration
         /\ DurationIsCanonical(NormalDuration(v))
         /\ Total(NormalDuration(v)) = NearestDuration(v)
         /\ NormalDuration(v) = v <=> DurationIsCanonical(v)
<1> DEFINE c == Carried(v, DurationMin, DurationMax)
           n == NormalDuration(v)
<1>1. n = Aligned(c)
  BY DEF NormalDuration, Aligned
<1>2. Total(v) \in Int /\ \A d \in Duration : Total(d) \in Int
  BY TotalIsInt
<1>3. \A d \in Duration : DurationIsCanonical(d) /\ Total(d) = Total(v)
        => Total(d) = NearestDuration(v)
  BY <1>2, DurationBounds, Ends DEF NearestDuration, Clamp
<1>4. CASE Sized(v.nanos)
  <2>1. c = v
    BY <1>4 DEF Carried
  <2> HIDE DEF c, n
  <2>2. /\ n \in Duration /\ DurationIsCanonical(n) /\ Total(n) = Total(v)
        /\ DurationIsCanonical(v) => n = v
    BY <1>1, <1>4, <2>1, SignedIsCanonical
  <2> QED
    BY <1>3, <2>2 DEF n
<1>5. CASE ~Sized(v.nanos)
  <2>1. ~DurationIsCanonical(v)
    BY <1>5 DEF DurationIsCanonical
  <2>2. SUFFICES /\ n \in Duration /\ DurationIsCanonical(n)
                 /\ Total(n) = NearestDuration(v)
    BY <2>1
  <2>3. \/ c.kind = v.kind /\ c \in Duration \cup Timestamp
           /\ Sized(c.nanos) /\ Total(c) = Total(v)
        \/ c = DurationMin /\ Total(v) <= (-I64Max - 2) * NANOS_PER_SECOND
        \/ c = DurationMax /\ Total(v) >= (I64Max + 1) * NANOS_PER_SECOND
    BY <1>5, CarryKeepsTotal
  <2>4. \A d \in Duration : Sized(d.nanos) =>
          /\ Aligned(d) \in Duration /\ DurationIsCanonical(Aligned(d))
          /\ Total(Aligned(d)) = Total(d)
          /\ DurationIsCanonical(d) => Aligned(d) = d
    BY SignedIsCanonical
  <2>5. \A d \in Duration : DurationIsCanonical(d) => Aligned(d) = d
    BY <2>4 DEF DurationIsCanonical
  <2> HIDE DEF c, n
  <2>6. CASE c.kind = v.kind /\ c \in Duration \cup Timestamp
             /\ Sized(c.nanos) /\ Total(c) = Total(v)
    <3>1. c \in Duration
      BY <2>6 DEF Duration, Timestamp
    <3> QED
      BY <1>1, <1>3, <2>4, <2>6, <3>1
  <2>7. CASE c = DurationMin /\ Total(v) <= (-I64Max - 2) * NANOS_PER_SECOND
    <3>1. n = DurationMin
      BY <1>1, <2>5, <2>7, Ends
    <3>2. /\ I64Max \in Nat /\ NANOS_PER_SECOND \in Nat
          /\ (-I64Max - 2) * NANOS_PER_SECOND \in Int
      BY TimeAssumption
    <3>3. Total(v) < Total(DurationMin)
      BY <1>2, <2>7, <3>2, DurationBounds
    <3>4. NearestDuration(v) = Total(DurationMin)
      BY <3>3 DEF NearestDuration, Clamp
    <3> QED
      BY <3>1, <3>4, Ends
  <2>8. CASE c = DurationMax /\ Total(v) >= (I64Max + 1) * NANOS_PER_SECOND
    <3>1. n = DurationMax
      BY <1>1, <2>5, <2>8, Ends
    <3>2. /\ I64Max \in Nat /\ NANOS_PER_SECOND \in Nat
          /\ (I64Max + 1) * NANOS_PER_SECOND \in Int
      BY TimeAssumption
    <3>3. Total(v) > Total(DurationMax)
      BY <1>2, <2>8, <3>2, DurationBounds
    <3>4. Total(DurationMin) <= Total(DurationMax)
      BY DurationBounds, Ends
    <3>5. ~(Total(v) < Total(DurationMin))
      BY <1>2, <3>3, <3>4, Ends
    <3>6. NearestDuration(v) = Total(DurationMax)
      BY <3>3, <3>5 DEF NearestDuration, Clamp
    <3> QED
      BY <3>1, <3>6, Ends
  <2> QED
    BY <2>3, <2>6, <2>7, <2>8
<1> QED
  BY <1>4, <1>5

(* Normalising a timestamp gives the nearest time there is, and changes    *)
(* nothing that is canonical.                                              *)
LEMMA NormalTimestampNearest ==
  ASSUME NEW v \in Timestamp
  PROVE  /\ NormalTimestamp(v) \in Timestamp
         /\ TimestampIsCanonical(NormalTimestamp(v))
         /\ Total(NormalTimestamp(v)) = NearestTimestamp(v)
         /\ NormalTimestamp(v) = v <=> TimestampIsCanonical(v)
<1> DEFINE c == Carried(v, TimestampMin, TimestampMax)
           n == NormalTimestamp(v)
<1>1. n = Forward(c)
  BY DEF NormalTimestamp, Forward
<1>2. Total(v) \in Int /\ \A d \in Timestamp : Total(d) \in Int
  BY TotalIsInt
<1>3. \A d \in Timestamp : TimestampIsCanonical(d) /\ Total(d) = Total(v)
        => Total(d) = NearestTimestamp(v)
  BY <1>2, TimestampBounds, Ends DEF NearestTimestamp, Clamp
<1>4. Total(v) < Total(TimestampMin) => NearestTimestamp(v) = Total(TimestampMin)
  BY DEF NearestTimestamp, Clamp
<1>5. \A d \in Timestamp : Sized(d.nanos) =>
        /\ Forward(d) \in Timestamp /\ TimestampIsCanonical(Forward(d))
        /\ TimestampIsCanonical(d) => Forward(d) = d
        /\ \/ Total(Forward(d)) = Total(d)
           \/ Forward(d) = TimestampMin /\ Total(d) < Total(TimestampMin)
  BY ForwardIsCanonical
<1>6. \A d \in Timestamp : TimestampIsCanonical(d) => Sized(d.nanos)
  <2>1. NANOS_PER_SECOND \in Nat \ {0}
    BY TimeAssumption
  <2> QED
    BY <2>1 DEF TimestampIsCanonical, Sized, Subsecond, NANOS_MAX
<1>7. ASSUME c \in Timestamp, Sized(c.nanos), Total(c) = Total(v)
      PROVE  /\ n \in Timestamp /\ TimestampIsCanonical(n)
             /\ Total(n) = NearestTimestamp(v)
  <2> HIDE DEF c, n
  <2> QED
    BY <1>1, <1>3, <1>4, <1>5, <1>7
<1>8. CASE Sized(v.nanos)
  <2>1. c = v
    BY <1>8 DEF Carried
  <2>2. TimestampIsCanonical(v) => n = v
    <3> HIDE DEF c, n
    <3> QED
      BY <1>1, <1>5, <1>8, <2>1
  <2>3. /\ n \in Timestamp /\ TimestampIsCanonical(n)
        /\ Total(n) = NearestTimestamp(v)
    <3>1. c \in Timestamp /\ Sized(c.nanos) /\ Total(c) = Total(v)
      BY <1>8, <2>1
    <3> QED
      BY <3>1, <1>7
  <2> HIDE DEF c, n
  <2> QED
    BY <2>2, <2>3 DEF n
<1>9. CASE ~Sized(v.nanos)
  <2>1. ~TimestampIsCanonical(v)
    BY <1>6, <1>9
  <2>2. SUFFICES /\ n \in Timestamp /\ TimestampIsCanonical(n)
                 /\ Total(n) = NearestTimestamp(v)
    BY <2>1
  <2>3. \/ c.kind = v.kind /\ c \in Duration \cup Timestamp
           /\ Sized(c.nanos) /\ Total(c) = Total(v)
        \/ c = TimestampMin /\ Total(v) <= (-I64Max - 2) * NANOS_PER_SECOND
        \/ c = TimestampMax /\ Total(v) >= (I64Max + 1) * NANOS_PER_SECOND
    BY <1>9, CarryKeepsTotal
  <2>4. CASE c.kind = v.kind /\ c \in Duration \cup Timestamp
             /\ Sized(c.nanos) /\ Total(c) = Total(v)
    <3>1. c \in Timestamp
      BY <2>4 DEF Duration, Timestamp
    <3> QED
      BY <1>7, <2>4, <3>1
  <2> HIDE DEF c, n
  <2>5. CASE c = TimestampMin /\ Total(v) <= (-I64Max - 2) * NANOS_PER_SECOND
    <3>1. n = TimestampMin
      BY <1>1, <1>5, <1>6, <2>5, Ends
    <3>2. /\ NANOS_PER_SECOND \in Nat \ {0} /\ I64Max \in Nat
          /\ (-I64Max - 2) * NANOS_PER_SECOND \in Int
      BY TimeAssumption
    <3>3. Total(v) < Total(TimestampMin)
      BY <1>2, <2>5, <3>2, TimestampBounds
    <3> QED
      BY <1>4, <3>1, <3>3, Ends
  <2>6. CASE c = TimestampMax /\ Total(v) >= (I64Max + 1) * NANOS_PER_SECOND
    <3>1. n = TimestampMax
      BY <1>1, <1>5, <1>6, <2>6, Ends
    <3>2. /\ I64Max \in Nat /\ NANOS_PER_SECOND \in Nat
          /\ (I64Max + 1) * NANOS_PER_SECOND \in Int
      BY TimeAssumption
    <3>3. Total(v) > Total(TimestampMax)
      BY <1>2, <2>6, <3>2, TimestampBounds
    <3>4. Total(TimestampMin) <= Total(TimestampMax)
      BY TimestampBounds, Ends
    <3>5. ~(Total(v) < Total(TimestampMin))
      BY <1>2, <3>3, <3>4, Ends
    <3>6. NearestTimestamp(v) = Total(TimestampMax)
      BY <3>3, <3>5 DEF NearestTimestamp, Clamp
    <3> QED
      BY <3>1, <3>6, Ends
  <2> QED
    BY <2>3, <2>4, <2>5, <2>6
<1> QED
  BY <1>8, <1>9

-----------------------------------------------------------------------------
(* The types of values.                                                    *)

(* The values a behaviour begins with are of their types.                  *)
LEMMA InitTyped == Init => TypeOK
  BY TimeAssumption DEF Init, TypeOK

(* Every conversion, negation and normalisation stays within the types.    *)
LEMMA NextTyped == TypeOK /\ [Next]_held => TypeOK'
<1> SUFFICES ASSUME TypeOK, [Next]_held PROVE TypeOK'
  OBVIOUS
<1>1. /\ NANOS_PER_SECOND \in Nat \ {0} /\ I32Max \in Nat /\ I64Max \in Nat
      /\ NANOS_PER_SECOND <= I32Max /\ SystemSeconds \subseteq I64
  BY TimeAssumption
<1>2. /\ held.kind = "duration" => held \in Duration
      /\ held.kind = "timestamp" => held \in Timestamp
      /\ held.kind = "std" => held \in StdDuration
      /\ held.kind = "system" => held \in SystemTime
      /\ held.kind \in {"durationText", "minusText"} => held \in DurationText
  BY DEF TypeOK, Value, Duration, Timestamp, StdDuration, SystemTime,
         DurationText, Refused, Panicked
<1>3. SUFFICES held' \in Duration \cup Timestamp \cup StdDuration \cup SystemTime
                 \/ held' \in {Refused, Panicked} \/ held' = held
  BY DEF TypeOK, Value
<1>4. CASE NormalizeDuration
  BY <1>2, <1>4, NormalDurationNearest DEF NormalizeDuration
<1>5. CASE NormalizeTimestamp
  BY <1>2, <1>5, NormalTimestampNearest DEF NormalizeTimestamp
<1>6. CASE TryNormalize
  BY <1>2, <1>6, NormalTimestampNearest DEF TryNormalize
<1>7. CASE Negate
  <2>1. held \in Duration /\ held.seconds \in Int /\ held.nanos \in Int
    BY <1>1, <1>2, <1>7 DEF Negate, Duration, I64, I32
  <2>2. /\ Wrapped(-held.seconds, I64Max) \in I64
        /\ Wrapped(-held.nanos, I32Max) \in I32
    <3>1. -held.seconds \in Int /\ -held.nanos \in Int
      BY <2>1
    <3>2. /\ Wrapped(-held.seconds, I64Max) \in -I64Max - 1 .. I64Max
          /\ Wrapped(-held.nanos, I32Max) \in -I32Max - 1 .. I32Max
      BY <1>1, <3>1, WrappedInRange
    <3> QED
      BY <3>2 DEF I64, I32
  <2> QED
    BY <1>7, <2>1, <2>2 DEF Negate, Duration
<1>8. CASE DurationFromStd
  <2>1. held \in StdDuration /\ held.kind = "std"
    BY <1>2, <1>8 DEF DurationFromStd
  <2>2. CASE held.seconds > I64Max
    BY <1>8, <2>2 DEF DurationFromStd
  <2>3. CASE ~(held.seconds > I64Max)
    <3>1. held.seconds \in I64 /\ held.nanos \in I32
      BY <1>1, <2>1, <2>3 DEF StdDuration, I64, I32, U64, Subsecond, NANOS_MAX
    <3>2. [held EXCEPT !.kind = "duration"] \in Duration
      BY <2>1, <3>1 DEF StdDuration, Duration
    <3> QED
      BY <1>8, <2>3, <3>2, NormalDurationNearest DEF DurationFromStd
  <2> QED
    BY <2>2, <2>3
<1>9. CASE StdFromDuration
  <2> DEFINE d == NormalDuration(held)
  <2>1. d \in Duration /\ DurationIsCanonical(d)
    BY <1>2, <1>9, NormalDurationNearest DEF StdFromDuration
  <2>2. \/ d.seconds >= 0 /\ d.nanos >= 0 /\ held' = [d EXCEPT !.kind = "std"]
        \/ /\ d.seconds < 0 \/ d.nanos < 0
           /\ held' = [kind |-> "negative", nanos |-> -d.nanos,
                       seconds |-> AsU64(Wrapped(-d.seconds, I64Max))]
        \/ held' = Panicked
    BY <1>9 DEF StdFromDuration
  <2> HIDE DEF d
  <2>3. /\ d.seconds \in Int /\ d.seconds \in I64 /\ d.nanos \in Int
        /\ -NANOS_PER_SECOND < d.nanos /\ d.nanos < NANOS_PER_SECOND
    BY <1>1, <2>1 DEF Duration, DurationIsCanonical, Sized, I64, I32
  <2>4. CASE /\ d.seconds >= 0 /\ d.nanos >= 0
             /\ held' = [d EXCEPT !.kind = "std"]
    <3>1. d.seconds \in U64 /\ d.nanos \in Subsecond
      BY <1>1, <2>3, <2>4 DEF U64, I64, Subsecond, NANOS_MAX
    <3> QED
      BY <2>1, <2>4, <3>1 DEF Duration, StdDuration
  <2>5. CASE /\ d.seconds < 0 \/ d.nanos < 0
             /\ held' = [kind |-> "negative", nanos |-> -d.nanos,
                         seconds |-> AsU64(Wrapped(-d.seconds, I64Max))]
    <3>1. d.nanos <= 0
      BY <2>1, <2>3, <2>5 DEF DurationIsCanonical
    <3>2. -d.nanos \in Subsecond
      BY <1>1, <2>3, <3>1 DEF Subsecond, NANOS_MAX
    <3>3. Wrapped(-d.seconds, I64Max) \in -I64Max - 1 .. I64Max
      BY <1>1, <2>3, WrappedInRange
    <3>4. AsU64(Wrapped(-d.seconds, I64Max)) \in U64
      BY <1>1, <3>3 DEF AsU64, U64
    <3> QED
      BY <2>5, <3>2, <3>4 DEF StdDuration
  <2> QED
    BY <2>2, <2>4, <2>5
<1>10. CASE TimestampFromSystem
  <2>1. held \in SystemTime
    BY <1>2, <1>10 DEF TimestampFromSystem
  <2>2. /\ held.seconds \in Int /\ held.nanos \in Int
        /\ -I64Max - 1 <= held.seconds /\ held.seconds <= I64Max
        /\ 0 <= held.nanos /\ held.nanos < NANOS_PER_SECOND
    <3>1. held.seconds \in I64 /\ held.nanos \in Subsecond
      BY <1>1, <2>1 DEF SystemTime
    <3> QED
      BY <1>1, <3>1 DEF I64, Subsecond, NANOS_MAX
  <2>3. CASE held.seconds >= 0
    <3>1. held' = [kind |-> "timestamp", seconds |-> held.seconds,
                   nanos |-> held.nanos]
      BY <1>1, <1>10, <2>2, <2>3 DEF TimestampFromSystem
    <3>2. held.seconds \in I64 /\ held.nanos \in I32
      BY <1>1, <2>2 DEF I64, I32
    <3> QED
      BY <3>1, <3>2 DEF Timestamp
  <2>4. CASE held.seconds < 0 /\ held.nanos = 0
    <3>1. \/ held' = Panicked
          \/ held' = [kind |-> "timestamp", seconds |-> -(-held.seconds),
                      nanos |-> 0]
      BY <1>10, <2>2, <2>4 DEF TimestampFromSystem
    <3>2. -(-held.seconds) \in I64 /\ 0 \in I32
      BY <1>1, <2>2 DEF I64, I32
    <3> QED
      BY <3>1, <3>2 DEF Timestamp
  <2>5. CASE held.seconds < 0 /\ held.nanos # 0
    <3> DEFINE s == -(-held.seconds - 1) - 1
               r == NANOS_PER_SECOND - (NANOS_PER_SECOND - held.nanos)
    <3>1. NANOS_PER_SECOND - held.nanos # 0 /\ ~(-held.seconds - 1 > I64Max)
      BY <1>1, <2>2
    <3>2. held' = [kind |-> "timestamp", seconds |-> s, nanos |-> r]
      BY <1>10, <2>5, <3>1 DEF TimestampFromSystem
    <3>3. s \in I64 /\ r \in I32
      BY <1>1, <2>2 DEF I64, I32
    <3> QED
      BY <3>2, <3>3 DEF Timestamp
  <2> QED
    BY <2>2, <2>3, <2>4, <2>5
<1>11. CASE SystemFromTimestamp
  <2> DEFINE t == NormalTimestamp(held)
  <2>1. t \in Timestamp /\ TimestampIsCanonical(t)
    BY <1>2, <1>11, NormalTimestampNearest DEF SystemFromTimestamp
  <2>2. \/ held' = Refused
        \/ t.seconds \in SystemSeconds /\ held' = [t EXCEPT !.kind = "system"]
    BY <1>11 DEF SystemFromTimestamp
  <2> HIDE DEF t
  <2> QED
    BY <2>1, <2>2 DEF TimestampIsCanonical, Timestamp, SystemTime
<1>12. CASE ParseDuration
  <2> DEFINE sign == IF held.kind = "minusText" THEN -1 ELSE 1
  <2>1. held \in DurationText
    BY <1>2, <1>12 DEF ParseDuration
  <2>2. \/ held' = Refused
        \/ /\ ~(held.seconds > I64Max)
           /\ held' = [kind |-> "duration", seconds |-> sign * held.seconds,
                       nanos |-> sign * held.nanos]
    BY <1>12 DEF ParseDuration
  <2>3. /\ held.seconds \in Nat /\ held.nanos \in Nat
        /\ held.nanos < NANOS_PER_SECOND
    BY <1>1, <2>1 DEF DurationText, Subsecond, NANOS_MAX
  <2>4. ~(held.seconds > I64Max)
          => sign * held.seconds \in I64 /\ sign * held.nanos \in I32
    BY <1>1, <2>3 DEF I64, I32
  <2> HIDE DEF sign
  <2> QED
    BY <2>2, <2>4 DEF Duration
<1>13. CASE UNCHANGED held
  BY <1>13
<1> QED
  BY <1>4, <1>5, <1>6, <1>7, <1>8, <1>9, <1>10, <1>11, <1>12, <1>13 DEF Next

(* Whatever sequence of conversions a program makes, the value it holds is *)
(* one of its type (bilrost-types/src/lib.rs).                             *)
THEOREM TimeTypeOK == Spec => []TypeOK
<1>1. Init => TypeOK
  BY InitTyped
<1>2. TypeOK /\ [Next]_held => TypeOK'
  BY NextTyped
<1> QED
  BY <1>1, <1>2, PTL DEF Spec

(* normalize returns the canonical pair nearest to every value a program   *)
(* comes by, whatever the widths of the integers, and leaves exactly the   *)
(* canonical ones as they are (bilrost-types/src/lib.rs:51-105, 215-255).  *)
THEOREM TimeNormalizesNearest == Spec => []NormalizesNearest
<1>1. TypeOK => NormalizesNearest
  <2> SUFFICES ASSUME TypeOK PROVE NormalizesNearest
    OBVIOUS
  <2>1. /\ held.kind = "duration" => held \in Duration
        /\ held.kind = "timestamp" => held \in Timestamp
    BY DEF TypeOK, Value, Duration, Timestamp, StdDuration, SystemTime,
           DurationText, Refused, Panicked
  <2> QED
    BY <2>1, NormalDurationNearest, NormalTimestampNearest DEF NormalizesNearest
<1> QED
  BY <1>1, TimeTypeOK, PTL

-----------------------------------------------------------------------------
(* The conversions of durations and timestamps keep the time.              *)

(* What is a value of a kind has the fields of that kind.                  *)
CalendarTypeOK ==
  held \in Value \cup DateTime \cup DateText \cup {Refused, Panicked}

(* Kinds tell the types apart.                                             *)
LEMMA KindsOfValues ==
  ASSUME NEW v \in Value \cup DateTime \cup DateText \cup {Refused, Panicked}
  PROVE  /\ v.kind = "duration" => v \in Duration
         /\ v.kind = "timestamp" => v \in Timestamp
         /\ v.kind \in {"std", "negative"} => v \in StdDuration
         /\ v.kind = "system" => v \in SystemTime
         /\ v.kind \in {"durationText", "minusText"} => v \in DurationText
         /\ v.kind = "dateTime" => v \in DateTime
         /\ v.kind = "dateText" => v \in DateText
BY DEF Value, Duration, Timestamp, StdDuration, SystemTime, DurationText,
       DateTime, DateText, Refused, Panicked

(* The time of a canonical pair is the nearest to itself.                  *)
LEMMA CanonicalMeans ==
  /\ \A d \in Duration : DurationIsCanonical(d) => NearestDuration(d) = Total(d)
  /\ \A t \in Timestamp : TimestampIsCanonical(t) => NearestTimestamp(t) = Total(t)
<1>1. ASSUME NEW d \in Duration, DurationIsCanonical(d)
      PROVE  NearestDuration(d) = Total(d)
  BY <1>1, NormalDurationNearest
<1>2. ASSUME NEW t \in Timestamp, TimestampIsCanonical(t)
      PROVE  NearestTimestamp(t) = Total(t)
  BY <1>2, NormalTimestampNearest
<1>3. QED
  BY <1>1, <1>2

(* Wrapping changes nothing within the range.                              *)
LEMMA WrappedWithin ==
  ASSUME NEW max \in Nat, NEW n \in -max - 1 .. max
  PROVE  Wrapped(n, max) = n
<1>1. n + max + 1 \in 0 .. 2 * max + 1
  OBVIOUS
<1>2. (n + max + 1) % (2 * max + 2) = n + max + 1
  <2> DEFINE a == n + max + 1
             b == 2 * max + 2
  <2>1. a \in Nat /\ b \in Nat \ {0} /\ a < b
    BY <1>1
  <2> HIDE DEF a, b
  <2>2. a % b = a
    BY <2>1
  <2>3. QED
    BY <2>2 DEF a, b
<1>3. QED
  BY <1>2 DEF Wrapped

(* What the time of a value of each kind is.                               *)
LEMMA Meanings ==
  ASSUME NEW v
  PROVE  /\ v.kind = "duration" => Meaning(v) = NearestDuration(v)
         /\ v.kind = "timestamp" => Meaning(v) = NearestTimestamp(v)
         /\ v.kind \in {"negative", "minusText"} => Meaning(v) = -Total(v)
         /\ v.kind \in {"std", "system", "durationText"} => Meaning(v) = Total(v)
         /\ v.kind \in DateKinds =>
              Meaning(v) = (SecondsSinceEpoch(LocalTime(v)) - Offset(v))
                              * NANOS_PER_SECOND + v.nanos
BY DEF Meaning, DateKinds

(* Normalisation keeps the time a value stands for.                        *)
LEMMA NormalMeans ==
  /\ \A v \in Duration :
       /\ NormalDuration(v) \in Duration /\ DurationIsCanonical(NormalDuration(v))
       /\ NormalDuration(v).kind = "duration"
       /\ Meaning(NormalDuration(v)) = Meaning(v)
       /\ Meaning(v) = Total(NormalDuration(v))
  /\ \A v \in Timestamp :
       /\ NormalTimestamp(v) \in Timestamp /\ TimestampIsCanonical(NormalTimestamp(v))
       /\ NormalTimestamp(v).kind = "timestamp"
       /\ Meaning(NormalTimestamp(v)) = Meaning(v)
       /\ Meaning(v) = Total(NormalTimestamp(v))
<1>1. /\ \A v \in Duration : v.kind = "duration"
      /\ \A v \in Timestamp : v.kind = "timestamp"
  BY DEF Duration, Timestamp
<1>2. ASSUME NEW v \in Duration
      PROVE  /\ NormalDuration(v) \in Duration
             /\ DurationIsCanonical(NormalDuration(v))
             /\ Meaning(NormalDuration(v)) = Meaning(v)
             /\ Meaning(v) = Total(NormalDuration(v))
  <2>1. /\ NormalDuration(v) \in Duration
        /\ DurationIsCanonical(NormalDuration(v))
        /\ Total(NormalDuration(v)) = NearestDuration(v)
    BY NormalDurationNearest
  <2>2. NearestDuration(NormalDuration(v)) = Total(NormalDuration(v))
    BY <2>1, CanonicalMeans
  <2>3. Meaning(v) = NearestDuration(v)
    BY <1>1, Meanings
  <2>4. Meaning(NormalDuration(v)) = NearestDuration(NormalDuration(v))
    BY <1>1, <2>1, Meanings
  <2>5. QED
    BY <2>1, <2>2, <2>3, <2>4
<1>3. ASSUME NEW v \in Timestamp
      PROVE  /\ NormalTimestamp(v) \in Timestamp
             /\ TimestampIsCanonical(NormalTimestamp(v))
             /\ Meaning(NormalTimestamp(v)) = Meaning(v)
             /\ Meaning(v) = Total(NormalTimestamp(v))
  <2>1. /\ NormalTimestamp(v) \in Timestamp
        /\ TimestampIsCanonical(NormalTimestamp(v))
        /\ Total(NormalTimestamp(v)) = NearestTimestamp(v)
    BY NormalTimestampNearest
  <2>2. NearestTimestamp(NormalTimestamp(v)) = Total(NormalTimestamp(v))
    BY <2>1, CanonicalMeans
  <2>3. Meaning(v) = NearestTimestamp(v)
    BY <1>1, Meanings
  <2>4. Meaning(NormalTimestamp(v)) = NearestTimestamp(NormalTimestamp(v))
    BY <1>1, <2>1, Meanings
  <2>5. QED
    BY <2>1, <2>2, <2>3, <2>4
<1>4. QED
  BY <1>1, <1>2, <1>3

(* Times of opposite fields are opposite.                                  *)
LEMMA OppositeTotal ==
  ASSUME NEW v, NEW w, NEW s \in Int, NEW n \in Int,
         v.seconds = s, v.nanos = n, w.seconds = -s, w.nanos = -n
  PROVE  Total(w) = -Total(v) /\ -Total(w) = Total(v)
<1> DEFINE N == NANOS_PER_SECOND
<1>1. N \in Int
  BY TimeAssumption
<1>2. s * N \in Int /\ (-s) * N = -(s * N)
  BY <1>1
<1>3. Total(v) = s * N + n /\ Total(w) = (-s) * N + -n
  BY DEF Total
<1> HIDE DEF N
<1>4. QED
  BY <1>2, <1>3

(* Values of the same fields stand for the same time.                      *)
LEMMA SameTotal ==
  ASSUME NEW v, NEW w, v.seconds = w.seconds, v.nanos = w.nanos
  PROVE  Total(v) = Total(w)
BY DEF Total

(* What ConversionsKeepTime says of a step between values.                 *)
Kept ==
  \/ Meaning(held') = Meaning(held)
  \/ /\ Negate
     /\ \/ Total(held') = -Total(held)
        \/ held.seconds = -I64Max - 1 \/ held.nanos = -I32Max - 1

(* Each conversion to or from a type of the standard library keeps the     *)
(* time; negation turns it round.                                          *)
LEMMA TimeKeeps ==
  ASSUME CalendarTypeOK, Next, held.kind \in Converted, held'.kind \in Converted
  PROVE  Kept
<1>1. /\ NANOS_PER_SECOND \in Nat \ {0} /\ I32Max \in Nat /\ I64Max \in Nat
      /\ NANOS_PER_SECOND <= I32Max /\ SystemSeconds \subseteq I64
  BY TimeAssumption
<1>2. /\ held.kind = "duration" => held \in Duration
      /\ held.kind = "timestamp" => held \in Timestamp
      /\ held.kind = "std" => held \in StdDuration
      /\ held.kind = "system" => held \in SystemTime
      /\ held.kind \in {"durationText", "minusText"} => held \in DurationText
  BY KindsOfValues DEF CalendarTypeOK
<1>3. held' # Refused /\ held' # Panicked
  BY DEF Converted, DateKinds, Refused, Panicked
<1>4. CASE NormalizeDuration
  BY <1>2, <1>4, NormalMeans DEF NormalizeDuration, Kept
<1>5. CASE NormalizeTimestamp
  BY <1>2, <1>5, NormalMeans DEF NormalizeTimestamp, Kept
<1>6. CASE TryNormalize
  BY <1>2, <1>3, <1>6, NormalMeans DEF TryNormalize, Kept
<1>7. CASE Negate
  <2>1. held \in Duration /\ held.seconds \in I64 /\ held.nanos \in I32
    BY <1>2, <1>7 DEF Negate, Duration
  <2>2. SUFFICES ASSUME held.seconds # -I64Max - 1, held.nanos # -I32Max - 1
                 PROVE  Total(held') = -Total(held)
    BY <1>7 DEF Kept
  <2>3. /\ -held.seconds \in -I64Max - 1 .. I64Max
        /\ -held.nanos \in -I32Max - 1 .. I32Max
    BY <1>1, <2>1, <2>2 DEF I64, I32
  <2>4. /\ Wrapped(-held.seconds, I64Max) = -held.seconds
        /\ Wrapped(-held.nanos, I32Max) = -held.nanos
    BY <1>1, <2>3, WrappedWithin
  <2>5. held' = [held EXCEPT !.seconds = -held.seconds, !.nanos = -held.nanos]
    BY <1>3, <1>7, <2>4 DEF Negate
  <2>6. held'.seconds = -held.seconds /\ held'.nanos = -held.nanos
    BY <2>1, <2>5 DEF Duration
  <2>7. held.seconds \in Int /\ held.nanos \in Int
    BY <1>1, <2>1 DEF I64, I32
  <2>8. QED
    BY <2>6, <2>7, OppositeTotal
<1>8. CASE DurationFromStd
  <2> DEFINE d == [held EXCEPT !.kind = "duration"]
  <2>1. held \in StdDuration /\ held.kind = "std" /\ held.seconds <= I64Max
    <3>1. /\ held.kind = "std"
          /\ held' = IF held.seconds > I64Max THEN Refused ELSE NormalDuration(d)
      BY <1>8 DEF DurationFromStd
    <3>2. held.seconds \in Int
      BY <1>1, <1>2, <3>1 DEF StdDuration, U64
    <3>3. QED
      BY <1>1, <1>2, <1>3, <3>1, <3>2
  <2>2. held.seconds \in I64 /\ held.nanos \in I32 /\ held.seconds >= 0
        /\ held.nanos \in Subsecond
    BY <1>1, <2>1 DEF StdDuration, I64, I32, U64, Subsecond, NANOS_MAX
  <2>3. d \in Duration /\ d.seconds = held.seconds /\ d.nanos = held.nanos
        /\ d.kind = "duration"
    BY <2>1, <2>2 DEF StdDuration, Duration
  <2>4. held' = NormalDuration(d)
    BY <1>1, <1>8, <2>1, <2>2 DEF DurationFromStd, I64
  <2> HIDE DEF d
  <2>5. DurationIsCanonical(d)
    BY <1>1, <2>2, <2>3 DEF DurationIsCanonical, Sized, Subsecond, NANOS_MAX, I64
  <2>6. Meaning(d) = Total(d)
    BY <2>3, <2>5, CanonicalMeans, Meanings
  <2>7. Meaning(held') = Meaning(d)
    BY <2>3, <2>4, NormalMeans
  <2>8. Meaning(held) = Total(held)
    BY <2>1, Meanings
  <2>9. Total(held) = Total(d)
    BY <2>3, SameTotal
  <2>10. QED
    BY <2>6, <2>7, <2>8, <2>9 DEF Kept
<1>9. CASE StdFromDuration
  <2> DEFINE d == NormalDuration(held)
  <2>1. /\ held \in Duration /\ d \in Duration
        /\ DurationIsCanonical(d) /\ Meaning(held) = Total(d)
    BY <1>2, <1>9, NormalMeans DEF StdFromDuration
  <2>2. \/ d.seconds >= 0 /\ d.nanos >= 0 /\ held' = [d EXCEPT !.kind = "std"]
        \/ /\ d.seconds < 0 \/ d.nanos < 0
           /\ held' = [kind |-> "negative", nanos |-> -d.nanos,
                       seconds |-> AsU64(Wrapped(-d.seconds, I64Max))]
    BY <1>3, <1>9 DEF StdFromDuration
  <2> HIDE DEF d
  <2>3. /\ d.seconds \in Int /\ d.seconds \in I64 /\ d.nanos \in Int
        /\ -NANOS_PER_SECOND < d.nanos /\ d.nanos < NANOS_PER_SECOND
    BY <1>1, <2>1 DEF Duration, DurationIsCanonical, Sized, I64, I32
  <2>4. ASSUME held' = [d EXCEPT !.kind = "std"]
        PROVE  Meaning(held') = Meaning(held)
    <3>1. held'.kind = "std" /\ held'.seconds = d.seconds /\ held'.nanos = d.nanos
      BY <2>1, <2>4 DEF Duration
    <3>2. Meaning(held') = Total(held')
      BY <3>1, Meanings
    <3>3. QED
      BY <2>1, <3>1, <3>2, SameTotal
  <2>5. ASSUME d.seconds < 0 \/ d.nanos < 0,
               held' = [kind |-> "negative", nanos |-> -d.nanos,
                         seconds |-> AsU64(Wrapped(-d.seconds, I64Max))]
        PROVE  Meaning(held') = Meaning(held)
    <3>1. d.seconds <= 0
      BY <2>1, <2>3, <2>5 DEF DurationIsCanonical
    <3>2. AsU64(Wrapped(-d.seconds, I64Max)) = -d.seconds
      <4>1. CASE d.seconds = -I64Max - 1
        <5>1. Wrapped(I64Max + 1, I64Max) = -I64Max - 1
          <6> DEFINE b == 2 * I64Max + 2
          <6>1. b \in Nat \ {0} /\ I64Max + 1 + I64Max + 1 = b
            BY <1>1
          <6>2. b % b = 0
            <7> HIDE DEF b
            <7>1. QED BY <6>1
          <6>3. QED
            BY <1>1, <6>1, <6>2 DEF Wrapped
        <5>2. -d.seconds = I64Max + 1
          BY <1>1, <4>1
        <5>3. QED
          BY <1>1, <5>1, <5>2 DEF AsU64
      <4>2. CASE d.seconds # -I64Max - 1
        <5>1. -d.seconds \in -I64Max - 1 .. I64Max
          BY <1>1, <2>3, <3>1, <4>2 DEF I64
        <5>2. Wrapped(-d.seconds, I64Max) = -d.seconds
          BY <1>1, <5>1, WrappedWithin
        <5>3. QED
          BY <2>3, <3>1, <5>2 DEF AsU64
      <4>3. QED
        BY <4>1, <4>2
    <3>3. /\ held'.kind = "negative" /\ held'.seconds = -d.seconds
          /\ held'.nanos = -d.nanos
      BY <2>5, <3>2
    <3>4. -Total(held') = Total(d)
      BY <2>3, <3>3, OppositeTotal
    <3>5. Meaning(held') = -Total(held')
      BY <3>3, Meanings
    <3>6. QED
      BY <2>1, <3>4, <3>5
  <2>6. QED
    BY <2>2, <2>4, <2>5 DEF Kept
<1>10. CASE TimestampFromSystem
  <2>1. held \in SystemTime /\ held.kind = "system"
    BY <1>2, <1>10 DEF TimestampFromSystem
  <2>2. /\ held.seconds \in Int /\ held.nanos \in Int
        /\ -I64Max - 1 <= held.seconds /\ held.seconds <= I64Max
        /\ 0 <= held.nanos /\ held.nanos < NANOS_PER_SECOND
    <3>1. held.seconds \in I64 /\ held.nanos \in Subsecond
      BY <1>1, <2>1 DEF SystemTime
    <3> QED
      BY <1>1, <3>1 DEF I64, Subsecond, NANOS_MAX
  <2> DEFINE t == [kind |-> "timestamp", seconds |-> held.seconds, nanos |-> held.nanos]
  <2>3. held' = t
    <3>1. CASE held.seconds >= 0
      BY <1>1, <1>10, <2>2, <3>1 DEF TimestampFromSystem
    <3>2. CASE held.seconds < 0 /\ held.nanos = 0
      <4>1. held' = [kind |-> "timestamp", seconds |-> -(-held.seconds), nanos |-> 0]
        BY <1>3, <1>10, <2>2, <3>2 DEF TimestampFromSystem
      <4>2. -(-held.seconds) = held.seconds
        BY <2>2
      <4>3. QED
        BY <3>2, <4>1, <4>2
    <3>3. CASE held.seconds < 0 /\ held.nanos # 0
      <4> DEFINE s == -(-held.seconds - 1) - 1
                 r == NANOS_PER_SECOND - (NANOS_PER_SECOND - held.nanos)
      <4>1. NANOS_PER_SECOND - held.nanos # 0 /\ ~(-held.seconds - 1 > I64Max)
        BY <1>1, <2>2
      <4>2. held' = [kind |-> "timestamp", seconds |-> s, nanos |-> r]
        BY <1>10, <3>3, <4>1 DEF TimestampFromSystem
      <4>3. s = held.seconds /\ r = held.nanos
        BY <1>1, <2>2
      <4>4. QED
        BY <4>2, <4>3
    <3>4. QED
      BY <2>2, <3>1, <3>2, <3>3
  <2>4. t \in Timestamp /\ TimestampIsCanonical(t) /\ t.kind = "timestamp"
        /\ t.seconds = held.seconds /\ t.nanos = held.nanos
    BY <1>1, <2>2 DEF Timestamp, TimestampIsCanonical, Subsecond, NANOS_MAX, I64, I32
  <2> HIDE DEF t
  <2>5. Meaning(t) = Total(t)
    BY <2>4, CanonicalMeans, Meanings
  <2>6. Total(t) = Total(held) /\ Meaning(held) = Total(held)
    BY <2>1, <2>4, SameTotal, Meanings
  <2>7. QED
    BY <2>3, <2>5, <2>6 DEF Kept
<1>11. CASE SystemFromTimestamp
  <2> DEFINE t == NormalTimestamp(held)
  <2>1. held \in Timestamp /\ t \in Timestamp /\ Meaning(held) = Total(t)
    BY <1>2, <1>11, NormalMeans DEF SystemFromTimestamp
  <2>2. held' = [t EXCEPT !.kind = "system"]
    BY <1>3, <1>11 DEF SystemFromTimestamp
  <2> HIDE DEF t
  <2>3. held'.kind = "system" /\ held'.seconds = t.seconds /\ held'.nanos = t.nanos
    BY <2>1, <2>2 DEF Timestamp
  <2>4. Total(held') = Total(t) /\ Meaning(held') = Total(held')
    BY <2>3, SameTotal, Meanings
  <2>5. QED
    BY <2>1, <2>4 DEF Kept
<1>12. CASE ParseDuration
  <2>1. held \in DurationText /\ held.kind \in {"durationText", "minusText"}
    BY <1>2, <1>12 DEF ParseDuration
  <2>2. /\ held.seconds \in Nat /\ held.nanos \in Nat
        /\ held.nanos < NANOS_PER_SECOND
    BY <1>1, <2>1 DEF DurationText, Subsecond, NANOS_MAX
  <2>3. held.seconds <= I64Max
    <3>1. ~(held.seconds > I64Max)
      BY <1>3, <1>12 DEF ParseDuration
    <3>2. QED
      BY <1>1, <2>2, <3>1
  <2>4. CASE held.kind = "durationText"
    <3>1. held' = [kind |-> "duration", seconds |-> 1 * held.seconds,
                   nanos |-> 1 * held.nanos]
      BY <1>3, <1>12, <2>4 DEF ParseDuration
    <3>2. /\ held'.kind = "duration" /\ held'.seconds = held.seconds
          /\ held'.nanos = held.nanos
      BY <2>2, <3>1
    <3>3. held' \in Duration /\ DurationIsCanonical(held')
      BY <1>1, <2>2, <2>3, <3>1, <3>2 DEF Duration, DurationIsCanonical, Sized, I64, I32
    <3>4. Meaning(held') = Total(held')
      BY <3>2, <3>3, CanonicalMeans, Meanings
    <3>5. Total(held') = Total(held) /\ Meaning(held) = Total(held)
      BY <2>4, <3>2, SameTotal, Meanings
    <3>6. QED
      BY <3>4, <3>5 DEF Kept
  <2>5. CASE held.kind = "minusText"
    <3>1. held' = [kind |-> "duration", seconds |-> (-1) * held.seconds,
                   nanos |-> (-1) * held.nanos]
      BY <1>3, <1>12, <2>5 DEF ParseDuration
    <3>2. /\ held'.kind = "duration" /\ held'.seconds = -held.seconds
          /\ held'.nanos = -held.nanos
      BY <2>2, <3>1
    <3>3. held' \in Duration /\ DurationIsCanonical(held')
      BY <1>1, <2>2, <2>3, <3>1, <3>2 DEF Duration, DurationIsCanonical, Sized, I64, I32
    <3>4. Meaning(held') = Total(held')
      BY <3>2, <3>3, CanonicalMeans, Meanings
    <3>5. Total(held') = -Total(held) /\ Meaning(held) = -Total(held)
      BY <2>2, <2>5, <3>2, OppositeTotal, Meanings
    <3>6. QED
      BY <3>4, <3>5 DEF Kept
  <2>6. QED
    BY <2>1, <2>4, <2>5
<1>13. QED
  BY <1>4, <1>5, <1>6, <1>7, <1>8, <1>9, <1>10, <1>11, <1>12 DEF Next

-----------------------------------------------------------------------------
(* The Gregorian calendar.                                                 *)

(* The days before the first of January.                                   *)
YearStart(y) ==
  365 * y + (y - 1) \div 4 - (y - 1) \div 100 + (y - 1) \div 400 + 1

(* The days before each month.                                             *)
LEMMA ThroughMonthIs ==
  /\ ThroughMonth[1] = 0 /\ ThroughMonth[2] = 31 /\ ThroughMonth[3] = 59
  /\ ThroughMonth[4] = 90 /\ ThroughMonth[5] = 120 /\ ThroughMonth[6] = 151
  /\ ThroughMonth[7] = 181 /\ ThroughMonth[8] = 212 /\ ThroughMonth[9] = 243
  /\ ThroughMonth[10] = 273 /\ ThroughMonth[11] = 304 /\ ThroughMonth[12] = 334
BY DEF ThroughMonth

(* A leap year is a truth value.                                           *)
LEMMA MonthToDaysIs ==
  ASSUME NEW leap \in BOOLEAN
  PROVE  LET x == IF leap THEN 1 ELSE 0
         IN /\ MonthToDays(1, leap) = 0 /\ MonthToDays(2, leap) = 31
            /\ MonthToDays(3, leap) = 59 + x /\ MonthToDays(4, leap) = 90 + x
            /\ MonthToDays(5, leap) = 120 + x /\ MonthToDays(6, leap) = 151 + x
            /\ MonthToDays(7, leap) = 181 + x /\ MonthToDays(8, leap) = 212 + x
            /\ MonthToDays(9, leap) = 243 + x /\ MonthToDays(10, leap) = 273 + x
            /\ MonthToDays(11, leap) = 304 + x /\ MonthToDays(12, leap) = 334 + x
BY ThroughMonthIs DEF MonthToDays

(* The length of each month.                                               *)
LEMMA LengthOfIs ==
  ASSUME NEW y \in Int
  PROVE  LET x == IF Leap(y) THEN 1 ELSE 0
         IN /\ LengthOf(y, 1) = 31 /\ LengthOf(y, 2) = 28 + x
            /\ LengthOf(y, 3) = 31 /\ LengthOf(y, 4) = 30
            /\ LengthOf(y, 5) = 31 /\ LengthOf(y, 6) = 30
            /\ LengthOf(y, 7) = 31 /\ LengthOf(y, 8) = 31
            /\ LengthOf(y, 9) = 30 /\ LengthOf(y, 10) = 31
            /\ LengthOf(y, 11) = 30 /\ LengthOf(y, 12) = 31
            /\ Leap(y) \in BOOLEAN
<1>1. Leap(y) \in BOOLEAN
  BY DEF Leap
<1>2. QED
  BY <1>1 DEF LengthOf

(* A sum over the months, month by month.                                  *)
LEMMA MonthByMonth ==
  ASSUME NEW y, NEW f,
         f = [m \in 0 .. 12 |-> IF m = 0 THEN 0 ELSE f[m - 1] + LengthOf(y, m)]
  PROVE  /\ f[0] = 0
         /\ f[1] = f[0] + LengthOf(y, 1) /\ f[2] = f[1] + LengthOf(y, 2)
         /\ f[3] = f[2] + LengthOf(y, 3) /\ f[4] = f[3] + LengthOf(y, 4)
         /\ f[5] = f[4] + LengthOf(y, 5) /\ f[6] = f[5] + LengthOf(y, 6)
         /\ f[7] = f[6] + LengthOf(y, 7) /\ f[8] = f[7] + LengthOf(y, 8)
         /\ f[9] = f[8] + LengthOf(y, 9) /\ f[10] = f[9] + LengthOf(y, 10)
         /\ f[11] = f[10] + LengthOf(y, 11)
<1> DEFINE at(m) == IF m = 0 THEN 0 ELSE f[m - 1] + LengthOf(y, m)
<1>1. \A m \in 0 .. 12 : f[m] = at(m)
  <2>1. f = [m \in 0 .. 12 |-> at(m)]
    OBVIOUS
  <2> HIDE DEF at
  <2>2. QED
    BY <2>1
<1>2. /\ f[0] = at(0) /\ f[1] = at(1) /\ f[2] = at(2) /\ f[3] = at(3)
      /\ f[4] = at(4) /\ f[5] = at(5) /\ f[6] = at(6) /\ f[7] = at(7)
      /\ f[8] = at(8) /\ f[9] = at(9) /\ f[10] = at(10) /\ f[11] = at(11)
  <2> HIDE DEF at
  <2>1. QED
    BY <1>1
<1>3. /\ at(0) = 0 /\ at(1) = f[0] + LengthOf(y, 1)
      /\ at(2) = f[1] + LengthOf(y, 2) /\ at(3) = f[2] + LengthOf(y, 3)
      /\ at(4) = f[3] + LengthOf(y, 4) /\ at(5) = f[4] + LengthOf(y, 5)
      /\ at(6) = f[5] + LengthOf(y, 6) /\ at(7) = f[6] + LengthOf(y, 7)
      /\ at(8) = f[7] + LengthOf(y, 8) /\ at(9) = f[8] + LengthOf(y, 9)
      /\ at(10) = f[9] + LengthOf(y, 10) /\ at(11) = f[10] + LengthOf(y, 11)
  <2>1. /\ 1 - 1 = 0 /\ 2 - 1 = 1 /\ 3 - 1 = 2 /\ 4 - 1 = 3 /\ 5 - 1 = 4
        /\ 6 - 1 = 5 /\ 7 - 1 = 6 /\ 8 - 1 = 7 /\ 9 - 1 = 8 /\ 10 - 1 = 9
        /\ 11 - 1 = 10
    OBVIOUS
  <2>2. QED
    BY <2>1
<1> HIDE DEF at
<1>4. QED
  BY <1>2, <1>3

(* The sum, if each month has its length.                                  *)
LEMMA ElevenMonths ==
  ASSUME NEW y \in Int, NEW f, f[0] = 0,
         f[1] = f[0] + LengthOf(y, 1), f[2] = f[1] + LengthOf(y, 2),
         f[3] = f[2] + LengthOf(y, 3), f[4] = f[3] + LengthOf(y, 4),
         f[5] = f[4] + LengthOf(y, 5), f[6] = f[5] + LengthOf(y, 6),
         f[7] = f[6] + LengthOf(y, 7), f[8] = f[7] + LengthOf(y, 8),
         f[9] = f[8] + LengthOf(y, 9), f[10] = f[9] + LengthOf(y, 10),
         f[11] = f[10] + LengthOf(y, 11)
  PROVE  \A m \in 1 .. 12 : f[m - 1] = MonthToDays(m, Leap(y))
<1> DEFINE x == IF Leap(y) THEN 1 ELSE 0
<1>1. x \in Int
  OBVIOUS
<1>2. f[1] = 31 /\ f[2] = 59 + x /\ f[3] = 90 + x /\ f[4] = 120 + x
  BY <1>1, LengthOfIs
<1>3. f[5] = 151 + x /\ f[6] = 181 + x /\ f[7] = 212 + x /\ f[8] = 243 + x
  BY <1>1, <1>2, LengthOfIs
<1>4. f[9] = 273 + x /\ f[10] = 304 + x /\ f[11] = 334 + x
  BY <1>1, <1>3, LengthOfIs
<1>5. Leap(y) \in BOOLEAN
  BY LengthOfIs
<1>6. SUFFICES ASSUME NEW m \in 1 .. 12
               PROVE  f[m - 1] = MonthToDays(m, Leap(y))
  OBVIOUS
<1>7. m \in {1, 2, 3, 4, 5, 6, 7, 8, 9, 10, 11, 12}
  OBVIOUS
<1>8. QED
  BY <1>2, <1>3, <1>4, <1>5, <1>7, MonthToDaysIs

(* The months before a month have its days, in any year.                   *)
LEMMA MonthsAddUp ==
  ASSUME NEW y \in Int, NEW f,
         f = CHOOSE g : g = [m \in 0 .. 12 |->
               IF m = 0 THEN 0 ELSE g[m - 1] + LengthOf(y, m)]
  PROVE  \A m \in 1 .. 12 : f[m - 1] = MonthToDays(m, Leap(y))
<1> DEFINE h == [m \in 0 .. 12 |-> IF m = 12 THEN MonthToDays(12, Leap(y)) + 31
                                   ELSE MonthToDays(m + 1, Leap(y))]
<1>1. \A m \in 0 .. 12 : m \in {0, 1, 2, 3, 4, 5, 6, 7, 8, 9, 10, 11, 12}
  OBVIOUS
<1>2. h = [m \in 0 .. 12 |-> IF m = 0 THEN 0 ELSE h[m - 1] + LengthOf(y, m)]
  <2>1. \A m \in 0 .. 12 : h[m] = IF m = 0 THEN 0 ELSE h[m - 1] + LengthOf(y, m)
    <3>1. SUFFICES ASSUME NEW m \in 0 .. 12
                   PROVE  h[m] = IF m = 0 THEN 0 ELSE h[m - 1] + LengthOf(y, m)
      OBVIOUS
    <3>2. QED
      BY <1>1, <3>1, LengthOfIs, MonthToDaysIs
  <2>2. QED
    BY <2>1
<1>3. f = [m \in 0 .. 12 |-> IF m = 0 THEN 0 ELSE f[m - 1] + LengthOf(y, m)]
  BY <1>2
<1> HIDE DEF h
<1>5. /\ f[0] = 0
      /\ f[1] = f[0] + LengthOf(y, 1) /\ f[2] = f[1] + LengthOf(y, 2)
      /\ f[3] = f[2] + LengthOf(y, 3) /\ f[4] = f[3] + LengthOf(y, 4)
      /\ f[5] = f[4] + LengthOf(y, 5) /\ f[6] = f[5] + LengthOf(y, 6)
      /\ f[7] = f[6] + LengthOf(y, 7) /\ f[8] = f[7] + LengthOf(y, 8)
      /\ f[9] = f[8] + LengthOf(y, 9) /\ f[10] = f[9] + LengthOf(y, 10)
      /\ f[11] = f[10] + LengthOf(y, 11)
  BY <1>3, MonthByMonth
<1>6. QED
  BY ONLY <1>5, ElevenMonths, y \in Int

(* The number of a day, without the sum over the months.                   *)
LEMMA DayNumberIs ==
  ASSUME NEW y \in Int, NEW m \in 1 .. 12, NEW d \in Int
  PROVE  DayNumber(y, m, d) = YearStart(y) + MonthToDays(m, Leap(y)) + d - 1
<1> DEFINE f == CHOOSE g : g = [k \in 0 .. 12 |->
               IF k = 0 THEN 0 ELSE g[k - 1] + LengthOf(y, k)]
<1>1. DayNumber(y, m, d) = 365 * y + (y - 1) \div 4 - (y - 1) \div 100
        + (y - 1) \div 400 + 1 + f[m - 1] + d - 1
  BY DEF DayNumber
<1>2. f[m - 1] = MonthToDays(m, Leap(y))
  <2> HIDE DEF f
  <2>1. f = CHOOSE g : g = [k \in 0 .. 12 |->
               IF k = 0 THEN 0 ELSE g[k - 1] + LengthOf(y, k)]
    BY DEF f
  <2>2. QED
    BY <2>1, MonthsAddUp
<1>3. QED
  BY <1>1, <1>2 DEF YearStart

-----------------------------------------------------------------------------
(* Years.                                                                  *)

(* There is one quotient with a remainder below the divisor.               *)
LEMMA DivisionIsUnique ==
  ASSUME NEW d \in Nat \ {0}, NEW q \in Int, NEW r \in 0 .. d - 1
  PROVE  (d * q + r) \div d = q /\ (d * q + r) % d = r
<1> DEFINE n == d * q + r
           p == n \div d
           s == n % d
<1>1. n \in Int
  OBVIOUS
<1>2. p \in Int /\ s \in 0 .. d - 1 /\ n = d * p + s
  <2> HIDE DEF n
  <2>1. QED
    BY <1>1
<1> HIDE DEF p, s
<1>3. d * (q - p) = s - r
  <2>1. d * (q - p) = d * q - d * p
    BY <1>2
  <2>2. QED
    BY <1>2, <2>1
<1>4. q - p = 0
  <2> DEFINE e == q - p
  <2>1. e \in Int /\ d * e = s - r
    BY <1>2, <1>3
  <2> HIDE DEF e
  <2>2. ~ (e >= 1)
    <3>1. SUFFICES ASSUME e >= 1 PROVE FALSE
      OBVIOUS
    <3>2. d * e >= d
      BY <2>1, <3>1
    <3>3. QED
      BY <1>2, <2>1, <3>2
  <2>3. ~ (e <= -1)
    <3>1. SUFFICES ASSUME e <= -1 PROVE FALSE
      OBVIOUS
    <3>2. d * e <= -d
      BY <2>1, <3>1
    <3>3. QED
      BY <1>2, <2>1, <3>2
  <2>4. QED
    BY <2>1, <2>2, <2>3 DEF e
<1>5. p = q
  BY <1>2, <1>4
<1>6. QED
  BY <1>2, <1>5 DEF p, s

(* Rounding down from division to zero.                                    *)
LEMMA FloorIs ==
  ASSUME NEW n \in Int, NEW d \in Nat \ {0}
  PROVE  FloorCycles(n, d) = n \div d /\ FloorRest(n, d) = n % d
<1> DEFINE q == Quotient(n, d)
           r == Remainder(n, d)
<1>1. /\ q \in Int /\ r \in Int /\ n = d * q + r
      /\ r \in 0 .. d - 1 \/ r \in -(d - 1) .. 0
  BY Division
<1>2. /\ FloorCycles(n, d) = (IF r < 0 THEN q - 1 ELSE q)
      /\ FloorRest(n, d) = (IF r < 0 THEN r + d ELSE r)
  BY DEF FloorCycles, FloorRest
<1> HIDE DEF q, r
<1>3. CASE r < 0
  <2>1. n = d * (q - 1) + (r + d)
    BY <1>1
  <2>2. q - 1 \in Int /\ r + d \in 0 .. d - 1
    BY <1>1, <1>3
  <2>3. QED
    BY <1>2, <1>3, <2>1, <2>2, DivisionIsUnique
<1>4. CASE ~ (r < 0)
  <2>1. r \in 0 .. d - 1
    BY <1>1, <1>4
  <2>2. QED
    BY <1>1, <1>2, <1>4, <2>1, DivisionIsUnique
<1>5. QED
  BY <1>3, <1>4

(* From 1901 to 2038 every fourth year is a leap year.                     *)
LEMMA NearYearIs ==
  ASSUME NEW y \in 1901 .. 2038
  PROVE  /\ NearYear(y).days = YearStart(y) - 719528
         /\ NearYear(y).isLeap = Leap(y)
<1>1. /\ (y - 1) \div 100 = IF y <= 2000 THEN 19 ELSE 20
      /\ (y - 1) \div 400 = IF y <= 2000 THEN 4 ELSE 5
      /\ (y - 1900 - 68) \div 4 = y \div 4 - 492
      /\ (y - 1900 - 68) % 4 = y % 4
      /\ (y - 1) \div 4 = IF y % 4 = 0 THEN y \div 4 - 1 ELSE y \div 4
  OBVIOUS
<1>2. NearYear(y).days = YearStart(y) - 719528
  BY <1>1 DEF NearYear, YearStart
<1>3. NearYear(y).isLeap = (y % 4 = 0)
  BY <1>1 DEF NearYear
<1>4. Leap(y) = (y % 4 = 0)
  BY DEF Leap
<1>5. QED
  BY <1>2, <1>3, <1>4

(* The other years by their place in a cycle of 400.                       *)
LEMMA FarYearIs ==
  ASSUME NEW y \in Int
  PROVE  /\ FarYear(y).days = YearStart(y) - 719528
         /\ FarYear(y).isLeap = Leap(y)
<1> DEFINE n == y - 2000
           cycles == n \div 400
           rest == n % 400
           century == rest \div 100
           year == rest % 100
           isLeap == IF year = 0 THEN rest = 0 ELSE year % 4 = 0
           leaps == year \div 4 + 97 * cycles + 24 * century
<1>1. FloorCycles(n, 400) = cycles /\ FloorRest(n, 400) = rest
  BY FloorIs
<1>2. /\ FarYear(y).days = n * 365 + 10957 + 1 + (IF isLeap THEN leaps - 1 ELSE leaps)
      /\ FarYear(y).isLeap = isLeap
  BY <1>1 DEF FarYear
<1>3. /\ cycles \in Int /\ century \in 0 .. 3 /\ year \in 0 .. 99
      /\ y = 2000 + 400 * cycles + 100 * century + year
      /\ rest = 100 * century + year
  OBVIOUS
<1>5. isLeap = Leap(y)
  <2>1. /\ (y % 4 = 0) = (year % 4 = 0)
        /\ (y % 100 = 0) = (year = 0)
        /\ (y % 400 = 0) = (rest = 0)
    BY <1>3
  <2>2. QED
    BY <1>3, <2>1 DEF Leap
<1> HIDE DEF cycles, rest, century, year
<1>6. /\ (y - 1) \div 4 = 500 + 100 * cycles + 25 * century
                            + (IF year % 4 = 0 THEN year \div 4 - 1 ELSE year \div 4)
      /\ (y - 1) \div 100 = 20 + 4 * cycles
                              + (IF year = 0 THEN century - 1 ELSE century)
      /\ (y - 1) \div 400 = 5 + (IF rest = 0 THEN cycles - 1 ELSE cycles)
  BY <1>3
<1>7. QED
  BY <1>2, <1>3, <1>5, <1>6 DEF YearStart

(* A year begins as many days after 1970 as are counted.                   *)
LEMMA YearToDaysIs ==
  ASSUME NEW y \in Int
  PROVE  /\ YearToDays(y).days = YearStart(y) - 719528
         /\ YearToDays(y).isLeap = Leap(y)
<1>1. CASE y - 1900 \in 1 .. 138
  <2>1. y \in 1901 .. 2038
    BY <1>1
  <2>2. QED
    BY <1>1, <2>1, NearYearIs DEF YearToDays
<1>2. CASE y - 1900 \notin 1 .. 138
  BY <1>2, FarYearIs DEF YearToDays
<1>3. QED
  BY <1>1, <1>2

(* The day the epoch begins with.                                          *)
LEMMA EpochIs ==
  DayNumber(1970, 1, 1) = 719528
<1>1. DayNumber(1970, 1, 1) = YearStart(1970) + MonthToDays(1, Leap(1970)) + 1 - 1
  BY DayNumberIs
<1>2. MonthToDays(1, Leap(1970)) = 0
  BY LengthOfIs, MonthToDaysIs
<1>3. YearStart(1970) = 719528
  BY DEF YearStart
<1>4. QED
  BY <1>1, <1>2, <1>3

(* A year is as long as its months.                                        *)
LEMMA NextYear ==
  ASSUME NEW y \in Int
  PROVE  YearStart(y + 1) = YearStart(y) + (IF Leap(y) THEN 366 ELSE 365)
<1>1. /\ y \div 4 = (y - 1) \div 4 + (IF y % 4 = 0 THEN 1 ELSE 0)
      /\ y \div 100 = (y - 1) \div 100 + (IF y % 100 = 0 THEN 1 ELSE 0)
      /\ y \div 400 = (y - 1) \div 400 + (IF y % 400 = 0 THEN 1 ELSE 0)
      /\ y % 400 = 0 => y % 100 = 0
      /\ y % 100 = 0 => y % 4 = 0
      /\ (y + 1) - 1 = y
  OBVIOUS
<1>2. /\ (y - 1) \div 4 \in Int /\ (y - 1) \div 100 \in Int
      /\ (y - 1) \div 400 \in Int
  OBVIOUS
<1>3. QED
  BY <1>1, <1>2 DEF YearStart, Leap

(* Later years begin later.                                                *)
LEMMA YearsGrow ==
  ASSUME NEW y \in Int, NEW z \in Int, y <= z
  PROVE  YearStart(y) <= YearStart(z)
<1>1. /\ (y - 1) \div 4 <= (z - 1) \div 4
      /\ (y - 1) \div 400 <= (z - 1) \div 400
      /\ (z - 1) \div 100 - (y - 1) \div 100 <= z - y
  OBVIOUS
<1>2. /\ (y - 1) \div 4 \in Int /\ (y - 1) \div 100 \in Int
      /\ (y - 1) \div 400 \in Int
      /\ (z - 1) \div 4 \in Int /\ (z - 1) \div 100 \in Int
      /\ (z - 1) \div 400 \in Int
  OBVIOUS
<1>3. QED
  BY <1>1, <1>2 DEF YearStart

-----------------------------------------------------------------------------
(* A day count as a date.                                                  *)

(* The days of the months from March on.                                   *)
MarchBefore == <<0, 31, 61, 92, 122, 153, 184, 214, 245, 275, 306, 337>>

(* The lengths and the days before them, one by one.                       *)
LEMMA MarchIs ==
  /\ MarchDays[1] = 31 /\ MarchDays[2] = 30 /\ MarchDays[3] = 31
  /\ MarchDays[4] = 30 /\ MarchDays[5] = 31 /\ MarchDays[6] = 31
  /\ MarchDays[7] = 30 /\ MarchDays[8] = 31 /\ MarchDays[9] = 30
  /\ MarchDays[10] = 31 /\ MarchDays[11] = 31 /\ MarchDays[12] = 29
  /\ MarchBefore[1] = 0 /\ MarchBefore[2] = 31 /\ MarchBefore[3] = 61
  /\ MarchBefore[4] = 92 /\ MarchBefore[5] = 122 /\ MarchBefore[6] = 153
  /\ MarchBefore[7] = 184 /\ MarchBefore[8] = 214 /\ MarchBefore[9] = 245
  /\ MarchBefore[10] = 275 /\ MarchBefore[11] = 306 /\ MarchBefore[12] = 337
BY DEF MarchDays, MarchBefore

(* The sum of their days, month by month.                                  *)
LEMMA MarchByMonth ==
  ASSUME NEW f,
         f = [m \in 0 .. 11 |-> IF m = 0 THEN 0 ELSE f[m - 1] + MarchDays[m]]
  PROVE  \A m \in 0 .. 11 : f[m] = MarchBefore[m + 1]
<1> DEFINE at(m) == IF m = 0 THEN 0 ELSE f[m - 1] + MarchDays[m]
<1>1. \A m \in 0 .. 11 : f[m] = at(m)
  <2>1. f = [m \in 0 .. 11 |-> at(m)]
    OBVIOUS
  <2> HIDE DEF at
  <2>2. QED
    BY <2>1
<1>2. /\ f[0] = at(0) /\ f[1] = at(1) /\ f[2] = at(2) /\ f[3] = at(3)
      /\ f[4] = at(4) /\ f[5] = at(5) /\ f[6] = at(6) /\ f[7] = at(7)
      /\ f[8] = at(8) /\ f[9] = at(9) /\ f[10] = at(10) /\ f[11] = at(11)
  <2> HIDE DEF at
  <2>1. QED
    BY <1>1
<1>3. /\ at(0) = 0 /\ at(1) = f[0] + MarchDays[1]
      /\ at(2) = f[1] + MarchDays[2] /\ at(3) = f[2] + MarchDays[3]
      /\ at(4) = f[3] + MarchDays[4] /\ at(5) = f[4] + MarchDays[5]
      /\ at(6) = f[5] + MarchDays[6] /\ at(7) = f[6] + MarchDays[7]
      /\ at(8) = f[7] + MarchDays[8] /\ at(9) = f[8] + MarchDays[9]
      /\ at(10) = f[9] + MarchDays[10] /\ at(11) = f[10] + MarchDays[11]
  <2>1. /\ 1 - 1 = 0 /\ 2 - 1 = 1 /\ 3 - 1 = 2 /\ 4 - 1 = 3 /\ 5 - 1 = 4
        /\ 6 - 1 = 5 /\ 7 - 1 = 6 /\ 8 - 1 = 7 /\ 9 - 1 = 8 /\ 10 - 1 = 9
        /\ 11 - 1 = 10
    OBVIOUS
  <2>2. QED
    BY <2>1
<1> HIDE DEF at
<1>4. /\ f[0] = 0 /\ f[1] = 31 /\ f[2] = 61 /\ f[3] = 92 /\ f[4] = 122
      /\ f[5] = 153
  BY <1>2, <1>3, MarchIs
<1>5. /\ f[6] = 184 /\ f[7] = 214 /\ f[8] = 245 /\ f[9] = 275
      /\ f[10] = 306 /\ f[11] = 337
  BY <1>2, <1>3, <1>4, MarchIs
<1>6. SUFFICES ASSUME NEW m \in 0 .. 11
               PROVE  f[m] = MarchBefore[m + 1]
  OBVIOUS
<1>7. m \in {0, 1, 2, 3, 4, 5, 6, 7, 8, 9, 10, 11}
  OBVIOUS
<1>8. QED
  BY <1>4, <1>5, <1>7, MarchIs

(* There is such a function.                                               *)
LEMMA MarchAddUp ==
  ASSUME NEW f,
         f = CHOOSE g : g = [m \in 0 .. 11 |->
               IF m = 0 THEN 0 ELSE g[m - 1] + MarchDays[m]]
  PROVE  \A m \in 0 .. 11 : f[m] = MarchBefore[m + 1]
<1> DEFINE h == [m \in 0 .. 11 |-> MarchBefore[m + 1]]
<1>1. h = [m \in 0 .. 11 |-> IF m = 0 THEN 0 ELSE h[m - 1] + MarchDays[m]]
  <2>1. \A m \in 0 .. 11 : h[m] = IF m = 0 THEN 0 ELSE h[m - 1] + MarchDays[m]
    <3>1. SUFFICES ASSUME NEW m \in 0 .. 11
                   PROVE  h[m] = IF m = 0 THEN 0 ELSE h[m - 1] + MarchDays[m]
      OBVIOUS
    <3>2. m \in {0, 1, 2, 3, 4, 5, 6, 7, 8, 9, 10, 11}
      OBVIOUS
    <3>3. QED
      BY <3>2, MarchIs
  <2>2. QED
    BY <2>1
<1>2. f = [m \in 0 .. 11 |-> IF m = 0 THEN 0 ELSE f[m - 1] + MarchDays[m]]
  BY <1>1
<1> HIDE DEF h
<1>3. QED
  BY <1>2, MarchByMonth

(* The months before a month from March on have its days.                  *)
LEMMA DaysPassedIs ==
  ASSUME NEW m \in 0 .. 11
  PROVE  DaysPassed(m) = MarchBefore[m + 1]
<1> DEFINE f == CHOOSE g : g = [k \in 0 .. 11 |->
               IF k = 0 THEN 0 ELSE g[k - 1] + MarchDays[k]]
<1>1. DaysPassed(m) = f[m]
  BY DEF DaysPassed
<1>2. f = CHOOSE g : g = [k \in 0 .. 11 |->
               IF k = 0 THEN 0 ELSE g[k - 1] + MarchDays[k]]
  OBVIOUS
<1> HIDE DEF f
<1>3. f[m] = MarchBefore[m + 1]
  BY <1>2, MarchAddUp
<1>4. QED
  BY <1>1, <1>3

(* A day of a year from March on is in one of its months.                  *)
LEMMA MonthsPassedIs ==
  ASSUME NEW day \in Nat, day <= 365
  PROVE  LET m == MonthsPassed(day)
         IN /\ m \in 0 .. 11
            /\ MarchBefore[m + 1] <= day
            /\ day < MarchBefore[m + 1] + MarchDays[m + 1]
<1> DEFINE f == CHOOSE g : g = [k \in 0 .. 11 |->
               IF k = 0 THEN 0 ELSE g[k - 1] + MarchDays[k]]
           Is(m) == f[m] <= day /\ day < f[m] + MarchDays[m + 1]
           c == CHOOSE m \in 0 .. 11 : Is(m)
<1>1. MonthsPassed(day) = c
  BY DEF MonthsPassed
<1>2. f = CHOOSE g : g = [k \in 0 .. 11 |->
               IF k = 0 THEN 0 ELSE g[k - 1] + MarchDays[k]]
  OBVIOUS
<1> HIDE DEF f
<1>3. \A m \in 0 .. 11 : f[m] = MarchBefore[m + 1]
  BY <1>2, MarchAddUp
<1>4. \E m \in 0 .. 11 : Is(m)
  <2>1. /\ f[0] = 0 /\ f[1] = 31 /\ f[2] = 61 /\ f[3] = 92 /\ f[4] = 122
        /\ f[5] = 153 /\ f[6] = 184 /\ f[7] = 214 /\ f[8] = 245
        /\ f[9] = 275 /\ f[10] = 306 /\ f[11] = 337
    BY <1>3, MarchIs
  <2>2. \/ Is(0) \/ Is(1) \/ Is(2) \/ Is(3) \/ Is(4) \/ Is(5) \/ Is(6)
        \/ Is(7) \/ Is(8) \/ Is(9) \/ Is(10) \/ Is(11)
    BY <2>1, MarchIs
  <2> HIDE DEF Is
  <2>3. QED
    BY <2>2
<1>5. c \in 0 .. 11 /\ Is(c)
  <2> HIDE DEF Is
  <2>1. QED
    BY <1>4
<1> HIDE DEF c
<1>6. c + 1 \in 1 .. 12
  BY <1>5
<1>7. QED
  BY <1>1, <1>3, <1>5

(* The parts of DateTimeOf, for days since the first of March 2000.        *)
Quads(days) == FloorCycles(days, DAYS_PER_400Y)
In400(days) == FloorRest(days, DAYS_PER_400Y)
Century(days) == Cycles(In400(days), DAYS_PER_100Y, 3)
In100(days) == In400(days) - Century(days) * DAYS_PER_100Y
FourYears(days) == Cycles(In100(days), DAYS_PER_4Y, 24)
In4(days) == In100(days) - FourYears(days) * DAYS_PER_4Y
OneYear(days) == Cycles(In4(days), 365, 3)
In1(days) == In4(days) - OneYear(days) * 365
Years(days) ==
  OneYear(days) + 4 * FourYears(days) + 100 * Century(days) + 400 * Quads(days)

(* The days of each cycle, as numbers.                                     *)
LEMMA LengthsOfCycles ==
  DAYS_PER_400Y = 146097 /\ DAYS_PER_100Y = 36524 /\ DAYS_PER_4Y = 1461
BY DEF DAYS_PER_400Y, DAYS_PER_100Y, DAYS_PER_4Y

(* The day over after four centuries is in the last one.                   *)
LEMMA CenturyOf ==
  ASSUME NEW n \in Int, 0 <= n, n <= 146096
  PROVE  /\ Cycles(n, 36524, 3) \in 0 .. 3
         /\ 0 <= n - Cycles(n, 36524, 3) * 36524
         /\ n - Cycles(n, 36524, 3) * 36524 <= 36524
         /\ n - Cycles(n, 36524, 3) * 36524 = 36524 => Cycles(n, 36524, 3) = 3
BY DEF Cycles

(* A century has no day over, but that of four may be its last.            *)
LEMMA FourYearsOf ==
  ASSUME NEW n \in Int, 0 <= n, n <= 36524
  PROVE  /\ Cycles(n, 1461, 24) \in 0 .. 24
         /\ 0 <= n - Cycles(n, 1461, 24) * 1461
         /\ n - Cycles(n, 1461, 24) * 1461 <= 1460
         /\ /\ Cycles(n, 1461, 24) = 24
            /\ n - Cycles(n, 1461, 24) * 1461 = 1460
            => n = 36524
BY DEF Cycles

(* The day over after four years is in the last one.                       *)
LEMMA OneYearOf ==
  ASSUME NEW n \in Int, 0 <= n, n <= 1460
  PROVE  /\ Cycles(n, 365, 3) \in 0 .. 3
         /\ n - Cycles(n, 365, 3) * 365 \in Nat
         /\ n - Cycles(n, 365, 3) * 365 <= 365
         /\ n - Cycles(n, 365, 3) * 365 = 365 => Cycles(n, 365, 3) = 3 /\ n = 1460
BY DEF Cycles

(* The parts of a number of days add up to it, and there is one day over   *)
(* only at the end of four years, which is not the end of a century unless *)
(* it is that of four.                                                     *)
LEMMA CyclesAddUp ==
  ASSUME NEW days \in Int
  PROVE  /\ Quads(days) \in Int /\ Century(days) \in 0 .. 3
         /\ FourYears(days) \in 0 .. 24 /\ OneYear(days) \in 0 .. 3
         /\ In1(days) \in Nat /\ In1(days) <= 365
         /\ days = 146097 * Quads(days) + 36524 * Century(days)
                     + 1461 * FourYears(days) + 365 * OneYear(days) + In1(days)
         /\ In1(days) = 365 =>
              OneYear(days) = 3 /\ (FourYears(days) = 24 => Century(days) = 3)
<1>1. /\ Quads(days) \in Int /\ In400(days) \in Int
      /\ 0 <= In400(days) /\ In400(days) <= 146096
      /\ days = 146097 * Quads(days) + In400(days)
  <2>1. Quads(days) = days \div 146097 /\ In400(days) = days % 146097
    BY LengthsOfCycles, FloorIs DEF Quads, In400
  <2>2. QED
    BY <2>1
<1>2. /\ Century(days) \in 0 .. 3 /\ In100(days) \in Int
      /\ 0 <= In100(days) /\ In100(days) <= 36524
      /\ In100(days) = 36524 => Century(days) = 3
      /\ In100(days) = In400(days) - Century(days) * 36524
  BY <1>1, LengthsOfCycles, CenturyOf DEF Century, In100
<1>3. /\ FourYears(days) \in 0 .. 24 /\ In4(days) \in Int
      /\ 0 <= In4(days) /\ In4(days) <= 1460
      /\ FourYears(days) = 24 /\ In4(days) = 1460 => In100(days) = 36524
      /\ In4(days) = In100(days) - FourYears(days) * 1461
  BY <1>2, LengthsOfCycles, FourYearsOf DEF FourYears, In4
<1>4. /\ OneYear(days) \in 0 .. 3 /\ In1(days) \in Nat /\ In1(days) <= 365
      /\ In1(days) = 365 => OneYear(days) = 3 /\ In4(days) = 1460
      /\ In1(days) = In4(days) - OneYear(days) * 365
  BY <1>3, OneYearOf DEF OneYear, In1
<1>5. days = 146097 * Quads(days) + 36524 * Century(days)
               + 1461 * FourYears(days) + 365 * OneYear(days) + In1(days)
  <2>1. /\ Quads(days) \in Int /\ Century(days) \in Int
        /\ FourYears(days) \in Int /\ OneYear(days) \in Int
        /\ In400(days) \in Int
    BY <1>1, <1>2, <1>3, <1>4
  <2>2. /\ days = 146097 * Quads(days) + In400(days)
        /\ In100(days) = In400(days) - Century(days) * 36524
        /\ In4(days) = In100(days) - FourYears(days) * 1461
        /\ In1(days) = In4(days) - OneYear(days) * 365
    BY <1>1, <1>2, <1>3, <1>4
  <2>3. QED
    BY <2>1, <2>2
<1>6. QED
  BY <1>1, <1>2, <1>3, <1>4, <1>5

(* The year that begins in March after so many years.                      *)
LEMMA MarchYear ==
  ASSUME NEW a \in Int, NEW c \in 0 .. 3, NEW q \in 0 .. 24, NEW y \in 0 .. 3
  PROVE  LET n == y + 4 * q + 100 * c + 400 * a
         IN /\ YearStart(n + 2001) - 306
                 = 730545 + 146097 * a + 36524 * c + 1461 * q + 365 * y
            /\ y = 3 /\ (q = 24 => c = 3) => Leap(n + 2001)
<1> DEFINE n == y + 4 * q + 100 * c + 400 * a
<1>1. n \in Int /\ (n + 2001) - 1 = n + 2000
  OBVIOUS
<1>2. /\ (n + 2000) \div 4 = 500 + q + 25 * c + 100 * a
      /\ (n + 2000) \div 100 = 20 + c + 4 * a
      /\ (n + 2000) \div 400 = 5 + a
  OBVIOUS
<1>3. YearStart(n + 2001) = 365 * (n + 2001) + (n + 2000) \div 4
        - (n + 2000) \div 100 + (n + 2000) \div 400 + 1
  BY <1>1 DEF YearStart
<1>4. YearStart(n + 2001) - 306
        = 730545 + 146097 * a + 36524 * c + 1461 * q + 365 * y
  BY <1>2, <1>3
<1>5. ASSUME y = 3, q = 24 => c = 3
      PROVE  Leap(n + 2001)
  <2>1. (n + 2001) % 4 = 0
    BY <1>5
  <2>2. CASE q = 24
    <3>1. (n + 2001) % 400 = 0
      BY <1>5, <2>2
    <3>2. QED
      BY <2>1, <3>1 DEF Leap
  <2>3. CASE q # 24
    <3>1. (n + 2001) % 100 # 0
      <4>1. n + 2001 = 100 * (20 + c + 4 * a) + 4 * (q + 1) /\ 4 * (q + 1) \in 1 .. 99
        BY <1>5, <2>3
      <4>2. QED
        BY <4>1
    <3>2. QED
      BY <2>1, <3>1 DEF Leap
  <2>4. QED
    BY <2>2, <2>3
<1>6. QED
  BY <1>4, <1>5

(* The date is made of those parts.                                        *)
Date(days, time, nanos) ==
  LET m == MonthsPassed(In1(days))
      wraps == m >= 10
  IN [kind |-> "dateTime",
      year |-> (IF wraps THEN Years(days) + 1 ELSE Years(days)) + 2000,
      month |-> (IF wraps THEN m - 12 ELSE m) + 3,
      day |-> In1(days) - DaysPassed(m) + 1,
      hour |-> time \div SecondsPerHour,
      minute |-> (time \div SecondsPerMinute) % MinutesPerHour,
      second |-> time % SecondsPerMinute,
      nanos |-> nanos]

(* A timestamp's date is that of its days and of the seconds after them.   *)
LEMMA DateTimeOfIs ==
  ASSUME NEW timestamp
  PROVE  LET t == NormalTimestamp(timestamp)
         IN DateTimeOf(timestamp) =
              Date(FloorCycles(t.seconds, SecondsPerDay) - LEAPOCH_DAYS,
                   FloorRest(t.seconds, SecondsPerDay), t.nanos)
BY DEF DateTimeOf, Date, Quads, In400, Century, In100, FourYears, In4, OneYear,
       In1, Years

(* The months of a year from March on as those of two years from January.  *)
LEMMA MarchMonth ==
  ASSUME NEW m \in 0 .. 11, NEW y \in Int
  PROVE  /\ MarchBefore[m + 1] \in Int /\ MarchDays[m + 1] \in Int
         /\ m < 10 =>
              /\ MonthToDays(m + 3, Leap(y))
                   = MarchBefore[m + 1] + 59 + (IF Leap(y) THEN 1 ELSE 0)
              /\ LengthOf(y, m + 3) = MarchDays[m + 1]
         /\ m = 10 =>
              /\ MonthToDays(m - 9, Leap(y)) = MarchBefore[m + 1] - 306
              /\ LengthOf(y, m - 9) = 31
              /\ MarchBefore[m + 1] = 306 /\ MarchDays[m + 1] = 31
         /\ m = 11 =>
              /\ MonthToDays(m - 9, Leap(y)) = MarchBefore[m + 1] - 306
              /\ LengthOf(y, m - 9) = IF Leap(y) THEN 29 ELSE 28
              /\ MarchBefore[m + 1] = 337 /\ MarchDays[m + 1] = 29
<1> DEFINE x == IF Leap(y) THEN 1 ELSE 0
<1>1. /\ Leap(y) \in BOOLEAN
      /\ LengthOf(y, 1) = 31 /\ LengthOf(y, 2) = 28 + x
      /\ LengthOf(y, 3) = 31 /\ LengthOf(y, 4) = 30
      /\ LengthOf(y, 5) = 31 /\ LengthOf(y, 6) = 30
      /\ LengthOf(y, 7) = 31 /\ LengthOf(y, 8) = 31
      /\ LengthOf(y, 9) = 30 /\ LengthOf(y, 10) = 31
      /\ LengthOf(y, 11) = 30 /\ LengthOf(y, 12) = 31
  BY LengthOfIs
<1> DEFINE days(k) == MonthToDays(k, Leap(y))
<1>2. /\ days(1) = 0 /\ days(2) = 31
      /\ days(3) = 59 + x /\ days(4) = 90 + x
      /\ days(5) = 120 + x /\ days(6) = 151 + x
      /\ days(7) = 181 + x /\ days(8) = 212 + x
      /\ days(9) = 243 + x /\ days(10) = 273 + x
      /\ days(11) = 304 + x /\ days(12) = 334 + x
  BY <1>1, MonthToDaysIs
<1>3. x \in Int /\ (IF Leap(y) THEN 29 ELSE 28) = 28 + x
  OBVIOUS
<1> HIDE DEF x, days
<1>4. m \in {0, 1, 2, 3, 4, 5, 6, 7, 8, 9, 10, 11}
  OBVIOUS
<1>5. MarchBefore[m + 1] \in Int /\ MarchDays[m + 1] \in Int
  BY <1>4, MarchIs
<1>6. m < 10 => days(m + 3) = MarchBefore[m + 1] + 59 + x
  BY <1>2, <1>3, <1>4, MarchIs
<1>7. m < 10 => LengthOf(y, m + 3) = MarchDays[m + 1]
  BY <1>1, <1>4, MarchIs
<1>8. m = 10 \/ m = 11 => days(m - 9) = MarchBefore[m + 1] - 306
  BY <1>2, MarchIs
<1>9. /\ m = 10 => LengthOf(y, m - 9) = 31
                     /\ MarchBefore[m + 1] = 306 /\ MarchDays[m + 1] = 31
      /\ m = 11 => LengthOf(y, m - 9) = 28 + x
                     /\ MarchBefore[m + 1] = 337 /\ MarchDays[m + 1] = 29
  BY <1>1, MarchIs
<1>10. QED
  BY <1>3, <1>5, <1>6, <1>7, <1>8, <1>9 DEF x, days

(* A date of the calendar.                                                 *)
LEMMA DateIsGregorian ==
  ASSUME NEW days \in Int, NEW time, NEW nanos
  PROVE  LET d == Date(days, time, nanos)
         IN /\ d.year \in Int /\ d.month \in 1 .. 12 /\ d.day \in Nat
            /\ d.day \in 1 .. LengthOf(d.year, d.month)
            /\ DayNumber(d.year, d.month, d.day) = 730545 + days
<1> DEFINE d == Date(days, time, nanos)
           in1 == In1(days)
           m == MonthsPassed(in1)
           b == MarchBefore[m + 1]
           n == Years(days)
<1>1. in1 \in Nat /\ in1 <= 365
  BY CyclesAddUp
<1>2. /\ n \in Int
      /\ YearStart(n + 2001) - 306 + in1 = 730545 + days
      /\ in1 = 365 => Leap(n + 2001)
  <2>1. /\ Quads(days) \in Int /\ Century(days) \in 0 .. 3
        /\ FourYears(days) \in 0 .. 24 /\ OneYear(days) \in 0 .. 3
    BY CyclesAddUp
  <2>2. /\ n \in Int
        /\ YearStart(n + 2001) - 306
             = 730545 + 146097 * Quads(days) + 36524 * Century(days)
                 + 1461 * FourYears(days) + 365 * OneYear(days)
        /\ OneYear(days) = 3 /\ (FourYears(days) = 24 => Century(days) = 3)
             => Leap(n + 2001)
    <3>1. n \in Int
      BY <2>1 DEF Years
    <3>2. QED
      BY <2>1, <3>1, MarchYear DEF Years
  <2>3. /\ Quads(days) \in Int /\ Century(days) \in Int
        /\ FourYears(days) \in Int /\ OneYear(days) \in Int
    BY <2>1
  <2>4. /\ days = 146097 * Quads(days) + 36524 * Century(days)
                     + 1461 * FourYears(days) + 365 * OneYear(days) + in1
        /\ in1 = 365 =>
              OneYear(days) = 3 /\ (FourYears(days) = 24 => Century(days) = 3)
    BY CyclesAddUp
  <2>5. YearStart(n + 2001) \in Int
    BY <2>2 DEF YearStart
  <2> HIDE DEF n, in1
  <2>6. YearStart(n + 2001) - 306 + in1 = 730545 + days
    <3>1. in1 \in Int
      BY <1>1
    <3>2. QED
      BY <2>2, <2>3, <2>4, <2>5, <3>1
  <2>7. QED
    BY <2>2, <2>4, <2>6
<1>3. /\ m \in 0 .. 11 /\ b <= in1 /\ in1 < b + MarchDays[m + 1]
      /\ DaysPassed(m) = b
  BY <1>1, MonthsPassedIs, DaysPassedIs
<1>4. /\ d.year = (IF m >= 10 THEN n + 1 ELSE n) + 2000
      /\ d.month = (IF m >= 10 THEN m - 12 ELSE m) + 3
      /\ d.day = in1 - b + 1
  BY <1>3 DEF Date
<1>5. b \in Int /\ MarchDays[m + 1] \in Int
  BY <1>2, <1>3, MarchMonth
<1> HIDE DEF d, in1, m, b, n
<1>6. d.day \in Int /\ d.day >= 1 /\ d.day <= MarchDays[m + 1]
  BY <1>1, <1>3, <1>4, <1>5
<1>7. CASE m < 10
  <2> DEFINE y == n + 2000
             x == IF Leap(y) THEN 1 ELSE 0
  <2>1. d.year = y /\ d.month = m + 3 /\ y \in Int /\ y + 1 = n + 2001
    BY <1>2, <1>3, <1>4, <1>7
  <2>2. /\ MonthToDays(m + 3, Leap(y)) = b + 59 + x
        /\ LengthOf(y, m + 3) = MarchDays[m + 1]
    BY <1>3, <1>7, <2>1, MarchMonth DEF b
  <2>3. d.month \in 1 .. 12
    BY <1>3, <1>7, <2>1
  <2>4. DayNumber(y, d.month, d.day) = YearStart(y) + (b + 59 + x) + d.day - 1
    BY <1>6, <2>1, <2>2, <2>3, DayNumberIs
  <2>5. YearStart(n + 2001) = YearStart(y) + 365 + x
    <3>1. YearStart(y + 1) = YearStart(y) + (IF Leap(y) THEN 366 ELSE 365)
      BY <2>1, NextYear
    <3>2. YearStart(y) \in Int
      BY <2>1 DEF YearStart
    <3>3. QED
      BY <2>1, <3>1, <3>2
  <2>6. YearStart(y) \in Int /\ x \in Int
    BY <2>1 DEF YearStart
  <2> HIDE DEF x, y
  <2>7. DayNumber(y, d.month, d.day) = 730545 + days
    BY <1>1, <1>2, <1>4, <1>5, <2>4, <2>5, <2>6
  <2>8. QED
    BY <1>6, <2>1, <2>2, <2>3, <2>7 DEF d
<1>8. CASE m >= 10
  <2> DEFINE y == n + 2001
             x == IF Leap(y) THEN 1 ELSE 0
  <2>1. d.year = y /\ d.month = m - 9 /\ y \in Int /\ (m = 10 \/ m = 11)
    BY <1>2, <1>3, <1>4, <1>8
  <2>2. /\ MonthToDays(m - 9, Leap(y)) = b - 306
        /\ m = 10 => LengthOf(y, m - 9) = 31 /\ MarchDays[m + 1] = 31
        /\ m = 11 => /\ LengthOf(y, m - 9) = IF Leap(y) THEN 29 ELSE 28
                     /\ MarchDays[m + 1] = 29 /\ b = 337
    BY <1>3, <2>1, MarchMonth DEF b
  <2>3. d.month \in 1 .. 12
    BY <2>1
  <2>4. DayNumber(y, d.month, d.day) = YearStart(y) + (b - 306) + d.day - 1
    BY <1>6, <2>1, <2>2, <2>3, DayNumberIs
  <2>5. YearStart(y) \in Int
    BY <2>1 DEF YearStart
  <2>6. DayNumber(y, d.month, d.day) = 730545 + days
    <3> HIDE DEF x
    <3>1. YearStart(y) - 306 + in1 = 730545 + days
      BY <1>2
    <3> HIDE DEF y
    <3>2. QED
      BY <1>1, <1>4, <1>5, <2>4, <2>5, <3>1
  <2>7. d.day <= LengthOf(y, m - 9) /\ LengthOf(y, m - 9) \in Int
    <3>1. CASE m = 10
      BY <1>6, <2>2, <3>1
    <3>2. CASE m = 11
      <4>1. d.day = 29 => Leap(y)
        BY <1>1, <1>2, <1>4, <2>2, <3>2
      <4>2. QED
        BY <1>6, <2>2, <3>2, <4>1
    <3>3. QED
      BY <2>1, <3>1, <3>2
  <2>8. QED
    BY <1>6, <2>1, <2>3, <2>6, <2>7 DEF d
<1>9. QED
  BY <1>3, <1>7, <1>8

-----------------------------------------------------------------------------
(* The time of day.                                                        *)

(* A number of two digits.                                                 *)
LEMMA TwoDigits ==
  ASSUME NEW a \in Nat \ {0}, NEW d \in Nat \ {0},
         NEW q \in 0 .. a - 1, NEW r \in 0 .. d - 1
  PROVE  q * d + r \in 0 .. a * d - 1
<1>1. q * d \in Nat /\ a * d \in Nat
  OBVIOUS
<1>2. q * d + d <= a * d
  <2>1. (q + 1) * d <= a * d
    <3>1. q + 1 \in Int /\ a \in Int /\ d \in Nat /\ q + 1 <= a
      OBVIOUS
    <3>2. QED
      BY <3>1, Products
  <2>2. (q + 1) * d = q * d + d
    OBVIOUS
  <2>3. QED
    BY <2>1, <2>2
<1>3. r \in Nat /\ r < d
  OBVIOUS
<1>4. QED
  BY <1>1, <1>2, <1>3

(* The digits of a number below a product.                                 *)
LEMMA DigitsOf ==
  ASSUME NEW a \in Nat \ {0}, NEW d \in Nat \ {0}, NEW n \in 0 .. a * d - 1
  PROVE  n \div d \in 0 .. a - 1 /\ n % d \in 0 .. d - 1
         /\ n = (n \div d) * d + (n % d)
<1> DEFINE q == n \div d
           r == n % d
<1>1. n \in Nat /\ a * d \in Nat /\ n < a * d
  OBVIOUS
<1>2. q \in Int /\ r \in 0 .. d - 1 /\ n = d * q + r /\ d * q = q * d
  BY <1>1
<1> HIDE DEF q, r
<1>3. q >= 0
  <2>1. SUFFICES ASSUME q + 1 <= 0 PROVE FALSE
    BY <1>2
  <2>2. (q + 1) * d <= 0 * d
    BY <1>2, <2>1, Products
  <2>3. (q + 1) * d = q * d + d /\ 0 * d = 0
    BY <1>2
  <2>4. QED
    BY <1>1, <1>2, <2>2, <2>3
<1>4. q < a
  <2>1. SUFFICES ASSUME a <= q PROVE FALSE
    BY <1>2
  <2>2. a * d <= q * d
    BY <1>2, <2>1, Products
  <2>3. QED
    BY <1>1, <1>2, <2>2
<1>5. QED
  BY <1>2, <1>3, <1>4 DEF q, r

(* The constants of the calendar.                                          *)
LEMMA Lengths ==
  /\ HoursPerDay \in Nat \ {0} /\ MinutesPerHour \in Nat \ {0}
  /\ SecondsPerMinute \in Nat \ {0} /\ SecondsPerHour \in Nat \ {0}
  /\ SecondsPerDay \in Nat \ {0}
  /\ SecondsPerHour = MinutesPerHour * SecondsPerMinute
  /\ SecondsPerDay = HoursPerDay * SecondsPerHour
<1>1. /\ HoursPerDay \in Nat \ {0} /\ MinutesPerHour \in Nat \ {0}
      /\ SecondsPerMinute \in Nat \ {0}
  BY CalendarAssumption
<1>2. \A a \in Nat \ {0}, b \in Nat \ {0} : a * b \in Nat \ {0}
  <2>1. SUFFICES ASSUME NEW a \in Nat \ {0}, NEW b \in Nat \ {0}
                 PROVE  a * b \in Nat \ {0}
    OBVIOUS
  <2>2. 1 * b <= a * b /\ 1 * b = b /\ a * b \in Nat
    BY Products
  <2>3. QED
    BY <2>2
<1>3. SecondsPerHour \in Nat \ {0}
  BY <1>1, <1>2 DEF SecondsPerHour
<1>4. SecondsPerDay \in Nat \ {0}
  BY <1>1, <1>2, <1>3 DEF SecondsPerDay
<1>5. QED
  BY <1>1, <1>3, <1>4 DEF SecondsPerHour, SecondsPerDay

(* The seconds since midnight.                                             *)
TimeOfDay(d) ==
  d.hour * SecondsPerHour + d.minute * SecondsPerMinute + d.second

(* A time of day is less than a day.                                       *)
LEMMA TimeOfDayBound ==
  ASSUME NEW d, d.hour \in 0 .. HoursPerDay - 1,
         d.minute \in 0 .. MinutesPerHour - 1,
         d.second \in 0 .. SecondsPerMinute - 1
  PROVE  /\ TimeOfDay(d) \in 0 .. SecondsPerDay - 1
         /\ d.minute * SecondsPerMinute + d.second \in 0 .. SecondsPerHour - 1
<1> DEFINE r == d.minute * SecondsPerMinute + d.second
<1>1. r \in 0 .. SecondsPerHour - 1
  BY Lengths, TwoDigits
<1>2. d.hour * SecondsPerHour + r \in 0 .. SecondsPerDay - 1
  <2> HIDE DEF r
  <2>1. QED
    BY <1>1, Lengths, TwoDigits
<1>3. d.hour * SecondsPerHour + r = TimeOfDay(d)
  <2> DEFINE h == d.hour * SecondsPerHour
             k == d.minute * SecondsPerMinute
  <2>1. h \in Int /\ k \in Int /\ d.second \in Int
    BY Lengths
  <2> HIDE DEF h, k
  <2>2. h + (k + d.second) = h + k + d.second
    BY <2>1
  <2>3. QED
    BY <2>2 DEF h, k, TimeOfDay
<1>4. QED
  BY <1>1, <1>2, <1>3

(* The seconds of a day as hours, minutes and seconds.                     *)
LEMMA PartsOfDay ==
  ASSUME NEW days \in Int, NEW time \in 0 .. SecondsPerDay - 1, NEW nanos
  PROVE  LET d == Date(days, time, nanos)
         IN /\ d.hour \in 0 .. HoursPerDay - 1
            /\ d.minute \in 0 .. MinutesPerHour - 1
            /\ d.second \in 0 .. SecondsPerMinute - 1
            /\ TimeOfDay(d) = time
            /\ d.nanos = nanos /\ d.kind = "dateTime"
<1> DEFINE d == Date(days, time, nanos)
           h == time \div SecondsPerHour
           u == time \div SecondsPerMinute
           k == u % MinutesPerHour
           s == time % SecondsPerMinute
           g == u \div MinutesPerHour
<1>1. d.hour = h /\ d.minute = k /\ d.second = s /\ d.nanos = nanos
      /\ d.kind = "dateTime"
  BY DEF Date
<1>2. h \in 0 .. HoursPerDay - 1
  BY Lengths, DigitsOf
<1>3. time = u * SecondsPerMinute + s /\ s \in 0 .. SecondsPerMinute - 1
      /\ u \in 0 .. HoursPerDay * MinutesPerHour - 1
  <2> DEFINE a == HoursPerDay * MinutesPerHour
  <2>1. a * SecondsPerMinute = SecondsPerDay
    BY Lengths
  <2>2. a \in Nat \ {0}
    <3>1. 1 * MinutesPerHour <= HoursPerDay * MinutesPerHour
      BY Lengths, Products
    <3>2. a \in Nat
      BY Lengths
    <3>3. QED
      BY <3>1, <3>2, Lengths
  <2> HIDE DEF a
  <2>3. QED
    BY <2>1, <2>2, Lengths, DigitsOf DEF a
<1> HIDE DEF d, s
<1>4. /\ k \in 0 .. MinutesPerHour - 1 /\ u = g * MinutesPerHour + k
      /\ g \in 0 .. HoursPerDay - 1
  BY <1>3, Lengths, DigitsOf
<1> HIDE DEF u, k, g
<1>5. g = h
  <2> DEFINE r == k * SecondsPerMinute + s
  <2>1. r \in 0 .. SecondsPerHour - 1
    BY <1>3, <1>4, Lengths, TwoDigits
  <2>2. time = SecondsPerHour * g + r
    <3>1. /\ SecondsPerMinute \in Int /\ MinutesPerHour \in Int /\ g \in Int
          /\ k \in Int /\ s \in Int
      BY <1>3, <1>4, Lengths
    <3>2. (g * MinutesPerHour + k) * SecondsPerMinute
            = (MinutesPerHour * SecondsPerMinute) * g + k * SecondsPerMinute
      BY <3>1
    <3>3. time = (MinutesPerHour * SecondsPerMinute) * g + k * SecondsPerMinute + s
      BY <1>3, <1>4, <3>2
    <3>4. /\ (MinutesPerHour * SecondsPerMinute) * g \in Int
          /\ k * SecondsPerMinute \in Int
      BY <3>1
    <3>5. QED
      BY <3>1, <3>3, <3>4, Lengths
  <2>3. g \in Int
    BY <1>4
  <2> HIDE DEF r
  <2>4. (SecondsPerHour * g + r) \div SecondsPerHour = g
    BY <2>1, <2>3, Lengths, DivisionIsUnique
  <2>5. QED
    BY <2>2, <2>4
<1> HIDE DEF h
<1>6. TimeOfDay(d) = time
  <2>1. /\ SecondsPerMinute \in Int /\ MinutesPerHour \in Int /\ g \in Int
        /\ k \in Int /\ s \in Int
    BY <1>3, <1>4, Lengths
  <2>2. (g * MinutesPerHour + k) * SecondsPerMinute
          = g * (MinutesPerHour * SecondsPerMinute) + k * SecondsPerMinute
    BY <2>1
  <2>3. time = g * SecondsPerHour + k * SecondsPerMinute + s
    BY <1>3, <1>4, <2>2, Lengths
  <2>4. QED
    BY <1>1, <1>5, <2>3 DEF TimeOfDay
<1>7. QED
  BY <1>1, <1>2, <1>3, <1>4, <1>6 DEF d

-----------------------------------------------------------------------------
(* Dates and timestamps.                                                   *)

(* The days before a month, and the day's number, are numbers.             *)
LEMMA DayNumberTyped ==
  ASSUME NEW y \in Int, NEW m \in 1 .. 12, NEW day \in Int
  PROVE  /\ MonthToDays(m, Leap(y)) \in Int /\ YearStart(y) \in Int
         /\ LengthOf(y, m) \in Nat
         /\ DayNumber(y, m, day) \in Int
<1>1. m \in {1, 2, 3, 4, 5, 6, 7, 8, 9, 10, 11, 12}
  OBVIOUS
<1>2. Leap(y) \in BOOLEAN /\ LengthOf(y, m) \in Nat
  BY <1>1, LengthOfIs
<1>3. MonthToDays(m, Leap(y)) \in Int
  BY <1>1, <1>2, MonthToDaysIs
<1>4. YearStart(y) \in Int
  BY DEF YearStart
<1>5. DayNumber(y, m, day) = YearStart(y) + MonthToDays(m, Leap(y)) + day - 1
  BY DayNumberIs
<1>6. QED
  BY <1>2, <1>3, <1>4, <1>5

(* A date and time of the calendar.                                        *)
IsDate(d) ==
  /\ d.year \in Int /\ d.month \in 1 .. 12 /\ d.day \in Nat
  /\ d.day \in 1 .. LengthOf(d.year, d.month)
  /\ d.hour \in 0 .. HoursPerDay - 1
  /\ d.minute \in 0 .. MinutesPerHour - 1
  /\ d.second \in 0 .. SecondsPerMinute - 1
  /\ d.nanos \in Subsecond

(* The seconds of a date are those of its days and of the time of day.     *)
LEMMA SecondsAre ==
  ASSUME NEW d, IsDate(d)
  PROVE  /\ DayNumber(d.year, d.month, d.day) \in Int
         /\ TimeOfDay(d) \in 0 .. SecondsPerDay - 1
         /\ SecondsSinceEpoch(d) =
              (DayNumber(d.year, d.month, d.day) - 719528) * SecondsPerDay
                + TimeOfDay(d)
         /\ SecondsSinceEpoch(d) \in Int
<1> DEFINE n == DayNumber(d.year, d.month, d.day)
           a == (n - 719528) * SecondsPerDay
           h == d.hour * SecondsPerHour
           k == d.minute * SecondsPerMinute
<1>1. n \in Int
  <2>1. d.year \in Int /\ d.month \in 1 .. 12 /\ d.day \in Int
    BY DEF IsDate
  <2>2. QED
    BY <2>1, DayNumberTyped
<1>2. TimeOfDay(d) \in 0 .. SecondsPerDay - 1
  BY TimeOfDayBound DEF IsDate
<1>3. a \in Int /\ h \in Int /\ k \in Int /\ d.second \in Int
  <2>1. d.hour \in Int /\ d.minute \in Int /\ d.second \in Int
    BY Lengths DEF IsDate
  <2> HIDE DEF n
  <2>2. QED
    BY <1>1, <2>1, Lengths
<1>4. SecondsSinceEpoch(d) = a + h + k + d.second
  BY EpochIs DEF SecondsSinceEpoch
<1>5. TimeOfDay(d) = h + k + d.second
  BY DEF TimeOfDay
<1> HIDE DEF a, h, k, n
<1>6. SecondsSinceEpoch(d) = a + TimeOfDay(d) /\ SecondsSinceEpoch(d) \in Int
  BY <1>3, <1>4, <1>5
<1>7. QED
  BY <1>1, <1>2, <1>6 DEF a, n

(* A timestamp is turned into the date of its seconds.                     *)
LEMMA DateOfTimestamp ==
  ASSUME NEW v \in Timestamp
  PROVE  LET d == DateTimeOf(v)
             t == NormalTimestamp(v)
         IN /\ d \in DateTime /\ IsDate(d) /\ d.kind = "dateTime"
            /\ SecondsSinceEpoch(d) = t.seconds /\ d.nanos = t.nanos
<1> DEFINE d == DateTimeOf(v)
           t == NormalTimestamp(v)
           days == FloorCycles(t.seconds, SecondsPerDay) - LEAPOCH_DAYS
           time == FloorRest(t.seconds, SecondsPerDay)
<1>1. t \in Timestamp /\ t.nanos \in Subsecond /\ t.seconds \in Int
  <2>1. t \in Timestamp /\ TimestampIsCanonical(t)
    BY NormalTimestampNearest
  <2>2. I64Max \in Nat
    BY TimeAssumption
  <2> HIDE DEF t
  <2>3. QED
    BY <2>1, <2>2 DEF Timestamp, I64, TimestampIsCanonical
<1>2. d = Date(days, time, t.nanos)
  BY DateTimeOfIs
<1> HIDE DEF d, t
<1>3. /\ time \in 0 .. SecondsPerDay - 1 /\ days \in Int
      /\ t.seconds = (days + 11017) * SecondsPerDay + time
  <2> DEFINE n == t.seconds
             q == n \div SecondsPerDay
             r == n % SecondsPerDay
  <2>1. q \in Int /\ r \in 0 .. SecondsPerDay - 1 /\ n = q * SecondsPerDay + r
    <3>1. n \in Int /\ SecondsPerDay \in Nat \ {0}
      BY <1>1, Lengths
    <3> HIDE DEF n
    <3>2. n = SecondsPerDay * q + r /\ q \in Int /\ r \in 0 .. SecondsPerDay - 1
      BY <3>1
    <3>3. SecondsPerDay * q = q * SecondsPerDay
      BY <3>1, <3>2
    <3>4. QED
      BY <3>2, <3>3
  <2>2. days = q - 11017 /\ time = r
    BY <1>1, FloorIs, Lengths DEF LEAPOCH_DAYS
  <2> HIDE DEF q, r, days, time
  <2>3. days + 11017 = q
    BY <2>1, <2>2
  <2>4. QED
    BY <2>1, <2>2, <2>3
<1> HIDE DEF days, time
<1>4. /\ d.year \in Int /\ d.month \in 1 .. 12 /\ d.day \in Nat
      /\ d.day \in 1 .. LengthOf(d.year, d.month)
      /\ DayNumber(d.year, d.month, d.day) = 730545 + days
  BY <1>2, <1>3, DateIsGregorian
<1>5. /\ d.hour \in 0 .. HoursPerDay - 1
      /\ d.minute \in 0 .. MinutesPerHour - 1
      /\ d.second \in 0 .. SecondsPerMinute - 1
      /\ TimeOfDay(d) = time
      /\ d.nanos = t.nanos /\ d.kind = "dateTime"
  BY <1>2, <1>3, PartsOfDay
<1>6. IsDate(d)
  BY <1>1, <1>4, <1>5 DEF IsDate
<1>7. SecondsSinceEpoch(d) = t.seconds
  <2>1. SecondsSinceEpoch(d) =
          (DayNumber(d.year, d.month, d.day) - 719528) * SecondsPerDay + time
    BY <1>5, <1>6, SecondsAre
  <2>2. 730545 + days - 719528 = days + 11017
    BY <1>3
  <2>3. QED
    BY <1>3, <1>4, <2>1, <2>2
<1>8. d \in DateTime
  <2>1. /\ d.hour \in Nat /\ d.minute \in Nat /\ d.second \in Nat
        /\ d.nanos \in Nat /\ d.month \in Nat
    <3>1. d.hour \in Nat /\ d.minute \in Nat /\ d.second \in Nat
      BY <1>5, Lengths
    <3>2. NANOS_PER_SECOND \in Nat
      BY TimeAssumption
    <3>3. d.nanos \in Nat
      BY <1>1, <1>5, <3>2 DEF Subsecond, NANOS_MAX
    <3>4. QED
      BY <1>4, <3>1, <3>3
  <2>2. d = [kind |-> d.kind, year |-> d.year, month |-> d.month,
             day |-> d.day, hour |-> d.hour, minute |-> d.minute,
             second |-> d.second, nanos |-> d.nanos]
    BY <1>2 DEF Date
  <2>3. QED
    BY <1>4, <1>5, <2>1, <2>2 DEF DateTime
<1>9. QED
  BY <1>5, <1>6, <1>7, <1>8 DEF d, t

(* A date is turned into its seconds, as far as they fit.                  *)
LEMMA TimestampOfDate ==
  ASSUME NEW d, IsDate(d)
  PROVE  DateTimeToSeconds(d) = Wrapped(SecondsSinceEpoch(d), I64Max)
<1> DEFINE start == YearToDays(d.year)
           n == start.days + MonthToDays(d.month, start.isLeap) + d.day - 1
<1>1. /\ d.year \in Int /\ d.month \in 1 .. 12 /\ d.day \in Int
  BY DEF IsDate
<1>2. start.days = YearStart(d.year) - 719528 /\ start.isLeap = Leap(d.year)
  BY <1>1, YearToDaysIs
<1>3. n = DayNumber(d.year, d.month, d.day) - 719528
  <2>1. DayNumber(d.year, d.month, d.day)
          = YearStart(d.year) + MonthToDays(d.month, Leap(d.year)) + d.day - 1
    BY <1>1, DayNumberIs
  <2>2. MonthToDays(d.month, Leap(d.year)) \in Int /\ YearStart(d.year) \in Int
    BY <1>1, DayNumberTyped
  <2> HIDE DEF start
  <2>3. QED
    BY <1>1, <1>2, <2>1, <2>2
<1>4. DateTimeToSeconds(d) =
        Wrapped(n * SecondsPerDay + d.hour * SecondsPerHour
                  + d.minute * SecondsPerMinute + d.second, I64Max)
  BY DEF DateTimeToSeconds
<1>5. SecondsSinceEpoch(d) =
        (DayNumber(d.year, d.month, d.day) - 719528) * SecondsPerDay
          + d.hour * SecondsPerHour + d.minute * SecondsPerMinute + d.second
  BY EpochIs DEF SecondsSinceEpoch
<1> HIDE DEF n, start
<1>6. QED
  BY <1>3, <1>4, <1>5

(* A month has as many days as are looked up.                              *)
LEMMA DaysInMonthIs ==
  ASSUME NEW y \in Int, NEW m \in 1 .. 12
  PROVE  DaysInMonth(y, m) = LengthOf(y, m)
<1>1. m \in {1, 2, 3, 4, 5, 6, 7, 8, 9, 10, 11, 12}
  OBVIOUS
<1>2. YearToDays(y).isLeap = Leap(y)
  BY YearToDaysIs
<1>3. DaysInMonth(y, m) =
        MonthDays[m] + (IF Leap(y) /\ m = 2 THEN 1 ELSE 0)
  BY <1>2 DEF DaysInMonth
<1>4. /\ MonthDays[1] = 31 /\ MonthDays[2] = 28 /\ MonthDays[3] = 31
      /\ MonthDays[4] = 30 /\ MonthDays[5] = 31 /\ MonthDays[6] = 30
      /\ MonthDays[7] = 31 /\ MonthDays[8] = 31 /\ MonthDays[9] = 30
      /\ MonthDays[10] = 31 /\ MonthDays[11] = 30 /\ MonthDays[12] = 31
  BY DEF MonthDays
<1>5. QED
  BY <1>1, <1>3, <1>4, LengthOfIs

-----------------------------------------------------------------------------
(* The order of dates is that of their times.                              *)

(* A month ends before the next one begins, and within its year.           *)
LEMMA MonthsInOrder ==
  ASSUME NEW y \in Int, NEW m \in 1 .. 12
  PROVE  /\ MonthToDays(m, Leap(y)) >= 0
         /\ MonthToDays(m, Leap(y)) + LengthOf(y, m)
              <= (IF Leap(y) THEN 366 ELSE 365)
         /\ \A n \in 1 .. 12 : m < n =>
              MonthToDays(m, Leap(y)) + LengthOf(y, m) <= MonthToDays(n, Leap(y))
<1> DEFINE x == IF Leap(y) THEN 1 ELSE 0
           days(k) == MonthToDays(k, Leap(y))
<1>1. /\ Leap(y) \in BOOLEAN
      /\ LengthOf(y, 1) = 31 /\ LengthOf(y, 2) = 28 + x
      /\ LengthOf(y, 3) = 31 /\ LengthOf(y, 4) = 30
      /\ LengthOf(y, 5) = 31 /\ LengthOf(y, 6) = 30
      /\ LengthOf(y, 7) = 31 /\ LengthOf(y, 8) = 31
      /\ LengthOf(y, 9) = 30 /\ LengthOf(y, 10) = 31
      /\ LengthOf(y, 11) = 30 /\ LengthOf(y, 12) = 31
  BY LengthOfIs
<1>2. /\ days(1) = 0 /\ days(2) = 31
      /\ days(3) = 59 + x /\ days(4) = 90 + x
      /\ days(5) = 120 + x /\ days(6) = 151 + x
      /\ days(7) = 181 + x /\ days(8) = 212 + x
      /\ days(9) = 243 + x /\ days(10) = 273 + x
      /\ days(11) = 304 + x /\ days(12) = 334 + x
  BY <1>1, MonthToDaysIs
<1>3. x \in {0, 1} /\ (IF Leap(y) THEN 366 ELSE 365) = 365 + x
  OBVIOUS
<1> HIDE DEF x, days
<1>4. m \in {1, 2, 3, 4, 5, 6, 7, 8, 9, 10, 11, 12}
  OBVIOUS
<1>5. days(m) >= 0 /\ days(m) + LengthOf(y, m) <= 365 + x
  BY <1>1, <1>2, <1>3, <1>4
<1>6. ASSUME NEW n \in 1 .. 12, m < n
      PROVE  days(m) + LengthOf(y, m) <= days(n)
  <2>1. n \in {1, 2, 3, 4, 5, 6, 7, 8, 9, 10, 11, 12}
    OBVIOUS
  <2>2. m <= 11 => days(m) + LengthOf(y, m) = days(m + 1)
    BY <1>1, <1>2, <1>3, <1>4
  <2>3. \A k \in 1 .. 12 : k <= n => days(k) <= days(n)
    <3>1. SUFFICES ASSUME NEW k \in 1 .. 12, k <= n PROVE days(k) <= days(n)
      OBVIOUS
    <3>2. k \in {1, 2, 3, 4, 5, 6, 7, 8, 9, 10, 11, 12}
      OBVIOUS
    <3>3. QED
      BY <1>2, <1>3, <2>1, <3>1, <3>2
  <2>4. m <= 11 /\ m + 1 \in 1 .. 12 /\ m + 1 <= n
    BY <1>6
  <2>5. QED
    BY <2>2, <2>3, <2>4
<1>7. QED
  BY <1>3, <1>5, <1>6 DEF days

(* That a date's day is before another's.                                  *)
DayLess(d, e) ==
  \/ d.year < e.year
  \/ /\ d.year = e.year
     /\ d.month < e.month \/ (d.month = e.month /\ d.day < e.day)

(* A day that is before another has a smaller number.                      *)
LEMMA DaysInOrder ==
  ASSUME NEW d, NEW e, IsDate(d), IsDate(e), DayLess(d, e)
  PROVE  DayNumber(d.year, d.month, d.day) < DayNumber(e.year, e.month, e.day)
<1> DEFINE a == MonthToDays(d.month, Leap(d.year))
           b == MonthToDays(e.month, Leap(e.year))
           s == YearStart(d.year)
           t == YearStart(e.year)
           l == LengthOf(d.year, d.month)
<1>1. /\ d.year \in Int /\ d.month \in 1 .. 12 /\ d.day \in Int
      /\ e.year \in Int /\ e.month \in 1 .. 12 /\ e.day \in Int
  BY DEF IsDate
<1>2. /\ a \in Int /\ b \in Int /\ s \in Int /\ t \in Int /\ l \in Nat
  BY <1>1, DayNumberTyped
<1>3. /\ DayNumber(d.year, d.month, d.day) = s + a + d.day - 1
      /\ DayNumber(e.year, e.month, e.day) = t + b + e.day - 1
  BY <1>1, DayNumberIs
<1>4. 1 <= d.day /\ d.day <= l /\ 1 <= e.day
  <2>1. LengthOf(e.year, e.month) \in Nat
    BY <1>1, DayNumberTyped
  <2>2. d.day \in 1 .. l /\ e.day \in 1 .. LengthOf(e.year, e.month)
    BY DEF IsDate
  <2> HIDE DEF l
  <2>3. QED
    BY <1>2, <2>1, <2>2
<1>5. b >= 0
  BY <1>1, MonthsInOrder
<1>6. CASE d.year < e.year
  <2> DEFINE x == IF Leap(d.year) THEN 366 ELSE 365
  <2>1. a + l <= x
    BY <1>1, MonthsInOrder
  <2>2. s + x <= t
    <3>1. YearStart(d.year + 1) = s + x
      BY <1>1, NextYear
    <3>2. d.year + 1 \in Int /\ d.year + 1 <= e.year
      BY <1>1, <1>6
    <3>3. YearStart(d.year + 1) <= t
      BY <1>1, <3>2, YearsGrow
    <3>4. QED
      BY <3>1, <3>3
  <2>3. x \in Int
    OBVIOUS
  <2> HIDE DEF x, a, b, s, t, l
  <2>4. QED
    BY <1>1, <1>2, <1>3, <1>4, <1>5, <2>1, <2>2, <2>3
<1>7. CASE d.year = e.year /\ d.month < e.month
  <2>1. a + l <= b /\ s = t
    BY <1>1, <1>7, MonthsInOrder
  <2> HIDE DEF a, b, s, t, l
  <2>2. QED
    BY <1>1, <1>2, <1>3, <1>4, <2>1
<1>8. CASE d.year = e.year /\ d.month = e.month /\ d.day < e.day
  <2>1. a = b /\ s = t
    BY <1>8
  <2> HIDE DEF a, b, s, t, l
  <2>2. QED
    BY <1>1, <1>2, <1>3, <1>8, <2>1
<1>9. QED
  BY <1>6, <1>7, <1>8 DEF DayLess

(* A larger first digit makes a number larger.                             *)
LEMMA FirstDigit ==
  ASSUME NEW d \in Nat \ {0}, NEW p \in Int, NEW q \in Int, p < q,
         NEW r \in 0 .. d - 1, NEW s \in Nat
  PROVE  p * d + r < q * d + s
<1>1. (p + 1) * d <= q * d
  <2>1. p + 1 \in Int /\ p + 1 <= q
    OBVIOUS
  <2>2. QED
    BY <2>1, Products
<1>2. (p + 1) * d = p * d + d /\ p * d \in Int /\ q * d \in Int
  OBVIOUS
<1>3. QED
  BY <1>1, <1>2

(* That a date's time of day is before another's.                          *)
TimeLess(d, e) ==
  \/ d.hour < e.hour
  \/ /\ d.hour = e.hour
     /\ d.minute < e.minute \/ (d.minute = e.minute /\ d.second < e.second)

(* A time of day that is before another has fewer seconds.                 *)
LEMMA TimesInOrder ==
  ASSUME NEW d, NEW e, IsDate(d), IsDate(e), TimeLess(d, e)
  PROVE  TimeOfDay(d) < TimeOfDay(e)
<1> DEFINE r == d.minute * SecondsPerMinute + d.second
           s == e.minute * SecondsPerMinute + e.second
           p == d.hour * SecondsPerHour
           q == e.hour * SecondsPerHour
<1>1. /\ d.hour \in Int /\ d.minute \in Int /\ e.hour \in Int /\ e.minute \in Int
      /\ d.second \in 0 .. SecondsPerMinute - 1 /\ e.second \in Nat
      /\ d.second \in Int
  BY Lengths DEF IsDate
<1>2. r \in 0 .. SecondsPerHour - 1 /\ s \in 0 .. SecondsPerHour - 1
  BY TimeOfDayBound DEF IsDate
<1>3. r \in Int /\ s \in Nat /\ p \in Int /\ q \in Int
  <2> HIDE DEF r, s
  <2>1. r \in Int /\ s \in Nat
    BY <1>2, Lengths
  <2>2. QED
    BY <1>1, <2>1, Lengths
<1>4. TimeOfDay(d) = p + r /\ TimeOfDay(e) = q + s
  <2> DEFINE i == d.minute * SecondsPerMinute
             j == e.minute * SecondsPerMinute
  <2>1. i \in Int /\ j \in Int
    BY <1>1, Lengths
  <2>2. /\ TimeOfDay(d) = p + i + d.second /\ r = i + d.second
        /\ TimeOfDay(e) = q + j + e.second /\ s = j + e.second
    BY DEF TimeOfDay
  <2> HIDE DEF i, j, p, q, r, s
  <2>3. QED
    BY <1>1, <1>3, <2>1, <2>2
<1>5. CASE d.hour < e.hour
  <2> HIDE DEF r, s
  <2>1. p + r < q + s
    BY <1>1, <1>2, <1>3, <1>5, FirstDigit, Lengths
  <2>2. QED
    BY <1>4, <2>1
<1>6. CASE d.hour = e.hour /\ d.minute < e.minute
  <2>1. r < s
    BY <1>1, <1>6, FirstDigit, Lengths
  <2>2. p = q
    BY <1>6
  <2> HIDE DEF p, q, r, s
  <2>3. QED
    BY <1>3, <1>4, <2>1, <2>2
<1>7. CASE d.hour = e.hour /\ d.minute = e.minute /\ d.second < e.second
  <2>1. p = q
    BY <1>7
  <2>2. r < s
    <3> DEFINE i == d.minute * SecondsPerMinute
    <3>1. i \in Int /\ r = i + d.second /\ s = i + e.second
      BY <1>1, <1>7, Lengths
    <3> HIDE DEF i, r, s
    <3>2. QED
      BY <1>1, <1>7, <3>1
  <2> HIDE DEF p, q, r, s
  <2>3. QED
    BY <1>3, <1>4, <2>1, <2>2
<1>8. QED
  BY <1>5, <1>6, <1>7 DEF TimeLess

(* That a date and time is before another, with the nanoseconds.           *)
SameDay(d, e) == d.year = e.year /\ d.month = e.month /\ d.day = e.day
SameTime(d, e) ==
  d.hour = e.hour /\ d.minute = e.minute /\ d.second = e.second
Less(d, e) ==
  \/ DayLess(d, e)
  \/ /\ SameDay(d, e)
     /\ TimeLess(d, e) \/ (SameTime(d, e) /\ d.nanos < e.nanos)

(* A date and time before another has fewer seconds, or as many and fewer  *)
(* nanoseconds.                                                            *)
LEMMA DatesInOrder ==
  ASSUME NEW d, NEW e, IsDate(d), IsDate(e), Less(d, e)
  PROVE  \/ SecondsSinceEpoch(d) < SecondsSinceEpoch(e)
         \/ SecondsSinceEpoch(d) = SecondsSinceEpoch(e) /\ d.nanos < e.nanos
<1> DEFINE m == DayNumber(d.year, d.month, d.day) - 719528
           n == DayNumber(e.year, e.month, e.day) - 719528
           s == TimeOfDay(d)
           t == TimeOfDay(e)
<1>1. /\ m \in Int /\ n \in Int
      /\ s \in 0 .. SecondsPerDay - 1 /\ t \in 0 .. SecondsPerDay - 1
      /\ SecondsSinceEpoch(d) = m * SecondsPerDay + s
      /\ SecondsSinceEpoch(e) = n * SecondsPerDay + t
  BY SecondsAre
<1>2. s \in Int /\ t \in Nat
  BY <1>1, Lengths
<1>3. CASE DayLess(d, e)
  <2>1. m < n
    <3>1. DayNumber(d.year, d.month, d.day) < DayNumber(e.year, e.month, e.day)
      BY <1>3, DaysInOrder
    <3>2. /\ DayNumber(d.year, d.month, d.day) \in Int
          /\ DayNumber(e.year, e.month, e.day) \in Int
      BY SecondsAre
    <3>3. QED
      BY <3>1, <3>2
  <2> HIDE DEF m, n, s, t
  <2>2. m * SecondsPerDay + s < n * SecondsPerDay + t
    BY <1>1, <1>2, <2>1, FirstDigit, Lengths
  <2>3. QED
    BY <1>1, <2>2
<1>4. CASE SameDay(d, e) /\ TimeLess(d, e)
  <2>1. m = n /\ s < t
    BY <1>4, TimesInOrder DEF SameDay
  <2> HIDE DEF m, n, s, t
  <2>2. m * SecondsPerDay \in Int
    BY <1>1, Lengths
  <2>3. QED
    BY <1>1, <1>2, <2>1, <2>2
<1>5. CASE SameDay(d, e) /\ SameTime(d, e) /\ d.nanos < e.nanos
  <2>1. m = n /\ s = t
    BY <1>5 DEF SameDay, SameTime, TimeOfDay
  <2>2. QED
    BY <1>1, <1>5, <2>1
<1>6. QED
  BY <1>3, <1>4, <1>5 DEF Less

(* The derived order: what is not at most a date is after it.              *)
LEMMA AtMostIs ==
  ASSUME NEW d, NEW e, IsDate(d), IsDate(e)
  PROVE  AtMost(d, e) <=> ~ Less(e, d)
<1> DEFINE f == Fields(d)
           g == Fields(e)
<1>1. /\ f[1] = d.year /\ f[2] = d.month /\ f[3] = d.day /\ f[4] = d.hour
      /\ f[5] = d.minute /\ f[6] = d.second /\ f[7] = d.nanos
      /\ g[1] = e.year /\ g[2] = e.month /\ g[3] = e.day /\ g[4] = e.hour
      /\ g[5] = e.minute /\ g[6] = e.second /\ g[7] = e.nanos
  BY DEF Fields
<1>2. f = g <=> /\ f[1] = g[1] /\ f[2] = g[2] /\ f[3] = g[3] /\ f[4] = g[4]
                /\ f[5] = g[5] /\ f[6] = g[6] /\ f[7] = g[7]
  BY DEF Fields
<1>3. NANOS_PER_SECOND \in Nat
  BY TimeAssumption
<1>4. /\ f[1] \in Int /\ f[2] \in Int /\ f[3] \in Int /\ f[4] \in Int
      /\ f[5] \in Int /\ f[6] \in Int /\ f[7] \in Int
      /\ g[1] \in Int /\ g[2] \in Int /\ g[3] \in Int /\ g[4] \in Int
      /\ g[5] \in Int /\ g[6] \in Int /\ g[7] \in Int
  <2>1. /\ d.year \in Int /\ d.month \in Int /\ d.day \in Int /\ d.hour \in Int
        /\ d.minute \in Int /\ d.second \in Int /\ d.nanos \in Int
    BY <1>3, Lengths DEF IsDate, Subsecond, NANOS_MAX
  <2>2. /\ e.year \in Int /\ e.month \in Int /\ e.day \in Int /\ e.hour \in Int
        /\ e.minute \in Int /\ e.second \in Int /\ e.nanos \in Int
    BY <1>3, Lengths DEF IsDate, Subsecond, NANOS_MAX
  <2>3. QED
    BY <1>1, <2>1, <2>2
<1>5. AtMost(d, e) <=>
        \/ f = g
        \/ \E i \in 1 .. 7 : /\ f[i] < g[i]
                             /\ \A j \in 1 .. i - 1 : f[j] = g[j]
  BY DEF AtMost
<1>6. Less(e, d) <=>
        \/ g[1] < f[1]
        \/ g[1] = f[1] /\ g[2] < f[2]
        \/ g[1] = f[1] /\ g[2] = f[2] /\ g[3] < f[3]
        \/ /\ g[1] = f[1] /\ g[2] = f[2] /\ g[3] = f[3] /\ g[4] < f[4]
        \/ /\ g[1] = f[1] /\ g[2] = f[2] /\ g[3] = f[3] /\ g[4] = f[4]
           /\ g[5] < f[5]
        \/ /\ g[1] = f[1] /\ g[2] = f[2] /\ g[3] = f[3] /\ g[4] = f[4]
           /\ g[5] = f[5] /\ g[6] < f[6]
        \/ /\ g[1] = f[1] /\ g[2] = f[2] /\ g[3] = f[3] /\ g[4] = f[4]
           /\ g[5] = f[5] /\ g[6] = f[6] /\ g[7] < f[7]
  BY <1>1 DEF Less, DayLess, TimeLess, SameDay, SameTime
<1> HIDE DEF f, g
<1>7. (\E i \in 1 .. 7 : f[i] < g[i] /\ \A j \in 1 .. i - 1 : f[j] = g[j])
        <=>
        \/ f[1] < g[1]
        \/ f[1] = g[1] /\ f[2] < g[2]
        \/ f[1] = g[1] /\ f[2] = g[2] /\ f[3] < g[3]
        \/ /\ f[1] = g[1] /\ f[2] = g[2] /\ f[3] = g[3] /\ f[4] < g[4]
        \/ /\ f[1] = g[1] /\ f[2] = g[2] /\ f[3] = g[3] /\ f[4] = g[4]
           /\ f[5] < g[5]
        \/ /\ f[1] = g[1] /\ f[2] = g[2] /\ f[3] = g[3] /\ f[4] = g[4]
           /\ f[5] = g[5] /\ f[6] < g[6]
        \/ /\ f[1] = g[1] /\ f[2] = g[2] /\ f[3] = g[3] /\ f[4] = g[4]
           /\ f[5] = g[5] /\ f[6] = g[6] /\ f[7] < g[7]
  <2> DEFINE P(i) == f[i] < g[i] /\ \A j \in 1 .. i - 1 : f[j] = g[j]
  <2>1. (\E i \in 1 .. 7 : P(i)) <=>
          P(1) \/ P(2) \/ P(3) \/ P(4) \/ P(5) \/ P(6) \/ P(7)
    <3>1. \A i \in 1 .. 7 : i \in {1, 2, 3, 4, 5, 6, 7}
      OBVIOUS
    <3>2. \A i \in {1, 2, 3, 4, 5, 6, 7} : i \in 1 .. 7
      OBVIOUS
    <3> HIDE DEF P
    <3>3. QED
      BY <3>1, <3>2
  <2>2. /\ P(1) <=> f[1] < g[1]
        /\ P(2) <=> f[1] = g[1] /\ f[2] < g[2]
        /\ P(3) <=> f[1] = g[1] /\ f[2] = g[2] /\ f[3] < g[3]
        /\ P(4) <=> f[1] = g[1] /\ f[2] = g[2] /\ f[3] = g[3] /\ f[4] < g[4]
    OBVIOUS
  <2>3. /\ P(5) <=> /\ f[1] = g[1] /\ f[2] = g[2] /\ f[3] = g[3]
                    /\ f[4] = g[4] /\ f[5] < g[5]
        /\ P(6) <=> /\ f[1] = g[1] /\ f[2] = g[2] /\ f[3] = g[3]
                    /\ f[4] = g[4] /\ f[5] = g[5] /\ f[6] < g[6]
        /\ P(7) <=> /\ f[1] = g[1] /\ f[2] = g[2] /\ f[3] = g[3]
                    /\ f[4] = g[4] /\ f[5] = g[5] /\ f[6] = g[6] /\ f[7] < g[7]
    OBVIOUS
  <2> HIDE DEF P
  <2>4. QED
    BY <2>1, <2>2, <2>3 DEF P
<1>8. QED
  BY <1>2, <1>4, <1>5, <1>6, <1>7

-----------------------------------------------------------------------------
(* What is accepted as a date.                                             *)

(* The fields a date is read from.                                         *)
HasFields(d) ==
  /\ d.year \in Int /\ d.month \in Nat /\ d.day \in Nat /\ d.hour \in Nat
  /\ d.minute \in Nat /\ d.second \in Nat /\ d.nanos \in Nat

(* A date of the calendar is one of a month's days and one of a day's      *)
(* times.                                                                  *)
LEMMA IsDateIs ==
  ASSUME NEW d, HasFields(d)
  PROVE  IsGregorian(d) <=> IsDate(d)
BY DEF HasFields, IsGregorian, IsDate

(* The ends of the dates are those of the seconds of a timestamp.          *)
LEMMA EndDatesAre ==
  /\ IsDate(DateTimeMin) /\ SecondsSinceEpoch(DateTimeMin) = -I64Max - 1
  /\ DateTimeMin.nanos = 0
  /\ IsDate(DateTimeMax) /\ SecondsSinceEpoch(DateTimeMax) = I64Max
  /\ DateTimeMax.nanos = NANOS_MAX
<1>1. /\ TimestampMin \in Timestamp /\ NormalTimestamp(TimestampMin) = TimestampMin
      /\ TimestampMax \in Timestamp /\ NormalTimestamp(TimestampMax) = TimestampMax
  BY Ends, NormalTimestampNearest
<1>2. /\ TimestampMin.seconds = -I64Max - 1 /\ TimestampMin.nanos = 0
      /\ TimestampMax.seconds = I64Max /\ TimestampMax.nanos = NANOS_MAX
  BY DEF TimestampMin, TimestampMax
<1>3. /\ IsDate(DateTimeOf(TimestampMin))
      /\ SecondsSinceEpoch(DateTimeOf(TimestampMin)) = -I64Max - 1
      /\ DateTimeOf(TimestampMin).nanos = 0
  BY <1>1, <1>2, DateOfTimestamp
<1>4. /\ IsDate(DateTimeOf(TimestampMax))
      /\ SecondsSinceEpoch(DateTimeOf(TimestampMax)) = I64Max
      /\ DateTimeOf(TimestampMax).nanos = NANOS_MAX
  BY <1>1, <1>2, DateOfTimestamp
<1>5. QED
  BY <1>3, <1>4 DEF DateTimeMin, DateTimeMax

(* Dates whose seconds differ are in the order of their seconds.           *)
LEMMA LaterIsAfter ==
  ASSUME NEW d, NEW e, IsDate(d), IsDate(e),
         SecondsSinceEpoch(d) < SecondsSinceEpoch(e)
  PROVE  AtMost(d, e) /\ ~AtMost(e, d)
<1>1. SecondsSinceEpoch(d) \in Int /\ SecondsSinceEpoch(e) \in Int
  BY SecondsAre
<1>2. ~Less(e, d)
  BY <1>1, DatesInOrder
<1>3. AtMost(d, e)
  BY <1>2, AtMostIs
<1>4. ASSUME AtMost(e, d) PROVE FALSE
  <2>1. ~Less(d, e) /\ ~Less(e, d)
    BY <1>2, <1>4, AtMostIs
  <2>2. /\ d.year = e.year /\ d.month = e.month /\ d.day = e.day
        /\ d.hour = e.hour /\ d.minute = e.minute /\ d.second = e.second
    <3>1. /\ d.year \in Int /\ d.month \in Int /\ d.day \in Int
          /\ d.hour \in Int /\ d.minute \in Int /\ d.second \in Int
          /\ e.year \in Int /\ e.month \in Int /\ e.day \in Int
          /\ e.hour \in Int /\ e.minute \in Int /\ e.second \in Int
      BY Lengths DEF IsDate
    <3>2. QED
      BY <2>1, <3>1 DEF Less, DayLess, TimeLess, SameDay, SameTime
  <2>3. SecondsSinceEpoch(d) = SecondsSinceEpoch(e)
    BY <2>2 DEF SecondsSinceEpoch
  <2>4. QED
    BY <1>1, <2>3
<1>5. QED
  BY <1>3, <1>4

(* A date is within the range of a timestamp exactly if its seconds are.   *)
LEMMA InRangeIs ==
  ASSUME NEW d, IsDate(d)
  PROVE  AtMost(DateTimeMin, d) /\ AtMost(d, DateTimeMax)
           <=> SecondsSinceEpoch(d) \in I64
<1> DEFINE s == SecondsSinceEpoch(d)
           low == SecondsSinceEpoch(DateTimeMin)
           high == SecondsSinceEpoch(DateTimeMax)
<1>1. s \in Int
  BY SecondsAre
<1>2. I64Max \in Nat /\ low = -I64Max - 1 /\ high = I64Max
  BY TimeAssumption, EndDatesAre
<1>3. d.nanos \in Nat /\ d.nanos <= NANOS_MAX /\ NANOS_MAX \in Nat
  <2>1. NANOS_MAX \in Nat
    BY TimeAssumption DEF NANOS_MAX
  <2>2. QED
    BY <2>1 DEF IsDate, Subsecond
<1>4. s < low => ~AtMost(DateTimeMin, d)
  BY EndDatesAre, LaterIsAfter
<1>5. s > high => ~AtMost(d, DateTimeMax)
  <2>1. s > high <=> high < s
    BY <1>1, <1>2
  <2>2. QED
    BY <2>1, EndDatesAre, LaterIsAfter
<1>6. s >= low => AtMost(DateTimeMin, d)
  <2>1. ASSUME s >= low, Less(d, DateTimeMin) PROVE FALSE
    <3>1. s < low \/ (s = low /\ d.nanos < DateTimeMin.nanos)
      BY <2>1, EndDatesAre, DatesInOrder
    <3> HIDE DEF s, low
    <3>2. QED
      BY <1>1, <1>2, <1>3, <2>1, <3>1, EndDatesAre
  <2>2. QED
    BY <2>1, EndDatesAre, AtMostIs
<1>7. s <= high => AtMost(d, DateTimeMax)
  <2>1. ASSUME s <= high, Less(DateTimeMax, d) PROVE FALSE
    <3>1. high < s \/ (high = s /\ DateTimeMax.nanos < d.nanos)
      BY <2>1, EndDatesAre, DatesInOrder
    <3> HIDE DEF s, high
    <3>2. QED
      BY <1>1, <1>2, <1>3, <2>1, <3>1, EndDatesAre
  <2>2. QED
    BY <2>1, EndDatesAre, AtMostIs
<1> HIDE DEF s, low, high
<1>8. s \in I64 <=> low <= s /\ s <= high
  BY <1>1, <1>2 DEF I64
<1>9. QED
  BY <1>1, <1>2, <1>4, <1>5, <1>6, <1>7, <1>8 DEF s

(* is_valid accepts the dates of the calendar that a timestamp can hold.   *)
LEMMA IsValidIs ==
  ASSUME NEW d, HasFields(d)
  PROVE  IsValid(d) <=> IsGregorian(d) /\ SecondsSinceEpoch(d) \in I64
<1>1. NANOS_PER_SECOND \in Nat
  BY TimeAssumption
<1>2. IsDate(d) <=>
        /\ d.month \in 1 .. 12
        /\ d.day \in 1 .. DaysInMonth(d.year, d.month)
        /\ d.hour < HoursPerDay /\ d.minute < MinutesPerHour
        /\ d.second < SecondsPerMinute /\ d.nanos < NANOS_PER_SECOND
  <2>1. /\ d.hour \in 0 .. HoursPerDay - 1 <=> d.hour < HoursPerDay
        /\ d.minute \in 0 .. MinutesPerHour - 1 <=> d.minute < MinutesPerHour
        /\ d.second \in 0 .. SecondsPerMinute - 1 <=> d.second < SecondsPerMinute
        /\ d.nanos \in Subsecond <=> d.nanos < NANOS_PER_SECOND
    BY <1>1, Lengths DEF HasFields, Subsecond, NANOS_MAX
  <2>2. d.month \in 1 .. 12
          => DaysInMonth(d.year, d.month) = LengthOf(d.year, d.month)
    BY DaysInMonthIs DEF HasFields
  <2>3. QED
    BY <2>1, <2>2 DEF IsDate, HasFields
<1>3. IsDate(d) => (AtMost(DateTimeMin, d) /\ AtMost(d, DateTimeMax)
                      <=> SecondsSinceEpoch(d) \in I64)
  BY InRangeIs
<1>4. IsGregorian(d) <=> IsDate(d)
  BY IsDateIs
<1>5. QED
  BY <1>2, <1>3, <1>4 DEF IsValid

(* What is accepted becomes the timestamp of its seconds.                  *)
LEMMA ValidTimestamp ==
  ASSUME NEW d, HasFields(d), IsValid(d)
  PROVE  /\ DateTimeToSeconds(d) = SecondsSinceEpoch(d)
         /\ DateTimeToSeconds(d) \in I64
         /\ d.nanos \in Subsecond
<1>1. IsDate(d) /\ SecondsSinceEpoch(d) \in I64
  BY IsValidIs, IsDateIs
<1>2. DateTimeToSeconds(d) = Wrapped(SecondsSinceEpoch(d), I64Max)
  BY <1>1, TimestampOfDate
<1>3. Wrapped(SecondsSinceEpoch(d), I64Max) = SecondsSinceEpoch(d)
  <2>1. I64Max \in Nat
    BY TimeAssumption
  <2>2. SecondsSinceEpoch(d) \in -I64Max - 1 .. I64Max
    BY <1>1 DEF I64
  <2>3. QED
    BY <2>1, <2>2, WrappedWithin
<1>4. d.nanos \in Subsecond
  BY <1>1 DEF IsDate
<1>5. QED
  BY <1>1, <1>2, <1>3, <1>4

-----------------------------------------------------------------------------
(* Dates of a behaviour.                                                   *)

(* The offset of a text, and whether its hours and minutes are accepted.   *)
OffsetOf(v) ==
  v.sign * (v.offsetHour * SecondsPerHour + v.offsetMinute * SecondsPerMinute)
OffsetOk(v) == v.offsetHour < HoursPerDay /\ v.offsetMinute < MinutesPerHour

(* The local time of a text or a date has the fields of a date.            *)
LEMMA LocalTimeTyped ==
  ASSUME NEW v \in DateTime \cup DateText
  PROVE  /\ HasFields(LocalTime(v)) /\ LocalTime(v).nanos = v.nanos
         /\ v.kind = "dateTime" => LocalTime(v) = v /\ Offset(v) = 0
         /\ v.kind = "dateText" => /\ LocalTime(v) \in DateText
                                   /\ Offset(v) = OffsetOf(v)
                                   /\ Offset(v) \in Int
<1>1. /\ SecondsPerMinute \in Nat \ {0} /\ SecondsPerHour \in Nat
  BY Lengths
<1>2. CASE v \in DateTime
  BY <1>2 DEF DateTime, LocalTime, Offset, HasFields
<1>3. CASE v \in DateText
  <2>1. v.kind = "dateText" /\ HasFields(v)
    BY <1>3 DEF DateText, HasFields
  <2>2. LocalTime(v) \in DateText /\ LocalTime(v).nanos = v.nanos
    <3>1. CASE v.second = SecondsPerMinute
      <4>1. LocalTime(v) = [v EXCEPT !.second = v.second - 1]
        BY <2>1, <3>1 DEF LocalTime
      <4>2. v.second - 1 \in Nat
        BY <1>1, <3>1
      <4>3. QED
        BY <1>3, <4>1, <4>2 DEF DateText
    <3>2. CASE v.second # SecondsPerMinute
      BY <1>3, <3>2 DEF LocalTime
    <3>3. QED
      BY <3>1, <3>2
  <2>3. Offset(v) = OffsetOf(v)
    BY <2>1 DEF Offset, OffsetOf
  <2>4. OffsetOf(v) \in Int
    <3>1. v.sign \in {1, -1} /\ v.offsetHour \in Nat /\ v.offsetMinute \in Nat
      BY <1>3 DEF DateText
    <3>2. v.offsetHour * SecondsPerHour \in Int
          /\ v.offsetMinute * SecondsPerMinute \in Int
      BY <1>1, <3>1
    <3>3. QED
      BY <3>1, <3>2 DEF OffsetOf
  <2>5. QED
    BY <2>1, <2>2, <2>3, <2>4 DEF DateText, HasFields
<1>4. QED
  BY <1>2, <1>3

(* A timestamp of whole seconds and a part of one is a canonical one, for  *)
(* the time of these.                                                      *)
LEMMA TimestampMeans ==
  ASSUME NEW s \in I64, NEW n \in Subsecond, NEW t,
         t = [kind |-> "timestamp", seconds |-> s, nanos |-> n]
  PROVE  /\ t \in Timestamp
         /\ Meaning(t) = s * NANOS_PER_SECOND + n
<1>1. /\ I32Max \in Nat /\ NANOS_PER_SECOND \in Nat /\ NANOS_PER_SECOND <= I32Max
  BY TimeAssumption
<1>2. t \in Timestamp
  BY <1>1 DEF Timestamp, Subsecond, NANOS_MAX, I32
<1>3. TimestampIsCanonical(t)
  BY DEF TimestampIsCanonical
<1>4. Meaning(t) = Total(t)
  <2>1. t.kind = "timestamp"
    OBVIOUS
  <2>2. QED
    BY <1>2, <1>3, <2>1, CanonicalMeans, Meanings
<1>5. QED
  BY <1>2, <1>4 DEF Total

(* A date is refused, or is a timestamp of its time.                       *)
LEMMA DateAccepted ==
  ASSUME CalendarTypeOK, TimestampFromDateTime
  PROVE  LET s == SecondsSinceEpoch(LocalTime(held)) IN
         /\ held.kind = "dateTime"
         /\ held' # Refused <=> IsGregorian(LocalTime(held)) /\ s \in I64
         /\ Offset(held) = 0
         /\ s \in I64 => s - Offset(held) \in I64
         /\ held' # Refused => /\ held' \in Timestamp
                               /\ Meaning(held') = Meaning(held)
<1> DEFINE s == SecondsSinceEpoch(LocalTime(held))
<1>1. held \in DateTime /\ held.kind = "dateTime"
  BY KindsOfValues DEF CalendarTypeOK, TimestampFromDateTime
<1>2. /\ HasFields(held) /\ LocalTime(held) = held /\ Offset(held) = 0
  BY <1>1, LocalTimeTyped
<1>3. held' = IF IsValid(held) THEN TimestampOf(held) ELSE Refused
  BY DEF TimestampFromDateTime
<1>4. TimestampOf(held) # Refused
  BY DEF TimestampOf, Refused
<1>5. IsValid(held) <=> IsGregorian(held) /\ SecondsSinceEpoch(held) \in I64
  BY <1>2, IsValidIs
<1>6. s \in I64 => s \in Int /\ s - Offset(held) = s
  BY <1>2, TimeAssumption DEF I64
<1>7. ASSUME held' # Refused
      PROVE  held' \in Timestamp /\ Meaning(held') = Meaning(held)
  <2>1. IsValid(held) /\ held' = TimestampOf(held)
    BY <1>3, <1>7
  <2>2. /\ DateTimeToSeconds(held) = s /\ s \in I64 /\ held.nanos \in Subsecond
    BY <1>2, <2>1, ValidTimestamp
  <2>3. held' = [kind |-> "timestamp", seconds |-> s, nanos |-> held.nanos]
    BY <2>1, <2>2 DEF TimestampOf
  <2> HIDE DEF s
  <2>4. held' \in Timestamp /\ Meaning(held') = s * NANOS_PER_SECOND + held.nanos
    BY <2>2, <2>3, TimestampMeans
  <2>5. Meaning(held) = (s - Offset(held)) * NANOS_PER_SECOND + held.nanos
    BY <1>1, Meanings DEF DateKinds, s
  <2>6. QED
    BY <1>6, <2>2, <2>4, <2>5
<1>8. QED
  BY <1>1, <1>2, <1>3, <1>4, <1>5, <1>6, <1>7

(* A text is refused, or is a timestamp of its time less its offset.       *)
LEMMA TextAccepted ==
  ASSUME CalendarTypeOK, ParseTimestamp
  PROVE  LET s == SecondsSinceEpoch(LocalTime(held)) IN
         /\ held.kind = "dateText"
         /\ held' # Refused <=> /\ IsGregorian(LocalTime(held)) /\ s \in I64
                                /\ s - Offset(held) \in I64
                                /\ OffsetOk(held)
         /\ held' # Refused => /\ held' \in Timestamp
                               /\ Meaning(held') = Meaning(held)
<1> DEFINE d == LocalTime(held)
           s == SecondsSinceEpoch(d)
           offset == Offset(held)
           t == [TimestampOf(d) EXCEPT !.seconds = @ - offset]
<1>1. held \in DateText /\ held.kind = "dateText"
  BY KindsOfValues DEF CalendarTypeOK, ParseTimestamp
<1>2. /\ HasFields(d) /\ d.nanos = held.nanos /\ offset = OffsetOf(held)
      /\ offset \in Int
  BY <1>1, LocalTimeTyped
<1>3. held' = IF /\ OffsetOk(held) /\ IsValid(d)
                 /\ DateTimeToSeconds(d) - offset \in I64
              THEN t ELSE Refused
  <2>1. d = [held EXCEPT !.second =
               IF held.second = SecondsPerMinute THEN held.second - 1
               ELSE held.second]
    <3>1. CASE held.second = SecondsPerMinute
      BY <1>1, <3>1 DEF LocalTime
    <3>2. CASE held.second # SecondsPerMinute
      <4>1. d = held
        BY <3>2 DEF LocalTime
      <4>2. [held EXCEPT !.second = held.second] = held
        BY <1>1 DEF DateText
      <4>3. QED
        BY <3>2, <4>1, <4>2
    <3>3. QED
      BY <3>1, <3>2
  <2> HIDE DEF d
  <2>2. offset = held.sign * (held.offsetHour * SecondsPerHour
                                + held.offsetMinute * SecondsPerMinute)
    BY <1>2 DEF OffsetOf
  <2> HIDE DEF offset
  <2>3. QED
    BY <2>1, <2>2 DEF ParseTimestamp, OffsetOk
<1>4. t = [kind |-> "timestamp", seconds |-> DateTimeToSeconds(d) - offset,
           nanos |-> d.nanos]
  BY DEF TimestampOf
<1> HIDE DEF d, t, offset
<1>5. t # Refused
  <2>1. t.kind = "timestamp"
    BY <1>4
  <2>2. QED
    BY <2>1 DEF Refused
<1>6. IsValid(d) <=> IsGregorian(d) /\ s \in I64
  BY <1>2, IsValidIs
<1>7. IsValid(d) => DateTimeToSeconds(d) = s /\ d.nanos \in Subsecond
  BY <1>2, ValidTimestamp
<1> HIDE DEF s
<1>8. ASSUME held' # Refused
      PROVE  held' \in Timestamp /\ Meaning(held') = Meaning(held)
  <2>1. held' = t /\ IsValid(d) /\ s - offset \in I64 /\ d.nanos \in Subsecond
    BY <1>3, <1>7, <1>8
  <2>2. t = [kind |-> "timestamp", seconds |-> s - offset, nanos |-> d.nanos]
    BY <1>4, <1>7, <2>1
  <2>3. t \in Timestamp /\ Meaning(t) = (s - offset) * NANOS_PER_SECOND + d.nanos
    BY <2>1, <2>2, TimestampMeans
  <2>4. Meaning(held) = (s - offset) * NANOS_PER_SECOND + held.nanos
    BY <1>1, Meanings DEF DateKinds, s, d, offset
  <2>5. QED
    BY <1>2, <2>1, <2>3, <2>4
<1>9. held' # Refused <=> IsGregorian(d) /\ s \in I64 /\ s - offset \in I64
                          /\ OffsetOk(held)
  BY <1>3, <1>5, <1>6, <1>7
<1>10. QED
  BY <1>1, <1>8, <1>9 DEF d, s, offset

(* A timestamp is turned into a date of its time.                          *)
LEMMA DateMade ==
  ASSUME CalendarTypeOK, DateTimeFromTimestamp
  PROVE  /\ held.kind = "timestamp" /\ held'.kind = "dateTime"
         /\ held' \in DateTime /\ IsGregorian(held')
         /\ Meaning(held') = Meaning(held)
<1> DEFINE t == NormalTimestamp(held)
<1>1. held \in Timestamp /\ held.kind = "timestamp" /\ held' = DateTimeOf(held)
  BY KindsOfValues DEF CalendarTypeOK, DateTimeFromTimestamp
<1>2. /\ held' \in DateTime /\ IsDate(held') /\ held'.kind = "dateTime"
      /\ SecondsSinceEpoch(held') = t.seconds /\ held'.nanos = t.nanos
  BY <1>1, DateOfTimestamp
<1>3. /\ LocalTime(held') = held' /\ Offset(held') = 0 /\ HasFields(held')
  BY <1>2, LocalTimeTyped
<1>4. IsGregorian(held')
  BY <1>2, <1>3, IsDateIs
<1>5. Meaning(held') =
        (SecondsSinceEpoch(held') - 0) * NANOS_PER_SECOND + held'.nanos
  BY <1>2, <1>3, Meanings DEF DateKinds
<1>6. Meaning(held) = Total(t)
  BY <1>1, NormalMeans
<1>7. SecondsSinceEpoch(held') - 0 = SecondsSinceEpoch(held')
  BY <1>2, SecondsAre
<1>8. Total(t) = t.seconds * NANOS_PER_SECOND + t.nanos
  BY DEF Total
<1> HIDE DEF t
<1>9. QED
  BY <1>1, <1>2, <1>4, <1>5, <1>6, <1>7, <1>8

(* No date is converted by the actions of durations and timestamps, and    *)
(* none of these makes one.                                                *)
LEMMA TimeApart ==
  ASSUME CalendarTypeOK, Next
  PROVE  /\ held.kind \notin DateKinds /\ TypeOK /\ TypeOK'
         /\ held'.kind # "dateTime"
<1>1. held.kind \notin DateKinds /\ held # Refused /\ held # Panicked
  BY DEF Next, NormalizeDuration, NormalizeTimestamp, TryNormalize, Negate,
         DurationFromStd, StdFromDuration, TimestampFromSystem,
         SystemFromTimestamp, ParseDuration, DateKinds, Refused, Panicked
<1>2. TypeOK
  BY <1>1 DEF CalendarTypeOK, TypeOK, DateTime, DateText, DateKinds
<1>3. TypeOK'
  BY <1>2, NextTyped
<1>4. held'.kind # "dateTime"
  BY <1>3 DEF TypeOK, Value, Duration, Timestamp, StdDuration, SystemTime,
              DurationText, Refused, Panicked
<1>5. QED
  BY <1>1, <1>2, <1>3, <1>4

-----------------------------------------------------------------------------
(* Behaviours.                                                             *)

(* Every conversion stays within the types.                                *)
LEMMA CalendarNextTyped ==
  CalendarTypeOK /\ [CalendarNext]_held => CalendarTypeOK'
<1> SUFFICES ASSUME CalendarTypeOK, [CalendarNext]_held PROVE CalendarTypeOK'
  OBVIOUS
<1>1. CASE Next
  BY <1>1, TimeApart DEF TypeOK, CalendarTypeOK
<1>2. CASE DateTimeFromTimestamp
  BY <1>2, DateMade DEF CalendarTypeOK
<1>3. CASE TimestampFromDateTime
  <2>1. held' \in Timestamp \cup {Refused}
    BY <1>3, DateAccepted
  <2>2. QED
    BY <2>1 DEF CalendarTypeOK, Value
<1>4. CASE ParseTimestamp
  <2>1. held' \in Timestamp \cup {Refused}
    BY <1>4, TextAccepted
  <2>2. QED
    BY <2>1 DEF CalendarTypeOK, Value
<1>5. CASE UNCHANGED held
  BY <1>5 DEF CalendarTypeOK
<1>6. QED
  BY <1>1, <1>2, <1>3, <1>4, <1>5 DEF CalendarNext

(* Whatever a program converts, through dates and text too, the value it   *)
(* holds is one of its type, with the fields of a date or a timestamp that *)
(* fit (bilrost-types/src/lib.rs and datetime.rs).                         *)
THEOREM CalendarTyped == CalendarSpec => []CalendarTypeOK
<1>1. CalendarInit => CalendarTypeOK
  BY TimeAssumption, CalendarAssumption DEF CalendarInit, Init, CalendarTypeOK
<1>2. CalendarTypeOK /\ [CalendarNext]_held => CalendarTypeOK'
  BY CalendarNextTyped
<1>3. QED
  BY <1>1, <1>2, PTL DEF CalendarSpec

(* Each conversion keeps the time, or gives its negative.                  *)
LEMMA CalendarStepKeeps ==
  ASSUME CalendarTypeOK, CalendarNext, held.kind \in Converted,
         held'.kind \in Converted
  PROVE  Kept
<1>1. held' # Refused
  BY DEF Refused, Converted, DateKinds
<1>2. CASE Next
  BY <1>2, TimeKeeps
<1>3. CASE DateTimeFromTimestamp
  BY <1>3, DateMade DEF Kept
<1>4. CASE TimestampFromDateTime
  BY <1>1, <1>4, DateAccepted DEF Kept
<1>5. CASE ParseTimestamp
  BY <1>1, <1>5, TextAccepted DEF Kept
<1>6. QED
  BY <1>2, <1>3, <1>4, <1>5 DEF CalendarNext

(* No conversion changes the time a value stands for, for timestamps of    *)
(* any width and days of any length: in particular the date of a timestamp *)
(* is its date in the proleptic Gregorian calendar, and the timestamp of a *)
(* date the count of its seconds, over all of the years that an i64 of     *)
(* seconds reaches (datetime.rs:97-179 and 487-583).                       *)
THEOREM CalendarKeepsTime == CalendarSpec => ConversionsKeepTime
<1> DEFINE Keep ==
      held.kind \in Converted /\ held'.kind \in Converted =>
        \/ Meaning(held') = Meaning(held)
        \/ /\ Negate
           /\ \/ Total(held') = -Total(held)
              \/ held.seconds = -I64Max - 1 \/ held.nanos = -I32Max - 1
<1>1. ASSUME CalendarTypeOK, [CalendarNext]_held PROVE [Keep]_held
  BY <1>1, CalendarStepKeeps DEF Kept
<1>2. QED
  BY <1>1, CalendarTyped, PTL DEF CalendarSpec, ConversionsKeepTime

(* What a step accepts, of dates, of texts and of timestamps.              *)
Accepted ==
  /\ held.kind \in DateKinds =>
       ((held' # Refused) <=>
          /\ IsGregorian(LocalTime(held))
          /\ SecondsSinceEpoch(LocalTime(held)) \in I64
          /\ SecondsSinceEpoch(LocalTime(held)) - Offset(held) \in I64
          /\ held.kind = "dateText" =>
               /\ held.offsetHour < HoursPerDay
               /\ held.offsetMinute < MinutesPerHour)
  /\ held.kind = "timestamp" /\ held'.kind = "dateTime" =>
       IsGregorian(held')

(* Each conversion accepts what it should, and makes dates.                *)
LEMMA CalendarStepAccepts ==
  ASSUME CalendarTypeOK, CalendarNext PROVE Accepted
<1>1. CASE Next
  BY <1>1, TimeApart DEF Accepted
<1>2. CASE DateTimeFromTimestamp
  <2>1. held.kind \notin DateKinds
    BY <1>2, DateMade DEF DateKinds
  <2>2. QED
    BY <1>2, <2>1, DateMade DEF Accepted
<1>3. CASE TimestampFromDateTime
  BY <1>3, DateAccepted DEF Accepted
<1>4. CASE ParseTimestamp
  BY <1>4, TextAccepted DEF OffsetOk, Accepted
<1>5. QED
  BY <1>1, <1>2, <1>3, <1>4 DEF CalendarNext

(* A date or text is refused exactly if the calendar has no such date or   *)
(* its seconds do not fit a timestamp's, before or after the offset is     *)
(* taken off; and every timestamp's date is one of the calendar            *)
(* (datetime.rs:55-63, 176 and 487-538).                                   *)
THEOREM CalendarAcceptsDates == CalendarSpec => AcceptsExactlyDates
<1> DEFINE Accept ==
      /\ held.kind \in DateKinds =>
           ((held' # Refused) <=>
              /\ IsGregorian(LocalTime(held))
              /\ SecondsSinceEpoch(LocalTime(held)) \in I64
              /\ SecondsSinceEpoch(LocalTime(held)) - Offset(held) \in I64
              /\ held.kind = "dateText" =>
                   /\ held.offsetHour < HoursPerDay
                   /\ held.offsetMinute < MinutesPerHour)
      /\ held.kind = "timestamp" /\ held'.kind = "dateTime" =>
           IsGregorian(held')
<1>1. ASSUME CalendarTypeOK, [CalendarNext]_held PROVE [Accept]_held
  BY <1>1, CalendarStepAccepts DEF Accepted
<1>2. QED
  BY <1>1, CalendarTyped, PTL DEF CalendarSpec, AcceptsExactlyDates

-----------------------------------------------------------------------------
(* The types of other libraries: numbers and lists of numbers on the wire. *)

(* What the assumptions say of the ranges.                                 *)
LEMMA Widths ==
  /\ NANOS_PER_SECOND \in Nat \ {0, 1} /\ I32Max \in Nat /\ I64Max \in Nat
  /\ I8Max \in Nat /\ I8Max <= I32Max /\ 2 * NANOS_PER_SECOND <= I32Max
  /\ I32Max <= I64Max
  /\ HoursPerDay \in Nat \ {0} /\ MinutesPerHour \in Nat \ {0}
  /\ SecondsPerMinute \in Nat \ {0} /\ HoursPerDay <= I8Max
  /\ MinutesPerHour <= I8Max /\ SecondsPerMinute <= I8Max
  /\ HoursPerDay <= TimeOffsetHours /\ TimeOffsetHours <= I8Max
  /\ TimeOffsetHours \in Nat /\ ChronoDeltaMax \in Nat /\ 365 <= I32Max
  /\ I8 \subseteq Int /\ I32 \subseteq Int /\ I64 \subseteq Int
  /\ U32 \subseteq Nat /\ U64 \subseteq Nat
  /\ TimeYears \subseteq I32 /\ ChronoYears \subseteq I32
<1>1. I32Max \in Nat /\ I64Max \in Nat /\ I8Max \in Nat
  BY TimeAssumption, ForeignTimeAssumption
<1>2. /\ I8 \subseteq Int /\ I32 \subseteq Int /\ I64 \subseteq Int
      /\ U32 \subseteq Nat /\ U64 \subseteq Nat
  BY <1>1 DEF I8, I32, I64, U32, U64
<1>3. HoursPerDay \in Nat \ {0} /\ TimeOffsetHours \in Nat
  BY CalendarAssumption, ForeignTimeAssumption
<1>4. HoursPerDay <= I8Max
  BY <1>1, <1>3, ForeignTimeAssumption
<1>5. QED
  BY <1>1, <1>2, <1>3, <1>4, TimeAssumption, CalendarAssumption,
     ForeignTimeAssumption

(* Zigzag pairs the integers with the natural numbers, 0 with 0.           *)
LEMMA ZigzagReadBack ==
  ASSUME NEW n \in Int
  PROVE  /\ Zigzag(n) \in Nat /\ Unzigzag(Zigzag(n)) = n
         /\ Zigzag(n) = 0 <=> n = 0
<1>1. CASE n >= 0
  <2>1. Zigzag(n) = 2 * n /\ (2 * n) % 2 = 0 /\ (2 * n) \div 2 = n
    BY <1>1 DEF Zigzag
  <2>2. QED
    BY <1>1, <2>1 DEF Unzigzag
<1>2. CASE n < 0
  <2>1. Zigzag(n) = -2 * n - 1
    BY <1>2 DEF Zigzag
  <2>2. (-2 * n - 1) % 2 = 1 /\ (-2 * n - 1) \div 2 = -n - 1
    BY <1>2
  <2>3. QED
    BY <1>2, <2>1, <2>2 DEF Unzigzag
<1>3. QED
  BY <1>1, <1>2

(* And back.                                                               *)
LEMMA UnzigzagWritesBack ==
  ASSUME NEW u \in Nat
  PROVE  /\ Unzigzag(u) \in Int /\ Zigzag(Unzigzag(u)) = u
         /\ Unzigzag(u) = 0 <=> u = 0
<1>1. u = 2 * (u \div 2) + (u % 2) /\ u % 2 \in 0 .. 1 /\ u \div 2 \in Nat
  OBVIOUS
<1>2. CASE u % 2 = 0
  <2>1. Unzigzag(u) = u \div 2
    BY <1>2 DEF Unzigzag
  <2>2. QED
    BY <1>1, <1>2, <2>1 DEF Zigzag
<1>3. CASE u % 2 = 1
  <2>1. Unzigzag(u) = -(u \div 2) - 1
    BY <1>3 DEF Unzigzag
  <2>2. QED
    BY <1>1, <1>3, <2>1 DEF Zigzag
<1>4. QED
  BY <1>1, <1>2, <1>3

(* A signed integer is a varint no greater than the unsigned ones of its   *)
(* width.                                                                  *)
LEMMA ZigzagInRange ==
  ASSUME NEW n \in Int, NEW max \in Nat
  PROVE  n \in -max - 1 .. max <=> Zigzag(n) \in 0 .. 2 * max + 1
BY DEF Zigzag

-----------------------------------------------------------------------------
(* Lists.                                                                  *)

(* A number of a list as a varint, and back.                               *)
ToVarint(kind, n) == IF Signed(kind) THEN Zigzag(n) ELSE n
OfVarint(kind, u) == IF Signed(kind) THEN Unzigzag(u) ELSE u

Items(kind) == ListTypes[kind].items
Length(kind) == ListTypes[kind].length
Parts(kind) == [1 .. Length(kind) -> Items(kind)]

ListKinds ==
  {"NaiveDate", "Date", "NaiveTime", "Time", "NaiveDateTime",
   "PrimitiveDateTime", "std", "system"}

(* The kinds that are encoded as lists.                                    *)
LEMMA ListTypesAre ==
  /\ DOMAIN ListTypes = ListKinds
  /\ Length("NaiveDate") = 2 /\ Items("NaiveDate") = I32
  /\ Length("Date") = 2 /\ Items("Date") = I32
  /\ Length("NaiveTime") = 4 /\ Items("NaiveTime") = U32
  /\ Length("Time") = 4 /\ Items("Time") = U32
  /\ Length("NaiveDateTime") = 6 /\ Items("NaiveDateTime") = I32
  /\ Length("PrimitiveDateTime") = 6 /\ Items("PrimitiveDateTime") = I32
  /\ Length("std") = 2 /\ Items("std") = U64
  /\ Length("system") = 3 /\ Items("system") = U64
BY DEF ListTypes, ListKinds, Length, Items

(* Signed integers are not the unsigned ones.                              *)
LEMMA SignedIs ==
  ASSUME NEW kind \in ListKinds
  PROVE  /\ Length(kind) \in Nat /\ Items(kind) \subseteq Int /\ 0 \in Items(kind)
         /\ Signed(kind) \in BOOLEAN
         /\ ~ Signed(kind) => Items(kind) \subseteq Nat
<1>1. -1 \in I32 /\ -1 \notin U32 /\ -1 \notin U64
  BY Widths DEF I32, U32, U64
<1>2. 0 \in I32 /\ 0 \in U32 /\ 0 \in U64
  BY Widths DEF I32, U32, U64
<1>3. Signed(kind) <=> Items(kind) = I32
  BY DEF Signed, Items
<1>4. Items(kind) \in {I32, U32, U64} /\ Length(kind) \in {2, 3, 4, 6}
  BY ListTypesAre DEF ListKinds
<1>5. Items(kind) # I32 => Items(kind) \subseteq Nat
  BY <1>4, Widths
<1>6. Items(kind) \subseteq Int /\ 0 \in Items(kind)
  <2>1. U32 \subseteq Int /\ U64 \subseteq Int /\ I32 \subseteq Int
    BY Widths
  <2>2. QED
    BY <1>2, <1>4, <2>1
<1>7. Signed(kind) \in BOOLEAN
  BY DEF Signed
<1>8. QED
  BY <1>3, <1>4, <1>5, <1>6, <1>7

(* Numbers of a list are read back, and so are those that were read.       *)
LEMMA VarintsReadBack ==
  ASSUME NEW kind \in ListKinds
  PROVE  /\ \A n \in Items(kind) :
              /\ ToVarint(kind, n) \in Nat /\ OfVarint(kind, ToVarint(kind, n)) = n
              /\ ToVarint(kind, n) = 0 <=> n = 0
         /\ \A u \in Nat :
              /\ OfVarint(kind, u) \in Int /\ ToVarint(kind, OfVarint(kind, u)) = u
              /\ OfVarint(kind, u) = 0 <=> u = 0
BY SignedIs, ZigzagReadBack, UnzigzagWritesBack DEF ToVarint, OfVarint

(* Where the zeros at the end of n numbers begin.                          *)
CutAt(arr, n, k) ==
  /\ k \in 0 .. n
  /\ k > 0 => arr[k] # 0
  /\ \A i \in k + 1 .. n : arr[i] = 0

(* A list without its zeros at the end is a part of it.                    *)
LEMMA SuffixCut ==
  ASSUME NEW n \in Nat, NEW arr \in [1 .. n -> Int]
  PROVE  \E k \in 0 .. n :
           WithoutEmptySuffix(arr) = SubSeq(arr, 1, k) /\ CutAt(arr, n, k)
<1> DEFINE kept == {m \in 0 .. Len(arr) : m = 0 \/ arr[m] # 0}
           gaps == {n - m : m \in kept}
<1>1. arr \in Seq(Int) /\ Len(arr) = n
  BY FunctionIsSeq
<1>2. 0 \in kept /\ gaps \in SUBSET Nat /\ gaps # {}
  BY <1>1
<1>3. PICK g \in gaps : \A h \in gaps : g <= h
  BY <1>2, LeastNatural
<1>4. PICK k \in kept : g = n - k
  BY <1>3
<1>5. ASSUME NEW j \in kept PROVE k >= j
  <2>1. n - k <= n - j
    BY <1>3, <1>4
  <2>2. k \in Nat /\ j \in Nat
    BY <1>1
  <2>3. QED
    BY <2>1, <2>2
<1>6. \A l \in kept : (\A j \in kept : l >= j) => l = k
  <2>1. SUFFICES ASSUME NEW l \in kept, \A j \in kept : l >= j PROVE l = k
    OBVIOUS
  <2>2. l >= k /\ k >= l /\ l \in Nat /\ k \in Nat
    BY <1>1, <1>5, <2>1
  <2>3. QED
    BY <2>2
<1>7. (CHOOSE l \in kept : \A j \in kept : l >= j) = k
  BY <1>5, <1>6
<1>8. WithoutEmptySuffix(arr) = SubSeq(arr, 1, k)
  BY <1>7 DEF WithoutEmptySuffix
<1>9. k \in 0 .. n /\ (k > 0 => arr[k] # 0)
  BY <1>1, <1>4
<1>10. ASSUME NEW i \in k + 1 .. n PROVE arr[i] = 0
  <2>1. ~ (k >= i) /\ i \in 0 .. Len(arr)
    BY <1>1, <1>9
  <2>2. QED
    BY <1>5, <2>1
<1>11. QED
  BY <1>8, <1>9, <1>10 DEF CutAt

(* The part that is kept is the list that begins so, has no zero at its    *)
(* end and is filled up with zeros.                                        *)
LEMMA CutIsUnique ==
  ASSUME NEW n \in Nat, NEW arr \in [1 .. n -> Int], NEW k \in 0 .. n,
         CutAt(arr, n, k)
  PROVE  /\ WithoutEmptySuffix(arr) \in Seq(Int)
         /\ Len(WithoutEmptySuffix(arr)) = k
         /\ \A i \in 1 .. k : WithoutEmptySuffix(arr)[i] = arr[i]
<1>1. PICK m \in 0 .. n :
        WithoutEmptySuffix(arr) = SubSeq(arr, 1, m) /\ CutAt(arr, n, m)
  BY SuffixCut
<1>2. m = k
  <2>1. ~ (m > k)
    BY <1>1 DEF CutAt
  <2>2. ~ (k > m)
    BY <1>1 DEF CutAt
  <2>3. QED
    BY <2>1, <2>2
<1>3. arr \in Seq(Int) /\ Len(arr) = n
  BY FunctionIsSeq
<1>4. /\ SubSeq(arr, 1, k) \in Seq(Int)
      /\ Len(SubSeq(arr, 1, k)) = k
      /\ \A i \in 1 .. k : SubSeq(arr, 1, k)[i] = arr[i]
  <2>1. CASE k = 0
    BY <1>3, <2>1, SubSeqProperties
  <2>2. CASE k > 0
    BY <1>3, <2>2, SubSeqProperties
  <2>3. QED
    BY <2>1, <2>2
<1>5. QED
  BY <1>1, <1>2, <1>4

(* The encoding of a list, in the same words.                              *)
LEMMA EncodedListIs ==
  ASSUME NEW kind \in ListKinds, NEW n \in Nat, NEW arr \in [1 .. n -> Int],
         NEW k \in 0 .. n, CutAt(arr, n, k)
  PROVE  EncodeList(kind, arr) = [i \in 1 .. k |-> ToVarint(kind, arr[i])]
<1> DEFINE items == WithoutEmptySuffix(arr)
<1>1. /\ Len(items) = k
      /\ \A i \in 1 .. k : items[i] = arr[i]
  BY CutIsUnique
<1>2. EncodeList(kind, arr) = [i \in 1 .. Len(items) |-> ToVarint(kind, items[i])]
  BY DEF EncodeList, ToVarint
<1> HIDE DEF items
<1>3. QED
  BY <1>1, <1>2

(* A list filled up with zeros.                                            *)
Padded(arr, n, length) == [i \in 1 .. length |-> IF i <= n THEN arr[i] ELSE 0]

(* A list that is encoded is read into the array of its numbers and zeros  *)
(* behind them, by its own type and by any with the same integers and room *)
(* for as many; and that array has the same encoding.                      *)
LEMMA ListReadBack ==
  ASSUME NEW kind \in ListKinds, NEW other \in ListKinds, NEW n \in Nat,
         Signed(kind) = Signed(other), n <= Length(kind),
         NEW arr \in [1 .. n -> Items(kind)]
  PROVE  LET padded == Padded(arr, n, Length(kind))
         IN  /\ EncodeList(other, arr) \in Seq(Nat)
             /\ DecodeList(kind, EncodeList(other, arr)) = Ok(padded)
             /\ EncodeList(kind, padded) = EncodeList(other, arr)
             /\ padded \in Parts(kind)
<1> DEFINE padded == Padded(arr, n, Length(kind))
           list == EncodeList(other, arr)
<1>1. /\ Length(kind) \in Nat /\ Items(kind) \subseteq Int /\ 0 \in Items(kind)
      /\ arr \in [1 .. n -> Int] /\ padded \in Parts(kind)
      /\ padded \in [1 .. Length(kind) -> Int]
  <2>1. Length(kind) \in Nat /\ Items(kind) \subseteq Int /\ 0 \in Items(kind)
    BY SignedIs
  <2>2. QED
    BY <2>1 DEF Padded, Parts
<1>2. PICK k \in 0 .. n : CutAt(arr, n, k)
  BY <1>1, SuffixCut
<1>3. list = [i \in 1 .. k |-> ToVarint(kind, arr[i])]
  <2>1. list = [i \in 1 .. k |-> ToVarint(other, arr[i])]
    BY <1>1, <1>2, EncodedListIs
  <2>2. QED
    BY <2>1 DEF ToVarint
<1>4. k \in 0 .. Length(kind) /\ CutAt(padded, Length(kind), k)
  BY <1>1, <1>2 DEF Padded, CutAt
<1>5. EncodeList(kind, padded) = [i \in 1 .. k |-> ToVarint(kind, padded[i])]
  BY <1>1, <1>4, EncodedListIs, ZenonT(60)
<1>6. EncodeList(kind, padded) = list
  <2>1. \A i \in 1 .. k : padded[i] = arr[i]
    BY <1>1, <1>4 DEF Padded
  <2> HIDE DEF padded, list
  <2>2. QED
    BY <1>3, <1>5, <2>1
<1>7. /\ \A i \in 1 .. k : arr[i] \in Items(kind) /\ ToVarint(kind, arr[i]) \in Nat
      /\ \A i \in 1 .. k : OfVarint(kind, ToVarint(kind, arr[i])) = arr[i]
  <2>1. \A i \in 1 .. k : arr[i] \in Items(kind)
    BY <1>2
  <2> HIDE DEF padded, list
  <2>2. QED
    BY <2>1, VarintsReadBack
<1>8. list \in [1 .. k -> Nat]
  BY <1>3, <1>7
<1>9. list \in Seq(Nat) /\ Len(list) = k
  BY <1>8, FunctionIsSeq
<1>10. DecodeList(kind, list) = Ok(padded)
  <2> DEFINE items == [i \in 1 .. Len(list) |->
                         IF Signed(kind) THEN Unzigzag(list[i]) ELSE list[i]]
             outOfRange == {i \in 1 .. Len(list) :
                              items[i] \notin ListTypes[kind].items}
  <2>1. items = [i \in 1 .. k |-> arr[i]]
    BY <1>3, <1>7, <1>9 DEF OfVarint
  <2>2. outOfRange = {}
    BY <1>7, <1>9, <2>1 DEF Items
  <2>3. Len(list) <= ListTypes[kind].length
    BY <1>1, <1>4, <1>9 DEF Length
  <2>4. DecodeList(kind, list) =
          Ok([i \in 1 .. ListTypes[kind].length |->
                IF i <= Len(list) THEN items[i] ELSE 0])
    <3>1. ~ (Len(list) > ListTypes[kind].length)
      BY <1>1, <1>9, <2>3 DEF Length
    <3>2. ~ \E i \in outOfRange : i <= ListTypes[kind].length + 1
      BY <2>2
    <3> HIDE DEF list
    <3>3. QED
      BY <3>1, <3>2 DEF DecodeList
  <2>5. [i \in 1 .. ListTypes[kind].length |->
           IF i <= Len(list) THEN items[i] ELSE 0] = padded
    <3>1. ASSUME NEW i \in 1 .. Length(kind)
          PROVE  (IF i <= k THEN items[i] ELSE 0) = (IF i <= n THEN arr[i] ELSE 0)
      <4>1. CASE i <= k
        BY <1>1, <2>1, <4>1
      <4>2. CASE ~ (i <= k)
        BY <1>1, <1>2, <4>2 DEF CutAt
      <4>3. QED
        BY <4>1, <4>2
    <3> HIDE DEF items, list
    <3>2. QED
      BY <1>9, <3>1 DEF Length, Padded
  <2>6. QED
    BY <2>4, <2>5
<1>11. QED
  BY <1>1, <1>6, <1>9, <1>10

(* What a list is read as has the numbers of the array, and is encoded as  *)
(* that list exactly if the list does not end in a zero.                   *)
LEMMA ListRead ==
  ASSUME NEW kind \in ListKinds, NEW data \in Seq(Nat),
         DecodeList(kind, data).error = "none"
  PROVE  LET arr == DecodeList(kind, data).value
         IN  /\ DecodeList(kind, data) = Ok(arr)
             /\ arr \in Parts(kind)
             /\ EncodeList(kind, arr) = data <=> CanonicalList(data)
<1> DEFINE n == ListTypes[kind].length
           items == [i \in 1 .. Len(data) |->
                       IF Signed(kind) THEN Unzigzag(data[i]) ELSE data[i]]
           outOfRange == {i \in 1 .. Len(data) :
                            items[i] \notin ListTypes[kind].items}
           arr == [i \in 1 .. n |-> IF i <= Len(data) THEN items[i] ELSE 0]
<1>1. /\ ~ \E i \in outOfRange : i <= n + 1
      /\ ~ (Len(data) > n)
      /\ DecodeList(kind, data) = Ok(arr)
  <2>1. CASE \E i \in outOfRange : i <= n + 1
    <3>1. DecodeList(kind, data) = Err("OutOfDomainValue")
      BY <2>1 DEF DecodeList
    <3>2. QED
      BY <3>1 DEF Err
  <2>2. CASE (~ \E i \in outOfRange : i <= n + 1) /\ Len(data) > n
    <3>1. DecodeList(kind, data) = Err("InvalidValue")
      BY <2>2 DEF DecodeList
    <3>2. QED
      BY <3>1 DEF Err
  <2>3. CASE (~ \E i \in outOfRange : i <= n + 1) /\ ~ (Len(data) > n)
    <3>1. DecodeList(kind, data) = Ok(arr)
      BY <2>3 DEF DecodeList
    <3>2. QED
      BY <2>3, <3>1
  <2>4. QED
    BY <2>1, <2>2, <2>3
<1>2. /\ n \in Nat /\ Len(data) \in Nat /\ Len(data) <= n
      /\ n = Length(kind) /\ Items(kind) = ListTypes[kind].items
      /\ \A i \in 1 .. Len(data) : data[i] \in Nat
      /\ 0 \in Items(kind) /\ Items(kind) \subseteq Int
  <2>1. n \in Nat /\ 0 \in Items(kind) /\ Items(kind) \subseteq Int
    BY SignedIs DEF Length
  <2>2. QED
    BY <1>1, <2>1 DEF Length, Items
<1>3. \A i \in 1 .. Len(data) : items[i] = OfVarint(kind, data[i])
  BY DEF OfVarint
<1>4. \A i \in 1 .. Len(data) : items[i] \in Items(kind)
  <2>1. ASSUME NEW i \in 1 .. Len(data) PROVE i <= n + 1
    BY <1>2
  <2>2. QED
    BY <1>1, <1>2, <2>1
<1>5. /\ \A i \in 1 .. Len(data) : items[i] = 0 <=> data[i] = 0
      /\ \A i \in 1 .. Len(data) : ToVarint(kind, items[i]) = data[i]
  <2> HIDE DEF items
  <2>1. ASSUME NEW i \in 1 .. Len(data)
        PROVE  (items[i] = 0 <=> data[i] = 0) /\ ToVarint(kind, items[i]) = data[i]
    <3>1. data[i] \in Nat /\ items[i] = OfVarint(kind, data[i])
      BY <1>2, <1>3
    <3>2. data[i] \in Nat =>
            /\ ToVarint(kind, OfVarint(kind, data[i])) = data[i]
            /\ OfVarint(kind, data[i]) = 0 <=> data[i] = 0
      BY VarintsReadBack
    <3> QED
      BY ONLY <3>1, <3>2
  <2> QED
    BY ONLY <2>1
<1> HIDE DEF items, outOfRange
<1>6. arr \in Parts(kind) /\ arr \in [1 .. n -> Int]
  BY <1>2, <1>4 DEF Parts
<1>7. /\ \A i \in 1 .. Len(data) : arr[i] = items[i]
      /\ \A i \in Len(data) + 1 .. n : arr[i] = 0
  BY <1>2
<1>8. CanonicalList(data) <=> (Len(data) > 0 => data[Len(data)] # 0)
  <2>1. data = <<>> <=> Len(data) = 0
    BY EmptySeq
  <2>2. QED
    BY <1>2, <2>1 DEF CanonicalList, Last
<1>9. ASSUME CanonicalList(data) PROVE EncodeList(kind, arr) = data
  <2>1. CutAt(arr, n, Len(data)) /\ Len(data) \in 0 .. n
    BY <1>2, <1>5, <1>7, <1>8, <1>9 DEF CutAt
  <2>2. EncodeList(kind, arr) = [i \in 1 .. Len(data) |-> ToVarint(kind, arr[i])]
    <3> HIDE DEF arr, n
    <3>1. QED
      BY <1>2, <1>6, <2>1, EncodedListIs
  <2>3. data = [i \in 1 .. Len(data) |-> data[i]]
    OBVIOUS
  <2>4. QED
    BY <1>5, <1>7, <2>2, <2>3
<1>10. ASSUME EncodeList(kind, arr) = data PROVE CanonicalList(data)
  <2>1. PICK k \in 0 .. n : CutAt(arr, n, k)
    BY <1>2, <1>6, SuffixCut
  <2>2. data = [i \in 1 .. k |-> ToVarint(kind, arr[i])]
    <3> HIDE DEF arr, n
    <3>1. QED
      BY <1>2, <1>6, <1>10, <2>1, EncodedListIs
  <2>3. Len(data) = k
    BY <1>2, <2>1, <2>2
  <2>4. QED
    BY <1>2, <1>5, <1>7, <1>8, <2>1, <2>3 DEF CutAt
<1>11. DecodeList(kind, data).value = arr
  BY <1>1 DEF Ok
<1>12. QED
  BY <1>1, <1>6, <1>9, <1>10, <1>11

-----------------------------------------------------------------------------
(* Values that are lists of numbers, and the numbers they are made of.     *)

(* The value a list of numbers is made into is made of these numbers.      *)
MadeOf(kind, values, arr) ==
  LET result == OfListParts(kind, arr)
  IN  result.error = "none" =>
        /\ result = Ok(result.value) /\ result.value \in values
        /\ ListParts(result.value) = arr

(* Each value is made of its numbers.                                      *)
MadeBack(kind, v) ==
  /\ v.kind = kind /\ ListParts(v) \in Parts(kind)
  /\ OfListParts(kind, ListParts(v)) = Ok(v)

(* An error is not a value.                                                *)
LEMMA OkOrErr ==
  /\ \A v : Ok(v).error = "none" /\ Ok(v).value = v
  /\ Err("OutOfDomainValue").error # "none"
  /\ Err("InvalidValue").error # "none"
BY DEF Ok, Err

(* A tuple of so many elements is a function of as many numbers.           *)
LEMMA Tuples ==
  ASSUME NEW S
  PROVE  /\ \A a, b \in S : <<a, b>> \in [1 .. 2 -> S]
         /\ \A a, b, c \in S : <<a, b, c>> \in [1 .. 3 -> S]
         /\ \A a, b, c, d \in S : <<a, b, c, d>> \in [1 .. 4 -> S]
         /\ \A a, b, c, d, e, f \in S : <<a, b, c, d, e, f>> \in [1 .. 6 -> S]
OBVIOUS

(* And is made of its elements.                                            *)
LEMMA OfElements ==
  ASSUME NEW S
  PROVE  /\ \A p \in [1 .. 2 -> S] : p = <<p[1], p[2]>>
         /\ \A p \in [1 .. 3 -> S] : p = <<p[1], p[2], p[3]>>
         /\ \A p \in [1 .. 4 -> S] : p = <<p[1], p[2], p[3], p[4]>>
         /\ \A p \in [1 .. 6 -> S] : p = <<p[1], p[2], p[3], p[4], p[5], p[6]>>
OBVIOUS

(* The length of a year.                                                   *)
LEMMA DaysOfYearAre ==
  ASSUME NEW year PROVE DaysOfYear(year) \in {365, 366}
BY DEF DaysOfYear

(* A date is made exactly of the year and the day that it has.             *)
LEMMA DatesAccepted ==
  ASSUME NEW year, NEW day
  PROVE  /\ LET v == [kind |-> "NaiveDate", year |-> year, ordinal0 |-> day]
            IN  PartsToNaiveDate(year, day) =
                  IF v \in NaiveDates THEN Ok(v) ELSE Err("OutOfDomainValue")
         /\ LET v == [kind |-> "Date", year |-> year, ordinal0 |-> day]
            IN  PartsToDate(year, day) =
                  IF v \in Dates THEN Ok(v) ELSE Err("OutOfDomainValue")
<1>1. day \in 0 .. DaysOfYear(year) - 1
        <=> day \in 0 .. 365 /\ day < DaysOfYear(year)
  BY DaysOfYearAre
<1>2. QED
  BY <1>1 DEF PartsToNaiveDate, PartsToDate, NaiveDates, Dates

(* And so is a time of day.                                                *)
LEMMA TimesAccepted ==
  ASSUME NEW hour, NEW min, NEW sec, NEW nano
  PROVE  /\ LET v == [kind |-> "NaiveTime", hour |-> hour, minute |-> min,
                      second |-> sec, nanos |-> nano]
            IN  PartsToNaiveTime(hour, min, sec, nano) =
                  IF v \in NaiveTimes THEN Ok(v) ELSE Err("OutOfDomainValue")
         /\ LET v == [kind |-> "Time", hour |-> hour, minute |-> min,
                      second |-> sec, nanos |-> nano]
            IN  PartsToTime(hour, min, sec, nano) =
                  IF v \in Times THEN Ok(v) ELSE Err("OutOfDomainValue")
<1>1. /\ nano \in Subsecond => nano \in 0 .. 2 * NANOS_PER_SECOND - 1
      /\ nano \in NANOS_PER_SECOND .. 2 * NANOS_PER_SECOND - 1
           => nano \in 0 .. 2 * NANOS_PER_SECOND - 1
      /\ nano \in 0 .. 2 * NANOS_PER_SECOND - 1 =>
           \/ nano \in Subsecond
           \/ nano \in NANOS_PER_SECOND .. 2 * NANOS_PER_SECOND - 1
  BY Widths DEF Subsecond, NANOS_MAX
<1>2. <<hour, min, sec>> \in Clock <=>
        /\ hour \in 0 .. HoursPerDay - 1
        /\ min \in 0 .. MinutesPerHour - 1
        /\ sec \in 0 .. SecondsPerMinute - 1
  BY DEF Clock
<1>3. QED
  BY <1>1, <1>2 DEF PartsToNaiveTime, PartsToTime, NaiveTimes, Times, ClockTimes

(* The fields of dates and times fit the integers of their proxies.        *)
LEMMA DateFields ==
  ASSUME NEW d \in NaiveDates \cup Dates
  PROVE  /\ d \in NaiveDates =>
              d = [kind |-> "NaiveDate", year |-> d.year, ordinal0 |-> d.ordinal0]
         /\ d \in Dates =>
              d = [kind |-> "Date", year |-> d.year, ordinal0 |-> d.ordinal0]
         /\ DateParts(d) = <<d.year, d.ordinal0>>
         /\ d.year \in I32 /\ d.ordinal0 \in I32
<1>1. d.year \in ChronoYears \cup TimeYears /\ d.ordinal0 \in 0 .. 365
  BY DEF NaiveDates, Dates
<1>2. d.year \in I32 /\ d.ordinal0 \in I32
  <2>1. d.year \in I32
    BY <1>1, Widths
  <2>2. d.ordinal0 \in I32
    BY <1>1, Widths DEF I32
  <2>3. QED
    BY <2>1, <2>2
<1>3. QED
  BY <1>2 DEF NaiveDates, Dates, DateParts

(* Signed and unsigned ones.                                               *)
LEMMA TimeFields ==
  ASSUME NEW t \in NaiveTimes \cup Times
  PROVE  /\ t \in NaiveTimes =>
              t = [kind |-> "NaiveTime", hour |-> t.hour, minute |-> t.minute,
                   second |-> t.second, nanos |-> t.nanos]
         /\ t \in Times =>
              t = [kind |-> "Time", hour |-> t.hour, minute |-> t.minute,
                   second |-> t.second, nanos |-> t.nanos]
         /\ TimeParts(t) = <<t.hour, t.minute, t.second, t.nanos>>
         /\ \A S \in {I32, U32} :
              t.hour \in S /\ t.minute \in S /\ t.second \in S /\ t.nanos \in S
<1>1. /\ t.hour \in 0 .. HoursPerDay - 1 /\ t.minute \in 0 .. MinutesPerHour - 1
      /\ t.second \in 0 .. SecondsPerMinute - 1
      /\ t.nanos \in 0 .. 2 * NANOS_PER_SECOND - 1
  BY Widths DEF NaiveTimes, Times, ClockTimes, Subsecond, NANOS_MAX
<1>2. \A n \in Nat : n <= I32Max => n \in I32 /\ n \in U32
  BY Widths DEF I32, U32
<1>3. /\ t.hour \in Nat /\ t.hour <= I32Max
      /\ t.minute \in Nat /\ t.minute <= I32Max
      /\ t.second \in Nat /\ t.second <= I32Max
      /\ t.nanos \in Nat /\ t.nanos <= I32Max
  BY <1>1, Widths
<1>4. \A S \in {I32, U32} :
        t.hour \in S /\ t.minute \in S /\ t.second \in S /\ t.nanos \in S
  BY <1>2, <1>3
<1>5. QED
  BY <1>4 DEF NaiveTimes, Times, ClockTimes, TimeParts

(* Dates and times of day.                                                 *)
LEMMA DatesMade ==
  /\ \A arr \in Parts("NaiveDate") : MadeOf("NaiveDate", NaiveDates, arr)
  /\ \A v \in NaiveDates : MadeBack("NaiveDate", v)
  /\ \A arr \in Parts("Date") : MadeOf("Date", Dates, arr)
  /\ \A v \in Dates : MadeBack("Date", v)
<1>1. ASSUME NEW arr \in [1 .. 2 -> I32]
      PROVE  MadeOf("NaiveDate", NaiveDates, arr) /\ MadeOf("Date", Dates, arr)
  <2> DEFINE v(kind) == [kind |-> kind, year |-> arr[1], ordinal0 |-> arr[2]]
  <2>1. arr = <<arr[1], arr[2]>>
    BY OfElements
  <2>2. ListParts(v("NaiveDate")) = arr /\ ListParts(v("Date")) = arr
    BY <2>1 DEF ListParts, DateParts
  <2>3. /\ OfListParts("NaiveDate", arr) = PartsToNaiveDate(arr[1], arr[2])
        /\ OfListParts("Date", arr) = PartsToDate(arr[1], arr[2])
    BY DEF OfListParts, NaiveDateOf, DateOf
  <2>4. QED
    BY <2>2, <2>3, OkOrErr, DatesAccepted DEF MadeOf
<1>2. ASSUME NEW v \in NaiveDates \cup Dates
      PROVE  /\ v \in NaiveDates => MadeBack("NaiveDate", v)
             /\ v \in Dates => MadeBack("Date", v)
  <2>1. /\ DateParts(v) \in [1 .. 2 -> I32]
        /\ DateParts(v) = <<v.year, v.ordinal0>>
    BY DateFields, Tuples
  <2>2. ASSUME v \in NaiveDates PROVE MadeBack("NaiveDate", v)
    <3>1. v = [kind |-> "NaiveDate", year |-> v.year, ordinal0 |-> v.ordinal0]
      BY <2>2, DateFields
    <3>2. ListParts(v) = DateParts(v)
      BY <3>1 DEF ListParts
    <3>3. OfListParts("NaiveDate", DateParts(v)) = Ok(v)
      <4>1. PartsToNaiveDate(v.year, v.ordinal0) = Ok(v)
        BY <2>2, <3>1, DatesAccepted
      <4>2. QED
        BY <2>1, <4>1 DEF OfListParts, NaiveDateOf
    <3>4. QED
      BY <2>1, <3>1, <3>2, <3>3, ListTypesAre DEF MadeBack, Parts
  <2>3. ASSUME v \in Dates PROVE MadeBack("Date", v)
    <3>1. v = [kind |-> "Date", year |-> v.year, ordinal0 |-> v.ordinal0]
      BY <2>3, DateFields
    <3>2. ListParts(v) = DateParts(v)
      BY <3>1 DEF ListParts
    <3>3. OfListParts("Date", DateParts(v)) = Ok(v)
      <4>1. PartsToDate(v.year, v.ordinal0) = Ok(v)
        BY <2>3, <3>1, DatesAccepted
      <4>2. QED
        BY <2>1, <4>1 DEF OfListParts, DateOf
    <3>4. QED
      BY <2>1, <3>1, <3>2, <3>3, ListTypesAre DEF MadeBack, Parts
  <2>4. QED
    BY <2>2, <2>3
<1>3. QED
  BY <1>1, <1>2, ListTypesAre DEF Parts

(* Times of day.                                                           *)
LEMMA TimesMade ==
  /\ \A arr \in Parts("NaiveTime") : MadeOf("NaiveTime", NaiveTimes, arr)
  /\ \A v \in NaiveTimes : MadeBack("NaiveTime", v)
  /\ \A arr \in Parts("Time") : MadeOf("Time", Times, arr)
  /\ \A v \in Times : MadeBack("Time", v)
<1>1. ASSUME NEW arr \in [1 .. 4 -> U32]
      PROVE  MadeOf("NaiveTime", NaiveTimes, arr) /\ MadeOf("Time", Times, arr)
  <2> DEFINE v(kind) == [kind |-> kind, hour |-> arr[1], minute |-> arr[2],
                         second |-> arr[3], nanos |-> arr[4]]
  <2>1. arr = <<arr[1], arr[2], arr[3], arr[4]>>
    BY OfElements
  <2>2. ListParts(v("NaiveTime")) = arr /\ ListParts(v("Time")) = arr
    BY <2>1 DEF ListParts, TimeParts
  <2>3. /\ OfListParts("NaiveTime", arr)
             = PartsToNaiveTime(arr[1], arr[2], arr[3], arr[4])
        /\ OfListParts("Time", arr) = PartsToTime(arr[1], arr[2], arr[3], arr[4])
    BY DEF OfListParts, NaiveTimeOf, TimeOf
  <2>4. QED
    BY <2>2, <2>3, OkOrErr, TimesAccepted DEF MadeOf
<1>2. ASSUME NEW v \in NaiveTimes \cup Times
      PROVE  /\ v \in NaiveTimes => MadeBack("NaiveTime", v)
             /\ v \in Times => MadeBack("Time", v)
  <2>1. /\ TimeParts(v) \in [1 .. 4 -> U32]
        /\ TimeParts(v) = <<v.hour, v.minute, v.second, v.nanos>>
    <3>1. /\ v.hour \in U32 /\ v.minute \in U32
          /\ v.second \in U32 /\ v.nanos \in U32
      BY TimeFields
    <3>2. <<v.hour, v.minute, v.second, v.nanos>> \in [1 .. 4 -> U32]
      BY <3>1
    <3>3. QED
      BY <3>2, TimeFields
  <2>2. ASSUME v \in NaiveTimes PROVE MadeBack("NaiveTime", v)
    <3>1. v = [kind |-> "NaiveTime", hour |-> v.hour, minute |-> v.minute,
               second |-> v.second, nanos |-> v.nanos]
      BY <2>2, TimeFields
    <3>2. ListParts(v) = TimeParts(v)
      BY <3>1 DEF ListParts
    <3>3. OfListParts("NaiveTime", TimeParts(v)) = Ok(v)
      <4>1. PartsToNaiveTime(v.hour, v.minute, v.second, v.nanos) = Ok(v)
        BY <2>2, <3>1, TimesAccepted
      <4>2. QED
        BY <2>1, <4>1 DEF OfListParts, NaiveTimeOf
    <3>4. QED
      BY <2>1, <3>1, <3>2, <3>3, ListTypesAre DEF MadeBack, Parts
  <2>3. ASSUME v \in Times PROVE MadeBack("Time", v)
    <3>1. v = [kind |-> "Time", hour |-> v.hour, minute |-> v.minute,
               second |-> v.second, nanos |-> v.nanos]
      BY <2>3, TimeFields
    <3>2. ListParts(v) = TimeParts(v)
      BY <3>1 DEF ListParts
    <3>3. OfListParts("Time", TimeParts(v)) = Ok(v)
      <4>1. PartsToTime(v.hour, v.minute, v.second, v.nanos) = Ok(v)
        BY <2>3, <3>1, TimesAccepted
      <4>2. QED
        BY <2>1, <4>1 DEF OfListParts, TimeOf
    <3>4. QED
      BY <2>1, <3>1, <3>2, <3>3, ListTypesAre DEF MadeBack, Parts
  <2>4. QED
    BY <2>2, <2>3
<1>3. QED
  BY <1>1, <1>2, ListTypesAre DEF Parts

(* A date-time is made if its date and its time are.                       *)
LEMMA JoinedIs ==
  ASSUME NEW kind, NEW date, NEW time
  PROVE  Joined(kind, date, time) =
           IF date.error # "none" THEN date
           ELSE IF time.error = "none"
           THEN Ok([kind |-> kind, date |-> date.value, time |-> time.value])
           ELSE time
BY DEF Joined, Then

(* The numbers of a date, then those of a time.                            *)
LEMMA SixParts ==
  ASSUME NEW d, NEW t
  PROVE  DateParts(d) \o TimeParts(t) =
           <<d.year, d.ordinal0, t.hour, t.minute, t.second, t.nanos>>
<1> DEFINE S == {d.year, d.ordinal0, t.hour, t.minute, t.second, t.nanos}
           a == DateParts(d)
           b == TimeParts(t)
           c == <<d.year, d.ordinal0, t.hour, t.minute, t.second, t.nanos>>
<1>2. /\ a \in Seq(S) /\ Len(a) = 2 /\ b \in Seq(S) /\ Len(b) = 4
      /\ c \in Seq(S) /\ Len(c) = 6
  <2>1. a \in Seq(S) /\ Len(a) = 2
    BY DEF DateParts
  <2>2. b \in Seq(S) /\ Len(b) = 4
    BY DEF TimeParts
  <2>3. c \in Seq(S) /\ Len(c) = 6
    OBVIOUS
  <2>4. QED
    BY <2>1, <2>2, <2>3
<1>3. /\ a[1] = c[1] /\ a[2] = c[2]
      /\ b[1] = c[3] /\ b[2] = c[4] /\ b[3] = c[5] /\ b[4] = c[6]
  BY DEF DateParts, TimeParts
<1> HIDE DEF S, a, b, c
<1>4. /\ a \o b \in Seq(S) /\ Len(a \o b) = 6
      /\ \A i \in 1 .. 6 : (a \o b)[i] = IF i <= 2 THEN a[i] ELSE b[i - 2]
  <2>1. /\ a \o b \in Seq(S) /\ Len(a \o b) = Len(a) + Len(b)
        /\ \A i \in 1 .. Len(a) + Len(b) :
             (a \o b)[i] = IF i <= Len(a) THEN a[i] ELSE b[i - Len(a)]
    BY <1>2, ConcatProperties
  <2>2. Len(a) = 2 /\ Len(a) + Len(b) = 6
    BY <1>2
  <2>3. QED
    BY <2>1, <2>2
<1>5. ASSUME NEW i \in 1 .. 6 PROVE (a \o b)[i] = c[i]
  BY <1>3, <1>4, SMTT(30)
<1>6. a \o b = c
  BY <1>2, <1>4, <1>5, SeqEqual
<1>7. QED
  BY <1>6 DEF a, b, c

(* Date-times.                                                             *)
LEMMA NaiveDateTimesMade ==
  /\ \A arr \in Parts("NaiveDateTime") :
       MadeOf("NaiveDateTime", NaiveDateTimes, arr)
  /\ \A v \in NaiveDateTimes : MadeBack("NaiveDateTime", v)
<1>1. ASSUME NEW arr \in [1 .. 6 -> I32]
      PROVE  MadeOf("NaiveDateTime", NaiveDateTimes, arr)
  <2> DEFINE d == [kind |-> "NaiveDate", year |-> arr[1], ordinal0 |-> arr[2]]
             t == [kind |-> "NaiveTime", hour |-> arr[3], minute |-> arr[4],
                   second |-> arr[5], nanos |-> arr[6]]
             v == [kind |-> "NaiveDateTime", date |-> d, time |-> t]
             date == PartsToNaiveDate(arr[1], arr[2])
             time == PartsToNaiveTime(arr[3], arr[4], arr[5], arr[6])
  <2>1. OfListParts("NaiveDateTime", arr) = Joined("NaiveDateTime", date, time)
    BY DEF OfListParts, NaiveDateTimeOf
  <2>2. /\ date = IF d \in NaiveDates THEN Ok(d) ELSE Err("OutOfDomainValue")
        /\ time = IF t \in NaiveTimes THEN Ok(t) ELSE Err("OutOfDomainValue")
    BY DatesAccepted, TimesAccepted
  <2>3. ListParts(v) = <<arr[1], arr[2], arr[3], arr[4], arr[5], arr[6]>>
    <3>1. ListParts(v) = DateParts(d) \o TimeParts(t)
      <4> HIDE DEF d, t
      <4>1. QED
        BY DEF ListParts
    <3>2. DateParts(d) \o TimeParts(t) =
            <<d.year, d.ordinal0, t.hour, t.minute, t.second, t.nanos>>
      <4> HIDE DEF d, t
      <4>1. QED
        BY SixParts
    <3>3. QED
      BY <3>1, <3>2
  <2>4. ListParts(v) = arr
    BY <2>3, OfElements
  <2> HIDE DEF date, time, d, t
  <2>5. Joined("NaiveDateTime", date, time).error = "none" =>
          /\ Joined("NaiveDateTime", date, time) = Ok(v)
          /\ d \in NaiveDates /\ t \in NaiveTimes
    BY <2>2, JoinedIs, OkOrErr
  <2>6. QED
    BY <2>1, <2>4, <2>5, OkOrErr DEF MadeOf, NaiveDateTimes
<1>2. ASSUME NEW v \in NaiveDateTimes PROVE MadeBack("NaiveDateTime", v)
  <2> DEFINE d == v.date
             t == v.time
  <2>1. /\ v = [kind |-> "NaiveDateTime", date |-> d, time |-> t]
        /\ d \in NaiveDates /\ t \in NaiveTimes
    BY DEF NaiveDateTimes
  <2> HIDE DEF d, t
  <2>2. /\ d = [kind |-> "NaiveDate", year |-> d.year, ordinal0 |-> d.ordinal0]
        /\ d.year \in I32 /\ d.ordinal0 \in I32
    BY <2>1, DateFields
  <2>3. /\ t = [kind |-> "NaiveTime", hour |-> t.hour, minute |-> t.minute,
                second |-> t.second, nanos |-> t.nanos]
        /\ t.hour \in I32 /\ t.minute \in I32 /\ t.second \in I32
        /\ t.nanos \in I32
    BY <2>1, TimeFields
  <2> DEFINE arr == <<d.year, d.ordinal0, t.hour, t.minute, t.second, t.nanos>>
  <2>4. ListParts(v) = arr /\ arr \in [1 .. 6 -> I32]
    <3>1. ListParts(v) = arr
      BY <2>1, SixParts DEF ListParts
    <3>2. arr \in [1 .. 6 -> I32]
      BY <2>2, <2>3
    <3>3. QED
      BY <3>1, <3>2
  <2>5. /\ PartsToNaiveDate(d.year, d.ordinal0) = Ok(d)
        /\ PartsToNaiveTime(t.hour, t.minute, t.second, t.nanos) = Ok(t)
    BY <2>1, <2>2, <2>3, DatesAccepted, TimesAccepted
  <2>6. OfListParts("NaiveDateTime", arr) = Joined("NaiveDateTime", Ok(d), Ok(t))
    BY <2>5 DEF OfListParts, NaiveDateTimeOf
  <2>7. OfListParts("NaiveDateTime", arr) = Ok(v)
    BY <2>1, <2>6, JoinedIs, OkOrErr
  <2>8. v.kind = "NaiveDateTime"
    BY <2>1
  <2> HIDE DEF arr
  <2>9. QED
    BY <2>4, <2>7, <2>8, ListTypesAre DEF MadeBack, Parts
<1>3. QED
  BY <1>1, <1>2, ListTypesAre DEF Parts

(* Date-times of the other library, in the same words.                     *)
LEMMA PrimitiveDateTimesMade ==
  /\ \A arr \in Parts("PrimitiveDateTime") :
       MadeOf("PrimitiveDateTime", PrimitiveDateTimes, arr)
  /\ \A v \in PrimitiveDateTimes : MadeBack("PrimitiveDateTime", v)
<1>1. ASSUME NEW arr \in [1 .. 6 -> I32]
      PROVE  MadeOf("PrimitiveDateTime", PrimitiveDateTimes, arr)
  <2> DEFINE d == [kind |-> "Date", year |-> arr[1], ordinal0 |-> arr[2]]
             t == [kind |-> "Time", hour |-> arr[3], minute |-> arr[4],
                   second |-> arr[5], nanos |-> arr[6]]
             v == [kind |-> "PrimitiveDateTime", date |-> d, time |-> t]
             date == PartsToDate(arr[1], arr[2])
             time == PartsToTime(arr[3], arr[4], arr[5], arr[6])
  <2>1. OfListParts("PrimitiveDateTime", arr)
          = Joined("PrimitiveDateTime", date, time)
    BY DEF OfListParts, PrimitiveDateTimeOf
  <2>2. /\ date = IF d \in Dates THEN Ok(d) ELSE Err("OutOfDomainValue")
        /\ time = IF t \in Times THEN Ok(t) ELSE Err("OutOfDomainValue")
    BY DatesAccepted, TimesAccepted
  <2>3. ListParts(v) = <<arr[1], arr[2], arr[3], arr[4], arr[5], arr[6]>>
    <3>1. ListParts(v) = DateParts(d) \o TimeParts(t)
      <4> HIDE DEF d, t
      <4>1. QED
        BY DEF ListParts
    <3>2. DateParts(d) \o TimeParts(t) =
            <<d.year, d.ordinal0, t.hour, t.minute, t.second, t.nanos>>
      <4> HIDE DEF d, t
      <4>1. QED
        BY SixParts
    <3>3. QED
      BY <3>1, <3>2
  <2>4. ListParts(v) = arr
    BY <2>3, OfElements
  <2> HIDE DEF date, time, d, t
  <2>5. Joined("PrimitiveDateTime", date, time).error = "none" =>
          /\ Joined("PrimitiveDateTime", date, time) = Ok(v)
          /\ d \in Dates /\ t \in Times
    BY <2>2, JoinedIs, OkOrErr
  <2>6. QED
    BY <2>1, <2>4, <2>5, OkOrErr DEF MadeOf, PrimitiveDateTimes
<1>2. ASSUME NEW v \in PrimitiveDateTimes PROVE MadeBack("PrimitiveDateTime", v)
  <2> DEFINE d == v.date
             t == v.time
  <2>1. /\ v = [kind |-> "PrimitiveDateTime", date |-> d, time |-> t]
        /\ d \in Dates /\ t \in Times
    BY DEF PrimitiveDateTimes
  <2> HIDE DEF d, t
  <2>2. /\ d = [kind |-> "Date", year |-> d.year, ordinal0 |-> d.ordinal0]
        /\ d.year \in I32 /\ d.ordinal0 \in I32
    BY <2>1, DateFields
  <2>3. /\ t = [kind |-> "Time", hour |-> t.hour, minute |-> t.minute,
                second |-> t.second, nanos |-> t.nanos]
        /\ t.hour \in I32 /\ t.minute \in I32 /\ t.second \in I32
        /\ t.nanos \in I32
    BY <2>1, TimeFields
  <2> DEFINE arr == <<d.year, d.ordinal0, t.hour, t.minute, t.second, t.nanos>>
  <2>4. ListParts(v) = arr /\ arr \in [1 .. 6 -> I32]
    <3>1. ListParts(v) = arr
      BY <2>1, SixParts DEF ListParts
    <3>2. arr \in [1 .. 6 -> I32]
      BY <2>2, <2>3
    <3>3. QED
      BY <3>1, <3>2
  <2>5. /\ PartsToDate(d.year, d.ordinal0) = Ok(d)
        /\ PartsToTime(t.hour, t.minute, t.second, t.nanos) = Ok(t)
    BY <2>1, <2>2, <2>3, DatesAccepted, TimesAccepted
  <2>6. OfListParts("PrimitiveDateTime", arr)
          = Joined("PrimitiveDateTime", Ok(d), Ok(t))
    BY <2>5 DEF OfListParts, PrimitiveDateTimeOf
  <2>7. OfListParts("PrimitiveDateTime", arr) = Ok(v)
    BY <2>1, <2>6, JoinedIs, OkOrErr
  <2>8. v.kind = "PrimitiveDateTime"
    BY <2>1
  <2> HIDE DEF arr
  <2>9. QED
    BY <2>4, <2>7, <2>8, ListTypesAre DEF MadeBack, Parts
<1>3. QED
  BY <1>1, <1>2, ListTypesAre DEF Parts

(* The durations and times of the standard library that are encoded.       *)
Stds == {v \in StdDuration : v.kind = "std"}

(* Durations of the standard library.                                      *)
LEMMA StdsMade ==
  /\ \A arr \in Parts("std") : MadeOf("std", Stds, arr)
  /\ \A v \in Stds : MadeBack("std", v)
<1>1. ASSUME NEW arr \in [1 .. 2 -> U64] PROVE MadeOf("std", Stds, arr)
  <2> DEFINE v == [kind |-> "std", seconds |-> arr[1], nanos |-> arr[2]]
  <2>1. arr = <<arr[1], arr[2]>>
    BY OfElements
  <2>2. ListParts(v) = arr
    BY <2>1 DEF ListParts
  <2>3. OfListParts("std", arr) =
          IF arr[2] \in Subsecond THEN Ok(v) ELSE Err("InvalidValue")
    BY DEF OfListParts, CoreDurationOf
  <2>4. arr[2] \in Subsecond => v \in Stds
    BY DEF Stds, StdDuration
  <2>5. QED
    BY <2>2, <2>3, <2>4, OkOrErr DEF MadeOf
<1>2. ASSUME NEW v \in Stds PROVE MadeBack("std", v)
  <2>1. /\ v = [kind |-> "std", seconds |-> v.seconds, nanos |-> v.nanos]
        /\ v.seconds \in U64 /\ v.nanos \in Subsecond /\ v.kind = "std"
    BY DEF Stds, StdDuration
  <2>2. v.nanos \in U64
    BY <2>1, Widths DEF Subsecond, NANOS_MAX, U64
  <2>3. ListParts(v) = <<v.seconds, v.nanos>>
    BY <2>1 DEF ListParts
  <2>4. <<v.seconds, v.nanos>> \in [1 .. 2 -> U64]
    BY <2>1, <2>2
  <2>5. OfListParts("std", <<v.seconds, v.nanos>>) = Ok(v)
    BY <2>1 DEF OfListParts, CoreDurationOf
  <2>6. QED
    BY <2>1, <2>3, <2>4, <2>5, ListTypesAre DEF MadeBack, Parts
<1>3. QED
  BY <1>1, <1>2, ListTypesAre DEF Parts

(* The seconds and nanoseconds of a time are found in their total.         *)
LEMMA TotalDivides ==
  ASSUME NEW s \in Int, NEW n \in Subsecond
  PROVE  /\ s * NANOS_PER_SECOND + n \in Int
         /\ (s * NANOS_PER_SECOND + n) \div NANOS_PER_SECOND = s
         /\ (s * NANOS_PER_SECOND + n) % NANOS_PER_SECOND = n
<1> DEFINE N == NANOS_PER_SECOND
<1>1. N \in Nat \ {0} /\ n \in 0 .. N - 1
  BY Widths DEF Subsecond, NANOS_MAX
<1> HIDE DEF N
<1>2. (N * s + n) \div N = s /\ (N * s + n) % N = n
  BY <1>1, DivisionIsUnique
<1>3. s * N = N * s /\ s * N + n \in Int
  BY <1>1
<1>4. QED
  BY <1>2, <1>3 DEF N

(* A magnitude is that of a whole number of seconds and a rest.            *)
LEMMA Magnitude ==
  ASSUME NEW m \in Nat
  PROVE  LET N == NANOS_PER_SECOND
         IN  /\ m \div N \in Nat /\ m % N \in Subsecond
             /\ (m \div N) * N + (m % N) = m
             /\ m <= (I64Max + 1) * N => m \div N \in U64
<1> DEFINE N == NANOS_PER_SECOND
           q == m \div N
           r == m % N
<1>1. N \in Nat \ {0} /\ Subsecond = 0 .. N - 1 /\ I64Max \in Nat
  BY Widths DEF Subsecond, NANOS_MAX
<1> HIDE DEF N
<1>2. q \in Int /\ r \in 0 .. N - 1 /\ m = N * q + r
  BY <1>1
<1> HIDE DEF q, r
<1>3. q \in Nat
  <2>1. SUFFICES ASSUME q <= -1 PROVE FALSE
    BY <1>2
  <2>2. N * q <= -N
    BY <1>1, <1>2, <2>1
  <2>3. QED
    BY <1>1, <1>2, <2>2
<1>4. q * N = N * q
  BY <1>1, <1>2
<1>5. ASSUME m <= (I64Max + 1) * N PROVE q \in U64
  <2>1. ~ (q > I64Max + 1)
    <3>1. SUFFICES ASSUME q > I64Max + 1 PROVE FALSE
      OBVIOUS
    <3>2. (I64Max + 2) * N <= q * N
      BY <1>1, <1>3, <3>1, Products
    <3>3. (I64Max + 2) * N = (I64Max + 1) * N + 1 * N
      <4>1. I64Max + 2 = (I64Max + 1) + 1
        BY <1>1
      <4>2. ((I64Max + 1) + 1) * N = (I64Max + 1) * N + 1 * N
        BY <1>1, Sums
      <4>3. QED
        BY <4>1, <4>2
    <3>4. (I64Max + 1) * N \in Nat /\ 1 * N = N /\ q * N \in Nat
      BY <1>1, <1>3
    <3>5. QED
      BY <1>1, <1>2, <1>4, <1>5, <3>2, <3>3, <3>4
  <2>2. QED
    BY <1>1, <1>3, <2>1 DEF U64
<1>6. /\ q \in Nat /\ r \in Subsecond /\ q * N + r = m
      /\ m <= (I64Max + 1) * N => q \in U64
  BY <1>1, <1>2, <1>3, <1>4, <1>5
<1>7. QED
  BY <1>6 DEF N, q, r

(* Times of the system: their total is that of a timestamp, and its parts  *)
(* are a sign and a magnitude.                                             *)
LEMMA SystemPartsAre ==
  ASSUME NEW v \in SystemTime
  PROVE  LET N == NANOS_PER_SECOND
             m == IF Total(v) > 0 THEN Total(v) ELSE -Total(v)
         IN  /\ v = [kind |-> "system", seconds |-> v.seconds, nanos |-> v.nanos]
             /\ v.seconds \in SystemSeconds
             /\ Total(v) \in Int /\ m \in Nat
             /\ Total(v) \div N = v.seconds /\ Total(v) % N = v.nanos
             /\ m \div N \in U64 /\ m % N \in Subsecond
             /\ (m \div N) * N + (m % N) = m
<1> DEFINE N == NANOS_PER_SECOND
           t == Total(v)
           m == IF t > 0 THEN t ELSE -t
<1>1. /\ v = [kind |-> "system", seconds |-> v.seconds, nanos |-> v.nanos]
      /\ v.seconds \in SystemSeconds /\ v.nanos \in Subsecond
  BY DEF SystemTime
<1>2. /\ v.seconds \in Int /\ -I64Max - 1 <= v.seconds /\ v.seconds <= I64Max
      /\ N \in Nat \ {0} /\ I64Max \in Nat /\ v.nanos \in 0 .. N - 1
  BY <1>1, Widths, TimeAssumption DEF I64, Subsecond, NANOS_MAX
<1>3. t = v.seconds * N + v.nanos
  BY DEF Total
<1>4. t \in Int /\ t \div N = v.seconds /\ t % N = v.nanos
  BY <1>1, <1>2, <1>3, TotalDivides
<1> HIDE DEF N, t
<1>5. t <= (I64Max + 1) * N
  <2>1. v.seconds * N <= I64Max * N
    BY <1>2, Products
  <2>2. (I64Max + 1) * N = I64Max * N + 1 * N
    BY <1>2, Sums
  <2>3. v.seconds * N \in Int /\ I64Max * N \in Int /\ 1 * N = N
    BY <1>2
  <2>4. QED
    BY <1>2, <1>3, <2>1, <2>2, <2>3
<1>6. -t <= (I64Max + 1) * N
  <2>1. (-(I64Max + 1)) * N <= v.seconds * N
    BY <1>2, Products
  <2>2. (-(I64Max + 1)) * N = -((I64Max + 1) * N)
    BY <1>2
  <2>3. v.seconds * N \in Int /\ (I64Max + 1) * N \in Int
    BY <1>2
  <2>4. QED
    BY <1>2, <1>3, <2>1, <2>2, <2>3
<1>7. m \in Nat /\ m <= (I64Max + 1) * N
  BY <1>4, <1>5, <1>6
<1> HIDE DEF m
<1>8. m \div N \in U64 /\ m % N \in Subsecond /\ (m \div N) * N + (m % N) = m
  BY <1>7, Magnitude DEF N
<1>9. QED
  BY <1>1, <1>4, <1>7, <1>8 DEF N, t, m

(* What a sign and a magnitude of seconds and nanoseconds are read as.     *)
LEMMA SystemTimeIs ==
  ASSUME NEW sign \in {PLUS, MINUS}, NEW s \in Nat, NEW n \in Subsecond
  PROVE  LET total == s * NANOS_PER_SECOND + n
             signed == IF sign = MINUS THEN -total ELSE total
             v == [kind |-> "system", seconds |-> signed \div NANOS_PER_SECOND,
                   nanos |-> signed % NANOS_PER_SECOND]
         IN  SystemTimeOf(<<sign, s, n>>) =
               IF v.seconds \in SystemSeconds THEN Ok(v)
               ELSE Err("OutOfDomainValue")
<1> DEFINE N == NANOS_PER_SECOND
           total == s * N + n
           signed == IF sign = MINUS THEN -total ELSE total
           arr == <<sign, s, n>>
<1>1. PLUS # 0 /\ MINUS # 0 /\ PLUS # MINUS /\ sign # 0
  BY DEF PLUS, MINUS
<1>2. arr # <<0, 0, 0>> /\ arr[1] = sign /\ arr[2] = s /\ arr[3] = n
  BY <1>1
<1>3. total \in Int
  BY Widths DEF Subsecond, NANOS_MAX
<1>4. (IF sign = MINUS THEN -1 ELSE 1) * total = signed
  <2> HIDE DEF total
  <2>1. QED
    BY <1>3
<1> HIDE DEF arr, N
<1>5. (IF arr[1] = MINUS THEN -1 ELSE 1) * (arr[2] * N + arr[3]) = signed
  BY <1>2, <1>4
<1> HIDE DEF signed
<1>6. ~ (arr[1] \notin {PLUS, MINUS} \/ arr[3] \notin Subsecond)
  BY <1>2
<1>7. SystemTimeOf(arr) =
        LET v == [kind |-> "system", seconds |-> signed \div N,
                  nanos |-> signed % N]
        IN  IF v.seconds \in SystemSeconds THEN Ok(v)
            ELSE Err("OutOfDomainValue")
  BY <1>2, <1>5, <1>6 DEF SystemTimeOf, N
<1>8. QED
  BY <1>7 DEF arr, signed, N

(* Times of the system are made of their sign and magnitude; what else is  *)
(* read as one is not always encoded so.                                   *)
LEMMA SystemsMade ==
  /\ \A arr \in Parts("system") :
       LET result == OfListParts("system", arr)
       IN  result.error = "none" =>
             result = Ok(result.value) /\ result.value \in SystemTime
  /\ \A v \in SystemTime : MadeBack("system", v)
<1>1. ASSUME NEW arr \in [1 .. 3 -> U64],
             SystemTimeOf(arr).error = "none"
      PROVE  \E v \in SystemTime : SystemTimeOf(arr) = Ok(v)
  <2>1. arr = <<arr[1], arr[2], arr[3]>>
    BY OfElements
  <2>2. CASE arr = <<0, 0, 0>>
    <3> DEFINE v == [kind |-> "system", seconds |-> 0, nanos |-> 0]
    <3>1. /\ 0 * NANOS_PER_SECOND + 0 = 0 /\ 0 \in Subsecond
          /\ 0 \div NANOS_PER_SECOND = 0 /\ 0 % NANOS_PER_SECOND = 0
      <4>1. 0 \in Subsecond /\ 0 * NANOS_PER_SECOND + 0 = 0
        BY Widths DEF Subsecond, NANOS_MAX
      <4>2. QED
        BY <4>1, TotalDivides
    <3>2. v \in SystemTime
      BY <3>1, ForeignTimeAssumption DEF SystemTime
    <3>3. /\ arr[1] = 0 /\ arr[2] = 0 /\ arr[3] = 0 /\ 0 # MINUS /\ 1 * 0 = 0
      BY <2>2 DEF MINUS
    <3>4. SystemTimeOf(arr) = Ok(v)
      BY <2>2, <3>1, <3>3 DEF SystemTimeOf
    <3>5. QED
      BY <3>2, <3>4
  <2>3. CASE arr # <<0, 0, 0>>
    <3>1. arr[1] \in {PLUS, MINUS} /\ arr[3] \in Subsecond
      <4>1. SUFFICES ASSUME arr[1] \notin {PLUS, MINUS} \/ arr[3] \notin Subsecond
                     PROVE  FALSE
        OBVIOUS
      <4>2. SystemTimeOf(arr) = Err("InvalidValue")
        BY <2>3, <4>1 DEF SystemTimeOf
      <4>3. QED
        BY <1>1, <4>2, OkOrErr
    <3> DEFINE total == arr[2] * NANOS_PER_SECOND + arr[3]
               signed == IF arr[1] = MINUS THEN -total ELSE total
               v == [kind |-> "system",
                     seconds |-> signed \div NANOS_PER_SECOND,
                     nanos |-> signed % NANOS_PER_SECOND]
    <3>2. arr[2] \in Nat
      <4>1. arr[2] \in U64
        OBVIOUS
      <4>2. QED
        BY <4>1, Widths
    <3>3. SystemTimeOf(arr) = IF v.seconds \in SystemSeconds THEN Ok(v)
                              ELSE Err("OutOfDomainValue")
      BY <2>1, <3>1, <3>2, SystemTimeIs
    <3>4. signed \in Int
      <4>1. total \in Int
        BY <3>1, <3>2, TotalDivides
      <4> HIDE DEF total
      <4>2. QED
        BY <4>1
    <3> HIDE DEF signed
    <3>5. signed % NANOS_PER_SECOND \in Subsecond
      BY <3>4, Widths DEF Subsecond, NANOS_MAX
    <3>6. v.seconds \in SystemSeconds
      BY <1>1, <3>3, OkOrErr
    <3>7. v \in SystemTime
      BY <3>5, <3>6 DEF SystemTime
    <3>8. QED
      BY <3>3, <3>6, <3>7
  <2>4. QED
    BY <2>2, <2>3
<1>2. ASSUME NEW v \in SystemTime PROVE MadeBack("system", v)
  <2> DEFINE N == NANOS_PER_SECOND
             t == Total(v)
             m == IF t > 0 THEN t ELSE -t
             sign == IF t > 0 THEN PLUS ELSE MINUS
             arr == <<sign, m \div N, m % N>>
  <2>1. /\ v = [kind |-> "system", seconds |-> v.seconds, nanos |-> v.nanos]
        /\ v.seconds \in SystemSeconds /\ t \in Int /\ m \in Nat
        /\ t \div N = v.seconds /\ t % N = v.nanos
        /\ m \div N \in U64 /\ m % N \in Subsecond
        /\ (m \div N) * N + (m % N) = m
    BY SystemPartsAre
  <2>2. /\ ListParts(v) = SystemParts(v) /\ v.kind = "system"
        /\ \A p : OfListParts("system", p) = SystemTimeOf(p)
    BY <2>1 DEF ListParts, OfListParts
  <2>3. CASE t = 0
    <3>1. SystemParts(v) = <<0, 0, 0>>
      BY <2>3 DEF SystemParts
    <3>2. v.seconds = 0 /\ v.nanos = 0
      <4>1. 0 \in Subsecond /\ 0 * NANOS_PER_SECOND + 0 = 0
        BY Widths DEF Subsecond, NANOS_MAX
      <4>2. 0 \div N = 0 /\ 0 % N = 0
        BY <4>1, TotalDivides
      <4>3. QED
        BY <2>1, <2>3, <4>2
    <3>3. SystemTimeOf(<<0, 0, 0>>) = Ok(v)
      <4>1. /\ 0 * NANOS_PER_SECOND + 0 = 0 /\ 1 * 0 = 0 /\ 0 # MINUS
        BY Widths DEF MINUS
      <4>2. 0 \div N = 0 /\ 0 % N = 0
        BY <2>1, <2>3, <3>2
      <4>3. QED
        BY <2>1, <3>2, <4>1, <4>2 DEF SystemTimeOf
    <3>4. <<0, 0, 0>> \in [1 .. 3 -> U64]
      BY Widths DEF U64
    <3>5. QED
      BY <2>2, <3>1, <3>3, <3>4, ListTypesAre DEF MadeBack, Parts
  <2>4. CASE t # 0
    <3> HIDE DEF t
    <3>1. SystemParts(v) = arr
      BY <2>4 DEF SystemParts, t
    <3>2. sign \in {PLUS, MINUS} /\ sign \in U64 /\ PLUS # MINUS
      BY ForeignTimeAssumption DEF PLUS, MINUS
    <3>3. m % N \in U64
      BY <2>1, Widths DEF Subsecond, NANOS_MAX, U64
    <3>4. (IF sign = MINUS THEN -m ELSE m) = t
      BY <2>1, <3>2
    <3> HIDE DEF m, sign, N
    <3>5. arr \in [1 .. 3 -> U64]
      BY <2>1, <3>2, <3>3
    <3>6. SystemTimeOf(arr) = Ok(v)
      <4>1. m \div N \in Nat
        BY <2>1, Widths
      <4> DEFINE s == m \div N
                 n == m % N
                 w == [kind |-> "system", seconds |-> t \div N, nanos |-> t % N]
      <4>2. s \in Nat /\ n \in Subsecond /\ s * NANOS_PER_SECOND + n = m
        BY <2>1, <4>1 DEF N
      <4> HIDE DEF s, n
      <4>3. SystemTimeOf(<<sign, s, n>>) =
              IF w.seconds \in SystemSeconds THEN Ok(w)
              ELSE Err("OutOfDomainValue")
        BY <3>2, <3>4, <4>2, SystemTimeIs DEF N
      <4>4. w = v
        BY <2>1
      <4>5. QED
        BY <2>1, <4>3, <4>4 DEF s, n
    <3> HIDE DEF arr
    <3>7. QED
      BY <2>2, <3>1, <3>5, <3>6, ListTypesAre DEF MadeBack, Parts
  <2>5. QED
    BY <2>3, <2>4
<1>3. ASSUME NEW arr \in Parts("system"),
             OfListParts("system", arr).error = "none"
      PROVE  /\ OfListParts("system", arr) = Ok(OfListParts("system", arr).value)
             /\ OfListParts("system", arr).value \in SystemTime
  <2>1. OfListParts("system", arr) = SystemTimeOf(arr)
    BY DEF OfListParts
  <2>2. arr \in [1 .. 3 -> U64]
    BY ListTypesAre DEF Parts
  <2>3. \E v \in SystemTime : SystemTimeOf(arr) = Ok(v)
    BY <1>1, <1>3, <2>1, <2>2
  <2>4. QED
    BY <2>1, <2>3, OkOrErr
<1>4. QED
  BY <1>2, <1>3

-----------------------------------------------------------------------------
(* Offsets.                                                                *)

(* Three numbers have one sign or not.                                     *)
LEMMA OneSign ==
  /\ \A p \in [1 .. 3 -> Int] :
       ~ MixedSigns(p) <=> \/ p[1] >= 0 /\ p[2] >= 0 /\ p[3] >= 0
                           \/ p[1] <= 0 /\ p[2] <= 0 /\ p[3] <= 0
  /\ \A a, b \in Int :
       ~ MixedSigns(<<a, b>>) <=> (a >= 0 /\ b >= 0) \/ (a <= 0 /\ b <= 0)
<1>1. ASSUME NEW p \in [1 .. 3 -> Int]
      PROVE  ~ MixedSigns(p) <=> \/ p[1] >= 0 /\ p[2] >= 0 /\ p[3] >= 0
                                 \/ p[1] <= 0 /\ p[2] <= 0 /\ p[3] <= 0
  <2>1. Len(p) = 3 /\ \A i \in 1 .. 3 : p[i] \in Int
    BY FunctionIsSeq
  <2>2. \A i \in 1 .. 3 : i = 1 \/ i = 2 \/ i = 3
    OBVIOUS
  <2>3. /\ (\E i \in 1 .. 3 : p[i] < 0) <=> p[1] < 0 \/ p[2] < 0 \/ p[3] < 0
        /\ (\E i \in 1 .. 3 : p[i] > 0) <=> p[1] > 0 \/ p[2] > 0 \/ p[3] > 0
    BY <2>2
  <2>4. QED
    BY <2>1, <2>3 DEF MixedSigns
<1>2. ASSUME NEW a \in Int, NEW b \in Int
      PROVE  ~ MixedSigns(<<a, b>>) <=> (a >= 0 /\ b >= 0) \/ (a <= 0 /\ b <= 0)
  <2> DEFINE p == <<a, b>>
  <2>1. Len(p) = 2 /\ p[1] = a /\ p[2] = b
    OBVIOUS
  <2> HIDE DEF p
  <2>2. \A i \in 1 .. 2 : i = 1 \/ i = 2
    OBVIOUS
  <2>3. /\ (\E i \in 1 .. 2 : p[i] < 0) <=> a < 0 \/ b < 0
        /\ (\E i \in 1 .. 2 : p[i] > 0) <=> a > 0 \/ b > 0
    BY <2>1, <2>2
  <2>4. ~ MixedSigns(p) <=> (a >= 0 /\ b >= 0) \/ (a <= 0 /\ b <= 0)
    BY <2>1, <2>3 DEF MixedSigns
  <2>5. QED
    BY <2>4 DEF p
<1>3. QED
  BY <1>1, <1>2

(* The seconds of an offset's parts.                                       *)
East(h, m, s) == (h * MinutesPerHour + m) * SecondsPerMinute + s

(* In the parts of an offset.                                              *)
LEMMA EastIs ==
  ASSUME NEW hms \in [1 .. 3 -> Int]
  PROVE  /\ SecondsEast(hms) = East(hms[1], hms[2], hms[3])
         /\ SecondsEast(hms) \in Int
<1> DEFINE h == hms[1]
           m == hms[2]
           s == hms[3]
           M == MinutesPerHour
           S == SecondsPerMinute
<1>1. h \in Int /\ m \in Int /\ s \in Int /\ M \in Int /\ S \in Int
  BY Widths
<1>2. SecondsEast(hms) = h * (M * S) + m * S + s
  BY DEF SecondsEast, SecondsPerHour
<1> HIDE DEF h, m, s, M, S
<1>3. (h * M + m) * S = (h * M) * S + m * S
  <2>1. h * M \in Int
    BY <1>1
  <2>2. QED
    BY <1>1, <2>1, Sums
<1>4. (h * M) * S = h * (M * S)
  BY <1>1
<1>5. h * (M * S) \in Int /\ m * S \in Int /\ (h * M) * S \in Int
  BY <1>1
<1>6. QED
  BY <1>1, <1>2, <1>3, <1>4, <1>5 DEF East, h, m, s, M, S

(* Offsets before and after are mirrored.                                  *)
LEMMA EastMirrored ==
  ASSUME NEW h \in Int, NEW m \in Int, NEW s \in Int
  PROVE  East(-h, -m, -s) = -East(h, m, s) /\ East(h, m, s) \in Int
<1> DEFINE M == MinutesPerHour
           S == SecondsPerMinute
           n == h * M + m
<1>1. M \in Int /\ S \in Int
  BY Widths
<1> HIDE DEF M, S
<1>2. (-h) * M + (-m) = -n /\ n \in Int
  BY <1>1
<1> HIDE DEF n
<1>3. (-n) * S = -(n * S) /\ n * S \in Int
  BY <1>1, <1>2
<1>4. East(h, m, s) = n * S + s
  BY DEF East, n, M, S
<1>5. East(-h, -m, -s) = (-n) * S + (-s)
  BY <1>2 DEF East, M, S
<1>6. QED
  BY <1>3, <1>4, <1>5

(* Division to zero mirrors with its dividend.                             *)
LEMMA DivisionMirrored ==
  ASSUME NEW n \in Int, NEW d \in Nat \ {0}
  PROVE  /\ Quotient(-n, d) = -Quotient(n, d)
         /\ Remainder(-n, d) = -Remainder(n, d)
<1>1. Quotient(n, d) \in Int
  BY Division
<1>2. Quotient(-n, d) = -Quotient(n, d)
  <2>1. CASE n > 0
    BY <2>1 DEF Quotient
  <2>2. CASE n < 0
    <3>1. Quotient(n, d) = -((-n) \div d) /\ Quotient(-n, d) = (-n) \div d
      BY <2>2 DEF Quotient
    <3>2. (-n) \div d \in Int
      BY <2>2
    <3>3. QED
      BY <3>1, <3>2
  <2>3. CASE n = 0
    <3>1. (d * 0 + 0) \div d = 0
      BY DivisionIsUnique
    <3>2. 0 \div d = 0
      BY <3>1
    <3>3. QED
      BY <2>3, <3>2 DEF Quotient
  <2>4. QED
    BY <2>1, <2>2, <2>3
<1>3. d * (-Quotient(n, d)) = -(d * Quotient(n, d)) /\ d * Quotient(n, d) \in Int
  BY <1>1
<1>4. QED
  BY <1>1, <1>2, <1>3 DEF Remainder

(* The parts of an offset after UTC are those it is made of.               *)
LEMMA PartsOfEast ==
  ASSUME NEW h \in Nat, NEW m \in 0 .. MinutesPerHour - 1,
         NEW s \in 0 .. SecondsPerMinute - 1
  PROVE  /\ FixedOffsetParts(East(h, m, s)) = <<h, m, s>>
         /\ East(h, m, s) >= 0
         /\ East(h, m, s) <= SecondsPerDay - 1 <=> h <= HoursPerDay - 1
<1> DEFINE M == MinutesPerHour
           S == SecondsPerMinute
           H == HoursPerDay
           n == h * M + m
           e == East(h, m, s)
<1>1. M \in Nat \ {0} /\ S \in Nat \ {0} /\ H \in Nat \ {0}
  BY Widths
<1>2. m \in 0 .. M - 1 /\ s \in 0 .. S - 1 /\ e = n * S + s
  BY DEF East
<1>3. SecondsPerDay = H * (M * S)
  BY DEF SecondsPerDay, SecondsPerHour
<1> HIDE DEF M, S, H, e
<1>4. n \in Nat /\ n = M * h + m
  <2>1. h * M \in Nat /\ h * M = M * h
    BY <1>1
  <2>2. QED
    BY <1>1, <1>2, <2>1
<1>5. n \div M = h /\ n % M = m
  <2> HIDE DEF n
  <2>1. M \in Nat \ {0} /\ h \in Int /\ m \in 0 .. M - 1
    BY <1>1, <1>2
  <2>2. (M * h + m) \div M = h /\ (M * h + m) % M = m
    BY ONLY <2>1, DivisionIsUnique
  <2>3. QED
    BY <1>4, <2>2
<1> HIDE DEF n
<1>6. n * S \in Nat /\ n * S = S * n
  BY <1>1, <1>4
<1>7. e \in Nat /\ e = S * n + s
  BY <1>1, <1>2, <1>6
<1>8. e \div S = n /\ e % S = s
  <2>1. S \in Nat \ {0} /\ n \in Int /\ s \in 0 .. S - 1
    BY <1>1, <1>2, <1>4
  <2>2. (S * n + s) \div S = n /\ (S * n + s) % S = s
    BY ONLY <2>1, DivisionIsUnique
  <2>3. QED
    BY <1>7, <2>2
<1>9. Quotient(e, S) = n /\ Remainder(e, S) = s
  <2>1. Quotient(e, S) = n
    BY <1>7, <1>8 DEF Quotient
  <2>2. e - S * n = s
    BY <1>1, <1>2, <1>4, <1>6, <1>7
  <2>3. QED
    BY <2>1, <2>2 DEF Remainder
<1>10. Quotient(n, M) = h /\ Remainder(n, M) = m
  <2>1. Quotient(n, M) = h
    BY <1>4, <1>5 DEF Quotient
  <2>2. M * h \in Nat
    BY <1>1
  <2>3. n - M * h = m
    BY <1>1, <1>2, <1>4, <2>2
  <2>4. QED
    BY <2>1, <2>3 DEF Remainder
<1>11. FixedOffsetParts(e) = <<h, m, s>>
  BY <1>9, <1>10 DEF FixedOffsetParts, M, S
<1>12. H * (M * S) = (H * M) * S /\ H * M \in Nat /\ (H * M) * S \in Nat
  BY <1>1
<1>13. ASSUME h <= H - 1 PROVE e <= (H * M) * S - 1
  <2>1. h * M <= (H - 1) * M
    BY <1>1, <1>13, Products
  <2>2. (H + (-1)) * M = H * M + (-1) * M
    BY <1>1, Sums
  <2>3. h * M \in Nat /\ (-1) * M = -M /\ H + (-1) = H - 1
    BY <1>1
  <2>4. n <= H * M - 1
    BY <1>1, <1>2, <1>12, <2>1, <2>2, <2>3 DEF n
  <2>5. n * S <= (H * M - 1) * S
    BY <1>1, <1>4, <1>12, <2>4, Products
  <2>6. (H * M + (-1)) * S = (H * M) * S + (-1) * S
    BY <1>1, <1>12, Sums
  <2>7. (-1) * S = -S /\ H * M + (-1) = H * M - 1
    BY <1>1, <1>12
  <2>8. QED
    BY <1>1, <1>2, <1>6, <1>12, <2>5, <2>6, <2>7
<1>14. ASSUME ~ (h <= H - 1) PROVE ~ (e <= (H * M) * S - 1)
  <2>1. H * M <= h * M
    BY <1>1, <1>14, Products
  <2>2. h * M \in Nat
    BY <1>1
  <2>3. H * M <= n
    BY <1>1, <1>2, <1>12, <2>1, <2>2 DEF n
  <2>4. (H * M) * S <= n * S
    BY <1>1, <1>4, <1>12, <2>3, Products
  <2>5. QED
    BY <1>1, <1>2, <1>6, <1>12, <2>4
<1>15. QED
  BY <1>3, <1>7, <1>11, <1>12, <1>13, <1>14 DEF e, H

(* The parts of mirrored offsets are mirrored.                             *)
Mirrored(p) == <<-p[1], -p[2], -p[3]>>

(* And so do the parts that are divided off.                               *)
LEMMA PartsMirrored ==
  ASSUME NEW n \in Int
  PROVE  /\ FixedOffsetParts(-n) = Mirrored(FixedOffsetParts(n))
         /\ FixedOffsetParts(n) \in [1 .. 3 -> Int]
<1> DEFINE S == SecondsPerMinute
           M == MinutesPerHour
           q == Quotient(n, S)
<1>1. S \in Nat \ {0} /\ M \in Nat \ {0}
  BY Widths
<1> HIDE DEF S, M
<1>2. /\ q \in Int /\ Quotient(-n, S) = -q
      /\ Remainder(-n, S) = -Remainder(n, S) /\ Remainder(n, S) \in Int
  BY <1>1, Division, DivisionMirrored
<1> HIDE DEF q
<1>3. /\ Quotient(-q, M) = -Quotient(q, M) /\ Quotient(q, M) \in Int
      /\ Remainder(-q, M) = -Remainder(q, M) /\ Remainder(q, M) \in Int
  BY <1>1, <1>2, Division, DivisionMirrored
<1>4. /\ FixedOffsetParts(n) =
           <<Quotient(q, M), Remainder(q, M), Remainder(n, S)>>
      /\ FixedOffsetParts(-n) =
           <<Quotient(-q, M), Remainder(-q, M), Remainder(-n, S)>>
  BY <1>2 DEF FixedOffsetParts, q, S, M
<1>5. QED
  BY <1>2, <1>3, <1>4 DEF Mirrored

(* An offset is what its parts add up to, if these have one sign; it is    *)
(* less than a day if its hours are.                                       *)
LEMMA PartsOfOffset ==
  ASSUME NEW hms \in [1 .. 3 -> Int], NEW hours \in Nat,
         InClock(hms, hours), ~ MixedSigns(hms)
  PROVE  /\ FixedOffsetParts(SecondsEast(hms)) = hms
         /\ SecondsEast(hms) \in -(SecondsPerDay - 1) .. SecondsPerDay - 1
              <=> hms[1] \in -(HoursPerDay - 1) .. HoursPerDay - 1
<1> DEFINE h == hms[1]
           m == hms[2]
           s == hms[3]
           M == MinutesPerHour
           S == SecondsPerMinute
           H == HoursPerDay
           D == SecondsPerDay
<1>1. /\ h \in Int /\ m \in Int /\ s \in Int /\ hms = <<h, m, s>>
      /\ M \in Nat /\ S \in Nat /\ H \in Nat \ {0} /\ D \in Int
      /\ SecondsEast(hms) = East(h, m, s) /\ SecondsEast(hms) \in Int
  BY Widths, OfElements, EastIs DEF SecondsPerDay, SecondsPerHour
<1>2. m \in -(M - 1) .. M - 1 /\ s \in -(S - 1) .. S - 1
  BY DEF InClock
<1> HIDE DEF h, m, s, M, S, H, D
<1>3. CASE h >= 0 /\ m >= 0 /\ s >= 0
  <2>1. /\ h \in Nat /\ m \in 0 .. MinutesPerHour - 1
        /\ s \in 0 .. SecondsPerMinute - 1
    BY <1>1, <1>2, <1>3 DEF M, S
  <2>2. /\ FixedOffsetParts(East(h, m, s)) = <<h, m, s>> /\ East(h, m, s) >= 0
        /\ East(h, m, s) <= D - 1 <=> h <= H - 1
    BY <2>1, PartsOfEast DEF D, H
  <2>3. 0 <= D - 1 <=> 0 <= H - 1
    <3>1. D = H * (M * S) /\ M \in Nat \ {0} /\ S \in Nat \ {0}
      BY Widths DEF D, H, M, S, SecondsPerDay, SecondsPerHour
    <3>2. M * S \in Nat \ {0}
      BY <3>1
    <3>3. H * (M * S) \in Nat \ {0}
      BY <1>1, <3>2
    <3>4. QED
      BY <1>1, <3>1, <3>3
  <2>4. SecondsEast(hms) \in -(D - 1) .. D - 1 <=> h \in -(H - 1) .. H - 1
    BY <1>1, <1>3, <2>2, <2>3
  <2>5. QED
    BY <1>1, <2>2, <2>4 DEF D, H, h
<1>4. CASE h <= 0 /\ m <= 0 /\ s <= 0
  <2> DEFINE a == -h
             b == -m
             c == -s
  <2>1. /\ a \in Nat /\ b \in 0 .. MinutesPerHour - 1
        /\ c \in 0 .. SecondsPerMinute - 1 /\ a \in Int /\ b \in Int /\ c \in Int
        /\ h = -a /\ m = -b /\ s = -c
    BY <1>1, <1>2, <1>4 DEF M, S
  <2> HIDE DEF a, b, c
  <2>2. /\ FixedOffsetParts(East(a, b, c)) = <<a, b, c>> /\ East(a, b, c) >= 0
        /\ East(a, b, c) <= D - 1 <=> a <= H - 1
    BY <2>1, PartsOfEast DEF D, H
  <2>3. East(h, m, s) = -East(a, b, c) /\ East(a, b, c) \in Int
    BY <2>1, EastMirrored
  <2>4. FixedOffsetParts(East(h, m, s)) = <<h, m, s>>
    <3>1. FixedOffsetParts(-East(a, b, c)) = Mirrored(<<a, b, c>>)
      BY <2>2, <2>3, PartsMirrored
    <3>2. Mirrored(<<a, b, c>>) = <<h, m, s>>
      BY <2>1 DEF Mirrored
    <3>3. QED
      BY <2>3, <3>1, <3>2
  <2>5. 0 <= D - 1 <=> 0 <= H - 1
    <3>1. D = H * (M * S) /\ M \in Nat \ {0} /\ S \in Nat \ {0}
      BY Widths DEF D, H, M, S, SecondsPerDay, SecondsPerHour
    <3>2. M * S \in Nat \ {0}
      BY <3>1
    <3>3. H * (M * S) \in Nat \ {0}
      BY <1>1, <3>2
    <3>4. QED
      BY <1>1, <3>1, <3>3
  <2>6. SecondsEast(hms) \in -(D - 1) .. D - 1 <=> h \in -(H - 1) .. H - 1
    BY <1>1, <2>1, <2>2, <2>3, <2>5
  <2>7. QED
    BY <1>1, <2>4, <2>6 DEF D, H, h
<1>5. QED
  BY <1>3, <1>4, OneSign DEF h, m, s

(* The parts of an offset of less than a day have one sign, are in range   *)
(* and add up to it.                                                       *)
LEMMA FixedPartsAre ==
  ASSUME NEW n \in -(SecondsPerDay - 1) .. SecondsPerDay - 1
  PROVE  LET p == FixedOffsetParts(n)
         IN  /\ p \in [1 .. 3 -> Int] /\ InClock(p, HoursPerDay - 1)
             /\ ~ MixedSigns(p) /\ SecondsEast(p) = n
<1> DEFINE M == MinutesPerHour
           S == SecondsPerMinute
           H == HoursPerDay
           D == SecondsPerDay
<1>1. /\ M \in Nat \ {0} /\ S \in Nat \ {0} /\ H \in Nat \ {0} /\ D \in Int
      /\ n \in Int /\ n \in -(D - 1) .. D - 1
  BY Widths DEF SecondsPerDay, SecondsPerHour
<1>2. ASSUME NEW e \in Nat, e <= D - 1
      PROVE  \E h, m, s \in Nat :
               /\ h <= H - 1 /\ m \in 0 .. M - 1 /\ s \in 0 .. S - 1
               /\ East(h, m, s) = e /\ FixedOffsetParts(e) = <<h, m, s>>
  <2> DEFINE q == Quotient(e, S)
             s == Remainder(e, S)
             h == Quotient(q, M)
             m == Remainder(q, M)
  <2> HIDE DEF M, S, H, D
  <2>1. q \in Nat /\ s \in 0 .. S - 1 /\ e = S * q + s
    <3>1. S \in Nat \ {0} /\ e \in Int /\ e >= 0
      BY <1>1
    <3>2. /\ q \in Int /\ e = S * q + s
          /\ s \in 0 .. S - 1 /\ q >= 0
      BY ONLY <3>1, Division
    <3>3. QED
      BY <3>2
  <2> HIDE DEF q
  <2>2. h \in Nat /\ m \in 0 .. M - 1 /\ q = M * h + m
    <3>1. M \in Nat \ {0} /\ q \in Int /\ q >= 0
      BY <1>1, <2>1
    <3>2. /\ h \in Int /\ q = M * h + m
          /\ m \in 0 .. M - 1 /\ h >= 0
      BY ONLY <3>1, Division
    <3>3. QED
      BY <3>2
  <2> HIDE DEF s, h, m
  <2>3. East(h, m, s) = e
    <3>1. h * M + m = q
      BY <1>1, <2>2
    <3>2. q * S + s = e
      BY <1>1, <2>1
    <3>3. QED
      BY <3>1, <3>2 DEF East, M, S
  <2>4. /\ FixedOffsetParts(East(h, m, s)) = <<h, m, s>>
        /\ East(h, m, s) <= SecondsPerDay - 1 <=> h <= HoursPerDay - 1
    BY <2>1, <2>2, PartsOfEast DEF M, S
  <2>5. h <= H - 1
    BY <1>2, <2>3, <2>4 DEF D, H
  <2>6. s \in Nat /\ m \in Nat
    BY <2>1, <2>2
  <2>7. QED
    BY <2>1, <2>2, <2>3, <2>4, <2>5, <2>6
<1> DEFINE Right(p) == /\ p \in [1 .. 3 -> Int] /\ InClock(p, H - 1)
                       /\ ~ MixedSigns(p) /\ SecondsEast(p) = n
<1>3. CASE n >= 0
  <2>1. PICK h \in Nat, m \in Nat, s \in Nat :
          /\ h <= H - 1 /\ m \in 0 .. M - 1 /\ s \in 0 .. S - 1
          /\ East(h, m, s) = n /\ FixedOffsetParts(n) = <<h, m, s>>
    <3>1. n \in Nat /\ n <= D - 1
      BY <1>1, <1>3
    <3> HIDE DEF H, M, S, D
    <3>2. QED
      BY <1>2, <3>1
  <2> DEFINE p == <<h, m, s>>
  <2>2. p \in [1 .. 3 -> Int] /\ p[1] = h /\ p[2] = m /\ p[3] = s
    OBVIOUS
  <2> HIDE DEF p
  <2>3. InClock(p, H - 1)
    <3>1. h \in -(H - 1) .. H - 1
      BY <1>1, <2>1
    <3>2. m \in -(M - 1) .. M - 1
      BY <1>1, <2>1
    <3>3. s \in -(S - 1) .. S - 1
      BY <1>1, <2>1
    <3>4. QED
      BY <2>2, <3>1, <3>2, <3>3 DEF InClock
  <2>4. ~ MixedSigns(p)
    BY <2>2, OneSign
  <2>5. SecondsEast(p) = n
    BY <2>1, <2>2, EastIs
  <2>6. QED
    BY <2>1, <2>2, <2>3, <2>4, <2>5 DEF p
<1>4. CASE n < 0
  <2>1. PICK h \in Nat, m \in Nat, s \in Nat :
          /\ h <= H - 1 /\ m \in 0 .. M - 1 /\ s \in 0 .. S - 1
          /\ East(h, m, s) = -n /\ FixedOffsetParts(-n) = <<h, m, s>>
    <3>1. -n \in Nat /\ -n <= D - 1
      BY <1>1, <1>4
    <3> HIDE DEF H, M, S, D
    <3>2. QED
      BY <1>2, <3>1
  <2> DEFINE p == <<-h, -m, -s>>
  <2>2. p \in [1 .. 3 -> Int] /\ p[1] = -h /\ p[2] = -m /\ p[3] = -s
    OBVIOUS
  <2>3. FixedOffsetParts(n) = p
    <3>1. -(-n) = n /\ -n \in Int
      BY <1>1
    <3>2. FixedOffsetParts(n) = Mirrored(FixedOffsetParts(-n))
      BY <3>1, PartsMirrored
    <3>3. QED
      BY <2>1, <3>2 DEF Mirrored
  <2> HIDE DEF p
  <2>4. InClock(p, H - 1)
    <3>1. -h \in -(H - 1) .. H - 1
      BY <1>1, <2>1
    <3>2. -m \in -(M - 1) .. M - 1
      BY <1>1, <2>1
    <3>3. -s \in -(S - 1) .. S - 1
      BY <1>1, <2>1
    <3>4. QED
      BY <2>2, <3>1, <3>2, <3>3 DEF InClock
  <2>5. ~ MixedSigns(p)
    BY <2>2, OneSign
  <2>6. SecondsEast(p) = n
    <3>1. SecondsEast(p) = East(-h, -m, -s)
      BY <2>2, EastIs
    <3>2. East(-h, -m, -s) = -East(h, m, s)
      BY EastMirrored
    <3>3. QED
      BY <1>1, <2>1, <3>1, <3>2
  <2>7. QED
    BY <2>2, <2>3, <2>4, <2>5, <2>6
<1>5. QED
  BY <1>1, <1>3, <1>4

(* The offset a triple of numbers is made into has these as its parts.     *)
OffsetMadeOf(kind, values, p) ==
  LET result == OfOffsetParts(kind, p)
  IN  result.error = "none" =>
        /\ result = Ok(result.value) /\ result.value \in values
        /\ OffsetParts(result.value) = p

OffsetMadeBack(kind, v) ==
  /\ v.kind = kind /\ OffsetParts(v) \in [1 .. 3 -> I8]
  /\ OfOffsetParts(kind, OffsetParts(v)) = Ok(v)

(* Three parts in the integers of the proxy.                               *)
Byte3 == [1 .. 3 -> I8]

(* Which these are.                                                        *)
LEMMA ByteRange ==
  /\ I8 \subseteq Int /\ 0 \in I8
  /\ \A p \in Byte3 : p \in [1 .. 3 -> Int]
  /\ \A n \in Int : -I8Max <= n /\ n <= I8Max => n \in I8
<1>1. I8Max \in Nat /\ I8 = -I8Max - 1 .. I8Max
  BY Widths DEF I8
<1>2. QED
  BY <1>1 DEF Byte3

(* No offset.                                                              *)
LEMMA UtcsMade ==
  /\ \A p \in Byte3 : OffsetMadeOf("Utc", Utcs, p)
  /\ \A v \in Utcs : OffsetMadeBack("Utc", v)
<1> DEFINE v == [kind |-> "Utc"]
<1>1. v \in Utcs /\ v.kind = "Utc" /\ \A w \in Utcs : w = v
  BY DEF Utcs
<1> HIDE DEF v
<1>2. OffsetParts(v) = <<0, 0, 0>>
  BY <1>1 DEF OffsetParts
<1>3. \A p : OfOffsetParts("Utc", p) =
              IF p = <<0, 0, 0>> THEN Ok(v) ELSE Err("OutOfDomainValue")
  BY DEF OfOffsetParts, UtcOf, v
<1>4. <<0, 0, 0>> \in [1 .. 3 -> I8]
  BY ByteRange
<1>5. QED
  BY <1>1, <1>2, <1>3, <1>4, OkOrErr DEF OffsetMadeOf, OffsetMadeBack

(* Fixed offsets, whose parts are computed.                                *)
LEMMA FixedOffsetsMade ==
  /\ \A p \in Byte3 : OffsetMadeOf("FixedOffset", FixedOffsets, p)
  /\ \A v \in FixedOffsets : OffsetMadeBack("FixedOffset", v)
<1>1. HoursPerDay - 1 \in Nat /\ HoursPerDay \in Nat
  BY Widths
<1>2. ASSUME NEW p \in Byte3, OfOffsetParts("FixedOffset", p).error = "none"
      PROVE  OffsetMadeOf("FixedOffset", FixedOffsets, p)
  <2> DEFINE v == [kind |-> "FixedOffset", seconds |-> SecondsEast(p)]
  <2>1. OfOffsetParts("FixedOffset", p) = FixedOffsetOf(p)
    BY DEF OfOffsetParts
  <2>2. /\ InClock(p, HoursPerDay - 1) /\ ~ MixedSigns(p)
        /\ FixedOffsetOf(p) = Ok(v)
    BY <1>2, <2>1, OkOrErr DEF FixedOffsetOf
  <2>3. p \in [1 .. 3 -> Int]
    BY ByteRange
  <2>4. p[1] \in -(HoursPerDay - 1) .. HoursPerDay - 1
    BY <2>2 DEF InClock
  <2>5. /\ FixedOffsetParts(SecondsEast(p)) = p
        /\ SecondsEast(p) \in -(SecondsPerDay - 1) .. SecondsPerDay - 1
    BY <1>1, <2>2, <2>3, <2>4, PartsOfOffset
  <2>6. v \in FixedOffsets
    BY <2>5 DEF FixedOffsets
  <2>7. OffsetParts(v) = p
    BY <2>5 DEF OffsetParts
  <2>8. QED
    BY <2>1, <2>2, <2>6, <2>7, OkOrErr DEF OffsetMadeOf
<1>3. ASSUME NEW v \in FixedOffsets PROVE OffsetMadeBack("FixedOffset", v)
  <2> DEFINE n == v.seconds
             p == FixedOffsetParts(n)
  <2>1. /\ v = [kind |-> "FixedOffset", seconds |-> n] /\ v.kind = "FixedOffset"
        /\ n \in -(SecondsPerDay - 1) .. SecondsPerDay - 1
    BY DEF FixedOffsets
  <2>2. OffsetParts(v) = p
    BY <2>1 DEF OffsetParts
  <2> HIDE DEF n
  <2>3. /\ p \in [1 .. 3 -> Int] /\ InClock(p, HoursPerDay - 1)
        /\ ~ MixedSigns(p) /\ SecondsEast(p) = n
    BY <2>1, FixedPartsAre
  <2> HIDE DEF p
  <2>4. p \in Byte3
    <3>1. /\ p[1] \in Int /\ p[2] \in Int /\ p[3] \in Int
      BY <2>3
    <3>2. /\ -I8Max <= p[1] /\ p[1] <= I8Max
          /\ -I8Max <= p[2] /\ p[2] <= I8Max
          /\ -I8Max <= p[3] /\ p[3] <= I8Max
      <4>1. /\ p[1] \in -(HoursPerDay - 1) .. HoursPerDay - 1
            /\ p[2] \in -(MinutesPerHour - 1) .. MinutesPerHour - 1
            /\ p[3] \in -(SecondsPerMinute - 1) .. SecondsPerMinute - 1
        BY <2>3 DEF InClock
      <4>2. /\ HoursPerDay <= I8Max /\ MinutesPerHour <= I8Max
            /\ SecondsPerMinute <= I8Max /\ I8Max \in Nat /\ HoursPerDay \in Nat
            /\ MinutesPerHour \in Nat /\ SecondsPerMinute \in Nat
        BY Widths
      <4>3. QED
        BY <3>1, <4>1, <4>2
    <3>3. p[1] \in I8 /\ p[2] \in I8 /\ p[3] \in I8
      BY <3>1, <3>2, ByteRange
    <3>4. p = <<p[1], p[2], p[3]>>
      BY <2>3, OfElements
    <3>5. <<p[1], p[2], p[3]>> \in [1 .. 3 -> I8]
      BY <3>3
    <3>6. QED
      BY <3>4, <3>5 DEF Byte3
  <2>5. OfOffsetParts("FixedOffset", p) = Ok(v)
    BY <2>1, <2>3 DEF OfOffsetParts, FixedOffsetOf
  <2>6. QED
    BY <2>1, <2>2, <2>4, <2>5 DEF OffsetMadeBack, Byte3
<1>4. ASSUME NEW p \in Byte3 PROVE OffsetMadeOf("FixedOffset", FixedOffsets, p)
  BY <1>2 DEF OffsetMadeOf
<1>5. QED
  BY <1>3, <1>4

(* Offsets of the other library, which are their parts.                    *)
LEMMA UtcOffsetsMade ==
  /\ \A p \in Byte3 : OffsetMadeOf("UtcOffset", UtcOffsets, p)
  /\ \A v \in UtcOffsets : OffsetMadeBack("UtcOffset", v)
<1>1. ASSUME NEW p \in Byte3 PROVE OffsetMadeOf("UtcOffset", UtcOffsets, p)
  <2> DEFINE v == [kind |-> "UtcOffset", hms |-> p]
  <2>1. OfOffsetParts("UtcOffset", p) = UtcOffsetOf(p)
    BY DEF OfOffsetParts
  <2>2. UtcOffsetOf(p).error = "none" =>
          /\ InClock(p, TimeOffsetHours) /\ ~ MixedSigns(p)
          /\ UtcOffsetOf(p) = Ok(v)
    BY OkOrErr DEF UtcOffsetOf
  <2>3. InClock(p, TimeOffsetHours) /\ ~ MixedSigns(p) => v \in UtcOffsets
    BY DEF UtcOffsets, Byte3
  <2>4. OffsetParts(v) = p
    BY DEF OffsetParts
  <2>5. QED
    BY <2>1, <2>2, <2>3, <2>4, OkOrErr DEF OffsetMadeOf
<1>2. ASSUME NEW v \in UtcOffsets PROVE OffsetMadeBack("UtcOffset", v)
  <2>1. /\ v = [kind |-> "UtcOffset", hms |-> v.hms] /\ v.kind = "UtcOffset"
        /\ v.hms \in [1 .. 3 -> I8]
        /\ InClock(v.hms, TimeOffsetHours) /\ ~ MixedSigns(v.hms)
    BY DEF UtcOffsets
  <2>2. OffsetParts(v) = v.hms
    BY <2>1 DEF OffsetParts
  <2>3. OfOffsetParts("UtcOffset", v.hms) = Ok(v)
    BY <2>1 DEF OfOffsetParts, UtcOffsetOf
  <2>4. QED
    BY <2>1, <2>2, <2>3 DEF OffsetMadeBack
<1>3. QED
  BY <1>1, <1>2

-----------------------------------------------------------------------------
(* Tuples on the wire.                                                     *)

(* A field that is there or not, and what it is read as.                   *)
FieldValue(f) == IF f = Absent THEN 0 ELSE f[1]

(* A field is not there, or holds its value.                               *)
LEMMA OptionIs ==
  ASSUME NEW S, NEW f \in Option(S)
  PROVE  f = Absent \/ (f # Absent /\ f[1] \in S /\ f = <<f[1]>>)
<1>1. ASSUME f \in [1 .. 1 -> S] PROVE f # Absent /\ f[1] \in S /\ f = <<f[1]>>
  <2>1. Len(f) = 1 /\ f[1] \in S /\ f \in Seq(S)
    <3>1. \A n \in Nat : f \in [1 .. n -> S] => f \in Seq(S) /\ Len(f) = n
      BY FunctionIsSeq
    <3>2. f \in Seq(S) /\ Len(f) = 1
      BY ONLY <1>1, <3>1
    <3>3. QED
      BY <1>1, <3>2
  <2>2. f = <<f[1]>>
    BY <1>1
  <2>3. QED
    BY <2>1, <2>2, EmptySeq DEF Absent
<1>2. QED
  BY <1>1 DEF Option

(* A field that holds a value is there.                                    *)
LEMMA OptionHas ==
  ASSUME NEW S, NEW x \in S
  PROVE  /\ <<x>> \in Option(S) /\ Absent \in Option(S) /\ <<x>> # Absent
         /\ <<x>>[1] = x
<1>1. <<x>> \in [1 .. 1 -> S] /\ <<x>>[1] = x
  OBVIOUS
<1>2. <<x>> # <<>>
  OBVIOUS
<1>3. QED
  BY <1>1, <1>2 DEF Option, Absent

(* A number is written unless it is 0, and that is how it is read; a field *)
(* that was read is written so unless it holds 0.                          *)
LEMMA NonZeroIs ==
  /\ \A n : FieldValue(NonZero(n)) = n /\ (NonZero(n) = Absent <=> n = 0)
  /\ \A S : \A n \in S : NonZero(n) \in Option(S)
  /\ \A S : \A f \in Option(S) : NonZero(FieldValue(f)) = f <=> f # <<0>>
<1>1. ASSUME NEW n
      PROVE  FieldValue(NonZero(n)) = n /\ (NonZero(n) = Absent <=> n = 0)
  <2>1. <<n>> # Absent /\ <<n>>[1] = n
    BY n \in {n}, OptionHas
  <2>2. QED
    BY <2>1 DEF FieldValue, NonZero
<1>2. ASSUME NEW S, NEW n \in S PROVE NonZero(n) \in Option(S)
  BY OptionHas DEF NonZero
<1>3. ASSUME NEW S, NEW f \in Option(S)
      PROVE  NonZero(FieldValue(f)) = f <=> f # <<0>>
  <2>1. <<0>> # Absent /\ <<0>>[1] = 0
    BY 0 \in {0}, OptionHas
  <2>2. CASE f = Absent
    BY <2>1, <2>2 DEF FieldValue, NonZero
  <2>3. CASE f # Absent /\ f = <<f[1]>>
    <3>1. FieldValue(f) = f[1]
      BY <2>3 DEF FieldValue
    <3>2. f[1] = 0 <=> f = <<0>>
      BY <2>1, <2>3
    <3>3. QED
      BY <2>3, <3>1, <3>2 DEF NonZero
  <2>4. QED
    BY <2>2, <2>3, OptionIs
<1>4. QED
  BY <1>1, <1>2, <1>3

(* A triple of numbers on the wire, and back.                              *)
EncodeTriple(p) == [i \in 1 .. 3 |-> NonZero(Zigzag(p[i]))]
ReadTriple(fields) ==
  [i \in 1 .. 3 |->
     IF fields[i] = Absent THEN 0 ELSE Unzigzag(fields[i][1])]

(* A number in a field, which is written zigzag.                           *)
LEMMA FieldReadBack ==
  /\ \A n \in Int :
       LET f == NonZero(Zigzag(n))
       IN  /\ f \in Option(Nat) /\ (f = Absent <=> n = 0)
           /\ (IF f = Absent THEN 0 ELSE Unzigzag(f[1])) = n
  /\ \A f \in Option(Nat) :
       LET n == IF f = Absent THEN 0 ELSE Unzigzag(f[1])
       IN  n \in Int /\ (NonZero(Zigzag(n)) = f <=> f # <<0>>)
<1>1. ASSUME NEW n \in Int
      PROVE  LET f == NonZero(Zigzag(n))
             IN  /\ f \in Option(Nat) /\ (f = Absent <=> n = 0)
                 /\ (IF f = Absent THEN 0 ELSE Unzigzag(f[1])) = n
  <2> DEFINE u == Zigzag(n)
  <2>1. u \in Nat /\ Unzigzag(u) = n /\ (u = 0 <=> n = 0)
    BY ZigzagReadBack
  <2> HIDE DEF u
  <2>2. /\ FieldValue(NonZero(u)) = u /\ (NonZero(u) = Absent <=> u = 0)
        /\ NonZero(u) \in Option(Nat)
    BY <2>1, NonZeroIs
  <2>3. QED
    BY <2>1, <2>2 DEF FieldValue, u
<1>2. ASSUME NEW f \in Option(Nat)
      PROVE  LET n == IF f = Absent THEN 0 ELSE Unzigzag(f[1])
             IN  n \in Int /\ (NonZero(Zigzag(n)) = f <=> f # <<0>>)
  <2> DEFINE u == FieldValue(f)
             n == IF f = Absent THEN 0 ELSE Unzigzag(f[1])
  <2>1. u \in Nat /\ (f = Absent => u = 0) /\ (f # Absent => u = f[1])
    BY OptionIs DEF FieldValue
  <2>2. NonZero(u) = f <=> f # <<0>>
    BY NonZeroIs
  <2>3. Unzigzag(u) \in Int /\ Zigzag(Unzigzag(u)) = u /\ (Unzigzag(u) = 0 <=> u = 0)
    BY <2>1, UnzigzagWritesBack
  <2>4. n = Unzigzag(u)
    BY <2>1, <2>3
  <2> HIDE DEF u, n
  <2>5. n \in Int /\ (NonZero(Zigzag(n)) = f <=> f # <<0>>)
    BY <2>2, <2>3, <2>4
  <2>6. QED
    BY <2>5 DEF n
<1>3. QED
  BY <1>1, <1>2

(* The fields of an offset of zero, none of which is there.                *)
NoOffset == <<Absent, Absent, Absent>>

(* Each triple of numbers is read back; only zeros have no fields.         *)
LEMMA TripleReadBack ==
  ASSUME NEW p \in [1 .. 3 -> Int]
  PROVE  /\ EncodeTriple(p) \in Triple /\ ReadTriple(EncodeTriple(p)) = p
         /\ EncodeTriple(p) = NoOffset <=> p = <<0, 0, 0>>
         /\ ReadTriple(NoOffset) = <<0, 0, 0>>
<1> DEFINE e == EncodeTriple(p)
           f(i) == NonZero(Zigzag(p[i]))
<1>1. ASSUME NEW i \in 1 .. 3
      PROVE  /\ f(i) \in Option(Nat) /\ (f(i) = Absent <=> p[i] = 0)
             /\ (IF f(i) = Absent THEN 0 ELSE Unzigzag(f(i)[1])) = p[i]
  BY FieldReadBack
<1>2. e = [i \in 1 .. 3 |-> f(i)]
  BY DEF EncodeTriple
<1> HIDE DEF e, f
<1>3. e \in Triple /\ \A i \in 1 .. 3 : e[i] = f(i)
  BY <1>1, <1>2 DEF Triple
<1>4. ReadTriple(e) = p
  BY <1>1, <1>3 DEF ReadTriple
<1>5. e = NoOffset <=> p = <<0, 0, 0>>
  <2>1. e = <<e[1], e[2], e[3]>> /\ p = <<p[1], p[2], p[3]>>
    BY <1>2
  <2>2. e = NoOffset <=> e[1] = Absent /\ e[2] = Absent /\ e[3] = Absent
    BY <2>1 DEF NoOffset
  <2>3. p = <<0, 0, 0>> <=> p[1] = 0 /\ p[2] = 0 /\ p[3] = 0
    BY <2>1
  <2>4. QED
    BY <1>1, <1>3, <2>2, <2>3
<1>6. ReadTriple(NoOffset) = <<0, 0, 0>>
  BY DEF ReadTriple, NoOffset
<1>7. QED
  BY <1>3, <1>4, <1>5, <1>6 DEF e

(* Fields that are read are written so unless one of them holds a zero.    *)
LEMMA TripleRead ==
  ASSUME NEW fields \in Triple
  PROVE  /\ ReadTriple(fields) \in [1 .. 3 -> Int]
         /\ EncodeTriple(ReadTriple(fields)) = fields <=> CanonicalFields(fields)
<1> DEFINE n(i) == IF fields[i] = Absent THEN 0 ELSE Unzigzag(fields[i][1])
<1>1. ASSUME NEW i \in 1 .. 3
      PROVE  n(i) \in Int /\ (NonZero(Zigzag(n(i))) = fields[i] <=> fields[i] # <<0>>)
  <2>1. fields[i] \in Option(Nat)
    BY DEF Triple
  <2>2. QED
    BY <2>1, FieldReadBack
<1>2. ReadTriple(fields) = [i \in 1 .. 3 |-> n(i)]
  BY DEF ReadTriple
<1>3. DOMAIN fields = 1 .. 3 /\ fields = [i \in 1 .. 3 |-> fields[i]]
  BY DEF Triple
<1> HIDE DEF n
<1>4. EncodeTriple(ReadTriple(fields)) = [i \in 1 .. 3 |-> NonZero(Zigzag(n(i)))]
  BY <1>2 DEF EncodeTriple
<1>5. EncodeTriple(ReadTriple(fields)) = fields <=>
        \A i \in 1 .. 3 : NonZero(Zigzag(n(i))) = fields[i]
  BY <1>3, <1>4
<1>6. QED
  BY <1>1, <1>2, <1>3, <1>5 DEF CanonicalFields

(* The offsets of a kind.                                                  *)
OffsetKinds == {"Utc", "FixedOffset", "UtcOffset"}
OffsetsOf(kind) ==
  CASE kind = "Utc" -> Utcs
    [] kind = "FixedOffset" -> FixedOffsets
    [] kind = "UtcOffset" -> UtcOffsets

(* All kinds of offsets at once.                                           *)
LEMMA OffsetsMade ==
  ASSUME NEW kind \in OffsetKinds
  PROVE  /\ \A p \in Byte3 : OffsetMadeOf(kind, OffsetsOf(kind), p)
         /\ \A v \in OffsetsOf(kind) : OffsetMadeBack(kind, v)
<1>1. /\ OffsetsOf("Utc") = Utcs /\ OffsetsOf("FixedOffset") = FixedOffsets
      /\ OffsetsOf("UtcOffset") = UtcOffsets
  BY DEF OffsetsOf
<1>2. CASE kind = "Utc"
  BY <1>1, <1>2, UtcsMade
<1>3. CASE kind = "FixedOffset"
  BY <1>1, <1>3, FixedOffsetsMade
<1>4. CASE kind = "UtcOffset"
  BY <1>1, <1>4, UtcOffsetsMade
<1>5. QED
  BY <1>2, <1>3, <1>4 DEF OffsetKinds

(* Each offset is read back, and what another type reads of it is what     *)
(* that makes of its parts.                                                *)
LEMMA OffsetReadBack ==
  ASSUME NEW kind \in OffsetKinds, NEW v \in OffsetsOf(kind)
  PROVE  /\ v.kind = kind /\ OffsetParts(v) \in Byte3
         /\ EncodeOffset(v) = EncodeTriple(OffsetParts(v))
         /\ EncodeOffset(v) \in Triple
         /\ DecodeOffset(kind, EncodeOffset(v)) = Ok(v)
         /\ \A other : DecodeOffset(other, EncodeOffset(v))
                         = OfOffsetParts(other, OffsetParts(v))
         /\ EncodeOffset(v) = NoOffset =>
              \A other : DecodeOffset(other, NoOffset)
                           = OfOffsetParts(other, OffsetParts(v))
<1> DEFINE p == OffsetParts(v)
<1>1. /\ v.kind = kind /\ p \in Byte3 /\ OfOffsetParts(kind, p) = Ok(v)
      /\ p \in [1 .. 3 -> Int] /\ \A i \in 1 .. 3 : p[i] \in I8
  BY OffsetsMade, ByteRange DEF OffsetMadeBack, Byte3
<1>2. EncodeOffset(v) = EncodeTriple(p)
  BY DEF EncodeOffset, EncodeTriple
<1> HIDE DEF p
<1>3. /\ EncodeTriple(p) \in Triple /\ ReadTriple(EncodeTriple(p)) = p
  BY <1>1, TripleReadBack
<1>4. ASSUME NEW other
      PROVE  DecodeOffset(other, EncodeTriple(p)) = OfOffsetParts(other, p)
  <2> DEFINE e == EncodeTriple(p)
  <2> HIDE DEF e
  <2>1. ReadTriple(e) = p
    BY <1>3 DEF e
  <2>2. DecodeOffset(other, e) =
          IF \E i \in 1 .. 3 : ReadTriple(e)[i] \notin I8
          THEN Err("OutOfDomainValue") ELSE OfOffsetParts(other, ReadTriple(e))
    BY DEF DecodeOffset, ReadTriple
  <2>3. QED
    BY <1>1, <2>1, <2>2 DEF e
<1>5. QED
  BY <1>1, <1>2, <1>3, <1>4 DEF p

(* What a triple is read as is encoded as that triple exactly if none of   *)
(* its fields holds a zero.                                                *)
LEMMA OffsetRead ==
  ASSUME NEW kind \in OffsetKinds, NEW fields \in Triple,
         DecodeOffset(kind, fields).error = "none"
  PROVE  LET v == DecodeOffset(kind, fields).value
         IN  /\ DecodeOffset(kind, fields) = Ok(v) /\ v \in OffsetsOf(kind)
             /\ EncodeOffset(v) = fields <=> CanonicalFields(fields)
<1> DEFINE p == ReadTriple(fields)
           v == DecodeOffset(kind, fields).value
<1>1. DecodeOffset(kind, fields) =
        IF \E i \in 1 .. 3 : p[i] \notin I8
        THEN Err("OutOfDomainValue") ELSE OfOffsetParts(kind, p)
  BY DEF DecodeOffset, ReadTriple
<1>2. /\ p \in [1 .. 3 -> Int]
      /\ EncodeTriple(p) = fields <=> CanonicalFields(fields)
  BY TripleRead
<1> HIDE DEF p
<1>3. p \in Byte3 /\ DecodeOffset(kind, fields) = OfOffsetParts(kind, p)
  BY <1>1, <1>2, OkOrErr DEF Byte3
<1>4. /\ DecodeOffset(kind, fields) = Ok(v) /\ v \in OffsetsOf(kind)
      /\ OffsetParts(v) = p
  BY <1>3, OffsetsMade DEF OffsetMadeOf
<1>5. EncodeOffset(v) = EncodeTriple(p)
  BY <1>4 DEF EncodeOffset, EncodeTriple
<1>6. QED
  BY <1>2, <1>4, <1>5

-----------------------------------------------------------------------------
(* Reading lists, and pairs of a list and an offset.                       *)

(* The values of a kind that is encoded as a list.                         *)
ListsOf(kind) ==
  CASE kind = "NaiveDate" -> NaiveDates
    [] kind = "Date" -> Dates
    [] kind = "NaiveTime" -> NaiveTimes
    [] kind = "Time" -> Times
    [] kind = "NaiveDateTime" -> NaiveDateTimes
    [] kind = "PrimitiveDateTime" -> PrimitiveDateTimes
    [] kind = "std" -> Stds
    [] kind = "system" -> SystemTime

(* All kinds that are lists of numbers at once.                            *)
LEMMA ListsMade ==
  ASSUME NEW kind \in ListKinds
  PROVE  /\ \A v \in ListsOf(kind) : MadeBack(kind, v)
         /\ kind # "system" =>
              \A arr \in Parts(kind) : MadeOf(kind, ListsOf(kind), arr)
         /\ \A arr \in Parts(kind) :
              LET result == OfListParts(kind, arr)
              IN  result.error = "none" =>
                    result = Ok(result.value) /\ result.value \in ListsOf(kind)
<1>1. CASE kind = "NaiveDate"
  BY <1>1, DatesMade DEF ListsOf, MadeOf
<1>2. CASE kind = "Date"
  BY <1>2, DatesMade DEF ListsOf, MadeOf
<1>3. CASE kind = "NaiveTime"
  BY <1>3, TimesMade DEF ListsOf, MadeOf
<1>4. CASE kind = "Time"
  BY <1>4, TimesMade DEF ListsOf, MadeOf
<1>5. CASE kind = "NaiveDateTime"
  BY <1>5, NaiveDateTimesMade DEF ListsOf, MadeOf
<1>6. CASE kind = "PrimitiveDateTime"
  BY <1>6, PrimitiveDateTimesMade DEF ListsOf, MadeOf
<1>7. CASE kind = "std"
  BY <1>7, StdsMade DEF ListsOf, MadeOf
<1>8. CASE kind = "system"
  BY <1>8, SystemsMade DEF ListsOf
<1>9. QED
  BY <1>1, <1>2, <1>3, <1>4, <1>5, <1>6, <1>7, <1>8 DEF ListKinds

(* Each value is read back, by every type whose proxy has as many numbers  *)
(* as that makes of these.                                                 *)
LEMMA DateReadBack ==
  ASSUME NEW kind \in ListKinds, NEW v \in ListsOf(kind)
  PROVE  LET list == EncodeList(kind, ListParts(v))
         IN  /\ v.kind = kind /\ list \in Seq(Nat)
             /\ DecodeDate(kind, list) = Ok(v)
             /\ \A other \in ListKinds : ListTypes[other] = ListTypes[kind] =>
                  /\ DecodeDate(other, list) = OfListParts(other, ListParts(v))
                  /\ EncodeList(other, ListParts(v)) = list
<1> DEFINE arr == ListParts(v)
           list == EncodeList(kind, arr)
           n == Length(kind)
<1>1. v.kind = kind /\ arr \in Parts(kind) /\ OfListParts(kind, arr) = Ok(v)
  BY ListsMade DEF MadeBack
<1> HIDE DEF arr
<1>2. ASSUME NEW other \in ListKinds, ListTypes[other] = ListTypes[kind]
      PROVE  /\ DecodeDate(other, list) = OfListParts(other, arr)
             /\ EncodeList(other, arr) = list
             /\ list \in Seq(Nat)
  <2>1. /\ Length(other) = n /\ Items(other) = Items(kind)
        /\ Signed(other) = Signed(kind) /\ n \in Nat
    BY <1>2, SignedIs DEF Length, Items, Signed
  <2>2. arr \in [1 .. n -> Items(other)] /\ n <= Length(other)
    BY <1>1, <2>1 DEF Parts
  <2>3. Padded(arr, n, Length(other)) = arr
    <3> HIDE DEF n
    <3>1. QED
      BY <2>1, <2>2 DEF Padded
  <2> HIDE DEF n, list
  <2>4. /\ EncodeList(kind, arr) \in Seq(Nat)
        /\ DecodeList(other, EncodeList(kind, arr)) = Ok(arr)
        /\ EncodeList(other, arr) = EncodeList(kind, arr)
    BY <2>1, <2>2, <2>3, ListReadBack
  <2>5. DecodeDate(other, EncodeList(kind, arr)) = OfListParts(other, arr)
    <3> DEFINE l == EncodeList(kind, arr)
    <3> HIDE DEF l
    <3>1. DecodeList(other, l) = Ok(arr)
      BY <2>4 DEF l
    <3>2. DecodeDate(other, l) = OfListParts(other, arr)
      BY <3>1, OkOrErr DEF DecodeDate
    <3>3. QED
      BY <3>2 DEF l
  <2>6. QED
    BY <2>4, <2>5 DEF list
<1>3. list \in Seq(Nat) /\ DecodeDate(kind, list) = Ok(v)
  BY <1>1, <1>2
<1>4. QED
  BY <1>1, <1>2, <1>3 DEF arr

(* What a list is read as is encoded as that list exactly if the list does *)
(* not end in a zero.                                                      *)
LEMMA DateRead ==
  ASSUME NEW kind \in ListKinds, NEW data \in Seq(Nat),
         DecodeDate(kind, data).error = "none"
  PROVE  LET v == DecodeDate(kind, data).value
         IN  /\ DecodeDate(kind, data) = Ok(v) /\ v \in ListsOf(kind)
             /\ kind # "system" =>
                  (EncodeList(kind, ListParts(v)) = data <=> CanonicalList(data))
<1> DEFINE read == DecodeList(kind, data)
           arr == read.value
           v == DecodeDate(kind, data).value
<1>1. DecodeDate(kind, data) = IF read.error # "none" THEN read
                               ELSE OfListParts(kind, arr)
  BY DEF DecodeDate
<1>2. read.error = "none" /\ DecodeDate(kind, data) = OfListParts(kind, arr)
  BY <1>1
<1>3. arr \in Parts(kind) /\ (EncodeList(kind, arr) = data <=> CanonicalList(data))
  BY <1>2, ListRead
<1> HIDE DEF read, arr
<1>4. DecodeDate(kind, data) = Ok(v) /\ v \in ListsOf(kind)
  BY <1>2, <1>3, ListsMade
<1>5. kind # "system" => ListParts(v) = arr
  BY <1>2, <1>3, ListsMade DEF MadeOf
<1>6. QED
  BY <1>3, <1>4, <1>5

(* A part of a pair is there unless it is empty.                           *)
Part(x, empty) == IF x = empty THEN Absent ELSE <<x>>
PartOr(f, empty) == IF f = Absent THEN empty ELSE f[1]

(* A part is read back; one that is read is written so unless it is empty. *)
LEMMA PartIs ==
  ASSUME NEW S, NEW empty \in S
  PROVE  /\ \A x \in S : Part(x, empty) \in Option(S)
                           /\ PartOr(Part(x, empty), empty) = x
         /\ \A f \in Option(S) :
              /\ PartOr(f, empty) \in S
              /\ Part(PartOr(f, empty), empty) = f
                   <=> (f # Absent => f[1] # empty)
<1>1. ASSUME NEW x \in S
      PROVE  Part(x, empty) \in Option(S) /\ PartOr(Part(x, empty), empty) = x
  <2>1. <<x>> \in Option(S) /\ Absent \in Option(S) /\ <<x>> # Absent
        /\ <<x>>[1] = x
    BY OptionHas
  <2>2. QED
    BY <2>1 DEF Part, PartOr
<1>2. ASSUME NEW f \in Option(S)
      PROVE  /\ PartOr(f, empty) \in S
             /\ Part(PartOr(f, empty), empty) = f <=> (f # Absent => f[1] # empty)
  <2>1. CASE f = Absent
    BY <2>1 DEF Part, PartOr
  <2>2. CASE f # Absent /\ f[1] \in S /\ f = <<f[1]>>
    <3>1. PartOr(f, empty) = f[1]
      BY <2>2 DEF PartOr
    <3>2. QED
      BY <2>2, <3>1 DEF Part
  <2>3. QED
    BY <2>1, <2>2, OptionIs
<1>3. QED
  BY <1>1, <1>2

(* Pairs of a date-time and an offset.                                     *)
PairKinds == {"DateTimeUtc", "DateTimeFixed", "OffsetDateTime"}
PairsOf(kind) == Aware(kind, ListsOf(PairOf(kind)[1]), OffsetsOf(PairOf(kind)[2]))

(* What each kind of pair is a pair of.                                    *)
LEMMA PairKindsAre ==
  /\ PairOf("DateTimeUtc") = <<"NaiveDateTime", "Utc">>
  /\ PairOf("DateTimeFixed") = <<"NaiveDateTime", "FixedOffset">>
  /\ PairOf("OffsetDateTime") = <<"PrimitiveDateTime", "UtcOffset">>
  /\ \A kind \in PairKinds :
       /\ PairOf(kind)[1] \in {"NaiveDateTime", "PrimitiveDateTime"}
       /\ PairOf(kind)[1] \in ListKinds /\ PairOf(kind)[1] # "system"
       /\ PairOf(kind)[2] \in OffsetKinds
       /\ Form(kind) = "pair"
  /\ PairsOf("DateTimeUtc") = Aware("DateTimeUtc", NaiveDateTimes, Utcs)
  /\ PairsOf("DateTimeFixed") = Aware("DateTimeFixed", NaiveDateTimes, FixedOffsets)
  /\ PairsOf("OffsetDateTime") =
       Aware("OffsetDateTime", PrimitiveDateTimes, UtcOffsets)
<1>1. /\ PairOf("DateTimeUtc") = <<"NaiveDateTime", "Utc">>
      /\ PairOf("DateTimeFixed") = <<"NaiveDateTime", "FixedOffset">>
      /\ PairOf("OffsetDateTime") = <<"PrimitiveDateTime", "UtcOffset">>
  BY DEF PairOf, DateTimePair, OffsetDateTimePair
<1>2. \A kind \in PairKinds :
       /\ PairOf(kind)[1] \in {"NaiveDateTime", "PrimitiveDateTime"}
       /\ PairOf(kind)[1] \in ListKinds /\ PairOf(kind)[1] # "system"
       /\ PairOf(kind)[2] \in OffsetKinds
  BY <1>1 DEF PairKinds, ListKinds, OffsetKinds
<1>3. \A kind \in PairKinds : Form(kind) = "pair"
  BY ListTypesAre DEF PairKinds, ListKinds, Form
<1>4. /\ ListsOf("NaiveDateTime") = NaiveDateTimes
      /\ ListsOf("PrimitiveDateTime") = PrimitiveDateTimes
      /\ OffsetsOf("Utc") = Utcs /\ OffsetsOf("FixedOffset") = FixedOffsets
      /\ OffsetsOf("UtcOffset") = UtcOffsets
  BY DEF ListsOf, OffsetsOf
<1>5. QED
  BY <1>1, <1>2, <1>3, <1>4 DEF PairsOf

(* A date-time as it is written, and what is read in its place.            *)
WrittenDate(v) == EncodeList(v.datetime.kind, ListParts(v.datetime))
ReadDate(data) == PartOr(data[1], <<>>)
ReadOffset(data) == PartOr(data[2], NoOffset)

(* What both parts of a pair are made into, if they are made at all.       *)
PairOfParts(kind, date, offset) ==
  IF date.error # "none" THEN date
  ELSE IF offset.error = "none"
  THEN Ok([kind |-> kind, datetime |-> date.value, offset |-> offset.value])
  ELSE offset

(* The encoding and the decoder of a pair, in these words.                 *)
LEMMA PairIs ==
  ASSUME NEW kind \in PairKinds
  PROVE  /\ \A v : v.kind = kind =>
              Encoded(v) = <<Part(WrittenDate(v), <<>>),
                             Part(EncodeOffset(v.offset), NoOffset)>>
         /\ \A data : Decoded(kind, data) =
              PairOfParts(kind, DecodeDate(PairOf(kind)[1], ReadDate(data)),
                          DecodeOffset(PairOf(kind)[2], ReadOffset(data)))
<1>1. Form(kind) = "pair"
  BY PairKindsAre
<1>2. ASSUME NEW v, v.kind = kind
      PROVE  Encoded(v) = <<Part(WrittenDate(v), <<>>),
                            Part(EncodeOffset(v.offset), NoOffset)>>
  BY <1>1, <1>2 DEF Encoded, Part, WrittenDate, NoOffset
<1>3. ASSUME NEW data
      PROVE  Decoded(kind, data) =
              PairOfParts(kind, DecodeDate(PairOf(kind)[1], ReadDate(data)),
                          DecodeOffset(PairOf(kind)[2], ReadOffset(data)))
  <2>1. Decoded(kind, data) =
          LET kinds == PairOf(kind)
              date == DecodeDate(kinds[1], ReadDate(data))
              offset == DecodeOffset(kinds[2], ReadOffset(data))
              with(o) == [kind |-> kind, datetime |-> date.value, offset |-> o]
          IN  IF date.error # "none" THEN date ELSE Then(offset, with)
    BY <1>1 DEF Decoded, ReadDate, ReadOffset, PartOr, NoOffset
  <2>2. QED
    BY <2>1 DEF Then, PairOfParts
<1>4. QED
  BY <1>2, <1>3

(* Each pair is read back; another type with the same date-times makes of  *)
(* the offset what it makes of its parts.                                  *)
LEMMA PairReadBack ==
  ASSUME NEW kind \in PairKinds, NEW v \in PairsOf(kind)
  PROVE  /\ v.kind = kind /\ Encoded(v) \in WireData("pair")
         /\ v = [kind |-> kind, datetime |-> v.datetime, offset |-> v.offset]
         /\ v.datetime \in ListsOf(PairOf(kind)[1])
         /\ v.offset \in OffsetsOf(PairOf(kind)[2])
         /\ Decoded(kind, Encoded(v)) = Ok(v)
         /\ \A other \in PairKinds : PairOf(other)[1] = PairOf(kind)[1] =>
              Decoded(other, Encoded(v)) =
                PairOfParts(other, Ok(v.datetime),
                            OfOffsetParts(PairOf(other)[2], OffsetParts(v.offset)))
<1> DEFINE k1 == PairOf(kind)[1]
           k2 == PairOf(kind)[2]
           list == WrittenDate(v)
           triple == EncodeOffset(v.offset)
           data == Encoded(v)
<1>1. k1 \in ListKinds /\ k2 \in OffsetKinds
  BY PairKindsAre
<1>2. /\ v.kind = kind /\ v.datetime \in ListsOf(k1) /\ v.offset \in OffsetsOf(k2)
      /\ v = [kind |-> kind, datetime |-> v.datetime, offset |-> v.offset]
  BY DEF PairsOf, Aware
<1>3. list \in Seq(Nat) /\ DecodeDate(k1, list) = Ok(v.datetime)
  BY <1>1, <1>2, DateReadBack DEF WrittenDate
<1>4. /\ triple \in Triple /\ DecodeOffset(k2, triple) = Ok(v.offset)
      /\ \A other : DecodeOffset(other, triple)
                      = OfOffsetParts(other, OffsetParts(v.offset))
  BY <1>1, <1>2, OffsetReadBack
<1>5. data = <<Part(list, <<>>), Part(triple, NoOffset)>>
  BY <1>2, PairIs
<1>6. <<>> \in Seq(Nat) /\ NoOffset \in Triple
  <2>1. Absent \in Option(Nat)
    BY DEF Option
  <2>2. QED
    BY <2>1, EmptySeq DEF NoOffset, Triple
<1> HIDE DEF k1, k2, list, triple, data
<1>7. data[1] = Part(list, <<>>) /\ data[2] = Part(triple, NoOffset)
  BY <1>5
<1>8. ReadDate(data) = list /\ ReadOffset(data) = triple
  <2>1. PartOr(Part(list, <<>>), <<>>) = list
    <3>1. \A S : \A e \in S : \A x \in S : PartOr(Part(x, e), e) = x
      BY PartIs
    <3>2. <<>> \in Seq(Nat) /\ list \in Seq(Nat)
      BY <1>3, <1>6
    <3>3. QED
      BY ONLY <3>1, <3>2
  <2>2. PartOr(Part(triple, NoOffset), NoOffset) = triple
    BY <1>4, <1>6, PartIs
  <2>3. QED
    BY <1>7, <2>1, <2>2 DEF ReadDate, ReadOffset
<1>9. data \in WireData("pair")
  <2>1. /\ Part(list, <<>>) \in Option(Seq(Nat))
        /\ Part(triple, NoOffset) \in Option(Triple)
    BY <1>3, <1>4, <1>6, PartIs
  <2>2. QED
    BY <1>5, <2>1 DEF WireData
<1>10. ASSUME NEW other \in PairKinds, PairOf(other)[1] = k1
       PROVE  Decoded(other, data) =
                PairOfParts(other, Ok(v.datetime),
                            OfOffsetParts(PairOf(other)[2], OffsetParts(v.offset)))
  BY <1>3, <1>4, <1>8, <1>10, PairIs
<1>11. Decoded(kind, data) = Ok(v)
  <2>1. Decoded(kind, data) = PairOfParts(kind, Ok(v.datetime), Ok(v.offset))
    BY <1>3, <1>4, <1>8, PairIs DEF k1, k2
  <2>2. PairOfParts(kind, Ok(v.datetime), Ok(v.offset)) =
          Ok([kind |-> kind, datetime |-> v.datetime, offset |-> v.offset])
    BY OkOrErr DEF PairOfParts
  <2>3. QED
    BY <1>2, <2>1, <2>2
<1>12. QED
  BY <1>2, <1>9, <1>10, <1>11 DEF k1, k2, data

(* What a pair is read as is encoded as that pair exactly if neither part  *)
(* is there and empty, or is not canonical itself.                         *)
LEMMA PairRead ==
  ASSUME NEW kind \in PairKinds, NEW data \in WireData("pair"),
         Decoded(kind, data).error = "none"
  PROVE  LET v == Decoded(kind, data).value
         IN  /\ Decoded(kind, data) = Ok(v) /\ v \in PairsOf(kind)
             /\ Encoded(v) = data <=> CanonicalEncoding("pair", data)
<1> DEFINE k1 == PairOf(kind)[1]
           k2 == PairOf(kind)[2]
           list == ReadDate(data)
           fields == ReadOffset(data)
           date == DecodeDate(k1, list)
           offset == DecodeOffset(k2, fields)
           v == [kind |-> kind, datetime |-> date.value, offset |-> offset.value]
<1>1. k1 \in ListKinds /\ k1 # "system" /\ k2 \in OffsetKinds
  BY PairKindsAre
<1>2. Decoded(kind, data) = PairOfParts(kind, date, offset)
  BY PairIs
<1>3. /\ <<>> \in Seq(Nat) /\ NoOffset \in Triple
  <2>1. Absent \in Option(Nat)
    BY DEF Option
  <2>2. QED
    BY <2>1, EmptySeq DEF NoOffset, Triple
<1>4. /\ data = <<data[1], data[2]>>
      /\ data[1] \in Option(Seq(Nat)) /\ data[2] \in Option(Triple)
  BY DEF WireData
<1>5. /\ list \in Seq(Nat) /\ fields \in Triple
      /\ Part(list, <<>>) = data[1] <=> (data[1] # Absent => data[1][1] # <<>>)
      /\ Part(fields, NoOffset) = data[2]
           <=> (data[2] # Absent => data[2][1] # NoOffset)
  <2>1. list = PartOr(data[1], <<>>) /\ fields = PartOr(data[2], NoOffset)
    BY DEF ReadDate, ReadOffset
  <2> HIDE DEF list, fields
  <2>2. /\ PartOr(data[1], <<>>) \in Seq(Nat)
        /\ Part(PartOr(data[1], <<>>), <<>>) = data[1]
             <=> (data[1] # Absent => data[1][1] # <<>>)
    BY <1>3, <1>4, PartIs, ZenonT(60)
  <2>3. /\ PartOr(data[2], NoOffset) \in Triple
        /\ Part(PartOr(data[2], NoOffset), NoOffset) = data[2]
             <=> (data[2] # Absent => data[2][1] # NoOffset)
    BY <1>3, <1>4, PartIs
  <2> QED
    BY ONLY <2>1, <2>2, <2>3
<1>6. /\ date.error = "none" /\ offset.error = "none" /\ Decoded(kind, data) = Ok(v)
  <2> HIDE DEF date, offset
  <2>1. QED
    BY <1>2 DEF PairOfParts
<1>7. /\ date.value \in ListsOf(k1)
      /\ EncodeList(k1, ListParts(date.value)) = list <=> CanonicalList(list)
  BY <1>1, <1>5, <1>6, DateRead
<1>8. /\ offset.value \in OffsetsOf(k2)
      /\ EncodeOffset(offset.value) = fields <=> CanonicalFields(fields)
  BY <1>1, <1>5, <1>6, OffsetRead
<1> DEFINE d == date.value
           o == offset.value
           written == EncodeList(k1, ListParts(d))
<1> HIDE DEF d, o, written
<1>9. v = [kind |-> kind, datetime |-> d, offset |-> o]
  BY DEF d, o
<1>10. d.kind = k1 /\ written \in Seq(Nat) /\ EncodeOffset(o) \in Triple
  BY <1>1, <1>7, <1>8, DateReadBack, OffsetReadBack DEF d, o, written
<1>11. /\ written = list <=> CanonicalList(list)
       /\ EncodeOffset(o) = fields <=> CanonicalFields(fields)
  BY <1>7, <1>8 DEF d, o, written
<1>12. v \in PairsOf(kind)
  BY <1>7, <1>8, <1>9 DEF PairsOf, Aware, d, o
<1> HIDE DEF date, offset, list, fields, v, k1, k2
<1>13. Encoded(v) = <<Part(written, <<>>), Part(EncodeOffset(o), NoOffset)>>
  <2>1. v.kind = kind /\ v.datetime = d /\ v.offset = o
    BY <1>9
  <2>2. WrittenDate(v) = written
    BY <1>10, <2>1 DEF WrittenDate, written
  <2>3. QED
    BY <2>1, <2>2, PairIs
<1>14. CanonicalEncoding("pair", data) <=>
         /\ data[1] # Absent => data[1][1] # <<>> /\ CanonicalList(data[1][1])
         /\ data[2] # Absent =>
              data[2][1] # NoOffset /\ CanonicalFields(data[2][1])
  BY DEF CanonicalEncoding, NoOffset
<1>15. Part(written, <<>>) = data[1] <=>
         (data[1] # Absent => data[1][1] # <<>> /\ CanonicalList(data[1][1]))
  <2>1. PartOr(Part(written, <<>>), <<>>) = written
    <3>1. \A S : \A e \in S : \A x \in S : PartOr(Part(x, e), e) = x
      BY PartIs
    <3>2. <<>> \in Seq(Nat) /\ written \in Seq(Nat)
      BY <1>3, <1>10
    <3>3. QED
      BY ONLY <3>1, <3>2
  <2>2. list = PartOr(data[1], <<>>)
    BY DEF list, ReadDate
  <2>3. CASE data[1] = Absent
    <3>1. list = <<>> /\ CanonicalList(list)
      BY <2>2, <2>3 DEF PartOr, CanonicalList
    <3>2. written = <<>>
      BY <1>11, <3>1
    <3>3. QED
      BY <2>3, <3>2 DEF Part
  <2>4. CASE data[1] # Absent
    <3>1. list = data[1][1]
      BY <2>2, <2>4 DEF PartOr
    <3>2. Part(written, <<>>) = data[1] => written = list
      BY <2>1, <2>2
    <3>3. QED
      BY <1>5, <1>11, <2>4, <3>1, <3>2
  <2>5. QED
    BY <2>3, <2>4
<1>16. Part(EncodeOffset(o), NoOffset) = data[2] <=>
         (data[2] # Absent => data[2][1] # NoOffset /\ CanonicalFields(data[2][1]))
  <2> DEFINE triple == EncodeOffset(o)
  <2> HIDE DEF triple
  <2>1. PartOr(Part(triple, NoOffset), NoOffset) = triple
    BY <1>3, <1>10, PartIs DEF triple
  <2>2. fields = PartOr(data[2], NoOffset)
    BY DEF fields, ReadOffset
  <2>3. triple = fields <=> CanonicalFields(fields)
    BY <1>11 DEF triple
  <2>4. CASE data[2] = Absent
    <3>1. fields = NoOffset
      BY <2>2, <2>4 DEF PartOr
    <3>2. CanonicalFields(NoOffset)
      <4>1. <<0>> # Absent
        BY 0 \in {0}, OptionHas
      <4>2. DOMAIN NoOffset = 1 .. 3 /\ \A i \in 1 .. 3 : NoOffset[i] = Absent
        BY DEF NoOffset
      <4>3. QED
        BY <4>1, <4>2 DEF CanonicalFields
    <3>3. triple = NoOffset
      BY <2>3, <3>1, <3>2
    <3>4. QED
      BY <2>4, <3>3 DEF Part, triple
  <2>5. CASE data[2] # Absent
    <3>1. fields = data[2][1]
      BY <2>2, <2>5 DEF PartOr
    <3>2. Part(triple, NoOffset) = data[2] => triple = fields
      BY <2>1, <2>2
    <3>3. QED
      BY <1>5, <2>3, <2>5, <3>1, <3>2 DEF triple
  <2>6. QED
    BY <2>4, <2>5
<1>17. Encoded(v) = data <=> CanonicalEncoding("pair", data)
  BY <1>4, <1>13, <1>14, <1>15, <1>16
<1>18. Decoded(kind, data).value = v /\ Decoded(kind, data) = Ok(v)
  BY <1>6, OkOrErr
<1>19. QED
  BY <1>12, <1>17, <1>18

-----------------------------------------------------------------------------
(* Durations on the wire.                                                  *)

(* The kinds of durations, and their values.                               *)
DeltaKinds == {"TimeDelta", "TimeDuration", "duration"}
DeltasOf(kind) ==
  CASE kind = "TimeDelta" -> TimeDeltas
    [] kind = "TimeDuration" -> TimeDurations
    [] kind = "duration" -> Duration

(* Two numbers that differ in sign.                                        *)
LEMMA MixedIs ==
  ASSUME NEW a \in Int, NEW b \in Int
  PROVE  MixedSigns(<<a, b>>) <=> (a < 0 /\ b > 0) \/ (a > 0 /\ b < 0)
<1>1. Len(<<a, b>>) = 2 /\ <<a, b>>[1] = a /\ <<a, b>>[2] = b
  OBVIOUS
<1>2. 1 .. 2 = {1, 2}
  OBVIOUS
<1>3. MixedSigns(<<a, b>>) <=> (a < 0 \/ b < 0) /\ (a > 0 \/ b > 0)
  BY <1>1, <1>2 DEF MixedSigns
<1>4. QED
  BY <1>3

(* What the parts of a duration are made into: seconds and nanoseconds, of *)
(* the same time, if they do not differ in sign and the type holds it.     *)
DeltaAccepts(kind, s, n) ==
  \/ kind = "duration"
  \/ /\ kind \in {"TimeDelta", "TimeDuration"}
     /\ ~ MixedSigns(<<s, n>>) /\ n \in -NANOS_MAX .. NANOS_MAX
     /\ kind = "TimeDelta" =>
          s * NANOS_PER_SECOND + n \in -ChronoDeltaMax .. ChronoDeltaMax

DeltaMade(kind, s, n) ==
  LET result == OfDeltaParts(kind, s, n)
  IN  /\ result.error = "none" <=> DeltaAccepts(kind, s, n)
      /\ result.error = "none" =>
           /\ result = Ok(result.value) /\ result.value \in DeltasOf(kind)
           /\ DeltaParts(result.value) = <<s, n>>
           /\ Total(result.value) = s * NANOS_PER_SECOND + n

(* The seconds and nanoseconds of chrono.                                  *)
LEMMA TimeDeltaMade ==
  ASSUME NEW s \in I64, NEW n \in I32
  PROVE  DeltaMade("TimeDelta", s, n)
<1> DEFINE N == NANOS_PER_SECOND
           M == ChronoDeltaMax
<1>1. /\ N \in Nat \ {0, 1} /\ I64Max \in Nat /\ I32Max \in Nat /\ M \in Nat
      /\ M <= I64Max * N /\ s \in Int /\ n \in Int /\ NANOS_MAX = N - 1
      /\ s \in -I64Max - 1 .. I64Max /\ Subsecond = 0 .. N - 1
  BY Widths, ForeignTimeAssumption DEF NANOS_MAX, Subsecond, I64
<1>2. OfDeltaParts("TimeDelta", s, n) = TimeDeltaOf(s, n)
  BY DEF OfDeltaParts
<1>3. DeltaAccepts("TimeDelta", s, n) <=>
        /\ ~ MixedSigns(<<s, n>>) /\ n \in -(N - 1) .. N - 1
        /\ s * N + n \in -M .. M
  BY <1>1 DEF DeltaAccepts
<1>4. MixedSigns(<<s, n>>) <=> (s < 0 /\ n > 0) \/ (s > 0 /\ n < 0)
  BY <1>1, MixedIs
<1>5. DeltasOf("TimeDelta") = TimeDeltas
  BY DEF DeltasOf
<1>6. ASSUME NEW a \in I64, NEW b \in Subsecond, a * N + b \in -M .. M,
             DeltaParts([kind |-> "TimeDelta", seconds |-> a, nanos |-> b])
               = <<s, n>>,
             a * N + b = s * N + n
      PROVE  LET v == [kind |-> "TimeDelta", seconds |-> a, nanos |-> b]
             IN  /\ NewTimeDelta(a, b) = Ok(v) /\ v \in TimeDeltas
                 /\ DeltaParts(v) = <<s, n>>
                 /\ Total(v) = s * N + n
  BY <1>6 DEF NewTimeDelta, TimeDeltas, Total
<1> HIDE DEF N, M
<1>7. CASE s \in -I64Max .. 0 /\ n \in -(N - 1) .. -1
  <2> DEFINE v == [kind |-> "TimeDelta", seconds |-> s - 1, nanos |-> n + N]
  <2>1. TimeDeltaOf(s, n) = NewTimeDelta(s - 1, n + N)
    BY <1>1, <1>7 DEF TimeDeltaOf, N
  <2>2. (s - 1) * N + (n + N) = s * N + n
    BY <1>1
  <2>3. s - 1 \in I64 /\ n + N \in Subsecond
    BY <1>1, <1>7 DEF I64
  <2>4. DeltaParts(v) = <<s, n>>
    <3>1. v.seconds < 0 /\ v.nanos > 0 /\ v.seconds + 1 = s /\ v.nanos - N = n
      BY <1>1, <1>7
    <3>2. DeltaParts(v) = <<v.seconds + 1, v.nanos - N>>
      BY <3>1 DEF DeltaParts, N
    <3>3. QED
      BY <3>1, <3>2
  <2>5. ~ MixedSigns(<<s, n>>) /\ n \in -(N - 1) .. N - 1
    BY <1>1, <1>4, <1>7
  <2>6. CASE s * N + n \in -M .. M
    <3>1. NewTimeDelta(s - 1, n + N) = Ok(v) /\ v \in TimeDeltas
          /\ Total(v) = s * N + n
      BY <1>6, <2>2, <2>3, <2>4, <2>6
    <3>2. QED
      BY <1>2, <1>3, <1>5, <2>1, <2>4, <2>5, <2>6, <3>1, OkOrErr DEF DeltaMade, N
  <2>7. CASE s * N + n \notin -M .. M
    <3>1. NewTimeDelta(s - 1, n + N) = Err("OutOfDomainValue")
      BY <2>2, <2>7 DEF NewTimeDelta, N, M
    <3>2. QED
      BY <1>2, <1>3, <2>1, <2>7, <3>1, OkOrErr DEF DeltaMade
  <2>8. QED
    BY <2>6, <2>7
<1>8. CASE n = 0 \/ (s >= 0 /\ n \in Subsecond)
  <2> DEFINE v == [kind |-> "TimeDelta", seconds |-> s, nanos |-> n]
  <2>1. TimeDeltaOf(s, n) = NewTimeDelta(s, n)
    BY <1>1, <1>8 DEF TimeDeltaOf, N
  <2>2. s * N + n = s * N + n /\ n \in Subsecond
    BY <1>1, <1>8
  <2>3. DeltaParts(v) = <<s, n>>
    BY <1>1, <1>8 DEF DeltaParts
  <2>4. ~ MixedSigns(<<s, n>>) /\ n \in -(N - 1) .. N - 1
    BY <1>1, <1>4, <1>8
  <2>5. CASE s * N + n \in -M .. M
    <3>1. NewTimeDelta(s, n) = Ok(v) /\ v \in TimeDeltas
          /\ Total(v) = s * N + n
      BY <1>6, <2>2, <2>3, <2>5
    <3>2. QED
      BY <1>2, <1>3, <1>5, <2>1, <2>3, <2>4, <2>5, <3>1, OkOrErr DEF DeltaMade, N
  <2>6. CASE s * N + n \notin -M .. M
    <3>1. NewTimeDelta(s, n) = Err("OutOfDomainValue")
      BY <2>6 DEF NewTimeDelta, N, M
    <3>2. QED
      BY <1>2, <1>3, <2>1, <2>6, <3>1, OkOrErr DEF DeltaMade
  <2>7. QED
    BY <2>5, <2>6
<1>9. CASE /\ ~ (s \in -I64Max .. 0 /\ n \in -(N - 1) .. -1)
           /\ ~ (n = 0 \/ (s >= 0 /\ n \in Subsecond))
  <2>1. TimeDeltaOf(s, n) = Err("InvalidValue")
    BY <1>1, <1>9 DEF TimeDeltaOf, N
  <2>2. CASE s >= -I64Max
    BY <1>1, <1>2, <1>3, <1>4, <1>9, <2>1, <2>2, OkOrErr DEF DeltaMade
  <2>3. CASE s < -I64Max
    <3>1. s = -I64Max - 1
      BY <1>1, <2>3
    <3>2. CASE n > 0
      BY <1>1, <1>2, <1>3, <1>4, <2>1, <3>1, <3>2, OkOrErr DEF DeltaMade
    <3>3. CASE n < 0
      <4> DEFINE p == I64Max * N
      <4>1. p \in Int /\ M <= p
        BY <1>1 DEF N, M
      <4>2. s * N = -p - N
        BY <1>1, <3>1
      <4> HIDE DEF p
      <4>3. s * N + n < -M
        BY <1>1, <3>3, <4>1, <4>2
      <4>4. s * N + n \notin -M .. M
        BY <1>1, <4>3
      <4>5. QED
        BY <1>2, <1>3, <2>1, <4>4, OkOrErr DEF DeltaMade
    <3>4. QED
      BY <1>1, <1>9, <3>2, <3>3
  <2>4. QED
    BY <1>1, <2>2, <2>3
<1>10. QED
  BY <1>7, <1>8, <1>9

(* Those of time, and those of bilrost-types.                              *)
LEMMA TimeDurationMade ==
  ASSUME NEW s \in I64, NEW n \in I32
  PROVE  DeltaMade("TimeDuration", s, n) /\ DeltaMade("duration", s, n)
<1> DEFINE N == NANOS_PER_SECOND
<1>1. /\ N \in Nat \ {0, 1} /\ s \in Int /\ n \in Int /\ NANOS_MAX = N - 1
      /\ Subsecond = 0 .. N - 1
  BY Widths DEF NANOS_MAX, Subsecond
<1>2. DeltaMade("TimeDuration", s, n)
  <2> DEFINE v == [kind |-> "TimeDuration", seconds |-> s, nanos |-> n]
  <2>1. DeltaAccepts("TimeDuration", s, n) <=>
          ~ MixedSigns(<<s, n>>) /\ n \in -NANOS_MAX .. NANOS_MAX
    BY DEF DeltaAccepts
  <2>2. MixedSigns(<<s, n>>) <=> (s < 0 /\ n > 0) \/ (s > 0 /\ n < 0)
    BY <1>1, MixedIs
  <2>3. DeltaAccepts("TimeDuration", s, n) <=>
          \/ s <= 0 /\ n \in -NANOS_MAX .. 0
          \/ s >= 0 /\ n \in Subsecond
    BY <1>1, <2>1, <2>2
  <2>4. OfDeltaParts("TimeDuration", s, n) =
          IF DeltaAccepts("TimeDuration", s, n) THEN Ok(v) ELSE Err("InvalidValue")
    BY <2>3 DEF OfDeltaParts, TimeDurationOf
  <2>5. DeltaAccepts("TimeDuration", s, n) => v \in DeltasOf("TimeDuration")
    BY <2>1 DEF DeltasOf, TimeDurations
  <2>6. DeltaParts(v) = <<s, n>> /\ Total(v) = s * N + n
    BY DEF DeltaParts, Total
  <2> HIDE DEF v
  <2>7. QED
    BY <2>4, <2>5, <2>6, OkOrErr DEF DeltaMade
<1>3. DeltaMade("duration", s, n)
  <2> DEFINE v == [kind |-> "duration", seconds |-> s, nanos |-> n]
  <2>1. OfDeltaParts("duration", s, n) = Ok(v)
    BY DEF OfDeltaParts
  <2>2. v \in DeltasOf("duration") /\ DeltaAccepts("duration", s, n)
    BY DEF DeltasOf, Duration, DeltaAccepts
  <2>3. DeltaParts(v) = <<s, n>> /\ Total(v) = s * N + n
    BY DEF DeltaParts, Total
  <2> HIDE DEF v
  <2>4. QED
    BY <2>1, <2>2, <2>3, OkOrErr DEF DeltaMade
<1>4. QED
  BY <1>2, <1>3

(* All kinds of durations at once.                                         *)
LEMMA DeltasMade ==
  ASSUME NEW kind \in DeltaKinds, NEW s \in I64, NEW n \in I32
  PROVE  DeltaMade(kind, s, n)
BY TimeDeltaMade, TimeDurationMade DEF DeltaKinds

(* Each duration is made of its parts.                                     *)
LEMMA DeltasMadeBack ==
  ASSUME NEW kind \in DeltaKinds, NEW v \in DeltasOf(kind)
  PROVE  \E s \in I64 : \E n \in I32 :
           /\ DeltaParts(v) = <<s, n>> /\ OfDeltaParts(kind, s, n) = Ok(v)
           /\ Total(v) = s * NANOS_PER_SECOND + n /\ v.kind = kind
           /\ v.seconds \in I64 /\ v.nanos \in I32
           /\ kind # "TimeDelta" => v.seconds = s /\ v.nanos = n
<1> DEFINE N == NANOS_PER_SECOND
<1>1. /\ N \in Nat \ {0, 1} /\ I64Max \in Nat /\ I32Max \in Nat /\ NANOS_MAX = N - 1
      /\ Subsecond = 0 .. N - 1 /\ 2 * N <= I32Max
  BY Widths DEF NANOS_MAX, Subsecond
<1>2. Subsecond \subseteq I32 /\ -NANOS_MAX .. NANOS_MAX \subseteq I32
      /\ I64 \subseteq Int /\ I32 \subseteq Int
  BY <1>1, Widths DEF I32
<1>3. CASE kind = "TimeDelta"
  <2> DEFINE a == v.seconds
             b == v.nanos
  <2>1. /\ v = [kind |-> "TimeDelta", seconds |-> a, nanos |-> b]
        /\ a \in I64 /\ b \in Subsecond /\ v.kind = "TimeDelta"
        /\ Total(v) \in -ChronoDeltaMax .. ChronoDeltaMax
        /\ Total(v) = a * N + b
    BY <1>3 DEF DeltasOf, TimeDeltas, Total
  <2>2. NewTimeDelta(a, b) = Ok(v)
    BY <2>1 DEF NewTimeDelta
  <2>3. \A s, n : OfDeltaParts("TimeDelta", s, n) = TimeDeltaOf(s, n)
    BY DEF OfDeltaParts
  <2>4. DeltaParts(v) = IF a < 0 /\ b > 0 THEN <<a + 1, b - N>> ELSE <<a, b>>
    BY <2>1 DEF DeltaParts
  <2> HIDE DEF a, b, N
  <2>5. CASE a < 0 /\ b > 0
    <3>1. /\ a + 1 \in -I64Max .. 0 /\ b - N \in -NANOS_MAX .. -1
          /\ (a + 1) - 1 = a /\ (b - N) + N = b
          /\ a + 1 \in I64 /\ b - N \in I32
      BY <1>1, <1>2, <2>1, <2>5 DEF I64, I32
    <3>2. TimeDeltaOf(a + 1, b - N) = NewTimeDelta((a + 1) - 1, (b - N) + N)
      BY <3>1 DEF TimeDeltaOf, N
    <3>3. (a + 1) * N + (b - N) = a * N + b
      BY <1>1, <1>2, <2>1
    <3>4. OfDeltaParts(kind, a + 1, b - N) = Ok(v)
      BY <1>3, <2>2, <2>3, <3>1, <3>2
    <3>5. DeltaParts(v) = <<a + 1, b - N>>
      BY <2>4, <2>5
    <3>6. b \in I32
      BY <1>2, <2>1
    <3>7. QED
      BY <1>3, <2>1, <3>1, <3>3, <3>4, <3>5, <3>6 DEF N, a, b
  <2>6. CASE ~ (a < 0 /\ b > 0)
    <3>1. /\ b \notin -NANOS_MAX .. -1 /\ b \in I32
          /\ b = 0 \/ (a >= 0 /\ b \in Subsecond)
      BY <1>1, <1>2, <2>1, <2>6
    <3>2. TimeDeltaOf(a, b) = NewTimeDelta(a, b)
      BY <3>1 DEF TimeDeltaOf
    <3>3. OfDeltaParts(kind, a, b) = Ok(v) /\ DeltaParts(v) = <<a, b>>
      BY <1>3, <2>2, <2>3, <2>4, <2>6, <3>2
    <3>4. QED
      BY <1>3, <2>1, <3>1, <3>3 DEF N, a, b
  <2>7. QED
    BY <2>5, <2>6
<1>4. ASSUME kind \in {"TimeDuration", "duration"}, v.kind = kind,
             v.seconds \in I64, v.nanos \in I32,
             OfDeltaParts(kind, v.seconds, v.nanos) = Ok(v)
      PROVE  /\ DeltaParts(v) = <<v.seconds, v.nanos>>
             /\ Total(v) = v.seconds * N + v.nanos
  BY <1>4 DEF DeltaParts, Total
<1>5. CASE kind = "TimeDuration"
  <2>1. /\ v = [kind |-> "TimeDuration", seconds |-> v.seconds, nanos |-> v.nanos]
        /\ v.seconds \in I64 /\ v.nanos \in -NANOS_MAX .. NANOS_MAX
        /\ v.kind = "TimeDuration" /\ ~ MixedSigns(<<v.seconds, v.nanos>>)
    BY <1>5 DEF DeltasOf, TimeDurations
  <2> DEFINE s == v.seconds
             n == v.nanos
  <2>2. s \in I64 /\ n \in I32 /\ s \in Int /\ n \in Int
    BY <1>2, <2>1
  <2> HIDE DEF s, n
  <2>3. ~ ((s < 0 /\ n > 0) \/ (s > 0 /\ n < 0))
    BY <2>1, <2>2, MixedIs DEF s, n
  <2>4. \/ s <= 0 /\ n \in -NANOS_MAX .. 0
        \/ s >= 0 /\ n \in Subsecond
    BY <1>1, <2>1, <2>2, <2>3 DEF s, n
  <2>5. OfDeltaParts("TimeDuration", s, n)
          = Ok([kind |-> "TimeDuration", seconds |-> s, nanos |-> n])
    BY <2>4 DEF OfDeltaParts, TimeDurationOf
  <2>6. OfDeltaParts(kind, v.seconds, v.nanos) = Ok(v)
    BY <1>5, <2>1, <2>5 DEF s, n
  <2>7. QED
    BY <1>4, <1>5, <2>1, <2>2, <2>6 DEF s, n
<1>6. CASE kind = "duration"
  <2>1. /\ v = [kind |-> "duration", seconds |-> v.seconds, nanos |-> v.nanos]
        /\ v.seconds \in I64 /\ v.nanos \in I32 /\ v.kind = "duration"
    BY <1>6 DEF DeltasOf, Duration
  <2>2. OfDeltaParts(kind, v.seconds, v.nanos) = Ok(v)
    BY <1>6, <2>1 DEF OfDeltaParts
  <2>3. QED
    BY <1>4, <1>6, <2>1, <2>2
<1>7. QED
  BY <1>3, <1>5, <1>6 DEF DeltaKinds

(* The fields of a duration, and the numbers they are read as.             *)
WriteDelta(s, n) == <<NonZero(Zigzag(s)), NonZero(n)>>
ReadSeconds(data) == IF data[1] = Absent THEN 0 ELSE Unzigzag(data[1][1])
ReadNanos(data) == IF data[2] = Absent THEN 0 ELSE data[2][1]

(* The encoding and the decoders of a duration, in these words.            *)
LEMMA DeltaIs ==
  ASSUME NEW kind \in DeltaKinds
  PROVE  /\ Form(kind) = "delta"
         /\ \A v : \A s, n : v.kind = kind /\ DeltaParts(v) = <<s, n>> =>
              Encoded(v) = WriteDelta(s, n)
         /\ \A data : Decoded(kind, data) =
              OfDeltaParts(kind, ReadSeconds(data), ReadNanos(data))
<1>1. Form(kind) = "delta"
  BY ListTypesAre DEF DeltaKinds, ListKinds, Form
<1>2. ASSUME NEW v, NEW s, NEW n, v.kind = kind, DeltaParts(v) = <<s, n>>
      PROVE  Encoded(v) = WriteDelta(s, n)
  <2>1. Encoded(v) = <<NonZero(Zigzag(DeltaParts(v)[1])), NonZero(DeltaParts(v)[2])>>
    BY <1>1, <1>2 DEF Encoded
  <2>2. DeltaParts(v)[1] = s /\ DeltaParts(v)[2] = n
    BY <1>2
  <2>3. QED
    BY <2>1, <2>2 DEF WriteDelta
<1>3. ASSUME NEW data
      PROVE  Decoded(kind, data)
               = OfDeltaParts(kind, ReadSeconds(data), ReadNanos(data))
  BY <1>1 DEF Decoded, ReadSeconds, ReadNanos
<1>4. QED
  BY <1>1, <1>2, <1>3

(* The numbers of a duration are read back.                                *)
LEMMA DeltaFieldsReadBack ==
  ASSUME NEW s \in I64, NEW n \in I32
  PROVE  /\ WriteDelta(s, n) \in WireData("delta")
         /\ ReadSeconds(WriteDelta(s, n)) = s /\ ReadNanos(WriteDelta(s, n)) = n
<1> DEFINE u == Zigzag(s)
           data == WriteDelta(s, n)
<1>1. I64Max \in Nat /\ s \in Int /\ I64 = -I64Max - 1 .. I64Max
      /\ U64 = 0 .. 2 * I64Max + 1
  BY Widths DEF I64, U64
<1>2. Unzigzag(u) = s /\ (u = 0 <=> s = 0)
  BY <1>1, ZigzagReadBack
<1>3. u \in U64
  BY <1>1, ZigzagInRange
<1>4. data = <<NonZero(u), NonZero(n)>>
  BY DEF WriteDelta
<1> HIDE DEF u, data
<1>5. data[1] = NonZero(u) /\ data[2] = NonZero(n)
  BY <1>4
<1>6. NonZero(u) \in Option(U64) /\ NonZero(n) \in Option(I32)
  BY <1>3, NonZeroIs
<1>7. data \in WireData("delta")
  BY <1>4, <1>6 DEF WireData
<1>8. FieldValue(data[1]) = u /\ (data[1] = Absent <=> u = 0)
      /\ FieldValue(data[2]) = n /\ (data[2] = Absent <=> n = 0)
  BY <1>5, NonZeroIs
<1>9. ReadSeconds(data) = s
  BY <1>2, <1>8 DEF ReadSeconds, FieldValue
<1>10. ReadNanos(data) = n
  BY <1>8 DEF ReadNanos, FieldValue
<1>11. QED
  BY <1>7, <1>9, <1>10 DEF data

(* The numbers of any fields are in range, and are written as these fields *)
(* exactly if none of them holds a zero.                                   *)
LEMMA DeltaFieldsRead ==
  ASSUME NEW data \in WireData("delta")
  PROVE  /\ ReadSeconds(data) \in I64 /\ ReadNanos(data) \in I32
         /\ WriteDelta(ReadSeconds(data), ReadNanos(data)) = data
              <=> CanonicalFields(data)
<1> DEFINE s == ReadSeconds(data)
           n == ReadNanos(data)
           u == FieldValue(data[1])
<1>1. /\ data = <<data[1], data[2]>>
      /\ data[1] \in Option(U64) /\ data[2] \in Option(I32)
  BY DEF WireData
<1>2. I64Max \in Nat /\ I32Max \in Nat /\ I64 = -I64Max - 1 .. I64Max
      /\ U64 = 0 .. 2 * I64Max + 1 /\ 0 \in I32
  BY Widths DEF I64, U64, I32
<1>3. u \in U64 /\ (data[1] = Absent => u = 0) /\ (data[1] # Absent => u = data[1][1])
  BY <1>1, <1>2, OptionIs DEF FieldValue
<1>4. n = FieldValue(data[2]) /\ n \in I32
  BY <1>1, <1>2, OptionIs DEF FieldValue, ReadNanos
<1>5. u \in Nat /\ Unzigzag(u) \in Int /\ Zigzag(Unzigzag(u)) = u
      /\ (Unzigzag(u) = 0 <=> u = 0)
  <2>1. u \in Nat
    BY <1>2, <1>3
  <2> HIDE DEF u
  <2>2. QED
    BY <2>1, UnzigzagWritesBack
<1>6. s = Unzigzag(u)
  BY <1>3, <1>5 DEF ReadSeconds
<1> HIDE DEF u, s, n
<1>7. s \in I64 /\ Zigzag(s) = u
  BY <1>2, <1>3, <1>5, <1>6, ZigzagInRange
<1>8. /\ NonZero(u) = data[1] <=> data[1] # <<0>>
      /\ NonZero(n) = data[2] <=> data[2] # <<0>>
  BY <1>1, <1>4, NonZeroIs DEF u
<1>9. WriteDelta(s, n) = <<NonZero(u), NonZero(n)>>
  BY <1>7 DEF WriteDelta
<1>10. CanonicalFields(data) <=> data[1] # <<0>> /\ data[2] # <<0>>
  <2>1. DOMAIN data = 1 .. 2
    BY <1>1
  <2>2. QED
    BY <2>1 DEF CanonicalFields
<1>11. QED
  BY <1>1, <1>4, <1>7, <1>8, <1>9, <1>10 DEF s, n

(* The check of the signs before the value is made refuses nothing that is *)
(* not refused then.                                                       *)
LEMMA ProxyRefusesNoMore ==
  ASSUME NEW kind, Form(kind) = "delta" => kind \in DeltaKinds,
         NEW data, Form(kind) = "delta" => data \in WireData("delta")
  PROVE  DecodedRelaxed(kind, data) = Decoded(kind, data)
<1>1. CASE ~ (Form(kind) = "delta" /\ RefusedByProxy(kind, data))
  BY <1>1 DEF DecodedRelaxed
<1>2. CASE Form(kind) = "delta" /\ RefusedByProxy(kind, data)
  <2> DEFINE s == ReadSeconds(data)
             n == ReadNanos(data)
             N == NANOS_PER_SECOND
  <2>1. /\ kind \in {"TimeDelta", "TimeDuration"} /\ kind \in DeltaKinds
        /\ MixedSigns(<<s, n>>)
    BY <1>2 DEF RefusedByProxy, ReadSeconds, ReadNanos
  <2>2. /\ s \in I64 /\ n \in I32 /\ s \in Int /\ n \in Int
    BY <1>2, DeltaFieldsRead, Widths
  <2>3. /\ N \in Nat \ {0, 1} /\ NANOS_MAX = N - 1 /\ Subsecond = 0 .. N - 1
        /\ I64Max \in Nat
    BY Widths DEF NANOS_MAX, Subsecond
  <2>4. Decoded(kind, data) = OfDeltaParts(kind, s, n)
    BY <2>1, DeltaIs
  <2> HIDE DEF s, n, N
  <2>5. (s < 0 /\ n > 0) \/ (s > 0 /\ n < 0)
    BY <2>1, <2>2, MixedIs
  <2>6. TimeDeltaOf(s, n) = Err("InvalidValue")
    BY <2>2, <2>3, <2>5 DEF TimeDeltaOf
  <2>7. TimeDurationOf(s, n) = Err("InvalidValue")
    BY <2>2, <2>3, <2>5 DEF TimeDurationOf
  <2>8. OfDeltaParts(kind, s, n) = Err("InvalidValue")
    BY <2>1, <2>6, <2>7 DEF OfDeltaParts
  <2>9. QED
    BY <1>2, <2>4, <2>8 DEF DecodedRelaxed
<1>3. QED
  BY <1>1, <1>2

(* Each duration is read back, and what another type reads of it is what   *)
(* that makes of its parts.                                                *)
LEMMA DeltaReadBack ==
  ASSUME NEW kind \in DeltaKinds, NEW v \in DeltasOf(kind)
  PROVE  /\ v.kind = kind /\ Encoded(v) \in WireData("delta")
         /\ Decoded(kind, Encoded(v)) = Ok(v)
         /\ \E s \in I64 : \E n \in I32 :
              /\ DeltaParts(v) = <<s, n>> /\ OfDeltaParts(kind, s, n) = Ok(v)
              /\ Encoded(v) = WriteDelta(s, n)
              /\ Total(v) = s * NANOS_PER_SECOND + n
              /\ v.seconds \in I64 /\ v.nanos \in I32
              /\ kind # "TimeDelta" => v.seconds = s /\ v.nanos = n
              /\ \A other \in DeltaKinds :
                   Decoded(other, Encoded(v)) = OfDeltaParts(other, s, n)
<1>1. PICK s \in I64, n \in I32 :
           /\ DeltaParts(v) = <<s, n>> /\ OfDeltaParts(kind, s, n) = Ok(v)
           /\ Total(v) = s * NANOS_PER_SECOND + n /\ v.kind = kind
           /\ v.seconds \in I64 /\ v.nanos \in I32
           /\ kind # "TimeDelta" => v.seconds = s /\ v.nanos = n
  BY DeltasMadeBack
<1>2. Encoded(v) = WriteDelta(s, n)
  BY <1>1, DeltaIs
<1>3. /\ Encoded(v) \in WireData("delta")
      /\ ReadSeconds(Encoded(v)) = s /\ ReadNanos(Encoded(v)) = n
  BY <1>2, DeltaFieldsReadBack
<1>4. \A other \in DeltaKinds :
        Decoded(other, Encoded(v)) = OfDeltaParts(other, s, n)
  BY <1>3, DeltaIs
<1>5. Decoded(kind, Encoded(v)) = Ok(v)
  BY <1>1, <1>4
<1>6. QED
  BY <1>1, <1>2, <1>3, <1>4, <1>5

(* What fields are read as is encoded as these fields exactly if none of   *)
(* them holds a zero.                                                      *)
LEMMA DeltaRead ==
  ASSUME NEW kind \in DeltaKinds, NEW data \in WireData("delta"),
         Decoded(kind, data).error = "none"
  PROVE  LET v == Decoded(kind, data).value
         IN  /\ Decoded(kind, data) = Ok(v) /\ v \in DeltasOf(kind)
             /\ Encoded(v) = data <=> CanonicalEncoding("delta", data)
<1> DEFINE s == ReadSeconds(data)
           n == ReadNanos(data)
           v == Decoded(kind, data).value
<1>1. /\ s \in I64 /\ n \in I32
      /\ WriteDelta(s, n) = data <=> CanonicalFields(data)
  BY DeltaFieldsRead
<1>2. Decoded(kind, data) = OfDeltaParts(kind, s, n)
  BY DeltaIs
<1> HIDE DEF s, n
<1>3. DeltaMade(kind, s, n)
  BY <1>1, DeltasMade
<1>4. /\ Decoded(kind, data) = Ok(v) /\ v \in DeltasOf(kind)
      /\ DeltaParts(v) = <<s, n>>
  BY <1>2, <1>3 DEF DeltaMade
<1>5. v.kind = kind
  BY <1>4, DeltaReadBack
<1>6. Encoded(v) = WriteDelta(s, n)
  BY <1>4, <1>5, DeltaIs
<1>7. CanonicalEncoding("delta", data) <=> CanonicalFields(data)
  BY DEF CanonicalEncoding
<1>8. QED
  BY <1>1, <1>4, <1>6, <1>7

-----------------------------------------------------------------------------
(* All values that are encoded, and all encodings.                         *)

(* The forms of encodings, and what is encoded.                            *)
Forms == {"list", "triple", "pair", "delta"}
Encodable == ForeignValue \cup Stds \cup SystemTime \cup Duration
ValuesOf(kind) ==
  CASE kind \in ListKinds -> ListsOf(kind)
    [] kind \in OffsetKinds -> OffsetsOf(kind)
    [] kind \in PairKinds -> PairsOf(kind)
    [] kind \in DeltaKinds -> DeltasOf(kind)

(* Each kind has one form, and its values have that kind.                  *)
LEMMA KindsAre ==
  /\ ForeignKinds = ListKinds \cup OffsetKinds \cup PairKinds \cup DeltaKinds
  /\ \A kind \in ListKinds : Form(kind) = "list" /\ ValuesOf(kind) = ListsOf(kind)
  /\ \A kind \in OffsetKinds :
       Form(kind) = "triple" /\ ValuesOf(kind) = OffsetsOf(kind)
  /\ \A kind \in PairKinds : Form(kind) = "pair" /\ ValuesOf(kind) = PairsOf(kind)
  /\ \A kind \in DeltaKinds :
       Form(kind) = "delta" /\ ValuesOf(kind) = DeltasOf(kind)
<1>1. ForeignKinds = ListKinds \cup OffsetKinds \cup PairKinds \cup DeltaKinds
  BY DEF ForeignKinds, Chrono, TimeCrate, ListKinds, OffsetKinds, PairKinds,
         DeltaKinds
<1>2. \A kind \in ListKinds : Form(kind) = "list" /\ ValuesOf(kind) = ListsOf(kind)
  BY ListTypesAre DEF Form, ValuesOf, ListKinds, OffsetKinds, PairKinds, DeltaKinds
<1>3. \A kind \in OffsetKinds :
        Form(kind) = "triple" /\ ValuesOf(kind) = OffsetsOf(kind)
  BY ListTypesAre DEF Form, ValuesOf, ListKinds, OffsetKinds, PairKinds, DeltaKinds
<1>4. \A kind \in PairKinds : Form(kind) = "pair" /\ ValuesOf(kind) = PairsOf(kind)
  BY ListTypesAre DEF Form, ValuesOf, ListKinds, OffsetKinds, PairKinds, DeltaKinds
<1>5. \A kind \in DeltaKinds : Form(kind) = "delta" /\ ValuesOf(kind) = DeltasOf(kind)
  BY ListTypesAre DEF Form, ValuesOf, ListKinds, OffsetKinds, PairKinds, DeltaKinds
<1>6. QED
  BY <1>1, <1>2, <1>3, <1>4, <1>5

(* A date-time and an offset of a pair.                                    *)
LEMMA AwareIs ==
  ASSUME NEW kind, NEW D, NEW O, NEW v \in Aware(kind, D, O)
  PROVE  /\ v.kind = kind /\ v.datetime \in D /\ v.offset \in O
         /\ v = [kind |-> kind, datetime |-> v.datetime, offset |-> v.offset]
BY DEF Aware

(* Values are those of their kinds.                                        *)
LEMMA EncodableIs ==
  /\ \A v \in Encodable : v.kind \in ForeignKinds /\ v \in ValuesOf(v.kind)
  /\ \A kind \in ForeignKinds : \A v \in ValuesOf(kind) :
       v.kind = kind /\ v \in Encodable
<1>1. /\ ListsOf("NaiveDate") = NaiveDates /\ ListsOf("Date") = Dates
      /\ ListsOf("NaiveTime") = NaiveTimes /\ ListsOf("Time") = Times
      /\ ListsOf("NaiveDateTime") = NaiveDateTimes
      /\ ListsOf("PrimitiveDateTime") = PrimitiveDateTimes
      /\ ListsOf("std") = Stds /\ ListsOf("system") = SystemTime
  BY DEF ListsOf
<1>2. /\ OffsetsOf("Utc") = Utcs /\ OffsetsOf("FixedOffset") = FixedOffsets
      /\ OffsetsOf("UtcOffset") = UtcOffsets
  BY DEF OffsetsOf
<1>3. /\ DeltasOf("TimeDelta") = TimeDeltas /\ DeltasOf("duration") = Duration
      /\ DeltasOf("TimeDuration") = TimeDurations
  BY DEF DeltasOf
<1>4. /\ \A v \in NaiveDates : v.kind = "NaiveDate"
      /\ \A v \in Dates : v.kind = "Date"
      /\ \A v \in NaiveTimes : v.kind = "NaiveTime"
      /\ \A v \in Times : v.kind = "Time"
      /\ \A v \in NaiveDateTimes : v.kind = "NaiveDateTime"
      /\ \A v \in PrimitiveDateTimes : v.kind = "PrimitiveDateTime"
      /\ \A v \in Stds : v.kind = "std"
      /\ \A v \in SystemTime : v.kind = "system"
  BY DEF NaiveDates, Dates, NaiveTimes, Times, ClockTimes, NaiveDateTimes,
         PrimitiveDateTimes, Stds, SystemTime
<1>5. /\ \A v \in Utcs : v.kind = "Utc"
      /\ \A v \in FixedOffsets : v.kind = "FixedOffset"
      /\ \A v \in UtcOffsets : v.kind = "UtcOffset"
  BY DEF Utcs, FixedOffsets, UtcOffsets
<1>6. /\ \A v \in TimeDeltas : v.kind = "TimeDelta"
      /\ \A v \in TimeDurations : v.kind = "TimeDuration"
      /\ \A v \in Duration : v.kind = "duration"
  BY DEF TimeDeltas, TimeDurations, Duration
<1>7. /\ \A v \in Aware("DateTimeUtc", NaiveDateTimes, Utcs) : v.kind = "DateTimeUtc"
      /\ \A v \in Aware("DateTimeFixed", NaiveDateTimes, FixedOffsets) :
           v.kind = "DateTimeFixed"
      /\ \A v \in Aware("OffsetDateTime", PrimitiveDateTimes, UtcOffsets) :
           v.kind = "OffsetDateTime"
  BY AwareIs
<1>8. ASSUME NEW v \in Encodable
      PROVE  v.kind \in ForeignKinds /\ v \in ValuesOf(v.kind)
  <2>1. \/ v \in NaiveDates \/ v \in Dates \/ v \in NaiveTimes \/ v \in Times
        \/ v \in NaiveDateTimes \/ v \in PrimitiveDateTimes
        \/ v \in Stds \/ v \in SystemTime
        \/ v \in Utcs \/ v \in FixedOffsets \/ v \in UtcOffsets
        \/ v \in Aware("DateTimeUtc", NaiveDateTimes, Utcs)
        \/ v \in Aware("DateTimeFixed", NaiveDateTimes, FixedOffsets)
        \/ v \in Aware("OffsetDateTime", PrimitiveDateTimes, UtcOffsets)
        \/ v \in TimeDeltas \/ v \in TimeDurations \/ v \in Duration
    BY DEF Encodable, ForeignValue
  <2>2. \/ v.kind \in ListKinds /\ v \in ListsOf(v.kind)
        \/ v.kind \in OffsetKinds /\ v \in OffsetsOf(v.kind)
        \/ v.kind \in PairKinds /\ v \in PairsOf(v.kind)
        \/ v.kind \in DeltaKinds /\ v \in DeltasOf(v.kind)
    BY <1>1, <1>2, <1>3, <1>4, <1>5, <1>6, <1>7, <2>1, PairKindsAre
       DEF ListKinds, OffsetKinds, PairKinds, DeltaKinds
  <2>3. QED
    BY <2>2, KindsAre
<1>9. ASSUME NEW kind \in ForeignKinds, NEW v \in ValuesOf(kind)
      PROVE  v.kind = kind /\ v \in Encodable
  <2>1. /\ NaiveDates \cup Dates \cup NaiveTimes \cup Times \subseteq Encodable
        /\ NaiveDateTimes \cup PrimitiveDateTimes \cup Stds \cup SystemTime
             \subseteq Encodable
        /\ Utcs \cup FixedOffsets \cup UtcOffsets \subseteq Encodable
        /\ Aware("DateTimeUtc", NaiveDateTimes, Utcs) \subseteq Encodable
        /\ Aware("DateTimeFixed", NaiveDateTimes, FixedOffsets) \subseteq Encodable
        /\ Aware("OffsetDateTime", PrimitiveDateTimes, UtcOffsets) \subseteq Encodable
        /\ TimeDeltas \cup TimeDurations \cup Duration \subseteq Encodable
    BY DEF Encodable, ForeignValue
  <2>2. CASE kind \in ListKinds
    BY <1>1, <1>4, <2>1, <2>2, KindsAre DEF ListKinds
  <2>3. CASE kind \in OffsetKinds
    BY <1>2, <1>5, <2>1, <2>3, KindsAre DEF OffsetKinds
  <2>4. CASE kind \in PairKinds
    BY <1>7, <2>1, <2>4, KindsAre, PairKindsAre DEF PairKinds
  <2>5. CASE kind \in DeltaKinds
    BY <1>3, <1>6, <2>1, <2>5, KindsAre DEF DeltaKinds
  <2>6. QED
    BY <2>2, <2>3, <2>4, <2>5, KindsAre
<1>10. QED
  BY <1>8, <1>9

(* Every value is read back from its encoding.                             *)
LEMMA RoundTrip ==
  ASSUME NEW kind \in ForeignKinds, NEW v \in ValuesOf(kind)
  PROVE  /\ v.kind = kind /\ Encoded(v) \in WireData(Form(kind))
         /\ Decoded(kind, Encoded(v)) = Ok(v)
<1>1. v.kind = kind
  BY EncodableIs
<1>2. CASE kind \in ListKinds
  <2>1. Form(kind) = "list" /\ v \in ListsOf(kind)
    BY <1>2, KindsAre
  <2>2. Encoded(v) = EncodeList(kind, ListParts(v))
    BY <1>1, <2>1 DEF Encoded
  <2>3. \A data : Decoded(kind, data) = DecodeDate(kind, data)
    BY <2>1 DEF Decoded
  <2>4. EncodeList(kind, ListParts(v)) \in Seq(Nat)
        /\ DecodeDate(kind, EncodeList(kind, ListParts(v))) = Ok(v)
    BY <1>2, <2>1, DateReadBack
  <2>5. WireData("list") = Seq(Nat)
    BY DEF WireData
  <2>6. QED
    BY <1>1, <2>1, <2>2, <2>3, <2>4, <2>5
<1>3. CASE kind \in OffsetKinds
  <2>1. Form(kind) = "triple" /\ v \in OffsetsOf(kind)
    BY <1>3, KindsAre
  <2>2. Encoded(v) = EncodeOffset(v)
    BY <1>1, <2>1 DEF Encoded
  <2>3. \A data : Decoded(kind, data) = DecodeOffset(kind, data)
    BY <2>1 DEF Decoded
  <2>4. EncodeOffset(v) \in Triple /\ DecodeOffset(kind, EncodeOffset(v)) = Ok(v)
    BY <1>3, <2>1, OffsetReadBack
  <2>5. WireData("triple") = Triple
    BY DEF WireData
  <2>6. QED
    BY <1>1, <2>1, <2>2, <2>3, <2>4, <2>5
<1>4. CASE kind \in PairKinds
  BY <1>4, KindsAre, PairReadBack
<1>5. CASE kind \in DeltaKinds
  BY <1>5, KindsAre, DeltaReadBack
<1>6. QED
  BY <1>2, <1>3, <1>4, <1>5, KindsAre

(* What is read of any encoding is a value, whose own encoding is that one *)
(* exactly if the distinguished decoder calls it canonical.                *)
LEMMA ReadIsCanonical ==
  ASSUME NEW kind \in ForeignKinds, NEW data \in WireData(Form(kind)),
         Decoded(kind, data).error = "none"
  PROVE  LET v == Decoded(kind, data).value
         IN  /\ Decoded(kind, data) = Ok(v) /\ v \in ValuesOf(kind)
             /\ kind # "system" =>
                  (Encoded(v) = data <=> CanonicalEncoding(Form(kind), data))
<1> DEFINE v == Decoded(kind, data).value
<1>1. CASE kind \in ListKinds
  <2>1. Form(kind) = "list" /\ ValuesOf(kind) = ListsOf(kind)
    BY <1>1, KindsAre
  <2>2. data \in Seq(Nat) /\ Decoded(kind, data) = DecodeDate(kind, data)
    BY <2>1 DEF WireData, Decoded
  <2>3. /\ Decoded(kind, data) = Ok(v) /\ v \in ListsOf(kind)
        /\ kind # "system" =>
             (EncodeList(kind, ListParts(v)) = data <=> CanonicalList(data))
    BY <1>1, <2>2, DateRead
  <2> HIDE DEF v
  <2>4. v.kind = kind
    BY <2>1, <2>3, EncodableIs
  <2>5. Encoded(v) = EncodeList(kind, ListParts(v))
    BY <2>1, <2>4 DEF Encoded
  <2>6. CanonicalEncoding("list", data) <=> CanonicalList(data)
    BY DEF CanonicalEncoding
  <2>7. QED
    BY <2>1, <2>3, <2>5, <2>6 DEF v
<1>2. CASE kind \in OffsetKinds
  <2>1. Form(kind) = "triple" /\ ValuesOf(kind) = OffsetsOf(kind)
    BY <1>2, KindsAre
  <2>2. data \in Triple /\ Decoded(kind, data) = DecodeOffset(kind, data)
    BY <2>1 DEF WireData, Decoded
  <2>3. /\ Decoded(kind, data) = Ok(v) /\ v \in OffsetsOf(kind)
        /\ EncodeOffset(v) = data <=> CanonicalFields(data)
    BY <1>2, <2>2, OffsetRead
  <2> HIDE DEF v
  <2>4. v.kind = kind
    BY <2>1, <2>3, EncodableIs
  <2>5. Encoded(v) = EncodeOffset(v)
    BY <2>1, <2>4 DEF Encoded
  <2>6. CanonicalEncoding("triple", data) <=> CanonicalFields(data)
    BY DEF CanonicalEncoding
  <2>7. QED
    BY <2>1, <2>3, <2>5, <2>6 DEF v
<1>3. CASE kind \in PairKinds
  <2>1. Form(kind) = "pair" /\ ValuesOf(kind) = PairsOf(kind)
    BY <1>3, KindsAre
  <2>2. QED
    BY <1>3, <2>1, PairRead
<1>4. CASE kind \in DeltaKinds
  <2>1. Form(kind) = "delta" /\ ValuesOf(kind) = DeltasOf(kind)
    BY <1>4, KindsAre
  <2>2. QED
    BY <1>4, <2>1, DeltaRead
<1>5. QED
  BY <1>1, <1>2, <1>3, <1>4, KindsAre

(* Both decoders of a type accept the same.                                *)
LEMMA RelaxedIs ==
  ASSUME NEW kind \in ForeignKinds, NEW data \in WireData(Form(kind))
  PROVE  DecodedRelaxed(kind, data) = Decoded(kind, data)
<1>1. Form(kind) = "delta" => kind \in DeltaKinds
  BY KindsAre
<1>2. QED
  BY <1>1, ProxyRefusesNoMore

-----------------------------------------------------------------------------
(* Behaviours with encodings.                                              *)

(* An encoding of unknown origin, or of the value it remembers.            *)
Wires ==
  {w \in [kind : {"wire"}, form : Forms, data : UNION {WireData(f) : f \in Forms},
          from : Encodable \cup {NoValue}] :
     /\ w.data \in WireData(w.form)
     /\ w.from # NoValue =>
          w.form = Form(w.from.kind) /\ w.data = Encoded(w.from)}

(* The type invariant: a value of the calendar or of another library, or   *)
(* an encoding.                                                            *)
ForeignTypeOK ==
  \/ CalendarTypeOK
  \/ held \in ForeignValue
  \/ held \in Wires

(* What an encoding is.                                                    *)
LEMMA WireIs ==
  ASSUME NEW w \in Wires
  PROVE  /\ w.kind = "wire" /\ w.form \in Forms /\ w.data \in WireData(w.form)
         /\ w.from # NoValue => /\ w.from \in Encodable
                                /\ w.form = Form(w.from.kind)
                                /\ w.data = Encoded(w.from)
BY DEF Wires

(* Kinds tell the values of the calendar, of other libraries and encodings *)
(* apart.                                                                  *)
CalendarKinds ==
  {"duration", "timestamp", "std", "negative", "system", "durationText",
   "minusText", "dateTime", "dateText", "refused", "panicked"}

(* Which they do.                                                          *)
LEMMA KindsTellApart ==
  ASSUME ForeignTypeOK
  PROVE  /\ held.kind \in CalendarKinds => CalendarTypeOK
         /\ CalendarTypeOK => held.kind \in CalendarKinds
         /\ held.kind \in ForeignKinds => held \in Encodable
         /\ held.kind = "wire" => held \in Wires
<1>1. CalendarTypeOK => held.kind \in CalendarKinds
  <2>1. /\ \A v \in Value : v.kind \in CalendarKinds
        /\ \A v \in DateTime \cup DateText : v.kind \in CalendarKinds
        /\ Refused.kind \in CalendarKinds /\ Panicked.kind \in CalendarKinds
    BY DEF Value, Duration, Timestamp, StdDuration, SystemTime, DurationText,
           DateTime, DateText, Refused, Panicked, CalendarKinds
  <2>2. QED
    BY <2>1 DEF CalendarTypeOK
<1>2. held \in ForeignValue => held.kind \in Chrono \cup TimeCrate
  <2>1. \A v \in NaiveDates \cup Dates \cup NaiveTimes \cup Times
                   \cup NaiveDateTimes \cup PrimitiveDateTimes :
          v.kind \in Chrono \cup TimeCrate
    BY DEF NaiveDates, Dates, NaiveTimes, Times, ClockTimes, NaiveDateTimes,
           PrimitiveDateTimes, Chrono, TimeCrate
  <2>2. \A v \in Utcs \cup FixedOffsets \cup UtcOffsets \cup TimeDeltas
                   \cup TimeDurations : v.kind \in Chrono \cup TimeCrate
    BY DEF Utcs, FixedOffsets, UtcOffsets, TimeDeltas, TimeDurations, Chrono,
           TimeCrate
  <2>3. \A kind \in PairKinds : \A v \in Aware(kind, NaiveDateTimes, Utcs)
             \cup Aware(kind, NaiveDateTimes, FixedOffsets)
             \cup Aware(kind, PrimitiveDateTimes, UtcOffsets) :
          v.kind \in Chrono \cup TimeCrate
    <3>1. \A kind \in PairKinds : kind \in Chrono \cup TimeCrate
      BY DEF PairKinds, Chrono, TimeCrate
    <3>2. QED
      BY <3>1, AwareIs
  <2>4. QED
    BY <2>1, <2>2, <2>3 DEF ForeignValue, PairKinds
<1>3. held \in Wires => held.kind = "wire"
  BY WireIs
<1>4. /\ "wire" \notin CalendarKinds /\ "wire" \notin ForeignKinds
      /\ CalendarKinds \cap (Chrono \cup TimeCrate) = {}
      /\ ForeignKinds = Chrono \cup TimeCrate \cup {"std", "system", "duration"}
      /\ "wire" \notin Chrono \cup TimeCrate
  BY DEF CalendarKinds, ForeignKinds, Chrono, TimeCrate
<1>5. held.kind \in ForeignKinds => held \in Encodable
  <2>1. CASE held \in ForeignValue
    BY <2>1 DEF Encodable
  <2>2. CASE CalendarTypeOK
    <3>1. held.kind \in ForeignKinds => held.kind \in {"std", "system", "duration"}
      BY <1>1, <1>4, <2>2
    <3>2. /\ held.kind = "std" => held \in Stds
          /\ held.kind = "system" => held \in SystemTime
          /\ held.kind = "duration" => held \in Duration
      BY <2>2, KindsOfValues DEF CalendarTypeOK, Stds
    <3>3. QED
      BY <3>1, <3>2 DEF Encodable
  <2>3. CASE held \in Wires
    BY <1>3, <1>4, <2>3
  <2>4. QED
    BY <2>1, <2>2, <2>3 DEF ForeignTypeOK
<1>6. QED
  BY <1>1, <1>2, <1>3, <1>4, <1>5 DEF ForeignTypeOK

(* The actions of the calendar take no encoding and no value of another    *)
(* library but those of the standard one.                                  *)
LEMMA CalendarApart ==
  ASSUME ForeignTypeOK, CalendarNext
  PROVE  CalendarTypeOK /\ CalendarTypeOK'
<1>1. held.kind \in CalendarKinds
  BY DEF CalendarNext, Next, NormalizeDuration, NormalizeTimestamp, TryNormalize,
         Negate, DurationFromStd, StdFromDuration, TimestampFromSystem,
         SystemFromTimestamp, ParseDuration, DateTimeFromTimestamp,
         TimestampFromDateTime, ParseTimestamp, CalendarKinds
<1>2. CalendarTypeOK
  BY <1>1, KindsTellApart
<1>3. QED
  BY <1>2, CalendarNextTyped

(* An encoding is that of the value, and what is decoded is a value.       *)
LEMMA EncodedTyped ==
  ASSUME ForeignTypeOK, EncodeForeign
  PROVE  held' \in Wires /\ held.kind \in ForeignKinds
<1> DEFINE w == [kind |-> "wire", form |-> Form(held.kind), data |-> Encoded(held),
                 from |-> held]
<1>1. held.kind \in ForeignKinds /\ held' = w
  BY DEF EncodeForeign
<1>2. held \in Encodable /\ held \in ValuesOf(held.kind)
  BY <1>1, KindsTellApart, EncodableIs
<1>3. Encoded(held) \in WireData(Form(held.kind))
  BY <1>1, <1>2, RoundTrip
<1>4. Form(held.kind) \in Forms
  BY <1>1, KindsAre DEF Forms
<1>5. w \in [kind : {"wire"}, form : Forms, data : UNION {WireData(f) : f \in Forms},
             from : Encodable \cup {NoValue}]
  BY <1>2, <1>3, <1>4
<1>6. w \in Wires
  BY <1>3, <1>5 DEF Wires
<1>7. QED
  BY <1>1, <1>6

(* And a value or a refusal is what is decoded.                            *)
LEMMA DecodedTyped ==
  ASSUME ForeignTypeOK, DecodeForeign
  PROVE  /\ held' \in Encodable \cup {Refused} /\ held.kind = "wire"
<1>1. held \in Wires /\ held.kind = "wire"
  BY KindsTellApart DEF DecodeForeign
<1>2. PICK kind \in Readers(held.form) :
        LET result == DecodedRelaxed(kind, held.data)
        IN  held' = IF result.error = "none" THEN result.value ELSE Refused
  BY DEF DecodeForeign
<1>3. kind \in ForeignKinds /\ held.data \in WireData(Form(kind))
  BY <1>1, <1>2, WireIs DEF Readers
<1>4. DecodedRelaxed(kind, held.data) = Decoded(kind, held.data)
  BY <1>3, RelaxedIs
<1>5. Decoded(kind, held.data).error = "none" =>
        Decoded(kind, held.data).value \in Encodable
  BY <1>3, ReadIsCanonical, EncodableIs
<1>6. QED
  BY <1>1, <1>2, <1>4, <1>5

(* What is encoded is a value of the calendar or of another library.       *)
LEMMA EncodableTyped ==
  ASSUME NEW v \in Encodable
  PROVE  v \in ForeignValue \cup Value
BY DEF Encodable, Stds, Value

(* A program starts from values and encodings.                             *)
LEMMA ForeignStart == ForeignInit => ForeignTypeOK
<1> SUFFICES ASSUME ForeignInit PROVE ForeignTypeOK
  OBVIOUS
<1>1. CASE CalendarInit
  <2>1. CalendarTypeOK
    BY <1>1, TimeAssumption, CalendarAssumption
       DEF CalendarInit, Init, CalendarTypeOK
  <2>2. QED
    BY <2>1 DEF ForeignTypeOK
<1>2. CASE held \in GivenForeign
  <2>1. CASE held \in ForeignValue
    BY <2>1 DEF ForeignTypeOK
  <2>2. ASSUME NEW form \in Forms,
               held \in [kind : {"wire"}, form : {form}, data : WireData(form),
                         from : {NoValue}]
        PROVE  ForeignTypeOK
    <3>1. /\ held \in [kind : {"wire"}, form : Forms,
                       data : UNION {WireData(f) : f \in Forms},
                       from : Encodable \cup {NoValue}]
          /\ held.data \in WireData(held.form) /\ held.from = NoValue
      BY <2>2
    <3>2. held \in Wires
      BY <3>1 DEF Wires
    <3>3. QED
      BY <3>2 DEF ForeignTypeOK
  <2>3. QED
    BY <1>2, <2>1, <2>2, GivenForeignAssumption DEF Forms
<1>3. QED
  BY <1>1, <1>2 DEF ForeignInit

(* And comes by no other.                                                  *)
LEMMA ForeignNextTyped ==
  ForeignTypeOK /\ [ForeignNext]_held => ForeignTypeOK'
<1> SUFFICES ASSUME ForeignTypeOK, [ForeignNext]_held PROVE ForeignTypeOK'
  OBVIOUS
<1>1. CASE CalendarNext
  BY <1>1, CalendarApart DEF ForeignTypeOK
<1>2. CASE EncodeForeign
  BY <1>2, EncodedTyped DEF ForeignTypeOK
<1>3. CASE DecodeForeign
  BY <1>3, DecodedTyped, EncodableTyped DEF ForeignTypeOK, CalendarTypeOK
<1>4. CASE UNCHANGED held
  BY <1>4 DEF ForeignTypeOK, CalendarTypeOK
<1>5. QED
  BY <1>1, <1>2, <1>3, <1>4 DEF ForeignNext

(* Whatever a program encodes and decodes, what it holds is a value of its *)
(* type: a decoder makes no date, time, offset or duration that its        *)
(* library does not have, and an encoding is one that the types of its     *)
(* form may be handed (chrono.rs, time.rs, std.rs, local_proxy.rs).        *)
THEOREM ForeignTyped == ForeignSpec => []ForeignTypeOK
<1>1. ForeignInit => ForeignTypeOK
  BY ForeignStart
<1>2. ForeignTypeOK /\ [ForeignNext]_held => ForeignTypeOK'
  BY ForeignNextTyped
<1>3. QED
  BY <1>1, <1>2, PTL DEF ForeignSpec

(* The distinguished decoder of each type finds canonical exactly what the *)
(* type's value is encoded as, whatever the lists, offsets or durations    *)
(* read and whatever years the libraries have (chrono.rs:541-567,          *)
(* local_proxy.rs:64-83).                                                  *)
THEOREM ForeignIsCanonical == ForeignSpec => []ForeignCanonical
<1>1. ForeignTypeOK => ForeignCanonical
  <2> SUFFICES ASSUME ForeignTypeOK, held.kind = "wire",
                      NEW kind \in Readers(held.form) \ {"system"}
               PROVE  LET result == Decoded(kind, held.data)
                      IN  /\ (result.error = "none") <=>
                               (DecodedRelaxed(kind, held.data).error = "none")
                          /\ result.error = "none" =>
                               (CanonicalEncoding(held.form, held.data) <=>
                                  Encoded(result.value) = held.data)
    BY DEF ForeignCanonical
  <2>1. held \in Wires
    BY KindsTellApart
  <2>2. /\ kind \in ForeignKinds /\ kind # "system" /\ Form(kind) = held.form
        /\ held.data \in WireData(Form(kind))
    BY <2>1, WireIs DEF Readers
  <2>3. DecodedRelaxed(kind, held.data) = Decoded(kind, held.data)
    BY <2>2, RelaxedIs
  <2>4. Decoded(kind, held.data).error = "none" =>
          (CanonicalEncoding(held.form, held.data) <=>
             Encoded(Decoded(kind, held.data).value) = held.data)
    BY <2>2, ReadIsCanonical
  <2>5. QED
    BY <2>3, <2>4
<1>2. QED
  BY <1>1, ForeignTyped, PTL

-----------------------------------------------------------------------------
(* Encodings of one type read as another.                                  *)

(* What a type makes of the encoding of a value: that value, if it has it. *)
WidensTo(kind, v) ==
  LET result == Decoded(kind, Encoded(v))
  IN  /\ (result.error = "none") <=> CanHold(kind, v)
      /\ result.error = "none" =>
           Says(result.value) = Says(v) /\ Encoded(result.value) = Encoded(v)

(* What the types have a value for, one by one.                            *)
LEMMA CanHoldIs ==
  ASSUME NEW v
  PROVE  /\ CanHold("NaiveDate", v) <=> v.year \in ChronoYears
         /\ CanHold("Date", v) <=> v.year \in TimeYears
         /\ CanHold("Time", v) <=> v.nanos \in Subsecond
         /\ v.kind # "NaiveDate" =>
              (CanHold("NaiveDateTime", v) <=> v.date.year \in ChronoYears)
         /\ v.kind = "NaiveDate" => CanHold("NaiveDateTime", v)
         /\ v.kind # "Date" =>
              (CanHold("PrimitiveDateTime", v) <=>
                 v.date.year \in TimeYears /\ v.time.nanos \in Subsecond)
         /\ v.kind = "Date" => CanHold("PrimitiveDateTime", v)
         /\ CanHold("FixedOffset", v) <=>
              OffsetNanos(v) \div NANOS_PER_SECOND
                \in -(SecondsPerDay - 1) .. SecondsPerDay - 1
         /\ v.kind # "TimeDelta" =>
              (CanHold("TimeDelta", v) <=>
                 /\ ~ MixedSigns(<<v.seconds, v.nanos>>)
                 /\ v.nanos \in -NANOS_MAX .. NANOS_MAX
                 /\ Total(v) \in -ChronoDeltaMax .. ChronoDeltaMax)
         /\ v.kind = "TimeDelta" => CanHold("TimeDelta", v)
         /\ v.kind = "duration" =>
              (CanHold("TimeDuration", v) <=>
                 /\ ~ MixedSigns(<<v.seconds, v.nanos>>)
                 /\ v.nanos \in -NANOS_MAX .. NANOS_MAX)
         /\ v.kind # "duration" => CanHold("TimeDuration", v)
         /\ \A kind \in {"NaiveTime", "Utc", "UtcOffset", "std", "system",
                         "duration"} \cup PairKinds : CanHold(kind, v)
<1>1. /\ CanHold("NaiveDate", v) <=> v.year \in ChronoYears
      /\ CanHold("Date", v) <=> v.year \in TimeYears
      /\ CanHold("Time", v) <=> v.nanos \in Subsecond
  BY DEF CanHold
<1>2. /\ v.kind # "NaiveDate" =>
           (CanHold("NaiveDateTime", v) <=> v.date.year \in ChronoYears)
      /\ v.kind = "NaiveDate" => CanHold("NaiveDateTime", v)
  BY DEF CanHold
<1>3. /\ v.kind # "Date" =>
           (CanHold("PrimitiveDateTime", v) <=>
              v.date.year \in TimeYears /\ v.time.nanos \in Subsecond)
      /\ v.kind = "Date" => CanHold("PrimitiveDateTime", v)
  BY DEF CanHold
<1>4. CanHold("FixedOffset", v) <=>
        OffsetNanos(v) \div NANOS_PER_SECOND
          \in -(SecondsPerDay - 1) .. SecondsPerDay - 1
  BY DEF CanHold
<1>5. /\ v.kind # "TimeDelta" =>
           (CanHold("TimeDelta", v) <=>
              /\ ~ MixedSigns(<<v.seconds, v.nanos>>)
              /\ v.nanos \in -NANOS_MAX .. NANOS_MAX
              /\ Total(v) \in -ChronoDeltaMax .. ChronoDeltaMax)
      /\ v.kind = "TimeDelta" => CanHold("TimeDelta", v)
  BY DEF CanHold
<1>6. /\ v.kind = "duration" =>
           (CanHold("TimeDuration", v) <=>
              /\ ~ MixedSigns(<<v.seconds, v.nanos>>)
              /\ v.nanos \in -NANOS_MAX .. NANOS_MAX)
      /\ v.kind # "duration" => CanHold("TimeDuration", v)
  BY DEF CanHold
<1>7. \A kind \in {"NaiveTime", "Utc", "UtcOffset", "std", "system",
                   "duration"} \cup PairKinds : CanHold(kind, v)
  BY DEF CanHold, PairKinds
<1>8. QED
  BY <1>1, <1>2, <1>3, <1>4, <1>5, <1>6, <1>7

(* What values say, one by one.                                            *)
LEMMA SaysIs ==
  ASSUME NEW v
  PROVE  /\ v.kind \in {"NaiveDate", "Date"} => Says(v) = <<DateNanos(v), 0, 0>>
         /\ v.kind \in {"NaiveTime", "Time"} =>
              Says(v) = <<ClockNanos(v), v.second, 0>>
         /\ v.kind \in {"NaiveDateTime", "PrimitiveDateTime"} =>
              Says(v) = <<WallNanos(v), v.time.second, 0>>
         /\ v.kind \in OffsetKinds => Says(v) = <<0, 0, OffsetNanos(v)>>
         /\ v.kind \in {"DateTimeUtc", "DateTimeFixed"} =>
              Says(v) = <<WallNanos(v.datetime), v.datetime.time.second,
                          OffsetNanos(v.offset)>>
         /\ v.kind \in DeltaKinds => Says(v) = <<Total(v), 0, 0>>
<1>1. \A kind \in {"NaiveDate", "Date", "NaiveTime", "Time", "NaiveDateTime",
                   "PrimitiveDateTime"} \cup PairKinds \cup DeltaKinds :
        Form(kind) # "triple"
  BY KindsAre DEF ListKinds
<1>2. \A kind \in OffsetKinds : Form(kind) = "triple"
  BY KindsAre
<1>3. v.kind \in {"NaiveDate", "Date"} => Says(v) = <<DateNanos(v), 0, 0>>
  BY <1>1 DEF Says
<1>4. v.kind \in {"NaiveTime", "Time"} => Says(v) = <<ClockNanos(v), v.second, 0>>
  BY <1>1 DEF Says
<1>5. v.kind \in {"NaiveDateTime", "PrimitiveDateTime"} =>
        Says(v) = <<WallNanos(v), v.time.second, 0>>
  BY <1>1 DEF Says
<1>6. v.kind \in OffsetKinds => Says(v) = <<0, 0, OffsetNanos(v)>>
  BY <1>2 DEF Says, OffsetKinds
<1>7. v.kind \in {"DateTimeUtc", "DateTimeFixed"} =>
        Says(v) = <<WallNanos(v.datetime), v.datetime.time.second,
                    OffsetNanos(v.offset)>>
  BY <1>1 DEF Says, PairKinds
<1>8. v.kind \in DeltaKinds => Says(v) = <<Total(v), 0, 0>>
  BY <1>1 DEF Says, DeltaKinds
<1>9. QED
  BY <1>3, <1>4, <1>5, <1>6, <1>7, <1>8

(* Whole seconds of nanoseconds.                                           *)
LEMMA WholeSeconds ==
  ASSUME NEW n \in Int
  PROVE  (NANOS_PER_SECOND * n) \div NANOS_PER_SECOND = n
<1>1. NANOS_PER_SECOND \in Nat \ {0}
  BY Widths
<1>2. QED
  BY ONLY <1>1, n \in Int

(* A type has its own values.                                              *)
LEMMA HoldsItsOwn ==
  ASSUME NEW kind \in ForeignKinds, NEW v \in ValuesOf(kind)
  PROVE  CanHold(kind, v)
<1>1. v.kind = kind
  BY EncodableIs
<1>2. kind \in {"NaiveTime", "Utc", "UtcOffset", "std", "system", "duration",
                "TimeDelta", "TimeDuration"} \cup PairKinds
        \/ kind \in {"NaiveDate", "Date", "Time", "NaiveDateTime",
                     "PrimitiveDateTime", "FixedOffset"}
  BY KindsAre DEF ListKinds, OffsetKinds, DeltaKinds
<1>3. CASE kind \in {"NaiveTime", "Utc", "UtcOffset", "std", "system", "duration",
                     "TimeDelta", "TimeDuration"} \cup PairKinds
  BY <1>1, <1>3, CanHoldIs
<1>4. CASE kind \in {"NaiveDate", "Date", "Time"}
  <2>1. v \in ListsOf(kind)
    BY <1>4, KindsAre DEF ListKinds
  <2>2. /\ kind = "NaiveDate" => v.year \in ChronoYears
        /\ kind = "Date" => v.year \in TimeYears
        /\ kind = "Time" => v.nanos \in Subsecond
    BY <2>1 DEF ListsOf, NaiveDates, Dates, Times, ClockTimes
  <2>3. QED
    BY <1>4, <2>2, CanHoldIs
<1>5. CASE kind \in {"NaiveDateTime", "PrimitiveDateTime"}
  <2>1. v \in ListsOf(kind)
    BY <1>5, KindsAre DEF ListKinds
  <2>2. CASE kind = "NaiveDateTime"
    <3>1. v.date \in NaiveDates
      BY <2>1, <2>2 DEF ListsOf, NaiveDateTimes
    <3>2. v.date.year \in ChronoYears
      BY <3>1 DEF NaiveDates
    <3>3. QED
      BY <1>1, <2>2, <3>2, CanHoldIs
  <2>3. CASE kind = "PrimitiveDateTime"
    <3>1. v.date \in Dates /\ v.time \in Times
      BY <2>1, <2>3 DEF ListsOf, PrimitiveDateTimes
    <3>2. v.date.year \in TimeYears /\ v.time.nanos \in Subsecond
      BY <3>1 DEF Dates, Times, ClockTimes
    <3>3. QED
      BY <1>1, <2>3, <3>2, CanHoldIs
  <2>4. QED
    BY <1>5, <2>2, <2>3
<1>6. CASE kind = "FixedOffset"
  <2>1. v \in FixedOffsets
    BY <1>6, KindsAre DEF OffsetKinds, OffsetsOf
  <2>2. v.seconds \in -(SecondsPerDay - 1) .. SecondsPerDay - 1
    BY <2>1 DEF FixedOffsets
  <2>3. OffsetNanos(v) = NANOS_PER_SECOND * v.seconds
    BY <1>1, <1>6 DEF OffsetNanos
  <2>4. (NANOS_PER_SECOND * v.seconds) \div NANOS_PER_SECOND = v.seconds
    BY <2>2, WholeSeconds
  <2>5. QED
    BY <1>6, <2>2, <2>3, <2>4, CanHoldIs
<1>7. QED
  BY <1>2, <1>3, <1>4, <1>5, <1>6

(* An offset is so many seconds, whatever its type.                        *)
LEMMA OffsetSays ==
  ASSUME NEW kind \in OffsetKinds, NEW v \in OffsetsOf(kind)
  PROVE  LET p == OffsetParts(v)
         IN  /\ OffsetNanos(v) = NANOS_PER_SECOND * SecondsEast(p)
             /\ SecondsEast(p) \in Int /\ p \in [1 .. 3 -> Int]
             /\ ~ MixedSigns(p) /\ InClock(p, TimeOffsetHours)
             /\ kind = "Utc" => p = <<0, 0, 0>>
             /\ kind # "UtcOffset" => InClock(p, HoursPerDay - 1)
<1> DEFINE p == OffsetParts(v)
<1>1. v.kind = kind /\ p \in [1 .. 3 -> Int]
  BY OffsetReadBack, ByteRange
<1>2. SecondsEast(p) \in Int
  <2>1. /\ p[1] \in Int /\ p[2] \in Int /\ p[3] \in Int
        /\ SecondsPerHour \in Int /\ SecondsPerMinute \in Int
    BY <1>1, Widths DEF SecondsPerHour
  <2> HIDE DEF p
  <2>2. QED
    BY <2>1 DEF SecondsEast
<1>3. /\ HoursPerDay \in Nat \ {0} /\ MinutesPerHour \in Nat \ {0}
      /\ SecondsPerMinute \in Nat \ {0} /\ TimeOffsetHours \in Nat
      /\ HoursPerDay <= TimeOffsetHours
  BY Widths
<1>4. InClock(p, HoursPerDay - 1) => InClock(p, TimeOffsetHours)
  <2> HIDE DEF p
  <2>1. \A n : n \in -(HoursPerDay - 1) .. HoursPerDay - 1
                 => n \in -TimeOffsetHours .. TimeOffsetHours
    BY <1>3
  <2>2. QED
    BY <2>1 DEF InClock
<1>5. CASE kind = "Utc"
  <2>1. p = <<0, 0, 0>> /\ OffsetNanos(v) = NANOS_PER_SECOND * 0
    BY <1>1, <1>5 DEF OffsetParts, OffsetNanos
  <2>2. SecondsEast(<<0, 0, 0>>) = 0
    BY <1>3, Widths DEF SecondsEast, SecondsPerHour
  <2>3. ~ MixedSigns(<<0, 0, 0>>)
    BY DEF MixedSigns
  <2>4. InClock(<<0, 0, 0>>, HoursPerDay - 1)
    BY <1>3 DEF InClock
  <2> HIDE DEF p
  <2>5. QED
    BY <1>1, <1>2, <1>4, <1>5, <2>1, <2>2, <2>3, <2>4 DEF p
<1>6. CASE kind = "FixedOffset"
  <2>1. /\ v.seconds \in -(SecondsPerDay - 1) .. SecondsPerDay - 1
        /\ p = FixedOffsetParts(v.seconds)
        /\ OffsetNanos(v) = NANOS_PER_SECOND * v.seconds
    BY <1>1, <1>6 DEF OffsetsOf, FixedOffsets, OffsetParts, OffsetNanos
  <2>2. /\ InClock(p, HoursPerDay - 1) /\ ~ MixedSigns(p)
        /\ SecondsEast(p) = v.seconds
    BY <2>1, FixedPartsAre
  <2> HIDE DEF p
  <2>3. QED
    BY <1>1, <1>2, <1>4, <1>6, <2>1, <2>2 DEF p
<1>7. CASE kind = "UtcOffset"
  <2>1. /\ p = v.hms /\ OffsetNanos(v) = NANOS_PER_SECOND * SecondsEast(v.hms)
        /\ ~ MixedSigns(v.hms) /\ InClock(v.hms, TimeOffsetHours)
    BY <1>1, <1>7 DEF OffsetsOf, UtcOffsets, OffsetParts, OffsetNanos
  <2> HIDE DEF p
  <2>2. QED
    BY <1>1, <1>2, <1>7, <2>1 DEF p
<1>8. QED
  BY <1>5, <1>6, <1>7 DEF OffsetKinds

(* An offset as a type of another library makes it of its parts.           *)
LEMMA OffsetWidens ==
  ASSUME NEW kind \in OffsetKinds, NEW v \in OffsetsOf(kind),
         NEW other \in {"FixedOffset", "UtcOffset"}
  PROVE  LET result == OfOffsetParts(other, OffsetParts(v))
         IN  /\ (result.error = "none") <=> CanHold(other, v)
             /\ kind # "UtcOffset" => CanHold(other, v)
             /\ result.error = "none" =>
                  /\ result.value \in OffsetsOf(other)
                  /\ OffsetNanos(result.value) = OffsetNanos(v)
                  /\ EncodeOffset(result.value) = EncodeOffset(v)
<1> DEFINE p == OffsetParts(v)
           result == OfOffsetParts(other, p)
<1>1. /\ OffsetNanos(v) = NANOS_PER_SECOND * SecondsEast(p)
      /\ SecondsEast(p) \in Int /\ p \in [1 .. 3 -> Int]
      /\ ~ MixedSigns(p) /\ InClock(p, TimeOffsetHours)
      /\ kind # "UtcOffset" => InClock(p, HoursPerDay - 1)
  BY OffsetSays
<1>2. other \in OffsetKinds /\ TimeOffsetHours \in Nat
  BY Widths DEF OffsetKinds
<1>3. p \in Byte3 /\ EncodeOffset(v) = EncodeTriple(p)
  BY OffsetReadBack
<1> HIDE DEF p
<1>4. ASSUME result.error = "none"
      PROVE  /\ result.value \in OffsetsOf(other)
             /\ OffsetNanos(result.value) = OffsetNanos(v)
             /\ EncodeOffset(result.value) = EncodeOffset(v)
  <2> DEFINE w == result.value
  <2>1. OffsetMadeOf(other, OffsetsOf(other), p)
    BY <1>2, <1>3, OffsetsMade
  <2>2. w \in OffsetsOf(other) /\ OffsetParts(w) = p
    BY <1>4, <2>1 DEF OffsetMadeOf
  <2> HIDE DEF w
  <2>3. OffsetNanos(w) = NANOS_PER_SECOND * SecondsEast(p)
    BY <1>2, <2>2, OffsetSays
  <2>4. EncodeOffset(w) = EncodeTriple(p)
    BY <1>2, <2>2, OffsetReadBack
  <2>5. QED
    BY <1>1, <1>3, <2>2, <2>3, <2>4 DEF w
<1>5. CASE other = "UtcOffset"
  <2>1. result.error = "none"
    BY <1>1, <1>5, OkOrErr DEF OfOffsetParts, UtcOffsetOf
  <2>2. CanHold(other, v)
    BY <1>5, CanHoldIs
  <2>3. QED
    BY <1>4, <2>1, <2>2 DEF p
<1>6. CASE other = "FixedOffset"
  <2>1. result.error = "none" <=> InClock(p, HoursPerDay - 1)
    BY <1>1, <1>6, OkOrErr DEF OfOffsetParts, FixedOffsetOf
  <2>2. InClock(p, HoursPerDay - 1)
          <=> p[1] \in -(HoursPerDay - 1) .. HoursPerDay - 1
    BY <1>1 DEF InClock
  <2>3. SecondsEast(p) \in -(SecondsPerDay - 1) .. SecondsPerDay - 1
          <=> p[1] \in -(HoursPerDay - 1) .. HoursPerDay - 1
    BY <1>1, <1>2, PartsOfOffset
  <2>4. OffsetNanos(v) \div NANOS_PER_SECOND = SecondsEast(p)
    BY <1>1, WholeSeconds
  <2>5. CanHold(other, v) <=> InClock(p, HoursPerDay - 1)
    BY <1>6, <2>2, <2>3, <2>4, CanHoldIs
  <2>6. QED
    BY <1>1, <1>4, <2>1, <2>5 DEF p
<1>7. QED
  BY <1>5, <1>6

(* Offsets read as one another.                                            *)
LEMMA OffsetsWiden ==
  ASSUME NEW kind \in OffsetKinds, NEW v \in OffsetsOf(kind),
         NEW other \in {"FixedOffset", "UtcOffset"}
  PROVE  WidensTo(other, v)
<1> DEFINE result == OfOffsetParts(other, OffsetParts(v))
<1>1. other \in OffsetKinds
  BY DEF OffsetKinds
<1>2. /\ Form(other) = "triple" /\ Form(kind) = "triple" /\ v.kind = kind
      /\ ValuesOf(other) = OffsetsOf(other)
  BY <1>1, KindsAre, OffsetReadBack
<1>3. Encoded(v) = EncodeOffset(v)
  BY <1>2 DEF Encoded
<1>4. Decoded(other, Encoded(v)) = result
  <2>1. Decoded(other, Encoded(v)) = DecodeOffset(other, EncodeOffset(v))
    BY <1>2, <1>3 DEF Decoded
  <2>2. QED
    BY <2>1, OffsetReadBack
<1>5. /\ (result.error = "none") <=> CanHold(other, v)
      /\ result.error = "none" =>
           /\ result.value \in OffsetsOf(other)
           /\ OffsetNanos(result.value) = OffsetNanos(v)
           /\ EncodeOffset(result.value) = EncodeOffset(v)
  BY OffsetWidens
<1> HIDE DEF result
<1>6. ASSUME result.error = "none"
      PROVE  /\ Says(result.value) = Says(v)
             /\ Encoded(result.value) = Encoded(v)
  <2> DEFINE w == result.value
  <2>1. w.kind = other
    BY <1>1, <1>5, <1>6, OffsetReadBack
  <2>2. Encoded(w) = EncodeOffset(w)
    BY <1>2, <2>1 DEF Encoded
  <2>3. Says(w) = <<0, 0, OffsetNanos(w)>> /\ Says(v) = <<0, 0, OffsetNanos(v)>>
    BY <1>1, <1>2, <2>1, SaysIs
  <2>4. QED
    BY <1>3, <1>5, <1>6, <2>2, <2>3
<1>7. QED
  BY <1>4, <1>5, <1>6 DEF WidensTo

(* A date-time in UTC read as one with a fixed offset.                     *)
LEMMA UtcWidens ==
  ASSUME NEW v \in PairsOf("DateTimeUtc")
  PROVE  WidensTo("DateTimeFixed", v)
<1> DEFINE result == OfOffsetParts("FixedOffset", OffsetParts(v.offset))
           o == result.value
           w == [kind |-> "DateTimeFixed", datetime |-> v.datetime, offset |-> o]
<1>1. /\ "DateTimeUtc" \in PairKinds /\ "DateTimeFixed" \in PairKinds
      /\ "Utc" \in OffsetKinds
      /\ PairOf("DateTimeUtc")[1] = PairOf("DateTimeFixed")[1]
      /\ PairOf("DateTimeUtc")[2] = "Utc" /\ PairOf("DateTimeFixed")[2] = "FixedOffset"
  BY PairKindsAre DEF PairKinds, OffsetKinds
<1>2. /\ v.kind = "DateTimeUtc" /\ v.offset \in OffsetsOf("Utc")
      /\ Decoded("DateTimeFixed", Encoded(v)) =
           PairOfParts("DateTimeFixed", Ok(v.datetime), result)
  BY <1>1, PairReadBack
<1>3. /\ result.error = "none" /\ OffsetNanos(o) = OffsetNanos(v.offset)
      /\ EncodeOffset(o) = EncodeOffset(v.offset)
  BY <1>1, <1>2, OffsetWidens
<1> HIDE DEF result, o
<1>4. Decoded("DateTimeFixed", Encoded(v)) = Ok(w)
  BY <1>2, <1>3, OkOrErr DEF PairOfParts, o
<1>5. Encoded(w) = Encoded(v)
  <2>1. Encoded(v) = <<Part(WrittenDate(v), <<>>),
                       Part(EncodeOffset(v.offset), NoOffset)>>
    BY <1>1, <1>2, PairIs
  <2>2. Encoded(w) = <<Part(WrittenDate(w), <<>>),
                       Part(EncodeOffset(w.offset), NoOffset)>>
    BY <1>1, PairIs
  <2>3. WrittenDate(w) = WrittenDate(v)
    BY DEF WrittenDate
  <2>4. QED
    BY <1>3, <2>1, <2>2, <2>3
<1>6. Says(w) = Says(v)
  BY <1>2, <1>3, SaysIs
<1>7. CanHold("DateTimeFixed", v)
  BY <1>1, CanHoldIs
<1> HIDE DEF w
<1>8. QED
  BY <1>4, <1>5, <1>6, <1>7, OkOrErr DEF WidensTo

(* Durations read as one another.                                          *)
LEMMA DeltasWiden ==
  ASSUME NEW kind \in DeltaKinds, NEW v \in DeltasOf(kind), NEW other \in DeltaKinds
  PROVE  WidensTo(other, v)
<1>1. PICK s \in I64, n \in I32 :
        /\ DeltaParts(v) = <<s, n>> /\ OfDeltaParts(kind, s, n) = Ok(v)
        /\ Encoded(v) = WriteDelta(s, n)
        /\ Total(v) = s * NANOS_PER_SECOND + n
        /\ kind # "TimeDelta" => v.seconds = s /\ v.nanos = n
        /\ \A k \in DeltaKinds : Decoded(k, Encoded(v)) = OfDeltaParts(k, s, n)
  BY DeltaReadBack
<1> DEFINE result == OfDeltaParts(other, s, n)
<1>2. v.kind = kind
  BY DeltaReadBack
<1>3. DeltaMade(other, s, n) /\ DeltaMade(kind, s, n)
  BY DeltasMade
<1>4. DeltaAccepts(kind, s, n)
  BY <1>1, <1>3, OkOrErr DEF DeltaMade
<1>5. DeltaAccepts(other, s, n) <=> CanHold(other, v)
  <2>1. CASE other = "duration"
    BY <2>1, CanHoldIs DEF DeltaAccepts
  <2>2. CASE other = kind
    <3>1. kind \in ForeignKinds /\ ValuesOf(kind) = DeltasOf(kind)
      BY KindsAre
    <3>2. QED
      BY <1>4, <2>2, <3>1, HoldsItsOwn
  <2>3. CASE other = "TimeDelta" /\ kind # "TimeDelta"
    BY <1>1, <1>2, <2>3, CanHoldIs DEF DeltaAccepts
  <2>4. CASE other = "TimeDuration" /\ kind = "duration"
    BY <1>1, <1>2, <2>4, CanHoldIs DEF DeltaAccepts
  <2>5. CASE other = "TimeDuration" /\ kind = "TimeDelta"
    BY <1>2, <1>4, <2>5, CanHoldIs DEF DeltaAccepts
  <2>6. QED
    BY <2>1, <2>2, <2>3, <2>4, <2>5 DEF DeltaKinds
<1> HIDE DEF result
<1>6. ASSUME result.error = "none"
      PROVE  Says(result.value) = Says(v) /\ Encoded(result.value) = Encoded(v)
  <2> DEFINE w == result.value
  <2>1. /\ w \in DeltasOf(other) /\ DeltaParts(w) = <<s, n>>
        /\ Total(w) = s * NANOS_PER_SECOND + n
    BY <1>3, <1>6 DEF DeltaMade, result
  <2> HIDE DEF w
  <2>2. w.kind = other
    BY <2>1, DeltaReadBack
  <2>3. Encoded(w) = WriteDelta(s, n)
    BY <2>1, <2>2, DeltaIs
  <2>4. Says(w) = <<Total(w), 0, 0>> /\ Says(v) = <<Total(v), 0, 0>>
    BY <1>2, <2>2, SaysIs
  <2>5. QED
    BY <1>1, <2>1, <2>3, <2>4 DEF w
<1>7. result.error = "none" <=> DeltaAccepts(other, s, n)
  BY <1>3 DEF DeltaMade, result
<1>8. Decoded(other, Encoded(v)) = result
  BY <1>1 DEF result
<1>9. QED
  BY <1>5, <1>6, <1>7, <1>8 DEF WidensTo

(* Each value read as its own type.                                        *)
LEMMA ReadAsItself ==
  ASSUME NEW kind \in ForeignKinds, NEW v \in ValuesOf(kind)
  PROVE  WidensTo(kind, v)
BY RoundTrip, HoldsItsOwn, OkOrErr DEF WidensTo

(* Lists with as many numbers of one type say the same of the same numbers.*)
LEMMA SameList ==
  ASSUME NEW kind \in ListKinds, NEW v \in ListsOf(kind),
         NEW other \in ListKinds, NEW w \in ListsOf(other),
         ListParts(w) = ListParts(v),
         \/ {kind, other} \subseteq {"NaiveDate", "Date"}
         \/ {kind, other} \subseteq {"NaiveTime", "Time"}
         \/ {kind, other} \subseteq {"NaiveDateTime", "PrimitiveDateTime"}
  PROVE  Says(w) = Says(v)
<1>1. v.kind = kind /\ w.kind = other
  BY DateReadBack
<1>2. CASE {kind, other} \subseteq {"NaiveDate", "Date"}
  <2>1. DateParts(v) = DateParts(w)
    BY <1>1, <1>2 DEF ListParts
  <2>2. v.year = w.year /\ v.ordinal0 = w.ordinal0
    BY <2>1 DEF DateParts
  <2>3. DateNanos(v) = DateNanos(w)
    BY <2>2 DEF DateNanos
  <2>4. QED
    BY <1>1, <1>2, <2>3, SaysIs
<1>3. CASE {kind, other} \subseteq {"NaiveTime", "Time"}
  <2>1. TimeParts(v) = TimeParts(w)
    BY <1>1, <1>3 DEF ListParts
  <2>2. /\ v.hour = w.hour /\ v.minute = w.minute /\ v.second = w.second
        /\ v.nanos = w.nanos
    BY <2>1 DEF TimeParts
  <2>3. ClockNanos(v) = ClockNanos(w)
    BY <2>2 DEF ClockNanos
  <2>4. QED
    BY <1>1, <1>3, <2>2, <2>3, SaysIs
<1>4. CASE {kind, other} \subseteq {"NaiveDateTime", "PrimitiveDateTime"}
  <2> DEFINE d == v.date
             t == v.time
             e == w.date
             u == w.time
  <2>1. /\ ListParts(v) = DateParts(d) \o TimeParts(t)
        /\ ListParts(w) = DateParts(e) \o TimeParts(u)
    BY <1>1, <1>4 DEF ListParts
  <2> HIDE DEF d, t, e, u
  <2>2. <<d.year, d.ordinal0, t.hour, t.minute, t.second, t.nanos>>
          = <<e.year, e.ordinal0, u.hour, u.minute, u.second, u.nanos>>
    BY <2>1, SixParts
  <2>3. /\ d.year = e.year /\ d.ordinal0 = e.ordinal0
        /\ t.hour = u.hour /\ t.minute = u.minute /\ t.second = u.second
        /\ t.nanos = u.nanos
    BY <2>2
  <2>4. DateNanos(d) = DateNanos(e) /\ ClockNanos(t) = ClockNanos(u)
    BY <2>3 DEF DateNanos, ClockNanos
  <2>5. /\ Says(v) = <<WallNanos(v), t.second, 0>>
        /\ Says(w) = <<WallNanos(w), u.second, 0>>
    BY <1>1, <1>4, SaysIs DEF t, u
  <2>6. WallNanos(v) = WallNanos(w)
    BY <2>4 DEF WallNanos, d, t, e, u
  <2>7. QED
    BY <2>3, <2>5, <2>6
<1>5. QED
  BY <1>2, <1>3, <1>4

(* A list read as a type of another library with the same numbers, if that *)
(* library has such a value.                                               *)
LEMMA ListWidens ==
  ASSUME NEW kind \in ListKinds, NEW v \in ListsOf(kind),
         NEW other \in ListKinds \ {"system"},
         \/ {kind, other} \subseteq {"NaiveDate", "Date"}
         \/ {kind, other} \subseteq {"NaiveTime", "Time"}
         \/ {kind, other} \subseteq {"NaiveDateTime", "PrimitiveDateTime"},
         OfListParts(other, ListParts(v)).error = "none" <=> CanHold(other, v)
  PROVE  WidensTo(other, v)
<1> DEFINE arr == ListParts(v)
           result == OfListParts(other, arr)
           w == result.value
<1>1. /\ Form(other) = "list" /\ Form(kind) = "list" /\ v.kind = kind
  BY KindsAre, DateReadBack
<1>2. ListTypes[other] = ListTypes[kind]
  BY DEF ListTypes
<1>3. /\ DecodeDate(other, EncodeList(kind, arr)) = result
      /\ EncodeList(other, arr) = EncodeList(kind, arr)
  BY <1>2, DateReadBack
<1>4. Encoded(v) = EncodeList(kind, arr)
  BY <1>1 DEF Encoded
<1>5. Decoded(other, Encoded(v)) = result
  BY <1>1, <1>3, <1>4 DEF Decoded
<1>6. arr \in Parts(other)
  <2>1. arr \in Parts(kind)
    BY ListsMade DEF MadeBack
  <2>2. QED
    BY <1>2, <2>1 DEF Parts, Length, Items
<1>7. ASSUME result.error = "none"
      PROVE  Says(w) = Says(v) /\ Encoded(w) = Encoded(v)
  <2>1. w \in ListsOf(other) /\ ListParts(w) = arr
    BY <1>6, <1>7, ListsMade DEF MadeOf
  <2> HIDE DEF w, result
  <2>2. Says(w) = Says(v)
    BY <2>1, SameList
  <2>3. w.kind = other
    BY <2>1, DateReadBack
  <2>4. Encoded(w) = EncodeList(other, arr)
    BY <1>1, <2>1, <2>3 DEF Encoded
  <2>5. QED
    BY <1>3, <1>4, <2>2, <2>4
<1> HIDE DEF w
<1>8. QED
  BY <1>5, <1>7 DEF WidensTo, w

(* Dates of both libraries.                                                *)
LEMMA DatesWiden ==
  /\ \A v \in NaiveDates : WidensTo("Date", v)
  /\ \A v \in Dates : WidensTo("NaiveDate", v)
<1>1. /\ ListsOf("NaiveDate") = NaiveDates /\ ListsOf("Date") = Dates
      /\ "NaiveDate" \in ListKinds \ {"system"} /\ "Date" \in ListKinds \ {"system"}
  BY DEF ListsOf, ListKinds
<1>2. ASSUME NEW v \in NaiveDates PROVE WidensTo("Date", v)
  <2> DEFINE w == [kind |-> "Date", year |-> v.year, ordinal0 |-> v.ordinal0]
  <2>1. v.ordinal0 \in 0 .. 365 /\ v.ordinal0 < DaysOfYear(v.year)
        /\ v.kind = "NaiveDate"
    BY DEF NaiveDates
  <2>2. w \in Dates <=> v.year \in TimeYears
    BY <2>1 DEF Dates
  <2>3. ListParts(v) = <<v.year, v.ordinal0>>
    BY <2>1 DEF ListParts, DateParts
  <2>4. OfListParts("Date", ListParts(v)) = PartsToDate(v.year, v.ordinal0)
    BY <2>3 DEF OfListParts, DateOf
  <2>5. OfListParts("Date", ListParts(v)).error = "none" <=> v.year \in TimeYears
    BY <2>2, <2>4, DatesAccepted, OkOrErr, ZenonT(60)
  <2>6. QED
    BY <1>1, <2>5, ListWidens, CanHoldIs, ZenonT(60)
<1>3. ASSUME NEW v \in Dates PROVE WidensTo("NaiveDate", v)
  <2> DEFINE w == [kind |-> "NaiveDate", year |-> v.year, ordinal0 |-> v.ordinal0]
  <2>1. v.ordinal0 \in 0 .. 365 /\ v.ordinal0 < DaysOfYear(v.year)
        /\ v.kind = "Date"
    BY DEF Dates
  <2>2. w \in NaiveDates <=> v.year \in ChronoYears
    BY <2>1 DEF NaiveDates
  <2>3. ListParts(v) = <<v.year, v.ordinal0>>
    BY <2>1 DEF ListParts, DateParts
  <2>4. OfListParts("NaiveDate", ListParts(v)) = PartsToNaiveDate(v.year, v.ordinal0)
    BY <2>3 DEF OfListParts, NaiveDateOf
  <2>5. OfListParts("NaiveDate", ListParts(v)).error = "none"
          <=> v.year \in ChronoYears
    BY <2>2, <2>4, DatesAccepted, OkOrErr, ZenonT(60)
  <2>6. QED
    BY <1>1, <2>5, ListWidens, CanHoldIs, ZenonT(60)
<1>4. QED
  BY <1>2, <1>3

(* Times of day, and what each library makes of one of the other.          *)
LEMMA TimeOfOther ==
  /\ \A t \in NaiveTimes :
       LET result == PartsToTime(t.hour, t.minute, t.second, t.nanos)
       IN  result.error = "none" <=> t.nanos \in Subsecond
  /\ \A t \in Times :
       PartsToNaiveTime(t.hour, t.minute, t.second, t.nanos).error = "none"
<1>1. ASSUME NEW t \in NaiveTimes
      PROVE  LET result == PartsToTime(t.hour, t.minute, t.second, t.nanos)
             IN  result.error = "none" <=> t.nanos \in Subsecond
  <2> DEFINE w == [kind |-> "Time", hour |-> t.hour, minute |-> t.minute,
                   second |-> t.second, nanos |-> t.nanos]
  <2>1. /\ t.hour \in 0 .. HoursPerDay - 1 /\ t.minute \in 0 .. MinutesPerHour - 1
        /\ t.second \in 0 .. SecondsPerMinute - 1
    BY DEF NaiveTimes, ClockTimes
  <2>2. w \in Times <=> t.nanos \in Subsecond
    BY <2>1 DEF Times, ClockTimes
  <2>3. PartsToTime(t.hour, t.minute, t.second, t.nanos)
          = IF w \in Times THEN Ok(w) ELSE Err("OutOfDomainValue")
    BY TimesAccepted
  <2> HIDE DEF w
  <2>4. QED
    BY <2>2, <2>3, OkOrErr
<1>2. ASSUME NEW t \in Times
      PROVE  PartsToNaiveTime(t.hour, t.minute, t.second, t.nanos).error = "none"
  <2> DEFINE w == [kind |-> "NaiveTime", hour |-> t.hour, minute |-> t.minute,
                   second |-> t.second, nanos |-> t.nanos]
  <2>1. /\ t.hour \in 0 .. HoursPerDay - 1 /\ t.minute \in 0 .. MinutesPerHour - 1
        /\ t.second \in 0 .. SecondsPerMinute - 1 /\ t.nanos \in Subsecond
    BY DEF Times, ClockTimes
  <2>2. t.nanos \in 0 .. 2 * NANOS_PER_SECOND - 1
    BY <2>1, Widths DEF Subsecond, NANOS_MAX
  <2>3. w \in NaiveTimes
    BY <2>1, <2>2 DEF NaiveTimes, ClockTimes
  <2>4. PartsToNaiveTime(t.hour, t.minute, t.second, t.nanos)
          = IF w \in NaiveTimes THEN Ok(w) ELSE Err("OutOfDomainValue")
    BY TimesAccepted
  <2> HIDE DEF w
  <2>5. QED
    BY <2>3, <2>4, OkOrErr
<1>3. QED
  BY <1>1, <1>2

(* So each is read where the other library has it.                         *)
LEMMA TimesWiden ==
  /\ \A v \in NaiveTimes : WidensTo("Time", v)
  /\ \A v \in Times : WidensTo("NaiveTime", v)
<1>1. /\ ListsOf("NaiveTime") = NaiveTimes /\ ListsOf("Time") = Times
      /\ "NaiveTime" \in ListKinds \ {"system"} /\ "Time" \in ListKinds \ {"system"}
  BY DEF ListsOf, ListKinds
<1>2. \A v : OfListParts("Time", <<v.hour, v.minute, v.second, v.nanos>>)
               = PartsToTime(v.hour, v.minute, v.second, v.nanos)
  BY DEF OfListParts, TimeOf
<1>3. \A v : OfListParts("NaiveTime", <<v.hour, v.minute, v.second, v.nanos>>)
               = PartsToNaiveTime(v.hour, v.minute, v.second, v.nanos)
  BY DEF OfListParts, NaiveTimeOf
<1>4. ASSUME NEW v \in NaiveTimes PROVE WidensTo("Time", v)
  <2>1. ListParts(v) = <<v.hour, v.minute, v.second, v.nanos>>
    <3>1. v.kind = "NaiveTime"
      BY DEF NaiveTimes, ClockTimes
    <3>2. QED
      BY <3>1 DEF ListParts, TimeParts
  <2>2. OfListParts("Time", ListParts(v)).error = "none" <=> CanHold("Time", v)
    BY <1>2, <2>1, TimeOfOther, CanHoldIs
  <2>3. QED
    BY <1>1, <2>2, ListWidens
<1>5. ASSUME NEW v \in Times PROVE WidensTo("NaiveTime", v)
  <2>1. ListParts(v) = <<v.hour, v.minute, v.second, v.nanos>>
    <3>1. v.kind = "Time"
      BY DEF Times, ClockTimes
    <3>2. QED
      BY <3>1 DEF ListParts, TimeParts
  <2>2. OfListParts("NaiveTime", ListParts(v)).error = "none"
          <=> CanHold("NaiveTime", v)
    BY <1>3, <2>1, TimeOfOther, CanHoldIs
  <2>3. QED
    BY <1>1, <2>2, ListWidens
<1>6. QED
  BY <1>4, <1>5

(* Date-times.                                                             *)
LEMMA DateTimesWiden ==
  /\ \A v \in NaiveDateTimes : WidensTo("PrimitiveDateTime", v)
  /\ \A v \in PrimitiveDateTimes : WidensTo("NaiveDateTime", v)
<1>1. /\ ListsOf("NaiveDateTime") = NaiveDateTimes
      /\ ListsOf("PrimitiveDateTime") = PrimitiveDateTimes
      /\ "NaiveDateTime" \in ListKinds \ {"system"}
      /\ "PrimitiveDateTime" \in ListKinds \ {"system"}
  BY DEF ListsOf, ListKinds
<1>2. ASSUME NEW v \in NaiveDateTimes PROVE WidensTo("PrimitiveDateTime", v)
  <2> DEFINE d == v.date
             t == v.time
             arr == <<d.year, d.ordinal0, t.hour, t.minute, t.second, t.nanos>>
             date == PartsToDate(d.year, d.ordinal0)
             time == PartsToTime(t.hour, t.minute, t.second, t.nanos)
  <2>1. v.kind = "NaiveDateTime" /\ d \in NaiveDates /\ t \in NaiveTimes
    BY DEF NaiveDateTimes
  <2>2. ListParts(v) = arr
    <3>1. ListParts(v) = DateParts(d) \o TimeParts(t)
      BY <2>1 DEF ListParts
    <3>2. QED
      BY <3>1, SixParts
  <2> HIDE DEF d, t
  <2>3. OfListParts("PrimitiveDateTime", arr) = Joined("PrimitiveDateTime", date, time)
    BY DEF OfListParts, PrimitiveDateTimeOf
  <2>4. date.error = "none" <=> d.year \in TimeYears
    <3>1. d.ordinal0 \in 0 .. 365 /\ d.ordinal0 < DaysOfYear(d.year)
      BY <2>1 DEF NaiveDates
    <3>2. [kind |-> "Date", year |-> d.year, ordinal0 |-> d.ordinal0] \in Dates
            <=> d.year \in TimeYears
      BY <3>1 DEF Dates
    <3>3. QED
      BY <3>2, DatesAccepted, OkOrErr
  <2>5. time.error = "none" <=> t.nanos \in Subsecond
    BY <2>1, TimeOfOther
  <2> HIDE DEF date, time
  <2>6. OfListParts("PrimitiveDateTime", arr).error = "none"
          <=> d.year \in TimeYears /\ t.nanos \in Subsecond
    BY <2>3, <2>4, <2>5, JoinedIs, OkOrErr
  <2>7. CanHold("PrimitiveDateTime", v)
          <=> d.year \in TimeYears /\ t.nanos \in Subsecond
    BY <2>1, CanHoldIs DEF d, t
  <2> HIDE DEF arr
  <2>8. QED
    BY <1>1, <2>2, <2>6, <2>7, ListWidens
<1>3. ASSUME NEW v \in PrimitiveDateTimes PROVE WidensTo("NaiveDateTime", v)
  <2> DEFINE d == v.date
             t == v.time
             arr == <<d.year, d.ordinal0, t.hour, t.minute, t.second, t.nanos>>
             date == PartsToNaiveDate(d.year, d.ordinal0)
             time == PartsToNaiveTime(t.hour, t.minute, t.second, t.nanos)
  <2>1. v.kind = "PrimitiveDateTime" /\ d \in Dates /\ t \in Times
    BY DEF PrimitiveDateTimes
  <2>2. ListParts(v) = arr
    <3>1. ListParts(v) = DateParts(d) \o TimeParts(t)
      BY <2>1 DEF ListParts
    <3>2. QED
      BY <3>1, SixParts
  <2> HIDE DEF d, t
  <2>3. OfListParts("NaiveDateTime", arr) = Joined("NaiveDateTime", date, time)
    BY DEF OfListParts, NaiveDateTimeOf
  <2>4. date.error = "none" <=> d.year \in ChronoYears
    <3>1. d.ordinal0 \in 0 .. 365 /\ d.ordinal0 < DaysOfYear(d.year)
      BY <2>1 DEF Dates
    <3>2. [kind |-> "NaiveDate", year |-> d.year, ordinal0 |-> d.ordinal0]
            \in NaiveDates <=> d.year \in ChronoYears
      BY <3>1 DEF NaiveDates
    <3>3. QED
      BY <3>2, DatesAccepted, OkOrErr
  <2>5. time.error = "none"
    BY <2>1, TimeOfOther
  <2> HIDE DEF date, time
  <2>6. OfListParts("NaiveDateTime", arr).error = "none" <=> d.year \in ChronoYears
    BY <2>3, <2>4, <2>5, JoinedIs, OkOrErr
  <2>7. CanHold("NaiveDateTime", v) <=> d.year \in ChronoYears
    BY <2>1, CanHoldIs DEF d
  <2> HIDE DEF arr
  <2>8. QED
    BY <1>1, <2>2, <2>6, <2>7, ListWidens
<1>4. QED
  BY <1>2, <1>3

(* A date read as a date-time is that date at midnight.                    *)
LEMMA DateWidens ==
  ASSUME NEW v \in NaiveDates \cup Dates,
         NEW other,
         \/ v \in NaiveDates /\ other = "NaiveDateTime"
         \/ v \in Dates /\ other = "PrimitiveDateTime"
  PROVE  WidensTo(other, v)
<1> DEFINE kind == IF other = "NaiveDateTime" THEN "NaiveDate" ELSE "Date"
           y == v.year
           o == v.ordinal0
           arr == <<y, o>>
           padded == <<y, o, 0, 0, 0, 0>>
           midnight == [kind |-> IF other = "NaiveDateTime" THEN "NaiveTime"
                                 ELSE "Time",
                        hour |-> 0, minute |-> 0, second |-> 0, nanos |-> 0]
           w == [kind |-> other, date |-> v, time |-> midnight]
<1>1. /\ v.kind = kind /\ kind \in ListKinds /\ other \in ListKinds
      /\ Form(kind) = "list" /\ Form(other) = "list"
      /\ y \in I32 /\ o \in I32 /\ DateParts(v) = arr /\ y \in Int /\ o \in Int
  <2>1. v.kind = kind
    <3>1. /\ v \in NaiveDates => v.kind = "NaiveDate"
          /\ v \in Dates => v.kind = "Date"
      BY DEF NaiveDates, Dates
    <3>2. QED
      BY <3>1
  <2>2. kind \in ListKinds /\ other \in ListKinds
    BY DEF ListKinds
  <2>3. QED
    BY <2>1, <2>2, KindsAre, DateFields, Widths
<1>2. ListParts(v) = arr
  BY <1>1 DEF ListParts
<1>3. Encoded(v) = EncodeList(kind, arr)
  BY <1>1, <1>2 DEF Encoded
<1>4. /\ Signed(other) = Signed(kind) /\ Length(other) = 6 /\ Items(other) = I32
      /\ 2 <= Length(other)
  BY ListTypesAre DEF Signed, Items
<1>5. arr \in [1 .. 2 -> Items(other)]
  BY <1>1, <1>4, Tuples
<1>6. Padded(arr, 2, Length(other)) = padded
  <2>1. /\ padded \in [1 .. 6 -> Int]
        /\ Padded(arr, 2, 6) = [i \in 1 .. 6 |-> IF i <= 2 THEN arr[i] ELSE 0]
    <3>1. y \in Int /\ o \in Int /\ 0 \in Int
      BY <1>1
    <3> HIDE DEF y, o
    <3>2. padded \in [1 .. 6 -> Int]
      BY <3>1
    <3>3. QED
      BY <3>2 DEF Padded
  <2>2. \A i \in 1 .. 6 : padded[i] = IF i <= 2 THEN arr[i] ELSE 0
    <3>1. 1 .. 6 = {1, 2, 3, 4, 5, 6}
      OBVIOUS
    <3>2. QED
      BY <3>1
  <2> HIDE DEF padded, arr
  <2>3. padded = [i \in 1 .. 6 |-> padded[i]]
    BY <2>1
  <2>4. QED
    BY <1>4, <2>1, <2>2, <2>3
<1>7. /\ EncodeList(kind, arr) \in Seq(Nat)
      /\ DecodeList(other, EncodeList(kind, arr)) = Ok(padded)
      /\ EncodeList(other, padded) = EncodeList(kind, arr)
  <2> HIDE DEF padded, arr, kind
  <2>1. /\ 2 \in Nat /\ kind \in ListKinds /\ other \in ListKinds
        /\ Signed(other) = Signed(kind) /\ 2 <= Length(other)
        /\ arr \in [1 .. 2 -> Items(other)]
    BY <1>1, <1>4, <1>5
  <2>2. LET p == Padded(arr, 2, Length(other))
        IN  /\ EncodeList(kind, arr) \in Seq(Nat)
            /\ DecodeList(other, EncodeList(kind, arr)) = Ok(p)
            /\ EncodeList(other, p) = EncodeList(kind, arr)
    BY ONLY <2>1, ListReadBack
  <2>3. QED
    BY <1>6, <2>2
<1>8. Decoded(other, Encoded(v)) = OfListParts(other, padded)
  <2> DEFINE list == EncodeList(kind, arr)
  <2> HIDE DEF list, padded
  <2>1. Decoded(other, list) = DecodeDate(other, list)
    BY <1>1 DEF Decoded
  <2>2. DecodeList(other, list) = Ok(padded)
    BY <1>7 DEF list
  <2>3. DecodeDate(other, list) = OfListParts(other, padded)
    BY <2>2, OkOrErr DEF DecodeDate
  <2>4. QED
    BY <1>3, <2>1, <2>3 DEF list
<1>9. OfListParts(other, padded) = Ok(w)
  <2>1. /\ 0 \in 0 .. HoursPerDay - 1 /\ 0 \in 0 .. MinutesPerHour - 1
        /\ 0 \in 0 .. SecondsPerMinute - 1 /\ 0 \in Subsecond
        /\ 0 \in 0 .. 2 * NANOS_PER_SECOND - 1
    BY Widths DEF Subsecond, NANOS_MAX
  <2>2. CASE v \in NaiveDates /\ other = "NaiveDateTime"
    <3> DEFINE t == [kind |-> "NaiveTime", hour |-> 0, minute |-> 0, second |-> 0,
                     nanos |-> 0]
    <3>1. t \in NaiveTimes
      BY <2>1 DEF NaiveTimes, ClockTimes
    <3>2. PartsToNaiveTime(0, 0, 0, 0) = Ok(t)
      BY <3>1, TimesAccepted
    <3>3. v = [kind |-> "NaiveDate", year |-> y, ordinal0 |-> o]
      BY <2>2, DateFields
    <3>4. PartsToNaiveDate(y, o) = Ok(v)
      BY <2>2, <3>3, DatesAccepted
    <3>5. OfListParts(other, padded) =
            Joined("NaiveDateTime", PartsToNaiveDate(y, o),
                   PartsToNaiveTime(0, 0, 0, 0))
      BY <2>2 DEF OfListParts, NaiveDateTimeOf
    <3>6. midnight = t
      BY <2>2
    <3> HIDE DEF t, padded, midnight
    <3>7. QED
      BY <2>2, <3>2, <3>4, <3>5, <3>6, JoinedIs, OkOrErr
  <2>3. CASE v \in Dates /\ other = "PrimitiveDateTime"
    <3> DEFINE t == [kind |-> "Time", hour |-> 0, minute |-> 0, second |-> 0,
                     nanos |-> 0]
    <3>1. t \in Times
      BY <2>1 DEF Times, ClockTimes
    <3>2. PartsToTime(0, 0, 0, 0) = Ok(t)
      BY <3>1, TimesAccepted
    <3>3. v = [kind |-> "Date", year |-> y, ordinal0 |-> o]
      BY <2>3, DateFields
    <3>4. PartsToDate(y, o) = Ok(v)
      BY <2>3, <3>3, DatesAccepted
    <3>5. OfListParts(other, padded) =
            Joined("PrimitiveDateTime", PartsToDate(y, o), PartsToTime(0, 0, 0, 0))
      BY <2>3 DEF OfListParts, PrimitiveDateTimeOf
    <3>6. midnight = t
      BY <2>3
    <3> HIDE DEF t, padded, midnight
    <3>7. QED
      BY <2>3, <3>2, <3>4, <3>5, <3>6, JoinedIs, OkOrErr
  <2>4. QED
    BY <2>2, <2>3
<1>10. Encoded(w) = Encoded(v)
  <2>1. DateParts(v) \o TimeParts(midnight) = padded
    BY SixParts
  <2> HIDE DEF padded, midnight, arr, kind
  <2>2. w.kind = other /\ w.date = v /\ w.time = midnight
    OBVIOUS
  <2> HIDE DEF w
  <2>3. ListParts(w) = padded
    BY <2>1, <2>2 DEF ListParts
  <2>4. Encoded(w) = EncodeList(other, padded)
    BY <1>1, <2>2, <2>3 DEF Encoded
  <2>5. QED
    BY <1>3, <1>7, <2>4
<1>11. Says(w) = Says(v)
  <2>1. DayNumber(y, 1, 1) \in Int
    <3>1. 1 \in 1 .. 12 /\ 1 \in Int
      OBVIOUS
    <3>2. QED
      BY <1>1, <3>1, DayNumberTyped
  <2>2. SecondsPerDay \in Int /\ NANOS_PER_SECOND \in Int
        /\ MinutesPerHour \in Int /\ SecondsPerMinute \in Int
    BY Widths DEF SecondsPerDay, SecondsPerHour
  <2>3. DateNanos(v) \in Int
    <3> DEFINE days == DayNumber(y, 1, 1) + o
               nanos == days * SecondsPerDay * NANOS_PER_SECOND
    <3>1. days \in Int
      BY <1>1, <2>1
    <3>2. nanos \in Int
      <4> HIDE DEF days
      <4>1. days * SecondsPerDay \in Int
        BY <2>2, <3>1
      <4>2. QED
        BY <2>2, <4>1
    <3>3. DateNanos(v) = nanos
      BY DEF DateNanos
    <3>4. QED
      BY <3>2, <3>3
  <2>4. ClockNanos(midnight) = 0
    BY <2>2 DEF ClockNanos
  <2>5. WallNanos(w) = DateNanos(v) + 0 /\ w.time.second = 0 /\ w.kind = other
    BY <2>4 DEF WallNanos
  <2>6. Says(v) = <<DateNanos(v), 0, 0>>
    BY <1>1, SaysIs
  <2> HIDE DEF w
  <2>7. Says(w) = <<WallNanos(w), w.time.second, 0>>
    BY <2>5, SaysIs
  <2>8. QED
    BY <2>3, <2>5, <2>6, <2>7
<1>12. CanHold(other, v)
  BY <1>1, CanHoldIs
<1> HIDE DEF w
<1>13. QED
  BY <1>8, <1>9, <1>10, <1>11, <1>12, OkOrErr DEF WidensTo

(* All that the documentation lists.                                       *)
LEMMA AllWiden ==
  ASSUME NEW v \in Encodable, NEW kind \in Widened(v.kind)
  PROVE  WidensTo(kind, v) /\ kind \in ForeignKinds /\ Form(kind) = Form(v.kind)
<1>1. v.kind \in ForeignKinds /\ v \in ValuesOf(v.kind)
  BY EncodableIs
<1>2. CASE kind = v.kind
  BY <1>1, <1>2, ReadAsItself
<1>3. CASE v.kind \in ListKinds /\ kind # v.kind
  <2>1. v \in ListsOf(v.kind)
    BY <1>3, <1>1, KindsAre
  <2>2. \/ v.kind = "NaiveDate" /\ kind \in {"Date", "NaiveDateTime"}
        \/ v.kind = "Date" /\ kind \in {"NaiveDate", "PrimitiveDateTime"}
        \/ v.kind = "NaiveTime" /\ kind = "Time"
        \/ v.kind = "Time" /\ kind = "NaiveTime"
        \/ v.kind = "NaiveDateTime" /\ kind = "PrimitiveDateTime"
        \/ v.kind = "PrimitiveDateTime" /\ kind = "NaiveDateTime"
    BY <1>3 DEF Widened, ListKinds
  <2>3. kind \in ListKinds
    BY <2>2 DEF ListKinds
  <2>4. kind \in ForeignKinds /\ Form(kind) = Form(v.kind)
    BY <1>3, <2>3, KindsAre
  <2>5. /\ v.kind = "NaiveDate" => v \in NaiveDates
        /\ v.kind = "Date" => v \in Dates
        /\ v.kind = "NaiveTime" => v \in NaiveTimes
        /\ v.kind = "Time" => v \in Times
        /\ v.kind = "NaiveDateTime" => v \in NaiveDateTimes
        /\ v.kind = "PrimitiveDateTime" => v \in PrimitiveDateTimes
    BY <2>1 DEF ListsOf
  <2>6. WidensTo(kind, v)
    BY <2>2, <2>5, DatesWiden, TimesWiden, DateTimesWiden, DateWidens
  <2>7. QED
    BY <2>4, <2>6
<1>4. CASE v.kind \in OffsetKinds /\ kind # v.kind
  <2>1. v \in OffsetsOf(v.kind)
    BY <1>1, <1>4, KindsAre
  <2>2. kind \in {"FixedOffset", "UtcOffset"}
    BY <1>4 DEF Widened, OffsetKinds
  <2>3. kind \in OffsetKinds
    BY <2>2 DEF OffsetKinds
  <2>4. QED
    BY <1>4, <2>1, <2>2, <2>3, OffsetsWiden, KindsAre
<1>5. CASE v.kind \in PairKinds /\ kind # v.kind
  <2>1. v.kind = "DateTimeUtc" /\ kind = "DateTimeFixed"
    BY <1>5 DEF Widened, PairKinds
  <2>2. v \in PairsOf("DateTimeUtc") /\ kind \in PairKinds
    BY <1>1, <1>5, <2>1, KindsAre DEF PairKinds
  <2>3. QED
    BY <1>5, <2>1, <2>2, UtcWidens, KindsAre
<1>6. CASE v.kind \in DeltaKinds /\ kind # v.kind
  <2>1. v \in DeltasOf(v.kind)
    BY <1>1, <1>6, KindsAre
  <2>2. kind \in DeltaKinds
    BY <1>6 DEF Widened, DeltaKinds
  <2>3. QED
    BY <1>6, <2>1, <2>2, DeltasWiden, KindsAre
<1>7. QED
  BY <1>1, <1>2, <1>3, <1>4, <1>5, <1>6, KindsAre

(* Every type reads the encodings of the types it can be changed from as   *)
(* the value they were made of, whenever it has such a value, and would    *)
(* write them back the same (README.md:2118-2126): for any years and       *)
(* offsets of the two libraries, and integers of any widths that hold the  *)
(* parts.                                                                  *)
THEOREM ForeignWidens == ForeignSpec => []WidensAsDocumented
<1>1. ForeignTypeOK => WidensAsDocumented
  <2> SUFFICES ASSUME ForeignTypeOK, held.kind = "wire", held.from # NoValue,
                      NEW kind \in Widened(held.from.kind)
               PROVE  LET result == DecodedRelaxed(kind, held.data)
                      IN  /\ (result.error = "none") <=> CanHold(kind, held.from)
                          /\ result.error = "none" =>
                               /\ Says(result.value) = Says(held.from)
                               /\ Encoded(result.value) = held.data
    BY DEF WidensAsDocumented
  <2> DEFINE v == held.from
  <2>1. /\ v \in Encodable /\ held.form = Form(v.kind) /\ held.data = Encoded(v)
        /\ held.data \in WireData(held.form)
    BY KindsTellApart, WireIs
  <2> HIDE DEF v
  <2>2. WidensTo(kind, v) /\ kind \in ForeignKinds /\ Form(kind) = Form(v.kind)
    BY <2>1, AllWiden DEF v
  <2>3. DecodedRelaxed(kind, held.data) = Decoded(kind, held.data)
    BY <2>1, <2>2, RelaxedIs
  <2>4. QED
    BY <2>1, <2>2, <2>3 DEF WidensTo, v
<1>2. QED
  BY <1>1, ForeignTyped, PTL

(* Encoding and decoding in between changes nothing of what the            *)
(* conversions keep (bilrost-types/src/lib.rs, datetime.rs:97-179).        *)
THEOREM ForeignKeepsTime == ForeignSpec => ConversionsKeepTime
<1> DEFINE Keep ==
      held.kind \in Converted /\ held'.kind \in Converted =>
        \/ Meaning(held') = Meaning(held)
        \/ /\ Negate
           /\ \/ Total(held') = -Total(held)
              \/ held.seconds = -I64Max - 1 \/ held.nanos = -I32Max - 1
<1>1. ASSUME ForeignTypeOK, [ForeignNext]_held PROVE [Keep]_held
  <2>1. SUFFICES ASSUME ForeignNext, held.kind \in Converted,
                        held'.kind \in Converted
                 PROVE  Kept
    BY <1>1 DEF Kept
  <2>2. CASE CalendarNext
    BY <1>1, <2>1, <2>2, CalendarApart, CalendarStepKeeps
  <2>3. CASE EncodeForeign
    <3>1. held'.kind = "wire"
      BY <1>1, <2>3, EncodedTyped, WireIs
    <3>2. QED
      BY <2>1, <3>1 DEF Converted, DateKinds
  <2>4. CASE DecodeForeign
    BY <2>1, <2>4 DEF DecodeForeign, Converted, DateKinds
  <2>5. QED
    BY <2>1, <2>2, <2>3, <2>4 DEF ForeignNext
<1>2. QED
  BY <1>1, ForeignTyped, PTL DEF ForeignSpec, ConversionsKeepTime

(* Nor of which dates and texts are accepted (datetime.rs:487-538).        *)
THEOREM ForeignAcceptsDates == ForeignSpec => AcceptsExactlyDates
<1> DEFINE Accept ==
      /\ held.kind \in DateKinds =>
           ((held' # Refused) <=>
              /\ IsGregorian(LocalTime(held))
              /\ SecondsSinceEpoch(LocalTime(held)) \in I64
              /\ SecondsSinceEpoch(LocalTime(held)) - Offset(held) \in I64
              /\ held.kind = "dateText" =>
                   /\ held.offsetHour < HoursPerDay
                   /\ held.offsetMinute < MinutesPerHour)
      /\ held.kind = "timestamp" /\ held'.kind = "dateTime" =>
           IsGregorian(held')
<1>1. ASSUME ForeignTypeOK, [ForeignNext]_held PROVE [Accept]_held
  <2>1. SUFFICES ASSUME ForeignNext PROVE Accepted
    BY <1>1 DEF Accepted
  <2>2. CASE CalendarNext
    BY <1>1, <2>2, CalendarApart, CalendarStepAccepts
  <2>3. ASSUME held.kind \notin DateKinds \cup {"timestamp"} PROVE Accepted
    BY <2>3 DEF Accepted
  <2>4. "wire" \notin DateKinds \cup {"timestamp"}
        /\ \A k \in ForeignKinds : k \notin DateKinds \cup {"timestamp"}
    BY DEF DateKinds, ForeignKinds, Chrono, TimeCrate
  <2>5. CASE EncodeForeign
    BY <2>3, <2>4, <2>5 DEF EncodeForeign
  <2>6. CASE DecodeForeign
    BY <2>3, <2>4, <2>6 DEF DecodeForeign
  <2>7. QED
    BY <2>1, <2>2, <2>5, <2>6 DEF ForeignNext
<1>2. QED
  BY <1>1, ForeignTyped, PTL DEF ForeignSpec, AcceptsExactlyDates

(* And whatever was decoded, normalising it gives the nearest canonical    *)
(* value (bilrost-types/src/lib.rs:65-105 and 224-255).                    *)
THEOREM ForeignNormalizes == ForeignSpec => []NormalizesNearest
<1>1. ForeignTypeOK => NormalizesNearest
  <2> SUFFICES ASSUME ForeignTypeOK PROVE NormalizesNearest
    OBVIOUS
  <2>1. /\ held.kind = "duration" => held \in Duration
        /\ held.kind = "timestamp" => held \in Timestamp
    BY KindsTellApart, KindsOfValues DEF CalendarTypeOK, CalendarKinds
  <2>2. QED
    BY <2>1, NormalDurationNearest, NormalTimestampNearest DEF NormalizesNearest
<1>2. QED
  BY <1>1, ForeignTyped, PTL

=============================================================================
