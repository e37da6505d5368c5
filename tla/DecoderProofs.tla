--------------------------- MODULE DecoderProofs ---------------------------
(***************************************************************************)
(* What the frames of Decoder keep up among each other, proved for every   *)
(* schema, every input and every limit: the minimum of canonicity, the     *)
(* count of recursion, and that reading stays in the buffer with the caps  *)
(* of nested calls in order.  Nothing here depends on what the bytes       *)
(* decode to.  Then, of the calls of the public API that run this decoder, *)
(* what each of them leaves of the message and of the buffer.              *)
(***************************************************************************)
EXTENDS MessageApi, WireProofs

-----------------------------------------------------------------------------
(* The inductive invariant.  A stack of calls is good when every frame has *)
(* its fields, the first is the root message, each other is a call that    *)
(* the frame below it makes, and recursion is counted.                     *)

WellFormed(f) ==
  /\ "at" \in DOMAIN f
  /\ f.at \in {"message", "struct", "value", "packed", "unpacked", "skip"}
  /\ f.at # "skip" => /\ {"min", "depth"} \subseteq DOMAIN f
                      /\ f.min \in Relaxed .. Canonical
                      /\ f.depth \in Nat
  /\ HasCanon(f) => /\ {"canon", "value"} \subseteq DOMAIN f
                    /\ f.canon \in NotCanonical .. Canonical
                    /\ f.canon >= f.min
  /\ f.at \in {"packed", "unpacked"} => "usual" \in DOMAIN f /\ f.usual \in BOOLEAN

IsRoot(f) == f.at = "message" /\ f.depth = RecursionLimit

(* A collection in the representation that is not its field's own is       *)
(* decoded relaxed, and only where the caller tolerates what comes of it.  *)
CallOf(caller, f) ==
  /\ HasCanon(caller)
  /\ f.at \in {"message", "struct", "value"} => f.min = caller.min
  /\ f.at = "message" => caller.depth = f.depth + 1
  /\ f.at \in {"struct", "value", "packed", "unpacked"} => caller.depth = f.depth
  /\ f.at \in {"packed", "unpacked"} =>
       /\ f.usual => f.min = caller.min
       /\ ~f.usual => caller.min <= NotCanonical

MessagesTo(s, i) == {j \in 2 .. i : s[j].at = "message"}

Accounted(s, i) ==
  s[i].at # "skip" => s[i].depth + Cardinality(MessagesTo(s, i)) = RecursionLimit

IsStack(s) == s \in Seq({s[i] : i \in 1 .. Len(s)})

GoodStack(s) ==
  /\ IsStack(s)
  /\ \A i \in 1 .. Len(s) :
       /\ WellFormed(s[i])
       /\ IF i = 1 THEN IsRoot(s[i]) ELSE CallOf(s[i - 1], s[i])
       /\ Accounted(s, i)

IInv == stack # <<>> /\ GoodStack(stack)

-----------------------------------------------------------------------------
(* Lemmas about stacks.                                                    *)

(* A function over 1 .. n is a stack of height n.                          *)
LEMMA FunctionIsStack ==
  ASSUME NEW n \in Nat, NEW t, t = [i \in 1 .. n |-> t[i]]
  PROVE  IsStack(t) /\ Len(t) = n
<1> DEFINE S == {t[i] : i \in 1 .. n}
<1>1. t \in [1 .. n -> S]
  OBVIOUS
<1>2. t \in Seq(S)
  BY <1>1, SeqDef
<1>3. Len(t) = n
  BY <1>1, <1>2, LenProperties
<1>4. QED
  BY <1>2, <1>3 DEF IsStack

(* Frames are only counted up to the one that is asked about.              *)
LEMMA CountAgrees ==
  ASSUME NEW s, NEW t, NEW i \in Nat, \A j \in 1 .. i : t[j].at = s[j].at
  PROVE  MessagesTo(t, i) = MessagesTo(s, i)
BY DEF MessagesTo

(* A message on top counts once more.                                      *)
LEMMA CountNext ==
  ASSUME NEW s, NEW i \in Nat \ {0}
  PROVE  Cardinality(MessagesTo(s, i + 1)) =
           Cardinality(MessagesTo(s, i)) + (IF s[i + 1].at = "message" THEN 1 ELSE 0)
<1>1. IsFiniteSet(MessagesTo(s, i))
  <2>1. IsFiniteSet(2 .. i) /\ MessagesTo(s, i) \subseteq 2 .. i
    BY FS_Interval DEF MessagesTo
  <2>2. QED
    BY <2>1, FS_Subset
<1>2. Cardinality(MessagesTo(s, i)) \in Nat
  BY <1>1, FS_CardinalityType
<1>3. CASE s[i + 1].at = "message"
  <2>1. /\ MessagesTo(s, i + 1) = MessagesTo(s, i) \cup {i + 1}
        /\ i + 1 \notin MessagesTo(s, i)
    BY <1>3 DEF MessagesTo
  <2>2. QED
    BY <1>1, <1>3, <2>1, FS_AddElement
<1>4. CASE s[i + 1].at # "message"
  <2>1. MessagesTo(s, i + 1) = MessagesTo(s, i)
    BY <1>4 DEF MessagesTo
  <2>2. QED
    BY <1>2, <1>4, <2>1
<1>5. QED
  BY <1>3, <1>4

(* Nothing is nested in the root yet.                                      *)
LEMMA CountFirst ==
  ASSUME NEW s
  PROVE  Cardinality(MessagesTo(s, 1)) = 0
<1>1. MessagesTo(s, 1) = {}
  BY DEF MessagesTo
<1>2. QED
  BY <1>1, FS_EmptySet

(* A stack is good without its top.                                        *)
LEMMA PopKeeps ==
  ASSUME NEW s, GoodStack(s), s # <<>>
  PROVE  LET t == SubSeq(s, 1, Len(s) - 1)
         IN /\ GoodStack(t)
            /\ Len(s) \in Nat \ {0} /\ Len(t) = Len(s) - 1
            /\ t = [i \in 1 .. Len(t) |-> s[i]]
<1> DEFINE n == Len(s)
           t == SubSeq(s, 1, n - 1)
<1>1. n \in Nat \ {0}
  BY EmptySeq DEF GoodStack, IsStack
<1>2. t = [i \in 1 .. n - 1 |-> s[i]]
  BY <1>1 DEF GoodStack, IsStack
<1>3. \A i \in 1 .. n - 1 : t[i] = s[i]
  BY <1>2
<1>4. IsStack(t) /\ Len(t) = n - 1
  <2>1. t = [i \in 1 .. n - 1 |-> t[i]] /\ n - 1 \in Nat
    BY <1>1, <1>2, <1>3
  <2>2. QED
    <3> HIDE DEF t, n
    <3> QED
      BY <2>1, FunctionIsStack
<1>5. ASSUME NEW i \in 1 .. n - 1
      PROVE  /\ WellFormed(t[i])
             /\ IF i = 1 THEN IsRoot(t[i]) ELSE CallOf(t[i - 1], t[i])
             /\ Accounted(t, i)
  <2>1. /\ WellFormed(s[i])
        /\ IF i = 1 THEN IsRoot(s[i]) ELSE CallOf(s[i - 1], s[i])
        /\ Accounted(s, i)
    BY <1>1 DEF GoodStack
  <2>2. t[i] = s[i] /\ (i # 1 => t[i - 1] = s[i - 1])
    BY <1>1, <1>3
  <2>3. MessagesTo(t, i) = MessagesTo(s, i)
    <3> HIDE DEF t
    <3> QED
      BY <1>1, <1>3, CountAgrees
  <2>4. QED
    BY <2>1, <2>2, <2>3 DEF Accounted
<1>6. GoodStack(t)
  <2> HIDE DEF t
  <2> QED
    BY <1>4, <1>5 DEF GoodStack
<1>7. QED
  BY <1>1, <1>2, <1>4, <1>6

(* A stack is good with one more call on top.                              *)
LEMMA PushKeeps ==
  ASSUME NEW s, GoodStack(s), NEW f, WellFormed(f),
         IF s = <<>> THEN IsRoot(f) ELSE CallOf(s[Len(s)], f)
  PROVE  /\ GoodStack(Append(s, f)) /\ Append(s, f) # <<>>
         /\ Len(Append(s, f)) = Len(s) + 1
         /\ Append(s, f)[Len(s) + 1] = f
<1> DEFINE n == Len(s)
           t == Append(s, f)
<1>1. n \in Nat /\ (s = <<>> <=> n = 0) /\ (n = 0 \/ n - 1 \in Nat)
  BY EmptySeq DEF GoodStack, IsStack
<1>2. PICK S : s \in Seq(S) /\ f \in S
  <2> DEFINE S == {s[i] : i \in 1 .. n} \cup {f}
  <2>1. s \in [1 .. n -> S]
    BY DEF GoodStack, IsStack
  <2>2. s \in Seq(S) /\ f \in S
    BY <1>1, <2>1, SeqDef
  <2>3. QED
    BY <2>2
<1>3. /\ t \in Seq(S) /\ Len(t) = n + 1
      /\ t[n + 1] = f /\ \A i \in 1 .. n : t[i] = s[i]
  BY <1>2, AppendProperties
<1>4. IsStack(t) /\ Len(t) = n + 1
  <2>1. t = [i \in 1 .. n + 1 |-> t[i]] /\ n + 1 \in Nat
    <3> HIDE DEF t
    <3> QED
      BY <1>1, <1>3
  <2>2. QED
    <3> HIDE DEF t, n
    <3> QED
      BY <2>1, FunctionIsStack
<1>5. \A i \in 1 .. n : MessagesTo(t, i) = MessagesTo(s, i)
  <2> HIDE DEF t
  <2> QED
    BY <1>1, <1>3, CountAgrees
<1>6. ASSUME NEW i \in 1 .. n
      PROVE  /\ WellFormed(t[i])
             /\ IF i = 1 THEN IsRoot(t[i]) ELSE CallOf(t[i - 1], t[i])
             /\ Accounted(t, i)
  <2>1. /\ WellFormed(s[i])
        /\ IF i = 1 THEN IsRoot(s[i]) ELSE CallOf(s[i - 1], s[i])
        /\ Accounted(s, i)
    BY DEF GoodStack
  <2>2. t[i] = s[i] /\ (i # 1 => t[i - 1] = s[i - 1])
    BY <1>1, <1>3
  <2>3. QED
    BY <2>1, <2>2, <1>5 DEF Accounted
<1>7. IF n + 1 = 1 THEN IsRoot(t[n + 1]) ELSE CallOf(t[n + 1 - 1], t[n + 1])
  <2>1. n # 0 => t[n + 1 - 1] = s[n]
    BY <1>1, <1>3
  <2>2. QED
    BY <1>1, <1>3, <2>1
<1>8. Accounted(t, n + 1)
  <2>1. CASE n = 0
    <3>1. Cardinality(MessagesTo(t, 1)) = 0 /\ IsRoot(f) /\ t[1] = f
      BY <1>1, <1>3, <2>1, CountFirst
    <3>2. RecursionLimit \in Nat
      BY DecoderAssumption
    <3>3. QED
      BY <2>1, <3>1, <3>2 DEF Accounted, IsRoot
  <2>2. CASE n # 0
    <3> DEFINE before == Cardinality(MessagesTo(t, n))
               all == Cardinality(MessagesTo(t, n + 1))
    <3>1. all = before + (IF f.at = "message" THEN 1 ELSE 0)
      <4>1. \A i \in Nat \ {0} :
              Cardinality(MessagesTo(t, i + 1)) =
                Cardinality(MessagesTo(t, i)) + (IF t[i + 1].at = "message" THEN 1 ELSE 0)
        BY CountNext
      <4>2. n \in Nat \ {0}
        BY <1>1, <2>2
      <4>3. QED
        <5> HIDE DEF t, n
        <5> QED
          BY <1>3, <4>1, <4>2
    <3>2. CallOf(s[n], f)
      BY <1>1, <2>2
    <3>3. Accounted(s, n) /\ WellFormed(s[n]) /\ n \in 1 .. n
      BY <1>1, <2>2 DEF GoodStack
    <3>4. s[n].depth + before = RecursionLimit /\ s[n].depth \in Nat
      BY <1>5, <3>2, <3>3 DEF Accounted, CallOf, HasCanon, Loops, WellFormed
    <3>5. before \in Int
      <4>1. IsFiniteSet(2 .. n) /\ MessagesTo(t, n) \subseteq 2 .. n
        BY FS_Interval, <1>1 DEF MessagesTo
      <4>2. QED
        BY <4>1, FS_Subset, FS_CardinalityType
    <3>6. f.at # "skip" => s[n].depth = f.depth + (IF f.at = "message" THEN 1 ELSE 0)
      BY <3>2 DEF CallOf, WellFormed
    <3>7. f.at # "skip" => f.depth \in Nat
      BY DEF WellFormed
    <3>8. f.at # "skip" => f.depth + all = RecursionLimit
      <4> HIDE DEF before, all
      <4> QED
        BY <3>1, <3>4, <3>5, <3>6, <3>7
    <3>9. QED
      BY <1>3, <3>8 DEF Accounted
  <2>3. QED
    BY <2>1, <2>2
<1>9. GoodStack(t)
  <2>1. ASSUME NEW i \in 1 .. Len(t)
        PROVE  /\ WellFormed(t[i])
               /\ IF i = 1 THEN IsRoot(t[i]) ELSE CallOf(t[i - 1], t[i])
               /\ Accounted(t, i)
    <3>1. i \in 1 .. n \/ i = n + 1
      BY <1>1, <1>4
    <3>2. QED
      BY <1>3, <1>6, <1>7, <1>8, <3>1
  <2> HIDE DEF t
  <2> QED
    BY <1>4, <2>1 DEF GoodStack
<1>10. t # <<>>
  <2> HIDE DEF t
  <2> QED
    BY <1>1, <1>4
<1>11. QED
  BY <1>3, <1>4, <1>9, <1>10

(* ... with the frame on top changed, as long as it is the same call.      *)
SameCall(f, g) ==
  /\ g.at = f.at /\ HasCanon(f)
  /\ g.depth = f.depth /\ g.min = f.min
  /\ f.at \in {"packed", "unpacked"} => g.usual = f.usual

(* The frame on top may be replaced by one of the same call.               *)
LEMMA ReplaceKeeps ==
  ASSUME NEW s, GoodStack(s), s # <<>>, NEW f, WellFormed(f), SameCall(s[Len(s)], f)
  PROVE  LET t == Append(SubSeq(s, 1, Len(s) - 1), f)
         IN /\ GoodStack(t) /\ t # <<>> /\ Len(t) = Len(s) /\ t[Len(t)] = f
<1> DEFINE below == SubSeq(s, 1, Len(s) - 1)
<1>1. /\ GoodStack(below) /\ Len(s) \in Nat \ {0} /\ Len(below) = Len(s) - 1
      /\ below = [i \in 1 .. Len(below) |-> s[i]]
  BY PopKeeps
<1>2. Len(s) \in 1 .. Len(s)
  BY <1>1
<1>3. IF Len(s) = 1 THEN IsRoot(s[Len(s)]) ELSE CallOf(s[Len(s) - 1], s[Len(s)])
  BY <1>2 DEF GoodStack
<1>4. IF Len(s) = 1 THEN IsRoot(f) ELSE CallOf(s[Len(s) - 1], f)
  BY <1>3 DEF SameCall, IsRoot, CallOf, HasCanon, Loops
<1>5. IF below = <<>> THEN IsRoot(f) ELSE CallOf(below[Len(below)], f)
  <2>1. below = <<>> <=> Len(s) = 1
    BY <1>1, EmptySeq, SMTT(30) DEF GoodStack, IsStack
  <2>2. Len(s) # 1 => below[Len(below)] = s[Len(s) - 1]
    <3> HIDE DEF below
    <3> QED
      BY <1>1
  <2>3. QED
    BY <1>4, <2>1, <2>2
<1>6. QED
  <2> HIDE DEF below
  <2>1. GoodStack(Append(below, f)) /\ Append(below, f) # <<>>
        /\ Len(Append(below, f)) = Len(below) + 1 /\ Append(below, f)[Len(below) + 1] = f
    BY <1>1, <1>5, PushKeeps
  <2>2. Len(below) + 1 = Len(s)
    BY <1>1
  <2>3. QED
    BY <2>1, <2>2 DEF below

(* Replacing the top, as a function.                                       *)
LEMMA ReplaceFunction ==
  ASSUME NEW s, GoodStack(s), s # <<>>, NEW f
  PROVE  Append(SubSeq(s, 1, Len(s) - 1), f) =
           [i \in 1 .. Len(s) |-> IF i = Len(s) THEN f ELSE s[i]]
<1> DEFINE below == SubSeq(s, 1, Len(s) - 1)
<1>1. /\ GoodStack(below) /\ Len(s) \in Nat \ {0} /\ Len(below) = Len(s) - 1
      /\ below = [i \in 1 .. Len(below) |-> s[i]]
  BY PopKeeps
<1> HIDE DEF below
<1>2. PICK S : below \in Seq(S) /\ f \in S
  <2> DEFINE S == {below[i] : i \in 1 .. Len(below)} \cup {f}
  <2>1. below \in [1 .. Len(below) -> S] /\ Len(below) \in Nat
    BY <1>1 DEF GoodStack, IsStack
  <2>2. below \in Seq(S) /\ f \in S
    BY <2>1, SeqDef
  <2>3. QED
    BY <2>2
<1>3. /\ Append(below, f) \in Seq(S) /\ Len(Append(below, f)) = Len(s)
      /\ Append(below, f)[Len(s)] = f
      /\ \A i \in 1 .. Len(s) - 1 : Append(below, f)[i] = below[i]
  BY <1>1, <1>2, AppendProperties
<1>4. \A i \in 1 .. Len(s) - 1 : below[i] = s[i]
  BY <1>1
<1> DEFINE t == Append(below, f)
<1>5. t = [i \in 1 .. Len(s) |-> IF i = Len(s) THEN f ELSE s[i]]
  <2> HIDE DEF t
  <2>1. t = [i \in 1 .. Len(s) |-> t[i]]
    <3>1. t \in Seq(S) /\ Len(t) = Len(s)
      BY <1>3 DEF t
    <3>2. QED
      BY <3>1
  <2>2. \A i \in 1 .. Len(s) : t[i] = IF i = Len(s) THEN f ELSE s[i]
    BY <1>1, <1>3, <1>4 DEF t
  <2>3. QED
    BY <2>1, <2>2
<1>6. QED
  BY <1>5 DEF below

(* Frames concatenated are frames pushed one by one.                       *)
LEMMA ConcatIsPush ==
  ASSUME NEW s, IsStack(s), NEW f, NEW g, NEW h
  PROVE  /\ s \o <<f, g>> = Append(Append(s, f), g)
         /\ s \o <<f, g, h>> = Append(Append(Append(s, f), g), h)
<1>1. PICK S : s \in Seq(S) /\ f \in S /\ g \in S /\ h \in S
  <2> DEFINE S == {s[i] : i \in 1 .. Len(s)} \cup {f, g, h}
  <2>1. s \in [1 .. Len(s) -> S] /\ Len(s) \in Nat
    BY DEF IsStack
  <2>2. s \in Seq(S) /\ f \in S /\ g \in S /\ h \in S
    BY <2>1, SeqDef
  <2>3. QED
    BY <2>2
<1>2. QED
  BY <1>1

-----------------------------------------------------------------------------
(* What the top of a good stack is and what it was called by.              *)
LEMMA Shape ==
  ASSUME IInv
  PROVE  /\ WellFormed(Top) /\ GoodStack(Below)
         /\ Below = <<>> => IsRoot(Top)
         /\ Below # <<>> => CallOf(Below[Len(Below)], Top)
                            /\ WellFormed(Below[Len(Below)])
<1>1. /\ GoodStack(Below) /\ Len(stack) \in Nat \ {0} /\ Len(Below) = Len(stack) - 1
      /\ Below = [i \in 1 .. Len(Below) |-> stack[i]]
  BY PopKeeps DEF IInv, Below
<1>2. Len(stack) \in 1 .. Len(stack)
  BY <1>1
<1>3. /\ WellFormed(Top)
      /\ IF Len(stack) = 1 THEN IsRoot(Top) ELSE CallOf(stack[Len(stack) - 1], Top)
  BY <1>2 DEF IInv, GoodStack, Top
<1>4. Below = <<>> <=> Len(stack) = 1
  BY <1>1, EmptySeq DEF GoodStack, IsStack
<1>5. ASSUME Len(stack) # 1
      PROVE  /\ Below[Len(Below)] = stack[Len(stack) - 1]
             /\ WellFormed(stack[Len(stack) - 1])
  <2>1. Len(stack) - 1 \in 1 .. Len(stack) /\ Len(stack) - 1 \in 1 .. Len(Below)
    BY <1>1, <1>5
  <2>2. WellFormed(stack[Len(stack) - 1])
    BY <2>1 DEF IInv, GoodStack
  <2>3. Below[Len(Below)] = stack[Len(stack) - 1]
    BY <1>1, <2>1
  <2>4. QED
    BY <2>2, <2>3
<1>6. QED
  BY <1>1, <1>3, <1>4, <1>5

(* A call that returns no less than its caller's minimum keeps it good.    *)
LEMMA ReturnsKeeps ==
  ASSUME IInv, Below # <<>>, NEW value, NEW canon \in NotCanonical .. Canonical,
         canon >= Below[Len(Below)].min, Returns(value, canon)
  PROVE  IInv'
<1> DEFINE m == Len(Below)
           caller == Below[m]
           g == stack'[m]
<1>1. /\ GoodStack(Below) /\ HasCanon(caller) /\ WellFormed(caller)
  BY Shape DEF CallOf
<1>2. m \in Nat \ {0} /\ Below = [i \in 1 .. m |-> Below[i]]
  BY <1>1, EmptySeq DEF GoodStack, IsStack
<1>3. PICK kept : stack' = [Below EXCEPT ![m].value = kept,
                                         ![m].canon = Lower(caller.canon, canon)]
  BY DEF Returns
<1> DEFINE f == [[caller EXCEPT !.value = kept]
                         EXCEPT !.canon = Lower(caller.canon, canon)]
<1>4. stack' = [i \in 1 .. m |-> IF i = m THEN f ELSE Below[i]]
  <2> HIDE DEF m
  <2> QED
    BY <1>2, <1>3
<1>5. /\ f.at = caller.at /\ f.depth = caller.depth /\ f.min = caller.min
      /\ caller.at \in {"packed", "unpacked"} => f.usual = caller.usual
      /\ DOMAIN f = DOMAIN caller /\ f.canon = Lower(caller.canon, canon)
  <2> HIDE DEF m, caller
  <2> QED
    BY <1>1 DEF WellFormed, HasCanon, Loops
<1>6. /\ Lower(caller.canon, canon) \in NotCanonical .. Canonical
      /\ Lower(caller.canon, canon) >= caller.min
  <2> HIDE DEF m, caller
  <2>1. caller.canon \in NotCanonical .. Canonical /\ caller.canon >= caller.min
    BY <1>1 DEF WellFormed
  <2>2. canon >= caller.min
    BY DEF m, caller
  <2>3. QED
    BY <2>1, <2>2 DEF Lower
<1> HIDE DEF f
<1>7. WellFormed(f) /\ SameCall(caller, f)
  <2> HIDE DEF m, caller
  <2> QED
    BY <1>1, <1>5, <1>6 DEF WellFormed, SameCall, HasCanon, Loops
<1>8. stack' = Append(SubSeq(Below, 1, m - 1), f)
  BY <1>1, <1>4, ReplaceFunction
<1>9. GoodStack(stack') /\ stack' # <<>>
  BY <1>1, <1>7, <1>8, ReplaceKeeps
<1>10. QED
  BY <1>9 DEF IInv, GoodStack, IsStack, Accounted, MessagesTo

(* The ways steps change the stack: dropping the top, calling from the top,*)
(* and going on with the caller.                                           *)
LEMMA PrimedInvariant ==
  ASSUME GoodStack(stack'), stack' # <<>>
  PROVE  IInv'
BY DEF IInv, GoodStack, IsStack, Accounted, MessagesTo

(* A step that leaves the stack alone.                                     *)
LEMMA StayKeeps ==
  ASSUME IInv, UNCHANGED stack
  PROVE  IInv'
BY DEF IInv, GoodStack, IsStack, Accounted, MessagesTo

(* The call on top returns and its caller goes on as it was.               *)
LEMMA DropKeeps ==
  ASSUME IInv, Below # <<>>, stack' = Below
  PROVE  IInv'
BY Shape, PrimedInvariant

(* The call on top makes another call.                                     *)
LEMMA CallFromTopKeeps ==
  ASSUME IInv, NEW f, WellFormed(f), CallOf(Top, f), stack' = Append(stack, f)
  PROVE  IInv'
BY PushKeeps, PrimedInvariant DEF IInv, Top

(* The call on top returns, and its caller makes the next call at once, as *)
(* the loop over the items of a collection does.                           *)
LEMMA CallFromBelowKeeps ==
  ASSUME IInv, Below # <<>>, NEW f, WellFormed(f), CallOf(Below[Len(Below)], f),
         stack' = Append(Below, f)
  PROVE  IInv'
<1>1. GoodStack(Below)
  BY Shape
<1>2. QED
  BY <1>1, PushKeeps, PrimedInvariant

(* The top goes on after the calls.                                        *)
LEMMA CallKeeps ==
  ASSUME IInv, NEW a, WellFormed(a), SameCall(Top, a),
         NEW f, WellFormed(f), CallOf(a, f)
  PROVE  /\ stack' = Below \o <<a, f>> => IInv'
         /\ \A g : /\ WellFormed(g) /\ CallOf(f, g)
                   /\ stack' = Below \o <<a, f, g>>
                   => IInv'
<1> DEFINE s == Append(Below, a)
           t == Append(s, f)
<1>1. GoodStack(s) /\ s # <<>> /\ s[Len(s)] = a
  BY ReplaceKeeps DEF IInv, Top, Below
<1>2. GoodStack(t) /\ t # <<>> /\ t[Len(t)] = f
  <2> HIDE DEF s
  <2> QED
    BY <1>1, PushKeeps
<1>3. IsStack(Below)
  BY Shape DEF GoodStack
<1>4. ASSUME stack' = Below \o <<a, f>>
      PROVE  IInv'
  <2>1. stack' = t
    BY <1>3, <1>4, ConcatIsPush
  <2>2. QED
    <3> HIDE DEF t
    <3> QED
      BY <1>2, <2>1, PrimedInvariant
<1>5. ASSUME NEW g, WellFormed(g), CallOf(f, g), stack' = Below \o <<a, f, g>>
      PROVE  IInv'
  <2>1. GoodStack(Append(t, g)) /\ Append(t, g) # <<>>
    <3> HIDE DEF t
    <3> QED
      BY <1>2, <1>5, PushKeeps
  <2>2. stack' = Append(t, g)
    BY <1>3, <1>5, ConcatIsPush
  <2>3. QED
    <3> HIDE DEF t
    <3> QED
      BY <2>1, <2>2, PrimedInvariant
<1>6. QED
  BY <1>4, <1>5

(* A message that has read a key is the same call.                         *)
LEMMA AfterKeyShape ==
  ASSUME IInv, AtMessage
  PROVE  /\ WellFormed(AfterKey) /\ SameCall(Top, AfterKey)
         /\ AfterKey.at \in Loops /\ AfterKey.min = Top.min
         /\ AfterKey.depth = Top.depth /\ AfterKey.canon = Top.canon
         /\ DOMAIN AfterKey = DOMAIN Top
<1>1. WellFormed(Top) /\ Top.at \in Loops
  BY Shape DEF AtMessage, HasCanon, Loops
<1> DEFINE k == Key.tag
<1>2. AfterKey = [[Top EXCEPT !.tag = k] EXCEPT !.last = k]
  BY DEF AfterKey
<1> HIDE DEF k
<1>3. /\ DOMAIN AfterKey = DOMAIN Top /\ AfterKey.at = Top.at
      /\ AfterKey.min = Top.min /\ AfterKey.depth = Top.depth
      /\ AfterKey.canon = Top.canon
  BY <1>1, <1>2 DEF WellFormed, HasCanon, Loops
<1>4. QED
  BY <1>1, <1>3 DEF WellFormed, SameCall, HasCanon, Loops

(* The order of canonicities.                                              *)
LEMMA CanonicityOrder ==
  /\ {NotCanonical, HasExtensions, Canonical} \subseteq NotCanonical .. Canonical
  /\ Relaxed \in Relaxed .. Canonical /\ Canonical >= Relaxed
  /\ \A min \in Relaxed .. Canonical :
       /\ min \in Int /\ Canonical >= min
       /\ NotCanonical >= min => min <= NotCanonical
  /\ \A canon \in NotCanonical .. Canonical :
       canon \in Int /\ canon >= NotCanonical /\ canon >= Relaxed
BY DEF Relaxed, NotCanonical, HasExtensions, Canonical

(* A canonicity that passes the check is not below the minimum.            *)
LEMMA Checked ==
  ASSUME NEW min \in Relaxed .. Canonical, NEW canon \in NotCanonical .. Canonical,
         CheckError(canon, min) = "none"
  PROVE  canon >= min
BY DEF CheckError

(* A field the message does not know lowers its canonicity only as far as  *)
(* the minimum allows, and is skipped.                                     *)
LEMMA UnknownFieldKeeps ==
  ASSUME IInv, UnknownField
  PROVE  IInv'
<1>1. CASE CheckError(HasExtensions, Top.min) # "none"
  BY <1>1, StayKeeps DEF UnknownField, Fail
<1>2. CASE CheckError(HasExtensions, Top.min) = "none"
  <2> DEFINE a == [AfterKey EXCEPT !.canon = Lower(@, HasExtensions)]
             f == SkipFrame(Key.wire, Top.extra)
  <2>1. AtMessage /\ stack' = Below \o <<a, f>>
    BY <1>2 DEF UnknownField, GoodKey
  <2>2. /\ WellFormed(AfterKey) /\ AfterKey.at \in Loops
        /\ SameCall(Top, AfterKey) /\ AfterKey.min = Top.min
        /\ AfterKey.depth = Top.depth
    BY <2>1, AfterKeyShape
  <2>3. AfterKey.canon \in NotCanonical .. Canonical /\ AfterKey.canon >= Top.min
    BY <2>2 DEF WellFormed, HasCanon, Loops
  <2>4. /\ DOMAIN a = DOMAIN AfterKey /\ a.at = AfterKey.at /\ a.min = AfterKey.min
        /\ a.depth = AfterKey.depth /\ a.canon = Lower(AfterKey.canon, HasExtensions)
    <3> HIDE DEF f
    <3> QED
      BY <2>2 DEF WellFormed, HasCanon, Loops
  <2>5. /\ Lower(AfterKey.canon, HasExtensions) \in NotCanonical .. Canonical
        /\ Lower(AfterKey.canon, HasExtensions) >= Top.min
    <3>1. Top.min \in Relaxed .. Canonical
      BY <2>2 DEF WellFormed, Loops
    <3>2. HasExtensions >= Top.min
      <4>1. HasExtensions \in NotCanonical .. Canonical
        BY DEF HasExtensions, NotCanonical, Canonical
      <4>2. QED
        BY <1>2, <3>1, <4>1, Checked
    <3>3. QED
      BY <2>3, <3>2 DEF Lower, HasExtensions, NotCanonical, Canonical
  <2> HIDE DEF a
  <2>6. WellFormed(a) /\ SameCall(Top, a)
    BY <2>2, <2>4, <2>5 DEF WellFormed, SameCall, HasCanon, Loops
  <2>7. WellFormed(f) /\ CallOf(a, f)
    BY <2>2, <2>4 DEF SkipFrame, WellFormed, CallOf, HasCanon, Loops
  <2> HIDE DEF f
  <2>8. QED
    BY <2>1, <2>6, <2>7, CallKeeps
<1>3. QED
  BY <1>1, <1>2

(* A field of one value: the message calls the decoder of a value.         *)
LEMMA SingleFieldKeeps ==
  ASSUME IInv, SingleField
  PROVE  IInv'
<1>1. CASE Key.wire # WireTypeOf(Field.item)
  BY <1>1, StayKeeps DEF SingleField, Fail
<1>2. CASE Key.wire = WireTypeOf(Field.item)
  <2> DEFINE f == ValueFrame(Field.item, Field.card \in Explicit, Top.extra, Top.min,
                             Top.depth)
  <2>1. AtMessage /\ stack' = Below \o <<AfterKey, f>>
    BY <1>2 DEF SingleField, NewField, GoodKey
  <2>2. /\ WellFormed(AfterKey) /\ AfterKey.at \in Loops
        /\ SameCall(Top, AfterKey) /\ AfterKey.min = Top.min
        /\ AfterKey.depth = Top.depth
    BY <2>1, AfterKeyShape
  <2>3. f.at = "value" /\ f.min = Top.min /\ f.depth = Top.depth
        /\ {"at", "min", "depth"} \subseteq DOMAIN f
    BY DEF ValueFrame
  <2> HIDE DEF f
  <2>4. WellFormed(f) /\ CallOf(AfterKey, f)
    BY <2>2, <2>3 DEF WellFormed, CallOf, HasCanon, Loops
  <2>5. QED
    BY <2>1, <2>2, <2>4, CallKeeps
<1>3. QED
  BY <1>1, <1>2

(* The fields of a variant are decoded in the context of the message.      *)
LEMMA StructVariantKeeps ==
  ASSUME IInv, StructVariant
  PROVE  IInv'
<1>1. CASE UNCHANGED stack
  BY <1>1, StayKeeps
<1>2. CASE ~UNCHANGED stack
  <2> DEFINE region == LengthDelimitedAt(pos + Key.used, Top.extra)
             f == LoopFrame("struct", Field.item, region.extra, Top.min, Top.depth)
  <2>1. AtMessage /\ stack' = Below \o <<AfterKey, f>>
    BY <1>2 DEF StructVariant, NewField, GoodKey, Fail
  <2>2. /\ WellFormed(AfterKey) /\ AfterKey.at \in Loops
        /\ SameCall(Top, AfterKey) /\ AfterKey.min = Top.min
        /\ AfterKey.depth = Top.depth
    BY <2>1, AfterKeyShape
  <2>3. /\ f.at = "struct" /\ f.min = Top.min /\ f.depth = Top.depth
        /\ f.canon = Canonical
        /\ {"at", "min", "depth", "canon", "value"} \subseteq DOMAIN f
    BY DEF LoopFrame
  <2>4. /\ Top.min \in Relaxed .. Canonical /\ Top.depth \in Nat
        /\ Canonical \in NotCanonical .. Canonical /\ Canonical >= Top.min
    <3>1. Top.min \in Relaxed .. Canonical /\ Top.depth \in Nat
      BY <2>2 DEF WellFormed, HasCanon, Loops
    <3>2. QED
      BY <3>1, CanonicityOrder, Zenon
  <2> HIDE DEF f
  <2>5. WellFormed(f) /\ CallOf(AfterKey, f)
    BY <2>2, <2>3, <2>4 DEF WellFormed, CallOf, HasCanon, Loops
  <2>6. QED
    BY <2>1, <2>2, <2>5, CallKeeps
<1>3. QED
  BY <1>1, <1>2

(* The minimum a collection is decoded with.                               *)
LEMMA CollectionCalled ==
  ASSUME IInv, Collection, NEW repr \in {"packed", "unpacked"}, NEW item, NEW extra,
         Usual \/ CheckError(NotCanonical, Top.min) = "none"
  PROVE  LET f == CollectionFrame(repr, item, Usual, extra, CollectionMin, Top.depth)
         IN WellFormed(f) /\ CallOf(AfterKey, f) /\ f.at = repr
            /\ f.min = CollectionMin /\ f.depth = Top.depth
<1> DEFINE f == CollectionFrame(repr, item, Usual, extra, CollectionMin, Top.depth)
<1>1. /\ WellFormed(AfterKey) /\ AfterKey.at \in Loops
      /\ AfterKey.min = Top.min /\ AfterKey.depth = Top.depth
  BY AfterKeyShape DEF Collection, NewField, GoodKey
<1>2. Top.min \in Relaxed .. Canonical /\ Top.depth \in Nat
  BY <1>1 DEF WellFormed, Loops
<1>3. Usual \in BOOLEAN
  BY DEF Usual
<1>4. /\ Usual => CollectionMin = Top.min
      /\ ~Usual => CollectionMin = Relaxed
      /\ CollectionMin \in Relaxed .. Canonical
  BY <1>2, CanonicityOrder, Zenon DEF CollectionMin
<1>5. ~Usual => Top.min <= NotCanonical
  <2>1. NotCanonical \in NotCanonical .. Canonical
    BY CanonicityOrder, Zenon
  <2>2. CheckError(NotCanonical, Top.min) = "none" => NotCanonical >= Top.min
    BY <1>2, <2>1, Checked
  <2>3. QED
    BY <1>2, <2>2, CanonicityOrder, Zenon
<1>6. /\ f.at = repr /\ f.usual = Usual /\ f.min = CollectionMin
      /\ f.depth = Top.depth /\ f.canon = Canonical
      /\ {"at", "usual", "min", "depth", "canon", "value"} \subseteq DOMAIN f
  BY DEF CollectionFrame
<1> HIDE DEF f
<1>7. WellFormed(f)
  <2>1. Canonical \in NotCanonical .. Canonical /\ Canonical >= CollectionMin
    BY <1>4, CanonicityOrder, Zenon
  <2>2. QED
    BY <1>2, <1>3, <1>4, <1>6, <2>1 DEF WellFormed, HasCanon, Loops
<1>8. CallOf(AfterKey, f)
  BY <1>1, <1>4, <1>5, <1>6 DEF CallOf, HasCanon, Loops
<1>9. QED
  BY <1>6, <1>7, <1>8 DEF f

(* A length-delimited field whose type is a collection: the loop over the  *)
(* packed items is entered.                                                *)
LEMMA PackedCollectionKeeps ==
  ASSUME IInv, PackedCollection
  PROVE  IInv'
<1>1. CASE UNCHANGED stack
  BY <1>1, StayKeeps
<1>2. CASE ~UNCHANGED stack
  <2> DEFINE region == LengthDelimitedAt(pos + Key.used, Top.extra)
             f == CollectionFrame("packed", Field.item, Usual, region.extra,
                                  CollectionMin, Top.depth)
  <2>1. /\ Collection /\ stack' = Below \o <<AfterKey, f>>
        /\ Usual \/ CheckError(NotCanonical, Top.min) = "none"
    BY <1>2 DEF PackedCollection, Fail
  <2>2. WellFormed(f) /\ CallOf(AfterKey, f)
    BY <2>1, CollectionCalled
  <2>3. WellFormed(AfterKey) /\ SameCall(Top, AfterKey)
    BY <2>1, AfterKeyShape DEF Collection, NewField, GoodKey
  <2> HIDE DEF f
  <2>4. QED
    BY <2>1, <2>2, <2>3, CallKeeps
<1>3. QED
  BY <1>1, <1>2

(* A collection with a key per item: the first item is decoded, then the   *)
(* loop over repeated keys is entered.                                     *)
LEMMA UnpackedCollectionKeeps ==
  ASSUME IInv, UnpackedCollection
  PROVE  IInv'
<1>1. CASE UNCHANGED stack
  BY <1>1, StayKeeps
<1>2. CASE ~UNCHANGED stack
  <2> DEFINE f == CollectionFrame("unpacked", Field.item, Usual, Top.extra,
                                  CollectionMin, Top.depth)
             g == ValueFrame(Field.item, TRUE, Top.extra, CollectionMin, Top.depth)
  <2>1. /\ Collection /\ stack' = Below \o <<AfterKey, f, g>>
        /\ Usual \/ CheckError(NotCanonical, Top.min) = "none"
    BY <1>2 DEF UnpackedCollection, Fail
  <2>2. /\ WellFormed(f) /\ CallOf(AfterKey, f) /\ f.at = "unpacked"
        /\ f.min = CollectionMin /\ f.depth = Top.depth
    BY <2>1, CollectionCalled
  <2>3. WellFormed(AfterKey) /\ SameCall(Top, AfterKey)
    BY <2>1, AfterKeyShape DEF Collection, NewField, GoodKey
  <2>4. g.at = "value" /\ g.min = CollectionMin /\ g.depth = Top.depth
        /\ {"at", "min", "depth"} \subseteq DOMAIN g
    BY DEF ValueFrame
  <2> HIDE DEF f, g
  <2>5. WellFormed(g) /\ CallOf(f, g)
    BY <2>2, <2>4 DEF WellFormed, CallOf, HasCanon, Loops
  <2>6. QED
    BY <2>1, <2>2, <2>3, <2>5, CallKeeps
<1>3. QED
  BY <1>1, <1>2

(* A message that ends hands its value and its canonicity to its caller.   *)
LEMMA MessageEndKeeps ==
  ASSUME IInv, MessageEnd
  PROVE  IInv'
<1>1. CASE Below = <<>>
  BY <1>1, StayKeeps DEF MessageEnd
<1>2. CASE Below # <<>>
  <2>1. Returns(Top.value, Top.canon) /\ AtMessage
    BY <1>2 DEF MessageEnd
  <2>2. WellFormed(Top) /\ CallOf(Below[Len(Below)], Top)
        /\ Top.at \in {"message", "struct"}
    BY <1>2, <2>1, Shape DEF AtMessage, Loops
  <2>3. /\ Top.canon \in NotCanonical .. Canonical
        /\ Top.canon >= Below[Len(Below)].min
    BY <2>2 DEF WellFormed, CallOf, HasCanon, Loops
  <2>4. QED
    BY <1>2, <2>1, <2>3, ReturnsKeeps
<1>3. QED
  BY <1>1, <1>2

(* Every frame but a message's has a caller.                               *)
LEMMA HasCaller ==
  ASSUME IInv, Top.at # "message"
  PROVE  Below # <<>> /\ CallOf(Below[Len(Below)], Top) /\ WellFormed(Top)
         /\ WellFormed(Below[Len(Below)])
BY Shape DEF IsRoot

(* A scalar that was read is handed to the caller, which lowers its own    *)
(* canonicity if the value was empty and must not be.                      *)
LEMMA ReturnsScalarKeeps ==
  ASSUME IInv, Top.at = "value", NEW value, NEW empty, NEW next,
         ReturnsScalar(value, empty, next)
  PROVE  IInv'
<1> DEFINE canon == IF empty /\ ~Top.allowEmpty THEN NotCanonical ELSE Canonical
           kept == IF empty /\ ~Top.allowEmpty THEN <<>> ELSE value
           caller == Below[Len(Below)]
<1>1. /\ Below # <<>> /\ Top.min = caller.min
      /\ Top.min \in Relaxed .. Canonical
  BY HasCaller DEF CallOf, WellFormed
<1>2. canon \in NotCanonical .. Canonical
  BY CanonicityOrder, Zenon
<1>3. CASE CheckError(canon, Top.min) # "none"
  BY <1>3, StayKeeps DEF ReturnsScalar, Fail
<1>4. CASE CheckError(canon, Top.min) = "none"
  <2>1. Returns(kept, canon)
    BY <1>4 DEF ReturnsScalar
  <2> HIDE DEF canon, kept
  <2>2. canon >= caller.min
    BY <1>1, <1>2, <1>4, Checked
  <2>3. QED
    BY <1>1, <1>2, <2>1, <2>2, ReturnsKeeps
<1>5. QED
  BY <1>3, <1>4

(* Decoding a varint or a fixed-width value.                               *)
LEMMA ScalarsKeep ==
  ASSUME IInv, VarintValue \/ FixedValue
  PROVE  IInv'
<1>1. CASE UNCHANGED stack
  BY <1>1, StayKeeps
<1>2. CASE ~UNCHANGED stack /\ VarintValue
  <2>1. Top.at = "value" /\ \E value, empty, next : ReturnsScalar(value, empty, next)
    BY <1>2 DEF VarintValue, AtValue, Fail
  <2>2. QED
    BY <2>1, ReturnsScalarKeeps
<1>3. CASE ~UNCHANGED stack /\ FixedValue
  <2>1. Top.at = "value" /\ \E value, empty, next : ReturnsScalar(value, empty, next)
    BY <1>3 DEF FixedValue, AtValue, Fail
  <2>2. QED
    BY <2>1, ReturnsScalarKeeps
<1>4. QED
  BY <1>1, <1>2, <1>3

(* A nested message is entered: one level of recursion is taken.           *)
LEMMA MessageValueKeeps ==
  ASSUME IInv, MessageValue
  PROVE  IInv'
<1> DEFINE region == LengthDelimitedAt(pos, Top.extra)
           f == MessageFrame(Top.item, region.extra, Top.min, Top.depth - 1)
           caller == Below[Len(Below)]
<1>1. Top.at = "value"
  BY DEF MessageValue, AtValue
<1>2. /\ Below # <<>> /\ HasCanon(caller)
      /\ Top.min = caller.min /\ Top.depth = caller.depth
      /\ Top.min \in Relaxed .. Canonical /\ Top.depth \in Nat
  BY <1>1, HasCaller DEF CallOf, WellFormed
<1>3. CASE UNCHANGED stack
  BY <1>3, StayKeeps
<1>4. CASE Returns(<<>>, NotCanonical) /\ CheckError(NotCanonical, Top.min) = "none"
  <2>1. NotCanonical \in NotCanonical .. Canonical
    BY CanonicityOrder, Zenon
  <2>2. NotCanonical >= caller.min
    BY <1>2, <1>4, <2>1, Checked
  <2>3. QED
    BY <1>2, <1>4, <2>1, <2>2, ReturnsKeeps
<1>5. CASE Top.depth # 0 /\ stack' = Append(Below, f)
  <2>1. /\ f.at = "message" /\ f.min = Top.min /\ f.depth = Top.depth - 1
        /\ f.canon = Canonical
        /\ {"at", "min", "depth", "canon", "value"} \subseteq DOMAIN f
    BY DEF MessageFrame, LoopFrame
  <2>2. f.depth \in Nat /\ caller.depth = f.depth + 1
    <3> HIDE DEF f, caller
    <3> QED
      BY <1>2, <1>5, <2>1
  <2>3. Canonical \in NotCanonical .. Canonical /\ Canonical >= Top.min
    BY <1>2, CanonicityOrder, Zenon
  <2> HIDE DEF f
  <2>4. WellFormed(f)
    BY <1>2, <2>1, <2>2, <2>3 DEF WellFormed, HasCanon, Loops
  <2>5. CallOf(caller, f)
    BY <1>2, <2>1, <2>2 DEF CallOf
  <2>6. QED
    BY <1>2, <1>5, <2>4, <2>5, CallFromBelowKeeps
<1>6. QED
  BY <1>3, <1>4, <1>5 DEF MessageValue, Fail

(* A collection calls the decoder of its item with its own context.        *)
LEMMA CallItemKeeps ==
  ASSUME IInv, Top.at \in {"packed", "unpacked"}, CallItem
  PROVE  IInv'
<1> DEFINE f == ValueFrame(Top.item, TRUE, Top.extra, Top.min, Top.depth)
<1>1. WellFormed(Top)
  BY Shape
<1>2. Top.min \in Relaxed .. Canonical /\ Top.depth \in Nat
  BY <1>1 DEF WellFormed
<1>3. f.at = "value" /\ f.min = Top.min /\ f.depth = Top.depth
      /\ {"at", "min", "depth"} \subseteq DOMAIN f
  BY DEF ValueFrame
<1>4. stack' = Append(stack, f)
  BY DEF CallItem, Call
<1> HIDE DEF f
<1>5. WellFormed(f) /\ CallOf(Top, f)
  BY <1>2, <1>3 DEF WellFormed, CallOf, HasCanon, Loops
<1>6. QED
  BY <1>4, <1>5, CallFromTopKeeps

(* What a collection returns is good enough for its caller, also when it   *)
(* was decoded relaxed.                                                    *)
LEMMA ReturnsCollectionKeeps ==
  ASSUME IInv, Top.at \in {"packed", "unpacked"},
         NEW canon \in NotCanonical .. Canonical, canon >= Top.min,
         ReturnsCollection(canon)
  PROVE  IInv'
<1> DEFINE caller == Below[Len(Below)]
<1>1. /\ Below # <<>> /\ Top.usual \in BOOLEAN
      /\ Top.usual => Top.min = caller.min
      /\ ~Top.usual => caller.min <= NotCanonical
      /\ caller.min \in Relaxed .. Canonical
  BY HasCaller DEF CallOf, WellFormed, HasCanon, Loops
<1>2. CASE Top.usual
  BY <1>1, <1>2, ReturnsKeeps DEF ReturnsCollection
<1>3. CASE ~Top.usual
  <2>1. NotCanonical \in NotCanonical .. Canonical /\ NotCanonical >= caller.min
    BY <1>1, <1>3 DEF NotCanonical, Canonical, Relaxed
  <2>2. Returns(Top.value, NotCanonical)
    BY <1>3 DEF ReturnsCollection
  <2>3. QED
    BY <1>1, <2>1, <2>2, ReturnsKeeps
<1>4. QED
  BY <1>1, <1>2, <1>3

(* The turns of the two loops over the items of a collection, and their    *)
(* ends.                                                                   *)
LEMMA CollectionsKeep ==
  ASSUME IInv, PackedItem \/ PackedEnd \/ UnpackedItem \/ UnpackedEnd
  PROVE  IInv'
<1>1. WellFormed(Top)
  BY Shape
<1>2. CASE PackedItem
  BY <1>2, CallItemKeeps DEF PackedItem
<1>3. CASE UnpackedItem
  BY <1>3, CallItemKeeps, StayKeeps DEF UnpackedItem, Fail
<1>4. CASE UnpackedEnd
  <2>1. /\ Top.at = "unpacked" /\ ReturnsCollection(Top.canon)
        /\ Top.canon \in NotCanonical .. Canonical /\ Top.canon >= Top.min
    BY <1>1, <1>4 DEF UnpackedEnd, WellFormed, HasCanon, Loops
  <2>2. QED
    BY <2>1, ReturnsCollectionKeeps
<1>5. CASE PackedEnd
  <2> DEFINE canon == IF Top.value = <<>> THEN NotCanonical ELSE Top.canon
  <2>1. /\ Top.at = "packed" /\ Top.min \in Relaxed .. Canonical
        /\ Top.canon \in NotCanonical .. Canonical
    BY <1>1, <1>5 DEF PackedEnd, WellFormed, HasCanon, Loops
  <2>2. canon \in NotCanonical .. Canonical
    BY <2>1, CanonicityOrder, Zenon
  <2>3. CASE CheckError(canon, Top.min) # "none"
    BY <1>5, <2>3, StayKeeps DEF PackedEnd, Fail
  <2>4. CASE CheckError(canon, Top.min) = "none"
    <3>1. ReturnsCollection(canon)
      BY <1>5, <2>4 DEF PackedEnd
    <3> HIDE DEF canon
    <3>2. canon >= Top.min
      BY <2>1, <2>2, <2>4, Checked
    <3>3. QED
      BY <2>1, <2>2, <3>1, <3>2, ReturnsCollectionKeeps
  <2>5. QED
    BY <2>3, <2>4
<1>6. QED
  BY <1>2, <1>3, <1>4, <1>5

(* Skipping a value returns to the message.                                *)
LEMMA SkipValueKeeps ==
  ASSUME IInv, SkipValue
  PROVE  IInv'
<1>1. /\ Top.at = "skip"
      /\ \/ UNCHANGED stack
         \/ stack' = Below
         \/ \E wire : stack' = Append(Below, SkipFrame(wire, Top.extra))
  BY DEF SkipValue, Fail
<1>2. Below # <<>> /\ HasCanon(Below[Len(Below)])
  BY <1>1, HasCaller DEF CallOf
<1>3. ASSUME NEW wire, stack' = Append(Below, SkipFrame(wire, Top.extra))
      PROVE  IInv'
  <2> DEFINE f == SkipFrame(wire, Top.extra)
  <2>1. f.at = "skip" /\ "at" \in DOMAIN f
    BY DEF SkipFrame
  <2> HIDE DEF f
  <2>2. WellFormed(f) /\ CallOf(Below[Len(Below)], f)
    BY <1>2, <2>1 DEF WellFormed, CallOf, HasCanon, Loops
  <2>3. stack' = Append(Below, f)
    BY <1>3 DEF f
  <2>4. QED
    BY <1>2, <2>2, <2>3, CallFromBelowKeeps
<1>4. QED
  BY <1>1, <1>2, <1>3, StayKeeps, DropKeeps

-----------------------------------------------------------------------------
(* Theorems.                                                               *)

(* The invariants hold where the message is entered.                       *)
LEMMA InitKeeps ==
  ASSUME Init
  PROVE  IInv
<1>1. PICK root \in Roots, min \in Restrictions :
        stack = <<MessageFrame(root, 0, min, RecursionLimit)>>
  BY DEF Init
<1> DEFINE f == MessageFrame(root, 0, min, RecursionLimit)
<1>2. min \in Relaxed .. Canonical /\ RecursionLimit \in Nat
  BY DecoderAssumption DEF Relaxed, NotCanonical, HasExtensions, Canonical
<1>3. /\ f.at = "message" /\ f.min = min /\ f.depth = RecursionLimit
      /\ f.canon = Canonical
      /\ {"at", "min", "depth", "canon", "value"} \subseteq DOMAIN f
  BY DEF MessageFrame, LoopFrame
<1> HIDE DEF f
<1>4. Canonical \in NotCanonical .. Canonical /\ Canonical >= min
  BY <1>2, CanonicityOrder, Zenon
<1>5. WellFormed(f) /\ IsRoot(f)
  BY <1>2, <1>3, <1>4 DEF WellFormed, HasCanon, Loops, IsRoot
<1>6. GoodStack(<<>>) /\ stack = Append(<<>>, f)
  <2>1. stack = Append(<<>>, f)
    BY <1>1 DEF f
  <2>2. GoodStack(<<>>)
    BY DEF GoodStack, IsStack
  <2>3. QED
    BY <2>1, <2>2
<1>7. GoodStack(Append(<<>>, f)) /\ Append(<<>>, f) # <<>>
  BY <1>5, <1>6, PushKeeps
<1>8. QED
  BY <1>6, <1>7 DEF IInv

(* Every step of the decoder keeps the invariant.                          *)
LEMMA NextKeeps ==
  ASSUME IInv, [Next]_vars
  PROVE  IInv'
<1>1. CASE UNCHANGED vars
  BY <1>1, StayKeeps DEF vars
<1>2. CASE Step
  <2>1. CASE OverCap
    BY <2>1, StayKeeps DEF OverCap, Fail
  <2>2. CASE BadKey
    BY <2>2, StayKeeps DEF BadKey, Fail
  <2>3. CASE RepeatedField
    BY <2>3, StayKeeps DEF RepeatedField, Fail
  <2>15. CASE ConflictingField
    BY <2>15, StayKeeps DEF ConflictingField, Fail
  <2>16. CASE StructVariant
    BY <2>16, StructVariantKeeps
  <2>4. CASE ForeignCollection
    BY <2>4, StayKeeps DEF ForeignCollection, Fail
  <2>5. CASE MessageEnd
    BY <2>5, MessageEndKeeps
  <2>6. CASE UnknownField
    BY <2>6, UnknownFieldKeeps
  <2>7. CASE SingleField
    BY <2>7, SingleFieldKeeps
  <2>8. CASE PackedCollection
    BY <2>8, PackedCollectionKeeps
  <2>9. CASE UnpackedCollection
    BY <2>9, UnpackedCollectionKeeps
  <2>10. CASE VarintValue \/ FixedValue
    BY <2>10, ScalarsKeep
  <2>11. CASE MessageValue
    BY <2>11, MessageValueKeeps
  <2>12. CASE PackedItem \/ PackedEnd \/ UnpackedItem \/ UnpackedEnd
    BY <2>12, CollectionsKeep
  <2>13. CASE SkipValue
    BY <2>13, SkipValueKeeps
  <2>14. QED
    BY <1>2, <2>1, <2>2, <2>3, <2>4, <2>5, <2>6, <2>7, <2>8, <2>9, <2>10, <2>11,
       <2>12, <2>13, <2>15, <2>16 DEF Step
<1>3. QED
  BY <1>1, <1>2 DEF Next, Returned

(* In every state of a decoder, whatever it decodes, each frame is a call  *)
(* that the frame below it makes, with a context derived from that one's.  *)
THEOREM DecoderInvariant == Spec => []IInv
<1>1. Init => IInv
  BY InitKeeps
<1>2. IInv /\ [Next]_vars => IInv'
  BY NextKeeps
<1>3. QED
  BY <1>1, <1>2, PTL DEF Spec

(* Restricted decoding never goes on, nor ends, with a canonicity below    *)
(* the minimum asked for, in any message it decodes.                       *)
THEOREM DecoderRespectsMinimum == Spec => []RespectsMinimum
<1>1. IInv => RespectsMinimum
  BY DEF IInv, GoodStack, WellFormed, RespectsMinimum
<1>2. QED
  BY <1>1, DecoderInvariant, PTL

(* The recursion left to a call is the limit less the messages it is in:   *)
(* no path through fields and collections forgets to count one.            *)
THEOREM DecoderDepthAccounted == Spec => []DepthAccounted
<1>1. IInv => DepthAccounted
  BY DEF IInv, GoodStack, Accounted, MessagesTo, DepthAccounted
<1>2. QED
  BY <1>1, DecoderInvariant, PTL

(* No more messages than the recursion limit are nested in the root, the   *)
(* fields of variants aside, which are decoded without counting.           *)
Nesting == Cardinality(MessagesTo(stack, Len(stack))) <= RecursionLimit

(* At no time are more messages nested in the one being decoded than the   *)
(* context's recursion limit (enter_recursion).                            *)
THEOREM DecoderNesting == Spec => []Nesting
<1>1. ASSUME IInv
      PROVE  Nesting
  <2> DEFINE n == Len(stack)
             count == Cardinality(MessagesTo(stack, n))
  <2>1. n \in Nat \ {0} /\ RecursionLimit \in Nat
    BY <1>1, EmptySeq, DecoderAssumption DEF IInv, GoodStack, IsStack
  <2>2. \A i \in 1 .. n : Cardinality(MessagesTo(stack, i)) \in Nat
    <3>1. \A i \in 1 .. n : MessagesTo(stack, i) \subseteq 2 .. i /\ IsFiniteSet(2 .. i)
      <4>1. ASSUME NEW i \in 1 .. n
            PROVE  MessagesTo(stack, i) \subseteq 2 .. i /\ IsFiniteSet(2 .. i)
        <5>1. i \in Int /\ 2 \in Int
          BY <2>1
        <5>2. IsFiniteSet(2 .. i)
          BY <5>1, FS_Interval
        <5>3. QED
          BY <5>2 DEF MessagesTo
      <4>2. QED
        BY <4>1
    <3>2. QED
      BY <3>1, FS_Subset, FS_CardinalityType
  <2>3. \A i \in 1 .. n :
          stack[i].at # "skip" => Cardinality(MessagesTo(stack, i)) <= RecursionLimit
    <3>1. ASSUME NEW i \in 1 .. n, stack[i].at # "skip"
          PROVE  Cardinality(MessagesTo(stack, i)) <= RecursionLimit
      <4> DEFINE c == Cardinality(MessagesTo(stack, i))
      <4>1. stack[i].depth \in Nat /\ stack[i].depth + c = RecursionLimit
        BY <1>1, <3>1 DEF IInv, GoodStack, WellFormed, Accounted
      <4>2. c \in Nat
        BY <2>2
      <4> HIDE DEF c
      <4>3. c <= RecursionLimit
        BY <2>1, <4>1, <4>2
      <4>4. QED
        BY <4>3 DEF c
    <3>2. QED
      BY <3>1
  <2>4. CASE Top.at # "skip"
    BY <2>1, <2>3, <2>4 DEF Top, Nesting
  <2>5. CASE Top.at = "skip"
    <3>1. n # 1 /\ HasCanon(stack[n - 1])
      BY <1>1, <2>1, <2>5 DEF IInv, GoodStack, IsRoot, CallOf, Top
    <3>2. n - 1 \in Nat \ {0} /\ n - 1 + 1 = n /\ n - 1 \in 1 .. n
      <4>1. n \in Nat \ {0} /\ n # 1
        BY <2>1, <3>1
      <4>2. QED
        <5> HIDE DEF n
        <5> QED
          BY <4>1
    <3>3. count = Cardinality(MessagesTo(stack, n - 1)) + 0
      BY <2>5, <3>2, CountNext DEF Top
    <3>4. Cardinality(MessagesTo(stack, n - 1)) <= RecursionLimit
      BY <2>3, <3>1, <3>2 DEF HasCanon, Loops
    <3>5. QED
      BY <2>2, <3>2, <3>3, <3>4 DEF Nesting
  <2>6. QED
    BY <2>4, <2>5
<1>2. QED
  BY <1>1, DecoderInvariant, PTL

-----------------------------------------------------------------------------
(* The buffer and the caps.  Reading stays in the buffer, which is what    *)
(* keeps its advance from panicking; a region's cap lies in the buffer and *)
(* is never behind the one of a call below.                                *)

Capped(s) ==
  /\ IsStack(s)
  /\ \A i \in 1 .. Len(s) :
       "extra" \in DOMAIN s[i] /\ s[i].extra \in 0 .. Len(input)
  /\ \A i, j \in 1 .. Len(s) : i <= j => s[i].extra <= s[j].extra

CapInv ==
  /\ input \in Seq(Byte)
  /\ StaysInBuffer
  /\ Capped(stack)

(* A cap that a call on top of such a stack may have.                      *)
CapOver(s, f) ==
  /\ "extra" \in DOMAIN f /\ f.extra \in 0 .. Len(input)
  /\ s # <<>> => s[Len(s)].extra <= f.extra

(* The caps are in order without the top, and the top's is above the rest. *)
LEMMA PopCapped ==
  ASSUME NEW s, Capped(s), s # <<>>
  PROVE  LET t == SubSeq(s, 1, Len(s) - 1)
         IN Capped(t) /\ CapOver(t, s[Len(s)])
<1> DEFINE n == Len(s)
           t == SubSeq(s, 1, n - 1)
<1>1. n \in Nat \ {0}
  BY EmptySeq DEF Capped, IsStack
<1>2. t = [i \in 1 .. n - 1 |-> s[i]]
  BY <1>1 DEF Capped, IsStack
<1>3. \A i \in 1 .. n - 1 : t[i] = s[i]
  BY <1>2
<1>4. IsStack(t) /\ Len(t) = n - 1
  <2>1. t = [i \in 1 .. n - 1 |-> t[i]] /\ n - 1 \in Nat
    BY <1>1, <1>2, <1>3
  <2>2. QED
    <3> HIDE DEF t, n
    <3> QED
      BY <2>1, FunctionIsStack
<1>5. /\ \A i \in 1 .. n : "extra" \in DOMAIN s[i] /\ s[i].extra \in 0 .. Len(input)
      /\ \A i, j \in 1 .. n : i <= j => s[i].extra <= s[j].extra
  BY DEF Capped
<1> HIDE DEF t, n
<1>6. Capped(t)
  <2>1. \A i \in 1 .. n - 1 : i \in 1 .. n /\ t[i] = s[i]
    BY <1>1, <1>3
  <2>2. \A i \in 1 .. n - 1 : "extra" \in DOMAIN t[i] /\ t[i].extra \in 0 .. Len(input)
    BY <1>5, <2>1
  <2>3. \A i, j \in 1 .. n - 1 : i <= j => t[i].extra <= t[j].extra
    BY <1>5, <2>1
  <2>4. QED
    BY <1>4, <2>2, <2>3 DEF Capped
<1>7. t # <<>> => n - 1 \in 1 .. n - 1 /\ t[Len(t)] = s[n - 1]
  BY <1>1, <1>3, <1>4, EmptySeq DEF IsStack
<1>8. n \in 1 .. n /\ n - 1 <= n
  BY <1>1
<1>9. CapOver(t, s[n])
  BY <1>1, <1>5, <1>7, <1>8 DEF CapOver
<1>10. QED
  BY <1>6, <1>9 DEF t, n

(* The caps are in order with one more call on top.                        *)
LEMMA PushCapped ==
  ASSUME NEW s, Capped(s), NEW f, CapOver(s, f)
  PROVE  /\ Capped(Append(s, f)) /\ Append(s, f) # <<>>
         /\ Append(s, f)[Len(Append(s, f))] = f
<1> DEFINE n == Len(s)
           t == Append(s, f)
<1>1. n \in Nat /\ (s = <<>> <=> n = 0)
  BY EmptySeq DEF Capped, IsStack
<1>2. PICK S : s \in Seq(S) /\ f \in S
  <2> DEFINE S == {s[i] : i \in 1 .. n} \cup {f}
  <2>1. s \in [1 .. n -> S]
    BY DEF Capped, IsStack
  <2>2. s \in Seq(S) /\ f \in S
    BY <1>1, <2>1, SeqDef
  <2>3. QED
    BY <2>2
<1>3. /\ t \in Seq(S) /\ Len(t) = n + 1
      /\ t[n + 1] = f /\ \A i \in 1 .. n : t[i] = s[i]
  BY <1>2, AppendProperties
<1>4. t = [i \in 1 .. n + 1 |-> t[i]] /\ n + 1 \in Nat
  <2> HIDE DEF t
  <2> QED
    BY <1>1, <1>3
<1>5. /\ \A i \in 1 .. n : "extra" \in DOMAIN s[i] /\ s[i].extra \in 0 .. Len(input)
      /\ \A i, j \in 1 .. n : i <= j => s[i].extra <= s[j].extra
  BY DEF Capped
<1>6. /\ "extra" \in DOMAIN f /\ f.extra \in 0 .. Len(input)
      /\ n # 0 => s[n].extra <= f.extra
  BY <1>1 DEF CapOver
<1> HIDE DEF t, n
<1>7. IsStack(t)
  BY <1>4, FunctionIsStack
<1>8. ASSUME NEW i \in 1 .. n + 1
      PROVE  "extra" \in DOMAIN t[i] /\ t[i].extra \in 0 .. Len(input)
  <2>1. i \in 1 .. n \/ i = n + 1
    BY <1>1
  <2>2. QED
    BY <1>3, <1>5, <1>6, <2>1
<1>9. ASSUME NEW i \in 1 .. n
      PROVE  t[i].extra <= f.extra
  <2>1. n # 0 /\ n \in 1 .. n /\ i <= n
    BY <1>1
  <2>2. s[i].extra <= s[n].extra /\ s[n].extra <= f.extra
        /\ s[i].extra \in Int /\ s[n].extra \in Int /\ f.extra \in Int
    BY <1>5, <1>6, <2>1
  <2>3. s[i].extra <= f.extra
    BY <2>2
  <2>4. QED
    BY <1>3, <2>3
<1>10. ASSUME NEW i \in 1 .. n + 1, NEW j \in 1 .. n + 1, i <= j
       PROVE  t[i].extra <= t[j].extra
  <2>1. CASE j = n + 1
    <3>1. i \in 1 .. n \/ i = n + 1
      BY <1>1
    <3>2. t[j] = f /\ f.extra <= f.extra
      BY <1>3, <1>6, <2>1
    <3>3. QED
      BY <1>3, <1>9, <3>1, <3>2
  <2>2. CASE j # n + 1
    <3>1. i \in 1 .. n /\ j \in 1 .. n
      BY <1>1, <1>10, <2>2
    <3>2. QED
      BY <1>3, <1>5, <1>10, <3>1
  <2>3. QED
    BY <2>1, <2>2
<1>11. Capped(t) /\ t # <<>> /\ t[Len(t)] = f
  BY <1>1, <1>3, <1>7, <1>8, <1>10, EmptySeq DEF Capped
<1>12. QED
  BY <1>11 DEF t

(* What the top of such a stack is, and the stack below it.                *)
LEMMA CapShape ==
  ASSUME IInv, CapInv
  PROVE  /\ Capped(Below) /\ CapOver(Below, Top)
         /\ "extra" \in DOMAIN Top /\ Top.extra \in 0 .. Len(input)
         /\ Len(input) \in Nat
<1>1. Capped(stack) /\ stack # <<>> /\ input \in Seq(Byte)
  BY DEF IInv, CapInv
<1>2. Capped(Below) /\ CapOver(Below, Top)
  BY <1>1, PopCapped DEF Below, Top
<1>3. QED
  BY <1>1, <1>2, LenProperties DEF CapOver

(* Frames that differ in no cap lie as well on a stack.                    *)
SameCap(f, g) == "extra" \in DOMAIN g /\ g.extra = f.extra

(* The stacks a step may leave: as it was, without the top, with the top   *)
(* replaced by frames of no smaller cap, or with one called.               *)
Recapped ==
  \/ UNCHANGED stack
  \/ stack' = Below
  \/ \E f : CapOver(Below, f) /\ stack' = Append(Below, f)
  \/ \E f : CapOver(stack, f) /\ stack' = Append(stack, f)
  \/ \E a, f : /\ SameCap(Top, a) /\ CapOver(<<a>>, f)
               /\ stack' = Below \o <<a, f>>
  \/ \E a, f, g : /\ SameCap(Top, a) /\ CapOver(<<a>>, f) /\ CapOver(<<f>>, g)
                  /\ stack' = Below \o <<a, f, g>>
  \/ /\ Below # <<>>
     /\ \E f : /\ SameCap(Below[Len(Below)], f)
               /\ stack' = Append(SubSeq(Below, 1, Len(Below) - 1), f)

(* Only the frame on top decides whether another may be put over it.       *)
LEMMA CapCarries ==
  ASSUME NEW s, NEW t, NEW f, s # <<>>, s[Len(s)] = t, CapOver(<<t>>, f)
  PROVE  CapOver(s, f)
<1>1. <<t>> # <<>> /\ <<t>>[Len(<<t>>)] = t
  OBVIOUS
<1>2. QED
  BY <1>1 DEF CapOver

(* Where a step recaps the stack, the caps are in order afterwards.        *)
LEMMA RecappedKeeps ==
  ASSUME IInv, CapInv, Recapped
  PROVE  Capped(stack')
<1>1. Capped(Below) /\ CapOver(Below, Top)
  BY CapShape
<1>2. Capped(stack)
  BY DEF CapInv
<1>3. ASSUME NEW a, SameCap(Top, a), NEW f, CapOver(<<a>>, f)
      PROVE  /\ Capped(Append(Append(Below, a), f))
             /\ Append(Append(Below, a), f) # <<>>
             /\ Append(Append(Below, a), f)[Len(Append(Append(Below, a), f))] = f
  <2> DEFINE s == Append(Below, a)
  <2>1. CapOver(Below, a)
    BY <1>1, <1>3 DEF CapOver, SameCap
  <2>2. Capped(s) /\ s # <<>> /\ s[Len(s)] = a
    BY <1>1, <2>1, PushCapped
  <2> HIDE DEF s
  <2>3. CapOver(s, f)
    BY <1>3, <2>2, CapCarries
  <2>4. Capped(Append(s, f)) /\ Append(s, f) # <<>> /\ Append(s, f)[Len(Append(s, f))] = f
    BY <2>2, <2>3, PushCapped
  <2>5. QED
    BY <2>4 DEF s
<1>4. IsStack(Below)
  BY <1>1 DEF Capped
<1>5. CASE stack' = stack \/ stack' = Below
  BY <1>1, <1>2, <1>5
<1>6. ASSUME NEW f, CapOver(Below, f), stack' = Append(Below, f)
      PROVE  Capped(stack')
  BY <1>1, <1>6, PushCapped
<1>7. ASSUME NEW f, CapOver(stack, f), stack' = Append(stack, f)
      PROVE  Capped(stack')
  BY <1>2, <1>7, PushCapped
<1>8. ASSUME NEW a, SameCap(Top, a), NEW f, CapOver(<<a>>, f), stack' = Below \o <<a, f>>
      PROVE  Capped(stack')
  <2>1. stack' = Append(Append(Below, a), f)
    BY <1>4, <1>8, ConcatIsPush
  <2>2. Capped(Append(Append(Below, a), f))
    BY <1>3, <1>8
  <2>3. QED
    BY <2>1, <2>2
<1>9. ASSUME NEW a, SameCap(Top, a), NEW f, CapOver(<<a>>, f), NEW g, CapOver(<<f>>, g),
             stack' = Below \o <<a, f, g>>
      PROVE  Capped(stack')
  <2> DEFINE t == Append(Append(Below, a), f)
  <2>1. Capped(t) /\ t # <<>> /\ t[Len(t)] = f
    BY <1>3, <1>9
  <2>2. stack' = Append(t, g)
    BY <1>4, <1>9, ConcatIsPush
  <2> HIDE DEF t
  <2>3. CapOver(t, g)
    BY <1>9, <2>1, CapCarries
  <2>4. Capped(Append(t, g))
    <3>1. Capped(t) /\ CapOver(t, g)
      BY <2>1, <2>3
    <3>2. QED
      BY <3>1, PushCapped
  <2>5. QED
    BY <2>2, <2>4
<1>10. ASSUME Below # <<>>, NEW f, SameCap(Below[Len(Below)], f),
              stack' = Append(SubSeq(Below, 1, Len(Below) - 1), f)
       PROVE  Capped(stack')
  <2> DEFINE t == SubSeq(Below, 1, Len(Below) - 1)
  <2>1. Capped(t) /\ CapOver(t, Below[Len(Below)])
    BY <1>1, <1>10, PopCapped
  <2> HIDE DEF t
  <2>2. CapOver(t, f)
    BY <1>10, <2>1 DEF CapOver, SameCap
  <2>3. QED
    BY <1>10, <2>1, <2>2, PushCapped DEF t
<1>11. QED
  BY <1>5, <1>6, <1>7, <1>8, <1>9, <1>10 DEF Recapped

-----------------------------------------------------------------------------
(* What is read lies in the buffer.                                        *)

(* Whatever the bytes are, a varint is read from what remains of them.     *)
LEMMA VarintStays ==
  ASSUME input \in Seq(Byte), NEW p \in 0 .. Len(input), NEW extra
  PROVE  /\ VarintAt(p).value \in Nat
         /\ VarintAt(p).used \in 0 .. Len(input) - p
         /\ CappedVarint(p, extra).value = VarintAt(p).value
         /\ CappedVarint(p, extra).used = VarintAt(p).used
<1> DEFINE rest == SubSeq(input, p + 1, Len(input))
           v == DecodeVarint(rest)
<1>1. Len(input) \in Nat
  BY LenProperties
<1>2. rest \in Seq(Byte) /\ Len(rest) = Len(input) - p
  <2>1. /\ p + 1 \in Nat \ {0} /\ Len(input) \in Nat /\ p <= Len(input)
        /\ p + 1 >= 1 /\ Len(input) \in 0 .. Len(input)
    BY <1>1
  <2>2. rest \in Seq(Byte)
    BY <2>1
  <2>3. Len(rest) = Len(input) - p
    BY <2>1
  <2>4. QED
    BY <2>2, <2>3
<1>3. {"error", "value", "used"} = DOMAIN v
  <2> HIDE DEF rest
  <2> QED
    BY DEF DecodeVarint
<1>4. v.value \in Nat /\ v.used \in 0 .. Len(input) - p
  <2> HIDE DEF rest
  <2>1. v.value \in Nat /\ v.used \in 0 .. Len(rest)
    BY <1>2, DecodeTypes
  <2>2. QED
    BY <1>2, <2>1
<1>5. VarintAt(p) = v
  BY DEF VarintAt
<1> HIDE DEF v
<1>6. [v EXCEPT !.error = "Truncated"].value = v.value
      /\ [v EXCEPT !.error = "Truncated"].used = v.used
  BY <1>3
<1>7. QED
  BY <1>4, <1>5, <1>6 DEF CappedVarint

(* A key is read from what remains.                                        *)
LEMMA KeyStays ==
  ASSUME input \in Seq(Byte), pos \in 0 .. Len(input)
  PROVE  Key.used \in 0 .. Len(input) - pos /\ pos + Key.used \in 0 .. Len(input)
<1>1. Key.used = CappedVarint(pos, Top.extra).used
  BY DEF Key, KeyAt
<1>2. CappedVarint(pos, Top.extra).used \in 0 .. Len(input) - pos
  BY VarintStays
<1> DEFINE k == Key.used
<1>3. k \in 0 .. Len(input) - pos
  BY <1>1, <1>2
<1>4. Len(input) \in Nat
  BY LenProperties
<1> HIDE DEF k
<1>5. pos + k \in 0 .. Len(input)
  BY <1>3, <1>4
<1>6. QED
  BY <1>3, <1>5 DEF k

(* A region that is taken lies in the buffer, and its cap is not behind    *)
(* the one it is taken from, although only remaining bytes are compared.   *)
LEMMA RegionStays ==
  ASSUME input \in Seq(Byte), NEW p \in 0 .. Len(input), NEW extra \in Nat,
         LengthDelimitedAt(p, extra).error = "none"
  PROVE  /\ LengthDelimitedAt(p, extra).begin \in 0 .. Len(input)
         /\ LengthDelimitedAt(p, extra).extra \in 0 .. Len(input)
         /\ extra <= LengthDelimitedAt(p, extra).extra
<1> DEFINE len == VarintAt(p)
           used == len.used
           value == len.value
<1>1. value \in Nat /\ used \in 0 .. Len(input) - p
  BY VarintStays
<1>2. Len(input) \in Nat
  BY LenProperties
<1>3. /\ LengthDelimitedAt(p, extra).begin = p + used
      /\ LengthDelimitedAt(p, extra).extra = Len(input) - (p + used) - value
      /\ ~(value > Len(input) - (p + used))
      /\ ~(Len(input) - (p + used) - value < extra)
  BY DEF LengthDelimitedAt, Remaining
<1> HIDE DEF len, used, value
<1>4. /\ p + used \in 0 .. Len(input)
      /\ Len(input) - (p + used) - value \in 0 .. Len(input)
      /\ extra <= Len(input) - (p + used) - value
  BY <1>1, <1>2, <1>3
<1>5. QED
  BY <1>3, <1>4

(* A key that repeats is there to be read.                                 *)
LEMMA RepeatsStays ==
  ASSUME input \in Seq(Byte), NEW p \in 0 .. Len(input), NEW extra \in 0 .. Len(input),
         RepeatsAt(p, extra)
  PROVE  p + 1 \in 0 .. Len(input)
<1>1. Len(input) \in Nat
  BY LenProperties
<1>2. Len(input) - p > 0
  BY <1>1 DEF RepeatsAt, BeforeCap, Remaining
<1>3. QED
  BY <1>1, <1>2

-----------------------------------------------------------------------------
(* Every step leaves such a stack and a position in the buffer.            *)

Goes ==
  /\ Recapped
  /\ UNCHANGED input
  /\ pos' \in 0 .. Len(input)

(* A step that leaves stack, position and input as they are.               *)
LEMMA StayGoes ==
  ASSUME CapInv, UNCHANGED <<input, pos, stack>>
  PROVE  Goes
BY DEF CapInv, StaysInBuffer, Goes, Recapped

(* An error leaves position and frames as they are.                        *)
LEMMA FailGoes ==
  ASSUME CapInv, NEW kind, Fail(kind)
  PROVE  Goes
BY StayGoes DEF Fail

(* The frame of a message keeps its cap when it has read a key.            *)
LEMMA AfterKeyCap ==
  ASSUME IInv, CapInv
  PROVE  SameCap(Top, AfterKey)
<1>1. "extra" \in DOMAIN Top
  BY CapShape
<1> DEFINE k == Key.tag
<1>2. AfterKey = [[Top EXCEPT !.tag = k] EXCEPT !.last = k]
  BY DEF AfterKey
<1> HIDE DEF k
<1>3. QED
  BY <1>1, <1>2 DEF SameCap

(* A frame with a cap that is not behind the top's lies on a message that  *)
(* has read a key.                                                         *)
LEMMA CapOverOne ==
  ASSUME NEW a, NEW f, "extra" \in DOMAIN f, f.extra \in 0 .. Len(input),
         a.extra <= f.extra
  PROVE  CapOver(<<a>>, f)
BY DEF CapOver

(* A call from a message that has read a key.                              *)
LEMMA CallGoes ==
  ASSUME IInv, CapInv, NEW a, SameCap(Top, a), NEW f, "extra" \in DOMAIN f,
         f.extra \in 0 .. Len(input), Top.extra <= f.extra,
         stack' = Below \o <<a, f>>
  PROVE  Recapped
<1>1. a.extra <= f.extra
  BY DEF SameCap
<1>2. CapOver(<<a>>, f)
  BY <1>1, CapOverOne
<1>3. QED
  BY <1>2 DEF Recapped

(* An unknown field is skipped under the cap of the message.               *)
LEMMA UnknownFieldGoes ==
  ASSUME IInv, CapInv, UnknownField
  PROVE  Goes
<1>1. CASE CheckError(HasExtensions, Top.min) # "none"
  BY <1>1, FailGoes DEF UnknownField
<1>2. CASE CheckError(HasExtensions, Top.min) = "none"
  <2> DEFINE a == [AfterKey EXCEPT !.canon = Lower(@, HasExtensions)]
             f == SkipFrame(Key.wire, Top.extra)
  <2>1. stack' = Below \o <<a, f>> /\ pos' = pos + Key.used /\ UNCHANGED input
    BY <1>2 DEF UnknownField
  <2>2. Top.extra \in 0 .. Len(input) /\ Len(input) \in Nat
    BY CapShape
  <2>3. SameCap(Top, AfterKey)
    BY AfterKeyCap
  <2>4. SameCap(Top, a)
    <3> DEFINE k == AfterKey
    <3>1. SameCap(Top, k)
      BY <2>3
    <3> HIDE DEF k
    <3>2. SameCap(Top, [k EXCEPT !.canon = Lower(@, HasExtensions)])
      BY <3>1 DEF SameCap
    <3>3. QED
      BY <3>2 DEF k
  <2>5. "extra" \in DOMAIN f /\ f.extra = Top.extra
    BY DEF SkipFrame
  <2>6. pos' \in 0 .. Len(input)
    BY <2>1, KeyStays DEF CapInv, StaysInBuffer
  <2> HIDE DEF a, f
  <2>7. f.extra \in 0 .. Len(input) /\ Top.extra <= f.extra
    BY <2>2, <2>5
  <2>8. Recapped
    BY <2>1, <2>4, <2>5, <2>7, CallGoes
  <2>9. QED
    BY <2>1, <2>6, <2>8 DEF Goes
<1>3. QED
  BY <1>1, <1>2

(* A value is decoded under the cap of the message.                        *)
LEMMA SingleFieldGoes ==
  ASSUME IInv, CapInv, SingleField
  PROVE  Goes
<1>1. CASE Key.wire # WireTypeOf(Field.item)
  BY <1>1, FailGoes DEF SingleField
<1>2. CASE Key.wire = WireTypeOf(Field.item)
  <2> DEFINE f == ValueFrame(Field.item, Field.card \in Explicit, Top.extra, Top.min,
                             Top.depth)
  <2>1. stack' = Below \o <<AfterKey, f>> /\ pos' = pos + Key.used /\ UNCHANGED input
    BY <1>2 DEF SingleField
  <2>2. Top.extra \in 0 .. Len(input) /\ Len(input) \in Nat
    BY CapShape
  <2>3. SameCap(Top, AfterKey)
    BY AfterKeyCap
  <2>4. "extra" \in DOMAIN f /\ f.extra = Top.extra
    BY DEF ValueFrame
  <2>5. pos' \in 0 .. Len(input)
    BY <2>1, KeyStays DEF CapInv, StaysInBuffer
  <2> HIDE DEF f
  <2>6. f.extra \in 0 .. Len(input) /\ Top.extra <= f.extra
    BY <2>2, <2>4
  <2>7. Recapped
    BY <2>1, <2>3, <2>4, <2>6, CallGoes
  <2>8. QED
    BY <2>1, <2>5, <2>7 DEF Goes
<1>3. QED
  BY <1>1, <1>2

(* The region of a field that has read its key.                            *)
LEMMA FieldRegion ==
  ASSUME IInv, CapInv,
         LengthDelimitedAt(pos + Key.used, Top.extra).error = "none"
  PROVE  LET region == LengthDelimitedAt(pos + Key.used, Top.extra)
         IN /\ region.begin \in 0 .. Len(input)
            /\ region.extra \in 0 .. Len(input)
            /\ Top.extra <= region.extra
<1>1. Top.extra \in Nat /\ input \in Seq(Byte)
  BY CapShape DEF CapInv
<1> DEFINE p == pos + Key.used
<1>2. p \in 0 .. Len(input)
  BY KeyStays DEF CapInv, StaysInBuffer
<1> HIDE DEF p
<1>3. LengthDelimitedAt(p, Top.extra).error = "none"
  BY DEF p
<1>4. /\ LengthDelimitedAt(p, Top.extra).begin \in 0 .. Len(input)
      /\ LengthDelimitedAt(p, Top.extra).extra \in 0 .. Len(input)
      /\ Top.extra <= LengthDelimitedAt(p, Top.extra).extra
  BY <1>1, <1>2, <1>3, RegionStays
<1>5. QED
  BY <1>4 DEF p

(* The region of the fields of a variant ends within that of the message.  *)
LEMMA StructVariantGoes ==
  ASSUME IInv, CapInv, StructVariant
  PROVE  Goes
<1> DEFINE region == LengthDelimitedAt(pos + Key.used, Top.extra)
           f == LoopFrame("struct", Field.item, region.extra, Top.min, Top.depth)
<1>1. CASE \E kind : Fail(kind)
  BY <1>1, FailGoes
<1>2. CASE ~\E kind : Fail(kind)
  <2>1. /\ region.error = "none" /\ pos' = region.begin /\ UNCHANGED input
        /\ stack' = Below \o <<AfterKey, f>>
    BY <1>2 DEF StructVariant
  <2>2. /\ region.begin \in 0 .. Len(input) /\ region.extra \in 0 .. Len(input)
        /\ Top.extra <= region.extra
    BY <2>1, FieldRegion
  <2>3. "extra" \in DOMAIN f /\ f.extra = region.extra
    BY DEF LoopFrame
  <2>4. SameCap(Top, AfterKey)
    BY AfterKeyCap
  <2> HIDE DEF f, region
  <2>5. f.extra \in 0 .. Len(input) /\ Top.extra <= f.extra
    BY <2>2, <2>3
  <2>6. Recapped
    BY <2>1, <2>3, <2>4, <2>5, CallGoes
  <2>7. QED
    BY <2>1, <2>2, <2>6 DEF Goes
<1>3. QED
  BY <1>1, <1>2

(* The region of packed items ends within that of the message.             *)
LEMMA PackedCollectionGoes ==
  ASSUME IInv, CapInv, PackedCollection
  PROVE  Goes
<1> DEFINE region == LengthDelimitedAt(pos + Key.used, Top.extra)
           f == CollectionFrame("packed", Field.item, Usual, region.extra,
                                CollectionMin, Top.depth)
<1>1. CASE \E kind : Fail(kind)
  BY <1>1, FailGoes
<1>2. CASE ~\E kind : Fail(kind)
  <2>1. /\ region.error = "none" /\ pos' = region.begin /\ UNCHANGED input
        /\ stack' = Below \o <<AfterKey, f>>
    BY <1>2 DEF PackedCollection
  <2>2. /\ region.begin \in 0 .. Len(input) /\ region.extra \in 0 .. Len(input)
        /\ Top.extra <= region.extra
    BY <2>1, FieldRegion
  <2>3. "extra" \in DOMAIN f /\ f.extra = region.extra
    BY DEF CollectionFrame
  <2>4. SameCap(Top, AfterKey)
    BY AfterKeyCap
  <2> HIDE DEF f, region
  <2>5. f.extra \in 0 .. Len(input) /\ Top.extra <= f.extra
    BY <2>2, <2>3
  <2>6. Recapped
    BY <2>1, <2>3, <2>4, <2>5, CallGoes
  <2>7. QED
    BY <2>1, <2>2, <2>6 DEF Goes
<1>3. QED
  BY <1>1, <1>2

(* Unpacked items are decoded under the cap of the message.                *)
LEMMA UnpackedCollectionGoes ==
  ASSUME IInv, CapInv, UnpackedCollection
  PROVE  Goes
<1> DEFINE f == CollectionFrame("unpacked", Field.item, Usual, Top.extra,
                                CollectionMin, Top.depth)
           g == ValueFrame(Field.item, TRUE, Top.extra, CollectionMin, Top.depth)
<1>1. CASE \E kind : Fail(kind)
  BY <1>1, FailGoes
<1>2. CASE ~\E kind : Fail(kind)
  <2>1. /\ pos' = pos + Key.used /\ UNCHANGED input
        /\ stack' = Below \o <<AfterKey, f, g>>
    BY <1>2 DEF UnpackedCollection
  <2>2. Top.extra \in 0 .. Len(input) /\ Len(input) \in Nat
    BY CapShape
  <2>3. "extra" \in DOMAIN f /\ f.extra = Top.extra
    BY DEF CollectionFrame
  <2>4. "extra" \in DOMAIN g /\ g.extra = Top.extra
    BY DEF ValueFrame
  <2>5. SameCap(Top, AfterKey)
    BY AfterKeyCap
  <2>6. pos' \in 0 .. Len(input)
    BY <2>1, KeyStays DEF CapInv, StaysInBuffer
  <2> HIDE DEF f, g
  <2>7. /\ f.extra \in 0 .. Len(input) /\ AfterKey.extra <= f.extra
        /\ g.extra \in 0 .. Len(input) /\ f.extra <= g.extra
    BY <2>2, <2>3, <2>4, <2>5 DEF SameCap
  <2>8. CapOver(<<AfterKey>>, f) /\ CapOver(<<f>>, g)
    BY <2>3, <2>4, <2>7, CapOverOne
  <2>9. Recapped
    BY <2>1, <2>5, <2>8 DEF Recapped
  <2>10. QED
    BY <2>1, <2>6, <2>9 DEF Goes
<1>3. QED
  BY <1>1, <1>2

(* What a call returns does not touch its caller's cap.                    *)
LEMMA ReturnsRecaps ==
  ASSUME IInv, CapInv, Below # <<>>, NEW value, NEW canon, Returns(value, canon)
  PROVE  Recapped
<1> DEFINE m == Len(Below)
           caller == Below[m]
<1>1. GoodStack(Below) /\ Capped(Below)
  BY Shape, CapShape
<1>2. /\ m \in Nat \ {0} /\ Below = [i \in 1 .. m |-> Below[i]]
      /\ "extra" \in DOMAIN caller
  <2>1. m \in Nat \ {0} /\ Below = [i \in 1 .. m |-> Below[i]]
    BY <1>1, EmptySeq DEF GoodStack, IsStack
  <2>2. m \in 1 .. m
    BY <2>1
  <2>3. QED
    BY <1>1, <2>1, <2>2 DEF Capped
<1>3. PICK kept : stack' = [Below EXCEPT ![m].value = kept,
                                         ![m].canon = Lower(caller.canon, canon)]
  BY DEF Returns
<1> DEFINE f == [[caller EXCEPT !.value = kept]
                         EXCEPT !.canon = Lower(caller.canon, canon)]
<1>4. stack' = [i \in 1 .. m |-> IF i = m THEN f ELSE Below[i]]
  <2> HIDE DEF m
  <2> QED
    BY <1>2, <1>3
<1>5. SameCap(caller, f)
  <2> HIDE DEF m, caller
  <2> QED
    BY <1>2 DEF SameCap
<1> HIDE DEF f
<1>6. stack' = Append(SubSeq(Below, 1, m - 1), f)
  BY <1>1, <1>4, ReplaceFunction
<1>7. QED
  BY <1>5, <1>6 DEF Recapped

(* The end of a message moves nothing and drops a cap.                     *)
LEMMA MessageEndGoes ==
  ASSUME IInv, CapInv, MessageEnd
  PROVE  Goes
<1>1. UNCHANGED <<input, pos>>
  BY DEF MessageEnd
<1>2. pos' \in 0 .. Len(input)
  BY <1>1 DEF CapInv, StaysInBuffer
<1>3. CASE Below = <<>>
  BY <1>1, <1>3, StayGoes DEF MessageEnd
<1>4. CASE Below # <<>>
  <2>1. Returns(Top.value, Top.canon)
    BY <1>4 DEF MessageEnd
  <2>2. Recapped
    BY <1>4, <2>1, ReturnsRecaps
  <2>3. QED
    BY <1>1, <1>2, <2>2 DEF Goes
<1>5. QED
  BY <1>3, <1>4

(* A scalar was read up to a place inside the buffer.                      *)
LEMMA ReturnsScalarGoes ==
  ASSUME IInv, CapInv, Top.at = "value", NEW value, NEW empty,
         NEW next \in 0 .. Len(input), ReturnsScalar(value, empty, next)
  PROVE  Goes
<1>1. Below # <<>>
  BY HasCaller
<1>2. CASE \E kind : Fail(kind)
  BY <1>2, FailGoes
<1>3. CASE ~\E kind : Fail(kind)
  <2>1. /\ pos' = next /\ UNCHANGED input
        /\ \E kept, canon : Returns(kept, canon)
    BY <1>3 DEF ReturnsScalar
  <2>2. Recapped
    BY <1>1, <2>1, ReturnsRecaps
  <2>3. QED
    BY <2>1, <2>2 DEF Goes
<1>4. QED
  BY <1>2, <1>3

(* A varint may pass the cap, but never the end of the buffer.             *)
LEMMA VarintValueGoes ==
  ASSUME IInv, CapInv, VarintValue
  PROVE  Goes
<1> DEFINE v == CappedVarint(pos, Top.extra)
           next == pos + v.used
<1>1. Top.at = "value"
  BY DEF VarintValue, AtValue
<1>2. CASE \E kind : Fail(kind)
  BY <1>2, FailGoes
<1>3. CASE ~\E kind : Fail(kind)
  <2>1. ReturnsScalar(<<v.value>>, v.value = 0, next)
    BY <1>3 DEF VarintValue
  <2>2. input \in Seq(Byte) /\ pos \in 0 .. Len(input) /\ Len(input) \in Nat
    BY CapShape DEF CapInv, StaysInBuffer
  <2>3. v.used \in 0 .. Len(input) - pos
    BY <2>2, VarintStays
  <2>4. next \in 0 .. Len(input)
    <3> HIDE DEF v
    <3> QED
      BY <2>2, <2>3
  <2> HIDE DEF next, v
  <2>5. QED
    BY <1>1, <2>1, <2>4, ReturnsScalarGoes
<1>4. QED
  BY <1>2, <1>3

(* A fixed-width value is read only when the buffer holds all of it.       *)
LEMMA FixedValueGoes ==
  ASSUME IInv, CapInv, FixedValue
  PROVE  Goes
<1> DEFINE width == FixedWidth[ThirtyTwoBit]
           bytes == SubSeq(input, pos + 1, pos + width)
           next == pos + width
<1>1. Top.at = "value"
  BY DEF FixedValue, AtValue
<1>2. CASE \E kind : Fail(kind)
  BY <1>2, FailGoes
<1>3. CASE ~\E kind : Fail(kind)
  <2>1. /\ ReturnsScalar(bytes, \A i \in 1 .. width : bytes[i] = 0, next)
        /\ ~(BeforeCap(pos, Top.extra) < width)
    BY <1>3 DEF FixedValue
  <2>2. /\ pos \in 0 .. Len(input) /\ Len(input) \in Nat
        /\ Top.extra \in 0 .. Len(input)
    BY CapShape DEF CapInv, StaysInBuffer
  <2>3. width \in Nat \ {0}
    BY WireAssumption DEF ThirtyTwoBit
  <2>4. next \in 0 .. Len(input)
    <3> HIDE DEF width
    <3> QED
      BY <2>1, <2>2, <2>3 DEF BeforeCap, Remaining
  <2> HIDE DEF next, bytes, width
  <2>5. QED
    BY <1>1, <2>1, <2>4, ReturnsScalarGoes
<1>4. QED
  BY <1>2, <1>3

(* The region of a nested message ends within the one it is in.            *)
LEMMA MessageValueGoes ==
  ASSUME IInv, CapInv, MessageValue
  PROVE  Goes
<1> DEFINE region == LengthDelimitedAt(pos, Top.extra)
           f == MessageFrame(Top.item, region.extra, Top.min, Top.depth - 1)
<1>1. Below # <<>>
  BY HasCaller DEF MessageValue, AtValue
<1>2. CASE \E kind : Fail(kind)
  BY <1>2, FailGoes
<1>3. CASE ~\E kind : Fail(kind)
  <2>1. /\ region.error = "none" /\ pos' = region.begin /\ UNCHANGED input
        /\ Returns(<<>>, NotCanonical) \/ stack' = Append(Below, f)
    BY <1>3 DEF MessageValue
  <2>2. /\ input \in Seq(Byte) /\ pos \in 0 .. Len(input) /\ Top.extra \in Nat
        /\ Len(input) \in Nat
    BY CapShape DEF CapInv, StaysInBuffer
  <2>3. /\ region.begin \in 0 .. Len(input) /\ region.extra \in 0 .. Len(input)
        /\ Top.extra <= region.extra
    BY <2>1, <2>2, RegionStays
  <2>4. CASE Returns(<<>>, NotCanonical)
    <3>1. Recapped
      BY <1>1, <2>4, ReturnsRecaps
    <3>2. QED
      BY <2>1, <2>3, <3>1 DEF Goes
  <2>5. CASE stack' = Append(Below, f)
    <3>1. "extra" \in DOMAIN f /\ f.extra = region.extra
      BY DEF MessageFrame, LoopFrame
    <3>2. /\ CapOver(Below, Top) /\ Capped(Below)
          /\ Below # <<>> => Len(Below) \in 1 .. Len(Below)
      BY CapShape, EmptySeq DEF Capped, IsStack
    <3>3. Below # <<>> => Below[Len(Below)].extra \in Int
      BY <3>2 DEF Capped
    <3> HIDE DEF f, region
    <3>4. CapOver(Below, f)
      BY <2>2, <2>3, <3>1, <3>2, <3>3 DEF CapOver
    <3>5. Recapped
      BY <2>5, <3>4 DEF Recapped
    <3>6. QED
      BY <2>1, <2>3, <3>5 DEF Goes
  <2>6. QED
    BY <2>1, <2>4, <2>5
<1>4. QED
  BY <1>2, <1>3

(* An item is decoded under the cap of the loop over the items.            *)
LEMMA CallItemRecaps ==
  ASSUME IInv, CapInv, CallItem
  PROVE  Recapped
<1> DEFINE f == ValueFrame(Top.item, TRUE, Top.extra, Top.min, Top.depth)
<1>1. "extra" \in DOMAIN f /\ f.extra = Top.extra
  BY DEF ValueFrame
<1>2. stack' = Append(stack, f)
  BY DEF CallItem, Call
<1>3. Top.extra \in 0 .. Len(input) /\ Len(input) \in Nat
  BY CapShape
<1> HIDE DEF f
<1>4. CapOver(stack, f)
  BY <1>1, <1>3 DEF CapOver, Top
<1>5. QED
  BY <1>2, <1>4 DEF Recapped

(* The turns of the two loops over items, and their ends.                  *)
LEMMA CollectionsGo ==
  ASSUME IInv, CapInv, PackedItem \/ PackedEnd \/ UnpackedItem \/ UnpackedEnd
  PROVE  Goes
<1>1. /\ pos \in 0 .. Len(input) /\ Top.extra \in 0 .. Len(input)
      /\ input \in Seq(Byte)
  BY CapShape DEF CapInv, StaysInBuffer
<1>2. Below # <<>>
  BY HasCaller DEF PackedItem, PackedEnd, UnpackedItem, UnpackedEnd
<1>3. CASE \E kind : Fail(kind)
  BY <1>3, FailGoes
<1>4. CASE PackedItem
  BY <1>1, <1>4, CallItemRecaps DEF PackedItem, Goes
<1>5. CASE UnpackedItem /\ ~\E kind : Fail(kind)
  <2>1. CallItem /\ pos' = pos + 1 /\ UNCHANGED input /\ RepeatsAt(pos, Top.extra)
    BY <1>5 DEF UnpackedItem
  <2>2. pos + 1 \in 0 .. Len(input)
    BY <1>1, <2>1, RepeatsStays
  <2>3. QED
    BY <2>1, <2>2, CallItemRecaps DEF Goes
<1>6. CASE (PackedEnd \/ UnpackedEnd) /\ ~\E kind : Fail(kind)
  <2>1. UNCHANGED <<input, pos>> /\ \E canon : ReturnsCollection(canon)
    BY <1>6 DEF PackedEnd, UnpackedEnd
  <2>2. \E value, canon : Returns(value, canon)
    BY <2>1 DEF ReturnsCollection
  <2>3. Recapped
    BY <1>2, <2>2, ReturnsRecaps
  <2>4. QED
    BY <1>1, <2>1, <2>3 DEF Goes
<1>7. QED
  BY <1>3, <1>4, <1>5, <1>6

(* A skipped value may pass the cap, but never the end of the buffer.      *)
LEMMA SkipValueGoes ==
  ASSUME IInv, CapInv, SkipValue
  PROVE  Goes
<1> DEFINE v == CappedVarint(pos, Top.extra)
           fixed == Top.wire \in DOMAIN FixedWidth
           begin == IF fixed THEN pos ELSE pos + v.used
           len == IF fixed THEN FixedWidth[Top.wire]
                  ELSE IF Top.wire = LengthDelimited THEN v.value ELSE 0
           next == begin + len
<1>1. /\ input \in Seq(Byte) /\ pos \in 0 .. Len(input) /\ Len(input) \in Nat
      /\ Top.extra \in 0 .. Len(input)
  BY CapShape DEF CapInv, StaysInBuffer
<1>2. CASE \E kind : Fail(kind)
  BY <1>2, FailGoes
<1>3. CASE ~\E kind : Fail(kind)
  <2>1. /\ ~(len > Remaining(begin)) /\ UNCHANGED input
        /\ \/ /\ RepeatsAt(next, Top.extra) /\ pos' = next + 1
              /\ stack' = Append(Below, SkipFrame(input[next + 1], Top.extra))
           \/ pos' = next /\ stack' = Below
    BY <1>3 DEF SkipValue, PastEnd
  <2>2. v.used \in 0 .. Len(input) - pos /\ v.value \in Nat
    BY <1>1, VarintStays
  <2>3. fixed => FixedWidth[Top.wire] \in Nat
    BY WireAssumption
  <2>4. begin \in 0 .. Len(input) /\ len \in Nat
    <3> HIDE DEF v, fixed
    <3> QED
      BY <1>1, <2>2, <2>3
  <2> HIDE DEF v, fixed, begin, len
  <2>5. next \in 0 .. Len(input)
    BY <1>1, <2>1, <2>4 DEF Remaining
  <2> HIDE DEF next
  <2>6. CASE pos' = next /\ stack' = Below
    BY <2>1, <2>5, <2>6 DEF Goes, Recapped
  <2>7. CASE /\ RepeatsAt(next, Top.extra) /\ pos' = next + 1
             /\ stack' = Append(Below, SkipFrame(input[next + 1], Top.extra))
    <3> DEFINE f == SkipFrame(input[next + 1], Top.extra)
    <3>1. "extra" \in DOMAIN f /\ f.extra = Top.extra
      BY DEF SkipFrame
    <3>2. CapOver(Below, Top)
      BY CapShape
    <3>3. next + 1 \in 0 .. Len(input)
      BY <1>1, <2>5, <2>7, RepeatsStays
    <3>4. stack' = Append(Below, f)
      BY <2>7
    <3> HIDE DEF f
    <3>5. CapOver(Below, f)
      BY <3>1, <3>2 DEF CapOver
    <3>6. Recapped
      BY <3>4, <3>5 DEF Recapped
    <3>7. QED
      BY <2>1, <2>7, <3>3, <3>6 DEF Goes
  <2>8. QED
    BY <2>1, <2>6, <2>7
<1>4. QED
  BY <1>2, <1>3

(* Every step moves the position within the buffer and keeps the caps in   *)
(* order.                                                                  *)
LEMMA StepGoes ==
  ASSUME IInv, CapInv, Step
  PROVE  Goes
<1>1. CASE \E kind : Fail(kind)
  BY <1>1, FailGoes
<1>2. CASE OverCap \/ BadKey \/ RepeatedField \/ ConflictingField \/ ForeignCollection
  <2>1. \E kind : Fail(kind)
    BY <1>2 DEF OverCap, BadKey, RepeatedField, ConflictingField, ForeignCollection
  <2>2. QED
    BY <2>1, <1>1
<1>3. CASE MessageEnd
  BY <1>3, MessageEndGoes
<1>4. CASE UnknownField
  BY <1>4, UnknownFieldGoes
<1>5. CASE SingleField
  BY <1>5, SingleFieldGoes
<1>6. CASE StructVariant
  BY <1>6, StructVariantGoes
<1>7. CASE PackedCollection
  BY <1>7, PackedCollectionGoes
<1>8. CASE UnpackedCollection
  BY <1>8, UnpackedCollectionGoes
<1>9. CASE VarintValue
  BY <1>9, VarintValueGoes
<1>10. CASE FixedValue
  BY <1>10, FixedValueGoes
<1>11. CASE MessageValue
  BY <1>11, MessageValueGoes
<1>12. CASE PackedItem \/ PackedEnd \/ UnpackedItem \/ UnpackedEnd
  BY <1>12, CollectionsGo
<1>13. CASE SkipValue
  BY <1>13, SkipValueGoes
<1>14. QED
  BY <1>2, <1>3, <1>4, <1>5, <1>6, <1>7, <1>8, <1>9, <1>10, <1>11, <1>12, <1>13
  DEF Step

(* The root message ends with the buffer.                                  *)
LEMMA InitCapped ==
  ASSUME Init
  PROVE  CapInv
<1>1. PICK root \in Roots, min \in Restrictions :
        stack = <<MessageFrame(root, 0, min, RecursionLimit)>>
  BY DEF Init
<1> DEFINE f == MessageFrame(root, 0, min, RecursionLimit)
<1>2. input \in Seq(Byte) /\ pos = 0
  BY DecoderAssumption DEF Init
<1>3. Len(input) \in Nat
  BY <1>2, LenProperties
<1>4. "extra" \in DOMAIN f /\ f.extra = 0
  BY DEF MessageFrame, LoopFrame
<1>5. stack = Append(<<>>, f)
  BY <1>1 DEF f
<1> HIDE DEF f
<1>6. CapOver(<<>>, f)
  BY <1>3, <1>4 DEF CapOver
<1>7. Capped(<<>>)
  BY DEF Capped, IsStack
<1>8. Capped(Append(<<>>, f))
  BY <1>6, <1>7, PushCapped
<1>9. Capped(stack)
  BY <1>5, <1>8
<1>10. pos \in 0 .. Len(input)
  BY <1>2, <1>3
<1>11. QED
  BY <1>2, <1>9, <1>10 DEF CapInv, StaysInBuffer

(* The invariant of position and caps is inductive, given that of the      *)
(* frames.                                                                 *)
LEMMA NextCapped ==
  ASSUME IInv, CapInv, [Next]_vars
  PROVE  CapInv'
<1>1. Goes
  <2>1. CASE UNCHANGED vars
    BY <2>1, StayGoes DEF vars
  <2>2. CASE Step
    BY <2>2, StepGoes
  <2>3. QED
    BY <2>1, <2>2 DEF Next, Returned
<1>2. Capped(stack')
  BY <1>1, RecappedKeeps DEF Goes
<1>3. QED
  BY <1>1, <1>2 DEF Goes, CapInv, StaysInBuffer, Capped, IsStack

(* In every state of a decoder, whatever bytes it is given, the position   *)
(* and each cap lie in the buffer and the caps do not decrease towards the *)
(* innermost call.                                                         *)
THEOREM DecoderCapInvariant == Spec => []CapInv
<1>1. Init => CapInv
  BY InitCapped
<1>2. IInv /\ CapInv /\ [Next]_vars => CapInv'
  BY NextCapped
<1>3. QED
  BY <1>1, <1>2, DecoderInvariant, PTL DEF Spec

(* No read, of a key, a length, a value or a field that is skipped,        *)
(* advances past the end of the buffer, where Buf::advance would panic, and*)
(* a nested call's region never reaches past the region it lies in, though *)
(* take_length_delimited compares nothing but the bytes remaining.         *)
THEOREM DecoderReadsInBounds == Spec => []ReadsInBounds
<1>1. CapInv => ReadsInBounds
  BY DEF CapInv, Capped, ReadsInBounds, CapsNested
<1>2. QED
  BY <1>1, DecoderCapInvariant, PTL

-----------------------------------------------------------------------------
(* The root.  A step never changes the minimum or the cap of the call that *)
(* all the others are made by, which are those of the call of the public   *)
(* API.                                                                    *)

(* One frame in place of another, as the root.                             *)
SameRoot(f, g) == g.min = f.min /\ g.extra = f.extra

(* The stacks a step may leave, by what becomes of the frame on top.       *)
Rooted ==
  \/ UNCHANGED stack
  \/ Below # <<>> /\ stack' = Below
  \/ Below # <<>> /\ \E f : stack' = Append(Below, f)
  \/ \E f : stack' = Append(stack, f)
  \/ \E a, f : SameRoot(Top, a) /\ stack' = Below \o <<a, f>>
  \/ \E a, f, g : SameRoot(Top, a) /\ stack' = Below \o <<a, f, g>>
  \/ /\ Below # <<>>
     /\ \E f : /\ SameRoot(Below[Len(Below)], f)
               /\ stack' = Append(SubSeq(Below, 1, Len(Below) - 1), f)

(* The empty stack is the one without a frame.                             *)
LEMMA EmptyStack ==
  ASSUME NEW s, IsStack(s)
  PROVE  Len(s) \in Nat /\ (s = <<>> <=> Len(s) = 0)
BY EmptySeq DEF IsStack

(* The first frame of a stack stays the first when another is pushed.      *)
LEMMA FirstStays ==
  ASSUME NEW s, IsStack(s), NEW f
  PROVE  /\ Append(s, f)[1] = (IF s = <<>> THEN f ELSE s[1])
         /\ IsStack(Append(s, f)) /\ Append(s, f) # <<>>
<1> DEFINE n == Len(s)
           t == Append(s, f)
<1>1. n \in Nat /\ (s = <<>> <=> n = 0)
  BY EmptySeq DEF IsStack
<1>2. PICK S : s \in Seq(S) /\ f \in S
  <2> DEFINE S == {s[i] : i \in 1 .. n} \cup {f}
  <2>1. s \in [1 .. n -> S]
    BY DEF IsStack
  <2>2. s \in Seq(S) /\ f \in S
    BY <1>1, <2>1, SeqDef
  <2>3. QED
    BY <2>2
<1>3. /\ t \in Seq(S) /\ Len(t) = n + 1
      /\ t[n + 1] = f /\ \A i \in 1 .. n : t[i] = s[i]
  BY <1>2, AppendProperties
<1>4. t = [i \in 1 .. n + 1 |-> t[i]] /\ n + 1 \in Nat
  <2> HIDE DEF t
  <2> QED
    BY <1>1, <1>3
<1> HIDE DEF t, n
<1>5. IsStack(t) /\ t # <<>>
  BY <1>1, <1>3, <1>4, FunctionIsStack
<1>6. t[1] = IF s = <<>> THEN f ELSE s[1]
  BY <1>1, <1>3
<1>7. QED
  BY <1>5, <1>6 DEF t

(* Such a step leaves the root with its minimum and its cap.               *)
LEMMA RootedKeeps ==
  ASSUME IInv, Rooted
  PROVE  SameRoot(stack[1], stack'[1])
<1>1. /\ GoodStack(Below) /\ IsStack(stack) /\ stack # <<>>
      /\ Len(stack) \in Nat \ {0} /\ Len(Below) = Len(stack) - 1
      /\ Below = [i \in 1 .. Len(Below) |-> stack[i]]
  BY PopKeeps DEF IInv, Below, GoodStack
<1>2. IsStack(Below) /\ (Below = <<>> <=> Len(stack) = 1)
  <2>1. IsStack(Below)
    BY <1>1 DEF GoodStack
  <2>2. Below = <<>> <=> Len(Below) = 0
    BY <2>1, EmptyStack
  <2>3. QED
    BY <1>1, <2>1, <2>2
<1>3. Below # <<>> => Below[1] = stack[1]
  <2>1. Below # <<>> => 1 \in 1 .. Len(Below)
    BY <1>1, <1>2
  <2>2. QED
    BY <1>1, <2>1
<1>4. Below = <<>> => Top = stack[1]
  BY <1>2 DEF Top
<1>5. CASE UNCHANGED stack \/ (Below # <<>> /\ stack' = Below)
  BY <1>3, <1>5 DEF SameRoot
<1>6. ASSUME Below # <<>>, NEW f, stack' = Append(Below, f)
      PROVE  SameRoot(stack[1], stack'[1])
  BY <1>2, <1>3, <1>6, FirstStays DEF SameRoot
<1>7. ASSUME NEW f, stack' = Append(stack, f)
      PROVE  SameRoot(stack[1], stack'[1])
  BY <1>1, <1>7, FirstStays DEF SameRoot
<1>8. ASSUME NEW a, SameRoot(Top, a), NEW f
      PROVE  /\ SameRoot(stack[1], (Below \o <<a, f>>)[1])
             /\ \A g : SameRoot(stack[1], (Below \o <<a, f, g>>)[1])
  <2> DEFINE s == Append(Below, a)
             t == Append(s, f)
  <2>1. s[1] = (IF Below = <<>> THEN a ELSE Below[1]) /\ IsStack(s) /\ s # <<>>
    BY <1>2, FirstStays
  <2>2. SameRoot(stack[1], s[1])
    <3> HIDE DEF s
    <3> QED
      BY <1>3, <1>4, <1>8, <2>1 DEF SameRoot
  <2>3. t[1] = s[1] /\ IsStack(t) /\ t # <<>>
    <3> HIDE DEF s
    <3> QED
      BY <2>1, FirstStays
  <2>4. \A g : Append(t, g)[1] = t[1]
    <3> HIDE DEF t
    <3> QED
      BY <2>3, FirstStays
  <2>5. Below \o <<a, f>> = t /\ \A g : Below \o <<a, f, g>> = Append(t, g)
    BY <1>2, ConcatIsPush
  <2> HIDE DEF s, t
  <2>6. QED
    BY <2>2, <2>3, <2>4, <2>5
<1>9. ASSUME Below # <<>>, NEW f, SameRoot(Below[Len(Below)], f),
             stack' = Append(SubSeq(Below, 1, Len(Below) - 1), f)
      PROVE  SameRoot(stack[1], stack'[1])
  <2> DEFINE s == SubSeq(Below, 1, Len(Below) - 1)
  <2>1. /\ GoodStack(s) /\ Len(Below) \in Nat \ {0} /\ Len(s) = Len(Below) - 1
        /\ s = [i \in 1 .. Len(s) |-> Below[i]]
    BY <1>1, <1>9, PopKeeps
  <2>2. s # <<>> => s[1] = Below[1]
    <3>1. s # <<>> => 1 \in 1 .. Len(s)
      <4> HIDE DEF s
      <4> QED
        BY <2>1, EmptySeq DEF GoodStack, IsStack
    <3>2. QED
      <4> HIDE DEF s
      <4> QED
        BY <2>1, <3>1
  <2>3. s = <<>> => Below[Len(Below)] = Below[1]
    <3> HIDE DEF s
    <3>1. s = <<>> => Len(s) = 0
      OBVIOUS
    <3>2. Len(s) = Len(Below) - 1 /\ Len(Below) \in Nat
      BY <2>1
    <3>3. s = <<>> => Len(Below) = 1
      BY <3>1, <3>2
    <3>4. QED
      BY <3>3
  <2>4. Append(s, f)[1] = IF s = <<>> THEN f ELSE s[1]
    <3> HIDE DEF s
    <3> QED
      BY <2>1, FirstStays DEF GoodStack
  <2>5. stack' = Append(s, f)
    BY <1>9
  <2> HIDE DEF s
  <2>6. QED
    BY <1>3, <1>9, <2>2, <2>3, <2>4, <2>5 DEF SameRoot
<1>10. QED
  BY <1>5, <1>6, <1>7, <1>8, <1>9 DEF Rooted

(* What a call returns changes neither the minimum nor the cap of its      *)
(* caller.                                                                 *)
LEMMA ReturnsRooted ==
  ASSUME IInv, CapInv, Below # <<>>, NEW value, NEW canon, Returns(value, canon)
  PROVE  Rooted
<1> DEFINE m == Len(Below)
           caller == Below[m]
<1>1. GoodStack(Below) /\ Capped(Below) /\ WellFormed(caller) /\ HasCanon(caller)
  BY Shape, CapShape DEF CallOf
<1>2. /\ m \in Nat \ {0} /\ Below = [i \in 1 .. m |-> Below[i]]
      /\ {"extra", "min"} \subseteq DOMAIN caller
  <2>1. m \in Nat \ {0} /\ Below = [i \in 1 .. m |-> Below[i]]
    BY <1>1, EmptySeq DEF GoodStack, IsStack
  <2>2. m \in 1 .. m
    BY <2>1
  <2>3. "extra" \in DOMAIN caller
    BY <1>1, <2>1, <2>2 DEF Capped
  <2>4. "min" \in DOMAIN caller
    <3> HIDE DEF caller
    <3> QED
      BY <1>1 DEF WellFormed, HasCanon, Loops
  <2>5. QED
    BY <2>1, <2>3, <2>4
<1>3. PICK kept : stack' = [Below EXCEPT ![m].value = kept,
                                         ![m].canon = Lower(caller.canon, canon)]
  BY DEF Returns
<1> DEFINE f == [[caller EXCEPT !.value = kept]
                         EXCEPT !.canon = Lower(caller.canon, canon)]
<1>4. stack' = [i \in 1 .. m |-> IF i = m THEN f ELSE Below[i]]
  <2> HIDE DEF m
  <2> QED
    BY <1>2, <1>3
<1>5. SameRoot(caller, f)
  <2> HIDE DEF m, caller
  <2> QED
    BY <1>2 DEF SameRoot
<1> HIDE DEF f
<1>6. stack' = Append(SubSeq(Below, 1, m - 1), f)
  BY <1>1, <1>4, ReplaceFunction
<1>7. QED
  BY <1>5, <1>6 DEF Rooted

(* A message that has read a key has the minimum and the cap it had.       *)
LEMMA AfterKeyRoot ==
  ASSUME IInv, CapInv, AtMessage
  PROVE  SameRoot(Top, AfterKey)
         /\ SameRoot(Top, [AfterKey EXCEPT !.canon = Lower(@, HasExtensions)])
<1>1. /\ AfterKey.min = Top.min /\ DOMAIN AfterKey = DOMAIN Top /\ WellFormed(AfterKey)
      /\ AfterKey.at \in Loops
  BY AfterKeyShape
<1>2. AfterKey.extra = Top.extra /\ "extra" \in DOMAIN AfterKey
  BY AfterKeyCap DEF SameCap
<1> DEFINE k == AfterKey
<1> HIDE DEF k
<1>3. "min" \in DOMAIN k
  BY <1>1 DEF k, WellFormed, Loops
<1>4. SameRoot(k, [k EXCEPT !.canon = Lower(@, HasExtensions)])
  BY <1>2, <1>3 DEF SameRoot, k
<1>5. QED
  BY <1>1, <1>2, <1>4 DEF SameRoot, k

(* Every step of the decoder leaves the root so.                           *)
LEMMA StepRooted ==
  ASSUME IInv, CapInv, Step
  PROVE  Rooted
<1>1. CASE UNCHANGED stack
  BY <1>1 DEF Rooted
<1>2. CASE OverCap \/ BadKey \/ RepeatedField \/ ConflictingField \/ ForeignCollection
  BY <1>1, <1>2 DEF OverCap, BadKey, RepeatedField, ConflictingField,
     ForeignCollection, Fail
<1>3. CASE MessageEnd
  BY <1>1, <1>3, ReturnsRooted DEF MessageEnd
<1>4. CASE UnknownField
  BY <1>1, <1>4, AfterKeyRoot DEF UnknownField, GoodKey, Fail, Rooted
<1>5. CASE SingleField \/ StructVariant \/ PackedCollection \/ UnpackedCollection
  <2>1. SameRoot(Top, AfterKey)
    BY <1>5, AfterKeyRoot DEF SingleField, StructVariant, PackedCollection,
       UnpackedCollection, Collection, NewField, GoodKey
  <2>2. \/ UNCHANGED stack
        \/ \E f : stack' = Below \o <<AfterKey, f>>
        \/ \E f, g : stack' = Below \o <<AfterKey, f, g>>
    BY <1>5 DEF SingleField, StructVariant, PackedCollection, UnpackedCollection, Fail
  <2>3. QED
    BY <2>1, <2>2 DEF Rooted
<1>6. CASE VarintValue \/ FixedValue \/ MessageValue
  <2>1. Below # <<>>
    BY <1>6, HasCaller DEF VarintValue, FixedValue, MessageValue, AtValue
  <2>2. \/ UNCHANGED stack
        \/ \E value, canon : Returns(value, canon)
        \/ \E f : stack' = Append(Below, f)
    BY <1>6 DEF VarintValue, FixedValue, MessageValue, ReturnsScalar, Fail
  <2>3. QED
    BY <2>1, <2>2, ReturnsRooted DEF Rooted
<1>7. CASE PackedItem \/ PackedEnd \/ UnpackedItem \/ UnpackedEnd
  <2>1. Below # <<>>
    BY <1>7, HasCaller DEF PackedItem, PackedEnd, UnpackedItem, UnpackedEnd
  <2>2. \/ UNCHANGED stack
        \/ \E value, canon : Returns(value, canon)
        \/ \E f : stack' = Append(stack, f)
    BY <1>7 DEF PackedItem, PackedEnd, UnpackedItem, UnpackedEnd, ReturnsCollection,
       CallItem, Call, Fail
  <2>3. QED
    BY <2>1, <2>2, ReturnsRooted DEF Rooted
<1>8. CASE SkipValue
  <2>1. Below # <<>>
    BY <1>8, HasCaller DEF SkipValue
  <2>2. UNCHANGED stack \/ stack' = Below \/ \E f : stack' = Append(Below, f)
    BY <1>8 DEF SkipValue, Fail
  <2>3. QED
    BY <2>1, <2>2 DEF Rooted
<1>9. QED
  BY <1>2, <1>3, <1>4, <1>5, <1>6, <1>7, <1>8 DEF Step

-----------------------------------------------------------------------------
(* What a step leaves of the outcome: an error of decoding, or nothing but *)
(* when the root message has been read to its cap.                         *)

(* The errors of decoding, those of reading a varint or a region, and what *)
(* an outcome may be while no message has ended.                           *)
Errors ==
  {"Truncated", "InvalidVarint", "TagOverflowed", "UnknownField", "NotCanonical",
   "UnexpectedlyRepeated", "ConflictingFields", "WrongWireType",
   "RecursionLimitReached"}

Fates == {"none"} \cup Errors
GoesOn == outcome' \in Fates

ReadErrors == {"none", "Truncated", "InvalidVarint"}

(* The root message has been read to its cap.                              *)
Ended ==
  /\ Below = <<>> /\ Remaining(pos) = Top.extra
  /\ outcome' = "ok" /\ UNCHANGED <<input, pos, stack>>

(* What is wrong with a varint, and with a region, in what remains.        *)
LEMMA VarintErrors ==
  ASSUME input \in Seq(Byte), NEW p \in 0 .. Len(input), NEW extra
  PROVE  /\ VarintAt(p).error \in ReadErrors
         /\ CappedVarint(p, extra).error \in ReadErrors
         /\ LengthDelimitedAt(p, extra).error \in ReadErrors
<1> DEFINE rest == SubSeq(input, p + 1, Len(input))
           v == DecodeVarint(rest)
<1>1. rest \in Seq(Byte)
  <2>1. Len(input) \in Nat
    BY LenProperties
  <2>2. p + 1 \in Nat \ {0} /\ p + 1 >= 1 /\ Len(input) \in 0 .. Len(input)
    BY <2>1
  <2>3. QED
    BY <2>1, <2>2
<1>2. "error" \in DOMAIN v /\ v.error \in ReadErrors
  <2> HIDE DEF rest
  <2>1. v.error \in ReadErrors
    BY <1>1, DecodeTypes DEF ReadErrors
  <2>2. "error" \in DOMAIN v
    BY DEF DecodeVarint
  <2>3. QED
    BY <2>1, <2>2
<1>3. VarintAt(p) = v
  BY DEF VarintAt
<1> HIDE DEF v
<1>4. [v EXCEPT !.error = "Truncated"].error = "Truncated"
  BY <1>2
<1>5. CappedVarint(p, extra).error \in ReadErrors
  BY <1>2, <1>3, <1>4 DEF CappedVarint, ReadErrors
<1>6. LengthDelimitedAt(p, extra).error \in ReadErrors
  BY <1>2, <1>3 DEF LengthDelimitedAt, ReadErrors
<1>7. QED
  BY <1>2, <1>3, <1>5, <1>6

(* ... with the key of the next field, and with the region behind it.      *)
LEMMA KeyErrors ==
  ASSUME CapInv
  PROVE  /\ Key.error \in ReadErrors \cup {"TagOverflowed"}
         /\ LengthDelimitedAt(pos + Key.used, Top.extra).error \in ReadErrors
         /\ LengthDelimitedAt(pos, Top.extra).error \in ReadErrors
         /\ CappedVarint(pos, Top.extra).error \in ReadErrors
<1>1. input \in Seq(Byte) /\ pos \in 0 .. Len(input)
  BY DEF CapInv, StaysInBuffer
<1>2. CappedVarint(pos, Top.extra).error \in ReadErrors
  BY <1>1, VarintErrors
<1>3. Key.error \in ReadErrors \cup {"TagOverflowed"}
  <2> DEFINE c == CappedVarint(pos, Top.extra)
  <2>1. Key.error = IF c.error # "none" THEN c.error
                    ELSE IF Key.tag >= TagLimit THEN "TagOverflowed" ELSE "none"
    BY DEF Key, KeyAt
  <2> HIDE DEF c
  <2>2. QED
    BY <1>2, <2>1 DEF ReadErrors, c
<1>4. LengthDelimitedAt(pos, Top.extra).error \in ReadErrors
  BY <1>1, VarintErrors
<1> DEFINE p == pos + Key.used
<1>5. p \in 0 .. Len(input)
  BY <1>1, KeyStays
<1> HIDE DEF p
<1>6. LengthDelimitedAt(p, Top.extra).error \in ReadErrors
  BY <1>1, <1>5, VarintErrors
<1>7. QED
  BY <1>2, <1>3, <1>4, <1>6 DEF p

(* ... and with a canonicity.                                              *)
LEMMA CheckErrors ==
  ASSUME NEW canon, NEW min
  PROVE  CheckError(canon, min) \in Fates
BY DEF CheckError, Errors, Fates

(* An error a step may end with.                                           *)
LEMMA FailsWith ==
  ASSUME NEW kind \in Fates, Fail(kind)
  PROVE  GoesOn
BY DEF Fail, GoesOn

(* The errors of reading are errors.                                       *)
LEMMA ReadErrorsAre == ReadErrors \cup {"TagOverflowed"} \subseteq Fates
BY DEF ReadErrors, Errors, Fates

(* A step goes on, fails, or ends the message that was to be decoded.      *)
LEMMA StepOutcome ==
  ASSUME IInv, CapInv, Step, outcome = "none"
  PROVE  GoesOn \/ Ended
<1>1. CASE UNCHANGED outcome
  BY <1>1 DEF GoesOn, Fates
<1>2. ASSUME NEW kind \in Fates, Fail(kind)
      PROVE  GoesOn
  BY <1>2, FailsWith
<1>3. Key.error \in Fates
  BY KeyErrors, ReadErrorsAre
<1>4. /\ LengthDelimitedAt(pos + Key.used, Top.extra).error \in Fates
      /\ LengthDelimitedAt(pos, Top.extra).error \in Fates
      /\ CappedVarint(pos, Top.extra).error \in Fates
  BY KeyErrors, ReadErrorsAre
<1>5. {"Truncated", "UnexpectedlyRepeated", "ConflictingFields", "WrongWireType",
       "RecursionLimitReached"} \subseteq Fates
  BY DEF Errors, Fates
<1>6. CASE OverCap
  BY <1>2, <1>5, <1>6 DEF OverCap
<1>7. CASE BadKey
  BY <1>2, <1>3, <1>7 DEF BadKey
<1>8. CASE RepeatedField \/ ConflictingField
  BY <1>2, <1>5, <1>8 DEF RepeatedField, ConflictingField
<1>9. CASE ForeignCollection
  BY <1>2, <1>9, CheckErrors DEF ForeignCollection
<1>10. CASE MessageEnd
  <2>1. CASE Below = <<>>
    BY <1>10, <2>1 DEF MessageEnd, Ended
  <2>2. CASE Below # <<>>
    BY <1>10, <1>1, <2>2 DEF MessageEnd
  <2>3. QED
    BY <2>1, <2>2
<1>11. CASE UnknownField
  BY <1>1, <1>2, <1>11, CheckErrors DEF UnknownField
<1>12. CASE SingleField
  BY <1>1, <1>2, <1>5, <1>12 DEF SingleField
<1>13. CASE StructVariant
  BY <1>1, <1>2, <1>4, <1>5, <1>13 DEF StructVariant
<1>14. CASE PackedCollection
  BY <1>1, <1>2, <1>4, <1>5, <1>14 DEF PackedCollection
<1>15. CASE UnpackedCollection
  BY <1>1, <1>2, <1>5, <1>15 DEF UnpackedCollection
<1>16. ASSUME NEW value, NEW empty, NEW next, ReturnsScalar(value, empty, next)
       PROVE  GoesOn \/ Ended
  BY <1>1, <1>2, <1>16, CheckErrors DEF ReturnsScalar
<1>17. CASE VarintValue
  BY <1>2, <1>4, <1>16, <1>17 DEF VarintValue
<1>18. CASE FixedValue
  BY <1>2, <1>5, <1>16, <1>18 DEF FixedValue
<1>19. CASE MessageValue
  BY <1>1, <1>2, <1>4, <1>5, <1>19, CheckErrors DEF MessageValue
<1>20. CASE PackedItem \/ PackedEnd
  BY <1>1, <1>2, <1>20, CheckErrors DEF PackedItem, PackedEnd
<1>21. CASE UnpackedItem \/ UnpackedEnd
  BY <1>1, <1>2, <1>5, <1>21 DEF UnpackedItem, UnpackedEnd
<1>22. CASE SkipValue
  BY <1>1, <1>2, <1>4, <1>5, <1>22 DEF SkipValue
<1>23. QED
  BY <1>6, <1>7, <1>8, <1>9, <1>10, <1>11, <1>12, <1>13, <1>14, <1>15, <1>17, <1>18,
     <1>19, <1>20, <1>21, <1>22 DEF Step

-----------------------------------------------------------------------------
(* The calls of the public API.  The invariant says what each call has     *)
(* done, and of the one that is made, how its region lies in the caller's  *)
(* buffer, that its decoder is well, and what has become of the message.   *)

(* What a read and a write have done, by their results.                    *)
GoodRead(r) ==
  /\ r.error # "none" =>
       r.after = IF r.call.op = "decode" \/ ~GoodDelimiter(r) THEN r.before
                 ELSE Cleared
  /\ GoodDelimiter(r) /\ (r.error = "none" \/ r.call.borrowed) =>
       r.to = IF r.call.delimited \/ ~r.call.borrowed THEN EndsAt(r) ELSE r.from

GoodWrite(r) ==
  LET fits == r.call.way = "into" => Len(Whole(r.call)) <= r.call.room
  IN /\ r.error = IF fits THEN "none" ELSE "Insufficient"
     /\ r.after = IF fits THEN r.before \o Whole(r.call) ELSE r.before

GoodResult(r) == IF r.call.op # "encode" THEN GoodRead(r) ELSE GoodWrite(r)

AllGood(s) == IsStack(s) /\ \A i \in 1 .. Len(s) : GoodResult(s[i])

(* The read that is made, as its result will tell of it.                   *)
Made == [call |-> Call1, bytes |-> entry.input, from |-> entry.pos]

(* Its region ends where the delimiter says: by the root's cap in the      *)
(* caller's buffer, or as the slice that was cut out of it.                *)
RegionKept ==
  /\ GoodDelimiter(Made)
  /\ entry.input \in Seq(Byte)
  /\ entry.pos \in 0 .. Len(entry.input)
  /\ IF Call1.borrowed
     THEN /\ entry.next = (IF Call1.delimited THEN EndsAt(Made) ELSE entry.pos)
          /\ entry.next \in 0 .. Len(entry.input)
     ELSE input = entry.input /\ Len(input) - stack[1].extra = EndsAt(Made)

(* The message meanwhile: as it was, or cleared if it is to be replaced.   *)
HeldInCall == IF Call1.op = "decode" THEN entry.held ELSE Cleared

(* A read that is made.                                                    *)
InCall ==
  /\ script # <<>> /\ Call1 \in ReadCalls
  /\ IInv /\ CapInv
  /\ stack[1].min = Minimum(Call1)
  /\ held = HeldInCall
  /\ RegionKept
  /\ outcome \in Fates \cup {"ok"}
  /\ outcome = "ok" => Len(stack) = 1 /\ Remaining(pos) = stack[1].extra

(* The calls that are left.                                                *)
Scripted == type \in DOMAIN Messages /\ script \in Seq(ApiCalls(type))

(* The inductive invariant.                                                *)
ApiInv ==
  /\ Scripted
  /\ AllGood(results)
  /\ outcome = "idle" => input \in Seq(Byte) /\ pos \in 0 .. Len(input)
  /\ outcome # "idle" => InCall

(* What the calls of the API are asked for.                                *)
LEMMA ReadCallsAre ==
  ASSUME NEW call \in ReadCalls
  PROVE  /\ call.op \in {"decode", "replace"}
         /\ call.borrowed \in BOOLEAN /\ call.delimited \in BOOLEAN
         /\ Minimum(call) \in Relaxed .. Canonical
<1> DEFINE Restricted == UNION {ReadAs(FALSE, "restricted", min) :
                                  min \in {NotCanonical, HasExtensions, Canonical}}
           Modes == {"relaxed", "distinguished", "restricted", "canonical"}
           All == [op : {"decode", "replace"}, borrowed : BOOLEAN, delimited : BOOLEAN,
                   mode : Modes, min : Relaxed .. Canonical]
<1>1. {NotCanonical, HasExtensions, Canonical, Relaxed} \subseteq Relaxed .. Canonical
  BY DEF NotCanonical, HasExtensions, Canonical, Relaxed
<1>2. \A borrowed \in BOOLEAN : \A mode \in Modes : \A min \in Relaxed .. Canonical :
        ReadAs(borrowed, mode, min) \subseteq All
  BY DEF ReadAs
<1> HIDE DEF All
<1>3. OwnedCalls \cup DistinguishedCalls \cup CanonicalCalls \cup BorrowedCalls
        \cup RestrictedCalls \subseteq All
  BY <1>1, <1>2 DEF OwnedCalls, DistinguishedCalls, CanonicalCalls, BorrowedCalls,
     RestrictedCalls
<1>4. DistinguishedBorrowedCalls \subseteq All
  <2>1. \A c \in All : [c EXCEPT !.borrowed = TRUE] \in All
    BY DEF All
  <2>2. QED
    BY <1>3, <2>1 DEF DistinguishedBorrowedCalls
<1>5. call \in All
  BY <1>3, <1>4 DEF ReadCalls
<1>6. /\ call.op \in {"decode", "replace"} /\ call.borrowed \in BOOLEAN
      /\ call.delimited \in BOOLEAN /\ call.min \in Relaxed .. Canonical
  BY <1>5 DEF All
<1>7. Minimum(call) \in Relaxed .. Canonical
  BY <1>1, <1>6 DEF Minimum, DistinguishedMinimum, CanonicalMinimum
<1>8. QED
  BY <1>6, <1>7

(* A call that is made is one of them, a write of a value that has an      *)
(* encoding, or the caller's own.                                          *)
LEMMA CallIs ==
  ASSUME Scripted, script # <<>>
  PROVE  /\ Call1.op = "encode" =>
              /\ Call1.way \in Ways /\ Call1.room \in Nat /\ Call1.delimited \in BOOLEAN
              /\ Call1.value \in MessageValues[type]
         /\ Call1.op \in {"decode", "replace"} => Call1 \in ReadCalls
         /\ Tail(script) \in Seq(ApiCalls(type))
<1>1. Call1 \in ApiCalls(type) /\ Tail(script) \in Seq(ApiCalls(type))
  BY DEF Scripted, Call1
<1>2. Call1 \in ReadCalls => Call1.op \in {"decode", "replace"}
  BY ReadCallsAre
<1>3. RewindCall.op = "rewind"
  BY DEF RewindCall
<1>4. Call1 \in WriteCalls(type) =>
        /\ Call1.op = "encode" /\ Call1.way \in Ways /\ Call1.room \in Nat
        /\ Call1.delimited \in BOOLEAN /\ Call1.value \in MessageValues[type]
  BY DEF WriteCalls
<1>5. QED
  BY <1>1, <1>2, <1>3, <1>4 DEF ApiCalls

(* One more result that is as it should be.                                *)
LEMMA AppendGood ==
  ASSUME NEW s, AllGood(s), NEW r, GoodResult(r)
  PROVE  AllGood(Append(s, r))
<1> DEFINE n == Len(s)
           t == Append(s, r)
<1>1. n \in Nat
  BY EmptyStack DEF AllGood
<1>2. PICK S : s \in Seq(S) /\ r \in S
  <2> DEFINE S == {s[i] : i \in 1 .. n} \cup {r}
  <2>1. s \in [1 .. n -> S]
    BY DEF AllGood, IsStack
  <2>2. s \in Seq(S) /\ r \in S
    BY <1>1, <2>1, SeqDef
  <2>3. QED
    BY <2>2
<1>3. /\ t \in Seq(S) /\ Len(t) = n + 1
      /\ t[n + 1] = r /\ \A i \in 1 .. n : t[i] = s[i]
  BY <1>2, AppendProperties
<1>4. IsStack(t)
  BY FirstStays DEF AllGood
<1> HIDE DEF t
<1>5. ASSUME NEW i \in 1 .. n + 1
      PROVE  GoodResult(t[i])
  <2>1. i \in 1 .. n \/ i = n + 1
    BY <1>1
  <2>2. QED
    BY <1>3, <2>1 DEF AllGood
<1>6. QED
  BY <1>3, <1>4, <1>5 DEF AllGood, t

-----------------------------------------------------------------------------
(* Writing.                                                                *)

(* Of the encoding of a value, with its delimiter or without, its length   *)
(* is measured; and all the calls write the same bytes.                    *)
LEMMA Writes1 ==
  ASSUME Scripted, script # <<>>, Call1.op = "encode"
  PROVE  LET len == RawEncodedLen(type, Call1.value)
             bytes == RawPrepend(type, Call1.value)
             W == Whole(Call1)
         IN /\ W \in Seq(Byte) /\ Len(W) \in Nat
            /\ Forward = W /\ Required = Len(W)
            /\ W = IF Call1.delimited THEN EncodeVarint(len) \o bytes ELSE bytes
            /\ W = IF Call1.delimited THEN EncodeVarint(Len(bytes)) \o bytes ELSE bytes
<1> DEFINE len == RawEncodedLen(type, Call1.value)
           bytes == RawEncode(type, Call1.value)
<1>1. /\ Call1.delimited \in BOOLEAN /\ type \in DOMAIN Messages
      /\ Call1.value \in MessageValues[type]
  BY CallIs DEF Scripted
<1>2. /\ bytes \in Seq(Byte) /\ RawPrepend(type, Call1.value) = bytes
      /\ len = Len(bytes) /\ len < VarintRange
  BY <1>1, MessageApiAssumption
<1>3. len \in 0 .. VarintRange - 1
  <2>1. len \in Nat /\ VarintRange \in Nat \ {0}
    BY <1>2, LenProperties, RangeFacts
  <2> HIDE DEF len
  <2>2. QED
    BY <1>2, <2>1
<1> DEFINE front == EncodeVarint(len)
           vlen == EncodedLenVarint(len)
<1> HIDE DEF len, bytes
<1>4. front \in Seq(Byte) /\ Len(front) = vlen /\ vlen \in Nat
  <2>1. vlen \in Nat
    BY <1>3, LengthIs
  <2>2. QED
    BY <1>3, <2>1, EncodedBytes
<1>5. /\ Whole(Call1) = (IF Call1.delimited THEN EncodeVarint(Len(bytes)) \o bytes
                         ELSE bytes)
      /\ Forward = (IF Call1.delimited THEN front \o bytes ELSE bytes)
      /\ Required = (IF Call1.delimited THEN vlen + len ELSE len)
  BY DEF Whole, Forward, Required, len, bytes
<1>6. EncodeVarint(Len(bytes)) = front
  BY <1>2
<1> HIDE DEF front, vlen
<1>7. /\ front \o bytes \in Seq(Byte)
      /\ Len(front \o bytes) = vlen + len
      /\ Len(bytes) \in Nat /\ Len(front \o bytes) \in Nat
  <2>1. bytes \in Seq(Byte) /\ front \in Seq(Byte)
    BY <1>2, <1>4
  <2>2. /\ front \o bytes \in Seq(Byte) /\ Len(front \o bytes) = Len(front) + Len(bytes)
        /\ Len(bytes) \in Nat /\ Len(front) \in Nat
    BY <2>1, ConcatProperties, LenProperties
  <2>3. QED
    BY <1>2, <1>4, <2>2
<1>8. QED
  BY <1>2, <1>5, <1>6, <1>7 DEF front, len, bytes

(* The invariant, in what a step leaves.                                   *)
LEMMA PrimedGood ==
  ASSUME AllGood(results'), UNCHANGED type
  PROVE  AllGood(results)'
BY DEF AllGood, IsStack, GoodResult, GoodRead, GoodWrite, Whole, GoodDelimiter, EndsAt,
   Delimiter, Before, Cleared

(* Between two calls there is nothing but the buffer.                      *)
LEMMA IdleKeeps ==
  ASSUME ApiInv, UNCHANGED type, script' \in Seq(ApiCalls(type)), AllGood(results'),
         outcome' = "idle", input' \in Seq(Byte), pos' \in 0 .. Len(input')
  PROVE  ApiInv'
<1>1. Scripted'
  BY DEF ApiInv, Scripted, ApiCalls, WriteCalls
<1>2. AllGood(results)'
  BY PrimedGood
<1>3. QED
  BY <1>1, <1>2 DEF ApiInv

(* A write that did as it should.                                          *)
LEMMA WroteKeeps ==
  ASSUME ApiInv, Calling("encode"), NEW error, NEW bytes \in Seq(Byte),
         Wrote(error, bytes),
         LET fits == Call1.way = "into" => Len(Whole(Call1)) <= Call1.room
         IN /\ error = IF fits THEN "none" ELSE "Insufficient"
            /\ bytes = IF fits THEN Whole(Call1) ELSE <<>>
  PROVE  ApiInv'
<1> DEFINE r == [call |-> Call1, error |-> error, before |-> input,
                 after |-> input \o bytes]
<1>1. /\ input \in Seq(Byte) /\ pos \in 0 .. Len(input) /\ AllGood(results)
      /\ Scripted /\ script # <<>> /\ Call1.op = "encode"
  BY DEF ApiInv, Calling
<1>2. /\ input \o bytes \in Seq(Byte) /\ input \o <<>> = input
      /\ Len(input \o bytes) = Len(input) + Len(bytes)
      /\ Len(bytes) \in Nat /\ Len(input) \in Nat
  BY <1>1, ConcatProperties, LenProperties, ConcatEmptySeq
<1>3. pos \in 0 .. Len(input \o bytes)
  BY <1>1, <1>2
<1>4. GoodResult(r)
  <2>1. GoodWrite(r)
    BY <1>2 DEF GoodWrite
  <2>2. r.call.op = "encode"
    BY <1>1
  <2> HIDE DEF r
  <2>3. QED
    BY <2>1, <2>2 DEF GoodResult
<1>5. results' = Append(results, r) /\ script' = Tail(script) /\ input' = input \o bytes
      /\ UNCHANGED <<type, pos, outcome>>
  BY DEF Wrote
<1> HIDE DEF r
<1>6. AllGood(results')
  BY <1>1, <1>4, <1>5, AppendGood
<1>7. script' \in Seq(ApiCalls(type)) /\ outcome' = "idle"
  BY <1>1, <1>5, CallIs DEF Calling
<1>8. QED
  BY <1>2, <1>3, <1>5, <1>6, <1>7, IdleKeeps

(* Each way to write does.                                                 *)
LEMMA WritesKeep ==
  ASSUME ApiInv, EncodeInto \/ EncodeToVec \/ EncodeFast \/ EncodeContiguous
  PROVE  ApiInv'
<1> DEFINE len == RawEncodedLen(type, Call1.value)
           bytes == RawPrepend(type, Call1.value)
           W == Whole(Call1)
<1>1. Calling("encode") /\ Scripted /\ script # <<>> /\ Call1.op = "encode"
  BY DEF EncodeInto, EncodeToVec, EncodeFast, EncodeContiguous, ApiInv, Calling
<1>2. /\ W \in Seq(Byte) /\ Len(W) \in Nat /\ Forward = W /\ Required = Len(W)
      /\ W = IF Call1.delimited THEN EncodeVarint(len) \o bytes ELSE bytes
      /\ W = IF Call1.delimited THEN EncodeVarint(Len(bytes)) \o bytes ELSE bytes
  BY <1>1, Writes1
<1>3. <<>> \in Seq(Byte) /\ Call1.room \in Nat
  BY <1>1, CallIs
<1> HIDE DEF len, bytes, W
<1>4. CASE EncodeInto
  <2>1. Call1.way = "into"
    BY <1>4 DEF EncodeInto
  <2>2. CASE Len(W) > Call1.room
    <3>1. Wrote("Insufficient", <<>>) /\ ~(Len(W) <= Call1.room)
      BY <1>2, <1>3, <1>4, <2>2 DEF EncodeInto
    <3>2. QED
      BY <1>1, <1>3, <2>1, <3>1, WroteKeeps DEF W
  <2>3. CASE ~(Len(W) > Call1.room)
    <3>1. Wrote("none", W) /\ Len(W) <= Call1.room
      BY <1>2, <1>3, <1>4, <2>3 DEF EncodeInto
    <3>2. QED
      BY <1>1, <1>2, <3>1, WroteKeeps DEF W
  <2>4. QED
    BY <2>2, <2>3
<1>5. CASE EncodeToVec
  <2>1. Wrote("none", W) /\ Call1.way # "into"
    BY <1>2, <1>5 DEF EncodeToVec
  <2>2. QED
    BY <1>1, <1>2, <2>1, WroteKeeps DEF W
<1>6. CASE EncodeFast
  <2>1. Wrote("none", W) /\ Call1.way # "into"
    BY <1>2, <1>6 DEF EncodeFast, bytes
  <2>2. QED
    BY <1>1, <1>2, <2>1, WroteKeeps DEF W
<1>7. CASE EncodeContiguous
  <2>1. Wrote("none", W) /\ Call1.way # "into"
    BY <1>2, <1>7 DEF EncodeContiguous, bytes, len
  <2>2. QED
    BY <1>1, <1>2, <2>1, WroteKeeps DEF W
<1>8. QED
  BY <1>4, <1>5, <1>6, <1>7

-----------------------------------------------------------------------------
(* Reading: the region.                                                    *)

(* The region of a delimited call is what its delimiter says, if it is     *)
(* there; of another, all of the buffer.                                   *)
LEMMA RegionIs ==
  ASSUME input \in Seq(Byte), pos \in 0 .. Len(input), Call1.delimited \in BOOLEAN,
         NEW r, r.bytes = input, r.from = pos, r.call = Call1
  PROVE  /\ Region.error = "none" <=> GoodDelimiter(r)
         /\ Region.begin \in 0 .. Len(input)
         /\ Region.error = "none" =>
              /\ Region.extra \in 0 .. Len(input)
              /\ Region.begin <= Len(input) - Region.extra
              /\ Len(input) - Region.extra = EndsAt(r)
<1> DEFINE v == VarintAt(pos)
           n == Len(input)
<1>1. n \in Nat /\ pos \in 0 .. n
  BY LenProperties
<1>2. v.value \in Nat /\ v.used \in 0 .. n - pos /\ v.error \in ReadErrors
  BY VarintStays, VarintErrors
<1>3. Delimiter(r) = v
  BY DEF Delimiter, Before, VarintAt
<1>4. CASE ~Call1.delimited
  <2>1. /\ Region.error = "none" /\ Region.begin = pos /\ Region.extra = 0
        /\ GoodDelimiter(r) /\ EndsAt(r) = n
    BY <1>4 DEF Region, GoodDelimiter, EndsAt
  <2> HIDE DEF n
  <2>2. QED
    BY <1>1, <2>1 DEF n
<1>5. CASE Call1.delimited
  <2> DEFINE begin == pos + v.used
             left == n - begin
  <2>1. /\ Region.error = (IF v.error # "none" THEN v.error
                           ELSE IF v.value > left \/ left - v.value < 0 THEN "Truncated"
                           ELSE "none")
        /\ Region.begin = begin /\ Region.extra = left - v.value
    BY <1>5 DEF Region, LengthDelimitedAt, Remaining
  <2>2. EndsAt(r) = pos + v.used + v.value
        /\ (GoodDelimiter(r) <=> v.error = "none" /\ EndsAt(r) <= n)
    BY <1>3, <1>5 DEF EndsAt, GoodDelimiter
  <2> HIDE DEF v, n
  <2>3. begin \in 0 .. n /\ left \in 0 .. n /\ left = n - (pos + v.used)
    BY <1>1, <1>2
  <2>4. v.value > left \/ left - v.value < 0 <=> ~(pos + v.used + v.value <= n)
    BY <1>1, <1>2, <2>3
  <2>5. Region.error = "none" <=> GoodDelimiter(r)
    BY <2>1, <2>2, <2>4
  <2>6. ASSUME Region.error = "none"
        PROVE  /\ Region.extra \in 0 .. n /\ Region.begin <= n - Region.extra
               /\ n - Region.extra = EndsAt(r)
    <3>1. v.value <= left
      BY <1>2, <2>1, <2>3, <2>6
    <3>2. left - v.value \in 0 .. n
      BY <1>1, <1>2, <2>3, <3>1, SMTT(30)
    <3>3. n - (left - v.value) = pos + v.used + v.value /\ begin <= n - (left - v.value)
      BY <1>1, <1>2, <2>3, <3>1
    <3>4. QED
      BY <2>1, <2>2, <3>2, <3>3
  <2>7. QED
    BY <2>1, <2>3, <2>5, <2>6 DEF n
<1>6. QED
  BY <1>4, <1>5

(* A call whose delimiter is at fault leaves the message as it is.         *)
LEMMA BadDelimiterKeeps ==
  ASSUME ApiInv, BadDelimiter
  PROVE  ApiInv'
<1> DEFINE r == [call |-> Call1, error |-> Region.error, canon |-> Relaxed,
                 bytes |-> input, from |-> pos, to |-> Region.begin, before |-> held,
                 after |-> held]
<1>1. /\ outcome = "idle" /\ script # <<>> /\ Call1.op \in {"decode", "replace"}
      /\ Region.error # "none"
      /\ results' = Append(results, r) /\ script' = Tail(script)
      /\ pos' = Region.begin
      /\ UNCHANGED <<type, input, outcome>>
  BY DEF BadDelimiter, Calling
<1>2. /\ input \in Seq(Byte) /\ pos \in 0 .. Len(input) /\ AllGood(results) /\ Scripted
  BY <1>1 DEF ApiInv
<1>3. Call1 \in ReadCalls /\ script' \in Seq(ApiCalls(type))
  BY <1>1, <1>2, CallIs
<1>4. Call1.delimited \in BOOLEAN
  BY <1>3, ReadCallsAre
<1>5. r.bytes = input /\ r.from = pos /\ r.call = Call1 /\ r.after = r.before
  OBVIOUS
<1> HIDE DEF r
<1>6. ~GoodDelimiter(r) /\ Region.begin \in 0 .. Len(input)
  BY <1>1, <1>2, <1>4, <1>5, RegionIs
<1>7. GoodResult(r)
  BY <1>1, <1>5, <1>6 DEF GoodResult, GoodRead
<1>8. AllGood(results')
  BY <1>1, <1>2, <1>7, AppendGood
<1>9. QED
  BY <1>1, <1>2, <1>3, <1>6, <1>8, IdleKeeps

(* The decoder of a call starts well, whatever is left behind its region   *)
(* and whatever the minimum is.                                            *)
LEMMA EntersWell ==
  ASSUME input' \in Seq(Byte), pos' \in 0 .. Len(input'), NEW t,
         NEW extra \in 0 .. Len(input'), NEW min \in Relaxed .. Canonical,
         stack' = <<MessageFrame(t, extra, min, RecursionLimit)>>
  PROVE  /\ IInv' /\ CapInv'
         /\ stack'[1].min = min /\ stack'[1].extra = extra
<1> DEFINE f == MessageFrame(t, extra, min, RecursionLimit)
<1>1. RecursionLimit \in Nat
  BY DecoderAssumption
<1>2. /\ f.at = "message" /\ f.min = min /\ f.depth = RecursionLimit
      /\ f.canon = Canonical /\ f.extra = extra
      /\ {"at", "min", "depth", "canon", "value", "extra"} \subseteq DOMAIN f
  BY DEF MessageFrame, LoopFrame
<1>3. stack' = <<f>> /\ stack' = Append(<<>>, f)
  OBVIOUS
<1> HIDE DEF f
<1>4. Canonical \in NotCanonical .. Canonical /\ Canonical >= min
  BY CanonicityOrder, Zenon
<1>5. WellFormed(f) /\ IsRoot(f)
  BY <1>1, <1>2, <1>4 DEF WellFormed, HasCanon, Loops, IsRoot
<1>6. GoodStack(<<>>)
  BY DEF GoodStack, IsStack
<1>7. GoodStack(Append(<<>>, f)) /\ Append(<<>>, f) # <<>>
  BY <1>5, <1>6, PushKeeps
<1>8. IInv'
  BY <1>3, <1>7, PrimedInvariant
<1>9. stack'[1] = f /\ Len(stack') = 1
  BY <1>3
<1>10. IsStack(stack')
  BY <1>3, <1>7 DEF GoodStack
<1>11. /\ \A i \in 1 .. Len(stack') :
            "extra" \in DOMAIN stack'[i] /\ stack'[i].extra \in 0 .. Len(input')
       /\ \A i, j \in 1 .. Len(stack') : i <= j => stack'[i].extra <= stack'[j].extra
  <2>1. \A i \in 1 .. Len(stack') : i = 1
    BY <1>9
  <2>2. extra \in Int /\ extra <= extra
    BY LenProperties
  <2>3. QED
    BY <1>2, <1>9, <2>1, <2>2
<1>12. CapInv'
  BY <1>10, <1>11 DEF CapInv, StaysInBuffer, Capped, IsStack
<1>13. QED
  BY <1>2, <1>8, <1>9, <1>12

(* A call that is entered.                                                 *)
LEMMA EnteredKeeps ==
  ASSUME ApiInv, outcome = "idle", script # <<>>, Call1 \in ReadCalls,
         Region.error = "none", NEW message, Enter(message),
         message = (IF Call1.op = "decode" THEN held ELSE Cleared),
         (EnterOwned(message) /\ ~Call1.borrowed)
           \/ (EnterBorrowed(message) /\ Call1.borrowed)
  PROVE  ApiInv'
<1> DEFINE r == [call |-> Call1, bytes |-> input, from |-> pos]
           n == Len(input)
<1>1. /\ input \in Seq(Byte) /\ pos \in 0 .. n /\ AllGood(results) /\ Scripted
      /\ n \in Nat
  BY LenProperties DEF ApiInv
<1>2. /\ Call1.op \in {"decode", "replace"} /\ Call1.borrowed \in BOOLEAN
      /\ Call1.delimited \in BOOLEAN /\ Minimum(Call1) \in Relaxed .. Canonical
  BY ReadCallsAre
<1>3. r.bytes = input /\ r.from = pos /\ r.call = Call1
  OBVIOUS
<1>4. /\ GoodDelimiter(r) /\ Region.begin \in 0 .. n
      /\ Region.extra \in 0 .. n /\ Region.begin <= n - Region.extra
      /\ n - Region.extra = EndsAt(r)
  <2> HIDE DEF r
  <2> QED
    BY <1>1, <1>2, <1>3, RegionIs
<1>5. /\ entry'.input = input /\ entry'.pos = pos /\ entry'.held = held
      /\ entry'.next = (IF Call1.delimited THEN n - Region.extra ELSE pos)
      /\ held' = message /\ outcome' = "none" /\ UNCHANGED <<type, script, results>>
  BY DEF Enter
<1>6. Call1' = Call1 /\ Made' = r
  BY <1>5 DEF Made, Call1
<1>7. CASE EnterOwned(message) /\ ~Call1.borrowed
  <2>1. /\ pos' = Region.begin /\ UNCHANGED input
        /\ stack' = <<MessageFrame(type, Region.extra, Minimum(Call1), RecursionLimit)>>
    BY <1>7 DEF EnterOwned
  <2>2. /\ IInv' /\ CapInv'
        /\ stack'[1].min = Minimum(Call1) /\ stack'[1].extra = Region.extra
    BY <1>1, <1>2, <1>4, <2>1, EntersWell
  <2>3. RegionKept'
    <3> HIDE DEF r
    <3> QED
      BY <1>1, <1>4, <1>5, <1>6, <1>7, <2>1, <2>2 DEF RegionKept, GoodDelimiter, EndsAt
  <2>4. QED
    <3> HIDE DEF r, n
    <3>1. InCall'
      BY <1>2, <1>5, <1>6, <2>2, <2>3 DEF InCall, HeldInCall, Fates, Cleared, Minimum
    <3>2. Scripted' /\ AllGood(results)'
      BY <1>1, <1>5, PrimedGood DEF Scripted, ApiCalls, WriteCalls
    <3>3. QED
      BY <1>5, <3>1, <3>2 DEF ApiInv
<1>8. CASE EnterBorrowed(message) /\ Call1.borrowed
  <2> DEFINE slice == SubSeq(input, Region.begin + 1, n - Region.extra)
  <2>1. /\ pos' = 0 /\ input' = slice
        /\ stack' = <<MessageFrame(type, 0, Minimum(Call1), RecursionLimit)>>
    BY <1>8 DEF EnterBorrowed
  <2>2. slice \in Seq(Byte) /\ Len(slice) \in Nat
    <3> DEFINE a == Region.begin + 1
               b == n - Region.extra
    <3>1. a \in Nat \ {0} /\ b \in 0 .. n
      <4> HIDE DEF n
      <4> QED
        BY <1>1, <1>4
    <3> HIDE DEF a, b
    <3>2. SubSeq(input, a, b) \in Seq(Byte)
      BY <1>1, <3>1
    <3>3. QED
      BY <3>2, LenProperties DEF a, b
  <2> HIDE DEF slice
  <2>3. pos' \in 0 .. Len(input') /\ 0 \in 0 .. Len(input')
    BY <2>1, <2>2
  <2>4. IInv' /\ CapInv' /\ stack'[1].min = Minimum(Call1)
    BY <1>2, <2>1, <2>2, <2>3, EntersWell
  <2>5. n - Region.extra \in 0 .. n
    <3> HIDE DEF n
    <3> QED
      BY <1>1, <1>4
  <2>6. RegionKept'
    <3> HIDE DEF r
    <3> QED
      BY <1>1, <1>4, <1>5, <1>6, <1>8, <2>5 DEF RegionKept, GoodDelimiter, EndsAt
  <2>7. QED
    <3> HIDE DEF r, n
    <3>1. InCall'
      BY <1>2, <1>5, <1>6, <2>4, <2>6 DEF InCall, HeldInCall, Fates, Cleared, Minimum
    <3>2. Scripted' /\ AllGood(results)'
      BY <1>1, <1>5, PrimedGood DEF Scripted, ApiCalls, WriteCalls
    <3>3. QED
      BY <1>5, <3>1, <3>2 DEF ApiInv
<1>9. QED
  BY <1>7, <1>8

(* Each of the four ways a read is entered.                                *)
LEMMA EntersKeep ==
  ASSUME ApiInv, Decode \/ Replace \/ DecodeBorrowed \/ ReplaceBorrowed
  PROVE  ApiInv'
<1>1. /\ outcome = "idle" /\ script # <<>> /\ Call1.op \in {"decode", "replace"}
  BY DEF Decode, Replace, DecodeBorrowed, ReplaceBorrowed, Reading, Calling
<1>2. Call1 \in ReadCalls
  BY <1>1, CallIs DEF ApiInv
<1>3. Call1.borrowed \in BOOLEAN
  BY <1>2, ReadCallsAre
<1>4. PICK message : /\ message = (IF Call1.op = "decode" THEN held ELSE Cleared)
                     /\ \/ EnterOwned(message) /\ ~Call1.borrowed
                        \/ EnterBorrowed(message) /\ Call1.borrowed
  BY <1>1 DEF Decode, Replace, DecodeBorrowed, ReplaceBorrowed, Reading, Calling
<1>5. Region.error = "none" /\ Enter(message)
  BY <1>4 DEF EnterOwned, EnterBorrowed
<1>6. QED
  BY <1>1, <1>2, <1>4, <1>5, EnteredKeeps

-----------------------------------------------------------------------------
(* Reading: the steps of the decoder, and what the call returns.           *)

(* A step of the decoder keeps the region of the call.                     *)
LEMMA MergingKeeps ==
  ASSUME ApiInv, Merging
  PROVE  ApiInv'
<1>1. outcome = "none" /\ Step /\ InCall /\ UNCHANGED apiVars
  BY DEF Merging, ApiInv
<1>2. IInv /\ CapInv /\ [Next]_vars
  BY <1>1 DEF InCall, Next
<1>3. IInv' /\ CapInv'
  BY <1>2, NextKeeps, NextCapped
<1>4. UNCHANGED input
  BY <1>1, <1>2, StepGoes DEF Goes
<1>5. stack'[1].min = stack[1].min /\ stack'[1].extra = stack[1].extra
  BY <1>1, <1>2, StepRooted, RootedKeeps DEF SameRoot
<1>6. /\ UNCHANGED <<type, script, held, entry, results>> /\ Call1' = Call1
      /\ Made' = Made
  BY <1>1 DEF apiVars, Made, Call1
<1>7. /\ outcome' \in Fates \cup {"ok"}
      /\ outcome' = "ok" => Len(stack') = 1 /\ Remaining(pos)' = stack'[1].extra
  <2>1. CASE GoesOn
    BY <2>1 DEF GoesOn, Fates, Errors
  <2>2. CASE Ended
    <3>1. /\ Below = <<>> /\ Remaining(pos) = Top.extra /\ outcome' = "ok"
          /\ UNCHANGED <<input, pos, stack>>
      BY <2>2 DEF Ended
    <3>2. Len(stack) \in Nat \ {0} /\ Len(Below) = Len(stack) - 1
      BY <1>2, PopKeeps DEF IInv, Below
    <3>3. Len(Below) = 0
      BY <3>1
    <3>4. Len(stack) = 1
      BY <3>2, <3>3
    <3>5. QED
      BY <3>1, <3>4 DEF Remaining, Top
  <2>3. QED
    BY <1>1, <1>2, <2>1, <2>2, StepOutcome
<1>8. RegionKept'
  BY <1>1, <1>4, <1>5, <1>6 DEF InCall, RegionKept, GoodDelimiter, EndsAt
<1>9. InCall'
  BY <1>1, <1>3, <1>5, <1>6, <1>7, <1>8 DEF InCall, HeldInCall, Cleared, Minimum, Fates
<1>10. Scripted' /\ AllGood(results)'
  BY <1>6, PrimedGood DEF ApiInv, Scripted, ApiCalls, WriteCalls
<1>11. outcome' # "idle"
  BY <1>7 DEF Fates, Errors
<1>12. QED
  BY <1>9, <1>10, <1>11 DEF ApiInv

(* The backstop: what merge_distinguished returns is never below the       *)
(* minimum, so that the check behind it has nothing to find.               *)
LEMMA NothingToFind ==
  ASSUME InCall, outcome = "ok"
  PROVE  CheckError(stack[1].canon, Minimum(Call1)) = "none"
<1>1. IInv /\ stack[1].min = Minimum(Call1)
  BY DEF InCall
<1>2. Len(stack) \in Nat \ {0}
  BY <1>1, PopKeeps DEF IInv
<1>3. WellFormed(stack[1]) /\ IsRoot(stack[1])
  <2>1. 1 \in 1 .. Len(stack)
    BY <1>2
  <2>2. QED
    BY <1>1, <2>1 DEF IInv, GoodStack
<1>4. stack[1].canon >= stack[1].min
  BY <1>3 DEF WellFormed, IsRoot, HasCanon, Loops
<1>5. QED
  BY <1>1, <1>4 DEF CheckError

(* What a call returns: of an error nothing that was decoded, and the      *)
(* buffer behind the region.                                               *)
LEMMA ReturnKeeps ==
  ASSUME ApiInv, outcome \notin {"none", "idle"}, NEW message, Return(Verdict, message),
         Verdict # "none" => message = HeldInCall
  PROVE  ApiInv'
<1> DEFINE r == [call |-> Call1, error |-> Verdict, canon |-> stack[1].canon,
                 bytes |-> entry.input, from |-> entry.pos, to |-> Advanced,
                 before |-> entry.held, after |-> message]
           n == Len(entry.input)
<1>1. InCall /\ AllGood(results) /\ Scripted
  BY DEF ApiInv
<1>2. /\ results' = Append(results, r) /\ script' = Tail(script)
      /\ input' = entry.input /\ pos' = Advanced /\ outcome' = "idle"
      /\ UNCHANGED type
  BY DEF Return
<1>3. /\ Call1.op \in {"decode", "replace"} /\ Call1.borrowed \in BOOLEAN
      /\ Call1.delimited \in BOOLEAN
  BY <1>1, ReadCallsAre DEF InCall
<1>4. script # <<>> /\ script' \in Seq(ApiCalls(type))
  BY <1>1, <1>2, CallIs DEF InCall
<1>5. GoodDelimiter(Made) /\ entry.input \in Seq(Byte) /\ n \in Nat
  BY <1>1, LenProperties DEF InCall, RegionKept
<1>6. Verdict = "none" => outcome = "ok"
  BY DEF Verdict
<1>7. Advanced \in 0 .. n
  BY <1>1 DEF InCall, RegionKept, Advanced, CapInv, StaysInBuffer
<1>8. /\ Call1.borrowed =>
           Advanced = IF Call1.delimited THEN EndsAt(Made) ELSE entry.pos
      /\ ~Call1.borrowed /\ Verdict = "none" => Advanced = EndsAt(Made)
  <2>1. CASE Call1.borrowed
    BY <1>1, <2>1 DEF InCall, RegionKept, Advanced
  <2>2. CASE ~Call1.borrowed /\ Verdict = "none"
    <3>1. /\ Remaining(pos) = stack[1].extra /\ pos \in 0 .. Len(input)
          /\ Len(input) - stack[1].extra = EndsAt(Made) /\ Advanced = pos
          /\ Len(input) \in Nat
      BY <1>1, <1>6, <2>2, LenProperties DEF InCall, RegionKept, Advanced, CapInv,
         StaysInBuffer
    <3>2. stack[1].extra = Len(input) - pos
      BY <3>1 DEF Remaining
    <3>3. QED
      BY <2>2, <3>1, <3>2
  <2>3. QED
    BY <2>1, <2>2
<1>9. /\ r.call = Call1 /\ r.error = Verdict /\ r.to = Advanced /\ r.from = entry.pos
      /\ r.bytes = entry.input /\ r.before = entry.held /\ r.after = message
  OBVIOUS
<1> HIDE DEF r, n
<1>10. EndsAt(r) = EndsAt(Made) /\ GoodDelimiter(r)
  BY <1>5, <1>9 DEF EndsAt, Delimiter, Before, Made, GoodDelimiter
<1>11. GoodResult(r)
  BY <1>3, <1>8, <1>9, <1>10 DEF GoodResult, GoodRead, HeldInCall
<1>12. AllGood(results')
  BY <1>1, <1>2, <1>11, AppendGood
<1>13. input' \in Seq(Byte) /\ pos' \in 0 .. Len(input')
  BY <1>2, <1>5, <1>7 DEF n
<1>14. QED
  BY <1>2, <1>4, <1>12, <1>13, IdleKeeps

(* The two kinds of call that return.                                      *)
LEMMA ReturnsKeep ==
  ASSUME ApiInv, DecodeReturns \/ ReplaceReturns
  PROVE  ApiInv'
<1>1. outcome \notin {"none", "idle"}
  BY DEF DecodeReturns, ReplaceReturns, Returning
<1>2. InCall
  BY <1>1 DEF ApiInv
<1>3. outcome = "ok" => Verdict = "none"
  BY <1>2, NothingToFind DEF Verdict
<1>4. CASE DecodeReturns
  <2>1. Call1.op = "decode" /\ held = HeldInCall
    BY <1>2, <1>4 DEF DecodeReturns, Returning, InCall
  <2> DEFINE message == IF Verdict = "none" THEN stack[1].value ELSE held
  <2>2. Return(Verdict, message)
    BY <1>4 DEF DecodeReturns
  <2>3. Verdict # "none" => message = HeldInCall
    BY <2>1
  <2> HIDE DEF message
  <2>4. QED
    BY <1>1, <2>2, <2>3, ReturnKeeps
<1>5. CASE ReplaceReturns
  <2>1. Call1.op = "replace"
    BY <1>5 DEF ReplaceReturns, Returning
  <2> DEFINE message == IF outcome = "ok" THEN stack[1].value ELSE Cleared
  <2>2. Return(Verdict, message)
    BY <1>5 DEF ReplaceReturns
  <2>3. Verdict # "none" => message = HeldInCall
    BY <1>3, <2>1 DEF HeldInCall
  <2> HIDE DEF message
  <2>4. QED
    BY <1>1, <2>2, <2>3, ReturnKeeps
<1>6. QED
  BY <1>4, <1>5

(* A caller that goes back to the front of its buffer.                     *)
LEMMA RewindKeeps ==
  ASSUME ApiInv, Rewind
  PROVE  ApiInv'
<1>1. /\ outcome = "idle" /\ script # <<>> /\ pos' = 0 /\ script' = Tail(script)
      /\ UNCHANGED <<type, results, input, outcome>>
  BY DEF Rewind, Calling
<1>2. /\ input \in Seq(Byte) /\ AllGood(results) /\ Scripted
  BY <1>1 DEF ApiInv
<1>3. script' \in Seq(ApiCalls(type))
  BY <1>1, <1>2, CallIs
<1>4. pos' \in 0 .. Len(input')
  BY <1>1, <1>2, LenProperties
<1>5. QED
  BY <1>1, <1>2, <1>3, <1>4, IdleKeeps

(* The invariant of the API, when a caller starts and with every call.     *)
LEMMA ApiInitKeeps ==
  ASSUME ApiInit
  PROVE  ApiInv
<1>1. PICK session \in Sessions : type = session.type /\ input = session.bytes
        /\ script = session.script
  BY DEF ApiInit
<1>2. Scripted /\ input \in Seq(Byte)
  BY <1>1, MessageApiAssumption DEF Scripted
<1>3. pos = 0 /\ outcome = "idle" /\ results = <<>>
  BY DEF ApiInit
<1>4. AllGood(results)
  BY <1>3 DEF AllGood, IsStack
<1>5. pos \in 0 .. Len(input)
  BY <1>2, <1>3, LenProperties
<1>6. QED
  BY <1>2, <1>3, <1>4, <1>5 DEF ApiInv

(* A step that makes no call changes nothing.                              *)
LEMMA ApiStays ==
  ASSUME ApiInv, UNCHANGED <<vars, apiVars>>
  PROVE  ApiInv'
<1>1. UNCHANGED <<input, pos, stack, outcome, type, script, held, entry, results>>
  BY DEF vars, apiVars
<1>2. Scripted' /\ AllGood(results)'
  BY <1>1, PrimedGood DEF ApiInv, Scripted, ApiCalls, WriteCalls
<1>3. CASE outcome = "idle"
  BY <1>1, <1>2, <1>3 DEF ApiInv
<1>4. CASE outcome # "idle"
  <2>1. InCall
    BY <1>4 DEF ApiInv
  <2>2. IInv' /\ CapInv'
    BY <1>1, <2>1, NextKeeps, NextCapped DEF InCall, vars
  <2>3. Call1' = Call1 /\ Made' = Made
    BY <1>1 DEF Call1, Made
  <2>4. RegionKept'
    BY <1>1, <2>1, <2>3 DEF InCall, RegionKept, GoodDelimiter, EndsAt
  <2>5. InCall'
    BY <1>1, <2>1, <2>2, <2>3, <2>4 DEF InCall, HeldInCall, Cleared, Minimum, Fates,
       Remaining
  <2>6. QED
    BY <1>1, <1>2, <1>4, <2>5 DEF ApiInv
<1>5. QED
  BY <1>3, <1>4

(* At every moment of every caller's session, each call that has returned  *)
(* did what it should, and the one being made keeps to its region.         *)
THEOREM ApiInvariant == ApiSpec => []ApiInv
<1>1. ApiInit => ApiInv
  BY ApiInitKeeps
<1>2. ASSUME ApiInv, [ApiNext]_<<vars, apiVars>>
      PROVE  ApiInv'
  <2>1. CASE EncodeInto \/ EncodeToVec \/ EncodeFast \/ EncodeContiguous
    BY <1>2, <2>1, WritesKeep
  <2>2. CASE BadDelimiter
    BY <1>2, <2>2, BadDelimiterKeeps
  <2>3. CASE Decode \/ Replace \/ DecodeBorrowed \/ ReplaceBorrowed
    BY <1>2, <2>3, EntersKeep
  <2>4. CASE Merging
    BY <1>2, <2>4, MergingKeeps
  <2>5. CASE DecodeReturns \/ ReplaceReturns
    BY <1>2, <2>5, ReturnsKeep
  <2>6. CASE Rewind
    BY <1>2, <2>6, RewindKeeps
  <2>7. CASE UNCHANGED <<vars, apiVars>>
    BY <1>2, <2>7, ApiStays
  <2>8. QED
    BY <1>2, <2>1, <2>2, <2>3, <2>4, <2>5, <2>6, <2>7 DEF ApiNext, Done
<1>3. QED
  BY <1>1, <1>2, PTL DEF ApiSpec

(* A call that fails leaves nothing of what it decoded in the message: a   *)
(* message that was to be replaced is empty afterwards, or untouched if    *)
(* only the delimiter was at fault, and there is no new one.               *)
THEOREM ApiNeverHalfDecoded == ApiSpec => []NeverHalfDecoded
<1>1. ApiInv => NeverHalfDecoded
  BY DEF ApiInv, AllGood, GoodResult, GoodRead, NeverHalfDecoded, Reads, IsStack
<1>2. QED
  BY <1>1, ApiInvariant, PTL

(* Every way to write a message writes the whole of it, delimited or not,  *)
(* and the same bytes; or, only if the room given is smaller than that,    *)
(* writes nothing and returns an error.  No buffer is overrun.             *)
THEOREM ApiEncodesWhole == ApiSpec => []EncodesWhole
<1>1. ApiInv => EncodesWhole
  BY DEF ApiInv, AllGood, GoodResult, GoodWrite, EncodesWhole, Reads, Writes, IsStack
<1>2. QED
  BY <1>1, ApiInvariant, PTL

(* A delimited message that was read leaves the buffer right behind it,    *)
(* and a slice is there even after an error, for the next message to be    *)
(* read; all of an undelimited one is read.                                *)
THEOREM ApiLeavesRest == ApiSpec => []LeavesRest
<1>1. ApiInv => LeavesRest
  BY DEF ApiInv, AllGood, GoodResult, GoodRead, LeavesRest, Reads, IsStack
<1>2. QED
  BY <1>1, ApiInvariant, PTL

(* What the decoder of a call is asked for, in every state of the call.    *)
CallsInRegion ==
  outcome # "idle" =>
    /\ ReadsInBounds /\ RespectsMinimum /\ DepthAccounted
    /\ outcome = "ok" => CheckError(stack[1].canon, Minimum(Call1)) = "none"

(* The decoder of each call, whichever region of whichever buffer it is    *)
(* given and whichever minimum, stays in that buffer with its caps in      *)
(* order and counts recursion, and never goes on below the minimum: the    *)
(* backstop of the restricted calls has nothing to find.                   *)
THEOREM ApiCallsInRegion == ApiSpec => []CallsInRegion
<1>1. ApiInv => CallsInRegion
  <2> SUFFICES ASSUME ApiInv, outcome # "idle"
               PROVE  /\ ReadsInBounds /\ RespectsMinimum /\ DepthAccounted
                      /\ outcome = "ok" =>
                           CheckError(stack[1].canon, Minimum(Call1)) = "none"
    BY DEF CallsInRegion
  <2>1. InCall /\ IInv /\ CapInv
    BY DEF ApiInv, InCall
  <2>2. ReadsInBounds
    BY <2>1 DEF CapInv, Capped, ReadsInBounds, CapsNested
  <2>3. RespectsMinimum
    BY <2>1 DEF IInv, GoodStack, WellFormed, RespectsMinimum
  <2>4. DepthAccounted
    BY <2>1 DEF IInv, GoodStack, Accounted, MessagesTo, DepthAccounted
  <2>5. QED
    BY <2>1, <2>2, <2>3, <2>4, NothingToFind
<1>2. QED
  BY <1>1, ApiInvariant, PTL
=============================================================================
