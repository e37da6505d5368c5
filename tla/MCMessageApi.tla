---------------------------- MODULE MCMessageApi ----------------------------
(***************************************************************************)
(* Callers that read the same bytes twice, once in any way and then as a   *)
(* reference into a new message, and callers that write two messages in    *)
(* any way and read three.                                                 *)
(***************************************************************************)
EXTENDS MessageApi

MCFixedWidth == ThirtyTwoBit :> 2 @@ SixtyFourBit :> 3

MCMessages ==
  [leaf |-> 0 :> [card |-> "plain", item |-> "varint"]
         @@ 1 :> [card |-> "plain", item |-> "fixed"],
   tree |-> 0 :> [card |-> "unpacked", item |-> "varint"]
         @@ 1 :> [card |-> "plain", item |-> "tree"]]
MCOneofs == [t \in DOMAIN MCMessages |-> {}]

HeldBefore == [leaf |-> 0 :> <<9>>, tree |-> 0 :> <<<<1>>>>]

AnyRead(delimited) == {call \in ReadCalls : call.delimited = delimited}

Read(op, borrowed, mode, min) ==
  CHOOSE call \in AnyRead(TRUE) :
    call.op = op /\ call.borrowed = borrowed /\ call.mode = mode /\ call.min = min

Reference(delimited) ==
  CHOOSE call \in DistinguishedCalls : call.op = "decode" /\ call.delimited = delimited

UpTo(n, bytes) == UNION {[1 .. k -> bytes] : k \in 0 .. n}

(* The types implement RawMessage by the code the derive macro generates.  *)
Generated == INSTANCE Encoding
MCRawEncodedLen(t, value) == Generated!EncodedLen(t, value)
MCRawEncode(t, value) == Generated!Encode(t, value)
MCRawPrepend(t, value) == Generated!Prepend(t, value)

(* Longer buffers: a nested tree in a region with something behind it.     *)
Regions ==
  {<<n, 4, 2, 0, 7>> \o rest : n \in 3 .. 5, rest \in {<<>>, <<0>>, <<1>>, <<8>>}}

ReadTwice ==
  [type : DOMAIN MCMessages, bytes : UpTo(3, {0, 1, 2, 4, 5, 8}) \cup Regions,
   script : UNION {{<<read, RewindCall, Reference(delimited)>> :
                      read \in AnyRead(delimited)} : delimited \in BOOLEAN}]

WaysAndRoom == ({"into"} \X {2, 3, 9}) \cup ((Ways \ {"into"}) \X {0})
Written == [leaf |-> {<<>>, 0 :> <<8>> @@ 1 :> <<0, 9>>},
            tree |-> {0 :> <<<<0>>>>, 1 :> (0 :> <<<<9>>, <<0>>>>)}]

WriteAny(w, delimited, value) == Write(w[1], w[2], delimited, value)

WriteAndRead(t) ==
  {<<WriteAny(v, TRUE, a), WriteAny(w, TRUE, b), r, q, r>> :
     v \in WaysAndRoom, w \in WaysAndRoom, a \in Written[t], b \in Written[t],
     r \in {Read("replace", TRUE, "canonical", Canonical),
            Read("decode", FALSE, "relaxed", Relaxed)},
     q \in {Read("decode", TRUE, "restricted", HasExtensions),
            Read("replace", FALSE, "distinguished", NotCanonical)}}
  \cup {<<WriteAny(w, FALSE, a), r>> :
          w \in WaysAndRoom, a \in Written[t], r \in AnyRead(FALSE)}

MCSessions ==
  {[type |-> s.type, bytes |-> s.bytes, held |-> HeldBefore[s.type],
    script |-> s.script] : s \in ReadTwice}
  \cup UNION {{[type |-> t, bytes |-> <<>>, held |-> HeldBefore[t],
                script |-> s] : s \in WriteAndRead(t)} : t \in DOMAIN MCMessages}
=============================================================================
