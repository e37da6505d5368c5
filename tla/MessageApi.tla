----------------------------- MODULE MessageApi -----------------------------
(***************************************************************************)
(* The calls of the public API (src/message.rs) that a caller makes with a *)
(* buffer: encoding messages onto its end and decoding them from its       *)
(* front, delimited or not, into new messages or in place of the one that  *)
(* is held, from any buffer or borrowing from a slice.  Between two calls  *)
(* `input` and `pos` are the caller's buffer and what it has advanced past.*)
(* In a call on a borrowed slice they are the slice that is decoded, and   *)
(* the caller's are put aside; the steps of a call are the decoder's.      *)
(***************************************************************************)
EXTENDS Decoder

CONSTANTS
  MessageValues,         (* the values that are written, by their type     *)
  RawEncodedLen(_, _),   (* what implements RawMessage for these types:    *)
  RawEncode(_, _),       (* a value's length as it is measured, and its    *)
  RawPrepend(_, _),      (* bytes as they are written from either end      *)
  Sessions   (* the calls a caller makes: a type, what the buffer has at   *)
             (* first, the message held, and the script of the calls       *)

VARIABLES
  type,      (* the type of the messages of this caller                    *)
  script,    (* the calls still to be made; the first one is being made    *)
  held,      (* the value of the message that the caller has               *)
  entry,     (* what the caller had when the call was made                 *)
  results    (* what the calls made so far have done                       *)

apiVars == <<type, script, held, entry, results>>

(* Calls.  A write says how it is done, into how much room, whether it is  *)
(* delimited, and what is written; a read what it does with the message,   *)
(* whether it borrows, whether it is delimited, its mode and the minimum;  *)
(* [op |-> "rewind"] goes back to a copy of the buffer the caller kept.    *)
Ways == {"into", "vec", "fast", "contiguous"}
Write(way, room, delimited, value) ==
  [op |-> "encode", way |-> way, room |-> room, delimited |-> delimited,
   value |-> value]
ReadAs(borrowed, mode, min) ==
  [op : {"decode", "replace"}, borrowed : {borrowed}, delimited : BOOLEAN,
   mode : {mode}, min : {min}]

(* The traits that the calls are of.                                       *)
OwnedCalls == ReadAs(FALSE, "relaxed", Relaxed)
DistinguishedCalls == ReadAs(FALSE, "distinguished", NotCanonical)
RestrictedCalls ==
  UNION {ReadAs(FALSE, "restricted", min) : min \in {NotCanonical, HasExtensions, Canonical}}
CanonicalCalls == ReadAs(FALSE, "canonical", Canonical)
BorrowedCalls == ReadAs(TRUE, "relaxed", Relaxed)
DistinguishedBorrowedCalls ==
  {[call EXCEPT !.borrowed = TRUE] :
     call \in DistinguishedCalls \cup RestrictedCalls \cup CanonicalCalls}
ReadCalls ==
  OwnedCalls \cup DistinguishedCalls \cup RestrictedCalls \cup CanonicalCalls
    \cup BorrowedCalls \cup DistinguishedBorrowedCalls

RewindCall == [op |-> "rewind"]
WriteCalls(t) ==
  [op : {"encode"}, way : Ways, room : Nat, delimited : BOOLEAN,
   value : MessageValues[t]]
ApiCalls(t) == ReadCalls \cup {RewindCall} \cup WriteCalls(t)

(* The two writers of a type write the same bytes, as many as are measured;*)
(* and the buffers are buffers of bytes.                                   *)
ASSUME MessageApiAssumption ==
  /\ \A t \in DOMAIN Messages : \A value \in MessageValues[t] :
       /\ RawEncode(t, value) \in Seq(Byte)
       /\ RawPrepend(t, value) = RawEncode(t, value)
       /\ RawEncodedLen(t, value) = Len(RawEncode(t, value))
       /\ RawEncodedLen(t, value) < VarintRange
  /\ \A session \in Sessions :
       /\ session.type \in DOMAIN Messages
       /\ session.bytes \in Seq(Byte)
       /\ session.script \in Seq(ApiCalls(session.type))

Call1 == Head(script)
Calling(op) == outcome = "idle" /\ script # <<>> /\ Call1.op = op

(* decode_distinguished and replace_distinguished_from, the canonical      *)
(* ones, and the restricted ones they all are.                             *)
DistinguishedMinimum == NotCanonical
CanonicalMinimum == Canonical
Minimum(call) ==
  CASE call.mode = "relaxed" -> Relaxed
    [] call.mode = "distinguished" -> DistinguishedMinimum
    [] call.mode = "canonical" -> CanonicalMinimum
    [] OTHER -> call.min

ApiInit ==
  /\ \E session \in Sessions :
       /\ type = session.type
       /\ input = session.bytes
       /\ held = session.held
       /\ script = session.script
  /\ pos = 0
  /\ stack = <<>>
  /\ outcome = "idle"
  /\ entry = [input |-> <<>>, pos |-> 0, next |-> 0, held |-> <<>>]
  /\ results = <<>>

-----------------------------------------------------------------------------
(* Encoding.  What is written goes to the end of the caller's buffer.      *)

Wrote(error, bytes) ==
  /\ input' = input \o bytes
  /\ results' = Append(results, [call |-> Call1, error |-> error,
                                 before |-> input, after |-> input \o bytes])
  /\ script' = Tail(script)
  /\ UNCHANGED <<type, held, entry, pos, stack, outcome>>

(* encoded_len, with the delimiter in front if there is one.               *)
Required ==
  LET len == RawEncodedLen(type, Call1.value)
  IN IF Call1.delimited THEN EncodedLenVarint(len) + len ELSE len

(* raw_encode, after the varint of the length it was measured to have.     *)
Forward ==
  LET bytes == RawEncode(type, Call1.value)
  IN IF Call1.delimited
     THEN EncodeVarint(RawEncodedLen(type, Call1.value)) \o bytes ELSE bytes

(* Mutant of EncodeInto: the delimiter is not counted.                     *)
EncodeIntoShort ==
  /\ Calling("encode") /\ Call1.way = "into"
  /\ IF RawEncodedLen(type, Call1.value) > Call1.room
     THEN Wrote("Insufficient", <<>>)
     ELSE Wrote(IF Len(Forward) > Call1.room THEN "Panicked" ELSE "none",
                IF Len(Forward) > Call1.room THEN <<>> ELSE Forward)

(* encode, encode_length_delimited: into a buffer that has so much room.   *)
(* A buffer that is not large enough panics when it is written to.         *)
EncodeInto ==
  /\ Calling("encode") /\ Call1.way = "into"
  /\ IF Required > Call1.room
     THEN Wrote("Insufficient", <<>>)
     ELSE Wrote(IF Len(Forward) > Call1.room THEN "Panicked" ELSE "none",
                IF Len(Forward) > Call1.room THEN <<>> ELSE Forward)

(* encode_to_vec and encode_to_bytes grow what they write to.              *)
EncodeToVec ==
  /\ Calling("encode") /\ Call1.way = "vec"
  /\ Wrote("none", Forward)

(* encode_fast: prepended, then the varint of the length that it has.      *)
EncodeFast ==
  /\ Calling("encode") /\ Call1.way = "fast"
  /\ LET bytes == RawPrepend(type, Call1.value)
     IN Wrote("none",
                 IF Call1.delimited THEN EncodeVarint(Len(bytes)) \o bytes ELSE bytes)

(* encode_contiguous: prepended to a buffer with room for just that, after *)
(* which it is asserted to be full and in one chunk.                       *)
EncodeContiguous ==
  /\ Calling("encode") /\ Call1.way = "contiguous"
  /\ LET len == RawEncodedLen(type, Call1.value)
         bytes == RawPrepend(type, Call1.value)
         all == IF Call1.delimited THEN EncodeVarint(len) \o bytes ELSE bytes
     IN IF Len(all) = Required THEN Wrote("none", all) ELSE Wrote("Panicked", <<>>)

-----------------------------------------------------------------------------
(* Reading.                                                                *)

Reading(op, borrowed) == Calling(op) /\ Call1.borrowed = borrowed

(* Mutant of Region: the length is checked, but is no cap.                 *)
RegionUncapped ==
  IF Call1.delimited THEN [LengthDelimitedAt(pos, 0) EXCEPT !.extra = 0]
  ELSE [error |-> "none", begin |-> pos, extra |-> 0]

(* Capped::new, or new_length_delimited; take_borrowed_length_delimited    *)
(* makes the same checks.                                                  *)
Region ==
  IF Call1.delimited THEN LengthDelimitedAt(pos, 0)
  ELSE [error |-> "none", begin |-> pos, extra |-> 0]

(* The delimiter is at fault: the call has not touched the message.  How   *)
(* far the buffer was read is unspecified.                                 *)
BadDelimiter ==
  /\ Calling("decode") \/ Calling("replace")
  /\ Region.error # "none"
  /\ pos' = Region.begin
  /\ results' = Append(results,
       [call |-> Call1, error |-> Region.error, canon |-> Relaxed, bytes |-> input,
        from |-> pos, to |-> Region.begin, before |-> held, after |-> held])
  /\ script' = Tail(script)
  /\ UNCHANGED <<type, held, entry, input, stack, outcome>>

Enter(message) ==
  /\ entry' = [input |-> input, pos |-> pos, held |-> held,
                next |-> IF Call1.delimited THEN Len(input) - Region.extra ELSE pos]
  /\ held' = message
  /\ outcome' = "none"
  /\ UNCHANGED <<type, script, results>>

(* decode_capped, replace_from_capped and the restricted ones.             *)
EnterOwned(message) ==
  /\ Region.error = "none"
  /\ pos' = Region.begin
  /\ stack' = <<MessageFrame(type, Region.extra, Minimum(Call1), RecursionLimit)>>
  /\ UNCHANGED input
  /\ Enter(message)

(* Mutant of EnterBorrowed: a delimited slice is not cut at its end.       *)
EnterBorrowedUncut(message) ==
  /\ Region.error = "none"
  /\ input' = SubSeq(input, Region.begin + 1, Len(input))
  /\ pos' = 0
  /\ stack' = <<MessageFrame(type, 0, Minimum(Call1), RecursionLimit)>>
  /\ Enter(message)

(* decode_borrowed and so on: the region is cut out as a slice of its own. *)
EnterBorrowed(message) ==
  /\ Region.error = "none"
  /\ input' = SubSeq(input, Region.begin + 1, Len(input) - Region.extra)
  /\ pos' = 0
  /\ stack' = <<MessageFrame(type, 0, Minimum(Call1), RecursionLimit)>>
  /\ Enter(message)

(* A new message is empty; the one that is held is untouched until then.   *)
(* To be replaced, it is cleared first.                                    *)
Cleared == <<>>

Decode == Reading("decode", FALSE) /\ EnterOwned(held)
Replace == Reading("replace", FALSE) /\ EnterOwned(Cleared)
DecodeBorrowed == Reading("decode", TRUE) /\ EnterBorrowed(held)
ReplaceBorrowed == Reading("replace", TRUE) /\ EnterBorrowed(Cleared)

Merging == outcome = "none" /\ Step /\ UNCHANGED apiVars

(* The caller's buffer is as far as it was read; a slice is past what was  *)
(* taken from it, and one that was passed by value is where it was.        *)
Advanced == IF Call1.borrowed THEN entry.next ELSE pos

Return(error, message) ==
  /\ held' = message
  /\ input' = entry.input
  /\ pos' = Advanced
  /\ results' = Append(results,
       [call |-> Call1, error |-> error, canon |-> stack[1].canon,
        bytes |-> entry.input, from |-> entry.pos, to |-> Advanced,
        before |-> entry.held, after |-> message])
  /\ script' = Tail(script)
  /\ stack' = <<>>
  /\ outcome' = "idle"
  /\ UNCHANGED <<type, entry>>

Returning(op) == outcome \notin {"none", "idle"} /\ Call1.op = op

(* The backstop: a canonicity below the minimum is an error after all.     *)
Verdict ==
  IF outcome # "ok" THEN outcome ELSE CheckError(stack[1].canon, Minimum(Call1))

DecodeReturns ==
  /\ Returning("decode")
  /\ Return(Verdict, IF Verdict = "none" THEN stack[1].value ELSE held)

(* Mutant of ReplaceReturns: what was decoded up to the error stays.       *)
ReplaceReturnsPart ==
  /\ Returning("replace")
  /\ Return(Verdict, stack[1].value)

(* An error while merging clears the message, one of the backstop does not.*)
ReplaceReturns ==
  /\ Returning("replace")
  /\ Return(Verdict, IF outcome = "ok" THEN stack[1].value ELSE Cleared)

Rewind ==
  /\ Calling("rewind")
  /\ pos' = 0
  /\ script' = Tail(script)
  /\ UNCHANGED <<type, held, entry, results, input, stack, outcome>>

Done == outcome = "idle" /\ script = <<>> /\ UNCHANGED <<vars, apiVars>>

ApiNext ==
  \/ EncodeInto \/ EncodeToVec \/ EncodeFast \/ EncodeContiguous
  \/ BadDelimiter \/ Decode \/ Replace \/ DecodeBorrowed \/ ReplaceBorrowed
  \/ Merging \/ DecodeReturns \/ ReplaceReturns \/ Rewind \/ Done

ApiSpec == ApiInit /\ [][ApiNext]_<<vars, apiVars>>

-----------------------------------------------------------------------------
(* Properties, of what the calls have done.                                *)

Reads == {i \in DOMAIN results : results[i].call.op # "encode"}
Writes == DOMAIN results \ Reads

(* The bytes a read had before it, and where its region ends by them.      *)
Before(r) == SubSeq(r.bytes, r.from + 1, Len(r.bytes))
Delimiter(r) == DecodeVarint(Before(r))
EndsAt(r) ==
  IF r.call.delimited THEN r.from + Delimiter(r).used + Delimiter(r).value
  ELSE Len(r.bytes)
GoodDelimiter(r) ==
  r.call.delimited => Delimiter(r).error = "none" /\ EndsAt(r) <= Len(r.bytes)

(* After a call that failed, the message held has nothing of what was      *)
(* decoded: it is as it was if it was not to be replaced or the delimiter  *)
(* was at fault, and empty otherwise.                                      *)
NeverHalfDecoded ==
  \A i \in Reads :
    LET r == results[i]
    IN r.error # "none" =>
         r.after = IF r.call.op = "decode" \/ ~GoodDelimiter(r) THEN r.before
                   ELSE Cleared

(* Whichever way the same bytes are read, from a buffer or a slice, as a   *)
(* new message or in place of another, they are the same message: relaxed  *)
(* and distinguished decoding accept the same bytes, and decoding with a   *)
(* minimum accepts those of them that distinguished decoding calls at      *)
(* least that canonical.                                                   *)
SameBytes(r, q) ==
  Before(r) = Before(q) /\ r.call.delimited = q.call.delimited
CallsAgree ==
  \A i, j \in Reads :
    LET r == results[i]  q == results[j]
        enough == r.call.mode = "relaxed" \/ q.canon >= Minimum(r.call)
    IN SameBytes(r, q) /\ q.call.mode = "distinguished" =>
         /\ r.error = "none" <=> q.error = "none" /\ enough
         /\ r.error = "none" => r.after = q.after
         /\ r.error = "none" /\ r.call.mode # "relaxed" => r.canon = q.canon

(* A delimited message that was read leaves the buffer right behind it. A  *)
(* slice is there even if what was delimited is not a message, so that the *)
(* next one can be read.  All of an undelimited one is read.               *)
LeavesRest ==
  \A i \in Reads :
    LET r == results[i]
        taken == IF r.call.delimited \/ ~r.call.borrowed THEN EndsAt(r) ELSE r.from
    IN GoodDelimiter(r) /\ (r.error = "none" \/ r.call.borrowed) => r.to = taken

(* A message is written whole, the same way by all the calls, or, if the   *)
(* room is too small for that, not at all; and no call panics.             *)
Whole(call) ==
  LET bytes == RawEncode(type, call.value)
  IN IF call.delimited THEN EncodeVarint(Len(bytes)) \o bytes ELSE bytes
EncodesWhole ==
  \A i \in Writes :
    LET r == results[i]
        fits == r.call.way = "into" => Len(Whole(r.call)) <= r.call.room
    IN /\ r.error = IF fits THEN "none" ELSE "Insufficient"
       /\ r.after = IF fits THEN r.before \o Whole(r.call) ELSE r.before

(* A buffer is a queue of messages: what was written to it is read in that *)
(* order, with every kind of call, and no other delimited message is, for  *)
(* every call that reads one leaves the rest as it is to the next.         *)
Succeeded(set, i) == {k \in set : k < i /\ results[k].error = "none"}
Nth(set, n) == CHOOSE k \in set : Cardinality({j \in set : j <= k}) = n
StreamsInOrder ==
  /\ LeavesRest
  /\ results # <<>> /\ 1 \in Writes =>
       \A i \in Reads :
         LET sent == Succeeded(Writes, i)
             n == Cardinality(Succeeded(Reads, i)) + 1
         IN IF n > Cardinality(sent)
            THEN results[i].call.delimited => results[i].error # "none"
            ELSE /\ results[i].error = "none"
                 /\ results[i].after = results[Nth(sent, n)].call.value
=============================================================================
