-------------------------------- MODULE Time --------------------------------
(***************************************************************************)
(* Durations and timestamps of bilrost-types (bilrost-types/src/lib.rs):   *)
(* both are a pair of an i64 of seconds and an i32 of nanoseconds, any     *)
(* pair of which may be decoded from a message.  They are normalised,      *)
(* negated and converted to and from the types of the standard library,    *)
(* in any order.  The widths of the integers and the nanoseconds of a      *)
(* second are constants.                                                   *)
(***************************************************************************)
EXTENDS Integers

CONSTANTS
  I64Max,             (* i64::MAX: 2^63 - 1                                *)
  I32Max,             (* i32::MAX: 2^31 - 1                                *)
  NANOS_PER_SECOND,   (* 10^9                                              *)
  SystemSeconds,      (* the seconds a SystemTime of the platform may have *)
  Given               (* the values a program starts from                  *)

I64 == -I64Max - 1 .. I64Max
I32 == -I32Max - 1 .. I32Max
U64 == 0 .. 2 * I64Max + 1
NANOS_MAX == NANOS_PER_SECOND - 1
Subsecond == 0 .. NANOS_MAX

Duration == [kind : {"duration"}, seconds : I64, nanos : I32]
Timestamp == [kind : {"timestamp"}, seconds : I64, nanos : I32]

(* core::time::Duration, and the magnitude in Err(NegativeDuration(_)).    *)
StdDuration == [kind : {"std", "negative"}, seconds : U64, nanos : Subsecond]

(* std::time::SystemTime, as a count of seconds and nanoseconds.           *)
SystemTime == [kind : {"system"}, seconds : SystemSeconds, nanos : Subsecond]

(* The text of a duration: a sign, digits and a fraction of a second.      *)
DurationText ==
  [kind : {"durationText", "minusText"}, seconds : Nat, nanos : Subsecond]

Value ==
  Duration \cup Timestamp \cup StdDuration \cup SystemTime \cup DurationText

ASSUME TimeAssumption ==
  /\ I64Max \in Nat /\ I32Max \in Nat /\ NANOS_PER_SECOND \in Nat \ {0, 1}
  /\ NANOS_PER_SECOND <= I32Max
  /\ SystemSeconds \subseteq I64
  /\ Given \subseteq Value

VARIABLE held   (* the value at hand, or how its conversion failed         *)

Refused == [kind |-> "refused"]
Panicked == [kind |-> "panicked"]

Init == held \in Given

-----------------------------------------------------------------------------
(* Arithmetic of the machine: division to zero, wrapping negation.         *)

Quotient(n, d) == IF n >= 0 THEN n \div d ELSE -((-n) \div d)
Remainder(n, d) == n - d * Quotient(n, d)

Wrapped(n, max) == ((n + max + 1) % (2 * max + 2)) - max - 1

-----------------------------------------------------------------------------
(* Normalisation.                                                          *)

Sized(nanos) == -NANOS_PER_SECOND < nanos /\ nanos < NANOS_PER_SECOND

(* The whole seconds of the nanoseconds are added to the seconds; if those *)
(* overflow the value becomes least or greatest.                           *)
Carried(v, least, greatest) ==
  LET seconds == v.seconds + Quotient(v.nanos, NANOS_PER_SECOND)
  IN  IF Sized(v.nanos) THEN v
      ELSE IF seconds \in I64
      THEN [v EXCEPT !.seconds = seconds,
                     !.nanos = Remainder(v.nanos, NANOS_PER_SECOND)]
      ELSE IF v.nanos < 0 THEN least ELSE greatest

DurationMin ==
  [kind |-> "duration", seconds |-> -I64Max - 1, nanos |-> -NANOS_MAX]
DurationMax == [kind |-> "duration", seconds |-> I64Max, nanos |-> NANOS_MAX]
TimestampMin == [kind |-> "timestamp", seconds |-> -I64Max - 1, nanos |-> 0]
TimestampMax ==
  [kind |-> "timestamp", seconds |-> I64Max, nanos |-> NANOS_MAX]

(* One second is moved to the nanoseconds; failing that, they are cut off. *)
Borrowed(v, second, cut) ==
  IF v.seconds + second \in I64
  THEN [v EXCEPT !.seconds = v.seconds + second,
                 !.nanos = v.nanos - second * NANOS_PER_SECOND]
  ELSE [v EXCEPT !.nanos = cut]

NormalDuration(v) ==
  LET c == Carried(v, DurationMin, DurationMax)
  IN  IF c.seconds < 0 /\ c.nanos > 0 THEN Borrowed(c, 1, NANOS_MAX)
      ELSE IF c.seconds > 0 /\ c.nanos < 0 THEN Borrowed(c, -1, -NANOS_MAX)
      ELSE c

(* Mutant: the sign of the nanoseconds is looked at only below zero.       *)
NormalTimestampLate(v) ==
  LET c == Carried(v, TimestampMin, TimestampMax)
  IN  IF c.seconds < 0 /\ c.nanos < 0 THEN Borrowed(c, -1, 0) ELSE c

NormalTimestamp(v) ==
  LET c == Carried(v, TimestampMin, TimestampMax)
  IN  IF c.nanos < 0 THEN Borrowed(c, -1, 0) ELSE c

DurationIsCanonical(v) ==
  /\ Sized(v.nanos)
  /\ v.seconds < 0 => v.nanos <= 0
  /\ v.seconds > 0 => v.nanos >= 0

TimestampIsCanonical(v) == v.nanos \in Subsecond

(* What try_normalize takes for an overflow.                               *)
SeemsOverflown(before, after) ==
  after.seconds \in {I64Max, -I64Max - 1} /\ after.seconds # before.seconds

NormalizeDuration ==
  /\ held.kind = "duration"
  /\ held' = NormalDuration(held)

NormalizeTimestamp ==
  /\ held.kind = "timestamp"
  /\ held' = NormalTimestamp(held)

TryNormalize ==
  /\ held.kind = "timestamp"
  /\ LET after == NormalTimestamp(held)
     IN  held' = IF SeemsOverflown(held, after) THEN Refused ELSE after

-----------------------------------------------------------------------------
(* Negation and conversions.  Where an integer overflows, the build either *)
(* panics or wraps.                                                        *)

Negate ==
  /\ held.kind = "duration"
  /\ \/ held' = [held EXCEPT !.seconds = Wrapped(-held.seconds, I64Max),
                             !.nanos = Wrapped(-held.nanos, I32Max)]
     \/ /\ held.seconds = -I64Max - 1 \/ held.nanos = -I32Max - 1
        /\ held' = Panicked

DurationFromStd ==
  /\ held.kind = "std"
  /\ held' = IF held.seconds > I64Max THEN Refused
             ELSE NormalDuration([held EXCEPT !.kind = "duration"])

AsU64(n) == IF n < 0 THEN n + 2 * I64Max + 2 ELSE n

StdFromDuration ==
  /\ held.kind = "duration"
  /\ LET d == NormalDuration(held)
     IN  \/ /\ d.seconds >= 0 /\ d.nanos >= 0
            /\ held' = [d EXCEPT !.kind = "std"]
         \/ /\ d.seconds < 0 \/ d.nanos < 0
            /\ held' = [kind |-> "negative", nanos |-> -d.nanos,
                        seconds |-> AsU64(Wrapped(-d.seconds, I64Max))]
         \/ /\ d.seconds = -I64Max - 1
            /\ held' = Panicked

(* From the time since the epoch, or before it.                            *)
TimestampFromSystem ==
  /\ held.kind = "system"
  /\ LET before == held.seconds < 0
         whole == held.nanos = 0
         seconds == IF ~before THEN held.seconds
                    ELSE IF whole THEN -held.seconds ELSE -held.seconds - 1
         nanos == IF ~before \/ whole THEN held.nanos
                  ELSE NANOS_PER_SECOND - held.nanos
         made == [kind |-> "timestamp", seconds |-> seconds, nanos |-> nanos]
     IN  held' = IF seconds > I64Max THEN Panicked
                 ELSE IF ~before THEN made
                 ELSE IF nanos = 0 THEN [made EXCEPT !.seconds = -seconds]
                 ELSE [made EXCEPT !.seconds = -seconds - 1,
                                   !.nanos = NANOS_PER_SECOND - nanos]

(* The seconds, then the nanoseconds are added to the epoch.               *)
SystemFromTimestamp ==
  /\ held.kind = "timestamp"
  /\ LET t == NormalTimestamp(held)
     IN  held' = IF t.seconds # -I64Max - 1 /\ t.seconds \in SystemSeconds
                 THEN [t EXCEPT !.kind = "system"]
                 ELSE Refused

ParseDuration ==
  /\ held.kind \in {"durationText", "minusText"}
  /\ LET sign == IF held.kind = "minusText" THEN -1 ELSE 1
     IN  held' = IF held.seconds > I64Max THEN Refused
                 ELSE [kind |-> "duration", seconds |-> sign * held.seconds,
                       nanos |-> sign * held.nanos]

Next ==
  \/ NormalizeDuration
  \/ NormalizeTimestamp
  \/ TryNormalize
  \/ Negate
  \/ DurationFromStd
  \/ StdFromDuration
  \/ TimestampFromSystem
  \/ SystemFromTimestamp
  \/ ParseDuration

Spec == Init /\ [][Next]_held

-----------------------------------------------------------------------------
(* Properties.                                                             *)

(* The nanoseconds that a pair stands for.                                 *)
Total(v) == v.seconds * NANOS_PER_SECOND + v.nanos

Clamp(n, least, greatest) ==
  IF n < least THEN least ELSE IF n > greatest THEN greatest ELSE n

(* The time a value stands for, to the nearest that a normal one can.      *)
NearestDuration(v) == Clamp(Total(v), Total(DurationMin), Total(DurationMax))
NearestTimestamp(v) == Clamp(Total(v), Total(TimestampMin), Total(TimestampMax))

(* What is at hand is a value of its type: no conversion makes a field     *)
(* that its integer cannot hold, or a standard duration or system time     *)
(* whose nanoseconds make a second.                                        *)
TypeOK == held \in Value \cup {Refused, Panicked}

(* normalize returns the canonical pair for the same time, or for the      *)
(* nearest one to it that has a canonical pair, whatever the overflows on  *)
(* the way; and it leaves a pair as it is exactly if is_canonical says so  *)
(* (bilrost-types/src/lib.rs:65-105 and 224-255).                          *)
NormalizesNearest ==
  /\ held.kind = "duration" =>
       LET n == NormalDuration(held)
       IN  /\ DurationIsCanonical(n)
           /\ Total(n) = NearestDuration(held)
           /\ (n = held) <=> DurationIsCanonical(held)
  /\ held.kind = "timestamp" =>
       LET n == NormalTimestamp(held)
       IN  /\ TimestampIsCanonical(n)
           /\ Total(n) = NearestTimestamp(held)
           /\ (n = held) <=> TimestampIsCanonical(held)

(* try_normalize returns "the original value if it cannot be normalized"   *)
(* (bilrost-types/src/lib.rs:257-258), and only then: it refuses the       *)
(* timestamps whose time no canonical timestamp has.                       *)
TryNormalizeExact ==
  [][ TryNormalize =>
        ((held' = Refused) <=> Total(held) # NearestTimestamp(held)) ]_held

=============================================================================
