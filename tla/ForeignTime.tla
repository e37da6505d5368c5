---------------------------- MODULE ForeignTime ----------------------------
(***************************************************************************)
(* The dates, times, offsets and durations of chrono, of time and of the   *)
(* standard library as values of fields (src/encoding/type_support/        *)
(* chrono.rs, time.rs, std.rs and common.rs, general.rs, local_proxy.rs,   *)
(* proxy.rs): each is encoded as a proxy, a list of numbers without the    *)
(* zeros at its end or a tuple, and the same bytes are read by the types   *)
(* of either library.  What the libraries accept is a constant.            *)
(***************************************************************************)
EXTENDS Calendar, SequencesExt

CONSTANTS
  ChronoYears,      (* the years of a chrono::NaiveDate                    *)
  TimeYears,        (* the years of a time::Date                           *)
  ChronoDeltaMax,   (* the most nanoseconds of a chrono::TimeDelta         *)
  TimeOffsetHours,  (* 25, the most hours of a time::UtcOffset             *)
  I8Max,            (* 127                                                 *)
  GivenForeign      (* values and encodings a program starts from          *)

I8 == -I8Max - 1 .. I8Max
U32 == 0 .. 2 * I32Max + 1
PLUS == 43
MINUS == 45

(* The integers of each proxy hold the parts it is made for.               *)
ASSUME ForeignTimeAssumption ==
  /\ TimeYears \subseteq I32 /\ ChronoYears \subseteq I32
  /\ {I8Max, ChronoDeltaMax, TimeOffsetHours} \subseteq Nat
  /\ I8Max <= I32Max /\ I32Max <= I64Max
  /\ 365 <= I32Max /\ 2 * NANOS_PER_SECOND <= I32Max
  /\ HoursPerDay <= TimeOffsetHours /\ TimeOffsetHours <= I8Max
  /\ MinutesPerHour <= I8Max /\ SecondsPerMinute <= I8Max
  /\ ChronoDeltaMax <= I64Max * NANOS_PER_SECOND
  /\ {PLUS, MINUS} \subseteq U64 /\ 0 \in SystemSeconds

(* What is not there: a value that was refused, a field of a tuple.  A     *)
(* field that is there is a sequence of what it holds.                     *)
NoValue == [kind |-> "none"]
Absent == <<>>

Chrono == {"NaiveDate", "NaiveTime", "NaiveDateTime", "Utc", "FixedOffset",
           "DateTimeUtc", "DateTimeFixed", "TimeDelta"}
TimeCrate == {"Date", "Time", "PrimitiveDateTime", "UtcOffset",
              "OffsetDateTime", "TimeDuration"}
ForeignKinds == Chrono \cup TimeCrate \cup {"std", "system", "duration"}

Ok(value) == [error |-> "none", value |-> value]
Err(error) == [error |-> error, value |-> NoValue]

(* What is done with a value that was made of parts before, if it was.     *)
Then(result, F(_)) ==
  IF result.error = "none" THEN Ok(F(result.value)) ELSE result

-----------------------------------------------------------------------------
(* Numbers and lists of numbers on the wire.                               *)

Zigzag(n) == IF n >= 0 THEN 2 * n ELSE -2 * n - 1
Unzigzag(u) == IF u % 2 = 0 THEN u \div 2 ELSE -(u \div 2) - 1

(* The proxies that are lists: how many numbers, of which type.            *)
ListTypes ==
  [NaiveDate |-> [length |-> 2, items |-> I32],
   Date |-> [length |-> 2, items |-> I32],
   NaiveTime |-> [length |-> 4, items |-> U32],
   Time |-> [length |-> 4, items |-> U32],
   NaiveDateTime |-> [length |-> 6, items |-> I32],
   PrimitiveDateTime |-> [length |-> 6, items |-> I32],
   std |-> [length |-> 2, items |-> U64],
   system |-> [length |-> 3, items |-> U64]]
Signed(kind) == ListTypes[kind].items = I32

(* Mutant: zeros are cut off at the front too.                             *)
WithoutEmptyEnds(arr) ==
  LET kept == {i \in 1 .. Len(arr) : arr[i] # 0}
  IN  IF kept = {} THEN <<>>
      ELSE SubSeq(arr, CHOOSE i \in kept : \A j \in kept : i <= j,
                       CHOOSE i \in kept : \A j \in kept : i >= j)

(* LocalProxy::new_without_empty_suffix.                                   *)
WithoutEmptySuffix(arr) ==
  LET kept == {n \in 0 .. Len(arr) : n = 0 \/ arr[n] # 0}
  IN  SubSeq(arr, 1, CHOOSE n \in kept : \A k \in kept : n >= k)

EncodeList(kind, arr) ==
  LET items == WithoutEmptySuffix(arr)
  IN  [i \in 1 .. Len(items) |->
         IF Signed(kind) THEN Zigzag(items[i]) ELSE items[i]]

(* A list is read into an array of zeros.  The number that has no place    *)
(* is read, and may be refused, before it is found to have none.           *)
DecodeList(kind, list) ==
  LET n == ListTypes[kind].length
      items == [i \in 1 .. Len(list) |->
                  IF Signed(kind) THEN Unzigzag(list[i]) ELSE list[i]]
      outOfRange == {i \in 1 .. Len(list) : items[i] \notin ListTypes[kind].items}
  IN  IF \E i \in outOfRange : i <= n + 1 THEN Err("OutOfDomainValue")
      ELSE IF Len(list) > n THEN Err("InvalidValue")
      ELSE Ok([i \in 1 .. n |-> IF i <= Len(list) THEN items[i] ELSE 0])

-----------------------------------------------------------------------------
(* Dates and times of day.  The narrower integers a part is converted to   *)
(* hold all that the library takes.                                        *)

DaysOfYear(year) == IF Leap(year) THEN 366 ELSE 365

PartsToNaiveDate(year, ordinal0) ==
  IF year \in ChronoYears /\ ordinal0 \in 0 .. DaysOfYear(year) - 1
  THEN Ok([kind |-> "NaiveDate", year |-> year, ordinal0 |-> ordinal0])
  ELSE Err("OutOfDomainValue")

PartsToDate(year, ordinal0) ==
  IF year \in TimeYears /\ ordinal0 \in 0 .. DaysOfYear(year) - 1
  THEN Ok([kind |-> "Date", year |-> year, ordinal0 |-> ordinal0])
  ELSE Err("OutOfDomainValue")

Clock ==
  (0 .. HoursPerDay - 1) \X (0 .. MinutesPerHour - 1)
    \X (0 .. SecondsPerMinute - 1)

(* In the last second of a minute chrono counts the nanoseconds of a leap  *)
(* second on from those of the second.                                     *)
PartsToNaiveTime(hour, min, sec, nano) ==
  IF /\ <<hour, min, sec>> \in Clock
     /\ \/ nano \in Subsecond
        \/ /\ sec = SecondsPerMinute - 1
           /\ nano \in NANOS_PER_SECOND .. 2 * NANOS_PER_SECOND - 1
  THEN Ok([kind |-> "NaiveTime", hour |-> hour, minute |-> min,
           second |-> sec, nanos |-> nano])
  ELSE Err("OutOfDomainValue")

PartsToTime(hour, min, sec, nano) ==
  IF <<hour, min, sec>> \in Clock /\ nano \in Subsecond
  THEN Ok([kind |-> "Time", hour |-> hour, minute |-> min, second |-> sec,
           nanos |-> nano])
  ELSE Err("OutOfDomainValue")

(* A date-time of a date and a time, both of which have to be valid.       *)
Joined(kind, date, time) ==
  LET with(t) == [kind |-> kind, date |-> date.value, time |-> t]
  IN  IF date.error # "none" THEN date ELSE Then(time, with)

NaiveDateOf(arr) == PartsToNaiveDate(arr[1], arr[2])
DateOf(arr) == PartsToDate(arr[1], arr[2])
NaiveTimeOf(arr) == PartsToNaiveTime(arr[1], arr[2], arr[3], arr[4])
TimeOf(arr) == PartsToTime(arr[1], arr[2], arr[3], arr[4])
NaiveDateTimeOf(arr) ==
  Joined("NaiveDateTime", PartsToNaiveDate(arr[1], arr[2]),
         PartsToNaiveTime(arr[3], arr[4], arr[5], arr[6]))
PrimitiveDateTimeOf(arr) ==
  Joined("PrimitiveDateTime", PartsToDate(arr[1], arr[2]),
         PartsToTime(arr[3], arr[4], arr[5], arr[6]))

DateParts(d) == <<d.year, d.ordinal0>>
TimeParts(t) == <<t.hour, t.minute, t.second, t.nanos>>

(* A time before the epoch or after it, with a sign for its first number.  *)
SystemParts(v) ==
  LET total == Total(v)
      symbol == IF total > 0 THEN PLUS ELSE MINUS
      magnitude == IF total > 0 THEN total ELSE -total
  IN  IF total = 0 THEN <<0, 0, 0>>
      ELSE <<symbol, magnitude \div NANOS_PER_SECOND,
             magnitude % NANOS_PER_SECOND>>

SystemTimeOf(arr) ==
  LET sign == IF arr[1] = MINUS THEN -1 ELSE 1
      total == sign * (arr[2] * NANOS_PER_SECOND + arr[3])
      value == [kind |-> "system", seconds |-> total \div NANOS_PER_SECOND,
                nanos |-> total % NANOS_PER_SECOND]
  IN  IF arr = <<0, 0, 0>> THEN Ok(value)
      ELSE IF arr[1] \notin {PLUS, MINUS} \/ arr[3] \notin Subsecond
      THEN Err("InvalidValue")
      ELSE IF value.seconds \in SystemSeconds THEN Ok(value)
      ELSE Err("OutOfDomainValue")

CoreDurationOf(arr) ==
  IF arr[2] \in Subsecond
  THEN Ok([kind |-> "std", seconds |-> arr[1], nanos |-> arr[2]])
  ELSE Err("InvalidValue")

ListParts(v) ==
  CASE v.kind \in {"NaiveDate", "Date"} -> DateParts(v)
    [] v.kind \in {"NaiveTime", "Time"} -> TimeParts(v)
    [] v.kind \in {"NaiveDateTime", "PrimitiveDateTime"} ->
         DateParts(v.date) \o TimeParts(v.time)
    [] v.kind = "std" -> <<v.seconds, v.nanos>>
    [] v.kind = "system" -> SystemParts(v)

OfListParts(kind, arr) ==
  CASE kind = "NaiveDate" -> NaiveDateOf(arr)
    [] kind = "Date" -> DateOf(arr)
    [] kind = "NaiveTime" -> NaiveTimeOf(arr)
    [] kind = "Time" -> TimeOf(arr)
    [] kind = "NaiveDateTime" -> NaiveDateTimeOf(arr)
    [] kind = "PrimitiveDateTime" -> PrimitiveDateTimeOf(arr)
    [] kind = "std" -> CoreDurationOf(arr)
    [] kind = "system" -> SystemTimeOf(arr)

-----------------------------------------------------------------------------
(* Offsets: tuples of hours, minutes and seconds of one sign.              *)

MixedSigns(parts) ==
  /\ \E i \in 1 .. Len(parts) : parts[i] < 0
  /\ \E i \in 1 .. Len(parts) : parts[i] > 0

FixedOffsetParts(seconds) ==
  LET mins == Quotient(seconds, SecondsPerMinute)
  IN  <<Quotient(mins, MinutesPerHour), Remainder(mins, MinutesPerHour),
        Remainder(seconds, SecondsPerMinute)>>

OffsetParts(v) ==
  CASE v.kind = "Utc" -> <<0, 0, 0>>
    [] v.kind = "FixedOffset" -> FixedOffsetParts(v.seconds)
    [] v.kind = "UtcOffset" -> v.hms

InClock(hms, hours) ==
  /\ hms[1] \in -hours .. hours
  /\ hms[2] \in -(MinutesPerHour - 1) .. MinutesPerHour - 1
  /\ hms[3] \in -(SecondsPerMinute - 1) .. SecondsPerMinute - 1

SecondsEast(hms) ==
  hms[1] * SecondsPerHour + hms[2] * SecondsPerMinute + hms[3]

UtcOf(hms) ==
  IF hms = <<0, 0, 0>> THEN Ok([kind |-> "Utc"]) ELSE Err("OutOfDomainValue")

(* Mutant: the parts of an offset may differ in sign.                      *)
FixedOffsetOfMixed(hms) ==
  IF ~ InClock(hms, HoursPerDay - 1) THEN Err("OutOfDomainValue")
  ELSE Ok([kind |-> "FixedOffset", seconds |-> SecondsEast(hms)])

FixedOffsetOf(hms) ==
  IF ~ InClock(hms, HoursPerDay - 1) THEN Err("OutOfDomainValue")
  ELSE IF MixedSigns(hms) THEN Err("InvalidValue")
  ELSE Ok([kind |-> "FixedOffset", seconds |-> SecondsEast(hms)])

UtcOffsetOf(hms) ==
  IF MixedSigns(hms) THEN Err("InvalidValue")
  ELSE IF ~ InClock(hms, TimeOffsetHours) THEN Err("OutOfDomainValue")
  ELSE Ok([kind |-> "UtcOffset", hms |-> hms])

OfOffsetParts(kind, hms) ==
  CASE kind = "Utc" -> UtcOf(hms)
    [] kind = "FixedOffset" -> FixedOffsetOf(hms)
    [] kind = "UtcOffset" -> UtcOffsetOf(hms)

-----------------------------------------------------------------------------
(* Durations: the fields of a message of seconds and nanoseconds.          *)

(* chrono keeps nanoseconds that are never negative.                       *)
DeltaParts(v) ==
  IF v.kind = "TimeDelta" /\ v.seconds < 0 /\ v.nanos > 0
  THEN <<v.seconds + 1, v.nanos - NANOS_PER_SECOND>>
  ELSE <<v.seconds, v.nanos>>

NewTimeDelta(seconds, nanos) ==
  IF seconds * NANOS_PER_SECOND + nanos \in -ChronoDeltaMax .. ChronoDeltaMax
  THEN Ok([kind |-> "TimeDelta", seconds |-> seconds, nanos |-> nanos])
  ELSE Err("OutOfDomainValue")

(* Both libraries refuse parts of different signs; bilrost_types takes any.*)
TimeDeltaOf(seconds, nanos) ==
  IF seconds \in -I64Max .. 0 /\ nanos \in -NANOS_MAX .. -1
  THEN NewTimeDelta(seconds - 1, nanos + NANOS_PER_SECOND)
  ELSE IF nanos = 0 \/ (seconds >= 0 /\ nanos \in Subsecond)
  THEN NewTimeDelta(seconds, nanos)
  ELSE Err("InvalidValue")

TimeDurationOf(seconds, nanos) ==
  IF \/ seconds <= 0 /\ nanos \in -NANOS_MAX .. 0
     \/ seconds >= 0 /\ nanos \in Subsecond
  THEN Ok([kind |-> "TimeDuration", seconds |-> seconds, nanos |-> nanos])
  ELSE Err("InvalidValue")

OfDeltaParts(kind, seconds, nanos) ==
  CASE kind = "TimeDelta" -> TimeDeltaOf(seconds, nanos)
    [] kind = "TimeDuration" -> TimeDurationOf(seconds, nanos)
    [] kind = "duration" ->
         Ok([kind |-> kind, seconds |-> seconds, nanos |-> nanos])

-----------------------------------------------------------------------------
(* The values of each type.                                                *)

NaiveDates ==
  {d \in [kind : {"NaiveDate"}, year : ChronoYears, ordinal0 : 0 .. 365] :
     d.ordinal0 < DaysOfYear(d.year)}
Dates ==
  {d \in [kind : {"Date"}, year : TimeYears, ordinal0 : 0 .. 365] :
     d.ordinal0 < DaysOfYear(d.year)}

ClockTimes(kind, nanos) ==
  [kind : {kind}, hour : 0 .. HoursPerDay - 1, minute : 0 .. MinutesPerHour - 1,
   second : 0 .. SecondsPerMinute - 1, nanos : nanos]
NaiveTimes ==
  {t \in ClockTimes("NaiveTime", 0 .. 2 * NANOS_PER_SECOND - 1) :
     t.nanos \in Subsecond \/ t.second = SecondsPerMinute - 1}
Times == ClockTimes("Time", Subsecond)

NaiveDateTimes == [kind : {"NaiveDateTime"}, date : NaiveDates, time : NaiveTimes]
PrimitiveDateTimes ==
  [kind : {"PrimitiveDateTime"}, date : Dates, time : Times]

Utcs == [kind : {"Utc"}]
FixedOffsets ==
  [kind : {"FixedOffset"}, seconds : -(SecondsPerDay - 1) .. SecondsPerDay - 1]
UtcOffsets ==
  {o \in [kind : {"UtcOffset"}, hms : [1 .. 3 -> I8]] :
     InClock(o.hms, TimeOffsetHours) /\ ~ MixedSigns(o.hms)}

Aware(kind, datetimes, offsets) ==
  [kind : {kind}, datetime : datetimes, offset : offsets]

TimeDeltas ==
  {v \in [kind : {"TimeDelta"}, seconds : I64, nanos : Subsecond] :
     Total(v) \in -ChronoDeltaMax .. ChronoDeltaMax}
TimeDurations ==
  {v \in [kind : {"TimeDuration"}, seconds : I64, nanos : -NANOS_MAX .. NANOS_MAX] :
     ~ MixedSigns(<<v.seconds, v.nanos>>)}

ForeignValue ==
  NaiveDates \cup Dates \cup NaiveTimes \cup Times
    \cup NaiveDateTimes \cup PrimitiveDateTimes
    \cup Utcs \cup FixedOffsets \cup UtcOffsets
    \cup Aware("DateTimeUtc", NaiveDateTimes, Utcs)
    \cup Aware("DateTimeFixed", NaiveDateTimes, FixedOffsets)
    \cup Aware("OffsetDateTime", PrimitiveDateTimes, UtcOffsets)
    \cup TimeDeltas \cup TimeDurations

-----------------------------------------------------------------------------
(* Encodings, by their form: a list of numbers, a tuple of three, a pair   *)
(* of a date-time and an offset, a message of seconds and nanoseconds.     *)

Form(kind) ==
  CASE kind \in DOMAIN ListTypes -> "list"
    [] kind \in {"Utc", "FixedOffset", "UtcOffset"} -> "triple"
    [] kind \in {"DateTimeUtc", "DateTimeFixed", "OffsetDateTime"} -> "pair"
    [] kind \in {"TimeDelta", "TimeDuration", "duration"} -> "delta"

(* An aware date-time is a pair: chrono's of a date-time in UTC, that of   *)
(* time of one in the offset's own time.                                   *)
DateTimePair(offsetKind) == <<"NaiveDateTime", offsetKind>>
OffsetDateTimePair == <<"PrimitiveDateTime", "UtcOffset">>
PairOf(kind) ==
  CASE kind = "DateTimeUtc" -> DateTimePair("Utc")
    [] kind = "DateTimeFixed" -> DateTimePair("FixedOffset")
    [] kind = "OffsetDateTime" -> OffsetDateTimePair

(* What the bytes of each form hold.  A tuple has a field or not; what a    *)
(* list holds is a varint, whose width its decoder checks.                 *)
Option(S) == {Absent} \cup [1 .. 1 -> S]
Triple == [1 .. 3 -> Option(Nat)]
WireData(form) ==
  CASE form = "list" -> Seq(Nat)
    [] form = "triple" -> Triple
    [] form = "pair" -> Option(Seq(Nat)) \X Option(Triple)
    [] form = "delta" -> Option(U64) \X Option(I32)

NonZero(n) == IF n = 0 THEN Absent ELSE <<n>>
EncodeOffset(v) ==
  LET parts == OffsetParts(v)
  IN  [i \in 1 .. 3 |-> NonZero(Zigzag(parts[i]))]

Encoded(v) ==
  CASE Form(v.kind) = "list" -> EncodeList(v.kind, ListParts(v))
    [] Form(v.kind) = "triple" -> EncodeOffset(v)
    [] Form(v.kind) = "pair" ->
         LET list == EncodeList(v.datetime.kind, ListParts(v.datetime))
             triple == EncodeOffset(v.offset)
         IN  <<IF list = <<>> THEN Absent ELSE <<list>>,
               IF triple = <<Absent, Absent, Absent>> THEN Absent
               ELSE <<triple>>>>
    [] Form(v.kind) = "delta" ->
         LET parts == DeltaParts(v)
         IN  <<NonZero(Zigzag(parts[1])), NonZero(parts[2])>>

DecodeOffset(kind, fields) ==
  LET parts == [i \in 1 .. 3 |->
                  IF fields[i] = Absent THEN 0 ELSE Unzigzag(fields[i][1])]
  IN  IF \E i \in 1 .. 3 : parts[i] \notin I8 THEN Err("OutOfDomainValue")
      ELSE OfOffsetParts(kind, parts)

DecodeDate(kind, list) ==
  LET arr == DecodeList(kind, list)
  IN  IF arr.error # "none" THEN arr ELSE OfListParts(kind, arr.value)

Decoded(kind, data) ==
  CASE Form(kind) = "list" -> DecodeDate(kind, data)
    [] Form(kind) = "triple" -> DecodeOffset(kind, data)
    [] Form(kind) = "pair" ->
         LET kinds == PairOf(kind)
             date == DecodeDate(kinds[1],
                                IF data[1] = Absent THEN <<>> ELSE data[1][1])
             offset == DecodeOffset(kinds[2],
                         IF data[2] = Absent THEN <<Absent, Absent, Absent>>
                         ELSE data[2][1])
             with(o) == [kind |-> kind, datetime |-> date.value, offset |-> o]
         IN  IF date.error # "none" THEN date ELSE Then(offset, with)
    [] Form(kind) = "delta" ->
         OfDeltaParts(kind,
                      IF data[1] = Absent THEN 0 ELSE Unzigzag(data[1][1]),
                      IF data[2] = Absent THEN 0 ELSE data[2][1])

(* What the distinguished decoders find canonical: a list that does not    *)
(* end in a zero, and no field that holds the empty value.                 *)
CanonicalList(list) == list = <<>> \/ Last(list) # 0
CanonicalFields(fields) == \A i \in DOMAIN fields : fields[i] # <<0>>

CanonicalEncoding(form, data) ==
  CASE form = "list" -> CanonicalList(data)
    [] form \in {"triple", "delta"} -> CanonicalFields(data)
    [] form = "pair" ->
         /\ data[1] # Absent => data[1][1] # <<>> /\ CanonicalList(data[1][1])
         /\ data[2] # Absent =>
              /\ data[2][1] # <<Absent, Absent, Absent>>
              /\ CanonicalFields(data[2][1])

-----------------------------------------------------------------------------
(* Encoding a value and decoding it as any type with encodings of that     *)
(* form.  The encoding remembers the value, which no decoder sees.         *)

(* The relaxed decoder of the proxy of two durations checks their signs    *)
(* before the libraries' types are made; the distinguished one does not.   *)
RefusedByProxy(kind, data) ==
  /\ kind \in {"TimeDelta", "TimeDuration"}
  /\ data[1] # Absent /\ data[2] # Absent
  /\ MixedSigns(<<Unzigzag(data[1][1]), data[2][1]>>)

DecodedRelaxed(kind, data) ==
  IF Form(kind) = "delta" /\ RefusedByProxy(kind, data)
  THEN Err("InvalidValue") ELSE Decoded(kind, data)

EncodeForeign ==
  /\ held.kind \in ForeignKinds
  /\ held' = [kind |-> "wire", form |-> Form(held.kind), data |-> Encoded(held),
              from |-> held]

Readers(form) == {kind \in ForeignKinds : Form(kind) = form}

DecodeForeign ==
  /\ held.kind = "wire"
  /\ \E kind \in Readers(held.form) :
       LET result == DecodedRelaxed(kind, held.data)
       IN  held' = IF result.error = "none" THEN result.value ELSE Refused

ASSUME GivenForeignAssumption ==
  \A v \in GivenForeign :
    \/ v \in ForeignValue
    \/ \E form \in {"list", "triple", "pair", "delta"} :
         v \in [kind : {"wire"}, form : {form}, data : WireData(form),
               from : {NoValue}]

ForeignInit == CalendarInit \/ held \in GivenForeign

ForeignNext ==
  \/ CalendarNext
  \/ EncodeForeign
  \/ DecodeForeign

ForeignSpec == ForeignInit /\ [][ForeignNext]_held

-----------------------------------------------------------------------------
(* Properties.                                                             *)

(* The distinguished decoder of each type accepts what the relaxed one     *)
(* does, and finds canonical exactly what its value is encoded as: no two  *)
(* encodings of one date, offset or duration are both canonical            *)
(* (chrono.rs:541-567, "we don't want any two offsets to have the same     *)
(* total via different combinations"; local_proxy.rs:64-83).  A SystemTime *)
(* has no distinguished decoder.                                           *)
ForeignCanonical ==
  held.kind = "wire" =>
    \A kind \in Readers(held.form) \ {"system"} :
      LET result == Decoded(kind, held.data)
      IN  /\ (result.error = "none") <=>
               (DecodedRelaxed(kind, held.data).error = "none")
          /\ result.error = "none" =>
               (CanonicalEncoding(held.form, held.data) <=>
                  Encoded(result.value) = held.data)

(* The types an encoding may be read as, each time for the same value:     *)
(* README.md:2118-2126.                                                    *)
Widened(kind) ==
  {kind} \cup
  CASE kind = "NaiveDate" -> {"Date", "NaiveDateTime"}
    [] kind = "Date" -> {"NaiveDate", "PrimitiveDateTime"}
    [] kind = "NaiveTime" -> {"Time"}
    [] kind = "Time" -> {"NaiveTime"}
    [] kind = "NaiveDateTime" -> {"PrimitiveDateTime"}
    [] kind = "PrimitiveDateTime" -> {"NaiveDateTime"}
    [] kind = "Utc" -> {"FixedOffset", "UtcOffset"}
    [] kind = "FixedOffset" -> {"UtcOffset"}
    [] kind = "UtcOffset" -> {"FixedOffset"}
    [] kind = "DateTimeUtc" -> {"DateTimeFixed"}
    [] kind \in {"TimeDelta", "TimeDuration", "duration"} ->
         {"TimeDelta", "TimeDuration", "duration"}
    [] OTHER -> {}

(* Nanoseconds of a day, of a date since year 0, of an offset.             *)
ClockNanos(t) ==
  ((t.hour * MinutesPerHour + t.minute) * SecondsPerMinute + t.second)
      * NANOS_PER_SECOND + t.nanos
DateNanos(d) ==
  (DayNumber(d.year, 1, 1) + d.ordinal0) * SecondsPerDay * NANOS_PER_SECOND
OffsetNanos(o) ==
  NANOS_PER_SECOND * (CASE o.kind = "Utc" -> 0
                        [] o.kind = "FixedOffset" -> o.seconds
                        [] o.kind = "UtcOffset" -> SecondsEast(o.hms))
WallNanos(v) == DateNanos(v.date) + ClockNanos(v.time)

(* What a value says, as a count of nanoseconds and an offset.  A leap     *)
(* second is not the first second of the next minute.                      *)
Says(v) ==
  CASE v.kind \in {"NaiveDate", "Date"} -> <<DateNanos(v), 0, 0>>
    [] v.kind \in {"NaiveTime", "Time"} -> <<ClockNanos(v), v.second, 0>>
    [] v.kind \in {"NaiveDateTime", "PrimitiveDateTime"} ->
         <<WallNanos(v), v.time.second, 0>>
    [] Form(v.kind) = "triple" -> <<0, 0, OffsetNanos(v)>>
    [] v.kind \in {"DateTimeUtc", "DateTimeFixed"} ->
         <<WallNanos(v.datetime), v.datetime.time.second, OffsetNanos(v.offset)>>
    [] v.kind = "OffsetDateTime" ->
         <<WallNanos(v.datetime) - OffsetNanos(v.offset),
           v.datetime.time.second, OffsetNanos(v.offset)>>
    [] OTHER -> <<Total(v), 0, 0>>

(* What a type has a value for.                                            *)
CanHold(kind, v) ==
  CASE kind = "NaiveDate" -> v.year \in ChronoYears
    [] kind = "Date" -> v.year \in TimeYears
    [] kind = "Time" -> v.nanos \in Subsecond
    [] kind = "NaiveDateTime" /\ v.kind # "NaiveDate" ->
         v.date.year \in ChronoYears
    [] kind = "PrimitiveDateTime" /\ v.kind # "Date" ->
         v.date.year \in TimeYears /\ v.time.nanos \in Subsecond
    [] kind = "FixedOffset" ->
         OffsetNanos(v) \div NANOS_PER_SECOND
           \in -(SecondsPerDay - 1) .. SecondsPerDay - 1
    [] kind = "TimeDelta" /\ v.kind # "TimeDelta" ->
         /\ ~ MixedSigns(<<v.seconds, v.nanos>>)
         /\ v.nanos \in -NANOS_MAX .. NANOS_MAX
         /\ Total(v) \in -ChronoDeltaMax .. ChronoDeltaMax
    [] kind = "TimeDuration" /\ v.kind = "duration" ->
         /\ ~ MixedSigns(<<v.seconds, v.nanos>>)
         /\ v.nanos \in -NANOS_MAX .. NANOS_MAX
    [] OTHER -> TRUE

(* An encoding is read as its own type and as each type the documentation  *)
(* says it can be changed to, whenever that type has such a value; it      *)
(* says the same there, and is encoded as it was.                          *)
WidensAsDocumented ==
  held.kind = "wire" /\ held.from # NoValue =>
    \A kind \in Widened(held.from.kind) :
      LET result == DecodedRelaxed(kind, held.data)
      IN  /\ (result.error = "none") <=> CanHold(kind, held.from)
          /\ result.error = "none" =>
               /\ Says(result.value) = Says(held.from)
               /\ Encoded(result.value) = held.data

(* "chrono::DateTime<Tz> <--> time::OffsetDateTime | no change"            *)
(* (README.md:2125): both name the same instant.                           *)
SameInstant ==
  held.kind = "wire" /\ held.from # NoValue /\ held.form = "pair" =>
    \A kind \in {"DateTimeFixed", "OffsetDateTime"} :
      LET result == DecodedRelaxed(kind, held.data)
      IN  result.error = "none" => Says(result.value) = Says(held.from)

=============================================================================
