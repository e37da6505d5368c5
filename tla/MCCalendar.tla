----------------------------- MODULE MCCalendar -----------------------------
(***************************************************************************)
(* Timestamps over 900 years of days of 8 seconds of 3 nanoseconds: all    *)
(* nanoseconds at both ends of the range and around the epoch, the first   *)
(* and last second of each day of the years around which the calendar      *)
(* algorithms change course, and dates that do not exist.  chrono has two  *)
(* years that time has not, time offsets of more than a day; encodings are *)
(* those of values and ones with zeros, too many numbers and numbers at    *)
(* the ends of each type's range.                                          *)
(***************************************************************************)
EXTENDS ForeignTime

MCI64Max == 8 * 365 * 450
Ends == {-I64Max - 1, -I64Max, -I64Max + 1, -I64Max + 2, I64Max - 3, I64Max - 2,
         I64Max - 1, I64Max}
Middle == -3 .. 3

NanosEnds ==
  (-8 .. 7) \cup (-I32Max - 1 .. -I32Max + 2) \cup (I32Max - 3 .. I32Max)

Pairs(kind) ==
  [kind : {kind}, seconds : Ends \cup Middle, nanos : NanosEnds]

(* Days of a year and a month before and after it.                         *)
Days(year) ==
  LET first == ((year - 1970) * 146097) \div 400 IN first - 31 .. first + 397
Years == {1600, 1700, 1800, 1900, 1904, 1968, 1970, 1996, 2000, 2037, 2038,
          2039, 2100, 2300, 2400}
DayEnds ==
  [kind : {"timestamp"}, nanos : {0},
   seconds : UNION {{8 * d, 8 * d + 7} : d \in UNION {Days(y) : y \in Years}}]

MCGiven ==
  Pairs("duration") \cup Pairs("timestamp") \cup DayEnds
    \cup [kind : {"std"}, nanos : Subsecond,
          seconds : (0 .. 2) \cup (I64Max - 1 .. I64Max + 2)
                      \cup {2 * I64Max + 1}]
    \cup [kind : {"system"}, seconds : Ends \cup Middle, nanos : Subsecond]
    \cup [kind : {"durationText", "minusText"}, nanos : Subsecond,
          seconds : {0, 1, 2, I64Max, I64Max + 1}]

(* The dates of the ends, and dates of February and around the new year.   *)
EndDates == {DateTimeMin, DateTimeMax}
SomeDates ==
  [kind : {"dateTime"}, year : {1900, 1996, 2000, 2038, 2039, 2100},
   month : {0, 1, 2, 3, 12, 13}, day : {0, 1, 28, 29, 30, 31, 32},
   hour : {0, 2}, minute : {1}, second : {0, 2}, nanos : {0, 3}]
NearEnds ==
  {[d EXCEPT !.day = d.day + a, !.second = s, !.nanos = n] :
     d \in EndDates, a \in {-1, 0, 1}, s \in 0 .. 2, n \in Subsecond}
WithOffset(d, h, m, sign) ==
  [kind |-> "dateText", year |-> d.year, month |-> d.month, day |-> d.day,
   hour |-> d.hour, minute |-> d.minute, second |-> d.second, nanos |-> d.nanos,
   offsetHour |-> h, offsetMinute |-> m, sign |-> sign]
MidnightDates ==
  {[d EXCEPT !.second = s] : d \in {e \in SomeDates : e.hour = 0}, s \in {1, 2}}
Texts ==
  {WithOffset(d, h, m, sign) :
     d \in NearEnds \cup MidnightDates,
     h \in {0, 1, 2}, m \in {0, 1, 2}, sign \in {1, -1}}
MCGivenDates == SomeDates \cup NearEnds \cup Texts

-----------------------------------------------------------------------------
(* Values of the other libraries.                                          *)

MCChronoYears == -2 .. 2
MCTimeYears == -1 .. 1

Made(results) == {r.value : r \in {x \in results : x.error = "none"}}

GivenNaive(kind) ==
  Made({OfListParts(kind, <<y, o>>) : y \in -3 .. 3, o \in {0, 1, 364, 365, 366}})
GivenClock(kind) ==
  Made({OfListParts(kind, <<h, m, s, n>>) :
          h \in 0 .. 2, m \in 0 .. 2, s \in 0 .. 2, n \in 0 .. 6})
DateKindOf(kind) == IF kind = "NaiveDateTime" THEN "NaiveDate" ELSE "Date"
TimeKindOf(kind) == IF kind = "NaiveDateTime" THEN "NaiveTime" ELSE "Time"
GivenNaiveTime(kind) ==
  [kind : {kind},
   date : {d \in GivenNaive(DateKindOf(kind)) : d.ordinal0 \in {0, 1, 365}},
   time : {t \in GivenClock(TimeKindOf(kind)) : t.hour = t.minute}]
GivenOffsets(kind) ==
  CASE kind = "Utc" -> {[kind |-> kind]}
    [] kind = "FixedOffset" ->
         [kind : {kind}, seconds : -(SecondsPerDay - 1) .. SecondsPerDay - 1]
    [] kind = "UtcOffset" ->
         [kind : {kind},
          hms : {p \in (-3 .. 3) \X (-1 .. 1) \X (-1 .. 1) : ~ MixedSigns(p)}]
GivenAware(kind) ==
  [kind : {kind},
   datetime : {d \in GivenNaiveTime(PairOf(kind)[1]) : d.date.year \in {-2, 0, 1}
                                                      /\ d.date.ordinal0 # 1},
   offset : {o \in GivenOffsets(PairOf(kind)[2]) :
               Quotient(OffsetNanos(o), NANOS_PER_SECOND) \in {-8, -3, 0, 2, 7}}]

GivenDeltas ==
  Made({NewTimeDelta(s, n) : s \in -10 .. 10, n \in Subsecond})
    \cup Made({OfDeltaParts("TimeDuration", s, n) :
                 s \in Ends \cup Middle, n \in -3 .. 3})

(* Encodings that no value has.                                            *)
Wire(form, data) ==
  [kind |-> "wire", form |-> form, data |-> data, from |-> NoValue]

Numbers == {0, 1, 2, PLUS, MINUS, 2 * I32Max + 2}
Lists ==
  UNION {[1 .. n -> Numbers] : n \in 0 .. 3}
    \cup {l \o <<x>> : l \in UNION {[1 .. n -> {0, 1}] : n \in 3 .. 6},
                      x \in {0, 1, 2 * I32Max + 2}}
Triples == [1 .. 3 -> Option({0, 1, 2, 3, 6, 2 * I8Max + 2})]
RawPairs ==
  Option({<<>>, <<0>>, <<1>>, <<0, 1, 1>>})
    \X Option({<<Absent, Absent, Absent>>, <<<<0>>, Absent, Absent>>,
              <<<<1>>, Absent, <<1>>>>, <<Absent, <<2>>, <<1>>>>})
Deltas ==
  Option({0, 1, 2} \cup {Zigzag(s) : s \in Ends})
    \X Option((-3 .. 3) \cup {-I32Max - 1, I32Max})

MCGivenForeign ==
  GivenNaive("NaiveDate") \cup GivenNaive("Date")
    \cup GivenClock("NaiveTime") \cup GivenClock("Time")
    \cup GivenNaiveTime("NaiveDateTime") \cup GivenNaiveTime("PrimitiveDateTime")
    \cup UNION {GivenOffsets(k) : k \in {"Utc", "FixedOffset", "UtcOffset"}}
    \cup UNION {GivenAware(k) :
                  k \in {"DateTimeUtc", "DateTimeFixed", "OffsetDateTime"}}
    \cup GivenDeltas
    \cup {Wire("list", l) : l \in Lists} \cup {Wire("triple", t) : t \in Triples}
    \cup {Wire("pair", p) : p \in RawPairs} \cup {Wire("delta", d) : d \in Deltas}

=============================================================================
