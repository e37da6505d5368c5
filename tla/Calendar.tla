------------------------------ MODULE Calendar ------------------------------
(***************************************************************************)
(* Timestamps as dates and times of day (bilrost-types/src/datetime.rs):   *)
(* the conversion of a timestamp to a DateTime and back, over all of the   *)
(* range of its seconds, and the reading of a DateTime with an offset from *)
(* text.  The lengths of the day's parts are constants; the days of the    *)
(* calendar are as they are.                                               *)
(***************************************************************************)
EXTENDS Time, Sequences

CONSTANTS
  HoursPerDay,        (* 24                                                *)
  MinutesPerHour,     (* 60                                                *)
  SecondsPerMinute,   (* 60                                                *)
  GivenDates          (* DateTimes and texts a program starts from         *)

SecondsPerHour == MinutesPerHour * SecondsPerMinute
SecondsPerDay == HoursPerDay * SecondsPerHour

(* A DateTime, and what was read of a text: a DateTime and an offset.      *)
DateKinds == {"dateTime", "dateText"}
DateTime ==
  [kind : {"dateTime"}, year : Int, month : Nat, day : Nat, hour : Nat,
   minute : Nat, second : Nat, nanos : Nat]
DateText ==
  [kind : {"dateText"}, year : Int, month : Nat, day : Nat, hour : Nat,
   minute : Nat, second : Nat, nanos : Nat, offsetHour : Nat,
   offsetMinute : Nat, sign : {1, -1}]

ASSUME CalendarAssumption ==
  /\ {HoursPerDay, MinutesPerHour, SecondsPerMinute} \subseteq Nat \ {0}
  /\ GivenDates \subseteq DateTime \cup DateText

-----------------------------------------------------------------------------
(* A timestamp as a DateTime: days are counted in cycles of 400, 100, 4    *)
(* years and one year from the first of March 2000.                        *)

LEAPOCH_DAYS == 10957 + 31 + 29
DAYS_PER_400Y == 365 * 400 + 97
DAYS_PER_100Y == 365 * 100 + 24
DAYS_PER_4Y == 365 * 4 + 1
MarchDays == <<31, 30, 31, 30, 31, 31, 30, 31, 30, 31, 31, 29>>

(* Quotient and remainder of n, rounded down from those to zero.           *)
FloorCycles(n, d) ==
  IF Remainder(n, d) < 0 THEN Quotient(n, d) - 1 ELSE Quotient(n, d)
FloorRest(n, d) ==
  IF Remainder(n, d) < 0 THEN Remainder(n, d) + d ELSE Remainder(n, d)

(* Mutant: the last day of the last cycle begins another one.              *)
CyclesUnbounded(n, d, most) == n \div d

(* Cycles of d days in n days; the day over at the end is in the last one. *)
Cycles(n, d, most) == IF n \div d = most + 1 THEN most ELSE n \div d

(* How many of MarchDays have passed, day days into the year.              *)
MonthsPassed(day) ==
  LET before[m \in 0 .. 11] == IF m = 0 THEN 0 ELSE before[m - 1] + MarchDays[m]
  IN  CHOOSE m \in 0 .. 11 :
        before[m] <= day /\ day < before[m] + MarchDays[m + 1]
DaysPassed(m) ==
  LET before[k \in 0 .. 11] == IF k = 0 THEN 0 ELSE before[k - 1] + MarchDays[k]
  IN  before[m]

DateTimeOf(timestamp) ==
  LET t == NormalTimestamp(timestamp)
      days == FloorCycles(t.seconds, SecondsPerDay) - LEAPOCH_DAYS
      time == FloorRest(t.seconds, SecondsPerDay)
      quads == FloorCycles(days, DAYS_PER_400Y)
      in400 == FloorRest(days, DAYS_PER_400Y)
      c == Cycles(in400, DAYS_PER_100Y, 3)
      in100 == in400 - c * DAYS_PER_100Y
      q == Cycles(in100, DAYS_PER_4Y, 24)
      in4 == in100 - q * DAYS_PER_4Y
      y == Cycles(in4, 365, 3)
      in1 == in4 - y * 365
      m == MonthsPassed(in1)
      wraps == m >= 10
      years == y + 4 * q + 100 * c + 400 * quads
  IN  [kind |-> "dateTime",
       year |-> (IF wraps THEN years + 1 ELSE years) + 2000,
       month |-> (IF wraps THEN m - 12 ELSE m) + 3,
       day |-> in1 - DaysPassed(m) + 1,
       hour |-> time \div SecondsPerHour,
       minute |-> (time \div SecondsPerMinute) % MinutesPerHour,
       second |-> time % SecondsPerMinute,
       nanos |-> t.nanos]

-----------------------------------------------------------------------------
(* A DateTime as a timestamp.                                              *)

(* The days from the epoch to the start of a year and whether it is a leap *)
(* year: year_to_seconds, which counts them in seconds.  From 1901 to 2038 *)
(* every fourth year is one.                                               *)
NearYear(year) ==
  LET y == year - 1900
      isLeap == (y - 68) % 4 = 0
      leaps == (y - 68) \div 4
  IN  [days |-> 365 * (y - 70) + (IF isLeap THEN leaps - 1 ELSE leaps),
       isLeap |-> isLeap]

FarYear(year) ==
  LET y == year - 2000
      cycles == FloorCycles(y, 400)
      rest == FloorRest(y, 400)
      centuries == rest \div 100
      inCentury == rest % 100
      isLeap == IF inCentury = 0 THEN rest = 0 ELSE inCentury % 4 = 0
      leaps == inCentury \div 4 + 97 * cycles + 24 * centuries
  IN  [days |-> y * 365 + 10957 + 1
                  + (IF isLeap THEN leaps - 1 ELSE leaps),
       isLeap |-> isLeap]

YearToDays(year) ==
  IF year - 1900 \in 1 .. 138 THEN NearYear(year) ELSE FarYear(year)

MonthDays == <<31, 28, 31, 30, 31, 30, 31, 31, 30, 31, 30, 31>>
ThroughMonth == <<0, 31, 59, 90, 120, 151, 181, 212, 243, 273, 304, 334>>

MonthToDays(month, isLeap) ==
  ThroughMonth[month] + (IF isLeap /\ month > 2 THEN 1 ELSE 0)

DaysInMonth(year, month) ==
  MonthDays[month] + (IF YearToDays(year).isLeap /\ month = 2 THEN 1 ELSE 0)

DateTimeToSeconds(d) ==
  LET start == YearToDays(d.year)
      seconds == (start.days + MonthToDays(d.month, start.isLeap) + d.day - 1)
                     * SecondsPerDay
                   + d.hour * SecondsPerHour + d.minute * SecondsPerMinute
                   + d.second
  IN  Wrapped(seconds, I64Max)

(* The derived order of DateTime: of its fields, in their order.           *)
Fields(d) == <<d.year, d.month, d.day, d.hour, d.minute, d.second, d.nanos>>
AtMost(d, e) ==
  \/ Fields(d) = Fields(e)
  \/ \E i \in 1 .. 7 : /\ Fields(d)[i] < Fields(e)[i]
                       /\ \A j \in 1 .. i - 1 : Fields(d)[j] = Fields(e)[j]

(* The constants MIN and MAX: the first and the last second of an i64.     *)
DateTimeMin == DateTimeOf(TimestampMin)
DateTimeMax == DateTimeOf(TimestampMax)

(* Mutant: the month's days are those of any year.                         *)
IsValidAnyYear(d) ==
  /\ AtMost(DateTimeMin, d) /\ AtMost(d, DateTimeMax)
  /\ d.month \in 1 .. 12
  /\ d.day \in 1 .. MonthDays[d.month]
  /\ d.hour < HoursPerDay /\ d.minute < MinutesPerHour
  /\ d.second < SecondsPerMinute /\ d.nanos < NANOS_PER_SECOND

IsValid(d) ==
  /\ AtMost(DateTimeMin, d) /\ AtMost(d, DateTimeMax)
  /\ d.month \in 1 .. 12
  /\ d.day \in 1 .. DaysInMonth(d.year, d.month)
  /\ d.hour < HoursPerDay /\ d.minute < MinutesPerHour
  /\ d.second < SecondsPerMinute /\ d.nanos < NANOS_PER_SECOND

TimestampOf(d) ==
  [kind |-> "timestamp", seconds |-> DateTimeToSeconds(d), nanos |-> d.nanos]

DateTimeFromTimestamp ==
  /\ held.kind = "timestamp"
  /\ held' = DateTimeOf(held)

TimestampFromDateTime ==
  /\ held.kind = "dateTime"
  /\ held' = IF IsValid(held) THEN TimestampOf(held) ELSE Refused

(* A second of 60 is a leap second and counts as the one before it; the    *)
(* offset is taken off once the date is known to be valid.                 *)
ParseTimestamp ==
  /\ held.kind = "dateText"
  /\ LET d == [held EXCEPT !.second =
                 IF held.second = SecondsPerMinute THEN held.second - 1
                 ELSE held.second]
         offset == held.sign * (held.offsetHour * SecondsPerHour
                                  + held.offsetMinute * SecondsPerMinute)
         offsetOk == /\ held.offsetHour < HoursPerDay
                     /\ held.offsetMinute < MinutesPerHour
     IN  held' = IF /\ offsetOk /\ IsValid(d)
                    /\ DateTimeToSeconds(d) - offset \in I64
                 THEN [TimestampOf(d) EXCEPT !.seconds = @ - offset]
                 ELSE Refused

CalendarInit == Init \/ held \in GivenDates

CalendarNext ==
  \/ Next
  \/ DateTimeFromTimestamp
  \/ TimestampFromDateTime
  \/ ParseTimestamp

CalendarSpec == CalendarInit /\ [][CalendarNext]_held

-----------------------------------------------------------------------------
(* Properties, against the rules of the proleptic Gregorian calendar.      *)

Leap(year) == year % 4 = 0 /\ (year % 100 # 0 \/ year % 400 = 0)
LengthOf(year, month) ==
  IF month = 2 THEN IF Leap(year) THEN 29 ELSE 28
  ELSE IF month \in {4, 6, 9, 11} THEN 30 ELSE 31

(* Days since the first of January of year 0.                              *)
DayNumber(year, month, day) ==
  LET lengths[m \in 0 .. 12] ==
        IF m = 0 THEN 0 ELSE lengths[m - 1] + LengthOf(year, m)
      past == year - 1
  IN  365 * year + past \div 4 - past \div 100 + past \div 400 + 1
        + lengths[month - 1] + day - 1

IsGregorian(d) ==
  /\ d.month \in 1 .. 12 /\ d.day \in 1 .. LengthOf(d.year, d.month)
  /\ d.hour \in 0 .. HoursPerDay - 1
  /\ d.minute \in 0 .. MinutesPerHour - 1
  /\ d.second \in 0 .. SecondsPerMinute - 1
  /\ d.nanos \in Subsecond

(* The seconds and the nanoseconds since the epoch of a date and time.     *)
SecondsSinceEpoch(d) ==
  (DayNumber(d.year, d.month, d.day) - DayNumber(1970, 1, 1)) * SecondsPerDay
    + d.hour * SecondsPerHour + d.minute * SecondsPerMinute + d.second

(* The local time and the offset of a text; a leap second is the last one. *)
LocalTime(v) ==
  IF v.kind = "dateText" /\ v.second = SecondsPerMinute
  THEN [v EXCEPT !.second = @ - 1] ELSE v
Offset(v) ==
  IF v.kind = "dateText"
  THEN v.sign * (v.offsetHour * SecondsPerHour
                   + v.offsetMinute * SecondsPerMinute)
  ELSE 0

(* What the conversions of this module and of Time convert.                *)
Converted ==
  {"duration", "timestamp", "negative", "minusText", "std", "system",
   "durationText"} \cup DateKinds

(* The time, in nanoseconds, a value stands for.                           *)
Meaning(v) ==
  CASE v.kind = "duration" -> NearestDuration(v)
    [] v.kind = "timestamp" -> NearestTimestamp(v)
    [] v.kind \in {"negative", "minusText"} -> -Total(v)
    [] v.kind \in {"std", "system", "durationText"} -> Total(v)
    [] v.kind \in DateKinds ->
         (SecondsSinceEpoch(LocalTime(v)) - Offset(v)) * NANOS_PER_SECOND
           + v.nanos

(* No sequence of conversions changes the time a value stands for, through *)
(* the standard library's types, through dates and through text: each      *)
(* conversion returns a value for the same time, or none                   *)
(* (bilrost-types/src/lib.rs:108-139, 318-337, 384-408, datetime.rs:97-179 *)
(* and 487-583).  Negation turns a duration round unless it wraps.         *)
ConversionsKeepTime ==
  [][ held.kind \in Converted /\ held'.kind \in Converted =>
        \/ Meaning(held') = Meaning(held)
        \/ /\ Negate
           /\ \/ Total(held') = -Total(held)
              \/ held.seconds = -I64Max - 1 \/ held.nanos = -I32Max - 1 ]_held

(* Dates are refused exactly if they are none of the calendar's, or not in *)
(* the range of a timestamp before or after their offset; and what a       *)
(* timestamp is turned into is a date of the calendar, as the debug        *)
(* assertion says (datetime.rs:176, 55-63 and 487-538).                    *)
AcceptsExactlyDates ==
  [][ /\ held.kind \in DateKinds =>
           ((held' # Refused) <=>
              /\ IsGregorian(LocalTime(held))
              /\ SecondsSinceEpoch(LocalTime(held)) \in I64
              /\ SecondsSinceEpoch(LocalTime(held)) - Offset(held) \in I64
              /\ held.kind = "dateText" =>
                   /\ held.offsetHour < HoursPerDay
                   /\ held.offsetMinute < MinutesPerHour)
      /\ held.kind = "timestamp" /\ held'.kind = "dateTime" =>
           IsGregorian(held') ]_held

=============================================================================
