\* Conversions of durations, timestamps and dates; a value that was refused
\* or panicked is the end of its behaviour.
SPECIFICATION ForeignSpec
CONSTANTS
  I64Max <- MCI64Max
  I32Max = 370
  I8Max = 4
  NANOS_PER_SECOND = 3
  SystemSeconds <- I64
  Given <- MCGiven
  GivenDates <- MCGivenDates
  GivenForeign <- MCGivenForeign
  HoursPerDay = 2
  MinutesPerHour = 2
  SecondsPerMinute = 2
  ChronoYears <- MCChronoYears
  TimeYears <- MCTimeYears
  ChronoDeltaMax = 20
  TimeOffsetHours = 3
INVARIANT SameInstant
CHECK_DEADLOCK FALSE
