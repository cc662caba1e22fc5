----------------------------- MODULE DosDateTime -----------------------------
(***************************************************************************)
(* The dates of entries (src/src/dosdatetime.cpp), which archives hold in  *)
(* local time and with an even number of seconds, and the system's         *)
(* calendar they are converted with.                                       *)
(*                                                                         *)
(* A moment is a day, counted from January 1st 1980 UTC, and a second in   *)
(* that day; a date is the record of the bit fields of its 32 bit word.    *)
(***************************************************************************)
EXTENDS Integers

CONSTANTS
    Standard,       \* local time minus UTC in seconds, in winter
    SummerStart,    \* the moments between which it is an hour more
    SummerEnd

SecondsADay == 86400

Moment == [day : Int, sec : 0..SecondsADay - 1]

ASSUME ZoneAssumption ==
    /\ Standard \in -SecondsADay..SecondsADay /\ Standard % 2 = 0
    /\ SummerStart \in Moment /\ SummerEnd \in Moment

-----------------------------------------------------------------------------
(* Moments. *)

Plus(t, seconds) ==
    [day |-> t.day + (t.sec + seconds) \div SecondsADay,
     sec |-> (t.sec + seconds) % SecondsADay]

Before(t, u) == t.day < u.day \/ (t.day = u.day /\ t.sec < u.sec)

Epoch == [day |-> -3652, sec |-> 0]     \* the Unix timestamp 0

\* Bug: an even second is rounded up as well.
RoundedToNext(t) == Plus(t, 2 - (t.sec % 2))

\* unix_timestamp += 1; unix_timestamp &= ~1;
RoundedUp(t) == Plus(t, t.sec % 2)

-----------------------------------------------------------------------------
(* The calendar of the C library. *)

LeapDays(year) == (year - 1) \div 4 - (year - 1) \div 100 + (year - 1) \div 400
YearStart(year) == 365 * (year - 1980) + LeapDays(year) - LeapDays(1980)

MonthStarts(year) ==
    LET leap == YearStart(year + 1) - YearStart(year) - 365
    IN  << 0, 31, 59 + leap, 90 + leap, 120 + leap, 151 + leap, 181 + leap,
           212 + leap, 243 + leap, 273 + leap, 304 + leap, 334 + leap, 365 + leap >>

\* The year is looked for near the one it would be if all were equally long.
CivilDate(day) ==
    LET guess == 1980 + (400 * day) \div 146097
        year == CHOOSE y \in guess - 1 .. guess + 1 :
                    YearStart(y) <= day /\ day < YearStart(y + 1)
        yday == day - YearStart(year)
        month == CHOOSE m \in 1..12 :
                    MonthStarts(year)[m] <= yday /\ yday < MonthStarts(year)[m + 1]
    IN  [year |-> year, month |-> month, mday |-> yday - MonthStarts(year)[month] + 1]

IsSummer(t) == ~Before(t, SummerStart) /\ Before(t, SummerEnd)

Localtime(t) == Plus(t, Standard + IF IsSummer(t) THEN 3600 ELSE 0)

\* With tm_isdst = -1 a time that occurs twice may be either, and one that is
\* skipped is taken as an hour earlier or later.
Mktime(local) ==
    LET winter == Plus(local, -Standard)
        summer == Plus(local, -Standard - 3600)
        exact == {t \in {winter, summer} : Localtime(t) = local}
    IN  IF exact # {} THEN exact ELSE {winter, summer}

-----------------------------------------------------------------------------
(* class DOSDateTime *)

Date ==
    [second : 0..31, minute : 0..63, hour : 0..31, mday : 0..31, month : 0..15,
     year : 0..127]

\* The union of the fields and their word, as two numbers of 16 bits.
Word(date) ==
    << date.second + 32 * date.minute + 2048 * date.hour,
       date.mday + 32 * date.month + 512 * date.year >>

\* setDOSDateTime()
DateOf(word) ==
    [second |-> word[1] % 32, minute |-> (word[1] \div 32) % 64,
     hour |-> word[1] \div 2048, mday |-> word[2] % 32,
     month |-> (word[2] \div 32) % 16, year |-> word[2] \div 512]

NotSet == [second |-> 0, minute |-> 0, hour |-> 0, mday |-> 0, month |-> 0, year |-> 0]

\* Bug: the centuries are forgotten.
DaysInMonthOfJulian(date) ==
    CASE date.month \notin 1..12 -> -1
      [] date.month = 2 -> IF (date.year + 1980) % 4 = 0 THEN 29 ELSE 28
      [] date.month \in {4, 6, 9, 11} -> 30
      [] OTHER -> 31

DaysInMonth(date) ==
    LET year == date.year + 1980
    IN  CASE date.month \notin 1..12 -> -1
          [] date.month = 2 ->
                IF year % 400 = 0 \/ (year % 4 = 0 /\ year % 100 # 0) THEN 29 ELSE 28
          [] date.month \in {4, 6, 9, 11} -> 30
          [] OTHER -> 31

IsValid(date) ==
    /\ date.second < 30 /\ date.minute < 60 /\ date.hour < 24
    /\ date.mday > 0 /\ date.mday <= DaysInMonth(date)
    /\ date.month > 0 /\ date.month < 13

\* The setters: the field, the range that does not throw, what is stored.
SetterRange ==
    [second |-> 0..59, minute |-> 0..59, hour |-> 0..23, mday |-> 1..31,
     month |-> 1..12, year |-> 1980..2107]

Stored(field, value) ==
    CASE field = "second" -> value \div 2
      [] field = "year" -> value - 1980
      [] OTHER -> value

Set(date, field, value) == [date EXCEPT ![field] = Stored(field, value)]

\* Bug: the second is not halved and loses a bit.
FieldsWhole(t) ==
    LET civil == CivilDate(t.day)
    IN  [second |-> (t.sec % 60) % 32, minute |-> (t.sec \div 60) % 60,
         hour |-> t.sec \div 3600, mday |-> civil.mday, month |-> civil.month,
         year |-> civil.year - 1980]

Fields(t) ==
    LET civil == CivilDate(t.day)
    IN  [second |-> (t.sec % 60) \div 2, minute |-> (t.sec \div 60) % 60,
         hour |-> t.sec \div 3600, mday |-> civil.mday, month |-> civil.month,
         year |-> civil.year - 1980]

\* setUnixTimestamp() does not throw.
Representable(t) == CivilDate(Localtime(RoundedUp(t)).day).year \in 1980..2107

\* setUnixTimestamp()
OfUnixTimestamp(t) == Fields(Localtime(RoundedUp(t)))

\* Bug: the month is not counted from 0.
LocalMomentNextMonth(date) ==
    [day |-> YearStart(date.year + 1980) + MonthStarts(date.year + 1980)[date.month + 1]
                + date.mday - 1,
     sec |-> 3600 * date.hour + 60 * date.minute + 2 * date.second]

\* The struct tm that getUnixTimestamp() fills.
LocalMoment(date) ==
    [day |-> YearStart(date.year + 1980) + MonthStarts(date.year + 1980)[date.month]
                + date.mday - 1,
     sec |-> 3600 * date.hour + 60 * date.minute + 2 * date.second]

\* getUnixTimestamp(): what it may return.
UnixTimestamps(date) == IF IsValid(date) THEN Mktime(LocalMoment(date)) ELSE {Epoch}
=============================================================================
