--------------------------- MODULE EntryTime_proofs ---------------------------
(***************************************************************************)
(* What is written is what is read: numbers of every width, the fields of  *)
(* every record wherever they stand, and dates; rounding a time that was   *)
(* rounded changes nothing, the calendar has the dates that are valid, and *)
(* a date does not drift however often an archive is read and written.     *)
(***************************************************************************)
EXTENDS EntryTime, SequenceTheorems, WellFoundedInduction, TLAPS

-----------------------------------------------------------------------------
(* Numbers. *)

LEMMA DigitOfNumber ==
    ASSUME NEW number \in Number, NEW k \in 1..Len(number)
    PROVE  number[k] \in Int /\ 0 <= number[k] /\ number[k] < DigitMod
<1>1. number[k] \in Digit
    BY ElementOfSeq, Zenon DEF Number
<1>2. DigitMod \in Int
    BY SMT DEF DigitMod
<1>. QED
    BY <1>1, <1>2, SMT DEF Digit

\* The two octets of a digit.
LEMMA OctetsOfDigit ==
    ASSUME NEW d \in Int, 0 <= d, d < DigitMod
    PROVE  d % 256 \in Octet /\ d \div 256 \in Octet /\ (d % 256) + 256 * (d \div 256) = d
<1>1. d % 256 \in 0..255 /\ d \div 256 \in Int /\ (d % 256) + 256 * (d \div 256) = d
    BY SMT
<1>2. 0 <= d \div 256
    BY SMT
<1>3. d \div 256 < 256
    BY SMT DEF DigitMod
<1>. QED
    BY <1>1, <1>2, <1>3, SMT DEF Octet

\* Bytes() gives two octets for each digit.
LEMMA BytesType ==
    ASSUME NEW number \in Number
    PROVE  Bytes(number) \in Seq(Octet) /\ Len(Bytes(number)) = 2 * Len(number)
<1>. DEFINE n == 2 * Len(number)
            octet(i) == IF i % 2 = 1 THEN number[(i + 1) \div 2] % 256
                                     ELSE number[i \div 2] \div 256
<1>1. Len(number) \in Nat
    BY LenProperties DEF Number
<1>2. ASSUME NEW i \in 1..n
      PROVE  octet(i) \in Octet
    <2>1. CASE i % 2 = 1
        <3>1. (i + 1) \div 2 \in 1..Len(number)
            BY <1>1, <2>1, SMT
        <3>. QED
            BY <2>1, <3>1, DigitOfNumber, OctetsOfDigit, SMT
    <2>2. CASE i % 2 # 1
        <3>1. i \div 2 \in 1..Len(number)
            BY <1>1, <2>2, SMT
        <3>. QED
            BY <2>2, <3>1, DigitOfNumber, OctetsOfDigit, SMT
    <2>. QED
        BY <2>1, <2>2
<1>3. n \in Nat
    BY <1>1, SMT
<1>4. Bytes(number) = [i \in 1..n |-> octet(i)]
    BY DEF Bytes
<1>. HIDE DEF n, octet
<1>5. [i \in 1..n |-> octet(i)] \in Seq(Octet) /\ Len([i \in 1..n |-> octet(i)]) = n
    BY <1>2, <1>3, IsASeq, SMT
<1>. QED
    BY <1>4, <1>5 DEF n

(* zipRead() of what zipWrite() wrote is the number, whatever its width
   (src/src/zipios_common.cpp:74, src/src/zipios_common.cpp:237). *)
THEOREM NumbersReadBack ==
    ASSUME NEW number \in Number
    PROVE  NumberOf(Bytes(number)) = number
<1>1. Len(number) \in Nat /\ Len(Bytes(number)) = 2 * Len(number)
    BY BytesType, LenProperties DEF Number
<1>2. Len(Bytes(number)) \div 2 = Len(number)
    BY <1>1, SMT
<1>3. ASSUME NEW i \in 1..Len(number)
      PROVE  Bytes(number)[2 * i - 1] + 256 * Bytes(number)[2 * i] = number[i]
    <2>1. 2 * i - 1 \in 1..2 * Len(number) /\ 2 * i \in 1..2 * Len(number)
        BY <1>1, SMT
    <2>2. (2 * i - 1) % 2 = 1 /\ (2 * i - 1 + 1) \div 2 = i
        BY <1>1, SMT
    <2>3. (2 * i) % 2 # 1 /\ (2 * i) \div 2 = i
        BY <1>1, SMT
    <2>4. Bytes(number)[2 * i - 1] = number[i] % 256
        BY <2>1, <2>2, SMT DEF Bytes
    <2>5. Bytes(number)[2 * i] = number[i] \div 256
        BY <2>1, <2>3, SMT DEF Bytes
    <2>. QED
        BY <2>4, <2>5, DigitOfNumber, OctetsOfDigit, SMT
<1>4. NumberOf(Bytes(number)) = [i \in 1..Len(number) |-> number[i]]
    BY <1>2, <1>3, SMT DEF NumberOf
<1>5. number = [i \in 1..Len(number) |-> number[i]]
    BY LenProperties, SMT DEF Number
<1>. QED
    BY <1>4, <1>5

(* A number reads back from any place in any file, and the stream is behind it
   (src/src/zipios_common.cpp:74). *)
THEOREM FieldsReadBack ==
    ASSUME NEW before \in Seq(Octet), NEW after \in Seq(Octet), NEW number \in Number,
           NEW fields, NEW field, field \notin DOMAIN LengthField,
           Len(number) = IF field \in Words THEN 2 ELSE 1
    PROVE  ReadField(before \o Bytes(number) \o after,
                     [tell |-> Len(before), failed |-> FALSE, fields |-> fields], field)
            = [tell |-> Len(before) + 2 * Len(number), failed |-> FALSE,
               fields |-> With(fields, field, number)]
<1>. DEFINE bytes == Bytes(number)
            file == before \o bytes \o after
            n == Len(before)
            m == Len(bytes)
<1>1. bytes \in Seq(Octet) /\ m = 2 * Len(number) /\ Len(number) \in Nat
    BY BytesType, LenProperties DEF Number
<1>2. Count(fields, field) = m
    BY <1>1, SMT DEF Count
<1>3. n \in Nat /\ m \in Nat /\ Len(after) \in Nat
    BY <1>1, LenProperties, SMT
<1>4. /\ before \o bytes \in Seq(Octet) /\ Len(before \o bytes) = n + m
      /\ \A i \in 1..n + m :
            (before \o bytes)[i] = IF i <= n THEN before[i] ELSE bytes[i - n]
    BY <1>1, ConcatProperties, Zenon
<1>5. /\ file \in Seq(Octet) /\ Len(file) = n + m + Len(after)
      /\ \A i \in 1..n + m : file[i] = (before \o bytes)[i]
    BY <1>3, <1>4, ConcatProperties, SMT
<1>6. \A i \in 1..m : file[n + i] = bytes[i]
    BY <1>3, <1>4, <1>5, SMT
<1>7. SubSeq(file, n + 1, n + m) = bytes
    BY <1>1, <1>3, <1>5, <1>6, SMT
<1>8. NumberOf(bytes) = number
    BY NumbersReadBack
<1>9. ~(n + m > Len(file))
    BY <1>3, <1>5, SMT
<1>. HIDE DEF bytes, file, n, m
<1>10. ReadField(file, [tell |-> n, failed |-> FALSE, fields |-> fields], field)
        = [tell |-> n + m, failed |-> FALSE, fields |-> With(fields, field, number)]
    BY <1>2, <1>7, <1>8, <1>9, Zenon DEF ReadField
<1>. QED
    BY <1>1, <1>10 DEF bytes, file, n, m

-----------------------------------------------------------------------------
(* Dates and times. *)

(* The word of a date is a uint32_t and gives the date back, valid or not: the
   bit fields do not overlap (src/src/dosdatetime.cpp:54). *)
THEOREM DatesReadBack ==
    ASSUME NEW given \in Date
    PROVE  Word(given) \in Number /\ DateOf(Word(given)) = given
<1>. DEFINE s == given.second   m == given.minute   h == given.hour
            d == given.mday     n == given.month    y == given.year
            low == s + 32 * m + 2048 * h
            high == d + 32 * n + 512 * y
<1>1. s \in 0..31 /\ m \in 0..63 /\ h \in 0..31
    BY Zenon DEF Date
<1>2. d \in 0..31 /\ n \in 0..15 /\ y \in 0..127
    BY Zenon DEF Date
<1>3. given = [second |-> s, minute |-> m, hour |-> h, mday |-> d, month |-> n, year |-> y]
    BY SMT DEF Date
<1>4. Word(given) = << low, high >>
    BY Zenon DEF Word
<1>. HIDE DEF s, m, h, d, n, y
<1>5. low % 32 = s
    BY <1>1, SMT
<1>6. low \div 2048 = h
    BY <1>1, SMT
<1>7. (low \div 32) % 64 = m
    <2>1. low \div 32 = m + 64 * h
        BY <1>1, SMT
    <2>2. (m + 64 * h) % 64 = m
        BY <1>1, SMT
    <2>. QED
        BY <2>1, <2>2, SMT
<1>8. high % 32 = d
    BY <1>2, SMT
<1>9. high \div 512 = y
    BY <1>2, SMT
<1>10. (high \div 32) % 16 = n
    <2>1. high \div 32 = n + 16 * y
        BY <1>2, SMT
    <2>2. (n + 16 * y) % 16 = n
        BY <1>2, SMT
    <2>. QED
        BY <2>1, <2>2, SMT
<1>11. low \in Digit /\ high \in Digit
    <2>1. low \in Int /\ 0 <= low /\ high \in Int /\ 0 <= high
        BY <1>1, <1>2, SMT
    <2>2. low < DigitMod
        BY <1>1, SMT DEF DigitMod
    <2>3. high < DigitMod
        BY <1>2, SMT DEF DigitMod
    <2>4. DigitMod \in Int
        BY SMT DEF DigitMod
    <2>. HIDE DEF low, high
    <2>. QED
        BY <2>1, <2>2, <2>3, <2>4, SMT DEF Digit
<1>. HIDE DEF low, high
<1>12. Word(given) \in Number
    BY <1>4, <1>11, SMT DEF Number
<1>13. Word(given)[1] = low /\ Word(given)[2] = high
    BY <1>4, SMT
<1>. QED
    BY <1>3, <1>5, <1>6, <1>7, <1>8, <1>9, <1>10, <1>12, <1>13, SMT DEF DateOf

\* A second that is rounded up, and one that is even.
LEMMA EvenSecond ==
    ASSUME NEW s \in Int
    PROVE  (s + (s % 2)) % 2 = 0 /\ s + (s % 2) \in Int
    BY SMT

LEMMA SecondOfDay ==
    ASSUME NEW r \in Int, r % 2 = 0
    PROVE  /\ r \div 86400 \in Int /\ r % 86400 \in Int
           /\ 0 <= r % 86400 /\ r % 86400 < 86400
           /\ (r % 86400) % 2 = 0
           /\ (r % 86400) \div 86400 = 0 /\ (r % 86400) % 86400 = r % 86400
<1>1. /\ r \div 86400 \in Int /\ r % 86400 \in Int
      /\ 0 <= r % 86400 /\ r % 86400 < 86400
    BY SMT
<1>2. r = 86400 * (r \div 86400) + (r % 86400)
    BY SMT
<1>3. ASSUME NEW q \in Int, NEW k \in Int, r = 86400 * q + k
      PROVE  k % 2 = 0
    BY <1>3, SMT
<1>4. ASSUME NEW k \in Int, 0 <= k, k < 86400
      PROVE  k \div 86400 = 0 /\ k % 86400 = k
    BY <1>4, SMT
<1>5. (r % 86400) % 2 = 0
    BY <1>1, <1>2, <1>3, SMT
<1>6. (r % 86400) \div 86400 = 0 /\ (r % 86400) % 86400 = r % 86400
    BY <1>1, <1>4, SMT
<1>. QED
    BY <1>1, <1>5, <1>6, SMT

(* A time that was rounded to an even second stays: written again and again it
   does not move (src/src/dosdatetime.cpp:549). *)
THEOREM RoundingIsStable ==
    ASSUME NEW t \in Moment
    PROVE  RoundedUp(t) \in Moment /\ RoundedUp(RoundedUp(t)) = RoundedUp(t)
<1>. DEFINE r == t.sec + (t.sec % 2)
            day == t.day + r \div SecondsADay
            sec == r % SecondsADay
<1>1. t.day \in Int /\ t.sec \in Int
    BY SMT DEF Moment
<1>2. r \in Int /\ r % 2 = 0
    BY <1>1, EvenSecond, Zenon
<1>3. RoundedUp(t) = [day |-> day, sec |-> sec]
    BY Zenon DEF RoundedUp, Plus
<1>. HIDE DEF r
<1>4. /\ r \div SecondsADay \in Int
      /\ sec \in Int /\ 0 <= sec /\ sec < SecondsADay /\ sec % 2 = 0
      /\ sec \div SecondsADay = 0 /\ sec % SecondsADay = sec
    BY <1>2, SecondOfDay, SMT DEF SecondsADay
<1>5. SecondsADay \in Int
    BY SMT DEF SecondsADay
<1>6. day \in Int
    BY <1>1, <1>4, SMT
<1>. HIDE DEF day, sec
<1>7. RoundedUp([day |-> day, sec |-> sec])
        = [day |-> day + sec \div SecondsADay, sec |-> sec % SecondsADay]
    <2>1. sec + 0 = sec
        BY <1>4, SMT
    <2>. QED
        BY <1>4, <2>1, SMT DEF RoundedUp, Plus
<1>8. [day |-> day, sec |-> sec] \in Moment
    BY <1>4, <1>5, <1>6, SMT DEF Moment
<1>9. day + sec \div SecondsADay = day
    BY <1>4, <1>6, SMT
<1>. QED
    BY <1>3, <1>4, <1>7, <1>8, <1>9, Zenon

-----------------------------------------------------------------------------
(* The calendar. *)

\* The years between two dates are 146097 days for every 400, to within two days.
Near(y) ==
    /\ YearStart(y) \in Int
    /\ 400 * YearStart(y) >= 146097 * (y - 1980) - 336
    /\ 400 * YearStart(y) <= 146097 * (y - 1980) + 759

LEMMA YearStartNear ==
    ASSUME NEW y \in Int
    PROVE  Near(y)
<1>. DEFINE n == y - 1
            q == n \div 4
            c == n \div 100
            e == n \div 400
<1>1. n \in Int /\ q \in Int /\ c \in Int /\ e \in Int
    BY SMT
<1>2. 4 * q <= n /\ n <= 4 * q + 3
    BY SMT
<1>3. 100 * c <= n /\ n <= 100 * c + 99
    BY SMT
<1>4. 400 * e <= n /\ n <= 400 * e + 399
    BY SMT
<1>5. LeapDays(1980) = 479
    BY SMT DEF LeapDays
<1>6. LeapDays(y) = q - c + e
    BY Zenon DEF LeapDays
<1>8. YearStart(y) = 365 * (y - 1980) + LeapDays(y) - 479
    BY <1>5, SMT DEF YearStart
<1>7. y = n + 1
    BY SMT
<1>. HIDE DEF n, q, c, e
<1>. QED
    BY <1>1, <1>2, <1>3, <1>4, <1>6, <1>7, <1>8, SMT DEF Near

\* The 29th of February.
IsLeap(year) == year % 400 = 0 \/ (year % 4 = 0 /\ year % 100 # 0)

\* A year has a day more exactly when days_in_month() says so.
LEMMA YearLength ==
    ASSUME NEW y \in Int
    PROVE  YearStart(y + 1) = YearStart(y) + 365 + IF IsLeap(y) THEN 1 ELSE 0
<1>1. PICK e \in Int, r \in 0..399 : y = 400 * e + r
    <2>1. y \div 400 \in Int /\ y % 400 \in 0..399 /\ y = 400 * (y \div 400) + (y % 400)
        BY SMT
    <2>. QED
        BY <2>1, SMT
<1>2. PICK q \in 0..99, j \in 0..3 : r = 4 * q + j
    <2>1. r \div 4 \in 0..99 /\ r % 4 \in 0..3 /\ r = 4 * (r \div 4) + (r % 4)
        BY SMT
    <2>. QED
        BY <2>1, SMT
<1>3. PICK c \in 0..3, k \in 0..99 : r = 100 * c + k
    <2>1. r \div 100 \in 0..3 /\ r % 100 \in 0..99 /\ r = 100 * (r \div 100) + (r % 100)
        BY SMT
    <2>. QED
        BY <2>1, SMT
<1>4. y \div 4 = 100 * e + q /\ (y % 4 = 0 <=> j = 0)
    BY <1>1, <1>2, SMT
<1>5. y \div 100 = 4 * e + c /\ (y % 100 = 0 <=> k = 0)
    BY <1>1, <1>3, SMT
<1>6. y \div 400 = e /\ (y % 400 = 0 <=> r = 0)
    BY <1>1, SMT
<1>7. (y - 1) \div 4 = IF j = 0 THEN 100 * e + q - 1 ELSE 100 * e + q
    BY <1>1, <1>2, SMT
<1>8. (y - 1) \div 100 = IF k = 0 THEN 4 * e + c - 1 ELSE 4 * e + c
    BY <1>1, <1>3, SMT
<1>9. (y - 1) \div 400 = IF r = 0 THEN e - 1 ELSE e
    BY <1>1, SMT
<1>10. IsLeap(y) <=> r = 0 \/ (j = 0 /\ k # 0)
    BY <1>4, <1>5, <1>6, Zenon DEF IsLeap
<1>11. (k = 0 => j = 0) /\ (r = 0 => k = 0)
    BY <1>2, <1>3, SMT
<1>12. (y + 1) - 1 = y
    BY SMT
<1>13. /\ LeapDays(y + 1) = y \div 4 - y \div 100 + y \div 400
       /\ LeapDays(y) = (y - 1) \div 4 - (y - 1) \div 100 + (y - 1) \div 400
    BY <1>12, Zenon DEF LeapDays
<1>14. LeapDays(y + 1) = LeapDays(y) + IF IsLeap(y) THEN 1 ELSE 0
    BY <1>4, <1>5, <1>6, <1>7, <1>8, <1>9, <1>10, <1>11, <1>13, SMT
<1>15. LeapDays(y) \in Int /\ LeapDays(1980) \in Int
    BY SMT DEF LeapDays
<1>. QED
    BY <1>14, <1>15, SMT DEF YearStart

\* A day is in one year.
LEMMA OneYear ==
    ASSUME NEW day \in Int, NEW y \in Int, NEW z \in Int,
           YearStart(y) <= day, day < YearStart(y + 1),
           YearStart(z) <= day, day < YearStart(z + 1)
    PROVE  y = z
<1>1. ASSUME NEW a \in Int, NEW b \in Int, YearStart(b) <= day, day < YearStart(a + 1)
      PROVE  ~(a < b)
    <2>1. PICK c \in Int : c = a + 1
        BY SMT
    <2>2. Near(b) /\ Near(c)
        BY YearStartNear
    <2>3. YearStart(b) \in Int /\ YearStart(c) \in Int
        BY <2>2 DEF Near
    <2>4. YearStart(b) < YearStart(c)
        BY <1>1, <2>1, <2>3, SMT
    <2>5. ~(b >= c + 1)
        BY <2>2, <2>4, SMT DEF Near
    <2>6. b # c
        BY <2>3, <2>4, SMT
    <2>. QED
        BY <2>1, <2>5, <2>6, SMT
<1>2. ~(y < z) /\ ~(z < y)
    BY <1>1
<1>. QED
    BY <1>2, SMT

\* Every day is in a year near the guess.
LEMMA YearExists ==
    ASSUME NEW day \in Int, NEW g \in Int, g = 1980 + (400 * day) \div 146097
    PROVE  \E y \in g - 1 .. g + 1 : YearStart(y) <= day /\ day < YearStart(y + 1)
<1>1. /\ 400 * day >= 146097 * (g - 1980)
      /\ 400 * day < 146097 * (g - 1980) + 146097
    <2>1. PICK k \in Int : k = (400 * day) \div 146097
        BY SMT
    <2>2. 146097 * k <= 400 * day /\ 400 * day < 146097 * k + 146097
        BY <2>1, SMT
    <2>3. k = g - 1980
        BY <2>1, SMT
    <2>. QED
        BY <2>2, <2>3, SMT
<1>2. PICK f \in Int, h \in Int : f = g - 1 /\ h = g + 2
    BY SMT
<1>3. Near(f) /\ Near(g) /\ Near(h)
    BY <1>2, YearStartNear
<1>4. YearStart(f) <= day /\ day < YearStart(h)
    BY <1>1, <1>2, <1>3, SMT DEF Near
<1>6. CASE day < YearStart(g)
    <2>1. f \in g - 1 .. g + 1 /\ f + 1 = g
        BY <1>2, SMT
    <2>. QED
        BY <1>4, <1>6, <2>1
<1>7. CASE YearStart(g) <= day /\ day < YearStart(g + 1)
    BY <1>7, SMT
<1>8. CASE YearStart(g + 1) <= day
    <2>1. g + 1 \in g - 1 .. g + 1 /\ (g + 1) + 1 = h
        BY <1>2, SMT
    <2>. QED
        BY <1>4, <1>8, <2>1
<1>9. YearStart(g) \in Int /\ YearStart(g + 1) \in Int
    <2>1. PICK i \in Int : i = g + 1
        BY SMT
    <2>2. Near(i)
        BY YearStartNear
    <2>. QED
        BY <1>3, <2>1, <2>2 DEF Near
<1>. QED
    BY <1>6, <1>7, <1>8, <1>9, SMT

\* The days of a month, of a year with so many leap days.
MonthLength(month, leap) ==
    CASE month = 2 -> 28 + leap
      [] month \in {4, 6, 9, 11} -> 30
      [] OTHER -> 31

\* The days before each month of such a year, and before the next.
Starts(leap) ==
    << 0, 31, 59 + leap, 90 + leap, 120 + leap, 151 + leap, 181 + leap,
       212 + leap, 243 + leap, 273 + leap, 304 + leap, 334 + leap, 365 + leap >>

LEMMA StartsAre ==
    ASSUME NEW leap \in 0..1
    PROVE  /\ Starts(leap)[1] = 0 /\ Starts(leap)[13] = 365 + leap
           /\ \A m \in 1..12 :
                /\ Starts(leap)[m] \in 0..365
                /\ Starts(leap)[m + 1] = Starts(leap)[m] + MonthLength(m, leap)
                /\ MonthLength(m, leap) \in 28..31
<1>1. Starts(leap)[1] = 0 /\ Starts(leap)[13] = 365 + leap
    BY SMT DEF Starts
<1>2. ASSUME NEW m \in 1..12
      PROVE  Starts(leap)[m] \in 0..365
    BY SMT DEF Starts
<1>3. ASSUME NEW m \in 1..12
      PROVE  Starts(leap)[m + 1] = Starts(leap)[m] + MonthLength(m, leap)
    <2>1. m \in {1, 2, 3, 4, 5, 6, 7, 8, 9, 10, 11, 12}
        BY SMT
    <2>. QED
        BY <2>1, SMT DEF Starts, MonthLength
<1>4. ASSUME NEW m \in 1..12
      PROVE  MonthLength(m, leap) \in 28..31
    BY SMT DEF MonthLength
<1>. QED
    BY <1>1, <1>2, <1>3, <1>4

LEMMA StartAt ==
    ASSUME NEW leap \in 0..1, NEW m \in 1..12
    PROVE  /\ Starts(leap)[m] \in 0..365 /\ MonthLength(m, leap) \in 28..31
           /\ Starts(leap)[m + 1] = Starts(leap)[m] + MonthLength(m, leap)
    BY StartsAre

\* A day of the year is in one month.
LEMMA MonthExists ==
    ASSUME NEW leap \in 0..1, NEW yday \in Int, 0 <= yday, yday < 365 + leap
    PROVE  \E m \in 1..12 : Starts(leap)[m] <= yday /\ yday < Starts(leap)[m + 1]
<1>1. CASE yday < 59 + leap
    <2>1. CASE yday < 31
        BY <2>1, SMT DEF Starts
    <2>2. CASE yday >= 31
        BY <1>1, <2>2, SMT DEF Starts
    <2>. QED
        BY <2>1, <2>2, SMT
<1>2. CASE yday >= 59 + leap
    <2>. DEFINE d == yday - leap
    <2>1. d \in Int /\ d >= 59 /\ d < 365 /\ yday = d + leap
        BY <1>2, SMT
    <2>2. \A m \in 3..12 : Starts(leap)[m] = Starts(0)[m] + leap
                        /\ Starts(leap)[m + 1] = Starts(0)[m + 1] + leap
                        /\ Starts(0)[m] \in Int /\ Starts(0)[m + 1] \in Int
        BY SMT DEF Starts
    <2>. HIDE DEF d
    <2>3. \E m \in 3..12 : Starts(0)[m] <= d /\ d < Starts(0)[m + 1]
        BY <2>1, SMT DEF Starts
    <2>4. PICK m \in 3..12 : Starts(0)[m] <= d /\ d < Starts(0)[m + 1]
        BY <2>3
    <2>5. Starts(leap)[m] <= yday /\ yday < Starts(leap)[m + 1]
        BY <2>1, <2>2, <2>4, SMT
    <2>. QED
        BY <2>5, SMT
<1>. QED
    BY <1>1, <1>2, SMT

LEMMA StartsGrow ==
    ASSUME NEW leap \in 0..1, NEW m \in 1..12, NEW n \in 1..12, m < n
    PROVE  Starts(leap)[m + 1] <= Starts(leap)[n]
<1>1. CASE m = 1
    BY <1>1, SMT DEF Starts
<1>2. CASE m = 2
    BY <1>2, SMT DEF Starts
<1>3. CASE m = 3
    BY <1>3, SMT DEF Starts
<1>4. CASE m = 4
    BY <1>4, SMT DEF Starts
<1>5. CASE m = 5
    BY <1>5, SMT DEF Starts
<1>6. CASE m = 6
    BY <1>6, SMT DEF Starts
<1>7. CASE m = 7
    BY <1>7, SMT DEF Starts
<1>8. CASE m = 8
    BY <1>8, SMT DEF Starts
<1>9. CASE m = 9
    BY <1>9, SMT DEF Starts
<1>10. CASE m = 10
    BY <1>10, SMT DEF Starts
<1>11. CASE m = 11
    BY <1>11, SMT DEF Starts
<1>. QED
    BY <1>1, <1>2, <1>3, <1>4, <1>5, <1>6, <1>7, <1>8, <1>9, <1>10, <1>11, SMT

\* What the first days of the months are called here and there.
LeapDay(year) == IF IsLeap(year) THEN 1 ELSE 0

LEMMA MonthStartsAre ==
    ASSUME NEW year \in Int
    PROVE  MonthStarts(year) = Starts(LeapDay(year)) /\ LeapDay(year) \in 0..1
<1>. DEFINE length == YearStart(year + 1) - YearStart(year) - 365
<1>1. length = LeapDay(year)
    <2>1. PICK start \in Int : start = YearStart(year)
        BY YearStartNear DEF Near
    <2>2. PICK leap \in 0..1 : leap = LeapDay(year)
        BY SMT DEF LeapDay
    <2>3. YearStart(year + 1) = start + 365 + leap
        BY <2>1, <2>2, YearLength, Zenon DEF LeapDay
    <2>4. (start + 365 + leap) - start - 365 = leap
        BY SMT
    <2>. QED
        BY <2>1, <2>2, <2>3, <2>4
<1>2. LeapDay(year) \in 0..1
    BY SMT DEF LeapDay
<1>. HIDE DEF length
<1>3. MonthStarts(year) = Starts(length)
    BY Zenon DEF MonthStarts, Starts, length
<1>. QED
    BY <1>1, <1>2, <1>3

\* The day of a date.
DayOf(year, month, mday) == YearStart(year) + Starts(LeapDay(year))[month] + mday - 1

\* A day is in the year it is a day of.
LEMMA DayInYear ==
    ASSUME NEW y \in Int, NEW m \in 1..12, NEW d \in 1..MonthLength(m, LeapDay(y))
    PROVE  /\ DayOf(y, m, d) \in Int
           /\ YearStart(y) <= DayOf(y, m, d) /\ DayOf(y, m, d) < YearStart(y + 1)
           /\ DayOf(y, m, d) - YearStart(y) = Starts(LeapDay(y))[m] + d - 1
           /\ Starts(LeapDay(y))[m] <= Starts(LeapDay(y))[m] + d - 1
           /\ Starts(LeapDay(y))[m] + d - 1 < Starts(LeapDay(y))[m + 1]
           /\ (Starts(LeapDay(y))[m] + d - 1) - Starts(LeapDay(y))[m] + 1 = d
<1>1. PICK leap \in 0..1 : leap = LeapDay(y)
    BY MonthStartsAre
<1>2. PICK start \in Int : start = YearStart(y)
    BY YearStartNear DEF Near
<1>3. YearStart(y + 1) = start + 365 + leap
    BY <1>1, <1>2, YearLength, Zenon DEF LeapDay
<1>4. PICK s \in 0..365, n \in 28..31 :
            /\ s = Starts(leap)[m] /\ n = MonthLength(m, leap)
            /\ Starts(leap)[m + 1] = s + n
    <2>1. /\ Starts(leap)[m] \in 0..365 /\ MonthLength(m, leap) \in 28..31
          /\ Starts(leap)[m + 1] = Starts(leap)[m] + MonthLength(m, leap)
        BY StartAt
    <2>. QED
        BY <2>1
<1>5. d \in 1..n
    BY <1>1, <1>4
<1>6. s + n <= 365 + leap
    <2>1. CASE m = 12
        BY <1>4, <2>1, StartsAre, SMT
    <2>2. CASE m # 12
        <3>1. m < 12 /\ 12 \in 1..12
            BY <2>2, SMT
        <3>2. Starts(leap)[m + 1] <= Starts(leap)[12]
            BY <3>1, StartsGrow, SMT
        <3>3. Starts(leap)[12] = 334 + leap
            BY SMT DEF Starts
        <3>. QED
            BY <1>4, <3>2, <3>3, SMT
    <2>. QED
        BY <2>1, <2>2
<1>7. DayOf(y, m, d) = start + s + d - 1
    BY <1>1, <1>2, <1>4, Zenon DEF DayOf
<1>8. /\ start + s + d - 1 \in Int /\ start <= start + s + d - 1
      /\ start + s + d - 1 < start + 365 + leap
      /\ (start + s + d - 1) - start = s + d - 1
      /\ s <= s + d - 1 /\ s + d - 1 < s + n /\ (s + d - 1) - s + 1 = d
    BY <1>5, <1>6, SMT
<1>. QED
    BY <1>1, <1>2, <1>3, <1>4, <1>7, <1>8, Zenon

\* localtime() gives the date of a day.
LEMMA CivilOf ==
    ASSUME NEW y \in Int, NEW m \in 1..12, NEW d \in 1..MonthLength(m, LeapDay(y))
    PROVE  CivilDate(DayOf(y, m, d)) = [year |-> y, month |-> m, mday |-> d]
<1>. DEFINE day == DayOf(y, m, d)
            guess == 1980 + (400 * day) \div 146097
            year == CHOOSE z \in guess - 1 .. guess + 1 :
                        YearStart(z) <= day /\ day < YearStart(z + 1)
            yday == day - YearStart(year)
            month == CHOOSE n \in 1..12 :
                        MonthStarts(year)[n] <= yday /\ yday < MonthStarts(year)[n + 1]
<1>1. /\ day \in Int /\ YearStart(y) <= day /\ day < YearStart(y + 1)
      /\ day - YearStart(y) = Starts(LeapDay(y))[m] + d - 1
    BY DayInYear
<1>. HIDE DEF day
<1>2. guess \in Int
    BY <1>1, SMT
<1>. HIDE DEF guess
<1>3. \E z \in guess - 1 .. guess + 1 : YearStart(z) <= day /\ day < YearStart(z + 1)
    BY <1>1, <1>2, YearExists DEF guess
<1>4. /\ year \in guess - 1 .. guess + 1
      /\ YearStart(year) <= day /\ day < YearStart(year + 1)
    BY <1>3
<1>5. year \in Int
    BY <1>2, <1>4, SMT
<1>. HIDE DEF year
<1>6. year = y
    BY <1>1, <1>4, <1>5, OneYear
<1>7. yday = Starts(LeapDay(y))[m] + d - 1
    BY <1>1, <1>6
<1>. HIDE DEF yday
<1>8. MonthStarts(year) = Starts(LeapDay(y)) /\ LeapDay(y) \in 0..1
    BY <1>6, MonthStartsAre
<1>9. /\ MonthStarts(year)[m] <= yday /\ yday < MonthStarts(year)[m + 1]
      /\ yday - MonthStarts(year)[m] + 1 = d
    BY <1>7, <1>8, DayInYear
<1>10. ASSUME NEW n \in 1..12, MonthStarts(year)[n] <= yday,
              yday < MonthStarts(year)[n + 1]
       PROVE  n = m
    <2>1. PICK leap \in 0..1 : leap = LeapDay(y)
        BY <1>8
    <2>2. /\ Starts(leap)[m] \in Int /\ Starts(leap)[m + 1] \in Int
          /\ Starts(leap)[n] \in Int /\ Starts(leap)[n + 1] \in Int
        BY SMT DEF Starts
    <2>3. yday \in Int
        <3>1. YearStart(y) \in Int
            BY YearStartNear DEF Near
        <3>. QED
            BY <1>1, <1>6, <3>1, SMT DEF yday
    <2>4. ~(n < m)
        <3>1. n < m => Starts(leap)[n + 1] <= Starts(leap)[m]
            BY StartsGrow
        <3>. QED
            BY <1>8, <1>9, <1>10, <2>1, <2>2, <2>3, <3>1, SMT
    <2>5. ~(m < n)
        <3>1. m < n => Starts(leap)[m + 1] <= Starts(leap)[n]
            BY StartsGrow
        <3>. QED
            BY <1>8, <1>9, <1>10, <2>1, <2>2, <2>3, <3>1, SMT
    <2>. QED
        BY <2>4, <2>5, SMT
<1>11. month = m
    BY <1>9, <1>10
<1>. HIDE DEF month
<1>12. CivilDate(day) = [year |-> year, month |-> month,
                         mday |-> yday - MonthStarts(year)[month] + 1]
    BY DEF CivilDate, guess, year, yday, month
<1>. QED
    BY <1>6, <1>9, <1>11, <1>12 DEF day

\* Every day has a date.
LEMMA DateExists ==
    ASSUME NEW day \in Int
    PROVE  \E y \in Int, m \in 1..12 : \E d \in 1..MonthLength(m, LeapDay(y)) :
                day = DayOf(y, m, d)
<1>1. PICK g \in Int : g = 1980 + (400 * day) \div 146097
    BY SMT
<1>2. PICK y \in Int : YearStart(y) <= day /\ day < YearStart(y + 1)
    <2>1. PICK y \in g - 1 .. g + 1 : YearStart(y) <= day /\ day < YearStart(y + 1)
        BY <1>1, YearExists
    <2>. QED
        BY <2>1, SMT
<1>3. PICK leap \in 0..1 : leap = LeapDay(y)
    BY MonthStartsAre
<1>4. PICK start \in Int : start = YearStart(y)
    BY YearStartNear DEF Near
<1>5. YearStart(y + 1) = start + 365 + leap
    BY <1>3, <1>4, YearLength, Zenon DEF LeapDay
<1>6. PICK yday \in Int : yday = day - start /\ 0 <= yday /\ yday < 365 + leap
    BY <1>2, <1>4, <1>5, SMT
<1>7. PICK m \in 1..12 : Starts(leap)[m] <= yday /\ yday < Starts(leap)[m + 1]
    BY <1>6, MonthExists
<1>8. PICK s \in 0..365, n \in 28..31 :
            /\ s = Starts(leap)[m] /\ n = MonthLength(m, leap)
            /\ Starts(leap)[m + 1] = s + n
    <2>1. /\ Starts(leap)[m] \in 0..365 /\ MonthLength(m, leap) \in 28..31
          /\ Starts(leap)[m + 1] = Starts(leap)[m] + MonthLength(m, leap)
        BY StartAt
    <2>. QED
        BY <2>1
<1>9. PICK d \in Int : d = yday - s + 1
    BY <1>6, <1>8, SMT
<1>10. d \in 1..n /\ day = start + s + d - 1
    BY <1>6, <1>7, <1>8, <1>9, SMT
<1>11. day = DayOf(y, m, d)
    BY <1>3, <1>4, <1>8, <1>10, Zenon DEF DayOf
<1>. QED
    BY <1>3, <1>8, <1>10, <1>11

-----------------------------------------------------------------------------
(* The dates of entries. *)

\* days_in_month() knows the lengths of the months.
LEMMA DaysInMonthAre ==
    ASSUME NEW given \in Date, given.month \in 1..12
    PROVE  DaysInMonth(given) = MonthLength(given.month, LeapDay(given.year + 1980))
<1>. DEFINE month == given.month
            year == given.year + 1980
<1>1. DaysInMonth(given) = CASE month = 2 -> IF IsLeap(year) THEN 29 ELSE 28
                             [] month \in {4, 6, 9, 11} -> 30
                             [] month \in {1, 3, 5, 7, 8, 10, 12} -> 31
    <2>1. month \in {1, 2, 3, 4, 5, 6, 7, 8, 9, 10, 11, 12}
        BY SMT
    <2>. QED
        BY <2>1, SMT DEF DaysInMonth, IsLeap
<1>2. MonthLength(month, LeapDay(year))
            = CASE month = 2 -> IF IsLeap(year) THEN 29 ELSE 28
                [] month \in {4, 6, 9, 11} -> 30
                [] month \in {1, 3, 5, 7, 8, 10, 12} -> 31
    <2>1. month \in {1, 2, 3, 4, 5, 6, 7, 8, 9, 10, 11, 12}
        BY SMT
    <2>. HIDE DEF month, year
    <2>. QED
        BY <2>1, SMT DEF MonthLength, LeapDay
<1>. QED
    BY <1>1, <1>2

\* The day of a date of an entry.
LEMMA DayOfLocalMoment ==
    ASSUME NEW given \in Date, given.month \in 1..12
    PROVE  LocalMoment(given).day
            = DayOf(given.year + 1980, given.month, given.mday)
<1>1. given.year + 1980 \in Int
    BY SMT DEF Date
<1>2. MonthStarts(given.year + 1980) = Starts(LeapDay(given.year + 1980))
    BY <1>1, MonthStartsAre
<1>. QED
    <2>1. \A a, b : [day |-> a, sec |-> b].day = a
        OBVIOUS
    <2>2. LocalMoment(given).day = YearStart(given.year + 1980)
            + MonthStarts(given.year + 1980)[given.month] + given.mday - 1
        BY <2>1, SMT DEF LocalMoment
    <2>3. DayOf(given.year + 1980, given.month, given.mday)
            = YearStart(given.year + 1980)
                + Starts(LeapDay(given.year + 1980))[given.month] + given.mday - 1
        BY SMT DEF DayOf
    <2>. QED
        BY <1>2, <2>2, <2>3

(* isValid() accepts the fields of a date exactly when the calendar has that day
   and the day that time (src/src/dosdatetime.cpp:86). *)
THEOREM ValidDates ==
    ASSUME NEW given \in Date, given.month \in 1..12, given.mday > 0
    PROVE  IsValid(given) <=>
            /\ CivilDate(LocalMoment(given).day)
                = [year |-> given.year + 1980, month |-> given.month, mday |-> given.mday]
            /\ given.second < 30 /\ given.minute < 60 /\ given.hour < 24
<1>. DEFINE y == given.year + 1980
            m == given.month
            d == given.mday
            length == MonthLength(m, LeapDay(y))
<1>1. y \in Int /\ m \in 1..12 /\ d \in Int /\ d >= 1
    BY SMT DEF Date
<1>2. DaysInMonth(given) = length
    BY DaysInMonthAre
<1>3. LocalMoment(given).day = DayOf(y, m, d)
    BY DayOfLocalMoment
<1>4. length \in 28..31
    <2>1. PICK leap \in 0..1 : leap = LeapDay(y)
        BY <1>1, MonthStartsAre
    <2>2. MonthLength(m, leap) \in 28..31
        BY StartAt
    <2>. QED
        BY <2>1, <2>2
<1>5. IsValid(given) <=> /\ d <= length
                         /\ given.second < 30 /\ given.minute < 60 /\ given.hour < 24
    BY <1>1, <1>2, SMT DEF IsValid
<1>. HIDE DEF y, m, d, length
<1>6. ASSUME d <= length
      PROVE  CivilDate(DayOf(y, m, d)) = [year |-> y, month |-> m, mday |-> d]
    <2>1. d \in 1..length
        BY <1>1, <1>4, <1>6, SMT
    <2>. QED
        BY <1>1, <2>1, CivilOf DEF length
<1>7. ASSUME CivilDate(DayOf(y, m, d)) = [year |-> y, month |-> m, mday |-> d]
      PROVE  d <= length
    <2>1. DayOf(y, m, d) \in Int
        <3>1. PICK leap \in 0..1 : leap = LeapDay(y)
            BY <1>1, MonthStartsAre
        <3>2. PICK start \in Int : start = YearStart(y)
            BY <1>1, YearStartNear DEF Near
        <3>3. PICK s \in Int : s = Starts(leap)[m]
            <4>1. Starts(leap)[m] \in 0..365
                BY <1>1, StartAt
            <4>. QED
                BY <4>1
        <3>. QED
            BY <1>1, <3>1, <3>2, <3>3 DEF DayOf
    <2>2. PICK z \in Int, n \in 1..12 : \E e \in 1..MonthLength(n, LeapDay(z)) :
                DayOf(y, m, d) = DayOf(z, n, e)
        BY <2>1, DateExists
    <2>3. PICK e \in 1..MonthLength(n, LeapDay(z)) : DayOf(y, m, d) = DayOf(z, n, e)
        BY <2>2
    <2>4. CivilDate(DayOf(z, n, e)) = [year |-> z, month |-> n, mday |-> e]
        BY CivilOf
    <2>5. z = y /\ n = m /\ e = d
        BY <1>7, <2>3, <2>4
    <2>6. e \in 1..length
        BY <2>3, <2>5 DEF length
    <2>. QED
        BY <1>4, <2>5, <2>6
<1>8. IsValid(given) <=>
        /\ CivilDate(DayOf(y, m, d)) = [year |-> y, month |-> m, mday |-> d]
        /\ given.second < 30 /\ given.minute < 60 /\ given.hour < 24
    BY <1>5, <1>6, <1>7
<1>. QED
    BY <1>3, <1>8 DEF y, m, d

-----------------------------------------------------------------------------
(* Reading and writing fields one after the other. *)

\* Induction, as a statement about sets.
LEMMA SetInduction ==
    ASSUME NEW S, S \subseteq Nat, 0 \in S, \A n \in S : n + 1 \in S
    PROVE  S = Nat
<1>1. SUFFICES ASSUME Nat \ S # {} PROVE FALSE
    OBVIOUS
<1>2. IsWellFoundedOn(OpToRel(<, Nat), Nat)
    BY NatLessThanWellFounded
<1>3. PICK n \in Nat \ S : \A m \in Nat \ S : ~(<< m, n >> \in OpToRel(<, Nat))
    BY <1>1, <1>2, WFMin
<1>4. \A m \in Nat : m < n => m \in S
    BY <1>3 DEF OpToRel
<1>5. n # 0
    BY <1>3
<1>6. PICK m \in Nat : m < n /\ m + 1 = n
    <2>1. n - 1 \in Nat /\ n - 1 < n /\ (n - 1) + 1 = n
        BY <1>5
    <2>. QED
        BY <2>1
<1>7. m + 1 \in S
    BY <1>4, <1>6
<1>. QED
    BY <1>3, <1>6, <1>7

\* What a read() function has read after each zipRead().
ReadsAs(r, file, tell, layout) ==
    /\ r[0] = [tell |-> tell, failed |-> FALSE, fields |-> << >>]
    /\ \A i \in 1..Len(layout) : r[i] = ReadField(file, r[i - 1], layout[i])
    /\ ReadFields(file, tell, layout) = r[Len(layout)]

\* The read() functions: one zipRead() after the other.
LEMMA ReadFieldsIs ==
    ASSUME NEW file, NEW tell, NEW layout, Len(layout) \in Nat
    PROVE  \E r : ReadsAs(r, file, tell, layout)
<1>. DEFINE start == [tell |-> tell, failed |-> FALSE, fields |-> << >>]
            Step(r, i) == ReadField(file, r[i - 1], layout[i])
            Reads(r, n) == r = [i \in 0..n |-> IF i = 0 THEN start ELSE Step(r, i)]
            S == {n \in Nat : \E r : Reads(r, n)}
<1>1. 0 \in S
    <2>. DEFINE r == [i \in 0..0 |-> start]
    <2>1. Reads(r, 0)
        OBVIOUS
    <2>. QED
        BY <2>1
<1>2. ASSUME NEW n \in S PROVE n + 1 \in S
    <2>1. PICK r : Reads(r, n)
        OBVIOUS
    <2>2. n \in Nat
        OBVIOUS
    <2>. HIDE DEF start
    <2>. DEFINE last == ReadField(file, r[n], layout[n + 1])
                q == [i \in 0..n + 1 |-> IF i = n + 1 THEN last ELSE r[i]]
    <2>3. \A i \in 0..n : q[i] = r[i]
        BY <2>2
    <2>4. q[n + 1] = last
        BY <2>2
    <2>. HIDE DEF q
    <2>5. Step(q, n + 1) = last
        <3>1. (n + 1) - 1 = n /\ n \in 0..n
            BY <2>2
        <3>. QED
            BY <2>3, <3>1
    <2>6. ASSUME NEW i \in 0..n PROVE q[i] = IF i = 0 THEN start ELSE Step(q, i)
        <3>1. r[i] = IF i = 0 THEN start ELSE Step(r, i)
            BY <2>1
        <3>2. i # 0 => i - 1 \in 0..n
            BY <2>2
        <3>. HIDE DEF Reads
        <3>3. i # 0 => Step(q, i) = Step(r, i)
            BY <2>3, <3>2
        <3>. HIDE DEF Step
        <3>. QED
            BY <2>3, <3>1, <3>3
    <2>. HIDE DEF last, Step
    <2>7. q = [i \in 0..n + 1 |-> IF i = n + 1 THEN last ELSE r[i]]
        BY DEF q
    <2>8. \A i \in 0..n + 1 : q[i] = IF i = 0 THEN start ELSE Step(q, i)
        <3>1. \A i \in 0..n + 1 : i \in 0..n \/ i = n + 1
            BY <2>2
        <3>2. n + 1 # 0
            BY <2>2
        <3>. QED
            BY <2>4, <2>5, <2>6, <3>1, <3>2
    <2>9. Reads(q, n + 1)
        BY <2>7, <2>8
    <2>. QED
        BY <2>2, <2>9
<1>3. S = Nat
    <2>1. S \subseteq Nat
        OBVIOUS
    <2>. HIDE DEF S
    <2>. QED
        BY <1>1, <1>2, <2>1, SetInduction
<1>4. \E r : Reads(r, Len(layout))
    BY <1>3
<1>. DEFINE reading == CHOOSE r : Reads(r, Len(layout))
<1>5. Reads(reading, Len(layout))
    BY <1>4
<1>6. ReadFields(file, tell, layout) = reading[Len(layout)]
    BY DEF ReadFields
<1>. HIDE DEF reading
<1>7. reading[0] = start
    BY <1>5
<1>8. ASSUME NEW i \in 1..Len(layout) PROVE reading[i] = Step(reading, i)
    <2>1. i \in 0..Len(layout) /\ i # 0
        OBVIOUS
    <2>. HIDE DEF start, Step
    <2>2. reading[i] = IF i = 0 THEN start ELSE Step(reading, i)
        BY <1>5, <2>1, Zenon
    <2>. QED
        BY <2>1, <2>2
<1>9. ReadsAs(reading, file, tell, layout)
    BY <1>6, <1>7, <1>8 DEF ReadsAs
<1>. QED
    BY <1>9

\* The values of a field, as they are read.
Value(field) ==
    IF field \in DOMAIN LengthField THEN Text
    ELSE {number \in Number : Len(number) = IF field \in Words THEN 2 ELSE 1}

Typed(fields) == \A field \in DOMAIN fields : fields[field] \in Value(field)

\* What a read() function has read so far.
Reading(r) ==
    \E tell \in Nat, failed \in BOOLEAN : \E fields :
        Typed(fields) /\ r = [tell |-> tell, failed |-> failed, fields |-> fields]

LEMMA ReadingIs ==
    ASSUME NEW tell \in Nat, NEW failed \in BOOLEAN, NEW fields, Typed(fields)
    PROVE  Reading([tell |-> tell, failed |-> failed, fields |-> fields])
    BY Zenon DEF Reading

LEMMA DigitModIs == DigitMod \in Nat /\ DigitMod > 255 /\ 0 \in Digit
<1>1. DigitMod \in Nat /\ DigitMod > 255
    BY SMT DEF DigitMod
<1>. QED
    BY <1>1 DEF Digit

\* Two octets are a digit.
LEMMA NumberOfType ==
    ASSUME NEW bytes \in Seq(Octet), NEW k \in Nat, Len(bytes) = 2 * k
    PROVE  NumberOf(bytes) \in Number /\ Len(NumberOf(bytes)) = k
<1>1. Len(bytes) \div 2 = k
    BY SMT
<1>2. ASSUME NEW i \in 1..k
      PROVE  bytes[2 * i - 1] + 256 * bytes[2 * i] \in Digit
    <2>1. 2 * i - 1 \in 1..Len(bytes) /\ 2 * i \in 1..Len(bytes)
        BY SMT
    <2>2. bytes[2 * i - 1] \in Octet /\ bytes[2 * i] \in Octet
        BY <2>1, ElementOfSeq
    <2>3. ASSUME NEW a \in Octet, NEW b \in Octet PROVE a + 256 * b \in Digit
        <3>1. a + 256 * b \in Nat /\ a + 256 * b < 65536
            BY DEF Octet
        <3>2. a + 256 * b < DigitMod
            BY <3>1 DEF DigitMod
        <3>. QED
            BY <3>1, <3>2, DigitModIs DEF Digit
    <2>. QED
        BY <2>2, <2>3
<1>. DEFINE number == [i \in 1..k |-> bytes[2 * i - 1] + 256 * bytes[2 * i]]
<1>3. NumberOf(bytes) = number
    BY <1>1 DEF NumberOf
<1>4. number \in [1..k -> Digit] /\ Len(number) = k
    BY <1>2
<1>. HIDE DEF number
<1>5. number \in Seq(Digit)
    BY <1>4
<1>. QED
    BY <1>3, <1>4, <1>5 DEF Number

LEMMA CountType ==
    ASSUME NEW fields, Typed(fields), NEW field,
           field \in DOMAIN LengthField => LengthField[field] \in DOMAIN fields
    PROVE  /\ Count(fields, field) \in 0..DigitMod - 1
           /\ field \notin DOMAIN LengthField =>
                Count(fields, field) = IF field \in Words THEN 4 ELSE 2
<1>1. CASE field \in DOMAIN LengthField
    <2>. DEFINE l == LengthField[field]
    <2>1. l \notin DOMAIN LengthField /\ l \notin Words
        BY <1>1 DEF LengthField, Words
    <2>2. fields[l] \in Number /\ Len(fields[l]) = 1
        BY <1>1, <2>1 DEF Typed, Value
    <2>3. fields[l][1] \in Digit
        BY <2>2, ElementOfSeq DEF Number
    <2>4. field \notin Words
        BY <1>1 DEF LengthField, Words
    <2>5. Count(fields, field) = fields[l][1]
        BY <1>1, <2>4 DEF Count
    <2>. QED
        BY <1>1, <2>3, <2>5 DEF Digit
<1>2. CASE field \notin DOMAIN LengthField
    <2>1. Count(fields, field) = IF field \in Words THEN 4 ELSE 2
        BY <1>2 DEF Count
    <2>. QED
        BY <1>2, <2>1, DigitModIs
<1>. QED
    BY <1>1, <1>2

\* zipRead() reads a value of the field.
LEMMA ReadFieldType ==
    ASSUME NEW file \in Seq(Octet), NEW r, Reading(r), NEW field,
           ~r.failed => (field \in DOMAIN LengthField => LengthField[field] \in DOMAIN r.fields)
    PROVE  /\ Reading(ReadField(file, r, field))
           /\ ~ReadField(file, r, field).failed =>
                /\ ~r.failed
                /\ DOMAIN ReadField(file, r, field).fields = {field} \cup DOMAIN r.fields
<1>0. PICK tell \in Nat, failed \in BOOLEAN : \E fields :
            Typed(fields) /\ r = [tell |-> tell, failed |-> failed, fields |-> fields]
    BY DEF Reading
<1>1. PICK fields :
            Typed(fields) /\ r = [tell |-> tell, failed |-> failed, fields |-> fields]
    BY <1>0
<1>2. r.tell = tell /\ (r.failed <=> failed) /\ r.fields = fields
    BY <1>1
<1>. DEFINE count == Count(fields, field)
            bytes == SubSeq(file, tell + 1, tell + count)
            value == IF field \in DOMAIN LengthField THEN bytes ELSE NumberOf(bytes)
            longer == With(fields, field, value)
<1>3. CASE failed \/ tell + count > Len(file)
    <2>3. ReadField(file, r, field) = [tell |-> tell, failed |-> TRUE, fields |-> fields]
        BY <1>2, <1>3 DEF ReadField
    <2>4. Reading(ReadField(file, r, field))
        BY <1>1, <2>3, ReadingIs, Zenon
    <2>5. ReadField(file, r, field).failed
        BY <2>3
    <2>. QED
        BY <2>4, <2>5
<1>4. CASE ~(failed \/ tell + count > Len(file))
    <2>1. ReadField(file, r, field)
            = [tell |-> tell + count, failed |-> FALSE, fields |-> longer]
        BY <1>2, <1>4 DEF ReadField
    <2>2. /\ count \in 0..DigitMod - 1
          /\ field \notin DOMAIN LengthField =>
                count = IF field \in Words THEN 4 ELSE 2
        BY <1>1, <1>2, <1>4, CountType
    <2>. HIDE DEF count
    <2>3. count \in Nat /\ count < DigitMod
        BY <2>2, DigitModIs
    <2>4. tell + count <= Len(file) /\ Len(file) \in Nat
        BY <1>4, <2>3
    <2>5. bytes \in Seq(Octet) /\ Len(bytes) = count
        <3>1. \A i \in tell + 1 .. tell + count : i \in 1..Len(file)
            BY <2>3, <2>4
        <3>2. \A i \in tell + 1 .. tell + count : file[i] \in Octet
            BY <3>1, ElementOfSeq
        <3>3. PICK a \in Int, b \in Int : a = tell + 1 /\ b = tell + count
            BY <2>3
        <3>4. /\ SubSeq(file, a, b) \in Seq(Octet)
              /\ Len(SubSeq(file, a, b)) = IF a <= b THEN b - a + 1 ELSE 0
            BY <3>2, <3>3, SubSeqProperties
        <3>5. (IF a <= b THEN b - a + 1 ELSE 0) = count
            BY <2>3, <3>3
        <3>. QED
            BY <3>3, <3>4, <3>5
    <2>. HIDE DEF bytes
    <2>6. value \in Value(field)
        <3>1. CASE field \in DOMAIN LengthField
            BY <2>3, <2>5, <3>1 DEF Value, Text
        <3>2. CASE field \notin DOMAIN LengthField
            <4>1. PICK k \in Nat : k = IF field \in Words THEN 2 ELSE 1
                OBVIOUS
            <4>2. Len(bytes) = 2 * k
                BY <2>2, <2>5, <3>2, <4>1
            <4>3. NumberOf(bytes) \in Number /\ Len(NumberOf(bytes)) = k
                BY <2>5, <4>2, NumberOfType
            <4>. QED
                BY <3>2, <4>1, <4>3 DEF Value
        <3>. QED
            BY <3>1, <3>2
    <2>. HIDE DEF value
    <2>7. /\ DOMAIN longer = {field} \cup DOMAIN fields
          /\ longer[field] = value
          /\ \A f \in DOMAIN fields : f # field => longer[f] = fields[f]
        BY DEF With
    <2>. HIDE DEF longer
    <2>8. Typed(longer)
        BY <1>1, <2>6, <2>7 DEF Typed
    <2>9. tell + count \in Nat
        BY <2>3
    <2>10. Reading([tell |-> tell + count, failed |-> FALSE, fields |-> longer])
        BY <2>8, <2>9, ReadingIs, Zenon
    <2>. QED
        BY <1>2, <1>4, <2>1, <2>7, <2>10
<1>. QED
    BY <1>3, <1>4

\* Where the length of each text is read before it, all that is read has its type.
Ordered(layout) ==
    /\ Len(layout) \in Nat
    /\ \A i \in 1..Len(layout) : layout[i] \in DOMAIN LengthField =>
            \E j \in 1..i - 1 : layout[j] = LengthField[layout[i]]

LEMMA ReadFieldsType ==
    ASSUME NEW file \in Seq(Octet), NEW tell \in Nat, NEW layout, Ordered(layout)
    PROVE  /\ Reading(ReadFields(file, tell, layout))
           /\ ~ReadFields(file, tell, layout).failed =>
                \A i \in 1..Len(layout) :
                    layout[i] \in DOMAIN ReadFields(file, tell, layout).fields
<1>1. Len(layout) \in Nat
    BY DEF Ordered
<1>0. PICK r : ReadsAs(r, file, tell, layout)
    BY <1>1, ReadFieldsIs
<1>2. /\ r[0] = [tell |-> tell, failed |-> FALSE, fields |-> << >>]
      /\ \A i \in 1..Len(layout) : r[i] = ReadField(file, r[i - 1], layout[i])
      /\ ReadFields(file, tell, layout) = r[Len(layout)]
    BY <1>0 DEF ReadsAs
<1>. DEFINE Good(n) ==
                /\ Reading(r[n])
                /\ ~r[n].failed => \A i \in 1..n : layout[i] \in DOMAIN r[n].fields
            S == {n \in Nat : n <= Len(layout) => Good(n)}
<1>3. 0 \in S
    <2>1. Typed(<< >>)
        BY DEF Typed
    <2>2. Reading(r[0])
        BY <1>2, <2>1, ReadingIs, Zenon
    <2>. QED
        BY <2>2
<1>4. ASSUME NEW n \in S PROVE n + 1 \in S
    <2>1. SUFFICES ASSUME n + 1 <= Len(layout) PROVE Good(n + 1)
        OBVIOUS
    <2>2. n \in Nat /\ Good(n)
        BY <1>1, <2>1
    <2>3. PICK k \in 1..Len(layout) : k = n + 1 /\ k - 1 = n
        BY <1>1, <2>1, <2>2
    <2>4. r[k] = ReadField(file, r[n], layout[k])
        BY <1>2, <2>3
    <2>5. ~r[n].failed => (layout[k] \in DOMAIN LengthField
                            => LengthField[layout[k]] \in DOMAIN r[n].fields)
        BY <2>2, <2>3 DEF Ordered
    <2>6. /\ Reading(r[k])
          /\ ~r[k].failed =>
                ~r[n].failed /\ DOMAIN r[k].fields = {layout[k]} \cup DOMAIN r[n].fields
        BY <2>2, <2>4, <2>5, ReadFieldType
    <2>7. ASSUME ~r[k].failed, NEW i \in 1..k PROVE layout[i] \in DOMAIN r[k].fields
        <3>1. i = k \/ i \in 1..n
            BY <2>2, <2>3
        <3>. QED
            BY <2>2, <2>6, <2>7, <3>1
    <2>. QED
        BY <2>3, <2>6, <2>7
<1>5. S = Nat
    <2>1. S \subseteq Nat
        OBVIOUS
    <2>. HIDE DEF S
    <2>. QED
        BY <1>3, <1>4, <2>1, SetInduction
<1>6. Good(Len(layout))
    <2>1. Len(layout) \in S
        BY <1>1, <1>5
    <2>. QED
        BY <1>1, <2>1
<1>. QED
    BY <1>2, <1>6

LEMMA LayoutsOrdered == Ordered(LocalRead) /\ Ordered(CentralRead) /\ Ordered(EndRead)
<1>1. Ordered(LocalRead)
    <2>1. Len(LocalRead) = 12
        BY DEF LocalRead
    <2>2. \A i \in 1..12 : i \notin {11, 12} => LocalRead[i] \notin DOMAIN LengthField
        BY DEF LocalRead, LengthField
    <2>3. /\ LocalRead[9] = LengthField[LocalRead[11]]
          /\ LocalRead[10] = LengthField[LocalRead[12]]
        BY DEF LocalRead, LengthField
    <2>4. 9 \in 1..11 - 1 /\ 10 \in 1..12 - 1
        OBVIOUS
    <2>. QED
        BY <2>1, <2>2, <2>3, <2>4 DEF Ordered
<1>2. Ordered(CentralRead)
    <2>1. Len(CentralRead) = 19
        BY DEF CentralRead
    <2>2. \A i \in 1..19 : i \notin {17, 18, 19} => CentralRead[i] \notin DOMAIN LengthField
        BY DEF CentralRead, LengthField
    <2>3. /\ CentralRead[10] = LengthField[CentralRead[17]]
          /\ CentralRead[11] = LengthField[CentralRead[18]]
          /\ CentralRead[12] = LengthField[CentralRead[19]]
        BY DEF CentralRead, LengthField
    <2>4. 10 \in 1..17 - 1 /\ 11 \in 1..18 - 1 /\ 12 \in 1..19 - 1
        OBVIOUS
    <2>. QED
        BY <2>1, <2>2, <2>3, <2>4 DEF Ordered
<1>3. Ordered(EndRead)
    <2>1. Len(EndRead) = 9
        BY DEF EndRead
    <2>2. \A i \in 1..9 : i # 9 => EndRead[i] \notin DOMAIN LengthField
        BY DEF EndRead, LengthField
    <2>3. EndRead[8] = LengthField[EndRead[9]]
        BY DEF EndRead, LengthField
    <2>4. 8 \in 1..9 - 1
        OBVIOUS
    <2>. QED
        BY <2>1, <2>2, <2>3, <2>4 DEF Ordered
<1>. QED
    BY <1>1, <1>2, <1>3

\* The types of the fields that are looked at.
LEMMA ValuesAre ==
    /\ Value("time") = Word32 /\ Value("crc") = Word32 /\ Value("size") = Word32
    /\ Value("offset") = Word32 /\ Value("directory_offset") = Word32
    /\ Value("method") = {number \in Number : Len(number) = 1}
    /\ Value("name") = Text /\ Value("extra") = Text /\ Value("comment") = Text
<1>1. /\ {"time", "crc", "size", "offset", "directory_offset"} \subseteq Words
      /\ "method" \notin Words
    BY DEF Words
<1>2. DOMAIN LengthField = {"name", "extra", "comment"}
    BY DEF LengthField
<1>. QED
    BY <1>1, <1>2 DEF Value, Word32

LEMMA DigitsOf ==
    ASSUME NEW word \in Word32
    PROVE  word[1] \in Digit /\ word[2] \in Digit
<1>1. word \in Seq(Digit) /\ Len(word) = 2
    BY DEF Word32, Number
<1>2. 1 \in 1..Len(word) /\ 2 \in 1..Len(word)
    BY <1>1
<1>. QED
    BY <1>1, <1>2, ElementOfSeq

LEMMA OffsetType ==
    ASSUME NEW word \in Word32
    PROVE  OffsetOf(word) \in Size
<1>1. PICK a \in Digit, b \in Digit : a = word[1] /\ b = word[2]
    BY DigitsOf
<1>2. a \in Nat /\ b \in Nat /\ a < DigitMod /\ b < DigitMod
    BY <1>1, DigitModIs DEF Digit
<1>3. a + DigitMod * b \in Nat /\ (a + DigitMod * b) \div DigitMod = b
    <2>1. a < 65536
        BY <1>2, SMT DEF DigitMod
    <2>2. a + 65536 * b \in Nat /\ (a + 65536 * b) \div 65536 = b
        BY <1>2, <2>1, SMT
    <2>. QED
        BY <2>2 DEF DigitMod
<1>4. a + DigitMod * b \in Size
    BY <1>2, <1>3, Zenon DEF Size
<1>. QED
    BY <1>1, <1>4, Zenon DEF OffsetOf

LEMMA DateType ==
    ASSUME NEW word \in Word32
    PROVE  DateOf(word) \in Date
<1>1. PICK a \in Digit, b \in Digit : a = word[1] /\ b = word[2]
    BY DigitsOf
<1>2. a \in Nat /\ b \in Nat /\ a < 65536 /\ b < 65536
    <2>1. a \in Nat /\ b \in Nat /\ a < DigitMod /\ b < DigitMod
        BY <1>1, DigitModIs DEF Digit
    <2>. QED
        BY <2>1, SMT DEF DigitMod
<1>3. ASSUME NEW n \in Nat, n < 65536
      PROVE  /\ n % 32 \in 0..31 /\ (n \div 32) % 64 \in 0..63 /\ n \div 2048 \in 0..31
             /\ (n \div 32) % 16 \in 0..15 /\ n \div 512 \in 0..127
    BY <1>3, SMT
<1>4. /\ a % 32 \in 0..31 /\ (a \div 32) % 64 \in 0..63 /\ a \div 2048 \in 0..31
      /\ b % 32 \in 0..31 /\ (b \div 32) % 16 \in 0..15 /\ b \div 512 \in 0..127
    BY <1>2, <1>3
<1>5. DateOf(word) = [second |-> a % 32, minute |-> (a \div 32) % 64,
                      hour |-> a \div 2048, mday |-> b % 32,
                      month |-> (b \div 32) % 16, year |-> b \div 512]
    BY <1>1, SMT DEF DateOf
<1>. QED
    BY <1>4, <1>5, SMT DEF Date

\* EntryOf() makes an entry of what was read.
LEMMA EntryOfType ==
    ASSUME NEW fields, Typed(fields),
           {"name", "method", "crc", "size", "extra"} \subseteq DOMAIN fields
    PROVE  EntryOf(fields) \in EntryRecord
<1>1. /\ fields["name"] \in Text /\ fields["extra"] \in Text
      /\ fields["crc"] \in Word32 /\ fields["size"] \in Word32
      /\ fields["method"] \in {number \in Number : Len(number) = 1}
      /\ "comment" \in DOMAIN fields => fields["comment"] \in Text
    BY ValuesAre DEF Typed
<1>. DEFINE name == fields["name"]
            dir == name # << >> /\ name[Len(name)] = Separator
            short == SubSeq(name, 1, Len(name) - IF dir THEN 1 ELSE 0)
            comment == IF "comment" \in DOMAIN fields THEN fields["comment"] ELSE << >>
<1>2. << >> \in Text
    BY DigitModIs DEF Text
<1>3. comment \in Text
    BY <1>1, <1>2
<1>4. short \in Text
    <2>1. name \in Seq(Octet) /\ Len(name) \in Nat /\ Len(name) < DigitMod
        BY <1>1 DEF Text
    <2>2. CASE ~dir
        <3>1. Len(name) - 0 = Len(name) /\ SubSeq(name, 1, Len(name)) = name
            BY <2>1
        <3>. QED
            BY <1>1, <2>2, <3>1
    <2>3. CASE dir
        <3>1. Len(name) >= 1
            BY <2>1, <2>3, EmptySeq
        <3>2. PICK n \in Nat : n = Len(name) - 1 /\ n < DigitMod
            BY <2>1, <3>1, DigitModIs
        <3>3. \A i \in 1..n : name[i] \in Octet
            <4>1. \A i \in 1..n : i \in 1..Len(name)
                BY <2>1, <3>2
            <4>. QED
                BY <2>1, <4>1, ElementOfSeq
        <3>4. /\ SubSeq(name, 1, n) \in Seq(Octet)
              /\ Len(SubSeq(name, 1, n)) = IF 1 <= n THEN n - 1 + 1 ELSE 0
            BY <3>3, SubSeqProperties
        <3>5. (IF 1 <= n THEN n - 1 + 1 ELSE 0) = n
            OBVIOUS
        <3>6. SubSeq(name, 1, n) \in Text
            BY <3>2, <3>4, <3>5 DEF Text
        <3>7. Len(name) - (IF dir THEN 1 ELSE 0) = n
            BY <2>3, <3>2
        <3>. QED
            BY <3>6, <3>7
    <2>. QED
        BY <2>2, <2>3
<1>5. fields["method"][1] \in Digit
    <2>1. PICK number \in Number : number = fields["method"] /\ Len(number) = 1
        BY <1>1
    <2>2. number \in Seq(Digit) /\ 1 \in 1..Len(number)
        BY <2>1 DEF Number
    <2>3. number[1] \in Digit
        BY <2>2, ElementOfSeq
    <2>. QED
        BY <2>1, <2>3
<1>6. OffsetOf(fields["size"]) \in Size
    BY <1>1, OffsetType
<1>7. EntryOf(fields) = [name |-> short, dir |-> dir, method |-> fields["method"][1],
                         crc |-> fields["crc"], size |-> OffsetOf(fields["size"]),
                         extra |-> fields["extra"], comment |-> comment]
    BY DEF EntryOf
<1>8. dir \in BOOLEAN
    OBVIOUS
<1>. HIDE DEF short, dir, comment
<1>. QED
    BY <1>1, <1>3, <1>4, <1>5, <1>6, <1>7, <1>8 DEF EntryRecord

\* What init() compares are headers that were read.
LEMMA HeadersType ==
    ASSUME NEW file \in Seq(Octet)
    PROVE  /\ Headers(file).thrown \in {"none", "IOException", "FileCollectionException"}
           /\ Headers(file).thrown = "none" =>
                /\ EntryOf(Headers(file).central) \in EntryRecord
                /\ DateOf(Headers(file).central["time"]) \in Date
                /\ DateOf(Headers(file).local["time"]) \in Date
<1>. DEFINE Good(h) ==
                /\ h.thrown \in {"none", "IOException", "FileCollectionException"}
                /\ h.thrown = "none" =>
                    /\ EntryOf(h.central) \in EntryRecord
                    /\ DateOf(h.central["time"]) \in Date
                    /\ DateOf(h.local["time"]) \in Date
<1>1. ASSUME NEW e \in {"IOException", "FileCollectionException"}
      PROVE  Good(Thrown(e))
    BY DEF Thrown
<1>2. ASSUME NEW fields, Typed(fields), "offset" \in DOMAIN fields
      PROVE  OffsetOf(fields["offset"]) \in Nat
    <2>1. fields["offset"] \in Word32
        BY <1>2, ValuesAre DEF Typed
    <2>. QED
        BY <2>1, OffsetType DEF Size
<1>3. ASSUME NEW tell \in Nat
      PROVE  LET local == ReadFields(file, tell, LocalRead)
             IN  ~local.failed => DateOf(local.fields["time"]) \in Date
    <2>. DEFINE local == ReadFields(file, tell, LocalRead)
    <2>1. /\ Reading(local)
          /\ ~local.failed => \A i \in 1..Len(LocalRead) : LocalRead[i] \in DOMAIN local.fields
        BY LayoutsOrdered, ReadFieldsType
    <2>2. 5 \in 1..Len(LocalRead) /\ LocalRead[5] = "time"
        BY DEF LocalRead
    <2>. HIDE DEF local
    <2>3. ASSUME ~local.failed
          PROVE  local.fields["time"] \in Word32
        <3>1. "time" \in DOMAIN local.fields
            BY <2>1, <2>2, <2>3
        <3>2. Typed(local.fields)
            BY <2>1 DEF Reading
        <3>. QED
            BY <3>1, <3>2, ValuesAre DEF Typed
    <2>4. ~local.failed => DateOf(local.fields["time"]) \in Date
        BY <2>3, DateType
    <2>. QED
        BY <2>4 DEF local
<1>4. ASSUME NEW tell \in Nat
      PROVE  LET central == ReadFields(file, tell, CentralRead)
             IN  ~central.failed =>
                    /\ Typed(central.fields) /\ "offset" \in DOMAIN central.fields
                    /\ DateOf(central.fields["time"]) \in Date
                    /\ EntryOf(central.fields) \in EntryRecord
    <2>. DEFINE central == ReadFields(file, tell, CentralRead)
    <2>1. /\ Reading(central)
          /\ ~central.failed =>
                \A i \in 1..Len(CentralRead) : CentralRead[i] \in DOMAIN central.fields
        BY LayoutsOrdered, ReadFieldsType
    <2>2. /\ Len(CentralRead) = 19 /\ CentralRead[6] = "time" /\ CentralRead[5] = "method"
          /\ CentralRead[7] = "crc" /\ CentralRead[9] = "size" /\ CentralRead[16] = "offset"
          /\ CentralRead[17] = "name" /\ CentralRead[18] = "extra"
        BY DEF CentralRead
    <2>. HIDE DEF central
    <2>3. ASSUME ~central.failed
          PROVE  {"time", "method", "crc", "size", "offset", "name", "extra"}
                    \subseteq DOMAIN central.fields
        <3>1. \A i \in 1..19 : CentralRead[i] \in DOMAIN central.fields
            BY <2>1, <2>2, <2>3
        <3>2. /\ 5 \in 1..19 /\ 6 \in 1..19 /\ 7 \in 1..19 /\ 9 \in 1..19
              /\ 16 \in 1..19 /\ 17 \in 1..19 /\ 18 \in 1..19
            OBVIOUS
        <3>. QED
            BY <2>2, <3>1, <3>2
    <2>4. Typed(central.fields)
        BY <2>1 DEF Reading
    <2>5. ~central.failed => DateOf(central.fields["time"]) \in Date
        <3>1. ~central.failed => central.fields["time"] \in Word32
            BY <2>3, <2>4, ValuesAre DEF Typed
        <3>. QED
            BY <3>1, DateType
    <2>6. ~central.failed => EntryOf(central.fields) \in EntryRecord
        BY <2>3, <2>4, EntryOfType
    <2>. QED
        BY <2>3, <2>4, <2>5, <2>6 DEF central
<1>5. ASSUME NEW tell \in Nat, NEW end
      PROVE  Good(AfterCentral(file, end, ReadFields(file, tell, CentralRead)))
    <2>. DEFINE central == ReadFields(file, tell, CentralRead)
                at == OffsetOf(central.fields["offset"])
                local == ReadFields(file, at, LocalRead)
    <2>1. ~central.failed =>
            /\ Typed(central.fields) /\ "offset" \in DOMAIN central.fields
            /\ DateOf(central.fields["time"]) \in Date
            /\ EntryOf(central.fields) \in EntryRecord
        BY <1>4
    <2>2. ~central.failed => at \in Nat
        BY <1>2, <2>1
    <2>. HIDE DEF central, at
    <2>3. ~central.failed => (~local.failed => DateOf(local.fields["time"]) \in Date)
        BY <1>3, <2>2
    <2>. HIDE DEF local
    <2>4. ~central.failed => Good(AfterLocal(central.fields, local))
        <3>1. AfterLocal(central.fields, local) = Thrown("IOException")
                \/ (~local.failed /\ AfterLocal(central.fields, local)
                    = [thrown |-> "none", central |-> central.fields, local |-> local.fields])
            BY DEF AfterLocal
        <3>2. ~central.failed /\ ~local.failed =>
                Good([thrown |-> "none", central |-> central.fields, local |-> local.fields])
            BY <2>1, <2>3
        <3>. HIDE DEF Good
        <3>. QED
            BY <1>1, <3>1, <3>2
    <2>5. \/ AfterCentral(file, end, central) = Thrown("IOException")
          \/ AfterCentral(file, end, central) = Thrown("FileCollectionException")
          \/ /\ ~central.failed
             /\ AfterCentral(file, end, central) = AfterLocal(central.fields, local)
        BY DEF AfterCentral, local, at
    <2>6. Good(AfterCentral(file, end, central))
        <3>. HIDE DEF Good
        <3>. QED
            BY <1>1, <2>4, <2>5
    <2>. QED
        BY <2>6 DEF central
<1>6. ASSUME EndOffsets(file) # {}
      PROVE  \E p \in EndOffsets(file) : \A q \in EndOffsets(file) : q <= p
    <2>. DEFINE l == Len(file)
                T == {n \in 0..l : l - n \in EndOffsets(file)}
    <2>1. l \in Nat /\ EndOffsets(file) \subseteq 0..l
        BY DEF EndOffsets
    <2>. HIDE DEF l
    <2>2. \A p \in 0..l : l - p \in 0..l /\ l - (l - p) = p
        BY <2>1
    <2>3. T # {} /\ T \subseteq Nat
        <3>1. PICK p \in EndOffsets(file) : TRUE
            BY <1>6
        <3>2. l - p \in 0..l /\ l - (l - p) = p
            BY <2>1, <2>2
        <3>3. l - p \in T
            BY <3>1, <3>2
        <3>4. T \subseteq Nat
            BY <2>1
        <3>. QED
            BY <3>3, <3>4
    <2>4. PICK n \in T : \A m \in T : ~(<< m, n >> \in OpToRel(<, Nat))
        <3>. HIDE DEF T
        <3>1. IsWellFoundedOn(OpToRel(<, Nat), Nat)
            BY NatLessThanWellFounded
        <3>. QED
            BY <2>3, <3>1, WFMin
    <2>5. \A m \in T : ~(m < n)
        BY <2>3, <2>4 DEF OpToRel
    <2>6. ASSUME NEW q \in EndOffsets(file) PROVE q <= l - n
        <3>1. l - q \in T
            BY <2>1, <2>2
        <3>2. ~(l - q < n)
            BY <2>5, <3>1
        <3>3. q \in 0..l /\ n \in 0..l
            BY <2>1
        <3>. QED
            BY <2>1, <3>2, <3>3
    <2>. QED
        BY <2>6
<1>7. ASSUME EndOffsets(file) # {}
      PROVE  Good(AfterEnd(file, ReadEnd(file)))
    <2>. DEFINE p == CHOOSE p \in EndOffsets(file) : \A q \in EndOffsets(file) : q <= p
                end == ReadFields(file, p, EndRead)
                at == OffsetOf(end.fields["directory_offset"])
    <2>1. p \in EndOffsets(file)
        BY <1>6, <1>7
    <2>2. p \in Nat
        BY <2>1 DEF EndOffsets
    <2>3. ReadEnd(file) = end
        BY DEF ReadEnd
    <2>. HIDE DEF p
    <2>4. /\ Reading(end)
          /\ ~end.failed => \A i \in 1..Len(EndRead) : EndRead[i] \in DOMAIN end.fields
        BY <2>2, LayoutsOrdered, ReadFieldsType
    <2>. HIDE DEF end
    <2>5. 7 \in 1..Len(EndRead) /\ EndRead[7] = "directory_offset"
        BY DEF EndRead
    <2>6. Typed(end.fields)
        BY <2>4 DEF Reading
    <2>7. ~end.failed => at \in Nat
        <3>1. ~end.failed => end.fields["directory_offset"] \in Word32
            BY <2>4, <2>5, <2>6, ValuesAre DEF Typed
        <3>. QED
            BY <3>1, OffsetType DEF Size
    <2>. HIDE DEF at
    <2>8. \/ AfterEnd(file, end) = Thrown("IOException")
          \/ AfterEnd(file, end) = Thrown("FileCollectionException")
          \/ /\ ~end.failed
             /\ AfterEnd(file, end)
                    = AfterCentral(file, end.fields, ReadFields(file, at, CentralRead))
        BY DEF AfterEnd, at
    <2>9. ~end.failed =>
            Good(AfterCentral(file, end.fields, ReadFields(file, at, CentralRead)))
        BY <1>5, <2>7
    <2>. HIDE DEF Good
    <2>. QED
        BY <1>1, <2>3, <2>8, <2>9
<1>8. Good(Headers(file))
    <2>1. EndOffsets(file) = {} => Headers(file) = Thrown("FileCollectionException")
        BY DEF Headers
    <2>2. EndOffsets(file) # {} => Headers(file) = AfterEnd(file, ReadEnd(file))
        BY DEF Headers
    <2>. HIDE DEF Good
    <2>. QED
        BY <1>1, <1>7, <2>1, <2>2
<1>. QED
    BY <1>8

\* The write() functions: one zipWrite() after the other.
LEMMA FlattenIs ==
    ASSUME NEW seqs, Len(seqs) \in Nat, Len(seqs) >= 1
    PROVE  \E f :
            /\ f[1] = seqs[1]
            /\ \A i \in 2..Len(seqs) : f[i] = f[i - 1] \o seqs[i]
            /\ FlattenSeq(seqs) = f[Len(seqs)]
<1>. DEFINE Step(f, i) == f[i - 1] \o seqs[i]
            Flat(f, n) == f = [i \in 1..n |-> IF i = 1 THEN seqs[i] ELSE Step(f, i)]
            S == {n \in Nat : \E f : Flat(f, n)}
<1>1. 0 \in S
    <2>. DEFINE f == [i \in 1..0 |-> seqs[i]]
    <2>1. Flat(f, 0)
        OBVIOUS
    <2>. QED
        BY <2>1
<1>2. ASSUME NEW n \in S PROVE n + 1 \in S
    <2>1. PICK f : Flat(f, n)
        OBVIOUS
    <2>2. n \in Nat
        OBVIOUS
    <2>. DEFINE last == IF n + 1 = 1 THEN seqs[n + 1] ELSE f[n] \o seqs[n + 1]
                g == [i \in 1..n + 1 |-> IF i = n + 1 THEN last ELSE f[i]]
    <2>3. \A i \in 1..n : g[i] = f[i]
        BY <2>2
    <2>4. g[n + 1] = last
        BY <2>2
    <2>. HIDE DEF g
    <2>5. n + 1 # 1 => Step(g, n + 1) = f[n] \o seqs[n + 1]
        <3>1. n + 1 # 1 => (n + 1) - 1 = n /\ n \in 1..n
            BY <2>2
        <3>. QED
            BY <2>3, <3>1
    <2>6. ASSUME NEW i \in 1..n PROVE g[i] = IF i = 1 THEN seqs[i] ELSE Step(g, i)
        <3>. HIDE DEF Step
        <3>1. f[i] = IF i = 1 THEN seqs[i] ELSE Step(f, i)
            BY <2>1
        <3>2. i # 1 => i - 1 \in 1..n
            BY <2>2
        <3>3. i # 1 => Step(g, i) = Step(f, i)
            BY <2>3, <3>2 DEF Step
        <3>. HIDE DEF Flat
        <3>. QED
            BY <2>3, <3>1, <3>3
    <2>7. g = [i \in 1..n + 1 |-> IF i = n + 1 THEN last ELSE f[i]]
        BY DEF g
    <2>8. g[n + 1] = IF n + 1 = 1 THEN seqs[n + 1] ELSE Step(g, n + 1)
        <3>. HIDE DEF Step
        <3>. QED
            BY <2>4, <2>5
    <2>. HIDE DEF last, Step
    <2>9. \A i \in 1..n + 1 : g[i] = IF i = 1 THEN seqs[i] ELSE Step(g, i)
        <3>1. \A i \in 1..n + 1 : i \in 1..n \/ i = n + 1
            BY <2>2
        <3>. QED
            BY <2>6, <2>8, <3>1
    <2>10. Flat(g, n + 1)
        BY <2>7, <2>9
    <2>. QED
        BY <2>2, <2>10
<1>3. S = Nat
    <2>1. S \subseteq Nat
        OBVIOUS
    <2>. HIDE DEF S
    <2>. QED
        BY <1>1, <1>2, <2>1, SetInduction
<1>4. \E f : Flat(f, Len(seqs))
    BY <1>3
<1>. DEFINE flatten == CHOOSE f : Flat(f, Len(seqs))
<1>5. Flat(flatten, Len(seqs))
    BY <1>4
<1>6. FlattenSeq(seqs) = flatten[Len(seqs)]
    BY DEF FlattenSeq
<1>. HIDE DEF flatten
<1>7. flatten[1] = seqs[1]
    <2>. HIDE DEF Step
    <2>1. 1 \in 1..Len(seqs)
        OBVIOUS
    <2>. QED
        BY <1>5, <2>1, Zenon
<1>8. ASSUME NEW i \in 2..Len(seqs) PROVE flatten[i] = Step(flatten, i)
    <2>1. i \in 1..Len(seqs) /\ i # 1
        OBVIOUS
    <2>. HIDE DEF Step
    <2>2. flatten[i] = IF i = 1 THEN seqs[i] ELSE Step(flatten, i)
        BY <1>5, <2>1, Zenon
    <2>. QED
        BY <2>1, <2>2
<1>. QED
    BY <1>6, <1>7, <1>8

\* What is written is made of octets.
LEMMA FlattenType ==
    ASSUME NEW seqs, Len(seqs) \in Nat, Len(seqs) >= 1,
           \A i \in 1..Len(seqs) : seqs[i] \in Seq(Octet)
    PROVE  FlattenSeq(seqs) \in Seq(Octet)
<1>1. PICK f :
        /\ f[1] = seqs[1]
        /\ \A i \in 2..Len(seqs) : f[i] = f[i - 1] \o seqs[i]
        /\ FlattenSeq(seqs) = f[Len(seqs)]
    BY FlattenIs
<1>. DEFINE S == {n \in Nat : n \in 1..Len(seqs) => f[n] \in Seq(Octet)}
<1>2. 0 \in S
    OBVIOUS
<1>3. ASSUME NEW n \in S PROVE n + 1 \in S
    <2>1. SUFFICES ASSUME n + 1 \in 1..Len(seqs) PROVE f[n + 1] \in Seq(Octet)
        OBVIOUS
    <2>2. CASE n = 0
        BY <1>1, <2>1, <2>2
    <2>3. CASE n # 0
        <3>1. PICK k \in 2..Len(seqs) : k = n + 1 /\ k - 1 = n /\ n \in 1..Len(seqs)
            BY <2>1, <2>3
        <3>2. f[k] = f[n] \o seqs[k]
            BY <1>1, <3>1
        <3>3. f[n] \in Seq(Octet) /\ seqs[k] \in Seq(Octet)
            BY <3>1
        <3>4. f[n] \o seqs[k] \in Seq(Octet)
            BY <3>3, ConcatProperties
        <3>. QED
            BY <3>1, <3>2, <3>4
    <2>. QED
        BY <2>2, <2>3
<1>4. S = Nat
    <2>1. S \subseteq Nat
        OBVIOUS
    <2>. HIDE DEF S
    <2>. QED
        BY <1>2, <1>3, <2>1, SetInduction
<1>5. Len(seqs) \in S /\ Len(seqs) \in 1..Len(seqs)
    BY <1>4
<1>. QED
    BY <1>1, <1>5

\* The bytes of one field.
Piece(fields, field) ==
    IF field \in DOMAIN LengthField THEN fields[field] ELSE Bytes(fields[field])

LEMMA WriteFieldsType ==
    ASSUME NEW fields, NEW layout, Len(layout) \in Nat, Len(layout) >= 1,
           \A i \in 1..Len(layout) :
                fields[layout[i]] \in IF layout[i] \in DOMAIN LengthField THEN Seq(Octet)
                                                                        ELSE Number
    PROVE  /\ WriteFields(fields, layout) \in Seq(Octet)
           /\ WriteFields(fields, layout)
                = FlattenSeq([i \in 1..Len(layout) |-> Piece(fields, layout[i])])
<1>. DEFINE seqs == [i \in 1..Len(layout) |-> Piece(fields, layout[i])]
<1>1. WriteFields(fields, layout) = FlattenSeq(seqs)
    BY DEF WriteFields, Piece
<1>2. ASSUME NEW i \in 1..Len(layout) PROVE Piece(fields, layout[i]) \in Seq(Octet)
    BY <1>2, BytesType DEF Piece
<1>3. Len(seqs) = Len(layout) /\ \A i \in 1..Len(layout) : seqs[i] \in Seq(Octet)
    BY <1>2
<1>. HIDE DEF seqs
<1>4. FlattenSeq(seqs) \in Seq(Octet)
    BY <1>3, FlattenType
<1>. QED
    BY <1>1, <1>4 DEF seqs

-----------------------------------------------------------------------------
(* The headers that are written. *)

LEMMA DigitNumber ==
    ASSUME NEW n \in Digit
    PROVE  << n >> \in Number /\ Len(<< n >>) = 1
<1>1. << n >> \in Seq(Digit) /\ Len(<< n >>) = 1
    OBVIOUS
<1>. QED
    BY <1>1 DEF Number

LEMMA Uint16Type ==
    ASSUME NEW n \in Nat
    PROVE  Uint16(n) \in Number /\ Len(Uint16(n)) = 1
<1>1. n % DigitMod \in Digit
    BY DigitModIs DEF Digit
<1>. QED
    BY <1>1, DigitNumber DEF Uint16

LEMMA Uint32Type ==
    ASSUME NEW n \in Size
    PROVE  Uint32(n) \in Word32
<1>1. n \in Nat /\ n \div DigitMod < DigitMod
    BY DEF Size
<1>2. n % DigitMod \in Digit
    BY <1>1, DigitModIs DEF Digit
<1>3. n \div DigitMod \in Nat
    BY <1>1, SMT DEF DigitMod
<1>4. n \div DigitMod \in Digit
    BY <1>1, <1>3, DigitModIs DEF Digit
<1>5. /\ << n % DigitMod, n \div DigitMod >> \in Seq(Digit)
      /\ Len(<< n % DigitMod, n \div DigitMod >>) = 2
    BY <1>2, <1>4
<1>. QED
    BY <1>5 DEF Uint32, Word32, Number

LEMMA SmallSize ==
    ASSUME NEW n \in Nat, n < 4294967296
    PROVE  n \in Size
<1>1. n \div 65536 < 65536
    BY SMT
<1>2. n \div DigitMod < DigitMod
    BY <1>1, SMT DEF DigitMod
<1>. QED
    BY <1>2, SMT DEF Size

\* What a field is that is written: a name may have got a separator.
Written(field) ==
    IF field \in DOMAIN LengthField THEN Seq(Octet)
    ELSE {number \in Number : Len(number) = IF field \in Words THEN 2 ELSE 1}

LEMMA FileNameType ==
    ASSUME NEW record \in EntryRecord
    PROVE  /\ FileName(record) \in Seq(Octet)
           /\ Len(FileName(record)) \in Nat /\ Len(FileName(record)) <= DigitMod
           /\ record.extra \in Seq(Octet)
           /\ Len(record.extra) \in Nat /\ Len(record.extra) < DigitMod
           /\ record.comment \in Seq(Octet)
           /\ Len(record.comment) \in Nat /\ Len(record.comment) < DigitMod
<1>1. record.name \in Text /\ record.extra \in Text /\ record.comment \in Text
    BY DEF EntryRecord
<1>2. ASSUME NEW text \in Text
      PROVE  text \in Seq(Octet) /\ Len(text) \in Nat /\ Len(text) < DigitMod
    BY DEF Text
<1>3. << Separator >> \in Seq(Octet) /\ Len(<< Separator >>) = 1
    <2>1. Separator \in Octet
        BY DEF Separator, Octet
    <2>. QED
        BY <2>1
<1>. DEFINE tail == IF record.dir THEN << Separator >> ELSE << >>
<1>4. tail \in Seq(Octet) /\ Len(tail) \in 0..1
    BY <1>3
<1>. HIDE DEF tail
<1>5. FileName(record) = record.name \o tail
    BY DEF FileName, tail
<1>6. PICK name \in Seq(Octet) :
            name = record.name /\ Len(name) \in Nat /\ Len(name) < DigitMod
    BY <1>1, <1>2
<1>7. name \o tail \in Seq(Octet) /\ Len(name \o tail) = Len(name) + Len(tail)
    BY <1>4, <1>6, ConcatProperties
<1>8. Len(name) + Len(tail) \in Nat /\ Len(name) + Len(tail) <= DigitMod
    <2>1. PICK n \in Nat, k \in 0..1 : n = Len(name) /\ k = Len(tail)
        BY <1>4, <1>6
    <2>2. n < DigitMod
        BY <1>6, <2>1
    <2>3. n + k \in Nat /\ n + k <= DigitMod
        BY <2>2, DigitModIs
    <2>. QED
        BY <2>1, <2>3
<1>9. FileName(record) = name \o tail
    BY <1>5, <1>6
<1>10. /\ FileName(record) \in Seq(Octet)
       /\ Len(FileName(record)) \in Nat /\ Len(FileName(record)) <= DigitMod
    BY <1>7, <1>8, <1>9
<1>11. record.extra \in Seq(Octet) /\ Len(record.extra) \in Nat /\ Len(record.extra) < DigitMod
    BY <1>1, <1>2
<1>12. /\ record.comment \in Seq(Octet)
       /\ Len(record.comment) \in Nat /\ Len(record.comment) < DigitMod
    BY <1>1, <1>2
<1>. QED
    BY <1>10, <1>11, <1>12

LEMMA HeaderFieldsType ==
    ASSUME NEW signature \in Word32, NEW record \in EntryRecord, NEW time \in Word32,
           NEW csize \in Size, NEW offset \in Size,
           NEW field \in DOMAIN HeaderFields(signature, record, time, csize, offset)
    PROVE  HeaderFields(signature, record, time, csize, offset)[field] \in Written(field)
<1>. DEFINE Half == {number \in Number : Len(number) = 1}
            f == HeaderFields(signature, record, time, csize, offset)
<1>1. /\ record.method \in Digit /\ record.crc \in Word32 /\ record.size \in Size
      /\ record.dir \in BOOLEAN
    BY DEF EntryRecord
<1>2. ASSUME NEW n \in Digit PROVE << n >> \in Half
    BY DigitNumber
<1>3. 788 \in Digit /\ 20 \in Digit /\ 0 \in Digit
    BY SMT DEF Digit, DigitMod
<1>4. ASSUME NEW n \in Nat PROVE Uint16(n) \in Half
    BY Uint16Type
<1>5. << 16, 16893 >> \in Word32 /\ << 0, 33204 >> \in Word32
    <2>1. 16 \in Digit /\ 16893 \in Digit /\ 0 \in Digit /\ 33204 \in Digit
        BY SMT DEF Digit, DigitMod
    <2>2. ASSUME NEW a \in Digit, NEW b \in Digit PROVE << a, b >> \in Word32
        <3>1. << a, b >> \in Seq(Digit) /\ Len(<< a, b >>) = 2
            OBVIOUS
        <3>. QED
            BY <3>1 DEF Word32, Number
    <2>. QED
        BY <2>1, <2>2
<1>6. /\ Len(FileName(record)) \in Nat /\ Len(record.extra) \in Nat
      /\ Len(record.comment) \in Nat
    BY FileNameType
<1>7. /\ f["signature"] \in Word32 /\ f["time"] \in Word32 /\ f["crc"] \in Word32
      /\ f["csize"] \in Word32 /\ f["size"] \in Word32 /\ f["attributes"] \in Word32
      /\ f["offset"] \in Word32
    <2>1. Uint32(csize) \in Word32 /\ Uint32(record.size) \in Word32 /\ Uint32(offset) \in Word32
        BY <1>1, Uint32Type
    <2>2. (IF record.dir THEN << 16, 16893 >> ELSE << 0, 33204 >>) \in Word32
        BY <1>5
    <2>. QED
        BY <1>1, <2>1, <2>2 DEF HeaderFields
<1>8. /\ f["writer_version"] \in Half /\ f["extract_version"] \in Half
      /\ f["flags"] \in Half /\ f["method"] \in Half /\ f["disk"] \in Half
      /\ f["intern"] \in Half
    <2>1. /\ << 788 >> \in Half /\ << 20 >> \in Half /\ << 0 >> \in Half
          /\ << record.method >> \in Half
        BY <1>1, <1>2, <1>3
    <2>. HIDE DEF Half
    <2>. QED
        BY <2>1 DEF HeaderFields
<1>9. f["name_len"] \in Half /\ f["extra_len"] \in Half /\ f["comment_len"] \in Half
    <2>1. /\ Uint16(Len(FileName(record))) \in Half /\ Uint16(Len(record.extra)) \in Half
          /\ Uint16(Len(record.comment)) \in Half
        BY <1>4, <1>6
    <2>. HIDE DEF Half
    <2>. QED
        BY <2>1 DEF HeaderFields
<1>10. /\ f["name"] \in Seq(Octet) /\ f["extra"] \in Seq(Octet)
       /\ f["comment"] \in Seq(Octet)
    <2>1. /\ f["name"] = FileName(record) /\ f["extra"] = record.extra
          /\ f["comment"] = record.comment
        BY DEF HeaderFields
    <2>. QED
        BY <2>1, FileNameType
<1>11. field \in {"signature", "writer_version", "extract_version", "flags", "method",
            "time", "crc", "csize", "size", "name_len", "extra_len", "comment_len",
            "disk", "intern", "attributes", "offset", "name", "extra", "comment"}
    BY DEF HeaderFields
<1>. HIDE DEF f
<1>12. CASE field \in {"signature", "time", "crc", "csize", "size", "attributes", "offset"}
    <2>1. Written(field) = Word32
        BY <1>12 DEF Written, LengthField, Words, Word32
    <2>. QED
        BY <1>7, <1>12, <2>1 DEF f
<1>13. CASE field \in {"writer_version", "extract_version", "flags", "method", "disk",
                       "intern", "name_len", "extra_len", "comment_len"}
    <2>1. Written(field) = Half
        BY <1>13 DEF Written, LengthField, Words
    <2>. HIDE DEF Half
    <2>. QED
        BY <1>8, <1>9, <1>13, <2>1 DEF f
<1>14. CASE field \in {"name", "extra", "comment"}
    <2>1. Written(field) = Seq(Octet)
        BY <1>14 DEF Written, LengthField
    <2>. QED
        BY <1>10, <1>14, <2>1 DEF f
<1>. QED
    BY <1>11, <1>12, <1>13, <1>14

\* The bytes of a field that is written.
LEMMA PieceType ==
    ASSUME NEW fields, NEW field, fields[field] \in Written(field)
    PROVE  /\ Piece(fields, field) \in Seq(Octet)
           /\ Len(Piece(fields, field))
                = IF field \in DOMAIN LengthField THEN Len(fields[field])
                  ELSE IF field \in Words THEN 4 ELSE 2
<1>1. CASE field \in DOMAIN LengthField
    BY <1>1 DEF Written, Piece
<1>2. CASE field \notin DOMAIN LengthField
    <2>1. PICK number \in Number : /\ number = fields[field]
                                   /\ Len(number) = IF field \in Words THEN 2 ELSE 1
        BY <1>2 DEF Written
    <2>2. Bytes(number) \in Seq(Octet) /\ Len(Bytes(number)) = 2 * Len(number)
        BY BytesType
    <2>3. Piece(fields, field) = Bytes(number)
        BY <1>2, <2>1 DEF Piece
    <2>. QED
        BY <1>2, <2>1, <2>2, <2>3
<1>. QED
    BY <1>1, <1>2

\* So many bytes.
Sized(bytes, n) == bytes \in Seq(Octet) /\ n \in Nat /\ Len(bytes) = n

(* getHeaderSize() of a local header is the number of bytes that write() writes,
   whatever the entry (src/src/ziplocalentry.cpp:239). *)
THEOREM LocalLength ==
    ASSUME NEW record \in EntryRecord, NEW time \in Word32, NEW csize \in Size
    PROVE  Sized(LocalBytes(record, time, csize), LocalHeaderSize(record))
<1>. DEFINE f == HeaderFields(LocalSignature, record, time, csize, 0)
            seqs == [i \in 1..Len(LocalWritten) |-> Piece(f, LocalWritten[i])]
<1>1. 0 \in Size /\ LocalSignature \in Word32
    <2>1. 0 \in Size
        BY SmallSize, SMT
    <2>2. 19280 \in Digit /\ 1027 \in Digit
        BY SMT DEF Digit, DigitMod
    <2>3. LocalSignature \in Seq(Digit) /\ Len(LocalSignature) = 2
        BY <2>2 DEF LocalSignature
    <2>. QED
        BY <2>1, <2>3 DEF Word32, Number
<1>2. \A field \in DOMAIN f : f[field] \in Written(field)
    BY <1>1, HeaderFieldsType
<1>3. DOMAIN f = {"signature", "writer_version", "extract_version", "flags", "method",
            "time", "crc", "csize", "size", "name_len", "extra_len", "comment_len",
            "disk", "intern", "attributes", "offset", "name", "extra", "comment"}
    BY DEF HeaderFields
<1>4. f["name"] = FileName(record) /\ f["extra"] = record.extra
    BY DEF HeaderFields
<1>. HIDE DEF f
<1>5. Len(LocalWritten) = 12 /\ \A i \in 1..12 : LocalWritten[i] \in DOMAIN f
    BY <1>3 DEF LocalWritten
<1>6. LocalBytes(record, time, csize) = FlattenSeq(seqs)
    <2>1. \A i \in 1..Len(LocalWritten) : f[LocalWritten[i]] \in Written(LocalWritten[i])
        BY <1>2, <1>5
    <2>2. \A i \in 1..Len(LocalWritten) :
            f[LocalWritten[i]] \in IF LocalWritten[i] \in DOMAIN LengthField THEN Seq(Octet)
                                                                           ELSE Number
        BY <2>1 DEF Written
    <2>3. PICK layout : layout = LocalWritten
        OBVIOUS
    <2>4. /\ Len(layout) \in Nat /\ Len(layout) >= 1
          /\ \A i \in 1..Len(layout) :
                f[layout[i]] \in IF layout[i] \in DOMAIN LengthField THEN Seq(Octet) ELSE Number
        <3>1. Len(LocalWritten) \in Nat /\ Len(LocalWritten) >= 1
            BY <1>5
        <3>. QED
            BY <2>2, <2>3, <3>1, Zenon
    <2>5. WriteFields(f, layout)
            = FlattenSeq([i \in 1..Len(layout) |-> Piece(f, layout[i])])
        BY <2>4, WriteFieldsType
    <2>. QED
        BY <2>3, <2>5 DEF LocalBytes, f
<1>7. Len(seqs) = 12 /\ \A i \in 1..12 : seqs[i] = Piece(f, LocalWritten[i])
    BY <1>5
<1>. HIDE DEF seqs
<1>8. ASSUME NEW i \in 1..12
      PROVE  Sized(seqs[i], IF LocalWritten[i] \in DOMAIN LengthField
                            THEN Len(f[LocalWritten[i]])
                            ELSE IF LocalWritten[i] \in Words THEN 4 ELSE 2)
    <2>1. PICK field \in DOMAIN f : field = LocalWritten[i]
        BY <1>5
    <2>2. f[field] \in Written(field)
        BY <1>2
    <2>3. /\ Piece(f, field) \in Seq(Octet)
          /\ Len(Piece(f, field))
                = IF field \in DOMAIN LengthField THEN Len(f[field])
                  ELSE IF field \in Words THEN 4 ELSE 2
        BY <2>2, PieceType
    <2>4. Len(Piece(f, field)) \in Nat
        BY <2>3, LenProperties
    <2>. QED
        BY <1>7, <2>1, <2>3, <2>4 DEF Sized
<1>9. PICK g :
        /\ g[1] = seqs[1]
        /\ \A i \in 2..Len(seqs) : g[i] = g[i - 1] \o seqs[i]
        /\ FlattenSeq(seqs) = g[Len(seqs)]
    <2>1. Len(seqs) \in Nat /\ Len(seqs) >= 1
        BY <1>7
    <2>. QED
        BY <2>1, FlattenIs
<1>10. PICK n \in Nat, x \in Nat : n = Len(FileName(record)) /\ x = Len(record.extra)
    BY FileNameType
<1>11. /\ Sized(seqs[1], 4) /\ Sized(seqs[2], 2) /\ Sized(seqs[3], 2) /\ Sized(seqs[4], 2)
       /\ Sized(seqs[5], 4) /\ Sized(seqs[6], 4) /\ Sized(seqs[7], 4) /\ Sized(seqs[8], 4)
       /\ Sized(seqs[9], 2) /\ Sized(seqs[10], 2) /\ Sized(seqs[11], n) /\ Sized(seqs[12], x)
    <2>1. DOMAIN LengthField = {"name", "extra", "comment"}
        BY DEF LengthField
    <2>2. ASSUME NEW i \in {1, 5, 6, 7, 8}
          PROVE  Sized(seqs[i], 4)
        <3>1. LocalWritten[i] \notin DOMAIN LengthField /\ LocalWritten[i] \in Words
            BY <2>1 DEF LocalWritten, Words
        <3>2. i \in 1..12
            OBVIOUS
        <3>. QED
            BY <1>8, <3>1, <3>2
    <2>3. ASSUME NEW i \in {2, 3, 4, 9, 10}
          PROVE  Sized(seqs[i], 2)
        <3>1. LocalWritten[i] \notin DOMAIN LengthField /\ LocalWritten[i] \notin Words
            BY <2>1 DEF LocalWritten, Words
        <3>2. i \in 1..12
            OBVIOUS
        <3>. QED
            BY <1>8, <3>1, <3>2
    <2>4. LocalWritten[11] = "name" /\ LocalWritten[12] = "extra"
        BY DEF LocalWritten
    <2>5. Sized(seqs[11], n)
        <3>1. 11 \in 1..12
            OBVIOUS
        <3>2. Sized(seqs[11], Len(f["name"]))
            BY <1>8, <2>1, <2>4, <3>1
        <3>. QED
            BY <1>4, <1>10, <3>2
    <2>6. Sized(seqs[12], x)
        <3>1. 12 \in 1..12
            OBVIOUS
        <3>2. Sized(seqs[12], Len(f["extra"]))
            BY <1>8, <2>1, <2>4, <3>1
        <3>. QED
            BY <1>4, <1>10, <3>2
    <2>. QED
        BY <2>2, <2>3, <2>5, <2>6
<1>. DEFINE Joined(j, i) ==
                g[j] \in Seq(Octet) =>
                    g[i] \in Seq(Octet) /\ Len(g[i]) = Len(g[j]) + Len(seqs[i])
<1>12. ASSUME NEW i \in 2..12, NEW j \in 1..11, j + 1 = i
       PROVE  Joined(j, i)
    <2>1. SUFFICES ASSUME g[j] \in Seq(Octet)
                   PROVE  g[i] \in Seq(Octet) /\ Len(g[i]) = Len(g[j]) + Len(seqs[i])
        OBVIOUS
    <2>2. g[i] = g[j] \o seqs[i]
        <3>1. i - 1 = j
            BY <1>12
        <3>2. i \in 2..Len(seqs)
            BY <1>7
        <3>3. g[i] = g[i - 1] \o seqs[i]
            BY <1>9, <3>2
        <3>. QED
            BY <3>1, <3>3
    <2>3. seqs[i] \in Seq(Octet)
        <3>1. i \in 1..12
            OBVIOUS
        <3>. QED
            BY <1>8, <3>1, Zenon DEF Sized
    <2>. QED
        BY <2>1, <2>2, <2>3, ConcatProperties
<1>. HIDE DEF Joined
<1>13. /\ Joined(1, 2) /\ Joined(2, 3) /\ Joined(3, 4) /\ Joined(4, 5) /\ Joined(5, 6)
       /\ Joined(6, 7) /\ Joined(7, 8) /\ Joined(8, 9) /\ Joined(9, 10)
       /\ Joined(10, 11) /\ Joined(11, 12)
    BY <1>12, SMT
<1>14. g[1] \in Seq(Octet) /\ Len(g[1]) = 4
    BY <1>9, <1>11 DEF Sized
<1>15. g[2] \in Seq(Octet) /\ Len(g[2]) = Len(g[1]) + Len(seqs[2])
    BY <1>13, <1>14, Zenon DEF Joined
<1>16. g[3] \in Seq(Octet) /\ Len(g[3]) = Len(g[2]) + Len(seqs[3])
    BY <1>13, <1>15, Zenon DEF Joined
<1>17. g[4] \in Seq(Octet) /\ Len(g[4]) = Len(g[3]) + Len(seqs[4])
    BY <1>13, <1>16, Zenon DEF Joined
<1>18. g[5] \in Seq(Octet) /\ Len(g[5]) = Len(g[4]) + Len(seqs[5])
    BY <1>13, <1>17, Zenon DEF Joined
<1>19. g[6] \in Seq(Octet) /\ Len(g[6]) = Len(g[5]) + Len(seqs[6])
    BY <1>13, <1>18, Zenon DEF Joined
<1>20. g[7] \in Seq(Octet) /\ Len(g[7]) = Len(g[6]) + Len(seqs[7])
    BY <1>13, <1>19, Zenon DEF Joined
<1>21. g[8] \in Seq(Octet) /\ Len(g[8]) = Len(g[7]) + Len(seqs[8])
    BY <1>13, <1>20, Zenon DEF Joined
<1>22. g[9] \in Seq(Octet) /\ Len(g[9]) = Len(g[8]) + Len(seqs[9])
    BY <1>13, <1>21, Zenon DEF Joined
<1>23. g[10] \in Seq(Octet) /\ Len(g[10]) = Len(g[9]) + Len(seqs[10])
    BY <1>13, <1>22, Zenon DEF Joined
<1>24. g[11] \in Seq(Octet) /\ Len(g[11]) = Len(g[10]) + Len(seqs[11])
    BY <1>13, <1>23, Zenon DEF Joined
<1>25. g[12] \in Seq(Octet) /\ Len(g[12]) = Len(g[11]) + Len(seqs[12])
    BY <1>13, <1>24, Zenon DEF Joined
<1>26. Len(g[12]) = 30 + n + x
    <2>1. /\ Len(seqs[2]) = 2 /\ Len(seqs[3]) = 2 /\ Len(seqs[4]) = 2 /\ Len(seqs[5]) = 4
          /\ Len(seqs[6]) = 4 /\ Len(seqs[7]) = 4 /\ Len(seqs[8]) = 4 /\ Len(seqs[9]) = 2
          /\ Len(seqs[10]) = 2 /\ Len(seqs[11]) = n /\ Len(seqs[12]) = x
        BY <1>11 DEF Sized
    <2>2. Len(g[6]) = 18
        BY <1>14, <1>15, <1>16, <1>17, <1>18, <1>19, <2>1
    <2>3. Len(g[10]) = 30
        BY <1>20, <1>21, <1>22, <1>23, <2>1, <2>2
    <2>. QED
        BY <1>24, <1>25, <2>1, <2>3
<1>27. g[12] \in Seq(Octet) /\ 30 + n + x \in Nat
    BY <1>25
<1>28. LocalBytes(record, time, csize) = g[12]
    BY <1>6, <1>7, <1>9
<1>29. LocalHeaderSize(record) = 30 + n + x
    BY <1>10 DEF LocalHeaderSize
<1>. QED
    BY <1>26, <1>27, <1>28, <1>29 DEF Sized

\* The sizes and offsets of an archive fit their fields.
LEMMA SizesFit ==
    ASSUME NEW name \in Nat, NEW extra \in Nat, NEW comment \in Nat, NEW size \in Nat,
           name <= DigitMod, extra <= DigitMod, comment <= DigitMod, size <= MaxData
    PROVE  /\ size \in Size /\ 30 + name + extra + size \in Size
           /\ 46 + name + extra + comment \in Size
<1>1. name <= 65536 /\ extra <= 65536 /\ comment <= 65536
    BY DEF DigitMod
<1>2. size < 2147483648
    BY SMT DEF MaxData, DigitMod
<1>3. /\ 30 + name + extra + size \in Nat /\ 30 + name + extra + size < 4294967296
      /\ 46 + name + extra + comment \in Nat /\ 46 + name + extra + comment < 4294967296
      /\ size < 4294967296
    BY <1>1, <1>2, SMT
<1>. QED
    BY <1>3, SmallSize, SMT

LEMMA SignatureTypes ==
    /\ LocalSignature \in Word32 /\ CentralSignature \in Word32
    /\ EndSignature \in Word32
<1>1. ASSUME NEW a \in Digit, NEW b \in Digit PROVE << a, b >> \in Word32
    <2>1. << a, b >> \in Seq(Digit) /\ Len(<< a, b >>) = 2
        OBVIOUS
    <2>. QED
        BY <2>1 DEF Word32, Number
<1>2. 19280 \in Digit /\ 1027 \in Digit /\ 513 \in Digit /\ 1541 \in Digit
    BY SMT DEF Digit, DigitMod
<1>. QED
    BY <1>1, <1>2 DEF LocalSignature, CentralSignature, EndSignature

LEMMA WrittenType ==
    ASSUME NEW fields, NEW layout, Len(layout) \in Nat, Len(layout) >= 1,
           \A i \in 1..Len(layout) : fields[layout[i]] \in Written(layout[i])
    PROVE  WriteFields(fields, layout) \in Seq(Octet)
<1>1. \A i \in 1..Len(layout) :
        fields[layout[i]] \in IF layout[i] \in DOMAIN LengthField THEN Seq(Octet) ELSE Number
    BY DEF Written
<1>. QED
    BY <1>1, WriteFieldsType, Zenon

LEMMA CentralType ==
    ASSUME NEW record \in EntryRecord, NEW time \in Word32, NEW csize \in Size
    PROVE  CentralBytes(record, time, csize, 0) \in Seq(Octet)
<1>. DEFINE f == HeaderFields(CentralSignature, record, time, csize, 0)
<1>1. 0 \in Size
    BY SmallSize, SMT
<1>2. \A field \in DOMAIN f : f[field] \in Written(field)
    BY <1>1, SignatureTypes, HeaderFieldsType
<1>3. DOMAIN f = {"signature", "writer_version", "extract_version", "flags", "method",
            "time", "crc", "csize", "size", "name_len", "extra_len", "comment_len",
            "disk", "intern", "attributes", "offset", "name", "extra", "comment"}
    BY DEF HeaderFields
<1>. HIDE DEF f
<1>4. Len(CentralWritten) = 19 /\ \A i \in 1..19 : CentralWritten[i] \in DOMAIN f
    BY <1>3 DEF CentralWritten
<1>5. Len(CentralWritten) \in Nat /\ Len(CentralWritten) >= 1
    BY <1>4
<1>6. \A i \in 1..Len(CentralWritten) : f[CentralWritten[i]] \in Written(CentralWritten[i])
    BY <1>2, <1>4
<1>7. WriteFields(f, CentralWritten) \in Seq(Octet)
    BY <1>5, <1>6, WrittenType, Zenon
<1>. QED
    BY <1>7 DEF CentralBytes, f

LEMMA EndType ==
    ASSUME NEW size \in Size, NEW offset \in Size, NEW comment \in Text
    PROVE  EndBytes(1, size, offset, comment) \in Seq(Octet)
<1>. DEFINE Half == {number \in Number : Len(number) = 1}
            f == [signature |-> EndSignature, disk |-> << 0 >>, entries |-> Uint16(1),
                  total_entries |-> Uint16(1), directory_size |-> Uint32(size),
                  directory_offset |-> Uint32(offset),
                  comment_len |-> Uint16(Len(comment)), comment |-> comment]
<1>1. << 0 >> \in Half /\ Uint16(1) \in Half /\ Uint16(Len(comment)) \in Half
    <2>1. << 0 >> \in Half
        BY DigitModIs, DigitNumber
    <2>2. Len(comment) \in Nat
        BY DEF Text
    <2>. QED
        BY <2>1, <2>2, Uint16Type
<1>2. Uint32(size) \in Word32 /\ Uint32(offset) \in Word32
    BY Uint32Type
<1>. HIDE DEF Half
<1>3. /\ f["signature"] \in Word32 /\ f["directory_size"] \in Word32
      /\ f["directory_offset"] \in Word32
      /\ f["disk"] \in Half /\ f["entries"] \in Half /\ f["total_entries"] \in Half
      /\ f["comment_len"] \in Half /\ f["comment"] \in Seq(Octet)
    <2>1. comment \in Seq(Octet)
        BY DEF Text
    <2>. QED
        BY <1>1, <1>2, <2>1, SignatureTypes
<1>. HIDE DEF f
<1>4. /\ Written("signature") = Word32 /\ Written("directory_size") = Word32
      /\ Written("directory_offset") = Word32
      /\ Written("disk") = Half /\ Written("entries") = Half
      /\ Written("total_entries") = Half /\ Written("comment_len") = Half
      /\ Written("comment") = Seq(Octet)
    BY DEF Written, LengthField, Words, Word32, Half
<1>5. Len(EndWritten) = 9
    BY DEF EndWritten
<1>6. \A i \in 1..9 : EndWritten[i] \in {"signature", "disk", "entries", "total_entries",
                            "directory_size", "directory_offset", "comment_len", "comment"}
    BY DEF EndWritten
<1>7. \A i \in 1..9 : f[EndWritten[i]] \in Written(EndWritten[i])
    <2>. SUFFICES ASSUME NEW i \in 1..9 PROVE f[EndWritten[i]] \in Written(EndWritten[i])
        OBVIOUS
    <2>1. PICK field \in {"signature", "disk", "entries", "total_entries",
                "directory_size", "directory_offset", "comment_len", "comment"} :
                    field = EndWritten[i]
        BY <1>6
    <2>2. f[field] \in Written(field)
        BY <1>3, <1>4
    <2>. QED
        BY <2>1, <2>2
<1>8. Len(EndWritten) \in Nat /\ Len(EndWritten) >= 1
    BY <1>5
<1>9. \A i \in 1..Len(EndWritten) : f[EndWritten[i]] \in Written(EndWritten[i])
    BY <1>5, <1>7
<1>10. WriteFields(f, EndWritten) \in Seq(Octet)
    BY <1>8, <1>9, WrittenType, Zenon
<1>. QED
    BY <1>10 DEF EndBytes, f

\* An archive is made of octets: what updateEntryHeaderInfo() computes from the
\* positions is the size of the data.
LEMMA ArchiveType ==
    ASSUME NEW record \in EntryRecord, NEW time \in Word32, NEW bytes \in Seq(Octet),
           Len(bytes) <= MaxData, NEW comment \in Text
    PROVE  ArchiveBytes(record, time, bytes, comment) \in Seq(Octet)
<1>1. PICK n \in Nat, x \in Nat, c \in Nat, s \in Nat :
        /\ n = Len(FileName(record)) /\ x = Len(record.extra) /\ c = Len(record.comment)
        /\ s = Len(bytes) /\ n <= DigitMod /\ x <= DigitMod /\ c <= DigitMod
    <2>1. Len(bytes) \in Nat
        BY LenProperties
    <2>2. /\ Len(FileName(record)) \in Nat /\ Len(FileName(record)) <= DigitMod
          /\ Len(record.extra) \in Nat /\ Len(record.extra) <= DigitMod
          /\ Len(record.comment) \in Nat /\ Len(record.comment) <= DigitMod
        BY FileNameType, DigitModIs
    <2>. QED
        BY <2>1, <2>2
<1>2. LocalHeaderSize(record) = 30 + n + x
    BY <1>1 DEF LocalHeaderSize
<1>3. CentralHeaderSize(record) \in Size
    <2>1. CentralHeaderSize(record) = 46 + n + x + c
        BY <1>1 DEF CentralHeaderSize
    <2>2. s <= MaxData
        BY <1>1
    <2>3. 46 + n + x + c \in Size
        BY <1>1, <2>2, SizesFit
    <2>. QED
        BY <2>1, <2>3
<1>4. s \in Size /\ 30 + n + x + s \in Size
    <2>1. s <= MaxData
        BY <1>1
    <2>. QED
        BY <1>1, <2>1, SizesFit
<1>5. Len(LocalBytes(record, time, 0)) = 30 + n + x
    <2>1. 0 \in Size
        BY SmallSize, SMT
    <2>. QED
        BY <1>2, <2>1, LocalLength DEF Sized
<1>6. LocalBytes(record, time, s) \in Seq(Octet)
    BY <1>4, LocalLength DEF Sized
<1>7. (30 + n + x + s) - (30 + n + x) = s
    BY SMT
<1>8. ArchiveBytes(record, time, bytes, comment)
        = LocalBytes(record, time, s) \o bytes \o CentralBytes(record, time, s, 0)
            \o EndBytes(1, CentralHeaderSize(record), 30 + n + x + s, comment)
    BY <1>1, <1>2, <1>5, <1>7 DEF ArchiveBytes
<1>9. /\ CentralBytes(record, time, s, 0) \in Seq(Octet)
      /\ EndBytes(1, CentralHeaderSize(record), 30 + n + x + s, comment) \in Seq(Octet)
    BY <1>3, <1>4, CentralType, EndType
<1>10. ASSUME NEW a \in Seq(Octet), NEW b \in Seq(Octet), NEW d \in Seq(Octet),
              NEW e \in Seq(Octet)
       PROVE  a \o b \o d \o e \in Seq(Octet)
    <2>1. a \o b \in Seq(Octet)
        BY ConcatProperties
    <2>2. a \o b \o d \in Seq(Octet)
        BY <2>1, ConcatProperties
    <2>. QED
        BY <2>2, ConcatProperties
<1>11. PICK local \in Seq(Octet), central \in Seq(Octet), end \in Seq(Octet) :
            ArchiveBytes(record, time, bytes, comment) = local \o bytes \o central \o end
    BY <1>6, <1>8, <1>9
<1>. QED
    BY <1>10, <1>11

-----------------------------------------------------------------------------
(* Moments. *)

LEMMA SecondsIs ==
    ASSUME NEW n \in Int
    PROVE  /\ n \div SecondsADay \in Int /\ n % SecondsADay \in 0..SecondsADay - 1
           /\ SecondsADay \in Nat
<1>1. n \div 86400 \in Int /\ n % 86400 \in Int /\ 0 <= n % 86400 /\ n % 86400 < 86400
    BY SMT
<1>2. /\ n \div SecondsADay \in Int /\ n % SecondsADay \in Int
      /\ 0 <= n % SecondsADay /\ n % SecondsADay < SecondsADay /\ SecondsADay \in Nat
    BY <1>1, SMT DEF SecondsADay
<1>. QED
    BY <1>2, SMT

LEMMA PlusType ==
    ASSUME NEW t \in Moment, NEW seconds \in Int
    PROVE  Plus(t, seconds) \in Moment
<1>1. PICK day \in Int, sec \in Int : day = t.day /\ sec = t.sec
    BY SecondsIs, SMT DEF Moment
<1>2. PICK n \in Int : n = sec + seconds
    BY SMT
<1>3. Plus(t, seconds) = [day |-> day + n \div SecondsADay, sec |-> n % SecondsADay]
    BY <1>1, <1>2, SMT DEF Plus
<1>4. PICK e \in Int : e = n \div SecondsADay
    BY SecondsIs
<1>5. day + e \in Int /\ n % SecondsADay \in 0..SecondsADay - 1
    BY SecondsIs, SMT
<1>. QED
    BY <1>3, <1>4, <1>5, SMT DEF Moment

LEMMA StandardIs == Standard \in Int /\ Standard % 2 = 0
<1>1. SecondsADay \in Nat
    BY SecondsIs
<1>. QED
    BY <1>1, ZoneAssumption, SMT

LEMMA LocaltimeType ==
    ASSUME NEW t \in Moment
    PROVE  /\ RoundedUp(t) \in Moment /\ Localtime(t) \in Moment
           /\ Localtime(RoundedUp(t)) \in Moment
<1>1. ASSUME NEW u \in Moment PROVE Localtime(u) \in Moment
    <2>1. Standard + (IF IsSummer(u) THEN 3600 ELSE 0) \in Int
        BY StandardIs, SMT
    <2>. QED
        BY <2>1, PlusType DEF Localtime
<1>. QED
    BY <1>1, RoundingIsStable

LEMMA MktimeType ==
    ASSUME NEW local \in Moment
    PROVE  Mktime(local) \subseteq Moment
<1>1. -Standard \in Int /\ -Standard - 3600 \in Int
    BY StandardIs, SMT
<1>2. Plus(local, -Standard) \in Moment /\ Plus(local, -Standard - 3600) \in Moment
    BY <1>1, PlusType
<1>. QED
    BY <1>2 DEF Mktime

\* What isValid() promises of the fields.
LEMMA ValidFields ==
    ASSUME NEW given \in Date, IsValid(given)
    PROVE  /\ given.second \in 0..29 /\ given.minute \in 0..59 /\ given.hour \in 0..23
           /\ given.month \in 1..12 /\ given.year \in 0..127 /\ given.mday > 0
           /\ given.mday \in 1..MonthLength(given.month, LeapDay(given.year + 1980))
<1>1. /\ given.second \in 0..29 /\ given.minute \in 0..59 /\ given.hour \in 0..23
      /\ given.month \in 1..12 /\ given.year \in 0..127 /\ given.mday > 0
      /\ given.mday \in Nat
    BY DEF Date, IsValid
<1>2. DaysInMonth(given) = MonthLength(given.month, LeapDay(given.year + 1980))
    BY <1>1, DaysInMonthAre
<1>3. given.mday <= MonthLength(given.month, LeapDay(given.year + 1980))
    BY <1>2 DEF IsValid
<1>4. MonthLength(given.month, LeapDay(given.year + 1980)) \in Nat
    <2>1. given.year + 1980 \in Int
        BY <1>1, SMT
    <2>2. PICK leap \in 0..1 : leap = LeapDay(given.year + 1980)
        BY <2>1, MonthStartsAre
    <2>3. MonthLength(given.month, leap) \in 28..31
        BY <1>1, StartAt
    <2>. QED
        BY <2>2, <2>3
<1>. QED
    BY <1>1, <1>3, <1>4

LEMMA SecondOf ==
    ASSUME NEW hour \in 0..23, NEW minute \in 0..59, NEW second \in 0..29
    PROVE  LET sec == 3600 * hour + 60 * minute + 2 * second
           IN  /\ sec \in Int /\ 0 <= sec /\ sec < 86400 /\ sec % 2 = 0
               /\ (sec % 60) \div 2 = second /\ (sec \div 60) % 60 = minute
               /\ sec \div 3600 = hour
<1>. DEFINE sec == 3600 * hour + 60 * minute + 2 * second
<1>1. sec \in Int /\ 0 <= sec /\ sec < 86400
    BY SMT
<1>2. sec % 60 = 2 * second /\ sec \div 60 = 60 * hour + minute
    <2>1. PICK k \in Int : k = 60 * hour + minute
        BY SMT
    <2>2. sec = 60 * k + 2 * second
        BY <2>1, SMT
    <2>3. (60 * k + 2 * second) % 60 = 2 * second /\ (60 * k + 2 * second) \div 60 = k
        BY SMT
    <2>. QED
        BY <2>1, <2>2, <2>3
<1>3. (2 * second) \div 2 = second
    BY SMT
<1>4. (60 * hour + minute) % 60 = minute
    BY SMT
<1>5. sec \div 3600 = hour
    <2>1. PICK k \in 0..3599 : k = 60 * minute + 2 * second
        BY SMT
    <2>2. sec = 3600 * hour + k
        BY <2>1, SMT
    <2>3. (3600 * hour + k) \div 3600 = hour
        BY SMT
    <2>. QED
        BY <2>2, <2>3
<1>6. sec % 2 = 0
    <2>1. PICK k \in Int : k = 1800 * hour + 30 * minute + second
        BY SMT
    <2>2. sec = 2 * k
        BY <2>1, SMT
    <2>3. (2 * k) % 2 = 0
        BY SMT
    <2>. QED
        BY <2>2, <2>3
<1>. HIDE DEF sec
<1>7. /\ sec \in Int /\ 0 <= sec /\ sec < 86400 /\ sec % 2 = 0
      /\ (sec % 60) \div 2 = second /\ (sec \div 60) % 60 = minute
      /\ sec \div 3600 = hour
    BY <1>1, <1>2, <1>3, <1>4, <1>5, <1>6, SMT
<1>. QED
    BY <1>7 DEF sec

\* The moment of a valid date, and its date.
LEMMA LocalMomentType ==
    ASSUME NEW given \in Date, IsValid(given)
    PROVE  /\ LocalMoment(given) \in Moment /\ LocalMoment(given).sec % 2 = 0
           /\ Fields(LocalMoment(given)) = given
           /\ CivilDate(LocalMoment(given).day).year \in 1980..2107
<1>1. PICK hour \in 0..23, minute \in 0..59, second \in 0..29, mday \in Nat,
           month \in 1..12, year \in 0..127 :
            given = [second |-> second, minute |-> minute, hour |-> hour, mday |-> mday,
                     month |-> month, year |-> year]
    <2>1. /\ given.second \in 0..29 /\ given.minute \in 0..59 /\ given.hour \in 0..23
          /\ given.month \in 1..12 /\ given.year \in 0..127 /\ given.mday \in Nat
        BY ValidFields DEF Date
    <2>2. given = [second |-> given.second, minute |-> given.minute, hour |-> given.hour,
                   mday |-> given.mday, month |-> given.month, year |-> given.year]
        BY DEF Date
    <2>. QED
        BY <2>1, <2>2, Zenon
<1>2. PICK y \in Int : y = year + 1980 /\ y \in 1980..2107 /\ y - 1980 = year
    BY SMT
<1>3. mday \in 1..MonthLength(month, LeapDay(y))
    <2>1. given.mday \in 1..MonthLength(given.month, LeapDay(given.year + 1980))
        BY ValidFields
    <2>2. given.mday = mday /\ given.month = month /\ given.year = year
        BY <1>1
    <2>. QED
        BY <1>2, <2>1, <2>2
<1>4. CivilDate(DayOf(y, month, mday)) = [year |-> y, month |-> month, mday |-> mday]
    BY <1>3, CivilOf
<1>5. DayOf(y, month, mday) \in Int
    BY <1>3, DayInYear
<1>6. PICK sec \in Int :
        /\ sec = 3600 * hour + 60 * minute + 2 * second
        /\ 0 <= sec /\ sec < 86400 /\ sec % 2 = 0
        /\ (sec % 60) \div 2 = second /\ (sec \div 60) % 60 = minute
        /\ sec \div 3600 = hour
    BY SecondOf
<1>7. PICK day \in Int : day = DayOf(y, month, mday)
    BY <1>5
<1>8. LocalMoment(given) = [day |-> day, sec |-> sec]
    <2>1. LocalMoment(given).day = day
        <3>1. given.month \in 1..12
            BY <1>1
        <3>2. LocalMoment(given).day = DayOf(given.year + 1980, given.month, given.mday)
            BY <3>1, DayOfLocalMoment
        <3>. QED
            BY <1>1, <1>2, <1>7, <3>2
    <2>2. LocalMoment(given).sec = sec
        BY <1>1, <1>6, SMT DEF LocalMoment
    <2>3. PICK a, b : LocalMoment(given) = [day |-> a, sec |-> b]
        <3>1. PICK a : a = YearStart(given.year + 1980)
                            + MonthStarts(given.year + 1980)[given.month]
                            + given.mday - 1
            OBVIOUS
        <3>2. PICK b : b = 3600 * given.hour + 60 * given.minute + 2 * given.second
            BY SMT
        <3>3. LocalMoment(given) = [day |-> a, sec |-> b]
            BY <3>1, <3>2, SMT DEF LocalMoment
        <3>. QED
            BY <3>3
    <2>. QED
        BY <2>1, <2>2, <2>3
<1>9. [day |-> day, sec |-> sec] \in Moment
    <2>1. sec < SecondsADay /\ SecondsADay \in Nat
        BY <1>6, SMT DEF SecondsADay
    <2>2. sec \in 0..SecondsADay - 1
        BY <1>6, <2>1, SMT
    <2>. QED
        BY <2>2, SMT DEF Moment
<1>10. Fields([day |-> day, sec |-> sec])
        = [second |-> second, minute |-> minute, hour |-> hour, mday |-> mday,
           month |-> month, year |-> year]
    <2>1. CivilDate(day) = [year |-> y, month |-> month, mday |-> mday]
        BY <1>4, <1>7
    <2>2. Fields([day |-> day, sec |-> sec])
            = [second |-> (sec % 60) \div 2, minute |-> (sec \div 60) % 60,
               hour |-> sec \div 3600, mday |-> CivilDate(day).mday,
               month |-> CivilDate(day).month, year |-> CivilDate(day).year - 1980]
        BY DEF Fields
    <2>3. CivilDate(day).mday = mday /\ CivilDate(day).month = month /\ CivilDate(day).year = y
        BY <2>1
    <2>. QED
        BY <1>2, <1>6, <2>2, <2>3
<1>11. CivilDate(day).year = y
    BY <1>4, <1>7
<1>. QED
    BY <1>1, <1>2, <1>6, <1>8, <1>9, <1>10, <1>11

\* The second, the minute and the hour of a second of the day.
LEMMA ClockOf ==
    ASSUME NEW s \in Int, 0 <= s, s < SecondsADay
    PROVE  /\ (s % 60) \div 2 \in 0..29 /\ (s \div 60) % 60 \in 0..59
           /\ s \div 3600 \in 0..23
<1>1. s % 60 \in Int /\ 0 <= s % 60 /\ s % 60 < 60
    BY SMT
<1>2. \A m \in Int : 0 <= m /\ m < 60 => m \div 2 \in 0..29
    BY SMT
<1>3. s \div 60 \in Int
    BY SMT
<1>4. \A m \in Int : m % 60 \in 0..59
    BY SMT
<1>5. s \div 3600 \in 0..23
    BY SMT DEF SecondsADay
<1>. QED
    BY <1>1, <1>2, <1>3, <1>4, <1>5

LEMMA SecondIn ==
    ASSUME NEW sec \in 0..SecondsADay - 1
    PROVE  /\ (sec % 60) \div 2 \in 0..29 /\ (sec \div 60) % 60 \in 0..59
           /\ sec \div 3600 \in 0..23
<1>1. SecondsADay \in Int
    BY SecondsIs
<1>2. sec \in Int /\ 0 <= sec /\ sec < SecondsADay
    BY <1>1, SMT
<1>. QED
    BY <1>2, ClockOf

\* setUnixTimestamp() makes a valid date of what it accepts.
LEMMA FieldsType ==
    ASSUME NEW local \in Moment, CivilDate(local.day).year \in 1980..2107
    PROVE  Fields(local) \in Date /\ IsValid(Fields(local))
<1>1. PICK day \in Int, sec \in 0..SecondsADay - 1 : day = local.day /\ sec = local.sec
    BY DEF Moment
<1>2. PICK y \in Int, m \in 1..12 : \E d \in 1..MonthLength(m, LeapDay(y)) :
            day = DayOf(y, m, d)
    BY DateExists
<1>3. PICK d \in 1..MonthLength(m, LeapDay(y)) : day = DayOf(y, m, d)
    BY <1>2
<1>4. CivilDate(day) = [year |-> y, month |-> m, mday |-> d]
    BY <1>3, CivilOf
<1>5. y \in 1980..2107
    BY <1>1, <1>4
<1>6. PICK year \in 0..127 : year = y - 1980 /\ year + 1980 = y
    BY <1>5, SMT
<1>7. PICK n \in 28..31 : n = MonthLength(m, LeapDay(y))
    <2>1. PICK leap \in 0..1 : leap = LeapDay(y)
        BY MonthStartsAre
    <2>2. MonthLength(m, leap) \in 28..31
        BY StartAt
    <2>. QED
        BY <2>1, <2>2
<1>8. d \in 1..n
    BY <1>3, <1>7
<1>9. /\ (sec % 60) \div 2 \in 0..29 /\ (sec \div 60) % 60 \in 0..59
      /\ sec \div 3600 \in 0..23
    BY SecondIn, SMT
<1>10. PICK second \in 0..29 : second = (sec % 60) \div 2
    BY <1>9, SMT
<1>11. PICK minute \in 0..59 : minute = (sec \div 60) % 60
    BY <1>9, SMT
<1>12. PICK hour \in 0..23 : hour = sec \div 3600
    BY <1>9, SMT
<1>. DEFINE given == [second |-> second, minute |-> minute, hour |-> hour, mday |-> d,
                      month |-> m, year |-> year]
<1>13. Fields(local) = given
    <2>1. CivilDate(day).mday = d /\ CivilDate(day).month = m /\ CivilDate(day).year = y
        BY <1>4
    <2>2. Fields(local)
            = [second |-> (sec % 60) \div 2, minute |-> (sec \div 60) % 60,
               hour |-> sec \div 3600, mday |-> CivilDate(day).mday,
               month |-> CivilDate(day).month, year |-> CivilDate(day).year - 1980]
        BY <1>1 DEF Fields
    <2>. QED
        BY <1>6, <1>10, <1>11, <1>12, <2>1, <2>2, SMT
<1>14. given \in Date
    <2>1. /\ second \in 0..31 /\ minute \in 0..63 /\ hour \in 0..31 /\ d \in 0..31
          /\ m \in 0..15 /\ year \in 0..127
        BY <1>7, <1>8, SMT
    <2>. QED
        BY <2>1 DEF Date
<1>15. /\ given.second = second /\ given.minute = minute /\ given.hour = hour
       /\ given.mday = d /\ given.month = m /\ given.year = year
    OBVIOUS
<1>. HIDE DEF given
<1>16. DaysInMonth(given) = n
    BY <1>6, <1>7, <1>14, <1>15, DaysInMonthAre
<1>17. IsValid(given)
    BY <1>8, <1>15, <1>16 DEF IsValid
<1>. QED
    BY <1>13, <1>14, <1>17

\* What the setters of a date and of its entry store.
LEMMA UnixType ==
    ASSUME NEW given \in Date
    PROVE  UnixTimestamps(given) \subseteq Moment
<1>1. Epoch \in Moment
    <2>1. 0 \in 0..SecondsADay - 1
        <3>1. 86400 \in Int /\ 0 <= 86400 - 1
            BY SMT
        <3>. QED
            BY <3>1, SMT DEF SecondsADay
    <2>2. -3652 \in Int
        BY SMT
    <2>. QED
        BY <2>1, <2>2, SMT DEF Epoch, Moment
<1>2. ASSUME IsValid(given)
      PROVE  Mktime(LocalMoment(given)) \subseteq Moment
    BY <1>2, LocalMomentType, MktimeType
<1>. QED
    BY <1>1, <1>2 DEF UnixTimestamps

LEMMA SetType ==
    ASSUME NEW given \in Date, NEW field \in DOMAIN SetterRange,
           NEW value \in SetterRange[field]
    PROVE  Set(given, field, value) \in Date
<1>1. field \in {"second", "minute", "hour", "mday", "month", "year"}
    BY DEF SetterRange
<1>2. PICK second \in 0..31, minute \in 0..63, hour \in 0..31, mday \in 0..31,
           month \in 0..15, year \in 0..127 :
            given = [second |-> second, minute |-> minute, hour |-> hour, mday |-> mday,
                     month |-> month, year |-> year]
    <2>1. /\ given.second \in 0..31 /\ given.minute \in 0..63 /\ given.hour \in 0..31
          /\ given.mday \in 0..31 /\ given.month \in 0..15 /\ given.year \in 0..127
        BY DEF Date
    <2>2. given = [second |-> given.second, minute |-> given.minute, hour |-> given.hour,
                   mday |-> given.mday, month |-> given.month, year |-> given.year]
        BY DEF Date
    <2>. QED
        BY <2>1, <2>2, Zenon
<1>3. CASE field = "second"
    <2>1. value \in 0..59
        BY <1>3 DEF SetterRange
    <2>2. PICK v \in 0..31 : v = value \div 2
        BY <2>1, SMT
    <2>3. Set(given, field, value) = [second |-> v, minute |-> minute, hour |-> hour,
                mday |-> mday, month |-> month, year |-> year]
        BY <1>2, <1>3, <2>2 DEF Set, Stored
    <2>. QED
        BY <2>3 DEF Date
<1>4. CASE field = "minute"
    <2>1. value \in 0..63
        BY <1>4, SMT DEF SetterRange
    <2>2. Set(given, field, value) = [second |-> second, minute |-> value, hour |-> hour,
                mday |-> mday, month |-> month, year |-> year]
        BY <1>2, <1>4 DEF Set, Stored
    <2>. QED
        BY <2>1, <2>2 DEF Date
<1>5. CASE field = "hour"
    <2>1. value \in 0..31
        BY <1>5, SMT DEF SetterRange
    <2>2. Set(given, field, value) = [second |-> second, minute |-> minute, hour |-> value,
                mday |-> mday, month |-> month, year |-> year]
        BY <1>2, <1>5 DEF Set, Stored
    <2>. QED
        BY <2>1, <2>2 DEF Date
<1>6. CASE field = "mday"
    <2>1. value \in 0..31
        BY <1>6, SMT DEF SetterRange
    <2>2. Set(given, field, value) = [second |-> second, minute |-> minute, hour |-> hour,
                mday |-> value, month |-> month, year |-> year]
        BY <1>2, <1>6 DEF Set, Stored
    <2>. QED
        BY <2>1, <2>2 DEF Date
<1>7. CASE field = "month"
    <2>1. value \in 0..15
        BY <1>7, SMT DEF SetterRange
    <2>2. Set(given, field, value) = [second |-> second, minute |-> minute, hour |-> hour,
                mday |-> mday, month |-> value, year |-> year]
        BY <1>2, <1>7 DEF Set, Stored
    <2>. QED
        BY <2>1, <2>2 DEF Date
<1>8. CASE field = "year"
    <2>1. value \in 1980..2107
        BY <1>8, SMT DEF SetterRange
    <2>2. PICK v \in 0..127 : v = value - 1980
        BY <2>1, SMT
    <2>3. Set(given, field, value) = [second |-> second, minute |-> minute, hour |-> hour,
                mday |-> mday, month |-> month, year |-> v]
        BY <1>2, <1>8, <2>2 DEF Set, Stored
    <2>. QED
        BY <2>3 DEF Date
<1>. QED
    BY <1>1, <1>3, <1>4, <1>5, <1>6, <1>7, <1>8

LEMMA WordType ==
    ASSUME NEW given \in Date
    PROVE  Word(given) \in Word32
<1>1. PICK second \in 0..31, minute \in 0..63, hour \in 0..31, mday \in 0..31,
           month \in 0..15, year \in 0..127 :
            given = [second |-> second, minute |-> minute, hour |-> hour, mday |-> mday,
                     month |-> month, year |-> year]
    <2>1. /\ given.second \in 0..31 /\ given.minute \in 0..63 /\ given.hour \in 0..31
          /\ given.mday \in 0..31 /\ given.month \in 0..15 /\ given.year \in 0..127
        BY DEF Date
    <2>2. given = [second |-> given.second, minute |-> given.minute, hour |-> given.hour,
                   mday |-> given.mday, month |-> given.month, year |-> given.year]
        BY DEF Date
    <2>. QED
        BY <2>1, <2>2, Zenon
<1>2. PICK a, b : a = second + 32 * minute + 2048 * hour /\ b = mday + 32 * month + 512 * year
    OBVIOUS
<1>3. a \in Nat /\ a < 65536 /\ b \in Nat /\ b < 65536
    BY <1>2, SMT
<1>4. a \in Digit /\ b \in Digit
    <2>1. a < DigitMod /\ b < DigitMod
        BY <1>3, SMT DEF DigitMod
    <2>. QED
        BY <1>3, <2>1, DigitModIs DEF Digit
<1>5. << a, b >> \in Seq(Digit) /\ Len(<< a, b >>) = 2
    BY <1>4
<1>6. Word(given) = << a, b >>
    BY <1>1, <1>2, SMT DEF Word
<1>. QED
    BY <1>5, <1>6 DEF Word32, Number

\* A second of a day is in that day.
LEMMA WithinADay ==
    ASSUME NEW sec \in Int, 0 <= sec, sec < SecondsADay
    PROVE  sec \div SecondsADay = 0 /\ sec % SecondsADay = sec
<1>1. SecondsADay \in Int /\ SecondsADay > 0
    BY SMT DEF SecondsADay
<1>. QED
    BY <1>1, SMT DEF SecondsADay

\* A date that the local clock showed is converted back to itself: the zone is a
\* whole number of minutes off, so that nothing is rounded.
LEMMA NoDrift ==
    ASSUME NEW given \in Date, IsValid(given), NEW t \in Mktime(LocalMoment(given)),
           \E u \in Mktime(LocalMoment(given)) : Localtime(u) = LocalMoment(given)
    PROVE  Representable(t) /\ OfUnixTimestamp(t) = given
<1>1. PICK local \in Moment : local = LocalMoment(given)
    BY LocalMomentType
<1>2. /\ local.sec % 2 = 0 /\ Fields(local) = given
      /\ CivilDate(local.day).year \in 1980..2107
    BY <1>1, LocalMomentType
<1>3. Localtime(t) = local /\ t \in {Plus(local, -Standard), Plus(local, -Standard - 3600)}
    <2>. DEFINE winter == Plus(local, -Standard)
                summer == Plus(local, -Standard - 3600)
                exact == {u \in {winter, summer} : Localtime(u) = local}
    <2>1. Mktime(local) = IF exact # {} THEN exact ELSE {winter, summer}
        BY DEF Mktime
    <2>2. PICK u \in Mktime(local) : Localtime(u) = local
        BY <1>1
    <2>3. u \in {winter, summer}
        BY <2>1, <2>2
    <2>4. exact # {}
        BY <2>2, <2>3
    <2>5. t \in exact
        BY <1>1, <2>1, <2>4
    <2>. QED
        BY <2>5
<1>4. t \in Moment /\ t.sec % 2 = 0
    <2>1. PICK seconds \in Int : seconds % 2 = 0 /\ t = Plus(local, seconds)
        <3>1. -Standard \in Int /\ (-Standard) % 2 = 0
            BY StandardIs, SMT
        <3>2. -Standard - 3600 \in Int /\ (-Standard - 3600) % 2 = 0
            BY StandardIs, SMT
        <3>3. CASE t = Plus(local, -Standard)
            BY <3>1, <3>3
        <3>4. CASE t = Plus(local, -Standard - 3600)
            BY <3>2, <3>4, SMT
        <3>. QED
            BY <1>3, <3>3, <3>4
    <2>2. PICK day \in Int, sec \in Int : day = local.day /\ sec = local.sec
        BY SecondsIs, SMT DEF Moment
    <2>3. (sec + seconds) \in Int /\ (sec + seconds) % 2 = 0
        BY <1>2, <2>1, <2>2, SMT
    <2>4. ((sec + seconds) % SecondsADay) % 2 = 0
        BY <2>3, SecondOfDay, SMT DEF SecondsADay
    <2>5. t.sec = (sec + seconds) % SecondsADay
        <3>1. t = [day |-> day + (sec + seconds) \div SecondsADay,
                   sec |-> (sec + seconds) % SecondsADay]
            BY <2>1, <2>2 DEF Plus
        <3>. QED
            BY <3>1
    <2>. QED
        BY <2>1, <2>4, <2>5, PlusType
<1>5. RoundedUp(t) = t
    <2>1. PICK day \in Int, sec \in 0..SecondsADay - 1 :
            t = [day |-> day, sec |-> sec]
        BY <1>4 DEF Moment
    <2>2. sec \in Int /\ sec \div SecondsADay = 0 /\ sec % SecondsADay = sec
        <3>1. SecondsADay \in Int
            BY SecondsIs
        <3>2. sec \in Int /\ 0 <= sec /\ sec < SecondsADay
            BY <3>1, SMT
        <3>. QED
            BY <3>2, WithinADay
    <2>3. sec % 2 = 0
        BY <1>4, <2>1
    <2>4. sec + 0 = sec /\ day + 0 = day
        BY <2>2, SMT
    <2>5. Plus(t, 0) = [day |-> day + sec \div SecondsADay, sec |-> sec % SecondsADay]
        BY <2>1, <2>4 DEF Plus
    <2>. QED
        BY <2>1, <2>2, <2>3, <2>4, <2>5 DEF RoundedUp
<1>6. Localtime(RoundedUp(t)) = local
    BY <1>3, <1>5
<1>. QED
    BY <1>2, <1>6, SMT DEF Representable, OfUnixTimestamp

-----------------------------------------------------------------------------
(* The inductive invariant. *)

\* The time of an entry is the moment of its date.
TimeOfDate ==
    stage = "entry" /\ thrown = "none" /\ IsValid(date)
        => unix \in Mktime(LocalMoment(date))

IInv == TypeOK /\ Len(data) <= MaxData /\ TimeOfDate

LEMMA InitIInv == Init => IInv
<1>. SUFFICES ASSUME Init PROVE IInv
    OBVIOUS
<1>1. PICK file \in Files :
        /\ entry = file.record /\ data = file.data
        /\ \/ stage = "program" /\ unix = Epoch
           \/ stage = "entry" /\ unix = file.unix
    BY DEF Init
<1>2. /\ file.record \in EntryRecord /\ file.data \in Seq(Octet) /\ file.unix \in Moment
      /\ Len(file.data) <= MaxData
    BY FilesAssumption
<1>3. NotSet \in Date /\ ~IsValid(NotSet)
    BY DEF NotSet, Date, IsValid
<1>4. unix \in Moment
    BY <1>1, <1>2, <1>3, UnixType DEF UnixTimestamps
<1>5. << >> \in Seq(Octet)
    OBVIOUS
<1>. QED
    BY <1>1, <1>2, <1>3, <1>4, <1>5 DEF Init, IInv, TypeOK, TimeOfDate

LEMMA NextIInv == IInv /\ [Next]_vars => IInv'
<1>. SUFFICES ASSUME IInv, [Next]_vars PROVE IInv'
    OBVIOUS
<1>. USE DEF IInv
<1>1. ASSUME NEW field \in DOMAIN Inputs, NEW value \in Inputs[field],
             SetField(field, value)
      PROVE  IInv'
    <2>1. field \in DOMAIN SetterRange
        BY FilesAssumption
    <2>2. date' \in Date
        <3>1. CASE value \in SetterRange[field]
            <4>1. Set(date, field, value) \in Date
                BY <2>1, <3>1, SetType DEF TypeOK
            <4>. QED
                BY <1>1, <3>1, <4>1 DEF SetField
        <3>2. CASE value \notin SetterRange[field]
            BY <1>1, <3>2 DEF SetField, TypeOK
        <3>. QED
            BY <3>1, <3>2
    <2>3. thrown' \in {"none", "InvalidException"}
        BY <1>1 DEF SetField
    <2>4. /\ stage = "program" /\ stage' = stage /\ unix' = unix /\ entry' = entry
          /\ data' = data /\ archive' = archive /\ damaged' = damaged
        BY <1>1 DEF SetField
    <2>. QED
        BY <2>2, <2>3, <2>4 DEF TypeOK, TimeOfDate
<1>2. ASSUME SetTime
      PROVE  IInv'
    <2>1. /\ unix' \in UnixTimestamps(date) /\ stage' = "entry" /\ date' = date
          /\ entry' = entry /\ data' = data /\ archive' = archive /\ damaged' = damaged
          /\ thrown' = thrown
        BY <1>2 DEF SetTime
    <2>2. unix' \in Moment
        BY <2>1, UnixType DEF TypeOK
    <2>3. IsValid(date) => unix' \in Mktime(LocalMoment(date))
        BY <2>1 DEF UnixTimestamps
    <2>. QED
        BY <2>1, <2>2, <2>3 DEF TypeOK, TimeOfDate
<1>3. ASSUME Write
      PROVE  IInv'
    <2>1. unix' = unix /\ entry' = entry /\ data' = data /\ damaged' = damaged
        BY <1>3 DEF Write
    <2>2. CASE Representable(unix)
        <3>1. /\ date' = OfUnixTimestamp(unix)
              /\ archive' = ArchiveBytes(entry, Word(date'), data, ArchiveComment)
              /\ stage' = "archive" /\ thrown' = "none"
            BY <1>3, <2>2 DEF Write
        <3>2. PICK local \in Moment : local = Localtime(RoundedUp(unix))
            BY LocaltimeType DEF TypeOK
        <3>3. date' \in Date /\ IsValid(date')
            <4>1. CivilDate(local.day).year \in 1980..2107
                BY <2>2, <3>2, SMT DEF Representable
            <4>2. Fields(local) \in Date /\ IsValid(Fields(local))
                BY <4>1, FieldsType, SMT
            <4>. QED
                BY <3>1, <3>2, <4>2 DEF OfUnixTimestamp
        <3>4. Word(date') \in Word32
            BY <3>3, WordType
        <3>5. ArchiveComment \in Text
            BY FilesAssumption
        <3>6. ArchiveBytes(entry, Word(date'), data, ArchiveComment) \in Seq(Octet)
            BY <3>4, <3>5, ArchiveType DEF TypeOK
        <3>. HIDE <1>3
        <3>. QED
            BY <2>1, <3>1, <3>3, <3>6 DEF TypeOK, TimeOfDate
    <2>3. CASE ~Representable(unix)
        <3>1. /\ thrown' = "InvalidException" /\ date' = date /\ archive' = archive
              /\ stage' = stage
            BY <1>3, <2>3 DEF Write
        <3>2. stage = "entry"
            BY <1>3 DEF Write
        <3>. QED
            BY <2>1, <3>1, <3>2 DEF TypeOK, TimeOfDate
    <2>. QED
        BY <2>2, <2>3
<1>4. ASSUME Damage
      PROVE  IInv'
    <2>1. /\ date' = date /\ unix' = unix /\ entry' = entry /\ data' = data
          /\ stage' = stage /\ thrown' = thrown /\ damaged' = TRUE /\ stage = "archive"
        BY <1>4 DEF Damage
    <2>2. PICK i \in DOMAIN archive : archive' = [archive EXCEPT ![i] = (@ + 1) % 256]
        BY <1>4 DEF Damage
    <2>3. archive' \in Seq(Octet)
        <3>1. archive \in Seq(Octet)
            BY DEF TypeOK
        <3>2. i \in 1..Len(archive)
            BY <3>1, <2>2, LenProperties
        <3>3. PICK octet \in Octet : octet = archive[i]
            BY <3>1, <3>2, ElementOfSeq
        <3>4. (octet + 1) % 256 \in Octet
            BY SMT DEF Octet
        <3>5. archive' = [archive EXCEPT ![i] = (octet + 1) % 256]
            BY <2>2, <3>3
        <3>. QED
            BY <3>1, <3>2, <3>4, <3>5, ExceptSeq
    <2>. QED
        BY <2>1, <2>3 DEF TypeOK, TimeOfDate
<1>5. ASSUME Read
      PROVE  IInv'
    <2>1. /\ stage' = "entry" /\ archive' = << >> /\ data' = data /\ damaged' = damaged
          /\ thrown' # "none" => date' = date /\ unix' = unix /\ entry' = entry
        BY <1>5 DEF Read
    <2>2. PICK headers : headers = Headers(archive)
        OBVIOUS
    <2>3. /\ headers.thrown \in {"none", "IOException", "FileCollectionException"}
          /\ headers.thrown = "none" =>
                /\ EntryOf(headers.central) \in EntryRecord
                /\ DateOf(headers.central["time"]) \in Date
                /\ DateOf(headers.local["time"]) \in Date
        BY <2>2, HeadersType DEF TypeOK
    <2>4. IF headers.thrown # "none" THEN thrown' = headers.thrown
          ELSE \E local \in UnixTimestamps(DateOf(headers.local["time"])),
                  central \in UnixTimestamps(DateOf(headers.central["time"])) :
               IF SameEntry(headers.local, headers.central, local, central)
               THEN /\ date' = DateOf(headers.central["time"]) /\ unix' = central
                    /\ entry' = EntryOf(headers.central) /\ thrown' = "none"
               ELSE thrown' = "FileCollectionException"
        BY <1>5, <2>2 DEF Read
    <2>5. << >> \in Seq(Octet)
        OBVIOUS
    <2>6. CASE thrown' # "none"
        <3>1. thrown' \in {"IOException", "FileCollectionException"}
            BY <2>3, <2>4, <2>6
        <3>. QED
            BY <2>1, <2>5, <2>6, <3>1 DEF TypeOK, TimeOfDate
    <2>7. CASE thrown' = "none"
        <3>1. headers.thrown = "none"
            BY <2>4, <2>7
        <3>2. PICK central \in UnixTimestamps(DateOf(headers.central["time"])) :
                /\ date' = DateOf(headers.central["time"]) /\ unix' = central
                /\ entry' = EntryOf(headers.central)
            BY <2>4, <2>7, <3>1
        <3>3. date' \in Date /\ entry' \in EntryRecord
            BY <2>3, <3>1, <3>2
        <3>4. unix' \in UnixTimestamps(date')
            BY <3>2
        <3>5. unix' \in Moment
            BY <3>3, <3>4, UnixType
        <3>6. IsValid(date') => unix' \in Mktime(LocalMoment(date'))
            BY <3>4 DEF UnixTimestamps
        <3>. QED
            BY <2>1, <2>5, <2>7, <3>3, <3>5, <3>6 DEF TypeOK, TimeOfDate
    <2>. QED
        BY <2>6, <2>7
<1>6. CASE UNCHANGED vars
    BY <1>6 DEF vars, TypeOK, TimeOfDate
<1>. QED
    BY <1>1, <1>2, <1>3, <1>4, <1>5, <1>6 DEF Next

LEMMA Invariance == Spec => []IInv
BY InitIInv, NextIInv, PTL DEF Spec

(* The fields of a date fit their bits in every state, whatever was set, read or
   damaged, and what is archived is a date of the calendar
   (src/src/dosdatetime.cpp:86, src/src/dosdatetime.cpp:549). *)
THEOREM TypeCorrect == Spec => []TypeOK
<1>1. IInv => TypeOK
    BY DEF IInv
<1>. QED
    BY <1>1, Invariance, PTL

(* In whatever order a program sets the fields, isValid() accepts the date exactly
   when the calendar has it (src/src/dosdatetime.cpp:86). *)
THEOREM ValidAlwaysInCalendar == Spec => []ValidMeansInCalendar
<1>1. IInv => ValidMeansInCalendar
    BY ValidDates DEF IInv, TypeOK, ValidMeansInCalendar
<1>. QED
    BY <1>1, Invariance, PTL

(* A date that an archive holds is written as it is, unless the local clock never
   showed it (src/src/dosdatetime.cpp:505, src/src/dosdatetime.cpp:549). *)
THEOREM DatesStay == Spec => DatesDoNotDrift
<1>1. ASSUME IInv, [Next]_vars
      PROVE  [Write /\ IsValid(date) /\ ~SkippedByTheClock(LocalMoment(date))
                => date' = date /\ thrown' = "none"]_vars
    <2>. SUFFICES ASSUME Write, IsValid(date), ~SkippedByTheClock(LocalMoment(date))
                  PROVE  date' = date /\ thrown' = "none"
        BY <1>1
    <2>1. date \in Date /\ unix \in Mktime(LocalMoment(date))
        BY <1>1 DEF IInv, TypeOK, TimeOfDate, Write
    <2>2. Representable(unix) /\ OfUnixTimestamp(unix) = date
        BY <2>1, NoDrift DEF SkippedByTheClock
    <2>. QED
        BY <2>2 DEF Write
<1>. QED
    BY <1>1, Invariance, PTL DEF Spec, DatesDoNotDrift
============
