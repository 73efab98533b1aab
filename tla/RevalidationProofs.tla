------------------------- MODULE RevalidationProofs -------------------------
(***************************************************************************)
(* Theorems about Revalidation, for any times of modification, any dates a *)
(* client may send and any time zone the statement allows.                 *)
(***************************************************************************)
EXTENDS Revalidation, DataInduction

-----------------------------------------------------------------------------
(* The calendar. *)

LEMMA YearType == ASSUME NEW y \in Int PROVE BeforeYear(y) \in Int
  BY DEF BeforeYear

\* A year has 365 days, or 366.
LEMMA YearLength ==
    ASSUME NEW y \in Int
    PROVE  BeforeYear(y + 1) = BeforeYear(y) + (IF Leap(y) THEN 366 ELSE 365)
  BY DEF BeforeYear, Leap

LEMMA YearsGrow == ASSUME NEW n \in Nat PROVE BeforeYear(1970 + n) >= 365 * n
  BY DEF BeforeYear

LEMMA MonthType ==
    ASSUME NEW y \in Int, NEW m \in 0..11
    PROVE  BeforeMonth(y, m) \in Int /\ DaysIn(y, m) \in Int
  BY DEF BeforeMonth, DaysIn

LEMMA MonthLength ==
    ASSUME NEW y \in Int, NEW m \in 0..10
    PROVE  BeforeMonth(y, m + 1) = BeforeMonth(y, m) + DaysIn(y, m)
  BY DEF BeforeMonth, DaysIn

Within(day, y) == BeforeYear(y) <= day /\ day < BeforeYear(y + 1)

\* Every day since 1969-12-31 is in one of the years that gmtime looks through.
LEMMA YearExists ==
    ASSUME NEW day \in Int, day >= -1
    PROVE  \E y \in 1969..(1970 + day) : Within(day, y)
<1>1. CASE day = -1
  <2>1. BeforeYear(1969) = -365 /\ BeforeYear(1970) = 0
    BY DEF BeforeYear
  <2>2. QED
    BY <1>1, <2>1 DEF Within
<1>2. CASE day \in Nat
  <2> DEFINE T == {n \in Nat : day < BeforeYear(1970 + n + 1)}
  <2>1. day \in T
    <3>1. BeforeYear(1970 + (day + 1)) >= 365 * (day + 1)
      BY <1>2, YearsGrow
    <3>2. 1970 + (day + 1) = 1970 + day + 1 /\ BeforeYear(1970 + day + 1) \in Int
      BY <1>2, YearType
    <3>3. QED
      BY <1>2, <3>1, <3>2
  <2>2. PICK m \in T : \A k \in T : m <= k
    <3> HIDE DEF T
    <3>1. T \in SUBSET Nat
      BY DEF T
    <3>2. QED
      BY <2>1, <3>1, LeastNumber
  <2>3. m \in Nat /\ m <= day /\ day < BeforeYear(1970 + m + 1)
    BY <2>1, <2>2
  <2>4. BeforeYear(1970 + m) <= day
    <3>1. CASE m = 0
      <4>1. BeforeYear(1970) = 0
        BY DEF BeforeYear
      <4>2. QED
        BY <1>2, <3>1, <4>1
    <3>2. CASE m # 0
      <4>1. m - 1 \in Nat /\ m - 1 \notin T
        BY <2>2, <2>3, <3>2
      <4>2. ~(day < BeforeYear(1970 + (m - 1) + 1))
        BY <4>1
      <4>3. 1970 + (m - 1) + 1 = 1970 + m /\ BeforeYear(1970 + m) \in Int
        BY <2>3, YearType
      <4>4. QED
        BY <1>2, <4>2, <4>3
    <3>3. QED
      BY <3>1, <3>2
  <2>5. 1970 + m \in 1969..(1970 + day)
    BY <1>2, <2>3
  <2>6. QED
    BY <2>3, <2>4, <2>5 DEF Within
<1>3. QED
  BY <1>1, <1>2

\* Every day of a year is in one of its months.
LEMMA MonthExists ==
    ASSUME NEW day \in Int, NEW y \in Int, Within(day, y)
    PROVE  \E m \in 0..11 : /\ BeforeYear(y) + BeforeMonth(y, m) <= day
                            /\ day < BeforeYear(y) + BeforeMonth(y, m) + DaysIn(y, m)
<1> DEFINE n == day - BeforeYear(y)
<1>1. n \in Int /\ 0 <= n /\ n < (IF Leap(y) THEN 366 ELSE 365) /\ day = BeforeYear(y) + n
  BY YearType, YearLength DEF Within
<1> HIDE DEF n
<1>2. \E m \in 0..11 : BeforeMonth(y, m) <= n /\ n < BeforeMonth(y, m) + DaysIn(y, m)
  <2> SUFFICES ASSUME \A m \in 0..11 : ~(BeforeMonth(y, m) <= n /\ n < BeforeMonth(y, m) + DaysIn(y, m))
               PROVE  FALSE
    OBVIOUS
  <2>1. \A m \in 0..11 : BeforeMonth(y, m) <= n => BeforeMonth(y, m) + DaysIn(y, m) <= n
    <3> SUFFICES ASSUME NEW m \in 0..11, BeforeMonth(y, m) <= n
                 PROVE  BeforeMonth(y, m) + DaysIn(y, m) <= n
      OBVIOUS
    <3>1. BeforeMonth(y, m) \in Int /\ DaysIn(y, m) \in Int
      BY MonthType, Zenon
    <3>2. QED
      BY <1>1, <3>1
  <2>2. BeforeMonth(y, 0) = 0
    BY DEF BeforeMonth
  <2>3. \A m \in 0..10 : BeforeMonth(y, m) <= n => BeforeMonth(y, m + 1) <= n
    BY <2>1, MonthLength
  <2>4. /\ BeforeMonth(y, 1) <= n /\ BeforeMonth(y, 2) <= n /\ BeforeMonth(y, 3) <= n
        /\ BeforeMonth(y, 4) <= n /\ BeforeMonth(y, 5) <= n /\ BeforeMonth(y, 6) <= n
        /\ BeforeMonth(y, 7) <= n /\ BeforeMonth(y, 8) <= n /\ BeforeMonth(y, 9) <= n
        /\ BeforeMonth(y, 10) <= n /\ BeforeMonth(y, 11) <= n
    BY <1>1, <2>2, <2>3
  <2>5. BeforeMonth(y, 11) + DaysIn(y, 11) <= n
    BY <2>1, <2>4
  <2>6. BeforeMonth(y, 11) + DaysIn(y, 11) = (IF Leap(y) THEN 366 ELSE 365)
    BY DEF BeforeMonth, DaysIn
  <2>7. QED
    BY <1>1, <2>5, <2>6
<1>3. PICK m \in 0..11 : BeforeMonth(y, m) <= n /\ n < BeforeMonth(y, m) + DaysIn(y, m)
  BY <1>2
<1>4. BeforeMonth(y, m) \in Int /\ DaysIn(y, m) \in Int /\ BeforeYear(y) \in Int
  BY MonthType, YearType, Zenon
<1>5. /\ BeforeYear(y) + BeforeMonth(y, m) <= day
      /\ day < BeforeYear(y) + BeforeMonth(y, m) + DaysIn(y, m)
  BY <1>1, <1>3, <1>4
<1>6. QED
  BY <1>5

\* gmtime makes a date that exists, and hours takes it back.
LEMMA GmtimeDate ==
    ASSUME NEW t \in Int, t >= -24
    PROVE  /\ gmtime(t).year \in Nat /\ (t >= 0 => gmtime(t).year >= 1970)
           /\ Exists(gmtime(t)) /\ hours(gmtime(t)) = t
<1> DEFINE day  == t \div 24
           year == CHOOSE y \in 1969..(1970 + day) : BeforeYear(y) <= day /\ day < BeforeYear(y + 1)
           mon  == CHOOSE m \in 0..11 : LET first == BeforeYear(year) + BeforeMonth(year, m)
                                        IN  first <= day /\ day < first + DaysIn(year, m)
           mday == day - BeforeYear(year) - BeforeMonth(year, mon) + 1
<1>1. gmtime(t) = [year |-> year, mon |-> mon, mday |-> mday, hour |-> t % 24]
  BY DEF gmtime
<1>2. day \in Int /\ day >= -1 /\ t % 24 \in 0..23 /\ t = 24 * day + (t % 24) /\ (t >= 0 => day >= 0)
  OBVIOUS
<1>3. year \in 1969..(1970 + day) /\ Within(day, year)
  <2> HIDE DEF day
  <2>1. \E y \in 1969..(1970 + day) : BeforeYear(y) <= day /\ day < BeforeYear(y + 1)
    BY <1>2, YearExists DEF Within
  <2>2. QED
    BY <2>1 DEF Within
<1> HIDE DEF day, year
<1>4. /\ mon \in 0..11 /\ BeforeYear(year) + BeforeMonth(year, mon) <= day
      /\ day < BeforeYear(year) + BeforeMonth(year, mon) + DaysIn(year, mon)
  <2>1. \E m \in 0..11 : LET first == BeforeYear(year) + BeforeMonth(year, m)
                         IN  first <= day /\ day < first + DaysIn(year, m)
    BY <1>2, <1>3, MonthExists
  <2>2. QED
    BY <2>1
<1> HIDE DEF mon
<1>5. BeforeYear(year) \in Int /\ BeforeMonth(year, mon) \in Int /\ DaysIn(year, mon) \in Int /\ year \in Int
  <2>1. year \in Int
    BY <1>2, <1>3
  <2>2. QED
    BY <1>4, <2>1, YearType, MonthType, Zenon
<1>6. mday \in 1..DaysIn(year, mon)
  BY <1>2, <1>4, <1>5
<1>7. t >= 0 => year >= 1970
  <2>1. BeforeYear(1970) = 0
    BY DEF BeforeYear
  <2>2. year = 1969 => day < 0
    BY <1>3, <2>1 DEF Within
  <2>3. QED
    BY <1>2, <1>3, <2>2
<1>8. hours(gmtime(t)) = t
  <2>1. hours(gmtime(t)) = 24 * (BeforeYear(year) + BeforeMonth(year, mon) + mday - 1) + (t % 24)
    BY <1>1 DEF hours
  <2>2. BeforeYear(year) + BeforeMonth(year, mon) + mday - 1 = day
    BY <1>2, <1>5
  <2>3. QED
    BY <1>2, <2>1, <2>2
<1>9. Exists(gmtime(t))
  <2> HIDE DEF mday
  <2>1. QED
    BY <1>1, <1>2, <1>4, <1>6 DEF Exists
<1>10. gmtime(t).year = year
  BY <1>1
<1>11. QED
  BY <1>3, <1>7, <1>8, <1>9, <1>10

-----------------------------------------------------------------------------
(* The parser. *)

\* my_timezone is what the comment on it says: local time minus GMT.
LEMMA Timezone == my_timezone = Offset
<1>1. /\ hours(gmtime(0)) = 0 /\ hours(gmtime(0 + Offset)) = 0 + Offset
      /\ Offset \in Int
  BY GmtimeDate, InstantsAssumption
<1>2. QED
  BY <1>1 DEF my_timezone, mktime, localtime

\* A date that time_to_rfcdate wrote is read back as the instant it stands for,
\* but for twice the offset of the time zone.
LEMMA DateReadBack ==
    ASSUME NEW t \in Nat PROVE if_modified_since(gmtime(t)) = t - 2 * Offset
<1>1. hours(gmtime(t)) = t /\ Offset \in Int
  BY GmtimeDate, InstantsAssumption
<1>2. QED
  BY <1>1, Timezone DEF if_modified_since, mktime

\* Such a date is accepted, leap days of the years 2000, 2400, ... excepted.
LEMMA DateAccepted ==
    ASSUME NEW t \in Nat, ~Misjudged(gmtime(t)) PROVE date_accepted(gmtime(t))
<1> DEFINE tm == gmtime(t)
<1>1. tm.year \in Nat /\ tm.year >= 1970 /\ Exists(tm)
  BY GmtimeDate
<1> HIDE DEF tm
<1>2. /\ tm.mon \in 0..11 /\ tm.mday \in Nat /\ tm.mday <= DaysIn(tm.year, tm.mon)
      /\ tm.hour \in Nat /\ tm.hour <= 23
  <2>1. tm.mon \in 0..11 /\ tm.year \in Int
    BY <1>1 DEF Exists
  <2>2. DaysIn(tm.year, tm.mon) \in Int
    BY <2>1, MonthType, Zenon
  <2>3. QED
    BY <1>1, <2>2 DEF Exists
<1>3. ~(tm.year % 400 = 0 /\ tm.mon = 1 /\ tm.mday = 29)
  BY <1>2 DEF Misjudged, tm
<1>4. date_accepted(tm)
  <2>1. tm.mon # 1 => tm.mday <= (IF tm.mon \in {3, 5, 8, 10} THEN 30 ELSE 31)
    BY <1>2 DEF DaysIn
  <2>2. tm.mon = 1 => tm.mday <= (IF tm.year % 4 = 0 /\ tm.year % 100 # 0 THEN 29 ELSE 28)
    BY <1>1, <1>2, <1>3 DEF DaysIn, Leap
  <2>3. QED
    BY <1>1, <1>2, <2>1, <2>2 DEF date_accepted
<1>5. QED
  BY <1>4 DEF tm

-----------------------------------------------------------------------------
(* Copies. *)

\* The date the client holds is that of its copy.
CopyInv ==
    /\ mtime \in Nat
    /\ copied # None => copied \in Nat /\ date = gmtime(copied)

LEMMA InitCopy == Init => CopyInv
  BY InstantsAssumption DEF Init, CopyInv

LEMMA NextCopy == ASSUME CopyInv, [Next]_vars PROVE CopyInv'
<1>1. ASSUME NEW t \in Instants, Modify(t) PROVE CopyInv'
  BY <1>1, InstantsAssumption DEF CopyInv, Modify
<1>2. CASE Fetch \/ Revalidate
  BY <1>2 DEF CopyInv, Fetch, Revalidate
<1>3. ASSUME NEW tm, NEW format, Ask(tm, format) PROVE CopyInv'
  BY <1>3 DEF CopyInv, Ask
<1>4. CASE UNCHANGED vars
  BY <1>4 DEF CopyInv, vars
<1>5. QED
  BY <1>1, <1>2, <1>3, <1>4 DEF Next

LEMMA CopyCorrect == Spec => []CopyInv
<1>1. CopyInv /\ [Next]_vars => CopyInv'
  BY NextCopy
<1>2. QED
  BY <1>1, InitCopy, PTL DEF Spec

\* In GMT and to the east of it, a copy is confirmed only if the file is what was
\* copied or has been replaced by an older one, whatever times it has in between.
THEOREM ConfirmedCorrect == ASSUME Offset >= 0 PROVE Spec => ConfirmedIsCurrent
<1>1. ASSUME CopyInv, Revalidate, status_code' = 304 PROVE copied = mtime \/ ReplacedByOlder
  <2>1. copied # None /\ not_modified(date)
    BY <1>1 DEF Revalidate
  <2>2. copied \in Nat /\ mtime \in Nat /\ date = gmtime(copied)
    BY <1>1, <2>1 DEF CopyInv
  <2>3. mtime <= if_modified_since(gmtime(copied))
    BY <2>1, <2>2 DEF not_modified
  <2>4. mtime <= copied - 2 * Offset /\ Offset \in Int
    BY <2>2, <2>3, DateReadBack, InstantsAssumption
  <2>5. QED
    BY <2>2, <2>4 DEF ReplacedByOlder
<1>2. CopyInv => [Revalidate /\ status_code' = 304 => copied = mtime \/ ReplacedByOlder]_vars
  BY <1>1
<1>3. QED
  BY <1>2, CopyCorrect, PTL DEF ConfirmedIsCurrent

\* In GMT and to the west of it, an unchanged file is not sent again, nor an
\* older one in its place.
THEOREM UnchangedCorrect == ASSUME Offset <= 0 PROVE Spec => UnchangedIsNotSent
<1>1. ASSUME CopyInv, Revalidate, copied = mtime \/ ReplacedByOlder, ~Misjudged(date)
      PROVE  status_code' = 304
  <2>1. copied \in Nat /\ mtime \in Nat /\ mtime <= copied /\ date = gmtime(copied)
    BY <1>1 DEF CopyInv, Revalidate, ReplacedByOlder
  <2>2. date_accepted(date)
    BY <1>1, <2>1, DateAccepted
  <2>3. if_modified_since(date) = copied - 2 * Offset /\ Offset \in Int
    BY <2>1, DateReadBack, InstantsAssumption
  <2>4. not_modified(date)
    BY <1>1, <2>1, <2>2, <2>3 DEF not_modified
  <2>5. QED
    BY <1>1, <2>4 DEF Revalidate
<1>2. CopyInv => [Revalidate /\ (copied = mtime \/ ReplacedByOlder) /\ ~Misjudged(date)
                      => status_code' = 304]_vars
  BY <1>1
<1>3. QED
  BY <1>2, CopyCorrect, PTL DEF UnchangedIsNotSent

-----------------------------------------------------------------------------
(* Dates of the client's own making. *)

LEMMA EarlyYears == ASSUME NEW y \in Int, y <= 1970 PROVE BeforeYear(y) <= 0
  BY DEF BeforeYear

LEMMA CalendarTypes ==
    ASSUME NEW y \in Int, NEW m \in 0..11
    PROVE  BeforeYear(y) \in Int /\ BeforeMonth(y, m) \in Int /\ DaysIn(y, m) \in Int
  BY YearType, MonthType, Zenon

LEMMA MonthsBefore ==
    ASSUME NEW y \in Int, NEW m \in 0..11
    PROVE  y < 1970 => BeforeYear(y) + BeforeMonth(y, m) + DaysIn(y, m) <= 0
<1>1. BeforeYear(y) \in Int /\ BeforeMonth(y, m) \in Int /\ DaysIn(y, m) \in Int
  BY CalendarTypes, Zenon
<1> HAVE y < 1970
<1>2. y + 1 \in Int /\ y + 1 <= 1970
  OBVIOUS
<1>3. BeforeYear(y) + (IF Leap(y) THEN 366 ELSE 365) <= 0
  BY <1>2, EarlyYears, YearLength
<1>4. BeforeMonth(y, m) + DaysIn(y, m) <= (IF Leap(y) THEN 366 ELSE 365)
  BY DEF BeforeMonth, DaysIn
<1>5. QED
  BY <1>1, <1>3, <1>4

\* A date that exists, or a day 0 of a month, is in its year or just before it:
\* before 1970 it has no place on the clock.
LEMMA EarlyDates ==
    ASSUME NEW tm \in [year : Nat, mon : 0..11, mday : Nat, hour : Nat]
    PROVE  tm.year < 1970 /\ tm.mday <= DaysIn(tm.year, tm.mon) /\ tm.hour <= 23 => hours(tm) < 0
<1>1. tm.year \in Int /\ tm.mon \in 0..11 /\ tm.mday \in Int /\ tm.hour \in Int
  OBVIOUS
<1>2. /\ BeforeYear(tm.year) \in Int /\ BeforeMonth(tm.year, tm.mon) \in Int
      /\ DaysIn(tm.year, tm.mon) \in Int
  BY <1>1, CalendarTypes, Zenon
<1> HAVE tm.year < 1970 /\ tm.mday <= DaysIn(tm.year, tm.mon) /\ tm.hour <= 23
<1>3. BeforeYear(tm.year) + BeforeMonth(tm.year, tm.mon) + DaysIn(tm.year, tm.mon) <= 0
  BY <1>1, MonthsBefore
<1>4. BeforeYear(tm.year) + BeforeMonth(tm.year, tm.mon) + tm.mday - 1 <= -1
  BY <1>1, <1>2, <1>3
<1>5. QED
  BY <1>1, <1>2, <1>4 DEF hours

\* What the parser's own calendar makes of a date.
LEMMA DateJudged ==
    ASSUME NEW tm \in [year : Nat, mon : 0..11, mday : Nat, hour : Nat], hours(tm) >= 0
    PROVE  date_accepted(tm) <=> (Exists(tm) <=> ~Misjudged(tm))
<1>1. /\ tm.year \in Nat /\ tm.mon \in 0..11 /\ tm.mday \in Nat /\ tm.hour \in Nat
      /\ DaysIn(tm.year, tm.mon) \in Int /\ hours(tm) \in Int
  <2>1. tm.year \in Int /\ tm.mon \in 0..11
    OBVIOUS
  <2>2. BeforeYear(tm.year) \in Int /\ BeforeMonth(tm.year, tm.mon) \in Int /\ DaysIn(tm.year, tm.mon) \in Int
    BY <2>1, YearType, MonthType, Zenon
  <2>3. QED
    BY <2>2 DEF hours
<1>2. CASE tm.hour > 23
  BY <1>1, <1>2 DEF date_accepted, Exists, Misjudged
<1>3. CASE tm.hour <= 23 /\ tm.year < 1970
  <2>1. ~(tm.mday <= DaysIn(tm.year, tm.mon))
    BY <1>1, <1>3, EarlyDates
  <2>2. ~Exists(tm)
    BY <1>1, <2>1 DEF Exists
  <2>3. DaysIn(tm.year, tm.mon) >= 28 /\ (tm.year % 400 = 0 /\ tm.mon = 1 => DaysIn(tm.year, tm.mon) = 29)
    BY <1>1 DEF DaysIn, Leap
  <2>4. ~Misjudged(tm)
    BY <1>1, <2>1, <2>3 DEF Misjudged
  <2>5. QED
    BY <1>1, <1>3, <2>2, <2>4 DEF date_accepted
<1>4. CASE tm.hour <= 23 /\ tm.year >= 1970 /\ tm.mon # 1
  BY <1>1, <1>4 DEF date_accepted, Exists, Misjudged, DaysIn
<1>5. CASE tm.hour <= 23 /\ tm.year >= 1970 /\ tm.mon = 1
  BY <1>1, <1>5 DEF date_accepted, Exists, Misjudged, DaysIn, Leap
<1>6. QED
  BY <1>1, <1>2, <1>3, <1>4, <1>5

\* In GMT, the dates that are refused are exactly those that DatesJudged names.
THEOREM DatesCorrect == ASSUME Offset = 0 PROVE Spec => DatesJudged
<1>1. ASSUME CopyInv, NEW tm \in OtherDates, NEW format \in Formats, Ask(tm, format), hours(tm) >= mtime
      PROVE  status_code' = 304 <=> (format # "rfc850" /\ (Exists(tm) <=> ~Misjudged(tm)))
  <2>1. tm \in [year : Nat, mon : 0..11, mday : Nat, hour : Nat] /\ mtime \in Nat
    BY <1>1, DatesAssumption DEF CopyInv
  <2>2. status_code' = 304 <=> not_modified(parsed(tm, format))
    BY <1>1 DEF Ask
  <2>3. CASE format = "rfc850"
    <3>1. parsed(tm, format).year < 1970
      BY <2>1, <2>3 DEF parsed
    <3>2. ~ not_modified(parsed(tm, format))
      BY <2>1, <3>1 DEF not_modified, date_accepted, parsed
    <3>3. QED
      BY <2>2, <2>3, <3>2
  <2>4. CASE format # "rfc850"
    <3>1. parsed(tm, format) = tm
      BY <2>4 DEF parsed
    <3>2. hours(tm) \in Int
      <4>1. tm.year \in Int /\ tm.mon \in 0..11
        BY <2>1
      <4>2. BeforeYear(tm.year) \in Int /\ BeforeMonth(tm.year, tm.mon) \in Int
        BY <4>1, YearType, MonthType, Zenon
      <4>3. QED
        BY <2>1, <4>2 DEF hours
    <3>3. if_modified_since(tm) = hours(tm)
      BY <3>2, Timezone DEF if_modified_since, mktime
    <3>4. hours(tm) >= 0
      BY <1>1, <2>1, <3>2
    <3>5. not_modified(tm) <=> date_accepted(tm)
      BY <1>1, <2>1, <3>2, <3>3 DEF not_modified
    <3>6. QED
      BY <2>1, <2>2, <2>4, <3>1, <3>4, <3>5, DateJudged
  <2>5. QED
    BY <2>3, <2>4
<1>2. CopyInv => [\A tm \in OtherDates, format \in Formats : Ask(tm, format) /\ hours(tm) >= mtime
          => (status_code' = 304 <=> (format # "rfc850" /\ (Exists(tm) <=> ~Misjudged(tm))))]_vars
  BY <1>1
<1>3. QED
  BY <1>2, CopyCorrect, PTL DEF DatesJudged

=============================================================================
