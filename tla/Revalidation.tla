---------------------------- MODULE Revalidation ----------------------------
(***************************************************************************)
(* A client keeps a copy of a file and asks, with the Last-Modified date   *)
(* it was given, whether the file has changed: time_to_rfcdate writes the  *)
(* date, parse_if_modified_since_header reads it back, setup_reply answers *)
(* 200 or 304.                                                             *)
(*                                                                         *)
(* Instants are hours since 1970-01-01 00:00 GMT; minutes and seconds take *)
(* no part in what follows.                                                *)
(***************************************************************************)
EXTENDS Integers

CONSTANTS
    Instants,       \* when the file may be modified, in hours
    OtherDates,     \* further dates a client may send
    Offset          \* hours by which local time is ahead of GMT

ASSUME InstantsAssumption == Instants \subseteq Nat /\ Offset \in -12..14

\* The numbers of a date are whatever the peer wrote, its month is a name.
ASSUME DatesAssumption == OtherDates \subseteq [year : Nat, mon : 0..11, mday : Nat, hour : Nat]

VARIABLES
    mtime,          \* file_stat.st_mtime
    copied,         \* mtime of the client's copy, or None
    date,           \* the date it sends, a struct tm in GMT, or NoDate
    status_code     \* of the answer to If-Modified-Since, None if it was not sent

vars == <<mtime, copied, date, status_code>>

None   == -1
NoDate == [year |-> 0, mon |-> 0, mday |-> 0, hour |-> 0]

-----------------------------------------------------------------------------
(* The calendar of the C library.  Months are counted from 0, days of the  *)
(* month from 1; a day 0 is the last day of the month before.              *)

Leap(year) == year % 4 = 0 /\ (year % 100 # 0 \/ year % 400 = 0)
DaysIn(year, mon) == IF mon = 1 THEN (IF Leap(year) THEN 29 ELSE 28)
                     ELSE IF mon \in {3, 5, 8, 10} THEN 30 ELSE 31

BeforeYear(year) == 365 * (year - 1970)
    + (year - 1) \div 4 - (year - 1) \div 100 + (year - 1) \div 400 - 477
BeforeMonth(year, mon) ==
    <<0, 31, 59, 90, 120, 151, 181, 212, 243, 273, 304, 334>>[mon + 1]
    + (IF mon > 1 /\ Leap(year) THEN 1 ELSE 0)

hours(tm) == 24 * (BeforeYear(tm.year) + BeforeMonth(tm.year, tm.mon) + tm.mday - 1) + tm.hour

gmtime(t) ==
    LET day  == t \div 24
        year == CHOOSE y \in 1969..(1970 + day) : BeforeYear(y) <= day /\ day < BeforeYear(y + 1)
        mon  == CHOOSE m \in 0..11 : LET first == BeforeYear(year) + BeforeMonth(year, m)
                                     IN  first <= day /\ day < first + DaysIn(year, m)
    IN  [year |-> year, mon |-> mon, mday |-> day - BeforeYear(year) - BeforeMonth(year, mon) + 1,
         hour |-> t % 24]

localtime(t) == gmtime(t + Offset)
mktime(tm)   == hours(tm) - Offset

-----------------------------------------------------------------------------
(* HTTPParser. *)

\* mktime(&local) - mktime(&gmt), both taken at the epoch.
my_timezone == mktime(localtime(0)) - mktime(gmtime(0))

\* Mutant: no month has more than 30 days.
MutantDateAccepted(tm) == tm.mday <= (IF tm.mon = 1 THEN 28 ELSE 30)

date_accepted(tm) ==
    /\ tm.year >= 1970 /\ tm.hour <= 23
    /\ tm.mday <= (IF tm.mon = 1 THEN (IF tm.year % 4 = 0 /\ tm.year % 100 # 0 THEN 29 ELSE 28)
                   ELSE IF tm.mon \in {3, 5, 8, 10} THEN 30 ELSE 31)

if_modified_since(tm) == mktime(tm) - my_timezone

\* HTTP_date: a date as it is written in one of the three formats, and read back.
\* An rfc850 date gives its year with two digits, and the grammar takes them for
\* the year.
Formats == {"rfc1123", "rfc850", "asctime"}
parsed(tm, format) == IF format = "rfc850" THEN [tm EXCEPT !.year = @ % 100] ELSE tm

-----------------------------------------------------------------------------
Init == mtime \in Instants /\ copied = None /\ date = NoDate /\ status_code = None

\* Somebody writes the file, or puts another in its place, which may be older
\* (mv, cp -p, tar).
Modify(t) ==
    /\ t # mtime /\ mtime' = t
    /\ UNCHANGED <<copied, date, status_code>>

\* setup_reply without If-Modified-Since: 200 with a Last-Modified header.
Fetch ==
    /\ copied' = mtime /\ date' = gmtime(mtime) /\ status_code' = None
    /\ UNCHANGED mtime

\* Mutant: a file as old as the copy counts as modified.
MutantNotModified(tm) == date_accepted(tm) /\ mtime < if_modified_since(tm)

\* Mutant: the date is compared without the time of day.
MutantSameDay(tm) == date_accepted(tm) /\ mtime \div 24 <= if_modified_since(tm) \div 24

\* The header is ignored if its date is not accepted.
not_modified(tm) == date_accepted(tm) /\ mtime <= if_modified_since(tm)

\* setup_reply with the date of the copy.
Revalidate ==
    /\ copied # None
    /\ \/ not_modified(date) /\ status_code' = 304 /\ UNCHANGED <<copied, date>>
       \/ ~not_modified(date) /\ status_code' = 200 /\ copied' = mtime /\ date' = gmtime(mtime)
    /\ UNCHANGED mtime

\* A client that makes up a date of its own has no copy to keep.
Ask(tm, format) ==
    /\ copied' = None /\ date' = parsed(tm, format)
    /\ status_code' = IF not_modified(parsed(tm, format)) THEN 304 ELSE 200
    /\ UNCHANGED mtime

Next == (\E t \in Instants : Modify(t)) \/ Fetch \/ Revalidate \/ (\E tm \in OtherDates, format \in Formats : Ask(tm, format))

Spec == Init /\ [][Next]_vars

-----------------------------------------------------------------------------
(* Properties. *)

Exists(tm) == tm.mon \in 0..11 /\ tm.mday \in 1..DaysIn(tm.year, tm.mon) /\ tm.hour \in 0..23

\* Where the parser's own calendar is not the real one: it has no day 0 to
\* refuse and no leap day in the years that are multiples of 400.
Misjudged(tm) ==
    tm.hour <= 23 /\ (tm.mday = 0 \/ (tm.year % 400 = 0 /\ tm.mon = 1 /\ tm.mday = 29))

\* The comparison is not for equality (rh-setup-reply.cc:161).
ReplacedByOlder == mtime < copied

\* A copy is confirmed only if the file is still what was copied, or has been
\* replaced by an older one: writing the date, reading it back and comparing lose
\* nothing across months, years and leap days.
ConfirmedIsCurrent ==
    [][Revalidate /\ status_code' = 304 => copied = mtime \/ ReplacedByOlder]_vars

\* An unchanged file is not sent again, and neither is an older one in its place,
\* except if the copy is of the leap day of a year that is a multiple of 400 (the
\* parser refuses the date).
UnchangedIsNotSent ==
    [][Revalidate /\ (copied = mtime \/ ReplacedByOlder) /\ ~Misjudged(date)
        => status_code' = 304]_vars

\* "Make sure the tm structure contains no nonsense" (HTTPParser.cc:378): of the
\* dates since 1970, those that do not exist are refused and no others, but for
\* the ones above, with which it is the other way round, and for all dates in
\* the format of RFC 850, which are taken to be older than 1970.
DatesJudged ==
    [][\A tm \in OtherDates, format \in Formats : Ask(tm, format) /\ hours(tm) >= mtime
        => (status_code' = 304 <=> (format # "rfc850" /\ (Exists(tm) <=> ~Misjudged(tm))))]_vars

=============================================================================
