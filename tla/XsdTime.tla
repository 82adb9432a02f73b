------------------------------ MODULE XsdTime ------------------------------
(***************************************************************************)
(* The calendar and the clock of xsd_tm.c: days counted over years and     *)
(* months, and the order between two times of which one may have no zone.  *)
(* XsdTypes reads the fields of a time from its text.                      *)
(***************************************************************************)
EXTENDS Integers

DAYSECS == 86400
TZSECS  == 50400    \* 14 hours, the farthest a time zone can be

\* C's division and remainder, which truncate towards zero.
Quotient(a, b)  == IF a >= 0 THEN a \div b ELSE -((-a) \div b)
Divides(b, a)   == Quotient(a, b) * b = a

leap(yr) == Divides(4, yr) /\ (~Divides(100, yr) \/ Divides(400, yr))
y2d(yr)  == yr * 365 + Quotient(yr, 4) - Quotient(yr, 100) + Quotient(yr, 400)

MonthDays == <<31, 28, 31, 30, 31, 30, 31, 31, 30, 31, 30, 31>>

\* The cases of the switch fall through: case k + 1 adds the days of month k.
Passed(mo, k) == IF mo \in k + 1 .. 12 THEN MonthDays[k] ELSE 0

ymd2dn(yr, mo, dy) ==
  dy + Passed(mo, 11) + Passed(mo, 10) + Passed(mo, 9) + Passed(mo, 8) + Passed(mo, 7) + Passed(mo, 6)
     + Passed(mo, 5) + Passed(mo, 4) + Passed(mo, 3) + Passed(mo, 2) + Passed(mo, 1)
     + (IF mo > 2 /\ leap(yr) THEN 1 ELSE 0)

ymd2dsWithin(yr, mo, dy) == y2d(yr) + ymd2dn(yr, mo, dy)    \* mutant: the year is counted as past

ymd2ds(yr, mo, dy) == (IF yr >= 0 THEN y2d(yr - 1) ELSE y2d(yr) - 366) + ymd2dn(yr, mo, dy)

-----------------------------------------------------------------------------
\* addsecs
AddSecs(tm, secs) ==
  LET s     == tm.secs + secs
      carry == IF s < 0 THEN -1 ELSE IF s >= DAYSECS THEN 1 ELSE 0
  IN  [days |-> tm.days + carry, secs |-> s - carry * DAYSECS, mics |-> tm.mics, tz |-> tm.tz]

Less(tm1, tm2) ==
  \/ tm1.days < tm2.days
  \/ tm1.days = tm2.days /\ tm1.secs < tm2.secs
  \/ tm1.days = tm2.days /\ tm1.secs = tm2.secs /\ tm1.mics < tm2.mics

tmcmp(tm1, tm2) == IF Less(tm1, tm2) THEN -1 ELSE IF Less(tm2, tm1) THEN 1 ELSE 0

Unknown == 2    \* and -2

\* A time with a zone against one without, which may be in any zone.
CompareZoned(tm1, tm2) ==
  IF tmcmp(tm1, AddSecs(tm2, TZSECS)) = 1 THEN 1
  ELSE IF tmcmp(tm1, AddSecs(tm2, -TZSECS)) = -1 THEN -1
  ELSE Unknown

xsd_tmcmpLocal(tm1, tm2) == tmcmp(tm1, tm2)    \* mutant: a missing zone is not looked at

xsd_tmcmp(tm1, tm2) ==
  CASE tm1.tz = tm2.tz     -> tmcmp(tm1, tm2)
    [] tm1.tz /\ ~tm2.tz   -> CompareZoned(tm1, tm2)
    [] ~tm1.tz /\ tm2.tz   -> -CompareZoned(tm2, tm1)

-----------------------------------------------------------------------------
(* Properties. *)

\* The days of a month as the calendar has them, the years before the first one as if
\* there were no break.
DaysInMonth(y, m) ==
  CASE m = 2 -> IF (y % 4 = 0 /\ y % 100 # 0) \/ y % 400 = 0 THEN 29 ELSE 28
    [] m \in {4, 6, 9, 11} -> 30
    [] OTHER -> 31

\* The number of days grows by one from each day of month m of year y to the next, and
\* to the month or year that follows (xsd_tm.c 9-32).  After the year -1 comes the year 1.
DaysFollow(y, m) ==
  LET last == DaysInMonth(y, m)
  IN  /\ \A d \in 1 .. last - 1 : ymd2ds(y, m, d + 1) = ymd2ds(y, m, d) + 1
      /\ m < 12 => ymd2ds(y, m + 1, 1) = ymd2ds(y, m, last) + 1
      /\ m = 12 /\ y # -1 => ymd2ds(y + 1, 1, 1) = ymd2ds(y, m, last) + 1
=============================================================================
