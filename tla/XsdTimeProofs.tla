--------------------------- MODULE XsdTimeProofs ---------------------------
(***************************************************************************)
(* Theorems about XsdTime, for all years and all times: the days of the    *)
(* calendar are counted without a gap, and the comparison of two times is  *)
(* certain exactly where the moments they may stand for are.               *)
(***************************************************************************)
EXTENDS XsdTime, TLAPS

-----------------------------------------------------------------------------
(* Years. *)

\* The leap years of C's remainders are those of the calendar, also before the year one.
LEMMA LeapIs ==
  ASSUME NEW y \in Int
  PROVE  leap(y) <=> (y % 4 = 0 /\ y % 100 # 0) \/ y % 400 = 0
<1>1. y % 400 = 0 => y % 4 = 0
  OBVIOUS
<1>2. Divides(4, y) <=> y % 4 = 0
  BY DEF Divides, Quotient
<1>3. Divides(100, y) <=> y % 100 = 0
  BY DEF Divides, Quotient
<1>4. Divides(400, y) <=> y % 400 = 0
  BY DEF Divides, Quotient
<1> QED
  BY <1>1, <1>2, <1>3, <1>4, Zenon DEF leap

\* A year has 365 days and a leap year one more, on either side of the year one.
LEMMA YearSteps ==
  ASSUME NEW y \in Int
  PROVE  /\ y2d(y) \in Int
         /\ y >= 1  => y2d(y) = y2d(y - 1) + (IF leap(y) THEN 366 ELSE 365)
         /\ y < -1  => y2d(y + 1) = y2d(y) + (IF leap(y) THEN 366 ELSE 365)
<1> DEFINE Q(a, b) == IF a < 0 /\ a % b # 0 THEN a \div b + 1 ELSE a \div b
           q(a) == a * 365 + Q(a, 4) - Q(a, 100) + Q(a, 400)
<1>1. \A a \in Int : y2d(a) = q(a)
  <2> SUFFICES ASSUME NEW a \in Int PROVE y2d(a) = q(a)
    OBVIOUS
  <2>1. Quotient(a, 4) = Q(a, 4)
    BY DEF Quotient
  <2>2. Quotient(a, 100) = Q(a, 100)
    BY DEF Quotient
  <2>3. Quotient(a, 400) = Q(a, 400)
    BY DEF Quotient
  <2> HIDE DEF Q
  <2> QED
    BY <2>1, <2>2, <2>3 DEF y2d
<1>2. y2d(y) = q(y) /\ y2d(y - 1) = q(y - 1) /\ y2d(y + 1) = q(y + 1)
  <2> HIDE DEF q
  <2>1. y - 1 \in Int /\ y + 1 \in Int
    OBVIOUS
  <2> QED
    BY <2>1, <1>1, Zenon
<1>3. q(y) \in Int
  OBVIOUS
<1>4. ASSUME y >= 1
      PROVE  q(y) = q(y - 1) + (IF leap(y) THEN 366 ELSE 365)
  <2>1. /\ y \div 4 = IF y % 4 = 0 THEN (y - 1) \div 4 + 1 ELSE (y - 1) \div 4
        /\ y \div 100 = IF y % 100 = 0 THEN (y - 1) \div 100 + 1 ELSE (y - 1) \div 100
        /\ y \div 400 = IF y % 400 = 0 THEN (y - 1) \div 400 + 1 ELSE (y - 1) \div 400
    OBVIOUS
  <2>2. y % 400 = 0 => y % 100 = 0 /\ y % 4 = 0
    OBVIOUS
  <2>3. y % 100 = 0 => y % 4 = 0
    OBVIOUS
  <2>4. q(y) = q(y - 1) + (IF (y % 4 = 0 /\ y % 100 # 0) \/ y % 400 = 0 THEN 366 ELSE 365)
    BY <1>4, <2>1, <2>2, <2>3
  <2>5. leap(y) <=> (y % 4 = 0 /\ y % 100 # 0) \/ y % 400 = 0
    BY LeapIs
  <2> HIDE DEF q
  <2> QED
    BY <2>4, <2>5
<1>5. ASSUME y < -1
      PROVE  q(y + 1) = q(y) + (IF leap(y) THEN 366 ELSE 365)
  <2>1. /\ Q(y + 1, 4) = IF y % 4 = 0 THEN Q(y, 4) + 1 ELSE Q(y, 4)
        /\ Q(y + 1, 100) = IF y % 100 = 0 THEN Q(y, 100) + 1 ELSE Q(y, 100)
        /\ Q(y + 1, 400) = IF y % 400 = 0 THEN Q(y, 400) + 1 ELSE Q(y, 400)
    BY <1>5
  <2>2. y % 400 = 0 => y % 100 = 0 /\ y % 4 = 0
    OBVIOUS
  <2>3. y % 100 = 0 => y % 4 = 0
    OBVIOUS
  <2>5. Q(y, 4) \in Int /\ Q(y, 100) \in Int /\ Q(y, 400) \in Int
    OBVIOUS
  <2> HIDE DEF Q
  <2>4. q(y + 1) = q(y) + (IF (y % 4 = 0 /\ y % 100 # 0) \/ y % 400 = 0 THEN 366 ELSE 365)
    BY <2>1, <2>2, <2>3, <2>5
  <2>6. leap(y) <=> (y % 4 = 0 /\ y % 100 # 0) \/ y % 400 = 0
    BY LeapIs
  <2> HIDE DEF q
  <2> QED
    BY <2>4, <2>6
<1> HIDE DEF q
<1> QED
  BY <1>2, <1>3, <1>4, <1>5

-----------------------------------------------------------------------------
(* Months and days. *)

\* The days of the year that are past when month m begins.
DaysBefore(y, m) == ymd2dn(y, m, 0)

LEMMA DayOfYear ==
  ASSUME NEW y \in Int, NEW m \in 1 .. 12, NEW d \in Int
  PROVE  ymd2dn(y, m, d) = DaysBefore(y, m) + d
<1> DEFINE p(k)     == Passed(m, k)
           added    == IF m > 2 /\ leap(y) THEN 1 ELSE 0
<1>1. /\ MonthDays[1] \in Int /\ MonthDays[2] \in Int /\ MonthDays[3] \in Int /\ MonthDays[4] \in Int
      /\ MonthDays[5] \in Int /\ MonthDays[6] \in Int /\ MonthDays[7] \in Int /\ MonthDays[8] \in Int
      /\ MonthDays[9] \in Int /\ MonthDays[10] \in Int /\ MonthDays[11] \in Int
  BY DEF MonthDays
<1>2. /\ p(1) \in Int /\ p(2) \in Int /\ p(3) \in Int /\ p(4) \in Int /\ p(5) \in Int /\ p(6) \in Int
      /\ p(7) \in Int /\ p(8) \in Int /\ p(9) \in Int /\ p(10) \in Int /\ p(11) \in Int
  BY <1>1 DEF Passed
<1>3. added \in Int
  OBVIOUS
<1>4. \A e \in Int : ymd2dn(y, m, e) = e + p(11) + p(10) + p(9) + p(8) + p(7) + p(6)
                                         + p(5) + p(4) + p(3) + p(2) + p(1) + added
  BY Zenon DEF ymd2dn
<1> HIDE DEF p, added
<1> QED
  BY <1>2, <1>3, <1>4, SMT DEF DaysBefore

LEMMA MonthSteps ==
  ASSUME NEW y \in Int, NEW m \in 1 .. 12
  PROVE  /\ DaysBefore(y, m) \in Int
         /\ DaysBefore(y, 1) = 0
         /\ m < 12 => DaysBefore(y, m + 1) = DaysBefore(y, m) + DaysInMonth(y, m)
         /\ DaysBefore(y, 12) + 31 = IF leap(y) THEN 366 ELSE 365
<1> DEFINE common == (y % 4 = 0 /\ y % 100 # 0) \/ y % 400 = 0
<1>1. leap(y) <=> common
  BY LeapIs
<1>2. /\ MonthDays[1] = 31 /\ MonthDays[2] = 28 /\ MonthDays[3] = 31 /\ MonthDays[4] = 30
      /\ MonthDays[5] = 31 /\ MonthDays[6] = 30 /\ MonthDays[7] = 31 /\ MonthDays[8] = 31
      /\ MonthDays[9] = 30 /\ MonthDays[10] = 31 /\ MonthDays[11] = 30 /\ MonthDays[12] = 31
  BY DEF MonthDays
<1> DEFINE P(mo, k, n) == IF mo > k THEN n ELSE 0
           before(mo) == P(mo, 1, 31) + P(mo, 2, 28) + P(mo, 3, 31) + P(mo, 4, 30) + P(mo, 5, 31)
                         + P(mo, 6, 30) + P(mo, 7, 31) + P(mo, 8, 31) + P(mo, 9, 30) + P(mo, 10, 31)
                         + P(mo, 11, 30) + (IF mo > 2 /\ common THEN 1 ELSE 0)
<1>3. \A mo \in 1 .. 12, e \in Int : ymd2dn(y, mo, e) = before(mo) + e
  <2> SUFFICES ASSUME NEW mo \in 1 .. 12, NEW e \in Int
               PROVE  ymd2dn(y, mo, e) = before(mo) + e
    OBVIOUS
  <2>1. /\ Passed(mo, 1) = P(mo, 1, 31) /\ Passed(mo, 2) = P(mo, 2, 28)
        /\ Passed(mo, 3) = P(mo, 3, 31) /\ Passed(mo, 4) = P(mo, 4, 30)
    BY <1>2 DEF Passed
  <2>2. /\ Passed(mo, 5) = P(mo, 5, 31) /\ Passed(mo, 6) = P(mo, 6, 30)
        /\ Passed(mo, 7) = P(mo, 7, 31) /\ Passed(mo, 8) = P(mo, 8, 31)
    BY <1>2 DEF Passed
  <2>3. /\ Passed(mo, 9) = P(mo, 9, 30) /\ Passed(mo, 10) = P(mo, 10, 31)
        /\ Passed(mo, 11) = P(mo, 11, 30)
    BY <1>2 DEF Passed
  <2> HIDE DEF common
  <2> QED
    BY <1>1, <2>1, <2>2, <2>3 DEF ymd2dn
<1>4. \A mo \in 1 .. 12 : before(mo) \in Int
  OBVIOUS
<1>5. before(1) = 0 /\ before(12) + 31 = IF common THEN 366 ELSE 365
  OBVIOUS
<1>6. m < 12 => before(m + 1) = before(m) + DaysInMonth(y, m)
  <2>1. DaysInMonth(y, m) = CASE m = 2 -> IF common THEN 29 ELSE 28
                              [] m \in {4, 6, 9, 11} -> 30
                              [] OTHER -> 31
    BY DEF DaysInMonth
  <2> HIDE DEF common
  <2>2. CASE m \in {1, 2, 3, 4}
    BY <2>1, <2>2
  <2>3. CASE m \in {5, 6, 7, 8}
    BY <2>1, <2>3
  <2>4. CASE m \in {9, 10, 11, 12}
    BY <2>1, <2>4
  <2> QED
    BY <2>2, <2>3, <2>4
<1> HIDE DEF before, common
<1>7. \A mo \in 1 .. 12 : DaysBefore(y, mo) = before(mo)
  <2> SUFFICES ASSUME NEW mo \in 1 .. 12 PROVE DaysBefore(y, mo) = before(mo)
    OBVIOUS
  <2>1. ymd2dn(y, mo, 0) = before(mo) + 0
    BY <1>3
  <2>2. before(mo) \in Int
    BY <1>4
  <2>3. ymd2dn(y, mo, 0) = before(mo)
    BY <2>1, <2>2
  <2> QED
    BY <2>3, Zenon DEF DaysBefore
<1>8. DaysBefore(y, m) \in Int
  BY <1>4, <1>7, Zenon
<1>10. DaysBefore(y, 1) = 0
  <2>1. 1 \in 1 .. 12
    OBVIOUS
  <2> QED
    BY <2>1, <1>5, <1>7, Zenon
<1>11. ASSUME m < 12
       PROVE  DaysBefore(y, m + 1) = DaysBefore(y, m) + DaysInMonth(y, m)
  <2>1. m + 1 \in 1 .. 12
    BY <1>11
  <2>2. before(m + 1) = before(m) + DaysInMonth(y, m)
    BY <1>6, <1>11
  <2> QED
    BY <2>1, <2>2, <1>7, Zenon
<1>12. DaysBefore(y, 12) + 31 = IF leap(y) THEN 366 ELSE 365
  <2>1. DaysBefore(y, 12) = before(12)
    BY <1>7
  <2> QED
    BY <2>1, <1>1, <1>5
<1> QED
  BY <1>8, <1>10, <1>11, <1>12

-----------------------------------------------------------------------------
(* The number of a day. *)

\* The days that are counted before the year begins.
YearBegins(y) == IF y >= 0 THEN y2d(y - 1) ELSE y2d(y) - 366

\* In every year but 0, which ISO 8601 has and the calendar of XML Schema 1.0 has not,
\* the days of each month are numbered without a gap or a repetition, and those of the
\* next month or year follow them: ymd2ds of xsd_tm.c 30-32 orders dates as the
\* calendar does, for years of any size before and after the first.
THEOREM CalendarDays == \A y \in Int \ {0}, m \in 1 .. 12 : DaysFollow(y, m)
<1> SUFFICES ASSUME NEW y \in Int \ {0}, NEW m \in 1 .. 12
             PROVE  DaysFollow(y, m)
  OBVIOUS
<1>1. \A x \in Int : YearBegins(x) \in Int
  <2> SUFFICES ASSUME NEW x \in Int PROVE YearBegins(x) \in Int
    OBVIOUS
  <2>1. y2d(x) \in Int
    BY YearSteps
  <2>2. y2d(x - 1) \in Int
    <3>1. x - 1 \in Int
      OBVIOUS
    <3> QED
      BY <3>1, YearSteps, Zenon
  <2> QED
    BY <2>1, <2>2 DEF YearBegins
<1>2. \A x \in Int, mo \in 1 .. 12, d \in Int :
        ymd2ds(x, mo, d) = YearBegins(x) + (DaysBefore(x, mo) + d)
  <2> SUFFICES ASSUME NEW x \in Int, NEW mo \in 1 .. 12, NEW d \in Int
               PROVE  ymd2ds(x, mo, d) = YearBegins(x) + (DaysBefore(x, mo) + d)
    OBVIOUS
  <2>1. ymd2dn(x, mo, d) = DaysBefore(x, mo) + d
    BY DayOfYear, Zenon
  <2> QED
    BY <2>1, Zenon DEF ymd2ds, YearBegins
<1>3. DaysInMonth(y, m) \in 28 .. 31
  BY DEF DaysInMonth
<1> DEFINE last == DaysInMonth(y, m)
<1>4. DaysBefore(y, m) \in Int /\ YearBegins(y) \in Int
  BY <1>1, MonthSteps
<1>5. \A d \in 1 .. last - 1 : ymd2ds(y, m, d + 1) = ymd2ds(y, m, d) + 1
  <2> SUFFICES ASSUME NEW d \in Int PROVE ymd2ds(y, m, d + 1) = ymd2ds(y, m, d) + 1
    BY <1>3
  <2>1. ymd2ds(y, m, d + 1) = YearBegins(y) + (DaysBefore(y, m) + (d + 1))
    BY <1>2
  <2>2. ymd2ds(y, m, d) = YearBegins(y) + (DaysBefore(y, m) + d)
    BY <1>2
  <2> QED
    BY <2>1, <2>2, <1>4
<1>6. ymd2ds(y, m, last) = YearBegins(y) + (DaysBefore(y, m) + last)
  BY <1>2, <1>3
<1>7. ASSUME m < 12
      PROVE  ymd2ds(y, m + 1, 1) = ymd2ds(y, m, last) + 1
  <2>1. m + 1 \in 1 .. 12
    BY <1>7
  <2>2. ymd2ds(y, m + 1, 1) = YearBegins(y) + (DaysBefore(y, m + 1) + 1)
    BY <1>2, <2>1
  <2>3. DaysBefore(y, m + 1) = DaysBefore(y, m) + last
    BY <1>7, MonthSteps
  <2> QED
    BY <2>2, <2>3, <1>3, <1>4, <1>6
<1>8. ASSUME m = 12, y # -1
      PROVE  ymd2ds(y + 1, 1, 1) = ymd2ds(y, m, last) + 1
  <2>1. last = 31
    BY <1>8 DEF DaysInMonth
  <2>2. DaysBefore(y, m) + last = IF leap(y) THEN 366 ELSE 365
    BY <2>1, <1>8, MonthSteps
  <2>3. y + 1 \in Int /\ 1 \in 1 .. 12
    OBVIOUS
  <2>4. DaysBefore(y + 1, 1) = 0
    BY <2>3, MonthSteps, Zenon
  <2>5. ymd2ds(y + 1, 1, 1) = YearBegins(y + 1) + (DaysBefore(y + 1, 1) + 1)
    BY <1>2, <2>3
  <2>6. YearBegins(y + 1) = YearBegins(y) + (IF leap(y) THEN 366 ELSE 365)
    <3>1. /\ y2d(y) \in Int
          /\ y >= 1 => y2d(y) = y2d(y - 1) + (IF leap(y) THEN 366 ELSE 365)
          /\ y < -1 => y2d(y + 1) = y2d(y) + (IF leap(y) THEN 366 ELSE 365)
      BY YearSteps
    <3>2. CASE y >= 1
      <4>1. y + 1 >= 0 /\ (y + 1) - 1 = y
        BY <3>2
      <4>2. YearBegins(y + 1) = y2d(y)
        BY <4>1 DEF YearBegins
      <4>3. YearBegins(y) = y2d(y - 1)
        BY <3>2 DEF YearBegins
      <4> QED
        BY <3>1, <3>2, <4>2, <4>3
    <3>3. CASE y < -1
      <4>1. YearBegins(y + 1) = y2d(y + 1) - 366
        BY <3>3 DEF YearBegins
      <4>2. YearBegins(y) = y2d(y) - 366
        BY <3>3 DEF YearBegins
      <4> QED
        BY <3>1, <3>3, <4>1, <4>2
    <3> QED
      BY <3>2, <3>3, <1>8
  <2> QED
    BY <2>2, <2>4, <2>5, <2>6, <1>4, <1>6
<1> HIDE DEF last
<1> QED
  BY <1>5, <1>7, <1>8 DEF DaysFollow, last

-----------------------------------------------------------------------------
(* Times. *)

Second == 1000000    \* microseconds

Time == [days : Int, secs : 0 .. DAYSECS - 1, mics : 0 .. Second - 1, tz : BOOLEAN]

Moment(t) == (t.days * DAYSECS + t.secs) * Second + t.mics

Zones == -TZSECS .. TZSECS

\* The moments that two times may stand for together: a time without a zone may be in any
\* zone when the other one has a zone, and is in that of the other when it has none.
Moments(a, b) ==
  CASE a.tz = b.tz    -> {<<Moment(a), Moment(b)>>}
    [] a.tz /\ ~b.tz  -> {<<Moment(a), Moment(b) + z * Second>> : z \in Zones}
    [] ~a.tz /\ b.tz  -> {<<Moment(a) + z * Second, Moment(b)>> : z \in Zones}

\* What the proofs need of the three lengths.
LEMMA Lengths ==
  /\ DAYSECS \in Int /\ Second \in Int /\ TZSECS \in Int /\ 0 < TZSECS /\ TZSECS < DAYSECS
  /\ \A a \in Int : a * Second \in Int /\ a * DAYSECS \in Int
  /\ (-1) * DAYSECS = -DAYSECS /\ 0 * DAYSECS = 0 /\ 1 * DAYSECS = DAYSECS
BY SMT DEF DAYSECS, TZSECS, Second

LEMMA SecondsGrow ==
  ASSUME NEW a \in Int, NEW b \in Int
  PROVE  /\ a <= b => a * Second <= b * Second
         /\ a < b  => a * Second < b * Second
BY SMT DEF Second

LEMMA SecondsAdd ==
  ASSUME NEW a \in Int, NEW b \in Int
  PROVE  (a + b) * Second = a * Second + b * Second
BY SMT DEF Second

LEMMA DayCarried ==
  ASSUME NEW a \in Int, NEW s \in Int, NEW c \in {-1, 0, 1}
  PROVE  (a + c) * DAYSECS + (s - c * DAYSECS) = a * DAYSECS + s
BY SMT DEF DAYSECS

\* A greater number of days or seconds outweighs what is left over.
LEMMA DaysOutweigh ==
  ASSUME NEW a \in Int, NEW b \in Int, NEW s \in Int, NEW r \in Int,
         0 <= s, s < DAYSECS, 0 <= r, r < DAYSECS
  PROVE  a * DAYSECS + s < b * DAYSECS + r <=> a < b \/ (a = b /\ s < r)
BY SMT DEF DAYSECS

LEMMA SecondsOutweigh ==
  ASSUME NEW a \in Int, NEW b \in Int, NEW s \in Int, NEW r \in Int,
         0 <= s, s < Second, 0 <= r, r < Second
  PROVE  a * Second + s < b * Second + r <=> a < b \/ (a = b /\ s < r)
BY SMT DEF Second

LEMMA SameDays ==
  ASSUME NEW a \in Int, NEW b \in Int, NEW s \in Int, NEW r \in Int,
         0 <= s, s < DAYSECS, 0 <= r, r < DAYSECS
  PROVE  a * DAYSECS + s = b * DAYSECS + r <=> a = b /\ s = r
BY SMT DEF DAYSECS

LEMMA Fields ==
  ASSUME NEW t \in Time
  PROVE  /\ t.days \in Int
         /\ t.secs \in Int /\ 0 <= t.secs /\ t.secs < DAYSECS
         /\ t.mics \in Int /\ 0 <= t.mics /\ t.mics < Second
         /\ t.tz \in BOOLEAN
<1>1. /\ t.days \in Int /\ t.secs \in 0 .. DAYSECS - 1
      /\ t.mics \in 0 .. Second - 1 /\ t.tz \in BOOLEAN
  BY Zenon DEF Time
<1> QED
  BY <1>1, Lengths, SMT

LEMMA MomentIsInt ==
  ASSUME NEW t \in Time
  PROVE  /\ t.days * DAYSECS + t.secs \in Int
         /\ Moment(t) \in Int
<1> DEFINE past == t.days * DAYSECS + t.secs
<1>1. past \in Int
  BY Fields, Lengths, SMT
<1> HIDE DEF past
<1>2. past * Second + t.mics \in Int
  BY <1>1, Fields, Lengths, SMT
<1> QED
  BY <1>1, <1>2, Zenon DEF Moment, past

\* The fields compare as the moments do.
LEMMA LessIs ==
  ASSUME NEW a \in Time, NEW b \in Time
  PROVE  Less(a, b) <=> Moment(a) < Moment(b)
<1> DEFINE x == a.days * DAYSECS + a.secs
           y == b.days * DAYSECS + b.secs
<1>1. x < y <=> a.days < b.days \/ (a.days = b.days /\ a.secs < b.secs)
  BY Fields, DaysOutweigh, Zenon
<1>2. x = y <=> a.days = b.days /\ a.secs = b.secs
  <2>1. /\ a.days \in Int /\ a.secs \in Int /\ 0 <= a.secs /\ a.secs < DAYSECS
        /\ b.days \in Int /\ b.secs \in Int /\ 0 <= b.secs /\ b.secs < DAYSECS
    BY Fields, Zenon
  <2> QED
    BY <2>1, SameDays, SMT
<1>3. x \in Int /\ y \in Int
  BY MomentIsInt, Zenon
<1>4. Moment(a) = x * Second + a.mics /\ Moment(b) = y * Second + b.mics
  BY Zenon DEF Moment
<1> HIDE DEF x, y
<1>5. x * Second + a.mics < y * Second + b.mics <=> x < y \/ (x = y /\ a.mics < b.mics)
  BY <1>3, Fields, SecondsOutweigh, Zenon
<1> QED
  BY <1>1, <1>2, <1>4, <1>5, Zenon DEF Less

LEMMA ComparisonIs ==
  ASSUME NEW a \in Time, NEW b \in Time
  PROVE  tmcmp(a, b) = IF Moment(a) < Moment(b) THEN -1 ELSE IF Moment(b) < Moment(a) THEN 1 ELSE 0
BY LessIs, Zenon DEF tmcmp

\* A shift by less than a day carries at most one day.
LEMMA Shifted ==
  ASSUME NEW t \in Time, NEW n \in {TZSECS, -TZSECS}
  PROVE  /\ AddSecs(t, n) \in Time
         /\ Moment(AddSecs(t, n)) = Moment(t) + n * Second
<1>1. /\ t.days \in Int /\ t.secs \in 0 .. DAYSECS - 1
      /\ t.mics \in 0 .. Second - 1 /\ t.tz \in BOOLEAN
  BY Zenon DEF Time
<1>2. n \in Int /\ -DAYSECS < n /\ n < DAYSECS
  BY Lengths, SMT
<1> DEFINE s     == t.secs + n
           carry == IF s < 0 THEN -1 ELSE IF s >= DAYSECS THEN 1 ELSE 0
           days  == t.days + carry
           secs  == s - carry * DAYSECS
           u     == [days |-> days, secs |-> secs, mics |-> t.mics, tz |-> t.tz]
<1>3. AddSecs(t, n) = u
  BY Zenon DEF AddSecs
<1>4. s \in Int /\ carry \in {-1, 0, 1}
  BY <1>1, <1>2, Lengths, SMT
<1>5. secs \in 0 .. DAYSECS - 1
  <2>1. t.secs \in Int /\ 0 <= t.secs /\ t.secs < DAYSECS
    BY Fields
  <2>2. CASE s < 0
    BY <2>1, <2>2, <1>2, Lengths, SMT
  <2>3. CASE s >= DAYSECS
    BY <2>1, <2>3, <1>2, Lengths, SMT
  <2>4. CASE ~(s < 0) /\ ~(s >= DAYSECS)
    BY <2>1, <2>4, <1>2, <1>4, Lengths, SMT
  <2> QED
    BY <2>2, <2>3, <2>4, Zenon
<1> HIDE DEF carry
<1>6. days \in Int /\ t.secs \in Int /\ t.mics \in Int
  BY <1>1, <1>4, SMT
<1>7. days * DAYSECS + secs = t.days * DAYSECS + (t.secs + n)
  BY <1>1, <1>4, DayCarried, Zenon
<1> HIDE DEF s, days, secs
<1>8. u \in Time
  BY <1>1, <1>5, <1>6, Zenon DEF Time
<1>9. Moment(u) = (days * DAYSECS + secs) * Second + t.mics
  BY Zenon DEF Moment
<1>10. Moment(t) = (t.days * DAYSECS + t.secs) * Second + t.mics
  BY Zenon DEF Moment
<1> DEFINE past == t.days * DAYSECS + t.secs
<1>11. past \in Int /\ t.days * DAYSECS + (t.secs + n) = past + n
  BY <1>1, <1>2, <1>6, Lengths, SMT
<1> HIDE DEF past
<1>12. (past + n) * Second = past * Second + n * Second
  BY <1>2, <1>11, SecondsAdd, Zenon
<1>13. past * Second \in Int /\ n * Second \in Int
  BY <1>2, <1>11, Lengths, Zenon
<1>14. (past * Second + n * Second) + t.mics = (past * Second + t.mics) + n * Second
  BY <1>6, <1>13, SMT
<1>15. Moment(u) = Moment(t) + n * Second
  BY <1>7, <1>9, <1>10, <1>11, <1>12, <1>14, Zenon DEF past
<1> QED
  BY <1>3, <1>8, <1>15, Zenon

LEMMA ComparedWithZone ==
  ASSUME NEW a \in Time, NEW b \in Time
  PROVE  CompareZoned(a, b) =
           IF Moment(a) > Moment(b) + TZSECS * Second THEN 1
           ELSE IF Moment(a) < Moment(b) + (-TZSECS) * Second THEN -1
           ELSE 2
<1>1. /\ AddSecs(b, TZSECS) \in Time
      /\ Moment(AddSecs(b, TZSECS)) = Moment(b) + TZSECS * Second
  BY Shifted, Zenon
<1>2. /\ AddSecs(b, -TZSECS) \in Time
      /\ Moment(AddSecs(b, -TZSECS)) = Moment(b) + (-TZSECS) * Second
  BY Shifted, Zenon
<1>3. Moment(a) \in Int /\ Moment(AddSecs(b, TZSECS)) \in Int /\ Moment(AddSecs(b, -TZSECS)) \in Int
  BY <1>1, <1>2, MomentIsInt, Zenon
<1>4. tmcmp(a, AddSecs(b, TZSECS)) = 1 <=> Moment(a) > Moment(AddSecs(b, TZSECS))
  BY <1>1, <1>3, ComparisonIs, SMT
<1>5. tmcmp(a, AddSecs(b, -TZSECS)) = -1 <=> Moment(a) < Moment(AddSecs(b, -TZSECS))
  BY <1>2, <1>3, ComparisonIs, SMT
<1> QED
  BY <1>1, <1>2, <1>4, <1>5, Zenon DEF CompareZoned, Unknown

\* The zones at the two ends decide for all of them.
LEMMA EndsDecide ==
  ASSUME NEW x \in Int, NEW y \in Int
  PROVE  /\ (\A z \in Zones : x < y + z * Second) <=> x < y + (-TZSECS) * Second
         /\ (\A z \in Zones : x > y + z * Second) <=> x > y + TZSECS * Second
         /\ ~\A z \in Zones : x = y + z * Second
<1>1. TZSECS \in Zones /\ -TZSECS \in Zones
  BY Lengths, SMT DEF Zones
<1>2. \A z \in Zones : y + (-TZSECS) * Second <= y + z * Second /\ y + z * Second <= y + TZSECS * Second
  <2> SUFFICES ASSUME NEW z \in Zones
               PROVE  y + (-TZSECS) * Second <= y + z * Second /\ y + z * Second <= y + TZSECS * Second
    OBVIOUS
  <2>1. z \in Int /\ -TZSECS \in Int /\ TZSECS \in Int /\ -TZSECS <= z /\ z <= TZSECS
    BY Lengths, SMT DEF Zones
  <2>2. (-TZSECS) * Second <= z * Second /\ z * Second <= TZSECS * Second
    BY <2>1, SecondsGrow, Zenon
  <2>3. z * Second \in Int /\ (-TZSECS) * Second \in Int /\ TZSECS * Second \in Int
    BY <2>1, Lengths, Zenon
  <2> QED
    BY <2>2, <2>3, SMT
<1>3. /\ y + (-TZSECS) * Second \in Int
      /\ y + TZSECS * Second \in Int
      /\ y + (-TZSECS) * Second # y + TZSECS * Second
      /\ \A z \in Zones : y + z * Second \in Int
  <2>1. -TZSECS \in Int /\ TZSECS \in Int /\ -TZSECS < TZSECS /\ \A z \in Zones : z \in Int
    BY Lengths, SMT DEF Zones
  <2>2. (-TZSECS) * Second < TZSECS * Second
    BY <2>1, SecondsGrow, Zenon
  <2>3. /\ (-TZSECS) * Second \in Int /\ TZSECS * Second \in Int
        /\ \A z \in Zones : z * Second \in Int
    BY <2>1, Lengths, Zenon
  <2> QED
    BY <2>2, <2>3, SMT
<1>4. (\A z \in Zones : x < y + z * Second) => x < y + (-TZSECS) * Second
  BY <1>1, Zenon
<1>5. (\A z \in Zones : x > y + z * Second) => x > y + TZSECS * Second
  BY <1>1, Zenon
<1>6. ASSUME x < y + (-TZSECS) * Second, NEW z \in Zones
      PROVE  x < y + z * Second
  BY <1>2, <1>3, <1>6, SMT
<1>7. ASSUME x > y + TZSECS * Second, NEW z \in Zones
      PROVE  x > y + z * Second
  BY <1>2, <1>3, <1>7, SMT
<1>8. ~\A z \in Zones : x = y + z * Second
  BY <1>1, <1>3, Zenon
<1> QED
  BY <1>4, <1>5, <1>6, <1>7, <1>8, Zenon

\* For all times of normal form: xsd_tmcmp answers less, equal or greater exactly when it
\* is so for all moments that the two can stand for, and another number otherwise
\* (xsd_tm.c 83-99, and the contract of xsd_tm.h).  A second 60 without a zone and a
\* fraction that rounds to a million are the times that are not of this form.
THEOREM TimesCompare ==
  \A a, b \in Time :
    /\ xsd_tmcmp(a, b) = -1 <=> \A p \in Moments(a, b) : p[1] < p[2]
    /\ xsd_tmcmp(a, b) = 0  <=> \A p \in Moments(a, b) : p[1] = p[2]
    /\ xsd_tmcmp(a, b) = 1  <=> \A p \in Moments(a, b) : p[1] > p[2]
<1> SUFFICES ASSUME NEW a \in Time, NEW b \in Time
             PROVE  /\ xsd_tmcmp(a, b) = -1 <=> \A p \in Moments(a, b) : p[1] < p[2]
                    /\ xsd_tmcmp(a, b) = 0  <=> \A p \in Moments(a, b) : p[1] = p[2]
                    /\ xsd_tmcmp(a, b) = 1  <=> \A p \in Moments(a, b) : p[1] > p[2]
  OBVIOUS
<1>1. Moment(a) \in Int /\ Moment(b) \in Int
  BY MomentIsInt, Zenon
<1>2. a.tz \in BOOLEAN /\ b.tz \in BOOLEAN
  BY Zenon DEF Time
<1>3. CASE a.tz = b.tz
  <2>1. Moments(a, b) = {<<Moment(a), Moment(b)>>}
    BY <1>3, SMT DEF Moments
  <2>2. xsd_tmcmp(a, b) = tmcmp(a, b)
    BY <1>3, SMT DEF xsd_tmcmp
  <2> QED
    BY <2>1, <2>2, <1>1, ComparisonIs, SMT
<1>4. CASE a.tz = TRUE /\ b.tz = FALSE
  <2>1. Moments(a, b) = {<<Moment(a), Moment(b) + z * Second>> : z \in Zones}
    BY <1>4, SMT DEF Moments
  <2>2. xsd_tmcmp(a, b) = CompareZoned(a, b)
    BY <1>4, SMT DEF xsd_tmcmp
  <2> DEFINE x == Moment(a)  y == Moment(b)
  <2>3. \A p \in Moments(a, b) : \E z \in Zones : p[1] = x /\ p[2] = y + z * Second
    BY <2>1, SMT
  <2>4. \A z \in Zones : \E p \in Moments(a, b) : p[1] = x /\ p[2] = y + z * Second
    <3> SUFFICES ASSUME NEW z \in Zones PROVE \E p \in Moments(a, b) : p[1] = x /\ p[2] = y + z * Second
      OBVIOUS
    <3>1. <<x, y + z * Second>> \in Moments(a, b)
      BY <2>1, Zenon
    <3> QED
      BY <3>1, Zenon
  <2>5. xsd_tmcmp(a, b) =
          IF x > y + TZSECS * Second THEN 1 ELSE IF x < y + (-TZSECS) * Second THEN -1 ELSE 2
    BY <2>2, ComparedWithZone, Zenon
  <2> HIDE DEF x, y
  <2>6. /\ (\A p \in Moments(a, b) : p[1] < p[2]) <=> \A z \in Zones : x < y + z * Second
        /\ (\A p \in Moments(a, b) : p[1] > p[2]) <=> \A z \in Zones : x > y + z * Second
        /\ (\A p \in Moments(a, b) : p[1] = p[2]) <=> \A z \in Zones : x = y + z * Second
    BY <2>3, <2>4, Zenon
  <2>7. x \in Int /\ y \in Int
    BY <1>1 DEF x, y
  <2>8. ~(x > y + TZSECS * Second /\ x < y + (-TZSECS) * Second)
    BY <2>7, SMT DEF TZSECS, Second
  <2> DEFINE lt == x < y + (-TZSECS) * Second
             gt == x > y + TZSECS * Second
  <2>9. /\ (\A p \in Moments(a, b) : p[1] < p[2]) <=> lt
        /\ (\A p \in Moments(a, b) : p[1] > p[2]) <=> gt
        /\ ~\A p \in Moments(a, b) : p[1] = p[2]
    BY <2>6, <2>7, EndsDecide, Zenon
  <2>10. xsd_tmcmp(a, b) = IF gt THEN 1 ELSE IF lt THEN -1 ELSE 2
    BY <2>5, Zenon
  <2>11. ~(gt /\ lt)
    BY <2>8, Zenon
  <2> HIDE DEF lt, gt
  <2>12. CASE gt
    BY <2>9, <2>10, <2>11, <2>12, SMT
  <2>13. CASE lt /\ ~gt
    BY <2>9, <2>10, <2>11, <2>13, SMT
  <2>14. CASE ~lt /\ ~gt
    BY <2>9, <2>10, <2>11, <2>14, SMT
  <2> QED
    BY <2>12, <2>13, <2>14, Zenon
<1>5. CASE a.tz = FALSE /\ b.tz = TRUE
  <2>1. Moments(a, b) = {<<Moment(a) + z * Second, Moment(b)>> : z \in Zones}
    BY <1>5, SMT DEF Moments
  <2>2. xsd_tmcmp(a, b) = -CompareZoned(b, a)
    BY <1>5, SMT DEF xsd_tmcmp
  <2> DEFINE x == Moment(b)  y == Moment(a)
  <2>3. \A p \in Moments(a, b) : \E z \in Zones : p[2] = x /\ p[1] = y + z * Second
    BY <2>1, SMT
  <2>4. \A z \in Zones : \E p \in Moments(a, b) : p[2] = x /\ p[1] = y + z * Second
    <3> SUFFICES ASSUME NEW z \in Zones PROVE \E p \in Moments(a, b) : p[2] = x /\ p[1] = y + z * Second
      OBVIOUS
    <3>1. <<y + z * Second, x>> \in Moments(a, b)
      BY <2>1, Zenon
    <3> QED
      BY <3>1, Zenon
  <2>5. xsd_tmcmp(a, b) =
          -(IF x > y + TZSECS * Second THEN 1 ELSE IF x < y + (-TZSECS) * Second THEN -1 ELSE 2)
    BY <2>2, ComparedWithZone, Zenon
  <2> HIDE DEF x, y
  <2>6. /\ (\A p \in Moments(a, b) : p[1] > p[2]) <=> \A z \in Zones : x < y + z * Second
        /\ (\A p \in Moments(a, b) : p[1] < p[2]) <=> \A z \in Zones : x > y + z * Second
        /\ (\A p \in Moments(a, b) : p[1] = p[2]) <=> \A z \in Zones : x = y + z * Second
    BY <2>3, <2>4, Zenon
  <2>7. x \in Int /\ y \in Int
    BY <1>1 DEF x, y
  <2>8. ~(x > y + TZSECS * Second /\ x < y + (-TZSECS) * Second)
    BY <2>7, SMT DEF TZSECS, Second
  <2> DEFINE lt == x < y + (-TZSECS) * Second
             gt == x > y + TZSECS * Second
  <2>9. /\ (\A p \in Moments(a, b) : p[1] > p[2]) <=> lt
        /\ (\A p \in Moments(a, b) : p[1] < p[2]) <=> gt
        /\ ~\A p \in Moments(a, b) : p[1] = p[2]
    BY <2>6, <2>7, EndsDecide, Zenon
  <2>10. xsd_tmcmp(a, b) = -(IF gt THEN 1 ELSE IF lt THEN -1 ELSE 2)
    BY <2>5, Zenon
  <2>11. ~(gt /\ lt)
    BY <2>8, Zenon
  <2> HIDE DEF lt, gt
  <2>12. CASE gt
    <3>1. xsd_tmcmp(a, b) = -1
      BY <2>10, <2>12, SMT
    <3> QED
      BY <2>9, <2>11, <2>12, <3>1, SMT
  <2>13. CASE lt /\ ~gt
    <3>1. xsd_tmcmp(a, b) = -(-1)
      BY <2>10, <2>13, Zenon
    <3>2. /\ -1 \in Int /\ -1 = 0 - 1 /\ 0 - (0 - 1) = 1
          /\ \A n \in Int : -n = 0 - n
      BY SMT
    <3>3. xsd_tmcmp(a, b) = 1
      BY <3>1, <3>2, Zenon
    <3> QED
      BY <2>9, <2>13, <3>3, SMT
  <2>14. CASE ~lt /\ ~gt
    <3>1. xsd_tmcmp(a, b) = -2
      BY <2>10, <2>14, SMT
    <3> QED
      BY <2>9, <2>14, <3>1, SMT
  <2> QED
    BY <2>12, <2>13, <2>14, Zenon
<1> QED
  BY <1>2, <1>3, <1>4, <1>5, Zenon
=============================================================================
