----------------------------- MODULE XsdValues -----------------------------
(***************************************************************************)
(* What XML Schema says of the types that the runs use: lexical forms,     *)
(* values, lengths and order, without expressions and character by         *)
(* character comparisons.  Where xsd.c departs from it is said in MCXsd,   *)
(* not here.  Values are those of numbers with two places after the point  *)
(* and of times in the years 1999 to 2001 with tenths of seconds; of a     *)
(* duration the form is not looked at.                                     *)
(***************************************************************************)
EXTENDS Characters, FiniteSets

LOCAL INSTANCE SequencesExt
LOCAL INSTANCE FiniteSetsExt

CONSTANT NameChar   \* the characters of names

D == INSTANCE Datatypes

Replaced(s)  == [i \in DOMAIN s |-> IF xmlc_white_space(s[i]) THEN " " ELSE s[i]]
Tokens(s)    == D!Words(Replaced(s))
Collapsed(s) == FoldLeft(LAMBDA w, t : IF w = <<>> THEN t ELSE w \o <<" ">> \o t, <<>>, Tokens(s))

Over(set, w)  == \A i \in DOMAIN w : w[i] \in set
Digits(w)     == w # <<>> /\ Over(Digit, w)
Cut(w, i, j)  == SubSeq(w, i, j)
Is(w, string) == w = Explode(string)

-----------------------------------------------------------------------------
(* Numbers.                                                                *)
Unsigned(w) == IF w # <<>> /\ w[1] \in {"+", "-"} THEN Tail(w) ELSE w

IsInteger(w) == Digits(Unsigned(w))
IsDecimal(w) ==
  LET u == Unsigned(w)
  IN  Digits(u) \/ \E i \in DOMAIN u : u[i] = "." /\ Len(u) > 1 /\ Over(Digit, Cut(u, 1, i - 1) \o Cut(u, i + 1, Len(u)))

\* In hundredths.
Decimal(w) ==
  LET u     == Unsigned(w)
      dots  == {i \in DOMAIN u : u[i] = "."}
      whole == IF dots = {} THEN u ELSE Cut(u, 1, Min(dots) - 1)
      part  == IF dots = {} THEN <<>> ELSE Cut(u, Min(dots) + 1, Len(u))
      Digit2(i) == IF i <= Len(part) THEN DigitValue(part[i]) ELSE 0
      n     == 100 * NumberOf(whole) + 10 * Digit2(1) + Digit2(2)
  IN  IF w[1] = "-" THEN -n ELSE n

Exponents(w) == {i \in DOMAIN w : w[i] \in {"e", "E"}}
IsDouble(w) ==
  \/ Is(w, "INF") \/ Is(w, "-INF") \/ Is(w, "NaN") \/ IsDecimal(w)
  \/ \E i \in Exponents(w) : IsDecimal(Cut(w, 1, i - 1)) /\ IsInteger(Cut(w, i + 1, Len(w)))

Power(n, e) == IF e >= 0 THEN n * 10 ^ e ELSE n \div 10 ^ (-e)
Double(w) ==
  CASE Is(w, "INF")    -> 10000000
    [] Is(w, "-INF")   -> -10000000
    [] Exponents(w) # {} ->
         LET i == Min(Exponents(w))
             e == Decimal(Cut(w, i + 1, Len(w))) \div 100
         IN  Power(Decimal(Cut(w, 1, i - 1)), e)
    [] OTHER           -> Decimal(w)

\* The values of the types derived from decimal.
Integers == [integer |-> -99999 .. 99999, positiveInteger |-> 1 .. 99999, nonPositiveInteger |-> -99999 .. 0,
             negativeInteger |-> -99999 .. -1, byte |-> -128 .. 127, unsignedByte |-> 0 .. 255]

-----------------------------------------------------------------------------
(* Times.                                                                  *)

\* The zone at the end: none, Z, or an offset.
ZoneLength(w) ==
  LET n == Len(w)
  IN  CASE w # <<>> /\ w[n] = "Z" -> 1
        [] n > 6 /\ w[n - 2] = ":" /\ w[n - 5] \in {"+", "-"} -> 6
        [] OTHER -> 0
Local(w)   == Cut(w, 1, Len(w) - ZoneLength(w))
Offset(w) ==    \* in minutes
  LET n == Len(w)
      m == 60 * NumberOf(Cut(w, n - 4, n - 3)) + NumberOf(Cut(w, n - 1, n))
  IN  IF ZoneLength(w) = 6 THEN IF w[n - 5] = "-" THEN -m ELSE m ELSE 0

\* Whether it is one, at most so many minutes away.
ZoneWithin(w, farthest) ==
  ZoneLength(w) = 6 =>
    LET n == Len(w)
    IN  /\ Digits(Cut(w, n - 4, n - 3)) /\ Digits(Cut(w, n - 1, n)) /\ NumberOf(Cut(w, n - 1, n)) < 60
        /\ Offset(w) \in -farthest .. farthest

MonthLength(y, m) ==
  CASE m = 2 -> IF (y % 4 = 0 /\ y % 100 # 0) \/ y % 400 = 0 THEN 29 ELSE 28
    [] m \in {4, 6, 9, 11} -> 30
    [] OTHER -> 31

\* The fields of a date; the year may have a sign and any number of digits from four on.
YearDigits(w) == IF w[1] = "-" THEN Cut(w, 2, Len(w) - 6) ELSE Cut(w, 1, Len(w) - 6)
MonthDigits(w) == Cut(w, Len(w) - 4, Len(w) - 3)
DayDigits(w)   == Cut(w, Len(w) - 1, Len(w))

HasDateFields(w) ==
  /\ Len(w) >= 10 /\ w[Len(w) - 5] = "-" /\ w[Len(w) - 2] = "-"
  /\ Digits(YearDigits(w)) /\ Len(YearDigits(w)) >= 4 /\ Digits(MonthDigits(w)) /\ Digits(DayDigits(w))

\* A day of the calendar: there is no year zero, and no zero before more than four digits.
IsDate(w) ==
  LET y == YearDigits(w)  m == NumberOf(MonthDigits(w))
  IN  /\ HasDateFields(w)
      /\ NumberOf(y) > 0 /\ (Len(y) > 4 => y[1] # "0")
      /\ m \in 1 .. 12 /\ NumberOf(DayDigits(w)) \in 1 .. MonthLength(NumberOf(y), m)

Field(w, i, j, set) == j <= Len(w) /\ Digits(Cut(w, i, j)) /\ NumberOf(Cut(w, i, j)) \in set

\* Midnight is also the hour 24.
IsMidnight(w) == Len(w) >= 8 /\ Is(Cut(w, 1, 8), "24:00:00") /\ \A i \in 10 .. Len(w) : w[i] = "0"
IsTime(w) ==
  /\ Field(w, 1, 2, 0 .. 23) \/ IsMidnight(w)
  /\ Field(w, 4, 5, 0 .. 59) /\ Field(w, 7, 8, 0 .. 60)    \* a leap second
  /\ w[3] = ":" /\ w[6] = ":"
  /\ Len(w) > 8 => w[9] = "." /\ Digits(Cut(w, 10, Len(w)))

\* Days since the first of January 2000.
Days(y, m, d) ==
  d - 1 + MapThenSumSet(LAMBDA k : MonthLength(y, k), 1 .. m - 1)
    + (CASE y = 1999 -> -365 [] y = 2000 -> 0 [] y = 2001 -> 366)

TimeOfDay(w) ==    \* in tenths of seconds
  10 * (3600 * NumberOf(Cut(w, 1, 2)) + 60 * NumberOf(Cut(w, 4, 5)) + NumberOf(Cut(w, 7, 8)))
    + (IF Len(w) > 8 THEN DigitValue(w[10]) ELSE 0)
Midnight(w) == 864000 * Days(NumberOf(Cut(w, 1, 4)), NumberOf(Cut(w, 6, 7)), NumberOf(Cut(w, 9, 10)))

\* The other types are dates whose missing fields have the first value.
FirstDate(typ, w) ==
  CASE typ = "date"       -> w
    [] typ = "gYear"      -> w \o Explode("-01-01")
    [] typ = "gYearMonth" -> w \o Explode("-01")
    [] typ = "gMonth"     -> Explode("2000") \o Cut(w, 2, Len(w)) \o Explode("-01")
    [] typ = "gMonthDay"  -> Explode("2000") \o Cut(w, 2, Len(w))
    [] typ = "gDay"       -> Explode("2000-01") \o Cut(w, 3, Len(w))

Hyphens == [gMonth |-> "--", gMonthDay |-> "--", gDay |-> "---"]
Dates   == {"date", "gYear", "gYearMonth"} \cup DOMAIN Hyphens
TimeTypes == Dates \cup {"time", "dateTime"}

\* The forms of times that are built of these dates and times of day, with these zones.
TimeForm(typ, w, Date(_), Time(_), farthest) ==
  LET t == Local(w)
  IN  /\ ZoneWithin(w, farthest)
      /\ CASE typ = "time"     -> Time(t)
           [] typ = "dateTime" -> \E i \in DOMAIN t : t[i] = "T" /\ Date(Cut(t, 1, i - 1)) /\ Time(Cut(t, i + 1, Len(t)))
           [] OTHER -> /\ typ \in DOMAIN Hyphens => Is(Cut(t, 1, Len(Hyphens[typ])), Hyphens[typ])
                       /\ Date(FirstDate(typ, t))
LocalTime(typ, w) ==
  CASE typ \in Dates     -> Midnight(FirstDate(typ, w))
    [] typ = "time"     -> TimeOfDay(w)
    [] typ = "dateTime" -> Midnight(w) + TimeOfDay(Cut(w, 12, Len(w)))

\* The moments that a value may be: without a zone, it may be of any from -14 to 14 hours.
Moments(typ, w) ==
  LET t == LocalTime(typ, Local(w))
  IN  IF ZoneLength(w) > 0 THEN {t - 600 * Offset(w)} ELSE {t - 36000 * zone : zone \in -14 .. 14}

\* The order of times is partial: what holds of all moments.
Certainly(typ, Rel(_, _), w1, w2) ==
  IF ZoneLength(w1) = 0 /\ ZoneLength(w2) = 0
  THEN Rel(LocalTime(typ, Local(w1)), LocalTime(typ, Local(w2)))
  ELSE \A t1 \in Moments(typ, w1), t2 \in Moments(typ, w2) : Rel(t1, t2)

-----------------------------------------------------------------------------
(* Octets.                                                                 *)
HexDigit == Digit \cup CharsOf("abcdefABCDEF")
Upcase(c) == IF c \in Lower THEN CHOOSE u \in Upper : Code[u] = Code[c] - 32 ELSE c

Base64 == Explode("ABCDEFGHIJKLMNOPQRSTUVWXYZabcdefghijklmnopqrstuvwxyz0123456789+/")
Sextet(c) == (CHOOSE i \in DOMAIN Base64 : Base64[i] = c) - 1
Dense(w) == SelectSeq(w, LAMBDA c : c # " ")
Pads(w) == Cardinality({i \in DOMAIN w : w[i] = "="})

\* Groups of four; the bits before the padding that make no octet are zero.
IsBase64(w) ==
  LET b == Dense(w)
      n == Len(b) - Pads(w)
  IN  /\ Len(b) % 4 = 0 /\ Pads(w) <= 2
      /\ \A i \in 1 .. n : b[i] \in ToSet(Base64)
      /\ \A i \in n + 1 .. Len(b) : b[i] = "="
      /\ Pads(w) = 1 => Sextet(b[n]) % 4 = 0
      /\ Pads(w) = 2 => Sextet(b[n]) % 16 = 0

-----------------------------------------------------------------------------
(* Durations: months and hundredths of seconds.                            *)
DurationField(w, letter, time) ==    \* the number before a letter, in hundredths
  LET t  == Min({Len(w) + 1} \cup {i \in DOMAIN w : w[i] = "T"})
      at == {i \in DOMAIN w : w[i] = letter /\ (time <=> i > t)}
      Number(i) == CHOOSE j \in 1 .. i - 1 : Over(Digit \cup {"."}, Cut(w, j, i - 1)) /\ w[j - 1] \notin Digit \cup {"."}
  IN  IF at = {} THEN 0 ELSE Decimal(Cut(w, Number(Min(at)), Min(at) - 1))
Duration(w) ==
  LET sign == IF w[1] = "-" THEN -1 ELSE 1
      F(letter, time) == sign * DurationField(w, letter, time)
  IN  <<12 * F("Y", FALSE) + F("M", FALSE),
        86400 * F("D", FALSE) + 3600 * F("H", TRUE) + 60 * F("M", TRUE) + F("S", TRUE)>>

-----------------------------------------------------------------------------
(* Types: forms of collapsed texts, equality of values, lengths.           *)
IsNCName(w) == Over(NameChar \ {":"}, w) /\ w # <<>> /\ w[1] \notin Digit \cup {"-", "."}

IsForm(typ, w) ==
  CASE typ \in {"string", "normalizedString", "token", "duration"} -> TRUE
    [] typ = "boolean"           -> \E b \in {"true", "false", "1", "0"} : Is(w, b)
    [] typ = "decimal"           -> IsDecimal(w)
    [] typ \in DOMAIN Integers   -> IsInteger(w) /\ Decimal(w) \div 100 \in Integers[typ]
    [] typ \in {"float", "double"} -> IsDouble(w)
    [] typ \in TimeTypes         -> TimeForm(typ, w, IsDate, IsTime, 14 * 60)
    [] typ = "hexBinary"         -> Over(HexDigit, w) /\ Len(w) % 2 = 0
    [] typ = "base64Binary"      -> IsBase64(w)
    [] typ = "NMTOKENS"          -> w # <<>> /\ Over(NameChar \cup {" "}, w)
    [] typ = "NCName"            -> IsNCName(w)
    [] typ = "QName"             ->
         LET colons == {i \in DOMAIN w : w[i] = ":"}
         IN  \/ IsNCName(w)
             \/ colons # {} /\ IsNCName(Cut(w, 1, Min(colons) - 1)) /\ IsNCName(Cut(w, Min(colons) + 1, Len(w)))
    [] typ = "IDREFS"            -> w # <<>> /\ \A t \in ToSet(Tokens(w)) : IsNCName(t)

LocalName(w) == Cut(w, 1 + Max({0} \cup {i \in DOMAIN w : w[i] = ":"}), Len(w))    \* what a prefix stands for is not known

Same(typ, v, w) ==
  CASE typ = "string"            -> v = w
    [] typ = "normalizedString"  -> Replaced(v) = Replaced(w)
    [] OTHER ->
         LET a == Collapsed(v)  b == Collapsed(w)
         IN  CASE typ = "boolean"        -> Is(a, "true") \/ Is(a, "1") <=> Is(b, "true") \/ Is(b, "1")
               [] typ = "decimal" \/ typ \in DOMAIN Integers -> Decimal(a) = Decimal(b)
               [] typ \in {"float", "double"} ->
                    a = b \/ ({a, b} \cap {Explode("NaN")} = {} /\ Double(a) = Double(b))
               [] typ \in TimeTypes      -> Certainly(typ, LAMBDA x, y : x = y, a, b)
               [] typ = "duration"       -> Duration(a) = Duration(b)
               [] typ = "hexBinary"      -> [i \in DOMAIN a |-> Upcase(a[i])] = [i \in DOMAIN b |-> Upcase(b[i])]
               [] typ = "base64Binary"   -> Dense(a) = Dense(b)
               [] typ = "QName"          -> LocalName(a) = LocalName(b)
               [] OTHER                  -> a = b

Size(typ, w) ==
  CASE typ \in {"string", "normalizedString"} -> Len(w)
    [] typ \in {"token", "NCName"} -> Len(Collapsed(w))
    [] typ = "hexBinary"    -> (Len(Collapsed(w)) + 1) \div 2    \* octets begun
    [] typ = "base64Binary" -> (Len(Dense(Collapsed(w))) \div 4) * 3 - Pads(w)
    [] typ \in {"NMTOKENS", "IDREFS"} -> Len(Tokens(w))

\* The order of the types that have one.
Holds(typ, Rel(_, _), w, bound) ==
  CASE typ \in TimeTypes -> Certainly(typ, Rel, w, bound)
    [] typ \in {"float", "double"} ->
         {w, bound} \cap {Explode("NaN")} = {} /\ Rel(Double(w), Double(bound))
    [] OTHER -> Rel(Decimal(w), Decimal(bound))

FractionDigits(w) == LET n == Decimal(w) IN IF n % 100 = 0 THEN 0 ELSE IF n % 10 = 0 THEN 1 ELSE 2
\* The digits of the least whole number that gives the value when its point is moved,
\* and at least as many as it is moved by: .5 has one, .05 two.
TotalDigits(w) ==
  LET n     == IF Decimal(w) < 0 THEN -Decimal(w) ELSE Decimal(w)
      moved == n \div 10 ^ (2 - FractionDigits(w))
  IN  Min({k \in FractionDigits(w) .. 9 : moved < 10 ^ k})

\* A facet, of a value in lexical form; InPattern says what is in an expression.
Satisfies(typ, facet, value, s, InPattern(_, _)) ==
  LET w     == Collapsed(s)
      bound == Explode(value)
      n     == Decimal(Explode(value)) \div 100
  IN  CASE facet = "length"         -> Size(typ, s) = n
        [] facet = "minLength"      -> Size(typ, s) >= n
        [] facet = "maxLength"      -> Size(typ, s) <= n
        [] facet = "fractionDigits" -> FractionDigits(w) <= n
        [] facet = "totalDigits"    -> TotalDigits(w) <= n
        [] facet = "minInclusive"   -> Holds(typ, LAMBDA x, y : x >= y, w, bound)
        [] facet = "maxInclusive"   -> Holds(typ, LAMBDA x, y : x <= y, w, bound)
        [] facet = "minExclusive"   -> Holds(typ, LAMBDA x, y : x > y, w, bound)
        [] facet = "maxExclusive"   -> Holds(typ, LAMBDA x, y : x < y, w, bound)
        [] facet = "pattern" ->
             InPattern(bound, CASE typ = "string" -> s [] typ = "normalizedString" -> Replaced(s) [] OTHER -> w)
=============================================================================
