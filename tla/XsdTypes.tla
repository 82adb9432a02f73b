----------------------------- MODULE XsdTypes ------------------------------
(***************************************************************************)
(* The tables of xsd.c: the types of XML Schema, their facets, the         *)
(* expressions of their lexical forms, the fields of times, and how their  *)
(* values are compared.                                                    *)
(*                                                                         *)
(* Names and expressions are strings; values are sequences of characters.  *)
(***************************************************************************)
EXTENDS Lexical, XsdTime

INT_MAX == 2147483647

-----------------------------------------------------------------------------
(* Times: from a text to days, seconds and microseconds (xsd_tm.c).        *)

\* strtod on seconds: whole seconds and microseconds, to six digits.
Fraction(whole, part) ==
  [secs |-> whole.value,
   mics |-> NumberOf([i \in 1 .. 6 |-> IF i <= Len(part) THEN part[i] ELSE "0"]),
   rest |-> SubSeq(whole.rest, Len(part) + 2, Len(whole.rest))]

WithFraction(whole) ==
  IF whole.rest # <<>> /\ whole.rest[1] = "."
  THEN Fraction(whole, Leading(Tail(whole.rest)))
  ELSE [secs |-> whole.value, mics |-> 0, rest |-> whole.rest]

Seconds(s) == WithFraction(strtol(s))

Drop(s) == IF s = <<>> THEN s ELSE Tail(s)

\* xsd_mktmn: the fields that fmt names, in its order; zh = 15 says that no zone was read.
RECURSIVE Scan(_, _, _)

Named == [y |-> "yr", m |-> "mo", d |-> "dy"]

\* A field, the minutes of a zone after its hours, and the parts of a time of day.
Take(fmt, n, t) == Scan(Tail(fmt), n.rest, [t EXCEPT ![Named[fmt[1]]] = n.value])

ZoneMinutes(fmt, sign, h, m, t) ==
  Scan(Tail(fmt), m.rest, [t EXCEPT !.zh = sign * h.value, !.zm = sign * m.value])
Zone(fmt, sign, h, t) == ZoneMinutes(fmt, sign, h, strtol(Drop(h.rest)), t)

AndSeconds(fmt, h, m, s, t) ==
  Scan(Tail(fmt), s.rest, [t EXCEPT !.hr = h.value, !.mi = m.value, !.secs = s.secs, !.mics = s.mics])
Minutes(fmt, h, m, t) == AndSeconds(fmt, h, m, Seconds(Drop(m.rest)), t)
TimeOf(fmt, h, t)     == Minutes(fmt, h, strtol(Drop(h.rest)), t)

Scan(fmt, s, t) ==
  LET f == fmt[1]
  IN  CASE s = <<>> \/ fmt = <<>>                  -> t
        [] s[1] = "Z"                              -> Scan(Tail(fmt), Tail(s), [t EXCEPT !.zh = 0, !.zm = 0])
        [] s[1] = "+" \/ (s[1] = "-" /\ f = "z")  ->
             Zone(fmt, IF s[1] = "+" THEN -1 ELSE 1, strtol(Tail(s)), t)
        [] s[1] \in Digit /\ f = "t"               -> TimeOf(fmt, strtol(s), t)
        [] (s[1] \in Digit /\ f \in DOMAIN Named) \/ (s[1] = "-" /\ f = "y") -> Take(fmt, strtol(s), t)
        [] OTHER -> Scan(IF s[1] \in Digit THEN Tail(fmt) ELSE fmt, Tail(s), t)

Read(fmt, s) ==
  Scan(fmt, s, [yr |-> 2000, mo |-> 1, dy |-> 1, hr |-> 0, mi |-> 0, secs |-> 0, mics |-> 0, zh |-> 15, zm |-> 0])

Zoned(tm, secs) == IF tm.tz THEN AddSecs(tm, secs) ELSE tm

FromFields(t) ==
  Zoned([days |-> ymd2ds(t.yr, t.mo, t.dy), secs |-> t.secs + 60 * (t.mi + 60 * t.hr),
         mics |-> t.mics, tz |-> t.zh # 15], 60 * (t.zm + 60 * t.zh))

xsd_mktm(fmt, s) == FromFields(Read(fmt, s))

-----------------------------------------------------------------------------
(* Expressions of the lexical forms.                                       *)

PAT_ORDINAL      == "([0-9]+)"
PAT_FRACTIONAL   == "(\\.[0-9]+)"
PAT_DECIMAL      == "(" \o PAT_ORDINAL \o "\\.?|" \o PAT_ORDINAL \o "?" \o PAT_FRACTIONAL \o ")"

PAT_POSITIVE     == "\\+?" \o PAT_ORDINAL
PAT_NON_NEGATIVE == "\\+?" \o PAT_ORDINAL
PAT_NON_POSITIVE == "\\-" \o PAT_ORDINAL \o "|0+"
PAT_NEGATIVE     == "\\-" \o PAT_ORDINAL
PAT_INTEGER      == "([+\\-]?" \o PAT_ORDINAL \o ")"

PAT_FIXED        == "([+\\-]?" \o PAT_DECIMAL \o ")"
PAT_FLOATING     == PAT_FIXED \o "([Ee]" \o PAT_INTEGER \o ")?|INF|-INF|NaN"

PAT_HEX_BINARY   == "[0-9a-fA-F]+"

PAT_BASE64        == "([A-Za-z0-9+/] ?)"
PAT_BASE64_2      == "([AQgw] ?)"
PAT_BASE64_1      == "([AEIMQUYcgkosw048] ?)"
PAT_BASE64_BINARY ==
  "(" \o PAT_BASE64 \o "{4})*"
    \o "(" \o PAT_BASE64 \o PAT_BASE64_2 \o "= ?="
    \o "|" \o PAT_BASE64 \o "{2}" \o PAT_BASE64_1 \o "=)?"

PAT_ANY_URI ==
  "(([a-zA-Z][0-9a-zA-Z+\\-\\.]*:)?/{0,2}[0-9a-zA-Z;/?:@&=+$\\.\\-_!~*'()%]+)?(#[0-9a-zA-Z;/?:@&=+$\\.\\-_!~*'()%]+)?"

PAT_NCNAME   == "[\\i-[:]][\\c-[:]]*"
PAT_QNAME    == "(" \o PAT_NCNAME \o ":)?" \o PAT_NCNAME
PAT_NMTOKEN  == "\\c+"
PAT_NAME     == "\\i\\c*"
PAT_NCNAMES  == PAT_NCNAME \o "( " \o PAT_NCNAME \o ")*"
PAT_NMTOKENS == PAT_NMTOKEN \o "( " \o PAT_NMTOKEN \o ")*"

PAT_LANGUAGE == "([a-zA-Z]{1,8}(-[a-zA-Z0-9]{1,8})*)"

PAT_DURAY    == "(" \o PAT_ORDINAL \o "Y)"
PAT_DURAM    == "(" \o PAT_ORDINAL \o "M)"
PAT_DURAD    == "(" \o PAT_ORDINAL \o "D)"
PAT_DURADATE ==
  "(" \o PAT_DURAY \o PAT_DURAM \o "?" \o PAT_DURAD \o "?"
    \o "|" \o PAT_DURAY \o "?" \o PAT_DURAM \o PAT_DURAD \o "?"
    \o "|" \o PAT_DURAY \o "?" \o PAT_DURAM \o "?" \o PAT_DURAD \o ")"
PAT_DURAH    == "(" \o PAT_ORDINAL \o "H)"
PAT_DURAS    == "(" \o PAT_DECIMAL \o "S)"
PAT_DURATIME ==
  "(T(" \o PAT_DURAH \o PAT_DURAM \o "?" \o PAT_DURAS \o "?"
    \o "|" \o PAT_DURAM \o "?" \o PAT_DURAM \o PAT_DURAS \o "?"
    \o "|" \o PAT_DURAS \o "?" \o PAT_DURAM \o "?" \o PAT_DURAS \o "))"
PAT_DURATION == "-?P(" \o PAT_DURADATE \o PAT_DURATIME \o "|" \o PAT_DURADATE \o "|" \o PAT_DURATIME \o ")"

PAT_ZONE       == "(Z|[+\\-](0[0-9]|1[0-4]):[0-5][0-9])"
PAT_YEAR0      == "[0-9]{4,}"
PAT_MONTH0     == "(0[1-9]|1[0-2])"
PAT_DAY0       == "([0-2][0-9]|3[01])"
PAT_YEAR       == "-?" \o PAT_YEAR0 \o PAT_ZONE \o "?"
PAT_MONTH      == "--" \o PAT_MONTH0 \o PAT_ZONE \o "?"
PAT_DAY        == "---" \o PAT_DAY0 \o PAT_ZONE \o "?"
PAT_YEAR_MONTH == "-?" \o PAT_YEAR0 \o "-" \o PAT_MONTH0 \o PAT_ZONE \o "?"
PAT_MONTH_DAY  == "--" \o PAT_MONTH0 \o "-" \o PAT_DAY0 \o PAT_ZONE \o "?"
PAT_DATE0      == PAT_YEAR0 \o "-" \o PAT_MONTH0 \o "-" \o PAT_DAY0
PAT_TIME0      == "([0-1][0-9]|2[0-3]):[0-5][0-9]:([0-5][0-9]|60)" \o PAT_FRACTIONAL \o "?"
PAT_DATE       == "-?" \o PAT_DATE0 \o PAT_ZONE \o "?"
PAT_TIME       == PAT_TIME0 \o PAT_ZONE \o "?"
PAT_DATE_TIME  == "-?" \o PAT_DATE0 \o "T" \o PAT_TIME0 \o PAT_ZONE \o "?"

-----------------------------------------------------------------------------
(* Types.                                                                  *)

typtab ==
  <<"ENTITIES", "ENTITY", "ID", "IDREF", "IDREFS", "NCName", "NMTOKEN", "NMTOKENS",
    "NOTATION", "Name", "QName", "anyURI", "base64Binary", "boolean", "byte", "date",
    "dateTime", "decimal", "double", "duration", "float", "gDay", "gMonth",
    "gMonthDay", "gYear", "gYearMonth", "hexBinary", "int", "integer", "language",
    "long", "negativeInteger", "nonNegativeInteger", "nonPositiveInteger",
    "normalizedString", "positiveInteger", "short", "string", "time", "token",
    "unsignedByte", "unsignedInt", "unsignedLong", "unsignedShort">>

fcttab ==
  <<"enumeration", "fractionDigits", "length", "maxExclusive", "maxInclusive", "maxLength",
    "minExclusive", "minInclusive", "minLength", "pattern", "totalDigits", "whiteSpace">>

TypeNames  == Chars(typtab)
FacetNames == Chars(fcttab)

AtLeast(min)      == [minInclusive |-> min]
AtMost(max)       == [maxInclusive |-> max]
Between(min, max) == [minInclusive |-> min, maxInclusive |-> max]
NoFacets          == [f \in {} |-> ""]

\* What a type derived from decimal adds to it: an expression and bounds.
Derived == [
  integer            |-> <<PAT_INTEGER, NoFacets>>,
  positiveInteger    |-> <<PAT_POSITIVE, AtLeast("1")>>,
  nonNegativeInteger |-> <<PAT_NON_NEGATIVE, AtLeast("0")>>,
  nonPositiveInteger |-> <<PAT_NON_POSITIVE, AtMost("0")>>,
  negativeInteger    |-> <<PAT_NEGATIVE, AtMost("-1")>>,
  byte               |-> <<PAT_INTEGER, Between("-128", "127")>>,
  unsignedByte       |-> <<PAT_NON_NEGATIVE, Between("0", "255")>>,
  short              |-> <<PAT_INTEGER, Between("-32768", "32767")>>,
  unsignedShort      |-> <<PAT_NON_NEGATIVE, Between("0", "65535")>>,
  int                |-> <<PAT_INTEGER, Between("-2147483648", "2147483647")>>,
  unsignedInt        |-> <<PAT_NON_NEGATIVE, Between("0", "4294967295")>>,
  long               |-> <<PAT_INTEGER, Between("-9223372036854775808", "9223372036854775807")>>,
  unsignedLong       |-> <<PAT_NON_NEGATIVE, Between("0", "18446744073709551615")>>]

Primitive(typ) == IF typ \in DOMAIN Derived THEN "decimal" ELSE typ

\* The expression that a type is matched with last, if it has one.
Form == [
  boolean |-> "true|false|1|0", decimal |-> PAT_FIXED, float |-> PAT_FLOATING, double |-> PAT_FLOATING,
  duration |-> PAT_DURATION, dateTime |-> PAT_DATE_TIME, date |-> PAT_DATE, time |-> PAT_TIME,
  gYearMonth |-> PAT_YEAR_MONTH, gYear |-> PAT_YEAR, gMonthDay |-> PAT_MONTH_DAY, gDay |-> PAT_DAY,
  gMonth |-> PAT_MONTH, hexBinary |-> PAT_HEX_BINARY, base64Binary |-> PAT_BASE64_BINARY,
  anyURI |-> PAT_ANY_URI, QName |-> PAT_QNAME, NOTATION |-> PAT_QNAME, language |-> PAT_LANGUAGE,
  NMTOKEN |-> PAT_NMTOKEN, NMTOKENS |-> PAT_NMTOKENS, Name |-> PAT_NAME, NCName |-> PAT_NCNAME,
  ID |-> PAT_NCNAME, IDREF |-> PAT_NCNAME, IDREFS |-> PAT_NCNAMES, ENTITY |-> PAT_NCNAME,
  ENTITIES |-> PAT_NCNAMES]

\* The fields of the types of time.
Format == [
  dateTime |-> Explode("ymdtz"), date |-> Explode("ymdz"), time |-> Explode("tz"),
  gYearMonth |-> Explode("ymz"), gYear |-> Explode("yz"), gMonthDay |-> Explode("mdz"),
  gDay |-> Explode("dz"), gMonth |-> Explode("mz")]

\* The function that matches, by the white space of the type.
Match(typ) ==
  CASE typ = "string"           -> "match"
    [] typ = "normalizedString" -> "rmatch"
    [] OTHER                    -> "cmatch"

length(typ, s) ==
  CASE typ \in {"string", "normalizedString"}      -> Len(s)
    [] typ = "hexBinary"                           -> (toklenn(s) + 1) \div 2
    [] typ = "base64Binary"                        -> b64lenn(s)
    [] typ \in {"NMTOKENS", "IDREFS", "ENTITIES"}  -> tokcntn(s)
    [] typ \in {"anyURI", "token", "language", "NMTOKEN", "Name", "NCName", "ID", "IDREF", "ENTITY"} -> toklenn(s)
    [] OTHER                                       -> INT_MAX
-----------------------------------------------------------------------------
(* Values.                                                                 *)

\* atof, in hundredths: the digits before an exponent, moved by it.
Cents == 2

Scaled(sign, n, shift) == sign * (IF shift >= 0 THEN n * 10 ^ shift ELSE n \div 10 ^ (-shift))

Moved(d, exponent) ==
  Scaled(IF d.plus THEN 1 ELSE -1, NumberOf(d.whole \o d.part), Cents - Len(d.part) + exponent)

UpToMark(s, mark) == Moved(Anchored(SubSeq(s, 1, mark - 1)), strtol(SubSeq(s, mark + 1, Len(s))).value)

atof(s) ==
  IF Chars(s) \subseteq Digit \cup Blanks \cup {"+", "-", ".", "e", "E"}
  THEN UpToMark(s, FirstOf(s, 1, {"e", "E"}))
  ELSE 0

IsName(name, s) == s_tokeq(Explode(name), s)

\* atodn
HUGE_VAL == 1000000
atod(s) == CASE IsName("-INF", s) -> -HUGE_VAL
             [] IsName("INF", s)  -> HUGE_VAL
             [] OTHER             -> atof(s)

\* chkdbl, dblcmpn: no order with what is not a number.
dblcmp(s1, s2) ==
  IF IsName("NaN", s1) \/ IsName("NaN", s2) THEN Unknown ELSE Sign(atod(s1) - atod(s2))

IsTrue(s) == IsName("true", s) \/ IsName("1", s)

\* The comparisons of xsd_equal.
SameValue(typ, val, s) ==
  CASE typ = "string"                 -> s_cmpn(val, s) = 0
    [] typ = "boolean"                -> IsTrue(val) = IsTrue(s)
    [] Primitive(typ) = "decimal"     -> deccmp(val, s) = 0
    [] typ \in {"float", "double"}    -> s_tokeq(val, s) \/ dblcmp(val, s) = 0
    [] typ = "duration"               -> duraeq(val, s)
    [] typ \in DOMAIN Format          -> xsd_tmcmp(xsd_mktm(Format[typ], val), xsd_mktm(Format[typ], s)) = 0
    [] typ = "hexBinary"              -> hexeq(val, s)
    [] typ = "base64Binary"           -> b64eq(val, s)
    [] typ \in {"QName", "NOTATION"}  -> qneq(val, s)
    [] typ = "normalizedString"       -> nrmeq(val, s)
    [] OTHER                          -> s_tokeq(val, s)
=============================================================================
