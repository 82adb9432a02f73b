------------------------------- MODULE MCXsd -------------------------------
(***************************************************************************)
(* Xsd on the expressions of Regex: calls of xsd_allows and xsd_equal one  *)
(* after the other, compared with XsdValues, with RegexLanguage for        *)
(* pattern facets, and with the datatypes that Validator assumes.          *)
(***************************************************************************)
EXTENDS Xsd, FiniteSets

-----------------------------------------------------------------------------
(* Expressions.                                                            *)
Letter    == Upper \cup Lower \cup {"_", ":"}
NameChars == Letter \cup Digit \cup {"-", "."}

Names == {"Nd", "S", "I", "C", "NL"}
In(c, name) ==
  CASE name = "Nd" -> c \in Digit
    [] name = "S"  -> xmlc_white_space(c)
    [] name = "I"  -> c \in Letter
    [] name = "C"  -> c \in NameChars
    [] name = "NL" -> c \in {"\n", "\r"}

R == INSTANCE Regex WITH InClass <- In, ClassNames <- Names, RightToLeft <- TRUE
L == INSTANCE RegexLanguage
V == INSTANCE XsdValues WITH NameChar <- NameChars
D == INSTANCE Datatypes

\* What the calls of Matching answer, as functions of the pattern and the text.
Yes(holds) == IF holds THEN "yes" ELSE "no"

RECURSIVE Found(_, _)
Found(p, s) ==
  CASE p = R!Error                       -> "aborts"
    [] p = R!NotAllowed                  -> "no"
    [] s = <<>> /\ p \notin {R!Error, R!NotAllowed} -> Yes(R!Nullable(p))
    [] OTHER                             -> Found(R!Derivative(p, s[1]), Tail(s))

RECURSIVE Skips(_, _), Reads(_, _)
Skips(p, s) == IF SkipSpace(s) = <<>> THEN Yes(R!Nullable(p)) ELSE Reads(p, SkipSpace(s))
Reads(p, s) ==
  LET q    == R!Derivative(p, IF xmlc_white_space(s[1]) THEN " " ELSE s[1])
      more == Tail(s)
  IN  CASE p = R!NotAllowed             -> "no"
        [] p # R!NotAllowed /\ q = R!Error -> "aborts"
        [] OTHER -> IF xmlc_white_space(s[1])
                    THEN IF q = R!NotAllowed THEN Yes(SkipSpace(more) = <<>>) ELSE Skips(q, more)
                    ELSE IF more = <<>> THEN Skips(q, more) ELSE Reads(q, more)

-----------------------------------------------------------------------------
(* The calls of the runs.                                                  *)
Text(string)  == Explode(string)
Texts(names)  == {Explode(s) : s \in names}

Words == [
  string          |-> Texts({"", "a", " a", "a\tb"}),
  normalizedString |-> Texts({"a b", "a\tb", "a  b", "ab"}),
  token           |-> Texts({"", " ", "a", " a  b", "a \n b", "ab "}),
  boolean         |-> Texts({"true", "1", "false", " 0", "2"}),
  decimal         |-> Texts({"0", "-0.0", "1", "-1.50", "-1.5", "-1.5 ", "+01.05", "10", ".5", "1.", "-12", "--1", ".", " 0"}),
  integer         |-> Texts({"0", "-7", " +7", "07", "7.0", "", "-", "7 ", "7 1", "- "}),
  positiveInteger |-> Texts({"0", "1", "12"}),
  nonPositiveInteger |-> Texts({"0", "1", "-1", "+0"}),
  negativeInteger |-> Texts({"-1", "0", "-12", "-0"}),
  byte            |-> Texts({"-128", "-129", "127", "128", "99"}),
  unsignedByte    |-> Texts({"255", "256", "-1", "-0"}),
  double          |-> Texts({"1", "1.0E0", "10e-1", "INF", "-INF", "NaN", "1E2", "E2"}),
  date            |-> Texts({"2000-02-29", "2000-03-01", "2000-03-01Z", "2000-02-29-05:00", "1999-12-31+14:00", "2000-13-01", " 2000-03-01 ", "2000-03 ",
                             "1999-02-29", "2001-01-00"}),
  time            |-> Texts({"10:00:00", "10:00:00Z", "11:30:00.5+01:30", "10:00:00.5Z", "23:30:00-00:30", "24:00:00", "10:00:00+14:30"}),
  dateTime        |-> Texts({"2000-12-31T23:30:00Z", "2001-01-01T01:00:00+01:30", "2001-01-01T14:00:00", "2001-01-01T13:00:00",
                             "2001-01-01T00:00:00"}),
  gYear           |-> Texts({"1999", "2000Z", "2000", "2000+14:00", "200"}),
  gYearMonth      |-> Texts({"1999-12", "2000-01", "2000-01-01:00", "2000-1"}),
  gMonthDay       |-> Texts({"--12-31", "--02-29Z", "--02-30+14:00", "-02-29"}),
  gMonth          |-> Texts({"--02", "--12Z", "--13"}),
  gDay            |-> Texts({"---01", "---31", "---31Z", "--01", "---00"}),
  duration        |-> Texts({"P1Y", "P1M", "PT1M", "-P1M", "P1Y2M", "P12M", "P2M", "P0Y", "PT0S"}),
  hexBinary       |-> Texts({"0A", "0a", "0f", "F0", "0A1B", "0G", "", "0A1", " 0b"}),
  base64Binary    |-> Texts({"", "AAAA", "AQ==", "AA AA", "AAE=", "AB==", "AAA", "AAAA AQ=="}),
  NMTOKENS        |-> Texts({"", "a", "a b", " a\n b-", "a(b"}),
  NCName          |-> Texts({"a", "a-1", " a", "a:b", "1a", ""}),
  IDREFS          |-> Texts({"a b", "a  b", "a 1", "a"}),
  QName           |-> Texts({"a:b", "b", "c:b", "c", ":b", "a:1"})]

Params == [
  string          |-> {<<>>, <<<<"length", "1">>>>, <<<<"pattern", "a.?">>>>, <<<<"pattern", "\\s?a">>, <<"pattern", "[a ]*">>>>},
  normalizedString |-> {<<<<"maxLength", "3">>>>, <<<<"pattern", "a b">>>>},
  token           |-> {<<>>, <<<<"length", "3">>>>, <<<<"minLength", "2">>, <<"maxLength", "3">>>>, <<<<"pattern", "a( b)?">>>>},
  decimal         |-> {<<>>, <<<<"totalDigits", "2">>>>, <<<<"totalDigits", "1">>>>, <<<<"fractionDigits", "1">>>>,
                       <<<<"minExclusive", "-1.5">>>>, <<<<"minInclusive", "-12">>, <<"maxExclusive", "1">>>>},
  integer         |-> {<<>>, <<<<"maxInclusive", "6">>, <<"pattern", "-?.">>, <<"pattern", "[^0]">>>>},
  positiveInteger |-> {<<>>, <<<<"minInclusive", "2">>>>},
  negativeInteger |-> {<<>>, <<<<"maxInclusive", "0">>>>},
  byte            |-> {<<>>, <<<<"maxInclusive", "200">>>>, <<<<"minExclusive", "-200">>>>},
  unsignedByte    |-> {<<>>, <<<<"minInclusive", "-1">>, <<"maxInclusive", "256">>>>},
  double          |-> {<<>>, <<<<"minInclusive", "1">>>>, <<<<"maxExclusive", "1E2">>>>},
  date            |-> {<<>>, <<<<"minInclusive", "2000-03-01">>>>, <<<<"maxExclusive", "2000-03-01Z">>>>},
  time            |-> {<<>>, <<<<"minExclusive", "10:00:00Z">>>>},
  dateTime        |-> {<<>>, <<<<"maxInclusive", "2000-12-31T23:30:00Z">>>>, <<<<"minExclusive", "2000-12-31T23:30:00Z">>>>},
  hexBinary       |-> {<<>>, <<<<"length", "1">>>>},
  base64Binary    |-> {<<>>, <<<<"length", "3">>>>, <<<<"maxLength", "1">>>>},
  NMTOKENS        |-> {<<>>, <<<<"length", "2">>>>},
  gYear           |-> {<<>>, <<<<"maxExclusive", "2000">>>>},
  gYearMonth      |-> {<<>>, <<<<"maxInclusive", "1999-12">>>>},
  gMonthDay       |-> {<<>>, <<<<"minExclusive", "--03-01">>>>},
  gDay            |-> {<<>>, <<<<"minInclusive", "---31">>>>},
  NCName          |-> {<<>>, <<<<"length", "1">>>>, <<<<"pattern", "a.*">>, <<"maxLength", "2">>>>},
  IDREFS          |-> {<<>>, <<<<"minLength", "2">>>>}]

\* Texts that are not compared with others: no time of the other module has such a year.
Years == [gYear |-> Texts({"0000", "0000Z", "02000"}), date |-> Texts({"0000-01-01"})]

ParamsOf(typ) == IF typ \in DOMAIN Params THEN Params[typ] ELSE {<<>>}

Allow(typ, ps, s)    == [fn |-> "allows", typ |-> typ, ps |-> ps, val |-> <<>>, s |-> s]
Compare(typ, val, s) == [fn |-> "equal", typ |-> typ, ps |-> <<>>, val |-> val, s |-> s]

Faulty == {
  Allow("colour", <<>>, Text("a")), Allow("Token", <<>>, Text("a")), Compare("colour", Text("a"), Text("a")),
  Allow("token", <<<<"size", "1">>>>, Text("a")), Allow("token", <<<<"length", "one">>>>, Text("a")),
  Allow("token", <<<<"minLength", "">>>>, Text("a")), Allow("token", <<<<"whiteSpace", "collapse">>>>, Text("a")),
  Allow("token", <<<<"enumeration", "a">>>>, Text("a")), Compare("integer", Text("one"), Text("1")),
  Allow("integer", <<<<"pattern", "1">>, <<"pattern", "\\d">>, <<"pattern", "1+">>>>, Text("1")),
  Allow("token", <<<<"pattern", "1">>, <<"pattern", "\\d">>, <<"pattern", "1+">>>>, Text("1")),
  Allow("token", <<<<"length", "-1">>>>, Text("a")), Allow("token", <<<<"maxLength", "+1">>>>, Text("a")),
  Allow("integer", <<<<"minExclusive", "10">>, <<"maxInclusive", "9">>>>, Text("5")),
  Allow("date", <<<<"minInclusive", "today">>>>, Text("2000-03-01")),
  Allow("date", <<<<"minInclusive", "today">>>>, Text("yesterday")),
  Allow("date", <<<<"maxExclusive", "tomorrow">>, <<"minExclusive", "2000-03-01">>>>, Text("2000-03-01")),
  Allow("date", <<<<"maxExclusive", "tomorrow">>, <<"minExclusive", "2000-02-29">>>>, Text("2000-03-01"))}

\* Patterns with an error: compiled by the first call, before or after others, or left
\* out because the type refuses the text before.
Broken == {
  Allow("token", <<<<"pattern", "a)">>>>, Text("a")), Allow("token", <<<<"pattern", "a)">>>>, Text("b")),
  Allow("token", <<<<"pattern", "a)">>, <<"pattern", "(">>>>, Text("a")),
  Allow("token", <<<<"pattern", "a">>, <<"pattern", "a)">>>>, Text("a")),
  Allow("token", <<<<"pattern", "a)">>, <<"size", "1">>>>, Text("a")),
  Allow("boolean", <<<<"pattern", "a)">>>>, Text("a")), Allow("boolean", <<<<"pattern", "a)">>>>, Text("1"))}

XsdCalls ==
  UNION {{Allow(typ, ps, s) : ps \in ParamsOf(typ), s \in Words[typ]} : typ \in DOMAIN Words}
    \cup UNION {{Compare(typ, v, s) : v \in Words[typ], s \in Words[typ]} : typ \in DOMAIN Words}
    \cup UNION {{Allow(typ, <<>>, s) : s \in Years[typ]} : typ \in DOMAIN Years}
    \cup Faulty \cup Broken

\* Calls after which the others are made: they leave more or less in the cache.  Most of
\* the faulty ones leave nothing; a bad bound leaves the expression of its type.
Openers == Broken \cup {
  Allow("integer", <<>>, Text("0")), Compare("date", Text("2000-03-01"), Text("2000-03-01Z")),
  Allow("colour", <<>>, Text("a")), Allow("date", <<<<"minInclusive", "today">>>>, Text("2000-03-01")),
  Allow("token", <<<<"pattern", "1">>, <<"pattern", "\\d">>, <<"pattern", "1+">>>>, Text("1"))}

\* Texts of the characters that Datatypes knows.
ShortTexts == UNION {[1 .. n -> {" ", "1"}] : n \in 0 .. 4} \cup UNION {[1 .. n -> {" ", "1", "2", "a"}] : n \in 0 .. 2}

-----------------------------------------------------------------------------
(* The answers of rx.h to the questions that these calls ask.              *)
TextsOf(c) == {c.s, c.val} \cup {Text(c.ps[i][2]) : i \in DOMAIN c.ps}

ExpressionsOf(c) ==
  Chars(Patterns(c.typ, c.ps)) \cup Chars(Patterns(c.typ, <<>>))
    \cup (IF Primitive(c.typ) \in DOMAIN Form THEN {Form[Primitive(c.typ)]} ELSE {})

Questions == UNION {{<<Match(c.typ), rx, s>> : rx \in ExpressionsOf(c), s \in TextsOf(c)} : c \in XsdCalls}
               \cup {"cmatch"} \X {PAT_INTEGER, PAT_FIXED} \X ShortTexts

\* The expression of durations is too long for TLC: all texts compared here are durations.
Compilations == [rx \in {q[2] : q \in Questions} \ {PAT_DURATION} |-> R!Compile(Text(rx))]

Answer(fn, p, s) ==
  CASE fn = "match"  -> Found(p, s)
    [] fn = "rmatch" -> Found(p, V!Replaced(s))
    [] fn = "cmatch" -> Skips(p, s)

Answers == [q \in Questions |->
  IF q[2] = PAT_DURATION THEN Yes(q[3] # <<>>) ELSE Answer(q[1], Compilations[q[2]].p, q[3])]

RxMatches(fn, rx, s) == Answers[<<fn, rx, s>>]
RxMalformed(rx)      == rx \in DOMAIN Compilations /\ Compilations[rx].malformed

\* A third call is made when a malformed pattern is in the cache, and a good expression
\* was compiled after it.
Fresh == Allow("integer", <<>>, Text("0"))

FewCalls ==
  /\ calls = 1 => call \in Openers
  /\ calls = 2 => call = Fresh /\ \E rx \in compiled : RxMalformed(rx)

-----------------------------------------------------------------------------
(* Properties.                                                             *)
Answered == calls > 0 /\ ~aborted

\* No pattern with an error has been compiled: rx.c answers as it should.
Clean == \A rx \in compiled : ~RxMalformed(rx)

(***************************************************************************)
(* Where xsd.c departs from XML Schema, whose forms are those of XsdValues.*)
(***************************************************************************)

\* Any month has the days 00 to 31 (xsd.c:315), there is a year zero (xsd.c:313).
AnyDay(w) ==
  V!HasDateFields(w) /\ NumberOf(V!MonthDigits(w)) \in 1 .. 12 /\ NumberOf(V!DayDigits(w)) \in 0 .. 31

\* A bound that the schema gives takes the place of one of the type, though it lies
\* beyond it (xsd.c:515-518): XML Schema has that as an error of the schema.
Relaxed(typ, ps, w) ==
  LET n     == V!Decimal(w) \div 100
      given == {ps[i][1] : i \in DOMAIN ps}
  IN  /\ V!IsInteger(w)
      /\ (\A k \in V!Integers[typ] : n < k) => "minInclusive" \in given
      /\ (\A k \in V!Integers[typ] : n > k) => "maxInclusive" \in given

\* Forms of xsd.c only: also zones up to 14:59 (xsd.c:312), half an octet (xsd.c:274).
TakenToo(typ, ps, w) ==
  \/ typ \in V!TimeTypes /\ V!TimeForm(typ, w, AnyDay, V!IsTime, 14 * 60 + 59)
  \/ typ = "hexBinary" /\ V!Over(V!HexDigit, w)
  \/ typ \in DOMAIN V!Integers /\ Relaxed(typ, ps, w)

\* Of a number below one, xsd.c counts the zero before its point as a digit (xsd.c:245).
ZeroCounted(ps, w) ==
  /\ V!Decimal(w) \in -99 .. 99 \ {0}
  /\ \E i \in DOMAIN ps : ps[i][1] = "totalDigits" /\ 1 + V!FractionDigits(w) > NumberOf(Text(ps[i][2]))

\* Forms of XML Schema that xsd.c does not have: the hour 24 (xsd.c:322), no octets at
\* all (xsd.c:274), a sign that says nothing (xsd.c:265-268).
RefusedToo(typ, ps, w) ==
  \/ Primitive(typ) = "decimal" /\ V!IsForm(typ, w) /\ ZeroCounted(ps, w)
  \/ typ \in {"time", "dateTime"} /\ LET t == V!Local(w) IN \E i \in DOMAIN t : V!IsMidnight(V!Cut(t, i, Len(t)))
  \/ typ = "hexBinary" /\ w = <<>>
  \/ typ \in {"positiveInteger", "unsignedByte"} /\ w # <<>> /\ w[1] = "-"
  \/ typ = "negativeInteger" /\ w # <<>> /\ w[1] # "-"
  \/ typ = "nonPositiveInteger" /\ w # <<>> /\ w[1] = "+"

Takes(typ, ps, w) == (V!IsForm(typ, w) \/ TakenToo(typ, ps, w)) /\ ~RefusedToo(typ, ps, w)

\* Values that xsd_equal gets wrong, or finds equal only by a part of them.
\* Of hexadecimal letters, the schema's may come before the document's (xsd.c:675-680).
EarlierLetter(v, w) ==
  LET a == V!Dense(v)  b == V!Dense(w)
  IN  \E i \in DOMAIN a \cap DOMAIN b :
        /\ {a[i], b[i]} \subseteq V!HexDigit \ Digit
        /\ Code[V!Upcase(a[i])] < Code[V!Upcase(b[i])]

\* Of a number in a duration only the last digit is read (xsd.c:142), and years are not
\* months: what is equal otherwise has numbers of more than one digit.
LongNumber(v) == \E i \in 2 .. Len(v) : {v[i - 1], v[i]} \subseteq Digit \cup {"."}

\* A zero after white space is not known as one (xsd.c:335-342): its sign counts.
BlankZero(typ, v, w) ==
  /\ Primitive(typ) = "decimal" /\ xmlc_white_space(v[1]) /\ ("-" \in Chars(v) <=> "-" \notin Chars(w))
  /\ V!Decimal(V!Collapsed(v)) = 0

Miscompared(typ, v, w) ==
  CASE typ = "hexBinary" -> EarlierLetter(v, w)
    [] typ = "duration"  -> LongNumber(v) \/ LongNumber(w)
    [] OTHER             -> BlankZero(typ, v, w) \/ BlankZero(typ, w, v)

-----------------------------------------------------------------------------
ParamsNamed(c, names) == {i \in DOMAIN c.ps : c.ps[i][1] \in names}

\* What is wrong with the schema and is told by every call: types and parameters as XML
\* Schema has them; a type derived from decimal takes the place of a pattern.  Not told
\* are a negative length (xsd.c:506), and bounds that are no numbers, lie beyond those of
\* the type or leave nothing between them (xsd.c:515-518).
SchemaFault(c) ==
  \/ c.typ \notin TypeNames
  \/ ParamsNamed(c, FacetNames \ {"whiteSpace", "enumeration"}) # DOMAIN c.ps
  \/ \E i \in ParamsNamed(c, Numeric) : ~V!IsInteger(Text(c.ps[i][2]))
  \/ Cardinality(ParamsNamed(c, {"pattern"})) + (IF c.typ \in DOMAIN V!Integers THEN 1 ELSE 0) > NPAT
  \/ c.fn = "equal" /\ ~Takes(c.typ, <<>>, V!Collapsed(c.val))

\* A bound that is no time is told only when it is compared with: the text is a time and
\* within the bounds before.
BadBounds(c) ==
  {i \in ParamsNamed(c, Chars(Bounds)) : c.typ \in V!TimeTypes /\ ~Takes(c.typ, <<>>, Text(c.ps[i][2]))}

BoundTold(c) ==
  LET Place(i) == CHOOSE k \in DOMAIN Bounds : Bounds[k] = c.ps[i][1]
  IN  \E i \in BadBounds(c) :
        /\ Takes(c.typ, <<>>, V!Collapsed(c.s))
        /\ \A j \in ParamsNamed(c, Chars(Bounds)) :
             Place(j) < Place(i) =>
               j \in BadBounds(c) \/ V!Satisfies(c.typ, c.ps[j][1], c.ps[j][2], c.s, L!InExpression)

MalformedPatterns(c) == {rx \in {c.ps[i][2] : i \in ParamsNamed(c, {"pattern"})} : RxMalformed(rx)}

\* rx_cmatch takes what is a beginning of the type, with white space after it, to be all
\* of it: see the run trailing_space.
Trailing(s) == s # <<>> /\ xmlc_white_space(s[Len(s)])

Agrees(right, s) == IF Trailing(s) THEN right => answer ELSE answer <=> right

\* What the calls should answer, where the schema is not at fault.
Allowed == {c \in XsdCalls :
  /\ c.fn = "allows" /\ ~SchemaFault(c) /\ BadBounds(c) = {}
  /\ Takes(c.typ, c.ps, V!Collapsed(c.s))
  /\ \A i \in DOMAIN c.ps : V!Satisfies(c.typ, c.ps[i][1], c.ps[i][2], c.s, L!InExpression)}

Formed == {c \in XsdCalls :
  /\ c.fn = "equal" /\ c.typ \in TypeNames
  /\ Takes(c.typ, <<>>, V!Collapsed(c.val)) /\ Takes(c.typ, <<>>, V!Collapsed(c.s))}

AreSame == {c \in Formed : V!Same(c.typ, c.val, c.s)}

\* The type and all facets, each of them alone, allow the text: whatever calls were
\* made before, xsd_allows finds it through the expressions of lexical forms and its
\* own comparisons of digits, lengths and times.  The forms are those of XML Schema
\* but for the ones that Takes names; a bound of the schema holds instead of the type's
\* own.
AllowsRight ==
  Answered /\ Clean /\ call.fn = "allows" /\ ~SchemaFault(call) /\ BadBounds(call) = {} =>
    Agrees(call \in Allowed, call.s)

\* Two texts are equal when xsd.c takes both as forms of the type and they stand for the
\* same value: numbers by value, times as moments (a 30th of February being the first of
\* March), octets by their bits, tokens without their white space, names with a prefix
\* by what follows it (xsd.c:707).  The texts of Miscompared are left out.
EqualRight ==
  Answered /\ Clean /\ call.fn = "equal" /\ call.typ \in TypeNames =>
    \/ Trailing(call.val)
    \/ Agrees(call \in AreSame, call.s)
    \/ call \in Formed /\ Miscompared(call.typ, call.val, call.s)

\* A call reports an error exactly when the schema is at fault, never for what stands
\* in the document.  Whether two of the faults are told depends on the text too: that of
\* a bound, and that of a malformed pattern, which is told once, by the call that compiles
\* it, and by none after it, though it still is one (rx.c:301-304, 519-537).
\* Left out is a value or a bad bound of the schema while a malformed pattern was
\* compiled last: the errors counted for it refuse good values as well (rx.c:706).
FaultsSaid ==
  [][LET bad == BadBounds(call') # {}
     IN  /\ ~aborted' /\ ~Trailing(call'.val) /\ ~(bad /\ Trailing(call'.s))
         /\ ~(errors /\ (bad \/ call'.fn = "equal"))
         => (reported' # {} <=> \/ SchemaFault(call') \/ BoundTold(call')
                                \/ MalformedPatterns(call') \cap (compiled' \ compiled) # {})]_xsdVars

\* xsd_tm.h: "-1 - less, 0 - equal, 1 - greater, other - unknown".  Two times compare
\* as their moments do; the order with a time that has no zone is unknown unless it is
\* the same in all zones.
TimesOrdered ==
  calls = 0 =>
    \A typ \in V!TimeTypes :
      LET times == {w \in Words[typ] : Takes(typ, <<>>, w)}
      IN  \A w1, w2 \in times :
            LET cmp == xsd_tmcmp(xsd_mktm(Format[typ], w1), xsd_mktm(Format[typ], w2))
            IN  /\ cmp = -1 <=> V!Certainly(typ, LAMBDA x, y : x < y, w1, w2)
                /\ cmp = 0  <=> V!Certainly(typ, LAMBDA x, y : x = y, w1, w2)
                /\ cmp = 1  <=> V!Certainly(typ, LAMBDA x, y : x > y, w1, w2)

\* The number of days grows by one from each day of the calendar to the next, over leap
\* years and centuries, before and after the year one.
CalendarRight ==
  calls = 0 =>
    \A y \in {-101, -100, -99, -5, -4, -1, 1, 4, 5, 100, 400, 1899, 1900, 1999, 2000, 2001}, m \in 1 .. 12 :
      DaysFollow(y, m)

\* What Validator takes a datatype to be is what these calls do: on all short texts,
\* integers and tokens are allowed and equal as Datatypes has it.
AgreesWithValidator ==
  calls = 0 =>
    \A s \in ShortTexts :
      /\ Allows(Before, "integer", <<>>, s).ok <=> D!Allows(D!XsdInteger, s, {})
      /\ Allows(Before, "token", <<>>, s).ok <=> D!Allows(D!XsdToken, s, {})
      /\ \A v \in ShortTexts :
           /\ D!Allows(D!XsdInteger, v, {}) =>
                (Equal(Before, "integer", v, s).ok <=> D!Equal(D!XsdInteger, v, s, {}))
           /\ Equal(Before, "token", v, s).ok <=> D!Equal(D!XsdToken, v, s, {})
=============================================================================
