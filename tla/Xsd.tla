-------------------------------- MODULE Xsd --------------------------------
(***************************************************************************)
(* XML Schema datatypes (xsd.c): the calls xsd_allows and xsd_equal, and   *)
(* the cache of regular expressions that they share from call to call.     *)
(***************************************************************************)
EXTENDS XsdTypes

LOCAL INSTANCE SequencesExt
LOCAL INSTANCE FiniteSetsExt
LOCAL INSTANCE TLC

CONSTANTS
  Calls,             \* the calls made: records [fn, typ, ps, val, s]
  MaxCalls,          \* bound on their number
  NPAT,              \* so many patterns are supported
  Malformed(_),      \* whether an expression has an error
  Matches(_, _, _)   \* "yes", "no", or "aborts": what a function of rx.h finds

ASSUME BoundsAreNumbers == MaxCalls \in Nat /\ NPAT \in Nat

VARIABLES
  compiled,   \* the expressions in the cache of rx.c
  errors,     \* whether its count of errors is positive
  call,       \* the call made last
  answer,     \* what it returned
  reported,   \* the errors that it reported
  aborted,    \* an assertion failed
  calls       \* how many calls were made

xsdVars == <<compiled, errors, call, answer, reported, aborted, calls>>

-----------------------------------------------------------------------------
(***************************************************************************)
(* A call runs through checks that short-circuit: what it has found so far *)
(* is a record [ok, compiled, errors, reported, aborted].                  *)
(***************************************************************************)

Report(r, codes) == [r EXCEPT !.reported = @ \cup codes]

\* An expression is compiled when it is first used: its first error is reported, and the
\* count of errors is that of the last compilation.
Compiled(r, rx, bad) ==
  IF rx \in r.compiled THEN r
  ELSE [Report(r, IF bad THEN {"ERBIT_RX"} ELSE {}) EXCEPT !.compiled = @ \cup {rx}, !.errors = bad]

WithAnswer(r, found) == [r EXCEPT !.ok = ~r.errors /\ found = "yes", !.aborted = ~r.errors /\ found = "aborts"]

\* One match of an expression, if nothing before has failed.
RxMatch(r, fn, rx, s) == IF r.ok THEN WithAnswer(Compiled(r, rx, Malformed(rx)), Matches(fn, rx, s)) ELSE r

KnownType(typ)   == s_tab(Explode(typ), typtab) <= Len(typtab)
KnownFacet(name) == s_tab(Explode(name), fcttab) <= Len(fcttab)

\* Parameters are pairs <<name, value>>; the last of a name counts.
Numeric == {"length", "maxLength", "minLength", "fractionDigits", "totalDigits"}

NumberIsBad(value) == value = "" \/ strtol(Explode(value)).rest # <<>>

Patterns(typ, ps) ==
  LET own   == IF typ \in DOMAIN Derived THEN <<Derived[typ][1]>> ELSE <<>>
      given == SelectSeq(ps, LAMBDA p : p[1] = "pattern")
  IN  own \o [i \in DOMAIN given |-> given[i][2]]

FullTooSoon(typ, ps) == Len(Patterns(typ, ps)) >= NPAT    \* mutant: the last place is not used

TooMany(typ, ps) == Len(Patterns(typ, ps)) > NPAT

Complaints(typ, ps) ==
  UNION {CASE ~KnownFacet(p[1])                        -> {"XSD_ER_PAR"}
           [] p[1] \in Numeric /\ NumberIsBad(p[2])    -> {"XSD_ER_PARVAL"}
           [] p[1] = "whiteSpace"                      -> {"XSD_ER_WS"}
           [] p[1] = "enumeration"                     -> {"XSD_ER_ENUM"}
           [] OTHER                                    -> {} : p \in ToSet(ps)}
    \cup (IF TooMany(typ, ps) THEN {"XSD_ER_NPAT"} ELSE {})
    \cup (IF KnownType(typ) THEN {} ELSE {"XSD_ER_TYP"})

FirstWins(typ, ps) ==    \* mutant: a bound of the type is kept
  LET own   == IF typ \in DOMAIN Derived THEN Derived[typ][2] ELSE NoFacets
      given == [k \in {ps[i][1] : i \in DOMAIN ps} |-> ps[CHOOSE i \in DOMAIN ps : ps[i][1] = k][2]]
  IN  own @@ given

\* The facets: what is given takes the place of what the type brings.
Facets(typ, ps) ==
  LET own     == IF typ \in DOMAIN Derived THEN Derived[typ][2] ELSE NoFacets
      Final(k) == CHOOSE i \in DOMAIN ps : ps[i][1] = k /\ \A j \in i + 1 .. Len(ps) : ps[j][1] # k
      given   == [k \in {ps[i][1] : i \in DOMAIN ps} |-> ps[Final(k)][2]]
  IN  given @@ own

\* The order in which bounds are checked, and what each asks of a comparison.
Bounds == <<"minExclusive", "minInclusive", "maxInclusive", "maxExclusive">>
Within == [minExclusive |-> {1}, minInclusive |-> {0, 1}, maxInclusive |-> {-1, 0}, maxExclusive |-> {-1}]

NumberIn(f, k) == strtol(Explode(f[k])).value

LengthIs(f, n) ==
  /\ "length" \in DOMAIN f => n = NumberIn(f, "length")
  /\ "maxLength" \in DOMAIN f => n <= NumberIn(f, "maxLength")
  /\ "minLength" \in DOMAIN f => n >= NumberIn(f, "minLength")

LengthsHold(typ, f, s) == typ \in {"QName", "NOTATION"} \/ LengthIs(f, length(typ, s))

DigitsHold(f, fraction, total) ==
  /\ "fractionDigits" \in DOMAIN f => fraction <= NumberIn(f, "fractionDigits")
  /\ "totalDigits" \in DOMAIN f => total <= NumberIn(f, "totalDigits")

InBounds(dt, f, s) ==
  \A k \in Chars(Bounds) \cap DOMAIN f :
    (IF dt = "decimal" THEN deccmp(s, Explode(f[k])) ELSE dblcmp(s, Explode(f[k]))) \in Within[k]

-----------------------------------------------------------------------------
RECURSIVE Allows(_, _, _, _)

\* chktm and chktmlim: value and bounds have to be of the type themselves.
TimeInBounds(lim, typ, k, value, s) ==
  IF lim.ok
  THEN [lim EXCEPT !.ok = xsd_tmcmp(xsd_mktm(Format[typ], s), xsd_mktm(Format[typ], value)) \in Within[k]]
  ELSE Report(lim, {"XSD_ER_PARVAL"})

CheckTime(r, typ, f, s) ==
  LET Limit(q, k) ==
        IF q.ok THEN TimeInBounds(Allows(q, typ, <<>>, Explode(f[k])), typ, k, Explode(f[k]), s) ELSE q
  IN  FoldLeft(Limit, Allows(r, typ, <<>>, s), SelectSeq(Bounds, LAMBDA k : k \in DOMAIN f))

\* The facets that are checked first, by type.
Bounded(r, dt, typ, f, s) ==
  CASE dt = "decimal" -> [r EXCEPT !.ok = DigitsHold(f, fdiglenn(s), diglenn(s)) /\ InBounds(dt, f, s)]
    [] dt \in {"float", "double"} -> [r EXCEPT !.ok = InBounds(dt, f, s)]
    [] dt \in DOMAIN Format /\ Chars(Bounds) \cap DOMAIN f # {} -> CheckTime(r, typ, f, s)
    [] OTHER -> r

\* The expressions, the last one given first and that of the type before all.
Expressions(dt, pats) ==
  (IF dt \in DOMAIN Form THEN <<Form[dt]>> ELSE <<>>) \o Reverse(SubSeq(pats, 1, Min({NPAT, Len(pats)})))

Matched(r, typ, rxs, s) == FoldLeft(LAMBDA q, rx : RxMatch(q, Match(typ), rx, s), r, rxs)

Sized(r, typ, f, s) == [r EXCEPT !.ok = @ /\ LengthsHold(typ, f, s)]

Checked(r, dt, typ, f, pats, s) ==
  Sized(Matched(Bounded(r, dt, typ, f, s), typ, Expressions(dt, pats), s), typ, f, s)

\* xsd_allows, from what r holds of the calls before.
Allows(r, typ, ps, s) ==
  Checked(Report([r EXCEPT !.ok = TRUE], Complaints(typ, ps)),
          Primitive(typ), typ, Facets(typ, ps), Patterns(typ, ps), s)

Uncompared(first, typ, val, s) ==    \* mutant: the text is compared whatever its form is
  IF first.ok
  THEN [first EXCEPT !.ok = KnownType(typ) /\ SameValue(typ, val, s)]
  ELSE Report(first, {"XSD_ER_VAL"})

Compared(second, typ, val, s) == [second EXCEPT !.ok = @ /\ KnownType(typ) /\ SameValue(typ, val, s)]

EqualFrom(first, typ, val, s) ==
  IF first.ok THEN Compared(Allows(first, typ, <<>>, s), typ, val, s) ELSE Report(first, {"XSD_ER_VAL"})

\* xsd_equal: val is the schema's, s the document's.
Equal(r, typ, val, s) == EqualFrom(Allows(r, typ, <<>>, val), typ, val, s)

-----------------------------------------------------------------------------
NoCall == [fn |-> "none", typ |-> "string", ps |-> <<>>, val |-> <<>>, s |-> <<>>]

Init ==
  /\ compiled = {} /\ errors = FALSE
  /\ call = NoCall /\ answer = TRUE /\ reported = {}
  /\ aborted = FALSE /\ calls = 0

Before == [ok |-> TRUE, compiled |-> compiled, errors |-> errors, reported |-> {}, aborted |-> FALSE]

\* A call and its return, with what it found.
Return(c, r) ==
  /\ ~aborted /\ calls < MaxCalls
  /\ call' = c /\ calls' = calls + 1
  /\ compiled' = r.compiled /\ errors' = r.errors
  /\ answer' = r.ok /\ reported' = r.reported /\ aborted' = r.aborted

xsd_allows == \E c \in Calls : c.fn = "allows" /\ Return(c, Allows(Before, c.typ, c.ps, c.s))
xsd_equal  == \E c \in Calls : c.fn = "equal" /\ Return(c, Equal(Before, c.typ, c.val, c.s))

Next == xsd_allows \/ xsd_equal

Spec == Init /\ [][Next]_xsdVars
=============================================================================
