------------------------------ MODULE MCRegex ------------------------------
(***************************************************************************)
(* Matcher on the patterns of Regex: sequences of calls with good and bad  *)
(* expressions, a ring small enough to be overwritten, and the answers     *)
(* compared with RegexLanguage.                                            *)
(***************************************************************************)
EXTENDS Matcher

CONSTANT Order   \* of the evaluation of arguments

Names == {"Nd", "S"}
In(c, name) ==
  CASE name = "Nd" -> c \in {"1"}
    [] name = "S"  -> c \in {" ", "\t", "\n", "\r"}
    [] name = "NL" -> c \in {"\n", "\r"}

R == INSTANCE Regex WITH InClass <- In, ClassNames <- Names, RightToLeft <- Order
L == INSTANCE RegexLanguage

RxCompile(rx)        == R!Compile(rx)
RxDerivative(q, c)   == R!Derivative(q, c)
RxNullable(q)        == R!Nullable(q)
RxPart(q, got)       == R!Part(q, got)
RxCombine(q, c, got) == R!Combine(q, c, got)
RxNone               == R!NotAllowed
RxFailed             == R!Error
RxNoPart             == R!NoPart
Space(c)             == R!xmlc_white_space(c)

-----------------------------------------------------------------------------
(* The calls of the runs.                                                  *)
Text(string) == R!Explode(string)

Good == {Text("(a|b)*a"), Text("(a|b){1,2}"), Text("[a-b-[b]]+( a)*"), Text("\\s?a|.\\d")}
Poor == {Text("*a"), Text("b|a)")}

PlainWords == {Text(s) : s \in {"", "ab", "aba", "b1", "a a"}}
SpacedWords == {Text(s) : s \in {" a", "a \n a", " b  a", "a "}}

CallsOf(fn, rxs, words) == {[fn |-> fn, rx |-> rx, s |-> w] : rx \in rxs, w \in words}

RegexCalls ==
  CallsOf("match", Good, PlainWords)
    \cup CallsOf("rmatch", Good, {Text("\ta"), Text("a\na")})
    \cup CallsOf("cmatch", Good, SpacedWords)
    \cup CallsOf("check", Poor \cup {Text("a?"), Text("[-a]")}, {<<>>})
    \cup CallsOf("match", Poor, {Text("a")})

\* Two calls of all kinds, and three when one of them compiled an expression with an
\* error and another one a good expression.
FewTriples == calls = 3 => {Text("*a"), Text("a?")} \subseteq DOMAIN cache

TrailingCalls == CallsOf("cmatch", {Text("ab"), Text("a( b)?")}, {Text("ab"), Text(" a  b "), Text("a ")})

RegexChars == {"a", "b", "1", " ", "\t", "\n"}

RECURSIVE Closure(_)
Closure(patterns) ==
  LET parts == UNION {{q[i] : i \in 3 .. Len(q)} : q \in {q \in patterns : R!Kind(q) \in {"choice", "group", "oneOrMore", "except"}}}
      all   == patterns \cup parts \cup {RxDerivative(q, c) : q \in patterns, c \in RegexChars}
  IN  IF all = patterns THEN all ELSE Closure(all)

PatternsOf(set) == Closure({RxNone, RxFailed} \cup {RxCompile(c.rx).p : c \in set})
RegexPatterns   == PatternsOf(RegexCalls)
TrailingPatterns == PatternsOf(TrailingCalls)

-----------------------------------------------------------------------------
(* Properties.                                                             *)

Malformed(rx) == ~L!IsExpression(rx)

\* rx.c takes a dash in a class for the sign of a range or of a subtraction only.
Refused(rx) == Malformed(rx) \/ L!DashAtEdge(rx)

\* The text as the call compares it: verbatim, with blanks, or collapsed.
RECURSIVE Collapsed(_)
Collapsed(s) ==
  CASE s = <<>>                              -> s
    [] Space(s[1])                           -> Collapsed(Tail(s))
    [] \A i \in DOMAIN s : ~Space(s[i])      -> s
    [] OTHER ->
         LET i    == CHOOSE i \in DOMAIN s : Space(s[i]) /\ \A j \in 1 .. i - 1 : ~Space(s[j])
             more == Collapsed(SubSeq(s, i + 1, Len(s)))
         IN  SubSeq(s, 1, i - 1) \o (IF more = <<>> THEN <<>> ELSE <<" ">> \o more)

Compared ==
  CASE call.fn = "rmatch" -> [i \in DOMAIN call.s |-> IF Space(call.s[i]) THEN " " ELSE call.s[i]]
    [] call.fn = "cmatch" -> Collapsed(call.s)
    [] OTHER              -> call.s

RightAnswer ==
  ~Refused(call.rx) /\ (call.fn = "check" \/ L!InExpression(call.rx, Compared))

\* While the count of errors is that of the expression in hand, whatever was
\* compiled and matched before: a call answers whether the text, with its white
\* space treated as the function says, is in the language of the expression, and one
\* that is refused matches nothing.  rx_cmatch on text that ends in white space is
\* left out.
AnswersRight ==
  Answered /\ (errors <=> Refused(call.rx)) =>
    EndsInSpace \/ (answer <=> RightAnswer)

\* rx.h: "cmatch collapses white space": a text that ends in white space matches when
\* it does without it.
CollapsesSpace ==
  Answered /\ call.fn = "cmatch" /\ (errors <=> Refused(call.rx)) => (answer <=> RightAnswer)

Strings(alphabet, n) == UNION {[1 .. k -> alphabet] : k \in 0 .. n}

ShortNumbers(w) == \A i \in 1 .. Len(w) - 2 : ~({w[i], w[i + 1], w[i + 2]} \subseteq R!Digit)

\* Expressions as the parser has to tell them apart: alternatives and groups,
\* classes with ranges and subtraction, quantities, escapes.
Probes ==
  Strings({"a", "|", "*", "(", ")"}, 5)
    \cup {<<"[">> \o w \o <<"]">> : w \in Strings({"a", "-", "[", "]", "^"}, 5)}
    \cup {<<"a", "{">> \o w : w \in {w \in Strings({"1", "2", ",", "}", "a"}, 4) : ShortNumbers(w)}}
    \cup Strings({"\\", "d", "q", ".", "[", "]"}, 4)

\* The parser reports an error for the strings that are not expressions, and, beyond
\* XML Schema, for those with a dash at the edge of a class, such as [-a] and [a-];
\* and for no others: on all short strings over the characters of each construct.
SyntaxExact == calls = 0 => \A s \in Probes : RxCompile(s).malformed <=> Refused(s)
=============================================================================
