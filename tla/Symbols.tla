------------------------------ MODULE Symbols ------------------------------
(***************************************************************************)
(* What the symbols of a schema in the compact syntax are, in four steps   *)
(* over the whole text: lines, escapes, symbols, and what the parser gets  *)
(* of them.  This is the reference that Lexer is checked against; it is    *)
(* not taken from the code.                                                *)
(***************************************************************************)
EXTENDS Characters, FiniteSets, SequencesExt

CONSTANTS Keywords

NewLine == "newline"
Invalid == "invalid"
Fault   == "fault"

-----------------------------------------------------------------------------
(* Lines: a line ends with CR LF, CR or LF, the last one at the latest with the text. *)

Valid(text) == SelectSeq(text, LAMBDA c : c # Invalid)

Lines(text) ==
  LET valid  == Valid(text)
      placed == [p \in DOMAIN valid |->
                   [c |-> IF valid[p] \in {"\n", "\r"} THEN NewLine ELSE valid[p],
                    second |-> valid[p] = "\n" /\ p > 1 /\ valid[p - 1] = "\r"]]
      kept   == SelectSeq(placed, LAMBDA e : ~e.second)
      ended  == IF kept = <<>> \/ Last(kept).c = NewLine THEN kept
                ELSE Append(kept, [c |-> NewLine, second |-> FALSE])
  IN  [p \in DOMAIN ended |->
         [c |-> ended[p].c, line |-> 1 + Cardinality({k \in 1 .. p - 1 : ended[k].c = NewLine})]]

-----------------------------------------------------------------------------
(* Escapes: a backslash, letters x, and the digits of a code in braces.  A backslash that   *)
(* begins none stands for itself, with the letters x and the character that follow it. Code *)
(* 0 ends a line.                                                                           *)

\* The first position from k on whose character is none of a set.
After(cs, k, set) == CHOOSE e \in k .. Len(cs) + 1 :
                       /\ e <= Len(cs) => cs[e].c \notin set
                       /\ \A j \in k .. e - 1 : cs[j].c \in set

Hex == CharsOf("0123456789ABCDEFabcdef")

HexDigitValue(c) == (CHOOSE i \in 1 .. 22 : SubSeq("0123456789ABCDEFabcdef", i, i) = c) - 1

ValueOf(c) == IF HexDigitValue(c) > 15 THEN HexDigitValue(c) - 6 ELSE HexDigitValue(c)

Coded(digits) ==
  LET value == FoldLeft(LAMBDA n, d : 16 * n + ValueOf(d.c), 0, digits)
  IN  IF value = 0 THEN NewLine
      ELSE IF \E c \in DOMAIN Code : Code[c] = value THEN CHOOSE c \in DOMAIN Code : Code[c] = value
      ELSE "other"

RECURSIVE Unescaped(_, _)
Unescaped(cs, k) ==
  IF k > Len(cs) THEN <<>>
  ELSE IF cs[k].c # "\\" THEN <<cs[k]>> \o Unescaped(cs, k + 1)
  ELSE LET brace  == After(cs, k + 1, {"x"})
           close  == After(cs, brace + 1, Hex)
           opened == brace > k + 1 /\ brace <= Len(cs) /\ cs[brace].c = "{"
       IN  IF ~opened THEN SubSeq(cs, k, brace) \o Unescaped(cs, brace + 1)
           ELSE IF close <= Len(cs) /\ cs[close].c = "}"
                THEN <<[c |-> Coded(SubSeq(cs, brace + 1, close - 1)), line |-> cs[k].line]>>
                       \o Unescaped(cs, close + 1)
                ELSE <<[c |-> Fault, line |-> cs[k].line]>>

Logical(text) == Unescaped(Lines(text), 1)

-----------------------------------------------------------------------------
(* Symbols: the longest piece of the text that is one. *)

NameStart == Upper \cup Lower \cup {"_"}
NameChar  == NameStart \cup Digit \cup {".", "-", ":"}
LineEnd   == {NewLine, "\n"}
Blanks    == LineEnd \cup {" ", "\t"}

\* The piece of cs between two positions, as it stands in a literal or a name.
Piece(cs, first, last) ==
  [j \in 1 .. last - first + 1 |-> IF cs[first + j - 1].c = NewLine THEN "\n" ELSE cs[first + j - 1].c]

IsThere(cs, k, piece) ==
  k + Len(piece) - 1 <= Len(cs) /\ \A j \in DOMAIN piece : cs[k + j - 1].c = piece[j]

Symbol(sym, s, next) == [sym |-> sym, s |-> s, next |-> next]
Faulty1 == Symbol(Fault, <<>>, 0)

\* The first place at which a literal of quotes q, opened before k, may close.
Closes(cs, k, quotes) == {e \in k .. Len(cs) : IsThere(cs, e, quotes)}

First(set) == CHOOSE e \in set : \A f \in set : e <= f

Literal(cs, k) ==
  LET one   == <<cs[k].c>>
      three == one \o one \o one
      triple  == IsThere(cs, k, three)
      quotes  == IF triple THEN three ELSE one
      inside  == k + Len(quotes)
      closing == Closes(cs, inside, quotes)
      end     == First(closing)
  IN  IF closing = {} THEN Faulty1
      ELSE IF ~triple /\ \E j \in inside .. end : cs[j].c = NewLine THEN Faulty1
      ELSE Symbol("literal", Piece(cs, inside, end - 1), end + Len(quotes))

NameAt(cs, k, escaped) ==
  LET next == After(cs, k, NameChar)
      name == Piece(cs, k, next - 1)
  IN  IF k > Len(cs) \/ cs[k].c \notin NameStart THEN Faulty1
      ELSE IF ":" \notin {name[j] : j \in DOMAIN name}
           THEN Symbol(IF ~escaped /\ name \in Keywords THEN "keyword" ELSE "identifier", name, next)
      ELSE IF Last(name) = ":" /\ IsThere(cs, next, <<"*">>)
           THEN Symbol("nsname", SubSeq(name, 1, Len(name) - 1), next + 1)
      ELSE Symbol("qname", name, next)

Marks == {<<"=">>, <<",">>, <<"?">>, <<"*">>, <<"+">>, <<"-">>, <<"~">>, <<"(">>, <<")">>, <<"{">>,
          <<"}">>, <<"[">>, <<"]">>, <<"|">>, <<"&">>, <<"|", "=">>, <<"&", "=">>, <<">", ">">>}

Glued(mark) == FoldLeft(LAMBDA a, b : a \o b, "", mark)

\* The symbol at k, where no blank stands.
SymbolAt(cs, k) ==
  LET marks == {m \in Marks : IsThere(cs, k, m)}
      mark  == CHOOSE m \in marks : \A n \in marks : Len(n) <= Len(m)
      line  == After(cs, k, {cs[j].c : j \in k .. Len(cs)} \ LineEnd)
  IN  CASE cs[k].c = "#"          -> Symbol(IF IsThere(cs, k, <<"#", "#">>) THEN "documentation" ELSE "comment",
                                            <<>>, line)
        [] cs[k].c \in {"\"", "'"} -> Literal(cs, k)
        [] cs[k].c = "\\"         -> NameAt(cs, k + 1, TRUE)
        [] marks # {}             -> Symbol(Glued(mark), <<>>, k + Len(mark))
        [] OTHER                  -> NameAt(cs, k, FALSE)

Line(cs, k) == IF cs = <<>> THEN 1 ELSE IF k > Len(cs) THEN Last(cs).line ELSE cs[k].line

\* The symbols from k on, up to the end or a fault.
RECURSIVE Scan(_, _)
Scan(cs, k) ==
  LET start == After(cs, k, Blanks)
      found == SymbolAt(cs, start)
      this  == [sym |-> found.sym, s |-> found.s, line |-> Line(cs, start)]
  IN  IF start > Len(cs) THEN <<[sym |-> "eof", s |-> <<>>, line |-> Line(cs, start)]>>
      ELSE IF found.sym = Fault THEN <<this>>
      ELSE IF found.sym = "comment" THEN Scan(cs, found.next)
      ELSE <<this>> \o Scan(cs, found.next)

-----------------------------------------------------------------------------
(* What the parser gets: documentation and annotations are skipped, literals joined. *)

IsName(symbol) == symbol.sym \in {"identifier", "qname", "keyword"}

\* The position after the annotation whose content begins at k, or 0.
RECURSIVE AnnotationEnd(_, _)
AnnotationEnd(ts, k) ==
  CASE ts[k].sym = "]" -> k + 1
    [] ts[k].sym = "[" -> LET inner == AnnotationEnd(ts, k + 1)
                          IN  IF inner = 0 THEN 0 ELSE AnnotationEnd(ts, inner)
    [] IsName(ts[k]) \/ ts[k].sym \in {"=", "~", "literal"} -> AnnotationEnd(ts, k + 1)
    [] OTHER -> 0

FaultHere == <<[sym |-> Fault, s |-> <<>>, line |-> 0]>>

\* ts holds no fault and ends with eof.
RECURSIVE Got(_, _)
Got(ts, k) ==
  CASE ts[k].sym = "eof"           -> <<ts[k]>>
    [] ts[k].sym = "documentation" -> Got(ts, k + 1)
    [] ts[k].sym = "["             -> IF AnnotationEnd(ts, k + 1) = 0 THEN FaultHere
                                      ELSE Got(ts, AnnotationEnd(ts, k + 1))
    [] ts[k].sym = ">>"            -> IF IsName(ts[k + 1]) /\ ts[k + 2].sym = "[" THEN Got(ts, k + 2)
                                      ELSE FaultHere
    [] ts[k].sym = "literal" /\ ts[k + 1].sym = "~" ->
         IF ts[k + 2].sym # "literal" THEN FaultHere
         ELSE Got([ts EXCEPT ![k + 2] = [ts[k] EXCEPT !.s = @ \o ts[k + 2].s]], k + 2)
    [] OTHER -> <<ts[k]>> \o Got(ts, k + 1)

SymbolsOf(text) ==
  LET cs == Logical(text)
      ts == Scan(cs, 1)
  IN  IF Invalid \in ToSet(text) \/ (\E j \in DOMAIN cs : cs[j].c = Fault) \/ Last(ts).sym = Fault
      THEN FaultHere
      ELSE Got(ts, 1)

IsFaulty(text) == Last(SymbolsOf(text)).sym = Fault
=============================================================================
