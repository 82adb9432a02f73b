------------------------------- MODULE Lexer -------------------------------
(***************************************************************************)
(* The lexical analysis of rnc.c: characters with their escapes and line   *)
(* ends (getu, getv), symbols with one symbol of lookahead (advance), and  *)
(* the symbols the parser sees (getsym), with literals joined, annotations *)
(* and documentation skipped.  One step is one turn of a loop of advance,  *)
(* or what getsym does between two calls of advance.                       *)
(***************************************************************************)
EXTENDS Characters, FiniteSets

CONSTANTS
  Texts,        \* the schemas: sequences of characters
  Keywords,     \* kwdtab
  BUFSIZE,      \* the room that a symbol has at first, in characters
  U_MAXLEN      \* the room asked for one more

ASSUME TextsAssumption == \A t \in Texts : Len(t) \in Nat
ASSUME RoomAssumption == BUFSIZE \in Nat /\ U_MAXLEN \in Nat \ {0} /\ U_MAXLEN <= BUFSIZE

VARIABLES
  text,      \* the schema that is read
  source,    \* struct rnc_source: the position, characters, line and errors
  cur, nxt,  \* the two symbols, CUR and NXT
  at,        \* where advance is
  local,     \* its variables q, triple, and what follows a comment
  return,    \* the place in getsym that advance returns to
  depth,     \* open annotations: the frames of skipAnnotationContent
  calls,     \* calls of getsym, up to the two that the parser begins with
  got        \* the symbols the parser has seen

vars == <<text, source, cur, nxt, at, local, return, depth, calls, got>>

\* Values of u and v that no character has.  v is NewLine where C has 0.
End     == "end"
NewLine == "newline"
\* Bytes of the text that are not UTF-8.
Invalid == "invalid"

LF == "\n"
CR == "\r"

-----------------------------------------------------------------------------
\* The member of a set of one: Only({F(x) : x \in {e}}) is F(e), with e evaluated once.
Only(set) == CHOOSE x \in set : TRUE

(* Errors: at most one message a line, and the flag SRC_ERRORS. *)

\* Mutant: the line of the message is not remembered.
ReportAgain(s, code) == [s EXCEPT !.failed = TRUE, !.said = @ \cup {[line |-> s.line, code |-> code]}]

Report(s, code) ==
  [s EXCEPT !.prevline = s.line, !.failed = TRUE,
            !.said = IF s.line = s.prevline THEN @ ELSE @ \cup {[line |-> s.line, code |-> code]}]

(* Characters. *)

\* The first position from i on that holds a character, or the one after the end.
NextChar(i) == CHOOSE j \in i .. Len(text) + 1 :
                 /\ j <= Len(text) => text[j] # Invalid
                 /\ \A k \in i .. j - 1 : text[k] = Invalid

\* s after skipping to position j of the text, where the code says BadUTF of what it skips.
SkipTo(s, j) == [(IF j = s.i THEN s ELSE Report(s, "UTF")) EXCEPT !.i = j]

\* The end of the text counts as the end of a line, unless one is there.
AtEnd(s) == [s EXCEPT !.u = IF s.u \in {LF, CR, End} THEN End ELSE LF]

Take(s) == [s EXCEPT !.u = text[s.i], !.i = @ + 1,
                     !.line = IF s.u \in {LF, CR} THEN @ + 1 ELSE @]

TakeOrEnd(s) == IF s.i > Len(text) THEN AtEnd(s) ELSE Take(s)

\* Mutant: a carriage return and the line feed after it end a line each.
AfterReturnTwice(s) == TakeOrEnd(s)

\* A line feed after a carriage return is passed over.
AfterReturn(s) ==
  IF s.u = CR /\ s.i <= Len(text) /\ text[s.i] = LF
  THEN Only({TakeOrEnd(t) : t \in {SkipTo([s EXCEPT !.i = @ + 1, !.u = LF], NextChar(s.i + 1))}})
  ELSE TakeOrEnd(s)

getu(s) == Only({AfterReturn(t) : t \in {SkipTo(s, NextChar(s.i))}})

HexDigit == {"0", "1", "2", "3", "4", "5", "6", "7", "8", "9",
             "A", "B", "C", "D", "E", "F", "a", "b", "c", "d", "e", "f"}

HexValue(c) == IF c \in Digit THEN DigitValue(c)
               ELSE 10 + (Code[c] - Code[IF c \in Upper THEN "A" ELSE "a"])

\* The character of a code; 0 ends a line.  One beyond ASCII is no letter here.
CharOf(code) ==
  IF code = 0 THEN NewLine
  ELSE IF \E c \in DOMAIN Code : Code[c] = code
       THEN CHOOSE c \in DOMAIN Code : Code[c] = code
       ELSE "other"

\* The source n characters further on, and how many characters of a set come before another.
Ahead(s, n) ==
  LET after[k \in 0 .. n] == IF k = 0 THEN s ELSE Only({getu(t) : t \in {after[k - 1]}})
  IN  after[n]

Run(s, set) == CHOOSE n \in 0 .. Len(text) : /\ Ahead(s, n).u \notin set
                                            /\ \A k \in 0 .. n - 1 : Ahead(s, k).u \in set

HexDigits(s) ==
  LET n == Run(s, HexDigit)
      code[k \in 0 .. n] == IF k = 0 THEN 0 ELSE 16 * code[k - 1] + HexValue(Ahead(s, k - 1).u)
      Ends(t, c) == IF t.u = "}" THEN [t EXCEPT !.v = CharOf(c)]
                    ELSE [Report(t, "XESC") EXCEPT !.v = CharOf(16 * c)]
  IN  Only({Only({Ends(t, c) : c \in {code[n]}}) : t \in {Ahead(s, n)}})

\* After a backslash: an escape, or a backslash with what follows pushed back, nx times
\* the letter x and then w.
Escape(s) ==
  LET n == Run(s, {"x"})
      Ends(t) == IF t.u = "{" /\ n > 0 THEN Only({HexDigits(t2) : t2 \in {getu(t)}})
                 ELSE [t EXCEPT !.v = "\\", !.w = t.u, !.nx = n]
  IN  Only({Ends(t) : t \in {Ahead(s, n)}})

Fresh(s) ==
  CASE s.u \in {CR, LF} -> [s EXCEPT !.v = NewLine]
    [] s.u = "\\"       -> Only({Escape(t) : t \in {getu(s)}})
    [] OTHER            -> [s EXCEPT !.v = s.u]

getv(s) ==
  CASE s.nx > 0 -> [s EXCEPT !.v = "x", !.nx = @ - 1]
    [] s.nx = 0 -> [s EXCEPT !.v = s.w, !.nx = -1]
    [] OTHER    -> Only({Fresh(t) : t \in {getu(s)}})

newline(v)    == v \in {NewLine, LF}
whitespace(v) == v \in {" ", "\t"}
name_start(v) == v \in Upper \cup Lower \cup {"_"}
name_char(v)  == name_start(v) \/ v \in Digit \cup {".", "-", ":"}

-----------------------------------------------------------------------------
(* advance: the loop over v, and the loops inside it. *)

NoLocal == [q |-> End, triple |-> FALSE, escaped |-> FALSE, then |-> "scan"]

\* rnc_source_init and rnc_stropen.  C leaves the symbols unassigned: what the parser
\* finds there when it first asks is no symbol of the grammar.
Init ==
  /\ text \in Texts
  /\ source = [i |-> 1, u |-> End, v |-> NewLine, nx |-> -1, w |-> End,
               line |-> 1, prevline |-> -1, failed |-> FALSE, said |-> {}]
  /\ cur = [sym |-> "unassigned", s |-> <<>>, line |-> 0, room |-> BUFSIZE]
  /\ nxt = cur
  /\ at = "idle" /\ local = NoLocal /\ return = "getsym" /\ depth = 0
  /\ calls = 0 /\ got = <<>>

lexVars == <<source, nxt, at, local>>
symVars == <<text, cur, return, depth, calls, got>>

\* Mutant: the room grows when it was exceeded.
RoomLate(n, room) == IF n > room THEN 2 * (n + U_MAXLEN) ELSE room

\* The room of a symbol that has n characters and may get another.
Room(n, room) == IF n + U_MAXLEN > room THEN 2 * (n + U_MAXLEN) ELSE room

Front(s, n) == SubSeq(s, 1, Len(s) - n)

\* advance returns with the next symbol.
Yields(sym, value, s) ==
  /\ nxt' = [nxt EXCEPT !.sym = sym, !.s = value, !.line = IF at = "scan" THEN source.line ELSE @,
                        !.room = IF at = "name" THEN Room(Len(nxt.s) + 1, @) ELSE @]
  /\ source' = s
  /\ at' = "returned" /\ local' = NoLocal
  /\ UNCHANGED symVars

\* advance goes on at another place.
Continues(place, locals, value, s) ==
  /\ nxt' = [nxt EXCEPT !.s = value, !.line = IF at = "scan" THEN source.line ELSE @]
  /\ source' = s
  /\ at' = place /\ local' = locals
  /\ UNCHANGED symVars

Blank ==
  /\ at = "scan" /\ (newline(source.v) \/ whitespace(source.v))
  /\ Continues("scan", local, <<>>, getv(source))

EndOfText ==
  /\ at = "scan" /\ source.v = End
  /\ Yields("eof", <<>>, source)

Single  == CharsOf("=,?*+-~(){}[]")
Quotes  == {"\"", "'"}
Special == Single \cup Quotes \cup {"#", "|", "&", ">", "\\"}

SingleSymbol ==
  /\ at = "scan" /\ source.v \in Single
  /\ Yields(source.v, <<>>, getv(source))

\* | and &, alone or before =.
Combining ==
  /\ at = "scan" /\ source.v \in {"|", "&"}
  /\ \E s \in {getv(source)} :
       IF s.v = "=" THEN Yields(source.v \o "=", <<>>, getv(s)) ELSE Yields(source.v, <<>>, s)

FollowAnnotation ==
  /\ at = "scan" /\ source.v = ">"
  /\ \E s \in {getv(source)} :
       Yields(">>", <<>>, getv(IF s.v = ">" THEN s ELSE Report(s, "LEXP")))

Hash ==
  /\ at = "scan" /\ source.v = "#"
  /\ \E s \in {getv(source)} :
       Continues(IF s.v = "#" THEN "hashes" ELSE "comment", local, <<>>, s)

\* skip_comment, at the end of which advance scans on or has its documentation.
Comment ==
  /\ at = "comment"
  /\ IF ~newline(source.v) THEN Continues("comment", local, nxt.s, getv(source))
     ELSE IF local.then = "scan" THEN Continues("scan", NoLocal, nxt.s, getv(source))
     ELSE Yields("documentation", nxt.s, getv(source))

\* ## of a documentation comment, and one blank after it.
Hashes ==
  /\ at = "hashes"
  /\ \E s \in {getv(source)} :
       IF s.v = "#" THEN Continues("hashes", local, nxt.s, s)
       ELSE Continues("documentation", local, nxt.s, IF whitespace(s.v) THEN getv(s) ELSE s)

\* A line of documentation.  After the end of the text C adds to it forever.
DocumentationText ==
  /\ at = "documentation" /\ ~newline(source.v)
  /\ source' = getv(source)
  /\ nxt' = [nxt EXCEPT !.s = IF source.v = End THEN @ ELSE Append(@, source.v),
                        !.room = Room(Len(nxt.s), @)]
  /\ UNCHANGED <<at, local, symVars>>

DocumentationLine ==
  /\ at = "documentation" /\ newline(source.v)
  /\ at' = "documentationEnd"
  /\ nxt' = [nxt EXCEPT !.room = Room(Len(nxt.s), @)]
  /\ UNCHANGED <<source, local, symVars>>

\* Lines of documentation in a row are one symbol.
DocumentationEnd ==
  /\ at = "documentationEnd"
  /\ \E s \in {getv(source)} :
       IF whitespace(s.v) THEN Continues("documentationEnd", local, nxt.s, s)
       ELSE IF s.v # "#" THEN Yields("documentation", nxt.s, s)
       ELSE \E s2 \in {getv(s)} :
              IF s2.v = "#" THEN Continues("hashes", local, Append(nxt.s, LF), s2)
              ELSE Continues("comment", [local EXCEPT !.then = "documentation"], nxt.s, s2)

OpenQuote ==
  /\ at = "scan" /\ source.v \in Quotes
  /\ \E opened \in {[NoLocal EXCEPT !.q = source.v]}, s \in {getv(source)} :
       IF s.v # opened.q THEN Continues("literal", opened, <<>>, s)
       ELSE \E s2 \in {getv(s)} :
              IF s2.v = opened.q
              THEN Continues("literal", [opened EXCEPT !.triple = TRUE], <<>>, getv(s2))
              ELSE Yields("literal", <<>>, s2)

AddToLiteral(c) ==
  /\ source' = getv(source)
  /\ nxt' = [nxt EXCEPT !.s = Append(@, c), !.room = Room(Len(nxt.s) + 1, @)]
  /\ UNCHANGED <<at, local, symVars>>

TwoQuotesBefore == Len(nxt.s) >= 2 /\ \A k \in {0, 1} : nxt.s[Len(nxt.s) - k] = local.q

LiteralText ==
  /\ at = "literal" /\ source.v \notin {local.q, NewLine, End}
  /\ AddToLiteral(source.v)

LiteralQuote ==
  /\ at = "literal" /\ source.v = local.q
  /\ IF ~local.triple THEN Yields("literal", nxt.s, getv(source))
     ELSE IF TwoQuotesBefore THEN Yields("literal", Front(nxt.s, 2), getv(source))
     ELSE AddToLiteral(local.q)

\* Mutant: a literal ends with its line, or with the text.
LiteralLineForgives ==
  /\ at = "literal" /\ source.v \in {NewLine, End}
  /\ IF source.v = NewLine /\ local.triple THEN AddToLiteral(LF)
     ELSE Yields("literal", nxt.s, getv(source))

LiteralLine ==
  /\ at = "literal" /\ source.v \in {NewLine, End}
  /\ IF source.v = NewLine /\ local.triple THEN AddToLiteral(LF)
     ELSE Yields("literal", nxt.s, getv(Report(source, "LLIT")))

\* A name, with a backslash before it that keeps it from being a keyword, or nothing that
\* a schema may hold.
OpenName ==
  /\ at = "scan" /\ source.v \notin (Special \ {"\\"}) \cup {End, " ", "\t", NewLine, LF}
  /\ \E s \in {IF source.v = "\\" THEN getv(source) ELSE source} :
       IF name_start(s.v)
       THEN Continues("name", [NoLocal EXCEPT !.escaped = (source.v = "\\")], <<>>, s)
       ELSE Continues("scan", NoLocal, <<>>, getv(Report(s, "LILL")))

Prefixed(name) == \E k \in DOMAIN name : name[k] = ":"

\* A name that is complete, before s.
YieldsName(name, s) ==
  IF ~Prefixed(name)
  THEN Yields(IF ~local.escaped /\ name \in Keywords THEN "keyword" ELSE "identifier", name, s)
  ELSE IF name[Len(name)] = ":" /\ s.v = "*" THEN Yields("nsname", Front(name, 1), getv(s))
  ELSE Yields("qname", name, s)

Name ==
  /\ at = "name"
  /\ \E name \in {Append(nxt.s, source.v)}, s \in {getv(source)} :
       IF name_char(s.v)
       THEN /\ nxt' = [nxt EXCEPT !.s = name, !.room = Room(Len(name), @)]
            /\ source' = s
            /\ UNCHANGED <<at, local, symVars>>
       ELSE YieldsName(name, s)

Advancing ==
  \/ Blank \/ EndOfText \/ SingleSymbol \/ Combining \/ FollowAnnotation
  \/ Hash \/ Comment \/ Hashes \/ DocumentationText \/ DocumentationLine \/ DocumentationEnd
  \/ OpenQuote \/ LiteralText \/ LiteralQuote \/ LiteralLine
  \/ OpenName \/ Name

-----------------------------------------------------------------------------
(* getsym: between two calls of advance, one step. *)

\* Calls advance: the next symbol becomes the current one.
Advance(place, frames) ==
  /\ cur' = nxt
  /\ nxt' = [cur EXCEPT !.s = <<>>]
  /\ at' = "scan" /\ return' = place /\ depth' = frames
  /\ UNCHANGED <<text, source, local, calls, got>>

\* Calls advance for the next symbol alone.
Refill(place, joined) ==
  /\ cur' = joined
  /\ nxt' = [nxt EXCEPT !.s = <<>>]
  /\ at' = "scan" /\ return' = place
  /\ UNCHANGED <<text, source, local, depth, calls, got>>

\* Looks at the current symbol again, at another place.
Stays(place, frames, s) ==
  /\ source' = s /\ return' = place /\ depth' = frames
  /\ UNCHANGED <<text, cur, nxt, at, local, calls, got>>

\* getsym returns. The parser looks at the symbol after its second call.
Returns(s) ==
  /\ at' = "idle" /\ source' = s
  /\ got' = IF calls = 2 THEN Append(got, [sym |-> cur.sym, s |-> cur.s, line |-> cur.line]) ELSE got
  /\ UNCHANGED <<text, cur, nxt, local, return, depth, calls>>

\* The parser asks for symbols until it has the end of the text.
Getsym ==
  /\ at = "idle" /\ (calls < 2 \/ cur.sym # "eof")
  /\ cur' = nxt /\ nxt' = [cur EXCEPT !.s = <<>>]
  /\ at' = "scan" /\ return' = "getsym"
  /\ calls' = IF calls < 2 THEN calls + 1 ELSE 2
  /\ UNCHANGED <<text, source, local, depth, got>>

In(place) == at = "returned" /\ return = place

NamesThing(symbol) == symbol.sym \in {"identifier", "qname", "keyword"}

SkipDocumentation ==
  /\ In("getsym") /\ cur.sym = "documentation"
  /\ Advance("getsym", 0)

\* Mutant: recovery looks for a bracket that may never come.
FollowToBracket ==
  \/ In("getsym") /\ cur.sym = ">>" /\ Advance("follow", 0)
  \/ In("follow") /\ NamesThing(cur) /\ Advance("followName", 0)
  \/ In("follow") /\ ~NamesThing(cur) /\ Stays("followSkip", 0, Report(source, "SEXP"))
  \/ In("followSkip") /\ cur.sym # "[" /\ Advance("followSkip", 0)

\* >> name [ ... ]: after the >>, and after the name.
Follow ==
  \/ In("getsym") /\ cur.sym = ">>" /\ Advance("follow", 0)
  \/ In("follow") /\ NamesThing(cur) /\ Advance("followName", 0)
  \/ In("follow") /\ ~NamesThing(cur) /\ Stays("followSkip", 0, Report(source, "SEXP"))
  \/ In("followSkip") /\ cur.sym \notin {"[", "eof"} /\ Advance("followSkip", 0)

\* skipAnnotationContent, called with a bracket or with something else.
EnterAnnotation ==
  /\ In("getsym") \/ In("followName") \/ (In("followSkip") /\ cur.sym \in {"[", "eof"})
  /\ IF cur.sym = "[" THEN Advance("annotation", 1)
     ELSE /\ return # "getsym"
          /\ Stays("getsym", 0, IF return = "followName" THEN Report(source, "SEXP") ELSE source)

SkipAnnotation ==
  /\ In("annotation")
  /\ \/ cur.sym = "[" /\ Advance("annotation", depth + 1)
     \/ cur.sym = "]" /\ Advance(IF depth = 1 THEN "getsym" ELSE "annotation", depth - 1)
     \/ (NamesThing(cur) \/ cur.sym \in {"=", "literal", "~"}) /\ Advance("annotation", depth)

\* Anything else ends the annotations one by one.
LeaveAnnotation ==
  /\ In("annotation")
  /\ ~NamesThing(cur) /\ cur.sym \notin {"[", "]", "=", "literal", "~"}
  /\ Stays(IF depth = 1 THEN "getsym" ELSE "annotation", depth - 1, Report(source, "SILL"))

\* "a" ~ "b": the second literal is fetched, and joined to the first.
Concatenate ==
  /\ In("getsym") /\ cur.sym = "literal" /\ nxt.sym = "~"
  /\ Refill("concat", cur)

Max2(a, b) == IF a > b THEN a ELSE b

Join ==
  /\ In("concat")
  /\ IF nxt.sym # "literal" THEN Returns(Report(source, "SEXP"))
     ELSE Refill("getsym", [cur EXCEPT !.s = @ \o nxt.s,
                                       !.room = Max2(@, Len(cur.s) + Len(nxt.s) + 1)])

Deliver ==
  /\ In("getsym")
  /\ cur.sym \notin {"documentation", ">>", "["} /\ ~(cur.sym = "literal" /\ nxt.sym = "~")
  /\ Returns(source)

Getting == SkipDocumentation \/ Follow \/ EnterAnnotation \/ SkipAnnotation \/ LeaveAnnotation
             \/ Concatenate \/ Join \/ Deliver

Next == Advancing \/ Getting \/ Getsym

\* A call that was begun runs by itself; the parser goes on asking until the text ends.
Spec == Init /\ [][Next]_vars /\ WF_vars(Next)

Finished == at = "idle" /\ calls = 2 /\ cur.sym = "eof"

\* What is written of a symbol lies inside its room, and so does the end after it, in both
\* buffers, which are exchanged with each symbol (realloc_s, rnc.c 344).
RoomForSymbol ==
  /\ at \in {"name", "literal"} => Len(nxt.s) + U_MAXLEN <= nxt.room
  /\ Len(nxt.s) <= nxt.room
  /\ at = "returned" => Len(nxt.s) < nxt.room /\ Len(cur.s) < cur.room

\* An error is flagged exactly if one is shown, and never are two shown while the same
\* line is read: the line that was spoken of last is never one still to come, whichever
\* end of a line, escape or literal the reading has gone through (error, rnc.c 225).
FaultsShown ==
  /\ source.failed <=> source.said # {}
  /\ \A a, b \in source.said : a.line = b.line => a = b
=============================================================================
