------------------------------ MODULE MCLexer ------------------------------
(***************************************************************************)
(* Small schemas, good and bad, through the lexical analysis of rnc.c,     *)
(* against the reference of module Symbols.                                *)
(***************************************************************************)
EXTENDS Lexer

Reference == INSTANCE Symbols

KeywordTable == {Explode("div"), Explode("text")}

\* Comments and documentation, and what may take away the end of the last line.
Remarks    == {<<"#">>, <<"#", "#">>, <<"a">>, <<LF>>, Explode("\"")}
Unfinished == {Explode("\\x{"), Explode("\\xx{6"), <<"\\">>, <<"}">>, <<CR>>, <<LF>>, <<Invalid>>}

\* What at most n of the given pieces make, put together.
RECURSIVE Made(_, _)
Made(pieces, n) ==
  IF n = 0 THEN {<<>>} ELSE {p \o t : p \in pieces \cup {<<>>}, t \in Made(pieces, n - 1)}

\* Every piece of the syntax beside every other.
Letters == {<<c>> : c \in {"a", "x", ":", "*", "#", "\\", "{", "}", "4", "\"", "'", " ", LF, CR, "=", "|", "[",
                           "]", ">", "~", ",", "-", Invalid}}
             \cup {Explode("div"), Explode("\\x{"), Explode("\\x{61}")}

\* Lines, literals, what getsym puts together or leaves out, and names.
Lined   == {<<c>> : c \in {"#", "a", CR, LF, "\\", Invalid}}
Quoted  == {<<c>> : c \in {"\"", "'", LF}} \cup {Explode("\"\"\""), Explode("\\x{22}"), Explode("\\xx{A}")}
Marked  == {Explode("a"), Explode("\"b\""), Explode("~"), Explode("["), Explode("]"), Explode(">>"),
            <<"#", "#", "c", LF>>, <<",">>}
Named   == {<<c>> : c \in {"a", ":", "*", "\\", "-", "4"}} \cup {Explode("div")}

\* A carriage return that a backslash stands before: C does not see the end of a line in
\* it (rnc.c 327-333).
EscapedReturn(t) ==
  \E p \in DOMAIN t : t[p] = "\\" /\ \E r \in p + 1 .. Len(t) :
                        t[r] = CR /\ \A k \in p + 1 .. r - 1 : t[k] \in {"x", Invalid}

\* The end of the last line belongs to an escape: to one whose digits it breaks off, or,
\* being a carriage return, to the backslash before it.
TakenEnd(t) ==
  LET v       == SelectSeq(t, LAMBDA c : c # Invalid)
      Rest(k) == SubSeq(v, k, Len(v))
  IN  \E p, b \in DOMAIN v :
        /\ p < b /\ v[p] = "\\" /\ \A k \in p + 1 .. b - 1 : v[k] = "x"
        /\ \/ Rest(b) \in {<<CR>>, <<CR, LF>>}
           \/ /\ p + 1 < b /\ v[b] = "{"
              /\ \E e \in b + 1 .. Len(v) + 1 : /\ \A k \in b + 1 .. e - 1 : v[k] \in HexDigit
                                               /\ Rest(e) \in {<<>>, <<CR>>, <<LF>>, <<CR, LF>>}

Small == Made(Letters, 2) \cup Made(Lined, 5) \cup Made(Quoted, 5) \cup Made(Marked, 4) \cup Made(Named, 4)
           \cup {begin \o end : begin \in Made(Remarks, 2), end \in Made(Unfinished, 2)}

\* Without an error, the parser gets the symbols that the text stands for, each with its
\* line: whatever mixture of line ends, escapes, comments, documentation, annotations and
\* joined literals it is made of (rnc.c 241-584), but for the carriage returns that a
\* backslash stands before.
SymbolsRight == Finished /\ ~source.failed /\ ~EscapedReturn(text) => got = Reference!SymbolsOf(text)

\* An error is flagged in exactly the texts that have a fault (error, rnc.c 225), when they
\* are read to the end: see GetsymReturns.
FaultsReported == Finished /\ ~EscapedReturn(text) => (source.failed <=> Reference!IsFaulty(text))

\* In a comment, at the end of the text, with no end of a line to come.
Lost == at \in {"comment", "documentation"} /\ source.v = End

\* Every call of getsym returns, whatever error it recovers from, or is lost in a comment
\* or in documentation: only in texts whose last line end belongs to an escape, so that
\* nothing ends the line that is skipped or copied (rnc.c 297-333, 343, 415).
GetsymReturns == at # "idle" ~> (at = "idle" \/ (Lost /\ TakenEnd(text)))
=============================================================================
