------------------------------- MODULE Regex -------------------------------
(***************************************************************************)
(* Regular expressions of XML Schema (rx.c): the patterns an expression is *)
(* compiled to, their constructors, their derivatives, and the parser.     *)
(*                                                                         *)
(* A pattern is a tuple <<kind, nullable, operands...>>: interned in the   *)
(* code, compared by value here.  An expression is a sequence of           *)
(* characters.                                                             *)
(***************************************************************************)
EXTENDS Characters

CONSTANTS
  InClass(_, _),   \* in_class: whether a character is of a named class
  ClassNames,      \* the names of clstab, for \p{...}
  RightToLeft      \* the order in which the compiler evaluates arguments

-----------------------------------------------------------------------------
(* Patterns and their constructors.                                        *)

Error      == <<"error", FALSE>>        \* P_ERROR, the pattern of a syntax error
NotAllowed == <<"notAllowed", FALSE>>
Empty      == <<"empty", TRUE>>
AnyChar    == <<"any", FALSE>>

Kind(p)     == p[1]
Nullable(p) == p[2]

NewClass(name)     == <<"class", FALSE, name>>
NewRange(c1, c2)   == <<"range", FALSE, c1, c2>>
NewChar(c)         == <<"char", FALSE, c>>
NewExcept(p1, p2)  == <<"except", FALSE, p1, p2>>

OneOrMore(p) == IF p \in {Empty, NotAllowed} THEN p ELSE <<"oneOrMore", Nullable(p), p>>

Group(p1, p2) ==
  CASE NotAllowed \in {p1, p2} -> NotAllowed
    [] p1 = Empty              -> p2
    [] p2 = Empty              -> p1
    [] OTHER                   -> <<"group", Nullable(p1) /\ Nullable(p2), p1, p2>>

RECURSIVE SameChoice(_, _), Choice(_, _)

SameChoice(p1, p2) ==
  IF Kind(p1) = "choice" THEN p1[4] = p2 \/ SameChoice(p1[3], p2) ELSE p1 = p2

Choice(p1, p2) ==
  CASE p1 = NotAllowed                 -> p2
    [] p2 = NotAllowed                 -> p1
    [] Kind(p2) = "choice"             -> Choice(Choice(p1, p2[3]), p2[4])
    [] SameChoice(p1, p2)              -> p1
    [] Nullable(p1) /\ p2 = Empty      -> p1
    [] Nullable(p2) /\ p1 = Empty      -> p2
    [] OTHER                           -> <<"choice", Nullable(p1) \/ Nullable(p2), p1, p2>>

\* cls: the pattern of a class or of its complement; an unknown class has no name.
Cls(name, complement) ==
  CASE name = "" -> NotAllowed
    [] complement -> NewExcept(AnyChar, NewClass(name))
    [] OTHER      -> NewClass(name)

-----------------------------------------------------------------------------
(***************************************************************************)
(* Derivatives.  drv derives the parts of a pattern and combines what they *)
(* yield: Part is the next part to derive once the results got are there,  *)
(* NoPart when there is none.  The order of a choice is the compiler's.    *)
(***************************************************************************)
NoPart == <<"none">>

PartEitherWay(p, got) ==    \* mutant: the second of a group, nullable first or not
  CASE Kind(p) = "choice" /\ Len(got) < 2 ->
         IF RightToLeft THEN p[4 - Len(got)] ELSE p[3 + Len(got)]
    [] Kind(p) \in {"group", "oneOrMore", "except"} /\ got = <<>> -> p[3]
    [] Kind(p) = "group" /\ Len(got) = 1                          -> p[4]
    [] Kind(p) = "except" /\ Len(got) = 1 /\ Nullable(got[1])     -> p[4]
    [] OTHER -> NoPart

Part(p, got) ==
  CASE Kind(p) = "choice" /\ Len(got) < 2 ->
         IF RightToLeft THEN p[4 - Len(got)] ELSE p[3 + Len(got)]
    [] Kind(p) \in {"group", "oneOrMore", "except"} /\ got = <<>> -> p[3]
    [] Kind(p) = "group" /\ Len(got) = 1 /\ Nullable(p[3])        -> p[4]
    [] Kind(p) = "except" /\ Len(got) = 1 /\ Nullable(got[1])     -> p[4]
    [] OTHER -> NoPart

If(holds) == IF holds THEN Empty ELSE NotAllowed

Combine(p, c, got) ==
  CASE Kind(p) \in {"notAllowed", "empty"} -> NotAllowed
    [] Kind(p) = "choice"    -> IF RightToLeft THEN Choice(got[2], got[1]) ELSE Choice(got[1], got[2])
    [] Kind(p) = "group"     -> LET p11 == Group(got[1], p[4])
                                IN  IF Len(got) = 2 THEN Choice(p11, got[2]) ELSE p11
    [] Kind(p) = "oneOrMore" -> Group(got[1], Choice(Empty, p))
    [] Kind(p) = "except"    -> If(Len(got) = 2 /\ ~Nullable(got[Len(got)]))
    [] Kind(p) = "range"     -> If(Code[c] \in Code[p[3]] .. Code[p[4]])
    [] Kind(p) = "class"     -> If(InClass(c, p[3]))
    [] Kind(p) = "any"       -> Empty
    [] Kind(p) = "char"      -> If(c = p[3])

\* drv without its memo; an assertion fails when it meets the pattern of a syntax error.
RECURSIVE Derive(_, _, _)
AfterPart(p, c, got, d) == IF d = Error THEN Error ELSE Derive(p, c, Append(got, d))

WithPart(p, c, got, part) ==
  IF part = NoPart THEN Combine(p, c, got) ELSE AfterPart(p, c, got, Derive(part, c, <<>>))

Derive(p, c, got) == IF p = Error THEN Error ELSE WithPart(p, c, got, Part(p, got))

Derivative(p, c) == Derive(p, c, <<>>)

-----------------------------------------------------------------------------
(***************************************************************************)
(* Symbols.  getsym reads a symbol: a character, an escaped character, a   *)
(* class, or the end.  bad marks a symbol at which it reports an error.    *)
(***************************************************************************)
Symbol(sym, val)        == [sym |-> sym, val |-> val, complement |-> FALSE, bad |-> FALSE]
ClassSymbol(name, not)  == [Symbol("cls", name) EXCEPT !.complement = not]
Bad(symbol)             == [symbol EXCEPT !.bad = TRUE]

Escaped == {"\\", "|", ".", "-", "^", "?", "*", "+", "{", "}", "[", "]", "(", ")"}

\* chclass: what follows \p or \P at position i, and the position after it.
ChClass(rx, i, not) ==
  LET ends == {k \in i + 1 .. Len(rx) : rx[k] = "}"}
      k    == CHOOSE k \in ends : \A l \in ends : k <= l
      known == {n \in ClassNames : Explode(n) = SubSeq(rx, i + 1, k - 1)}
  IN  CASE i > Len(rx)   -> <<Bad(ClassSymbol("", not)), i>>
        [] rx[i] # "{"   -> <<Bad(ClassSymbol("", not)), i + 1>>
        [] ends = {}     -> <<Bad(ClassSymbol("", not)), Len(rx) + 1>>
        [] OTHER         -> IF known # {}
                            THEN <<ClassSymbol(CHOOSE n \in known : TRUE, not), k + 1>>
                            ELSE <<Bad(ClassSymbol("", not)), k + 1>>

\* getsym: the symbol at position i and the position after it.
GetSym(rx, i) ==
  LET u    == rx[i + 1]
      name == [s |-> "S", i |-> "I", c |-> "C", d |-> "Nd", w |-> "W",
               S |-> "S", I |-> "I", C |-> "C", D |-> "Nd", W |-> "W"]
      control == [n |-> "\n", r |-> "\r", t |-> "\t"]
  IN  CASE i > Len(rx)              -> <<Symbol("end", ""), i>>
        [] rx[i] = "."              -> <<ClassSymbol("NL", TRUE), i + 1>>
        [] rx[i] # "\\"             -> <<Symbol("chr", rx[i]), i + 1>>
        [] i = Len(rx)              -> <<Bad(Symbol("end", "")), i>>
        [] u \in {"p", "P"}         -> ChClass(rx, i + 2, u = "P")
        [] u \in DOMAIN name        -> <<ClassSymbol(name[u], u \in Upper), i + 2>>
        [] u \in DOMAIN control     -> <<Symbol("esc", control[u]), i + 2>>
        [] u \in Escaped            -> <<Symbol("esc", u), i + 2>>
        [] OTHER                    -> <<Bad(Symbol("esc", u)), i + 2>>

RECURSIVE SymbolsFrom(_, _)
OnwardFrom(rx, got) ==
  IF got[1].sym = "end" THEN <<got[1]>> ELSE <<got[1]>> \o SymbolsFrom(rx, got[2])

SymbolsFrom(rx, i) == OnwardFrom(rx, GetSym(rx, i))

-----------------------------------------------------------------------------
(***************************************************************************)
(* The parser.  Each operator reads the symbols t from the k-th on and     *)
(* returns the pattern, the place of the next symbol and whether it        *)
(* reported an error.  The end is read again and again.                    *)
(***************************************************************************)
Result(p, k, bad) == [p |-> p, k |-> k, bad |-> bad]

After(t, k)        == IF k < Len(t) THEN k + 1 ELSE k
IsChr(t, k, chars) == t[k].sym = "chr" /\ t[k].val \in chars

\* chk_get: a symbol that has to be there is read, whatever it is.
ChkGet(t, r, c) == Result(r.p, After(t, r.k), r.bad \/ ~IsChr(t, r.k, {c}))

NotInRangeDash(t, k) == IsChr(t, k, {"[", "]"})    \* mutant: a dash may stand alone

\* chkrch: a character that may not stand alone in a group.
NotInRange(t, k) == IsChr(t, k, {"[", "]", "-"})

\* chgroup, with the pattern of the members read so far.
RECURSIVE ChGroup(_, _)

More(t, r) == IF IsChr(t, r.k, {"]", "-"}) THEN r ELSE ChGroup(t, r)

Single(t, r) ==
  Result(Choice(r.p, NewChar(t[r.k].val)), After(t, r.k), r.bad \/ NotInRange(t, r.k))

Ranged(t, r, last) ==
  IF t[last].sym \in {"chr", "esc"}
  THEN Result(Choice(r.p, NewRange(t[r.k].val, t[last].val)), After(t, last),
              r.bad \/ NotInRange(t, r.k) \/ NotInRange(t, last))
  ELSE Result(r.p, After(t, last), TRUE)

ChGroup(t, r) ==
  LET k    == r.k
      k1   == After(t, k)
      dash == t[k].sym # "cls" /\ IsChr(t, k1, {"-"})
  IN  CASE t[k].sym = "end" -> Result(r.p, k, TRUE)
        [] dash /\ IsChr(t, After(t, k1), {"["}) -> Single(t, r)   \* a subtraction follows
        [] OTHER ->
             More(t, CASE t[k].sym = "cls" -> Result(Choice(r.p, Cls(t[k].val, t[k].complement)), k1, r.bad)
                       [] dash             -> Ranged(t, r, After(t, k1))
                       [] OTHER            -> Single(t, r))

\* chexpr: a group or its complement, less the expression that is subtracted.
RECURSIVE ChExpr(_, _)

Subtracted(t, group) ==
  LET open  == ChkGet(t, [group EXCEPT !.k = After(t, group.k)], "[")
      inner == ChExpr(t, open.k)
  IN  IF IsChr(t, group.k, {"-"})
      THEN ChkGet(t, Result(NewExcept(group.p, inner.p), inner.k, open.bad \/ inner.bad), "]")
      ELSE group

ChExpr(t, k) ==
  LET complement == IsChr(t, k, {"^"})
      first      == Result(NotAllowed, IF complement THEN After(t, k) ELSE k, FALSE)
      Taken(g)   == IF complement THEN [g EXCEPT !.p = NewExcept(AnyChar, g.p)] ELSE g
  IN  Subtracted(t, Taken(ChGroup(t, first)))

\* number: the value of the digits from k on, and where they end.
RECURSIVE Number(_, _, _)
Number(t, k, n) ==
  IF IsChr(t, k, Digit) THEN Number(t, After(t, k), 10 * n + DigitValue(t[k].val)) ELSE <<n, k>>

RECURSIVE Repeat(_, _, _)
Repeat(p, p0, n) == IF n = 0 THEN p ELSE Repeat(Group(p, p0), p0, n - 1)

\* quantifier: what stands in braces after p0: least and most are numbers, as read.
AtMost(t, k, p0, p, least, most) ==
  CASE IsChr(t, k, {"}"})  -> Result(Group(p, Choice(Empty, OneOrMore(p0))), k, FALSE)
    [] most[1] < least[1]  -> Result(p, most[2], TRUE)
    [] OTHER               -> Result(Repeat(p, Choice(Empty, p0), most[1] - least[1]), most[2], FALSE)

AtLeast(t, p0, p, least) ==
  LET k1 == After(t, least[2])
  IN  CASE t[least[2]].sym # "chr"    -> Result(p, least[2], TRUE)
        [] ~IsChr(t, least[2], {","}) -> Result(p, least[2], FALSE)
        [] OTHER                      -> AtMost(t, k1, p0, p, least, Number(t, k1, 0))

Counted(t, p0, least) == AtLeast(t, p0, Repeat(Empty, p0, least[1]), least)

Quantifier(t, k, p0) == Counted(t, p0, Number(t, k, 0))

RECURSIVE Expression(_, _), Branch(_, _)

Atom(t, k) ==
  LET k1 == After(t, k)
      s  == t[k].sym
  IN  CASE IsChr(t, k, {"["}) -> ChkGet(t, ChExpr(t, k1), "]")
        [] IsChr(t, k, {"("}) -> ChkGet(t, Expression(t, k1), ")")
        [] s = "end" \/ IsChr(t, k, {"{", "?", "*", "+", "|", ")", "]", "}"}) -> Result(Error, k1, TRUE)
        [] s = "cls"          -> Result(Cls(t[k].val, t[k].complement), k1, FALSE)
        [] OTHER              -> Result(NewChar(t[k].val), k1, FALSE)

Worse(r, bad) == [r EXCEPT !.bad = @ \/ bad]

Quantified(t, a) ==
  LET k1      == After(t, a.k)
      With(p) == Result(p, k1, a.bad)
  IN  CASE IsChr(t, a.k, {"{"}) -> ChkGet(t, Worse(Quantifier(t, k1, a.p), a.bad), "}")
        [] IsChr(t, a.k, {"?"}) -> With(Choice(Empty, a.p))
        [] IsChr(t, a.k, {"*"}) -> With(Choice(Empty, OneOrMore(a.p)))
        [] IsChr(t, a.k, {"+"}) -> With(OneOrMore(a.p))
        [] OTHER                -> a

Piece(t, k) == Quantified(t, Atom(t, k))

\* branch and expression, continued from what was read so far.
AndPiece(r, piece) == Result(Group(r.p, piece.p), piece.k, r.bad \/ piece.bad)

Branch(t, r) ==
  IF t[r.k].sym = "end" \/ IsChr(t, r.k, {"|", ")"}) THEN r ELSE Branch(t, AndPiece(r, Piece(t, r.k)))

OrBranch(r, b) == Result(Choice(r.p, b.p), b.k, r.bad \/ b.bad)

RECURSIVE Branches(_, _)
Branches(t, r) ==
  IF ~IsChr(t, r.k, {"|"})
  THEN r
  ELSE Branches(t, OrBranch(r, Branch(t, Result(Empty, After(t, r.k), FALSE))))

Expression(t, k) == Branches(t, Branch(t, Result(Empty, k, FALSE)))

\* compile, for an expression that is not in the cache.
Judged(t, e) == [p |-> e.p, malformed |-> e.bad \/ t[e.k].sym # "end" \/ \E k \in DOMAIN t : t[k].bad]

Parsed(t) == Judged(t, Expression(t, 1))

Compile(rx) == Parsed(SymbolsFrom(rx, 1))
=============================================================================
