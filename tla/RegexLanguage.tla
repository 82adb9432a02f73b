--------------------------- MODULE RegexLanguage ---------------------------
(***************************************************************************)
(* What the expressions mean, from the grammar of regular expressions in   *)
(* XML Schema: written over the text of an expression, apart from parser   *)
(* and derivatives, to compare them with.                                  *)
(*                                                                         *)
(* The productions with characters only: . \s \d and their complements,    *)
(* escapes, groups of characters, ranges, subtraction.  A dash stands for  *)
(* itself at either edge of a group.  As in rx.c, a quantity without a     *)
(* least number is one from 0.                                             *)
(***************************************************************************)
EXTENDS Characters

Cut(s, i, j) == SubSeq(s, i, j)
Special      == {"\\", "|", ".", "?", "*", "+", "{", "}", "[", "]", "(", ")"}
Digits(s)    == \A i \in DOMAIN s : s[i] \in Digit
Ends(s, c)   == s # <<>> /\ s[Len(s)] = c
Begins(s, c) == s # <<>> /\ s[1] = c
Inner(s)     == Cut(s, 2, Len(s) - 1)
Front(s)     == Cut(s, 1, Len(s) - 1)

Universe == DOMAIN Code

\* The characters that an atom of one character, or an escape, stands for.
Escape(s) ==
  IF Len(s) # 2 \/ s[1] # "\\" THEN {}
  ELSE CASE s[2] \in Special \cup {"-", "^"} -> {s[2]}
         [] s[2] = "n" -> {"\n"}
         [] s[2] = "d" -> Digit
         [] s[2] = "D" -> Universe \ Digit
         [] s[2] = "s" -> {c \in Universe : xmlc_white_space(c)}
         [] s[2] = "S" -> {c \in Universe : ~xmlc_white_space(c)}
         [] OTHER      -> {}

\* The characters of a range, and by themselves but for the dash.
IsCharOf(s) == (Len(s) = 1 /\ s[1] \notin {"[", "]", "-", "\\", "."}) \/ (Escape(s) # {} /\ s[2] \notin {"d", "D", "s", "S"})
CharOf(s)   == IF Len(s) = 1 THEN s[1] ELSE CHOOSE c \in Escape(s) : TRUE

\* The members of a group: the text is cut into members in some way, and the first
\* "^" of a group is its complement.
Members(s) ==
  LET ranges == {k \in 1 .. Len(s) : s[k] = "-" /\ IsCharOf(Cut(s, 1, k - 1)) /\ IsCharOf(Cut(s, k + 1, Len(s)))}
  IN  CASE IsCharOf(s)     -> {CharOf(s)}
        [] s = <<".">>     -> Universe \ {"\n", "\r"}
        [] Escape(s) # {}  -> Escape(s)
        [] ranges # {}     -> LET k == CHOOSE k \in ranges : TRUE
                              IN  CodeRange(CharOf(Cut(s, 1, k - 1)), CharOf(Cut(s, k + 1, Len(s))))
        [] OTHER           -> {}

IsMember(s) ==
  \/ IsCharOf(s) \/ s = <<".">> \/ Escape(s) # {}
  \/ \E k \in 1 .. Len(s) : s[k] = "-" /\ IsCharOf(Cut(s, 1, k - 1)) /\ IsCharOf(Cut(s, k + 1, Len(s)))

\* The sets of characters that a group can stand for: none if it is no group.
RECURSIVE GroupSets(_), ClassSets(_)
GroupSets(s) ==
  UNION {IF ~IsMember(Cut(s, 1, i)) THEN {}
         ELSE LET first == Members(Cut(s, 1, i))
              IN  {first \cup g : g \in IF i = Len(s) THEN {{}} ELSE GroupSets(Cut(s, i + 1, Len(s)))} : i \in 1 .. Len(s)}

\* What is left of a group when a dash is taken off at one of its edges, or at both.
DashesOff(s) ==
  {Cut(s, i, j) : i \in IF Begins(s, "-") THEN {1, 2} ELSE {1},
                  j \in IF Ends(s, "-") THEN {Len(s) - 1, Len(s)} ELSE {Len(s)}}

PositiveSets(s) ==
  UNION {LET dash == IF t = s THEN {} ELSE {"-"}
         IN  {g \cup dash : g \in IF t = <<>> /\ s # t THEN {{}} ELSE GroupSets(t)} : t \in DashesOff(s)}

Groups(s) ==
  LET positive == ~Begins(s, "^")
  IN  {IF positive THEN g ELSE Universe \ g : g \in PositiveSets(IF positive THEN s ELSE Tail(s))}

\* A class expression in its brackets.
ClassSets(s) ==
  IF Len(s) < 3 \/ s[1] # "[" \/ s[Len(s)] # "]" THEN {}
  ELSE LET b == Inner(s)
       IN  Groups(b)
             \cup UNION {IF b[i] = "-" THEN {g \ c : g \in Groups(Cut(b, 1, i - 1)), c \in ClassSets(Cut(b, i + 1, Len(b)))}
                         ELSE {} : i \in DOMAIN b}

\* The quantities, as pairs of the least and the greatest number: none stands for one.
Unbounded == 1000

Least(n) == {<<NumberOf(n), Unbounded>>}

Between(n, m) == IF NumberOf(n) <= NumberOf(m) THEN {<<NumberOf(n), NumberOf(m)>>} ELSE {}

Counts(n) ==
  IF Digits(n) THEN Between(n, n)
  ELSE UNION {LET least == Cut(n, 1, i - 1)  most == Cut(n, i + 1, Len(n))
              IN  CASE n[i] # "," \/ ~Digits(least) \/ ~Digits(most) -> {}
                    [] OTHER -> IF most = <<>> THEN Least(least) ELSE Between(least, most) : i \in DOMAIN n}

Quantities(q) ==
  CASE q = <<>>    -> {<<1, 1>>}
    [] q = <<"?">> -> {<<0, 1>>}
    [] q = <<"*">> -> {<<0, Unbounded>>}
    [] q = <<"+">> -> {<<1, Unbounded>>}
    [] Begins(q, "{") /\ Ends(q, "}") /\ Len(q) >= 2 -> Counts(Inner(q))
    [] OTHER -> {}

\* Somewhere a dash stands at the edge of a group: after its opening or before its
\* end, be that a bracket or a subtraction.
DashAtEdge(s) ==
  \E i \in DOMAIN s :
    /\ s[i] = "-"
    /\ \/ Ends(Cut(s, 1, i - 1), "[")
       \/ Ends(Cut(s, 1, i - 1), "^") /\ Ends(Cut(s, 1, i - 2), "[")
       \/ Begins(Cut(s, i + 1, Len(s)), "]")
       \/ Begins(Cut(s, i + 1, Len(s)), "-") /\ Begins(Cut(s, i + 2, Len(s)), "[")

-----------------------------------------------------------------------------
(***************************************************************************)
(* Syntax and meaning, over every way to cut an expression.                *)
(***************************************************************************)
RECURSIVE IsExpression(_), IsBranch(_)

IsAtom(s) ==
  \/ Len(s) = 1 /\ s[1] \notin Special
  \/ s = <<".">> \/ Escape(s) # {} \/ ClassSets(s) # {}
  \/ Begins(s, "(") /\ Ends(s, ")") /\ Len(s) >= 2 /\ IsExpression(Inner(s))

IsPiece(s) ==
  \E i \in DOMAIN s : Quantities(Cut(s, i + 1, Len(s))) # {} /\ IsAtom(Cut(s, 1, i))

IsBranch(s) ==
  s = <<>> \/ \E i \in DOMAIN s : IsPiece(Cut(s, 1, i)) /\ IsBranch(Cut(s, i + 1, Len(s)))

\* The places where the first branch of an expression can end.
BranchEnds(s) == {i \in 1 .. Len(s) + 1 : i = Len(s) + 1 \/ s[i] = "|"}

IsExpression(s) ==
  \E i \in BranchEnds(s) :
    IsBranch(Cut(s, 1, i - 1)) /\ (i > Len(s) \/ IsExpression(Cut(s, i + 1, Len(s))))

\* A text is in the language only if the expression is well-formed in all its parts.
RECURSIVE InExpression(_, _), InBranch(_, _), InTimes(_, _, _, _)

InAtom(s, w) ==
  \/ Len(w) = 1 /\ Len(s) = 1 /\ s[1] \notin Special /\ w = s
  \/ Len(w) = 1 /\ (s = <<".">> \/ Escape(s) # {}) /\ w[1] \in Members(s)
  \/ Len(w) = 1 /\ \E class \in ClassSets(s) : w[1] \in class
  \/ Begins(s, "(") /\ Ends(s, ")") /\ Len(s) >= 2 /\ InExpression(Inner(s), w)

\* The atom, at least and at most so many times; an empty one counts as needed.
InTimes(s, w, least, most) ==
  \/ w = <<>> /\ least = 0
  \/ /\ most > 0
     /\ \E i \in (IF w = <<>> THEN {0} ELSE DOMAIN w) :
          /\ InAtom(s, Cut(w, 1, i))
          /\ i = 0 \/ InTimes(s, Cut(w, i + 1, Len(w)), IF least = 0 THEN 0 ELSE least - 1, most - 1)

InPiece(s, w) ==
  \E i \in DOMAIN s :
    IsAtom(Cut(s, 1, i)) /\ \E q \in Quantities(Cut(s, i + 1, Len(s))) : InTimes(Cut(s, 1, i), w, q[1], q[2])

InBranch(s, w) ==
  \/ s = <<>> /\ w = <<>>
  \/ \E i \in DOMAIN s, j \in 0 .. Len(w) :
       InPiece(Cut(s, 1, i), Cut(w, 1, j)) /\ InBranch(Cut(s, i + 1, Len(s)), Cut(w, j + 1, Len(w)))

InExpression(s, w) ==
  \E i \in BranchEnds(s) :
    \/ InBranch(Cut(s, 1, i - 1), w) /\ (i > Len(s) \/ IsExpression(Cut(s, i + 1, Len(s))))
    \/ i <= Len(s) /\ IsBranch(Cut(s, 1, i - 1)) /\ InExpression(Cut(s, i + 1, Len(s)), w)
=============================================================================
