----------------------------- MODULE MCSession -----------------------------
(***************************************************************************)
(* Session with the derivative engine of drv.c, for programs that call the *)
(* methods of a Document in any order; and the schemas, names and texts of *)
(* the runs of Session and Validator.  Each schema is an element; Contents *)
(* gives the content of every element of all of them, built with the       *)
(* constructors that the loader of the compact syntax uses; two are not    *)
(* simplified, as deref leaves them where a reference stood for notAllowed *)
(* or empty (rnd.c): unsimple = element a { none | (nothing, b+) } and     *)
(* b = element b { none, attribute x { text } }, with none = notAllowed    *)
(* and nothing = empty.                                                    *)
(***************************************************************************)
EXTENDS Session, Derivatives

A == <<"", "a">>
B == <<"", "b">>
X == <<"", "x">>
Y == <<"", "y">>

NoStart == <<"none">>

\* The operators ?, *, & mixed of the compact syntax, as rnc.c builds them.
Opt(p)  == ChoiceOf(p, Empty)
Star(p) == ChoiceOf(OneOrMoreOf(p), Empty)
El(name, label) == Element(QName(name[1], name[2]), label)
Att(name, p)    == Attribute(QName(name[1], name[2]), p)

Seq3(p1, p2, p3) == GroupOf(GroupOf(p1, p2), p3)

\* The contents of all the elements of all the schemas.
Contents ==
  LET b == El(B, "none")
      a == El(A, "none")
      AnyButB == NameExcept(AnyName, QName("", "b"))
      One == Value(BuiltinToken, <<"1">>)
      Number == Data(XsdInteger)
  IN [none     |-> Empty,
      sequence |-> Seq3(b, Opt(a), b),
      shuffle  |-> Star(InterleaveOf(b, a)),
      recur    |-> Star(El(A, "recur")),
      mixed    |-> InterleaveOf(Opt(b), TextPattern),
      wild     |-> Star(Element(AnyButB, "wild")),
      either   |-> ChoiceOf(GroupOf(El(B, "none"), a), GroupOf(El(B, "text"), b)),
      text     |-> TextPattern,
      needs    |-> GroupOf(Att(X, TextPattern), Opt(Att(Y, One))),
      oneof    |-> GroupOf(ChoiceOf(Att(X, Number), Att(Y, Data(XsdToken))), Opt(El(A, "oneof"))),
      anyatt   |-> InterleaveOf(OneOrMoreOf(Attribute(NameExcept(AnyName, QName("", "x")), TextPattern)),
                                Opt(El(A, "needs"))),
      integer  |-> Number,
      valued   |-> ChoiceOf(One, Value(BuiltinString, <<"x", " ">>)),
      except   |-> DataExcept(Data(XsdToken), One),
      list     |-> ListOf(Seq3(Number, Opt(Data(XsdToken)), One)),
      values   |-> ListOf(Star(One)),
      integers |-> ListOf(OneOrMoreOf(Number)),
      unsimple |-> Choice(NotAllowed, Group(Empty, OneOrMoreOf(El(B, "barred")))),
      barred   |-> Group(NotAllowed, Att(X, TextPattern)),
      user     |-> GroupOf(Att(X, Data(UserType)), Opt(Att(Y, Data(XsdInteger)))),
      usertext |-> ChoiceOf(Data(UserType), GroupOf(Att(X, Value(UserType, <<"1">>)), b))]

\* A schema whose start is one element a with the content of that label.
StartsOf(labels) == {El(A, label) : label \in labels}

ElementStarts   == StartsOf({"sequence", "shuffle", "recur", "mixed", "either"})
                     \cup {Element(NameExcept(AnyName, QName("", "b")), "wild")}
AttributeStarts == StartsOf({"needs", "oneof", "anyatt", "user", "usertext"})
TextStarts      == StartsOf({"none", "mixed", "text", "integer", "valued", "except", "list", "values"})
UnsimpleStarts  == StartsOf({"unsimple"})
ListStarts      == StartsOf({"integers"})

NamesAB  == {A, B}
NamesA   == {A}

NoAttributes  == {<<>>}
SomeAttributes ==
  LET x1 == <<X, <<"1">>>>  y1 == <<Y, <<"1">>>>  xz == <<X, <<"z">>>>
  IN  {<<>>, <<x1>>, <<xz>>, <<y1>>, <<x1, y1>>, <<y1, x1>>, <<y1, xz>>, <<y1, <<X, <<"x">>>>>>}

Chars      == {" ", "1", "2", "x"}
TextChunks == {<<" ">>, <<"1">>, <<"x">>}

\* All of them, with what each kind needs.
DocumentStarts == ElementStarts \cup AttributeStarts \cup TextStarts \cup UnsimpleStarts

SessionStarts == StartsOf({"usertext", "mixed"})
FewAttributes == {<<>>, <<<<Y, <<"2">>>>, <<X, <<"1">>>>>>}
AnyLevel   == {-1, 0, 1}   \* what an unassigned level may be
LongChunks == {<<"1">>, <<"2", " ", "x">>}
=============================================================================
