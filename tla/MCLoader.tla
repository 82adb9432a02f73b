------------------------------ MODULE MCLoader ------------------------------
(***************************************************************************)
(* Loader on families of small schemas, two of them loaded one after the   *)
(* other, compared with what the schemas mean.                             *)
(***************************************************************************)
EXTENDS Loader, Meaning

CONSTANT Depth    \* how many elements deep meanings are compared

-----------------------------------------------------------------------------
(* Schemas. *)

Def(name, method, e) == <<"define", name, method, e>>
Is(name, e)          == Def(name, "=", e)
Ref(name)            == <<"ref", name>>
Element(class, e)    == <<"element", class, e>>
El(name, e)          == Element(<<"name", name>>, e)
Attribute(class, e)  == <<"attribute", class, e>>
Att(name)            == Attribute(<<"name", name>>, <<"text">>)
Both(e1, e2)         == <<"group", e1, e2>>
Or(e1, e2)           == <<"choice", e1, e2>>
Opt(e)               == <<"optional", e>>
Token                == <<"data", <<NoPrefix, "token">>>>
One                  == <<"value", <<NoPrefix, "token">>, "1">>
Nothing              == <<"empty">>
Txt                  == <<"text">>
Schema(contents)     == <<"contents", <<>>, contents>>
Alone(e)             == <<"pattern", <<>>, e>>
External(file)       == <<"external", file, NoPrefix>>
Nested(e)            == <<"grammar", <<Is("start", e)>>>>

\* Two definitions that refer to each other and to themselves.
Family ==
  {Schema(<<Is("start", s), Is("x", x), Is("y", y)>>) :
     s \in {El("r", Ref("x")), Nested(Or(El("a", <<"parent", "x">>), El("a", <<"parent", "y">>)))},
     x \in {Opt(El("b", Ref("x"))), Or(El("b", Ref("y")), El("b", Ref("x"))), Ref("y"),
            <<"zeroOrMore", Both(El("a", Ref("y")), Opt(El("a", Ref("x"))))>>,
            Both(Nested(El("b", <<"parent", "y">>)), El("b", Ref("y"))),
            Both(Both(Ref("y"), Opt(El("a", Ref("x")))), Opt(El("b", Ref("y"))))},
     y \in {Nothing, <<"mixed", El("b", Ref("x"))>>, Opt(El("b", Ref("x")))}}

\* Contents that are allowed, and contents that are not.
Restricted ==
  {Schema(<<Is("start", El("r", e)), Is("x", Opt(Att("u"))), Is("y", Both(Att("u"), Att("v")))>>) :
     e \in {Both(Ref("x"), Token), Both(Txt, Token), <<"oneOrMore", Ref("x")>>, <<"oneOrMore", Ref("y")>>,
            <<"list", Both(Token, One)>>, <<"list", Ref("x")>>, <<"oneOrMore", Token>>,
            Attribute(<<"name", "w">>, Or(One, Nothing)), Attribute(<<"name", "w">>, Ref("y")),
            <<"dataExcept", Token, Or(One, Token)>>, <<"dataExcept", Token, <<"list", One>>>>,
            <<"dataExcept", One, One>>,
            Or(Both(Txt, Token), Txt), Both(Both(Txt, Token), Ref("x")), Both(Both(Ref("x"), Txt), Token),
            Attribute(<<"name", "w">>, Opt(Both(Token, One)))}}
  \cup {Schema(<<Is("start", El("r", e)), Is("x", x)>>) :
          x \in {Nothing, <<"notAllowed">>},
          e \in {Both(Ref("x"), Both(Txt, Token)), Both(Both(Ref("x"), Txt), Token), Both(Ref("x"), Att("u")),
                 <<"oneOrMore", Both(Att("u"), Ref("x"))>>, <<"list", Or(Ref("x"), Token)>>}}
  \cup {Schema(<<Is("start", Ref("x")), Is("x", <<"notAllowed">>)>>)}
  \cup {Alone(e) : e \in {<<"notAllowed">>, Or(El("a", Txt), El("b", Nothing)), Opt(El("a", Txt)), Att("u"),
                                  Ref("x"), <<"parent", "x">>}}

\* Definitions in several parts.
Combined ==
  {Schema(<<Def("start", m1, El("a", Ref("x"))), Def("start", m2, El("b", Ref("x"))),
            Def("x", m2, El("c", Ref("x"))), Def("x", m3, Opt(Att("u")))>>) :
     m1 \in {"=", "|="}, m2 \in {"|=", "&="}, m3 \in {"=", "&=", "|="}}

\* Grammars spread over files.
SmallFiles ==
  [base |-> Schema(<<Is("start", El("a", Ref("x"))), Is("x", Opt(El("b", Ref("y")))), Is("y", Txt)>>),
   open |-> Schema(<<Is("start", El("a", Ref("x")))>>),
   leaf |-> Alone(El("b", Or(Ref("x"), Nothing))),
   up   |-> Schema(<<Is("start", El("b", Opt(<<"parent", "x">>)))>>),
   same |-> <<"contents", <<>>, <<Is("start", El("a", Ref("x"))), Is("x", Att("u"))>>>>,
   own  |-> <<"contents", <<<<"default", "p", "v">>, <<"namespace", "q", Inherit>>>>,
              <<Is("start", El("a", Ref("x"))), Is("x", Opt(Element(<<"prefixed", "q", "b">>, Ref("x"))))>>>>,
   lost |-> <<"pattern", <<>>, Element(<<"prefixed", "q", "b">>, Nothing)>>]

Spread ==
  {Schema(<<<<"include", f, NoPrefix, body>>, Def("x", m, Opt(El("c", Ref("x"))))>>) :
     f \in {"base", "open", "leaf"}, m \in {"=", "|="},
     body \in {<<>>, <<Is("x", El("d", Ref("x")))>>, <<Is("start", El("d", Ref("x")))>>}}
  \cup {Schema(<<Is("start", El("a", External(f))), Is("x", e)>>) :
          f \in {"base", "leaf", "up"}, e \in {Opt(El("c", Ref("x"))), External("up")}}

\* Prefixes: what a file inherits, what the declarations of another do not reach, and
\* declarations that are missing or doubled.  Name classes.
Headed(decls, e, x) == <<"contents", decls, <<Is("start", e), Is("x", x)>>>>

Declarations ==
  {<<>>, <<<<"default", NoPrefix, "u">>>>, <<<<"namespace", "q", "v">>>>,
   <<<<"namespace", "q", "v">>, <<"default", "q", "u">>>>,
   <<<<"default", "q", "u">>, <<"namespace", "p", Inherit>>>>}

Prefixed ==
  {Headed(decls, El("a", <<"external", f, pfx>>), Att("u")) :
     decls \in Declarations, f \in {"same", "own", "lost"}, pfx \in {NoPrefix, "q"}}
  \cup {<<"contents", decls, <<<<"include", f, pfx, <<Is("x", Element(<<"prefixed", "q", "b">>, Att("v")))>>>>>>>> :
          decls \in Declarations, f \in {"same", "own", "none"}, pfx \in {NoPrefix, "q"}}
  \cup {Headed(<<<<"datatypes", pfx, "lib">>>> \o more, El("a", <<"data", <<"xsd", "int">>>>),
               Or(Att("u"), <<"value", <<"d", "int">>, "1">>)) :
          pfx \in {"d", "xsd"}, more \in {<<>>, <<<<"datatypes", "d", "lib">>>>, <<<<"namespace", "d", "v">>>>}}

Classes ==
  LET A == <<"name", "a">>  QA == <<"prefixed", "q", "a">>  Q == <<"all", "q">>  Any == <<"any">>
      decls == <<<<"default", NoPrefix, "u">>, <<"namespace", "q", "v">>>>
      cs == {<<"or", A, QA>>, <<"or", A, A>>, <<"or", Any, QA>>, <<"or", <<"or", QA, A>>, Any>>,
             <<"but", Any, A>>, <<"but", Q, QA>>, <<"but", Any, <<"or", Q, A>>>>, <<"but", A, QA>>,
             <<"or", <<"but", Any, Q>>, QA>>, <<"prefixed", "xml", "a">>, <<"all", "r">>}
  IN  {Headed(decls, Element(c, Ref("x")), Opt(Attribute(c, <<"text">>))) : c \in cs}

NamesOfClasses == {"", "u", "v", XmlUri, "other"} \X {"a", "b", "other"}

\* Loops that are reported: of the start pattern, and in an element below it.
Looping ==
  {Schema(<<Is("start", Ref("x")), Is("x", Or(El("a", Txt), e))>>) :
     e \in {Ref("x"), Nested(<<"parent", "x">>), El("b", Ref("x"))}}
  \cup {Schema(<<Is("start", El("a", El("b", Ref("x")))), Is("x", Opt(Ref("y"))), Is("y", e)>>) :
          e \in {Ref("x"), Both(Txt, Ref("x")), El("c", Ref("x"))}}

\* Two contents that become equal one after the other while equal patterns merge.
Merging ==
  LET Z(e) == Or(El("b", Ref("z")), e)
      W(e) == Or(Nested(El("b", <<"parent", "z">>)), e)
  IN  {Schema(<<Is("start", Nested(El("a", <<"parent", "x">>))),
                Is("x", f), Is("y", g), Is("z", Nothing)>>) :
         f \in {Z(Or(El("a", Ref("x")), El("a", Ref("y")))), W(Or(El("a", Ref("x")), El("a", Ref("y"))))},
         g \in {W(Or(El("a", Ref("x")), El("a", Ref("y")))), Z(Or(El("a", Ref("y")), El("a", Ref("x"))))}}

\* What is loaded after another schema: some that load, some that are refused while
\* they are read, dereferenced or checked.
Repeated == {Schema(<<Is("start", El("r", Ref("x"))), Is("x", x), Is("y", y)>>) :
               x \in {Opt(El("b", Ref("x"))), Or(El("b", Ref("y")), El("b", Ref("x"))), Both(Ref("y"), Token)},
               y \in {Nothing, Opt(El("b", Ref("x"))), Both(Txt, Ref("z"))}}

AllSchemas ==
  Repeated \cup Family \cup Restricted \cup Combined \cup Spread \cup Looping \cup Merging
  \cup Prefixed \cup Classes

\* The schema of the counterexample.
ChainSchemas == {Schema(<<Is("start", Ref("x")), Is("x", Ref("y")), Is("y", Ref("z")), Is("z", Ref("y"))>>)}

-----------------------------------------------------------------------------
(* Properties. *)

\* The names in a name class of the store.
RECURSIVE NamesIn(_)
NamesIn(nc) ==
  CASE nc[1] = "qname"      -> {<<nc[2], nc[3]>>}
    [] nc[1] = "nsName"     -> {n \in Universe : n[1] = nc[2]}
    [] nc[1] = "anyName"    -> Universe
    [] nc[1] = "nameChoice" -> NamesIn(nc[2]) \cup NamesIn(nc[3])
    [] nc[1] = "except"     -> NamesIn(nc[2]) \ NamesIn(nc[3])

\* The tree that pattern p stands for.
RECURSIVE Unfold(_, _, _)
Unfold(heap, p, k) ==
  LET c == heap[p]
  IN  CASE c.kind \in {"empty", "text", "notAllowed"} -> <<c.kind>>
        [] c.kind = "data"      -> <<"data", c.a>>
        [] c.kind = "value"     -> <<"value", c.a, c.b>>
        [] c.kind = "element"   -> <<"element", NamesIn(c.b), IF k = 0 THEN Cut ELSE Unfold(heap, c.a, k - 1)>>
        [] c.kind = "attribute" -> <<"attribute", NamesIn(c.b), Unfold(heap, c.a, k)>>
        [] c.kind = "list"      -> <<"list", Unfold(heap, c.a, k)>>
        [] c.kind = "oneOrMore" -> Repeat(Unfold(heap, c.a, k))
        [] c.kind \in Binary    -> Tree(c.kind, Unfold(heap, c.a, k), Unfold(heap, c.b, k))

LoadedStarts == {loaded[i].start : i \in DOMAIN loaded}

\* Every start pattern that was loaded means what its schema means, whatever scopes
\* its definitions and references went through and which cells were merged and moved;
\* and it still does while other schemas are loaded, or fail to, and validation adds
\* patterns.
MeaningKept ==
  \A i \in DOMAIN loaded : Unfold(store.heap, loaded[i].start, Depth) = MeaningOf(loaded[i].schema, Depth)

\* Equal patterns are one pattern: no two interned cells are equal, and all cells of
\* a loaded schema are interned, so that rn_choice and the memo may compare positions.
Canonical ==
  /\ \A p, q \in store.ht : SameCell(store.heap[p], store.heap[q]) => p = q
  /\ \A p \in Reachable(store.heap, LoadedStarts) : p \in store.ht

\* The nullable flag of every pattern of a loaded schema is right, also where the
\* pattern is recursive and the flag was set before its references were resolved.
NullableRight ==
  \A p \in Reachable(store.heap, LoadedStarts) : NullableAt(store, p) <=> Nullable(Unfold(store.heap, p, 0))


\* A load leaves nothing behind but the patterns of its schema.
NoGarbage ==
  [][phase = "fixed" => base + 1 .. Len(store'.heap) \subseteq Reachable(store'.heap, {start'})]_vars

\* Dereferencing comes to an end.
DerefEnds == phase # "hung"

=============================================================================
