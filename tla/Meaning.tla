------------------------------ MODULE Meaning ------------------------------
(***************************************************************************)
(* What a schema in the compact syntax means, told from its plain form     *)
(* (Namespaces) without a store, references or scopes to fold; and the     *)
(* restrictions of RELAX NG told as paths that must not occur.  MCLoader   *)
(* compares it with what the loader builds.                                *)
(*                                                                         *)
(* A meaning is a tree, cut off below a number of elements.  A choice is   *)
(* the set of its alternatives.                                            *)
(***************************************************************************)
EXTENDS Namespaces, FiniteSets

LOCAL INSTANCE SequencesExt

Cut == <<"cut">>

-----------------------------------------------------------------------------
(* Trees, simplified as RELAX NG simplifies: notAllowed and empty vanish. *)

RECURSIVE Nullable(_)
Nullable(t) ==
  \/ t[1] \in {"empty", "text"}
  \/ t[1] = "choice" /\ \E u \in t[2] : Nullable(u)
  \/ t[1] \in {"group", "interleave"} /\ Nullable(t[2]) /\ Nullable(t[3])
  \/ t[1] = "oneOrMore" /\ Nullable(t[2])

\* The one choice between the trees of ts.
Alternatives(ts) ==
  LET all  == UNION {IF t[1] = "choice" THEN t[2] ELSE {t} : t \in ts} \ {<<"notAllowed">>}
      rest == IF \E t \in all \ {<<"empty">>} : Nullable(t) THEN all \ {<<"empty">>} ELSE all
  IN  IF rest = {} THEN <<"notAllowed">>
      ELSE IF Cardinality(rest) = 1 THEN CHOOSE t \in rest : TRUE
      ELSE <<"choice", rest>>

Tree(kind, a, b) ==
  CASE kind = "choice" -> Alternatives({a, b})
    [] kind \in {"group", "interleave"} ->
         IF <<"notAllowed">> \in {a, b} THEN <<"notAllowed">>
         ELSE IF a = <<"empty">> THEN b
         ELSE IF b = <<"empty">> THEN a
         ELSE <<kind, a, b>>
    [] kind = "dataExcept" -> <<kind, a, b>>

Repeat(t) == IF t[1] \in {"empty", "notAllowed", "text"} THEN t ELSE <<"oneOrMore", t>>

-----------------------------------------------------------------------------
(***************************************************************************)
(* A grammar is [defs, around]: all definitions of a name that count, in   *)
(* their order, and the grammar it stands in.                              *)
(***************************************************************************)
RECURSIVE Definitions(_)

\* The definitions of an included file, less those that the body replaces.
IncludedDefs(c) ==
  LET body == FlattenSeq([i \in DOMAIN c[3] |-> Definitions(c[3][i])])
      file == FlattenSeq([i \in DOMAIN c[2][2] |-> Definitions(c[2][2][i])])
  IN  SelectSeq(file, LAMBDA d : \A i \in DOMAIN body : body[i][2] # d[2]) \o body

Definitions(c) == IF c[1] = "include" THEN IncludedDefs(c) ELSE <<c>>

NoGrammar == [defs |-> <<>>, around |-> <<>>]

GrammarOf(contents, around) ==
  [defs |-> FlattenSeq([i \in DOMAIN contents |-> Definitions(contents[i])]), around |-> <<around>>]

Named(g, name) == SelectSeq(g.defs, LAMBDA d : d[2] = name)

\* The method that combines the definitions of a name.
Method(ds) == IF \E i \in DOMAIN ds : ds[i][3] = "|=" THEN "choice" ELSE "interleave"

RECURSIVE Means(_, _, _), MeansName(_, _, _)

\* The tree of syntax e in grammar g, down to k elements.
Means(e, g, k) ==
  LET Sub(i) == Means(e[i], g, k)
  IN  CASE e[1] \in {"empty", "text", "notAllowed", "data", "value"} -> e
        [] e[1] \in {"choice", "group", "interleave", "dataExcept"}  -> Tree(e[1], Sub(2), Sub(3))
        [] e[1] = "oneOrMore"  -> Repeat(Sub(2))
        [] e[1] = "zeroOrMore" -> Alternatives({Repeat(Sub(2)), <<"empty">>})
        [] e[1] = "optional"   -> Alternatives({Sub(2), <<"empty">>})
        [] e[1] = "mixed"      -> Tree("interleave", Sub(2), <<"text">>)
        [] e[1] = "list"       -> <<"list", Sub(2)>>
        [] e[1] = "attribute"  -> <<"attribute", e[2], Sub(3)>>
        [] e[1] = "element"    -> <<"element", e[2], IF k = 0 THEN Cut ELSE Means(e[3], g, k - 1)>>
        [] e[1] = "ref"        -> MeansName(g, e[2], k)
        [] e[1] = "parent"     -> MeansName(g.around[1], e[2], k)
        [] e[1] = "grammar"    -> MeansName(GrammarOf(e[2], g), Start, k)
        [] e[1] = "external"   ->
             IF e[2][1] = "pattern" THEN Means(e[2][2], g, k)
             ELSE MeansName(GrammarOf(e[2][2], g), Start, k)

MeansName(g, name, k) ==
  LET ds == Named(g, name)
      combined[i \in DOMAIN ds] ==
        IF i = 1 THEN Means(ds[1][4], g, k)
        ELSE Tree(Method(ds), combined[i - 1], Means(ds[i][4], g, k))
  IN  combined[Len(ds)]

\* A plain file is a grammar, or a pattern alone.
PlainMeaning(file, k) ==
  IF file[1] = "contents" THEN MeansName(GrammarOf(file[2], NoGrammar), Start, k)
  ELSE Means(file[2], NoGrammar, k)

\* A schema inherits no namespace.
MeaningOf(schema, k) == PlainMeaning(PlainFile(schema, NoUri), k)

-----------------------------------------------------------------------------
(***************************************************************************)
(* Faults of the syntax: names without a definition, definitions that do   *)
(* not combine, replacements of nothing.                                   *)
(***************************************************************************)
SubSyntax(e) ==
  CASE e[1] \in {"choice", "group", "interleave", "dataExcept"} -> {e[2], e[3]}
    [] e[1] \in {"oneOrMore", "zeroOrMore", "optional", "mixed", "list"} -> {e[2]}
    [] e[1] \in {"attribute", "element"} -> {e[3]}
    [] OTHER -> {}

\* Definitions of one name of which two are heads, or which combine in two ways.
Conflict(ds) ==
  \/ Cardinality({i \in DOMAIN ds : ds[i][3] = "="}) > 1
  \/ \E i, j \in DOMAIN ds : ds[i][3] = "|=" /\ ds[j][3] = "&="

\* An include of what is no grammar, or with a replacement of nothing.
BadInclude(c) ==
  /\ c[1] = "include"
  /\ \/ c[2][1] = "pattern"
     \/ \E i \in DOMAIN c[3] : \A j \in DOMAIN c[2][2] : c[2][2][j][2] # c[3][i][2]

RECURSIVE SyntaxFault(_, _), GrammarFault(_, _)

SyntaxFault(e, g) ==
  \/ e[1] = "ref" /\ Named(g, e[2]) = <<>>
  \/ e[1] = "parent" /\ (g.around = <<>> \/ Named(g.around[1], e[2]) = <<>>)
  \/ e[1] = "dataExcept" /\ e[2][1] # "data"
  \/ e[1] = "grammar" /\ GrammarFault(e[2], g)
  \/ /\ e[1] = "external"
     /\ IF e[2][1] = "pattern" THEN SyntaxFault(e[2][2], g)
        ELSE GrammarFault(e[2][2], g)
  \/ \E sub \in SubSyntax(e) : SyntaxFault(sub, g)

GrammarFault(contents, around) ==
  \/ \E i \in DOMAIN contents : BadInclude(contents[i])
  \/ LET g == GrammarOf(contents, around)
     IN  \/ Named(g, Start) = <<>>
         \/ \E i \in DOMAIN g.defs : \/ Conflict(Named(g, g.defs[i][2]))
                                     \/ SyntaxFault(g.defs[i][4], g)

-----------------------------------------------------------------------------
(***************************************************************************)
(* Loops.  A place is <<e, g>>, syntax in its grammar; a place leads to    *)
(* its parts, and a reference to the definitions of its name.              *)
(***************************************************************************)
Bodies(g, name) == {<<Named(g, name)[i][4], g>> : i \in DOMAIN Named(g, name)}

LeadsTo(place) ==
  LET e == place[1]
      g == place[2]
  IN  CASE e[1] = "ref"      -> Bodies(g, e[2])
        [] e[1] = "parent"   -> Bodies(g.around[1], e[2])
        [] e[1] = "grammar"  -> Bodies(GrammarOf(e[2], g), Start)
        [] e[1] = "external" ->
             IF e[2][1] = "pattern" THEN {<<e[2][2], g>>}
             ELSE Bodies(GrammarOf(e[2][2], g), Start)
        [] OTHER             -> {<<sub, g>> : sub \in SubSyntax(e)}

RECURSIVE Closure(_, _)
Closure(places, through) ==
  LET more == UNION {LeadsTo(q) : q \in {r \in places : r[1][1] \in through}} \ places
  IN  IF more = {} THEN places ELSE Closure(places \cup more, through)

NoElement == {"choice", "group", "interleave", "dataExcept", "oneOrMore", "zeroOrMore", "optional",
              "mixed", "list", "attribute", "ref", "parent", "grammar", "external"}

Origin(file) ==
  IF file[1] = "contents" THEN Bodies(GrammarOf(file[2], NoGrammar), Start)
  ELSE {<<file[2], NoGrammar>>}

Places(file) == Closure(Origin(file), NoElement \cup {"element"})

\* A place that comes back to itself without an element between.
LoopFault(file) ==
  \E q \in Places(file) :
    q[1][1] \in NoElement /\ q \in Closure(LeadsTo(q), NoElement)

-----------------------------------------------------------------------------
(* Content types and prohibited paths, in the trees of the contents. *)

Kids(t) ==
  CASE t[1] = "choice" -> t[2]
    [] t[1] \in {"group", "interleave", "dataExcept"} -> {t[2], t[3]}
    [] t[1] \in {"oneOrMore", "list"} -> {t[2]}
    [] t[1] = "attribute" -> {t[3]}
    [] OTHER -> {}

\* All the ways down from t.
RECURSIVE Ways(_)
Ways(t) == {<<t>>} \cup {<<t>> \o w : w \in UNION {Ways(u) : u \in Kids(t)}}

\* What stands in t beside attributes: data, or anything else.
RECURSIVE Stuff(_)
Stuff(t) ==
  CASE t[1] \in {"data", "value", "dataExcept", "list"} -> {"simple"}
    [] t[1] \in {"text", "element"} -> {"complex"}
    [] t[1] = "attribute" -> {}
    [] OTHER -> UNION {Stuff(u) : u \in Kids(t)}

\* Data has company, of more data or of anything else.
Mixes(t) ==
  \/ /\ t[1] \in {"group", "interleave"}
     /\ Stuff(t[2]) # {} /\ Stuff(t[3]) # {} /\ "simple" \in Stuff(t[2]) \cup Stuff(t[3])
  \/ t[1] = "oneOrMore" /\ "simple" \in Stuff(t[2])

\* A path that must not occur, whatever the contents mix.
Prohibited(way) ==
  LET kind(i) == way[i][1]
      Below(i) == {kind(j) : j \in i + 1 .. Len(way)}
  IN  \E i \in DOMAIN way :
        \/ kind(i) = "attribute" /\ Below(i) \cap {"attribute", "element"} # {}
        \/ kind(i) = "list" /\ Below(i) \cap {"element", "attribute", "text", "interleave"} # {}
        \/ /\ kind(i) = "oneOrMore"
           /\ \E j \in i + 1 .. Len(way) : kind(j) \in {"group", "interleave"} /\ "attribute" \in Below(j)
        \/ /\ kind(i) = "dataExcept" /\ i < Len(way) /\ way[i + 1] = way[i][3]
           /\ Below(i) \cap {"attribute", "element", "list", "text", "empty", "group",
                             "interleave", "oneOrMore"} # {}

\* A path that ends in a mix.  The tokens of a list are no mix.
MixedAt(way) == Mixes(way[Len(way)]) /\ \A j \in 1 .. Len(way) - 1 : way[j][1] # "list"

\* Above the mix is a choice, or something with nothing but attributes beside it.
OverlookedAt(way) ==
  /\ MixedAt(way)
  /\ \E j \in 1 .. Len(way) - 1 :
       \/ way[j][1] = "choice"
       \/ way[j][1] \in {"group", "interleave"} /\ {} \in {Stuff(way[j][2]), Stuff(way[j][3])}

PathFault(t) == \E way \in Ways(t) : Prohibited(way)
MixFault(t)  == \E way \in Ways(t) : MixedAt(way)

\* A content as it is written, through references, with nothing simplified.
RECURSIVE Written(_, _), WrittenName(_, _)
Written(e, g) ==
  LET Sub(i) == Written(e[i], g)
      Maybe(t) == <<"choice", {t, <<"empty">>}>>
  IN  CASE e[1] \in {"group", "interleave", "dataExcept"} -> <<e[1], Sub(2), Sub(3)>>
        [] e[1] \in {"oneOrMore", "list"} -> <<e[1], Sub(2)>>
        [] e[1] = "choice"     -> <<"choice", {Sub(2), Sub(3)}>>
        [] e[1] = "zeroOrMore" -> Maybe(<<"oneOrMore", Sub(2)>>)
        [] e[1] = "optional"   -> Maybe(Sub(2))
        [] e[1] = "mixed"      -> <<"interleave", Sub(2), <<"text">>>>
        [] e[1] = "attribute"  -> <<"attribute", e[2], Sub(3)>>
        [] e[1] = "ref"        -> WrittenName(g, e[2])
        [] e[1] = "parent"     -> WrittenName(g.around[1], e[2])
        [] e[1] = "grammar"    -> WrittenName(GrammarOf(e[2], g), Start)
        [] e[1] = "external"   ->
             IF e[2][1] = "pattern" THEN Written(e[2][2], g)
             ELSE WrittenName(GrammarOf(e[2][2], g), Start)
        [] OTHER -> e

WrittenName(g, name) ==
  LET ds == Named(g, name)
      parts == {Written(ds[i][4], g) : i \in DOMAIN ds}
  IN  IF Cardinality(parts) = 1 THEN CHOOSE t \in parts : TRUE
      ELSE IF Method(ds) = "choice" THEN <<"choice", parts>>
      ELSE FoldSet(LAMBDA t, u : <<"interleave", t, u>>, <<"empty">>, parts)

Overlooks(t) == \E way \in Ways(t) : OverlookedAt(way)

StartFault(t) == \E u \in IF t[1] = "choice" THEN t[2] ELSE {t} : u[1] \notin {"element", "notAllowed"}

\* The contents of a file's elements, as places.
ContentsOf(file) == {<<q[1][3], q[2]>> : q \in {r \in Places(file) : r[1][1] = "element"}}

\* Everything but mixes in the contents.
PlainFault(file) ==
  \/ IF file[1] = "contents" THEN GrammarFault(file[2], NoGrammar) ELSE SyntaxFault(file[2], NoGrammar)
  \/ LoopFault(file)
  \/ StartFault(PlainMeaning(file, 0))
  \/ \E c \in ContentsOf(file) : PathFault(Means(c[1], c[2], 0))

MixesIn(file) == {c \in ContentsOf(file) : MixFault(Means(c[1], c[2], 0))}

\* A reference stands for what vanishes when RELAX NG simplifies a schema.
RefersToNothing(file) ==
  \E q \in Places(file) :
    /\ q[1][1] \in {"ref", "parent", "grammar", "external"}
    /\ Means(q[1], q[2], 0) \in {<<"empty">>, <<"notAllowed">>}

PlainSchema(schema) == PlainFile(schema, NoUri)

\* A schema that a loader has to refuse for anything but a mix, or for a mix.
Broken(schema) == SchemaFault(schema, NoUri) \/ PlainFault(PlainSchema(schema))
Faulty(schema) == Broken(schema) \/ MixesIn(PlainSchema(schema)) # {}
=============================================================================
