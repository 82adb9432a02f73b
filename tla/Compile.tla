------------------------------ MODULE Compile ------------------------------
(***************************************************************************)
(* rnc_parse (rnc.c): from a schema in the compact syntax to patterns.     *)
(*                                                                         *)
(* The parser is one pass; what it keeps is the store and stacks of scopes *)
(* (sc.c): definitions, references to them, references to those of the     *)
(* grammar around, and what the prefixes of namespaces and datatypes stand *)
(* for.  A state is [st, defs, refs, prefs, nss, dts, errs].               *)
(***************************************************************************)
EXTENDS Store, Syntax

LOCAL INSTANCE SequencesExt

-----------------------------------------------------------------------------
(* sc.c.  A scope is [tab, locked]; an entry is [key, val, aux]. *)

NewScope == [tab |-> <<>>, locked |-> FALSE]

Top(stack)       == Last(stack)
ScOpen(stack)    == Append(stack, NewScope)
ScClose(stack)   == Front(stack)
ScLock(stack)    == [stack EXCEPT ![Len(stack)].locked = TRUE]
ScLocked(stack)  == Top(stack).locked
ScVoid(stack)    == Len(stack) = 1
ScAdd(stack, key, val, aux) ==
  [stack EXCEPT ![Len(stack)].tab = Append(@, [key |-> key, val |-> val, aux |-> aux])]

\* The latest entry of the innermost scope for key; 0 if there is none.
ScFind(stack, key) == SelectLastInSeq(Top(stack).tab, LAMBDA entry : entry.key = key)

-----------------------------------------------------------------------------
Errors(s, codes) == [s EXCEPT !.errs = @ \cup codes]
Error(s, code)   == Errors(s, {code})

\* The innermost scope with entry i set anew.
ScPut(stack, i, val, aux) ==
  [stack EXCEPT ![Len(stack)].tab[i].val = val, ![Len(stack)].tab[i].aux = aux]

-----------------------------------------------------------------------------
(***************************************************************************)
(* Prefixes.  Of the scope of a file, NoPrefix is the default namespace    *)
(* and Inherit the one that the file inherits.  Until it is declared, the  *)
(* default namespace is inherited, and xsd is the library of that name:    *)
(* such an entry may be declared over.                                     *)
(***************************************************************************)
WellKnown(nss, dflt) ==
  ScAdd(ScAdd(ScAdd(ScAdd(nss, "xml", XmlUri, {}), "xmlns", XmlnsUri, {}),
              NoPrefix, dflt, {"inherited"}), Inherit, dflt, {"inherited"})

\* addns and adddt.
AddNs(s, pfx, uri) ==
  LET i == ScFind(s.nss, pfx)
  IN  CASE i = 0                              -> [s EXCEPT !.nss = ScAdd(@, pfx, uri, {})]
        [] i # 0 /\ Top(s.nss).tab[i].aux # {} -> [s EXCEPT !.nss = ScPut(@, i, uri, {})]
        [] OTHER                              -> Error(s, "DUPNS")

AddDt(s, pfx, uri) ==
  LET i == ScFind(s.dts, pfx)
  IN  CASE i = 0                              -> [s EXCEPT !.dts = ScAdd(@, pfx, uri, {})]
        [] i # 0 /\ Top(s.dts).tab[i].aux # {} -> [s EXCEPT !.dts = ScPut(@, i, uri, {})]
        [] OTHER                              -> Error(s, "DUPDT")

\* nsuri: a URI, or what the file inherits.
NsUri(s, uri) == IF uri = Inherit THEN Top(s.nss).tab[ScFind(s.nss, Inherit)].val ELSE uri

\* decl.  The default namespace may have a prefix as well.
Declare(s, d) ==
  CASE d[1] = "datatypes" -> AddDt(s, d[2], d[3])
    [] d[1] = "namespace" -> AddNs(s, d[2], NsUri(s, d[3]))
    [] d[1] = "default"   -> AddNs(IF d[2] = NoPrefix THEN s ELSE AddNs(s, d[2], NsUri(s, d[3])),
                                   NoPrefix, NsUri(s, d[3]))

\* ns2uri and dt2uri: what a prefix stands for, and the errors.
Found(stack, i, code) ==
  IF i = 0 THEN [uri |-> NoUri, errs |-> {code}] ELSE [uri |-> Top(stack).tab[i].val, errs |-> {}]

Ns2Uri(nss, pfx) == Found(nss, ScFind(nss, pfx), "NONS")
Dt2Uri(dts, pfx) == Found(dts, ScFind(dts, pfx), "NODT")

\* datatype.
DatatypeIn(dts, t) ==
  LET found == Dt2Uri(dts, t[1])
  IN  IF t[1] = NoPrefix THEN [dt |-> t, errs |-> {}]
      ELSE [dt |-> <<found.uri, t[2]>>, errs |-> found.errs]

(***************************************************************************)
(* nameclass: [nc, errs], a name class of the store is the term of its     *)
(* cells.  An alternative equal to the one before, or next to any name, is *)
(* left out.                                                               *)
(***************************************************************************)
Class(nc, errs) == [nc |-> nc, errs |-> errs]
AnyName         == <<"anyName">>

OneName(ns, local) == Class(<<"qname", ns.uri, local>>, ns.errs)
AllNames(ns)       == Class(<<"nsName", ns.uri>>, ns.errs)

OrName(c1, c2) ==
  Class(IF c1.nc \in {c2.nc, AnyName} THEN c1.nc
        ELSE IF c2.nc = AnyName THEN AnyName
        ELSE <<"nameChoice", c1.nc, c2.nc>>,
        c1.errs \cup c2.errs)

ButName(c1, c2) ==
  Class(<<"except", c1.nc, c2.nc>>,
        c1.errs \cup c2.errs \cup (IF c1.nc[1] \in {"anyName", "nsName"} THEN {} ELSE {"NCEX"}))

RECURSIVE NameClass(_, _)
NameClass(c, nss) ==
  CASE c[1] = "name"     -> OneName(Ns2Uri(nss, NoPrefix), c[2])
    [] c[1] = "prefixed" -> OneName(Ns2Uri(nss, c[2]), c[3])
    [] c[1] = "all"      -> AllNames(Ns2Uri(nss, c[2]))
    [] c[1] = "any"      -> Class(AnyName, {})
    [] c[1] = "or"       -> OrName(NameClass(c[2], nss), NameClass(c[3], nss))
    [] c[1] = "but"      -> ButName(NameClass(c[2], nss), NameClass(c[3], nss))

\* Mutant: the default namespace applies to attributes.
ForAttributeKeeps(nss) == nss

\* attribute reads its name class with no default namespace.
ForAttribute(nss) ==
  LET i == ScFind(nss, NoPrefix) IN ScPut(nss, i, NoUri, Top(nss).tab[i].aux)

ClassOf(e, nss) == NameClass(e[2], IF e[1] = "attribute" THEN ForAttribute(nss) ELSE nss)

-----------------------------------------------------------------------------
OpenScope(s) ==
  [s EXCEPT !.defs = ScOpen(@), !.refs = ScOpen(@), !.prefs = ScOpen(@)]

\* close_scope, the references of the scope: each gets the definition of its name.
Bind(s, ref) ==
  LET j == ScFind(s.defs, ref.key)
  IN  IF j = 0 THEN Error(s, "UNDEF")
      ELSE [s EXCEPT !.st.heap[ref.val].a = Top(s.defs).tab[j].val]

\* And those to the grammar around: it has them among its own now.
Surface(s, pref) ==
  IF ScVoid(s.refs) THEN Error(s, "UNDEF")
  ELSE [s EXCEPT !.refs = ScAdd(@, pref.key, pref.val, pref.aux)]

CloseScope(s) ==
  LET bound == FoldLeft(Bind, s, Top(s.refs).tab)
      outer == [bound EXCEPT !.defs = ScClose(@), !.refs = ScClose(@)]
      risen == FoldLeft(Surface, outer, Top(s.prefs).tab)
  IN  [risen EXCEPT !.prefs = ScClose(@)]

(***************************************************************************)
(* adddef.  The flags say how the definitions of a name so far were        *)
(* written.  In the body of an include the scope is locked: a definition   *)
(* replaces the included one, and there must be one.                       *)
(***************************************************************************)
AddDef(s, name, pat, flags) ==
  LET i == ScFind(s.defs, name)
      old == Top(s.defs).tab[i]
      all == old.aux \cup flags
      Enter(t, p, f) == [t EXCEPT !.defs[Len(t.defs)].tab[i] = [key |-> name, val |-> p, aux |-> f]]
      joined == CASE "|=" \in all -> RnChoice(s.st, old.val, pat)
                  [] "&=" \in all -> RnBoth(s.st, "interleave", old.val, pat)
                  [] OTHER        -> Got(old.val, s.st)
      heads   == IF "=" \in old.aux \cap flags THEN Error(s, "2HEADS") ELSE s
      checked == IF {"|=", "&="} \subseteq all THEN Error(heads, "COMBINE") ELSE heads
  IN  CASE i = 0 /\ ScLocked(s.defs)  -> Error(s, "OVRIDE")
        [] i = 0 /\ ~ScLocked(s.defs) -> [s EXCEPT !.defs = ScAdd(@, name, pat, flags)]
        [] i # 0 /\ ScLocked(s.defs)  -> Enter(s, pat, flags)
        [] OTHER                      -> Enter([checked EXCEPT !.st = joined.st], joined.p, all)

FoldDef(s, entry)  == AddDef(s, entry.key, entry.val, entry.aux)
FoldRef(s, entry)  == [s EXCEPT !.refs = ScAdd(@, entry.key, entry.val, entry.aux)]
FoldPref(s, entry) == [s EXCEPT !.prefs = ScAdd(@, entry.key, entry.val, entry.aux)]

\* fold_scope: the innermost scope becomes part of the one around it.
FoldScope(s) ==
  LET outer == [s EXCEPT !.defs = ScClose(@), !.refs = ScClose(@), !.prefs = ScClose(@)]
      withDefs == FoldLeft(FoldDef, outer, Top(s.defs).tab)
      withRefs == FoldLeft(FoldRef, withDefs, Top(s.refs).tab)
  IN  FoldLeft(FoldPref, withRefs, Top(s.prefs).tab)

-----------------------------------------------------------------------------
(* Evaluation of the syntax: [p, s], the pattern and the state after it. *)

Yield(r, s) == [p |-> r.p, s |-> [s EXCEPT !.st = r.st]]

\* refname: one reference for all uses of a name in a scope.
RefName(s, name) ==
  LET i == ScFind(s.refs, name)
      new == NewRef(s.st)
  IN  IF i # 0 THEN [p |-> Top(s.refs).tab[i].val, s |-> s]
      ELSE [p |-> new.p, s |-> [s EXCEPT !.st = new.st, !.refs = ScAdd(@, name, new.p, {})]]

Parent(s, name) ==
  LET i == ScFind(s.prefs, name)
      new == NewRef(s.st)
  IN  IF i # 0 THEN [p |-> Top(s.prefs).tab[i].val, s |-> s]
      ELSE [p |-> new.p, s |-> [s EXCEPT !.st = new.st, !.prefs = ScAdd(@, name, new.p, {})]]

\* What a unary operator of the syntax makes of pattern p.
Apply1(st, e, p) ==
  CASE e[1] = "element"   -> New(st, "element", p, e[2])
    [] e[1] = "attribute" -> New(st, "attribute", p, e[2])
    [] e[1] = "list"      -> New(st, "list", p, 0)
    [] e[1] = "mixed"     -> RnBoth(st, "interleave", p, rnText)
    [] e[1] = "optional"  -> RnChoice(st, p, rnEmpty)
    [] e[1] = "oneOrMore" -> RnOneOrMore(st, p)
    [] e[1] = "zeroOrMore" -> LET more == RnOneOrMore(st, p) IN RnChoice(more.st, more.p, rnEmpty)

Apply2(st, kind, p1, p2) ==
  CASE kind = "choice"                  -> RnChoice(st, p1, p2)
    [] kind \in {"group", "interleave"} -> RnBoth(st, kind, p1, p2)
    [] kind = "dataExcept"              -> New(st, kind, p1, p2)

OneOperand == {"list", "mixed", "optional", "oneOrMore", "zeroOrMore"}

\* A unary operator around r, a binary one between p1 and r.
Around(e, r)      == Yield(Apply1(r.s.st, e, r.p), r.s)
Between(e, p1, r) == Yield(Apply2(r.s.st, e[1], p1, r.p), r.s)

\* Only a datatype has exceptions.
CheckExcept(e, r) ==
  IF e[1] = "dataExcept" /\ KindOf(r.s.st, r.p) # "data" THEN Error(r.s, "EXPT") ELSE r.s

\* The pattern that Start of the innermost scope is defined as, if it is.
StartOf(s) ==
  LET i == ScFind(s.defs, Start)
  IN  IF i = 0 THEN NoPat ELSE Top(s.defs).tab[i].val

\* external: a pattern takes part in the scope around, a grammar does not.  (A grammar
\* without a start would give -1, which nothing reports: Files has none.)
CloseNss(s) == [s EXCEPT !.nss = ScClose(@)]

Closed(r) ==
  IF r.grammar THEN [p |-> StartOf(r.s), s |-> CloseNss(CloseScope(r.s))]
  ELSE [p |-> r.p, s |-> CloseNss(FoldScope(r.s))]

\* The closing brace of a grammar, or the end of the schema.
Ended(s) == [p |-> StartOf(s), s |-> CloseScope(IF StartOf(s) = NoPat THEN Error(s, "NOSTART") ELSE s)]

\* include, after the file: its prefixes are gone, its definitions may be replaced.
Included(r) ==
  LET s == CloseNss(IF r.grammar THEN r.s ELSE Error(r.s, "NOTGR")) IN [s EXCEPT !.defs = ScLock(@)]

\* The scopes of another file, which inherits namespace ns.
OpenFile(s, ns) ==
  LET t == OpenScope(Errors(s, ns.errs)) IN [t EXCEPT !.nss = WellKnown(ScOpen(@), ns.uri)]

\* topLevel: the declarations come first, with datatype prefixes of the file's own.
Declared(file, s) ==
  FoldLeft(Declare, [s EXCEPT !.dts = ScAdd(ScOpen(@), "xsd", XsdUri, {"default"})], file[2])

\* The end of topLevel: a file is a grammar without a pattern of its own, or a pattern.
FileRead(grammar, r) ==
  [grammar |-> grammar, p |-> r.p, s |-> [r.s EXCEPT !.dts = ScClose(@)]]

Data(e, t, s) ==
  Yield(New(s.st, e[1], t.dt, IF e[1] = "value" THEN e[3] ELSE ""), Errors(s, t.errs))

RECURSIVE Pattern(_, _), Second(_, _), Contents(_, _), Content(_, _), TopLevel(_, _), File(_, _)

\* element and attribute: the name class first.
WithClass(e, c, s) == Around(<<e[1], c.nc>>, Pattern(e[3], Errors(s, c.errs)))

\* pattern, unary and primary.
Pattern(e, s) ==
  CASE e[1] = "empty"      -> [p |-> rnEmpty, s |-> s]
    [] e[1] = "text"       -> [p |-> rnText, s |-> s]
    [] e[1] = "notAllowed" -> [p |-> rnNotAllowed, s |-> s]
    [] e[1] \in {"data", "value"} -> Data(e, DatatypeIn(s.dts, e[2]), s)
    [] e[1] = "ref"        -> RefName(s, e[2])
    [] e[1] = "parent"     -> Parent(s, e[2])
    [] e[1] = "grammar"    -> Ended(Contents(e[2], OpenScope(s)))
    [] e[1] \in {"element", "attribute"} -> WithClass(e, ClassOf(e, s.nss), s)
    [] e[1] \in OneOperand -> Around(e, Pattern(e[2], s))
    [] e[1] \in Binary     -> Second(e, Pattern(e[2], s))
    [] e[1] = "external"   -> Closed(File(e[2], OpenFile(s, Ns2Uri(s.nss, e[3]))))

\* A binary operator after its first operand.
Second(e, r) == Between(e, r.p, Pattern(e[3], CheckExcept(e, r)))

\* grammarContent: define and include.
Content(c, s) ==
  LET Define(r) == AddDef(r.s, c[2], r.p, {c[3]})
  IN  IF c[1] = "define" THEN Define(Pattern(c[4], s))
      ELSE FoldScope(Contents(c[4], Included(File(c[2], OpenFile(s, Ns2Uri(s.nss, c[3]))))))

Contents(contents, s) == FoldLeft(LAMBDA t, c : Content(c, t), s, contents)

TopLevel(file, s) ==
  IF file[1] = "contents" THEN FileRead(TRUE, [p |-> NoPat, s |-> Contents(file[3], Declared(file, s))])
  ELSE FileRead(FALSE, Pattern(file[3], Declared(file, s)))

\* file: it may not exist.
File(f, s) ==
  IF f \in DOMAIN Files THEN TopLevel(Files[f], s)
  ELSE [grammar |-> FALSE, p |-> NoPat, s |-> Error(s, "EXT")]

(***************************************************************************)
(* rnc_parse: the start pattern, the store, and the errors.                *)
(***************************************************************************)
Parsed(r) == [start |-> r.p, st |-> r.s.st, errs |-> r.s.errs]

\* A schema that is a pattern is the grammar that starts with it.
AsGrammar(r) == IF r.grammar THEN r.s ELSE [r.s EXCEPT !.defs = ScAdd(@, Start, r.p, {})]

RncParse(st, file) ==
  LET s0 == OpenScope([st |-> st, defs |-> <<NewScope>>, refs |-> <<NewScope>>,
                       prefs |-> <<NewScope>>, dts |-> <<NewScope>>, errs |-> {},
                       nss |-> WellKnown(<<NewScope, NewScope>>, NoUri)])
  IN  Parsed(Ended(AsGrammar(TopLevel(file, s0))))
=============================================================================
