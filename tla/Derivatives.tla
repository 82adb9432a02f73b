---------------------------- MODULE Derivatives ----------------------------
(***************************************************************************)
(* The derivative engine (drv.c): what remains to be matched of a pattern  *)
(* after a start tag, an attribute, the end of a start tag, a text or an   *)
(* end tag.  NotAllowed is the failure of every one of them.               *)
(*                                                                         *)
(* The memo table of drv.c returns a derivative computed before for the    *)
(* same arguments.  Apart from texts, derivatives are functions of their   *)
(* arguments, so the table does not show here.  Texts are not memoised,    *)
(* but the verdicts of datatype libraries are: dtl_cb is modelled.         *)
(***************************************************************************)
EXTENDS Patterns, Datatypes

CONSTANT RightToLeft  \* the order in which the build evaluates arguments

(* ncof: the name is in the name class. *)
RECURSIVE NameInClass(_, _)
NameInClass(nc, name) ==
  CASE nc[1] = "qname"      -> <<nc[2], nc[3]>> = name
    [] nc[1] = "nsName"     -> nc[2] = name[1]
    [] nc[1] = "anyName"    -> TRUE
    [] nc[1] = "except"     -> NameInClass(nc[2], name) /\ ~NameInClass(nc[3], name)
    [] nc[1] = "nameChoice" -> NameInClass(nc[2], name) \/ NameInClass(nc[3], name)

-----------------------------------------------------------------------------
(***************************************************************************)
(* apply_after: rebuild what follows the innermost open element or         *)
(* attribute.  C passes the constructor as a function pointer; here it is  *)
(* named.  "puorg" is rn_group with its arguments exchanged.               *)
(***************************************************************************)
Combine(f, q1, q2) ==
  CASE f = "group"      -> GroupOf(q1, q2)
    [] f = "puorg"      -> GroupOf(q2, q1)
    [] f = "interleave" -> InterleaveOf(q1, q2)
    [] f = "after"      -> AfterOf(q1, q2)

RECURSIVE ApplyAfter(_, _, _)
ApplyAfter(f, p1, p0) ==
  CASE Kind(p1) = "choice" -> ChoiceOf(ApplyAfter(f, p1[2], p0), ApplyAfter(f, p1[3], p0))
    [] Kind(p1) = "after"  -> AfterOf(p1[2], Combine(f, p1[3], p0))
    [] OTHER               -> NotAllowed

(***************************************************************************)
(* start_tag_open.  To recover from a missing sibling, a group offers its  *)
(* second operand even if the first is not nullable.                       *)
(***************************************************************************)
RECURSIVE TagOpen(_, _, _)
TagOpen(p, name, recover) ==
  CASE Kind(p) = "choice" ->
         ChoiceOf(TagOpen(p[2], name, recover), TagOpen(p[3], name, recover))
    [] Kind(p) = "element" ->
         IF NameInClass(p[2], name) THEN AfterOf(Content[p[3]], Empty) ELSE NotAllowed
    [] Kind(p) = "interleave" ->
         ChoiceOf(ApplyAfter("interleave", TagOpen(p[2], name, recover), p[3]),
                  ApplyAfter("interleave", TagOpen(p[3], name, recover), p[2]))
    [] Kind(p) = "group" ->
         LET first == ApplyAfter("group", TagOpen(p[2], name, recover), p[3])
         IN  IF Nullable(p[2]) \/ recover
             THEN ChoiceOf(first, TagOpen(p[3], name, recover))
             ELSE first
    [] Kind(p) = "oneOrMore" ->
         ApplyAfter("group", TagOpen(p[2], name, recover), ChoiceOf(p, Empty))
    [] Kind(p) = "after" ->
         ApplyAfter("after", TagOpen(p[2], name, recover), p[3])
    [] OTHER -> NotAllowed

\* Mutant: every call recovers.
StartTagOpenAlwaysRecovers(p, name) == TagOpen(p, name, TRUE)

DrvStartTagOpen(p, name)        == TagOpen(p, name, FALSE)
DrvStartTagOpenRecover(p, name) == TagOpen(p, name, TRUE)

(* attribute_open: both operands of a group may hold the attribute. *)
RECURSIVE DrvAttributeOpen(_, _)
DrvAttributeOpen(p, name) ==
  CASE Kind(p) = "choice" ->
         ChoiceOf(DrvAttributeOpen(p[2], name), DrvAttributeOpen(p[3], name))
    [] Kind(p) = "attribute" ->
         IF NameInClass(p[2], name) THEN AfterOf(p[3], Empty) ELSE NotAllowed
    [] Kind(p) = "interleave" ->
         ChoiceOf(ApplyAfter("interleave", DrvAttributeOpen(p[2], name), p[3]),
                  ApplyAfter("interleave", DrvAttributeOpen(p[3], name), p[2]))
    [] Kind(p) = "group" ->
         ChoiceOf(ApplyAfter("group", DrvAttributeOpen(p[2], name), p[3]),
                  ApplyAfter("puorg", DrvAttributeOpen(p[3], name), p[2]))
    [] Kind(p) = "oneOrMore" ->
         ApplyAfter("group", DrvAttributeOpen(p[2], name), ChoiceOf(p, Empty))
    [] Kind(p) = "after" ->
         ApplyAfter("after", DrvAttributeOpen(p[2], name), p[3])
    [] OTHER -> NotAllowed

(* start_tag_close: attributes not seen fail, or are forgiven to recover. *)
RECURSIVE TagClose(_, _)
TagClose(p, recover) ==
  CASE Kind(p) = "choice"     -> ChoiceOf(TagClose(p[2], recover), TagClose(p[3], recover))
    [] Kind(p) = "interleave" -> InterleaveOf(TagClose(p[2], recover), TagClose(p[3], recover))
    [] Kind(p) = "group"      -> GroupOf(TagClose(p[2], recover), TagClose(p[3], recover))
    [] Kind(p) = "oneOrMore"  -> OneOrMoreOf(TagClose(p[2], recover))
    [] Kind(p) = "attribute"  -> IF recover THEN Empty ELSE NotAllowed
    [] Kind(p) = "after"      -> AfterOf(TagClose(p[2], recover), p[3])
    [] OTHER                  -> p

\* Mutant: missing attributes are forgiven.
StartTagCloseForgives(p) == TagClose(p, TRUE)

DrvStartTagClose(p)        == TagClose(p, FALSE)
DrvStartTagCloseRecover(p) == TagClose(p, TRUE)

(* end_tag: drop the innermost element, nullable or, to recover, not. *)
RECURSIVE TagEnd(_, _)
TagEnd(p, recover) ==
  CASE Kind(p) = "choice" -> ChoiceOf(TagEnd(p[2], recover), TagEnd(p[3], recover))
    [] Kind(p) = "after"  -> IF Nullable(p[2]) \/ recover THEN p[3] ELSE NotAllowed
    [] OTHER              -> NotAllowed

DrvEndTag(p)        == TagEnd(p, FALSE)
DrvEndTagRecover(p) == TagEnd(p, TRUE)

(* mixed_text: text next to child elements; only the text pattern takes it. *)
RECURSIVE DrvMixedText(_)
DrvMixedText(p) ==
  CASE Kind(p) = "text"   -> p
    [] Kind(p) = "after"  -> AfterOf(DrvMixedText(p[2]), p[3])
    [] Kind(p) = "choice" -> ChoiceOf(DrvMixedText(p[2]), DrvMixedText(p[3]))
    [] Kind(p) = "interleave" ->
         ChoiceOf(InterleaveOf(DrvMixedText(p[2]), p[3]),
                  InterleaveOf(p[2], DrvMixedText(p[3])))
    [] Kind(p) = "group" ->
         LET first == GroupOf(DrvMixedText(p[2]), p[3])
         IN  IF Nullable(p[2]) THEN ChoiceOf(first, DrvMixedText(p[3])) ELSE first
    [] Kind(p) = "oneOrMore" -> GroupOf(DrvMixedText(p[2]), ChoiceOf(p, Empty))
    [] OTHER -> NotAllowed

-----------------------------------------------------------------------------
(***************************************************************************)
(* text and list.  A call returns the derivative p and mem as it leaves    *)
(* it.  mem.verdict maps each data pattern asked since the table was last  *)
(* emptied to its derivative: the key is the pattern alone, not the text   *)
(* it was asked about.  mem.asked collects the libraries getdtl looked up. *)
(***************************************************************************)
Result(p, mem) == [p |-> p, mem |-> mem]
Accept(b) == IF b THEN Empty ELSE NotAllowed
Ask(mem, dt) == [mem EXCEPT !.asked = @ \cup {dt[1]}]
Remember(mem, p, v) ==
  [mem EXCEPT !.verdict = [q \in DOMAIN @ \cup {p} |-> IF q = p THEN v ELSE @[q]]]

DataText(p, s, mem, libs) ==
  IF p \in DOMAIN mem.verdict THEN Result(mem.verdict[p], mem)
  ELSE LET v == Accept(Allows(p[2], s, libs))
       IN  Result(v, Ask(Remember(mem, p, v), p[2]))

RECURSIVE TextOf(_, _, _, _), ListTokens(_, _, _, _), OperandTexts(_, _, _, _)

\* The texts of both operands of p, in the order the build evaluates arguments.
OperandTexts(p, s, mem, libs) ==
  IF RightToLeft
  THEN LET r2 == TextOf(p[3], s, mem, libs)
           r1 == TextOf(p[2], s, r2.mem, libs)
       IN  [p1 |-> r1.p, p2 |-> r2.p, mem |-> r1.mem]
  ELSE LET r1 == TextOf(p[2], s, mem, libs)
           r2 == TextOf(p[3], s, r1.mem, libs)
       IN  [p1 |-> r1.p, p2 |-> r2.p, mem |-> r2.mem]

\* list: one text per token; the table is not emptied between them.
ListTokens(p, tokens, mem, libs) ==
  IF tokens = <<>> THEN Result(p, mem)
  ELSE LET r == TextOf(p, Head(tokens), mem, libs)
       IN  ListTokens(r.p, Tail(tokens), r.mem, libs)

TextOf(p, s, mem, libs) ==
  CASE Kind(p) = "text" -> Result(p, mem)
    [] Kind(p) = "after" ->
         LET r == TextOf(p[2], s, mem, libs) IN Result(AfterOf(r.p, p[3]), r.mem)
    [] Kind(p) = "choice" ->
         LET r == OperandTexts(p, s, mem, libs)
         IN  Result(ChoiceOf(r.p1, r.p2), r.mem)
    [] Kind(p) = "interleave" ->
         LET r == OperandTexts(p, s, mem, libs)
         IN  Result(ChoiceOf(InterleaveOf(r.p1, p[3]), InterleaveOf(p[2], r.p2)), r.mem)
    [] Kind(p) = "group" ->
         LET r1 == TextOf(p[2], s, mem, libs)
             r2 == TextOf(p[3], s, r1.mem, libs)
             first == GroupOf(r1.p, p[3])
         IN  IF Nullable(p[2]) THEN Result(ChoiceOf(first, r2.p), r2.mem)
             ELSE Result(first, r1.mem)
    [] Kind(p) = "oneOrMore" ->
         LET r == TextOf(p[2], s, mem, libs)
         IN  Result(GroupOf(r.p, ChoiceOf(p, Empty)), r.mem)
    [] Kind(p) = "list" ->
         LET r == ListTokens(p[2], Words(s), mem, libs)
         IN  Result(Accept(Nullable(r.p)), r.mem)
    [] Kind(p) = "data" -> DataText(p, s, mem, libs)
    [] Kind(p) = "dataExcept" ->
         LET r1 == TextOf(p[2], s, mem, libs)
             r2 == TextOf(p[3], s, r1.mem, libs)
         IN  IF r1.p # Empty THEN Result(NotAllowed, r1.mem)
             ELSE Result(Accept(~Nullable(r2.p)), r2.mem)
    [] Kind(p) = "value" ->
         Result(Accept(Equal(p[2], p[3], s, libs)), Ask(mem, p[2]))
    [] OTHER -> Result(NotAllowed, mem)

\* drv_text empties the table of verdicts, for every text of a document.
FreshText(p, s, libs) == TextOf(p, s, [verdict |-> <<>>, asked |-> {}], libs)

\* Mutant: white space is a text like any other.
DrvTextStrict(p, s, libs) == FreshText(p, s, libs).p

\* textws: white space may also match nothing.
DrvText(p, s, libs) ==
  LET r == FreshText(p, s, libs)
  IN  IF Whitespace(s) THEN ChoiceOf(p, r.p) ELSE r.p

(* getdtl: the text needs a library nobody provides, or one the program does. *)
MissesLibrary(p, s, libs) ==
  ~(FreshText(p, s, libs).mem.asked \subseteq BuiltinLibraries \cup libs)
CallsLibrary(p, s, libs) == FreshText(p, s, libs).mem.asked \cap libs # {}
=============================================================================
