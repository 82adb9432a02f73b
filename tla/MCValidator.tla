---------------------------- MODULE MCValidator ----------------------------
(***************************************************************************)
(* Validator with the derivative engine of drv.c, on the schemas of        *)
(* MCSession and all small documents, and the properties that compare its  *)
(* verdict with the definition of the language (RelaxNG).                  *)
(***************************************************************************)
EXTENDS Validator, MCSession, RelaxNG, Expected

-----------------------------------------------------------------------------
(***************************************************************************)
(* The documents of the run documents, by the schema: large trees for the  *)
(* schemas about elements, attributes and a library of the program for     *)
(* those about attributes, long texts for those about texts.  A session    *)
(* may fall behind by the schema that is not simplified.  What follows a   *)
(* document is looked at after those of up to two elements.                *)
(***************************************************************************)
Plain == libs = {} /\ \A i \in DOMAIN open : open[i].atts = <<>>

FewGiven == \A i \in DOMAIN open : open[i].atts \in {<<>>, <<<<X, <<"1">>>>>>}

InScope ==
  start # NoStart =>
    /\ phase \in {"returned", "raised"} => elements <= 2
    /\ \/ start \in ElementStarts /\ Plain /\ chars <= 1
       \/ start \in AttributeStarts /\ elements <= 2 /\ Len(open) <= 2 /\ chars <= 1
       \/ start \in UnsimpleStarts /\ libs = {} /\ elements <= 3 /\ chars <= 1 /\ FewGiven
       \/ start \in TextStarts /\ Plain /\ elements + chars <= 6 /\ elements <= 2

-----------------------------------------------------------------------------
(***************************************************************************)
(* The patterns that the schemas turn into, whatever a document does: all  *)
(* that the derivatives reach from the starts, up to its depth.            *)
(***************************************************************************)
\* The end tags that each choice of a pattern expects.
RECURSIVE Depths(_)
Depths(p) ==
  CASE Kind(p) = "choice" -> Depths(p[2]) \cup Depths(p[3])
    [] Kind(p) = "after"  -> {1 + d : d \in Depths(p[3])}
    [] OTHER              -> {0}

\* The texts of up to MaxText characters, when each chunk has one.
Collected == UNION {[1..n -> {chunk[1] : chunk \in Chunks}] : n \in 0..MaxText}

\* Texts enough to reach every derivative by a text.
Samples == {s \in Collected : Len(s) <= 2} \cup {att[2] : att \in Attributes}

ByTag(p) ==
  UNION {{DrvStartTagOpen(p, name), DrvStartTagOpenRecover(p, name)} : name \in Names}

ByAttribute(p) ==
  {DrvAttributeOpen(p, att[1]) : att \in Attributes}
    \cup {DrvStartTagClose(p), DrvStartTagCloseRecover(p)}

ByContent(p) ==
  {DrvText(p, s, l) : s \in Samples, l \in SUBSET Libraries}
    \cup {DrvMixedText(p), DrvEndTag(p), DrvEndTagRecover(p)}

Remains(p) ==
  UNION {ByContent(p),
         IF Depths(p) \subseteq 0 .. Deepest     THEN ByAttribute(p) ELSE {},
         IF Depths(p) \subseteq 0 .. Deepest - 1 THEN ByTag(p) ELSE {}}

RECURSIVE Reached(_, _)
Reached(met, new) ==
  IF new = {} THEN met
  ELSE LET next == UNION {Remains(p) : p \in new} \ (met \cup {NotAllowed})
       IN  Reached(met \cup next, next)

AllReached == Reached(Starts, Starts)

-----------------------------------------------------------------------------
(***************************************************************************)
(* Properties.                                                             *)
(***************************************************************************)

\* The verdict on a whole document is the language's: whatever the steps of the
\* session, their recoveries and simplifications, valid? answers whether the
\* document matches the schema.
VerdictCorrect == Complete => (ok <=> Valid(start, root[1], libs))

\* Parts of a kind, or of a kind and for a name; the derivative exists.
NamesKind(parts, kind)    == \E p \in parts : Kind(p) = kind
NamesOf(parts, kind, name) == \E p \in parts : Kind(p) = kind /\ NameInClass(p[2], name)
Accepts(q)                == q # NotAllowed

\* A notAllowed that deref did not simplify away: what is beside it is named,
\* and nothing accepts it.
RECURSIVE Barred(_)
Barred(p) ==
  CASE Kind(p) = "notAllowed" -> TRUE
    [] Kind(p) \in {"group", "interleave", "choice", "after"} -> Barred(p[2]) \/ Barred(p[3])
    [] Kind(p) = "oneOrMore" -> Barred(p[2])
    [] OTHER -> FALSE

Agree(isNamed, accepted) ==
  /\ accepted => isNamed
  /\ isNamed => accepted \/ Barred(current)

NamedInStartTag(required, named) ==
  /\ \A name \in {X, Y} :
       Agree(NamesOf(named, "attribute", name), Accepts(DrvAttributeOpen(current, name)))
  /\ Accepts(DrvStartTagClose(current)) \/ NamesKind(required, "attribute")

NamedInContent(required, named) ==
  /\ \A name \in Names :
       Agree(NamesOf(named, "element", name), Accepts(DrvStartTagOpen(current, name)))
  /\ Agree(NamesKind(named, "after"), Accepts(DrvEndTag(current)))
  /\ Agree(NamesKind(named, "text"), Accepts(DrvMixedText(current)))
  /\ \/ Accepts(DrvEndTag(current))
     \/ NamesKind(required, "element")
     \/ NamesKind(named, "data") \/ NamesKind(named, "value")
     \/ Barred(current)

\* What an error names is true of the document: of the pattern that the next
\* error will be about, the parts that the derivatives accept next are named, and
\* no others are, also after recoveries; and an attribute or a child element whose
\* absence makes a start or an end tag fail is named as required.  (A list may be
\* empty by its tokens alone, of which rnx.c then requires none.  Beside a
\* notAllowed that was not simplified rnx.c also names what would be accepted
\* without it.)
ExpectedTrue ==
  Parsing /\ root = <<>> /\ text = <<>> /\ current # NotAllowed =>
    LET required == Required(current)
        named    == required \cup Allowed(current)
    IN  IF Idle THEN NamedInContent(required, named) ELSE NamedInStartTag(required, named)

\* A list is valid only if each of its tokens is.
TokensJudged == Complete /\ ok => Valid(start, root[1], libs)
=============================================================================
