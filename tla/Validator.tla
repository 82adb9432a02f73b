----------------------------- MODULE Validator -----------------------------
(***************************************************************************)
(* RNV::Validator (lib/rnv/validator.rb): one parse of an XML text at a    *)
(* time, whose SAX events drive the Session.                               *)
(*                                                                         *)
(* The parser is external: it delivers the events of a document, in any    *)
(* division of the texts into chunks, and may stop early, because its      *)
(* errors are ignored.  What it has delivered so far is remembered as a    *)
(* tree, to say what the verdict should have been.                         *)
(***************************************************************************)
EXTENDS Session, Trees

CONSTANTS
  MaxElements, MaxDepth, MaxChars,  \* bounds on the documents
  MaxBehind,    \* bound on the elements that the session may fall behind
  PatternsMet,  \* what the schemas turn into in documents that deep
  TextsMet,     \* what the chunks make between two tags
  Expects(_)    \* how many end tags a pattern expects, for each of its choices

ASSUME DocumentBounds ==
  MaxElements \in Nat /\ MaxDepth \in Nat /\ MaxChars \in Nat /\ MaxBehind \in Nat

\* The attributes of the documents, as pairs of a name and a value.
Attributes == UNION {{atts[i] : i \in DOMAIN atts} : atts \in AttributeLists}

ASSUME AttributesTyped == AttributeLists \subseteq Seq(Attributes)

ASSUME TextsCollected ==
  /\ <<>> \in TextsMet
  /\ \A s \in TextsMet, chunk \in Chunks :
       Len(s) + Len(chunk) <= MaxText => s \o chunk \in TextsMet

(***************************************************************************)
(* The derivatives of drv.c keep count of the open elements (p_after): a   *)
(* start tag or an attribute opens one, an end tag ends one, texts and the *)
(* end of a start tag leave them.  Every derivative may fail, except the   *)
(* recovery at an end tag: it takes what follows the element, whatever its *)
(* content was.  The recovery from missing attributes may fail: deref      *)
(* (rnd.c) puts contents in the place of references and simplifies nothing *)
(* again, so a group with notAllowed and an attribute is possible, which   *)
(* start_tag_close_recover then simplifies to notAllowed.                  *)
(***************************************************************************)
Expecting(n) == {p \in PatternsMet : Expects(p) = {n}}
Fails        == {rn_notAllowed}

OpensTags(outer, inner) ==
  \A p \in outer, name \in Names :
    {drv_start_tag_open(p, name), drv_start_tag_open_recover(p, name)} \subseteq inner \cup Fails

OpensAttributes(outer, inner) ==
  \A p \in outer, att \in Attributes : drv_attribute_open(p, att[1]) \in inner \cup Fails

ClosesStartTags(these) ==
  \A p \in these :
    {drv_start_tag_close(p), drv_start_tag_close_recover(p)} \subseteq these \cup Fails

EndsTags(inner, outer) ==
  \A p \in inner : drv_end_tag(p) \in outer \cup Fails /\ drv_end_tag_recover(p) \in outer

TextsJudged == TextsMet \cup {att[2] : att \in Attributes}

TakesTexts(these) ==
  \A p \in these :
    /\ drv_mixed_text(p) \in these \cup Fails
    /\ \A s \in TextsJudged, l \in SUBSET Libraries : drv_text(p, s, l) \in these \cup Fails

ASSUME StartsCount == rn_notAllowed \notin PatternsMet /\ Starts \subseteq Expecting(0) \cup Fails
\* As deep as a pattern gets in a session that is behind.
Deepest == MaxDepth + MaxBehind

ASSUME EngineCounts ==
  /\ \A n \in 0 .. Deepest - 1 : OpensTags(Expecting(n), Expecting(n + 1))
  /\ \A n \in 1 .. Deepest : OpensAttributes(Expecting(n), Expecting(n + 1))
  /\ \A n \in 1 .. Deepest : ClosesStartTags(Expecting(n))
  /\ \A n \in 1 .. Deepest + 1 : EndsTags(Expecting(n), Expecting(n - 1))
  /\ \A n \in 0 .. Deepest + 1 : TakesTexts(Expecting(n))

VARIABLES
  phase,     \* "idle", "parsing", "returned" or "raised"
  open,      \* the open elements, outermost first
  root,      \* the root element once it is closed: a sequence of at most one
  elements,  \* how many elements the document has so far
  chars,     \* and how many characters
  strict,    \* history: what is left of the start by derivatives alone
  behind     \* history: how often the recovery from missing attributes failed

doc == <<open, root, elements, chars, strict, behind>>
allVars == <<vars, phase, doc>>

Parsing == phase = "parsing"
Top     == open[Len(open)]
Below   == SubSeq(open, 1, Len(open) - 1)

WithChildren(children) == Append(Below, [Top EXCEPT !.children = children])

\* The text at the end of a node's children.
LastText(children) ==
  IF children # <<>> /\ IsText(children[Len(children)]) THEN children[Len(children)][2] ELSE <<>>

HasElement(children) == \E i \in DOMAIN children : IsElement(children[i])

TextBefore == IF open = <<>> THEN <<>> ELSE LastText(Top.children)

-----------------------------------------------------------------------------
(***************************************************************************)
(* The verdict by derivatives alone: of the pattern p, what the text s, an *)
(* attribute, a start tag and an end tag of the document leave, without    *)
(* recovery, skipping or a buffer.  Once one fails, nothing is left.       *)
(***************************************************************************)
Then(p, q) == IF p = rn_notAllowed THEN rn_notAllowed ELSE q

StrictText(l, p, s, beside) ==
  Then(p, IF ~beside THEN drv_text(p, s, l)
          ELSE IF xmlc_white_space(s) THEN p ELSE drv_mixed_text(p))

StrictAttribute(l, p, att) ==
  LET a == Then(p, drv_attribute_open(p, att[1]))
      t == Then(a, drv_text(a, att[2], l))
  IN  Then(t, drv_end_tag(t))

StrictAttributes(l, p, atts) ==
  LET left[k \in 0 .. Len(atts)] ==
        IF k = 0 THEN p ELSE StrictAttribute(l, left[k - 1], atts[k])
  IN  left

StrictClose(p) == Then(p, drv_start_tag_close(p))

StrictStart(l, p, s, name, atts) ==
  LET f == StrictText(l, p, s, TRUE)
      o == Then(f, drv_start_tag_open(f, name))
  IN  StrictClose(StrictAttributes(l, o, atts)[Len(atts)])

StrictEnd(l, p, s, beside) ==
  LET f == StrictText(l, p, s, beside)
  IN  Then(f, drv_end_tag(f))

-----------------------------------------------------------------------------
InitValidator ==
  /\ Init
  /\ phase = "idle" /\ open = <<>> /\ root = <<>> /\ elements = 0 /\ chars = 0
  /\ strict = NoPattern /\ behind = 0

\* The document before is over.
NoDocument == open' = <<>> /\ root' = <<>> /\ elements' = 0 /\ chars' = 0 /\ behind' = 0

\* load_schema_from_string and load_schema_from_file: at any time but in a parse,
\* which returns or raises before the program calls anything else.
Load ==
  /\ ~Parsing
  /\ LoadFails \/ \E s \in Starts : LoadSchema(s)
  /\ NoDocument
  /\ phase' = "idle" /\ strict' = NoPattern

\* add_datatype_library.
Register ==
  /\ ~Parsing
  /\ \E l \in Libraries : AddLibrary(l)
  /\ UNCHANGED <<phase, doc>>

\* parse_string and parse_file up to the parser's first event.
Parse ==
  /\ ~Parsing
  /\ StartDocument
  /\ phase' = "parsing"
  /\ NoDocument
  /\ strict' = start

\* start_element_namespace.  A document has one root.
StartElement(name, atts) ==
  /\ Parsing /\ Idle
  /\ open = <<>> => root = <<>>
  /\ Len(open) < MaxDepth /\ elements < MaxElements
  /\ StartTag(name, atts) \/ StartTagSkipped
  /\ open' = Append(open, [name |-> name, atts |-> atts, children |-> <<>>])
  /\ elements' = elements + 1
  /\ strict' = StrictStart(libs, strict, TextBefore, name, atts)
  /\ UNCHANGED <<phase, root, chars, behind>>

\* Each start tag that recovery cannot close is skipped as if it were about to be
\* opened: its end tag will resume inside it.
ContinueStart ==
  /\ Parsing
  /\ \/ TakeAttribute /\ behind' = behind
     \/ /\ CloseStartTag
        /\ behind' = IF current' = rn_notAllowed THEN behind + 1 ELSE behind
        /\ behind' <= MaxBehind
  /\ UNCHANGED <<phase, open, root, elements, chars, strict>>

\* characters and cdata_block.
CharacterData(chunk) ==
  /\ Parsing /\ Idle /\ open # <<>>
  /\ chars + Len(chunk) <= MaxChars
  /\ Characters(chunk) \/ (current = rn_notAllowed /\ UNCHANGED vars)
  /\ open' = WithChildren(AddText(Top.children, chunk))
  /\ chars' = chars + Len(chunk)
  /\ UNCHANGED <<phase, root, elements, strict, behind>>

\* end_element_namespace.
EndElement ==
  LET element == ElementNode(Top.name, Top.atts, Top.children)
      parent  == Below[Len(Below)]
  IN  /\ Parsing /\ Idle /\ open # <<>>
      /\ EndTag \/ EndTagSkipped
      /\ IF Below = <<>>
         THEN open' = <<>> /\ root' = <<element>>
         ELSE /\ open' = [Below EXCEPT ![Len(Below)].children = Append(@, element)]
              /\ root' = root
      /\ strict' = StrictEnd(libs, strict, LastText(Top.children), HasElement(Top.children))
      /\ UNCHANGED <<phase, elements, chars, behind>>

\* The parser stops, at the end of the text or at what is wrong in it, and
\* parse_string answers valid?.
Return ==
  /\ Parsing /\ Idle
  /\ phase' = "returned"
  /\ UNCHANGED <<vars, doc>>

\* A library raises through the handler, the parser and parse_string.
Raise ==
  /\ Parsing
  /\ RaiseInAttribute \/ RaiseInEndTag
  /\ phase' = "raised"
  /\ UNCHANGED doc

LibraryPushesError == PushError /\ UNCHANGED <<phase, doc>>

NextValidator ==
  \/ Load
  \/ Register
  \/ Parse
  \/ \E name \in Names, atts \in AttributeLists : StartElement(name, atts)
  \/ ContinueStart
  \/ \E chunk \in Chunks : CharacterData(chunk)
  \/ EndElement
  \/ Return
  \/ Raise
  \/ LibraryPushesError

SpecValidator == InitValidator /\ [][NextValidator]_allVars

\* The parser has delivered the whole document and every event was handled.
Complete == Parsing /\ Idle /\ root # <<>>

-----------------------------------------------------------------------------
(* Properties. *)

\* Between two events of a document, valid? answers whether the derivatives by
\* all its tags, attributes and texts exist, in that order, however its texts came
\* in chunks; and as long as they do, current is what they left.  No recovery, no
\* skipped element, no text once flushed early or late and no exception in a
\* document before changes the verdict.
VerdictStrict ==
  Parsing /\ Idle /\ start # rn_notAllowed =>
    /\ ok <=> strict # rn_notAllowed
    /\ ok => current = strict

\* After any error the session keeps count of the document: current expects as
\* many end tags as elements are open, also with recoveries behind it, and the
\* pattern to resume after a skipped element expects those outside it.  It falls
\* behind by one element, and stays so to the end of the document, exactly with
\* each start tag whose missing attributes recovery could not forgive.
InStep ==
  Parsing /\ open # <<>> /\ start # rn_notAllowed =>
    IF current # rn_notAllowed
    THEN Expects(current) = {Len(open) + behind}
    ELSE Expects(previous) = {Len(open) + behind - level - 1}

\* The text that the next tag flushes is the text since the last tag, and in a
\* document without errors it is judged as mixed content exactly if it stands
\* beside an element.  (end_tag flushes it with mixed as it is, start_tag always
\* as mixed.)  A start that is notAllowed is skipped without an error.
TextPending ==
  Parsing /\ Idle /\ open # <<>> /\ start # rn_notAllowed =>
    /\ text = (IF current = rn_notAllowed THEN <<>> ELSE LastText(Top.children))
    /\ ok => (mixed <=> HasElement(Top.children))
=============================================================================
