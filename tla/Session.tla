------------------------------ MODULE Session ------------------------------
(***************************************************************************)
(* One RNV::Document: the validation session behind the Ruby class         *)
(* (ruby_rnv.c) and the steps it takes through rnv.c.                      *)
(*                                                                         *)
(* The session keeps the pattern still to be matched, current.  Each SAX   *)
(* call replaces it by a derivative; when that fails, an error is          *)
(* reported, ok turns false and a recovery pattern takes over.  When       *)
(* there is none, current is rn_notAllowed and the subtree is skipped: level  *)
(* counts the elements open inside it, and previous waits to be resumed.   *)
(*                                                                         *)
(* The derivative engine is a parameter (drv.h); Derivatives defines it.   *)
(* start_tag runs a loop over the attributes, and a datatype library       *)
(* written in Ruby may raise out of it, so the loop's iterations are       *)
(* separate steps: call is the activation record of rnv_start_tag.         *)
(***************************************************************************)
EXTENDS Integers, Sequences

CONSTANTS
  Starts,        \* the start patterns of the schemas that load
  rn_notAllowed, \* the pattern that nothing matches
  NoPattern,     \* the pattern fields before any schema is loaded
  Names,         \* names of elements
  AttributeLists,\* the attribute arrays given to start_tag
  Char,          \* characters of texts
  Chunks,        \* the strings given to characters
  Libraries,     \* datatype libraries a program may register
  Garbage,       \* values the level field may hold before it is assigned
  LEN_T, LIM_T,  \* initial and largest retained size of the text buffer
  MaxText,       \* bound on the characters between two tags
  MaxLevel,      \* bound on the depth of a skipped element
  xmlc_white_space(_),    \* that a text is white space
  drv_start_tag_open(_, _), drv_start_tag_open_recover(_, _),
  drv_attribute_open(_, _),
  drv_start_tag_close(_), drv_start_tag_close_recover(_),
  drv_end_tag(_), drv_end_tag_recover(_),
  drv_mixed_text(_),
  drv_text(_, _, _),      \* of a pattern, a text and the registered libraries
  drv_misses_dtl(_, _, _),\* that text asks for a library nobody provides
  drv_calls_dtl(_, _, _)  \* that text calls a registered library

Levels == -MaxLevel .. MaxLevel

ASSUME BufferSizes == LEN_T \in Nat \ {0} /\ LIM_T \in Nat /\ LEN_T <= LIM_T
ASSUME TextsTyped == Chunks \subseteq Seq(Char)
ASSUME Bounds == MaxText \in Nat /\ MaxLevel \in Nat /\ Garbage \subseteq Levels
ASSUME NoPatternIsNone == NoPattern # rn_notAllowed /\ NoPattern \notin Starts

VARIABLES
  opened,    \* a schema is loaded
  start,     \* its start pattern
  current, previous,
  ok,        \* what valid? answers
  level,     \* elements open inside the skipped one
  mixed,     \* the text being collected stands beside child elements
  text,      \* characters since the last tag (text and n_txt)
  lenTxt,    \* the size of the buffer they are in
  errors,    \* codes of the errors reported since start_document
  libs,      \* registered datatype libraries
  call,      \* the call of rnv_start_tag being executed
  clean      \* history: start_document was called since the last load, and
             \* no library has raised since

schema == <<opened, start, libs>>
vars == <<opened, start, current, previous, ok, level, mixed, text, lenTxt,
          errors, libs, call, clean>>

RnvCodes   == {"elem", "akey", "aval", "emis", "amis", "ufin", "text", "notx"}
ErrorCodes == RnvCodes \cup {"schema", "nodtl", "dtl"}

NoCall == [in |-> FALSE, atts |-> <<>>, ok |-> TRUE]
Idle   == ~call.in

-----------------------------------------------------------------------------
(***************************************************************************)
(* rnv.c.  Each function takes *curp and *prevp and yields them anew, with *)
(* its verdict and the errors it reported.                                 *)
(***************************************************************************)
Step(cur, prev, b, errs) == [cur |-> cur, prev |-> prev, ok |-> b, errs |-> errs]

\* A text that asks for a missing library is reported but does not fail.
Notice(p, s) == IF drv_misses_dtl(p, s, libs) THEN {"nodtl"} ELSE {}

\* What a function answers when it went from cur to q: recovery gives r.
Outcome(cur, q, r, code, noted) ==
  IF q # rn_notAllowed THEN Step(q, cur, TRUE, noted)
  ELSE Step(r, cur, FALSE, noted \cup {code})

\* Mutant: white space beside elements is a text like any other.
RnvTextStrict(cur, prev, s, mx) ==
  IF mx THEN Outcome(cur, drv_mixed_text(cur), cur, "notx", {})
  ELSE Outcome(cur, drv_text(cur, s, libs), cur, "text", Notice(cur, s))

\* rnv_text.  Recovery from a text is to ignore it.
RnvText(cur, prev, s, mx) ==
  IF ~mx THEN Outcome(cur, drv_text(cur, s, libs), cur, "text", Notice(cur, s))
  ELSE IF xmlc_white_space(s) THEN Step(cur, prev, TRUE, {})
  ELSE Outcome(cur, drv_mixed_text(cur), cur, "notx", {})

\* rnv_start_tag_open: an element out of place, or content missing before it.
RnvStartTagOpen(cur, name) ==
  LET r == drv_start_tag_open_recover(cur, name)
  IN  Outcome(cur, drv_start_tag_open(cur, name), r,
              IF r = rn_notAllowed THEN "elem" ELSE "emis", {})

\* Mutant: recovery leaves the attribute open.
ValueMatchedStaysOpen(a, t, noted) ==
  IF t = rn_notAllowed THEN Outcome(a, t, a, "aval", noted)
  ELSE Outcome(t, drv_end_tag(t), drv_end_tag_recover(t), "aval", noted)

\* rnv_attribute: recovery forgets the attribute, or only its value.  A pattern a
\* is open for the attribute, t has matched its value.
ValueMatched(a, t, noted) ==
  IF t = rn_notAllowed THEN Outcome(a, t, drv_end_tag_recover(a), "aval", noted)
  ELSE Outcome(t, drv_end_tag(t), drv_end_tag_recover(t), "aval", noted)

AttributeOpened(cur, a, value) ==
  IF a = rn_notAllowed THEN Outcome(cur, a, cur, "akey", {})
  ELSE ValueMatched(a, drv_text(a, value, libs), Notice(a, value))

RnvAttribute(cur, att) == AttributeOpened(cur, drv_attribute_open(cur, att[1]), att[2])

\* rnv_start_tag_close: attributes are missing.
RnvStartTagClose(cur) ==
  Outcome(cur, drv_start_tag_close(cur), drv_start_tag_close_recover(cur), "amis", {})

\* Mutant: the error handler is not called.
RnvEndTagSilent(cur) ==
  LET q == drv_end_tag(cur)
  IN  IF q # rn_notAllowed THEN Step(q, cur, TRUE, {})
      ELSE Step(drv_end_tag_recover(cur), cur, FALSE, {})

\* rnv_end_tag: content is missing at the end.
RnvEndTag(cur) == Outcome(cur, drv_end_tag(cur), drv_end_tag_recover(cur), "ufin", {})

-----------------------------------------------------------------------------
(***************************************************************************)
(* A new Document.  document_t comes from ruby_xmalloc: what initialize    *)
(* does not assign holds whatever was there.                               *)
(***************************************************************************)
Init ==
  /\ opened = FALSE /\ ok = FALSE
  /\ start = NoPattern /\ current = NoPattern /\ previous = NoPattern
  /\ level \in Garbage
  /\ mixed = FALSE /\ text = <<>> /\ lenTxt = 0
  /\ errors = {} /\ libs = {} /\ call = NoCall /\ clean = FALSE

\* Mutant: document_load does not set start.
LoadSchemaKeepsStart(s) ==
  /\ Idle
  /\ opened' = TRUE /\ start' = start /\ current' = s /\ previous' = s /\ ok' = TRUE
  /\ lenTxt' = LEN_T /\ text' = <<>> /\ mixed' = FALSE
  /\ clean' = FALSE
  /\ UNCHANGED <<level, errors, libs, call>>

(***************************************************************************)
(* load_string and load_file.  A schema that fails to load closes the      *)
(* Document and leaves the last verdict and pattern in place.              *)
(***************************************************************************)
LoadSchema(s) ==
  /\ Idle
  /\ opened' = TRUE /\ start' = s /\ current' = s /\ previous' = s /\ ok' = TRUE
  /\ lenTxt' = LEN_T /\ text' = <<>> /\ mixed' = FALSE
  /\ clean' = FALSE
  /\ UNCHANGED <<level, errors, libs, call>>

LoadFails ==
  /\ Idle
  /\ opened' = FALSE /\ errors' = errors \cup {"schema"} /\ clean' = FALSE
  /\ UNCHANGED <<start, current, previous, ok, level, mixed, text, lenTxt, libs, call>>

\* add_datatype_library: ignored unless a schema is loaded.
AddLibrary(l) ==
  /\ Idle /\ opened
  /\ libs' = libs \cup {l}
  /\ UNCHANGED <<opened, start, current, previous, ok, level, mixed, text,
                 lenTxt, errors, call, clean>>

\* push_error of a registered library.
PushError ==
  /\ libs # {}
  /\ errors' = errors \cup {"dtl"}
  /\ UNCHANGED <<schema, current, previous, ok, level, mixed, text, lenTxt, call, clean>>

\* Mutant: errors of the document before are kept.
StartDocumentKeepsErrors ==
  /\ Idle /\ opened
  /\ lenTxt' = LEN_T /\ text' = <<>> /\ mixed' = FALSE
  /\ ok' = TRUE /\ current' = start /\ previous' = start
  /\ level' = 0 /\ clean' = TRUE
  /\ UNCHANGED <<schema, errors, call>>

\* start_document.  Before a schema is loaded it raises, as all calls below.
StartDocument ==
  /\ Idle /\ opened
  /\ errors' = {}
  /\ lenTxt' = LEN_T /\ text' = <<>> /\ mixed' = FALSE
  /\ ok' = TRUE /\ current' = start /\ previous' = start
  /\ level' = 0 /\ clean' = TRUE
  /\ UNCHANGED <<schema, call>>

\* Mutant: off by one, the closing NUL has no room.
NewLengthOffByOne(needed) ==
  IF needed <= LIM_T /\ LIM_T < lenTxt THEN LIM_T
  ELSE IF needed - 1 <= lenTxt THEN lenTxt
  ELSE needed

(***************************************************************************)
(* characters: collect the text, growing the buffer as needed; a buffer    *)
(* that grew beyond LIM_T shrinks to it once that is enough.  In a skipped *)
(* element characters does nothing.                                        *)
(***************************************************************************)
NewLength(needed) ==
  IF needed <= LIM_T /\ LIM_T < lenTxt THEN LIM_T
  ELSE IF needed < lenTxt THEN lenTxt
  ELSE needed

Characters(chunk) ==
  /\ Idle /\ opened /\ current # rn_notAllowed
  /\ Len(text) + Len(chunk) <= MaxText
  /\ lenTxt' = NewLength(Len(text) + Len(chunk) + 1)
  /\ text' = text \o chunk
  /\ UNCHANGED <<schema, current, previous, ok, level, mixed, errors, call, clean>>

-----------------------------------------------------------------------------
\* Mutant: the flushed text stays in the buffer.
StartTagKeepsText(name, atts) ==
  /\ Idle /\ opened /\ current # rn_notAllowed
  /\ \E f \in {RnvText(current, previous, text, TRUE)} :
     \E o \in {RnvStartTagOpen(f.cur, name)} :
       LET skip == o.cur = rn_notAllowed
       IN  /\ current' = o.cur /\ previous' = o.prev
           /\ errors' = errors \cup f.errs \cup o.errs
           /\ ok' = (ok /\ f.ok /\ (skip => o.ok))
           /\ mixed' = ~skip
           /\ call' = IF skip THEN NoCall ELSE [in |-> TRUE, atts |-> atts, ok |-> o.ok]
  /\ UNCHANGED <<schema, level, text, lenTxt, clean>>

(***************************************************************************)
(* start_tag: flush the text before the tag, open the element; the loop    *)
(* over the attributes follows unless the element is to be skipped.        *)
(***************************************************************************)
StartTag(name, atts) ==
  /\ Idle /\ opened /\ current # rn_notAllowed
  /\ \E f \in {RnvText(current, previous, text, TRUE)} :
     \E o \in {RnvStartTagOpen(f.cur, name)} :
       LET skip == o.cur = rn_notAllowed
       IN  /\ current' = o.cur /\ previous' = o.prev
           /\ errors' = errors \cup f.errs \cup o.errs
           /\ ok' = (ok /\ f.ok /\ (skip => o.ok))
           /\ mixed' = ~skip
           /\ call' = IF skip THEN NoCall ELSE [in |-> TRUE, atts |-> atts, ok |-> o.ok]
  /\ text' = <<>>
  /\ UNCHANGED <<schema, level, lenTxt, clean>>

\* Mutant: an attribute that matches hides the one before that did not.
TakeAttributeForgets ==
  /\ call.in /\ call.atts # <<>>
  /\ \E a \in {RnvAttribute(current, Head(call.atts))} :
       LET skip == a.cur = rn_notAllowed
       IN  /\ current' = a.cur /\ previous' = a.prev
           /\ errors' = errors \cup a.errs
           /\ ok' = (ok /\ (skip => a.ok))
           /\ mixed' = ~skip
           /\ call' = IF skip THEN NoCall
                      ELSE [in |-> TRUE, atts |-> Tail(call.atts), ok |-> a.ok]
  /\ UNCHANGED <<schema, level, text, lenTxt, clean>>

\* One iteration of the loop over the attributes.
TakeAttribute ==
  /\ call.in /\ call.atts # <<>>
  /\ \E a \in {RnvAttribute(current, Head(call.atts))} :
       LET skip == a.cur = rn_notAllowed
       IN  /\ current' = a.cur /\ previous' = a.prev
           /\ errors' = errors \cup a.errs
           /\ ok' = (ok /\ (skip => call.ok /\ a.ok))
           /\ mixed' = ~skip
           /\ call' = IF skip THEN NoCall
                      ELSE [in |-> TRUE, atts |-> Tail(call.atts), ok |-> call.ok /\ a.ok]
  /\ UNCHANGED <<schema, level, text, lenTxt, clean>>

\* The end of rnv_start_tag and of start_tag.
CloseStartTag ==
  /\ call.in /\ call.atts = <<>>
  /\ \E c \in {RnvStartTagClose(current)} :
       /\ current' = c.cur /\ previous' = c.prev
       /\ errors' = errors \cup c.errs
       /\ ok' = (ok /\ call.ok /\ c.ok)
  /\ mixed' = FALSE
  /\ call' = NoCall
  /\ UNCHANGED <<schema, level, text, lenTxt, clean>>

\* A start tag inside a skipped element.
StartTagSkipped ==
  /\ Idle /\ opened /\ current = rn_notAllowed
  /\ level < MaxLevel
  /\ level' = level + 1
  /\ UNCHANGED <<schema, current, previous, ok, mixed, text, lenTxt, errors, call, clean>>

\* Mutants: the verdict is assigned instead of conjoined; the text after a child
\* element is taken for data.
EndTagForgets ==
  /\ Idle /\ opened /\ current # rn_notAllowed
  /\ \E f \in {RnvText(current, previous, text, mixed)} :
     \E e \in {RnvEndTag(f.cur)} :
       /\ current' = e.cur /\ previous' = e.prev
       /\ errors' = errors \cup f.errs \cup e.errs
       /\ ok' = (f.ok /\ e.ok)
  /\ text' = <<>>
  /\ mixed' = TRUE
  /\ UNCHANGED <<schema, level, lenTxt, call, clean>>

EndTagNotMixed ==
  /\ Idle /\ opened /\ current # rn_notAllowed
  /\ \E f \in {RnvText(current, previous, text, mixed)} :
     \E e \in {RnvEndTag(f.cur)} :
       /\ current' = e.cur /\ previous' = e.prev
       /\ errors' = errors \cup f.errs \cup e.errs
       /\ ok' = (ok /\ f.ok /\ e.ok)
  /\ text' = <<>>
  /\ mixed' = FALSE
  /\ UNCHANGED <<schema, level, lenTxt, call, clean>>

\* end_tag: flush the text before the tag, close the element.
EndTag ==
  /\ Idle /\ opened /\ current # rn_notAllowed
  /\ \E f \in {RnvText(current, previous, text, mixed)} :
     \E e \in {RnvEndTag(f.cur)} :
       /\ current' = e.cur /\ previous' = e.prev
       /\ errors' = errors \cup f.errs \cup e.errs
       /\ ok' = (ok /\ f.ok /\ e.ok)
  /\ text' = <<>>
  /\ mixed' = TRUE
  /\ UNCHANGED <<schema, level, lenTxt, call, clean>>

\* Mutant: off by one, skipping ends an element too early.
EndTagSkippedEarly ==
  /\ Idle /\ opened /\ current = rn_notAllowed
  /\ \/ level \in {0, 1} /\ current' = previous /\ level' = 0
     \/ level \notin {0, 1} /\ level > -MaxLevel /\ current' = current /\ level' = level - 1
  /\ UNCHANGED <<schema, previous, ok, mixed, text, lenTxt, errors, call, clean>>

\* An end tag inside a skipped element, or the one that ends it.
EndTagSkipped ==
  /\ Idle /\ opened /\ current = rn_notAllowed
  /\ \/ level = 0 /\ current' = previous /\ level' = level
     \/ level # 0 /\ level > -MaxLevel /\ current' = current /\ level' = level - 1
  /\ UNCHANGED <<schema, previous, ok, mixed, text, lenTxt, errors, call, clean>>

-----------------------------------------------------------------------------
(***************************************************************************)
(* A registered library raises: the call is abandoned where it stands.     *)
(* The verdict of the attributes before is lost, their errors are not.     *)
(***************************************************************************)
RaiseInAttribute ==
  /\ call.in /\ call.atts # <<>>
  /\ \E a \in {drv_attribute_open(current, Head(call.atts)[1])} :
       /\ a # rn_notAllowed /\ drv_calls_dtl(a, Head(call.atts)[2], libs)
       /\ current' = a /\ previous' = a
       /\ \E noted \in SUBSET Notice(a, Head(call.atts)[2]) : errors' = errors \cup noted
  /\ call' = NoCall
  /\ clean' = FALSE
  /\ UNCHANGED <<schema, ok, level, mixed, text, lenTxt>>

RaiseInEndTag ==
  /\ Idle /\ opened /\ current # rn_notAllowed /\ ~mixed
  /\ drv_calls_dtl(current, text, libs)
  /\ previous' = current
  /\ \E noted \in SUBSET Notice(current, text) : errors' = errors \cup noted
  /\ clean' = FALSE
  /\ UNCHANGED <<schema, current, ok, level, mixed, text, lenTxt, call>>

Next ==
  \/ \E s \in Starts : LoadSchema(s)
  \/ LoadFails
  \/ \E l \in Libraries : AddLibrary(l)
  \/ PushError
  \/ StartDocument
  \/ \E chunk \in Chunks : Characters(chunk)
  \/ \E name \in Names, atts \in AttributeLists : StartTag(name, atts)
  \/ TakeAttribute
  \/ CloseStartTag
  \/ StartTagSkipped
  \/ EndTag
  \/ EndTagSkipped
  \/ RaiseInAttribute
  \/ RaiseInEndTag

Spec == Init /\ [][Next]_vars

-----------------------------------------------------------------------------
(* Properties. *)

TypeOK ==
  /\ opened \in BOOLEAN /\ ok \in BOOLEAN /\ mixed \in BOOLEAN /\ clean \in BOOLEAN
  /\ level \in Levels /\ lenTxt \in Nat
  /\ text \in Seq(Char)
  /\ errors \subseteq ErrorCodes
  /\ libs \subseteq Libraries
  /\ call.in \in BOOLEAN /\ call.ok \in BOOLEAN
  /\ opened => start \in Starts

Faults == errors \cap RnvCodes

\* A document is never invalid without an error that tells why, even in the
\* middle of a start tag and whatever a library raised: each place of rnv.c that
\* answers 0 calls the error handler, and only start_document, which makes the
\* document valid again, forgets errors.
Explained == start # NoPattern /\ ~(ok /\ call.ok) => Faults # {}

\* As long as start_document came first and no library raised, valid? answers
\* exactly whether a fault was reported: no && of rnv.c or ruby_rnv.c loses the
\* verdict of an earlier step, no error is left over from another document.
ErrorsAgree == clean => ((ok /\ call.ok) <=> Faults = {})

\* An element is skipped only in a document already found invalid, with no text
\* waiting to be flushed and no start tag in progress, so that nothing the
\* skipping end tags leave undone (flush_text, mixed) can hide a first error.
Skipping ==
  current = rn_notAllowed /\ rn_notAllowed \notin Starts =>
    ~ok /\ text = <<>> /\ Idle

\* The text and its closing NUL fit the buffer that characters sizes, over any
\* sequence of texts that make it grow and shrink; a buffer that grew for a long
\* text is not kept for a short one.
BufferFits ==
  /\ start # NoPattern => Len(text) < lenTxt
  /\ text # <<>> /\ Len(text) < LIM_T => lenTxt <= LIM_T

\* Only a new document or a new schema makes an invalid document valid again.
VerdictFinal ==
  [][~ok /\ ok' => StartDocument \/ \E s \in Starts : LoadSchema(s)]_vars

\* The session keeps the promise of Verdict.
Promise == INSTANCE Verdict WITH
  Faults <- RnvCodes, loaded <- start # NoPattern, valid <- ok /\ call.ok,
  faults <- errors \cap RnvCodes, tag <- call.in

KeepsPromise == Promise!Spec
=============================================================================
