-------------------------- MODULE ValidatorProofs --------------------------
(***************************************************************************)
(* Theorems about Validator, for every derivative engine, every document   *)
(* and every division of its texts into chunks: the session under the      *)
(* parser behaves as Session says, so all that is proved of Session holds  *)
(* of it, and the text it has collected is the text of the document.       *)
(***************************************************************************)
EXTENDS Validator, SessionProofs, Lemmas

-----------------------------------------------------------------------------
(***************************************************************************)
(* The parser only ever takes the steps of a session.                      *)
(***************************************************************************)
LEMMA StepsAreSessionSteps == [NextValidator]_allVars => [Next]_vars
<1> SUFFICES ASSUME [NextValidator]_allVars PROVE [Next]_vars
  OBVIOUS
<1>1. CASE Load
  BY <1>1 DEF Load, Next
<1>2. CASE Register
  BY <1>2 DEF Register, Next
<1>3. CASE Parse
  BY <1>3 DEF Parse, Next
<1>4. ASSUME NEW name \in Names, NEW atts \in AttributeLists, StartElement(name, atts)
      PROVE  Next
  BY <1>4 DEF StartElement, Next
<1>5. CASE ContinueStart
  BY <1>5 DEF ContinueStart, Next
<1>6. ASSUME NEW chunk \in Chunks, CharacterData(chunk)
      PROVE  [Next]_vars
  <2>1. CASE Characters(chunk)
    BY <2>1 DEF Next
  <2> QED
    BY <1>6, <2>1 DEF CharacterData
<1>7. CASE EndElement
  <2>1. EndTag \/ EndTagSkipped
    BY <1>7 DEF EndElement
  <2> QED
    BY <2>1 DEF Next
<1>8. CASE Return
  BY <1>8 DEF Return
<1>9. CASE Raise
  BY <1>9 DEF Raise, Next
<1>10. CASE LibraryPushesError
  BY <1>10 DEF LibraryPushesError, Next
<1>11. CASE UNCHANGED allVars
  BY <1>11 DEF allVars
<1> QED
  BY <1>1, <1>2, <1>3, <1>4, <1>5, <1>6, <1>7, <1>8, <1>9, <1>10, <1>11 DEF NextValidator

\* A session driven by the parser is a session: whatever start_document, the tags
\* and the texts of any document, cut short anywhere, do to it is a behaviour of
\* the event interface.
THEOREM DrivesASession == SpecValidator => Spec
<1>1. InitValidator => Init
  BY DEF InitValidator
<1>2. [NextValidator]_allVars => [Next]_vars
  BY StepsAreSessionSteps
<1> QED
  BY <1>1, <1>2, PTL DEF SpecValidator, Spec

\* While a document is parsed, valid? agrees with the errors reported of it.
THEOREM ParsedErrorsAgree == SpecValidator => []ErrorsAgree
BY DrivesASession, AlwaysErrorsAgree, PTL

-----------------------------------------------------------------------------
(***************************************************************************)
(* What the nodes that the parser adds do to the children of an element.   *)
(***************************************************************************)
LEMMA NoChildren == LastText(<<>>) = <<>> /\ ~HasElement(<<>>)
BY DEF LastText, HasElement

\* A chunk of text continues the text at the end, or begins one.
LEMMA TextAdded ==
  ASSUME NEW ch, IsSequence(ch), NEW s \in Seq(Char)
  PROVE  /\ IsSequence(AddText(ch, s))
         /\ LastText(AddText(ch, s)) = LastText(ch) \o s
         /\ HasElement(AddText(ch, s)) <=> HasElement(ch)
<1> DEFINE joins == ch # <<>> /\ IsText(ch[Len(ch)])
<1>0. Len(ch) \in Nat /\ DOMAIN ch = 1..Len(ch) /\ (ch = <<>> <=> Len(ch) = 0)
  BY SequenceFacts
<1>1. CASE joins
  <2> DEFINE n == Len(ch)
             x == TextNode(ch[n][2] \o s)
             t == [ch EXCEPT ![n] = x]
  <2>1. AddText(ch, s) = t
    BY <1>1 DEF AddText
  <2>2. IsText(x) /\ ~IsElement(x) /\ x[2] = ch[n][2] \o s
    BY DEF TextNode, IsText, IsElement
  <2>3. ~IsElement(ch[n])
    BY <1>1 DEF IsText, IsElement
  <2>4. LastText(ch) = ch[n][2]
    BY <1>1 DEF LastText
  <2> HIDE DEF x
  <2>5. /\ IsSequence(t) /\ t # <<>>
        /\ Len(t) = n /\ DOMAIN t = 1..n
        /\ \A i \in 1 .. n - 1 : t[i] = ch[i]
        /\ t[n] = x
    BY <1>1, LastReplaced
  <2> HIDE DEF t
  <2>6. LastText(t) = ch[n][2] \o s
    BY <2>2, <2>5 DEF LastText
  <2>7. HasElement(t) <=> HasElement(ch)
    <3>1. \A i \in 1..n : IsElement(t[i]) <=> IsElement(ch[i])
      <4> TAKE i \in 1..n
      <4>1. i = n \/ i \in 1 .. n - 1
        BY <1>0, LastOrBefore
      <4>2. CASE i = n
        <5>1. t[i] = x /\ ch[i] = ch[n]
          BY <2>5, <4>2
        <5> QED
          BY <2>2, <2>3, <5>1 DEF IsElement
      <4>3. CASE i \in 1 .. n - 1
        <5>1. t[i] = ch[i]
          BY <2>5, <4>3
        <5> QED
          BY <5>1
      <4> QED
        BY <4>1, <4>2, <4>3
    <3> QED
      BY <1>0, <2>5, <3>1 DEF HasElement
  <2> QED
    BY <2>1, <2>4, <2>5, <2>6, <2>7
<1>2. CASE ~joins
  <2> DEFINE n == Len(ch)
             x == TextNode(s)
             t == Append(ch, x)
  <2>1. AddText(ch, s) = t
    BY <1>2 DEF AddText
  <2>2. IsText(x) /\ ~IsElement(x) /\ x[2] = s
    BY DEF TextNode, IsText, IsElement
  <2>4. LastText(ch) = <<>> /\ <<>> \o s = s
    BY <1>2 DEF LastText
  <2> HIDE DEF x
  <2>5. /\ IsSequence(t) /\ t # <<>>
        /\ Len(t) = n + 1 /\ DOMAIN t = 1 .. n + 1
        /\ \A i \in 1..n : t[i] = ch[i]
        /\ t[n + 1] = x
    BY Appended
  <2> HIDE DEF t
  <2>6. LastText(t) = s
    BY <2>2, <2>5 DEF LastText
  <2>7. HasElement(t) <=> HasElement(ch)
    <3>1. \A i \in 1 .. n + 1 : i \in 1..n \/ i = n + 1
      BY <1>0
    <3> QED
      BY <1>0, <2>2, <2>5, <3>1 DEF HasElement
  <2> QED
    BY <2>1, <2>4, <2>5, <2>6, <2>7
<1> QED
  BY <1>1, <1>2

\* An element ends the text before it.
LEMMA ElementAdded ==
  ASSUME NEW ch, IsSequence(ch), NEW name, NEW atts, NEW below
  PROVE  LET t == Append(ch, ElementNode(name, atts, below))
         IN  IsSequence(t) /\ LastText(t) = <<>> /\ HasElement(t)
<1> DEFINE x == ElementNode(name, atts, below)
           t == Append(ch, x)
<1>1. IsElement(x) /\ ~IsText(x)
  BY DEF ElementNode, IsText, IsElement
<1> HIDE DEF x
<1>2. /\ IsSequence(t) /\ t # <<>> /\ Len(ch) \in Nat
      /\ Len(t) = Len(ch) + 1 /\ DOMAIN t = 1 .. Len(ch) + 1
      /\ t[Len(ch) + 1] = x
  BY Appended, SequenceFacts
<1> HIDE DEF t
<1>3. LastText(t) = <<>>
  BY <1>1, <1>2 DEF LastText
<1>4. Len(ch) + 1 \in DOMAIN t
  BY <1>2
<1>5. HasElement(t)
  BY <1>1, <1>2, <1>4 DEF HasElement
<1> QED
  BY <1>2, <1>3, <1>5 DEF t, x

-----------------------------------------------------------------------------
(***************************************************************************)
(* The open elements.                                                      *)
(***************************************************************************)
Frame(e) ==
  /\ e = [name |-> e.name, atts |-> e.atts, children |-> e.children]
  /\ IsSequence(e.children)

Frames(s) == IsSequence(s) /\ \A i \in DOMAIN s : Frame(s[i])

LEMMA NewFrame ==
  ASSUME NEW name, NEW atts
  PROVE  LET e == [name |-> name, atts |-> atts, children |-> <<>>]
         IN  Frame(e) /\ e.children = <<>>
BY EmptySequence DEF Frame

LEMMA FrameWith ==
  ASSUME NEW e, Frame(e), NEW ch, IsSequence(ch)
  PROVE  LET f == [e EXCEPT !.children = ch]
         IN  Frame(f) /\ f.children = ch
<1> DEFINE g == [name |-> e.name, atts |-> e.atts, children |-> ch]
<1>1. [e EXCEPT !.children = ch] = g
  <2>1. e = [name |-> e.name, atts |-> e.atts, children |-> e.children]
    BY DEF Frame
  <2> QED
    BY <2>1
<1>2. Frame(g) /\ g.children = ch
  BY DEF Frame
<1> QED
  BY <1>1, <1>2

LEMMA FramesEmpty == Frames(<<>>)
BY EmptySequence DEF Frames

LEMMA FramesAppend ==
  ASSUME NEW s, Frames(s), NEW e, Frame(e)
  PROVE  LET t == Append(s, e) IN Frames(t) /\ t # <<>> /\ t[Len(t)] = e
<1> DEFINE t == Append(s, e)
<1>1. IsSequence(s) /\ Len(s) \in Nat /\ DOMAIN s = 1..Len(s)
  BY SequenceFacts DEF Frames
<1>2. /\ IsSequence(t) /\ t # <<>> /\ Len(t) = Len(s) + 1 /\ DOMAIN t = 1 .. Len(s) + 1
      /\ \A i \in 1..Len(s) : t[i] = s[i]
      /\ t[Len(s) + 1] = e
  BY <1>1, Appended
<1> HIDE DEF t
<1>3. \A i \in 1 .. Len(s) + 1 : i \in 1..Len(s) \/ i = Len(s) + 1
  BY <1>1
<1>4. \A i \in DOMAIN t : Frame(t[i])
  BY <1>1, <1>2, <1>3 DEF Frames
<1> QED
  BY <1>2, <1>4 DEF Frames, t

LEMMA FramesBelow ==
  ASSUME NEW s, Frames(s), s # <<>>
  PROVE  Frames(SubSeq(s, 1, Len(s) - 1)) /\ Frame(s[Len(s)])
<1> DEFINE t == SubSeq(s, 1, Len(s) - 1)
<1>1. IsSequence(s) /\ Len(s) \in Nat /\ DOMAIN s = 1..Len(s) /\ Len(s) # 0
  BY SequenceFacts DEF Frames
<1>2. /\ IsSequence(t) /\ Len(t) = Len(s) - 1
      /\ \A i \in 1 .. Len(s) - 1 : t[i] = s[i]
  BY <1>1, LastDropped
<1> HIDE DEF t
<1>3. DOMAIN t = 1 .. Len(s) - 1
  BY <1>2, SequenceFacts
<1>4. Len(s) \in 1..Len(s) /\ \A i \in 1 .. Len(s) - 1 : i \in 1..Len(s)
  BY <1>1
<1>5. \A i \in DOMAIN t : Frame(t[i])
  BY <1>1, <1>2, <1>3, <1>4 DEF Frames
<1> QED
  BY <1>1, <1>2, <1>4, <1>5 DEF Frames, t

LEMMA FramesReplaced ==
  ASSUME NEW s, Frames(s), s # <<>>, NEW e, Frame(e)
  PROVE  LET t == [s EXCEPT ![Len(s)] = e] IN Frames(t) /\ t # <<>> /\ t[Len(t)] = e
<1> DEFINE t == [s EXCEPT ![Len(s)] = e]
<1>1. IsSequence(s) /\ Len(s) \in Nat /\ DOMAIN s = 1..Len(s)
  BY SequenceFacts DEF Frames
<1>2. /\ IsSequence(t) /\ t # <<>> /\ Len(t) = Len(s) /\ DOMAIN t = 1..Len(s)
      /\ \A i \in 1 .. Len(s) - 1 : t[i] = s[i]
      /\ t[Len(s)] = e
  BY <1>1, LastReplaced
<1> HIDE DEF t
<1>3. \A i \in 1..Len(s) : i = Len(s) \/ i \in 1 .. Len(s) - 1
  BY <1>1, LastOrBefore
<1>4. \A i \in DOMAIN t : Frame(t[i])
  BY <1>1, <1>2, <1>3 DEF Frames
<1> QED
  BY <1>2, <1>4 DEF Frames, t
-----------------------------------------------------------------------------
(***************************************************************************)
(* The inductive invariant.  TextPending speaks of the moments between     *)
(* calls; inside a start tag the element is still without children and the *)
(* text was flushed.  A pattern that nothing matches is met only in a      *)
(* document already invalid, with nothing collected: where the skipped     *)
(* element ends, the text before the next tag begins anew.                 *)
(***************************************************************************)
InTag == Parsing /\ start # rn_notAllowed /\ call.in => open # <<>> /\ Top.children = <<>>

Lost == Parsing /\ start # rn_notAllowed /\ current = rn_notAllowed => ~ok /\ text = <<>>

Aligned == Frames(open) /\ InTag /\ Lost /\ TextPending

LEMMA InitAligned == InitValidator => Aligned
BY FramesEmpty DEF InitValidator, Aligned, InTag, Lost, TextPending, Parsing

LEMMA NotParsingAligned ==
  ASSUME Frames(open)', ~Parsing'
  PROVE  Aligned'
BY DEF Aligned, InTag, Lost, TextPending

\* What a start tag leaves behind: the loop over the attributes of a pattern to
\* go on with, or an invalid document to be skipped.
LEMMA AfterStartTag ==
  ASSUME IInv, NEW name, NEW atts, StartTag(name, atts)
  PROVE  /\ text' = <<>> /\ start' = start
         /\ call'.in \in BOOLEAN
         /\ current' = rn_notAllowed => ~ok' /\ ~call'.in
         /\ current' # rn_notAllowed => call'.in
<1>1. PICK f \in {RnvText(current, previous, text, TRUE)} :
      \E o \in {RnvStartTagOpen(f.cur, name)} :
       LET skip == o.cur = rn_notAllowed
       IN  /\ current' = o.cur
           /\ ok' = (ok /\ f.ok /\ (skip => o.ok))
           /\ call' = IF skip THEN NoCall ELSE [in |-> TRUE, atts |-> atts, ok |-> o.ok]
  BY DEF StartTag
<1>2. PICK o \in {RnvStartTagOpen(f.cur, name)} :
       LET skip == o.cur = rn_notAllowed
       IN  /\ current' = o.cur
           /\ ok' = (ok /\ f.ok /\ (skip => o.ok))
           /\ call' = IF skip THEN NoCall ELSE [in |-> TRUE, atts |-> atts, ok |-> o.ok]
  BY <1>1
<1>3. o.ok => o.cur # rn_notAllowed
  BY <1>2, StartTagOpenJudged DEF Judged
<1>4. text' = <<>> /\ start' = start
  BY DEF StartTag, schema
<1>5. CASE o.cur = rn_notAllowed
  BY <1>2, <1>3, <1>4, <1>5 DEF NoCall
<1>6. CASE o.cur # rn_notAllowed
  BY <1>2, <1>4, <1>6
<1> QED
  BY <1>5, <1>6

LEMMA AfterAttribute ==
  ASSUME IInv, TakeAttribute
  PROVE  /\ text' = text /\ start' = start /\ call.in
         /\ call'.in \in BOOLEAN
         /\ current' = rn_notAllowed => ~ok' /\ ~call'.in
         /\ current' # rn_notAllowed => call'.in
<1>1. PICK a \in {RnvAttribute(current, Head(call.atts))} :
       LET skip == a.cur = rn_notAllowed
       IN  /\ current' = a.cur
           /\ ok' = (ok /\ (skip => call.ok /\ a.ok))
           /\ call' = IF skip THEN NoCall
                      ELSE [in |-> TRUE, atts |-> Tail(call.atts), ok |-> call.ok /\ a.ok]
  BY DEF TakeAttribute
<1>2. a.ok => a.cur # rn_notAllowed
  BY <1>1, AttributeJudged DEF Judged
<1>3. text' = text /\ start' = start /\ call.in
  BY DEF TakeAttribute, schema
<1>4. CASE a.cur = rn_notAllowed
  BY <1>1, <1>2, <1>3, <1>4 DEF NoCall
<1>5. CASE a.cur # rn_notAllowed
  BY <1>1, <1>3, <1>5
<1> QED
  BY <1>4, <1>5

LEMMA AfterCloseStartTag ==
  ASSUME IInv, CloseStartTag
  PROVE  /\ text' = text /\ start' = start /\ call.in
         /\ ~call'.in /\ mixed' = FALSE
         /\ current' = rn_notAllowed => ~ok'
<1>1. PICK c \in {RnvStartTagClose(current)} :
         current' = c.cur /\ ok' = (ok /\ call.ok /\ c.ok)
  BY DEF CloseStartTag
<1>2. c.ok => c.cur # rn_notAllowed
  BY <1>1, StartTagCloseJudged DEF Judged
<1> QED
  BY <1>1, <1>2 DEF CloseStartTag, schema, NoCall

LEMMA AfterEndTag ==
  ASSUME IInv, EndTag
  PROVE  /\ text' = <<>> /\ start' = start
         /\ ~call'.in /\ mixed' = TRUE
         /\ current' = rn_notAllowed => ~ok'
<1>1. PICK f \in {RnvText(current, previous, text, mixed)} :
      \E e \in {RnvEndTag(f.cur)} :
        current' = e.cur /\ ok' = (ok /\ f.ok /\ e.ok)
  BY DEF EndTag
<1>2. PICK e \in {RnvEndTag(f.cur)} : current' = e.cur /\ ok' = (ok /\ f.ok /\ e.ok)
  BY <1>1
<1>3. e.ok => e.cur # rn_notAllowed
  BY <1>2, EndTagJudged DEF Judged
<1> QED
  BY <1>2, <1>3 DEF EndTag, schema, Idle

-----------------------------------------------------------------------------
LEMMA StartElementAligned ==
  ASSUME IInv, Aligned, NEW name, NEW atts, StartElement(name, atts)
  PROVE  Aligned'
<1> DEFINE e == [name |-> name, atts |-> atts, children |-> <<>>]
<1>1. Frame(e) /\ e.children = <<>>
  BY NewFrame
<1>2. open' = Append(open, e) /\ phase' = phase /\ Parsing
  BY DEF StartElement
<1> HIDE DEF e
<1>3. Frames(open)' /\ open' # <<>> /\ Top' = e
  BY <1>1, <1>2, FramesAppend DEF Aligned, Top
<1>4. LastText(Top.children)' = <<>> /\ ~HasElement(Top.children)'
  BY <1>1, <1>3, NoChildren
<1>5. CASE StartTag(name, atts)
  <2>1. /\ text' = <<>>
        /\ current' = rn_notAllowed => ~ok' /\ ~call'.in
        /\ current' # rn_notAllowed => call'.in
    BY <1>5, AfterStartTag
  <2> QED
    BY <1>1, <1>3, <2>1 DEF Aligned, InTag, Lost, TextPending, Idle
<1>6. CASE StartTagSkipped
  <2>1. UNCHANGED <<start, current, text, ok, call>> /\ current = rn_notAllowed /\ Idle
    BY <1>6 DEF StartTagSkipped, schema
  <2>2. start # rn_notAllowed => ~ok /\ text = <<>>
    BY <1>2, <2>1 DEF Aligned, Lost
  <2> QED
    BY <1>3, <2>1, <2>2 DEF Aligned, InTag, Lost, TextPending, Idle
<1> QED
  BY <1>5, <1>6 DEF StartElement

LEMMA ContinueStartAligned ==
  ASSUME IInv, Aligned, ContinueStart
  PROVE  Aligned'
<1>1. open' = open /\ phase' = phase /\ Parsing /\ Frames(open)'
  BY DEF ContinueStart, doc, Aligned
<1>2. Top' = Top
  BY <1>1 DEF Top
<1>3. ASSUME call.in, start # rn_notAllowed
      PROVE  open # <<>> /\ Top.children = <<>> /\ text = <<>>
  BY <1>1, <1>3 DEF Aligned, InTag, IInv, Calls
<1>4. start # rn_notAllowed /\ call.in =>
        LastText(Top.children) = <<>> /\ ~HasElement(Top.children)
  BY <1>3, NoChildren
<1>5. CASE TakeAttribute
  BY <1>1, <1>2, <1>3, <1>5, AfterAttribute DEF Aligned, InTag, Lost, TextPending, Idle
<1>6. CASE CloseStartTag
  BY <1>1, <1>2, <1>3, <1>4, <1>6, AfterCloseStartTag
     DEF Aligned, InTag, Lost, TextPending, Idle
<1> QED
  BY <1>5, <1>6 DEF ContinueStart

LEMMA CharacterDataAligned ==
  ASSUME IInv, Aligned, NEW chunk \in Chunks, CharacterData(chunk)
  PROVE  Aligned'
<1> DEFINE ch == AddText(Top.children, chunk)
           e  == [Top EXCEPT !.children = ch]
<1>1. open # <<>> /\ phase' = phase /\ Parsing /\ Idle /\ open' = Append(Below, e)
  BY DEF CharacterData, WithChildren
<1>2. Frames(Below) /\ Frame(Top)
  BY <1>1, FramesBelow DEF Aligned, Below, Top
<1>3. chunk \in Seq(Char) /\ IsSequence(Top.children)
  BY <1>2, TextsTyped DEF Frame
<1>4. /\ IsSequence(ch)
      /\ LastText(ch) = LastText(Top.children) \o chunk
      /\ HasElement(ch) <=> HasElement(Top.children)
  BY <1>3, TextAdded
<1> HIDE DEF ch
<1>5. Frame(e) /\ e.children = ch
  BY <1>2, <1>4, FrameWith
<1> HIDE DEF e
<1>6. Frames(open)' /\ open' # <<>> /\ Top' = e
  BY <1>1, <1>2, <1>5, FramesAppend DEF Top
<1>7. CASE Characters(chunk)
  <2>1. /\ UNCHANGED <<start, current, ok, mixed, call>>
        /\ current # rn_notAllowed /\ text' = text \o chunk
    BY <1>7 DEF Characters, schema
  <2>2. start # rn_notAllowed =>
          /\ text = LastText(Top.children)
          /\ ok => (mixed <=> HasElement(Top.children))
    BY <1>1, <2>1 DEF Aligned, TextPending
  <2>3. Lost' /\ InTag'
    BY <1>1, <2>1 DEF Lost, InTag, Idle
  <2>4. TextPending'
    BY <1>4, <1>5, <1>6, <2>1, <2>2 DEF TextPending
  <2> QED
    BY <1>6, <2>3, <2>4 DEF Aligned
<1>8. CASE current = rn_notAllowed /\ UNCHANGED vars
  <2>1. UNCHANGED <<start, current, ok, text, call>>
    BY <1>8 DEF vars
  <2>2. start # rn_notAllowed => ~ok /\ text = <<>>
    BY <1>1, <1>8 DEF Aligned, Lost
  <2> QED
    BY <1>1, <1>6, <1>8, <2>1, <2>2 DEF Aligned, InTag, Lost, TextPending, Idle
<1> QED
  BY <1>7, <1>8 DEF CharacterData

LEMMA EndElementAligned ==
  ASSUME IInv, Aligned, EndElement
  PROVE  Aligned'
<1> DEFINE element == ElementNode(Top.name, Top.atts, Top.children)
           parent  == Below[Len(Below)]
           ch      == Append(parent.children, element)
           e       == [parent EXCEPT !.children = ch]
<1>1. open # <<>> /\ phase' = phase /\ Parsing /\ Idle
  BY DEF EndElement
<1>2. Frames(Below)
  BY <1>1, FramesBelow DEF Aligned, Below
<1>3. \/ open' = <<>>
      \/ /\ Frames(open)' /\ open' # <<>>
         /\ LastText(Top.children)' = <<>> /\ HasElement(Top.children)'
  <2>1. CASE Below = <<>>
    BY <2>1 DEF EndElement
  <2>2. CASE Below # <<>>
    <3>1. open' = [Below EXCEPT ![Len(Below)] = e]
      BY <2>2 DEF EndElement
    <3>2. Frame(parent) /\ IsSequence(parent.children)
      BY <1>2, <2>2, FramesBelow DEF Frame
    <3>3. IsSequence(ch) /\ LastText(ch) = <<>> /\ HasElement(ch)
      BY <3>2, ElementAdded
    <3> HIDE DEF parent, ch
    <3>4. Frame(e) /\ e.children = ch
      BY <3>2, <3>3, FrameWith
    <3> HIDE DEF e
    <3>5. Frames(open)' /\ open' # <<>> /\ Top' = e
      BY <1>2, <2>2, <3>1, <3>4, FramesReplaced DEF Top
    <3> QED
      BY <3>3, <3>4, <3>5
  <2> QED
    BY <2>1, <2>2
<1>4. Frames(open)'
  BY <1>3, FramesEmpty
<1>5. CASE EndTag
  BY <1>3, <1>4, <1>5, AfterEndTag DEF Aligned, InTag, Lost, TextPending
<1>6. CASE EndTagSkipped
  <2>1. UNCHANGED <<start, ok, text, call>> /\ current = rn_notAllowed
    BY <1>6 DEF EndTagSkipped, schema
  <2>2. start # rn_notAllowed => ~ok /\ text = <<>>
    BY <1>1, <2>1 DEF Aligned, Lost
  <2> QED
    BY <1>1, <1>3, <1>4, <2>1, <2>2 DEF Aligned, InTag, Lost, TextPending, Idle
<1> QED
  BY <1>5, <1>6 DEF EndElement

\* Every event preserves the invariant.
LEMMA NextAligned ==
  ASSUME IInv, Aligned, [NextValidator]_allVars
  PROVE  Aligned'
<1>0. Frames(open)
  BY DEF Aligned
<1>1. CASE Load
  <2>1. ~Parsing' /\ Frames(open)'
    BY <1>1, FramesEmpty DEF Load, NoDocument, Parsing
  <2> QED
    BY <2>1, NotParsingAligned
<1>2. CASE Register
  <2>1. ~Parsing' /\ Frames(open)'
    BY <1>0, <1>2 DEF Register, Parsing, doc
  <2> QED
    BY <2>1, NotParsingAligned
<1>3. CASE Parse
  <2>1. /\ open' = <<>> /\ current' = start /\ start' = start
        /\ call' = call /\ Idle
    BY <1>3 DEF Parse, NoDocument, StartDocument, schema
  <2> QED
    BY <2>1, FramesEmpty DEF Aligned, InTag, Lost, TextPending, Idle
<1>4. ASSUME NEW name \in Names, NEW atts \in AttributeLists, StartElement(name, atts)
      PROVE  Aligned'
  BY <1>4, StartElementAligned
<1>5. CASE ContinueStart
  BY <1>5, ContinueStartAligned
<1>6. ASSUME NEW chunk \in Chunks, CharacterData(chunk)
      PROVE  Aligned'
  BY <1>6, CharacterDataAligned
<1>7. CASE EndElement
  BY <1>7, EndElementAligned
<1>8. CASE Return
  <2>1. ~Parsing' /\ Frames(open)'
    BY <1>0, <1>8 DEF Return, Parsing, doc
  <2> QED
    BY <2>1, NotParsingAligned
<1>9. CASE Raise
  <2>1. ~Parsing' /\ Frames(open)'
    BY <1>0, <1>9 DEF Raise, Parsing, doc
  <2> QED
    BY <2>1, NotParsingAligned
<1>10. CASE LibraryPushesError
  <2>1. UNCHANGED <<open, phase, start, current, ok, mixed, text, call>>
    BY <1>10 DEF LibraryPushesError, PushError, schema, doc
  <2> QED
    BY <2>1 DEF Aligned, InTag, Lost, TextPending, Idle, Parsing, Top
<1>11. CASE UNCHANGED allVars
  <2>1. UNCHANGED <<open, phase, start, current, ok, mixed, text, call>>
    BY <1>11 DEF allVars, vars, doc
  <2> QED
    BY <2>1 DEF Aligned, InTag, Lost, TextPending, Idle, Parsing, Top
<1> QED
  BY <1>1, <1>2, <1>3, <1>4, <1>5, <1>6, <1>7, <1>8, <1>9, <1>10, <1>11 DEF NextValidator

LEMMA SpecAligned == SpecValidator => [](IInv /\ Aligned)
<1>1. InitValidator => Aligned
  BY InitAligned
<1>2. IInv /\ Aligned /\ [NextValidator]_allVars => Aligned'
  BY NextAligned
<1>3. SpecValidator => []IInv
  BY DrivesASession, SpecIInv, PTL
<1> QED
  BY <1>1, <1>2, <1>3, PTL DEF SpecValidator

\* Whatever the engine answers and however the parser divides the texts, the text
\* that waits to be judged is the text of the document since the last tag, and a
\* document without errors judges it as mixed exactly beside an element.
THEOREM TextIsPending == SpecValidator => []TextPending
<1>1. Aligned => TextPending
  BY DEF Aligned
<1> QED
  BY <1>1, SpecAligned, PTL

-----------------------------------------------------------------------------
(***************************************************************************)
(* Staying in step.  An engine whose derivatives keep count of the open    *)
(* elements (EngineCounts) is all that is asked of it; which pattern they  *)
(* leave is its own affair.  What each function of rnv.c then leaves:      *)
(***************************************************************************)
LEMMA NoneFails ==
  ASSUME NEW n
  PROVE  rn_notAllowed \notin Expecting(n)
BY StartsCount DEF Expecting

LEMMA OutcomeCur ==
  ASSUME NEW cur, NEW q, NEW r, NEW code, NEW noted
  PROVE  LET o == Outcome(cur, q, r, code, noted)
         IN  /\ q # rn_notAllowed => o.cur = q
             /\ q = rn_notAllowed => o.cur = r
             /\ o.prev = cur
BY DEF Outcome, Step

LEMMA DeepestNat == Deepest \in Nat
BY DocumentBounds DEF Deepest

\* A text that is refused is ignored.
LEMMA TextCounts ==
  ASSUME NEW n \in 0 .. Deepest + 1, NEW cur \in Expecting(n), NEW prev,
         NEW s \in TextsMet, NEW mx \in BOOLEAN, libs \subseteq Libraries
  PROVE  RnvText(cur, prev, s, mx).cur \in Expecting(n)
<1>1. TakesTexts(Expecting(n))
  BY EngineCounts
<1>2. drv_mixed_text(cur) \in Expecting(n) \cup Fails
  BY <1>1 DEF TakesTexts
<1>3. s \in TextsJudged /\ libs \in SUBSET Libraries
  BY DEF TextsJudged
<1>4. drv_text(cur, s, libs) \in Expecting(n) \cup Fails
  BY <1>1, <1>3 DEF TakesTexts
<1>5. CASE ~mx
  <2>1. RnvText(cur, prev, s, mx) = Outcome(cur, drv_text(cur, s, libs), cur, "text", Notice(cur, s))
    BY <1>5 DEF RnvText
  <2> QED
    BY <1>4, <2>1, OutcomeCur DEF Fails
<1>6. CASE mx /\ xmlc_white_space(s)
  <2>1. RnvText(cur, prev, s, mx) = Step(cur, prev, TRUE, {})
    BY <1>6 DEF RnvText
  <2> QED
    BY <2>1 DEF Step
<1>7. CASE mx /\ ~xmlc_white_space(s)
  <2>1. RnvText(cur, prev, s, mx) = Outcome(cur, drv_mixed_text(cur), cur, "notx", {})
    BY <1>7 DEF RnvText
  <2> QED
    BY <1>2, <2>1, OutcomeCur DEF Fails
<1> QED
  BY <1>5, <1>6, <1>7

\* A start tag opens an element, or is skipped and leaves what it met to be resumed.
LEMMA StartTagOpenCounts ==
  ASSUME NEW n \in 0 .. Deepest - 1, NEW cur \in Expecting(n), NEW name \in Names
  PROVE  LET o == RnvStartTagOpen(cur, name)
         IN  o.cur \in Expecting(n + 1) \cup Fails /\ o.prev = cur
<1> DEFINE q == drv_start_tag_open(cur, name)
           r == drv_start_tag_open_recover(cur, name)
           code == IF r = rn_notAllowed THEN "elem" ELSE "emis"
<1>1. OpensTags(Expecting(n), Expecting(n + 1))
  BY EngineCounts
<1>2. {q, r} \subseteq Expecting(n + 1) \cup Fails
  BY <1>1 DEF OpensTags
<1>3. RnvStartTagOpen(cur, name) = Outcome(cur, q, r, code, {})
  BY DEF RnvStartTagOpen
<1> HIDE DEF q, r, code
<1> QED
  BY <1>2, <1>3, OutcomeCur

\* An attribute is opened and closed again, or forgotten.
LEMMA AttributeCounts ==
  ASSUME NEW n \in 1..Deepest, NEW cur \in Expecting(n), NEW att \in Attributes,
         libs \subseteq Libraries
  PROVE  RnvAttribute(cur, att).cur \in Expecting(n)
<1> DEFINE a == drv_attribute_open(cur, att[1])
           t == drv_text(a, att[2], libs)
<1>0. Deepest \in Nat
  BY DeepestNat
<1>1. a \in Expecting(n + 1) \cup Fails
  <2>1. OpensAttributes(Expecting(n), Expecting(n + 1))
    BY EngineCounts
  <2> QED
    BY <2>1 DEF OpensAttributes
<1>2. ASSUME a # rn_notAllowed
      PROVE  t \in Expecting(n + 1) \cup Fails
  <2>1. TakesTexts(Expecting(n + 1))
    BY <1>0, EngineCounts
  <2>2. att[2] \in TextsJudged /\ libs \in SUBSET Libraries
    BY DEF TextsJudged
  <2> QED
    BY <1>1, <1>2, <2>1, <2>2 DEF TakesTexts, Fails
<1>3. \A p \in Expecting(n + 1) :
        drv_end_tag(p) \in Expecting(n) \cup Fails /\ drv_end_tag_recover(p) \in Expecting(n)
  <2>1. n + 1 \in 1 .. Deepest + 1 /\ (n + 1) - 1 = n
    BY <1>0
  <2>2. EndsTags(Expecting(n + 1), Expecting((n + 1) - 1))
    BY <2>1, EngineCounts
  <2> QED
    BY <2>1, <2>2 DEF EndsTags
<1> HIDE DEF a, t
<1>4. CASE a = rn_notAllowed
  <2>1. AttributeOpened(cur, a, att[2]) = Outcome(cur, a, cur, "akey", {})
    BY <1>4 DEF AttributeOpened
  <2> QED
    BY <1>4, <2>1, OutcomeCur DEF RnvAttribute, a
<1>5. CASE a # rn_notAllowed
  <2> DEFINE noted == Notice(a, att[2])
  <2>1. RnvAttribute(cur, att) = ValueMatched(a, t, noted)
    BY <1>5 DEF RnvAttribute, AttributeOpened, a, t
  <2>2. a \in Expecting(n + 1)
    BY <1>1, <1>5 DEF Fails
  <2> HIDE DEF noted
  <2>3. CASE t = rn_notAllowed
    <3>1. ValueMatched(a, t, noted) = Outcome(a, t, drv_end_tag_recover(a), "aval", noted)
      BY <2>3 DEF ValueMatched
    <3> QED
      BY <1>3, <2>1, <2>2, <2>3, <3>1, OutcomeCur
  <2>4. CASE t # rn_notAllowed
    <3>1. ValueMatched(a, t, noted)
            = Outcome(t, drv_end_tag(t), drv_end_tag_recover(t), "aval", noted)
      BY <2>4 DEF ValueMatched
    <3>2. t \in Expecting(n + 1)
      BY <1>2, <1>5, <2>4 DEF Fails
    <3> QED
      BY <1>3, <2>1, <3>1, <3>2, OutcomeCur DEF Fails
  <2> QED
    BY <2>3, <2>4
<1> QED
  BY <1>4, <1>5

\* Missing attributes are forgiven, or nothing is left.
LEMMA StartTagCloseCounts ==
  ASSUME NEW n \in 1..Deepest, NEW cur \in Expecting(n)
  PROVE  LET c == RnvStartTagClose(cur)
         IN  c.cur \in Expecting(n) \cup Fails /\ c.prev = cur
<1> DEFINE q == drv_start_tag_close(cur)
           r == drv_start_tag_close_recover(cur)
<1>1. {q, r} \subseteq Expecting(n) \cup Fails
  BY EngineCounts DEF ClosesStartTags
<1>2. RnvStartTagClose(cur) = Outcome(cur, q, r, "amis", {})
  BY DEF RnvStartTagClose
<1> HIDE DEF q, r
<1> QED
  BY <1>1, <1>2, OutcomeCur

LEMMA EndTagCounts ==
  ASSUME NEW n \in 1 .. Deepest + 1, NEW cur \in Expecting(n)
  PROVE  RnvEndTag(cur).cur \in Expecting(n - 1)
<1>1. EndsTags(Expecting(n), Expecting(n - 1))
  BY EngineCounts
<1> QED
  BY <1>1, OutcomeCur DEF EndsTags, RnvEndTag, Fails

-----------------------------------------------------------------------------
(***************************************************************************)
(* The inductive invariant.  Between the elements skipped and those that   *)
(* wait to be resumed the count is kept by level, which is 0 whenever      *)
(* nothing is skipped; no element is skipped outside the root.  A start    *)
(* tag that recovery cannot close waits to be resumed inside itself: from  *)
(* then on one more element is open to the session than to the document.   *)
(***************************************************************************)
Following(n, p, l) == p \in Expecting(n) /\ l = 0

SkippingIn(n, p, l) ==
  l \in Nat /\ \E m \in 0 .. Deepest : m = n - l - 1 /\ p \in Expecting(m)

\* The elements that are open to the session.
OpenHere == Len(open) + behind

InDepth ==
  Parsing /\ start # rn_notAllowed =>
    /\ Len(open) \in 0..MaxDepth /\ behind \in 0..MaxBehind
    /\ text \in TextsMet
    /\ call.in => Len(open) # 0 /\ call.atts \in Seq(Attributes)
    /\ current # rn_notAllowed => Following(OpenHere, current, level)
    /\ current = rn_notAllowed => SkippingIn(OpenHere, previous, level)

LEMMA HereBounded ==
  ASSUME InDepth, Parsing, start # rn_notAllowed
  PROVE  OpenHere \in 0..Deepest /\ Deepest \in Nat /\ (Len(open) # 0 => OpenHere # 0)
BY DocumentBounds DEF InDepth, OpenHere, Deepest

LEMMA InDepthInStep ==
  ASSUME InDepth
  PROVE  InStep
BY DEF InDepth, InStep, Following, SkippingIn, Expecting, OpenHere

\* How many elements are open after each event.
LEMMA OneMore ==
  ASSUME Frames(open), NEW name, NEW atts, StartElement(name, atts)
  PROVE  Len(open') = Len(open) + 1 /\ Len(open) \in 0 .. MaxDepth - 1
<1>1. IsSequence(open) /\ Len(open) \in Nat /\ MaxDepth \in Nat
  BY SequenceFacts, DocumentBounds DEF Frames
<1> QED
  BY <1>1, Appended DEF StartElement

LEMMA AsMany ==
  ASSUME Frames(open), NEW chunk, CharacterData(chunk)
  PROVE  Len(open') = Len(open)
<1> DEFINE e == [Top EXCEPT !.children = AddText(Top.children, chunk)]
<1>1. open # <<>> /\ open' = Append(Below, e)
  BY DEF CharacterData, WithChildren
<1> HIDE DEF e
<1>2. IsSequence(open) /\ Len(open) \in Nat
  BY SequenceFacts DEF Frames
<1>3. IsSequence(Below) /\ Len(Below) = Len(open) - 1
  BY <1>1, <1>2, LastDropped DEF Below
<1> QED
  BY <1>1, <1>2, <1>3, Appended

LEMMA OneLess ==
  ASSUME Frames(open), EndElement
  PROVE  Len(open') = Len(open) - 1 /\ Len(open) # 0
<1> DEFINE e == [Below[Len(Below)] EXCEPT !.children =
                   Append(@, ElementNode(Top.name, Top.atts, Top.children))]
<1>1. open # <<>>
  BY DEF EndElement
<1>2. IsSequence(open) /\ Len(open) \in Nat /\ Len(open) # 0
  BY <1>1, SequenceFacts DEF Frames
<1>3. IsSequence(Below) /\ Len(Below) = Len(open) - 1
  BY <1>1, <1>2, LastDropped DEF Below
<1>4. CASE Below = <<>>
  BY <1>2, <1>3, <1>4 DEF EndElement
<1>5. CASE Below # <<>>
  <2>1. open' = [Below EXCEPT ![Len(Below)] = e]
    BY <1>5 DEF EndElement
  <2> HIDE DEF e
  <2> QED
    BY <1>2, <1>3, <1>5, <2>1, LastReplaced
<1> QED
  BY <1>4, <1>5

LEMMA StartElementInDepth ==
  ASSUME IInv, Frames(open), InDepth, start # rn_notAllowed,
         NEW name \in Names, NEW atts \in AttributeLists, StartElement(name, atts)
  PROVE  InDepth'
<1> DEFINE n == OpenHere
<1>2. Parsing /\ Idle /\ behind' = behind
  BY DEF StartElement
<1>1. /\ OpenHere' = n + 1 /\ n \in 0 .. Deepest - 1 /\ Deepest \in Nat
      /\ Len(open') \in 0..MaxDepth /\ Len(open') # 0
  <2>1. Len(open') = Len(open) + 1 /\ Len(open) \in 0 .. MaxDepth - 1
    BY OneMore
  <2>2. behind \in 0..MaxBehind
    BY <1>2 DEF InDepth
  <2> QED
    BY <1>2, <2>1, <2>2, DocumentBounds DEF OpenHere, Deepest
<1>3. /\ text \in TextsMet /\ libs \subseteq Libraries /\ <<>> \in TextsMet
      /\ atts \in Seq(Attributes)
  BY <1>2, AttributesTyped, TextsCollected DEF InDepth, IInv, TypeOK
<1>4. n \in 0..Deepest /\ n \in 0 .. Deepest + 1 /\ behind' \in 0..MaxBehind
  BY <1>1, <1>2 DEF InDepth
<1> HIDE DEF n
<1>5. CASE StartTag(name, atts)
  <2>1. current \in Expecting(n) /\ level = 0
    BY <1>2, <1>5 DEF InDepth, Following, StartTag, n
  <2>2. PICK f \in {RnvText(current, previous, text, TRUE)} :
        \E o \in {RnvStartTagOpen(f.cur, name)} :
         LET skip == o.cur = rn_notAllowed
         IN  /\ current' = o.cur /\ previous' = o.prev
             /\ call' = IF skip THEN NoCall ELSE [in |-> TRUE, atts |-> atts, ok |-> o.ok]
    BY <1>5 DEF StartTag
  <2>3. PICK o \in {RnvStartTagOpen(f.cur, name)} :
         LET skip == o.cur = rn_notAllowed
         IN  /\ current' = o.cur /\ previous' = o.prev
             /\ call' = IF skip THEN NoCall ELSE [in |-> TRUE, atts |-> atts, ok |-> o.ok]
    BY <2>2
  <2>4. f.cur \in Expecting(n)
    <3>1. RnvText(current, previous, text, TRUE).cur \in Expecting(n)
      BY <1>3, <1>4, <2>1, TextCounts
    <3> QED
      BY <3>1
  <2>5. o.cur \in Expecting(n + 1) \cup Fails /\ o.prev = f.cur
    BY <1>1, <2>3, <2>4, StartTagOpenCounts
  <2>6. text' = <<>> /\ level' = 0
    BY <1>5, <2>1 DEF StartTag
  <2>7. call'.in => call'.atts = atts
    BY <2>3 DEF NoCall
  <2>8. current' # rn_notAllowed => Following(n + 1, current', level')
    BY <2>3, <2>5, <2>6 DEF Following, Fails
  <2>9. SkippingIn(n + 1, previous', level')
    <3>1. n = (n + 1) - 0 - 1
      BY <1>1
    <3> QED
      BY <1>4, <2>3, <2>4, <2>5, <2>6, <3>1 DEF SkippingIn
  <2> QED
    BY <1>1, <1>3, <1>4, <2>6, <2>7, <2>8, <2>9 DEF InDepth
<1>6. CASE StartTagSkipped
  <2>1. /\ UNCHANGED <<current, previous, text, call>>
        /\ level' = level + 1 /\ current = rn_notAllowed
    BY <1>6 DEF StartTagSkipped
  <2>2. PICK m \in 0..Deepest : m = n - level - 1 /\ previous \in Expecting(m)
    BY <1>2, <2>1 DEF InDepth, SkippingIn, n
  <2>3. level \in Nat
    BY <1>2, <2>1 DEF InDepth, SkippingIn
  <2>4. level + 1 \in Nat /\ m = (n + 1) - (level + 1) - 1
    BY <1>1, <2>2, <2>3
  <2>5. SkippingIn(n + 1, previous', level')
    BY <2>1, <2>2, <2>4 DEF SkippingIn
  <2> QED
    BY <1>1, <1>2, <1>3, <1>4, <2>1, <2>5 DEF InDepth, Idle
<1> QED
  BY <1>5, <1>6 DEF StartElement

LEMMA ContinueStartInDepth ==
  ASSUME IInv, InDepth, start # rn_notAllowed, ContinueStart
  PROVE  InDepth'
<1> DEFINE n == OpenHere
<1>1. open' = open /\ Parsing
  BY DEF ContinueStart
<1>2. /\ text \in TextsMet /\ libs \subseteq Libraries
      /\ Len(open) \in 0..MaxDepth /\ behind \in 0..MaxBehind
      /\ n \in 0..Deepest /\ Deepest \in Nat
  BY <1>1, HereBounded DEF InDepth, IInv, TypeOK
<1>3. ASSUME call.in
      PROVE  /\ n \in 1..Deepest /\ call.atts \in Seq(Attributes) /\ Len(open) # 0
             /\ current \in Expecting(n) /\ level = 0
  <2>1. Len(open) # 0 /\ call.atts \in Seq(Attributes) /\ current # rn_notAllowed
    BY <1>1, <1>3 DEF InDepth, IInv, Calls
  <2>2. n \in 1..Deepest
    BY <1>1, <1>2, <2>1, HereBounded
  <2> QED
    BY <1>1, <2>1, <2>2 DEF InDepth, Following
<1>4. CASE TakeAttribute /\ behind' = behind
  <2>1. call.in /\ call.atts # <<>> /\ UNCHANGED <<level, text>>
    BY <1>4 DEF TakeAttribute
  <2>2. PICK a \in {RnvAttribute(current, Head(call.atts))} :
         LET skip == a.cur = rn_notAllowed
         IN  /\ current' = a.cur
             /\ call' = IF skip THEN NoCall
                        ELSE [in |-> TRUE, atts |-> Tail(call.atts), ok |-> call.ok /\ a.ok]
    BY <1>4 DEF TakeAttribute
  <2>3. Head(call.atts) \in Attributes /\ Tail(call.atts) \in Seq(Attributes)
    BY <1>3, <2>1
  <2>4. a.cur \in Expecting(n)
    BY <1>2, <1>3, <2>1, <2>2, <2>3, AttributeCounts
  <2>5. current' # rn_notAllowed /\ Following(n, current', level')
    BY <1>3, <2>1, <2>2, <2>4, NoneFails DEF Following
  <2>6. call'.in => call'.atts = Tail(call.atts)
    BY <2>2 DEF NoCall
  <2>7. OpenHere' = n
    BY <1>1, <1>4 DEF OpenHere
  <2> QED
    BY <1>1, <1>2, <1>3, <1>4, <2>1, <2>3, <2>5, <2>6, <2>7 DEF InDepth
<1>5. CASE /\ CloseStartTag
           /\ behind' = IF current' = rn_notAllowed THEN behind + 1 ELSE behind
           /\ behind' <= MaxBehind
  <2>1. call.in /\ UNCHANGED <<level, text>> /\ ~call'.in
    BY <1>5 DEF CloseStartTag, NoCall
  <2>2. PICK c \in {RnvStartTagClose(current)} : current' = c.cur /\ previous' = c.prev
    BY <1>5 DEF CloseStartTag
  <2>3. c.cur \in Expecting(n) \cup Fails /\ c.prev = current
    BY <1>3, <2>1, <2>2, StartTagCloseCounts
  <2>4. behind' \in 0..MaxBehind
    BY <1>2, <1>5, DocumentBounds
  <2>5. CASE current' # rn_notAllowed
    <3>1. Following(n, current', level') /\ OpenHere' = n
      BY <1>1, <1>3, <1>5, <2>1, <2>2, <2>3, <2>5 DEF Following, Fails, OpenHere
    <3> QED
      BY <1>1, <1>2, <2>1, <2>4, <2>5, <3>1 DEF InDepth
  <2>6. CASE current' = rn_notAllowed
    <3>1. OpenHere' = n + 1
      BY <1>1, <1>2, <1>5, <2>6 DEF OpenHere
    <3>2. n = (n + 1) - level' - 1 /\ level' \in Nat
      BY <1>2, <1>3, <2>1
    <3>3. SkippingIn(n + 1, previous', level')
      BY <1>2, <1>3, <2>1, <2>2, <2>3, <3>2 DEF SkippingIn
    <3> QED
      BY <1>1, <1>2, <2>1, <2>4, <2>6, <3>1, <3>3 DEF InDepth
  <2> QED
    BY <2>5, <2>6
<1> QED
  BY <1>4, <1>5 DEF ContinueStart

LEMMA CharacterDataInDepth ==
  ASSUME IInv, Frames(open), InDepth, start # rn_notAllowed,
         NEW chunk \in Chunks, CharacterData(chunk)
  PROVE  InDepth'
<1>1. Len(open') = Len(open) /\ behind' = behind /\ Parsing
  BY AsMany DEF CharacterData
<1>2. UNCHANGED <<current, previous, level, call>>
  BY DEF CharacterData, Characters, vars
<1>3. text \in TextsMet
  BY <1>1 DEF InDepth
<1>4. text' \in TextsMet
  <2>1. CASE Characters(chunk)
    BY <1>3, <2>1, TextsCollected DEF Characters
  <2>2. CASE UNCHANGED vars
    BY <1>3, <2>2 DEF vars
  <2> QED
    BY <2>1, <2>2 DEF CharacterData
<1> QED
  BY <1>1, <1>2, <1>4 DEF InDepth, OpenHere

LEMMA EndElementInDepth ==
  ASSUME IInv, Frames(open), InDepth, start # rn_notAllowed, EndElement
  PROVE  InDepth'
<1> DEFINE n == OpenHere
<1>1. Parsing /\ Idle /\ behind' = behind
  BY DEF EndElement
<1>2. /\ n \in 0..Deepest /\ Deepest \in Nat
      /\ text \in TextsMet /\ <<>> \in TextsMet /\ libs \subseteq Libraries
      /\ mixed \in BOOLEAN
  BY <1>1, HereBounded, TextsCollected DEF InDepth, IInv, TypeOK
<1>3. /\ OpenHere' = n - 1 /\ n \in 0 .. Deepest + 1 /\ n \in 1 .. Deepest + 1
      /\ Len(open') \in 0..MaxDepth /\ behind' \in 0..MaxBehind
  <2>1. Len(open') = Len(open) - 1 /\ Len(open) # 0
    BY OneLess
  <2>2. Len(open) \in 0..MaxDepth /\ behind \in 0..MaxBehind /\ n # 0
    BY <1>1, <2>1, HereBounded DEF InDepth
  <2> QED
    BY <1>1, <1>2, <2>1, <2>2, DocumentBounds DEF OpenHere
<1> HIDE DEF n
<1>4. CASE EndTag
  <2>1. current \in Expecting(n) /\ level = 0
    BY <1>1, <1>4 DEF InDepth, Following, EndTag, n
  <2>2. PICK f \in {RnvText(current, previous, text, mixed)} :
        \E e \in {RnvEndTag(f.cur)} : current' = e.cur
    BY <1>4 DEF EndTag
  <2>3. f.cur \in Expecting(n)
    BY <1>2, <1>3, <2>1, <2>2, TextCounts
  <2>4. current' \in Expecting(n - 1)
    BY <1>3, <2>2, <2>3, EndTagCounts
  <2>5. text' = <<>> /\ level' = 0 /\ ~call'.in
    BY <1>1, <1>4, <2>1 DEF EndTag, Idle
  <2>6. current' # rn_notAllowed /\ Following(n - 1, current', level')
    BY <2>4, <2>5, NoneFails DEF Following
  <2> QED
    BY <1>1, <1>2, <1>3, <2>5, <2>6 DEF InDepth
<1>5. CASE EndTagSkipped
  <2>1. UNCHANGED <<previous, text, call>> /\ current = rn_notAllowed
    BY <1>5 DEF EndTagSkipped
  <2>2. PICK m \in 0..Deepest : m = n - level - 1 /\ previous \in Expecting(m)
    BY <1>1, <2>1 DEF InDepth, SkippingIn, n
  <2>3. level \in Nat
    BY <1>1, <2>1 DEF InDepth, SkippingIn
  <2>4. CASE level = 0
    <3>1. current' = previous /\ level' = 0
      BY <1>5, <2>4 DEF EndTagSkipped
    <3>2. m = n - 1
      BY <1>2, <2>2, <2>4
    <3>3. current' # rn_notAllowed /\ Following(n - 1, current', level')
      BY <2>2, <3>1, <3>2, NoneFails DEF Following
    <3> QED
      BY <1>1, <1>2, <1>3, <2>1, <3>3 DEF InDepth, Idle
  <2>5. CASE level # 0
    <3>1. current' = current /\ level' = level - 1
      BY <1>5, <2>5 DEF EndTagSkipped
    <3>2. level - 1 \in Nat /\ m = (n - 1) - (level - 1) - 1
      BY <1>2, <2>2, <2>3, <2>5
    <3>3. SkippingIn(n - 1, previous', level')
      BY <2>1, <2>2, <3>1, <3>2 DEF SkippingIn
    <3> QED
      BY <1>1, <1>2, <1>3, <2>1, <3>1, <3>3 DEF InDepth, Idle
  <2> QED
    BY <2>4, <2>5
<1> QED
  BY <1>4, <1>5 DEF EndElement

\* Every event preserves the invariant.
LEMMA NextInDepth ==
  ASSUME IInv, Frames(open), InDepth, [NextValidator]_allVars
  PROVE  InDepth'
<1> SUFFICES ASSUME Parsing', start' # rn_notAllowed
             PROVE  InDepth'
  BY DEF InDepth
<1>1. CASE Load
  BY <1>1 DEF Load, Parsing
<1>2. CASE Register
  BY <1>2 DEF Register, Parsing
<1>3. CASE Parse
  <2>1. /\ open' = <<>> /\ text' = <<>> /\ level' = 0 /\ ~call'.in
        /\ current' = start /\ start' = start /\ opened /\ behind' = 0
    BY <1>3 DEF Parse, NoDocument, StartDocument, schema, Idle
  <2>2. start \in Expecting(0)
    BY <2>1, StartsCount DEF IInv, TypeOK, Fails
  <2>3. Len(open') = 0 /\ OpenHere' = 0 /\ 0 \in 0..MaxDepth /\ 0 \in 0..MaxBehind
    BY <2>1, DocumentBounds DEF OpenHere
  <2> QED
    BY <2>1, <2>2, <2>3, TextsCollected DEF InDepth, Following
<1>4. ASSUME NEW name \in Names, NEW atts \in AttributeLists, StartElement(name, atts)
      PROVE  InDepth'
  <2>1. start' = start
    BY <1>4 DEF StartElement, StartTag, StartTagSkipped, schema
  <2> QED
    BY <1>4, <2>1, StartElementInDepth
<1>5. CASE ContinueStart
  <2>1. start' = start
    BY <1>5 DEF ContinueStart, TakeAttribute, CloseStartTag, schema
  <2> QED
    BY <1>5, <2>1, ContinueStartInDepth
<1>6. ASSUME NEW chunk \in Chunks, CharacterData(chunk)
      PROVE  InDepth'
  <2>1. start' = start
    BY <1>6 DEF CharacterData, Characters, schema, vars
  <2> QED
    BY <1>6, <2>1, CharacterDataInDepth
<1>7. CASE EndElement
  <2>1. start' = start
    BY <1>7 DEF EndElement, EndTag, EndTagSkipped, schema
  <2> QED
    BY <1>7, <2>1, EndElementInDepth
<1>8. CASE Return
  BY <1>8 DEF Return, Parsing
<1>9. CASE Raise
  BY <1>9 DEF Raise, Parsing
<1>10. CASE LibraryPushesError
  <2>1. UNCHANGED <<open, behind, phase, start, current, previous, level, text, call>>
    BY <1>10 DEF LibraryPushesError, PushError, schema, doc
  <2> QED
    BY <2>1 DEF InDepth, OpenHere, Parsing
<1>11. CASE UNCHANGED allVars
  <2>1. UNCHANGED <<open, behind, phase, start, current, previous, level, text, call>>
    BY <1>11 DEF allVars, vars, doc
  <2> QED
    BY <2>1 DEF InDepth, OpenHere, Parsing
<1> QED
  BY <1>1, <1>2, <1>3, <1>4, <1>5, <1>6, <1>7, <1>8, <1>9, <1>10, <1>11 DEF NextValidator

LEMMA SpecInDepth == SpecValidator => []InDepth
<1>1. InitValidator => InDepth
  BY DEF InitValidator, InDepth, Parsing
<1>2. IInv /\ Aligned /\ InDepth /\ [NextValidator]_allVars => InDepth'
  BY NextInDepth DEF Aligned
<1> QED
  BY <1>1, <1>2, SpecAligned, PTL DEF SpecValidator

\* Whatever the document does and however often the session recovers or skips, it
\* keeps count of the elements that are open, with any engine whose derivatives
\* keep count of them: level, previous and current, which four functions of
\* ruby_rnv.c and rnv.c change, always agree.  By one element it is behind for
\* each start tag that the recovery from missing attributes could not close, and
\* for no other reason; the schemas whose contents are not simplified, by which
\* that happens, are covered.
THEOREM StaysInStep == SpecValidator => []InStep
<1>1. InDepth => InStep
  BY InDepthInStep
<1> QED
  BY <1>1, SpecInDepth, PTL

-----------------------------------------------------------------------------
(***************************************************************************)
(* The verdict by derivatives alone.  First the recursive function: within *)
(* a set that no attribute leaves, it exists, and taking the first         *)
(* attribute out of the list is taking its derivative.                     *)
(***************************************************************************)
Kept(l, S) == \A p \in S, att \in Attributes : StrictAttribute(l, p, att) \in S

Follows(l, f, p, atts) ==
  f[0] = p /\ \A k \in 1 .. Len(atts) : f[k] = StrictAttribute(l, f[k - 1], atts[k])

LEMMA StrictFollows ==
  ASSUME NEW l, NEW S, Kept(l, S), NEW p \in S, NEW atts \in Seq(Attributes)
  PROVE  /\ StrictAttributes(l, p, atts) \in [0 .. Len(atts) -> S]
         /\ Follows(l, StrictAttributes(l, p, atts), p, atts)
<1> DEFINE N == Len(atts)
           Rule(f) == f = [k \in 0 .. N |-> IF k = 0 THEN p ELSE StrictAttribute(l, f[k - 1], atts[k])]
           F == [x \in S \X Nat |-> IF x[2] \notin 1 .. N THEN x[1]
                                    ELSE StrictAttribute(l, x[1], atts[x[2]])]
<1>1. N \in Nat
  OBVIOUS
<1>2. \A k \in 1 .. N : atts[k] \in Attributes
  BY ElementOfSeq
<1>3. F \in [S \X Nat -> S]
  <2>1. ASSUME NEW x \in S \X Nat
        PROVE  (IF x[2] \notin 1 .. N THEN x[1] ELSE StrictAttribute(l, x[1], atts[x[2]])) \in S
    <3>1. x[1] \in S
      BY <2>1
    <3>2. CASE x[2] \in 1 .. N
      <4>1. StrictAttribute(l, x[1], atts[x[2]]) \in S
        BY <1>2, <3>1, <3>2 DEF Kept
      <4> QED
        BY <3>2, <4>1
    <3> QED
      BY <3>1, <3>2
  <2> QED
    BY <2>1
<1>4. PICK g \in [0 .. N -> S] : Iterates(g, p, F, N)
  <2> HIDE DEF F, N
  <2> QED
    BY <1>1, <1>3, RecursionExists
<1>5. ASSUME NEW k \in 1 .. N
      PROVE  g[k] = StrictAttribute(l, g[k - 1], atts[k])
  <2>1. k - 1 \in 0 .. N /\ k \in Nat
    BY <1>1
  <2>2. g[k - 1] \in S
    BY <2>1
  <2>3. <<g[k - 1], k>> \in S \X Nat /\ <<g[k - 1], k>>[1] = g[k - 1] /\ <<g[k - 1], k>>[2] = k
    BY <2>1, <2>2
  <2>4. g[k] = F[<<g[k - 1], k>>]
    <3> HIDE DEF F
    <3> QED
      BY <1>4 DEF Iterates
  <2>5. F[<<g[k - 1], k>>] = IF k \notin 1 .. N THEN g[k - 1] ELSE StrictAttribute(l, g[k - 1], atts[k])
    BY <2>3, Zenon
  <2> QED
    BY <2>4, <2>5
<1>6. g[0] = p
  BY <1>4 DEF Iterates
<1>7. Rule(g)
  <2>1. g = [k \in 0 .. N |-> g[k]]
    OBVIOUS
  <2>2. \A k \in 0 .. N : k = 0 \/ k \in 1 .. N
    BY <1>1
  <2>3. \A k \in 0 .. N : g[k] = IF k = 0 THEN p ELSE StrictAttribute(l, g[k - 1], atts[k])
    BY <1>5, <1>6, <2>2
  <2> QED
    BY <2>1, <2>3
<1>8. ASSUME NEW f, Rule(f)
      PROVE  f \in [0 .. N -> S] /\ Follows(l, f, p, atts)
  <2>1. f[0] = p
    BY <1>1, <1>8
  <2>2. \A k \in 1 .. N : f[k] = StrictAttribute(l, f[k - 1], atts[k])
    <3> TAKE k \in 1 .. N
    <3>1. k \in 0 .. N /\ k # 0
      BY <1>1
    <3> QED
      BY <1>8, <3>1
  <2>3. \A k \in Nat : k <= N => f[k] \in S
    <3> DEFINE T == {k \in Nat : k <= N => f[k] \in S}
    <3>1. 0 \in T
      BY <2>1
    <3>2. ASSUME NEW k \in Nat, k \in T
          PROVE  k + 1 \in T
      <4>1. SUFFICES ASSUME k + 1 <= N PROVE f[k + 1] \in S
        OBVIOUS
      <4>2. PICK m \in 1 .. N : m - 1 = k /\ m = k + 1
        BY <1>1, <4>1
      <4>3. f[m - 1] \in S
        BY <3>2, <4>1, <4>2, <1>1
      <4>4. f[m] = StrictAttribute(l, f[m - 1], atts[m])
        BY <2>2
      <4> QED
        BY <1>2, <4>2, <4>3, <4>4 DEF Kept
    <3> HIDE DEF T
    <3>3. \A k \in Nat : k \in T
      BY <3>1, <3>2, NaturalInduction
    <3> QED
      BY <3>3 DEF T
  <2>4. \A k \in 0 .. N : f[k] \in S
    BY <1>1, <2>3
  <2>5. f = [k \in 0 .. N |-> f[k]]
    BY <1>8
  <2> QED
    BY <2>1, <2>2, <2>4, <2>5 DEF Follows
<1>9. StrictAttributes(l, p, atts) = CHOOSE f : Rule(f)
  BY DEF StrictAttributes
<1>10. Rule(StrictAttributes(l, p, atts))
  <2> HIDE DEF Rule
  <2> QED
    BY <1>7, <1>9
<1> HIDE DEF Rule
<1> QED
  BY <1>8, <1>10

\* What the rest of a start tag leaves of p.
Finish(l, p, atts) == StrictClose(StrictAttributes(l, p, atts)[Len(atts)])

LEMMA FinishNow ==
  ASSUME NEW l, NEW S, Kept(l, S), NEW p \in S
  PROVE  Finish(l, p, <<>>) = StrictClose(p)
<1>1. <<>> \in Seq(Attributes) /\ Len(<<>>) = 0
  OBVIOUS
<1>2. Follows(l, StrictAttributes(l, p, <<>>), p, <<>>)
  BY <1>1, StrictFollows
<1>3. StrictAttributes(l, p, <<>>)[0] = p
  BY <1>2 DEF Follows
<1> QED
  BY <1>1, <1>3 DEF Finish

LEMMA FinishNext ==
  ASSUME NEW l, NEW S, Kept(l, S), NEW p \in S, NEW atts \in Seq(Attributes), atts # <<>>
  PROVE  Finish(l, p, atts) = Finish(l, StrictAttribute(l, p, Head(atts)), Tail(atts))
<1> DEFINE q == StrictAttribute(l, p, Head(atts))
           N == Len(atts)
           f == StrictAttributes(l, p, atts)
           g == StrictAttributes(l, q, Tail(atts))
<1>1. /\ N \in Nat \ {0} /\ Head(atts) \in Attributes /\ Tail(atts) \in Seq(Attributes)
      /\ Len(Tail(atts)) = N - 1
      /\ \A k \in 1 .. N - 1 : Tail(atts)[k] = atts[k + 1]
      /\ Head(atts) = atts[1]
  OBVIOUS
<1>2. q \in S
  BY <1>1 DEF Kept
<1> HIDE DEF q
<1>3. Follows(l, f, p, atts)
  BY StrictFollows
<1>4. Follows(l, g, q, Tail(atts))
  BY <1>1, <1>2, StrictFollows
<1> HIDE DEF f, g
<1> DEFINE T == {k \in Nat : k <= N - 1 => g[k] = f[k + 1]}
<1>5. 0 \in T
  <2>1. f[1] = StrictAttribute(l, f[0], atts[1])
    <3>1. PICK m \in 1 .. N : m = 1 /\ m - 1 = 0
      BY <1>1
    <3>2. f[m] = StrictAttribute(l, f[m - 1], atts[m])
      BY <1>3 DEF Follows
    <3> QED
      BY <3>1, <3>2
  <2>2. f[1] = g[0]
    BY <1>1, <1>3, <1>4, <2>1 DEF Follows, q
  <2> QED
    BY <2>2
<1>6. ASSUME NEW k \in Nat, k \in T
      PROVE  k + 1 \in T
  <2>1. SUFFICES ASSUME k + 1 <= N - 1 PROVE g[k + 1] = f[(k + 1) + 1]
    OBVIOUS
  <2>2. PICK m \in 1 .. N - 1 : m - 1 = k /\ m = k + 1
    BY <1>1, <2>1
  <2>3. PICK j \in 1 .. N : j - 1 = m /\ j = (k + 1) + 1 /\ j = m + 1
    BY <1>1, <2>2
  <2>4. g[m] = StrictAttribute(l, g[m - 1], Tail(atts)[m])
    BY <1>1, <1>4 DEF Follows
  <2>5. f[j] = StrictAttribute(l, f[j - 1], atts[j])
    BY <1>3 DEF Follows
  <2>6. g[m - 1] = f[j - 1]
    BY <1>1, <1>6, <2>1, <2>2, <2>3
  <2>7. Tail(atts)[m] = atts[j]
    BY <1>1, <2>3
  <2> QED
    BY <2>2, <2>3, <2>4, <2>5, <2>6, <2>7
<1> HIDE DEF T
<1>7. \A k \in Nat : k \in T
  BY <1>5, <1>6, NaturalInduction
<1>8. g[N - 1] = f[N]
  <2>1. N - 1 \in Nat /\ (N - 1) + 1 = N
    BY <1>1
  <2>2. N - 1 <= N - 1 => g[N - 1] = f[(N - 1) + 1]
    BY <1>7, <2>1 DEF T
  <2> QED
    BY <2>1, <2>2
<1> QED
  BY <1>1, <1>8 DEF Finish, f, g, q

LEMMA FinishDead ==
  ASSUME NEW l, NEW atts \in Seq(Attributes)
  PROVE  Finish(l, rn_notAllowed, atts) = rn_notAllowed
<1>1. Kept(l, {rn_notAllowed})
  BY DEF Kept, StrictAttribute, Then
<1>2. StrictAttributes(l, rn_notAllowed, atts) \in [0 .. Len(atts) -> {rn_notAllowed}]
  BY <1>1, StrictFollows
<1>3. Len(atts) \in 0 .. Len(atts)
  OBVIOUS
<1>4. StrictAttributes(l, rn_notAllowed, atts)[Len(atts)] = rn_notAllowed
  BY <1>2, <1>3
<1> QED
  BY <1>4 DEF Finish, StrictClose, Then

-----------------------------------------------------------------------------
(***************************************************************************)
(* Each function of rnv.c accepts exactly if the derivative exists, and    *)
(* then leaves it.                                                         *)
(***************************************************************************)
Left(o) == IF o.ok THEN o.cur ELSE rn_notAllowed

LEMMA OutcomeStrict ==
  ASSUME NEW cur, NEW q, NEW r, NEW code, NEW noted
  PROVE  Left(Outcome(cur, q, r, code, noted)) = q
BY DEF Left, Outcome, Step

LEMMA TextStrict ==
  ASSUME NEW cur, cur # rn_notAllowed, NEW prev, NEW s, NEW mx \in BOOLEAN
  PROVE  StrictText(libs, cur, s, mx) = Left(RnvText(cur, prev, s, mx))
<1>1. CASE ~mx
  BY <1>1, OutcomeStrict DEF StrictText, Then, RnvText
<1>2. CASE mx /\ xmlc_white_space(s)
  BY <1>2 DEF StrictText, Then, RnvText, Left, Step
<1>3. CASE mx /\ ~xmlc_white_space(s)
  BY <1>3, OutcomeStrict DEF StrictText, Then, RnvText
<1> QED
  BY <1>1, <1>2, <1>3

LEMMA StartTagOpenStrict ==
  ASSUME NEW cur, cur # rn_notAllowed, NEW name
  PROVE  Then(cur, drv_start_tag_open(cur, name)) = Left(RnvStartTagOpen(cur, name))
<1> DEFINE r == drv_start_tag_open_recover(cur, name)
           code == IF r = rn_notAllowed THEN "elem" ELSE "emis"
<1>1. RnvStartTagOpen(cur, name) = Outcome(cur, drv_start_tag_open(cur, name), r, code, {})
  BY DEF RnvStartTagOpen
<1> HIDE DEF r, code
<1> QED
  BY <1>1, OutcomeStrict DEF Then

LEMMA AttributeStrict ==
  ASSUME NEW cur, cur # rn_notAllowed, NEW att
  PROVE  StrictAttribute(libs, cur, att) = Left(RnvAttribute(cur, att))
<1> DEFINE a == drv_attribute_open(cur, att[1])
           t == drv_text(a, att[2], libs)
           noted == Notice(a, att[2])
<1>1. RnvAttribute(cur, att) = IF a = rn_notAllowed THEN Outcome(cur, a, cur, "akey", {})
                               ELSE ValueMatched(a, t, noted)
  BY DEF RnvAttribute, AttributeOpened
<1>2. StrictAttribute(libs, cur, att)
        = IF a = rn_notAllowed \/ t = rn_notAllowed THEN rn_notAllowed ELSE drv_end_tag(t)
  BY DEF StrictAttribute, Then
<1> HIDE DEF a, t, noted
<1>3. CASE a = rn_notAllowed
  BY <1>1, <1>2, <1>3, OutcomeStrict
<1>4. CASE a # rn_notAllowed /\ t = rn_notAllowed
  BY <1>1, <1>2, <1>4, OutcomeStrict DEF ValueMatched
<1>5. CASE a # rn_notAllowed /\ t # rn_notAllowed
  BY <1>1, <1>2, <1>5, OutcomeStrict DEF ValueMatched
<1> QED
  BY <1>3, <1>4, <1>5

LEMMA CloseStrict ==
  ASSUME NEW cur, cur # rn_notAllowed
  PROVE  StrictClose(cur) = Left(RnvStartTagClose(cur))
BY OutcomeStrict DEF StrictClose, Then, RnvStartTagClose

LEMMA EndTagStrict ==
  ASSUME NEW cur, cur # rn_notAllowed
  PROVE  Then(cur, drv_end_tag(cur)) = Left(RnvEndTag(cur))
BY OutcomeStrict DEF Then, RnvEndTag

\* No attribute takes a pattern of an open element out of those that are as deep.
LEMMA StrictKept ==
  ASSUME NEW n \in 1..Deepest, NEW l \in SUBSET Libraries
  PROVE  Kept(l, Expecting(n) \cup Fails)
<1>0. Deepest \in Nat
  BY DeepestNat
<1> SUFFICES ASSUME NEW p \in Expecting(n) \cup Fails, NEW att \in Attributes
             PROVE  StrictAttribute(l, p, att) \in Expecting(n) \cup Fails
  BY DEF Kept
<1> DEFINE a == Then(p, drv_attribute_open(p, att[1]))
           t == Then(a, drv_text(a, att[2], l))
<1>1. a \in Expecting(n + 1) \cup Fails
  <2>1. OpensAttributes(Expecting(n), Expecting(n + 1))
    BY EngineCounts
  <2> QED
    BY <2>1 DEF OpensAttributes, Then, Fails
<1> HIDE DEF a
<1>2. t \in Expecting(n + 1) \cup Fails
  <2>1. TakesTexts(Expecting(n + 1))
    BY <1>0, EngineCounts
  <2>2. att[2] \in TextsJudged
    BY DEF TextsJudged
  <2> QED
    BY <1>1, <2>1, <2>2 DEF TakesTexts, Then, Fails
<1>3. StrictAttribute(l, p, att) = Then(t, drv_end_tag(t))
  BY DEF StrictAttribute, a
<1> HIDE DEF t
<1>4. EndsTags(Expecting(n + 1), Expecting(n))
  <2>1. n + 1 \in 1 .. Deepest + 1 /\ (n + 1) - 1 = n
    BY <1>0
  <2>2. EndsTags(Expecting(n + 1), Expecting((n + 1) - 1))
    BY <2>1, EngineCounts
  <2> QED
    BY <2>1, <2>2
<1> QED
  BY <1>2, <1>3, <1>4 DEF EndsTags, Then, Fails

-----------------------------------------------------------------------------
(***************************************************************************)
(* The inductive invariant.  In the middle of a start tag, what is left of *)
(* the start is what finishing the tag leaves of current.                  *)
(***************************************************************************)
Decided ==
  Parsing /\ start # rn_notAllowed =>
    /\ open = <<>> => text = <<>>
    /\ ~call.in => strict = IF ok THEN current ELSE rn_notAllowed
    /\ call.in => strict = IF ok /\ call.ok THEN Finish(libs, current, call.atts)
                           ELSE rn_notAllowed

LEMMA DecidedStrict ==
  ASSUME Lost, Decided
  PROVE  VerdictStrict
BY DEF Lost, Decided, VerdictStrict, Idle

LEMMA StartElementDecided ==
  ASSUME IInv, Aligned, InDepth, Decided, start # rn_notAllowed,
         NEW name \in Names, NEW atts \in AttributeLists, StartElement(name, atts)
  PROVE  Decided'
<1> DEFINE e == [name |-> name, atts |-> atts, children |-> <<>>]
<1>1. /\ Parsing /\ Idle /\ open' = Append(open, e)
      /\ strict' = StrictStart(libs, strict, TextBefore, name, atts)
  BY DEF StartElement
<1> HIDE DEF e
<1>2. open' # <<>>
  BY <1>1, Appended DEF Aligned, Frames
<1>3. atts \in Seq(Attributes)
  BY AttributesTyped
<1>4. strict = IF ok THEN current ELSE rn_notAllowed
  BY <1>1 DEF Decided, Idle
<1>5. ASSUME ~ok
      PROVE  strict' = rn_notAllowed
  <2> DEFINE f == StrictText(libs, rn_notAllowed, TextBefore, TRUE)
             o == Then(f, drv_start_tag_open(f, name))
  <2>1. o = rn_notAllowed
    BY DEF StrictText, Then
  <2>2. strict' = Finish(libs, o, atts)
    BY <1>1, <1>4, <1>5 DEF StrictStart, Finish
  <2> QED
    BY <1>3, <2>1, <2>2, FinishDead
<1>6. CASE StartTag(name, atts)
  <2> DEFINE f == RnvText(current, previous, text, TRUE)
             o == RnvStartTagOpen(f.cur, name)
  <2>1. /\ current' = o.cur
        /\ ok' = (ok /\ f.ok /\ (o.cur = rn_notAllowed => o.ok))
        /\ call' = IF o.cur = rn_notAllowed THEN NoCall
                   ELSE [in |-> TRUE, atts |-> atts, ok |-> o.ok]
        /\ libs' = libs /\ current # rn_notAllowed
    BY <1>6 DEF StartTag, schema
  <2>2. Judged(f) /\ Judged(o) /\ f.cur # rn_notAllowed
    BY <2>1, TextJudged, StartTagOpenJudged
  <2>3. text = TextBefore
    BY <1>1, <2>1 DEF Aligned, TextPending, Decided, TextBefore
  <2>4. StrictText(libs, current, text, TRUE) = Left(f)
    <3>1. TRUE \in BOOLEAN
      OBVIOUS
    <3> QED
      BY <2>1, <3>1, TextStrict
  <2>5. Then(f.cur, drv_start_tag_open(f.cur, name)) = Left(o)
    BY <2>2, StartTagOpenStrict
  <2> HIDE DEF f, o
  <2>6. ASSUME ok
        PROVE  strict' = IF f.ok /\ o.ok THEN Finish(libs, o.cur, atts) ELSE rn_notAllowed
    <3> DEFINE q == Then(Left(f), drv_start_tag_open(Left(f), name))
    <3>1. strict' = Finish(libs, q, atts)
      BY <1>1, <1>4, <2>3, <2>4, <2>6 DEF StrictStart, Finish
    <3>2. q = IF f.ok /\ o.ok THEN o.cur ELSE rn_notAllowed
      BY <2>5 DEF Left, Then
    <3> HIDE DEF q
    <3> QED
      BY <1>3, <3>1, <3>2, FinishDead
  <2>7. CASE o.cur = rn_notAllowed
    <3>1. ~o.ok /\ ok' = FALSE /\ call'.in = FALSE
      BY <2>1, <2>2, <2>7 DEF Judged, NoCall
    <3>2. strict' = rn_notAllowed
      BY <1>5, <2>6, <3>1
    <3> QED
      BY <1>2, <3>1, <3>2 DEF Decided
  <2>8. CASE o.cur # rn_notAllowed
    <3>1. call'.in = TRUE /\ call'.atts = atts /\ call'.ok = o.ok /\ ok' = (ok /\ f.ok)
      BY <2>1, <2>8
    <3>2. strict' = IF ok' /\ call'.ok THEN Finish(libs', current', call'.atts) ELSE rn_notAllowed
      BY <1>5, <2>1, <2>6, <3>1
    <3> QED
      BY <1>2, <3>1, <3>2 DEF Decided
  <2> QED
    BY <2>7, <2>8
<1>7. CASE StartTagSkipped
  <2>1. UNCHANGED <<ok, call>> /\ current = rn_notAllowed
    BY <1>7 DEF StartTagSkipped
  <2>2. ~ok
    BY <1>1, <2>1 DEF Aligned, Lost
  <2> QED
    BY <1>1, <1>2, <1>5, <2>1, <2>2 DEF Decided, Idle
<1> QED
  BY <1>6, <1>7 DEF StartElement

LEMMA ContinueStartDecided ==
  ASSUME IInv, InDepth, Decided, start # rn_notAllowed, ContinueStart
  PROVE  Decided'
<1> DEFINE S == Expecting(OpenHere) \cup Fails
<1>1. open' = open /\ strict' = strict /\ Parsing
  BY DEF ContinueStart
<1>2. ASSUME call.in
      PROVE  /\ open # <<>> /\ current # rn_notAllowed
             /\ call.atts \in Seq(Attributes) /\ current \in S /\ Kept(libs, S)
  <2>2. Len(open) # 0 /\ call.atts \in Seq(Attributes)
    BY <1>1, <1>2 DEF InDepth
  <2>1. OpenHere \in 1..Deepest /\ libs \in SUBSET Libraries
    BY <1>1, <2>2, HereBounded DEF IInv, TypeOK
  <2>3. current # rn_notAllowed /\ current \in Expecting(OpenHere)
    BY <1>1, <1>2 DEF InDepth, IInv, Calls, Following
  <2>4. open # <<>>
    BY <2>2
  <2> QED
    BY <2>1, <2>2, <2>3, <2>4, StrictKept
<1> HIDE DEF S
<1>3. call.in => strict = IF ok /\ call.ok THEN Finish(libs, current, call.atts)
                          ELSE rn_notAllowed
  BY <1>1 DEF Decided
<1>4. CASE TakeAttribute
  <2> DEFINE a == RnvAttribute(current, Head(call.atts))
  <2>1. /\ current' = a.cur
        /\ ok' = (ok /\ (a.cur = rn_notAllowed => call.ok /\ a.ok))
        /\ call' = IF a.cur = rn_notAllowed THEN NoCall
                   ELSE [in |-> TRUE, atts |-> Tail(call.atts), ok |-> call.ok /\ a.ok]
        /\ call.in /\ call.atts # <<>> /\ libs' = libs
    BY <1>4 DEF TakeAttribute, schema
  <2>2. Judged(a)
    BY AttributeJudged
  <2>3. StrictAttribute(libs, current, Head(call.atts)) = Left(a)
    BY <1>2, <2>1, AttributeStrict
  <2> HIDE DEF a
  <2>4. Finish(libs, current, call.atts) = Finish(libs, Left(a), Tail(call.atts))
    BY <1>2, <2>1, <2>3, FinishNext
  <2>5. Tail(call.atts) \in Seq(Attributes)
    BY <1>2, <2>1
  <2>6. strict = IF ok /\ call.ok /\ a.ok THEN Finish(libs, a.cur, Tail(call.atts))
                 ELSE rn_notAllowed
    BY <1>3, <2>1, <2>4, <2>5, FinishDead DEF Left
  <2>7. CASE a.cur = rn_notAllowed
    <3>1. ~a.ok /\ ok' = FALSE /\ call'.in = FALSE
      BY <2>1, <2>2, <2>7 DEF Judged, NoCall
    <3>2. strict' = rn_notAllowed
      BY <1>1, <2>6, <3>1
    <3> QED
      BY <1>1, <1>2, <2>1, <3>1, <3>2 DEF Decided
  <2>8. CASE a.cur # rn_notAllowed
    <3>1. /\ call'.in = TRUE /\ call'.atts = Tail(call.atts)
          /\ call'.ok = (call.ok /\ a.ok) /\ ok' = ok
      BY <2>1, <2>8 DEF IInv, TypeOK
    <3>2. strict' = IF ok' /\ call'.ok THEN Finish(libs', current', call'.atts) ELSE rn_notAllowed
      BY <1>1, <2>1, <2>6, <3>1
    <3> QED
      BY <1>1, <1>2, <2>1, <3>1, <3>2 DEF Decided
  <2> QED
    BY <2>7, <2>8
<1>5. CASE CloseStartTag
  <2> DEFINE c == RnvStartTagClose(current)
  <2>1. /\ current' = c.cur /\ ok' = (ok /\ call.ok /\ c.ok) /\ call'.in = FALSE
        /\ call.in /\ call.atts = <<>>
    BY <1>5 DEF CloseStartTag, NoCall
  <2>2. StrictClose(current) = Left(c)
    BY <1>2, <2>1, CloseStrict
  <2> HIDE DEF c
  <2>3. Finish(libs, current, call.atts) = Left(c)
    BY <1>2, <2>1, <2>2, FinishNow
  <2>4. strict' = IF ok' THEN current' ELSE rn_notAllowed
    BY <1>1, <1>3, <2>1, <2>3 DEF Left
  <2> QED
    BY <1>1, <1>2, <2>1, <2>4 DEF Decided
<1> QED
  BY <1>4, <1>5 DEF ContinueStart

LEMMA CharacterDataDecided ==
  ASSUME Frames(open), Decided, start # rn_notAllowed,
         NEW chunk \in Chunks, CharacterData(chunk)
  PROVE  Decided'
<1>1. Len(open') = Len(open) /\ Parsing /\ Idle /\ open # <<>> /\ strict' = strict
  BY AsMany DEF CharacterData
<1>2. UNCHANGED <<current, ok, call, libs>>
  BY DEF CharacterData, Characters, schema, vars
<1>3. open' # <<>>
  <2>1. Len(open) # 0
    BY <1>1, SequenceFacts DEF Frames
  <2> QED
    BY <1>1, <2>1
<1> QED
  BY <1>1, <1>2, <1>3 DEF Decided, Idle

LEMMA EndElementDecided ==
  ASSUME IInv, Aligned, Decided, start # rn_notAllowed, EndElement
  PROVE  Decided'
<1> DEFINE s == LastText(Top.children)
           b == HasElement(Top.children)
<1>1. /\ Parsing /\ Idle /\ open # <<>>
      /\ strict' = StrictEnd(libs, strict, s, b)
  BY DEF EndElement
<1>2. strict = IF ok THEN current ELSE rn_notAllowed
  BY <1>1 DEF Decided, Idle
<1>3. current # rn_notAllowed => text = s
  BY <1>1 DEF Aligned, TextPending
<1>4. ok => (mixed <=> b)
  BY <1>1 DEF Aligned, TextPending
<1> HIDE DEF s, b
<1>5. ASSUME ~ok
      PROVE  strict' = rn_notAllowed
  BY <1>1, <1>2, <1>5 DEF StrictEnd, StrictText, Then
<1>6. CASE EndTag
  <2> DEFINE f == RnvText(current, previous, text, mixed)
             e == RnvEndTag(f.cur)
  <2>1. /\ current' = e.cur /\ ok' = (ok /\ f.ok /\ e.ok) /\ text' = <<>>
        /\ call' = call /\ current # rn_notAllowed
    BY <1>6 DEF EndTag
  <2>2. mixed \in BOOLEAN
    BY DEF IInv, TypeOK
  <2>3. Judged(f) /\ f.cur # rn_notAllowed
    BY <2>1, <2>2, TextJudged
  <2>4. StrictText(libs, current, text, mixed) = Left(f)
    BY <2>1, <2>2, TextStrict
  <2>5. Then(f.cur, drv_end_tag(f.cur)) = Left(e)
    BY <2>3, EndTagStrict
  <2> HIDE DEF f, e
  <2>6. ASSUME ok
        PROVE  strict' = IF f.ok /\ e.ok THEN e.cur ELSE rn_notAllowed
    <3>1. StrictText(libs, current, s, b) = Left(f)
      BY <1>3, <1>4, <2>1, <2>4, <2>6 DEF StrictText
    <3>2. strict' = Then(Left(f), drv_end_tag(Left(f)))
      BY <1>1, <1>2, <2>6, <3>1 DEF StrictEnd
    <3> QED
      BY <2>5, <3>2 DEF Left, Then
  <2>7. strict' = IF ok' THEN current' ELSE rn_notAllowed
    BY <1>5, <2>1, <2>6
  <2> QED
    BY <1>1, <2>1, <2>7 DEF Decided, Idle
<1>7. CASE EndTagSkipped
  <2>1. UNCHANGED <<ok, call, text>> /\ current = rn_notAllowed
    BY <1>7 DEF EndTagSkipped
  <2>2. ~ok /\ text = <<>>
    BY <1>1, <2>1 DEF Aligned, Lost
  <2> QED
    BY <1>1, <1>5, <2>1, <2>2 DEF Decided, Idle
<1> QED
  BY <1>6, <1>7 DEF EndElement

\* Every event preserves the invariant.
LEMMA NextDecided ==
  ASSUME IInv, Aligned, InDepth, Decided, [NextValidator]_allVars
  PROVE  Decided'
<1> SUFFICES ASSUME Parsing', start' # rn_notAllowed
             PROVE  Decided'
  BY DEF Decided
<1>0. Frames(open)
  BY DEF Aligned
<1>1. CASE Load
  BY <1>1 DEF Load, Parsing
<1>2. CASE Register
  BY <1>2 DEF Register, Parsing
<1>3. CASE Parse
  BY <1>3 DEF Parse, StartDocument, schema, Idle, Decided
<1>4. ASSUME NEW name \in Names, NEW atts \in AttributeLists, StartElement(name, atts)
      PROVE  Decided'
  <2>1. start' = start
    BY <1>4 DEF StartElement, StartTag, StartTagSkipped, schema
  <2> QED
    BY <1>4, <2>1, StartElementDecided
<1>5. CASE ContinueStart
  <2>1. start' = start
    BY <1>5 DEF ContinueStart, TakeAttribute, CloseStartTag, schema
  <2> QED
    BY <1>5, <2>1, ContinueStartDecided
<1>6. ASSUME NEW chunk \in Chunks, CharacterData(chunk)
      PROVE  Decided'
  <2>1. start' = start
    BY <1>6 DEF CharacterData, Characters, schema, vars
  <2> QED
    BY <1>0, <1>6, <2>1, CharacterDataDecided
<1>7. CASE EndElement
  <2>1. start' = start
    BY <1>7 DEF EndElement, EndTag, EndTagSkipped, schema
  <2> QED
    BY <1>7, <2>1, EndElementDecided
<1>8. CASE Return
  BY <1>8 DEF Return, Parsing
<1>9. CASE Raise
  BY <1>9 DEF Raise, Parsing
<1>10. CASE LibraryPushesError
  <2>1. UNCHANGED <<open, phase, start, current, ok, text, call, libs, strict>>
    BY <1>10 DEF LibraryPushesError, PushError, schema, doc
  <2> QED
    BY <2>1 DEF Decided, Parsing
<1>11. CASE UNCHANGED allVars
  <2>1. UNCHANGED <<open, phase, start, current, ok, text, call, libs, strict>>
    BY <1>11 DEF allVars, vars, doc
  <2> QED
    BY <2>1 DEF Decided, Parsing
<1> QED
  BY <1>1, <1>2, <1>3, <1>4, <1>5, <1>6, <1>7, <1>8, <1>9, <1>10, <1>11 DEF NextValidator

\* valid? answers whether the derivatives by the whole document exist: with any
\* engine, neither the recoveries and the skipped elements behind an error nor the
\* way the texts came decide the verdict.
THEOREM VerdictIsStrict == SpecValidator => []VerdictStrict
<1>1. InitValidator => Decided
  BY DEF InitValidator, Decided, Parsing
<1>2. IInv /\ Aligned /\ InDepth /\ Decided /\ [NextValidator]_allVars => Decided'
  BY NextDecided
<1>3. Aligned /\ Decided => VerdictStrict
  BY DecidedStrict DEF Aligned
<1> QED
  BY <1>1, <1>2, <1>3, SpecAligned, SpecInDepth, PTL DEF SpecValidator
=============================================================================
