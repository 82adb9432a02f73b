--------------------------- MODULE SessionProofs ---------------------------
(***************************************************************************)
(* Theorems about Session, for every derivative engine: nothing is assumed *)
(* of the drv_ operators, which may return any pattern, so the theorems    *)
(* rest on the control of rnv.c and ruby_rnv.c alone.                      *)
(***************************************************************************)
EXTENDS Session, TLAPS

(***************************************************************************)
(* What each function of rnv.c answers: TRUE without a fault and with a    *)
(* pattern to go on with, or FALSE with a fault.                           *)
(***************************************************************************)
Judged(o) ==
  /\ o.ok \in BOOLEAN
  /\ o.errs \subseteq RnvCodes \cup {"nodtl"}
  /\ o.ok => o.cur # rn_notAllowed /\ o.errs \cap RnvCodes = {}
  /\ ~o.ok => o.errs \cap RnvCodes # {}

\* The one place where all the functions decide between going on and recovering.
LEMMA OutcomeJudged ==
  ASSUME NEW cur, NEW q, NEW r, NEW code \in RnvCodes, NEW noted \in SUBSET {"nodtl"}
  PROVE  /\ Judged(Outcome(cur, q, r, code, noted))
         /\ r # rn_notAllowed => Outcome(cur, q, r, code, noted).cur # rn_notAllowed
<1> DEFINE o == Outcome(cur, q, r, code, noted)
<1>0. "nodtl" \notin RnvCodes
  BY DEF RnvCodes
<1>1. CASE q # rn_notAllowed
  <2>1. o = [cur |-> q, prev |-> cur, ok |-> TRUE, errs |-> noted]
    BY <1>1 DEF Outcome, Step
  <2>2. noted \cap RnvCodes = {}
    BY <1>0
  <2> QED
    BY <1>1, <2>1, <2>2 DEF Judged
<1>2. CASE q = rn_notAllowed
  <2>1. o = [cur |-> r, prev |-> cur, ok |-> FALSE, errs |-> noted \cup {code}]
    BY <1>2 DEF Outcome, Step
  <2>2. (noted \cup {code}) \cap RnvCodes # {} /\ noted \cup {code} \subseteq RnvCodes \cup {"nodtl"}
    OBVIOUS
  <2> QED
    BY <2>1, <2>2 DEF Judged
<1> QED
  BY <1>1, <1>2

LEMMA NoticeOnly ==
  ASSUME NEW p, NEW s
  PROVE  Notice(p, s) \in SUBSET {"nodtl"}
BY DEF Notice

\* A text that is refused is ignored, so the pattern remains one to go on with.
LEMMA TextJudged ==
  ASSUME NEW cur, NEW prev, NEW s, NEW mx \in BOOLEAN, cur # rn_notAllowed
  PROVE  /\ Judged(RnvText(cur, prev, s, mx))
         /\ RnvText(cur, prev, s, mx).cur # rn_notAllowed
<1> DEFINE white == xmlc_white_space(s)
<1>1. CASE mx /\ white
  <2>1. RnvText(cur, prev, s, mx) = [cur |-> cur, prev |-> prev, ok |-> TRUE, errs |-> {}]
    BY <1>1 DEF RnvText, Step
  <2> QED
    BY <2>1 DEF Judged
<1>2. CASE mx /\ ~white
  <2>1. RnvText(cur, prev, s, mx) = Outcome(cur, drv_mixed_text(cur), cur, "notx", {})
    BY <1>2 DEF RnvText
  <2>2. "notx" \in RnvCodes /\ {} \in SUBSET {"nodtl"}
    BY DEF RnvCodes
  <2> QED
    BY <2>1, <2>2, OutcomeJudged
<1>3. CASE ~mx
  <2>1. RnvText(cur, prev, s, mx) = Outcome(cur, drv_text(cur, s, libs), cur, "text", Notice(cur, s))
    BY <1>3 DEF RnvText
  <2>2. "text" \in RnvCodes /\ Notice(cur, s) \in SUBSET {"nodtl"}
    BY NoticeOnly DEF RnvCodes
  <2> QED
    BY <2>1, <2>2, OutcomeJudged
<1> QED
  BY <1>1, <1>2, <1>3

LEMMA StartTagOpenJudged ==
  ASSUME NEW cur, NEW name
  PROVE  Judged(RnvStartTagOpen(cur, name))
<1> DEFINE r == drv_start_tag_open_recover(cur, name)
           code == IF r = rn_notAllowed THEN "elem" ELSE "emis"
<1>1. code \in RnvCodes /\ {} \in SUBSET {"nodtl"}
  BY DEF RnvCodes
<1>2. RnvStartTagOpen(cur, name) = Outcome(cur, drv_start_tag_open(cur, name), r, code, {})
  BY DEF RnvStartTagOpen
<1> HIDE DEF code, r
<1> QED
  BY <1>1, <1>2, OutcomeJudged

LEMMA AttributeJudged ==
  ASSUME NEW cur, NEW att
  PROVE  Judged(RnvAttribute(cur, att))
<1>0. "akey" \in RnvCodes /\ "aval" \in RnvCodes /\ {} \in SUBSET {"nodtl"}
  BY DEF RnvCodes
<1>1. ASSUME NEW a, NEW t, NEW noted \in SUBSET {"nodtl"}
      PROVE  Judged(ValueMatched(a, t, noted))
  BY <1>0, OutcomeJudged DEF ValueMatched
<1>2. ASSUME NEW a, NEW value
      PROVE  Judged(AttributeOpened(cur, a, value))
  BY <1>0, <1>1, OutcomeJudged, NoticeOnly DEF AttributeOpened
<1> QED
  BY <1>2 DEF RnvAttribute

LEMMA StartTagCloseJudged ==
  ASSUME NEW cur
  PROVE  Judged(RnvStartTagClose(cur))
<1>1. "amis" \in RnvCodes /\ {} \in SUBSET {"nodtl"}
  BY DEF RnvCodes
<1> QED
  BY <1>1, OutcomeJudged DEF RnvStartTagClose

LEMMA EndTagJudged ==
  ASSUME NEW cur
  PROVE  Judged(RnvEndTag(cur))
<1>1. "ufin" \in RnvCodes /\ {} \in SUBSET {"nodtl"}
  BY DEF RnvCodes
<1> QED
  BY <1>1, OutcomeJudged DEF RnvEndTag

-----------------------------------------------------------------------------
LEMMA EmptyText == <<>> \in Seq(Char)
OBVIOUS

LEMMA ZeroLevel == 0 \in Levels
BY Bounds DEF Levels

LEMMA InitTypeOK == Init => TypeOK
<1> SUFFICES ASSUME Init PROVE TypeOK
  OBVIOUS
<1>1. text \in Seq(Char) /\ lenTxt \in Nat /\ level \in Levels
  BY EmptyText, Bounds DEF Init
<1>2. call.in = FALSE /\ call.ok = TRUE
  BY DEF Init, NoCall
<1> QED
  BY <1>1, <1>2 DEF Init, TypeOK

\* Every step keeps the state typed: the level within its bounds, the text a
\* sequence of characters, only known codes among the errors.
LEMMA NextTypeOK == TypeOK /\ [Next]_vars => TypeOK'
<1> SUFFICES ASSUME TypeOK, [Next]_vars
             PROVE  TypeOK'
  OBVIOUS
<1> USE DEF TypeOK, schema
<1>1. ASSUME NEW s \in Starts, LoadSchema(s)
      PROVE  TypeOK'
  BY <1>1, EmptyText, BufferSizes DEF LoadSchema
<1>2. CASE LoadFails
  BY <1>2 DEF LoadFails, ErrorCodes
<1>3. ASSUME NEW l \in Libraries, AddLibrary(l)
      PROVE  TypeOK'
  BY <1>3 DEF AddLibrary
<1>4. CASE PushError
  BY <1>4 DEF PushError, ErrorCodes
<1>5. CASE StartDocument
  BY <1>5, EmptyText, ZeroLevel, BufferSizes DEF StartDocument
<1>6. ASSUME NEW chunk \in Chunks, Characters(chunk)
      PROVE  TypeOK'
  <2>1. chunk \in Seq(Char) /\ text \o chunk \in Seq(Char)
    BY TextsTyped
  <2>2. Len(text) \in Nat /\ Len(chunk) \in Nat
    BY <2>1
  <2>3. lenTxt' \in Nat
    BY <1>6, <2>2, BufferSizes DEF Characters, NewLength
  <2> QED
    BY <1>6, <2>1, <2>3 DEF Characters
<1>7. ASSUME NEW name \in Names, NEW atts \in AttributeLists, StartTag(name, atts)
      PROVE  TypeOK'
  <2> DEFINE f == RnvText(current, previous, text, TRUE)
             o == RnvStartTagOpen(f.cur, name)
  <2>1. /\ errors' = errors \cup f.errs \cup o.errs
        /\ ok' = (ok /\ f.ok /\ (o.cur = rn_notAllowed => o.ok))
        /\ mixed' = ~(o.cur = rn_notAllowed)
        /\ call' = IF o.cur = rn_notAllowed THEN NoCall
                   ELSE [in |-> TRUE, atts |-> atts, ok |-> o.ok]
    BY <1>7 DEF StartTag
  <2>2. Judged(f) /\ Judged(o)
    BY <1>7, TextJudged, StartTagOpenJudged DEF StartTag
  <2>3. errors' \subseteq ErrorCodes
    BY <2>1, <2>2 DEF Judged, ErrorCodes
  <2>4. call'.in \in BOOLEAN /\ call'.ok \in BOOLEAN
    BY <2>1, <2>2 DEF Judged, NoCall
  <2> QED
    BY <1>7, EmptyText, <2>1, <2>3, <2>4 DEF StartTag
<1>8. CASE TakeAttribute
  <2> DEFINE a == RnvAttribute(current, Head(call.atts))
  <2>1. /\ errors' = errors \cup a.errs
        /\ ok' = (ok /\ (a.cur = rn_notAllowed => call.ok /\ a.ok))
        /\ mixed' = ~(a.cur = rn_notAllowed)
        /\ call' = IF a.cur = rn_notAllowed THEN NoCall
                   ELSE [in |-> TRUE, atts |-> Tail(call.atts), ok |-> call.ok /\ a.ok]
    BY <1>8 DEF TakeAttribute
  <2>2. Judged(a)
    BY AttributeJudged
  <2>3. errors' \subseteq ErrorCodes
    BY <2>1, <2>2 DEF Judged, ErrorCodes
  <2>4. call'.in \in BOOLEAN /\ call'.ok \in BOOLEAN
    BY <2>1, <2>2 DEF Judged, NoCall
  <2> QED
    BY <1>8, <2>1, <2>3, <2>4 DEF TakeAttribute
<1>9. CASE CloseStartTag
  <2> DEFINE c == RnvStartTagClose(current)
  <2>1. errors' = errors \cup c.errs /\ ok' = (ok /\ call.ok /\ c.ok)
    BY <1>9 DEF CloseStartTag
  <2>2. Judged(c)
    BY StartTagCloseJudged
  <2>3. errors' \subseteq ErrorCodes
    BY <2>1, <2>2 DEF Judged, ErrorCodes
  <2> QED
    BY <1>9, <2>1, <2>3 DEF CloseStartTag, NoCall
<1>10. CASE StartTagSkipped
  BY <1>10, Bounds DEF StartTagSkipped, Levels
<1>11. CASE EndTag
  <2> DEFINE f == RnvText(current, previous, text, mixed)
             e == RnvEndTag(f.cur)
  <2>1. errors' = errors \cup f.errs \cup e.errs /\ ok' = (ok /\ f.ok /\ e.ok)
    BY <1>11 DEF EndTag
  <2>2. Judged(f) /\ Judged(e)
    BY <1>11, TextJudged, EndTagJudged DEF EndTag
  <2>3. errors' \subseteq ErrorCodes
    BY <2>1, <2>2 DEF Judged, ErrorCodes
  <2> QED
    BY <1>11, <2>1, <2>3 DEF EndTag
<1>12. CASE EndTagSkipped
  BY <1>12, Bounds DEF EndTagSkipped, Levels
<1>13. CASE RaiseInAttribute
  <2>1. errors' \subseteq errors \cup {"nodtl"}
    BY <1>13, NoticeOnly DEF RaiseInAttribute
  <2> QED
    BY <1>13, <2>1 DEF RaiseInAttribute, NoCall, ErrorCodes
<1>14. CASE RaiseInEndTag
  <2>1. errors' \subseteq errors \cup {"nodtl"}
    BY <1>14, NoticeOnly DEF RaiseInEndTag
  <2> QED
    BY <1>14, <2>1 DEF RaiseInEndTag, ErrorCodes
<1>15. CASE UNCHANGED vars
  BY <1>15 DEF vars
<1> QED
  BY <1>1, <1>2, <1>3, <1>4, <1>5, <1>6, <1>7, <1>8, <1>9, <1>10, <1>11, <1>12,
     <1>13, <1>14, <1>15 DEF Next

\* Type correctness of the session, for every schema, program and engine.
THEOREM TypeCorrect == Spec => []TypeOK
<1>1. Init => TypeOK
  BY InitTypeOK
<1>2. TypeOK /\ [Next]_vars => TypeOK'
  BY NextTypeOK
<1> QED
  BY <1>1, <1>2, PTL DEF Spec

-----------------------------------------------------------------------------
(***************************************************************************)
(* The inductive invariant.  Calls says where a call of rnv_start_tag      *)
(* stands: it runs on an open document, with a pattern to match, after     *)
(* flush_text emptied the buffer; outside of it no verdict is pending.     *)
(***************************************************************************)
Calls ==
  /\ opened => start # NoPattern
  /\ clean => start # NoPattern
  /\ ~call.in => call.ok
  /\ call.in => opened /\ current # rn_notAllowed /\ text = <<>>

IInv == TypeOK /\ Calls /\ Explained /\ ErrorsAgree /\ Skipping /\ BufferFits

LEMMA InitIInv == Init => IInv
<1> SUFFICES ASSUME Init PROVE IInv
  OBVIOUS
<1>1. TypeOK
  BY InitTypeOK
<1>2. Calls /\ Explained /\ ErrorsAgree
  BY DEF Init, NoCall, Calls, Explained, ErrorsAgree
<1>3. Skipping
  BY NoPatternIsNone DEF Init, Skipping
<1>4. BufferFits
  BY DEF Init, BufferFits
<1> QED
  BY <1>1, <1>2, <1>3, <1>4 DEF IInv

\* Every step preserves the invariant.
LEMMA NextIInv == IInv /\ [Next]_vars => IInv'
<1> SUFFICES ASSUME IInv, [Next]_vars
             PROVE  (Calls /\ Explained /\ ErrorsAgree /\ Skipping /\ BufferFits)'
  BY NextTypeOK DEF IInv
<1> USE DEF IInv, schema, Faults, Idle
<1>0. "schema" \notin RnvCodes /\ "dtl" \notin RnvCodes /\ "nodtl" \notin RnvCodes
  BY DEF RnvCodes
<1>1. ASSUME NEW s \in Starts, LoadSchema(s)
      PROVE  (Calls /\ Explained /\ ErrorsAgree /\ Skipping /\ BufferFits)'
  <2>1. (Calls /\ Explained /\ ErrorsAgree)'
    BY <1>1, NoPatternIsNone DEF LoadSchema, Calls, Explained, ErrorsAgree
  <2>2. Skipping'
    BY <1>1 DEF LoadSchema, Skipping
  <2>3. BufferFits'
    BY <1>1, BufferSizes DEF LoadSchema, BufferFits
  <2> QED
    BY <2>1, <2>2, <2>3
<1>2. CASE LoadFails
  <2>1. (errors \cap RnvCodes)' = errors \cap RnvCodes
    BY <1>0, <1>2 DEF LoadFails
  <2> QED
    BY <1>2, <2>1 DEF LoadFails, Calls, Explained, ErrorsAgree, Skipping, BufferFits
<1>3. ASSUME NEW l \in Libraries, AddLibrary(l)
      PROVE  (Calls /\ Explained /\ ErrorsAgree /\ Skipping /\ BufferFits)'
  BY <1>3 DEF AddLibrary, Calls, Explained, ErrorsAgree, Skipping, BufferFits
<1>4. CASE PushError
  <2>1. (errors \cap RnvCodes)' = errors \cap RnvCodes
    BY <1>0, <1>4 DEF PushError
  <2> QED
    BY <1>4, <2>1 DEF PushError, Calls, Explained, ErrorsAgree, Skipping, BufferFits
<1>5. CASE StartDocument
  <2>1. start \in Starts /\ start # NoPattern
    BY <1>5 DEF StartDocument, TypeOK, Calls
  <2>2. (Calls /\ Explained /\ ErrorsAgree)'
    BY <1>5, <2>1 DEF StartDocument, Calls, Explained, ErrorsAgree
  <2>3. Skipping'
    BY <1>5, <2>1 DEF StartDocument, Skipping
  <2>4. BufferFits'
    BY <1>5, BufferSizes DEF StartDocument, BufferFits
  <2> QED
    BY <2>2, <2>3, <2>4
<1>6. ASSUME NEW chunk \in Chunks, Characters(chunk)
      PROVE  (Calls /\ Explained /\ ErrorsAgree /\ Skipping /\ BufferFits)'
  <2>1. (Calls /\ Explained /\ ErrorsAgree /\ Skipping)'
    BY <1>6 DEF Characters, Calls, Explained, ErrorsAgree, Skipping
  <2>2. /\ text \in Seq(Char) /\ chunk \in Seq(Char)
        /\ Len(text \o chunk) = Len(text) + Len(chunk)
        /\ Len(text) \in Nat /\ Len(chunk) \in Nat
    BY TextsTyped DEF TypeOK
  <2>3. lenTxt' = NewLength(Len(text') + 1) /\ start' = start /\ lenTxt \in Nat
    BY <1>6, <2>2 DEF Characters, TypeOK
  <2>4. Len(text') \in Nat
    BY <1>6, <2>2 DEF Characters
  <2>5. BufferFits'
    BY <2>3, <2>4, BufferSizes DEF BufferFits, NewLength
  <2> QED
    BY <2>1, <2>5
<1>7. ASSUME NEW name \in Names, NEW atts \in AttributeLists, StartTag(name, atts)
      PROVE  (Calls /\ Explained /\ ErrorsAgree /\ Skipping /\ BufferFits)'
  <2> DEFINE f == RnvText(current, previous, text, TRUE)
             o == RnvStartTagOpen(f.cur, name)
  <2>1. /\ errors' = errors \cup f.errs \cup o.errs
        /\ ok' = (ok /\ f.ok /\ (o.cur = rn_notAllowed => o.ok))
        /\ current' = o.cur /\ text' = <<>>
        /\ call' = IF o.cur = rn_notAllowed THEN NoCall
                   ELSE [in |-> TRUE, atts |-> atts, ok |-> o.ok]
        /\ UNCHANGED <<opened, start, lenTxt, clean>>
        /\ opened /\ ~call.in
    BY <1>7 DEF StartTag
  <2>2. Judged(f) /\ Judged(o)
    BY <1>7, TextJudged, StartTagOpenJudged DEF StartTag
  <2> HIDE DEF f, o
  <2>3. (ok' /\ call'.ok) <=> (ok /\ f.ok /\ o.ok)
    BY <2>1, <2>2 DEF Judged, NoCall
  <2>4. call'.in <=> o.cur # rn_notAllowed
    BY <2>1 DEF NoCall
  <2>5. ~call'.in => call'.ok
    BY <2>1 DEF NoCall
  <2>6. Calls'
    BY <2>1, <2>4, <2>5 DEF Calls
  <2>7. (Explained /\ ErrorsAgree)'
    BY <2>1, <2>2, <2>3 DEF Judged, Explained, ErrorsAgree, Calls
  <2>8. Skipping'
    BY <2>1, <2>2, <2>4 DEF Judged, Skipping
  <2>9. BufferFits'
    BY <2>1 DEF BufferFits, Calls, TypeOK
  <2> QED
    BY <2>6, <2>7, <2>8, <2>9
<1>8. CASE TakeAttribute
  <2> DEFINE a == RnvAttribute(current, Head(call.atts))
  <2>1. /\ errors' = errors \cup a.errs
        /\ ok' = (ok /\ (a.cur = rn_notAllowed => call.ok /\ a.ok))
        /\ current' = a.cur
        /\ call' = IF a.cur = rn_notAllowed THEN NoCall
                   ELSE [in |-> TRUE, atts |-> Tail(call.atts), ok |-> call.ok /\ a.ok]
        /\ UNCHANGED <<opened, start, text, lenTxt, clean>>
        /\ call.in
    BY <1>8 DEF TakeAttribute
  <2>2. Judged(a)
    BY AttributeJudged
  <2> HIDE DEF a
  <2>3. (ok' /\ call'.ok) <=> (ok /\ call.ok /\ a.ok)
    BY <2>1, <2>2 DEF Judged, NoCall
  <2>4. call'.in <=> a.cur # rn_notAllowed
    BY <2>1 DEF NoCall
  <2>5. ~call'.in => call'.ok
    BY <2>1 DEF NoCall
  <2>6. Calls'
    BY <2>1, <2>4, <2>5 DEF Calls
  <2>7. (Explained /\ ErrorsAgree)'
    BY <2>1, <2>2, <2>3 DEF Judged, Explained, ErrorsAgree, Calls
  <2>8. Skipping'
    BY <2>1, <2>2, <2>4 DEF Judged, Skipping, Calls
  <2>9. BufferFits'
    BY <2>1 DEF BufferFits
  <2> QED
    BY <2>6, <2>7, <2>8, <2>9
<1>9. CASE CloseStartTag
  <2> DEFINE c == RnvStartTagClose(current)
  <2>1. /\ errors' = errors \cup c.errs
        /\ ok' = (ok /\ call.ok /\ c.ok)
        /\ current' = c.cur
        /\ call'.in = FALSE /\ call'.ok = TRUE
        /\ UNCHANGED <<opened, start, text, lenTxt, clean>>
        /\ call.in
    BY <1>9 DEF CloseStartTag, NoCall
  <2>2. Judged(c)
    BY StartTagCloseJudged
  <2> HIDE DEF c
  <2>3. Calls'
    BY <2>1 DEF Calls
  <2>4. (Explained /\ ErrorsAgree)'
    BY <2>1, <2>2 DEF Judged, Explained, ErrorsAgree, Calls
  <2>5. Skipping'
    BY <2>1, <2>2 DEF Judged, Skipping, Calls
  <2>6. BufferFits'
    BY <2>1 DEF BufferFits
  <2> QED
    BY <2>3, <2>4, <2>5, <2>6
<1>10. CASE StartTagSkipped
  BY <1>10 DEF StartTagSkipped, Calls, Explained, ErrorsAgree, Skipping, BufferFits
<1>11. CASE EndTag
  <2> DEFINE f == RnvText(current, previous, text, mixed)
             e == RnvEndTag(f.cur)
  <2>1. /\ errors' = errors \cup f.errs \cup e.errs
        /\ ok' = (ok /\ f.ok /\ e.ok)
        /\ current' = e.cur /\ text' = <<>>
        /\ UNCHANGED <<opened, start, lenTxt, call, clean>>
        /\ opened /\ ~call.in
    BY <1>11 DEF EndTag
  <2>2. Judged(f) /\ Judged(e)
    BY <1>11, TextJudged, EndTagJudged DEF EndTag, TypeOK
  <2> HIDE DEF f, e
  <2>3. Calls'
    BY <2>1 DEF Calls
  <2>4. (Explained /\ ErrorsAgree)'
    BY <2>1, <2>2 DEF Judged, Explained, ErrorsAgree, Calls
  <2>5. Skipping'
    BY <2>1, <2>2 DEF Judged, Skipping
  <2>6. BufferFits'
    BY <2>1 DEF BufferFits, Calls, TypeOK
  <2> QED
    BY <2>3, <2>4, <2>5, <2>6
<1>12. CASE EndTagSkipped
  BY <1>12 DEF EndTagSkipped, Calls, Explained, ErrorsAgree, Skipping, BufferFits
<1>13. CASE RaiseInAttribute
  <2>1. (errors \cap RnvCodes)' = errors \cap RnvCodes
    BY <1>0, <1>13, NoticeOnly DEF RaiseInAttribute
  <2> QED
    BY <1>13, <2>1 DEF RaiseInAttribute, NoCall, Calls, Explained, ErrorsAgree, Skipping, BufferFits
<1>14. CASE RaiseInEndTag
  <2>1. (errors \cap RnvCodes)' = errors \cap RnvCodes
    BY <1>0, <1>14, NoticeOnly DEF RaiseInEndTag
  <2> QED
    BY <1>14, <2>1 DEF RaiseInEndTag, Calls, Explained, ErrorsAgree, Skipping, BufferFits
<1>15. CASE UNCHANGED vars
  BY <1>15 DEF vars, Calls, Explained, ErrorsAgree, Skipping, BufferFits
<1> QED
  BY <1>1, <1>2, <1>3, <1>4, <1>5, <1>6, <1>7, <1>8, <1>9, <1>10, <1>11, <1>12,
     <1>13, <1>14, <1>15 DEF Next

LEMMA SpecIInv == Spec => []IInv
<1>1. Init => IInv
  BY InitIInv
<1>2. IInv /\ [Next]_vars => IInv'
  BY NextIInv
<1> QED
  BY <1>1, <1>2, PTL DEF Spec

\* An invalid document always has an error that tells why, even when a library
\* has raised out of a start tag.
THEOREM AlwaysExplained == Spec => []Explained
<1>1. IInv => Explained
  BY DEF IInv
<1> QED
  BY <1>1, SpecIInv, PTL

\* valid? agrees with the errors of a document begun with start_document, as long
\* as no library raises.
THEOREM AlwaysErrorsAgree == Spec => []ErrorsAgree
<1>1. IInv => ErrorsAgree
  BY DEF IInv
<1> QED
  BY <1>1, SpecIInv, PTL

\* Elements are skipped only after an error, with an empty buffer, between tags.
THEOREM AlwaysSkipping == Spec => []Skipping
<1>1. IInv => Skipping
  BY DEF IInv
<1> QED
  BY <1>1, SpecIInv, PTL

\* The buffer holds its text, for every pair of sizes LEN_T <= LIM_T and chunks
\* of every length.
THEOREM AlwaysBufferFits == Spec => []BufferFits
<1>1. IInv => BufferFits
  BY DEF IInv
<1> QED
  BY <1>1, SpecIInv, PTL

-----------------------------------------------------------------------------
\* A step that makes an invalid document valid loads a schema or begins a document.
LEMMA NextVerdictFinal ==
  ASSUME IInv, [Next]_vars, ~ok, ok'
  PROVE  StartDocument \/ \E s \in Starts : LoadSchema(s)
<1>1. CASE LoadFails \/ PushError \/ StartTagSkipped \/ EndTagSkipped
  BY <1>1 DEF LoadFails, PushError, StartTagSkipped, EndTagSkipped
<1>2. CASE \/ \E l \in Libraries : AddLibrary(l)
           \/ \E chunk \in Chunks : Characters(chunk)
  BY <1>2 DEF AddLibrary, Characters
<1>3. CASE \E name \in Names, atts \in AttributeLists : StartTag(name, atts)
  BY <1>3 DEF StartTag
<1>4. CASE TakeAttribute \/ CloseStartTag \/ EndTag
  BY <1>4 DEF TakeAttribute, CloseStartTag, EndTag
<1>5. CASE RaiseInAttribute \/ RaiseInEndTag
  BY <1>5 DEF RaiseInAttribute, RaiseInEndTag
<1>6. CASE UNCHANGED vars
  BY <1>6 DEF vars
<1> QED
  BY <1>1, <1>2, <1>3, <1>4, <1>5, <1>6 DEF Next

\* Nothing that happens while a document is parsed makes it valid again.
THEOREM VerdictIsFinal == Spec => VerdictFinal
<1>1. IInv /\ [Next]_vars =>
        [~ok /\ ok' => StartDocument \/ \E s \in Starts : LoadSchema(s)]_vars
  BY NextVerdictFinal
<1> QED
  BY <1>1, SpecIInv, PTL DEF Spec, VerdictFinal

-----------------------------------------------------------------------------
(***************************************************************************)
(* Session implements Verdict: each step is a step of Verdict under the    *)
(* mapping of Promise, or changes nothing of what Verdict sees.            *)
(***************************************************************************)
LEMMA PromiseInit == Init => Promise!Init
BY DEF Init, Promise!Init, NoCall

LEMMA PromiseNext == IInv /\ [Next]_vars => [Promise!Next]_Promise!vars
<1> SUFFICES ASSUME IInv, [Next]_vars
             PROVE  Promise!Next \/ UNCHANGED Promise!vars
  OBVIOUS
<1> USE DEF IInv, schema, Idle
<1>0. "schema" \notin RnvCodes /\ "dtl" \notin RnvCodes /\ "nodtl" \notin RnvCodes
  BY DEF RnvCodes
<1>1. ASSUME NEW s \in Starts, LoadSchema(s)
      PROVE  Promise!Next
  <2>1. Promise!Load
    BY <1>1, NoPatternIsNone DEF LoadSchema, Promise!Load, Calls
  <2> QED
    BY <2>1 DEF Promise!Next
<1>2. CASE LoadFails \/ PushError
  BY <1>0, <1>2 DEF LoadFails, PushError, Promise!vars
<1>3. ASSUME NEW l \in Libraries, AddLibrary(l)
      PROVE  UNCHANGED Promise!vars
  BY <1>3 DEF AddLibrary, Promise!vars
<1>5. CASE StartDocument
  <2>1. Promise!Begin
    BY <1>5 DEF StartDocument, Promise!Begin, Calls
  <2> QED
    BY <2>1 DEF Promise!Next
<1>6. ASSUME NEW chunk \in Chunks, Characters(chunk)
      PROVE  UNCHANGED Promise!vars
  BY <1>6 DEF Characters, Promise!vars
<1>7. ASSUME start # NoPattern, start' = start, call'.in \in BOOLEAN,
             NEW b \in BOOLEAN, NEW errs \in SUBSET ErrorCodes,
             errors' = errors \cup errs,
             (ok' /\ call'.ok) <=> (ok /\ call.ok /\ b),
             b => errs \cap RnvCodes = {},
             ~b => errs \cap RnvCodes # {}
      PROVE  Promise!Next
  <2>1. (errors \cap RnvCodes)' = (errors \cap RnvCodes) \cup (errs \cap RnvCodes)
    BY <1>7
  <2>2. CASE b
    <3>1. (errors \cap RnvCodes)' = errors \cap RnvCodes
      BY <1>7, <2>1, <2>2
    <3>2. Promise!Accept
      BY <1>7, <2>2, <3>1 DEF Promise!Accept
    <3> QED
      BY <3>2 DEF Promise!Next
  <2>3. CASE ~b
    <3>1. Promise!Reject(errs \cap RnvCodes)
      BY <1>7, <2>1, <2>3 DEF Promise!Reject
    <3>2. errs \cap RnvCodes \in SUBSET RnvCodes
      OBVIOUS
    <3> QED
      BY <3>1, <3>2, Zenon DEF Promise!Next
  <2> QED
    BY <2>2, <2>3
<1>8. ASSUME NEW name \in Names, NEW atts \in AttributeLists, StartTag(name, atts)
      PROVE  Promise!Next
  <2> DEFINE f == RnvText(current, previous, text, TRUE)
             o == RnvStartTagOpen(f.cur, name)
  <2>1. /\ errors' = errors \cup (f.errs \cup o.errs)
        /\ ok' = (ok /\ f.ok /\ (o.cur = rn_notAllowed => o.ok))
        /\ call' = IF o.cur = rn_notAllowed THEN NoCall
                   ELSE [in |-> TRUE, atts |-> atts, ok |-> o.ok]
        /\ start' = start /\ opened /\ ~call.in
    BY <1>8 DEF StartTag
  <2>2. Judged(f) /\ Judged(o)
    BY <1>8, TextJudged, StartTagOpenJudged DEF StartTag
  <2> HIDE DEF f, o
  <2>3. (ok' /\ call'.ok) <=> (ok /\ call.ok /\ (f.ok /\ o.ok))
    BY <2>1, <2>2 DEF Judged, NoCall, Calls
  <2>4. call'.in \in BOOLEAN
    BY <2>1 DEF NoCall
  <2> QED
    BY <1>7, <2>1, <2>2, <2>3, <2>4 DEF Judged, Calls, ErrorCodes
<1>9. CASE TakeAttribute
  <2> DEFINE a == RnvAttribute(current, Head(call.atts))
  <2>1. /\ errors' = errors \cup a.errs
        /\ ok' = (ok /\ (a.cur = rn_notAllowed => call.ok /\ a.ok))
        /\ call' = IF a.cur = rn_notAllowed THEN NoCall
                   ELSE [in |-> TRUE, atts |-> Tail(call.atts), ok |-> call.ok /\ a.ok]
        /\ start' = start /\ call.in
    BY <1>9 DEF TakeAttribute
  <2>2. Judged(a)
    BY AttributeJudged
  <2> HIDE DEF a
  <2>3. (ok' /\ call'.ok) <=> (ok /\ call.ok /\ a.ok)
    BY <2>1, <2>2 DEF Judged, NoCall
  <2>4. call'.in \in BOOLEAN
    BY <2>1 DEF NoCall
  <2> QED
    BY <1>7, <2>1, <2>2, <2>3, <2>4 DEF Judged, Calls, ErrorCodes
<1>10. CASE CloseStartTag
  <2> DEFINE c == RnvStartTagClose(current)
  <2>1. /\ errors' = errors \cup c.errs
        /\ ok' = (ok /\ call.ok /\ c.ok)
        /\ call'.in = FALSE /\ call'.ok = TRUE
        /\ start' = start /\ call.in
    BY <1>10 DEF CloseStartTag, NoCall
  <2>2. Judged(c)
    BY StartTagCloseJudged
  <2> HIDE DEF c
  <2> QED
    BY <1>7, <2>1, <2>2 DEF Judged, Calls, ErrorCodes
<1>11. CASE EndTag
  <2> DEFINE f == RnvText(current, previous, text, mixed)
             e == RnvEndTag(f.cur)
  <2>1. /\ errors' = errors \cup (f.errs \cup e.errs)
        /\ ok' = (ok /\ f.ok /\ e.ok)
        /\ UNCHANGED <<start, call>>
        /\ opened /\ ~call.in
    BY <1>11 DEF EndTag
  <2>2. Judged(f) /\ Judged(e)
    BY <1>11, TextJudged, EndTagJudged DEF EndTag, TypeOK
  <2> HIDE DEF f, e
  <2>3. (ok' /\ call'.ok) <=> (ok /\ call.ok /\ (f.ok /\ e.ok))
    BY <2>1, <2>2 DEF Judged, Calls
  <2> QED
    BY <1>7, <2>1, <2>2, <2>3 DEF Judged, Calls, ErrorCodes, TypeOK
<1>12. CASE StartTagSkipped \/ EndTagSkipped
  BY <1>12 DEF StartTagSkipped, EndTagSkipped, Promise!vars
<1>13. CASE RaiseInAttribute
  <2>1. (errors \cap RnvCodes)' = errors \cap RnvCodes
    BY <1>0, <1>13, NoticeOnly DEF RaiseInAttribute
  <2>2. Promise!Abandon
    BY <1>13, <2>1 DEF RaiseInAttribute, NoCall, Promise!Abandon, TypeOK
  <2> QED
    BY <2>2 DEF Promise!Next
<1>14. CASE RaiseInEndTag
  <2>1. (errors \cap RnvCodes)' = errors \cap RnvCodes
    BY <1>0, <1>14, NoticeOnly DEF RaiseInEndTag
  <2> QED
    BY <1>14, <2>1 DEF RaiseInEndTag, Promise!vars
<1>15. CASE UNCHANGED vars
  BY <1>15 DEF vars, Promise!vars
<1> QED
  BY <1>1, <1>2, <1>3, <1>5, <1>6, <1>8, <1>9, <1>10, <1>11, <1>12, <1>13,
     <1>14, <1>15 DEF Next

\* Session implements Verdict, for every derivative engine.
THEOREM Implements == Spec => KeepsPromise
<1>1. Init => Promise!Init
  BY PromiseInit
<1>2. IInv /\ [Next]_vars => [Promise!Next]_Promise!vars
  BY PromiseNext
<1> QED
  BY <1>1, <1>2, SpecIInv, PTL DEF Spec, KeepsPromise, Promise!Spec
=============================================================================
