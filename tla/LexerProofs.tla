---------------------------- MODULE LexerProofs ----------------------------
(***************************************************************************)
(* Two theorems about Lexer, for every schema, every size of the first    *)
(* buffer and every length asked for a character.                          *)
(*                                                                         *)
(* What is written of a symbol lies inside the buffer it is written to, and*)
(* so does the zero after it, although the two buffers grow apart and are  *)
(* exchanged with each symbol.                                             *)
(*                                                                         *)
(* An error is flagged exactly if one is said, and no two are said of the  *)
(* same line.  This follows every character through getu and getv: that a  *)
(* run of x or of digits after a backslash ends at all is part of it, for  *)
(* at the end of the text getu gives ends of lines and of the text only.   *)
(***************************************************************************)
EXTENDS Lexer, Lemmas

-----------------------------------------------------------------------------
(* Sequences. *)

LEMMA FrontOf ==
  ASSUME NEW s, IsSequence(s), NEW n \in Nat, n <= Len(s)
  PROVE  IsSequence(Front(s, n)) /\ Len(Front(s, n)) = Len(s) - n
<1>1. Len(s) \in Nat /\ \A i \in 1 .. Len(s) : s[i] \in Elements(s)
  BY SequenceFacts DEF Elements
<1> DEFINE m == Len(s) - n
<1>2. 1 \in Int /\ m \in Int /\ m \in Nat /\ m <= Len(s)
  BY <1>1
<1> HIDE DEF m
<1>3. \A i \in 1 .. m : s[i] \in Elements(s)
  BY <1>1, <1>2
<1>4. /\ SubSeq(s, 1, m) \in Seq(Elements(s))
      /\ Len(SubSeq(s, 1, m)) = IF 1 <= m THEN m - 1 + 1 ELSE 0
  BY <1>2, <1>3, SubSeqProperties
<1>5. Len(SubSeq(s, 1, m)) = m
  BY <1>2, <1>4
<1>6. Front(s, n) = SubSeq(s, 1, m)
  BY Zenon DEF Front, m
<1>7. IsSequence(SubSeq(s, 1, m))
  BY <1>4, SequenceOf, Zenon
<1> QED
  BY <1>5, <1>6, <1>7, Zenon DEF m

LEMMA Joined ==
  ASSUME NEW s, IsSequence(s), NEW t, IsSequence(t)
  PROVE  IsSequence(s \o t) /\ Len(s \o t) = Len(s) + Len(t)
<1> DEFINE S == Elements(s) \cup Elements(t)
<1>1. s \in Seq(S) /\ t \in Seq(S)
  BY SeqMonotonic DEF IsSequence
<1> HIDE DEF S
<1>2. s \o t \in Seq(S) /\ Len(s \o t) = Len(s) + Len(t)
  BY <1>1, ConcatProperties
<1> QED
  BY <1>2, SequenceOf

-----------------------------------------------------------------------------
(* Symbols and their room. *)

SymbolFields == {"sym", "s", "line", "room"}

Symbol(c) ==
  /\ DOMAIN c = SymbolFields
  /\ IsSequence(c.s)
  /\ c.room \in Nat /\ BUFSIZE <= c.room

\* Whether n characters are few enough for the room depends on where advance is: in some
\* places the room for another one was made, in two the end is still to be written, and a
\* symbol that is complete has its end.
Enough(place, n, room) ==
  IF place \in {"name", "literal", "documentationEnd"} THEN n + U_MAXLEN <= room
  ELSE IF place \in {"hashes", "documentation"} THEN n <= room
  ELSE n < room

\* The inductive invariant.
RoomInv ==
  /\ Symbol(cur) /\ Len(cur.s) < cur.room
  /\ Symbol(nxt) /\ Enough(at, Len(nxt.s), nxt.room)

LEMMA RoomSuffices ==
  ASSUME NEW n \in Nat, NEW room \in Nat, BUFSIZE <= room
  PROVE  Room(n, room) \in Nat /\ BUFSIZE <= Room(n, room) /\ n + U_MAXLEN <= Room(n, room)
BY RoomAssumption DEF Room

\* The room for a character more is enough anywhere, and an empty symbol has it.
LEMMA EnoughAnywhere ==
  ASSUME NEW n \in Nat, NEW room \in Nat, n + U_MAXLEN <= room, NEW place
  PROVE  Enough(place, n, room) /\ n < room
BY RoomAssumption DEF Enough

LEMMA EnoughForNone ==
  ASSUME NEW room \in Nat, BUFSIZE <= room
  PROVE  Len(<<>>) \in Nat /\ Len(<<>>) + U_MAXLEN <= room
<1>1. Len(<<>>) = 0
  BY EmptySequence, SequenceFacts
<1> QED
  BY <1>1, RoomAssumption

LEMMA SymbolLength ==
  ASSUME NEW c, Symbol(c)
  PROVE  Len(c.s) \in Nat /\ c.room \in Nat /\ BUFSIZE <= c.room
BY SequenceFacts, Zenon DEF Symbol

\* The assignments to a symbol.
LEMMA Emptied ==
  ASSUME NEW c, Symbol(c)
  PROVE  LET d == [c EXCEPT !.s = <<>>]
         IN  Symbol(d) /\ Len(d.s) \in Nat /\ Len(d.s) + U_MAXLEN <= d.room
<1> DEFINE d == [c EXCEPT !.s = <<>>]
<1>1. DOMAIN d = SymbolFields /\ d.s = <<>> /\ d.room = c.room
  BY Zenon DEF Symbol, SymbolFields
<1> HIDE DEF d
<1>2. Symbol(d)
  BY <1>1, EmptySequence, Zenon DEF Symbol
<1>3. Len(<<>>) \in Nat /\ Len(<<>>) + U_MAXLEN <= d.room
  BY <1>2, EnoughForNone, SymbolLength, Zenon
<1>4. Symbol(d) /\ Len(d.s) \in Nat /\ Len(d.s) + U_MAXLEN <= d.room
  BY <1>1, <1>2, <1>3, Zenon
<1> QED
  BY <1>4, Zenon DEF d

\* A step that leaves the current symbol alone.
LEMMA NextChanged ==
  ASSUME RoomInv, cur' = cur, DOMAIN nxt' = SymbolFields,
         NEW value, nxt'.s = value, IsSequence(value),
         NEW room \in Nat, nxt'.room = room, BUFSIZE <= room,
         Enough(at', Len(value), room)
  PROVE  RoomInv'
BY Zenon DEF RoomInv, Symbol, Enough

LEMMA AfterYields ==
  ASSUME RoomInv, NEW sym, NEW value, NEW s, Yields(sym, value, s), at # "name",
         IsSequence(value), Len(value) < nxt.room
  PROVE  RoomInv'
<1>1. /\ DOMAIN nxt' = SymbolFields /\ nxt'.s = value /\ nxt'.room = nxt.room
      /\ cur' = cur /\ at' = "returned"
  BY Zenon DEF Yields, RoomInv, Symbol, SymbolFields, symVars
<1>2. nxt.room \in Nat /\ BUFSIZE <= nxt.room
  BY Zenon DEF RoomInv, Symbol
<1>3. Enough(at', Len(value), nxt.room)
  BY <1>1, SMT DEF Enough
<1> QED
  BY <1>1, <1>2, <1>3, NextChanged, Zenon

LEMMA AfterContinues ==
  ASSUME RoomInv, NEW place, NEW locals, NEW value, NEW s, Continues(place, locals, value, s),
         IsSequence(value), Enough(place, Len(value), nxt.room)
  PROVE  RoomInv'
<1>1. /\ DOMAIN nxt' = SymbolFields /\ nxt'.s = value /\ nxt'.room = nxt.room
      /\ cur' = cur /\ at' = place
  BY Zenon DEF Continues, RoomInv, Symbol, SymbolFields, symVars
<1>2. nxt.room \in Nat /\ BUFSIZE <= nxt.room
  BY Zenon DEF RoomInv, Symbol
<1> QED
  BY <1>1, <1>2, NextChanged, Zenon

\* With no character yet, advance may go on anywhere or return.
LEMMA WithNone ==
  ASSUME RoomInv
  PROVE  /\ IsSequence(<<>>) /\ Len(<<>>) < nxt.room
         /\ \A place : Enough(place, Len(<<>>), nxt.room)
<1>1. nxt.room \in Nat /\ BUFSIZE <= nxt.room
  BY Zenon DEF RoomInv, Symbol
<1>2. Len(<<>>) \in Nat /\ Len(<<>>) + U_MAXLEN <= nxt.room
  BY <1>1, EnoughForNone, Zenon
<1> QED
  BY <1>1, <1>2, EmptySequence, EnoughAnywhere, Zenon

LEMMA AfterAddToLiteral ==
  ASSUME RoomInv, NEW c, AddToLiteral(c)
  PROVE  RoomInv'
<1> DEFINE value == Append(nxt.s, c)
           room  == Room(Len(nxt.s) + 1, nxt.room)
<1>1. DOMAIN nxt' = SymbolFields /\ nxt'.s = value /\ nxt'.room = room /\ cur' = cur
  BY Zenon DEF AddToLiteral, RoomInv, Symbol, SymbolFields, symVars
<1>2. IsSequence(nxt.s) /\ Len(nxt.s) \in Nat /\ nxt.room \in Nat /\ BUFSIZE <= nxt.room
  BY SymbolLength, Zenon DEF RoomInv, Symbol
<1>3. IsSequence(value) /\ Len(value) = Len(nxt.s) + 1
  BY <1>2, Appended, Zenon
<1>4. Len(nxt.s) + 1 \in Nat
  BY <1>2
<1>5. room \in Nat /\ BUFSIZE <= room /\ Len(value) + U_MAXLEN <= room
  BY <1>2, <1>3, <1>4, RoomSuffices, Zenon
<1> HIDE DEF value, room
<1>6. Enough(at', Len(value), room)
  BY <1>3, <1>4, <1>5, EnoughAnywhere, Zenon
<1> QED
  BY <1>1, <1>3, <1>5, <1>6, NextChanged, Zenon

-----------------------------------------------------------------------------
(* The steps of advance. *)

\* A complete name with the character that was read last, and the room made for it.
LEMMA AfterName ==
  ASSUME RoomInv, Name
  PROVE  RoomInv'
<1> DEFINE name == Append(nxt.s, source.v)
           room == Room(Len(nxt.s) + 1, nxt.room)
<1>1. at = "name"
  BY DEF Name
<1>2. IsSequence(nxt.s) /\ Len(nxt.s) \in Nat /\ nxt.room \in Nat /\ BUFSIZE <= nxt.room
  BY SymbolLength, Zenon DEF RoomInv, Symbol
<1>3. IsSequence(name) /\ Len(name) = Len(nxt.s) + 1
  BY <1>2, Appended, Zenon
<1>4. Len(nxt.s) + 1 \in Nat /\ 1 <= Len(nxt.s) + 1
  BY <1>2
<1>5. room \in Nat /\ BUFSIZE <= room /\ Len(name) + U_MAXLEN <= room
  BY <1>2, <1>3, <1>4, RoomSuffices, Zenon
<1>6. Len(Front(name, 1)) = Len(name) - 1 /\ IsSequence(Front(name, 1))
  BY <1>3, <1>4, FrontOf
<1>7. Len(Front(name, 1)) \in Nat /\ Len(Front(name, 1)) + U_MAXLEN <= room
  <2> HIDE DEF name, room
  <2> QED
    BY <1>2, <1>3, <1>5, <1>6, RoomAssumption
<1> HIDE DEF name, room
<1>8. ASSUME NEW sym, NEW value, NEW s, Yields(sym, value, s),
             IsSequence(value), Len(value) \in Nat, Len(value) + U_MAXLEN <= room
      PROVE  RoomInv'
  <2>1. DOMAIN nxt' = SymbolFields /\ nxt'.s = value /\ nxt'.room = room /\ cur' = cur
    BY <1>1, <1>8, Zenon DEF Yields, RoomInv, Symbol, SymbolFields, symVars, room
  <2>2. Enough(at', Len(value), room)
    BY <1>5, <1>8, EnoughAnywhere, Zenon
  <2> QED
    BY <2>1, <2>2, <1>5, <1>8, NextChanged, Zenon
<1>9. ASSUME NEW s, YieldsName(name, s)
      PROVE  RoomInv'
  <2>1. \/ \E sym, t : Yields(sym, name, t)
        \/ \E sym, t : Yields(sym, Front(name, 1), t)
    BY <1>9, Zenon DEF YieldsName
  <2>2. Len(name) \in Nat
    BY <1>3, <1>4, Zenon
  <2> QED
    BY <2>1, <2>2, <1>3, <1>5, <1>6, <1>7, <1>8, Zenon
<1>10. ASSUME nxt' = [nxt EXCEPT !.s = name, !.room = Room(Len(name), @)], UNCHANGED <<at, local, symVars>>
       PROVE  RoomInv'
  <2>1. DOMAIN nxt' = SymbolFields /\ nxt'.s = name /\ nxt'.room = room /\ cur' = cur
    BY <1>3, <1>10, Zenon DEF RoomInv, Symbol, SymbolFields, symVars, room
  <2>2. Enough(at', Len(name), room)
    BY <1>3, <1>4, <1>5, EnoughAnywhere, Zenon
  <2> QED
    BY <2>1, <2>2, <1>3, <1>5, NextChanged, Zenon
<1> QED
  BY <1>9, <1>10, Zenon DEF Name, name

\* Documentation is collected with room for a character before each of them.
LEMMA AfterDocumentation ==
  ASSUME RoomInv, DocumentationText \/ DocumentationLine
  PROVE  RoomInv'
<1> DEFINE room == Room(Len(nxt.s), nxt.room)
<1>1. IsSequence(nxt.s) /\ Len(nxt.s) \in Nat /\ nxt.room \in Nat /\ BUFSIZE <= nxt.room
  BY SymbolLength, Zenon DEF RoomInv, Symbol
<1>2. room \in Nat /\ BUFSIZE <= room /\ Len(nxt.s) + U_MAXLEN <= room
  BY <1>1, RoomSuffices, Zenon
<1> HIDE DEF room
<1>3. CASE DocumentationText
  <2> DEFINE value == IF source.v = End THEN nxt.s ELSE Append(nxt.s, source.v)
  <2>1. /\ DOMAIN nxt' = SymbolFields /\ nxt'.s = value /\ nxt'.room = room
        /\ cur' = cur /\ at' = "documentation"
    BY <1>3, Zenon DEF DocumentationText, RoomInv, Symbol, SymbolFields, symVars, room
  <2>2. IsSequence(value) /\ Len(value) \in Nat /\ Len(value) <= Len(nxt.s) + 1
    <3>1. IsSequence(Append(nxt.s, source.v)) /\ Len(Append(nxt.s, source.v)) = Len(nxt.s) + 1
      BY <1>1, Appended, Zenon
    <3> QED
      BY <3>1, <1>1
  <2> HIDE DEF value
  <2>3. Len(value) <= room
    BY <2>2, <1>1, <1>2, RoomAssumption
  <2>4. Enough(at', Len(value), room)
    BY <2>1, <2>3 DEF Enough
  <2> QED
    BY <2>1, <2>2, <2>4, <1>2, NextChanged, Zenon
<1>4. CASE DocumentationLine
  <2>1. DOMAIN nxt' = SymbolFields /\ nxt'.s = nxt.s /\ nxt'.room = room /\ cur' = cur
    BY <1>4, Zenon DEF DocumentationLine, RoomInv, Symbol, SymbolFields, symVars, room
  <2>2. Enough(at', Len(nxt.s), room)
    BY <1>1, <1>2, EnoughAnywhere, Zenon
  <2> QED
    BY <2>1, <2>2, <1>1, <1>2, NextChanged, Zenon
<1> QED
  BY <1>3, <1>4

\* After a line of documentation, another one continues the symbol.
LEMMA AfterDocumentationEnd ==
  ASSUME RoomInv, DocumentationEnd
  PROVE  RoomInv'
<1>1. IsSequence(nxt.s) /\ Len(nxt.s) \in Nat /\ nxt.room \in Nat
  BY SymbolLength, Zenon DEF RoomInv, Symbol
<1>2. at = "documentationEnd" /\ at # "name"
  BY DEF DocumentationEnd
<1>3. Len(nxt.s) + U_MAXLEN <= nxt.room
  BY <1>2 DEF RoomInv, Enough
<1>4. Len(nxt.s) < nxt.room /\ \A place : Enough(place, Len(nxt.s), nxt.room)
  BY <1>1, <1>3, EnoughAnywhere, Zenon
<1> DEFINE more == Append(nxt.s, LF)
<1>5. IsSequence(more) /\ Len(more) = Len(nxt.s) + 1
  BY <1>1, Appended, Zenon
<1> HIDE DEF more
<1>6. Enough("hashes", Len(more), nxt.room)
  BY <1>1, <1>3, <1>5, RoomAssumption DEF Enough
<1>7. \/ \E place, locals, s : Continues(place, locals, nxt.s, s)
      \/ \E s : Yields("documentation", nxt.s, s)
      \/ \E locals, s : Continues("hashes", locals, more, s)
  BY Zenon DEF DocumentationEnd, more
<1> QED
  BY <1>1, <1>2, <1>4, <1>5, <1>6, <1>7, AfterContinues, AfterYields, Zenon

\* The end of a literal, or a quote inside it.
LEMMA AfterLiteral ==
  ASSUME RoomInv, LiteralText \/ LiteralQuote \/ LiteralLine
  PROVE  RoomInv'
<1>1. IsSequence(nxt.s) /\ Len(nxt.s) \in Nat /\ nxt.room \in Nat
  BY SymbolLength, Zenon DEF RoomInv, Symbol
<1>2. at = "literal" /\ at # "name"
  BY DEF LiteralText, LiteralQuote, LiteralLine
<1>3. Len(nxt.s) + U_MAXLEN <= nxt.room
  BY <1>2 DEF RoomInv, Enough
<1>4. Len(nxt.s) < nxt.room
  BY <1>1, <1>3, EnoughAnywhere, Zenon
<1>5. TwoQuotesBefore => IsSequence(Front(nxt.s, 2)) /\ Len(Front(nxt.s, 2)) < nxt.room
  <2> SUFFICES ASSUME TwoQuotesBefore
               PROVE  IsSequence(Front(nxt.s, 2)) /\ Len(Front(nxt.s, 2)) < nxt.room
    OBVIOUS
  <2>1. 2 \in Nat /\ 2 <= Len(nxt.s)
    BY <1>1 DEF TwoQuotesBefore
  <2>2. IsSequence(Front(nxt.s, 2)) /\ Len(Front(nxt.s, 2)) = Len(nxt.s) - 2
    BY <1>1, <2>1, FrontOf, Zenon
  <2> QED
    BY <2>2, <1>1, <1>4
<1>6. \/ \E c : AddToLiteral(c)
      \/ \E s : Yields("literal", nxt.s, s)
      \/ TwoQuotesBefore /\ \E s : Yields("literal", Front(nxt.s, 2), s)
  BY Zenon DEF LiteralText, LiteralQuote, LiteralLine
<1> QED
  BY <1>1, <1>2, <1>4, <1>5, <1>6, AfterAddToLiteral, AfterYields, Zenon

\* Where the symbol stays as it was, or has no character yet.
LEMMA AfterOthers ==
  ASSUME RoomInv, Blank \/ EndOfText \/ SingleSymbol \/ Combining \/ FollowAnnotation
                    \/ Hash \/ OpenQuote \/ OpenName
  PROVE  RoomInv'
<1>1. at # "name"
  BY DEF Blank, EndOfText, SingleSymbol, Combining, FollowAnnotation, Hash, OpenQuote, OpenName
<1>2. \/ \E sym, s : Yields(sym, <<>>, s)
      \/ \E place, locals, s : Continues(place, locals, <<>>, s)
  <2>1. CASE Blank
    BY <2>1, Zenon DEF Blank
  <2>2. CASE EndOfText
    BY <2>2, Zenon DEF EndOfText
  <2>3. CASE SingleSymbol
    BY <2>3, Zenon DEF SingleSymbol
  <2>4. CASE Combining
    BY <2>4, Zenon DEF Combining
  <2>5. CASE FollowAnnotation
    BY <2>5, Zenon DEF FollowAnnotation
  <2>6. CASE Hash
    BY <2>6, Zenon DEF Hash
  <2>7. CASE OpenQuote
    BY <2>7, Zenon DEF OpenQuote
  <2>8. CASE OpenName
    BY <2>8, Zenon DEF OpenName
  <2> QED
    BY <2>1, <2>2, <2>3, <2>4, <2>5, <2>6, <2>7, <2>8
<1> QED
  BY <1>1, <1>2, WithNone, AfterContinues, AfterYields, Zenon

LEMMA AfterComment ==
  ASSUME RoomInv, Comment
  PROVE  RoomInv'
<1>1. at # "name" /\ Len(nxt.s) < nxt.room /\ IsSequence(nxt.s)
  BY DEF Comment, RoomInv, Enough, Symbol
<1>2. Enough("comment", Len(nxt.s), nxt.room) /\ Enough("scan", Len(nxt.s), nxt.room)
  BY <1>1 DEF Enough
<1>3. \/ \E locals, s : Continues("comment", locals, nxt.s, s)
      \/ \E locals, s : Continues("scan", locals, nxt.s, s)
      \/ \E s : Yields("documentation", nxt.s, s)
  BY Zenon DEF Comment
<1> QED
  BY <1>1, <1>2, <1>3, AfterContinues, AfterYields, Zenon

LEMMA AfterHashes ==
  ASSUME RoomInv, Hashes
  PROVE  RoomInv'
<1>1. Len(nxt.s) <= nxt.room /\ IsSequence(nxt.s)
  BY DEF Hashes, RoomInv, Enough, Symbol
<1>2. Enough("hashes", Len(nxt.s), nxt.room) /\ Enough("documentation", Len(nxt.s), nxt.room)
  BY <1>1 DEF Enough
<1>3. \/ \E locals, s : Continues("hashes", locals, nxt.s, s)
      \/ \E locals, s : Continues("documentation", locals, nxt.s, s)
  BY Zenon DEF Hashes
<1> QED
  BY <1>1, <1>2, <1>3, AfterContinues, Zenon

-----------------------------------------------------------------------------
(* The steps of getsym. *)

\* The two symbols are exchanged.
LEMMA AfterExchange ==
  ASSUME RoomInv, at \in {"idle", "returned"}, cur' = nxt, nxt' = [cur EXCEPT !.s = <<>>], at' = "scan"
  PROVE  RoomInv'
<1> DEFINE d == [cur EXCEPT !.s = <<>>]
<1>1. Symbol(d) /\ Len(d.s) \in Nat /\ Len(d.s) + U_MAXLEN <= d.room
  BY Emptied, Zenon DEF RoomInv
<1> HIDE DEF d
<1>2. d.room \in Nat
  BY <1>1, SymbolLength, Zenon
<1>3. Enough("scan", Len(d.s), d.room)
  BY <1>1, <1>2, EnoughAnywhere, Zenon
<1>4. Symbol(nxt) /\ Len(nxt.s) < nxt.room
  BY DEF RoomInv, Enough
<1>5. nxt' = d
  BY Zenon DEF d
<1>6. Symbol(cur') /\ Len(cur'.s) < cur'.room /\ Symbol(nxt') /\ Enough(at', Len(nxt'.s), nxt'.room)
  BY <1>1, <1>3, <1>4, <1>5, Zenon
<1> QED
  BY <1>6, Zenon DEF RoomInv, Symbol, Enough

\* The next symbol is fetched again, and the current one may have been joined with it.
LEMMA AfterRefill ==
  ASSUME RoomInv, NEW place, NEW joined, Refill(place, joined), Symbol(joined), Len(joined.s) < joined.room
  PROVE  RoomInv'
<1> DEFINE d == [nxt EXCEPT !.s = <<>>]
<1>1. Symbol(d) /\ Len(d.s) \in Nat /\ Len(d.s) + U_MAXLEN <= d.room
  BY Emptied, Zenon DEF RoomInv
<1>2. nxt' = d /\ cur' = joined /\ at' = "scan"
  BY Zenon DEF Refill
<1> HIDE DEF d
<1>3. d.room \in Nat
  BY <1>1, SymbolLength, Zenon
<1>4. Enough("scan", Len(d.s), d.room)
  BY <1>1, <1>3, EnoughAnywhere, Zenon
<1>5. Symbol(cur') /\ Len(cur'.s) < cur'.room /\ Symbol(nxt') /\ Enough(at', Len(nxt'.s), nxt'.room)
  BY <1>1, <1>2, <1>4, Zenon
<1> QED
  BY <1>5, Zenon DEF RoomInv, Symbol, Enough

\* The symbols stay as they are, and none is being read.
LEMMA AfterStays ==
  ASSUME RoomInv, at = "returned", cur' = cur, nxt' = nxt, at' \in {"idle", "returned"}
  PROVE  RoomInv'
<1>1. Len(nxt.s) < nxt.room
  BY DEF RoomInv, Enough
<1>2. Enough(at', Len(nxt.s), nxt.room)
  BY <1>1 DEF Enough
<1> QED
  BY <1>2, Zenon DEF RoomInv, Symbol, Enough

LEMMA RoomForBoth ==
  ASSUME NEW a \in Nat, NEW b \in Nat, NEW room \in Nat, BUFSIZE <= room
  PROVE  LET both == Max2(room, a + b + 1)
         IN  both \in Nat /\ BUFSIZE <= both /\ a + b < both
BY RoomAssumption DEF Max2

\* A literal gets the room of both, and of one end.
LEMMA AfterJoin ==
  ASSUME RoomInv, Join
  PROVE  RoomInv'
<1>1. at = "returned"
  BY DEF Join, In
<1>2. CASE nxt.sym # "literal"
  <2>1. cur' = cur /\ nxt' = nxt /\ at' = "idle"
    BY <1>2, Zenon DEF Join, Returns
  <2> QED
    BY <2>1, <1>1, AfterStays
<1>3. CASE nxt.sym = "literal"
  <2> DEFINE joined == [cur EXCEPT !.s = @ \o nxt.s, !.room = Max2(@, Len(cur.s) + Len(nxt.s) + 1)]
             room   == Max2(cur.room, Len(cur.s) + Len(nxt.s) + 1)
  <2>1. Refill("getsym", joined)
    BY <1>3, Zenon DEF Join
  <2>2. DOMAIN joined = SymbolFields /\ joined.s = cur.s \o nxt.s /\ joined.room = room
    BY Zenon DEF RoomInv, Symbol, SymbolFields
  <2> HIDE DEF joined
  <2>3. /\ Len(cur.s) \in Nat /\ Len(nxt.s) \in Nat /\ cur.room \in Nat /\ BUFSIZE <= cur.room
        /\ IsSequence(cur.s) /\ IsSequence(nxt.s)
    BY SymbolLength, Zenon DEF RoomInv, Symbol
  <2>4. IsSequence(cur.s \o nxt.s) /\ Len(cur.s \o nxt.s) = Len(cur.s) + Len(nxt.s)
    BY <2>3, Joined, Zenon
  <2>5. room \in Nat /\ BUFSIZE <= room /\ Len(cur.s) + Len(nxt.s) < room
    BY <2>3, RoomForBoth, Zenon
  <2> HIDE DEF room
  <2>6. Symbol(joined) /\ Len(joined.s) < joined.room
    BY <2>2, <2>4, <2>5, Zenon DEF Symbol
  <2> QED
    BY <2>1, <2>6, AfterRefill, Zenon
<1> QED
  BY <1>2, <1>3

LEMMA AfterGetting ==
  ASSUME RoomInv, Getting
  PROVE  RoomInv'
<1>1. at = "returned"
  BY DEF Getting, SkipDocumentation, Follow, EnterAnnotation, SkipAnnotation, LeaveAnnotation,
         Concatenate, Join, Deliver, In
<1>2. ASSUME NEW place, NEW frames, Advance(place, frames)
      PROVE  RoomInv'
  <2>1. cur' = nxt /\ nxt' = [cur EXCEPT !.s = <<>>] /\ at' = "scan"
    BY <1>2, Zenon DEF Advance
  <2> QED
    BY <1>1, <2>1, AfterExchange
<1>3. ASSUME NEW place, NEW frames, NEW s, Stays(place, frames, s)
      PROVE  RoomInv'
  BY <1>1, <1>3, AfterStays DEF Stays
<1>4. CASE SkipDocumentation
  BY <1>2, <1>4, Zenon DEF SkipDocumentation
<1>5. CASE Follow
  BY <1>2, <1>3, <1>5, Zenon DEF Follow
<1>6. CASE EnterAnnotation
  BY <1>2, <1>3, <1>6, Zenon DEF EnterAnnotation
<1>7. CASE SkipAnnotation
  BY <1>2, <1>7, Zenon DEF SkipAnnotation
<1>8. CASE LeaveAnnotation
  BY <1>3, <1>8, Zenon DEF LeaveAnnotation
<1>9. CASE Concatenate
  <2>1. Refill("concat", cur) /\ Symbol(cur) /\ Len(cur.s) < cur.room
    BY <1>9, Zenon DEF Concatenate, RoomInv
  <2> QED
    BY <2>1, AfterRefill, Zenon
<1>10. CASE Join
  BY <1>10, AfterJoin
<1>11. CASE Deliver
  <2>1. cur' = cur /\ nxt' = nxt /\ at' = "idle"
    BY <1>11, Zenon DEF Deliver, Returns
  <2> QED
    BY <2>1, <1>1, AfterStays
<1> QED
  BY <1>4, <1>5, <1>6, <1>7, <1>8, <1>9, <1>10, <1>11 DEF Getting

-----------------------------------------------------------------------------
LEMMA InitRoom == Init => RoomInv
<1> SUFFICES ASSUME Init PROVE RoomInv
  OBVIOUS
<1>1. /\ DOMAIN cur = SymbolFields /\ cur.s = <<>> /\ cur.room = BUFSIZE
      /\ nxt = cur
  BY Zenon DEF Init, SymbolFields
<1>2. BUFSIZE \in Nat /\ BUFSIZE <= BUFSIZE
  BY RoomAssumption
<1>3. Symbol(cur)
  BY <1>1, <1>2, EmptySequence, Zenon DEF Symbol
<1>4. Len(<<>>) \in Nat /\ Len(<<>>) + U_MAXLEN <= BUFSIZE
  BY <1>2, EnoughForNone, Zenon
<1>5. Enough(at, Len(<<>>), BUFSIZE) /\ Len(<<>>) < BUFSIZE
  BY <1>2, <1>4, EnoughAnywhere, Zenon
<1> QED
  BY <1>1, <1>3, <1>5, Zenon DEF RoomInv

LEMMA NextRoom == RoomInv /\ [Next]_vars => RoomInv'
<1> SUFFICES ASSUME RoomInv, [Next]_vars PROVE RoomInv'
  OBVIOUS
<1>1. CASE Advancing
  BY <1>1, AfterName, AfterDocumentation, AfterDocumentationEnd, AfterLiteral, AfterOthers,
     AfterComment, AfterHashes DEF Advancing
<1>2. CASE Getting
  BY <1>2, AfterGetting
<1>3. CASE Getsym
  <2>1. at = "idle" /\ cur' = nxt /\ nxt' = [cur EXCEPT !.s = <<>>] /\ at' = "scan"
    BY <1>3, Zenon DEF Getsym
  <2> QED
    BY <2>1, AfterExchange
<1>4. CASE UNCHANGED vars
  BY <1>4, Zenon DEF vars, RoomInv, Symbol, Enough
<1> QED
  BY <1>1, <1>2, <1>3, <1>4 DEF Next

LEMMA RoomInvSuffices == RoomInv => RoomForSymbol
<1> SUFFICES ASSUME RoomInv PROVE RoomForSymbol
  OBVIOUS
<1>1. Len(nxt.s) \in Nat /\ nxt.room \in Nat
  BY SymbolLength, Zenon DEF RoomInv
<1> QED
  BY <1>1, RoomAssumption DEF RoomInv, Enough, RoomForSymbol

\* However long the names, the literals, the documentation and the literals joined by ~ of
\* a schema are: nothing of a symbol is written outside the buffer allocated for it
\* (rnc.c 344-584).
THEOREM RoomIsEnough == Spec => []RoomForSymbol
<1>1. Init => RoomInv
  BY InitRoom
<1>2. RoomInv /\ [Next]_vars => RoomInv'
  BY NextRoom
<1>3. RoomInv => RoomForSymbol
  BY RoomInvSuffices
<1> QED
  BY <1>1, <1>2, <1>3, PTL DEF Spec

-----------------------------------------------------------------------------
(* Errors. *)

SourceFields == {"i", "u", "v", "nx", "w", "line", "prevline", "failed", "said"}

\* The errors said so far, the line of the last one and the line that is read.
Told(line, prevline, failed, said) ==
  /\ line \in Nat /\ prevline \in Int /\ prevline <= line
  /\ failed = (said # {})
  /\ said = {} => prevline < 0
  /\ \A e \in said : e.line \in Int /\ e.line <= prevline
  /\ \A a, b \in said : a.line = b.line => a = b

Spoken(s) ==
  /\ DOMAIN s = SourceFields
  /\ s.i \in 1 .. Len(text) + 1
  /\ s.nx \in Int
  /\ Told(s.line, s.prevline, s.failed, s.said)

\* The inductive invariant.
SourceInv == Len(text) \in Nat /\ Spoken(source)

LEMMA OnlyIs == \A x : Only({x}) = x
BY Zenon DEF Only

\* An error more, said of the line that is read unless one was.
LEMMA ToldMore ==
  ASSUME NEW line, NEW prevline, NEW failed, NEW said, Told(line, prevline, failed, said),
         NEW e, e.line = line
  PROVE  Told(line, line, TRUE, IF line = prevline THEN said ELSE said \cup {e})
<1>1. CASE line = prevline
  <2>1. said # {}
    BY <1>1 DEF Told
  <2> QED
    BY <1>1, <2>1 DEF Told
<1>2. CASE line # prevline
  <2>1. \A a \in said : a.line \in Int /\ a.line < line
    BY <1>2 DEF Told
  <2>2. \A a, b \in said \cup {e} : a.line = b.line => a = b
    BY <2>1 DEF Told
  <2> QED
    BY <1>2, <2>1, <2>2 DEF Told
<1> QED
  BY <1>1, <1>2

LEMMA ReportKeeps ==
  ASSUME NEW s, Spoken(s), NEW code
  PROVE  LET t == Report(s, code)
         IN  Spoken(t) /\ t.i = s.i /\ t.u = s.u /\ t.nx = s.nx
<1> DEFINE e == [line |-> s.line, code |-> code]
           t == Report(s, code)
<1>1. e.line = s.line
  OBVIOUS
<1>2. /\ DOMAIN t = SourceFields /\ t.i = s.i /\ t.u = s.u /\ t.nx = s.nx
      /\ t.line = s.line /\ t.prevline = s.line /\ t.failed = TRUE
      /\ t.said = IF s.line = s.prevline THEN s.said ELSE s.said \cup {e}
  BY Zenon DEF Report, Spoken, SourceFields
<1> HIDE DEF t, e
<1>3. Told(t.line, t.prevline, t.failed, t.said)
  <2>1. Told(s.line, s.prevline, s.failed, s.said)
    BY Zenon DEF Spoken
  <2>2. Told(s.line, s.line, TRUE, IF s.line = s.prevline THEN s.said ELSE s.said \cup {e})
    BY <1>1, <2>1, ToldMore
  <2> QED
    BY <1>2, <2>2, Zenon
<1>4. Spoken(t)
  BY <1>2, <1>3, Zenon DEF Spoken
<1> QED
  BY <1>2, <1>4, Zenon DEF t

-----------------------------------------------------------------------------
(* Characters. *)

LEMMA NextCharIs ==
  ASSUME Len(text) \in Nat, NEW i \in 1 .. Len(text) + 1
  PROVE  NextChar(i) \in i .. Len(text) + 1
<1> DEFINE T == {j \in i .. Len(text) + 1 : j <= Len(text) => text[j] # Invalid}
<1>1. T \in SUBSET Nat
  OBVIOUS
<1>2. Len(text) + 1 \in i .. Len(text) + 1 /\ ~ (Len(text) + 1 <= Len(text))
  OBVIOUS
<1>3. T # {}
  BY <1>2
<1>4. PICK j \in T : \A k \in T : j <= k
  <2> HIDE DEF T
  <2> QED
    BY <1>1, <1>3, LeastNatural, Zenon
<1>5. \A k \in i .. j - 1 : text[k] = Invalid
  BY <1>4
<1>6. \E k \in i .. Len(text) + 1 :
        /\ k <= Len(text) => text[k] # Invalid
        /\ \A m \in i .. k - 1 : text[m] = Invalid
  BY <1>4, <1>5
<1> QED
  BY <1>6, Zenon DEF NextChar

LEMMA SkipKeeps ==
  ASSUME NEW s, Spoken(s), NEW j \in 1 .. Len(text) + 1
  PROVE  Spoken(SkipTo(s, j)) /\ SkipTo(s, j).i = j /\ SkipTo(s, j).u = s.u /\ SkipTo(s, j).nx = s.nx
<1> DEFINE r == IF j = s.i THEN s ELSE Report(s, "UTF")
           t == SkipTo(s, j)
<1>1. Spoken(r) /\ r.u = s.u /\ r.nx = s.nx
  BY ReportKeeps, Zenon
<1> HIDE DEF r
<1>2. /\ DOMAIN t = SourceFields /\ t.i = j /\ t.u = s.u /\ t.nx = s.nx
      /\ t.line = r.line /\ t.prevline = r.prevline /\ t.failed = r.failed /\ t.said = r.said
  BY <1>1, Zenon DEF SkipTo, r, Spoken, SourceFields
<1>3. Spoken(t)
  BY <1>1, <1>2, Zenon DEF Spoken
<1> QED
  BY <1>2, <1>3, Zenon

LEMMA NextLine ==
  ASSUME NEW line, NEW prevline, NEW failed, NEW said, Told(line, prevline, failed, said)
  PROVE  Told(line + 1, prevline, failed, said)
BY DEF Told

\* A character is taken, or the end of the text counts as one.
LEMMA TakeOrEndKeeps ==
  ASSUME Len(text) \in Nat, NEW s, Spoken(s)
  PROVE  LET t == TakeOrEnd(s)
         IN  /\ Spoken(t) /\ t.nx = s.nx
             /\ s.i <= Len(text) => t.i = s.i + 1
             /\ s.i = Len(text) + 1 => t.i = s.i /\ t.u \in {LF, End}
<1> DEFINE t == TakeOrEnd(s)
<1>1. CASE s.i > Len(text)
  <2>1. /\ DOMAIN t = SourceFields /\ t.i = s.i /\ t.u \in {LF, End} /\ t.nx = s.nx
        /\ t.line = s.line /\ t.prevline = s.prevline /\ t.failed = s.failed /\ t.said = s.said
    <3>1. t = [s EXCEPT !.u = IF s.u \in {LF, CR, End} THEN End ELSE LF]
      BY <1>1, Zenon DEF TakeOrEnd, AtEnd
    <3> HIDE DEF t
    <3> QED
      BY <3>1, Zenon DEF Spoken, SourceFields
  <2> HIDE DEF t
  <2>2. Spoken(t)
    BY <2>1, Zenon DEF Spoken
  <2>3. ~ (s.i <= Len(text))
    BY <1>1 DEF Spoken
  <2>4. /\ Spoken(t) /\ t.nx = s.nx
        /\ s.i <= Len(text) => t.i = s.i + 1
        /\ s.i = Len(text) + 1 => t.i = s.i /\ t.u \in {LF, End}
    BY <2>1, <2>2, <2>3, Zenon
  <2> QED
    BY <2>4, Zenon DEF t
<1>2. CASE ~ (s.i > Len(text))
  <2> DEFINE line == IF s.u \in {LF, CR} THEN s.line + 1 ELSE s.line
  <2>1. /\ DOMAIN t = SourceFields /\ t.i = s.i + 1 /\ t.nx = s.nx
        /\ t.line = line /\ t.prevline = s.prevline /\ t.failed = s.failed /\ t.said = s.said
    <3>1. t = [s EXCEPT !.u = text[s.i], !.i = @ + 1,
                        !.line = IF s.u \in {LF, CR} THEN @ + 1 ELSE @]
      BY <1>2, Zenon DEF TakeOrEnd, Take
    <3> HIDE DEF t
    <3> QED
      BY <3>1, Zenon DEF Spoken, SourceFields
  <2>2. Told(line, s.prevline, s.failed, s.said)
    BY NextLine, Zenon DEF Spoken
  <2> HIDE DEF t, line
  <2>3. s.i \in 1 .. Len(text) /\ s.i + 1 \in 1 .. Len(text) + 1 /\ s.i # Len(text) + 1
    BY <1>2 DEF Spoken
  <2>4. Spoken(t)
    BY <2>1, <2>2, <2>3, Zenon DEF Spoken
  <2>5. /\ Spoken(t) /\ t.nx = s.nx
        /\ s.i <= Len(text) => t.i = s.i + 1
        /\ s.i = Len(text) + 1 => t.i = s.i /\ t.u \in {LF, End}
    BY <2>1, <2>3, <2>4, Zenon
  <2> QED
    BY <2>5, Zenon DEF t
<1> QED
  BY <1>1, <1>2

LEMMA AfterReturnKeeps ==
  ASSUME Len(text) \in Nat, NEW s, Spoken(s)
  PROVE  LET t == AfterReturn(s)
         IN  /\ Spoken(t) /\ t.nx = s.nx
             /\ s.i <= Len(text) => t.i \in s.i + 1 .. Len(text) + 1
             /\ s.i = Len(text) + 1 => t.i = s.i /\ t.u \in {LF, End}
<1> DEFINE t == AfterReturn(s)
<1>1. s.i \in 1 .. Len(text) + 1
  BY DEF Spoken
<1>2. CASE ~ (s.u = CR /\ s.i <= Len(text) /\ text[s.i] = LF)
  <2>1. t = TakeOrEnd(s)
    BY <1>2, Zenon DEF AfterReturn
  <2>2. s.i <= Len(text) => s.i + 1 \in s.i + 1 .. Len(text) + 1
    BY <1>1
  <2> HIDE DEF t
  <2>3. /\ Spoken(t) /\ t.nx = s.nx
        /\ s.i <= Len(text) => t.i = s.i + 1
        /\ s.i = Len(text) + 1 => t.i = s.i /\ t.u \in {LF, End}
    BY <2>1, TakeOrEndKeeps, Zenon
  <2>4. /\ Spoken(t) /\ t.nx = s.nx
        /\ s.i <= Len(text) => t.i \in s.i + 1 .. Len(text) + 1
        /\ s.i = Len(text) + 1 => t.i = s.i /\ t.u \in {LF, End}
    BY <2>2, <2>3, Zenon
  <2> QED
    BY <2>4, Zenon DEF t
<1>3. CASE s.u = CR /\ s.i <= Len(text) /\ text[s.i] = LF
  <2> DEFINE passed == [s EXCEPT !.i = @ + 1, !.u = LF]
             j == NextChar(s.i + 1)
             skipped == SkipTo(passed, j)
  <2>1. s.i + 1 \in 1 .. Len(text) + 1 /\ s.i # Len(text) + 1
    BY <1>1, <1>3
  <2>2. /\ DOMAIN passed = SourceFields /\ passed.i = s.i + 1 /\ passed.nx = s.nx
        /\ passed.line = s.line /\ passed.prevline = s.prevline
        /\ passed.failed = s.failed /\ passed.said = s.said
    BY Zenon DEF Spoken, SourceFields
  <2>3. t = TakeOrEnd(skipped)
    <3>1. t = Only({TakeOrEnd(r) : r \in {skipped}})
      BY <1>3, Zenon DEF AfterReturn
    <3> HIDE DEF t, skipped
    <3>2. {TakeOrEnd(r) : r \in {skipped}} = {TakeOrEnd(skipped)}
      OBVIOUS
    <3> QED
      BY <3>1, <3>2, OnlyIs, Zenon
  <2>4. j \in s.i + 1 .. Len(text) + 1
    BY <2>1, NextCharIs
  <2> HIDE DEF t, passed, j
  <2>5. Spoken(passed)
    BY <2>1, <2>2, Zenon DEF Spoken
  <2>6. j \in 1 .. Len(text) + 1
    BY <1>1, <2>4
  <2>7. Spoken(skipped) /\ skipped.i = j /\ skipped.nx = s.nx
    BY <2>2, <2>5, <2>6, SkipKeeps, Zenon
  <2> HIDE DEF skipped
  <2>8. /\ Spoken(t) /\ t.nx = skipped.nx
        /\ skipped.i <= Len(text) => t.i = skipped.i + 1
        /\ skipped.i = Len(text) + 1 => t.i = skipped.i
    BY <2>3, <2>7, TakeOrEndKeeps, Zenon
  <2>9. t.i \in s.i + 1 .. Len(text) + 1
    BY <1>1, <2>4, <2>7, <2>8
  <2>10. /\ Spoken(t) /\ t.nx = s.nx
         /\ s.i <= Len(text) => t.i \in s.i + 1 .. Len(text) + 1
         /\ s.i = Len(text) + 1 => t.i = s.i /\ t.u \in {LF, End}
    BY <2>1, <2>7, <2>8, <2>9, Zenon
  <2> QED
    BY <2>10, Zenon DEF t
<1> QED
  BY <1>2, <1>3

\* getu moves on, and at the end of the text it gives the end of a line or of the text.
LEMMA GetuKeeps ==
  ASSUME Len(text) \in Nat, NEW s, Spoken(s)
  PROVE  LET t == getu(s)
         IN  /\ Spoken(t) /\ t.nx = s.nx
             /\ t.i = Len(text) + 1 \/ t.i >= s.i + 1
             /\ s.i = Len(text) + 1 => t.u \in {LF, End}
             /\ t.u \notin {LF, End} => t.i >= 2
             /\ s.i >= 2 => t.i >= 2
<1> DEFINE t == getu(s)
           j == NextChar(s.i)
           skipped == SkipTo(s, j)
<1>1. s.i \in 1 .. Len(text) + 1
  BY DEF Spoken
<1>2. t = AfterReturn(skipped)
  <2>1. t = Only({AfterReturn(r) : r \in {skipped}})
    BY Zenon DEF getu
  <2> HIDE DEF t, skipped
  <2>2. {AfterReturn(r) : r \in {skipped}} = {AfterReturn(skipped)}
    OBVIOUS
  <2> QED
    BY <2>1, <2>2, OnlyIs, Zenon
<1>3. j \in s.i .. Len(text) + 1
  BY <1>1, NextCharIs
<1> HIDE DEF t, j
<1>4. j \in 1 .. Len(text) + 1
  BY <1>1, <1>3
<1>5. Spoken(skipped) /\ skipped.i = j /\ skipped.nx = s.nx
  BY <1>4, SkipKeeps, Zenon
<1> HIDE DEF skipped
<1>6. /\ Spoken(t) /\ t.nx = s.nx
      /\ j <= Len(text) => t.i \in j + 1 .. Len(text) + 1
      /\ j = Len(text) + 1 => t.i = j /\ t.u \in {LF, End}
  BY <1>2, <1>5, AfterReturnKeeps, Zenon
<1>7. /\ t.i = Len(text) + 1 \/ t.i >= s.i + 1
      /\ s.i = Len(text) + 1 => t.u \in {LF, End}
      /\ t.u \notin {LF, End} => t.i >= 2
      /\ s.i >= 2 => t.i >= 2
  BY <1>1, <1>3, <1>6
<1>8. /\ Spoken(t) /\ t.nx = s.nx
      /\ t.i = Len(text) + 1 \/ t.i >= s.i + 1
      /\ s.i = Len(text) + 1 => t.u \in {LF, End}
      /\ t.u \notin {LF, End} => t.i >= 2
      /\ s.i >= 2 => t.i >= 2
  BY <1>6, <1>7, Zenon
<1> QED
  BY <1>8, Zenon DEF t

-----------------------------------------------------------------------------
(* Escapes. *)

\* The sources after so many characters: the function in Ahead.
Once(s) == Only({getu(t) : t \in {s}})

IsAhead(f, s, n) == f = [k \in 0 .. n |-> IF k = 0 THEN s ELSE Once(f[k - 1])]

LEMMA OnceIs ==
  ASSUME NEW s
  PROVE  Once(s) = getu(s)
<1>1. {getu(t) : t \in {s}} = {getu(s)}
  OBVIOUS
<1> QED
  BY <1>1, OnlyIs, Zenon DEF Once

LEMMA AheadExists ==
  ASSUME NEW s, NEW n \in Nat
  PROVE  \E f : IsAhead(f, s, n)
<1> DEFINE T == {m \in Nat : \E f : IsAhead(f, s, m)}
<1>1. 0 \in T
  <2> DEFINE f == [k \in 0 .. 0 |-> s]
  <2>1. \A k \in 0 .. 0 : k = 0
    OBVIOUS
  <2>2. IsAhead(f, s, 0)
    BY <2>1, Zenon DEF IsAhead
  <2> QED
    BY <2>2
<1>2. ASSUME NEW m \in Nat, m \in T
      PROVE  m + 1 \in T
  <2>1. PICK f : IsAhead(f, s, m)
    BY <1>2
  <2> DEFINE g == [k \in 0 .. m + 1 |-> IF k = m + 1 THEN Once(f[m]) ELSE f[k]]
             h == [k \in 0 .. m + 1 |-> IF k = 0 THEN s ELSE Once(g[k - 1])]
  <2>2. \A k \in 0 .. m : k \in 0 .. m + 1 /\ k # m + 1
    OBVIOUS
  <2>3. m + 1 \in 0 .. m + 1 /\ m + 1 # 0 /\ m + 1 - 1 = m /\ m \in 0 .. m
    OBVIOUS
  <2>4. \A k \in 0 .. m : g[k] = f[k]
    BY <2>2, Zenon
  <2>5. g[m + 1] = Once(f[m])
    BY <2>3, Zenon
  <2>6. \A k \in 0 .. m : f[k] = IF k = 0 THEN s ELSE Once(f[k - 1])
    BY <2>1, Zenon DEF IsAhead
  <2>7. DOMAIN g = 0 .. m + 1 /\ DOMAIN h = 0 .. m + 1
    OBVIOUS
  <2>8. \A k \in 0 .. m + 1 : h[k] = IF k = 0 THEN s ELSE Once(g[k - 1])
    OBVIOUS
  <2>9. g = [k \in 0 .. m + 1 |-> g[k]] /\ h = [k \in 0 .. m + 1 |-> h[k]]
    OBVIOUS
  <2> HIDE DEF g, h
  <2>10. ASSUME NEW k \in 0 .. m + 1
         PROVE  g[k] = h[k]
    <3>1. CASE k = m + 1
      <4>1. h[k] = Once(g[m])
        <5>1. k # 0 /\ k - 1 = m
          BY <3>1
        <5>2. h[k] = Once(g[k - 1])
          BY <2>8, <5>1, Zenon
        <5> QED
          BY <5>1, <5>2, Zenon
      <4>2. g[m] = f[m]
        BY <2>3, <2>4, Zenon
      <4> QED
        BY <2>5, <3>1, <4>1, <4>2, Zenon
    <3>2. CASE k # m + 1
      <4>1. k \in 0 .. m /\ (k # 0 => k - 1 \in 0 .. m)
        BY <3>2
      <4> QED
        BY <2>4, <2>6, <2>8, <4>1, Zenon
    <3> QED
      BY <3>1, <3>2
  <2>11. g = h
    BY <2>7, <2>9, <2>10, Zenon
  <2>12. IsAhead(g, s, m + 1)
    BY <2>11, Zenon DEF IsAhead, h
  <2> QED
    BY <2>12
<1>3. n \in T
  <2> HIDE DEF T
  <2> QED
    BY <1>1, <1>2, NaturalInduction
<1> QED
  BY <1>3

\* After n characters more, n places further on or at the end of the text.
LEMMA AheadKeeps ==
  ASSUME Len(text) \in Nat, NEW s, Spoken(s), s.i >= 2, NEW n \in Nat
  PROVE  LET t == Ahead(s, n)
         IN  /\ Spoken(t) /\ t.i >= 2
             /\ n >= Len(text) => t.u \in {LF, End}
<1> DEFINE Good(t, k) == /\ Spoken(t) /\ t.i >= 2
                         /\ t.i = Len(text) + 1 \/ t.i >= s.i + k
                         /\ k >= Len(text) => t.u \in {LF, End}
<1> DEFINE f == CHOOSE a : a = [k \in 0 .. n |-> IF k = 0 THEN s ELSE Only({getu(t) : t \in {a[k - 1]}})]
<1>1. f = [k \in 0 .. n |-> IF k = 0 THEN s ELSE Only({getu(t) : t \in {f[k - 1]}})]
  <2>1. \E a : a = [k \in 0 .. n |-> IF k = 0 THEN s ELSE Only({getu(t) : t \in {a[k - 1]}})]
    <3>1. PICK a : IsAhead(a, s, n)
      BY AheadExists, Zenon
    <3>2. a = [k \in 0 .. n |-> IF k = 0 THEN s ELSE Only({getu(t) : t \in {a[k - 1]}})]
      BY <3>1 DEF IsAhead, Once
    <3> QED
      BY <3>2, Zenon
  <2> QED
    BY <2>1, Zenon
<1>2. Ahead(s, n) = f[n]
  BY Zenon DEF Ahead
<1> HIDE DEF f
<1>3. \A k \in 0 .. n : f[k] = IF k = 0 THEN s ELSE Once(f[k - 1])
  BY <1>1, Zenon DEF Once
<1>4. \A k \in 0 .. n : k # 0 => f[k] = getu(f[k - 1])
  BY <1>3, OnceIs, Zenon
<1>5. s.i \in 2 .. Len(text) + 1
  BY DEF Spoken
<1> DEFINE T == {k \in Nat : k <= n => Good(f[k], k)}
<1>6. 0 \in T
  <2>1. f[0] = s
    <3>1. 0 \in 0 .. n
      OBVIOUS
    <3> QED
      BY <1>3, <3>1, Zenon
  <2>2. Good(s, 0)
    BY <1>5
  <2> QED
    BY <2>1, <2>2
<1>7. ASSUME NEW k \in Nat, k \in T
      PROVE  k + 1 \in T
  <2> SUFFICES ASSUME k + 1 <= n
               PROVE  Good(f[k + 1], k + 1)
    BY <1>7
  <2>1. Good(f[k], k)
    BY <1>7
  <2>2. k + 1 \in 0 .. n /\ k + 1 # 0 /\ k + 1 - 1 = k
    OBVIOUS
  <2>3. f[k + 1] = getu(f[k])
    <3>1. PICK m \in 0 .. n : m = k + 1
      BY <2>2, Zenon
    <3>2. m # 0 /\ m - 1 = k
      BY <3>1
    <3>3. f[m] = getu(f[m - 1])
      BY <1>4, <3>2, Zenon
    <3> QED
      BY <3>1, <3>2, <3>3, Zenon
  <2> DEFINE r == f[k]
             t == f[k + 1]
  <2>4. Spoken(r)
    BY <2>1
  <2>5. r.i \in 2 .. Len(text) + 1 /\ (r.i = Len(text) + 1 \/ r.i >= s.i + k)
    BY <2>1 DEF Spoken
  <2>6. /\ Spoken(t)
        /\ t.i = Len(text) + 1 \/ t.i >= r.i + 1
        /\ r.i = Len(text) + 1 => t.u \in {LF, End}
        /\ r.i >= 2 => t.i >= 2
    BY <2>3, <2>4, GetuKeeps, Zenon
  <2>7. t.i \in 1 .. Len(text) + 1
    BY <2>6 DEF Spoken
  <2> HIDE DEF r, t
  <2>8. t.i = Len(text) + 1 \/ t.i >= s.i + (k + 1)
    BY <1>5, <2>5, <2>6, <2>7
  <2>9. k + 1 >= Len(text) => t.u \in {LF, End}
    BY <1>5, <2>5, <2>6
  <2>10. t.i >= 2
    BY <2>5, <2>6
  <2>11. Good(t, k + 1)
    BY <2>6, <2>8, <2>9, <2>10, Zenon
  <2> QED
    BY <2>11, Zenon DEF t
<1>8. n \in T
  <2> HIDE DEF T
  <2> QED
    BY <1>6, <1>7, NaturalInduction
<1>9. Good(f[n], n)
  BY <1>8
<1> QED
  BY <1>2, <1>9

\* A run of characters that cannot be the end of the text ends.
LEMMA RunIs ==
  ASSUME Len(text) \in Nat, NEW s, Spoken(s), s.i >= 2, NEW set, LF \notin set, End \notin set
  PROVE  Run(s, set) \in Nat
<1> DEFINE T == {n \in 0 .. Len(text) : Ahead(s, n).u \notin set}
<1>1. T \in SUBSET Nat
  OBVIOUS
<1>2. Ahead(s, Len(text)).u \in {LF, End}
  <2>1. Len(text) >= Len(text)
    OBVIOUS
  <2> QED
    BY <2>1, AheadKeeps, Zenon
<1>3. Len(text) \in T
  BY <1>2
<1>4. PICK n \in T : \A k \in T : n <= k
  <2> HIDE DEF T
  <2> QED
    BY <1>1, <1>3, LeastNatural
<1>5. \A k \in 0 .. n - 1 : Ahead(s, k).u \in set
  BY <1>4
<1>6. \E m \in 0 .. Len(text) : /\ Ahead(s, m).u \notin set
                                /\ \A k \in 0 .. m - 1 : Ahead(s, k).u \in set
  BY <1>4, <1>5
<1>7. Run(s, set) \in 0 .. Len(text)
  BY <1>6, Zenon DEF Run
<1> QED
  BY <1>7

LEMMA EndsAreNoDigits == /\ LF \notin HexDigit /\ End \notin HexDigit
                         /\ LF \notin {"x"} /\ End \notin {"x"}
BY DEF LF, End, HexDigit

\* The assignments to the character that is read.
LEMMA ValueSet ==
  ASSUME NEW s, Spoken(s), NEW v, NEW w, NEW nx \in Int
  PROVE  /\ Spoken([s EXCEPT !.v = v])
         /\ Spoken([s EXCEPT !.v = v, !.w = w, !.nx = nx])
         /\ Spoken([s EXCEPT !.v = v, !.nx = nx])
<1> DEFINE Same(t, m) == /\ DOMAIN t = SourceFields /\ t.i = s.i /\ t.nx = m
                         /\ t.line = s.line /\ t.prevline = s.prevline
                         /\ t.failed = s.failed /\ t.said = s.said
<1>1. Same([s EXCEPT !.v = v], s.nx)
  BY Zenon DEF Spoken, SourceFields
<1>2. Same([s EXCEPT !.v = v, !.w = w, !.nx = nx], nx)
  BY Zenon DEF Spoken, SourceFields
<1>3. Same([s EXCEPT !.v = v, !.nx = nx], nx)
  BY Zenon DEF Spoken, SourceFields
<1>4. ASSUME NEW t, NEW m \in Int, Same(t, m)
      PROVE  Spoken(t)
  BY <1>4, Zenon DEF Spoken
<1>5. s.nx \in Int
  BY DEF Spoken
<1> HIDE DEF Same
<1> QED
  BY <1>1, <1>2, <1>3, <1>4, <1>5, Zenon

LEMMA HexDigitsKeep ==
  ASSUME Len(text) \in Nat, NEW s, Spoken(s), s.i >= 2
  PROVE  Spoken(HexDigits(s))
<1>1. Run(s, HexDigit) \in Nat
  BY RunIs, EndsAreNoDigits, Zenon
<1> DEFINE t == Ahead(s, Run(s, HexDigit))
<1>2. Spoken(t)
  BY <1>1, AheadKeeps, Zenon
<1> HIDE DEF t
<1>3. \A c : Spoken([t EXCEPT !.v = c])
  <2>1. 0 \in Int
    OBVIOUS
  <2> QED
    BY <1>2, <2>1, ValueSet, Zenon
<1>4. \A c : Spoken([Report(t, "XESC") EXCEPT !.v = c])
  <2>1. 0 \in Int
    OBVIOUS
  <2>2. Spoken(Report(t, "XESC"))
    BY <1>2, ReportKeeps, Zenon
  <2> QED
    BY <2>1, <2>2, ValueSet, Zenon
<1> DEFINE Ends(r, c) == IF r.u = "}" THEN [r EXCEPT !.v = CharOf(c)]
                         ELSE [Report(r, "XESC") EXCEPT !.v = CharOf(16 * c)]
<1> DEFINE code[k \in 0 .. Run(s, HexDigit)] ==
             IF k = 0 THEN 0 ELSE 16 * code[k - 1] + HexValue(Ahead(s, k - 1).u)
           c == code[Run(s, HexDigit)]
<1>5. HexDigits(s) = Only({Only({Ends(r, d) : d \in {c}}) : r \in {t}})
  BY Zenon DEF HexDigits, t
<1> HIDE DEF c
<1>6. Spoken(Ends(t, c))
  BY <1>3, <1>4, Zenon
<1> HIDE DEF Ends
<1>7. {Only({Ends(r, d) : d \in {c}}) : r \in {t}} = {Only({Ends(t, d) : d \in {c}})}
  OBVIOUS
<1>8. {Ends(t, d) : d \in {c}} = {Ends(t, c)}
  OBVIOUS
<1>9. HexDigits(s) = Only({Ends(t, d) : d \in {c}})
  BY <1>5, <1>7, OnlyIs, Zenon
<1>10. HexDigits(s) = Ends(t, c)
  BY <1>8, <1>9, OnlyIs, Zenon
<1> QED
  BY <1>6, <1>10, Zenon

LEMMA EscapeKeeps ==
  ASSUME Len(text) \in Nat, NEW s, Spoken(s), s.i >= 2
  PROVE  Spoken(Escape(s))
<1> DEFINE n == Run(s, {"x"})
           t == Ahead(s, n)
<1>1. n \in Nat
  BY RunIs, EndsAreNoDigits, Zenon
<1>2. Spoken(t) /\ t.i >= 2
  BY <1>1, AheadKeeps, Zenon
<1> DEFINE Ends(r) == IF r.u = "{" /\ n > 0 THEN Only({HexDigits(r2) : r2 \in {getu(r)}})
                      ELSE [r EXCEPT !.v = "\\", !.w = r.u, !.nx = n]
<1>3. Escape(s) = Only({Ends(r) : r \in {t}})
  BY Zenon DEF Escape
<1> HIDE DEF n, t
<1>4. Only({HexDigits(r2) : r2 \in {getu(t)}}) = HexDigits(getu(t))
  <2>1. {HexDigits(r2) : r2 \in {getu(t)}} = {HexDigits(getu(t))}
    OBVIOUS
  <2> QED
    BY <2>1, OnlyIs, Zenon
<1>5. Spoken(HexDigits(getu(t)))
  BY <1>2, GetuKeeps, HexDigitsKeep, Zenon
<1>6. Spoken([t EXCEPT !.v = "\\", !.w = t.u, !.nx = n])
  <2>1. n \in Int
    BY <1>1
  <2> QED
    BY <1>2, <2>1, ValueSet, Zenon
<1>7. Spoken(Ends(t))
  BY <1>4, <1>5, <1>6, Zenon
<1> HIDE DEF Ends
<1>8. {Ends(r) : r \in {t}} = {Ends(t)}
  OBVIOUS
<1>9. Escape(s) = Ends(t)
  BY <1>3, <1>8, OnlyIs, Zenon
<1> QED
  BY <1>7, <1>9, Zenon

LEMMA FreshKeeps ==
  ASSUME Len(text) \in Nat, NEW s, Spoken(s), s.u \notin {LF, End} => s.i >= 2
  PROVE  Spoken(Fresh(s))
<1>1. \A v : Spoken([s EXCEPT !.v = v])
  <2>1. 0 \in Int
    OBVIOUS
  <2> QED
    BY <2>1, ValueSet, Zenon
<1>2. s.u = "\\" => Spoken(Only({Escape(t) : t \in {getu(s)}}))
  <2> SUFFICES ASSUME s.u = "\\"
               PROVE  Spoken(Only({Escape(t) : t \in {getu(s)}}))
    OBVIOUS
  <2>1. s.i >= 2
    BY DEF LF, End
  <2>2. Spoken(Escape(getu(s)))
    BY <2>1, GetuKeeps, EscapeKeeps, Zenon
  <2>3. {Escape(t) : t \in {getu(s)}} = {Escape(getu(s))}
    OBVIOUS
  <2> QED
    BY <2>2, <2>3, OnlyIs, Zenon
<1> QED
  BY <1>1, <1>2, Zenon DEF Fresh

LEMMA GetvKeeps ==
  ASSUME Len(text) \in Nat, NEW s, Spoken(s)
  PROVE  Spoken(getv(s))
<1>1. s.nx \in Int /\ s.nx - 1 \in Int /\ -1 \in Int
  BY DEF Spoken
<1>2. \A v : Spoken([s EXCEPT !.v = v, !.nx = s.nx - 1]) /\ Spoken([s EXCEPT !.v = v, !.nx = -1])
  BY <1>1, ValueSet, Zenon
<1>3. Spoken(Only({Fresh(t) : t \in {getu(s)}}))
  <2>1. Spoken(Fresh(getu(s)))
    BY GetuKeeps, FreshKeeps, Zenon
  <2>2. {Fresh(t) : t \in {getu(s)}} = {Fresh(getu(s))}
    OBVIOUS
  <2> QED
    BY <2>1, <2>2, OnlyIs, Zenon
<1> QED
  BY <1>2, <1>3, Zenon DEF getv

-----------------------------------------------------------------------------
(* The steps: each makes the source from the one before by getv and error. *)

LEMMA AdvancingKeeps ==
  ASSUME SourceInv, Advancing
  PROVE  Spoken(source') /\ text' = text
<1>1. Spoken(source) /\ \A s : Spoken(s) => Spoken(getv(s))
  BY GetvKeeps, Zenon DEF SourceInv
<1>2. \A s, code : Spoken(s) => Spoken(Report(s, code))
  BY ReportKeeps, Zenon
<1>3. \A sym, value, s : Yields(sym, value, s) /\ Spoken(s) => Spoken(source') /\ text' = text
  <2>1. \A sym, value, s : Yields(sym, value, s) => source' = s /\ text' = text
    BY Zenon DEF Yields, symVars
  <2> QED
    BY <2>1, Zenon
<1>4. \A place, locals, value, s : Continues(place, locals, value, s) /\ Spoken(s) => Spoken(source') /\ text' = text
  <2>1. \A place, locals, value, s : Continues(place, locals, value, s) => source' = s /\ text' = text
    BY Zenon DEF Continues, symVars
  <2> QED
    BY <2>1, Zenon
<1>5. \A c : AddToLiteral(c) => Spoken(source') /\ text' = text
  <2>1. \A c : AddToLiteral(c) => source' = getv(source) /\ text' = text
    BY Zenon DEF AddToLiteral, symVars
  <2> QED
    BY <1>1, <2>1, Zenon
<1>6. CASE Blank
  BY <1>1, <1>4, <1>6, Zenon DEF Blank
<1>7. CASE EndOfText
  BY <1>1, <1>3, <1>7, Zenon DEF EndOfText
<1>8. CASE SingleSymbol
  BY <1>1, <1>3, <1>8, Zenon DEF SingleSymbol
<1>9. CASE Combining
  BY <1>1, <1>3, <1>9, Zenon DEF Combining
<1>10. CASE FollowAnnotation
  BY <1>1, <1>2, <1>3, <1>10, Zenon DEF FollowAnnotation
<1>11. CASE Hash
  BY <1>1, <1>4, <1>11, Zenon DEF Hash
<1>12. CASE Comment
  BY <1>1, <1>3, <1>4, <1>12, Zenon DEF Comment
<1>13. CASE Hashes
  BY <1>1, <1>4, <1>13, Zenon DEF Hashes
<1>14. CASE DocumentationText
  BY <1>1, <1>14, Zenon DEF DocumentationText, symVars
<1>15. CASE DocumentationLine
  BY <1>1, <1>15, Zenon DEF DocumentationLine, symVars
<1>16. CASE DocumentationEnd
  BY <1>1, <1>3, <1>4, <1>16, Zenon DEF DocumentationEnd
<1>17. CASE OpenQuote
  BY <1>1, <1>3, <1>4, <1>17, Zenon DEF OpenQuote
<1>18. CASE LiteralText
  BY <1>1, <1>5, <1>18, Zenon DEF LiteralText
<1>19. CASE LiteralQuote
  BY <1>1, <1>3, <1>5, <1>19, Zenon DEF LiteralQuote
<1>20. CASE LiteralLine
  BY <1>1, <1>2, <1>3, <1>5, <1>20, Zenon DEF LiteralLine
<1>21. CASE OpenName
  BY <1>1, <1>2, <1>4, <1>21, Zenon DEF OpenName
<1>22. CASE Name
  <2>1. \A name, s : YieldsName(name, s) => source' \in {s, getv(s)} /\ text' = text
    <3>1. \A sym, value, t : Yields(sym, value, t) => source' = t /\ text' = text
      BY Zenon DEF Yields, symVars
    <3> QED
      BY <3>1, Zenon DEF YieldsName
  <2> QED
    BY <1>1, <1>22, <2>1, Zenon DEF Name, symVars
<1> QED
  BY <1>6, <1>7, <1>8, <1>9, <1>10, <1>11, <1>12, <1>13, <1>14, <1>15, <1>16, <1>17, <1>18, <1>19,
     <1>20, <1>21, <1>22, Zenon DEF Advancing

LEMMA GettingKeeps ==
  ASSUME SourceInv, Getting \/ Getsym
  PROVE  Spoken(source') /\ text' = text
<1>1. Spoken(source) /\ \A code : Spoken(Report(source, code))
  BY ReportKeeps, Zenon DEF SourceInv
<1>2. \A place, frames : Advance(place, frames) => Spoken(source') /\ text' = text
  <2>1. \A place, frames : Advance(place, frames) => source' = source /\ text' = text
    BY Zenon DEF Advance
  <2> QED
    BY <1>1, <2>1, Zenon
<1>3. \A place, joined : Refill(place, joined) => Spoken(source') /\ text' = text
  <2>1. \A place, joined : Refill(place, joined) => source' = source /\ text' = text
    BY Zenon DEF Refill
  <2> QED
    BY <1>1, <2>1, Zenon
<1>4. \A place, frames, s : Stays(place, frames, s) /\ Spoken(s) => Spoken(source') /\ text' = text
  <2>1. \A place, frames, s : Stays(place, frames, s) => source' = s /\ text' = text
    BY Zenon DEF Stays
  <2> QED
    BY <2>1, Zenon
<1>5. \A s : Returns(s) /\ Spoken(s) => Spoken(source') /\ text' = text
  <2>1. \A s : Returns(s) => source' = s /\ text' = text
    BY Zenon DEF Returns
  <2> QED
    BY <2>1, Zenon
<1>6. CASE SkipDocumentation
  BY <1>1, <1>2, <1>6, Zenon DEF SkipDocumentation
<1>7. CASE Follow
  BY <1>1, <1>2, <1>4, <1>7, Zenon DEF Follow
<1>8. CASE EnterAnnotation
  BY <1>1, <1>2, <1>4, <1>8, Zenon DEF EnterAnnotation
<1>9. CASE SkipAnnotation
  BY <1>1, <1>2, <1>9, Zenon DEF SkipAnnotation
<1>10. CASE LeaveAnnotation
  BY <1>1, <1>4, <1>10, Zenon DEF LeaveAnnotation
<1>11. CASE Concatenate
  BY <1>1, <1>3, <1>11, Zenon DEF Concatenate
<1>12. CASE Join
  BY <1>1, <1>3, <1>5, <1>12, Zenon DEF Join
<1>13. CASE Deliver
  BY <1>1, <1>5, <1>13, Zenon DEF Deliver
<1>14. CASE Getsym
  BY <1>1, <1>14, Zenon DEF Getsym
<1> QED
  BY <1>6, <1>7, <1>8, <1>9, <1>10, <1>11, <1>12, <1>13, <1>14, Zenon DEF Getting

LEMMA InitSpoken == Init => SourceInv
<1> SUFFICES ASSUME Init PROVE SourceInv
  OBVIOUS
<1>1. /\ DOMAIN source = SourceFields /\ source.i = 1 /\ source.nx = -1
      /\ source.line = 1 /\ source.prevline = -1 /\ source.failed = FALSE /\ source.said = {}
  BY Zenon DEF Init, SourceFields
<1>2. Len(text) \in Nat
  BY TextsAssumption, Zenon DEF Init
<1>3. 1 \in 1 .. Len(text) + 1 /\ -1 \in Int
  BY <1>2
<1>4. Told(1, -1, FALSE, {})
  BY DEF Told
<1> QED
  BY <1>1, <1>2, <1>3, <1>4, Zenon DEF SourceInv, Spoken

LEMMA NextSpoken == SourceInv /\ [Next]_vars => SourceInv'
<1> SUFFICES ASSUME SourceInv, [Next]_vars PROVE SourceInv'
  OBVIOUS
<1>1. Spoken(source') /\ text' = text
  <2>1. CASE Advancing
    BY <2>1, AdvancingKeeps
  <2>2. CASE Getting \/ Getsym
    BY <2>2, GettingKeeps
  <2>3. CASE UNCHANGED vars
    BY <2>3, Zenon DEF vars, SourceInv
  <2> QED
    BY <2>1, <2>2, <2>3, Zenon DEF Next
<1> QED
  BY <1>1, Zenon DEF SourceInv, Spoken

\* However lines end, whatever is escaped, pushed back or invalid: an error is flagged
\* exactly if one is said, and no two are said of the same line (rnc.c 225).
THEOREM FaultsAreShown == Spec => []FaultsShown
<1>1. Init => SourceInv
  BY InitSpoken
<1>2. SourceInv /\ [Next]_vars => SourceInv'
  BY NextSpoken
<1>3. SourceInv => FaultsShown
  BY Zenon DEF SourceInv, Spoken, Told, FaultsShown
<1> QED
  BY <1>1, <1>2, <1>3, PTL DEF Spec
=============================================================================
