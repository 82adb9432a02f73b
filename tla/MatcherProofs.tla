---------------------------- MODULE MatcherProofs ----------------------------
(***************************************************************************)
(* Theorems about Matcher, for every set of calls and every size of the    *)
(* ring: what the memo of rx.c remembers is right, and with it the calls   *)
(* do what Matching says, where a derivative is one step; they answer what *)
(* the derivatives by all characters of the text say.                      *)
(***************************************************************************)
EXTENDS Matcher, Lemmas

Locs == {"idle", "aborted", "loop", "skip", "word", "tail", "loop.drv", "word.drv", "space.drv"}

\* The types of the variables of Matching.
MatchTypeOK ==
  /\ \A rx \in DOMAIN cache : cache[rx] \in Pattern
  /\ loc \in Locs
  /\ p \in Pattern
  /\ rest \in Seq(Char)
  /\ (Deriving \/ loc = "word") => u \in Char

Entries == [p : Pattern, c : Char, ret : Pattern]
Frames  == [p : Pattern, c : Char, got : Seq(Pattern), open : BOOLEAN]

\* RingAgrees, with the types of the ring; no entry has the pattern of an error.
RingInv ==
  /\ memo \in [Slots -> Entries]
  /\ table \subseteq Slots
  /\ i_m \in Slots
  /\ \A m \in table : memo[m].ret # RxError
  /\ RingAgrees

\* An open drv waits for the next part of its pattern, and fails if that fails.
FrameInv(i) ==
  /\ stack[i].c = u
  /\ stack[i].got \in Results(stack[i].p, u)
  /\ stack[i].open => stack[i].p # RxError
  /\ Derived(stack[i].p, u) = RxError => Derived(p, u) = RxError
  /\ i < Len(stack) =>
       /\ stack[i].open
       /\ NextPart(stack[i].p, stack[i].got) # NoPartLeft
       /\ stack[i + 1].p = NextPart(stack[i].p, stack[i].got)

StackInv ==
  /\ stack \in Seq(Frames)
  /\ stack # <<>> => Deriving /\ stack[1].p = p
  /\ \A i \in 1 .. Len(stack) : FrameInv(i)

IInv == MatchTypeOK /\ RingInv /\ StackInv

-----------------------------------------------------------------------------
LEMMA ShortSeqs ==
  ASSUME NEW S, NEW a, NEW b
  PROVE  /\ <<>> \in Seq(S)
         /\ a \in S => <<a>> \in Seq(S)
         /\ a \in S /\ b \in S => <<a, b>> \in Seq(S)
         /\ Append(<<>>, a) = <<a>>
         /\ Append(<<a>>, b) = <<a, b>>
         /\ Len(<<a, b>>) = 2
<1>1. <<>> \in Seq(S)
  OBVIOUS
<1>2. a \in S => <<a>> \in Seq(S)
  OBVIOUS
<1>3. a \in S /\ b \in S => <<a, b>> \in Seq(S)
  OBVIOUS
<1>4. Append(<<>>, a) = <<a>>
  OBVIOUS
<1>5. Append(<<a>>, b) = <<a, b>>
  <2>1. <<a>> \in Seq({a, b}) /\ <<a, b>> \in Seq({a, b})
    OBVIOUS
  <2>2. Append(<<a>>, b) \in Seq({a, b}) /\ Len(Append(<<a>>, b)) = 2
    BY <2>1
  <2>3. Append(<<a>>, b)[1] = a /\ Append(<<a>>, b)[2] = b
    BY <2>1
  <2>4. \A i \in 1 .. 2 : Append(<<a>>, b)[i] = <<a, b>>[i]
    BY <2>3
  <2> QED
    BY <2>1, <2>2, <2>4, SeqEqual
<1>6. Len(<<a, b>>) = 2
  OBVIOUS
<1> QED
  BY <1>1, <1>2, <1>3, <1>4, <1>5, <1>6

LEMMA FrontFacts ==
  ASSUME NEW S, NEW s \in Seq(S), s # <<>>
  PROVE  /\ Len(s) \in Nat \ {0}
         /\ s[Len(s)] \in S
         /\ SubSeq(s, 1, Len(s) - 1) \in Seq(S)
         /\ Len(SubSeq(s, 1, Len(s) - 1)) = Len(s) - 1
         /\ \A i \in 1 .. Len(s) - 1 : SubSeq(s, 1, Len(s) - 1)[i] = s[i]
<1>1. Len(s) \in Nat \ {0}
  BY EmptySeq
<1>2. \A i \in 1 .. Len(s) : s[i] \in S
  BY ElementOfSeq
<1> DEFINE n == Len(s) - 1
<1>3. n \in Int /\ \A i \in 1 .. n : s[i] \in S
  BY <1>1, <1>2
<1>4. /\ SubSeq(s, 1, n) \in Seq(S)
      /\ Len(SubSeq(s, 1, n)) = IF 1 <= n THEN n - 1 + 1 ELSE 0
      /\ \A i \in 1 .. n - 1 + 1 : SubSeq(s, 1, n)[i] = s[1 + i - 1]
  BY <1>3, SubSeqProperties
<1>5. \A i \in 1 .. n : i \in 1 .. n - 1 + 1 /\ 1 + i - 1 = i
  BY <1>1
<1>6. Len(SubSeq(s, 1, n)) = n
  <2> DEFINE m == Len(SubSeq(s, 1, n))
  <2>1. m = IF 1 <= n THEN n - 1 + 1 ELSE 0
    BY <1>4
  <2>2. n \in Nat
    BY <1>1
  <2> HIDE DEF m, n
  <2> QED
    BY <2>1, <2>2
<1>7. \A i \in 1 .. n : SubSeq(s, 1, n)[i] = s[i]
  BY <1>4, <1>5
<1>8. s[Len(s)] \in S
  BY <1>1, <1>2
<1>9. SubSeq(s, 1, n) \in Seq(S)
  BY <1>4
<1> QED
  BY <1>1, <1>6, <1>7, <1>8, <1>9

LEMMA Derivatives ==
  ASSUME NEW q \in Pattern, NEW c \in Char
  PROVE  Derived(q, c) \in Pattern
BY PatternsClosed

\* The results that drv has are those of at most two parts.
LEMMA ResultsTyped ==
  ASSUME NEW q \in Pattern, NEW c \in Char, q # RxError, NEW got \in Results(q, c)
  PROVE  got \in Seq(Pattern)
<1> DEFINE part1 == NextPart(q, <<>>)
           d1    == Derived(part1, c)
           part2 == NextPart(q, <<d1>>)
           d2    == Derived(part2, c)
<1>1. got = <<>> \/ (got = <<d1>> /\ part1 # NoPartLeft)
        \/ (got = <<d1, d2>> /\ part1 # NoPartLeft /\ part2 # NoPartLeft /\ <<d1>> \in Results(q, c))
  BY DEF Results
<1>2. ASSUME part1 # NoPartLeft PROVE d1 \in Pattern
  <2>1. <<>> \in Results(q, c)
    BY DEF Results
  <2>2. part1 \in Parts(q, c)
    BY <1>2, <2>1 DEF Parts
  <2>3. part1 \in Pattern
    BY <2>2, PatternsClosed
  <2> QED
    BY <2>3, Derivatives
<1>3. ASSUME part2 # NoPartLeft, <<d1>> \in Results(q, c) PROVE d2 \in Pattern
  <2>1. part2 \in Parts(q, c)
    BY <1>3 DEF Parts
  <2>2. part2 \in Pattern
    BY <2>1, PatternsClosed
  <2> QED
    BY <2>2, Derivatives
<1>4. <<>> \in Seq(Pattern)
        /\ (d1 \in Pattern => <<d1>> \in Seq(Pattern))
        /\ (d1 \in Pattern /\ d2 \in Pattern => <<d1, d2>> \in Seq(Pattern))
  BY ShortSeqs
<1> HIDE DEF part1, d1, part2, d2
<1> QED
  BY <1>1, <1>2, <1>3, <1>4

\* One more result, of the part that comes next.
LEMMA ResultsGrow ==
  ASSUME NEW q \in Pattern, NEW c \in Char, q # RxError, NEW got \in Results(q, c),
         NextPart(q, got) # NoPartLeft,
         Derived(NextPart(q, got), c) # RxError
  PROVE  Append(got, Derived(NextPart(q, got), c)) \in Results(q, c)
<1> DEFINE part1 == NextPart(q, <<>>)
           d1    == Derived(part1, c)
           part2 == NextPart(q, <<d1>>)
           d2    == Derived(part2, c)
<1>1. Len(got) < 2
  BY DerivedByParts
<1>5. /\ Append(<<>>, d1) = <<d1>>
      /\ Append(<<d1>>, d2) = <<d1, d2>>
      /\ Len(<<d1, d2>>) = 2
  BY ShortSeqs
<1>2. CASE got = <<>>
  <2>1. Append(got, Derived(NextPart(q, got), c)) = <<d1>>
    BY <1>2, <1>5
  <2> QED
    BY <1>2, <2>1 DEF Results
<1>3. CASE got = <<d1>> /\ part1 # NoPartLeft /\ d1 # RxError
  <2>1. Append(got, Derived(NextPart(q, got), c)) = <<d1, d2>>
    BY <1>3, <1>5
  <2>2. part2 # NoPartLeft /\ d2 # RxError
    BY <1>3
  <2> QED
    BY <1>3, <2>1, <2>2 DEF Results
<1>4. CASE got = <<d1, d2>>
  BY <1>1, <1>4, <1>5
<1> QED
  BY <1>2, <1>3, <1>4 DEF Results

LEMMA PartTyped ==
  ASSUME NEW q \in Pattern, NEW c \in Char, q # RxError, NEW got \in Results(q, c),
         NextPart(q, got) # NoPartLeft
  PROVE  /\ NextPart(q, got) \in Pattern
         /\ Derived(NextPart(q, got), c) = RxError => Derived(q, c) = RxError
<1>1. NextPart(q, got) \in Parts(q, c)
  BY DEF Parts
<1>2. NextPart(q, got) \in Pattern
  BY <1>1, PatternsClosed
<1>3. Derived(NextPart(q, got), c) = RxError => Derived(q, c) = RxError
  BY DerivedByParts
<1> QED
  BY <1>2, <1>3

LEMMA NoPartCombines ==
  ASSUME NEW q \in Pattern, NEW c \in Char, q # RxError, NEW got \in Results(q, c),
         NextPart(q, got) = NoPartLeft
  PROVE  Derived(q, c) = Combined(q, c, got) /\ Derived(q, c) # RxError
BY DerivedByParts

-----------------------------------------------------------------------------
(* The steps of Matching.                                                  *)

LEMMA ReadTyped ==
  ASSUME MatchTypeOK, rest # <<>>
  PROVE  Head(rest) \in Char /\ Tail(rest) \in Seq(Char)
<1>1. rest \in Seq(Char)
  BY DEF MatchTypeOK
<1> QED
  BY <1>1, HeadTailProperties

LEMMA ContinueTyped ==
  ASSUME MatchTypeOK, Deriving, NEW ret \in Pattern, Continue(ret)
  PROVE  MatchTypeOK'
<1>1. UNCHANGED cache /\ p' \in Pattern
  BY DEF Continue
<1>2. CASE loc = "loop.drv"
  BY <1>1, <1>2 DEF Continue, MatchTypeOK, Deriving, Locs, GoTo
<1>3. CASE loc = "space.drv"
  BY <1>1, <1>3 DEF Continue, MatchTypeOK, Deriving, Locs, GoTo
<1>4. CASE loc = "word.drv" /\ rest = <<>>
  BY <1>1, <1>4 DEF Continue, MatchTypeOK, Deriving, Locs, GoTo
<1>5. CASE loc = "word.drv" /\ rest # <<>>
  <2>1. loc' = "word" /\ u' = Head(rest) /\ rest' = Tail(rest)
    BY <1>5 DEF Continue, GoTo, Read
  <2>2. u' \in Char /\ rest' \in Seq(Char)
    BY <2>1, <1>5, ReadTyped
  <2> QED
    BY <1>1, <2>1, <2>2 DEF MatchTypeOK, Deriving, Locs
<1> QED
  BY <1>2, <1>3, <1>4, <1>5 DEF Deriving

LEMMA BeginTyped ==
  ASSUME MatchTypeOK, NEW c \in Calls, Begin(c)
  PROVE  MatchTypeOK'
<1>1. c.s \in Seq(Char)
  BY CallsTyped
<1>2. Compiled(c.rx).p \in Pattern
  BY PatternsClosed
<1>3. (\A rx \in DOMAIN cache' : cache'[rx] \in Pattern) /\ p' \in Pattern
  <2>1. CASE Recall(c.rx)
    BY <2>1 DEF Recall, MatchTypeOK
  <2>2. CASE CompileAnew(c.rx)
    BY <2>2, <1>2 DEF CompileAnew, MatchTypeOK
  <2> QED
    BY <2>1, <2>2 DEF Begin
<1>4. loc' \in {"idle", "loop", "skip"}
  <2>1. CASE c.fn = "check"
    BY <2>1 DEF Begin, Return
  <2>2. CASE c.fn # "check" /\ errors'
    BY <2>2 DEF Begin, Return
  <2>3. CASE c.fn # "check" /\ ~errors'
    BY <2>3 DEF Begin, GoTo
  <2> QED
    BY <2>1, <2>2, <2>3
<1>5. rest' = c.s
  BY DEF Begin
<1> QED
  BY <1>1, <1>3, <1>4, <1>5 DEF MatchTypeOK, Locs, Deriving

LEMMA LoopTyped ==
  ASSUME MatchTypeOK, Loop
  PROVE  MatchTypeOK'
<1>1. UNCHANGED <<cache, p>>
  BY DEF Loop
<1>2. CASE Return(p # RxNotAllowed /\ IsNullable(p)) /\ UNCHANGED <<u, rest>>
  BY <1>1, <1>2 DEF Return, MatchTypeOK, Locs, Deriving
<1>3. CASE /\ rest # <<>>
           /\ u' = (IF call.fn = "rmatch" /\ IsSpace(Head(rest)) THEN " " ELSE Head(rest))
           /\ rest' = Tail(rest)
           /\ GoTo("loop.drv")
  <2>1. Head(rest) \in Char /\ Tail(rest) \in Seq(Char)
    BY <1>3, ReadTyped
  <2>2. u' \in Char /\ rest' \in Seq(Char) /\ loc' = "loop.drv"
    BY <1>3, <2>1, CallsTyped DEF GoTo
  <2> QED
    BY <1>1, <2>2 DEF MatchTypeOK, Locs, Deriving
<1> QED
  BY <1>2, <1>3 DEF Loop

LEMMA SkipTyped ==
  ASSUME MatchTypeOK, Skip
  PROVE  MatchTypeOK'
<1>1. UNCHANGED <<cache, p>>
  BY DEF Skip
<1>2. CASE Return(IsNullable(p)) /\ UNCHANGED <<u, rest>>
  BY <1>1, <1>2 DEF Return, MatchTypeOK, Locs, Deriving
<1>3. CASE rest # <<>> /\ Read /\ GoTo(IF IsSpace(Head(rest)) THEN "skip" ELSE "word")
  <2>1. u' \in Char /\ rest' \in Seq(Char)
    BY <1>3, ReadTyped DEF Read
  <2>2. loc' \in {"skip", "word"}
    BY <1>3 DEF GoTo
  <2> QED
    BY <1>1, <2>1, <2>2 DEF MatchTypeOK, Locs, Deriving
<1> QED
  BY <1>2, <1>3 DEF Skip

LEMMA WordTyped ==
  ASSUME MatchTypeOK, Word
  PROVE  MatchTypeOK'
<1>1. UNCHANGED <<cache, p, rest>>
  BY DEF Word
<1>2. CASE p = RxNotAllowed
  BY <1>1, <1>2 DEF Word, Return, MatchTypeOK, Locs, Deriving
<1>3. CASE p # RxNotAllowed /\ IsSpace(u)
  <2>1. u' \in Char /\ loc' = "space.drv"
    BY <1>3, CallsTyped DEF Word, GoTo
  <2> QED
    BY <1>1, <2>1 DEF MatchTypeOK, Locs, Deriving
<1>4. CASE p # RxNotAllowed /\ ~IsSpace(u)
  <2>1. u' \in Char /\ loc' = "word.drv"
    BY <1>4 DEF Word, GoTo, MatchTypeOK
  <2> QED
    BY <1>1, <2>1 DEF MatchTypeOK, Locs, Deriving
<1> QED
  BY <1>2, <1>3, <1>4

LEMMA TrailingTyped ==
  ASSUME MatchTypeOK, Trailing
  PROVE  MatchTypeOK'
<1>1. UNCHANGED <<cache, p>>
  BY DEF Trailing
<1>2. CASE Return(TRUE) /\ UNCHANGED <<u, rest>>
  BY <1>1, <1>2 DEF Return, MatchTypeOK, Locs, Deriving
<1>3. CASE rest # <<>> /\ Read /\ (IF IsSpace(Head(rest)) THEN GoTo("tail") ELSE Return(FALSE))
  <2>1. rest' \in Seq(Char)
    BY <1>3, ReadTyped DEF Read
  <2>2. loc' \in {"tail", "idle"}
    BY <1>3 DEF GoTo, Return
  <2> QED
    BY <1>1, <2>1, <2>2 DEF MatchTypeOK, Locs, Deriving
<1> QED
  BY <1>2, <1>3 DEF Trailing

-----------------------------------------------------------------------------
(* The steps of drv.                                                       *)

\* The frame on top, when some drv is open.
LEMMA TopFacts ==
  ASSUME IInv, stack # <<>>
  PROVE  /\ Len(stack) \in Nat \ {0}
         /\ Top \in Frames /\ Top.p \in Pattern
         /\ Top.c = u /\ u \in Char
         /\ Deriving /\ stack[1].p = p
         /\ Top.got \in Results(Top.p, u)
         /\ Top.open => Top.p # RxError
         /\ Derived(Top.p, u) = RxError => Derived(p, u) = RxError
<1>1. stack \in Seq(Frames)
  BY DEF IInv, StackInv
<1>2. Len(stack) \in Nat \ {0} /\ stack[Len(stack)] \in Frames
  BY <1>1, FrontFacts
<1>3. FrameInv(Len(stack))
  BY <1>2 DEF IInv, StackInv
<1>4. Deriving /\ stack[1].p = p /\ u \in Char
  BY DEF IInv, StackInv, MatchTypeOK
<1> QED
  BY <1>2, <1>3, <1>4 DEF Top, FrameInv, Frames

LEMMA EmptyStack ==
  ASSUME stack' = <<>>
  PROVE  StackInv'
BY DEF StackInv

\* The right derivative is returned to the drv below, or to the loop.
LEMMA DeliverKeeps ==
  ASSUME IInv, stack # <<>>, Top.p # RxError,
         Derived(Top.p, u) # RxError,
         Deliver(Derived(Top.p, u))
  PROVE  MatchTypeOK' /\ StackInv' /\ [Next]_matchVars
<1> DEFINE n   == Len(stack)
           ret == Derived(Top.p, u)
<1>1. /\ n \in Nat \ {0} /\ Top.p \in Pattern /\ u \in Char
      /\ Deriving /\ stack[1].p = p
  BY TopFacts
<1>2. stack \in Seq(Frames)
  BY DEF IInv, StackInv
<1>3. /\ Below \in Seq(Frames) /\ Len(Below) = n - 1
      /\ \A i \in 1 .. n - 1 : Below[i] = stack[i]
  BY <1>2, FrontFacts DEF Below
<1>4. ret \in Pattern
  BY <1>1, Derivatives
<1>5. CASE Below = <<>>
  <2>1. stack' = <<>> /\ Continue(ret)
    BY <1>5 DEF Deliver
  <2>2. n = 1 /\ Top.p = p
    <3>1. Len(Below) = 0
      BY <1>5, EmptySeq
    <3>2. n = 1
      BY <1>1, <1>3, <3>1
    <3> QED
      BY <1>1, <3>2 DEF Top
  <2>3. MatchTypeOK'
    BY <1>1, <1>4, <2>1, ContinueTyped DEF IInv
  <2>4. Derive
    BY <1>1, <2>1, <2>2 DEF Derive
  <2> QED
    BY <2>1, <2>3, <2>4, EmptyStack DEF Next
<1>6. CASE Below # <<>>
  <2> DEFINE f == stack[n - 1]
  <2>1. UNCHANGED matchVars
    BY <1>6 DEF Deliver
  <2>2. n - 1 \in 1 .. n - 1 /\ n - 1 < n
    BY <1>1, <1>3, <1>6, EmptySeq
  <2>3. f \in Frames /\ Below[n - 1] = f
    BY <1>1, <1>2, <1>3, <2>2, ElementOfSeq
  <2>4. FrameInv(n - 1)
    BY <1>1, <2>2 DEF IInv, StackInv
  <2>5. /\ f.p # RxError /\ f.p \in Pattern
        /\ f.got \in Results(f.p, u)
        /\ NextPart(f.p, f.got) # NoPartLeft
        /\ Top.p = NextPart(f.p, f.got)
    BY <1>1, <2>2, <2>3, <2>4 DEF FrameInv, Top, Frames
  <2>6. Append(f.got, ret) \in Results(f.p, u)
    BY <1>1, <2>5, ResultsGrow
  <2>7. Append(f.got, ret) \in Seq(Pattern)
    BY <1>1, <2>5, <2>6, ResultsTyped
  <2> DEFINE g == [f EXCEPT !.got = Append(f.got, ret)]
  <2>8. g \in Frames /\ g.p = f.p /\ g.c = f.c /\ g.open = f.open /\ g.got = Append(f.got, ret)
    BY <2>3, <2>7 DEF Frames
  <2>9. stack' = [Below EXCEPT ![n - 1] = g]
    BY <1>3, <1>6, <2>2, <2>3 DEF Deliver
  <2> HIDE DEF g, f, ret
  <2>10. /\ stack' \in Seq(Frames) /\ Len(stack') = n - 1
         /\ \A i \in 1 .. n - 1 : stack'[i] = IF i = n - 1 THEN g ELSE stack[i]
    BY <1>3, <2>2, <2>8, <2>9, ExceptSeq
  <2>11. ASSUME NEW i \in 1 .. n - 1 PROVE FrameInv(i)'
    <3>1. FrameInv(i) /\ u' = u /\ p' = p
      BY <1>1, <2>1 DEF IInv, StackInv, matchVars
    <3>2. CASE i = n - 1
      <4>1. stack'[i] = g /\ ~(i < Len(stack'))
        BY <1>1, <2>10, <3>2
      <4>2. g.c = u /\ (Derived(g.p, u) = RxError => Derived(p, u) = RxError)
        BY <2>4, <2>8 DEF FrameInv, f
      <4>3. g.got \in Results(g.p, u) /\ (g.open => g.p # RxError)
        BY <2>5, <2>6, <2>8
      <4> QED
        BY <3>1, <4>1, <4>2, <4>3 DEF FrameInv
    <3>3. CASE i # n - 1
      <4>1. /\ stack'[i] = stack[i] /\ i + 1 \in 1 .. n - 1 /\ i < n
            /\ stack'[i + 1].p = stack[i + 1].p
        BY <1>1, <2>8, <2>10, <3>3 DEF f
      <4> QED
        BY <3>1, <4>1, <2>10 DEF FrameInv
    <3> QED
      BY <3>2, <3>3
  <2>12. Deriving' /\ stack'[1].p = p'
    <3>1. stack'[1].p = stack[1].p
      BY <1>1, <2>2, <2>8, <2>10 DEF f
    <3> QED
      BY <1>1, <2>1, <3>1 DEF Deriving, matchVars
  <2>13. MatchTypeOK'
    BY <2>1 DEF IInv, MatchTypeOK, matchVars, Deriving
  <2> QED
    BY <2>1, <2>10, <2>11, <2>12, <2>13 DEF StackInv
<1> QED
  BY <1>5, <1>6

\* A place outside the table may be overwritten.
LEMMA KeyWritten ==
  ASSUME RingInv, NEW q \in Pattern, NEW c \in Char,
         memo' = [memo EXCEPT ![i_m].p = q, ![i_m].c = c],
         table' = Table0, UNCHANGED i_m
  PROVE  RingInv'
<1>1. memo \in [Slots -> Entries] /\ i_m \in Slots /\ table \subseteq Slots
  BY DEF RingInv
<1>2. \A m \in Slots : m # i_m => memo'[m] = memo[m]
  BY <1>1
<1>3. memo[i_m] \in Entries
  BY <1>1
<1>4. memo' \in [Slots -> Entries]
  <2> DEFINE half == [memo EXCEPT ![i_m] = [memo[i_m] EXCEPT !.p = q]]
  <2>1. [memo[i_m] EXCEPT !.p = q] \in Entries
    BY <1>3 DEF Entries
  <2>2. half \in [Slots -> Entries]
    BY <1>1, <2>1
  <2>3. [half[i_m] EXCEPT !.c = c] \in Entries
    BY <1>1, <2>2 DEF Entries
  <2>4. memo' = [half EXCEPT ![i_m] = [half[i_m] EXCEPT !.c = c]]
    OBVIOUS
  <2> HIDE DEF half
  <2> QED
    BY <2>2, <2>3, <2>4
<1>5. \A m \in table' : m \in table /\ memo'[m] = memo[m]
  BY <1>1, <1>2 DEF Table0
<1>6. Slots' = Slots
  BY DEF Slots
<1>7. table' \subseteq Slots
  BY <1>1 DEF Table0
<1>8. \A m \in table' : memo'[m].ret # RxError /\ memo'[m].ret = Derived(memo'[m].p, memo'[m].c)
  BY <1>5 DEF RingInv, RingAgrees
<1>9. ASSUME NEW m \in table', NEW k \in table', memo'[m].p = memo'[k].p, memo'[m].c = memo'[k].c
      PROVE  m = k
  <2>1. m \in table /\ k \in table /\ memo[m].p = memo[k].p /\ memo[m].c = memo[k].c
    BY <1>5, <1>9
  <2> QED
    BY <2>1 DEF RingInv, RingAgrees
<1> QED
  BY <1>1, <1>4, <1>6, <1>7, <1>8, <1>9 DEF RingInv, RingAgrees

\* accept_m: the new entry is right, and an equal one leaves the table.
LEMMA AcceptKeeps ==
  ASSUME RingInv, NEW q \in Pattern, NEW c \in Char,
         Derived(q, c) \in Pattern, Derived(q, c) # RxError,
         Accept(q, c, Derived(q, c))
  PROVE  RingInv'
<1> DEFINE ret == Derived(q, c)
<1>1. memo \in [Slots -> Entries] /\ i_m \in Slots /\ table \subseteq Slots
  BY DEF RingInv
<1>2. memo' = [memo EXCEPT ![i_m] = [p |-> q, c |-> c, ret |-> ret]]
  BY DEF Accept
<1>3. memo' \in [Slots -> Entries]
  BY <1>1, <1>2 DEF Entries
<1>4. i_m' \in Slots
  BY <1>1, RingAssumption DEF Accept, Slots
<1>5. /\ memo'[i_m].p = q /\ memo'[i_m].c = c /\ memo'[i_m].ret = ret
      /\ \A m \in Slots \ {i_m} : memo'[m] = memo[m]
  BY <1>1, <1>2
<1>6. /\ table' \subseteq Table0 \cup {i_m}
      /\ \A m \in table' \ {i_m} : ~(memo[m].p = q /\ memo[m].c = c)
  <2>1. CASE Found(q, c) = {}
    BY <2>1 DEF Accept, Found
  <2>2. CASE Found(q, c) # {}
    <3>1. PICK m \in Found(q, c) : table' = (Table0 \ {m}) \cup {i_m}
      BY <2>2 DEF Accept
    <3>2. \A k \in Table0 \ {m} : ~(memo[k].p = q /\ memo[k].c = c)
      BY <3>1 DEF Found, Table0, RingInv, RingAgrees
    <3> QED
      BY <3>1, <3>2
  <2> QED
    BY <2>1, <2>2
<1>7. \A m \in table' \ {i_m} : m \in table /\ m \in Slots \ {i_m} /\ memo'[m] = memo[m]
  BY <1>1, <1>5, <1>6 DEF Table0
<1>8. table' \subseteq Slots
  BY <1>1, <1>6 DEF Table0
<1> HIDE DEF ret
<1>9. \A m \in table' : memo'[m].ret # RxError /\ memo'[m].ret = Derived(memo'[m].p, memo'[m].c)
  <2>1. ret = Derived(q, c) /\ ret # RxError
    BY DEF ret
  <2> QED
    BY <1>5, <1>7, <2>1 DEF RingInv, RingAgrees
<1>10. \A m, k \in table' : memo'[m].p = memo'[k].p /\ memo'[m].c = memo'[k].c => m = k
  BY <1>5, <1>6, <1>7 DEF RingInv, RingAgrees
<1>11. Slots' = Slots
  BY DEF Slots
<1> QED
  BY <1>3, <1>4, <1>8, <1>9, <1>10, <1>11 DEF RingInv, RingAgrees

LEMMA RingKept ==
  ASSUME RingInv, UNCHANGED ringVars
  PROVE  RingInv'
BY DEF RingInv, RingAgrees, ringVars, Slots

-----------------------------------------------------------------------------
(* One lemma per action.  Each also is a step of Matching, or none.        *)

LEMMA QuietStep ==
  ASSUME IInv, ~Deriving, UNCHANGED <<ringVars, stack>>
  PROVE  RingInv' /\ StackInv'
<1>1. stack = <<>>
  BY DEF IInv, StackInv
<1> QED
  BY <1>1, EmptyStack, RingKept DEF IInv

LEMMA LoopStep ==
  ASSUME IInv, Loop \/ Skip \/ Word \/ Trailing, UNCHANGED <<ringVars, stack>>
  PROVE  IInv' /\ [Next]_matchVars
<1>1. ~Deriving
  BY DEF Deriving, Loop, Skip, Word, Trailing
<1>2. MatchTypeOK'
  BY LoopTyped, SkipTyped, WordTyped, TrailingTyped DEF IInv
<1> QED
  BY <1>1, <1>2, QuietStep DEF IInv, Next

LEMMA BeginStep ==
  ASSUME IInv, NEW c \in Calls, Begin(c), UNCHANGED <<ringVars, stack>>
  PROVE  IInv' /\ [Next]_matchVars
<1>1. ~Deriving
  BY DEF Deriving, Begin
<1>2. MatchTypeOK'
  BY BeginTyped DEF IInv
<1> QED
  BY <1>1, <1>2, QuietStep DEF IInv, Next

LEMMA EnterStep ==
  ASSUME IInv, Enter
  PROVE  IInv' /\ [Next]_matchVars
<1>1. UNCHANGED matchVars /\ UNCHANGED ringVars /\ Deriving /\ stack' = <<Frame(p, u)>>
  BY DEF Enter
<1>2. p \in Pattern /\ u \in Char
  BY <1>1 DEF IInv, MatchTypeOK
<1>3. Frame(p, u) \in Frames
  BY <1>2, EmptySeq DEF Frame, Frames
<1>4. stack' \in Seq(Frames) /\ Len(stack') = 1 /\ stack'[1] = Frame(p, u)
  BY <1>1, <1>3
<1>5. <<>> \in Results(p, u)
  BY DEF Results
<1>6. p' = p /\ u' = u /\ loc' = loc
  BY <1>1 DEF matchVars
<1>7. FrameInv(1)'
  <2>1. stack'[1].p = p /\ stack'[1].c = u /\ stack'[1].got = <<>> /\ ~stack'[1].open
    BY <1>4 DEF Frame
  <2> QED
    BY <1>4, <1>5, <1>6, <2>1 DEF FrameInv
<1>8. StackInv'
  <2>1. \A i \in 1 .. Len(stack') : i = 1
    BY <1>4
  <2>2. stack'[1].p = p' /\ Deriving'
    BY <1>1, <1>4, <1>6 DEF Frame, Deriving
  <2> QED
    BY <1>4, <1>7, <2>1, <2>2 DEF StackInv
<1>9. MatchTypeOK'
  BY <1>1 DEF IInv, MatchTypeOK, matchVars, Deriving
<1> QED
  BY <1>1, <1>8, <1>9, RingKept DEF IInv

LEMMA AssertFailsStep ==
  ASSUME IInv, AssertFails
  PROVE  IInv' /\ [Next]_matchVars
<1>1. Abort /\ stack' = <<>> /\ UNCHANGED ringVars /\ stack # <<>> /\ Top.p = RxError
  BY DEF AssertFails
<1>2. Top.p \in Pattern /\ u \in Char /\ Deriving
  BY <1>1, TopFacts
<1>3. Derived(Top.p, u) = RxError
  BY <1>1, <1>2, DerivedByParts
<1>4. Derived(p, u) = RxError
  BY <1>1, <1>3, TopFacts
<1>5. Derive
  BY <1>1, <1>2, <1>4 DEF Derive
<1>6. MatchTypeOK'
  BY <1>1 DEF IInv, Abort, GoTo, MatchTypeOK, Locs, Deriving
<1> QED
  BY <1>1, <1>5, <1>6, EmptyStack, RingKept DEF IInv, Next

\* A drv that is open, on top, once its pattern was not found.
LEMMA OpenKeeps ==
  ASSUME IInv, stack # <<>>, Top.p # RxError, UNCHANGED matchVars,
         stack' = Append(Below, [Top EXCEPT !.open = TRUE])
  PROVE  StackInv'
<1> DEFINE n == Len(stack)
           g == [Top EXCEPT !.open = TRUE]
<1>1. /\ n \in Nat \ {0} /\ Top \in Frames
      /\ Deriving /\ stack[1].p = p
  BY TopFacts
<1>2. stack \in Seq(Frames)
  BY DEF IInv, StackInv
<1>3. /\ Below \in Seq(Frames) /\ Len(Below) = n - 1
      /\ \A i \in 1 .. n - 1 : Below[i] = stack[i]
  BY <1>2, FrontFacts DEF Below
<1>4. g \in Frames /\ g.p = Top.p /\ g.c = Top.c /\ g.got = Top.got /\ g.open
  BY <1>1 DEF Frames
<1>5. stack' = Append(Below, g)
  OBVIOUS
<1> HIDE DEF g
<1>6. /\ stack' \in Seq(Frames) /\ Len(stack') = n
      /\ \A i \in 1 .. n - 1 : stack'[i] = stack[i]
      /\ stack'[n] = g
  <2>1. Len(Below) + 1 = n
    BY <1>1, <1>3
  <2> QED
    BY <1>3, <1>4, <1>5, <2>1, AppendProperties
<1>7. ASSUME NEW i \in 1 .. n PROVE FrameInv(i)'
  <2>1. FrameInv(i) /\ u' = u /\ p' = p
    BY DEF IInv, StackInv, matchVars
  <2>2. CASE i = n
    <3>1. stack'[i] = g /\ ~(i < Len(stack')) /\ stack[i] = Top
      BY <1>1, <1>6, <2>2 DEF Top
    <3>2. /\ g.c = u /\ g.got \in Results(g.p, u)
          /\ Derived(g.p, u) = RxError => Derived(p, u) = RxError
      BY <1>4, <2>1, <3>1 DEF FrameInv
    <3> QED
      BY <1>4, <2>1, <3>1, <3>2 DEF FrameInv
  <2>3. CASE i # n
    <3>1. stack'[i] = stack[i] /\ i < n /\ i + 1 \in 1 .. n
      BY <1>1, <1>6, <2>3
    <3>2. stack'[i + 1].p = stack[i + 1].p
      BY <1>1, <1>4, <1>6, <3>1 DEF Top
    <3> QED
      BY <2>1, <3>1, <3>2, <1>6 DEF FrameInv
  <2> QED
    BY <2>2, <2>3
<1>8. Deriving' /\ stack'[1].p = p'
  <2>1. stack'[1].p = stack[1].p
    <3>1. CASE n = 1
      BY <1>4, <1>6, <3>1 DEF Top
    <3>2. CASE n # 1
      <4>1. n \in Nat \ {0, 1}
        BY <1>1, <3>2
      <4>2. 1 \in 1 .. n - 1
        <5> HIDE DEF n
        <5> QED
          BY <4>1
      <4> QED
        BY <1>6, <4>2
    <3> QED
      BY <3>1, <3>2
  <2> QED
    BY <1>1, <2>1 DEF Deriving, matchVars
<1> QED
  BY <1>6, <1>7, <1>8 DEF StackInv

LEMMA LookupStep ==
  ASSUME IInv, Lookup
  PROVE  IInv' /\ [Next]_matchVars
<1>1. /\ stack # <<>> /\ Top.p # RxError
      /\ memo' = [memo EXCEPT ![i_m].p = Top.p, ![i_m].c = Top.c]
      /\ table' = Table0 /\ UNCHANGED i_m
  BY DEF Lookup
<1>2. Top.p \in Pattern /\ Top.c \in Char /\ Top.c = u
  BY <1>1, TopFacts
<1>3. RingInv'
  BY <1>1, <1>2, KeyWritten DEF IInv
<1>4. CASE Found(Top.p, Top.c) # {}
  <2>1. PICK m \in Found(Top.p, Top.c) : Deliver(memo[m].ret)
    BY <1>4 DEF Lookup
  <2>2. memo[m].ret = Derived(Top.p, u) /\ memo[m].ret # RxError
    BY <1>2, <2>1 DEF Found, Table0, IInv, RingInv, RingAgrees
  <2> QED
    BY <1>1, <1>3, <2>1, <2>2, DeliverKeeps DEF IInv
<1>5. CASE Found(Top.p, Top.c) = {}
  <2>1. stack' = Append(Below, [Top EXCEPT !.open = TRUE]) /\ UNCHANGED matchVars
    BY <1>5 DEF Lookup
  <2>2. StackInv'
    BY <1>1, <2>1, OpenKeeps
  <2>3. MatchTypeOK'
    BY <2>1 DEF IInv, MatchTypeOK, matchVars, Deriving
  <2> QED
    BY <1>3, <2>1, <2>2, <2>3 DEF IInv
<1> QED
  BY <1>4, <1>5

LEMMA DescendStep ==
  ASSUME IInv, Descend
  PROVE  IInv' /\ [Next]_matchVars
<1> DEFINE n    == Len(stack)
           part == NextPart(Top.p, Top.got)
           g    == Frame(part, Top.c)
<1>1. /\ stack # <<>> /\ Top.open /\ part # NoPartLeft
      /\ stack' = Append(stack, g) /\ UNCHANGED matchVars /\ UNCHANGED ringVars
  BY DEF Descend
<1>2. /\ n \in Nat \ {0} /\ Top.p \in Pattern /\ Top.p # RxError /\ Top.c = u /\ u \in Char
      /\ Top.got \in Results(Top.p, u) /\ Deriving /\ stack[1].p = p
      /\ Derived(Top.p, u) = RxError => Derived(p, u) = RxError
  BY <1>1, TopFacts
<1>3. part \in Pattern /\ (Derived(part, u) = RxError => Derived(Top.p, u) = RxError)
  BY <1>1, <1>2, PartTyped
<1>4. g \in Frames /\ g.p = part /\ g.c = u /\ g.got = <<>> /\ ~g.open
  BY <1>2, <1>3, EmptySeq DEF Frame, Frames
<1>5. stack \in Seq(Frames)
  BY DEF IInv, StackInv
<1> HIDE DEF g
<1>6. /\ stack' \in Seq(Frames) /\ Len(stack') = n + 1
      /\ \A i \in 1 .. n : stack'[i] = stack[i]
      /\ stack'[n + 1] = g
  BY <1>1, <1>4, <1>5, AppendProperties
<1>7. p' = p /\ u' = u /\ loc' = loc
  BY <1>1 DEF matchVars
<1>8. ASSUME NEW i \in 1 .. n + 1, i = n + 1 PROVE FrameInv(i)'
  <2>1. stack'[i] = g /\ ~(i < Len(stack'))
    BY <1>2, <1>6, <1>8
  <2>2. g.got \in Results(g.p, u)
    BY <1>4 DEF Results
  <2>3. Derived(g.p, u) = RxError => Derived(p, u) = RxError
    BY <1>2, <1>3, <1>4
  <2> QED
    BY <1>4, <1>7, <2>1, <2>2, <2>3 DEF FrameInv
<1>9. ASSUME NEW i \in 1 .. n PROVE FrameInv(i)'
  <2>1. FrameInv(i) /\ stack'[i] = stack[i]
    BY <1>6 DEF IInv, StackInv
  <2>2. CASE i = n
    <3>1. stack[i] = Top /\ stack'[i + 1].p = part
      BY <1>4, <1>6, <2>2 DEF Top
    <3> QED
      BY <1>1, <1>7, <2>1, <3>1 DEF FrameInv
  <2>3. CASE i # n
    <3>1. i < n /\ i + 1 \in 1 .. n
      BY <1>2, <2>3
    <3>2. stack'[i + 1] = stack[i + 1]
      BY <1>6, <3>1
    <3> QED
      BY <1>7, <2>1, <3>1, <3>2 DEF FrameInv
  <2> QED
    BY <2>2, <2>3
<1>10. StackInv'
  <2>1. ASSUME NEW i \in 1 .. n + 1 PROVE FrameInv(i)'
    <3>1. i = n + 1 \/ i \in 1 .. n
      BY <1>2
    <3> QED
      BY <1>8, <1>9, <3>1
  <2>2. 1 \in 1 .. n
    BY <1>2
  <2>3. stack'[1].p = p' /\ Deriving'
    BY <1>2, <1>6, <1>7, <2>2 DEF Deriving
  <2> QED
    BY <1>6, <2>1, <2>3 DEF StackInv
<1>11. MatchTypeOK'
  BY <1>1 DEF IInv, MatchTypeOK, matchVars, Deriving
<1> QED
  BY <1>1, <1>10, <1>11, RingKept DEF IInv

LEMMA FinishStep ==
  ASSUME IInv, Finish
  PROVE  IInv' /\ [Next]_matchVars
<1> DEFINE ret == Derived(Top.p, u)
<1>1. /\ stack # <<>> /\ Top.open /\ NextPart(Top.p, Top.got) = NoPartLeft
      /\ Accept(Top.p, Top.c, Combined(Top.p, Top.c, Top.got))
      /\ Deliver(Combined(Top.p, Top.c, Top.got))
  BY DEF Finish
<1>2. /\ Top.p \in Pattern /\ Top.p # RxError /\ Top.c = u /\ u \in Char
      /\ Top.got \in Results(Top.p, u)
  BY <1>1, TopFacts
<1>3. ret = Combined(Top.p, Top.c, Top.got) /\ ret # RxError /\ ret \in Pattern
  BY <1>1, <1>2, NoPartCombines, Derivatives
<1>4. RingInv'
  BY <1>1, <1>2, <1>3, AcceptKeeps DEF IInv
<1> QED
  BY <1>1, <1>2, <1>3, <1>4, DeliverKeeps DEF IInv

-----------------------------------------------------------------------------
LEMMA InitEstablishes == Init => IInv /\ InitMatching
<1> SUFFICES ASSUME Init PROVE IInv /\ InitMatching
  OBVIOUS
<1>1. MatchTypeOK
  BY PatternsClosed, EmptySeq DEF Init, InitMatching, MatchTypeOK, Locs, Deriving
<1>2. RingInv
  <2>1. NoEntry \in Entries
    <3>1. RxNotAllowed \in Pattern
      BY PatternsClosed
    <3>2. " " \in Char
      BY CallsTyped
    <3> QED
      BY <3>1, <3>2 DEF NoEntry, Entries
  <2>2. 0 \in Slots
    BY RingAssumption DEF Slots
  <2> QED
    BY <2>1, <2>2 DEF Init, RingInv, RingAgrees
<1>3. StackInv
  BY EmptySeq DEF Init, StackInv
<1> QED
  BY <1>1, <1>2, <1>3 DEF IInv, Init

LEMMA StepKeeps == IInv /\ [NextMatcher]_vars => IInv' /\ [Next]_matchVars
<1> SUFFICES ASSUME IInv, [NextMatcher]_vars PROVE IInv' /\ [Next]_matchVars
  OBVIOUS
<1>1. CASE \E c \in Calls : Begin(c) /\ UNCHANGED <<ringVars, stack>>
  BY <1>1, BeginStep
<1>2. CASE (Loop \/ Skip \/ Word \/ Trailing) /\ UNCHANGED <<ringVars, stack>>
  BY <1>2, LoopStep
<1>3. CASE Enter
  BY <1>3, EnterStep
<1>4. CASE AssertFails
  BY <1>4, AssertFailsStep
<1>5. CASE Lookup
  BY <1>5, LookupStep
<1>6. CASE Descend
  BY <1>6, DescendStep
<1>7. CASE Finish
  BY <1>7, FinishStep
<1>8. CASE UNCHANGED vars
  BY <1>8 DEF vars, ringVars, matchVars, IInv, MatchTypeOK, Deriving,
              RingInv, RingAgrees, Slots, StackInv, FrameInv
<1> QED
  BY <1>1, <1>2, <1>3, <1>4, <1>5, <1>6, <1>7, <1>8 DEF NextMatcher, OwnSteps

(***************************************************************************)
(* What the places of the ring that the table finds hold is right, and no  *)
(* key is found twice, whatever is overwritten while derivatives of parts  *)
(* are computed: new_memo and accept_m of rx.c.                            *)
(***************************************************************************)
THEOREM RingCorrect == SpecMatcher => []RingAgrees
<1>1. IInv => RingAgrees
  BY DEF IInv, RingInv
<1> QED
  BY InitEstablishes, StepKeeps, <1>1, PTL DEF SpecMatcher

(***************************************************************************)
(* With its memo and its recursion over the parts of a pattern, drv is     *)
(* unseen by the callers of rx.h: Matcher implements Matching.             *)
(***************************************************************************)
THEOREM MatcherImplements == SpecMatcher => MemoUnseen
BY InitEstablishes, StepKeeps, PTL DEF SpecMatcher, MemoUnseen, SpecMatching

-----------------------------------------------------------------------------
(* The loops of the match functions.                                       *)

\* f is what is left of the pattern, after each number of characters of s.
Reads(fn, s, f) ==
  \A k \in 1 .. Len(s) :
    f[k] = IF Skipped(fn, s, k) THEN f[k - 1] ELSE Derived(f[k - 1], Shown(fn, s, k))

LEMMA LeftReads ==
  ASSUME NEW fn, NEW s \in Seq(Char), NEW q \in Pattern
  PROVE  Left(fn, s, q)[0] = q /\ Reads(fn, s, Left(fn, s, q))
<1> DEFINE N == Len(s)
           Rule(f) == f = [k \in 0 .. N |->
                             IF k = 0 THEN q
                             ELSE IF Skipped(fn, s, k) THEN f[k - 1] ELSE Derived(f[k - 1], Shown(fn, s, k))]
           F == [x \in Pattern \X Nat |->
                   IF x[2] \notin 1 .. N \/ Skipped(fn, s, x[2]) THEN x[1] ELSE Derived(x[1], Shown(fn, s, x[2]))]
<1>1. N \in Nat
  OBVIOUS
<1>2. \A k \in 1 .. N : Shown(fn, s, k) \in Char
  <2>1. \A k \in 1 .. N : s[k] \in Char
    BY ElementOfSeq
  <2> QED
    BY <2>1, CallsTyped DEF Shown
<1>3. F \in [Pattern \X Nat -> Pattern]
  <2>1. ASSUME NEW x \in Pattern \X Nat
        PROVE  (IF x[2] \notin 1 .. N \/ Skipped(fn, s, x[2]) THEN x[1] ELSE Derived(x[1], Shown(fn, s, x[2]))) \in Pattern
    <3>1. x[1] \in Pattern
      BY <2>1
    <3>2. CASE x[2] \notin 1 .. N \/ Skipped(fn, s, x[2])
      BY <3>1, <3>2
    <3>3. CASE x[2] \in 1 .. N /\ ~Skipped(fn, s, x[2])
      <4>1. Derived(x[1], Shown(fn, s, x[2])) \in Pattern
        BY <1>2, <3>1, <3>3, Derivatives
      <4> QED
        BY <3>3, <4>1
    <3> QED
      BY <3>2, <3>3
  <2> QED
    BY <2>1
<1>4. PICK g \in [0 .. N -> Pattern] : Iterates(g, q, F, N)
  <2> HIDE DEF F, N
  <2> QED
    BY <1>1, <1>3, RecursionExists
<1>5. ASSUME NEW k \in 1 .. N
      PROVE  g[k] = IF Skipped(fn, s, k) THEN g[k - 1] ELSE Derived(g[k - 1], Shown(fn, s, k))
  <2>1. k - 1 \in 0 .. N /\ k \in Nat
    BY <1>1
  <2>2. g[k - 1] \in Pattern
    BY <2>1
  <2>3. <<g[k - 1], k>> \in Pattern \X Nat /\ <<g[k - 1], k>>[1] = g[k - 1] /\ <<g[k - 1], k>>[2] = k
    BY <2>1, <2>2
  <2>4. g[k] = F[<<g[k - 1], k>>]
    <3> HIDE DEF F
    <3> QED
      BY <1>4 DEF Iterates
  <2>5. F[<<g[k - 1], k>>] = IF k \notin 1 .. N \/ Skipped(fn, s, k) THEN g[k - 1] ELSE Derived(g[k - 1], Shown(fn, s, k))
    BY <2>3, Zenon
  <2> QED
    BY <2>4, <2>5
<1>6. g[0] = q
  BY <1>4 DEF Iterates
<1>7. Rule(g)
  <2>1. g = [k \in 0 .. N |-> g[k]]
    OBVIOUS
  <2>2. \A k \in 0 .. N : k = 0 \/ k \in 1 .. N
    BY <1>1
  <2>3. \A k \in 0 .. N : g[k] = IF k = 0 THEN q
                                 ELSE IF Skipped(fn, s, k) THEN g[k - 1] ELSE Derived(g[k - 1], Shown(fn, s, k))
    BY <1>5, <1>6, <2>2
  <2> QED
    BY <2>1, <2>3
<1>8. Left(fn, s, q) = CHOOSE f : Rule(f)
  BY DEF Left
<1>9. Rule(Left(fn, s, q))
  <2> HIDE DEF Rule
  <2> QED
    BY <1>7, <1>8
<1>10. PICK f : f = Left(fn, s, q)
  OBVIOUS
<1>11. Rule(f)
  <2> HIDE DEF Rule
  <2> QED
    BY <1>9, <1>10
<1>12. f[0] = q
  <2>1. 0 \in 0 .. N
    BY <1>1
  <2> QED
    BY <1>11, <2>1
<1>13. ASSUME NEW k \in 1 .. N
       PROVE  f[k] = IF Skipped(fn, s, k) THEN f[k - 1] ELSE Derived(f[k - 1], Shown(fn, s, k))
  <2>1. k \in 0 .. N /\ k # 0
    BY <1>1
  <2> QED
    BY <1>11, <2>1
<1> QED
  BY <1>10, <1>12, <1>13 DEF Reads

\* Once nothing is left, nothing is left to the end.
LEMMA NothingStays ==
  ASSUME NEW fn, NEW s \in Seq(Char), NEW f, Reads(fn, s, f),
         NEW k \in 0 .. Len(s), f[k] = RxNotAllowed
  PROVE  ~IsNullable(f[Len(s)])
<1> DEFINE T == {m \in Nat : m >= k /\ m <= Len(s) => f[m] = RxNotAllowed}
<1>1. Len(s) \in Nat
  OBVIOUS
<1>2. 0 \in T
  BY <1>1
<1>3. ASSUME NEW m \in Nat, m \in T
      PROVE  m + 1 \in T
  <2>1. SUFFICES ASSUME m + 1 >= k, m + 1 <= Len(s)
                 PROVE  f[m + 1] = RxNotAllowed
    OBVIOUS
  <2>2. CASE m + 1 = k
    BY <2>2
  <2>3. CASE m + 1 # k
    <3>1. f[m] = RxNotAllowed
      BY <1>1, <1>3, <2>1, <2>3
    <3>2. PICK j \in 1 .. Len(s) : j = m + 1 /\ j - 1 = m
      BY <1>1, <2>1
    <3>3. s[j] \in Char
      BY <3>2, ElementOfSeq
    <3>4. Shown(fn, s, j) \in Char
      BY <3>3, CallsTyped DEF Shown
    <3>5. Derived(RxNotAllowed, Shown(fn, s, j)) = RxNotAllowed
      BY <3>4, NothingFollows
    <3>6. f[j] = IF Skipped(fn, s, j) THEN f[j - 1] ELSE Derived(f[j - 1], Shown(fn, s, j))
      BY DEF Reads
    <3>7. f[j] = RxNotAllowed
      BY <3>1, <3>2, <3>5, <3>6
    <3> QED
      BY <3>2, <3>7
  <2> QED
    BY <2>2, <2>3
<1>4. Len(s) \in T
  <2> HIDE DEF T
  <2> QED
    BY <1>1, <1>2, <1>3, NaturalInduction
<1>5. f[Len(s)] = RxNotAllowed
  BY <1>1, <1>4
<1> QED
  BY <1>5, NothingFollows

\* Where a loop is in the text s: r is not read yet, the pattern q is what the characters
\* before leave, but for the character c read last, when its derivative is to come.
Place(fn, s, f, lc, q, c, r) ==
  \E k \in 0 .. Len(s) :
    /\ k + Len(r) = Len(s)
    /\ \A i \in 1 .. Len(r) : r[i] = s[k + i]
    /\ (fn = "cmatch") <=> lc \notin {"loop", "loop.drv"}
    /\ lc \in {"loop", "skip"} => q = f[k]
    /\ lc = "skip" => k = 0 \/ k = Len(s) \/ IsSpace(s[k])
    /\ lc = "tail" => k > 0 /\ IsSpace(s[k]) /\ q = RxNotAllowed /\ f[k] = q
    /\ lc \in {"word", "loop.drv", "word.drv", "space.drv"} =>
         k > 0 /\ q = f[k - 1] /\ ~Skipped(fn, s, k)
    /\ lc = "word" => c = s[k]
    /\ lc \in {"loop.drv", "word.drv", "space.drv"} => c = Shown(fn, s, k)
    /\ lc = "word.drv" => ~IsSpace(s[k])
    /\ lc = "space.drv" => IsSpace(s[k])

\* The first character that is not read yet.
LEMMA NextRead ==
  ASSUME NEW s \in Seq(Char), NEW r \in Seq(Char), r # <<>>,
         NEW k \in 0 .. Len(s), k + Len(r) = Len(s),
         \A i \in 1 .. Len(r) : r[i] = s[k + i]
  PROVE  \E m \in 1 .. Len(s) :
           /\ m \in 0 .. Len(s) /\ m > 0 /\ m - 1 = k /\ k # Len(s)
           /\ Head(r) = s[m]
           /\ m + Len(Tail(r)) = Len(s)
           /\ \A i \in 1 .. Len(Tail(r)) : Tail(r)[i] = s[m + i]
<1>1. /\ Len(r) \in Nat \ {0} /\ Len(s) \in Nat
      /\ Head(r) = r[1] /\ Tail(r) \in Seq(Char) /\ Len(Tail(r)) = Len(r) - 1
      /\ \A i \in 1 .. Len(Tail(r)) : Tail(r)[i] = r[i + 1]
  <2>1. Len(r) \in Nat \ {0} /\ Len(s) \in Nat
    BY EmptySeq
  <2>2. Tail(r) \in Seq(Char) /\ Len(Tail(r)) = Len(r) - 1 /\ Head(r) = r[1]
    BY HeadTailProperties
  <2>3. \A i \in 1 .. Len(Tail(r)) : Tail(r)[i] = r[i + 1]
    BY HeadTailProperties
  <2> QED
    BY <2>1, <2>2, <2>3
<1>2. 1 \in 1 .. Len(r)
  BY <1>1
<1>3. PICK m \in 1 .. Len(s) : m = k + 1
  BY <1>1
<1>4. ASSUME NEW i \in 1 .. Len(Tail(r))
      PROVE  Tail(r)[i] = s[m + i]
  <2>1. Tail(r)[i] = r[i + 1] /\ i + 1 \in 1 .. Len(r) /\ k + (i + 1) = m + i
    BY <1>1, <1>3
  <2> QED
    BY <2>1
<1>5. Head(r) = s[m]
  BY <1>1, <1>2, <1>3
<1>6. m + Len(Tail(r)) = Len(s) /\ m \in 0 .. Len(s) /\ m > 0 /\ m - 1 = k /\ k # Len(s)
  BY <1>1, <1>3
<1> QED
  BY <1>4, <1>5, <1>6

\* A call that reads s, with what its characters leave in f.
Reading(fn, s, f) == fn \in {"match", "rmatch", "cmatch"} /\ s \in Seq(Char) /\ Reads(fn, s, f)

EndsOpen(fn, s) == fn = "cmatch" /\ s # <<>> /\ IsSpace(s[Len(s)])

\* A loop goes on at a place of the text, or returns what all the text leaves.
Goes(fn, s, f, lc, q, c, r, a) ==
  \/ lc \in Locs \ {"idle", "aborted"} /\ Place(fn, s, f, lc, q, c, r)
  \/ lc = "idle" /\ (EndsOpen(fn, s) \/ (a <=> IsNullable(f[Len(s)])))

LEMMA LoopGoes ==
  ASSUME NEW s, NEW f, Reading(call.fn, s, f), MatchTypeOK,
         Place(call.fn, s, f, loc, p, u, rest), Loop
  PROVE  Goes(call.fn, s, f, loc', p', u', rest', answer')
<1> DEFINE fn == call.fn
<1>1. PICK k \in 0 .. Len(s) :
        /\ k + Len(rest) = Len(s)
        /\ \A i \in 1 .. Len(rest) : rest[i] = s[k + i]
        /\ (fn = "cmatch") <=> loc \notin {"loop", "loop.drv"}
        /\ loc \in {"loop", "skip"} => p = f[k]
  BY DEF Place
<1>2. fn # "cmatch" /\ p = f[k] /\ p' = p /\ loc = "loop"
  BY <1>1 DEF Loop
<1>3. s \in Seq(Char) /\ rest \in Seq(Char) /\ Reads(fn, s, f) /\ Len(s) \in Nat
  BY DEF Reading, MatchTypeOK
<1>4. CASE p = RxNotAllowed /\ Return(p # RxNotAllowed /\ IsNullable(p))
  <2>1. ~IsNullable(f[Len(s)])
    BY <1>2, <1>3, <1>4, NothingStays
  <2>2. ~answer' /\ loc' = "idle"
    BY <1>4, Zenon DEF Return
  <2> QED
    BY <2>1, <2>2, Zenon DEF Goes
<1>5. CASE p # RxNotAllowed /\ rest = <<>> /\ Return(p # RxNotAllowed /\ IsNullable(p))
  <2>1. k = Len(s)
    <3>1. Len(rest) = 0
      BY <1>5
    <3> QED
      BY <1>1, <1>3, <3>1
  <2>2. (answer' <=> IsNullable(f[k])) /\ loc' = "idle"
    BY <1>2, <1>5, Zenon DEF Return
  <2> QED
    BY <2>1, <2>2, Zenon DEF Goes
<1>6. CASE /\ rest # <<>>
           /\ u' = (IF fn = "rmatch" /\ IsSpace(Head(rest)) THEN " " ELSE Head(rest))
           /\ rest' = Tail(rest)
           /\ GoTo("loop.drv")
  <2>1. PICK m \in 1 .. Len(s) :
          /\ m \in 0 .. Len(s) /\ m > 0 /\ m - 1 = k /\ k # Len(s)
          /\ Head(rest) = s[m]
          /\ m + Len(Tail(rest)) = Len(s)
          /\ \A i \in 1 .. Len(Tail(rest)) : Tail(rest)[i] = s[m + i]
    BY <1>1, <1>3, <1>6, NextRead
  <2>2. ~Skipped(fn, s, m)
    BY <1>2 DEF Skipped
  <2>3. u' = Shown(fn, s, m)
    BY <1>2, <1>6, <2>1 DEF Shown, Reading
  <2> QED
    BY <1>2, <1>6, <2>1, <2>2, <2>3 DEF Goes, Place, GoTo, Locs
<1> QED
  BY <1>4, <1>5, <1>6 DEF Loop

LEMMA SkipGoes ==
  ASSUME NEW s, NEW f, Reading(call.fn, s, f), MatchTypeOK,
         Place(call.fn, s, f, loc, p, u, rest), Skip
  PROVE  Goes(call.fn, s, f, loc', p', u', rest', answer')
<1> DEFINE fn == call.fn
<1>1. PICK k \in 0 .. Len(s) :
        /\ k + Len(rest) = Len(s)
        /\ \A i \in 1 .. Len(rest) : rest[i] = s[k + i]
        /\ (fn = "cmatch") <=> loc \notin {"loop", "loop.drv"}
        /\ loc \in {"loop", "skip"} => p = f[k]
        /\ loc = "skip" => k = 0 \/ k = Len(s) \/ IsSpace(s[k])
  BY DEF Place
<1>2. fn = "cmatch" /\ p = f[k] /\ p' = p /\ loc = "skip" /\ (k = 0 \/ k = Len(s) \/ IsSpace(s[k]))
  BY <1>1 DEF Skip
<1>3. s \in Seq(Char) /\ rest \in Seq(Char) /\ Reads(fn, s, f) /\ Len(s) \in Nat
  BY DEF Reading, MatchTypeOK
<1>4. CASE rest = <<>> /\ Return(IsNullable(p))
  <2>1. k = Len(s)
    <3>1. Len(rest) = 0
      BY <1>4
    <3> QED
      BY <1>1, <1>3, <3>1
  <2>2. (answer' <=> IsNullable(f[k])) /\ loc' = "idle"
    BY <1>2, <1>4, Zenon DEF Return
  <2> QED
    BY <2>1, <2>2, Zenon DEF Goes
<1>5. CASE rest # <<>> /\ Read /\ GoTo(IF IsSpace(Head(rest)) THEN "skip" ELSE "word")
  <2>1. PICK m \in 1 .. Len(s) :
          /\ m \in 0 .. Len(s) /\ m > 0 /\ m - 1 = k /\ k # Len(s)
          /\ Head(rest) = s[m]
          /\ m + Len(Tail(rest)) = Len(s)
          /\ \A i \in 1 .. Len(Tail(rest)) : Tail(rest)[i] = s[m + i]
    BY <1>1, <1>3, <1>5, NextRead
  <2>2. u' = s[m] /\ rest' = Tail(rest)
    BY <1>5, <2>1 DEF Read
  <2>4. CASE IsSpace(s[m])
    <3>1. loc' = "skip"
      BY <1>5, <2>1, <2>4 DEF GoTo
    <3>2. Skipped(fn, s, m)
      <4>1. k = 0 => m = 1
        BY <2>1
      <4> QED
        BY <1>2, <2>1, <2>4, <4>1 DEF Skipped
    <3>3. f[m] = f[k]
      BY <1>3, <2>1, <3>2 DEF Reads
    <3> QED
      BY <1>2, <2>1, <2>2, <2>4, <3>1, <3>3 DEF Goes, Place, Locs
  <2>5. CASE ~IsSpace(s[m])
    <3>1. loc' = "word"
      BY <1>5, <2>1, <2>5 DEF GoTo
    <3>2. ~Skipped(fn, s, m)
      BY <2>5 DEF Skipped
    <3> QED
      BY <1>2, <2>1, <2>2, <3>1, <3>2 DEF Goes, Place, Locs
  <2> QED
    BY <2>4, <2>5
<1> QED
  BY <1>4, <1>5 DEF Skip

LEMMA WordGoes ==
  ASSUME NEW s, NEW f, Reading(call.fn, s, f), MatchTypeOK,
         Place(call.fn, s, f, loc, p, u, rest), Word
  PROVE  Goes(call.fn, s, f, loc', p', u', rest', answer')
<1> DEFINE fn == call.fn
<1>1. PICK k \in 0 .. Len(s) :
        /\ k + Len(rest) = Len(s)
        /\ \A i \in 1 .. Len(rest) : rest[i] = s[k + i]
        /\ (fn = "cmatch") <=> loc \notin {"loop", "loop.drv"}
        /\ loc \in {"word", "loop.drv", "word.drv", "space.drv"} =>
             k > 0 /\ p = f[k - 1] /\ ~Skipped(fn, s, k)
        /\ loc = "word" => u = s[k]
  BY DEF Place
<1>2. /\ loc = "word" /\ fn = "cmatch" /\ k > 0 /\ p = f[k - 1] /\ ~Skipped(fn, s, k) /\ u = s[k]
      /\ p' = p /\ rest' = rest
  BY <1>1 DEF Word
<1>3. s \in Seq(Char) /\ Reads(fn, s, f) /\ Len(s) \in Nat
  BY DEF Reading
<1>4. CASE p = RxNotAllowed
  <2>1. k - 1 \in 0 .. Len(s) /\ f[k - 1] = RxNotAllowed
    BY <1>2, <1>3, <1>4
  <2>2. ~IsNullable(f[Len(s)])
    BY <1>3, <2>1, NothingStays
  <2>3. ~answer' /\ loc' = "idle"
    BY <1>4, Zenon DEF Word, Return
  <2> QED
    BY <2>2, <2>3, Zenon DEF Goes
<1>5. CASE p # RxNotAllowed /\ IsSpace(u)
  <2>1. u' = " " /\ loc' = "space.drv"
    BY <1>5 DEF Word, GoTo
  <2>2. u' = Shown(fn, s, k) /\ IsSpace(s[k])
    BY <1>2, <1>5, <2>1 DEF Shown
  <2> QED
    BY <1>1, <1>2, <2>1, <2>2 DEF Goes, Place, Locs
<1>6. CASE p # RxNotAllowed /\ ~IsSpace(u)
  <2>1. u' = u /\ loc' = "word.drv"
    BY <1>6 DEF Word, GoTo
  <2>2. u' = Shown(fn, s, k) /\ ~IsSpace(s[k])
    BY <1>2, <1>6, <2>1 DEF Shown
  <2> QED
    BY <1>1, <1>2, <2>1, <2>2 DEF Goes, Place, Locs
<1> QED
  BY <1>4, <1>5, <1>6

LEMMA TrailingGoes ==
  ASSUME NEW s, NEW f, Reading(call.fn, s, f), MatchTypeOK,
         Place(call.fn, s, f, loc, p, u, rest), Trailing
  PROVE  Goes(call.fn, s, f, loc', p', u', rest', answer')
<1> DEFINE fn == call.fn
<1>1. PICK k \in 0 .. Len(s) :
        /\ k + Len(rest) = Len(s)
        /\ \A i \in 1 .. Len(rest) : rest[i] = s[k + i]
        /\ (fn = "cmatch") <=> loc \notin {"loop", "loop.drv"}
        /\ loc = "tail" => k > 0 /\ IsSpace(s[k]) /\ p = RxNotAllowed /\ f[k] = p
  BY DEF Place
<1>2. /\ loc = "tail" /\ fn = "cmatch" /\ k > 0 /\ IsSpace(s[k])
      /\ p = RxNotAllowed /\ f[k] = RxNotAllowed /\ p' = p
  BY <1>1 DEF Trailing
<1>3. s \in Seq(Char) /\ rest \in Seq(Char) /\ Reads(fn, s, f) /\ Len(s) \in Nat
  BY DEF Reading, MatchTypeOK
<1>4. CASE rest = <<>> /\ Return(TRUE)
  <2>1. k = Len(s)
    <3>1. Len(rest) = 0
      BY <1>4
    <3> QED
      BY <1>1, <1>3, <3>1
  <2>2. s # <<>>
    <3>1. Len(s) # 0
      BY <1>2, <2>1
    <3> QED
      BY <3>1
  <2>3. EndsOpen(fn, s)
    BY <1>2, <2>1, <2>2 DEF EndsOpen
  <2>4. loc' = "idle"
    BY <1>4 DEF Return
  <2> QED
    BY <2>3, <2>4 DEF Goes
<1>5. CASE rest # <<>> /\ Read /\ (IF IsSpace(Head(rest)) THEN GoTo("tail") ELSE Return(FALSE))
  <2>1. PICK m \in 1 .. Len(s) :
          /\ m \in 0 .. Len(s) /\ m > 0 /\ m - 1 = k /\ k # Len(s)
          /\ Head(rest) = s[m]
          /\ m + Len(Tail(rest)) = Len(s)
          /\ \A i \in 1 .. Len(Tail(rest)) : Tail(rest)[i] = s[m + i]
    BY <1>1, <1>3, <1>5, NextRead
  <2>2. CASE IsSpace(s[m])
    <3>1. loc' = "tail" /\ rest' = Tail(rest)
      BY <1>5, <2>1, <2>2 DEF GoTo, Read
    <3>2. m # 1 /\ IsSpace(s[m - 1])
      BY <1>2, <2>1
    <3>3. Skipped(fn, s, m)
      BY <1>2, <2>2, <3>2 DEF Skipped
    <3>4. f[m] = RxNotAllowed
      BY <1>2, <1>3, <2>1, <3>3 DEF Reads
    <3> QED
      BY <1>2, <2>1, <2>2, <3>1, <3>4 DEF Goes, Place, Locs
  <2>3. CASE ~IsSpace(s[m])
    <3>1. ~answer' /\ loc' = "idle"
      BY <1>5, <2>1, <2>3, Zenon DEF Return
    <3>2. ~IsNullable(f[Len(s)])
      BY <1>2, <1>3, NothingStays
    <3> QED
      BY <3>1, <3>2, Zenon DEF Goes
  <2> QED
    BY <2>2, <2>3
<1> QED
  BY <1>4, <1>5 DEF Trailing

LEMMA DeriveGoes ==
  ASSUME NEW s, NEW f, Reading(call.fn, s, f), MatchTypeOK,
         Place(call.fn, s, f, loc, p, u, rest), Deriving, Continue(Derived(p, u))
  PROVE  Goes(call.fn, s, f, loc', p', u', rest', answer')
<1> DEFINE fn == call.fn
<1>1. PICK k \in 0 .. Len(s) :
        /\ k + Len(rest) = Len(s)
        /\ \A i \in 1 .. Len(rest) : rest[i] = s[k + i]
        /\ (fn = "cmatch") <=> loc \notin {"loop", "loop.drv"}
        /\ loc \in {"word", "loop.drv", "word.drv", "space.drv"} =>
             k > 0 /\ p = f[k - 1] /\ ~Skipped(fn, s, k)
        /\ loc \in {"loop.drv", "word.drv", "space.drv"} => u = Shown(fn, s, k)
        /\ loc = "word.drv" => ~IsSpace(s[k])
        /\ loc = "space.drv" => IsSpace(s[k])
  BY DEF Place
<1>2. /\ loc \in {"loop.drv", "word.drv", "space.drv"}
      /\ k > 0 /\ k \in 1 .. Len(s) /\ p = f[k - 1] /\ ~Skipped(fn, s, k) /\ u = Shown(fn, s, k)
  BY <1>1 DEF Deriving
<1>3. s \in Seq(Char) /\ rest \in Seq(Char) /\ Reads(fn, s, f) /\ Len(s) \in Nat
  BY DEF Reading, MatchTypeOK
<1>4. p' = Derived(p, u) /\ f[k] = p'
  BY <1>2, <1>3 DEF Continue, Reads
<1>5. CASE loc = "loop.drv"
  <2>1. loc' = "loop" /\ rest' = rest /\ u' = u /\ fn # "cmatch"
    BY <1>1, <1>5 DEF Continue, GoTo
  <2> QED
    BY <1>1, <1>4, <2>1 DEF Goes, Place, Locs
<1>6. CASE loc = "space.drv"
  <2>1. loc' = (IF p' = RxNotAllowed THEN "tail" ELSE "skip") /\ rest' = rest /\ u' = u
    BY <1>4, <1>6 DEF Continue, GoTo
  <2>2. fn = "cmatch" /\ IsSpace(s[k])
    BY <1>1, <1>6
  <2>3. CASE p' = RxNotAllowed
    BY <1>1, <1>2, <1>4, <2>1, <2>2, <2>3 DEF Goes, Place, Locs
  <2>4. CASE p' # RxNotAllowed
    BY <1>1, <1>2, <1>4, <2>1, <2>2, <2>4 DEF Goes, Place, Locs
  <2> QED
    BY <2>3, <2>4
<1>7. CASE loc = "word.drv" /\ rest = <<>>
  <2>1. loc' = "skip" /\ rest' = rest /\ u' = u /\ fn = "cmatch"
    BY <1>1, <1>7 DEF Continue, GoTo
  <2>2. k = Len(s)
    <3>1. Len(rest) = 0
      BY <1>7
    <3> QED
      BY <1>1, <1>3, <3>1
  <2> QED
    BY <1>1, <1>4, <2>1, <2>2 DEF Goes, Place, Locs
<1>8. CASE loc = "word.drv" /\ rest # <<>>
  <2>1. PICK m \in 1 .. Len(s) :
          /\ m \in 0 .. Len(s) /\ m > 0 /\ m - 1 = k /\ k # Len(s)
          /\ Head(rest) = s[m]
          /\ m + Len(Tail(rest)) = Len(s)
          /\ \A i \in 1 .. Len(Tail(rest)) : Tail(rest)[i] = s[m + i]
    BY <1>1, <1>3, <1>8, NextRead
  <2>2. loc' = "word" /\ rest' = Tail(rest) /\ u' = s[m] /\ fn = "cmatch"
    BY <1>1, <1>8, <2>1 DEF Continue, GoTo, Read
  <2>3. ~Skipped(fn, s, m)
    <3>1. m # 1 /\ ~IsSpace(s[m - 1])
      BY <1>1, <1>2, <1>8, <2>1
    <3> QED
      BY <3>1 DEF Skipped
  <2>4. p' = f[m - 1]
    BY <1>4, <2>1
  <2> QED
    BY <2>1, <2>2, <2>3, <2>4 DEF Goes, Place, Locs
<1> QED
  BY <1>2, <1>5, <1>6, <1>7, <1>8

\* The cache holds what expressions compile to; a call that runs is at a place of its
\* text, and one that returned gave the answer of all its text.
CallInv ==
  /\ \A rx \in DOMAIN cache : cache[rx] = Compiled(rx).p
  /\ Running =>
       /\ call \in Calls /\ call.fn # "check" /\ ~errors
       /\ Place(call.fn, call.s, Left(call.fn, call.s, Compiled(call.rx).p), loc, p, u, rest)
  /\ AnswersDerived

LEMMA CallTyped ==
  ASSUME NEW c \in Calls
  PROVE  /\ c.fn \in {"check", "match", "rmatch", "cmatch"} /\ c.s \in Seq(Char)
         /\ Compiled(c.rx).p \in Pattern /\ Compiled(c.rx).malformed \in BOOLEAN
<1>1. c \in [fn : {"check", "match", "rmatch", "cmatch"}, rx : {d.rx : d \in Calls}, s : Seq(Char)]
  BY CallsTyped
<1>2. Compiled(c.rx).p \in Pattern
  BY PatternsClosed
<1>3. Compiled(c.rx).malformed \in BOOLEAN
  BY AnswersTyped
<1> QED
  BY <1>1, <1>2, <1>3

LEMMA LeftOfCall ==
  ASSUME NEW c \in Calls, c.fn # "check"
  PROVE  /\ Left(c.fn, c.s, Compiled(c.rx).p)[0] = Compiled(c.rx).p
         /\ Reading(c.fn, c.s, Left(c.fn, c.s, Compiled(c.rx).p))
BY CallTyped, LeftReads DEF Reading

\* A call that runs goes on: the invariant is kept.
LEMMA GoesOn ==
  ASSUME CallInv, Running, UNCHANGED <<cache, errors, call>>,
         NEW f, f = Left(call.fn, call.s, Compiled(call.rx).p),
         Goes(call.fn, call.s, f, loc', p', u', rest', answer')
  PROVE  CallInv'
<1>1. call \in Calls /\ call.fn # "check" /\ ~errors
  BY DEF CallInv
<1>2. /\ cache' = cache /\ errors' = errors /\ call' = call
      /\ f = Left(call'.fn, call'.s, Compiled(call'.rx).p)
  OBVIOUS
<1>3. \A rx \in DOMAIN cache' : cache'[rx] = Compiled(rx).p
  BY <1>2 DEF CallInv
<1>4. CASE loc' \in Locs \ {"idle", "aborted"} /\ Place(call.fn, call.s, f, loc', p', u', rest')
  <2>1. ~Answered'
    BY <1>4 DEF Answered
  <2>2. Place(call'.fn, call'.s, Left(call'.fn, call'.s, Compiled(call'.rx).p), loc', p', u', rest')
    BY <1>2, <1>4
  <2>3. call' \in Calls /\ call'.fn # "check" /\ ~errors'
    BY <1>1, <1>2
  <2> QED
    BY <1>3, <2>1, <2>2, <2>3, Zenon DEF CallInv, AnswersDerived
<1>5. CASE loc' = "idle" /\ (EndsOpen(call.fn, call.s) \/ (answer' <=> IsNullable(f[Len(call.s)])))
  <2>1. ~Running'
    BY <1>5 DEF Running
  <2>2. EndsInSpace' <=> EndsOpen(call.fn, call.s)
    BY <1>2, Zenon DEF EndsInSpace, EndsOpen
  <2>3. Accepts(call'.fn, call'.s, Compiled(call'.rx).p) <=> IsNullable(f[Len(call.s)])
    BY <1>2, Zenon DEF Accepts
  <2>4. call'.fn # "check" /\ ~errors'
    BY <1>1, <1>2
  <2>5. AnswersDerived'
    <3>1. EndsInSpace' \/ (answer' <=> Accepts(call'.fn, call'.s, Compiled(call'.rx).p))
      BY <1>5, <2>2, <2>3, Zenon
    <3> QED
      BY <2>4, <3>1, Zenon DEF AnswersDerived
  <2> QED
    BY <1>3, <2>1, <2>5, Zenon DEF CallInv
<1> QED
  BY <1>4, <1>5 DEF Goes

LEMMA BeginAnswers ==
  ASSUME CallInv, NEW c \in Calls, Begin(c)
  PROVE  CallInv'
<1>1. /\ call' = c /\ rest' = c.s
      /\ c.s \in Seq(Char) /\ c.fn \in {"check", "match", "rmatch", "cmatch"}
  BY CallTyped DEF Begin
<1>2. (\A rx \in DOMAIN cache' : cache'[rx] = Compiled(rx).p) /\ p' = Compiled(c.rx).p
  <2>1. CASE Recall(c.rx)
    BY <2>1 DEF Recall, CallInv
  <2>2. CASE CompileAnew(c.rx)
    BY <2>2 DEF CompileAnew, CallInv
  <2> QED
    BY <2>1, <2>2 DEF Begin
<1>3. CASE c.fn = "check" \/ errors'
  <2>1. loc' = "idle" /\ (answer' <=> ~errors' /\ c.fn = "check")
    <3>1. CASE c.fn = "check"
      BY <3>1, Zenon DEF Begin, Return
    <3>2. CASE c.fn # "check" /\ errors'
      <4>1. Return(FALSE)
        BY <3>2 DEF Begin
      <4> QED
        BY <3>2, <4>1, Zenon DEF Return
    <3> QED
      BY <1>3, <3>1, <3>2
  <2>2. ~Running'
    BY <2>1 DEF Running
  <2>3. AnswersDerived'
    BY <1>1, <1>3, <2>1, Zenon DEF AnswersDerived
  <2> QED
    BY <1>2, <2>2, <2>3, Zenon DEF CallInv
<1>4. CASE c.fn # "check" /\ ~errors'
  <2>1. loc' = (IF c.fn = "cmatch" THEN "skip" ELSE "loop")
    BY <1>4 DEF Begin, GoTo
  <2>2. PICK f : f = Left(c.fn, c.s, Compiled(c.rx).p)
    OBVIOUS
  <2>3. f[0] = p'
    BY <1>2, <1>4, <2>2, LeftOfCall
  <2>4. PICK k \in 0 .. Len(c.s) : k = 0 /\ k + Len(c.s) = Len(c.s) /\ \A i \in 1 .. Len(c.s) : k + i = i
    <3>1. Len(c.s) \in Nat
      BY <1>1
    <3> QED
      BY <3>1
  <2>5. \A i \in 1 .. Len(rest') : rest'[i] = c.s[k + i]
    BY <1>1, <2>4
  <2>6. Place(c.fn, c.s, f, loc', p', u', rest')
    BY <1>1, <2>1, <2>3, <2>4, <2>5 DEF Place
  <2>7. ~Answered'
    BY <2>1 DEF Answered
  <2> QED
    BY <1>1, <1>2, <1>4, <2>2, <2>6, <2>7, Zenon DEF CallInv, AnswersDerived
<1> QED
  BY <1>3, <1>4

LEMMA RunningAnswers ==
  ASSUME CallInv, MatchTypeOK, Loop \/ Skip \/ Word \/ Trailing \/ Derive
  PROVE  CallInv'
<1>1. Running /\ UNCHANGED <<cache, errors, call>>
  BY DEF Running, Loop, Skip, Word, Trailing, Derive, Deriving, Abort, Continue
<1>2. PICK f : f = Left(call.fn, call.s, Compiled(call.rx).p)
  OBVIOUS
<1>3. /\ call \in Calls /\ call.fn # "check"
      /\ Place(call.fn, call.s, f, loc, p, u, rest)
  BY <1>1, <1>2, Zenon DEF CallInv
<1>4. Reading(call.fn, call.s, f)
  BY <1>2, <1>3, LeftOfCall
<1>5. PICK s : s = call.s
  OBVIOUS
<1>6. CASE Derive /\ Derived(p, u) = RxError
  <2>1. loc' = "aborted"
    BY <1>6 DEF Derive, Abort, GoTo
  <2>2. ~Running' /\ ~Answered'
    BY <2>1 DEF Running, Answered
  <2>3. \A rx \in DOMAIN cache' : cache'[rx] = Compiled(rx).p
    BY <1>1 DEF CallInv
  <2> QED
    BY <2>2, <2>3, Zenon DEF CallInv, AnswersDerived
<1>7. CASE Derive /\ Derived(p, u) # RxError
  <2>1. Deriving /\ Continue(Derived(p, u))
    BY <1>7 DEF Derive
  <2>2. Goes(call.fn, s, f, loc', p', u', rest', answer')
    BY <1>3, <1>4, <1>5, <2>1, DeriveGoes
  <2> QED
    BY <1>1, <1>2, <1>5, <2>2, GoesOn
<1>8. CASE Loop \/ Skip \/ Word \/ Trailing
  <2>1. Goes(call.fn, s, f, loc', p', u', rest', answer')
    BY <1>3, <1>4, <1>5, <1>8, LoopGoes, SkipGoes, WordGoes, TrailingGoes
  <2> QED
    BY <1>1, <1>2, <1>5, <2>1, GoesOn
<1> QED
  BY <1>6, <1>7, <1>8

LEMMA MatchingAnswers == CallInv /\ MatchTypeOK /\ [Next]_matchVars => CallInv'
<1> SUFFICES ASSUME CallInv, MatchTypeOK, [Next]_matchVars PROVE CallInv'
  OBVIOUS
<1>1. CASE \E c \in Calls : Begin(c)
  BY <1>1, BeginAnswers
<1>2. CASE Loop \/ Skip \/ Word \/ Trailing \/ Derive
  BY <1>2, RunningAnswers
<1>3. CASE UNCHANGED matchVars
  <2>1. (Running' <=> Running) /\ (Answered' <=> Answered) /\ (EndsInSpace' <=> EndsInSpace)
    BY <1>3 DEF matchVars, Running, Answered, EndsInSpace
  <2>2. call' = call /\ errors' = errors /\ answer' = answer /\ cache' = cache
        /\ loc' = loc /\ p' = p /\ u' = u /\ rest' = rest
    BY <1>3 DEF matchVars
  <2>3. AnswersDerived'
    BY <2>1, <2>2, Zenon DEF CallInv, AnswersDerived
  <2> QED
    BY <2>1, <2>2, <2>3, Zenon DEF CallInv
<1> QED
  BY <1>1, <1>2, <1>3 DEF Next

(***************************************************************************)
(* Whatever the derivatives are, the loops of rx_match, rx_rmatch and      *)
(* rx_cmatch answer as the derivatives by all characters of the text do,   *)
(* with the white space that the function says; with the memo of drv, too. *)
(***************************************************************************)
THEOREM AnswersAreDerived == SpecMatcher => []AnswersDerived
<1>1. Init => CallInv
  <2>1. Init => ~Running /\ ~Answered /\ DOMAIN cache = {}
    BY DEF Init, InitMatching, Running, Answered
  <2> QED
    BY <2>1, Zenon DEF CallInv, AnswersDerived
<1>2. IInv => MatchTypeOK
  BY DEF IInv
<1>3. CallInv => AnswersDerived
  BY DEF CallInv
<1> QED
  BY InitEstablishes, StepKeeps, MatchingAnswers, <1>1, <1>2, <1>3, PTL DEF SpecMatcher
=============================================================================
