------------------------------ MODULE Matching ------------------------------
(***************************************************************************)
(* The calls of rx.h: rx_check, rx_match, rx_rmatch and rx_cmatch, with    *)
(* the cache of compiled expressions and the loops over the text, one      *)
(* character at a time.  Here a derivative is one step; Matcher has the    *)
(* steps of drv and its memo, and implements this.                         *)
(***************************************************************************)
EXTENDS Sequences, Naturals

CONSTANTS
  Calls,            \* the calls made: records [fn, rx, s]
  MaxCalls,         \* bound on their number
  Compiled(_),      \* what an expression compiles to: [p, malformed]
  Derived(_, _),    \* the derivative, or RxError if an assertion fails in drv
  IsNullable(_),
  IsSpace(_),
  RxNotAllowed, RxError

ASSUME CallBound == MaxCalls \in Nat

VARIABLES
  cache,    \* the patterns of the expressions compiled so far: ht_r, r2p
  errors,   \* whether the count of errors is positive
  call,     \* the call that runs, or ran last
  loc,      \* where it is in its loop
  p,        \* the pattern that the rest of the text has to match
  u,        \* the character read last
  rest,     \* the text not read yet
  answer,   \* what the last call returned
  calls     \* how many calls were made

matchVars == <<cache, errors, call, loc, p, u, rest, answer, calls>>

Nothing == "none"    \* no character read yet
NoCall  == [fn |-> "none", rx |-> <<>>, s |-> <<>>]

Deriving == loc \in {"loop.drv", "word.drv", "space.drv"}
Running  == loc \notin {"idle", "aborted"}

-----------------------------------------------------------------------------
InitMatching ==
  /\ cache = [rx \in {} |-> RxError]
  /\ errors = FALSE
  /\ call = NoCall /\ loc = "idle"
  /\ p = RxNotAllowed /\ u = Nothing /\ rest = <<>>
  /\ answer = FALSE /\ calls = 0

\* compile.  A cached expression leaves the count of errors as it is.
Recall(rx) ==
  /\ rx \in DOMAIN cache
  /\ p' = cache[rx]
  /\ UNCHANGED <<cache, errors>>

CompileAnew(rx) ==
  /\ rx \notin DOMAIN cache
  /\ p' = Compiled(rx).p
  /\ errors' = Compiled(rx).malformed
  /\ cache' = [r \in DOMAIN cache \cup {rx} |-> IF r = rx THEN Compiled(rx).p ELSE cache[r]]

Return(value) == answer' = value /\ loc' = "idle"
GoTo(place)   == loc' = place /\ UNCHANGED answer

\* A call: rx_check answers at once, and so does a match of an expression with errors.
Begin(c) ==
  /\ loc = "idle" /\ calls < MaxCalls
  /\ call' = c /\ calls' = calls + 1
  /\ Recall(c.rx) \/ CompileAnew(c.rx)
  /\ rest' = c.s /\ u' = Nothing
  /\ CASE c.fn = "check" -> Return(~errors')
       [] c.fn # "check" /\ errors' -> Return(FALSE)
       [] c.fn # "check" /\ ~errors' -> GoTo(IF c.fn = "cmatch" THEN "skip" ELSE "loop")

Read == u' = Head(rest) /\ rest' = Tail(rest)

\* The loop of rx_match and rx_rmatch.
Loop ==
  /\ loc = "loop"
  /\ \/ /\ p = RxNotAllowed \/ rest = <<>>
        /\ Return(p # RxNotAllowed /\ IsNullable(p))
        /\ UNCHANGED <<u, rest>>
     \/ /\ p # RxNotAllowed /\ rest # <<>>
        /\ u' = (IF call.fn = "rmatch" /\ IsSpace(Head(rest)) THEN " " ELSE Head(rest))
        /\ rest' = Tail(rest)
        /\ GoTo("loop.drv")
  /\ UNCHANGED <<cache, errors, call, p, calls>>

\* Mutant: SKIP_SPACE tests the same character again.
SkipStays ==
  /\ loc = "skip"
  /\ \/ rest = <<>> /\ Return(IsNullable(p)) /\ UNCHANGED <<u, rest>>
     \/ rest # <<>> /\ IsSpace(Head(rest)) /\ GoTo("skip") /\ UNCHANGED <<u, rest>>
     \/ rest # <<>> /\ ~IsSpace(Head(rest)) /\ Read /\ GoTo("word")
  /\ UNCHANGED <<cache, errors, call, p, calls>>

\* rx_cmatch, SKIP_SPACE: white space before a word.
Skip ==
  /\ loc = "skip"
  /\ \/ rest = <<>> /\ Return(IsNullable(p)) /\ UNCHANGED <<u, rest>>
     \/ rest # <<>> /\ Read /\ GoTo(IF IsSpace(Head(rest)) THEN "skip" ELSE "word")
  /\ UNCHANGED <<cache, errors, call, p, calls>>

\* rx_cmatch, a character of a word or the white space after it.
Word ==
  /\ loc = "word"
  /\ IF p = RxNotAllowed
     THEN Return(FALSE) /\ UNCHANGED u
     ELSE IF IsSpace(u)
          THEN u' = " " /\ GoTo("space.drv")
          ELSE UNCHANGED u /\ GoTo("word.drv")
  /\ UNCHANGED <<cache, errors, call, p, rest, calls>>

\* rx_cmatch, white space that the expression does not accept: it has to be trailing.
Trailing ==
  /\ loc = "tail"
  /\ \/ rest = <<>> /\ Return(TRUE) /\ UNCHANGED <<u, rest>>
     \/ rest # <<>> /\ Read /\ (IF IsSpace(Head(rest)) THEN GoTo("tail") ELSE Return(FALSE))
  /\ UNCHANGED <<cache, errors, call, p, calls>>

\* Mutant: without the jump to SKIP_SPACE, each character of white space is a blank.
ContinueWords(ret) ==
  /\ p' = ret
  /\ CASE loc = "loop.drv" -> GoTo("loop") /\ UNCHANGED <<u, rest>>
       [] loc = "space.drv" /\ ret = RxNotAllowed -> GoTo("tail") /\ UNCHANGED <<u, rest>>
       [] loc \in {"word.drv", "space.drv"} /\ rest = <<>> -> GoTo("skip") /\ UNCHANGED <<u, rest>>
       [] OTHER -> Read /\ GoTo("word")
  /\ UNCHANGED <<cache, errors, call, calls>>

\* The derivative by u is there: the loop goes on.
Continue(ret) ==
  /\ p' = ret
  /\ CASE loc = "loop.drv"  -> GoTo("loop") /\ UNCHANGED <<u, rest>>
       [] loc = "space.drv" -> GoTo(IF ret = RxNotAllowed THEN "tail" ELSE "skip") /\ UNCHANGED <<u, rest>>
       [] loc = "word.drv" /\ rest = <<>> -> GoTo("skip") /\ UNCHANGED <<u, rest>>
       [] loc = "word.drv" /\ rest # <<>> -> Read /\ GoTo("word")
  /\ UNCHANGED <<cache, errors, call, calls>>

\* assert(!P_IS(p,P_ERROR)) fails: the process ends.
Abort ==
  /\ GoTo("aborted")
  /\ UNCHANGED <<cache, errors, call, p, u, rest, calls>>

Derive ==
  /\ Deriving
  /\ IF Derived(p, u) = RxError THEN Abort ELSE Continue(Derived(p, u))

Next ==
  \/ \E c \in Calls : Begin(c)
  \/ Loop \/ Skip \/ Word \/ Trailing
  \/ Derive

SpecMatching == InitMatching /\ [][Next]_matchVars

-----------------------------------------------------------------------------
(* What the calls promise, whatever the derivatives are.                   *)

\* The text that a call compares: white space as it is for rx_match, as a blank for
\* rx_rmatch; for rx_cmatch one blank for all of it, and none before the first word.
Shown(fn, s, k)   == IF fn # "match" /\ IsSpace(s[k]) THEN " " ELSE s[k]
Skipped(fn, s, k) == fn = "cmatch" /\ IsSpace(s[k]) /\ (k = 1 \/ IsSpace(s[k - 1]))

\* What the pattern q leaves to match, by the number of characters of s that are read.
Left(fn, s, q) ==
  LET left[k \in 0 .. Len(s)] ==
        IF k = 0 THEN q
        ELSE IF Skipped(fn, s, k) THEN left[k - 1] ELSE Derived(left[k - 1], Shown(fn, s, k))
  IN  left

Accepts(fn, s, q) == IsNullable(Left(fn, s, q)[Len(s)])

Answered == loc = "idle" /\ calls > 0

EndsInSpace == call.fn = "cmatch" /\ call.s # <<>> /\ IsSpace(call.s[Len(call.s)])

\* Whatever was compiled before, and wherever a loop stops: a call answers as the
\* derivatives by all characters of the text do, unless there are errors: then no text
\* matches.  rx_cmatch on text that ends in white space is left out.
AnswersDerived ==
  Answered /\ ~EndsInSpace =>
    (answer <=> ~errors /\ (call.fn = "check" \/ Accepts(call.fn, call.s, Compiled(call.rx).p)))
=============================================================================
