------------------------------ MODULE Matcher ------------------------------
(***************************************************************************)
(* rx.c in full: Matching with drv, which derives a pattern part by part   *)
(* and remembers the results in a ring of LIM_M places.                    *)
(*                                                                         *)
(* ht_m is a hash table over the places of the ring: table is the set of   *)
(* places that are in it, found by the pattern and character they hold.    *)
(***************************************************************************)
EXTENDS Matching

CONSTANTS
  LIM_M,               \* the places of the ring
  Pattern, Char,       \* the patterns and characters that the calls reach
  NextPart(_, _),      \* the next part of a pattern to derive, given results
  NoPartLeft,
  Combined(_, _, _)    \* the derivative from the results of the parts

VARIABLES
  memo,      \* the ring: a pattern, a character, the derivative
  table,     \* the places that the hash table knows
  i_m,       \* the place to be written next
  stack      \* the calls of drv that are open, outermost first

ringVars == <<memo, table, i_m>>
vars     == <<matchVars, memo, table, i_m, stack>>

Slots == 0 .. LIM_M - 1

\* The results that drv can have of the parts of a pattern: it derives at most two.
Results(q, c) ==
  LET part1 == NextPart(q, <<>>)
      d1    == Derived(part1, c)
      part2 == NextPart(q, <<d1>>)
      d2    == Derived(part2, c)
  IN  {<<>>}
        \cup (IF part1 = NoPartLeft \/ d1 = RxError THEN {}
              ELSE {<<d1>>} \cup (IF part2 = NoPartLeft \/ d2 = RxError THEN {} ELSE {<<d1, d2>>}))

ASSUME RingAssumption == LIM_M \in Nat \ {0}

\* The parts that drv can derive of a pattern.
Parts(q, c) == {NextPart(q, got) : got \in Results(q, c)} \ {NoPartLeft}

\* An expression with an error may compile to RxError, or have it inside.
ASSUME PatternsClosed ==
  /\ RxNotAllowed \in Pattern
  /\ {Compiled(c.rx).p : c \in Calls} \subseteq Pattern
  /\ {Derived(q, c) : q \in Pattern, c \in Char} \subseteq Pattern
  /\ UNION {Parts(q, c) : q \in Pattern \ {RxError}, c \in Char} \subseteq Pattern

ASSUME AnswersTyped ==
  /\ \A c \in Calls : Compiled(c.rx).malformed \in BOOLEAN
  /\ \A q \in Pattern : IsNullable(q) \in BOOLEAN

\* drv of notAllowed is notAllowed, and it accepts nothing.
ASSUME NothingFollows ==
  /\ \A c \in Char : Derived(RxNotAllowed, c) = RxNotAllowed
  /\ ~IsNullable(RxNotAllowed)

ASSUME CallsTyped ==
  /\ Calls \subseteq [fn : {"check", "match", "rmatch", "cmatch"}, rx : {c.rx : c \in Calls}, s : Seq(Char)]
  /\ " " \in Char

\* Derived is what drv computes: from the derivatives of the parts, unless one fails.
ASSUME DerivedByParts ==
  \A q \in Pattern, c \in Char :
    /\ q = RxError => Derived(q, c) = RxError
    /\ q # RxError => \A got \in Results(q, c) :
         LET part == NextPart(q, got)
         IN  IF part = NoPartLeft
             THEN Derived(q, c) = Combined(q, c, got) /\ Derived(q, c) # RxError
             ELSE /\ Len(got) < 2
                  /\ Derived(part, c) = RxError => Derived(q, c) = RxError

-----------------------------------------------------------------------------
NoEntry == [p |-> RxNotAllowed, c |-> " ", ret |-> RxNotAllowed]

\* rx_init.  What a place holds before it is written is never read.
Init ==
  /\ InitMatching
  /\ memo = [m \in Slots |-> NoEntry] /\ table = {} /\ i_m = 0
  /\ stack = <<>>

Top   == stack[Len(stack)]
Below == SubSeq(stack, 1, Len(stack) - 1)

Frame(q, c) == [p |-> q, c |-> c, got |-> <<>>, open |-> FALSE]

\* new_memo: the next place leaves the table and gets a key; is an equal one in the table?
Table0Stale == table    \* mutant: the place stays in the table under its new key
Table0      == table \ {i_m}

FoundByPattern(q, c) == {m \in Table0 : memo[m].p = q}    \* mutant: the key without the character
Found(q, c) == {m \in Table0 : memo[m].p = q /\ memo[m].c = c}

\* drv returns: to the drv that called it, or to the loop over the text.
Deliver(ret) ==
  IF Below = <<>>
  THEN stack' = <<>> /\ Continue(ret)
  ELSE /\ stack' = [Below EXCEPT ![Len(Below)].got = Append(@, ret)]
       /\ UNCHANGED matchVars

Enter ==
  /\ Deriving /\ stack = <<>>
  /\ stack' = <<Frame(p, u)>>
  /\ UNCHANGED <<matchVars, ringVars>>

AssertFails ==
  /\ stack # <<>> /\ ~Top.open /\ Top.p = RxError
  /\ stack' = <<>>
  /\ Abort
  /\ UNCHANGED ringVars

Lookup ==
  /\ stack # <<>> /\ ~Top.open /\ Top.p # RxError
  /\ memo' = [memo EXCEPT ![i_m].p = Top.p, ![i_m].c = Top.c]
  /\ table' = Table0
  /\ IF Found(Top.p, Top.c) # {}
     THEN \E m \in Found(Top.p, Top.c) : Deliver(memo[m].ret)
     ELSE stack' = Append(Below, [Top EXCEPT !.open = TRUE]) /\ UNCHANGED matchVars
  /\ UNCHANGED i_m

Descend ==
  /\ stack # <<>> /\ Top.open
  /\ NextPart(Top.p, Top.got) # NoPartLeft
  /\ stack' = Append(stack, Frame(NextPart(Top.p, Top.got), Top.c))
  /\ UNCHANGED <<matchVars, ringVars>>

\* accept_m: an equal entry, made by the parts, gives way to this one.
Accept(q, c, ret) ==
  /\ memo' = [memo EXCEPT ![i_m] = [p |-> q, c |-> c, ret |-> ret]]
  /\ IF Found(q, c) = {}
     THEN table' = Table0 \cup {i_m}
     ELSE \E m \in Found(q, c) : table' = (Table0 \ {m}) \cup {i_m}
  /\ i_m' = IF i_m + 1 >= LIM_M THEN 0 ELSE i_m + 1

Finish ==
  /\ stack # <<>> /\ Top.open
  /\ NextPart(Top.p, Top.got) = NoPartLeft
  /\ LET ret == Combined(Top.p, Top.c, Top.got)
     IN  Accept(Top.p, Top.c, ret) /\ Deliver(ret)

OwnSteps ==
  \/ (Loop \/ Skip \/ Word \/ Trailing) /\ UNCHANGED <<ringVars, stack>>
  \/ Enter \/ AssertFails \/ Lookup \/ Descend \/ Finish

NextMatcher ==
  \/ \E c \in Calls : Begin(c) /\ UNCHANGED <<ringVars, stack>>
  \/ OwnSteps

\* The code runs by itself until the call returns.
SpecMatcher == Init /\ [][NextMatcher]_vars
FairMatcher == SpecMatcher /\ WF_vars(OwnSteps)

-----------------------------------------------------------------------------
(* Properties.                                                             *)

\* Whatever places of the ring are overwritten while derivatives are computed, a
\* place that the table finds holds the derivative of its own key, and no key is
\* found in two places.
RingAgrees ==
  /\ \A m \in table : memo[m].ret = Derived(memo[m].p, memo[m].c)
  /\ \A m, n \in table : memo[m].p = memo[n].p /\ memo[m].c = memo[n].c => m = n

\* The memo changes no answer: with it, the calls do what they do with derivatives
\* computed afresh.
MemoUnseen == SpecMatching

\* Every call returns, or ends the process: each loop of the match functions and
\* of drv consumes text or a part of the pattern.
CallReturns == Running ~> ~Running
=============================================================================
