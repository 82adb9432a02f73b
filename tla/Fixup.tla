------------------------------- MODULE Fixup -------------------------------
(***************************************************************************)
(* rnd_fixup (rnd.c): after a grammar is read, references are replaced by  *)
(* what they refer to, the restrictions of RELAX NG are checked, and the   *)
(* nullable flags are computed again, for recursive patterns.              *)
(***************************************************************************)
EXTENDS Store

LOCAL INSTANCE SequencesExt

-----------------------------------------------------------------------------
(***************************************************************************)
(* de: what reference p refers to at the end of a chain of references, or  *)
(* p itself.  A chain that runs into a cycle without p has no end: NoPat.  *)
(***************************************************************************)
RECURSIVE Follow(_, _, _, _)
Follow(heap, p0, p, steps) ==
  LET q == heap[p].a
  IN  IF heap[q].kind # "ref" \/ q = p0 THEN q
      ELSE IF steps = 0 THEN NoPat
      ELSE Follow(heap, p0, q, steps - 1)

De(heap, p) == Follow(heap, p, p, Len(heap))

Target(heap, p) == IF heap[p].kind = "ref" THEN De(heap, p) ELSE p

\* The operands of a cell in their order.
OperandSeq(c) ==
  CASE c.kind \in Binary -> <<c.a, c.b>>
    [] c.kind \in Unary  -> <<c.a>>
    [] OTHER             -> <<>>

\* Mutant: interned without looking for an equal pattern.
ResolveBlindly(st, p) ==
  LET c == st.heap[p]
      d == [c EXCEPT !.a = IF c.kind \in Binary \cup Unary THEN Target(st.heap, @) ELSE @,
                     !.b = IF c.kind \in Binary THEN Target(st.heap, @) ELSE @]
  IN  IF c = d THEN st ELSE HtPut([HtDeli(st, p) EXCEPT !.heap[p] = d], p)

\* The cell of p with its references replaced; interned anew if it changed.
Resolve(st, p) ==
  LET c == st.heap[p]
      d == [c EXCEPT !.a = IF c.kind \in Binary \cup Unary THEN Target(st.heap, @) ELSE @,
                     !.b = IF c.kind \in Binary THEN Target(st.heap, @) ELSE @]
  IN  IF c = d THEN st ELSE AddP([HtDeli(st, p) EXCEPT !.heap[p] = d], p)

\* flatten.
Flatten(flat, p) == IF Contains(flat, p) THEN flat ELSE Append(flat, p)

(***************************************************************************)
(* deref: [st, flat], where flat lists the patterns reachable from start.  *)
(* A flat that holds NoPat stands for a run that never ends.               *)
(***************************************************************************)
RECURSIVE DerefFrom(_, _, _)
DerefFrom(st, flat, i) ==
  IF i > Len(flat) \/ Contains(flat, NoPat) THEN [st |-> st, flat |-> flat]
  ELSE LET done == Resolve(st, flat[i])
       IN  DerefFrom(done, FoldLeft(Flatten, flat, OperandSeq(done.heap[flat[i]])), i + 1)

Deref(st, start) == DerefFrom(st, <<Target(st.heap, start)>>, 1)

-----------------------------------------------------------------------------
(* restrictions. *)

\* loop: p comes back to itself, or to a reference, without an element between.
RECURSIVE Loop(_, _, _)
Loop(heap, p, path) ==
  \/ p \in path \/ heap[p].kind = "ref"
  \/ heap[p].kind # "element" /\ \E q \in Operands(heap[p]) : Loop(heap, q, path \cup {p})

ElementsOf(heap, ps) == {p \in ps : heap[p].kind = "element"}

\* loops: the first pattern of flat is the start pattern, and only that.
LoopErrors(heap, flat) ==
  LET later == {flat[i] : i \in 2 .. Len(flat)}
  IN  (IF Loop(heap, flat[1], {}) THEN {"LOOPST"} ELSE {})
      \cup {"LOOPEL" : p \in {q \in ElementsOf(heap, later) : Loop(heap, heap[q].a, {})}}

\* ctype: the content type is 0 for none, 1 for empty, 2 for complex, 3 for simple.
Groupable(t1, t2) == (t1 = 2 /\ t2 = 2) \/ t1 = 1 \/ t2 = 1
Larger(t1, t2)    == IF t1 > t2 THEN t1 ELSE t2

RECURSIVE ContentType(_, _)
ContentType(heap, p) ==
  LET c == heap[p]
      ta == ContentType(heap, c.a)
      tb == ContentType(heap, c.b)
  IN  CASE c.kind \in {"notAllowed", "empty"}       -> 1
        [] c.kind \in {"text", "element"}           -> 2
        [] c.kind \in {"list", "data", "value"}     -> 3
        [] c.kind = "choice"                        -> Larger(ta, tb)
        [] c.kind \in {"group", "interleave"}       -> IF Groupable(ta, tb) THEN Larger(ta, tb) ELSE 0
        [] c.kind = "oneOrMore"                     -> IF Groupable(ta, ta) THEN ta ELSE 0
        [] c.kind = "dataExcept"                    -> IF tb # 0 THEN 3 ELSE 0
        [] c.kind = "attribute"                     -> IF ta # 0 THEN 1 ELSE 0

\* ctypes.
TypeErrors(heap, flat) ==
  {"CTYPE" : p \in {q \in ElementsOf(heap, ToSet(flat)) : ContentType(heap, heap[q].a) = 0}}

-----------------------------------------------------------------------------
(***************************************************************************)
(* The bad_ functions: each refuses some kinds of patterns and looks on    *)
(* below others.                                                           *)
(***************************************************************************)
RECURSIVE Bad(_, _, _, _)
Bad(heap, p, refused, through) ==
  LET c == heap[p]
  IN  c.kind \in refused \/ (c.kind \in through /\ \E q \in Operands(c) : Bad(heap, q, refused, through))

BadStart(heap, p) ==
  Bad(heap, p, {"empty", "text", "interleave", "group", "oneOrMore", "list", "data",
                "dataExcept", "value", "attribute"}, {"choice"})

BadList(heap, p) ==
  Bad(heap, p, {"text", "interleave", "attribute", "element"},
      {"choice", "group", "dataExcept", "oneOrMore", "list"})

BadAttribute(heap, p) ==
  Bad(heap, p, {"attribute", "element"}, (Binary \cup Unary) \ {"attribute", "element"})

(***************************************************************************)
(* bad_data_except reads a pattern with an exception by the accessor of    *)
(* choices, which asserts that it is one: "assertion".                     *)
(***************************************************************************)
RECURSIVE BadDataExcept(_, _)
BadDataExcept(heap, p) ==
  LET c == heap[p]
  IN  CASE c.kind \in {"notAllowed", "value", "data"} -> "good"
        [] c.kind = "dataExcept" -> "assertion"
        [] c.kind = "choice" -> LET first == BadDataExcept(heap, c.a)
                                IN  IF first = "good" THEN BadDataExcept(heap, c.b) ELSE first
        [] OTHER -> "bad"

RECURSIVE BadOneOrMore(_, _, _)
BadOneOrMore(heap, p, inGroup) ==
  LET c == heap[p]
      grouped == inGroup \/ c.kind \in {"interleave", "group"}
  IN  \/ c.kind = "attribute" /\ inGroup
      \/ c.kind # "element" /\ \E q \in Operands(c) : BadOneOrMore(heap, q, grouped)

(* path: the patterns of a content are looked at one by one. *)
RECURSIVE PathErrors(_, _)
PathErrors(heap, p) ==
  LET c == heap[p]
      here == CASE c.kind = "dataExcept" /\ BadDataExcept(heap, c.b) # "good" ->
                     {IF BadDataExcept(heap, c.b) = "bad" THEN "BADEXPT" ELSE "assertion"}
                [] c.kind = "oneOrMore" /\ BadOneOrMore(heap, c.a, FALSE) -> {"BADMORE"}
                [] c.kind = "list" /\ BadList(heap, c.a)                  -> {"BADLIST"}
                [] c.kind = "attribute" /\ BadAttribute(heap, c.a)        -> {"BADATTR"}
                [] OTHER                                                  -> {}
  IN  IF c.kind = "element" THEN {}
      ELSE here \cup UNION {PathErrors(heap, q) : q \in Operands(c)}

\* paths.
BadPaths(heap, flat) ==
  (IF BadStart(heap, flat[1]) THEN {"BADSTART"} ELSE {})
  \cup UNION {PathErrors(heap, heap[p].a) : p \in ElementsOf(heap, ToSet(flat))}

\* ctype does not end on a content that loops.
Endless(heap, flat) ==
  \E p \in ElementsOf(heap, ToSet(flat)) : Loop(heap, heap[p].a, {})

-----------------------------------------------------------------------------
(* traits: nullables. *)

NullableNow(heap, p) ==
  LET c == heap[p]
  IN  CASE c.kind = "choice"                  -> heap[c.a].nul \/ heap[c.b].nul
        [] c.kind \in {"interleave", "group"} -> heap[c.a].nul /\ heap[c.b].nul
        [] c.kind = "oneOrMore"               -> heap[c.a].nul
        [] OTHER                              -> FALSE

SetNullable(heap, p) == IF heap[p].nul THEN heap ELSE [heap EXCEPT ![p].nul = NullableNow(heap, p)]

RECURSIVE Nullables(_, _)
Nullables(heap, flat) ==
  LET round == FoldLeft(SetNullable, heap, flat)
  IN  IF round = heap THEN heap ELSE Nullables(round, flat)
=============================================================================
