------------------------------ MODULE Patterns ------------------------------
(***************************************************************************)
(* The patterns of a compiled schema and the constructors that simplify    *)
(* while they build (rn.c).                                                *)
(*                                                                         *)
(* rn.c keeps a pattern as a few integers in a heap and interns it: two    *)
(* patterns have one index exactly when they have the same kind and the    *)
(* same operands.  A pattern is therefore modelled by the term it denotes, *)
(* and equality of indices is equality of terms.  Cycles pass through      *)
(* elements, so the content of an element pattern is named by the label of *)
(* its definition; CONSTANT Content gives the pattern of each label.       *)
(***************************************************************************)
EXTENDS Naturals, Sequences

CONSTANT Content    \* [label -> pattern], the content of each element pattern

NotAllowed          == <<"notAllowed">>
Empty               == <<"empty">>
TextPattern         == <<"text">>
Choice(p1, p2)      == <<"choice", p1, p2>>
Interleave(p1, p2)  == <<"interleave", p1, p2>>
Group(p1, p2)       == <<"group", p1, p2>>
OneOrMore(p)        == <<"oneOrMore", p>>
ListOf(p)           == <<"list", p>>
Data(dt)            == <<"data", dt>>
DataExcept(p1, p2)  == <<"dataExcept", p1, p2>>
Value(dt, v)        == <<"value", dt, v>>
Attribute(nc, p)    == <<"attribute", nc, p>>
Element(nc, label)  == <<"element", nc, label>>
After(p1, p2)       == <<"after", p1, p2>>

Kind(p) == p[1]

\* Name classes; a name is a pair <<uri, local name>>.
QName(uri, local)        == <<"qname", uri, local>>
NsName(uri)              == <<"nsName", uri>>
AnyName                  == <<"anyName">>
NameExcept(nc1, nc2)     == <<"except", nc1, nc2>>
NameChoice(nc1, nc2)     == <<"nameChoice", nc1, nc2>>

-----------------------------------------------------------------------------
(***************************************************************************)
(* The nullable flag.  The constructors set it from the operands' flags,   *)
(* so for patterns without references it is this recursive function.       *)
(***************************************************************************)
RECURSIVE Nullable(_)
Nullable(p) ==
  CASE Kind(p) \in {"empty", "text"}        -> TRUE
    [] Kind(p) = "choice"                   -> Nullable(p[2]) \/ Nullable(p[3])
    [] Kind(p) \in {"interleave", "group"}  -> Nullable(p[2]) /\ Nullable(p[3])
    [] Kind(p) = "oneOrMore"                -> Nullable(p[2])
    [] OTHER                                -> FALSE

-----------------------------------------------------------------------------
(* The simplifying constructors. *)

OneOrMoreOf(p) ==
  IF Kind(p) \in {"empty", "notAllowed", "text"} THEN p ELSE OneOrMore(p)

\* What rn_group and rn_ileave share: notAllowed absorbs, empty is the unit.
Both(Build(_, _), p1, p2) ==
  CASE NotAllowed \in {p1, p2} -> NotAllowed
    [] p1 = Empty              -> p2
    [] p2 = Empty              -> p1
    [] OTHER                   -> Build(p1, p2)

GroupOf(p1, p2)      == Both(Group, p1, p2)
InterleaveOf(p1, p2) == Both(Interleave, p1, p2)

AfterOf(p1, p2) ==
  IF NotAllowed \in {p1, p2} THEN NotAllowed ELSE After(p1, p2)

\* p2 is already an alternative of the left-nested choice p1.
RECURSIVE SameChoice(_, _)
SameChoice(p1, p2) ==
  IF Kind(p1) = "choice"
  THEN p1[3] = p2 \/ SameChoice(p1[2], p2)
  ELSE p1 = p2

\* A right operand that is a choice is taken apart, so choices nest to the left.
RECURSIVE ChoiceOf(_, _)
ChoiceOf(p1, p2) ==
  IF p1 = NotAllowed THEN p2
  ELSE IF p2 = NotAllowed THEN p1
  ELSE IF Kind(p2) = "choice" THEN ChoiceOf(ChoiceOf(p1, p2[2]), p2[3])
  ELSE IF SameChoice(p1, p2) \/ (Nullable(p1) /\ p2 = Empty) THEN p1
  ELSE IF Nullable(p2) /\ p1 = Empty THEN p2
  ELSE Choice(p1, p2)
=============================================================================
