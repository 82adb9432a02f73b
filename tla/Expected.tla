------------------------------ MODULE Expected ------------------------------
(***************************************************************************)
(* What an error names as required and as allowed: rnx_expected collects   *)
(* the parts of a pattern that may come next, ruby_verror_handler asks it  *)
(* twice about the pattern before the failed step.                         *)
(*                                                                         *)
(* The list that rnx.c builds without duplicates is a set here.  How a     *)
(* part is written out (rnx_p2str, ruby_p2arr) is left out.                *)
(***************************************************************************)
EXTENDS Derivatives, FiniteSets

CONSTANT Nexp    \* nexp, the most parts an error names

ASSUME NexpPositive == Nexp \in Nat \ {0}

\* Mutant: what follows the first operand of a group is always listed.
RECURSIVE ExpectedAnywhere(_, _, _)
ExpectedAnywhere(p, first, req) ==
  CASE req /\ Nullable(p) -> {}
    [] Kind(p) \in {"choice", "interleave", "group"} ->
         ExpectedAnywhere(p[2], first, req) \cup ExpectedAnywhere(p[3], first, req)
    [] Kind(p) \in {"oneOrMore", "list", "dataExcept"} -> ExpectedAnywhere(p[2], first, req)
    [] Kind(p) = "after" ->
         ExpectedAnywhere(p[2], first, req) \cup (IF Nullable(p[2]) THEN {p} ELSE {})
    [] Kind(p) \in {"text", "data", "value", "element", "attribute"} -> {p}
    [] OTHER -> {}

(***************************************************************************)
(* expected: the parts of p that may come next, or, with req, those among  *)
(* them without which p is not complete.  first: nothing has to precede p. *)
(* Attributes have no order.  An after stands for its end tag.             *)
(***************************************************************************)
RECURSIVE Expected(_, _, _)
Expected(p, first, req) ==
  CASE req /\ Nullable(p) -> {}
    [] Kind(p) \in {"choice", "interleave"} ->
         Expected(p[2], first, req) \cup Expected(p[3], first, req)
    [] Kind(p) = "group" ->
         Expected(p[2], first, req) \cup Expected(p[3], first /\ Nullable(p[2]), req)
    [] Kind(p) \in {"oneOrMore", "list", "dataExcept"} -> Expected(p[2], first, req)
    [] Kind(p) = "after" ->
         Expected(p[2], first, req) \cup (IF first /\ Nullable(p[2]) THEN {p} ELSE {})
    [] Kind(p) \in {"text", "data", "value", "element"} -> IF first THEN {p} ELSE {}
    [] Kind(p) = "attribute" -> {p}
    [] OTHER -> {}

\* The second call adds to the list of the first: what is required is not
\* repeated as allowed.  A list that grew too long is not shown.
Shown(list, all) == IF Cardinality(all) > Nexp THEN {} ELSE list

Required(p) == Shown(Expected(p, TRUE, TRUE), Expected(p, TRUE, TRUE))

Allowed(p) ==
  LET required == Expected(p, TRUE, TRUE)
      all      == required \cup Expected(p, TRUE, FALSE)
  IN  Shown(all \ required, all)
=============================================================================
