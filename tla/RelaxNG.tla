------------------------------ MODULE RelaxNG ------------------------------
(***************************************************************************)
(* What it means for a document to be valid: the matching relation of the  *)
(* RELAX NG language, stated over whole trees.  Nothing here is taken from *)
(* the derivative engine; the two are compared by the runs of MCValidator. *)
(*                                                                         *)
(* A pattern is matched against a set A of attributes and a sequence m of  *)
(* nodes.                                                                  *)
(***************************************************************************)
EXTENDS Patterns, Datatypes, Trees

RECURSIVE InClass(_, _)
InClass(nc, name) ==
  \/ nc[1] = "qname"      /\ name = <<nc[2], nc[3]>>
  \/ nc[1] = "nsName"     /\ name[1] = nc[2]
  \/ nc[1] = "anyName"
  \/ nc[1] = "except"     /\ InClass(nc[2], name) /\ ~InClass(nc[3], name)
  \/ nc[1] = "nameChoice" /\ (InClass(nc[2], name) \/ InClass(nc[3], name))

\* The nodes of m at the positions in I, in their order.
Pick(m, I) ==
  LET Nth(k) == CHOOSE i \in I : Cardinality({j \in I : j <= i}) = k
  IN  [k \in 1 .. Cardinality(I) |-> m[Nth(k)]]

\* White space between elements is not significant.
Significant(m) ==
  IF \E i \in DOMAIN m : IsElement(m[i])
  THEN Pick(m, {i \in DOMAIN m : IsElement(m[i]) \/ ~Whitespace(m[i][2])})
  ELSE m

AttributeSet(atts) == {atts[i] : i \in DOMAIN atts}

RECURSIVE Matches(_, _, _, _), Weakly(_, _, _, _)

(* The strict relation: attributes A and children m match pattern p. *)
Matches(p, A, m, libs) ==
  \/ Kind(p) = "empty"  /\ A = {} /\ m = <<>>
  \/ Kind(p) = "text"   /\ A = {} /\ \A i \in DOMAIN m : IsText(m[i])
  \/ Kind(p) = "choice" /\ (Matches(p[2], A, m, libs) \/ Matches(p[3], A, m, libs))
  \/ /\ Kind(p) = "group"
     /\ \E B \in SUBSET A, k \in 0 .. Len(m) :
          /\ Matches(p[2], B, SubSeq(m, 1, k), libs)
          /\ Matches(p[3], A \ B, SubSeq(m, k + 1, Len(m)), libs)
  \/ /\ Kind(p) = "interleave"
     /\ \E B \in SUBSET A, I \in SUBSET DOMAIN m :
          /\ Matches(p[2], B, Pick(m, I), libs)
          /\ Matches(p[3], A \ B, Pick(m, DOMAIN m \ I), libs)
  \/ /\ Kind(p) = "oneOrMore"
     /\ \/ Matches(p[2], A, m, libs)
        \/ \E B \in SUBSET A, k \in 0 .. Len(m) :
             /\ B # {} \/ k > 0
             /\ B # A \/ k < Len(m)
             /\ Matches(p[2], B, SubSeq(m, 1, k), libs)
             /\ Matches(p, A \ B, SubSeq(m, k + 1, Len(m)), libs)
  \/ /\ Kind(p) = "attribute" /\ m = <<>>
     /\ \E a \in A : /\ A = {a}
                     /\ InClass(p[2], a[1])
                     /\ Weakly(p[3], {}, <<TextNode(a[2])>>, libs)
  \/ /\ Kind(p) = "element" /\ A = {} /\ Len(m) = 1 /\ IsElement(m[1])
     /\ InClass(p[2], m[1][2])
     /\ Weakly(Content[p[3]], AttributeSet(m[1][3]), Significant(m[1][4]), libs)
  \/ /\ Kind(p) = "list" /\ A = {} /\ Len(m) = 1 /\ IsText(m[1])
     /\ Matches(p[2], {}, [i \in DOMAIN Words(m[1][2]) |-> TextNode(Words(m[1][2])[i])], libs)
  \/ /\ Kind(p) \in {"data", "value", "dataExcept"} /\ A = {} /\ Len(m) = 1 /\ IsText(m[1])
     /\ \/ Kind(p) = "data"  /\ Allows(p[2], m[1][2], libs)
        \/ Kind(p) = "value" /\ Equal(p[2], p[3], m[1][2], libs)
        \/ /\ Kind(p) = "dataExcept"
           /\ Matches(p[2], {}, m, libs)
           /\ ~Matches(p[3], {}, m, libs)

(* No children are the empty text, and white space is as good as nothing. *)
Weakly(p, A, m, libs) ==
  \/ Matches(p, A, m, libs)
  \/ m = <<>> /\ Matches(p, A, <<TextNode(<<>>)>>, libs)
  \/ /\ Len(m) = 1 /\ IsText(m[1]) /\ Whitespace(m[1][2])
     /\ Matches(p, A, <<>>, libs)

(* The document whose root is this element is valid for the start pattern. *)
Valid(start, root, libs) == Matches(start, {}, <<root>>, libs)
=============================================================================
