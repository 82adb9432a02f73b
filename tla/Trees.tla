------------------------------- MODULE Trees -------------------------------
(***************************************************************************)
(* XML documents as trees.  A node is a text or an element; attributes is  *)
(* a sequence of pairs <<name, value>>, children a sequence of nodes in    *)
(* which no two texts stand side by side.                                  *)
(***************************************************************************)
EXTENDS Naturals, Sequences

TextNode(s)              == <<"text", s>>
ElementNode(n, atts, ch) == <<"element", n, atts, ch>>

IsText(node)    == node[1] = "text"
IsElement(node) == node[1] = "element"

AddText(children, s) ==
  IF children # <<>> /\ IsText(children[Len(children)])
  THEN [children EXCEPT ![Len(children)] = TextNode(@[2] \o s)]
  ELSE Append(children, TextNode(s))
=============================================================================
