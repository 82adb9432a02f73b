----------------------------- MODULE XPathTree -----------------------------
(***************************************************************************)
(* The skeleton of the document that lib/rnv/validator.rb keeps beside the *)
(* validation: one XpathNode for each element so far, from which errors    *)
(* get the XPath of the element they are about, and the namespaces its     *)
(* prefixes stand for.                                                     *)
(*                                                                         *)
(* The parser is external: it reports elements with their local names, the *)
(* namespaces that their prefixes stand for, and what they declare.        *)
(***************************************************************************)
EXTENDS Naturals, Sequences, FiniteSets

CONSTANTS
  Names,                   \* local names
  Uris, NoUri,             \* namespaces, and the uri of an element in none
  PrefixNames,             \* prefixes; the default namespace counts as the prefix xmlns
  MaxElements, MaxDepth,   \* bounds on the documents
  MaxDeclared              \* bound on the prefixes that one element declares

ASSUME NodeBounds ==
  /\ MaxElements \in Nat /\ MaxDepth \in Nat /\ MaxDeclared \in Nat
  /\ NoUri \notin Uris

VARIABLES
  nodes,    \* the nodes in document order; the first stands for the document
  current,  \* @xpath_tree: the node of the innermost open element
  scopes    \* of the parser: what prefixes stand for, outermost element first

vars == <<nodes, current, scopes>>

Default  == "xmlns"
Document == 1

Nowhere  == [x \in {} |-> NoUri]

\* The mapping f with k going to v, and with each of the keys going to its last value.
With(f, k, v) == [x \in DOMAIN f \cup {k} |-> IF x = k THEN v ELSE f[x]]

LastAt(keys, k) == CHOOSE i \in DOMAIN keys : keys[i] = k /\ \A j \in DOMAIN keys : keys[j] = k => j <= i

WithAll(f, keys, values) ==
  [x \in DOMAIN f \cup {keys[i] : i \in DOMAIN keys} |->
     IF \E i \in DOMAIN keys : keys[i] = x THEN values[LastAt(keys, x)] ELSE f[x]]

\* What an element may declare: prefixes, each one once.
Declarations ==
  UNION {{d \in [1 .. k -> [prefix : PrefixNames, uri : Uris]] :
            \A i, j \in 1 .. k : d[i].prefix = d[j].prefix => i = j} : k \in 0 .. MaxDeclared}

PrefixesOf(declared) == [i \in DOMAIN declared |-> declared[i].prefix]
NamespacesOf(declared) == [i \in DOMAIN declared |-> declared[i].uri]

-----------------------------------------------------------------------------
(* XpathNode. *)

\* rev_namespaces: for each namespace the prefix declared last, on this or an outer element.
Aliases(parent, declared) == WithAll(nodes[parent].aliases, NamespacesOf(declared), PrefixesOf(declared))

\* all_namespaces: the namespaces that a prefix was declared for and is still known by.
UrisOf(aliases, prefix) == {u \in DOMAIN aliases : aliases[u] = prefix}

\* Mutant: the position among all children.
IndexOfChild(parent, name) == Cardinality({n \in DOMAIN nodes : nodes[n].parent = parent}) + 1

Index(parent, name) == Cardinality({n \in DOMAIN nodes : nodes[n].parent = parent /\ nodes[n].name = name}) + 1

ByPrefix(prefix, name, idx) == [by |-> "prefix", prefix |-> prefix, name |-> name, idx |-> idx]
ByLocalName(name, idx)      == [by |-> "local-name", prefix |-> "", name |-> name, idx |-> idx]

\* xpath_name and namespaces of a child: by its prefix, if it stands for one namespace only.
Step(aliases, uri, name, idx) ==
  IF uri \notin DOMAIN aliases THEN ByPrefix(Default, name, idx)
  ELSE IF UrisOf(aliases, aliases[uri]) = {uri} THEN ByPrefix(aliases[uri], name, idx)
  ELSE ByLocalName(name, idx)

Bindings(parent, aliases, uri) ==
  IF uri \in DOMAIN aliases /\ UrisOf(aliases, aliases[uri]) = {uri}
  THEN With(nodes[parent].namespaces, aliases[uri], uri)
  ELSE nodes[parent].namespaces

add_child(parent, name, uri, aliases) ==
  [name |-> name, uri |-> uri, parent |-> parent, aliases |-> aliases,
   namespaces |-> Bindings(parent, aliases, uri),
   xpath_name |-> Step(aliases, uri, name, Index(parent, name))]

\* The nodes from n up to the document, and how many of them are elements.
Up(n) ==
  LET up[k \in 0 .. Len(nodes)] == IF k = 0 THEN n
                                  ELSE IF up[k - 1] = Document THEN Document ELSE nodes[up[k - 1]].parent
  IN  up

Depth(n) == CHOOSE k \in 0 .. Len(nodes) : Up(n)[k] = Document /\ \A j \in 0 .. k - 1 : Up(n)[j] # Document

\* to_xpath: the steps from the document to a node.
to_xpath(n) == [i \in 1 .. Depth(n) |-> nodes[Up(n)[Depth(n) - i]].xpath_name]

-----------------------------------------------------------------------------
(* NokogiriSaxDocument. *)

Init ==
  /\ nodes = <<[name |-> "", uri |-> NoUri, parent |-> 0, aliases |-> Nowhere, namespaces |-> Nowhere,
                xpath_name |-> ByLocalName("", 0)]>>
  /\ current = Document
  /\ scopes = <<Nowhere>>

InScope(declared) == WithAll(scopes[Len(scopes)], PrefixesOf(declared), NamespacesOf(declared))

\* start_element_namespace.  A prefix has to be declared, a document has one root.
StartElement(name, prefix, declared) ==
  /\ Len(scopes) <= MaxDepth /\ Len(nodes) <= MaxElements
  /\ current = Document => Len(nodes) = 1
  /\ \E scope \in {InScope(declared)}, aliases \in {Aliases(current, declared)} :
       /\ prefix \in DOMAIN scope \cup {Default}
       /\ nodes' = Append(nodes, add_child(current, name, IF prefix \in DOMAIN scope THEN scope[prefix] ELSE NoUri,
                                           aliases))
       /\ scopes' = Append(scopes, scope)
  /\ current' = Len(nodes) + 1

\* end_element_namespace.
EndElement ==
  /\ current # Document
  /\ current' = nodes[current].parent
  /\ scopes' = SubSeq(scopes, 1, Len(scopes) - 1)
  /\ UNCHANGED nodes

Next ==
  \/ \E name \in Names, prefix \in PrefixNames, declared \in Declarations : StartElement(name, prefix, declared)
  \/ EndElement

Spec == Init /\ [][Next]_vars

-----------------------------------------------------------------------------
(* XPath: what a path selects, with prefixes that stand for namespaces. *)

ElementNodes == DOMAIN nodes \ {Document}

Passes(n, step, bindings) ==
  /\ nodes[n].name = step.name
  /\ step.by = "prefix" => step.prefix \in DOMAIN bindings /\ nodes[n].uri = bindings[step.prefix]

\* The child of a node that a step selects, by its position among those that pass.
Selected(parents, step, bindings) ==
  {n \in ElementNodes :
     LET passing == {c \in ElementNodes : nodes[c].parent = nodes[n].parent /\ Passes(c, step, bindings)}
     IN  nodes[n].parent \in parents /\ n \in passing /\ Cardinality({c \in passing : c <= n}) = step.idx}

SelectedBy(path, bindings) ==
  LET after[k \in 0 .. Len(path)] == IF k = 0 THEN {Document} ELSE Selected(after[k - 1], path[k], bindings)
  IN  after[Len(path)]

Leads(n) == SelectedBy(to_xpath(n), nodes[n].namespaces) = {n}

\* Siblings of one name are in one namespace.
AlikeSiblings ==
  \A m, n \in ElementNodes : nodes[m].parent = nodes[n].parent /\ nodes[m].name = nodes[n].name
                            => nodes[m].uri = nodes[n].uri

\* A namespace has one prefix in the whole document.
OnePrefix ==
  \A m, n \in ElementNodes : \A u \in DOMAIN nodes[m].aliases \cap DOMAIN nodes[n].aliases :
    nodes[m].aliases[u] = nodes[n].aliases[u]

\* The path of each element selects that element and no other, also when prefixes are
\* declared again for other namespaces: in documents all of whose elements are in a
\* namespace that has one prefix, siblings of one name in the same one.  (validator.rb 23-71)
PathLeads ==
  AlikeSiblings /\ OnePrefix /\ (\A n \in ElementNodes : nodes[n].uri # NoUri) => \A n \in ElementNodes : Leads(n)

\* The path of an error always selects an element, as the tests assert.
PathFinds == current # Document => SelectedBy(to_xpath(current), nodes[current].namespaces) # {}
=============================================================================
