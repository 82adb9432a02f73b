---------------------------- MODULE XPathProofs ----------------------------
(***************************************************************************)
(* The path of an error selects the element that the error is about, in    *)
(* every document of the kind that PathLeads names: any number of elements,*)
(* names, namespaces and prefixes, at any depth.                           *)
(*                                                                         *)
(* NodesFit says what add_child has made of each node, seen from the tree  *)
(* as it is now; ScopesFit that each namespace in scope has an alias at    *)
(* the open element of that depth.  From the two follow that an element    *)
(* keeps the bindings of its parent, and that the steps of a path select   *)
(* one node after the other on the way down.                               *)
(***************************************************************************)
EXTENDS XPathTree, Lemmas, FiniteSetTheorems

Alike(c, n) == nodes[c].parent = nodes[n].parent /\ nodes[c].name = nodes[n].name

Before(n) == {c \in 1 .. n - 1 : Alike(c, n)}

\* The prefix p of the node n has been bound by some node, for a namespace n has an alias for.
BoundBy(n, p) ==
  \E m \in 2 .. n : \E u \in DOMAIN nodes[m].aliases \cap DOMAIN nodes[n].aliases :
    u = nodes[n].namespaces[p] /\ nodes[m].aliases[u] = p

Fits(n) ==
  /\ nodes[n].parent \in 1 .. n - 1
  /\ DOMAIN nodes[nodes[n].parent].aliases \subseteq DOMAIN nodes[n].aliases
  /\ nodes[n].uri # NoUri => nodes[n].uri \in DOMAIN nodes[n].aliases
  /\ nodes[n].namespaces = Bindings(nodes[n].parent, nodes[n].aliases, nodes[n].uri)
  /\ nodes[n].xpath_name = Step(nodes[n].aliases, nodes[n].uri, nodes[n].name, Cardinality(Before(n)) + 1)
  /\ \A p \in DOMAIN nodes[n].namespaces : BoundBy(n, p)

NodesFit ==
  /\ IsSequence(nodes) /\ Len(nodes) >= 1
  /\ nodes[1].parent = 0 /\ DOMAIN nodes[1].namespaces = {}
  /\ \A n \in 2 .. Len(nodes) : Fits(n)

\* The open elements, outermost first, from the document to the current one.
Open(chain) ==
  /\ chain[1] = Document /\ chain[Len(scopes)] = current
  /\ \A k \in 1 .. Len(scopes) : chain[k] \in 1 .. Len(nodes)
  /\ \A k \in 2 .. Len(scopes) : nodes[chain[k]].parent = chain[k - 1]
  /\ \A k \in 1 .. Len(scopes) : \A x \in DOMAIN scopes[k] : scopes[k][x] \in DOMAIN nodes[chain[k]].aliases

ScopesFit == IsSequence(scopes) /\ Len(scopes) >= 1 /\ \E chain \in [1 .. Len(scopes) -> Nat] : Open(chain)

TreeInv == NodesFit /\ ScopesFit

-----------------------------------------------------------------------------
(* The invariant. *)

LEMMA InitFits == Init => TreeInv
<1> SUFFICES ASSUME Init
             PROVE  TreeInv
  OBVIOUS
<1> DEFINE root == [name |-> "", uri |-> NoUri, parent |-> 0, aliases |-> Nowhere, namespaces |-> Nowhere,
                    xpath_name |-> ByLocalName("", 0)]
<1>1. IsSequence(<<root>>) /\ IsSequence(<<Nowhere>>)
  <2>1. \A x : <<x>> \in Seq({x})
    OBVIOUS
  <2>2. \A x : IsSequence(<<x>>)
    BY <2>1, SequenceOf
  <2> QED
    BY <2>2
<1>2. root.parent = 0 /\ DOMAIN root.namespaces = {} /\ DOMAIN Nowhere = {}
  BY DEF Nowhere
<1>3. nodes = <<root>> /\ scopes = <<Nowhere>> /\ current = Document
  BY DEF Init
<1> HIDE DEF root
<1>4. NodesFit
  <2>1. nodes[1] = root /\ Len(nodes) = 1
    BY <1>3
  <2>2. \A n \in 2 .. Len(nodes) : FALSE
    BY <2>1
  <2> QED
    BY <1>1, <1>2, <1>3, <2>1, <2>2 DEF NodesFit
<1>5. ScopesFit
  <2>1. Len(scopes) = 1 /\ scopes[1] = Nowhere /\ Len(nodes) = 1
    BY <1>3
  <2>2. [k \in 1 .. 1 |-> Document] \in [1 .. Len(scopes) -> Nat]
    BY <2>1 DEF Document
  <2>3. Open([k \in 1 .. 1 |-> Document])
    BY <1>2, <1>3, <2>1 DEF Open, Document
  <2> QED
    BY <1>1, <1>3, <2>1, <2>2, <2>3 DEF ScopesFit
<1> QED
  BY <1>4, <1>5 DEF TreeInv

\* An old node of a tree that has grown is as before.
LEMMA OldNodesFit ==
  ASSUME NodesFit, NEW new, nodes' = Append(nodes, new)
  PROVE  /\ IsSequence(nodes') /\ Len(nodes') = Len(nodes) + 1 /\ Len(nodes) \in Nat
         /\ \A n \in 1 .. Len(nodes) : nodes'[n] = nodes[n]
         /\ nodes'[Len(nodes) + 1] = new
         /\ \A n \in 2 .. Len(nodes) : Fits(n)'
<1>1. /\ IsSequence(nodes') /\ Len(nodes') = Len(nodes) + 1
      /\ \A n \in 1 .. Len(nodes) : nodes'[n] = nodes[n]
      /\ nodes'[Len(nodes) + 1] = new
  BY Appended DEF NodesFit
<1>2. Len(nodes) \in Nat
  BY SequenceFacts DEF NodesFit
<1>3. ASSUME NEW n \in 2 .. Len(nodes)
      PROVE  Fits(n)'
  <2>1. Fits(n)
    BY <1>3 DEF NodesFit
  <2>2. n \in 1 .. Len(nodes) /\ \A c \in 1 .. n : nodes'[c] = nodes[c]
    BY <1>1, <1>2, <1>3
  <2>3. nodes'[n] = nodes[n] /\ nodes[n].parent \in 1 .. n
    BY <2>1, <2>2, <1>2 DEF Fits
  <2>4. nodes'[nodes'[n].parent] = nodes[nodes[n].parent]
    BY <2>2, <2>3
  <2>5. Before(n)' = Before(n)
    BY <2>2, <2>3 DEF Before, Alike
  <2>6. Bindings(nodes[n].parent, nodes[n].aliases, nodes[n].uri)'
        = Bindings(nodes[n].parent, nodes[n].aliases, nodes[n].uri)
    BY <2>3, <2>4 DEF Bindings
  <2>7. \A p : BoundBy(n, p) => BoundBy(n, p)'
    BY <2>2, <2>3 DEF BoundBy
  <2> QED
    BY <2>1, <2>3, <2>4, <2>5, <2>6, <2>7 DEF Fits
<1> QED
  BY <1>1, <1>2, <1>3

LEMMA DeclaredOnce ==
  ASSUME NEW declared \in Declarations
  PROVE  /\ \A i \in DOMAIN declared : declared[i].prefix \in PrefixNames
         /\ \A i, j \in DOMAIN declared : declared[i].prefix = declared[j].prefix => i = j
         /\ DOMAIN declared \subseteq Nat
<1>1. PICK k \in 0 .. MaxDeclared :
        /\ declared \in [1 .. k -> [prefix : PrefixNames, uri : Uris]]
        /\ \A i, j \in 1 .. k : declared[i].prefix = declared[j].prefix => i = j
  BY DEF Declarations
<1> QED
  BY <1>1

\* What a prefix stands for inside an element: what it declares, or what it did outside.
LEMMA ScopeValues ==
  ASSUME NEW declared \in Declarations, NEW x \in DOMAIN InScope(declared)
  PROVE  \/ x \in DOMAIN scopes[Len(scopes)] /\ InScope(declared)[x] = scopes[Len(scopes)][x]
         \/ \E i \in DOMAIN declared : InScope(declared)[x] = declared[i].uri
<1> DEFINE keys == PrefixesOf(declared)
           outer == scopes[Len(scopes)]
<1>1. /\ DOMAIN keys = DOMAIN declared /\ \A i \in DOMAIN declared : keys[i] = declared[i].prefix
      /\ \A i \in DOMAIN declared : NamespacesOf(declared)[i] = declared[i].uri
  BY DEF PrefixesOf, NamespacesOf
<1>2. /\ x \in DOMAIN outer \cup {keys[i] : i \in DOMAIN keys}
      /\ InScope(declared)[x] = IF \E i \in DOMAIN keys : keys[i] = x
                                THEN NamespacesOf(declared)[LastAt(keys, x)] ELSE outer[x]
  BY DEF InScope, WithAll
<1>3. CASE \E i \in DOMAIN keys : keys[i] = x
  <2>1. PICK i \in DOMAIN keys : keys[i] = x
    BY <1>3
  <2>2. \A j \in DOMAIN keys : keys[j] = x => j <= i
    BY <1>1, <2>1, DeclaredOnce
  <2>3. LastAt(keys, x) \in DOMAIN keys
    <3> HIDE DEF keys
    <3> QED
      BY <2>1, <2>2 DEF LastAt
  <2> QED
    BY <1>1, <1>2, <1>3, <2>3
<1>4. CASE ~ \E i \in DOMAIN keys : keys[i] = x
  BY <1>2, <1>4
<1> QED
  BY <1>3, <1>4

LEMMA AliasesGrow ==
  ASSUME NEW declared \in Declarations, NEW parent
  PROVE  /\ DOMAIN nodes[parent].aliases \subseteq DOMAIN Aliases(parent, declared)
         /\ \A i \in DOMAIN declared : declared[i].uri \in DOMAIN Aliases(parent, declared)
<1>1. DOMAIN Aliases(parent, declared) = DOMAIN nodes[parent].aliases
                                         \cup {NamespacesOf(declared)[i] : i \in DOMAIN NamespacesOf(declared)}
  BY DEF Aliases, WithAll
<1>2. DOMAIN NamespacesOf(declared) = DOMAIN declared /\ \A i \in DOMAIN declared : NamespacesOf(declared)[i] = declared[i].uri
  BY DEF NamespacesOf
<1> QED
  BY <1>1, <1>2

\* What add_child makes of a child fits in the tree that it is added to.
LEMMA ChildFits ==
  ASSUME NodesFit, NEW parent \in 1 .. Len(nodes), NEW name, NEW uri, NEW aliases, NEW new,
         new = add_child(parent, name, uri, aliases), nodes' = Append(nodes, new),
         DOMAIN nodes[parent].aliases \subseteq DOMAIN aliases,
         uri # NoUri => uri \in DOMAIN aliases
  PROVE  \A n : n = Len(nodes) + 1 => Fits(n)'
<1>1. PICK N \in Nat : N = Len(nodes) /\ N >= 1
  BY SequenceFacts DEF NodesFit
<1>2. /\ \A n \in 1 .. N : nodes'[n] = nodes[n]
      /\ nodes'[N + 1] = new
  BY <1>1, OldNodesFit
<1>3. DOMAIN nodes = 1 .. N /\ parent \in 1 .. N /\ N + 1 - 1 = N
  BY <1>1, SequenceFacts DEF NodesFit
<1>4. /\ new.name = name /\ new.uri = uri /\ new.parent = parent /\ new.aliases = aliases
      /\ new.namespaces = Bindings(parent, aliases, uri)
      /\ new.xpath_name = Step(aliases, uri, name, Index(parent, name))
  BY DEF add_child
<1> HIDE DEF add_child
<1>5. nodes'[parent] = nodes[parent]
  BY <1>2, <1>3
<1>6. new.namespaces = Bindings(new.parent, new.aliases, new.uri)'
  BY <1>4, <1>5 DEF Bindings
<1>7. Before(N + 1)' = {c \in 1 .. N : nodes[c].parent = parent /\ nodes[c].name = name}
  BY <1>2, <1>3, <1>4 DEF Before, Alike
<1>8. new.xpath_name = Step(new.aliases, new.uri, new.name, Cardinality(Before(N + 1)') + 1)
  BY <1>3, <1>4, <1>7 DEF Index
<1>9. ASSUME NEW p \in DOMAIN new.namespaces
      PROVE  BoundBy(N + 1, p)'
  <2>1. CASE new.namespaces = With(nodes[parent].namespaces, aliases[uri], uri) /\ uri \in DOMAIN aliases /\ p = aliases[uri]
    <3>1. new.namespaces[p] = uri
      BY <2>1, <1>9 DEF With
    <3>2. N + 1 \in 2 .. N + 1
      BY <1>1
    <3> QED
      BY <1>2, <1>4, <2>1, <3>1, <3>2 DEF BoundBy
  <2>2. CASE p \in DOMAIN nodes[parent].namespaces /\ new.namespaces[p] = nodes[parent].namespaces[p]
    <3>1. parent # 1
      BY <2>2 DEF NodesFit
    <3>2. parent \in 2 .. Len(nodes)
      BY <1>1, <1>3, <3>1
    <3>3. BoundBy(parent, p)
      BY <2>2, <3>2 DEF NodesFit, Fits
    <3>4. PICK m \in 2 .. parent : \E u \in DOMAIN nodes[m].aliases \cap DOMAIN nodes[parent].aliases :
                                     u = nodes[parent].namespaces[p] /\ nodes[m].aliases[u] = p
      BY <3>3 DEF BoundBy
    <3>5. m \in 2 .. N + 1 /\ m \in 1 .. N
      BY <1>1, <1>3, <3>4
    <3>6. nodes'[m] = nodes[m]
      BY <1>2, <3>5
    <3> QED
      BY <1>2, <1>4, <2>2, <3>4, <3>5, <3>6 DEF BoundBy
  <2>3. \/ new.namespaces = nodes[parent].namespaces
        \/ new.namespaces = With(nodes[parent].namespaces, aliases[uri], uri) /\ uri \in DOMAIN aliases
    BY <1>4 DEF Bindings
  <2> QED
    BY <1>9, <2>1, <2>2, <2>3 DEF With
<1>10. Fits(N + 1)'
  BY <1>2, <1>3, <1>4, <1>5, <1>6, <1>8, <1>9 DEF Fits
<1> QED
  BY <1>1, <1>10

LEMMA StartFits ==
  ASSUME TreeInv, NEW name \in Names, NEW prefix \in PrefixNames, NEW declared \in Declarations,
         StartElement(name, prefix, declared)
  PROVE  TreeInv'
<1>n. PICK N \in Nat : N = Len(nodes) /\ N >= 1
  BY SequenceFacts DEF TreeInv, NodesFit
<1>l. PICK L \in Nat : L = Len(scopes) /\ L >= 1
  BY SequenceFacts DEF TreeInv, ScopesFit
<1> DEFINE scope == InScope(declared)
           aliases == Aliases(current, declared)
           uri == IF prefix \in DOMAIN scope THEN scope[prefix] ELSE NoUri
           new == add_child(current, name, uri, aliases)
<1>1. PICK chain \in [1 .. L -> Nat] : Open(chain)
  BY <1>l DEF TreeInv, ScopesFit
<1>2. /\ nodes' = Append(nodes, new) /\ scopes' = Append(scopes, scope) /\ current' = N + 1
  BY <1>n DEF StartElement
<1>3. NodesFit /\ IsSequence(scopes)
  BY DEF TreeInv, ScopesFit
<1>4. /\ IsSequence(nodes') /\ Len(nodes') = N + 1
      /\ \A n \in 1 .. N : nodes'[n] = nodes[n]
      /\ nodes'[N + 1] = new
      /\ \A n \in 2 .. N : Fits(n)'
  <2> HIDE DEF new
  <2> QED
    BY <1>n, <1>2, <1>3, OldNodesFit
<1>5. /\ IsSequence(scopes') /\ Len(scopes') = L + 1
      /\ \A k \in 1 .. L : scopes'[k] = scopes[k]
      /\ scopes'[L + 1] = scope
  <2> HIDE DEF scope
  <2> QED
    BY <1>l, <1>2, <1>3, Appended
<1>6. current \in 1 .. N
  BY <1>n, <1>l, <1>1 DEF Open
<1>7. \A x \in DOMAIN scope : scope[x] \in DOMAIN aliases
  <2>1. \A x \in DOMAIN scopes[L] : scopes[L][x] \in DOMAIN nodes[current].aliases
    BY <1>l, <1>1 DEF Open
  <2>2. DOMAIN nodes[current].aliases \subseteq DOMAIN aliases
        /\ \A i \in DOMAIN declared : declared[i].uri \in DOMAIN aliases
    BY AliasesGrow
  <2> HIDE DEF aliases
  <2> QED
    BY <1>l, <2>1, <2>2, ScopeValues
<1>8. new.parent = current /\ new.aliases = aliases
  BY DEF add_child
<1>9. DOMAIN nodes[current].aliases \subseteq DOMAIN aliases
  BY AliasesGrow
<1>10. uri # NoUri => uri \in DOMAIN aliases
  BY <1>7
<1>11. Fits(N + 1)'
  <2> HIDE DEF aliases, uri
  <2> QED
    BY <1>n, <1>2, <1>3, <1>6, <1>9, <1>10, ChildFits
<1> HIDE DEF new, aliases, uri, scope
<1>12. NodesFit'
  <2>1. \A n \in 2 .. N + 1 : n \in 2 .. N \/ n = N + 1
    BY <1>4
  <2>2. nodes'[1] = nodes[1]
    BY <1>n, <1>l, <1>4
  <2> QED
    BY <1>3, <1>4, <1>11, <2>1, <2>2 DEF NodesFit
<1>13. ScopesFit'
  <2> DEFINE longer == [k \in 1 .. L + 1 |-> IF k = L + 1 THEN N + 1 ELSE chain[k]]
  <2>1. longer \in [1 .. L + 1 -> Nat]
    BY <1>4
  <2>2. /\ longer[L + 1] = N + 1
        /\ \A k \in 1 .. L : longer[k] = chain[k]
    BY <1>3
  <2> HIDE DEF longer
  <2>3. /\ \A k \in 1 .. L + 1 : k \in 1 .. L \/ k = L + 1
        /\ 1 \in 1 .. L /\ L \in 1 .. L
    BY <1>n, <1>l, <1>3
  <2>4. \A k \in 1 .. L : chain[k] \in 1 .. N /\ nodes'[chain[k]] = nodes[chain[k]]
    BY <1>n, <1>l, <1>1, <1>4 DEF Open
  <2>5. longer[1] = Document
    BY <1>1, <2>2, <2>3 DEF Open
  <2>6. \A k \in 1 .. L + 1 : longer[k] \in 1 .. N + 1
    BY <1>4, <2>2, <2>3, <2>4
  <2>7. ASSUME NEW k \in 2 .. L + 1
        PROVE  nodes'[longer[k]].parent = longer[k - 1]
    <3>1. CASE k = L + 1
      <4>1. k - 1 = L
        BY <1>3, <3>1
      <4>2. longer[L] = current
        BY <1>n, <1>l, <1>1, <2>2, <2>3 DEF Open
      <4> QED
        BY <1>4, <1>8, <2>2, <3>1, <4>1, <4>2
    <3>2. CASE k # L + 1
      <4>1. k \in 2 .. L /\ k \in 1 .. L /\ k - 1 \in 1 .. L
        BY <1>3, <3>2
      <4> QED
        BY <1>n, <1>l, <1>1, <2>2, <2>4, <4>1 DEF Open
    <3> QED
      BY <3>1, <3>2
  <2>8. ASSUME NEW k \in 1 .. L + 1
        PROVE  \A x \in DOMAIN scopes'[k] : scopes'[k][x] \in DOMAIN nodes'[longer[k]].aliases
    <3>1. CASE k = L + 1
      BY <1>4, <1>5, <1>7, <1>8, <2>2, <3>1
    <3>2. CASE k \in 1 .. L
      BY <1>n, <1>l, <1>1, <1>5, <2>2, <2>4, <3>2 DEF Open
    <3> QED
      BY <2>3, <3>1, <3>2
  <2>9. Open(longer)'
    BY <1>2, <1>4, <1>5, <2>2, <2>5, <2>6, <2>7, <2>8 DEF Open
  <2>10. Len(scopes') >= 1
    BY <1>3, <1>5
  <2> QED
    BY <1>5, <2>1, <2>9, <2>10 DEF ScopesFit
<1> QED
  BY <1>12, <1>13 DEF TreeInv

LEMMA SameNodesFit ==
  ASSUME NodesFit, nodes' = nodes
  PROVE  NodesFit'
<1>1. \A n : Before(n)' = Before(n)
  BY DEF Before, Alike
<1>2. \A parent, aliases, uri : Bindings(parent, aliases, uri)' = Bindings(parent, aliases, uri)
  BY DEF Bindings
<1>3. \A n, p : BoundBy(n, p)' <=> BoundBy(n, p)
  BY DEF BoundBy
<1>4. \A n : Fits(n) => Fits(n)'
  BY <1>1, <1>2, <1>3 DEF Fits
<1> QED
  BY <1>4 DEF NodesFit

LEMMA EndFits ==
  ASSUME TreeInv, EndElement
  PROVE  TreeInv'
<1>1. PICK L \in Nat : L = Len(scopes) /\ L >= 1
  BY SequenceFacts DEF TreeInv, ScopesFit
<1>2. PICK chain \in [1 .. L -> Nat] : Open(chain)
  BY <1>1 DEF TreeInv, ScopesFit
<1>3. /\ nodes' = nodes /\ current # Document /\ current' = nodes[current].parent
      /\ scopes' = SubSeq(scopes, 1, Len(scopes) - 1)
  BY DEF EndElement
<1>4. L # 1
  BY <1>1, <1>2, <1>3 DEF Open
<1>5. IsSequence(scopes) /\ scopes # <<>>
  BY <1>1, SequenceFacts DEF TreeInv, ScopesFit
<1>6. /\ IsSequence(scopes') /\ Len(scopes') = L - 1
      /\ \A k \in 1 .. L - 1 : scopes'[k] = scopes[k]
  BY <1>1, <1>3, <1>5, LastDropped
<1>7. NodesFit'
  BY <1>3, SameNodesFit DEF TreeInv
<1>8. ScopesFit'
  <2> DEFINE shorter == [k \in 1 .. L - 1 |-> chain[k]]
  <2>1. shorter \in [1 .. L - 1 -> Nat]
    BY <1>1
  <2>2. \A k \in 1 .. L - 1 : shorter[k] = chain[k]
    OBVIOUS
  <2> HIDE DEF shorter
  <2>3. /\ 1 \in 1 .. L - 1 /\ L - 1 \in 1 .. L - 1 /\ L \in 2 .. L /\ L - 1 >= 1
        /\ \A k \in 1 .. L - 1 : k \in 1 .. L
        /\ \A k \in 2 .. L - 1 : k \in 2 .. L /\ k - 1 \in 1 .. L - 1 /\ k \in 1 .. L - 1
    BY <1>1, <1>4
  <2>4. shorter[L - 1] = nodes[current].parent
    BY <1>1, <1>2, <2>2, <2>3 DEF Open
  <2>5. Open(shorter)'
    BY <1>1, <1>2, <1>3, <1>6, <2>2, <2>3, <2>4 DEF Open
  <2> QED
    BY <1>6, <2>1, <2>3, <2>5 DEF ScopesFit
<1> QED
  BY <1>7, <1>8 DEF TreeInv

LEMMA TreeFits == Spec => []TreeInv
<1>1. TreeInv /\ [Next]_vars => TreeInv'
  <2> SUFFICES ASSUME TreeInv, [Next]_vars
               PROVE  TreeInv'
    OBVIOUS
  <2>1. CASE UNCHANGED vars
    <3>1. nodes' = nodes /\ current' = current /\ scopes' = scopes
      BY <2>1 DEF vars
    <3>2. NodesFit'
      BY <3>1, SameNodesFit DEF TreeInv
    <3>3. ScopesFit'
      BY <3>1 DEF TreeInv, ScopesFit, Open
    <3> QED
      BY <3>2, <3>3 DEF TreeInv
  <2>2. ASSUME NEW name \in Names, NEW prefix \in PrefixNames, NEW declared \in Declarations,
               StartElement(name, prefix, declared)
        PROVE  TreeInv'
    BY <2>2, StartFits
  <2>3. CASE EndElement
    BY <2>3, EndFits
  <2> QED
    BY <2>1, <2>2, <2>3 DEF Next
<1> QED
  BY InitFits, <1>1, PTL DEF Spec

-----------------------------------------------------------------------------
(* What a tree that fits is like. *)

Told == AlikeSiblings /\ OnePrefix /\ \A n \in ElementNodes : nodes[n].uri # NoUri

LEMMA ElementsAre ==
  ASSUME NodesFit
  PROVE  /\ Len(nodes) \in Nat /\ DOMAIN nodes = 1 .. Len(nodes)
         /\ ElementNodes = 2 .. Len(nodes)
         /\ \A n \in ElementNodes : Fits(n)
BY SequenceFacts DEF NodesFit, ElementNodes, Document

\* A child keeps what its parent's prefixes are bound to.
LEMMA BindingsKept ==
  ASSUME NodesFit, OnePrefix, NEW n \in ElementNodes,
         NEW p \in DOMAIN nodes[nodes[n].parent].namespaces
  PROVE  p \in DOMAIN nodes[n].namespaces /\ nodes[n].namespaces[p] = nodes[nodes[n].parent].namespaces[p]
<1> DEFINE q == nodes[n].parent
           aliases == nodes[n].aliases
           uri == nodes[n].uri
<1>1. Fits(n) /\ n \in 2 .. Len(nodes) /\ Len(nodes) \in Nat
  BY ElementsAre
<1>2. q \in 1 .. n - 1 /\ q # 1
  BY <1>1 DEF NodesFit, Fits
<1>3. q \in 2 .. Len(nodes) /\ q \in ElementNodes
  BY <1>1, <1>2, ElementsAre
<1>4. BoundBy(q, p)
  BY <1>3 DEF NodesFit, Fits
<1>5. PICK m \in 2 .. q : \E u \in DOMAIN nodes[m].aliases \cap DOMAIN nodes[q].aliases :
                            u = nodes[q].namespaces[p] /\ nodes[m].aliases[u] = p
  BY <1>4 DEF BoundBy
<1>6. m \in ElementNodes
  BY <1>1, <1>2, <1>5, ElementsAre
<1>7. PICK u \in DOMAIN nodes[m].aliases : u \in DOMAIN aliases /\ u = nodes[q].namespaces[p] /\ nodes[m].aliases[u] = p
  BY <1>1, <1>5 DEF Fits
<1>8. aliases[u] = p
  BY <1>6, <1>7 DEF OnePrefix
<1>9. u \in UrisOf(aliases, p)
  BY <1>7, <1>8 DEF UrisOf
<1>10. \/ nodes[n].namespaces = nodes[q].namespaces
       \/ nodes[n].namespaces = With(nodes[q].namespaces, aliases[uri], uri) /\ UrisOf(aliases, aliases[uri]) = {uri}
  BY <1>1 DEF Fits, Bindings
<1> QED
  BY <1>7, <1>9, <1>10 DEF With

\* Equal names under one parent.
Namesakes(n) == {c \in ElementNodes : Alike(c, n)}

\* The number that a node is given is its place among its namesakes, and no other's.
LEMMA PlaceIsOwn ==
  ASSUME NodesFit, NEW n \in ElementNodes, NEW c \in Namesakes(n)
  PROVE  Cardinality({d \in Namesakes(n) : d <= c}) = Cardinality(Before(n)) + 1 <=> c = n
<1> DEFINE UpTo(x) == {d \in Namesakes(n) : d <= x}
<1>1. /\ Len(nodes) \in Nat /\ ElementNodes = 2 .. Len(nodes)
      /\ n \in 2 .. Len(nodes) /\ c \in 2 .. Len(nodes)
      /\ Fits(n)
  BY ElementsAre DEF Namesakes
<1>2. n \in Namesakes(n)
  BY DEF Namesakes, Alike
<1>3. ASSUME NEW x \in Int
      PROVE  IsFiniteSet(UpTo(x)) /\ Cardinality(UpTo(x)) \in Nat
  <2>1. UpTo(x) \subseteq 2 .. Len(nodes)
    BY <1>1 DEF Namesakes
  <2>2. IsFiniteSet(2 .. Len(nodes))
    BY <1>1, FS_Interval
  <2> HIDE DEF UpTo
  <2> QED
    BY <2>1, <2>2, FS_Subset, FS_CardinalityType
<1>4. ASSUME NEW x \in Namesakes(n), NEW y \in Namesakes(n), x < y
      PROVE  Cardinality(UpTo(x)) # Cardinality(UpTo(y))
  <2>1. x \in Int /\ y \in Int
    BY <1>1 DEF Namesakes
  <2>2. UpTo(x) \in SUBSET UpTo(y) /\ y \in UpTo(y) /\ y \notin UpTo(x)
    BY <1>1, <1>4, <2>1 DEF Namesakes
  <2>3. IsFiniteSet(UpTo(y))
    BY <1>3, <2>1
  <2> HIDE DEF UpTo
  <2> QED
    BY <2>2, <2>3, FS_Subset
<1>5. Cardinality(UpTo(n)) = Cardinality(Before(n)) + 1
  <2>1. \A d \in Before(n) : d # 1
    BY <1>1 DEF Before, Alike, NodesFit, Fits
  <2>2. UpTo(n) = Before(n) \cup {n}
    BY <1>1, <1>2, <2>1 DEF Namesakes, Before
  <2>3. n \notin Before(n)
    BY <1>1 DEF Before
  <2>4. IsFiniteSet(1 .. n - 1) /\ Before(n) \in SUBSET (1 .. n - 1)
    BY <1>1, FS_Interval DEF Before
  <2>5. IsFiniteSet(Before(n))
    BY <2>4, FS_Subset
  <2> HIDE DEF UpTo
  <2> QED
    BY <2>2, <2>3, <2>5, FS_AddElement
<1> HIDE DEF UpTo
<1>6. c # n => Cardinality(UpTo(c)) # Cardinality(UpTo(n))
  BY <1>1, <1>2, <1>4
<1>7. Cardinality(UpTo(c)) = Cardinality(Before(n)) + 1 <=> c = n
  BY <1>5, <1>6
<1> QED
  BY <1>7 DEF UpTo

LEMMA StepFields ==
  ASSUME NEW prefix, NEW name, NEW idx
  PROVE  /\ ByPrefix(prefix, name, idx).by = "prefix" /\ ByPrefix(prefix, name, idx).prefix = prefix
         /\ ByPrefix(prefix, name, idx).name = name /\ ByPrefix(prefix, name, idx).idx = idx
         /\ ByLocalName(name, idx).by = "local-name"
         /\ ByLocalName(name, idx).name = name /\ ByLocalName(name, idx).idx = idx
BY Zenon DEF ByPrefix, ByLocalName

\* The step of a node selects it alone among its parent's children, with all bindings
\* that hold those of the node.
LEMMA StepSelects ==
  ASSUME NodesFit, Told, NEW n \in ElementNodes, NEW bindings,
         \A p \in DOMAIN nodes[n].namespaces : p \in DOMAIN bindings /\ bindings[p] = nodes[n].namespaces[p]
  PROVE  Selected({nodes[n].parent}, nodes[n].xpath_name, bindings) = {n}
<1> DEFINE step == nodes[n].xpath_name
           aliases == nodes[n].aliases
           uri == nodes[n].uri
           idx == Cardinality(Before(n)) + 1
<1>1. Fits(n) /\ uri # NoUri
  BY ElementsAre DEF Told
<1>2. uri \in DOMAIN aliases
  BY <1>1 DEF Fits
<1>3. step.name = nodes[n].name /\ step.idx = idx
  <2>1. step = Step(aliases, uri, nodes[n].name, idx)
    BY <1>1 DEF Fits
  <2> HIDE DEF idx
  <2> QED
    BY <2>1, StepFields DEF Step
<1>4. step.by = "prefix" => step.prefix \in DOMAIN bindings /\ bindings[step.prefix] = uri
  <2>1. step = Step(aliases, uri, nodes[n].name, idx)
    BY <1>1 DEF Fits
  <2>2. CASE UrisOf(aliases, aliases[uri]) = {uri}
    <3>1. step = ByPrefix(aliases[uri], nodes[n].name, idx)
      BY <1>2, <2>1, <2>2 DEF Step
    <3>2. step.prefix = aliases[uri]
      BY <3>1, StepFields
    <3>3. nodes[n].namespaces = With(nodes[nodes[n].parent].namespaces, aliases[uri], uri)
      BY <1>1, <1>2, <2>2 DEF Fits, Bindings
    <3>4. aliases[uri] \in DOMAIN nodes[n].namespaces /\ nodes[n].namespaces[aliases[uri]] = uri
      BY <3>3 DEF With
    <3> QED
      BY <3>2, <3>4
  <2>3. CASE UrisOf(aliases, aliases[uri]) # {uri}
    <3>1. step = ByLocalName(nodes[n].name, idx)
      BY <1>2, <2>1, <2>3 DEF Step
    <3>2. step.by = "local-name"
      BY <3>1, StepFields
    <3> QED
      BY <3>2
  <2> QED
    BY <2>2, <2>3
<1> HIDE DEF step, idx, uri
<1>5. ASSUME NEW c \in ElementNodes, nodes[c].parent = nodes[n].parent
      PROVE  Passes(c, step, bindings) <=> Alike(c, n)
  <2>1. Passes(c, step, bindings) => Alike(c, n)
    BY <1>3, <1>5 DEF Passes, Alike
  <2>2. Alike(c, n) => Passes(c, step, bindings)
    <3>1. Alike(c, n) => nodes[c].uri = uri
      BY <1>5 DEF Alike, Told, AlikeSiblings, uri
    <3> QED
      BY <1>3, <1>4, <3>1 DEF Passes, Alike
  <2> QED
    BY <2>1, <2>2
<1>6. ASSUME NEW c \in ElementNodes, nodes[c].parent = nodes[n].parent
      PROVE  {d \in ElementNodes : nodes[d].parent = nodes[c].parent /\ Passes(d, step, bindings)} = Namesakes(n)
  BY <1>5, <1>6 DEF Namesakes, Alike
<1>7. ASSUME NEW c \in ElementNodes
      PROVE  c \in Selected({nodes[n].parent}, step, bindings) <=> c = n
  <2> DEFINE passing == {d \in ElementNodes : nodes[d].parent = nodes[c].parent /\ Passes(d, step, bindings)}
  <2>1. c \in Selected({nodes[n].parent}, step, bindings)
        <=> nodes[c].parent = nodes[n].parent /\ c \in passing /\ Cardinality({d \in passing : d <= c}) = step.idx
    BY DEF Selected
  <2> HIDE DEF passing
  <2>2. CASE nodes[c].parent = nodes[n].parent
    <3>1. passing = Namesakes(n)
      BY <1>6, <2>2 DEF passing
    <3>2. c \in Namesakes(n) => (Cardinality({d \in passing : d <= c}) = step.idx <=> c = n)
      BY <1>3, <3>1, PlaceIsOwn DEF idx
    <3>3. n \in Namesakes(n)
      BY DEF Namesakes, Alike
    <3> QED
      BY <2>1, <2>2, <3>1, <3>2, <3>3
  <2>3. CASE nodes[c].parent # nodes[n].parent
    BY <2>1, <2>3
  <2> QED
    BY <2>2, <2>3
<1>8. Selected({nodes[n].parent}, step, bindings) \subseteq ElementNodes
  BY DEF Selected
<1>9. Selected({nodes[n].parent}, step, bindings) = {n}
  BY <1>7, <1>8, Zenon
<1> QED
  BY <1>9 DEF step

-----------------------------------------------------------------------------
(* The way up, and the path down. *)

\* up is the way from n to the document: each node's parent after it.
GoesUp(up, n) ==
  /\ up[0] = n
  /\ \A k \in 0 .. Len(nodes) : up[k] \in 1 .. Len(nodes)
  /\ \A k \in 1 .. Len(nodes) : up[k] = IF up[k - 1] = Document THEN Document ELSE nodes[up[k - 1]].parent

LEMMA UpGoesUp ==
  ASSUME NodesFit, NEW n \in 1 .. Len(nodes)
  PROVE  GoesUp(Up(n), n)
<1> DEFINE N == Len(nodes)
           S == 1 .. N
           F == [x \in S \X Nat |-> IF x[1] = Document THEN Document ELSE nodes[x[1]].parent]
           Turns(up) == up = [k \in 0 .. N |-> IF k = 0 THEN n ELSE IF up[k - 1] = Document THEN Document
                                                                    ELSE nodes[up[k - 1]].parent]
           c == CHOOSE up : Turns(up)
<1>1. N \in Nat /\ N >= 1
  BY SequenceFacts DEF NodesFit
<1>2. ASSUME NEW x \in S
      PROVE  (IF x = Document THEN Document ELSE nodes[x].parent) \in S
  <2>1. CASE x = Document
    BY <1>1, <2>1 DEF Document
  <2>2. CASE x # Document
    <3>1. x \in 2 .. N
      BY <1>1, <2>2 DEF Document
    <3>2. nodes[x].parent \in 1 .. x - 1
      BY <3>1 DEF NodesFit, Fits
    <3> QED
      BY <1>1, <2>2, <3>1, <3>2
  <2> QED
    BY <2>1, <2>2
<1>3. F \in [S \X Nat -> S]
  <2> HIDE DEF S
  <2> QED
    BY <1>2
<1>4. PICK f \in [0 .. N -> S] : f[0] = n /\ \A k \in 1 .. N : f[k] = F[<<f[k - 1], k>>]
  <2>1. \E f \in [0 .. N -> S] : Iterates(f, n, F, N)
    <3>1. n \in S
      OBVIOUS
    <3> HIDE DEF S, F, N
    <3> QED
      BY <1>1, <1>3, <3>1, RecursionExists
  <2> QED
    BY <2>1 DEF Iterates
<1>5. Turns(f)
  <2>1. ASSUME NEW k \in 0 .. N
        PROVE  f[k] = IF k = 0 THEN n ELSE IF f[k - 1] = Document THEN Document ELSE nodes[f[k - 1]].parent
    <3>1. CASE k = 0
      BY <3>1, <1>4
    <3>2. CASE k # 0
      <4>1. k \in 1 .. N /\ k - 1 \in 0 .. N /\ k \in Nat
        BY <1>1, <3>2
      <4>2. f[k - 1] \in S /\ f[k] = F[<<f[k - 1], k>>]
        BY <1>4, <4>1
      <4>3. F[<<f[k - 1], k>>] = IF f[k - 1] = Document THEN Document ELSE nodes[f[k - 1]].parent
        BY <4>1, <4>2
      <4> QED
        BY <3>2, <4>2, <4>3
    <3> QED
      BY <3>1, <3>2
  <2> HIDE DEF S
  <2> QED
    BY <1>4, <2>1
<1>6. Turns(c)
  <2> HIDE DEF Turns
  <2> QED
    BY <1>5
<1>7. Up(n) = c
  BY DEF Up
<1> HIDE DEF c
<1>8. c[0] = n /\ \A k \in 1 .. N : c[k] = IF c[k - 1] = Document THEN Document ELSE nodes[c[k - 1]].parent
  <2>1. 0 \in 0 .. N /\ \A k \in 1 .. N : k \in 0 .. N /\ k # 0
    BY <1>1
  <2> QED
    BY <1>6, <2>1
<1>9. \A k \in 0 .. N : c[k] \in S
  <2> DEFINE T == {k \in Nat : k <= N => c[k] \in S}
  <2>1. 0 \in T
    BY <1>8
  <2>2. ASSUME NEW k \in Nat, k \in T
        PROVE  k + 1 \in T
    <3> SUFFICES ASSUME k + 1 <= N
                 PROVE  c[k + 1] \in S
      OBVIOUS
    <3>1. k + 1 \in 1 .. N /\ k + 1 - 1 = k /\ c[k] \in S
      BY <1>1, <2>2
    <3>2. c[k + 1] = IF c[k] = Document THEN Document ELSE nodes[c[k]].parent
      BY <1>8, <3>1
    <3> HIDE DEF S
    <3> QED
      BY <1>2, <3>1, <3>2
  <2>3. \A k \in Nat : k \in T
    <3> HIDE DEF T
    <3> QED
      BY <2>1, <2>2, NaturalInduction
  <2> QED
    BY <2>3
<1> QED
  BY <1>7, <1>8, <1>9 DEF GoesUp

\* The document is reached, as every step goes to a node before.
LEMMA DepthIsThere ==
  ASSUME NodesFit, NEW n \in 1 .. Len(nodes)
  PROVE  /\ Depth(n) \in 0 .. Len(nodes) /\ Up(n)[Depth(n)] = Document
         /\ \A j \in 0 .. Depth(n) - 1 : Up(n)[j] # Document
<1> DEFINE up == Up(n)
           Stops(k) == up[k] = Document /\ \A j \in 0 .. k - 1 : up[j] # Document
<1>1. PICK N \in Nat : N = Len(nodes) /\ N >= 1
  BY SequenceFacts DEF NodesFit
<1>2. /\ up[0] = n
      /\ \A k \in 0 .. N : up[k] \in 1 .. N
      /\ \A k \in 1 .. N : up[k] = IF up[k - 1] = Document THEN Document ELSE nodes[up[k - 1]].parent
  BY <1>1, UpGoesUp DEF GoesUp
<1> HIDE DEF up
<1>3. \A k \in 0 .. N : up[k] = Document \/ up[k] <= N - k
  <2> DEFINE T == {k \in Nat : k <= N => up[k] = Document \/ up[k] <= N - k}
  <2>1. 0 \in T
    BY <1>1, <1>2
  <2>2. ASSUME NEW k \in Nat, k \in T
        PROVE  k + 1 \in T
    <3> SUFFICES ASSUME k + 1 <= N, up[k + 1] # Document
                 PROVE  up[k + 1] <= N - (k + 1)
      OBVIOUS
    <3>1. k + 1 \in 1 .. N /\ k + 1 - 1 = k /\ k \in 0 .. N
      BY <1>1
    <3>2. up[k] # Document /\ up[k + 1] = nodes[up[k]].parent
      BY <1>2, <3>1
    <3>3. up[k] \in 2 .. N /\ up[k] <= N - k
      BY <1>2, <2>2, <3>1, <3>2 DEF Document
    <3>4. nodes[up[k]].parent \in 1 .. up[k] - 1
      BY <1>1, <3>3 DEF NodesFit, Fits
    <3> QED
      BY <3>2, <3>3, <3>4
  <2>3. \A k \in Nat : k \in T
    <3> HIDE DEF T
    <3> QED
      BY <2>1, <2>2, NaturalInduction
  <2> QED
    BY <2>3
<1>4. \E k \in 0 .. N : Stops(k)
  <2> DEFINE T == {k \in 0 .. N : up[k] = Document}
  <2>1. N \in 0 .. N /\ up[N] \in 1 .. N
    BY <1>1, <1>2
  <2>2. N \in T
    BY <1>1, <1>3, <2>1
  <2>3. T \in SUBSET Nat /\ T # {}
    BY <2>2
  <2> HIDE DEF T
  <2>4. PICK k \in T : \A j \in T : k <= j
    BY <2>3, LeastNatural
  <2>5. k \in 0 .. N /\ up[k] = Document
    BY <2>4 DEF T
  <2>6. ASSUME NEW j \in 0 .. k - 1
        PROVE  up[j] # Document
    <3>1. j \in 0 .. N /\ ~ (k <= j)
      BY <1>1, <2>5
    <3> QED
      BY <2>4, <3>1 DEF T
  <2> QED
    BY <2>5, <2>6
<1>5. Depth(n) = CHOOSE k \in 0 .. N : Stops(k)
  BY <1>1 DEF Depth, up
<1> HIDE DEF Stops
<1>6. Depth(n) \in 0 .. N /\ Stops(Depth(n))
  BY <1>4, <1>5
<1> QED
  BY <1>1, <1>6 DEF Stops, up

\* A descendant's bindings hold those of every node on its way up.
LEMMA BindingsOnTheWay ==
  ASSUME NodesFit, OnePrefix, NEW n \in 1 .. Len(nodes), NEW k \in 0 .. Depth(n)
  PROVE  \A p \in DOMAIN nodes[Up(n)[k]].namespaces :
           p \in DOMAIN nodes[n].namespaces /\ nodes[n].namespaces[p] = nodes[Up(n)[k]].namespaces[p]
<1> DEFINE up == Up(n)
           Holds(m) == \A p \in DOMAIN nodes[m].namespaces :
                         p \in DOMAIN nodes[n].namespaces /\ nodes[n].namespaces[p] = nodes[m].namespaces[p]
<1>1. PICK N \in Nat : N = Len(nodes) /\ N >= 1
  BY SequenceFacts DEF NodesFit
<1>2. PICK d \in 0 .. N : d = Depth(n) /\ \A j \in 0 .. d - 1 : up[j] # Document
  BY <1>1, DepthIsThere
<1>3. /\ up[0] = n
      /\ \A j \in 0 .. N : up[j] \in 1 .. N
      /\ \A j \in 1 .. N : up[j] = IF up[j - 1] = Document THEN Document ELSE nodes[up[j - 1]].parent
  BY <1>1, UpGoesUp DEF GoesUp
<1> HIDE DEF up
<1> DEFINE T == {j \in Nat : j <= d => Holds(up[j])}
<1>4. 0 \in T
  BY <1>3
<1>5. ASSUME NEW j \in Nat, j \in T
      PROVE  j + 1 \in T
  <2> SUFFICES ASSUME j + 1 <= d
               PROVE  Holds(up[j + 1])
    OBVIOUS
  <2>1. j \in 0 .. d - 1 /\ j \in 0 .. N /\ j + 1 \in 1 .. N /\ j + 1 - 1 = j /\ j <= d
    BY <1>1, <1>2
  <2>2. up[j] # Document /\ up[j] \in 1 .. N /\ up[j + 1] = nodes[up[j]].parent
    BY <1>2, <1>3, <2>1
  <2>3. up[j] \in ElementNodes
    BY <1>1, <2>2, ElementsAre DEF Document
  <2>4. Holds(up[j])
    BY <1>5, <2>1
  <2>5. ASSUME NEW p \in DOMAIN nodes[up[j + 1]].namespaces
        PROVE  /\ p \in DOMAIN nodes[up[j]].namespaces
               /\ nodes[up[j]].namespaces[p] = nodes[up[j + 1]].namespaces[p]
    BY <2>2, <2>3, BindingsKept
  <2> QED
    BY <2>4, <2>5
<1>6. \A j \in Nat : j \in T
  <2> HIDE DEF T
  <2> QED
    BY <1>4, <1>5, NaturalInduction
<1>7. Holds(up[k])
  BY <1>1, <1>2, <1>6
<1> QED
  BY <1>7 DEF up

LEMMA PathDown ==
  ASSUME NodesFit, Told, NEW n \in ElementNodes
  PROVE  Leads(n)
<1> DEFINE up == Up(n)
           bindings == nodes[n].namespaces
           path == to_xpath(n)
           Turns(after, d) == after = [k \in 0 .. d |-> IF k = 0 THEN {Document}
                                                        ELSE Selected(after[k - 1], path[k], bindings)]
<1>1. PICK N \in Nat : N = Len(nodes) /\ N >= 1
  BY SequenceFacts DEF NodesFit
<1>2. n \in 1 .. Len(nodes) /\ n # Document
  BY <1>1, ElementsAre DEF Document
<1>3. PICK d \in 0 .. N : d = Depth(n) /\ up[d] = Document /\ \A j \in 0 .. d - 1 : up[j] # Document
  BY <1>1, <1>2, DepthIsThere
<1>4. /\ up[0] = n
      /\ \A j \in 0 .. N : up[j] \in 1 .. N
      /\ \A j \in 1 .. N : up[j] = IF up[j - 1] = Document THEN Document ELSE nodes[up[j - 1]].parent
  BY <1>1, <1>2, UpGoesUp DEF GoesUp
<1>5. /\ path = [i \in 1 .. d |-> nodes[up[d - i]].xpath_name]
      /\ Len(path) = d
  <2>1. path = [i \in 1 .. d |-> nodes[up[d - i]].xpath_name]
    BY <1>3 DEF to_xpath
  <2> HIDE DEF path, up
  <2> QED
    BY <2>1
<1>6. ASSUME NEW k \in 1 .. d
      PROVE  Selected({up[d - (k - 1)]}, path[k], bindings) = {up[d - k]}
  <2> HIDE DEF up, path
  <2>1. d - k \in 0 .. d - 1 /\ d - k \in 0 .. N /\ d - (k - 1) \in 1 .. N /\ d - (k - 1) - 1 = d - k /\ d - k \in 0 .. d
    BY <1>3
  <2>2. up[d - k] # Document /\ up[d - k] \in 1 .. N /\ up[d - (k - 1)] = nodes[up[d - k]].parent
    BY <1>3, <1>4, <2>1
  <2>3. up[d - k] \in ElementNodes
    BY <1>1, <2>2, ElementsAre DEF Document
  <2>4. path[k] = nodes[up[d - k]].xpath_name
    BY <1>5
  <2>5. OnePrefix
    BY DEF Told
  <2>6. \A p \in DOMAIN nodes[up[d - k]].namespaces :
          p \in DOMAIN bindings /\ bindings[p] = nodes[up[d - k]].namespaces[p]
    BY <1>2, <1>3, <2>1, <2>5, BindingsOnTheWay DEF up
  <2> HIDE DEF bindings
  <2>7. Selected({nodes[up[d - k]].parent}, nodes[up[d - k]].xpath_name, bindings) = {up[d - k]}
    BY <2>3, <2>6, StepSelects
  <2> QED
    BY <2>2, <2>4, <2>7
<1> DEFINE after == [k \in 0 .. d |-> {up[d - k]}]
           c == CHOOSE f : Turns(f, d)
<1> HIDE DEF up, path, bindings
<1>7. Turns(after, d)
  <2>1. ASSUME NEW k \in 0 .. d
        PROVE  {up[d - k]} = IF k = 0 THEN {Document} ELSE Selected(after[k - 1], path[k], bindings)
    <3>1. CASE k = 0
      BY <1>3, <3>1
    <3>2. CASE k # 0
      <4>1. k \in 1 .. d /\ k - 1 \in 0 .. d
        BY <1>3, <3>2
      <4>2. after[k - 1] = {up[d - (k - 1)]}
        BY <4>1
      <4> HIDE DEF after
      <4> QED
        BY <1>6, <3>2, <4>1, <4>2
    <3> QED
      BY <3>1, <3>2
  <2> QED
    BY <2>1, Zenon
<1> HIDE DEF after
<1>8. Turns(c, d)
  <2> HIDE DEF Turns
  <2> QED
    BY <1>7
<1> HIDE DEF c
<1>9. \A k \in 0 .. d : c[k] = {up[d - k]}
  <2>0. ASSUME NEW m \in 1 .. d, c[m - 1] = {up[d - (m - 1)]}
        PROVE  c[m] = {up[d - m]}
    <3>1. m \in 0 .. d /\ m # 0
      BY <1>3
    <3>2. c[m] = Selected(c[m - 1], path[m], bindings)
      BY <1>8, <3>1
    <3>3. Selected({up[d - (m - 1)]}, path[m], bindings) = {up[d - m]}
      BY <1>6
    <3> QED
      BY <2>0, <3>2, <3>3
  <2> DEFINE T == {k \in Nat : k <= d => c[k] = {up[d - k]}}
  <2>1. 0 \in T
    BY <1>3, <1>8
  <2>2. ASSUME NEW k \in Nat, k \in T
        PROVE  k + 1 \in T
    <3> SUFFICES ASSUME k + 1 <= d
                 PROVE  c[k + 1] = {up[d - (k + 1)]}
      OBVIOUS
    <3>1. PICK m \in 1 .. d : m = k + 1
      BY <1>3
    <3>2. m - 1 = k /\ k <= d
      BY <1>3, <3>1
    <3>3. c[m - 1] = {up[d - (m - 1)]}
      BY <2>2, <3>2
    <3>4. c[m] = {up[d - m]}
      BY <2>0, <3>3
    <3> QED
      BY <3>1, <3>4
  <2>3. \A k \in Nat : k \in T
    <3> HIDE DEF T
    <3> QED
      BY <2>1, <2>2, NaturalInduction
  <2> QED
    BY <2>3
<1>10. c[d] = {n}
  BY <1>3, <1>4, <1>9
<1>11. SelectedBy(path, bindings) = c[d]
  BY <1>5 DEF SelectedBy, c
<1> QED
  BY <1>10, <1>11 DEF Leads, path, bindings

-----------------------------------------------------------------------------

\* The path of each element selects that element and no other, in documents of any size
\* all of whose elements are in a namespace that has one prefix, siblings of one name in
\* the same one.  (validator.rb 23-71)
THEOREM PathsLead == Spec => []PathLeads
<1>1. TreeInv => PathLeads
  BY PathDown DEF TreeInv, PathLeads, Told
<1> QED
  BY TreeFits, <1>1, PTL
=============================================================================
