----------------------------- MODULE InternSet -----------------------------
(***************************************************************************)
(* What the hash table of ht.c promises: it holds a set of items, at most  *)
(* one with each key, and finds the one with the key of an item.           *)
(***************************************************************************)
CONSTANTS Items, KeyOf, None    \* KeyOf \in [Items -> keys]; None \notin Items

VARIABLES
  members,  \* the items held
  asked,    \* the item of the last call
  answer    \* what it returned

vars == <<members, asked, answer>>

Equal(i) == {m \in members : KeyOf[m] = KeyOf[i]}

Init == members = {} /\ asked = None /\ answer = None

Get(i) ==
  /\ asked' = i
  /\ answer' \in IF Equal(i) = {} THEN {None} ELSE Equal(i)
  /\ UNCHANGED members

Put(i) ==
  /\ asked' = i
  /\ Equal(i) = {}
  /\ members' = members \cup {i} /\ answer' = None

Del(i) ==
  /\ asked' = i
  /\ answer' \in IF Equal(i) = {} THEN {None} ELSE Equal(i)
  /\ members' = members \ {answer'}

Deli(i) ==
  /\ asked' = i
  /\ answer' = IF i \in members THEN i ELSE None
  /\ members' = members \ {i}

Clear == members' = {} /\ asked' = None /\ answer' = None

Next ==
  \/ Clear
  \/ \E i \in Items : Get(i) \/ Put(i) \/ Del(i) \/ Deli(i)

Spec == Init /\ [][Next]_vars
=============================================================================
