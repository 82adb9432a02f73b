---------------------------- MODULE MCHashTable ----------------------------
(***************************************************************************)
(* HashTable with six items of five keys.  The hash values collide in a    *)
(* table of four, wrap around slot 0, and part again in a table of eight.  *)
(***************************************************************************)
EXTENDS HashTable

SmallItems  == 1 .. 6
SmallKeyOf  == [i \in SmallItems |-> IF i = 6 THEN 1 ELSE i]
SmallHash   == [k \in 1 .. 5 |-> <<0, 4, 1, -1, 8>>[k]]
=============================================================================
