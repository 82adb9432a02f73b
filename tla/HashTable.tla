----------------------------- MODULE HashTable -----------------------------
(***************************************************************************)
(* The hash table that interns patterns, name classes, strings and memo    *)
(* entries (ht.c): open addressing with probes downwards, growth by        *)
(* doubling, and deletion that closes the gap it leaves.                   *)
(*                                                                         *)
(* Items are indices into the caller's arrays; hash and equal look at what *)
(* is stored there, here KeyOf and Hash.  C masks the hash value with      *)
(* tablen - 1; tablen is a power of two, so that is the remainder.         *)
(***************************************************************************)
EXTENDS Integers, FiniteSets

CONSTANTS
  Items,      \* indices, none of them -1
  KeyOf,      \* [Items -> keys]
  Hash,       \* [keys -> Int], of the callers
  InitialLen, \* len of ht_init
  MaxTable    \* bound on the size of the table

LOAD_FACTOR == 2

ASSUME ItemsAreIndices == Items \subseteq Nat /\ KeyOf \in [Items -> DOMAIN Hash]
ASSUME HashIsInt == Hash \in [DOMAIN Hash -> Int]
ASSUME Sizes == InitialLen \in Nat \ {0} /\ MaxTable \in Nat

VARIABLES
  table,   \* [0 .. tablen - 1 -> Items \cup {-1}], the first half
  values,  \* the hash value beside each slot, the second half
  used, limit,
  asked,   \* history: the item of the last call; -1 for ht_clear
  answer   \* what the last call returned; -1 for ht_put and ht_clear

vars == <<table, values, used, limit, asked, answer>>

tablen == Cardinality(DOMAIN table)

-----------------------------------------------------------------------------
hash(i)         == Hash[KeyOf[i]]
equal(i1, i2)   == KeyOf[i1] = KeyOf[i2]
first(n, hv)    == hv % n
next(n, j)      == IF j = 0 THEN n - 1 ELSE j - 1

\* The k-th slot that a search for hash value hv looks at, in a table of n.
Probe(n, hv, k) == (hv - k) % n

\* The first of those slots that is in stops.
FirstProbe(n, hv, stops) ==
  LET ks == {k \in 0 .. n - 1 : Probe(n, hv, k) \in stops}
  IN  Probe(n, hv, CHOOSE k \in ks : \A l \in ks : k <= l)

\* Mutant: items with one first slot are taken for equal.
FindBySlot(i) ==
  FirstProbe(tablen, hash(i),
             {j \in DOMAIN table : table[j] = -1 \/ first(tablen, hash(i)) = first(tablen, values[j])})

\* Where ht_get and del stop: an empty slot or an item like i.
Find(i) ==
  FirstProbe(tablen, hash(i), {j \in DOMAIN table : table[j] = -1 \/ equal(i, table[j])})

\* Where del stops when only i itself is to be deleted.
FindSelf(i) ==
  FirstProbe(tablen, hash(i), {j \in DOMAIN table : table[j] = -1 \/ table[j] = i})

\* The empty slot for hash value hv in table t of n slots.
Free(n, t, hv) == FirstProbe(n, hv, {j \in 0 .. n - 1 : t[j] = -1})

\* ht_init: tablen doubles from one until it holds LOAD_FACTOR * len.
TableSize(len) ==
  LET n == LOAD_FACTOR * len
      doubled[e \in 0 .. n] == IF e = 0 THEN 1 ELSE 2 * doubled[e - 1]
  IN  doubled[CHOOSE e \in 0 .. n : doubled[e] >= n /\ \A d \in 0 .. e - 1 : doubled[d] < n]

Init ==
  LET n == TableSize(InitialLen)
  IN  /\ table = [j \in 0 .. n - 1 |-> -1]
      /\ values = [j \in 0 .. n - 1 |-> 0]
      /\ used = 0 /\ limit = n \div LOAD_FACTOR
      /\ asked = -1 /\ answer = -1

\* ht_clear.
Clear ==
  /\ table' = [j \in DOMAIN table |-> -1]
  /\ used' = 0 /\ asked' = -1 /\ answer' = -1
  /\ UNCHANGED <<values, limit>>

\* ht_get.
Get(i) ==
  /\ asked' = i /\ answer' = table[Find(i)]
  /\ UNCHANGED <<table, values, used, limit>>

-----------------------------------------------------------------------------
(***************************************************************************)
(* ht_put.  A table of half its slots doubles first; the items move over   *)
(* in the order of their slots, by the hash values kept beside them.       *)
(***************************************************************************)
\* Item and value of slot j of the table enter the bigger one, m, of n slots.
Move(n, m, j) ==
  LET k == Free(n, m.t, values[j])
  IN  IF table[j] = -1 THEN m
      ELSE [t |-> [m.t EXCEPT ![k] = table[j]], v |-> [m.v EXCEPT ![k] = values[j]]]

Moved ==
  LET n == 2 * tablen
      m[j \in 0 .. tablen] ==
        IF j = 0 THEN [t |-> [k \in 0 .. n - 1 |-> -1], v |-> [k \in 0 .. n - 1 |-> 0]]
        ELSE Move(n, m[j - 1], j - 1)
  IN  m[tablen]

\* The assertion of ht_put: the callers have looked for an equal item before.
Absent(i) == \A j \in DOMAIN table : table[j] # -1 => ~equal(i, table[j])

\* Mutant: the hash value of the item is not kept when the table has just grown.
PutForgetsValue(i) ==
  LET full == used = limit
      t == IF full THEN Moved.t ELSE table
      v == IF full THEN Moved.v ELSE values
      j == Free(Cardinality(DOMAIN t), t, hash(i))
  IN  /\ Absent(i)
      /\ full => 2 * tablen <= MaxTable
      /\ table' = [t EXCEPT ![j] = i]
      /\ values' = IF full THEN v ELSE [v EXCEPT ![j] = hash(i)]
      /\ used' = used + 1
      /\ limit' = IF full THEN 2 * limit ELSE limit
      /\ asked' = i /\ answer' = -1

Put(i) ==
  LET full == used = limit
      t == IF full THEN Moved.t ELSE table
      v == IF full THEN Moved.v ELSE values
      j == Free(Cardinality(DOMAIN t), t, hash(i))
  IN  /\ Absent(i)
      /\ full => 2 * tablen <= MaxTable
      /\ table' = [t EXCEPT ![j] = i]
      /\ values' = [v EXCEPT ![j] = hash(i)]
      /\ used' = used + 1
      /\ limit' = IF full THEN 2 * limit ELSE limit
      /\ asked' = i /\ answer' = -1

-----------------------------------------------------------------------------
\* Mutant: the first slot is compared with the gap only.
MovableNoWrap(k, j0, j) == k <= j0

(***************************************************************************)
(* del.  Slot k is vacated; the next item that a search could not find     *)
(* past the gap, because its first slot j0 is not between k and its slot   *)
(* j, moves into the gap and leaves another.                               *)
(***************************************************************************)
Movable(k, j0, j) ==
  /\ k <= j0 \/ j0 < j
  /\ j0 < j \/ j <= k
  /\ j <= k \/ k <= j0

\* One turn of the loop of del, if slot k is not empty yet: it is vacated, and filled
\* again by the next item that may move, whose slot is then the one to vacate.
CloseGap(c) ==
  LET t == [c.t EXCEPT ![c.k] = -1]
      j == FirstProbe(tablen, next(tablen, c.k),
                      {x \in DOMAIN t : t[x] = -1 \/ Movable(c.k, first(tablen, c.v[x]), x)})
  IN  IF c.t[c.k] = -1 THEN c
      ELSE [t |-> [t EXCEPT ![c.k] = t[j]], v |-> [c.v EXCEPT ![c.k] = c.v[j]], k |-> j]

Closed(start) ==
  LET c[m \in 0 .. tablen] ==
        IF m = 0 THEN [t |-> table, v |-> values, k |-> start] ELSE CloseGap(c[m - 1])
  IN  c[tablen]

\* Mutant: the counter is not decremented.
DeleteAtKeepsCount(j) ==
  IF used = 0 \/ table[j] = -1
  THEN answer' = -1 /\ UNCHANGED <<table, values, used, limit>>
  ELSE /\ answer' = table[j]
       /\ table' = Closed(j).t /\ values' = Closed(j).v
       /\ UNCHANGED <<used, limit>>

DeleteAt(j) ==
  IF used = 0 \/ table[j] = -1
  THEN answer' = -1 /\ UNCHANGED <<table, values, used, limit>>
  ELSE /\ answer' = table[j]
       /\ table' = Closed(j).t /\ values' = Closed(j).v
       /\ used' = used - 1
       /\ UNCHANGED limit

\* ht_del and ht_deli.
Del(i)  == DeleteAt(Find(i)) /\ asked' = i
Deli(i) == DeleteAt(FindSelf(i)) /\ asked' = i

Next ==
  \/ Clear
  \/ \E i \in Items : Get(i)
  \/ \E i \in Items : Put(i)
  \/ \E i \in Items : Del(i)
  \/ \E i \in Items : Deli(i)

Spec == Init /\ [][Next]_vars

-----------------------------------------------------------------------------
(* Properties. *)

Slots == {j \in DOMAIN table : table[j] # -1}

\* The counter and the limit agree with the table, which never fills up: a search
\* always meets an empty slot, so that no loop of ht.c runs for ever.
RoomLeft ==
  /\ used = Cardinality(Slots) /\ limit = tablen \div LOAD_FACTOR
  /\ used <= limit /\ limit < tablen

\* Every item is found by its key, through whatever deletions closed gaps around
\* it and however often the table grew.
AllFound == \A j \in Slots : Find(table[j]) = j

\* The hash value beside an item is its own, so growing moves it where it is
\* looked for.
ValuesKept == \A j \in Slots : values[j] = hash(table[j])

Interning == INSTANCE InternSet WITH
  members <- {table[j] : j \in Slots}, None <- -1

\* The table is a set of items, at most one with each key: nothing is lost, kept
\* twice or answered for another key.
IsInternSet == Interning!Spec
=============================================================================
