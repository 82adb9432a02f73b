-------------------------- MODULE HashTableProofs --------------------------
(***************************************************************************)
(* Theorems about HashTable, for every set of items, every hash function   *)
(* and every size: the table never fills up, finds every item, and is the  *)
(* set that InternSet promises.                                            *)
(***************************************************************************)
EXTENDS HashTable, FiniteSetTheorems, Lemmas

Slot(n) == 0 .. n - 1

\* So many steps down, around the end of a table of n, lead from slot f to slot j.
Steps(n, f, j) == IF j <= f THEN f - j ELSE f - j + n

\* Table t with values v of n slots.
IsTable(n, t, v) == t \in [Slot(n) -> Items \cup {-1}] /\ v \in [Slot(n) -> Int]

Taken(n, t)  == {j \in Slot(n) : t[j] # -1}
Own(n, t, v) == \A j \in Taken(n, t) : v[j] = hash(t[j])
Distinct(n, t) == \A i, j \in Taken(n, t) : equal(t[i], t[j]) => i = j

\* A search that starts at slot f meets no empty slot before slot j, except at most slot k.
Leads(n, t, f, j, k) == \A x \in Slot(n) \ {k} : Steps(n, f, x) < Steps(n, f, j) => x \in Taken(n, t)

\* Every item but the one in slot k is reached by the search for its value, over
\* whatever is in slot k.
ChainedBut(n, t, v, k) == \A j \in Taken(n, t) \ {k} : Leads(n, t, first(n, v[j]), j, k)

\* No slot of a table of n is slot n.
Chained(n, t, v) == ChainedBut(n, t, v, n)

Members(n, t) == {t[j] : j \in Taken(n, t)}

Good(n, t, v) == IsTable(n, t, v) /\ Own(n, t, v) /\ Distinct(n, t) /\ Chained(n, t, v)

\* The inductive invariant.
TypeOK ==
  /\ limit \in Nat \ {0}
  /\ used \in Nat
  /\ asked \in Items \cup {-1} /\ answer \in Items \cup {-1}

IInv ==
  /\ TypeOK
  /\ Good(2 * limit, table, values)
  /\ used = Cardinality(Taken(2 * limit, table)) /\ used <= limit

-----------------------------------------------------------------------------
(* Slots and steps. *)

LEMMA FirstIsSlot ==
  ASSUME NEW n \in Nat \ {0}, NEW hv \in Int
  PROVE  first(n, hv) \in Slot(n)
BY Remainder DEF first, Slot

LEMMA StepsInRange ==
  ASSUME NEW n \in Nat \ {0}, NEW f \in Slot(n), NEW j \in Slot(n)
  PROVE  Steps(n, f, j) \in Slot(n)
BY DEF Slot, Steps

LEMMA StepsInjective ==
  ASSUME NEW n \in Nat \ {0}, NEW f \in Slot(n), NEW i \in Slot(n), NEW j \in Slot(n),
         Steps(n, f, i) = Steps(n, f, j)
  PROVE  i = j
BY DEF Slot, Steps

LEMMA ProbeSteps ==
  ASSUME NEW n \in Nat \ {0}, NEW hv \in Int, NEW k \in Slot(n)
  PROVE  Probe(n, hv, k) \in Slot(n) /\ Steps(n, first(n, hv), Probe(n, hv, k)) = k
<1> DEFINE f == hv % n
<1>1. f \in 0 .. n - 1
  BY Remainder
<1>2. (hv - k) % n = IF k <= f THEN f - k ELSE f - k + n
  BY RemainderDown DEF Slot
<1> HIDE DEF f
<1>3. Probe(n, hv, k) = IF k <= f THEN f - k ELSE f - k + n
  BY <1>2 DEF Probe
<1>4. first(n, hv) = f
  BY DEF first, f
<1> QED
  BY <1>1, <1>3, <1>4 DEF Slot, Steps

LEMMA StepsProbe ==
  ASSUME NEW n \in Nat \ {0}, NEW hv \in Int, NEW j \in Slot(n)
  PROVE  Probe(n, hv, Steps(n, first(n, hv), j)) = j
<1> DEFINE f == first(n, hv)
           k == Steps(n, f, j)
<1>1. f \in Slot(n) /\ k \in Slot(n)
  BY FirstIsSlot, StepsInRange
<1>2. Probe(n, hv, k) \in Slot(n) /\ Steps(n, f, Probe(n, hv, k)) = k
  BY <1>1, ProbeSteps
<1> QED
  BY <1>1, <1>2, StepsInjective

\* A search ends at the stop that is fewest steps away.
LEMMA FirstProbeFinds ==
  ASSUME NEW n \in Nat \ {0}, NEW hv \in Int, NEW stops \in SUBSET Slot(n), stops # {}
  PROVE  /\ FirstProbe(n, hv, stops) \in stops
         /\ \A j \in stops : Steps(n, first(n, hv), FirstProbe(n, hv, stops)) <= Steps(n, first(n, hv), j)
<1> DEFINE f  == first(n, hv)
           ks == {k \in 0 .. n - 1 : Probe(n, hv, k) \in stops}
           k0 == CHOOSE k \in ks : \A l \in ks : k <= l
<1>1. \A j \in stops : Steps(n, f, j) \in ks
  BY FirstIsSlot, StepsInRange, StepsProbe DEF Slot
<1>2. ks \in SUBSET Nat /\ ks # {}
  BY <1>1
<1>3. \E k \in ks : \A l \in ks : k <= l
  <2> HIDE DEF ks
  <2> QED
    BY <1>2, LeastNatural
<1>4. k0 \in ks /\ \A l \in ks : k0 <= l
  BY <1>3
<1>5. FirstProbe(n, hv, stops) = Probe(n, hv, k0)
  BY DEF FirstProbe
<1>6. Probe(n, hv, k0) \in stops /\ k0 \in Slot(n)
  BY <1>4 DEF Slot
<1>7. Steps(n, f, Probe(n, hv, k0)) = k0
  BY <1>6, ProbeSteps
<1> HIDE DEF k0, ks
<1> QED
  BY <1>1, <1>4, <1>5, <1>6, <1>7

\* The stop before which there is no other is where a search ends.
LEMMA FirstProbeIs ==
  ASSUME NEW n \in Nat \ {0}, NEW hv \in Int, NEW stops \in SUBSET Slot(n), NEW j \in stops,
         \A x \in stops : Steps(n, first(n, hv), j) <= Steps(n, first(n, hv), x)
  PROVE  FirstProbe(n, hv, stops) = j
<1> DEFINE f == first(n, hv)
           p == FirstProbe(n, hv, stops)
<1>1. p \in stops /\ Steps(n, f, p) <= Steps(n, f, j)
  BY FirstProbeFinds
<1>2. f \in Slot(n) /\ j \in Slot(n) /\ p \in Slot(n)
  BY <1>1, FirstIsSlot
<1>3. Steps(n, f, p) \in Slot(n) /\ Steps(n, f, j) \in Slot(n)
  BY <1>2, StepsInRange
<1>4. Steps(n, f, j) <= Steps(n, f, p)
  BY <1>1
<1> HIDE DEF f, p
<1>5. Steps(n, f, p) = Steps(n, f, j)
  BY <1>1, <1>3, <1>4 DEF Slot
<1> QED
  BY <1>2, <1>5, StepsInjective DEF p

-----------------------------------------------------------------------------
(* Tables and what they hold. *)

LEMMA ItemFacts ==
  ASSUME NEW i \in Items
  PROVE  i \in Int /\ i # -1 /\ hash(i) \in Int
BY ItemsAreIndices, HashIsInt DEF hash

LEMMA TakenFinite ==
  ASSUME NEW n \in Nat \ {0}, NEW t
  PROVE  /\ IsFiniteSet(Slot(n)) /\ Cardinality(Slot(n)) = n
         /\ IsFiniteSet(Taken(n, t)) /\ Cardinality(Taken(n, t)) \in Nat
<1>1. IsFiniteSet(Slot(n)) /\ Cardinality(Slot(n)) = n
  BY FS_Interval DEF Slot
<1>2. Taken(n, t) \in SUBSET Slot(n)
  BY DEF Taken
<1> QED
  BY <1>1, <1>2, FS_Subset, FS_CardinalityType

LEMMA EmptySlot ==
  ASSUME NEW n \in Nat \ {0}, NEW t, Cardinality(Taken(n, t)) < n
  PROVE  \E e \in Slot(n) : t[e] = -1
<1>1. Taken(n, t) # Slot(n)
  BY TakenFinite
<1> QED
  BY <1>1 DEF Taken

\* An item whose key is not there enters the slot that its search ends at.
LEMMA Inserted ==
  ASSUME NEW n \in Nat \ {0}, NEW t, NEW v, Good(n, t, v), Cardinality(Taken(n, t)) < n,
         NEW i \in Items, \A x \in Taken(n, t) : ~equal(i, t[x]),
         NEW j, j = Free(n, t, hash(i))
  PROVE  /\ Good(n, [t EXCEPT ![j] = i], [v EXCEPT ![j] = hash(i)])
         /\ Members(n, [t EXCEPT ![j] = i]) = Members(n, t) \cup {i}
         /\ Cardinality(Taken(n, [t EXCEPT ![j] = i])) = Cardinality(Taken(n, t)) + 1
<1> DEFINE u == [t EXCEPT ![j] = i]
           w == [v EXCEPT ![j] = hash(i)]
           free == {x \in 0 .. n - 1 : t[x] = -1}
           f == first(n, hash(i))
<1>1. i \in Int /\ i # -1 /\ hash(i) \in Int
  BY ItemFacts
<1>2. free \in SUBSET Slot(n) /\ free # {}
  BY EmptySlot DEF Slot
<1>3. /\ j \in free
      /\ \A x \in free : Steps(n, f, j) <= Steps(n, f, x)
  <2>1. j = FirstProbe(n, hash(i), free)
    BY DEF Free
  <2> HIDE DEF free
  <2>2. \A stops \in SUBSET Slot(n) : stops # {} =>
          /\ FirstProbe(n, hash(i), stops) \in stops
          /\ \A x \in stops : Steps(n, f, FirstProbe(n, hash(i), stops)) <= Steps(n, f, x)
    BY <1>1, FirstProbeFinds
  <2> QED
    BY <1>2, <2>1, <2>2
<1>4. j \in Slot(n) /\ t[j] = -1
  BY <1>3 DEF Slot
<1>5. /\ u[j] = i /\ w[j] = hash(i)
      /\ \A x \in Slot(n) \ {j} : u[x] = t[x] /\ w[x] = v[x]
      /\ IsTable(n, u, w)
  BY <1>1, <1>4 DEF Good, IsTable
<1> HIDE DEF u, w
<1>6. Taken(n, u) = Taken(n, t) \cup {j} /\ j \notin Taken(n, t)
  BY <1>1, <1>4, <1>5 DEF Taken
<1>7. \A x \in Taken(n, t) : x \in Slot(n) /\ x # j
  BY <1>6 DEF Taken
<1>8. Own(n, u, w)
  BY <1>5, <1>6, <1>7 DEF Own, Good
<1>9. Distinct(n, u)
  <2> SUFFICES ASSUME NEW x \in Taken(n, u), NEW y \in Taken(n, u), equal(u[x], u[y])
               PROVE  x = y
    BY DEF Distinct
  <2>1. CASE x = j \/ y = j
    <3>1. \A z \in Taken(n, t) : KeyOf[u[j]] # KeyOf[u[z]]
      BY <1>5, <1>7 DEF equal
    <3>2. KeyOf[u[x]] = KeyOf[u[y]]
      BY DEF equal
    <3> QED
      BY <2>1, <3>1, <3>2, <1>6
  <2>2. CASE x # j /\ y # j
    BY <2>2, <1>5, <1>6, <1>7 DEF Distinct, Good
  <2> QED
    BY <2>1, <2>2
<1>10. Chained(n, u, w)
  <2> SUFFICES ASSUME NEW y \in Taken(n, u), NEW x \in Slot(n),
                      Steps(n, first(n, w[y]), x) < Steps(n, first(n, w[y]), y)
               PROVE  x \in Taken(n, u)
    BY DEF Chained, ChainedBut, Leads
  <2>1. CASE y = j
    <3>1. ~ (Steps(n, f, j) <= Steps(n, f, x))
      <4>1. f \in Slot(n)
        BY <1>1, FirstIsSlot
      <4>2. Steps(n, f, j) \in Int /\ Steps(n, f, x) \in Int
        BY <4>1, <1>4, StepsInRange DEF Slot
      <4>3. Steps(n, f, x) < Steps(n, f, j)
        BY <2>1, <1>5
      <4> QED
        BY <4>2, <4>3
    <3>2. x \notin free
      BY <1>3, <3>1
    <3> QED
      BY <1>6, <3>2 DEF Taken, Slot
  <2>2. CASE y # j
    <3>1. y \in Taken(n, t) /\ y \in Slot(n) /\ w[y] = v[y]
      BY <2>2, <1>5, <1>6, <1>7
    <3>2. n \notin Slot(n)
      BY DEF Slot
    <3>3. Leads(n, t, first(n, v[y]), y, n)
      BY <3>1, <3>2, <1>7 DEF Good, Chained, ChainedBut, Taken
    <3>4. x \in Taken(n, t)
      BY <3>1, <3>2, <3>3 DEF Leads
    <3> QED
      BY <3>4, <1>6
  <2> QED
    BY <2>1, <2>2
<1>11. Members(n, u) = Members(n, t) \cup {i}
  <2>1. Members(n, u) = {u[x] : x \in Taken(n, t) \cup {j}}
    BY <1>6 DEF Members
  <2>2. {u[x] : x \in Taken(n, t) \cup {j}} = {u[x] : x \in Taken(n, t)} \cup {u[j]}
    OBVIOUS
  <2>3. {u[x] : x \in Taken(n, t)} = {t[x] : x \in Taken(n, t)}
    BY <1>5, <1>7
  <2> QED
    BY <2>1, <2>2, <2>3, <1>5 DEF Members
<1>12. Cardinality(Taken(n, u)) = Cardinality(Taken(n, t)) + 1
  BY <1>6, TakenFinite, FS_AddElement
<1> QED
  BY <1>5, <1>8, <1>9, <1>10, <1>11, <1>12 DEF Good, u, w

\* A search that may stop at empty slots and at items like the one in slot x ends there.
LEMMA EndsAt ==
  ASSUME NEW n \in Nat \ {0}, NEW t, NEW v, Good(n, t, v),
         NEW hv \in Int, NEW x \in Taken(n, t), v[x] = hv,
         NEW stops \in SUBSET Slot(n), x \in stops,
         \A y \in stops : t[y] = -1 \/ equal(t[y], t[x])
  PROVE  FirstProbe(n, hv, stops) = x
<1> DEFINE f == first(n, hv)
<1>1. x \in Slot(n) /\ f \in Slot(n)
  BY FirstIsSlot DEF Taken
<1>2. ASSUME NEW y \in stops
      PROVE  Steps(n, f, x) <= Steps(n, f, y)
  <2>1. Steps(n, f, x) \in Int /\ Steps(n, f, y) \in Int /\ y \in Slot(n)
    BY <1>1, StepsInRange DEF Slot
  <2>2. CASE t[y] = -1
    <3>1. y \notin Taken(n, t) /\ n \notin Slot(n)
      BY <2>2 DEF Taken, Slot
    <3>2. Leads(n, t, f, x, n)
      BY <1>1, <3>1 DEF Good, Chained, ChainedBut
    <3>3. ~ (Steps(n, f, y) < Steps(n, f, x))
      BY <2>1, <3>1, <3>2 DEF Leads
    <3> QED
      BY <2>1, <3>3
  <2>3. CASE t[y] # -1
    <3>1. y \in Taken(n, t) /\ equal(t[y], t[x])
      BY <2>1, <2>3 DEF Taken
    <3>2. y = x
      BY <3>1 DEF Good, Distinct
    <3> QED
      BY <2>1, <3>2
  <2> QED
    BY <2>2, <2>3
<1> HIDE DEF f
<1>3. \A j \in stops : (\A y \in stops : Steps(n, first(n, hv), j) <= Steps(n, first(n, hv), y))
                         => FirstProbe(n, hv, stops) = j
  BY FirstProbeIs
<1> QED
  BY <1>2, <1>3 DEF f

-----------------------------------------------------------------------------
(* What follows from the invariant. *)

LEMMA TableLength ==
  ASSUME IInv
  PROVE  /\ 2 * limit \in Nat \ {0} /\ tablen = 2 * limit
         /\ DOMAIN table = Slot(2 * limit) /\ Slots = Taken(2 * limit, table)
<1>1. 2 * limit \in Nat \ {0}
  BY DEF IInv, TypeOK
<1>2. DOMAIN table = Slot(2 * limit)
  BY DEF IInv, Good, IsTable
<1> QED
  BY <1>1, <1>2, TakenFinite DEF tablen, Slots, Taken

LEMMA SlotIsEmpty ==
  ASSUME IInv
  PROVE  \E e \in Slot(2 * limit) : table[e] = -1
<1>1. 2 * limit \in Nat \ {0} /\ Cardinality(Taken(2 * limit, table)) < 2 * limit
  BY DEF IInv, TypeOK
<1> QED
  BY <1>1, EmptySlot

LEMMA TakenItem ==
  ASSUME IInv, NEW x \in Slots
  PROVE  /\ x \in Slot(2 * limit) /\ table[x] \in Items /\ values[x] = hash(table[x])
         /\ \A y \in Slots : equal(table[x], table[y]) => x = y
<1>1. x \in Taken(2 * limit, table) /\ Slots = Taken(2 * limit, table)
  BY TableLength
<1> QED
  BY <1>1 DEF IInv, Good, IsTable, Own, Distinct, Taken

\* ht_get, and del, find the item like i if there is one, and an empty slot otherwise.
LEMMA FindFinds ==
  ASSUME IInv, NEW i \in Items
  PROVE  /\ Find(i) \in Slot(2 * limit)
         /\ table[Find(i)] = -1 \/ equal(i, table[Find(i)])
         /\ \A x \in Slots : equal(i, table[x]) => Find(i) = x
<1> DEFINE n == 2 * limit
           stops == {j \in DOMAIN table : table[j] = -1 \/ equal(i, table[j])}
<1>1. n \in Nat \ {0} /\ tablen = n /\ DOMAIN table = Slot(n) /\ Slots = Taken(n, table)
  BY TableLength
<1>2. Find(i) = FirstProbe(n, hash(i), stops) /\ hash(i) \in Int
  BY <1>1, ItemFacts DEF Find
<1>3. stops \in SUBSET Slot(n) /\ stops # {}
  BY <1>1, SlotIsEmpty
<1>4. Find(i) \in stops
  <2>1. \A S \in SUBSET Slot(n) : S # {} => FirstProbe(n, hash(i), S) \in S
    BY <1>1, <1>2, FirstProbeFinds
  <2> HIDE DEF stops
  <2> QED
    BY <1>2, <1>3, <2>1
<1>5. ASSUME NEW x \in Slots, equal(i, table[x])
      PROVE  Find(i) = x
  <2>1. x \in Taken(n, table) /\ values[x] = hash(i) /\ x \in stops
    BY <1>1, <1>5, TakenItem DEF equal, hash
  <2>2. \A y \in stops : table[y] = -1 \/ equal(table[y], table[x])
    BY <1>5 DEF equal
  <2>3. Good(n, table, values)
    BY DEF IInv
  <2> HIDE DEF stops, n
  <2> QED
    BY <1>1, <1>2, <1>3, <2>1, <2>2, <2>3, EndsAt
<1> QED
  BY <1>1, <1>4, <1>5

\* The search of ht_deli passes over no item like i but i itself.
LEMMA FindSelfFinds ==
  ASSUME IInv, NEW i \in Items
  PROVE  /\ FindSelf(i) \in Slot(2 * limit)
         /\ table[FindSelf(i)] \in {-1, i}
         /\ \A x \in Slots : table[x] = i => FindSelf(i) = x
<1> DEFINE n == 2 * limit
           stops == {j \in DOMAIN table : table[j] = -1 \/ table[j] = i}
<1>1. n \in Nat \ {0} /\ tablen = n /\ DOMAIN table = Slot(n) /\ Slots = Taken(n, table)
  BY TableLength
<1>2. FindSelf(i) = FirstProbe(n, hash(i), stops) /\ hash(i) \in Int
  BY <1>1, ItemFacts DEF FindSelf
<1>3. stops \in SUBSET Slot(n) /\ stops # {}
  BY <1>1, SlotIsEmpty
<1>4. FindSelf(i) \in stops
  <2>1. \A S \in SUBSET Slot(n) : S # {} => FirstProbe(n, hash(i), S) \in S
    BY <1>1, <1>2, FirstProbeFinds
  <2> HIDE DEF stops
  <2> QED
    BY <1>2, <1>3, <2>1
<1>5. ASSUME NEW x \in Slots, table[x] = i
      PROVE  FindSelf(i) = x
  <2>1. x \in Taken(n, table) /\ values[x] = hash(i) /\ x \in stops
    BY <1>1, <1>5, TakenItem
  <2>2. \A y \in stops : table[y] = -1 \/ equal(table[y], table[x])
    BY <1>5 DEF equal
  <2>3. Good(n, table, values)
    BY DEF IInv
  <2> HIDE DEF stops, n
  <2> QED
    BY <1>1, <1>2, <1>3, <2>1, <2>2, <2>3, EndsAt
<1> QED
  BY <1>1, <1>4, <1>5

\* The properties that a run checks, from the invariant.
LEMMA InvariantImplies ==
  ASSUME IInv
  PROVE  RoomLeft /\ AllFound /\ ValuesKept
<1>1. RoomLeft
  <2>1. tablen = 2 * limit /\ Slots = Taken(2 * limit, table)
    BY TableLength
  <2>2. limit \in Nat \ {0} /\ used \in Nat /\ used <= limit /\ used = Cardinality(Taken(2 * limit, table))
    BY DEF IInv, TypeOK
  <2>3. limit = (2 * limit) \div 2
    BY <2>2
  <2> QED
    BY <2>1, <2>2, <2>3 DEF RoomLeft, LOAD_FACTOR
<1>2. AllFound
  <2> SUFFICES ASSUME NEW j \in Slots
               PROVE  Find(table[j]) = j
    BY DEF AllFound
  <2>1. table[j] \in Items /\ equal(table[j], table[j])
    BY TakenItem DEF equal
  <2> QED
    BY <2>1, FindFinds
<1>3. ValuesKept
  BY TakenItem DEF ValuesKept
<1> QED
  BY <1>1, <1>2, <1>3

-----------------------------------------------------------------------------
(* Growing. *)

LEMMA EmptyIsGood ==
  ASSUME NEW n \in Nat \ {0}, NEW t, t = [k \in 0 .. n - 1 |-> -1], NEW v \in [0 .. n - 1 -> Int]
  PROVE  Good(n, t, v) /\ Taken(n, t) = {} /\ Members(n, t) = {} /\ Cardinality(Taken(n, t)) = 0
<1>1. Taken(n, t) = {}
  BY DEF Taken, Slot
<1>2. IsTable(n, t, v)
  BY DEF IsTable, Slot
<1> QED
  BY <1>1, <1>2, FS_EmptySet DEF Good, Own, Distinct, Chained, ChainedBut, Members

\* The items of the slots below j, and the slots.
Below(j) == {x \in Slots : x < j}

LEMMA BelowGrows ==
  ASSUME IInv, NEW j \in Slot(2 * limit)
  PROVE  /\ Below(j + 1) = IF table[j] = -1 THEN Below(j) ELSE Below(j) \cup {j}
         /\ Cardinality(Below(j + 1)) = IF table[j] = -1 THEN Cardinality(Below(j)) ELSE Cardinality(Below(j)) + 1
         /\ Cardinality(Below(j)) \in Nat /\ Cardinality(Below(j)) <= 2 * limit
<1>1. Slots = {x \in Slot(2 * limit) : table[x] # -1}
  BY TableLength DEF Taken
<1>2. IsFiniteSet(Slot(2 * limit)) /\ Cardinality(Slot(2 * limit)) = 2 * limit
  BY TableLength, TakenFinite
<1>3. Below(j + 1) = IF table[j] = -1 THEN Below(j) ELSE Below(j) \cup {j}
  BY <1>1 DEF Below, Slot
<1>4. j \notin Below(j) /\ Below(j) \in SUBSET Slot(2 * limit)
  BY <1>1 DEF Below, Slot
<1>5. IsFiniteSet(Below(j)) /\ Cardinality(Below(j)) \in Nat /\ Cardinality(Below(j)) <= 2 * limit
  BY <1>2, <1>4, FS_Subset, FS_CardinalityType
<1> QED
  BY <1>3, <1>4, <1>5, FS_AddElement

\* m holds what the slots below j held.
Holds(n, m, j) ==
  /\ Good(n, m.t, m.v)
  /\ Members(n, m.t) = {table[x] : x \in Below(j)}
  /\ Cardinality(Taken(n, m.t)) = Cardinality(Below(j))

LEMMA MoveHolds ==
  ASSUME IInv, NEW n, n = 4 * limit, NEW m, NEW j \in Slot(2 * limit), Holds(n, m, j)
  PROVE  Holds(n, Move(n, m, j), j + 1)
<1>1. /\ 2 * limit \in Nat \ {0} /\ n \in Nat \ {0} /\ 2 * limit < n
      /\ Slots = Taken(2 * limit, table)
  BY TableLength DEF IInv, TypeOK
<1>2. CASE table[j] = -1
  <2>1. Move(n, m, j) = m
    BY <1>2 DEF Move
  <2>2. Below(j + 1) = Below(j)
    BY <1>2, BelowGrows
  <2> QED
    BY <2>1, <2>2 DEF Holds
<1>3. CASE table[j] # -1
  <2> DEFINE i == table[j]
             k == Free(n, m.t, hash(i))
             u == [m.t EXCEPT ![k] = i]
             w == [m.v EXCEPT ![k] = hash(i)]
  <2>1. j \in Slots /\ i \in Items /\ values[j] = hash(i)
    BY <1>1, <1>3, TakenItem DEF Taken
  <2>2. Move(n, m, j) = [t |-> u, v |-> w]
    BY <1>3, <2>1 DEF Move
  <2>3. /\ Below(j + 1) = Below(j) \cup {j}
        /\ Cardinality(Below(j + 1)) = Cardinality(Below(j)) + 1
        /\ Cardinality(Below(j)) < n
    <3>1. Below(j + 1) = Below(j) \cup {j} /\ Cardinality(Below(j + 1)) = Cardinality(Below(j)) + 1
      BY <1>3, BelowGrows
    <3>2. Cardinality(Below(j)) \in Nat /\ Cardinality(Below(j)) <= 2 * limit
      BY BelowGrows
    <3> QED
      BY <1>1, <3>1, <3>2
  <2>4. ASSUME NEW x \in Taken(n, m.t)
        PROVE  ~ equal(i, m.t[x])
    <3>1. m.t[x] \in {table[y] : y \in Below(j)}
      BY DEF Holds, Members
    <3>2. PICK y \in Slots : y < j /\ m.t[x] = table[y]
      BY <3>1 DEF Below
    <3> QED
      BY <2>1, <3>2, TakenItem DEF Slot
  <2>5. /\ Good(n, u, w)
        /\ Members(n, u) = Members(n, m.t) \cup {i}
        /\ Cardinality(Taken(n, u)) = Cardinality(Taken(n, m.t)) + 1
    <3>1. Good(n, m.t, m.v) /\ Cardinality(Taken(n, m.t)) < n
      BY <2>3 DEF Holds
    <3> QED
      BY <1>1, <2>1, <2>4, <3>1, Inserted
  <2>6. Members(n, u) = {table[x] : x \in Below(j + 1)}
    BY <2>3, <2>5 DEF Holds
  <2>7. Cardinality(Taken(n, u)) = Cardinality(Below(j + 1))
    BY <2>3, <2>5 DEF Holds
  <2> HIDE DEF u, w
  <2> QED
    BY <2>2, <2>5, <2>6, <2>7 DEF Holds
<1> QED
  BY <1>2, <1>3

\* The bigger table is as good as the one that it is made from, and holds the same.
LEMMA MovedHolds ==
  ASSUME IInv
  PROVE  /\ Good(4 * limit, Moved.t, Moved.v)
         /\ Members(4 * limit, Moved.t) = Members(2 * limit, table)
         /\ Cardinality(Taken(4 * limit, Moved.t)) = used
<1> DEFINE N == 2 * limit
           n == 2 * tablen
           empty == [t |-> [k \in 0 .. n - 1 |-> -1], v |-> [k \in 0 .. n - 1 |-> 0]]
           S == [t : [0 .. n - 1 -> Items \cup {-1}], v : [0 .. n - 1 -> Int]]
           F == [x \in S \X Nat |-> IF x[2] \in 1 .. N THEN Move(n, x[1], x[2] - 1) ELSE x[1]]
           Turns(m) == m = [j \in 0 .. tablen |-> IF j = 0 THEN empty ELSE Move(n, m[j - 1], j - 1)]
           c == CHOOSE m : Turns(m)
<1>1. /\ N \in Nat \ {0} /\ tablen = N /\ n = 4 * limit /\ n \in Nat \ {0}
      /\ Slots = Taken(N, table) /\ table \in [Slot(N) -> Items \cup {-1}] /\ values \in [Slot(N) -> Int]
  BY TableLength DEF IInv, TypeOK, Good, IsTable
<1>2. empty \in S
  OBVIOUS
<1>3. ASSUME NEW m \in S, NEW j \in Slot(N)
      PROVE  Move(n, m, j) \in S
  BY <1>1 DEF Move
<1>4. F \in [S \X Nat -> S]
  <2> SUFFICES ASSUME NEW m \in S, NEW j \in Nat, j \in 1 .. N
               PROVE  Move(n, m, j - 1) \in S
    OBVIOUS
  <2>1. j - 1 \in Slot(N)
    BY <1>1 DEF Slot
  <2> HIDE DEF S, N, n
  <2> QED
    BY <1>3, <2>1
<1>5. PICK f \in [0 .. N -> S] : f[0] = empty /\ \A j \in 1 .. N : f[j] = F[<<f[j - 1], j>>]
  <2>1. \E f \in [0 .. N -> S] : Iterates(f, empty, F, N)
    <3> HIDE DEF empty, S, F, N
    <3> QED
      BY <1>1, <1>2, <1>4, RecursionExists
  <2> QED
    BY <2>1 DEF Iterates
<1>6. Turns(f)
  <2>1. ASSUME NEW j \in 0 .. N
        PROVE  f[j] = IF j = 0 THEN empty ELSE Move(n, f[j - 1], j - 1)
    <3>1. CASE j = 0
      BY <3>1, <1>5
    <3>2. CASE j # 0
      <4>1. j \in 1 .. N /\ j - 1 \in 0 .. N /\ j \in Nat
        BY <1>1, <3>2
      <4>2. f[j - 1] \in S /\ f[j] = F[<<f[j - 1], j>>]
        BY <1>5, <4>1
      <4>3. F[<<f[j - 1], j>>] = Move(n, f[j - 1], j - 1)
        BY <4>1, <4>2
      <4> QED
        BY <3>2, <4>2, <4>3
    <3> QED
      BY <3>1, <3>2
  <2> HIDE DEF S, empty
  <2> QED
    BY <1>1, <1>5, <2>1
<1>7. Turns(c)
  <2> HIDE DEF Turns
  <2> QED
    BY <1>6
<1>8. Moved = c[N]
  BY <1>1 DEF Moved
<1> HIDE DEF c, S, F
<1>9. c[0] = empty /\ \A j \in Slot(N) : c[j + 1] = Move(n, c[j], j)
  <2>1. 0 \in 0 .. N /\ \A j \in Slot(N) : j + 1 \in 0 .. N /\ j + 1 # 0 /\ (j + 1) - 1 = j
    BY <1>1 DEF Slot
  <2> HIDE DEF empty
  <2> QED
    BY <1>1, <1>7, <2>1
<1> DEFINE T == {j \in Nat : j <= N => Holds(n, c[j], j)}
<1>10. 0 \in T
  <2>1. Below(0) = {}
    BY <1>1 DEF Below, Taken, Slot
  <2>2. Good(n, empty.t, empty.v) /\ Members(n, empty.t) = {} /\ Cardinality(Taken(n, empty.t)) = 0
    <3>1. empty.t = [k \in 0 .. n - 1 |-> -1] /\ empty.v \in [0 .. n - 1 -> Int]
      OBVIOUS
    <3> HIDE DEF empty, n
    <3> QED
      BY <1>1, <3>1, EmptyIsGood
  <2> QED
    BY <1>9, <2>1, <2>2, FS_EmptySet DEF Holds
<1>11. ASSUME NEW j \in Nat, j \in T
       PROVE  j + 1 \in T
  <2>1. CASE j + 1 <= N
    <3>1. j \in Slot(N) /\ Holds(n, c[j], j)
      BY <1>1, <1>11, <2>1 DEF Slot
    <3>2. Holds(n, Move(n, c[j], j), j + 1)
      BY <1>1, <3>1, MoveHolds
    <3> QED
      BY <1>9, <3>1, <3>2
  <2> QED
    BY <2>1
<1>12. N \in T
  <2> HIDE DEF T
  <2> QED
    BY <1>1, <1>10, <1>11, NaturalInduction
<1>13. Below(N) = Slots
  BY <1>1 DEF Below, Taken, Slot
<1>14. Holds(n, Moved, N)
  BY <1>1, <1>8, <1>12
<1>15. used = Cardinality(Slots) /\ Members(N, table) = {table[x] : x \in Slots}
  BY <1>1 DEF IInv, Members
<1> HIDE DEF n, N
<1>16. /\ Good(n, Moved.t, Moved.v) /\ Members(n, Moved.t) = Members(N, table)
       /\ Cardinality(Taken(n, Moved.t)) = used
  BY <1>13, <1>14, <1>15 DEF Holds
<1> QED
  BY <1>1, <1>16 DEF N

LEMMA PutStep ==
  ASSUME IInv, NEW i \in Items, Put(i)
  PROVE  IInv' /\ Members(2 * limit, table)' = Members(2 * limit, table) \cup {i}
<1> DEFINE full == used = limit
           t == IF full THEN Moved.t ELSE table
           v == IF full THEN Moved.v ELSE values
           n == 2 * limit'
           j == Free(n, t, hash(i))
<1>1. /\ limit \in Nat \ {0} /\ used \in Nat /\ used <= limit /\ Good(2 * limit, table, values)
      /\ used = Cardinality(Taken(2 * limit, table))
      /\ limit' = IF full THEN 2 * limit ELSE limit
      /\ used' = used + 1 /\ asked' = i /\ answer' = -1
  BY DEF IInv, TypeOK, Put
<1>2. limit' \in Nat \ {0} /\ n \in Nat \ {0} /\ used < limit'
  BY <1>1
<1>3. /\ Good(n, t, v) /\ Members(n, t) = Members(2 * limit, table)
      /\ Cardinality(Taken(n, t)) = used
  <2>1. CASE full
    <3>1. n = 4 * limit /\ t = Moved.t /\ v = Moved.v
      BY <1>1, <2>1
    <3> HIDE DEF n, t, v, full
    <3> QED
      BY <3>1, MovedHolds
  <2>2. CASE ~full
    BY <1>1, <2>2
  <2> QED
    BY <2>1, <2>2
<1>4. Cardinality(DOMAIN t) = n
  <2>1. DOMAIN t = Slot(n)
    BY <1>3 DEF Good, IsTable
  <2> HIDE DEF t, n
  <2> QED
    BY <1>2, <2>1, TakenFinite
<1>5. table' = [t EXCEPT ![j] = i] /\ values' = [v EXCEPT ![j] = hash(i)]
  BY <1>4 DEF Put
<1>6. ASSUME NEW x \in Taken(n, t)
      PROVE  ~ equal(i, t[x])
  <2>1. t[x] \in Members(n, t)
    BY DEF Members
  <2>2. PICK y \in Taken(2 * limit, table) : t[x] = table[y]
    BY <1>3, <2>1 DEF Members
  <2>3. y \in DOMAIN table /\ table[y] # -1
    BY <1>1 DEF Good, IsTable, Taken
  <2> QED
    BY <2>2, <2>3 DEF Put, Absent
<1> HIDE DEF t, v, n, j, full
<1>7. /\ Good(n, table', values')
      /\ Members(n, table') = Members(n, t) \cup {i}
      /\ Cardinality(Taken(n, table')) = Cardinality(Taken(n, t)) + 1
  <2>1. Cardinality(Taken(n, t)) < n
    BY <1>1, <1>2, <1>3 DEF n
  <2>2. j = Free(n, t, hash(i))
    BY DEF j
  <2>3. /\ Good(n, [t EXCEPT ![j] = i], [v EXCEPT ![j] = hash(i)])
        /\ Members(n, [t EXCEPT ![j] = i]) = Members(n, t) \cup {i}
        /\ Cardinality(Taken(n, [t EXCEPT ![j] = i])) = Cardinality(Taken(n, t)) + 1
    <3>1. n \in Nat \ {0} /\ Good(n, t, v) /\ Cardinality(Taken(n, t)) < n /\ i \in Items
      BY <1>2, <1>3, <2>1
    <3>2. \A x \in Taken(n, t) : ~ equal(i, t[x])
      BY <1>6
    <3>3. \A k : k = Free(n, t, hash(i)) =>
            /\ Good(n, [t EXCEPT ![k] = i], [v EXCEPT ![k] = hash(i)])
            /\ Members(n, [t EXCEPT ![k] = i]) = Members(n, t) \cup {i}
            /\ Cardinality(Taken(n, [t EXCEPT ![k] = i])) = Cardinality(Taken(n, t)) + 1
      BY <3>1, <3>2, Inserted
    <3> QED
      BY <2>2, <3>3
  <2> QED
    BY <1>5, <2>3
<1>8. TypeOK'
  BY <1>1, <1>2 DEF TypeOK
<1>9. used' <= limit'
  BY <1>1, <1>2
<1>10. /\ Good(2 * limit, table, values)' <=> Good(n, table', values')
       /\ Members(2 * limit, table)' = Members(n, table')
       /\ Taken(2 * limit, table)' = Taken(n, table')
  BY DEF n, Good, IsTable, Own, Distinct, Chained, ChainedBut, Leads, Members, Taken
<1> QED
  BY <1>1, <1>3, <1>7, <1>8, <1>9, <1>10 DEF IInv

-----------------------------------------------------------------------------
(* Closing the gap of a deletion. *)

LEMMA NextIsSlot ==
  ASSUME NEW n \in Nat \ {0}, NEW k \in Slot(n)
  PROVE  next(n, k) \in Slot(n) /\ first(n, next(n, k)) = next(n, k)
<1> DEFINE nk == next(n, k)
<1>1. nk \in 0 .. n - 1
  BY DEF next, Slot
<1>2. (0 * n + nk) % n = nk
  <2> HIDE DEF nk
  <2> QED
    BY <1>1, RemainderUnique
<1>3. 0 * n + nk = nk
  BY <1>1
<1> QED
  BY <1>1, <1>2, <1>3 DEF first, Slot

\* The three conditions of del: slot k comes before slot j in a search from slot f.
LEMMA MovableIsBefore ==
  ASSUME NEW n \in Nat \ {0}, NEW k \in Slot(n), NEW f \in Slot(n), NEW j \in Slot(n), k # j
  PROVE  Movable(k, f, j) <=> Steps(n, f, k) < Steps(n, f, j)
BY DEF Movable, Steps, Slot

\* A search that passes k and comes to x later passes what lies from k to x.
LEMMA PassesBetween ==
  ASSUME NEW n \in Nat \ {0}, NEW f \in Slot(n), NEW k \in Slot(n), NEW j \in Slot(n), NEW x \in Slot(n),
         Steps(n, f, k) < Steps(n, f, x), Steps(n, next(n, k), j) < Steps(n, next(n, k), x)
  PROVE  Steps(n, f, j) < Steps(n, f, x)
BY DEF Steps, Slot, next

\* The slot to vacate goes down towards an empty slot e.
LEMMA GapGoesDown ==
  ASSUME NEW n \in Nat \ {0}, NEW s \in Slot(n), NEW k \in Slot(n), NEW e \in Slot(n), NEW j \in Slot(n),
         Steps(n, s, k) < Steps(n, s, e), Steps(n, next(n, k), j) <= Steps(n, next(n, k), e)
  PROVE  Steps(n, s, k) < Steps(n, s, j) /\ Steps(n, s, j) <= Steps(n, s, e) /\ j # k
BY DEF Steps, Slot, next

\* No item below the gap in slot k had to move: all are found over it.
LEMMA GapCloses ==
  ASSUME NEW n \in Nat \ {0}, NEW t, NEW v, IsTable(n, t, v),
         NEW k \in Slot(n), t[k] = -1, ChainedBut(n, t, v, k),
         NEW j \in Slot(n), j # k, t[j] = -1,
         \A x \in Taken(n, t) : Steps(n, next(n, k), x) < Steps(n, next(n, k), j)
                                  => ~ Movable(k, first(n, v[x]), x)
  PROVE  Chained(n, t, v)
<1> SUFFICES ASSUME NEW x \in Taken(n, t), NEW y \in Slot(n),
                    Steps(n, first(n, v[x]), y) < Steps(n, first(n, v[x]), x)
             PROVE  y \in Taken(n, t)
  BY DEF Chained, ChainedBut, Leads
<1> DEFINE f == first(n, v[x])
<1>1. x \in Slot(n) /\ x # k /\ x # j /\ f \in Slot(n) /\ next(n, k) \in Slot(n)
  BY FirstIsSlot, NextIsSlot DEF Taken, IsTable
<1>2. Leads(n, t, f, x, k)
  BY <1>1 DEF ChainedBut
<1>3. CASE y # k
  BY <1>2, <1>3 DEF Leads
<1>4. CASE y = k
  <2>1. Movable(k, f, x)
    BY <1>1, <1>4, MovableIsBefore
  <2>2. ~ (Steps(n, next(n, k), x) < Steps(n, next(n, k), j))
    BY <2>1
  <2>3. Steps(n, next(n, k), j) < Steps(n, next(n, k), x)
    <3> DEFINE a == Steps(n, next(n, k), x)
               b == Steps(n, next(n, k), j)
    <3>1. a \in Int /\ b \in Int
      BY <1>1, StepsInRange DEF Slot
    <3>2. a # b
      BY <1>1, StepsInjective
    <3> HIDE DEF a, b
    <3>3. ~ (a < b)
      BY <2>2 DEF a, b
    <3>4. b < a
      BY <3>1, <3>2, <3>3
    <3> QED
      BY <3>4 DEF a, b
  <2>4. Steps(n, f, j) < Steps(n, f, x)
    BY <1>1, <1>4, <2>3, PassesBetween
  <2>5. j \in Taken(n, t)
    BY <2>4, <1>2 DEF Leads
  <2> QED
    BY <2>5 DEF Taken
<1> QED
  BY <1>3, <1>4

\* The item of slot j fills the gap in slot k, and leaves one.
LEMMA GapMoves ==
  ASSUME NEW n \in Nat \ {0}, NEW t, NEW v, IsTable(n, t, v), Own(n, t, v), Distinct(n, t),
         NEW k \in Slot(n), t[k] = -1, ChainedBut(n, t, v, k),
         NEW j \in Taken(n, t), Movable(k, first(n, v[j]), j),
         NEW u, NEW w, IsTable(n, u, w), u[k] = t[j], u[j] = -1, w[k] = v[j],
         \A x \in Slot(n) \ {k, j} : u[x] = t[x], \A x \in Slot(n) \ {k} : w[x] = v[x]
  PROVE  /\ Own(n, u, w) /\ Distinct(n, u) /\ ChainedBut(n, u, w, j)
         /\ Members(n, u) = Members(n, t)
         /\ Cardinality(Taken(n, u)) = Cardinality(Taken(n, t))
<1>1. j \in Slot(n) /\ j # k /\ t[j] # -1
  BY DEF Taken
<1>2. Taken(n, u) = (Taken(n, t) \ {j}) \cup {k} /\ k \notin Taken(n, t)
  BY <1>1 DEF Taken
<1>3. \A x \in Taken(n, u) \ {k} : x \in Taken(n, t) /\ x # j /\ x \in Slot(n) /\ u[x] = t[x] /\ w[x] = v[x]
  BY <1>2 DEF Taken
<1>4. Own(n, u, w)
  BY <1>3 DEF Own
<1>5. Distinct(n, u)
  <2> SUFFICES ASSUME NEW x \in Taken(n, u), NEW y \in Taken(n, u), equal(u[x], u[y]), x # y
               PROVE  FALSE
    BY DEF Distinct
  <2>1. CASE x # k /\ y # k
    BY <1>3, <2>1 DEF Distinct
  <2>2. CASE x = k \/ y = k
    <3>1. \A z \in Taken(n, t) : KeyOf[t[z]] = KeyOf[t[j]] => z = j
      BY DEF Distinct, equal
    <3>2. KeyOf[u[x]] = KeyOf[u[y]]
      BY DEF equal
    <3> QED
      BY <1>3, <2>2, <3>1, <3>2
  <2> QED
    BY <2>1, <2>2
<1>6. ChainedBut(n, u, w, j)
  <2> SUFFICES ASSUME NEW x \in Taken(n, u), x # j, NEW y \in Slot(n), y # j,
                      Steps(n, first(n, w[x]), y) < Steps(n, first(n, w[x]), x)
               PROVE  y \in Taken(n, u)
    BY DEF ChainedBut, Leads
  <2>1. CASE y = k
    BY <2>1, <1>2
  <2>2. CASE x = k /\ y # k
    <3> DEFINE f == first(n, v[j])
    <3>1. f \in Slot(n)
      BY <1>1, FirstIsSlot DEF IsTable
    <3>2. Steps(n, f, k) < Steps(n, f, j)
      BY <1>1, <3>1, MovableIsBefore
    <3>3. Steps(n, f, y) < Steps(n, f, j)
      BY <2>2, <1>1, <3>1, <3>2, StepsInRange DEF Slot
    <3>4. y \in Taken(n, t)
      BY <1>1, <2>2, <3>3 DEF ChainedBut, Leads
    <3> QED
      BY <1>2, <3>4
  <2>3. CASE x # k /\ y # k
    <3>1. x \in Taken(n, t) \ {k} /\ w[x] = v[x]
      BY <1>3, <2>3
    <3>2. y \in Taken(n, t)
      BY <2>3, <3>1 DEF ChainedBut, Leads
    <3> QED
      BY <1>2, <3>2
  <2> QED
    BY <2>1, <2>2, <2>3
<1>7. Members(n, u) = Members(n, t)
  <2>1. \A x \in Taken(n, u) : \E y \in Taken(n, t) : u[x] = t[y]
    BY <1>3
  <2>2. \A y \in Taken(n, t) : \E x \in Taken(n, u) : u[x] = t[y]
    BY <1>2, <1>3
  <2> QED
    BY <2>1, <2>2 DEF Members
<1>8. Cardinality(Taken(n, u)) = Cardinality(Taken(n, t))
  <2>1. IsFiniteSet(Taken(n, t)) /\ Cardinality(Taken(n, t)) \in Nat
    BY TakenFinite
  <2>2. IsFiniteSet(Taken(n, t) \ {j}) /\ Cardinality(Taken(n, t) \ {j}) = Cardinality(Taken(n, t)) - 1
    BY <2>1, FS_RemoveElement
  <2>3. Cardinality((Taken(n, t) \ {j}) \cup {k}) = Cardinality(Taken(n, t) \ {j}) + 1
    BY <1>2, <2>2, FS_AddElement
  <2> QED
    BY <1>2, <2>1, <2>2, <2>3
<1> QED
  BY <1>4, <1>5, <1>6, <1>7, <1>8

\* What holds after m turns of the loop of del, when slot start is deleted and e is empty.
GapTable(c) == [c.t EXCEPT ![c.k] = -1]

Gap(n, start, e, c, m) ==
  /\ IsTable(n, c.t, c.v) /\ c.k \in Slot(n)
  /\ Own(n, GapTable(c), c.v) /\ Distinct(n, GapTable(c))
  /\ Members(n, GapTable(c)) = Members(n, table) \ {table[start]}
  /\ Cardinality(Taken(n, GapTable(c))) = used - 1
  /\ GapTable(c)[e] = -1
  /\ \/ c.t[c.k] = -1 /\ Chained(n, GapTable(c), c.v)
     \/ /\ c.t[c.k] # -1 /\ ChainedBut(n, GapTable(c), c.v, c.k)
        /\ m <= Steps(n, start, c.k) /\ Steps(n, start, c.k) < Steps(n, start, e)

LEMMA GapBegins ==
  ASSUME IInv, NEW start \in Slots, NEW e \in Slot(2 * limit), table[e] = -1
  PROVE  Gap(2 * limit, start, e, [t |-> table, v |-> values, k |-> start], 0)
<1> DEFINE n == 2 * limit
           c == [t |-> table, v |-> values, k |-> start]
           u == [table EXCEPT ![start] = -1]
<1>1. /\ n \in Nat \ {0} /\ IsTable(n, table, values) /\ Own(n, table, values) /\ Distinct(n, table)
      /\ Chained(n, table, values) /\ used = Cardinality(Taken(n, table)) /\ Slots = Taken(n, table)
  BY TableLength DEF IInv, Good
<1> HIDE DEF n
<1>2. start \in Slot(n) /\ e \in Slot(n) /\ table[start] # -1 /\ start # e /\ n \notin Slot(n)
  BY <1>1 DEF Taken, n, Slot
<1>3. /\ u[start] = -1 /\ \A x \in Slot(n) \ {start} : u[x] = table[x]
  BY <1>1, <1>2 DEF IsTable
<1> HIDE DEF u
<1>4. /\ Taken(n, u) = Taken(n, table) \ {start}
      /\ \A x \in Taken(n, u) : x \in Taken(n, table) /\ x # start /\ u[x] = table[x]
  BY <1>3 DEF Taken
<1>5. Own(n, u, values) /\ Distinct(n, u)
  BY <1>1, <1>4 DEF Own, Distinct
<1>6. Members(n, u) = Members(n, table) \ {table[start]}
  <2>1. \A x \in Taken(n, u) : table[x] # table[start]
    BY <1>1, <1>4 DEF Distinct, equal
  <2>2. \A x \in Taken(n, table) : x = start \/ x \in Taken(n, u)
    BY <1>4
  <2> QED
    BY <2>1, <2>2, <1>4 DEF Members
<1>7. Cardinality(Taken(n, u)) = used - 1
  BY <1>1, <1>4, TakenFinite, FS_RemoveElement
<1>8. ChainedBut(n, u, values, start)
  BY <1>1, <1>2, <1>4 DEF Chained, ChainedBut, Leads, Taken
<1>9. 0 <= Steps(n, start, start) /\ Steps(n, start, start) < Steps(n, start, e)
  BY <1>1, <1>2 DEF Steps, Slot
<1>10. GapTable(c) = u /\ c.t = table /\ c.v = values /\ c.k = start
  BY DEF GapTable, u
<1> HIDE DEF c
<1>11. Gap(n, start, e, c, 0)
  BY <1>1, <1>2, <1>3, <1>5, <1>6, <1>7, <1>8, <1>9, <1>10 DEF Gap
<1> QED
  BY <1>11 DEF c, n

\* Where the loop may stop, and where it stops.
GapStops(n, c) == {x \in Slot(n) : GapTable(c)[x] = -1 \/ Movable(c.k, first(n, c.v[x]), x)}
GapStop(n, c)  == FirstProbe(n, next(n, c.k), GapStops(n, c))

LEMMA CloseGapType ==
  ASSUME NEW n \in Nat \ {0}, tablen = n, NEW c, IsTable(n, c.t, c.v), c.k \in Slot(n),
         NEW stops, stops = GapStops(n, c), NEW j, j = GapStop(n, c)
  PROVE  /\ CloseGap(c) = IF c.t[c.k] = -1 THEN c
                          ELSE [t |-> [GapTable(c) EXCEPT ![c.k] = GapTable(c)[j]],
                                v |-> [c.v EXCEPT ![c.k] = c.v[j]], k |-> j]
         /\ j \in stops
         /\ \A x \in stops : Steps(n, next(n, c.k), j) <= Steps(n, next(n, c.k), x)
         /\ IsTable(n, GapTable(c), c.v) /\ GapTable(c)[c.k] = -1
<1>1. IsTable(n, GapTable(c), c.v) /\ GapTable(c)[c.k] = -1
  BY DEF IsTable, GapTable
<1>2. DOMAIN GapTable(c) = Slot(n)
  BY <1>1 DEF IsTable
<1>3. CloseGap(c) = IF c.t[c.k] = -1 THEN c
                    ELSE [t |-> [GapTable(c) EXCEPT ![c.k] = GapTable(c)[j]],
                          v |-> [c.v EXCEPT ![c.k] = c.v[j]], k |-> j]
  BY <1>2 DEF CloseGap, GapTable, GapStop, GapStops
<1>4. next(n, c.k) \in Slot(n) /\ first(n, next(n, c.k)) = next(n, c.k) /\ next(n, c.k) \in Int
  BY NextIsSlot DEF Slot
<1>5. stops \in SUBSET Slot(n) /\ c.k \in stops
  BY <1>1 DEF GapStops
<1>6. \A hv \in Int, S \in SUBSET Slot(n) : S # {} =>
        /\ FirstProbe(n, hv, S) \in S
        /\ \A x \in S : Steps(n, first(n, hv), FirstProbe(n, hv, S)) <= Steps(n, first(n, hv), x)
  BY FirstProbeFinds
<1>7. j \in stops /\ \A x \in stops : Steps(n, next(n, c.k), j) <= Steps(n, next(n, c.k), x)
  BY <1>4, <1>5, <1>6 DEF GapStop
<1> QED
  BY <1>1, <1>3, <1>7

LEMMA GapTurn ==
  ASSUME IInv, NEW start \in Slots, NEW e \in Slot(2 * limit), table[e] = -1,
         NEW c, NEW m \in Nat, Gap(2 * limit, start, e, c, m)
  PROVE  Gap(2 * limit, start, e, CloseGap(c), m + 1)
<1> DEFINE n == 2 * limit
           t == GapTable(c)
           v == c.v
           k == c.k
           stops == GapStops(n, c)
           j == GapStop(n, c)
           d == CloseGap(c)
<1>1. n \in Nat \ {0} /\ tablen = n /\ start \in Slot(n) /\ e \in Slot(n)
  BY TableLength DEF Taken
<1>2. /\ IsTable(n, c.t, v) /\ k \in Slot(n) /\ Own(n, t, v) /\ Distinct(n, t)
      /\ Members(n, t) = Members(n, table) \ {table[start]}
      /\ Cardinality(Taken(n, t)) = used - 1 /\ t[e] = -1
  BY DEF Gap
<1>3. /\ d = IF c.t[k] = -1 THEN c
             ELSE [t |-> [t EXCEPT ![k] = t[j]], v |-> [v EXCEPT ![k] = v[j]], k |-> j]
      /\ j \in stops /\ \A x \in stops : Steps(n, next(n, k), j) <= Steps(n, next(n, k), x)
      /\ IsTable(n, t, v) /\ t[k] = -1
  BY <1>1, <1>2, CloseGapType
<1>4. CASE c.t[k] = -1
  <2>1. d = c
    BY <1>3, <1>4
  <2> QED
    BY <1>4, <2>1 DEF Gap
<1>5. CASE c.t[k] # -1
  <2> DEFINE u == GapTable(d)
             w == d.v
  <2>1. /\ ChainedBut(n, t, v, k)
        /\ m <= Steps(n, start, k) /\ Steps(n, start, k) < Steps(n, start, e)
    BY <1>5 DEF Gap
  <2>2. /\ d.t = [t EXCEPT ![k] = t[j]] /\ w = [v EXCEPT ![k] = v[j]] /\ d.k = j
        /\ j \in Slot(n)
    <3>1. j \in Slot(n)
      BY <1>3 DEF GapStops
    <3>2. d = [t |-> [t EXCEPT ![k] = t[j]], v |-> [v EXCEPT ![k] = v[j]], k |-> j]
      BY <1>3, <1>5, Zenon
    <3> HIDE DEF d, t, v, k, j
    <3> QED
      BY <3>1, <3>2
  <2>3. e \in stops
    BY <1>1, <1>2 DEF GapStops
  <2>4. Steps(n, next(n, k), j) <= Steps(n, next(n, k), e)
    BY <1>3, <2>3
  <2> HIDE DEF n, t, v, k, stops, j, d
  <2>5. Steps(n, start, k) < Steps(n, start, j) /\ Steps(n, start, j) <= Steps(n, start, e) /\ j # k
    BY <1>1, <1>2, <2>1, <2>2, <2>4, GapGoesDown
  <2>6. /\ u[k] = t[j] /\ u[j] = -1 /\ w[k] = v[j] /\ d.t[j] = t[j]
        /\ \A x \in Slot(n) \ {k, j} : u[x] = t[x]
        /\ \A x \in Slot(n) \ {k} : w[x] = v[x]
        /\ IsTable(n, d.t, w) /\ IsTable(n, u, w)
    BY <1>2, <1>3, <2>2, <2>5 DEF IsTable, GapTable
  <2> HIDE DEF u, w
  <2>7. ASSUME t[j] = -1
        PROVE  Gap(n, start, e, d, m + 1)
    <3>1. /\ Taken(n, u) = Taken(n, t)
          /\ \A x \in Taken(n, t) : u[x] = t[x] /\ w[x] = v[x]
      BY <1>3, <2>6, <2>7 DEF Taken
    <3>2. Own(n, u, w) /\ Distinct(n, u) /\ Members(n, u) = Members(n, t)
      BY <1>2, <3>1 DEF Own, Distinct, Members
    <3>3. \A x \in Taken(n, t) : Steps(n, next(n, k), x) < Steps(n, next(n, k), j)
                                   => ~ Movable(k, first(n, v[x]), x)
      <4> SUFFICES ASSUME NEW x \in Taken(n, t), Steps(n, next(n, k), x) < Steps(n, next(n, k), j),
                          Movable(k, first(n, v[x]), x)
                   PROVE  FALSE
        OBVIOUS
      <4>1. x \in Slot(n) /\ x \in stops
        BY DEF Taken, stops, GapStops, t, v, k
      <4>2. Steps(n, next(n, k), j) <= Steps(n, next(n, k), x)
        BY <1>3, <4>1
      <4>3. Steps(n, next(n, k), j) \in Int /\ Steps(n, next(n, k), x) \in Int
        BY <1>1, <1>2, <2>2, <4>1, NextIsSlot, StepsInRange DEF Slot
      <4> QED
        BY <4>2, <4>3
    <3>4. Chained(n, t, v)
      BY <1>1, <1>2, <1>3, <2>1, <2>2, <2>5, <2>7, <3>3, GapCloses
    <3>5. Chained(n, u, w)
      BY <3>1, <3>4 DEF Chained, ChainedBut, Leads
    <3>6. u[e] = -1
      BY <1>1, <1>2, <3>1 DEF Taken
    <3> QED
      BY <1>2, <2>2, <2>6, <2>7, <3>1, <3>2, <3>5, <3>6 DEF Gap, u, w
  <2>8. ASSUME t[j] # -1
        PROVE  Gap(n, start, e, d, m + 1)
    <3>1. j \in Taken(n, t) /\ Movable(k, first(n, v[j]), j)
      BY <1>3, <2>2, <2>8 DEF Taken, stops, GapStops, t, v, k
    <3>2. /\ Own(n, u, w) /\ Distinct(n, u) /\ ChainedBut(n, u, w, j)
          /\ Members(n, u) = Members(n, t) /\ Cardinality(Taken(n, u)) = Cardinality(Taken(n, t))
      BY <1>1, <1>2, <1>3, <2>1, <2>6, <3>1, GapMoves
    <3>3. e # j /\ e # k /\ u[e] = -1
      <4>1. e # j
        BY <1>2, <2>8
      <4>2. Steps(n, start, k) \in Int
        BY <1>1, <1>2, StepsInRange DEF Slot
      <4>3. e # k
        BY <2>1, <4>2
      <4> QED
        BY <1>1, <1>2, <2>6, <4>1, <4>3
    <3>4. m + 1 <= Steps(n, start, j) /\ Steps(n, start, j) < Steps(n, start, e)
      <4>1. /\ Steps(n, start, j) # Steps(n, start, e)
            /\ Steps(n, start, j) \in Int /\ Steps(n, start, e) \in Int /\ Steps(n, start, k) \in Int
        BY <1>1, <1>2, <2>2, <3>3, StepsInRange, StepsInjective DEF Slot
      <4> QED
        BY <2>1, <2>5, <4>1
    <3> QED
      BY <1>2, <2>2, <2>6, <2>8, <3>2, <3>3, <3>4 DEF Gap, u, w
  <2>9. Gap(n, start, e, d, m + 1)
    BY <2>7, <2>8 DEF n, d
  <2> QED
    BY <2>9 DEF n, d
<1> QED
  BY <1>4, <1>5

\* The loop of del ends with the gap closed, and only the deleted item gone.
LEMMA ClosedHolds ==
  ASSUME IInv, NEW start \in Slots
  PROVE  /\ Good(2 * limit, Closed(start).t, Closed(start).v)
         /\ Members(2 * limit, Closed(start).t) = Members(2 * limit, table) \ {table[start]}
         /\ Cardinality(Taken(2 * limit, Closed(start).t)) = used - 1
<1> DEFINE n == 2 * limit
           c0 == [t |-> table, v |-> values, k |-> start]
           S == [t : [Slot(n) -> Items \cup {-1}], v : [Slot(n) -> Int], k : Slot(n)]
           F == [x \in S \X Nat |-> CloseGap(x[1])]
           Turns(m) == m = [j \in 0 .. tablen |-> IF j = 0 THEN c0 ELSE CloseGap(m[j - 1])]
           c == CHOOSE m : Turns(m)
<1>1. /\ n \in Nat \ {0} /\ tablen = n /\ Slots = Taken(n, table) /\ start \in Slot(n)
      /\ IsTable(n, table, values)
  BY TableLength DEF IInv, Good, Taken
<1>2. c0 \in S
  BY <1>1 DEF IsTable
<1>3. ASSUME NEW m \in S
      PROVE  CloseGap(m) \in S
  <2>1. IsTable(n, m.t, m.v) /\ m.k \in Slot(n)
    BY DEF IsTable
  <2> DEFINE j == GapStop(n, m)
             u == GapTable(m)
  <2>2. /\ CloseGap(m) = IF m.t[m.k] = -1 THEN m
                         ELSE [t |-> [u EXCEPT ![m.k] = u[j]], v |-> [m.v EXCEPT ![m.k] = m.v[j]], k |-> j]
        /\ j \in GapStops(n, m) /\ IsTable(n, u, m.v)
    BY <1>1, <2>1, CloseGapType
  <2>3. j \in Slot(n)
    BY <2>2 DEF GapStops
  <2> HIDE DEF j, u, n
  <2> QED
    BY <2>1, <2>2, <2>3 DEF IsTable
<1>4. F \in [S \X Nat -> S]
  <2> HIDE DEF S
  <2> QED
    BY <1>3
<1>5. PICK f \in [0 .. n -> S] : f[0] = c0 /\ \A j \in 1 .. n : f[j] = F[<<f[j - 1], j>>]
  <2>1. \E f \in [0 .. n -> S] : Iterates(f, c0, F, n)
    <3> HIDE DEF c0, S, F, n
    <3> QED
      BY <1>1, <1>2, <1>4, RecursionExists
  <2> QED
    BY <2>1 DEF Iterates
<1>6. Turns(f)
  <2> HIDE DEF S, c0
  <2>1. ASSUME NEW j \in 0 .. n
        PROVE  f[j] = IF j = 0 THEN c0 ELSE CloseGap(f[j - 1])
    <3>1. CASE j = 0
      BY <3>1, <1>5
    <3>2. CASE j # 0
      <4>1. j \in 1 .. n /\ j - 1 \in 0 .. n /\ j \in Nat
        BY <1>1, <3>2
      <4>2. f[j - 1] \in S /\ f[j] = F[<<f[j - 1], j>>]
        BY <1>5, <4>1
      <4>3. F[<<f[j - 1], j>>] = CloseGap(f[j - 1])
        BY <4>1, <4>2
      <4> QED
        BY <3>2, <4>2, <4>3
    <3> QED
      BY <3>1, <3>2
  <2> QED
    BY <1>1, <1>5, <2>1
<1>7. Turns(c)
  <2> HIDE DEF Turns
  <2> QED
    BY <1>6
<1>8. Closed(start) = c[n]
  BY <1>1 DEF Closed
<1> HIDE DEF c, S, F, c0
<1>9. c[0] = c0 /\ \A j \in Slot(n) : c[j + 1] = CloseGap(c[j])
  <2>1. 0 \in 0 .. n /\ \A j \in Slot(n) : j + 1 \in 0 .. n /\ j + 1 # 0 /\ (j + 1) - 1 = j
    BY <1>1 DEF Slot
  <2> QED
    BY <1>1, <1>7, <2>1
<1>10. PICK e \in Slot(n) : table[e] = -1
  BY SlotIsEmpty
<1> DEFINE T == {j \in Nat : j <= n => Gap(n, start, e, c[j], j)}
<1>11. 0 \in T
  BY <1>9, <1>10, GapBegins DEF c0
<1>12. ASSUME NEW j \in Nat, j \in T
       PROVE  j + 1 \in T
  <2>1. CASE j + 1 <= n
    <3>1. j \in Slot(n) /\ Gap(n, start, e, c[j], j)
      BY <1>1, <1>12, <2>1 DEF Slot
    <3>2. Gap(n, start, e, CloseGap(c[j]), j + 1)
      BY <1>10, <3>1, GapTurn
    <3> QED
      BY <1>9, <3>1, <3>2
  <2> QED
    BY <2>1
<1>13. Gap(n, start, e, c[n], n)
  <2>1. n \in T
    <3> HIDE DEF T, n
    <3> QED
      BY <1>1, <1>11, <1>12, NaturalInduction
  <2> QED
    BY <1>1, <2>1
<1> DEFINE d == Closed(start)
<1> HIDE DEF n, d
<1>14. /\ Gap(n, start, e, d, n)
       /\ Steps(n, start, e) < n
  BY <1>1, <1>8, <1>13, StepsInRange DEF d, Slot
<1>15. d.t[d.k] = -1 /\ Chained(n, GapTable(d), d.v)
  <2>1. d.k \in Slot(n)
    BY <1>14 DEF Gap
  <2>2. Steps(n, start, d.k) \in Int /\ Steps(n, start, e) \in Int
    <3>1. Steps(n, start, d.k) \in Slot(n) /\ Steps(n, start, e) \in Slot(n)
      BY <1>1, <1>10, <2>1, StepsInRange
    <3> QED
      BY <1>1, <3>1 DEF Slot
  <2>3. ~ (n <= Steps(n, start, d.k) /\ Steps(n, start, d.k) < Steps(n, start, e))
    BY <1>1, <1>14, <2>2
  <2> QED
    BY <1>14, <2>3 DEF Gap
<1>16. GapTable(d) = d.t
  BY <1>14, <1>15 DEF Gap, GapTable, IsTable
<1>17. /\ Good(n, d.t, d.v) /\ Members(n, d.t) = Members(n, table) \ {table[start]}
       /\ Cardinality(Taken(n, d.t)) = used - 1
  BY <1>14, <1>15, <1>16 DEF Gap, Good
<1> QED
  BY <1>17 DEF d, n

\* A deletion that finds an item returns it and takes it away; another changes nothing.
LEMMA DeleteStep ==
  ASSUME IInv, NEW j \in Slot(2 * limit), DeleteAt(j), asked' \in Items
  PROVE  /\ IInv' /\ answer' = table[j]
         /\ Members(2 * limit, table)' = Members(2 * limit, table) \ {table[j]}
<1> DEFINE n == 2 * limit
<1>1. /\ n \in Nat \ {0} /\ Slots = Taken(n, table) /\ IsFiniteSet(Slots)
      /\ limit \in Nat \ {0} /\ used \in Nat /\ used <= limit /\ used = Cardinality(Slots)
      /\ Good(n, table, values)
  BY TableLength, TakenFinite DEF IInv, TypeOK
<1>2. table[j] \in Items \cup {-1}
  BY <1>1 DEF Good, IsTable
<1>3. CASE table[j] = -1
  <2>1. UNCHANGED <<table, values, used, limit>> /\ answer' = -1
    BY <1>3 DEF DeleteAt
  <2>2. -1 \notin Members(n, table)
    BY DEF Members, Taken
  <2>3. Members(n, table)' = Members(n, table)
    BY <2>1 DEF Members, Taken
  <2>4. TypeOK'
    BY <2>1, <1>1 DEF TypeOK
  <2>5. Good(n, table, values)' /\ (used = Cardinality(Taken(n, table)))'
    BY <1>1, <2>1 DEF Good, IsTable, Own, Distinct, Chained, ChainedBut, Leads, Taken
  <2> QED
    BY <1>1, <1>3, <2>1, <2>2, <2>3, <2>4, <2>5 DEF IInv
<1>4. CASE table[j] # -1
  <2>1. j \in Slots
    BY <1>1, <1>4 DEF Taken
  <2>2. used # 0
    BY <1>1, <2>1, FS_EmptySet
  <2>3. /\ answer' = table[j] /\ table' = Closed(j).t /\ values' = Closed(j).v
        /\ used' = used - 1 /\ limit' = limit
    BY <1>4, <2>2 DEF DeleteAt
  <2>4. /\ Good(n, table', values') /\ Members(n, table') = Members(n, table) \ {table[j]}
        /\ Cardinality(Taken(n, table')) = used - 1
    BY <2>1, <2>3, ClosedHolds
  <2>5. TypeOK'
    BY <1>1, <1>2, <2>2, <2>3 DEF TypeOK
  <2>6. /\ Good(n, table, values)' <=> Good(n, table', values')
        /\ Members(n, table)' = Members(n, table')
        /\ Taken(n, table)' = Taken(n, table')
    BY <2>3 DEF Good, IsTable, Own, Distinct, Chained, ChainedBut, Leads, Members, Taken
  <2> QED
    BY <1>1, <2>3, <2>4, <2>5, <2>6 DEF IInv
<1> QED
  BY <1>3, <1>4

LEMMA ClearStep ==
  ASSUME IInv, Clear
  PROVE  IInv' /\ Members(2 * limit, table)' = {}
<1> DEFINE n == 2 * limit
<1>1. /\ n \in Nat \ {0} /\ DOMAIN table = Slot(n) /\ limit \in Nat \ {0}
      /\ values \in [Slot(n) -> Int]
  BY TableLength DEF IInv, TypeOK, Good, IsTable
<1>2. /\ table' = [k \in 0 .. n - 1 |-> -1] /\ values' = values /\ limit' = limit
      /\ used' = 0 /\ asked' = -1 /\ answer' = -1
  BY <1>1 DEF Clear, Slot
<1>3. /\ Good(n, table', values') /\ Members(n, table') = {} /\ Cardinality(Taken(n, table')) = 0
  BY <1>1, <1>2, EmptyIsGood DEF Slot
<1>4. TypeOK'
  BY <1>1, <1>2 DEF TypeOK
<1>5. /\ Good(n, table, values)' <=> Good(n, table', values')
      /\ Members(n, table)' = Members(n, table')
      /\ Taken(n, table)' = Taken(n, table')
  BY <1>2 DEF Good, IsTable, Own, Distinct, Chained, ChainedBut, Leads, Members, Taken
<1> QED
  BY <1>1, <1>2, <1>3, <1>4, <1>5 DEF IInv

-----------------------------------------------------------------------------
(* The first table. *)

\* ht_init ends with a length that is even, and holds what it was asked to hold.
LEMMA TableSizeIs ==
  ASSUME NEW len \in Nat \ {0}
  PROVE  \E k \in Nat \ {0} : TableSize(len) = 2 * k /\ len <= k
<1> DEFINE n == 2 * len
           S == Nat \ {0}
           F == [x \in S \X Nat |-> 2 * x[1]]
           Turns(m) == m = [e \in 0 .. n |-> IF e = 0 THEN 1 ELSE 2 * m[e - 1]]
           c == CHOOSE m : Turns(m)
           es == {e \in 0 .. n : c[e] >= n}
           e0 == CHOOSE e \in 0 .. n : c[e] >= n /\ \A d \in 0 .. e - 1 : c[d] < n
<1>1. n \in Nat \ {0} /\ n >= 2 /\ 1 \in S /\ F \in [S \X Nat -> S]
  OBVIOUS
<1>2. PICK f \in [0 .. n -> S] : f[0] = 1 /\ \A j \in 1 .. n : f[j] = F[<<f[j - 1], j>>]
  <2>1. \E f \in [0 .. n -> S] : Iterates(f, 1, F, n)
    <3> HIDE DEF S, F, n
    <3> QED
      BY <1>1, RecursionExists
  <2> QED
    BY <2>1 DEF Iterates
<1>3. Turns(f)
  <2>1. ASSUME NEW j \in 0 .. n
        PROVE  f[j] = IF j = 0 THEN 1 ELSE 2 * f[j - 1]
    <3>1. CASE j = 0
      BY <3>1, <1>2
    <3>2. CASE j # 0
      <4>1. j \in 1 .. n /\ j - 1 \in 0 .. n /\ j \in Nat
        BY <1>1, <3>2
      <4>2. f[j - 1] \in S /\ f[j] = F[<<f[j - 1], j>>]
        BY <1>2, <4>1
      <4>3. F[<<f[j - 1], j>>] = 2 * f[j - 1]
        BY <4>1, <4>2
      <4> QED
        BY <3>2, <4>2, <4>3
    <3> QED
      BY <3>1, <3>2
  <2> HIDE DEF S
  <2> QED
    BY <1>2, <2>1
<1>4. Turns(c)
  <2> HIDE DEF Turns
  <2> QED
    BY <1>3
<1>5. TableSize(len) = c[e0]
  BY DEF TableSize, LOAD_FACTOR
<1> HIDE DEF c
<1>6. c[0] = 1 /\ \A e \in 0 .. n : e # 0 => c[e] = 2 * c[e - 1]
  BY <1>1, <1>4
<1> DEFINE T == {e \in Nat : e <= n => c[e] \in Nat /\ c[e] > e}
<1>7. \A e \in Nat : e \in T
  <2>1. 0 \in T
    BY <1>6
  <2>2. ASSUME NEW e \in Nat, e \in T
        PROVE  e + 1 \in T
    <3>1. CASE e + 1 <= n
      <4>1. c[e] \in Nat /\ c[e] > e
        BY <1>1, <2>2, <3>1
      <4>2. e + 1 \in 0 .. n /\ e + 1 # 0 /\ (e + 1) - 1 = e
        BY <1>1, <3>1
      <4>3. c[e + 1] = 2 * c[e]
        BY <1>6, <4>2
      <4>4. c[e + 1] \in Nat /\ c[e + 1] > e + 1
        BY <4>1, <4>3
      <4> QED
        BY <4>4
    <3> QED
      BY <3>1
  <2> HIDE DEF T
  <2> QED
    BY <2>1, <2>2, NaturalInduction
<1>8. \A e \in 0 .. n : c[e] \in Nat /\ c[e] > e
  BY <1>1, <1>7
<1>9. \E e \in 0 .. n : c[e] >= n /\ \A d \in 0 .. e - 1 : c[d] < n
  <2>1. es \in SUBSET Nat /\ n \in es
    BY <1>1, <1>8
  <2>2. PICK e \in es : \A d \in es : e <= d
    <3> HIDE DEF es
    <3> QED
      BY <2>1, LeastNatural
  <2>3. ASSUME NEW d \in 0 .. e - 1
        PROVE  c[d] < n
    <3>1. d \in 0 .. n /\ ~ (e <= d)
      BY <1>1, <2>2
    <3> QED
      BY <1>1, <1>8, <2>2, <3>1
  <2> QED
    BY <2>2, <2>3
<1>10. e0 \in 0 .. n /\ c[e0] >= n
  BY <1>9
<1> HIDE DEF e0
<1>11. e0 # 0
  BY <1>1, <1>6, <1>10
<1>12. c[e0] = 2 * c[e0 - 1] /\ c[e0 - 1] \in Nat
  BY <1>6, <1>8, <1>10, <1>11
<1>13. c[e0 - 1] >= len
  BY <1>10, <1>12
<1> QED
  BY <1>5, <1>12, <1>13

LEMMA InitInvariant ==
  ASSUME Init
  PROVE  IInv /\ Members(2 * limit, table) = {}
<1>1. PICK k \in Nat \ {0} : TableSize(InitialLen) = 2 * k
  BY Sizes, TableSizeIs
<1>2. (2 * k) \div 2 = k
  OBVIOUS
<1>3. /\ limit = k /\ used = 0 /\ asked = -1 /\ answer = -1
      /\ table = [j \in 0 .. 2 * k - 1 |-> -1] /\ values = [j \in 0 .. 2 * k - 1 |-> 0]
  BY <1>1, <1>2 DEF Init, LOAD_FACTOR
<1>4. TypeOK
  BY <1>3 DEF TypeOK
<1>5. /\ Good(2 * k, table, values) /\ Members(2 * k, table) = {}
      /\ Cardinality(Taken(2 * k, table)) = 0
  BY <1>3, EmptyIsGood
<1> QED
  BY <1>3, <1>4, <1>5 DEF IInv

-----------------------------------------------------------------------------
(* The theorems. *)

LEMMA NextInvariant ==
  ASSUME IInv, [Next]_vars
  PROVE  IInv'
<1>1. CASE Clear
  BY <1>1, ClearStep
<1>2. ASSUME NEW i \in Items, Get(i)
      PROVE  IInv'
  <2>1. /\ UNCHANGED <<table, values, used, limit>> /\ asked' = i
        /\ answer' = table[Find(i)]
    BY <1>2 DEF Get
  <2>2. table[Find(i)] \in Items \cup {-1}
    BY FindFinds DEF IInv, Good, IsTable
  <2>3. TypeOK'
    BY <2>1, <2>2 DEF IInv, TypeOK
  <2>4. Good(2 * limit, table, values)' /\ (used = Cardinality(Taken(2 * limit, table)))' /\ (used <= limit)'
    BY <2>1 DEF IInv, Good, IsTable, Own, Distinct, Chained, ChainedBut, Leads, Taken
  <2> QED
    BY <2>3, <2>4 DEF IInv
<1>3. ASSUME NEW i \in Items, Put(i)
      PROVE  IInv'
  BY <1>3, PutStep
<1>4. ASSUME NEW i \in Items, Del(i)
      PROVE  IInv'
  BY <1>4, FindFinds, DeleteStep DEF Del
<1>5. ASSUME NEW i \in Items, Deli(i)
      PROVE  IInv'
  BY <1>5, FindSelfFinds, DeleteStep DEF Deli
<1>6. CASE UNCHANGED vars
  BY <1>6 DEF vars, IInv, TypeOK, Good, IsTable, Own, Distinct, Chained, ChainedBut, Leads, Taken
<1> QED
  BY <1>1, <1>2, <1>3, <1>4, <1>5, <1>6 DEF Next

\* Whatever ht_put, ht_del, ht_deli and ht_clear do, in whatever order: a table of twice
\* limit slots, at most half of them taken, by items of different keys, each beside its
\* own hash value, and no empty slot in the way of a search for one of them.
THEOREM Invariant == Spec => []IInv
<1>1. Init => IInv
  BY InitInvariant
<1>2. IInv /\ [Next]_vars => IInv'
  BY NextInvariant
<1> QED
  BY <1>1, <1>2, PTL DEF Spec

\* The counter and the limit agree with the table, and it never fills up: no search of
\* ht.c runs for ever.
THEOREM RoomIsLeft == Spec => []RoomLeft
<1>1. IInv => RoomLeft
  BY InvariantImplies
<1> QED
  BY <1>1, Invariant, PTL

\* Every item is found by its key, whatever was deleted or moved around it.
THEOREM AllAreFound == Spec => []AllFound
<1>1. IInv => AllFound
  BY InvariantImplies
<1> QED
  BY <1>1, Invariant, PTL

\* The hash value kept beside an item is its own, so that growth moves it to its place.
THEOREM ValuesAreKept == Spec => []ValuesKept
<1>1. IInv => ValuesKept
  BY InvariantImplies
<1> QED
  BY <1>1, Invariant, PTL

-----------------------------------------------------------------------------
(* The set of items that the table stands for. *)

held == {table[j] : j \in Slots}

LEMMA HeldIs ==
  ASSUME IInv
  PROVE  held = Members(2 * limit, table)
BY TableLength DEF held, Members

LEMMA HeldAtFind ==
  ASSUME IInv, NEW i \in Items
  PROVE  /\ table[Find(i)] \in IF Interning!Equal(i) = {} THEN {-1} ELSE Interning!Equal(i)
         /\ table[FindSelf(i)] = IF i \in held THEN i ELSE -1
<1>1. Interning!Equal(i) = {table[x] : x \in {y \in Slots : equal(i, table[y])}}
  BY DEF Interning!Equal, equal
<1>2. Slots = {x \in Slot(2 * limit) : table[x] # -1}
  BY TableLength DEF Taken
<1>3. table[Find(i)] \in IF Interning!Equal(i) = {} THEN {-1} ELSE Interning!Equal(i)
  <2>1. CASE Interning!Equal(i) = {}
    <3>1. Find(i) \notin Slots
      BY <1>1, <1>2, <2>1, FindFinds
    <3> QED
      BY <1>2, <2>1, <3>1, FindFinds
  <2>2. CASE Interning!Equal(i) # {}
    <3>1. PICK x \in Slots : equal(i, table[x])
      BY <1>1, <2>2
    <3>2. Find(i) = x
      BY <3>1, FindFinds
    <3> QED
      BY <1>1, <2>2, <3>1, <3>2
  <2> QED
    BY <2>1, <2>2
<1>4. table[FindSelf(i)] = IF i \in held THEN i ELSE -1
  <2>1. CASE i \in held
    BY <2>1, FindSelfFinds DEF held
  <2>2. CASE i \notin held
    <3>1. table[FindSelf(i)] # i
      BY <1>2, <2>2, FindSelfFinds, ItemFacts DEF held
    <3> QED
      BY <2>2, <3>1, FindSelfFinds
  <2> QED
    BY <2>1, <2>2
<1> QED
  BY <1>3, <1>4

\* Each call of the table is the call of the set, or no step of it.
LEMMA NextImplements ==
  ASSUME IInv, IInv', [Next]_vars
  PROVE  [Interning!Next]_(Interning!vars)
<1>1. held = Members(2 * limit, table) /\ held' = Members(2 * limit, table)'
  <2>1. DOMAIN table' = Slot(2 * limit')
    BY DEF IInv, Good, IsTable
  <2> QED
    BY <2>1, HeldIs DEF held, Members, Slots, Taken
<1>2. CASE Clear
  <2>1. held' = {} /\ asked' = -1 /\ answer' = -1
    BY <1>1, <1>2, ClearStep DEF Clear
  <2> QED
    BY <2>1 DEF Interning!Next, Interning!Clear, held
<1>3. ASSUME NEW i \in Items, Get(i)
      PROVE  Interning!Get(i)
  <2>1. asked' = i /\ answer' = table[Find(i)] /\ held' = held
    BY <1>3 DEF Get, held, Slots
  <2> QED
    BY <2>1, HeldAtFind DEF Interning!Get, held
<1>4. ASSUME NEW i \in Items, Put(i)
      PROVE  Interning!Put(i)
  <2>1. asked' = i /\ answer' = -1 /\ held' = held \cup {i}
    BY <1>1, <1>4, PutStep DEF Put
  <2>2. Interning!Equal(i) = {}
    BY <1>4 DEF Put, Absent, equal, Slots, Interning!Equal
  <2> QED
    BY <2>1, <2>2 DEF Interning!Put, held
<1>5. ASSUME NEW i \in Items, Del(i)
      PROVE  Interning!Del(i)
  <2>1. asked' = i /\ answer' = table[Find(i)] /\ held' = held \ {table[Find(i)]}
    BY <1>1, <1>5, FindFinds, DeleteStep DEF Del
  <2> QED
    BY <2>1, HeldAtFind DEF Interning!Del, held
<1>6. ASSUME NEW i \in Items, Deli(i)
      PROVE  Interning!Deli(i)
  <2>1. asked' = i /\ answer' = table[FindSelf(i)] /\ held' = held \ {table[FindSelf(i)]}
    BY <1>1, <1>6, FindSelfFinds, DeleteStep DEF Deli
  <2>2. -1 \notin held
    BY DEF held, Slots
  <2>3. held' = held \ {i}
    BY <2>1, <2>2, HeldAtFind
  <2> QED
    BY <2>1, <2>3, HeldAtFind DEF Interning!Deli, held
<1>7. CASE UNCHANGED vars
  BY <1>7 DEF vars, Interning!vars, Slots
<1> QED
  BY <1>2, <1>3, <1>4, <1>5, <1>6, <1>7 DEF Next, Interning!Next

\* The table is a set of items, at most one with each key: nothing is lost, kept twice or
\* answered for another key.
THEOREM Refinement == Spec => IsInternSet
<1>1. Init => Interning!Init
  <2> SUFFICES ASSUME Init
               PROVE  Interning!Init
    OBVIOUS
  <2>1. held = {} /\ asked = -1 /\ answer = -1
    BY InitInvariant, HeldIs DEF Init
  <2> QED
    BY <2>1 DEF Interning!Init, held
<1>2. IInv /\ IInv' /\ [Next]_vars => [Interning!Next]_(Interning!vars)
  BY NextImplements
<1> QED
  BY <1>1, <1>2, Invariant, PTL DEF Spec, IsInternSet, Interning!Spec
=============================================================================
