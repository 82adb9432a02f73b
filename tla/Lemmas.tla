------------------------------- MODULE Lemmas -------------------------------
(***************************************************************************)
(* Lemmas that the proofs about tables, texts and symbols rest on:         *)
(* induction over the natural numbers with a set in place of a predicate,  *)
(* functions that are defined by recursion over them, remainders, and      *)
(* sequences of whatever elements.                                         *)
(***************************************************************************)
EXTENDS Integers, Sequences, WellFoundedInduction, SequenceTheorems, TLAPS

LEMMA LessThanRelation ==
  \E R : IsWellFoundedOn(R, Nat) /\ \A x, y \in Nat : <<y, x>> \in R <=> y < x
<1> DEFINE R == OpToRel(<, Nat)
<1>1. IsWellFoundedOn(R, Nat)
  BY NatLessThanWellFounded
<1>2. \A x, y \in Nat : <<y, x>> \in R <=> y < x
  BY DEF OpToRel
<1> HIDE DEF R
<1> QED
  BY <1>1, <1>2

\* A set of numbers that is not empty has a least one.
LEMMA LeastNatural ==
  ASSUME NEW T \in SUBSET Nat, T # {}
  PROVE  \E x \in T : \A y \in T : x <= y
<1>1. PICK R : IsWellFoundedOn(R, Nat) /\ \A x, y \in Nat : <<y, x>> \in R <=> y < x
  BY LessThanRelation
<1>2. PICK x \in T : \A y \in T : ~ (<<y, x>> \in R)
  BY <1>1, WFMin
<1>3. ASSUME NEW y \in T
      PROVE  x <= y
  <2>1. x \in Nat /\ y \in Nat
    OBVIOUS
  <2>2. ~ (y < x)
    BY <1>1, <1>2, <2>1, Zenon
  <2> QED
    BY <2>1, <2>2
<1> QED
  BY <1>3

\* A set that holds zero, and with each number the next, holds them all.
LEMMA NaturalInduction ==
  ASSUME NEW S, 0 \in S, \A n \in Nat : n \in S => n + 1 \in S
  PROVE  \A n \in Nat : n \in S
<1> SUFFICES ASSUME Nat \ S # {}
             PROVE  FALSE
  OBVIOUS
<1>1. PICK x \in Nat \ S : \A y \in Nat \ S : x <= y
  BY LeastNatural
<1>2. x - 1 \in Nat /\ x - 1 \in S
  BY <1>1
<1> QED
  BY <1>2

\* f begins with a, and F makes each value from the one before and the place.
Iterates(f, a, F, N) == f[0] = a /\ \A n \in 1 .. N : f[n] = F[<<f[n - 1], n>>]

\* A function with a first value and a rule for the next one exists up to every number.
LEMMA RecursionExists ==
  ASSUME NEW S, NEW a \in S, NEW F \in [S \X Nat -> S]
  PROVE  \A N \in Nat : \E f \in [0 .. N -> S] : Iterates(f, a, F, N)
<1> DEFINE Starts(N, f) == f[0] = a /\ \A n \in 1 .. N : f[n] = F[<<f[n - 1], n>>]
           T == {N \in Nat : \E f \in [0 .. N -> S] : Starts(N, f)}
<1>1. 0 \in T
  <2>1. [n \in 0 .. 0 |-> a] \in [0 .. 0 -> S] /\ Starts(0, [n \in 0 .. 0 |-> a])
    OBVIOUS
  <2> QED
    BY <2>1
<1>2. ASSUME NEW N \in Nat, N \in T
      PROVE  N + 1 \in T
  <2>1. PICK f \in [0 .. N -> S] : Starts(N, f)
    BY <1>2
  <2> DEFINE g == [n \in 0 .. N + 1 |-> IF n = N + 1 THEN F[<<f[N], N + 1>>] ELSE f[n]]
  <2>2. g \in [0 .. N + 1 -> S]
    OBVIOUS
  <2>3. /\ g[N + 1] = F[<<g[N], N + 1>>]
        /\ \A n \in 0 .. N : g[n] = f[n]
    <3>1. \A n \in 0 .. N : n \in 0 .. N + 1 /\ n # N + 1
      OBVIOUS
    <3>2. \A n \in 0 .. N : g[n] = f[n]
      BY <3>1
    <3>3. N \in 0 .. N /\ N + 1 \in 0 .. N + 1
      OBVIOUS
    <3>4. g[N + 1] = F[<<f[N], N + 1>>]
      BY <3>3, Zenon
    <3> QED
      BY <3>2, <3>3, <3>4, Zenon
  <2> HIDE DEF g
  <2>4. g[0] = a
    BY <2>1, <2>3
  <2>5. ASSUME NEW n \in 1 .. N + 1
        PROVE  g[n] = F[<<g[n - 1], n>>]
    <3>1. CASE n = N + 1
      <4>1. n - 1 = N
        BY <3>1
      <4> QED
        BY <2>3, <3>1, <4>1
    <3>2. CASE n # N + 1
      <4>1. n \in 1 .. N /\ n \in 0 .. N /\ n - 1 \in 0 .. N
        BY <3>2
      <4>2. f[n] = F[<<f[n - 1], n>>]
        BY <2>1, <4>1
      <4> QED
        BY <2>3, <4>1, <4>2
    <3> QED
      BY <3>1, <3>2
  <2>6. Starts(N + 1, g)
    BY <2>4, <2>5
  <2>7. \E h \in [0 .. N + 1 -> S] : Starts(N + 1, h)
    BY <2>2, <2>6
  <2> QED
    BY <2>7
<1>3. \A N \in Nat : N \in T
  <2> HIDE DEF T
  <2> QED
    BY <1>1, <1>2, NaturalInduction
<1> QED
  BY <1>3 DEF Iterates

-----------------------------------------------------------------------------
(* Remainders. *)

LEMMA Remainder ==
  ASSUME NEW n \in Nat \ {0}, NEW a \in Int
  PROVE  a % n \in 0 .. n - 1 /\ \E q \in Int : a = q * n + (a % n)
<1>1. a = n * (a \div n) + (a % n) /\ a % n \in 0 .. n - 1 /\ a \div n \in Int
  OBVIOUS
<1>2. a = (a \div n) * n + (a % n)
  BY <1>1
<1> QED
  BY <1>1, <1>2

LEMMA RemainderUnique ==
  ASSUME NEW n \in Nat \ {0}, NEW q \in Int, NEW r \in 0 .. n - 1
  PROVE  (q * n + r) % n = r
<1> DEFINE a == q * n + r
<1>1. a \in Int
  OBVIOUS
<1>2. a = n * (a \div n) + (a % n) /\ a % n \in 0 .. n - 1 /\ a \div n \in Int
  OBVIOUS
<1> DEFINE e == a \div n
           m == a % n
           d == q - e
<1>3. d * n = m - r
  BY <1>1, <1>2
<1> QED
  OBVIOUS

\* Counting down from a remainder goes round.
LEMMA RemainderDown ==
  ASSUME NEW n \in Nat \ {0}, NEW a \in Int, NEW k \in 0 .. n - 1
  PROVE  (a - k) % n = IF k <= a % n THEN (a % n) - k ELSE (a % n) - k + n
<1>1. PICK q \in Int : a = q * n + (a % n)
  BY Remainder
<1> DEFINE r == a % n
<1>2. r \in 0 .. n - 1
  BY Remainder
<1> HIDE DEF r
<1>3. CASE k <= r
  <2>1. a - k = q * n + (r - k) /\ r - k \in 0 .. n - 1
    BY <1>1, <1>2, <1>3 DEF r
  <2> QED
    BY <2>1, <1>3, RemainderUnique DEF r
<1>4. CASE ~ (k <= r)
  <2>1. a - k = (q - 1) * n + (r - k + n) /\ r - k + n \in 0 .. n - 1
    BY <1>1, <1>2, <1>4 DEF r
  <2>2. q - 1 \in Int
    OBVIOUS
  <2> QED
    BY <2>1, <2>2, <1>4, RemainderUnique DEF r
<1> QED
  BY <1>3, <1>4

-----------------------------------------------------------------------------
(* Sequences of whatever elements. *)

Elements(s)   == {s[i] : i \in DOMAIN s}
IsSequence(s) == s \in Seq(Elements(s))

LEMMA SequenceOf ==
  ASSUME NEW S, NEW s \in Seq(S)
  PROVE  IsSequence(s)
<1>1. s \in [1..Len(s) -> S] /\ Len(s) \in Nat
  BY LenProperties
<1>2. s \in [1..Len(s) -> Elements(s)]
  BY <1>1 DEF Elements
<1>3. Seq(Elements(s)) = UNION {[1..n -> Elements(s)] : n \in Nat}
  BY SeqDef
<1> QED
  BY <1>1, <1>2, <1>3 DEF IsSequence

LEMMA EmptySequence == IsSequence(<<>>)
BY SequenceOf, EmptySeq

LEMMA SequenceFacts ==
  ASSUME NEW s, IsSequence(s)
  PROVE  /\ Len(s) \in Nat /\ DOMAIN s = 1..Len(s)
         /\ s = <<>> <=> Len(s) = 0
BY LenProperties, EmptySeq DEF IsSequence

LEMMA Appended ==
  ASSUME NEW s, IsSequence(s), NEW x
  PROVE  /\ IsSequence(Append(s, x))
         /\ Append(s, x) # <<>>
         /\ Len(Append(s, x)) = Len(s) + 1
         /\ DOMAIN Append(s, x) = 1 .. Len(s) + 1
         /\ \A i \in 1..Len(s) : Append(s, x)[i] = s[i]
         /\ Append(s, x)[Len(s) + 1] = x
<1> DEFINE S == Elements(s) \cup {x}
<1>1. s \in Seq(S)
  BY SeqMonotonic DEF IsSequence
<1>2. x \in S
  OBVIOUS
<1> HIDE DEF S
<1>3. /\ Append(s, x) \in Seq(S) /\ Append(s, x) # <<>>
      /\ Len(Append(s, x)) = Len(s) + 1
      /\ \A i \in 1..Len(s) : Append(s, x)[i] = s[i]
      /\ Append(s, x)[Len(s) + 1] = x
  BY <1>1, <1>2, AppendProperties
<1>4. DOMAIN Append(s, x) = 1 .. Len(s) + 1
  BY <1>3, LenProperties
<1>5. IsSequence(Append(s, x))
  BY <1>3, SequenceOf
<1> QED
  BY <1>3, <1>4, <1>5

LEMMA LastReplaced ==
  ASSUME NEW s, IsSequence(s), s # <<>>, NEW x
  PROVE  LET t == [s EXCEPT ![Len(s)] = x]
         IN  /\ IsSequence(t) /\ t # <<>>
             /\ Len(t) = Len(s) /\ DOMAIN t = 1..Len(s)
             /\ \A i \in 1 .. Len(s) - 1 : t[i] = s[i]
             /\ t[Len(s)] = x
<1> DEFINE S == Elements(s) \cup {x}
           t == [s EXCEPT ![Len(s)] = x]
<1>1. s \in Seq(S)
  BY SeqMonotonic DEF IsSequence
<1>2. x \in S
  OBVIOUS
<1>3. Len(s) \in Nat /\ Len(s) # 0
  BY SequenceFacts
<1>4. Len(s) \in 1..Len(s)
  BY <1>3
<1> HIDE DEF S
<1>5. /\ t \in Seq(S) /\ Len(t) = Len(s)
      /\ \A j \in 1 .. Len(s) : t[j] = IF j = Len(s) THEN x ELSE s[j]
  BY <1>1, <1>2, <1>4, ExceptSeq
<1>6. IsSequence(t)
  BY <1>5, SequenceOf
<1> HIDE DEF t
<1>7. /\ DOMAIN t = 1..Len(s)
      /\ t # <<>>
  BY <1>3, <1>5, <1>6, SequenceFacts
<1>8. \A i \in 1 .. Len(s) - 1 : t[i] = s[i]
  BY <1>3, <1>5
<1>9. t[Len(s)] = x
  BY <1>4, <1>5
<1> QED
  BY <1>5, <1>6, <1>7, <1>8, <1>9 DEF t

LEMMA Beginning ==
  ASSUME NEW S, NEW s, NEW m \in Nat, \A i \in 1..m : s[i] \in S
  PROVE  /\ SubSeq(s, 1, m) \in Seq(S)
         /\ Len(SubSeq(s, 1, m)) = m
         /\ \A i \in 1..m : SubSeq(s, 1, m)[i] = s[i]
<1>1. 1 \in Int /\ m \in Int
  OBVIOUS
<1>2. /\ SubSeq(s, 1, m) \in Seq(S)
      /\ Len(SubSeq(s, 1, m)) = IF 1 <= m THEN m - 1 + 1 ELSE 0
      /\ \A i \in 1 .. m - 1 + 1 : SubSeq(s, 1, m)[i] = s[1 + i - 1]
  BY <1>1, SubSeqProperties
<1>3. m - 1 + 1 = m /\ (\A i \in 1..m : 1 + i - 1 = i) /\ (1 <= m \/ m = 0)
  OBVIOUS
<1> QED
  BY <1>2, <1>3

LEMMA LastDropped ==
  ASSUME NEW s, IsSequence(s), s # <<>>
  PROVE  LET t == SubSeq(s, 1, Len(s) - 1)
         IN  /\ IsSequence(t)
             /\ Len(t) = Len(s) - 1
             /\ \A i \in 1 .. Len(s) - 1 : t[i] = s[i]
<1> DEFINE S == Elements(s)
           m == Len(s) - 1
           t == SubSeq(s, 1, m)
<1>1. s \in Seq(S)
  BY DEF IsSequence
<1>2. Len(s) \in Nat /\ Len(s) # 0
  BY SequenceFacts
<1>3. m \in Nat
  BY <1>2
<1>4. \A i \in 1..m : s[i] \in S
  BY <1>1, <1>2, ElementOfSeq
<1> HIDE DEF m, S
<1>5. t \in Seq(S) /\ Len(t) = m /\ \A i \in 1..m : t[i] = s[i]
  BY <1>3, <1>4, Beginning
<1> HIDE DEF t
<1>6. IsSequence(t)
  BY <1>5, SequenceOf
<1> QED
  BY <1>5, <1>6 DEF t, m

LEMMA LastOrBefore ==
  ASSUME NEW n \in Nat, NEW i \in 1..n
  PROVE  i = n \/ i \in 1 .. n - 1
OBVIOUS
=============================================================================
