------------------------------- MODULE Store -------------------------------
(***************************************************************************)
(* The pattern store (rn.c): a heap of cells that only grows while a       *)
(* schema is read, and the set ht_p of the cells that are interned.        *)
(*                                                                         *)
(* A store is a record [heap, ht].  A pattern is the position of its cell; *)
(* a cell keeps the kind, up to two operands (positions, or numbers of     *)
(* name classes, datatypes and values) and the nullable flag.  The content *)
(* type is a function of the cell and computed where it is asked for; the  *)
(* cdata flag is left out, nothing reads it.  C gives a cell one to three  *)
(* integers of an array; here it is one position.                          *)
(*                                                                         *)
(* Constructors return [p, st]: the pattern and the store with it.         *)
(***************************************************************************)
EXTENDS Naturals, Sequences, FiniteSets

LOCAL INSTANCE SequencesExt

NoPat     == 0     \* a reference that is not resolved, a search without success
rnNotAllowed == 1
rnEmpty   == 2
rnText    == 3
BASE_P    == 3     \* the patterns that every schema shares

Cell(kind, a, b, nul) == [kind |-> kind, a |-> a, b |-> b, nul |-> nul]

Binary == {"choice", "interleave", "group", "dataExcept"}
Unary  == {"oneOrMore", "list", "attribute", "element"}

\* The patterns among the operands of a cell.
Operands(c) ==
  CASE c.kind \in Binary \cup {"after"} -> {c.a, c.b}
    [] c.kind \in Unary                 -> {c.a}
    [] OTHER                            -> {}

\* A pattern that is missing after an error is of no kind.
KindOf(st, p)     == IF p = NoPat THEN "error" ELSE st.heap[p].kind
NullableAt(st, p) == p # NoPat /\ st.heap[p].nul

InitStore ==
  [heap |-> <<Cell("notAllowed", 0, 0, FALSE), Cell("empty", 0, 0, TRUE),
              Cell("text", 0, 0, TRUE)>>,
   ht   |-> {rnNotAllowed, rnEmpty, rnText}]

-----------------------------------------------------------------------------
\* equal_p: flags do not count.
SameCell(c, d) == c.kind = d.kind /\ c.a = d.a /\ c.b = d.b

\* ht_get: the interned pattern that is equal to cell c.
HtGet(st, c) ==
  LET found == {i \in st.ht : SameCell(st.heap[i], c)}
  IN  IF found = {} THEN NoPat ELSE CHOOSE i \in found : TRUE

HtPut(st, p)  == [st EXCEPT !.ht = @ \cup {p}]
HtDeli(st, p) == [st EXCEPT !.ht = @ \ {p}]

\* rn_add_p: intern p unless an equal pattern is.
AddP(st, p) == IF HtGet(st, st.heap[p]) = NoPat THEN HtPut(st, p) ELSE st

Got(p, st) == [p |-> p, st |-> st]

\* accept_p.
Accept(st, c) ==
  LET j == HtGet(st, c)
      p == Len(st.heap) + 1
  IN  IF j # NoPat THEN Got(j, st)
      ELSE Got(p, [heap |-> Append(st.heap, c), ht |-> st.ht \cup {p}])

\* The constructors that do not simplify, with the flag each of them sets.
New(st, kind, a, b) ==
  LET nul == CASE kind = "choice"                   -> NullableAt(st, a) \/ NullableAt(st, b)
               [] kind \in {"interleave", "group"}  -> NullableAt(st, a) /\ NullableAt(st, b)
               [] kind = "oneOrMore"                -> NullableAt(st, a)
               [] OTHER                             -> FALSE
  IN  Accept(st, Cell(kind, a, b, nul))

\* rn_newRef: references are never interned, each is a cell of its own.
NewRef(st) ==
  LET p == Len(st.heap) + 1
  IN  Got(p, [st EXCEPT !.heap = Append(@, Cell("ref", NoPat, 0, FALSE))])

-----------------------------------------------------------------------------
(* The constructors that simplify. *)

RnOneOrMore(st, p) ==
  IF p \in {rnEmpty, rnNotAllowed, rnText} THEN Got(p, st) ELSE New(st, "oneOrMore", p, 0)

\* rn_group and rn_ileave.
RnBoth(st, kind, p1, p2) ==
  CASE rnNotAllowed \in {p1, p2} -> Got(rnNotAllowed, st)
    [] p1 = rnEmpty              -> Got(p2, st)
    [] p2 = rnEmpty              -> Got(p1, st)
    [] OTHER                     -> New(st, kind, p1, p2)

RECURSIVE SameAlternative(_, _, _)
SameAlternative(st, p1, p2) ==
  IF KindOf(st, p1) = "choice"
  THEN st.heap[p1].b = p2 \/ SameAlternative(st, st.heap[p1].a, p2)
  ELSE p1 = p2

RECURSIVE RnChoice(_, _, _)
RnChoice(st, p1, p2) ==
  IF p1 = rnNotAllowed THEN Got(p2, st)
  ELSE IF p2 = rnNotAllowed THEN Got(p1, st)
  ELSE IF KindOf(st, p2) = "choice"
  THEN LET r == RnChoice(st, p1, st.heap[p2].a)
       IN  RnChoice(r.st, r.p, st.heap[p2].b)
  ELSE IF SameAlternative(st, p1, p2) \/ (NullableAt(st, p1) /\ p2 = rnEmpty) THEN Got(p1, st)
  ELSE IF NullableAt(st, p2) /\ p1 = rnEmpty THEN Got(p2, st)
  ELSE New(st, "choice", p1, p2)

-----------------------------------------------------------------------------
(***************************************************************************)
(* rn_compress_last: after a schema is loaded, the cells above base that   *)
(* its start pattern does not reach are dropped, cells that have become    *)
(* equal are merged, and the rest is moved down.                           *)
(***************************************************************************)

(* mark_p: the cells above base that start reaches through cells above base. *)
RECURSIVE ReachFrom(_, _, _)
ReachFrom(heap, base, seen) ==
  LET more == {q \in UNION {Operands(heap[p]) : p \in seen} : q > base} \ seen
  IN  IF more = {} THEN seen ELSE ReachFrom(heap, base, seen \cup more)

\* Mutant: all interned cells are kept.
MarkInterned(st, start, base) == {p \in st.ht : p > base}

Mark(st, start, base) ==
  IF start > base THEN ReachFrom(st.heap, base, {start}) ELSE {}

-----------------------------------------------------------------------------
(***************************************************************************)
(* sweep_p.  A sweep is [st, live, x, changed]; x is xlat: where a cell is *)
(* redirected to, itself if nowhere, NoPat for cells that are not marked.  *)
(***************************************************************************)
\* redir_p: p is equal to the interned q.
Redirect(s, base, p, q) ==
  IF q <= base \/ s.x[q] # NoPat
  THEN [s EXCEPT !.live = @ \ {p}, !.x[p] = q, !.changed = TRUE]
  ELSE [s EXCEPT !.st = HtPut(HtDeli(@, q), p)]

\* The first loop: cells that were equal to another before the sweep.
RedirectOld(s, base, p) ==
  LET q == HtGet(s.st, s.st.heap[p])
  IN  IF s.x[p] = p /\ q # p THEN Redirect(s, base, p, q) ELSE s

\* The cell of p with its operands redirected.
Redirected(s, base, c) ==
  LET To(q) == IF q > base THEN s.x[q] ELSE q
  IN  [c EXCEPT !.a = IF c.kind \in Binary \cup Unary THEN To(@) ELSE @,
                !.b = IF c.kind \in Binary THEN To(@) ELSE @]

\* One cell in a pass of the second loop.
Touch(s, base, p) ==
  LET c  == s.st.heap[p]
      d  == Redirected(s, base, c)
      st == [HtDeli(s.st, p) EXCEPT !.heap[p] = d]
      q  == HtGet(st, d)
      t  == [s EXCEPT !.st = st, !.changed = TRUE]
  IN  IF s.x[p] # p \/ c = d THEN s
      ELSE IF q = NoPat THEN [t EXCEPT !.st = HtPut(st, p)]
      ELSE Redirect(t, base, p, q)

Above(st, base) == [i \in 1 .. Len(st.heap) - base |-> base + i]

RECURSIVE Passes(_, _)
Passes(s, base) ==
  IF ~s.changed THEN s
  ELSE Passes(FoldLeft(LAMBDA t, p : Touch(t, base, p), [s EXCEPT !.changed = FALSE],
                       Above(s.st, base)), base)

Sweep(st, live, base) ==
  LET s0 == [st |-> st, live |-> live, changed |-> FALSE,
             x |-> [p \in base + 1 .. Len(st.heap) |-> IF p \in live THEN p ELSE NoPat]]
  IN  Passes(FoldLeft(LAMBDA t, p : RedirectOld(t, base, p), s0, Above(st, base)), base)

-----------------------------------------------------------------------------
(***************************************************************************)
(* unmark_p and compress_p: cells that are not live leave the table, live  *)
(* ones move down to close the gaps.                                       *)
(***************************************************************************)
Compacted(st, live, base) ==
  LET place == [p \in live |-> base + Cardinality({q \in live : q <= p})]
      from  == [i \in 1 .. Cardinality(live) |-> CHOOSE p \in live : place[p] = base + i]
      To(q) == IF q > base THEN (IF q \in live THEN place[q] ELSE NoPat) ELSE q
      Move(c) == [c EXCEPT !.a = IF c.kind \in Binary \cup Unary THEN To(@) ELSE @,
                           !.b = IF c.kind \in Binary THEN To(@) ELSE @]
  IN  [st |-> [heap |-> SubSeq(st.heap, 1, base) \o [i \in DOMAIN from |-> Move(st.heap[from[i]])],
               ht   |-> {p \in st.ht : p <= base} \cup {place[p] : p \in live}],
       to |-> [p \in base + 1 .. Len(st.heap) |-> To(p)]]

\* rn_compress_last.
CompressLast(st, start, base) ==
  LET s == Sweep(st, Mark(st, start, base), base)
      swept == IF start > base THEN s.x[start] ELSE start
      c == Compacted(s.st, s.live, base)
  IN  Got(IF swept > base THEN c.to[swept] ELSE swept, c.st)
=============================================================================
