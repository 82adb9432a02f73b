------------------------------- MODULE Loader -------------------------------
(***************************************************************************)
(* Loading schemas into one Document (rnl.c): each load reads the schema,  *)
(* dereferences it, checks it, computes its flags and compresses it, and   *)
(* all loads of a Document share its pattern store.  Between loads the     *)
(* validation of documents derives more patterns (drv.c).                  *)
(***************************************************************************)
EXTENDS Compile, Fixup

LOCAL INSTANCE SequencesExt

CONSTANTS
  Schemas,     \* the schemas a program may load first
  Again,       \* bound on those it may load after that
  MaxLoads,    \* bound on the number of loads
  MaxDerived   \* bound on the patterns derived in between

ASSUME LoadBounds == Again \subseteq Schemas /\ MaxLoads \in Nat /\ MaxDerived \in Nat

VARIABLES
  store,     \* rn_pattern and ht_p
  base,      \* base_p: the last pattern of before this load
  phase,     \* how far load() is
  start,     \* the start pattern, as far as it is known
  flat,      \* flat of rnd.c
  errs,      \* the errors that this load reported
  schema,    \* the schema being loaded, the last one if none is
  loaded,    \* history: the loads that succeeded, [schema, start]
  loads, derived

vars == <<store, base, phase, start, flat, errs, schema, loaded, loads, derived>>

Phases == {"idle", "parsed", "dereferenced", "checked", "fixed", "failed", "hung", "crashed"}

Init ==
  /\ store = InitStore /\ base = BASE_P
  /\ phase = "idle" /\ start = NoPat /\ flat = <<>> /\ errs = {}
  /\ schema = <<>> /\ loaded = <<>> /\ loads = 0 /\ derived = 0

\* A load is over when it succeeded or failed; only then comes another call.
Ready == phase \in {"idle", "failed"}

\* Mutant: base_p is not set for a new schema.
ParseKeepsBase(g) ==
  /\ Ready /\ loads < MaxLoads
  /\ \E r \in {RncParse(store, g)} :
       /\ store' = r.st /\ start' = r.start /\ errs' = r.errs
       /\ phase' = IF r.errs = {} THEN "parsed" ELSE "failed"
  /\ schema' = g /\ loads' = loads + 1 /\ flat' = <<>>
  /\ UNCHANGED <<base, loaded, derived>>

\* load: rnc_parse, after rn_new_schema.
Parse(g) ==
  /\ Ready /\ loads < MaxLoads
  /\ base' = Len(store.heap)
  /\ \E r \in {RncParse(store, g)} :
       /\ store' = r.st /\ start' = r.start /\ errs' = r.errs
       /\ phase' = IF r.errs = {} THEN "parsed" ELSE "failed"
  /\ schema' = g /\ loads' = loads + 1 /\ flat' = <<>>
  /\ UNCHANGED <<loaded, derived>>

\* rnd_fixup: deref.
Dereference ==
  /\ phase = "parsed"
  /\ \E d \in {Deref(store, start)} :
       /\ store' = d.st /\ flat' = d.flat
       /\ phase' = IF Contains(d.flat, NoPat) THEN "hung" ELSE "dereferenced"
  /\ UNCHANGED <<base, start, errs, schema, loaded, loads, derived>>


\* rnd_fixup: restrictions.
Restrictions ==
  /\ phase = "dereferenced"
  /\ \E l \in {LoopErrors(store.heap, flat)} :
       \/ /\ l # {}
          /\ errs' = l /\ phase' = "failed"
       \/ /\ l = {} /\ Endless(store.heap, flat)
          /\ errs' = l /\ phase' = "crashed"
       \/ /\ l = {} /\ ~Endless(store.heap, flat)
          /\ errs' = TypeErrors(store.heap, flat) \cup BadPaths(store.heap, flat)
          /\ phase' = IF "assertion" \in errs' THEN "crashed"
                      ELSE IF errs' # {} THEN "failed" ELSE "checked"
  /\ UNCHANGED <<store, base, start, flat, schema, loaded, loads, derived>>

\* Mutant: one round over the patterns.
TraitsOnce ==
  /\ phase = "checked"
  /\ store' = [store EXCEPT !.heap = FoldLeft(SetNullable, @, flat)]
  /\ start' = flat[1]
  /\ phase' = "fixed"
  /\ UNCHANGED <<base, flat, errs, schema, loaded, loads, derived>>

\* rnd_fixup: traits and release.
Traits ==
  /\ phase = "checked"
  /\ store' = [store EXCEPT !.heap = Nullables(@, flat)]
  /\ start' = flat[1]
  /\ phase' = "fixed"
  /\ UNCHANGED <<base, flat, errs, schema, loaded, loads, derived>>

\* rn_compress_last, and load() returns.
CompressStart ==
  /\ phase = "fixed"
  /\ \E c \in {CompressLast(store, start, base)} :
       /\ store' = c.st /\ start' = c.p
       /\ loaded' = Append(loaded, [schema |-> schema, start |-> c.p])
  /\ phase' = "idle"
  /\ UNCHANGED <<base, flat, errs, schema, loads, derived>>

\* The patterns that p reaches.
RECURSIVE Reachable(_, _)
Reachable(heap, seen) ==
  LET more == UNION {Operands(heap[p]) : p \in seen} \ seen
  IN  IF more = {} THEN seen ELSE Reachable(heap, seen \cup more)

\* Validation: a pattern is made of those that the schema consists of.  Nothing looks
\* at it but a later load.
Derive ==
  /\ Ready /\ loaded # <<>> /\ derived < MaxDerived
  /\ loads < MaxLoads
  /\ \E p \in Reachable(store.heap, {Last(loaded).start}) :
       store' = RnChoice(store, p, Last(loaded).start).st
  /\ derived' = derived + 1
  /\ UNCHANGED <<base, phase, start, flat, errs, schema, loaded, loads>>

Next ==
  \/ \E g \in IF loads = 0 THEN Schemas ELSE Again : Parse(g)
  \/ Dereference
  \/ Restrictions
  \/ Traits
  \/ CompressStart
  \/ Derive

Spec == Init /\ [][Next]_vars
=============================================================================
